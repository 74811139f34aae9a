-------------------------- MODULE EventChainProofs --------------------------
(***************************************************************************)
(* Proofs about EventChain, for any processes, verifications and bound.    *)
(* While nobody damages the events the chain is the history itself         *)
(* (Intact), and an append works on the head of the chain it locked        *)
(* (Locked).  Damage leaves a broken link, which appends never mend, or a  *)
(* chain that is shorter than its anchor says (Detectable), until somebody *)
(* re-chains the events; and what a verification read before an append it  *)
(* did not see stays behind it (Behind).                                   *)
(***************************************************************************)
EXTENDS EventChain, SequenceTheorems, TLAPS

-----------------------------------------------------------------------------
(* The inductive invariant                                                 *)

Hashes == Seq(Int) \ {<< >>}

Row == [body : Nat, prev : Hashes \cup {None}, hash : Hashes \cup {None}]

Anchor == [count : Nat, head : Hashes \cup {None}]

Appending == [pc : {"idle", "locked", "read"}, prev : Hashes \cup {None}]

Reader == [pc : {"idle", "trail", "verify", "events", "done"},
           row : Nat \cup {None}, trail : Seq(Nat), seen : Anchor,
           verdict : BOOLEAN, disturbed : BOOLEAN,
           saw : {"no", "yes", "rechained"}]

ChainTypes ==
  /\ rows \in Seq(Row)
  /\ anchor \in Anchor
  /\ lock \in Processes \cup {None}
  /\ appends \in [Processes -> Appending]
  /\ readers \in [Verifiers -> Reader]
  /\ opened \in BOOLEAN
  /\ recorded \in Nat
  /\ damaged \in {"no", "yes", "rechained"}

\* What an append writes as the hash before it.
HeadText ==
  IF rows # << >> /\ HeadHash(rows) = None THEN NoneText ELSE HeadHash(rows)

\* A transaction that appends holds the lock, and the head it read is current.
Locked ==
  \A p \in Processes : appends[p].pc # "idle" =>
    /\ lock = p
    /\ opened
    /\ appends[p].pc = "read" => appends[p].prev = HeadText

\* The hash of the n-th event recorded.
HashAt(n) == IF n = 0 THEN None ELSE [j \in 1..n |-> j]

\* Undamaged, the chain is the history.
Intact ==
  damaged = "no" =>
    /\ Len(rows) = recorded
    /\ \A i \in DOMAIN rows : rows[i].body = i
    /\ opened => Migrated
    /\ Migrated =>
         /\ \A i \in DOMAIN rows :
              rows[i].prev = HashAt(i - 1) /\ rows[i].hash = HashAt(i)
         /\ anchor = [count |-> recorded, head |-> HashAt(recorded)]

\* The hash of the event before the i-th.
PrevHash(events, i) == IF i = 1 THEN None ELSE events[i - 1].hash

Linked(events, i) ==
  /\ events[i].prev = PrevHash(events, i)
  /\ events[i].hash = EventHash(events[i].body, events[i].prev)

BrokenLink == \E i \in DOMAIN rows : ~Linked(rows, i)

\* The body of the last event a hash commits to.
LastBody(hash) == IF hash = None THEN 0 ELSE hash[Len(hash)]

\* The anchor seen belongs to a longer chain, or to one that ended earlier.
Behind(seen) ==
  /\ LastBody(seen.head) <= recorded
  /\ \/ Len(rows) < seen.count
     \/ LastBody(seen.head) < LastBody(HeadHash(rows))

\* Damage is visible in the events, or in their number.
Detectable ==
  damaged = "yes" =>
    \/ BrokenLink
    \/ LastBody(anchor.head) <= recorded /\ Len(rows) < anchor.count

\* A verification that began after the damage cannot come out well, unless the
\* events are re-chained before it ends.
Reporting ==
  \A v \in Verifiers : readers[v].saw = "yes" =>
    /\ damaged # "no"
    /\ damaged = "yes" /\ readers[v].pc = "events" =>
         BrokenLink \/ Behind(readers[v].seen)
    /\ readers[v].pc = "done" => ~readers[v].verdict

\* A verification that nothing disturbed sees one state of the chain.
Quiet ==
  \A v \in Verifiers :
    /\ readers[v].pc # "idle" => opened
    /\ damaged = "no" /\ ~readers[v].disturbed =>
         /\ readers[v].pc = "events" =>
              readers[v].seen = [count |-> Len(rows), head |-> HeadHash(rows)]
         /\ readers[v].pc = "done" => readers[v].verdict

\* The trail shown is a beginning of the history, and not older than its run.
TrueTrail(reader) ==
  /\ Len(reader.trail) <= recorded
  /\ \A i \in DOMAIN reader.trail : reader.trail[i] = i
  /\ reader.row <= Len(reader.trail)

\* Otherwise the events were damaged before the trail read them, so before its
\* verification began.
Genuine ==
  \A v \in Verifiers :
    /\ readers[v].pc = "idle" => readers[v].row = None
    /\ readers[v].row # None =>
         /\ damaged = "no" /\ readers[v].pc = "trail" => readers[v].row <= Len(rows)
         /\ readers[v].pc \in {"verify", "events", "done"} =>
              \/ TrueTrail(readers[v])
              \/ damaged # "no" /\ (readers[v].pc = "verify" \/ readers[v].saw # "no")

ChainInv ==
  ChainTypes /\ Locked /\ Intact /\ Detectable /\ Reporting /\ Quiet /\ Genuine

-----------------------------------------------------------------------------
(* Hashes and sequences                                                    *)

LEMMA NoneIsNoHash == None \notin Hashes /\ None \notin Processes
  BY ChainAssumption DEF Hashes

LEMMA NoneTextType == NoneText \in Hashes
  <1>1. <<-1>> \in Seq(Int) /\ <<-1>> # << >>
    OBVIOUS
  <1> QED
    BY <1>1 DEF NoneText, Hashes

LEMMA HashAtType ==
  ASSUME NEW n \in Nat
  PROVE  /\ HashAt(n) \in Hashes \cup {None}
         /\ n > 0 => /\ HashAt(n) \in Hashes
                     /\ Len(HashAt(n)) = n
                     /\ HashAt(n)[n] = n
         /\ LastBody(HashAt(n)) = n
  <1>1. CASE n = 0
    BY <1>1 DEF HashAt, LastBody
  <1>2. CASE n > 0
    <2>1. [j \in 1..n |-> j] \in Seq(Int) /\ Len([j \in 1..n |-> j]) = n
      OBVIOUS
    <2>2. HashAt(n) = [j \in 1..n |-> j]
      BY <1>2 DEF HashAt
    <2>3. HashAt(n) \in Hashes /\ HashAt(n)[n] = n
      BY <1>2, <2>1, <2>2 DEF Hashes
    <2> QED
      BY <2>1, <2>2, <2>3, NoneIsNoHash DEF LastBody
  <1> QED
    BY <1>1, <1>2

\* The hash of an event is a hash, and its last body is the event's.
LEMMA EventHashLast ==
  ASSUME NEW body \in Nat, NEW prev \in Hashes \cup {None}
  PROVE  /\ EventHash(body, prev) \in Hashes
         /\ EventHash(body, prev) # None
         /\ LastBody(EventHash(body, prev)) = body
  <1> DEFINE before == IF prev = None THEN << >> ELSE prev
  <1>1. before \in Seq(Int)
    BY DEF Hashes
  <1> HIDE DEF before
  <1>2. /\ Append(before, body) \in Hashes
        /\ Append(before, body)[Len(Append(before, body))] = body
    BY <1>1 DEF Hashes
  <1>3. EventHash(body, prev) = Append(before, body)
    BY DEF EventHash, before
  <1> QED
    BY <1>2, <1>3, NoneIsNoHash DEF LastBody

\* The hashes of the history are linked to each other.
LEMMA HistoryIsLinked ==
  ASSUME NEW n \in Nat
  PROVE  EventHash(n + 1, HashAt(n)) = HashAt(n + 1)
  <1>1. CASE n = 0
    <2>1. Append(<< >>, 1) = [j \in 1..1 |-> j]
      OBVIOUS
    <2> QED
      BY <1>1, <2>1 DEF EventHash, HashAt
  <1>2. CASE n > 0
    <2> DEFINE old == [j \in 1..n |-> j]
               new == [j \in 1..(n + 1) |-> j]
    <2>1. HashAt(n) = old /\ HashAt(n + 1) = new
      BY <1>2 DEF HashAt
    <2>2. HashAt(n) # None
      <3>1. HashAt(n) \in Hashes
        BY <1>2, HashAtType
      <3> QED
        BY <3>1, NoneIsNoHash
    <2>3. old \in Seq(Nat) /\ Len(old) = n /\ new \in Seq(Nat) /\ Len(new) = n + 1
      OBVIOUS
    <2>4. Append(old, n + 1) \in Seq(Nat) /\ Len(Append(old, n + 1)) = n + 1
      BY <2>3
    <2>5. \A j \in 1..(n + 1) : Append(old, n + 1)[j] = new[j]
      BY <2>3
    <2>6. Append(old, n + 1) = new
      BY <2>3, <2>4, <2>5
    <2> QED
      BY <2>2, <2>1, <2>6 DEF EventHash
  <1> QED
    BY <1>1, <1>2

LEMMA HeadOfPrefix ==
  ASSUME NEW events \in Seq(Row), NEW i \in DOMAIN events
  PROVE  HeadHash(SubSeq(events, 1, i - 1)) = PrevHash(events, i)
  <1> DEFINE before == SubSeq(events, 1, i - 1)
  <1>1. /\ before \in Seq(Row)
        /\ Len(before) = i - 1
        /\ \A k \in 1..(i - 1) : before[k] = events[k]
    OBVIOUS
  <1> HIDE DEF before
  <1>2. CASE i = 1
    BY <1>1, <1>2 DEF HeadHash, PrevHash
  <1>3. CASE i > 1
    BY <1>1, <1>3 DEF HeadHash, PrevHash
  <1> QED
    BY <1>2, <1>3 DEF before

\* What verify_event_chain checks, event by event.
LEMMA VerifiedIs ==
  ASSUME NEW run, NEW events \in Seq(Row)
  PROVE  Verified(run, events) <=>
           /\ \A i \in DOMAIN events : Linked(events, i)
           /\ run.count = Len(events)
           /\ run.head = HeadHash(events)
  BY HeadOfPrefix DEF Verified, Linked

LEMMA RowColumns ==
  ASSUME NEW events \in Seq(Row), NEW i \in 1..Len(events)
  PROVE  /\ events[i] \in Row
         /\ events[i].body \in Nat
         /\ events[i].prev \in Hashes \cup {None}
         /\ events[i].hash \in Hashes \cup {None}
  <1>1. events[i] \in Row
    OBVIOUS
  <1> QED
    BY <1>1 DEF Row

LEMMA HeadHashType ==
  ASSUME NEW events \in Seq(Row)
  PROVE  HeadHash(events) \in Hashes \cup {None}
  <1>1. CASE events = << >>
    BY <1>1 DEF HeadHash
  <1>2. CASE events # << >>
    <2>1. events[Len(events)] \in Row
      BY <1>2
    <2> QED
      BY <1>2, <2>1 DEF HeadHash, Row
  <1> QED
    BY <1>1, <1>2

\* The events after one more.
LEMMA Appended ==
  ASSUME NEW events \in Seq(Row), NEW row \in Row
  PROVE  LET after == Append(events, row) IN
         /\ after \in Seq(Row)
         /\ Len(after) = Len(events) + 1
         /\ after # << >>
         /\ HeadHash(after) = row.hash
         /\ after[Len(events) + 1] = row
         /\ \A i \in DOMAIN events :
              /\ i \in DOMAIN after
              /\ after[i] = events[i]
              /\ PrevHash(after, i) = PrevHash(events, i)
         /\ PrevHash(after, Len(events) + 1) = HeadHash(events)
  <1> DEFINE after == Append(events, row)
  <1>1. /\ after \in Seq(Row)
        /\ Len(after) = Len(events) + 1
        /\ after # << >>
        /\ after[Len(events) + 1] = row
        /\ \A i \in DOMAIN events : i \in DOMAIN after /\ after[i] = events[i]
    OBVIOUS
  <1> HIDE DEF after
  <1>2. HeadHash(after) = row.hash
    BY <1>1 DEF HeadHash
  <1>3. \A i \in DOMAIN events : PrevHash(after, i) = PrevHash(events, i)
    BY <1>1 DEF PrevHash
  <1>4. PrevHash(after, Len(events) + 1) = HeadHash(events)
    BY <1>1 DEF HeadHash, PrevHash
  <1> QED
    BY <1>1, <1>2, <1>3, <1>4 DEF after

\* The events without the i-th.
LEMMA Removed ==
  ASSUME NEW events \in Seq(Row), NEW i \in DOMAIN events
  PROVE  LET after == SubSeq(events, 1, i - 1)
                        \o SubSeq(events, i + 1, Len(events)) IN
         /\ after \in Seq(Row)
         /\ Len(after) = Len(events) - 1
         /\ \A k \in DOMAIN after :
              after[k] = IF k < i THEN events[k] ELSE events[k + 1]
  <1> DEFINE front == SubSeq(events, 1, i - 1)
             back == SubSeq(events, i + 1, Len(events))
             after == front \o back
  <1>1. /\ front \in Seq(Row)
        /\ Len(front) = i - 1
        /\ \A k \in 1..(i - 1) : front[k] = events[k]
    OBVIOUS
  <1>2. /\ back \in Seq(Row)
        /\ Len(back) = Len(events) - i
        /\ \A k \in 1..(Len(events) - i) : back[k] = events[i + k]
    OBVIOUS
  <1>3. Len(events) \in Nat /\ i \in 1..Len(events)
    OBVIOUS
  <1> HIDE DEF front, back
  <1>4. /\ after \in Seq(Row)
        /\ Len(after) = Len(events) - 1
    BY <1>1, <1>2, <1>3
  <1>5. ASSUME NEW k \in 1..(Len(events) - 1)
        PROVE  after[k] = IF k < i THEN events[k] ELSE events[k + 1]
    <2>1. CASE k < i
      <3>1. front[k] = events[k] /\ k \in 1..Len(front)
        BY <1>1, <1>3, <2>1
      <3>2. after[k] = front[k]
        BY <1>1, <1>2, <1>3, <3>1
      <3> QED
        BY <2>1, <3>1, <3>2
    <2>2. CASE k >= i
      <3>1. /\ k - (i - 1) \in 1..(Len(events) - i)
            /\ i + (k - (i - 1)) = k + 1
        BY <1>3, <2>2
      <3>2. back[k - (i - 1)] = events[k + 1]
        BY <1>2, <3>1
      <3>3. after[k] = back[k - (i - 1)]
        <4>1. /\ k \in Nat /\ Len(front) = i - 1
              /\ ~(k <= Len(front)) /\ k \in 1..(Len(front) + Len(back))
          BY <1>1, <1>2, <1>3, <2>2
        <4>2. after[k] = IF k <= Len(front) THEN front[k] ELSE back[k - Len(front)]
          BY <1>1, <1>2, <4>1, ConcatProperties
        <4> QED
          BY <4>1, <4>2
      <3> QED
        BY <1>3, <2>2, <3>2, <3>3
    <2>3. k < i \/ k >= i
      BY <1>3
    <2> QED
      BY <2>1, <2>2, <2>3
  <1>6. DOMAIN after = 1..(Len(events) - 1)
    BY <1>3, <1>4
  <1> QED
    BY <1>4, <1>5, <1>6 DEF front, back

-----------------------------------------------------------------------------
(* Types and the lock                                                      *)

LEMMA ChainedType == rows \in Seq(Row) => Chained \in Seq(Row) /\ Len(Chained) = Len(rows)
  <1> SUFFICES ASSUME rows \in Seq(Row)
               PROVE  Chained \in Seq(Row) /\ Len(Chained) = Len(rows)
    OBVIOUS
  <1> DEFINE hash(i) == IF i = 0 THEN None ELSE [j \in 1..i |-> rows[j].body]
  <1>1. ASSUME NEW i \in 0..Len(rows)
        PROVE  hash(i) \in Hashes \cup {None}
    <2>1. CASE i = 0
      BY <2>1
    <2>2. CASE i > 0
      <3>1. \A j \in 1..i : rows[j].body \in Int
        BY RowColumns
      <3>2. [j \in 1..i |-> rows[j].body] \in Seq(Int)
        BY <3>1
      <3> QED
        BY <2>2, <3>2 DEF Hashes
    <2> QED
      BY <2>1, <2>2
  <1>2. Chained = [i \in 1..Len(rows) |->
          [body |-> rows[i].body, prev |-> hash(i - 1), hash |-> hash(i)]]
    BY DEF Chained
  <1> HIDE DEF hash
  <1>3. ASSUME NEW i \in 1..Len(rows)
        PROVE  [body |-> rows[i].body, prev |-> hash(i - 1), hash |-> hash(i)]
                 \in Row
    <2>1. rows[i].body \in Nat
      BY RowColumns
    <2>2. hash(i - 1) \in Hashes \cup {None} /\ hash(i) \in Hashes \cup {None}
      BY <1>1
    <2> QED
      BY <2>1, <2>2 DEF Row
  <1> QED
    BY <1>2, <1>3

LEMMA InitTypes == Init => ChainTypes
  <1> SUFFICES ASSUME Init
               PROVE  ChainTypes
    OBVIOUS
  <1>1. rows \in Seq(Row)
    <2>1. recorded \in Nat
      BY ChainAssumption DEF Init
    <2>2. \A i \in 1..recorded : [body |-> i, prev |-> None, hash |-> None] \in Row
      BY <2>1 DEF Row
    <2> QED
      BY <2>1, <2>2 DEF Init
  <1>2. readers \in [Verifiers -> Reader]
    <2>1. NoReader \in Reader
      BY DEF NoReader, Reader, Anchor
    <2> QED
      BY <2>1 DEF Init
  <1>3. appends \in [Processes -> Appending]
    BY DEF Init, NoAppend, Appending
  <1> QED
    <2>1. /\ damaged \in {"no", "yes", "rechained"}
          /\ opened \in BOOLEAN
          /\ lock \in Processes \cup {None}
      BY DEF Init
    <2>2. anchor \in Anchor
      BY DEF Init, Anchor
    <2>3. recorded \in Nat
      BY ChainAssumption DEF Init
    <2> QED
      BY <1>1, <1>2, <1>3, <2>1, <2>2, <2>3 DEF ChainTypes

\* What damage makes of the events before it clears hashes: one of another
\* body, one removed, two swapped.
Changed(events) == \E i \in DOMAIN rows : events = [rows EXCEPT ![i].body = 0]

Shortened(events) ==
  \E i \in DOMAIN rows :
    events = SubSeq(rows, 1, i - 1) \o SubSeq(rows, i + 1, Len(rows))

Swapped(events) ==
  \E i \in 1..(Len(rows) - 1) :
    events = [rows EXCEPT ![i] = rows[i + 1], ![i + 1] = rows[i]]

LEMMA DamageIs ==
  ASSUME Damage
  PROVE  \E events, places :
           /\ rows' = Cleared(events, places)
           /\ \/ Changed(events) \/ Shortened(events) \/ Swapped(events)
              \/ events = rows /\ places \cap DOMAIN rows # {}
  <1>1. PICK events \in Altered, places \in SUBSET DOMAIN rows :
          /\ events # rows \/ places # {}
          /\ rows' = Cleared(events, places)
    BY DEF Damage
  <1>2. Changed(events) \/ Shortened(events) \/ Swapped(events) \/ events = rows
    BY DEF Altered, Changed, Shortened, Swapped
  <1>3. events = rows => places \cap DOMAIN rows # {}
    BY <1>1
  <1> QED
    BY <1>1, <1>2, <1>3

LEMMA ClearedIs ==
  ASSUME NEW events \in Seq(Row), NEW places
  PROVE  /\ Cleared(events, places) \in Seq(Row)
         /\ DOMAIN Cleared(events, places) = DOMAIN events
         /\ \A i \in places \cap DOMAIN events :
              Cleared(events, places)[i].hash = None
         /\ places \cap DOMAIN events = {} => Cleared(events, places) = events
  <1> DEFINE row(i) == IF i \in places THEN [events[i] EXCEPT !.hash = None]
                                       ELSE events[i]
  <1>1. ASSUME NEW i \in 1..Len(events)
        PROVE  row(i) \in Row /\ (i \in places => row(i).hash = None)
    <2>1. events[i] \in Row
      BY RowColumns
    <2> QED
      BY <2>1 DEF Row
  <1>2. Cleared(events, places) = [i \in 1..Len(events) |-> row(i)]
    BY DEF Cleared
  <1>3. places \cap DOMAIN events = {} => \A i \in 1..Len(events) : row(i) = events[i]
    OBVIOUS
  <1> HIDE DEF row
  <1>4. /\ Cleared(events, places) \in Seq(Row)
        /\ DOMAIN Cleared(events, places) = 1..Len(events)
        /\ \A i \in 1..Len(events) : Cleared(events, places)[i] = row(i)
    BY <1>1, <1>2
  <1>5. places \cap DOMAIN events = {} => Cleared(events, places) = events
    BY <1>2, <1>3
  <1> QED
    BY <1>1, <1>4, <1>5

LEMMA DamagedType ==
  ASSUME rows \in Seq(Row), NEW events,
         Changed(events) \/ Shortened(events) \/ Swapped(events) \/ events = rows
  PROVE  events \in Seq(Row)
  <1>1. CASE Changed(events)
    <2>1. PICK i \in DOMAIN rows : events = [rows EXCEPT ![i].body = 0]
      BY <1>1 DEF Changed
    <2>2. [rows[i] EXCEPT !.body = 0] \in Row
      <3>1. rows[i] \in Row
        BY RowColumns
      <3> QED
        BY <3>1 DEF Row
    <2>3. events = [rows EXCEPT ![i] = [rows[i] EXCEPT !.body = 0]]
      BY <2>1
    <2> QED
      BY <2>2, <2>3
  <1>2. CASE Shortened(events)
    BY <1>2, Removed DEF Shortened
  <1>3. CASE Swapped(events)
    BY <1>3 DEF Swapped
  <1> QED
    BY <1>1, <1>2, <1>3

LEMMA DamageTypes == rows \in Seq(Row) /\ Damage => rows' \in Seq(Row)
  BY DamageIs, DamagedType, ClearedIs

LEMMA TypesStep == ChainTypes /\ [Next]_vars => ChainTypes'
  <1> SUFFICES ASSUME ChainTypes, [Next]_vars
               PROVE  ChainTypes'
    OBVIOUS
  <1>t. /\ rows \in Seq(Row)
        /\ anchor \in Anchor
        /\ lock \in Processes \cup {None}
        /\ appends \in [Processes -> Appending]
        /\ readers \in [Verifiers -> Reader]
        /\ opened \in BOOLEAN
        /\ recorded \in Nat
        /\ damaged \in {"no", "yes", "rechained"}
    BY DEF ChainTypes
  <1>h. HeadHash(rows) \in Hashes \cup {None} /\ Len(rows) \in Nat
    BY <1>t, HeadHashType
  <1>1. CASE Backfill
    <2>1. rows' \in Seq(Row)
      BY <1>1, <1>t, ChainedType DEF Backfill
    <2>2. HeadHash(rows') \in Hashes \cup {None}
      BY <2>1, HeadHashType
    <2>3. anchor' \in Anchor
      BY <1>1, <1>t, <1>h, <2>2 DEF Backfill, Anchor
    <2> QED
      BY <1>1, <1>t, <2>1, <2>3 DEF Backfill, ChainTypes
  <1>2. ASSUME NEW p \in Processes, BeginAppend(p)
        PROVE  ChainTypes'
    BY <1>2, <1>t DEF BeginAppend, ChainTypes, Appending
  <1>3. ASSUME NEW p \in Processes, ReadHead(p)
        PROVE  ChainTypes'
    <2> DEFINE prev == IF rows # << >> /\ HeadHash(rows) = None
                       THEN NoneText ELSE HeadHash(rows)
    <2>1. prev \in Hashes \cup {None}
      BY <1>h, NoneTextType
    <2>2. appends' = [appends EXCEPT ![p] = [pc |-> "read", prev |-> prev]]
      BY <1>3 DEF ReadHead
    <2> HIDE DEF prev
    <2>3. appends' \in [Processes -> Appending]
      BY <1>t, <2>1, <2>2 DEF Appending
    <2> QED
      BY <1>3, <1>t, <2>3 DEF ReadHead, ChainTypes
  <1>4. ASSUME NEW p \in Processes, CommitAppend(p)
        PROVE  ChainTypes'
    <2> DEFINE hash == EventHash(recorded + 1, appends[p].prev)
               row == [body |-> recorded + 1, prev |-> appends[p].prev,
                       hash |-> hash]
    <2>1. appends[p].prev \in Hashes \cup {None}
      BY <1>t DEF Appending
    <2>2. hash \in Hashes
      BY <1>t, <2>1, EventHashLast
    <2> HIDE DEF hash
    <2>3. row \in Row
      BY <1>t, <2>1, <2>2 DEF Row
    <2>4. rows' = Append(rows, row)
      BY <1>4 DEF CommitAppend, hash
    <2> HIDE DEF row
    <2>5. rows' \in Seq(Row)
      BY <1>t, <2>3, <2>4
    <2>6. anchor' \in Anchor
      <3>1. anchor' = [count |-> anchor.count + 1, head |-> hash]
        BY <1>4 DEF CommitAppend, hash
      <3> QED
        BY <1>t, <2>2, <3>1 DEF Anchor
    <2>7. readers' \in [Verifiers -> Reader]
      <3> DEFINE reader(v) ==
                   [readers[v] EXCEPT !.disturbed = @ \/ readers[v].pc = "events"]
      <3>1. readers' = [v \in Verifiers |-> reader(v)]
        BY <1>4 DEF CommitAppend
      <3>2. ASSUME NEW v \in Verifiers
            PROVE  reader(v) \in Reader
        <4>1. readers[v] \in Reader
          BY <1>t
        <4> QED
          BY <4>1 DEF Reader
      <3> HIDE DEF reader
      <3> QED
        BY <3>1, <3>2
    <2>8. appends' \in [Processes -> Appending] /\ lock' = None
      BY <1>4, <1>t DEF CommitAppend, EndAppend, NoAppend, Appending
    <2>9. recorded' \in Nat /\ UNCHANGED <<opened, damaged>>
      BY <1>4, <1>t DEF CommitAppend
    <2> QED
      BY <1>t, <2>5, <2>6, <2>7, <2>8, <2>9 DEF ChainTypes
  <1>5. ASSUME NEW p \in Processes, AbortAppend(p)
        PROVE  ChainTypes'
    BY <1>5, <1>t DEF AbortAppend, EndAppend, NoAppend, ChainTypes, Appending
  <1>6. ASSUME NEW v \in Verifiers, TrailRun(v)
        PROVE  ChainTypes'
    <2> DEFINE reader == [readers[v] EXCEPT !.pc = "trail", !.row = anchor.count]
    <2>1. readers[v] \in Reader /\ anchor.count \in Nat
      BY <1>t DEF Anchor
    <2>2. reader \in Reader
      BY <2>1 DEF Reader
    <2>3. readers' = [readers EXCEPT ![v] = reader]
      BY <1>6 DEF TrailRun
    <2> HIDE DEF reader
    <2>4. readers' \in [Verifiers -> Reader]
      BY <1>t, <2>2, <2>3
    <2> QED
      BY <1>6, <1>t, <2>4 DEF TrailRun, ChainTypes
  <1>7. ASSUME NEW v \in Verifiers, TrailEvents(v)
        PROVE  ChainTypes'
    <2>1. \A i \in 1..Len(rows) : rows[i].body \in Nat
      BY <1>t, RowColumns
    <2>2. [i \in DOMAIN rows |-> rows[i].body] \in Seq(Nat)
      BY <1>t, <2>1
    <2> DEFINE trail == [i \in DOMAIN rows |-> rows[i].body]
               reader == [readers[v] EXCEPT !.pc = "verify", !.trail = trail]
    <2>3. readers' = [readers EXCEPT ![v] = reader]
      BY <1>7 DEF TrailEvents
    <2>4. readers[v] \in Reader
      BY <1>t
    <2> HIDE DEF trail
    <2>5. reader \in Reader
      BY <2>2, <2>4 DEF Reader, trail
    <2> HIDE DEF reader
    <2>6. readers' \in [Verifiers -> Reader]
      BY <1>t, <2>3, <2>5
    <2> QED
      BY <1>7, <1>t, <2>6 DEF TrailEvents, ChainTypes
  <1>8. ASSUME NEW v \in Verifiers, VerifyRun(v)
        PROVE  ChainTypes'
    <2>1. readers' \in [Verifiers -> Reader]
      <3> DEFINE reader == [readers[v] EXCEPT !.pc = "events", !.seen = anchor,
                                             !.saw = damaged]
      <3>1. readers[v] \in Reader
        BY <1>t
      <3>2. reader \in Reader
        BY <1>t, <3>1 DEF Reader
      <3>3. readers' = [readers EXCEPT ![v] = reader]
        BY <1>8 DEF VerifyRun
      <3> HIDE DEF reader
      <3> QED
        BY <1>t, <3>2, <3>3
    <2> QED
      BY <1>8, <1>t, <2>1 DEF VerifyRun, ChainTypes
  <1>9. ASSUME NEW v \in Verifiers, VerifyEvents(v)
        PROVE  ChainTypes'
    <2>1. Verified(readers[v].seen, rows) \in BOOLEAN
      BY DEF Verified
    <2> DEFINE verdict == Verified(readers[v].seen, rows)
               saw == IF damaged = "rechained" THEN damaged ELSE readers[v].saw
               reader == [readers[v] EXCEPT !.pc = "done", !.verdict = verdict,
                                            !.saw = saw]
    <2>2. readers' = [readers EXCEPT ![v] = reader]
      BY <1>9 DEF VerifyEvents
    <2>3. readers[v] \in Reader
      BY <1>t
    <2> HIDE DEF verdict
    <2>4. reader \in Reader
      BY <2>1, <2>3 DEF Reader, verdict
    <2> HIDE DEF reader
    <2>5. readers' \in [Verifiers -> Reader]
      BY <1>t, <2>2, <2>4
    <2> QED
      BY <1>9, <1>t, <2>5 DEF VerifyEvents, ChainTypes
  <1>10. CASE Damage
    BY <1>10, <1>t, DamageTypes DEF Damage, ChainTypes
  <1>11. CASE UNCHANGED vars
    BY <1>11 DEF ChainTypes, vars
  <1> QED
    BY <1>1, <1>2, <1>3, <1>4, <1>5, <1>6, <1>7, <1>8, <1>9, <1>10, <1>11
       DEF Next

\* The event a process appends, and what the append does to the chain.
LEMMA CommitIs ==
  ASSUME ChainTypes, NEW p \in Processes, CommitAppend(p)
  PROVE  \E row \in Row :
           /\ row.body = recorded + 1
           /\ row.prev = appends[p].prev
           /\ row.hash = EventHash(row.body, row.prev)
           /\ row.hash # None
           /\ LastBody(row.hash) = recorded + 1
           /\ rows' = Append(rows, row)
           /\ anchor' = [count |-> anchor.count + 1, head |-> row.hash]
           /\ recorded' = recorded + 1
           /\ UNCHANGED <<opened, damaged>>
  <1> DEFINE hash == EventHash(recorded + 1, appends[p].prev)
             row == [body |-> recorded + 1, prev |-> appends[p].prev,
                     hash |-> hash]
  <1>1. recorded + 1 \in Nat /\ appends[p].prev \in Hashes \cup {None}
    BY DEF ChainTypes, Appending
  <1>2. hash \in Hashes /\ hash # None /\ LastBody(hash) = recorded + 1
    BY <1>1, EventHashLast
  <1>3. /\ rows' = Append(rows, row)
        /\ anchor' = [count |-> anchor.count + 1, head |-> hash]
        /\ recorded' = recorded + 1
        /\ UNCHANGED <<opened, damaged>>
    BY DEF CommitAppend
  <1>4. row.hash = EventHash(row.body, row.prev)
    OBVIOUS
  <1> HIDE DEF hash
  <1>5. row \in Row
    BY <1>1, <1>2 DEF Row
  <1> QED
    BY <1>2, <1>3, <1>4, <1>5

LEMMA ChainedMigrated ==
  rows \in Seq(Row) => \A i \in DOMAIN Chained : Chained[i].hash # None
  <1> SUFFICES ASSUME rows \in Seq(Row), NEW i \in DOMAIN Chained
               PROVE  Chained[i].hash # None
    OBVIOUS
  <1>1. i \in 1..Len(rows)
    BY ChainedType
  <1>2. \A j \in 1..i : rows[j].body \in Nat
    BY <1>1, RowColumns
  <1>3. [j \in 1..i |-> rows[j].body] \in Seq(Int)
    BY <1>1, <1>2
  <1>4. Chained[i].hash = [j \in 1..i |-> rows[j].body]
    <2>1. i \in DOMAIN rows /\ i # 0
      BY <1>1
    <2> QED
      BY <2>1 DEF Chained
  <1> QED
    BY <1>3, <1>4, ChainAssumption

\* Whoever appends keeps the hashes.
LEMMA AppendMigrates ==
  ASSUME ChainTypes, Migrated, NEW p \in Processes, CommitAppend(p)
  PROVE  Migrated'
  <1>1. PICK row \in Row : row.hash # None /\ rows' = Append(rows, row)
    BY CommitIs
  <1> QED
    BY <1>1, Appended DEF Migrated, ChainTypes

LEMMA BackfillMigrates == ChainTypes /\ Backfill => Migrated'
  BY ChainedMigrated DEF ChainTypes, Backfill, Migrated

\* Steps that leave events, history and damage alone.
Still == UNCHANGED <<rows, opened, recorded, damaged>>

\* Seen from the chain, a step is a migration, an append, damage, or none of
\* them.
LEMMA ChainSteps ==
  ASSUME [Next]_vars
  PROVE  \/ Backfill
         \/ \E p \in Processes : CommitAppend(p)
         \/ Damage
         \/ Still /\ UNCHANGED anchor
  BY DEF Next, Still, BeginAppend, ReadHead, AbortAppend, TrailRun, TrailEvents,
     VerifyRun, VerifyEvents, vars

LEMMA LockedStep == ChainTypes /\ Locked /\ [Next]_vars => Locked'
  <1> SUFFICES ASSUME ChainTypes, Locked, [Next]_vars
               PROVE  Locked'
    OBVIOUS
  <1>t. appends \in [Processes -> Appending]
    BY DEF ChainTypes
  <1>m. opened => opened'
    BY DEF Next, Backfill, BeginAppend, ReadHead, CommitAppend, AbortAppend,
       TrailRun, TrailEvents, VerifyRun, VerifyEvents, Damage, vars
  <1>i. lock = None => \A p \in Processes : appends[p].pc = "idle"
    BY NoneIsNoHash DEF Locked
  <1>1. CASE Backfill \/ Damage
    BY <1>1, <1>i DEF Backfill, Damage, Locked
  <1>2. ASSUME NEW p \in Processes, BeginAppend(p)
        PROVE  Locked'
    <2>1. \A q \in Processes : appends'[q].pc # "idle" => q = p /\ appends'[q].pc = "locked"
      BY <1>2, <1>i, <1>t DEF BeginAppend, Appending
    <2>2. lock' = p /\ opened'
      BY <1>2, <1>m DEF BeginAppend
    <2> QED
      BY <2>1, <2>2 DEF Locked
  <1>3. ASSUME NEW p \in Processes, ReadHead(p)
        PROVE  Locked'
    <2>1. lock = p /\ opened
      BY <1>3 DEF ReadHead, Locked
    <2>2. ASSUME NEW q \in Processes, appends'[q].pc # "idle"
          PROVE  q = p /\ appends'[q].prev = HeadText
      <3>1. q # p => appends'[q] = appends[q]
        BY <1>3, <1>t DEF ReadHead
      <3>2. q = p
        BY <2>1, <2>2, <3>1 DEF Locked
      <3> QED
        BY <1>3, <1>t, <3>2 DEF ReadHead, HeadText
    <2>3. rows' = rows /\ lock' = lock
      BY <1>3 DEF ReadHead
    <2> QED
      BY <1>m, <2>1, <2>2, <2>3 DEF Locked, HeadText, HeadHash
  <1>4. ASSUME NEW p \in Processes, CommitAppend(p) \/ AbortAppend(p)
        PROVE  Locked'
    <2>1. appends[p].pc # "idle" /\ appends' = [appends EXCEPT ![p] = NoAppend]
      BY <1>4 DEF CommitAppend, AbortAppend, EndAppend
    <2>2. \A q \in Processes : appends'[q].pc = "idle"
      BY <1>t, <2>1 DEF Locked, NoAppend
    <2> QED
      BY <2>2 DEF Locked
  <1>5. CASE UNCHANGED <<rows, lock, appends>>
    BY <1>5, <1>m DEF Locked, HeadText, HeadHash
  <1> QED
    BY <1>1, <1>2, <1>3, <1>4, <1>5 DEF Next, TrailRun, TrailEvents, VerifyRun,
       VerifyEvents, vars

-----------------------------------------------------------------------------
(* The undamaged chain                                                     *)

\* While undamaged, the migration computes the hashes of the history.
LEMMA ChainedIsHistory ==
  ASSUME rows \in Seq(Row), \A i \in DOMAIN rows : rows[i].body = i
  PROVE  \A i \in DOMAIN rows :
           Chained[i] = [body |-> i, prev |-> HashAt(i - 1), hash |-> HashAt(i)]
  <1> SUFFICES ASSUME NEW i \in 1..Len(rows)
               PROVE  Chained[i] = [body |-> i, prev |-> HashAt(i - 1),
                                    hash |-> HashAt(i)]
    OBVIOUS
  <1> DEFINE hash(n) == IF n = 0 THEN None ELSE [j \in 1..n |-> rows[j].body]
  <1>1. ASSUME NEW n \in 0..Len(rows)
        PROVE  hash(n) = HashAt(n)
    <2>1. \A j \in 1..n : rows[j].body = j
      OBVIOUS
    <2>2. [j \in 1..n |-> rows[j].body] = [j \in 1..n |-> j]
      BY <2>1
    <2> QED
      BY <2>2 DEF HashAt
  <1>2. Chained = [k \in 1..Len(rows) |->
          [body |-> rows[k].body, prev |-> hash(k - 1), hash |-> hash(k)]]
    BY DEF Chained
  <1> HIDE DEF hash
  <1>3. hash(i - 1) = HashAt(i - 1) /\ hash(i) = HashAt(i)
    BY <1>1
  <1> QED
    BY <1>2, <1>3

LEMMA HeadIsHistory ==
  ASSUME ChainTypes, Intact, Migrated, damaged = "no"
  PROVE  HeadHash(rows) = HashAt(recorded) /\ Len(rows) = recorded
  <1>1. rows \in Seq(Row) /\ Len(rows) = recorded
    BY DEF ChainTypes, Intact
  <1>2. CASE rows = << >>
    BY <1>1, <1>2 DEF HeadHash, HashAt
  <1>3. CASE rows # << >>
    <2>1. Len(rows) \in DOMAIN rows
      BY <1>1, <1>3
    <2> QED
      BY <1>1, <1>3, <2>1 DEF HeadHash, Intact
  <1> QED
    BY <1>1, <1>2, <1>3

LEMMA IntactStep == ChainTypes /\ Locked /\ Intact /\ [Next]_vars => Intact'
  <1> SUFFICES ASSUME ChainTypes, Locked, Intact, [Next]_vars, damaged' = "no"
               PROVE  Intact'
    BY DEF Intact
  <1>t. rows \in Seq(Row) /\ recorded \in Nat
    BY DEF ChainTypes
  <1>1. CASE Backfill
    <2>1. damaged = "no" /\ recorded' = recorded
      BY <1>1 DEF Backfill
    <2>m. Migrated'
      BY <1>1, BackfillMigrates
    <2>2. CASE Migrated
      <3>1. rows' = rows /\ anchor' \in {anchor, [count |-> Len(rows),
                                                  head |-> HeadHash(rows)]}
        BY <1>1, <2>2 DEF Backfill
      <3>2. anchor' = anchor
        BY <2>1, <2>2, <3>1, HeadIsHistory DEF Intact
      <3> QED
        BY <2>1, <2>2, <2>m, <3>1, <3>2 DEF Intact
    <2>3. CASE ~Migrated
      <3>1. rows' = Chained /\ anchor' = [count |-> Len(rows),
                                          head |-> HeadHash(rows')]
        BY <1>1, <2>3 DEF Backfill
      <3>2. /\ Len(rows) = recorded
            /\ \A i \in DOMAIN rows : rows[i].body = i
        BY <2>1 DEF Intact
      <3>3. rows' \in Seq(Row) /\ Len(rows') = recorded
        BY <1>t, <3>1, <3>2, ChainedType
      <3>4. ASSUME NEW i \in DOMAIN rows'
            PROVE  rows'[i] = [body |-> i, prev |-> HashAt(i - 1),
                               hash |-> HashAt(i)]
        <4>1. i \in DOMAIN rows
          BY <1>t, <3>2, <3>3
        <4> QED
          BY <1>t, <3>1, <3>2, <4>1, ChainedIsHistory
      <3>5. HeadHash(rows') = HashAt(recorded)
        <4>1. CASE recorded = 0
          BY <3>3, <4>1 DEF HeadHash, HashAt
        <4>2. CASE recorded > 0
          BY <1>t, <3>3, <3>4, <4>2 DEF HeadHash
        <4> QED
          BY <1>t, <4>1, <4>2
      <3> QED
        BY <2>1, <2>m, <3>1, <3>2, <3>3, <3>4, <3>5 DEF Intact
    <2> QED
      BY <2>2, <2>3
  <1>2. ASSUME NEW p \in Processes, CommitAppend(p)
        PROVE  Intact'
    <2>1. PICK row \in Row :
            /\ row.body = recorded + 1
            /\ row.prev = appends[p].prev
            /\ row.hash = EventHash(row.body, row.prev)
            /\ rows' = Append(rows, row)
            /\ anchor' = [count |-> anchor.count + 1, head |-> row.hash]
            /\ recorded' = recorded + 1
            /\ damaged' = damaged
      BY <1>2, CommitIs
    <2>o. opened /\ appends[p].prev = HeadText
      BY <1>2 DEF CommitAppend, Locked
    <2>g. Migrated
      BY <2>1, <2>o DEF Intact
    <2>h. rows # << >> => HeadHash(rows) # None
      <3>1. rows # << >> => Len(rows) \in DOMAIN rows
        BY <1>t
      <3> QED
        BY <2>g, <3>1 DEF HeadHash, Migrated
    <2>2. Migrated /\ appends[p].prev = HeadHash(rows)
      BY <2>o, <2>g, <2>h DEF HeadText
    <2>m. Migrated'
      BY <1>2, <2>2, AppendMigrates
    <2>3. HeadHash(rows) = HashAt(recorded) /\ Len(rows) = recorded
      BY <2>1, <2>2, HeadIsHistory
    <2>4. row.prev = HashAt(recorded) /\ row.hash = HashAt(recorded + 1)
      BY <1>t, <2>1, <2>2, <2>3, HistoryIsLinked
    <2>5. anchor' = [count |-> recorded', head |-> HashAt(recorded')]
      BY <2>1, <2>2, <2>4 DEF Intact
    <2>6. ASSUME NEW i \in 1..(recorded + 1)
          PROVE  /\ rows'[i].body = i
                 /\ rows'[i].prev = HashAt(i - 1)
                 /\ rows'[i].hash = HashAt(i)
      <3>1. CASE i = recorded + 1
        <4>1. rows'[i] = row /\ i - 1 = recorded
          BY <1>t, <2>1, <2>3, <3>1, Appended
        <4> QED
          BY <2>1, <2>4, <3>1, <4>1
      <3>2. CASE i \in DOMAIN rows
        <4>1. rows'[i] = rows[i]
          BY <1>t, <2>1, <3>2, Appended
        <4> QED
          BY <2>1, <2>2, <3>2, <4>1 DEF Intact
      <3> QED
        BY <1>t, <2>3, <3>1, <3>2
    <2>7. Len(rows') = recorded + 1 /\ DOMAIN rows' = 1..(recorded + 1)
      BY <1>t, <2>1, <2>3, Appended
    <2> QED
      BY <2>1, <2>m, <2>5, <2>6, <2>7 DEF Intact
  <1>3. CASE Damage
    BY <1>3 DEF Damage
  <1>4. CASE Still /\ UNCHANGED anchor
    BY <1>4 DEF Still, Intact, Migrated
  <1> QED
    BY <1>1, <1>2, <1>3, <1>4, ChainSteps

-----------------------------------------------------------------------------
(* Damage                                                                  *)

\* Appends mend no link.
LEMMA BrokenStaysBroken ==
  ASSUME ChainTypes, BrokenLink, damaged = "yes", damaged' = "yes", [Next]_vars
  PROVE  BrokenLink'
  <1>t. rows \in Seq(Row)
    BY DEF ChainTypes
  <1>1. CASE UNCHANGED rows
    BY <1>1 DEF BrokenLink, Linked, PrevHash
  <1>2. ASSUME NEW p \in Processes, CommitAppend(p)
        PROVE  BrokenLink'
    <2>1. PICK row \in Row : rows' = Append(rows, row)
      BY <1>2, CommitIs
    <2>2. PICK i \in DOMAIN rows : ~Linked(rows, i)
      BY DEF BrokenLink
    <2>3. /\ i \in DOMAIN rows'
          /\ rows'[i] = rows[i]
          /\ PrevHash(rows', i) = PrevHash(rows, i)
      BY <1>t, <2>1, <2>2, Appended
    <2>4. ~Linked(rows', i)
      BY <2>2, <2>3 DEF Linked
    <2> QED
      BY <2>3, <2>4 DEF BrokenLink
  <1> QED
    BY <1>1, <1>2, ChainSteps DEF Still, Backfill, Damage

LEMMA BrokenIsNotVerified ==
  ASSUME ChainTypes, BrokenLink, NEW run
  PROVE  ~Verified(run, rows)
  BY VerifiedIs DEF ChainTypes, BrokenLink

\* Events of an intact chain changed without clearing hashes.
LEMMA ChangeShows ==
  ASSUME ChainTypes, Intact, damaged = "no", opened,
         Changed(rows') \/ Shortened(rows') \/ Swapped(rows')
  PROVE  BrokenLink' \/ Len(rows') < anchor.count
  <1>t. rows \in Seq(Row) /\ recorded \in Nat
    BY DEF ChainTypes
  <1>1. /\ Len(rows) = recorded
        /\ \A i \in DOMAIN rows : /\ rows[i].body = i
                                  /\ rows[i].prev = HashAt(i - 1)
                                  /\ rows[i].hash = HashAt(i)
        /\ anchor.count = recorded
    BY DEF Intact
  <1>r. rows' \in Seq(Row)
    BY <1>t, DamagedType
  <1>a. ASSUME NEW n \in Nat \ {0}
        PROVE  HashAt(n) # HashAt(n - 1)
    <2>1. LastBody(HashAt(n)) = n /\ LastBody(HashAt(n - 1)) = n - 1
      BY HashAtType
    <2> QED
      BY <2>1
  <1>p. ASSUME NEW i \in DOMAIN rows
        PROVE  PrevHash(rows, i) = HashAt(i - 1)
    <2>1. CASE i = 1
      BY <2>1 DEF PrevHash, HashAt
    <2>2. CASE i > 1
      <3>1. i - 1 \in DOMAIN rows
        BY <1>t, <2>2
      <3> QED
        BY <1>1, <2>2, <3>1 DEF PrevHash
    <2> QED
      BY <1>t, <2>1, <2>2
  <1>2. CASE Changed(rows')
    <2>1. PICK i \in DOMAIN rows : rows' = [rows EXCEPT ![i].body = 0]
      BY <1>2 DEF Changed
    <2>2. i \in DOMAIN rows' /\ i \in Nat \ {0}
      BY <1>t, <2>1
    <2>3. /\ rows'[i].body = 0
          /\ rows'[i].prev = HashAt(i - 1)
          /\ rows'[i].hash = HashAt(i)
      <3>1. rows[i] \in Row
        BY <1>t, RowColumns
      <3>2. rows'[i] = [rows[i] EXCEPT !.body = 0]
        BY <2>1
      <3> QED
        BY <1>1, <3>1, <3>2 DEF Row
    <2>4. LastBody(EventHash(0, HashAt(i - 1))) = 0
      BY <2>2, HashAtType, EventHashLast
    <2>5. LastBody(HashAt(i)) = i
      BY <2>2, HashAtType
    <2>6. ~Linked(rows', i)
      BY <2>2, <2>3, <2>4, <2>5 DEF Linked
    <2> QED
      BY <2>2, <2>6 DEF BrokenLink
  <1>3. CASE Shortened(rows')
    <2>1. PICK i \in DOMAIN rows :
            rows' = SubSeq(rows, 1, i - 1) \o SubSeq(rows, i + 1, Len(rows))
      BY <1>3 DEF Shortened
    <2>2. /\ Len(rows') = recorded - 1
          /\ \A k \in DOMAIN rows' :
               rows'[k] = IF k < i THEN rows[k] ELSE rows[k + 1]
      BY <1>t, <1>1, <2>1, Removed
    <2>3. CASE i = recorded
      BY <1>t, <1>1, <2>2, <2>3
    <2>4. CASE i < recorded
      <3>1. /\ i \in DOMAIN rows'
            /\ i + 1 \in DOMAIN rows
            /\ i \in Nat \ {0}
        BY <1>t, <1>1, <1>r, <2>2, <2>4
      <3>2. rows'[i] = rows[i + 1]
        BY <2>2, <3>1
      <3>3. rows'[i].prev = HashAt(i)
        BY <1>1, <3>1, <3>2
      <3>4. PrevHash(rows', i) = HashAt(i - 1)
        <4>1. CASE i = 1
          BY <4>1 DEF PrevHash, HashAt
        <4>2. CASE i > 1
          <5>1. i - 1 \in DOMAIN rows' /\ i - 1 \in DOMAIN rows
            BY <1>t, <1>1, <1>r, <2>2, <3>1, <4>2
          <5>2. rows'[i - 1] = rows[i - 1]
            BY <2>2, <3>1, <5>1
          <5> QED
            BY <1>1, <4>2, <5>1, <5>2 DEF PrevHash
        <4> QED
          BY <3>1, <4>1, <4>2
      <3>5. ~Linked(rows', i)
        BY <1>a, <3>1, <3>3, <3>4 DEF Linked
      <3> QED
        BY <3>1, <3>5 DEF BrokenLink
    <2>5. i = recorded \/ i < recorded
      BY <1>t, <1>1
    <2> QED
      BY <2>3, <2>4, <2>5
  <1>4. CASE Swapped(rows')
    <2>1. PICK i \in 1..(Len(rows) - 1) :
            rows' = [rows EXCEPT ![i] = rows[i + 1], ![i + 1] = rows[i]]
      BY <1>4 DEF Swapped
    <2>2. /\ i \in DOMAIN rows /\ i + 1 \in DOMAIN rows
          /\ DOMAIN rows' = DOMAIN rows
          /\ i \in Nat \ {0}
      BY <1>t, <2>1
    <2>3. rows'[i] = rows[i + 1]
      BY <1>t, <2>1, <2>2
    <2>4. rows'[i].prev = HashAt(i)
      BY <1>1, <2>2, <2>3
    <2>5. PrevHash(rows', i) = PrevHash(rows, i)
      <3>1. CASE i = 1
        BY <3>1 DEF PrevHash
      <3>2. CASE i > 1
        <4>1. rows'[i - 1] = rows[i - 1]
          BY <1>t, <2>1, <2>2, <3>2
        <4> QED
          BY <3>2, <4>1 DEF PrevHash
      <3> QED
        BY <2>2, <3>1, <3>2
    <2>6. ~Linked(rows', i)
      BY <1>a, <1>p, <2>2, <2>4, <2>5 DEF Linked
    <2> QED
      BY <2>2, <2>6 DEF BrokenLink
  <1> QED
    BY <1>2, <1>3, <1>4

\* Damage to an intact chain breaks a link, or leaves it too short.
LEMMA DamageShows ==
  ASSUME ChainTypes, Intact, Damage
  PROVE  BrokenLink' \/ Len(rows') < anchor.count
  <1>t. rows \in Seq(Row) /\ rows' \in Seq(Row)
    BY DamageTypes DEF ChainTypes
  <1>1. PICK events, places :
          /\ rows' = Cleared(events, places)
          /\ \/ Changed(events) \/ Shortened(events) \/ Swapped(events)
             \/ events = rows /\ places \cap DOMAIN rows # {}
    BY DamageIs
  <1>2. events \in Seq(Row)
    BY <1>t, <1>1, DamagedType
  <1>3. CASE places \cap DOMAIN events # {}
    <2>1. PICK i \in places \cap DOMAIN events : TRUE
      BY <1>3
    <2>2. i \in DOMAIN rows' /\ rows'[i].hash = None
      BY <1>1, <1>2, <2>1, ClearedIs
    <2>3. EventHash(rows'[i].body, rows'[i].prev) # None
      BY <1>t, <2>2, RowColumns, EventHashLast
    <2> QED
      BY <2>2, <2>3 DEF BrokenLink, Linked
  <1>4. CASE places \cap DOMAIN events = {}
    <2>1. rows' = events
      BY <1>1, <1>2, <1>4, ClearedIs
    <2>2. Changed(rows') \/ Shortened(rows') \/ Swapped(rows')
      BY <1>1, <1>4, <2>1
    <2> QED
      BY <2>2, ChangeShows DEF Damage
  <1> QED
    BY <1>3, <1>4

LEMMA DetectableStep ==
  ChainTypes /\ Intact /\ Detectable /\ [Next]_vars => Detectable'
  <1> SUFFICES ASSUME ChainTypes, Intact, Detectable, [Next]_vars, damaged' = "yes"
               PROVE  Detectable'
    BY DEF Detectable
  <1>t. rows \in Seq(Row) /\ recorded \in Nat /\ anchor \in Anchor
    BY DEF ChainTypes
  <1>1. CASE damaged # "yes"
    <2>1. Damage
      BY <1>1, ChainSteps DEF Backfill, CommitAppend, Still
    <2>2. anchor = [count |-> recorded, head |-> HashAt(recorded)]
      BY <2>1 DEF Damage, Intact
    <2>3. LastBody(anchor.head) = recorded
      BY <1>t, <2>2, HashAtType
    <2>4. anchor' = anchor /\ recorded' = recorded
      BY <2>1 DEF Damage
    <2>5. BrokenLink' \/ (LastBody(anchor'.head) <= recorded' /\ Len(rows') < anchor'.count)
      BY <1>t, <2>1, <2>3, <2>4, DamageShows
    <2> QED
      BY <2>5 DEF Detectable
  <1>2. CASE damaged = "yes"
    <2>1. CASE BrokenLink
      BY <1>2, <2>1, BrokenStaysBroken DEF Detectable
    <2>2. CASE LastBody(anchor.head) <= recorded /\ Len(rows) < anchor.count
      <3>1. CASE Still /\ UNCHANGED anchor
        BY <2>2, <3>1 DEF Still, Detectable
      <3>2. CASE Backfill
        <4>1. UNCHANGED <<rows, anchor, recorded>>
          BY <1>2, <3>2 DEF Backfill
        <4> QED
          BY <2>2, <4>1 DEF Detectable
      <3>3. ASSUME NEW p \in Processes, CommitAppend(p)
            PROVE  Detectable'
        <4>1. PICK row \in Row :
                /\ LastBody(row.hash) = recorded + 1
                /\ rows' = Append(rows, row)
                /\ anchor' = [count |-> anchor.count + 1, head |-> row.hash]
                /\ recorded' = recorded + 1
          BY <3>3, CommitIs
        <4>2. Len(rows') = Len(rows) + 1
          BY <1>t, <4>1, Appended
        <4>3. LastBody(anchor'.head) <= recorded' /\ Len(rows') < anchor'.count
          BY <1>t, <2>2, <4>1, <4>2 DEF Anchor
        <4> QED
          BY <4>3 DEF Detectable
      <3> QED
        BY <1>2, <3>1, <3>2, <3>3, ChainSteps DEF Damage
    <2> QED
      BY <1>2, <2>1, <2>2 DEF Detectable
  <1> QED
    BY <1>1, <1>2

\* What an append did not show a verification stays behind the chain.
LEMMA BehindStaysBehind ==
  ASSUME ChainTypes, damaged = "yes", damaged' = "yes", [Next]_vars,
         NEW seen \in Anchor, Behind(seen)
  PROVE  LastBody(seen.head) <= recorded' /\
         (Len(rows') < seen.count \/ LastBody(seen.head) < LastBody(HeadHash(rows')))
  <1>t. rows \in Seq(Row) /\ recorded \in Nat
    BY DEF ChainTypes
  <1>1. CASE UNCHANGED <<rows, recorded>>
    BY <1>1 DEF Behind
  <1>2. ASSUME NEW p \in Processes, CommitAppend(p)
        PROVE  /\ LastBody(seen.head) <= recorded'
               /\ LastBody(seen.head) < LastBody(HeadHash(rows'))
    <2>1. PICK row \in Row :
            /\ LastBody(row.hash) = recorded + 1
            /\ rows' = Append(rows, row)
            /\ recorded' = recorded + 1
      BY <1>2, CommitIs
    <2>2. HeadHash(rows') = row.hash
      BY <1>t, <2>1, Appended
    <2>3. LastBody(seen.head) \in Int
      BY DEF Anchor, Hashes, LastBody
    <2>4. LastBody(seen.head) <= recorded
      BY DEF Behind
    <2> QED
      BY <1>t, <2>1, <2>2, <2>3, <2>4
  <1> QED
    BY <1>1, <1>2, ChainSteps DEF Still, Backfill, Damage

\* Damage is done once, and re-chaining follows it.
LEMMA DamageStays ==
  ASSUME [Next]_vars
  PROVE  /\ damaged # "no" => damaged' # "no"
         /\ damaged # "no" /\ damaged' = "yes" => damaged = "yes"
  BY ChainSteps DEF Backfill, CommitAppend, Damage, Still

-----------------------------------------------------------------------------
(* Verifications                                                           *)

LEMMA ReportingStep ==
  ChainTypes /\ Detectable /\ Reporting /\ [Next]_vars => Reporting'
  <1> SUFFICES ASSUME ChainTypes, Detectable, Reporting, [Next]_vars,
                      NEW v \in Verifiers, readers'[v].saw = "yes"
               PROVE  /\ damaged' # "no"
                      /\ damaged' = "yes" /\ readers'[v].pc = "events" =>
                           BrokenLink' \/ Behind(readers[v].seen)'
                      /\ readers'[v].pc = "done" => ~readers'[v].verdict
    BY DEF Reporting, Behind
  <1>t. readers \in [Verifiers -> Reader]
    BY DEF ChainTypes
  <1>s. readers[v].seen \in Anchor /\ readers[v] \in Reader
    BY <1>t DEF Reader
  <1>1. CASE UNCHANGED <<readers[v].pc, readers[v].saw, readers[v].seen,
                         readers[v].verdict>>
    <2>1. damaged # "no" /\ damaged' # "no"
      BY <1>1, DamageStays DEF Reporting
    <2>2. readers[v].pc = "done" => ~readers'[v].verdict
      BY <1>1 DEF Reporting
    <2>3. ASSUME readers[v].pc = "events", damaged' = "yes"
          PROVE  BrokenLink' \/ Behind(readers[v].seen)'
      <3>1. damaged = "yes"
        BY <2>1, <2>3, DamageStays
      <3>2. CASE BrokenLink
        BY <2>3, <3>1, <3>2, BrokenStaysBroken
      <3>3. CASE Behind(readers[v].seen)
        BY <1>1, <1>s, <2>3, <3>1, <3>3, BehindStaysBehind DEF Behind
      <3> QED
        BY <1>1, <2>3, <3>1, <3>2, <3>3 DEF Reporting
    <2> QED
      BY <1>1, <2>1, <2>2, <2>3
  <1>2. CASE VerifyRun(v)
    <2>1. readers'[v] = [readers[v] EXCEPT !.pc = "events", !.seen = anchor,
                                           !.saw = damaged]
      BY <1>2, <1>t DEF VerifyRun
    <2>2. damaged = "yes" /\ damaged' = "yes" /\ UNCHANGED <<rows, recorded>>
      <3>1. readers'[v].saw = damaged
        BY <1>s, <2>1 DEF Reader
      <3> QED
        BY <1>2, <3>1 DEF VerifyRun
    <2>3. readers'[v].pc = "events" /\ readers'[v].seen = anchor
      BY <1>s, <2>1 DEF Reader
    <2>4. BrokenLink \/ (LastBody(anchor.head) <= recorded /\ Len(rows) < anchor.count)
      BY <2>2 DEF Detectable
    <2>5. BrokenLink' \/ Behind(readers[v].seen)'
      BY <2>2, <2>3, <2>4 DEF Behind, BrokenLink, Linked, PrevHash
    <2> QED
      BY <2>2, <2>3, <2>5
  <1>3. CASE VerifyEvents(v)
    <2> DEFINE verdict == Verified(readers[v].seen, rows)
               saw == IF damaged = "rechained" THEN damaged ELSE readers[v].saw
    <2>1. readers'[v] = [readers[v] EXCEPT !.pc = "done", !.verdict = verdict,
                                           !.saw = saw]
      BY <1>3, <1>t DEF VerifyEvents
    <2>2. readers[v].pc = "events" /\ damaged' = damaged
      BY <1>3 DEF VerifyEvents
    <2> HIDE DEF verdict, saw
    <2>3. readers'[v].pc = "done" /\ readers'[v].verdict = verdict /\ saw = "yes"
      BY <1>s, <2>1 DEF Reader
    <2>4. readers[v].saw = "yes" /\ damaged # "rechained"
      BY <2>3 DEF saw
    <2>5. damaged = "yes" /\ (BrokenLink \/ Behind(readers[v].seen))
      BY <2>2, <2>4 DEF Reporting, ChainTypes
    <2>6. ~verdict
      <3>1. CASE BrokenLink
        BY <3>1, BrokenIsNotVerified DEF verdict
      <3>2. CASE Behind(readers[v].seen)
        <4> DEFINE seen == readers[v].seen
        <4>1. rows \in Seq(Row) /\ seen.count \in Nat
          BY <1>s DEF ChainTypes, Anchor
        <4>2. ASSUME Verified(seen, rows)
              PROVE  seen.count = Len(rows) /\ seen.head = HeadHash(rows)
          BY <4>1, <4>2, VerifiedIs
        <4>3. LastBody(seen.head) \in Int
          BY <1>s DEF Anchor, Hashes, LastBody
        <4> QED
          BY <3>2, <4>1, <4>2, <4>3 DEF Behind, verdict
      <3> QED
        BY <2>5, <3>1, <3>2
    <2> QED
      BY <2>2, <2>3, <2>5, <2>6
  <1>4. CASE TrailRun(v)
    <2>1. readers'[v].saw = readers[v].saw /\ readers[v].pc = "idle"
          /\ readers'[v].pc = "trail" /\ damaged' = damaged
      BY <1>4, <1>t, <1>s DEF TrailRun, Reader
    <2> QED
      BY <2>1 DEF Reporting
  <1>5. CASE TrailEvents(v)
    <2>1. readers'[v].saw = readers[v].saw /\ readers'[v].pc = "verify"
          /\ damaged' = damaged
      BY <1>5, <1>t, <1>s DEF TrailEvents, Reader
    <2> QED
      BY <2>1 DEF Reporting
  <1>6. ASSUME NEW w \in Verifiers, w # v,
               TrailRun(w) \/ TrailEvents(w) \/ VerifyRun(w) \/ VerifyEvents(w)
        PROVE  readers'[v] = readers[v]
    BY <1>6, <1>t DEF TrailRun, TrailEvents, VerifyRun, VerifyEvents
  <1>7. ASSUME NEW p \in Processes, CommitAppend(p)
        PROVE  UNCHANGED <<readers[v].pc, readers[v].saw, readers[v].seen,
                           readers[v].verdict>>
    <2>1. readers'[v] = [readers[v] EXCEPT !.disturbed = @ \/ readers[v].pc = "events"]
      BY <1>7 DEF CommitAppend
    <2> QED
      BY <1>s, <2>1 DEF Reader
  <1>8. ASSUME NEW p \in Processes,
               BeginAppend(p) \/ ReadHead(p) \/ AbortAppend(p)
        PROVE  readers' = readers
    BY <1>8 DEF BeginAppend, ReadHead, AbortAppend
  <1>9. ASSUME Backfill \/ Damage \/ UNCHANGED vars
        PROVE  readers' = readers
    BY <1>9 DEF Backfill, Damage, vars
  <1> QED
    BY <1>1, <1>2, <1>3, <1>4, <1>5, <1>6, <1>7, <1>8, <1>9 DEF Next

LEMMA QuietStep ==
  ChainTypes /\ Locked /\ Intact /\ Quiet /\ [Next]_vars => Quiet'
  <1> SUFFICES ASSUME ChainTypes, Locked, Intact, Quiet, [Next]_vars,
                      NEW v \in Verifiers
               PROVE  /\ readers'[v].pc # "idle" => opened'
                      /\ damaged' = "no" /\ ~readers'[v].disturbed =>
                           /\ readers'[v].pc = "events" =>
                                readers'[v].seen =
                                  [count |-> Len(rows'), head |-> HeadHash(rows')]
                           /\ readers'[v].pc = "done" => readers'[v].verdict
    BY DEF Quiet, HeadHash
  <1>t. readers \in [Verifiers -> Reader] /\ rows \in Seq(Row)
    BY DEF ChainTypes
  <1>s. readers[v] \in Reader
    BY <1>t
  <1>m. opened => opened'
    BY ChainSteps DEF Backfill, CommitAppend, Damage, Still
  <1>d. damaged' = "no" => damaged = "no"
    BY DamageStays
  <1>1. CASE readers'[v] = readers[v] /\ rows' = rows
    BY <1>1, <1>m, <1>d DEF Quiet
  <1>2. CASE VerifyRun(v)
    <2>1. readers'[v] = [readers[v] EXCEPT !.pc = "events", !.seen = anchor,
                                           !.saw = damaged]
      BY <1>2, <1>t DEF VerifyRun
    <2>2. readers'[v].pc = "events" /\ readers'[v].seen = anchor
      BY <1>s, <2>1 DEF Reader
    <2>3. opened /\ rows' = rows
      BY <1>2 DEF VerifyRun
    <2>4. damaged = "no" => anchor = [count |-> Len(rows), head |-> HeadHash(rows)]
      BY <2>3, HeadIsHistory DEF Intact
    <2> QED
      BY <1>m, <1>d, <2>2, <2>3, <2>4
  <1>3. CASE VerifyEvents(v)
    <2>2. /\ readers[v].pc = "events"
          /\ readers'[v].pc = "done"
          /\ readers'[v].verdict = Verified(readers[v].seen, rows)
          /\ readers'[v].disturbed = readers[v].disturbed
      <3> DEFINE verdict == Verified(readers[v].seen, rows)
                 saw == IF damaged = "rechained" THEN damaged ELSE readers[v].saw
      <3>1. readers[v].pc = "events"
        BY <1>3 DEF VerifyEvents
      <3>2. readers'[v] = [readers[v] EXCEPT !.pc = "done", !.verdict = verdict,
                                             !.saw = saw]
        BY <1>3, <1>t DEF VerifyEvents
      <3> HIDE DEF verdict, saw
      <3>3. /\ readers'[v].pc = "done"
            /\ readers'[v].verdict = verdict
            /\ readers'[v].disturbed = readers[v].disturbed
        BY <1>s, <3>2 DEF Reader
      <3> QED
        BY <3>1, <3>3 DEF verdict
    <2>3. ASSUME damaged = "no", ~readers[v].disturbed
          PROVE  Verified(readers[v].seen, rows)
      <3>1. Migrated /\ readers[v].seen = [count |-> Len(rows), head |-> HeadHash(rows)]
        BY <2>2, <2>3 DEF Quiet, Intact
      <3>2. \A i \in DOMAIN rows :
              /\ rows[i].body = i
              /\ rows[i].prev = HashAt(i - 1)
              /\ rows[i].hash = HashAt(i)
        BY <2>3, <3>1 DEF Intact
      <3>3. ASSUME NEW i \in DOMAIN rows
            PROVE  Linked(rows, i)
        <4>1. i \in Nat \ {0} /\ (i - 1) + 1 = i /\ i - 1 \in Nat
          BY <1>t
        <4>2. EventHash(i, HashAt(i - 1)) = HashAt(i)
          BY <4>1, HistoryIsLinked
        <4>3. PrevHash(rows, i) = HashAt(i - 1)
          <5>1. CASE i = 1
            BY <5>1 DEF PrevHash, HashAt
          <5>2. CASE i > 1
            <6>1. i - 1 \in DOMAIN rows
              BY <1>t, <5>2
            <6> QED
              BY <3>2, <5>2, <6>1 DEF PrevHash
          <5> QED
            BY <4>1, <5>1, <5>2
        <4> QED
          BY <3>2, <4>2, <4>3 DEF Linked
      <3> QED
        BY <1>t, <3>1, <3>3, VerifiedIs
    <2> QED
      BY <1>3, <1>m, <1>d, <2>2, <2>3 DEF Quiet
  <1>4. CASE TrailRun(v) \/ TrailEvents(v)
    <2>1. /\ opened
          /\ readers'[v].pc \in {"trail", "verify"}
      BY <1>4, <1>t, <1>s DEF TrailRun, TrailEvents, Reader, Quiet
    <2> QED
      BY <1>m, <2>1
  <1>5. ASSUME NEW p \in Processes, CommitAppend(p)
        PROVE  /\ readers'[v].pc = readers[v].pc
               /\ readers[v].pc = "events" => readers'[v].disturbed
               /\ ~readers'[v].disturbed => ~readers[v].disturbed
               /\ readers'[v].verdict = readers[v].verdict
    <2>1. readers'[v] = [readers[v] EXCEPT !.disturbed = @ \/ readers[v].pc = "events"]
      BY <1>5 DEF CommitAppend
    <2> QED
      BY <1>s, <2>1 DEF Reader
  <1>6. CASE \E p \in Processes : CommitAppend(p)
    BY <1>5, <1>6, <1>m, <1>d DEF Quiet
  <1>7. ASSUME NEW w \in Verifiers, w # v,
               TrailRun(w) \/ TrailEvents(w) \/ VerifyRun(w) \/ VerifyEvents(w)
        PROVE  readers'[v] = readers[v] /\ rows' = rows
    BY <1>7, <1>t DEF TrailRun, TrailEvents, VerifyRun, VerifyEvents
  <1>8. ASSUME NEW p \in Processes,
               BeginAppend(p) \/ ReadHead(p) \/ AbortAppend(p)
        PROVE  readers' = readers /\ rows' = rows
    BY <1>8 DEF BeginAppend, ReadHead, AbortAppend
  <1>9. CASE Backfill
    <2>1. /\ readers' = readers /\ opened'
          /\ damaged = "no" /\ opened => rows' = rows
      BY <1>9 DEF Backfill, Intact
    <2> QED
      BY <1>1, <1>d, <2>1 DEF Quiet, HeadHash
  <1>10. CASE Damage
    BY <1>10, <1>m DEF Damage, Quiet
  <1>11. CASE UNCHANGED vars
    BY <1>1, <1>11 DEF vars
  <1> QED
    BY <1>1, <1>2, <1>3, <1>4, <1>6, <1>7, <1>8, <1>9, <1>10, <1>11 DEF Next

\* Nobody's step shortens the history, or the events that nobody damaged.
LEMMA HistoryGrows ==
  ASSUME ChainTypes, [Next]_vars
  PROVE  /\ recorded' >= recorded
         /\ damaged # "no" => damaged' # "no"
         /\ damaged' = "no" => Len(rows') >= Len(rows)
  <1>t. rows \in Seq(Row) /\ recorded \in Nat
    BY DEF ChainTypes
  <1>d. damaged # "no" => damaged' # "no"
    BY DamageStays
  <1>1. CASE Backfill
    <2>1. Len(rows') = Len(rows) /\ recorded' = recorded
      BY <1>1, <1>t, ChainedType DEF Backfill
    <2> QED
      BY <1>t, <1>d, <2>1
  <1>2. ASSUME NEW p \in Processes, CommitAppend(p)
        PROVE  Len(rows') = Len(rows) + 1 /\ recorded' = recorded + 1
    <2>1. PICK row \in Row : /\ rows' = Append(rows, row)
                             /\ recorded' = recorded + 1
      BY <1>2, CommitIs
    <2> QED
      BY <1>t, <2>1, Appended
  <1>3. CASE Damage
    BY <1>3, <1>t DEF Damage
  <1>4. CASE Still
    BY <1>4, <1>t DEF Still
  <1> QED
    BY <1>1, <1>2, <1>3, <1>4, <1>t, <1>d, ChainSteps

LEMMA GenuineStep ==
  ChainTypes /\ Intact /\ Genuine /\ [Next]_vars => Genuine'
  <1> SUFFICES ASSUME ChainTypes, Intact, Genuine, [Next]_vars,
                      NEW v \in Verifiers
               PROVE  /\ readers'[v].pc = "idle" => readers'[v].row = None
                      /\ readers'[v].row # None =>
                           /\ damaged' = "no" /\ readers'[v].pc = "trail" =>
                                readers'[v].row <= Len(rows')
                           /\ readers'[v].pc \in {"verify", "events", "done"} =>
                                \/ TrueTrail(readers[v])'
                                \/ damaged' # "no" /\ (readers'[v].pc = "verify"
                                                     \/ readers'[v].saw # "no")
    BY DEF Genuine, TrueTrail
  <1>t. /\ readers \in [Verifiers -> Reader]
        /\ rows \in Seq(Row)
        /\ recorded \in Nat /\ recorded' \in Nat
        /\ rows' \in Seq(Row)
    BY TypesStep DEF ChainTypes
  <1>r. readers[v] \in Reader
    BY <1>t
  <1>s. readers[v].row \in Nat \cup {None} /\ readers[v].trail \in Seq(Nat)
    BY <1>r DEF Reader
  <1>g. /\ recorded' >= recorded
        /\ damaged # "no" => damaged' # "no"
        /\ damaged' = "no" => Len(rows') >= Len(rows)
    BY HistoryGrows
  <1>k. ASSUME readers'[v].trail = readers[v].trail,
               readers'[v].row = readers[v].row, TrueTrail(readers[v])
        PROVE  TrueTrail(readers[v])'
    BY <1>k, <1>t, <1>s, <1>g DEF TrueTrail
  <1>1. CASE UNCHANGED <<readers[v].pc, readers[v].row, readers[v].trail,
                         readers[v].saw>>
    <2>1. ASSUME readers[v].row # None, damaged' = "no", readers[v].pc = "trail"
          PROVE  readers[v].row <= Len(rows')
      BY <1>t, <1>s, <1>g, <2>1 DEF Genuine
    <2> QED
      BY <1>1, <1>g, <1>k, <2>1 DEF Genuine
  <1>2. CASE TrailRun(v)
    <2>1. readers'[v] = [readers[v] EXCEPT !.pc = "trail", !.row = anchor.count]
      BY <1>2, <1>t DEF TrailRun
    <2>2. readers'[v].pc = "trail" /\ readers'[v].row = anchor.count
      BY <1>r, <2>1 DEF Reader
    <2>3. damaged' = "no" => anchor.count = recorded /\ Len(rows) = recorded
      BY <1>2 DEF TrailRun, Intact
    <2> QED
      BY <1>t, <1>g, <2>2, <2>3
  <1>3. CASE TrailEvents(v)
    <2>1. readers'[v] = [readers[v] EXCEPT !.pc = "verify",
                           !.trail = [i \in DOMAIN rows |-> rows[i].body]]
      BY <1>3, <1>t DEF TrailEvents
    <2>2. /\ readers[v].pc = "trail"
          /\ readers'[v].pc = "verify"
          /\ readers'[v].row = readers[v].row
          /\ readers'[v].trail = [i \in DOMAIN rows |-> rows[i].body]
          /\ UNCHANGED <<rows, recorded, damaged>>
      <3>1. readers[v].pc = "trail" /\ UNCHANGED <<rows, recorded, damaged>>
        BY <1>3 DEF TrailEvents
      <3> QED
        BY <1>r, <2>1, <3>1 DEF Reader
    <2>3. ASSUME readers[v].row # None, damaged = "no"
          PROVE  TrueTrail(readers[v])'
      <3>1. /\ Len(rows) = recorded
            /\ \A i \in DOMAIN rows : rows[i].body = i
            /\ readers[v].row <= Len(rows)
        BY <2>2, <2>3 DEF Intact, Genuine
      <3>2. /\ Len(readers'[v].trail) = Len(rows)
            /\ \A i \in DOMAIN readers'[v].trail : readers'[v].trail[i] = i
        BY <1>t, <2>2, <3>1
      <3> QED
        BY <1>t, <2>2, <3>1, <3>2 DEF TrueTrail
    <2> QED
      BY <2>2, <2>3 DEF ChainTypes
  <1>4. CASE VerifyRun(v)
    <2>1. readers'[v] = [readers[v] EXCEPT !.pc = "events", !.seen = anchor,
                                           !.saw = damaged]
      BY <1>4, <1>t DEF VerifyRun
    <2>2. /\ readers[v].pc \in {"idle", "verify"}
          /\ readers'[v].pc = "events"
          /\ readers'[v].row = readers[v].row
          /\ readers'[v].trail = readers[v].trail
          /\ readers'[v].saw = damaged
          /\ damaged' = damaged
      <3>1. readers[v].pc \in {"idle", "verify"} /\ damaged' = damaged
        BY <1>4 DEF VerifyRun
      <3> QED
        BY <1>r, <2>1, <3>1 DEF Reader
    <2>3. ASSUME readers[v].row # None
          PROVE  TrueTrail(readers[v])' \/ (damaged' # "no" /\ readers'[v].saw # "no")
      <3>1. readers[v].pc = "verify"
        BY <2>2, <2>3 DEF Genuine
      <3>2. TrueTrail(readers[v]) \/ damaged # "no"
        BY <2>3, <3>1 DEF Genuine
      <3> QED
        BY <1>k, <2>2, <3>2
    <2> QED
      BY <2>2, <2>3
  <1>5. CASE VerifyEvents(v)
    <2> DEFINE verdict == Verified(readers[v].seen, rows)
               saw == IF damaged = "rechained" THEN damaged ELSE readers[v].saw
    <2>1. readers'[v] = [readers[v] EXCEPT !.pc = "done", !.verdict = verdict,
                                           !.saw = saw]
      BY <1>5, <1>t DEF VerifyEvents
    <2>s. saw # readers[v].saw => saw # "no"
      OBVIOUS
    <2> HIDE DEF verdict, saw
    <2>2. /\ readers[v].pc = "events"
          /\ readers'[v].pc = "done"
          /\ readers'[v].row = readers[v].row
          /\ readers'[v].trail = readers[v].trail
          /\ readers'[v].saw = saw
      <3>1. readers[v].pc = "events"
        BY <1>5 DEF VerifyEvents
      <3> QED
        BY <1>r, <2>1, <3>1 DEF Reader
    <2> QED
      BY <1>g, <1>k, <2>s, <2>2 DEF Genuine
  <1>6. ASSUME NEW w \in Verifiers, w # v,
               TrailRun(w) \/ TrailEvents(w) \/ VerifyRun(w) \/ VerifyEvents(w)
        PROVE  readers'[v] = readers[v]
    BY <1>6, <1>t DEF TrailRun, TrailEvents, VerifyRun, VerifyEvents
  <1>7. ASSUME NEW p \in Processes, CommitAppend(p)
        PROVE  UNCHANGED <<readers[v].pc, readers[v].row, readers[v].trail,
                           readers[v].saw>>
    <2>1. readers'[v] = [readers[v] EXCEPT !.disturbed = @ \/ readers[v].pc = "events"]
      BY <1>7 DEF CommitAppend
    <2> QED
      BY <1>r, <2>1 DEF Reader
  <1>8. ASSUME NEW p \in Processes,
               BeginAppend(p) \/ ReadHead(p) \/ AbortAppend(p)
        PROVE  readers' = readers
    BY <1>8 DEF BeginAppend, ReadHead, AbortAppend
  <1>9. ASSUME Backfill \/ Damage \/ UNCHANGED vars
        PROVE  readers' = readers
    BY <1>9 DEF Backfill, Damage, vars
  <1> QED
    BY <1>1, <1>2, <1>3, <1>4, <1>5, <1>6, <1>7, <1>8, <1>9 DEF Next

-----------------------------------------------------------------------------
(* The invariant holds                                                     *)

LEMMA InitInv == Init => ChainInv
  <1> SUFFICES ASSUME Init
               PROVE  ChainInv
    OBVIOUS
  <1>1. recorded \in Nat /\ Len(rows) = recorded /\ DOMAIN rows = 1..recorded
    BY ChainAssumption DEF Init
  <1>2. \A i \in 1..recorded : rows[i].body = i /\ rows[i].hash = None
    BY <1>1 DEF Init
  <1>3. (Migrated => recorded = 0) /\ ~opened
    BY <1>1, <1>2 DEF Init, Migrated
  <1>4. Intact
    <2>1. recorded = 0 => anchor = [count |-> recorded, head |-> HashAt(recorded)]
      BY DEF Init, HashAt
    <2> QED
      BY <1>1, <1>2, <1>3, <2>1 DEF Intact
  <1>5. Locked
    BY DEF Init, Locked, NoAppend
  <1>6. Detectable /\ Reporting /\ Quiet /\ Genuine
    BY DEF Init, NoReader, Detectable, Reporting, Quiet, Genuine
  <1> QED
    BY <1>4, <1>5, <1>6, InitTypes DEF ChainInv

LEMMA ChainInvHolds == Spec => []ChainInv
  <1>1. ChainInv /\ [Next]_vars => ChainInv'
    BY TypesStep, LockedStep, IntactStep, DetectableStep, ReportingStep,
       QuietStep, GenuineStep DEF ChainInv
  <1> QED
    BY <1>1, InitInv, PTL DEF Spec

-----------------------------------------------------------------------------
(* Theorems                                                                *)

(* Nobody having damaged them, the events are the history, in order and      *)
(* without forks, linked by the right hashes, and the anchor names the last: *)
(* whatever appends, roll-backs and migrations interleave.                   *)
THEOREM ChainIsHistory == Spec => []ChainTellsHistory
  <1>1. ASSUME ChainInv
        PROVE  ChainTellsHistory
    <2> SUFFICES ASSUME damaged = "no"
                 PROVE  /\ Len(rows) = recorded
                        /\ \A i \in DOMAIN rows : rows[i].body = i
                        /\ opened => rows = Chained
                        /\ opened => anchor = [count |-> Len(rows),
                                               head |-> HeadHash(rows)]
      BY DEF ChainTellsHistory
    <2>1. rows \in Seq(Row)
      BY <1>1 DEF ChainInv, ChainTypes
    <2>2. /\ Len(rows) = recorded
          /\ \A i \in DOMAIN rows : rows[i].body = i
      BY <1>1 DEF ChainInv, Intact
    <2>3. ASSUME Migrated
          PROVE  rows = Chained
      <3>1. ASSUME NEW i \in DOMAIN rows
            PROVE  rows[i] = Chained[i]
        <4>1. /\ rows[i].body = i
              /\ rows[i].prev = HashAt(i - 1)
              /\ rows[i].hash = HashAt(i)
          BY <1>1, <2>3 DEF ChainInv, Intact
        <4>2. rows[i] \in Row
          BY <2>1, RowColumns
        <4>3. rows[i] = [body |-> i, prev |-> HashAt(i - 1), hash |-> HashAt(i)]
          BY <4>1, <4>2 DEF Row
        <4> QED
          BY <2>1, <2>2, <4>3, ChainedIsHistory
      <3>2. Chained \in Seq(Row) /\ Len(Chained) = Len(rows)
        BY <2>1, ChainedType
      <3> HIDE DEF Chained
      <3> QED
        BY <2>1, <3>1, <3>2
    <2>4. ASSUME Migrated
          PROVE  anchor = [count |-> Len(rows), head |-> HeadHash(rows)]
      BY <1>1, <2>2, <2>4, HeadIsHistory DEF ChainInv, Intact
    <2>5. opened => Migrated
      BY <1>1 DEF ChainInv, Intact
    <2> QED
      BY <2>2, <2>3, <2>4, <2>5
  <1> QED
    BY <1>1, ChainInvHolds, PTL

(* A verification that began after the damage reports it, whichever events   *)
(* were changed, removed or swapped, whichever hashes were cleared and       *)
(* whatever was appended since, unless somebody opened the file and so       *)
(* computed the cleared hashes before the verification ended.                *)
THEOREM DamageAlwaysShows == Spec => []DamageIsReported
  <1>1. ChainInv => DamageIsReported
    BY DEF ChainInv, Reporting, DamageIsReported
  <1> QED
    BY <1>1, ChainInvHolds, PTL

(* Nothing appended meanwhile and nothing damaged, a verification raises no  *)
(* alarm, although it reads run and events in two transactions.              *)
THEOREM NoFalseAlarm == Spec => []QuietVerdictIsRight
  <1>1. ChainInv => QuietVerdictIsRight
    BY DEF ChainInv, Quiet, QuietVerdictIsRight
  <1> QED
    BY <1>1, ChainInvHolds, PTL

(* A trail that is exported is a beginning of the history, although it was   *)
(* read before the verification that vouches for it, unless a damaged file   *)
(* was re-chained before that verification ended.                            *)
THEOREM BundlesAreGenuine == Spec => []BundleIsGenuine
  <1>1. ASSUME ChainInv
        PROVE  BundleIsGenuine
    <2> SUFFICES ASSUME NEW v \in Verifiers, Exported(v),
                        readers[v].saw # "rechained"
                 PROVE  TrueTrail(readers[v])
      BY DEF BundleIsGenuine, TrueTrail
    <2>1. /\ readers[v].pc = "done"
          /\ readers[v].row # None
          /\ readers[v].verdict
      BY DEF Exported
    <2>2. readers[v].saw = "no"
      <3>1. readers[v] \in Reader
        BY <1>1 DEF ChainInv, ChainTypes
      <3>2. readers[v].saw # "yes"
        BY <1>1, <2>1 DEF ChainInv, Reporting
      <3> QED
        BY <3>1, <3>2 DEF Reader
    <2> QED
      BY <1>1, <2>1, <2>2 DEF ChainInv, Genuine
  <1> QED
    BY <1>1, ChainInvHolds, PTL
=============================================================================
