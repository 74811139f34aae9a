--------------------------- MODULE RowLocksProofs ---------------------------
(***************************************************************************)
(* Proofs about RowLocks, for any number of runs, sweepers and clients.    *)
(* The rows of a run agree at every commit because a session that changed  *)
(* one of them holds its lock until it has changed the other.              *)
(***************************************************************************)
EXTENDS RowLocks, SequenceTheorems, FiniteSetTheorems, WellFoundedInduction,
        TLAPS

-----------------------------------------------------------------------------
(* What a transaction may look like                                        *)

Updates == [row : Rows, from : SUBSET Statuses, to : Statuses,
            always : BOOLEAN]

Paired == {"decide", "expire", "lapse"}

Operations == Paired \cup {"none", "give_up", "work"}

Transactions == [op : Operations, on : SUBSET Runs, todo : Seq(Updates),
                 done : SUBSET Updates]

RowsTyped ==
  /\ value \in [Rows -> Statuses]
  /\ late \in SUBSET Runs
  /\ queue \in [Rows -> Seq(Sessions)]
  /\ tx \in [Sessions -> Transactions]

ApprovalOf(r) == <<"approval", r>>
RunOf(r) == <<"run", r>>

Changed(t) == {u.row : u \in t.done}

Left(t) == {t.todo[i] : i \in DOMAIN t.todo}

\* No row is updated twice.
Distinct(t) ==
  /\ \A i, j \in DOMAIN t.todo : t.todo[i].row = t.todo[j].row => i = j
  /\ \A u \in t.done, i \in DOMAIN t.todo : u.row # t.todo[i].row
  /\ \A u, w \in t.done : u.row = w.row => u = w

\* The two rows of a run are updated one after the other, with one verdict.
InPairs(t) ==
  /\ \A i \in DOMAIN t.todo :
       /\ t.todo[i].row[1] = "approval" =>
            /\ i + 1 \in DOMAIN t.todo
            /\ t.todo[i + 1].row = RunOf(t.todo[i].row[2])
       /\ t.todo[i].row[1] = "run" /\ i > 1 =>
            t.todo[i - 1].row = ApprovalOf(t.todo[i].row[2])
  /\ \E verdict \in {"approved", "refused"} :
       \A u \in Left(t) \cup t.done : u.to = verdict
  /\ \A u \in Left(t) \cup t.done :
       u.from = IF t.op = "expire" THEN Statuses ELSE {"pending"}
  /\ \A r \in Runs :
       /\ RunOf(r) \in Changed(t) => ApprovalOf(r) \in Changed(t)
       /\ ApprovalOf(r) \in Changed(t) =>
            \/ RunOf(r) \in Changed(t)
            \/ t.todo # << >> /\ t.todo[1].row = RunOf(r)
       /\ t.op # "lapse" /\ t.todo # << >> /\ t.todo[1].row = RunOf(r) =>
            ApprovalOf(r) \in Changed(t)

\* The other transactions move runs whose approval is no longer asked.
RunsOnly(t) ==
  \A u \in Left(t) \cup t.done :
    /\ u.row[1] = "run"
    /\ u.from \subseteq {"approved", "executing", "finished"}
    /\ u.to \in {"executing", "finished"}

\* The runs a transaction is about; only a sweep may have several.
Scoped(t) ==
  /\ \A u \in Left(t) : u.row[2] \in t.on
  /\ t.op \in {"decide", "expire", "work"} => \E r \in Runs : t.on = {r}
  /\ t.op = "none" => Left(t) = {}

Planned(t) ==
  /\ Distinct(t)
  /\ Scoped(t)
  /\ IF t.op \in Paired THEN InPairs(t) ELSE RunsOnly(t)

\* Session s holds the rows it changed, and they are as it found them.
Holds(s) ==
  \A u \in tx[s].done : /\ queue[u.row] # << >>
                        /\ queue[u.row][1] = s
                        /\ value[u.row] \in u.from

Current(t, row) == t.todo # << >> /\ t.todo[1].row = row

\* A row that t updated already is followed in its run by the run's row only.
Past(t, row) ==
  \A u \in Left(t) :
    u.row[2] = row[2] => row[1] = "approval" /\ u.row[1] = "run"

\* Nobody stands twice at a row.  Whoever is not the first there waits, and
\* whoever does not wait has updated it.
InLine(row) ==
  /\ \A i, j \in DOMAIN queue[row] : queue[row][i] = queue[row][j] => i = j
  /\ \A i \in DOMAIN queue[row] :
       LET t == tx[queue[row][i]]
       IN  /\ row[2] \in t.on
           /\ i > 1 => Current(t, row)
           /\ ~Current(t, row) => Past(t, row)

LockInv ==
  /\ RowsTyped
  /\ RowsAgree
  /\ \A s \in Sessions : Planned(tx[s]) /\ Holds(s)
  /\ \A row \in Rows : InLine(row)

-----------------------------------------------------------------------------
(* Queues                                                                  *)

LEMMA WithoutKeepsHead ==
  ASSUME NEW line \in Seq(Sessions), NEW s \in Sessions
  PROVE  /\ Without(line, s) \in Seq(Sessions)
         /\ line # << >> /\ line[1] # s =>
              /\ Without(line, s) # << >>
              /\ Without(line, s)[1] = line[1]
  <1>1. CASE s \notin ToSet(line)
    BY <1>1 DEF Without
  <1>2. CASE s \in ToSet(line)
    <2> DEFINE k == Position(line, s)
               front == SubSeq(line, 1, k - 1)
               back == SubSeq(line, k + 1, Len(line))
    <2>1. Len(line) \in Nat /\ DOMAIN line = 1..Len(line)
      BY LenProperties
    <2>2. k \in 1..Len(line) /\ line[k] = s
      <3>1. \E i \in DOMAIN line : line[i] = s
        BY <1>2 DEF ToSet
      <3> QED
        BY <2>1, <3>1 DEF Position
    <2>3. \A i \in 1..Len(line) : line[i] \in Sessions
      BY ElementOfSeq
    <2> HIDE DEF k
    <2>4. /\ front \in Seq(Sessions)
          /\ Len(front) = k - 1
          /\ \A i \in 1..(k - 1) : front[i] = line[i]
      <3>1. \A i \in 1..(k - 1) : line[i] \in Sessions
        BY <2>1, <2>2, <2>3
      <3> QED
        BY <2>1, <2>2, <3>1, SubSeqProperties
    <2>5. back \in Seq(Sessions)
      <3>1. \A i \in (k + 1)..Len(line) : line[i] \in Sessions
        BY <2>1, <2>2, <2>3
      <3> QED
        BY <2>1, <2>2, <3>1, SubSeqProperties
    <2>6. Without(line, s) = front \o back
      BY <1>2 DEF Without, RemoveAt, k
    <2> HIDE DEF front, back
    <2>7. /\ front \o back \in Seq(Sessions)
          /\ Len(front \o back) = Len(front) + Len(back)
          /\ Len(back) \in Nat
      BY <2>4, <2>5, ConcatProperties, LenProperties
    <2>8. ASSUME line[1] # s
          PROVE  front \o back # << >> /\ (front \o back)[1] = line[1]
      <3>1. k > 1
        BY <2>1, <2>2, <2>8
      <3>2. Len(front) \in Nat /\ Len(front) >= 1 /\ front[1] = line[1]
        BY <2>1, <2>2, <2>4, <3>1
      <3>3. (front \o back)[1] = front[1]
        BY <2>4, <2>5, <2>7, <3>2, ConcatProperties
      <3>4. Len(front \o back) >= 1
        BY <2>7, <3>2
      <3> QED
        BY <3>2, <3>3, <3>4
    <2> QED
      BY <2>6, <2>7, <2>8
  <1> QED
    BY <1>1, <1>2

\* Whoever stands in the queue after s left stood in it before, no further ahead.
LEMMA WithoutShape ==
  ASSUME NEW line \in Seq(Sessions), NEW s \in Sessions,
         \A i, j \in DOMAIN line : line[i] = line[j] => i = j
  PROVE  LET rest == Without(line, s)
         IN  /\ \A i, j \in DOMAIN rest : rest[i] = rest[j] => i = j
             /\ \A i \in DOMAIN rest :
                  /\ rest[i] # s
                  /\ \E k \in DOMAIN line : k >= i /\ line[k] = rest[i]
  <1>0. Len(line) \in Nat /\ DOMAIN line = 1..Len(line)
    BY LenProperties
  <1>1. CASE s \notin ToSet(line)
    <2>1. Without(line, s) = line
      BY <1>1 DEF Without
    <2>2. \A i \in DOMAIN line : line[i] # s /\ i >= i
      BY <1>0, <1>1 DEF ToSet
    <2> QED
      BY <2>1, <2>2
  <1>2. CASE s \in ToSet(line)
    <2> DEFINE p == Position(line, s)
               n == Len(line)
               front == SubSeq(line, 1, p - 1)
               back == SubSeq(line, p + 1, n)
               rest == Without(line, s)
               old(i) == IF i < p THEN i ELSE i + 1
    <2>1. p \in 1..n /\ line[p] = s
      <3>1. \E i \in DOMAIN line : line[i] = s
        BY <1>2 DEF ToSet
      <3> QED
        BY <1>0, <3>1 DEF Position
    <2>2. \A i \in 1..n : line[i] \in Sessions
      BY ElementOfSeq
    <2> HIDE DEF p
    <2>3. /\ front \in Seq(Sessions)
          /\ Len(front) = p - 1
          /\ \A i \in 1..(p - 1) : front[i] = line[i]
      <3>1. \A i \in 1..(p - 1) : line[i] \in Sessions
        BY <1>0, <2>1, <2>2
      <3> QED
        BY <1>0, <2>1, <3>1, SubSeqProperties
    <2>4. /\ back \in Seq(Sessions)
          /\ Len(back) = n - p
          /\ \A i \in 1..(n - p) : back[i] = line[p + i]
      <3>1. \A i \in (p + 1)..n : line[i] \in Sessions
        BY <1>0, <2>1, <2>2
      <3>2. /\ back \in Seq(Sessions)
            /\ Len(back) = IF p + 1 <= n THEN n - (p + 1) + 1 ELSE 0
            /\ \A i \in 1..(n - (p + 1) + 1) : back[i] = line[(p + 1) + i - 1]
        BY <1>0, <2>1, <3>1, SubSeqProperties
      <3>0. n \in Nat
        BY <1>0
      <3> HIDE DEF back, n
      <3>3. n - (p + 1) + 1 = n - p /\ Len(back) = n - p
        BY <2>1, <3>0, <3>2
      <3>4. \A i \in 1..(n - p) : (p + 1) + i - 1 = p + i
        BY <2>1, <3>0
      <3> QED
        BY <3>2, <3>3, <3>4
    <2>5. rest = front \o back
      BY <1>2 DEF Without, RemoveAt, p
    <2> HIDE DEF front, back, rest, n
    <2>6. /\ DOMAIN rest = 1..(n - 1)
          /\ \A i \in 1..(n - 1) : rest[i] = line[old(i)]
      <3>1. /\ rest \in Seq(Sessions)
            /\ Len(rest) = (p - 1) + (n - p)
            /\ \A i \in 1..((p - 1) + (n - p)) :
                 rest[i] = IF i <= p - 1 THEN front[i] ELSE back[i - (p - 1)]
        BY <2>3, <2>4, <2>5, ConcatProperties
      <3>2. (p - 1) + (n - p) = n - 1
        BY <1>0, <2>1 DEF n
      <3>3. DOMAIN rest = 1..(n - 1)
        BY <3>1, <3>2, LenProperties
      <3>4. ASSUME NEW i \in 1..(n - 1)
            PROVE  rest[i] = line[old(i)]
        <4>1. CASE i < p
          BY <1>0, <2>1, <2>3, <3>1, <3>2, <4>1 DEF n
        <4>2. CASE ~(i < p)
          <5>1. i - (p - 1) \in 1..(n - p) /\ p + (i - (p - 1)) = i + 1
            BY <1>0, <2>1, <4>2 DEF n
          <5>2. rest[i] = back[i - (p - 1)]
            <6>1. i \in 1..((p - 1) + (n - p)) /\ ~(i <= p - 1)
              BY <1>0, <2>1, <3>2, <4>2 DEF n
            <6> QED
              BY <3>1, <6>1
          <5> QED
            BY <2>4, <4>2, <5>1, <5>2
        <4> QED
          BY <4>1, <4>2
      <3> QED
        BY <3>3, <3>4
    <2>7. \A i \in 1..(n - 1) : /\ old(i) \in 1..n
                                /\ old(i) >= i
                                /\ old(i) # p
      BY <1>0, <2>1 DEF n
    <2>8. \A i, j \in 1..(n - 1) : old(i) = old(j) => i = j
      BY <1>0, <2>1 DEF n
    <2> HIDE DEF old
    <2>9. DOMAIN line = 1..n
      BY <1>0 DEF n
    <2>10. \A i, j \in DOMAIN rest : rest[i] = rest[j] => i = j
      BY <2>6, <2>7, <2>8, <2>9
    <2>11. \A i \in DOMAIN rest :
             /\ rest[i] # s
             /\ \E k \in DOMAIN line : k >= i /\ line[k] = rest[i]
      BY <2>1, <2>6, <2>7, <2>9
    <2> QED
      BY <2>10, <2>11 DEF rest
  <1> QED
    BY <1>1, <1>2

\* A granted session finds the queue empty, or leads it.
LEMMA GrantedLeads ==
  ASSUME NEW line \in Seq(Sessions), NEW s \in Sessions,
         Head(Append(line, s)) = s, line # << >>
  PROVE  line[1] = s
  <1>1. /\ Append(line, s) # << >>
        /\ Append(line, s) \in Seq(Sessions)
        /\ \A i \in 1..Len(line) : Append(line, s)[i] = line[i]
    BY AppendProperties
  <1>2. Head(Append(line, s)) = Append(line, s)[1]
    BY <1>1
  <1>3. 1 \in 1..Len(line)
    BY LenProperties, EmptySeq
  <1> QED
    BY <1>1, <1>2, <1>3

-----------------------------------------------------------------------------
(* A transaction that goes on with its next update                         *)

LEMMA RowNames ==
  /\ \A row \in Rows :
       /\ row[2] \in Runs
       /\ \/ row = ApprovalOf(row[2]) /\ row[1] = "approval"
          \/ row = RunOf(row[2]) /\ row[1] = "run"
  /\ \A r \in Runs :
       /\ ApprovalOf(r) \in Rows /\ ApprovalOf(r)[1] = "approval"
       /\ ApprovalOf(r)[2] = r
       /\ RunOf(r) \in Rows /\ RunOf(r)[1] = "run" /\ RunOf(r)[2] = r
  BY DEF Rows, ApprovalOf, RunOf

LEMMA TodoShape ==
  ASSUME NEW t \in Transactions, t.todo # << >>
  PROVE  LET n == Len(t.todo)
         IN  /\ n \in Nat /\ n >= 1
             /\ DOMAIN t.todo = 1..n
             /\ Head(t.todo) = t.todo[1]
             /\ \A i \in 1..n : t.todo[i] \in Updates
             /\ Tail(t.todo) \in Seq(Updates)
             /\ DOMAIN Tail(t.todo) = 1..(n - 1)
             /\ Tail(t.todo) # << >> <=> n >= 2
             /\ \A i \in 1..(n - 1) : Tail(t.todo)[i] = t.todo[i + 1]
  <1>1. t.todo \in Seq(Updates)
    BY DEF Transactions
  <1> DEFINE todo == t.todo
             rest == Tail(todo)
  <1>2. Len(todo) \in Nat /\ Len(todo) >= 1 /\ DOMAIN todo = 1..Len(todo)
    BY <1>1, LenProperties, EmptySeq
  <1>3. Head(todo) = todo[1]
    BY <1>1
  <1>4. \A i \in 1..Len(todo) : todo[i] \in Updates
    BY <1>1, ElementOfSeq
  <1>5. /\ rest \in Seq(Updates)
        /\ Len(rest) = Len(todo) - 1
        /\ \A i \in 1..Len(rest) : rest[i] = todo[i + 1]
    BY <1>1, HeadTailProperties
  <1> HIDE DEF rest
  <1>6. DOMAIN rest = 1..Len(rest) /\ (rest = << >> <=> Len(rest) = 0)
    BY <1>5, LenProperties, EmptySeq
  <1> QED
    BY <1>2, <1>3, <1>4, <1>5, <1>6 DEF rest

\* The transaction after an update that its operation goes on from.
Further(t, hit) ==
  [t EXCEPT !.todo = Tail(@),
            !.done = IF hit THEN @ \cup {Head(t.todo)} ELSE @]

LEMMA FurtherColumns ==
  ASSUME NEW t \in Transactions, t.todo # << >>, NEW hit \in BOOLEAN
  PROVE  /\ Further(t, hit) \in Transactions
         /\ Further(t, hit).op = t.op
         /\ Further(t, hit).on = t.on
         /\ Further(t, hit).todo = Tail(t.todo)
         /\ Further(t, hit).done =
              IF hit THEN t.done \cup {t.todo[1]} ELSE t.done
         /\ Left(Further(t, hit)) \cup Further(t, hit).done
              \subseteq Left(t) \cup t.done
         /\ t.todo[1] \in Left(t)
         /\ \A u \in Left(Further(t, hit)) :
              \E i \in DOMAIN t.todo : i > 1 /\ u = t.todo[i]
  <1>1. /\ Tail(t.todo) \in Seq(Updates) /\ t.todo[1] \in Updates
        /\ Head(t.todo) = t.todo[1]
    BY TodoShape
  <1>2. /\ Further(t, hit).op = t.op
        /\ Further(t, hit).todo = Tail(t.todo)
        /\ Further(t, hit).done =
              IF hit THEN t.done \cup {t.todo[1]} ELSE t.done
        /\ Further(t, hit).on = t.on
    BY <1>1 DEF Further, Transactions
  <1>3. Further(t, hit) \in Transactions
    BY <1>1 DEF Further, Transactions
  <1>4. t.todo[1] \in Left(t)
    BY TodoShape DEF Left
  <1>5. \A u \in Left(Further(t, hit)) :
          \E i \in DOMAIN t.todo : i > 1 /\ u = t.todo[i]
    <2>1. /\ DOMAIN Further(t, hit).todo = 1..(Len(t.todo) - 1)
          /\ DOMAIN t.todo = 1..Len(t.todo)
          /\ Len(t.todo) \in Nat
          /\ \A i \in 1..(Len(t.todo) - 1) :
               Further(t, hit).todo[i] = t.todo[i + 1]
      BY <1>2, TodoShape
    <2>2. \A i \in 1..(Len(t.todo) - 1) : i + 1 \in 1..Len(t.todo) /\ i + 1 > 1
      BY <2>1
    <2> QED
      BY <2>1, <2>2 DEF Left
  <1>6. Left(Further(t, hit)) \cup Further(t, hit).done \subseteq Left(t) \cup t.done
    <2>1. Left(Further(t, hit)) \subseteq Left(t)
      BY <1>5 DEF Left
    <2> QED
      BY <1>2, <1>4, <2>1
  <1> QED
    BY <1>2, <1>3, <1>4, <1>5, <1>6

LEMMA FurtherScoped ==
  ASSUME NEW t \in Transactions, t.todo # << >>, NEW hit \in BOOLEAN, Scoped(t)
  PROVE  Scoped(Further(t, hit))
  <1> DEFINE u == Further(t, hit)
  <1>1. /\ u.op = t.op /\ u.on = t.on
        /\ \A w \in Left(u) : \E i \in DOMAIN t.todo : w = t.todo[i]
    <2>1. \A w \in Left(u) : \E i \in DOMAIN t.todo : i > 1 /\ w = t.todo[i]
      BY FurtherColumns
    <2>2. u.op = t.op /\ u.on = t.on
      BY FurtherColumns
    <2> QED
      BY <2>1, <2>2
  <1> HIDE DEF u
  <1>2. Left(u) \subseteq Left(t)
    BY <1>1 DEF Left
  <1> QED
    BY <1>1, <1>2 DEF Scoped, u

LEMMA FurtherDistinct ==
  ASSUME NEW t \in Transactions, t.todo # << >>, NEW hit \in BOOLEAN, Distinct(t)
  PROVE  Distinct(Further(t, hit))
  <1> DEFINE next == t.todo[1]
             n == Len(t.todo)
             u == Further(t, hit)
  <1>1. /\ n \in Nat /\ n >= 1 /\ DOMAIN t.todo = 1..n
        /\ u.todo = Tail(t.todo) /\ DOMAIN u.todo = 1..(n - 1)
        /\ \A i \in 1..(n - 1) : u.todo[i] = t.todo[i + 1]
        /\ u.done \subseteq t.done \cup {next}
    <2>1. /\ u.todo = Tail(t.todo)
          /\ u.done = IF hit THEN t.done \cup {next} ELSE t.done
      BY FurtherColumns
    <2>2. /\ n \in Nat /\ n >= 1 /\ DOMAIN t.todo = 1..n
          /\ DOMAIN Tail(t.todo) = 1..(n - 1)
          /\ \A i \in 1..(n - 1) : Tail(t.todo)[i] = t.todo[i + 1]
      BY TodoShape
    <2> HIDE DEF n, u, next
    <2> QED
      BY <2>1, <2>2
  <1> HIDE DEF n, u
  <1>2. ASSUME NEW i \in DOMAIN u.todo, NEW j \in DOMAIN u.todo,
               u.todo[i].row = u.todo[j].row
        PROVE  i = j
    <2>1. /\ i \in Nat /\ j \in Nat
          /\ i + 1 \in DOMAIN t.todo /\ j + 1 \in DOMAIN t.todo
          /\ t.todo[i + 1].row = t.todo[j + 1].row
      BY <1>1, <1>2
    <2>2. i + 1 = j + 1
      BY <2>1 DEF Distinct
    <2> QED
      BY <2>1, <2>2
  <1>3. ASSUME NEW w \in u.done, NEW i \in DOMAIN u.todo
        PROVE  w.row # u.todo[i].row
    <2>1. /\ i + 1 \in DOMAIN t.todo /\ i + 1 # 1 /\ 1 \in DOMAIN t.todo
          /\ u.todo[i] = t.todo[i + 1]
      BY <1>1
    <2>2. w \in t.done \/ w = t.todo[1]
      BY <1>1
    <2> QED
      BY <2>1, <2>2 DEF Distinct
  <1>4. \A v, w \in u.done : v.row = w.row => v = w
    BY <1>1 DEF Distinct
  <1> QED
    BY <1>2, <1>3, <1>4 DEF Distinct, u

LEMMA FurtherRunsOnly ==
  ASSUME NEW t \in Transactions, t.todo # << >>, NEW hit \in BOOLEAN, RunsOnly(t)
  PROVE  RunsOnly(Further(t, hit))
  <1>1. Left(Further(t, hit)) \cup Further(t, hit).done \subseteq Left(t) \cup t.done
    BY FurtherColumns
  <1> QED
    BY <1>1 DEF RunsOnly

\* The second row of a pair is changed exactly if the first was.
LEMMA FurtherInPairs ==
  ASSUME NEW t \in Transactions, t.todo # << >>, NEW hit \in BOOLEAN,
         t.op \in Paired, InPairs(t),
         t.todo[1].row[1] = "approval" /\ t.op # "lapse" => hit,
         \A r \in Runs :
           t.todo[1].row = RunOf(r) => (hit <=> ApprovalOf(r) \in Changed(t))
  PROVE  InPairs(Further(t, hit))
  <1> DEFINE next == t.todo[1]
             n == Len(t.todo)
             u == Further(t, hit)
  <1>1. /\ n \in Nat /\ n >= 1 /\ DOMAIN t.todo = 1..n
        /\ u.todo = Tail(t.todo) /\ DOMAIN u.todo = 1..(n - 1)
        /\ u.todo # << >> <=> n >= 2
        /\ \A i \in 1..(n - 1) : u.todo[i] = t.todo[i + 1]
        /\ \A i \in 1..n : t.todo[i].row \in Rows
        /\ u.op = t.op
        /\ Left(u) \cup u.done \subseteq Left(t) \cup t.done
    <2>1. \A i \in 1..n : t.todo[i].row \in Rows
      BY TodoShape DEF Updates
    <2>2. /\ u.todo = Tail(t.todo) /\ u.op = t.op
          /\ Left(u) \cup u.done \subseteq Left(t) \cup t.done
      BY FurtherColumns
    <2>3. /\ n \in Nat /\ n >= 1 /\ DOMAIN t.todo = 1..n
          /\ DOMAIN Tail(t.todo) = 1..(n - 1)
          /\ Tail(t.todo) # << >> <=> n >= 2
          /\ \A i \in 1..(n - 1) : Tail(t.todo)[i] = t.todo[i + 1]
      BY TodoShape
    <2> HIDE DEF n, u
    <2> QED
      BY <2>1, <2>2, <2>3
  <1>2. /\ \A r \in Runs : ApprovalOf(r) \in Changed(u)
             <=> ApprovalOf(r) \in Changed(t) \/ (hit /\ next.row = ApprovalOf(r))
        /\ \A r \in Runs : RunOf(r) \in Changed(u)
             <=> RunOf(r) \in Changed(t) \/ (hit /\ next.row = RunOf(r))
    <2>1. u.done = IF hit THEN t.done \cup {next} ELSE t.done
      BY FurtherColumns
    <2> HIDE DEF u, next
    <2>2. \A row : row \in Changed(u) <=> row \in Changed(t) \/ (hit /\ next.row = row)
      BY <2>1 DEF Changed
    <2> QED
      BY <2>2
  <1> HIDE DEF n, u
  <1>3. /\ \A i \in 1..n :
             /\ t.todo[i].row[1] = "approval" =>
                  /\ i + 1 \in 1..n
                  /\ t.todo[i + 1].row = RunOf(t.todo[i].row[2])
             /\ t.todo[i].row[1] = "run" /\ i > 1 =>
                  t.todo[i - 1].row = ApprovalOf(t.todo[i].row[2])
    BY <1>1 DEF InPairs
  <1>4. ASSUME NEW i \in DOMAIN u.todo
        PROVE  /\ u.todo[i].row[1] = "approval" =>
                    /\ i + 1 \in DOMAIN u.todo
                    /\ u.todo[i + 1].row = RunOf(u.todo[i].row[2])
               /\ u.todo[i].row[1] = "run" /\ i > 1 =>
                    u.todo[i - 1].row = ApprovalOf(u.todo[i].row[2])
    <2>1. /\ i \in 1..(n - 1) /\ i + 1 \in 1..n /\ i + 1 > 1
          /\ u.todo[i] = t.todo[i + 1]
      BY <1>1
    <2>2. ASSUME u.todo[i].row[1] = "approval"
          PROVE  /\ i + 1 \in DOMAIN u.todo
                 /\ u.todo[i + 1].row = RunOf(u.todo[i].row[2])
      <3>1. (i + 1) + 1 \in 1..n /\ t.todo[(i + 1) + 1].row = RunOf(u.todo[i].row[2])
        BY <1>3, <2>1, <2>2
      <3>2. i + 1 \in 1..(n - 1)
        BY <1>1, <2>1, <3>1
      <3> QED
        BY <1>1, <3>1, <3>2
    <2>3. ASSUME u.todo[i].row[1] = "run", i > 1
          PROVE  u.todo[i - 1].row = ApprovalOf(u.todo[i].row[2])
      <3>1. (i + 1) - 1 = i /\ i - 1 \in 1..(n - 1) /\ (i - 1) + 1 = i
        <4>1. i \in Int /\ n \in Int /\ i > 1 /\ i <= n - 1
          BY <1>1, <2>1, <2>3
        <4> QED
          BY <4>1
      <3>2. t.todo[(i + 1) - 1].row = ApprovalOf(t.todo[i + 1].row[2])
        BY <1>3, <2>1, <2>3
      <3>3. u.todo[i - 1] = t.todo[i]
        BY <1>1, <3>1
      <3> QED
        BY <2>1, <3>1, <3>2, <3>3
    <2> QED
      BY <2>2, <2>3
  <1>5. \E verdict \in {"approved", "refused"} :
          \A w \in Left(u) \cup u.done : w.to = verdict
    BY <1>1 DEF InPairs
  <1>6. \A w \in Left(u) \cup u.done :
          w.from = IF u.op = "expire" THEN Statuses ELSE {"pending"}
    BY <1>1 DEF InPairs
  <1>7. ASSUME NEW r \in Runs
        PROVE  /\ RunOf(r) \in Changed(u) => ApprovalOf(r) \in Changed(u)
               /\ ApprovalOf(r) \in Changed(u) =>
                    \/ RunOf(r) \in Changed(u)
                    \/ u.todo # << >> /\ u.todo[1].row = RunOf(r)
               /\ u.op # "lapse" /\ u.todo # << >> /\ u.todo[1].row = RunOf(r) =>
                    ApprovalOf(r) \in Changed(u)
    <2> USE RowNames
    <2>1. RunOf(r) \in Changed(u) => ApprovalOf(r) \in Changed(u)
      BY <1>2 DEF InPairs
    <2>2. ASSUME ApprovalOf(r) \in Changed(u), RunOf(r) \notin Changed(u)
          PROVE  u.todo # << >> /\ u.todo[1].row = RunOf(r)
      <3>1. CASE ApprovalOf(r) \in Changed(t)
        <4>1. next.row = RunOf(r)
          BY <1>2, <2>2, <3>1 DEF InPairs
        <4>2. hit
          BY <3>1, <4>1
        <4> QED
          BY <1>2, <2>2, <4>1, <4>2
      <3>2. CASE hit /\ next.row = ApprovalOf(r)
        <4>1. 1 \in 1..n /\ next.row[1] = "approval" /\ next.row[2] = r
          BY <1>1, <3>2
        <4>2. 1 + 1 \in 1..n /\ t.todo[1 + 1].row = RunOf(r)
          BY <1>3, <4>1
        <4> QED
          BY <1>1, <4>2
      <3> QED
        BY <1>2, <2>2, <3>1, <3>2
    <2>3. ASSUME u.op # "lapse", u.todo # << >>, u.todo[1].row = RunOf(r)
          PROVE  ApprovalOf(r) \in Changed(u)
      <3>1. 1 + 1 \in 1..n /\ u.todo[1] = t.todo[1 + 1] /\ (1 + 1) - 1 = 1
        BY <1>1, <2>3
      <3>2. t.todo[1 + 1].row[1] = "run" /\ t.todo[1 + 1].row[2] = r
        BY <2>3, <3>1
      <3>3. next.row = ApprovalOf(r)
        BY <1>3, <3>1, <3>2
      <3> QED
        BY <1>1, <1>2, <2>3, <3>3
    <2> QED
      BY <2>1, <2>2, <2>3
  <1> QED
    BY <1>4, <1>5, <1>6, <1>7 DEF InPairs, u

\* Whether an update finds its row as it asks.
Hits(u) == value[u.row] \in u.from

\* A decision that found the approval pending finds the run pending too, because
\* it holds the approval; an expiry asks nothing; a sweep compares.
LEMMA SecondRowHits ==
  ASSUME RowsTyped, RowsAgree, NEW s \in Sessions, Planned(tx[s]), Holds(s),
         tx[s].todo # << >>, tx[s].op \in {"decide", "expire"},
         NEW r \in Runs, tx[s].todo[1].row = RunOf(r)
  PROVE  Hits(tx[s].todo[1]) /\ ApprovalOf(r) \in Changed(tx[s])
  <1> DEFINE t == tx[s]
             next == t.todo[1]
  <1> USE RowNames
  <1>1. t \in Transactions /\ next \in Updates /\ next \in Left(t) /\ InPairs(t)
    <2>1. t \in Transactions
      BY DEF RowsTyped
    <2>2. InPairs(t)
      BY DEF Planned, Paired
    <2> HIDE DEF t
    <2>3. DOMAIN t.todo = 1..Len(t.todo) /\ next \in Updates /\ 1 \in 1..Len(t.todo)
      BY <2>1, TodoShape DEF t
    <2> QED
      BY <2>1, <2>2, <2>3 DEF Left
  <1>2. ApprovalOf(r) \in Changed(t)
    BY <1>1 DEF InPairs
  <1>3. CASE t.op = "expire"
    <2>1. next.from = Statuses
      BY <1>1, <1>3 DEF InPairs
    <2> QED
      BY <1>1, <1>2, <2>1 DEF Hits, RowsTyped
  <1>4. CASE t.op = "decide"
    <2>1. PICK u \in t.done : u.row = ApprovalOf(r)
      BY <1>2 DEF Changed
    <2>2. u.from = {"pending"} /\ next.from = {"pending"}
      BY <1>1, <1>4 DEF InPairs
    <2>3. value[ApprovalOf(r)] = "pending"
      BY <2>1, <2>2 DEF Holds
    <2>4. value[RunOf(r)] = "pending"
      BY <2>3 DEF RowsAgree, Status, ApprovalOf, RunOf
    <2> QED
      BY <1>2, <2>2, <2>4 DEF Hits
  <1> QED
    BY <1>3, <1>4

\* The transaction after an update that its operation stops at.
LEMMA StopColumns ==
  ASSUME NEW t \in Transactions
  PROVE  LET stopped == [t EXCEPT !.todo = << >>]
             undone == [t EXCEPT !.todo = << >>, !.done = {}]
         IN  /\ stopped \in Transactions
             /\ stopped.op = t.op /\ stopped.todo = << >>
             /\ stopped.on = t.on /\ stopped.done = t.done
             /\ undone \in Transactions
             /\ undone.op = t.op /\ undone.todo = << >>
             /\ undone.on = t.on /\ undone.done = {}
  <1>1. << >> \in Seq(Updates)
    BY EmptySeq
  <1> QED
    BY <1>1 DEF Transactions

LEMMA AfterPlanned ==
  ASSUME RowsTyped, RowsAgree, NEW s \in Sessions, Planned(tx[s]), Holds(s),
         tx[s].todo # << >>
  PROVE  LET hit == Hits(tx[s].todo[1])
             t == After(s, hit)
         IN  /\ t \in Transactions
             /\ Planned(t)
             /\ t.done \subseteq
                  tx[s].done \cup (IF hit THEN {tx[s].todo[1]} ELSE {})
             /\ t.on = tx[s].on
             /\ \A u \in Left(t) :
                  \E i \in DOMAIN tx[s].todo : i > 1 /\ u = tx[s].todo[i]
  <1> DEFINE now == tx[s]
             next == now.todo[1]
             hit == Hits(next)
             t == After(s, hit)
             expired == \E u \in now.done : u.row = <<"approval", next.row[2]>>
  <1> USE RowNames
  <1> SUFFICES /\ t \in Transactions
               /\ Planned(t)
               /\ t.done \subseteq now.done \cup (IF hit THEN {next} ELSE {})
               /\ t.on = now.on
               /\ \A u \in Left(t) :
                    \E i \in DOMAIN now.todo : i > 1 /\ u = now.todo[i]
    OBVIOUS
  <1>1. /\ now \in Transactions
        /\ Head(now.todo) = next
        /\ next \in Updates
        /\ next \in Left(now)
        /\ hit \in BOOLEAN
        /\ expired \in BOOLEAN
    <2>1. now \in Transactions
      BY DEF RowsTyped
    <2>2. hit \in BOOLEAN /\ expired \in BOOLEAN
      BY DEF Hits
    <2>3. Head(now.todo) = next /\ next \in Updates
      BY <2>1, TodoShape
    <2>4. next \in Left(now)
      BY <2>1, TodoShape DEF Left
    <2> QED
      BY <2>1, <2>2, <2>3, <2>4
  <1>2. CASE now.op = "decide" /\ next.row[1] = "approval" /\ ~hit
    <2>1. t = [now EXCEPT !.todo = << >>]
      BY <1>1, <1>2 DEF After
    <2> HIDE DEF t, now
    <2>2. /\ t \in Transactions /\ t.op = now.op /\ t.todo = << >>
          /\ t.on = now.on /\ t.done = now.done
      BY <1>1, <2>1, StopColumns
    <2> USE DEF now
    <2>3. Left(t) = {} /\ DOMAIN t.todo = {} /\ Changed(t) = Changed(now)
      BY <2>2 DEF Left, Changed
    <2>4. now.op \in Paired /\ InPairs(now)
      BY <1>2 DEF Planned, Paired
    <2>5. InPairs(t)
      <3>1. \A r \in Runs : next.row # RunOf(r)
        BY <1>2
      <3>2. \A r \in Runs :
              /\ RunOf(r) \in Changed(t) => ApprovalOf(r) \in Changed(t)
              /\ ApprovalOf(r) \in Changed(t) => RunOf(r) \in Changed(t)
        BY <2>3, <2>4, <3>1 DEF InPairs
      <3>3. \E verdict \in {"approved", "refused"} :
              \A u \in Left(t) \cup t.done : u.to = verdict
        BY <2>2, <2>3, <2>4 DEF InPairs
      <3>4. \A u \in Left(t) \cup t.done :
              u.from = IF t.op = "expire" THEN Statuses ELSE {"pending"}
        BY <2>2, <2>3, <2>4 DEF InPairs
      <3> QED
        BY <2>2, <2>3, <3>2, <3>3, <3>4 DEF InPairs
    <2>6. Distinct(t)
      BY <2>2, <2>3 DEF Distinct, Planned
    <2>7. Scoped(t)
      BY <2>2, <2>3 DEF Scoped, Planned
    <2> QED
      BY <2>2, <2>3, <2>4, <2>5, <2>6, <2>7 DEF Planned
  <1>3. CASE now.op = "lapse" /\ next.row[1] = "run" /\ hit # expired
    <2>1. t = [now EXCEPT !.todo = << >>, !.done = {}]
      BY <1>1, <1>3 DEF After
    <2> HIDE DEF t, now
    <2>2. /\ t \in Transactions /\ t.op = "lapse" /\ t.todo = << >>
          /\ t.on = now.on /\ t.done = {}
      BY <1>1, <1>3, <2>1, StopColumns
    <2>3. Left(t) = {} /\ DOMAIN t.todo = {} /\ Changed(t) = {}
      BY <2>2 DEF Left, Changed
    <2>4. InPairs(t) /\ Distinct(t)
      BY <2>2, <2>3 DEF InPairs, Distinct
    <2>5. Scoped(t)
      BY <2>2, <2>3 DEF Scoped
    <2> QED
      BY <2>2, <2>3, <2>4, <2>5 DEF Planned, Paired
  <1>4. CASE /\ ~(now.op = "decide" /\ next.row[1] = "approval" /\ ~hit)
             /\ ~(now.op = "lapse" /\ next.row[1] = "run" /\ hit # expired)
    <2>1. t = Further(now, hit)
      <3> DEFINE first == Head(now.todo)
                 before == \E u \in now.done : u.row = <<"approval", first.row[2]>>
      <3>1. /\ ~(now.op = "decide" /\ first.row[1] = "approval" /\ ~hit)
            /\ ~(now.op = "lapse" /\ first.row[1] = "run" /\ hit # before)
        <4>1. first = next
          BY <1>1
        <4> HIDE DEF next, hit
        <4> QED
          BY <1>4, <4>1, Zenon
      <3> HIDE DEF hit
      <3> QED
        BY <3>1, Zenon DEF After, Further
    <2> HIDE DEF t
    <2>2. /\ t \in Transactions
          /\ t.op = now.op
          /\ t.on = now.on
          /\ Distinct(t)
          /\ Scoped(t)
          /\ \A u \in Left(t) :
               \E i \in DOMAIN now.todo : i > 1 /\ u = now.todo[i]
          /\ t.done = IF hit THEN now.done \cup {next} ELSE now.done
      <3>1. Distinct(now) /\ Scoped(now) /\ now.todo # << >>
        BY DEF Planned
      <3> HIDE DEF now, hit
      <3>2. /\ t \in Transactions /\ t.op = now.op /\ t.on = now.on
            /\ \A u \in Left(t) :
                 \E i \in DOMAIN now.todo : i > 1 /\ u = now.todo[i]
            /\ t.done = IF hit THEN now.done \cup {next} ELSE now.done
        <4>1. now.todo[1] = next /\ now \in Transactions /\ hit \in BOOLEAN
          BY <1>1
        <4> HIDE DEF next
        <4>2. /\ Further(now, hit) \in Transactions
              /\ Further(now, hit).op = now.op
              /\ Further(now, hit).on = now.on
              /\ Further(now, hit).done =
                   IF hit THEN now.done \cup {now.todo[1]} ELSE now.done
              /\ \A u \in Left(Further(now, hit)) :
                   \E i \in DOMAIN now.todo : i > 1 /\ u = now.todo[i]
          BY <3>1, <4>1, FurtherColumns
        <4> QED
          BY <2>1, <4>1, <4>2, Zenon
      <3>3. Distinct(t)
        BY <1>1, <2>1, <3>1, FurtherDistinct
      <3>4. Scoped(t)
        BY <1>1, <2>1, <3>1, FurtherScoped
      <3> QED
        BY <3>2, <3>3, <3>4
    <2>3. CASE now.op \notin Paired
      <3>1. RunsOnly(t)
        BY <1>1, <2>1, <2>3, FurtherRunsOnly DEF Planned
      <3> QED
        BY <2>2, <2>3, <3>1 DEF Planned
    <2>4. CASE now.op \in Paired
      <3>1. InPairs(now)
        BY <2>4 DEF Planned
      <3>2. next.row[1] = "approval" /\ now.op # "lapse" => hit
        <4>1. CASE now.op = "expire"
          <5>1. next.from = Statuses
            BY <1>1, <3>1, <4>1 DEF InPairs
          <5> QED
            BY <1>1, <5>1 DEF Hits, RowsTyped, Updates
        <4> QED
          BY <1>4, <2>4, <4>1 DEF Paired
      <3>3. ASSUME NEW r \in Runs, next.row = RunOf(r)
            PROVE  hit <=> ApprovalOf(r) \in Changed(now)
        <4>1. CASE now.op = "lapse"
          <5>1. hit <=> expired
            <6>1. now.op = "lapse" /\ next.row[1] = "run"
              BY <3>3, <4>1
            <6>2. ~(hit # expired)
              BY <1>4, <6>1, Zenon
            <6> QED
              BY <1>1, <6>2
          <5>2. next.row[2] = r
            BY <3>3
          <5>3. expired <=> ApprovalOf(r) \in Changed(now)
            BY <5>2 DEF Changed, ApprovalOf
          <5> QED
            BY <5>1, <5>3
        <4>2. CASE now.op \in {"decide", "expire"}
          BY <3>3, <4>2, SecondRowHits
        <4> QED
          BY <2>4, <4>1, <4>2 DEF Paired
      <3>4. InPairs(t)
        BY <1>1, <2>1, <2>4, <3>1, <3>2, <3>3, FurtherInPairs
      <3> QED
        BY <2>2, <2>4, <3>4 DEF Planned
    <2> QED
      BY <2>2, <2>3, <2>4
  <1> QED
    BY <1>2, <1>3, <1>4

-----------------------------------------------------------------------------
(* Transactions that begin                                                 *)

Fresh(op, on, todo) == [op |-> op, on |-> on, todo |-> todo, done |-> {}]

Opens(s) ==
  \E t \in Transactions :
    /\ Planned(t)
    /\ t.done = {}
    /\ tx[s] = NoTx
    /\ tx' = [tx EXCEPT ![s] = t]
    /\ UNCHANGED <<value, late, queue>>

LEMMA BeginOpens ==
  ASSUME NEW s, NEW op \in Operations, NEW on \in SUBSET Runs,
         NEW todo \in Seq(Updates), Planned(Fresh(op, on, todo)),
         Begin(s, op, on, todo)
  PROVE  Opens(s)
  <1>1. Fresh(op, on, todo) \in Transactions /\ Fresh(op, on, todo).done = {}
    BY DEF Fresh, Transactions
  <1>2. /\ tx[s] = NoTx
        /\ tx' = [tx EXCEPT ![s] = Fresh(op, on, todo)]
        /\ UNCHANGED <<value, late, queue>>
    BY DEF Begin, Fresh
  <1> QED
    BY <1>1, <1>2 DEF Opens

LEMMA FreshPairs ==
  ASSUME NEW op \in Paired, NEW on \in SUBSET Runs, NEW todo \in Seq(Updates),
         \A i, j \in DOMAIN todo : todo[i].row = todo[j].row => i = j,
         \A i \in DOMAIN todo :
           /\ todo[i].row[1] = "approval" =>
                /\ i + 1 \in DOMAIN todo
                /\ todo[i + 1].row = RunOf(todo[i].row[2])
           /\ todo[i].row[1] = "run" =>
                i > 1 /\ todo[i - 1].row = ApprovalOf(todo[i].row[2]),
         NEW verdict \in {"approved", "refused"},
         \A i \in DOMAIN todo :
           /\ todo[i].to = verdict
           /\ todo[i].from = IF op = "expire" THEN Statuses ELSE {"pending"}
           /\ todo[i].row[2] \in on,
         op # "lapse" => \E r \in Runs : on = {r}
  PROVE  Planned(Fresh(op, on, todo))
  <1> DEFINE t == Fresh(op, on, todo)
  <1>1. t.op = op /\ t.on = on /\ t.todo = todo /\ t.done = {}
    BY DEF Fresh
  <1> HIDE DEF t
  <1>2. Distinct(t)
    BY <1>1 DEF Distinct
  <1>3. Left(t) \cup t.done = {todo[i] : i \in DOMAIN todo} /\ Changed(t) = {}
    BY <1>1 DEF Left, Changed
  <1>4. \A r \in Runs : ~(todo # << >> /\ todo[1].row = RunOf(r))
    <2> SUFFICES ASSUME NEW r \in Runs, todo # << >>, todo[1].row = RunOf(r)
                 PROVE  FALSE
      OBVIOUS
    <2>1. 1 \in DOMAIN todo
      BY LenProperties, EmptySeq
    <2>2. todo[1].row[1] = "run"
      BY RowNames
    <2> QED
      BY <2>1, <2>2
  <1>5. InPairs(t)
    BY <1>1, <1>3, <1>4 DEF InPairs
  <1>6. Scoped(t)
    BY <1>1, <1>3 DEF Scoped, Paired
  <1> QED
    BY <1>1, <1>2, <1>5, <1>6 DEF Planned, t

LEMMA UpdateColumns ==
  ASSUME NEW kind \in {"approval", "run"}, NEW r \in Runs,
         NEW from \in SUBSET Statuses, NEW to \in Statuses
  PROVE  /\ Update(kind, r, from, to) \in Updates
         /\ Update(kind, r, from, to).row = <<kind, r>>
         /\ Update(kind, r, from, to).from = from
         /\ Update(kind, r, from, to).to = to
         /\ [Update(kind, r, from, to) EXCEPT !.always = TRUE] \in Updates
         /\ [Update(kind, r, from, to) EXCEPT !.always = TRUE].row = <<kind, r>>
         /\ [Update(kind, r, from, to) EXCEPT !.always = TRUE].from = from
         /\ [Update(kind, r, from, to) EXCEPT !.always = TRUE].to = to
  BY DEF Update, Updates, Rows

LEMMA TwoUpdates ==
  ASSUME NEW a \in Updates, NEW b \in Updates
  PROVE  /\ <<a, b>> \in Seq(Updates)
         /\ DOMAIN <<a, b>> = {1, 2}
         /\ <<a, b>>[1] = a /\ <<a, b>>[2] = b
  OBVIOUS

LEMMA PairPlanned ==
  ASSUME NEW op \in {"decide", "expire"}, NEW r \in Runs,
         NEW a \in Updates, NEW b \in Updates,
         a.row = <<"approval", r>>, b.row = <<"run", r>>,
         NEW verdict \in {"approved", "refused"}, a.to = verdict, b.to = verdict,
         a.from = (IF op = "expire" THEN Statuses ELSE {"pending"}),
         b.from = (IF op = "expire" THEN Statuses ELSE {"pending"})
  PROVE  Planned(Fresh(op, {r}, <<a, b>>)) /\ <<a, b>> \in Seq(Updates)
  <1> DEFINE todo == <<a, b>>
  <1>1. /\ todo \in Seq(Updates) /\ DOMAIN todo = {1, 2}
        /\ todo[1] = a /\ todo[2] = b
    BY TwoUpdates
  <1> HIDE DEF todo
  <1>2. op \in Paired /\ {r} \in SUBSET Runs
    BY DEF Paired
  <1>3. a.row[1] = "approval" /\ b.row[1] = "run" /\ a.row[2] = r /\ b.row[2] = r
    OBVIOUS
  <1>4. \A i, j \in DOMAIN todo : todo[i].row = todo[j].row => i = j
    BY <1>1, <1>3
  <1>5. \A i \in DOMAIN todo :
          /\ todo[i].row[1] = "approval" =>
               /\ i + 1 \in DOMAIN todo
               /\ todo[i + 1].row = RunOf(todo[i].row[2])
          /\ todo[i].row[1] = "run" =>
               i > 1 /\ todo[i - 1].row = ApprovalOf(todo[i].row[2])
    <2>1. /\ todo[1].row[1] = "approval" /\ 1 + 1 \in DOMAIN todo
          /\ todo[1 + 1].row = RunOf(todo[1].row[2])
      BY <1>1, <1>3 DEF RunOf
    <2>2. /\ todo[2].row[1] = "run" /\ 2 > 1
          /\ todo[2 - 1].row = ApprovalOf(todo[2].row[2])
      BY <1>1, <1>3 DEF ApprovalOf
    <2> QED
      BY <1>1, <2>1, <2>2
  <1>6. \A i \in DOMAIN todo :
          /\ todo[i].to = verdict
          /\ todo[i].from = IF op = "expire" THEN Statuses ELSE {"pending"}
          /\ todo[i].row[2] \in {r}
    BY <1>1, <1>3
  <1> QED
    BY <1>1, <1>2, <1>4, <1>5, <1>6, FreshPairs DEF todo

LEMMA DecideOpens ==
  ASSUME NEW s \in Sessions, NEW r \in Runs, Decide(s, r)
  PROVE  Opens(s)
  <1> DEFINE a(verdict) == Update("approval", r, {"pending"}, verdict)
             b(verdict) == [Update("run", r, {"pending"}, verdict)
                              EXCEPT !.always = TRUE]
             c == Update("approval", r, Statuses, "refused")
             d == Update("run", r, Statuses, "refused")
  <1>0. {"decide", "expire"} \subseteq Operations /\ {r} \in SUBSET Runs
    BY DEF Operations, Paired
  <1>3. /\ {"approved", "refused"} \subseteq Statuses
        /\ {"pending"} \in SUBSET Statuses /\ Statuses \in SUBSET Statuses
    BY DEF Statuses
  <1>1. ASSUME NEW verdict \in {"approved", "refused"},
               Begin(s, "decide", {r}, Verdict(r, verdict))
        PROVE  Opens(s)
    <2>1. /\ a(verdict) \in Updates /\ b(verdict) \in Updates
          /\ a(verdict).row = <<"approval", r>> /\ b(verdict).row = <<"run", r>>
          /\ a(verdict).to = verdict /\ b(verdict).to = verdict
          /\ a(verdict).from = {"pending"} /\ b(verdict).from = {"pending"}
      <3>1. verdict \in Statuses
        BY <1>3
      <3> QED
        BY <1>3, <3>1 DEF Update, Updates, Rows
    <2>2. Verdict(r, verdict) = <<a(verdict), b(verdict)>>
      BY DEF Verdict
    <2> HIDE DEF a, b
    <2>3. /\ Planned(Fresh("decide", {r}, Verdict(r, verdict)))
          /\ Verdict(r, verdict) \in Seq(Updates)
      BY <2>1, <2>2, PairPlanned
    <2> QED
      BY <1>0, <1>1, <2>3, BeginOpens
  <1>2. ASSUME Begin(s, "expire", {r}, <<c, d>>)
        PROVE  Opens(s)
    <2>1. /\ c \in Updates /\ d \in Updates
          /\ c.row = <<"approval", r>> /\ d.row = <<"run", r>>
          /\ c.to = "refused" /\ d.to = "refused"
          /\ c.from = Statuses /\ d.from = Statuses
      BY <1>3 DEF Update, Updates, Rows
    <2> HIDE DEF c, d
    <2>2. /\ Planned(Fresh("expire", {r}, <<c, d>>))
          /\ <<c, d>> \in Seq(Updates)
      BY <2>1, PairPlanned
    <2> QED
      BY <1>0, <1>2, <2>2, BeginOpens
  <1> QED
    BY <1>1, <1>2 DEF Decide

\* The order in which a SELECT returns the runs of a sweep.
LEMMA OrderShape ==
  ASSUME RowsTyped, NEW overdue \in SUBSET late, NEW order \in SetToSeqs(overdue)
  PROVE  /\ Len(order) \in Nat
         /\ DOMAIN order = 1..Len(order)
         /\ order \in Seq(Runs)
         /\ \A i \in 1..Len(order) : order[i] \in Runs /\ order[i] \in overdue
         /\ \A i, j \in 1..Len(order) : order[i] = order[j] => i = j
  <1> DEFINE n == Cardinality(overdue)
  <1>1. overdue \in SUBSET Runs
    BY DEF RowsTyped
  <1>2. n \in Nat
    BY <1>1, RowsAssumption, FS_Subset, FS_CardinalityType
  <1>3. /\ order \in [1..n -> overdue]
        /\ \A i, j \in 1..n : i # j => order[i] # order[j]
    BY DEF SetToSeqs
  <1> HIDE DEF n
  <1>4. order \in Seq(overdue) /\ Len(order) = n
    BY <1>2, <1>3
  <1>5. order \in Seq(Runs)
    BY <1>1, <1>4, SeqMonotonic
  <1> QED
    BY <1>1, <1>2, <1>3, <1>4, <1>5

LEMMA SweepLeasesOpens ==
  ASSUME RowsTyped, NEW s \in Sessions, SweepLeases(s)
  PROVE  Opens(s)
  <1> DEFINE overdue == {r \in late : Status(r) = "executing"}
             finish(r) == Update("run", r, {"executing"}, "finished")
  <1>1. PICK order \in SetToSeqs(overdue) :
          Begin(s, "give_up", overdue, [i \in DOMAIN order |-> finish(order[i])])
    BY DEF SweepLeases
  <1> DEFINE n == Len(order)
             todo == [i \in DOMAIN order |-> finish(order[i])]
  <1>2. overdue \in SUBSET late /\ overdue \in SUBSET Runs
    BY DEF RowsTyped
  <1> HIDE DEF overdue
  <1>3. /\ n \in Nat /\ DOMAIN order = 1..n
        /\ \A i \in 1..n : order[i] \in Runs /\ order[i] \in overdue
        /\ \A i, j \in 1..n : order[i] = order[j] => i = j
    BY <1>2, OrderShape
  <1>4. \A r \in Runs : /\ finish(r) \in Updates
                        /\ finish(r).row = RunOf(r)
                        /\ finish(r).from = {"executing"}
                        /\ finish(r).to = "finished"
    BY DEF Update, Updates, Rows, RunOf, Statuses
  <1> HIDE DEF finish, n
  <1>5. todo \in [1..n -> Updates]
    BY <1>3, <1>4
  <1>6. todo \in Seq(Updates) /\ DOMAIN todo = 1..n
    BY <1>3, <1>5
  <1>7. \A i \in 1..n : todo[i] = finish(order[i])
    BY <1>3
  <1> DEFINE t == Fresh("give_up", overdue, todo)
  <1>8. t.op = "give_up" /\ t.on = overdue /\ t.todo = todo /\ t.done = {}
    BY DEF Fresh
  <1> HIDE DEF todo, t
  <1>9. Distinct(t)
    <2>1. ASSUME NEW i \in 1..n, NEW j \in 1..n, todo[i].row = todo[j].row
          PROVE  i = j
      <3>1. RunOf(order[i]) = RunOf(order[j])
        BY <1>3, <1>4, <1>7, <2>1
      <3>2. order[i] = order[j]
        BY <3>1 DEF RunOf
      <3> QED
        BY <1>3, <3>2
    <2> QED
      BY <1>6, <1>8, <2>1 DEF Distinct
  <1>10. RunsOnly(t)
    BY <1>3, <1>4, <1>6, <1>7, <1>8, RowNames DEF RunsOnly, Left
  <1>14. Scoped(t)
    BY <1>3, <1>4, <1>6, <1>7, <1>8, RowNames DEF Scoped, Left
  <1>11. Planned(Fresh("give_up", overdue, todo))
    BY <1>8, <1>9, <1>10, <1>14 DEF Planned, Paired, t
  <1>12. "give_up" \in Operations
    BY DEF Operations
  <1>13. Begin(s, "give_up", overdue, todo)
    BY <1>1 DEF todo
  <1> QED
    BY <1>2, <1>6, <1>11, <1>12, <1>13, BeginOpens

LEMMA WorkOpens ==
  ASSUME NEW s \in Sessions, NEW r \in Runs, Work(s, r)
  PROVE  Opens(s)
  <1>1. PICK move \in {<<"approved", "executing">>, <<"executing", "executing">>,
                       <<"executing", "finished">>, <<"finished", "finished">>} :
          Begin(s, "work", {r}, <<Update("run", r, {move[1]}, move[2])>>)
    BY DEF Work
  <1> DEFINE a == Update("run", r, {move[1]}, move[2])
             t == Fresh("work", {r}, <<a>>)
  <1>2. /\ move[1] \in {"approved", "executing", "finished"}
        /\ move[2] \in {"executing", "finished"}
    OBVIOUS
  <1>3. /\ a \in Updates /\ a.row = <<"run", r>>
        /\ a.from = {move[1]} /\ a.to = move[2]
    BY <1>2 DEF Update, Updates, Rows, Statuses
  <1> HIDE DEF a
  <1>4. <<a>> \in Seq(Updates) /\ DOMAIN <<a>> = {1} /\ <<a>>[1] = a
    BY <1>3
  <1>5. t.op = "work" /\ t.on = {r} /\ t.todo = <<a>> /\ t.done = {}
    BY DEF Fresh
  <1> HIDE DEF t
  <1>6. Distinct(t) /\ Left(t) \cup t.done = {a}
    BY <1>4, <1>5 DEF Distinct, Left
  <1>7. RunsOnly(t)
    BY <1>2, <1>3, <1>6 DEF RunsOnly
  <1>11. Scoped(t)
    BY <1>3, <1>5, <1>6 DEF Scoped
  <1>8. Planned(Fresh("work", {r}, <<a>>))
    BY <1>5, <1>6, <1>7, <1>11 DEF Planned, Paired, t
  <1>9. "work" \in Operations /\ {r} \in SUBSET Runs
    BY DEF Operations
  <1>10. Begin(s, "work", {r}, <<a>>)
    BY <1>1 DEF a
  <1> QED
    BY <1>4, <1>8, <1>9, <1>10, BeginOpens

\* The updates of a sweep come in pairs, one pair for each run.
LEMMA Halves ==
  ASSUME NEW n \in Nat, NEW i \in 1..(2 * n)
  PROVE  /\ (i + 1) \div 2 \in 1..n
         /\ i % 2 = 1 => /\ i + 1 \in 1..(2 * n)
                         /\ (i + 1) % 2 # 1
                         /\ ((i + 1) + 1) \div 2 = (i + 1) \div 2
         /\ i % 2 # 1 => /\ i > 1
                         /\ i - 1 \in 1..(2 * n)
                         /\ (i - 1) % 2 = 1
                         /\ ((i - 1) + 1) \div 2 = (i + 1) \div 2
         /\ \A j \in 1..(2 * n) :
              (i % 2 = 1 <=> j % 2 = 1) /\ (i + 1) \div 2 = (j + 1) \div 2 => i = j
  OBVIOUS

LEMMA SweepApprovalsOpens ==
  ASSUME RowsTyped, NEW s \in Sessions, SweepApprovals(s)
  PROVE  Opens(s)
  <1> DEFINE overdue == {r \in late : Undecided(r)}
             first(r) == Update("approval", r, {"pending"}, "refused")
             second(r) == Update("run", r, {"pending"}, "refused")
             lapse(order) ==
               [i \in 1..2 * Len(order) |->
                  Update(IF i % 2 = 1 THEN "approval" ELSE "run",
                         order[(i + 1) \div 2], {"pending"}, "refused")]
  <1>1. PICK order \in SetToSeqs(overdue) :
          Begin(s, "lapse", overdue, lapse(order))
    BY DEF SweepApprovals
  <1> DEFINE n == Len(order)
             todo == lapse(order)
             half(i) == (i + 1) \div 2
  <1>2. overdue \in SUBSET late /\ overdue \in SUBSET Runs
    BY DEF RowsTyped
  <1> HIDE DEF overdue
  <1>3. /\ n \in Nat
        /\ \A i \in 1..n : order[i] \in Runs /\ order[i] \in overdue
        /\ \A i, j \in 1..n : order[i] = order[j] => i = j
    BY <1>2, OrderShape
  <1>4. \A r \in Runs :
          /\ first(r) \in Updates /\ second(r) \in Updates
          /\ first(r).row = <<"approval", r>> /\ second(r).row = <<"run", r>>
          /\ first(r).from = {"pending"} /\ second(r).from = {"pending"}
          /\ first(r).to = "refused" /\ second(r).to = "refused"
    BY DEF Update, Updates, Rows, Statuses
  <1>5. \A i \in 1..(2 * n) :
          /\ todo[i] = IF i % 2 = 1 THEN first(order[half(i)])
                                    ELSE second(order[half(i)])
          /\ order[half(i)] \in Runs /\ order[half(i)] \in overdue
    BY <1>3, Halves
  <1> HIDE DEF first, second
  <1>6. todo \in Seq(Updates) /\ DOMAIN todo = 1..(2 * n)
    <2>1. todo \in [1..(2 * n) -> Updates]
      <3>1. DOMAIN todo = 1..(2 * n) /\ todo = [i \in 1..(2 * n) |-> todo[i]]
        OBVIOUS
      <3>2. ASSUME NEW i \in 1..(2 * n)
            PROVE  todo[i] \in Updates
        <4> HIDE DEF todo, half, n
        <4> QED
          BY <1>4, <1>5
      <3> HIDE DEF todo
      <3> QED
        BY <3>1, <3>2
    <2>2. 2 * n \in Nat
      BY <1>3
    <2> HIDE DEF todo, n
    <2> QED
      BY <2>1, <2>2
  <1> HIDE DEF todo, half, n
  <1>7. ASSUME NEW i \in DOMAIN todo
        PROVE  LET r == order[half(i)]
               IN  /\ r \in Runs /\ r \in overdue
                   /\ todo[i].row = <<IF i % 2 = 1 THEN "approval" ELSE "run", r>>
                   /\ todo[i].from = {"pending"}
                   /\ todo[i].to = "refused"
    BY <1>4, <1>5, <1>6, <1>7
  <1>8. ASSUME NEW i \in DOMAIN todo, NEW j \in DOMAIN todo,
               todo[i].row = todo[j].row
        PROVE  i = j
    <2>1. (i % 2 = 1 <=> j % 2 = 1) /\ order[half(i)] = order[half(j)]
      BY <1>7, <1>8
    <2>2. i \in 1..(2 * n) /\ j \in 1..(2 * n)
      BY <1>6
    <2>3. half(i) \in 1..n /\ half(j) \in 1..n
      BY <1>3, <2>2, Halves DEF half
    <2>4. half(i) = half(j)
      BY <1>3, <2>1, <2>3
    <2> QED
      BY <1>3, <2>1, <2>2, <2>4, Halves DEF half
  <1>9. ASSUME NEW i \in DOMAIN todo
        PROVE  /\ todo[i].row[1] = "approval" =>
                    /\ i + 1 \in DOMAIN todo
                    /\ todo[i + 1].row = RunOf(todo[i].row[2])
               /\ todo[i].row[1] = "run" =>
                    i > 1 /\ todo[i - 1].row = ApprovalOf(todo[i].row[2])
    <2>1. i \in 1..(2 * n)
      BY <1>6
    <2>2. CASE i % 2 = 1
      <3>1. i + 1 \in DOMAIN todo /\ (i + 1) % 2 # 1 /\ half(i + 1) = half(i)
        BY <1>3, <1>6, <2>1, <2>2, Halves DEF half
      <3>2. todo[i].row = <<"approval", order[half(i)]>>
        BY <1>7, <2>2
      <3>3. todo[i + 1].row = <<"run", order[half(i)]>>
        BY <1>7, <3>1
      <3> QED
        BY <3>1, <3>2, <3>3 DEF RunOf
    <2>3. CASE i % 2 # 1
      <3>1. i > 1 /\ i - 1 \in DOMAIN todo /\ (i - 1) % 2 = 1 /\ half(i - 1) = half(i)
        BY <1>3, <1>6, <2>1, <2>3, Halves DEF half
      <3>2. todo[i].row = <<"run", order[half(i)]>>
        BY <1>7, <2>3
      <3>3. todo[i - 1].row = <<"approval", order[half(i)]>>
        BY <1>7, <3>1
      <3> QED
        BY <3>1, <3>2, <3>3 DEF ApprovalOf
    <2> QED
      BY <2>2, <2>3
  <1>10. /\ "lapse" \in Paired /\ "lapse" \in Operations
         /\ \A i \in DOMAIN todo :
              /\ todo[i].to = "refused"
              /\ todo[i].from = IF "lapse" = "expire" THEN Statuses ELSE {"pending"}
              /\ todo[i].row[2] \in overdue
    BY <1>7 DEF Paired, Operations
  <1>11. Planned(Fresh("lapse", overdue, todo))
    BY <1>2, <1>6, <1>8, <1>9, <1>10, FreshPairs
  <1>12. Begin(s, "lapse", overdue, todo)
    BY <1>1 DEF todo
  <1> QED
    BY <1>2, <1>6, <1>10, <1>11, <1>12, BeginOpens

-----------------------------------------------------------------------------
(* The invariant                                                           *)

LEMMA LockInvInit == Init => LockInv
  <1> SUFFICES ASSUME Init
               PROVE  LockInv
    OBVIOUS
  <1>1. << >> \in Seq(Updates) /\ << >> \in Seq(Sessions)
    BY EmptySeq
  <1>2. NoTx \in Transactions /\ "pending" \in Statuses
    BY <1>1 DEF NoTx, Transactions, Operations, Statuses
  <1>3. RowsTyped
    BY <1>1, <1>2 DEF Init, RowsTyped
  <1>4. RowsAgree
    BY RowNames DEF Init, RowsAgree, Status, ApprovalOf, RunOf
  <1>5. \A s \in Sessions : tx[s] = NoTx
    BY DEF Init
  <1>6. NoTx.todo = << >> /\ NoTx.done = {} /\ NoTx.op = "none"
    BY DEF NoTx
  <1>7. Left(NoTx) = {}
    BY <1>6 DEF Left
  <1>8. Planned(NoTx)
    BY <1>6, <1>7 DEF Planned, Paired, RunsOnly, Distinct, Scoped
  <1>9. \A row \in Rows : InLine(row)
    BY DEF Init, InLine
  <1> QED
    BY <1>3, <1>4, <1>5, <1>6, <1>8, <1>9 DEF LockInv, Holds

\* Nothing a step of s does takes a row from another session that holds it.
Spares(s) ==
  \A t \in Sessions \ {s} :
    /\ tx'[t] = tx[t]
    /\ \A u \in tx[t].done :
         /\ queue[u.row] # << >> /\ queue[u.row][1] = t =>
              queue'[u.row] # << >> /\ queue'[u.row][1] = t
         /\ u.row \notin Changed(tx[s]) => value'[u.row] = value[u.row]

LEMMA ChangedTyped ==
  ASSUME RowsTyped, NEW s \in Sessions, NEW u \in tx[s].done
  PROVE  u.row \in Rows /\ u.to \in Statuses
  BY DEF RowsTyped, Transactions, Updates

\* A row has one holder.
LEMMA OneHolder ==
  ASSUME LockInv, NEW s \in Sessions, NEW t \in Sessions, s # t
  PROVE  Changed(tx[s]) \cap Changed(tx[t]) = {}
  BY DEF LockInv, Holds, Changed

LEMMA OthersHold ==
  ASSUME LockInv, NEW s \in Sessions, Spares(s), NEW t \in Sessions \ {s}
  PROVE  Planned(tx'[t]) /\ Holds(t)'
  <1>1. tx'[t] = tx[t] /\ Planned(tx[t]) /\ Holds(t)
    BY DEF LockInv, Spares
  <1>2. ASSUME NEW u \in tx[t].done
        PROVE  /\ queue'[u.row] # << >>
               /\ queue'[u.row][1] = t
               /\ value'[u.row] = value[u.row]
    <2>1. u.row \notin Changed(tx[s])
      BY OneHolder DEF Changed
    <2> QED
      BY <1>1, <2>1 DEF Spares, Holds
  <1> QED
    BY <1>1, <1>2 DEF Holds

\* A transaction that changed nothing yet, or is over, holds nothing.
LEMMA NothingHeld ==
  ASSUME NEW s \in Sessions, tx'[s].done = {}
  PROVE  Holds(s)'
  BY DEF Holds

-----------------------------------------------------------------------------
(* The queues                                                              *)

\* After the update of a row a transaction has no other of its run left, but
\* the run's row after the approval.
LEMMA TailOrder ==
  ASSUME NEW t \in Transactions, t.todo # << >>, Planned(t),
         NEW i \in DOMAIN t.todo, i > 1,
         t.todo[i].row[2] = t.todo[1].row[2]
  PROVE  t.todo[1].row[1] = "approval" /\ t.todo[i].row[1] = "run"
  <1> USE RowNames
  <1> DEFINE first == t.todo[1].row
             other == t.todo[i].row
  <1>1. 1 \in DOMAIN t.todo /\ first \in Rows /\ other \in Rows /\ i \in Nat
    BY TodoShape DEF Updates
  <1>2. first # other
    BY <1>1 DEF Planned, Distinct
  <1>3. first[1] # other[1]
    BY <1>1, <1>2
  <1>4. ASSUME other[1] = "approval"
        PROVE  FALSE
    <2>1. other \in {u.row : u \in Left(t)}
      BY DEF Left
    <2>2. InPairs(t)
      BY <1>4, <2>1 DEF Planned, RunsOnly
    <2>3. i + 1 \in DOMAIN t.todo /\ t.todo[i + 1].row = RunOf(other[2])
      BY <1>4, <2>2 DEF InPairs
    <2>4. first = RunOf(other[2])
      BY <1>1, <1>3, <1>4
    <2>5. i + 1 = 1
      <3>1. \A j, k \in DOMAIN t.todo : t.todo[j].row = t.todo[k].row => j = k
        BY DEF Planned, Distinct
      <3>2. t.todo[i + 1].row = t.todo[1].row
        BY <2>3, <2>4
      <3> QED
        BY <1>1, <2>3, <3>1, <3>2
    <2> QED
      BY <1>1, <2>5
  <1> QED
    BY <1>1, <1>3, <1>4

\* A queue that others did not move up in, and where s stands as it may.
LEMMA InLineStep ==
  ASSUME NEW s \in Sessions, NEW row \in Rows, InLine(row),
         \A z \in Sessions \ {s} : tx'[z] = tx[z],
         queue'[row] \in Seq(Sessions),
         \A i, j \in DOMAIN queue'[row] : queue'[row][i] = queue'[row][j] => i = j,
         \A i \in DOMAIN queue'[row] :
           \/ /\ queue'[row][i] # s
              /\ \E k \in DOMAIN queue[row] :
                   k >= i /\ queue[row][k] = queue'[row][i]
           \/ /\ queue'[row][i] = s
              /\ row[2] \in tx'[s].on
              /\ i > 1 => Current(tx'[s], row)
              /\ ~Current(tx'[s], row) => Past(tx'[s], row),
         queue[row] \in Seq(Sessions)
  PROVE  InLine(row)'
  <1>1. ASSUME NEW i \in DOMAIN queue'[row], NEW z, z = queue'[row][i]
        PROVE  /\ row[2] \in tx'[z].on
               /\ i > 1 => Current(tx'[z], row)
               /\ ~Current(tx'[z], row) => Past(tx'[z], row)
    <2>1. CASE z = s
      BY <1>1, <2>1
    <2>2. CASE z # s
      <3>1. PICK k \in DOMAIN queue[row] : k >= i /\ queue[row][k] = z
        BY <1>1, <2>2
      <3>2. z \in Sessions /\ i \in Nat /\ k \in Nat
        <4>1. DOMAIN queue'[row] = 1..Len(queue'[row]) /\ Len(queue'[row]) \in Nat
          BY LenProperties
        <4>2. DOMAIN queue[row] = 1..Len(queue[row]) /\ Len(queue[row]) \in Nat
          BY LenProperties
        <4> QED
          BY <1>1, <4>1, <4>2, ElementOfSeq
      <3>3. tx'[z] = tx[z]
        BY <2>2, <3>2
      <3>4. /\ row[2] \in tx[z].on
            /\ k > 1 => Current(tx[z], row)
            /\ ~Current(tx[z], row) => Past(tx[z], row)
        BY <3>1 DEF InLine
      <3>5. i > 1 => k > 1
        BY <3>1, <3>2
      <3> QED
        BY <3>3, <3>4, <3>5
    <2> QED
      BY <2>1, <2>2
  <1> QED
    BY <1>1 DEF InLine

LEMMA OpensLines ==
  ASSUME LockInv, NEW s \in Sessions, Opens(s), NEW row \in Rows
  PROVE  InLine(row)'
  <1>1. /\ RowsTyped /\ InLine(row)
        /\ tx[s] = NoTx
        /\ queue' = queue
        /\ \A z \in Sessions \ {s} : tx'[z] = tx[z]
    BY DEF LockInv, Opens, RowsTyped
  <1>2. queue[row] \in Seq(Sessions)
    BY <1>1 DEF RowsTyped
  <1>3. \A i \in DOMAIN queue[row] : queue[row][i] # s /\ i >= i
    <2>1. NoTx.on = {}
      BY DEF NoTx
    <2>2. \A i \in DOMAIN queue[row] : queue[row][i] # s
      BY <1>1, <2>1 DEF InLine
    <2>3. DOMAIN queue[row] = 1..Len(queue[row]) /\ Len(queue[row]) \in Nat
      BY <1>2, LenProperties
    <2> QED
      BY <2>2, <2>3
  <1>4. \A i, j \in DOMAIN queue[row] : queue[row][i] = queue[row][j] => i = j
    BY <1>1 DEF InLine
  <1> QED
    BY <1>1, <1>2, <1>3, <1>4, InLineStep

LEMMA EndLines ==
  ASSUME LockInv, NEW s \in Sessions, End(s), NEW row \in Rows
  PROVE  InLine(row)'
  <1>1. /\ RowsTyped /\ InLine(row)
        /\ \A z \in Sessions \ {s} : tx'[z] = tx[z]
        /\ queue'[row] = Without(queue[row], s)
        /\ queue[row] \in Seq(Sessions)
    BY DEF LockInv, End, RowsTyped
  <1>2. \A i, j \in DOMAIN queue[row] : queue[row][i] = queue[row][j] => i = j
    BY <1>1 DEF InLine
  <1>3. queue'[row] \in Seq(Sessions)
    BY <1>1, WithoutKeepsHead
  <1>4. /\ \A i, j \in DOMAIN queue'[row] : queue'[row][i] = queue'[row][j] => i = j
        /\ \A i \in DOMAIN queue'[row] :
             /\ queue'[row][i] # s
             /\ \E k \in DOMAIN queue[row] : k >= i /\ queue[row][k] = queue'[row][i]
    BY <1>1, <1>2, WithoutShape
  <1> QED
    BY <1>1, <1>3, <1>4, InLineStep

LEMMA IdleLines ==
  ASSUME LockInv, UNCHANGED <<queue, tx>>, NEW row \in Rows
  PROVE  InLine(row)'
  <1>1. InLine(row)
    BY DEF LockInv
  <1> QED
    BY <1>1 DEF InLine, Current, Past

\* What a session that goes on keeps of its places.
LEMMA PlacesKept ==
  ASSUME LockInv, NEW s \in Sessions, tx[s].todo # << >>,
         tx'[s].on = tx[s].on,
         \A u \in Left(tx'[s]) :
           \E i \in DOMAIN tx[s].todo : i > 1 /\ u = tx[s].todo[i],
         NEW row \in Rows, row = tx[s].todo[1].row
  PROVE  /\ row[2] \in tx'[s].on
         /\ Past(tx'[s], row)
         /\ \A other \in Rows \ {row} : \A i \in DOMAIN queue[other] :
              queue[other][i] = s =>
                i = 1 /\ other[2] \in tx'[s].on /\ Past(tx'[s], other)
  <1>1. /\ tx[s] \in Transactions /\ Planned(tx[s])
        /\ \A other \in Rows : InLine(other) /\ queue[other] \in Seq(Sessions)
    <2>1. RowsTyped
      BY DEF LockInv
    <2> QED
      BY <2>1 DEF LockInv, RowsTyped
  <1>2. /\ tx[s].todo[1] \in Left(tx[s])
        /\ \A u \in Left(tx'[s]) : u \in Left(tx[s])
    <2>1. 1 \in DOMAIN tx[s].todo
      BY <1>1, TodoShape
    <2> QED
      BY <2>1 DEF Left
  <1>3. row[2] \in tx'[s].on
    BY <1>1, <1>2 DEF Planned, Scoped
  <1>4. Past(tx'[s], row)
    <2> SUFFICES ASSUME NEW u \in Left(tx'[s]), u.row[2] = row[2]
                 PROVE  row[1] = "approval" /\ u.row[1] = "run"
      BY DEF Past
    <2>1. PICK i \in DOMAIN tx[s].todo : i > 1 /\ u = tx[s].todo[i]
      OBVIOUS
    <2> QED
      BY <1>1, <2>1, TailOrder
  <1>5. ASSUME NEW other \in Rows \ {row}, NEW i \in DOMAIN queue[other],
               queue[other][i] = s
        PROVE  i = 1 /\ other[2] \in tx'[s].on /\ Past(tx'[s], other)
    <2>1. ~Current(tx[s], other)
      BY DEF Current
    <2>2. other[2] \in tx[s].on /\ ~(i > 1) /\ Past(tx[s], other)
      BY <1>1, <1>5, <2>1 DEF InLine
    <2>3. i = 1
      <3>1. DOMAIN queue[other] = 1..Len(queue[other]) /\ Len(queue[other]) \in Nat
        BY <1>1, LenProperties
      <3> QED
        BY <2>2, <3>1
    <2>4. Past(tx'[s], other)
      BY <1>2, <2>2 DEF Past
    <2> QED
      BY <2>2, <2>3, <2>4
  <1> QED
    BY <1>3, <1>4, <1>5

LEMMA FirstWaitsForNobody == \A i : i = 1 => ~(i > 1)
  OBVIOUS

\* A session that goes on leads the queue of the row it was at, or has left it.
LEMMA ProceedLines ==
  ASSUME LockInv, NEW s \in Sessions, tx[s].todo # << >>,
         \A z \in Sessions \ {s} : tx'[z] = tx[z],
         tx'[s].on = tx[s].on,
         \A u \in Left(tx'[s]) :
           \E i \in DOMAIN tx[s].todo : i > 1 /\ u = tx[s].todo[i],
         NEW row \in Rows, row = tx[s].todo[1].row,
         \A other \in Rows \ {row} : queue'[other] = queue[other],
         queue'[row] \in Seq(Sessions),
         \A i, j \in DOMAIN queue'[row] : queue'[row][i] = queue'[row][j] => i = j,
         \A i \in DOMAIN queue'[row] :
           \/ /\ queue'[row][i] # s
              /\ \E k \in DOMAIN queue[row] :
                   k >= i /\ queue[row][k] = queue'[row][i]
           \/ queue'[row][i] = s /\ i = 1,
         NEW any \in Rows
  PROVE  InLine(any)'
  <1>1. /\ row[2] \in tx'[s].on
        /\ Past(tx'[s], row)
        /\ \A other \in Rows \ {row} : \A i \in DOMAIN queue[other] :
             queue[other][i] = s =>
               i = 1 /\ other[2] \in tx'[s].on /\ Past(tx'[s], other)
    BY PlacesKept
  <1>2. InLine(any) /\ InLine(row) /\ queue[any] \in Seq(Sessions) /\ queue[row] \in Seq(Sessions)
    BY DEF LockInv, RowsTyped
  <1>3. CASE any = row
    <2>1. \A i \in DOMAIN queue'[row] :
            \/ /\ queue'[row][i] # s
               /\ \E k \in DOMAIN queue[row] :
                    k >= i /\ queue[row][k] = queue'[row][i]
            \/ /\ queue'[row][i] = s
               /\ row[2] \in tx'[s].on
               /\ i > 1 => Current(tx'[s], row)
               /\ ~Current(tx'[s], row) => Past(tx'[s], row)
      <3> SUFFICES ASSUME NEW i \in DOMAIN queue'[row],
                          queue'[row][i] = s, i = 1
                   PROVE  /\ row[2] \in tx'[s].on
                          /\ i > 1 => Current(tx'[s], row)
                          /\ ~Current(tx'[s], row) => Past(tx'[s], row)
        OBVIOUS
      <3> QED
        BY <1>1, FirstWaitsForNobody, Zenon
    <2>2. InLine(row)'
      BY <1>2, <2>1, InLineStep
    <2> QED
      BY <1>3, <2>2, Zenon
  <1>4. CASE any # row
    <2>1. queue'[any] = queue[any]
      BY <1>4
    <2>2. DOMAIN queue[any] = 1..Len(queue[any]) /\ Len(queue[any]) \in Nat
      BY <1>2, LenProperties
    <2>3. \A i \in DOMAIN queue'[any] :
            \/ /\ queue'[any][i] # s
               /\ \E k \in DOMAIN queue[any] :
                    k >= i /\ queue[any][k] = queue'[any][i]
            \/ /\ queue'[any][i] = s
               /\ any[2] \in tx'[s].on
               /\ i > 1 => Current(tx'[s], any)
               /\ ~Current(tx'[s], any) => Past(tx'[s], any)
      <3> SUFFICES ASSUME NEW i \in DOMAIN queue[any]
                   PROVE  \/ /\ queue[any][i] # s
                             /\ \E k \in DOMAIN queue[any] :
                                  k >= i /\ queue[any][k] = queue[any][i]
                          \/ /\ queue[any][i] = s
                             /\ any[2] \in tx'[s].on
                             /\ i > 1 => Current(tx'[s], any)
                             /\ ~Current(tx'[s], any) => Past(tx'[s], any)
        BY <2>1
      <3>1. CASE queue[any][i] = s
        <4>1. i = 1 /\ any[2] \in tx'[s].on /\ Past(tx'[s], any)
          BY <1>1, <1>4, <3>1
        <4> QED
          BY <3>1, <4>1
      <3>2. CASE queue[any][i] # s
        <4>1. i >= i
          BY <2>2
        <4> QED
          BY <3>2, <4>1
      <3> QED
        BY <3>1, <3>2
    <2>4. \A i, j \in DOMAIN queue'[any] : queue'[any][i] = queue'[any][j] => i = j
      BY <1>2, <2>1 DEF InLine
    <2> QED
      BY <1>2, <2>1, <2>3, <2>4, InLineStep
  <1> QED
    BY <1>3, <1>4

LEMMA OpensStep ==
  ASSUME LockInv, NEW s \in Sessions, Opens(s)
  PROVE  LockInv'
  <1>1. PICK t \in Transactions : /\ Planned(t)
                                  /\ t.done = {}
                                  /\ tx' = [tx EXCEPT ![s] = t]
                                  /\ UNCHANGED <<value, late, queue>>
    BY DEF Opens
  <1>2. RowsTyped' /\ tx'[s] = t
    BY <1>1 DEF LockInv, RowsTyped
  <1>3. RowsAgree'
    BY <1>1 DEF LockInv, RowsAgree, Status
  <1>4. Spares(s)
    BY <1>1 DEF Spares, LockInv, RowsTyped
  <1>5. Planned(tx'[s]) /\ Holds(s)'
    BY <1>1, <1>2, NothingHeld
  <1>6. \A row \in Rows : InLine(row)'
    BY OpensLines
  <1> QED
    BY <1>2, <1>3, <1>4, <1>5, <1>6, OthersHold DEF LockInv

\* The session that goes on holds what its transaction changed.
LEMMA ExecuteStep ==
  ASSUME LockInv, NEW s \in Sessions, Execute(s)
  PROVE  LockInv'
  <1> DEFINE next == tx[s].todo[1]
             row == next.row
             hit == Hits(next)
             t == After(s, hit)
  <1>1. /\ RowsTyped /\ RowsAgree /\ Planned(tx[s]) /\ Holds(s)
        /\ tx[s].todo # << >>
        /\ tx[s] \in Transactions
    BY DEF LockInv, RowsTyped, Execute
  <1>2. Head(tx[s].todo) = next /\ next \in Updates /\ row \in Rows
    <2>1. 1 \in 1..Len(tx[s].todo)
      BY <1>1, TodoShape
    <2> QED
      BY <1>1, <2>1, TodoShape DEF Updates
  <1>3. /\ t \in Transactions
        /\ Planned(t)
        /\ t.done \subseteq tx[s].done \cup (IF hit THEN {next} ELSE {})
        /\ t.on = tx[s].on
        /\ \A u \in Left(t) :
             \E i \in DOMAIN tx[s].todo : i > 1 /\ u = tx[s].todo[i]
    BY <1>1, AfterPlanned
  <1>4. /\ \/ /\ hit \/ next.always
              /\ Granted(s, row)
              /\ queue' = [queue EXCEPT ![row] = IF @ = << >> THEN <<s>> ELSE @]
              /\ tx' = [tx EXCEPT ![s] = t]
           \/ /\ ~Queued(s, row)
              /\ queue' = [queue EXCEPT ![row] = Append(@, s)]
              /\ tx' = tx
           \/ /\ ~hit
              /\ queue' = [queue EXCEPT ![row] = Without(@, s)]
              /\ tx' = [tx EXCEPT ![s] = t]
        /\ value' = value /\ late' = late
    BY <1>2 DEF Execute, Hits
  <1>5. queue[row] \in Seq(Sessions) /\ \A r \in Rows : queue[r] \in Seq(Sessions)
    BY <1>1, <1>2 DEF RowsTyped
  <1>6. RowsAgree'
    <2>1. value' = value
      BY <1>4
    <2> QED
      BY <1>1, <2>1, Zenon DEF RowsAgree, Status
  <1>11. /\ row = tx[s].todo[1].row
         /\ InLine(row)
    BY <1>2 DEF LockInv
  <1>7. \A z \in Sessions : \A u \in tx[z].done : u.row \in Rows
    BY <1>1, ChangedTyped
  <1> HIDE DEF t, hit, next
  <1>8. CASE /\ Granted(s, row)
             /\ queue' = [queue EXCEPT ![row] = IF @ = << >> THEN <<s>> ELSE @]
             /\ tx' = [tx EXCEPT ![s] = t]
    <2>1. /\ \A r \in Rows : queue[r] # << >> => queue'[r] = queue[r]
          /\ queue[row] = << >> => queue'[row] = <<s>>
      BY <1>1, <1>2, <1>8 DEF RowsTyped
    <2>2. RowsTyped'
      <3>1. <<s>> \in Seq(Sessions)
        OBVIOUS
      <3> QED
        BY <1>1, <1>2, <1>3, <1>4, <1>5, <1>8, <3>1 DEF RowsTyped
    <2>3. Spares(s)
      BY <1>1, <1>4, <1>7, <1>8, <2>1 DEF Spares, RowsTyped
    <2>4. tx'[s] = t
      BY <1>1, <1>8 DEF RowsTyped
    <2>5. hit => queue'[row] # << >> /\ queue'[row][1] = s
      <3>1. CASE queue[row] = << >>
        <4>1. <<s>> # << >> /\ <<s>>[1] = s
          OBVIOUS
        <4> QED
          BY <2>1, <3>1, <4>1
      <3>2. CASE queue[row] # << >>
        BY <1>2, <1>5, <1>8, <2>1, <3>2, GrantedLeads DEF Granted
      <3> QED
        BY <3>1, <3>2
    <2>6. Holds(s)'
      <3> SUFFICES ASSUME NEW u \in t.done
                   PROVE  /\ queue'[u.row] # << >>
                          /\ queue'[u.row][1] = s
                          /\ value'[u.row] \in u.from
        BY <2>4 DEF Holds
      <3>1. CASE u \in tx[s].done
        BY <1>1, <1>4, <1>7, <2>1, <3>1 DEF Holds
      <3>2. CASE hit /\ u = next
        BY <1>4, <2>5, <3>2 DEF hit, Hits
      <3> QED
        BY <1>3, <3>1, <3>2
    <2>7. \A any \in Rows : InLine(any)'
      <3>1. /\ \A z \in Sessions \ {s} : tx'[z] = tx[z]
            /\ \A r \in Rows \ {row} : queue'[r] = queue[r]
            /\ queue'[row] \in Seq(Sessions)
        BY <1>1, <1>2, <1>8, <2>2 DEF RowsTyped
      <3>2. CASE queue[row] = << >>
        <4>1. queue'[row] = <<s>> /\ DOMAIN <<s>> = 1..1 /\ <<s>>[1] = s
          BY <2>1, <3>2
        <4>2. /\ \A i, j \in DOMAIN queue'[row] : queue'[row][i] = queue'[row][j] => i = j
              /\ \A i \in DOMAIN queue'[row] : queue'[row][i] = s /\ i = 1
          BY <4>1
        <4> HIDE DEF row
        <4> QED
          BY <1>1, <1>2, <1>3, <1>11, <2>4, <3>1, <4>2, ProceedLines
      <3>3. CASE queue[row] # << >>
        <4>1. queue'[row] = queue[row] /\ queue[row][1] = s
          BY <1>2, <1>5, <1>8, <2>1, <3>3, GrantedLeads DEF Granted
        <4>2. /\ DOMAIN queue[row] = 1..Len(queue[row])
              /\ Len(queue[row]) \in Nat
              /\ 1 \in DOMAIN queue[row]
          BY <1>5, <3>3, LenProperties, EmptySeq
        <4>3. \A i, j \in DOMAIN queue'[row] : queue'[row][i] = queue'[row][j] => i = j
          BY <1>11, <4>1 DEF InLine
        <4>4. \A i \in DOMAIN queue'[row] :
                \/ /\ queue'[row][i] # s
                   /\ \E k \in DOMAIN queue[row] :
                        k >= i /\ queue[row][k] = queue'[row][i]
                \/ queue'[row][i] = s /\ i = 1
          <5> HIDE DEF row
          <5>1. \A i \in DOMAIN queue[row] : i >= i
            BY <4>2
          <5> QED
            BY <4>1, <4>2, <4>3, <5>1
        <4> HIDE DEF row
        <4> QED
          BY <1>1, <1>2, <1>3, <1>11, <2>4, <3>1, <4>3, <4>4, ProceedLines, Zenon
      <3> QED
        BY <3>2, <3>3
    <2> QED
      BY <1>3, <1>6, <2>2, <2>3, <2>4, <2>6, <2>7, OthersHold DEF LockInv
  <1>9. CASE /\ ~Queued(s, row)
             /\ queue' = [queue EXCEPT ![row] = Append(@, s)]
             /\ tx' = tx
    <2>1. /\ Append(queue[row], s) \in Seq(Sessions)
          /\ queue[row] # << >> => Append(queue[row], s)[1] = queue[row][1]
          /\ Append(queue[row], s) # << >>
      <3>1. queue[row] # << >> => 1 \in 1..Len(queue[row])
        BY <1>5, LenProperties, EmptySeq
      <3> QED
        BY <1>5, <3>1, AppendProperties
    <2>2. \A r \in Rows : queue[r] # << >> =>
            queue'[r] # << >> /\ queue'[r][1] = queue[r][1]
      BY <1>1, <1>2, <1>9, <2>1 DEF RowsTyped
    <2>3. RowsTyped'
      BY <1>1, <1>4, <1>9, <2>1 DEF RowsTyped
    <2>4. Spares(s)
      BY <1>4, <1>7, <1>9, <2>2 DEF Spares
    <2>5. Planned(tx'[s]) /\ Holds(s)'
      BY <1>1, <1>4, <1>7, <1>9, <2>2 DEF Holds
    <2>6. \A any \in Rows : InLine(any)'
      <3> SUFFICES ASSUME NEW any \in Rows
                   PROVE  InLine(any)'
        OBVIOUS
      <3>1. CASE any # row
        <4>1. queue'[any] = queue[any] /\ tx' = tx /\ InLine(any)
          BY <1>1, <1>2, <1>9, <3>1 DEF RowsTyped, LockInv
        <4> QED
          BY <4>1 DEF InLine
      <3>2. CASE any = row
        <4>1. queue'[row] = Append(queue[row], s)
          BY <1>1, <1>2, <1>9 DEF RowsTyped
        <4>2. /\ DOMAIN queue[row] = 1..Len(queue[row])
              /\ Len(queue[row]) \in Nat
              /\ DOMAIN queue'[row] = 1..Len(queue[row]) + 1
              /\ \A i \in 1..Len(queue[row]) : queue'[row][i] = queue[row][i]
              /\ queue'[row][Len(queue[row]) + 1] = s
          BY <1>5, <2>1, <4>1, AppendProperties, LenProperties
        <4>3. \A i \in DOMAIN queue[row] : queue[row][i] # s
          BY <1>9 DEF Queued, ToSet
        <4>4. row[2] \in tx[s].on /\ Current(tx[s], row)
          <5>1. next \in Left(tx[s])
            BY <1>1, TodoShape DEF Left, next
          <5> QED
            BY <1>1, <1>11, <5>1 DEF Planned, Scoped, Current, next
        <4> HIDE DEF row
        <4>5. \A i, j \in DOMAIN queue'[row] : queue'[row][i] = queue'[row][j] => i = j
          <5>1. \A i, j \in DOMAIN queue[row] : queue[row][i] = queue[row][j] => i = j
            BY <1>11 DEF InLine
          <5> DEFINE n == Len(queue[row])
          <5>2. \A i \in DOMAIN queue'[row] :
                  \/ i \in DOMAIN queue[row] /\ queue'[row][i] = queue[row][i]
                                           /\ queue'[row][i] # s
                  \/ i = n + 1 /\ queue'[row][i] = s
            BY <4>2, <4>3
          <5> HIDE DEF n
          <5> QED
            BY <5>1, <5>2
        <4>6. \A i \in DOMAIN queue'[row] :
                \/ /\ queue'[row][i] # s
                   /\ \E k \in DOMAIN queue[row] :
                        k >= i /\ queue[row][k] = queue'[row][i]
                \/ /\ queue'[row][i] = s
                   /\ row[2] \in tx'[s].on
                   /\ i > 1 => Current(tx'[s], row)
                   /\ ~Current(tx'[s], row) => Past(tx'[s], row)
          <5> SUFFICES ASSUME NEW i \in DOMAIN queue'[row], queue'[row][i] # s
                       PROVE  \E k \in DOMAIN queue[row] :
                                k >= i /\ queue[row][k] = queue'[row][i]
            BY <1>9, <4>4
          <5>1. i \in DOMAIN queue[row] /\ i >= i
            BY <4>2
          <5> QED
            BY <4>2, <5>1
        <4>7. queue'[row] \in Seq(Sessions)
          BY <2>1, <4>1
        <4>8. /\ InLine(any) /\ queue[row] \in Seq(Sessions)
              /\ \A z \in Sessions \ {s} : tx'[z] = tx[z]
          BY <1>5, <1>9, <1>11, <3>2 DEF InLine
        <4> QED
          BY <3>2, <4>5, <4>6, <4>7, <4>8, InLineStep
      <3> QED
        BY <3>1, <3>2
    <2> QED
      BY <1>6, <2>3, <2>4, <2>5, <2>6, OthersHold DEF LockInv
  <1>10. CASE /\ ~hit
              /\ queue' = [queue EXCEPT ![row] = Without(@, s)]
              /\ tx' = [tx EXCEPT ![s] = t]
    <2>1. /\ \A r \in Rows : r # row => queue'[r] = queue[r]
          /\ queue'[row] = Without(queue[row], s)
      BY <1>1, <1>2, <1>10 DEF RowsTyped
    <2>2. Without(queue[row], s) \in Seq(Sessions)
      BY <1>5, WithoutKeepsHead
    <2>3. RowsTyped'
      BY <1>1, <1>3, <1>4, <1>10, <2>2 DEF RowsTyped
    <2>4. tx'[s] = t /\ t.done \subseteq tx[s].done
      BY <1>1, <1>3, <1>10 DEF RowsTyped
    <2>5. Spares(s)
      <3> SUFFICES ASSUME NEW z \in Sessions \ {s}, NEW u \in tx[z].done
                   PROVE  queue[u.row] # << >> /\ queue[u.row][1] = z =>
                            queue'[u.row] # << >> /\ queue'[u.row][1] = z
        BY <1>1, <1>4, <1>10 DEF Spares, RowsTyped
      <3>1. CASE u.row = row
        <4>1. queue[row] # << >> /\ queue[row][1] # s =>
                /\ Without(queue[row], s) # << >>
                /\ Without(queue[row], s)[1] = queue[row][1]
          BY <1>5, WithoutKeepsHead
        <4> HIDE DEF row
        <4> QED
          BY <2>1, <3>1, <4>1
      <3>2. CASE u.row # row
        BY <1>7, <2>1, <3>2
      <3> QED
        BY <3>1, <3>2
    <2>6. Holds(s)'
      <3> SUFFICES ASSUME NEW u \in t.done
                   PROVE  /\ queue'[u.row] # << >>
                          /\ queue'[u.row][1] = s
                          /\ value'[u.row] \in u.from
        BY <2>4 DEF Holds
      <3>1. u \in tx[s].done /\ u.row \in Rows
        BY <1>7, <2>4
      <3>2. u.row # row
        <4>1. 1 \in DOMAIN tx[s].todo
          BY <1>1, TodoShape
        <4> QED
          BY <1>1, <3>1, <4>1 DEF Planned, Distinct, next
      <3> QED
        BY <1>1, <1>4, <2>1, <3>1, <3>2 DEF Holds
    <2>7. \A any \in Rows : InLine(any)'
      <3>1. \A z \in Sessions \ {s} : tx'[z] = tx[z]
        BY <1>1, <1>10 DEF RowsTyped
      <3>2. \A i, j \in DOMAIN queue[row] : queue[row][i] = queue[row][j] => i = j
        BY <1>11 DEF InLine
      <3> HIDE DEF row
      <3>3. /\ \A i, j \in DOMAIN queue'[row] : queue'[row][i] = queue'[row][j] => i = j
            /\ \A i \in DOMAIN queue'[row] :
                 /\ queue'[row][i] # s
                 /\ \E k \in DOMAIN queue[row] : k >= i /\ queue[row][k] = queue'[row][i]
        BY <1>5, <2>1, <3>2, WithoutShape
      <3>4. queue'[row] \in Seq(Sessions)
        BY <2>1, <2>2
      <3>5. \A other \in Rows \ {row} : queue'[other] = queue[other]
        BY <2>1
      <3>6. /\ tx'[s].on = tx[s].on
            /\ \A u \in Left(tx'[s]) :
                 \E i \in DOMAIN tx[s].todo : i > 1 /\ u = tx[s].todo[i]
        BY <1>3, <2>4
      <3>7. \A i \in DOMAIN queue'[row] :
              \/ /\ queue'[row][i] # s
                 /\ \E k \in DOMAIN queue[row] :
                      k >= i /\ queue[row][k] = queue'[row][i]
              \/ queue'[row][i] = s /\ i = 1
        BY <3>3
      <3>8. \A i, j \in DOMAIN queue'[row] : queue'[row][i] = queue'[row][j] => i = j
        BY <3>3
      <3> QED
        BY <1>1, <1>2, <1>11, <3>1, <3>4, <3>5, <3>6, <3>7, <3>8, ProceedLines, Zenon
    <2> QED
      BY <1>3, <1>6, <2>3, <2>4, <2>5, <2>6, <2>7, OthersHold DEF LockInv
  <1> QED
    BY <1>4, <1>8, <1>9, <1>10

\* Whoever leaves the queues takes no row from the others.
LEMMA EndSpares ==
  ASSUME LockInv, NEW s \in Sessions, End(s),
         \A row \in Rows : row \notin Changed(tx[s]) => value'[row] = value[row]
  PROVE  /\ queue' \in [Rows -> Seq(Sessions)]
         /\ tx' \in [Sessions -> Transactions]
         /\ Spares(s)
         /\ Planned(tx'[s])
         /\ Holds(s)'
  <1>1. /\ RowsTyped
        /\ \A z \in Sessions : \A u \in tx[z].done : u.row \in Rows
    <2>1. RowsTyped
      BY DEF LockInv
    <2> QED
      BY <2>1, ChangedTyped
  <1>2. /\ \A row \in Rows : queue'[row] = Without(queue[row], s)
        /\ \A row \in Rows : queue[row] \in Seq(Sessions)
        /\ queue' = [row \in Rows |-> Without(queue[row], s)]
    BY <1>1 DEF End, RowsTyped
  <1>3. NoTx \in Transactions /\ NoTx.op = "none" /\ NoTx.todo = << >> /\ NoTx.done = {}
    <2>1. << >> \in Seq(Updates)
      BY EmptySeq
    <2> QED
      BY <2>1 DEF NoTx, Transactions, Operations
  <1>4. tx'[s] = NoTx /\ \A z \in Sessions \ {s} : tx'[z] = tx[z]
    BY <1>1 DEF End, RowsTyped
  <1>5. Left(NoTx) = {}
    BY <1>3 DEF Left
  <1>6. Planned(tx'[s]) /\ Holds(s)'
    BY <1>3, <1>4, <1>5, NothingHeld
       DEF Planned, Paired, RunsOnly, Distinct, Scoped
  <1>7. queue' \in [Rows -> Seq(Sessions)]
    <2>1. \A row \in Rows : Without(queue[row], s) \in Seq(Sessions)
      BY <1>2, WithoutKeepsHead
    <2> QED
      BY <1>2, <2>1
  <1>8. tx' \in [Sessions -> Transactions]
    BY <1>1, <1>3 DEF End, RowsTyped
  <1>9. ASSUME NEW z \in Sessions \ {s}, NEW u \in tx[z].done,
               queue[u.row] # << >>, queue[u.row][1] = z
        PROVE  queue'[u.row] # << >> /\ queue'[u.row][1] = z
    <2> DEFINE row == u.row
    <2>1. row \in Rows /\ queue[row] \in Seq(Sessions)
      BY <1>1, <1>2
    <2>2. queue[row] # << >> /\ queue[row][1] # s =>
            /\ Without(queue[row], s) # << >>
            /\ Without(queue[row], s)[1] = queue[row][1]
      BY <2>1, WithoutKeepsHead
    <2> HIDE DEF row
    <2> QED
      BY <1>2, <1>9, <2>1, <2>2 DEF row
  <1>10. Spares(s)
    BY <1>1, <1>4, <1>9 DEF Spares
  <1> QED
    BY <1>6, <1>7, <1>8, <1>10

LEMMA AbortStep ==
  ASSUME LockInv, NEW s \in Sessions, Abort(s)
  PROVE  LockInv'
  <1>1. End(s) /\ value' = value /\ late' = late
    BY DEF Abort
  <1>2. /\ queue' \in [Rows -> Seq(Sessions)]
        /\ tx' \in [Sessions -> Transactions]
        /\ Spares(s)
        /\ Planned(tx'[s])
        /\ Holds(s)'
    BY <1>1, EndSpares
  <1>3. RowsTyped' /\ RowsAgree'
    BY <1>1, <1>2 DEF LockInv, RowsTyped, RowsAgree, Status
  <1>4. \A row \in Rows : InLine(row)'
    BY <1>1, EndLines
  <1> QED
    BY <1>2, <1>3, <1>4, OthersHold DEF LockInv

LEMMA LapseStep ==
  ASSUME LockInv, NEW r \in Runs, Lapse(r)
  PROVE  LockInv'
  <1>1. RowsTyped' /\ RowsAgree'
    BY DEF LockInv, RowsTyped, RowsAgree, Status, Lapse
  <1>2. \A s \in Sessions : Planned(tx'[s]) /\ Holds(s)'
    BY DEF LockInv, Holds, Lapse
  <1>3. \A row \in Rows : InLine(row)'
    BY IdleLines DEF Lapse
  <1> QED
    BY <1>1, <1>2, <1>3 DEF LockInv

LEMMA StutterStep ==
  ASSUME LockInv, UNCHANGED vars
  PROVE  LockInv'
  <1>1. RowsTyped' /\ RowsAgree'
    BY DEF LockInv, RowsTyped, RowsAgree, Status, vars
  <1>2. \A s \in Sessions : Planned(tx'[s]) /\ Holds(s)'
    BY DEF LockInv, Holds, vars
  <1>3. \A row \in Rows : InLine(row)'
    BY IdleLines DEF vars
  <1> QED
    BY <1>1, <1>2, <1>3 DEF LockInv

\* What a commit makes of the rows of one run.
LEMMA CommitAgrees ==
  ASSUME LockInv, NEW s \in Sessions, Commit(s), NEW r \in Runs
  PROVE  LET a == value'[ApprovalOf(r)]
             b == value'[RunOf(r)]
         IN  /\ {a, b} \cap {"pending", "refused"} # {} => a = b
             /\ a = "approved" => b \in {"approved", "executing", "finished"}
  <1> DEFINE t == tx[s]
             row1 == ApprovalOf(r)
             row2 == RunOf(r)
  <1>1. /\ t \in Transactions /\ Planned(t) /\ Holds(s) /\ t.todo = << >>
        /\ row1 \in Rows /\ row2 \in Rows /\ row1[1] # "run"
    BY RowNames DEF LockInv, RowsTyped, Commit
  <1>2. \A row \in Rows : row \notin Changed(t) => value'[row] = value[row]
    BY DEF Commit, Changed
  <1>3. \A u \in t.done : u.row \in Rows => value'[u.row] = u.to
    <2> SUFFICES ASSUME NEW u \in t.done, u.row \in Rows
                 PROVE  value'[u.row] = u.to
      OBVIOUS
    <2>1. {w \in t.done : w.row = u.row} = {u}
      BY <1>1 DEF Planned, Distinct
    <2>2. (CHOOSE w \in {u} : TRUE) = u
      OBVIOUS
    <2> QED
      BY <2>1, <2>2 DEF Commit
  <1>4. /\ {value[row1], value[row2]} \cap {"pending", "refused"} # {} =>
             value[row1] = value[row2]
        /\ value[row1] = "approved" =>
             value[row2] \in {"approved", "executing", "finished"}
    BY DEF LockInv, RowsAgree, Status, ApprovalOf, RunOf
  <1>5. CASE t.op \in Paired
    <2>1. InPairs(t)
      BY <1>1, <1>5 DEF Planned
    <2>2. row1 \in Changed(t) <=> row2 \in Changed(t)
      BY <1>1, <2>1 DEF InPairs
    <2>3. CASE row1 \notin Changed(t)
      BY <1>1, <1>2, <1>4, <2>2, <2>3
    <2>4. CASE row1 \in Changed(t)
      <3>1. PICK verdict \in {"approved", "refused"} :
              \A u \in t.done : u.to = verdict
        BY <2>1 DEF InPairs
      <3>2. PICK u \in t.done, w \in t.done : u.row = row1 /\ w.row = row2
        BY <2>2, <2>4 DEF Changed
      <3>3. value'[row1] = verdict /\ value'[row2] = verdict
        BY <1>1, <1>3, <3>1, <3>2
      <3> HIDE DEF row1, row2
      <3> QED
        BY <3>3 DEF row1, row2
    <2> QED
      BY <2>3, <2>4
  <1>6. CASE t.op \notin Paired
    <2>1. RunsOnly(t)
      BY <1>1, <1>6 DEF Planned
    <2>2. value'[row1] = value[row1]
      BY <1>1, <1>2, <2>1 DEF RunsOnly, Changed
    <2>3. CASE row2 \notin Changed(t)
      BY <1>1, <1>2, <1>4, <2>2, <2>3
    <2>4. CASE row2 \in Changed(t)
      <3>1. PICK u \in t.done : u.row = row2
        BY <2>4 DEF Changed
      <3>2. /\ u.from \subseteq {"approved", "executing", "finished"}
            /\ u.to \in {"executing", "finished"}
        BY <2>1 DEF RunsOnly
      <3>3. value[row2] \in {"approved", "executing", "finished"}
        BY <1>1, <3>1, <3>2 DEF Holds
      <3>4. value'[row2] \in {"executing", "finished"}
        BY <1>1, <1>3, <3>1, <3>2
      <3> HIDE DEF row1, row2
      <3> QED
        BY <1>4, <2>2, <3>3, <3>4 DEF row1, row2
    <2> QED
      BY <2>3, <2>4
  <1> QED
    BY <1>5, <1>6

LEMMA CommitStep ==
  ASSUME LockInv, NEW s \in Sessions, Commit(s)
  PROVE  LockInv'
  <1>1. End(s)
    BY DEF Commit
  <1>2. \A row \in Rows : row \notin Changed(tx[s]) => value'[row] = value[row]
    BY DEF Commit, Changed
  <1>3. /\ queue' \in [Rows -> Seq(Sessions)]
        /\ tx' \in [Sessions -> Transactions]
        /\ Spares(s)
        /\ Planned(tx'[s])
        /\ Holds(s)'
    BY <1>1, <1>2, EndSpares
  <1>4. value' \in [Rows -> Statuses] /\ late' \in SUBSET Runs
    <2>1. RowsTyped /\ \A u \in tx[s].done : u.to \in Statuses
      <3>1. RowsTyped
        BY DEF LockInv
      <3> QED
        BY <3>1, ChangedTyped
    <2>2. ASSUME NEW hits \in SUBSET tx[s].done, hits # {}
          PROVE  (CHOOSE u \in hits : TRUE).to \in Statuses
      BY <2>1, <2>2
    <2>3. \A row \in Rows : {u \in tx[s].done : u.row = row} \in SUBSET tx[s].done
      OBVIOUS
    <2> QED
      BY <2>1, <2>2, <2>3 DEF Commit, RowsTyped
  <1>5. RowsAgree'
    BY CommitAgrees DEF RowsAgree, Status, ApprovalOf, RunOf
  <1>6. RowsTyped'
    BY <1>3, <1>4 DEF RowsTyped
  <1>7. \A row \in Rows : InLine(row)'
    BY <1>1, EndLines
  <1> QED
    BY <1>3, <1>5, <1>6, <1>7, OthersHold DEF LockInv

LEMMA LockInvStep ==
  ASSUME LockInv, [Next]_vars
  PROVE  LockInv'
  <1>1. RowsTyped /\ Sweepers \subseteq Sessions /\ Clients \subseteq Sessions
    BY DEF LockInv, Sessions
  <1>2. ASSUME NEW s \in Sweepers, Sweep(s)
        PROVE  LockInv'
    <2>1. s \in Sessions /\ Opens(s)
      BY <1>1, <1>2, SweepApprovalsOpens, SweepLeasesOpens DEF Sweep
    <2> QED
      BY <2>1, OpensStep
  <1>3. ASSUME NEW s \in Sessions, Advance(s) \/ Abort(s)
        PROVE  LockInv'
    BY <1>3, ExecuteStep, CommitStep, AbortStep DEF Advance
  <1>4. ASSUME NEW s \in Clients, NEW r \in Runs, Decide(s, r) \/ Work(s, r)
        PROVE  LockInv'
    <2>1. s \in Sessions /\ Opens(s)
      BY <1>1, <1>4, DecideOpens, WorkOpens
    <2> QED
      BY <2>1, OpensStep
  <1>5. ASSUME NEW r \in Runs, Lapse(r)
        PROVE  LockInv'
    BY <1>5, LapseStep
  <1>6. CASE UNCHANGED vars
    BY <1>6, StutterStep
  <1> QED
    BY <1>2, <1>3, <1>4, <1>5, <1>6 DEF Next

LEMMA LockInvHolds == Spec => []LockInv
  BY LockInvInit, LockInvStep, PTL DEF Spec

(* The two rows of a run are changed by two statements of one transaction,   *)
(* with decisions, sweeps, claims and reports in between and deadlocks that  *)
(* roll one of them back: committed, the rows agree, for any number of runs  *)
(* and sessions and any order in which the sweeps' SELECTs return them.      *)
THEOREM RowsAlwaysAgree == Spec => []RowsAgree
  <1>1. LockInv => RowsAgree
    BY DEF LockInv
  <1> QED
    BY <1>1, LockInvHolds, PTL

-----------------------------------------------------------------------------
(* Deadlocks                                                               *)

LEMMA Smallest ==
  ASSUME NEW P \in SUBSET Nat, P # {}
  PROVE  \E n \in P : \A m \in P : n <= m
  <1> DEFINE R == OpToRel(<, Nat)
  <1>1. IsWellFoundedOn(R, Nat)
    BY NatLessThanWellFounded
  <1>2. \A m, n \in Nat : m < n => <<m, n>> \in R
    BY DEF OpToRel
  <1> HIDE DEF R
  <1>3. PICK n \in P : \A m \in P : <<m, n>> \notin R
    BY <1>1, WFMin
  <1>4. ASSUME NEW m \in P
        PROVE  n <= m
    <2>1. m \in Nat /\ n \in Nat
      OBVIOUS
    <2>2. ~(m < n)
      BY <1>2, <1>3, <2>1
    <2> QED
      BY <2>1, <2>2
  <1> QED
    BY <1>4

\* The row that s updates next, and its place there.
At(s) == Head(tx[s].todo).row
Place(s) == Position(queue[At(s)], s)

LEMMA AtNextRow ==
  ASSUME LockInv, NEW s \in Sessions, Waits(s)
  PROVE  /\ At(s) \in Rows
         /\ At(s)[2] \in tx[s].on
         /\ tx[s].todo # << >>
         /\ At(s) = tx[s].todo[1].row
         /\ tx[s].todo[1] \in Left(tx[s])
         /\ tx[s].op # "none"
         /\ tx[s] \in Transactions
  <1>1. tx[s] \in Transactions /\ Planned(tx[s]) /\ tx[s].todo # << >>
    BY DEF LockInv, RowsTyped, Waits
  <1>2. /\ tx[s].todo[1] \in Left(tx[s])
        /\ tx[s].todo[1] \in Updates
        /\ Head(tx[s].todo) = tx[s].todo[1]
    BY <1>1, TodoShape DEF Left
  <1>3. At(s) = tx[s].todo[1].row /\ At(s) \in Rows
    BY <1>2 DEF At, Updates
  <1> QED
    BY <1>1, <1>2, <1>3 DEF Planned, Scoped

\* The first place of a session is its only place.
LEMMA PositionIs ==
  ASSUME LockInv, NEW row \in Rows, NEW i \in DOMAIN queue[row]
  PROVE  Position(queue[row], queue[row][i]) = i
  <1>1. \A j \in DOMAIN queue[row] : queue[row][j] = queue[row][i] => j = i
    BY DEF LockInv, InLine
  <1> QED
    BY <1>1 DEF Position

LEMMA AheadShape ==
  ASSUME LockInv, NEW s \in Sessions, NEW t \in Ahead(s)
  PROVE  /\ Waits(s)
         /\ t \in Sessions
         /\ t \in ToSet(queue[At(s)])
         /\ Place(s) \in Nat
         /\ Position(queue[At(s)], t) \in Nat
         /\ Position(queue[At(s)], t) < Place(s)
         /\ At(s)[2] \in tx[t].on
         /\ ~Current(tx[t], At(s)) => Past(tx[t], At(s))
  <1>1. Waits(s)
    BY DEF Ahead
  <1> DEFINE row == At(s)
             line == queue[row]
  <1>2. row \in Rows /\ InLine(row) /\ line \in Seq(Sessions)
    BY <1>1, AtNextRow DEF LockInv, RowsTyped
  <1>3. DOMAIN line = 1..Len(line) /\ Len(line) \in Nat
    BY <1>2, LenProperties
  <1>4. Place(s) \in DOMAIN line
    <2>1. \E i \in DOMAIN line : line[i] = s
      BY <1>1 DEF Waits, Queued, ToSet, At
    <2> QED
      BY <2>1 DEF Place, Position
  <1>5. PICK i \in 1..Place(s) - 1 : t = line[i]
    BY <1>1 DEF Ahead, Place, At
  <1>6. i \in DOMAIN line /\ i \in Nat /\ Place(s) \in Nat /\ i < Place(s)
    BY <1>3, <1>4, <1>5
  <1>7. Position(line, t) = i
    BY <1>2, <1>5, <1>6, PositionIs
  <1>8. t \in Sessions /\ t \in ToSet(line)
    BY <1>2, <1>3, <1>5, <1>6, ElementOfSeq DEF ToSet
  <1>9. row[2] \in tx[t].on /\ (~Current(tx[t], row) => Past(tx[t], row))
    BY <1>2, <1>5, <1>6 DEF InLine
  <1> QED
    BY <1>1, <1>6, <1>7, <1>8, <1>9

\* Of the sessions that one of a deadlock waits for, one is in the deadlock.
LEMMA DeadlockGoesOn ==
  ASSUME LockInv, NEW s \in Deadlocked
  PROVE  \E t \in Ahead(s) : t \in Deadlocked
  <1> DEFINE Closed(S) == \A t \in S : Ahead(t) \subseteq S
             Reach(t) == {u \in Sessions : \A S \in SUBSET Sessions :
                            Closed(S) /\ Ahead(t) \subseteq S => u \in S}
             All == {t \in Sessions : \E u \in Ahead(s) : t = u \/ t \in Reach(u)}
  <1>1. \A t \in Sessions : Ahead(t) \subseteq Sessions
    BY AheadShape
  <1>2. \A t : t \in Deadlocked <=> t \in Reach(t)
    <2> DEFINE ahead == [t \in Sessions |-> Ahead(t)]
               closed == {S \in SUBSET Sessions : \A t \in S : ahead[t] \subseteq S}
    <2>1. \A S : S \in closed <=> S \in SUBSET Sessions /\ Closed(S)
      OBVIOUS
    <2>2. Deadlocked = {t \in Sessions : \A S \in closed : ahead[t] \subseteq S => t \in S}
      BY DEF Deadlocked
    <2> HIDE DEF closed, Closed
    <2> QED
      BY <2>1, <2>2
  <1>3. \A t \in Sessions : Ahead(t) \subseteq Reach(t)
    BY <1>1
  <1>4. ASSUME NEW t \in Sessions, NEW u \in Reach(t)
        PROVE  Ahead(u) \subseteq Reach(t)
    BY <1>1, <1>4
  <1>5. s \in Sessions /\ Ahead(s) \subseteq All
    BY <1>1, <1>2
  <1>6. Closed(All)
    <2> SUFFICES ASSUME NEW t \in All
                 PROVE  Ahead(t) \subseteq All
      OBVIOUS
    <2>1. PICK u \in Ahead(s) : t = u \/ t \in Reach(u)
      OBVIOUS
    <2>2. u \in Sessions
      BY <1>1, <1>5
    <2> HIDE DEF Reach
    <2>3. Ahead(t) \subseteq Reach(u)
      BY <1>3, <1>4, <2>1, <2>2
    <2>4. t \in Sessions
      OBVIOUS
    <2> QED
      BY <1>1, <2>3, <2>4
  <1>7. s \in All
    <2>1. All \in SUBSET Sessions /\ s \in Reach(s)
      BY <1>2
    <2> HIDE DEF All, Closed
    <2> QED
      BY <1>5, <1>6, <2>1
  <1>8. PICK t \in Ahead(s) : s = t \/ s \in Reach(t)
    BY <1>7
  <1>9. t \in Sessions
    BY <1>1, <1>5
  <1>10. CASE s = t
    BY <1>8, <1>10
  <1>11. CASE s \in Reach(t)
    <2>1. t \in Reach(t)
      BY <1>4, <1>8, <1>9, <1>11
    <2> QED
      BY <1>2, <1>8, <2>1
  <1> QED
    BY <1>8, <1>10, <1>11

Big(t) == t.op \in {"lapse", "give_up"} /\ Cardinality(t.on) > 1

\* All but a sweep of several runs is about one run.
LEMMA SmallIsOneRun ==
  ASSUME LockInv, NEW s \in Sessions, Waits(s), ~Big(tx[s]),
         NEW q \in tx[s].on, NEW r \in tx[s].on
  PROVE  q = r
  <1>1. /\ tx[s] \in Transactions
        /\ Scoped(tx[s])
        /\ tx[s].op # "none"
    BY AtNextRow DEF LockInv, Planned
  <1>2. CASE tx[s].op \in {"decide", "expire", "work"}
    BY <1>1, <1>2 DEF Scoped
  <1>3. CASE tx[s].op \in {"lapse", "give_up"}
    <2> DEFINE on == tx[s].on
    <2>1. on \subseteq Runs
      BY <1>1 DEF Transactions
    <2>2. IsFiniteSet(on)
      BY <2>1, RowsAssumption, FS_Subset
    <2>3. Cardinality(on) \in Nat /\ ~(Cardinality(on) > 1)
      BY <1>3, <2>2, FS_CardinalityType DEF Big
    <2>4. Cardinality(on) # 0
      BY <2>2, FS_EmptySet
    <2>5. Cardinality(on) = 1
      BY <2>3, <2>4
    <2>6. \E x : on = {x}
      BY <2>2, <2>5, FS_Singleton
    <2> QED
      BY <2>6
  <1>4. tx[s].op \in {"decide", "expire", "work", "lapse", "give_up"}
    BY <1>1 DEF Transactions, Operations, Paired
  <1> QED
    BY <1>2, <1>3, <1>4

\* In one row a session waits for one further ahead.
LEMMA NoCircleAtOneRow ==
  ASSUME LockInv, NEW row \in Rows,
         NEW S \in SUBSET Sessions, S # {},
         \A s \in S : At(s) = row,
         \A s \in S : \E t \in Ahead(s) : t \in S
  PROVE  FALSE
  <1>1. \A s \in S : Place(s) \in Nat
    BY AheadShape
  <1> DEFINE places == {Place(s) : s \in S}
  <1>2. places \in SUBSET Nat /\ places # {}
    BY <1>1
  <1>3. PICK n \in places : \A m \in places : n <= m
    <2> HIDE DEF places
    <2> QED
      BY <1>2, Smallest
  <1>4. PICK s \in S : n = Place(s)
    OBVIOUS
  <1>5. PICK t \in Ahead(s) : t \in S
    OBVIOUS
  <1>6. Place(t) < Place(s) /\ Place(t) \in places
    BY <1>5, AheadShape DEF Place
  <1>7. n \in Nat /\ n <= Place(t) /\ Place(t) \in Nat
    BY <1>1, <1>3, <1>4, <1>5, <1>6
  <1> QED
    BY <1>4, <1>6, <1>7

\* Nor do sessions that wait at the two rows of one run for each other.
LEMMA NoCircleInOneRun ==
  ASSUME LockInv, NEW q \in Runs,
         NEW S \in SUBSET Sessions, S # {},
         \A s \in S : Waits(s) /\ At(s)[2] = q,
         \A s \in S : \E t \in Ahead(s) : t \in S
  PROVE  FALSE
  <1> DEFINE AtRun == {s \in S : At(s) = RunOf(q)}
  <1>1. \A s \in S : At(s) = RunOf(q) \/ At(s) = ApprovalOf(q)
    BY AtNextRow, RowNames
  <1>2. CASE AtRun = {}
    <2>1. \A s \in S : At(s) = ApprovalOf(q)
      BY <1>1, <1>2
    <2> QED
      BY <2>1, NoCircleAtOneRow, RowNames
  <1>3. CASE AtRun # {}
    <2>1. ASSUME NEW s \in AtRun
          PROVE  \E t \in Ahead(s) : t \in AtRun
      <3>1. PICK t \in Ahead(s) : t \in S
        OBVIOUS
      <3>2. s \in Sessions /\ t \in Sessions /\ Waits(t) /\ At(s) = RunOf(q) /\ At(t)[2] = q
        BY <3>1
      <3>3. At(t) = RunOf(q)
        <4> SUFFICES ASSUME At(t) # RunOf(q)
                     PROVE  FALSE
          OBVIOUS
        <4>1. /\ At(t) = tx[t].todo[1].row
              /\ tx[t].todo[1] \in Left(tx[t])
          BY <3>2, AtNextRow
        <4>2. ~Current(tx[t], RunOf(q))
          BY <4>1 DEF Current
        <4>3. Past(tx[t], RunOf(q))
          BY <3>1, <3>2, <4>2, AheadShape
        <4>4. RunOf(q)[2] = q /\ RunOf(q)[1] = "run"
          BY RowNames
        <4> QED
          BY <3>2, <4>1, <4>3, <4>4 DEF Past
      <3> QED
        BY <3>1, <3>3
    <2>2. AtRun \in SUBSET Sessions /\ \A s \in AtRun : At(s) = RunOf(q)
      OBVIOUS
    <2> HIDE DEF AtRun
    <2> QED
      BY <1>3, <2>1, <2>2, NoCircleAtOneRow, RowNames
  <1> QED
    BY <1>2, <1>3

LEMMA DeadlocksNeedSweeps == LockInv => DeadlockTakesTwoSweeps
  <1> SUFFICES ASSUME LockInv, Deadlocked # {},
                      \A s, t \in Deadlocked :
                        s # t => ~Big(tx[s]) \/ ~Big(tx[t])
               PROVE  FALSE
    <2>1. (\E s, t \in Deadlocked : s # t /\ Big(tx[s]) /\ Big(tx[t]))
             => \E s, t \in Deadlocked :
                  /\ s # t
                  /\ \A u \in {s, t} :
                       tx[u].op \in {"lapse", "give_up"} /\ Cardinality(tx[u].on) > 1
      BY DEF Big
    <2> QED
      BY <2>1 DEF DeadlockTakesTwoSweeps
  <1>1. PICK first \in Deadlocked :
          \A s \in Deadlocked : s # first => ~Big(tx[s])
    OBVIOUS
  <1>2. \A s \in Deadlocked :
          /\ s \in Sessions
          /\ Waits(s)
          /\ \E t \in Ahead(s) : t \in Deadlocked
    <2>1. Deadlocked \subseteq Sessions
      BY DEF Deadlocked
    <2> QED
      BY <2>1, DeadlockGoesOn, AheadShape
  <1> DEFINE q == At(first)[2]
             S == {s \in Deadlocked : At(s)[2] = q}
  <1>3. q \in Runs
    BY <1>2, AtNextRow, RowNames
  <1>4. ASSUME NEW s \in S
        PROVE  \E t \in Ahead(s) : t \in S
    <2>1. PICK t \in Ahead(s) : t \in Deadlocked
      BY <1>2
    <2>2. q \in tx[t].on
      BY <1>2, <2>1, AheadShape
    <2>3. CASE t = first
      BY <2>1, <2>3
    <2>4. CASE t # first
      <3>1. t \in Sessions /\ Waits(t) /\ ~Big(tx[t])
        BY <1>1, <1>2, <2>1, <2>4
      <3>2. At(t)[2] \in tx[t].on
        BY <3>1, AtNextRow
      <3>3. At(t)[2] = q
        BY <2>2, <3>1, <3>2, SmallIsOneRun
      <3> QED
        BY <2>1, <3>3
    <2> QED
      BY <2>3, <2>4
  <1>5. /\ S \in SUBSET Sessions /\ S # {}
        /\ \A s \in S : Waits(s) /\ At(s)[2] = q
    BY <1>2
  <1> HIDE DEF S, q
  <1> QED
    BY <1>3, <1>4, <1>5, NoCircleInOneRun

\* Decisions, claims, reports and sweeps of one run never start a deadlock,
\* however many meet: they take the approval before the run.  Whenever
\* PostgreSQL has to end a transaction, two sweeps that each update several
\* runs are among those that wait for each other.
THEOREM DeadlocksTakeTwoSweeps == Spec => []DeadlockTakesTwoSweeps
  BY DeadlocksNeedSweeps, LockInvHolds, PTL

=============================================================================
