----------------------------- MODULE EventChain -----------------------------
(***************************************************************************)
(* The hash chain of one run (ledger.py): every event holds the hash of    *)
(* the one before it, and the row of the run is the anchor, with the       *)
(* number of events and the hash of the last.                              *)
(*                                                                         *)
(* An append reads the last hash and writes event and anchor in one        *)
(* transaction, under the write lock of SQLite or the run's row lock of    *)
(* PostgreSQL.  Opening a file migrates it: events of version 0.1 have no  *)
(* hashes yet, and a run with an event without hash gets its whole chain   *)
(* computed, and its anchor set, whenever a process opens the file.  (The  *)
(* migration of PostgreSQL only sets missing anchors: nothing re-chains a  *)
(* run there.)  It writes first, to give the runs their fingerprints, so   *)
(* it holds the write lock when it reads the events and is one step, which *)
(* any process may take again.  A verification reads the run and then its  *)
(* events, in two transactions; an audit trail reads both in two more      *)
(* before it asks for the verification.                                    *)
(***************************************************************************)
EXTENDS Integers, Sequences

CONSTANTS
  Processes,   \* processes that append
  Verifiers,   \* verifications, each run once: doctor, audit export, metrics
  None,        \* SQL NULL
  MaxEvents    \* bound on the number of events

\* NULL is no process and no hash (see EventHash).
ASSUME ChainAssumption ==
  /\ MaxEvents \in Nat
  /\ None \notin Processes \cup Seq(Int)

VARIABLES
  rows,       \* the events of the run: [body, prev, hash]
  anchor,     \* event_count and event_head_hash of the run: [count, head]
  lock,       \* the process whose transaction holds the write lock
  appends,    \* what each process is about to append, and after which hash
  readers,    \* how far each verification is
  opened,     \* whether a process has opened, and so migrated, the file
  recorded,   \* the number of events recorded so far
  damaged     \* "yes" once the stored events were changed behind the ledger,
              \* "rechained" once a migration computed their hashes since

vars == <<rows, anchor, lock, appends, readers, opened, recorded, damaged>>

\* SHA-256 of an event and its predecessor's hash, free of collisions: a hash is
\* the bodies it commits to, those of the whole chain up to its event.  The body
\* (type, payload and timestamp) of the i-th event recorded is i, and 0 is any
\* other body.
EventHash(body, prev) == Append(IF prev = None THEN << >> ELSE prev, body)

NoAppend == [pc |-> "idle", prev |-> None]

\* row is the event_count in the run a trail shows, trail its events; saw is
\* what the chain was when the verification began, or that it was re-chained
\* before it ended.
NoReader == [pc |-> "idle", row |-> None, trail |-> << >>,
             seen |-> [count |-> 0, head |-> None],
             verdict |-> TRUE, disturbed |-> FALSE, saw |-> "no"]

HeadHash(events) == IF events = << >> THEN None ELSE events[Len(events)].hash

\* str(None), what an append writes as the hash before it when that is NULL.
NoneText == <<-1>>

Migrated == \A i \in DOMAIN rows : rows[i].hash # None

\* A new run, or a run of a 0.1 file with some events.
Init ==
  /\ recorded \in 0..(MaxEvents \div 2)
  /\ rows = [i \in 1..recorded |->
               [body |-> i, prev |-> None, hash |-> None]]
  /\ anchor = [count |-> 0, head |-> None]
  /\ lock = None
  /\ appends = [p \in Processes |-> NoAppend]
  /\ readers = [v \in Verifiers |-> NoReader]
  /\ opened = FALSE
  /\ damaged = "no"

-----------------------------------------------------------------------------
(* Migration and appends                                                   *)

\* The rows with the chain computed from the first event on.
Chained ==
  LET hash(i) == IF i = 0 THEN None ELSE [j \in 1..i |-> rows[j].body]
  IN  [i \in DOMAIN rows |->
         [body |-> rows[i].body, prev |-> hash(i - 1), hash |-> hash(i)]]

\* Mutant of Backfill: the anchor is set only for a file that already has its
\* hashes, so not by the migration that computes them.
BackfillEvents ==
  /\ lock = None
  /\ rows' = IF Migrated THEN rows ELSE Chained
  /\ anchor' = IF Migrated /\ anchor.count = 0 /\ rows # << >>
               THEN [count |-> Len(rows), head |-> HeadHash(rows)] ELSE anchor
  /\ opened' = TRUE
  /\ UNCHANGED <<lock, appends, readers, recorded, damaged>>

\* Opening the file.  (A damaged file has its fingerprints, so an append may come
\* between the reading and the writing of its re-chaining.  Nothing is claimed of a
\* re-chained run, and this is left out.)
Backfill ==
  LET reanchor == ~Migrated \/ (anchor.count = 0 /\ rows # << >>)
  IN  /\ lock = None
      /\ rows' = IF Migrated THEN rows ELSE Chained
      /\ anchor' = IF reanchor
                   THEN [count |-> Len(rows), head |-> HeadHash(rows')]
                   ELSE anchor
      /\ opened' = TRUE
      /\ damaged' = IF reanchor /\ damaged = "yes" THEN "rechained" ELSE damaged
      /\ UNCHANGED <<lock, appends, readers, recorded>>

\* Mutant of BeginAppend: the transaction does not lock.
BeginUnlocked(p) ==
  /\ opened
  /\ appends[p].pc = "idle"
  /\ Len(rows) < MaxEvents
  /\ appends' = [appends EXCEPT ![p].pc = "locked"]
  /\ UNCHANGED <<rows, anchor, lock, readers, opened, recorded, damaged>>

\* Only a process that has opened the file appends to it.
BeginAppend(p) ==
  /\ opened
  /\ appends[p].pc = "idle"
  /\ Len(rows) < MaxEvents
  /\ lock = None
  /\ lock' = p
  /\ appends' = [appends EXCEPT ![p].pc = "locked"]
  /\ UNCHANGED <<rows, anchor, readers, opened, recorded, damaged>>

ReadHead(p) ==
  LET head == HeadHash(rows)
      prev == IF rows # << >> /\ head = None THEN NoneText ELSE head
  IN  /\ appends[p].pc = "locked"
      /\ appends' = [appends EXCEPT ![p] = [pc |-> "read", prev |-> prev]]
      /\ UNCHANGED <<rows, anchor, lock, readers, opened, recorded, damaged>>

EndAppend(p) ==
  /\ appends' = [appends EXCEPT ![p] = NoAppend]
  /\ lock' = None

CommitAppend(p) ==
  LET body == recorded + 1
      hash == EventHash(body, appends[p].prev)
  IN  /\ appends[p].pc = "read"
      /\ rows' = Append(rows, [body |-> body, prev |-> appends[p].prev,
                               hash |-> hash])
      /\ anchor' = [count |-> anchor.count + 1, head |-> hash]
      /\ EndAppend(p)
      /\ recorded' = recorded + 1
      /\ readers' = [v \in Verifiers |->
           [readers[v] EXCEPT !.disturbed = @ \/ readers[v].pc = "events"]]
      /\ UNCHANGED <<opened, damaged>>

\* An error or a crash rolls the transaction back.
AbortAppend(p) ==
  /\ appends[p].pc # "idle"
  /\ EndAppend(p)
  /\ UNCHANGED <<rows, anchor, readers, opened, recorded, damaged>>

-----------------------------------------------------------------------------
(* Damage and verification                                                 *)

\* The events with one changed, one removed, two reordered, or as they are.
Altered ==
  {[rows EXCEPT ![i].body = 0] : i \in DOMAIN rows}
  \cup {SubSeq(rows, 1, i - 1) \o SubSeq(rows, i + 1, Len(rows)) :
          i \in DOMAIN rows}
  \cup {[rows EXCEPT ![i] = rows[i + 1], ![i + 1] = rows[i]] :
          i \in 1..(Len(rows) - 1)}
  \cup {rows}

\* Events whose stored hashes are cleared at some places.
Cleared(events, places) ==
  [i \in DOMAIN events |->
     IF i \in places THEN [events[i] EXCEPT !.hash = None] ELSE events[i]]

\* Somebody changes, removes or reorders stored events, once, and may clear
\* hashes, but computes none.  The anchor, in the row of the run, is left alone:
\* whoever rewrites that too is outside what the chain is meant to show.
Damage ==
  /\ damaged = "no"
  /\ opened
  /\ lock = None
  /\ \E events \in Altered, places \in SUBSET DOMAIN rows :
       /\ events # rows \/ places # {}
       /\ rows' = Cleared(events, places)
  /\ damaged' = "yes"
  /\ UNCHANGED <<anchor, lock, appends, readers, opened, recorded>>

\* Mutant of Verified: the anchor is not looked at.
VerifiedEvents(run, events) ==
  \A i \in DOMAIN events :
    /\ events[i].prev = HeadHash(SubSeq(events, 1, i - 1))
    /\ events[i].hash = EventHash(events[i].body, events[i].prev)

\* What verify_event_chain answers for the run and the events it has read.
Verified(run, events) ==
  /\ \A i \in DOMAIN events :
       /\ events[i].prev = HeadHash(SubSeq(events, 1, i - 1))
       /\ events[i].hash = EventHash(events[i].body, events[i].prev)
  /\ run.count = Len(events)
  /\ run.head = HeadHash(events)

\* audit_trail shows the run and the events of two separate reads, and the
\* verdict of a verification that reads both again.
TrailRun(v) ==
  /\ readers[v].pc = "idle"
  /\ opened
  /\ readers' = [readers EXCEPT ![v].pc = "trail", ![v].row = anchor.count]
  /\ UNCHANGED <<rows, anchor, lock, appends, opened, recorded, damaged>>

TrailEvents(v) ==
  /\ readers[v].pc = "trail"
  /\ readers' = [readers EXCEPT ![v].pc = "verify",
                   ![v].trail = [i \in DOMAIN rows |-> rows[i].body]]
  /\ UNCHANGED <<rows, anchor, lock, appends, opened, recorded, damaged>>

VerifyRun(v) ==
  /\ readers[v].pc \in {"idle", "verify"}
  /\ opened
  /\ readers' = [readers EXCEPT ![v].pc = "events", ![v].seen = anchor,
                                ![v].saw = damaged]
  /\ UNCHANGED <<rows, anchor, lock, appends, opened, recorded, damaged>>

VerifyEvents(v) ==
  /\ readers[v].pc = "events"
  /\ readers' = [readers EXCEPT ![v].pc = "done",
                   ![v].verdict = Verified(readers[v].seen, rows),
                   ![v].saw = IF damaged = "rechained" THEN damaged ELSE @]
  /\ UNCHANGED <<rows, anchor, lock, appends, opened, recorded, damaged>>

\* Mutant of Exported: the verdict is not looked at.
ExportedAnyway(v) == readers[v].pc = "done" /\ readers[v].row # None

\* export_audit_bundle raises unless the verdict of every trail is true.
Exported(v) ==
  readers[v].pc = "done" /\ readers[v].row # None /\ readers[v].verdict

Next ==
  \/ Backfill
  \/ \E p \in Processes :
       \/ BeginAppend(p) \/ ReadHead(p) \/ CommitAppend(p) \/ AbortAppend(p)
  \/ \E v \in Verifiers :
       \/ TrailRun(v) \/ TrailEvents(v) \/ VerifyRun(v) \/ VerifyEvents(v)
  \/ Damage

Spec == Init /\ [][Next]_vars

-----------------------------------------------------------------------------
(* Properties                                                              *)

\* Undamaged, the chain holds what was recorded, in the order it was recorded,
\* without forks, and its anchor agrees: whoever appends at the same time, and
\* however often a file is migrated or a transaction rolled back.
ChainTellsHistory ==
  damaged = "no" =>
    /\ Len(rows) = recorded
    /\ \A i \in DOMAIN rows : rows[i].body = i
    /\ opened => rows = Chained
    /\ opened => anchor = [count |-> Len(rows), head |-> HeadHash(rows)]

\* A verification that began after the damage reports it, also when hashes were
\* cleared or the ledger went on appending to the damaged chain, as long as
\* nobody opened the file and so re-chained it before the verification ended.
DamageIsReported ==
  \A v \in Verifiers :
    readers[v].pc = "done" /\ readers[v].saw = "yes" => ~readers[v].verdict

\* What docs/threat-model.md and docs/architecture.md say of the chain: where
\* the events are not those recorded, or not in their order, a verification
\* that begins afterwards fails.
AlterationIsDetected ==
  \A v \in Verifiers :
    /\ readers[v].pc = "done"
    /\ readers[v].saw # "no"
    /\ \E i \in DOMAIN rows : rows[i].body # i
    => ~readers[v].verdict

\* A verification that no append disturbed raises no false alarm.
QuietVerdictIsRight ==
  \A v \in Verifiers :
    /\ readers[v].pc = "done"
    /\ ~readers[v].disturbed
    /\ damaged = "no"
    => readers[v].verdict

\* A bundle that is exported shows what was recorded, unless a damaged file was
\* re-chained before the bundle was verified: its events are a beginning of the
\* history, none changed, missing or out of place, although the chain is
\* verified on another read than the one that is exported; and its run is no
\* newer than they are.
BundleIsGenuine ==
  \A v \in Verifiers : Exported(v) /\ readers[v].saw # "rechained" =>
    /\ Len(readers[v].trail) <= recorded
    /\ \A i \in DOMAIN readers[v].trail : readers[v].trail[i] = i
    /\ readers[v].row <= Len(readers[v].trail)
=============================================================================
