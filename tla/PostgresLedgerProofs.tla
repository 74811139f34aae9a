------------------------ MODULE PostgresLedgerProofs ------------------------
(***************************************************************************)
(* Proofs about PostgresLedger, for any number of runs, sessions, people   *)
(* and workers.  Seen from one run, a step on PostgreSQL is one of the     *)
(* local steps of ActionLedger, or one of the three that no longer ask     *)
(* what the SQLite ledger asks under its lock: a verdict on what was read, *)
(* the blind expiry, and giving up a lease that was read as expired.       *)
(***************************************************************************)
EXTENDS PostgresLedger, LedgerSafetyProofs

-----------------------------------------------------------------------------
(* What an open transaction knows                                          *)

Operation == {"none", "expire", "approve", "reject", "lapse", "give_up", "claim"}

Transaction == [op : Operation, on : SUBSET RunIds,
                by : Actors \cup Owners \cup {None}, now : Nat]

\* A verdict and an expiry are about one run, whose approval exists.
Grounded(t) ==
  /\ t.op \in {"expire", "approve", "reject"} =>
       \E r \in RunIds : t.on = {r} /\ approvals[r] # NoApproval
  /\ t.op \in {"approve", "reject"} => t.by \in Actors
  /\ t.op = "claim" => t.by \in Owners /\ \E r \in RunIds : t.on = {r}

TxInv ==
  /\ tx \in [Sessions -> Transaction]
  /\ \A s \in Sessions : Grounded(tx[s])

\* A started tool is counted; after that a run is never claimable again, also
\* when a blind expiry took it out of its execution.
Counted(r) ==
  /\ runs[r].attempt =
       IF "tool.execution.started" \in Types(events[r]) THEN 1 ELSE 0
  /\ StartedOnce(events[r])
  /\ "tool.execution.started" \in Types(events[r]) =>
       runs[r].status \in Executed \cup {"approval_expired"}

Verdict == {"approval.approved", "approval.rejected"}

JudgedOnce(trail) ==
  \A i, j \in DOMAIN trail :
    trail[i].type \in Verdict /\ trail[j].type \in Verdict => i = j

\* Once there is a verdict the approval no longer waits for one.
Settled(r) ==
  /\ JudgedOnce(events[r])
  /\ Types(events[r]) \cap Verdict # {} =>
       approvals[r].status \notin {"none", "pending_approval"}

PgInv ==
  /\ TypeOK
  /\ TxInv
  /\ \A r \in RunIds : /\ ApprovalMatches(r)
                       /\ TrailDecides(r)
                       /\ Counted(r)
                       /\ Settled(r)

-----------------------------------------------------------------------------
(* Local steps                                                             *)

\* A verdict on an approval that was read, with the checks made then.
VerdictStep(r) ==
  /\ Pending(r)
  /\ \E actor \in Actors, approved \in BOOLEAN :
       LET status == IF approved THEN "approved" ELSE "rejected"
           type == IF approved THEN "approval.approved"
                               ELSE "approval.rejected"
       IN  /\ Turned(r, status, <<Event(type, None, actor)>>)
           /\ approvals'[r] = [approvals[r] EXCEPT !.status = status,
                                                   !.approver = actor]

\* The expiry that looks at nothing.
BlindStep(r) ==
  /\ approvals[r] # NoApproval
  /\ Turned(r, "approval_expired", <<Plain("approval.expired")>>)
  /\ approvals'[r] = [approvals[r] EXCEPT !.status = "approval_expired"]

\* An execution given up on a lease that was read as expired.
GiveUpStep(r) ==
  /\ Same(r)
  /\ runs[r].status = "executing"
  /\ Turned(r, "unknown", <<Plain("tool.execution.lease_expired")>>)

PgLocal(r) ==
  LocalStep(r) \/ VerdictStep(r) \/ BlindStep(r) \/ GiveUpStep(r)

LEMMA EventStatus ==
  \A actor :
    /\ StatusAfter(Event("approval.approved", None, actor)) = "approved"
    /\ StatusAfter(Event("approval.rejected", None, actor)) = "rejected"
  BY DEF StatusAfter, Event

LEMMA ActorEvent ==
  ASSUME NEW type \in EventType, NEW actor \in Actors
  PROVE  Event(type, None, actor) \in Events /\ Event(type, None, actor).type = type
  BY DEF Event, Events

\* An approval belongs to a run.
LEMMA ApprovedRow ==
  ASSUME TypeOK, NEW r \in RunIds, ApprovalMatches(r), approvals[r] # NoApproval
  PROVE  /\ approvals[r] \in Approval
         /\ runs[r] \in Row
         /\ runs[r].policy \in Policies
         /\ approvals[r].status = "pending_approval" => Pending(r)
  <1>1. approvals[r] \in Approval
    BY DEF TypeOK
  <1>2. runs[r].request \in Requests /\ runs[r].policy \in Policies
    BY <1>1 DEF ApprovalMatches, Approval
  <1>3. runs[r] \in Row
    BY <1>2, LedgerAssumption DEF TypeOK, NoRow
  <1>4. approvals[r].status = "pending_approval" => Pending(r)
    BY DEF ApprovalMatches, Pending
  <1> QED
    BY <1>1, <1>2, <1>3, <1>4

\* What the writes do to the tables.
LEMMA BlindEffect ==
  ASSUME TypeOK, NEW S \in SUBSET RunIds,
         \A r \in S : runs[r] \in Row /\ approvals[r] \in Approval,
         ExpireApproval(S)
  PROVE  TypeOK'
  <1>1. \A r \in S : [runs[r] EXCEPT !.status = "approval_expired"] \in Row
    BY DEF Row, ActionStatus, Terminal
  <1>2. \A r \in S :
          [approvals[r] EXCEPT !.status = "approval_expired"] \in Approval
    BY DEF Approval
  <1>3. \A r \in RunIds :
          Append(events[r], Plain("approval.expired")) \in Seq(Events)
    BY AppendTyped, PlainTyped DEF TypeOK, EventType
  <1>4. events' \in [RunIds -> Seq(Events)]
    BY <1>3 DEF ExpireApproval, TypeOK
  <1> QED
    BY <1>1, <1>2, <1>4 DEF TypeOK, ExpireApproval

LEMMA ExpireWriteStep ==
  ASSUME TypeOK, TxInv, \A r \in RunIds : ApprovalMatches(r),
         NEW s \in Sessions, ExpireWrite(s)
  PROVE  TypeOK' /\ \A r \in RunIds : PgLocal(r)
  <1>1. PICK q \in RunIds : tx[s].on = {q} /\ approvals[q] # NoApproval
    BY DEF TxInv, Grounded, ExpireWrite
  <1>2. approvals[q] \in Approval /\ runs[q] \in Row
    BY <1>1, ApprovedRow
  <1>3. ExpireApproval({q})
    BY <1>1 DEF ExpireWrite
  <1>4. TypeOK'
    BY <1>2, <1>3, BlindEffect
  <1>5. ASSUME NEW r \in RunIds
        PROVE  PgLocal(r)
    <2>1. CASE r = q
      <3>1. Append(events[q], Plain("approval.expired")) =
              events[q] \o <<Plain("approval.expired")>>
        BY AppendTyped, PlainTyped DEF TypeOK, EventType
      <3>2. /\ runs'[q] = [runs[q] EXCEPT !.status = "approval_expired"]
            /\ approvals'[q] = [approvals[q] EXCEPT !.status = "approval_expired"]
            /\ events'[q] = events[q] \o <<Plain("approval.expired")>>
        BY <1>3, <3>1 DEF ExpireApproval
      <3>3. Turned(q, "approval_expired", <<Plain("approval.expired")>>)
        BY <1>2, <3>2 DEF Turned, Moved, Row
      <3> QED
        BY <1>1, <2>1, <3>2, <3>3 DEF BlindStep, PgLocal
    <2>2. CASE r # q
      BY <1>3, <2>2 DEF ExpireApproval, PgLocal, LocalStep, QuietStep, Same
    <2> QED
      BY <2>1, <2>2
  <1> QED
    BY <1>4, <1>5

LEMMA UnchangedLedger ==
  ASSUME TypeOK, UNCHANGED Ledger
  PROVE  TypeOK' /\ \A r \in RunIds : PgLocal(r)
  BY DEF Ledger, TypeOK, PgLocal, LocalStep, QuietStep, Same

LEMMA DecideWriteStep ==
  ASSUME TypeOK, TxInv, \A r \in RunIds : ApprovalMatches(r),
         NEW s \in Sessions, DecideWrite(s)
  PROVE  TypeOK' /\ \A r \in RunIds : PgLocal(r)
  <1>1. PICK q \in RunIds : tx[s].on = {q} /\ approvals[q] # NoApproval
    BY DEF TxInv, Grounded, DecideWrite
  <1> DEFINE actor == tx[s].by
             approved == tx[s].op = "approve"
             status == IF approved THEN "approved" ELSE "rejected"
             type == IF approved THEN "approval.approved"
                                 ELSE "approval.rejected"
             event == Event(type, None, actor)
             row == [runs[q] EXCEPT !.status = status]
  <1>2. /\ approvals[q] \in Approval
        /\ runs[q] \in Row
        /\ approvals[q].status = "pending_approval" => Pending(q)
    BY <1>1, ApprovedRow
  <1>3. actor \in Actors
    BY DEF TxInv, Grounded, DecideWrite
  <1>4. event \in Events
    BY <1>3, ActorEvent DEF EventType
  <1>5. status \in {"approved", "rejected"} /\ row \in Row
    BY <1>2 DEF Row, ActionStatus, Terminal
  <1>6. CASE approvals[q].status # "pending_approval"
    <2>1. UNCHANGED Ledger
      BY <1>1, <1>6 DEF DecideWrite
    <2> QED
      BY <2>1, UnchangedLedger
  <1>7. CASE approvals[q].status = "pending_approval"
    <2>1. Pending(q) /\ runs[q].status = "pending_approval"
      BY <1>2, <1>7 DEF Pending
    <2>2. /\ approvals' = [approvals EXCEPT ![q].status = status,
                                            ![q].approver = actor]
          /\ Commit(q, row, <<event>>)
          /\ clock' = clock
      BY <1>1, <1>7, <2>1 DEF DecideWrite
    <2>3. approvals'[q] = [approvals[q] EXCEPT !.status = status,
                                               !.approver = actor]
      BY <2>2 DEF TypeOK
    <2>4. approvals'[q] \in Approval
      <3> HIDE DEF actor, status
      <3> QED
        BY <1>2, <1>3, <1>5, <2>3 DEF Approval
    <2>5. approvals' \in [RunIds -> Approval \cup {NoApproval}]
      BY <2>2, <2>4 DEF TypeOK
    <2>6. <<event>> \in Seq(Events)
      BY <1>4
    <2> HIDE DEF event, row
    <2>7. /\ runs' \in [RunIds -> Row \cup {NoRow}]
          /\ events' \in [RunIds -> Seq(Events)]
          /\ runs'[q] = row
          /\ events'[q] = events[q] \o <<event>>
          /\ \A r \in RunIds \ {q} : runs'[r] = runs[r] /\ events'[r] = events[r]
      BY <1>5, <2>2, <2>6, CommitEffect
    <2>8. TypeOK'
      BY <2>2, <2>5, <2>7 DEF TypeOK
    <2>9. ASSUME NEW r \in RunIds
          PROVE  PgLocal(r)
      <3>1. CASE r = q
        <4>1. Turned(q, status, <<event>>)
          BY <1>2, <2>7 DEF Turned, Moved, Row, row
        <4>2. VerdictStep(q)
          BY <1>3, <2>1, <2>3, <4>1 DEF VerdictStep, event
        <4> QED
          BY <3>1, <4>2 DEF PgLocal
      <3>2. CASE r # q
        <4>1. approvals'[r] = approvals[r]
          BY <2>2, <3>2 DEF TypeOK
        <4> QED
          BY <2>7, <3>2, <4>1 DEF PgLocal, LocalStep, QuietStep, Same
      <3> QED
        BY <3>1, <3>2
    <2> QED
      BY <2>8, <2>9
  <1> QED
    BY <1>6, <1>7

LEMMA ExpireApprovalsWriteStep ==
  ASSUME TypeOK, NEW s \in Sessions, tx[s].on \subseteq RunIds,
         ExpireApprovalsWrite(s)
  PROVE  TypeOK' /\ \A r \in RunIds : PgLocal(r)
  <1> DEFINE S == {r \in tx[s].on : Pending(r)}
  <1>1. S \in SUBSET RunIds /\ \A r \in S : Pending(r)
    OBVIOUS
  <1>2. ExpireApproval(S) \/ UNCHANGED Ledger
    BY DEF ExpireApprovalsWrite
  <1> HIDE DEF S
  <1>3. CASE ExpireApproval(S)
    BY <1>1, <1>3, ExpireEffect, ExpireLocal DEF PgLocal
  <1> QED
    BY <1>2, <1>3, UnchangedLedger

LEMMA GiveUpWriteStep ==
  ASSUME TypeOK, NEW s \in Sessions, tx[s].on \subseteq RunIds,
         GiveUpWrite(s)
  PROVE  TypeOK' /\ \A r \in RunIds : PgLocal(r)
  <1> DEFINE S == {r \in tx[s].on : runs[r].status = "executing"}
  <1>1. S \in SUBSET RunIds /\ \A r \in S : runs[r].status = "executing"
    OBVIOUS
  <1>2. MarkExpiredExecution(S)
    BY DEF GiveUpWrite
  <1> HIDE DEF S
  <1>3. TypeOK'
    BY <1>1, <1>2, MarkExpiredEffect
  <1>4. ASSUME NEW r \in RunIds
        PROVE  PgLocal(r)
    <2>1. Append(events[r], Plain("tool.execution.lease_expired")) =
            events[r] \o <<Plain("tool.execution.lease_expired")>>
      BY AppendTyped, PlainTyped DEF TypeOK, EventType
    <2>2. CASE r \in S
      <3>1. runs[r].status = "executing" /\ runs[r] \in Row
        BY <1>1, <2>2, RowTyped
      <3>2. /\ runs'[r] = [runs[r] EXCEPT !.status = "unknown",
                                          !.owner = None, !.lease = None]
            /\ events'[r] =
                 events[r] \o <<Plain("tool.execution.lease_expired")>>
            /\ approvals'[r] = approvals[r]
        BY <1>2, <2>1, <2>2 DEF MarkExpiredExecution
      <3>3. Turned(r, "unknown", <<Plain("tool.execution.lease_expired")>>)
        BY <3>1, <3>2 DEF Turned, Moved, Row
      <3> QED
        BY <3>1, <3>2, <3>3 DEF GiveUpStep, Same, PgLocal
    <2>3. CASE r \notin S
      BY <1>2, <2>3
         DEF MarkExpiredExecution, PgLocal, LocalStep, QuietStep, Same
    <2> QED
      BY <2>2, <2>3
  <1> QED
    BY <1>3, <1>4

\* A claim does not ask when it was decided: the run is claimable now.
LEMMA ClaimsLocal ==
  ASSUME TypeOK, NEW q \in RunIds, NEW owner \in Owners, NEW t \in Nat,
         Claimable(q), ClaimExecution(q, owner, t), NEW r \in RunIds
  PROVE  LocalStep(r)
  <1> DEFINE row == [runs[q] EXCEPT !.status = "executing", !.owner = owner,
                                    !.lease = t + LeaseSeconds,
                                    !.attempt = @ + 1]
             resumed == IF runs[q].status = "approved"
                        THEN <<Plain("run.resumed")>> ELSE << >>
             started == <<Plain("tool.execution.started")>>
  <1>1. /\ Commit(q, row, resumed \o started)
        /\ UNCHANGED <<approvals, clock>>
    BY DEF ClaimExecution, Claimable, LeaseExpired
  <1>2. t + LeaseSeconds \in Nat
    BY LedgerAssumption
  <1>3. resumed \o started =
          IF runs[q].status = "approved"
          THEN <<Plain("run.resumed"), Plain("tool.execution.started")>>
          ELSE <<Plain("tool.execution.started")>>
    BY ConcatShort
  <1>4. Wrote(q, row, resumed \o started)
    BY <1>1, CommitWrote
  <1>5. ClaimStep(q)
    BY <1>1, <1>2, <1>3, <1>4 DEF ClaimStep, Same
  <1> QED
    BY <1>1, <1>5, OthersQuiet DEF LocalStep, Same

LEMMA ClaimWriteStep ==
  ASSUME TypeOK, TxInv, NEW s \in Sessions, ClaimWrite(s)
  PROVE  TypeOK' /\ \A r \in RunIds : PgLocal(r)
  <1>1. /\ tx[s].by \in Owners
        /\ tx[s].now \in Nat
        /\ \E q \in RunIds : tx[s].on = {q}
    BY DEF TxInv, Grounded, ClaimWrite, Transaction
  <1>2. PICK q \in RunIds : tx[s].on = {q}
    BY <1>1
  <1>3. CASE Claimable(q)
    <2>1. ClaimExecution(q, tx[s].by, tx[s].now)
      BY <1>2, <1>3 DEF ClaimWrite
    <2> QED
      BY <1>1, <1>3, <2>1, ClaimsLocal, ClaimExecutionTyped DEF PgLocal
  <1>4. CASE ~Claimable(q)
    <2>1. UNCHANGED Ledger
      BY <1>2, <1>4 DEF ClaimWrite
    <2> QED
      BY <2>1, UnchangedLedger
  <1> QED
    BY <1>3, <1>4

LEMMA OneStatementStep ==
  ASSUME TypeOK, NEW q \in RunIds, OneStatement(q)
  PROVE  TypeOK' /\ \A r \in RunIds : PgLocal(r)
  <1>1. Next
    BY DEF OneStatement, Next
  <1> QED
    BY <1>1, TypeStep, StepLocal DEF PgLocal

(* Reading concludes, and closing forgets; neither touches the tables. *)
LEMMA ReadsOnly ==
  ASSUME NEW s \in Sessions, NEW t \in SampledNow,
         \/ \E r \in RunIds :
              \/ \E approved \in BOOLEAN, principal \in Principals :
                   DecideRead(s, r, approved, principal, t)
              \/ \E owner \in Owners : ClaimRead(s, r, owner, t)
         \/ \E scope \in Scopes : \/ ExpireApprovalsRead(s, scope, t)
                                  \/ RecoverRead(s, scope, t)
  PROVE  UNCHANGED Ledger
  BY DEF DecideRead, ClaimRead, ExpireApprovalsRead, RecoverRead, Conclude,
         Ledger

(* What any step does to the tables, and to one run. *)
LEMMA PgStepLocal ==
  ASSUME TypeOK, TxInv, \A r \in RunIds : ApprovalMatches(r), [PgNext]_pgVars
  PROVE  TypeOK' /\ \A r \in RunIds : PgLocal(r)
  <1>1. \A s \in Sessions : tx[s].on \subseteq RunIds
    BY DEF TxInv, Transaction
  <1>2. CASE UNCHANGED pgVars
    BY <1>2, UnchangedLedger DEF pgVars, Ledger
  <1>3. CASE \E r \in RunIds : OneStatement(r)
    BY <1>3, OneStatementStep
  <1>4. CASE Tick
    <2>1. Next
      BY <1>4 DEF Next
    <2> QED
      BY <2>1, TypeStep, StepLocal DEF PgLocal
  <1>5. ASSUME NEW s \in Sessions, NEW t \in SampledNow,
               \/ \E r \in RunIds :
                    \/ \E approved \in BOOLEAN, principal \in Principals :
                         DecideRead(s, r, approved, principal, t)
                    \/ \E owner \in Owners : ClaimRead(s, r, owner, t)
               \/ \E scope \in Scopes : \/ ExpireApprovalsRead(s, scope, t)
                                        \/ RecoverRead(s, scope, t)
        PROVE  TypeOK' /\ \A r \in RunIds : PgLocal(r)
    <2>1. UNCHANGED Ledger
      BY <1>5, ReadsOnly
    <2> QED
      BY <2>1, UnchangedLedger
  <1>6. ASSUME NEW s \in Sessions,
               \/ DecideWrite(s) \/ ExpireWrite(s) \/ ExpireApprovalsWrite(s)
               \/ GiveUpWrite(s) \/ ClaimWrite(s) \/ Rollback(s)
        PROVE  TypeOK' /\ \A r \in RunIds : PgLocal(r)
    <2>1. CASE DecideWrite(s)
      BY <2>1, DecideWriteStep
    <2>2. CASE ExpireWrite(s)
      BY <2>2, ExpireWriteStep
    <2>3. CASE ExpireApprovalsWrite(s)
      BY <1>1, <2>3, ExpireApprovalsWriteStep
    <2>4. CASE GiveUpWrite(s)
      BY <1>1, <2>4, GiveUpWriteStep
    <2>5. CASE ClaimWrite(s)
      BY <2>5, ClaimWriteStep
    <2>6. CASE Rollback(s)
      BY <2>6, UnchangedLedger DEF Rollback
    <2> QED
      BY <1>6, <2>1, <2>2, <2>3, <2>4, <2>5, <2>6
  <1> QED
    BY <1>2, <1>3, <1>4, <1>5, <1>6 DEF PgNext

-----------------------------------------------------------------------------
(* What a transaction has concluded stays true until it commits: an        *)
(* approval that exists keeps existing.                                    *)

LEMMA ApprovalStays ==
  ASSUME TypeOK, NEW r \in RunIds, ApprovalMatches(r), PgLocal(r),
         approvals[r] # NoApproval
  PROVE  approvals'[r] # NoApproval
  <1>1. approvals[r] \in Approval /\ approvals[r].status # "none"
    BY DEF TypeOK, Approval
  <1>2. CASE LocalStep(r)
    <2>1. ColumnStep(r)
      BY <1>2, ColumnsOf
    <2>2. CASE Same(r)
      BY <2>2 DEF Same
    <2>3. CASE Asked(r)
      <3>1. approvals'[r].status = "pending_approval"
        BY <2>3 DEF Asked, NewApproval
      <3> QED
        BY <3>1, NoApprovalStatus
    <2>4. ASSUME NEW status \in {"approved", "rejected"}, NEW type,
                 Judged(r, status, type)
          PROVE  approvals'[r] # NoApproval
      <3>1. approvals'[r].status = status
        BY <1>1, <2>4 DEF Judged, Approval
      <3> QED
        BY <3>1, NoApprovalStatus
    <2>5. CASE Lapsed(r)
      <3>1. approvals'[r].status = "approval_expired"
        BY <1>1, <2>5 DEF Lapsed, Approval
      <3> QED
        BY <3>1, NoApprovalStatus
    <2> QED
      BY <2>1, <2>2, <2>3, <2>4, <2>5
         DEF ColumnStep, Kept, Entered, Permitted, Denied, Began, Ended, Resolved
  <1>3. CASE VerdictStep(r)
    <2>1. approvals'[r].status \in {"approved", "rejected"}
      BY <1>1, <1>3 DEF VerdictStep, Approval
    <2> QED
      BY <2>1, NoApprovalStatus
  <1>4. CASE BlindStep(r)
    <2>1. approvals'[r].status = "approval_expired"
      BY <1>1, <1>4 DEF BlindStep, Approval
    <2> QED
      BY <2>1, NoApprovalStatus
  <1>5. CASE GiveUpStep(r)
    BY <1>5 DEF GiveUpStep, Same
  <1> QED
    BY <1>2, <1>3, <1>4, <1>5 DEF PgLocal

(* What the reads conclude. *)
LEMMA ConcludeStep ==
  ASSUME TxInv, NEW s \in Sessions, NEW op \in Operation,
         NEW S \in SUBSET RunIds, NEW by \in Actors \cup Owners \cup {None},
         NEW t \in Nat, Conclude(s, op, S, by, t),
         op \in {"expire", "approve", "reject"} =>
           \E r \in RunIds : S = {r} /\ approvals[r] # NoApproval,
         op \in {"approve", "reject"} => by \in Actors,
         op = "claim" => by \in Owners /\ \E r \in RunIds : S = {r}
  PROVE  TxInv'
  <1> DEFINE concluded == [op |-> op, on |-> S, by |-> by, now |-> t]
  <1>1. concluded \in Transaction
    BY DEF Transaction
  <1>2. /\ tx' = [tx EXCEPT ![s] = concluded]
        /\ approvals' = approvals
    BY DEF Conclude
  <1>3. tx' \in [Sessions -> Transaction]
    BY <1>1, <1>2 DEF TxInv
  <1>4. ASSUME NEW u \in Sessions
        PROVE  Grounded(tx[u])'
    <2>1. CASE u = s
      <3>1. tx'[u] = concluded
        BY <1>2, <2>1 DEF TxInv
      <3> QED
        BY <1>2, <3>1 DEF Grounded
    <2>2. CASE u # s
      <3>1. tx'[u] = tx[u] /\ Grounded(tx[u])
        BY <1>2, <2>2 DEF TxInv
      <3> QED
        BY <1>2, <3>1 DEF Grounded
    <2> QED
      BY <2>1, <2>2
  <1> QED
    BY <1>3, <1>4 DEF TxInv

LEMMA ReadsGrounded ==
  ASSUME TypeOK, TxInv, NEW s \in Sessions, NEW t \in SampledNow,
         \/ \E r \in RunIds :
              \/ \E approved \in BOOLEAN, principal \in Principals :
                   DecideRead(s, r, approved, principal, t)
              \/ \E owner \in Owners : ClaimRead(s, r, owner, t)
         \/ \E scope \in Scopes : \/ ExpireApprovalsRead(s, scope, t)
                                  \/ RecoverRead(s, scope, t)
  PROVE  TxInv'
  <1>1. t \in Nat
    BY SampledNat
  <1>2. ASSUME NEW r \in RunIds, NEW approved \in BOOLEAN,
               NEW principal \in Principals,
               DecideRead(s, r, approved, principal, t)
        PROVE  TxInv'
    <2> DEFINE op == IF Overdue(r, t) THEN "expire"
                     ELSE IF approved THEN "approve" ELSE "reject"
    <2>1. op \in Operation
      BY DEF Operation
    <2>2. approvals[r] # NoApproval /\ principal.actor \in Actors
      BY <1>2, NoApprovalStatus DEF DecideRead, Pending, Actors
    <2>3. Conclude(s, op, {r}, principal.actor, t)
      BY <1>2 DEF DecideRead
    <2>4. op # "claim"
      OBVIOUS
    <2> HIDE DEF op
    <2> QED
      BY <1>1, <2>1, <2>2, <2>3, <2>4, ConcludeStep
  <1>3. ASSUME NEW r \in RunIds, NEW owner \in Owners,
               ClaimRead(s, r, owner, t)
        PROVE  TxInv'
    <2> DEFINE op == IF LeaseExpired(r, t) THEN "give_up" ELSE "claim"
    <2>1. op \in Operation /\ op \notin {"expire", "approve", "reject"}
      BY DEF Operation
    <2>2. Conclude(s, op, {r}, owner, t)
      BY <1>3 DEF ClaimRead
    <2> HIDE DEF op
    <2> QED
      BY <1>1, <2>1, <2>2, ConcludeStep
  <1>4. ASSUME NEW scope \in Scopes,
               ExpireApprovalsRead(s, scope, t) \/ RecoverRead(s, scope, t)
        PROVE  TxInv'
    <2>1. PICK op \in {"lapse", "give_up"}, S \in SUBSET RunIds :
            Conclude(s, op, S, None, t)
      BY <1>4 DEF ExpireApprovalsRead, RecoverRead
    <2>2. op \in Operation /\ op \notin {"expire", "approve", "reject", "claim"}
      BY DEF Operation
    <2> QED
      BY <1>1, <2>1, <2>2, ConcludeStep
  <1> QED
    BY <1>2, <1>3, <1>4

LEMMA TxInvStep ==
  ASSUME TypeOK, TxInv, \A r \in RunIds : ApprovalMatches(r), [PgNext]_pgVars
  PROVE  TxInv'
  <1>1. \A r \in RunIds : approvals[r] # NoApproval => approvals'[r] # NoApproval
    BY PgStepLocal, ApprovalStays
  <1>2. ASSUME NEW u \in Sessions, tx'[u] = tx[u]
        PROVE  Grounded(tx[u])'
    <2>1. Grounded(tx[u])
      BY DEF TxInv
    <2> QED
      BY <1>1, <1>2, <2>1 DEF Grounded
  <1>3. NoTx \in Transaction /\ NoTx.op = "none"
    BY DEF NoTx, Transaction, Operation
  <1>4. CASE UNCHANGED tx
    BY <1>2, <1>4 DEF TxInv
  <1>5. ASSUME NEW s \in Sessions, Close(s)
        PROVE  TxInv'
    <2>1. tx' = [tx EXCEPT ![s] = NoTx]
      BY <1>5 DEF Close
    <2>2. tx' \in [Sessions -> Transaction]
      BY <1>3, <2>1 DEF TxInv
    <2>3. ASSUME NEW u \in Sessions
          PROVE  Grounded(tx[u])'
      <3>1. CASE u = s
        <4>1. tx'[u] = NoTx
          BY <2>1, <3>1 DEF TxInv
        <4> QED
          BY <1>3, <4>1 DEF Grounded
      <3>2. CASE u # s
        <4>1. tx'[u] = tx[u]
          BY <2>1, <3>2 DEF TxInv
        <4> QED
          BY <1>2, <4>1
      <3> QED
        BY <3>1, <3>2
    <2> QED
      BY <2>2, <2>3 DEF TxInv
  <1>6. ASSUME NEW s \in Sessions, NEW t \in SampledNow,
               \/ \E r \in RunIds :
                    \/ \E approved \in BOOLEAN, principal \in Principals :
                         DecideRead(s, r, approved, principal, t)
                    \/ \E owner \in Owners : ClaimRead(s, r, owner, t)
               \/ \E scope \in Scopes : \/ ExpireApprovalsRead(s, scope, t)
                                        \/ RecoverRead(s, scope, t)
        PROVE  TxInv'
    BY <1>6, ReadsGrounded
  <1>7. ASSUME NEW s \in Sessions,
               \/ DecideWrite(s) \/ ExpireWrite(s) \/ ExpireApprovalsWrite(s)
               \/ GiveUpWrite(s) \/ ClaimWrite(s) \/ Rollback(s)
        PROVE  TxInv'
    <2>1. Close(s)
      BY <1>7 DEF DecideWrite, ExpireWrite, ExpireApprovalsWrite, GiveUpWrite,
                  ClaimWrite, Rollback
    <2> QED
      BY <1>5, <2>1
  <1> QED
    BY <1>4, <1>6, <1>7 DEF PgNext, pgVars

-----------------------------------------------------------------------------
(* The three new steps, column by column.                                  *)

\* A step that turns a run by one event.
LEMMA TurnedTrail ==
  ASSUME TypeOK, NEW r \in RunIds, NEW status, NEW event \in Events,
         Turned(r, status, <<event>>), StatusAfter(event) = status
  PROVE  TrailDecides(r)'
  <1>1. Wrote(r, runs'[r], <<event>>) /\ runs'[r].status = StatusAfter(event)
    BY DEF Turned, Moved, Wrote
  <1>2. events[r] \in Seq(Events)
    BY DEF TypeOK
  <1>3. /\ events'[r] # << >>
        /\ events'[r][Len(events'[r])] = event
    BY <1>1, <1>2, LastOne DEF Wrote
  <1> QED
    BY <1>1, <1>3 DEF TrailDecides

LEMMA PgTrailDecidesStep ==
  ASSUME TypeOK, NEW r \in RunIds, TrailDecides(r), PgLocal(r)
  PROVE  TrailDecides(r)'
  <1>1. CASE LocalStep(r)
    BY <1>1, TrailDecidesStep
  <1>2. CASE VerdictStep(r)
    <2>1. PICK actor \in Actors, approved \in BOOLEAN :
            Turned(r, IF approved THEN "approved" ELSE "rejected",
                   <<Event(IF approved THEN "approval.approved"
                                       ELSE "approval.rejected", None, actor)>>)
      BY <1>2 DEF VerdictStep
    <2>2. /\ Event("approval.approved", None, actor) \in Events
          /\ Event("approval.rejected", None, actor) \in Events
      BY ActorEvent DEF EventType
    <2>3. CASE approved
      BY <2>1, <2>2, <2>3, TurnedTrail, EventStatus
    <2>4. CASE ~approved
      BY <2>1, <2>2, <2>4, TurnedTrail, EventStatus
    <2> QED
      BY <2>3, <2>4
  <1>3. CASE BlindStep(r)
    BY <1>3, TurnedTrail, PlainTyped, PlainStatus DEF BlindStep, EventType
  <1>4. CASE GiveUpStep(r)
    BY <1>4, TurnedTrail, PlainTyped, PlainStatus DEF GiveUpStep, EventType
  <1> QED
    BY <1>1, <1>2, <1>3, <1>4 DEF PgLocal

LEMMA PgApprovalMatchesStep ==
  ASSUME TypeOK, NEW r \in RunIds, ApprovalMatches(r), PgLocal(r)
  PROVE  ApprovalMatches(r)'
  <1>1. CASE LocalStep(r)
    BY <1>1, ColumnsOf, ApprovalMatchesStep
  <1>2. ASSUME NEW status \in {"approved", "rejected", "approval_expired"},
               NEW appended,
               approvals[r] # NoApproval,
               Turned(r, status, appended),
               /\ approvals'[r].status = status
               /\ approvals'[r].request = approvals[r].request
               /\ approvals'[r].policy = approvals[r].policy
        PROVE  ApprovalMatches(r)'
    <2>1. approvals'[r] # NoApproval
      BY <1>2, NoApprovalStatus
    <2> QED
      BY <1>2, <2>1 DEF ApprovalMatches, Turned, Moved
  <1>3. approvals[r] # NoApproval => approvals[r] \in Approval
    BY DEF TypeOK
  <1>4. CASE VerdictStep(r)
    <2>1. PICK actor \in Actors, status \in {"approved", "rejected"} :
            /\ \E appended : Turned(r, status, appended)
            /\ approvals'[r] = [approvals[r] EXCEPT !.status = status,
                                                    !.approver = actor]
      BY <1>4 DEF VerdictStep
    <2>2. approvals[r] # NoApproval
      BY <1>4, NoApprovalStatus DEF VerdictStep, Pending
    <2>3. /\ approvals'[r].status = status
          /\ approvals'[r].request = approvals[r].request
          /\ approvals'[r].policy = approvals[r].policy
      BY <1>3, <2>1, <2>2 DEF Approval
    <2> QED
      BY <1>2, <2>1, <2>2, <2>3
  <1>5. CASE BlindStep(r)
    <2>1. /\ approvals'[r].status = "approval_expired"
          /\ approvals'[r].request = approvals[r].request
          /\ approvals'[r].policy = approvals[r].policy
      BY <1>3, <1>5 DEF BlindStep, Approval
    <2> QED
      BY <1>2, <1>5, <2>1 DEF BlindStep
  <1>6. CASE GiveUpStep(r)
    <2>1. /\ approvals'[r] = approvals[r]
          /\ runs'[r].status = "unknown"
          /\ runs'[r].policy = runs[r].policy
          /\ runs'[r].request = runs[r].request
          /\ runs[r].status = "executing"
      BY <1>6 DEF GiveUpStep, Turned, Moved, Same
    <2>2. approvals[r] # NoApproval => approvals[r].status = "approved"
      BY <2>1, ApprovedByNow DEF Executed
    <2> QED
      BY <2>1, <2>2 DEF ApprovalMatches
  <1> QED
    BY <1>1, <1>4, <1>5, <1>6 DEF PgLocal

-----------------------------------------------------------------------------
(* Seen from the counters a step is calm, starts the tool, or is a verdict. *)

Telling == Verdict \cup {"tool.execution.started"}

Spent == Executed \cup {"approval_expired"}

Undecided == {"none", "pending_approval"}

CalmStep(r) ==
  /\ \/ events'[r] = events[r]
     \/ \E event \in Events : /\ events'[r] = events[r] \o <<event>>
                              /\ event.type \notin Telling
     \/ \E first, second \in Events :
          /\ events'[r] = events[r] \o <<first, second>>
          /\ {first.type, second.type} \cap Telling = {}
  /\ runs'[r].attempt = runs[r].attempt
  /\ runs[r].status \in Spent => runs'[r].status \in Spent
  /\ approvals'[r].status \in Undecided => approvals[r].status \in Undecided

PersonStep(r) ==
  /\ Pending(r)
  /\ \E event \in Events : /\ events'[r] = events[r] \o <<event>>
                           /\ event.type \in Verdict
  /\ runs'[r].attempt = runs[r].attempt
  /\ approvals'[r].status \notin Undecided

CountedStep(r) == CalmStep(r) \/ PersonStep(r) \/ Began(r)

LEMMA CalmTypes ==
  \A type \in EventType \ Telling :
    Plain(type) \in Events /\ Plain(type).type \notin Telling
  BY AppendedTyped

LEMMA TellingTypes ==
  /\ Telling = {"approval.approved", "approval.rejected",
                "tool.execution.started"}
  /\ "policy.checked" \notin Telling
  /\ "run.reconciled" \notin Telling
  /\ "provider.reconciliation.observed" \notin Telling
  BY DEF Telling, Verdict

LEMMA Classified ==
  ASSUME TypeOK, NEW r \in RunIds, ApprovalMatches(r), PgLocal(r)
  PROVE  CountedStep(r)
  <1> USE TellingTypes
  <1>1. ASSUME NEW event \in Events, events'[r] = events[r] \o <<event>>,
               event.type \notin Telling,
               runs'[r].attempt = runs[r].attempt,
               runs[r].status \in Spent => runs'[r].status \in Spent,
               approvals'[r].status \in Undecided =>
                 approvals[r].status \in Undecided
        PROVE  CountedStep(r)
    BY <1>1 DEF CalmStep, CountedStep
  <1>2. ASSUME NEW first \in Events, NEW second \in Events,
               events'[r] = events[r] \o <<first, second>>,
               first.type \notin Telling, second.type \notin Telling,
               runs'[r].attempt = runs[r].attempt,
               runs[r].status \in Spent => runs'[r].status \in Spent,
               approvals'[r].status \in Undecided =>
                 approvals[r].status \in Undecided
        PROVE  CountedStep(r)
    BY <1>2 DEF CalmStep, CountedStep
  <1>3. ASSUME Pending(r), NEW status, NEW type \in Verdict,
               NEW actor \in Actors,
               Turned(r, status, <<Event(type, None, actor)>>),
               approvals'[r].status \in {"approved", "rejected"}
        PROVE  CountedStep(r)
    <2>1. Event(type, None, actor) \in Events /\ Event(type, None, actor).type = type
      BY ActorEvent DEF Verdict, EventType
    <2> QED
      BY <1>3, <2>1 DEF Turned, Moved, PersonStep, CountedStep, Undecided
  <1>4. Same(r) => (approvals'[r].status \in Undecided =>
                      approvals[r].status \in Undecided)
    BY DEF Same
  <1>5. {"created", "pending_approval", "denied"} \cap Spent = {}
    BY DEF Spent, Executed
  <1>6. approvals[r] # NoApproval => approvals[r] \in Approval
    BY DEF TypeOK
  <1>7. Pending(r) => approvals[r] \in Approval
    BY <1>6, NoApprovalStatus DEF Pending
  <1>8. CASE VerdictStep(r)
    <2>1. PICK actor \in Actors, approved \in BOOLEAN :
            /\ Turned(r, IF approved THEN "approved" ELSE "rejected",
                      <<Event(IF approved THEN "approval.approved"
                                         ELSE "approval.rejected", None, actor)>>)
            /\ approvals'[r] =
                 [approvals[r] EXCEPT
                    !.status = IF approved THEN "approved" ELSE "rejected",
                    !.approver = actor]
      BY <1>8 DEF VerdictStep
    <2>2. Pending(r)
      BY <1>8 DEF VerdictStep
    <2>3. approvals'[r].status \in {"approved", "rejected"}
      BY <1>7, <2>1, <2>2 DEF Approval
    <2>4. CASE approved
      BY <1>3, <2>1, <2>2, <2>3, <2>4 DEF Verdict
    <2>5. CASE ~approved
      BY <1>3, <2>1, <2>2, <2>3, <2>5 DEF Verdict
    <2> QED
      BY <2>4, <2>5
  <1>9. ASSUME approvals[r] # NoApproval,
               Turned(r, "approval_expired", <<Plain("approval.expired")>>),
               approvals'[r] =
                 [approvals[r] EXCEPT !.status = "approval_expired"]
        PROVE  CountedStep(r)
    <2>1. approvals'[r].status \notin Undecided
      BY <1>6, <1>9 DEF Approval, Undecided
    <2>2. Plain("approval.expired") \in Events
          /\ Plain("approval.expired").type \notin Telling
      BY CalmTypes DEF EventType
    <2>3. "approval_expired" \in Spent
      BY DEF Spent
    <2> QED
      BY <1>1, <1>9, <2>1, <2>2, <2>3 DEF Turned, Moved
  <1>10. CASE BlindStep(r)
    BY <1>9, <1>10 DEF BlindStep
  <1>11. CASE GiveUpStep(r)
    <2>1. Plain("tool.execution.lease_expired") \in Events
          /\ Plain("tool.execution.lease_expired").type \notin Telling
      BY CalmTypes DEF EventType
    <2>2. "unknown" \in Spent
      BY DEF Spent, Executed
    <2> QED
      BY <1>1, <1>4, <1>11, <2>1, <2>2 DEF GiveUpStep, Turned, Moved
  <1>12. CASE Kept(r)
    <2>1. CalmStep(r)
      BY <1>4, <1>12 DEF Kept, CalmStep
    <2> QED
      BY <2>1 DEF CountedStep
  <1>13. CASE Entered(r)
    <2>1. runs[r].attempt = 0 /\ runs[r].status \notin Spent
      BY <1>13 DEF Entered, NoRow, Spent, Executed
    <2>2. Plain("run.created") \in Events /\ Plain("run.created").type \notin Telling
      BY CalmTypes DEF EventType
    <2> QED
      BY <1>1, <1>4, <1>13, <2>1, <2>2 DEF Entered
  <1>14. CASE Permitted(r) \/ Denied(r) \/ Asked(r)
    <2>1. PICK policy \in Policies :
            /\ runs'[r].attempt = runs[r].attempt
            /\ \/ events'[r] = events[r] \o <<Checked("allow", policy)>>
               \/ events'[r] = events[r] \o <<Checked("deny", policy), Plain("run.denied")>>
               \/ events'[r] = events[r] \o <<Checked("approval_required", policy), Plain("approval.requested")>>
      BY <1>14 DEF Permitted, Denied, Asked, Moved
    <2>2. runs[r].status = "created"
      BY <1>14 DEF Permitted, Denied, Asked
    <2>3. approvals[r].status \in Undecided
      BY <2>2, NoApprovalYet, NoApprovalStatus DEF Undecided
    <2>4. \A outcome \in PolicyOutcome :
            /\ Checked(outcome, policy) \in Events
            /\ Checked(outcome, policy).type \notin Telling
      BY AppendedTyped, AppendedTypes
    <2>5. /\ Plain("run.denied") \in Events
          /\ Plain("run.denied").type \notin Telling
          /\ Plain("approval.requested") \in Events
          /\ Plain("approval.requested").type \notin Telling
      BY CalmTypes DEF EventType
    <2>6. {"allow", "deny", "approval_required"} \subseteq PolicyOutcome
      BY DEF PolicyOutcome
    <2> QED
      BY <1>1, <1>2, <1>5, <2>1, <2>2, <2>3, <2>4, <2>5, <2>6
  <1>15. ASSUME NEW status \in {"approved", "rejected"}, NEW type \in Verdict,
                Judged(r, status, type)
         PROVE  CountedStep(r)
    <2>1. PICK principal \in Principals :
            /\ Turned(r, status, <<Event(type, None, principal.actor)>>)
            /\ approvals'[r] = [approvals[r] EXCEPT
                  !.status = status, !.approver = principal.actor]
      BY <1>15 DEF Judged
    <2>2. Pending(r) /\ principal.actor \in Actors
      BY <1>15 DEF Judged, Actors
    <2>3. approvals'[r].status \in {"approved", "rejected"}
      BY <1>7, <2>1, <2>2 DEF Approval
    <2> QED
      BY <1>3, <2>1, <2>2, <2>3
  <1>16. CASE Lapsed(r)
    <2>1. approvals[r] # NoApproval
      BY <1>16, NoApprovalStatus DEF Lapsed, Pending
    <2> QED
      BY <1>9, <1>16, <2>1 DEF Lapsed
  <1>17. CASE Ended(r)
    <2>1. PICK status \in Spent :
            /\ runs'[r].status = status
            /\ runs'[r].attempt = runs[r].attempt
            /\ \/ events'[r] = events[r] \o <<Plain("tool.execution.succeeded"), Plain("run.completed")>>
               \/ \E type \in {"tool.execution.failed",
                               "tool.execution.uncertain",
                               "tool.execution.lease_expired"} :
                    events'[r] = events[r] \o <<Plain(type)>>
      BY <1>17 DEF Ended, Turned, Moved, Spent, Executed
    <2>2. \A type \in {"tool.execution.succeeded", "run.completed",
                       "tool.execution.failed", "tool.execution.uncertain",
                       "tool.execution.lease_expired"} :
            Plain(type) \in Events /\ Plain(type).type \notin Telling
      BY CalmTypes DEF EventType
    <2>3. Same(r)
      BY <1>17 DEF Ended
    <2> QED
      BY <1>1, <1>2, <1>4, <2>1, <2>2, <2>3
  <1>18. CASE Resolved(r)
    <2>1. PICK principal \in Principals, outcome \in ProviderOutcome,
               status \in {"completed", "failed"} :
            /\ runs'[r].status \in {status, "unknown"}
            /\ runs'[r].attempt = runs[r].attempt
            /\ \/ events'[r] = events[r] \o <<Reconciled(status, principal)>>
               \/ events'[r] = events[r] \o <<Observed(outcome, principal), Reconciled(status, principal)>>
               \/ events'[r] = events[r] \o <<Observed(outcome, principal)>>
      BY <1>18 DEF Resolved, Turned, Moved
    <2>2. /\ Reconciled(status, principal) \in Events
          /\ Reconciled(status, principal).type \notin Telling
          /\ Observed(outcome, principal) \in Events
          /\ Observed(outcome, principal).type \notin Telling
      BY AppendedTyped, AppendedTypes
    <2>3. {status, "unknown"} \subseteq Spent
      BY DEF Spent, Executed
    <2>4. Same(r)
      BY <1>18 DEF Resolved
    <2> QED
      BY <1>1, <1>2, <1>4, <2>1, <2>2, <2>3, <2>4
  <1>19. CASE LocalStep(r)
    <2>1. ColumnStep(r)
      BY <1>19, ColumnsOf
    <2> QED
      BY <2>1, <1>12, <1>13, <1>14, <1>15, <1>16, <1>17, <1>18
         DEF ColumnStep, CountedStep, Verdict
  <1> QED
    BY <1>8, <1>10, <1>11, <1>19 DEF PgLocal

-----------------------------------------------------------------------------
(* The counters.                                                           *)

LEMMA JudgedOnceAppend ==
  ASSUME NEW trail \in Seq(Events), JudgedOnce(trail), NEW event \in Events,
         event.type \notin Verdict \/ Types(trail) \cap Verdict = {}
  PROVE  JudgedOnce(trail \o <<event>>)
  <1> DEFINE longer == trail \o <<event>>
  <1>1. /\ DOMAIN longer = 1..(Len(trail) + 1)
        /\ \A i \in 1..Len(trail) : longer[i] = trail[i]
        /\ longer[Len(trail) + 1] = event
        /\ Len(trail) \in Nat
        /\ DOMAIN trail = 1..Len(trail)
    BY AppendOne
  <1> HIDE DEF longer
  <1>2. \A i \in DOMAIN longer : i \in 1..Len(trail) \/ i = Len(trail) + 1
    BY <1>1
  <1>3. event.type \in Verdict => \A i \in 1..Len(trail) : trail[i].type \notin Verdict
    BY <1>1 DEF Types
  <1>4. JudgedOnce(longer)
    BY <1>1, <1>2, <1>3 DEF JudgedOnce
  <1> QED
    BY <1>4 DEF longer

\* Two events are appended as if one after the other.
LEMMA OneByOne ==
  \A trail \in Seq(Events), first, second \in Events :
    trail \o <<first, second>> = (trail \o <<first>>) \o <<second>>
  BY AppendTwo

\* An event that tells nothing leaves what a trail tells.
LEMMA CalmAppend ==
  ASSUME NEW trail \in Seq(Events), StartedOnce(trail), JudgedOnce(trail),
         NEW event \in Events, event.type \notin Telling
  PROVE  /\ trail \o <<event>> \in Seq(Events)
         /\ StartedOnce(trail \o <<event>>)
         /\ JudgedOnce(trail \o <<event>>)
         /\ Types(trail \o <<event>>) \cap Telling = Types(trail) \cap Telling
  <1>1. event.type # "tool.execution.started" /\ event.type \notin Verdict
    BY DEF Telling
  <1>2. trail \o <<event>> \in Seq(Events)
    BY AppendOne
  <1> QED
    BY <1>1, <1>2, StartedOnceAppend, JudgedOnceAppend, TypesAppend

LEMMA CalmKeeps ==
  ASSUME TypeOK, NEW r \in RunIds, Counted(r), Settled(r), CalmStep(r)
  PROVE  Counted(r)' /\ Settled(r)'
  <1>1. /\ events[r] \in Seq(Events)
        /\ StartedOnce(events[r])
        /\ JudgedOnce(events[r])
    BY DEF TypeOK, Counted, Settled
  <1> DEFINE Told == /\ StartedOnce(events'[r])
                     /\ JudgedOnce(events'[r])
                     /\ Types(events'[r]) \cap Telling
                          = Types(events[r]) \cap Telling
  <1>2. Told
    <2>1. CASE events'[r] = events[r]
      BY <1>1, <2>1
    <2>2. ASSUME NEW event \in Events, event.type \notin Telling,
                 events'[r] = events[r] \o <<event>>
          PROVE  Told
      BY <1>1, <2>2, CalmAppend
    <2>3. ASSUME NEW first \in Events, NEW second \in Events,
                 first.type \notin Telling, second.type \notin Telling,
                 events'[r] = events[r] \o <<first, second>>
          PROVE  Told
      <3> DEFINE trail == events[r] \o <<first>>
      <3>1. /\ trail \in Seq(Events)
            /\ StartedOnce(trail)
            /\ JudgedOnce(trail)
            /\ Types(trail) \cap Telling = Types(events[r]) \cap Telling
        BY <1>1, <2>3, CalmAppend
      <3>2. events'[r] = trail \o <<second>>
        <4>1. events[r] \in Seq(Events)
          BY <1>1
        <4>2. events[r] \o <<first, second>> = (events[r] \o <<first>>) \o <<second>>
          BY <4>1, OneByOne, Zenon
        <4> QED
          BY <2>3, <4>2, Zenon
      <3> HIDE DEF trail
      <3>3. /\ StartedOnce(trail \o <<second>>)
            /\ JudgedOnce(trail \o <<second>>)
            /\ Types(trail \o <<second>>) \cap Telling = Types(trail) \cap Telling
        BY <2>3, <3>1, CalmAppend
      <3> QED
        BY <3>1, <3>2, <3>3, Zenon
    <2> QED
      BY <2>1, <2>2, <2>3 DEF CalmStep
  <1>3. /\ "tool.execution.started" \in Types(events'[r])
             <=> "tool.execution.started" \in Types(events[r])
        /\ Types(events'[r]) \cap Verdict = Types(events[r]) \cap Verdict
    BY <1>2 DEF Telling
  <1>4. Counted(r)'
    BY <1>2, <1>3 DEF Counted, CalmStep, Spent
  <1>5. Settled(r)'
    BY <1>2, <1>3 DEF Settled, CalmStep, Undecided
  <1> QED
    BY <1>4, <1>5

LEMMA PersonKeeps ==
  ASSUME TypeOK, NEW r \in RunIds, Counted(r), Settled(r), PersonStep(r)
  PROVE  Counted(r)' /\ Settled(r)'
  <1>1. PICK event \in Events : /\ events'[r] = events[r] \o <<event>>
                                /\ event.type \in Verdict
    BY DEF PersonStep
  <1>2. /\ events[r] \in Seq(Events)
        /\ StartedOnce(events[r])
        /\ JudgedOnce(events[r])
    BY DEF TypeOK, Counted, Settled
  <1>3. Types(events[r]) \cap Verdict = {}
    BY DEF Settled, PersonStep, Pending
  <1>4. "tool.execution.started" \notin Types(events[r])
    BY DEF Counted, PersonStep, Pending, Executed
  <1>5. event.type # "tool.execution.started"
    BY <1>1 DEF Verdict
  <1>6. /\ StartedOnce(events'[r])
        /\ JudgedOnce(events'[r])
        /\ "tool.execution.started" \notin Types(events'[r])
    BY <1>1, <1>2, <1>3, <1>4, <1>5, StartedOnceAppend, JudgedOnceAppend,
       TypesAppend
  <1> QED
    BY <1>4, <1>6 DEF Counted, Settled, PersonStep, Undecided

LEMMA BeganKeeps ==
  ASSUME TypeOK, NEW r \in RunIds, Counted(r), Settled(r), Began(r)
  PROVE  Counted(r)' /\ Settled(r)'
  <1> DEFINE resumed == Plain("run.resumed")
             begun == Plain("tool.execution.started")
  <1>1. /\ begun \in Events /\ begun.type = "tool.execution.started"
        /\ resumed \in Events /\ resumed.type = "run.resumed"
    BY AppendedTyped DEF EventType
  <1>2. /\ events[r] \in Seq(Events)
        /\ StartedOnce(events[r])
        /\ JudgedOnce(events[r])
    BY DEF TypeOK, Counted, Settled
  <1>3. "tool.execution.started" \notin Types(events[r]) /\ runs[r].attempt = 0
    BY DEF Counted, Began, Claimable, Executed
  <1>4. /\ \/ events'[r] = events[r] \o <<begun>>
           \/ events'[r] = events[r] \o <<resumed, begun>>
        /\ runs'[r].attempt = 1
        /\ runs'[r].status = "executing"
        /\ approvals'[r] = approvals[r]
    BY <1>3 DEF Began, Moved, Same
  <1> HIDE DEF resumed, begun
  <1>5. resumed.type \notin Verdict /\ begun.type \notin Verdict
    BY <1>1 DEF Verdict
  <1>6. /\ StartedOnce(events'[r])
        /\ "tool.execution.started" \in Types(events'[r])
        /\ JudgedOnce(events'[r])
        /\ Types(events'[r]) \cap Verdict = Types(events[r]) \cap Verdict
    <2>1. CASE events'[r] = events[r] \o <<begun>>
      BY <1>1, <1>2, <1>3, <1>5, <2>1, StartedOnceAppend, JudgedOnceAppend,
         TypesAppend
    <2>2. CASE events'[r] = events[r] \o <<resumed, begun>>
      <3> DEFINE trail == events[r] \o <<resumed>>
      <3>1. trail \in Seq(Events)
        BY <1>1, <1>2, AppendOne
      <3>2. /\ StartedOnce(trail)
            /\ JudgedOnce(trail)
            /\ Types(trail) = Types(events[r]) \cup {"run.resumed"}
        BY <1>1, <1>2, <1>3, <1>5, StartedOnceAppend, JudgedOnceAppend,
           TypesAppend
      <3>3. events'[r] = trail \o <<begun>>
        <4>1. events[r] \in Seq(Events) /\ resumed \in Events /\ begun \in Events
          BY <1>1, <1>2
        <4>2. events[r] \o <<resumed, begun>>
                = (events[r] \o <<resumed>>) \o <<begun>>
          BY <4>1, OneByOne, Zenon
        <4> QED
          BY <2>2, <4>2, Zenon
      <3>4. "tool.execution.started" \notin Types(trail)
        BY <1>3, <3>2
      <3> HIDE DEF trail
      <3>5. Types(events'[r]) = Types(trail) \cup {begun.type}
        BY <1>1, <3>1, <3>3, TypesAppend
      <3>6. StartedOnce(events'[r]) /\ JudgedOnce(events'[r])
        BY <1>1, <1>5, <3>1, <3>2, <3>3, <3>4, StartedOnceAppend,
           JudgedOnceAppend
      <3> QED
        BY <1>1, <1>5, <3>2, <3>5, <3>6
    <2> QED
      BY <1>4, <2>1, <2>2
  <1> QED
    BY <1>4, <1>6 DEF Counted, Settled, Executed

-----------------------------------------------------------------------------
(* The invariant and what it says.                                         *)

LEMMA PgInvInit ==
  ASSUME PgInit
  PROVE  PgInv
  <1>1. TypeOK
    BY LedgerAssumption DEF PgInit, Init, TypeOK
  <1>2. TxInv
    BY DEF PgInit, NoTx, TxInv, Transaction, Operation, Grounded
  <1>3. ASSUME NEW r \in RunIds
        PROVE  /\ runs[r].status = "absent"
               /\ runs[r].attempt = 0
               /\ approvals[r] = NoApproval
               /\ events[r] = << >>
    BY DEF PgInit, Init, NoRow
  <1>4. /\ StartedOnce(<< >>)
        /\ JudgedOnce(<< >>)
        /\ Types(<< >>) = {}
    BY DEF StartedOnce, JudgedOnce, Types
  <1>5. ASSUME NEW r \in RunIds
        PROVE  ApprovalMatches(r) /\ TrailDecides(r) /\ Counted(r) /\ Settled(r)
    <2>1. ApprovalMatches(r)
      BY <1>3 DEF ApprovalMatches
    <2>2. TrailDecides(r)
      BY <1>3 DEF TrailDecides
    <2>3. Counted(r)
      BY <1>3, <1>4 DEF Counted
    <2>4. Settled(r)
      BY <1>3, <1>4 DEF Settled
    <2> QED
      BY <2>1, <2>2, <2>3, <2>4
  <1> QED
    BY <1>1, <1>2, <1>5 DEF PgInv

LEMMA PgInvStep ==
  ASSUME PgInv, [PgNext]_pgVars
  PROVE  PgInv'
  <1>1. TypeOK /\ TxInv /\ \A r \in RunIds : ApprovalMatches(r)
    BY DEF PgInv
  <1>2. TypeOK' /\ TxInv' /\ \A r \in RunIds : PgLocal(r)
    BY <1>1, PgStepLocal, TxInvStep
  <1>3. ASSUME NEW r \in RunIds
        PROVE  (ApprovalMatches(r) /\ TrailDecides(r) /\ Counted(r) /\ Settled(r))'
    <2>1. ApprovalMatches(r) /\ TrailDecides(r) /\ Counted(r) /\ Settled(r)
      BY DEF PgInv
    <2>2. ApprovalMatches(r)' /\ TrailDecides(r)'
      BY <1>1, <1>2, <2>1, PgApprovalMatchesStep, PgTrailDecidesStep
    <2>3. CountedStep(r)
      BY <1>1, <1>2, Classified
    <2>4. Counted(r)' /\ Settled(r)'
      BY <1>1, <2>1, <2>3, CalmKeeps, PersonKeeps, BeganKeeps DEF CountedStep
    <2> QED
      BY <2>2, <2>4
  <1> QED
    BY <1>2, <1>3 DEF PgInv

LEMMA PgInvHolds == PgSpec => []PgInv
  BY PgInvInit, PgInvStep, PTL DEF PgSpec

(* The tables keep the columns of the schema on PostgreSQL, where a decision *)
(* and its updates are two steps.                                            *)
THEOREM PgTypeCorrect == PgSpec => []TypeOK
  <1>1. PgInv => TypeOK
    BY DEF PgInv
  <1> QED
    BY <1>1, PgInvHolds, PTL

(* Whatever transactions interleave between a read and its updates, a run    *)
(* starts its tool at most once, and the attempt counter agrees: the claim's *)
(* update asks for the status again.                                         *)
THEOREM PgStartedAtMostOnce == PgSpec => []OneExecution
  <1>1. PgInv => OneExecution
    <2> SUFFICES ASSUME PgInv, NEW r \in RunIds
                 PROVE  /\ runs[r].attempt \in {0, 1}
                        /\ (runs[r].attempt = 1)
                             = ("tool.execution.started" \in Types(events[r]))
                        /\ StartedOnce(events[r])
      BY Zenon DEF OneExecution, StartedOnce
    <2>1. Counted(r)
      BY DEF PgInv
    <2>2. runs[r].attempt = 1 <=> "tool.execution.started" \in Types(events[r])
      BY <2>1 DEF Counted
    <2>3. runs[r].attempt \in {0, 1} /\ StartedOnce(events[r])
      BY <2>1 DEF Counted
    <2>4. (runs[r].attempt = 1)
            = ("tool.execution.started" \in Types(events[r]))
      BY <2>2
    <2> QED
      BY <2>3, <2>4, Zenon
  <1> QED
    BY <1>1, PgInvHolds, PTL

(* Every update on PostgreSQL that moves a run says so in the same           *)
(* transaction, also the ones that decide on a stale read: the status is     *)
(* always what the last event says.                                          *)
THEOREM PgTrailAndStatusAgree == PgSpec => []TrailDecidesStatus
  <1>1. PgInv => TrailDecidesStatus
    BY DEF PgInv, TrailDecides, TrailDecidesStatus
  <1> QED
    BY <1>1, PgInvHolds, PTL

(* A verdict, a blind expiry and a sweep that were read against older rows   *)
(* still leave the approval and its run telling one story.                   *)
THEOREM PgApprovalsAgree == PgSpec => []ApprovalAgrees
  <1>1. PgInv => ApprovalAgrees
    BY DEF PgInv, ApprovalMatches, ApprovalAgrees
  <1> QED
    BY <1>1, PgInvHolds, PTL

(* Of the people who decide one approval at the same time at most one is     *)
(* heard, for any number of sessions.                                        *)
THEOREM PgOneVerdict == PgSpec => []OneVerdict
  <1>1. PgInv => OneVerdict
    BY DEF PgInv, Settled, JudgedOnce, Verdict, OneVerdict
  <1> QED
    BY <1>1, PgInvHolds, PTL
=============================================================================
