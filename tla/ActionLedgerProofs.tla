-------------------------- MODULE ActionLedgerProofs --------------------------
(***************************************************************************)
(* Theorems about ActionLedger for every set of runs, requests,            *)
(* principals, policies and owners and every value of the timers.          *)
(***************************************************************************)
EXTENDS ActionLedger, SequenceTheorems, TLAPS

-----------------------------------------------------------------------------
(* What one or two events appended to a trail do to it                     *)

LEMMA ConcatShort ==
  ASSUME NEW a, NEW b
  PROVE  <<a>> \o <<b>> = <<a, b>> /\ << >> \o <<b>> = <<b>>
  <1> DEFINE S == {a, b}
             t == <<b>>
  <1>1. <<a>> \in Seq(S) /\ t \in Seq(S) /\ <<a, b>> \in Seq(S)
    OBVIOUS
  <1>2. <<a>> \o <<b>> = <<a, b>>
    <2>1. /\ Len(<<a>> \o <<b>>) = 2
          /\ (<<a>> \o <<b>>)[1] = a
          /\ (<<a>> \o <<b>>)[2] = b
          /\ <<a>> \o <<b>> \in Seq(S)
      BY <1>1, ConcatProperties
    <2>2. /\ Len(<<a, b>>) = 2
          /\ <<a, b>>[1] = a
          /\ <<a, b>>[2] = b
      OBVIOUS
    <2>3. ASSUME NEW u \in Seq(S), NEW v \in Seq(S), Len(u) = 2, Len(v) = 2,
                 u[1] = v[1], u[2] = v[2]
          PROVE  u = v
      <3>1. \A i \in 1..Len(u) : u[i] = v[i]
        BY <2>3
      <3> QED
        BY <2>3, <3>1, SeqEqual
    <2> QED
      BY <1>1, <2>1, <2>2, <2>3
  <1>3. << >> \o t = t
    <2> HIDE DEF t
    <2> QED
      BY <1>1, ConcatEmptySeq
  <1> QED
    BY <1>2, <1>3

(* The last element after appending is the last one appended. *)
LEMMA LastConcat ==
  ASSUME NEW S, NEW s \in Seq(S), NEW t \in Seq(S), t # << >>
  PROVE  /\ s \o t # << >>
         /\ (s \o t)[Len(s \o t)] = t[Len(t)]
  <1>1. Len(t) \in Nat \ {0}
    BY EmptySeq
  <1>2. Len(s \o t) = Len(s) + Len(t) /\ Len(s) \in Nat
    BY ConcatProperties, LenProperties
  <1>3. (s \o t)[Len(s) + Len(t)] = t[Len(t)]
    BY <1>1, <1>2, ConcatProperties
  <1>4. s \o t # << >>
    BY <1>1, <1>2
  <1> QED
    BY <1>2, <1>3, <1>4

LEMMA LastOne ==
  ASSUME NEW S, NEW s \in Seq(S), NEW a \in S
  PROVE  /\ s \o <<a>> # << >>
         /\ (s \o <<a>>)[Len(s \o <<a>>)] = a
  <1>1. <<a>> \in Seq(S) /\ <<a>> # << >> /\ Len(<<a>>) = 1 /\ <<a>>[1] = a
    OBVIOUS
  <1> QED
    BY <1>1, LastConcat

LEMMA LastTwo ==
  ASSUME NEW S, NEW s \in Seq(S), NEW a \in S, NEW b \in S
  PROVE  /\ s \o <<a, b>> # << >>
         /\ (s \o <<a, b>>)[Len(s \o <<a, b>>)] = b
  <1>1. /\ <<a, b>> \in Seq(S)
        /\ <<a, b>> # << >>
        /\ Len(<<a, b>>) = 2
        /\ <<a, b>>[2] = b
    OBVIOUS
  <1> QED
    BY <1>1, LastConcat

(* What appending one element leaves alone and what it adds. *)
LEMMA AppendOne ==
  ASSUME NEW S, NEW s \in Seq(S), NEW a \in S
  PROVE  /\ s \o <<a>> \in Seq(S)
         /\ s \o <<a>> # << >>
         /\ Len(s \o <<a>>) = Len(s) + 1
         /\ DOMAIN (s \o <<a>>) = 1..(Len(s) + 1)
         /\ \A i \in 1..Len(s) : (s \o <<a>>)[i] = s[i]
         /\ (s \o <<a>>)[Len(s) + 1] = a
         /\ Len(s) \in Nat
         /\ DOMAIN s = 1..Len(s)
  <1>1. <<a>> \in Seq(S) /\ Len(<<a>>) = 1 /\ <<a>>[1] = a
    OBVIOUS
  <1>2. /\ s \o <<a>> \in Seq(S)
        /\ Len(s \o <<a>>) = Len(s) + 1
        /\ \A i \in 1..Len(s) : (s \o <<a>>)[i] = s[i]
        /\ Len(s) \in Nat
        /\ DOMAIN s = 1..Len(s)
    BY <1>1, ConcatProperties, LenProperties
  <1>3. DOMAIN (s \o <<a>>) = 1..(Len(s) + 1)
    BY <1>2, LenProperties
  <1> QED
    BY <1>2, <1>3, LastOne

(* Appending two elements is appending the one, then the other. *)
LEMMA AppendTwo ==
  ASSUME NEW S, NEW s \in Seq(S), NEW a \in S, NEW b \in S
  PROVE  s \o <<a, b>> = (s \o <<a>>) \o <<b>>
  <1>1. <<a>> \in Seq(S) /\ <<b>> \in Seq(S)
    OBVIOUS
  <1>2. (s \o <<a>>) \o <<b>> = s \o (<<a>> \o <<b>>)
    BY <1>1, ConcatAssociative
  <1> QED
    BY <1>2, ConcatShort

-----------------------------------------------------------------------------
LEMMA AppendTyped ==
  ASSUME NEW trail \in Seq(Events), NEW event \in Events
  PROVE  /\ Append(trail, event) \in Seq(Events)
         /\ Append(trail, event) = trail \o <<event>>
  OBVIOUS

(* One transaction on one run leaves every other run alone. *)
LEMMA CommitEffect ==
  ASSUME TypeOK, NEW r \in RunIds, NEW row \in Row,
         NEW appended \in Seq(Events), Commit(r, row, appended)
  PROVE  /\ runs' \in [RunIds -> Row \cup {NoRow}]
         /\ events' \in [RunIds -> Seq(Events)]
         /\ runs'[r] = row
         /\ events'[r] = events[r] \o appended
         /\ \A s \in RunIds \ {r} : runs'[s] = runs[s] /\ events'[s] = events[s]
  BY DEF TypeOK, Commit

LEMMA ExpireEffect ==
  ASSUME TypeOK, NEW S \in SUBSET RunIds, \A r \in S : Pending(r),
         ExpireApproval(S)
  PROVE  TypeOK'
  <1>1. \A r \in S : /\ runs[r] \in Row
                     /\ approvals[r] \in Approval
    BY DEF TypeOK, Pending, NoRow, NoApproval
  <1>2. \A r \in S : [runs[r] EXCEPT !.status = "approval_expired"] \in Row
    BY <1>1 DEF Row, ActionStatus, Terminal
  <1>3. \A r \in S :
          [approvals[r] EXCEPT !.status = "approval_expired"] \in Approval
    BY <1>1 DEF Approval
  <1>4. Plain("approval.expired") \in Events
    BY DEF Plain, Event, Events, EventType
  <1>5. \A r \in RunIds : events[r] \in Seq(Events)
    BY DEF TypeOK
  <1>6. events' \in [RunIds -> Seq(Events)]
    <2>1. \A r \in RunIds : Append(events[r], Plain("approval.expired")) \in Seq(Events)
      BY <1>4, <1>5, AppendTyped
    <2> QED
      BY <2>1, <1>5 DEF ExpireApproval
  <1> QED
    BY <1>2, <1>3, <1>6 DEF TypeOK, ExpireApproval

LEMMA MarkExpiredEffect ==
  ASSUME TypeOK, NEW S \in SUBSET RunIds,
         \A r \in S : runs[r].status = "executing",
         MarkExpiredExecution(S)
  PROVE  TypeOK'
  <1>1. \A r \in S : runs[r] \in Row
    BY DEF TypeOK, NoRow
  <1>2. \A r \in S : [runs[r] EXCEPT !.status = "unknown", !.owner = None,
                                     !.lease = None] \in Row
    BY <1>1 DEF Row, ActionStatus, Terminal
  <1>3. Plain("tool.execution.lease_expired") \in Events
    BY DEF Plain, Event, Events, EventType
  <1>4. \A r \in RunIds : events[r] \in Seq(Events)
    BY DEF TypeOK
  <1>5. events' \in [RunIds -> Seq(Events)]
    <2>1. \A r \in RunIds : Append(events[r], Plain("tool.execution.lease_expired")) \in Seq(Events)
      BY <1>3, <1>4, AppendTyped
    <2> QED
      BY <2>1, <1>4 DEF MarkExpiredExecution
  <1> QED
    BY <1>2, <1>5 DEF TypeOK, MarkExpiredExecution

-----------------------------------------------------------------------------
(* Type correctness, one lemma per operation.                              *)

LEMMA PlainTyped ==
  ASSUME NEW type \in EventType
  PROVE  Plain(type) \in Events
  BY DEF Plain, Event, Events

LEMMA NoRowColumns ==
  /\ NoRow.status = "absent"
  /\ NoRow.owner = None
  /\ NoRow.lease = None
  /\ NoRow.request = None
  BY DEF NoRow

\* Every run with a status of the schema has a row of the schema.
LEMMA RowTyped ==
  ASSUME TypeOK, NEW r \in RunIds, runs[r].status # "absent"
  PROVE  runs[r] \in Row
  BY DEF TypeOK, NoRow

LEMMA CreateRunTyped ==
  ASSUME TypeOK, NEW r \in RunIds, NEW request \in Requests,
         CreateRun(r, request)
  PROVE  TypeOK'
  <1> DEFINE row == [NoRow EXCEPT !.request = request, !.status = "created"]
  <1>1. row \in Row
    BY DEF NoRow, Row, ActionStatus
  <1>2. <<Plain("run.created")>> \in Seq(Events)
    BY PlainTyped DEF EventType
  <1>3. Commit(r, row, <<Plain("run.created")>>)
    BY DEF CreateRun
  <1> HIDE DEF row
  <1> QED
    BY <1>1, <1>2, <1>3, CommitEffect DEF TypeOK, CreateRun

LEMMA RecordDuplicateTyped ==
  ASSUME TypeOK, NEW r \in RunIds, RecordDuplicate(r)
  PROVE  TypeOK'
  <1>1. runs[r] \in Row
    BY DEF TypeOK, RecordDuplicate
  <1>2. [runs[r] EXCEPT !.duplicates = @ + 1] \in Row
    BY <1>1 DEF Row
  <1> QED
    BY <1>2 DEF TypeOK, RecordDuplicate

LEMMA RecordPolicyDecisionTyped ==
  ASSUME TypeOK, NEW r \in RunIds, NEW outcome \in PolicyOutcome,
         NEW policy \in Policies, NEW t \in Nat,
         RecordPolicyDecision(r, outcome, policy, t)
  PROVE  TypeOK'
  <1> DEFINE checked == Event("policy.checked", outcome, policy)
             decided(status) ==
               [runs[r] EXCEPT !.status = status, !.policy = policy]
  <1>1. runs[r] \in Row
    BY RowTyped DEF RecordPolicyDecision
  <1>2. /\ decided("created") \in Row
        /\ decided("denied") \in Row
        /\ decided("pending_approval") \in Row
    BY <1>1 DEF Row, ActionStatus, Terminal
  <1>3. checked \in Events
    BY DEF Event, Events, EventType
  <1>4. /\ <<checked>> \in Seq(Events)
        /\ <<checked, Plain("run.denied")>> \in Seq(Events)
        /\ <<checked, Plain("approval.requested")>> \in Seq(Events)
    <2> HIDE DEF checked
    <2> QED
      BY <1>3, PlainTyped DEF EventType
  <1>5. NewApproval(r, policy, t) \in Approval
    BY <1>1, LedgerAssumption DEF NewApproval, Approval, Row
  <1>6. CASE outcome = "allow"
    <2>1. Commit(r, decided("created"), <<checked>>)
      BY <1>6 DEF RecordPolicyDecision
    <2> HIDE DEF checked, decided
    <2> QED
      BY <1>2, <1>4, <1>6, <2>1, CommitEffect DEF TypeOK, RecordPolicyDecision
  <1>7. CASE outcome = "deny"
    <2>1. Commit(r, decided("denied"), <<checked, Plain("run.denied")>>)
      BY <1>7 DEF RecordPolicyDecision
    <2> HIDE DEF checked, decided
    <2> QED
      BY <1>2, <1>4, <1>7, <2>1, CommitEffect DEF TypeOK, RecordPolicyDecision
  <1>8. CASE outcome = "approval_required"
    <2>1. Commit(r, decided("pending_approval"),
                 <<checked, Plain("approval.requested")>>)
      BY <1>8 DEF RecordPolicyDecision
    <2>2. approvals' = [approvals EXCEPT ![r] = NewApproval(r, policy, t)]
      BY <1>8 DEF RecordPolicyDecision
    <2>3. approvals' \in [RunIds -> Approval \cup {NoApproval}]
      BY <1>5, <2>2 DEF TypeOK
    <2> HIDE DEF checked, decided
    <2> QED
      BY <1>2, <1>4, <2>1, <2>3, CommitEffect DEF TypeOK, RecordPolicyDecision
  <1> QED
    BY <1>6, <1>7, <1>8 DEF PolicyOutcome

LEMMA DecideApprovalTyped ==
  ASSUME TypeOK, NEW r \in RunIds, NEW approved \in BOOLEAN,
         NEW principal \in Principals, NEW t \in Nat,
         DecideApproval(r, approved, principal, t)
  PROVE  TypeOK'
  <1> DEFINE status == IF approved THEN "approved" ELSE "rejected"
             type == IF approved THEN "approval.approved"
                                 ELSE "approval.rejected"
  <1>1. CASE Overdue(r, t)
    <2>1. Pending(r) /\ ExpireApproval({r})
      BY <1>1 DEF DecideApproval
    <2> QED
      BY <2>1, ExpireEffect
  <1>2. CASE ~Overdue(r, t)
    <2>1. /\ Commit(r, [runs[r] EXCEPT !.status = status],
                    <<Event(type, None, principal.actor)>>)
          /\ approvals' = [approvals EXCEPT
               ![r].status = status, ![r].approver = principal.actor]
          /\ clock' = clock
      BY <1>2 DEF DecideApproval
    <2>2. runs[r] \in Row /\ approvals[r] \in Approval
      BY DEF TypeOK, DecideApproval, Pending, NoRow, NoApproval
    <2>3. [runs[r] EXCEPT !.status = status] \in Row
      BY <2>2 DEF Row, ActionStatus, Terminal
    <2>4. Event(type, None, principal.actor) \in Events
      BY DEF Event, Events, EventType, Actors
    <2>5. <<Event(type, None, principal.actor)>> \in Seq(Events)
      BY <2>4
    <2>6. [approvals[r] EXCEPT !.status = status,
                               !.approver = principal.actor] \in Approval
      BY <2>2 DEF Approval, Actors
    <2>7. approvals' \in [RunIds -> Approval \cup {NoApproval}]
      BY <2>1, <2>6 DEF TypeOK
    <2> HIDE DEF status, type
    <2> QED
      BY <2>1, <2>3, <2>5, <2>7, CommitEffect DEF TypeOK
  <1> QED
    BY <1>1, <1>2

LEMMA ClaimExecutionTyped ==
  ASSUME TypeOK, NEW r \in RunIds, NEW owner \in Owners, NEW t \in Nat,
         ClaimExecution(r, owner, t)
  PROVE  TypeOK'
  <1>1. CASE LeaseExpired(r, t) /\ MarkExpiredExecution({r})
    BY <1>1, MarkExpiredEffect DEF LeaseExpired
  <1>2. CASE ~(LeaseExpired(r, t) /\ MarkExpiredExecution({r}))
    <2> DEFINE row == [runs[r] EXCEPT !.status = "executing", !.owner = owner,
                                      !.lease = t + LeaseSeconds,
                                      !.attempt = @ + 1]
               resumed == IF runs[r].status = "approved"
                          THEN <<Plain("run.resumed")>> ELSE << >>
               appended == resumed \o <<Plain("tool.execution.started")>>
    <2>1. /\ Claimable(r)
          /\ Commit(r, row, appended)
          /\ UNCHANGED <<approvals, clock>>
      BY <1>2 DEF ClaimExecution
    <2>2. runs[r] \in Row
      BY <2>1, RowTyped DEF Claimable
    <2>3. row \in Row
      <3>1. /\ t + LeaseSeconds \in Nat
            /\ runs[r].attempt + 1 \in Nat
        BY <2>2, LedgerAssumption DEF Row
      <3>2. "executing" \in ActionStatus
        BY DEF ActionStatus
      <3> QED
        BY <2>2, <3>1, <3>2 DEF Row
    <2>4. appended \in Seq(Events)
      <3>1. /\ Plain("run.resumed") \in Events
            /\ Plain("tool.execution.started") \in Events
        BY PlainTyped DEF EventType
      <3>2. /\ resumed \in Seq(Events)
            /\ <<Plain("tool.execution.started")>> \in Seq(Events)
        BY <3>1
      <3> HIDE DEF resumed
      <3> QED
        BY <3>2
    <2> HIDE DEF row, appended
    <2> QED
      BY <2>1, <2>3, <2>4, CommitEffect DEF TypeOK
  <1> QED
    BY <1>1, <1>2

LEMMA HeartbeatExecutionTyped ==
  ASSUME TypeOK, NEW r \in RunIds, NEW owner \in Owners, NEW t \in Nat,
         HeartbeatExecution(r, owner, t)
  PROVE  TypeOK'
  <1>1. runs[r] \in Row
    BY RowTyped DEF HeartbeatExecution
  <1>2. [runs[r] EXCEPT !.lease = t + LeaseSeconds] \in Row
    BY <1>1, LedgerAssumption DEF Row
  <1> QED
    BY <1>2 DEF TypeOK, HeartbeatExecution

LEMMA FinishExecutionTyped ==
  ASSUME TypeOK, NEW r \in RunIds, NEW owner \in Owners,
         NEW status \in ActionStatus, NEW appended \in Seq(Events),
         FinishExecution(r, owner, status, appended)
  PROVE  TypeOK'
  <1> DEFINE row == [runs[r] EXCEPT !.status = status, !.owner = None,
                                    !.lease = None]
  <1>1. runs[r] \in Row
    BY RowTyped DEF FinishExecution
  <1>2. row \in Row
    BY <1>1 DEF Row
  <1>3. Commit(r, row, appended)
    BY DEF FinishExecution
  <1> HIDE DEF row
  <1> QED
    BY <1>2, <1>3, CommitEffect DEF TypeOK, FinishExecution

\* The three ways an owner may close its execution.
LEMMA FinishersTyped ==
  ASSUME TypeOK, NEW r \in RunIds, NEW owner \in Owners,
         \/ CompleteExecution(r, owner)
         \/ FailExecution(r, owner)
         \/ MarkExecutionUnknown(r, owner)
  PROVE  TypeOK'
  <1>1. /\ Plain("tool.execution.succeeded") \in Events
        /\ Plain("run.completed") \in Events
        /\ Plain("tool.execution.failed") \in Events
        /\ Plain("tool.execution.uncertain") \in Events
    BY PlainTyped DEF EventType
  <1>2. {"completed", "failed", "unknown"} \subseteq ActionStatus
    BY DEF ActionStatus, Terminal
  <1>3. CASE CompleteExecution(r, owner)
    <2>1. <<Plain("tool.execution.succeeded"), Plain("run.completed")>>
            \in Seq(Events)
      BY <1>1
    <2> QED
      BY <1>2, <1>3, <2>1, FinishExecutionTyped DEF CompleteExecution
  <1>4. CASE FailExecution(r, owner)
    <2>1. <<Plain("tool.execution.failed")>> \in Seq(Events)
      BY <1>1
    <2> QED
      BY <1>2, <1>4, <2>1, FinishExecutionTyped DEF FailExecution
  <1>5. CASE MarkExecutionUnknown(r, owner)
    <2>1. <<Plain("tool.execution.uncertain")>> \in Seq(Events)
      BY <1>1
    <2> QED
      BY <1>2, <1>5, <2>1, FinishExecutionTyped DEF MarkExecutionUnknown
  <1> QED
    BY <1>3, <1>4, <1>5

LEMMA ReconcileRunTyped ==
  ASSUME TypeOK, NEW r \in RunIds, NEW status \in {"completed", "failed"},
         NEW principal \in Principals, ReconcileRun(r, status, principal)
  PROVE  TypeOK'
  <1> DEFINE row == [runs[r] EXCEPT !.status = status]
             appended == <<Reconciled(status, principal)>>
  <1>1. runs[r] \in Row
    BY RowTyped DEF ReconcileRun, Reconcilable
  <1>2. row \in Row
    BY <1>1 DEF Row, ActionStatus, Terminal
  <1>3. appended \in Seq(Events)
    BY DEF Reconciled, Event, Events, EventType, Actors
  <1>4. Commit(r, row, appended)
    BY DEF ReconcileRun
  <1> HIDE DEF row, appended
  <1> QED
    BY <1>2, <1>3, <1>4, CommitEffect DEF TypeOK, ReconcileRun

LEMMA ApplyProviderObservationTyped ==
  ASSUME TypeOK, NEW r \in RunIds, NEW outcome \in ProviderOutcome,
         NEW principal \in Principals,
         ApplyProviderObservation(r, outcome, principal)
  PROVE  TypeOK'
  <1> DEFINE status == IF outcome = "committed" THEN "completed" ELSE "failed"
             observed == Event("provider.reconciliation.observed", outcome,
                               principal.actor)
             settled == [runs[r] EXCEPT !.status = status]
             appended == <<observed, Reconciled(status, principal)>>
  <1>1. runs[r] \in Row
    BY RowTyped DEF ApplyProviderObservation, Reconcilable
  <1>2. settled \in Row
    BY <1>1 DEF Row, ActionStatus, Terminal
  <1>3. /\ observed \in Events
        /\ Reconciled(status, principal) \in Events
    BY DEF Reconciled, Event, Events, EventType, Actors
  <1>4. <<observed>> \in Seq(Events) /\ appended \in Seq(Events)
    <2> HIDE DEF observed, status
    <2> QED
      BY <1>3
  <1>5. \/ Commit(r, runs[r], <<observed>>)
        \/ Commit(r, settled, appended)
    BY DEF ApplyProviderObservation
  <1> HIDE DEF settled, appended, observed
  <1> QED
    BY <1>1, <1>2, <1>4, <1>5, CommitEffect
       DEF TypeOK, ApplyProviderObservation

LEMMA SampledNat ==
  ASSUME TypeOK, NEW t \in SampledNow
  PROVE  t \in Nat
  BY DEF SampledNow, TypeOK

(* Every operation keeps the columns of the schema. *)
LEMMA TypeStep ==
  ASSUME TypeOK, [Next]_vars
  PROVE  TypeOK'
  <1>1. CASE UNCHANGED vars
    BY <1>1 DEF vars, TypeOK
  <1>2. CASE Tick
    BY <1>2 DEF Tick, TypeOK
  <1>3. ASSUME NEW scope \in Scopes, NEW t \in SampledNow,
               ExpireApprovals(scope, t)
        PROVE  TypeOK'
    BY <1>3, ExpireEffect DEF ExpireApprovals
  <1>4. ASSUME NEW scope \in Scopes, NEW t \in SampledNow,
               RecoverExpiredExecutions(scope, t)
        PROVE  TypeOK'
    BY <1>4, MarkExpiredEffect DEF RecoverExpiredExecutions, LeaseExpired
  <1>5. ASSUME NEW r \in RunIds, RecordDuplicate(r)
        PROVE  TypeOK'
    BY <1>5, RecordDuplicateTyped
  <1>6. ASSUME NEW r \in RunIds, NEW request \in Requests,
               CreateRun(r, request)
        PROVE  TypeOK'
    BY <1>6, CreateRunTyped
  <1>7. ASSUME NEW r \in RunIds, NEW owner \in Owners,
               \/ CompleteExecution(r, owner)
               \/ FailExecution(r, owner)
               \/ MarkExecutionUnknown(r, owner)
        PROVE  TypeOK'
    BY <1>7, FinishersTyped
  <1>8. ASSUME NEW r \in RunIds, NEW principal \in Principals,
               NEW status \in {"completed", "failed"},
               ReconcileRun(r, status, principal)
        PROVE  TypeOK'
    BY <1>8, ReconcileRunTyped
  <1>9. ASSUME NEW r \in RunIds, NEW principal \in Principals,
               NEW outcome \in ProviderOutcome,
               ApplyProviderObservation(r, outcome, principal)
        PROVE  TypeOK'
    BY <1>9, ApplyProviderObservationTyped
  <1>10. ASSUME NEW r \in RunIds, NEW t \in SampledNow,
                NEW outcome \in PolicyOutcome, NEW policy \in Policies,
                RecordPolicyDecision(r, outcome, policy, t)
         PROVE  TypeOK'
    BY <1>10, RecordPolicyDecisionTyped, SampledNat
  <1>11. ASSUME NEW r \in RunIds, NEW t \in SampledNow,
                NEW approved \in BOOLEAN, NEW principal \in Principals,
                DecideApproval(r, approved, principal, t)
         PROVE  TypeOK'
    BY <1>11, DecideApprovalTyped, SampledNat
  <1>12. ASSUME NEW r \in RunIds, NEW t \in SampledNow, NEW owner \in Owners,
                ClaimExecution(r, owner, t) \/ HeartbeatExecution(r, owner, t)
         PROVE  TypeOK'
    BY <1>12, ClaimExecutionTyped, HeartbeatExecutionTyped, SampledNat
  <1> QED
    BY <1>1, <1>2, <1>3, <1>4, <1>5, <1>6, <1>7, <1>8, <1>9, <1>10, <1>11,
       <1>12 DEF Next

(* The tables keep the columns and values of the schema whatever the callers *)
(* do.                                                                       *)
THEOREM TypeCorrect == Spec => []TypeOK
  <1>1. Init => TypeOK
    BY LedgerAssumption DEF Init, TypeOK
  <1>2. TypeOK /\ [Next]_vars => TypeOK'
    BY TypeStep
  <1> QED
    BY <1>1, <1>2, PTL DEF Spec

-----------------------------------------------------------------------------
(* What a step does to one run.  Every transaction but a sweep touches one  *)
(* run, and a sweep does the same to each run it finds; so the invariants   *)
(* that speak of one run follow from these ten cases.  Where a step compared *)
(* a deadline with the time it sampled, the case says what that means for   *)
(* the clock now.                                                           *)

Same(r) == approvals'[r] = approvals[r]

Wrote(r, row, appended) ==
  /\ runs'[r] = row
  /\ events'[r] = events[r] \o appended

\* A duplicate, a renewed lease, or a step of another run.
QuietStep(r) ==
  /\ Same(r)
  /\ events'[r] = events[r]
  /\ \/ runs'[r] = runs[r]
     \/ /\ runs[r] \in Row
        /\ \E n \in Nat : runs'[r] = [runs[r] EXCEPT !.duplicates = n]
     \/ /\ runs[r].status = "executing"
        /\ \E n \in Nat : runs'[r] = [runs[r] EXCEPT !.lease = n]

CreateStep(r) ==
  /\ Same(r)
  /\ runs[r] = NoRow
  /\ \E request \in Requests :
       Wrote(r, [NoRow EXCEPT !.request = request, !.status = "created"],
             <<Plain("run.created")>>)

AllowStep(r) ==
  /\ Same(r)
  /\ runs[r].status = "created"
  /\ \E policy \in Policies :
       Wrote(r, [runs[r] EXCEPT !.status = "created", !.policy = policy],
             <<Event("policy.checked", "allow", policy)>>)

DenyStep(r) ==
  /\ Same(r)
  /\ runs[r].status = "created"
  /\ \E policy \in Policies :
       Wrote(r, [runs[r] EXCEPT !.status = "denied", !.policy = policy],
             <<Event("policy.checked", "deny", policy), Plain("run.denied")>>)

AskStep(r) ==
  /\ runs[r].status = "created"
  /\ \E policy \in Policies, t \in Nat :
       /\ Wrote(r, [runs[r] EXCEPT !.status = "pending_approval",
                                   !.policy = policy],
                <<Event("policy.checked", "approval_required", policy),
                  Plain("approval.requested")>>)
       /\ approvals'[r] = NewApproval(r, policy, t)

DecideStep(r) ==
  /\ Pending(r)
  /\ \E principal \in Principals, approved \in BOOLEAN :
       LET status == IF approved THEN "approved" ELSE "rejected"
           type == IF approved THEN "approval.approved"
                               ELSE "approval.rejected"
       IN  /\ Eligible(r, principal)
           /\ clock < approvals[r].expires + BusyTimeout
           /\ Wrote(r, [runs[r] EXCEPT !.status = status],
                    <<Event(type, None, principal.actor)>>)
           /\ approvals'[r] = [approvals[r] EXCEPT
                 !.status = status, !.approver = principal.actor]

ExpireStep(r) ==
  /\ Pending(r)
  /\ Wrote(r, [runs[r] EXCEPT !.status = "approval_expired"],
           <<Plain("approval.expired")>>)
  /\ approvals'[r] = [approvals[r] EXCEPT !.status = "approval_expired"]

ClaimStep(r) ==
  /\ Same(r)
  /\ Claimable(r)
  /\ \E owner \in Owners, n \in Nat :
       Wrote(r, [runs[r] EXCEPT !.status = "executing", !.owner = owner,
                                !.lease = n, !.attempt = @ + 1],
             IF runs[r].status = "approved"
             THEN <<Plain("run.resumed"), Plain("tool.execution.started")>>
             ELSE <<Plain("tool.execution.started")>>)

CloseStep(r) ==
  /\ Same(r)
  /\ runs[r].status = "executing"
  /\ LET closed(status) == [runs[r] EXCEPT !.status = status, !.owner = None,
                                           !.lease = None]
     IN  \/ Wrote(r, closed("completed"),
                  <<Plain("tool.execution.succeeded"), Plain("run.completed")>>)
         \/ Wrote(r, closed("failed"), <<Plain("tool.execution.failed")>>)
         \/ Wrote(r, closed("unknown"), <<Plain("tool.execution.uncertain")>>)
         \/ /\ runs[r].lease <= clock
            /\ Wrote(r, closed("unknown"),
                     <<Plain("tool.execution.lease_expired")>>)

ReconcileStep(r) ==
  /\ Same(r)
  /\ runs[r].status = "unknown"
  /\ \E principal \in Principals, outcome \in ProviderOutcome,
        status \in {"completed", "failed"} :
       LET observed == Event("provider.reconciliation.observed", outcome,
                             principal.actor)
           settled == [runs[r] EXCEPT !.status = status]
       IN  /\ principal.tenant = runs[r].request.tenant
           /\ \/ Wrote(r, settled, <<Reconciled(status, principal)>>)
              \/ Wrote(r, settled, <<observed, Reconciled(status, principal)>>)
              \/ Wrote(r, runs[r], <<observed>>)

LocalStep(r) ==
  \/ QuietStep(r)   \/ CreateStep(r) \/ AllowStep(r) \/ DenyStep(r)
  \/ AskStep(r)     \/ DecideStep(r) \/ ExpireStep(r)
  \/ ClaimStep(r)   \/ CloseStep(r)  \/ ReconcileStep(r)

(* A transaction on run r is quiet for every other run. *)
LEMMA OthersQuiet ==
  ASSUME TypeOK, NEW r \in RunIds, NEW row, NEW appended,
         Commit(r, row, appended), NEW s \in RunIds \ {r}, Same(s)
  PROVE  LocalStep(s)
  BY DEF TypeOK, Commit, LocalStep, QuietStep

LEMMA CommitWrote ==
  ASSUME TypeOK, NEW r \in RunIds, NEW row, NEW appended,
         Commit(r, row, appended)
  PROVE  Wrote(r, row, appended)
  BY DEF TypeOK, Commit, Wrote

LEMMA ExpireLocal ==
  ASSUME TypeOK, NEW S \in SUBSET RunIds, \A r \in S : Pending(r),
         ExpireApproval(S), NEW s \in RunIds
  PROVE  LocalStep(s)
  <1>1. events[s] \in Seq(Events)
    BY DEF TypeOK
  <1>2. Append(events[s], Plain("approval.expired")) =
          events[s] \o <<Plain("approval.expired")>>
    BY <1>1, AppendTyped, PlainTyped DEF EventType
  <1>3. CASE s \in S
    <2>1. ExpireStep(s)
      BY <1>2, <1>3 DEF ExpireApproval, ExpireStep, Wrote
    <2> QED
      BY <2>1 DEF LocalStep
  <1>4. CASE s \notin S
    BY <1>4 DEF ExpireApproval, LocalStep, QuietStep, Same
  <1> QED
    BY <1>3, <1>4

LEMMA MarkExpiredLocal ==
  ASSUME TypeOK, NEW t \in SampledNow, NEW S \in SUBSET RunIds,
         \A r \in S : LeaseExpired(r, t),
         MarkExpiredExecution(S), NEW s \in RunIds
  PROVE  LocalStep(s)
  <1>1. events[s] \in Seq(Events)
    BY DEF TypeOK
  <1>2. Append(events[s], Plain("tool.execution.lease_expired")) =
          events[s] \o <<Plain("tool.execution.lease_expired")>>
    BY <1>1, AppendTyped, PlainTyped DEF EventType
  <1>3. CASE s \in S
    <2>1. runs[s].status = "executing" /\ runs[s].lease # None
      BY <1>3 DEF LeaseExpired
    <2>2. runs[s].lease <= clock
      <3>1. runs[s].lease \in Nat
        BY <2>1, RowTyped DEF Row
      <3> QED
        BY <1>3, <3>1, SampledNat DEF LeaseExpired, SampledNow, TypeOK
    <2>3. CloseStep(s)
      BY <1>2, <1>3, <2>1, <2>2 DEF MarkExpiredExecution, CloseStep, Wrote, Same
    <2> QED
      BY <2>3 DEF LocalStep
  <1>4. CASE s \notin S
    BY <1>4 DEF MarkExpiredExecution, LocalStep, QuietStep, Same
  <1> QED
    BY <1>3, <1>4

LEMMA CreateRunLocal ==
  ASSUME TypeOK, NEW r \in RunIds, NEW request \in Requests,
         CreateRun(r, request), NEW s \in RunIds
  PROVE  LocalStep(s)
  <1>1. CASE s = r
    <2>1. CreateStep(r)
      BY CommitWrote DEF CreateRun, CreateStep, Same
    <2> QED
      BY <1>1, <2>1 DEF LocalStep
  <1>2. CASE s # r
    BY <1>2, OthersQuiet DEF CreateRun, Same
  <1> QED
    BY <1>1, <1>2

LEMMA RecordDuplicateLocal ==
  ASSUME TypeOK, NEW r \in RunIds, RecordDuplicate(r), NEW s \in RunIds
  PROVE  LocalStep(s)
  <1>1. runs[r] \in Row
    BY DEF TypeOK, RecordDuplicate
  <1>2. runs[r].duplicates + 1 \in Nat
    BY <1>1 DEF Row
  <1>3. QuietStep(s)
    BY <1>1, <1>2 DEF TypeOK, RecordDuplicate, QuietStep, Same
  <1> QED
    BY <1>3 DEF LocalStep

LEMMA HeartbeatExecutionLocal ==
  ASSUME TypeOK, NEW r \in RunIds, NEW owner \in Owners, NEW t \in Nat,
         HeartbeatExecution(r, owner, t), NEW s \in RunIds
  PROVE  LocalStep(s)
  <1>1. t + LeaseSeconds \in Nat
    BY LedgerAssumption
  <1>2. QuietStep(s)
    BY <1>1 DEF TypeOK, HeartbeatExecution, QuietStep, Same
  <1> QED
    BY <1>2 DEF LocalStep

LEMMA RecordPolicyDecisionLocal ==
  ASSUME TypeOK, NEW r \in RunIds, NEW outcome \in PolicyOutcome,
         NEW policy \in Policies, NEW t \in Nat,
         RecordPolicyDecision(r, outcome, policy, t), NEW s \in RunIds
  PROVE  LocalStep(s)
  <1> DEFINE checked == Event("policy.checked", outcome, policy)
             decided(status) ==
               [runs[r] EXCEPT !.status = status, !.policy = policy]
  <1>1. runs[r].status = "created"
    BY DEF RecordPolicyDecision
  <1>2. CASE outcome = "allow"
    <2>1. /\ Commit(r, decided("created"), <<checked>>)
          /\ UNCHANGED approvals
      BY <1>2 DEF RecordPolicyDecision
    <2>2. AllowStep(r)
      BY <1>1, <1>2, <2>1, CommitWrote DEF AllowStep, Same
    <2> QED
      BY <2>1, <2>2, OthersQuiet DEF LocalStep, Same
  <1>3. CASE outcome = "deny"
    <2>1. /\ Commit(r, decided("denied"), <<checked, Plain("run.denied")>>)
          /\ UNCHANGED approvals
      BY <1>3 DEF RecordPolicyDecision
    <2>2. DenyStep(r)
      BY <1>1, <1>3, <2>1, CommitWrote DEF DenyStep, Same
    <2> QED
      BY <2>1, <2>2, OthersQuiet DEF LocalStep, Same
  <1>4. CASE outcome = "approval_required"
    <2>1. /\ Commit(r, decided("pending_approval"),
                    <<checked, Plain("approval.requested")>>)
          /\ approvals' = [approvals EXCEPT ![r] = NewApproval(r, policy, t)]
      BY <1>4 DEF RecordPolicyDecision
    <2>2. /\ approvals'[r] = NewApproval(r, policy, t)
          /\ \A u \in RunIds \ {r} : Same(u)
      BY <2>1 DEF TypeOK, Same
    <2>3. AskStep(r)
      BY <1>1, <1>4, <2>1, <2>2, CommitWrote DEF AskStep
    <2> QED
      BY <2>1, <2>2, <2>3, OthersQuiet DEF LocalStep
  <1> QED
    BY <1>2, <1>3, <1>4 DEF PolicyOutcome

LEMMA DecideApprovalLocal ==
  ASSUME TypeOK, NEW r \in RunIds, NEW approved \in BOOLEAN,
         NEW principal \in Principals, NEW t \in SampledNow,
         DecideApproval(r, approved, principal, t), NEW s \in RunIds
  PROVE  LocalStep(s)
  <1> DEFINE status == IF approved THEN "approved" ELSE "rejected"
             type == IF approved THEN "approval.approved"
                                 ELSE "approval.rejected"
             row == [runs[r] EXCEPT !.status = status]
             appended == <<Event(type, None, principal.actor)>>
  <1>1. CASE Overdue(r, t)
    <2>1. Pending(r) /\ ExpireApproval({r})
      BY <1>1 DEF DecideApproval
    <2> QED
      BY <2>1, ExpireLocal
  <1>2. CASE ~Overdue(r, t)
    <2>1. /\ Pending(r)
          /\ Eligible(r, principal)
          /\ Commit(r, row, appended)
          /\ approvals' = [approvals EXCEPT
               ![r].status = status, ![r].approver = principal.actor]
      BY <1>2 DEF DecideApproval
    <2>2. /\ approvals'[r] = [approvals[r] EXCEPT
                !.status = status, !.approver = principal.actor]
          /\ \A u \in RunIds \ {r} : Same(u)
      BY <2>1 DEF TypeOK, Same
    <2>3. Wrote(r, row, appended)
      BY <2>1, CommitWrote
    <2>4. clock < approvals[r].expires + BusyTimeout
      <3>1. approvals[r].expires \in Nat
        BY <2>1 DEF TypeOK, Pending, Approval, NoApproval
      <3> QED
        BY <1>2, <3>1, SampledNat, LedgerAssumption
           DEF Overdue, SampledNow, TypeOK
    <2>5. DecideStep(r)
      BY <2>1, <2>2, <2>3, <2>4 DEF DecideStep
    <2> QED
      BY <2>1, <2>2, <2>5, OthersQuiet DEF LocalStep
  <1> QED
    BY <1>1, <1>2

LEMMA ClaimExecutionLocal ==
  ASSUME TypeOK, NEW r \in RunIds, NEW owner \in Owners, NEW t \in SampledNow,
         ClaimExecution(r, owner, t), NEW s \in RunIds
  PROVE  LocalStep(s)
  <1>1. CASE LeaseExpired(r, t) /\ MarkExpiredExecution({r})
    BY <1>1, MarkExpiredLocal
  <1>2. CASE ~(LeaseExpired(r, t) /\ MarkExpiredExecution({r}))
    <2> DEFINE row == [runs[r] EXCEPT !.status = "executing", !.owner = owner,
                                      !.lease = t + LeaseSeconds,
                                      !.attempt = @ + 1]
               resumed == IF runs[r].status = "approved"
                          THEN <<Plain("run.resumed")>> ELSE << >>
               started == <<Plain("tool.execution.started")>>
    <2>1. /\ Claimable(r)
          /\ Commit(r, row, resumed \o started)
          /\ UNCHANGED <<approvals, clock>>
      BY <1>2 DEF ClaimExecution
    <2>2. t + LeaseSeconds \in Nat
      BY LedgerAssumption, SampledNat
    <2>3. resumed \o started =
            IF runs[r].status = "approved"
            THEN <<Plain("run.resumed"), Plain("tool.execution.started")>>
            ELSE <<Plain("tool.execution.started")>>
      BY ConcatShort
    <2>4. Wrote(r, row, resumed \o started)
      BY <2>1, CommitWrote
    <2>5. ClaimStep(r)
      BY <2>1, <2>2, <2>3, <2>4 DEF ClaimStep, Same
    <2> QED
      BY <2>1, <2>5, OthersQuiet DEF LocalStep, Same
  <1> QED
    BY <1>1, <1>2

LEMMA FinishersLocal ==
  ASSUME TypeOK, NEW r \in RunIds, NEW owner \in Owners,
         \/ CompleteExecution(r, owner)
         \/ FailExecution(r, owner)
         \/ MarkExecutionUnknown(r, owner),
         NEW s \in RunIds
  PROVE  LocalStep(s)
  <1>1. CASE s = r
    <2>1. CloseStep(r)
      BY CommitWrote DEF CompleteExecution, FailExecution,
         MarkExecutionUnknown, FinishExecution, CloseStep, Same
    <2> QED
      BY <1>1, <2>1 DEF LocalStep
  <1>2. CASE s # r
    BY <1>2, OthersQuiet DEF CompleteExecution, FailExecution,
       MarkExecutionUnknown, FinishExecution, Same
  <1> QED
    BY <1>1, <1>2

LEMMA ReconcileRunLocal ==
  ASSUME TypeOK, NEW r \in RunIds, NEW status \in {"completed", "failed"},
         NEW principal \in Principals, ReconcileRun(r, status, principal),
         NEW s \in RunIds
  PROVE  LocalStep(s)
  <1>1. CASE s = r
    <2>1. Wrote(r, [runs[r] EXCEPT !.status = status],
                <<Reconciled(status, principal)>>)
      BY CommitWrote DEF ReconcileRun
    <2>2. ReconcileStep(r)
      BY <2>1 DEF ReconcileRun, Reconcilable, ReconcileStep, Same,
         ProviderOutcome
    <2> QED
      BY <1>1, <2>2 DEF LocalStep
  <1>2. CASE s # r
    BY <1>2, OthersQuiet DEF ReconcileRun, Same
  <1> QED
    BY <1>1, <1>2

LEMMA ApplyProviderObservationLocal ==
  ASSUME TypeOK, NEW r \in RunIds, NEW outcome \in ProviderOutcome,
         NEW principal \in Principals,
         ApplyProviderObservation(r, outcome, principal), NEW s \in RunIds
  PROVE  LocalStep(s)
  <1> DEFINE status == IF outcome = "committed" THEN "completed" ELSE "failed"
             observed == Event("provider.reconciliation.observed", outcome,
                               principal.actor)
             settled == [runs[r] EXCEPT !.status = status]
  <1>1. /\ Reconcilable(r, principal)
        /\ UNCHANGED approvals
        /\ \/ Commit(r, runs[r], <<observed>>)
           \/ Commit(r, settled, <<observed, Reconciled(status, principal)>>)
    BY DEF ApplyProviderObservation
  <1>2. CASE s = r
    <2>1. \/ Wrote(r, runs[r], <<observed>>)
          \/ Wrote(r, settled, <<observed, Reconciled(status, principal)>>)
      BY <1>1, CommitWrote
    <2>2. status \in {"completed", "failed"}
      OBVIOUS
    <2>3. ReconcileStep(r)
      BY <1>1, <2>1, <2>2 DEF Reconcilable, ReconcileStep, Same
    <2> QED
      BY <1>2, <2>3 DEF LocalStep
  <1>3. CASE s # r
    BY <1>1, <1>3, OthersQuiet DEF Same
  <1> QED
    BY <1>2, <1>3

(* Whatever the step, each run takes one of the ten local steps. *)
LEMMA StepLocal ==
  ASSUME TypeOK, [Next]_vars, NEW s \in RunIds
  PROVE  LocalStep(s)
  <1>1. CASE UNCHANGED vars
    BY <1>1 DEF vars, LocalStep, QuietStep, Same
  <1>2. CASE Tick
    BY <1>2 DEF Tick, LocalStep, QuietStep, Same
  <1>3. ASSUME NEW scope \in Scopes, NEW t \in SampledNow,
               ExpireApprovals(scope, t)
        PROVE  LocalStep(s)
    BY <1>3, ExpireLocal DEF ExpireApprovals
  <1>4. ASSUME NEW scope \in Scopes, NEW t \in SampledNow,
               RecoverExpiredExecutions(scope, t)
        PROVE  LocalStep(s)
    BY <1>4, MarkExpiredLocal DEF RecoverExpiredExecutions
  <1>5. ASSUME NEW r \in RunIds, RecordDuplicate(r)
        PROVE  LocalStep(s)
    BY <1>5, RecordDuplicateLocal
  <1>6. ASSUME NEW r \in RunIds, NEW request \in Requests,
               CreateRun(r, request)
        PROVE  LocalStep(s)
    BY <1>6, CreateRunLocal
  <1>7. ASSUME NEW r \in RunIds, NEW owner \in Owners,
               \/ CompleteExecution(r, owner)
               \/ FailExecution(r, owner)
               \/ MarkExecutionUnknown(r, owner)
        PROVE  LocalStep(s)
    BY <1>7, FinishersLocal
  <1>8. ASSUME NEW r \in RunIds, NEW principal \in Principals,
               NEW status \in {"completed", "failed"},
               ReconcileRun(r, status, principal)
        PROVE  LocalStep(s)
    BY <1>8, ReconcileRunLocal
  <1>9. ASSUME NEW r \in RunIds, NEW principal \in Principals,
               NEW outcome \in ProviderOutcome,
               ApplyProviderObservation(r, outcome, principal)
        PROVE  LocalStep(s)
    BY <1>9, ApplyProviderObservationLocal
  <1>10. ASSUME NEW r \in RunIds, NEW t \in SampledNow,
                NEW outcome \in PolicyOutcome, NEW policy \in Policies,
                RecordPolicyDecision(r, outcome, policy, t)
         PROVE  LocalStep(s)
    BY <1>10, RecordPolicyDecisionLocal, SampledNat
  <1>11. ASSUME NEW r \in RunIds, NEW t \in SampledNow,
                NEW approved \in BOOLEAN, NEW principal \in Principals,
                DecideApproval(r, approved, principal, t)
         PROVE  LocalStep(s)
    BY <1>11, DecideApprovalLocal
  <1>12. ASSUME NEW r \in RunIds, NEW t \in SampledNow, NEW owner \in Owners,
                ClaimExecution(r, owner, t) \/ HeartbeatExecution(r, owner, t)
         PROVE  LocalStep(s)
    BY <1>12, ClaimExecutionLocal, HeartbeatExecutionLocal, SampledNat
  <1> QED
    BY <1>1, <1>2, <1>3, <1>4, <1>5, <1>6, <1>7, <1>8, <1>9, <1>10, <1>11,
       <1>12 DEF Next

-----------------------------------------------------------------------------
(* Leases.                                                                 *)

LeaseHeld(r) ==
  /\ (runs[r].owner # None) = (runs[r].status = "executing")
  /\ (runs[r].lease # None) = (runs[r].status = "executing")

LEMMA LeaseHeldStep ==
  ASSUME TypeOK, NEW r \in RunIds, LeaseHeld(r), LocalStep(r)
  PROVE  LeaseHeld(r)'
  <1>1. CASE QuietStep(r)
    <2>1. CASE runs'[r] = runs[r]
      BY <2>1 DEF LeaseHeld
    <2>2. CASE /\ runs[r] \in Row
               /\ \E n \in Nat : runs'[r] = [runs[r] EXCEPT !.duplicates = n]
      BY <2>2 DEF LeaseHeld, Row
    <2>3. CASE /\ runs[r].status = "executing"
               /\ \E n \in Nat : runs'[r] = [runs[r] EXCEPT !.lease = n]
      BY <2>3, RowTyped, LedgerAssumption DEF LeaseHeld, Row
    <2> QED
      BY <1>1, <2>1, <2>2, <2>3 DEF QuietStep
  <1>2. CASE CreateStep(r)
    BY <1>2 DEF CreateStep, Wrote, LeaseHeld, NoRow
  <1> USE RowTyped
  <1>3. CASE AllowStep(r)
    BY <1>3 DEF AllowStep, Wrote, LeaseHeld, Row
  <1>4. CASE DenyStep(r)
    BY <1>4 DEF DenyStep, Wrote, LeaseHeld, Row
  <1>5. CASE AskStep(r)
    BY <1>5 DEF AskStep, Wrote, LeaseHeld, Row
  <1>6. CASE DecideStep(r)
    <2>1. /\ runs[r].status = "pending_approval"
          /\ runs[r] \in Row
          /\ \E status \in {"approved", "rejected"} :
               runs'[r] = [runs[r] EXCEPT !.status = status]
      BY <1>6 DEF DecideStep, Pending, Wrote
    <2> QED
      BY <2>1 DEF LeaseHeld, Row
  <1>7. CASE ExpireStep(r)
    BY <1>7 DEF ExpireStep, Pending, Wrote, LeaseHeld, Row
  <1>8. CASE ClaimStep(r)
    BY <1>8, LedgerAssumption DEF ClaimStep, Claimable, Wrote, LeaseHeld, Row
  <1>9. CASE CloseStep(r)
    BY <1>9 DEF CloseStep, Wrote, LeaseHeld, Row
  <1>10. CASE ReconcileStep(r)
    BY <1>10 DEF ReconcileStep, Wrote, LeaseHeld, Row
  <1> QED
    BY <1>1, <1>2, <1>3, <1>4, <1>5, <1>6, <1>7, <1>8, <1>9, <1>10
       DEF LocalStep

(* An owner and a lease exist exactly while a run is executing, so a worker  *)
(* whose execution was closed, swept or reconciled holds nothing.            *)
THEOREM LeaseDisciplineHolds == Spec => []LeaseDiscipline
  <1>1. Init => LeaseDiscipline
    <2>1. Init => \A r \in RunIds : /\ runs[r].owner = None
                                  /\ runs[r].lease = None
                                  /\ runs[r].status = "absent"
      BY NoRowColumns DEF Init
    <2> QED
      BY <2>1 DEF LeaseDiscipline
  <1>2. TypeOK /\ LeaseDiscipline /\ [Next]_vars => LeaseDiscipline'
    <2> SUFFICES ASSUME TypeOK, LeaseDiscipline, [Next]_vars
                 PROVE  LeaseDiscipline'
      OBVIOUS
    <2>1. \A r \in RunIds : LeaseHeld(r)
      BY DEF LeaseDiscipline, LeaseHeld
    <2>2. \A r \in RunIds : LeaseHeld(r)'
      BY <2>1, LeaseHeldStep, StepLocal
    <2> QED
      BY <2>2 DEF LeaseDiscipline, LeaseHeld
  <1> QED
    BY <1>1, <1>2, TypeCorrect, PTL DEF Spec

(* Nothing leaves a terminal status, and its trail and its approval are      *)
(* sealed, whatever callers do and in whatever order.                        *)
THEOREM TerminalStaysFinal == Spec => TerminalIsFinal
  <1>1. ASSUME TypeOK, [Next]_vars, NEW r \in RunIds,
               runs[r].status \in Terminal
        PROVE  /\ runs'[r].status = runs[r].status
               /\ events'[r] = events[r]
               /\ approvals'[r] = approvals[r]
    <2>1. LocalStep(r)
      BY <1>1, StepLocal
    <2>2. runs[r].status \notin {"absent", "created", "pending_approval",
                                 "approved", "executing", "unknown"}
      BY <1>1 DEF Terminal
    <2>3. QuietStep(r)
      <3>1. ~CreateStep(r)
        BY <2>2, NoRowColumns DEF CreateStep
      <3>2. ~AllowStep(r) /\ ~DenyStep(r) /\ ~AskStep(r)
        BY <2>2 DEF AllowStep, DenyStep, AskStep
      <3>3. ~DecideStep(r) /\ ~ExpireStep(r)
        BY <2>2 DEF DecideStep, ExpireStep, Pending
      <3>4. ~ClaimStep(r) /\ ~CloseStep(r) /\ ~ReconcileStep(r)
        BY <2>2 DEF ClaimStep, Claimable, CloseStep, ReconcileStep
      <3> QED
        BY <2>1, <3>1, <3>2, <3>3, <3>4 DEF LocalStep
    <2> QED
      BY <1>1, <2>3 DEF QuietStep, Same, Row, Terminal
  <1>2. TypeOK /\ [Next]_vars =>
          [\A r \in RunIds : runs[r].status \in Terminal =>
             /\ runs'[r].status = runs[r].status
             /\ events'[r] = events[r]
             /\ approvals'[r] = approvals[r]]_vars
    BY <1>1
  <1> QED
    BY <1>2, TypeCorrect, PTL DEF Spec, TerminalIsFinal

-----------------------------------------------------------------------------
(* The audit trail decides the status.                                     *)

TrailDecides(r) ==
  runs[r].status = IF events[r] = << >> THEN "absent"
                   ELSE StatusAfter(events[r][Len(events[r])])

\* A step that appends events, the last of which leaves the run in the status
\* of its new row, keeps row and trail in agreement.
LEMMA WroteOne ==
  ASSUME TypeOK, NEW r \in RunIds, NEW row, NEW event \in Events,
         Wrote(r, row, <<event>>), row.status = StatusAfter(event)
  PROVE  TrailDecides(r)'
  <1>1. events[r] \in Seq(Events)
    BY DEF TypeOK
  <1>2. /\ events'[r] # << >>
        /\ events'[r][Len(events'[r])] = event
    BY <1>1, LastOne DEF Wrote
  <1> QED
    BY <1>2 DEF TrailDecides, Wrote

LEMMA WroteTwo ==
  ASSUME TypeOK, NEW r \in RunIds, NEW row,
         NEW first \in Events, NEW event \in Events,
         Wrote(r, row, <<first, event>>), row.status = StatusAfter(event)
  PROVE  TrailDecides(r)'
  <1>1. events[r] \in Seq(Events)
    BY DEF TypeOK
  <1>2. /\ events'[r] # << >>
        /\ events'[r][Len(events'[r])] = event
    BY <1>1, LastTwo DEF Wrote
  <1> QED
    BY <1>2 DEF TrailDecides, Wrote

LEMMA PlainStatus ==
  /\ StatusAfter(Plain("run.created")) = "created"
  /\ StatusAfter(Plain("run.denied")) = "denied"
  /\ StatusAfter(Plain("approval.requested")) = "pending_approval"
  /\ StatusAfter(Plain("approval.expired")) = "approval_expired"
  /\ StatusAfter(Plain("tool.execution.started")) = "executing"
  /\ StatusAfter(Plain("tool.execution.failed")) = "failed"
  /\ StatusAfter(Plain("run.completed")) = "completed"
  /\ StatusAfter(Plain("tool.execution.uncertain")) = "unknown"
  /\ StatusAfter(Plain("tool.execution.lease_expired")) = "unknown"
  BY DEF StatusAfter, Plain, Event

LEMMA TrailDecidesStep ==
  ASSUME TypeOK, NEW r \in RunIds, TrailDecides(r), LocalStep(r)
  PROVE  TrailDecides(r)'
  <1>1. CASE QuietStep(r)
    <2>1. runs'[r].status = runs[r].status
      BY <1>1, RowTyped DEF QuietStep, Row
    <2> QED
      BY <1>1, <2>1 DEF QuietStep, TrailDecides
  <1>2. CASE CreateStep(r)
    <2>1. PICK request \in Requests :
            Wrote(r, [NoRow EXCEPT !.request = request, !.status = "created"],
                  <<Plain("run.created")>>)
      BY <1>2 DEF CreateStep
    <2>2. [NoRow EXCEPT !.request = request, !.status = "created"].status
            = "created"
      BY DEF NoRow
    <2> QED
      BY <2>1, <2>2, WroteOne, PlainTyped, PlainStatus DEF EventType
  <1>3. CASE AllowStep(r)
    <2>1. PICK policy \in Policies :
            Wrote(r, [runs[r] EXCEPT !.status = "created", !.policy = policy],
                  <<Event("policy.checked", "allow", policy)>>)
      BY <1>3 DEF AllowStep
    <2> DEFINE event == Event("policy.checked", "allow", policy)
               row == [runs[r] EXCEPT !.status = "created", !.policy = policy]
    <2>2. event \in Events
      BY DEF Event, Events, EventType, PolicyOutcome
    <2>3. StatusAfter(event) = "created"
      BY DEF StatusAfter, Event
    <2>4. row.status = "created"
      BY <1>3, RowTyped DEF AllowStep, Row
    <2> HIDE DEF event, row
    <2> QED
      BY <2>1, <2>2, <2>3, <2>4, WroteOne DEF event, row
  <1>4. CASE DenyStep(r)
    <2>1. PICK policy \in Policies :
            Wrote(r, [runs[r] EXCEPT !.status = "denied", !.policy = policy],
                  <<Event("policy.checked", "deny", policy),
                    Plain("run.denied")>>)
      BY <1>4 DEF DenyStep
    <2>2. Event("policy.checked", "deny", policy) \in Events
      BY DEF Event, Events, EventType, PolicyOutcome
    <2>3. [runs[r] EXCEPT !.status = "denied", !.policy = policy].status
            = "denied"
      BY <1>4, RowTyped DEF DenyStep, Row
    <2> QED
      BY <2>1, <2>2, <2>3, WroteTwo, PlainTyped, PlainStatus DEF EventType
  <1>5. CASE AskStep(r)
    <2>1. PICK policy \in Policies :
            Wrote(r, [runs[r] EXCEPT !.status = "pending_approval",
                                     !.policy = policy],
                  <<Event("policy.checked", "approval_required", policy),
                    Plain("approval.requested")>>)
      BY <1>5 DEF AskStep
    <2>2. Event("policy.checked", "approval_required", policy) \in Events
      BY DEF Event, Events, EventType, PolicyOutcome
    <2>3. [runs[r] EXCEPT !.status = "pending_approval",
                          !.policy = policy].status = "pending_approval"
      BY <1>5, RowTyped DEF AskStep, Row
    <2> QED
      BY <2>1, <2>2, <2>3, WroteTwo, PlainTyped, PlainStatus DEF EventType
  <1>6. CASE DecideStep(r)
    <2>1. PICK principal \in Principals, approved \in BOOLEAN :
            Wrote(r, [runs[r] EXCEPT !.status =
                        IF approved THEN "approved" ELSE "rejected"],
                  <<Event(IF approved THEN "approval.approved"
                                      ELSE "approval.rejected",
                          None, principal.actor)>>)
      BY <1>6 DEF DecideStep
    <2> DEFINE status == IF approved THEN "approved" ELSE "rejected"
               event == Event(IF approved THEN "approval.approved"
                                          ELSE "approval.rejected",
                              None, principal.actor)
               row == [runs[r] EXCEPT !.status = status]
    <2>2. event \in Events
      BY DEF Event, Events, EventType, Actors
    <2>3. StatusAfter(event) = status
      BY DEF StatusAfter, Event
    <2>4. row.status = status
      BY <1>6, RowTyped DEF DecideStep, Pending, Row
    <2>5. Wrote(r, row, <<event>>)
      BY <2>1
    <2> HIDE DEF event, row, status
    <2> QED
      BY <2>2, <2>3, <2>4, <2>5, WroteOne
  <1>7. CASE ExpireStep(r)
    <2>1. [runs[r] EXCEPT !.status = "approval_expired"].status
            = "approval_expired"
      BY <1>7, RowTyped DEF ExpireStep, Pending, Row
    <2> QED
      BY <1>7, <2>1, WroteOne, PlainTyped, PlainStatus
         DEF ExpireStep, EventType
  <1>8. CASE ClaimStep(r)
    <2>1. PICK owner \in Owners, n \in Nat :
            Wrote(r, [runs[r] EXCEPT !.status = "executing", !.owner = owner,
                                     !.lease = n, !.attempt = @ + 1],
                  IF runs[r].status = "approved"
                  THEN <<Plain("run.resumed"), Plain("tool.execution.started")>>
                  ELSE <<Plain("tool.execution.started")>>)
      BY <1>8 DEF ClaimStep
    <2> DEFINE row == [runs[r] EXCEPT !.status = "executing", !.owner = owner,
                                      !.lease = n, !.attempt = @ + 1]
    <2>2. row.status = "executing"
      BY <1>8, RowTyped DEF ClaimStep, Claimable, Row
    <2>3. \/ Wrote(r, row, <<Plain("run.resumed"),
                            Plain("tool.execution.started")>>)
          \/ Wrote(r, row, <<Plain("tool.execution.started")>>)
      BY <2>1
    <2>4. Plain("run.resumed") \in Events
          /\ Plain("tool.execution.started") \in Events
      BY PlainTyped DEF EventType
    <2> HIDE DEF row
    <2> QED
      BY <2>2, <2>3, <2>4, WroteOne, WroteTwo, PlainStatus
  <1>9. CASE CloseStep(r)
    <2> DEFINE closed(status) == [runs[r] EXCEPT !.status = status,
                                    !.owner = None, !.lease = None]
    <2>1. /\ closed("completed").status = "completed"
          /\ closed("failed").status = "failed"
          /\ closed("unknown").status = "unknown"
      BY <1>9, RowTyped DEF CloseStep, Row
    <2>2. \/ Wrote(r, closed("completed"),
                  <<Plain("tool.execution.succeeded"), Plain("run.completed")>>)
          \/ Wrote(r, closed("failed"), <<Plain("tool.execution.failed")>>)
          \/ Wrote(r, closed("unknown"), <<Plain("tool.execution.uncertain")>>)
          \/ Wrote(r, closed("unknown"),
                  <<Plain("tool.execution.lease_expired")>>)
      BY <1>9 DEF CloseStep
    <2>3. /\ Plain("tool.execution.succeeded") \in Events
          /\ Plain("run.completed") \in Events
          /\ Plain("tool.execution.failed") \in Events
          /\ Plain("tool.execution.uncertain") \in Events
          /\ Plain("tool.execution.lease_expired") \in Events
      BY PlainTyped DEF EventType
    <2> HIDE DEF closed
    <2> QED
      BY <2>1, <2>2, <2>3, WroteOne, WroteTwo, PlainStatus
  <1>10. CASE ReconcileStep(r)
    <2>1. PICK principal \in Principals, outcome \in ProviderOutcome,
               status \in {"completed", "failed"} :
            LET observed == Event("provider.reconciliation.observed", outcome,
                                  principal.actor)
                settled == [runs[r] EXCEPT !.status = status]
            IN  \/ Wrote(r, settled, <<Reconciled(status, principal)>>)
                \/ Wrote(r, settled,
                         <<observed, Reconciled(status, principal)>>)
                \/ Wrote(r, runs[r], <<observed>>)
      BY <1>10 DEF ReconcileStep
    <2> DEFINE observed == Event("provider.reconciliation.observed", outcome,
                                 principal.actor)
               settled == [runs[r] EXCEPT !.status = status]
               reconciled == Reconciled(status, principal)
    <2>2. observed \in Events /\ reconciled \in Events
      BY DEF Reconciled, Event, Events, EventType, Actors
    <2>3. /\ StatusAfter(observed) = "unknown"
          /\ StatusAfter(reconciled) = status
      BY DEF StatusAfter, Reconciled, Event
    <2>4. settled.status = status /\ runs[r].status = "unknown"
      BY <1>10, RowTyped DEF ReconcileStep, Row
    <2>5. \/ Wrote(r, settled, <<reconciled>>)
          \/ Wrote(r, settled, <<observed, reconciled>>)
          \/ Wrote(r, runs[r], <<observed>>)
      BY <2>1
    <2> HIDE DEF observed, settled, reconciled
    <2> QED
      BY <2>2, <2>3, <2>4, <2>5, WroteOne, WroteTwo
  <1> QED
    BY <1>1, <1>2, <1>3, <1>4, <1>5, <1>6, <1>7, <1>8, <1>9, <1>10
       DEF LocalStep

(* The status column and the audit trail never disagree: the status is what  *)
(* the last event says, for any number of runs and any order of calls.       *)
THEOREM TrailAndStatusAgree == Spec => []TrailDecidesStatus
  <1>1. Init => TrailDecidesStatus
    <2>1. Init => \A r \in RunIds : /\ runs[r].status = "absent"
                                  /\ events[r] = << >>
      BY NoRowColumns DEF Init
    <2> QED
      BY <2>1 DEF TrailDecidesStatus
  <1>2. TypeOK /\ TrailDecidesStatus /\ [Next]_vars => TrailDecidesStatus'
    <2> SUFFICES ASSUME TypeOK, TrailDecidesStatus, [Next]_vars
                 PROVE  TrailDecidesStatus'
      OBVIOUS
    <2>1. \A r \in RunIds : TrailDecides(r)
      BY DEF TrailDecidesStatus, TrailDecides
    <2>2. \A r \in RunIds : TrailDecides(r)'
      BY <2>1, TrailDecidesStep, StepLocal
    <2> QED
      BY <2>2 DEF TrailDecidesStatus, TrailDecides
  <1> QED
    BY <1>1, <1>2, TypeCorrect, PTL DEF Spec
=============================================================================
