---------------------------- MODULE ActionLedger ----------------------------
(***************************************************************************)
(* The SQLite action ledger (ledger.py) as its callers see it.  Every      *)
(* operation of the ledger is one BEGIN IMMEDIATE transaction, so it is    *)
(* one action here: it commits as a whole or a crash leaves no trace of    *)
(* it.  The callers are open: any worker, sweep, approver or operator may  *)
(* call any operation at any time, with any arguments of the right type.   *)
(* A call that raises, or returns false without writing, is no step.       *)
(*                                                                         *)
(* An operation reads the wall clock before it waits for the write lock,   *)
(* for at most BusyTimeout, so the instant t it works with may be older    *)
(* than the clock when it commits.                                         *)
(***************************************************************************)
EXTENDS Integers, Sequences

CONSTANTS
  RunIds,             \* values uuid4 may give to run_id
  Requests,           \* governed requests: [tenant, key, actor, content]
  Policies,           \* policy identities: version and digest
  Principals,         \* verified principals: [actor, tenant, approver]
  Owners,             \* execution owners ("worker_...")
  None,               \* SQL NULL
  LeaseSeconds,       \* execution_lease_seconds
  ApprovalTTL,        \* approval_ttl_seconds
  BusyTimeout,        \* how long a transaction may wait for the write lock
  AllowSelfApproval,  \* the action's allow_self_approval
  MaxClock,           \* bound on the clock
  MaxEvents,          \* bound on a trail before the steps that may repeat
  MaxDuplicates       \* bound on duplicate_count

ASSUME LedgerAssumption ==
  /\ {LeaseSeconds, ApprovalTTL} \subseteq Nat \ {0}
  /\ {BusyTimeout, MaxClock, MaxEvents, MaxDuplicates} \subseteq Nat
  /\ AllowSelfApproval \in BOOLEAN
  /\ None \notin Requests
  /\ None \notin Policies
  /\ None \notin Owners
  /\ None \notin Nat
  /\ \A p \in Principals : p.approver \in BOOLEAN

VARIABLES
  runs,       \* table action_runs
  approvals,  \* table approvals
  events,     \* table action_events: the trail of each run, oldest first
  clock       \* the wall clock, in units of the timers

vars == <<runs, approvals, events, clock>>

-----------------------------------------------------------------------------
(* The tables                                                              *)

Terminal == {"denied", "rejected", "approval_expired", "completed", "failed"}

ActionStatus == Terminal \cup
  {"created", "pending_approval", "approved", "executing", "unknown"}

PolicyOutcome == {"allow", "deny", "approval_required"}
ProviderOutcome == {"committed", "not_committed", "pending"}

NoRow == [request |-> None, status |-> "absent", policy |-> None,
          owner |-> None, lease |-> None, attempt |-> 0, duplicates |-> 0]

Row == [request : Requests, status : ActionStatus,
        policy : Policies \cup {None}, owner : Owners \cup {None},
        lease : Nat \cup {None}, attempt : Nat, duplicates : Nat]

NoApproval == [status |-> "none", request |-> None, policy |-> None,
               expires |-> 0, approver |-> None]

Actors == {p.actor : p \in Principals}
Tenants == {q.tenant : q \in Requests}

Approval ==
  [status : {"pending_approval", "approved", "rejected", "approval_expired"},
   request : Requests, policy : Policies, expires : Nat,
   approver : Actors \cup {None}]

\* An event keeps the part of its payload that decides what happens next:
\* the outcome it records and the policy or person it names.
Event(type, detail, by) == [type |-> type, detail |-> detail, by |-> by]
Plain(type) == Event(type, None, None)

EventType ==
  {"run.created", "policy.checked", "run.denied", "approval.requested",
   "approval.approved", "approval.rejected", "approval.expired",
   "run.resumed", "tool.execution.started", "tool.execution.succeeded",
   "tool.execution.failed", "tool.execution.uncertain",
   "tool.execution.lease_expired", "run.completed",
   "provider.reconciliation.observed", "run.reconciled"}

Events ==
  [type : EventType,
   detail : PolicyOutcome \cup ProviderOutcome \cup {"completed", "failed", None},
   by : Policies \cup Actors \cup {None}]

\* The event types of a trail.
Types(trail) == {trail[i].type : i \in DOMAIN trail}

Init ==
  /\ runs = [r \in RunIds |-> NoRow]
  /\ approvals = [r \in RunIds |-> NoApproval]
  /\ events = [r \in RunIds |-> << >>]
  /\ clock = 0

\* The instants an operation that commits now may have read.
SampledNow == {t \in 0..clock : clock <= t + BusyTimeout}

\* A sweep covers one tenant, or every tenant when tenant_id is None.
Scopes == {Tenants} \cup {{tenant} : tenant \in Tenants}

\* One transaction rewrites the row of r and appends its events.
Commit(r, row, appended) ==
  /\ runs' = [runs EXCEPT ![r] = row]
  /\ events' = [events EXCEPT ![r] = @ \o appended]

-----------------------------------------------------------------------------
(* Submission and policy                                                   *)

\* (tenant_id, action_name, idempotency_key) is UNIQUE in action_runs.
Identity(request) == <<request.tenant, request.key>>

\* Mutant of Stored: the whole request is unique, not its identity.
StoredRequest(request) == {r \in RunIds : runs[r].request = request}

Stored(request) ==
  {r \in RunIds : /\ runs[r] # NoRow
                  /\ Identity(runs[r].request) = Identity(request)}

\* The insert of create_or_get_run.  When the identity is stored already the
\* call returns that row, or raises IdempotencyConflict when the governed
\* request differs: neither writes.
CreateRun(r, request) ==
  /\ runs[r] = NoRow
  /\ Stored(request) = {}
  /\ Commit(r, [NoRow EXCEPT !.request = request, !.status = "created"],
            <<Plain("run.created")>>)
  /\ UNCHANGED <<approvals, clock>>

RecordDuplicate(r) ==
  /\ runs[r] # NoRow
  /\ runs[r].duplicates < MaxDuplicates
  /\ runs' = [runs EXCEPT ![r].duplicates = @ + 1]
  /\ UNCHANGED <<approvals, events, clock>>

\* Mutant of NewApproval: the policy digest is left NULL.
UnboundApproval(r, policy, t) ==
  [status |-> "pending_approval", request |-> runs[r].request,
   policy |-> None, expires |-> t + ApprovalTTL, approver |-> None]

\* The approval row a decision inserts: bound to the governed request and to
\* the policy that asked for it.
NewApproval(r, policy, t) ==
  [status |-> "pending_approval", request |-> runs[r].request,
   policy |-> policy, expires |-> t + ApprovalTTL, approver |-> None]

\* Only the status "created" is required: a run that was allowed and not yet
\* claimed may be decided again.
RecordPolicyDecision(r, outcome, policy, t) ==
  LET checked == Event("policy.checked", outcome, policy)
      decided(status) == [runs[r] EXCEPT !.status = status, !.policy = policy]
  IN  /\ runs[r].status = "created"
      /\ Len(events[r]) < MaxEvents
      /\ \/ /\ outcome = "allow"
            /\ Commit(r, decided("created"), <<checked>>)
            /\ UNCHANGED approvals
         \/ /\ outcome = "deny"
            /\ Commit(r, decided("denied"), <<checked, Plain("run.denied")>>)
            /\ UNCHANGED approvals
         \/ /\ outcome = "approval_required"
            /\ Commit(r, decided("pending_approval"),
                      <<checked, Plain("approval.requested")>>)
            /\ approvals' = [approvals EXCEPT ![r] = NewApproval(r, policy, t)]
      /\ UNCHANGED clock

-----------------------------------------------------------------------------
(* Approval                                                                *)

\* Mutant of Eligible: the requester may approve.
EligibleWithSelf(r, principal) ==
  principal.tenant = runs[r].request.tenant /\ principal.approver

\* Who may decide the approval of r.
Eligible(r, principal) ==
  /\ principal.tenant = runs[r].request.tenant
  /\ principal.approver
  /\ AllowSelfApproval \/ principal.actor # approvals[r].request.actor

Pending(r) ==
  /\ approvals[r].status = "pending_approval"
  /\ runs[r].status = "pending_approval"

\* Mutant of Overdue: the instant of expiry still counts as in time.
OverdueLate(r, t) == approvals[r].expires < t

Overdue(r, t) == approvals[r].expires <= t

\* Mutant of ExpireApproval: the run is left waiting.
ExpireApprovalRow(S) ==
  /\ approvals' = [r \in RunIds |->
       IF r \in S THEN [approvals[r] EXCEPT !.status = "approval_expired"]
                  ELSE approvals[r]]
  /\ events' = [r \in RunIds |->
       IF r \in S THEN Append(events[r], Plain("approval.expired"))
                  ELSE events[r]]
  /\ UNCHANGED <<runs, clock>>

\* The run and its approval expire together.
ExpireApproval(S) ==
  /\ runs' = [r \in RunIds |->
       IF r \in S THEN [runs[r] EXCEPT !.status = "approval_expired"]
                  ELSE runs[r]]
  /\ approvals' = [r \in RunIds |->
       IF r \in S THEN [approvals[r] EXCEPT !.status = "approval_expired"]
                  ELSE approvals[r]]
  /\ events' = [r \in RunIds |->
       IF r \in S THEN Append(events[r], Plain("approval.expired"))
                  ELSE events[r]]
  /\ UNCHANGED clock

DecideApproval(r, approved, principal, t) ==
  /\ Pending(r)
  /\ Eligible(r, principal)
  /\ \/ /\ Overdue(r, t)
        /\ ExpireApproval({r})
     \/ /\ ~Overdue(r, t)
        /\ runs[r].request = approvals[r].request
        /\ runs[r].policy = approvals[r].policy
        /\ LET status == IF approved THEN "approved" ELSE "rejected"
               type == IF approved THEN "approval.approved"
                                   ELSE "approval.rejected"
           IN  /\ Commit(r, [runs[r] EXCEPT !.status = status],
                         <<Event(type, None, principal.actor)>>)
               /\ approvals' = [approvals EXCEPT
                    ![r].status = status, ![r].approver = principal.actor]
        /\ UNCHANGED clock

ExpireApprovals(scope, t) ==
  ExpireApproval({r \in RunIds : /\ Pending(r) /\ Overdue(r, t)
                                 /\ runs[r].request.tenant \in scope})

-----------------------------------------------------------------------------
(* Execution under a lease                                                 *)

\* Mutant of LeaseExpired: a lease about to run out counts as expired.
LeaseExpiring(r, t) ==
  /\ runs[r].status = "executing"
  /\ runs[r].lease # None
  /\ runs[r].lease <= t + 1

LeaseExpired(r, t) ==
  /\ runs[r].status = "executing"
  /\ runs[r].lease # None
  /\ runs[r].lease <= t

\* Mutant of MarkExpiredExecution: the owner is not cleared.
MarkExpiredKeepOwner(S) ==
  /\ runs' = [r \in RunIds |->
       IF r \in S THEN [runs[r] EXCEPT !.status = "unknown", !.lease = None]
                  ELSE runs[r]]
  /\ events' = [r \in RunIds |->
       IF r \in S THEN Append(events[r], Plain("tool.execution.lease_expired"))
                  ELSE events[r]]
  /\ UNCHANGED <<approvals, clock>>

MarkExpiredExecution(S) ==
  /\ runs' = [r \in RunIds |->
       IF r \in S THEN [runs[r] EXCEPT !.status = "unknown",
                                       !.owner = None, !.lease = None]
                  ELSE runs[r]]
  /\ events' = [r \in RunIds |->
       IF r \in S THEN Append(events[r], Plain("tool.execution.lease_expired"))
                  ELSE events[r]]
  /\ UNCHANGED <<approvals, clock>>

\* Mutant of Claimable: an uncertain execution is retried.
ClaimableAgain(r) ==
  /\ runs[r].status \in {"created", "approved", "unknown"}
  /\ runs[r].policy # None

\* Only an approved run, or one a policy has answered for, may start.
Claimable(r) ==
  /\ runs[r].status \in {"created", "approved"}
  /\ runs[r].policy # None

\* Claiming a run whose lease ran out gives the execution up, it does not
\* start it again.
ClaimExecution(r, owner, t) ==
  \/ /\ LeaseExpired(r, t)
     /\ MarkExpiredExecution({r})
  \/ /\ Claimable(r)
     /\ LET resumed == IF runs[r].status = "approved"
                       THEN <<Plain("run.resumed")>> ELSE << >>
        IN  Commit(r, [runs[r] EXCEPT !.status = "executing", !.owner = owner,
                                      !.lease = t + LeaseSeconds,
                                      !.attempt = @ + 1],
                   resumed \o <<Plain("tool.execution.started")>>)
     /\ UNCHANGED <<approvals, clock>>

HeartbeatExecution(r, owner, t) ==
  /\ runs[r].status = "executing"
  /\ runs[r].owner = owner
  /\ runs[r].lease > t
  /\ runs' = [runs EXCEPT ![r].lease = t + LeaseSeconds]
  /\ UNCHANGED <<approvals, events, clock>>

\* Mutant of FinishExecution: any worker may close the execution.
FinishAnyExecution(r, owner, status, appended) ==
  /\ runs[r].status = "executing"
  /\ Commit(r, [runs[r] EXCEPT !.status = status, !.owner = None,
                               !.lease = None], appended)
  /\ UNCHANGED <<approvals, clock>>

\* The owner closes its execution.  The lease is not looked at: an owner that
\* nobody swept yet may finish late.
FinishExecution(r, owner, status, appended) ==
  /\ runs[r].status = "executing"
  /\ runs[r].owner = owner
  /\ Commit(r, [runs[r] EXCEPT !.status = status, !.owner = None,
                               !.lease = None], appended)
  /\ UNCHANGED <<approvals, clock>>

CompleteExecution(r, owner) ==
  FinishExecution(r, owner, "completed",
    <<Plain("tool.execution.succeeded"), Plain("run.completed")>>)

FailExecution(r, owner) ==
  FinishExecution(r, owner, "failed", <<Plain("tool.execution.failed")>>)

MarkExecutionUnknown(r, owner) ==
  FinishExecution(r, owner, "unknown", <<Plain("tool.execution.uncertain")>>)

RecoverExpiredExecutions(scope, t) ==
  MarkExpiredExecution(
    {r \in RunIds : LeaseExpired(r, t) /\ runs[r].request.tenant \in scope})

-----------------------------------------------------------------------------
(* Reconciliation of an unknown outcome                                    *)

\* Mutants of Reconcilable: any tenant's operator; a failed run as well.
ReconcilableByAnyone(r, principal) == runs[r].status = "unknown"

ReconcilableAgain(r, principal) ==
  /\ runs[r].status \in {"unknown", "failed"}
  /\ principal.tenant = runs[r].request.tenant

\* The ledger checks the operator's tenant; the role is the caller's to check.
Reconcilable(r, principal) ==
  /\ runs[r].status = "unknown"
  /\ principal.tenant = runs[r].request.tenant

Reconciled(status, principal) ==
  Event("run.reconciled", status, principal.actor)

ReconcileRun(r, status, principal) ==
  /\ Reconcilable(r, principal)
  /\ Commit(r, [runs[r] EXCEPT !.status = status],
            <<Reconciled(status, principal)>>)
  /\ UNCHANGED <<approvals, clock>>

\* A definitive observation settles the run in the same transaction; a pending
\* one is only recorded.
ApplyProviderObservation(r, outcome, principal) ==
  LET observed == Event("provider.reconciliation.observed", outcome,
                        principal.actor)
  IN  /\ Reconcilable(r, principal)
      /\ \/ /\ outcome = "pending"
            /\ Len(events[r]) < MaxEvents
            /\ Commit(r, runs[r], <<observed>>)
         \/ /\ outcome # "pending"
            /\ LET status == IF outcome = "committed" THEN "completed"
                                                    ELSE "failed"
               IN  Commit(r, [runs[r] EXCEPT !.status = status],
                          <<observed, Reconciled(status, principal)>>)
      /\ UNCHANGED <<approvals, clock>>

-----------------------------------------------------------------------------
Tick ==
  /\ clock < MaxClock
  /\ clock' = clock + 1
  /\ UNCHANGED <<runs, approvals, events>>

Next ==
  \/ \E r \in RunIds :
       \/ \E request \in Requests : CreateRun(r, request)
       \/ RecordDuplicate(r)
       \/ \E owner \in Owners : \/ CompleteExecution(r, owner)
                                \/ FailExecution(r, owner)
                                \/ MarkExecutionUnknown(r, owner)
       \/ \E principal \in Principals :
            \/ \E status \in {"completed", "failed"} :
                 ReconcileRun(r, status, principal)
            \/ \E outcome \in ProviderOutcome :
                 ApplyProviderObservation(r, outcome, principal)
       \/ \E t \in SampledNow :
            \/ \E outcome \in PolicyOutcome, policy \in Policies :
                 RecordPolicyDecision(r, outcome, policy, t)
            \/ \E approved \in BOOLEAN, principal \in Principals :
                 DecideApproval(r, approved, principal, t)
            \/ \E owner \in Owners : \/ ClaimExecution(r, owner, t)
                                     \/ HeartbeatExecution(r, owner, t)
  \/ \E scope \in Scopes, t \in SampledNow :
       \/ ExpireApprovals(scope, t)
       \/ RecoverExpiredExecutions(scope, t)
  \/ Tick

Spec == Init /\ [][Next]_vars

-----------------------------------------------------------------------------
(* Properties                                                              *)

\* Type invariant: every row and every event has the columns and the values
\* of the schema, and an approval row is fully bound when it exists.
TypeOK ==
  /\ runs \in [RunIds -> Row \cup {NoRow}]
  /\ approvals \in [RunIds -> Approval \cup {NoApproval}]
  /\ events \in [RunIds -> Seq(Events)]
  /\ clock \in Nat

\* The status an event leaves its run in.
StatusAfter(event) ==
  CASE event.type = "run.created" -> "created"
    [] event.type = "policy.checked" -> "created"
    [] event.type = "run.denied" -> "denied"
    [] event.type = "approval.requested" -> "pending_approval"
    [] event.type = "approval.approved" -> "approved"
    [] event.type = "approval.rejected" -> "rejected"
    [] event.type = "approval.expired" -> "approval_expired"
    [] event.type = "tool.execution.started" -> "executing"
    [] event.type = "tool.execution.failed" -> "failed"
    [] event.type = "run.completed" -> "completed"
    [] event.type = "run.reconciled" -> event.detail
    [] OTHER -> "unknown"

\* The status column can be recomputed from the audit trail alone: no
\* operation moves a run without saying so, or says so without moving it.
TrailDecidesStatus ==
  \A r \in RunIds :
    runs[r].status = IF events[r] = << >> THEN "absent"
                     ELSE StatusAfter(events[r][Len(events[r])])

\* What may come next in a trail.
Follows ==
  {<<"run.created", "policy.checked">>, <<"policy.checked", "policy.checked">>,
   <<"policy.checked", "run.denied">>,
   <<"policy.checked", "approval.requested">>,
   <<"policy.checked", "tool.execution.started">>,
   <<"approval.approved", "run.resumed">>,
   <<"run.resumed", "tool.execution.started">>,
   <<"tool.execution.succeeded", "run.completed">>}
  \cup {"approval.requested"} \X
         {"approval.approved", "approval.rejected", "approval.expired"}
  \cup {"tool.execution.started"} \X
         {"tool.execution.succeeded", "tool.execution.failed",
          "tool.execution.uncertain", "tool.execution.lease_expired"}
  \cup {"tool.execution.uncertain", "tool.execution.lease_expired",
        "provider.reconciliation.observed"} \X
         {"provider.reconciliation.observed", "run.reconciled"}

\* A trail tells a possible story from its first event to its last, whatever
\* order the callers came in: in particular a tool is started only after a
\* policy or a person cleared it, an approval is decided once, and only an
\* uncertain execution is ever reconciled.
TrailIsLegal ==
  \A r \in RunIds :
    /\ events[r] # << >> => events[r][1].type = "run.created"
    /\ \A i \in 1..(Len(events[r]) - 1) :
         <<events[r][i].type, events[r][i + 1].type>> \in Follows

\* The protected tool is started at most once for a run, and the attempt
\* counter a worker is handed agrees with the trail.
OneExecution ==
  \A r \in RunIds :
    /\ runs[r].attempt \in {0, 1}
    /\ (runs[r].attempt = 1) = ("tool.execution.started" \in Types(events[r]))
    /\ \A i, j \in DOMAIN events[r] :
         events[r][i].type = "tool.execution.started"
           /\ events[r][j].type = "tool.execution.started" => i = j

\* Concurrent submissions of one business identity share one run, and with it
\* one governed request.
UniqueIdentity ==
  \A r, s \in RunIds :
    /\ runs[r] # NoRow
    /\ runs[s] # NoRow
    /\ Identity(runs[r].request) = Identity(runs[s].request)
    => r = s

\* The approval row and the run row never tell different stories, and the
\* approval stays bound to the request and the policy the run still has.
ApprovalAgrees ==
  \A r \in RunIds :
    /\ approvals[r] = NoApproval =>
         runs[r].status \notin
           {"pending_approval", "approved", "rejected", "approval_expired"}
    /\ approvals[r] # NoApproval =>
         /\ approvals[r].request = runs[r].request
         /\ approvals[r].policy = runs[r].policy
         /\ IF approvals[r].status = "approved"
            THEN runs[r].status \in
                   {"approved", "executing", "completed", "failed", "unknown"}
            ELSE runs[r].status = approvals[r].status

\* A tool that was started had been cleared for exactly the request and the
\* policy the run holds: by a policy that answered "allow", or by a person of
\* the tenant with the approval role who did not approve their own request.
ExecutionIsAuthorised ==
  \A r \in RunIds :
    "tool.execution.started" \in Types(events[r]) =>
      \/ /\ approvals[r] = NoApproval
         /\ \E i \in DOMAIN events[r] :
              events[r][i] = Event("policy.checked", "allow", runs[r].policy)
      \/ /\ approvals[r].status = "approved"
         /\ approvals[r].policy = runs[r].policy
         /\ approvals[r].request = runs[r].request
         /\ \E p \in Principals :
              /\ p.actor = approvals[r].approver
              /\ p.tenant = runs[r].request.tenant
              /\ p.approver
              /\ AllowSelfApproval \/ p.actor # runs[r].request.actor

\* A run has an owner and a lease exactly while it is executing: a lost or
\* finished execution leaves nothing a late worker could still hold.
LeaseDiscipline ==
  \A r \in RunIds :
    /\ (runs[r].owner # None) = (runs[r].status = "executing")
    /\ (runs[r].lease # None) = (runs[r].status = "executing")

\* Nothing leaves a terminal status, and its evidence is sealed: a retry, a
\* sweep, a late worker or a second operator adds nothing to the trail.
TerminalIsFinal ==
  [][\A r \in RunIds : runs[r].status \in Terminal =>
       /\ runs'[r].status = runs[r].status
       /\ events'[r] = events[r]
       /\ approvals'[r] = approvals[r]]_vars

\* The owner of an execution reports how it went.
ReportExecution(r, owner) ==
  \/ CompleteExecution(r, owner)
  \/ FailExecution(r, owner)
  \/ MarkExecutionUnknown(r, owner)

\* While a lease is live nobody but its owner has a say in the execution: a
\* step either leaves it running, with that owner, or is the owner's own
\* report.  No claim takes it over, no sweep gives it up on an older reading of
\* the clock, although heartbeats move the lease, and nobody else's report ends
\* it.
LiveLeaseIsExclusive ==
  [][\A r \in RunIds :
       /\ runs[r].status = "executing"
       /\ runs[r].lease > clock
       => /\ \/ /\ runs'[r].status = "executing"
                /\ runs'[r].owner = runs[r].owner
             \/ ReportExecution(r, runs[r].owner)
          /\ \A owner \in Owners \ {runs[r].owner} :
               ~ReportExecution(r, owner)]_vars

\* No approval is granted at or after its expiry, up to the time the decision
\* may have waited for the write lock.
ApprovalInTime ==
  [][\A r \in RunIds :
       approvals[r].status = "pending_approval"
         /\ approvals'[r].status = "approved"
       => clock < approvals[r].expires + BusyTimeout]_vars

\* An unknown outcome is settled only by evidence that names an operator of
\* the run's own tenant, never by a worker, a sweep or a retry.
UnknownNeedsAnOperator ==
  [][\A r \in RunIds :
       runs[r].status = "unknown" /\ runs'[r].status # "unknown" =>
         \E p \in Principals :
           /\ p.tenant = runs[r].request.tenant
           /\ events'[r][Len(events'[r])] =
                Event("run.reconciled", runs'[r].status, p.actor)]_vars

\* The ledger implements ActionLifecycle.
Allowed == {r \in RunIds : \E i \in DOMAIN events[r] :
              /\ events[r][i].type = "policy.checked"
              /\ events[r][i].detail = "allow"}

Begun == {r \in RunIds : "tool.execution.started" \in Types(events[r])}

Abstract == INSTANCE ActionLifecycle WITH
  phase <- [r \in RunIds |-> runs[r].status], allowed <- Allowed, begun <- Begun

\* Refinement: every transaction of the ledger is one step of the lifecycle a
\* caller is promised, or changes nothing the lifecycle speaks of.
Lifecycle == Abstract!Spec
=============================================================================
