---------------------------- MODULE TrustedAction ----------------------------
(***************************************************************************)
(* The runtime (runtime.py) over the ledger: calls of invoke and resume,   *)
(* each a sequence of ledger transactions with the caller's own code in    *)
(* between; the heartbeat thread that renews the lease while the protected *)
(* tool runs; crashes; approvers; sweeps; and operators who look up the    *)
(* provider before they settle an unknown run.                             *)
(*                                                                         *)
(* A call draws a fresh run_id and a fresh owner: the call's name stands   *)
(* for both.  The tool and the provider are external, modelled by what     *)
(* their contracts (docs/provider-reconciliation.md) ask of them: a tool   *)
(* performs one provider operation, raises IndeterminateOutcome unless it  *)
(* knows the answer, and a lookup answers "pending" while an operation it  *)
(* has received is not final.                                              *)
(***************************************************************************)
EXTENDS ActionLedger

CONSTANT Operators   \* operators that reconcile, a subset of Principals

ASSUME RuntimeAssumption ==
  /\ Owners = RunIds
  /\ Operators \subseteq Principals

Calls == RunIds

VARIABLES
  calls,     \* where each call stands
  effects,   \* effects[c]: the provider operation of the tool started by c
  lookups    \* what each operator has learnt and not yet applied

runtimeVars == <<runs, approvals, events, clock, calls, effects, lookups>>

ledgerVars == <<runs, approvals, events, clock>>

\* pc is the next step of the call; beat, whether its heartbeat thread runs;
\* answer, the status or error it returned, or is about to report.
NoCall == [pc |-> "idle", run |-> None, request |-> None, beat |-> FALSE,
           answer |-> None]

NoLookup == [run |-> None, outcome |-> None]

RuntimeInit ==
  /\ Init
  /\ calls = [c \in Calls |-> NoCall]
  /\ effects = [c \in Calls |-> "none"]
  /\ lookups = [o \in Operators |-> NoLookup]

At(c, pc) == calls[c].pc = pc

\* The call goes on to pc.
Goto(c, pc) == calls' = [calls EXCEPT ![c].pc = pc]

Answer(c, answer) ==
  calls' = [calls EXCEPT ![c].pc = "done", ![c].answer = answer]

Run(c) == calls[c].run

\* A step of the runtime that leaves the provider and the operators alone.
Internal == UNCHANGED <<effects, lookups>>

-----------------------------------------------------------------------------
(* invoke: _prepare_invoke, one transaction at a time                      *)

\* create_or_get_run inserts the run, finds it, or raises IdempotencyConflict.
Invoke(c, request) ==
  LET join(r) == calls' = [calls EXCEPT ![c].pc = "sweep_approvals",
                                        ![c].run = r, ![c].request = request]
  IN  /\ At(c, "idle")
      /\ \/ /\ CreateRun(c, request)
            /\ calls' = [calls EXCEPT ![c].pc = "policy", ![c].run = c,
                                      ![c].request = request]
         \/ \E r \in Stored(request) :
              /\ UNCHANGED ledgerVars
              /\ IF runs[r].request = request THEN join(r)
                                              ELSE Answer(c, "conflict")
      /\ Internal

\* The policy is evaluated outside any transaction, then its decision stored.
EvaluatePolicy(c, outcome, policy, t) ==
  /\ At(c, "policy")
  /\ RecordPolicyDecision(Run(c), outcome, policy, t)
  /\ Goto(c, IF outcome = "allow" THEN "claim" ELSE "read")
  /\ Internal

\* A duplicate first sweeps its tenant, in transactions of their own.
DuplicateSweepsApprovals(c, t) ==
  /\ At(c, "sweep_approvals")
  /\ ExpireApprovals({calls[c].request.tenant}, t)
  /\ Goto(c, "sweep_leases")
  /\ Internal

DuplicateSweepsLeases(c, t) ==
  /\ At(c, "sweep_leases")
  /\ RecoverExpiredExecutions({calls[c].request.tenant}, t)
  /\ Goto(c, "count")
  /\ Internal

DuplicateCounts(c) ==
  /\ At(c, "count")
  /\ RecordDuplicate(Run(c))
  /\ Goto(c, "read")
  /\ Internal

\* The result is read back in one more transaction.
ReadResult(c) ==
  /\ At(c, "read")
  /\ Answer(c, runs[Run(c)].status)
  /\ UNCHANGED ledgerVars
  /\ Internal

\* resume reads the run and goes on to claim it when it was approved then; a
\* completed run is its answer.  A run in any other status raises.
Resume(c, r) ==
  /\ At(c, "idle")
  /\ \/ /\ runs[r].status = "approved"
        /\ calls' = [calls EXCEPT ![c].pc = "claim", ![c].run = r]
     \/ /\ runs[r].status = "completed"
        /\ calls' = [calls EXCEPT ![c].pc = "done", ![c].run = r,
                                  ![c].answer = "completed"]
  /\ UNCHANGED ledgerVars
  /\ Internal

-----------------------------------------------------------------------------
(* _execute                                                                *)

Claim(c, t) ==
  LET r == Run(c)
  IN  /\ At(c, "claim")
      /\ \/ /\ ClaimExecution(r, c, t)
            /\ IF runs'[r].owner = c
               THEN calls' = [calls EXCEPT ![c].pc = "tool", ![c].beat = TRUE]
               ELSE Goto(c, "read")
         \/ /\ ~Claimable(r) /\ ~LeaseExpired(r, t)
            /\ UNCHANGED ledgerVars
            /\ Goto(c, "read")
      /\ Internal

\* The heartbeat thread renews the lease, or finds it lost and ends.
Heartbeat(c, t) ==
  /\ calls[c].beat
  /\ \/ /\ HeartbeatExecution(Run(c), c, t)
        /\ UNCHANGED calls
     \/ /\ ~(runs[Run(c)].owner = c /\ runs[Run(c)].lease > t)
        /\ calls' = [calls EXCEPT ![c].beat = FALSE]
        /\ UNCHANGED ledgerVars
  /\ Internal

\* A renewal that raises ends the thread: nothing starts it again and the tool
\* goes on without it.
HeartbeatDies(c) ==
  /\ calls[c].beat
  /\ calls' = [calls EXCEPT ![c].beat = FALSE]
  /\ UNCHANGED ledgerVars
  /\ Internal

\* The tool hands its one operation to the provider.  Nothing stops it when
\* the lease is gone.
ToolSends(c) ==
  /\ At(c, "tool")
  /\ effects[c] = "none"
  /\ effects' = [effects EXCEPT ![c] = "sent"]
  /\ UNCHANGED <<calls, lookups>>
  /\ UNCHANGED ledgerVars

\* The provider decides what it received, whether or not anybody still waits.
ProviderDecides(c) ==
  /\ effects[c] = "sent"
  /\ \E fate \in {"committed", "refused"} :
       effects' = [effects EXCEPT ![c] = fate]
  /\ UNCHANGED <<calls, lookups>>
  /\ UNCHANGED ledgerVars

\* The tool returns, raises a definite error, or raises IndeterminateOutcome,
\* is cancelled or returns what cannot be stored.  Leaving the heartbeat waits
\* for its thread for a second only, so the thread may outlive it.
ToolReturns(c, outcome, beat) ==
  /\ At(c, "tool")
  /\ outcome = "completed" => effects[c] = "committed"
  /\ outcome = "failed" => effects[c] \in {"none", "refused"}
  /\ beat => calls[c].beat
  /\ calls' = [calls EXCEPT ![c].pc = "report", ![c].answer = outcome,
                            ![c].beat = beat]
  /\ UNCHANGED ledgerVars
  /\ Internal

\* Mutants of Report: an uncertain outcome is stored as a success; a call whose
\* ownership is gone answers with its own outcome all the same, or retries.
ReportHopes(c) ==
  LET r == Run(c)
  IN  /\ At(c, "report")
      /\ \/ /\ \/ calls[c].answer # "failed" /\ CompleteExecution(r, c)
               \/ calls[c].answer = "failed" /\ FailExecution(r, c)
            /\ Goto(c, "read")
         \/ /\ runs[r].owner # c
            /\ UNCHANGED ledgerVars
            /\ Answer(c, "invalid_transition")
      /\ Internal

ReportInsists(c) ==
  LET r == Run(c)
  IN  /\ At(c, "report")
      /\ \/ /\ \/ calls[c].answer = "completed" /\ CompleteExecution(r, c)
               \/ calls[c].answer = "failed" /\ FailExecution(r, c)
               \/ calls[c].answer = "unknown" /\ MarkExecutionUnknown(r, c)
            /\ Goto(c, "read")
         \/ /\ runs[r].owner # c
            /\ UNCHANGED ledgerVars
            /\ Answer(c, calls[c].answer)
      /\ Internal

ReportRetries(c) ==
  LET r == Run(c)
  IN  /\ At(c, "report")
      /\ \/ calls[c].answer = "completed" /\ CompleteExecution(r, c)
         \/ calls[c].answer = "failed" /\ FailExecution(r, c)
         \/ calls[c].answer = "unknown" /\ MarkExecutionUnknown(r, c)
      /\ Goto(c, "read")
      /\ Internal

\* The outcome is reported under the call's own ownership; without it the
\* ledger raises InvalidTransition and so does the call.
Report(c) ==
  LET r == Run(c)
  IN  /\ At(c, "report")
      /\ \/ /\ \/ calls[c].answer = "completed" /\ CompleteExecution(r, c)
               \/ calls[c].answer = "failed" /\ FailExecution(r, c)
               \/ calls[c].answer = "unknown" /\ MarkExecutionUnknown(r, c)
            /\ Goto(c, "read")
         \/ /\ runs[r].owner # c
            /\ UNCHANGED ledgerVars
            /\ Answer(c, "invalid_transition")
      /\ Internal

\* The process dies, or leaves by an exception no handler catches.
Crash(c) ==
  /\ calls[c].pc \notin {"idle", "done", "crashed"}
  /\ calls' = [calls EXCEPT ![c].pc = "crashed", ![c].beat = FALSE]
  /\ UNCHANGED ledgerVars
  /\ Internal

-----------------------------------------------------------------------------
(* Operators and the recovery sweep                                        *)

\* What the provider holds for r: the operations of every call that ran it.
Operations(r) == {effects[c] : c \in {d \in Calls : Run(d) = r}}

\* _load_reconcilable_run and the lookup that follows it.  The lookup reads
\* only the provider and the load only the ledger, so they are one step; the
\* answer is applied later, in a step of its own.
LookUp(o, r, outcome) ==
  /\ lookups[o] = NoLookup
  /\ Reconcilable(r, o)
  /\ outcome = "committed" => "committed" \in Operations(r)
  /\ outcome = "not_committed" =>
       Operations(r) \cap {"committed", "sent"} = {}
  /\ lookups' = [lookups EXCEPT ![o] = [run |-> r, outcome |-> outcome]]
  /\ UNCHANGED <<calls, effects>>
  /\ UNCHANGED ledgerVars

\* reconcile_from_provider applies the observation; reconcile has the operator
\* who looked the provider up state a definite result.
ApplyLookup(o) ==
  LET found == lookups[o]
  IN  /\ found # NoLookup
      /\ \/ ApplyProviderObservation(found.run, found.outcome, o)
         \/ /\ found.outcome = "committed"
            /\ ReconcileRun(found.run, "completed", o)
         \/ /\ found.outcome = "not_committed"
            /\ ReconcileRun(found.run, "failed", o)
      /\ lookups' = [lookups EXCEPT ![o] = NoLookup]
      /\ UNCHANGED <<calls, effects>>

\* Mutant of DropLookup: the operator keeps the run and forgets the outcome.
DropOutcome(o) ==
  /\ lookups[o] # NoLookup
  /\ lookups' = [lookups EXCEPT ![o].outcome = None]
  /\ UNCHANGED <<calls, effects>>
  /\ UNCHANGED ledgerVars

\* The run was settled meanwhile, or the operator gives up.
DropLookup(o) ==
  /\ lookups[o] # NoLookup
  /\ lookups' = [lookups EXCEPT ![o] = NoLookup]
  /\ UNCHANGED <<calls, effects>>
  /\ UNCHANGED ledgerVars

\* Mutants of Sweep: it covers approvals only, or executions only.
SweepApprovals(t) ==
  ExpireApprovals(Tenants, t) /\ UNCHANGED <<calls, effects, lookups>>

SweepExecutions(t) ==
  RecoverExpiredExecutions(Tenants, t) /\ UNCHANGED <<calls, effects, lookups>>

\* POST /v1/operations/recover and agenttrust recover: two transactions, in
\* either order of effect.
Sweep(t) ==
  /\ ExpireApprovals(Tenants, t) \/ RecoverExpiredExecutions(Tenants, t)
  /\ UNCHANGED <<calls, effects, lookups>>

\* approve and reject.
Decide(r, approved, principal, t) ==
  /\ DecideApproval(r, approved, principal, t)
  /\ UNCHANGED <<calls, effects, lookups>>

Time == Tick /\ UNCHANGED <<calls, effects, lookups>>

-----------------------------------------------------------------------------
\* The steps a live process takes by itself, once its tool has returned.
CallStep(c) ==
  \/ DuplicateCounts(c)
  \/ ReadResult(c)
  \/ Report(c)
  \/ \E t \in SampledNow :
       \/ \E outcome \in PolicyOutcome, policy \in Policies :
            EvaluatePolicy(c, outcome, policy, t)
       \/ DuplicateSweepsApprovals(c, t)
       \/ DuplicateSweepsLeases(c, t)
       \/ Claim(c, t)

ToolStep(c) ==
  \/ ToolSends(c)
  \/ \E outcome \in {"completed", "failed", "unknown"}, beat \in BOOLEAN :
       ToolReturns(c, outcome, beat)

RuntimeNext ==
  \/ \E c \in Calls :
       \/ \E request \in Requests : Invoke(c, request)
       \/ \E r \in RunIds : Resume(c, r)
       \/ CallStep(c)
       \/ ToolStep(c)
       \/ ProviderDecides(c)
       \/ \E t \in SampledNow : Heartbeat(c, t)
       \/ HeartbeatDies(c)
       \/ Crash(c)
  \/ \E o \in Operators :
       \/ \E r \in RunIds, outcome \in ProviderOutcome : LookUp(o, r, outcome)
       \/ ApplyLookup(o)
       \/ DropLookup(o)
  \/ \E t \in SampledNow :
       \/ Sweep(t)
       \/ \E r \in RunIds, approved \in BOOLEAN, principal \in Principals :
            Decide(r, approved, principal, t)
  \/ Time

RuntimeSpec == RuntimeInit /\ [][RuntimeNext]_runtimeVars

\* A process that has not crashed goes on, a tool returns (its clients have
\* timeouts), time passes, and somebody keeps calling the recovery endpoint.
\* Nothing is assumed of approvers, operators, crashes or new calls.
Fairness ==
  /\ \A c \in Calls : /\ WF_runtimeVars(CallStep(c))
                      /\ WF_runtimeVars(ToolStep(c))
  /\ WF_runtimeVars(\E t \in SampledNow : Sweep(t))
  /\ WF_runtimeVars(Time)

FairRuntimeSpec == RuntimeSpec /\ Fairness

-----------------------------------------------------------------------------
(* Properties                                                              *)

\* Type invariant of the runtime's own variables.
RuntimeTypeOK ==
  /\ calls \in [Calls ->
       [pc : {"idle", "policy", "sweep_approvals", "sweep_leases", "count",
              "claim", "tool", "report", "read", "done", "crashed"},
        run : RunIds \cup {None}, request : Requests \cup {None},
        beat : BOOLEAN,
        answer : ActionStatus \cup {"conflict", "invalid_transition", None}]]
  /\ effects \in [Calls -> {"none", "sent", "committed", "refused"}]
  /\ lookups \in [Operators ->
       [run : RunIds, outcome : ProviderOutcome] \cup {NoLookup}]

\* One business identity has at most one committed provider operation, however
\* many callers, retries, resumes, crashes and reconciliations there are.
EffectAtMostOnce ==
  \A c, d \in Calls :
    /\ effects[c] = "committed"
    /\ effects[d] = "committed"
    /\ Identity(runs[Run(c)].request) = Identity(runs[Run(d)].request)
    => c = d

\* No operation reaches the provider unless the run was cleared for it, by a
\* policy or by an eligible approver, and its trail says it was started.
EffectIsCleared ==
  /\ ExecutionIsAuthorised
  /\ \A c \in Calls : effects[c] # "none" =>
       "tool.execution.started" \in Types(events[Run(c)])

\* A completed run has its effect: no timeout, lost lease or hasty operator
\* turns an operation that never committed into a success.
CompletedMeansEffect ==
  \A r \in RunIds :
    runs[r].status = "completed" => "committed" \in Operations(r)

\* A terminal status a call returned is the status of its run for good, also
\* when the lease was lost and somebody else settled the run.
AnswerIsDurable ==
  \A c \in Calls :
    At(c, "done") /\ calls[c].answer \in Terminal =>
      runs[Run(c)].status = calls[c].answer

\* A failed run has no effect: "The provider authoritatively confirmed no
\* operation committed" (docs/provider-reconciliation.md:16).
FailedMeansNoEffect ==
  \A r \in RunIds :
    runs[r].status = "failed" => "committed" \notin Operations(r)

\* A call that does not crash returns, whatever the others do.
CallsReturn ==
  \A c \in Calls : calls[c].pc # "idle" ~> calls[c].pc \in {"done", "crashed"}

Unattended(r) == \A c \in Calls : Run(c) = r => ~calls[c].beat

\* An execution nobody renews is given up once its lease is over.
AbandonedIsRecovered ==
  \A r \in RunIds :
    (/\ runs[r].status = "executing"
     /\ runs[r].lease <= MaxClock
     /\ Unattended(r)) ~> runs[r].status # "executing"

\* An approval nobody decides lapses.
PendingLapses ==
  \A r \in RunIds :
    (/\ runs[r].status = "pending_approval"
     /\ approvals[r].expires <= MaxClock)
      ~> runs[r].status # "pending_approval"

\* A run a policy has cleared is executed or given up in the end, also when
\* its executor dies first: "dead executors remaining stuck" is a threat
\* docs/threat-model.md:22 lists as covered.
ClearedIsNotForgotten ==
  \A r \in RunIds :
    (runs[r].status = "created" /\ runs[r].policy # None)
      ~> runs[r].status # "created"
=============================================================================
