------------------------- MODULE TrustedActionProofs -------------------------
(***************************************************************************)
(* Safety of TrustedAction: whatever calls, crashes, heartbeats, sweeps,   *)
(* approvers and operators do, the ledger takes steps of its own           *)
(* specification only, so what is proved of ActionLedger holds of the      *)
(* runtime; and what the provider is asked to do is cleared, happens once  *)
(* per business identity, and agrees with what the ledger and the callers  *)
(* are told.                                                               *)
(***************************************************************************)
EXTENDS TrustedAction, LedgerSafetyProofs

-----------------------------------------------------------------------------
(* Every step of the runtime is a step of the ledger, or leaves it alone.  *)

\* A call between its first transaction and its answer.
Active ==
  {"policy", "sweep_approvals", "sweep_leases", "count", "claim", "tool",
   "report", "read"}

\* A call that goes on has a run that is stored; what the ledger is asked for
\* is always a run, and the tenant a duplicate sweeps is that of a request.
Placed(c) ==
  /\ calls[c].pc \in Active => Run(c) \in RunIds /\ runs[Run(c)] # NoRow
  /\ calls[c].pc \in {"sweep_approvals", "sweep_leases"} =>
       calls[c].request \in Requests
  /\ calls[c].beat => Run(c) \in RunIds

PlacedInv == TypeOK /\ RuntimeTypeOK /\ \A c \in Calls : Placed(c)

LEMMA OwnersAreCalls == Calls = RunIds /\ Owners = RunIds /\ None \notin RunIds
  BY LedgerAssumption, RuntimeAssumption DEF Calls

\* The ledger transactions of a call are those of its run.
LEMMA CallLedgerStep ==
  ASSUME PlacedInv, NEW c \in Calls, CallStep(c)
  PROVE  [Next]_vars
  <1> USE OwnersAreCalls
  <1>1. CASE DuplicateCounts(c)
    <2>1. Run(c) \in RunIds
      BY <1>1 DEF DuplicateCounts, At, Active, PlacedInv, Placed
    <2> QED
      BY <1>1, <2>1 DEF DuplicateCounts, Next
  <1>2. CASE ReadResult(c)
    BY <1>2 DEF ReadResult, ledgerVars, vars
  <1>3. CASE Report(c)
    <2>1. Run(c) \in RunIds
      BY <1>3 DEF Report, At, Active, PlacedInv, Placed
    <2>2. CASE UNCHANGED ledgerVars
      BY <2>2 DEF ledgerVars, vars
    <2>3. CASE \/ CompleteExecution(Run(c), c)
               \/ FailExecution(Run(c), c)
               \/ MarkExecutionUnknown(Run(c), c)
      BY <2>1, <2>3 DEF Next
    <2> QED
      BY <1>3, <2>2, <2>3 DEF Report
  <1>4. ASSUME NEW t \in SampledNow, NEW outcome \in PolicyOutcome,
               NEW policy \in Policies, EvaluatePolicy(c, outcome, policy, t)
        PROVE  [Next]_vars
    <2>1. Run(c) \in RunIds
      BY <1>4 DEF EvaluatePolicy, At, Active, PlacedInv, Placed
    <2> QED
      BY <1>4, <2>1 DEF EvaluatePolicy, Next
  <1>5. ASSUME NEW t \in SampledNow, DuplicateSweepsApprovals(c, t)
        PROVE  [Next]_vars
    <2>1. {calls[c].request.tenant} \in Scopes
      BY <1>5 DEF DuplicateSweepsApprovals, At, PlacedInv, Placed, Scopes, Tenants
    <2> QED
      BY <1>5, <2>1 DEF DuplicateSweepsApprovals, Next
  <1>6. ASSUME NEW t \in SampledNow, DuplicateSweepsLeases(c, t)
        PROVE  [Next]_vars
    <2>1. {calls[c].request.tenant} \in Scopes
      BY <1>6 DEF DuplicateSweepsLeases, At, PlacedInv, Placed, Scopes, Tenants
    <2> QED
      BY <1>6, <2>1 DEF DuplicateSweepsLeases, Next
  <1>7. ASSUME NEW t \in SampledNow, Claim(c, t)
        PROVE  [Next]_vars
    <2>1. Run(c) \in RunIds
      BY <1>7 DEF Claim, At, Active, PlacedInv, Placed
    <2>2. CASE UNCHANGED ledgerVars
      BY <2>2 DEF ledgerVars, vars
    <2>3. CASE ClaimExecution(Run(c), c, t)
      BY <2>1, <2>3 DEF Next
    <2> QED
      BY <1>7, <2>2, <2>3 DEF Claim
  <1> QED
    BY <1>1, <1>2, <1>3, <1>4, <1>5, <1>6, <1>7 DEF CallStep

LEMMA LedgerStep ==
  ASSUME PlacedInv, [RuntimeNext]_runtimeVars
  PROVE  [Next]_vars
  <1> USE OwnersAreCalls
  <1>1. ASSUME UNCHANGED ledgerVars
        PROVE  [Next]_vars
    BY <1>1 DEF ledgerVars, vars
  <1>2. CASE UNCHANGED runtimeVars
    BY <1>2 DEF runtimeVars, vars
  <1>3. ASSUME NEW c \in Calls, NEW request \in Requests, Invoke(c, request)
        PROVE  [Next]_vars
    <2>1. CASE CreateRun(c, request)
      BY <2>1 DEF Next
    <2> QED
      BY <1>1, <1>3, <2>1 DEF Invoke
  <1>4. ASSUME NEW c \in Calls, NEW r \in RunIds, Resume(c, r)
        PROVE  [Next]_vars
    BY <1>1, <1>4 DEF Resume
  <1>5. ASSUME NEW c \in Calls, ToolStep(c)
        PROVE  [Next]_vars
    BY <1>1, <1>5 DEF ToolStep, ToolSends, ToolReturns
  <1>6. ASSUME NEW c \in Calls,
               ProviderDecides(c) \/ HeartbeatDies(c) \/ Crash(c)
        PROVE  [Next]_vars
    BY <1>1, <1>6 DEF ProviderDecides, HeartbeatDies, Crash
  <1>7. ASSUME NEW c \in Calls, NEW t \in SampledNow, Heartbeat(c, t)
        PROVE  [Next]_vars
    <2>1. Run(c) \in RunIds
      BY <1>7 DEF Heartbeat, PlacedInv, Placed
    <2>2. CASE HeartbeatExecution(Run(c), c, t)
      BY <2>1, <2>2 DEF Next
    <2> QED
      BY <1>1, <1>7, <2>2 DEF Heartbeat
  <1>8. ASSUME NEW o \in Operators, NEW r \in RunIds,
               NEW outcome \in ProviderOutcome, LookUp(o, r, outcome)
        PROVE  [Next]_vars
    BY <1>1, <1>8 DEF LookUp
  <1>9. ASSUME NEW o \in Operators, DropLookup(o)
        PROVE  [Next]_vars
    BY <1>1, <1>9 DEF DropLookup
  <1>10. ASSUME NEW o \in Operators, ApplyLookup(o)
         PROVE  [Next]_vars
    <2>1. /\ lookups[o].run \in RunIds
          /\ lookups[o].outcome \in ProviderOutcome
      BY <1>10 DEF ApplyLookup, PlacedInv, RuntimeTypeOK
    <2>2. o \in Principals
      BY RuntimeAssumption
    <2>3. \/ ApplyProviderObservation(lookups[o].run, lookups[o].outcome, o)
          \/ ReconcileRun(lookups[o].run, "completed", o)
          \/ ReconcileRun(lookups[o].run, "failed", o)
      BY <1>10 DEF ApplyLookup
    <2> QED
      BY <2>1, <2>2, <2>3 DEF Next
  <1>11. ASSUME NEW t \in SampledNow, Sweep(t)
         PROVE  [Next]_vars
    <2>1. Tenants \in Scopes
      BY DEF Scopes
    <2> QED
      BY <1>11, <2>1 DEF Sweep, Next
  <1>12. ASSUME NEW t \in SampledNow, NEW r \in RunIds,
                NEW approved \in BOOLEAN, NEW principal \in Principals,
                Decide(r, approved, principal, t)
         PROVE  [Next]_vars
    BY <1>12 DEF Decide, Next
  <1>13. CASE Time
    BY <1>13 DEF Time, Next
  <1> QED
    BY <1>2, <1>3, <1>4, <1>5, <1>6, <1>7, <1>8, <1>9, <1>10, <1>11, <1>12,
       <1>13, CallLedgerStep DEF RuntimeNext

-----------------------------------------------------------------------------
(* Types of the runtime's own variables, and where a call may stand.       *)

Call ==
  [pc : Active \cup {"idle", "done", "crashed"},
   run : RunIds \cup {None}, request : Requests \cup {None},
   beat : BOOLEAN,
   answer : ActionStatus \cup {"conflict", "invalid_transition", None}]

EffectsTyped == effects \in [Calls -> {"none", "sent", "committed", "refused"}]

LookupsTyped ==
  lookups \in [Operators ->
    [run : RunIds, outcome : ProviderOutcome] \cup {NoLookup}]

LEMMA ProgramCounters ==
  Active \cup {"idle", "done", "crashed"} =
    {"idle", "policy", "sweep_approvals", "sweep_leases", "count",
     "claim", "tool", "report", "read", "done", "crashed"}
  BY DEF Active

LEMMA RuntimeTypes ==
  /\ RuntimeTypeOK <=> calls \in [Calls -> Call] /\ EffectsTyped /\ LookupsTyped
  /\ RuntimeTypeOK' <=>
       calls' \in [Calls -> Call] /\ EffectsTyped' /\ LookupsTyped'
  BY ProgramCounters DEF RuntimeTypeOK, Call, EffectsTyped, LookupsTyped

\* A step of one call: its new row is typed and placed.
CallGoes(c, row) ==
  /\ calls' = [calls EXCEPT ![c] = row]
  /\ row \in Call
  /\ row.pc \in Active => row.run \in RunIds /\ runs'[row.run] # NoRow
  /\ row.pc \in {"sweep_approvals", "sweep_leases"} => row.request \in Requests
  /\ row.beat => row.run \in RunIds

LEMMA OthersPlaced ==
  ASSUME PlacedInv, [Next]_vars, NEW d \in Calls, calls'[d] = calls[d]
  PROVE  Placed(d)'
  <1>1. Placed(d)
    BY DEF PlacedInv
  <1>2. ASSUME Run(d) \in RunIds, runs[Run(d)] # NoRow
        PROVE  runs'[Run(d)] # NoRow
    BY <1>2, RequestKept DEF PlacedInv
  <1> QED
    BY <1>1, <1>2 DEF Placed, Run

LEMMA CallPlaced ==
  ASSUME PlacedInv, [Next]_vars, NEW c \in Calls, NEW row, CallGoes(c, row),
         EffectsTyped', LookupsTyped'
  PROVE  PlacedInv'
  <1>1. TypeOK'
    BY TypeStep DEF PlacedInv
  <1>2. calls \in [Calls -> Call]
    BY RuntimeTypes DEF PlacedInv
  <1>3. RuntimeTypeOK'
    BY <1>2, RuntimeTypes DEF CallGoes
  <1>4. ASSUME NEW d \in Calls
        PROVE  Placed(d)'
    <2>1. CASE d = c
      BY <1>2, <2>1 DEF CallGoes, Placed, Run
    <2>2. CASE d # c
      BY <1>2, <2>2, OthersPlaced DEF CallGoes
    <2> QED
      BY <2>1, <2>2
  <1> QED
    BY <1>1, <1>3, <1>4 DEF PlacedInv

LEMMA CallsPlaced ==
  ASSUME PlacedInv, [Next]_vars, UNCHANGED calls, EffectsTyped', LookupsTyped'
  PROVE  PlacedInv'
  <1>1. TypeOK'
    BY TypeStep DEF PlacedInv
  <1>2. RuntimeTypeOK'
    BY RuntimeTypes DEF PlacedInv
  <1> QED
    BY <1>1, <1>2, OthersPlaced DEF PlacedInv

\* A call moves on within its run.
LEMMA GoesOn ==
  ASSUME PlacedInv, [Next]_vars, NEW c \in Calls, calls[c].pc \in Active,
         NEW pc \in Active \ {"sweep_approvals"}, NEW beat \in BOOLEAN,
         NEW answer \in {"completed", "failed", "unknown", calls[c].answer},
         calls' = [calls EXCEPT ![c] = [@ EXCEPT !.pc = pc, !.beat = beat,
                                                 !.answer = answer]],
         pc = "sweep_leases" => calls[c].pc = "sweep_approvals",
         UNCHANGED <<effects, lookups>>
  PROVE  PlacedInv'
  <1> DEFINE row == [calls[c] EXCEPT !.pc = pc, !.beat = beat,
                                     !.answer = answer]
  <1>1. /\ calls[c] \in Call
        /\ EffectsTyped'
        /\ LookupsTyped'
    BY RuntimeTypes DEF PlacedInv, EffectsTyped, LookupsTyped
  <1>2. Placed(c)
    BY DEF PlacedInv
  <1>3. runs'[Run(c)] # NoRow
    BY <1>2, RequestKept DEF Placed, PlacedInv
  <1>4. answer \in ActionStatus \cup {"conflict", "invalid_transition", None}
    BY <1>1 DEF Call, ActionStatus, Terminal
  <1>5. row \in Call
    BY <1>1, <1>4 DEF Call
  <1>6. CallGoes(c, row)
    BY <1>1, <1>2, <1>3, <1>5 DEF CallGoes, Placed, Run, Call
  <1> QED
    BY <1>1, <1>6, CallPlaced

\* A call ends with an answer, or because its process dies.
LEMMA Stops ==
  ASSUME PlacedInv, [Next]_vars, NEW c \in Calls,
         NEW pc \in {"done", "crashed"}, NEW beat \in BOOLEAN,
         beat => calls[c].beat,
         NEW answer \in ActionStatus
           \cup {"conflict", "invalid_transition", None, calls[c].answer},
         calls' = [calls EXCEPT ![c] = [@ EXCEPT !.pc = pc, !.beat = beat,
                                                 !.answer = answer]],
         UNCHANGED <<effects, lookups>>
  PROVE  PlacedInv'
  <1> DEFINE row == [calls[c] EXCEPT !.pc = pc, !.beat = beat,
                                     !.answer = answer]
  <1>1. /\ calls[c] \in Call
        /\ EffectsTyped'
        /\ LookupsTyped'
    BY RuntimeTypes DEF PlacedInv, EffectsTyped, LookupsTyped
  <1>2. Placed(c)
    BY DEF PlacedInv
  <1>3. row \in Call
    BY <1>1 DEF Call
  <1>4. CallGoes(c, row)
    BY <1>1, <1>2, <1>3 DEF CallGoes, Placed, Run, Call, Active
  <1> QED
    BY <1>1, <1>4, CallPlaced

LEMMA RowOf ==
  ASSUME PlacedInv, NEW c \in Calls
  PROVE  /\ calls[c] \in Call
         /\ \A pc : Goto(c, pc) =>
              calls' = [calls EXCEPT ![c] =
                [@ EXCEPT !.pc = pc, !.beat = calls[c].beat,
                          !.answer = calls[c].answer]]
         /\ \A answer : Answer(c, answer) =>
              calls' = [calls EXCEPT ![c] =
                [@ EXCEPT !.pc = "done", !.beat = calls[c].beat,
                          !.answer = answer]]
  <1>1. calls \in [Calls -> Call]
    BY RuntimeTypes DEF PlacedInv
  <1>2. calls[c] \in Call
    BY <1>1
  <1>3. \A pc : [calls[c] EXCEPT !.pc = pc] =
          [calls[c] EXCEPT !.pc = pc, !.beat = calls[c].beat,
                           !.answer = calls[c].answer]
    BY <1>2 DEF Call
  <1>4. \A answer : [calls[c] EXCEPT !.pc = "done", !.answer = answer] =
          [calls[c] EXCEPT !.pc = "done", !.beat = calls[c].beat,
                           !.answer = answer]
    BY <1>2 DEF Call
  <1> QED
    BY <1>1, <1>2, <1>3, <1>4 DEF Goto, Answer

\* The status a call reads back is one of the schema's.
LEMMA StatusRead ==
  ASSUME PlacedInv, NEW r \in RunIds, runs[r] # NoRow
  PROVE  runs[r].status \in ActionStatus
  BY DEF PlacedInv, TypeOK, Row

LEMMA CallStepPlaced ==
  ASSUME PlacedInv, NEW c \in Calls, CallStep(c)
  PROVE  PlacedInv'
  <1>1. [Next]_vars
    BY CallLedgerStep
  <1>2. ASSUME calls[c].pc \in Active, Internal,
               NEW pc \in Active \ {"sweep_approvals"}, Goto(c, pc),
               pc = "sweep_leases" => calls[c].pc = "sweep_approvals"
        PROVE  PlacedInv'
    <2>1. calls[c] \in Call
      BY RowOf
    <2>2. calls[c].beat \in BOOLEAN
      BY <2>1 DEF Call
    <2>3. calls' = [calls EXCEPT ![c] =
            [@ EXCEPT !.pc = pc, !.beat = calls[c].beat,
                      !.answer = calls[c].answer]]
      BY <1>2, RowOf
    <2>4. calls[c].answer \in {"completed", "failed", "unknown", calls[c].answer}
      OBVIOUS
    <2>5. UNCHANGED <<effects, lookups>>
      BY <1>2 DEF Internal
    <2> QED
      BY <1>1, <1>2, <2>2, <2>3, <2>4, <2>5, GoesOn
  <1>3. ASSUME Internal,
               NEW answer \in ActionStatus
                 \cup {"conflict", "invalid_transition", None},
               Answer(c, answer)
        PROVE  PlacedInv'
    <2>1. calls[c] \in Call
      BY RowOf
    <2>2. calls[c].beat \in BOOLEAN
      BY <2>1 DEF Call
    <2>3. calls' = [calls EXCEPT ![c] =
            [@ EXCEPT !.pc = "done", !.beat = calls[c].beat, !.answer = answer]]
      BY <1>3, RowOf
    <2>4. /\ "done" \in {"done", "crashed"}
          /\ answer \in ActionStatus
               \cup {"conflict", "invalid_transition", None, calls[c].answer}
          /\ UNCHANGED <<effects, lookups>>
      BY <1>3 DEF Internal
    <2> QED
      BY <1>1, <2>2, <2>3, <2>4, Stops
  <1>4. CASE DuplicateCounts(c)
    BY <1>2, <1>4 DEF DuplicateCounts, At, Active
  <1>5. CASE ReadResult(c)
    <2>1. Run(c) \in RunIds /\ runs[Run(c)] # NoRow
      BY <1>5 DEF ReadResult, At, Active, PlacedInv, Placed
    <2>2. runs[Run(c)].status \in ActionStatus
      BY <2>1, StatusRead
    <2> QED
      BY <1>3, <1>5, <2>2 DEF ReadResult
  <1>6. CASE Report(c)
    <2>1. CASE Goto(c, "read")
      BY <1>2, <1>6, <2>1 DEF Report, At, Active
    <2>2. CASE Answer(c, "invalid_transition")
      BY <1>3, <1>6, <2>2 DEF Report
    <2> QED
      BY <1>6, <2>1, <2>2 DEF Report
  <1>7. ASSUME NEW t \in SampledNow, NEW outcome \in PolicyOutcome,
               NEW policy \in Policies, EvaluatePolicy(c, outcome, policy, t)
        PROVE  PlacedInv'
    <2>1. CASE outcome = "allow"
      BY <1>2, <1>7, <2>1 DEF EvaluatePolicy, At, Active
    <2>2. CASE outcome # "allow"
      BY <1>2, <1>7, <2>2 DEF EvaluatePolicy, At, Active
    <2> QED
      BY <2>1, <2>2
  <1>8. ASSUME NEW t \in SampledNow, DuplicateSweepsApprovals(c, t)
        PROVE  PlacedInv'
    BY <1>2, <1>8 DEF DuplicateSweepsApprovals, At, Active
  <1>9. ASSUME NEW t \in SampledNow, DuplicateSweepsLeases(c, t)
        PROVE  PlacedInv'
    BY <1>2, <1>9 DEF DuplicateSweepsLeases, At, Active
  <1>10. ASSUME NEW t \in SampledNow, Claim(c, t)
         PROVE  PlacedInv'
    <2>1. CASE Goto(c, "read")
      BY <1>2, <1>10, <2>1 DEF Claim, At, Active
    <2>2. CASE calls' = [calls EXCEPT ![c].pc = "tool", ![c].beat = TRUE]
      <3>1. calls \in [Calls -> Call]
        BY RuntimeTypes DEF PlacedInv
      <3>2. [calls[c] EXCEPT !.pc = "tool", !.beat = TRUE] =
              [calls[c] EXCEPT !.pc = "tool", !.beat = TRUE,
                               !.answer = calls[c].answer]
        BY <3>1 DEF Call
      <3>3. calls' = [calls EXCEPT ![c] =
              [@ EXCEPT !.pc = "tool", !.beat = TRUE,
                        !.answer = calls[c].answer]]
        BY <2>2, <3>1, <3>2
      <3>4. /\ "tool" \in Active \ {"sweep_approvals"}
            /\ calls[c].pc \in Active
        BY <1>10 DEF Claim, At, Active
      <3> QED
        BY <1>1, <1>10, <3>3, <3>4, GoesOn DEF Claim, Internal
    <2> QED
      BY <1>10, <2>1, <2>2 DEF Claim
  <1> QED
    BY <1>4, <1>5, <1>6, <1>7, <1>8, <1>9, <1>10 DEF CallStep

\* A new call: it has a run that is stored, or it ends at once.
LEMMA InvokePlaced ==
  ASSUME PlacedInv, [Next]_vars, NEW c \in Calls, NEW request \in Requests,
         Invoke(c, request)
  PROVE  PlacedInv'
  <1> USE OwnersAreCalls
  <1>1. /\ calls \in [Calls -> Call]
        /\ EffectsTyped'
        /\ LookupsTyped'
    BY RuntimeTypes DEF PlacedInv, EffectsTyped, LookupsTyped, Invoke, Internal
  <1>2. calls[c] \in Call /\ Placed(c)
    BY <1>1 DEF PlacedInv
  <1>3. ASSUME NEW r \in RunIds, runs'[r] # NoRow,
               NEW pc \in {"policy", "sweep_approvals"},
               calls' = [calls EXCEPT ![c].pc = pc, ![c].run = r,
                                      ![c].request = request]
        PROVE  PlacedInv'
    <2> DEFINE row == [calls[c] EXCEPT !.pc = pc, !.run = r, !.request = request]
    <2>1. row \in Call
      BY <1>2 DEF Call, Active
    <2>2. CallGoes(c, row)
      BY <1>1, <1>2, <1>3, <2>1 DEF CallGoes, Call
    <2> QED
      BY <1>1, <2>2, CallPlaced
  <1>4. CASE CreateRun(c, request)
             /\ calls' = [calls EXCEPT ![c].pc = "policy", ![c].run = c,
                                       ![c].request = request]
    <2>1. runs'[c].status = "created"
      BY <1>4 DEF CreateRun, Commit, PlacedInv, TypeOK, NoRow
    <2>2. runs'[c] # NoRow
      BY <2>1, NoRowColumns
    <2> QED
      BY <1>3, <1>4, <2>2
  <1>5. CASE UNCHANGED ledgerVars
             /\ \E r \in Stored(request) :
                  calls' = [calls EXCEPT ![c].pc = "sweep_approvals",
                                         ![c].run = r, ![c].request = request]
    <2>1. PICK r \in Stored(request) :
            calls' = [calls EXCEPT ![c].pc = "sweep_approvals",
                                   ![c].run = r, ![c].request = request]
      BY <1>5
    <2>2. r \in RunIds /\ runs'[r] # NoRow
      BY <1>5 DEF Stored, ledgerVars
    <2> QED
      BY <1>3, <2>1, <2>2
  <1>6. CASE Answer(c, "conflict")
    <2>1. calls[c].beat \in BOOLEAN
      BY <1>2 DEF Call
    <2>2. calls' = [calls EXCEPT ![c] =
            [@ EXCEPT !.pc = "done", !.beat = calls[c].beat,
                      !.answer = "conflict"]]
      BY <1>6, RowOf
    <2>3. /\ "done" \in {"done", "crashed"}
          /\ "conflict" \in ActionStatus
               \cup {"conflict", "invalid_transition", None, calls[c].answer}
          /\ UNCHANGED <<effects, lookups>>
      BY DEF Invoke, Internal
    <2> QED
      BY <2>1, <2>2, <2>3, Stops
  <1> QED
    BY <1>4, <1>5, <1>6 DEF Invoke

LEMMA ResumePlaced ==
  ASSUME PlacedInv, [Next]_vars, NEW c \in Calls, NEW r \in RunIds,
         Resume(c, r)
  PROVE  PlacedInv'
  <1>1. /\ calls \in [Calls -> Call]
        /\ EffectsTyped'
        /\ LookupsTyped'
    BY RuntimeTypes DEF PlacedInv, EffectsTyped, LookupsTyped, Resume, Internal
  <1>2. calls[c] \in Call /\ Placed(c)
    BY <1>1 DEF PlacedInv
  <1>3. CASE /\ runs[r].status = "approved"
             /\ calls' = [calls EXCEPT ![c].pc = "claim", ![c].run = r]
    <2> DEFINE row == [calls[c] EXCEPT !.pc = "claim", !.run = r]
    <2>1. runs'[r] # NoRow
      BY <1>3, NoRowColumns DEF Resume, ledgerVars
    <2>2. row \in Call
      BY <1>2 DEF Call, Active
    <2>3. CallGoes(c, row)
      BY <1>1, <1>2, <1>3, <2>1, <2>2 DEF CallGoes, Call
    <2> QED
      BY <1>1, <2>3, CallPlaced
  <1>4. CASE calls' = [calls EXCEPT ![c].pc = "done", ![c].run = r,
                                    ![c].answer = "completed"]
    <2> DEFINE row == [calls[c] EXCEPT !.pc = "done", !.run = r,
                                       !.answer = "completed"]
    <2>1. row \in Call
      BY <1>2 DEF Call, ActionStatus, Terminal
    <2>2. CallGoes(c, row)
      BY <1>1, <1>2, <1>4, <2>1 DEF CallGoes, Call, Active
    <2> QED
      BY <1>1, <2>2, CallPlaced
  <1> QED
    BY <1>3, <1>4 DEF Resume

LEMMA ToolPlaced ==
  ASSUME PlacedInv, [Next]_vars, NEW c \in Calls, ToolStep(c)
  PROVE  PlacedInv'
  <1>1. CASE ToolSends(c)
    <2>1. EffectsTyped' /\ LookupsTyped'
      BY <1>1, RuntimeTypes DEF PlacedInv, EffectsTyped, LookupsTyped, ToolSends
    <2> QED
      BY <1>1, <2>1, CallsPlaced DEF ToolSends
  <1>2. ASSUME NEW outcome \in {"completed", "failed", "unknown"},
               NEW beat \in BOOLEAN, ToolReturns(c, outcome, beat)
        PROVE  PlacedInv'
    <2>1. calls \in [Calls -> Call]
      BY RuntimeTypes DEF PlacedInv
    <2>2. calls' = [calls EXCEPT ![c] = [@ EXCEPT !.pc = "report", !.beat = beat,
                                                  !.answer = outcome]]
      <3>1. [calls[c] EXCEPT !.pc = "report", !.answer = outcome, !.beat = beat] =
            [calls[c] EXCEPT !.pc = "report", !.beat = beat, !.answer = outcome]
        BY <2>1 DEF Call
      <3> QED
        BY <1>2, <2>1, <3>1 DEF ToolReturns
    <2>3. /\ calls[c].pc \in Active
          /\ "report" \in Active \ {"sweep_approvals"}
          /\ outcome \in {"completed", "failed", "unknown", calls[c].answer}
          /\ UNCHANGED <<effects, lookups>>
      BY <1>2 DEF ToolReturns, At, Active, Internal
    <2> DEFINE pc == "report"
    <2>4. /\ pc \in Active \ {"sweep_approvals"}
          /\ pc # "sweep_leases"
          /\ calls' = [calls EXCEPT ![c] = [@ EXCEPT !.pc = pc, !.beat = beat,
                                                    !.answer = outcome]]
      BY <2>2, <2>3
    <2> HIDE DEF pc
    <2> QED
      BY <2>3, <2>4, GoesOn
  <1> QED
    BY <1>1, <1>2 DEF ToolStep

\* The heartbeat thread ends, or the process dies.
LEMMA ThreadPlaced ==
  ASSUME PlacedInv, [Next]_vars, NEW c \in Calls,
         \/ \E t \in SampledNow : Heartbeat(c, t)
         \/ HeartbeatDies(c)
         \/ Crash(c)
  PROVE  PlacedInv'
  <1>1. /\ calls \in [Calls -> Call]
        /\ EffectsTyped'
        /\ LookupsTyped'
    BY RuntimeTypes DEF PlacedInv, EffectsTyped, LookupsTyped, Heartbeat,
       HeartbeatDies, Crash, Internal
  <1>2. calls[c] \in Call /\ Placed(c)
    BY <1>1 DEF PlacedInv
  <1>3. CASE UNCHANGED calls
    BY <1>1, <1>3, CallsPlaced
  <1>4. CASE calls' = [calls EXCEPT ![c].beat = FALSE]
    <2> DEFINE row == [calls[c] EXCEPT !.beat = FALSE]
    <2>1. row \in Call
      BY <1>2 DEF Call
    <2>2. runs[Run(c)] # NoRow /\ Run(c) \in RunIds => runs'[Run(c)] # NoRow
      BY RequestKept DEF PlacedInv
    <2>3. CallGoes(c, row)
      BY <1>1, <1>2, <1>4, <2>1, <2>2 DEF CallGoes, Call, Placed, Run
    <2> QED
      BY <1>1, <2>3, CallPlaced
  <1>5. CASE calls' = [calls EXCEPT ![c].pc = "crashed", ![c].beat = FALSE]
    <2> DEFINE row == [calls[c] EXCEPT !.pc = "crashed", !.beat = FALSE]
    <2>1. row \in Call
      BY <1>2 DEF Call
    <2>2. CallGoes(c, row)
      BY <1>1, <1>2, <1>5, <2>1 DEF CallGoes, Call, Active
    <2> QED
      BY <1>1, <2>2, CallPlaced
  <1> QED
    BY <1>3, <1>4, <1>5 DEF Heartbeat, HeartbeatDies, Crash

LEMMA OperatorPlaced ==
  ASSUME PlacedInv, [Next]_vars, NEW o \in Operators,
         \/ \E r \in RunIds, outcome \in ProviderOutcome : LookUp(o, r, outcome)
         \/ ApplyLookup(o)
         \/ DropLookup(o)
  PROVE  PlacedInv'
  <1>1. EffectsTyped /\ LookupsTyped
    BY RuntimeTypes DEF PlacedInv
  <1>2. EffectsTyped' /\ UNCHANGED calls
    BY <1>1 DEF LookUp, ApplyLookup, DropLookup, EffectsTyped
  <1>3. LookupsTyped'
    BY <1>1 DEF LookUp, ApplyLookup, DropLookup, LookupsTyped
  <1> QED
    BY <1>2, <1>3, CallsPlaced

LEMMA PlacedInvStep ==
  ASSUME PlacedInv, [RuntimeNext]_runtimeVars
  PROVE  PlacedInv'
  <1>1. [Next]_vars
    BY LedgerStep
  <1>2. ASSUME UNCHANGED <<calls, effects, lookups>>
        PROVE  PlacedInv'
    <2>1. EffectsTyped' /\ LookupsTyped'
      BY <1>2, RuntimeTypes DEF PlacedInv, EffectsTyped, LookupsTyped
    <2> QED
      BY <1>1, <1>2, <2>1, CallsPlaced
  <1>3. CASE UNCHANGED runtimeVars
    BY <1>2, <1>3 DEF runtimeVars
  <1>4. ASSUME NEW c \in Calls, ProviderDecides(c)
        PROVE  PlacedInv'
    <2>1. EffectsTyped' /\ LookupsTyped'
      BY <1>4, RuntimeTypes
         DEF PlacedInv, EffectsTyped, LookupsTyped, ProviderDecides
    <2> QED
      BY <1>1, <1>4, <2>1, CallsPlaced DEF ProviderDecides
  <1>5. ASSUME NEW t \in SampledNow,
               \/ Sweep(t)
               \/ \E r \in RunIds, approved \in BOOLEAN, principal \in Principals :
                    Decide(r, approved, principal, t)
        PROVE  PlacedInv'
    BY <1>2, <1>5 DEF Sweep, Decide
  <1>6. CASE Time
    BY <1>2, <1>6 DEF Time
  <1> QED
    BY <1>1, <1>3, <1>4, <1>5, <1>6, CallStepPlaced, InvokePlaced, ResumePlaced,
       ToolPlaced, ThreadPlaced, OperatorPlaced DEF RuntimeNext

LEMMA PlacedInvInit ==
  ASSUME RuntimeInit
  PROVE  PlacedInv
  <1>1. TypeOK
    BY LedgerAssumption DEF RuntimeInit, Init, TypeOK
  <1>2. NoCall \in Call
    BY DEF NoCall, Call
  <1>3. RuntimeTypeOK
    BY <1>2, RuntimeTypes DEF RuntimeInit, EffectsTyped, LookupsTyped
  <1>4. \A c \in Calls : Placed(c)
    BY DEF RuntimeInit, NoCall, Placed, Active
  <1> QED
    BY <1>1, <1>3, <1>4 DEF PlacedInv

LEMMA PlacedInvHolds == RuntimeSpec => []PlacedInv
  BY PlacedInvInit, PlacedInvStep, PTL DEF RuntimeSpec

(* The runtime's own variables keep their types, and a call never loses the  *)
(* run it works on.                                                          *)
THEOREM RuntimeTypesCorrect == RuntimeSpec => []RuntimeTypeOK
  <1>1. PlacedInv => RuntimeTypeOK
    BY DEF PlacedInv
  <1> QED
    BY <1>1, PlacedInvHolds, PTL

(* The runtime, its heartbeats and crashes, its operators and its sweeps use *)
(* the ledger only in ways the ledger's specification allows: what is proved *)
(* of ActionLedger for every caller holds of these callers.                  *)
THEOREM RuntimeUsesLedger == RuntimeSpec => Spec
  <1>1. RuntimeInit => Init
    BY DEF RuntimeInit
  <1>2. PlacedInv /\ [RuntimeNext]_runtimeVars => [Next]_vars
    BY LedgerStep
  <1> QED
    BY <1>1, <1>2, PlacedInvHolds, PTL DEF RuntimeSpec, Spec

-----------------------------------------------------------------------------
(* Calls and the runs they started.                                        *)

\* A call that started its run: its tool runs, or left something behind.
Running(c) == calls[c].pc \in {"tool", "report"} \/ effects[c] # "none"

\* A call that started a run finds it started; it reports a success only of an
\* operation that committed; a final answer is the status of the run.
Sound(c) ==
  /\ Running(c) => Run(c) \in RunIds /\ runs[Run(c)].status \in Executed
  /\ calls[c].pc = "idle" => Run(c) = None
  /\ calls[c].pc = "report" /\ calls[c].answer = "completed" =>
       effects[c] = "committed"
  /\ calls[c].pc = "done" /\ calls[c].answer \in Terminal =>
       Run(c) \in RunIds /\ runs[Run(c)].status = calls[c].answer

SoundInv == \A c \in Calls : Sound(c)

\* What every step does for a call: an operation is never forgotten.
Continues(c) ==
  /\ effects[c] # "none" => calls'[c].run = calls[c].run
  /\ effects[c] = "committed" => effects'[c] = "committed"
  /\ Sound(c)'

\* What every step but a claim does: it starts nothing.
StartsNothing(c) == Running(c)' => Running(c) /\ calls'[c].run = calls[c].run

LEMMA StatusStays ==
  ASSUME TypeOK, [Next]_vars, NEW r \in RunIds
  PROVE  /\ runs[r].status \in Executed => runs'[r].status \in Executed
         /\ runs[r].status \in Terminal => runs'[r].status = runs[r].status
  <1>1. ColumnStep(r)
    BY StepLocal, ColumnsOf
  <1> QED
    BY <1>1, NoRowColumns
       DEF ColumnStep, Kept, Entered, Permitted, Denied, Asked, Judged, Lapsed,
           Pending, Began, Claimable, Ended, Resolved, Turned, Moved, Executed,
           Terminal

\* A call none of whose columns the invariant speaks of changes.
LEMMA SameCall ==
  ASSUME PlacedInv, [Next]_vars, NEW c \in Calls, Sound(c),
         calls'[c].pc = calls[c].pc, calls'[c].run = calls[c].run,
         calls'[c].answer = calls[c].answer, effects'[c] = effects[c]
  PROVE  Continues(c) /\ StartsNothing(c)
  <1>1. TypeOK
    BY DEF PlacedInv
  <1> QED
    BY <1>1, StatusStays DEF Continues, StartsNothing, Sound, Running, Run

\* A call that moves on, not to its tool, its report or its answer.
LEMMA MovesOn ==
  ASSUME PlacedInv, [Next]_vars, NEW c \in Calls, Sound(c),
         calls[c].pc # "idle",
         calls'[c].pc \notin {"idle", "tool", "report", "done"},
         calls'[c].run = calls[c].run, effects'[c] = effects[c]
  PROVE  Continues(c) /\ StartsNothing(c)
  <1>1. TypeOK
    BY DEF PlacedInv
  <1> QED
    BY <1>1, StatusStays DEF Continues, StartsNothing, Sound, Running, Run

LEMMA Answers ==
  ASSUME PlacedInv, [Next]_vars, NEW c \in Calls, Sound(c),
         calls'[c].pc = "done", calls'[c].run = calls[c].run,
         effects'[c] = effects[c],
         calls'[c].answer \in Terminal =>
           Run(c) \in RunIds /\ runs'[Run(c)].status = calls'[c].answer
  PROVE  Continues(c) /\ StartsNothing(c)
  <1>1. TypeOK
    BY DEF PlacedInv
  <1> QED
    BY <1>1, StatusStays DEF Continues, StartsNothing, Sound, Running, Run

\* A step on call c leaves the others as they are.
OthersSame(c) ==
  \A d \in Calls \ {c} : calls'[d] = calls[d] /\ effects'[d] = effects[d]

\* The steps a call takes, except the claim that starts its tool.
LEMMA GotoColumns ==
  ASSUME PlacedInv, NEW c \in Calls
  PROVE  /\ \A pc : Goto(c, pc) =>
              /\ calls'[c].pc = pc
              /\ calls'[c].run = calls[c].run
              /\ calls'[c].answer = calls[c].answer
              /\ \A d \in Calls \ {c} : calls'[d] = calls[d]
         /\ \A answer : Answer(c, answer) =>
              /\ calls'[c].pc = "done"
              /\ calls'[c].run = calls[c].run
              /\ calls'[c].answer = answer
              /\ \A d \in Calls \ {c} : calls'[d] = calls[d]
  <1>1. calls \in [Calls -> Call]
    BY RuntimeTypes DEF PlacedInv
  <1> QED
    BY <1>1 DEF Goto, Answer, Call

\* The claim that starts the tool of call c.
Starting(c) ==
  /\ Run(c) \in RunIds
  /\ runs[Run(c)].status \notin Executed
  /\ calls'[c].run = calls[c].run

LEMMA CallStepSound ==
  ASSUME PlacedInv, NEW c \in Calls, Sound(c), CallStep(c)
  PROVE  /\ Continues(c)
         /\ StartsNothing(c) \/ Starting(c)
         /\ OthersSame(c)
  <1>1. [Next]_vars /\ TypeOK
    BY CallLedgerStep DEF PlacedInv
  <1>2. ASSUME NEW pc \in {"claim", "sweep_leases", "count", "read"},
               Goto(c, pc), Internal, calls[c].pc # "idle"
        PROVE  Continues(c) /\ StartsNothing(c) /\ OthersSame(c)
    <2>1. /\ calls'[c].pc = pc
          /\ calls'[c].run = calls[c].run
          /\ OthersSame(c)
          /\ effects'[c] = effects[c]
      BY <1>2, GotoColumns DEF OthersSame, Internal
    <2> QED
      BY <1>1, <1>2, <2>1, MovesOn
  <1>3. ASSUME NEW answer, Answer(c, answer), Internal,
               answer \in Terminal =>
                 Run(c) \in RunIds /\ runs'[Run(c)].status = answer
        PROVE  Continues(c) /\ StartsNothing(c) /\ OthersSame(c)
    <2>1. /\ calls'[c].pc = "done"
          /\ calls'[c].run = calls[c].run
          /\ calls'[c].answer = answer
          /\ OthersSame(c)
          /\ effects'[c] = effects[c]
      BY <1>3, GotoColumns DEF OthersSame, Internal
    <2> QED
      BY <1>1, <1>3, <2>1, Answers
  <1>4. CASE DuplicateCounts(c)
    BY <1>2, <1>4 DEF DuplicateCounts, At
  <1>5. CASE ReadResult(c)
    <2>1. Run(c) \in RunIds /\ UNCHANGED runs
      BY <1>5 DEF ReadResult, At, Active, PlacedInv, Placed, ledgerVars
    <2> QED
      BY <1>3, <1>5, <2>1 DEF ReadResult
  <1>6. CASE Report(c)
    <2>1. CASE Goto(c, "read")
      BY <1>2, <1>6, <2>1 DEF Report, At
    <2>2. CASE Answer(c, "invalid_transition")
      BY <1>3, <1>6, <2>2 DEF Report, Terminal
    <2> QED
      BY <1>6, <2>1, <2>2 DEF Report
  <1>7. ASSUME NEW t \in SampledNow, NEW outcome \in PolicyOutcome,
               NEW policy \in Policies, EvaluatePolicy(c, outcome, policy, t)
        PROVE  Continues(c) /\ StartsNothing(c) /\ OthersSame(c)
    <2>1. CASE outcome = "allow"
      BY <1>2, <1>7, <2>1 DEF EvaluatePolicy, At
    <2>2. CASE outcome # "allow"
      BY <1>2, <1>7, <2>2 DEF EvaluatePolicy, At
    <2> QED
      BY <2>1, <2>2
  <1>8. ASSUME NEW t \in SampledNow,
               DuplicateSweepsApprovals(c, t) \/ DuplicateSweepsLeases(c, t)
        PROVE  Continues(c) /\ StartsNothing(c) /\ OthersSame(c)
    BY <1>2, <1>8 DEF DuplicateSweepsApprovals, DuplicateSweepsLeases, At
  <1>9. ASSUME NEW t \in SampledNow, Claim(c, t)
        PROVE  /\ Continues(c)
               /\ StartsNothing(c) \/ Starting(c)
               /\ OthersSame(c)
    <2>1. CASE Goto(c, "read")
      BY <1>2, <1>9, <2>1 DEF Claim, At
    <2>2. CASE /\ calls' = [calls EXCEPT ![c].pc = "tool", ![c].beat = TRUE]
               /\ ClaimExecution(Run(c), c, t)
               /\ runs'[Run(c)].owner = c
      <3> DEFINE r == Run(c)
      <3>1. r \in RunIds /\ runs[r] # NoRow
        BY <1>9 DEF Claim, At, Active, PlacedInv, Placed
      <3>2. ~MarkExpiredExecution({r})
        <4>1. runs[r] \in Row
          BY <1>1, <3>1 DEF TypeOK
        <4>2. MarkExpiredExecution({r}) => runs'[r].owner = None
          BY <3>1, <4>1 DEF MarkExpiredExecution, Row
        <4> QED
          BY <2>2, <4>2, OwnersAreCalls
      <3>3. Claimable(r) /\ runs'[r].status = "executing"
        <4> DEFINE row == [runs[r] EXCEPT !.status = "executing", !.owner = c,
                                          !.lease = t + LeaseSeconds,
                                          !.attempt = @ + 1]
        <4>1. runs[r] \in Row /\ runs \in [RunIds -> Row \cup {NoRow}]
          BY <1>1, <3>1 DEF TypeOK
        <4>2. /\ Claimable(r)
              /\ \E appended : Commit(r, row, appended)
          BY <2>2, <3>2 DEF ClaimExecution
        <4>3. row.status = "executing"
          BY <4>1 DEF Row
        <4> HIDE DEF row
        <4>4. runs'[r] = row
          BY <3>1, <4>1, <4>2 DEF Commit
        <4> QED
          BY <4>2, <4>3, <4>4
      <3>4. runs[r].status \notin Executed
        BY <3>3 DEF Claimable, Executed
      <3>5. calls \in [Calls -> Call]
        BY RuntimeTypes DEF PlacedInv
      <3>6. /\ calls'[c].pc = "tool"
            /\ calls'[c].run = calls[c].run
            /\ effects' = effects
            /\ OthersSame(c)
        BY <1>9, <2>2, <3>5 DEF Claim, Internal, OthersSame, Call
      <3>7. Continues(c)
        BY <3>1, <3>3, <3>6 DEF Continues, Sound, Run, Executed
      <3>8. Starting(c)
        BY <3>1, <3>4, <3>6 DEF Starting
      <3> QED
        BY <3>6, <3>7, <3>8
    <2> QED
      BY <1>9, <2>1, <2>2 DEF Claim
  <1> QED
    BY <1>4, <1>5, <1>6, <1>7, <1>8, <1>9 DEF CallStep

\* A call that has not begun has neither a run nor an effect.
LEMMA IdleIsEmpty ==
  ASSUME NEW c \in Calls, Sound(c), calls[c].pc = "idle"
  PROVE  ~Running(c) /\ effects[c] = "none"
  BY OwnersAreCalls DEF Sound, Running

LEMMA EntrySound ==
  ASSUME PlacedInv, [Next]_vars, NEW c \in Calls, Sound(c),
         \/ \E request \in Requests : Invoke(c, request)
         \/ \E r \in RunIds : Resume(c, r)
  PROVE  Continues(c) /\ StartsNothing(c) /\ OthersSame(c)
  <1>1. calls \in [Calls -> Call]
    BY RuntimeTypes DEF PlacedInv
  <1>2. calls[c].pc = "idle" /\ effects' = effects
    BY DEF Invoke, Resume, At, Internal
  <1>3. effects[c] = "none" /\ OthersSame(c)
    BY <1>1, <1>2, IdleIsEmpty DEF Invoke, Resume, Answer, OthersSame
  <1>4. /\ calls'[c].pc \in {"policy", "sweep_approvals", "claim", "done"}
        /\ calls'[c].pc = "done" /\ calls'[c].answer \in Terminal =>
             calls'[c].run \in RunIds
               /\ runs'[calls'[c].run].status = calls'[c].answer
    <2>1. CASE \E request \in Requests : Invoke(c, request)
      <3>1. \/ Answer(c, "conflict")
            \/ \E pc \in {"policy", "sweep_approvals"} : \E r, request :
                 calls' = [calls EXCEPT ![c].pc = pc, ![c].run = r,
                                        ![c].request = request]
        BY <2>1 DEF Invoke
      <3>2. CASE Answer(c, "conflict")
        BY <3>2, GotoColumns DEF Terminal
      <3>3. ASSUME NEW pc \in {"policy", "sweep_approvals"},
                   NEW r, NEW request,
                   calls' = [calls EXCEPT ![c].pc = pc, ![c].run = r,
                                          ![c].request = request]
            PROVE  calls'[c].pc = pc
        BY <1>1, <3>3 DEF Call
      <3> QED
        BY <3>1, <3>2, <3>3
    <2>2. CASE \E r \in RunIds : Resume(c, r)
      <3>1. PICK r \in RunIds : Resume(c, r)
        BY <2>2
      <3>2. CASE calls' = [calls EXCEPT ![c].pc = "claim", ![c].run = r]
        <4>1. calls'[c].pc = "claim"
          BY <1>1, <3>2 DEF Call
        <4> QED
          BY <4>1
      <3>3. CASE /\ runs[r].status = "completed"
                 /\ calls' = [calls EXCEPT ![c].pc = "done", ![c].run = r,
                                           ![c].answer = "completed"]
        <4>1. /\ calls'[c].pc = "done"
              /\ calls'[c].run = r
              /\ calls'[c].answer = "completed"
          BY <1>1, <3>3 DEF Call
        <4> QED
          BY <3>1, <3>3, <4>1 DEF Resume, ledgerVars
      <3> QED
        BY <3>1, <3>2, <3>3 DEF Resume
    <2> QED
      BY <2>1, <2>2
  <1> QED
    BY <1>2, <1>3, <1>4 DEF Continues, StartsNothing, Sound, Running, Run

LEMMA ToolSound ==
  ASSUME PlacedInv, [Next]_vars, NEW c \in Calls, Sound(c),
         ToolStep(c) \/ ProviderDecides(c)
  PROVE  Continues(c) /\ StartsNothing(c) /\ OthersSame(c)
  <1>1. calls \in [Calls -> Call] /\ EffectsTyped
    BY RuntimeTypes DEF PlacedInv
  <1>2. UNCHANGED runs
    BY DEF ToolStep, ToolSends, ToolReturns, ProviderDecides, ledgerVars
  <1>3. CASE ToolSends(c) \/ ProviderDecides(c)
    <2>1. /\ effects[c] \in {"none", "sent"}
          /\ OthersSame(c)
          /\ UNCHANGED calls
          /\ Running(c)
      BY <1>1, <1>3
         DEF ToolSends, ProviderDecides, At, OthersSame, EffectsTyped, Running
    <2>2. ~(calls[c].pc = "report" /\ calls[c].answer = "completed")
      BY <2>1 DEF Sound
    <2> QED
      BY <1>2, <2>1, <2>2 DEF Continues, StartsNothing, Sound, Running, Run
  <1>4. ASSUME NEW outcome \in {"completed", "failed", "unknown"},
               NEW beat \in BOOLEAN, ToolReturns(c, outcome, beat)
        PROVE  Continues(c) /\ StartsNothing(c) /\ OthersSame(c)
    <2>1. /\ calls[c].pc = "tool"
          /\ calls'[c].pc = "report"
          /\ calls'[c].run = calls[c].run
          /\ calls'[c].answer = outcome
          /\ outcome = "completed" => effects[c] = "committed"
          /\ OthersSame(c)
          /\ effects' = effects
      BY <1>1, <1>4 DEF ToolReturns, At, OthersSame, Internal, Call
    <2> QED
      BY <1>2, <2>1 DEF Continues, StartsNothing, Sound, Running, Run
  <1> QED
    BY <1>3, <1>4 DEF ToolStep

LEMMA ThreadSound ==
  ASSUME PlacedInv, [Next]_vars, NEW c \in Calls, Sound(c),
         \/ \E t \in SampledNow : Heartbeat(c, t)
         \/ HeartbeatDies(c)
         \/ Crash(c)
  PROVE  Continues(c) /\ StartsNothing(c) /\ OthersSame(c)
  <1>1. calls \in [Calls -> Call]
    BY RuntimeTypes DEF PlacedInv
  <1>2. OthersSame(c) /\ effects' = effects
    BY <1>1 DEF Heartbeat, HeartbeatDies, Crash, OthersSame, Internal
  <1>3. CASE \/ \E t \in SampledNow : Heartbeat(c, t)
             \/ HeartbeatDies(c)
    <2>1. /\ calls'[c].pc = calls[c].pc
          /\ calls'[c].run = calls[c].run
          /\ calls'[c].answer = calls[c].answer
      BY <1>1, <1>3 DEF Heartbeat, HeartbeatDies, Call
    <2> QED
      BY <1>2, <2>1, SameCall
  <1>4. CASE Crash(c)
    <2>1. /\ calls[c].pc # "idle"
          /\ calls'[c].pc = "crashed"
          /\ calls'[c].run = calls[c].run
      BY <1>1, <1>4 DEF Crash, Call
    <2> QED
      BY <1>2, <2>1, MovesOn
  <1> QED
    BY <1>3, <1>4

\* Every step: every call continues, and at most one of them starts its tool.
StepOfCalls ==
  /\ \A c \in Calls : Continues(c)
  /\ \/ \A c \in Calls : StartsNothing(c)
     \/ \E c \in Calls : /\ Starting(c)
                         /\ \A d \in Calls \ {c} : StartsNothing(d)

LEMMA RuntimeStepSound ==
  ASSUME PlacedInv, SoundInv, [RuntimeNext]_runtimeVars
  PROVE  StepOfCalls
  <1>1. [Next]_vars
    BY LedgerStep
  <1>2. ASSUME NEW d \in Calls, calls'[d] = calls[d], effects'[d] = effects[d]
        PROVE  Continues(d) /\ StartsNothing(d)
    BY <1>1, <1>2, SameCall DEF SoundInv
  <1>3. CASE UNCHANGED <<calls, effects>>
    BY <1>2, <1>3 DEF StepOfCalls
  <1>4. ASSUME NEW c \in Calls, Continues(c), OthersSame(c),
               StartsNothing(c) \/ Starting(c)
        PROVE  StepOfCalls
    <2>1. \A d \in Calls \ {c} : Continues(d) /\ StartsNothing(d)
      BY <1>2, <1>4 DEF OthersSame
    <2> QED
      BY <1>4, <2>1 DEF StepOfCalls
  <1>5. ASSUME NEW c \in Calls, CallStep(c)
        PROVE  StepOfCalls
    BY <1>4, <1>5, CallStepSound DEF SoundInv
  <1>6. ASSUME NEW c \in Calls,
               \/ \E request \in Requests : Invoke(c, request)
               \/ \E r \in RunIds : Resume(c, r)
        PROVE  StepOfCalls
    BY <1>1, <1>4, <1>6, EntrySound DEF SoundInv
  <1>7. ASSUME NEW c \in Calls, ToolStep(c) \/ ProviderDecides(c)
        PROVE  StepOfCalls
    BY <1>1, <1>4, <1>7, ToolSound DEF SoundInv
  <1>8. ASSUME NEW c \in Calls,
               \/ \E t \in SampledNow : Heartbeat(c, t)
               \/ HeartbeatDies(c)
               \/ Crash(c)
        PROVE  StepOfCalls
    BY <1>1, <1>4, <1>8, ThreadSound DEF SoundInv
  <1>9. CASE UNCHANGED runtimeVars
    BY <1>3, <1>9 DEF runtimeVars
  <1>10. ASSUME NEW o \in Operators,
                \/ \E r \in RunIds, outcome \in ProviderOutcome :
                     LookUp(o, r, outcome)
                \/ ApplyLookup(o)
                \/ DropLookup(o)
         PROVE  StepOfCalls
    BY <1>3, <1>10 DEF LookUp, ApplyLookup, DropLookup
  <1>11. ASSUME NEW t \in SampledNow,
                \/ Sweep(t)
                \/ \E r \in RunIds, approved \in BOOLEAN,
                      principal \in Principals :
                     Decide(r, approved, principal, t)
         PROVE  StepOfCalls
    BY <1>3, <1>11 DEF Sweep, Decide
  <1>12. CASE Time
    BY <1>3, <1>12 DEF Time
  <1> QED
    BY <1>5, <1>6, <1>7, <1>8, <1>9, <1>10, <1>11, <1>12 DEF RuntimeNext

LEMMA SoundInvHolds == RuntimeSpec => []SoundInv
  <1>1. RuntimeInit => SoundInv
    BY DEF RuntimeInit, NoCall, SoundInv, Sound, Running, Run
  <1>2. PlacedInv /\ SoundInv /\ [RuntimeNext]_runtimeVars => SoundInv'
    <2>1. StepOfCalls => SoundInv'
      BY DEF StepOfCalls, Continues, SoundInv
    <2> QED
      BY <2>1, RuntimeStepSound
  <1> QED
    BY <1>1, <1>2, PlacedInvHolds, PTL DEF RuntimeSpec

-----------------------------------------------------------------------------
(* The provider's side.                                                    *)

\* No run was started by two calls.
OneRunner ==
  \A c, d \in Calls : Running(c) /\ Running(d) /\ Run(c) = Run(d) => c = d

LEMMA OneRunnerHolds == RuntimeSpec => []OneRunner
  <1>1. RuntimeInit => OneRunner
    BY DEF RuntimeInit, NoCall, OneRunner, Running
  <1>2. ASSUME PlacedInv, SoundInv, OneRunner, [RuntimeNext]_runtimeVars
        PROVE  OneRunner'
    <2>1. StepOfCalls
      BY <1>2, RuntimeStepSound
    <2>2. CASE \A c \in Calls : StartsNothing(c)
      BY <1>2, <2>2 DEF StartsNothing, OneRunner, Run
    <2>3. ASSUME NEW c \in Calls, Starting(c),
                 \A d \in Calls \ {c} : StartsNothing(d)
          PROVE  OneRunner'
      <3>1. ASSUME NEW d \in Calls \ {c}, Running(d)'
            PROVE  Running(d) /\ Run(d)' = Run(d) /\ Run(d)' # Run(c)'
        BY <1>2, <2>3, <3>1 DEF StartsNothing, Starting, SoundInv, Sound, Run
      <3> QED
        BY <1>2, <3>1 DEF OneRunner
    <2> QED
      BY <2>1, <2>2, <2>3 DEF StepOfCalls
  <1> QED
    BY <1>1, <1>2, PlacedInvHolds, SoundInvHolds, PTL DEF RuntimeSpec

(* However many callers, retries, resumes, crashes and reconciliations there *)
(* are, the provider commits at most one operation for a business identity.  *)
THEOREM OneEffectPerIdentity == RuntimeSpec => []EffectAtMostOnce
  <1>1. ASSUME PlacedInv, SoundInv, OneRunner, UniqueIdentity
        PROVE  EffectAtMostOnce
    <2> SUFFICES ASSUME NEW c \in Calls, NEW d \in Calls,
                        effects[c] = "committed", effects[d] = "committed",
                        Identity(runs[Run(c)].request)
                          = Identity(runs[Run(d)].request)
                 PROVE  c = d
      BY DEF EffectAtMostOnce
    <2>1. Running(c) /\ Running(d)
      BY DEF Running
    <2>2. /\ Run(c) \in RunIds /\ runs[Run(c)] # NoRow
          /\ Run(d) \in RunIds /\ runs[Run(d)] # NoRow
      BY <1>1, <2>1, NoRowColumns DEF SoundInv, Sound, Executed
    <2>3. Run(c) = Run(d)
      BY <1>1, <2>2 DEF UniqueIdentity
    <2> QED
      BY <1>1, <2>1, <2>3 DEF OneRunner
  <1> QED
    BY <1>1, PlacedInvHolds, SoundInvHolds, OneRunnerHolds, RuntimeUsesLedger,
       OneRunPerIdentity, PTL

(* No operation reaches the provider unless a policy or an entitled approver *)
(* cleared the run for it, and the run's trail says it was started: also for *)
(* the tool that outlives its lease, its process or its approval.            *)
THEOREM EffectsAreCleared == RuntimeSpec => []EffectIsCleared
  <1>1. ASSUME SoundInv, StartedInv, ExecutionIsAuthorised
        PROVE  EffectIsCleared
    <2>1. ASSUME NEW c \in Calls, effects[c] # "none"
          PROVE  "tool.execution.started" \in Types(events[Run(c)])
      <3>1. Run(c) \in RunIds /\ runs[Run(c)].status \in Executed
        BY <1>1, <2>1 DEF SoundInv, Sound, Running
      <3> QED
        BY <1>1, <3>1 DEF StartedInv, Started
    <2> QED
      BY <1>1, <2>1 DEF EffectIsCleared
  <1> QED
    BY <1>1, SoundInvHolds, RuntimeUsesLedger, StartedInvHolds,
       ExecutionsAreAuthorised, PTL

(* The terminal status a call answered with stays the status of its run,     *)
(* whoever else settles, sweeps or calls again.                              *)
THEOREM AnswersAreDurable == RuntimeSpec => []AnswerIsDurable
  <1>1. SoundInv => AnswerIsDurable
    BY DEF SoundInv, Sound, AnswerIsDurable, At
  <1> QED
    BY <1>1, SoundInvHolds, PTL

-----------------------------------------------------------------------------
(* A success is believed only with its effect.                             *)

Committed(r) == \E c \in Calls : Run(c) = r /\ effects[c] = "committed"

LEMMA OperationsCommitted ==
  \A r : "committed" \in Operations(r) <=> Committed(r)
  BY DEF Operations, Committed

\* What was committed for a run stays committed for it.
LEMMA CommittedStays ==
  ASSUME StepOfCalls, NEW r, Committed(r)
  PROVE  Committed(r)'
  <1>1. PICK c \in Calls : Run(c) = r /\ effects[c] = "committed"
    BY DEF Committed
  <1>2. calls'[c].run = r /\ effects'[c] = "committed"
    BY <1>1 DEF StepOfCalls, Continues, Run
  <1> QED
    BY <1>2 DEF Committed, Run

\* What an operator learnt of a commit is true of the run it asked about.
Informed ==
  \A o \in Operators :
    lookups[o] # NoLookup /\ lookups[o].outcome = "committed" =>
      Committed(lookups[o].run)

LEMMA InformedHolds == RuntimeSpec => []Informed
  <1>1. RuntimeInit => Informed
    BY DEF RuntimeInit, Informed
  <1>2. ASSUME PlacedInv, SoundInv, Informed, [RuntimeNext]_runtimeVars
        PROVE  Informed'
    <2>1. StepOfCalls
      BY <1>2, RuntimeStepSound
    <2>2. \A r : Committed(r) => Committed(r)'
      BY <2>1, CommittedStays
    <2>3. lookups \in [Operators ->
            [run : RunIds, outcome : ProviderOutcome] \cup {NoLookup}]
      BY <1>2, RuntimeTypes DEF PlacedInv, LookupsTyped
    <2>4. CASE UNCHANGED lookups
      BY <1>2, <2>2, <2>4 DEF Informed
    <2>5. ASSUME NEW o \in Operators, NEW r \in RunIds,
                 NEW outcome \in ProviderOutcome, LookUp(o, r, outcome)
          PROVE  Informed'
      <3>1. outcome = "committed" => Committed(r)
        BY <2>5, OperationsCommitted DEF LookUp
      <3>2. /\ lookups'[o] = [run |-> r, outcome |-> outcome]
            /\ \A p \in Operators \ {o} : lookups'[p] = lookups[p]
        BY <2>3, <2>5 DEF LookUp
      <3> QED
        BY <1>2, <2>2, <3>1, <3>2 DEF Informed
    <2>6. ASSUME NEW o \in Operators, ApplyLookup(o) \/ DropLookup(o)
          PROVE  Informed'
      <3>1. /\ lookups'[o] = NoLookup
            /\ \A p \in Operators \ {o} : lookups'[p] = lookups[p]
        BY <2>3, <2>6 DEF ApplyLookup, DropLookup
      <3> QED
        BY <1>2, <2>2, <3>1 DEF Informed
    <2>7. ASSUME NEW c \in Calls, CallStep(c)
          PROVE  UNCHANGED lookups
      BY <2>7 DEF CallStep, Internal, DuplicateCounts, ReadResult, Report,
                  EvaluatePolicy, DuplicateSweepsApprovals,
                  DuplicateSweepsLeases, Claim
    <2>8. ASSUME NEW c \in Calls,
                 \/ \E request \in Requests : Invoke(c, request)
                 \/ \E r \in RunIds : Resume(c, r)
                 \/ ToolStep(c)
                 \/ ProviderDecides(c)
                 \/ \E t \in SampledNow : Heartbeat(c, t)
                 \/ HeartbeatDies(c)
                 \/ Crash(c)
          PROVE  UNCHANGED lookups
      BY <2>8 DEF Invoke, Resume, ToolStep, ToolSends, ToolReturns,
                  ProviderDecides, Heartbeat, HeartbeatDies, Crash, Internal
    <2>9. ASSUME NEW t \in SampledNow,
                 \/ Sweep(t)
                 \/ \E r \in RunIds, approved \in BOOLEAN,
                       principal \in Principals :
                      Decide(r, approved, principal, t)
          PROVE  UNCHANGED lookups
      BY <2>9 DEF Sweep, Decide
    <2>10. ASSUME Time \/ UNCHANGED runtimeVars
           PROVE  UNCHANGED lookups
      BY <2>10 DEF Time, runtimeVars
    <2> QED
      BY <1>2, <2>4, <2>5, <2>6, <2>7, <2>8, <2>9, <2>10 DEF RuntimeNext
  <1> QED
    BY <1>1, <1>2, PlacedInvHolds, SoundInvHolds, PTL DEF RuntimeSpec

\* A step after which no run is completed that was not.
NothingCompletes ==
  \A r \in RunIds :
    runs'[r].status = "completed" => runs[r].status = "completed"

\* A step after which run s may be completed, and no other that was not.
CompletesOnly(s) ==
  \A r \in RunIds \ {s} :
    runs'[r].status = "completed" => runs[r].status = "completed"

LEMMA CommitCompletes ==
  ASSUME TypeOK, NEW s \in RunIds, NEW row, NEW appended,
         Commit(s, row, appended)
  PROVE  /\ CompletesOnly(s)
         /\ row.status # "completed" => NothingCompletes
         /\ row.status = runs[s].status => NothingCompletes
  BY DEF TypeOK, Commit, CompletesOnly, NothingCompletes

LEMMA SweepCompletes ==
  ASSUME TypeOK, NEW S \in SUBSET RunIds
  PROVE  /\ ExpireApproval(S) => NothingCompletes
         /\ MarkExpiredExecution(S) => NothingCompletes
  <1>1. \A r \in RunIds :
          /\ [runs[r] EXCEPT !.status = "approval_expired"].status # "completed"
          /\ [runs[r] EXCEPT !.status = "unknown", !.owner = None,
                             !.lease = None].status # "completed"
    BY DEF TypeOK, Row, NoRow
  <1> QED
    BY <1>1 DEF ExpireApproval, MarkExpiredExecution, NothingCompletes

\* Every row has a status column to write.
LEMMA StatusColumn ==
  ASSUME TypeOK, NEW r \in RunIds
  PROVE  /\ \A status : [runs[r] EXCEPT !.status = status].status = status
         /\ \A status, policy :
              [runs[r] EXCEPT !.status = status, !.policy = policy].status
                = status
         /\ \A status, owner, lease :
              [runs[r] EXCEPT !.status = status, !.owner = owner,
                              !.lease = lease].status = status
         /\ \A status, owner, lease :
              [runs[r] EXCEPT !.status = status, !.owner = owner,
                              !.lease = lease, !.attempt = @ + 1].status = status
         /\ \A n : [runs[r] EXCEPT !.lease = n].status = runs[r].status
         /\ \A n : [runs[r] EXCEPT !.duplicates = n].status = runs[r].status
  BY DEF TypeOK, Row, NoRow

\* The transactions of the ledger that complete nothing.
LEMMA QuietTransactions ==
  ASSUME TypeOK, NEW r \in RunIds
  PROVE  /\ \A request : CreateRun(r, request) => NothingCompletes
         /\ RecordDuplicate(r) => NothingCompletes
         /\ \A outcome, policy, t :
              RecordPolicyDecision(r, outcome, policy, t) => NothingCompletes
         /\ \A approved \in BOOLEAN : \A principal, t :
              DecideApproval(r, approved, principal, t) => NothingCompletes
         /\ \A owner, t : ClaimExecution(r, owner, t) => NothingCompletes
         /\ \A owner, t : HeartbeatExecution(r, owner, t) => NothingCompletes
         /\ \A owner : FailExecution(r, owner) => NothingCompletes
         /\ \A owner : MarkExecutionUnknown(r, owner) => NothingCompletes
  <1> USE StatusColumn
  <1>1. ASSUME NEW request, CreateRun(r, request)
        PROVE  NothingCompletes
    <2> DEFINE row == [NoRow EXCEPT !.request = request, !.status = "created"]
    <2>1. row.status = "created"
      BY DEF NoRow
    <2>2. Commit(r, row, <<Plain("run.created")>>)
      BY <1>1 DEF CreateRun
    <2> HIDE DEF row
    <2> QED
      BY <2>1, <2>2, CommitCompletes
  <1>2. ASSUME RecordDuplicate(r)
        PROVE  NothingCompletes
    BY <1>2 DEF RecordDuplicate, TypeOK, NothingCompletes
  <1>3. ASSUME NEW outcome, NEW policy, NEW t,
               RecordPolicyDecision(r, outcome, policy, t)
        PROVE  NothingCompletes
    <2>1. PICK status \in {"created", "denied", "pending_approval"} : \E appended :
            Commit(r, [runs[r] EXCEPT !.status = status, !.policy = policy],
                   appended)
      BY <1>3 DEF RecordPolicyDecision
    <2> DEFINE row == [runs[r] EXCEPT !.status = status, !.policy = policy]
    <2>2. row.status # "completed" /\ \E appended : Commit(r, row, appended)
      BY <2>1
    <2> HIDE DEF row
    <2> QED
      BY <2>2, CommitCompletes
  <1>4. ASSUME NEW approved \in BOOLEAN, NEW principal, NEW t,
               DecideApproval(r, approved, principal, t)
        PROVE  NothingCompletes
    <2>1. CASE ExpireApproval({r})
      BY <2>1, SweepCompletes
    <2>2. CASE ~ExpireApproval({r})
      <3>1. PICK status \in {"approved", "rejected"} : \E appended :
              Commit(r, [runs[r] EXCEPT !.status = status], appended)
        BY <1>4, <2>2 DEF DecideApproval
      <3> DEFINE row == [runs[r] EXCEPT !.status = status]
      <3>2. row.status # "completed" /\ \E appended : Commit(r, row, appended)
        BY <3>1
      <3> HIDE DEF row
      <3> QED
        BY <3>2, CommitCompletes
    <2> QED
      BY <2>1, <2>2
  <1>5. ASSUME NEW owner, NEW t, ClaimExecution(r, owner, t)
        PROVE  NothingCompletes
    <2>1. CASE MarkExpiredExecution({r})
      BY <2>1, SweepCompletes
    <2>2. CASE ~MarkExpiredExecution({r})
      <3>1. PICK added :
              Commit(r, [runs[r] EXCEPT !.status = "executing",
                                        !.owner = owner,
                                        !.lease = t + LeaseSeconds,
                                        !.attempt = @ + 1], added)
        BY <1>5, <2>2 DEF ClaimExecution
      <3> DEFINE row == [runs[r] EXCEPT !.status = "executing", !.owner = owner,
                                        !.lease = t + LeaseSeconds,
                                        !.attempt = @ + 1]
      <3>2. row.status # "completed" /\ \E appended : Commit(r, row, appended)
        BY <3>1
      <3> HIDE DEF row
      <3> QED
        BY <3>2, CommitCompletes
    <2> QED
      BY <2>1, <2>2
  <1>6. ASSUME NEW owner, NEW t, HeartbeatExecution(r, owner, t)
        PROVE  NothingCompletes
    BY <1>6 DEF HeartbeatExecution, TypeOK, NothingCompletes
  <1>7. ASSUME NEW owner,
               FailExecution(r, owner) \/ MarkExecutionUnknown(r, owner)
        PROVE  NothingCompletes
    <2>1. PICK status \in {"failed", "unknown"} : \E appended :
            Commit(r, [runs[r] EXCEPT !.status = status, !.owner = None,
                                      !.lease = None], appended)
      BY <1>7 DEF FailExecution, MarkExecutionUnknown, FinishExecution
    <2> DEFINE row == [runs[r] EXCEPT !.status = status, !.owner = None,
                                      !.lease = None]
    <2>2. row.status # "completed" /\ \E appended : Commit(r, row, appended)
      BY <2>1
    <2> HIDE DEF row
    <2> QED
      BY <2>2, CommitCompletes
  <1> QED
    BY <1>1, <1>2, <1>3, <1>4, <1>5, <1>6, <1>7

\* Operators aside, a run is completed by the report of a call whose operation
\* committed.
LEMMA WhichCallCompletes ==
  ASSUME PlacedInv, SoundInv, [RuntimeNext]_runtimeVars
  PROVE  \/ NothingCompletes
         \/ \E c \in Calls : effects[c] = "committed" /\ CompletesOnly(Run(c))
         \/ \E o \in Operators : ApplyLookup(o)
  <1> USE OwnersAreCalls
  <1>1. TypeOK
    BY DEF PlacedInv
  <1>2. ASSUME UNCHANGED runs
        PROVE  NothingCompletes
    BY <1>2 DEF NothingCompletes
  <1>3. ASSUME NEW scope, NEW t, \/ ExpireApprovals(scope, t)
                                 \/ RecoverExpiredExecutions(scope, t)
        PROVE  NothingCompletes
    BY <1>1, <1>3, SweepCompletes DEF ExpireApprovals, RecoverExpiredExecutions
  <1>4. ASSUME NEW c \in Calls, CallStep(c), ~Report(c)
        PROVE  NothingCompletes
    <2>1. Run(c) \in RunIds
      BY <1>4
         DEF CallStep, DuplicateCounts, ReadResult, EvaluatePolicy,
             DuplicateSweepsApprovals, DuplicateSweepsLeases, Claim, At,
             Active, PlacedInv, Placed
    <2> QED
      BY <1>1, <1>2, <1>3, <1>4, <2>1, QuietTransactions
         DEF CallStep, DuplicateCounts, ReadResult, EvaluatePolicy,
             DuplicateSweepsApprovals, DuplicateSweepsLeases, Claim, ledgerVars
  <1>5. ASSUME NEW c \in Calls, Report(c)
        PROVE  \/ NothingCompletes
               \/ effects[c] = "committed" /\ CompletesOnly(Run(c))
    <2>1. Run(c) \in RunIds
      BY <1>5 DEF Report, At, Active, PlacedInv, Placed
    <2>2. CASE calls[c].answer = "completed" /\ CompleteExecution(Run(c), c)
      <3>1. effects[c] = "committed"
        BY <1>5, <2>2 DEF Report, At, SoundInv, Sound
      <3> QED
        BY <1>1, <2>1, <2>2, <3>1, CommitCompletes
           DEF CompleteExecution, FinishExecution
    <2>3. CASE \/ FailExecution(Run(c), c)
               \/ MarkExecutionUnknown(Run(c), c)
               \/ UNCHANGED ledgerVars
      BY <1>1, <1>2, <2>1, <2>3, QuietTransactions DEF ledgerVars
    <2> QED
      BY <1>5, <2>2, <2>3 DEF Report
  <1>7. ASSUME NEW c \in Calls,
               \/ \E request \in Requests : Invoke(c, request)
               \/ \E r \in RunIds : Resume(c, r)
               \/ ToolStep(c)
               \/ ProviderDecides(c)
               \/ HeartbeatDies(c)
               \/ Crash(c)
        PROVE  NothingCompletes
    BY <1>1, <1>2, <1>7, QuietTransactions
       DEF Invoke, Resume, ToolStep, ToolSends, ToolReturns, ProviderDecides,
           HeartbeatDies, Crash, ledgerVars
  <1>8. ASSUME NEW c \in Calls, NEW t \in SampledNow, Heartbeat(c, t)
        PROVE  NothingCompletes
    <2>1. Run(c) \in RunIds
      BY <1>8 DEF Heartbeat, PlacedInv, Placed
    <2> QED
      BY <1>1, <1>2, <1>8, <2>1, QuietTransactions DEF Heartbeat, ledgerVars
  <1>9. ASSUME NEW o \in Operators,
               \/ \E r \in RunIds, outcome \in ProviderOutcome :
                    LookUp(o, r, outcome)
               \/ DropLookup(o)
        PROVE  NothingCompletes
    BY <1>2, <1>9 DEF LookUp, DropLookup, ledgerVars
  <1>10. ASSUME NEW t \in SampledNow,
                \/ Sweep(t)
                \/ \E r \in RunIds, approved \in BOOLEAN,
                      principal \in Principals :
                     Decide(r, approved, principal, t)
         PROVE  NothingCompletes
    BY <1>1, <1>3, <1>10, QuietTransactions DEF Sweep, Decide
  <1>11. CASE Time \/ UNCHANGED runtimeVars
    BY <1>2, <1>11 DEF Time, Tick, runtimeVars
  <1> QED
    BY <1>4, <1>5, <1>7, <1>8, <1>9, <1>10, <1>11 DEF RuntimeNext

\* A run is completed by the report of a call whose operation committed, or by
\* an operator who learnt of a commit.
LEMMA WhoCompletes ==
  ASSUME PlacedInv, SoundInv, Informed, [RuntimeNext]_runtimeVars
  PROVE  \/ NothingCompletes
         \/ \E s : Committed(s) /\ CompletesOnly(s)
  <1>1. TypeOK
    BY DEF PlacedInv
  <1>2. ASSUME NEW o \in Operators, ApplyLookup(o)
        PROVE  \/ NothingCompletes
               \/ Committed(lookups[o].run) /\ CompletesOnly(lookups[o].run)
    <2> DEFINE r == lookups[o].run
    <2>1. r \in RunIds /\ lookups[o] # NoLookup
      BY <1>2 DEF ApplyLookup, PlacedInv, RuntimeTypeOK
    <2>2. CASE lookups[o].outcome = "committed"
      <3>1. Committed(r)
        BY <2>1, <2>2 DEF Informed
      <3>2. \E row, appended : Commit(r, row, appended)
        BY <1>2 DEF ApplyLookup, ApplyProviderObservation, ReconcileRun
      <3> QED
        BY <1>1, <2>1, <3>1, <3>2, CommitCompletes
    <2>3. CASE lookups[o].outcome # "committed"
      <3>1. CASE \E appended : Commit(r, runs[r], appended)
        BY <1>1, <2>1, <3>1, CommitCompletes
      <3>2. CASE \E appended :
                   Commit(r, [runs[r] EXCEPT !.status = "failed"], appended)
        <4> DEFINE row == [runs[r] EXCEPT !.status = "failed"]
        <4>1. row.status # "completed"
          BY <1>1, <2>1, StatusColumn
        <4>2. PICK appended : Commit(r, row, appended)
          BY <3>2
        <4> HIDE DEF row
        <4> QED
          BY <1>1, <2>1, <4>1, <4>2, CommitCompletes
      <3> QED
        BY <1>2, <2>3, <3>1, <3>2
           DEF ApplyLookup, ApplyProviderObservation, ReconcileRun
    <2> QED
      BY <2>2, <2>3
  <1>3. ASSUME NEW c \in Calls, effects[c] = "committed", CompletesOnly(Run(c))
        PROVE  \E s : Committed(s) /\ CompletesOnly(s)
    BY <1>3 DEF Committed
  <1> QED
    BY <1>2, <1>3, WhichCallCompletes

(* A run is completed only when its operation committed at the provider: no  *)
(* timeout, lost lease, crash or hasty operator turns an operation that      *)
(* never committed into a success.                                           *)
THEOREM SuccessHasItsEffect == RuntimeSpec => []CompletedMeansEffect
  <1>1. RuntimeInit => CompletedMeansEffect
    BY NoRowColumns DEF RuntimeInit, Init, CompletedMeansEffect
  <1>2. ASSUME PlacedInv, SoundInv, Informed, CompletedMeansEffect,
               [RuntimeNext]_runtimeVars
        PROVE  CompletedMeansEffect'
    <2>1. \A r : Committed(r) => Committed(r)'
      BY <1>2, RuntimeStepSound, CommittedStays
    <2>2. \A r \in RunIds : runs[r].status = "completed" => Committed(r)
      BY <1>2, OperationsCommitted DEF CompletedMeansEffect
    <2>3. \A r \in RunIds : runs'[r].status = "completed" => Committed(r)'
      BY <1>2, <2>1, <2>2, WhoCompletes DEF NothingCompletes, CompletesOnly
    <2> QED
      BY <2>3 DEF CompletedMeansEffect, Operations, Committed
  <1> QED
    BY <1>1, <1>2, PlacedInvHolds, SoundInvHolds, InformedHolds, PTL
       DEF RuntimeSpec
=============================================================================
