--------------------------- MODULE PostgresLedger ---------------------------
(***************************************************************************)
(* The PostgreSQL ledger (postgres.py).  It inherits the operations of the *)
(* SQLite ledger, but BEGIN IMMEDIATE does nothing there: a transaction    *)
(* runs under READ COMMITTED, its SELECT takes no lock, and an UPDATE      *)
(* waits for the row and then re-evaluates its own WHERE, nothing else.    *)
(*                                                                         *)
(* An operation that decides on what it selected is two steps here: the    *)
(* read, which records in tx what it concluded, and its updates with the   *)
(* commit.  The updates are one step: they lock the approval row, then the *)
(* run row, and a transaction that slips in between the two touches the    *)
(* run row only, so it might as well have come first.  An operation that   *)
(* is one conditional UPDATE, or that locks the run before it reads, is    *)
(* the action of ActionLedger.                                             *)
(*                                                                         *)
(* The callers are the runtime's: a policy decides a run once, before      *)
(* anybody claims it, and a claim follows an allow or a read of            *)
(* "approved".                                                             *)
(***************************************************************************)
EXTENDS ActionLedger

CONSTANT Sessions   \* connections that may have a transaction open

VARIABLE tx         \* what the open transaction of a session has concluded

pgVars == <<runs, approvals, events, clock, tx>>

NoTx == [op |-> "none", on |-> {}, by |-> None, now |-> 0]

PgInit == Init /\ tx = [s \in Sessions |-> NoTx]

-----------------------------------------------------------------------------
(* Reads                                                                   *)

\* Session s has selected and concludes: op, on the runs S.
Conclude(s, op, S, by, t) ==
  /\ tx[s] = NoTx
  /\ tx' = [tx EXCEPT ![s] = [op |-> op, on |-> S, by |-> by, now |-> t]]
  /\ UNCHANGED <<runs, approvals, events, clock>>

DecideRead(s, r, approved, principal, t) ==
  /\ Pending(r)
  /\ Eligible(r, principal)
  /\ Conclude(s, IF Overdue(r, t) THEN "expire"
                 ELSE IF approved THEN "approve" ELSE "reject",
              {r}, principal.actor, t)

ExpireApprovalsRead(s, scope, t) ==
  Conclude(s, "lapse", {r \in RunIds : /\ Pending(r) /\ Overdue(r, t)
                                       /\ runs[r].request.tenant \in scope},
           None, t)

RecoverRead(s, scope, t) ==
  Conclude(s, "give_up",
           {r \in RunIds : /\ LeaseExpired(r, t)
                           /\ runs[r].request.tenant \in scope}, None, t)

ClaimRead(s, r, owner, t) ==
  /\ runs[r].policy # None
  /\ runs[r].status # "pending_approval"
  /\ Conclude(s, IF LeaseExpired(r, t) THEN "give_up" ELSE "claim",
              {r}, owner, t)

-----------------------------------------------------------------------------
(* Updates and commit                                                      *)

Close(s) == tx' = [tx EXCEPT ![s] = NoTx]

Ledger == <<runs, approvals, events, clock>>

\* The expiry branch of decide_approval: both updates name the run alone.
ExpireWrite(s) ==
  /\ tx[s].op = "expire"
  /\ ExpireApproval(tx[s].on)
  /\ Close(s)

\* Mutant of DecideWrite: its UPDATE names the run alone, too.
DecideWriteBlind(s) ==
  LET status == IF tx[s].op = "approve" THEN "approved" ELSE "rejected"
      type == IF tx[s].op = "approve" THEN "approval.approved"
                                      ELSE "approval.rejected"
  IN  /\ tx[s].op \in {"approve", "reject"}
      /\ \A r \in tx[s].on :
           /\ approvals' = [approvals EXCEPT ![r].status = status,
                                             ![r].approver = tx[s].by]
           /\ Commit(r, IF runs[r].status = "pending_approval"
                        THEN [runs[r] EXCEPT !.status = status] ELSE runs[r],
                     <<Event(type, None, tx[s].by)>>)
           /\ UNCHANGED clock
      /\ Close(s)

\* The other branch updates an approval that is still pending, or gives up.
DecideWrite(s) ==
  LET status == IF tx[s].op = "approve" THEN "approved" ELSE "rejected"
      type == IF tx[s].op = "approve" THEN "approval.approved"
                                      ELSE "approval.rejected"
  IN  /\ tx[s].op \in {"approve", "reject"}
      /\ \A r \in tx[s].on :
           IF approvals[r].status = "pending_approval"
           THEN /\ approvals' = [approvals EXCEPT ![r].status = status,
                                                  ![r].approver = tx[s].by]
                /\ Commit(r, IF runs[r].status = "pending_approval"
                             THEN [runs[r] EXCEPT !.status = status]
                             ELSE runs[r],
                          <<Event(type, None, tx[s].by)>>)
                /\ UNCHANGED clock
           ELSE UNCHANGED Ledger
      /\ Close(s)

\* The sweep updates what is still pending on both sides, and rolls back if
\* one side is and the other is not.
ExpireApprovalsWrite(s) ==
  /\ tx[s].op = "lapse"
  /\ IF \A r \in tx[s].on : (approvals[r].status = "pending_approval")
                              = (runs[r].status = "pending_approval")
     THEN ExpireApproval({r \in tx[s].on : Pending(r)})
     ELSE UNCHANGED Ledger
  /\ Close(s)

\* The update asks for the status "executing", not for the lease again.
GiveUpWrite(s) ==
  /\ tx[s].op = "give_up"
  /\ MarkExpiredExecution({r \in tx[s].on : runs[r].status = "executing"})
  /\ Close(s)

ClaimWrite(s) ==
  /\ tx[s].op = "claim"
  /\ \A r \in tx[s].on :
       IF Claimable(r) THEN ClaimExecution(r, tx[s].by, tx[s].now)
                       ELSE UNCHANGED Ledger
  /\ Close(s)

\* The connection is lost, or PostgreSQL ends a deadlock.
Rollback(s) == tx[s] # NoTx /\ Close(s) /\ UNCHANGED Ledger

-----------------------------------------------------------------------------
\* The operations that are one step on PostgreSQL as well.
OneStatement(r) ==
  \/ \E request \in Requests : CreateRun(r, request)
  \/ RecordDuplicate(r)
  \/ \E outcome \in PolicyOutcome, policy \in Policies, t \in SampledNow :
       /\ runs[r].policy = None
       /\ RecordPolicyDecision(r, outcome, policy, t)
  \/ \E owner \in Owners :
       \/ CompleteExecution(r, owner)
       \/ FailExecution(r, owner)
       \/ MarkExecutionUnknown(r, owner)
       \/ \E t \in SampledNow : HeartbeatExecution(r, owner, t)
  \/ \E principal \in Principals :
       \/ \E status \in {"completed", "failed"} :
            ReconcileRun(r, status, principal)
       \/ \E outcome \in ProviderOutcome :
            ApplyProviderObservation(r, outcome, principal)

PgNext ==
  \/ (\E r \in RunIds : OneStatement(r)) /\ UNCHANGED tx
  \/ Tick /\ UNCHANGED tx
  \/ \E s \in Sessions, t \in SampledNow :
       \/ \E r \in RunIds :
            \/ \E approved \in BOOLEAN, principal \in Principals :
                 DecideRead(s, r, approved, principal, t)
            \/ \E owner \in Owners : ClaimRead(s, r, owner, t)
       \/ \E scope \in Scopes : \/ ExpireApprovalsRead(s, scope, t)
                                \/ RecoverRead(s, scope, t)
  \/ \E s \in Sessions :
       \/ DecideWrite(s) \/ ExpireWrite(s) \/ ExpireApprovalsWrite(s)
       \/ GiveUpWrite(s) \/ ClaimWrite(s) \/ Rollback(s)

PgSpec == PgInit /\ [][PgNext]_pgVars

-----------------------------------------------------------------------------
(* Properties.  OneExecution, TrailDecidesStatus and ApprovalAgrees of     *)
(* ActionLedger are checked of PgSpec as well.                             *)

\* Of the people who decide one approval at the same time one is heard: the
\* trail never holds two verdicts.
OneVerdict ==
  \A r \in RunIds : \A i, j \in DOMAIN events[r] :
    /\ events[r][i].type \in {"approval.approved", "approval.rejected"}
    /\ events[r][j].type \in {"approval.approved", "approval.rejected"}
    => i = j

\* An expired approval is terminal and cannot execute
\* (tests/test_reliability_contract.py:355): a run whose approval expired was
\* never started.
ExpiredNeverExecutes ==
  \A r \in RunIds :
    runs[r].status = "approval_expired" =>
      "tool.execution.started" \notin Types(events[r])
=============================================================================
