---------------------------- MODULE RefundService ----------------------------
(***************************************************************************)
(* The reference deployment (cli.py "serve", api.py): the control plane    *)
(* over the runtime, the RefundOps policy and the refund store.  A client  *)
(* is a verified principal; each endpoint checks a role and the tenant of  *)
(* the run before it calls the runtime.  The Idempotency-Key header is the *)
(* client's own choice, so two keys may ask for a refund of one order: the *)
(* ledger sees two runs, and the UNIQUE order_id of the refund store lets  *)
(* one of them insert its refund.                                          *)
(*                                                                         *)
(* No provider probe is configured.  An operator who reconciles looks into *)
(* the refund store, which knows orders and amounts and not runs.          *)
(*                                                                         *)
(* "serve" runs with any policy file.  The release gate is another command *)
(* ("eval"), which an organisation may run first: Released tells whether   *)
(* the deployed configuration would have passed it.                        *)
(***************************************************************************)
EXTENDS TrustedAction, RefundPolicy

CONSTANTS
  Bodies,   \* what clients send: [key, order, amount, refs]
  Configs   \* the policy files "serve" may be started with

VARIABLES
  deployed,   \* the configuration the service runs with
  callers     \* the principal behind each call

serviceVars == <<deployed, callers>>
refundVars == <<runtimeVars, serviceVars>>

\* resolve_refund_evidence: a claim is granted for an order of the client's own
\* tenant; the context keeps the verified actor, tenant and roles.
Governed(p, body) ==
  LET own == \E o \in OrderStore : o.id = body.order /\ o.tenant = p.tenant
  IN  [tenant |-> p.tenant, key |-> body.key, actor |-> p.actor,
       roles |-> p.roles, order |-> body.order, amount |-> body.amount,
       evidence |-> IF own THEN {<<ref, body.order>> : ref \in body.refs}
                           ELSE {}]

ASSUME ServiceAssumption ==
  /\ \A p \in Principals : p.approver = ("agenttrustops_approver" \in p.roles)
  /\ Operators = {p \in Principals : "agenttrustops_reconciler" \in p.roles}
  /\ Requests = {Governed(p, body) : p \in Principals, body \in Bodies}
  /\ Policies = VersionNames \cup {"unresolved"}
  /\ \A body \in Bodies : /\ body.refs \subseteq {"ORDER", "LOGISTICS"}
                          /\ body.amount \in Int \cup {NaN, Malformed}
  /\ ~AllowSelfApproval

RefundInit ==
  /\ RuntimeInit
  /\ deployed = None
  /\ callers = [c \in Calls |-> None]

-----------------------------------------------------------------------------
(* The refund store                                                        *)

\* The refunds that were inserted: their runs' order, amount and call.
Refunds == {[order |-> runs[Run(c)].request.order,
             amount |-> runs[Run(c)].request.amount, call |-> c] :
              c \in {d \in Calls : effects[d] = "committed"}}

\* Mutant of ExecuteRefund: the order is not unique in the table.
ExecuteTwice(c) ==
  /\ At(c, "tool")
  /\ effects[c] = "none"
  /\ effects' = [effects EXCEPT ![c] = "committed"]
  /\ UNCHANGED <<calls, lookups>>
  /\ UNCHANGED ledgerVars

\* RefundStore.execute: the insert of an order that is there already fails.  NaN
\* does not: no request holds the float, which the ledger refuses to encode, but
\* the text "nan" passes float(), and SQLite keeps the text in the REAL column.
ExecuteRefund(c) ==
  LET order == runs[Run(c)].request.order
  IN  /\ At(c, "tool")
      /\ effects[c] = "none"
      /\ effects' = [effects EXCEPT ![c] =
           IF \E f \in Refunds : f.order = order THEN "refused" ELSE "committed"]
      /\ UNCHANGED <<calls, lookups>>
      /\ UNCHANGED ledgerVars

\* Mutant of RefundReturns: INSERT OR IGNORE, so a refused insert returns.
RefundIgnored(c) ==
  /\ At(c, "tool")
  /\ effects[c] # "none"
  /\ calls' = [calls EXCEPT ![c].pc = "report", ![c].answer = "completed"]
  /\ UNCHANGED ledgerVars
  /\ Internal

\* The tool returns when its insert was committed and raises when it was
\* refused, or when it could not reach the store.
RefundReturns(c) ==
  \E outcome \in {"completed", "failed"}, beat \in BOOLEAN :
    ToolReturns(c, outcome, beat)

-----------------------------------------------------------------------------
(* The endpoints                                                           *)

\* "serve" is started, with a policy file or without: nothing checks the file.
Deploy(config) ==
  /\ deployed = None
  /\ deployed' = config
  /\ UNCHANGED callers
  /\ UNCHANGED runtimeVars

\* POST /v1/actions/execute_refund/invoke
Submit(c, p, body) ==
  /\ deployed # None
  /\ "agenttrustops_invoker" \in p.roles
  /\ Invoke(c, Governed(p, body))
  /\ callers' = [callers EXCEPT ![c] = p]
  /\ UNCHANGED deployed

\* Mutant of ResumeRun: the run of another tenant is found as well.
ResumeAnyRun(c, p, r) ==
  /\ "agenttrustops_executor" \in p.roles
  /\ Resume(c, r)
  /\ callers' = [callers EXCEPT ![c] = p]
  /\ UNCHANGED deployed

\* POST /v1/runs/{run_id}/resume
ResumeRun(c, p, r) ==
  /\ "agenttrustops_executor" \in p.roles
  /\ runs[r] # NoRow
  /\ runs[r].request.tenant = p.tenant
  /\ Resume(c, r)
  /\ callers' = [callers EXCEPT ![c] = p]
  /\ UNCHANGED deployed

\* The reference policy answers for the deployed configuration.
EvaluateRefund(c, t) ==
  /\ At(c, "policy")
  /\ LET decision == Evaluate(deployed, calls[c].request)
     IN  EvaluatePolicy(c, decision.outcome, decision.policy, t)

\* An operator looks for a refund of the run's order and amount.
Inspect(o, r) ==
  /\ lookups[o] = NoLookup
  /\ Reconcilable(r, o)
  /\ LET done == \E f \in Refunds : /\ f.order = runs[r].request.order
                                    /\ f.amount = runs[r].request.amount
     IN  lookups' = [lookups EXCEPT ![o] =
           [run |-> r, outcome |-> IF done THEN "committed" ELSE "not_committed"]]
  /\ UNCHANGED <<calls, effects>>
  /\ UNCHANGED ledgerVars

\* POST /v1/runs/{run_id}/reconcile, with what was found.
Settle(o) ==
  LET found == lookups[o]
  IN  /\ found # NoLookup
      /\ ReconcileRun(found.run,
           IF found.outcome = "committed" THEN "completed" ELSE "failed", o)
      /\ lookups' = [lookups EXCEPT ![o] = NoLookup]
      /\ UNCHANGED <<calls, effects>>

\* What may be recovered: an operator's endpoint covers the own tenant, the
\* command one tenant or all.
Recoverable ==
  {{p.tenant} : p \in {q \in Principals : "agenttrustops_operator" \in q.roles}}
  \cup Scopes

\* POST /v1/operations/recover and "agenttrust recover": approvals and leases, each
\* in a transaction of its own.
Recover(t) ==
  /\ \E scope \in Recoverable : \/ ExpireApprovals(scope, t)
                                \/ RecoverExpiredExecutions(scope, t)
  /\ UNCHANGED <<calls, effects, lookups>>

\* What goes on without a new request.
Background(c) ==
  \/ DuplicateCounts(c) \/ ReadResult(c) \/ Report(c)
  \/ ExecuteRefund(c) \/ RefundReturns(c)
  \/ HeartbeatDies(c) \/ Crash(c)
  \/ \E t \in SampledNow :
       \/ EvaluateRefund(c, t)
       \/ DuplicateSweepsApprovals(c, t) \/ DuplicateSweepsLeases(c, t)
       \/ Claim(c, t) \/ Heartbeat(c, t)

RefundNext ==
  \/ \E config \in Configs \cup {DefaultConfiguration} : Deploy(config)
  \/ \E c \in Calls, p \in Principals :
       \/ \E body \in Bodies : Submit(c, p, body)
       \/ \E r \in RunIds : ResumeRun(c, p, r)
  \/ /\ \/ \E c \in Calls : Background(c)
        \/ \E o \in Operators : \/ \E r \in RunIds : Inspect(o, r)
                                \/ Settle(o)
                                \/ DropLookup(o)
        \/ \E t \in SampledNow :
             \/ Recover(t)
             \/ \E r \in RunIds, approved \in BOOLEAN, p \in Principals :
                  Decide(r, approved, p, t)
        \/ Time
     /\ UNCHANGED serviceVars

RefundSpec == RefundInit /\ [][RefundNext]_refundVars

-----------------------------------------------------------------------------
(* Properties                                                              *)

\* The business rule the reference policy is to follow, stated without its
\* checks, versions and configuration: who may claim a refund of an order, what
\* amount is due, and from which amount on a second person must agree.  What is no
\* number is never due.
Claimant(q) ==
  \E o \in OrderStore :
    /\ o.id = q.order /\ o.tenant = q.tenant
    /\ q.roles \cap {"refund_agent", "refund_admin"} # {}
    /\ {<<"ORDER", o.id>>, <<"LOGISTICS", o.id>>} \subseteq q.evidence

Entitled(q) ==
  /\ Claimant(q)
  /\ \E o \in OrderStore : o.id = q.order /\ q.amount \in 1..o.total

TwoPeople(q) ==
  \E o \in OrderStore :
    /\ o.id = q.order
    /\ q.amount > IF o.date < 20260701 THEN 500 ELSE 300

RightOutcome(q) == IF ~Entitled(q) THEN "deny"
                   ELSE IF TwoPeople(q) THEN "approval_required" ELSE "allow"

\* Requests around every limit of the policy, over the roles the gate knows.
Probes ==
  [order : {o.id : o \in OrderStore} \cup {"O-UNKNOWN"},
   tenant : {"default", "beta"},
   roles : SUBSET {"refund_agent", "refund_admin", "viewer"},
   evidence : SUBSET (Required("O-LOW") \cup Required("O-HIST"))
              \cup {Required(o.id) : o \in OrderStore},
   amount : {NaN, Malformed, -1, 0, 1}
            \cup (UNION {{o.total, o.total + 1} : o \in OrderStore})
            \cup (UNION {{Versions[i].limit, Versions[i].limit + 1} :
                           i \in DOMAIN Versions})]

\* The deployed configuration is one the gate lets through.
Released == deployed # None /\ ReleaseAllowed(deployed)

\* A configuration that passes the gate decides every request by the rule: the
\* fourteen scenarios leave no unsafe configuration through.  Of NaN less is true,
\* as no comparison with a limit holds of it (refund_ops.py:170, 177): only who may
\* claim a refund of the order gets it past the policy.
ReleaseIsSafe ==
  [][deployed' # deployed /\ ReleaseAllowed(deployed') =>
       \A q \in Probes :
         LET outcome == Evaluate(deployed', q).outcome
         IN  IF q.amount = NaN THEN outcome # "deny" => Claimant(q)
                               ELSE outcome = RightOutcome(q)]_refundVars

\* A refund that was paid out is the only one of its order, whatever policy the
\* service was started with.  If the policy passes the gate, its requester may
\* claim it, and if it is of a number, it was due, and from the limit of the
\* order's date on, somebody else of the tenant, with the approval role, agreed
\* to this run.
RefundIsAuthorised ==
  \A c \in Calls : effects[c] = "committed" =>
    LET r == Run(c)
        q == runs[r].request
    IN  /\ \A f \in Refunds : f.order = q.order => f.call = c
        /\ Released => Claimant(q)
        /\ Released /\ q.amount # NaN =>
             /\ Entitled(q)
             /\ TwoPeople(q) => \E i \in DOMAIN events[r], p \in Principals :
                  /\ events[r][i].type = "approval.approved"
                  /\ events[r][i].by = p.actor
                  /\ p.approver /\ p.tenant = q.tenant /\ p.actor # q.actor

\* A completed run has a refund of its order and its amount, also when an
\* operator completed it who could not tell the refunds of two keys apart.
CompletedIsRefunded ==
  \A r \in RunIds : runs[r].status = "completed" =>
    \E f \in Refunds : /\ f.order = runs[r].request.order
                       /\ f.amount = runs[r].request.amount

\* Nobody calls for, decides or settles a run of another tenant: whom a trail
\* names as the person who did is one of the run's own tenant.
TenantsAreIsolated ==
  /\ \A c \in Calls : Run(c) # None =>
       callers[c].tenant = runs[Run(c)].request.tenant
  /\ \A r \in RunIds : \A i \in DOMAIN events[r] :
       events[r][i].type \in {"approval.approved", "approval.rejected",
                             "provider.reconciliation.observed",
                             "run.reconciled"} =>
         \E p \in Principals : /\ p.actor = events[r][i].by
                               /\ p.tenant = runs[r].request.tenant
=============================================================================
