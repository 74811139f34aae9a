---------------------------- MODULE RefundPolicy ----------------------------
(***************************************************************************)
(* The RefundOps reference policy (refund_ops.py) as a function of a       *)
(* configuration and a governed request, and the release gate that runs    *)
(* the scenarios of examples/refund_ops against a configuration.           *)
(*                                                                         *)
(* A date is the number yyyymmdd.  An amount is what float() makes of the  *)
(* argument: an integer, as in every scenario; NaN, of which every         *)
(* comparison is false; or Malformed, when float() raises.                 *)
(***************************************************************************)
EXTENDS Integers, Sequences

CONSTANTS NaN, Malformed

ASSUME AmountAssumption == {NaN, Malformed} \cap Int = {} /\ NaN # Malformed

-----------------------------------------------------------------------------
(* The stores and the configuration                                        *)

Order(id, tenant, date, total) ==
  [id |-> id, tenant |-> tenant, date |-> date, total |-> total]

OrderStore ==
  {Order("O-LOW", "default", 20260801, 200),
   Order("O-HIGH", "default", 20260801, 800),
   Order("O-HIST", "default", 20260520, 400),
   Order("O-FOREIGN", "beta", 20260801, 100)}

Version(name, from, limit) == [name |-> name, from |-> from, limit |-> limit]

\* Oldest first.
Versions == <<Version("refund-v2026-01", 20260101, 500),
              Version("refund-v2026-07", 20260701, 300)>>

VersionNames == {Versions[i].name : i \in DOMAIN Versions}

\* What a policy file may say about roles and checks.
Configurations(roles) ==
  [selection_mode : {"as_of_order", "latest"}, approval_enabled : BOOLEAN,
   require_evidence : BOOLEAN, enforce_roles : BOOLEAN,
   allowed_roles : SUBSET roles]

\* The configuration "serve" uses without a policy file.
DefaultConfiguration ==
  [selection_mode |-> "as_of_order", approval_enabled |-> TRUE,
   require_evidence |-> TRUE, enforce_roles |-> TRUE,
   allowed_roles |-> {"refund_agent", "refund_admin"}]

Required(id) == {<<"ORDER", id>>, <<"LOGISTICS", id>>}

-----------------------------------------------------------------------------
(* The decision                                                            *)

\* The last version in force at the order's date; no order is older than the
\* first version.
SelectPolicy(config, date) ==
  LET inForce == {i \in DOMAIN Versions : Versions[i].from <= date}
  IN  IF config.selection_mode = "latest"
      THEN Versions[Len(Versions)]
      ELSE Versions[CHOOSE i \in inForce : \A j \in inForce : j <= i]

\* A comparison of floats is false of NaN.
Above(amount, bound) == amount # NaN /\ amount > bound

Refundable(amount, total) ==
  /\ amount # Malformed
  /\ ~(amount # NaN /\ amount <= 0)
  /\ ~Above(amount, total)

Authorised(config, roles) ==
  config.enforce_roles => config.allowed_roles \cap roles # {}

Evidenced(config, id, evidence) ==
  config.require_evidence => Required(id) \subseteq evidence

NeedsApproval(config, amount, limit) ==
  config.approval_enabled /\ Above(amount, limit)

Decided(outcome, policy) == [outcome |-> outcome, policy |-> policy]

\* RefundPolicy.evaluate; q is a request with order, amount, tenant, roles and
\* evidence.  The order of the checks decides the reason only.
Evaluate(config, q) ==
  IF \A order \in OrderStore : order.id # q.order
  THEN Decided("deny", "unresolved")
  ELSE LET order == CHOOSE o \in OrderStore : o.id = q.order
           policy == SelectPolicy(config, order.date)
       IN  IF ~ /\ order.tenant = q.tenant
                /\ Authorised(config, q.roles)
                /\ Evidenced(config, q.order, q.evidence)
                /\ Refundable(q.amount, order.total)
           THEN Decided("deny", policy.name)
           ELSE IF NeedsApproval(config, q.amount, policy.limit)
           THEN Decided("approval_required", policy.name)
           ELSE Decided("allow", policy.name)

-----------------------------------------------------------------------------
(* The release gate                                                        *)

Scenario(order, amount, roles, evidence, status, policy) ==
  [order |-> order, amount |-> amount, tenant |-> "default", roles |-> roles,
   evidence |-> evidence, status |-> status, policy |-> policy]

Agent == {"refund_agent"}
Current == "refund-v2026-07"

\* examples/refund_ops/scenarios.json, in its order; the retries of the seventh
\* scenario repeat the first.
Scenarios ==
  {Scenario("O-LOW", 200, Agent, Required("O-LOW"), "completed", Current),
   Scenario("O-HIGH", 800, Agent, Required("O-HIGH"), "pending_approval", Current),
   Scenario("O-LOW", 200, Agent, {<<"ORDER", "O-LOW">>}, "denied", Current),
   Scenario("O-LOW", 200, {"viewer"}, Required("O-LOW"), "denied", Current),
   Scenario("O-HIST", 400, Agent, Required("O-HIST"), "completed", "refund-v2026-01"),
   Scenario("O-FOREIGN", 100, Agent, Required("O-FOREIGN"), "denied", Current),
   Scenario("O-LOW", 100, {"refund_admin"}, Required("O-LOW"), "completed", Current),
   Scenario("O-LOW", 50, {"viewer", "refund_agent"}, Required("O-LOW"), "completed",
            Current),
   Scenario("O-LOW", 0, Agent, Required("O-LOW"), "denied", Current),
   Scenario("O-LOW", -10, Agent, Required("O-LOW"), "denied", Current),
   Scenario("O-LOW", 201, Agent, Required("O-LOW"), "denied", Current),
   Scenario("O-UNKNOWN", 50, Agent, Required("O-UNKNOWN"), "denied", "unresolved"),
   Scenario("O-LOW", 50, Agent, Required("O-HIGH"), "denied", Current),
   [Scenario("O-FOREIGN", 100, Agent, Required("O-FOREIGN"), "completed", Current)
      EXCEPT !.tenant = "beta"]}

\* What a request comes to that meets nobody: each scenario has a ledger and a
\* refund store of its own.
StatusOf ==
  [allow |-> "completed", deny |-> "denied",
   approval_required |-> "pending_approval"]

\* Mutant of ReleaseAllowed: only an approval that is bypassed blocks a release.
NoBypass(config) ==
  \A s \in Scenarios : s.status = "pending_approval" =>
    StatusOf[Evaluate(config, s).outcome] # "completed"

\* evaluate_release, as "agenttrust eval" runs it: every decision and every policy
\* version is as expected.  An approval that is bypassed is a wrong decision, and
\* the ledger of a scenario lets no retry refund twice.
ReleaseAllowed(config) ==
  \A s \in Scenarios :
    LET decision == Evaluate(config, s)
    IN  StatusOf[decision.outcome] = s.status /\ decision.policy = s.policy
=============================================================================
