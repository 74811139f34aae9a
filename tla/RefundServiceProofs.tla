------------------------- MODULE RefundServiceProofs -------------------------
(***************************************************************************)
(* The reference deployment keeps the business rule, for any number of     *)
(* calls, people, orders' requests and crashes: the release gate admits    *)
(* one configuration only, and that one decides by the rule; the service   *)
(* uses the ledger only as its specification allows; and what was decided, *)
(* approved, refunded and settled stays about the same run, the same order *)
(* and the same tenant.                                                    *)
(***************************************************************************)
EXTENDS RefundService, TrustedActionProofs

-----------------------------------------------------------------------------
(* The release gate and the rule.                                          *)

\* The roles the scenarios of the gate are about.
GateRoles == {"refund_agent", "refund_admin", "viewer"}

\* The policy files use no other role: the gate has no scenario for one.
ReviewedConfigs == Configs \subseteq Configurations(GateRoles)

Amounts == Int \cup {NaN, Malformed}

LEMMA TheVersions ==
  /\ DOMAIN Versions = {1, 2}
  /\ Versions[1] = Version("refund-v2026-01", 20260101, 500)
  /\ Versions[2] = Version("refund-v2026-07", 20260701, 300)
  /\ Len(Versions) = 2
  BY DEF Versions

LEMMA TheOrders ==
  /\ \A o, p \in OrderStore : o.id = p.id => o = p
  /\ \A o \in OrderStore :
       /\ o.date \in {20260801, 20260520}
       /\ o.total \in Int
  BY DEF OrderStore, Order

\* The version an order is judged by, and whether its date is before July.
LEMMA SelectedVersion ==
  ASSUME NEW config, NEW date \in {20260801, 20260520}
  PROVE  SelectPolicy(config, date) =
           IF config.selection_mode = "latest" \/ date = 20260801
           THEN Versions[2] ELSE Versions[1]
  <1> DEFINE inForce == {i \in DOMAIN Versions : Versions[i].from <= date}
             last == CHOOSE i \in inForce : \A j \in inForce : j <= i
  <1>1. inForce = IF date = 20260801 THEN {1, 2} ELSE {1}
    BY TheVersions DEF Version
  <1>2. last = IF date = 20260801 THEN 2 ELSE 1
    <2>1. CASE date = 20260801
      BY <1>1, <2>1
    <2>2. CASE date # 20260801
      BY <1>1, <2>2
    <2> QED
      BY <2>1, <2>2
  <1> HIDE DEF last
  <1>3. SelectPolicy(config, date) =
          IF config.selection_mode = "latest" THEN Versions[2]
                                              ELSE Versions[last]
    BY TheVersions DEF SelectPolicy, last
  <1> QED
    BY <1>2, <1>3

\* What the policy answers for an order of the store.
LEMMA Answered ==
  ASSUME NEW config, NEW q, NEW o \in OrderStore, o.id = q.order
  PROVE  LET policy == SelectPolicy(config, o.date)
         IN  Evaluate(config, q) =
               IF ~ /\ o.tenant = q.tenant
                    /\ Authorised(config, q.roles)
                    /\ Evidenced(config, q.order, q.evidence)
                    /\ Refundable(q.amount, o.total)
               THEN Decided("deny", policy.name)
               ELSE IF NeedsApproval(config, q.amount, policy.limit)
               THEN Decided("approval_required", policy.name)
               ELSE Decided("allow", policy.name)
  <1>1. (CHOOSE p \in OrderStore : p.id = q.order) = o
    BY TheOrders
  <1>2. ~ \A p \in OrderStore : p.id # q.order
    OBVIOUS
  <1> QED
    BY <1>1, <1>2 DEF Evaluate

\* Who may claim a refund of an order of the store.
LEMMA WhoClaims ==
  ASSUME NEW q, NEW o \in OrderStore, o.id = q.order
  PROVE  Claimant(q) <=> /\ o.tenant = q.tenant
                         /\ Authorised(DefaultConfiguration, q.roles)
                         /\ Evidenced(DefaultConfiguration, q.order, q.evidence)
  <1> DEFINE roles == q.roles \cap {"refund_agent", "refund_admin"} # {}
             Fits(p) == /\ p.tenant = q.tenant
                        /\ roles
                        /\ Required(p.id) \subseteq q.evidence
  <1>1. Authorised(DefaultConfiguration, q.roles) <=> roles
    BY DEF Authorised, DefaultConfiguration
  <1>2. Evidenced(DefaultConfiguration, q.order, q.evidence) <=>
          Required(o.id) \subseteq q.evidence
    BY DEF Evidenced, DefaultConfiguration
  <1>3. Claimant(q) <=> \E p \in OrderStore : p.id = q.order /\ Fits(p)
    BY DEF Claimant, Required
  <1>4. \A p \in OrderStore : p.id = q.order <=> p = o
    BY TheOrders
  <1> HIDE DEF Fits
  <1>5. Claimant(q) <=> Fits(o)
    BY <1>3, <1>4
  <1> QED
    BY <1>1, <1>2, <1>5 DEF Fits

\* The configuration serve uses decides every request for a number by the rule,
\* whatever the number: also zero, a negative one and one too large.
LEMMA DefaultIsRight ==
  ASSUME NEW q, q.amount \in Amounts \ {NaN}
  PROVE  Evaluate(DefaultConfiguration, q).outcome = RightOutcome(q)
  <1> DEFINE config == DefaultConfiguration
  <1>1. CASE \A o \in OrderStore : o.id # q.order
    BY <1>1 DEF Evaluate, Decided, RightOutcome, Entitled, Claimant
  <1>2. ASSUME NEW o \in OrderStore, o.id = q.order
        PROVE  Evaluate(config, q).outcome = RightOutcome(q)
    <2> DEFINE policy == SelectPolicy(config, o.date)
    <2>1. Refundable(q.amount, o.total) <=> q.amount \in 1..o.total
      BY TheOrders, AmountAssumption DEF Refundable, Above, Amounts
    <2>2. policy.limit = IF o.date < 20260701 THEN 500 ELSE 300
      <3>1. policy = IF o.date = 20260801 THEN Versions[2] ELSE Versions[1]
        BY TheOrders, SelectedVersion DEF DefaultConfiguration
      <3> QED
        BY <3>1, TheOrders, TheVersions DEF Version
    <2>3. Entitled(q) <=> Claimant(q) /\ q.amount \in 1..o.total
      <3>1. \A p \in OrderStore : p.id = q.order <=> p = o
        BY <1>2, TheOrders
      <3> HIDE DEF Claimant
      <3> QED
        BY <1>2, <3>1 DEF Entitled
    <2>4. TwoPeople(q) <=> q.amount > IF o.date < 20260701 THEN 500 ELSE 300
      BY <1>2, TheOrders DEF TwoPeople
    <2>5. NeedsApproval(config, q.amount, policy.limit) <=> TwoPeople(q)
      <3>1. config.approval_enabled /\ q.amount # NaN
        BY DEF DefaultConfiguration
      <3> HIDE DEF config, policy
      <3> QED
        BY <2>2, <2>4, <3>1 DEF NeedsApproval, Above
    <2>6. Evaluate(config, q) =
            IF ~Entitled(q) THEN Decided("deny", policy.name)
            ELSE IF TwoPeople(q) THEN Decided("approval_required", policy.name)
            ELSE Decided("allow", policy.name)
      <3>1. Entitled(q) <=> /\ o.tenant = q.tenant
                            /\ Authorised(config, q.roles)
                            /\ Evidenced(config, q.order, q.evidence)
                            /\ Refundable(q.amount, o.total)
        BY <1>2, <2>1, <2>3, WhoClaims
      <3> HIDE DEF config
      <3> QED
        BY <1>2, <2>5, <3>1, Answered
    <2> QED
      BY <2>6 DEF Decided, RightOutcome
  <1> QED
    BY <1>1, <1>2

\* What it lets past, NaN included, was asked for by who may claim it.
LEMMA DefaultKnowsClaimants ==
  ASSUME NEW q, Evaluate(DefaultConfiguration, q).outcome # "deny"
  PROVE  Claimant(q)
  <1> DEFINE config == DefaultConfiguration
  <1>1. PICK o \in OrderStore : o.id = q.order
    BY DEF Evaluate, Decided
  <1>2. Evaluate(config, q).outcome # "deny" =>
          /\ o.tenant = q.tenant
          /\ Authorised(config, q.roles)
          /\ Evidenced(config, q.order, q.evidence)
    <2> HIDE DEF config
    <2> QED
      BY <1>1, Answered DEF Decided
  <1> QED
    BY <1>1, <1>2, WhoClaims

\* The fields of a configuration, and what makes it the default.
LEMMA ConfigurationFields ==
  ASSUME NEW config \in Configurations(GateRoles),
         config.selection_mode = "as_of_order", config.approval_enabled,
         config.require_evidence, config.enforce_roles,
         config.allowed_roles = {"refund_agent", "refund_admin"}
  PROVE  config = DefaultConfiguration
  BY DEF Configurations, DefaultConfiguration

\* The policy answers with an outcome and the name of a version.
LEMMA EvaluateTyped ==
  ASSUME NEW config, NEW q
  PROVE  /\ Evaluate(config, q).outcome \in {"allow", "deny", "approval_required"}
         /\ Evaluate(config, q).policy \in VersionNames \cup {"unresolved"}
  <1>1. CASE \A o \in OrderStore : o.id # q.order
    BY <1>1 DEF Evaluate, Decided
  <1>2. ASSUME NEW o \in OrderStore, o.id = q.order
        PROVE  /\ Evaluate(config, q).outcome
                    \in {"allow", "deny", "approval_required"}
               /\ Evaluate(config, q).policy \in VersionNames
    <2>1. SelectPolicy(config, o.date).name \in VersionNames
      <3>1. SelectPolicy(config, o.date) \in {Versions[1], Versions[2]}
        BY TheOrders, SelectedVersion
      <3> QED
        BY <3>1, TheVersions DEF VersionNames
    <2> HIDE DEF OrderStore
    <2> QED
      BY <1>2, <2>1, Answered DEF Decided
  <1> QED
    BY <1>1, <1>2

\* What an expected status says of the decision.
LEMMA ScenarioAnswers ==
  ASSUME NEW config, ReleaseAllowed(config), NEW s \in Scenarios
  PROVE  /\ s.status = "denied" => Evaluate(config, s).outcome = "deny"
         /\ s.status = "completed" => Evaluate(config, s).outcome = "allow"
         /\ s.status = "pending_approval" =>
              Evaluate(config, s).outcome = "approval_required"
         /\ Evaluate(config, s).policy = s.policy
  <1>1. /\ StatusOf[Evaluate(config, s).outcome] = s.status
        /\ Evaluate(config, s).policy = s.policy
    BY DEF ReleaseAllowed
  <1> QED
    BY <1>1, EvaluateTyped DEF StatusOf

\* How a scenario that asks for one of the store's orders is answered.
LEMMA ScenarioDecided ==
  ASSUME NEW config, ReleaseAllowed(config), NEW s \in Scenarios,
         NEW o \in OrderStore, o.id = s.order, o.tenant = s.tenant
  PROVE  LET version == SelectPolicy(config, o.date)
             cleared == /\ Authorised(config, s.roles)
                        /\ Evidenced(config, s.order, s.evidence)
                        /\ Refundable(s.amount, o.total)
         IN  /\ s.status = "denied" => ~cleared
             /\ s.status = "completed" => cleared /\ version.name = s.policy
             /\ s.status = "pending_approval" =>
                  NeedsApproval(config, s.amount, version.limit)
  <1> DEFINE version == SelectPolicy(config, o.date)
             cleared == /\ Authorised(config, s.roles)
                        /\ Evidenced(config, s.order, s.evidence)
                        /\ Refundable(s.amount, o.total)
             asked == NeedsApproval(config, s.amount, version.limit)
  <1>1. Evaluate(config, s) =
          IF ~cleared THEN Decided("deny", version.name)
          ELSE IF asked THEN Decided("approval_required", version.name)
          ELSE Decided("allow", version.name)
    BY Answered
  <1>2. /\ s.status = "denied" => Evaluate(config, s).outcome = "deny"
        /\ s.status = "completed" => Evaluate(config, s).outcome = "allow"
        /\ s.status = "pending_approval" =>
             Evaluate(config, s).outcome = "approval_required"
        /\ Evaluate(config, s).policy = s.policy
    BY ScenarioAnswers
  <1> HIDE DEF cleared, asked, version
  <1>3. /\ s.status = "denied" => ~cleared
        /\ s.status = "completed" => cleared /\ version.name = s.policy
        /\ s.status = "pending_approval" => asked
    BY <1>1, <1>2 DEF Decided
  <1> QED
    BY <1>3 DEF cleared, asked, version

\* What a scenario of the tenant "default" asks and expects.
Asks(s, order, amount, roles, evidence, status) ==
  /\ s.order = order /\ s.tenant = "default" /\ s.amount = amount
  /\ s.roles = roles /\ s.evidence = evidence /\ s.status = status

LEMMA ScenarioAsks ==
  ASSUME NEW order, NEW amount, NEW roles, NEW evidence, NEW status, NEW policy
  PROVE  LET s == Scenario(order, amount, roles, evidence, status, policy)
         IN  Asks(s, order, amount, roles, evidence, status) /\ s.policy = policy
  BY DEF Scenario, Asks

(* Of all the configurations a policy file can hold, the fourteen scenarios  *)
(* of the gate let one through, the one serve has without a file: every      *)
(* switch that weakens a check, and every set of roles but the right one,    *)
(* fails some scenario.                                                      *)
THEOREM GateAdmitsOne ==
  ASSUME NEW config \in Configurations(GateRoles), ReleaseAllowed(config)
  PROVE  config = DefaultConfiguration
  <1> DEFINE low == Order("O-LOW", "default", 20260801, 200)
             high == Order("O-HIGH", "default", 20260801, 800)
             hist == Order("O-HIST", "default", 20260520, 400)
             both == Required("O-LOW")
             one == {<<"ORDER", "O-LOW">>}
  <1>1. /\ low \in OrderStore /\ high \in OrderStore /\ hist \in OrderStore
        /\ low.id = "O-LOW" /\ low.tenant = "default" /\ low.total = 200
        /\ high.id = "O-HIGH" /\ high.tenant = "default"
        /\ hist.id = "O-HIST" /\ hist.tenant = "default"
        /\ hist.date = 20260520
    BY DEF OrderStore, Order
  <1> HIDE DEF low, high, hist
  <1>2. Authorised(config, Agent) /\ Refundable(200, 200)
          /\ Evidenced(config, "O-LOW", both)
    <2>1. PICK s \in Scenarios : Asks(s, "O-LOW", 200, Agent, both, "completed")
      BY ScenarioAsks DEF Scenarios
    <2> QED
      BY <1>1, <2>1, ScenarioDecided DEF Asks
  <1>3. config.approval_enabled
    <2>1. PICK s \in Scenarios :
            Asks(s, "O-HIGH", 800, Agent, Required("O-HIGH"), "pending_approval")
      BY ScenarioAsks DEF Scenarios
    <2>2. \E limit : NeedsApproval(config, s.amount, limit)
      BY <1>1, <2>1, ScenarioDecided DEF Asks
    <2> QED
      BY <2>2 DEF NeedsApproval
  <1>4. ~Evidenced(config, "O-LOW", one)
    <2>1. PICK s \in Scenarios : Asks(s, "O-LOW", 200, Agent, one, "denied")
      BY ScenarioAsks DEF Scenarios
    <2> HIDE DEF one, both
    <2>2. ~ /\ Authorised(config, s.roles)
            /\ Evidenced(config, s.order, s.evidence)
            /\ Refundable(s.amount, low.total)
      BY <1>1, <2>1, ScenarioDecided DEF Asks
    <2> QED
      BY <1>1, <1>2, <2>1, <2>2 DEF Asks
  <1>5. ~Authorised(config, {"viewer"})
    <2>1. PICK s \in Scenarios :
            Asks(s, "O-LOW", 200, {"viewer"}, both, "denied")
      BY ScenarioAsks DEF Scenarios
    <2> QED
      BY <1>1, <1>2, <2>1, ScenarioDecided DEF Asks
  <1>6. Authorised(config, {"refund_admin"})
    <2>1. PICK s \in Scenarios :
            Asks(s, "O-LOW", 100, {"refund_admin"}, both, "completed")
      BY ScenarioAsks DEF Scenarios
    <2> QED
      BY <1>1, <2>1, ScenarioDecided DEF Asks
  <1>7. SelectPolicy(config, 20260520).name = "refund-v2026-01"
    <2>1. PICK s \in Scenarios :
            /\ Asks(s, "O-HIST", 400, Agent, Required("O-HIST"), "completed")
            /\ s.policy = "refund-v2026-01"
      BY ScenarioAsks DEF Scenarios
    <2> QED
      BY <1>1, <2>1, ScenarioDecided DEF Asks
  <1>8. config.selection_mode = "as_of_order"
    <2>1. config.selection_mode \in {"as_of_order", "latest"}
      BY DEF Configurations
    <2>2. config.selection_mode = "latest" =>
            SelectPolicy(config, 20260520).name = "refund-v2026-07"
      BY SelectedVersion, TheVersions DEF Version
    <2> QED
      BY <1>7, <2>1, <2>2
  <1>9. config.require_evidence
    BY <1>4 DEF Evidenced
  <1>10. config.enforce_roles /\ "viewer" \notin config.allowed_roles
    BY <1>5 DEF Authorised
  <1>11. {"refund_agent", "refund_admin"} \subseteq config.allowed_roles
    BY <1>2, <1>6, <1>10 DEF Authorised, Agent
  <1>12. config.allowed_roles = {"refund_agent", "refund_admin"}
    BY <1>10, <1>11 DEF Configurations, GateRoles
  <1> QED
    BY <1>3, <1>8, <1>9, <1>10, <1>12, ConfigurationFields

\* What the rule expects of a request for an order.
Expected(q, o) ==
  IF ~ /\ o.tenant = q.tenant
       /\ q.roles \cap {"refund_agent", "refund_admin"} # {}
       /\ Required(o.id) \subseteq q.evidence
       /\ q.amount \in 1..o.total
  THEN "denied"
  ELSE IF q.amount > IF o.date = 20260801 THEN 300 ELSE 500
  THEN "pending_approval" ELSE "completed"

PassesGate(s) ==
  LET decision == Evaluate(DefaultConfiguration, s)
  IN  StatusOf[decision.outcome] = s.status /\ decision.policy = s.policy

LEMMA ExpectedPasses ==
  ASSUME NEW s, NEW o \in OrderStore, o.id = s.order, s.amount \in Int,
         s.status = Expected(s, o),
         s.policy = IF o.date = 20260801 THEN "refund-v2026-07"
                                         ELSE "refund-v2026-01"
  PROVE  PassesGate(s)
  <1> DEFINE config == DefaultConfiguration
             version == SelectPolicy(config, o.date)
             cleared == /\ o.tenant = s.tenant
                        /\ Authorised(config, s.roles)
                        /\ Evidenced(config, s.order, s.evidence)
                        /\ Refundable(s.amount, o.total)
             asked == NeedsApproval(config, s.amount, version.limit)
  <1>1. /\ version.name = s.policy
        /\ version.limit = IF o.date = 20260801 THEN 300 ELSE 500
    <2>1. version = IF o.date = 20260801 THEN Versions[2] ELSE Versions[1]
      BY TheOrders, SelectedVersion DEF DefaultConfiguration
    <2> HIDE DEF version
    <2> QED
      BY <2>1, TheVersions DEF Version
  <1>2. Evaluate(config, s) = IF ~cleared THEN Decided("deny", version.name)
                              ELSE IF asked
                              THEN Decided("approval_required", version.name)
                              ELSE Decided("allow", version.name)
    BY Answered
  <1>3. cleared <=> /\ o.tenant = s.tenant
                    /\ s.roles \cap {"refund_agent", "refund_admin"} # {}
                    /\ Required(o.id) \subseteq s.evidence
                    /\ s.amount \in 1..o.total
    <2>1. Refundable(s.amount, o.total) <=> s.amount \in 1..o.total
      BY TheOrders, AmountAssumption DEF Refundable, Above
    <2>2. Authorised(config, s.roles) <=>
            s.roles \cap {"refund_agent", "refund_admin"} # {}
      BY DEF Authorised, DefaultConfiguration
    <2>3. Evidenced(config, s.order, s.evidence) <=>
            Required(o.id) \subseteq s.evidence
      BY DEF Evidenced, DefaultConfiguration
    <2> QED
      BY <2>1, <2>2, <2>3
  <1>4. asked <=> s.amount > IF o.date = 20260801 THEN 300 ELSE 500
    <2>1. config.approval_enabled /\ s.amount # NaN
      BY AmountAssumption DEF DefaultConfiguration
    <2> HIDE DEF config, version
    <2> QED
      BY <1>1, <2>1 DEF NeedsApproval, Above
  <1> HIDE DEF cleared, asked, version, config
  <1>5. /\ s.status = "denied" => ~cleared
        /\ s.status = "pending_approval" => cleared /\ asked
        /\ s.status = "completed" => cleared /\ ~asked
        /\ s.status \in {"denied", "pending_approval", "completed"}
    BY <1>3, <1>4 DEF Expected
  <1> QED
    BY <1>1, <1>2, <1>5 DEF Decided, PassesGate, StatusOf, config

\* A scenario of the tenant "default" about an order of the store.
LEMMA ScenarioPasses ==
  ASSUME NEW o \in OrderStore, NEW amount \in Int, NEW roles, NEW evidence,
         NEW status, NEW policy,
         status = Expected([tenant |-> "default", roles |-> roles,
                            evidence |-> evidence, amount |-> amount], o),
         policy = IF o.date = 20260801 THEN "refund-v2026-07"
                                       ELSE "refund-v2026-01"
  PROVE  PassesGate(Scenario(o.id, amount, roles, evidence, status, policy))
  <1> DEFINE s == Scenario(o.id, amount, roles, evidence, status, policy)
  <1>1. /\ s.order = o.id /\ s.amount = amount /\ s.tenant = "default"
        /\ s.roles = roles /\ s.evidence = evidence /\ s.status = status
        /\ s.policy = policy
    BY DEF Scenario
  <1>2. Expected(s, o) = Expected([tenant |-> "default", roles |-> roles,
                                   evidence |-> evidence, amount |-> amount], o)
    <2> HIDE DEF s
    <2> QED
      BY <1>1 DEF Expected
  <1> HIDE DEF s
  <1>3. PassesGate(s)
    BY <1>1, <1>2, ExpectedPasses
  <1> QED
    BY <1>3 DEF s

(* The gate does let one through: the configuration serve has without a      *)
(* file passes every scenario, so that a released service is no empty case.  *)
THEOREM DefaultPassesGate == ReleaseAllowed(DefaultConfiguration)
  <1> DEFINE low == Order("O-LOW", "default", 20260801, 200)
             high == Order("O-HIGH", "default", 20260801, 800)
             hist == Order("O-HIST", "default", 20260520, 400)
             foreign == Order("O-FOREIGN", "beta", 20260801, 100)
             one == {<<"ORDER", "O-LOW">>}
             Right(o, amount, roles, evidence, status) ==
               status = Expected([tenant |-> "default", roles |-> roles,
                                  evidence |-> evidence, amount |-> amount], o)
  <1>1. {low, high, hist, foreign} \subseteq OrderStore
    BY DEF OrderStore
  <1>2. /\ low.id = "O-LOW" /\ low.date = 20260801
        /\ high.id = "O-HIGH" /\ high.date = 20260801
        /\ hist.id = "O-HIST" /\ hist.date = 20260520
        /\ foreign.id = "O-FOREIGN" /\ foreign.date = 20260801
    BY DEF Order
  <1>4. Right(low, 200, Agent, Required("O-LOW"), "completed")
    BY DEF Expected, Order, Agent, Required
  <1>5. Right(high, 800, Agent, Required("O-HIGH"), "pending_approval")
    BY DEF Expected, Order, Agent, Required
  <1>6. Right(low, 200, Agent, one, "denied")
    BY DEF Expected, Order, Agent, Required
  <1>7. Right(low, 200, {"viewer"}, Required("O-LOW"), "denied")
    BY DEF Expected, Order, Agent, Required
  <1>8. Right(hist, 400, Agent, Required("O-HIST"), "completed")
    BY DEF Expected, Order, Agent, Required
  <1>9. Right(foreign, 100, Agent, Required("O-FOREIGN"), "denied")
    BY DEF Expected, Order, Agent, Required
  <1>10. Right(low, 100, {"refund_admin"}, Required("O-LOW"), "completed")
    BY DEF Expected, Order, Agent, Required
  <1>11. Right(low, 50, {"viewer", "refund_agent"}, Required("O-LOW"), "completed")
    BY DEF Expected, Order, Agent, Required
  <1>12. Right(low, 0, Agent, Required("O-LOW"), "denied")
    BY DEF Expected, Order, Agent, Required
  <1>13. Right(low, -10, Agent, Required("O-LOW"), "denied")
    BY DEF Expected, Order, Agent, Required
  <1>14. Right(low, 201, Agent, Required("O-LOW"), "denied")
    BY DEF Expected, Order, Agent, Required
  <1>15. Right(low, 50, Agent, Required("O-HIGH"), "denied")
    BY DEF Expected, Order, Agent, Required
  <1> DEFINE abroad == [Scenario("O-FOREIGN", 100, Agent, Required("O-FOREIGN"),
                                 "completed", Current) EXCEPT !.tenant = "beta"]
  <1>16. /\ foreign.id = abroad.order /\ abroad.amount = 100
         /\ abroad.status = Expected(abroad, foreign)
         /\ abroad.policy = "refund-v2026-07"
    BY DEF Expected, Scenario, Order, Agent, Required, Current
  <1>17. PassesGate(Scenario("O-UNKNOWN", 50, Agent, Required("O-UNKNOWN"), "denied",
                     "unresolved"))
    BY DEF PassesGate, Evaluate, Scenario, OrderStore, Order, Decided, StatusOf
  <1> HIDE DEF low, high, hist, foreign, one, abroad
  <1>18. PassesGate(Scenario("O-LOW", 200, Agent, Required("O-LOW"),
                       "completed", Current))
    BY <1>1, <1>2, <1>4, ScenarioPasses DEF Current
  <1>19. PassesGate(Scenario("O-HIGH", 800, Agent, Required("O-HIGH"),
                       "pending_approval", Current))
    BY <1>1, <1>2, <1>5, ScenarioPasses DEF Current
  <1>20. PassesGate(Scenario("O-LOW", 200, Agent, one,
                       "denied", Current))
    BY <1>1, <1>2, <1>6, ScenarioPasses DEF Current
  <1>21. PassesGate(Scenario("O-LOW", 200, {"viewer"}, Required("O-LOW"),
                       "denied", Current))
    BY <1>1, <1>2, <1>7, ScenarioPasses DEF Current
  <1>22. PassesGate(Scenario("O-HIST", 400, Agent, Required("O-HIST"),
                       "completed", "refund-v2026-01"))
    BY <1>1, <1>2, <1>8, ScenarioPasses DEF Current
  <1>23. PassesGate(Scenario("O-FOREIGN", 100, Agent, Required("O-FOREIGN"),
                       "denied", Current))
    BY <1>1, <1>2, <1>9, ScenarioPasses DEF Current
  <1>24. PassesGate(Scenario("O-LOW", 100, {"refund_admin"}, Required("O-LOW"),
                       "completed", Current))
    BY <1>1, <1>2, <1>10, ScenarioPasses DEF Current
  <1>25. PassesGate(Scenario("O-LOW", 50, {"viewer", "refund_agent"}, Required("O-LOW"),
                       "completed", Current))
    BY <1>1, <1>2, <1>11, ScenarioPasses DEF Current
  <1>26. PassesGate(Scenario("O-LOW", 0, Agent, Required("O-LOW"),
                       "denied", Current))
    BY <1>1, <1>2, <1>12, ScenarioPasses DEF Current
  <1>27. PassesGate(Scenario("O-LOW", -10, Agent, Required("O-LOW"),
                       "denied", Current))
    BY <1>1, <1>2, <1>13, ScenarioPasses DEF Current
  <1>28. PassesGate(Scenario("O-LOW", 201, Agent, Required("O-LOW"),
                       "denied", Current))
    BY <1>1, <1>2, <1>14, ScenarioPasses DEF Current
  <1>29. PassesGate(Scenario("O-LOW", 50, Agent, Required("O-HIGH"),
                       "denied", Current))
    BY <1>1, <1>2, <1>15, ScenarioPasses DEF Current
  <1>30. PassesGate(abroad)
    BY <1>1, <1>2, <1>16, ExpectedPasses
  <1>31. \A s \in Scenarios : PassesGate(s)
    <2> HIDE DEF PassesGate
    <2> QED
      BY <1>17, <1>18, <1>19, <1>20, <1>21, <1>22, <1>23, <1>24, <1>25, <1>26, 
         <1>27, <1>28, <1>29, <1>30
         DEF Scenarios, one, abroad
  <1> QED
    BY <1>31 DEF ReleaseAllowed, PassesGate

(* A configuration that passes the gate decides the probed requests by the   *)
(* rule, and lets NaN past for who may claim a refund of the order only, as  *)
(* long as the policy files keep to the roles the gate has scenarios for.    *)
(* Whatever file the service is started with: one that fails the gate is     *)
(* deployed as well, and nothing is said of it.                              *)
THEOREM ReleasesAreSafe ==
  ASSUME ReviewedConfigs
  PROVE  RefundSpec => ReleaseIsSafe
  <1> DEFINE Safe(q) ==
               LET outcome == Evaluate(deployed', q).outcome
               IN  IF q.amount = NaN THEN outcome # "deny" => Claimant(q)
                                     ELSE outcome = RightOutcome(q)
  <1>1. \A q \in Probes : q.amount \in Amounts
    <2>1. \A o \in OrderStore : {o.total, o.total + 1} \subseteq Int
      BY TheOrders
    <2>2. \A i \in DOMAIN Versions :
            {Versions[i].limit, Versions[i].limit + 1} \subseteq Int
      BY TheVersions DEF Version
    <2> HIDE DEF OrderStore, Versions
    <2>3. \A q \in Probes :
            q.amount \in {NaN, Malformed, -1, 0, 1}
              \cup (UNION {{o.total, o.total + 1} : o \in OrderStore})
              \cup (UNION {{Versions[i].limit, Versions[i].limit + 1} :
                             i \in DOMAIN Versions})
      BY DEF Probes
    <2> QED
      BY <2>1, <2>2, <2>3 DEF Amounts
  <1>2. ASSUME [RefundNext]_refundVars, deployed' # deployed,
               ReleaseAllowed(deployed')
        PROVE  \A q \in Probes : Safe(q)
    <2>1. PICK config \in Configs \cup {DefaultConfiguration} : Deploy(config)
      BY <1>2
         DEF RefundNext, refundVars, serviceVars, Submit, ResumeRun
    <2>2. deployed' = DefaultConfiguration
      BY <1>2, <2>1, GateAdmitsOne DEF Deploy, ReviewedConfigs
    <2> HIDE DEF Probes
    <2> SUFFICES ASSUME NEW q \in Probes
                 PROVE  Safe(q)
      OBVIOUS
    <2> QED
      BY <1>1, <2>2, DefaultIsRight, DefaultKnowsClaimants
  <1>3. [RefundNext]_refundVars =>
          [deployed' # deployed /\ ReleaseAllowed(deployed') =>
             \A q \in Probes : Safe(q)]_refundVars
    BY <1>2, Zenon
  <1> QED
    BY <1>3, PTL DEF RefundSpec, ReleaseIsSafe

-----------------------------------------------------------------------------
(* The service takes steps of the runtime, but for its own tool, its own     *)
(* operators and its own sweep.                                              *)

Ordinary == [RuntimeNext]_runtimeVars /\ UNCHANGED <<effects, lookups>>

LEMMA RefundStepShape ==
  ASSUME [RefundNext]_refundVars
  PROVE  \/ Ordinary
         \/ \E c \in Calls : ExecuteRefund(c)
         \/ \E o \in Operators : \/ \E r \in RunIds : Inspect(o, r)
                                 \/ Settle(o)
                                 \/ DropLookup(o)
         \/ \E t \in SampledNow : Recover(t)
  <1>1. CASE UNCHANGED runtimeVars
    BY <1>1 DEF runtimeVars, Ordinary
  <1>2. ASSUME NEW config, Deploy(config)
        PROVE  Ordinary
    BY <1>1, <1>2 DEF Deploy, runtimeVars, Ordinary
  <1>3. ASSUME NEW c \in Calls, NEW p \in Principals, NEW body \in Bodies,
               Submit(c, p, body)
        PROVE  Ordinary
    <2>1. Governed(p, body) \in Requests
      BY ServiceAssumption
    <2>2. Invoke(c, Governed(p, body))
      BY <1>3 DEF Submit
    <2> DEFINE request == Governed(p, body)
    <2> HIDE DEF request
    <2>3. RuntimeNext
      BY <2>1, <2>2 DEF RuntimeNext, request
    <2>4. Internal
      BY <2>2, Zenon DEF Invoke
    <2> QED
      BY <2>3, <2>4 DEF Ordinary, Internal
  <1>4. ASSUME NEW c \in Calls, NEW p \in Principals, NEW r \in RunIds,
               ResumeRun(c, p, r)
        PROVE  Ordinary
    <2>1. Resume(c, r)
      BY <1>4 DEF ResumeRun
    <2>2. RuntimeNext
      BY <2>1 DEF RuntimeNext
    <2> QED
      BY <2>1, <2>2 DEF Resume, Internal, Ordinary
  <1>5. ASSUME NEW c \in Calls, NEW t \in SampledNow, EvaluateRefund(c, t)
        PROVE  Ordinary
    <2> DEFINE decision == Evaluate(deployed, calls[c].request)
    <2>1. decision.outcome \in PolicyOutcome /\ decision.policy \in Policies
      BY EvaluateTyped, ServiceAssumption DEF PolicyOutcome
    <2>2. EvaluatePolicy(c, decision.outcome, decision.policy, t)
      BY <1>5 DEF EvaluateRefund
    <2> HIDE DEF decision
    <2>3. CallStep(c) /\ UNCHANGED <<effects, lookups>>
      BY <2>1, <2>2 DEF CallStep, EvaluatePolicy, Internal
    <2> QED
      BY <2>3 DEF RuntimeNext, Ordinary
  <1>6. ASSUME NEW c \in Calls,
               \/ DuplicateCounts(c) \/ ReadResult(c) \/ Report(c)
               \/ \E t \in SampledNow : \/ DuplicateSweepsApprovals(c, t)
                                        \/ DuplicateSweepsLeases(c, t)
                                        \/ Claim(c, t)
        PROVE  Ordinary
    <2>1. CallStep(c)
      BY <1>6 DEF CallStep
    <2>2. UNCHANGED <<effects, lookups>>
      BY <1>6 DEF DuplicateCounts, ReadResult, Report, DuplicateSweepsApprovals,
                  DuplicateSweepsLeases, Claim, Internal
    <2> QED
      BY <2>1, <2>2 DEF RuntimeNext, Ordinary
  <1>7. ASSUME NEW c \in Calls, RefundReturns(c)
        PROVE  Ordinary
    <2>1. ToolStep(c)
      BY <1>7 DEF RefundReturns, ToolStep
    <2>2. UNCHANGED <<effects, lookups>>
      BY <1>7 DEF RefundReturns, ToolReturns, Internal
    <2> QED
      BY <2>1, <2>2 DEF RuntimeNext, Ordinary
  <1>8. ASSUME NEW c \in Calls,
               \/ HeartbeatDies(c) \/ Crash(c)
               \/ \E t \in SampledNow : Heartbeat(c, t)
        PROVE  Ordinary
    BY <1>8 DEF HeartbeatDies, Crash, Heartbeat, Internal, RuntimeNext, Ordinary
  <1>9. ASSUME NEW t \in SampledNow, NEW r \in RunIds, NEW approved \in BOOLEAN,
               NEW p \in Principals, Decide(r, approved, p, t)
        PROVE  Ordinary
    BY <1>9 DEF Decide, RuntimeNext, Ordinary
  <1>10. CASE Time
    BY <1>10 DEF Time, RuntimeNext, Ordinary
  <1>11. ASSUME NEW c \in Calls, Background(c)
         PROVE  Ordinary \/ ExecuteRefund(c)
    BY <1>5, <1>6, <1>7, <1>8, <1>11 DEF Background
  <1>12. CASE UNCHANGED refundVars
    BY <1>1, <1>12 DEF refundVars
  <1> QED
    BY <1>2, <1>3, <1>4, <1>9, <1>10, <1>11, <1>12 DEF RefundNext

\* What the operators' sweep may cover: a tenant without a request has no run.
LEMMA RecoverStep ==
  ASSUME PlacedInv, NEW t \in SampledNow, Recover(t)
  PROVE  [Next]_vars
  <1>1. ASSUME NEW tenant, \/ ExpireApprovals({tenant}, t)
                           \/ RecoverExpiredExecutions({tenant}, t)
        PROVE  [Next]_vars
    <2>1. CASE tenant \in Tenants
      <3>1. {tenant} \in Scopes
        BY <2>1 DEF Scopes
      <3> QED
        BY <1>1, <3>1 DEF Next
    <2>2. CASE tenant \notin Tenants
      <3>1. \A r \in RunIds : runs[r] # NoRow => runs[r].request.tenant # tenant
        BY <2>2 DEF PlacedInv, TypeOK, Row, Tenants
      <3>2. \A r \in RunIds : ~Pending(r) \/ runs[r] # NoRow
        BY NoRowColumns DEF Pending
      <3>3. \A r \in RunIds : ~LeaseExpired(r, t) \/ runs[r] # NoRow
        BY NoRowColumns DEF LeaseExpired
      <3>4. \/ ExpireApproval({})
            \/ MarkExpiredExecution({})
        <4>1. {r \in RunIds : /\ Pending(r) /\ Overdue(r, t)
                              /\ runs[r].request.tenant \in {tenant}} = {}
          BY <3>1, <3>2
        <4>2. {r \in RunIds : /\ LeaseExpired(r, t)
                              /\ runs[r].request.tenant \in {tenant}} = {}
          BY <3>1, <3>3
        <4> QED
          BY <1>1, <4>1, <4>2 DEF ExpireApprovals, RecoverExpiredExecutions
      <3>5. UNCHANGED vars
        BY <3>4 DEF PlacedInv, TypeOK, ExpireApproval, MarkExpiredExecution, vars
      <3> QED
        BY <3>5
    <2> QED
      BY <2>1, <2>2
  <1>2. ASSUME NEW scope \in Scopes, \/ ExpireApprovals(scope, t)
                                     \/ RecoverExpiredExecutions(scope, t)
        PROVE  [Next]_vars
    BY <1>2 DEF Next
  <1> QED
    BY <1>1, <1>2 DEF Recover, Recoverable

LEMMA RefundLedgerStep ==
  ASSUME PlacedInv, [RefundNext]_refundVars
  PROVE  [Next]_vars
  <1>1. CASE Ordinary
    BY <1>1, LedgerStep DEF Ordinary
  <1>2. ASSUME UNCHANGED ledgerVars
        PROVE  [Next]_vars
    BY <1>2 DEF ledgerVars, vars
  <1>3. ASSUME NEW c \in Calls, ExecuteRefund(c)
        PROVE  [Next]_vars
    BY <1>2, <1>3 DEF ExecuteRefund
  <1>4. ASSUME NEW o \in Operators,
               (\E r \in RunIds : Inspect(o, r)) \/ DropLookup(o)
        PROVE  [Next]_vars
    BY <1>2, <1>4 DEF Inspect, DropLookup
  <1>5. ASSUME NEW o \in Operators, Settle(o)
        PROVE  [Next]_vars
    <2>1. lookups[o].run \in RunIds
      BY <1>5 DEF Settle, PlacedInv, RuntimeTypeOK
    <2>2. o \in Principals
      BY RuntimeAssumption
    <2>3. \E status \in {"completed", "failed"} :
            ReconcileRun(lookups[o].run, status, o)
      BY <1>5 DEF Settle
    <2> QED
      BY <2>1, <2>2, <2>3 DEF Next
  <1> QED
    BY <1>1, <1>3, <1>4, <1>5, RecoverStep, RefundStepShape

LEMMA RefundPlacedStep ==
  ASSUME PlacedInv, [RefundNext]_refundVars
  PROVE  PlacedInv'
  <1>1. [Next]_vars
    BY RefundLedgerStep
  <1>2. EffectsTyped /\ LookupsTyped
    BY RuntimeTypes DEF PlacedInv
  <1>3. ASSUME UNCHANGED calls, EffectsTyped', LookupsTyped'
        PROVE  PlacedInv'
    BY <1>1, <1>3, CallsPlaced
  <1>4. CASE Ordinary
    BY <1>4, PlacedInvStep DEF Ordinary
  <1>5. ASSUME NEW c \in Calls, ExecuteRefund(c)
        PROVE  PlacedInv'
    <2>1. EffectsTyped'
      BY <1>2, <1>5 DEF ExecuteRefund, EffectsTyped
    <2>2. UNCHANGED <<calls, lookups>>
      BY <1>5 DEF ExecuteRefund
    <2> QED
      BY <1>2, <1>3, <2>1, <2>2 DEF LookupsTyped
  <1>6. ASSUME NEW o \in Operators, NEW r \in RunIds, Inspect(o, r)
        PROVE  PlacedInv'
    <2>1. PICK outcome \in ProviderOutcome :
            lookups' = [lookups EXCEPT ![o] = [run |-> r, outcome |-> outcome]]
      BY <1>6 DEF Inspect, ProviderOutcome
    <2>2. UNCHANGED <<calls, effects>>
      BY <1>6 DEF Inspect
    <2> QED
      BY <1>2, <1>3, <2>1, <2>2 DEF EffectsTyped, LookupsTyped
  <1>7. ASSUME NEW o \in Operators, Settle(o) \/ DropLookup(o)
        PROVE  PlacedInv'
    <2>1. lookups' = [lookups EXCEPT ![o] = NoLookup]
      BY <1>7 DEF Settle, DropLookup
    <2>2. UNCHANGED <<calls, effects>>
      BY <1>7 DEF Settle, DropLookup
    <2> QED
      BY <1>2, <1>3, <2>1, <2>2 DEF EffectsTyped, LookupsTyped
  <1>8. ASSUME NEW t \in SampledNow, Recover(t)
        PROVE  PlacedInv'
    BY <1>2, <1>3, <1>8 DEF Recover, EffectsTyped, LookupsTyped
  <1> QED
    BY <1>4, <1>5, <1>6, <1>7, <1>8, RefundStepShape

\* What a step does for every call: what it paid out stays paid out.
LEMMA RefundStepSound ==
  ASSUME PlacedInv, SoundInv, [RefundNext]_refundVars
  PROVE  \A c \in Calls : Continues(c)
  <1>1. [Next]_vars
    BY RefundLedgerStep
  <1>2. ASSUME NEW d \in Calls, calls'[d] = calls[d], effects'[d] = effects[d]
        PROVE  Continues(d)
    BY <1>1, <1>2, SameCall DEF SoundInv
  <1>3. ASSUME UNCHANGED <<calls, effects>>
        PROVE  \A d \in Calls : Continues(d)
    BY <1>2, <1>3
  <1>4. CASE Ordinary
    BY <1>4, RuntimeStepSound DEF Ordinary, StepOfCalls
  <1>5. ASSUME NEW c \in Calls, ExecuteRefund(c)
        PROVE  \A d \in Calls : Continues(d)
    <2>1. /\ calls[c].pc = "tool" /\ effects[c] = "none"
          /\ UNCHANGED <<calls, runs>>
          /\ \A d \in Calls \ {c} : effects'[d] = effects[d]
      BY <1>5, RuntimeTypes DEF ExecuteRefund, At, ledgerVars, PlacedInv,
                                EffectsTyped
    <2>2. Continues(c)
      BY <2>1 DEF Continues, SoundInv, Sound, Running, Run
    <2> QED
      BY <1>2, <2>1, <2>2
  <1> QED
    BY <1>3, <1>4, <1>5, RefundStepShape
       DEF Inspect, Settle, DropLookup, Recover

LEMMA RefundInvs == RefundSpec => [](PlacedInv /\ SoundInv)
  <1>1. RefundInit => PlacedInv /\ SoundInv
    <2> SUFFICES ASSUME RefundInit
                 PROVE  PlacedInv /\ SoundInv
      OBVIOUS
    <2>1. RuntimeInit
      BY DEF RefundInit
    <2> QED
      BY <2>1, PlacedInvInit
         DEF RuntimeInit, NoCall, SoundInv, Sound, Running, Run
  <1>2. PlacedInv /\ SoundInv /\ [RefundNext]_refundVars
          => (PlacedInv /\ SoundInv)'
    BY RefundPlacedStep, RefundStepSound DEF SoundInv, Continues
  <1> QED
    BY <1>1, <1>2, PTL DEF RefundSpec

(* The service, its operators who look into the refund store and its sweeps, *)
(* also those of a tenant that never asked for anything, use the ledger only *)
(* in ways its specification allows: what is proved of ActionLedger for      *)
(* every caller holds of the deployment.                                     *)
THEOREM RefundUsesLedger == RefundSpec => Spec
  <1>1. RefundInit => Init
    BY DEF RefundInit, RuntimeInit
  <1>2. PlacedInv /\ [RefundNext]_refundVars => [Next]_vars
    BY RefundLedgerStep
  <1> QED
    BY <1>1, <1>2, RefundInvs, PTL DEF RefundSpec, Spec

-----------------------------------------------------------------------------
(* The refund store and the operators.                                     *)

\* The run of a call that was paid out is stored, and keeps what it asked for.
LEMMA PaidRun ==
  ASSUME PlacedInv, SoundInv, NEW c \in Calls, effects[c] # "none"
  PROVE  Run(c) \in RunIds /\ runs[Run(c)] # NoRow
  BY NoRowColumns DEF SoundInv, Sound, Running, Executed

LEMMA PaidRunKept ==
  ASSUME PlacedInv, SoundInv, [RefundNext]_refundVars,
         NEW c \in Calls, effects[c] = "committed"
  PROVE  /\ effects'[c] = "committed"
         /\ Run(c)' = Run(c)
         /\ runs'[Run(c)].request = runs[Run(c)].request
  <1>1. effects'[c] = "committed" /\ calls'[c].run = calls[c].run
    BY RefundStepSound DEF Continues
  <1>2. Run(c) \in RunIds /\ runs[Run(c)] # NoRow
    BY PaidRun
  <1>3. runs'[Run(c)].request = runs[Run(c)].request
    BY <1>2, RefundLedgerStep, RequestKept DEF PlacedInv
  <1> QED
    BY <1>1, <1>3 DEF Run

LEMMA TheRefunds ==
  /\ \A c \in Calls : effects[c] = "committed" =>
       \E f \in Refunds : /\ f.order = runs[Run(c)].request.order
                          /\ f.amount = runs[Run(c)].request.amount
  /\ \A f \in Refunds :
       /\ f.call \in Calls /\ effects[f.call] = "committed"
       /\ f.order = runs[Run(f.call)].request.order
       /\ f.amount = runs[Run(f.call)].request.amount
  <1> DEFINE refund(c) == [order |-> runs[Run(c)].request.order,
                           amount |-> runs[Run(c)].request.amount, call |-> c]
  <1>1. Refunds = {refund(c) : c \in {d \in Calls : effects[d] = "committed"}}
    BY DEF Refunds
  <1>2. \A c : /\ refund(c).order = runs[Run(c)].request.order
               /\ refund(c).amount = runs[Run(c)].request.amount
               /\ refund(c).call = c
    OBVIOUS
  <1> HIDE DEF refund
  <1> QED
    BY <1>1, <1>2

\* No two calls refunded one order.
OneRefund ==
  \A c, d \in Calls :
    /\ effects[c] = "committed"
    /\ effects[d] = "committed"
    /\ runs[Run(c)].request.order = runs[Run(d)].request.order
    => c = d

LEMMA OneRefundStep ==
  ASSUME PlacedInv, SoundInv, OneRefund, [RefundNext]_refundVars
  PROVE  OneRefund'
  <1>1. ASSUME \A c \in Calls : effects'[c] = "committed" => effects[c] = "committed"
        PROVE  OneRefund'
    <2> SUFFICES ASSUME NEW c \in Calls, NEW d \in Calls,
                        effects'[c] = "committed", effects'[d] = "committed",
                        runs'[Run(c)'].request.order = runs'[Run(d)'].request.order
                 PROVE  c = d
      BY DEF OneRefund, Run
    <2>1. /\ effects[c] = "committed" /\ effects[d] = "committed"
          /\ Run(c)' = Run(c) /\ runs'[Run(c)].request = runs[Run(c)].request
          /\ Run(d)' = Run(d) /\ runs'[Run(d)].request = runs[Run(d)].request
      BY <1>1, PaidRunKept
    <2> QED
      BY <2>1 DEF OneRefund
  <1>2. ASSUME UNCHANGED effects
        PROVE  OneRefund'
    BY <1>1, <1>2
  <1>3. ASSUME NEW c \in Calls, ExecuteRefund(c)
        PROVE  OneRefund'
    <2>1. /\ UNCHANGED <<calls, runs>>
          /\ \A d \in Calls \ {c} : effects'[d] = effects[d]
      BY <1>3, RuntimeTypes DEF ExecuteRefund, ledgerVars, PlacedInv, EffectsTyped
    <2>2. CASE \E f \in Refunds : f.order = runs[Run(c)].request.order
      <3>1. effects' = [effects EXCEPT ![c] = "refused"]
        BY <1>3, <2>2 DEF ExecuteRefund
      <3>2. effects'[c] # "committed"
        BY <3>1, RuntimeTypes DEF PlacedInv, EffectsTyped
      <3> QED
        BY <1>1, <2>1, <3>2
    <2>3. CASE ~ \E f \in Refunds : f.order = runs[Run(c)].request.order
      <3>1. \A d \in Calls : effects[d] = "committed" =>
              runs[Run(d)].request.order # runs[Run(c)].request.order
        BY <2>3, TheRefunds
      <3> QED
        BY <2>1, <3>1 DEF OneRefund, Run
    <2> QED
      BY <2>2, <2>3
  <1> QED
    BY <1>2, <1>3, RefundStepShape
       DEF Ordinary, Inspect, Settle, DropLookup, Recover

LEMMA OneRefundHolds == RefundSpec => []OneRefund
  <1>1. RefundInit => OneRefund
    BY DEF RefundInit, RuntimeInit, OneRefund
  <1>2. PlacedInv /\ SoundInv /\ OneRefund /\ [RefundNext]_refundVars
          => OneRefund'
    BY OneRefundStep
  <1> QED
    BY <1>1, <1>2, RefundInvs, PTL DEF RefundSpec

\* A refund of the run's order and amount was paid out, by whichever call.
Refunded(r) ==
  \E c \in Calls :
    /\ effects[c] = "committed"
    /\ runs[Run(c)].request.order = runs[r].request.order
    /\ runs[Run(c)].request.amount = runs[r].request.amount

LEMMA RefundedInStore ==
  \A r : Refunded(r) <=> \E f \in Refunds : /\ f.order = runs[r].request.order
                                            /\ f.amount = runs[r].request.amount
  BY TheRefunds DEF Refunded

LEMMA RefundedStays ==
  ASSUME PlacedInv, SoundInv, [RefundNext]_refundVars,
         NEW r \in RunIds, runs[r] # NoRow, Refunded(r)
  PROVE  Refunded(r)'
  <1>1. PICK c \in Calls :
          /\ effects[c] = "committed"
          /\ runs[Run(c)].request.order = runs[r].request.order
          /\ runs[Run(c)].request.amount = runs[r].request.amount
    BY DEF Refunded
  <1>2. runs'[r].request = runs[r].request
    BY RefundLedgerStep, RequestKept DEF PlacedInv
  <1>3. /\ effects'[c] = "committed" /\ Run(c)' = Run(c)
        /\ runs'[Run(c)].request = runs[Run(c)].request
    BY <1>1, PaidRunKept
  <1> QED
    BY <1>1, <1>2, <1>3 DEF Refunded

\* An operator holds a run that is stored, and has seen its refund if it says so.
InformedRefund ==
  \A o \in Operators, r \in RunIds :
    lookups[o] # NoLookup /\ lookups[o].run = r =>
      /\ runs[r] # NoRow
      /\ lookups[o].outcome = "committed" => Refunded(r)

LEMMA InformedRefundStep ==
  ASSUME PlacedInv, SoundInv, InformedRefund, [RefundNext]_refundVars
  PROVE  InformedRefund'
  <1>1. lookups \in [Operators ->
          [run : RunIds, outcome : ProviderOutcome] \cup {NoLookup}]
    BY RuntimeTypes DEF PlacedInv, LookupsTyped
  <1>2. ASSUME NEW r \in RunIds, runs[r] # NoRow
        PROVE  runs'[r] # NoRow /\ (Refunded(r) => Refunded(r)')
    BY <1>2, RefundLedgerStep, RequestKept, RefundedStays DEF PlacedInv
  <1>3. ASSUME NEW o \in Operators, lookups'[o] = lookups[o]
        PROVE  \A r \in RunIds : lookups'[o] # NoLookup /\ lookups'[o].run = r =>
                 /\ runs'[r] # NoRow
                 /\ lookups'[o].outcome = "committed" => Refunded(r)'
    BY <1>2, <1>3 DEF InformedRefund
  <1>4. ASSUME UNCHANGED lookups
        PROVE  InformedRefund'
    BY <1>3, <1>4 DEF InformedRefund
  <1>5. ASSUME NEW o \in Operators, NEW r \in RunIds, Inspect(o, r)
        PROVE  InformedRefund'
    <2>1. runs[r] # NoRow /\ UNCHANGED <<calls, effects, runs>>
      BY <1>5, NoRowColumns DEF Inspect, Reconcilable, ledgerVars
    <2> DEFINE outcome == IF Refunded(r) THEN "committed" ELSE "not_committed"
    <2>2. lookups' = [lookups EXCEPT ![o] = [run |-> r, outcome |-> outcome]]
      <3>1. Refunded(r) <=> \E f \in Refunds :
                              /\ f.order = runs[r].request.order
                              /\ f.amount = runs[r].request.amount
        BY RefundedInStore
      <3> QED
        BY <1>5, <3>1 DEF Inspect
    <2>3. /\ lookups'[o].run = r /\ lookups'[o].outcome = outcome
          /\ \A p \in Operators \ {o} : lookups'[p] = lookups[p]
      BY <1>1, <2>2
    <2>4. runs'[r] # NoRow /\ (Refunded(r) => Refunded(r)')
      BY <1>2, <2>1
    <2> QED
      BY <1>3, <2>3, <2>4 DEF InformedRefund
  <1>6. ASSUME NEW o \in Operators, Settle(o) \/ DropLookup(o)
        PROVE  InformedRefund'
    <2>1. /\ lookups'[o] = NoLookup
          /\ \A p \in Operators \ {o} : lookups'[p] = lookups[p]
      BY <1>1, <1>6 DEF Settle, DropLookup
    <2> QED
      BY <1>3, <2>1 DEF InformedRefund
  <1> QED
    BY <1>4, <1>5, <1>6, RefundStepShape DEF Ordinary, ExecuteRefund, Recover

LEMMA InformedRefundHolds == RefundSpec => []InformedRefund
  <1>1. RefundInit => InformedRefund
    BY DEF RefundInit, RuntimeInit, InformedRefund
  <1>2. PlacedInv /\ SoundInv /\ InformedRefund /\ [RefundNext]_refundVars
          => InformedRefund'
    BY InformedRefundStep
  <1> QED
    BY <1>1, <1>2, RefundInvs, PTL DEF RefundSpec

\* A run is completed by the call that refunded it, or by an operator who found
\* a refund of its order and amount.
LEMMA WhoSettles ==
  ASSUME PlacedInv, SoundInv, InformedRefund, [RefundNext]_refundVars
  PROVE  NothingCompletes \/ \E s : Refunded(s) /\ CompletesOnly(s)
  <1>1. TypeOK
    BY DEF PlacedInv
  <1>2. ASSUME UNCHANGED runs
        PROVE  NothingCompletes
    BY <1>2 DEF NothingCompletes
  <1>3. CASE Ordinary
    <2>1. ASSUME NEW o \in Operators, ApplyLookup(o)
          PROVE  FALSE
      BY <1>3, <2>1, RuntimeTypes
         DEF ApplyLookup, Ordinary, PlacedInv, LookupsTyped
    <2>2. ASSUME NEW c \in Calls, effects[c] = "committed"
          PROVE  Refunded(Run(c))
      BY <2>2 DEF Refunded
    <2> QED
      BY <1>3, <2>1, <2>2, WhichCallCompletes DEF Ordinary
  <1>4. ASSUME NEW c \in Calls, ExecuteRefund(c)
        PROVE  NothingCompletes
    BY <1>2, <1>4 DEF ExecuteRefund, ledgerVars
  <1>5. ASSUME NEW o \in Operators,
               (\E r \in RunIds : Inspect(o, r)) \/ DropLookup(o)
        PROVE  NothingCompletes
    BY <1>2, <1>5 DEF Inspect, DropLookup, ledgerVars
  <1>6. ASSUME NEW o \in Operators, Settle(o)
        PROVE  \/ NothingCompletes
               \/ Refunded(lookups[o].run) /\ CompletesOnly(lookups[o].run)
    <2> DEFINE r == lookups[o].run
               status == IF lookups[o].outcome = "committed"
                         THEN "completed" ELSE "failed"
               row == [runs[r] EXCEPT !.status = status]
    <2>1. r \in RunIds /\ lookups[o] # NoLookup
      BY <1>6 DEF Settle, PlacedInv, RuntimeTypeOK
    <2>2. row.status = status
      BY <1>1, <2>1, StatusColumn
    <2>3. \E appended : Commit(r, row, appended)
      BY <1>6 DEF Settle, ReconcileRun
    <2> HIDE DEF row
    <2>4. CompletesOnly(r) /\ (status # "completed" => NothingCompletes)
      BY <1>1, <2>1, <2>2, <2>3, CommitCompletes
    <2> QED
      BY <2>1, <2>4 DEF InformedRefund
  <1>7. ASSUME NEW t \in SampledNow, Recover(t)
        PROVE  NothingCompletes
    BY <1>1, <1>7, SweepCompletes
       DEF Recover, ExpireApprovals, RecoverExpiredExecutions
  <1> QED
    BY <1>3, <1>4, <1>5, <1>6, <1>7, RefundStepShape

(* A completed run has a refund of its order and of its amount in the store, *)
(* whoever completed it: the call that paid it out, or an operator, who      *)
(* looked some time before into a store that does not know of runs.          *)
THEOREM CompletedRunsAreRefunded == RefundSpec => []CompletedIsRefunded
  <1> DEFINE Paid == \A r \in RunIds : runs[r].status = "completed" => Refunded(r)
  <1>1. RefundInit => Paid
    BY NoRowColumns DEF RefundInit, RuntimeInit, Init
  <1>2. ASSUME PlacedInv, SoundInv, InformedRefund, Paid, [RefundNext]_refundVars
        PROVE  Paid'
    <2>1. ASSUME NEW r \in RunIds, runs'[r].status = "completed"
          PROVE  runs[r] # NoRow /\ Refunded(r)
      <3>1. [Next]_vars /\ TypeOK
        BY <1>2, RefundLedgerStep DEF PlacedInv
      <3>2. ColumnStep(r)
        BY <3>1, StepLocal, ColumnsOf
      <3>3. runs[r].status # "absent"
        BY <2>1, <3>2, NoRowColumns
           DEF ColumnStep, Kept, Entered, Permitted, Denied, Asked, Judged,
               Lapsed, Pending, Began, Claimable, Ended, Resolved, Turned, Moved
      <3>4. Refunded(r)
        BY <1>2, <2>1, WhoSettles DEF NothingCompletes, CompletesOnly
      <3> QED
        BY <3>3, <3>4, NoRowColumns
    <2> QED
      BY <1>2, <2>1, RefundedStays
  <1>3. Paid => CompletedIsRefunded
    BY RefundedInStore DEF CompletedIsRefunded
  <1> QED
    BY <1>1, <1>2, <1>3, RefundInvs, InformedRefundHolds, PTL DEF RefundSpec

-----------------------------------------------------------------------------
(* Who decides what a run may do.                                          *)

\* A step that decides nothing about run r, and one that decides nothing.
DecidesNothing(r) ==
  /\ runs'[r].policy = runs[r].policy
  /\ approvals[r] = NoApproval => approvals'[r] = NoApproval

NothingDecided == \A r \in RunIds : DecidesNothing(r)

\* Every row has a policy column, and few statements write it.
LEMMA PolicyColumn ==
  ASSUME TypeOK, NEW r \in RunIds
  PROVE  /\ \A status :
              [runs[r] EXCEPT !.status = status].policy = runs[r].policy
         /\ \A status, owner, lease :
              [runs[r] EXCEPT !.status = status, !.owner = owner,
                              !.lease = lease].policy = runs[r].policy
         /\ \A status, owner, lease :
              [runs[r] EXCEPT !.status = status, !.owner = owner,
                              !.lease = lease, !.attempt = @ + 1].policy
                = runs[r].policy
         /\ \A n : [runs[r] EXCEPT !.lease = n].policy = runs[r].policy
         /\ \A n : [runs[r] EXCEPT !.duplicates = n].policy = runs[r].policy
         /\ \A request, status :
              [NoRow EXCEPT !.request = request, !.status = status].policy
                = NoRow.policy
  BY DEF TypeOK, Row, NoRow

LEMMA CommitDecides ==
  ASSUME TypeOK, NEW s \in RunIds, NEW row, NEW appended,
         Commit(s, row, appended), row.policy = runs[s].policy,
         UNCHANGED approvals
  PROVE  NothingDecided
  BY DEF TypeOK, Commit, DecidesNothing, NothingDecided

\* An expiry decides nothing: it finds an approval, or leaves them all alone.
LEMMA SweepDecides ==
  ASSUME TypeOK, NEW S \in SUBSET RunIds
  PROVE  /\ ExpireApproval(S) /\ (\A r \in S : Pending(r)) => NothingDecided
         /\ MarkExpiredExecution(S) => NothingDecided
  <1>1. \A r \in RunIds : Pending(r) => approvals[r] # NoApproval
    BY NoApprovalStatus DEF Pending
  <1>2. \A r \in RunIds :
          [runs[r] EXCEPT !.status = "approval_expired"].policy = runs[r].policy
    BY PolicyColumn
  <1>3. ASSUME ExpireApproval(S), \A r \in S : Pending(r)
        PROVE  NothingDecided
    BY <1>1, <1>2, <1>3 DEF ExpireApproval, DecidesNothing, NothingDecided
  <1>4. ASSUME MarkExpiredExecution(S)
        PROVE  NothingDecided
    <2>1. ASSUME NEW r \in RunIds
          PROVE  runs'[r].policy = runs[r].policy
      <3>1. CASE r \in S
        <4>1. runs'[r] = [runs[r] EXCEPT !.status = "unknown", !.owner = None,
                                         !.lease = None]
          BY <1>4, <3>1, Zenon DEF MarkExpiredExecution
        <4> QED
          BY <4>1 DEF TypeOK, Row, NoRow
      <3>2. CASE r \notin S
        BY <1>4, <3>2, Zenon DEF MarkExpiredExecution
      <3> QED
        BY <3>1, <3>2
    <2>2. approvals' = approvals
      BY <1>4, Zenon DEF MarkExpiredExecution
    <2> QED
      BY <2>1, <2>2 DEF DecidesNothing, NothingDecided
  <1> QED
    BY <1>3, <1>4

\* The transactions of the ledger that decide nothing: all but one.
LEMMA TransactionsDecide ==
  ASSUME TypeOK, NEW r \in RunIds
  PROVE  /\ \A request : CreateRun(r, request) => NothingDecided
         /\ RecordDuplicate(r) => NothingDecided
         /\ \A approved \in BOOLEAN : \A p, t :
              DecideApproval(r, approved, p, t) => NothingDecided
         /\ \A owner, t : ClaimExecution(r, owner, t) => NothingDecided
         /\ \A owner, t : HeartbeatExecution(r, owner, t) => NothingDecided
         /\ \A owner : CompleteExecution(r, owner) => NothingDecided
         /\ \A owner : FailExecution(r, owner) => NothingDecided
         /\ \A owner : MarkExecutionUnknown(r, owner) => NothingDecided
         /\ \A status, p : ReconcileRun(r, status, p) => NothingDecided
  <1>1. ASSUME NEW request, CreateRun(r, request)
        PROVE  NothingDecided
    <2> DEFINE row == [NoRow EXCEPT !.request = request, !.status = "created"]
    <2>1. runs[r] = NoRow /\ UNCHANGED approvals
      BY <1>1 DEF CreateRun
    <2>2. Commit(r, row, <<Plain("run.created")>>)
      BY <1>1 DEF CreateRun
    <2>3. row.policy = NoRow.policy
      BY PolicyColumn
    <2> HIDE DEF row
    <2> QED
      BY <2>1, <2>2, <2>3, CommitDecides
  <1>2. ASSUME RecordDuplicate(r)
        PROVE  NothingDecided
    BY <1>2 DEF RecordDuplicate, TypeOK, DecidesNothing, NothingDecided
  <1>3. ASSUME NEW owner, NEW t, HeartbeatExecution(r, owner, t)
        PROVE  NothingDecided
    BY <1>3 DEF HeartbeatExecution, TypeOK, DecidesNothing, NothingDecided
  <1>4. ASSUME NEW approved \in BOOLEAN, NEW p, NEW t,
               DecideApproval(r, approved, p, t)
        PROVE  NothingDecided
    <2>1. Pending(r) /\ approvals[r] # NoApproval
      BY <1>4, NoApprovalStatus DEF DecideApproval, Pending
    <2>2. CASE ExpireApproval({r})
      BY <2>1, <2>2, SweepDecides
    <2>3. CASE ~ExpireApproval({r})
      <3>1. PICK status :
              /\ \E appended :
                   Commit(r, [runs[r] EXCEPT !.status = status], appended)
              /\ approvals' = [approvals EXCEPT ![r].status = status,
                                                ![r].approver = p.actor]
        BY <1>4, <2>3 DEF DecideApproval
      <3>2. \A s \in RunIds \ {r} : approvals'[s] = approvals[s]
        BY <3>1 DEF TypeOK
      <3> DEFINE row == [runs[r] EXCEPT !.status = status]
      <3>3. row.policy = runs[r].policy /\ \E appended : Commit(r, row, appended)
        BY <3>1, PolicyColumn
      <3> HIDE DEF row
      <3>4. \A s \in RunIds : runs'[s].policy = runs[s].policy
        BY <3>3 DEF Commit, TypeOK
      <3> QED
        BY <2>1, <3>2, <3>4 DEF DecidesNothing, NothingDecided
    <2> QED
      BY <2>2, <2>3
  <1>5. ASSUME NEW owner, NEW t, ClaimExecution(r, owner, t)
        PROVE  NothingDecided
    <2>1. CASE MarkExpiredExecution({r})
      BY <2>1, SweepDecides
    <2>2. CASE ~MarkExpiredExecution({r})
      <3> DEFINE row == [runs[r] EXCEPT !.status = "executing", !.owner = owner,
                                        !.lease = t + LeaseSeconds,
                                        !.attempt = @ + 1]
      <3>1. UNCHANGED approvals
        BY <1>5, <2>2 DEF ClaimExecution
      <3>2. PICK added :
              Commit(r, [runs[r] EXCEPT !.status = "executing",
                                        !.owner = owner,
                                        !.lease = t + LeaseSeconds,
                                        !.attempt = @ + 1], added)
        BY <1>5, <2>2 DEF ClaimExecution
      <3>3. row.policy = runs[r].policy /\ Commit(r, row, added)
        BY <3>2, PolicyColumn
      <3> HIDE DEF row
      <3> QED
        BY <3>1, <3>3, CommitDecides
    <2> QED
      BY <2>1, <2>2
  <1>6. ASSUME NEW owner, NEW status, NEW appended,
               FinishExecution(r, owner, status, appended)
        PROVE  NothingDecided
    <2> DEFINE row == [runs[r] EXCEPT !.status = status, !.owner = None,
                                      !.lease = None]
    <2>1. UNCHANGED approvals /\ Commit(r, row, appended)
      BY <1>6 DEF FinishExecution
    <2>2. row.policy = runs[r].policy
      BY PolicyColumn
    <2> HIDE DEF row
    <2> QED
      BY <2>1, <2>2, CommitDecides
  <1>7. ASSUME NEW status, NEW p, ReconcileRun(r, status, p)
        PROVE  NothingDecided
    <2> DEFINE row == [runs[r] EXCEPT !.status = status]
    <2>1. UNCHANGED approvals /\ Commit(r, row, <<Reconciled(status, p)>>)
      BY <1>7 DEF ReconcileRun
    <2>2. row.policy = runs[r].policy
      BY PolicyColumn
    <2> HIDE DEF row
    <2> QED
      BY <2>1, <2>2, CommitDecides
  <1>8. /\ \A owner : CompleteExecution(r, owner) => NothingDecided
        /\ \A owner : FailExecution(r, owner) => NothingDecided
        /\ \A owner : MarkExecutionUnknown(r, owner) => NothingDecided
    BY <1>6 DEF CompleteExecution, FailExecution, MarkExecutionUnknown
  <1> QED
    BY <1>1, <1>2, <1>3, <1>4, <1>5, <1>7, <1>8

\* Only the policy decides.
LEMMA WhoDecides ==
  ASSUME PlacedInv, [RefundNext]_refundVars
  PROVE  \/ NothingDecided
         \/ \E c \in Calls, t \in SampledNow : EvaluateRefund(c, t)
  <1> USE OwnersAreCalls
  <1>1. TypeOK
    BY DEF PlacedInv
  <1>2. ASSUME UNCHANGED ledgerVars
        PROVE  NothingDecided
    BY <1>2 DEF ledgerVars, DecidesNothing, NothingDecided
  <1>3. ASSUME NEW scope, NEW t, \/ ExpireApprovals(scope, t)
                                 \/ RecoverExpiredExecutions(scope, t)
        PROVE  NothingDecided
    BY <1>1, <1>3, SweepDecides DEF ExpireApprovals, RecoverExpiredExecutions
  <1>4. ASSUME NEW c \in Calls,
               \/ DuplicateCounts(c) \/ ReadResult(c) \/ Report(c)
               \/ \E t \in SampledNow : \/ DuplicateSweepsApprovals(c, t)
                                        \/ DuplicateSweepsLeases(c, t)
                                        \/ Claim(c, t)
        PROVE  NothingDecided
    <2>1. Run(c) \in RunIds
      BY <1>4 DEF DuplicateCounts, ReadResult, Report, DuplicateSweepsApprovals,
                  DuplicateSweepsLeases, Claim, At, Active, PlacedInv, Placed
    <2>2. CASE DuplicateCounts(c) \/ ReadResult(c)
      BY <1>1, <1>2, <2>1, <2>2, TransactionsDecide
         DEF DuplicateCounts, ReadResult
    <2>3. CASE Report(c)
      BY <1>1, <1>2, <2>1, <2>3, TransactionsDecide DEF Report
    <2>4. ASSUME NEW t \in SampledNow, Claim(c, t)
          PROVE  NothingDecided
      BY <1>1, <1>2, <2>1, <2>4, TransactionsDecide DEF Claim
    <2>5. ASSUME NEW t \in SampledNow, \/ DuplicateSweepsApprovals(c, t)
                                       \/ DuplicateSweepsLeases(c, t)
          PROVE  NothingDecided
      BY <1>3, <2>5 DEF DuplicateSweepsApprovals, DuplicateSweepsLeases
    <2> QED
      BY <1>4, <2>2, <2>3, <2>4, <2>5
  <1>5. ASSUME NEW c \in Calls, NEW p, NEW body, Submit(c, p, body)
        PROVE  NothingDecided
    <2>1. CreateRun(c, Governed(p, body)) \/ UNCHANGED ledgerVars
      BY <1>5, Zenon DEF Submit, Invoke
    <2> QED
      BY <1>1, <1>2, <2>1, TransactionsDecide
  <1>6. ASSUME NEW c \in Calls,
               \/ \E p \in Principals, r \in RunIds : ResumeRun(c, p, r)
               \/ ExecuteRefund(c) \/ RefundReturns(c)
               \/ HeartbeatDies(c) \/ Crash(c)
        PROVE  NothingDecided
    <2>1. UNCHANGED ledgerVars
      BY <1>6, Zenon DEF ResumeRun, Resume, ExecuteRefund, RefundReturns,
                         ToolReturns, HeartbeatDies, Crash
    <2> QED
      BY <1>2, <2>1
  <1>7. ASSUME NEW c \in Calls, NEW t \in SampledNow, Heartbeat(c, t)
        PROVE  NothingDecided
    <2>1. Run(c) \in RunIds
      BY <1>7 DEF Heartbeat, PlacedInv, Placed
    <2> QED
      BY <1>1, <1>2, <1>7, <2>1, TransactionsDecide DEF Heartbeat
  <1>8. ASSUME NEW o \in Operators,
               (\E r \in RunIds : Inspect(o, r)) \/ DropLookup(o)
        PROVE  NothingDecided
    BY <1>2, <1>8 DEF Inspect, DropLookup
  <1>9. ASSUME NEW o \in Operators, Settle(o)
        PROVE  NothingDecided
    <2>1. lookups[o].run \in RunIds
      BY <1>9 DEF Settle, PlacedInv, RuntimeTypeOK
    <2> QED
      BY <1>1, <1>9, <2>1, TransactionsDecide DEF Settle
  <1>10. ASSUME NEW t \in SampledNow,
                \/ Recover(t)
                \/ \E r \in RunIds, approved \in BOOLEAN, p \in Principals :
                     Decide(r, approved, p, t)
         PROVE  NothingDecided
    BY <1>1, <1>3, <1>10, TransactionsDecide DEF Recover, Decide
  <1>11. ASSUME NEW config, Deploy(config)
         PROVE  NothingDecided
    BY <1>2, <1>11 DEF Deploy, runtimeVars, ledgerVars
  <1>12. ASSUME Time \/ UNCHANGED refundVars
         PROVE  NothingDecided
    BY <1>12 DEF Time, Tick, refundVars, runtimeVars, DecidesNothing,
                 NothingDecided
  <1> QED
    BY <1>4, <1>5, <1>6, <1>7, <1>8, <1>9, <1>10, <1>11, <1>12
       DEF RefundNext, Background

\* Where an approval is, one stays.
LEMMA ApprovalStays ==
  ASSUME TypeOK, NEW r \in RunIds, ColumnStep(r), approvals[r] # NoApproval
  PROVE  approvals'[r] # NoApproval
  <1>1. approvals[r] \in Approval
    BY DEF TypeOK
  <1>2. CASE Same(r)
    BY <1>2 DEF Same
  <1>3. CASE Asked(r)
    BY <1>3, NoApprovalStatus DEF Asked, NewApproval
  <1>4. ASSUME NEW status \in {"approved", "rejected"}, NEW type,
               Judged(r, status, type)
        PROVE  approvals'[r] # NoApproval
    <2>1. approvals'[r].status = status
      BY <1>1, <1>4 DEF Judged, Approval
    <2> QED
      BY <2>1, NoApprovalStatus
  <1>5. CASE Lapsed(r)
    <2>1. approvals'[r].status = "approval_expired"
      BY <1>1, <1>5 DEF Lapsed, Approval
    <2> QED
      BY <2>1, NoApprovalStatus
  <1> QED
    BY <1>2, <1>3, <1>4, <1>5
       DEF ColumnStep, Kept, Entered, Permitted, Denied, Began, Ended, Resolved

\* What was decided for a run follows the rule for its request: whoever got past
\* the policy may claim the refund, and whoever may go on without an approval need
\* not have one.  Of NaN only the first is true.
Rule(r, outcome) ==
  LET q == runs[r].request
  IN  /\ Claimant(q)
      /\ q.amount # NaN => RightOutcome(q) = outcome

Ruled(r) ==
  /\ /\ approvals[r] = NoApproval
     /\ runs[r].policy # None
     /\ runs[r].status # "denied"
     => Rule(r, "allow")
  /\ approvals[r] # NoApproval => Rule(r, "approval_required")

RuledInv == \A r \in RunIds : Ruled(r)

LEMMA RuledStays ==
  ASSUME TypeOK, ApprovalInv, [Next]_vars, NEW r \in RunIds, Ruled(r),
         DecidesNothing(r)
  PROVE  Ruled(r)'
  <1>1. CASE runs[r] = NoRow
    <2>1. approvals[r] = NoApproval /\ runs[r].policy = None
      BY <1>1, NoRowColumns, NoApprovalYet DEF ApprovalInv, NoRow
    <2>2. approvals'[r] = NoApproval /\ runs'[r].policy = None
      BY <2>1 DEF DecidesNothing
    <2> QED
      BY <2>2 DEF Ruled
  <1>2. CASE runs[r] # NoRow
    <2>1. runs'[r].request = runs[r].request
      BY <1>2, RequestKept
    <2>2. runs[r].status = "denied" => runs'[r].status = "denied"
      BY StatusStays DEF Terminal
    <2>3. approvals[r] # NoApproval => approvals'[r] # NoApproval
      BY StepLocal, ColumnsOf, ApprovalStays
    <2>4. \A outcome : Rule(r, outcome)' <=> Rule(r, outcome)
      <3> HIDE DEF RightOutcome, Claimant
      <3> QED
        BY <2>1 DEF Rule
    <2> HIDE DEF Rule
    <2> QED
      BY <2>1, <2>2, <2>3, <2>4 DEF Ruled, DecidesNothing
  <1> QED
    BY <1>1, <1>2

\* The governed requests have amounts as the policy sees them.
LEMMA RequestAmounts ==
  ASSUME NEW q \in Requests
  PROVE  q.amount \in Amounts
  BY ServiceAssumption DEF Governed, Amounts

\* A decision that follows the rule, stored.
LEMMA RuledByDecision ==
  ASSUME TypeOK, ApprovalInv, NEW r \in RunIds, runs[r] # NoRow, NEW outcome,
         NEW policy, NEW t, RecordPolicyDecision(r, outcome, policy, t),
         outcome # "deny" => Rule(r, outcome)
  PROVE  /\ Ruled(r)'
         /\ \A s \in RunIds \ {r} : DecidesNothing(s)
  <1> DEFINE row(status) ==
               [runs[r] EXCEPT !.status = status, !.policy = policy]
  <1>1. runs[r].status = "created" /\ approvals[r] = NoApproval
    BY NoApprovalYet DEF RecordPolicyDecision, ApprovalInv
  <1>2. \A status : /\ row(status).status = status
                    /\ row(status).request = runs[r].request
    BY DEF TypeOK, Row
  <1>3. ASSUME NEW status, NEW appended, Commit(r, row(status), appended)
        PROVE  /\ runs'[r].status = status
               /\ \A decided : Rule(r, decided)' <=> Rule(r, decided)
               /\ \A s \in RunIds \ {r} : runs'[s] = runs[s]
    <2>1. runs' = [runs EXCEPT ![r] = row(status)]
      BY <1>3 DEF Commit
    <2> HIDE DEF row
    <2>2. /\ runs'[r].status = status
          /\ runs'[r].request = runs[r].request
          /\ \A s \in RunIds \ {r} : runs'[s] = runs[s]
      BY <1>2, <2>1 DEF TypeOK
    <2>3. \A decided : Rule(r, decided)' <=> Rule(r, decided)
      <3> HIDE DEF RightOutcome, Claimant
      <3> QED
        BY <2>2 DEF Rule
    <2> QED
      BY <2>2, <2>3
  <1>4. CASE outcome = "allow"
    <2>1. /\ Commit(r, row("created"), <<Checked("allow", policy)>>)
          /\ UNCHANGED approvals
      BY <1>4 DEF RecordPolicyDecision, Checked
    <2> HIDE DEF row, Rule
    <2> QED
      BY <1>1, <1>3, <1>4, <2>1 DEF Ruled, DecidesNothing
  <1>5. CASE outcome = "deny"
    <2>1. /\ Commit(r, row("denied"),
                    <<Checked("deny", policy), Plain("run.denied")>>)
          /\ UNCHANGED approvals
      BY <1>5 DEF RecordPolicyDecision, Checked
    <2> HIDE DEF row, Rule
    <2> QED
      BY <1>1, <1>3, <2>1 DEF Ruled, DecidesNothing
  <1>6. CASE outcome = "approval_required"
    <2>1. /\ Commit(r, row("pending_approval"),
                    <<Checked("approval_required", policy),
                      Plain("approval.requested")>>)
          /\ approvals' = [approvals EXCEPT ![r] = NewApproval(r, policy, t)]
      BY <1>6 DEF RecordPolicyDecision, Checked
    <2>2. /\ approvals'[r] # NoApproval
          /\ \A s \in RunIds \ {r} : approvals'[s] = approvals[s]
      BY <2>1, NoApprovalStatus DEF TypeOK, NewApproval
    <2> HIDE DEF row, Rule
    <2> QED
      BY <1>3, <1>6, <2>1, <2>2 DEF Ruled, DecidesNothing
  <1> QED
    BY <1>4, <1>5, <1>6 DEF RecordPolicyDecision

-----------------------------------------------------------------------------
(* What the policy is asked.                                               *)

\* A call that stands before the policy asks about the request of its run, and
\* the service has a configuration.
Asking(c) ==
  At(c, "policy") =>
    deployed # None /\ calls[c].request = runs[Run(c)].request

\* A step after which the call stands before the policy only if it did.
AsksNothing(c) ==
  calls'[c].pc = "policy" =>
    /\ calls[c].pc = "policy"
    /\ calls'[c].run = calls[c].run
    /\ calls'[c].request = calls[c].request

AskingInv == \A c \in Calls : Asking(c)

\* A service that may run with the default configuration only.
Configured == deployed \in {None, DefaultConfiguration}

\* A service runs with a policy file or with the default.
Deployable == deployed \in {None, DefaultConfiguration} \cup Configs

LEMMA AskingStays ==
  ASSUME PlacedInv, [Next]_vars, NEW c \in Calls, Asking(c), AsksNothing(c),
         deployed # None => deployed' = deployed
  PROVE  Asking(c)'
  <1>1. ASSUME calls[c].pc = "policy"
        PROVE  runs'[Run(c)].request = runs[Run(c)].request
    BY <1>1, RequestKept DEF PlacedInv, Placed, Active
  <1> QED
    BY <1>1 DEF Asking, AsksNothing, At, Run

NothingAsked == \A c \in Calls : AsksNothing(c)

\* A call that changes and does not come to stand before the policy.
LEMMA CallAsksNothing ==
  ASSUME NEW c \in Calls, \A d \in Calls \ {c} : calls'[d] = calls[d],
         \/ calls'[c].pc # "policy"
         \/ /\ calls'[c].pc = calls[c].pc
            /\ calls'[c].run = calls[c].run
            /\ calls'[c].request = calls[c].request
  PROVE  NothingAsked
  BY DEF NothingAsked, AsksNothing

LEMMA CallGoesOn ==
  ASSUME PlacedInv, NEW c \in Calls
  PROVE  /\ \A pc : pc # "policy" /\ Goto(c, pc) => NothingAsked
         /\ \A answer : Answer(c, answer) => NothingAsked
  <1>1. ASSUME NEW pc, pc # "policy", Goto(c, pc)
        PROVE  NothingAsked
    BY <1>1, GotoColumns, CallAsksNothing
  <1>2. ASSUME NEW answer, Answer(c, answer)
        PROVE  NothingAsked
    BY <1>2, GotoColumns, CallAsksNothing
  <1> QED
    BY <1>1, <1>2

\* Only a new request comes to stand before the policy.
LEMMA WhoAsks ==
  ASSUME PlacedInv, [RefundNext]_refundVars
  PROVE  \/ NothingAsked
         \/ \E c \in Calls, p \in Principals, body \in Bodies : Submit(c, p, body)
  <1>1. ASSUME UNCHANGED calls
        PROVE  NothingAsked
    BY <1>1 DEF NothingAsked, AsksNothing
  <1>2. calls \in [Calls -> Call]
    BY RuntimeTypes DEF PlacedInv
  <1>3. ASSUME NEW c \in Calls,
               \/ DuplicateCounts(c) \/ ReadResult(c) \/ Report(c)
               \/ \E t \in SampledNow : \/ DuplicateSweepsApprovals(c, t)
                                        \/ DuplicateSweepsLeases(c, t)
                                        \/ EvaluateRefund(c, t)
        PROVE  NothingAsked
    <2>1. \/ \E pc : pc # "policy" /\ Goto(c, pc)
          \/ \E answer : Answer(c, answer)
      BY <1>3
         DEF DuplicateCounts, ReadResult, Report, DuplicateSweepsApprovals,
             DuplicateSweepsLeases, EvaluateRefund, EvaluatePolicy
    <2> QED
      BY <2>1, CallGoesOn
  <1>4. ASSUME NEW c \in Calls, NEW t, Claim(c, t)
        PROVE  NothingAsked
    <2>1. \/ calls' = [calls EXCEPT ![c].pc = "tool", ![c].beat = TRUE]
          \/ Goto(c, "read")
      BY <1>4, Zenon DEF Claim
    <2>2. CASE calls' = [calls EXCEPT ![c].pc = "tool", ![c].beat = TRUE]
      BY <1>2, <2>2, CallAsksNothing DEF Call
    <2> QED
      BY <2>1, <2>2, CallGoesOn
  <1>5. ASSUME NEW c \in Calls,
               HeartbeatDies(c) \/ \E t \in SampledNow : Heartbeat(c, t)
        PROVE  NothingAsked
    <2>1. \/ calls' = [calls EXCEPT ![c].beat = FALSE]
          \/ UNCHANGED calls
      BY <1>5, Zenon DEF HeartbeatDies, Heartbeat
    <2>2. CASE calls' = [calls EXCEPT ![c].beat = FALSE]
      BY <1>2, <2>2, CallAsksNothing DEF Call
    <2> QED
      BY <1>1, <2>1, <2>2
  <1>6. ASSUME NEW c \in Calls, Crash(c)
        PROVE  NothingAsked
    <2>1. calls' = [calls EXCEPT ![c].pc = "crashed", ![c].beat = FALSE]
      BY <1>6, Zenon DEF Crash
    <2> QED
      BY <1>2, <2>1, CallAsksNothing DEF Call
  <1>7. ASSUME NEW c \in Calls, RefundReturns(c)
        PROVE  NothingAsked
    <2>1. PICK outcome, beat :
            calls' = [calls EXCEPT ![c].pc = "report", ![c].answer = outcome,
                                   ![c].beat = beat]
      BY <1>7, Zenon DEF RefundReturns, ToolReturns
    <2> QED
      BY <1>2, <2>1, CallAsksNothing DEF Call
  <1>8. ASSUME NEW c \in Calls, NEW p, NEW r, ResumeRun(c, p, r)
        PROVE  NothingAsked
    <2>1. \/ calls' = [calls EXCEPT ![c].pc = "claim", ![c].run = r]
          \/ calls' = [calls EXCEPT ![c].pc = "done", ![c].run = r,
                                    ![c].answer = "completed"]
      BY <1>8, Zenon DEF ResumeRun, Resume
    <2>2. CASE calls' = [calls EXCEPT ![c].pc = "claim", ![c].run = r]
      BY <1>2, <2>2, CallAsksNothing DEF Call
    <2>3. CASE calls' = [calls EXCEPT ![c].pc = "done", ![c].run = r,
                                      ![c].answer = "completed"]
      BY <1>2, <2>3, CallAsksNothing DEF Call
    <2> QED
      BY <2>1, <2>2, <2>3
  <1>9. ASSUME NEW c \in Calls, ExecuteRefund(c)
        PROVE  NothingAsked
    BY <1>1, <1>9, Zenon DEF ExecuteRefund
  <1>10. ASSUME NEW o \in Operators,
                (\E r \in RunIds : Inspect(o, r)) \/ Settle(o) \/ DropLookup(o)
         PROVE  NothingAsked
    BY <1>1, <1>10 DEF Inspect, Settle, DropLookup
  <1>11. ASSUME NEW t \in SampledNow,
                \/ Recover(t)
                \/ \E r \in RunIds, approved \in BOOLEAN, p \in Principals :
                     Decide(r, approved, p, t)
         PROVE  NothingAsked
    BY <1>1, <1>11 DEF Recover, Decide
  <1>12. ASSUME \/ \E config : Deploy(config)
                \/ Time
                \/ UNCHANGED refundVars
         PROVE  NothingAsked
    BY <1>1, <1>12 DEF Deploy, Time, refundVars, runtimeVars
  <1> QED
    BY <1>3, <1>4, <1>5, <1>6, <1>7, <1>8, <1>9, <1>10, <1>11, <1>12
       DEF RefundNext, Background

LEMMA DeployedStays ==
  ASSUME Deployable, [RefundNext]_refundVars
  PROVE  /\ Deployable'
         /\ deployed # None => deployed' = deployed
  <1>1. ASSUME NEW config \in Configs \cup {DefaultConfiguration}, Deploy(config)
        PROVE  deployed = None /\ Deployable'
    BY <1>1 DEF Deploy, Deployable
  <1>2. \/ deployed' = deployed
        \/ \E config \in Configs \cup {DefaultConfiguration} : Deploy(config)
    BY DEF RefundNext, Submit, ResumeRun, refundVars, serviceVars
  <1> QED
    BY <1>1, <1>2 DEF Deployable

LEMMA AskingStep ==
  ASSUME PlacedInv, AskingInv, Deployable, [RefundNext]_refundVars
  PROVE  AskingInv'
  <1>1. [Next]_vars /\ (deployed # None => deployed' = deployed)
    BY RefundLedgerStep, DeployedStays
  <1>2. ASSUME NEW c \in Calls, AsksNothing(c)
        PROVE  Asking(c)'
    BY <1>1, <1>2, AskingStays DEF AskingInv
  <1>3. CASE NothingAsked
    BY <1>2, <1>3 DEF NothingAsked, AskingInv
  <1>4. ASSUME NEW c \in Calls, NEW p \in Principals, NEW body \in Bodies,
               Submit(c, p, body), ~NothingAsked
        PROVE  AskingInv'
    <2> DEFINE request == Governed(p, body)
    <2>1. deployed # None /\ Invoke(c, request)
      BY <1>4 DEF Submit
    <2> HIDE DEF request
    <2>2. /\ CreateRun(c, request)
          /\ calls' = [calls EXCEPT ![c].pc = "policy", ![c].run = c,
                                    ![c].request = request]
      <3>1. ASSUME NEW r, calls' = [calls EXCEPT ![c].pc = "sweep_approvals",
                                                 ![c].run = r,
                                                 ![c].request = request]
            PROVE  FALSE
        <4>1. calls \in [Calls -> Call]
          BY RuntimeTypes DEF PlacedInv
        <4> QED
          BY <1>4, <3>1, <4>1, CallAsksNothing DEF Call
      <3>2. ASSUME NEW answer, Answer(c, answer)
            PROVE  FALSE
        BY <1>4, <3>2, CallGoesOn
      <3> QED
        BY <2>1, <3>1, <3>2, Zenon DEF Invoke
    <2>3. /\ calls'[c].run = c /\ calls'[c].request = request
          /\ \A d \in Calls \ {c} : calls'[d] = calls[d]
      BY <2>2, RuntimeTypes DEF PlacedInv, Call
    <2>4. runs'[c].request = request
      BY <2>2, OwnersAreCalls DEF CreateRun, Commit, PlacedInv, TypeOK, NoRow
    <2>5. Asking(c)'
      BY <1>1, <2>1, <2>3, <2>4 DEF Asking, Run
    <2>6. \A d \in Calls \ {c} : AsksNothing(d)
      BY <2>3 DEF AsksNothing
    <2> QED
      BY <1>2, <2>5, <2>6 DEF AskingInv
  <1> QED
    BY <1>3, <1>4, WhoAsks

\* What a service knows of its requests once it runs, and what follows from the
\* default configuration.
Ruling == AskingInv /\ Deployable /\ (Configured => RuledInv)

LEMMA RulingInit ==
  ASSUME RefundInit
  PROVE  Ruling
  <1>1. AskingInv /\ Deployable
    BY DEF RefundInit, RuntimeInit, NoCall, AskingInv, Asking, At, Deployable
  <1>2. NoRow.policy = None
    BY DEF NoRow
  <1>3. ASSUME NEW r \in RunIds
        PROVE  Ruled(r)
    <2>1. runs[r] = NoRow /\ approvals[r] = NoApproval
      BY DEF RefundInit, RuntimeInit, Init
    <2> QED
      BY <1>2, <2>1 DEF Ruled
  <1> QED
    BY <1>1, <1>3 DEF Ruling, RuledInv

LEMMA RulingHolds == RefundSpec => []Ruling
  <1>1. RefundInit => Ruling
    BY RulingInit
  <1>2. ASSUME PlacedInv, ApprovalInv, Ruling, [RefundNext]_refundVars
        PROVE  Ruling'
    <2>1. TypeOK /\ [Next]_vars
      BY <1>2, RefundLedgerStep DEF PlacedInv
    <2>2. AskingInv' /\ Deployable' /\ (Configured' => Configured)
      BY <1>2, AskingStep, DeployedStays DEF Ruling, Configured
    <2>8. SUFFICES ASSUME Configured, Configured'
                   PROVE  RuledInv'
      BY <2>2 DEF Ruling
    <2>3. ASSUME NEW r \in RunIds, DecidesNothing(r)
          PROVE  Ruled(r)'
      BY <1>2, <2>1, <2>3, <2>8, RuledStays DEF Ruling, RuledInv
    <2>4. ASSUME NothingDecided
          PROVE  RuledInv'
      BY <2>3, <2>4 DEF NothingDecided, RuledInv
    <2>5. ASSUME NEW c \in Calls, NEW t \in SampledNow, EvaluateRefund(c, t)
          PROVE  RuledInv'
      <3> DEFINE answer == Evaluate(deployed, calls[c].request)
      <3>1. PICK r \in RunIds : r = Run(c) /\ runs[r] # NoRow
        BY <1>2, <2>5 DEF EvaluateRefund, At, Active, PlacedInv, Placed
      <3>2. /\ calls[c].request = runs[r].request
            /\ deployed = DefaultConfiguration
        BY <1>2, <2>5, <2>8, <3>1 DEF Configured, Ruling, AskingInv, Asking, EvaluateRefund, At
      <3>3. runs[r].request \in Requests
        BY <2>1, <3>1 DEF TypeOK, Row
      <3>4. answer.outcome # "deny" => Rule(r, answer.outcome)
        <4> DEFINE q == runs[r].request
        <4>1. q.amount \in Amounts /\ answer = Evaluate(DefaultConfiguration, q)
          BY <3>2, <3>3, RequestAmounts
        <4>2. answer.outcome # "deny" => Claimant(q)
          BY <4>1, DefaultKnowsClaimants
        <4>3. q.amount # NaN => answer.outcome = RightOutcome(q)
          BY <4>1, DefaultIsRight
        <4> HIDE DEF answer, q
        <4>4. answer.outcome # "deny" =>
                Claimant(q) /\ (q.amount # NaN => RightOutcome(q) = answer.outcome)
          BY <4>2, <4>3
        <4> QED
          BY <4>4 DEF Rule, q
      <3>5. EvaluatePolicy(c, answer.outcome, answer.policy, t)
        BY <2>5 DEF EvaluateRefund
      <3> HIDE DEF answer
      <3>6. RecordPolicyDecision(r, answer.outcome, answer.policy, t)
        BY <3>1, <3>5 DEF EvaluatePolicy
      <3>7. Ruled(r)' /\ \A s \in RunIds \ {r} : DecidesNothing(s)
        <4> DEFINE outcome == answer.outcome
                   policy == answer.policy
        <4>1. /\ RecordPolicyDecision(r, outcome, policy, t)
              /\ outcome # "deny" => Rule(r, outcome)
          BY <3>4, <3>6
        <4> HIDE DEF outcome, policy
        <4> QED
          BY <1>2, <2>1, <3>1, <4>1, RuledByDecision
      <3> QED
        BY <2>3, <3>7 DEF RuledInv
    <2> QED
      BY <1>2, <2>4, <2>5, WhoDecides
  <1>3. RefundSpec => []ApprovalInv
    BY RefundUsesLedger, ApprovalInvHolds, PTL
  <1> QED
    BY <1>1, <1>2, <1>3, RefundInvs, PTL DEF RefundSpec

(* A refund that was paid out is the only one of its order, whatever policy  *)
(* the service runs with.  If that policy passes the gate, its requester may *)
(* claim it; and if it is of a number, it was due, and from the limit of its *)
(* order's date on, somebody else of the tenant with the approval role       *)
(* agreed to this very run: whatever keys, calls, people and crashes there   *)
(* are.  NaN is left out of the last two, which it evades.                   *)
THEOREM RefundsAreAuthorised ==
  ASSUME ReviewedConfigs
  PROVE  RefundSpec => []RefundIsAuthorised
  <1>1. ASSUME PlacedInv, SoundInv, OneRefund, Ruling, StartedInv, ApprovalInv,
               AuthorityInv
        PROVE  RefundIsAuthorised
    <2> SUFFICES ASSUME NEW c \in Calls, effects[c] = "committed"
                 PROVE  LET r == Run(c)
                            q == runs[r].request
                        IN  /\ \A f \in Refunds : f.order = q.order => f.call = c
                            /\ Released => Claimant(q)
                            /\ Released /\ q.amount # NaN =>
                                 /\ Entitled(q)
                                 /\ TwoPeople(q) =>
                                      \E i \in DOMAIN events[r], p \in Principals :
                                        /\ events[r][i].type = "approval.approved"
                                        /\ events[r][i].by = p.actor
                                        /\ p.approver /\ p.tenant = q.tenant
                                        /\ p.actor # q.actor
      BY DEF RefundIsAuthorised
    <2> DEFINE r == Run(c)
               q == runs[r].request
               agreed == \E i \in DOMAIN events[r], p \in Principals :
                           /\ events[r][i].type = "approval.approved"
                           /\ events[r][i].by = p.actor
                           /\ p.approver /\ p.tenant = q.tenant
                           /\ p.actor # q.actor
    <2>1. r \in RunIds /\ runs[r].status \in Executed
      BY <1>1 DEF SoundInv, Sound, Running
    <2>2. runs[r].policy # None
      BY <1>1, <2>1 DEF StartedInv, Started
    <2>3. \A f \in Refunds : f.order = q.order => f.call = c
      BY <1>1, TheRefunds DEF OneRefund
    <2>4. Released => Ruled(r)
      <3>1. Released => Configured
        BY <1>1, GateAdmitsOne
           DEF Released, Ruling, Deployable, Configured, ReviewedConfigs
      <3> QED
        BY <1>1, <2>1, <3>1 DEF Ruling, RuledInv
    <2>5. CASE approvals[r] = NoApproval
      <3>1. Released => Rule(r, "allow")
        BY <2>1, <2>2, <2>4, <2>5 DEF Ruled, Executed
      <3>2. Released => /\ Claimant(q)
                        /\ q.amount # NaN => Entitled(q) /\ ~TwoPeople(q)
        BY <3>1 DEF Rule, RightOutcome
      <3> HIDE DEF q, r
      <3> QED
        BY <2>3, <3>2 DEF q, r
    <2>6. CASE approvals[r] # NoApproval
      <3>1. Released => Rule(r, "approval_required")
        BY <2>1, <2>4, <2>6 DEF Ruled
      <3>2. Released => Claimant(q) /\ (q.amount # NaN => Entitled(q))
        BY <3>1 DEF Rule, RightOutcome
      <3>3. approvals[r].status = "approved"
        BY <1>1, <2>1, <2>6, ApprovedByNow DEF PlacedInv, ApprovalInv
      <3>4. PICK p \in Principals :
              /\ p.tenant = q.tenant /\ p.approver
              /\ AllowSelfApproval \/ p.actor # q.actor
              /\ Recorded(events[r], Event("approval.approved", None, p.actor))
        BY <1>1, <2>1, <3>3 DEF AuthorityInv, Approved
      <3>5. PICK i \in DOMAIN events[r] :
              events[r][i] = Event("approval.approved", None, p.actor)
        BY <3>4 DEF Recorded
      <3>6. events[r][i].type = "approval.approved" /\ events[r][i].by = p.actor
        BY <3>5 DEF Event
      <3>7. p.actor # q.actor
        BY <3>4, ServiceAssumption
      <3>8. agreed
        <4> HIDE DEF q, r
        <4> QED
          BY <3>4, <3>6, <3>7
      <3> HIDE DEF q, r
      <3> QED
        BY <2>3, <3>2, <3>8 DEF q, r
    <2> QED
      BY <2>5, <2>6
  <1>2. RefundSpec => [](StartedInv /\ ApprovalInv /\ AuthorityInv)
    BY RefundUsesLedger, StartedInvHolds, ApprovalInvHolds, AuthorityInvHolds,
       PTL
  <1> QED
    BY <1>1, <1>2, RulingHolds, RefundInvs, OneRefundHolds, PTL

-----------------------------------------------------------------------------
(* Tenants.                                                                *)

\* The events that name a person.
Personal ==
  {"approval.approved", "approval.rejected", "provider.reconciliation.observed",
   "run.reconciled"}

SignedBy(event, tenant) ==
  event.type \in Personal =>
    \E p \in Principals : p.actor = event.by /\ p.tenant = tenant

Signed(trail, tenant) == \A i \in DOMAIN trail : SignedBy(trail[i], tenant)

LEMMA SignedAppend ==
  ASSUME NEW trail \in Seq(Events), NEW event \in Events, NEW tenant,
         Signed(trail, tenant), SignedBy(event, tenant)
  PROVE  Signed(trail \o <<event>>, tenant)
  <1> DEFINE longer == trail \o <<event>>
  <1>1. /\ DOMAIN longer = 1..(Len(trail) + 1)
        /\ \A i \in 1..Len(trail) : longer[i] = trail[i]
        /\ longer[Len(trail) + 1] = event
        /\ Len(trail) \in Nat
        /\ DOMAIN trail = 1..Len(trail)
    BY AppendOne
  <1> HIDE DEF longer
  <1>2. ASSUME NEW i \in DOMAIN longer
        PROVE  SignedBy(longer[i], tenant)
    <2>1. i \in 1..Len(trail) \/ i = Len(trail) + 1
      BY <1>1
    <2> QED
      BY <1>1, <2>1 DEF Signed
  <1> QED
    BY <1>2 DEF Signed, longer

LEMMA SignedAppendTwo ==
  ASSUME NEW trail \in Seq(Events), NEW first \in Events, NEW second \in Events,
         NEW tenant, Signed(trail, tenant), SignedBy(first, tenant),
         SignedBy(second, tenant)
  PROVE  Signed(trail \o <<first, second>>, tenant)
  <1>1. trail \o <<first>> \in Seq(Events)
    BY AppendOne
  <1>2. Signed(trail \o <<first>>, tenant)
    BY SignedAppend
  <1>3. Signed((trail \o <<first>>) \o <<second>>, tenant)
    BY <1>1, <1>2, SignedAppend
  <1>4. trail \o <<first, second>> = (trail \o <<first>>) \o <<second>>
    BY AppendTwo
  <1> QED
    BY <1>3, <1>4, Zenon

\* Who decides an approval or settles a run is of the tenant of the run.
LEMMA SignedStep ==
  ASSUME TypeOK, [Next]_vars, NEW r \in RunIds, Explained(r), ColumnStep(r),
         Signed(events[r], runs[r].request.tenant)
  PROVE  Signed(events'[r], runs'[r].request.tenant)
  <1> SUFFICES ASSUME NEW tenant, tenant = runs'[r].request.tenant
               PROVE  Signed(events'[r], tenant)
    OBVIOUS
  <1>1. events[r] \in Seq(Events)
    BY DEF TypeOK
  <1>2. Signed(events[r], tenant)
    <2>1. CASE runs[r] = NoRow
      <3>1. events[r] = << >>
        BY <2>1, NoRowColumns DEF Explained
      <3> QED
        BY <3>1 DEF Signed
    <2>2. CASE runs[r] # NoRow
      <3>1. runs'[r].request = runs[r].request
        BY <2>2, RequestKept
      <3> QED
        BY <3>1
    <2> QED
      BY <2>1, <2>2
  <1> USE AppendedTyped, AppendedTypes
  <1>3. ASSUME NEW event \in Events, events'[r] = events[r] \o <<event>>,
               SignedBy(event, tenant)
        PROVE  Signed(events'[r], tenant)
    BY <1>1, <1>2, <1>3, SignedAppend
  <1>4. ASSUME NEW first \in Events, NEW second \in Events,
               events'[r] = events[r] \o <<first, second>>,
               SignedBy(first, tenant), SignedBy(second, tenant)
        PROVE  Signed(events'[r], tenant)
    BY <1>1, <1>2, <1>4, SignedAppendTwo
  <1>5. /\ \A type \in EventType \ Personal :
             Plain(type) \in Events /\ SignedBy(Plain(type), tenant)
        /\ \A outcome, policy : SignedBy(Checked(outcome, policy), tenant)
    BY DEF SignedBy, Personal
  <1>6. {"run.created", "run.denied", "approval.requested", "approval.expired",
         "run.resumed", "tool.execution.started", "tool.execution.succeeded",
         "run.completed", "tool.execution.failed", "tool.execution.uncertain",
         "tool.execution.lease_expired"} \subseteq EventType \ Personal
    BY DEF EventType, Personal
  <1>7. CASE Kept(r)
    BY <1>2, <1>7 DEF Kept
  <1>8. CASE Entered(r) \/ Lapsed(r)
    BY <1>3, <1>5, <1>6, <1>8 DEF Entered, Lapsed, Turned, Moved
  <1>9. CASE Permitted(r)
    BY <1>3, <1>5, <1>9 DEF Permitted, Moved, PolicyOutcome
  <1>10. CASE Denied(r)
    BY <1>4, <1>5, <1>6, <1>10 DEF Denied, Moved, PolicyOutcome
  <1>11. CASE Asked(r)
    BY <1>4, <1>5, <1>6, <1>11 DEF Asked, Moved, PolicyOutcome
  <1>12. ASSUME NEW status, NEW type \in {"approval.approved", "approval.rejected"},
                Judged(r, status, type)
         PROVE  Signed(events'[r], tenant)
    <2>1. PICK principal \in Principals :
            /\ principal.tenant = tenant
            /\ events'[r] = events[r] \o <<Event(type, None, principal.actor)>>
      BY <1>12 DEF Judged, Eligible, Turned, Moved
    <2>2. /\ Event(type, None, principal.actor) \in Events
          /\ Event(type, None, principal.actor).by = principal.actor
      BY DEF EventType, Event
    <2> QED
      BY <1>3, <2>1, <2>2 DEF SignedBy
  <1>13. CASE Began(r) \/ Ended(r)
    BY <1>3, <1>4, <1>5, <1>6, <1>13 DEF Began, Ended, Turned, Moved
  <1>14. CASE Resolved(r)
    <2>1. ASSUME NEW status, NEW appended, Turned(r, status, appended)
          PROVE  /\ events'[r] = events[r] \o appended
                 /\ runs[r].request.tenant = tenant
      BY <2>1 DEF Turned, Moved
    <2>2. PICK principal \in Principals, outcome \in ProviderOutcome,
               status \in {"completed", "failed"} :
            /\ principal.tenant = runs[r].request.tenant
            /\ \/ Turned(r, status, <<Reconciled(status, principal)>>)
               \/ Turned(r, status, <<Observed(outcome, principal),
                                      Reconciled(status, principal)>>)
               \/ Turned(r, "unknown", <<Observed(outcome, principal)>>)
      BY <1>14, Zenon DEF Resolved
    <2>3. /\ principal.tenant = tenant
          /\ \/ events'[r] = events[r] \o <<Reconciled(status, principal)>>
             \/ events'[r] = events[r] \o <<Observed(outcome, principal),
                                            Reconciled(status, principal)>>
             \/ events'[r] = events[r] \o <<Observed(outcome, principal)>>
      BY <2>1, <2>2, Zenon
    <2>4. /\ Reconciled(status, principal) \in Events
          /\ Observed(outcome, principal) \in Events
      OBVIOUS
    <2>5. /\ SignedBy(Reconciled(status, principal), tenant)
          /\ SignedBy(Observed(outcome, principal), tenant)
      BY <2>3 DEF SignedBy, Reconciled, Observed, Event
    <2> QED
      BY <1>3, <1>4, <2>3, <2>4, <2>5, Zenon
  <1> QED
    BY <1>7, <1>8, <1>9, <1>10, <1>11, <1>12, <1>13, <1>14
       DEF ColumnStep

SignedInv == \A r \in RunIds : Signed(events[r], runs[r].request.tenant)

LEMMA SignedInvInit ==
  ASSUME Init
  PROVE  SignedInv
  <1>1. \A r \in RunIds : events[r] = << >>
    BY Zenon DEF Init
  <1> QED
    BY <1>1 DEF SignedInv, Signed

LEMMA SignedInvHolds == Spec => []SignedInv
  <1>1. Init => SignedInv
    BY SignedInvInit
  <1>2. ASSUME TypeOK, TrailInv, SignedInv, [Next]_vars
        PROVE  SignedInv'
    <2>1. ASSUME NEW r \in RunIds
          PROVE  Signed(events'[r], runs'[r].request.tenant)
      <3>1. ColumnStep(r)
        BY <1>2, StepLocal, ColumnsOf
      <3> QED
        BY <1>2, <3>1, SignedStep DEF TrailInv, SignedInv
    <2> QED
      BY <2>1 DEF SignedInv
  <1> QED
    BY <1>1, <1>2, TypeCorrect, TrailInvHolds, PTL DEF Spec

\* Behind a call stands a principal of the tenant of the run it works on.
Called(c) ==
  Run(c) # None =>
    /\ Run(c) \in RunIds
    /\ runs[Run(c)] # NoRow
    /\ callers[c].tenant = runs[Run(c)].request.tenant

CalledInv ==
  /\ callers \in [Calls -> Principals \cup {None}]
  /\ \A c \in Calls : Called(c)

\* A step that leaves who calls for what as it is.
CallersKept ==
  /\ UNCHANGED callers
  /\ \A c \in Calls : calls'[c].run = calls[c].run

LEMMA CalledKept ==
  ASSUME PlacedInv, [Next]_vars, NEW c \in Calls, Called(c),
         callers'[c] = callers[c], calls'[c].run = calls[c].run
  PROVE  Called(c)'
  <1>1. ASSUME Run(c) # None
        PROVE  /\ runs'[Run(c)] # NoRow
               /\ runs'[Run(c)].request = runs[Run(c)].request
    BY <1>1, RequestKept DEF PlacedInv, Called
  <1> QED
    BY <1>1 DEF Called, Run

\* A call that got its run from its caller's own tenant.
LEMMA CalledNow ==
  ASSUME PlacedInv, [Next]_vars, CalledInv, NEW c \in Calls, NEW p \in Principals,
         callers' = [callers EXCEPT ![c] = p],
         \A d \in Calls \ {c} : calls'[d] = calls[d],
         \/ calls'[c].run = None
         \/ /\ calls'[c].run \in RunIds
            /\ runs'[calls'[c].run] # NoRow
            /\ runs'[calls'[c].run].request.tenant = p.tenant
  PROVE  CalledInv'
  <1>1. callers' \in [Calls -> Principals \cup {None}] /\ callers'[c] = p
    BY DEF CalledInv
  <1>2. Called(c)'
    BY <1>1 DEF Called, Run
  <1>3. ASSUME NEW d \in Calls \ {c}
        PROVE  Called(d)'
    BY CalledKept DEF CalledInv
  <1> QED
    BY <1>1, <1>2, <1>3 DEF CalledInv

\* Only a new request and a resume change who calls for what.
LEMMA WhoCalls ==
  ASSUME PlacedInv, [RefundNext]_refundVars
  PROVE  \/ CallersKept
         \/ \E c \in Calls, p \in Principals :
              \/ \E body \in Bodies : Submit(c, p, body)
              \/ \E r \in RunIds : ResumeRun(c, p, r)
  <1>1. ASSUME UNCHANGED <<callers, calls>>
        PROVE  CallersKept
    BY <1>1 DEF CallersKept
  <1>2. calls \in [Calls -> Call]
    BY RuntimeTypes DEF PlacedInv
  <1>3. ASSUME NEW c \in Calls, \/ \E pc : Goto(c, pc)
                                \/ \E answer : Answer(c, answer),
               UNCHANGED callers
        PROVE  CallersKept
    BY <1>3, GotoColumns DEF CallersKept
  <1>4. ASSUME NEW c \in Calls, UNCHANGED callers,
               \/ DuplicateCounts(c) \/ ReadResult(c) \/ Report(c)
               \/ \E t \in SampledNow : \/ DuplicateSweepsApprovals(c, t)
                                        \/ DuplicateSweepsLeases(c, t)
                                        \/ EvaluateRefund(c, t)
        PROVE  CallersKept
    <2>1. \/ \E pc : Goto(c, pc)
          \/ \E answer : Answer(c, answer)
      BY <1>4
         DEF DuplicateCounts, ReadResult, Report, DuplicateSweepsApprovals,
             DuplicateSweepsLeases, EvaluateRefund, EvaluatePolicy
    <2> QED
      BY <1>3, <1>4, <2>1
  <1>5. ASSUME NEW c \in Calls, NEW pc, NEW beat, UNCHANGED callers,
               calls' = [calls EXCEPT ![c].pc = pc, ![c].beat = beat]
        PROVE  CallersKept
    BY <1>2, <1>5 DEF Call, CallersKept
  <1>6. ASSUME NEW c \in Calls, NEW t, Claim(c, t), UNCHANGED callers
        PROVE  CallersKept
    <2>1. \/ calls' = [calls EXCEPT ![c].pc = "tool", ![c].beat = TRUE]
          \/ Goto(c, "read")
      BY <1>6, Zenon DEF Claim
    <2> QED
      BY <1>3, <1>5, <1>6, <2>1
  <1>7. ASSUME NEW c \in Calls, UNCHANGED callers,
               HeartbeatDies(c) \/ \E t \in SampledNow : Heartbeat(c, t)
        PROVE  CallersKept
    <2>1. \/ calls' = [calls EXCEPT ![c].beat = FALSE]
          \/ UNCHANGED calls
      BY <1>7, Zenon DEF HeartbeatDies, Heartbeat
    <2>2. CASE calls' = [calls EXCEPT ![c].beat = FALSE]
      BY <1>2, <1>7, <2>2 DEF Call, CallersKept
    <2> QED
      BY <1>1, <1>7, <2>1, <2>2
  <1>8. ASSUME NEW c \in Calls, Crash(c), UNCHANGED callers
        PROVE  CallersKept
    <2>1. calls' = [calls EXCEPT ![c].pc = "crashed", ![c].beat = FALSE]
      BY <1>8, Zenon DEF Crash
    <2> QED
      BY <1>5, <1>8, <2>1
  <1>9. ASSUME NEW c \in Calls, RefundReturns(c), UNCHANGED callers
        PROVE  CallersKept
    <2>1. PICK outcome, beat :
            calls' = [calls EXCEPT ![c].pc = "report", ![c].answer = outcome,
                                   ![c].beat = beat]
      BY <1>9, Zenon DEF RefundReturns, ToolReturns
    <2> QED
      BY <1>2, <1>9, <2>1 DEF Call, CallersKept
  <1>10. ASSUME NEW c \in Calls, ExecuteRefund(c), UNCHANGED callers
         PROVE  CallersKept
    BY <1>1, <1>10, Zenon DEF ExecuteRefund
  <1>11. ASSUME NEW o \in Operators, UNCHANGED callers,
                (\E r \in RunIds : Inspect(o, r)) \/ Settle(o) \/ DropLookup(o)
         PROVE  CallersKept
    BY <1>1, <1>11 DEF Inspect, Settle, DropLookup
  <1>12. ASSUME NEW t \in SampledNow, UNCHANGED callers,
                \/ Recover(t)
                \/ \E r \in RunIds, approved \in BOOLEAN, p \in Principals :
                     Decide(r, approved, p, t)
         PROVE  CallersKept
    BY <1>1, <1>12 DEF Recover, Decide
  <1>13. ASSUME NEW config, Deploy(config)
         PROVE  CallersKept
    BY <1>1, <1>13 DEF Deploy, runtimeVars
  <1>14. ASSUME Time /\ UNCHANGED callers
         PROVE  CallersKept
    BY <1>1, <1>14 DEF Time
  <1>15. ASSUME UNCHANGED refundVars
         PROVE  CallersKept
    BY <1>1, <1>15 DEF refundVars, runtimeVars, serviceVars
  <1> QED
    BY <1>4, <1>6, <1>7, <1>8, <1>9, <1>10, <1>11, <1>12, <1>13, <1>14, <1>15
       DEF RefundNext, Background, serviceVars

LEMMA CalledStep ==
  ASSUME PlacedInv, SoundInv, CalledInv, [RefundNext]_refundVars
  PROVE  CalledInv'
  <1>1. [Next]_vars
    BY RefundLedgerStep
  <1>2. calls \in [Calls -> Call]
    BY RuntimeTypes DEF PlacedInv
  <1>3. CASE CallersKept
    BY <1>1, <1>3, CalledKept DEF CallersKept, CalledInv
  <1>4. ASSUME NEW c \in Calls, NEW p \in Principals, NEW body \in Bodies,
               Submit(c, p, body)
        PROVE  CalledInv'
    <2> DEFINE request == Governed(p, body)
    <2>1. request.tenant = p.tenant /\ request # None
      <3>1. request.tenant = p.tenant
        BY DEF Governed
      <3>2. request \in Requests
        BY ServiceAssumption
      <3> QED
        BY <3>1, <3>2, LedgerAssumption
    <2>2. Invoke(c, request) /\ callers' = [callers EXCEPT ![c] = p]
      BY <1>4 DEF Submit
    <2> HIDE DEF request
    <2>3. calls[c].pc = "idle" /\ calls[c].run = None
      BY <2>2, Zenon DEF Invoke, At, SoundInv, Sound, Run
    <2>4. ASSUME CreateRun(c, request),
                 calls' = [calls EXCEPT ![c].pc = "policy", ![c].run = c,
                                        ![c].request = request]
          PROVE  CalledInv'
      <3>1. calls'[c].run = c /\ \A d \in Calls \ {c} : calls'[d] = calls[d]
        BY <1>2, <2>4 DEF Call
      <3>2. c \in RunIds /\ runs'[c].request = request
        BY <2>4, OwnersAreCalls DEF CreateRun, Commit, PlacedInv, TypeOK, NoRow
      <3>3. runs'[c] # NoRow
        BY <2>1, <3>2 DEF NoRow
      <3> QED
        BY <1>1, <2>1, <2>2, <3>1, <3>2, <3>3, CalledNow
    <2>5. ASSUME NEW r \in Stored(request), runs[r].request = request,
                 calls' = [calls EXCEPT ![c].pc = "sweep_approvals",
                                        ![c].run = r, ![c].request = request]
          PROVE  CalledInv'
      <3>1. calls'[c].run = r /\ \A d \in Calls \ {c} : calls'[d] = calls[d]
        BY <1>2, <2>5 DEF Call
      <3>2. r \in RunIds /\ runs[r] # NoRow
        BY DEF Stored
      <3>3. runs'[r] # NoRow /\ runs'[r].request = request
        BY <1>1, <2>5, <3>2, RequestKept DEF PlacedInv
      <3> QED
        BY <1>1, <2>1, <2>2, <3>1, <3>2, <3>3, CalledNow
    <2>6. ASSUME NEW answer, Answer(c, answer)
          PROVE  CalledInv'
      <3>1. /\ calls'[c].run = None
            /\ \A d \in Calls \ {c} : calls'[d] = calls[d]
        BY <2>3, <2>6, GotoColumns
      <3> QED
        BY <1>1, <2>2, <3>1, CalledNow
    <2> QED
      BY <2>2, <2>4, <2>5, <2>6, Zenon DEF Invoke
  <1>5. ASSUME NEW c \in Calls, NEW p \in Principals, NEW r \in RunIds,
               ResumeRun(c, p, r)
        PROVE  CalledInv'
    <2>1. /\ callers' = [callers EXCEPT ![c] = p]
          /\ runs[r] # NoRow /\ runs[r].request.tenant = p.tenant
          /\ Resume(c, r)
      BY <1>5 DEF ResumeRun
    <2>2. \/ calls' = [calls EXCEPT ![c].pc = "claim", ![c].run = r]
          \/ calls' = [calls EXCEPT ![c].pc = "done", ![c].run = r,
                                    ![c].answer = "completed"]
      BY <2>1, Zenon DEF Resume
    <2>3. calls'[c].run = r /\ \A d \in Calls \ {c} : calls'[d] = calls[d]
      <3>1. CASE calls' = [calls EXCEPT ![c].pc = "claim", ![c].run = r]
        BY <1>2, <3>1 DEF Call
      <3>2. CASE calls' = [calls EXCEPT ![c].pc = "done", ![c].run = r,
                                        ![c].answer = "completed"]
        BY <1>2, <3>2 DEF Call
      <3> QED
        BY <2>2, <3>1, <3>2
    <2>4. runs'[r] # NoRow /\ runs'[r].request = runs[r].request
      BY <1>1, <2>1, RequestKept DEF PlacedInv
    <2> QED
      BY <1>1, <2>1, <2>3, <2>4, CalledNow
  <1> QED
    BY <1>3, <1>4, <1>5, WhoCalls

LEMMA CalledInvHolds == RefundSpec => []CalledInv
  <1>1. RefundInit => CalledInv
    BY DEF RefundInit, RuntimeInit, NoCall, CalledInv, Called, Run
  <1>2. PlacedInv /\ SoundInv /\ CalledInv /\ [RefundNext]_refundVars
          => CalledInv'
    BY CalledStep
  <1> QED
    BY <1>1, <1>2, RefundInvs, PTL DEF RefundSpec

(* Nobody calls for, approves, rejects or settles a run of another tenant:   *)
(* behind each call stands a principal of its run's tenant, and every trail  *)
(* that names a person names one of the run's own tenant.                    *)
THEOREM TenantsStayIsolated == RefundSpec => []TenantsAreIsolated
  <1>1. ASSUME CalledInv, SignedInv
        PROVE  TenantsAreIsolated
    <2>1. \A c \in Calls : Run(c) # None =>
            callers[c].tenant = runs[Run(c)].request.tenant
      BY <1>1 DEF CalledInv, Called
    <2>2. \A r \in RunIds : \A i \in DOMAIN events[r] :
            events[r][i].type \in Personal =>
              \E p \in Principals : /\ p.actor = events[r][i].by
                                    /\ p.tenant = runs[r].request.tenant
      BY <1>1 DEF SignedInv, Signed, SignedBy
    <2> QED
      BY <2>1, <2>2 DEF TenantsAreIsolated, Personal
  <1>2. RefundSpec => []SignedInv
    BY RefundUsesLedger, SignedInvHolds, PTL
  <1> QED
    BY <1>1, <1>2, CalledInvHolds, PTL
=============================================================================
