--------------------------- MODULE MCRefundService ---------------------------
(***************************************************************************)
(* A small instance of RefundService: three calls by the people of two     *)
(* tenants.  Two keys ask for one order, one key is used by two tenants    *)
(* and for two amounts, one of them NaN, and the bodies cover every        *)
(* outcome of the policy.                                                  *)
(***************************************************************************)
EXTENDS RefundService, TLC

CONSTANTS c1, c2, c3

ThreeCalls == {c1, c2, c3}

Person(actor, tenant, roles) ==
  [actor |-> actor, tenant |-> tenant, roles |-> roles,
   approver |-> "agenttrustops_approver" \in roles]

\* An agent who may also approve; her colleague; the only person of
\* the other tenant.
Staff ==
  {Person("alice", "default",
     {"refund_agent", "agenttrustops_invoker", "agenttrustops_approver"}),
   Person("carol", "default",
     {"agenttrustops_approver", "agenttrustops_executor",
      "agenttrustops_reconciler", "agenttrustops_operator"}),
   Person("bob", "beta",
     {"refund_admin", "agenttrustops_invoker", "agenttrustops_approver",
      "agenttrustops_executor", "agenttrustops_reconciler",
      "agenttrustops_operator"})}

Reconcilers == {p \in Staff : "agenttrustops_reconciler" \in p.roles}

Body(key, order, amount) ==
  [key |-> key, order |-> order, amount |-> amount,
   refs |-> {"ORDER", "LOGISTICS"}]

Sent == {Body("k1", "O-HIGH", 800), Body("k2", "O-HIGH", 300),
         Body("k2", "O-HIGH", NaN)}

Governing == {Governed(p, body) : p \in Staff, body \in Sent}

PolicyNames == VersionNames \cup {"unresolved"}

Files == Configurations({"refund_agent", "refund_admin", "viewer"})

\* Every policy file is deployed.  What the service then does is followed with the
\* file that passes the gate and, before the clock first ticks, with a file that
\* asks for no approvals and no roles.
Careless ==
  [DefaultConfiguration EXCEPT !.approval_enabled = FALSE, !.enforce_roles = FALSE]

Followed ==
  deployed \in {None, DefaultConfiguration} \/ (deployed = Careless /\ clock = 0)

CallSymmetry == Permutations(ThreeCalls)
=============================================================================
