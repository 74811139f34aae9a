--------------------------- MODULE MCActionLedger ---------------------------
(***************************************************************************)
(* A small instance of ActionLedger: one run, that people of two tenants   *)
(* may ask for and two workers execute.  Principals: a requester with the  *)
(* approval role, a colleague with it, one without it, and an approver of  *)
(* the other tenant.                                                       *)
(***************************************************************************)
EXTENDS ActionLedger, TLC

CONSTANTS r1, w1, w2

Request(tenant, actor) ==
  [tenant |-> tenant, key |-> "k1", actor |-> actor, content |-> "c1"]

MCRequests == {Request("acme", "alice"), Request("zeta", "zoe")}

Principal(actor, tenant, approver) ==
  [actor |-> actor, tenant |-> tenant, approver |-> approver]

MCPrincipals ==
  {Principal("alice", "acme", TRUE), Principal("carol", "acme", TRUE),
   Principal("dave", "acme", FALSE), Principal("zed", "zeta", TRUE)}

TwoOwners == {w1, w2}

OwnerSymmetry == Permutations(TwoOwners)
=============================================================================
