-------------------------- MODULE MCPostgresLedger --------------------------
(***************************************************************************)
(* A small instance of PostgresLedger: one run that two approvers decide,  *)
(* two workers claim and the sweeps visit, in two open transactions.       *)
(***************************************************************************)
EXTENDS PostgresLedger, TLC

CONSTANTS r1, w1, w2, s1, s2

MCRequests == {[tenant |-> "acme", key |-> "k1", actor |-> "alice",
                content |-> "c1"]}

Approver(actor) == [actor |-> actor, tenant |-> "acme", approver |-> TRUE]
MCPrincipals == {Approver("carol"), Approver("dave")}

TwoWorkers == {w1, w2}
TwoSessions == {s1, s2}

Symmetry == Permutations(TwoWorkers) \cup Permutations(TwoSessions)
=============================================================================
