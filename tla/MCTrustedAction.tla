--------------------------- MODULE MCTrustedAction ---------------------------
(***************************************************************************)
(* Small instances of TrustedAction: three calls that compete for one      *)
(* business identity, with the approver who also reconciles; and two calls *)
(* for the liveness properties.                                            *)
(***************************************************************************)
EXTENDS TrustedAction, TLC

CONSTANTS c1, c2, c3

Request(key, content) ==
  [tenant |-> "acme", key |-> key, actor |-> "alice", content |-> content]

OneRequest == {Request("k1", "a")}
TwoRequests == {Request("k1", "a"), Request("k1", "b")}

Alice == [actor |-> "alice", tenant |-> "acme", approver |-> TRUE]
Carol == [actor |-> "carol", tenant |-> "acme", approver |-> TRUE]

Staff == {Alice, Carol}
Reconcilers == {Carol}

TwoCalls == {c1, c2}
ThreeCalls == {c1, c2, c3}

CallSymmetry == Permutations(ThreeCalls)
=============================================================================
