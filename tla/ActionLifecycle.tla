--------------------------- MODULE ActionLifecycle ---------------------------
(***************************************************************************)
(* What the ledger promises about one governed action, without leases,     *)
(* clocks, principals or an audit trail: a run is submitted, cleared by a  *)
(* policy or by a person, begun at most once, settled at most once, and,   *)
(* when its outcome was lost, resolved at most once.  Nothing leaves a     *)
(* terminal phase and nothing that was ever begun is begun again.          *)
(*                                                                         *)
(* The phases are the values of ActionStatus (models.py), with "absent"    *)
(* for a run that has no row.  ActionLedger is shown to implement this     *)
(* module under the refinement mapping of its definition Lifecycle.        *)
(***************************************************************************)
CONSTANT RunIds

VARIABLES
  phase,      \* phase[r]: the ActionStatus of run r
  allowed,    \* runs for which a policy has answered "allow"
  begun       \* runs whose protected tool has been started

vars == <<phase, allowed, begun>>

\* Phases that no step may leave.
Terminal == {"denied", "rejected", "approval_expired", "completed", "failed"}

Phases == Terminal \cup
  {"absent", "created", "pending_approval", "approved", "executing", "unknown"}

Init ==
  /\ phase = [r \in RunIds |-> "absent"]
  /\ allowed = {}
  /\ begun = {}

\* Every run of S is in phase "from" and moves to phase "to", in one step.
Move(S, from, to) ==
  /\ S # {}
  /\ \A r \in S : phase[r] = from
  /\ phase' = [r \in RunIds |-> IF r \in S THEN to ELSE phase[r]]

Submit(r) == Move({r}, "absent", "created") /\ UNCHANGED <<allowed, begun>>

Allow(r) ==
  /\ phase[r] = "created"
  /\ allowed' = allowed \cup {r}
  /\ UNCHANGED <<phase, begun>>

\* A policy denies the run or asks for a person to decide it.
Withhold(r) ==
  /\ \E to \in {"denied", "pending_approval"} : Move({r}, "created", to)
  /\ UNCHANGED <<allowed, begun>>

Decide(r) ==
  /\ \E to \in {"approved", "rejected"} : Move({r}, "pending_approval", to)
  /\ UNCHANGED <<allowed, begun>>

\* Overdue approvals lapse together: the sweep handles many runs at once.
Lapse(S) ==
  /\ Move(S, "pending_approval", "approval_expired")
  /\ UNCHANGED <<allowed, begun>>

\* The one step that starts the protected tool.
Begin(r) ==
  /\ r \notin begun
  /\ \/ r \in allowed /\ Move({r}, "created", "executing")
     \/ Move({r}, "approved", "executing")
  /\ begun' = begun \cup {r}
  /\ UNCHANGED allowed

Settle(r) ==
  /\ \E to \in {"completed", "failed", "unknown"} : Move({r}, "executing", to)
  /\ UNCHANGED <<allowed, begun>>

\* Executions whose lease ran out are given up together.
Abandon(S) ==
  /\ Move(S, "executing", "unknown")
  /\ UNCHANGED <<allowed, begun>>

Resolve(r) ==
  /\ \E to \in {"completed", "failed"} : Move({r}, "unknown", to)
  /\ UNCHANGED <<allowed, begun>>

Next ==
  \/ \E r \in RunIds :
       \/ Submit(r) \/ Allow(r) \/ Withhold(r) \/ Decide(r)
       \/ Begin(r) \/ Settle(r) \/ Resolve(r)
  \/ \E S \in SUBSET RunIds : Lapse(S) \/ Abandon(S)

Spec == Init /\ [][Next]_vars
=============================================================================
