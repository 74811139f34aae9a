------------------------------ MODULE RowLocks ------------------------------
(***************************************************************************)
(* The row locks of the PostgreSQL ledger (postgres.py), statement by      *)
(* statement and for several runs.  A transaction selects without a lock,  *)
(* then updates row after row; an update whose WHERE matches the committed *)
(* row locks it until the commit, or waits in the row's queue and then     *)
(* matches its WHERE again.  A sweep updates the runs in the order its     *)
(* SELECT returned them, which is any order, so two sweeps may wait for    *)
(* each other; PostgreSQL then ends one of them, and __exit__ rolls back.  *)
(*                                                                         *)
(* A row is its status.  Appending an event takes the lock of the run,     *)
(* which the transactions hold by then: always marks the update that is    *)
(* followed by an append even if it matches nothing.  An operation on the  *)
(* row of one run alone (claims, heartbeats, reports, reconciliation) is   *)
(* one such update; late says that the deadline of the approval or of the  *)
(* lease has passed.                                                       *)
(***************************************************************************)
EXTENDS Naturals, FiniteSets, SequencesExt

CONSTANTS
  Runs,
  Sweepers,   \* sessions that serve the recovery endpoint
  Clients     \* sessions of approvers, workers and operators

ASSUME RowsAssumption == IsFiniteSet(Runs)

Sessions == Sweepers \cup Clients
Rows == {"approval", "run"} \X Runs

VARIABLES
  value,   \* the committed status of each row
  late,    \* runs whose deadline has passed
  queue,   \* the sessions at each row: the first holds its lock
  tx       \* the open transaction of each session

vars == <<value, late, queue, tx>>

\* op is its operation, on its runs, todo the updates left, done those that
\* changed their row.
NoTx == [op |-> "none", on |-> {}, todo |-> << >>, done |-> {}]

Update(kind, r, from, to) ==
  [row |-> <<kind, r>>, from |-> from, to |-> to, always |-> FALSE]

\* A refused run is rejected or expired; the execution of a finished one is
\* reported, given up or reconciled.
Statuses == {"pending", "approved", "refused", "executing", "finished"}

\* Every run waits for its approver; a run that policy allowed is one whose
\* approval is never read.
Init ==
  /\ value = [row \in Rows |-> "pending"]
  /\ late = {}
  /\ queue = [row \in Rows |-> << >>]
  /\ tx = [s \in Sessions |-> NoTx]

-----------------------------------------------------------------------------
(* The transactions                                                        *)

Begin(s, op, on, todo) ==
  /\ tx[s] = NoTx
  /\ tx' = [tx EXCEPT ![s] = [op |-> op, on |-> on, todo |-> todo, done |-> {}]]
  /\ UNCHANGED <<value, late, queue>>

Status(r) == value[<<"run", r>>]

Undecided(r) == Status(r) = "pending" /\ value[<<"approval", r>>] = "pending"

\* Mutants of Verdict: it locks the run first; its first update names the run
\* alone.
VerdictBackwards(r, verdict) ==
  <<[Update("run", r, {"pending"}, verdict) EXCEPT !.always = TRUE],
    Update("approval", r, {"pending"}, verdict)>>

VerdictBlind(r, verdict) ==
  <<Update("approval", r, Statuses, verdict),
    [Update("run", r, {"pending"}, verdict) EXCEPT !.always = TRUE]>>

Verdict(r, verdict) ==
  <<Update("approval", r, {"pending"}, verdict),
    [Update("run", r, {"pending"}, verdict) EXCEPT !.always = TRUE]>>

\* decide_approval; the expiry branch updates by the run alone.  A decision
\* that read the clock before the deadline may come after it.
Decide(s, r) ==
  /\ Undecided(r)
  /\ \/ \E verdict \in {"approved", "refused"} :
          Begin(s, "decide", {r}, Verdict(r, verdict))
     \/ /\ r \in late
        /\ Begin(s, "expire", {r}, <<Update("approval", r, Statuses, "refused"),
                                     Update("run", r, Statuses, "refused")>>)

\* expire_approvals
SweepApprovals(s) ==
  LET overdue == {r \in late : Undecided(r)}
      lapse(order) ==
        [i \in 1..2 * Len(order) |->
           Update(IF i % 2 = 1 THEN "approval" ELSE "run",
                  order[(i + 1) \div 2], {"pending"}, "refused")]
  IN  /\ overdue # {}
      /\ \E order \in SetToSeqs(overdue) :
           Begin(s, "lapse", overdue, lapse(order))

\* recover_expired_executions
SweepLeases(s) ==
  LET overdue == {r \in late : Status(r) = "executing"}
  IN  /\ overdue # {}
      /\ \E order \in SetToSeqs(overdue) :
           Begin(s, "give_up", overdue,
                 [i \in DOMAIN order |->
                    Update("run", order[i], {"executing"}, "finished")])

\* claim_execution, the heartbeats and reports of its owner, reconciliation.
Work(s, r) ==
  \E move \in {<<"approved", "executing">>, <<"executing", "executing">>,
               <<"executing", "finished">>, <<"finished", "finished">>} :
    /\ Status(r) = move[1]
    /\ Begin(s, "work", {r}, <<Update("run", r, {move[1]}, move[2])>>)

-----------------------------------------------------------------------------
(* The statements                                                          *)

\* What is left after the first update of s, and whether it hit its row:
\* decide_approval returns when it did not find the approval pending, a sweep
\* rolls back when it changed one row of a run and not the other.
After(s, hit) ==
  LET next == Head(tx[s].todo)
      expired == \E u \in tx[s].done : u.row = <<"approval", next.row[2]>>
  IN  CASE tx[s].op = "decide" /\ next.row[1] = "approval" /\ ~hit ->
             [tx[s] EXCEPT !.todo = << >>]
        [] tx[s].op = "lapse" /\ next.row[1] = "run" /\ hit # expired ->
             [tx[s] EXCEPT !.todo = << >>, !.done = {}]
        [] OTHER ->
             [tx[s] EXCEPT !.todo = Tail(@),
                           !.done = IF hit THEN @ \cup {next} ELSE @]

Queued(s, row) == s \in ToSet(queue[row])

\* Where s stands in a queue, and the queue when it has left.
Position(line, s) == CHOOSE i \in DOMAIN line : line[i] = s

Without(line, s) ==
  IF s \in ToSet(line) THEN RemoveAt(line, Position(line, s)) ELSE line

\* s is next at the row of its first update.
Granted(s, row) == Head(Append(queue[row], s)) = s

Execute(s) ==
  /\ tx[s].todo # << >>
  /\ LET next == Head(tx[s].todo)
         row == next.row
         hit == value[row] \in next.from
         locks == hit \/ next.always
     IN  \/ /\ locks
            /\ Granted(s, row)
            /\ queue' = [queue EXCEPT ![row] = IF @ = << >> THEN <<s>> ELSE @]
            /\ tx' = [tx EXCEPT ![s] = After(s, hit)]
         \/ /\ locks
            /\ ~Granted(s, row)
            /\ ~Queued(s, row)
            /\ queue' = [queue EXCEPT ![row] = Append(@, s)]
            /\ UNCHANGED tx
         \/ /\ ~locks
            /\ Queued(s, row) => Granted(s, row)
            /\ queue' = [queue EXCEPT ![row] = Without(@, s)]
            /\ tx' = [tx EXCEPT ![s] = After(s, hit)]
  /\ UNCHANGED <<value, late>>

\* The end of a transaction: its locks go, and so does its place in a queue.
End(s) ==
  /\ queue' = [row \in Rows |-> Without(queue[row], s)]
  /\ tx' = [tx EXCEPT ![s] = NoTx]

\* Mutants of Commit: the connection is never closed; the updates are rolled
\* back with it.
CommitOpen(s) ==
  /\ tx[s].op # "none"
  /\ tx[s].todo = << >>
  /\ value' = [row \in Rows |->
       LET hits == {u \in tx[s].done : u.row = row}
       IN  IF hits = {} THEN value[row] ELSE (CHOOSE u \in hits : TRUE).to]
  /\ tx' = [tx EXCEPT ![s] = NoTx]
  /\ UNCHANGED <<queue, late>>

CommitNothing(s) ==
  /\ tx[s].op # "none"
  /\ tx[s].todo = << >>
  /\ End(s)
  /\ UNCHANGED <<value, late>>

\* A decided or finished run has no deadline, a claim or heartbeat a new one.
Commit(s) ==
  /\ tx[s].op # "none"
  /\ tx[s].todo = << >>
  /\ value' = [row \in Rows |->
       LET hits == {u \in tx[s].done : u.row = row}
       IN  IF hits = {} THEN value[row] ELSE (CHOOSE u \in hits : TRUE).to]
  /\ late' = late \ {u.row[2] : u \in tx[s].done}
  /\ End(s)

Waits(s) ==
  /\ tx[s].todo # << >>
  /\ LET row == Head(tx[s].todo).row IN Queued(s, row) /\ ~Granted(s, row)

\* The sessions that s waits for: those ahead of it at the row.
Ahead(s) ==
  IF Waits(s)
  THEN LET at == queue[Head(tx[s].todo).row]
       IN  {at[i] : i \in 1..Position(at, s) - 1}
  ELSE {}

\* The sessions that wait, through others, for themselves.
Deadlocked ==
  LET ahead == [s \in Sessions |-> Ahead(s)]
      closed == {S \in SUBSET Sessions : \A t \in S : ahead[t] \subseteq S}
  IN  {s \in Sessions : \A S \in closed : ahead[s] \subseteq S => s \in S}

\* PostgreSQL ends one transaction of a deadlock.
Abort(s) ==
  /\ Waits(s)
  /\ s \in Deadlocked
  /\ End(s)
  /\ UNCHANGED <<value, late>>

Lapse(r) ==
  /\ r \notin late
  /\ Status(r) \in {"pending", "executing"}
  /\ late' = late \cup {r}
  /\ UNCHANGED <<value, queue, tx>>

-----------------------------------------------------------------------------
Sweep(s) == SweepApprovals(s) \/ SweepLeases(s)

Advance(s) == Execute(s) \/ Commit(s)

Next ==
  \/ \E s \in Sweepers : Sweep(s)
  \/ \E s \in Sessions : Advance(s) \/ Abort(s)
  \/ \E s \in Clients, r \in Runs : Decide(s, r) \/ Work(s, r)
  \/ \E r \in Runs : Lapse(r)

\* A session goes on with its transaction, PostgreSQL looks for deadlocks, and
\* the recovery endpoint is called on a schedule.
Fairness ==
  /\ \A s \in Sessions : WF_vars(Advance(s))
  /\ WF_vars(\E s \in Sessions : Abort(s))
  /\ \A s \in Sweepers : WF_vars(Sweep(s))

Spec == Init /\ [][Next]_vars /\ Fairness

-----------------------------------------------------------------------------
(* Properties                                                              *)

\* The two rows of a run are changed by two statements, with other sessions in
\* between; committed, they tell one story all the same.
RowsAgree ==
  \A r \in Runs :
    LET approval == value[<<"approval", r>>]
    IN  /\ {approval, Status(r)} \cap {"pending", "refused"} # {} => approval = Status(r)
        /\ approval = "approved" => Status(r) \in {"approved", "executing", "finished"}

\* Only two sweeps over several runs at once can start a deadlock; decisions,
\* claims, reports and sweeps of one run lock their rows in one order.  (A
\* decision or report that waits between two such sweeps is in their deadlock,
\* and may be the one that PostgreSQL ends.)
DeadlockTakesTwoSweeps ==
  Deadlocked # {} =>
    \E s, t \in Deadlocked :
      /\ s # t
      /\ \A u \in {s, t} :
           tx[u].op \in {"lapse", "give_up"} /\ Cardinality(tx[u].on) > 1

\* Nobody waits for a row for ever, whoever else sweeps.
WaitingEnds ==
  \A s \in Sessions : Waits(s) ~> ~Waits(s)

\* An overdue run is settled in the end, also when sweeps that cover it are
\* ended again and again by a deadlock.
OverdueIsSettled ==
  \A r \in Runs :
    r \in late /\ Status(r) \in {"pending", "executing"}
      ~> r \notin late \/ Status(r) \notin {"pending", "executing"}
=============================================================================
