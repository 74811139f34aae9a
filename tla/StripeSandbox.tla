---------------------------- MODULE StripeSandbox ----------------------------
(***************************************************************************)
(* The Stripe sandbox adapter (integrations/stripe_sandbox.py): a charge   *)
(* is a POST under the run's idempotency key, and a lookup of an unknown   *)
(* run is the same POST once more, answered from what Stripe stored under  *)
(* the key.  Stripe forgets keys, so old runs are not looked up.           *)
(*                                                                         *)
(* A request that is not answered may still arrive, up to MaxDelay after   *)
(* its run was claimed or its age was checked; nothing in the code bounds  *)
(* that delay.  The ledger appears as the status of each run, changed      *)
(* under the conditions ActionLedger states.  Stripe is external: it is    *)
(* what the adapter's test double and its comments say of it.              *)
(***************************************************************************)
EXTENDS Integers

CONSTANTS
  Runs,           \* runs whose business key is the same, of several tenants
  Probes,         \* lookups that may be under way for a run
  None,
  MaxReplayAge,   \* _MAX_SAFE_REPLAY_AGE: at this age a run is not looked up
  MaxDelay,       \* what a request takes at most, if it arrives at all
  Retention,      \* how long Stripe keeps a key, at least
  MaxClock        \* bound on the clock

VARIABLES
  clock,
  runs,       \* the ledger's row: status and creation time
  posts,      \* the requests: of the charge and of each probe, for each run
  key,        \* what Stripe holds under the key: run, first answer and time
  payments    \* the PaymentIntents of a run: how many, and of the last one
              \* its status and its time

vars == <<clock, runs, posts, key, payments>>

Callers == {"charge"} \cup Probes

\* Stripe's statuses by what they mean to the adapter; "rejected" is an error
\* that is neither a lost response nor a refusal to answer.
IntentStatus == {"succeeded", "processing", "canceled"}
Answers == IntentStatus \cup {"rejected"}

\* 23 hours and whatever a request takes are within the 24 Stripe promises.
ASSUME StripeAssumption ==
  /\ {MaxReplayAge, MaxDelay, Retention, MaxClock} \subseteq Nat
  /\ MaxReplayAge > 0
  /\ MaxReplayAge + MaxDelay <= Retention
  /\ None \notin Runs \cup Answers
  /\ "charge" \notin Probes

NoPost == [pc |-> "idle", until |-> 0, answer |-> None]
NoKey == [run |-> None, status |-> None, at |-> 0]
NoPayment == [made |-> 0, status |-> None, at |-> 0]

Init ==
  /\ clock = 0
  /\ runs = [r \in Runs |-> [status |-> "new", created |-> 0]]
  /\ posts = [r \in Runs |-> [c \in Callers |-> NoPost]]
  /\ key = NoKey
  /\ payments = [r \in Runs |-> NoPayment]

\* The adapter sends a POST for r, which arrives within MaxDelay or never.
Send(r, c) ==
  posts' = [posts EXCEPT ![r][c] = [pc |-> "open", until |-> clock + MaxDelay,
                                    answer |-> None]]

\* The caller stops waiting.  A request without an answer may still arrive.
Hangup(r, c) ==
  posts' = [posts EXCEPT ![r][c] =
              IF @.answer = None THEN [@ EXCEPT !.pc = "lost"] ELSE NoPost]

SetStatus(r, status) == runs' = [runs EXCEPT ![r].status = status]

-----------------------------------------------------------------------------
(* The charge                                                              *)

CreateRun(r) ==
  /\ runs[r].status = "new"
  /\ runs' = [runs EXCEPT ![r] = [status |-> "created", created |-> clock]]
  /\ UNCHANGED <<clock, posts, key, payments>>

\* The run is claimed and its tool calls charge.  Bad arguments never leave.
Charge(r) ==
  /\ runs[r].status = "created"
  /\ \/ SetStatus(r, "executing") /\ Send(r, "charge")
     \/ SetStatus(r, "failed") /\ UNCHANGED posts
  /\ UNCHANGED <<clock, key, payments>>

\* Mutant of Outcome: a payment that is under way counts.
OutcomeHopeful(answer) ==
  CASE answer \in {"succeeded", "processing"} -> "completed"
    [] answer \in {"canceled", "rejected"} -> "failed"
    [] OTHER -> "unknown"

\* What becomes of a run whose charge was answered so.
Outcome(answer) ==
  CASE answer = "succeeded" -> "completed"
    [] answer \in {"canceled", "rejected"} -> "failed"
    [] OTHER -> "unknown"

\* charge returns or raises, and the worker reports while it owns the run.
\* Without an answer, or with one it cannot verify, it is IndeterminateOutcome.
Charged(r) ==
  LET answer == posts[r]["charge"].answer
  IN  /\ posts[r]["charge"].pc = "open"
      /\ IF runs[r].status = "executing"
         THEN SetStatus(r, Outcome(answer)) \/ SetStatus(r, "unknown")
         ELSE UNCHANGED runs
      /\ Hangup(r, "charge")
      /\ UNCHANGED <<clock, key, payments>>

\* The worker dies.
Crash(r) ==
  /\ posts[r]["charge"].pc = "open"
  /\ Hangup(r, "charge")
  /\ UNCHANGED <<clock, runs, key, payments>>

\* The lease runs out, whether or not the worker is still there.
GiveUp(r) ==
  /\ runs[r].status = "executing"
  /\ SetStatus(r, "unknown")
  /\ UNCHANGED <<clock, posts, key, payments>>

-----------------------------------------------------------------------------
(* The lookup                                                              *)

\* Mutant of Inspect: a run of any age.
InspectOld(r, p) ==
  /\ runs[r].status = "unknown"
  /\ posts[r][p].pc # "open"
  /\ Send(r, p)
  /\ UNCHANGED <<clock, runs, key, payments>>

\* inspect replays the POST of a run that is not too old.
Inspect(r, p) ==
  /\ runs[r].status = "unknown"
  /\ posts[r][p].pc # "open"
  /\ clock - runs[r].created < MaxReplayAge
  /\ Send(r, p)
  /\ UNCHANGED <<clock, runs, key, payments>>

\* Mutant of Inspected: an error of the lookup means there is no payment.
InspectedByError(r, p) ==
  LET answer == posts[r][p].answer
  IN  /\ posts[r][p].pc = "open"
      /\ IF runs[r].status = "unknown"
         THEN SetStatus(r, IF answer = None THEN "failed" ELSE Outcome(answer))
         ELSE UNCHANGED runs
      /\ Hangup(r, p)
      /\ UNCHANGED <<clock, key, payments>>

\* A definite status settles the run if it is still unknown; a pending one or
\* any error leaves it alone.
Inspected(r, p) ==
  LET answer == posts[r][p].answer
  IN  /\ posts[r][p].pc = "open"
      /\ IF runs[r].status = "unknown" /\ answer # "rejected"
         THEN SetStatus(r, Outcome(answer)) \/ UNCHANGED runs
         ELSE UNCHANGED runs
      /\ Hangup(r, p)
      /\ UNCHANGED <<clock, key, payments>>

-----------------------------------------------------------------------------
(* Stripe                                                                  *)

\* A request arrives and its answer gets back, or not.
Answered(r, c, answer) ==
  \E got \in {answer, None} : posts' = [posts EXCEPT ![r][c].answer = got]

Arriving(r, c) ==
  /\ posts[r][c].pc \in {"open", "lost"}
  /\ posts[r][c].answer = None
  /\ clock <= posts[r][c].until

\* Under a fresh key a PaymentIntent is made and stored with its first status.
Pay(r, c, status) ==
  /\ Arriving(r, c)
  /\ key = NoKey
  /\ key' = [run |-> r, status |-> status, at |-> clock]
  /\ payments' = [payments EXCEPT ![r] =
       [made |-> payments[r].made + 1, status |-> status, at |-> clock]]
  /\ Answered(r, c, status)
  /\ UNCHANGED <<clock, runs>>

\* The same request again has the same answer, whatever became of the
\* payment; another run's parameters under this key are an error.
Replay(r, c) ==
  /\ Arriving(r, c)
  /\ key # NoKey
  /\ Answered(r, c, IF key.run = r THEN key.status ELSE "rejected")
  /\ UNCHANGED <<clock, runs, key, payments>>

\* Stripe refuses the request itself and makes nothing.
Reject(r, c) ==
  /\ Arriving(r, c)
  /\ key = NoKey
  /\ Answered(r, c, "rejected")
  /\ UNCHANGED <<clock, runs, key, payments>>

Settle(r) ==
  /\ payments[r].status = "processing"
  /\ \E status \in {"succeeded", "canceled"} :
       payments' = [payments EXCEPT ![r].status = status]
  /\ UNCHANGED <<clock, runs, posts, key>>

Forget ==
  /\ key # NoKey
  /\ clock >= key.at + Retention
  /\ key' = NoKey
  /\ UNCHANGED <<clock, runs, posts, payments>>

Tick ==
  /\ clock < MaxClock
  /\ clock' = clock + 1
  /\ UNCHANGED <<runs, posts, key, payments>>

Next ==
  \/ \E r \in Runs :
       \/ CreateRun(r) \/ Charge(r) \/ Charged(r) \/ Crash(r) \/ GiveUp(r)
       \/ \E p \in Probes : Inspect(r, p) \/ Inspected(r, p)
       \/ \E c \in Callers : \/ \E status \in IntentStatus : Pay(r, c, status)
                             \/ Replay(r, c) \/ Reject(r, c)
       \/ Settle(r)
  \/ Forget \/ Tick

Spec == Init /\ [][Next]_vars

-----------------------------------------------------------------------------
(* Properties                                                              *)

\* However a charge and the lookups that replay it overlap, are lost or arrive
\* late, a run has one PaymentIntent at most.
SinglePayment == \A r \in Runs : payments[r].made <= 1

\* A run is completed only when its own payment succeeded, not another run's
\* under the same key and not one that is still pending.
CompletedIsPaid ==
  \A r \in Runs :
    runs[r].status = "completed" => payments[r].status = "succeeded"

\* A failed run has no payment and gets none: a replay takes the key, so the
\* request of a worker that lost its lease comes too late to pay.
FailedIsUnpaid ==
  \A r \in Runs :
    runs[r].status = "failed" => payments[r].status \in {None, "canceled"}
=============================================================================
