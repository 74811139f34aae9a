------------------------- MODULE StripeSandboxProofs -------------------------
(***************************************************************************)
(* Proofs about StripeSandbox, for any runs, probes and clock, and for any *)
(* replay age, delay and retention that StripeAssumption relates.          *)
(***************************************************************************)
EXTENDS StripeSandbox, TLAPS

\* The types the proofs need.
Status == {"new", "created", "executing", "unknown", "completed", "failed"}

RunRow == [status : Status, created : Nat]

Post == [pc : {"idle", "open", "lost"}, until : Nat,
         answer : Answers \cup {None}]

Key == [run : Runs \cup {None}, status : IntentStatus \cup {None}, at : Nat]

Payment == [made : Nat, status : IntentStatus \cup {None}, at : Nat]

Types ==
  /\ clock \in Nat
  /\ runs \in [Runs -> RunRow]
  /\ posts \in [Runs -> [Callers -> Post]]
  /\ key \in Key
  /\ payments \in [Runs -> Payment]

Asked(r) == runs[r].status \notin {"new", "created"}

\* The payment of r is recent, and then Stripe still holds its key, or old.
KeyHeld(r) ==
  payments[r].made > 0 =>
    /\ payments[r].made = 1
    /\ Asked(r)
    /\ runs[r].created <= payments[r].at
    /\ \/ key.run = r /\ key.at = payments[r].at
       \/ payments[r].at + Retention <= clock

\* A request is sent for a run that was claimed, and comes in time for the key
\* of the payment that was made meanwhile.
InTime(r) ==
  /\ runs[r].created <= clock
  /\ \A c \in Callers : posts[r][c].pc # "idle" =>
       /\ Asked(r)
       /\ posts[r][c].until <= clock + MaxDelay
       /\ payments[r].made > 0 => posts[r][c].until < payments[r].at + Retention

Inv == Types /\ \A r \in Runs : KeyHeld(r) /\ InTime(r)

LEMMA InitInv == Init => Inv
BY StripeAssumption
   DEF Init, Inv, Types, KeyHeld, InTime, NoPost, NoKey, NoPayment, Callers,
       Answers, IntentStatus, Status, RunRow, Post, Key, Payment

LEMMA StatusTyped ==
  ASSUME Types, NEW r \in Runs, NEW status \in Status, SetStatus(r, status)
  PROVE  runs' \in [Runs -> RunRow]
<1>1. [runs[r] EXCEPT !.status = status] \in RunRow
  BY DEF Types, RunRow
<1> QED
  BY <1>1 DEF Types, SetStatus

LEMMA PostTyped ==
  ASSUME Types, NEW r \in Runs, NEW c \in Callers, NEW post \in Post,
         posts' = [posts EXCEPT ![r][c] = post]
  PROVE  posts' \in [Runs -> [Callers -> Post]]
<1>1. [posts[r] EXCEPT ![c] = post] \in [Callers -> Post]
  BY DEF Types
<1> QED
  BY <1>1 DEF Types

LEMMA SendTyped ==
  ASSUME Types, NEW r \in Runs, NEW c \in Callers, Send(r, c)
  PROVE  posts' \in [Runs -> [Callers -> Post]]
<1>1. [pc |-> "open", until |-> clock + MaxDelay, answer |-> None] \in Post
  BY StripeAssumption DEF Types, Post
<1> QED
  BY <1>1, PostTyped DEF Send

LEMMA HangupTyped ==
  ASSUME Types, NEW r \in Runs, NEW c \in Callers, Hangup(r, c)
  PROVE  posts' \in [Runs -> [Callers -> Post]]
<1> DEFINE post == IF posts[r][c].answer = None
                   THEN [posts[r][c] EXCEPT !.pc = "lost"] ELSE NoPost
<1>1. posts[r][c] \in Post
  BY DEF Types
<1>2. post \in Post
  BY <1>1 DEF Post, NoPost
<1>3. posts' = [posts EXCEPT ![r][c] = post]
  BY DEF Hangup
<1> QED
  BY <1>2, <1>3, PostTyped

LEMMA AnsweredTyped ==
  ASSUME Types, NEW r \in Runs, NEW c \in Callers, NEW answer \in Answers,
         Answered(r, c, answer)
  PROVE  posts' \in [Runs -> [Callers -> Post]]
<1>1. PICK got \in {answer, None} :
        posts' = [posts EXCEPT ![r][c].answer = got]
  BY DEF Answered
<1> DEFINE post == [posts[r][c] EXCEPT !.answer = got]
<1>2. posts[r][c] \in Post
  BY DEF Types
<1>3. post \in Post
  BY <1>2 DEF Post
<1>4. posts' = [posts EXCEPT ![r][c] = post]
  BY <1>1
<1> QED
  BY <1>3, <1>4, PostTyped

LEMMA NextTypes == Types /\ [Next]_vars => Types'
<1> SUFFICES ASSUME Types, [Next]_vars
             PROVE  Types'
  OBVIOUS
<1>1. ASSUME NEW r \in Runs, CreateRun(r) PROVE Types'
  <2>1. [status |-> "created", created |-> clock] \in RunRow
    BY DEF Types, RunRow, Status
  <2> QED
    BY <1>1, <2>1 DEF CreateRun, Types
<1>2. ASSUME NEW r \in Runs, Charge(r) PROVE Types'
  <2>1. runs' \in [Runs -> RunRow]
    BY <1>2, StatusTyped DEF Charge, Status
  <2>2. posts' \in [Runs -> [Callers -> Post]]
    BY <1>2, SendTyped DEF Charge, Callers, Types
  <2> QED
    BY <1>2, <2>1, <2>2 DEF Charge, Types
<1>3. ASSUME NEW r \in Runs, Charged(r) PROVE Types'
  <2>1. runs' \in [Runs -> RunRow]
    BY <1>3, StatusTyped DEF Charged, Outcome, Status, Types
  <2> QED
    BY <1>3, <2>1, HangupTyped DEF Charged, Callers, Types
<1>4. ASSUME NEW r \in Runs, Crash(r) PROVE Types'
  BY <1>4, HangupTyped DEF Crash, Callers, Types
<1>5. ASSUME NEW r \in Runs, GiveUp(r) PROVE Types'
  <2>1. runs' \in [Runs -> RunRow]
    BY <1>5, StatusTyped DEF GiveUp, Status
  <2> QED
    BY <1>5, <2>1 DEF GiveUp, Types
<1>6. ASSUME NEW r \in Runs, NEW p \in Probes, Inspect(r, p) PROVE Types'
  BY <1>6, SendTyped DEF Inspect, Callers, Types
<1>7. ASSUME NEW r \in Runs, NEW p \in Probes, Inspected(r, p) PROVE Types'
  <2>1. runs' \in [Runs -> RunRow]
    BY <1>7, StatusTyped DEF Inspected, Outcome, Status, Types
  <2> QED
    BY <1>7, <2>1, HangupTyped DEF Inspected, Callers, Types
<1>8. ASSUME NEW r \in Runs, NEW c \in Callers, NEW status \in IntentStatus,
             Pay(r, c, status)
      PROVE  Types'
  <2>1. [made |-> payments[r].made + 1, status |-> status, at |-> clock]
         \in Payment
    BY DEF Types, Payment
  <2>2. [run |-> r, status |-> status, at |-> clock] \in Key
    BY DEF Types, Key
  <2>3. posts' \in [Runs -> [Callers -> Post]]
    BY <1>8, AnsweredTyped DEF Pay, Answers
  <2> QED
    BY <1>8, <2>1, <2>2, <2>3 DEF Pay, Types
<1>9. ASSUME NEW r \in Runs, NEW c \in Callers, Replay(r, c) PROVE Types'
  <2> DEFINE answer == IF key.run = r THEN key.status ELSE "rejected"
  <2>1. CASE answer \in Answers
    BY <1>9, <2>1, AnsweredTyped DEF Replay, Types
  <2>2. CASE answer = None
    <3>1. posts' = [posts EXCEPT ![r][c].answer = None]
      BY <1>9, <2>2 DEF Replay, Answered
    <3>2. Answered(r, c, "rejected")
      BY <3>1 DEF Answered
    <3> QED
      BY <1>9, <3>2, AnsweredTyped DEF Replay, Types, Answers
  <2> QED
    BY <2>1, <2>2 DEF Types, Key, Answers
<1>10. ASSUME NEW r \in Runs, NEW c \in Callers, Reject(r, c) PROVE Types'
  BY <1>10, AnsweredTyped DEF Reject, Answers, Types
<1>11. ASSUME NEW r \in Runs, Settle(r) PROVE Types'
  <2>1. PICK status \in {"succeeded", "canceled"} :
          payments' = [payments EXCEPT ![r].status = status]
    BY <1>11 DEF Settle
  <2>2. [payments[r] EXCEPT !.status = status] \in Payment
    BY DEF Types, Payment, IntentStatus
  <2> QED
    BY <1>11, <2>1, <2>2 DEF Settle, Types
<1>12. CASE Forget
  <2>1. NoKey \in Key
    BY DEF Key, NoKey
  <2> QED
    BY <1>12, <2>1 DEF Forget, Types
<1>13. CASE Tick
  BY <1>13 DEF Tick, Types
<1>14. CASE UNCHANGED vars
  BY <1>14 DEF vars, Types
<1> QED
  BY <1>1, <1>2, <1>3, <1>4, <1>5, <1>6, <1>7, <1>8, <1>9, <1>10, <1>11,
     <1>12, <1>13, <1>14 DEF Next

-----------------------------------------------------------------------------
(* SinglePayment                                                           *)

\* No request of q is sent in this step.
Quiet(q) ==
  \A d \in Callers : posts'[q][d].pc # "idle" =>
    /\ posts[q][d].pc # "idle"
    /\ posts'[q][d].until = posts[q][d].until

LEMMA HangupQuiet ==
  ASSUME Types, NEW q \in Runs, NEW r \in Runs, NEW c \in Callers,
         posts[r][c].pc # "idle", Hangup(r, c)
  PROVE  Quiet(q)
BY DEF Types, Hangup, NoPost, Quiet, Post

LEMMA AnsweredQuiet ==
  ASSUME Types, NEW q \in Runs, NEW r \in Runs, NEW c \in Callers,
         NEW answer, Answered(r, c, answer)
  PROVE  Quiet(q)
BY DEF Types, Answered, Quiet, Post

\* What a status change leaves alone, seen from q.
LEMMA StatusLocal ==
  ASSUME Types, NEW q \in Runs, NEW r \in Runs, NEW status,
         SetStatus(r, status), Asked(r), status \notin {"new", "created"}
  PROVE  runs'[q].created = runs[q].created /\ (Asked(q) => Asked(q)')
BY DEF Types, SetStatus, Asked, RunRow

LEMMA QuietStep ==
  ASSUME NEW q \in Runs, KeyHeld(q), InTime(q), Quiet(q),
         Asked(q) => Asked(q)', runs'[q].created = runs[q].created,
         payments'[q].made = payments[q].made,
         payments'[q].at = payments[q].at, UNCHANGED <<clock, key>>
  PROVE  KeyHeld(q)' /\ InTime(q)'
BY DEF KeyHeld, InTime, Quiet

LEMMA SendStep ==
  ASSUME Types, NEW q \in Runs, KeyHeld(q), InTime(q), NEW r \in Runs,
         NEW c \in Callers, Send(r, c),
         r = q => Asked(q)',
         r = q /\ payments[q].made > 0 =>
           clock + MaxDelay < payments[q].at + Retention,
         Asked(q) => Asked(q)', runs'[q].created = runs[q].created,
         UNCHANGED <<clock, key, payments>>
  PROVE  KeyHeld(q)' /\ InTime(q)'
<1>1. clock + MaxDelay \in Nat
  BY StripeAssumption DEF Types
<1>2. ASSUME NEW d \in Callers, <<q, d>> # <<r, c>>
      PROVE  posts'[q][d] = posts[q][d]
  BY <1>2 DEF Send, Types
<1>3. CASE r = q
  <2>1. posts'[q][c].until = clock + MaxDelay
    BY <1>3 DEF Send, Types
  <2> QED
    BY <1>1, <1>2, <1>3, <2>1 DEF KeyHeld, InTime
<1>4. CASE r # q
  BY <1>2, <1>4 DEF KeyHeld, InTime
<1> QED
  BY <1>3, <1>4

\* A request that arrives when Stripe does not hold the key for its run finds
\* no payment of the run.
LEMMA ArrivesFresh ==
  ASSUME Types, NEW q \in Runs, KeyHeld(q), InTime(q), NEW c \in Callers,
         Arriving(q, c), key.run # q
  PROVE  payments[q].made = 0 /\ Asked(q)
<1>1. /\ clock \in Nat /\ Retention \in Nat /\ posts[q][c].until \in Nat
      /\ payments[q].made \in Nat /\ payments[q].at \in Nat
  BY StripeAssumption DEF Types, Payment, Post
<1> QED
  BY <1>1 DEF KeyHeld, InTime, Arriving

LEMMA PayStep ==
  ASSUME Types, NEW q \in Runs, KeyHeld(q), InTime(q), NEW r \in Runs,
         NEW c \in Callers, NEW status, Pay(r, c, status)
  PROVE  KeyHeld(q)' /\ InTime(q)'
<1>1. /\ clock \in Nat /\ MaxDelay \in Nat /\ Retention \in Nat
      /\ MaxDelay < Retention
      /\ payments[q].made \in Nat /\ payments[q].at \in Nat
      /\ \A d \in Callers : posts[q][d].until \in Nat
  BY StripeAssumption DEF Types, Payment, Post
<1>2. Quiet(q)
  BY AnsweredQuiet DEF Pay
<1>3. /\ key.run \notin Runs /\ UNCHANGED <<clock, runs>>
      /\ key'.run = r /\ key'.at = clock
  BY StripeAssumption DEF Pay, NoKey
<1>4. CASE q = r
  <2>1. payments[q].made = 0 /\ Asked(q)
    BY <1>3, <1>4, ArrivesFresh DEF Pay
  <2>2. payments'[q].made = 1 /\ payments'[q].at = clock
    BY <1>4, <2>1 DEF Pay, Types
  <2> QED
    BY <1>1, <1>2, <1>3, <1>4, <2>1, <2>2
       DEF KeyHeld, InTime, Quiet, Asked
<1>5. CASE q # r
  <2>1. payments'[q] = payments[q]
    BY <1>5 DEF Pay, Types
  <2> QED
    BY <1>1, <1>2, <1>3, <2>1 DEF KeyHeld, InTime, Quiet, Asked
<1> QED
  BY <1>4, <1>5

LEMMA NextInv == Inv /\ [Next]_vars => Inv'
<1> SUFFICES ASSUME Inv, [Next]_vars
             PROVE  Inv'
  OBVIOUS
<1>1. Types /\ Types'
  BY NextTypes DEF Inv
<1> SUFFICES ASSUME NEW q \in Runs
             PROVE  KeyHeld(q)' /\ InTime(q)'
  BY <1>1 DEF Inv
<1>2. KeyHeld(q) /\ InTime(q)
  BY DEF Inv
<1>3. /\ clock \in Nat /\ MaxDelay \in Nat /\ Retention \in Nat
      /\ MaxReplayAge \in Nat /\ MaxReplayAge + MaxDelay <= Retention
      /\ payments[q].made \in Nat /\ payments[q].at \in Nat
      /\ runs[q].created \in Nat /\ key.at \in Nat
      /\ \A d \in Callers : posts[q][d].until \in Nat
  BY <1>1, StripeAssumption DEF Types, Payment, RunRow, Post, Key
<1>4. ASSUME UNCHANGED posts PROVE Quiet(q)
  BY <1>4 DEF Quiet
<1>5. ASSUME NEW r \in Runs, CreateRun(r) PROVE KeyHeld(q)' /\ InTime(q)'
  <2>1. CASE r = q
    <3>1. runs'[q].created = clock /\ ~Asked(q)
      BY <1>1, <1>5, <2>1 DEF CreateRun, Types, Asked
    <3> QED
      BY <1>2, <1>3, <1>5, <3>1 DEF CreateRun, KeyHeld, InTime
  <2>2. CASE r # q
    <3>1. runs'[q] = runs[q]
      BY <1>1, <1>5, <2>2 DEF CreateRun, Types
    <3> QED
      BY <1>2, <1>5, <3>1 DEF CreateRun, KeyHeld, InTime, Asked
  <2> QED
    BY <2>1, <2>2
<1>6. ASSUME NEW r \in Runs, Charge(r) PROVE KeyHeld(q)' /\ InTime(q)'
  <2>1. /\ runs'[q].created = runs[q].created
        /\ Asked(q) => Asked(q)'
        /\ r = q => Asked(q)' /\ ~Asked(q)
    BY <1>1, <1>6 DEF Charge, SetStatus, Asked, Types, RunRow
  <2>2. r = q => ~(payments[q].made > 0)
    BY <1>2, <2>1 DEF KeyHeld
  <2>3. CASE Send(r, "charge")
    BY <1>1, <1>2, <1>6, <2>1, <2>2, <2>3, SendStep DEF Charge, Callers
  <2>4. CASE UNCHANGED posts
    BY <1>2, <1>4, <1>6, <2>1, <2>4, QuietStep DEF Charge
  <2> QED
    BY <1>6, <2>3, <2>4 DEF Charge
<1>7. ASSUME NEW r \in Runs, Charged(r) PROVE KeyHeld(q)' /\ InTime(q)'
  <2>1. Quiet(q)
    BY <1>1, <1>7, HangupQuiet DEF Charged, Callers
  <2>2. runs'[q].created = runs[q].created /\ (Asked(q) => Asked(q)')
    BY <1>1, <1>7, StatusLocal DEF Charged, Outcome, Asked
  <2> QED
    BY <1>2, <1>7, <2>1, <2>2, QuietStep DEF Charged
<1>8. ASSUME NEW r \in Runs, Crash(r) PROVE KeyHeld(q)' /\ InTime(q)'
  <2>1. Quiet(q)
    BY <1>1, <1>8, HangupQuiet DEF Crash, Callers
  <2> QED
    BY <1>2, <1>8, <2>1, QuietStep DEF Crash, Asked
<1>9. ASSUME NEW r \in Runs, GiveUp(r) PROVE KeyHeld(q)' /\ InTime(q)'
  <2>1. runs'[q].created = runs[q].created /\ (Asked(q) => Asked(q)')
    BY <1>1, <1>9, StatusLocal DEF GiveUp, Asked
  <2> QED
    BY <1>2, <1>4, <1>9, <2>1, QuietStep DEF GiveUp
<1>10. ASSUME NEW r \in Runs, NEW p \in Probes, Inspect(r, p)
       PROVE  KeyHeld(q)' /\ InTime(q)'
  <2>1. r = q => Asked(q) /\ clock + MaxDelay < runs[q].created + Retention
    BY <1>3, <1>10 DEF Inspect, Asked
  <2>2. r = q /\ payments[q].made > 0 =>
          clock + MaxDelay < payments[q].at + Retention
    BY <1>2, <1>3, <2>1 DEF KeyHeld
  <2> QED
    BY <1>1, <1>2, <1>10, <2>1, <2>2, SendStep DEF Inspect, Callers, Asked
<1>11. ASSUME NEW r \in Runs, NEW p \in Probes, Inspected(r, p)
       PROVE  KeyHeld(q)' /\ InTime(q)'
  <2>1. Quiet(q)
    BY <1>1, <1>11, HangupQuiet DEF Inspected, Callers
  <2>2. runs'[q].created = runs[q].created /\ (Asked(q) => Asked(q)')
    BY <1>1, <1>11, StatusLocal DEF Inspected, Outcome, Asked
  <2> QED
    BY <1>2, <1>11, <2>1, <2>2, QuietStep DEF Inspected
<1>12. ASSUME NEW r \in Runs, NEW c \in Callers, NEW status \in IntentStatus,
              Pay(r, c, status)
       PROVE  KeyHeld(q)' /\ InTime(q)'
  BY <1>1, <1>2, <1>12, PayStep
<1>13. ASSUME NEW r \in Runs, NEW c \in Callers, Replay(r, c) \/ Reject(r, c)
       PROVE  KeyHeld(q)' /\ InTime(q)'
  <2>1. Quiet(q)
    BY <1>1, <1>13, AnsweredQuiet DEF Replay, Reject
  <2> QED
    BY <1>2, <1>13, <2>1, QuietStep DEF Replay, Reject, Asked
<1>14. ASSUME NEW r \in Runs, Settle(r) PROVE KeyHeld(q)' /\ InTime(q)'
  <2>1. payments'[q].made = payments[q].made /\ payments'[q].at = payments[q].at
    BY <1>1, <1>14 DEF Settle, Types, Payment
  <2> QED
    BY <1>2, <1>4, <1>14, <2>1, QuietStep DEF Settle, Asked
<1>15. CASE Forget
  BY <1>2, <1>3, <1>15 DEF Forget, KeyHeld, InTime, Asked
<1>16. CASE Tick
  BY <1>2, <1>3, <1>16 DEF Tick, KeyHeld, InTime, Asked
<1>17. CASE UNCHANGED vars
  BY <1>2, <1>17 DEF vars, KeyHeld, InTime, Asked
<1> QED
  BY <1>5, <1>6, <1>7, <1>8, <1>9, <1>10, <1>11, <1>12, <1>13, <1>14, <1>15,
     <1>16, <1>17 DEF Next

\* However the requests of a charge and of its lookups overlap, are lost or
\* late: the replay age and the delay together are within Stripe's retention,
\* so a run has at most one PaymentIntent.
THEOREM OnePaymentPerRun == Spec => []SinglePayment
<1>1. ASSUME Inv PROVE SinglePayment
  <2> SUFFICES ASSUME NEW r \in Runs PROVE payments[r].made <= 1
    BY DEF SinglePayment
  <2>1. payments[r].made \in Nat
    BY <1>1 DEF Inv, Types, Payment
  <2> QED
    BY <1>1, <2>1 DEF Inv, KeyHeld
<1> QED
  BY <1>1, InitInv, NextInv, PTL DEF Spec
-----------------------------------------------------------------------------
(* CompletedIsPaid and FailedIsUnpaid                                      *)

Final == {"succeeded", "canceled"}

\* A final status that Stripe stores or answers is that of the payment.
Told(r) ==
  /\ payments[r].made = 0 <=> payments[r].status = None
  /\ key.run = r => /\ payments[r].made > 0
                    /\ key.status \in Final => payments[r].status = key.status
  /\ \A c \in Callers :
       posts[r][c].answer \in Final => payments[r].status = posts[r][c].answer

\* The status of a run against its payment, with what a charge has been told
\* so far.
Settled(r) ==
  /\ runs[r].status = "completed" => payments[r].status = "succeeded"
  /\ runs[r].status = "failed" =>
       \/ payments[r].status = "canceled"
       \/ /\ payments[r].status = None
          /\ \A c \in Callers : posts[r][c].pc = "idle"
  /\ runs[r].status \in {"new", "created", "executing"} =>
       \A p \in Probes : posts[r][p].pc = "idle"
  /\ runs[r].status = "executing" /\ posts[r]["charge"].answer = "rejected" =>
       payments[r].status = None

PaidInv == Inv /\ \A r \in Runs : Told(r) /\ Settled(r)

LEMMA InitPaid == Init => PaidInv
BY InitInv, StripeAssumption
   DEF Init, PaidInv, Told, Settled, NoPost, NoKey, NoPayment, Callers, Final,
       Answers, IntentStatus

\* A step that q has no part in.
LEMMA FrameStep ==
  ASSUME NEW q \in Runs, Told(q), Settled(q),
         posts'[q] = posts[q], payments'[q] = payments[q],
         runs'[q].status = runs[q].status, key'.run = q => key' = key
  PROVE  Told(q)' /\ Settled(q)'
BY DEF Told, Settled

\* The answers and requests of q after a caller hangs up or is answered.
LEMMA HangupEffect ==
  ASSUME Types, NEW q \in Runs, NEW c \in Callers, Hangup(q, c)
  PROVE  /\ \A d \in Callers \ {c} : posts'[q][d] = posts[q][d]
         /\ posts'[q][c].answer = None
         /\ posts[q][c].answer # None => posts'[q][c].pc = "idle"
BY DEF Types, Hangup, NoPost, Post

LEMMA AnsweredEffect ==
  ASSUME Types, NEW q \in Runs, NEW c \in Callers, NEW answer,
         Answered(q, c, answer)
  PROVE  /\ \A d \in Callers \ {c} : posts'[q][d] = posts[q][d]
         /\ posts'[q][c].answer \in {answer, None}
         /\ posts'[q][c].pc = posts[q][c].pc
BY DEF Types, Answered, Post

\* The steps of q itself, one lemma for each side of the system.
LEMMA ChargeSide ==
  ASSUME Types, NEW q \in Runs, KeyHeld(q), InTime(q), Told(q), Settled(q),
         CreateRun(q) \/ Charge(q) \/ Charged(q) \/ Crash(q) \/ GiveUp(q)
  PROVE  Told(q)' /\ Settled(q)'
<1> USE DEF Final
<1>1. /\ "charge" \in Callers /\ Probes \subseteq Callers
      /\ "charge" \notin Probes /\ None \notin Answers
  BY StripeAssumption DEF Callers
<1>2. CASE CreateRun(q)
  <2>1. runs'[q].status = "created"
    BY <1>2 DEF CreateRun, Types
  <2> QED
    BY <1>2, <2>1 DEF CreateRun, Told, Settled
<1>3. CASE Charge(q)
  <2>1. /\ payments[q].status = None
        /\ \A c \in Callers : posts[q][c].pc = "idle"
        /\ UNCHANGED <<key, payments>>
    <3>1. ~Asked(q)
      BY <1>3 DEF Charge, Asked
    <3>2. payments[q].made \in Nat
      BY DEF Types, Payment
    <3> QED
      BY <1>3, <3>1, <3>2 DEF Charge, KeyHeld, InTime, Told
  <2>2. CASE SetStatus(q, "executing") /\ Send(q, "charge")
    <3>1. /\ runs'[q].status = "executing"
          /\ posts'[q]["charge"].answer = None
          /\ \A c \in Callers \ {"charge"} : posts'[q][c] = posts[q][c]
      BY <1>1, <2>2 DEF SetStatus, Send, Types, RunRow
    <3> QED
      BY <1>1, <2>1, <3>1 DEF Told, Settled, Answers, IntentStatus
  <2>3. CASE SetStatus(q, "failed") /\ UNCHANGED posts
    <3>1. runs'[q].status = "failed"
      BY <2>3 DEF SetStatus, Types, RunRow
    <3> QED
      BY <2>1, <2>3, <3>1 DEF Told, Settled
  <2> QED
    BY <1>3, <2>2, <2>3 DEF Charge
<1>4. CASE Charged(q)
  <2> DEFINE answer == posts[q]["charge"].answer
  <2>1. /\ \A d \in Callers \ {"charge"} : posts'[q][d] = posts[q][d]
        /\ posts'[q]["charge"].answer = None
        /\ answer # None => posts'[q]["charge"].pc = "idle"
        /\ UNCHANGED <<key, payments>>
    BY <1>1, <1>4, HangupEffect DEF Charged
  <2>2. Told(q)'
    BY <1>1, <2>1 DEF Told, Answers, IntentStatus
  <2> SUFFICES Settled(q)'
    BY <2>2
  <2>3. CASE runs[q].status = "executing"
    <3>1. runs'[q].status \in {Outcome(answer), "unknown"}
      BY <1>4, <2>3 DEF Charged, SetStatus, Types, RunRow
    <3>2. CASE runs'[q].status = "completed"
      <4>1. answer = "succeeded"
        BY <3>1, <3>2 DEF Outcome
      <4> QED
        BY <1>1, <2>1, <3>2, <4>1 DEF Told, Settled
    <3>3. CASE runs'[q].status = "failed"
      <4>1. answer \in {"canceled", "rejected"}
        BY <3>1, <3>3 DEF Outcome
      <4>2. \A c \in Callers : posts'[q][c].pc = "idle"
        <5>1. answer # None
          BY <1>1, <4>1 DEF Answers, IntentStatus
        <5> QED
          BY <1>1, <2>1, <2>3, <5>1 DEF Settled, Callers
      <4> QED
        BY <1>1, <2>1, <2>3, <3>3, <4>1, <4>2 DEF Told, Settled
    <3>4. CASE runs'[q].status = "unknown"
      BY <3>4 DEF Settled
    <3> QED
      BY <3>1, <3>2, <3>3, <3>4 DEF Outcome
  <2>4. CASE runs[q].status # "executing"
    BY <1>1, <1>4, <2>1, <2>4 DEF Charged, Settled
  <2> QED
    BY <2>3, <2>4
<1>5. CASE Crash(q)
  <2>1. /\ \A d \in Callers \ {"charge"} : posts'[q][d] = posts[q][d]
        /\ posts'[q]["charge"].answer = None
        /\ posts[q]["charge"].pc # "idle"
        /\ UNCHANGED <<runs, key, payments>>
    BY <1>1, <1>5, HangupEffect DEF Crash
  <2>2. Told(q)'
    BY <1>1, <2>1 DEF Told, Answers, IntentStatus
  <2>3. Settled(q)'
    BY <1>1, <2>1 DEF Settled, Answers
  <2> QED
    BY <2>2, <2>3
<1>6. CASE GiveUp(q)
  <2>1. runs'[q].status = "unknown"
    BY <1>6 DEF GiveUp, SetStatus, Types, RunRow
  <2> QED
    BY <1>6, <2>1 DEF GiveUp, Told, Settled
<1> QED
  BY <1>2, <1>3, <1>4, <1>5, <1>6

LEMMA LookupSide ==
  ASSUME Types, NEW q \in Runs, Told(q), Settled(q), NEW p \in Probes,
         Inspect(q, p) \/ Inspected(q, p)
  PROVE  Told(q)' /\ Settled(q)'
<1> USE DEF Final
<1>1. p \in Callers /\ p # "charge" /\ None \notin Answers
  BY StripeAssumption DEF Callers
<1>2. CASE Inspect(q, p)
  <2>1. /\ \A d \in Callers \ {p} : posts'[q][d] = posts[q][d]
        /\ posts'[q][p].answer = None
        /\ runs'[q].status = "unknown"
        /\ UNCHANGED <<key, payments>>
    BY <1>1, <1>2 DEF Inspect, Send, Types
  <2> QED
    BY <1>1, <2>1 DEF Told, Settled, Answers, IntentStatus
<1>3. CASE Inspected(q, p)
  <2> DEFINE answer == posts[q][p].answer
  <2>1. /\ \A d \in Callers \ {p} : posts'[q][d] = posts[q][d]
        /\ posts'[q][p].answer = None
        /\ posts[q][p].pc # "idle"
        /\ UNCHANGED <<key, payments>>
    BY <1>1, <1>3, HangupEffect DEF Inspected
  <2>2. Told(q)'
    BY <1>1, <2>1 DEF Told, Answers, IntentStatus
  <2> SUFFICES Settled(q)'
    BY <2>2
  <2>3. CASE runs' = runs
    BY <1>1, <2>1, <2>3 DEF Settled, Callers
  <2>4. CASE answer # "rejected" /\ SetStatus(q, Outcome(answer))
    <3>1. runs'[q].status = Outcome(answer)
      BY <2>4 DEF SetStatus, Types, RunRow
    <3>2. \/ answer = "succeeded" /\ runs'[q].status = "completed"
          \/ answer = "canceled" /\ runs'[q].status = "failed"
          \/ runs'[q].status = "unknown"
      BY <2>4, <3>1 DEF Outcome
    <3> QED
      BY <1>1, <2>1, <2>2, <3>2 DEF Told, Settled
  <2> QED
    BY <1>3, <2>3, <2>4 DEF Inspected
<1> QED
  BY <1>2, <1>3

LEMMA StripeSide ==
  ASSUME Types, NEW q \in Runs, KeyHeld(q), InTime(q), Told(q), Settled(q),
         NEW c \in Callers,
         \/ \E status \in IntentStatus : Pay(q, c, status)
         \/ Replay(q, c)
         \/ Reject(q, c)
  PROVE  Told(q)' /\ Settled(q)'
<1> USE DEF Final
<1>1. /\ "charge" \in Callers /\ Probes \subseteq Callers
      /\ "charge" \notin Probes
      /\ None \notin Answers /\ None \notin Runs
      /\ c = "charge" \/ c \in Probes
  BY StripeAssumption DEF Callers
<1>2. /\ Arriving(q, c) /\ UNCHANGED runs
      /\ posts[q][c].pc # "idle" /\ posts[q][c].answer = None
  BY DEF Pay, Replay, Reject, Arriving
<1>3. ASSUME NEW status \in IntentStatus, Pay(q, c, status)
      PROVE  Told(q)' /\ Settled(q)'
  <2>1. payments[q].made = 0 /\ payments[q].status = None
    BY <1>1, <1>2, <1>3, ArrivesFresh DEF Pay, NoKey, Told
  <2>2. /\ payments'[q].made = 1 /\ payments'[q].status = status
        /\ key'.run = q /\ key'.status = status
    BY <1>3, <2>1 DEF Pay, Types
  <2>3. /\ \A d \in Callers \ {c} : posts'[q][d] = posts[q][d]
        /\ posts'[q][c].answer \in {status, None}
        /\ posts'[q][c].pc = posts[q][c].pc
    BY <1>3, AnsweredEffect DEF Pay
  <2>4. \A d \in Callers : posts[q][d].answer \notin Final
    BY <1>1, <2>1 DEF Told, Answers, IntentStatus
  <2>5. Told(q)'
    BY <1>1, <2>2, <2>3, <2>4 DEF Told, Answers, IntentStatus
  <2>6. Settled(q)'
    BY <1>1, <1>2, <2>1, <2>2, <2>3 DEF Settled, Answers, IntentStatus
  <2> QED
    BY <2>5, <2>6
<1>4. ASSUME NEW answer, Answered(q, c, answer), UNCHANGED <<key, payments>>,
             answer \in Final => payments[q].status = answer,
             answer = "rejected" => payments[q].status = None
      PROVE  Told(q)' /\ Settled(q)'
  <2>1. /\ \A d \in Callers \ {c} : posts'[q][d] = posts[q][d]
        /\ posts'[q][c].answer \in {answer, None}
        /\ posts'[q][c].pc = posts[q][c].pc
    BY <1>4, AnsweredEffect
  <2>2. Told(q)'
    BY <1>1, <1>4, <2>1 DEF Told, Answers, IntentStatus
  <2>3. Settled(q)'
    BY <1>1, <1>2, <1>4, <2>1 DEF Settled, Answers
  <2> QED
    BY <2>2, <2>3
<1>5. key.run # q => payments[q].status = None
  BY <1>2, ArrivesFresh DEF Told
<1>6. CASE Replay(q, c)
  <2>1. key.run = q => key.status # "rejected"
    BY StripeAssumption DEF Types, Key, IntentStatus, Answers
  <2> QED
    BY <1>4, <1>5, <1>6, <2>1 DEF Replay, Told
<1>7. CASE Reject(q, c)
  <2>1. key.run # q
    BY <1>1, <1>7 DEF Reject, NoKey
  <2> QED
    BY <1>4, <1>5, <1>7, <2>1 DEF Reject
<1> QED
  BY <1>3, <1>6, <1>7

LEMMA SettleStep ==
  ASSUME Types, NEW q \in Runs, Told(q), Settled(q), Settle(q)
  PROVE  Told(q)' /\ Settled(q)'
<1>1. /\ payments[q].status = "processing"
      /\ payments'[q].status \in Final
      /\ payments'[q].made = payments[q].made
      /\ UNCHANGED <<runs, posts, key>>
  BY DEF Settle, Types, Payment, Final
<1> QED
  BY <1>1, StripeAssumption DEF Told, Settled, Final, Answers, IntentStatus

\* A step of another run.
LEMMA OtherRun ==
  ASSUME Types, NEW q \in Runs, NEW r \in Runs, q # r, Told(q), Settled(q),
         \/ CreateRun(r) \/ Charge(r) \/ Charged(r) \/ Crash(r) \/ GiveUp(r)
         \/ \E p \in Probes : Inspect(r, p) \/ Inspected(r, p)
         \/ \E c \in Callers : \/ \E status \in IntentStatus : Pay(r, c, status)
                               \/ Replay(r, c) \/ Reject(r, c)
         \/ Settle(r)
  PROVE  Told(q)' /\ Settled(q)'
<1>1. runs'[q] = runs[q]
  BY DEF CreateRun, Charge, Charged, Crash, GiveUp, Inspect, Inspected, Pay,
         Replay, Reject, Settle, SetStatus, Types
<1>2. posts'[q] = posts[q]
  BY DEF CreateRun, Charge, Charged, Crash, GiveUp, Inspect, Inspected, Pay,
         Replay, Reject, Settle, Send, Hangup, Answered, Types
<1>3. payments'[q] = payments[q]
  BY DEF CreateRun, Charge, Charged, Crash, GiveUp, Inspect, Inspected, Pay,
         Replay, Reject, Settle, Types
<1>4. key'.run = q => key' = key
  BY DEF CreateRun, Charge, Charged, Crash, GiveUp, Inspect, Inspected, Pay,
         Replay, Reject, Settle
<1> QED
  BY <1>1, <1>2, <1>3, <1>4, FrameStep

LEMMA NextPaid == PaidInv /\ [Next]_vars => PaidInv'
<1> SUFFICES ASSUME PaidInv, [Next]_vars
             PROVE  PaidInv'
  OBVIOUS
<1>1. Inv' /\ Types
  BY NextInv DEF PaidInv, Inv
<1> SUFFICES ASSUME NEW q \in Runs
             PROVE  Told(q)' /\ Settled(q)'
  BY <1>1 DEF PaidInv
<1>2. KeyHeld(q) /\ InTime(q) /\ Told(q) /\ Settled(q)
  BY DEF PaidInv, Inv
<1>3. CASE CreateRun(q) \/ Charge(q) \/ Charged(q) \/ Crash(q) \/ GiveUp(q)
  BY <1>1, <1>2, <1>3, ChargeSide
<1>4. ASSUME NEW p \in Probes, Inspect(q, p) \/ Inspected(q, p)
      PROVE  Told(q)' /\ Settled(q)'
  BY <1>1, <1>2, <1>4, LookupSide
<1>5. ASSUME NEW c \in Callers,
             \/ \E status \in IntentStatus : Pay(q, c, status)
             \/ Replay(q, c) \/ Reject(q, c)
      PROVE  Told(q)' /\ Settled(q)'
  BY <1>1, <1>2, <1>5, StripeSide
<1>6. CASE Settle(q)
  BY <1>1, <1>2, <1>6, SettleStep
<1>7. CASE Forget
  BY <1>2, <1>7, FrameStep, StripeAssumption DEF Forget, NoKey
<1>8. CASE Tick \/ UNCHANGED vars
  BY <1>2, <1>8, FrameStep DEF Tick, vars
<1>9. ASSUME NEW r \in Runs, r # q,
             \/ CreateRun(r) \/ Charge(r) \/ Charged(r) \/ Crash(r) \/ GiveUp(r)
             \/ \E p \in Probes : Inspect(r, p) \/ Inspected(r, p)
             \/ \E c \in Callers :
                  \/ \E status \in IntentStatus : Pay(r, c, status)
                  \/ Replay(r, c) \/ Reject(r, c)
             \/ Settle(r)
      PROVE  Told(q)' /\ Settled(q)'
  BY <1>1, <1>2, <1>9, OtherRun
<1> QED
  BY <1>3, <1>4, <1>5, <1>6, <1>7, <1>8, <1>9 DEF Next

\* A completed run has a payment of its own that succeeded: neither a replay
\* under a forgotten key nor another run's answer passes for it.
THEOREM CompletedRunsArePaid == Spec => []CompletedIsPaid
<1>1. PaidInv => CompletedIsPaid
  BY DEF PaidInv, Settled, CompletedIsPaid
<1> QED
  BY <1>1, InitPaid, NextPaid, PTL DEF Spec

\* A failed run has no payment that succeeded or still may: no request of it
\* is left, or Stripe holds its key until the last one has come.
THEOREM FailedRunsAreUnpaid == Spec => []FailedIsUnpaid
<1>1. PaidInv => FailedIsUnpaid
  BY DEF PaidInv, Settled, FailedIsUnpaid
<1> QED
  BY <1>1, InitPaid, NextPaid, PTL DEF Spec
=============================================================================
