-------------------------- MODULE LedgerSafetyProofs --------------------------
(***************************************************************************)
(* Safety of ActionLedger beyond its types: trails tell legal stories, a   *)
(* tool is started once and only when it was cleared, approvals stay bound *)
(* to what they approved, and an identity has one run.  At the end,        *)
(* ActionLedger is shown to implement ActionLifecycle under the refinement *)
(* mapping of its definition Lifecycle: the phase is the status column,    *)
(* and who was allowed and who began is read from the trail.               *)
(***************************************************************************)
EXTENDS ActionLedgerProofs

-----------------------------------------------------------------------------
(* The ten local steps once more, column by column: what each does to the  *)
(* status, the policy, the attempt counter, the approval and the trail.    *)

\* The columns the invariants below speak of, after a step that appends.
Moved(r, status, policy, attempt, appended) ==
  /\ runs[r] \in Row
  /\ runs'[r].status = status
  /\ runs'[r].policy = policy
  /\ runs'[r].attempt = attempt
  /\ runs'[r].request = runs[r].request
  /\ events'[r] = events[r] \o appended

\* The same for a step that leaves the policy and the counter alone.
Turned(r, status, appended) ==
  Moved(r, status, runs[r].policy, runs[r].attempt, appended)

Kept(r) ==
  /\ Same(r)
  /\ events'[r] = events[r]
  /\ runs'[r].status = runs[r].status
  /\ runs'[r].policy = runs[r].policy
  /\ runs'[r].attempt = runs[r].attempt
  /\ runs'[r].request = runs[r].request

Entered(r) ==
  /\ Same(r)
  /\ runs[r] = NoRow
  /\ runs'[r].status = "created"
  /\ runs'[r].policy = None
  /\ runs'[r].attempt = 0
  /\ events'[r] = events[r] \o <<Plain("run.created")>>

Checked(outcome, policy) == Event("policy.checked", outcome, policy)

Permitted(r) ==
  /\ Same(r)
  /\ runs[r].status = "created"
  /\ \E policy \in Policies :
       Moved(r, "created", policy, runs[r].attempt, <<Checked("allow", policy)>>)

Denied(r) ==
  /\ Same(r)
  /\ runs[r].status = "created"
  /\ \E policy \in Policies :
       Moved(r, "denied", policy, runs[r].attempt,
             <<Checked("deny", policy), Plain("run.denied")>>)

Asked(r) ==
  /\ runs[r].status = "created"
  /\ \E policy \in Policies, t \in Nat :
       /\ Moved(r, "pending_approval", policy, runs[r].attempt,
                <<Checked("approval_required", policy),
                  Plain("approval.requested")>>)
       /\ approvals'[r] = NewApproval(r, policy, t)

\* A person approved or rejected.
Judged(r, status, type) ==
  /\ Pending(r)
  /\ approvals[r] \in Approval
  /\ clock < approvals[r].expires + BusyTimeout
  /\ \E principal \in Principals :
       /\ Eligible(r, principal)
       /\ Turned(r, status, <<Event(type, None, principal.actor)>>)
       /\ approvals'[r] = [approvals[r] EXCEPT
             !.status = status, !.approver = principal.actor]

Lapsed(r) ==
  /\ Pending(r)
  /\ approvals[r] \in Approval
  /\ Turned(r, "approval_expired", <<Plain("approval.expired")>>)
  /\ approvals'[r] = [approvals[r] EXCEPT !.status = "approval_expired"]

Began(r) ==
  /\ Same(r)
  /\ Claimable(r)
  /\ \/ /\ runs[r].status = "created"
        /\ Moved(r, "executing", runs[r].policy, runs[r].attempt + 1,
                 <<Plain("tool.execution.started")>>)
     \/ /\ runs[r].status = "approved"
        /\ Moved(r, "executing", runs[r].policy, runs[r].attempt + 1,
                 <<Plain("run.resumed"), Plain("tool.execution.started")>>)

Ended(r) ==
  /\ Same(r)
  /\ runs[r].status = "executing"
  /\ \/ Turned(r, "completed",
               <<Plain("tool.execution.succeeded"), Plain("run.completed")>>)
     \/ Turned(r, "failed", <<Plain("tool.execution.failed")>>)
     \/ Turned(r, "unknown", <<Plain("tool.execution.uncertain")>>)
     \/ /\ runs[r].lease <= clock
        /\ Turned(r, "unknown", <<Plain("tool.execution.lease_expired")>>)

Observed(outcome, principal) ==
  Event("provider.reconciliation.observed", outcome, principal.actor)

Resolved(r) ==
  /\ Same(r)
  /\ runs[r].status = "unknown"
  /\ \E principal \in Principals, outcome \in ProviderOutcome,
        status \in {"completed", "failed"} :
       /\ principal.tenant = runs[r].request.tenant
       /\ \/ Turned(r, status, <<Reconciled(status, principal)>>)
          \/ Turned(r, status, <<Observed(outcome, principal),
                                 Reconciled(status, principal)>>)
          \/ Turned(r, "unknown", <<Observed(outcome, principal)>>)

ColumnStep(r) ==
  \/ Kept(r)  \/ Entered(r) \/ Permitted(r) \/ Denied(r) \/ Asked(r)
  \/ Judged(r, "approved", "approval.approved")
  \/ Judged(r, "rejected", "approval.rejected")
  \/ Lapsed(r) \/ Began(r)  \/ Ended(r)     \/ Resolved(r)

LEMMA ColumnsOf ==
  ASSUME TypeOK, NEW r \in RunIds, LocalStep(r)
  PROVE  ColumnStep(r)
  <1>1. CASE QuietStep(r)
    <2>1. Kept(r)
      <3>1. CASE runs'[r] = runs[r]
        BY <1>1, <3>1 DEF QuietStep, Kept
      <3>2. CASE /\ runs[r] \in Row
                 /\ \E n \in Nat : runs'[r] = [runs[r] EXCEPT !.duplicates = n]
        BY <1>1, <3>2 DEF QuietStep, Kept, Row
      <3>3. CASE /\ runs[r].status = "executing"
                 /\ \E n \in Nat : runs'[r] = [runs[r] EXCEPT !.lease = n]
        BY <1>1, <3>3, RowTyped DEF QuietStep, Kept, Row
      <3> QED
        BY <1>1, <3>1, <3>2, <3>3 DEF QuietStep
    <2> QED
      BY <2>1 DEF ColumnStep
  <1>2. CASE CreateStep(r)
    <2>1. Entered(r)
      BY <1>2 DEF CreateStep, Wrote, Entered, NoRow
    <2> QED
      BY <2>1 DEF ColumnStep
  <1> USE RowTyped
  <1>3. CASE AllowStep(r)
    <2>1. Permitted(r)
      BY <1>3 DEF AllowStep, Wrote, Permitted, Moved, Checked, Row
    <2> QED
      BY <2>1 DEF ColumnStep
  <1>4. CASE DenyStep(r)
    <2>1. Denied(r)
      BY <1>4 DEF DenyStep, Wrote, Denied, Moved, Checked, Row
    <2> QED
      BY <2>1 DEF ColumnStep
  <1>5. CASE AskStep(r)
    <2>1. Asked(r)
      BY <1>5 DEF AskStep, Wrote, Asked, Moved, Checked, Row
    <2> QED
      BY <2>1 DEF ColumnStep
  <1>6. Pending(r) => runs[r] \in Row /\ approvals[r] \in Approval
    BY DEF Pending, TypeOK, NoRow, NoApproval
  <1>7. CASE DecideStep(r)
    <2>1. PICK principal \in Principals, approved \in BOOLEAN :
            LET status == IF approved THEN "approved" ELSE "rejected"
                type == IF approved THEN "approval.approved"
                                    ELSE "approval.rejected"
            IN  /\ Eligible(r, principal)
                /\ clock < approvals[r].expires + BusyTimeout
                /\ Wrote(r, [runs[r] EXCEPT !.status = status],
                         <<Event(type, None, principal.actor)>>)
                /\ approvals'[r] = [approvals[r] EXCEPT
                      !.status = status, !.approver = principal.actor]
      BY <1>7 DEF DecideStep
    <2>2. Pending(r)
      BY <1>7 DEF DecideStep
    <2>3. CASE approved
      <3>1. Turned(r, "approved",
                   <<Event("approval.approved", None, principal.actor)>>)
        BY <1>6, <2>1, <2>2, <2>3 DEF Wrote, Turned, Moved, Row
      <3>2. Judged(r, "approved", "approval.approved")
        BY <1>6, <2>1, <2>2, <2>3, <3>1 DEF Judged
      <3> QED
        BY <3>2 DEF ColumnStep
    <2>4. CASE ~approved
      <3>1. Turned(r, "rejected",
                   <<Event("approval.rejected", None, principal.actor)>>)
        BY <1>6, <2>1, <2>2, <2>4 DEF Wrote, Turned, Moved, Row
      <3>2. Judged(r, "rejected", "approval.rejected")
        BY <1>6, <2>1, <2>2, <2>4, <3>1 DEF Judged
      <3> QED
        BY <3>2 DEF ColumnStep
    <2> QED
      BY <2>3, <2>4
  <1>8. CASE ExpireStep(r)
    <2>1. Lapsed(r)
      BY <1>6, <1>8 DEF ExpireStep, Wrote, Lapsed, Turned, Moved, Row
    <2> QED
      BY <2>1 DEF ColumnStep
  <1>9. CASE ClaimStep(r)
    <2>1. Began(r)
      BY <1>9 DEF ClaimStep, Claimable, Wrote, Began, Moved, Row
    <2> QED
      BY <2>1 DEF ColumnStep
  <1>10. CASE CloseStep(r)
    <2>1. Ended(r)
      BY <1>10 DEF CloseStep, Wrote, Ended, Turned, Moved, Row
    <2> QED
      BY <2>1 DEF ColumnStep
  <1>11. CASE ReconcileStep(r)
    <2>1. runs[r] \in Row /\ Same(r) /\ runs[r].status = "unknown"
      BY <1>11, RowTyped DEF ReconcileStep
    <2>2. PICK principal \in Principals, outcome \in ProviderOutcome,
               status \in {"completed", "failed"} :
            LET settled == [runs[r] EXCEPT !.status = status]
            IN  /\ principal.tenant = runs[r].request.tenant
                /\ \/ Wrote(r, settled, <<Reconciled(status, principal)>>)
                   \/ Wrote(r, settled, <<Observed(outcome, principal),
                                          Reconciled(status, principal)>>)
                   \/ Wrote(r, runs[r], <<Observed(outcome, principal)>>)
      BY <1>11 DEF ReconcileStep, Observed
    <2>3. ASSUME NEW appended,
                 Wrote(r, [runs[r] EXCEPT !.status = status], appended)
          PROVE  Turned(r, status, appended)
      BY <2>1, <2>3 DEF Wrote, Turned, Moved, Row
    <2>4. ASSUME NEW appended, Wrote(r, runs[r], appended)
          PROVE  Turned(r, "unknown", appended)
      BY <2>1, <2>4 DEF Wrote, Turned, Moved
    <2>5. \/ Turned(r, status, <<Reconciled(status, principal)>>)
          \/ Turned(r, status, <<Observed(outcome, principal),
                                 Reconciled(status, principal)>>)
          \/ Turned(r, "unknown", <<Observed(outcome, principal)>>)
      BY <2>2, <2>3, <2>4
    <2>6. Resolved(r)
      BY <2>1, <2>2, <2>5 DEF Resolved
    <2> QED
      BY <2>6 DEF ColumnStep
  <1> QED
    BY <1>1, <1>2, <1>3, <1>4, <1>5, <1>7, <1>8, <1>9, <1>10, <1>11
       DEF LocalStep

-----------------------------------------------------------------------------
(* Trails: the last event says more than the status, each event may follow *)
(* the one before it, and the events that start a tool are counted.        *)

Last(trail) == trail[Len(trail)]

\* The events that may be the last of a run with this status.
LastTypes(status) ==
  CASE status = "created" -> {"run.created", "policy.checked"}
    [] status = "pending_approval" -> {"approval.requested"}
    [] status = "approved" -> {"approval.approved"}
    [] status = "executing" -> {"tool.execution.started"}
    [] status = "unknown" ->
         {"tool.execution.uncertain", "tool.execution.lease_expired",
          "provider.reconciliation.observed"}
    [] OTHER -> EventType

\* A run that waits for its next step has a last event that step may follow.
Explained(r) ==
  /\ runs[r].status = "absent" => events[r] = << >>
  /\ runs[r].status # "absent" =>
       /\ events[r] # << >>
       /\ Last(events[r]).type \in LastTypes(runs[r].status)
  /\ runs[r].status = "created" /\ runs[r].policy # None =>
       Last(events[r]).type = "policy.checked"

LegalTrail(trail) ==
  /\ trail # << >> => trail[1].type = "run.created"
  /\ \A i \in 1..(Len(trail) - 1) :
       <<trail[i].type, trail[i + 1].type>> \in Follows

(* An event that may follow the last one keeps a trail legal. *)
LEMMA LegalAppend ==
  ASSUME NEW trail \in Seq(Events), trail # << >>, LegalTrail(trail),
         NEW event \in Events, <<Last(trail).type, event.type>> \in Follows
  PROVE  LegalTrail(trail \o <<event>>)
  <1> DEFINE longer == trail \o <<event>>
  <1>1. /\ Len(longer) = Len(trail) + 1
        /\ \A i \in 1..Len(trail) : longer[i] = trail[i]
        /\ longer[Len(trail) + 1] = event
        /\ Len(trail) \in Nat
    BY AppendOne
  <1>2. Len(trail) > 0
    BY <1>1, EmptySeq
  <1> HIDE DEF longer
  <1>3. longer[1].type = "run.created"
    BY <1>1, <1>2 DEF LegalTrail
  <1>4. ASSUME NEW i \in 1..(Len(longer) - 1)
        PROVE  <<longer[i].type, longer[i + 1].type>> \in Follows
    <2>1. CASE i = Len(trail)
      BY <1>1, <1>2, <2>1 DEF Last
    <2>2. CASE i # Len(trail)
      <3>1. i \in 1..(Len(trail) - 1) /\ i + 1 \in 1..Len(trail)
        BY <1>1, <2>2
      <3>2. longer[i] = trail[i] /\ longer[i + 1] = trail[i + 1]
        BY <1>1, <3>1
      <3> QED
        BY <3>1, <3>2 DEF LegalTrail
    <2> QED
      BY <2>1, <2>2
  <1> QED
    BY <1>3, <1>4 DEF LegalTrail, longer

LEMMA LegalAppendTwo ==
  ASSUME NEW trail \in Seq(Events), trail # << >>, LegalTrail(trail),
         NEW first \in Events, <<Last(trail).type, first.type>> \in Follows,
         NEW second \in Events, <<first.type, second.type>> \in Follows
  PROVE  LegalTrail(trail \o <<first, second>>)
  <1> DEFINE longer == trail \o <<first>>
  <1>1. /\ longer \in Seq(Events)
        /\ longer # << >>
        /\ Last(longer) = first
    BY AppendOne, LastOne DEF Last
  <1>2. LegalTrail(longer)
    BY LegalAppend
  <1>3. trail \o <<first, second>> = longer \o <<second>>
    BY AppendTwo
  <1> HIDE DEF longer
  <1> QED
    BY <1>1, <1>2, <1>3, LegalAppend

LEMMA LegalStart == LegalTrail(<< >> \o <<Plain("run.created")>>)
  <1>1. << >> \o <<Plain("run.created")>> = <<Plain("run.created")>>
    BY ConcatShort
  <1>2. Plain("run.created").type = "run.created"
    BY DEF Plain, Event
  <1> HIDE DEF Plain
  <1> QED
    BY <1>1, <1>2 DEF LegalTrail

(* The types an appended event adds to a trail. *)
LEMMA TypesAppend ==
  ASSUME NEW trail \in Seq(Events), NEW event \in Events
  PROVE  Types(trail \o <<event>>) = Types(trail) \cup {event.type}
  <1> DEFINE longer == trail \o <<event>>
  <1>1. /\ DOMAIN longer = 1..(Len(trail) + 1)
        /\ \A i \in 1..Len(trail) : longer[i] = trail[i]
        /\ longer[Len(trail) + 1] = event
        /\ Len(trail) \in Nat
        /\ DOMAIN trail = 1..Len(trail)
    BY AppendOne
  <1> HIDE DEF longer
  <1>2. \A i \in DOMAIN longer : i \in 1..Len(trail) \/ i = Len(trail) + 1
    BY <1>1
  <1>3. Types(longer) \subseteq Types(trail) \cup {event.type}
    BY <1>1, <1>2 DEF Types
  <1>4. Types(trail) \cup {event.type} \subseteq Types(longer)
    BY <1>1 DEF Types
  <1> QED
    BY <1>3, <1>4 DEF longer

LEMMA TypesAppendTwo ==
  ASSUME NEW trail \in Seq(Events), NEW first \in Events, NEW second \in Events
  PROVE  Types(trail \o <<first, second>>)
           = Types(trail) \cup {first.type, second.type}
  <1> DEFINE longer == trail \o <<first>>
  <1>1. longer \in Seq(Events)
    BY AppendOne
  <1>2. Types(longer) = Types(trail) \cup {first.type}
    BY TypesAppend
  <1>3. trail \o <<first, second>> = longer \o <<second>>
    BY AppendTwo
  <1> HIDE DEF longer
  <1>4. Types(longer \o <<second>>) = Types(longer) \cup {second.type}
    BY <1>1, TypesAppend
  <1> QED
    BY <1>2, <1>3, <1>4

\* No two events of a trail start the tool.
StartedOnce(trail) ==
  \A i, j \in DOMAIN trail :
    trail[i].type = "tool.execution.started"
      /\ trail[j].type = "tool.execution.started" => i = j

LEMMA StartedOnceAppend ==
  ASSUME NEW trail \in Seq(Events), StartedOnce(trail), NEW event \in Events,
         \/ event.type # "tool.execution.started"
         \/ "tool.execution.started" \notin Types(trail)
  PROVE  StartedOnce(trail \o <<event>>)
  <1> DEFINE longer == trail \o <<event>>
  <1>1. /\ DOMAIN longer = 1..(Len(trail) + 1)
        /\ \A i \in 1..Len(trail) : longer[i] = trail[i]
        /\ longer[Len(trail) + 1] = event
        /\ Len(trail) \in Nat
        /\ DOMAIN trail = 1..Len(trail)
    BY AppendOne
  <1> HIDE DEF longer
  <1>2. \A i \in DOMAIN longer : i \in 1..Len(trail) \/ i = Len(trail) + 1
    BY <1>1
  <1>3. StartedOnce(longer)
    BY <1>1, <1>2 DEF StartedOnce, Types
  <1> QED
    BY <1>3 DEF longer

LEMMA StartedOnceAppendTwo ==
  ASSUME NEW trail \in Seq(Events), StartedOnce(trail),
         NEW first \in Events, first.type # "tool.execution.started",
         NEW second \in Events,
         \/ second.type # "tool.execution.started"
         \/ "tool.execution.started" \notin Types(trail)
  PROVE  StartedOnce(trail \o <<first, second>>)
  <1> DEFINE longer == trail \o <<first>>
  <1>1. longer \in Seq(Events)
    BY AppendOne
  <1>2. Types(longer) = Types(trail) \cup {first.type}
    BY TypesAppend
  <1>3. StartedOnce(longer)
    BY StartedOnceAppend
  <1>4. trail \o <<first, second>> = longer \o <<second>>
    BY AppendTwo
  <1> HIDE DEF longer
  <1> QED
    BY <1>1, <1>2, <1>3, <1>4, StartedOnceAppend

\* What the ten steps append are events of the schema.
LEMMA AppendedTyped ==
  /\ \A type \in EventType : Plain(type) \in Events /\ Plain(type).type = type
  /\ \A outcome \in PolicyOutcome, policy \in Policies :
       Checked(outcome, policy) \in Events
  /\ \A type \in EventType, principal \in Principals :
       Event(type, None, principal.actor) \in Events
  /\ \A outcome \in ProviderOutcome, principal \in Principals :
       Observed(outcome, principal) \in Events
  /\ \A status \in {"completed", "failed"}, principal \in Principals :
       Reconciled(status, principal) \in Events
  BY DEF Plain, Event, Events, Checked, Observed, Reconciled, Actors, EventType

LEMMA AppendedTypes ==
  /\ \A outcome, policy : Checked(outcome, policy).type = "policy.checked"
  /\ \A type, actor : Event(type, None, actor).type = type
  /\ \A outcome, principal : Observed(outcome, principal).type =
       "provider.reconciliation.observed"
  /\ \A status, principal : Reconciled(status, principal).type = "run.reconciled"
  BY DEF Event, Checked, Observed, Reconciled

\* The two shapes of a step that appends.
LEMMA EndsWithOne ==
  ASSUME TypeOK, NEW r \in RunIds, NEW event \in Events,
         events'[r] = events[r] \o <<event>>
  PROVE  events'[r] # << >> /\ Last(events'[r]) = event
  <1>1. events[r] \in Seq(Events)
    BY DEF TypeOK
  <1> QED
    BY <1>1, LastOne DEF Last

LEMMA EndsWithTwo ==
  ASSUME TypeOK, NEW r \in RunIds, NEW first \in Events, NEW event \in Events,
         events'[r] = events[r] \o <<first, event>>
  PROVE  events'[r] # << >> /\ Last(events'[r]) = event
  <1>1. events[r] \in Seq(Events)
    BY DEF TypeOK
  <1> QED
    BY <1>1, LastTwo DEF Last

LEMMA ExplainedStep ==
  ASSUME TypeOK, NEW r \in RunIds, Explained(r), ColumnStep(r)
  PROVE  Explained(r)'
  <1> USE AppendedTyped, AppendedTypes
  <1>1. CASE Kept(r)
    BY <1>1 DEF Kept, Explained
  <1>2. CASE Entered(r)
    <2>1. Plain("run.created") \in Events /\ Plain("run.created").type = "run.created"
      BY DEF EventType
    <2>2. events'[r] # << >> /\ Last(events'[r]) = Plain("run.created")
      BY <1>2, <2>1, EndsWithOne DEF Entered
    <2> QED
      BY <1>2, <2>1, <2>2 DEF Entered, Explained, LastTypes
  <1>3. CASE Permitted(r)
    <2>1. PICK policy \in Policies :
            Moved(r, "created", policy, runs[r].attempt,
                  <<Checked("allow", policy)>>)
      BY <1>3 DEF Permitted
    <2>2. Checked("allow", policy) \in Events
      BY DEF PolicyOutcome
    <2>3. events'[r] # << >> /\ Last(events'[r]) = Checked("allow", policy)
      BY <2>1, <2>2, EndsWithOne DEF Moved
    <2> QED
      BY <2>1, <2>3 DEF Moved, Explained, LastTypes
  <1>4. CASE Denied(r)
    <2>1. PICK policy \in Policies :
            Moved(r, "denied", policy, runs[r].attempt,
                  <<Checked("deny", policy), Plain("run.denied")>>)
      BY <1>4 DEF Denied
    <2>2. /\ Checked("deny", policy) \in Events
          /\ Plain("run.denied") \in Events
          /\ Plain("run.denied").type = "run.denied"
      BY DEF PolicyOutcome, EventType
    <2>3. events'[r] # << >> /\ Last(events'[r]) = Plain("run.denied")
      BY <2>1, <2>2, EndsWithTwo DEF Moved
    <2>4. runs'[r].status = "denied"
      BY <2>1 DEF Moved
    <2>5. "run.denied" \in LastTypes("denied")
      BY DEF LastTypes, EventType
    <2> QED
      BY <2>2, <2>3, <2>4, <2>5 DEF Explained
  <1>5. CASE Asked(r)
    <2>1. PICK policy \in Policies :
            Moved(r, "pending_approval", policy, runs[r].attempt,
                  <<Checked("approval_required", policy),
                    Plain("approval.requested")>>)
      BY <1>5 DEF Asked
    <2>2. /\ Checked("approval_required", policy) \in Events
          /\ Plain("approval.requested") \in Events
          /\ Plain("approval.requested").type = "approval.requested"
      BY DEF PolicyOutcome, EventType
    <2>3. events'[r] # << >> /\ Last(events'[r]) = Plain("approval.requested")
      BY <2>1, <2>2, EndsWithTwo DEF Moved
    <2> QED
      BY <2>1, <2>2, <2>3 DEF Moved, Explained, LastTypes
  <1>6. ASSUME NEW status \in {"approved", "rejected"},
               NEW type \in {"approval.approved", "approval.rejected"},
               (status = "approved") => (type = "approval.approved"),
               Judged(r, status, type)
        PROVE  Explained(r)'
    <2>1. PICK principal \in Principals :
            Turned(r, status, <<Event(type, None, principal.actor)>>)
      BY <1>6 DEF Judged
    <2>2. Event(type, None, principal.actor) \in Events
      BY DEF EventType
    <2>3. /\ events'[r] # << >>
          /\ Last(events'[r]) = Event(type, None, principal.actor)
      BY <2>1, <2>2, EndsWithOne DEF Turned, Moved
    <2>4. Last(events'[r]).type = type
      BY <2>3
    <2> QED
      BY <1>6, <2>1, <2>3, <2>4 DEF Turned, Moved, Explained, LastTypes, EventType
  <1>7. CASE Lapsed(r)
    <2>1. /\ Plain("approval.expired") \in Events
          /\ Plain("approval.expired").type = "approval.expired"
      BY DEF EventType
    <2>2. events'[r] # << >> /\ Last(events'[r]) = Plain("approval.expired")
      BY <1>7, <2>1, EndsWithOne DEF Lapsed, Turned, Moved
    <2> QED
      BY <1>7, <2>1, <2>2
         DEF Lapsed, Turned, Moved, Explained, LastTypes, EventType
  <1>8. CASE Began(r)
    <2>1. /\ Plain("tool.execution.started") \in Events
          /\ Plain("run.resumed") \in Events
          /\ Plain("tool.execution.started").type = "tool.execution.started"
      BY DEF EventType
    <2>2. events'[r] # << >> /\ Last(events'[r]) = Plain("tool.execution.started")
      BY <1>8, <2>1, EndsWithOne, EndsWithTwo DEF Began, Moved
    <2> QED
      BY <1>8, <2>1, <2>2 DEF Began, Moved, Explained, LastTypes
  <1>9. CASE Ended(r)
    <2>1. \A type \in EventType : Plain(type) \in Events /\ Plain(type).type = type
      OBVIOUS
    <2>2. \/ /\ runs'[r].status \in {"completed", "failed"}
             /\ events'[r] # << >>
             /\ Last(events'[r]).type \in EventType
          \/ /\ runs'[r].status = "unknown"
             /\ events'[r] # << >>
             /\ Last(events'[r]).type \in
                  {"tool.execution.uncertain", "tool.execution.lease_expired"}
      <3>1. CASE Turned(r, "completed", <<Plain("tool.execution.succeeded"),
                                          Plain("run.completed")>>)
        BY <2>1, <3>1, EndsWithTwo DEF Turned, Moved, EventType
      <3>2. CASE Turned(r, "failed", <<Plain("tool.execution.failed")>>)
        BY <2>1, <3>2, EndsWithOne DEF Turned, Moved, EventType
      <3>3. CASE Turned(r, "unknown", <<Plain("tool.execution.uncertain")>>)
        BY <2>1, <3>3, EndsWithOne DEF Turned, Moved, EventType
      <3>4. CASE Turned(r, "unknown", <<Plain("tool.execution.lease_expired")>>)
        BY <2>1, <3>4, EndsWithOne DEF Turned, Moved, EventType
      <3> QED
        BY <1>9, <3>1, <3>2, <3>3, <3>4 DEF Ended
    <2> QED
      BY <2>2 DEF Explained, LastTypes
  <1>10. CASE Resolved(r)
    <2>1. PICK principal \in Principals, outcome \in ProviderOutcome,
               status \in {"completed", "failed"} :
            \/ Turned(r, status, <<Reconciled(status, principal)>>)
            \/ Turned(r, status, <<Observed(outcome, principal),
                                   Reconciled(status, principal)>>)
            \/ Turned(r, "unknown", <<Observed(outcome, principal)>>)
      BY <1>10 DEF Resolved
    <2>2. /\ Reconciled(status, principal) \in Events
          /\ Observed(outcome, principal) \in Events
      OBVIOUS
    <2>3. \/ /\ runs'[r].status = status
             /\ events'[r] # << >>
             /\ Last(events'[r]).type = "run.reconciled"
          \/ /\ runs'[r].status = "unknown"
             /\ events'[r] # << >>
             /\ Last(events'[r]).type = "provider.reconciliation.observed"
      BY <2>1, <2>2, EndsWithOne, EndsWithTwo DEF Turned, Moved
    <2> QED
      BY <2>3 DEF Explained, LastTypes, EventType
  <1> QED
    BY <1>1, <1>2, <1>3, <1>4, <1>5, <1>6, <1>7, <1>8, <1>9, <1>10
       DEF ColumnStep

\* A step's first event follows the last one, and its second the first.
LEMMA LegalStep ==
  ASSUME TypeOK, NEW r \in RunIds, Explained(r), LegalTrail(events[r]),
         ColumnStep(r)
  PROVE  LegalTrail(events'[r])
  <1> USE AppendedTyped, AppendedTypes
  <1> DEFINE trail == events[r]
             last == Last(events[r]).type
  <1>1. trail \in Seq(Events)
    BY DEF TypeOK
  <1>2. runs[r] \in Row => trail # << >> /\ last \in LastTypes(runs[r].status)
    <2>1. runs[r] \in Row => runs[r].status # "absent"
      BY DEF Row, ActionStatus, Terminal
    <2> QED
      BY <2>1 DEF Explained
  <1>3. ASSUME NEW event \in Events, events'[r] = trail \o <<event>>,
               trail # << >>, <<last, event.type>> \in Follows
        PROVE  LegalTrail(events'[r])
    BY <1>1, <1>3, LegalAppend
  <1>4. ASSUME NEW first \in Events, NEW second \in Events,
               events'[r] = trail \o <<first, second>>, trail # << >>,
               <<last, first.type>> \in Follows,
               <<first.type, second.type>> \in Follows
        PROVE  LegalTrail(events'[r])
    BY <1>1, <1>4, LegalAppendTwo
  <1> HIDE DEF trail, last
  <1>5. CASE Kept(r)
    BY <1>5 DEF Kept
  <1>6. CASE Entered(r)
    <2>1. trail = << >>
      BY <1>6, NoRowColumns DEF Entered, Explained, trail
    <2> QED
      BY <1>6, <2>1, LegalStart DEF Entered, trail
  <1>7. CASE Permitted(r) \/ Denied(r) \/ Asked(r)
    <2>1. PICK policy \in Policies :
            /\ runs[r] \in Row
            /\ \/ events'[r] = trail \o <<Checked("allow", policy)>>
               \/ events'[r] = trail \o <<Checked("deny", policy), Plain("run.denied")>>
               \/ events'[r] = trail \o <<Checked("approval_required", policy), Plain("approval.requested")>>
      BY <1>7 DEF Permitted, Denied, Asked, Moved, trail
    <2>2. trail # << >> /\ last \in {"run.created", "policy.checked"}
      BY <1>2, <1>7, <2>1 DEF Permitted, Denied, Asked, LastTypes
    <2>3. /\ <<last, "policy.checked">> \in Follows
          /\ <<"policy.checked", "run.denied">> \in Follows
          /\ <<"policy.checked", "approval.requested">> \in Follows
      BY <2>2 DEF Follows
    <2>4. /\ Plain("run.denied") \in Events
          /\ Plain("run.denied").type = "run.denied"
          /\ Plain("approval.requested") \in Events
          /\ Plain("approval.requested").type = "approval.requested"
      BY DEF EventType
    <2>5. \A outcome \in PolicyOutcome :
            /\ Checked(outcome, policy) \in Events
            /\ <<last, Checked(outcome, policy).type>> \in Follows
            /\ <<Checked(outcome, policy).type, "run.denied">> \in Follows
            /\ <<Checked(outcome, policy).type, "approval.requested">> \in Follows
      BY <2>3
    <2>6. CASE events'[r] = trail \o <<Checked("allow", policy)>>
      BY <1>3, <2>2, <2>5, <2>6 DEF PolicyOutcome
    <2>7. CASE events'[r] = trail \o <<Checked("deny", policy),
                                       Plain("run.denied")>>
      BY <1>4, <2>2, <2>4, <2>5, <2>7 DEF PolicyOutcome
    <2>8. CASE events'[r] = trail \o <<Checked("approval_required", policy),
                                       Plain("approval.requested")>>
      BY <1>4, <2>2, <2>4, <2>5, <2>8 DEF PolicyOutcome
    <2> QED
      BY <2>1, <2>6, <2>7, <2>8
  <1>8. ASSUME NEW status, NEW type \in {"approval.approved", "approval.rejected"},
               Judged(r, status, type)
        PROVE  LegalTrail(events'[r])
    <2>1. PICK principal \in Principals :
            /\ runs[r] \in Row
            /\ events'[r] = trail \o <<Event(type, None, principal.actor)>>
      BY <1>8 DEF Judged, Turned, Moved, trail
    <2>2. trail # << >> /\ last = "approval.requested"
      BY <1>2, <1>8, <2>1 DEF Judged, Pending, LastTypes
    <2>3. <<last, type>> \in Follows
      BY <2>2 DEF Follows
    <2>4. Event(type, None, principal.actor) \in Events
      BY DEF EventType
    <2> QED
      BY <1>3, <2>1, <2>2, <2>3, <2>4
  <1>9. CASE Lapsed(r)
    <2>1. /\ runs[r] \in Row
          /\ events'[r] = trail \o <<Plain("approval.expired")>>
      BY <1>9 DEF Lapsed, Turned, Moved, trail
    <2>2. trail # << >> /\ last = "approval.requested"
      BY <1>2, <1>9, <2>1 DEF Lapsed, Pending, LastTypes
    <2>3. <<last, "approval.expired">> \in Follows
      BY <2>2 DEF Follows
    <2> QED
      BY <1>3, <2>1, <2>2, <2>3 DEF EventType
  <1>10. CASE Began(r)
    <2>1. /\ Plain("tool.execution.started") \in Events
          /\ Plain("tool.execution.started").type = "tool.execution.started"
          /\ Plain("run.resumed") \in Events
          /\ Plain("run.resumed").type = "run.resumed"
      BY DEF EventType
    <2>2. CASE runs[r].status = "created"
      <3>1. /\ runs[r] \in Row
            /\ events'[r] = trail \o <<Plain("tool.execution.started")>>
        BY <1>10, <2>2 DEF Began, Moved, trail
      <3>2. trail # << >> /\ last = "policy.checked"
        BY <1>2, <1>10, <2>2, <3>1 DEF Began, Claimable, Explained, last
      <3>3. <<last, "tool.execution.started">> \in Follows
        BY <3>2 DEF Follows
      <3> QED
        BY <1>3, <2>1, <3>1, <3>2, <3>3
    <2>3. CASE runs[r].status = "approved"
      <3>1. /\ runs[r] \in Row
            /\ events'[r] = trail \o <<Plain("run.resumed"),
                                       Plain("tool.execution.started")>>
        BY <1>10, <2>3 DEF Began, Moved, trail
      <3>2. trail # << >> /\ last = "approval.approved"
        BY <1>2, <2>3, <3>1 DEF LastTypes
      <3>3. /\ <<last, "run.resumed">> \in Follows
            /\ <<"run.resumed", "tool.execution.started">> \in Follows
        BY <3>2 DEF Follows
      <3> QED
        BY <1>4, <2>1, <3>1, <3>2, <3>3
    <2> QED
      BY <1>10, <2>2, <2>3 DEF Began
  <1>11. CASE Ended(r)
    <2>1. \A type \in EventType : Plain(type) \in Events /\ Plain(type).type = type
      OBVIOUS
    <2>2. trail # << >> /\ last = "tool.execution.started"
      BY <1>2, <1>11 DEF Ended, Turned, Moved, LastTypes
    <2>3. /\ <<last, "tool.execution.succeeded">> \in Follows
          /\ <<"tool.execution.succeeded", "run.completed">> \in Follows
          /\ <<last, "tool.execution.failed">> \in Follows
          /\ <<last, "tool.execution.uncertain">> \in Follows
          /\ <<last, "tool.execution.lease_expired">> \in Follows
      BY <2>2 DEF Follows
    <2>4. \/ events'[r] = trail \o <<Plain("tool.execution.succeeded"),
                                     Plain("run.completed")>>
          \/ \E type \in {"tool.execution.failed", "tool.execution.uncertain",
                          "tool.execution.lease_expired"} :
               events'[r] = trail \o <<Plain(type)>>
      BY <1>11 DEF Ended, Turned, Moved, trail
    <2>5. CASE events'[r] = trail \o <<Plain("tool.execution.succeeded"),
                                       Plain("run.completed")>>
      BY <1>4, <2>1, <2>2, <2>3, <2>5 DEF EventType
    <2>6. ASSUME NEW type \in {"tool.execution.failed",
                               "tool.execution.uncertain",
                               "tool.execution.lease_expired"},
                 events'[r] = trail \o <<Plain(type)>>
          PROVE  LegalTrail(events'[r])
      <3>1. Plain(type) \in Events /\ Plain(type).type = type
        BY <2>1 DEF EventType
      <3> QED
        BY <1>3, <2>2, <2>3, <2>6, <3>1
    <2> QED
      BY <2>4, <2>5, <2>6
  <1>12. CASE Resolved(r)
    <2>1. PICK principal \in Principals, outcome \in ProviderOutcome,
               status \in {"completed", "failed"} :
            /\ runs[r] \in Row
            /\ \/ events'[r] = trail \o <<Reconciled(status, principal)>>
               \/ events'[r] = trail \o <<Observed(outcome, principal),
                                          Reconciled(status, principal)>>
               \/ events'[r] = trail \o <<Observed(outcome, principal)>>
      BY <1>12 DEF Resolved, Turned, Moved, trail
    <2>2. /\ trail # << >>
          /\ last \in {"tool.execution.uncertain",
                       "tool.execution.lease_expired",
                       "provider.reconciliation.observed"}
      BY <1>2, <1>12, <2>1 DEF Resolved, LastTypes
    <2>3. /\ <<last, "provider.reconciliation.observed">> \in Follows
          /\ <<last, "run.reconciled">> \in Follows
          /\ <<"provider.reconciliation.observed", "run.reconciled">> \in Follows
      BY <2>2 DEF Follows
    <2>4. /\ Reconciled(status, principal) \in Events
          /\ Observed(outcome, principal) \in Events
          /\ Reconciled(status, principal).type = "run.reconciled"
          /\ Observed(outcome, principal).type = "provider.reconciliation.observed"
      OBVIOUS
    <2> QED
      BY <1>3, <1>4, <2>1, <2>2, <2>3, <2>4
  <1> QED
    BY <1>5, <1>6, <1>7, <1>8, <1>9, <1>10, <1>11, <1>12 DEF ColumnStep

TrailInv ==
  \A r \in RunIds : Explained(r) /\ LegalTrail(events[r])

LEMMA TrailInvStep ==
  ASSUME TypeOK, TrailInv, [Next]_vars
  PROVE  TrailInv'
  <1>1. ASSUME NEW r \in RunIds
        PROVE  Explained(r)' /\ LegalTrail(events'[r])
    <2>1. ColumnStep(r)
      BY StepLocal, ColumnsOf
    <2> QED
      BY <2>1, ExplainedStep, LegalStep DEF TrailInv
  <1> QED
    BY <1>1 DEF TrailInv

LEMMA TrailInvInit ==
  ASSUME Init
  PROVE  TrailInv
  <1>1. \A r \in RunIds : runs[r].status = "absent" /\ events[r] = << >>
    BY NoRowColumns DEF Init
  <1>2. LegalTrail(<< >>)
    BY DEF LegalTrail
  <1> QED
    BY <1>1, <1>2 DEF TrailInv, Explained

LEMMA TrailInvHolds == Spec => []TrailInv
  <1>1. Init => TrailInv
    BY TrailInvInit
  <1>2. TypeOK /\ TrailInv /\ [Next]_vars => TrailInv'
    BY TrailInvStep
  <1> QED
    BY <1>1, <1>2, TypeCorrect, PTL DEF Spec

(* Whatever order the callers come in, a trail starts with the creation of   *)
(* its run and each event is one that may follow the event before it: a tool *)
(* is started only after a policy check or an approval, an approval is       *)
(* decided once, and only an uncertain execution is reconciled.              *)
THEOREM TrailsAreLegal == Spec => []TrailIsLegal
  <1>1. TrailInv => TrailIsLegal
    BY DEF TrailInv, LegalTrail, TrailIsLegal
  <1> QED
    BY <1>1, TrailInvHolds, PTL

-----------------------------------------------------------------------------
(* One execution.                                                          *)

\* The statuses of a run whose tool was started.
Executed == {"executing", "unknown", "completed", "failed"}

\* The status alone tells whether the tool was started; the counter, the trail
\* and the policy agree with it.
Started(r) ==
  /\ runs[r].attempt = IF runs[r].status \in Executed THEN 1 ELSE 0
  /\ "tool.execution.started" \in Types(events[r])
       <=> runs[r].status \in Executed
  /\ StartedOnce(events[r])
  /\ runs[r].status \in Executed => runs[r].policy # None

\* A step that starts nothing and does not cross into or out of Executed.
LEMMA StartedKept ==
  ASSUME TypeOK, NEW r \in RunIds, Started(r),
         NEW status, NEW policy \in Policies \cup {None}, NEW appended,
         Moved(r, status, policy, runs[r].attempt, appended),
         status \in Executed <=> runs[r].status \in Executed,
         status \in Executed => policy # None,
         StartedOnce(events[r] \o appended),
         "tool.execution.started" \in Types(events[r] \o appended)
           <=> "tool.execution.started" \in Types(events[r])
  PROVE  Started(r)'
  BY DEF Started, Moved

LEMMA StartedKeptOne ==
  ASSUME TypeOK, NEW r \in RunIds, Started(r),
         NEW status, NEW policy \in Policies \cup {None}, NEW event \in Events,
         Moved(r, status, policy, runs[r].attempt, <<event>>),
         status \in Executed <=> runs[r].status \in Executed,
         status \in Executed => policy # None,
         event.type # "tool.execution.started"
  PROVE  Started(r)'
  <1>1. events[r] \in Seq(Events) /\ StartedOnce(events[r])
    BY DEF TypeOK, Started
  <1>2. /\ StartedOnce(events[r] \o <<event>>)
        /\ Types(events[r] \o <<event>>) = Types(events[r]) \cup {event.type}
    BY <1>1, TypesAppend, StartedOnceAppend
  <1> QED
    BY <1>2, StartedKept

LEMMA StartedKeptTwo ==
  ASSUME TypeOK, NEW r \in RunIds, Started(r),
         NEW status, NEW policy \in Policies \cup {None},
         NEW first \in Events, NEW second \in Events,
         Moved(r, status, policy, runs[r].attempt, <<first, second>>),
         status \in Executed <=> runs[r].status \in Executed,
         status \in Executed => policy # None,
         first.type # "tool.execution.started",
         second.type # "tool.execution.started"
  PROVE  Started(r)'
  <1>1. events[r] \in Seq(Events) /\ StartedOnce(events[r])
    BY DEF TypeOK, Started
  <1>2. /\ StartedOnce(events[r] \o <<first, second>>)
        /\ Types(events[r] \o <<first, second>>)
             = Types(events[r]) \cup {first.type, second.type}
    BY <1>1, TypesAppendTwo, StartedOnceAppendTwo
  <1> QED
    BY <1>2, StartedKept

\* The claim of a run that was not started.
LEMMA StartedBegins ==
  ASSUME TypeOK, NEW r \in RunIds, Started(r), Began(r)
  PROVE  Started(r)'
  <1>1. events[r] \in Seq(Events)
    BY DEF TypeOK
  <1>2. /\ Plain("tool.execution.started") \in Events
        /\ Plain("tool.execution.started").type = "tool.execution.started"
        /\ Plain("run.resumed") \in Events
        /\ Plain("run.resumed").type = "run.resumed"
    BY AppendedTyped DEF EventType
  <1>3. /\ runs[r].attempt = 0
        /\ "tool.execution.started" \notin Types(events[r])
        /\ StartedOnce(events[r])
    BY DEF Began, Claimable, Started, Executed
  <1>4. /\ runs'[r].status = "executing"
        /\ runs'[r].policy = runs[r].policy
        /\ runs'[r].attempt = 1
        /\ runs[r].policy # None
    BY <1>3 DEF Began, Claimable, Moved
  <1>5. \/ events'[r] = events[r] \o <<Plain("tool.execution.started")>>
        \/ events'[r] = events[r] \o <<Plain("run.resumed"),
                                       Plain("tool.execution.started")>>
    BY DEF Began, Moved
  <1>6. StartedOnce(events'[r])
    BY <1>1, <1>2, <1>3, <1>5, StartedOnceAppend, StartedOnceAppendTwo
  <1>7. "tool.execution.started" \in Types(events'[r])
    <2>1. \A first, second \in Events :
            /\ second.type \in Types(events[r] \o <<second>>)
            /\ second.type \in Types(events[r] \o <<first, second>>)
      BY <1>1, TypesAppend, TypesAppendTwo
    <2> QED
      BY <1>2, <1>5, <2>1
  <1> QED
    BY <1>4, <1>6, <1>7 DEF Started, Executed

LEMMA StartedStep ==
  ASSUME TypeOK, NEW r \in RunIds, Explained(r), Started(r), ColumnStep(r)
  PROVE  Started(r)'
  <1> USE AppendedTyped, AppendedTypes
  <1>1. runs[r] \in Row => runs[r].policy \in Policies \cup {None}
    BY DEF Row
  <1>2. \A type \in EventType : Plain(type) \in Events /\ Plain(type).type = type
    OBVIOUS
  <1>3. CASE Kept(r)
    BY <1>3 DEF Kept, Started
  <1>4. CASE Entered(r)
    <2>1. events[r] = << >>
      BY <1>4, NoRowColumns DEF Entered, Explained
    <2>2. events[r] \in Seq(Events)
      BY DEF TypeOK
    <2>3. /\ Plain("run.created") \in Events
          /\ Plain("run.created").type # "tool.execution.started"
      BY <1>2 DEF EventType
    <2>4. StartedOnce(events[r]) /\ Types(events[r]) = {}
      BY <2>1 DEF StartedOnce, Types
    <2>5. /\ StartedOnce(events'[r])
          /\ "tool.execution.started" \notin Types(events'[r])
      BY <1>4, <2>2, <2>3, <2>4, StartedOnceAppend, TypesAppend DEF Entered
    <2> QED
      BY <1>4, <2>5 DEF Entered, Started, Executed
  <1>5. CASE Permitted(r)
    <2>1. PICK policy \in Policies :
            Moved(r, "created", policy, runs[r].attempt,
                  <<Checked("allow", policy)>>)
      BY <1>5 DEF Permitted
    <2>2. runs[r].status \notin Executed /\ "created" \notin Executed
      BY <1>5 DEF Permitted, Executed
    <2>3. /\ Checked("allow", policy) \in Events
          /\ Checked("allow", policy).type # "tool.execution.started"
      BY DEF PolicyOutcome
    <2> QED
      BY <2>1, <2>2, <2>3, StartedKeptOne
  <1>6. CASE Denied(r)
    <2>1. PICK policy \in Policies :
            Moved(r, "denied", policy, runs[r].attempt,
                  <<Checked("deny", policy), Plain("run.denied")>>)
      BY <1>6 DEF Denied
    <2>2. runs[r].status \notin Executed /\ "denied" \notin Executed
      BY <1>6 DEF Denied, Executed
    <2>3. /\ Checked("deny", policy) \in Events
          /\ Checked("deny", policy).type # "tool.execution.started"
          /\ Plain("run.denied") \in Events
          /\ Plain("run.denied").type # "tool.execution.started"
      BY <1>2 DEF PolicyOutcome, EventType
    <2> QED
      BY <2>1, <2>2, <2>3, StartedKeptTwo
  <1>7. CASE Asked(r)
    <2>1. PICK policy \in Policies :
            Moved(r, "pending_approval", policy, runs[r].attempt,
                  <<Checked("approval_required", policy),
                    Plain("approval.requested")>>)
      BY <1>7 DEF Asked
    <2>2. runs[r].status \notin Executed /\ "pending_approval" \notin Executed
      BY <1>7 DEF Asked, Executed
    <2>3. /\ Checked("approval_required", policy) \in Events
          /\ Checked("approval_required", policy).type # "tool.execution.started"
          /\ Plain("approval.requested") \in Events
          /\ Plain("approval.requested").type # "tool.execution.started"
      BY <1>2 DEF PolicyOutcome, EventType
    <2> QED
      BY <2>1, <2>2, <2>3, StartedKeptTwo
  <1>8. ASSUME NEW status \in {"approved", "rejected"},
               NEW type \in {"approval.approved", "approval.rejected"},
               Judged(r, status, type)
        PROVE  Started(r)'
    <2>1. PICK principal \in Principals :
            Turned(r, status, <<Event(type, None, principal.actor)>>)
      BY <1>8 DEF Judged
    <2>2. /\ Event(type, None, principal.actor) \in Events
          /\ Event(type, None, principal.actor).type # "tool.execution.started"
      BY DEF EventType
    <2>3. status \notin Executed /\ runs[r].status \notin Executed
      BY <1>8 DEF Judged, Pending, Executed
    <2>4. runs[r].policy \in Policies \cup {None}
      BY <1>1, <2>1 DEF Turned, Moved
    <2>5. Moved(r, status, runs[r].policy, runs[r].attempt,
                <<Event(type, None, principal.actor)>>)
      BY <2>1 DEF Turned
    <2> QED
      BY <2>2, <2>3, <2>4, <2>5, StartedKeptOne
  <1>9. CASE Lapsed(r)
    <2>1. /\ Plain("approval.expired") \in Events
          /\ Plain("approval.expired").type = "approval.expired"
      BY <1>2 DEF EventType
    <2>2. /\ Moved(r, "approval_expired", runs[r].policy, runs[r].attempt,
                   <<Plain("approval.expired")>>)
          /\ runs[r].policy \in Policies \cup {None}
      BY <1>1, <1>9 DEF Lapsed, Turned, Moved
    <2>3. runs[r].status \notin Executed /\ "approval_expired" \notin Executed
      BY <1>9 DEF Lapsed, Pending, Executed
    <2> QED
      BY <2>1, <2>2, <2>3, StartedKeptOne
  <1>10. CASE Began(r)
    BY <1>10, StartedBegins
  <1>11. CASE Ended(r)
    <2>1. runs[r].policy \in Policies \cup {None} /\ runs[r].policy # None
      BY <1>1, <1>11 DEF Ended, Turned, Moved, Started, Executed
    <2>2. \A type \in {"tool.execution.succeeded", "run.completed",
                       "tool.execution.failed", "tool.execution.uncertain",
                       "tool.execution.lease_expired"} :
            Plain(type) \in Events /\ Plain(type).type # "tool.execution.started"
      BY <1>2 DEF EventType
    <2>3. PICK status, appended :
            /\ status \in Executed
            /\ Moved(r, status, runs[r].policy, runs[r].attempt, appended)
            /\ \/ appended = <<Plain("tool.execution.succeeded"),
                               Plain("run.completed")>>
               \/ appended = <<Plain("tool.execution.failed")>>
               \/ appended = <<Plain("tool.execution.uncertain")>>
               \/ appended = <<Plain("tool.execution.lease_expired")>>
      BY <1>11 DEF Ended, Turned, Executed
    <2>4. runs[r].status \in Executed
      BY <1>11 DEF Ended, Executed
    <2> QED
      BY <2>1, <2>2, <2>3, <2>4, StartedKeptOne, StartedKeptTwo
  <1>12. CASE Resolved(r)
    <2>1. PICK principal \in Principals, outcome \in ProviderOutcome,
               status \in {"completed", "failed"} :
            \/ Turned(r, status, <<Reconciled(status, principal)>>)
            \/ Turned(r, status, <<Observed(outcome, principal),
                                   Reconciled(status, principal)>>)
            \/ Turned(r, "unknown", <<Observed(outcome, principal)>>)
      BY <1>12 DEF Resolved
    <2>2. runs[r].policy \in Policies \cup {None} /\ runs[r].policy # None
      BY <1>1, <1>12, <2>1 DEF Resolved, Turned, Moved, Started, Executed
    <2>3. /\ Reconciled(status, principal) \in Events
          /\ Observed(outcome, principal) \in Events
          /\ Reconciled(status, principal).type # "tool.execution.started"
          /\ Observed(outcome, principal).type # "tool.execution.started"
      OBVIOUS
    <2>4. /\ runs[r].status \in Executed
          /\ status \in Executed
          /\ "unknown" \in Executed
      BY <1>12 DEF Resolved, Executed
    <2>5. PICK to, appended :
            /\ to \in Executed
            /\ Moved(r, to, runs[r].policy, runs[r].attempt, appended)
            /\ \/ appended = <<Reconciled(status, principal)>>
               \/ appended = <<Observed(outcome, principal)>>
               \/ appended = <<Observed(outcome, principal),
                               Reconciled(status, principal)>>
      BY <2>1, <2>4 DEF Turned
    <2> QED
      BY <2>2, <2>3, <2>4, <2>5, StartedKeptOne, StartedKeptTwo
  <1> QED
    BY <1>3, <1>4, <1>5, <1>6, <1>7, <1>8, <1>9, <1>10, <1>11, <1>12
       DEF ColumnStep

StartedInv == \A r \in RunIds : Started(r)

LEMMA StartedInvInit ==
  ASSUME Init
  PROVE  StartedInv
  <1>1. \A r \in RunIds : /\ runs[r].status = "absent"
                          /\ runs[r].attempt = 0
                          /\ events[r] = << >>
    BY DEF Init, NoRow
  <1>2. StartedOnce(<< >>) /\ Types(<< >>) = {}
    BY DEF StartedOnce, Types
  <1>3. \A r \in RunIds : /\ "tool.execution.started" \notin Types(events[r])
                          /\ StartedOnce(events[r])
    BY <1>1, <1>2
  <1>4. \A r \in RunIds : runs[r].status \notin Executed
    BY <1>1 DEF Executed
  <1> QED
    BY <1>1, <1>3, <1>4 DEF StartedInv, Started

LEMMA StartedInvHolds == Spec => []StartedInv
  <1>1. Init => StartedInv
    BY StartedInvInit
  <1>2. TypeOK /\ TrailInv /\ StartedInv /\ [Next]_vars => StartedInv'
    BY StepLocal, ColumnsOf, StartedStep DEF StartedInv, TrailInv
  <1> QED
    BY <1>1, <1>2, TypeCorrect, TrailInvHolds, PTL DEF Spec

(* Whatever workers, retries, sweeps and operators do, a run starts its tool *)
(* at most once, and the attempt counter a worker is handed says so.         *)
THEOREM StartedAtMostOnce == Spec => []OneExecution
  <1>1. StartedInv => OneExecution
    <2> SUFFICES ASSUME StartedInv, NEW r \in RunIds
                 PROVE  /\ runs[r].attempt \in {0, 1}
                        /\ (runs[r].attempt = 1)
                             = ("tool.execution.started" \in Types(events[r]))
                        /\ StartedOnce(events[r])
      BY Zenon DEF OneExecution, StartedOnce
    <2>1. Started(r)
      BY DEF StartedInv
    <2>2. runs[r].attempt = 1 <=> "tool.execution.started" \in Types(events[r])
      BY <2>1 DEF Started
    <2>3. runs[r].attempt \in {0, 1} /\ StartedOnce(events[r])
      BY <2>1 DEF Started
    <2>4. (runs[r].attempt = 1)
            = ("tool.execution.started" \in Types(events[r]))
      BY <2>2
    <2> QED
      BY <2>3, <2>4, Zenon
  <1> QED
    BY <1>1, StartedInvHolds, PTL

-----------------------------------------------------------------------------
(* Approvals and authority.                                                *)

ApprovalMatches(r) ==
  /\ approvals[r] = NoApproval =>
       runs[r].status \notin
         {"pending_approval", "approved", "rejected", "approval_expired"}
  /\ approvals[r] # NoApproval =>
       /\ approvals[r].request = runs[r].request
       /\ approvals[r].policy = runs[r].policy
       /\ IF approvals[r].status = "approved"
          THEN runs[r].status \in
                 {"approved", "executing", "completed", "failed", "unknown"}
          ELSE runs[r].status = approvals[r].status

LEMMA NoApprovalStatus == NoApproval.status = "none"
  BY DEF NoApproval

\* The approval row appears only when a policy asks for it.
LEMMA NoApprovalYet ==
  ASSUME TypeOK, NEW r \in RunIds, ApprovalMatches(r),
         runs[r].status \in {"absent", "created"}
  PROVE  approvals[r] = NoApproval
  BY DEF TypeOK, ApprovalMatches, Approval

\* A tool that was started without a pending verdict kept its approval.
LEMMA ApprovedByNow ==
  ASSUME TypeOK, NEW r \in RunIds, ApprovalMatches(r),
         runs[r].status \in Executed \cup {"approved"},
         approvals[r] # NoApproval
  PROVE  approvals[r].status = "approved"
  BY DEF TypeOK, ApprovalMatches, Approval, Executed

LEMMA ApprovalMatchesStep ==
  ASSUME TypeOK, NEW r \in RunIds, ApprovalMatches(r), ColumnStep(r)
  PROVE  ApprovalMatches(r)'
  <1>1. CASE Kept(r)
    BY <1>1 DEF Kept, Same, ApprovalMatches
  <1>2. CASE Entered(r)
    <2>1. approvals'[r] = NoApproval
      BY <1>2, NoRowColumns, NoApprovalYet DEF Entered, Same
    <2> QED
      BY <1>2, <2>1 DEF Entered, ApprovalMatches
  <1>3. CASE Permitted(r) \/ Denied(r)
    <2>1. approvals'[r] = NoApproval
      BY <1>3, NoApprovalYet DEF Permitted, Denied, Same
    <2>2. runs'[r].status \in {"created", "denied"}
      BY <1>3 DEF Permitted, Denied, Moved
    <2> QED
      BY <2>1, <2>2 DEF ApprovalMatches
  <1>4. CASE Asked(r)
    <2>1. PICK policy \in Policies, t \in Nat :
            /\ runs'[r].status = "pending_approval"
            /\ runs'[r].policy = policy
            /\ runs'[r].request = runs[r].request
            /\ approvals'[r] = NewApproval(r, policy, t)
      BY <1>4 DEF Asked, Moved
    <2>2. /\ approvals'[r].status = "pending_approval"
          /\ approvals'[r].request = runs[r].request
          /\ approvals'[r].policy = policy
      BY <2>1 DEF NewApproval
    <2>3. approvals'[r] # NoApproval
      BY <2>2, NoApprovalStatus
    <2> QED
      BY <2>1, <2>2, <2>3 DEF ApprovalMatches
  <1>5. ASSUME NEW status \in {"approved", "rejected"}, NEW type,
               Judged(r, status, type)
        PROVE  ApprovalMatches(r)'
    <2>1. PICK principal \in Principals :
            /\ Turned(r, status, <<Event(type, None, principal.actor)>>)
            /\ approvals'[r] = [approvals[r] EXCEPT
                  !.status = status, !.approver = principal.actor]
      BY <1>5 DEF Judged
    <2>2. /\ approvals'[r].status = status
          /\ approvals'[r].request = approvals[r].request
          /\ approvals'[r].policy = approvals[r].policy
      BY <1>5, <2>1 DEF Judged, Approval
    <2>3. approvals'[r] # NoApproval /\ approvals[r] # NoApproval
      BY <1>5, <2>2, NoApprovalStatus DEF Judged, Pending
    <2> QED
      BY <2>1, <2>2, <2>3 DEF ApprovalMatches, Turned, Moved
  <1>6. CASE Lapsed(r)
    <2>1. /\ approvals'[r].status = "approval_expired"
          /\ approvals'[r].request = approvals[r].request
          /\ approvals'[r].policy = approvals[r].policy
      BY <1>6 DEF Lapsed, Approval
    <2>2. approvals'[r] # NoApproval /\ approvals[r] # NoApproval
      BY <1>6, <2>1, NoApprovalStatus DEF Lapsed, Pending
    <2> QED
      BY <1>6, <2>1, <2>2 DEF ApprovalMatches, Lapsed, Turned, Moved
  <1>7. CASE Began(r) \/ Ended(r) \/ Resolved(r)
    <2>1. /\ Same(r)
          /\ runs[r].status \in Executed \cup {"approved", "created"}
          /\ runs'[r].status \in Executed
          /\ runs'[r].policy = runs[r].policy
          /\ runs'[r].request = runs[r].request
      BY <1>7 DEF Began, Ended, Resolved, Claimable, Turned, Moved, Executed
    <2>2. CASE approvals[r] = NoApproval
      BY <2>1, <2>2 DEF Same, ApprovalMatches, Executed
    <2>3. CASE approvals[r] # NoApproval
      <3>1. approvals[r].status = "approved"
        BY <2>1, <2>3, NoApprovalYet, ApprovedByNow
      <3> QED
        BY <2>1, <2>3, <3>1 DEF Same, ApprovalMatches, Executed
    <2> QED
      BY <2>2, <2>3
  <1> QED
    BY <1>1, <1>2, <1>3, <1>4, <1>5, <1>6, <1>7 DEF ColumnStep

ApprovalInv == \A r \in RunIds : ApprovalMatches(r)

LEMMA ApprovalInvInit ==
  ASSUME Init
  PROVE  ApprovalInv
  <1>1. \A r \in RunIds : /\ runs[r].status = "absent"
                          /\ approvals[r] = NoApproval
    BY NoRowColumns DEF Init
  <1> QED
    BY <1>1 DEF ApprovalInv, ApprovalMatches

LEMMA ApprovalInvStep ==
  ASSUME TypeOK, ApprovalInv, [Next]_vars
  PROVE  ApprovalInv'
  <1>1. ASSUME NEW r \in RunIds
        PROVE  ApprovalMatches(r)'
    BY StepLocal, ColumnsOf, ApprovalMatchesStep DEF ApprovalInv
  <1> QED
    BY <1>1 DEF ApprovalInv

LEMMA ApprovalInvHolds == Spec => []ApprovalInv
  <1>1. Init => ApprovalInv
    BY ApprovalInvInit
  <1>2. TypeOK /\ ApprovalInv /\ [Next]_vars => ApprovalInv'
    BY ApprovalInvStep
  <1> QED
    BY <1>1, <1>2, TypeCorrect, PTL DEF Spec

(* The approval row and the run row never tell different stories, and an     *)
(* approval stays bound to the request and the policy it was asked for,      *)
(* whatever sweeps, approvers and workers do meanwhile.                      *)
THEOREM ApprovalsAgree == Spec => []ApprovalAgrees
  <1>1. ApprovalInv => ApprovalAgrees
    BY DEF ApprovalInv, ApprovalMatches, ApprovalAgrees
  <1> QED
    BY <1>1, ApprovalInvHolds, PTL

Recorded(trail, event) == \E i \in DOMAIN trail : trail[i] = event

(* A trail forgets nothing, and records what is appended. *)
LEMMA RecordedAppend ==
  ASSUME NEW trail \in Seq(Events), NEW event \in Events
  PROVE  /\ Recorded(trail \o <<event>>, event)
         /\ \A e : Recorded(trail, e) => Recorded(trail \o <<event>>, e)
  <1> DEFINE longer == trail \o <<event>>
  <1>1. /\ DOMAIN longer = 1..(Len(trail) + 1)
        /\ \A i \in 1..Len(trail) : longer[i] = trail[i]
        /\ longer[Len(trail) + 1] = event
        /\ Len(trail) \in Nat
        /\ DOMAIN trail = 1..Len(trail)
    BY AppendOne
  <1> HIDE DEF longer
  <1>2. Recorded(longer, event)
    BY <1>1 DEF Recorded
  <1>3. ASSUME NEW e, Recorded(trail, e)
        PROVE  Recorded(longer, e)
    <2>1. PICK i \in 1..Len(trail) : trail[i] = e
      BY <1>1, <1>3 DEF Recorded
    <2>2. i \in DOMAIN longer /\ longer[i] = e
      BY <1>1, <2>1
    <2> QED
      BY <2>2 DEF Recorded
  <1> QED
    BY <1>2, <1>3 DEF longer

LEMMA RecordedAppendTwo ==
  ASSUME NEW trail \in Seq(Events), NEW first \in Events, NEW second \in Events
  PROVE  \A e : Recorded(trail, e) => Recorded(trail \o <<first, second>>, e)
  <1> DEFINE longer == trail \o <<first>>
  <1>1. longer \in Seq(Events)
    BY AppendOne
  <1>2. \A e : Recorded(trail, e) => Recorded(longer, e)
    BY RecordedAppend
  <1>3. trail \o <<first, second>> = longer \o <<second>>
    BY AppendTwo
  <1> HIDE DEF longer
  <1>4. \A e : Recorded(longer, e) => Recorded(longer \o <<second>>, e)
    BY <1>1, RecordedAppend
  <1> QED
    BY <1>2, <1>3, <1>4

\* What makes a run claimable without a person: the policy it holds allowed it.
AllowedBy(r) ==
  /\ approvals[r] = NoApproval
  /\ runs[r].status \in Executed \cup {"created"}
  /\ runs[r].policy # None
  => Recorded(events[r], Checked("allow", runs[r].policy))

\* A person who approved was entitled to, and the trail names them.
Approved(r) ==
  approvals[r].status = "approved" =>
    \E p \in Principals :
      /\ p.actor = approvals[r].approver
      /\ p.tenant = runs[r].request.tenant
      /\ p.approver
      /\ AllowSelfApproval \/ p.actor # runs[r].request.actor
      /\ Recorded(events[r], Event("approval.approved", None, p.actor))

\* Whatever a step appends, the trail still records what it recorded.
LEMMA RecordedStep ==
  ASSUME TypeOK, NEW r \in RunIds, ColumnStep(r), NEW e, Recorded(events[r], e)
  PROVE  Recorded(events'[r], e)
  <1> USE AppendedTyped
  <1>1. events[r] \in Seq(Events)
    BY DEF TypeOK
  <1>2. ASSUME NEW event \in Events, events'[r] = events[r] \o <<event>>
        PROVE  Recorded(events'[r], e)
    BY <1>1, <1>2, RecordedAppend
  <1>3. ASSUME NEW first \in Events, NEW second \in Events,
               events'[r] = events[r] \o <<first, second>>
        PROVE  Recorded(events'[r], e)
    BY <1>1, <1>3, RecordedAppendTwo
  <1>4. CASE Kept(r)
    BY <1>4 DEF Kept
  <1>5. CASE Entered(r)
    BY <1>2, <1>5 DEF Entered, EventType
  <1>6. CASE Permitted(r)
    BY <1>2, <1>6 DEF Permitted, Moved, PolicyOutcome
  <1>7. CASE Denied(r)
    BY <1>3, <1>7 DEF Denied, Moved, PolicyOutcome, EventType
  <1>8. CASE Asked(r)
    BY <1>3, <1>8 DEF Asked, Moved, PolicyOutcome, EventType
  <1>9. ASSUME NEW status, NEW type \in {"approval.approved", "approval.rejected"},
               Judged(r, status, type)
        PROVE  Recorded(events'[r], e)
    <2>1. PICK principal \in Principals :
            events'[r] = events[r] \o <<Event(type, None, principal.actor)>>
      BY <1>9 DEF Judged, Turned, Moved
    <2>2. Event(type, None, principal.actor) \in Events
      BY DEF EventType
    <2> QED
      BY <1>2, <2>1, <2>2
  <1>10. CASE Lapsed(r)
    BY <1>2, <1>10 DEF Lapsed, Turned, Moved, EventType
  <1>11. CASE Began(r)
    BY <1>2, <1>3, <1>11 DEF Began, Moved, EventType
  <1>12. CASE Ended(r)
    BY <1>2, <1>3, <1>12 DEF Ended, Turned, Moved, EventType
  <1>13. CASE Resolved(r)
    BY <1>2, <1>3, <1>13 DEF Resolved, Turned, Moved
  <1> QED
    BY <1>4, <1>5, <1>6, <1>7, <1>8, <1>9, <1>10, <1>11, <1>12, <1>13
       DEF ColumnStep

LEMMA AllowedByStep ==
  ASSUME TypeOK, NEW r \in RunIds, ApprovalMatches(r), AllowedBy(r),
         ColumnStep(r)
  PROVE  AllowedBy(r)'
  <1>1. CASE Kept(r)
    BY <1>1 DEF Kept, Same, AllowedBy
  <1>2. CASE Entered(r)
    BY <1>2 DEF Entered, AllowedBy
  <1>3. CASE Permitted(r)
    <2>1. PICK policy \in Policies :
            /\ runs'[r].policy = policy
            /\ events'[r] = events[r] \o <<Checked("allow", policy)>>
      BY <1>3 DEF Permitted, Moved
    <2>2. Checked("allow", policy) \in Events /\ events[r] \in Seq(Events)
      BY AppendedTyped DEF PolicyOutcome, TypeOK
    <2>3. Recorded(events'[r], Checked("allow", policy))
      BY <2>1, <2>2, RecordedAppend
    <2> QED
      BY <2>1, <2>3 DEF AllowedBy
  <1>4. CASE Denied(r)
    BY <1>4 DEF Denied, Moved, AllowedBy, Executed
  <1>5. CASE Asked(r)
    BY <1>5 DEF Asked, Moved, AllowedBy, Executed
  <1>6. ASSUME NEW status \in {"approved", "rejected"}, NEW type,
               Judged(r, status, type)
        PROVE  AllowedBy(r)'
    BY <1>6 DEF Judged, Turned, Moved, AllowedBy, Executed
  <1>7. CASE Lapsed(r)
    BY <1>7 DEF Lapsed, Turned, Moved, AllowedBy, Executed
  <1>8. CASE Began(r) \/ Ended(r) \/ Resolved(r)
    <2>1. /\ Same(r)
          /\ runs[r].status \in Executed \cup {"approved", "created"}
          /\ runs'[r].policy = runs[r].policy
      BY <1>8 DEF Began, Ended, Resolved, Claimable, Turned, Moved, Executed
    <2>2. approvals[r] = NoApproval => runs[r].status # "approved"
      BY DEF ApprovalMatches
    <2>3. ASSUME approvals'[r] = NoApproval, runs'[r].policy # None
          PROVE  Recorded(events'[r], Checked("allow", runs'[r].policy))
      <3>1. Recorded(events[r], Checked("allow", runs[r].policy))
        BY <2>1, <2>2, <2>3 DEF AllowedBy, Same
      <3> QED
        BY <2>1, <3>1, RecordedStep
    <2> QED
      BY <2>3 DEF AllowedBy
  <1> QED
    BY <1>1, <1>2, <1>3, <1>4, <1>5, <1>6, <1>7, <1>8 DEF ColumnStep

LEMMA ApprovedStep ==
  ASSUME TypeOK, NEW r \in RunIds, ApprovalMatches(r), Approved(r),
         ColumnStep(r)
  PROVE  Approved(r)'
  <1>1. ASSUME Same(r), runs'[r].request = runs[r].request
        PROVE  Approved(r)'
    BY <1>1, RecordedStep DEF Same, Approved
  <1>2. CASE Entered(r)
    <2>1. approvals'[r].status = "none"
      BY <1>2, NoRowColumns, NoApprovalYet, NoApprovalStatus DEF Entered, Same
    <2> QED
      BY <2>1 DEF Approved
  <1>3. CASE Asked(r)
    <2>1. approvals'[r].status = "pending_approval"
      BY <1>3 DEF Asked, NewApproval
    <2> QED
      BY <2>1 DEF Approved
  <1>4. CASE Judged(r, "approved", "approval.approved")
    <2>1. PICK principal \in Principals :
            /\ Eligible(r, principal)
            /\ runs'[r].request = runs[r].request
            /\ approvals'[r] = [approvals[r] EXCEPT
                  !.status = "approved", !.approver = principal.actor]
            /\ events'[r] = events[r]
                 \o <<Event("approval.approved", None, principal.actor)>>
      BY <1>4 DEF Judged, Turned, Moved
    <2>2. approvals'[r].approver = principal.actor
      BY <1>4, <2>1 DEF Judged, Approval
    <2>3. approvals[r] # NoApproval
      BY <1>4, NoApprovalStatus DEF Judged, Pending
    <2>4. approvals[r].request = runs[r].request
      BY <2>3 DEF ApprovalMatches
    <2>5. /\ Event("approval.approved", None, principal.actor) \in Events
          /\ events[r] \in Seq(Events)
      BY AppendedTyped DEF EventType, TypeOK
    <2>6. Recorded(events'[r], Event("approval.approved", None, principal.actor))
      BY <2>1, <2>5, RecordedAppend
    <2> QED
      BY <2>1, <2>2, <2>4, <2>6 DEF Eligible, Approved
  <1>8. CASE Judged(r, "rejected", "approval.rejected")
    <2>1. approvals'[r].status = "rejected"
      BY <1>8 DEF Judged, Approval
    <2> QED
      BY <2>1 DEF Approved
  <1>5. CASE Lapsed(r)
    <2>1. approvals'[r].status = "approval_expired"
      BY <1>5 DEF Lapsed, Approval
    <2> QED
      BY <2>1 DEF Approved
  <1>6. CASE Permitted(r) \/ Denied(r) \/ Began(r) \/ Ended(r) \/ Resolved(r)
    <2>1. Same(r) /\ runs'[r].request = runs[r].request
      BY <1>6 DEF Permitted, Denied, Began, Ended, Resolved, Turned, Moved
    <2> QED
      BY <2>1, <1>1
  <1>7. CASE Kept(r)
    BY <1>1, <1>7 DEF Kept
  <1> QED
    BY <1>2, <1>3, <1>4, <1>5, <1>6, <1>7, <1>8 DEF ColumnStep

AuthorityInv == \A r \in RunIds : AllowedBy(r) /\ Approved(r)

LEMMA AuthorityInvInit ==
  ASSUME Init
  PROVE  AuthorityInv
  <1>1. \A r \in RunIds : /\ runs[r].status = "absent"
                          /\ approvals[r].status = "none"
    BY NoRowColumns, NoApprovalStatus DEF Init
  <1> QED
    BY <1>1 DEF AuthorityInv, AllowedBy, Approved, Executed

LEMMA AuthorityInvHolds == Spec => []AuthorityInv
  <1>1. Init => AuthorityInv
    BY AuthorityInvInit
  <1>2. TypeOK /\ ApprovalInv /\ AuthorityInv /\ [Next]_vars => AuthorityInv'
    BY StepLocal, ColumnsOf, AllowedByStep, ApprovedStep
       DEF ApprovalInv, AuthorityInv
  <1> QED
    BY <1>1, <1>2, TypeCorrect, ApprovalInvHolds, PTL DEF Spec

(* The four invariants together leave a started tool no way but the two the  *)
(* property names. *)
LEMMA AuthorityFollows ==
  ASSUME TypeOK, StartedInv, ApprovalInv, AuthorityInv
  PROVE  ExecutionIsAuthorised
  <1> SUFFICES ASSUME NEW r \in RunIds,
                      "tool.execution.started" \in Types(events[r])
               PROVE  \/ /\ approvals[r] = NoApproval
                         /\ Recorded(events[r], Checked("allow", runs[r].policy))
                      \/ /\ approvals[r].status = "approved"
                         /\ approvals[r].policy = runs[r].policy
                         /\ approvals[r].request = runs[r].request
                         /\ \E p \in Principals :
                              /\ p.actor = approvals[r].approver
                              /\ p.tenant = runs[r].request.tenant
                              /\ p.approver
                              /\ AllowSelfApproval
                                   \/ p.actor # runs[r].request.actor
    BY DEF ExecutionIsAuthorised, Recorded, Checked
  <1>1. runs[r].status \in Executed /\ runs[r].policy # None
    BY DEF StartedInv, Started
  <1>2. ApprovalMatches(r) /\ AllowedBy(r) /\ Approved(r)
    BY DEF ApprovalInv, AuthorityInv
  <1>3. CASE approvals[r] = NoApproval
    BY <1>1, <1>2, <1>3 DEF AllowedBy
  <1>4. CASE approvals[r] # NoApproval
    <2>1. approvals[r].status = "approved"
      BY <1>1, <1>2, <1>4, ApprovedByNow
    <2> QED
      BY <1>2, <1>4, <2>1 DEF ApprovalMatches, Approved
  <1> QED
    BY <1>3, <1>4

(* Whatever was decided, re-decided, approved or claimed in between: a tool  *)
(* that was started had been cleared for the very request and policy its run *)
(* holds, by a policy's "allow" or by an entitled person of the tenant.      *)
THEOREM ExecutionsAreAuthorised == Spec => []ExecutionIsAuthorised
  <1>1. TypeOK /\ StartedInv /\ ApprovalInv /\ AuthorityInv
          => ExecutionIsAuthorised
    BY AuthorityFollows
  <1> QED
    BY <1>1, TypeCorrect, StartedInvHolds, ApprovalInvHolds, AuthorityInvHolds, PTL

-----------------------------------------------------------------------------
(* One run per business identity.                                          *)

\* A run that has a row keeps it, and with it the governed request.
LEMMA RequestKept ==
  ASSUME TypeOK, [Next]_vars, NEW r \in RunIds, runs[r] # NoRow
  PROVE  runs'[r] # NoRow /\ runs'[r].request = runs[r].request
  <1>1. runs[r].status # "absent"
    BY DEF TypeOK, Row, ActionStatus, Terminal
  <1>2. ColumnStep(r)
    BY StepLocal, ColumnsOf
  <1>3. runs'[r].request = runs[r].request
    BY <1>2 DEF ColumnStep, Kept, Entered, Permitted, Denied, Asked, Judged,
                Lapsed, Began, Ended, Resolved, Turned, Moved
  <1>4. runs'[r].status # "absent"
    BY <1>1, <1>2
       DEF ColumnStep, Kept, Entered, Permitted, Denied, Asked, Judged,
           Lapsed, Began, Ended, Resolved, Turned, Moved
  <1> QED
    BY <1>3, <1>4, NoRowColumns

\* A row appears by its creation only.
LEMMA OnlyCreateEnters ==
  ASSUME TypeOK, [Next]_vars, NEW r \in RunIds, runs[r] = NoRow,
         runs'[r] # NoRow
  PROVE  \E request \in Requests : CreateRun(r, request)
  <1>1. runs[r].status = "absent"
    BY NoRowColumns
  <1>2. \/ UNCHANGED runs
        \/ \E s \in RunIds, request \in Requests : CreateRun(s, request)
        \/ \E S \in SUBSET RunIds :
             /\ \A s \in S : runs[s].status # "absent"
             /\ \A s \in RunIds \ S : runs'[s] = runs[s]
    <2> DEFINE Others(s) == \A u \in RunIds \ {s} : runs'[u] = runs[u]
    <2>1. ASSUME NEW s \in RunIds, NEW row, NEW appended,
                 Commit(s, row, appended)
          PROVE  Others(s)
      BY <2>1 DEF TypeOK, Commit
    <2>2. ASSUME NEW scope \in Scopes, NEW t \in SampledNow,
                 \/ ExpireApprovals(scope, t)
                 \/ RecoverExpiredExecutions(scope, t)
          PROVE  \E S \in SUBSET RunIds :
                   /\ \A s \in S : runs[s].status # "absent"
                   /\ \A s \in RunIds \ S : runs'[s] = runs[s]
      <3>1. CASE ExpireApprovals(scope, t)
        <4> DEFINE S == {s \in RunIds : /\ Pending(s) /\ Overdue(s, t)
                                        /\ runs[s].request.tenant \in scope}
        <4> WITNESS S \in SUBSET RunIds
        <4> QED
          BY <3>1 DEF ExpireApprovals, ExpireApproval, Pending
      <3>2. CASE RecoverExpiredExecutions(scope, t)
        <4> DEFINE S == {s \in RunIds : /\ LeaseExpired(s, t)
                                        /\ runs[s].request.tenant \in scope}
        <4> WITNESS S \in SUBSET RunIds
        <4> QED
          BY <3>2 DEF RecoverExpiredExecutions, MarkExpiredExecution,
                      LeaseExpired
      <3> QED
        BY <2>2, <3>1, <3>2
    <2>3. ASSUME NEW s \in RunIds, runs[s].status # "absent", Others(s)
          PROVE  \E S \in SUBSET RunIds :
                   /\ \A u \in S : runs[u].status # "absent"
                   /\ \A u \in RunIds \ S : runs'[u] = runs[u]
      <3> WITNESS {s} \in SUBSET RunIds
      <3> QED
        BY <2>3
    <2>4. ASSUME NEW s \in RunIds, RecordDuplicate(s)
          PROVE  runs[s].status # "absent" /\ Others(s)
      BY <2>4 DEF RecordDuplicate, TypeOK, Row, ActionStatus, Terminal
    <2>5. ASSUME NEW s \in RunIds, NEW owner \in Owners,
                 \/ CompleteExecution(s, owner)
                 \/ FailExecution(s, owner)
                 \/ MarkExecutionUnknown(s, owner)
          PROVE  runs[s].status # "absent" /\ Others(s)
      BY <2>1, <2>5 DEF CompleteExecution, FailExecution,
         MarkExecutionUnknown, FinishExecution
    <2>6. ASSUME NEW s \in RunIds, NEW principal \in Principals,
                 \/ \E status \in {"completed", "failed"} :
                      ReconcileRun(s, status, principal)
                 \/ \E outcome \in ProviderOutcome :
                      ApplyProviderObservation(s, outcome, principal)
          PROVE  runs[s].status # "absent" /\ Others(s)
      BY <2>1, <2>6
         DEF ReconcileRun, ApplyProviderObservation, Reconcilable
    <2>7. ASSUME NEW s \in RunIds, NEW t \in SampledNow,
                 NEW outcome \in PolicyOutcome, NEW policy \in Policies,
                 RecordPolicyDecision(s, outcome, policy, t)
          PROVE  runs[s].status # "absent" /\ Others(s)
      BY <2>1, <2>7 DEF RecordPolicyDecision
    <2>8. ASSUME NEW s \in RunIds, NEW t \in SampledNow,
                 NEW approved \in BOOLEAN, NEW principal \in Principals,
                 DecideApproval(s, approved, principal, t)
          PROVE  runs[s].status # "absent" /\ Others(s)
      <3>1. CASE Overdue(s, t)
        BY <2>8, <3>1 DEF DecideApproval, Pending, ExpireApproval
      <3>2. CASE ~Overdue(s, t)
        BY <2>1, <2>8, <3>2 DEF DecideApproval, Pending
      <3> QED
        BY <3>1, <3>2
    <2>9. ASSUME NEW s \in RunIds, NEW t \in SampledNow, NEW owner \in Owners,
                 ClaimExecution(s, owner, t) \/ HeartbeatExecution(s, owner, t)
          PROVE  runs[s].status # "absent" /\ Others(s)
      <3>1. CASE HeartbeatExecution(s, owner, t)
        BY <3>1 DEF HeartbeatExecution, TypeOK
      <3>2. CASE LeaseExpired(s, t) /\ MarkExpiredExecution({s})
        BY <3>2 DEF LeaseExpired, MarkExpiredExecution
      <3>3. CASE ~HeartbeatExecution(s, owner, t)
                 /\ ~(LeaseExpired(s, t) /\ MarkExpiredExecution({s}))
        <4>1. Claimable(s) /\ \E row, appended : Commit(s, row, appended)
          BY <2>9, <3>3 DEF ClaimExecution
        <4> QED
          BY <2>1, <4>1 DEF Claimable
      <3> QED
        BY <3>1, <3>2, <3>3
    <2> HIDE DEF Others
    <2>10. CASE Tick \/ UNCHANGED vars
      BY <2>10 DEF Tick, vars
    <2> QED
      BY <2>2, <2>3, <2>4, <2>5, <2>6, <2>7, <2>8, <2>9, <2>10 DEF Next
  <1>3. ASSUME NEW s \in RunIds, NEW request \in Requests,
               CreateRun(s, request)
        PROVE  s = r
    BY <1>3 DEF TypeOK, CreateRun, Commit
  <1> QED
    BY <1>1, <1>2, <1>3

LEMMA UniqueIdentityStep ==
  ASSUME TypeOK, UniqueIdentity, [Next]_vars
  PROVE  UniqueIdentity'
  <1>1. ASSUME NEW r \in RunIds, NEW s \in RunIds, runs[r] = NoRow,
               runs'[r] # NoRow, runs'[s] # NoRow, r # s,
               Identity(runs'[r].request) = Identity(runs'[s].request)
        PROVE  FALSE
    <2>1. PICK request \in Requests : CreateRun(r, request)
      BY <1>1, OnlyCreateEnters
    <2>2. /\ runs'[s] = runs[s]
          /\ runs'[r].request = request
      BY <1>1, <2>1 DEF CreateRun, Commit, TypeOK, NoRow
    <2>3. s \in Stored(request)
      BY <1>1, <2>2 DEF Stored
    <2> QED
      BY <2>1, <2>3 DEF CreateRun
  <1>2. ASSUME NEW r \in RunIds, NEW s \in RunIds, runs[r] # NoRow,
               runs[s] # NoRow,
               Identity(runs'[r].request) = Identity(runs'[s].request)
        PROVE  r = s
    <2>1. Identity(runs[r].request) = Identity(runs[s].request)
      BY <1>2, RequestKept
    <2> QED
      BY <1>2, <2>1 DEF UniqueIdentity
  <1> SUFFICES ASSUME NEW r \in RunIds, NEW s \in RunIds,
                      runs'[r] # NoRow, runs'[s] # NoRow,
                      Identity(runs'[r].request) = Identity(runs'[s].request)
               PROVE  r = s
    BY DEF UniqueIdentity, Identity
  <1> QED
    BY <1>1, <1>2

(* However many submissions of one business identity race, there is one run  *)
(* for it, and with it one governed request.                                 *)
THEOREM OneRunPerIdentity == Spec => []UniqueIdentity
  <1>1. Init => UniqueIdentity
    BY DEF Init, UniqueIdentity
  <1>2. TypeOK /\ UniqueIdentity /\ [Next]_vars => UniqueIdentity'
    BY UniqueIdentityStep
  <1> QED
    BY <1>1, <1>2, TypeCorrect, PTL DEF Spec

-----------------------------------------------------------------------------
(* Action properties.                                                      *)

(* An uncertain run is settled only by a reconciliation that names an        *)
(* operator of the run's own tenant, never by a worker, a sweep or a retry.  *)
THEOREM UnknownWaitsForAnOperator == Spec => UnknownNeedsAnOperator
  <1>1. ASSUME TypeOK, [Next]_vars, NEW r \in RunIds,
               runs[r].status = "unknown", runs'[r].status # "unknown"
        PROVE  \E p \in Principals :
                 /\ p.tenant = runs[r].request.tenant
                 /\ events'[r][Len(events'[r])] =
                      Event("run.reconciled", runs'[r].status, p.actor)
    <2>1. ColumnStep(r)
      BY <1>1, StepLocal, ColumnsOf
    <2>2. Resolved(r)
      BY <1>1, <2>1, NoRowColumns
         DEF ColumnStep, Kept, Entered, Permitted, Denied, Asked, Judged,
             Lapsed, Pending, Began, Claimable, Ended
    <2>3. PICK principal \in Principals, outcome \in ProviderOutcome,
               status \in {"completed", "failed"} :
            /\ principal.tenant = runs[r].request.tenant
            /\ \/ Turned(r, status, <<Reconciled(status, principal)>>)
               \/ Turned(r, status, <<Observed(outcome, principal),
                                      Reconciled(status, principal)>>)
               \/ Turned(r, "unknown", <<Observed(outcome, principal)>>)
      BY <2>2 DEF Resolved
    <2>4. /\ Reconciled(status, principal) \in Events
          /\ Observed(outcome, principal) \in Events
      BY AppendedTyped
    <2>5. /\ runs'[r].status = status
          /\ Last(events'[r]) = Reconciled(status, principal)
      BY <1>1, <2>3, <2>4, EndsWithOne, EndsWithTwo DEF Turned, Moved
    <2> QED
      BY <2>3, <2>5 DEF Last, Reconciled
  <1>2. TypeOK /\ [Next]_vars =>
          [\A r \in RunIds :
             runs[r].status = "unknown" /\ runs'[r].status # "unknown" =>
               \E p \in Principals :
                 /\ p.tenant = runs[r].request.tenant
                 /\ events'[r][Len(events'[r])] =
                      Event("run.reconciled", runs'[r].status, p.actor)]_vars
    BY <1>1
  <1> QED
    BY <1>2, TypeCorrect, PTL DEF Spec, UnknownNeedsAnOperator

(* An approval is granted before its expiry, up to the time the decision may *)
(* have waited for the write lock: the decision compares the expiry with the *)
(* time it sampled before it waited.                                         *)
THEOREM ApprovedInTime == Spec => ApprovalInTime
  <1>1. ASSUME TypeOK, [Next]_vars, NEW r \in RunIds,
               approvals[r].status = "pending_approval",
               approvals'[r].status = "approved"
        PROVE  clock < approvals[r].expires + BusyTimeout
    <2>1. ColumnStep(r)
      BY <1>1, StepLocal, ColumnsOf
    <2>2. ~Same(r)
      BY <1>1 DEF Same
    <2>3. ~Asked(r)
      <3>1. \A policy, t : NewApproval(r, policy, t).status = "pending_approval"
        BY DEF NewApproval
      <3> QED
        BY <1>1, <3>1 DEF Asked
    <2>4. ~Lapsed(r)
      BY <1>1 DEF Lapsed, Approval
    <2>5. \/ Judged(r, "approved", "approval.approved")
          \/ Judged(r, "rejected", "approval.rejected")
      BY <2>1, <2>2, <2>3, <2>4
         DEF ColumnStep, Kept, Entered, Permitted, Denied, Began, Ended, Resolved
    <2> QED
      BY <2>5 DEF Judged
  <1>2. TypeOK /\ [Next]_vars =>
          [\A r \in RunIds :
             approvals[r].status = "pending_approval"
               /\ approvals'[r].status = "approved"
             => clock < approvals[r].expires + BusyTimeout]_vars
    BY <1>1
  <1> QED
    BY <1>2, TypeCorrect, PTL DEF Spec, ApprovalInTime

\* The execution goes on with its owner, or that owner reports it.
Held(r) ==
  \/ /\ runs'[r].status = "executing"
     /\ runs'[r].owner = runs[r].owner
  \/ ReportExecution(r, runs[r].owner)

\* What a step leaves an execution whose lease is live.
LEMMA HeldStep ==
  ASSUME TypeOK, LeaseDiscipline, [Next]_vars, NEW r \in RunIds,
         runs[r].status = "executing", runs[r].lease > clock
  PROVE  Held(r)
  <1>t. /\ runs \in [RunIds -> Row \cup {NoRow}]
        /\ runs[r] # NoRow
        /\ clock \in Nat
        /\ runs[r].lease \in Nat
    BY RowTyped DEF TypeOK, Row, LeaseDiscipline, NoRow
  <1>n. \A t \in SampledNow : ~LeaseExpired(r, t)
    BY <1>t DEF SampledNow, LeaseExpired
  <1>p. ~Pending(r) /\ ~Claimable(r)
    BY DEF Pending, Claimable
  <1>k. ASSUME runs'[r] = runs[r]
        PROVE  Held(r)
    BY <1>k DEF Held
  <1>1. ASSUME NEW s \in RunIds, NEW request \in Requests, CreateRun(s, request)
        PROVE  Held(r)
    <2>1. runs'[r] = runs[r]
      BY <1>1, <1>t DEF CreateRun, Commit
    <2> QED
      BY <1>k, <2>1
  <1>2. ASSUME NEW s \in RunIds, RecordDuplicate(s)
        PROVE  Held(r)
    <2>1. /\ runs'[r].status = runs[r].status
          /\ runs'[r].owner = runs[r].owner
      BY <1>2, <1>t, RowTyped DEF RecordDuplicate, Row
    <2> QED
      BY <2>1 DEF Held
  <1>3. ASSUME NEW s \in RunIds, NEW owner \in Owners,
               \/ CompleteExecution(s, owner)
               \/ FailExecution(s, owner)
               \/ MarkExecutionUnknown(s, owner)
        PROVE  Held(r)
    <2>1. CASE s = r
      <3>1. owner = runs[r].owner
        BY <1>3, <2>1 DEF CompleteExecution, FailExecution,
           MarkExecutionUnknown, FinishExecution
      <3> QED
        BY <1>3, <2>1, <3>1 DEF Held, ReportExecution
    <2>2. CASE s # r
      <3>1. runs'[r] = runs[r]
        BY <1>3, <1>t, <2>2 DEF CompleteExecution, FailExecution,
           MarkExecutionUnknown, FinishExecution, Commit
      <3> QED
        BY <1>k, <3>1
    <2> QED
      BY <2>1, <2>2
  <1>4. ASSUME NEW s \in RunIds, NEW principal \in Principals,
               \/ \E status \in {"completed", "failed"} :
                    ReconcileRun(s, status, principal)
               \/ \E outcome \in ProviderOutcome :
                    ApplyProviderObservation(s, outcome, principal)
        PROVE  Held(r)
    <2>1. s # r
      BY <1>4 DEF ReconcileRun, ApplyProviderObservation, Reconcilable
    <2>2. runs'[r] = runs[r]
      BY <1>4, <1>t, <2>1 DEF ReconcileRun, ApplyProviderObservation, Commit
    <2> QED
      BY <1>k, <2>2
  <1>5. ASSUME NEW s \in RunIds, NEW t \in SampledNow,
               NEW outcome \in PolicyOutcome, NEW policy \in Policies,
               RecordPolicyDecision(s, outcome, policy, t)
        PROVE  Held(r)
    <2>1. runs[s].status = "created"
      BY <1>5 DEF RecordPolicyDecision
    <2>2. s # r
      BY <2>1
    <2>3. \E row, appended : Commit(s, row, appended)
      BY <1>5 DEF RecordPolicyDecision
    <2>4. runs'[r] = runs[r]
      BY <1>t, <2>2, <2>3 DEF Commit
    <2> QED
      BY <1>k, <2>4
  <1>6. ASSUME NEW S \in SUBSET RunIds, r \notin S, ExpireApproval(S)
        PROVE  Held(r)
    <2>1. runs'[r] = runs[r]
      BY <1>6 DEF ExpireApproval
    <2> QED
      BY <1>k, <2>1
  <1>7. ASSUME NEW s \in RunIds, NEW t \in SampledNow, NEW approved \in BOOLEAN,
               NEW principal \in Principals,
               DecideApproval(s, approved, principal, t)
        PROVE  Held(r)
    <2>1. Pending(s)
      BY <1>7 DEF DecideApproval
    <2>2. s # r
      BY <1>p, <2>1
    <2>3. CASE ExpireApproval({s})
      BY <1>6, <2>2, <2>3
    <2>4. CASE \E row, appended : Commit(s, row, appended)
      <3>1. runs'[r] = runs[r]
        BY <1>t, <2>2, <2>4 DEF Commit
      <3> QED
        BY <1>k, <3>1
    <2> QED
      BY <1>7, <2>3, <2>4 DEF DecideApproval
  <1>8. ASSUME NEW scope \in Scopes, NEW t \in SampledNow, ExpireApprovals(scope, t)
        PROVE  Held(r)
    BY <1>6, <1>8, <1>p DEF ExpireApprovals
  <1>9. ASSUME NEW S \in SUBSET RunIds, r \notin S, MarkExpiredExecution(S)
        PROVE  Held(r)
    <2>1. runs'[r] = runs[r]
      BY <1>9 DEF MarkExpiredExecution
    <2> QED
      BY <1>k, <2>1
  <1>10. ASSUME NEW scope \in Scopes, NEW t \in SampledNow,
                RecoverExpiredExecutions(scope, t)
         PROVE  Held(r)
    BY <1>9, <1>10, <1>n DEF RecoverExpiredExecutions
  <1>11. ASSUME NEW s \in RunIds, NEW t \in SampledNow, NEW owner \in Owners,
                ClaimExecution(s, owner, t)
         PROVE  Held(r)
    <2>1. s # r
      BY <1>11, <1>n, <1>p DEF ClaimExecution
    <2>2. CASE MarkExpiredExecution({s})
      BY <1>9, <2>1, <2>2
    <2>3. CASE \E row, appended : Commit(s, row, appended)
      <3>1. runs'[r] = runs[r]
        BY <1>t, <2>1, <2>3 DEF Commit
      <3> QED
        BY <1>k, <3>1
    <2> QED
      BY <1>11, <2>2, <2>3 DEF ClaimExecution
  <1>12. ASSUME NEW s \in RunIds, NEW t \in SampledNow, NEW owner \in Owners,
                HeartbeatExecution(s, owner, t)
         PROVE  Held(r)
    <2>1. /\ runs'[r].status = runs[r].status
          /\ runs'[r].owner = runs[r].owner
      BY <1>12, <1>t, RowTyped DEF HeartbeatExecution, Row
    <2> QED
      BY <2>1 DEF Held
  <1>13. ASSUME Tick \/ UNCHANGED vars
         PROVE  Held(r)
    BY <1>13, <1>k DEF Tick, vars
  <1> QED
    BY <1>1, <1>2, <1>3, <1>4, <1>5, <1>7, <1>8, <1>10, <1>11, <1>12, <1>13
       DEF Next

(* While a lease is live the execution is its owner's alone: it goes on with *)
(* that owner or ends by that owner's report, whatever is claimed, swept,    *)
(* renewed or reported by others.                                            *)
THEOREM LiveLeaseIsNotTaken == Spec => LiveLeaseIsExclusive
  <1>1. ASSUME NEW r \in RunIds, NEW owner \in Owners, ReportExecution(r, owner)
        PROVE  owner = runs[r].owner
    BY <1>1 DEF ReportExecution, CompleteExecution, FailExecution,
       MarkExecutionUnknown, FinishExecution
  <1>2. TypeOK /\ LeaseDiscipline /\ [Next]_vars =>
          [\A r \in RunIds :
             /\ runs[r].status = "executing"
             /\ runs[r].lease > clock
             => /\ \/ /\ runs'[r].status = "executing"
                      /\ runs'[r].owner = runs[r].owner
                   \/ ReportExecution(r, runs[r].owner)
                /\ \A owner \in Owners \ {runs[r].owner} :
                     ~ReportExecution(r, owner)]_vars
    BY <1>1, HeldStep DEF Held
  <1> QED
    BY <1>2, TypeCorrect, LeaseDisciplineHolds, PTL
       DEF Spec, LiveLeaseIsExclusive

-----------------------------------------------------------------------------
(* The refinement: what a step does to the abstract state of one run.      *)

\* An "allow" in a trail.
Passed(trail) ==
  \E i \in DOMAIN trail :
    trail[i].type = "policy.checked" /\ trail[i].detail = "allow"

Passes(event) == event.type = "policy.checked" /\ event.detail = "allow"

LEMMA PassedAppend ==
  ASSUME NEW trail \in Seq(Events), NEW event \in Events
  PROVE  Passed(trail \o <<event>>) <=> Passed(trail) \/ Passes(event)
  <1> DEFINE longer == trail \o <<event>>
  <1>1. /\ DOMAIN longer = 1..(Len(trail) + 1)
        /\ \A i \in 1..Len(trail) : longer[i] = trail[i]
        /\ longer[Len(trail) + 1] = event
        /\ Len(trail) \in Nat
        /\ DOMAIN trail = 1..Len(trail)
    BY AppendOne
  <1> HIDE DEF longer
  <1>2. \A i \in DOMAIN longer : i \in 1..Len(trail) \/ i = Len(trail) + 1
    BY <1>1
  <1>3. Passed(longer) => Passed(trail) \/ Passes(event)
    BY <1>1, <1>2 DEF Passed, Passes
  <1>4. Passed(trail) => Passed(longer)
    <2> SUFFICES ASSUME NEW i \in 1..Len(trail), trail[i].type = "policy.checked",
                        trail[i].detail = "allow"
                 PROVE  Passed(longer)
      BY <1>1 DEF Passed
    <2>1. i \in DOMAIN longer /\ longer[i] = trail[i]
      BY <1>1
    <2> QED
      BY <2>1 DEF Passed
  <1>5. Passes(event) => Passed(longer)
    BY <1>1 DEF Passed, Passes
  <1> QED
    BY <1>3, <1>4, <1>5 DEF longer

LEMMA PassedAppendTwo ==
  ASSUME NEW trail \in Seq(Events), NEW first \in Events, NEW second \in Events
  PROVE  Passed(trail \o <<first, second>>)
           <=> Passed(trail) \/ Passes(first) \/ Passes(second)
  <1> DEFINE longer == trail \o <<first>>
  <1>1. longer \in Seq(Events)
    BY AppendOne
  <1>2. Passed(longer) <=> Passed(trail) \/ Passes(first)
    BY PassedAppend
  <1>3. trail \o <<first, second>> = longer \o <<second>>
    BY AppendTwo
  <1> HIDE DEF longer
  <1>4. Passed(longer \o <<second>>) <=> Passed(longer) \/ Passes(second)
    BY <1>1, PassedAppend
  <1> QED
    BY <1>2, <1>3, <1>4

\* Only an "allow" passes.
LEMMA AppendedPasses ==
  /\ \A type \in EventType \ {"policy.checked"} : ~Passes(Plain(type))
  /\ \A outcome, policy : Passes(Checked(outcome, policy)) <=> outcome = "allow"
  /\ \A type \in EventType \ {"policy.checked"} :
       \A actor : ~Passes(Event(type, None, actor))
  /\ \A outcome, principal : ~Passes(Observed(outcome, principal))
  /\ \A status, principal : ~Passes(Reconciled(status, principal))
  BY DEF Passes, Plain, Event, Checked, Observed, Reconciled

\* The phases a run may go through without being allowed or begun.
Turns ==
  {<<"absent", "created">>, <<"created", "denied">>,
   <<"created", "pending_approval">>, <<"pending_approval", "approved">>,
   <<"pending_approval", "rejected">>,
   <<"pending_approval", "approval_expired">>, <<"executing", "completed">>,
   <<"executing", "failed">>, <<"executing", "unknown">>,
   <<"unknown", "completed">>, <<"unknown", "failed">>}

\* The abstract image of a local step, as far as the trail's "allow" goes.
PhaseStep(r) ==
  \/ /\ runs'[r].status = runs[r].status
     /\ Passed(events'[r]) <=> Passed(events[r])
  \/ /\ <<runs[r].status, runs'[r].status>> \in Turns
     /\ Passed(events'[r]) <=> Passed(events[r])
  \/ /\ runs[r].status = "created"
     /\ runs'[r].status = "created"
     /\ Passed(events'[r])
  \/ /\ runs'[r].status = "executing"
     /\ \/ runs[r].status = "created" /\ Passed(events[r])
        \/ runs[r].status = "approved"
     /\ Passed(events'[r]) <=> Passed(events[r])

\* A run that is claimed straight from "created" was allowed.
LEMMA BeganAllowed ==
  ASSUME TypeOK, NEW r \in RunIds, ApprovalMatches(r), AllowedBy(r),
         Claimable(r), runs[r].status = "created"
  PROVE  Passed(events[r])
  <1>1. approvals[r] = NoApproval
    BY NoApprovalYet
  <1>2. Recorded(events[r], Checked("allow", runs[r].policy))
    BY <1>1 DEF AllowedBy, Claimable
  <1>3. PICK i \in DOMAIN events[r] :
          events[r][i] = Checked("allow", runs[r].policy)
    BY <1>2 DEF Recorded
  <1> QED
    BY <1>3 DEF Passed, Checked, Event

LEMMA ColumnsPhase ==
  ASSUME TypeOK, NEW r \in RunIds, ApprovalMatches(r), AllowedBy(r),
         ColumnStep(r)
  PROVE  PhaseStep(r)
  <1> USE AppendedTyped, AppendedPasses
  <1>1. events[r] \in Seq(Events)
    BY DEF TypeOK
  <1>2. ASSUME NEW event \in Events, events'[r] = events[r] \o <<event>>
        PROVE  Passed(events'[r]) <=> Passed(events[r]) \/ Passes(event)
    BY <1>1, <1>2, PassedAppend
  <1>3. ASSUME NEW first \in Events, NEW second \in Events,
               events'[r] = events[r] \o <<first, second>>
        PROVE  Passed(events'[r])
                 <=> Passed(events[r]) \/ Passes(first) \/ Passes(second)
    BY <1>1, <1>3, PassedAppendTwo
  <1>4. CASE Kept(r)
    BY <1>4 DEF Kept, PhaseStep
  <1>5. CASE Entered(r)
    <2>1. Plain("run.created") \in Events /\ ~Passes(Plain("run.created"))
      BY DEF EventType
    <2> QED
      BY <1>2, <1>5, <2>1, NoRowColumns DEF Entered, PhaseStep, Turns
  <1>6. CASE Permitted(r)
    <2>1. PICK policy \in Policies :
            Moved(r, "created", policy, runs[r].attempt,
                  <<Checked("allow", policy)>>)
      BY <1>6 DEF Permitted
    <2>2. /\ Checked("allow", policy) \in Events
          /\ Passes(Checked("allow", policy))
      BY DEF PolicyOutcome
    <2> QED
      BY <1>2, <1>6, <2>1, <2>2 DEF Permitted, Moved, PhaseStep
  <1>7. CASE Denied(r)
    <2>1. PICK policy \in Policies :
            Moved(r, "denied", policy, runs[r].attempt,
                  <<Checked("deny", policy), Plain("run.denied")>>)
      BY <1>7 DEF Denied
    <2>2. /\ Checked("deny", policy) \in Events
          /\ Plain("run.denied") \in Events
          /\ ~Passes(Checked("deny", policy))
          /\ ~Passes(Plain("run.denied"))
      BY DEF PolicyOutcome, EventType
    <2> QED
      BY <1>3, <1>7, <2>1, <2>2 DEF Denied, Moved, PhaseStep, Turns
  <1>8. CASE Asked(r)
    <2>1. PICK policy \in Policies :
            Moved(r, "pending_approval", policy, runs[r].attempt,
                  <<Checked("approval_required", policy),
                    Plain("approval.requested")>>)
      BY <1>8 DEF Asked
    <2>2. /\ Checked("approval_required", policy) \in Events
          /\ Plain("approval.requested") \in Events
          /\ ~Passes(Checked("approval_required", policy))
          /\ ~Passes(Plain("approval.requested"))
      BY DEF PolicyOutcome, EventType
    <2> QED
      BY <1>3, <1>8, <2>1, <2>2 DEF Asked, Moved, PhaseStep, Turns
  <1>9. ASSUME NEW status \in {"approved", "rejected"},
               NEW type \in {"approval.approved", "approval.rejected"},
               Judged(r, status, type)
        PROVE  PhaseStep(r)
    <2>1. PICK principal \in Principals :
            Turned(r, status, <<Event(type, None, principal.actor)>>)
      BY <1>9 DEF Judged
    <2>2. /\ Event(type, None, principal.actor) \in Events
          /\ ~Passes(Event(type, None, principal.actor))
      BY DEF EventType
    <2>3. Passed(events'[r]) <=> Passed(events[r])
      BY <1>2, <2>1, <2>2 DEF Turned, Moved
    <2> QED
      BY <1>9, <2>1, <2>3 DEF Judged, Pending, Turned, Moved, PhaseStep, Turns
  <1>10. CASE Lapsed(r)
    <2>1. /\ Plain("approval.expired") \in Events
          /\ ~Passes(Plain("approval.expired"))
      BY DEF EventType
    <2> QED
      BY <1>2, <1>10, <2>1
         DEF Lapsed, Pending, Turned, Moved, PhaseStep, Turns
  <1>11. CASE Began(r)
    <2>1. /\ Plain("tool.execution.started") \in Events
          /\ Plain("run.resumed") \in Events
          /\ ~Passes(Plain("tool.execution.started"))
          /\ ~Passes(Plain("run.resumed"))
      BY DEF EventType
    <2>2. Passed(events'[r]) <=> Passed(events[r])
      BY <1>2, <1>3, <1>11, <2>1 DEF Began, Moved
    <2> QED
      BY <1>11, <2>2, BeganAllowed DEF Began, Moved, PhaseStep
  <1>12. CASE Ended(r)
    <2>1. \A type \in EventType \ {"policy.checked"} :
            Plain(type) \in Events /\ ~Passes(Plain(type))
      OBVIOUS
    <2>2. Passed(events'[r]) <=> Passed(events[r])
      BY <1>2, <1>3, <1>12, <2>1 DEF Ended, Turned, Moved, EventType
    <2> QED
      BY <1>12, <2>2 DEF Ended, Turned, Moved, PhaseStep, Turns
  <1>13. CASE Resolved(r)
    <2>1. PICK principal \in Principals, outcome \in ProviderOutcome,
               status \in {"completed", "failed"} :
            \/ Turned(r, status, <<Reconciled(status, principal)>>)
            \/ Turned(r, status, <<Observed(outcome, principal),
                                   Reconciled(status, principal)>>)
            \/ Turned(r, "unknown", <<Observed(outcome, principal)>>)
      BY <1>13 DEF Resolved
    <2>2. /\ Reconciled(status, principal) \in Events
          /\ Observed(outcome, principal) \in Events
          /\ ~Passes(Reconciled(status, principal))
          /\ ~Passes(Observed(outcome, principal))
      OBVIOUS
    <2>3. Passed(events'[r]) <=> Passed(events[r])
      BY <1>2, <1>3, <2>1, <2>2 DEF Turned, Moved
    <2> QED
      BY <1>13, <2>1, <2>3 DEF Resolved, Turned, Moved, PhaseStep, Turns
  <1> QED
    BY <1>4, <1>5, <1>6, <1>7, <1>8, <1>9, <1>10, <1>11, <1>12, <1>13
       DEF ColumnStep

-----------------------------------------------------------------------------
(* One transaction is one abstract step.                                   *)

\* Nothing the abstract state is made of changes for run r.
Untouched(r) == runs'[r] = runs[r] /\ events'[r] = events[r]

\* A transaction is about one run, or is a sweep over a set of them.
LEMMA StepShape ==
  ASSUME TypeOK, [Next]_vars
  PROVE  \/ \A r \in RunIds : Untouched(r)
         \/ \E s \in RunIds : \A r \in RunIds \ {s} : Untouched(r)
         \/ \E S \in SUBSET RunIds : ExpireApproval(S) /\ \A r \in S : Pending(r)
         \/ \E S \in SUBSET RunIds, t \in SampledNow :
              MarkExpiredExecution(S) /\ \A r \in S : LeaseExpired(r, t)
  <1> DEFINE Others(s) == \A r \in RunIds \ {s} : Untouched(r)
  <1>1. ASSUME NEW s \in RunIds, NEW row, NEW appended, Commit(s, row, appended)
        PROVE  Others(s)
    BY <1>1 DEF TypeOK, Commit, Untouched
  <1>2. ASSUME NEW scope \in Scopes, NEW t \in SampledNow,
               ExpireApprovals(scope, t)
        PROVE  \E S \in SUBSET RunIds :
                 ExpireApproval(S) /\ \A r \in S : Pending(r)
    <2> DEFINE S == {s \in RunIds : /\ Pending(s) /\ Overdue(s, t)
                                    /\ runs[s].request.tenant \in scope}
    <2> WITNESS S \in SUBSET RunIds
    <2> QED
      BY <1>2 DEF ExpireApprovals
  <1>3. ASSUME NEW scope \in Scopes, NEW t \in SampledNow,
               RecoverExpiredExecutions(scope, t)
        PROVE  \E S \in SUBSET RunIds, now \in SampledNow :
                 MarkExpiredExecution(S) /\ \A r \in S : LeaseExpired(r, now)
    <2> DEFINE S == {s \in RunIds : /\ LeaseExpired(s, t)
                                    /\ runs[s].request.tenant \in scope}
    <2> WITNESS S \in SUBSET RunIds, t \in SampledNow
    <2> QED
      BY <1>3 DEF RecoverExpiredExecutions
  <1>4. ASSUME NEW s \in RunIds, RecordDuplicate(s)
        PROVE  Others(s)
    BY <1>4 DEF RecordDuplicate, TypeOK, Untouched
  <1>5. ASSUME NEW s \in RunIds, NEW owner \in Owners,
               \/ CompleteExecution(s, owner)
               \/ FailExecution(s, owner)
               \/ MarkExecutionUnknown(s, owner)
        PROVE  Others(s)
    BY <1>1, <1>5 DEF CompleteExecution, FailExecution,
       MarkExecutionUnknown, FinishExecution
  <1>6. ASSUME NEW s \in RunIds, NEW principal \in Principals,
               \/ \E status \in {"completed", "failed"} :
                    ReconcileRun(s, status, principal)
               \/ \E outcome \in ProviderOutcome :
                    ApplyProviderObservation(s, outcome, principal)
        PROVE  Others(s)
    BY <1>1, <1>6 DEF ReconcileRun, ApplyProviderObservation
  <1>7. ASSUME NEW s \in RunIds, NEW t \in SampledNow,
               NEW outcome \in PolicyOutcome, NEW policy \in Policies,
               RecordPolicyDecision(s, outcome, policy, t)
        PROVE  Others(s)
    BY <1>1, <1>7 DEF RecordPolicyDecision
  <1>8. ASSUME NEW s \in RunIds, NEW t \in SampledNow,
               NEW approved \in BOOLEAN, NEW principal \in Principals,
               DecideApproval(s, approved, principal, t)
        PROVE  Others(s)
    <2>1. CASE Overdue(s, t)
      BY <1>8, <2>1 DEF DecideApproval, ExpireApproval, Untouched
    <2>2. CASE ~Overdue(s, t)
      BY <1>1, <1>8, <2>2 DEF DecideApproval
    <2> QED
      BY <2>1, <2>2
  <1>9. ASSUME NEW s \in RunIds, NEW t \in SampledNow, NEW owner \in Owners,
               ClaimExecution(s, owner, t) \/ HeartbeatExecution(s, owner, t)
        PROVE  Others(s)
    <2>1. CASE HeartbeatExecution(s, owner, t)
      BY <2>1 DEF HeartbeatExecution, TypeOK, Untouched
    <2>2. CASE MarkExpiredExecution({s})
      BY <2>2 DEF MarkExpiredExecution, Untouched
    <2>3. CASE \E row, appended : Commit(s, row, appended)
      BY <1>1, <2>3
    <2> QED
      BY <1>9, <2>1, <2>2, <2>3 DEF ClaimExecution
  <1>10. ASSUME NEW s \in RunIds, NEW request \in Requests,
                CreateRun(s, request)
         PROVE  Others(s)
    BY <1>1, <1>10 DEF CreateRun
  <1>11. CASE Tick \/ UNCHANGED vars
    BY <1>11 DEF Tick, vars, Untouched
  <1> HIDE DEF Others
  <1>12. (\E s \in RunIds : Others(s)) =>
           \E s \in RunIds : \A r \in RunIds \ {s} : Untouched(r)
    BY DEF Others
  <1> QED
    BY <1>2, <1>3, <1>4, <1>5, <1>6, <1>7, <1>8, <1>9, <1>10, <1>11, <1>12
       DEF Next

\* What keeps a run's phase and its "allow" keeps its abstract state: whether
\* it began can be read off the status.
Rests(r) ==
  /\ runs'[r].status = runs[r].status
  /\ Passed(events'[r]) <=> Passed(events[r])

LEMMA AbstractState ==
  ASSUME StartedInv, StartedInv'
  PROVE  /\ Allowed = {r \in RunIds : Passed(events[r])}
         /\ Begun = {r \in RunIds : runs[r].status \in Executed}
         /\ Allowed' = {r \in RunIds : Passed(events'[r])}
         /\ Begun' = {r \in RunIds : runs'[r].status \in Executed}
  BY DEF Allowed, Passed, Begun, StartedInv, Started

LEMMA OneRunStep ==
  ASSUME StartedInv, StartedInv', NEW s \in RunIds, PhaseStep(s),
         \A r \in RunIds \ {s} : Rests(r)
  PROVE  [Abstract!Next]_(Abstract!vars)
  <1>1. /\ Allowed = {r \in RunIds : Passed(events[r])}
        /\ Begun = {r \in RunIds : runs[r].status \in Executed}
        /\ Allowed' = {r \in RunIds : Passed(events'[r])}
        /\ Begun' = {r \in RunIds : runs'[r].status \in Executed}
    BY AbstractState
  <1>2. CASE Rests(s)
    <2>1. /\ [r \in RunIds |-> runs[r].status]' = [r \in RunIds |-> runs[r].status]
          /\ Allowed' = Allowed
          /\ Begun' = Begun
      BY <1>1, <1>2 DEF Rests
    <2> QED
      BY <2>1 DEF Abstract!vars
  <1>3. ASSUME NEW from, NEW to, runs[s].status = from, runs'[s].status = to
        PROVE  Abstract!Move({s}, from, to)
    BY <1>3 DEF Abstract!Move, Rests
  <1>4. CASE /\ <<runs[s].status, runs'[s].status>> \in Turns
             /\ Passed(events'[s]) <=> Passed(events[s])
    <2>1. UNCHANGED <<Allowed, Begun>>
      <3>1. Allowed' = Allowed
        BY <1>1, <1>4 DEF Rests
      <3>2. runs'[s].status \in Executed <=> runs[s].status \in Executed
        BY <1>4 DEF Turns, Executed
      <3>3. Begun' = Begun
        BY <1>1, <3>2 DEF Rests
      <3> QED
        BY <3>1, <3>3
    <2>2. CASE runs[s].status = "absent"
      <3>1. runs'[s].status = "created"
        BY <1>4, <2>2 DEF Turns
      <3>2. Abstract!Submit(s)
        BY <1>3, <2>1, <2>2, <3>1 DEF Abstract!Submit
      <3> QED
        BY <3>2 DEF Abstract!Next
    <2>3. CASE runs[s].status = "created"
      <3>1. runs'[s].status \in {"denied", "pending_approval"}
        BY <1>4, <2>3 DEF Turns
      <3>2. Abstract!Withhold(s)
        BY <1>3, <2>1, <2>3, <3>1 DEF Abstract!Withhold
      <3> QED
        BY <3>2 DEF Abstract!Next
    <2>4. CASE runs[s].status = "pending_approval"
      <3>1. CASE runs'[s].status \in {"approved", "rejected"}
        <4>1. Abstract!Decide(s)
          BY <1>3, <2>1, <2>4, <3>1 DEF Abstract!Decide
        <4> QED
          BY <4>1 DEF Abstract!Next
      <3>2. CASE runs'[s].status = "approval_expired"
        <4>1. Abstract!Lapse({s})
          BY <1>3, <2>1, <2>4, <3>2 DEF Abstract!Lapse
        <4> QED
          BY <4>1 DEF Abstract!Next
      <3> QED
        BY <1>4, <2>4, <3>1, <3>2 DEF Turns
    <2>5. CASE runs[s].status = "executing"
      <3>1. runs'[s].status \in {"completed", "failed", "unknown"}
        BY <1>4, <2>5 DEF Turns
      <3>2. Abstract!Settle(s)
        BY <1>3, <2>1, <2>5, <3>1 DEF Abstract!Settle
      <3> QED
        BY <3>2 DEF Abstract!Next
    <2>6. CASE runs[s].status = "unknown"
      <3>1. runs'[s].status \in {"completed", "failed"}
        BY <1>4, <2>6 DEF Turns
      <3>2. Abstract!Resolve(s)
        BY <1>3, <2>1, <2>6, <3>1 DEF Abstract!Resolve
      <3> QED
        BY <3>2 DEF Abstract!Next
    <2> QED
      BY <1>4, <2>2, <2>3, <2>4, <2>5, <2>6 DEF Turns
  <1>5. CASE /\ runs[s].status = "created"
             /\ runs'[s].status = "created"
             /\ Passed(events'[s])
    <2>1. Allowed' = Allowed \cup {s}
      BY <1>1, <1>5 DEF Rests
    <2>2. /\ [r \in RunIds |-> runs[r].status]' = [r \in RunIds |-> runs[r].status]
          /\ Begun' = Begun
      BY <1>1, <1>5 DEF Rests
    <2>3. Abstract!Allow(s)
      BY <1>5, <2>1, <2>2 DEF Abstract!Allow
    <2> QED
      BY <2>3 DEF Abstract!Next
  <1>6. CASE /\ runs'[s].status = "executing"
             /\ \/ runs[s].status = "created" /\ Passed(events[s])
                \/ runs[s].status = "approved"
             /\ Passed(events'[s]) <=> Passed(events[s])
    <2>1. Allowed' = Allowed
      BY <1>1, <1>6 DEF Rests
    <2>2. s \notin Begun /\ Begun' = Begun \cup {s}
      BY <1>1, <1>6 DEF Rests, Executed
    <2>3. Abstract!Begin(s)
      BY <1>1, <1>3, <1>6, <2>1, <2>2 DEF Abstract!Begin
    <2> QED
      BY <2>3 DEF Abstract!Next
  <1> QED
    BY <1>2, <1>4, <1>5, <1>6 DEF PhaseStep, Rests

\* A sweep moves every run it finds, in the same way.
LEMMA SweepStep ==
  ASSUME StartedInv, StartedInv', NEW S \in SUBSET RunIds,
         NEW from, NEW to, <<from, to>> \in Turns,
         \A r \in S : /\ PhaseStep(r)
                      /\ runs[r].status = from
                      /\ runs'[r].status = to,
         \A r \in RunIds \ S : Rests(r)
  PROVE  /\ S = {} => UNCHANGED Abstract!vars
         /\ S # {} => Abstract!Move(S, from, to)
         /\ UNCHANGED <<Allowed, Begun>>
  <1>1. /\ Allowed = {r \in RunIds : Passed(events[r])}
        /\ Begun = {r \in RunIds : runs[r].status \in Executed}
        /\ Allowed' = {r \in RunIds : Passed(events'[r])}
        /\ Begun' = {r \in RunIds : runs'[r].status \in Executed}
    BY AbstractState
  <1>2. from # to /\ to # "executing" /\ (from \in Executed <=> to \in Executed)
    BY DEF Turns, Executed
  <1>3. \A r \in S : Passed(events'[r]) <=> Passed(events[r])
    BY <1>2 DEF PhaseStep
  <1>4. UNCHANGED <<Allowed, Begun>>
    <2>1. Allowed' = Allowed
      BY <1>1, <1>3 DEF Rests
    <2>2. Begun' = Begun
      BY <1>1, <1>2 DEF Rests
    <2> QED
      BY <2>1, <2>2
  <1>5. ASSUME S = {}
        PROVE  UNCHANGED Abstract!vars
    <2>1. [r \in RunIds |-> runs[r].status]' = [r \in RunIds |-> runs[r].status]
      BY <1>5 DEF Rests
    <2> QED
      BY <1>4, <2>1 DEF Abstract!vars
  <1>6. ASSUME S # {}
        PROVE  Abstract!Move(S, from, to)
    BY <1>6 DEF Abstract!Move, Rests
  <1> QED
    BY <1>4, <1>5, <1>6

LEMMA StepRefines ==
  ASSUME TypeOK, StartedInv, StartedInv', ApprovalInv, AuthorityInv,
         [Next]_vars
  PROVE  [Abstract!Next]_(Abstract!vars)
  <1>1. \A r \in RunIds : PhaseStep(r)
    BY StepLocal, ColumnsOf, ColumnsPhase DEF ApprovalInv, AuthorityInv
  <1>2. \A r \in RunIds : Untouched(r) => Rests(r)
    BY DEF Untouched, Rests
  <1>3. CASE \A r \in RunIds : Untouched(r)
    <2>1. UNCHANGED Abstract!vars
      <3>1. <<"executing", "unknown">> \in Turns
        BY DEF Turns
      <3> QED
        BY <1>2, <1>3, <3>1, SweepStep
    <2> QED
      BY <2>1
  <1>4. CASE \E s \in RunIds : \A r \in RunIds \ {s} : Untouched(r)
    BY <1>1, <1>2, <1>4, OneRunStep
  <1>5. ASSUME NEW S \in SUBSET RunIds, ExpireApproval(S),
               \A r \in S : Pending(r)
        PROVE  [Abstract!Next]_(Abstract!vars)
    <2>1. <<"pending_approval", "approval_expired">> \in Turns
      BY DEF Turns
    <2>2. ASSUME NEW r \in S
          PROVE  /\ runs[r].status = "pending_approval"
                 /\ runs'[r].status = "approval_expired"
      <3>1. runs[r] \in Row /\ runs'[r] = [runs[r] EXCEPT !.status = "approval_expired"]
        BY <1>5, NoRowColumns DEF Pending, ExpireApproval, TypeOK
      <3> QED
        BY <1>5, <3>1 DEF Pending, Row
    <2>3. \A r \in RunIds \ S : Rests(r)
      BY <1>5 DEF ExpireApproval, Rests
    <2>4. /\ S = {} => UNCHANGED Abstract!vars
          /\ S # {} => Abstract!Move(S, "pending_approval", "approval_expired")
          /\ UNCHANGED <<Allowed, Begun>>
      BY <1>1, <2>1, <2>2, <2>3, SweepStep
    <2>5. S # {} => Abstract!Lapse(S)
      BY <2>4 DEF Abstract!Lapse
    <2> QED
      BY <2>4, <2>5 DEF Abstract!Next
  <1>6. ASSUME NEW S \in SUBSET RunIds, NEW t \in SampledNow,
               MarkExpiredExecution(S), \A r \in S : LeaseExpired(r, t)
        PROVE  [Abstract!Next]_(Abstract!vars)
    <2>1. <<"executing", "unknown">> \in Turns
      BY DEF Turns
    <2>2. ASSUME NEW r \in S
          PROVE  runs[r].status = "executing" /\ runs'[r].status = "unknown"
      <3>1. /\ runs[r] \in Row
            /\ runs'[r] = [runs[r] EXCEPT !.status = "unknown",
                                          !.owner = None, !.lease = None]
        BY <1>6, NoRowColumns DEF LeaseExpired, MarkExpiredExecution, TypeOK
      <3> QED
        BY <1>6, <3>1 DEF LeaseExpired, Row
    <2>3. \A r \in RunIds \ S : Rests(r)
      BY <1>6 DEF MarkExpiredExecution, Rests
    <2>4. /\ S = {} => UNCHANGED Abstract!vars
          /\ S # {} => Abstract!Move(S, "executing", "unknown")
          /\ UNCHANGED <<Allowed, Begun>>
      BY <1>1, <2>1, <2>2, <2>3, SweepStep
    <2>5. S # {} => Abstract!Abandon(S)
      BY <2>4 DEF Abstract!Abandon
    <2> QED
      BY <2>4, <2>5 DEF Abstract!Next
  <1> QED
    BY <1>3, <1>4, <1>5, <1>6, StepShape

LEMMA InitRefines ==
  ASSUME Init
  PROVE  Abstract!Init
  <1>1. \A r \in RunIds : runs[r].status = "absent" /\ events[r] = << >>
    BY NoRowColumns DEF Init
  <1>2. Types(<< >>) = {} /\ ~Passed(<< >>)
    BY DEF Types, Passed
  <1>3. Allowed = {}
    BY <1>1, <1>2 DEF Allowed, Passed
  <1>4. Begun = {}
    BY <1>1, <1>2 DEF Begun
  <1>5. [r \in RunIds |-> runs[r].status] = [r \in RunIds |-> "absent"]
    BY <1>1
  <1> QED
    BY <1>3, <1>4, <1>5 DEF Abstract!Init

(* The ledger keeps the promise made to its callers: whatever workers,       *)
(* sweeps, approvers and operators do, each transaction is one step of the   *)
(* lifecycle (submit, allow, withhold, decide, lapse, begin once, settle,    *)
(* abandon, resolve) or changes nothing the lifecycle speaks of.             *)
THEOREM LedgerImplementsLifecycle == Spec => Lifecycle
  <1>1. Init => Abstract!Init
    BY InitRefines
  <1>2. TypeOK /\ StartedInv /\ StartedInv' /\ ApprovalInv /\ AuthorityInv
          /\ [Next]_vars => [Abstract!Next]_(Abstract!vars)
    BY StepRefines
  <1> QED
    BY <1>1, <1>2, TypeCorrect, StartedInvHolds, ApprovalInvHolds,
       AuthorityInvHolds, PTL DEF Spec, Lifecycle, Abstract!Spec
=============================================================================
