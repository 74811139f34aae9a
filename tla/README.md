# AgentTrustOps in TLA+

AgentTrustOps puts a governed ledger between an agent and a business tool with
side effects: a request is recorded under a business identity, a policy or a
person clears it, one worker executes it under a lease, and an outcome nobody
knows is settled by an operator against the provider. This directory holds the
specifications of that machinery, the TLC configurations that check them on
small instances, and theorems that TLAPS proves for every instance.

Paths below are relative to the repository; `ledger.py` and its neighbours are
in `src/agenttrustops/`.

## 1. The system

| Component | State it keeps | Operations | Interacts by |
|---|---|---|---|
| SQLite ledger (`ledger.py`) | tables `action_runs`, `approvals`, `action_events` | `create_or_get_run`, `record_duplicate`, `record_policy_decision`, `decide_approval`, `expire_approvals`, `claim_execution`, `heartbeat_execution`, `complete_/fail_execution`, `mark_execution_unknown`, `recover_expired_executions`, `reconcile_run`, `apply_provider_observation` | one `BEGIN IMMEDIATE` transaction per operation |
| Event hash chain (`ledger.py`) | `previous_hash`, `event_hash`, and the anchor `event_count`, `event_head_hash` | append, `verify_event_chain`, `verify_all_event_chains`, backfill | inside every ledger transaction; verification in transactions of its own |
| PostgreSQL ledger (`postgres.py`) | the same tables | the inherited operations, statement by statement under READ COMMITTED | row locks; `BEGIN IMMEDIATE` does nothing |
| Runtime (`runtime.py`) | per call: run, owner, heartbeat thread | `invoke`, `resume`, `approve`, `reject`, `reconcile`, `reconcile_from_provider`, and async forms | a sequence of ledger transactions with policy, tool and probe calls in between |
| Providers (`providers.py`, `integrations/stripe_sandbox.py`) | the provider's operations | effect, lookup | called by the tool and by the probe |
| Control plane (`api.py`, `registry.py`, `auth.py`) | none of its own | endpoints with role checks, `recover` | calls runtime and ledger from a thread pool |
| RefundOps (`refund_ops.py`) | `refunds` table, one row per order | reference policy, release gate, `execute` | the policy and the tool of a trusted action |
| Audit bundles, metrics, CLI (`audit.py`, `observability.py`, `cli.py`) | none | export, verify, counts | read the ledger in many small transactions |
| Framework adapters, web console | none | forward calls | call the runtime or the API |

What is hard here, and what each part must get right:

* **Ledger.** Any worker, sweep, approver or operator may call any operation at
  any time. The clock is read before the write lock is waited for, so an
  operation works with an instant up to ten seconds old. Status, approval and
  trail must never disagree, an approval must bind what is executed, a tool must
  be started at most once, a terminal status must be final, and leases must be
  exclusive while they are live.
* **Runtime.** Between the transactions of one call, others run, the process may
  die, the heartbeat thread may die alone or outlive its tool, and the provider
  may commit what nobody waits for any more. One identity must have at most one
  effect, and a stored success must be true.
* **Event chain.** Appends must not fork the chain; verification reads the run
  and the events separately; and every opening of a file runs the migration.
* **PostgreSQL.** The inherited code was written for serial transactions; under
  READ COMMITTED a row read may have changed before it is updated. A transaction
  holds the locks of the rows it updated, so sweeps over several runs may wait
  for each other.
* **Provider adapters.** A lookup that replays a request is itself a request.
* **RefundOps.** The policy must classify every amount and select the policy
  version of the order's date, and the release gate, a command of its own, must
  let no unsafe configuration through. The idempotency key of the API is the client's own, so
  two cleared runs may ask for one refund.
* **Control plane.** Some operations of the runtime, like `resume`, know no
  principal: only the endpoint keeps tenants apart.

`PROJECT.json` lists every component with its status, and under `hazards` the
lines where these things bite with the properties aimed at them.

## 2. Modules

| Module | Models | Kind |
|---|---|---|
| `ActionLifecycle` | what the ledger promises about one run, without clocks, leases, people or trails | abstract specification |
| `ActionLedger` | the SQLite ledger: `action_runs` (`runs`), `approvals`, `action_events` (`events`), the wall clock | component |
| `TrustedAction` | the runtime over `ActionLedger` (it EXTENDS it): calls, heartbeat threads, the external tool and provider, operators, sweeps, crashes | composition |
| `PostgresLedger` | the ledger on PostgreSQL (it EXTENDS `ActionLedger`): reads and updates of open transactions | component |
| `RowLocks` | the transactions of the PostgreSQL ledger over several runs, statement by statement, with row locks and deadlocks | component |
| `EventChain` | the hash chain of one run: appends, migration, damage, verification, exported trails | component |
| `RefundPolicy` | the reference policy, its versions and configurations, the release gate and its scenarios | pure functions |
| `RefundService` | `agenttrust serve`: endpoints with role and tenant checks, `RefundPolicy` and the refund store over `TrustedAction` (it EXTENDS both) | composition |
| `StripeSandbox` | the Stripe adapter: charges, replaying lookups, Stripe's key | component |
| `MCActionLedger`, `MCTrustedAction`, `MCPostgresLedger`, `MCRowLocks`, `MCEventChain`, `MCStripeSandbox`, `MCRefundService` | requests, principals and symmetry sets of the small instances | model checking |
| `ActionLedgerProofs` | types, leases, terminal statuses and the trail's last event, for `ActionLedger` | proofs |
| `LedgerSafetyProofs` | the other safety of `ActionLedger` (it EXTENDS the proofs before it), and that it implements `ActionLifecycle` | proofs |
| `TrustedActionProofs` | the runtime takes ledger steps only; effects, answers and statuses agree | proofs |
| `PostgresLedgerProofs` | the safety that is left without serial transactions | proofs |
| `RowLocksProofs` | the two rows of a run agree; what a deadlock is made of | proofs |
| `EventChainProofs` | the proofs about `EventChain` | proofs |
| `StripeSandboxProofs` | the proofs about `StripeSandbox` | proofs |
| `RefundServiceProofs` | the release gate, and the business rule end to end in `RefundService` (it EXTENDS `TrustedActionProofs`) | proofs |

### ActionLedger and the code

Each operation of the ledger is one `BEGIN IMMEDIATE` transaction, so it is one
action: it commits as a whole, and a crash in the middle leaves nothing. An
action's guard is the code's guard; a call that raises or returns `False`
without writing is no step. The order of guards, which decides the exception, is
left out; what is written is not.

* `runs[r]` is the row of `action_runs`, `NoRow` before it is inserted. The
  request stands for tenant, actor, action name, idempotency key and everything
  the fingerprint covers: two requests have the same fingerprint exactly when
  they are equal, and the same business identity when `Identity` agrees. One
  policy value stands for version and digest, which the code writes and compares
  together. `reason`, `result_json`, `created_at` and `updated_at` decide
  nothing and are left out, and so are hashes and the chain's anchor.
* `approvals[r]` is the row of `approvals`, `NoApproval` before it is inserted.
* `events[r]` is the trail of `r`. An event keeps its type, the outcome it
  records and the policy or person it names.
* `clock` is the wall clock in units of the timers, and `SampledNow` the
  readings an operation that commits now may have taken: `_now()` precedes
  `BEGIN IMMEDIATE`, which may wait for `busy_timeout`. Each operation is given
  any such reading.
* `ExpireApprovals` and `RecoverExpiredExecutions` handle all overdue runs of a
  tenant, or of every tenant, in one transaction, as the code does.
* A principal is its actor, tenant and whether it has a required approval role.

### TrustedAction and the code

`calls[c].pc` is the next transaction or call-out of call `c`:
`_prepare_invoke` is `Invoke`, then for a new run `EvaluatePolicy`, for a
duplicate `DuplicateSweepsApprovals`, `DuplicateSweepsLeases` and
`DuplicateCounts`; `_execute` is `Claim`, then the tool, then `Report`, and
`ReadResult` reads the row back for the answer. `Resume` is `_prepare_resume`,
which reads the row and claims it in a later transaction. `Heartbeat` is one
turn of the renewing thread; it ends when the ledger refuses, when a renewal
raises (`HeartbeatDies`), or up to a second after the tool, which is why
`ToolReturns` may leave it running. `Crash` is a process that dies, or an
exception no handler catches, at any point.

The tool and the provider are external and modelled by their contract in
`docs/provider-reconciliation.md`: a tool performs one operation, a success
means the provider committed it, an ordinary exception means it did not, and
anything else is `IndeterminateOutcome`. The provider decides an operation it
received even if nobody waits. A lookup answers `committed` only for a committed
operation and `not_committed` only while none is committed or under way. An
operator who reconciles by hand is one who looked the provider up, as the
runbook in `docs/operations.md` asks. The lookup reads and its answer is applied
in two separate steps, with anything in between.

A call draws a fresh `run_id` and a fresh owner, so the call's name stands for
both (`Owners = RunIds`).

### PostgresLedger and the code

`_PostgresConnection.execute` drops `BEGIN IMMEDIATE`, so a transaction runs
under READ COMMITTED: its `SELECT` takes no lock and may be out of date when the
transaction updates. `decide_approval`, `expire_approvals`,
`recover_expired_executions` and `claim_execution` are therefore a read, which
stores in `tx` what the operation concluded, and a write, whose guards are the
`WHERE` clauses of its updates and no more. `Rollback` is a lost connection, or
PostgreSQL ending a deadlock.

The write is one step although it is several statements: the first update locks
the row it changes until the commit, the approval is updated before the run, and
a transaction that comes between the two touches the run's row alone, which gives
the same result as coming first. `RowLocks` takes the statements apart. The remaining operations either lock the run
before they read it (`_lock_run_tx`), or are one conditional update, or read only
what never changes; they are the actions of `ActionLedger`. The read phases
assume the callers of the runtime: a policy decides a run once, and a claim
follows an `allow` or a read of `approved`.

`LeaseDiscipline`, `TrailIsLegal` and `Lifecycle` are not claimed here: the
history of `late_expiry` (section 4) breaks them too.

Because a sweep asks only for the status `executing` when it updates
(`ledger.py:932-933`), a lease renewed between its `SELECT` and its `UPDATE` is
given up with its owner at work; the model has that history, and the run is not
started again (`OneExecution`).

### RowLocks and the code

A transaction is the list of its updates, in the code's order, for the runs its
unlocked `SELECT` found; `Execute` is one update. An update whose `WHERE`
matches the committed row takes the row's lock, or waits in the row's queue and
then matches again, as PostgreSQL does under READ COMMITTED. `Commit` publishes
the values and gives up the locks; `Abort` is PostgreSQL ending one session of a
deadlock, any of them, and `__exit__` rolling back. `Position` and `Without` are the
place of a session in a queue and the queue it has left. A sweep updates the runs in
any order, because its `SELECT` names none. `decide_approval` stops when it did
not find the approval pending, and `expire_approvals` raises, which rolls back,
when it changed one row of a run and not the other. An append of an event locks
the run's row, which the transaction holds by then, except after an update that
matched nothing; `always` marks that one.

A row is its status only. `refused` stands for rejected and expired, `finished`
for every end of an execution, because the locks do not tell them apart; `late`
says that the deadline of the approval or of the lease has passed, and the change
of the run's row ends it. Claims, heartbeats, reports and reconciliation are one
update of the run's row. Sweeps belong to the sessions of the recovery endpoint,
decisions and worker reports to clients.

### EventChain and the code

The content of an event is its number in the order of recording. A hash is the
sequence of the contents it commits to, `EventHash` the hash of the event before
with its own content appended: it has no collisions, so two chains have the same
last hash exactly when they are the same. An append is three steps (`BeginAppend`,
`ReadHead`, `CommitAppend`) under the write lock, which on PostgreSQL is the
run's row lock; `AbortAppend` is an error or a crash. `Backfill` is every
opening of an SQLite file, in any process, so also the one of `doctor`, `replay`
and `audit-export`: a run with an event without hash gets its chain computed from
the first event on and its anchor set, and the anchor of a run whose count is zero
is set as well. `opened` says that somebody has opened the file; nobody appends or
verifies before. It is one step because `_backfill_v1` writes the fingerprints of
a 0.1 file before it reads the events, and so holds the write lock. A damaged file
has its fingerprints, and an append may come between the reading and the writing
of its re-chaining; nothing is claimed of a re-chained run, so the model leaves
that out. The migration of PostgreSQL computes no hashes, so there `damaged` never
becomes `rechained`.

`Damage` changes, removes or swaps stored events, or leaves them as they are, and
clears any of their hashes (`Altered`, `Cleared`); it computes none. The anchor is
a column of the run's row and is left alone: whoever rewrites it as well, or sets
its count to zero, is not detected, as `docs/architecture.md` says of those who
can recompute the chain. `damaged` remembers whether a migration has re-chained
the damaged run since, and a reader's `saw` what it was when its verification
began, or that the run was re-chained before it ended. An append after an event
without hash writes the text of `None` as the hash before it (`NoneText`).

A verification is `VerifyRun`, then `VerifyEvents`, because `get_run` and `events`
are two transactions; the audit export and the metrics verify in the same way. An
export shows the run and the events of two reads before it (`TrailRun`,
`TrailEvents`), and `Exported` is the case that `export_audit_bundle` goes on with
the verdict.

An event committed between the two reads of a verification makes a sound chain
look broken (`QuietVerdictIsRight` says that only such an append or damage does),
which stops a whole export and raises the alert of `docs/operations.md:36`.

### RefundPolicy and the code

`Evaluate` is `RefundPolicy.evaluate` as a function of the configuration and the
request: the selected version, the tenant, the roles, the evidence, the amount
and the limit. An amount is what `float()` makes of the argument: an integer,
`NaN`, or `Malformed` if it raises; an infinite amount behaves like one above the
total. `ReleaseAllowed` is `evaluate_release` over the scenarios of
`examples/refund_ops/scenarios.json`: each has a ledger and a store of its own,
so what it comes to is decided by the policy alone.

Two facts of the code the model keeps. The text `"nan"` passes `float()`, and no
comparison with it is true (`refund_ops.py:170`, `177`): a request for it that
passes the other checks is allowed, without a second person, with the reason
"amount checks passed". The business rule (`Entitled`) says such an amount is
never due; section 7 says what is claimed of it. And an order without a version in
force raises, which no order of the store does. The gate lets one of the 128
configurations over the roles `refund_agent`, `refund_admin` and `viewer` through.
A fourth role in `allowed_roles` would be let through too, because no scenario
tries it.

### RefundService and the code

`Deploy` is the start of the service, with any policy file or with the
configuration `serve` uses without one: `serve` does not look at what the file
says (`cli.py:198-215`). The gate runs in `agenttrust eval`, in the repository's
CI (`.github/workflows/ci.yml:35-38`) and in its GitHub action, and an organisation
may run it before it serves a file. `Released` says that the deployed
configuration would have passed, and is a condition of what is claimed about the
policy, and only of that: one refund per order, true outcomes and the tenants'
isolation hold with every file. `Submit` is the invoke endpoint: the
role, then `Governed`, which is `resolve_refund_evidence`: a reference becomes a
claim only for an order of the client's own tenant, and actor, tenant and roles
are the verified principal's. `ResumeRun` has the role and `load_tenant_run`;
decisions and reconciliation check the tenant and the roles in the runtime and
the ledger, so the actions of `TrustedAction` are used as they are. `Recover` is
one of the two sweeps of the endpoint, which covers its caller's tenant, or of
`agenttrust recover`, which covers a tenant or all (`Recoverable`).

`ExecuteRefund` is the insert into `refunds`, whose `order_id` is unique: the
tool is known here, so its effect is no choice of a provider. The model takes
the insert and the return of the function as two steps, and the process may die
in between. Of what is no number only the text `"nan"` reaches the store, whose
column keeps a text as it is; the float is refused when the ledger encodes the
request (`allow_nan=False`). The service has no probe, so an operator reconciles by hand:
`Inspect` looks for a refund of the run's order and amount, `Settle` posts what
was found. The refund row names no run, so an operator may complete two runs of
one order and amount for the same refund; `CompletedIsRefunded` is stated about
order and amount for that reason.

### StripeSandbox and the code

`charge` is `Charge` (the run is claimed and the POST sent, or refused by
`_params`), then `Charged`; `inspect` is `Inspect`, with the age check, then
`Inspected`. A request arrives while its caller waits or after it hung up, once
or again, and its answer may be lost; statuses are the three classes the adapter
distinguishes. An answer that `_validated_intent` refuses is the uncertain
outcome any answer may have. The ledger is reduced to a status per run, changed
under the conditions that `ActionLedger` states: a charge reports while its run
is executing, a lookup settles what is still unknown. A lookup whose
charge never arrived makes the payment itself; the model has that, and there is
still one payment at most (`SinglePayment`).

Stripe is external and does what `tests/test_stripe_sandbox.py` and
`examples/stripe_sandbox/README.md` say of it: the same key and parameters have
the same stored answer, another run's parameters under the key are an error, and
after `Retention` the key may be forgotten. `Runs` share one key, because the
adapter sends the business key without its tenant and action.

One assumption is not enforced by the code: a POST that arrives at all arrives
within `MaxDelay` of its claim or of its age check, and `MaxReplayAge +
MaxDelay <= Retention`; with 23 and 24 hours that leaves one hour. A worker
suspended for a day between its claim and its POST is outside it.

## 3. Runs

| Run | Instance | What it shows |
|---|---|---|
| `one_run` | one run id, requests of two tenants, four principals (requester with the approval role, colleague with it, one without, one of the other tenant), two policies, two workers, clock 0..5, lease 2, approval 3, busy timeout 1 | type invariant; the trail alone determines the status and always tells a legal story; one execution; approval and run agree; execution was authorised for what the run holds; owner and lease exactly while executing; terminal is final; an execution with a live lease goes on with its owner or ends by its owner's report; no late approval; unknown runs settled only by an operator of the tenant |
| `runtime` | three calls, two requests of one identity, requester and approver, clock 0..2 | one run and at most one committed effect per identity; no effect without clearance; a completed run has its effect; a terminal answer stays true |
| `runtime_liveness` | two calls, fairness | calls return; abandoned executions are given up; undecided approvals lapse |
| `late_effect` | two calls | **violated**: a failed run may still get its effect |
| `stranded_run` | two calls, fairness | **violated**: a run that was allowed and not claimed may stay `created` for ever |
| `postgres` | one run id, two approvers, two workers, two open transactions, clock 0..3, lease 2, approval 1 | without serial transactions there is still one verdict, one execution, and agreement of trail, row and approval |
| `late_expiry` | as `postgres` | **violated**: a run that executed is recorded as expired |
| `chain` | two processes that append, two verifications, up to three events, a new run or one of 0.1 with one event, any opening and any damage between the steps | the chain never forks and matches its anchor; damage done before a verification is reported, unless the file was opened in between; a verification that no append disturbed raises no false alarm; what an export shows was recorded, in order, although it was not what was verified |
| `rechained_damage` | as `chain` | **violated**: an event that was changed, and whose hash was cleared, verifies once the file is opened again |
| `stripe` | two runs, one lookup of each at a time, replay age 1, delay 1, retention 2, clock 0..3 | one payment per run; a completed run is paid; a failed one is not and will not be |
| `refund_service` | three calls, an agent who may also approve, her colleague, the only person of another tenant, two keys for one order (800, 300 and `NaN`), all 128 policy files deployed and two of them followed, clock 0..1 | a configuration that passes the gate decides every probe by the business rule; under it a refund that was paid was due and agreed to by somebody else where two people are needed; under any, it is the only one of its order; a completed run has its refund; nobody acts on a run of another tenant; the ledger, with sweeps over several runs, implements `ActionLifecycle` |
| `row_locks` | two runs, two sweeping sessions, one client | approval and run agree at every commit; a deadlock needs two sweeps over several runs; nobody waits for ever; overdue runs are settled |

**Bounds.** `MaxClock` ends time, `MaxEvents` bounds a trail before the two
steps that can repeat without end (a repeated policy decision and a pending
provider observation), `MaxDuplicates` bounds the duplicate counter. In
`one_run` the clock passes every deadline that can arise and goes one beyond it,
after a renewal too (the lease is longer than the busy timeout, so a renewal on
an old reading still extends it), and `MaxEvents` leaves room for a repeated
decision and a pending observation. One run suffices for the properties of a
single run because no operation reads another run's rows except the insert and the
sweeps: `runtime` has three run ids for one identity, and `refund_service` three
runs of two tenants that the sweeps visit together. Three calls are the fewest at
which one submits, one joins or conflicts, and one resumes. In `postgres` every race is
between two transactions, and the clock leaves one instant after a renewed
lease. In `chain` three events leave room for an old one and two appended at the
same time, and for a swap with an append after it. In `refund_service` two calls
with the two keys race for one order while the third resumes or repeats; the
amounts lie on both sides of, and at, the limit; and `Probes` has every limit and
total, each with its successor. Its constraint `Followed` keeps the run small:
each policy file is deployed and judged against the probes, but the service is
followed further with two only, the one that passes the gate (`GateAdmitsOne` says
there is no other) and, until the clock ticks, one that asks for no approvals and
no roles. `RefundsAreAuthorised` has no such limit. In `row_locks` two runs and two
sweeps are the fewest for a deadlock, and the client is a bystander that may wait
in it. In `stripe` the clock passes the last instant at which a request may arrive
and the first at which the key may be gone.

**Deadlock** is not checked: time stops at `MaxClock` and every run may be
terminal, so a small instance really ends.

**Symmetry** is used for workers, run ids and calls in runs that check safety
only; nothing in the specifications tells two of them apart.

**Fairness** (`TrustedAction!Fairness`): a process that has not crashed takes
its next step; a tool returns; time passes; somebody keeps calling the recovery
endpoint, as `docs/operations.md` asks ("Run recovery on a schedule"). Nothing is
assumed of approvers, operators, providers, crashes or new calls.
`RowLocks!Fairness`: a session goes on with its transaction, PostgreSQL looks for
deadlocks, and each recovery session sweeps while something is overdue. Which
session PostgreSQL ends is not assumed. With three sessions that sweep, rather
than two, TLC finds an endless history in which each deadlock ends the session
that was about to win; it takes sweeps that overlap again and again, and a
schedule with one or two callers excludes it.

## 4. Disagreements between the code and its documentation

1. `late_effect`. The lease fences the worker's report, not its tool. A worker
   that is paused between its claim and its request loses the lease, the sweep
   makes the run `unknown`, the operator's lookup truthfully says
   `not_committed`, the run becomes `failed`, and then the worker's request
   commits. `docs/provider-reconciliation.md:16` reads the outcome as final:
   "The provider authoritatively confirmed no operation committed". There is
   still at most one effect (`EffectAtMostOnce`), but the terminal status is
   wrong about it. `CompletedMeansEffect` holds: the error is on this side only.
2. `stranded_run`. `docs/threat-model.md:22` lists "dead executors remaining
   stuck or being automatically retried" as covered. An executor that dies after
   the policy's `allow` was stored and before the claim leaves a `created` run
   that no sweep looks at, `resume` refuses, and a duplicate only reports.
3. `late_expiry` (PostgreSQL). The expiry branch of `decide_approval` updates
   both rows by `run_id` alone (`ledger.py:625-632`). Two decisions around the
   deadline both read a pending approval; one approves, a worker starts, and the
   other then sets the executing run to `approval_expired`.
   `tests/test_reliability_contract.py:355` calls an expired approval "terminal"
   and says it "cannot execute". On SQLite the write lock rules this out
   (`TerminalIsFinal`, `ApprovalAgrees`).
4. `rechained_damage` (SQLite). The migration meant for 0.1 files takes any event
   without hash for an old one, computes the chain of its run anew and resets the
   anchor (`ledger.py:294-326`), and it runs at every opening. An event whose
   payload is changed and whose hash is cleared is therefore accepted by the next
   verification, also when `doctor` or `audit-export` themselves open the file.
   `docs/threat-model.md:24` lists "event modification, removal, or reordering
   detectable by the per-run hash chain" as covered, and
   `docs/architecture.md:70-72` excepts only those who can recompute history and
   anchor; here the ledger recomputes them itself. `DamageIsReported` and
   `BundleIsGenuine` say what holds until then.

Met on the way, and not stated by any document: a decision or a report that waits
between two sweeps is in their deadlock, and PostgreSQL may end it instead of a
sweep; its caller gets an error, and nothing of it was stored. `RowLocks` has
that history (`DeadlockTakesTwoSweeps` says that sweeps must have started it).

## 5. Proofs

`ActionLedgerProofs` proves about `ActionLedger`, for any sets of runs,
requests, policies, principals and owners, any timers and any bounds, from
`LedgerAssumption` alone (timers positive, `None` different from every value):

| Theorem | Property | Argument |
|---|---|---|
| `TypeCorrect` | `TypeOK` | inductive by itself; one lemma per operation |
| `LeaseDisciplineHolds` | `LeaseDiscipline` | inductive with `TypeOK` (`Owners` and `Nat` do not contain `None`) |
| `TerminalStaysFinal` | `TerminalIsFinal` | an action property; from the local steps below |
| `TrailAndStatusAgree` | `TrailDecidesStatus` | inductive with `TypeOK`; the last event of what each step appends |

The lemma `StepLocal` does most of the work there. A step of the ledger may rewrite
many runs at once (a sweep), but seen from one run it is one of ten local steps:
nothing happened, or the run was created, allowed, denied, sent to a person,
decided, expired, claimed, closed or reconciled. Each property is then proved
against the ten local steps instead of the fourteen operations.
The module begins with what the proofs need to know of a trail that one or two
events were appended to.

`LedgerSafetyProofs` goes on from the same steps, taken column by column
(`ColumnStep`: what each does to status, policy, attempt counter, approval and
trail), and from the same assumption:

| Theorem | Property | Argument |
|---|---|---|
| `TrailsAreLegal` | `TrailIsLegal` | strengthened by `Explained` (the status tells which events may be the last), because a step is guarded by the status and appends after the last event |
| `StartedAtMostOnce` | `OneExecution` | strengthened by `Started`: trail, attempt counter and status agree on whether the tool was started, and nothing claims a status in which it was |
| `ApprovalsAgree` | `ApprovalAgrees` | strengthened by `ApprovalMatches`, which also says which runs have no approval yet |
| `ExecutionsAreAuthorised` | `ExecutionIsAuthorised` | strengthened by `AllowedBy` (a claimable run without an approval has the `allow` of the policy it holds in its trail) and `Entitled` (an approval was given by somebody entitled) |
| `OneRunPerIdentity` | `UniqueIdentity` | inductive with `TypeOK`; only the insert makes a run, and no step changes a request |
| `UnknownWaitsForAnOperator` | `UnknownNeedsAnOperator` | an action property, from the local steps |
| `ApprovedInTime` | `ApprovalInTime` | an action property, from the local steps |
| `LiveLeaseIsNotTaken` | `LiveLeaseIsExclusive` | an action property; one operation at a time (`Held`, `HeldStep`), from `TypeOK` and `LeaseDiscipline`, because who reports matters here and the local steps do not name the owner |

It ends with `LedgerImplementsLifecycle`, the property `Lifecycle`:
the initial states map to initial states, and a step of the ledger maps to a step
of `ActionLifecycle` or to a stutter. `PhaseStep` is the image of a local step
for one run. An operation on one run leaves the other runs' phases alone
(`StepShape`), and a sweep moves any set of pending or executing runs together
(`SweepStep`). The mapping reads from the trail who was allowed, so `AllowedBy`
is needed again: a run claimed straight from `created` was allowed.

`TrustedActionProofs` proves about `TrustedAction`, for any number of calls,
requests, approvers and operators, from `LedgerAssumption` and
`RuntimeAssumption` (each call draws its own run id and owner, and operators are
principals):

| Theorem | Property | Argument |
|---|---|---|
| `RuntimeTypesCorrect` | `RuntimeTypeOK` | inductive with `TypeOK` and `Placed` (a call that goes on has a run that is stored) |
| `RuntimeUsesLedger` | `RuntimeSpec => Spec` | every step of the runtime is a step of the ledger or leaves it alone; all that is proved of `ActionLedger` therefore holds under calls, crashes, heartbeats and sweeps |
| `OneEffectPerIdentity` | `EffectAtMostOnce` | `OneRunner` (of one run at most one call reached its tool), which the ledger's `Executed` statuses keep up, and the ledger's `UniqueIdentity` |
| `EffectsAreCleared` | `EffectIsCleared` | `Sound` (an operation was sent only for a run that was started), and the ledger's `Started` and `ExecutionIsAuthorised` |
| `AnswersAreDurable` | `AnswerIsDurable` | part of `Sound`; no local step of the ledger leaves a terminal status |
| `SuccessHasItsEffect` | `CompletedMeansEffect` | `Informed`: a report of success, and an observation an operator or a probe still holds, agree with the provider, who forgets nothing |

`PostgresLedgerProofs` proves about `PostgresLedger`, for any number of runs and
open transactions, again from `LedgerAssumption`:

| Theorem | Property | Argument |
|---|---|---|
| `PgStartedAtMostOnce` | `OneExecution` | part of the invariant, as `Counted` |
| `PgTrailAndStatusAgree` | `TrailDecidesStatus` | part of the invariant |
| `PgApprovalsAgree` | `ApprovalAgrees` | from its part `ApprovalMatches` |
| `PgOneVerdict` | `OneVerdict` | from its part `Settled` |

Its steps are the local steps of the ledger and three more (`PgLocal`): a verdict
on what was read, the expiry that looks at nothing, and giving up a lease that
was read as expired. The invariant `PgInv` is what survives those three. `Started` does not: the blind expiry takes a run out of its
execution, and `Counted` therefore admits `approval_expired` among the statuses
of a started run. A verdict is the last one because an approval with a verdict is
never pending again (`Settled`), whatever an open transaction believes; of what
such a transaction read, nothing is needed but that its approval exists
(`Grounded`).

`RowLocksProofs` proves about `RowLocks`, for any number of runs, sweepers and
clients, from `RowsAssumption` (there are finitely many runs, as a table has
finitely many rows):

| Theorem | Property | Argument |
|---|---|---|
| `RowsAlwaysAgree` | `RowsAgree` | part of the invariant `LockInv` |
| `DeadlocksTakeTwoSweeps` | `DeadlockTakesTwoSweeps` | from `LockInv`, by the order of the rows of one run |

`RowsAgree` says nothing of the transactions that are under way, so `LockInv` adds
what they may look like and what they hold. `Planned`: a transaction that decides
a run updates its approval and then its run, with one verdict, and never one
without the other, or it moves the runs of approvals that are no longer asked.
`Holds`: a session is first in the queue of every row it changed, and the
committed value is still the one it found. The second row is therefore found as
the first one was (`SecondRowHits`), and a commit changes both rows of a run or
moves a run whose approval stays as it is (`CommitAgrees`). `AfterPlanned` is the
early return and the roll-back of a statement that missed, and `OthersHold` that no
step takes a row from the session that has it.

`InLine` is about the queues: nobody stands twice at a row, whoever is not first
waits there, and a session that has gone on from a row has at most the run's row
of that run left, after the approval. A member of a deadlock always waits for
another one (`DeadlockGoesOn`: `Deadlocked` is defined by closed sets, so this is
a lemma). If no two of the members are sweeps of several runs, take the one that
is, or any; all that wait at a row of the same run wait for one another, because the
others are about that run only. But at one row everybody waits for a lower place,
and who waits at the run's row waits for nobody who still waits at the approval
(`NoCircleInOneRun`). Nothing is said here of the fairness that ends a deadlock.

`EventChainProofs` proves about `EventChain`, for any processes, verifications
and bound, from `ChainAssumption` (`None` is no hash and no process):

| Theorem | Property | Argument |
|---|---|---|
| `ChainIsHistory` | `ChainTellsHistory` | `Locked` (whoever read the head holds the lock, and the head is still that) and `Intact` (undamaged, row, hash and anchor are functions of the position) |
| `DamageAlwaysShows` | `DamageIsReported` | `Detectable` (damage, a cleared hash included, leaves a broken link, which no append mends, or fewer events than the anchor counts, until a migration re-chains the run) and `Reporting` (what a verification read before an append it did not see stays behind the chain) |
| `NoFalseAlarm` | `QuietVerdictIsRight` | `Quiet`: undisturbed, the anchor it holds is that of the events it will read |
| `BundlesAreGenuine` | `BundleIsGenuine` | `Genuine`: a trail read before the damage is a beginning of the history, and one read after it belongs to a verification that fails or to a run that was re-chained |

`StripeSandboxProofs` proves about `StripeSandbox`, for any runs, lookups and
clock, from `StripeAssumption`:

| Theorem | Property | Argument |
|---|---|---|
| `OnePaymentPerRun` | `SinglePayment` | inductive with `KeyHeld` (the key of a recent payment is held, and the others are older than the retention) and `InTime` (what is under way arrives within the retention of the payment) |
| `CompletedRunsArePaid` | `CompletedIsPaid` | from that invariant with `Told` (a final status stored or answered is the payment's) and `Settled` |
| `FailedRunsAreUnpaid` | `FailedIsUnpaid` | the same; `Settled` also says that a failed run without a payment has no request under way |

`SinglePayment` alone is not inductive: a second payment is excluded by times, the
time of the run, of its payment and of each request, so the invariant relates
them.

`RefundServiceProofs` proves about `RefundService`, for any calls, people,
tenants, request bodies, run ids and bounds, from the assumptions of the runtime
and of the policy and from `ServiceAssumption` (approvers and operators are the
people with that role, nobody approves a request of his own, the default at
`runtime.py:664`, and requests are those `Governed` builds; the orders and policy
versions are the repository's):

| Theorem | Property | Argument |
|---|---|---|
| `GateAdmitsOne` |  | each switch of a configuration, and each role it may list, has a scenario that fails when it is wrong |
| `DefaultPassesGate` |  | each scenario's decision under that configuration; the theorems about released configurations are therefore about something |
| `ReleasesAreSafe` | `ReleaseIsSafe` | from `GateAdmitsOne` and `DefaultIsRight` (that configuration decides every request for a number, and every malformed one, by the rule) and `DefaultKnowsClaimants` (it denies who may not claim, whatever the amount) |
| `RefundUsesLedger` | `RefundSpec => Spec` | as for the runtime: `PlacedInv` and `SoundInv` are proved again, because the tool, the settlement and the sweeps are the service's own |
| `CompletedRunsAreRefunded` | `CompletedIsRefunded` | `InformedRefund`: a call that reports success has its refund in the store, and what an operator saw there is still there |
| `RefundsAreAuthorised` | `RefundIsAuthorised` | `OneRefund` (an order has one refund) and `Ruling`, below |
| `TenantsStayIsolated` | `TenantsAreIsolated` | `CalledInv` (a caller has the tenant of the run it goes on with) and `SignedInv` (so has every person a trail names) |

`RefundIsAuthorised` relates a refund to a policy that was asked long before, by
another call perhaps. `Ruling` carries the decision to it: a call that asks the
policy asks about the run's own request (`AskingInv`); the configuration it asks
does not change (`DeployedStays`); and if that is the default one, a run that was
cleared, waits or has an approval was ruled so by the business rule (`RuledInv`).
What the ledger guarantees of every caller (`ApprovalInv`, `ExecutionIsAuthorised`)
then turns into somebody else's approval of this request.

`ReleasesAreSafe` and `RefundsAreAuthorised` have one hypothesis more,
`ReviewedConfigs`: the policy files list no role but the three the scenarios of
the gate are about. Without it they are false: a fourth role in `allowed_roles` passes
the gate, as said above. The instance of `refund_service` satisfies it, and it says
nothing of what else a file may hold: files that would not pass are among them.

Only model-checked:

* Everything under fairness (`runtime_liveness`, and `WaitingEnds` and
  `OverdueIsSettled` of `row_locks`) and the violations of section 4: liveness, `ENABLED`
  and counterexamples are outside the prover's reach.
* Nothing else: every invariant and action property of the other passing runs is
  stated by a theorem above.

## 6. Plan

In this order; 6 is left.

1. `ActionLifecycle`, `ActionLedger`, `ActionLedgerProofs`.
2. `TrustedAction`.
3. The four theorems above.
4. `PostgresLedger` for one run, `RowLocks` for several.
5. `EventChain` for one run, with audit trails and bundles.
6. `SharedConnection`: threads on the one connection of a `:memory:` ledger.
7. `StripeSandbox`, `StripeSandboxProofs`.
8. `RefundPolicy`: the decision function against the business rule.
9. `RefundService`: which endpoint lets whom do what, end to end.
10. Theorems: the rest of the ledger's safety, the refinement of
    `ActionLifecycle`, the runtime over the ledger, the chain, PostgreSQL.
11. Theorems about `RowLocks` and `RefundService`.

## 7. Not modelled

Token verification, signing and hashing (cryptography: hashes are collision-free
where they appear), the offline verification of a bundle file, HTTP, rendering,
argument parsing, the endpoints and commands that only read, the stateless
framework adapters, and the web console. A `:memory:` ledger shared by threads is
planned: its threads share one connection, so a second `BEGIN` fails inside the
first one's transaction; no document offers it to a service, and used by one
thread it is `ActionLedger`.

What is known to go wrong and is not a run of its own: a refund of the text
`"nan"`. The model has it (`NaN`), from the policy that allows it to the refund
that is stored. `ReleaseIsSafe` and `RefundIsAuthorised` are not claimed of its
amount and of the second person, only that the requester may claim a refund of
the order and that the order is refunded once.
