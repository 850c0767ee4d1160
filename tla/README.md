# A.I.N.D.Y. — TLA+ models, model checks and proofs

A.I.N.D.Y. is a FastAPI/SQLAlchemy application of sixteen domains (`apps/`) on an external
runtime (`aindy-runtime`, imported as `AINDY`), which owns the dispatcher, the execution units,
the scheduler and the database sessions. This directory holds formal models of the parts whose
correctness depends on the order of things: several requests, jobs and outside parties acting
on the same rows, commits in the middle of an operation, a process that dies between two of them.

Paths below are relative to the repository. A module is checked by
`tlc -config <cfg> <module>` and proved by `tlapm <module>`; `PROJECT.json` lists runs, mutants,
theorems, hazards and the lines each definition stands for.

| Component | Module | Abstract specification | Proofs | Runs |
|---|---|---|---|---|
| Release handoff | `ReleaseHandoff` (`MCReleaseHandoff`) | `ReleasePromise` | `ReleaseHandoff_proofs`, `ReleasePromise_proofs`, `ReleaseOnce_proofs` | `release_*` (3) |
| Task lifecycle | `TaskLifecycle` (`MCTaskLifecycle`) | – | `TaskLifecycle_proofs` | `tasks_*` (2) |
| Strategy layer | `StrategyLayer` (`MCStrategyLayer`) | – | `StrategyLayer_proofs` | `strategy_serial` |
| Freelance orders, payments, subscriptions | `FreelancePayments` (`MCFreelancePayments`) | – | `FreelancePayments_proofs` | `payments_*` (3) |
| Infinity loop and its lease | `InfinityLoop` (`MCInfinityLoop`) | – | `InfinityLoop_proofs` | `infinity_*` (2) |
| Genesis, masterplan lock and activation | `MasterplanGenesis` (`MCMasterplanGenesis`) | – | `MasterplanGenesis_proofs` | `masterplan` |

Contents: 1 inventory · 2 plan · 3 release handoff · 4 task lifecycle · 5 strategy layer ·
6 payments · 7 Infinity loop · 8 masterplan · 9 what is proved · 10 what is only model-checked ·
11 what is not modelled · 12 conventions

---

## 1. Inventory

How the parts interact. A domain owns its tables. Another domain reaches them by a *syscall*
(`sys.v1.<domain>.<verb>`, dispatched by the runtime, which may refuse or raise; most callers
log the refusal and go on), by an import of `public.py`, or by an event. A syscall may carry the
caller's session (`metadata["_db"]`), and then its commit commits whatever the caller has
pending; or it opens its own. `apps/bootstrap.py` sorts the domains topologically at start-up; the
failure of a core domain stops the start, that of a peripheral one degrades it.

| Component | State it keeps | Operations | Interacts with | What is hard | What makes it correct |
|---|---|---|---|---|---|
| **Release handoff** `apps/automation/services/release_handoff_service.py`, `release_reply.py`, `github_actions.py` | `release_handoffs`: stage, JSON history, who was mailed | start a handoff; the watcher's tick (find the run, read jobs and gate, advance, notify, record the outcome, read replies); decide the gate | GitHub's REST API, SMTP/IMAP, tasks (syscall), memory, the owner | GitHub moves between four reads; card, reply and GitHub's page race; the tick commits before its effects; JSON read-modify-write over network calls; limits; crashes | a stage is a fact of the run; a decision on record is GitHub's; a mail and a reply at most once; handoffs overlap only by requests at the same time; every handoff ends |
| **Task lifecycle** `apps/tasks/services/task_service.py`, `apps/masterplan/services/dependency_cascade.py` | `tasks` rows, execution units (runtime) | create, start, pause, complete, delete; completion's event, cascade, unit hook and orchestration | masterplan (ETA, WCU, cascade), analytics (Infinity), freelance (writes statuses), automation (jobs) | no row locks: everything is read-then-write under READ COMMITTED; two unlocks that miss each other; writes pending in a session only some branches commit | dependencies come first; nothing stays blocked for ever; a completion's effects happen once; an automation runs after its dependencies, and one left to the cascade does run |
| **Strategy layer** `apps/masterplan/services/phase_advance.py`, `strategy_layer_service.py` | `plan_phases`, `plan_strategies`, `tasks.phase_id/strategy_id`, `master_plans.phase` | confirm, reopen; create, start, conclude, abandon, displace, move, promote, attach; dismissals; proposals | tasks (syscalls that commit the caller's session) | a verb commits halfway; calls are refused and the verb goes on; order of verbs | the phases are a chain; a verdict stands with a status that has one, and with no other; open work moves on; completed work stays; the legacy integer follows |
| **Freelance payments** `apps/freelance/services/freelance_service.py`, `webhook_service.py`, `idempotency.py`, the webhook route | orders, payment and refund records, webhook events | create, deliver (payment link, subscription, manual), change the delivery, Stripe's webhooks, refund, cancel a subscription | Stripe, tasks (statuses), system events that are required | webhooks repeated, reordered, early or late; each handler is several commits; whole-row columns written from a stale load; lost answers of Stripe | a payment is confirmed and announced once; what a row says of money is what Stripe did; a payment arrives in the end |
| **Execution lease, Infinity orchestrator and loop** `apps/analytics/services/orchestration/`, `scoring/` | a Redis key or a lease row per trigger, a heartbeat thread; `user_scores`, `score_history`, `loop_adjustments` | acquire, renew, release; `execute`: debounce, score, evaluate, decide, adapt | tasks, masterplan, memory, social | get-then-expire; Redis falling over to the database; renewal after release; rollbacks and commits inside one transaction | one run at a time for a trigger; no score lost; no decision passes the guard twice running; every run ends |
| **Masterplan genesis, lock, activation** `apps/masterplan/flows/masterplan_flows.py`, `services/masterplan_factory.py`, `services/genesis_service.py` | `genesis_sessions`, `master_plans` | open, talk to, import into, synthesize a session; lock it into a plan; activate a plan, lock it | language model, tasks | a request waits for a model between its load and its commit; two ways to lock, three to activate | one plan of a session; one active plan; versions follow parents; nothing a session has reached is taken back |
| **Background-runner lease** `task_service.py` 328–440, 1052–1105 | `background_task_leases` row, module globals | acquire, refresh, release; reminder and recurrence jobs | scheduler | lease expiry against a live owner; the heartbeat job | one instance runs the jobs |
| **Task synchronisation** `masterplan_execution_service.py` | a plan's tasks | insert them after a lock or an activation | tasks | two synchronisations of one plan; a crash midway | a plan has its tasks once |
| **ETA, pace, WCU, goals** | projections on the plan, goal states | recalculate, propose, confirm, dismiss | tasks' graph | stale projections; dismissal counts | a proposal returns when its evidence changes |
| **Works, market, drafts, resolution checks** | proposed/confirmed rows | propose, confirm, decline | language model, search | double confirmation | a confirmed row was proposed |
| **Automation execution, owner notices** | automation logs, notice de-duplication | run a handler; mail one notice | SMTP, Stripe, social | retries of what was done | a job's effect once |
| **Agent** planners, tools, triggers | none of its own | plug-ins of the runtime | runtime | – | – |
| **RippleTrace**, **Search**, **Social**, **Network bridge**, **Identity**, **ARM**, **Memory**, **Autonomy**, **Dashboard**, **Authorship** | records of fetched pages, leads, scores, profiles | ingest, score, serve | external APIs, language models | upserts keyed by URL; auto-tune audit | – |
| **Bootstrap**, **client**, **migrations** | – | start-up order, presentation, schema | – | – | – |

The hazards — what in this code is hard to reach with a test — are in `PROJECT.json`, each at
its line with the properties that would catch it or the reason why none does.

## 2. Plan

Order: the behaviour with the most independent actors first.

1. `ReleasePromise`, `ReleaseHandoff` — five actors (watcher, card, starter, GitHub, owner) on one row. **Done, with proofs.**
2. `TaskLifecycle` — concurrent requests on shared rows, the cascade, the unit hook, the orchestration. **Done, with proofs.**
3. `StrategyLayer` — multi-commit verbs over two domains' tables. **Done for requests served one at a time, with proofs**; the dismissals (of a phase proposal and of a conclusion proposal, whose evidence is a count) are left.
4. `FreelancePayments` — links, subscriptions, refunds against Stripe's repeated and reordered webhooks. **Done, with proofs.**
5. `InfinityLoop` — the execution lease over Redis and the database, its heartbeat, and the transaction it guards. **Done, with proofs.**
6. `MasterplanGenesis` — conversation, lock, versions, one active plan. **Done, with proofs.**
7. Left: the background-runner lease (the same row, another protocol, with known faults: section 11), the synchronisation of tasks after a lock, the queued generation of deliverables.

The number of runs is kept at twelve, each a different question. A new component therefore
joins a question to an existing run or takes the place of one.

Every safety and action property of a run is a theorem (section 9), some of them under hypotheses on the
constants. Next: `NoStaleBlock` for deeper graphs in which every task is completed once, what is left of `OneUsePerReply`
with a card beside the reply, and theorems for whatever module is added.

## 3. Release handoff

`ReleaseHandoff.tla` models one tag and the handoffs made for it.

**State.** `gh` is GitHub's truth (tag, run, jobs, gate and who decided it, how old each fact is);
`rows` the `release_handoffs` rows; `sess` what each thread holds between two steps (program
counter, loaded history, events it entered); `seen` the watcher's four reads, which are four
actions, for GitHub answers them at four instants; `todo` the handoffs the tick has left;
`inbox` the owner's first deciding reply; `effects` what has left the system, counted.

**Actions.** `StartCheck`, `StartInsert` are `start_handoff`; `RequestDecision`, `DecideLoad`, `DecideCheck`,
`DecidePost`, `DecideRecord` are `decide` with its load, its pending read, its POST and its commit;
`TickStart`, `TakeHandoff`, `FindRun`, `AwaitRun`, `GetRun`, `ReadJobs`, `ReadPending`, `Advance` are the
watcher up to the first commit; `CompleteTask`, `WriteNote`, `CreateAdoption`, `Notify`,
`CommitEffects` the side effects and the second commit; `CheckReplies`, `ReadMailbox`, `SpendReply`,
`RecordOutcome` the email reply, which calls `decide` in between. `Unavailable` is a failed GitHub
read. External actions: `PushTag`, `RunStarts`, `JobSucceeds`, `JobFails`, `OwnerDecides`,
`PypiStarts`, `RunEnds`, `PassTime`, `OwnerReplies`, `Crash`.

| Run | Question | Instance |
|---|---|---|
| `release_follow` | Do handoffs of a tag overlap only when requests to start them do (`OverlapByRaceOnly`)? | 2 requests at a time, 3 handoffs, 1 crash, limits off; 1.2 M states |
| `release_act` | With failing effects, failing GitHub and a crash anywhere, a mail reply racing GitHub's own page: no mail and no reply used twice (`MailOnce`, `OneUsePerReply`), no record of an unfinished release (`RecordsOnlyDone`), and on record what GitHub decided (`DecisionIsGitHubs`, `OutcomeIsGitHubs`)? | 1 handoff, replies, lost answers, 1 crash |
| `release_settle` | Is what a row says true of GitHub (`RecordIsFact`), do stages come in order (`InOrder`), does the watcher implement `ReleasePromise` (`KeepsPromise`), does every handoff end, and does a done one get its records (`Settles`)? (`FairSpec`) | 1 handoff, a card, limits 0 of ages 0–1; GitHub, the owner and the card free to stop for ever; no failing effects; 405 k states |

**Bounds.** Two requests, which are interchangeable (symmetry), are the smallest race for the insert, and a third handoff comes after
such a race. Two handoffs and both limits together (4.1 million states) were explored beyond the runs, with nothing more found. An age of one unit past a limit
of zero is the smallest that expires; ages saturate, so a limit equal to `MaxAge` never expires,
which switches the limits off in the runs that are not about them. The reply beside GitHub's page is the
smallest race for a gate; one crash reaches every pair of adjacent commits.

**Fairness.** `FairSpec` has weak fairness of the watcher as a whole (the scheduler calls it every
minute, and one call is sequential code that ends) and of time. Nothing is assumed of GitHub, of
the owner or of a request. `Settles` therefore rests on the two limits and on nothing else.

**Known weaknesses.** Two definitions of the module say what a comment of the code promises and the code
does not do; they are checked by no run, and TLC refutes them under these constants.

- `DecisionOnRecord` ("writes one history entry"): `MaxHandoffs` 1, `Starters {"s1"}`, `Deciders {"d1"}`, every
  Boolean `FALSE`, all bounds and limits 0. `decide` rewrites the whole JSON history from a copy loaded before two
  GitHub calls, as does the tick: one loses the other's entry. The gate is decided, GitHub's record is right,
  but the handoff's says nothing of the decision.
- `RestartLosesNothing` ("a restart loses nothing"): the same with `Deciders {}` and `MaxCrashes` 1. The tick commits
  `done` first and derives mails, note and adoption task from the stages entered *in this call*; a process that dies in
  between leaves them undone for ever, as no later tick reads a done handoff.

Two concurrent `POST /releases` for one tag both pass the check and both insert (`release_handoff_service.py:459`): the tag
has two open handoffs, and when its release is done two adoption tasks and two of each mail. `OverlapByRaceOnly` does not
deny it. It says that nothing else does this: each row carries how many handoffs its request's check found (`after`, a history
field), and those have failed, stay failed and left no adoption task. What the records of a
release promise when one fails (`release_handoff_service.py:341`) is modelled, with any of the three failing, and
`RecordsOnlyDone` is checked so; that the others are written all the same is the order of three actions and no property, for
`Settles` is checked without failing effects. A run that is already old when it is handed off stalls on
its second tick, since `stage_at` is GitHub's time. With a card beside the reply, a reply's
recorded outcome may be overwritten and stay pending (`ReplyAnswered`, `release_reply.py:195`); that it is sent to
`decide` once holds with the card too, and is proved (`ReplyUsedOnce`).

**Abstractions.** A re-run of a GitHub job and a tag pushed again are left out; the first deciding reply
is the only one; `perform_external_call` is the runtime's; events emitted have no state here.

## 4. Task lifecycle

`TaskLifecycle.tla` models the tasks of one user. A request is a session: it loads its row (`Load`),
queries and prepares writes (`CheckCreate`, `CheckBlocked`, `CheckStart`, `CheckPause`, `CheckComplete`,
`CheckDelete`, `CheckFeedback`), and commits them (`Commit`); other sessions' steps come between.
A completion goes on: `Event` (TASK_COMPLETED), `CascadeNext`, `Activate`, `CascadeDone`
(`activate_ready_tasks`, which reads each task again before it starts it) and `Queue` (its automation), `FindUnit` and `SettleUnit` (the
hook reads the execution unit and later writes it, without a lock), `Orchestrate` (the second unlock, pending in a new session), `PlanCommits` (the plan's recalculation, which happens
to commit it), `TakeLease` and `Score` (the Infinity run, which does too), `Dispatch` (automation).

A write that a session holds is a function `put` from tasks to statuses, since only changed columns are written;
two sessions that hold a write of one row exclude each other at the flush (`Holds`, `Free`: PostgreSQL's row lock).
`AutoFlush` is a constant because `SessionLocal` belongs to the runtime: with it a session's own pending
writes are visible to its queries. `crossed` remembers the tasks whose unit changed between a hook's read and its write.

| Run | Question | Instance |
|---|---|---|
| `tasks_order` | Whatever is asked for: do dependencies come first (`DependenciesFirst`), and automation after them (`AutomationAfterDependencies`), do units settle (`UnitSettles`), does the automation left to the cascade run (`ReadyAutomationRuns`)? (`FairSpec`) | 2 sessions, all 7 operations, 3 requests, a crash; 4 tasks: one automated that waits for one, one automated and created later that waits for two; 408 k states |
| `tasks_settle` | Two completions that miss each other: do the dependents unblock (`NoStaleBlock`), does the automation run (`ReadyAutomationRuns`)? (`FairSpec`) | 4 tasks, two of which wait for the two others, one automated; pauses and completions, 4 requests; 475 k states |

**Bounds.** A join of two tasks is the smallest graph in which two completions can miss each other;
four requests let each dependency be completed twice, three let one be completed, rejected and completed
again. Explored beyond the runs, and found right: all operations and a crash on three tasks with four requests and a clock
(2.2 million states), and the same on a line of three with `ReadyAutomationRuns` (2.2 million). Deadlock is not checked in these runs: after the last request the system stops.

**Fairness.** `FairSpec` has weak fairness of each request's own steps (a handler that was called runs to
its end); nobody has to send a request. `ReadyAutomationRuns` says what the last completion owes.

**What the properties leave out.** `UnitSettles` leaves out units another hook wrote between a hook's read and its write, tasks an order
completed (no hook is called), crashes, and tasks created in the run, which may be completed before their unit is there.
`ReadyAutomationRuns` leaves out a task started by hand (the cascade skips what is in progress), one created after its
dependencies were completed, one that an order makes ready or completes, dependencies in other plans, and crashes: only the cascade of
a completion looks for ready tasks, and nobody promises these their automation. `NoStaleBlock` is checked for pauses and completions
in a user's active plan.

**Known weaknesses.** Refuted by TLC under constants that no run has:

- `CompletionFiresOnce`: two tasks and `DependsOn <- Pair`, `Automated {b}`, two sessions, `Workload {"start", "pause", "complete"}`,
  `MaxServed` 3, `MaxTime` 1. `complete_task` guards on the row it loaded, and commits later without a lock: two
  requests for one open task both pass, and the event, the cascade and the orchestration run
  twice. The test of idempotency repeats the call in sequence.
- `TimeSpentIsElapsed`: the same with `MaxTime` 3. `pause_task` adds the time since
  `start_time` and leaves `start_time`; `complete_task` adds it again, and the pause with it.

- `NoStaleBlock` beyond the graphs of its theorem. Three tasks in a line (`c` waits for `a`, `d` for `c`), two sessions,
  `Workload {"complete"}`, `AutoFlush FALSE`, `PlanActive TRUE`, `MaxServed` 5: two completions of `a` each unlock `c`, the second commits
  after `c` was completed and turns it back to pending, a completion of `d` finds it so, and `c`'s second completion unlocks nothing because
  `d` is not blocked yet. Two tasks before a third, one of the two automated, `Workload {"pause", "complete"}`, autoflush:
  the cascade starts the automated one, and its pause, checked before its completion, commits after it.

A start refused for a dependency writes
"blocked" from a stale read; so does a double completion without autoflush. `delete_many` deletes a row
completed after its read. A deleted dependency blocks its dependents for ever. A pause or unlock
committed after a completion turns it back (no order breaks, as `DependenciesFirst` shows). The
orchestration's unlock is lost when there is no active plan and the lease is taken. A creation or a start racing
the last dependency's completion stays blocked. A crash after the completion's commit loses the chain for good,
since the guard keeps a retry from repeating it. A pause's hook that
writes "waiting" between the read and the write of a completion's hook leaves the completed task's unit behind
(`task_service.py:597`, 713). One automation may be dispatched twice, by the cascade and by the orchestration: no property counts dispatches.

**Abstractions.** The dependency query and the candidates' query that follows it are one step; `start_task`
inside the cascade is its load, check and commit in one step (its hook and the queueing are steps of their own); the runtime's `update_status` is modelled by the edges its callers rely on; a
crashed request frees the Infinity lease at once.

## 5. Strategy layer

`StrategyLayer.tla` models one plan: its phases (a chain, written once by the seeder), strategies, tasks
with their `phase_id` and `strategy_id`, and `planPhase`, the legacy integer. A verb is a load and a list
of steps: `ConfirmAdvance`, `ReopenPhase`, `StartStrategy`, `ConcludeStrategy`, `AbandonStrategy`,
`DisplaceStrategy`, `MoveStrategy`, `AttachTasks`, `PromoteTask`, `CreateTask` keep the rows as loaded (`seen`) and
as changed (`mine`) and queue task calls (`SetPhase`, `Follow`, `SetStrategy`, `Release`, `DeleteMany`,
`Insert`) and the verb's own `Commit`. A task call runs on the verb's session, so it flushes the columns that differ
and commits them (`Flush`, `Merged`). `Refuse` is a call that raises or is refused (`_dispatch_tasks` logs it
and the verb goes on); a refused `list_for_masterplan` reads as "no tasks" (`Listings`). `Crash` drops what is uncommitted.
`Recalculate` is the WCU job re-deriving the integer. `lost` remembers that a call was refused or a request
died, so that a property may speak of requests that went through.

| Run | Question | Instance |
|---|---|---|
| `strategy_serial` | Whatever is refused and wherever a request dies: do the phases stay a chain (`ChainHolds`), does a strategy have a verdict exactly while it is concluded or abandoned (`VerdictFitsStatus`), do tasks and the legacy integer agree with the layer (`LayerAgrees`), is done work kept and open work moved on (`WorkFollows`)? | 2 phases, 1 strategy, 2 tasks, 1 elapsed window; 0.88 M states |

**Bounds.** Two phases: both can be complete, so that reopening the first alone would break the chain, and
one can be closed over work that moves to the other. `ChainHolds` is proved for every number of phases (§9); an exploration with
three (2.5 million states) found nothing more.
One strategy and two tasks: one under it and one beside it. One
elapsed window: a phase closed by time and one closed by work. One of the three outcomes, since the code tells
none of them from another. Tasks are interchangeable, so the run uses symmetry (no liveness is checked).

**Assumption: requests of one plan are served one at a time** (`Overlap = FALSE`). The plan has one owner who presses these
buttons. No document promises anything of two at once; with `Overlap = TRUE` and two sessions TLC breaks
- `ChainHolds` and `LayerAgrees`: a confirmation and a reopening, or a confirmation sent twice, that load before the other commits;
- `VerdictFitsStatus`: `displace` beside `conclude`: each writes the columns it changed, and the row ends displaced with an outcome;
- `LayerAgrees`: a move beside a creation under that strategy;
- `WorkFollows`, in its part on open work: a creation beside a confirmation.

`CompletedWorkKept` holds with overlapping requests too, and is proved so.

**Known weaknesses.** `DisplacedStaysUnjudged` ("A displaced strategy has no outcome, ever. It was never tried",
`strategy_layer_service.py:9`) is refuted with one phase, one strategy, one task, one session, `Refusable {}`, `MaxElapsed` 0: `abandon`
has no guard (294), and judges a strategy that was displaced. A proposed one can be concluded too (269). That a judged strategy was tried is
therefore claimed nowhere; `VerdictFitsStatus` says only that a verdict and its status come and go together.

`ClosedPhaseIsClear` ("a closed phase cannot hold open work") is refuted with three phases, one strategy, two
tasks, `Refusable {}` and one session. The evidence leaves out every task under a strategy, and a confirmation moves the tasks of unfinished
strategies only: an open task under a concluded strategy (attached or created after the verdict, for conclusions do not release) stays
in the closed phase, unreported. `OpenWorkMovesOn` states what does hold: only such tasks stay behind.
A confirmation of the last phase moves nothing. `move` to no
phase leaves the tasks where they were. A refused list lets an elapsed phase close on empty evidence. `LayerAgrees` and the part of `WorkFollows` on open work claim nothing once a call was
refused or a request died; what must hold even then is `ChainHolds` and `VerdictFitsStatus`.

**Abstractions.** A task call's query and commit are one step; `move`'s list and `set_phase` are one step (`Follow`);
blocked and paused tasks stand as `pending`; a phase without a duration has a window that
never elapses, which is `MaxElapsed` below that phase.

## 6. Freelance payments

`FreelancePayments.tla` models orders, what a delivery creates at Stripe for them, and what comes back.

**State.** `order`, `payment`, `refund`, `task` and `event` are the tables (order rows, one payment record per
intent, one refund record per key, the linked task's status, the webhook claims). `stripe` is Stripe's truth: the links
shown, what became of each intent, the statuses each subscription has been through (`life`) and the events
raised so far. `req` is what each request thread holds between two commits: its place and the order as it loaded it
(`seen`). `posts` and `told` count refunds asked and confirmations announced.

**Actions.** `CreateOrder`, `UpdateDeliveryConfig` are one commit each. `Deliver`, `MakeLink`,
`DeliverCommit`, `DeliverFail`, `TaskFeedback` are a delivery: the load, the call of Stripe, the commit and its required
events, the handler of every failure, the task. `Receive` claims an event, commits the claim and looks the order up; then
`Reserve`, `ConfirmOrder`, `ConfirmRecord`, `Announce`, `CompleteTask` are `record_payment`,
`PaymentFailed` is `_fail_payment`, `CompleteTask` the linked task's completion, by name and with every failure swallowed, so that no task, this one or another of that
name may be completed; `UpdateSubscription`, `FindAgain`, `ApplyAccess` the four subscription
handlers, and `MarkOutcome` closes the claim. `Refund`, `ReserveRefund`, `PostRefund`, `RefundOrder`,
`RecordRefund` are `issue_refund`; `Cancel`, `DeleteSubscription`, `CancelOrder` are `cancel_subscription`. `Written` is the
ORM's update: the columns that differ from the row as loaded. External: `Pay`, `Decline`,
`SubscriptionTurns`, `Crash`. A read that directly follows a commit of the same request is one step with it.

| Run | Question | Instance |
|---|---|---|
| `payments_faults` | Whatever overlaps, fails or is lost: is a payment announced once and a refund asked once (`OncePerKey`), is what order and refund records say of money what Stripe did (`MoneyIsStripes`), does a refunded order stay so (`RefundFinal`)? | 1 order of any type, 2 payments of which one may be declined first, 1 subscription of up to 3 statuses, any 3 events in any order, 2 threads, 1 delivery, 1 refund key, refused events, lost answers, 1 crash; 0.78 M states |
| `payments_settle` | Where nothing fails, does a charge through the kept link arrive, on the order and in its record (`PaymentsArrive`), and does a refund, on the order and in the record of the key that asked for it (`RefundsRecorded`)? (`FairSpec`) | 2 deliveries, 2 refund keys, the delivery type changing meanwhile; 94 k states |
| `payments_lost` | *violated*: an event that has a claim has been processed (`AlreadyProcessed`) | 1 crash |

**Bounds.** One order, since requests of different orders share nothing but the claims, which are by event. Two threads are the smallest race;
two intents let one link be paid twice; three events let both events of one payment meet one of the other, or a late event
meet an end. Explored beyond `payments_settle`, and found right: two payments, one delivery, two keys and four events (144 k states); two payments,
two deliveries, one key and four events with the type kept (301 k). A subscription's first three statuses reach each kind of event, and its end after it
was active. Threads and refund keys are interchangeable (symmetry in the run without liveness).

**Fairness.** A request that was begun goes on (weak fairness of each thread's steps); Stripe sends an event until a request takes it
(strong fairness of `Receive`, since threads are busy now and then). Nobody has to pay, deliver or refund.

**Finding (`payments_lost`).** The claim is committed before the event is handled, and any claim is answered as
"already processed" with status 200 (`freelance_router.py:870`): a process that dies in between, or a handling that fails, leaves an event that nobody
processes, though Stripe would send it again.

**Known weaknesses.** A crash between the payment record and the order's confirmation leaves a pending record, which later events of that
payment find and take for done. A refund whose answer is lost is recorded as failed while Stripe has refunded; the same key is answered
as if it had gone well, and a new key is refused by Stripe. A second payment through one link keeps
the first intent and reopens a refunded order. Of two deliveries at once one loses its link; a second delivery
of a subscription replaces its id while the first goes on billing; a lost answer at its creation leaves a subscription nobody knows.
An event that overtakes the commit of its link, or of its subscription's id, finds no order and is marked fulfilled.
Subscription events carry no order: a late `updated` or `invoice.paid` gives access back after a cancellation, a late
`created` (status `incomplete`) takes it away from a customer who has paid. A required event refused after the delivery's commit turns
it into `delivery_failed`. `_fail_payment` finds orders by intent only, so that a payment declined first is never marked.
A payment's linked task may stay open, or another task of its name be completed (`webhook_service.py:158`): no property speaks of the task.

**Abstractions.** Amounts, customers and periods are left out; `trialing` counts as `active`; Stripe's `invoice.paid` and
`invoice.payment_succeeded` are one event; an order's type is `payment`, `subscription` or `manual` (email, webhook and
Stripe deliveries write no column of money that these do not); the queued generation of a deliverable is not modelled.

## 7. Infinity loop

`InfinityLoop.tla` models one user whose score several triggers recalculate, in several processes.

**State.** `redis` and `rows` hold a lease per trigger (owner, time left; a row may be `open`: written by a transaction
that is not committed); `up` says whether Redis answers. `run` is each call of `execute`: its place and its
transaction (does it hold the user's row, which version did it read, what has it written). `beat` is its heartbeat thread.
`score`, `history`, `adjustments` are the tables. `disturbed` remembers that a lease was left without its guard, or that a run gave up its
rows midway, so that a property may name its exceptions.

**Actions.** `Execute` is SET NX EX; `AcquireDb` the fallback; `Begin` starts the heartbeat and debounces; `Score`,
`FirstScore`, `Insert` are `calculate_infinity_score` under `FOR UPDATE` and the version; `Evaluate`, `Latest`, `Decide`, `Adapt` are
`run_loop` with the commits and swallowed rollbacks of its helpers (`Decide`: the thrash guard compares the decision, and only then a decision of
`NeedTask` becomes `CreateNewTask` when the user has no open task, which the row tells: `turned`); `Stop`, `Release`, `Finish` are the `finally` clause.
`BeatSet`, `BeatGet`, `BeatExpire`, `BeatDb` are the heartbeat's calls, each its own instant. `Tick` is one heartbeat interval, `Flip` Redis
going away or coming back, with its keys or without, `Crash` the end of a process.

| Run | Question | Instance |
|---|---|---|
| `infinity_lease` | Do runs of one trigger exclude each other (`LeaseExcludes`), is no score computed from one that was overwritten (`NoLostScore`), is a decision recorded twice running only as a `create_new_task` made of another after the guard (`NoThrash`)? | 2 runs of one trigger, 2 decisions, one of which needs an open task, a lease of two intervals, Redis flips once; 4.0 M states |
| `infinity_ends` | Does every run end, and does every lease (`LoopSettles`)? (`FairSpec`) | a lease of one interval, 1 crash; 219 k states |

**Bounds.** Two runs suffice for exclusion and for the row; runs of different triggers meet at the score's row
and the adjustments alone, where two runs of one trigger meet too once Redis has flipped. A lease of two intervals is the smallest that
survives one late heartbeat (the code's is three: 90 and 30 seconds). Redis starts up or down.

**Fairness.** A run that has begun and a thread that was started go on; time passes. Nobody has to begin a run.

**Known weaknesses.** Redis going or coming during a run puts two runs on two kinds of lease; a run goes on after its lease is lost, for the
heartbeat's result is ignored; a heartbeat inside a call outlives `stop()` and takes the lease again, for one life; Redis' lease
is released before the commit; GET and EXPIRE are two calls and may extend another owner's key. A swallowed
failure in the evaluation or in `adapt_policy_thresholds` rolls back the score and the adjustment while the run
answers success. `adapt_kpi_weights` commits midway and gives up the row, after which a decision may be repeated. The thrash guard answers with
the old adjustment and does not say so. It comes before `reprioritize_tasks` and `continue_highest_priority_task` become `create_new_task` for want of an
open task (`infinity_loop.py:469`), so that `create_new_task` rows follow each other within the hour, in serial runs too. Two first scores race for the insert and the loser's session fails. A lease that joined a transaction of the caller's
is undone by its rollback. `docs/verification/DEFECT_INFINITY_RECALC_DEBOUNCE.md` describes the defect the debounce answers.

**Abstractions.** The scores are floating-point sums over other domains, and only their versions are kept; the retry of a
lost version cannot happen while the row is locked.

## 8. Masterplan

`MasterplanGenesis.tla` models one user's conversations, the plans locked from them, and which is active.

**State.** `sessions` (status, readiness, draft), `plans` (session, parent, version, status, active) and each worker's request: what it
works on, the row as loaded, the rows its transaction holds.

**Actions.** `FindNone`, `CreateSession`; `StartImport`/`FinishImport`, `StartMessage`/`FinishMessage`,
`StartSynthesis`/`FinishSynthesis` (between the two a model is asked); `StartGenesisLock` (the route, which
loads the session before the factory locks its row), `StartPlanLock` (the flow node, which does not), `TakeSession` (SELECT … FOR UPDATE and the guards),
`CommitLock` (the insert, or the unique index); `StartActivation`, `Deactivate` (the bulk UPDATE, whose rows are held until the commit),
`CommitActivation`; `StartRelock`, `CommitRelock`; `Abandon` (an exception, a refusal, or the end of the process before the commit).

| Run | Question | Instance |
|---|---|---|
| `masterplan` | One plan per session (`OnePlanPerSession`), at most one active (`SingleActive`) which another replaces without a gap (`ActiveStays`), parents older and of smaller version (`Lineage`), nothing a session has reached taken back (`SessionForward`), and no deadlock? | 2 workers, 2 sessions, 1 draft; 1.06 M states |

**Bounds.** Two workers are the smallest race, two sessions the smallest lineage and succession; the code does
not tell drafts apart, save from none. A third session adds plans and no new kind of overlap.

**Assumptions.** A bulk UPDATE is one instant that takes every row it sees: PostgreSQL's statement snapshot and its queue
for a row. `masterplan_activate_node` compares a UUID column with a string, so that SQLAlchemy's synchronisation in
Python may leave the plan's `is_active` as loaded: the model lets both happen.

**Known weaknesses.** Re-activating the active plan through that node may leave no plan active (`ActiveStays` excludes it by name).
Sessions locked at once take one version and may both be origins. The plan that was active keeps the status "active";
`masterplan_lock_node` leaves the active plan active with the status "locked". The route's lock uses the draft as loaded before the row lock, and only the unique
index stops a second plan. `POST /masterplans/lock` without a draft locks a ready session that was never synthesized into a plan
of structure `{}`, against `docs/operations/INVARIANTS.md` (24). Locked sessions still take messages and syntheses. Two creations open two
sessions; two messages at once lose a turn of the conversation. What follows the lock's commit (memory, identity) may raise, and then a lock that
stands is reported as failed and its tasks are not synchronised. `restore_synthesis_ready` guards a case nothing causes.

**Abstractions.** What the model says, the history of a conversation, and the rows other tables get afterwards are left out.

## 9. What is proved

Every safety property and every action property that a run checks, and the refinement, are theorems: `Spec => []P`,
`Spec => P` for an action property, for every value of the constants that satisfies the module's named
assumption (`ReleaseAssumption`, `ConstantsAssumption`, `LayerAssumption`, `PaymentsAssumption`, `LoopAssumption`,
`GenesisAssumption`): any number of handoffs, sessions, tasks, strategies, phases, orders, payments, threads and runs, any
task graph, any limit, bound and number of crashes. What a theorem assumes beyond that stands in its row.

| Theorem | States | Argument |
|---|---|---|
| `ReleaseHandoff_proofs!TypeCorrect` | `TypeOK` | `Typed == TypeOK /\ Intent`: a thread's program counter tells what its other fields hold |
| `…!DecisionCorrect`, `…!OutcomeCorrect` | `DecisionIsGitHubs`, `OutcomeIsGitHubs` | `Agreed`, below |
| `ReleasePromise_proofs!Inductive` | `IInv`, which the rest of the module follows from | below |
| `…!RecordIsTrue` | `RecordIsFact` | `RowsTrue` |
| `…!MailedOnce` | `MailOnce` | `Due`, `EffectsFit` |
| `…!RecordedWhenDone` | `RecordsOnlyDone` | `Due`, `EffectsFit` |
| `…!StagesInOrder` | `InOrder` | each step of the watcher from `IInv` |
| `…!PromiseKept` | `KeepsPromise`: the watcher, `decide` and `check_replies` implement `ReleasePromise` | initial states map to initial states; under `IInv` each step maps to one of `ReleasePromise` or to a stutter |
| `ReleaseOnce_proofs!OverlapsOnlyByRace` | `OverlapByRaceOnly`, with any number of requests to start at a time | `Seen`, below |
| `…!ReplyUsedOnce` | `ReplySpentOnce`: a reply is sent to `decide` once, whoever decides beside it | `Spent` |
| `…!ReplyHasOneUse` | `OneUsePerReply`, while nobody decides on the card (`Deciders = {}`) | `Spent`, `Answered` |
| `TaskLifecycle_proofs!TypeCorrect` | `TypeOK` | directly inductive |
| `…!DependenciesCorrect` | `DependenciesFirst` | `OrderInv`, below |
| `…!AutomationCorrect` | `AutomationAfterDependencies` | `AutomationInv`, below |
| `…!UnitsCorrect` | `UnitSettles`, with its exceptions | `SettleInv` |
| `…!SimpleUnblocks`, `…!NothingStaysBlocked` | `NoStaleBlock`, for pauses and completions in a user's active plan without crashes: for the tasks whose dependencies wait for nothing and are not automated in any graph; for a graph of such tasks | `FlowInv`, below |
| `StrategyLayer_proofs!TypeCorrect` | `TypeOK`, with overlapping requests too | directly inductive; a request's remaining calls are a sequence over `Calls` |
| `…!ChainCorrect`, `…!VerdictsCorrect` | `ChainHolds`, `VerdictFitsStatus`, if requests do not overlap | `SerialInv`, below |
| `…!LayerCorrect` | `LayerAgrees`, if requests do not overlap | `AgreeInv`, below |
| `…!CompletedWorkCorrect` | `CompletedWorkKept`, with overlapping requests too | `InsertsFresh`: a task whose insertion is under way does not exist, and is inserted once |
| `…!WorkCorrect` | `WorkFollows`, if requests do not overlap | `AgreeInv` and `InsertsFresh` |
| `FreelancePayments_proofs!TypeCorrect` | `TypeOK` | `IInv`, below |
| `…!PaidAndAskedOnce` | `OncePerKey` | `PaidOnce`, `AskedOnce` |
| `…!MoneyIsTrue` | `MoneyIsStripes` | `OrdersTrue`, `RefundsTrue` |
| `…!RefundsStay` | `RefundFinal` | a refunded order changes in `ConfirmOrder` alone, for an intent that was `Unknown`, so that two are credited |
| `InfinityLoop_proofs!TypeCorrect` | `TypeOK` | directly inductive, with `RunsStarted` |
| `…!ScoresCount`, `…!DecisionsChange` | `NoLostScore`, `NoThrash` | `RowHeld`, below |
| `…!LeaseProtects` | `LeaseExcludes`, if a lease lasts two intervals or more (the code's: three) | `LeaseHeld`, below |
| `MasterplanGenesis_proofs!TypeCorrect` | `TypeOK` | `IInv`, below |
| `…!OnePlan`, `…!AtMostOneActive`, `…!ParentsAreOlder` | `OnePlanPerSession`, `SingleActive`, `Lineage` | `IInv`, below |
| `…!NothingTakenBack`, `…!AnActivePlanStays` | `SessionForward`, `ActiveStays` | each commit, from what `IInv` says of its request |

**Release handoff.** *Agreed.* That a recorded decision is GitHub's is not inductive: the record is written from a list loaded
earlier. `Agreed` adds that the gate opens only behind TestPyPI and its verdict never changes
(`GateOpened`), that every stored history is sincere (`SincereRows`), and that every thread is honest
(`HonestThreads`): the list it holds is sincere, and one that is about to record a verdict has GitHub's answer
for it. A stale list may lose an entry (section 3), but never contradict GitHub, which decides once.

*IInv.* What a row says rests on four reads made at four instants. GitHub's facts come in an order (`Ordered`) and
are never taken back (`Grown`), so that what was read holds still (`ReadsTrue`) when the row is written, and what was written when the
row is read (`RowsTrue`), however late a thread writes its copy back (`ThreadsHold`). `Watching` says that the tick
follows open handoffs, each once; `Due` that what a tick is about to mail or record for the stage it entered has not been mailed or recorded;
`EffectsFit` that what has left the system is of a stage the handoff has reached. A crash loses what is due and
repeats nothing, since the stage is committed first. `Seen` says that every handoff a request's check
counted has failed, while the request stands between its check and its insert, and for good once the row carries the count. `Spent` says that a reply that was
sent to `decide` has left its mark on the row *and* on every copy of the history that the watcher may write back;
`Answered` that a pending reply is in the hands of the tick that took it.

**Tasks.** *OrderInv.* `DependenciesFirst` alone is not inductive, since the commit follows the check by several steps. It
adds that the rows' statuses are remembered in `begun` and `finished`, which only grow (`RowsRemembered`), and
that a session holding "in_progress" or "completed" for a task has seen all its dependencies
finished (`SessionJustified`). What was finished stays so, however the row changes, and so the stale read is harmless to the order.
`AutomationInv` does the same for the session's later steps (`Earned`): it has gone past a completion, or
holds an unlocked task, only with the dependencies finished. `SettleInv` says that a completed task's unit is completed or a session between
commit and hook is going to complete it (`Settling`), save where a process died, an order completed the task or another hook came between.

*FlowInv.* Two completions each look before the other commits, and neither unblocks the dependent. The invariant says that a
task that is stuck (blocked, with its dependencies completed) is in some session's hands: one that completed a dependency and has yet to
look again, or has the new status ready for a commit that will come (`Unblocks`). For that to be inductive nothing may write "blocked" from a
stale query: a dependency is completed for good, and a task that is not blocked has completed dependencies (`RowsFlow`,
`Reads`, `Puts`). This fails where an unlock or a start may reach a dependency, which is why the theorem is about
dependencies that wait for nothing and are not automated; section 4 has TLC's counterexamples beyond.

**Strategy layer.** *SerialInv.* A request's load and its commit are apart, and its commits are several. Served one at a time, the invariant
says that the rows a request loaded are still the stored ones (`seen = Stored`), and that the rows it will
write form a chain and a judged table already. Every commit, and every crash between two of them, then
leaves the one or the other. `FrontierInChain` is the lemma that in a chain the frontier has only complete
phases before it and only pending ones behind it; `AdvancedChain` and `ReopenedChain` follow.

*AgreeInv.* In the middle of a request the tasks and the layer disagree. The invariant says by how much: every task is where its
strategy will be, or one of the calls that are left moves it there; every call that is left writes what the strategies will say (`Fits`); a verb that
touches the phases ends with its own commit, which derives the legacy integer, and no other verb touches them (`PlanMoves`); a call that gives a task a strategy is alone
(`Alone`); the open work of a phase that is being confirmed stays behind by right or is about to move (`Closes`). That tasks refer to
strategies that exist (`TasksRefer`) survives lost calls; the rest is claimed while none was lost.

**Payments.** *IInv.* A request writes columns from an order it loaded long before. `RowTrue` is therefore a statement about each column by
itself, about what Stripe did *now or earlier*, so that it holds of every mixture of a stale row with a fresh one; it holds of the rows
(`OrdersTrue`) and of what the requests loaded (`RequestsTrue`), and stays true because payments, refunds and lives of subscriptions
only grow (`Grows`). `PaidOnce` says that the request that reserved an intent's record is the only one that confirms
and announces it, and that until then no row and no request has heard of the intent; `AskedOnce` the same of a refund's key; `LinksFresh` that a delivery calls Stripe
with a link nobody has had before.

**Infinity loop.** *RowHeld* rests on the database alone and on no lease: one run holds the user's row, a run that has written counts
from the row's version, and one that has decided holds the row too and has seen the latest adjustment, unless it gave
the row up midway. *LeaseHeld* says that before a lease was exposed (the history variable's word for Redis going or coming during a run, a late
heartbeat and the like) each run at work is `OnGuard`: it owns the lease of whichever store answers, and that lease was
renewed at most one interval ago. With a lease of one interval it would have expired by then, hence the hypothesis.

**Masterplan.** *IInv.* `RequestsFit` says what a request that asks a model, or waits for a row, may still rely on when it commits: the rows it points at
exist, a session it found ready is ready, the parent it took is there, and it holds rows only while it activates. `OneActivating` is
what makes the bulk UPDATE safe: two activations exclude each other, and one that holds rows holds every active row, its own among them.

Each inductive invariant was checked by TLC before it was proved, on the runs' instances and, where a run's instance does
not reach the hypothesis of the theorem, on another of its size (`FlowInv` with a deeper graph).
One such instance was not exhausted: `InsertsFresh` with two overlapping sessions, 11 million states.

## 10. What is only model-checked

Liveness: `Settles`, `ReadyAutomationRuns`, `PaymentsArrive`, `RefundsRecorded`, `LoopSettles`. Temporal proofs under
fairness and `ENABLED` are out of the prover's reach. `AlreadyProcessed` is a property that TLC refutes. And where a
theorem has a hypothesis, nothing is claimed beyond it: what happens there is among the known weaknesses of its section.

## 11. What is not modelled

The components of section 1 without a module, for the reasons in `PROJECT.json`: language-model and
text-scoring code has no control to check; floating-point scoring is beyond TLC; the runtime's own queues and
retries are not in this repository. Inside the modelled components: phase and effort weights of the task
graph, recurrence and reminders; listing and serialising; dismissals, objectives and their roll-ups;
`set_phase_status`, which nothing calls; `retire_phase_as_task_rows` and the seeding, run by hand; the queued generation,
intake and prices of freelance work.

Two parts with control of their own are left out, and reading them shows what a model would find. The background-runner lease is taken at
start-up only, its heartbeat's result is logged and nothing else, and `is_background_leader` stays true after the lease is lost:
two leaders after an expiry, and after a crash none until a restart. `sync_masterplan_tasks` inserts a plan's tasks one commit at
a time, guarded by a count it read before: two at once double the tasks, and a crash midway leaves a part that later calls skip.

## 12. Conventions

Definitions keep the source's names where they have one. A definition named `X_Something`, introduced by
"Mutant:", is `X` with a bug someone could write; for each checked property `PROJECT.json` names one that breaks
it, so that no property holds by the shape of the model. Bounds are the constants commented "bound". Model
configurations are named after their run: `MC<module>_<run>.cfg`, a common prefix left out.
