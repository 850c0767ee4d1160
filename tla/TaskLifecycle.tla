--------------------------- MODULE TaskLifecycle ---------------------------
(***************************************************************************)
(* The tasks of one user (apps/tasks/services/task_service.py): the row of *)
(* each task, its execution unit, and the requests that create, start,     *)
(* pause, complete, delete and grade tasks.                                *)
(*                                                                         *)
(* A request runs on a database session of its own: it loads the task,     *)
(* queries its dependencies, prepares its column writes, and commits.      *)
(* Each of these is a step, so the requests of two tabs, of an agent and   *)
(* of the cascade interleave as their queries do in a READ COMMITTED       *)
(* database.  A completion then goes on outside that transaction: the      *)
(* TASK_COMPLETED handler starts the plan's ready automated tasks, the     *)
(* execution unit is settled, and the flow's next node, the orchestration, *)
(* unlocks dependents again and queues automation.                         *)
(***************************************************************************)
EXTENDS Integers, FiniteSets

CONSTANTS
    Tasks,          \* the task ids this instance speaks of
    DependsOn,      \* [Tasks -> SUBSET Tasks]: depends_on and parent_task_id
    Existing,       \* tasks created before the first step, none started
    Planned,        \* tasks with a masterplan_id, all of one plan
    Automated,      \* tasks with an automation_type and automation_config
    Requests,       \* the sessions that serve requests
    Workload,       \* the operations the clients ask for
    AutoFlush,      \* does a session write its pending changes before a query?
    PlanActive,     \* does the user have an active masterplan?
    MaxServed,      \* bound: requests taken up altogether
    MaxTime,        \* bound: the clock
    MaxCrashes      \* bound: requests that die part way

Operations ==
    {"create", "start", "pause", "complete", "delete", "deliver", "reject"}

Statuses ==
    {"absent", "pending", "blocked", "in_progress", "paused", "completed",
     "deleted"}

None == -1          \* a null start_time, and a column a request leaves alone
Same == "same"      \* the status of a row a request leaves alone

ASSUME ConstantsAssumption ==
    /\ DependsOn \in [Tasks -> SUBSET Tasks]
    /\ Existing \subseteq Tasks
    /\ \A t \in Existing : DependsOn[t] \subseteq Existing \ {t}
    /\ Tasks # {}
    /\ Planned \subseteq Tasks /\ Automated \subseteq Tasks
    /\ Workload \subseteq Operations
    /\ AutoFlush \in BOOLEAN /\ PlanActive \in BOOLEAN
    /\ MaxServed \in Nat /\ MaxTime \in Nat /\ MaxCrashes \in Nat

VARIABLES
    task,       \* committed rows: [Tasks -> Rows]
    unit,       \* status of the task's execution unit
    request,    \* what each session is doing
    clock,      \* datetime.now()
    served,     \* requests taken up so far
    crashes,    \* requests that died so far
    queued,     \* tasks an automation job has been dispatched for
    fired,      \* history: TASK_COMPLETED events of each task
    begun,      \* history: tasks that have been in progress
    finished,   \* history: tasks that have been completed
    delivered,  \* history: tasks an order of the freelance domain completed
    crossed     \* history: tasks whose unit changed under a hook that had read it

vars == <<task, unit, request, clock, served, crashes, queued, fired, begun,
          finished, delivered, crossed>>

Rows == [status : Statuses, start : Int, spent : Int]

Units == {"none", "pending", "executing", "waiting", "completed"}

Steps == {"idle", "check", "commit", "event", "cascade", "activate", "queue",
          "hook", "settle", "orchestrate", "plan", "lease", "score", "dispatch"}

(***************************************************************************)
(* A session: the operation and its task, the row as it was loaded, the    *)
(* column writes it holds, the step that follows its commit, the tasks its *)
(* cascade has still to start and the one it is starting, the status its   *)
(* hook read of the execution unit, and the tasks its orchestration        *)
(* unlocked.                                                               *)
(***************************************************************************)
Sessions ==
    [op : Operations, task : Tasks, step : Steps, seen : Rows,
     put : [Tasks -> Statuses \cup {Same}], start : Int, spent : Int,
     then : Steps, todo : SUBSET Tasks, pick : SUBSET Tasks, eu : Units,
     unlocked : SUBSET Tasks]

NoRow == [status |-> "absent", start |-> None, spent |-> 0]

Nothing == [t \in Tasks |-> Same]

IdleSession ==
    [op |-> "create", task |-> CHOOSE t \in Tasks : TRUE, step |-> "idle",
     seen |-> NoRow, put |-> Nothing, start |-> None, spent |-> None,
     then |-> "idle", todo |-> {}, pick |-> {}, eu |-> "none", unlocked |-> {}]

Exists(t) == task[t].status \notin {"absent", "deleted"}

-----------------------------------------------------------------------------
(* Dependencies.                                                           *)

\* _dependencies_complete: as many completed rows as dependency ids.
DependenciesComplete(rows, t) ==
    \A d \in DependsOn[t] : rows[d].status = "completed"

\* Mutant: the graph's word for a startable task is written into the row.
Recompute_Ready(status, complete) ==
    CASE complete /\ status = "blocked" -> "ready"
      [] ~complete /\ status \in {"pending", "paused"} -> "blocked"
      [] OTHER -> status

\* _recompute_task_status.
Recompute(status, complete) ==
    CASE complete /\ status = "blocked" -> "pending"
      [] ~complete /\ status \in {"pending", "paused"} -> "blocked"
      [] OTHER -> status

\* A changed status is a pending write, an unchanged one is none.
Change(old, new) == IF old = new THEN Same ELSE new

PutOne(t, status) == [Nothing EXCEPT ![t] = status]

\* The candidates of _unlock_downstream_tasks: open rows that name the task.
Candidates(rows, t) ==
    {c \in Tasks : /\ rows[c].status \in {"blocked", "pending", "paused"}
                   /\ t \in DependsOn[c]}

\* What _unlock_downstream_tasks leaves pending in the session.
UnlockPut(rows, t) ==
    [c \in Tasks |->
        IF c \in Candidates(rows, t)
          THEN Change(rows[c].status,
                      Recompute(rows[c].status, DependenciesComplete(rows, c)))
          ELSE Same]

\* Mutant: every blocked candidate is reported, whatever it was recomputed to.
Unlocked_All(rows, t) ==
    {c \in Candidates(rows, t) : rows[c].status = "blocked"}

\* ... and what it returns.
Unlocked(rows, t) ==
    {c \in Candidates(rows, t) :
        rows[c].status = "blocked" /\ DependenciesComplete(rows, c)}

\* The rows after the session's writes.
Written(r) ==
    [t \in Tasks |->
        [status |-> IF request[r].put[t] = Same THEN task[t].status
                                                ELSE request[r].put[t],
         start  |-> IF t = request[r].task /\ request[r].start # None
                      THEN request[r].start ELSE task[t].start,
         spent  |-> IF t = request[r].task /\ request[r].spent # None
                      THEN request[r].spent ELSE task[t].spent]]

\* History of the committed rows: what has ever been started and completed.
Remember ==
    /\ begun' = begun \cup {t \in Tasks : task'[t].status = "in_progress"}
    /\ finished' = finished \cup {t \in Tasks : task'[t].status = "completed"}

(***************************************************************************)
(* With AutoFlush a completing session has updated its own row when it     *)
(* queries the candidates, and so holds that row until it commits.         *)
(***************************************************************************)
Holds(q, t) ==
    /\ AutoFlush
    /\ request[q].step = "commit" /\ request[q].op = "complete"
    /\ request[q].task = t /\ request[q].put[t] = "completed"

Free(r, ts) == \A q \in Requests \ {r}, t \in ts : ~Holds(q, t)

Writes(r) == {t \in Tasks : request[r].put[t] # Same}

\* The sessions when session r becomes q.
Becomes(r, q) == [request EXCEPT ![r] = q]

To(r, s) == Becomes(r, [request[r] EXCEPT !.step = s])

\* A session that ends is closed, and what it had not committed is lost.
Ended(r) == Becomes(r, IdleSession)

-----------------------------------------------------------------------------
(* Taking a request up: the session loads the task.                        *)

Creating(t) ==
    \E q \in Requests : request[q].op = "create" /\ request[q].task = t
                        /\ request[q].step \in {"check", "commit"}

\* A request for a task that is not there is answered and changes nothing.
Accepts(op, t) ==
    IF op = "create"
      THEN /\ task[t].status = "absent" /\ ~Creating(t)
           /\ \A d \in DependsOn[t] : Exists(d)       \* _validate_dependencies
      ELSE Exists(t) /\ (op = "delete" => t \in Planned)  \* a plan deletes its rows

Load(r, op, t) ==
    /\ request[r].step = "idle" /\ served < MaxServed
    /\ Accepts(op, t)
    /\ served' = served + 1
    /\ request' = Becomes(r, [request[r] EXCEPT
         !.op = op, !.task = t, !.seen = task[t], !.step = "check"])
    /\ UNCHANGED <<task, unit, clock, crashes, queued, fired, begun, finished, delivered, crossed>>

-----------------------------------------------------------------------------
(* Deciding: the session queries the dependencies and prepares its writes. *)

Prepare(r, put, start, spent, then) ==
    request' = Becomes(r, [request[r] EXCEPT !.put = put, !.start = start,
                             !.spent = spent, !.then = then, !.step = "commit"])

Checking(r, op) == request[r].step = "check" /\ request[r].op = op

AfterCheck == UNCHANGED <<task, unit, clock, served, crashes, queued, fired,
                          begun, finished, delivered, crossed>>

\* create_task: pending, then recomputed against the dependencies.
CheckCreate(r) ==
    LET t == request[r].task IN
    /\ Checking(r, "create")
    /\ Prepare(r, PutOne(t, Recompute("pending", DependenciesComplete(task, t))),
               None, 0, "hook")
    /\ AfterCheck

\* start_task and complete_task on a task whose dependencies are incomplete.
CheckBlocked(r) ==
    LET t == request[r].task
        seen == request[r].seen IN
    /\ Checking(r, "start") \/ (Checking(r, "complete") /\ seen.status # "completed")
    /\ ~DependenciesComplete(task, t)
    /\ Prepare(r, PutOne(t, Change(seen.status, Recompute(seen.status, FALSE))),
               None, None, "idle")
    /\ AfterCheck

\* Mutant: the start is prepared without the dependency query.
CheckStart_Unchecked(r) ==
    LET t == request[r].task IN
    /\ Checking(r, "start")
    /\ IF request[r].seen.start = None
         THEN Prepare(r, PutOne(t, "in_progress"), clock, None, "hook")
         ELSE request' = Ended(r)
    /\ AfterCheck

\* start_task: the first start sets the time and the status.
CheckStart(r) ==
    LET t == request[r].task IN
    /\ Checking(r, "start")
    /\ DependenciesComplete(task, t)
    /\ IF request[r].seen.start = None
         THEN Prepare(r, PutOne(t, "in_progress"), clock, None, "hook")
         ELSE request' = Ended(r)                      \* "already started"
    /\ AfterCheck

\* pause_task: only from in_progress; the time since the start is added.
CheckPause(r) ==
    LET seen == request[r].seen IN
    /\ Checking(r, "pause")
    /\ IF seen.status = "in_progress"
         THEN Prepare(r, PutOne(request[r].task, "paused"), None,
                      seen.spent + (clock - seen.start), "hook")
         ELSE request' = Ended(r)
    /\ AfterCheck

\* What the queries of complete_task see after task.status = "completed".
Flushed(t) ==
    IF AutoFlush THEN [task EXCEPT ![t].status = "completed"] ELSE task

\* complete_task: the task is completed and its dependents unlocked.
CheckComplete(r) ==
    LET t == request[r].task
        seen == request[r].seen IN
    /\ Checking(r, "complete")
    /\ seen.status # "completed" => DependenciesComplete(task, t)
    /\ AutoFlush => Free(r, {t})
    /\ IF seen.status = "completed"
         THEN request' = Ended(r)                      \* the idempotent return
         ELSE Prepare(r, [UnlockPut(Flushed(t), t) EXCEPT ![t] = "completed"],
                      None,
                      IF seen.start = None THEN None
                        ELSE seen.spent + (clock - seen.start),
                      "event")
    /\ AfterCheck

\* sys.v1.task.delete_many: completed rows are filtered out.
CheckDelete(r) ==
    /\ Checking(r, "delete")
    /\ IF request[r].seen.status # "completed"
         THEN Prepare(r, PutOne(request[r].task, "deleted"), None, None, "idle")
         ELSE request' = Ended(r)
    /\ AfterCheck

\* _update_linked_task_feedback: a delivered order, or bad feedback on it.
CheckFeedback(r) ==
    LET t == request[r].task
        seen == request[r].seen IN
    /\ \/ /\ Checking(r, "deliver")
          /\ IF seen.status # "completed"
               THEN Prepare(r, PutOne(t, "completed"), None, None, "idle")
               ELSE request' = Ended(r)
       \/ /\ Checking(r, "reject")
          /\ IF seen.status = "completed"
               THEN Prepare(r, PutOne(t, "paused"), None, None, "idle")
               ELSE request' = Ended(r)
    /\ AfterCheck

-----------------------------------------------------------------------------
(* Committing.  An UPDATE of a row that is gone fails the transaction.     *)

Missing(r) ==
    {t \in Writes(r) : ~Exists(t) /\ ~(request[r].op = "create")}

Committed(r) ==
    IF request[r].then = "idle" THEN Ended(r)
    ELSE Becomes(r, [request[r] EXCEPT !.step = request[r].then, !.put = Nothing,
                                       !.start = None, !.spent = None])

\* An order that commits completes its task without looking at dependencies.
Delivers(r) ==
    {t \in Tasks : request[r].op = "deliver" /\ t = request[r].task /\ Missing(r) = {}}

Commit(r) ==
    /\ request[r].step = "commit"
    /\ Free(r, Writes(r))
    /\ IF Missing(r) = {}
         THEN task' = Written(r) /\ request' = Committed(r)
         ELSE task' = task /\ request' = Ended(r)
    /\ Remember
    /\ delivered' = delivered \cup Delivers(r)
    /\ UNCHANGED <<unit, clock, served, crashes, queued, fired, crossed>>

-----------------------------------------------------------------------------
(* After the commit: the event, the cascade, the execution unit.           *)

\* evaluate_task_readiness and the automation filter of activate_ready_tasks.
ReadyInPlan ==
    {t \in Planned \cap Automated :
        /\ Exists(t) /\ task[t].status \notin {"completed", "in_progress"}
        /\ \A d \in DependsOn[t] : d \in Planned /\ task[d].status = "completed"}

\* TASK_COMPLETED is emitted; its handler cascades over the task's plan.
Event(r) ==
    LET t == request[r].task
        inPlan == t \in Planned /\ Exists(t) IN
    /\ request[r].step = "event"
    /\ fired' = [fired EXCEPT ![t] = @ + 1]
    /\ request' = IF inPlan
         THEN Becomes(r, [request[r] EXCEPT !.step = "cascade", !.todo = ReadyInPlan])
         ELSE To(r, "hook")
    /\ UNCHANGED <<task, unit, clock, served, crashes, queued, begun, finished, delivered, crossed>>

\* start_task as the cascade calls it, in a transaction of its own.
Started(t) ==
    CASE ~DependenciesComplete(task, t) ->
           [task EXCEPT ![t].status = Recompute(@, FALSE)]
      [] DependenciesComplete(task, t) /\ task[t].start = None ->
           [task EXCEPT ![t].status = "in_progress", ![t].start = clock]
      [] OTHER -> task

\* The cascade reads a ready task again and skips it if it moved on.
CascadeNext(r, t) ==
    /\ request[r].step = "cascade" /\ t \in request[r].todo
    /\ request' = IF Exists(t) /\ task[t].status \notin {"completed", "in_progress"}
         THEN Becomes(r, [request[r] EXCEPT !.step = "activate", !.pick = {t}])
         ELSE Becomes(r, [request[r] EXCEPT !.todo = @ \ {t}])
    /\ UNCHANGED <<task, unit, clock, served, crashes, queued, fired, begun, finished, delivered, crossed>>

\* The cascade goes on with the next ready task.
NextReady(r) ==
    Becomes(r, [request[r] EXCEPT !.step = "cascade", !.todo = @ \ request[r].pick,
                                  !.pick = {}])

\* ... else it starts it: a first start has its own hook, a refused one ends.
Activate(r) ==
    \E t \in request[r].pick :
    /\ request[r].step = "activate"
    /\ Free(r, {t})
    /\ task' = IF Exists(t) THEN Started(t) ELSE task
    /\ request' = CASE ~Exists(t) \/ ~DependenciesComplete(task, t) -> NextReady(r)
                    [] Exists(t) /\ DependenciesComplete(task, t)
                         /\ task[t].start = None -> To(r, "hook")
                    [] OTHER -> To(r, "queue")
    /\ Remember
    /\ UNCHANGED <<unit, clock, served, crashes, queued, fired, delivered, crossed>>

\* Its automation is queued, whether it was started now or before.
Queue(r) ==
    /\ request[r].step = "queue"
    /\ queued' = queued \cup {t \in request[r].pick : Exists(t)}
    /\ request' = NextReady(r)
    /\ UNCHANGED <<task, unit, clock, served, crashes, fired, begun, finished, delivered, crossed>>

CascadeDone(r) ==
    /\ request[r].step = "cascade" /\ request[r].todo = {}
    /\ request' = To(r, "hook")
    /\ UNCHANGED <<task, unit, clock, served, crashes, queued, fired, begun, finished, delivered, crossed>>

\* ExecutionUnitService.update_status: a missing edge leaves the unit alone.
UpdateStatus(old, new) ==
    CASE old = "none" \/ old = "completed" -> old
      [] old = "waiting" /\ new = "completed" -> old
      [] OTHER -> new

\* Mutant: the waiting unit is not resumed before it is completed.
Resume_Skipped(old) == old

\* resume_execution_unit: waiting -> resumed -> executing.
Resume(old) == IF old = "waiting" THEN "executing" ELSE old

\* What a hook that read `seen` makes of the unit it now finds.
HookUnit(op, seen, old) ==
    CASE op = "create" -> "pending"
      [] op = "start" -> UpdateStatus(old, "executing")
      [] op = "pause" -> UpdateStatus(old, "waiting")
      [] op = "complete" ->
           UpdateStatus(IF seen = "waiting" THEN Resume(old) ELSE old, "completed")
      [] OTHER -> old

\* A hook is about the request's task, or about the one its cascade started.
Subject(r) == IF request[r].pick = {} THEN {request[r].task} ELSE request[r].pick

HookOp(r) == IF request[r].pick = {} THEN request[r].op ELSE "start"

AfterHook(r) ==
    IF request[r].pick = {} /\ request[r].op # "complete" THEN Ended(r)
    ELSE Becomes(r, [request[r] EXCEPT
           !.step = IF request[r].pick = {} THEN "orchestrate" ELSE "queue",
           !.eu = "none"])

\* The hook that ends each of the four operations looks for the unit ...
FindUnit(r) ==
    \E t \in Subject(r) :
    /\ request[r].step = "hook"
    /\ request' = IF unit[t] = "none" /\ HookOp(r) # "create" THEN AfterHook(r)
         ELSE Becomes(r, [request[r] EXCEPT !.step = "settle", !.eu = unit[t]])
    /\ UNCHANGED <<task, unit, clock, served, crashes, queued, fired, begun, finished, delivered, crossed>>

\* ... and moves it.  The runtime goes by the status this session has loaded
\* or by the one it finds now; an unchanged status is not written.
SettleUnit(r) ==
    \E t \in Subject(r) : \E old \in {request[r].eu, unit[t]} :
    LET new == HookUnit(HookOp(r), request[r].eu, old) IN
    /\ request[r].step = "settle"
    /\ unit' = IF new = old THEN unit ELSE [unit EXCEPT ![t] = new]
    /\ crossed' = IF unit[t] = request[r].eu THEN crossed ELSE crossed \cup {t}
    /\ request' = AfterHook(r)
    /\ UNCHANGED <<task, clock, served, crashes, queued, fired, begun, finished, delivered>>

-----------------------------------------------------------------------------
(* The flow's last node, orchestrate_task_completion, on a new session.    *)

\* Mutant: the orchestration leaves unlocking to complete_task.
Orchestrate_NoUnlock(r) ==
    /\ request[r].step = "orchestrate"
    /\ request' = IF Exists(request[r].task)
         THEN To(r, IF PlanActive THEN "plan" ELSE "lease") ELSE Ended(r)
    /\ UNCHANGED <<task, unit, clock, served, crashes, queued, fired, begun, finished, delivered, crossed>>

\* The dependents are unlocked once more, in the session only.
Orchestrate(r) ==
    LET t == request[r].task IN
    /\ request[r].step = "orchestrate"
    /\ request' = IF Exists(t)
         THEN Becomes(r, [request[r] EXCEPT
                 !.step = IF PlanActive THEN "plan" ELSE "lease",
                 !.put = UnlockPut(task, t), !.unlocked = Unlocked(task, t)])
         ELSE Ended(r)
    /\ UNCHANGED <<task, unit, clock, served, crashes, queued, fired, begun, finished, delivered, crossed>>

\* Whoever shares the session and commits it saves the unlocked statuses.
Save(r, next) ==
    /\ Free(r, Writes(r))
    /\ task' = IF Missing(r) = {} THEN Written(r) ELSE task
    /\ request' = Becomes(r, [request[r] EXCEPT !.step = next, !.put = Nothing])
    /\ Remember
    /\ UNCHANGED <<unit, clock, served, crashes, queued, fired, delivered, crossed>>

\* The WCU recalculation of the active plan commits the session ...
PlanCommits(r) == request[r].step = "plan" /\ Save(r, "lease")

\* ... and so does the Infinity orchestrator, if it gets the user's lease.
TakeLease(r) ==
    /\ request[r].step = "lease"
    /\ request' = To(r, IF \E q \in Requests : request[q].step = "score"
                          THEN "dispatch" ELSE "score")
    /\ UNCHANGED <<task, unit, clock, served, crashes, queued, fired, begun, finished, delivered, crossed>>

Score(r) == request[r].step = "score" /\ Save(r, "dispatch")

\* Mutant: the completed task itself is forgotten.
Dispatch_UnlockedOnly(r) ==
    /\ request[r].step = "dispatch"
    /\ queued' = queued \cup (Automated \cap {t \in request[r].unlocked : Exists(t)})
    /\ request' = Ended(r)
    /\ UNCHANGED <<task, unit, clock, served, crashes, fired, begun, finished, delivered, crossed>>

\* Automation of the completed task and of those this session unlocked.
Dispatch(r) ==
    /\ request[r].step = "dispatch"
    /\ queued' = queued \cup
         (Automated \cap ({request[r].task} \cup {t \in request[r].unlocked : Exists(t)}))
    /\ request' = Ended(r)
    /\ UNCHANGED <<task, unit, clock, served, crashes, fired, begun, finished, delivered, crossed>>

-----------------------------------------------------------------------------
(* The world: time passes, and a request may die between two steps.        *)

Tick ==
    /\ clock < MaxTime
    /\ clock' = clock + 1
    /\ UNCHANGED <<task, unit, request, served, crashes, queued, fired, begun, finished, delivered, crossed>>

Crash(r) ==
    /\ crashes < MaxCrashes /\ request[r].step # "idle"
    /\ crashes' = crashes + 1
    /\ request' = Ended(r)
    /\ UNCHANGED <<task, unit, clock, served, queued, fired, begun, finished, delivered, crossed>>

-----------------------------------------------------------------------------
(* Existing tasks were created one after another and nothing else was done. *)

Init ==
    /\ task = [t \in Tasks |->
          IF t \in Existing
            THEN [NoRow EXCEPT !.status =
                    IF DependsOn[t] = {} THEN "pending" ELSE "blocked"]
            ELSE NoRow]
    /\ unit = [t \in Tasks |-> IF t \in Existing THEN "pending" ELSE "none"]
    /\ request = [r \in Requests |-> IdleSession]
    /\ clock = 0 /\ served = 0 /\ crashes = 0
    /\ queued = {} /\ begun = {} /\ finished = {} /\ delivered = {}
    /\ crossed = {}
    /\ fired = [t \in Tasks |-> 0]

\* The steps of a request once it was taken up.
Step(r) ==
    \/ CheckCreate(r) \/ CheckBlocked(r) \/ CheckStart(r) \/ CheckPause(r)
    \/ CheckComplete(r) \/ CheckDelete(r) \/ CheckFeedback(r)
    \/ Commit(r) \/ Event(r) \/ Activate(r) \/ Queue(r) \/ CascadeDone(r)
    \/ FindUnit(r) \/ SettleUnit(r) \/ \E t \in Tasks : CascadeNext(r, t)
    \/ Orchestrate(r) \/ PlanCommits(r) \/ TakeLease(r) \/ Score(r) \/ Dispatch(r)

Next ==
    \/ \E r \in Requests, op \in Workload, t \in Tasks : Load(r, op, t)
    \/ \E r \in Requests : Step(r)
    \/ \E r \in Requests : Crash(r)
    \/ Tick

Spec == Init /\ [][Next]_vars

\* A handler that was called runs to its end: plain sequential code.
FairSpec == Spec /\ \A r \in Requests : WF_vars(Step(r))

-----------------------------------------------------------------------------
(* Properties.                                                             *)

\* Every variable stays within its domain.
TypeOK ==
    /\ task \in [Tasks -> Rows]
    /\ unit \in [Tasks -> Units]
    /\ request \in [Requests -> Sessions]
    /\ clock \in Nat /\ served \in Nat /\ crashes \in Nat
    /\ queued \in SUBSET Tasks
    /\ begun \in SUBSET Tasks /\ finished \in SUBSET Tasks
    /\ delivered \in SUBSET Tasks /\ crossed \in SUBSET Tasks
    /\ fired \in [Tasks -> Nat]

Quiet == \A r \in Requests : request[r].step = "idle"

(***************************************************************************)
(* No task is started or completed before every task it depends on has     *)
(* been completed, however the requests interleave (_dependencies_complete *)
(* is read long before the status it justifies is committed).  An order of *)
(* the freelance domain completes a task without that check, and no more   *)
(* than that: what is begun or completed after it is in order again.       *)
(***************************************************************************)
DependenciesFirst ==
    \A t \in begun \cup (finished \ delivered) : DependsOn[t] \subseteq finished

(***************************************************************************)
(* Two completions that each miss the other leave no dependent blocked for *)
(* ever: once all requests have ended, a task still blocked waits for a    *)
(* dependency that is not completed (_unlock_downstream_tasks in both      *)
(* complete_task and orchestrate_task_completion).                         *)
(***************************************************************************)
NoStaleBlock ==
    Quiet => \A t \in Tasks :
        task[t].status = "blocked" => ~DependenciesComplete(task, t)

(***************************************************************************)
(* The execution unit of a completed task does not stay behind: when all   *)
(* requests have ended it is completed too, also if the task was paused,   *)
(* whose unit `waiting` has no edge to `completed`, and in whatever order  *)
(* the hooks of its requests come (start_task, pause_task, complete_task). *)
(* Not so where the unit changed between a hook's read and its write (the  *)
(* hooks take no lock, and the later write wins), nor where a process died *)
(* or an order completed the task, which has no hook.  A task created      *)
(* meanwhile may be completed before its unit is there.                    *)
(***************************************************************************)
UnitSettles ==
    Quiet /\ crashes = 0 =>
        \A t \in Existing \ (crossed \cup delivered) :
            task[t].status = "completed" => unit[t] = "completed"

\* Nobody starts t by hand, and no order of the freelance domain completes
\* it or what it depends on.
LeftToCascade(t) ==
    /\ Exists(t) /\ crashes = 0
    /\ \A r \in Requests : ~(request[r].op = "start" /\ request[r].task = t)
    /\ delivered \cap (DependsOn[t] \cup {t}) = {}

(***************************************************************************)
(* When the dependencies of an automated task of the plan are completed    *)
(* and stay so, its automation is dispatched: by the cascade of whichever  *)
(* completion came last, or by the task's own orchestration if somebody    *)
(* completed it first (_handle_task_completed, activate_ready_tasks).      *)
(* Only the cascade of a completion looks for ready tasks, so a task that  *)
(* was created too late, started by hand before the cascade reaches it, or *)
(* made ready by a delivered order is not promised its automation; nor is  *)
(* any where the process died, or whose dependencies are in other plans.   *)
(***************************************************************************)
ReadyAutomationRuns ==
    \A t \in Automated \cap Planned \cap Existing :
        DependsOn[t] # {} /\ DependsOn[t] \subseteq Planned =>
            ([]LeftToCascade(t) /\ <>[]DependenciesComplete(task, t)
                => <>(t \in queued))

(***************************************************************************)
(* No automation job (a mail, a webhook, a payment) is dispatched for a    *)
(* task before all its dependencies have been completed, whoever completes *)
(* them (queue_task_automation and its three callers).                     *)
(***************************************************************************)
AutomationAfterDependencies ==
    \A t \in queued : DependsOn[t] \subseteq finished

(***************************************************************************)
(* What a test and a column's name promise and the code does not do; the   *)
(* README names the constants under which TLC breaks each of them.         *)
(***************************************************************************)

\* The side effects of a completion fire once for each task (complete_task).
CompletionFiresOnce == \A t \in Tasks : fired[t] <= 1

\* time_spent is elapsed time: never more than the time since the start.
TimeSpentIsElapsed ==
    \A t \in Tasks :
        task[t].start # None => task[t].spent <= clock - task[t].start
=============================================================================
