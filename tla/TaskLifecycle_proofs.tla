----------------------- MODULE TaskLifecycle_proofs ------------------------
(***************************************************************************)
(* Proofs about TaskLifecycle: for every set of tasks, dependency graph,   *)
(* number of sessions and bound, with and without autoflush.  Types; that  *)
(* dependencies come first, and automation after them; that units settle;  *)
(* that nothing stays blocked, under the conditions its theorems name.     *)
(***************************************************************************)
EXTENDS TaskLifecycle, TLAPS

LEMMA ConstantsType ==
    /\ DependsOn \in [Tasks -> SUBSET Tasks]
    /\ Planned \subseteq Tasks /\ Automated \subseteq Tasks
    /\ Workload \subseteq Operations
    /\ Tasks # {}
BY ConstantsAssumption

\* A recomputed status is a status, and never one of work begun.
LEMMA RecomputeType ==
    ASSUME NEW status \in Statuses, NEW complete \in BOOLEAN
    PROVE  Recompute(status, complete) \in Statuses
BY DEF Recompute, Statuses

LEMMA NothingType == Nothing \in [Tasks -> Statuses \cup {Same}]
BY DEF Nothing

LEMMA IdleType == IdleSession \in Sessions
BY ConstantsType, NothingType
   DEF IdleSession, Sessions, Operations, Steps, Rows, NoRow, Statuses, None, Units

LEMMA BecomesType ==
    ASSUME request \in [Requests -> Sessions], NEW r \in Requests,
           NEW q \in Sessions
    PROVE  Becomes(r, q) \in [Requests -> Sessions]
BY DEF Becomes

LEMMA EndedType ==
    ASSUME request \in [Requests -> Sessions], NEW r \in Requests
    PROVE  Ended(r) \in [Requests -> Sessions]
BY IdleType, BecomesType DEF Ended

LEMMA ToType ==
    ASSUME request \in [Requests -> Sessions], NEW r \in Requests,
           NEW s \in Steps
    PROVE  To(r, s) \in [Requests -> Sessions]
<1>1. request[r] \in Sessions
  OBVIOUS
<1>2. [request[r] EXCEPT !.step = s] \in Sessions
  BY <1>1 DEF Sessions
<1>3. QED
  BY <1>2, BecomesType DEF To

LEMMA PutOneType ==
    ASSUME NEW t \in Tasks, NEW s \in Statuses \cup {Same}
    PROVE  PutOne(t, s) \in [Tasks -> Statuses \cup {Same}]
BY DEF PutOne, Nothing

LEMMA ChangeType ==
    ASSUME NEW old \in Statuses, NEW new \in Statuses
    PROVE  Change(old, new) \in Statuses \cup {Same}
BY DEF Change

LEMMA CompleteBoolean ==
    ASSUME NEW rows, NEW t
    PROVE  DependenciesComplete(rows, t) \in BOOLEAN
BY DEF DependenciesComplete

LEMMA UnlockPutType ==
    ASSUME NEW rows \in [Tasks -> Rows], NEW t \in Tasks
    PROVE  UnlockPut(rows, t) \in [Tasks -> Statuses \cup {Same}]
<1>1. SUFFICES ASSUME NEW c \in Tasks
               PROVE  Change(rows[c].status,
                        Recompute(rows[c].status, DependenciesComplete(rows, c)))
                        \in Statuses \cup {Same}
  BY DEF UnlockPut
<1>2. rows[c].status \in Statuses
  BY DEF Rows
<1>3. QED
  BY <1>2, RecomputeType, CompleteBoolean, ChangeType

LEMMA WrittenType ==
    ASSUME task \in [Tasks -> Rows], request \in [Requests -> Sessions],
           NEW r \in Requests
    PROVE  Written(r) \in [Tasks -> Rows]
<1>1. request[r] \in Sessions
  OBVIOUS
<1>2. /\ request[r].put \in [Tasks -> Statuses \cup {Same}]
      /\ request[r].start \in Int /\ request[r].spent \in Int
  BY <1>1 DEF Sessions
<1>3. SUFFICES ASSUME NEW t \in Tasks
               PROVE  /\ (IF request[r].put[t] = Same THEN task[t].status
                            ELSE request[r].put[t]) \in Statuses
                      /\ (IF t = request[r].task /\ request[r].start # None
                            THEN request[r].start ELSE task[t].start) \in Int
                      /\ (IF t = request[r].task /\ request[r].spent # None
                            THEN request[r].spent ELSE task[t].spent) \in Int
  BY DEF Written, Rows
<1>4. task[t].status \in Statuses /\ task[t].start \in Int /\ task[t].spent \in Int
  BY DEF Rows
<1>5. QED
  BY <1>2, <1>4

LEMMA PrepareType ==
    ASSUME request \in [Requests -> Sessions], NEW r \in Requests,
           NEW put \in [Tasks -> Statuses \cup {Same}],
           NEW start \in Int, NEW spent \in Int, NEW then \in Steps,
           Prepare(r, put, start, spent, then)
    PROVE  request' \in [Requests -> Sessions]
<1>1. request[r] \in Sessions /\ "commit" \in Steps
  BY DEF Steps
<1>2. [request[r] EXCEPT !.put = put, !.start = start, !.spent = spent,
                         !.then = then, !.step = "commit"] \in Sessions
  BY <1>1 DEF Sessions
<1>3. QED
  BY <1>2, BecomesType DEF Prepare

-----------------------------------------------------------------------------
LEMMA TypeInit == Init => TypeOK
<1>1. ASSUME Init PROVE task \in [Tasks -> Rows]
  <2>1. NoRow \in Rows
    BY DEF NoRow, Rows, Statuses, None
  <2>2. [NoRow EXCEPT !.status = "pending"] \in Rows
    BY <2>1 DEF Rows, Statuses
  <2>3. [NoRow EXCEPT !.status = "blocked"] \in Rows
    BY <2>1 DEF Rows, Statuses
  <2>4. task = [t \in Tasks |->
          IF t \in Existing
            THEN [NoRow EXCEPT !.status =
                    IF DependsOn[t] = {} THEN "pending" ELSE "blocked"]
            ELSE NoRow]
    BY <1>1 DEF Init
  <2>5. \A t \in Tasks : task[t] \in Rows
    <3>1. TAKE t \in Tasks
    <3>2. CASE t \in Existing /\ DependsOn[t] = {}
      BY <3>2, <2>2, <2>4
    <3>3. CASE t \in Existing /\ DependsOn[t] # {}
      BY <3>3, <2>3, <2>4
    <3>4. CASE t \notin Existing
      BY <3>4, <2>1, <2>4
    <3>5. QED
      BY <3>2, <3>3, <3>4
  <2>6. QED
    BY <2>4, <2>5
<1>2. ASSUME Init PROVE request \in [Requests -> Sessions]
  BY <1>2, IdleType DEF Init
<1>3. ASSUME Init PROVE unit \in [Tasks -> Units]
  BY <1>3 DEF Init, Units
<1>4. QED
  BY <1>1, <1>2, <1>3 DEF Init, TypeOK

\* Each kind of step keeps the types; the small ones first.
LEMMA TypeLoad ==
    ASSUME TypeOK, NEW r \in Requests, NEW op \in Workload, NEW t \in Tasks,
           Load(r, op, t)
    PROVE  TypeOK'
<1>1. op \in Operations /\ "check" \in Steps /\ task[t] \in Rows
  BY ConstantsType DEF TypeOK, Steps
<1>2. request[r] \in Sessions
  BY DEF TypeOK
<1>3. [request[r] EXCEPT !.op = op, !.task = t, !.seen = task[t], !.step = "check"]
        \in Sessions
  BY <1>1, <1>2 DEF Sessions
<1>4. request' \in [Requests -> Sessions]
  BY <1>3, BecomesType DEF Load, TypeOK
<1>5. QED
  BY <1>4 DEF Load, TypeOK

LEMMA TypeCheck ==
    ASSUME TypeOK, NEW r \in Requests,
           \/ CheckCreate(r) \/ CheckBlocked(r) \/ CheckStart(r) \/ CheckPause(r)
           \/ CheckComplete(r) \/ CheckDelete(r) \/ CheckFeedback(r)
    PROVE  TypeOK'
<1> DEFINE t == request[r].task
           seen == request[r].seen
<1>a. /\ request[r] \in Sessions /\ t \in Tasks /\ seen \in Rows
      /\ seen.status \in Statuses /\ seen.start \in Int /\ seen.spent \in Int
      /\ clock \in Int /\ None \in Int
      /\ task \in [Tasks -> Rows]
  BY DEF TypeOK, Sessions, Rows, None
<1>b. /\ {"hook", "idle", "event", "commit"} \subseteq Steps
      /\ {"pending", "blocked", "in_progress", "paused", "completed", "deleted"}
           \subseteq Statuses
  BY DEF Steps, Statuses
<1>c. Ended(r) \in [Requests -> Sessions]
  BY EndedType DEF TypeOK
<1>d. request \in [Requests -> Sessions]
  BY DEF TypeOK
<1>e. AfterCheck => (request' \in [Requests -> Sessions] => TypeOK')
  BY DEF AfterCheck, TypeOK
<1> HIDE DEF t, seen
<1>1. CASE CheckCreate(r)
  <2>1. Recompute("pending", DependenciesComplete(task, t)) \in Statuses
    BY <1>b, RecomputeType, CompleteBoolean
  <2>2. PutOne(t, Recompute("pending", DependenciesComplete(task, t)))
          \in [Tasks -> Statuses \cup {Same}]
    BY <2>1, <1>a, PutOneType
  <2>3. Prepare(r, PutOne(t, Recompute("pending", DependenciesComplete(task, t))),
                None, 0, "hook") /\ AfterCheck
    BY <1>1 DEF CheckCreate, t
  <2>4. QED
    BY <2>2, <2>3, <1>a, <1>b, <1>d, <1>e, PrepareType
<1>2. CASE CheckBlocked(r)
  <2>1. Recompute(seen.status, FALSE) \in Statuses
    BY <1>a, RecomputeType
  <2>2. PutOne(t, Change(seen.status, Recompute(seen.status, FALSE)))
          \in [Tasks -> Statuses \cup {Same}]
    BY <2>1, <1>a, PutOneType, ChangeType
  <2>3. Prepare(r, PutOne(t, Change(seen.status, Recompute(seen.status, FALSE))),
                None, None, "idle") /\ AfterCheck
    BY <1>2 DEF CheckBlocked, t, seen
  <2>4. QED
    BY <2>2, <2>3, <1>a, <1>b, <1>d, <1>e, PrepareType
<1>3. CASE CheckStart(r)
  <2>1. PutOne(t, "in_progress") \in [Tasks -> Statuses \cup {Same}]
    BY <1>a, <1>b, PutOneType
  <2>2. /\ AfterCheck
        /\ \/ Prepare(r, PutOne(t, "in_progress"), clock, None, "hook")
           \/ request' = Ended(r)
    BY <1>3 DEF CheckStart, t
  <2>3. QED
    BY <2>1, <2>2, <1>a, <1>b, <1>c, <1>d, <1>e, PrepareType
<1>4. CASE CheckPause(r)
  <2>1. PutOne(t, "paused") \in [Tasks -> Statuses \cup {Same}]
    BY <1>a, <1>b, PutOneType
  <2>2. seen.spent + (clock - seen.start) \in Int
    BY <1>a
  <2>3. /\ AfterCheck
        /\ \/ Prepare(r, PutOne(t, "paused"), None,
                      seen.spent + (clock - seen.start), "hook")
           \/ request' = Ended(r)
    BY <1>4 DEF CheckPause, t, seen
  <2>4. QED
    BY <2>1, <2>2, <2>3, <1>a, <1>b, <1>c, <1>d, <1>e, PrepareType
<1>5. CASE CheckComplete(r)
  <2>1. Flushed(t) \in [Tasks -> Rows]
    BY <1>a, <1>b DEF Flushed, Rows
  <2>2. [UnlockPut(Flushed(t), t) EXCEPT ![t] = "completed"]
          \in [Tasks -> Statuses \cup {Same}]
    BY <2>1, <1>a, <1>b, UnlockPutType
  <2>3. (IF seen.start = None THEN None ELSE seen.spent + (clock - seen.start)) \in Int
    BY <1>a
  <2>4. /\ AfterCheck
        /\ \/ request' = Ended(r)
           \/ Prepare(r, [UnlockPut(Flushed(t), t) EXCEPT ![t] = "completed"], None,
                      IF seen.start = None THEN None
                        ELSE seen.spent + (clock - seen.start), "event")
    BY <1>5 DEF CheckComplete, t, seen
  <2>5. QED
    BY <2>2, <2>3, <2>4, <1>a, <1>b, <1>c, <1>d, <1>e, PrepareType
<1>6. CASE CheckDelete(r) \/ CheckFeedback(r)
  <2>1. \A s \in {"deleted", "completed", "paused"} :
          PutOne(t, s) \in [Tasks -> Statuses \cup {Same}]
    BY <1>a, <1>b, PutOneType
  <2>2. /\ AfterCheck
        /\ \/ \E s \in {"deleted", "completed", "paused"} :
                 Prepare(r, PutOne(t, s), None, None, "idle")
           \/ request' = Ended(r)
    BY <1>6 DEF CheckDelete, CheckFeedback, t, seen
  <2>3. QED
    BY <2>1, <2>2, <1>a, <1>b, <1>c, <1>d, <1>e, PrepareType
<1>7. QED
  BY <1>1, <1>2, <1>3, <1>4, <1>5, <1>6

LEMMA TypeRemember ==
    ASSUME TypeOK, task' \in [Tasks -> Rows], Remember
    PROVE  begun' \in SUBSET Tasks /\ finished' \in SUBSET Tasks
BY DEF TypeOK, Remember

LEMMA TypeCommit ==
    ASSUME TypeOK, NEW r \in Requests,
           Commit(r) \/ PlanCommits(r) \/ Score(r)
    PROVE  TypeOK'
<1>1. request \in [Requests -> Sessions] /\ task \in [Tasks -> Rows]
      /\ request[r].then \in Steps
  BY DEF TypeOK, Sessions
<1>2. Written(r) \in [Tasks -> Rows]
  BY <1>1, WrittenType
<1>3. task' \in [Tasks -> Rows] /\ Remember
  BY <1>1, <1>2 DEF Commit, PlanCommits, Score, Save
<1>4. request[r] \in Sessions /\ {"lease", "dispatch"} \subseteq Steps
  BY <1>1 DEF Steps
<1>5. Committed(r) \in [Requests -> Sessions]
  <2>1. None \in Int
    BY DEF None
  <2>2. [request[r] EXCEPT !.step = request[r].then, !.put = Nothing,
                           !.start = None, !.spent = None] \in Sessions
    BY <2>1, <1>1, <1>4, NothingType DEF Sessions
  <2>3. QED
    BY <2>2, <1>1, EndedType, BecomesType DEF Committed
<1>6. \A next \in {"lease", "dispatch"} :
        Becomes(r, [request[r] EXCEPT !.step = next, !.put = Nothing])
          \in [Requests -> Sessions]
  <2>1. TAKE next \in {"lease", "dispatch"}
  <2>2. [request[r] EXCEPT !.step = next, !.put = Nothing] \in Sessions
    BY <1>4, NothingType DEF Sessions
  <2>3. QED
    BY <2>2, <1>1, BecomesType
<1>7. request' \in [Requests -> Sessions]
  BY <1>1, <1>5, <1>6, EndedType DEF Commit, PlanCommits, Score, Save
<1>8. delivered' \in SUBSET Tasks
  BY DEF Commit, Delivers, PlanCommits, Score, Save, TypeOK
<1>9. QED
  BY <1>3, <1>7, <1>8, TypeRemember DEF Commit, PlanCommits, Score, Save, TypeOK

LEMMA UpdateStatusType ==
    ASSUME NEW old \in Units, NEW new \in Units
    PROVE  UpdateStatus(old, new) \in Units
BY DEF UpdateStatus

LEMMA HookUnitType ==
    ASSUME NEW op, NEW seen, NEW old \in Units
    PROVE  HookUnit(op, seen, old) \in Units
<1>1. Resume(old) \in Units /\ {"pending", "executing", "waiting", "completed"} \subseteq Units
  BY DEF Resume, Units
<1>2. QED
  BY <1>1, UpdateStatusType DEF HookUnit

LEMMA StartedType ==
    ASSUME TypeOK, NEW t \in Tasks
    PROVE  Started(t) \in [Tasks -> Rows]
<1>1. task \in [Tasks -> Rows] /\ task[t] \in Rows /\ task[t].status \in Statuses
      /\ clock \in Int /\ "in_progress" \in Statuses
  BY DEF TypeOK, Rows, Statuses
<1>2. Recompute(task[t].status, FALSE) \in Statuses
  BY <1>1, RecomputeType
<1>3. [task EXCEPT ![t].status = Recompute(@, FALSE)] \in [Tasks -> Rows]
  BY <1>1, <1>2 DEF Rows
<1>4. [task EXCEPT ![t].status = "in_progress", ![t].start = clock] \in [Tasks -> Rows]
  BY <1>1 DEF Rows
<1>5. QED
  BY <1>1, <1>3, <1>4 DEF Started

\* A session that goes on with the same request in another step.
SameRequest(q, p) ==
    /\ q.op = p.op /\ q.task = p.task /\ q.put = p.put /\ q.then = p.then
    /\ q.unlocked = p.unlocked /\ q.todo \subseteq p.todo /\ q.pick \subseteq p.pick

LEMMA ToIs ==
    ASSUME TypeOK, NEW r \in Requests, NEW s \in Steps
    PROVE  \E q \in Sessions :
             /\ To(r, s) = Becomes(r, q) /\ SameRequest(q, request[r])
             /\ q.step = s /\ q.pick = request[r].pick
<1> DEFINE q == [request[r] EXCEPT !.step = s]
<1>1. request[r] \in Sessions
  BY DEF TypeOK
<1>2. /\ q \in Sessions /\ SameRequest(q, request[r])
      /\ q.step = s /\ q.pick = request[r].pick
  BY <1>1 DEF Sessions, SameRequest
<1>3. To(r, s) = Becomes(r, q)
  BY DEF To
<1> QED
  BY <1>2, <1>3

LEMMA NextReadyIs ==
    ASSUME TypeOK, NEW r \in Requests
    PROVE  \E q \in Sessions :
             /\ NextReady(r) = Becomes(r, q) /\ SameRequest(q, request[r])
             /\ q.step = "cascade" /\ q.pick = {}
<1> DEFINE q == [request[r] EXCEPT !.step = "cascade", !.todo = @ \ request[r].pick,
                                   !.pick = {}]
<1>1. request[r] \in Sessions
  BY DEF TypeOK
<1>2. /\ q \in Sessions /\ SameRequest(q, request[r])
      /\ q.step = "cascade" /\ q.pick = {}
  BY <1>1 DEF Sessions, SameRequest, Steps
<1>3. NextReady(r) = Becomes(r, q)
  BY DEF NextReady
<1> QED
  BY <1>2, <1>3

\* A hook ends its request, or leads to the orchestration or to the queue.
LEMMA AfterHookIs ==
    ASSUME TypeOK, NEW r \in Requests
    PROVE  \/ /\ AfterHook(r) = Ended(r)
              /\ request[r].pick = {} /\ request[r].op # "complete"
           \/ \E q \in Sessions :
                /\ AfterHook(r) = Becomes(r, q) /\ SameRequest(q, request[r])
                /\ q.pick = request[r].pick
                /\ \/ q.pick = {} /\ q.op = "complete" /\ q.step = "orchestrate"
                   \/ q.pick # {} /\ q.step = "queue"
<1>1. CASE request[r].pick = {} /\ request[r].op # "complete"
  BY <1>1 DEF AfterHook
<1>2. CASE request[r].pick # {} \/ request[r].op = "complete"
  <2> DEFINE q == [request[r] EXCEPT
                     !.step = IF request[r].pick = {} THEN "orchestrate" ELSE "queue",
                     !.eu = "none"]
  <2>1. request[r] \in Sessions
    BY DEF TypeOK
  <2>2. q \in Sessions /\ SameRequest(q, request[r]) /\ q.pick = request[r].pick
    BY <2>1 DEF Sessions, SameRequest, Steps, Units
  <2>3. \/ q.pick = {} /\ q.op = "complete" /\ q.step = "orchestrate"
        \/ q.pick # {} /\ q.step = "queue"
    BY <2>1, <2>2, <1>2 DEF Sessions, SameRequest
  <2>4. AfterHook(r) = Becomes(r, q)
    BY <1>2 DEF AfterHook
  <2> QED
    BY <2>2, <2>3, <2>4
<1> QED
  BY <1>1, <1>2

\* How a session moves through a start in the cascade and through a hook.
StartMoves(q, p) ==
    \/ p.step = "activate" /\ q.step = "cascade" /\ q.pick = {}
    \/ p.step = "activate" /\ q.step \in {"hook", "queue"} /\ q.pick = p.pick /\ p.pick # {}
    \/ p.step = "queue" /\ q.step = "cascade" /\ q.pick = {}
    \/ p.step = "hook" /\ q.step = "settle" /\ q.pick = p.pick
    \/ /\ p.step \in {"hook", "settle"} /\ q.pick = p.pick
       /\ \/ q.pick = {} /\ q.op = "complete" /\ q.step = "orchestrate"
          \/ q.pick # {} /\ q.step = "queue"

LEMMA StartIs ==
    ASSUME TypeOK, NEW r \in Requests,
           Activate(r) \/ Queue(r) \/ FindUnit(r) \/ SettleUnit(r)
    PROVE  \/ /\ request' = Ended(r) /\ request[r].step \in {"hook", "settle"}
              /\ request[r].pick = {} /\ request[r].op # "complete"
           \/ \E q \in Sessions :
                /\ request' = Becomes(r, q) /\ SameRequest(q, request[r])
                /\ StartMoves(q, request[r])
<1>a. request[r] \in Sessions /\ unit \in [Tasks -> Units]
      /\ request[r].task \in Tasks /\ request[r].pick \subseteq Tasks
  BY DEF TypeOK, Sessions
<1>1. CASE Activate(r)
  <2>1. request' \in {NextReady(r), To(r, "hook"), To(r, "queue")}
        /\ request[r].step = "activate" /\ request[r].pick # {}
    BY <1>1 DEF Activate
  <2>2. {"hook", "queue"} \subseteq Steps
    BY DEF Steps
  <2> QED
    BY <2>1, <2>2, NextReadyIs, ToIs DEF StartMoves
<1>2. CASE Queue(r)
  BY <1>2, NextReadyIs DEF Queue, StartMoves
<1>3. ASSUME request[r].step \in {"hook", "settle"}, request' = AfterHook(r)
      PROVE  \/ /\ request' = Ended(r) /\ request[r].step \in {"hook", "settle"}
                /\ request[r].pick = {} /\ request[r].op # "complete"
             \/ \E q \in Sessions :
                  /\ request' = Becomes(r, q) /\ SameRequest(q, request[r])
                  /\ StartMoves(q, request[r])
  BY <1>3, AfterHookIs DEF StartMoves
<1>4. CASE FindUnit(r) /\ request' # AfterHook(r)
  <2>1. PICK t \in Subject(r) :
          /\ request[r].step = "hook"
          /\ request' = Becomes(r, [request[r] EXCEPT !.step = "settle", !.eu = unit[t]])
    BY <1>4 DEF FindUnit
  <2> DEFINE q == [request[r] EXCEPT !.step = "settle", !.eu = unit[t]]
  <2>2. unit[t] \in Units
    BY <1>a DEF Subject
  <2>3. /\ q \in Sessions /\ SameRequest(q, request[r])
        /\ q.step = "settle" /\ q.pick = request[r].pick
    BY <1>a, <2>2 DEF Sessions, SameRequest, Steps
  <2> QED
    BY <2>1, <2>3 DEF StartMoves
<1> QED
  BY <1>1, <1>2, <1>3, <1>4 DEF FindUnit, SettleUnit

\* What the hooks and the queue leave alone.
LEMMA HooksKeep ==
    ASSUME NEW r \in Requests, Queue(r) \/ FindUnit(r) \/ SettleUnit(r)
    PROVE  UNCHANGED <<task, begun, finished, delivered, clock, served, crashes, fired>>
           /\ (~Queue(r) => UNCHANGED queued)
BY DEF Queue, FindUnit, SettleUnit

LEMMA TypeStart ==
    ASSUME TypeOK, NEW r \in Requests,
           Activate(r) \/ Queue(r) \/ FindUnit(r) \/ SettleUnit(r)
    PROVE  TypeOK'
<1>a. request[r] \in Sessions /\ request[r].pick \subseteq Tasks /\ request[r].eu \in Units
      /\ request[r].task \in Tasks
  BY DEF TypeOK, Sessions
<1>0. request \in [Requests -> Sessions]
  BY DEF TypeOK
<1>1. request' \in [Requests -> Sessions]
  <2>1. request' = Ended(r) \/ \E q \in Sessions : request' = Becomes(r, q)
    BY StartIs
  <2> QED
    BY <1>0, <2>1, EndedType, BecomesType
<1>2. CASE Activate(r)
  <2>1. task' \in [Tasks -> Rows]
    BY <1>2, <1>a, StartedType DEF Activate, TypeOK
  <2> QED
    BY <1>1, <1>2, <2>1, TypeRemember DEF Activate, TypeOK
<1>3. CASE Queue(r)
  BY <1>1, <1>3, <1>a DEF Queue, TypeOK
<1>4. CASE FindUnit(r)
  BY <1>1, <1>4 DEF FindUnit, TypeOK
<1>5. CASE SettleUnit(r)
  <2>0. PICK t \in Subject(r) : \E old \in {request[r].eu, unit[t]} :
          /\ unit' = IF HookUnit(HookOp(r), request[r].eu, old) = old THEN unit
                       ELSE [unit EXCEPT ![t] = HookUnit(HookOp(r), request[r].eu, old)]
          /\ crossed' = IF unit[t] = request[r].eu THEN crossed ELSE crossed \cup {t}
    BY <1>5 DEF SettleUnit
  <2>1. PICK old \in {request[r].eu, unit[t]} :
          /\ unit' = IF HookUnit(HookOp(r), request[r].eu, old) = old THEN unit
                       ELSE [unit EXCEPT ![t] = HookUnit(HookOp(r), request[r].eu, old)]
          /\ crossed' = IF unit[t] = request[r].eu THEN crossed ELSE crossed \cup {t}
    BY <2>0
  <2>2. t \in Tasks
    BY <1>a DEF Subject
  <2>3. HookUnit(HookOp(r), request[r].eu, old) \in Units
    BY <1>a, <2>1, <2>2, HookUnitType DEF TypeOK
  <2>4. unit' \in [Tasks -> Units] /\ crossed' \in SUBSET Tasks
    BY <2>1, <2>2, <2>3 DEF TypeOK
  <2> QED
    BY <1>1, <1>5, <2>4 DEF SettleUnit, TypeOK
<1> QED
  BY <1>2, <1>3, <1>4, <1>5

LEMMA TypeCascade ==
    ASSUME TypeOK, NEW r \in Requests,
           Event(r) \/ CascadeDone(r) \/ \E t \in Tasks : CascadeNext(r, t)
    PROVE  TypeOK'
<1>a. request \in [Requests -> Sessions] /\ request[r] \in Sessions
      /\ request[r].task \in Tasks /\ request[r].todo \subseteq Tasks
  BY DEF TypeOK, Sessions
<1>b. To(r, "hook") \in [Requests -> Sessions]
  BY <1>a, ToType DEF Steps
<1>1. CASE Event(r)
  <2>1. ReadyInPlan \subseteq Tasks
    BY ConstantsType DEF ReadyInPlan
  <2>2. [request[r] EXCEPT !.step = "cascade", !.todo = ReadyInPlan] \in Sessions
    BY <2>1, <1>a DEF Sessions, Steps
  <2>5. request' \in [Requests -> Sessions]
    BY <1>1, <2>2, <1>a, <1>b, BecomesType DEF Event
  <2>3. fired' \in [Tasks -> Nat]
    BY <1>1, <1>a DEF Event, TypeOK
  <2>4. QED
    BY <1>1, <2>5, <2>3 DEF Event, TypeOK
<1>3. CASE CascadeDone(r)
  BY <1>3, <1>b DEF CascadeDone, TypeOK
<1>5. ASSUME NEW t \in Tasks, CascadeNext(r, t) PROVE TypeOK'
  <2>1. [request[r] EXCEPT !.step = "activate", !.pick = {t}] \in Sessions
    BY <1>a DEF Sessions, Steps
  <2>2. [request[r] EXCEPT !.todo = @ \ {t}] \in Sessions
    BY <1>a DEF Sessions
  <2>3. request' \in [Requests -> Sessions]
    BY <1>5, <1>a, <2>1, <2>2, BecomesType DEF CascadeNext
  <2>4. QED
    BY <1>5, <2>3 DEF CascadeNext, TypeOK
<1>6. QED
  BY <1>1, <1>3, <1>5

LEMMA TypeOrchestrate ==
    ASSUME TypeOK, NEW r \in Requests,
           Orchestrate(r) \/ TakeLease(r) \/ Dispatch(r)
    PROVE  TypeOK'
<1>a. request \in [Requests -> Sessions] /\ request[r] \in Sessions
      /\ request[r].task \in Tasks /\ request[r].unlocked \subseteq Tasks
      /\ task \in [Tasks -> Rows]
  BY DEF TypeOK, Sessions
<1>b. \A s \in {"plan", "lease", "score", "dispatch"} :
        To(r, s) \in [Requests -> Sessions]
  BY <1>a, ToType DEF Steps
<1>1. CASE Orchestrate(r)
  <2>1. UnlockPut(task, request[r].task) \in [Tasks -> Statuses \cup {Same}]
    BY <1>a, UnlockPutType
  <2>2. Unlocked(task, request[r].task) \subseteq Tasks
    BY DEF Unlocked, Candidates
  <2>3. \A s \in {"plan", "lease"} :
          [request[r] EXCEPT !.step = s, !.put = UnlockPut(task, request[r].task),
                             !.unlocked = Unlocked(task, request[r].task)]
            \in Sessions
    BY <2>1, <2>2, <1>a DEF Sessions, Steps
  <2>4. request' \in [Requests -> Sessions]
    BY <1>1, <2>3, <1>a, EndedType, BecomesType DEF Orchestrate
  <2>5. QED
    BY <1>1, <2>4 DEF Orchestrate, TypeOK
<1>2. CASE TakeLease(r)
  BY <1>2, <1>b DEF TakeLease, TypeOK
<1>3. CASE Dispatch(r)
  <2>1. queued' \in SUBSET Tasks
    BY <1>3, <1>a, ConstantsType DEF Dispatch, TypeOK
  <2>2. request' \in [Requests -> Sessions]
    BY <1>3, <1>a, EndedType DEF Dispatch
  <2>3. QED
    BY <1>3, <2>1, <2>2 DEF Dispatch, TypeOK
<1>4. QED
  BY <1>1, <1>2, <1>3

LEMMA TypeWorld ==
    ASSUME TypeOK, Tick \/ (\E r \in Requests : Crash(r)) \/ UNCHANGED vars
    PROVE  TypeOK'
<1>1. CASE Tick
  BY <1>1 DEF Tick, TypeOK
<1>2. ASSUME NEW r \in Requests, Crash(r) PROVE TypeOK'
  BY <1>2, EndedType DEF Crash, TypeOK
<1>3. CASE UNCHANGED vars
  BY <1>3 DEF vars, TypeOK
<1>4. QED
  BY <1>1, <1>2, <1>3

LEMMA TypeNext == TypeOK /\ [Next]_vars => TypeOK'
<1>1. SUFFICES ASSUME TypeOK, [Next]_vars PROVE TypeOK'
  OBVIOUS
<1>2. ASSUME NEW r \in Requests, Step(r) PROVE TypeOK'
  BY <1>1, <1>2, TypeCheck, TypeCommit, TypeCascade, TypeStart, TypeOrchestrate DEF Step
<1>3. ASSUME NEW r \in Requests, NEW op \in Workload, NEW t \in Tasks, Load(r, op, t)
      PROVE TypeOK'
  BY <1>1, <1>3, TypeLoad
<1>4. QED
  BY <1>1, <1>2, <1>3, TypeWorld DEF Next

(***************************************************************************)
(* The variables of the task service always have their types: rows with    *)
(* known statuses, units in the runtime's states, sessions well formed.    *)
(***************************************************************************)
THEOREM TypeCorrect == Spec => []TypeOK
<1>1. QED
  BY TypeInit, TypeNext, PTL DEF Spec

-----------------------------------------------------------------------------
(***************************************************************************)
(* Dependencies first.  A session that holds "completed" or "in_progress"  *)
(* for a task read all its dependencies as completed earlier, and what has *)
(* been completed stays in `finished` whatever becomes of the row: that,   *)
(* and not the row it is about to overwrite, is what a commit relies on.   *)
(***************************************************************************)
Doing == {"in_progress", "completed"}

RowsRemembered ==
    \A t \in Tasks : /\ task[t].status = "in_progress" => t \in begun
                     /\ task[t].status = "completed" => t \in finished

\* A delivery has two steps, and writes one status to its own task.
Delivery(q) ==
    /\ q.step \in {"check", "commit"}
    /\ q.step = "commit" => q.then = "idle" /\ q.put = PutOne(q.task, "completed")

Justified(q, done) ==
    /\ q.op = "deliver" => Delivery(q)
    /\ q.step = "idle" => q.put = Nothing
    /\ q.op # "deliver" => \A t \in Tasks : q.put[t] \in Doing =>
          t = q.task /\ DependsOn[t] \subseteq done

SessionJustified(r) == Justified(request[r], finished)

OrderInv ==
    /\ TypeOK
    /\ DependenciesFirst
    /\ RowsRemembered
    /\ \A r \in Requests : SessionJustified(r)

LEMMA CompleteIsFinished ==
    ASSUME RowsRemembered, NEW t \in Tasks, DependenciesComplete(task, t)
    PROVE  DependsOn[t] \subseteq finished
BY ConstantsType DEF RowsRemembered, DependenciesComplete

\* Unlocking never begins or completes anything.
LEMMA UnlockPutIdle ==
    ASSUME NEW rows \in [Tasks -> Rows], NEW t \in Tasks, NEW c \in Tasks
    PROVE  UnlockPut(rows, t)[c] \notin Doing
<1>1. CASE c \in Candidates(rows, t)
  <2>1. rows[c].status \in {"blocked", "pending", "paused"}
    BY <1>1 DEF Candidates
  <2>2. Change(rows[c].status,
               Recompute(rows[c].status, DependenciesComplete(rows, c)))
          \in {"blocked", "pending", Same}
    BY <2>1 DEF Change, Recompute
  <2>3. QED
    BY <1>1, <2>2 DEF UnlockPut, Doing, Same
<1>2. CASE c \notin Candidates(rows, t)
  BY <1>2 DEF UnlockPut, Doing, Same
<1>3. QED
  BY <1>1, <1>2

\* The rows and histories after a step: each new work in hand was justified.
LEMMA HistoryStep ==
    ASSUME OrderInv, TypeOK', delivered \subseteq delivered',
           \/ UNCHANGED <<task, begun, finished>>
           \/ Remember /\ \A t \in Tasks : task'[t].status \in Doing =>
                 \/ task'[t].status = task[t].status
                 \/ DependsOn[t] \subseteq finished
                 \/ task'[t].status = "completed" /\ t \in delivered'
    PROVE  DependenciesFirst' /\ RowsRemembered' /\ finished \subseteq finished'
<1>1. CASE UNCHANGED <<task, begun, finished>>
  BY <1>1 DEF OrderInv, DependenciesFirst, RowsRemembered
<1>2. CASE Remember /\ \A t \in Tasks : task'[t].status \in Doing =>
                 \/ task'[t].status = task[t].status
                 \/ DependsOn[t] \subseteq finished
                 \/ task'[t].status = "completed" /\ t \in delivered'
  <2>1. finished \subseteq finished' /\ RowsRemembered'
    BY <1>2 DEF Remember, RowsRemembered
  <2>2. ASSUME NEW t \in begun' \cup (finished' \ delivered') PROVE DependsOn[t] \subseteq finished'
    <3>1. CASE t \in begun \cup (finished \ delivered)
      BY <3>1, <2>1 DEF OrderInv, DependenciesFirst
    <3>2. CASE t \notin begun \cup (finished \ delivered)
      <4>1. \/ t \in Tasks /\ task'[t].status = "in_progress"
            \/ t \in Tasks /\ t \notin finished /\ task'[t].status = "completed" /\ t \notin delivered'
        BY <1>2, <3>2 DEF Remember
      <4>2. task'[t].status # task[t].status
        BY <4>1, <3>2 DEF OrderInv, RowsRemembered
      <4>3. QED
        BY <1>2, <4>1, <4>2, <2>1 DEF Doing
    <3>3. QED
      BY <3>1, <3>2
  <2>3. QED
    BY <2>1, <2>2 DEF DependenciesFirst
<1>3. QED
  BY <1>1, <1>2

\* The sessions after a step of one of them.
LEMMA SessionStep ==
    ASSUME OrderInv, finished \subseteq finished', NEW r \in Requests,
           NEW q, request' = Becomes(r, q),
           Justified(q, finished)
    PROVE  \A p \in Requests : SessionJustified(p)'
<1>1. SUFFICES ASSUME NEW p \in Requests PROVE SessionJustified(p)'
  OBVIOUS
<1>2. CASE p = r
  <2>1. request'[p] = q
    BY <1>2 DEF OrderInv, TypeOK, Becomes
  <2>2. QED
    BY <2>1 DEF SessionJustified, Justified
<1>3. CASE p # r
  <2>1. request'[p] = request[p]
    BY <1>3 DEF OrderInv, TypeOK, Becomes
  <2>2. QED
    BY <2>1 DEF OrderInv, SessionJustified, Justified
<1>4. QED
  BY <1>2, <1>3

LEMMA NothingIdle == \A t \in Tasks : Nothing[t] \notin Doing
BY DEF Nothing, Doing, Same

LEMMA EndedStep ==
    ASSUME OrderInv, finished \subseteq finished', NEW r \in Requests,
           request' = Ended(r)
    PROVE  \A p \in Requests : SessionJustified(p)'
<1>1. request' = Becomes(r, IdleSession) /\ IdleSession.op # "deliver"
      /\ IdleSession.put = Nothing
  BY DEF Ended, IdleSession
<1>2. QED
  BY <1>1, NothingIdle, SessionStep DEF Justified

\* A session that prepares its writes.
LEMMA PrepareStep ==
    ASSUME OrderInv, finished \subseteq finished', NEW r \in Requests,
           NEW put, NEW start, NEW spent, NEW then,
           Prepare(r, put, start, spent, then), request[r].op # "deliver",
           \A t \in Tasks : put[t] \in Doing =>
              t = request[r].task /\ DependsOn[t] \subseteq finished
    PROVE  \A p \in Requests : SessionJustified(p)'
<1> DEFINE q == [request[r] EXCEPT !.put = put, !.start = start, !.spent = spent,
                                   !.then = then, !.step = "commit"]
<1>1. request[r] \in Sessions
  BY DEF OrderInv, TypeOK
<1>2. q.op = request[r].op /\ q.step = "commit" /\ q.put = put /\ q.task = request[r].task
  BY <1>1 DEF Sessions
<1>3. request' = Becomes(r, q)
  BY DEF Prepare
<1> HIDE DEF q
<1>4. QED
  BY <1>2, <1>3, SessionStep DEF Justified

LEMMA OrderInit == Init => OrderInv
<1>1. SUFFICES ASSUME Init PROVE OrderInv
  OBVIOUS
<1>2. DependenciesFirst
  BY <1>1 DEF Init, DependenciesFirst
<1>3. RowsRemembered
  BY <1>1 DEF Init, RowsRemembered, NoRow
<1>4. \A r \in Requests : SessionJustified(r)
  BY <1>1, NothingIdle DEF Init, SessionJustified, Justified, IdleSession
<1>5. QED
  BY <1>1, <1>2, <1>3, <1>4, TypeInit DEF OrderInv

LEMMA OrderLoad ==
    ASSUME OrderInv, NEW r \in Requests, NEW op \in Workload, NEW t \in Tasks, Load(r, op, t)
    PROVE  OrderInv'
<1>1. TypeOK'
  BY TypeLoad DEF OrderInv
<1>2. DependenciesFirst' /\ RowsRemembered' /\ finished \subseteq finished'
  BY <1>1, HistoryStep DEF Load
<1> DEFINE q == [request[r] EXCEPT !.op = op, !.task = t, !.seen = task[t],
                                   !.step = "check"]
<1>3. request[r] \in Sessions /\ request[r].step = "idle" /\ request' = Becomes(r, q)
  BY DEF OrderInv, TypeOK, Load
<1>4. request[r].put = Nothing
  BY <1>3 DEF OrderInv, SessionJustified, Justified
<1>5. q.op = op /\ q.step = "check" /\ q.put = Nothing
  BY <1>3, <1>4 DEF Sessions
<1> HIDE DEF q
<1>6. \A p \in Requests : SessionJustified(p)'
  BY <1>2, <1>3, <1>5, NothingIdle, SessionStep DEF Justified, Delivery
<1>7. QED
  BY <1>1, <1>2, <1>6 DEF OrderInv

LEMMA OrderCheck ==
    ASSUME OrderInv, NEW r \in Requests,
           \/ CheckCreate(r) \/ CheckBlocked(r) \/ CheckStart(r) \/ CheckPause(r)
           \/ CheckComplete(r) \/ CheckDelete(r) \/ CheckFeedback(r)
    PROVE  OrderInv'
<1> DEFINE t == request[r].task
           seen == request[r].seen
<1>a. TypeOK'
  BY TypeCheck DEF OrderInv
<1>b. UNCHANGED <<task, begun, finished, delivered>>
  BY DEF CheckCreate, CheckBlocked, CheckStart, CheckPause, CheckComplete,
         CheckDelete, CheckFeedback, AfterCheck
<1>c. DependenciesFirst' /\ RowsRemembered' /\ finished \subseteq finished'
  BY <1>a, <1>b, HistoryStep
<1>d. t \in Tasks /\ seen \in Rows /\ task \in [Tasks -> Rows]
  BY DEF OrderInv, TypeOK, Sessions
<1>e. \A s, u \in Tasks : \A x : PutOne(s, x)[u] \in Doing => u = s /\ x \in Doing
  BY DEF PutOne, Nothing, Doing, Same
<1>f. SUFFICES \A p \in Requests : SessionJustified(p)'
  BY <1>a, <1>c DEF OrderInv
<1>g. DependenciesComplete(task, t) => DependsOn[t] \subseteq finished
  BY <1>d, CompleteIsFinished DEF OrderInv
<1>h. (request' = Ended(r)) => \A p \in Requests : SessionJustified(p)'
  BY <1>c, EndedStep
<1> HIDE DEF t, seen
<1>1. CASE CheckCreate(r)
  <2>0. request[r].op # "deliver"
    BY <1>1 DEF CheckCreate, Checking
  <2>1. Recompute("pending", DependenciesComplete(task, t)) \notin Doing
    BY DEF Recompute, Doing
  <2>2. Prepare(r, PutOne(t, Recompute("pending", DependenciesComplete(task, t))),
                None, 0, "hook")
    BY <1>1 DEF CheckCreate, t
  <2>3. QED
    BY <2>0, <2>1, <2>2, <1>c, <1>d, <1>e, PrepareStep
<1>2. CASE CheckBlocked(r)
  <2>0. request[r].op # "deliver"
    BY <1>2 DEF CheckBlocked, Checking
  <2>1. Change(seen.status, Recompute(seen.status, FALSE)) \notin Doing
    BY DEF Change, Recompute, Doing, Same
  <2>2. Prepare(r, PutOne(t, Change(seen.status, Recompute(seen.status, FALSE))),
                None, None, "idle")
    BY <1>2 DEF CheckBlocked, t, seen
  <2>3. ASSUME NEW new, new \notin Doing,
               Prepare(r, PutOne(t, new), None, None, "idle")
        PROVE  \A p \in Requests : SessionJustified(p)'
    BY <2>0, <2>3, <1>c, <1>d, <1>e, PrepareStep
  <2>4. QED
    BY <2>1, <2>2, <2>3
<1>3. CASE CheckStart(r)
  <2>0. request[r].op # "deliver"
    BY <1>3 DEF CheckStart, Checking
  <2>1. DependsOn[t] \subseteq finished
    BY <1>3, <1>g DEF CheckStart, t
  <2>2. CASE Prepare(r, PutOne(t, "in_progress"), clock, None, "hook")
    BY <2>0, <2>1, <2>2, <1>c, <1>d, <1>e, PrepareStep DEF t
  <2>3. QED
    BY <1>3, <2>2, <1>h DEF CheckStart, t
<1>4. CASE CheckPause(r)
  <2>0. request[r].op # "deliver"
    BY <1>4 DEF CheckPause, Checking
  <2>1. CASE Prepare(r, PutOne(t, "paused"), None,
                     seen.spent + (clock - seen.start), "hook")
    BY <2>0, <2>1, <1>c, <1>d, <1>e, PrepareStep DEF Doing
  <2>2. QED
    BY <1>4, <2>1, <1>h DEF CheckPause, t, seen
<1>5. CASE CheckComplete(r)
  <2>0. request[r].op # "deliver"
    BY <1>5 DEF CheckComplete, Checking
  <2>1. CASE seen.status = "completed"
    BY <1>5, <2>1, <1>h DEF CheckComplete, seen
  <2>2. CASE seen.status # "completed"
    <3>1. DependsOn[t] \subseteq finished
      BY <1>5, <2>2, <1>g DEF CheckComplete, t, seen
    <3>2. Flushed(t) \in [Tasks -> Rows]
      BY <1>d DEF Flushed, Rows, Statuses
    <3> DEFINE put == [UnlockPut(Flushed(t), t) EXCEPT ![t] = "completed"]
    <3>3. \A u \in Tasks : put[u] \in Doing => u = t
      BY <3>2, <1>d, UnlockPutIdle DEF UnlockPut
    <3>4. Prepare(r, put, None,
                  IF seen.start = None THEN None
                    ELSE seen.spent + (clock - seen.start), "event")
      BY <1>5, <2>2 DEF CheckComplete, t, seen
    <3> HIDE DEF put
    <3>5. QED
      BY <2>0, <3>1, <3>3, <3>4, <1>c, PrepareStep DEF t
  <2>3. QED
    BY <2>1, <2>2
<1>6. CASE CheckDelete(r)
  <2>0. request[r].op # "deliver"
    BY <1>6 DEF CheckDelete, Checking
  <2>1. CASE Prepare(r, PutOne(t, "deleted"), None, None, "idle")
    BY <2>0, <2>1, <1>c, <1>d, <1>e, PrepareStep DEF Doing
  <2>2. QED
    BY <1>6, <2>1, <1>h DEF CheckDelete, t
<1>7. CASE CheckFeedback(r)
  <2> DEFINE put == PutOne(t, "completed")
            q == [request[r] EXCEPT !.put = put, !.start = None, !.spent = None,
                                    !.then = "idle", !.step = "commit"]
  <2>1. CASE request[r].op = "deliver" /\ request' = Becomes(r, q)
    <3>1. q.op = "deliver" /\ q.step = "commit" /\ q.then = "idle" /\ q.task = t /\ q.put = put
      BY <1>d, <2>1 DEF OrderInv, TypeOK, Sessions, t
    <3> HIDE DEF q
    <3>2. QED
      BY <2>1, <3>1, <1>c, SessionStep DEF Justified, Delivery
  <2>2. CASE request[r].op # "deliver" /\ Prepare(r, PutOne(t, "paused"), None, None, "idle")
    BY <2>2, <1>c, <1>d, <1>e, PrepareStep DEF Doing
  <2>3. QED
    BY <1>7, <2>1, <2>2, <1>h DEF CheckFeedback, Checking, Prepare, t
<1>8. QED
  BY <1>1, <1>2, <1>3, <1>4, <1>5, <1>6, <1>7

\* What a commit writes: nothing, what the session was justified in, or a delivery.
LEMMA CommitWrites ==
    ASSUME OrderInv, NEW r \in Requests,
           Commit(r) \/ PlanCommits(r) \/ Score(r)
    PROVE  /\ Remember
           /\ \/ task' \in {task, Written(r)} /\ delivered' = delivered
                 /\ \A t \in Tasks : task'[t].status \in Doing =>
                       \/ task'[t].status = task[t].status
                       \/ t = request[r].task /\ DependsOn[t] \subseteq finished
              \/ /\ task' = Written(r) /\ delivered' = delivered \cup {request[r].task}
                 /\ request[r].put = PutOne(request[r].task, "completed")
                 /\ request[r].then = "idle"
<1>1. request[r].task \in Tasks /\ Justified(request[r], finished)
  BY DEF OrderInv, TypeOK, Sessions, SessionJustified
<1>2. Remember
  BY DEF Commit, PlanCommits, Score, Save
<1>3. CASE task' = task /\ delivered' = delivered
  BY <1>2, <1>3
<1>4. CASE task' = Written(r) /\ delivered' = delivered /\ request[r].op # "deliver"
  <2>1. ASSUME NEW t \in Tasks, task'[t].status \in Doing
        PROVE  \/ task'[t].status = task[t].status
               \/ t = request[r].task /\ DependsOn[t] \subseteq finished
    <3>1. task'[t].status = IF request[r].put[t] = Same THEN task[t].status
                                                        ELSE request[r].put[t]
      BY <1>4 DEF Written
    <3>2. QED
      BY <3>1, <2>1, <1>1, <1>4 DEF Justified
  <2>2. QED
    BY <1>2, <1>4, <2>1
<1>5. CASE /\ task' = Written(r) /\ request[r].op = "deliver" /\ request[r].step = "commit"
           /\ delivered' = delivered \cup {request[r].task}
  BY <1>1, <1>2, <1>5 DEF Justified, Delivery
<1>6. CASE Commit(r)
  <2>1. CASE Missing(r) = {}
    <3>1. Delivers(r) = IF request[r].op = "deliver" THEN {request[r].task} ELSE {}
      BY <2>1, <1>1 DEF Delivers
    <3>2. QED
      BY <3>1, <2>1, <1>4, <1>5, <1>6 DEF Commit
  <2>2. CASE Missing(r) # {}
    <3>1. Delivers(r) = {}
      BY <2>2 DEF Delivers
    <3>2. QED
      BY <3>1, <2>2, <1>3, <1>6 DEF Commit
  <2>3. QED
    BY <2>1, <2>2
<1>7. CASE PlanCommits(r) \/ Score(r)
  <2>1. request[r].op # "deliver"
    BY <1>1, <1>7 DEF PlanCommits, Score, Justified, Delivery
  <2>2. QED
    BY <2>1, <1>3, <1>4, <1>7 DEF PlanCommits, Score, Save
<1>8. QED
  BY <1>6, <1>7

\* The only row a delivery changes is its own.
LEMMA DeliveryWrites ==
    ASSUME NEW r \in Requests, request[r].put = PutOne(request[r].task, "completed"),
           request[r].task \in Tasks, NEW t \in Tasks
    PROVE  Written(r)[t].status = IF t = request[r].task THEN "completed" ELSE task[t].status
BY DEF Written, PutOne, Nothing, Same

LEMMA OrderCommit ==
    ASSUME OrderInv, NEW r \in Requests,
           Commit(r) \/ PlanCommits(r) \/ Score(r)
    PROVE  OrderInv'
<1>1. TypeOK'
  BY TypeCommit DEF OrderInv
<1>2. Remember
  BY CommitWrites
<1>3. request[r] \in Sessions /\ request[r].task \in Tasks /\ SessionJustified(r)
  BY DEF OrderInv, TypeOK, Sessions
<1>4. /\ delivered \subseteq delivered'
      /\ \A t \in Tasks : task'[t].status \in Doing =>
            \/ task'[t].status = task[t].status
            \/ DependsOn[t] \subseteq finished
            \/ task'[t].status = "completed" /\ t \in delivered'
  BY <1>3, CommitWrites, DeliveryWrites
<1>5. DependenciesFirst' /\ RowsRemembered' /\ finished \subseteq finished'
  BY <1>1, <1>2, <1>4, HistoryStep
<1>6. CASE request' = Ended(r)
  BY <1>1, <1>5, <1>6, EndedStep DEF OrderInv
<1>7. ASSUME NEW q, request' = Becomes(r, q), q.op # "deliver", q.put = Nothing
      PROVE  \A p \in Requests : SessionJustified(p)'
  BY <1>5, <1>7, NothingIdle, SessionStep DEF Justified
<1>8. CASE request' = Committed(r) /\ request[r].then # "idle" /\ Commit(r)
  <2>0. request[r].op # "deliver"
    BY <1>3, <1>8 DEF Commit, SessionJustified, Justified, Delivery
  <2> DEFINE q == [request[r] EXCEPT !.step = request[r].then, !.put = Nothing,
                                     !.start = None, !.spent = None]
  <2>1. request' = Becomes(r, q)
    BY <1>8 DEF Committed
  <2>2. q.op = request[r].op /\ q.put = Nothing
    BY <1>3 DEF Sessions
  <2> HIDE DEF q
  <2>3. QED
    BY <2>0, <2>1, <2>2, <1>7, <1>1, <1>5 DEF OrderInv
<1>9. ASSUME NEW next, request' = Becomes(r, [request[r] EXCEPT !.step = next, !.put = Nothing]),
             PlanCommits(r) \/ Score(r)
      PROVE  OrderInv'
  <2>0. request[r].op # "deliver"
    BY <1>3, <1>9 DEF PlanCommits, Score, SessionJustified, Justified, Delivery
  <2> DEFINE q == [request[r] EXCEPT !.step = next, !.put = Nothing]
  <2>1. q.op = request[r].op /\ q.put = Nothing /\ request' = Becomes(r, q)
    BY <1>3, <1>9 DEF Sessions
  <2> HIDE DEF q
  <2>2. QED
    BY <2>0, <2>1, <1>7, <1>1, <1>5 DEF OrderInv
<1>10. QED
  BY <1>6, <1>8, <1>9 DEF Commit, Committed, PlanCommits, Score, Save

LEMMA OrderCascade ==
    ASSUME OrderInv, NEW r \in Requests,
           Event(r) \/ CascadeDone(r) \/ \E t \in Tasks : CascadeNext(r, t)
    PROVE  OrderInv'
<1>a. TypeOK'
  BY TypeCascade DEF OrderInv
<1>b. request[r] \in Sessions /\ request[r].pick \subseteq Tasks
      /\ request[r].todo \subseteq Tasks /\ SessionJustified(r)
      /\ request[r].op # "deliver"
  BY DEF OrderInv, TypeOK, Sessions, SessionJustified, Justified, Delivery,
         Event, CascadeDone, CascadeNext
<1>d. ASSUME NEW q, request' = Becomes(r, q), finished \subseteq finished',
             q.op = request[r].op, q.put = request[r].put,
             q.task = request[r].task, q.step # "idle"
      PROVE  \A p \in Requests : SessionJustified(p)'
  BY <1>b, <1>d, SessionStep DEF SessionJustified, Justified
<1>e. ASSUME UNCHANGED <<task, begun, finished, delivered>>,
             \A p \in Requests : SessionJustified(p)'
      PROVE  OrderInv'
  BY <1>a, <1>e, HistoryStep DEF OrderInv
<1>1. CASE Event(r)
  <2>1. ASSUME NEW q, request' = Becomes(r, q),
               \/ q = [request[r] EXCEPT !.step = "cascade", !.todo = ReadyInPlan]
               \/ q = [request[r] EXCEPT !.step = "hook"]
        PROVE  OrderInv'
    <3>1. q.op = request[r].op /\ q.put = request[r].put
          /\ q.task = request[r].task /\ q.step # "idle"
      BY <2>1, <1>b DEF Sessions
    <3>2. UNCHANGED <<task, begun, finished, delivered>>
      BY <1>1 DEF Event
    <3>3. QED
      BY <2>1, <3>1, <3>2, <1>d, <1>e
  <2>2. QED
    BY <1>1, <2>1 DEF Event, To
<1>3. CASE CascadeDone(r)
  <2> DEFINE q == [request[r] EXCEPT !.step = "hook"]
  <2>1. q.op = request[r].op /\ q.put = request[r].put
        /\ q.task = request[r].task /\ q.step # "idle" /\ request' = Becomes(r, q)
    BY <1>3, <1>b DEF Sessions, CascadeDone, To
  <2>2. UNCHANGED <<task, begun, finished, delivered>>
    BY <1>3 DEF CascadeDone
  <2> HIDE DEF q
  <2>3. QED
    BY <2>1, <2>2, <1>d, <1>e
<1>5. ASSUME NEW t \in Tasks, CascadeNext(r, t) PROVE OrderInv'
  <2>1. ASSUME NEW q, request' = Becomes(r, q),
               \/ q = [request[r] EXCEPT !.step = "activate", !.pick = {t}]
               \/ q = [request[r] EXCEPT !.todo = @ \ {t}]
        PROVE  OrderInv'
    <3>1. q.op = request[r].op /\ q.put = request[r].put
          /\ q.task = request[r].task /\ q.step # "idle"
      BY <2>1, <1>5, <1>b DEF Sessions, CascadeNext
    <3>2. UNCHANGED <<task, begun, finished, delivered>>
      BY <1>5 DEF CascadeNext
    <3>3. QED
      BY <2>1, <3>1, <3>2, <1>d, <1>e
  <2>2. QED
    BY <1>5, <2>1 DEF CascadeNext
<1>6. QED
  BY <1>1, <1>3, <1>5

\* What a start in the cascade begins, it begins with its dependencies complete.
LEMMA ActivateWrites ==
    ASSUME OrderInv, NEW r \in Requests, Activate(r)
    PROVE  /\ Remember /\ delivered' = delivered
           /\ \A u \in Tasks : task'[u].status \in Doing =>
                 task'[u].status = task[u].status \/ DependsOn[u] \subseteq finished
<1>1. PICK t \in request[r].pick :
        /\ task' \in {task, Started(t)}
        /\ Remember /\ delivered' = delivered
  BY DEF Activate
<1>2. t \in Tasks
  BY DEF OrderInv, TypeOK, Sessions
<1>3. ASSUME NEW u \in Tasks, task'[u].status \in Doing
      PROVE  task'[u].status = task[u].status \/ DependsOn[u] \subseteq finished
  <2>1. CASE DependenciesComplete(task, t)
    <3>1. DependsOn[t] \subseteq finished
      BY <2>1, <1>2, CompleteIsFinished DEF OrderInv
    <3>2. CASE u = t
      BY <3>1, <3>2
    <3>3. CASE u # t
      BY <3>3, <2>1, <1>1, <1>2 DEF Started, OrderInv, TypeOK
    <3>4. QED
      BY <3>2, <3>3
  <2>2. CASE ~DependenciesComplete(task, t)
    <3>1. task' \in {task, [task EXCEPT ![t].status = Recompute(@, FALSE)]}
      BY <2>2, <1>1 DEF Started
    <3>2. task \in [Tasks -> Rows] /\ task[t] \in Rows
      BY <1>2 DEF OrderInv, TypeOK
    <3>3. [task EXCEPT ![t].status = Recompute(@, FALSE)][t].status
            = Recompute(task[t].status, FALSE)
      BY <3>2, <1>2 DEF Rows
    <3>4. CASE u = t
      <4>1. Recompute(task[t].status, FALSE) \in Doing =>
              Recompute(task[t].status, FALSE) = task[t].status
        BY DEF Recompute, Doing
      <4>2. QED
        BY <4>1, <3>1, <3>3, <3>4, <1>3
    <3>5. CASE u # t
      BY <3>5, <3>1, <3>2
    <3>6. QED
      BY <3>4, <3>5
  <2>3. QED
    BY <2>1, <2>2
<1>4. QED
  BY <1>1, <1>3

LEMMA OrderStart ==
    ASSUME OrderInv, NEW r \in Requests,
           Activate(r) \/ Queue(r) \/ FindUnit(r) \/ SettleUnit(r)
    PROVE  OrderInv'
<1>1. TypeOK'
  BY TypeStart DEF OrderInv
<1>2. request[r] \in Sessions /\ SessionJustified(r) /\ request[r].op # "deliver"
  BY DEF OrderInv, TypeOK, SessionJustified, Justified, Delivery,
         Activate, Queue, FindUnit, SettleUnit
<1>3. DependenciesFirst' /\ RowsRemembered' /\ finished \subseteq finished'
  BY <1>1, HooksKeep, ActivateWrites, HistoryStep
<1>4. ASSUME NEW q \in Sessions, request' = Becomes(r, q), SameRequest(q, request[r]),
             StartMoves(q, request[r])
      PROVE  \A p \in Requests : SessionJustified(p)'
  BY <1>2, <1>3, <1>4, SessionStep
     DEF SessionJustified, Justified, SameRequest, StartMoves
<1>5. \A p \in Requests : SessionJustified(p)'
  BY <1>3, <1>4, StartIs, EndedStep DEF OrderInv
<1> QED
  BY <1>1, <1>3, <1>5 DEF OrderInv

LEMMA OrderOrchestrate ==
    ASSUME OrderInv, NEW r \in Requests,
           Orchestrate(r) \/ TakeLease(r) \/ Dispatch(r) \/ Crash(r)
    PROVE  OrderInv'
<1>a. TypeOK'
  BY TypeOrchestrate, TypeWorld DEF OrderInv
<1>b. UNCHANGED <<task, begun, finished, delivered>>
  BY DEF Orchestrate, TakeLease, Dispatch, Crash
<1>c. DependenciesFirst' /\ RowsRemembered' /\ finished \subseteq finished'
  BY <1>a, <1>b, HistoryStep
<1>d. request[r] \in Sessions /\ SessionJustified(r) /\ request[r].task \in Tasks
      /\ task \in [Tasks -> Rows]
  BY DEF OrderInv, TypeOK, Sessions
<1>1. CASE request' = Ended(r)
  BY <1>1, <1>a, <1>c, EndedStep DEF OrderInv
<1>2. ASSUME NEW q, request' = Becomes(r, q), q.op = request[r].op,
             q.task = request[r].task, q.step # "idle",
             request[r].op # "deliver",
             \/ q.put = request[r].put
             \/ \A t \in Tasks : q.put[t] \notin Doing
      PROVE  OrderInv'
  BY <1>2, <1>a, <1>c, <1>d, SessionStep DEF OrderInv, SessionJustified, Justified
<1>3. ASSUME NEW s \in {"dispatch", "score"}, TakeLease(r), request' = To(r, s) PROVE OrderInv'
  <2>0. request[r].op # "deliver"
    BY <1>d, <1>3 DEF TakeLease, SessionJustified, Justified, Delivery
  <2> DEFINE q == [request[r] EXCEPT !.step = s]
  <2>1. q.op = request[r].op /\ q.task = request[r].task /\ q.step # "idle"
        /\ q.put = request[r].put /\ request' = Becomes(r, q)
    BY <1>3, <1>d DEF Sessions, To
  <2> HIDE DEF q
  <2>2. QED
    BY <2>0, <2>1, <1>2
<1>4. CASE Orchestrate(r) /\ Exists(request[r].task)
  <2>0. request[r].op # "deliver"
    BY <1>d, <1>4 DEF Orchestrate, SessionJustified, Justified, Delivery
  <2> DEFINE t == request[r].task
             q == [request[r] EXCEPT
                     !.step = IF PlanActive THEN "plan" ELSE "lease",
                     !.put = UnlockPut(task, t), !.unlocked = Unlocked(task, t)]
  <2>1. q.op = request[r].op /\ q.task = request[r].task /\ q.step # "idle"
        /\ q.put = UnlockPut(task, t) /\ request' = Becomes(r, q)
    BY <1>4, <1>d DEF Sessions, Orchestrate
  <2>2. \A u \in Tasks : UnlockPut(task, t)[u] \notin Doing
    BY <1>d, UnlockPutIdle
  <2> HIDE DEF q, t
  <2>3. QED
    BY <2>0, <2>1, <2>2, <1>2
<1>5. QED
  BY <1>1, <1>3, <1>4 DEF Orchestrate, TakeLease, Dispatch, Crash

LEMMA OrderNext ==
    ASSUME OrderInv, [Next]_vars
    PROVE  OrderInv'
<1>1. ASSUME NEW r \in Requests, Step(r) PROVE OrderInv'
  BY <1>1, OrderCheck, OrderCommit, OrderCascade, OrderStart, OrderOrchestrate DEF Step
<1>2. ASSUME NEW r \in Requests, NEW op \in Workload, NEW t \in Tasks, Load(r, op, t)
      PROVE OrderInv'
  BY <1>2, OrderLoad
<1>3. CASE Tick \/ UNCHANGED vars
  <2>1. UNCHANGED <<task, begun, finished, delivered, request>>
    BY <1>3 DEF Tick, vars
  <2>2. TypeOK'
    BY <1>3, TypeWorld DEF OrderInv
  <2>3. QED
    BY <2>1, <2>2, HistoryStep DEF OrderInv, SessionJustified, Justified
<1>4. QED
  BY <1>1, <1>2, <1>3, OrderOrchestrate DEF Next

(***************************************************************************)
(* No task is started, and none but a delivered one is completed, before   *)
(* all its dependencies were completed, whatever the graph, the number of  *)
(* sessions and their interleaving.                                        *)
(***************************************************************************)
THEOREM DependenciesCorrect == Spec => []DependenciesFirst
<1>1. OrderInv /\ [Next]_vars => OrderInv'
  BY OrderNext
<1>2. OrderInv => DependenciesFirst
  BY DEF OrderInv
<1>3. QED
  BY <1>1, <1>2, OrderInit, PTL DEF Spec

-----------------------------------------------------------------------------
(***************************************************************************)
(* Automation after dependencies, deliveries included.  A session past the *)
(* dependency check of complete_task carries that knowledge to the end of  *)
(* its request; a delivery has no such steps, so it does no harm here.  A  *)
(* task that a cascade has picked is queued on its own dependencies.       *)
(***************************************************************************)
AfterCompletion == {"event", "cascade", "activate", "queue", "orchestrate",
                    "plan", "lease", "score", "dispatch"}

InHook(q) == q.step \in {"hook", "settle"} /\ (q.op = "complete" \/ q.pick # {})

Earned(q, done) ==
    /\ \/ q.step \in AfterCompletion
       \/ InHook(q)
       \/ q.step = "commit" /\ q.then = "event"
       => DependsOn[q.task] \subseteq done
    /\ q.step = "commit" => /\ q.then \in {"hook", "idle", "event"}
                            /\ q.then = "hook" => q.op # "complete"
    /\ \A t \in q.unlocked : DependsOn[t] \subseteq done
    /\ q.pick # {} => q.step \in {"activate", "queue", "hook", "settle"}
    /\ \A t, u \in q.pick : t = u
    /\ q.step # "activate" => \A t \in q.pick : DependsOn[t] \subseteq done

CompletedIsFinished ==
    \A t \in Tasks : task[t].status = "completed" => t \in finished

AutomationInv ==
    /\ TypeOK
    /\ CompletedIsFinished
    /\ AutomationAfterDependencies
    /\ \A r \in Requests : Earned(request[r], finished)

LEMMA CompleteRowsFinished ==
    ASSUME CompletedIsFinished, NEW t \in Tasks, DependenciesComplete(task, t)
    PROVE  DependsOn[t] \subseteq finished
BY ConstantsType DEF CompletedIsFinished, DependenciesComplete

LEMMA EarnedIdle == \A done : Earned(IdleSession, done)
BY DEF Earned, InHook, IdleSession, AfterCompletion

\* One session moves on, rows and history follow, and what is queued is earned.
LEMMA AutomationStep ==
    ASSUME AutomationInv, TypeOK', NEW r \in Requests, NEW q,
           request' = Becomes(r, q), Earned(q, finished),
           UNCHANGED <<task, finished>> \/ Remember,
           \A t \in queued' : t \in queued \/ DependsOn[t] \subseteq finished
    PROVE  AutomationInv'
<1>1. finished \subseteq finished'
  BY DEF Remember
<1>2. CompletedIsFinished'
  BY DEF AutomationInv, CompletedIsFinished, Remember
<1>3. AutomationAfterDependencies'
  BY <1>1 DEF AutomationInv, AutomationAfterDependencies
<1>4. ASSUME NEW p \in Requests PROVE Earned(request'[p], finished')
  <2>1. request'[p] = IF p = r THEN q ELSE request[p]
    BY DEF AutomationInv, TypeOK, Becomes
  <2>2. Earned(request'[p], finished)
    BY <2>1 DEF AutomationInv
  <2>3. QED
    BY <2>2, <1>1 DEF Earned
<1>5. QED
  BY <1>2, <1>3, <1>4 DEF AutomationInv

LEMMA AutomationEnded ==
    ASSUME AutomationInv, TypeOK', NEW r \in Requests, request' = Ended(r),
           UNCHANGED <<task, finished>> \/ Remember,
           \A t \in queued' : t \in queued \/ DependsOn[t] \subseteq finished
    PROVE  AutomationInv'
<1>1. request' = Becomes(r, IdleSession)
  BY DEF Ended
<1>2. QED
  BY <1>1, EarnedIdle, AutomationStep

LEMMA AutomationPrepare ==
    ASSUME AutomationInv, TypeOK', NEW r \in Requests,
           NEW put, NEW start, NEW spent, NEW then \in {"hook", "idle", "event"},
           Prepare(r, put, start, spent, then), AfterCheck,
           request[r].step = "check",
           then = "hook" => request[r].op # "complete",
           then = "event" => DependsOn[request[r].task] \subseteq finished
    PROVE  AutomationInv'
<1> DEFINE q == [request[r] EXCEPT !.put = put, !.start = start, !.spent = spent,
                                   !.then = then, !.step = "commit"]
<1>1. request[r] \in Sessions /\ Earned(request[r], finished)
  BY DEF AutomationInv, TypeOK
<1>2. /\ q.op = request[r].op /\ q.step = "commit" /\ q.then = then
      /\ q.task = request[r].task /\ q.unlocked = request[r].unlocked
      /\ q.pick = request[r].pick
  BY <1>1 DEF Sessions
<1>3. request' = Becomes(r, q) /\ UNCHANGED <<task, finished, queued>>
  BY DEF Prepare, AfterCheck
<1> HIDE DEF q
<1>4. Earned(q, finished)
  BY <1>1, <1>2 DEF Earned, InHook, AfterCompletion
<1>5. QED
  BY <1>3, <1>4, AutomationStep

LEMMA AutomationInit == Init => AutomationInv
<1>1. SUFFICES ASSUME Init PROVE AutomationInv
  OBVIOUS
<1>2. CompletedIsFinished
  BY <1>1 DEF Init, CompletedIsFinished, NoRow
<1>3. QED
  BY <1>1, <1>2, TypeInit, EarnedIdle DEF Init, AutomationInv, AutomationAfterDependencies

LEMMA AutomationLoad ==
    ASSUME AutomationInv,
           NEW r \in Requests, NEW op \in Workload, NEW t \in Tasks, Load(r, op, t)
    PROVE  AutomationInv'
<1> DEFINE q == [request[r] EXCEPT !.op = op, !.task = t, !.seen = task[t],
                                   !.step = "check"]
<1>1. TypeOK' /\ request[r] \in Sessions /\ Earned(request[r], finished)
  BY TypeLoad DEF AutomationInv, TypeOK
<1>2. q.step = "check" /\ q.unlocked = request[r].unlocked
      /\ q.pick = request[r].pick /\ request[r].step = "idle"
  BY <1>1 DEF Sessions, Load
<1>3. request' = Becomes(r, q) /\ UNCHANGED <<task, finished, queued>>
  BY DEF Load
<1> HIDE DEF q
<1>4. Earned(q, finished)
  BY <1>1, <1>2 DEF Earned, InHook, AfterCompletion
<1>5. QED
  BY <1>1, <1>3, <1>4, AutomationStep

LEMMA AutomationCheck ==
    ASSUME AutomationInv, NEW r \in Requests,
           \/ CheckCreate(r) \/ CheckBlocked(r) \/ CheckStart(r) \/ CheckPause(r)
           \/ CheckComplete(r) \/ CheckDelete(r) \/ CheckFeedback(r)
    PROVE  AutomationInv'
<1>a. TypeOK' /\ request[r].task \in Tasks
  BY TypeCheck DEF AutomationInv, TypeOK, Sessions
<1>b. AfterCheck /\ request[r].step = "check"
  BY DEF CheckCreate, CheckBlocked, CheckStart, CheckPause, CheckComplete,
         CheckDelete, CheckFeedback, Checking
<1>1. CASE request' = Ended(r)
  BY <1>1, <1>a, <1>b, AutomationEnded DEF AfterCheck
<1>2. ASSUME NEW put, NEW start, NEW spent,
             Prepare(r, put, start, spent, "idle")
      PROVE  AutomationInv'
  BY <1>2, <1>a, <1>b, AutomationPrepare
<1>3. ASSUME NEW put, NEW start, NEW spent, request[r].op # "complete",
             Prepare(r, put, start, spent, "hook")
      PROVE  AutomationInv'
  BY <1>3, <1>a, <1>b, AutomationPrepare
<1>4. CASE CheckCreate(r)
  BY <1>4, <1>3 DEF CheckCreate, Checking
<1>5. CASE CheckBlocked(r)
  BY <1>5, <1>2 DEF CheckBlocked
<1>6. CASE CheckStart(r)
  BY <1>6, <1>1, <1>3 DEF CheckStart, Checking
<1>7. CASE CheckPause(r)
  BY <1>7, <1>1, <1>3 DEF CheckPause, Checking
<1>8. CASE CheckDelete(r) \/ CheckFeedback(r)
  BY <1>8, <1>1, <1>2 DEF CheckDelete, CheckFeedback
<1>9. CASE CheckComplete(r) /\ request' # Ended(r)
  <2>1. DependsOn[request[r].task] \subseteq finished
    BY <1>9, <1>a, CompleteRowsFinished DEF CheckComplete, AutomationInv
  <2>2. PICK put, spent : Prepare(r, put, None, spent, "event")
    BY <1>9 DEF CheckComplete
  <2>3. QED
    BY <2>1, <2>2, <1>a, <1>b, AutomationPrepare
<1>10. QED
  BY <1>1, <1>4, <1>5, <1>6, <1>7, <1>8, <1>9

LEMMA AutomationCommit ==
    ASSUME AutomationInv, NEW r \in Requests,
           Commit(r) \/ PlanCommits(r) \/ Score(r)
    PROVE  AutomationInv'
<1>a. TypeOK' /\ request[r] \in Sessions /\ Earned(request[r], finished)
  BY TypeCommit DEF AutomationInv, TypeOK
<1>b. Remember /\ UNCHANGED queued
  BY DEF Commit, PlanCommits, Score, Save
<1>1. CASE request' = Ended(r)
  BY <1>1, <1>a, <1>b, AutomationEnded
<1>2. CASE Commit(r) /\ request' # Ended(r)
  <2> DEFINE q == [request[r] EXCEPT !.step = request[r].then, !.put = Nothing,
                                     !.start = None, !.spent = None]
  <2>1. request' = Becomes(r, q) /\ request[r].then # "idle"
    BY <1>2 DEF Commit, Committed
  <2>2. /\ q.op = request[r].op /\ q.task = request[r].task
        /\ q.unlocked = request[r].unlocked /\ q.step = request[r].then
        /\ q.pick = request[r].pick
    BY <1>a DEF Sessions
  <2>3. request[r].step = "commit"
    BY <1>2 DEF Commit
  <2> HIDE DEF q
  <2>4. Earned(q, finished)
    BY <2>1, <2>2, <2>3, <1>a DEF Earned, InHook, AfterCompletion
  <2>5. QED
    BY <2>1, <2>4, <1>a, <1>b, AutomationStep
<1>3. ASSUME NEW next \in {"lease", "dispatch"}, request[r].step \in {"plan", "score"},
             request' = Becomes(r, [request[r] EXCEPT !.step = next, !.put = Nothing])
      PROVE  AutomationInv'
  <2> DEFINE q == [request[r] EXCEPT !.step = next, !.put = Nothing]
  <2>1. /\ q.op = request[r].op /\ q.task = request[r].task
        /\ q.unlocked = request[r].unlocked /\ q.step = next
        /\ q.pick = request[r].pick
    BY <1>a DEF Sessions
  <2>2. request' = Becomes(r, q)
    BY <1>3
  <2> HIDE DEF q
  <2>3. Earned(q, finished)
    BY <2>1, <1>a, <1>3 DEF Earned, InHook, AfterCompletion
  <2>4. QED
    BY <2>2, <2>3, <1>a, <1>b, AutomationStep
<1>4. QED
  BY <1>1, <1>2, <1>3 DEF PlanCommits, Score, Save

LEMMA AutomationCascade ==
    ASSUME AutomationInv, NEW r \in Requests,
           Event(r) \/ CascadeDone(r) \/ \E t \in Tasks : CascadeNext(r, t)
    PROVE  AutomationInv'
<1>a. TypeOK' /\ request[r] \in Sessions /\ Earned(request[r], finished)
  BY TypeCascade DEF AutomationInv, TypeOK
<1>b. /\ request[r].step \in {"event", "cascade"} /\ request[r].pick = {}
      /\ UNCHANGED <<task, finished, queued>>
  BY <1>a DEF Event, CascadeDone, CascadeNext, Earned
<1>c. ASSUME NEW q, request' = Becomes(r, q),
             q.op = request[r].op, q.task = request[r].task,
             q.unlocked = request[r].unlocked,
             \/ q.step \in {"cascade", "hook"} /\ q.pick = {}
             \/ q.step = "activate" /\ \E t \in Tasks : q.pick = {t}
      PROVE  AutomationInv'
  <2>1. DependsOn[request[r].task] \subseteq finished
    BY <1>a, <1>b DEF Earned, AfterCompletion
  <2>2. \A t, u \in q.pick : t = u
    BY <1>c
  <2>3. Earned(q, finished)
    BY <1>a, <1>c, <2>1, <2>2 DEF Earned
  <2>4. QED
    BY <2>3, <1>a, <1>b, <1>c, AutomationStep
<1>1. ASSUME Event(r), NEW q, request' = Becomes(r, q),
             \/ q = [request[r] EXCEPT !.step = "cascade", !.todo = ReadyInPlan]
             \/ q = [request[r] EXCEPT !.step = "hook"]
      PROVE  AutomationInv'
  <2>1. /\ q.op = request[r].op /\ q.task = request[r].task
        /\ q.unlocked = request[r].unlocked /\ q.step \in {"cascade", "hook"}
        /\ q.pick = {}
    BY <1>1, <1>a, <1>b DEF Sessions
  <2>2. QED
    BY <1>1, <2>1, <1>c
<1>2. CASE CascadeDone(r)
  <2> DEFINE q == [request[r] EXCEPT !.step = "hook"]
  <2>1. /\ q.op = request[r].op /\ q.task = request[r].task
        /\ q.unlocked = request[r].unlocked /\ q.step = "hook" /\ q.pick = {}
        /\ request' = Becomes(r, q)
    BY <1>2, <1>a, <1>b DEF Sessions, CascadeDone, To
  <2> HIDE DEF q
  <2>2. QED
    BY <2>1, <1>c
<1>3. ASSUME NEW t \in Tasks, CascadeNext(r, t), NEW q, request' = Becomes(r, q),
             \/ q = [request[r] EXCEPT !.step = "activate", !.pick = {t}]
             \/ q = [request[r] EXCEPT !.todo = @ \ {t}]
      PROVE  AutomationInv'
  <2>1. /\ q.op = request[r].op /\ q.task = request[r].task
        /\ q.unlocked = request[r].unlocked
        /\ \/ q.step = "activate" /\ q.pick = {t}
           \/ q.step = "cascade" /\ q.pick = {}
    BY <1>3, <1>a, <1>b DEF Sessions, CascadeNext
  <2>2. QED
    BY <1>3, <2>1, <1>c
<1>4. QED
  BY <1>1, <1>2, <1>3 DEF Event, CascadeNext, To

\* A start leads to its hook or the queue only if the dependencies are complete.
LEMMA ActivateEarns ==
    ASSUME TypeOK, CompletedIsFinished, NEW r \in Requests, Activate(r),
           \A t, u \in request[r].pick : t = u,
           request'[r].step # "cascade"
    PROVE  \A t \in request[r].pick : DependsOn[t] \subseteq finished
<1>1. PICK t \in request[r].pick :
        request' = CASE ~Exists(t) \/ ~DependenciesComplete(task, t) -> NextReady(r)
                     [] Exists(t) /\ DependenciesComplete(task, t)
                          /\ task[t].start = None -> To(r, "hook")
                     [] OTHER -> To(r, "queue")
  BY DEF Activate
<1>2. t \in Tasks
  BY DEF TypeOK, Sessions
<1>3. NextReady(r)[r].step = "cascade"
  BY NextReadyIs DEF Becomes, TypeOK
<1>4. DependenciesComplete(task, t)
  BY <1>1, <1>3
<1> QED
  BY <1>2, <1>4, CompleteRowsFinished

LEMMA AutomationStart ==
    ASSUME AutomationInv, NEW r \in Requests,
           Activate(r) \/ Queue(r) \/ FindUnit(r) \/ SettleUnit(r)
    PROVE  AutomationInv'
<1>1. TypeOK' /\ request[r] \in Sessions /\ Earned(request[r], finished)
      /\ request \in [Requests -> Sessions]
  BY TypeStart DEF AutomationInv, TypeOK
<1>2. UNCHANGED <<task, finished>> \/ Remember
  BY HooksKeep DEF Activate
<1>3. \A t \in queued' : t \in queued \/ DependsOn[t] \subseteq finished
  <2>1. CASE Queue(r)
    BY <2>1, <1>1 DEF Queue, Earned
  <2>2. CASE ~Queue(r)
    BY <2>2, HooksKeep DEF Activate
  <2> QED
    BY <2>1, <2>2
<1>4. CASE request' = Ended(r)
  BY <1>1, <1>2, <1>3, <1>4, AutomationEnded
<1>5. ASSUME NEW q \in Sessions, request' = Becomes(r, q), SameRequest(q, request[r]),
             StartMoves(q, request[r])
      PROVE  AutomationInv'
  <2>1. /\ q.op = request[r].op /\ q.task = request[r].task /\ q.pick \subseteq request[r].pick
        /\ q.unlocked = request[r].unlocked
    BY <1>5 DEF SameRequest
  <2>2. request'[r] = q
    BY <1>1, <1>5 DEF Becomes
  <2>3. q.step # "commit" /\ q.step # "activate"
        /\ (q.pick # {} => q.step \in {"queue", "hook", "settle"})
    BY <1>5 DEF StartMoves
  <2>4. DependsOn[q.task] \subseteq finished \/ (q.step = "settle" /\ ~InHook(q))
    BY <1>1, <1>5, <2>1 DEF Earned, StartMoves, InHook, AfterCompletion
  <2>5. \A t \in q.pick : DependsOn[t] \subseteq finished
    <3>1. CASE request[r].step # "activate"
      BY <3>1, <1>1, <2>1 DEF Earned
    <3>2. CASE request[r].step = "activate" /\ q.step # "cascade"
      <4>1. Activate(r)
        BY <3>2 DEF Queue, FindUnit, SettleUnit
      <4> QED
        BY <4>1, <3>2, <1>1, <2>1, <2>2, ActivateEarns DEF Earned, AutomationInv
    <3>3. CASE q.step = "cascade"
      BY <3>3, <2>3
    <3> QED
      BY <3>1, <3>2, <3>3
  <2>6. Earned(q, finished)
    BY <1>1, <2>1, <2>3, <2>4, <2>5 DEF Earned, AfterCompletion
  <2> QED
    BY <1>1, <1>2, <1>3, <1>5, <2>6, AutomationStep
<1> QED
  BY <1>4, <1>5, StartIs DEF AutomationInv

LEMMA AutomationOrchestrate ==
    ASSUME AutomationInv, NEW r \in Requests,
           Orchestrate(r) \/ TakeLease(r) \/ Dispatch(r) \/ Crash(r)
    PROVE  AutomationInv'
<1>a. TypeOK' /\ request[r] \in Sessions /\ Earned(request[r], finished)
      /\ request[r].task \in Tasks
  BY TypeOrchestrate, TypeWorld DEF AutomationInv, TypeOK, Sessions
<1>b. UNCHANGED <<task, finished>>
  BY DEF Orchestrate, TakeLease, Dispatch, Crash
<1>1. CASE request' = Ended(r) /\ UNCHANGED queued
  BY <1>1, <1>a, <1>b, AutomationEnded
<1>2. CASE Orchestrate(r) /\ Exists(request[r].task)
  <2> DEFINE t == request[r].task
             q == [request[r] EXCEPT
                     !.step = IF PlanActive THEN "plan" ELSE "lease",
                     !.put = UnlockPut(task, t), !.unlocked = Unlocked(task, t)]
  <2>1. q.task = request[r].task /\ q.unlocked = Unlocked(task, t)
        /\ q.step \in {"plan", "lease"} /\ request' = Becomes(r, q)
        /\ q.pick = request[r].pick
    BY <1>2, <1>a DEF Sessions, Orchestrate
  <2>2. \A u \in Unlocked(task, t) : DependsOn[u] \subseteq finished
    BY CompleteRowsFinished DEF AutomationInv, Unlocked, Candidates
  <2>3. DependsOn[request[r].task] \subseteq finished /\ UNCHANGED queued
    BY <1>2, <1>a DEF Earned, AfterCompletion, Orchestrate
  <2> HIDE DEF q, t
  <2>4. request[r].pick = {}
    BY <1>2, <1>a DEF Earned, Orchestrate
  <2>6. Earned(q, finished)
    BY <2>1, <2>2, <2>3, <2>4 DEF Earned
  <2>5. QED
    BY <2>1, <2>3, <2>6, <1>a, <1>b, AutomationStep
<1>3. ASSUME TakeLease(r), NEW s \in {"dispatch", "score"}, request' = To(r, s)
      PROVE  AutomationInv'
  <2> DEFINE q == [request[r] EXCEPT !.step = s]
  <2>1. q.op = request[r].op /\ q.task = request[r].task /\ q.step = s
        /\ q.unlocked = request[r].unlocked /\ request' = Becomes(r, q)
        /\ q.pick = request[r].pick
    BY <1>3, <1>a DEF Sessions, To
  <2>2. UNCHANGED queued /\ request[r].step = "lease"
    BY <1>3 DEF TakeLease
  <2> HIDE DEF q
  <2>3. Earned(q, finished)
    BY <2>1, <2>2, <1>a DEF Earned, InHook, AfterCompletion
  <2>4. QED
    BY <2>1, <2>2, <2>3, <1>a, <1>b, AutomationStep
<1>4. CASE Dispatch(r)
  <2>1. \A t \in {request[r].task} \cup request[r].unlocked :
          DependsOn[t] \subseteq finished
    BY <1>4, <1>a DEF Dispatch, Earned, AfterCompletion
  <2>2. \A t \in queued' : t \in queued \/ DependsOn[t] \subseteq finished
    BY <2>1, <1>4 DEF Dispatch
  <2>3. request' = Ended(r)
    BY <1>4 DEF Dispatch
  <2>4. QED
    BY <2>2, <2>3, <1>a, <1>b, AutomationEnded
<1>5. QED
  BY <1>1, <1>2, <1>3, <1>4 DEF Orchestrate, TakeLease, Crash

LEMMA AutomationNext == AutomationInv /\ [Next]_vars => AutomationInv'
<1>1. SUFFICES ASSUME AutomationInv, [Next]_vars PROVE AutomationInv'
  OBVIOUS
<1>2. ASSUME NEW r \in Requests, Step(r) PROVE AutomationInv'
  BY <1>1, <1>2, AutomationCheck, AutomationCommit, AutomationCascade,
     AutomationStart, AutomationOrchestrate DEF Step
<1>3. ASSUME NEW r \in Requests, NEW op \in Workload, NEW t \in Tasks, Load(r, op, t)
      PROVE AutomationInv'
  BY <1>1, <1>3, AutomationLoad
<1>4. CASE Tick \/ UNCHANGED vars
  <2>1. UNCHANGED <<task, finished, request, queued>>
    BY <1>4 DEF Tick, vars
  <2>2. TypeOK'
    BY <1>1, <1>4, TypeWorld DEF AutomationInv
  <2>3. QED
    BY <1>1, <2>1, <2>2 DEF AutomationInv, CompletedIsFinished,
       AutomationAfterDependencies
<1>5. QED
  BY <1>1, <1>2, <1>3, <1>4, AutomationOrchestrate DEF Next

(***************************************************************************)
(* No automation job is dispatched for a task before all its dependencies  *)
(* have been completed, deliveries of the freelance domain included.       *)
(***************************************************************************)
THEOREM AutomationCorrect == Spec => []AutomationAfterDependencies
<1>1. AutomationInv => AutomationAfterDependencies
  BY DEF AutomationInv
<1>2. QED
  BY <1>1, AutomationInit, AutomationNext, PTL DEF Spec

-----------------------------------------------------------------------------
(***************************************************************************)
(* Units settle.  A completion that has committed goes on to its hook, and *)
(* a hook whose unit nobody changes between its read and its write leaves  *)
(* a completed unit completed; a unit changed in between is `crossed`.     *)
(***************************************************************************)

\* The completion is committed, and its unit is still to be settled.
SettlingSteps == {"event", "cascade", "activate", "queue", "hook", "settle"}

Settling(q, t) == q.op = "complete" /\ q.task = t /\ q.step \in SettlingSteps

\* A creation is of a new task; only a completion, which goes on to settle the
\* unit, and a delivery write "completed", each to its own task.
CompletesItsOwn(q) ==
    /\ q.step # "idle" /\ q.op = "create" => q.task \notin Existing
    /\ \A t \in Tasks : q.put[t] # "absent"
    /\ \A t \in Tasks : q.put[t] = "completed" =>
          /\ q.task = t /\ q.step = "commit"
          /\ (q.op = "complete" /\ q.then = "event") \/ q.op = "deliver"

Settled(t) ==
    crashes = 0 /\ t \notin crossed \cup delivered /\ task[t].status = "completed" =>
        \/ unit[t] = "completed"
        \/ \E r \in Requests : Settling(request[r], t)

SettleInv ==
    /\ TypeOK
    /\ \A r \in Requests : CompletesItsOwn(request[r])
    /\ \A t \in Existing : task[t].status # "absent"
    /\ \A t \in Existing : t \in crossed \/ unit[t] # "none"
    /\ \A t \in Existing : Settled(t)

LEMMA CompletesIdle == CompletesItsOwn(IdleSession)
BY DEF CompletesItsOwn, IdleSession, Nothing, Same

\* A session moves on: what it settled is settled, or it settles it still.
LEMMA SettleStep ==
    ASSUME SettleInv, TypeOK', NEW r \in Requests, NEW q,
           request' = Becomes(r, q), CompletesItsOwn(q),
           crashes' = crashes, crossed \subseteq crossed', delivered \subseteq delivered',
           \A t \in Existing : task'[t].status # "absent",
           \A t \in Existing : t \in crossed' \/ unit'[t] # "none",
           \A t \in Existing : task'[t].status = "completed" =>
               \/ t \in crossed' \cup delivered'
               \/ unit'[t] = "completed"
               \/ Settling(q, t)
               \/ /\ task[t].status = "completed" /\ unit[t] # "completed"
                  /\ ~Settling(request[r], t)
    PROVE  SettleInv'
<1>1. \A p \in Requests : request'[p] = IF p = r THEN q ELSE request[p]
  BY DEF SettleInv, TypeOK, Becomes
<1>2. ASSUME NEW p \in Requests PROVE CompletesItsOwn(request'[p])
  BY <1>1 DEF SettleInv
<1>3. ASSUME NEW t \in Existing, crashes = 0, t \notin crossed' \cup delivered',
             task'[t].status = "completed", unit'[t] # "completed"
      PROVE  \E p \in Requests : Settling(request'[p], t)
  <2>1. CASE Settling(q, t)
    BY <1>1, <2>1
  <2>2. CASE task[t].status = "completed" /\ unit[t] # "completed" /\ ~Settling(request[r], t)
    <3>1. \E p \in Requests : Settling(request[p], t)
      BY <1>3, <2>2 DEF SettleInv, Settled
    <3> QED
      BY <1>1, <2>2, <3>1
  <2> QED
    BY <1>3, <2>1, <2>2
<1> QED
  BY <1>2, <1>3 DEF SettleInv, CompletesItsOwn, Settled, Settling

\* Rows, units and histories stay, and the session settles what it settled.
LEMMA SettleStays ==
    ASSUME SettleInv, TypeOK', NEW r \in Requests, NEW q,
           request' = Becomes(r, q), CompletesItsOwn(q),
           UNCHANGED <<task, unit, crashes, crossed, delivered>>,
           \A t \in Existing : Settling(request[r], t) => Settling(q, t)
    PROVE  SettleInv'
<1>1. /\ \A t \in Existing : task'[t].status # "absent"
      /\ \A t \in Existing : t \in crossed' \/ unit'[t] # "none"
  BY DEF SettleInv
<1>2. ASSUME NEW t \in Existing, task'[t].status = "completed"
      PROVE  \/ unit'[t] = "completed"
             \/ Settling(q, t)
             \/ /\ task[t].status = "completed" /\ unit[t] # "completed"
                /\ ~Settling(request[r], t)
  BY <1>2
<1> QED
  BY <1>1, <1>2, SettleStep

LEMMA SettleEnded ==
    ASSUME SettleInv, TypeOK', NEW r \in Requests, request' = Ended(r),
           request[r].op = "complete" => request[r].step \notin SettlingSteps,
           UNCHANGED <<task, unit, crashes, crossed, delivered>>
    PROVE  SettleInv'
<1>1. request' = Becomes(r, IdleSession)
  BY DEF Ended
<1> QED
  BY <1>1, CompletesIdle, SettleStays DEF Settling

LEMMA SettlePrepare ==
    ASSUME SettleInv, TypeOK', NEW r \in Requests,
           NEW put \in [Tasks -> Statuses \cup {Same}],
           NEW start, NEW spent, NEW then, request[r].step = "check",
           Prepare(r, put, start, spent, then), AfterCheck,
           \A t \in Tasks : put[t] # "absent",
           \A t \in Tasks : put[t] = "completed" =>
               /\ request[r].task = t
               /\ (request[r].op = "complete" /\ then = "event") \/ request[r].op = "deliver"
    PROVE  SettleInv'
<1> DEFINE q == [request[r] EXCEPT !.put = put, !.start = start, !.spent = spent,
                                   !.then = then, !.step = "commit"]
<1>1. request[r] \in Sessions /\ CompletesItsOwn(request[r])
  BY DEF SettleInv, TypeOK
<1>2. /\ q.op = request[r].op /\ q.step = "commit" /\ q.then = then
      /\ q.task = request[r].task /\ q.put = put
  BY <1>1 DEF Sessions
<1>3. request' = Becomes(r, q) /\ UNCHANGED <<task, unit, crashes, crossed, delivered>>
  BY DEF Prepare, AfterCheck
<1> HIDE DEF q
<1>4. CompletesItsOwn(q)
  BY <1>1, <1>2 DEF CompletesItsOwn
<1>5. \A t : ~Settling(request[r], t)
  BY DEF Settling, SettlingSteps
<1> QED
  BY <1>3, <1>4, <1>5, SettleStays

LEMMA SettleLoad ==
    ASSUME SettleInv,
           NEW r \in Requests, NEW op \in Workload, NEW t \in Tasks, Load(r, op, t)
    PROVE  SettleInv'
<1> DEFINE q == [request[r] EXCEPT !.op = op, !.task = t, !.seen = task[t],
                                   !.step = "check"]
<1>1. TypeOK' /\ request[r] \in Sessions /\ CompletesItsOwn(request[r])
  BY TypeLoad DEF SettleInv, TypeOK
<1>2. q.op = op /\ q.task = t /\ q.step = "check" /\ q.put = request[r].put
  BY <1>1 DEF Sessions
<1>3. /\ request' = Becomes(r, q) /\ request[r].step = "idle"
      /\ UNCHANGED <<task, unit, crashes, crossed, delivered>>
  BY DEF Load
<1>6. op = "create" => t \notin Existing
  BY DEF Load, Accepts, SettleInv
<1> HIDE DEF q
<1>4. CompletesItsOwn(q)
  BY <1>1, <1>2, <1>3, <1>6 DEF CompletesItsOwn
<1>5. \A u : ~Settling(request[r], u)
  BY <1>3 DEF Settling, SettlingSteps
<1> QED
  BY <1>1, <1>3, <1>4, <1>5, SettleStays

\* No query of the dependencies makes a task completed, or takes it away.
LEMMA UnlockCompletesNone ==
    ASSUME NEW rows \in [Tasks -> Rows], NEW t \in Tasks, NEW c \in Tasks
    PROVE  UnlockPut(rows, t)[c] \notin {"completed", "absent"}
BY DEF UnlockPut, Candidates, Change, Recompute, Same

LEMMA SettleCheck ==
    ASSUME SettleInv, NEW r \in Requests,
           \/ CheckCreate(r) \/ CheckBlocked(r) \/ CheckStart(r) \/ CheckPause(r)
           \/ CheckComplete(r) \/ CheckDelete(r) \/ CheckFeedback(r)
    PROVE  SettleInv'
<1> DEFINE t == request[r].task
           seen == request[r].seen
<1>a. /\ TypeOK' /\ request[r] \in Sessions /\ t \in Tasks /\ task \in [Tasks -> Rows]
      /\ seen.status \in Statuses /\ CompletesItsOwn(request[r])
  BY TypeCheck DEF SettleInv, TypeOK, Sessions, Rows
<1>b. AfterCheck /\ request[r].step = "check"
  BY DEF CheckCreate, CheckBlocked, CheckStart, CheckPause, CheckComplete,
         CheckDelete, CheckFeedback, Checking
<1>1. CASE request' = Ended(r)
  BY <1>1, <1>a, <1>b, SettleEnded DEF AfterCheck, SettlingSteps
<1>2. ASSUME NEW s \in (Statuses \ {"absent"}) \cup {Same}, NEW start, NEW spent, NEW then,
             Prepare(r, PutOne(t, s), start, spent, then),
             s = "completed" => request[r].op = "deliver"
      PROVE  SettleInv'
  <2>1. PutOne(t, s) \in [Tasks -> Statuses \cup {Same}]
    BY <1>a, PutOneType
  <2>2. \A u \in Tasks : PutOne(t, s)[u] # "absent"
                         /\ (PutOne(t, s)[u] = "completed" => u = t /\ s = "completed")
    BY <1>2, <1>a DEF PutOne, Nothing, Same
  <2> QED
    BY <1>2, <1>a, <1>b, <2>1, <2>2, SettlePrepare
<1>3. CASE CheckBlocked(r)
  <2>1. Change(seen.status, Recompute(seen.status, FALSE))
           \in (Statuses \ {"absent", "completed"}) \cup {Same}
    BY <1>a DEF Change, Recompute, Statuses
  <2>2. "completed" # Same
    BY DEF Same
  <2> QED
    BY <1>2, <1>3, <2>1, <2>2 DEF CheckBlocked
<1>4. CASE CheckStart(r) \/ CheckPause(r) \/ CheckDelete(r) \/ CheckFeedback(r)
  <2>1. {"in_progress", "paused", "deleted", "completed"} \subseteq Statuses \ {"absent"}
    BY DEF Statuses
  <2> QED
    BY <1>1, <1>2, <1>4, <2>1
       DEF CheckStart, CheckPause, CheckDelete, CheckFeedback, Checking
<1>5. CASE CheckComplete(r) /\ request' # Ended(r)
  <2> DEFINE put == [UnlockPut(Flushed(t), t) EXCEPT ![t] = "completed"]
  <2>1. Flushed(t) \in [Tasks -> Rows]
    BY <1>a DEF Flushed, Rows, Statuses
  <2>2. put \in [Tasks -> Statuses \cup {Same}]
    BY <2>1, <1>a, UnlockPutType DEF Statuses
  <2>3. \A u \in Tasks : put[u] # "absent" /\ (put[u] = "completed" => u = t)
    BY <2>1, <1>a, UnlockPutType, UnlockCompletesNone
  <2>4. PICK spent : Prepare(r, put, None, spent, "event")
    BY <1>5 DEF CheckComplete
  <2>5. request[r].op = "complete"
    BY <1>5 DEF CheckComplete, Checking
  <2> HIDE DEF put
  <2> QED
    BY <2>2, <2>3, <2>4, <2>5, <1>a, <1>b, SettlePrepare
<1>6. CASE CheckCreate(r)
  <2>1. Recompute("pending", DependenciesComplete(task, t)) \in {"pending", "blocked"}
    BY DEF Recompute
  <2>2. {"pending", "blocked"} \subseteq Statuses \ {"absent", "completed"}
    BY DEF Statuses
  <2> QED
    BY <1>2, <1>6, <2>1, <2>2 DEF CheckCreate
<1> QED
  BY <1>1, <1>3, <1>4, <1>5, <1>6

LEMMA SettleCommit ==
    ASSUME SettleInv, NEW r \in Requests, Commit(r) \/ PlanCommits(r) \/ Score(r)
    PROVE  SettleInv'
<1>a. /\ TypeOK' /\ request[r] \in Sessions /\ CompletesItsOwn(request[r])
      /\ Existing \subseteq Tasks
  BY TypeCommit, ConstantsAssumption DEF SettleInv, TypeOK
<1>b. /\ UNCHANGED <<unit, crashes, crossed>> /\ delivered \subseteq delivered'
      /\ task' = task \/ task' = Written(r)
  BY DEF Commit, PlanCommits, Score, Save
<1>c. \A t : ~Settling(request[r], t)
  BY DEF Commit, PlanCommits, Score, Settling, SettlingSteps
<1>d. \A t \in Tasks : task'[t].status = task[t].status
         \/ (task'[t].status = request[r].put[t] /\ task' = Written(r))
  <2>1. \A t \in Tasks : Written(r)[t].status =
           IF request[r].put[t] = Same THEN task[t].status ELSE request[r].put[t]
    BY DEF Written
  <2>2. CASE task' = task
    BY <2>2
  <2>3. CASE task' = Written(r)
    BY <2>1, <2>3
  <2> QED
    BY <1>b, <2>2, <2>3
<1>e. /\ \A t \in Existing : task'[t].status # "absent"
      /\ \A t \in Existing : t \in crossed' \/ unit'[t] # "none"
  BY <1>a, <1>b, <1>d DEF SettleInv, CompletesItsOwn
<1>f. ASSUME NEW q, request' = Becomes(r, q), CompletesItsOwn(q),
             \A t \in Existing : task'[t].status = "completed" =>
                \/ task[t].status = "completed"
                \/ Settling(q, t)
                \/ t \in delivered'
      PROVE  SettleInv'
  BY <1>a, <1>b, <1>c, <1>e, <1>f, SettleStep
<1>1. CASE Commit(r) /\ request' = Committed(r) /\ request[r].then # "idle" /\ Missing(r) = {}
  <2> DEFINE q == [request[r] EXCEPT !.step = request[r].then, !.put = Nothing,
                                     !.start = None, !.spent = None]
  <2>1. request' = Becomes(r, q)
    BY <1>1 DEF Committed
  <2>2. /\ q.op = request[r].op /\ q.task = request[r].task
        /\ q.put = Nothing /\ q.step = request[r].then
    BY <1>a DEF Sessions
  <2>3. request[r].step = "commit" /\ delivered' = delivered \cup Delivers(r)
    BY <1>1 DEF Commit
  <2> HIDE DEF q
  <2>4. CompletesItsOwn(q)
    BY <2>2, <2>3, <1>a DEF CompletesItsOwn, Nothing, Same
  <2>5. \A t \in Tasks : request[r].put[t] = "completed" =>
            Settling(q, t) \/ t \in Delivers(r)
    BY <1>1, <2>2, <1>a DEF CompletesItsOwn, Settling, SettlingSteps, Delivers
  <2> QED
    BY <2>1, <2>3, <2>4, <2>5, <1>a, <1>d, <1>f
<1>2. ASSUME request' = Ended(r), Commit(r) PROVE SettleInv'
  <2>1. request' = Becomes(r, IdleSession)
    BY <1>2 DEF Ended
  <2>2. ASSUME NEW t \in Existing, task'[t].status = "completed", task[t].status # "completed"
        PROVE  t \in delivered'
    <3>1. request[r].put[t] = "completed" /\ task' # task
      BY <1>a, <1>d, <2>2
    <3>2. Missing(r) = {} /\ delivered' = delivered \cup Delivers(r)
      BY <1>2, <3>1 DEF Commit
    <3>3. CASE request[r].then = "idle"
      BY <1>a, <3>1, <3>2, <3>3 DEF CompletesItsOwn, Delivers
    <3>4. CASE request[r].op = "deliver"
      BY <1>a, <3>1, <3>2, <3>4 DEF CompletesItsOwn, Delivers
    <3>5. CASE request[r].then # "idle" /\ request[r].op # "deliver"
      <4> DEFINE q == [request[r] EXCEPT !.step = request[r].then, !.put = Nothing,
                                         !.start = None, !.spent = None]
      <4>0. request' = Becomes(r, q)
        BY <1>2, <3>2, <3>5 DEF Commit, Committed
      <4>3. q.step = request[r].then
        BY <1>a DEF Sessions
      <4> HIDE DEF q
      <4>1. request'[r].step = request[r].then
        BY <4>0, <4>3 DEF Becomes, SettleInv, TypeOK
      <4>2. request'[r].step = "idle"
        BY <2>1 DEF Becomes, IdleSession, SettleInv, TypeOK
      <4> QED
        BY <4>1, <4>2, <3>5
    <3> QED
      BY <3>3, <3>4, <3>5
  <2> QED
    BY <2>1, <2>2, <1>f, CompletesIdle
<1>5. ASSUME NEW q, request[r].step \in {"plan", "score"}, request' = Becomes(r, q),
             q.op = request[r].op, q.task = request[r].task, q.put = Nothing
      PROVE  SettleInv'
  <2>3. CompletesItsOwn(q)
    BY <1>5, <1>a DEF CompletesItsOwn, Nothing, Same
  <2>4. \A t \in Existing : task'[t].status = "completed" => task[t].status = "completed"
    BY <1>5, <1>a, <1>d DEF CompletesItsOwn
  <2> QED
    BY <1>5, <2>3, <2>4, <1>f
<1>6. CASE Commit(r)
  <2>1. request' = Ended(r) \/ (request' = Committed(r) /\ Missing(r) = {})
    BY <1>6 DEF Commit
  <2> QED
    BY <1>1, <1>2, <1>6, <2>1 DEF Committed
<1>7. CASE PlanCommits(r) \/ Score(r)
  <2>1. PICK next \in {"lease", "dispatch"} :
          /\ request' = Becomes(r, [request[r] EXCEPT !.step = next, !.put = Nothing])
          /\ request[r].step \in {"plan", "score"}
    BY <1>7 DEF PlanCommits, Score, Save
  <2> DEFINE q == [request[r] EXCEPT !.step = next, !.put = Nothing]
  <2>2. q.op = request[r].op /\ q.task = request[r].task /\ q.put = Nothing
        /\ request' = Becomes(r, q)
    BY <2>1, <1>a DEF Sessions
  <2> HIDE DEF q
  <2> QED
    BY <1>5, <2>1, <2>2
<1> QED
  BY <1>6, <1>7

\* A step of a completion that writes no row of its own.
LEMMA SettleMove ==
    ASSUME SettleInv, TypeOK', NEW r \in Requests, NEW q,
           request' = Becomes(r, q), UNCHANGED <<task, unit, crashes, crossed, delivered>>,
           q.op = request[r].op, q.task = request[r].task, request[r].step # "idle",
           \A t \in Tasks : q.put[t] \notin {"completed", "absent"},
           q.step \in SettlingSteps \/ request[r].step \notin SettlingSteps
    PROVE  SettleInv'
<1>1. CompletesItsOwn(q)
  BY DEF SettleInv, CompletesItsOwn
<1>2. \A t : Settling(request[r], t) => Settling(q, t)
  BY DEF Settling
<1> QED
  BY <1>1, <1>2, SettleStays

LEMMA SettleCascade ==
    ASSUME SettleInv, NEW r \in Requests,
           Event(r) \/ CascadeDone(r) \/ \E t \in Tasks : CascadeNext(r, t)
    PROVE  SettleInv'
<1>a. TypeOK' /\ request[r] \in Sessions /\ CompletesItsOwn(request[r])
  BY TypeCascade DEF SettleInv, TypeOK
<1>b. /\ UNCHANGED <<task, unit, crashes, crossed, delivered>>
      /\ request[r].step \in {"event", "cascade"}
      /\ \A t \in Tasks : request[r].put[t] \notin {"completed", "absent"}
  BY <1>a DEF Event, CascadeDone, CascadeNext, CompletesItsOwn
<1>1. ASSUME NEW q, request' = Becomes(r, q),
             \/ q = [request[r] EXCEPT !.step = "cascade", !.todo = ReadyInPlan]
             \/ q = [request[r] EXCEPT !.step = "hook"]
             \/ \E t \in Tasks : q = [request[r] EXCEPT !.step = "activate", !.pick = {t}]
             \/ /\ request[r].step = "cascade"
                /\ \E t \in Tasks : q = [request[r] EXCEPT !.todo = @ \ {t}]
      PROVE  SettleInv'
  <2>1. /\ q.op = request[r].op /\ q.task = request[r].task /\ q.put = request[r].put
        /\ q.step \in {"cascade", "activate", "hook"}
    BY <1>1, <1>a DEF Sessions
  <2> QED
    BY <1>a, <1>b, <1>1, <2>1, SettleMove DEF SettlingSteps
<1>2. CASE Event(r)
  BY <1>1, <1>2 DEF Event, To
<1>3. CASE CascadeDone(r)
  BY <1>1, <1>3 DEF CascadeDone, To
<1>4. ASSUME NEW t \in Tasks, CascadeNext(r, t) PROVE SettleInv'
  BY <1>1, <1>4 DEF CascadeNext
<1> QED
  BY <1>2, <1>3, <1>4

\* What the cascade starts is in progress: its unit has nothing to settle.
LEMMA StartedCompletesNone ==
    ASSUME TypeOK, NEW t \in Tasks, NEW u \in Tasks
    PROVE  \/ Started(t)[u].status = task[u].status
           \/ Started(t)[u].status \notin {"completed", "absent"}
<1>1. task[t] \in Rows /\ task \in [Tasks -> Rows]
  BY DEF TypeOK
<1>2. CASE u # t
  BY <1>1, <1>2 DEF Started
<1>3. CASE u = t /\ ~DependenciesComplete(task, t)
  <2>1. Started(t) = [task EXCEPT ![t].status = Recompute(@, FALSE)]
    BY <1>3 DEF Started
  <2>2. Started(t)[t].status = Recompute(task[t].status, FALSE)
    BY <2>1, <1>1 DEF Rows
  <2> QED
    BY <1>3, <2>2 DEF Recompute
<1>4. CASE u = t /\ DependenciesComplete(task, t) /\ task[t].start = None
  <2>1. Started(t) = [task EXCEPT ![t].status = "in_progress", ![t].start = clock]
    BY <1>4 DEF Started
  <2>2. Started(t)[t].status = "in_progress"
    BY <2>1, <1>1 DEF Rows
  <2> QED
    BY <1>4, <2>2
<1>5. CASE u = t /\ DependenciesComplete(task, t) /\ task[t].start # None
  BY <1>5 DEF Started
<1> QED
  BY <1>2, <1>3, <1>4, <1>5

\* The sessions of a start in the cascade, and of a hook.
LEMMA StartCompletes ==
    ASSUME SettleInv, NEW r \in Requests, NEW q, SameRequest(q, request[r]),
           StartMoves(q, request[r])
    PROVE  CompletesItsOwn(q)
BY DEF SettleInv, CompletesItsOwn, SameRequest, StartMoves

LEMMA SettleActivate ==
    ASSUME SettleInv, NEW r \in Requests, Activate(r)
    PROVE  SettleInv'
<1>1. /\ TypeOK' /\ request[r].step = "activate" /\ Existing \subseteq Tasks
      /\ UNCHANGED <<unit, crashes, crossed, delivered>>
  BY TypeStart, ConstantsAssumption DEF SettleInv, Activate
<1>2. PICK q \in Sessions : /\ request' = Becomes(r, q) /\ SameRequest(q, request[r])
                            /\ StartMoves(q, request[r])
  BY <1>1, StartIs DEF SettleInv
<1>3. CompletesItsOwn(q)
  BY <1>2, StartCompletes
<1>4. \A u : Settling(request[r], u) => Settling(q, u)
  BY <1>1, <1>2 DEF Settling, SettlingSteps, SameRequest, StartMoves
<1>5. ASSUME NEW u \in Tasks
      PROVE  task'[u].status = task[u].status \/ task'[u].status \notin {"completed", "absent"}
  <2>1. PICK t \in request[r].pick : task' = IF Exists(t) THEN Started(t) ELSE task
    BY DEF Activate
  <2>2. t \in Tasks
    BY DEF SettleInv, TypeOK, Sessions
  <2> QED
    BY <2>1, <2>2, StartedCompletesNone DEF SettleInv
<1> QED
  BY <1>1, <1>2, <1>3, <1>4, <1>5, SettleStep DEF SettleInv

LEMMA SettleFind ==
    ASSUME SettleInv, NEW r \in Requests, Queue(r) \/ FindUnit(r)
    PROVE  SettleInv'
<1>1. /\ TypeOK' /\ UNCHANGED <<task, unit, crashes, crossed, delivered>>
      /\ request[r].step \in {"queue", "hook"}
  BY TypeStart DEF SettleInv, Queue, FindUnit
<1>2. CASE request' = Ended(r) /\ request[r].op # "complete"
  BY <1>1, <1>2, SettleEnded
<1>3. ASSUME NEW q \in Sessions, request' = Becomes(r, q), SameRequest(q, request[r]),
             StartMoves(q, request[r])
      PROVE  SettleInv'
  <2>1. CompletesItsOwn(q)
    BY <1>3, StartCompletes
  <2>2. CASE q.step \in SettlingSteps
    <3>1. \A u : Settling(request[r], u) => Settling(q, u)
      BY <1>3, <2>2 DEF Settling, SameRequest
    <3> QED
      BY <1>1, <1>3, <2>1, <3>1, SettleStays
  <2>3. CASE q.step \notin SettlingSteps
    <3>1. FindUnit(r) /\ request[r].pick = {} /\ request[r].op = "complete" /\ q.step = "orchestrate"
      BY <1>1, <1>3, <2>3 DEF StartMoves, SettlingSteps, SameRequest, Queue
    <3>2. PICK t \in Subject(r) :
            request' = IF unit[t] = "none" /\ HookOp(r) # "create" THEN AfterHook(r)
                       ELSE Becomes(r, [request[r] EXCEPT !.step = "settle", !.eu = unit[t]])
      BY <3>1 DEF FindUnit
    <3>3. t = request[r].task
      BY <3>1, <3>2 DEF Subject
    <3>4. unit[t] = "none"
      <4>1. request \in [Requests -> Sessions] /\ request'[r] = q
        BY <1>3 DEF SettleInv, TypeOK, Becomes
      <4>2. [request[r] EXCEPT !.step = "settle", !.eu = unit[t]].step = "settle"
        BY <4>1 DEF Sessions
      <4>3. request' = Becomes(r, [request[r] EXCEPT !.step = "settle", !.eu = unit[t]])
              => request'[r].step = "settle"
        BY <4>1, <4>2 DEF Becomes
      <4> QED
        BY <3>1, <3>2, <4>1, <4>3
    <3>5. \A u \in Existing : Settling(request[r], u) => u \in crossed
      BY <3>3, <3>4 DEF Settling, SettleInv
    <3> QED
      BY <1>1, <1>3, <2>1, <3>5, SettleStep DEF SettleInv
  <2> QED
    BY <2>2, <2>3
<1> QED
  BY <1>2, <1>3, <1>1, StartIs DEF SettleInv

\* The hook of a completion settles the unit it read, waiting or not; a unit
\* that is settled stays so, whichever hook comes after.
LEMMA SettleUnits ==
    ASSUME SettleInv, NEW r \in Requests, SettleUnit(r)
    PROVE  SettleInv'
<1>1. /\ TypeOK' /\ UNCHANGED <<task, crashes, delivered>> /\ request[r].step = "settle"
      /\ request[r] \in Sessions /\ CompletesItsOwn(request[r])
      /\ unit \in [Tasks -> Units] /\ Existing \subseteq Tasks
  BY TypeStart, ConstantsAssumption DEF SettleInv, SettleUnit, TypeOK
<1>2. PICK t \in Subject(r) : \E old \in {request[r].eu, unit[t]} :
        /\ unit' = IF HookUnit(HookOp(r), request[r].eu, old) = old THEN unit
                     ELSE [unit EXCEPT ![t] = HookUnit(HookOp(r), request[r].eu, old)]
        /\ crossed' = IF unit[t] = request[r].eu THEN crossed ELSE crossed \cup {t}
  BY DEF SettleUnit
<1>3. t \in Tasks /\ (request[r].pick = {} => t = request[r].task)
  BY <1>1, <1>2 DEF Subject, Sessions
<1>4. HookOp(r) = "create" => t \notin Existing
  BY <1>1, <1>3 DEF HookOp, CompletesItsOwn
<1>5. crossed \subseteq crossed' /\ \A u \in Tasks : u # t => unit'[u] = unit[u]
  BY <1>1, <1>2, <1>3
<1>6. CASE t \in crossed' \/ t \notin Existing
  <2>1. \A u \in Existing : u \in crossed' \/ (unit'[u] = unit[u] /\ u # t)
    BY <1>1, <1>5, <1>6
  <2>2. CASE request' = Ended(r) /\ request[r].op # "complete"
    <3>1. request' = Becomes(r, IdleSession) /\ \A u : ~Settling(request[r], u)
      BY <2>2 DEF Ended, Settling
    <3> QED
      BY <1>1, <1>5, <2>1, <3>1, CompletesIdle, SettleStep DEF SettleInv
  <2>3. ASSUME NEW q \in Sessions, request' = Becomes(r, q), SameRequest(q, request[r]),
               StartMoves(q, request[r])
        PROVE  SettleInv'
    <3>1. CompletesItsOwn(q)
      BY <2>3, StartCompletes
    <3>2. \A u \in Existing : Settling(request[r], u) => Settling(q, u) \/ u = t
      BY <1>1, <1>3, <2>3 DEF Settling, SettlingSteps, SameRequest, StartMoves
    <3> QED
      BY <1>1, <1>5, <2>1, <2>3, <3>1, <3>2, SettleStep DEF SettleInv
  <2> QED
    BY <2>2, <2>3, StartIs DEF SettleInv
<1>7. CASE t \notin crossed' /\ t \in Existing
  <2>1. unit[t] = request[r].eu /\ crossed' = crossed /\ unit[t] # "none"
    BY <1>2, <1>7 DEF SettleInv
  <2>2. /\ HookOp(r) # "create"
        /\ unit'[t] = HookUnit(HookOp(r), unit[t], unit[t])
    BY <1>1, <1>2, <1>3, <1>4, <1>7, <2>1
  <2>3. /\ unit'[t] # "none"
        /\ unit[t] = "completed" => unit'[t] = "completed"
        /\ HookOp(r) = "complete" => unit'[t] = "completed"
    BY <2>1, <2>2 DEF HookUnit, UpdateStatus, Resume
  <2>4. CASE request' = Ended(r) /\ request[r].op # "complete"
    <3>1. request' = Becomes(r, IdleSession) /\ \A u : ~Settling(request[r], u)
      BY <2>4 DEF Ended, Settling
    <3> QED
      BY <1>1, <1>5, <2>3, <3>1, CompletesIdle, SettleStep DEF SettleInv
  <2>5. ASSUME NEW q \in Sessions, request' = Becomes(r, q), SameRequest(q, request[r]),
               StartMoves(q, request[r])
        PROVE  SettleInv'
    <3>1. CompletesItsOwn(q)
      BY <2>5, StartCompletes
    <3>2. ASSUME NEW u \in Existing, Settling(request[r], u)
          PROVE  Settling(q, u) \/ (u = t /\ HookOp(r) = "complete")
      BY <1>1, <1>3, <2>5, <3>2 DEF Settling, SettlingSteps, SameRequest, StartMoves, HookOp
    <3> QED
      BY <1>1, <1>5, <2>3, <2>5, <3>1, <3>2, SettleStep DEF SettleInv
  <2> QED
    BY <2>4, <2>5, StartIs DEF SettleInv
<1> QED
  BY <1>6, <1>7

LEMMA SettleOrchestrate ==
    ASSUME SettleInv, NEW r \in Requests, Orchestrate(r) \/ TakeLease(r) \/ Dispatch(r)
    PROVE  SettleInv'
<1>a. /\ TypeOK' /\ request[r] \in Sessions /\ CompletesItsOwn(request[r])
      /\ request[r].task \in Tasks /\ task \in [Tasks -> Rows]
  BY TypeOrchestrate DEF SettleInv, TypeOK, Sessions
<1>b. /\ UNCHANGED <<task, unit, crashes, crossed, delivered>>
      /\ request[r].step \in {"orchestrate", "lease", "dispatch"}
      /\ request[r].step \notin SettlingSteps
      /\ \A t \in Tasks : request[r].put[t] \notin {"completed", "absent"}
  BY <1>a DEF Orchestrate, TakeLease, Dispatch, CompletesItsOwn, SettlingSteps
<1>1. CASE request' = Ended(r)
  BY <1>1, <1>a, <1>b, SettleEnded
<1>2. ASSUME NEW q, request' = Becomes(r, q),
             \/ q = [request[r] EXCEPT
                       !.step = IF PlanActive THEN "plan" ELSE "lease",
                       !.put = UnlockPut(task, request[r].task),
                       !.unlocked = Unlocked(task, request[r].task)]
             \/ \E s \in {"dispatch", "score"} : q = [request[r] EXCEPT !.step = s]
      PROVE  SettleInv'
  <2>1. /\ q.op = request[r].op /\ q.task = request[r].task
        /\ q.put \in {request[r].put, UnlockPut(task, request[r].task)}
    BY <1>2, <1>a DEF Sessions
  <2>3. \A t \in Tasks : q.put[t] \notin {"completed", "absent"}
    BY <1>a, <1>b, <2>1, UnlockCompletesNone
  <2> QED
    BY <1>2, <1>a, <1>b, <2>1, <2>3, SettleMove
<1> QED
  BY <1>1, <1>2 DEF Orchestrate, TakeLease, Dispatch, To

LEMMA SettleInit == Init => SettleInv
<1>1. SUFFICES ASSUME Init PROVE SettleInv
  OBVIOUS
<1>2. \A t \in Tasks : task[t].status # "completed"
  BY <1>1 DEF Init, NoRow
<1>3. \A r \in Requests : CompletesItsOwn(request[r])
  BY <1>1, CompletesIdle DEF Init
<1>4. Existing \subseteq Tasks
  BY ConstantsAssumption
<1>5. \A t \in Existing : task[t].status # "absent" /\ unit[t] # "none"
  BY <1>1, <1>4 DEF Init, NoRow
<1> QED
  BY <1>1, <1>2, <1>3, <1>4, <1>5, TypeInit DEF SettleInv, Settled

LEMMA SettleCrash ==
    ASSUME SettleInv, NEW r \in Requests, Crash(r)
    PROVE  SettleInv'
<1>1. TypeOK' /\ UNCHANGED <<task, unit, crossed, delivered>> /\ crashes' # 0
  BY TypeWorld DEF SettleInv, Crash, TypeOK
<1>2. ASSUME NEW p \in Requests PROVE CompletesItsOwn(request'[p])
  BY CompletesIdle DEF Crash, Ended, Becomes, SettleInv, TypeOK
<1> QED
  BY <1>1, <1>2 DEF SettleInv, Settled, CompletesItsOwn

LEMMA SettleNext == SettleInv /\ [Next]_vars => SettleInv'
<1>1. SUFFICES ASSUME SettleInv, [Next]_vars PROVE SettleInv'
  OBVIOUS
<1>2. ASSUME NEW r \in Requests, Step(r) PROVE SettleInv'
  BY <1>1, <1>2, SettleCheck, SettleCommit, SettleCascade, SettleActivate, SettleFind,
     SettleUnits, SettleOrchestrate DEF Step
<1>3. ASSUME NEW r \in Requests, NEW op \in Workload, NEW t \in Tasks, Load(r, op, t)
      PROVE SettleInv'
  BY <1>1, <1>3, SettleLoad
<1>4. CASE Tick \/ UNCHANGED vars
  <2>1. UNCHANGED <<task, unit, request, crashes, crossed, delivered>>
    BY <1>4 DEF Tick, vars
  <2>2. TypeOK'
    BY <1>1, <1>4, TypeWorld DEF SettleInv
  <2> QED
    BY <1>1, <2>1, <2>2 DEF SettleInv, Settled, Settling, CompletesItsOwn
<1> QED
  BY <1>1, <1>2, <1>3, <1>4, SettleCrash DEF Next

(***************************************************************************)
(* The unit of a completed task is completed once all requests have ended, *)
(* paused tasks and double completions included, whatever operations       *)
(* interleave; except where a unit changed between a hook's read and its   *)
(* write, a process died, or an order completed the task.                  *)
(***************************************************************************)
THEOREM UnitsCorrect == Spec => []UnitSettles
<1>1. SettleInv => UnitSettles
  <2>1. SUFFICES ASSUME SettleInv, Quiet, crashes = 0,
                        NEW t \in Existing \ (crossed \cup delivered),
                        task[t].status = "completed"
                 PROVE  unit[t] = "completed"
    BY DEF UnitSettles
  <2>2. \A r \in Requests : ~Settling(request[r], t)
    BY <2>1 DEF Quiet, Settling, SettlingSteps
  <2> QED
    BY <2>1, <2>2 DEF SettleInv, Settled
<1> QED
  BY <1>1, SettleInit, SettleNext, PTL DEF Spec

-----------------------------------------------------------------------------
(* Nothing stays blocked.                                                  *)

\* Tasks whose dependencies depend on nothing and are started by nobody, and
\* those dependencies.
Simple ==
    {t \in Tasks : \A d \in DependsOn[t] : DependsOn[d] = {} /\ d \notin Automated}

Leading == UNION {DependsOn[t] : t \in Simple}

There(rows, t) == rows[t].status \notin {"absent", "deleted"}

\* A dependency is completed for good, and a simple task that is not blocked
\* has completed dependencies.
RowsFlow(rows) ==
    \A t \in Tasks :
        /\ rows[t].status # "deleted"
        /\ t \in Leading => rows[t].status \in {"absent", "pending", "completed"}
        /\ t \in Simple /\ rows[t].status \notin {"absent", "blocked"} =>
              DependenciesComplete(rows, t)

\* What a session read before its check still justifies what it will write.
Reads(q, rows) ==
    /\ q.step # "idle" => q.op \in {"pause", "complete"} /\ There(rows, q.task)
    /\ q.step = "check" =>
          /\ q.task \in Leading => q.seen.status # "in_progress"
          /\ q.task \in Simple /\ q.seen.status # "blocked" =>
                DependenciesComplete(rows, q.task)
    /\ q.todo \cup q.pick \subseteq Automated
    /\ q.then \in {"idle", "hook", "event"}

\* What a session is about to write blocks no simple task, and touches a
\* dependency only to complete it.
Puts(q, rows) ==
    \A t \in Tasks : q.put[t] # Same =>
        /\ There(rows, t) /\ q.put[t] \notin {"absent", "deleted"}
        /\ q.put[t] = "completed" =>
              q.op = "complete" /\ q.task = t /\ q.step = "commit" /\ q.then = "event"
        /\ t \in Leading => q.put[t] = "completed"
        /\ t \in Simple =>
              /\ q.put[t] # "blocked"
              /\ \A d \in DependsOn[t] :
                    rows[d].status = "completed" \/ q.put[d] = "completed"

\* The session will look for the task again, or has its new status in hand.
Unblocks(q, t) ==
    /\ q.op = "complete" /\ q.task \in DependsOn[t]
    /\ \/ q.step \in {"event", "cascade", "activate", "queue", "hook", "settle",
                      "orchestrate"}
       \/ q.step = "plan" /\ q.put[t] = "pending"

Stuck(rows, t) == rows[t].status = "blocked" /\ DependenciesComplete(rows, t)

FlowInv ==
    /\ TypeOK
    /\ RowsFlow(task)
    /\ \A r \in Requests : Reads(request[r], task) /\ Puts(request[r], task)
    /\ \A t \in Simple : Stuck(task, t) => \E r \in Requests : Unblocks(request[r], t)

\* Tasks that are there stay, and what a simple task waits for stays completed.
Advances ==
    /\ \A t \in Tasks : There(task, t) => There(task', t)
    /\ \A t \in Leading : task[t].status = "completed" => task'[t].status = "completed"

LEMMA LeadingType ==
    /\ Leading \subseteq Tasks
    /\ \A d \in Leading : DependsOn[d] = {} /\ d \notin Automated
    /\ \A t \in Simple : t \in Tasks /\ DependsOn[t] \subseteq Leading
BY ConstantsType DEF Leading, Simple

LEMMA FlowIdle == \A rows : Reads(IdleSession, rows) /\ Puts(IdleSession, rows)
BY DEF Reads, Puts, IdleSession, Nothing

\* One session moves on while the rows advance; whoever was stuck is still
\* looked after, by this session or by another.
LEMMA FlowStep ==
    ASSUME FlowInv, TypeOK', NEW r \in Requests, NEW q, request' = Becomes(r, q),
           RowsFlow(task'), Advances, Reads(q, task'), Puts(q, task'),
           \A t \in Simple : Stuck(task', t) =>
               Unblocks(q, t) \/ (Stuck(task, t) /\ ~Unblocks(request[r], t))
    PROVE  FlowInv'
<1>1. \A p \in Requests : request'[p] = IF p = r THEN q ELSE request[p]
  BY DEF FlowInv, TypeOK, Becomes
<1>2. ASSUME NEW p \in Requests PROVE Reads(request'[p], task') /\ Puts(request'[p], task')
  <2>1. CASE p = r
    BY <1>1, <2>1
  <2>2. CASE p # r
    <3>1. /\ request'[p] = request[p] /\ request[p] \in Sessions
          /\ Reads(request[p], task) /\ Puts(request[p], task) /\ request[p].task \in Tasks
      BY <1>1, <2>2 DEF FlowInv, TypeOK, Sessions
    <3>2. \A t \in Simple : DependenciesComplete(task, t) => DependenciesComplete(task', t)
      BY LeadingType DEF Advances, DependenciesComplete
    <3>3. Reads(request[p], task')
      BY <3>1, <3>2 DEF Reads, Advances
    <3>4. \A t \in Simple : \A d \in DependsOn[t] :
             task[d].status = "completed" => task'[d].status = "completed"
      BY LeadingType DEF Advances
    <3>5. Puts(request[p], task')
      BY <3>1, <3>4 DEF Puts, Advances
    <3> QED
      BY <3>1, <3>3, <3>5
  <2> QED
    BY <2>1, <2>2
<1>3. ASSUME NEW t \in Simple, Stuck(task', t)
      PROVE  \E p \in Requests : Unblocks(request'[p], t)
  <2>1. CASE Unblocks(q, t)
    BY <1>1, <2>1
  <2>2. CASE Stuck(task, t) /\ ~Unblocks(request[r], t)
    <3>1. PICK p \in Requests : Unblocks(request[p], t)
      BY <2>2 DEF FlowInv
    <3> QED
      BY <1>1, <2>2, <3>1
  <2> QED
    BY <1>3, <2>1, <2>2
<1> QED
  BY <1>2, <1>3 DEF FlowInv, RowsFlow, Reads, Puts, There, Stuck, Unblocks,
     DependenciesComplete

LEMMA FlowMove ==
    ASSUME FlowInv, TypeOK', NEW r \in Requests, NEW q, request' = Becomes(r, q),
           UNCHANGED task, Reads(q, task), Puts(q, task),
           \A t \in Simple : Stuck(task, t) /\ Unblocks(request[r], t) => Unblocks(q, t)
    PROVE  FlowInv'
<1>1. RowsFlow(task') /\ Advances
  BY DEF FlowInv, Advances
<1>2. \A t : Stuck(task', t) <=> Stuck(task, t)
  OBVIOUS
<1> QED
  BY <1>1, <1>2, FlowStep

LEMMA FlowEnded ==
    ASSUME FlowInv, TypeOK', NEW r \in Requests, request' = Ended(r),
           UNCHANGED task, \A t \in Simple : ~Unblocks(request[r], t)
    PROVE  FlowInv'
BY FlowIdle, FlowMove DEF Ended

LEMMA PutsKept ==
    ASSUME FlowInv, NEW r \in Requests, NEW q,
           q.put = request[r].put, request[r].step # "commit"
    PROVE  Puts(q, task)
BY DEF FlowInv, Puts

LEMMA FlowLoad ==
    ASSUME FlowInv, Workload \subseteq {"pause", "complete"},
           NEW r \in Requests, NEW op \in Workload, NEW t \in Tasks, Load(r, op, t)
    PROVE  FlowInv'
<1> DEFINE q == [request[r] EXCEPT !.op = op, !.task = t, !.seen = task[t],
                                   !.step = "check"]
<1>1. TypeOK' /\ request[r] \in Sessions
  BY TypeLoad DEF FlowInv, TypeOK
<1>2. /\ q.op = op /\ q.task = t /\ q.seen = task[t] /\ q.step = "check"
      /\ q.put = request[r].put /\ q.todo = request[r].todo /\ q.pick = request[r].pick
      /\ q.then = request[r].then
  BY <1>1 DEF Sessions
<1>3. /\ request' = Becomes(r, q) /\ UNCHANGED task
      /\ request[r].step = "idle" /\ There(task, t)
  BY DEF Load, Accepts, Exists, There
<1> HIDE DEF q
<1>4. Puts(q, task)
  BY <1>2, <1>3, PutsKept
<1>5. Reads(q, task)
  BY <1>2, <1>3 DEF Reads, FlowInv, RowsFlow, There
<1>6. \A u : ~Unblocks(request[r], u)
  BY <1>3 DEF Unblocks
<1> QED
  BY <1>1, <1>3, <1>4, <1>5, <1>6, FlowMove

\* What unlocking writes: "pending" to a blocked task whose dependencies are
\* completed, "blocked" to an open one whose are not.
LEMMA UnlockPutIs ==
    ASSUME NEW rows \in [Tasks -> Rows], NEW t \in Tasks, NEW c \in Tasks,
           UnlockPut(rows, t)[c] # Same
    PROVE  /\ t \in DependsOn[c]
           /\ \/ /\ rows[c].status = "blocked" /\ DependenciesComplete(rows, c)
                 /\ UnlockPut(rows, t)[c] = "pending"
              \/ /\ rows[c].status \in {"pending", "paused"}
                 /\ ~DependenciesComplete(rows, c)
                 /\ UnlockPut(rows, t)[c] = "blocked"
BY DEF UnlockPut, Candidates, Change, Recompute, DependenciesComplete

LEMMA FlowPrepare ==
    ASSUME FlowInv, TypeOK', NEW r \in Requests, NEW put, NEW start, NEW spent,
           NEW then \in {"idle", "hook", "event"}, request[r].step = "check",
           Prepare(r, put, start, spent, then), AfterCheck,
           \A t \in Tasks : put[t] # Same =>
               /\ There(task, t) /\ put[t] \notin {"absent", "deleted"}
               /\ put[t] = "completed" =>
                     request[r].op = "complete" /\ request[r].task = t /\ then = "event"
               /\ t \in Leading => put[t] = "completed"
               /\ t \in Simple =>
                     /\ put[t] # "blocked"
                     /\ \A d \in DependsOn[t] :
                           task[d].status = "completed" \/ put[d] = "completed"
    PROVE  FlowInv'
<1> DEFINE q == [request[r] EXCEPT !.put = put, !.start = start, !.spent = spent,
                                   !.then = then, !.step = "commit"]
<1>1. request[r] \in Sessions /\ Reads(request[r], task)
  BY DEF FlowInv, TypeOK
<1>2. /\ q.op = request[r].op /\ q.step = "commit" /\ q.then = then
      /\ q.task = request[r].task /\ q.put = put
      /\ q.todo = request[r].todo /\ q.pick = request[r].pick
  BY <1>1 DEF Sessions
<1>3. request' = Becomes(r, q) /\ UNCHANGED task
  BY DEF Prepare, AfterCheck
<1> HIDE DEF q
<1>4. Reads(q, task)
  BY <1>1, <1>2 DEF Reads
<1>5. Puts(q, task)
  BY <1>2 DEF Puts
<1>6. \A t : ~Unblocks(request[r], t)
  BY DEF Unblocks
<1> QED
  BY <1>3, <1>4, <1>5, <1>6, FlowMove

LEMMA FlowCheck ==
    ASSUME FlowInv, NEW r \in Requests,
           \/ CheckCreate(r) \/ CheckBlocked(r) \/ CheckStart(r) \/ CheckPause(r)
           \/ CheckComplete(r) \/ CheckDelete(r) \/ CheckFeedback(r)
    PROVE  FlowInv'
<1> DEFINE t == request[r].task
           seen == request[r].seen
<1>a. /\ TypeOK' /\ request[r] \in Sessions /\ t \in Tasks /\ task \in [Tasks -> Rows]
      /\ seen.status \in Statuses /\ Reads(request[r], task) /\ RowsFlow(task)
  BY TypeCheck DEF FlowInv, TypeOK, Sessions, Rows
<1>b. AfterCheck /\ request[r].step = "check"
  BY DEF CheckCreate, CheckBlocked, CheckStart, CheckPause, CheckComplete,
         CheckDelete, CheckFeedback, Checking
<1>c. request[r].op \in {"pause", "complete"} /\ There(task, t)
  BY <1>a, <1>b DEF Reads
<1>d. \A u : ~Unblocks(request[r], u)
  BY <1>b DEF Unblocks
<1>1. CASE request' = Ended(r)
  BY <1>1, <1>a, <1>b, <1>d, FlowEnded DEF AfterCheck
<1>2. ASSUME NEW s \in {"blocked", "paused", Same}, NEW start, NEW spent,
             NEW then \in {"idle", "hook"},
             Prepare(r, PutOne(t, s), start, spent, then),
             s # Same => t \notin Leading,
             s # Same /\ t \in Simple => s # "blocked" /\ DependenciesComplete(task, t)
      PROVE  FlowInv'
  <2>1. \A u \in Tasks : PutOne(t, s)[u] # Same => u = t /\ s # Same /\ PutOne(t, s)[u] = s
    BY <1>a DEF PutOne, Nothing
  <2> HIDE DEF t
  <2>2. \A u \in Tasks : PutOne(t, s)[u] # Same =>
           /\ There(task, u) /\ PutOne(t, s)[u] \notin {"absent", "deleted", "completed"}
           /\ u \notin Leading
           /\ u \in Simple =>
                 /\ PutOne(t, s)[u] # "blocked"
                 /\ \A d \in DependsOn[u] : task[d].status = "completed"
    BY <1>2, <1>c, <2>1 DEF DependenciesComplete, Same
  <2> QED
    BY <1>2, <1>a, <1>b, <2>2, FlowPrepare
<1>3. CASE CheckBlocked(r)
  <2> DEFINE s == Change(seen.status, Recompute(seen.status, FALSE))
  <2>1. Prepare(r, PutOne(t, s), None, None, "idle") /\ ~DependenciesComplete(task, t)
    BY <1>3 DEF CheckBlocked
  <2>2. s \in {"blocked", Same} /\ (seen.status = "blocked" => s = Same)
    BY DEF Change, Recompute
  <2>3. t \notin Leading
    BY <2>1, LeadingType DEF DependenciesComplete
  <2>4. t \in Simple => s = Same
    BY <1>a, <1>b, <2>1, <2>2 DEF Reads
  <2> HIDE DEF s, t
  <2> QED
    BY <1>2, <2>1, <2>2, <2>3, <2>4
<1>4. CASE CheckPause(r) /\ request' # Ended(r)
  <2>1. PICK spent : Prepare(r, PutOne(t, "paused"), None, spent, "hook")
    BY <1>4 DEF CheckPause
  <2>2. seen.status = "in_progress"
    BY <1>4 DEF CheckPause
  <2>3. t \notin Leading /\ (t \in Simple => DependenciesComplete(task, t))
    BY <1>a, <1>b, <2>2 DEF Reads
  <2> HIDE DEF t
  <2> QED
    BY <1>2, <2>1, <2>3
<1>5. CASE CheckComplete(r) /\ request' # Ended(r)
  <2> DEFINE rows == Flushed(t)
             put == [UnlockPut(rows, t) EXCEPT ![t] = "completed"]
  <2>1. /\ rows \in [Tasks -> Rows]
        /\ \A u \in Tasks : u # t => rows[u] = task[u]
        /\ \A u \in Tasks : task[u].status = "completed" => rows[u].status = "completed"
    BY <1>a DEF Flushed, Rows, Statuses
  <2>2. PICK spent : Prepare(r, put, None, spent, "event")
    BY <1>5 DEF CheckComplete
  <2>3. request[r].op = "complete" /\ DependenciesComplete(task, t)
    BY <1>5 DEF CheckComplete, Checking
  <2>4. put[t] = "completed" /\ \A u \in Tasks : u # t => put[u] = UnlockPut(rows, t)[u]
    BY <1>a, <2>1, UnlockPutType DEF Statuses
  <2> HIDE DEF rows, put
  <2>5. ASSUME NEW u \in Tasks, u # t, put[u] # Same
        PROVE  /\ There(task, u) /\ put[u] \in {"pending", "blocked"} /\ u \notin Leading
               /\ u \in Simple =>
                     /\ put[u] # "blocked"
                     /\ \A d \in DependsOn[u] :
                           task[d].status = "completed" \/ put[d] = "completed"
    <3>1. /\ t \in DependsOn[u]
          /\ \/ /\ task[u].status = "blocked" /\ DependenciesComplete(rows, u)
                /\ put[u] = "pending"
             \/ /\ task[u].status \in {"pending", "paused"}
                /\ ~DependenciesComplete(rows, u)
                /\ put[u] = "blocked"
      BY <1>a, <2>1, <2>4, <2>5, UnlockPutIs
    <3>2. There(task, u) /\ u \notin Leading
      BY <3>1, LeadingType DEF There
    <3>3. ASSUME u \in Simple PROVE put[u] # "blocked"
      <4>1. task[u].status \in {"pending", "paused"} => DependenciesComplete(task, u)
        BY <1>a, <3>3 DEF RowsFlow
      <4>2. DependenciesComplete(task, u) => DependenciesComplete(rows, u)
        BY <2>1, <3>3, LeadingType DEF DependenciesComplete
      <4> QED
        BY <3>1, <4>1, <4>2
    <3>4. ASSUME u \in Simple, NEW d \in DependsOn[u], d # t
          PROVE  task[d].status = "completed"
      <4>1. DependenciesComplete(rows, u)
        BY <3>1, <3>3, <3>4
      <4> QED
        BY <2>1, <3>4, <4>1, LeadingType DEF DependenciesComplete
    <3> QED
      BY <2>4, <3>1, <3>2, <3>3, <3>4
  <2>6. \A u \in Tasks : put[u] # Same =>
           /\ There(task, u) /\ put[u] \notin {"absent", "deleted"}
           /\ put[u] = "completed" => request[r].op = "complete" /\ t = u
           /\ u \in Leading => put[u] = "completed"
           /\ u \in Simple =>
                 /\ put[u] # "blocked"
                 /\ \A d \in DependsOn[u] :
                       task[d].status = "completed" \/ put[d] = "completed"
    BY <1>c, <2>3, <2>4, <2>5 DEF DependenciesComplete
  <2> QED
    BY <1>a, <1>b, <2>2, <2>6, FlowPrepare
<1> QED
  BY <1>1, <1>3, <1>4, <1>5, <1>c DEF CheckCreate, CheckStart, CheckDelete, CheckFeedback,
     Checking

\* The rows after a session's writes are those of a session that Puts.
LEMMA WrittenFlows ==
    ASSUME FlowInv, NEW r \in Requests, task' = Written(r)
    PROVE  /\ RowsFlow(task') /\ Advances
           /\ \A t \in Simple : Stuck(task', t) =>
                 /\ request[r].put[t] = Same /\ task[t].status = "blocked"
                 /\ Stuck(task, t) \/ \E d \in DependsOn[t] : request[r].put[d] = "completed"
<1>a. /\ request[r] \in Sessions /\ Puts(request[r], task) /\ RowsFlow(task)
      /\ \A t \in Tasks : task'[t].status =
            IF request[r].put[t] = Same THEN task[t].status ELSE request[r].put[t]
  BY DEF FlowInv, TypeOK, Written
<1>1. Advances
  BY <1>a, LeadingType DEF Puts, There, Advances
<1>2. \A t \in Simple : \A d \in DependsOn[t] :
         task[d].status = "completed" \/ request[r].put[d] = "completed" =>
             task'[d].status = "completed"
  BY <1>a, <1>1, LeadingType DEF Advances, Same
<1>3. RowsFlow(task')
  <2>1. ASSUME NEW t \in Tasks
        PROVE  /\ task'[t].status # "deleted"
               /\ t \in Leading => task'[t].status \in {"absent", "pending", "completed"}
    BY <1>a DEF RowsFlow, Puts
  <2>2. ASSUME NEW t \in Simple, task'[t].status \notin {"absent", "blocked"}
        PROVE  DependenciesComplete(task', t)
    BY <1>a, <1>2, <2>2, LeadingType DEF RowsFlow, Puts, DependenciesComplete
  <2> QED
    BY <2>1, <2>2 DEF RowsFlow
<1>4. ASSUME NEW t \in Simple, Stuck(task', t)
      PROVE  /\ request[r].put[t] = Same /\ task[t].status = "blocked"
             /\ Stuck(task, t) \/ \E d \in DependsOn[t] : request[r].put[d] = "completed"
  <2>1. request[r].put[t] = Same /\ task[t].status = "blocked"
    BY <1>a, <1>4, LeadingType DEF Puts, Stuck
  <2>2. ASSUME \A d \in DependsOn[t] : request[r].put[d] # "completed"
        PROVE  DependenciesComplete(task, t)
    <3>1. ASSUME NEW d \in DependsOn[t] PROVE task[d].status = "completed"
      <4>1. d \in Leading /\ d \in Tasks
        BY LeadingType
      <4>2. request[r].put[d] = Same
        BY <1>a, <2>2, <4>1 DEF Puts
      <4> QED
        BY <1>4, <1>a, <4>1, <4>2 DEF Stuck, DependenciesComplete
    <3> QED
      BY <3>1 DEF DependenciesComplete
  <2> QED
    BY <2>1, <2>2 DEF Stuck
<1> QED
  BY <1>1, <1>3, <1>4

LEMMA FlowCommit ==
    ASSUME FlowInv, NEW r \in Requests, Commit(r) \/ PlanCommits(r) \/ Score(r)
    PROVE  FlowInv'
<1>a. /\ TypeOK' /\ request[r] \in Sessions /\ Puts(request[r], task)
      /\ Reads(request[r], task) /\ request[r].task \in Tasks
  BY TypeCommit DEF FlowInv, TypeOK, Sessions
<1>b. Missing(r) = {}
  BY <1>a DEF Missing, Writes, Puts, There, Exists
<1>c. task' = Written(r)
  BY <1>b DEF Commit, PlanCommits, Score, Save
<1>d. /\ RowsFlow(task') /\ Advances
      /\ \A t \in Simple : Stuck(task', t) =>
            /\ request[r].put[t] = Same /\ task[t].status = "blocked"
            /\ Stuck(task, t) \/ \E d \in DependsOn[t] : request[r].put[d] = "completed"
  BY <1>c, WrittenFlows
<1>e. \A t \in Simple : Stuck(task', t) => ~Unblocks(request[r], t)
  BY <1>d DEF Unblocks, Same, Commit, PlanCommits, Score
<1>1. CASE Commit(r) /\ request[r].then # "idle"
  <2> DEFINE q == [request[r] EXCEPT !.step = request[r].then, !.put = Nothing,
                                     !.start = None, !.spent = None]
  <2>1. request' = Becomes(r, q) /\ request[r].step = "commit"
    BY <1>1, <1>b DEF Commit, Committed
  <2>2. /\ q.op = request[r].op /\ q.task = request[r].task
        /\ q.put = Nothing /\ q.step = request[r].then /\ q.seen = request[r].seen
        /\ q.todo = request[r].todo /\ q.pick = request[r].pick
        /\ q.then = request[r].then
    BY <1>a DEF Sessions
  <2> HIDE DEF q
  <2>3. Puts(q, task')
    BY <2>2 DEF Puts, Nothing
  <2>4. ASSUME NEW d \in Leading, request[r].put[d] = "completed"
        PROVE  q.op = "complete" /\ q.task = d /\ q.step = "event"
    BY <1>a, <2>2, <2>4, LeadingType DEF Puts, Same
  <2>5. Reads(q, task')
    BY <1>a, <1>d, <2>1, <2>2 DEF Reads, Advances
  <2>6. \A t \in Simple : Stuck(task', t) => Unblocks(q, t) \/ Stuck(task, t)
    BY <1>d, <2>4, LeadingType DEF Unblocks
  <2> QED
    BY <1>a, <1>d, <1>e, <2>1, <2>3, <2>5, <2>6, FlowStep
<1>2. CASE Commit(r) /\ request[r].then = "idle"
  <2>1. request' = Becomes(r, IdleSession)
    BY <1>2, <1>b DEF Commit, Committed, Ended
  <2>2. \A d \in Leading : request[r].put[d] # "completed"
    BY <1>2, <1>a, LeadingType DEF Puts, Same
  <2>3. \A t \in Simple : Stuck(task', t) => Stuck(task, t)
    BY <1>d, <2>2, LeadingType
  <2> QED
    BY <1>a, <1>d, <1>e, <2>1, <2>3, FlowIdle, FlowStep
<1>3. ASSUME NEW next \in {"lease", "dispatch"}, request[r].step \in {"plan", "score"},
             request' = Becomes(r, [request[r] EXCEPT !.step = next, !.put = Nothing])
      PROVE  FlowInv'
  <2> DEFINE q == [request[r] EXCEPT !.step = next, !.put = Nothing]
  <2>1. /\ q.op = request[r].op /\ q.task = request[r].task /\ q.step = next
        /\ q.put = Nothing /\ q.todo = request[r].todo /\ q.pick = request[r].pick
        /\ q.then = request[r].then /\ request' = Becomes(r, q)
    BY <1>3, <1>a DEF Sessions
  <2> HIDE DEF q
  <2>2. Puts(q, task')
    BY <2>1 DEF Puts, Nothing
  <2>3. Reads(q, task')
    BY <1>3, <1>a, <1>d, <2>1 DEF Reads, Advances
  <2>4. \A d \in Leading : request[r].put[d] # "completed"
    BY <1>3, <1>a, LeadingType DEF Puts, Same
  <2>5. \A t \in Simple : Stuck(task', t) => Stuck(task, t)
    BY <1>d, <2>4, LeadingType
  <2> QED
    BY <1>a, <1>d, <1>e, <2>1, <2>2, <2>3, <2>5, FlowStep
<1> QED
  BY <1>1, <1>2, <1>3 DEF Commit, PlanCommits, Score, Save

LEMMA FlowCascade ==
    ASSUME FlowInv, NEW r \in Requests,
           Event(r) \/ CascadeDone(r) \/ \E t \in Tasks : CascadeNext(r, t)
    PROVE  FlowInv'
<1>a. /\ TypeOK' /\ request[r] \in Sessions /\ Reads(request[r], task)
  BY TypeCascade DEF FlowInv, TypeOK
<1>b. UNCHANGED task /\ request[r].step \in {"event", "cascade"}
  BY DEF Event, CascadeDone, CascadeNext
<1>1. ASSUME NEW q, request' = Becomes(r, q),
             \/ q = [request[r] EXCEPT !.step = "cascade", !.todo = ReadyInPlan]
             \/ q = [request[r] EXCEPT !.step = "hook"]
             \/ \E t \in request[r].todo :
                   q = [request[r] EXCEPT !.step = "activate", !.pick = {t}]
             \/ \E t \in Tasks : q = [request[r] EXCEPT !.todo = @ \ {t}]
      PROVE  FlowInv'
  <2>1. /\ q.op = request[r].op /\ q.task = request[r].task /\ q.put = request[r].put
        /\ q.step \in {"event", "cascade", "activate", "hook"} /\ q.then = request[r].then
    BY <1>1, <1>a, <1>b DEF Sessions
  <2>2. q.todo \cup q.pick \subseteq Automated
    <3>1. ReadyInPlan \subseteq Automated /\ request[r].todo \cup request[r].pick \subseteq Automated
      BY <1>a DEF Reads, ReadyInPlan
    <3>2. CASE q = [request[r] EXCEPT !.step = "cascade", !.todo = ReadyInPlan]
      BY <1>a, <3>1, <3>2 DEF Sessions
    <3>3. CASE q = [request[r] EXCEPT !.step = "hook"]
      BY <1>a, <3>1, <3>3 DEF Sessions
    <3>4. ASSUME NEW t \in request[r].todo,
                 q = [request[r] EXCEPT !.step = "activate", !.pick = {t}]
          PROVE  q.todo \cup q.pick \subseteq Automated
      BY <1>a, <3>1, <3>4 DEF Sessions
    <3>5. ASSUME NEW t \in Tasks, q = [request[r] EXCEPT !.todo = @ \ {t}]
          PROVE  q.todo \cup q.pick \subseteq Automated
      BY <1>a, <3>1, <3>5 DEF Sessions
    <3> QED
      BY <1>1, <3>2, <3>3, <3>4, <3>5
  <2>3. request' = Becomes(r, q)
    BY <1>1
  <2>4. Reads(q, task)
    BY <1>a, <1>b, <2>1, <2>2 DEF Reads
  <2>5. Puts(q, task)
    BY <1>b, <2>1, PutsKept
  <2>6. \A t : Unblocks(request[r], t) => Unblocks(q, t)
    BY <1>b, <2>1 DEF Unblocks
  <2> QED
    BY <1>a, <1>b, <2>3, <2>4, <2>5, <2>6, FlowMove
<1>2. CASE Event(r)
  BY <1>1, <1>2 DEF Event, To
<1>3. CASE CascadeDone(r)
  BY <1>1, <1>3 DEF CascadeDone, To
<1>4. ASSUME NEW t \in Tasks, CascadeNext(r, t) PROVE FlowInv'
  BY <1>1, <1>4 DEF CascadeNext
<1> QED
  BY <1>2, <1>3, <1>4

\* What the cascade starts is automated: nothing simple waits for it, and what
\* it finds incomplete was blocked before.
LEMMA FlowActivate ==
    ASSUME FlowInv, NEW r \in Requests, Activate(r)
    PROVE  FlowInv'
<1>a. /\ TypeOK' /\ request[r] \in Sessions /\ Reads(request[r], task)
      /\ Puts(request[r], task) /\ RowsFlow(task) /\ task \in [Tasks -> Rows]
  BY TypeStart DEF FlowInv, TypeOK
<1>1. PICK t \in request[r].pick : (Exists(t) /\ task' = Started(t)) \/ task' = task
  BY DEF Activate
<1>3. request[r].step = "activate"
  BY DEF Activate
<1>0. PICK q \in Sessions : /\ request' = Becomes(r, q) /\ SameRequest(q, request[r])
                            /\ StartMoves(q, request[r])
  BY <1>3, StartIs DEF FlowInv
<1>2. /\ q.op = request[r].op /\ q.task = request[r].task /\ q.put = request[r].put
      /\ q.step \in {"cascade", "hook", "queue"} /\ q.todo \subseteq request[r].todo
      /\ q.pick \subseteq request[r].pick
      /\ q.then = request[r].then /\ request' = Becomes(r, q)
  BY <1>0, <1>3 DEF SameRequest, StartMoves
<1>4. t \in Tasks /\ t \in Automated /\ t \notin Leading
  BY <1>a, ConstantsType, LeadingType DEF Reads
<1>5. Reads(q, task) /\ Puts(q, task)
  BY <1>2, <1>3, <1>a, PutsKept DEF Reads
<1>6. \A u : Unblocks(request[r], u) => Unblocks(q, u)
  BY <1>2, <1>3 DEF Unblocks
<1>7. CASE task' = task
  BY <1>2, <1>5, <1>6, <1>7, <1>a, FlowMove
<1>8. CASE Exists(t) /\ task' = Started(t)
  <2>1. \A u \in Tasks : u # t => task'[u] = task[u]
    BY <1>8, <1>a DEF Started
  <2>2. \/ ~DependenciesComplete(task, t)
             /\ task'[t].status = Recompute(task[t].status, FALSE)
        \/ DependenciesComplete(task, t) /\ task'[t].status \in {"in_progress", task[t].status}
    BY <1>8, <1>4, <1>a DEF Started, Rows
  <2>3. Advances
    BY <1>4, <1>8, <2>1, <2>2, LeadingType DEF Advances, There, Exists, Recompute
  <2>4. \A u \in Simple : DependenciesComplete(task', u) <=> DependenciesComplete(task, u)
    BY <1>4, <2>1, LeadingType DEF DependenciesComplete
  <2>5. t \in Simple /\ ~DependenciesComplete(task, t) =>
           task[t].status \in {"absent", "blocked"} /\ task'[t].status = task[t].status
    BY <1>4, <1>a, <2>2 DEF RowsFlow, Recompute
  <2>6. RowsFlow(task')
    <3>1. task'[t].status # "deleted"
      BY <1>4, <1>a, <2>2 DEF RowsFlow, Recompute
    <3>2. \A u \in Tasks : u \in Simple /\ task'[u].status \notin {"absent", "blocked"} =>
             DependenciesComplete(task', u)
      BY <1>a, <2>1, <2>4, <2>5 DEF RowsFlow
    <3> QED
      BY <1>4, <1>a, <2>1, <3>1, <3>2 DEF RowsFlow
  <2>7. \A u \in Simple : Stuck(task', u) => Stuck(task, u)
    BY <2>1, <2>2, <2>4, LeadingType DEF Stuck
  <2>8. Reads(q, task') /\ Puts(q, task')
    <3>1. Reads(q, task')
      BY <1>2, <1>5, <1>a, <2>3 DEF Reads, Advances, FlowInv, TypeOK, Sessions
    <3>2. \A u \in Simple : \A d \in DependsOn[u] :
             task[d].status = "completed" => task'[d].status = "completed"
      BY <2>3, LeadingType DEF Advances
    <3>3. Puts(q, task')
      BY <1>5, <2>3, <3>2 DEF Puts, Advances
    <3> QED
      BY <3>1, <3>3
  <2> QED
    BY <1>2, <1>6, <1>a, <2>3, <2>6, <2>7, <2>8, FlowStep
<1> QED
  BY <1>1, <1>7, <1>8

LEMMA FlowHook ==
    ASSUME FlowInv, NEW r \in Requests, Queue(r) \/ FindUnit(r) \/ SettleUnit(r)
    PROVE  FlowInv'
<1>a. TypeOK' /\ request[r] \in Sessions /\ Reads(request[r], task)
  BY TypeStart DEF FlowInv, TypeOK
<1>b. UNCHANGED task /\ request[r].step \in {"queue", "hook", "settle"}
  BY HooksKeep DEF Queue, FindUnit, SettleUnit
<1>1. ASSUME NEW q \in Sessions, request' = Becomes(r, q), SameRequest(q, request[r]),
             StartMoves(q, request[r])
      PROVE  FlowInv'
  <2>1. /\ q.op = request[r].op /\ q.task = request[r].task /\ q.put = request[r].put
        /\ q.step \in {"cascade", "settle", "queue", "orchestrate"}
        /\ q.then = request[r].then
        /\ q.todo \subseteq request[r].todo /\ q.pick \subseteq request[r].pick
    BY <1>b, <1>1 DEF SameRequest, StartMoves
  <2>2. Reads(q, task) /\ Puts(q, task)
    BY <1>a, <1>b, <2>1, PutsKept DEF Reads
  <2>3. \A t : Unblocks(request[r], t) => Unblocks(q, t)
    BY <2>1 DEF Unblocks
  <2> QED
    BY <1>1, <1>a, <1>b, <2>2, <2>3, FlowMove
<1>2. CASE request' = Ended(r) /\ request[r].op # "complete"
  <2>1. \A t : ~Unblocks(request[r], t)
    BY <1>2 DEF Unblocks
  <2> QED
    BY <1>2, <1>a, <1>b, <2>1, FlowEnded
<1> QED
  BY <1>1, <1>2, StartIs DEF FlowInv

\* The orchestration sees every completion committed before it, its own at
\* least, and the plan's recalculation commits what it unlocks.
LEMMA FlowOrchestrate ==
    ASSUME FlowInv, PlanActive, NEW r \in Requests,
           Orchestrate(r) \/ TakeLease(r) \/ Dispatch(r)
    PROVE  FlowInv'
<1>a. /\ TypeOK' /\ request[r] \in Sessions /\ Reads(request[r], task)
      /\ request[r].task \in Tasks /\ task \in [Tasks -> Rows] /\ RowsFlow(task)
  BY TypeOrchestrate DEF FlowInv, TypeOK, Sessions
<1>b. UNCHANGED task
  BY DEF Orchestrate, TakeLease, Dispatch
<1>1. CASE Dispatch(r)
  <2>1. request' = Ended(r) /\ \A t : ~Unblocks(request[r], t)
    BY <1>1 DEF Dispatch, Unblocks
  <2> QED
    BY <1>a, <1>b, <2>1, FlowEnded
<1>2. ASSUME TakeLease(r), NEW s \in {"dispatch", "score"}, request' = To(r, s)
      PROVE  FlowInv'
  <2> DEFINE q == [request[r] EXCEPT !.step = s]
  <2>1. /\ q.op = request[r].op /\ q.task = request[r].task /\ q.put = request[r].put
        /\ q.step = s /\ q.then = request[r].then
        /\ q.todo = request[r].todo /\ q.pick = request[r].pick /\ request' = Becomes(r, q)
    BY <1>2, <1>a DEF To, Sessions
  <2> HIDE DEF q
  <2>2. request[r].step = "lease" /\ \A t : ~Unblocks(request[r], t)
    BY <1>2 DEF TakeLease, Unblocks
  <2>3. Reads(q, task) /\ Puts(q, task)
    BY <1>a, <2>1, <2>2, PutsKept DEF Reads
  <2> QED
    BY <1>a, <1>b, <2>1, <2>2, <2>3, FlowMove
<1>3. CASE Orchestrate(r)
  <2> DEFINE t == request[r].task
             put == UnlockPut(task, t)
             q == [request[r] EXCEPT !.step = IF PlanActive THEN "plan" ELSE "lease",
                                     !.put = put, !.unlocked = Unlocked(task, t)]
  <2>1. request[r].step = "orchestrate" /\ Exists(t)
    BY <1>3, <1>a DEF Orchestrate, Reads, There, Exists
  <2>2. /\ q.op = request[r].op /\ q.task = t /\ q.put = put
        /\ q.step = "plan" /\ q.then = request[r].then
        /\ q.todo = request[r].todo /\ q.pick = request[r].pick /\ request' = Becomes(r, q)
    BY <1>3, <1>a, <2>1 DEF Orchestrate, Sessions
  <2>3. ASSUME NEW u \in Tasks, put[u] # Same
        PROVE  /\ There(task, u) /\ put[u] \in {"pending", "blocked"} /\ u \notin Leading
               /\ u \in Simple => put[u] = "pending" /\ DependenciesComplete(task, u)
    <3>1. /\ t \in DependsOn[u]
          /\ \/ /\ task[u].status = "blocked" /\ DependenciesComplete(task, u)
                /\ put[u] = "pending"
             \/ /\ task[u].status \in {"pending", "paused"}
                /\ ~DependenciesComplete(task, u) /\ put[u] = "blocked"
      BY <1>a, <2>3, UnlockPutIs
    <3> QED
      BY <3>1, <1>a, LeadingType DEF There, RowsFlow
  <2>4. \A u \in Simple : Stuck(task, u) /\ t \in DependsOn[u] => put[u] = "pending"
    BY LeadingType DEF Stuck, UnlockPut, Candidates, Change, Recompute
  <2> HIDE DEF q, put, t
  <2>5. Reads(q, task)
    BY <1>a, <2>1, <2>2 DEF Reads, t
  <2>6. Puts(q, task)
    BY <2>2, <2>3 DEF Puts, DependenciesComplete
  <2>7. \A u \in Simple : Stuck(task, u) /\ Unblocks(request[r], u) => Unblocks(q, u)
    BY <2>2, <2>4 DEF Unblocks, t
  <2> QED
    BY <1>a, <1>b, <2>2, <2>5, <2>6, <2>7, FlowMove
<1> QED
  BY <1>1, <1>2, <1>3 DEF TakeLease

LEMMA FlowInit == Init => FlowInv
<1>1. SUFFICES ASSUME Init PROVE FlowInv
  OBVIOUS
<1>2. \A t \in Tasks : task[t].status =
         IF t \in Existing THEN IF DependsOn[t] = {} THEN "pending" ELSE "blocked"
                           ELSE "absent"
  BY <1>1 DEF Init, NoRow
<1>3. RowsFlow(task)
  BY <1>2, LeadingType DEF RowsFlow, DependenciesComplete
<1>4. \A t \in Simple : ~Stuck(task, t)
  BY <1>2, LeadingType DEF Stuck, DependenciesComplete
<1>5. \A r \in Requests : Reads(request[r], task) /\ Puts(request[r], task)
  BY <1>1, FlowIdle DEF Init
<1> QED
  BY <1>1, <1>3, <1>4, <1>5, TypeInit DEF FlowInv

LEMMA FlowNext ==
    ASSUME Workload \subseteq {"pause", "complete"}, PlanActive, MaxCrashes = 0
    PROVE  FlowInv /\ [Next]_vars => FlowInv'
<1>1. SUFFICES ASSUME FlowInv, [Next]_vars PROVE FlowInv'
  OBVIOUS
<1>2. ASSUME NEW r \in Requests, Step(r) PROVE FlowInv'
  BY <1>1, <1>2, FlowCheck, FlowCommit, FlowCascade, FlowActivate, FlowHook,
     FlowOrchestrate DEF Step
<1>3. ASSUME NEW r \in Requests, NEW op \in Workload, NEW t \in Tasks, Load(r, op, t)
      PROVE FlowInv'
  BY <1>1, <1>3, FlowLoad
<1>4. ASSUME NEW r \in Requests, Crash(r) PROVE FALSE
  BY <1>1, <1>4 DEF Crash, FlowInv, TypeOK
<1>5. CASE Tick \/ UNCHANGED vars
  <2>1. UNCHANGED <<task, request>>
    BY <1>5 DEF Tick, vars
  <2>2. TypeOK'
    BY <1>1, <1>5, TypeWorld DEF FlowInv
  <2> QED
    BY <1>1, <2>1, <2>2 DEF FlowInv, RowsFlow, Reads, Puts, There, Stuck, Unblocks,
       DependenciesComplete
<1> QED
  BY <1>1, <1>2, <1>3, <1>4, <1>5 DEF Next

(***************************************************************************)
(* Completions that miss each other leave nothing blocked: whatever pauses *)
(* and completions interleave, a task whose dependencies wait for nothing  *)
(* and are not automated is not left blocked once they are completed and   *)
(* all requests have ended.  Without these two conditions it may be: an    *)
(* unlock committed late, or a pause of a started dependency, turns a      *)
(* completed dependency back, and its dependent is blocked from a stale    *)
(* query (README, section 4).                                              *)
(***************************************************************************)
THEOREM SimpleUnblocks ==
    ASSUME Workload \subseteq {"pause", "complete"}, PlanActive, MaxCrashes = 0
    PROVE  Spec => [](Quiet => \A t \in Simple :
                        task[t].status = "blocked" => ~DependenciesComplete(task, t))
<1>1. FlowInv => (Quiet => \A t \in Simple :
                     task[t].status = "blocked" => ~DependenciesComplete(task, t))
  BY DEF FlowInv, Stuck, Unblocks, Quiet
<1>2. FlowInv /\ [Next]_vars => FlowInv'
  BY FlowNext
<1> QED
  BY <1>1, <1>2, FlowInit, PTL DEF Spec

\* The same for a graph of such tasks alone, however many wait for however many.
THEOREM NothingStaysBlocked ==
    ASSUME Workload \subseteq {"pause", "complete"}, PlanActive, MaxCrashes = 0,
           \A t \in Tasks : \A d \in DependsOn[t] : DependsOn[d] = {} /\ d \notin Automated
    PROVE  Spec => []NoStaleBlock
<1>1. Simple = Tasks
  BY DEF Simple
<1>2. (Quiet => \A t \in Simple :
          task[t].status = "blocked" => ~DependenciesComplete(task, t)) => NoStaleBlock
  BY <1>1 DEF NoStaleBlock
<1> QED
  BY <1>2, SimpleUnblocks, PTL
=============================================================================
