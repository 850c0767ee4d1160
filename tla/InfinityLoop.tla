----------------------------- MODULE InfinityLoop -----------------------------
(***************************************************************************)
(* The recalculation of a user's score                                     *)
(* (apps/analytics/services/orchestration: infinity_orchestrator.execute,  *)
(* infinity_loop.py and concurrency.py; scoring/infinity_service.py): one  *)
(* user, several triggers, several processes.                              *)
(*                                                                         *)
(* A run takes the lease of its trigger, in Redis or, when Redis does not  *)
(* answer, in the database; a thread of its own extends the lease while    *)
(* the run scores, evaluates, decides and adapts in one transaction.  Time *)
(* passes in ticks of the heartbeat's interval: a lease lives TTL of them. *)
(***************************************************************************)
EXTENDS Integers, Sequences

CONSTANTS
    Runs,           \* calls of execute, each with an owner id of its own
    Triggers,       \* the trigger events
    Decisions,      \* the types of decision the loop may take
    NeedTask,       \* the decisions that act on an open task: reprioritize_tasks
                    \* and continue_highest_priority_task
    CreateNewTask,  \* what they become when the user has no open task
    None,           \* nobody, nothing
    TTL,            \* a lease's life, in heartbeats: 90 / 30 seconds
    MaxFlips,       \* bound: how often Redis goes away or comes back
    MaxCrashes      \* bound: how many processes die

ASSUME LoopAssumption ==
    /\ None \notin Runs \cup [type : Decisions, turned : BOOLEAN]
    /\ NeedTask \subseteq Decisions /\ CreateNewTask \in Decisions
    /\ TTL \in Nat \ {0} /\ MaxFlips \in Nat /\ MaxCrashes \in Nat

VARIABLES
    redis,          \* the lease keys in Redis, one for each trigger
    rows,           \* background_task_leases, one for each trigger
    up,             \* does Redis answer?
    run,            \* what each call of execute is doing, and its transaction
    beat,           \* each run's heartbeat thread
    score,          \* user_scores: the user's row; version 0 means no row
    history,        \* how many rows score_history has
    adjustments,    \* loop_adjustments, by applied_at
    disturbed,      \* history: "exposed": a lease was left without its guard;
                    \* "midway": a run gave up its rows before it had decided
    flips, crashes  \* how often Redis flipped, how many processes died

vars == <<redis, rows, up, run, beat, score, history, adjustments, disturbed, flips, crashes>>

-----------------------------------------------------------------------------
(* Leases, transactions and heartbeats.                                    *)

\* A lease that has expired is as good as none.  An open row is one its
\* owner's transaction has written and not committed: the others wait for it.
Free == [owner |-> None, left |-> 0, open |-> FALSE]
Lease(r, open) == [owner |-> r, left |-> TTL, open |-> open]
Mine(r, lease) == lease.owner = r

Idle == [pc |-> "idle", trigger |-> None, locked |-> FALSE, base |-> 0, wrote |-> "no",
         seen |-> 0, latched |-> FALSE, decision |-> None]
NoBeat == [pc |-> "off", left |-> 0]
Waiting == [pc |-> "wait", left |-> 1]

At(r, pc) == run[r].pc = pc
Trig(r) == run[r].trigger
Active(r) == run[r].pc \notin {"idle", "done"}

\* From the acquisition of the lease to the stop of its heartbeat.
Working(r) == run[r].pc \in {"begin", "score", "insert", "evaluate", "latest", "decide",
                             "adapt", "stop", "stop_broken"}

\* A run whose transaction is over holds no row and has nothing to commit.
Settled(r, pc) == [Idle EXCEPT !.pc = pc, !.trigger = Trig(r)]

WroteScore(r) == run[r].wrote # "no"

\* commit: the score, its history row, the adjustment and the lease's row.
Committed(r) ==
    /\ score' = IF WroteScore(r)
                THEN [version |-> run[r].base + 1, trigger |-> Trig(r),
                      recent |-> run[r].wrote = "now"]
                ELSE score
    /\ history' = IF WroteScore(r) THEN history + 1 ELSE history
    /\ adjustments' = IF run[r].decision # None
                      THEN Append(adjustments, run[r].decision)
                      ELSE adjustments

Closed(lease) == IF lease.left = 0 THEN Free ELSE [lease EXCEPT !.open = FALSE]
RowsCommitted(r) ==
    [t \in Triggers |-> IF rows[t].open /\ Mine(r, rows[t]) THEN Closed(rows[t]) ELSE rows[t]]
RowsUndone(r) ==
    [t \in Triggers |-> IF rows[t].open /\ Mine(r, rows[t]) THEN Free ELSE rows[t]]

\* rollback: nothing of the transaction stays; what a run does next it does
\* in a new one.
RolledBack(r) ==
    /\ rows' = RowsUndone(r)
    /\ disturbed' = disturbed \cup (IF rows' # rows THEN {"exposed"} ELSE {})
    /\ UNCHANGED <<score, history, adjustments>>

Init ==
    /\ redis = [t \in Triggers |-> Free]
    /\ rows = [t \in Triggers |-> Free]
    /\ up \in BOOLEAN
    /\ run = [r \in Runs |-> Idle]
    /\ beat = [r \in Runs |-> NoBeat]
    /\ score \in [version : {0, 1}, trigger : {None}, recent : {FALSE}]
    /\ history = 0
    /\ adjustments = <<>>
    /\ disturbed = {}
    /\ flips = 0
    /\ crashes = 0

-----------------------------------------------------------------------------
(* execute: the lease.                                                     *)

\* SET NX EX.
Execute(r, t) ==
    /\ At(r, "idle")
    /\ \/ /\ up /\ redis[t] = Free
          /\ redis' = [redis EXCEPT ![t] = Lease(r, FALSE)]
          /\ run' = [run EXCEPT ![r].pc = "begin", ![r].trigger = t]
       \/ /\ up /\ redis[t] # Free
          /\ run' = [run EXCEPT ![r].pc = "done", ![r].trigger = t]
          /\ UNCHANGED redis
       \/ /\ ~up
          /\ run' = [run EXCEPT ![r].pc = "acquire", ![r].trigger = t]
          /\ UNCHANGED redis
    /\ UNCHANGED <<rows, up, beat, score, history, adjustments, disturbed, flips, crashes>>

\* _acquire_db_lease, by the run or by its heartbeat.  A row that another
\* transaction has written is waited for.  When the caller's session was in a
\* transaction already, the run's lease joins it and is committed with it.
DbTaken(r, t) == rows[t] # Free /\ rows[t].owner # r
DbWaits(t) == rows[t].open

AcquireDb(r) ==
    LET t == Trig(r) IN
    /\ At(r, "acquire") /\ ~DbWaits(t)
    /\ IF DbTaken(r, t)
       THEN /\ run' = [run EXCEPT ![r].pc = "done"]
            /\ UNCHANGED rows
       ELSE /\ \E joined \in BOOLEAN : rows' = [rows EXCEPT ![t] = Lease(r, joined)]
            /\ run' = [run EXCEPT ![r].pc = "begin"]
    /\ UNCHANGED <<redis, up, beat, score, history, adjustments, disturbed, flips, crashes>>

\* The heartbeat is started, then the debounce reads the user's row; then the
\* inputs are gathered, which may fail.
Begin(r) ==
    /\ At(r, "begin")
    /\ beat' = [beat EXCEPT ![r] = Waiting]
    /\ \/ /\ score.recent /\ score.trigger = Trig(r)
          /\ run' = [run EXCEPT ![r].pc = "stop"]
       \/ /\ ~(score.recent /\ score.trigger = Trig(r))
          /\ \/ run' = [run EXCEPT ![r].pc = "score"]
             \/ run' = [run EXCEPT ![r].pc = "stop"]
    /\ UNCHANGED <<redis, rows, up, score, history, adjustments, disturbed, flips, crashes>>

-----------------------------------------------------------------------------
(* execute: the work.                                                      *)

\* Mutant: the row is read without FOR UPDATE and written without the version.
RowLocked_Never(r) == FALSE

\* Another transaction holds the user's row, or has inserted it.
RowLocked(r) == \E s \in Runs \ {r} : run[s].locked

\* calculate_infinity_score: SELECT ... FOR UPDATE, the update under the
\* version read, and the history row.  A first row counts as version 1.
Score(r) ==
    /\ At(r, "score") /\ score.version # 0 /\ ~RowLocked(r)
    /\ \/ run' = [run EXCEPT ![r].pc = "evaluate", ![r].locked = TRUE,
                             ![r].base = score.version, ![r].wrote = "now"]
       \/ run' = [run EXCEPT ![r].pc = "stop", ![r].locked = TRUE]
    /\ UNCHANGED <<redis, rows, up, beat, score, history, adjustments, disturbed, flips, crashes>>

\* There was no row to lock: it is inserted, which waits for another insert
\* and fails when that is committed.
FirstScore(r) ==
    /\ At(r, "score") /\ score.version = 0
    /\ IF RowLocked(r)
       THEN run' = [run EXCEPT ![r].pc = "insert"]
       ELSE run' = [run EXCEPT ![r].pc = "evaluate", ![r].locked = TRUE,
                               ![r].base = 1, ![r].wrote = "now"]
    /\ UNCHANGED <<redis, rows, up, beat, score, history, adjustments, disturbed, flips, crashes>>

\* The failed insert fails the transaction, which finally rolls back.
Insert(r) ==
    /\ At(r, "insert") /\ ~RowLocked(r)
    /\ run' = [run EXCEPT ![r].pc = IF score.version = 0 THEN "score" ELSE "stop_broken"]
    /\ UNCHANGED <<redis, rows, up, beat, score, history, adjustments, disturbed, flips, crashes>>

\* evaluate_pending_adjustment.  The adaptation of the weights may commit;
\* a failure is swallowed and rolls back what the run has written so far.
Evaluate(r) ==
    /\ At(r, "evaluate")
    /\ \/ /\ run' = [run EXCEPT ![r].pc = "latest"]
          /\ UNCHANGED <<rows, score, history, adjustments, disturbed>>
       \/ /\ run' = [run EXCEPT ![r] = Settled(r, "latest")]
          /\ Committed(r) /\ rows' = RowsCommitted(r)
          /\ disturbed' = disturbed \cup {"midway"}
       \/ /\ run' = [run EXCEPT ![r] = Settled(r, "latest")]
          /\ rows' = RowsUndone(r)
          /\ disturbed' = disturbed \cup {"midway"}
                            \cup (IF rows' # rows THEN {"exposed"} ELSE {})
          /\ UNCHANGED <<score, history, adjustments>>
    /\ UNCHANGED <<redis, up, beat, flips, crashes>>

\* run_loop looks up the latest adjustment ...
Latest(r) ==
    /\ At(r, "latest")
    /\ run' = [run EXCEPT ![r].pc = "decide", ![r].seen = Len(adjustments)]
    /\ UNCHANGED <<redis, rows, up, beat, score, history, adjustments, disturbed, flips, crashes>>

\* Mutant: no thrash guard.
Thrashes_Never(r, d) == FALSE

\* The thrash guard: the same decision within the hour is not taken again.
Thrashes(r, d) == run[r].seen > 0 /\ adjustments[run[r].seen].type = d

\* After the guard: a decision about open tasks becomes, when there is none,
\* the decision to create one, and its row's payload says why.
Adjustments == [type : Decisions, turned : BOOLEAN]
Recorded(d, open) ==
    IF d \in NeedTask /\ ~open THEN [type |-> CreateNewTask, turned |-> TRUE]
    ELSE [type |-> d, turned |-> FALSE]

\* ... whose row it locks, waiting for whoever holds it.  A failure rolls back
\* and ends the run.
Decide(r) ==
    /\ At(r, "decide")
    /\ run[r].seen > 0 =>
         ~\E s \in Runs \ {r} : run[s].latched /\ run[s].seen = run[r].seen
    /\ \/ /\ \E d \in Decisions, open \in BOOLEAN :
               run' = [run EXCEPT ![r].pc = "adapt", ![r].latched = TRUE,
                                  ![r].decision = IF Thrashes(r, d) THEN None
                                                  ELSE Recorded(d, open)]
          /\ UNCHANGED <<rows, score, history, adjustments, disturbed>>
       \/ /\ run' = [run EXCEPT ![r] = Settled(r, "stop")]
          /\ RolledBack(r)
    /\ UNCHANGED <<redis, up, beat, flips, crashes>>

\* adapt_policy_thresholds: nothing, a commit, or a failure that rolls back and
\* is swallowed.  Then the decision is announced, which may fail.
Adapt(r) ==
    /\ At(r, "adapt")
    /\ \/ /\ run' = [run EXCEPT ![r].pc = "stop"]
          /\ UNCHANGED <<rows, score, history, adjustments, disturbed>>
       \/ /\ run' = [run EXCEPT ![r] = Settled(r, "stop")]
          /\ Committed(r) /\ rows' = RowsCommitted(r)
          /\ UNCHANGED disturbed
       \/ /\ run' = [run EXCEPT ![r] = Settled(r, "stop")]
          /\ RolledBack(r)
    /\ UNCHANGED <<redis, up, beat, flips, crashes>>

-----------------------------------------------------------------------------
(* execute: the end.                                                       *)

\* LeaseHeartbeat.stop: a heartbeat that is in the middle of a call may outlive
\* the five seconds it is waited for, and ends after that call.
Stopped(b) == IF b.pc = "wait" THEN NoBeat ELSE [b EXCEPT !.left = 0]

Stop(r) ==
    /\ At(r, "stop") \/ At(r, "stop_broken")
    /\ beat' = [beat EXCEPT ![r] = Stopped(@)]
    /\ run' = [run EXCEPT ![r].pc = IF At(r, "stop") THEN "release" ELSE "release_broken"]
    /\ UNCHANGED <<redis, rows, up, score, history, adjustments, disturbed, flips, crashes>>

\* _release_redis_lock deletes the key if it is this owner's.
Release(r) ==
    LET t == Trig(r) IN
    /\ At(r, "release") \/ At(r, "release_broken")
    /\ redis' = [redis EXCEPT ![t] = IF up /\ Mine(r, @) THEN Free ELSE @]
    /\ run' = [run EXCEPT ![r].pc = IF At(r, "release") THEN "finish" ELSE "finish_broken"]
    /\ UNCHANGED <<rows, up, beat, score, history, adjustments, disturbed, flips, crashes>>

\* Mutant: the transaction is left open.
Ended_Open(r) == [run[r] EXCEPT !.pc = "done"]

Ended(r) == Settled(r, "done")

\* _release_db_lease and the commit, or the rollback of a failed transaction.
Finish(r) ==
    LET t == Trig(r) IN
    /\ At(r, "finish") \/ At(r, "finish_broken")
    /\ run' = [run EXCEPT ![r] = Ended(r)]
    /\ IF At(r, "finish")
       THEN /\ Committed(r)
            /\ rows' = [rows EXCEPT ![t] = IF Mine(r, @) THEN Free ELSE @]
       ELSE /\ rows' = RowsUndone(r)
            /\ UNCHANGED <<score, history, adjustments>>
    /\ UNCHANGED <<redis, up, beat, disturbed, flips, crashes>>

-----------------------------------------------------------------------------
(* LeaseHeartbeat._run: acquire_execution_lease again, its result ignored. *)

Beats(r, pc) == beat[r].pc = pc

\* After a call: wait again, or end when the run has told it to.
Again(r) == beat' = [beat EXCEPT ![r] = IF Working(r) THEN Waiting ELSE NoBeat]
Call(r, pc) == beat' = [beat EXCEPT ![r].pc = pc]

\* SET NX
BeatSet(r) ==
    LET t == Trig(r) IN
    /\ Beats(r, "wait") /\ beat[r].left = 0
    /\ \/ up /\ redis[t] = Free /\ redis' = [redis EXCEPT ![t] = Lease(r, FALSE)] /\ Again(r)
       \/ up /\ redis[t] # Free /\ Call(r, "get") /\ UNCHANGED redis
       \/ ~up /\ Call(r, "db") /\ UNCHANGED redis
    /\ UNCHANGED <<rows, up, run, score, history, adjustments, disturbed, flips, crashes>>

\* GET
BeatGet(r) ==
    /\ Beats(r, "get")
    /\ \/ up /\ Mine(r, redis[Trig(r)]) /\ Call(r, "expire")
       \/ up /\ ~Mine(r, redis[Trig(r)]) /\ Again(r)
       \/ ~up /\ Call(r, "db")
    /\ UNCHANGED <<redis, rows, up, run, score, history, adjustments, disturbed, flips, crashes>>

\* Mutant: the heartbeat asks for the key and does not extend it.
Extended_Not(lease) == lease

Extended(lease) == IF lease = Free THEN Free ELSE [lease EXCEPT !.left = TTL]

\* EXPIRE extends the key, whoever has it by now.
BeatExpire(r) ==
    LET t == Trig(r) IN
    /\ Beats(r, "expire")
    /\ \/ /\ up /\ Again(r)
          /\ redis' = [redis EXCEPT ![t] = Extended(@)]
       \/ ~up /\ Call(r, "db") /\ UNCHANGED redis
    /\ UNCHANGED <<rows, up, run, score, history, adjustments, disturbed, flips, crashes>>

\* The fallback, in a session of its own, which is committed.
BeatDb(r) ==
    LET t == Trig(r) IN
    /\ Beats(r, "db") /\ ~DbWaits(t)
    /\ rows' = IF DbTaken(r, t) THEN rows ELSE [rows EXCEPT ![t] = Lease(r, FALSE)]
    /\ Again(r)
    /\ UNCHANGED <<redis, up, run, score, history, adjustments, disturbed, flips, crashes>>

-----------------------------------------------------------------------------
(* Time, Redis and crashes.                                                *)

\* Mutant: the time left is not compared with zero.
Aged_BelowZero(lease) == [lease EXCEPT !.left = @ - 1]

Aged(lease) == IF lease.left <= 1 /\ ~lease.open THEN Free
               ELSE [lease EXCEPT !.left = IF @ = 0 THEN 0 ELSE @ - 1]

Late(r) == Working(r) /\ beat[r] # Waiting

\* An interval passes.  A heartbeat that is not waiting for it is late.
Tick ==
    /\ \/ \E t \in Triggers : redis[t].left > 0 \/ rows[t].left > 0
       \/ \E r \in Runs : beat[r].left > 0
    /\ redis' = [t \in Triggers |-> Aged(redis[t])]
    /\ rows' = [t \in Triggers |-> Aged(rows[t])]
    /\ beat' = [r \in Runs |-> [beat[r] EXCEPT !.left = 0]]
    /\ score' = [score EXCEPT !.recent = FALSE]
    /\ run' = [r \in Runs |-> IF WroteScore(r) THEN [run[r] EXCEPT !.wrote = "earlier"] ELSE run[r]]
    /\ disturbed' = disturbed \cup (IF \E r \in Runs : Late(r) THEN {"exposed"} ELSE {})
    /\ UNCHANGED <<up, history, adjustments, flips, crashes>>

\* Redis stops answering, or answers again, with its keys or without them.
Flip ==
    /\ flips < MaxFlips
    /\ flips' = flips + 1
    /\ up' = ~up
    /\ redis' \in {redis} \cup (IF up THEN {} ELSE {[t \in Triggers |-> Free]})
    /\ disturbed' = disturbed \cup (IF \E r \in Runs : Active(r) THEN {"exposed"} ELSE {})
    /\ UNCHANGED <<rows, run, beat, score, history, adjustments, crashes>>

\* A process dies: its transaction is rolled back, its leases stay.
Crash(r) ==
    /\ crashes < MaxCrashes /\ Active(r)
    /\ crashes' = crashes + 1
    /\ run' = [run EXCEPT ![r] = Settled(r, "done")]
    /\ beat' = [beat EXCEPT ![r] = NoBeat]
    /\ rows' = RowsUndone(r)
    /\ UNCHANGED <<redis, up, score, history, adjustments, disturbed, flips>>

Step(r) ==
    \/ AcquireDb(r) \/ Begin(r) \/ Score(r) \/ FirstScore(r) \/ Insert(r) \/ Evaluate(r)
    \/ Latest(r) \/ Decide(r) \/ Adapt(r) \/ Stop(r) \/ Release(r) \/ Finish(r)

Heartbeat(r) == BeatSet(r) \/ BeatGet(r) \/ BeatExpire(r) \/ BeatDb(r)

Next ==
    \/ \E r \in Runs :
         \/ \E t \in Triggers : Execute(r, t)
         \/ Step(r) \/ Heartbeat(r) \/ Crash(r)
    \/ Tick \/ Flip

Spec == Init /\ [][Next]_vars

\* A run that has begun and a thread that has started go on; time passes.
Fairness ==
    /\ \A r \in Runs : WF_vars(Step(r)) /\ WF_vars(Heartbeat(r))
    /\ WF_vars(Tick)

FairSpec == Spec /\ Fairness

-----------------------------------------------------------------------------
(* Properties.                                                             *)

Leases == [owner : Runs \cup {None}, left : 0 .. TTL, open : BOOLEAN]

\* The types of the variables.
TypeOK ==
    /\ redis \in [Triggers -> Leases] /\ rows \in [Triggers -> Leases]
    /\ up \in BOOLEAN
    /\ run \in [Runs ->
         [pc : {"idle", "acquire", "begin", "score", "insert", "evaluate", "latest", "decide",
                "adapt", "stop", "stop_broken", "release", "release_broken", "finish",
                "finish_broken", "done"},
          trigger : Triggers \cup {None}, locked : BOOLEAN, base : Nat,
          wrote : {"no", "now", "earlier"}, seen : Nat, latched : BOOLEAN,
          decision : Adjustments \cup {None}]]
    /\ beat \in [Runs -> [pc : {"off", "wait", "get", "expire", "db"}, left : 0 .. 1]]
    /\ score \in [version : Nat, trigger : Triggers \cup {None}, recent : BOOLEAN]
    /\ history \in Nat
    /\ adjustments \in Seq(Adjustments)
    /\ disturbed \subseteq {"exposed", "midway"}
    /\ flips \in 0 .. MaxFlips /\ crashes \in 0 .. MaxCrashes

\* acquire_execution_lease and LeaseHeartbeat: two runs of one trigger are at
\* work together only after Redis came or went during a run, a heartbeat was
\* late, or a run rolled back the transaction that held its lease.
LeaseExcludes == \A r, s \in Runs :
    r # s /\ Working(r) /\ Working(s) /\ Trig(r) = Trig(s)
        => "exposed" \in disturbed

\* calculate_infinity_score: whatever runs overlap, each version of the score
\* is computed from the one before it, and each has its row of the history.
NoLostScore == history > 0 => score.version = history + 1

\* run_loop's guard, across runs of every trigger: within the hour a row of
\* loop_adjustments has the type of the row before it only when it says
\* create_new_task and was turned into that after the guard, for want of an
\* open task; unless a run gave up the user's row before it had decided.
Follows(new, last) ==
    new.type = last.type => new.type = CreateNewTask /\ new.turned
NoThrash == "midway" \notin disturbed =>
    \A n \in 2 .. Len(adjustments) : Follows(adjustments[n], adjustments[n - 1])

\* execute and its finally clause, LeaseHeartbeat: when no more runs begin, every
\* run ends, whatever rows and leases it waits for, and no lease stays, be it a
\* crashed run's or one that a heartbeat took after its run was over.
LoopSettles == <>[](\A r \in Runs, t \in Triggers :
    ~Active(r) /\ redis[t] = Free /\ rows[t] = Free)
=============================================================================
