--------------------------- MODULE StrategyLayer ---------------------------
(***************************************************************************)
(* The strategy layer of one masterplan (apps/masterplan/services/         *)
(* phase_advance.py and strategy_layer_service.py): its phases, a chain    *)
(* the seeder writes once, the strategies scheduled in them, and the tasks *)
(* that hang under a strategy or directly under a phase.                   *)
(*                                                                         *)
(* A verb loads the rows it speaks of, changes them in memory, and commits *)
(* them; the tasks belong to another domain and are changed through task   *)
(* calls that run on the same session and commit it, the verb's own        *)
(* changes with theirs.  So a verb is a load and a list of steps, and it   *)
(* can end between two of them, or go on although a call was refused.      *)
(***************************************************************************)
EXTENDS Integers, Sequences, FiniteSets

CONSTANTS
    N,              \* number of phases; phase p + 1 depends on phase p
    Strategies,     \* the strategy ids this instance speaks of
    NoStrategy,     \* a task's null strategy_id
    Tasks,          \* the plan's task ids
    Outcomes,       \* the verdicts a human may give
    Sessions,       \* the sessions that serve requests
    Overlap,        \* may two requests be under way at once?
    Refusable,      \* the task calls that may be refused
    MaxElapsed      \* bound: the windows the calendar passes

Phases == 1 .. N
NoPhase == 0

ASSUME LayerAssumption ==
    /\ N \in Nat \ {0}
    /\ NoStrategy \notin Strategies
    /\ "did_not_work" \in Outcomes /\ "none" \notin Outcomes
    /\ Overlap \in BOOLEAN
    /\ MaxElapsed \in 0 .. N

VARIABLES
    phase,          \* plan_phases.status
    strategy,       \* plan_strategies: status, outcome, phase_id
    task,           \* tasks: status, phase_id, strategy_id
    planPhase,      \* master_plans.phase, the integer derived from the layer
    elapsed,        \* how many windows the calendar has passed
    session,        \* what each session is doing
    lost            \* history: a task call was refused, or a request died

vars == <<phase, strategy, task, planPhase, elapsed, session, lost>>

PhaseStatuses == {"pending", "active", "complete"}
Terminal == {"concluded", "abandoned", "displaced"}
StrategyStatuses == {"absent", "proposed", "active"} \cup Terminal
StrategyRows == [status : StrategyStatuses, outcome : Outcomes \cup {"none"},
                 phase : Phases \cup {NoPhase}]
TaskRows == [status : {"absent", "pending", "in_progress", "completed"},
             begun : BOOLEAN, phase : Phases \cup {NoPhase},
             strategy : Strategies \cup {NoStrategy}]

NoStrategyRow == [status |-> "absent", outcome |-> "none", phase |-> NoPhase]
NoTaskRow == [status |-> "absent", begun |-> FALSE, phase |-> NoPhase,
              strategy |-> NoStrategy]

Known(x) == strategy[x].status # "absent"
Exists(t) == task[t].status # "absent"
Open(t) == task[t].status \in {"pending", "in_progress"}

-----------------------------------------------------------------------------
(* Where the plan is, and the evidence about it.                           *)

Depends(status, p) == p = 1 \/ status[p - 1] = "complete"

\* The active phase; failing one, the first incomplete phase whose dependency
\* is complete; none once every phase is.
Frontier(status) ==
    LET first(S) == IF S = {} THEN NoPhase
                    ELSE CHOOSE p \in S : \A q \in S : p <= q
        active == {p \in Phases : status[p] = "active"}
    IN IF active # {} THEN first(active)
       ELSE first({p \in Phases : status[p] # "complete" /\ Depends(status, p)})

Successor(p) == IF p < N THEN p + 1 ELSE NoPhase

\* Mutant: no answer when every phase is complete.
Derive_NoLast(status) == Frontier(status)

\* The legacy integer: the frontier's ordinal, the last one when all is done.
Derive(status) == IF Frontier(status) = NoPhase THEN N ELSE Frontier(status)

Scheduled(p) == {x \in Strategies : Known(x) /\ strategy[x].phase = p}
\* Mutant: only strategies under way count as unfinished.
Unfinished_Active(p) == {x \in Scheduled(p) : strategy[x].status = "active"}
Unfinished(p) == {x \in Scheduled(p) : strategy[x].status \notin Terminal}

\* `listed` are the tasks sys.v1.task.list_for_masterplan returned: all of
\* them, or none when the call was refused.
Direct(p, listed) ==
    {t \in listed : task[t].phase = p /\ task[t].strategy = NoStrategy}

WorkComplete(p, listed) ==
    /\ Direct(p, listed) # {} \/ Scheduled(p) # {}
    /\ \A t \in Direct(p, listed) : ~Open(t)
    /\ Unfinished(p) = {}

Closable(p, listed) == WorkComplete(p, listed) \/ p <= elapsed

-----------------------------------------------------------------------------
(* Requests.  `seen` are the rows as loaded and `mine` the rows as changed *)
(* in memory; a commit writes the columns in which they differ.            *)

Idle == [verb |-> "idle"]
Stored == [phase |-> phase, strategy |-> strategy]
Rows == [phase : [Phases -> PhaseStatuses],
         strategy : [Strategies -> StrategyRows]]

Calls ==
    [do : {"commit"}]
    \cup [do : {"set_phase"}, tasks : SUBSET Tasks, to : Phases]
    \cup [do : {"follow"}, of : Strategies, to : Phases]
    \cup [do : {"set_strategy"}, of : Strategies, tasks : SUBSET Tasks,
          to : Phases \cup {NoPhase}]
    \cup [do : {"release", "begin"}, of : Strategies]
    \cup [do : {"delete"}, task : Tasks]
    \cup [do : {"insert"}, task : Tasks, row : TaskRows]

Verbs == {"confirm", "reopen", "verdict", "move", "attach", "promote", "create"}

Busy == [verb : Verbs, phase : Phases \cup {NoPhase}, seen : Rows, mine : Rows,
         calls : Seq(Calls)]

MayServe(s) ==
    /\ session[s] = Idle
    /\ Overlap \/ \A r \in Sessions : session[r] = Idle

Take(s, verb, p, mine, calls) ==
    session' = [session EXCEPT ![s] =
                  [verb |-> verb, phase |-> p, seen |-> Stored, mine |-> mine,
                   calls |-> calls]]

Keep == UNCHANGED <<phase, strategy, task, planPhase, elapsed, lost>>

Task(call, T) == IF T = {} THEN <<>> ELSE <<call>>

\* The answers sys.v1.task.list_for_masterplan may give.
Listings ==
    {{t \in Tasks : Exists(t)}}
    \cup (IF "list" \in Refusable THEN {{}} ELSE {})

-----------------------------------------------------------------------------
(* Phases: confirm_phase_advance and reopen_phase.                         *)

Advanced(p) ==
    [q \in Phases |-> IF q = p THEN "complete"
                      ELSE IF q = Successor(p) THEN "active" ELSE phase[q]]

ConfirmAdvance(s, p, listed) ==
    LET next == Successor(p)
        moving == IF next = NoPhase THEN {} ELSE Unfinished(p)
        theirs == {t \in listed : task[t].strategy \in moving}
        direct == IF next = NoPhase THEN {} ELSE {t \in Direct(p, listed) : Open(t)}
        to(T) == [do |-> "set_phase", tasks |-> T, to |-> next]
    IN /\ MayServe(s)
       /\ p = Frontier(phase)
       /\ Closable(p, listed)
       /\ Take(s, "confirm", p,
               [phase |-> Advanced(p),
                strategy |-> [x \in Strategies |->
                    IF x \in moving THEN [strategy[x] EXCEPT !.phase = next]
                    ELSE strategy[x]]],
               Task(to(theirs), theirs) \o Task(to(direct), direct)
                   \o <<[do |-> "commit"]>>)
       /\ lost' = (lost \/ listed # {t \in Tasks : Exists(t)})
       /\ UNCHANGED <<phase, strategy, task, planPhase, elapsed>>

Reopened(p) ==
    [q \in Phases |-> IF q = p THEN "active"
                      ELSE IF q = Successor(p) /\ phase[q] = "active" THEN "pending"
                      ELSE phase[q]]

\* Mutant: any closed phase may reopen.
ReopenPhase_Any(s, p) ==
    /\ MayServe(s)
    /\ phase[p] = "complete"
    /\ Take(s, "reopen", p, [Stored EXCEPT !.phase = Reopened(p)],
            <<[do |-> "commit"]>>)
    /\ Keep

ReopenPhase(s, p) ==
    /\ MayServe(s)
    /\ phase[p] = "complete"
    /\ Successor(p) # NoPhase => Frontier(phase) = Successor(p)
    /\ Take(s, "reopen", p, [Stored EXCEPT !.phase = Reopened(p)],
            <<[do |-> "commit"]>>)
    /\ Keep

-----------------------------------------------------------------------------
(* Strategies.                                                             *)

\* create_strategy: one insert.  An emergent one is already under way.
CreateStrategy(s, x, p, status) ==
    /\ MayServe(s)
    /\ ~Known(x)
    /\ status \in {"proposed", "active"}
    /\ strategy' = [strategy EXCEPT ![x] =
                      [status |-> status, outcome |-> "none", phase |-> p]]
    /\ UNCHANGED <<phase, task, planPhase, elapsed, session, lost>>

Judge(s, x, status, outcome, calls) ==
    /\ MayServe(s)
    /\ Known(x)
    /\ Take(s, "verdict", NoPhase,
            [Stored EXCEPT !.strategy[x].status = status,
                           !.strategy[x].outcome = outcome], calls)
    /\ Keep

StartStrategy(s, x) ==
    /\ strategy[x].status \notin Terminal
    /\ Judge(s, x, "active", strategy[x].outcome, <<[do |-> "commit"]>>)

ConcludeStrategy(s, x, outcome) ==
    /\ strategy[x].status # "displaced"
    /\ Judge(s, x, "concluded", outcome, <<[do |-> "commit"]>>)

ReleaseThenCommit(x) == <<[do |-> "release", of |-> x], [do |-> "commit"]>>

AbandonStrategy(s, x, outcome) ==
    Judge(s, x, "abandoned", outcome, ReleaseThenCommit(x))

\* Mutant: a recorded verdict stays.
DisplaceStrategy_KeepVerdict(s, x) ==
    Judge(s, x, "displaced", strategy[x].outcome, ReleaseThenCommit(x))

DisplaceStrategy(s, x) ==
    Judge(s, x, "displaced", "none", ReleaseThenCommit(x))

\* move_strategy_route: the strategy is rescheduled, then its tasks follow.
MoveStrategy(s, x, p) ==
    /\ MayServe(s)
    /\ Known(x)
    /\ Take(s, "move", NoPhase, [Stored EXCEPT !.strategy[x].phase = p],
            <<[do |-> "commit"]>>
              \o IF p = NoPhase THEN <<>>
                 ELSE <<[do |-> "follow", of |-> x, to |-> p]>>)
    /\ Keep

AttachTasks(s, x, T) ==
    /\ MayServe(s)
    /\ Known(x)
    /\ T # {} /\ \A t \in T : Exists(t)
    /\ Take(s, "attach", NoPhase, Stored,
            <<[do |-> "set_strategy", of |-> x, tasks |-> T,
               to |-> strategy[x].phase]>>)
    /\ Keep

\* promote_task_to_strategy: the strategy is inserted, started if the task
\* was, and the task row deleted.
PromoteTask(s, t, x) ==
    LET row == [status |-> "proposed", outcome |-> "none", phase |-> task[t].phase]
        rows == [Stored EXCEPT !.strategy[x] = row]
    IN /\ MayServe(s)
       /\ Open(t)
       /\ ~Known(x)
       /\ strategy' = rows.strategy
       /\ session' = [session EXCEPT ![s] =
            [verb |-> "promote", phase |-> NoPhase, seen |-> rows, mine |-> rows,
             calls |-> (IF task[t].status = "in_progress"
                        THEN <<[do |-> "begin", of |-> x]>> ELSE <<>>)
                       \o <<[do |-> "delete", task |-> t]>>]]
       /\ UNCHANGED <<phase, task, planPhase, elapsed, lost>>

-----------------------------------------------------------------------------
(* Tasks, as the task domain changes them.                                 *)

\* sys.v1.masterplan.resolve_phase: the strategy's phase, the phase asked for,
\* or the plan's current one, the last when every phase is complete.
Resolved(x, p) ==
    CASE x # NoStrategy -> {strategy[x].phase}
      [] x = NoStrategy /\ p # NoPhase -> {p}
      [] OTHER -> {Derive(phase)}
                    \cup (IF "resolve" \in Refusable THEN {NoPhase} ELSE {})

\* The row id is a new one: no other request is about to insert it.
Fresh(t) ==
    /\ ~Exists(t)
    /\ \A r \in Sessions : session[r] # Idle =>
          \A i \in DOMAIN session[r].calls :
              session[r].calls[i].do = "insert" => session[r].calls[i].task # t

CreateTask(s, t, x, p, at) ==
    /\ MayServe(s)
    /\ Fresh(t)
    /\ x # NoStrategy => Known(x) /\ p = NoPhase
    /\ at \in Resolved(x, p)
    /\ Take(s, "create", NoPhase, Stored,
            <<[do |-> "insert", task |-> t,
               row |-> [NoTaskRow EXCEPT !.status = "pending", !.phase = at,
                                         !.strategy = x]]>>)
    /\ Keep

\* start_task looks at the start_time and never at the status: a task that was
\* completed without having been started may still be started.
StartTask(s, t) ==
    /\ MayServe(s)
    /\ Exists(t) /\ ~task[t].begun
    /\ task' = [task EXCEPT ![t].status = "in_progress", ![t].begun = TRUE]
    /\ UNCHANGED <<phase, strategy, planPhase, elapsed, session, lost>>

CompleteTask(s, t) ==
    /\ MayServe(s)
    /\ Open(t)
    /\ task' = [task EXCEPT ![t].status = "completed"]
    /\ UNCHANGED <<phase, strategy, planPhase, elapsed, session, lost>>

\* calculate_wcu re-reads the legacy integer off the layer.
Recalculate(s) ==
    /\ MayServe(s)
    /\ planPhase' = Derive(phase)
    /\ UNCHANGED <<phase, strategy, task, elapsed, session, lost>>

-----------------------------------------------------------------------------
(* The steps of a request.                                                 *)

\* The session's next step is a `do`.
Due(s, do) ==
    /\ session[s] # Idle
    /\ session[s].calls # <<>>
    /\ Head(session[s].calls).do = do

\* The columns a session changed, over the rows as they now are.
Merged(row, seen, mine) ==
    [f \in DOMAIN row |-> IF mine[f] # seen[f] THEN mine[f] ELSE row[f]]

Flush(s) ==
    LET r == session[s]
    IN /\ phase' = Merged(phase, r.seen.phase, r.mine.phase)
       /\ strategy' = [x \in Strategies |->
            Merged(strategy[x], r.seen.strategy[x], r.mine.strategy[x])]

\* What is left of the request once `call` is done and its rows are clean.
Rest(s) ==
    LET r == session[s]
    IN IF Tail(r.calls) = <<>> THEN Idle
       ELSE [r EXCEPT !.calls = Tail(r.calls), !.seen = r.mine]

\* A task call commits the session it runs on.
Call(s, do, change(_, _)) ==
    /\ Due(s, do)
    /\ Flush(s)
    /\ task' = [t \in Tasks |-> change(Head(session[s].calls), t)]
    /\ session' = [session EXCEPT ![s] = Rest(s)]
    /\ UNCHANGED <<planPhase, elapsed, lost>>

Attached(call, t) ==
    IF t \in call.tasks /\ Exists(t) THEN [task[t] EXCEPT !.phase = call.to]
    ELSE task[t]

Following(call, t) ==
    IF task[t].strategy = call.of THEN [task[t] EXCEPT !.phase = call.to]
    ELSE task[t]

\* Mutant: the phase does not come along.
Housed_InPlace(call, t) ==
    IF t \in call.tasks /\ Exists(t) THEN [task[t] EXCEPT !.strategy = call.of]
    ELSE task[t]

Housed(call, t) ==
    IF t \in call.tasks /\ Exists(t)
    THEN [task[t] EXCEPT !.strategy = call.of,
                         !.phase = IF call.to = NoPhase THEN @ ELSE call.to]
    ELSE task[t]

\* Mutant: completed tasks are detached as well.
Released_All(call, t) ==
    IF task[t].strategy = call.of THEN [task[t] EXCEPT !.strategy = NoStrategy]
    ELSE task[t]

Released(call, t) ==
    IF task[t].strategy = call.of /\ task[t].status # "completed"
    THEN [task[t] EXCEPT !.strategy = NoStrategy] ELSE task[t]

Deleted(call, t) ==
    IF t = call.task /\ task[t].status # "completed" THEN NoTaskRow ELSE task[t]

Inserted(call, t) == IF t = call.task THEN call.row ELSE task[t]

SetPhase(s) == Call(s, "set_phase", Attached)
Follow(s) == Call(s, "follow", Following)
SetStrategy(s) == Call(s, "set_strategy", Housed)
Release(s) == Call(s, "release", Released)
DeleteMany(s) == Call(s, "delete", Deleted)
Insert(s) == Call(s, "insert", Inserted)

\* Mutant: reopening leaves the legacy integer.
MovesPlan_ConfirmOnly(r) == r.verb = "confirm"

\* Is this a verb that derives the legacy integer?
MovesPlan(r) == r.verb \in {"confirm", "reopen"}

\* The verb's own commit.  The phase verbs derive the legacy integer first:
\* from the rows in memory, or from the stored ones when an earlier commit
\* has expired those.
Commit(s) ==
    LET r == session[s]
        status == IF r.mine.phase = r.seen.phase THEN phase ELSE r.mine.phase
    IN /\ Due(s, "commit")
       /\ Flush(s)
       /\ planPhase' = IF MovesPlan(r) THEN Derive(status)
                       ELSE planPhase
       /\ session' = [session EXCEPT ![s] = Rest(s)]
       /\ UNCHANGED <<task, elapsed, lost>>

\* start_strategy, as promote_task_to_strategy calls it before the deletion:
\* the row, expired by its insertion, is loaded again.
Begin(s) ==
    LET r == session[s]
        x == Head(r.calls).of
        rows == [Stored EXCEPT !.strategy[x].status = "active"]
    IN /\ Due(s, "begin")
       /\ strategy[x].status \notin Terminal
       /\ strategy' = rows.strategy
       /\ session' = [session EXCEPT ![s] =
            [r EXCEPT !.calls = Tail(@), !.seen = rows, !.mine = rows]]
       /\ UNCHANGED <<phase, task, planPhase, elapsed, lost>>

\* A task call that raises or is refused is logged, and the verb goes on.
Refuse(s) ==
    /\ \E do \in Refusable : Due(s, do)
    /\ session' = [session EXCEPT ![s] =
         IF Tail(session[s].calls) = <<>> THEN Idle
         ELSE [session[s] EXCEPT !.calls = Tail(session[s].calls)]]
    /\ lost' = TRUE
    /\ UNCHANGED <<phase, strategy, task, planPhase, elapsed>>

\* The process ends: what was not committed is gone.
Crash(s) ==
    /\ session[s] # Idle
    /\ session' = [session EXCEPT ![s] = Idle]
    /\ lost' = TRUE
    /\ UNCHANGED <<phase, strategy, task, planPhase, elapsed>>

\* The calendar passes the end of the next window.
Elapse ==
    /\ elapsed < MaxElapsed
    /\ elapsed' = elapsed + 1
    /\ UNCHANGED <<phase, strategy, task, planPhase, session, lost>>

-----------------------------------------------------------------------------
Init ==
    /\ phase = [p \in Phases |-> "pending"]
    /\ strategy = [x \in Strategies |-> NoStrategyRow]
    /\ task = [t \in Tasks |-> NoTaskRow]
    /\ planPhase = 1
    /\ elapsed = 0
    /\ session = [s \in Sessions |-> Idle]
    /\ lost = FALSE

PhaseVerb(s) ==
    \E p \in Phases :
        \/ \E listed \in Listings : ConfirmAdvance(s, p, listed)
        \/ ReopenPhase(s, p)

StrategyVerb(s) ==
    \E x \in Strategies :
        \/ \E p \in Phases \cup {NoPhase} :
              \/ MoveStrategy(s, x, p)
              \/ \E status \in {"proposed", "active"} : CreateStrategy(s, x, p, status)
        \/ StartStrategy(s, x)
        \/ DisplaceStrategy(s, x)
        \/ \E o \in Outcomes : ConcludeStrategy(s, x, o) \/ AbandonStrategy(s, x, o)
        \/ \E T \in SUBSET Tasks : AttachTasks(s, x, T)
        \/ \E t \in Tasks : PromoteTask(s, t, x)

TaskVerb(s) ==
    \E t \in Tasks :
        \/ StartTask(s, t)
        \/ CompleteTask(s, t)
        \/ \E x \in Strategies \cup {NoStrategy}, p, at \in Phases \cup {NoPhase} :
              CreateTask(s, t, x, p, at)

Step(s) ==
    \/ SetPhase(s) \/ Follow(s) \/ SetStrategy(s) \/ Release(s)
    \/ DeleteMany(s) \/ Insert(s) \/ Commit(s) \/ Begin(s)
    \/ Refuse(s) \/ Crash(s)

Next ==
    \/ \E s \in Sessions :
          PhaseVerb(s) \/ StrategyVerb(s) \/ TaskVerb(s) \/ Recalculate(s) \/ Step(s)
    \/ Elapse

Spec == Init /\ [][Next]_vars

-----------------------------------------------------------------------------
(* Properties.                                                             *)

TypeOK ==
    /\ phase \in [Phases -> PhaseStatuses]
    /\ strategy \in [Strategies -> StrategyRows]
    /\ task \in [Tasks -> TaskRows]
    /\ planPhase \in Phases
    /\ elapsed \in 0 .. MaxElapsed
    /\ session \in [Sessions -> Busy \cup {Idle}]
    /\ lost \in BOOLEAN

\* The complete phases are a prefix of the chain, and a phase is active only
\* right behind it: "a hole in the middle of it is not a state the plan can
\* be in" (reopen_phase).
ChainHolds ==
    \A p \in Phases : phase[p] # "pending" =>
        \A q \in Phases : q < p => phase[q] = "complete"

\* A strategy has an outcome exactly while it is concluded or abandoned: no
\* order of verbs, refused calls and deaths leaves a displaced, a proposed or a
\* started one with the verdict of another time, or a judged one without.  That
\* the strategy was tried is another matter: see DisplacedStaysUnjudged.
VerdictFitsStatus ==
    \A x \in Strategies :
        strategy[x].outcome # "none" <=> strategy[x].status \in {"concluded", "abandoned"}

\* "A displaced strategy has no outcome, ever.  It was never tried" (invariant 1
\* of strategy_layer_service.py).  The code does not do so: abandon_strategy looks
\* at no status, and judges a displaced one.  Checked by no run; README tells it.
DisplacedStaysUnjudged ==
    [][\A x \in Strategies :
          strategy[x].status = "displaced" => strategy'[x].outcome = "none"]_vars

\* No verb deletes a completed task or takes it from the approach it was done
\* under, whatever becomes of that approach; only starting it reopens it.
CompletedWorkKept ==
    \A t \in Tasks : task[t].status = "completed" =>
        /\ \/ task'[t].status = "completed"
           \/ task'[t].status = "in_progress" /\ ~task[t].begun
        /\ task[t].strategy # NoStrategy => task'[t].strategy # NoStrategy

AllIdle == \A s \in Sessions : session[s] = Idle

\* Between requests, unless a call was refused, a task under a scheduled
\* strategy is scheduled where the strategy is.
TasksWithTheirStrategy ==
    AllIdle /\ ~lost =>
        \A t \in Tasks : task[t].strategy # NoStrategy =>
            strategy[task[t].strategy].phase \in {NoPhase, task[t].phase}

\* Between requests the legacy integer is the one the layer derives, unless a
\* confirmation died before its last commit.
LegacyPhaseFollows == AllIdle /\ ~lost => planPhase = Derive(phase)

\* The two together: between requests the layer, its tasks and the legacy
\* integer agree, however many commits the requests were made of.
LayerAgrees == TasksWithTheirStrategy /\ LegacyPhaseFollows

Ends(s, verb) == session[s] # Idle /\ session[s].verb = verb /\ session'[s] = Idle

OpenTask(t) == task[t].status \in {"pending", "in_progress"}

\* A task that a phase's closing may leave open in it: its strategy is
\* finished, or is scheduled nowhere.
StaysBehind(t) ==
    task[t].strategy # NoStrategy
        /\ LET row == strategy[task[t].strategy]
           IN row.status \in Terminal \/ row.phase = NoPhase

\* A confirmation that lost no call leaves in the closed phase no open task
\* but those that stay behind, and no unfinished strategy.
OpenWorkMovesOn ==
    \A s \in Sessions :
        Ends(s, "confirm") /\ ~lost' /\ session[s].phase < N =>
            /\ \A t \in Tasks :
                  OpenTask(t)' /\ task'[t].phase = session[s].phase => StaysBehind(t)'
            /\ \A x \in Strategies :
                  Known(x)' /\ strategy'[x].phase = session[s].phase
                      => strategy'[x].status \in Terminal

\* The two together: work that is done is kept, work that is open moves on.
WorkFollows == [][CompletedWorkKept /\ OpenWorkMovesOn]_vars

\* "A closed phase cannot hold open work" (confirm_phase_advance): a
\* confirmation that lost no call leaves no open task in the phase it closed.
\* The code does not do so: README names the constants under which TLC says it.
ClosedPhaseIsClear ==
    [][\A s \in Sessions :
          Ends(s, "confirm") /\ ~lost' /\ session[s].phase < N =>
              \A t \in Tasks : OpenTask(t)' => task'[t].phase # session[s].phase]_vars
=============================================================================
