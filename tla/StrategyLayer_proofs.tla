------------------------ MODULE StrategyLayer_proofs ------------------------
(***************************************************************************)
(* Proofs about StrategyLayer.  For every instance: type correctness, and  *)
(* that completed work stays where it is (requests may overlap).  When no  *)
(* two requests overlap: the chain of phases has no hole, a strategy       *)
(* carries a verdict exactly when it was judged, the layer agrees with its *)
(* tasks and the legacy integer, and open work moves on.                   *)
(***************************************************************************)
EXTENDS StrategyLayer, SequenceTheorems, WellFoundedInduction, TLAPS

Statuses == [Phases -> PhaseStatuses]

LEMMA PhasesType == N \in Nat \ {0} /\ Phases = 1 .. N /\ NoPhase = 0
BY LayerAssumption DEF Phases, NoPhase

\* A nonempty set of phases has a first one.
LEMMA FirstPhase ==
    ASSUME NEW S \in SUBSET Phases, S # {}
    PROVE  \E p \in S : \A q \in S : p <= q
<1> DEFINE R == {ss \in Nat \X Nat : ss[1] < ss[2]}
<1>1. OpToRel(<, Nat) = R
  BY DEF OpToRel
<1>2. IsWellFoundedOn(R, Nat)
  BY <1>1, NatLessThanWellFounded, Zenon
<1>3. S \subseteq Nat
  BY PhasesType
<1> HIDE DEF R
<1>4. PICK p \in S : \A q \in S : <<q, p>> \notin R
  BY <1>2, <1>3, WFMin, Zenon
<1>5. \A q \in S : ~(q < p)
  BY <1>3, <1>4 DEF R
<1> QED
  BY <1>3, <1>5

\* The frontier is no phase, or one that is active, or one that is incomplete
\* and whose dependency is complete.
LEMMA FrontierIs ==
    ASSUME NEW status \in Statuses
    PROVE  /\ Frontier(status) \in Phases \cup {NoPhase}
           /\ Frontier(status) \in Phases =>
                \/ status[Frontier(status)] = "active"
                \/ /\ status[Frontier(status)] # "complete"
                   /\ Depends(status, Frontier(status))
<1> DEFINE first(S) == IF S = {} THEN NoPhase
                       ELSE CHOOSE p \in S : \A q \in S : p <= q
           active == {p \in Phases : status[p] = "active"}
           ready == {p \in Phases : status[p] # "complete" /\ Depends(status, p)}
<1>1. ASSUME NEW S \in SUBSET Phases PROVE first(S) \in S \cup {NoPhase}
  BY FirstPhase
<1>2. ASSUME NEW S \in SUBSET Phases, S # {} PROVE first(S) \in S
  BY <1>2, FirstPhase
<1>3. Frontier(status) = IF active # {} THEN first(active) ELSE first(ready)
  BY DEF Frontier
<1>4. active \in SUBSET Phases /\ ready \in SUBSET Phases
  OBVIOUS
<1>5. CASE active # {}
  <2>1. first(active) \in active
    BY <1>2, <1>4, <1>5
  <2> QED
    BY <1>3, <1>5, <2>1
<1>6. CASE active = {}
  <2>1. first(ready) \in ready \cup {NoPhase}
    BY <1>1, <1>4
  <2>2. NoPhase \notin Phases
    BY PhasesType
  <2> QED
    BY <1>3, <1>6, <2>1, <2>2
<1> QED
  BY <1>5, <1>6

LEMMA DeriveType ==
    ASSUME NEW status \in Statuses
    PROVE  Derive(status) \in Phases
BY FrontierIs, PhasesType DEF Derive

LEMMA SuccessorType ==
    ASSUME NEW p \in Phases
    PROVE  /\ Successor(p) \in Phases \cup {NoPhase}
           /\ Successor(p) # NoPhase => Successor(p) = p + 1 /\ p + 1 \in Phases
BY PhasesType DEF Successor

-----------------------------------------------------------------------------
(* Type correctness.                                                       *)

LEMMA StoredType == TypeOK => Stored \in Rows
BY DEF TypeOK, Stored, Rows

\* One step, and one step after another, are a list of steps.
LEMMA CallsType ==
    /\ <<>> \in Seq(Calls)
    /\ \A c \in Calls : <<c>> \in Seq(Calls)
    /\ \A c, d \in Calls : <<c, d>> \in Seq(Calls)
    /\ \A u, v \in Seq(Calls) : u \o v \in Seq(Calls)
    /\ \A c, T : c \in Calls => Task(c, T) \in Seq(Calls)
<1>1. /\ <<>> \in Seq(Calls)
      /\ \A c \in Calls : <<c>> \in Seq(Calls)
      /\ \A c, d \in Calls : <<c, d>> \in Seq(Calls)
  OBVIOUS
<1>2. \A u, v \in Seq(Calls) : u \o v \in Seq(Calls)
  BY ConcatProperties
<1> QED
  BY <1>1, <1>2 DEF Task

\* Taking up a request.
LEMMA TakeType ==
    ASSUME TypeOK, NEW s \in Sessions, NEW verb \in Verbs,
           NEW p \in Phases \cup {NoPhase}, NEW mine \in Rows,
           NEW calls \in Seq(Calls), Take(s, verb, p, mine, calls)
    PROVE  session' \in [Sessions -> Busy \cup {Idle}]
<1>1. [verb |-> verb, phase |-> p, seen |-> Stored, mine |-> mine,
       calls |-> calls] \in Busy
  BY StoredType DEF Busy
<1> QED
  BY <1>1 DEF Take, TypeOK

\* What remains of a request after one of its steps.
LEMMA RestType ==
    ASSUME TypeOK, NEW s \in Sessions, session[s] # Idle,
           session[s].calls # <<>>
    PROVE  /\ session[s] \in Busy
           /\ Head(session[s].calls) \in Calls
           /\ Rest(s) \in Busy \cup {Idle}
           /\ [session[s] EXCEPT !.calls = Tail(session[s].calls)] \in Busy
<1>1. session[s] \in Busy
  BY DEF TypeOK
<1>2. session[s].calls \in Seq(Calls)
  BY <1>1 DEF Busy
<1>3. Head(session[s].calls) \in Calls /\ Tail(session[s].calls) \in Seq(Calls)
  BY <1>2, HeadTailProperties
<1>4. Rest(s) \in Busy \cup {Idle}
  BY <1>1, <1>3 DEF Rest, Busy
<1>5. [session[s] EXCEPT !.calls = Tail(session[s].calls)] \in Busy
  BY <1>1, <1>3 DEF Busy
<1> QED
  BY <1>1, <1>3, <1>4, <1>5

LEMMA FlushType ==
    ASSUME TypeOK, NEW s \in Sessions, session[s] \in Busy, Flush(s)
    PROVE  /\ phase' \in Statuses
           /\ strategy' \in [Strategies -> StrategyRows]
<1>1. /\ session[s].seen \in Rows
      /\ session[s].mine \in Rows
  BY DEF Busy
<1>2. phase' \in Statuses
  BY <1>1 DEF Flush, Merged, Rows, TypeOK, Statuses
<1>3. ASSUME NEW x \in Strategies
      PROVE  Merged(strategy[x], session[s].seen.strategy[x],
                    session[s].mine.strategy[x]) \in StrategyRows
  <2>1. /\ strategy[x] \in StrategyRows
        /\ session[s].mine.strategy[x] \in StrategyRows
    BY <1>1 DEF Rows, TypeOK
  <2>2. DOMAIN strategy[x] = {"status", "outcome", "phase"}
    BY <2>1 DEF StrategyRows
  <2> DEFINE row == strategy[x]  mine == session[s].mine.strategy[x]
             seen == session[s].seen.strategy[x]
  <2>3. Merged(row, seen, mine) =
          [f \in {"status", "outcome", "phase"} |->
             IF mine[f] # seen[f] THEN mine[f] ELSE row[f]]
    BY <2>2 DEF Merged
  <2>4. Merged(row, seen, mine) =
          [status |-> IF mine.status # seen.status THEN mine.status ELSE row.status,
           outcome |-> IF mine.outcome # seen.outcome THEN mine.outcome ELSE row.outcome,
           phase |-> IF mine.phase # seen.phase THEN mine.phase ELSE row.phase]
    BY <2>3
  <2> QED
    BY <2>1, <2>4 DEF StrategyRows
<1> QED
  BY <1>2, <1>3 DEF Flush


LEMMA InitType == Init => TypeOK
<1>1. NoStrategyRow \in StrategyRows /\ NoTaskRow \in TaskRows
  BY DEF NoStrategyRow, NoTaskRow, StrategyRows, StrategyStatuses, TaskRows
<1>2. 1 \in Phases /\ 0 \in 0 .. MaxElapsed
  BY PhasesType, LayerAssumption
<1> QED
  BY <1>1, <1>2 DEF Init, TypeOK, PhaseStatuses

LEMMA AdvancedType ==
    ASSUME TypeOK, NEW p \in Phases
    PROVE  Advanced(p) \in Statuses
BY DEF Advanced, Statuses, TypeOK, PhaseStatuses

LEMMA ReopenedType ==
    ASSUME TypeOK, NEW p \in Phases
    PROVE  Reopened(p) \in Statuses
BY DEF Reopened, Statuses, TypeOK, PhaseStatuses

LEMMA ConfirmType ==
    ASSUME TypeOK, NEW s \in Sessions, NEW p \in Phases, NEW listed \in Listings,
           ConfirmAdvance(s, p, listed)
    PROVE  TypeOK'
<1> DEFINE next == Successor(p)
           moving == IF next = NoPhase THEN {} ELSE Unfinished(p)
           theirs == {t \in listed : task[t].strategy \in moving}
           direct == IF next = NoPhase THEN {} ELSE {t \in Direct(p, listed) : Open(t)}
           to(T) == [do |-> "set_phase", tasks |-> T, to |-> next]
           mine == [phase |-> Advanced(p),
                    strategy |-> [x \in Strategies |->
                        IF x \in moving THEN [strategy[x] EXCEPT !.phase = next]
                        ELSE strategy[x]]]
           calls == Task(to(theirs), theirs) \o Task(to(direct), direct)
                      \o <<[do |-> "commit"]>>
<1>1. Take(s, "confirm", p, mine, calls)
  BY DEF ConfirmAdvance
<1>2. next \in Phases \cup {NoPhase}
  BY SuccessorType
<1>3. mine.strategy \in [Strategies -> StrategyRows]
  BY <1>2 DEF TypeOK, StrategyRows
<1>4. mine \in Rows
  BY <1>3, AdvancedType DEF Rows, Statuses
<1>5. listed \subseteq Tasks
  BY DEF Listings
<1>6. theirs \in SUBSET Tasks /\ direct \in SUBSET Tasks
  BY <1>5 DEF Direct
<1>7. calls \in Seq(Calls)
  <2>1. <<[do |-> "commit"]>> \in Seq(Calls)
    BY CallsType DEF Calls
  <2>2. ASSUME NEW T \in SUBSET Tasks, next = NoPhase => T = {}
        PROVE  Task(to(T), T) \in Seq(Calls)
    <3>1. CASE T = {}
      BY <3>1, CallsType DEF Task
    <3>2. CASE T # {}
      <4>1. next \in Phases
        BY <3>2, <2>2, <1>2
      <4>2. to(T) \in Calls
        BY <4>1 DEF Calls
      <4> QED
        BY <4>2, CallsType
    <3> QED
      BY <3>1, <3>2
  <2>3. next = NoPhase => theirs = {} /\ direct = {}
    OBVIOUS
  <2>4. Task(to(theirs), theirs) \in Seq(Calls) /\ Task(to(direct), direct) \in Seq(Calls)
    BY <2>2, <2>3, <1>6
  <2> QED
    BY <2>1, <2>4, CallsType
<1>8. session' \in [Sessions -> Busy \cup {Idle}]
  <2> HIDE DEF mine, calls
  <2> QED
    BY <1>1, <1>4, <1>7, TakeType DEF Verbs
<1>9. lost' \in BOOLEAN /\ UNCHANGED <<phase, strategy, task, planPhase, elapsed>>
  BY DEF ConfirmAdvance, TypeOK
<1> QED
  BY <1>8, <1>9 DEF TypeOK

LEMMA ReopenType ==
    ASSUME TypeOK, NEW s \in Sessions, NEW p \in Phases, ReopenPhase(s, p)
    PROVE  TypeOK'
<1>1. [Stored EXCEPT !.phase = Reopened(p)] \in Rows
  BY StoredType, ReopenedType DEF Rows, Statuses
<1>2. <<[do |-> "commit"]>> \in Seq(Calls)
  BY CallsType DEF Calls
<1>3. session' \in [Sessions -> Busy \cup {Idle}]
  BY <1>1, <1>2, TakeType DEF ReopenPhase, Verbs
<1> QED
  BY <1>3 DEF ReopenPhase, Keep, TypeOK

LEMMA CreateStrategyType ==
    ASSUME TypeOK, NEW s \in Sessions, NEW x \in Strategies,
           NEW p \in Phases \cup {NoPhase}, NEW status, CreateStrategy(s, x, p, status)
    PROVE  TypeOK'
<1>1. [status |-> status, outcome |-> "none", phase |-> p] \in StrategyRows
  BY DEF CreateStrategy, StrategyRows, StrategyStatuses
<1> QED
  BY <1>1 DEF CreateStrategy, TypeOK

\* The verdicts, and a start, which are taken up in the same way.
LEMMA JudgeType ==
    ASSUME TypeOK, NEW s \in Sessions, NEW x \in Strategies,
           NEW status \in StrategyStatuses, NEW outcome \in Outcomes \cup {"none"},
           NEW calls \in Seq(Calls), Judge(s, x, status, outcome, calls)
    PROVE  TypeOK'
<1> DEFINE mine == [Stored EXCEPT !.strategy[x].status = status,
                                  !.strategy[x].outcome = outcome]
<1>1. mine.strategy = [strategy EXCEPT ![x] = [@ EXCEPT !.status = status,
                                                       !.outcome = outcome]]
  BY DEF Stored, TypeOK
<1>2. [strategy[x] EXCEPT !.status = status, !.outcome = outcome] \in StrategyRows
  BY DEF TypeOK, StrategyRows
<1>3. mine \in Rows
  BY <1>1, <1>2 DEF Rows, TypeOK, Stored
<1>4. session' \in [Sessions -> Busy \cup {Idle}]
  BY <1>3, TakeType DEF Judge, Verbs, NoPhase
<1> QED
  BY <1>4 DEF Judge, Keep, TypeOK

LEMMA VerdictCalls ==
    ASSUME NEW x \in Strategies
    PROVE  /\ <<[do |-> "commit"]>> \in Seq(Calls)
           /\ ReleaseThenCommit(x) \in Seq(Calls)
<1>1. [do |-> "commit"] \in Calls /\ [do |-> "release", of |-> x] \in Calls
  BY DEF Calls
<1> QED
  BY <1>1, CallsType DEF ReleaseThenCommit

LEMMA VerdictType ==
    ASSUME TypeOK, NEW s \in Sessions, NEW x \in Strategies
    PROVE  /\ StartStrategy(s, x) => TypeOK'
           /\ DisplaceStrategy(s, x) => TypeOK'
           /\ \A o \in Outcomes : ConcludeStrategy(s, x, o) \/ AbandonStrategy(s, x, o)
                => TypeOK'
<1>1. strategy[x].outcome \in Outcomes \cup {"none"}
  BY DEF TypeOK, StrategyRows
<1>2. {"active", "concluded", "abandoned", "displaced"} \subseteq StrategyStatuses
  BY DEF StrategyStatuses, Terminal
<1>3. StartStrategy(s, x) => TypeOK'
  BY <1>1, <1>2, VerdictCalls, JudgeType DEF StartStrategy
<1>4. DisplaceStrategy(s, x) => TypeOK'
  BY <1>2, VerdictCalls, JudgeType DEF DisplaceStrategy
<1>5. ASSUME NEW o \in Outcomes PROVE ConcludeStrategy(s, x, o) => TypeOK'
  BY <1>2, VerdictCalls, JudgeType DEF ConcludeStrategy
<1>6. ASSUME NEW o \in Outcomes PROVE AbandonStrategy(s, x, o) => TypeOK'
  BY <1>2, VerdictCalls, JudgeType DEF AbandonStrategy
<1> QED
  BY <1>3, <1>4, <1>5, <1>6

LEMMA MoveType ==
    ASSUME TypeOK, NEW s \in Sessions, NEW x \in Strategies,
           NEW p \in Phases \cup {NoPhase}, MoveStrategy(s, x, p)
    PROVE  TypeOK'
<1> DEFINE mine == [Stored EXCEPT !.strategy[x].phase = p]
           tail == IF p = NoPhase THEN <<>>
                   ELSE <<[do |-> "follow", of |-> x, to |-> p]>>
           calls == <<[do |-> "commit"]>> \o tail
<1>1. mine.strategy = [strategy EXCEPT ![x] = [@ EXCEPT !.phase = p]]
  BY DEF Stored, TypeOK
<1>2. [strategy[x] EXCEPT !.phase = p] \in StrategyRows
  BY DEF TypeOK, StrategyRows
<1>3. mine \in Rows
  BY <1>1, <1>2 DEF Rows, TypeOK, Stored
<1>4. <<[do |-> "commit"]>> \in Seq(Calls)
  BY CallsType DEF Calls
<1>5. tail \in Seq(Calls)
  <2>1. CASE p = NoPhase
    BY <2>1, CallsType
  <2>2. CASE p # NoPhase
    <3>1. [do |-> "follow", of |-> x, to |-> p] \in Calls
      BY <2>2 DEF Calls
    <3> QED
      BY <2>2, <3>1, CallsType
  <2> QED
    BY <2>1, <2>2
<1>6. calls \in Seq(Calls)
  BY <1>4, <1>5, CallsType
<1>7. session' \in [Sessions -> Busy \cup {Idle}]
  <2>1. Take(s, "move", NoPhase, mine, calls)
    BY DEF MoveStrategy
  <2> HIDE DEF mine, calls
  <2> QED
    BY <2>1, <1>3, <1>6, TakeType DEF Verbs
<1> QED
  BY <1>7 DEF MoveStrategy, Keep, TypeOK

LEMMA AttachType ==
    ASSUME TypeOK, NEW s \in Sessions, NEW x \in Strategies, NEW T \in SUBSET Tasks,
           AttachTasks(s, x, T)
    PROVE  TypeOK'
<1> DEFINE call == [do |-> "set_strategy", of |-> x, tasks |-> T,
                    to |-> strategy[x].phase]
<1>1. strategy[x].phase \in Phases \cup {NoPhase}
  BY DEF TypeOK, StrategyRows
<1>2. call \in Calls
  BY <1>1 DEF Calls
<1>3. <<call>> \in Seq(Calls)
  BY <1>2, CallsType
<1>4. session' \in [Sessions -> Busy \cup {Idle}]
  <2>1. Take(s, "attach", NoPhase, Stored, <<call>>)
    BY DEF AttachTasks
  <2> HIDE DEF call
  <2> QED
    BY <2>1, <1>3, StoredType, TakeType DEF Verbs
<1> QED
  BY <1>4 DEF AttachTasks, Keep, TypeOK

LEMMA PromoteType ==
    ASSUME TypeOK, NEW s \in Sessions, NEW x \in Strategies, NEW t \in Tasks,
           PromoteTask(s, t, x)
    PROVE  TypeOK'
<1> DEFINE row == [status |-> "proposed", outcome |-> "none", phase |-> task[t].phase]
           rows == [Stored EXCEPT !.strategy[x] = row]
           first == IF task[t].status = "in_progress"
                    THEN <<[do |-> "begin", of |-> x]>> ELSE <<>>
           calls == first \o <<[do |-> "delete", task |-> t]>>
           request == [verb |-> "promote", phase |-> NoPhase, seen |-> rows,
                       mine |-> rows, calls |-> calls]
<1>1. row \in StrategyRows
  BY DEF TypeOK, TaskRows, StrategyRows, StrategyStatuses
<1>2. rows.strategy = [strategy EXCEPT ![x] = row]
  BY DEF Stored
<1>3. rows \in Rows
  BY <1>1, <1>2 DEF Rows, Stored, TypeOK
<1>4. [do |-> "begin", of |-> x] \in Calls /\ [do |-> "delete", task |-> t] \in Calls
  BY DEF Calls
<1>5. calls \in Seq(Calls)
  <2>1. first \in Seq(Calls)
    BY <1>4, CallsType
  <2>2. <<[do |-> "delete", task |-> t]>> \in Seq(Calls)
    BY <1>4, CallsType
  <2> HIDE DEF first
  <2> QED
    BY <2>1, <2>2, CallsType
<1>6. request \in Busy
  <2> HIDE DEF rows, calls
  <2> QED
    BY <1>3, <1>5 DEF Busy, Verbs
<1>7. session' = [session EXCEPT ![s] = request]
  BY DEF PromoteTask
<1>8. strategy' \in [Strategies -> StrategyRows]
  BY <1>1, <1>2 DEF PromoteTask, TypeOK
<1>9. UNCHANGED <<phase, task, planPhase, elapsed, lost>>
  BY DEF PromoteTask
<1> HIDE DEF request
<1> QED
  BY <1>6, <1>7, <1>8, <1>9 DEF TypeOK

LEMMA CreateTaskType ==
    ASSUME TypeOK, NEW s \in Sessions, NEW t \in Tasks,
           NEW x \in Strategies \cup {NoStrategy}, NEW p \in Phases \cup {NoPhase},
           NEW at \in Phases \cup {NoPhase}, CreateTask(s, t, x, p, at)
    PROVE  TypeOK'
<1> DEFINE row == [NoTaskRow EXCEPT !.status = "pending", !.phase = at,
                                     !.strategy = x]
           call == [do |-> "insert", task |-> t, row |-> row]
<1>1. row \in TaskRows
  BY DEF TaskRows, NoTaskRow
<1>2. call \in Calls
  BY <1>1 DEF Calls
<1>3. <<call>> \in Seq(Calls)
  BY <1>2, CallsType
<1>4. session' \in [Sessions -> Busy \cup {Idle}]
  <2>1. Take(s, "create", NoPhase, Stored, <<call>>)
    BY DEF CreateTask
  <2> HIDE DEF call
  <2> QED
    BY <2>1, <1>3, StoredType, TakeType DEF Verbs
<1> QED
  BY <1>4 DEF CreateTask, Keep, TypeOK

LEMMA WorkOnType ==
    ASSUME TypeOK, NEW s \in Sessions, NEW t \in Tasks,
           StartTask(s, t) \/ CompleteTask(s, t)
    PROVE  TypeOK'
BY DEF StartTask, CompleteTask, TypeOK, TaskRows

\* A step that flushes the session's rows and moves on keeps the types.
LEMMA FlushingType ==
    ASSUME TypeOK, NEW s \in Sessions, session[s] # Idle, session[s].calls # <<>>,
           Flush(s), session' = [session EXCEPT ![s] = Rest(s)],
           task' \in [Tasks -> TaskRows], planPhase' \in Phases,
           UNCHANGED <<elapsed, lost>>
    PROVE  TypeOK'
<1>1. Rest(s) \in Busy \cup {Idle} /\ session[s] \in Busy
  BY RestType
<1>2. phase' \in Statuses /\ strategy' \in [Strategies -> StrategyRows]
  BY <1>1, FlushType
<1> QED
  BY <1>1, <1>2 DEF TypeOK, Statuses

\* What each call makes of a task's row is a row.
LEMMA ChangeType ==
    ASSUME TypeOK, NEW call \in Calls, NEW t \in Tasks
    PROVE  /\ call.do = "set_phase" => Attached(call, t) \in TaskRows
           /\ call.do = "follow" => Following(call, t) \in TaskRows
           /\ call.do = "set_strategy" => Housed(call, t) \in TaskRows
           /\ call.do = "release" => Released(call, t) \in TaskRows
           /\ call.do = "delete" => Deleted(call, t) \in TaskRows
           /\ call.do = "insert" => Inserted(call, t) \in TaskRows
<1>1. task[t] \in TaskRows
  BY DEF TypeOK
<1>2. call.do = "set_phase" => call.to \in Phases
  BY DEF Calls
<1>3. call.do = "follow" => call.to \in Phases
  BY DEF Calls
<1>4. call.do = "set_strategy" => call.of \in Strategies /\ call.to \in Phases \cup {NoPhase}
  BY DEF Calls
<1>5. call.do = "insert" => call.row \in TaskRows
  BY DEF Calls
<1>6. call.do = "set_phase" => Attached(call, t) \in TaskRows
  BY <1>1, <1>2 DEF Attached, TaskRows
<1>7. call.do = "follow" => Following(call, t) \in TaskRows
  BY <1>1, <1>3 DEF Following, TaskRows
<1>8. call.do = "set_strategy" => Housed(call, t) \in TaskRows
  BY <1>1, <1>4 DEF Housed, TaskRows
<1>9. Released(call, t) \in TaskRows /\ Deleted(call, t) \in TaskRows
  BY <1>1 DEF Released, Deleted, TaskRows, NoTaskRow
<1>10. call.do = "insert" => Inserted(call, t) \in TaskRows
  BY <1>1, <1>5 DEF Inserted
<1> QED
  BY <1>6, <1>7, <1>8, <1>9, <1>10

TaskCall(s) ==
    \/ SetPhase(s) \/ Follow(s) \/ SetStrategy(s)
    \/ Release(s) \/ DeleteMany(s) \/ Insert(s)

\* What the task calls have in common.
LEMMA TaskCallIs ==
    ASSUME TypeOK, NEW s \in Sessions, TaskCall(s)
    PROVE  /\ session[s] # Idle
           /\ session[s].calls # <<>>
           /\ Flush(s)
           /\ session' = [session EXCEPT ![s] = Rest(s)]
           /\ task' \in [Tasks -> TaskRows]
           /\ UNCHANGED <<planPhase, elapsed, lost>>
<1>1. /\ session[s] # Idle
      /\ session[s].calls # <<>>
      /\ Flush(s)
      /\ session' = [session EXCEPT ![s] = Rest(s)]
      /\ UNCHANGED <<planPhase, elapsed, lost>>
  BY DEF TaskCall, SetPhase, Follow, SetStrategy, Release, DeleteMany, Insert, Call, Due
<1> DEFINE call == Head(session[s].calls)
<1>2. call \in Calls
  BY <1>1, RestType
<1>3. task' \in [Tasks -> TaskRows]
  <2>1. CASE SetPhase(s)
    BY <2>1, <1>2, ChangeType DEF SetPhase, Call, Due
  <2>2. CASE Follow(s)
    BY <2>2, <1>2, ChangeType DEF Follow, Call, Due
  <2>3. CASE SetStrategy(s)
    BY <2>3, <1>2, ChangeType DEF SetStrategy, Call, Due
  <2>4. CASE Release(s)
    BY <2>4, <1>2, ChangeType DEF Release, Call, Due
  <2>5. CASE DeleteMany(s)
    BY <2>5, <1>2, ChangeType DEF DeleteMany, Call, Due
  <2>6. CASE Insert(s)
    BY <2>6, <1>2, ChangeType DEF Insert, Call, Due
  <2> QED
    BY <2>1, <2>2, <2>3, <2>4, <2>5, <2>6 DEF TaskCall
<1> QED
  BY <1>1, <1>3

LEMMA CommitType ==
    ASSUME TypeOK, NEW s \in Sessions, Commit(s)
    PROVE  TypeOK'
<1>1. session[s] # Idle /\ session[s].calls # <<>> /\ Flush(s)
  BY DEF Commit, Due
<1>2. session[s] \in Busy
  BY <1>1, RestType
<1>3. phase \in Statuses /\ session[s].mine.phase \in Statuses
  BY <1>2 DEF Busy, Rows, TypeOK, Statuses
<1>4. Derive(phase) \in Phases /\ Derive(session[s].mine.phase) \in Phases
  BY <1>3, DeriveType
<1>5. planPhase' \in Phases
  BY <1>4 DEF Commit, TypeOK
<1>6. task' \in [Tasks -> TaskRows] /\ UNCHANGED <<elapsed, lost>>
      /\ session' = [session EXCEPT ![s] = Rest(s)]
  BY DEF Commit, TypeOK
<1> QED
  BY <1>1, <1>5, <1>6, FlushingType

LEMMA BeginType ==
    ASSUME TypeOK, NEW s \in Sessions, Begin(s)
    PROVE  TypeOK'
<1> DEFINE r == session[s]
           x == Head(r.calls).of
           rows == [Stored EXCEPT !.strategy[x].status = "active"]
           next == [r EXCEPT !.calls = Tail(@), !.seen = rows, !.mine = rows]
<1>1. r # Idle /\ r.calls # <<>> /\ Head(r.calls).do = "begin"
  BY DEF Begin, Due
<1>2. /\ r \in Busy
      /\ Head(r.calls) \in Calls
      /\ [r EXCEPT !.calls = Tail(r.calls)] \in Busy
  BY <1>1, RestType
<1>3. x \in Strategies
  BY <1>1, <1>2 DEF Calls
<1>4. ASSUME NEW row \in StrategyRows
      PROVE  [row EXCEPT !.status = "active"] \in StrategyRows
  BY DEF StrategyRows, StrategyStatuses
<1>5. /\ rows.strategy = [strategy EXCEPT ![x] = [@ EXCEPT !.status = "active"]]
      /\ rows.phase = phase
  BY DEF Stored
<1>6. strategy' \in [Strategies -> StrategyRows] /\ rows \in Rows
  BY <1>3, <1>4, <1>5 DEF Begin, TypeOK, Rows, Stored
<1>7. Tail(r.calls) \in Seq(Calls)
  BY <1>1, <1>2, HeadTailProperties DEF Busy
<1>8. next \in Busy
  <2> HIDE DEF rows
  <2> QED
    BY <1>2, <1>6, <1>7 DEF Busy
<1>9. session' = [session EXCEPT ![s] = next]
  BY DEF Begin
<1>10. UNCHANGED <<phase, task, planPhase, elapsed, lost>>
  BY DEF Begin
<1> HIDE DEF next
<1> QED
  BY <1>6, <1>8, <1>9, <1>10 DEF TypeOK

LEMMA RefuseType ==
    ASSUME TypeOK, NEW s \in Sessions, Refuse(s)
    PROVE  TypeOK'
<1>1. session[s] # Idle /\ session[s].calls # <<>>
  BY DEF Refuse, Due
<1>2. [session[s] EXCEPT !.calls = Tail(session[s].calls)] \in Busy
  BY <1>1, RestType
<1>3. session' \in [Sessions -> Busy \cup {Idle}]
  BY <1>2 DEF Refuse, TypeOK
<1> QED
  BY <1>3 DEF Refuse, TypeOK

LEMMA CrashType ==
    ASSUME TypeOK, NEW s \in Sessions, Crash(s)
    PROVE  TypeOK'
BY DEF Crash, TypeOK

LEMMA RecalculateType ==
    ASSUME TypeOK, NEW s \in Sessions, Recalculate(s)
    PROVE  TypeOK'
<1>1. Derive(phase) \in Phases
  BY DeriveType DEF TypeOK, Statuses
<1> QED
  BY <1>1 DEF Recalculate, TypeOK

LEMMA NextType ==
    ASSUME TypeOK, [Next]_vars
    PROVE  TypeOK'
<1>1. ASSUME NEW s \in Sessions, PhaseVerb(s) PROVE TypeOK'
  BY <1>1, ConfirmType, ReopenType DEF PhaseVerb
<1>2. ASSUME NEW s \in Sessions, StrategyVerb(s) PROVE TypeOK'
  BY <1>2, MoveType, CreateStrategyType, VerdictType, AttachType, PromoteType
     DEF StrategyVerb
<1>3. ASSUME NEW s \in Sessions, TaskVerb(s) PROVE TypeOK'
  BY <1>3, WorkOnType, CreateTaskType DEF TaskVerb
<1>4. ASSUME NEW s \in Sessions, TaskCall(s) PROVE TypeOK'
  <2>1. planPhase' \in Phases
    BY <1>4, TaskCallIs DEF TypeOK
  <2> QED
    BY <1>4, <2>1, TaskCallIs, FlushingType
<1>5. ASSUME NEW s \in Sessions, Step(s) PROVE TypeOK'
  BY <1>4, <1>5, CommitType, BeginType, RefuseType, CrashType DEF Step, TaskCall
<1>6. ASSUME Elapse PROVE TypeOK'
  BY <1>6, LayerAssumption DEF Elapse, TypeOK
<1>7. ASSUME UNCHANGED vars PROVE TypeOK'
  BY <1>7 DEF vars, TypeOK
<1> QED
  BY <1>1, <1>2, <1>3, <1>5, <1>6, <1>7, RecalculateType DEF Next

\* Every reachable state is well typed, requests overlapping or not.
THEOREM TypeCorrect == Spec => []TypeOK
<1>1. Init => TypeOK
  BY InitType
<1>2. TypeOK /\ [Next]_vars => TypeOK'
  BY NextType
<1> QED
  BY <1>1, <1>2, PTL DEF Spec

-----------------------------------------------------------------------------
(* Serial requests.  What a busy session has loaded is what is stored, and *)
(* the rows it will commit form a chain and carry their verdicts: so do,   *)
(* after any of its commits, the stored ones.                              *)

Chain(status) ==
    \A p \in Phases : status[p] # "pending" =>
        \A q \in Phases : q < p => status[q] = "complete"

Judged(rows) ==
    \A x \in Strategies :
        rows[x].outcome # "none" <=> rows[x].status \in {"concluded", "abandoned"}

OneAtATime ==
    \A r, s \in Sessions : session[r] # Idle /\ session[s] # Idle => r = s

SoundRequest(s) ==
    session[s] # Idle =>
        /\ session[s].seen = Stored
        /\ Chain(session[s].mine.phase)
        /\ Judged(session[s].mine.strategy)

SerialInv ==
    /\ TypeOK
    /\ OneAtATime
    /\ \A s \in Sessions : SoundRequest(s)
    /\ ChainHolds
    /\ VerdictFitsStatus

LEMMA StoredSound ==
    ASSUME SerialInv
    PROVE  /\ Chain(phase) /\ Judged(strategy)
           /\ Stored.phase = phase /\ Stored.strategy = strategy
BY DEF SerialInv, ChainHolds, VerdictFitsStatus, Chain, Judged, Stored

LEMMA FrontierInChain ==
    ASSUME NEW status \in Statuses, Chain(status), NEW p \in Phases,
           p = Frontier(status)
    PROVE  /\ status[p] # "complete"
           /\ \A q \in Phases : q < p => status[q] = "complete"
           /\ \A q \in Phases : q > p => status[q] = "pending"
<1>1. \/ status[p] = "active"
      \/ status[p] # "complete" /\ Depends(status, p)
  BY FrontierIs
<1>2. status[p] # "complete"
  BY <1>1
<1>3. \A q \in Phases : q < p => status[q] = "complete"
  <2>1. CASE status[p] = "active"
    BY <2>1 DEF Chain
  <2>2. CASE Depends(status, p)
    <3>1. CASE p = 1
      BY <3>1, PhasesType
    <3>2. CASE p # 1 /\ status[p - 1] = "complete"
      <4>1. p - 1 \in Phases
        BY <3>2, PhasesType
      <4> QED
        BY <3>2, <4>1, PhasesType DEF Chain
    <3> QED
      BY <2>2, <3>1, <3>2 DEF Depends
  <2> QED
    BY <1>1, <2>1, <2>2
<1>4. \A q \in Phases : q > p => status[q] = "pending"
  BY <1>2, PhasesType DEF Chain
<1> QED
  BY <1>2, <1>3, <1>4

LEMMA AdvancedChain ==
    ASSUME TypeOK, Chain(phase), NEW p \in Phases, p = Frontier(phase)
    PROVE  Chain(Advanced(p))
<1>1. phase \in Statuses
  BY DEF TypeOK, Statuses
<1>2. /\ \A q \in Phases : q < p => phase[q] = "complete"
      /\ \A q \in Phases : q > p => phase[q] = "pending"
  BY <1>1, FrontierInChain
<1>3. ASSUME NEW r \in Phases, Advanced(p)[r] # "pending", NEW q \in Phases, q < r
      PROVE  Advanced(p)[q] = "complete"
  <2>1. r <= p \/ r = p + 1
    BY <1>2, <1>3, SuccessorType, PhasesType DEF Advanced
  <2>2. q <= p
    BY <1>3, <2>1, PhasesType
  <2>3. q # Successor(p)
    BY <2>2, SuccessorType, PhasesType
  <2> QED
    BY <1>2, <2>2, <2>3, PhasesType DEF Advanced
<1> QED
  BY <1>3 DEF Chain

LEMMA ReopenedChain ==
    ASSUME TypeOK, Chain(phase), NEW p \in Phases, phase[p] = "complete",
           Successor(p) # NoPhase => Frontier(phase) = Successor(p)
    PROVE  Chain(Reopened(p))
<1>1. phase \in Statuses
  BY DEF TypeOK, Statuses
<1>2. \A q \in Phases : q < p => phase[q] = "complete"
  BY DEF Chain
<1>3. ASSUME NEW r \in Phases, r > p
      PROVE  Reopened(p)[r] = "pending"
  <2>1. Successor(p) = p + 1 /\ p + 1 \in Phases
    BY <1>3, PhasesType DEF Successor
  <2>2. Frontier(phase) = p + 1
    BY <2>1, PhasesType
  <2>3. /\ phase[p + 1] # "complete"
        /\ \A q \in Phases : q > p + 1 => phase[q] = "pending"
    BY <1>1, <2>1, <2>2, FrontierInChain
  <2>4. CASE r = p + 1
    BY <1>1, <1>3, <2>1, <2>3, <2>4, PhasesType
       DEF Reopened, Statuses, PhaseStatuses
  <2>5. CASE r > p + 1
    BY <1>3, <2>1, <2>3, <2>5, PhasesType DEF Reopened
  <2> QED
    BY <1>3, <2>4, <2>5, PhasesType
<1>4. ASSUME NEW q \in Phases, q < p
      PROVE  Reopened(p)[q] = "complete"
  BY <1>2, <1>4, SuccessorType, PhasesType DEF Reopened
<1> QED
  BY <1>3, <1>4, PhasesType DEF Chain

-----------------------------------------------------------------------------
(* Each action preserves SerialInv.                                        *)

LEMMA TakeSerial ==
    ASSUME ~Overlap, SerialInv, TypeOK', NEW s \in Sessions, MayServe(s),
           NEW verb, NEW p, NEW mine, NEW calls,
           Take(s, verb, p, mine, calls),
           Chain(mine.phase), Judged(mine.strategy),
           UNCHANGED <<phase, strategy>>
    PROVE  SerialInv'
<1>1. \A r \in Sessions : session[r] = Idle
  BY DEF MayServe
<1>2. /\ \A r \in Sessions : r # s => session'[r] = Idle
      /\ session'[s] = [verb |-> verb, phase |-> p, seen |-> Stored,
                        mine |-> mine, calls |-> calls]
  BY <1>1 DEF Take, SerialInv, TypeOK
<1>3. OneAtATime'
  BY <1>2 DEF OneAtATime
<1>4. Stored' = Stored
  BY DEF Stored
<1>5. \A r \in Sessions : SoundRequest(r)'
  BY <1>2, <1>4 DEF SoundRequest, Chain, Judged
<1> QED
  BY <1>3, <1>5 DEF SerialInv, ChainHolds, VerdictFitsStatus

\* The rows of the only busy session become the stored ones.
LEMMA FlushSerial ==
    ASSUME SerialInv, NEW s \in Sessions, session[s] # Idle, Flush(s)
    PROVE  /\ phase' = session[s].mine.phase
           /\ strategy' = session[s].mine.strategy
<1>1. session[s] \in Busy /\ session[s].seen = Stored
  BY DEF SerialInv, TypeOK, SoundRequest
<1>2. session[s].mine \in Rows
  BY <1>1 DEF Busy
<1>3. phase' = session[s].mine.phase
  BY <1>1, <1>2 DEF Flush, Merged, Stored, Rows, SerialInv, TypeOK
<1>4. ASSUME NEW x \in Strategies
      PROVE  Merged(strategy[x], session[s].seen.strategy[x],
                    session[s].mine.strategy[x]) = session[s].mine.strategy[x]
  <2>1. /\ strategy[x] \in StrategyRows
        /\ session[s].mine.strategy[x] \in StrategyRows
        /\ session[s].seen.strategy[x] = strategy[x]
    BY <1>1, <1>2 DEF Rows, SerialInv, TypeOK, Stored
  <2>2. /\ DOMAIN strategy[x] = {"status", "outcome", "phase"}
        /\ DOMAIN session[s].mine.strategy[x] = {"status", "outcome", "phase"}
    BY <2>1 DEF StrategyRows
  <2> DEFINE mine == session[s].mine.strategy[x]
  <2>3. Merged(strategy[x], strategy[x], mine) =
          [f \in {"status", "outcome", "phase"} |-> mine[f]]
    BY <2>2 DEF Merged
  <2>4. mine = [f \in {"status", "outcome", "phase"} |-> mine[f]]
    BY <2>1, <2>2 DEF StrategyRows
  <2> QED
    BY <2>1, <2>3, <2>4
<1>5. session[s].mine.strategy \in [Strategies -> StrategyRows]
  BY <1>2 DEF Rows
<1>6. strategy' = [x \in Strategies |-> session[s].mine.strategy[x]]
  BY <1>4 DEF Flush
<1> QED
  BY <1>3, <1>5, <1>6

LEMMA FlushingSerial ==
    ASSUME SerialInv, TypeOK', NEW s \in Sessions, session[s] # Idle,
           Flush(s), session' = [session EXCEPT ![s] = Rest(s)]
    PROVE  SerialInv'
<1>1. /\ phase' = session[s].mine.phase
      /\ strategy' = session[s].mine.strategy
  BY FlushSerial
<1>2. session[s] \in Busy /\ Chain(session[s].mine.phase) /\ Judged(session[s].mine.strategy)
  BY DEF SerialInv, TypeOK, SoundRequest
<1>3. /\ \A r \in Sessions : r # s => session'[r] = Idle
      /\ session'[s] = Rest(s)
  BY DEF SerialInv, TypeOK, OneAtATime
<1>4. session[s].mine \in Rows
  BY <1>2 DEF Busy
<1>5. Rest(s) # Idle => Rest(s).seen = session[s].mine /\ Rest(s).mine = session[s].mine
  BY <1>2 DEF Rest, Busy
<1>6. Stored' = session[s].mine
  BY <1>1, <1>4 DEF Stored, Rows
<1>7. OneAtATime'
  BY <1>3 DEF OneAtATime
<1>8. \A r \in Sessions : SoundRequest(r)'
  BY <1>2, <1>3, <1>5, <1>6 DEF SoundRequest, Chain, Judged
<1>9. ChainHolds' /\ VerdictFitsStatus'
  BY <1>1, <1>2 DEF ChainHolds, VerdictFitsStatus, Chain, Judged
<1> QED
  BY <1>7, <1>8, <1>9 DEF SerialInv

\* A step that leaves the stored rows alone, and of every session at most the
\* list of steps, or ends it.
LEMMA OtherSerial ==
    ASSUME SerialInv, TypeOK', UNCHANGED <<phase, strategy>>,
           \A s \in Sessions : session'[s] # Idle =>
               /\ session[s] # Idle
               /\ session'[s].seen = session[s].seen
               /\ session'[s].mine = session[s].mine
    PROVE  SerialInv'
<1>1. Stored' = Stored
  BY DEF Stored
<1>2. OneAtATime'
  BY DEF OneAtATime, SerialInv
<1>3. \A s \in Sessions : SoundRequest(s)'
  BY <1>1 DEF SerialInv, SoundRequest, Chain, Judged
<1> QED
  BY <1>2, <1>3 DEF SerialInv, ChainHolds, VerdictFitsStatus

LEMMA ConfirmSerial ==
    ASSUME ~Overlap, SerialInv, TypeOK', NEW s \in Sessions, NEW p \in Phases,
           NEW listed \in Listings, ConfirmAdvance(s, p, listed)
    PROVE  SerialInv'
<1> DEFINE next == Successor(p)
           moving == IF next = NoPhase THEN {} ELSE Unfinished(p)
           moved == [x \in Strategies |->
                        IF x \in moving THEN [strategy[x] EXCEPT !.phase = next]
                        ELSE strategy[x]]
           mine == [phase |-> Advanced(p), strategy |-> moved]
<1>1. PICK calls : Take(s, "confirm", p, mine, calls)
  BY DEF ConfirmAdvance
<1>2. MayServe(s) /\ p = Frontier(phase) /\ UNCHANGED <<phase, strategy>>
  BY DEF ConfirmAdvance
<1>3. Chain(mine.phase)
  BY <1>2, AdvancedChain, StoredSound DEF SerialInv
<1>4. Judged(mine.strategy)
  <2>1. ASSUME NEW x \in Strategies
        PROVE  moved[x].status = strategy[x].status /\ moved[x].outcome = strategy[x].outcome
    BY DEF SerialInv, TypeOK, StrategyRows
  <2> HIDE DEF moved
  <2> QED
    BY <2>1, StoredSound DEF Judged
<1> HIDE DEF mine
<1> QED
  BY <1>1, <1>2, <1>3, <1>4, TakeSerial

LEMMA ReopenSerial ==
    ASSUME ~Overlap, SerialInv, TypeOK', NEW s \in Sessions, NEW p \in Phases,
           ReopenPhase(s, p)
    PROVE  SerialInv'
<1> DEFINE mine == [Stored EXCEPT !.phase = Reopened(p)]
<1>1. PICK calls : Take(s, "reopen", p, mine, calls)
  BY DEF ReopenPhase
<1>2. MayServe(s) /\ UNCHANGED <<phase, strategy>>
  BY DEF ReopenPhase, Keep
<1>3. mine.phase = Reopened(p) /\ mine.strategy = strategy
  BY DEF Stored
<1>4. Chain(mine.phase)
  BY <1>3, ReopenedChain, StoredSound DEF SerialInv, ReopenPhase
<1>5. Judged(mine.strategy)
  BY <1>3, StoredSound
<1> HIDE DEF mine
<1> QED
  BY <1>1, <1>2, <1>4, <1>5, TakeSerial

\* A verb that writes one strategy, so that it is judged exactly if it has an
\* outcome.
LEMMA OneStrategySerial ==
    ASSUME ~Overlap, SerialInv, TypeOK', NEW s \in Sessions, NEW x \in Strategies,
           NEW verb, NEW row, NEW calls, MayServe(s),
           row.outcome # "none" <=> row.status \in {"concluded", "abandoned"},
           Take(s, verb, NoPhase,
                [Stored EXCEPT !.strategy = [strategy EXCEPT ![x] = row]], calls),
           UNCHANGED <<phase, strategy>>
    PROVE  SerialInv'
<1> DEFINE mine == [Stored EXCEPT !.strategy = [strategy EXCEPT ![x] = row]]
<1>1. mine.phase = phase /\ mine.strategy = [strategy EXCEPT ![x] = row]
  BY DEF Stored
<1>2. Chain(mine.phase)
  BY <1>1, StoredSound
<1>3. Judged(mine.strategy)
  BY <1>1, StoredSound DEF Judged, SerialInv, TypeOK
<1> HIDE DEF mine
<1> QED
  BY <1>2, <1>3, TakeSerial DEF mine

LEMMA JudgeSerial ==
    ASSUME ~Overlap, SerialInv, TypeOK', NEW s \in Sessions, NEW x \in Strategies,
           NEW status, NEW outcome, NEW calls,
           outcome # "none" <=> status \in {"concluded", "abandoned"},
           Judge(s, x, status, outcome, calls)
    PROVE  SerialInv'
<1> DEFINE row == [strategy[x] EXCEPT !.status = status, !.outcome = outcome]
<1>1. row.outcome = outcome /\ row.status = status
  BY DEF SerialInv, TypeOK, StrategyRows
<1>2. [Stored EXCEPT !.strategy[x].status = status, !.strategy[x].outcome = outcome]
        = [Stored EXCEPT !.strategy = [strategy EXCEPT ![x] = row]]
  BY DEF Stored, SerialInv, TypeOK
<1>3. /\ MayServe(s)
      /\ Take(s, "verdict", NoPhase,
              [Stored EXCEPT !.strategy = [strategy EXCEPT ![x] = row]], calls)
      /\ UNCHANGED <<phase, strategy>>
  BY <1>2 DEF Judge, Keep
<1> HIDE DEF row
<1> QED
  BY <1>1, <1>3, OneStrategySerial

LEMMA VerdictSerial ==
    ASSUME ~Overlap, SerialInv, TypeOK', NEW s \in Sessions, NEW x \in Strategies
    PROVE  /\ StartStrategy(s, x) => SerialInv'
           /\ DisplaceStrategy(s, x) => SerialInv'
           /\ \A o \in Outcomes : ConcludeStrategy(s, x, o) \/ AbandonStrategy(s, x, o)
                => SerialInv'
<1>1. \A o \in Outcomes : o # "none"
  BY LayerAssumption
<1>2. StartStrategy(s, x) => SerialInv'
  <2>1. strategy[x].status \notin Terminal => strategy[x].outcome = "none"
    BY StoredSound DEF Judged, Terminal
  <2> QED
    BY <2>1, JudgeSerial DEF StartStrategy
<1>3. DisplaceStrategy(s, x) => SerialInv'
  BY JudgeSerial DEF DisplaceStrategy
<1>4. ASSUME NEW o \in Outcomes PROVE ConcludeStrategy(s, x, o) => SerialInv'
  BY <1>1, JudgeSerial DEF ConcludeStrategy
<1>5. ASSUME NEW o \in Outcomes PROVE AbandonStrategy(s, x, o) => SerialInv'
  BY <1>1, JudgeSerial DEF AbandonStrategy
<1> QED
  BY <1>2, <1>3, <1>4, <1>5

LEMMA MoveSerial ==
    ASSUME ~Overlap, SerialInv, TypeOK', NEW s \in Sessions, NEW x \in Strategies,
           NEW p \in Phases \cup {NoPhase}, MoveStrategy(s, x, p)
    PROVE  SerialInv'
<1> DEFINE row == [strategy[x] EXCEPT !.phase = p]
<1>1. row.outcome = strategy[x].outcome /\ row.status = strategy[x].status
  BY DEF SerialInv, TypeOK, StrategyRows
<1>2. row.outcome # "none" <=> row.status \in {"concluded", "abandoned"}
  BY <1>1, StoredSound DEF Judged
<1>3. [Stored EXCEPT !.strategy[x].phase = p]
        = [Stored EXCEPT !.strategy = [strategy EXCEPT ![x] = row]]
  BY DEF Stored, SerialInv, TypeOK
<1>4. PICK calls : Take(s, "move", NoPhase,
              [Stored EXCEPT !.strategy = [strategy EXCEPT ![x] = row]], calls)
  BY <1>3 DEF MoveStrategy
<1>5. MayServe(s) /\ UNCHANGED <<phase, strategy>>
  BY DEF MoveStrategy, Keep
<1> HIDE DEF row
<1> QED
  BY <1>2, <1>4, <1>5, OneStrategySerial

\* Attaching and creating tasks changes no row of the layer.
LEMMA TasksOnlySerial ==
    ASSUME ~Overlap, SerialInv, TypeOK', NEW s \in Sessions, NEW verb, NEW calls,
           MayServe(s), Take(s, verb, NoPhase, Stored, calls),
           UNCHANGED <<phase, strategy>>
    PROVE  SerialInv'
BY StoredSound, TakeSerial

LEMMA AttachSerial ==
    ASSUME ~Overlap, SerialInv, TypeOK', NEW s \in Sessions, NEW x \in Strategies,
           NEW T, AttachTasks(s, x, T)
    PROVE  SerialInv'
<1>1. PICK calls : Take(s, "attach", NoPhase, Stored, calls)
  BY DEF AttachTasks
<1> QED
  BY <1>1, TasksOnlySerial DEF AttachTasks, Keep

LEMMA CreateTaskSerial ==
    ASSUME ~Overlap, SerialInv, TypeOK', NEW s \in Sessions, NEW t, NEW x, NEW p,
           NEW at, CreateTask(s, t, x, p, at)
    PROVE  SerialInv'
<1>1. PICK calls : Take(s, "create", NoPhase, Stored, calls)
  BY DEF CreateTask
<1> QED
  BY <1>1, TasksOnlySerial DEF CreateTask, Keep

\* An insert of a strategy that no verdict has been passed on.
LEMMA InsertedStrategySound ==
    ASSUME SerialInv, NEW x \in Strategies, NEW row,
           row.outcome = "none", row.status \in {"proposed", "active"},
           strategy' = [strategy EXCEPT ![x] = row]
    PROVE  Judged(strategy')
BY StoredSound DEF Judged, SerialInv, TypeOK

LEMMA CreateStrategySerial ==
    ASSUME ~Overlap, SerialInv, TypeOK', NEW s \in Sessions, NEW x \in Strategies,
           NEW p, NEW status, CreateStrategy(s, x, p, status)
    PROVE  SerialInv'
<1>1. Judged(strategy')
  BY InsertedStrategySound DEF CreateStrategy
<1>2. \A r \in Sessions : session'[r] = Idle
  BY DEF CreateStrategy, MayServe
<1>3. phase' = phase
  BY DEF CreateStrategy
<1>4. ChainHolds' /\ VerdictFitsStatus'
  BY <1>1, <1>3 DEF SerialInv, ChainHolds, VerdictFitsStatus, Judged
<1> QED
  BY <1>2, <1>4 DEF SerialInv, OneAtATime, SoundRequest

LEMMA PromoteSerial ==
    ASSUME ~Overlap, SerialInv, TypeOK', NEW s \in Sessions, NEW x \in Strategies,
           NEW t \in Tasks, PromoteTask(s, t, x)
    PROVE  SerialInv'
<1> DEFINE row == [status |-> "proposed", outcome |-> "none", phase |-> task[t].phase]
           rows == [Stored EXCEPT !.strategy[x] = row]
<1>1. PICK calls : session' = [session EXCEPT ![s] =
          [verb |-> "promote", phase |-> NoPhase, seen |-> rows, mine |-> rows,
           calls |-> calls]]
  BY DEF PromoteTask
<1>2. strategy' = [strategy EXCEPT ![x] = row] /\ phase' = phase
  BY DEF PromoteTask, Stored
<1>3. Judged(strategy')
  BY <1>2, InsertedStrategySound
<1>4. rows = Stored'
  BY <1>2 DEF Stored
<1>5. \A r \in Sessions : session[r] = Idle
  BY DEF PromoteTask, MayServe
<1>6. /\ \A r \in Sessions : r # s => session'[r] = Idle
      /\ session'[s].seen = Stored' /\ session'[s].mine = Stored'
  BY <1>1, <1>4, <1>5 DEF SerialInv, TypeOK
<1>7. OneAtATime'
  BY <1>6 DEF OneAtATime
<1>8. Chain(phase')
  BY <1>2, StoredSound
<1>9. \A r \in Sessions : SoundRequest(r)'
  BY <1>3, <1>6, <1>8 DEF SoundRequest, Stored, Chain, Judged
<1>10. ChainHolds' /\ VerdictFitsStatus'
  BY <1>3, <1>8 DEF ChainHolds, VerdictFitsStatus, Chain, Judged
<1> QED
  BY <1>7, <1>9, <1>10 DEF SerialInv

LEMMA BeginSerial ==
    ASSUME SerialInv, TypeOK', NEW s \in Sessions, Begin(s)
    PROVE  SerialInv'
<1> DEFINE r == session[s]
           x == Head(r.calls).of
           row == [strategy[x] EXCEPT !.status = "active"]
           rows == [Stored EXCEPT !.strategy[x].status = "active"]
           next == [r EXCEPT !.calls = Tail(@), !.seen = rows, !.mine = rows]
<1>1. r # Idle /\ r.calls # <<>> /\ Head(r.calls).do = "begin"
  BY DEF Begin, Due
<1>2. r \in Busy /\ Head(r.calls) \in Calls
  BY <1>1, RestType DEF SerialInv
<1>3. x \in Strategies
  BY <1>1, <1>2 DEF Calls
<1>4. /\ strategy' = rows.strategy /\ phase' = phase
      /\ strategy[x].status \notin Terminal
      /\ session' = [session EXCEPT ![s] = next]
  BY DEF Begin
<1>5. rows.strategy = [strategy EXCEPT ![x] = row] /\ rows.phase = phase
  BY DEF Stored, SerialInv, TypeOK
<1>6. rows = Stored'
  BY <1>4, <1>5 DEF Stored
<1>7. row.status = "active" /\ row.outcome = "none"
  <2>1. row.status = "active" /\ row.outcome = strategy[x].outcome
    BY <1>3 DEF SerialInv, TypeOK, StrategyRows
  <2> QED
    BY <1>3, <1>4, <2>1, StoredSound DEF Judged, Terminal
<1>8. Judged(strategy')
  <2> HIDE DEF row
  <2> QED
    BY <1>3, <1>4, <1>5, <1>7, InsertedStrategySound
<1>9. next.seen = Stored' /\ next.mine = Stored'
  BY <1>2, <1>6 DEF Busy
<1>10. /\ \A q \in Sessions : q # s => session'[q] = Idle
       /\ session'[s] = next
  BY <1>1, <1>4 DEF SerialInv, TypeOK, OneAtATime
<1>11. Chain(phase')
  BY <1>4, StoredSound
<1> HIDE DEF next
<1>12. OneAtATime'
  BY <1>10 DEF OneAtATime
<1>13. \A q \in Sessions : SoundRequest(q)'
  BY <1>8, <1>9, <1>10, <1>11 DEF SoundRequest, Stored, Chain, Judged
<1>14. ChainHolds' /\ VerdictFitsStatus'
  BY <1>8, <1>11 DEF ChainHolds, VerdictFitsStatus, Chain, Judged
<1> QED
  BY <1>12, <1>13, <1>14 DEF SerialInv

LEMMA RefuseSerial ==
    ASSUME SerialInv, TypeOK', NEW s \in Sessions, Refuse(s)
    PROVE  SerialInv'
<1>1. session[s] # Idle /\ session[s].calls # <<>>
  BY DEF Refuse, Due
<1>2. session[s] \in Busy
  BY <1>1, RestType DEF SerialInv
<1>3. \A r \in Sessions : session'[r] # Idle =>
          /\ session[r] # Idle
          /\ session'[r].seen = session[r].seen
          /\ session'[r].mine = session[r].mine
  BY <1>1, <1>2 DEF Refuse, SerialInv, TypeOK, Busy
<1>4. UNCHANGED <<phase, strategy>>
  BY DEF Refuse
<1> QED
  BY <1>3, <1>4, OtherSerial

LEMMA QuietSerial ==
    ASSUME SerialInv, TypeOK', NEW s \in Sessions, NEW t \in Tasks,
           \/ Crash(s) \/ Recalculate(s) \/ Elapse
           \/ StartTask(s, t) \/ CompleteTask(s, t) \/ UNCHANGED vars
    PROVE  SerialInv'
<1>1. UNCHANGED <<phase, strategy>>
  BY DEF Crash, Recalculate, Elapse, StartTask, CompleteTask, vars
<1>2. \A r \in Sessions : session'[r] # Idle => session'[r] = session[r]
  BY DEF Crash, Recalculate, Elapse, StartTask, CompleteTask, vars, SerialInv, TypeOK
<1> QED
  BY <1>1, <1>2, OtherSerial

LEMMA NextSerial ==
    ASSUME ~Overlap, SerialInv, [Next]_vars
    PROVE  SerialInv'
<1>1. TypeOK'
  BY NextType DEF SerialInv
<1>2. ASSUME NEW s \in Sessions, PhaseVerb(s) PROVE SerialInv'
  BY <1>1, <1>2, ConfirmSerial, ReopenSerial DEF PhaseVerb
<1>3. ASSUME NEW s \in Sessions, StrategyVerb(s) PROVE SerialInv'
  BY <1>1, <1>3, MoveSerial, CreateStrategySerial, VerdictSerial, AttachSerial,
     PromoteSerial DEF StrategyVerb
<1>4. ASSUME NEW s \in Sessions, TaskVerb(s) PROVE SerialInv'
  BY <1>1, <1>4, QuietSerial, CreateTaskSerial DEF TaskVerb
<1>5. ASSUME NEW s \in Sessions, TaskCall(s) PROVE SerialInv'
  BY <1>1, <1>5, TaskCallIs, FlushingSerial DEF SerialInv
<1>6. ASSUME NEW s \in Sessions, Commit(s) PROVE SerialInv'
  BY <1>1, <1>6, FlushingSerial DEF Commit, Due
<1>7. ASSUME NEW s \in Sessions, Crash(s) \/ Recalculate(s) PROVE SerialInv'
  <2>1. UNCHANGED <<phase, strategy>>
    BY <1>7 DEF Crash, Recalculate
  <2>2. \A r \in Sessions : session'[r] # Idle => session'[r] = session[r]
    BY <1>7 DEF Crash, Recalculate, SerialInv, TypeOK
  <2> QED
    BY <1>1, <2>1, <2>2, OtherSerial
<1>8. ASSUME NEW s \in Sessions, Step(s) PROVE SerialInv'
  BY <1>1, <1>5, <1>6, <1>7, <1>8, BeginSerial, RefuseSerial DEF Step, TaskCall
<1>9. ASSUME Elapse \/ UNCHANGED vars PROVE SerialInv'
  <2>1. UNCHANGED <<phase, strategy, session>>
    BY <1>9 DEF Elapse, vars
  <2> QED
    BY <1>1, <2>1, OtherSerial
<1> QED
  BY <1>2, <1>3, <1>4, <1>7, <1>8, <1>9 DEF Next

LEMMA InitSerial == Init => SerialInv
<1>1. Init => TypeOK
  BY InitType
<1>2. Init => ChainHolds /\ VerdictFitsStatus
  BY DEF Init, ChainHolds, VerdictFitsStatus, NoStrategyRow
<1>3. Init => OneAtATime /\ \A s \in Sessions : SoundRequest(s)
  BY DEF Init, OneAtATime, SoundRequest
<1> QED
  BY <1>1, <1>2, <1>3 DEF SerialInv

LEMMA SerialInvariant ==
    ASSUME ~Overlap
    PROVE  Spec => []SerialInv
<1>1. Init => SerialInv
  BY InitSerial
<1>2. SerialInv /\ [Next]_vars => SerialInv'
  BY NextSerial
<1> QED
  BY <1>1, <1>2, PTL DEF Spec

\* When no two requests overlap, the chain of phases never has a hole,
\* whichever call is refused and wherever a request dies.
THEOREM ChainCorrect ==
    ASSUME ~Overlap
    PROVE  Spec => []ChainHolds
<1>1. SerialInv => ChainHolds
  BY DEF SerialInv
<1> QED
  BY <1>1, SerialInvariant, PTL

\* When no two requests overlap, a strategy has an outcome exactly while it is
\* concluded or abandoned; a displaced one has none while it is displaced.
THEOREM VerdictsCorrect ==
    ASSUME ~Overlap
    PROVE  Spec => []VerdictFitsStatus
<1>1. SerialInv => VerdictFitsStatus
  BY DEF SerialInv
<1> QED
  BY <1>1, SerialInvariant, PTL

-----------------------------------------------------------------------------
(* Serial requests: the layer, its tasks and the legacy integer agree.     *)
(*                                                                         *)
(* A request changes strategies first and the tasks under them call by     *)
(* call.  In between, every task is where its strategy will be, or one of  *)
(* the calls that are left moves it there (Agreeing).  That tasks refer to *)
(* strategies that exist holds even when calls are lost (TasksRefer).      *)

Left(s) == Range(session[s].calls)

\* The task row is where its strategy is, if that is scheduled.
HomeIn(row, rows) ==
    row.strategy # NoStrategy => rows[row.strategy].phase \in {NoPhase, row.phase}

\* The call brings the task to another phase.
Moves(c, t) ==
    \/ c.do = "set_phase" /\ t \in c.tasks /\ Exists(t)
    \/ c.do = "follow" /\ task[t].strategy = c.of

\* What the call writes is what these strategies say.
Fits(c, rows) ==
    /\ c.do = "set_phase" =>
          \A t \in c.tasks : task[t].strategy # NoStrategy =>
                                rows[task[t].strategy].phase = c.to
    /\ c.do \in {"follow", "set_strategy"} => rows[c.of].phase = c.to
    /\ c.do = "insert" => HomeIn(c.row, rows)

\* The strategy that the call writes exists.
Refers(c, rows) ==
    /\ c.do = "set_strategy" => rows[c.of].status # "absent"
    /\ c.do = "insert" =>
          /\ c.row.status # "absent"
          /\ c.row.strategy # NoStrategy => rows[c.row.strategy].status # "absent"

TasksRefer ==
    \A t \in Tasks :
        /\ task[t].strategy # NoStrategy => Known(task[t].strategy)
        /\ ~Exists(t) => task[t].strategy = NoStrategy

RequestRefers(s) ==
    session[s] # Idle =>
        /\ \A x \in Strategies : Known(x) => session[s].mine.strategy[x].status # "absent"
        /\ \A c \in Left(s) : Refers(c, session[s].mine.strategy)
        /\ (\E c \in Left(s) : c.do = "begin") =>
              \A c \in Left(s) : c.do \in {"begin", "delete"}

\* A phase verb ends with its own commit, which derives the legacy integer; no
\* other verb touches the phases.
PlanMoves(r) ==
    /\ MovesPlan(r) =>
          /\ r.calls # <<>>
          /\ \A i \in DOMAIN r.calls :
                /\ r.calls[i].do \in {"set_phase", "commit"}
                /\ r.calls[i].do = "commit" <=> i = Len(r.calls)
    /\ ~MovesPlan(r) => r.mine.phase = phase /\ planPhase = Derive(phase)

\* Calls that give a task a strategy are alone; a strategy is begun right
\* after its insertion.
Alone(r) ==
    \A i \in DOMAIN r.calls :
        /\ r.calls[i].do \in {"set_strategy", "insert"} => Len(r.calls) = 1
        /\ r.calls[i].do = "begin" => r.mine = r.seen

Stays(row, rows) ==
    row.strategy # NoStrategy
       /\ (rows[row.strategy].status \in Terminal \/ rows[row.strategy].phase = NoPhase)

\* A confirmation: what is open in the phase stays behind or is about to move.
Closes(s) ==
    LET r == session[s]
    IN r.verb = "confirm" /\ r.phase < N =>
        /\ \A t \in Tasks : Open(t) /\ task[t].phase = r.phase =>
              Stays(task[t], r.mine.strategy) \/ \E c \in Left(s) : Moves(c, t)
        /\ \A x \in Strategies :
              r.mine.strategy[x].status # "absent" /\ r.mine.strategy[x].phase = r.phase
                 => r.mine.strategy[x].status \in Terminal
        /\ \A c \in Left(s) : c.do = "set_phase" => c.to # r.phase

Agreeing(s) ==
    session[s] # Idle =>
        /\ \A t \in Tasks : HomeIn(task[t], session[s].mine.strategy)
                              \/ \E c \in Left(s) : Moves(c, t)
        /\ \A c \in Left(s) : Fits(c, session[s].mine.strategy)
        /\ PlanMoves(session[s])
        /\ Alone(session[s])
        /\ Closes(s)

AgreeInv ==
    /\ SerialInv
    /\ TasksRefer
    /\ \A s \in Sessions : RequestRefers(s)
    /\ LayerAgrees
    /\ ~lost => \A s \in Sessions : Agreeing(s)

\* The steps in a list.
LEMMA RangeOfCalls ==
    /\ Range(<<>>) = {}
    /\ \A c : Range(<<c>>) = {c}
    /\ \A c, d : Range(<<c, d>>) = {c, d}
    /\ \A u, v \in Seq(Calls) : Range(u \o v) = Range(u) \cup Range(v)
    /\ \A c, T : Range(Task(c, T)) = IF T = {} THEN {} ELSE {c}
<1>1. /\ Range(<<>>) = {}
      /\ \A c : Range(<<c>>) = {c}
      /\ \A c, d : Range(<<c, d>>) = {c, d}
  BY DEF Range
<1>2. \A u, v \in Seq(Calls) : Range(u \o v) = Range(u) \cup Range(v)
  BY RangeConcatenation
<1> QED
  BY <1>1, <1>2 DEF Task

LEMMA HeadAndRest ==
    ASSUME NEW u \in Seq(Calls), u # <<>>
    PROVE  /\ Range(u) = {Head(u)} \cup Range(Tail(u))
           /\ Range(u) \subseteq Calls
           /\ DOMAIN u = 1 .. Len(u) /\ Len(u) \in Nat \ {0} /\ Head(u) = u[1]
           /\ Len(Tail(u)) = Len(u) - 1 /\ DOMAIN Tail(u) = 1 .. (Len(u) - 1)
           /\ \A i \in DOMAIN Tail(u) : i + 1 \in DOMAIN u /\ Tail(u)[i] = u[i + 1]
<1>1. /\ DOMAIN u = 1 .. Len(u) /\ Len(u) \in Nat \ {0} /\ Head(u) = u[1]
      /\ Len(Tail(u)) = Len(u) - 1 /\ DOMAIN Tail(u) = 1 .. (Len(u) - 1)
      /\ \A i \in DOMAIN Tail(u) : i + 1 \in DOMAIN u /\ Tail(u)[i] = u[i + 1]
  OBVIOUS
<1>2. Range(u) \subseteq Calls
  BY <1>1 DEF Range
<1>3. Range(u) \subseteq {Head(u)} \cup Range(Tail(u))
  <2> SUFFICES ASSUME NEW i \in DOMAIN u PROVE u[i] \in {Head(u)} \cup Range(Tail(u))
    BY DEF Range
  <2>1. CASE i = 1
    BY <2>1, <1>1
  <2>2. CASE i # 1
    <3>1. i - 1 \in DOMAIN Tail(u) /\ (i - 1) + 1 = i
      BY <2>2, <1>1
    <3>2. Tail(u)[i - 1] = u[i]
      BY <3>1, <1>1
    <3> QED
      BY <3>1, <3>2 DEF Range
  <2> QED
    BY <2>1, <2>2
<1>4. {Head(u)} \cup Range(Tail(u)) \subseteq Range(u)
  BY <1>1 DEF Range
<1> QED
  BY <1>1, <1>2, <1>3, <1>4

-----------------------------------------------------------------------------
(* What the task calls make of a task.                                     *)

TaskCalls == {"set_phase", "follow", "set_strategy", "release", "delete", "insert"}

After(c, t) ==
    CASE c.do = "set_phase" -> Attached(c, t)
      [] c.do = "follow" -> Following(c, t)
      [] c.do = "set_strategy" -> Housed(c, t)
      [] c.do = "release" -> Released(c, t)
      [] c.do = "delete" -> Deleted(c, t)
      [] OTHER -> Inserted(c, t)

LEMMA TaskCallDoes ==
    ASSUME NEW s \in Sessions, TaskCall(s)
    PROVE  /\ Head(session[s].calls).do \in TaskCalls
           /\ task' = [t \in Tasks |-> After(Head(session[s].calls), t)]
<1> DEFINE c == Head(session[s].calls)
<1>1. CASE SetPhase(s)
  BY <1>1 DEF SetPhase, Call, Due, After, TaskCalls
<1>2. CASE Follow(s)
  BY <1>2 DEF Follow, Call, Due, After, TaskCalls
<1>3. CASE SetStrategy(s)
  BY <1>3 DEF SetStrategy, Call, Due, After, TaskCalls
<1>4. CASE Release(s)
  BY <1>4 DEF Release, Call, Due, After, TaskCalls
<1>5. CASE DeleteMany(s)
  BY <1>5 DEF DeleteMany, Call, Due, After, TaskCalls
<1>6. CASE Insert(s)
  BY <1>6 DEF Insert, Call, Due, After, TaskCalls
<1> QED
  BY <1>1, <1>2, <1>3, <1>4, <1>5, <1>6 DEF TaskCall

\* A call as data: the columns it writes, and the columns it leaves.
LEMMA AfterIs ==
    ASSUME TypeOK, NEW c \in Calls, c.do \in TaskCalls, NEW t \in Tasks
    PROVE  \/ After(c, t) = task[t] /\ ~Moves(c, t)
           \/ /\ Moves(c, t)
              /\ c.do \in {"set_phase", "follow"}
              /\ After(c, t) = [task[t] EXCEPT !.phase = c.to]
              /\ c.do = "set_phase" => t \in c.tasks
              /\ c.do = "follow" => task[t].strategy = c.of
           \/ /\ c.do = "set_strategy" /\ Exists(t)
              /\ After(c, t) = [task[t] EXCEPT !.strategy = c.of,
                                   !.phase = IF c.to = NoPhase THEN @ ELSE c.to]
           \/ /\ c.do = "release"
              /\ After(c, t) = [task[t] EXCEPT !.strategy = NoStrategy]
           \/ c.do = "delete" /\ After(c, t) = NoTaskRow
           \/ c.do = "insert" /\ t = c.task /\ After(c, t) = c.row
<1>1. CASE c.do = "set_phase"
  BY <1>1 DEF After, Attached, Moves
<1>2. CASE c.do = "follow"
  BY <1>2 DEF After, Following, Moves
<1>3. CASE c.do = "set_strategy"
  BY <1>3 DEF After, Housed, Moves
<1>4. CASE c.do = "release"
  BY <1>4 DEF After, Released, Moves
<1>5. CASE c.do = "delete"
  BY <1>5 DEF After, Deleted, Moves
<1>6. CASE c.do = "insert"
  BY <1>6 DEF After, Inserted, Moves
<1> QED
  BY <1>1, <1>2, <1>3, <1>4, <1>5, <1>6 DEF TaskCalls

LEMMA AfterHome ==
    ASSUME TypeOK, NEW c \in Calls, c.do \in TaskCalls, NEW t \in Tasks, NEW rows,
           HomeIn(task[t], rows) \/ Moves(c, t), Fits(c, rows)
    PROVE  HomeIn(After(c, t), rows)
<1>1. task[t] \in TaskRows
  BY DEF TypeOK
<1>2. CASE After(c, t) = task[t] /\ ~Moves(c, t)
  BY <1>2
<1>3. CASE /\ Moves(c, t)
           /\ c.do \in {"set_phase", "follow"}
           /\ After(c, t) = [task[t] EXCEPT !.phase = c.to]
           /\ c.do = "set_phase" => t \in c.tasks
           /\ c.do = "follow" => task[t].strategy = c.of
  <2>1. After(c, t).strategy = task[t].strategy /\ After(c, t).phase = c.to
    BY <1>1, <1>3 DEF TaskRows
  <2> QED
    BY <1>3, <2>1 DEF Fits, HomeIn
<1>4. CASE /\ c.do = "set_strategy"
           /\ After(c, t) = [task[t] EXCEPT !.strategy = c.of,
                                   !.phase = IF c.to = NoPhase THEN @ ELSE c.to]
  <2>1. /\ After(c, t).strategy = c.of
        /\ c.to # NoPhase => After(c, t).phase = c.to
    BY <1>1, <1>4 DEF TaskRows
  <2> QED
    BY <1>4, <2>1 DEF Fits, HomeIn
<1>5. CASE After(c, t) = [task[t] EXCEPT !.strategy = NoStrategy]
  <2>1. After(c, t).strategy = NoStrategy
    BY <1>1, <1>5 DEF TaskRows
  <2> QED
    BY <2>1 DEF HomeIn
<1>6. CASE After(c, t) = NoTaskRow
  BY <1>6 DEF NoTaskRow, HomeIn
<1>7. CASE c.do = "insert" /\ After(c, t) = c.row
  BY <1>7 DEF Fits
<1> QED
  BY <1>2, <1>3, <1>4, <1>5, <1>6, <1>7, AfterIs

\* All calls but two leave a task's strategy, or take it away.
LEMMA AfterKeeps ==
    ASSUME TypeOK, NEW c \in Calls, c.do \in TaskCalls, NEW t \in Tasks,
           c.do \notin {"set_strategy", "insert"}
    PROVE  \/ After(c, t).strategy = NoStrategy
           \/ /\ After(c, t).strategy = task[t].strategy
              /\ After(c, t).status = task[t].status
<1>1. task[t] \in TaskRows
  BY DEF TypeOK
<1>2. CASE After(c, t) = [task[t] EXCEPT !.phase = c.to]
  BY <1>1, <1>2 DEF TaskRows
<1>3. CASE After(c, t) = [task[t] EXCEPT !.strategy = NoStrategy]
  BY <1>1, <1>3 DEF TaskRows
<1>4. CASE After(c, t) = NoTaskRow
  BY <1>4 DEF NoTaskRow
<1> QED
  BY <1>2, <1>3, <1>4, AfterIs

LEMMA AfterRefers ==
    ASSUME TypeOK, TasksRefer, NEW c \in Calls, c.do \in TaskCalls, NEW t \in Tasks,
           NEW rows, Refers(c, rows),
           \A x \in Strategies : Known(x) => rows[x].status # "absent"
    PROVE  /\ After(c, t).strategy # NoStrategy =>
                rows[After(c, t).strategy].status # "absent"
           /\ After(c, t).status = "absent" => After(c, t).strategy = NoStrategy
<1>1. task[t] \in TaskRows
  BY DEF TypeOK
<1>2. /\ task[t].strategy # NoStrategy => rows[task[t].strategy].status # "absent"
      /\ task[t].status = "absent" => task[t].strategy = NoStrategy
  BY <1>1 DEF TasksRefer, Exists, TaskRows
<1>3. CASE c.do \notin {"set_strategy", "insert"}
  BY <1>2, <1>3, AfterKeeps
<1>4. CASE c.do = "set_strategy"
  <2>1. CASE After(c, t) = task[t]
    BY <1>2, <2>1
  <2>2. CASE /\ Exists(t)
             /\ After(c, t) = [task[t] EXCEPT !.strategy = c.of,
                                   !.phase = IF c.to = NoPhase THEN @ ELSE c.to]
    <3>1. After(c, t).strategy = c.of /\ After(c, t).status = task[t].status
      BY <1>1, <2>2 DEF TaskRows
    <3> QED
      BY <1>4, <2>2, <3>1 DEF Refers, Exists
  <2> QED
    BY <1>4, <2>1, <2>2, AfterIs
<1>5. CASE c.do = "insert"
  <2>1. After(c, t) \in {task[t], c.row}
    BY <1>5, AfterIs
  <2> QED
    BY <1>2, <1>5, <2>1 DEF Refers
<1> QED
  BY <1>3, <1>4, <1>5

-----------------------------------------------------------------------------
(* Steps of a request.                                                     *)

\* The request after one of its steps.
LEMMA RestIs ==
    ASSUME TypeOK, OneAtATime, NEW s \in Sessions, session[s] # Idle,
           session[s].calls # <<>>, session' = [session EXCEPT ![s] = Rest(s)]
    PROVE  /\ \A q \in Sessions : q # s => session'[q] = Idle
           /\ Tail(session[s].calls) = <<>> => session'[s] = Idle
           /\ Tail(session[s].calls) # <<>> =>
                /\ session'[s] # Idle
                /\ session'[s] = [verb |-> session[s].verb, phase |-> session[s].phase,
                                  seen |-> session[s].mine, mine |-> session[s].mine,
                                  calls |-> Tail(session[s].calls)]
                /\ session'[s].verb = session[s].verb
                /\ session'[s].phase = session[s].phase
                /\ session'[s].mine = session[s].mine
                /\ Left(s)' = Range(Tail(session[s].calls))
<1>1. session[s] \in Busy
  BY DEF TypeOK
<1>2. session'[s] = Rest(s) /\ \A q \in Sessions : q # s => session'[q] = Idle
  BY DEF TypeOK, OneAtATime
<1>3. session[s] = [verb |-> session[s].verb, phase |-> session[s].phase,
                    seen |-> session[s].seen, mine |-> session[s].mine,
                    calls |-> session[s].calls]
  BY <1>1 DEF Busy
<1>4. Tail(session[s].calls) # <<>> =>
        Rest(s) = [verb |-> session[s].verb, phase |-> session[s].phase,
                   seen |-> session[s].mine, mine |-> session[s].mine,
                   calls |-> Tail(session[s].calls)]
  BY <1>3 DEF Rest
<1>5. Tail(session[s].calls) # <<>> => Rest(s).verb # "idle"
  <2>1. session[s].verb \in Verbs
    BY <1>1 DEF Busy
  <2>2. session[s].verb # "idle"
    BY <2>1 DEF Verbs
  <2> QED
    BY <1>4, <2>2
<1>6. Tail(session[s].calls) # <<>> => Rest(s) # Idle
  BY <1>5 DEF Idle
<1>7. Tail(session[s].calls) # <<>> =>
        /\ session'[s].verb = session[s].verb
        /\ session'[s].phase = session[s].phase
        /\ session'[s].mine = session[s].mine
        /\ session'[s].calls = Tail(session[s].calls)
  <2> DEFINE left == Tail(session[s].calls)  old == session[s]
  <2>1. left # <<>> =>
          Rest(s) = [verb |-> old.verb, phase |-> old.phase, seen |-> old.mine,
                     mine |-> old.mine, calls |-> left]
    BY <1>4
  <2> HIDE DEF left, old
  <2>2. left # <<>> =>
          /\ Rest(s).verb = old.verb /\ Rest(s).phase = old.phase
          /\ Rest(s).mine = old.mine /\ Rest(s).calls = left
    BY <2>1
  <2> USE DEF left, old
  <2> QED
    BY <1>2, <2>2, Zenon
<1>8. Tail(session[s].calls) # <<>> => Left(s)' = Range(Tail(session[s].calls))
  BY <1>7 DEF Left
<1> QED
  BY <1>2, <1>4, <1>6, <1>7, <1>8 DEF Rest

\* What remains of the order of the calls.
LEMMA OrderOfRest ==
    ASSUME NEW r \in Busy, r.calls # <<>>, Tail(r.calls) # <<>>, NEW q,
           q = [verb |-> r.verb, phase |-> r.phase, seen |-> r.mine,
                mine |-> r.mine, calls |-> Tail(r.calls)]
    PROVE  /\ Alone(r) => Alone(q)
           /\ PlanMoves(r) /\ MovesPlan(r) => PlanMoves(q)
<1>1. r.calls \in Seq(Calls)
  BY DEF Busy
<1>2. /\ DOMAIN r.calls = 1 .. Len(r.calls) /\ Len(r.calls) \in Nat \ {0}
      /\ Len(Tail(r.calls)) = Len(r.calls) - 1
      /\ DOMAIN Tail(r.calls) = 1 .. (Len(r.calls) - 1)
      /\ \A i \in DOMAIN Tail(r.calls) :
            i + 1 \in DOMAIN r.calls /\ Tail(r.calls)[i] = r.calls[i + 1]
  BY <1>1, HeadAndRest
<1>3. Len(r.calls) # 1
  <2>1. Tail(r.calls) \in Seq(Calls)
    BY <1>1, HeadTailProperties
  <2> QED
    BY <1>2, <2>1, EmptySeq
<1>4. q.calls = Tail(r.calls) /\ q.mine = r.mine /\ q.seen = r.mine /\ q.verb = r.verb
  OBVIOUS
<1>5. ASSUME Alone(r) PROVE Alone(q)
  BY <1>2, <1>3, <1>4, <1>5 DEF Alone
<1>6. ASSUME PlanMoves(r), MovesPlan(r) PROVE PlanMoves(q)
  <2>1. \A i \in DOMAIN q.calls :
          /\ q.calls[i].do \in {"set_phase", "commit"}
          /\ q.calls[i].do = "commit" <=> i = Len(q.calls)
    BY <1>2, <1>4, <1>6 DEF PlanMoves
  <2> QED
    BY <2>1, <1>4, <1>6 DEF PlanMoves, MovesPlan
<1> QED
  BY <1>5, <1>6

\* A call or a commit of the only request under way.
LEMMA FlushingAgree ==
    ASSUME AgreeInv, SerialInv', NEW s \in Sessions, session[s] # Idle,
           session[s].calls # <<>>, Flush(s),
           session' = [session EXCEPT ![s] = Rest(s)], lost' = lost,
           NEW rows, rows = session[s].mine.strategy, TasksRefer',
           ~lost => \A t \in Tasks : HomeIn(task'[t], rows)
                       \/ \E c \in Range(Tail(session[s].calls)) : Moves(c, t)',
           ~lost => \A c \in Range(Tail(session[s].calls)) : Fits(c, rows)',
           ~lost /\ MovesPlan(session[s]) /\ Tail(session[s].calls) = <<>> =>
               planPhase' = Derive(phase'),
           ~lost /\ ~MovesPlan(session[s]) => planPhase' = planPhase,
           ~lost /\ session'[s] # Idle => Closes(s)'
    PROVE  AgreeInv'
<1> DEFINE rest == Tail(session[s].calls)
<1>1. SerialInv /\ TypeOK /\ OneAtATime
  BY DEF AgreeInv, SerialInv
<1>2. session[s] \in Busy /\ session[s].calls \in Seq(Calls)
  BY <1>1 DEF TypeOK, Busy
<1>3. strategy' = rows /\ phase' = session[s].mine.phase
  BY <1>1, FlushSerial
<1>4. /\ \A q \in Sessions : q # s => session'[q] = Idle
      /\ rest = <<>> => session'[s] = Idle
      /\ rest # <<>> =>
            /\ session'[s] # Idle
            /\ session'[s] = [verb |-> session[s].verb, phase |-> session[s].phase,
                              seen |-> session[s].mine, mine |-> session[s].mine,
                              calls |-> rest]
  BY <1>1, RestIs
<1>5. rest # <<>> => Left(s)' = Range(rest) /\ session'[s].mine.strategy = rows
  BY <1>1, RestIs, Zenon
<1>6. Range(rest) \subseteq Left(s)
  BY <1>2, HeadAndRest DEF Left
<1>7. \A q \in Sessions : RequestRefers(q)'
  <2>1. \A c \in Range(rest) : Refers(c, rows)
    BY <1>6 DEF AgreeInv, RequestRefers
  <2>2. (\E c \in Range(rest) : c.do = "begin") =>
          \A c \in Range(rest) : c.do \in {"begin", "delete"}
    BY <1>6 DEF AgreeInv, RequestRefers
  <2>3. rest # <<>> => RequestRefers(s)'
    BY <1>3, <1>5, <2>1, <2>2 DEF RequestRefers, Refers, Known
  <2> QED
    BY <1>4, <2>3 DEF RequestRefers
<1>8. ASSUME ~lost PROVE PlanMoves(session[s]) /\ Alone(session[s])
  BY <1>8 DEF AgreeInv, Agreeing
<1>9. ASSUME ~lost PROVE \A q \in Sessions : Agreeing(q)'
  <2> SUFFICES ASSUME rest # <<>> PROVE Agreeing(s)'
    BY <1>4 DEF Agreeing
  <2>1. \A t \in Tasks : HomeIn(task[t], session[s].mine.strategy)'
                            \/ \E c \in Left(s)' : Moves(c, t)'
    BY <1>5, <1>9 DEF HomeIn
  <2>2. \A c \in Left(s)' : Fits(c, session[s].mine.strategy)'
    BY <1>5, <1>9 DEF Fits, HomeIn
  <2>3. Alone(session[s])'
    BY <1>2, <1>4, <1>8, <1>9, OrderOfRest DEF Alone
  <2>4. PlanMoves(session[s])'
    <3>1. CASE MovesPlan(session[s])
      <4>1. MovesPlan(session'[s])
        BY <1>4, <3>1 DEF MovesPlan
      <4>2. PlanMoves(session'[s])
        BY <1>2, <1>4, <1>8, <1>9, <3>1, OrderOfRest
      <4> QED
        BY <4>1, <4>2 DEF PlanMoves, MovesPlan
    <3>2. CASE ~MovesPlan(session[s])
      <4>1. ~MovesPlan(session'[s]) /\ session'[s].mine.phase = phase'
        BY <1>3, <1>4, <3>2 DEF MovesPlan
      <4>2. planPhase' = planPhase /\ planPhase = Derive(phase) /\ phase' = phase
        BY <1>3, <1>8, <1>9, <3>2 DEF PlanMoves
      <4> QED
        BY <4>1, <4>2 DEF PlanMoves, MovesPlan
    <3> QED
      BY <3>1, <3>2
  <2>5. Closes(s)'
    BY <1>4, <1>9
  <2> QED
    BY <2>1, <2>2, <2>3, <2>4, <2>5 DEF Agreeing
<1>10. LayerAgrees'
  <2> SUFFICES ASSUME AllIdle', ~lost' PROVE TasksWithTheirStrategy' /\ LegacyPhaseFollows'
    BY DEF LayerAgrees, TasksWithTheirStrategy, LegacyPhaseFollows
  <2>1. rest = <<>>
    BY <1>4 DEF AllIdle
  <2>2. \A t \in Tasks : HomeIn(task'[t], rows)
    BY <2>1, RangeOfCalls
  <2>3. planPhase' = Derive(phase')
    <3>1. CASE MovesPlan(session[s])
      BY <2>1, <3>1
    <3>2. CASE ~MovesPlan(session[s])
      BY <1>3, <1>8, <3>2 DEF PlanMoves
    <3> QED
      BY <3>1, <3>2
  <2> QED
    BY <1>3, <2>2, <2>3 DEF TasksWithTheirStrategy, LegacyPhaseFollows, HomeIn
<1>11. lost' => AgreeInv'
  BY <1>7, <1>10 DEF AgreeInv
<1> QED
  BY <1>7, <1>9, <1>10 DEF AgreeInv

\* The legacy integer and the tasks do not move with a call's refusal or a
\* request's end; what is refused or ended is known to be lost.
LEMMA LosingAgree ==
    ASSUME AgreeInv, SerialInv', UNCHANGED <<phase, strategy, task, planPhase>>, lost',
           \A q \in Sessions : session'[q] # Idle =>
               /\ session[q] # Idle
               /\ session'[q].mine = session[q].mine
               /\ Range(session'[q].calls) \subseteq Range(session[q].calls)
    PROVE  AgreeInv'
<1>1. TasksRefer'
  BY DEF AgreeInv, TasksRefer, Known, Exists
<1>2. ASSUME NEW q \in Sessions, session'[q] # Idle PROVE RequestRefers(q)'
  <2>1. /\ session[q] # Idle /\ session'[q].mine = session[q].mine
        /\ Left(q)' \subseteq Left(q)
    BY <1>2 DEF Left
  <2>2. RequestRefers(q)
    BY DEF AgreeInv
  <2> QED
    BY <2>1, <2>2 DEF RequestRefers, Known, Refers
<1>3. \A q \in Sessions : RequestRefers(q)'
  BY <1>2 DEF RequestRefers
<1>4. LayerAgrees'
  BY DEF LayerAgrees, TasksWithTheirStrategy, LegacyPhaseFollows
<1> QED
  BY <1>1, <1>3, <1>4 DEF AgreeInv

LEMMA RefuseAgree ==
    ASSUME AgreeInv, SerialInv', NEW s \in Sessions, Refuse(s)
    PROVE  AgreeInv'
<1>1. session[s] # Idle /\ session[s].calls # <<>> /\ lost'
      /\ UNCHANGED <<phase, strategy, task, planPhase>>
  BY DEF Refuse, Due
<1>2. session[s] \in Busy /\ session \in [Sessions -> Busy \cup {Idle}]
  BY <1>1, RestType DEF AgreeInv, SerialInv, TypeOK
<1>3. session[s].calls \in Seq(Calls)
  BY <1>2 DEF Busy
<1>4. Range(Tail(session[s].calls)) \subseteq Range(session[s].calls)
  BY <1>1, <1>3, HeadAndRest
<1>5. \A q \in Sessions : q # s => session'[q] = session[q]
  BY <1>2 DEF Refuse
<1>6. session'[s] # Idle =>
          /\ session'[s].mine = session[s].mine
          /\ session'[s].calls = Tail(session[s].calls)
  BY <1>1, <1>2 DEF Refuse, Busy
<1>7. \A q \in Sessions : session'[q] # Idle =>
          /\ session[q] # Idle
          /\ session'[q].mine = session[q].mine
          /\ Range(session'[q].calls) \subseteq Range(session[q].calls)
  BY <1>1, <1>4, <1>5, <1>6
<1> QED
  BY <1>1, <1>7, LosingAgree

LEMMA CrashAgree ==
    ASSUME AgreeInv, SerialInv', NEW s \in Sessions, Crash(s)
    PROVE  AgreeInv'
<1>1. lost' /\ UNCHANGED <<phase, strategy, task, planPhase>>
  BY DEF Crash
<1>2. \A q \in Sessions : session'[q] # Idle => session'[q] = session[q]
  BY DEF Crash, AgreeInv, SerialInv, TypeOK
<1> QED
  BY <1>1, <1>2, LosingAgree

LEMMA CommitAgree ==
    ASSUME AgreeInv, SerialInv', NEW s \in Sessions, Commit(s)
    PROVE  AgreeInv'
<1> DEFINE r == session[s]  rest == Tail(r.calls)
<1>1. /\ r # Idle /\ r.calls # <<>> /\ Head(r.calls).do = "commit" /\ Flush(s)
      /\ session' = [session EXCEPT ![s] = Rest(s)] /\ lost' = lost /\ task' = task
  BY DEF Commit, Due
<1>2. SerialInv /\ TypeOK /\ OneAtATime /\ SoundRequest(s)
  BY DEF AgreeInv, SerialInv
<1>3. r \in Busy /\ r.calls \in Seq(Calls)
  BY <1>1, <1>2 DEF TypeOK, Busy
<1>4. phase' = r.mine.phase /\ strategy' = r.mine.strategy
  BY <1>1, <1>2, FlushSerial
<1>5. planPhase' = IF MovesPlan(r) THEN Derive(phase') ELSE planPhase
  <2>1. r.seen.phase = phase
    BY <1>1, <1>2 DEF SoundRequest, Stored
  <2> QED
    BY <1>4, <2>1 DEF Commit
<1>6. Range(r.calls) = {Head(r.calls)} \cup Range(rest)
  BY <1>1, <1>3, HeadAndRest
<1>7. \A t : ~Moves(Head(r.calls), t)
  BY <1>1 DEF Moves
<1>8. \A t \in Tasks : task'[t] = task[t] /\ \A c : Moves(c, t)' <=> Moves(c, t)
  BY <1>1 DEF Moves, Exists
<1>9. TasksRefer'
  BY <1>1, <1>4 DEF AgreeInv, TasksRefer, RequestRefers, Known, Exists, SerialInv, TypeOK,
     TaskRows
<1>10. PICK rows : rows = r.mine.strategy
  OBVIOUS
<1>11. ASSUME ~lost
       PROVE  /\ \A t \in Tasks : HomeIn(task[t], rows) \/ \E c \in Range(r.calls) : Moves(c, t)
              /\ \A c \in Range(r.calls) : Fits(c, rows)
              /\ Closes(s)
  BY <1>1, <1>10, <1>11 DEF AgreeInv, Agreeing, Left
<1>12. ASSUME ~lost
       PROVE  \A t \in Tasks : HomeIn(task'[t], rows) \/ \E c \in Range(rest) : Moves(c, t)'
  BY <1>6, <1>7, <1>8, <1>11, <1>12
<1>13. ASSUME ~lost PROVE \A c \in Range(rest) : Fits(c, rows)'
  BY <1>1, <1>6, <1>11, <1>13 DEF Fits, HomeIn
<1>14. ASSUME ~lost, session'[s] # Idle PROVE Closes(s)'
  <2>1. /\ session'[s].verb = r.verb /\ session'[s].phase = r.phase
        /\ session'[s].mine = r.mine /\ Left(s)' = Range(rest)
    BY <1>1, <1>2, <1>14, RestIs
  <2>2. \A t \in Tasks : Open(t)' <=> Open(t)
    BY <1>1 DEF Open
  <2>3. \A c \in Left(s)' : c \in Left(s)
    BY <1>6, <2>1 DEF Left
  <2>4. \A t \in Tasks : (\E c \in Left(s) : Moves(c, t)) => \E c \in Left(s)' : Moves(c, t)'
    BY <1>6, <1>7, <1>8, <2>1 DEF Left
  <2> SUFFICES ASSUME r.verb = "confirm", r.phase < N
               PROVE  /\ \A t \in Tasks : Open(t)' /\ task'[t].phase = r.phase =>
                            Stays(task'[t], r.mine.strategy) \/ \E c \in Left(s)' : Moves(c, t)'
                      /\ \A x \in Strategies :
                            r.mine.strategy[x].status # "absent"
                              /\ r.mine.strategy[x].phase = r.phase
                                 => r.mine.strategy[x].status \in Terminal
                      /\ \A c \in Left(s)' : c.do = "set_phase" => c.to # r.phase
    BY <2>1 DEF Closes, Stays
  <2>5. /\ \A t \in Tasks : Open(t) /\ task[t].phase = r.phase =>
              Stays(task[t], r.mine.strategy) \/ \E c \in Left(s) : Moves(c, t)
        /\ \A x \in Strategies :
              r.mine.strategy[x].status # "absent" /\ r.mine.strategy[x].phase = r.phase
                 => r.mine.strategy[x].status \in Terminal
        /\ \A c \in Left(s) : c.do = "set_phase" => c.to # r.phase
    BY <1>11, <1>14 DEF Closes
  <2>6. \A t \in Tasks : Open(t)' /\ task'[t].phase = r.phase =>
              Stays(task'[t], r.mine.strategy) \/ \E c \in Left(s)' : Moves(c, t)'
    BY <1>1, <2>2, <2>4, <2>5
  <2> QED
    BY <2>3, <2>5, <2>6
<1> HIDE DEF rest
<1>15. MovesPlan(r) => planPhase' = Derive(phase')
  BY <1>5
<1>16. ~MovesPlan(r) => planPhase' = planPhase
  BY <1>5
<1> QED
  BY <1>1, <1>9, <1>10, <1>12, <1>13, <1>14, <1>15, <1>16, FlushingAgree DEF rest

LEMMA CallAgree ==
    ASSUME AgreeInv, SerialInv', NEW s \in Sessions, TaskCall(s)
    PROVE  AgreeInv'
<1> DEFINE r == session[s]  rest == Tail(r.calls)
<1>1. SerialInv /\ TypeOK /\ OneAtATime /\ TasksRefer /\ RequestRefers(s)
  BY DEF AgreeInv, SerialInv
<1>2. /\ r # Idle /\ r.calls # <<>> /\ Flush(s)
      /\ session' = [session EXCEPT ![s] = Rest(s)] /\ lost' = lost
      /\ planPhase' = planPhase
  BY <1>1, TaskCallIs
<1>3. r \in Busy /\ r.calls \in Seq(Calls)
  BY <1>1, <1>2 DEF TypeOK, Busy
<1>4. PICK c : c = Head(r.calls)
  OBVIOUS
<1>5. c \in Calls /\ c.do \in TaskCalls /\ \A t \in Tasks : task'[t] = After(c, t)
  BY <1>1, <1>2, <1>4, RestType, TaskCallDoes
<1>6. Range(r.calls) = {c} \cup Range(rest) /\ Range(r.calls) \subseteq Calls
  BY <1>2, <1>3, <1>4, HeadAndRest
<1>7. PICK rows : rows = r.mine.strategy
  OBVIOUS
<1>8. strategy' = rows
  BY <1>1, <1>2, <1>7, FlushSerial
<1>9. /\ \A x \in Strategies : Known(x) => rows[x].status # "absent"
      /\ Refers(c, rows)
  BY <1>1, <1>2, <1>6, <1>7 DEF RequestRefers, Left
<1>10. TasksRefer'
  <2>1. ASSUME NEW t \in Tasks
        PROVE  /\ task'[t].strategy # NoStrategy => rows[task'[t].strategy].status # "absent"
               /\ task'[t].status = "absent" => task'[t].strategy = NoStrategy
    BY <1>1, <1>5, <1>9, AfterRefers
  <2> QED
    BY <1>8, <2>1 DEF TasksRefer, Known, Exists
<1>11. ASSUME ~lost
       PROVE  /\ \A t \in Tasks : HomeIn(task[t], rows) \/ \E d \in Range(r.calls) : Moves(d, t)
              /\ \A d \in Range(r.calls) : Fits(d, rows)
              /\ PlanMoves(r) /\ Alone(r) /\ Closes(s)
  BY <1>2, <1>7, <1>11 DEF AgreeInv, Agreeing, Left
<1>12. ASSUME ~lost, rest # <<>> PROVE c.do \notin {"set_strategy", "insert"}
  <2>1. /\ Head(r.calls) = r.calls[1] /\ 1 \in DOMAIN r.calls
        /\ Len(rest) = Len(r.calls) - 1 /\ Len(r.calls) \in Nat
    BY <1>2, <1>3, HeadAndRest
  <2>2. rest \in Seq(Calls)
    BY <1>2, <1>3, HeadTailProperties
  <2>3. Len(rest) # 0
    BY <1>12, <2>2, EmptySeq
  <2>4. Alone(r)
    BY <1>11, <1>12
  <2>5. Len(r.calls) # 1
    BY <2>1, <2>3
  <2> HIDE DEF r
  <2> QED
    BY <1>4, <2>1, <2>4, <2>5 DEF Alone
<1>13. rest = <<>> => Range(rest) = {}
  BY RangeOfCalls
\* A call that is left moves the tasks it moved before.
<1>14. ASSUME ~lost, NEW d \in Range(rest), NEW t \in Tasks, Moves(d, t)
       PROVE  task'[t].strategy = NoStrategy \/ Moves(d, t)'
  <2>1. c.do \notin {"set_strategy", "insert"}
    BY <1>12, <1>13, <1>14
  <2> QED
    BY <1>1, <1>5, <1>14, <2>1, AfterKeeps DEF Moves, Exists
<1>15. ASSUME ~lost, NEW t \in Tasks
       PROVE  HomeIn(task'[t], rows) \/ \E d \in Range(rest) : Moves(d, t)'
  <2>1. CASE HomeIn(task[t], rows) \/ Moves(c, t)
    BY <1>1, <1>5, <1>6, <1>11, <1>15, <2>1, AfterHome
  <2>2. CASE \E d \in Range(rest) : Moves(d, t)
    BY <1>14, <1>15, <2>2 DEF HomeIn
  <2> QED
    BY <1>6, <1>11, <1>15, <2>1, <2>2
<1>16. ASSUME ~lost, NEW d \in Range(rest) PROVE Fits(d, rows)'
  <2>1. c.do \notin {"set_strategy", "insert"}
    BY <1>12, <1>13, <1>16
  <2>2. \A t \in Tasks : task'[t].strategy \in {task[t].strategy, NoStrategy}
    BY <1>1, <1>5, <2>1, AfterKeeps
  <2>3. Fits(d, rows)
    BY <1>6, <1>11, <1>16
  <2>4. d.do = "set_phase" => d.tasks \subseteq Tasks
    BY <1>6, <1>16 DEF Calls
  <2> QED
    BY <2>2, <2>3, <2>4 DEF Fits, HomeIn
<1>17. ASSUME ~lost, rest # <<>>, r.verb = "confirm", r.phase < N
       PROVE  /\ \A t \in Tasks : Open(t)' /\ task'[t].phase = r.phase =>
                    Stays(task'[t], rows) \/ \E d \in Range(rest) : Moves(d, t)'
              /\ \A x \in Strategies :
                    rows[x].status # "absent" /\ rows[x].phase = r.phase
                       => rows[x].status \in Terminal
              /\ \A d \in Range(rest) : d.do = "set_phase" => d.to # r.phase
  <2>1. /\ \A t \in Tasks : Open(t) /\ task[t].phase = r.phase =>
              Stays(task[t], rows) \/ \E d \in Range(r.calls) : Moves(d, t)
        /\ \A x \in Strategies :
              rows[x].status # "absent" /\ rows[x].phase = r.phase
                 => rows[x].status \in Terminal
        /\ \A d \in Range(r.calls) : d.do = "set_phase" => d.to # r.phase
    BY <1>7, <1>11, <1>17 DEF Closes, Left
  <2>2. c.do = "set_phase"
    <3>1. Head(r.calls) = r.calls[1] /\ 1 \in DOMAIN r.calls
      BY <1>2, <1>3, HeadAndRest
    <3>2. PlanMoves(r)
      BY <1>11, <1>17
    <3>3. MovesPlan(r)
      BY <1>17 DEF MovesPlan
    <3> HIDE DEF r
    <3>4. r.calls[1].do \in {"set_phase", "commit"}
      BY <3>1, <3>2, <3>3 DEF PlanMoves
    <3> QED
      BY <1>4, <1>5, <3>1, <3>4 DEF TaskCalls
  <2>3. ASSUME NEW t \in Tasks, task'[t].phase = r.phase
        PROVE  task'[t] = task[t] /\ ~Moves(c, t)
    <3>1. task[t] \in TaskRows /\ c.to # r.phase
      BY <1>1, <1>6, <2>1, <2>2 DEF TypeOK
    <3>2. [task[t] EXCEPT !.phase = c.to].phase = c.to
      BY <3>1 DEF TaskRows
    <3> QED
      BY <1>1, <1>5, <2>2, <2>3, <3>1, <3>2, AfterIs
  <2>4. ASSUME NEW t \in Tasks, task'[t] = task[t], NEW d, Moves(d, t)
        PROVE  Moves(d, t)'
    BY <2>4 DEF Moves, Exists
  <2>5. ASSUME NEW t \in Tasks, Open(t)', task'[t].phase = r.phase
        PROVE  Stays(task'[t], rows) \/ \E d \in Range(rest) : Moves(d, t)'
    <3>1. Open(t) /\ task[t].phase = r.phase /\ task'[t] = task[t] /\ ~Moves(c, t)
      BY <2>3, <2>5 DEF Open
    <3> QED
      BY <1>6, <2>1, <2>4, <3>1
  <2> QED
    BY <1>6, <2>1, <2>5
<1>18. ASSUME ~lost, session'[s] # Idle PROVE Closes(s)'
  <2>1. rest # <<>>
    BY <1>1, <1>2, <1>18, RestIs
  <2>2. /\ session'[s].verb = r.verb /\ session'[s].phase = r.phase
        /\ session'[s].mine = r.mine /\ Left(s)' = Range(rest)
    BY <1>1, <1>2, <2>1, RestIs
  <2> QED
    BY <1>7, <1>17, <1>18, <2>1, <2>2 DEF Closes, Stays
<1>19. ~(~lost /\ MovesPlan(r) /\ rest = <<>>)
  <2> SUFFICES ASSUME ~lost, MovesPlan(r), rest = <<>> PROVE FALSE
    OBVIOUS
  <2>1. /\ Head(r.calls) = r.calls[1] /\ 1 \in DOMAIN r.calls
        /\ Len(rest) = Len(r.calls) - 1 /\ Len(r.calls) \in Nat
    BY <1>2, <1>3, HeadAndRest
  <2>2. Len(r.calls) = 1
    <3>1. Len(rest) = 0
      <4> HIDE DEF rest
      <4> QED
        BY EmptySeq
    <3> QED
      BY <2>1, <3>1
  <2>3. PlanMoves(r)
    BY <1>11
  <2> HIDE DEF r
  <2>4. r.calls[1].do = "commit"
    BY <2>1, <2>2, <2>3 DEF PlanMoves
  <2> QED
    BY <1>4, <1>5, <2>1, <2>4 DEF TaskCalls
<1> HIDE DEF rest
<1> QED
  BY <1>2, <1>7, <1>10, <1>15, <1>16, <1>18, <1>19, FlushingAgree DEF rest

-----------------------------------------------------------------------------
(* Requests taken up.                                                      *)

LEMMA IdleAgrees ==
    ASSUME ~Overlap, AgreeInv, NEW s \in Sessions, MayServe(s)
    PROVE  /\ \A q \in Sessions : session[q] = Idle
           /\ ~lost => \A t \in Tasks : HomeIn(task[t], strategy)
           /\ ~lost => planPhase = Derive(phase)
<1>1. \A q \in Sessions : session[q] = Idle
  BY DEF MayServe
<1> QED
  BY <1>1 DEF AgreeInv, LayerAgrees, TasksWithTheirStrategy, LegacyPhaseFollows, AllIdle,
     HomeIn

LEMMA TakeIs ==
    ASSUME ~Overlap, AgreeInv, NEW s \in Sessions, MayServe(s), NEW verb, NEW p,
           NEW mine, NEW calls, Take(s, verb, p, mine, calls)
    PROVE  /\ \A q \in Sessions : q # s => session'[q] = Idle
           /\ session'[s].verb = verb
           /\ session'[s].phase = p
           /\ session'[s].seen = Stored
           /\ session'[s].mine = mine
           /\ session'[s].calls = calls
           /\ Left(s)' = Range(calls)
<1>1. session \in [Sessions -> Busy \cup {Idle}]
  BY DEF AgreeInv, SerialInv, TypeOK
<1>2. session'[s] = [verb |-> verb, phase |-> p, seen |-> Stored, mine |-> mine,
                     calls |-> calls]
  BY <1>1 DEF Take
<1>3. \A q \in Sessions : q # s => session'[q] = Idle
  BY <1>1, IdleAgrees DEF Take
<1> QED
  BY <1>2, <1>3 DEF Left

LEMMA TakeAgree ==
    ASSUME ~Overlap, AgreeInv, SerialInv', NEW s \in Sessions, MayServe(s), NEW verb,
           verb # "idle", NEW p, NEW mine, NEW calls, Take(s, verb, p, mine, calls),
           UNCHANGED <<phase, strategy, task, planPhase>>,
           \A x \in Strategies : Known(x) => mine.strategy[x].status # "absent",
           \A c \in Range(calls) : Refers(c, mine.strategy) /\ c.do # "begin",
           ~lost' => \A t \in Tasks : HomeIn(task[t], mine.strategy)
                        \/ \E c \in Range(calls) : Moves(c, t),
           ~lost' => \A c \in Range(calls) : Fits(c, mine.strategy),
           ~lost' => PlanMoves(session[s])' /\ Alone(session[s])' /\ Closes(s)'
    PROVE  AgreeInv'
<1>1. /\ \A q \in Sessions : q # s => session'[q] = Idle
      /\ session'[s].verb = verb
      /\ session'[s].mine = mine /\ Left(s)' = Range(calls)
  BY TakeIs
<1>2. session'[s] # Idle
  BY <1>1 DEF Idle
<1>3. TasksRefer'
  BY DEF AgreeInv, TasksRefer, Known, Exists
<1>4. RequestRefers(s)'
  BY <1>1 DEF RequestRefers, Known, Refers
<1>5. \A q \in Sessions : RequestRefers(q)'
  BY <1>1, <1>4 DEF RequestRefers
<1>6. LayerAgrees'
  BY <1>2 DEF LayerAgrees, TasksWithTheirStrategy, LegacyPhaseFollows, AllIdle
<1>7. ASSUME ~lost' PROVE Agreeing(s)'
  <2>1. \A t \in Tasks : \A c : Moves(c, t)' <=> Moves(c, t)
    BY DEF Moves, Exists
  <2>2. \A t \in Tasks : HomeIn(task[t], session[s].mine.strategy)'
                            \/ \E c \in Left(s)' : Moves(c, t)'
    BY <1>1, <1>7, <2>1 DEF HomeIn
  <2>3. \A c \in Left(s)' : Fits(c, session[s].mine.strategy)'
    BY <1>1, <1>7 DEF Fits, HomeIn
  <2> QED
    BY <1>7, <2>2, <2>3 DEF Agreeing
<1>8. ~lost' => \A q \in Sessions : Agreeing(q)'
  BY <1>1, <1>7 DEF Agreeing
<1> QED
  BY <1>3, <1>5, <1>6, <1>8 DEF AgreeInv

\* A verb that leaves the phases alone.
LEMMA LayerTakeAgree ==
    ASSUME ~Overlap, AgreeInv, SerialInv', NEW s \in Sessions, MayServe(s),
           NEW verb \in Verbs \ {"confirm", "reopen"}, NEW mine, NEW calls,
           Take(s, verb, NoPhase, mine, calls), mine.phase = phase,
           UNCHANGED <<phase, strategy, task, planPhase, lost>>,
           \A x \in Strategies : Known(x) => mine.strategy[x].status # "absent",
           \A c \in Range(calls) : Refers(c, mine.strategy),
           ~lost => \A t \in Tasks : HomeIn(task[t], mine.strategy)
                        \/ \E c \in Range(calls) : Moves(c, t),
           ~lost => \A c \in Range(calls) : Fits(c, mine.strategy),
           \/ Len(calls) = 1
           \/ \A c \in Range(calls) : c.do \notin {"set_strategy", "insert"},
           \A c \in Range(calls) : c.do # "begin"
    PROVE  AgreeInv'
<1>1. /\ session'[s].verb = verb /\ session'[s].mine = mine
      /\ session'[s].calls = calls
  BY TakeIs
<1>2. \A i \in DOMAIN calls : calls[i] \in Range(calls)
  BY DEF Range
<1>3. Alone(session[s])'
  BY <1>1, <1>2 DEF Alone
<1>4. ASSUME ~lost PROVE PlanMoves(session[s])'
  <2>1. ~MovesPlan(session'[s])
    BY <1>1 DEF MovesPlan
  <2>2. planPhase = Derive(phase)
    BY <1>4, IdleAgrees
  <2> QED
    BY <1>1, <2>1, <2>2 DEF PlanMoves, MovesPlan
<1>5. Closes(s)'
  BY <1>1 DEF Closes
<1>6. verb # "idle"
  BY DEF Verbs
<1> QED
  BY <1>3, <1>4, <1>5, <1>6, TakeAgree

\* A verdict leaves strategies where they are.
LEMMA JudgedRow ==
    ASSUME TypeOK, NEW s, NEW x \in Strategies, NEW status, status # "absent",
           NEW outcome, NEW calls, Judge(s, x, status, outcome, calls)
    PROVE  \E mine :
              /\ Take(s, "verdict", NoPhase, mine, calls)
              /\ mine.phase = phase
              /\ \A y \in Strategies :
                   /\ mine.strategy[y].phase = strategy[y].phase
                   /\ Known(y) => mine.strategy[y].status # "absent"
<1> DEFINE row == [strategy[x] EXCEPT !.status = status, !.outcome = outcome]
           mine == [Stored EXCEPT !.strategy[x].status = status,
                                  !.strategy[x].outcome = outcome]
<1>1. mine.strategy = [strategy EXCEPT ![x] = row]
  BY DEF Stored, TypeOK
<1>2. mine.phase = phase
  BY DEF Stored
<1>3. strategy \in [Strategies -> StrategyRows] /\ strategy[x] \in StrategyRows
  BY DEF TypeOK
<1>4. row.phase = strategy[x].phase /\ row.status = status
  BY <1>3 DEF StrategyRows
<1>5. Take(s, "verdict", NoPhase, mine, calls)
  BY DEF Judge
<1> HIDE DEF row, mine
<1>6. \A y \in Strategies :
         /\ mine.strategy[y].phase = strategy[y].phase
         /\ Known(y) => mine.strategy[y].status # "absent"
  BY <1>1, <1>3, <1>4 DEF Known
<1> QED
  BY <1>2, <1>5, <1>6

LEMMA JudgeAgree ==
    ASSUME ~Overlap, AgreeInv, SerialInv', NEW s \in Sessions, NEW x \in Strategies,
           NEW status, status # "absent", NEW outcome, NEW calls,
           Judge(s, x, status, outcome, calls),
           calls \in {<<[do |-> "commit"]>>, ReleaseThenCommit(x)}
    PROVE  AgreeInv'
<1>1. TypeOK
  BY DEF AgreeInv, SerialInv
<1>2. PICK mine : /\ Take(s, "verdict", NoPhase, mine, calls)
                  /\ mine.phase = phase
                  /\ \A y \in Strategies :
                        /\ mine.strategy[y].phase = strategy[y].phase
                        /\ Known(y) => mine.strategy[y].status # "absent"
  BY <1>1, JudgedRow
<1>3. MayServe(s) /\ UNCHANGED <<phase, strategy, task, planPhase, lost>>
  BY DEF Judge, Keep
<1>4. \A c \in Range(calls) : c.do \in {"commit", "release"}
  BY RangeOfCalls DEF ReleaseThenCommit
<1>5. \A c \in Range(calls) : Refers(c, mine.strategy) /\ Fits(c, mine.strategy)
  BY <1>4 DEF Refers, Fits
<1>6. ~lost => \A t \in Tasks : HomeIn(task[t], mine.strategy)
  <2>1. \A t \in Tasks : task[t].strategy \in Strategies \cup {NoStrategy}
    BY DEF AgreeInv, SerialInv, TypeOK, TaskRows
  <2> QED
    BY <1>2, <1>3, <2>1, IdleAgrees DEF HomeIn
<1>7. \A c \in Range(calls) : c.do \notin {"set_strategy", "insert", "begin"}
  BY <1>4
<1> QED
  BY <1>2, <1>3, <1>5, <1>6, <1>7, LayerTakeAgree DEF Verbs

LEMMA VerdictAgree ==
    ASSUME ~Overlap, AgreeInv, SerialInv', NEW s \in Sessions, NEW x \in Strategies
    PROVE  /\ StartStrategy(s, x) => AgreeInv'
           /\ DisplaceStrategy(s, x) => AgreeInv'
           /\ \A o \in Outcomes : ConcludeStrategy(s, x, o) \/ AbandonStrategy(s, x, o)
                => AgreeInv'
<1>1. StartStrategy(s, x) => AgreeInv'
  BY JudgeAgree DEF StartStrategy
<1>2. DisplaceStrategy(s, x) => AgreeInv'
  BY JudgeAgree DEF DisplaceStrategy
<1>3. ASSUME NEW o \in Outcomes PROVE ConcludeStrategy(s, x, o) => AgreeInv'
  BY JudgeAgree DEF ConcludeStrategy
<1>4. ASSUME NEW o \in Outcomes PROVE AbandonStrategy(s, x, o) => AgreeInv'
  BY JudgeAgree DEF AbandonStrategy
<1> QED
  BY <1>1, <1>2, <1>3, <1>4

LEMMA MoveAgree ==
    ASSUME ~Overlap, AgreeInv, SerialInv', NEW s \in Sessions, NEW x \in Strategies,
           NEW p \in Phases \cup {NoPhase}, MoveStrategy(s, x, p)
    PROVE  AgreeInv'
<1> DEFINE mine == [Stored EXCEPT !.strategy[x].phase = p]
           follow == [do |-> "follow", of |-> x, to |-> p]
           commit == [do |-> "commit"]
           tail == IF p = NoPhase THEN <<>> ELSE <<follow>>
           calls == <<commit>> \o tail
<1>1. /\ MayServe(s) /\ Known(x) /\ Take(s, "move", NoPhase, mine, calls)
      /\ UNCHANGED <<phase, strategy, task, planPhase, lost>>
  BY DEF MoveStrategy, Keep
<1>2. mine.phase = phase
  BY DEF Stored
<1>3. \A y \in Strategies :
        /\ mine.strategy[y].phase = IF y = x THEN p ELSE strategy[y].phase
        /\ mine.strategy[y].status = strategy[y].status
  <2>1. strategy \in [Strategies -> StrategyRows] /\ strategy[x] \in StrategyRows
    BY DEF AgreeInv, SerialInv, TypeOK
  <2> DEFINE row == [strategy[x] EXCEPT !.phase = p]
  <2>2. row.phase = p /\ row.status = strategy[x].status
    BY <2>1 DEF StrategyRows
  <2>3. mine.strategy = [strategy EXCEPT ![x] = row]
    BY DEF Stored
  <2> HIDE DEF row, mine
  <2> QED
    BY <2>1, <2>2, <2>3
<1>4. Range(calls) = IF p = NoPhase THEN {commit} ELSE {commit, follow}
  <2>1. commit \in Calls /\ (p # NoPhase => follow \in Calls)
    BY DEF Calls
  <2> HIDE DEF commit, follow
  <2>2. <<commit>> \in Seq(Calls) /\ tail \in Seq(Calls)
    BY <2>1, CallsType
  <2>3. Range(tail) = IF p = NoPhase THEN {} ELSE {follow}
    BY RangeOfCalls
  <2>4. Range(<<commit>>) = {commit}
    BY RangeOfCalls
  <2> DEFINE first == <<commit>>
  <2> HIDE DEF tail, first
  <2>5. Range(first \o tail) = Range(first) \cup Range(tail)
    BY <2>2, RangeOfCalls DEF first
  <2> QED
    BY <2>3, <2>4, <2>5 DEF first
<1> HIDE DEF mine, calls
<1>5. \A c \in Range(calls) : Refers(c, mine.strategy) /\ Fits(c, mine.strategy)
  BY <1>3, <1>4 DEF Refers, Fits
<1>6. ASSUME ~lost, NEW t \in Tasks
      PROVE  HomeIn(task[t], mine.strategy) \/ \E c \in Range(calls) : Moves(c, t)
  <2>1. task[t].strategy \in Strategies \cup {NoStrategy}
    BY DEF AgreeInv, SerialInv, TypeOK, TaskRows
  <2>2. HomeIn(task[t], strategy)
    BY <1>1, <1>6, IdleAgrees
  <2>3. CASE task[t].strategy # x \/ p = NoPhase
    BY <1>3, <2>1, <2>2, <2>3 DEF HomeIn
  <2>4. CASE task[t].strategy = x /\ p # NoPhase
    <3>1. Moves(follow, t)
      BY <2>4 DEF Moves
    <3> QED
      BY <1>4, <2>4, <3>1
  <2> QED
    BY <2>3, <2>4
<1>7. \A c \in Range(calls) : c.do \notin {"set_strategy", "insert", "begin"}
  BY <1>4
<1>8. \A y \in Strategies : Known(y) => mine.strategy[y].status # "absent"
  BY <1>3 DEF Known
<1> QED
  BY <1>1, <1>2, <1>5, <1>6, <1>7, <1>8, LayerTakeAgree DEF Verbs

\* Attaching and creating tasks: one call, that changes no strategy.
LEMMA OneCallAgree ==
    ASSUME ~Overlap, AgreeInv, SerialInv', NEW s \in Sessions, MayServe(s),
           NEW verb \in {"attach", "create"}, NEW c, c.do # "begin",
           Refers(c, strategy), ~lost => Fits(c, strategy),
           Take(s, verb, NoPhase, Stored, <<c>>),
           UNCHANGED <<phase, strategy, task, planPhase, lost>>
    PROVE  AgreeInv'
<1>1. Stored.phase = phase /\ Stored.strategy = strategy
  BY DEF Stored
<1>2. Range(<<c>>) = {c} /\ Len(<<c>>) = 1
  BY RangeOfCalls
<1>3. ~lost => \A t \in Tasks : HomeIn(task[t], strategy)
  BY IdleAgrees
<1>4. verb \in Verbs \ {"confirm", "reopen"}
  BY DEF Verbs
<1> QED
  BY <1>1, <1>2, <1>3, <1>4, LayerTakeAgree DEF Known

LEMMA AttachAgree ==
    ASSUME ~Overlap, AgreeInv, SerialInv', NEW s \in Sessions, NEW x \in Strategies,
           NEW T, AttachTasks(s, x, T)
    PROVE  AgreeInv'
<1> DEFINE c == [do |-> "set_strategy", of |-> x, tasks |-> T, to |-> strategy[x].phase]
<1>1. /\ MayServe(s) /\ Take(s, "attach", NoPhase, Stored, <<c>>)
      /\ UNCHANGED <<phase, strategy, task, planPhase, lost>>
  BY DEF AttachTasks, Keep
<1>2. Refers(c, strategy) /\ Fits(c, strategy) /\ c.do # "begin"
  BY DEF Refers, Fits, AttachTasks, Known
<1> HIDE DEF c
<1> QED
  BY <1>1, <1>2, OneCallAgree

LEMMA CreateTaskAgree ==
    ASSUME ~Overlap, AgreeInv, SerialInv', NEW s \in Sessions, NEW t \in Tasks,
           NEW x \in Strategies \cup {NoStrategy}, NEW p, NEW at,
           CreateTask(s, t, x, p, at)
    PROVE  AgreeInv'
<1> DEFINE row == [NoTaskRow EXCEPT !.status = "pending", !.phase = at, !.strategy = x]
           c == [do |-> "insert", task |-> t, row |-> row]
<1>1. /\ MayServe(s) /\ Take(s, "create", NoPhase, Stored, <<c>>)
      /\ UNCHANGED <<phase, strategy, task, planPhase, lost>>
      /\ x # NoStrategy => Known(x)
      /\ at \in Resolved(x, p)
  BY DEF CreateTask, Keep
<1>2. row.status = "pending" /\ row.phase = at /\ row.strategy = x
  BY DEF NoTaskRow
<1>3. x # NoStrategy => at = strategy[x].phase
  BY <1>1 DEF Resolved
<1>4. Refers(c, strategy) /\ Fits(c, strategy) /\ c.do # "begin"
  <2> HIDE DEF row
  <2> QED
    BY <1>1, <1>2, <1>3 DEF Refers, Fits, HomeIn, Known
<1> HIDE DEF c
<1> QED
  BY <1>1, <1>4, OneCallAgree

\* A list of phase changes and a commit.
LEMMA CommitLast ==
    ASSUME NEW u \in Seq(Calls), \A c \in Range(u) : c.do = "set_phase",
           NEW calls, calls = u \o <<[do |-> "commit"]>>
    PROVE  /\ Range(calls) = Range(u) \cup {[do |-> "commit"]}
           /\ calls # <<>>
           /\ \A i \in DOMAIN calls :
                 /\ calls[i].do \in {"set_phase", "commit"}
                 /\ calls[i].do = "commit" <=> i = Len(calls)
<1> DEFINE commit == [do |-> "commit"]
<1>1. commit.do = "commit"
  OBVIOUS
<1>2. commit \in Calls
  BY DEF Calls
<1> HIDE DEF commit
<1>3. calls = u \o <<commit>>
  BY DEF commit
<1>4. <<commit>> \in Seq(Calls)
  BY <1>2, CallsType
<1>5. Range(calls) = Range(u) \cup {commit}
  <2> DEFINE last == <<commit>>
  <2>1. Range(last) = {commit}
    BY RangeOfCalls
  <2> HIDE DEF last
  <2>2. Range(u \o last) = Range(u) \cup Range(last)
    BY <1>4, RangeOfCalls DEF last
  <2> QED
    BY <1>3, <2>1, <2>2 DEF last
<1>6. /\ Len(u) \in Nat /\ DOMAIN calls = 1 .. (Len(u) + 1) /\ Len(calls) = Len(u) + 1
      /\ \A i \in 1 .. Len(u) : calls[i] = u[i]
      /\ calls[Len(u) + 1] = commit
  BY <1>2, <1>3
<1>7. \A i \in 1 .. Len(u) : u[i] \in Range(u)
  BY DEF Range
<1>8. ASSUME NEW i \in DOMAIN calls
      PROVE  /\ calls[i].do \in {"set_phase", "commit"}
             /\ calls[i].do = "commit" <=> i = Len(calls)
  <2>1. CASE i = Len(u) + 1
    BY <1>1, <1>6, <2>1
  <2>2. CASE i # Len(u) + 1
    <3>1. i \in 1 .. Len(u) /\ i # Len(calls)
      BY <1>6, <2>2
    <3>2. calls[i].do = "set_phase"
      BY <1>6, <1>7, <3>1
    <3> QED
      BY <3>1, <3>2
  <2> QED
    BY <2>1, <2>2
<1>9. calls # <<>>
  BY <1>6, EmptySeq
<1> QED
  BY <1>5, <1>8, <1>9 DEF commit

LEMMA ReopenAgree ==
    ASSUME ~Overlap, AgreeInv, SerialInv', NEW s \in Sessions, NEW p \in Phases,
           ReopenPhase(s, p)
    PROVE  AgreeInv'
<1> DEFINE mine == [Stored EXCEPT !.phase = Reopened(p)]
           calls == <<[do |-> "commit"]>>
<1>1. /\ MayServe(s) /\ Take(s, "reopen", p, mine, calls)
      /\ UNCHANGED <<phase, strategy, task, planPhase, lost>>
  BY DEF ReopenPhase, Keep
<1>2. mine.strategy = strategy
  BY DEF Stored
<1>3. /\ Range(calls) = {[do |-> "commit"]} /\ calls # <<>> /\ Len(calls) = 1
      /\ DOMAIN calls = {1} /\ calls[1].do = "commit"
  BY RangeOfCalls
<1> HIDE DEF mine, calls
<1>4. /\ session'[s].verb = "reopen" /\ session'[s].calls = calls
  BY <1>1, TakeIs
<1>5. PlanMoves(session[s])' /\ Alone(session[s])'
  BY <1>3, <1>4 DEF PlanMoves, MovesPlan, Alone
<1>6. Closes(s)'
  BY <1>4 DEF Closes
<1>7. \A c \in Range(calls) :
         Refers(c, strategy) /\ c.do # "begin" /\ Fits(c, strategy)
  BY <1>3 DEF Refers, Fits
<1>8. ~lost => \A t \in Tasks : HomeIn(task[t], strategy)
  BY <1>1, IdleAgrees
<1> QED
  BY <1>1, <1>2, <1>5, <1>6, <1>7, <1>8, TakeAgree DEF Known

LEMMA ConfirmAgree ==
    ASSUME ~Overlap, AgreeInv, SerialInv', NEW s \in Sessions, NEW p \in Phases,
           NEW listed \in Listings, ConfirmAdvance(s, p, listed)
    PROVE  AgreeInv'
<1> DEFINE next == Successor(p)
           moving == IF next = NoPhase THEN {} ELSE Unfinished(p)
           theirs == {t \in listed : task[t].strategy \in moving}
           direct == IF next = NoPhase THEN {} ELSE {t \in Direct(p, listed) : Open(t)}
           to(T) == [do |-> "set_phase", tasks |-> T, to |-> next]
           moved == [x \in Strategies |->
                        IF x \in moving THEN [strategy[x] EXCEPT !.phase = next]
                        ELSE strategy[x]]
           mine == [phase |-> Advanced(p), strategy |-> moved]
           u == Task(to(theirs), theirs) \o Task(to(direct), direct)
           calls == u \o <<[do |-> "commit"]>>
<1>1. /\ MayServe(s) /\ Take(s, "confirm", p, mine, calls)
      /\ lost' = (lost \/ listed # {t \in Tasks : Exists(t)})
      /\ UNCHANGED <<phase, strategy, task, planPhase>>
  BY DEF ConfirmAdvance
<1>2. TypeOK /\ TasksRefer
  BY DEF AgreeInv, SerialInv
<1>3. next \in Phases \cup {NoPhase} /\ next # p /\ (p < N => next # NoPhase)
  BY SuccessorType, PhasesType DEF Successor
<1>4. listed \subseteq Tasks
  BY DEF Listings
<1>5. theirs \in SUBSET Tasks /\ direct \in SUBSET Tasks
  BY <1>4 DEF Direct
<1>6. /\ \A x \in Strategies : moved[x].status = strategy[x].status
      /\ \A x \in Strategies : x \in moving => moved[x].phase = next
      /\ \A x \in Strategies : x \notin moving => moved[x].phase = strategy[x].phase
  BY <1>2 DEF TypeOK, StrategyRows
<1>7. \A x : x \in moving <=> /\ next # NoPhase /\ x \in Strategies /\ Known(x)
                              /\ strategy[x].phase = p /\ strategy[x].status \notin Terminal
  BY DEF Unfinished, Scheduled
<1>8. \A t : t \in theirs <=> t \in listed /\ task[t].strategy \in moving
  OBVIOUS
<1>9. \A t : t \in direct <=> /\ next # NoPhase /\ t \in listed /\ Open(t)
                              /\ task[t].phase = p /\ task[t].strategy = NoStrategy
  BY DEF Direct
<1>10. \A T : to(T).do = "set_phase" /\ to(T).tasks = T /\ to(T).to = next
  OBVIOUS
<1>11. Range(u) = (IF theirs = {} THEN {} ELSE {to(theirs)})
                     \cup (IF direct = {} THEN {} ELSE {to(direct)})
       /\ u \in Seq(Calls)
  <2>1. ASSUME NEW T \in SUBSET Tasks, next = NoPhase => T = {}
        PROVE  Task(to(T), T) \in Seq(Calls)
    <3>1. CASE T = {}
      BY <3>1, CallsType DEF Task
    <3>2. CASE T # {}
      <4>1. to(T) \in Calls
        BY <2>1, <3>2, <1>3 DEF Calls
      <4> QED
        BY <4>1, CallsType
    <3> QED
      BY <3>1, <3>2
  <2>2. next = NoPhase => theirs = {} /\ direct = {}
    BY <1>7, <1>8, <1>9
  <2>3. Task(to(theirs), theirs) \in Seq(Calls) /\ Task(to(direct), direct) \in Seq(Calls)
    BY <2>1, <2>2, <1>5
  <2> HIDE DEF to, theirs, direct
  <2> QED
    BY <2>3, RangeOfCalls, CallsType
<1> HIDE DEF moving, theirs, direct, to, moved, u, next
<1>12. \A c \in Range(u) : c.do = "set_phase"
  BY <1>10, <1>11
<1>13. /\ Range(calls) = Range(u) \cup {[do |-> "commit"]}
       /\ calls # <<>>
       /\ \A i \in DOMAIN calls :
             /\ calls[i].do \in {"set_phase", "commit"}
             /\ calls[i].do = "commit" <=> i = Len(calls)
  BY <1>11, <1>12, CommitLast
<1>14. mine.strategy = moved
  OBVIOUS
<1> HIDE DEF mine, calls
<1>15. /\ session'[s].verb = "confirm" /\ session'[s].phase = p
       /\ session'[s].mine = mine /\ session'[s].calls = calls
       /\ Left(s)' = Range(calls)
  BY <1>1, TakeIs
<1>16. PlanMoves(session[s])' /\ Alone(session[s])'
  BY <1>13, <1>15 DEF PlanMoves, MovesPlan, Alone
<1>17. \A c \in Range(calls) : Refers(c, moved) /\ c.do # "begin"
  BY <1>12, <1>13 DEF Refers
\* What is said next holds if the tasks were listed.
<1>18. ASSUME ~lost'
       PROVE  /\ \A t \in Tasks : HomeIn(task[t], strategy)
              /\ \A t \in Tasks : t \in listed <=> Exists(t)
              /\ \A t \in Tasks : task[t].strategy \in Strategies \cup {NoStrategy}
              /\ \A t \in Tasks : task[t].strategy # NoStrategy =>
                    Known(task[t].strategy) /\ Exists(t)
  <2>1. ~lost /\ listed = {t \in Tasks : Exists(t)}
    BY <1>1, <1>18
  <2>2. \A t \in Tasks : task[t].strategy \in Strategies \cup {NoStrategy}
    BY <1>2 DEF TypeOK, TaskRows
  <2>3. \A t \in Tasks : HomeIn(task[t], strategy)
    BY <1>1, <2>1, IdleAgrees
  <2> QED
    BY <1>2, <2>1, <2>2, <2>3 DEF TasksRefer
\* The tasks under a strategy that moves are in the first call.
<1>19. ASSUME NEW t \in theirs, ~lost'
       PROVE  \E c \in Range(calls) : Moves(c, t)
  <2>1. to(theirs) \in Range(calls)
    BY <1>11, <1>13, <1>19
  <2>2. Exists(t)
    BY <1>4, <1>8, <1>18, <1>19
  <2> QED
    BY <1>10, <1>19, <2>1, <2>2 DEF Moves
<1>20. ASSUME ~lost', NEW t \in Tasks
       PROVE  HomeIn(task[t], moved) \/ \E c \in Range(calls) : Moves(c, t)
  <2>1. CASE task[t].strategy \in moving
    <3>1. task[t].strategy # NoStrategy
      BY <1>7, <2>1, LayerAssumption
    <3>2. t \in theirs
      BY <1>8, <1>18, <1>20, <2>1, <3>1
    <3> QED
      BY <1>19, <1>20, <3>2
  <2>2. CASE task[t].strategy \notin moving
    BY <1>6, <1>18, <1>20, <2>2 DEF HomeIn
  <2> QED
    BY <2>1, <2>2
<1>21. \A c \in Range(calls) : Fits(c, moved)
  <2>1. Fits(to(theirs), moved)
    BY <1>6, <1>7, <1>8, <1>10 DEF Fits
  <2>2. Fits(to(direct), moved)
    BY <1>9, <1>10 DEF Fits
  <2>3. Fits([do |-> "commit"], moved)
    BY DEF Fits
  <2> QED
    BY <1>11, <1>13, <2>1, <2>2, <2>3
<1>22. ASSUME ~lost' PROVE Closes(s)'
  <2> SUFFICES ASSUME p < N
               PROVE  /\ \A t \in Tasks : Open(t) /\ task[t].phase = p =>
                            Stays(task[t], moved) \/ \E c \in Range(calls) : Moves(c, t)
                      /\ \A x \in Strategies :
                            moved[x].status # "absent" /\ moved[x].phase = p
                               => moved[x].status \in Terminal
                      /\ \A c \in Range(calls) : c.do = "set_phase" => c.to # p
    BY <1>1, <1>14, <1>15 DEF Closes, Open, Stays, Moves, Exists
  <2>1. ASSUME NEW t \in Tasks, Open(t), task[t].phase = p
        PROVE  Stays(task[t], moved) \/ \E c \in Range(calls) : Moves(c, t)
    <3>1. Exists(t)
      BY <2>1 DEF Open, Exists
    <3>2. CASE task[t].strategy = NoStrategy
      <4>1. t \in direct
        BY <1>3, <1>9, <1>18, <1>22, <2>1, <3>1, <3>2
      <4>2. to(direct) \in Range(calls)
        BY <1>11, <1>13, <4>1
      <4> QED
        BY <1>10, <3>1, <4>1, <4>2 DEF Moves
    <3>3. CASE task[t].strategy # NoStrategy
      <4>1. /\ task[t].strategy \in Strategies /\ Known(task[t].strategy)
            /\ strategy[task[t].strategy].phase \in {NoPhase, p}
        BY <1>18, <1>22, <2>1, <3>3 DEF HomeIn
      <4>2. CASE task[t].strategy \in moving
        <5>1. t \in theirs
          BY <1>8, <1>18, <1>22, <3>1, <4>2
        <5> QED
          BY <1>19, <1>22, <5>1
      <4>3. CASE task[t].strategy \notin moving
        BY <1>3, <1>6, <1>7, <3>3, <4>1, <4>3 DEF Stays
      <4> QED
        BY <4>2, <4>3
    <3> QED
      BY <3>2, <3>3
  <2>2. ASSUME NEW x \in Strategies, moved[x].status # "absent", moved[x].phase = p
        PROVE  moved[x].status \in Terminal
    BY <1>3, <1>6, <1>7, <2>2 DEF Known
  <2>3. \A c \in Range(calls) : c.do = "set_phase" => c.to # p
    BY <1>3, <1>10, <1>11, <1>13
  <2> QED
    BY <2>1, <2>2, <2>3
<1>23. \A x \in Strategies : Known(x) => moved[x].status # "absent"
  BY <1>6 DEF Known
<1> QED
  BY <1>1, <1>14, <1>16, <1>17, <1>20, <1>21, <1>22, <1>23, TakeAgree

-----------------------------------------------------------------------------
(* Steps that are a request of their own.                                  *)

\* After such a step nothing is under way, and everything still agrees.
LEMMA DoneAgree ==
    ASSUME AgreeInv, SerialInv', \A q \in Sessions : session'[q] = Idle, TasksRefer',
           ~lost' => \A t \in Tasks : HomeIn(task'[t], strategy'),
           ~lost' => planPhase' = Derive(phase')
    PROVE  AgreeInv'
<1>1. LayerAgrees'
  BY DEF LayerAgrees, TasksWithTheirStrategy, LegacyPhaseFollows, HomeIn
<1>2. \A q \in Sessions : RequestRefers(q)' /\ Agreeing(q)'
  BY DEF RequestRefers, Agreeing
<1> QED
  BY <1>1, <1>2 DEF AgreeInv

\* A strategy that is new houses no task.
LEMMA NewStrategy ==
    ASSUME AgreeInv, NEW x \in Strategies, ~Known(x), NEW row, row.status # "absent",
           strategy' = [strategy EXCEPT ![x] = row], UNCHANGED task
    PROVE  /\ TasksRefer'
           /\ \A t \in Tasks : HomeIn(task[t], strategy) => HomeIn(task[t], strategy')
<1>1. strategy \in [Strategies -> StrategyRows] /\ TasksRefer
      /\ \A t \in Tasks : task[t].strategy \in Strategies \cup {NoStrategy}
  BY DEF AgreeInv, SerialInv, TypeOK, TaskRows
<1>2. \A y \in Strategies : Known(y) => y # x /\ strategy'[y] = strategy[y]
  BY <1>1 DEF Known
<1>3. \A t \in Tasks : task[t].strategy # NoStrategy =>
          task[t].strategy \in Strategies /\ Known(task[t].strategy)
  BY <1>1 DEF TasksRefer
<1>4. TasksRefer'
  BY <1>1, <1>2, <1>3 DEF TasksRefer, Known, Exists
<1>5. \A t \in Tasks : HomeIn(task[t], strategy) => HomeIn(task[t], strategy')
  BY <1>2, <1>3 DEF HomeIn
<1> QED
  BY <1>4, <1>5

LEMMA CreateStrategyAgree ==
    ASSUME ~Overlap, AgreeInv, SerialInv', NEW s \in Sessions, NEW x \in Strategies,
           NEW p, NEW status, CreateStrategy(s, x, p, status)
    PROVE  AgreeInv'
<1> DEFINE row == [status |-> status, outcome |-> "none", phase |-> p]
<1>1. /\ MayServe(s) /\ ~Known(x) /\ strategy' = [strategy EXCEPT ![x] = row]
      /\ row.status # "absent"
      /\ UNCHANGED <<phase, task, planPhase, session, lost>>
  BY DEF CreateStrategy
<1> HIDE DEF row
<1>2. /\ TasksRefer'
      /\ \A t \in Tasks : HomeIn(task[t], strategy) => HomeIn(task[t], strategy')
  BY <1>1, NewStrategy
<1>3. /\ \A q \in Sessions : session[q] = Idle
      /\ ~lost => \A t \in Tasks : HomeIn(task[t], strategy)
      /\ ~lost => planPhase = Derive(phase)
  BY <1>1, IdleAgrees
<1> QED
  BY <1>1, <1>2, <1>3, DoneAgree

LEMMA WorkOnAgree ==
    ASSUME ~Overlap, AgreeInv, SerialInv', NEW s \in Sessions, NEW t \in Tasks,
           StartTask(s, t) \/ CompleteTask(s, t)
    PROVE  AgreeInv'
<1>1. task \in [Tasks -> TaskRows] /\ TasksRefer
  BY DEF AgreeInv, SerialInv, TypeOK
<1>2. /\ MayServe(s) /\ UNCHANGED <<phase, strategy, planPhase, session, lost>>
      /\ task[t].status # "absent"
  BY DEF StartTask, CompleteTask, Exists, Open
<1>3. \A q \in Tasks :
        /\ task'[q].strategy = task[q].strategy
        /\ task'[q].phase = task[q].phase
        /\ task'[q].status = "absent" => task[q].status = "absent"
  <2>1. task[t] \in TaskRows
    BY <1>1
  <2>2. CASE StartTask(s, t)
    <3> DEFINE row == [task[t] EXCEPT !.status = "in_progress", !.begun = TRUE]
    <3>1. row.strategy = task[t].strategy /\ row.phase = task[t].phase
          /\ row.status = "in_progress"
      BY <2>1 DEF TaskRows
    <3>2. task' = [task EXCEPT ![t] = row]
      BY <1>1, <2>2 DEF StartTask
    <3> HIDE DEF row
    <3> QED
      BY <1>1, <3>1, <3>2
  <2>3. CASE CompleteTask(s, t)
    <3> DEFINE row == [task[t] EXCEPT !.status = "completed"]
    <3>1. row.strategy = task[t].strategy /\ row.phase = task[t].phase
          /\ row.status = "completed"
      BY <2>1 DEF TaskRows
    <3>2. task' = [task EXCEPT ![t] = row]
      BY <1>1, <2>3 DEF CompleteTask
    <3> HIDE DEF row
    <3> QED
      BY <1>1, <3>1, <3>2
  <2> QED
    BY <2>2, <2>3
<1>4. TasksRefer'
  BY <1>1, <1>2, <1>3 DEF TasksRefer, Known, Exists
<1>5. /\ \A q \in Sessions : session[q] = Idle
      /\ ~lost => \A q \in Tasks : HomeIn(task[q], strategy)
      /\ ~lost => planPhase = Derive(phase)
  BY <1>2, IdleAgrees
<1>6. ~lost => \A q \in Tasks : HomeIn(task'[q], strategy)
  BY <1>3, <1>5 DEF HomeIn
<1> QED
  BY <1>2, <1>4, <1>5, <1>6, DoneAgree

LEMMA RecalculateAgree ==
    ASSUME ~Overlap, AgreeInv, SerialInv', NEW s \in Sessions, Recalculate(s)
    PROVE  AgreeInv'
<1>1. /\ MayServe(s) /\ planPhase' = Derive(phase)
      /\ UNCHANGED <<phase, strategy, task, session, lost>>
  BY DEF Recalculate
<1>2. /\ \A q \in Sessions : session[q] = Idle
      /\ ~lost => \A t \in Tasks : HomeIn(task[t], strategy)
  BY <1>1, IdleAgrees
<1>3. TasksRefer'
  BY <1>1 DEF AgreeInv, TasksRefer, Known, Exists
<1> QED
  BY <1>1, <1>2, <1>3, DoneAgree

LEMMA ElapseAgree ==
    ASSUME AgreeInv, SerialInv',
           UNCHANGED <<phase, strategy, task, planPhase, session, lost>>
    PROVE  AgreeInv'
<1>1. TasksRefer'
  BY DEF AgreeInv, TasksRefer, Known, Exists
<1>2. \A q \in Sessions : RequestRefers(q)'
  BY DEF AgreeInv, RequestRefers, Known, Refers, Left
<1>3. LayerAgrees'
  BY DEF AgreeInv, LayerAgrees, TasksWithTheirStrategy, LegacyPhaseFollows, AllIdle
<1>4. ASSUME ~lost', NEW q \in Sessions PROVE Agreeing(q)'
  <2>1. Agreeing(q)
    BY <1>4 DEF AgreeInv
  <2>2. \A c : \A t \in Tasks : Moves(c, t)' <=> Moves(c, t)
    BY DEF Moves, Exists
  <2>3. Left(q)' = Left(q) /\ session'[q] = session[q]
    BY DEF Left
  <2>4. PlanMoves(session[q])' <=> PlanMoves(session[q])
    BY DEF PlanMoves, MovesPlan
  <2>5. Alone(session[q])' <=> Alone(session[q])
    BY DEF Alone
  <2>6. Closes(q) => Closes(q)'
    BY <2>2, <2>3 DEF Closes, Open, Stays
  <2>7. (\A c \in Left(q) : Fits(c, session[q].mine.strategy))
          => \A c \in Left(q)' : Fits(c, session[q].mine.strategy)'
    BY <2>3 DEF Fits, HomeIn
  <2> QED
    BY <2>1, <2>2, <2>3, <2>4, <2>5, <2>6, <2>7 DEF Agreeing, HomeIn
<1> QED
  BY <1>1, <1>2, <1>3, <1>4 DEF AgreeInv

\* In the middle of a promotion: the row is inserted, or begun as well.
LEMMA PromotingAgree ==
    ASSUME AgreeInv, SerialInv', NEW s \in Sessions,
           \A q \in Sessions : q # s => session'[q] = Idle,
           session'[s] # Idle, ~lost => ~MovesPlan(session'[s]),
           session'[s].mine = Stored', session'[s].seen = Stored',
           \A c \in Left(s)' : c.do \in {"begin", "delete"},
           UNCHANGED <<phase, task, planPhase, lost>>, TasksRefer',
           ~lost => \A t \in Tasks : HomeIn(task[t], strategy'),
           ~lost => planPhase = Derive(phase)
    PROVE  AgreeInv'
<1>1. session'[s].mine.phase = phase' /\ session'[s].mine.strategy = strategy'
  BY DEF Stored
<1>2. RequestRefers(s)'
  BY <1>1 DEF RequestRefers, Known, Refers
<1>3. LayerAgrees'
  BY DEF LayerAgrees, TasksWithTheirStrategy, LegacyPhaseFollows, AllIdle
<1>4. ASSUME ~lost PROVE Agreeing(s)'
  <2>1. \A t \in Tasks : HomeIn(task[t], session[s].mine.strategy)'
    BY <1>1, <1>4 DEF HomeIn
  <2>2. \A c \in Left(s)' : Fits(c, session[s].mine.strategy)'
    BY DEF Fits
  <2>3. PlanMoves(session[s])'
    BY <1>1, <1>4 DEF PlanMoves, MovesPlan
  <2>4. Alone(session[s])'
    <3>1. \A i \in DOMAIN session'[s].calls : session'[s].calls[i] \in Left(s)'
      BY DEF Left, Range
    <3> QED
      BY <3>1 DEF Alone
  <2>5. Closes(s)'
    BY <1>4 DEF Closes, MovesPlan
  <2> QED
    BY <2>1, <2>2, <2>3, <2>4, <2>5 DEF Agreeing
<1> QED
  BY <1>2, <1>3, <1>4 DEF AgreeInv, RequestRefers, Agreeing

LEMMA PromoteAgree ==
    ASSUME ~Overlap, AgreeInv, SerialInv', NEW s \in Sessions, NEW x \in Strategies,
           NEW t \in Tasks, PromoteTask(s, t, x)
    PROVE  AgreeInv'
<1> DEFINE row == [status |-> "proposed", outcome |-> "none", phase |-> task[t].phase]
           rows == [Stored EXCEPT !.strategy[x] = row]
           begin == [do |-> "begin", of |-> x]
           delete == [do |-> "delete", task |-> t]
           first == IF task[t].status = "in_progress" THEN <<begin>> ELSE <<>>
           calls == first \o <<delete>>
           request == [verb |-> "promote", phase |-> NoPhase, seen |-> rows,
                       mine |-> rows, calls |-> calls]
<1>1. /\ MayServe(s) /\ ~Known(x)
      /\ session' = [session EXCEPT ![s] = request]
      /\ UNCHANGED <<phase, task, planPhase, lost>>
  BY DEF PromoteTask
<1>2. strategy' = [strategy EXCEPT ![x] = row] /\ row.status # "absent"
  BY DEF PromoteTask, Stored
<1>3. rows = Stored'
  BY <1>1, <1>2 DEF Stored
<1>4. /\ request.verb = "promote" /\ request.mine = rows /\ request.seen = rows
      /\ request.calls = calls
  OBVIOUS
<1>5. \A c \in Range(calls) : c.do \in {"begin", "delete"}
  <2>1. begin \in Calls /\ delete \in Calls /\ begin.do = "begin" /\ delete.do = "delete"
    BY DEF Calls
  <2> HIDE DEF begin, delete
  <2>2. first \in Seq(Calls) /\ <<delete>> \in Seq(Calls)
    BY <2>1, CallsType
  <2>3. Range(first) \subseteq {begin}
    BY RangeOfCalls
  <2> DEFINE last == <<delete>>
  <2>4. Range(last) = {delete}
    BY RangeOfCalls
  <2> HIDE DEF first, last
  <2>5. Range(first \o last) = Range(first) \cup Range(last)
    BY <2>2, RangeOfCalls DEF last
  <2> QED
    BY <2>1, <2>3, <2>4, <2>5 DEF last
<1> HIDE DEF row, rows, calls, request
<1>6. session \in [Sessions -> Busy \cup {Idle}]
  BY DEF AgreeInv, SerialInv, TypeOK
<1>7. /\ \A q \in Sessions : session[q] = Idle
      /\ ~lost => \A q \in Tasks : HomeIn(task[q], strategy)
      /\ ~lost => planPhase = Derive(phase)
  BY <1>1, IdleAgrees
<1>8. /\ \A q \in Sessions : q # s => session'[q] = Idle
      /\ session'[s] = request
  BY <1>1, <1>6, <1>7
<1>9. session'[s] # Idle /\ ~MovesPlan(session'[s])
  BY <1>4, <1>8 DEF Idle, MovesPlan
<1>10. \A c \in Left(s)' : c.do \in {"begin", "delete"}
  BY <1>4, <1>5, <1>8 DEF Left
<1>11. /\ TasksRefer'
       /\ \A q \in Tasks : HomeIn(task[q], strategy) => HomeIn(task[q], strategy')
  BY <1>1, <1>2, NewStrategy
<1>12. session'[s].mine = Stored' /\ session'[s].seen = Stored'
  BY <1>3, <1>4, <1>8
<1> QED
  BY <1>1, <1>7, <1>8, <1>9, <1>10, <1>11, <1>12, PromotingAgree

LEMMA BeginAgree ==
    ASSUME AgreeInv, SerialInv', NEW s \in Sessions, Begin(s)
    PROVE  AgreeInv'
<1> DEFINE r == session[s]
           x == Head(r.calls).of
           row == [strategy[x] EXCEPT !.status = "active"]
           rows == [Stored EXCEPT !.strategy[x].status = "active"]
           next == [r EXCEPT !.calls = Tail(@), !.seen = rows, !.mine = rows]
<1>1. /\ r # Idle /\ r.calls # <<>> /\ Head(r.calls).do = "begin"
      /\ session' = [session EXCEPT ![s] = next]
      /\ UNCHANGED <<phase, task, planPhase, lost>>
  BY DEF Begin, Due
<1>2. SerialInv /\ TypeOK /\ OneAtATime /\ TasksRefer /\ RequestRefers(s)
  BY DEF AgreeInv, SerialInv
<1>3. r \in Busy /\ Head(r.calls) \in Calls /\ r.calls \in Seq(Calls)
  BY <1>1, <1>2, RestType DEF Busy
<1>4. x \in Strategies
  BY <1>1, <1>3 DEF Calls
<1>5. strategy' = [strategy EXCEPT ![x] = row] /\ rows = Stored'
  <2>1. rows.strategy = [strategy EXCEPT ![x] = row] /\ rows.phase = phase
    BY <1>2 DEF Stored, TypeOK
  <2>2. strategy' = rows.strategy /\ phase' = phase
    BY DEF Begin
  <2> QED
    BY <2>1, <2>2 DEF Stored
<1>6. row.status = "active" /\ row.phase = strategy[x].phase
  BY <1>2, <1>4 DEF TypeOK, StrategyRows
<1>7. \A y \in Strategies : /\ strategy'[y].phase = strategy[y].phase
                            /\ Known(y) => strategy'[y].status # "absent"
  <2>1. strategy \in [Strategies -> StrategyRows]
    BY <1>2 DEF TypeOK
  <2> HIDE DEF row
  <2> QED
    BY <1>4, <1>5, <1>6, <2>1 DEF Known
<1>8. /\ next.verb = r.verb /\ next.mine = Stored' /\ next.seen = Stored'
      /\ next.calls = Tail(r.calls)
  BY <1>3, <1>5 DEF Busy
<1> HIDE DEF next, rows, row
<1>9. /\ \A q \in Sessions : q # s => session'[q] = Idle
      /\ session'[s] = next
  BY <1>1, <1>2 DEF TypeOK, OneAtATime
<1>10. Left(s) = {Head(r.calls)} \cup Range(Tail(r.calls))
  BY <1>1, <1>3, HeadAndRest DEF Left
<1>11. \A c \in Left(s) : c.do \in {"begin", "delete"}
  BY <1>1, <1>2, <1>10 DEF RequestRefers
<1>12. \A c \in Left(s)' : c.do \in {"begin", "delete"}
  BY <1>8, <1>9, <1>10, <1>11 DEF Left
<1>13. session'[s] # Idle
  <2>1. r.verb \in Verbs
    BY <1>3 DEF Busy
  <2> QED
    BY <1>8, <1>9, <2>1 DEF Verbs, Idle
<1>14. \A t \in Tasks : task[t].strategy \in Strategies \cup {NoStrategy}
  BY <1>2 DEF TypeOK, TaskRows
<1>15. TasksRefer'
  BY <1>1, <1>2, <1>7, <1>14 DEF TasksRefer, Known, Exists
<1>16. ASSUME ~lost
       PROVE  /\ \A t \in Tasks : HomeIn(task[t], strategy')
              /\ ~MovesPlan(r) /\ planPhase = Derive(phase)
  <2>1. /\ \A t \in Tasks : HomeIn(task[t], r.mine.strategy)
                              \/ \E c \in Left(s) : Moves(c, t)
        /\ PlanMoves(r) /\ Alone(r)
    BY <1>1, <1>16 DEF AgreeInv, Agreeing
  <2>2. 1 \in DOMAIN r.calls /\ r.calls[1].do = "begin"
    BY <1>1, <1>3, HeadAndRest
  <2>3. r.mine = r.seen /\ r.seen = Stored
    BY <1>1, <1>2, <2>1, <2>2 DEF Alone, SerialInv, SoundRequest
  <2>4. \A t : ~\E c \in Left(s) : Moves(c, t)
    BY <1>11 DEF Moves
  <2>5. \A t \in Tasks : HomeIn(task[t], strategy)
    BY <2>1, <2>3, <2>4 DEF Stored
  <2>6. ~MovesPlan(r)
    BY <2>1, <2>2 DEF PlanMoves
  <2> QED
    BY <1>7, <1>14, <2>1, <2>5, <2>6 DEF HomeIn, PlanMoves
<1>17. ~lost => ~MovesPlan(session'[s])
  BY <1>8, <1>9, <1>16 DEF MovesPlan
<1>18. session'[s].mine = Stored' /\ session'[s].seen = Stored'
  BY <1>8, <1>9
<1> QED
  BY <1>1, <1>9, <1>12, <1>13, <1>15, <1>16, <1>17, <1>18, PromotingAgree

-----------------------------------------------------------------------------
LEMMA NextAgree ==
    ASSUME ~Overlap, AgreeInv, [Next]_vars
    PROVE  AgreeInv'
<1>1. SerialInv'
  BY NextSerial DEF AgreeInv
<1>2. ASSUME NEW s \in Sessions, PhaseVerb(s) PROVE AgreeInv'
  BY <1>1, <1>2, ConfirmAgree, ReopenAgree DEF PhaseVerb
<1>3. ASSUME NEW s \in Sessions, StrategyVerb(s) PROVE AgreeInv'
  BY <1>1, <1>3, MoveAgree, CreateStrategyAgree, VerdictAgree, AttachAgree,
     PromoteAgree DEF StrategyVerb
<1>4. ASSUME NEW s \in Sessions, TaskVerb(s) PROVE AgreeInv'
  BY <1>1, <1>4, WorkOnAgree, CreateTaskAgree DEF TaskVerb
<1>5. ASSUME NEW s \in Sessions, Step(s) PROVE AgreeInv'
  BY <1>1, <1>5, CallAgree, CommitAgree, BeginAgree, RefuseAgree, CrashAgree
     DEF Step, TaskCall
<1>6. ASSUME Elapse \/ UNCHANGED vars PROVE AgreeInv'
  BY <1>1, <1>6, ElapseAgree DEF Elapse, vars
<1> QED
  BY <1>1, <1>2, <1>3, <1>4, <1>5, <1>6, RecalculateAgree DEF Next

\* A plan that has just been made.
LEMMA InitAgree == Init => AgreeInv
<1> SUFFICES ASSUME Init PROVE AgreeInv
  OBVIOUS
<1>1. SerialInv
  BY InitSerial
<1>2. TasksRefer /\ \A t \in Tasks : task[t].strategy = NoStrategy
  BY DEF Init, TasksRefer, NoTaskRow
<1>3. \A s \in Sessions : RequestRefers(s) /\ Agreeing(s)
  BY DEF Init, RequestRefers, Agreeing
<1>4. planPhase = Derive(phase)
  <2>1. phase \in Statuses /\ \A p \in Phases : phase[p] = "pending"
    BY <1>1 DEF Init, SerialInv, TypeOK, Statuses
  <2>2. 1 \in Phases /\ \A p \in Phases : p - 1 \in Phases \/ p = 1
    BY PhasesType
  <2>3. {p \in Phases : phase[p] # "complete" /\ Depends(phase, p)} = {1}
    BY <2>1, <2>2 DEF Depends
  <2>4. {p \in Phases : phase[p] = "active"} = {}
    BY <2>1
  <2>5. Frontier(phase) = 1
    BY <2>3, <2>4, PhasesType DEF Frontier
  <2> QED
    BY <2>5 DEF Derive, Init, NoPhase
<1>5. LayerAgrees
  BY <1>2, <1>4 DEF LayerAgrees, TasksWithTheirStrategy, LegacyPhaseFollows
<1> QED
  BY <1>1, <1>2, <1>3, <1>5 DEF AgreeInv

LEMMA AgreeInvariant ==
    ASSUME ~Overlap
    PROVE  Spec => []AgreeInv
<1>1. Init => AgreeInv
  BY InitAgree
<1>2. AgreeInv /\ [Next]_vars => AgreeInv'
  BY NextAgree
<1> QED
  BY <1>1, <1>2, PTL DEF Spec

\* When no two requests overlap, then between requests, as long as no call was
\* refused and none died, every task is in its strategy's phase and
\* master_plans.phase is what the phases derive, although each request was
\* several commits.
THEOREM LayerCorrect ==
    ASSUME ~Overlap
    PROVE  Spec => []LayerAgrees
<1>1. AgreeInv => LayerAgrees
  BY DEF AgreeInv
<1> QED
  BY <1>1, AgreeInvariant, PTL

-----------------------------------------------------------------------------
(* Work follows: what is done is kept, what is open moves on.              *)

\* A phase verb ends with its commit and with nothing else.
LEMMA LastIsCommit ==
    ASSUME NEW r \in Busy, r.calls # <<>>, MovesPlan(r), PlanMoves(r)
    PROVE  Tail(r.calls) = <<>> <=> Head(r.calls).do = "commit"
<1>1. /\ r.calls \in Seq(Calls) /\ Tail(r.calls) \in Seq(Calls)
  BY HeadTailProperties DEF Busy
<1>2. /\ Head(r.calls) = r.calls[1] /\ 1 \in DOMAIN r.calls
      /\ Len(Tail(r.calls)) = Len(r.calls) - 1 /\ Len(r.calls) \in Nat
  BY <1>1, HeadAndRest
<1>3. r.calls[1].do = "commit" <=> Len(r.calls) = 1
  BY <1>2 DEF PlanMoves
<1>4. Tail(r.calls) = <<>> <=> Len(Tail(r.calls)) = 0
  BY <1>1, EmptySeq
<1> QED
  BY <1>2, <1>3, <1>4

LEMMA MovesOnStep ==
    ASSUME ~Overlap, AgreeInv, [Next]_vars
    PROVE  OpenWorkMovesOn
<1> SUFFICES ASSUME NEW s \in Sessions, Ends(s, "confirm"), ~lost', session[s].phase < N
             PROVE  /\ \A t \in Tasks :
                          OpenTask(t)' /\ task'[t].phase = session[s].phase => StaysBehind(t)'
                    /\ \A x \in Strategies :
                          Known(x)' /\ strategy'[x].phase = session[s].phase
                              => strategy'[x].status \in Terminal
  BY DEF OpenWorkMovesOn
<1> DEFINE r == session[s]
<1>1. SerialInv /\ TypeOK /\ OneAtATime
  BY DEF AgreeInv, SerialInv
<1>2. r # Idle /\ r.verb = "confirm" /\ session'[s] = Idle /\ MovesPlan(r)
  BY DEF Ends, MovesPlan
<1>3. r \in Busy
  BY <1>1, <1>2 DEF TypeOK
<1>4. \A q \in Sessions : q # s => session[q] = Idle
  BY <1>1, <1>2 DEF OneAtATime
\* No other action ends a confirmation and loses nothing.
<1>5. Commit(s) \/ TaskCall(s)
  <2>1. \A q \in Sessions : ~MayServe(q)
    BY <1>2 DEF MayServe
  <2>2. ASSUME NEW q \in Sessions, PhaseVerb(q) PROVE FALSE
    BY <2>1, <2>2 DEF PhaseVerb, ConfirmAdvance, ReopenPhase
  <2>3. ASSUME NEW q \in Sessions, StrategyVerb(q) PROVE FALSE
    BY <2>1, <2>3 DEF StrategyVerb, MoveStrategy, CreateStrategy, StartStrategy,
       DisplaceStrategy, ConcludeStrategy, AbandonStrategy, Judge, AttachTasks, PromoteTask
  <2>4. ASSUME NEW q \in Sessions, TaskVerb(q) \/ Recalculate(q) PROVE FALSE
    BY <2>1, <2>4 DEF TaskVerb, StartTask, CompleteTask, CreateTask, Recalculate
  <2>5. session' # session
    BY <1>2
  <2>6. PICK q \in Sessions : Step(q)
    BY <2>2, <2>3, <2>4, <2>5 DEF Next, Elapse, vars
  <2>7. session[q] # Idle
    BY <2>6 DEF Step, SetPhase, Follow, SetStrategy, Release, DeleteMany, Insert, Call,
       Commit, Begin, Refuse, Crash, Due
  <2>8. q = s
    BY <1>4, <2>7
  <2>9. ~Refuse(s) /\ ~Crash(s)
    BY DEF Refuse, Crash
  <2>10. ~Begin(s)
    <3>1. SUFFICES ASSUME Begin(s) PROVE session'[s].verb = r.verb
      BY <1>2 DEF Idle
    <3>2. session \in [Sessions -> Busy \cup {Idle}]
      BY <1>1 DEF TypeOK
    <3> QED
      BY <1>3, <3>1, <3>2 DEF Begin, Busy
  <2> QED
    BY <2>6, <2>8, <2>9, <2>10 DEF Step, TaskCall
<1>6. /\ r.calls # <<>> /\ Flush(s) /\ session' = [session EXCEPT ![s] = Rest(s)]
      /\ lost' = lost
  BY <1>1, <1>5, TaskCallIs DEF Commit, Due
<1>7. Tail(r.calls) = <<>>
  BY <1>1, <1>2, <1>6, RestIs
<1>8. /\ \A t \in Tasks : HomeIn(task[t], r.mine.strategy)
                              \/ \E c \in Left(s) : Moves(c, t)
      /\ PlanMoves(r) /\ Closes(s)
  BY <1>2, <1>6 DEF AgreeInv, Agreeing
<1>9. Head(r.calls).do = "commit"
  BY <1>2, <1>3, <1>6, <1>7, <1>8, LastIsCommit
<1>10. Commit(s)
  BY <1>5, <1>9, TaskCallDoes DEF TaskCalls
<1>11. task' = task /\ strategy' = r.mine.strategy
  BY <1>1, <1>2, <1>6, <1>10, FlushSerial DEF Commit
<1>12. \A c \in Left(s) : c = Head(r.calls)
  <2>1. r.calls \in Seq(Calls)
    BY <1>3 DEF Busy
  <2>2. Range(r.calls) = {Head(r.calls)} \cup Range(Tail(r.calls))
    BY <1>6, <2>1, HeadAndRest
  <2>3. Range(Tail(r.calls)) = {}
    BY <1>7, RangeOfCalls
  <2> QED
    BY <2>2, <2>3 DEF Left
<1>13. \A t : ~\E c \in Left(s) : Moves(c, t)
  BY <1>9, <1>12 DEF Moves
<1>14. /\ \A t \in Tasks : Open(t) /\ task[t].phase = r.phase => Stays(task[t], strategy')
       /\ \A x \in Strategies :
             strategy'[x].status # "absent" /\ strategy'[x].phase = r.phase
                => strategy'[x].status \in Terminal
  BY <1>2, <1>8, <1>11, <1>13 DEF Closes
<1> QED
  BY <1>11, <1>14 DEF OpenTask, Open, StaysBehind, Stays, Known

\* A task whose insertion is under way does not exist, and is inserted once:
\* so it is whether requests overlap or not.
InsertsFresh ==
    /\ \A s \in Sessions : session[s] # Idle =>
          \A c \in Left(s) : c.do = "insert" =>
              Len(session[s].calls) = 1 /\ ~Exists(c.task)
    /\ \A r, s \in Sessions : r # s /\ session[r] # Idle /\ session[s] # Idle =>
          \A c \in Left(r), d \in Left(s) :
              c.do = "insert" /\ d.do = "insert" => c.task # d.task

LEMMA KeepsFresh ==
    ASSUME InsertsFresh, NEW s \in Sessions,
           \A q \in Sessions : q # s => session'[q] = session[q],
           session'[s] # Idle => \A c \in Left(s)' : c.do # "insert",
           \A q \in Sessions : q # s /\ session[q] # Idle =>
               \A c \in Left(q) : c.do = "insert" => ~Exists(c.task)'
    PROVE  InsertsFresh'
<1>1. \A q \in Sessions : q # s => Left(q)' = Left(q)
  BY DEF Left
<1>2. ASSUME NEW q \in Sessions, session'[q] # Idle, NEW c \in Left(q)', c.do = "insert"
      PROVE  Len(session'[q].calls) = 1 /\ ~Exists(c.task)'
  <2>1. q # s
    BY <1>2
  <2> QED
    BY <1>1, <1>2, <2>1 DEF InsertsFresh
<1>3. ASSUME NEW q \in Sessions, NEW r \in Sessions, r # q, session'[q] # Idle,
             session'[r] # Idle, NEW c \in Left(q)', NEW d \in Left(r)',
             c.do = "insert", d.do = "insert"
      PROVE  c.task # d.task
  <2>1. q # s /\ r # s
    BY <1>3
  <2> QED
    BY <1>1, <1>3, <2>1 DEF InsertsFresh
<1> QED
  BY <1>2, <1>3 DEF InsertsFresh

\* No task appears but by its insertion.
LEMMA AfterAbsent ==
    ASSUME TypeOK, NEW c \in Calls, c.do \in TaskCalls, NEW t \in Tasks, ~Exists(t),
           ~(c.do = "insert" /\ c.task = t)
    PROVE  After(c, t).status = "absent"
<1>1. task[t] \in TaskRows /\ task[t].status = "absent"
  BY DEF TypeOK, Exists
<1>2. CASE After(c, t) = [task[t] EXCEPT !.phase = c.to]
  BY <1>1, <1>2 DEF TaskRows
<1>3. CASE After(c, t) = [task[t] EXCEPT !.strategy = NoStrategy]
  BY <1>1, <1>3 DEF TaskRows
<1>4. CASE After(c, t) = NoTaskRow
  BY <1>4 DEF NoTaskRow
<1> QED
  BY <1>1, <1>2, <1>3, <1>4, AfterIs

\* What a call makes of a completed task.
LEMMA AfterCompleted ==
    ASSUME TypeOK, NEW c \in Calls, c.do \in TaskCalls, NEW t \in Tasks,
           task[t].status = "completed", ~(c.do = "insert" /\ c.task = t)
    PROVE  /\ After(c, t).status = "completed"
           /\ task[t].strategy # NoStrategy => After(c, t).strategy # NoStrategy
<1>1. task[t] \in TaskRows
  BY DEF TypeOK
<1>2. CASE c.do \in {"set_phase", "follow"}
  <2>1. After(c, t) = task[t] \/ After(c, t) = [task[t] EXCEPT !.phase = c.to]
    BY <1>2, AfterIs
  <2>2. [task[t] EXCEPT !.phase = c.to].status = task[t].status
        /\ [task[t] EXCEPT !.phase = c.to].strategy = task[t].strategy
    BY <1>1 DEF TaskRows
  <2> QED
    BY <2>1, <2>2
<1>3. CASE c.do = "set_strategy"
  <2> DEFINE row == [task[t] EXCEPT !.strategy = c.of,
                                    !.phase = IF c.to = NoPhase THEN @ ELSE c.to]
  <2>1. After(c, t) = task[t] \/ After(c, t) = row
    BY <1>3, AfterIs
  <2>2. row.status = task[t].status /\ row.strategy = c.of
    BY <1>1 DEF TaskRows
  <2>3. c.of # NoStrategy
    BY <1>3, LayerAssumption DEF Calls
  <2> HIDE DEF row
  <2> QED
    BY <2>1, <2>2, <2>3
<1>4. CASE c.do = "release"
  BY <1>4 DEF After, Released
<1>5. CASE c.do = "delete"
  BY <1>5 DEF After, Deleted
<1>6. CASE c.do = "insert"
  BY <1>6 DEF After, Inserted
<1> QED
  BY <1>2, <1>3, <1>4, <1>5, <1>6 DEF TaskCalls

\* A request that inserts nothing is taken up.
LEMMA TakeFresh ==
    ASSUME TypeOK, InsertsFresh, NEW s \in Sessions, NEW verb, NEW p, NEW mine, NEW seen,
           NEW calls,
           session' = [session EXCEPT ![s] = [verb |-> verb, phase |-> p, seen |-> seen,
                                              mine |-> mine, calls |-> calls]],
           \A c \in Range(calls) : c.do # "insert", UNCHANGED task
    PROVE  InsertsFresh'
<1>1. /\ \A q \in Sessions : q # s => session'[q] = session[q]
      /\ session'[s].calls = calls
  BY DEF TypeOK
<1>2. \A c \in Left(s)' : c.do # "insert"
  BY <1>1 DEF Left
<1>3. \A q \in Sessions : q # s /\ session[q] # Idle =>
          \A c \in Left(q) : c.do = "insert" => ~Exists(c.task)'
  BY DEF InsertsFresh, Exists
<1> QED
  BY <1>1, <1>2, <1>3, KeepsFresh

\* The steps of a request that has inserted nothing yet.
LEMMA StepFresh ==
    ASSUME TypeOK, InsertsFresh, NEW s \in Sessions, session[s] # Idle,
           session[s].calls # <<>>,
           \A q \in Sessions : q # s => session'[q] = session[q],
           session'[s] # Idle => session'[s].calls = Tail(session[s].calls)
    PROVE  session'[s] # Idle => \A c \in Left(s)' : c.do # "insert"
<1> SUFFICES ASSUME session'[s] # Idle, NEW c \in Left(s)', c.do = "insert" PROVE FALSE
  OBVIOUS
<1>1. session[s].calls \in Seq(Calls)
  BY DEF TypeOK, Busy
<1>2. c \in Range(Tail(session[s].calls))
  BY DEF Left
<1>3. c \in Left(s)
  BY <1>1, <1>2, HeadAndRest DEF Left
<1>4. Len(session[s].calls) = 1
  BY <1>3 DEF InsertsFresh
<1>5. Tail(session[s].calls) = <<>>
  <2>1. /\ Len(Tail(session[s].calls)) = Len(session[s].calls) - 1
        /\ Tail(session[s].calls) \in Seq(Calls)
    BY <1>1, HeadAndRest, HeadTailProperties
  <2>2. Len(Tail(session[s].calls)) = 0
    BY <1>4, <2>1
  <2> QED
    BY <2>1, <2>2, EmptySeq
<1> QED
  BY <1>2, <1>5, RangeOfCalls

LEMMA CallFresh ==
    ASSUME TypeOK, InsertsFresh, NEW s \in Sessions, TaskCall(s)
    PROVE  InsertsFresh'
<1> DEFINE r == session[s]
<1>1. /\ r # Idle /\ r.calls # <<>> /\ session' = [session EXCEPT ![s] = Rest(s)]
  BY TaskCallIs
<1>2. r \in Busy /\ Head(r.calls) \in Calls /\ r.calls \in Seq(Calls)
  BY <1>1, RestType DEF Busy
<1>3. \A q \in Sessions : q # s => session'[q] = session[q]
  BY <1>1 DEF TypeOK
<1>4. session'[s] # Idle => session'[s].calls = Tail(r.calls)
  BY <1>1, <1>2 DEF TypeOK, Rest, Busy
<1>5. session'[s] # Idle => \A c \in Left(s)' : c.do # "insert"
  BY <1>1, <1>3, <1>4, StepFresh
<1>6. Head(r.calls).do \in TaskCalls
      /\ \A t \in Tasks : task'[t] = After(Head(r.calls), t)
  BY TaskCallDoes
<1>7. Head(r.calls) \in Left(s)
  BY <1>1, <1>2, HeadAndRest DEF Left
<1>8. ASSUME NEW q \in Sessions, q # s, session[q] # Idle, NEW c \in Left(q),
             c.do = "insert"
      PROVE  ~Exists(c.task)'
  <2>1. c \in Calls
    <3>1. session[q].calls \in Seq(Calls)
      BY <1>8 DEF TypeOK, Busy
    <3> QED
      BY <1>8, <3>1, RangeOfSeq DEF Left
  <2>2. c.task \in Tasks /\ ~Exists(c.task)
    BY <1>8, <2>1 DEF Calls, InsertsFresh
  <2>3. ~(Head(r.calls).do = "insert" /\ Head(r.calls).task = c.task)
    BY <1>1, <1>7, <1>8 DEF InsertsFresh
  <2>4. After(Head(r.calls), c.task).status = "absent"
    BY <1>2, <1>6, <2>2, <2>3, AfterAbsent
  <2> QED
    BY <1>6, <2>2, <2>4 DEF Exists
<1> QED
  BY <1>3, <1>5, <1>8, KeepsFresh

LEMMA OtherStepFresh ==
    ASSUME TypeOK, InsertsFresh, NEW s \in Sessions,
           Commit(s) \/ Begin(s) \/ Refuse(s) \/ Crash(s)
    PROVE  InsertsFresh'
<1>1. session[s] # Idle /\ task' = task
  BY DEF Commit, Begin, Refuse, Crash, Due
<1>2. session[s] \in Busy /\ session \in [Sessions -> Busy \cup {Idle}]
  BY <1>1 DEF TypeOK
<1>3. \A q \in Sessions : q # s => session'[q] = session[q]
  BY <1>2 DEF Commit, Begin, Refuse, Crash
<1>4. \A q \in Sessions : q # s /\ session[q] # Idle =>
          \A c \in Left(q) : c.do = "insert" => ~Exists(c.task)'
  BY <1>1 DEF InsertsFresh, Exists
<1>5. CASE Crash(s)
  <2>1. session'[s] = Idle
    BY <1>2, <1>5 DEF Crash
  <2> QED
    BY <1>3, <1>4, <2>1, KeepsFresh
<1>6. CASE Commit(s) \/ Begin(s) \/ Refuse(s)
  <2>1. session[s].calls # <<>>
    BY <1>6 DEF Commit, Begin, Refuse, Due
  <2>2. session'[s] # Idle => session'[s].calls = Tail(session[s].calls)
    <3>1. CASE Commit(s)
      BY <1>2, <3>1 DEF Commit, Rest, Busy
    <3>2. CASE Begin(s)
      BY <1>2, <3>2 DEF Begin, Busy
    <3>3. CASE Refuse(s)
      BY <1>2, <3>3 DEF Refuse, Busy
    <3> QED
      BY <1>6, <3>1, <3>2, <3>3
  <2>3. session'[s] # Idle => \A c \in Left(s)' : c.do # "insert"
    BY <1>1, <1>3, <2>1, <2>2, StepFresh
  <2> QED
    BY <1>3, <1>4, <2>3, KeepsFresh
<1> QED
  BY <1>5, <1>6

LEMMA CreateTaskFresh ==
    ASSUME TypeOK, InsertsFresh, NEW s \in Sessions, NEW t, NEW x, NEW p, NEW at,
           CreateTask(s, t, x, p, at)
    PROVE  InsertsFresh'
<1> DEFINE c == [do |-> "insert", task |-> t,
                 row |-> [NoTaskRow EXCEPT !.status = "pending", !.phase = at,
                                           !.strategy = x]]
<1>1. /\ session[s] = Idle /\ Fresh(t) /\ Take(s, "create", NoPhase, Stored, <<c>>)
      /\ task' = task
  BY DEF CreateTask, MayServe, Keep
<1>2. c.do = "insert" /\ c.task = t
  OBVIOUS
<1> HIDE DEF c
<1>3. /\ \A q \in Sessions : q # s => session'[q] = session[q]
      /\ session'[s].calls = <<c>>
  BY <1>1 DEF Take, TypeOK
<1>4. Left(s)' = {c} /\ Len(session'[s].calls) = 1
  BY <1>3, RangeOfCalls DEF Left
<1>5. \A q \in Sessions : q # s => Left(q)' = Left(q)
  BY <1>3 DEF Left
<1>6. \A q \in Sessions : q # s /\ session[q] # Idle =>
          \A d \in Left(q) : d.do = "insert" => d.task # t
  BY <1>1 DEF Fresh, Left, Range
<1>7. ASSUME NEW q \in Sessions, session'[q] # Idle, NEW d \in Left(q)', d.do = "insert"
      PROVE  Len(session'[q].calls) = 1 /\ ~Exists(d.task)'
  <2>1. CASE q = s
    BY <1>1, <1>2, <1>4, <1>7, <2>1 DEF Fresh, Exists
  <2>2. CASE q # s
    BY <1>1, <1>3, <1>5, <1>7, <2>2 DEF InsertsFresh, Exists
  <2> QED
    BY <2>1, <2>2
<1>8. ASSUME NEW q \in Sessions, NEW r \in Sessions, r # q, session'[q] # Idle,
             session'[r] # Idle, NEW d \in Left(q)', NEW e \in Left(r)',
             d.do = "insert", e.do = "insert"
      PROVE  d.task # e.task
  <2>1. CASE q # s /\ r # s
    BY <1>3, <1>5, <1>8, <2>1 DEF InsertsFresh
  <2>2. CASE q = s
    BY <1>2, <1>3, <1>4, <1>5, <1>6, <1>8, <2>2
  <2>3. CASE r = s
    BY <1>2, <1>3, <1>4, <1>5, <1>6, <1>8, <2>3
  <2> QED
    BY <2>1, <2>2, <2>3
<1> QED
  BY <1>7, <1>8 DEF InsertsFresh

LEMMA SameSessionsFresh ==
    ASSUME TypeOK, InsertsFresh, UNCHANGED session,
           \A t \in Tasks : ~Exists(t) => ~Exists(t)'
    PROVE  InsertsFresh'
<1>1. \A q \in Sessions : Left(q)' = Left(q)
  BY DEF Left
<1>2. ASSUME NEW q \in Sessions, session[q] # Idle, NEW c \in Left(q), c.do = "insert"
      PROVE  c.task \in Tasks
  <2>1. session[q].calls \in Seq(Calls)
    BY <1>2 DEF TypeOK, Busy
  <2>2. c \in Calls
    BY <1>2, <2>1, RangeOfSeq DEF Left
  <2> QED
    BY <1>2, <2>2 DEF Calls
<1> QED
  BY <1>1, <1>2 DEF InsertsFresh

LEMMA PhaseVerbFresh ==
    ASSUME TypeOK, InsertsFresh, NEW s \in Sessions, PhaseVerb(s)
    PROVE  InsertsFresh'
<1>1. ASSUME NEW p \in Phases, ReopenPhase(s, p) PROVE InsertsFresh'
  <2>1. \A c \in Range(<<[do |-> "commit"]>>) : c.do # "insert"
    BY RangeOfCalls
  <2> QED
    BY <1>1, <2>1, TakeFresh DEF ReopenPhase, Take, Keep
<1>2. ASSUME NEW p \in Phases, NEW listed \in Listings, ConfirmAdvance(s, p, listed)
      PROVE  InsertsFresh'
  <2> DEFINE next == Successor(p)
             moving == IF next = NoPhase THEN {} ELSE Unfinished(p)
             theirs == {t \in listed : task[t].strategy \in moving}
             direct == IF next = NoPhase THEN {} ELSE {t \in Direct(p, listed) : Open(t)}
             to(T) == [do |-> "set_phase", tasks |-> T, to |-> next]
             u == Task(to(theirs), theirs) \o Task(to(direct), direct)
             calls == u \o <<[do |-> "commit"]>>
  <2>1. PICK mine : Take(s, "confirm", p, mine, calls)
    BY <1>2 DEF ConfirmAdvance
  <2>2. next \in Phases \cup {NoPhase}
    BY SuccessorType
  <2>3. /\ theirs \in SUBSET Tasks /\ (next = NoPhase => theirs = {})
        /\ direct \in SUBSET Tasks /\ (next = NoPhase => direct = {})
    BY DEF Listings, Direct
  <2>4. ASSUME NEW T \in SUBSET Tasks, next = NoPhase => T = {}
        PROVE  /\ Task(to(T), T) \in Seq(Calls)
               /\ \A c \in Range(Task(to(T), T)) : c.do = "set_phase"
    <3>1. T # {} => to(T) \in Calls
      BY <2>2, <2>4 DEF Calls
    <3>2. to(T).do = "set_phase"
      OBVIOUS
    <3> HIDE DEF to
    <3>3. Task(to(T), T) \in Seq(Calls)
      BY <3>1, CallsType DEF Task
    <3>4. Range(Task(to(T), T)) \subseteq {to(T)}
      BY RangeOfCalls
    <3> QED
      BY <3>2, <3>3, <3>4
  <2> HIDE DEF next, theirs, direct, to
  <2>5. u \in Seq(Calls) /\ \A c \in Range(u) : c.do = "set_phase"
    <3> DEFINE v == Task(to(theirs), theirs)  w == Task(to(direct), direct)
    <3>1. /\ v \in Seq(Calls) /\ w \in Seq(Calls)
          /\ \A c \in Range(v) \cup Range(w) : c.do = "set_phase"
      BY <2>3, <2>4
    <3> HIDE DEF v, w
    <3>2. v \o w \in Seq(Calls) /\ Range(v \o w) = Range(v) \cup Range(w)
      BY <3>1, CallsType, RangeOfCalls
    <3> QED
      BY <3>1, <3>2 DEF v, w
  <2> HIDE DEF u
  <2>6. Range(calls) = Range(u) \cup {[do |-> "commit"]}
    BY <2>5, CommitLast
  <2>7. \A c \in Range(calls) : c.do # "insert"
    BY <2>5, <2>6
  <2>8. task' = task
    BY <1>2 DEF ConfirmAdvance
  <2> HIDE DEF calls
  <2> QED
    BY <2>1, <2>7, <2>8, TakeFresh DEF Take
<1> QED
  BY <1>1, <1>2 DEF PhaseVerb

LEMMA JudgeFresh ==
    ASSUME TypeOK, InsertsFresh, NEW s \in Sessions, NEW x, NEW status, NEW outcome,
           NEW calls, Judge(s, x, status, outcome, calls),
           calls \in {<<[do |-> "commit"]>>, ReleaseThenCommit(x)}
    PROVE  InsertsFresh'
<1>1. \A c \in Range(calls) : c.do # "insert"
  BY RangeOfCalls DEF ReleaseThenCommit
<1>2. PICK mine : Take(s, "verdict", NoPhase, mine, calls)
  BY DEF Judge
<1>3. task' = task
  BY DEF Judge, Keep
<1> QED
  BY <1>1, <1>2, <1>3, TakeFresh DEF Take

LEMMA StrategyVerbFresh ==
    ASSUME TypeOK, InsertsFresh, NEW s \in Sessions, StrategyVerb(s)
    PROVE  InsertsFresh'
<1>1. ASSUME NEW x \in Strategies, NEW p \in Phases \cup {NoPhase}, MoveStrategy(s, x, p)
      PROVE  InsertsFresh'
  <2> DEFINE commit == [do |-> "commit"]
             follow == [do |-> "follow", of |-> x, to |-> p]
             tail == IF p = NoPhase THEN <<>> ELSE <<follow>>
  <2>1. commit.do # "insert" /\ follow.do # "insert"
    OBVIOUS
  <2>2. commit \in Calls /\ (p # NoPhase => follow \in Calls)
    BY DEF Calls
  <2>3. PICK mine : Take(s, "move", NoPhase, mine, <<commit>> \o tail)
    BY <1>1 DEF MoveStrategy
  <2>4. task' = task
    BY <1>1 DEF MoveStrategy, Keep
  <2> HIDE DEF commit, follow
  <2> DEFINE first == <<commit>>
  <2>5. /\ first \in Seq(Calls) /\ tail \in Seq(Calls)
        /\ Range(first) = {commit} /\ Range(tail) \subseteq {follow}
    BY <2>2, CallsType, RangeOfCalls
  <2>6. Take(s, "move", NoPhase, mine, first \o tail)
    BY <2>3
  <2> HIDE DEF first, tail
  <2>7. Range(first \o tail) = Range(first) \cup Range(tail)
    BY <2>5, RangeOfCalls
  <2>8. \A c \in Range(first \o tail) : c.do # "insert"
    BY <2>1, <2>5, <2>7
  <2> QED
    BY <2>4, <2>6, <2>8, TakeFresh DEF Take
<1>2. ASSUME NEW x \in Strategies, NEW T, AttachTasks(s, x, T) PROVE InsertsFresh'
  <2> DEFINE c == [do |-> "set_strategy", of |-> x, tasks |-> T,
                   to |-> strategy[x].phase]
  <2>1. c.do # "insert" /\ Take(s, "attach", NoPhase, Stored, <<c>>)
    BY <1>2 DEF AttachTasks
  <2> HIDE DEF c
  <2>2. \A d \in Range(<<c>>) : d.do # "insert"
    BY <2>1, RangeOfCalls
  <2>3. task' = task
    BY <1>2 DEF AttachTasks, Keep
  <2> QED
    BY <2>1, <2>2, <2>3, TakeFresh DEF Take
<1>3. ASSUME NEW x \in Strategies, NEW t \in Tasks, PromoteTask(s, t, x)
      PROVE  InsertsFresh'
  <2> DEFINE begin == [do |-> "begin", of |-> x]
             delete == [do |-> "delete", task |-> t]
             first == IF task[t].status = "in_progress" THEN <<begin>> ELSE <<>>
  <2>1. /\ begin \in Calls /\ delete \in Calls
        /\ begin.do # "insert" /\ delete.do # "insert"
    BY DEF Calls
  <2>2. PICK rows : session' = [session EXCEPT ![s] =
            [verb |-> "promote", phase |-> NoPhase, seen |-> rows, mine |-> rows,
             calls |-> first \o <<delete>>]]
    BY <1>3 DEF PromoteTask
  <2>3. task' = task
    BY <1>3 DEF PromoteTask
  <2> HIDE DEF begin, delete
  <2> DEFINE last == <<delete>>
  <2>4. /\ first \in Seq(Calls) /\ last \in Seq(Calls)
        /\ Range(first) \subseteq {begin} /\ Range(last) = {delete}
    BY <2>1, CallsType, RangeOfCalls
  <2>5. session' = [session EXCEPT ![s] =
            [verb |-> "promote", phase |-> NoPhase, seen |-> rows, mine |-> rows,
             calls |-> first \o last]]
    BY <2>2
  <2> HIDE DEF first, last
  <2>6. Range(first \o last) = Range(first) \cup Range(last)
    BY <2>4, RangeOfCalls
  <2>7. \A c \in Range(first \o last) : c.do # "insert"
    BY <2>1, <2>4, <2>6
  <2> QED
    BY <2>3, <2>5, <2>7, TakeFresh
<1>4. ASSUME NEW x \in Strategies, NEW p, NEW status, CreateStrategy(s, x, p, status)
      PROVE  InsertsFresh'
  BY <1>4, SameSessionsFresh DEF CreateStrategy, Exists
<1>5. ASSUME NEW x \in Strategies, StartStrategy(s, x) \/ DisplaceStrategy(s, x)
      PROVE  InsertsFresh'
  BY <1>5, JudgeFresh DEF StartStrategy, DisplaceStrategy
<1>6. ASSUME NEW x \in Strategies, NEW o, ConcludeStrategy(s, x, o)
      PROVE  InsertsFresh'
  BY <1>6, JudgeFresh DEF ConcludeStrategy
<1>7. ASSUME NEW x \in Strategies, NEW o, AbandonStrategy(s, x, o)
      PROVE  InsertsFresh'
  BY <1>7, JudgeFresh DEF AbandonStrategy
<1> QED
  BY <1>1, <1>2, <1>3, <1>4, <1>5, <1>6, <1>7 DEF StrategyVerb

LEMMA NextFresh ==
    ASSUME TypeOK, InsertsFresh, [Next]_vars
    PROVE  InsertsFresh'
<1>1. ASSUME NEW s \in Sessions, NEW t \in Tasks, StartTask(s, t) \/ CompleteTask(s, t)
      PROVE  InsertsFresh'
  <2>1. \A q \in Tasks : ~Exists(q) => ~Exists(q)'
    BY <1>1 DEF TypeOK, StartTask, CompleteTask, Exists, Open
  <2> QED
    BY <1>1, <2>1, SameSessionsFresh DEF StartTask, CompleteTask
<1>2. ASSUME NEW s \in Sessions, TaskVerb(s) PROVE InsertsFresh'
  BY <1>1, <1>2, CreateTaskFresh DEF TaskVerb
<1>3. ASSUME NEW s \in Sessions, Step(s) PROVE InsertsFresh'
  BY <1>3, CallFresh, OtherStepFresh DEF Step, TaskCall
<1>4. ASSUME (\E s \in Sessions : Recalculate(s)) \/ Elapse \/ UNCHANGED vars
      PROVE  InsertsFresh'
  BY <1>4, SameSessionsFresh DEF Recalculate, Elapse, vars, Exists
<1> QED
  BY <1>2, <1>3, <1>4, PhaseVerbFresh, StrategyVerbFresh DEF Next

LEMMA FreshInvariant == Spec => [](TypeOK /\ InsertsFresh)
<1>1. Init => TypeOK /\ InsertsFresh
  BY InitType DEF Init, InsertsFresh
<1>2. TypeOK /\ InsertsFresh /\ [Next]_vars => (TypeOK /\ InsertsFresh)'
  BY NextType, NextFresh
<1> QED
  BY <1>1, <1>2, PTL DEF Spec

LEMMA KeptStep ==
    ASSUME TypeOK, InsertsFresh, [Next]_vars
    PROVE  CompletedWorkKept
<1> SUFFICES ASSUME NEW t \in Tasks, task[t].status = "completed"
             PROVE  /\ \/ task'[t].status = "completed"
                       \/ task'[t].status = "in_progress" /\ ~task[t].begun
                    /\ task[t].strategy # NoStrategy => task'[t].strategy # NoStrategy
  BY DEF CompletedWorkKept
<1>1. task[t] \in TaskRows /\ task \in [Tasks -> TaskRows]
  BY DEF TypeOK
<1>2. CASE task' = task
  BY <1>2
<1>3. ASSUME NEW s \in Sessions, TaskCall(s)
      PROVE  /\ task'[t].status = "completed"
             /\ task[t].strategy # NoStrategy => task'[t].strategy # NoStrategy
  <2> DEFINE c == Head(session[s].calls)
  <2>1. session[s] # Idle /\ session[s].calls # <<>>
    BY <1>3, TaskCallIs
  <2>2. c \in Calls /\ session[s].calls \in Seq(Calls)
    BY <2>1, RestType DEF Busy
  <2>3. c \in Left(s)
    BY <2>1, <2>2, HeadAndRest DEF Left
  <2>4. c.do = "insert" => c.task # t
    BY <2>1, <2>3 DEF InsertsFresh, Exists
  <2>5. c.do \in TaskCalls /\ task'[t] = After(c, t)
    BY <1>3, TaskCallDoes
  <2> HIDE DEF c
  <2> QED
    BY <2>2, <2>4, <2>5, AfterCompleted
<1>4. ASSUME NEW s \in Sessions, NEW q \in Tasks, StartTask(s, q)
      PROVE  /\ \/ task'[t].status = "completed"
                \/ task'[t].status = "in_progress" /\ ~task[t].begun
             /\ task'[t].strategy = task[t].strategy
  BY <1>1, <1>4 DEF StartTask, TaskRows
<1>5. ASSUME NEW s \in Sessions, NEW q \in Tasks, CompleteTask(s, q)
      PROVE  task'[t].status = "completed" /\ task'[t].strategy = task[t].strategy
  BY <1>1, <1>5 DEF CompleteTask, TaskRows
<1>6. ASSUME NEW s \in Sessions, PhaseVerb(s) PROVE task' = task
  BY <1>6 DEF PhaseVerb, ConfirmAdvance, ReopenPhase, Keep
<1>7. ASSUME NEW s \in Sessions, StrategyVerb(s) PROVE task' = task
  BY <1>7 DEF StrategyVerb, MoveStrategy, CreateStrategy, StartStrategy, DisplaceStrategy,
     ConcludeStrategy, AbandonStrategy, Judge, AttachTasks, PromoteTask, Keep
<1>8. ASSUME NEW s \in Sessions, TaskVerb(s)
      PROVE  task' = task \/ \E q \in Tasks : StartTask(s, q) \/ CompleteTask(s, q)
  BY <1>8 DEF TaskVerb, CreateTask, Keep
<1>9. ASSUME NEW s \in Sessions, Step(s) PROVE task' = task \/ TaskCall(s)
  BY <1>9 DEF Step, TaskCall, Commit, Begin, Refuse, Crash
<1>10. ASSUME NEW s \in Sessions, Recalculate(s) PROVE task' = task
  BY <1>10 DEF Recalculate
<1>11. ASSUME Elapse \/ UNCHANGED vars PROVE task' = task
  BY <1>11 DEF Elapse, vars
<1> QED
  BY <1>2, <1>3, <1>4, <1>5, <1>6, <1>7, <1>8, <1>9, <1>10, <1>11 DEF Next

\* Whatever requests overlap, whichever calls are refused and wherever a request
\* dies: no verb deletes a completed task, reopens it or takes it from its
\* strategy, but for start_task, which may reopen one that was never started.
THEOREM CompletedWorkCorrect == Spec => [][CompletedWorkKept]_vars
<1>1. TypeOK /\ InsertsFresh /\ [Next]_vars => [CompletedWorkKept]_vars
  BY KeptStep
<1> QED
  BY <1>1, FreshInvariant, PTL DEF Spec

\* When no two requests overlap, completed work is kept, and a confirmation
\* that lost no call leaves no open task in the phase it closed but those whose
\* strategy is finished or scheduled nowhere, and no unfinished strategy.
THEOREM WorkCorrect ==
    ASSUME ~Overlap
    PROVE  Spec => WorkFollows
<1>1. AgreeInv /\ InsertsFresh /\ [Next]_vars => [CompletedWorkKept /\ OpenWorkMovesOn]_vars
  BY KeptStep, MovesOnStep DEF AgreeInv, SerialInv
<1> QED
  BY <1>1, FreshInvariant, AgreeInvariant, PTL DEF Spec, WorkFollows
=============================================================================
