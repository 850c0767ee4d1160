-------------------------- MODULE InfinityLoop_proofs --------------------------
(***************************************************************************)
(* Proofs about InfinityLoop, for every number of runs, triggers and       *)
(* decisions: what the user's row protects, and what a lease does.         *)
(***************************************************************************)
EXTENDS InfinityLoop, TLAPS

-----------------------------------------------------------------------------
(* The inductive invariant.                                                *)

Pcs == {"idle", "acquire", "begin", "score", "insert", "evaluate", "latest", "decide",
        "adapt", "stop", "stop_broken", "release", "release_broken", "finish",
        "finish_broken", "done"}

RunRows == [pc : Pcs, trigger : Triggers \cup {None}, locked : BOOLEAN, base : Nat,
            wrote : {"no", "now", "earlier"}, seen : Nat, latched : BOOLEAN,
            decision : Adjustments \cup {None}]
BeatRows == [pc : {"off", "wait", "get", "expire", "db"}, left : 0 .. 1]

\* Every run that has begun is one of a trigger, and a run's heartbeat starts
\* after its lease is taken.
RunsStarted ==
    \A r \in Runs :
        /\ run[r].pc # "idle" => run[r].trigger \in Triggers
        /\ run[r].pc \in {"idle", "acquire", "begin"} => beat[r] = NoBeat

\* A run that has written the user's score holds the user's row, and the version
\* it counts from is still the row's; one that has come to a decision holds
\* the row too, unless it gave it up on the way, and what it took for the
\* latest adjustment is still that.
RunFits(x, version, adjusted, marks) ==
    /\ x.wrote # "no" => x.locked /\ x.base = IF version = 0 THEN 1 ELSE version
    /\ "midway" \notin marks =>
         /\ x.pc \in {"evaluate", "latest", "decide", "adapt"} => x.locked
         /\ x.pc \in {"decide", "adapt"} \/ x.decision # None
              => x.locked /\ x.seen = Len(adjusted)
         /\ x.decision # None /\ x.seen > 0 => Follows(x.decision, adjusted[x.seen])

RowHeld ==
    /\ \A r, s \in Runs : run[r].locked /\ run[s].locked => r = s
    /\ \A r \in Runs : RunFits(run[r], score.version, adjustments, disturbed)
    /\ IF history = 0 THEN score.version \in {0, 1} ELSE score.version = history + 1

\* The lease a run works under: the key in Redis, or the row while Redis does
\* not answer.
LeaseOf(r) == IF up THEN redis[Trig(r)] ELSE rows[Trig(r)]

\* A run that has Redis's or the database's lease to take takes it from the one
\* that answers.  A run at work owns its lease, which is fresh when its heartbeat
\* waits and else was fresh an interval ago.
OnGuard(r) ==
    /\ At(r, "acquire") => ~up
    /\ Working(r) =>
         /\ LeaseOf(r).owner = r
         /\ LeaseOf(r).left >= TTL - 1
         /\ At(r, "begin") \/ beat[r] = Waiting => LeaseOf(r).left = TTL
         /\ beat[r].pc = "db" => ~up

\* No run is off its guard before a lease was exposed.
LeaseHeld == "exposed" \notin disturbed => \A r \in Runs : OnGuard(r)

IInv == TypeOK /\ RunsStarted /\ RowHeld /\ NoThrash

-----------------------------------------------------------------------------
(* Rows, leases and heartbeats.                                            *)

LEMMA IdleType ==
    /\ Idle \in RunRows
    /\ Idle.pc = "idle" /\ Idle.locked = FALSE /\ Idle.wrote = "no" /\ Idle.decision = None
BY DEF Idle, RunRows, Pcs

LEMMA SettledType ==
    ASSUME NEW r \in Runs, run[r] \in RunRows, NEW pc \in Pcs
    PROVE  /\ Settled(r, pc) \in RunRows
           /\ Settled(r, pc).pc = pc /\ Settled(r, pc).trigger = Trig(r)
           /\ Settled(r, pc).locked = FALSE /\ Settled(r, pc).wrote = "no"
           /\ Settled(r, pc).decision = None
<1>1. Trig(r) \in Triggers \cup {None}
  BY DEF Trig, RunRows
<1> QED
  BY <1>1, IdleType DEF Settled, RunRows, Idle

LEMMA BeatTypes ==
    /\ NoBeat \in BeatRows /\ Waiting \in BeatRows
    /\ NoBeat # Waiting
    /\ \A b \in BeatRows : Stopped(b) \in BeatRows /\ [b EXCEPT !.left = 0] \in BeatRows
    /\ \A b \in BeatRows : [b EXCEPT !.left = 0] # Waiting
    /\ \A b \in BeatRows, pc \in {"get", "expire", "db"} :
         [b EXCEPT !.pc = pc] \in BeatRows /\ [b EXCEPT !.pc = pc] # Waiting
BY DEF NoBeat, Waiting, BeatRows, Stopped

\* Leases keep their type, and but for those that run out, their owner.
LEMMA LeaseTypes ==
    /\ Free \in Leases
    /\ \A r \in Runs, open \in BOOLEAN : Lease(r, open) \in Leases
    /\ \A r \in Runs, open \in BOOLEAN : Lease(r, open).owner = r /\ Lease(r, open).left = TTL
BY LoopAssumption DEF Free, Leases, Lease

LEMMA ExtendedType ==
    ASSUME NEW l \in Leases
    PROVE  /\ Extended(l) \in Leases
           /\ Extended(l).owner = l.owner
           /\ l # Free => Extended(l).left = TTL
BY LoopAssumption, LeaseTypes DEF Extended, Leases, Free

LEMMA ClosedType ==
    ASSUME NEW l \in Leases
    PROVE  /\ Closed(l) \in Leases
           /\ l.left > 0 => Closed(l).owner = l.owner /\ Closed(l).left = l.left
<1>1. CASE l.left = 0
  BY <1>1, LeaseTypes DEF Closed
<1>2. CASE l.left # 0
  BY <1>2, Zenon DEF Closed, Leases
<1> QED
  BY <1>1, <1>2

LEMMA AgedType ==
    ASSUME NEW l \in Leases
    PROVE  /\ Aged(l) \in Leases
           /\ l.left > 1 => Aged(l).owner = l.owner /\ Aged(l).left = l.left - 1
BY LoopAssumption, LeaseTypes DEF Aged, Leases

LEMMA Types ==
    ASSUME TypeOK
    PROVE  /\ run \in [Runs -> RunRows] /\ beat \in [Runs -> BeatRows]
           /\ redis \in [Triggers -> Leases] /\ rows \in [Triggers -> Leases]
           /\ score \in [version : Nat, trigger : Triggers \cup {None}, recent : BOOLEAN]
           /\ history \in Nat /\ adjustments \in Seq(Adjustments)
           /\ disturbed \subseteq {"exposed", "midway"}
           /\ up \in BOOLEAN
           /\ flips \in 0 .. MaxFlips /\ crashes \in 0 .. MaxCrashes
BY DEF TypeOK, RunRows, BeatRows, Pcs

\* One run moves on, or one heartbeat.
LEMMA RunMoves ==
    ASSUME TypeOK, NEW r \in Runs, NEW x \in RunRows, run' = [run EXCEPT ![r] = x]
    PROVE  /\ run' \in [Runs -> RunRows] /\ run'[r] = x
           /\ \A s \in Runs : s # r => run'[s] = run[s]
BY Types

LEMMA BeatMoves ==
    ASSUME TypeOK, NEW r \in Runs, NEW b \in BeatRows, beat' = [beat EXCEPT ![r] = b]
    PROVE  /\ beat' \in [Runs -> BeatRows] /\ beat'[r] = b
           /\ \A s \in Runs : s # r => beat'[s] = beat[s]
BY Types

LEMMA RowsMove ==
    ASSUME TypeOK, NEW r \in Runs
    PROVE  /\ RowsCommitted(r) \in [Triggers -> Leases]
           /\ RowsUndone(r) \in [Triggers -> Leases]
BY Types, ClosedType, LeaseTypes DEF RowsCommitted, RowsUndone

-----------------------------------------------------------------------------
(* What a step makes of a run.                                             *)

\* Run r becomes x; nothing is committed.
Quiet(r, x) ==
    /\ run' = [run EXCEPT ![r] = x]
    /\ UNCHANGED <<score, history, adjustments>>
    /\ disturbed \subseteq disturbed' /\ disturbed' \subseteq {"exposed", "midway"}

\* Run r keeps what it wrote, read and decided.
Keeps(r, x) ==
    /\ x.trigger \in Triggers /\ x.pc # "idle"
    /\ x.locked = run[r].locked /\ x.base = run[r].base /\ x.wrote = run[r].wrote
    /\ x.seen = run[r].seen /\ x.decision = run[r].decision

LEMMA ExecuteMoves ==
    ASSUME TypeOK, NEW r \in Runs, NEW t \in Triggers, Execute(r, t)
    PROVE  \E x \in RunRows : Quiet(r, x) /\ Keeps(r, x) /\ x.pc \in {"begin", "done", "acquire"}
<1>1. PICK pc \in {"begin", "done", "acquire"} : run' = [run EXCEPT ![r].pc = pc, ![r].trigger = t]
  BY DEF Execute
<1> DEFINE x == [run[r] EXCEPT !.pc = pc, !.trigger = t]
<1>2. run' = [run EXCEPT ![r] = x]
  BY <1>1, Types
<1>3. x \in RunRows /\ Keeps(r, x) /\ x.pc = pc
  BY Types DEF RunRows, Pcs, Keeps
<1>4. Quiet(r, x)
  BY <1>2, Types DEF Quiet, Execute
<1> QED
  BY <1>3, <1>4

\* The steps that only move a run on.
LEMMA MovesOn ==
    ASSUME TypeOK, RunsStarted, NEW r \in Runs, run[r].pc # "idle", NEW pc \in Pcs \ {"idle"},
           run' = [run EXCEPT ![r].pc = pc],
           UNCHANGED <<score, history, adjustments, disturbed>>
    PROVE  \E x \in RunRows : Quiet(r, x) /\ Keeps(r, x) /\ x.pc = pc
<1> DEFINE x == [run[r] EXCEPT !.pc = pc]
<1>1. run' = [run EXCEPT ![r] = x]
  BY Types
<1>2. x \in RunRows /\ Keeps(r, x) /\ x.pc = pc
  <2>1. run[r] \in RunRows /\ run[r].trigger \in Triggers
    BY Types DEF RunsStarted
  <2>2. x \in RunRows
    BY <2>1 DEF RunRows
  <2>3. /\ x.pc = pc /\ x.trigger = run[r].trigger /\ x.locked = run[r].locked
        /\ x.base = run[r].base /\ x.wrote = run[r].wrote /\ x.seen = run[r].seen
        /\ x.decision = run[r].decision
    BY <2>1 DEF RunRows
  <2> QED
    BY <2>1, <2>2, <2>3 DEF Keeps
<1>3. Quiet(r, x)
  BY <1>1, Types DEF Quiet
<1> QED
  BY <1>2, <1>3

LEMMA PlainMoves ==
    ASSUME TypeOK, RunsStarted, NEW r \in Runs,
           AcquireDb(r) \/ Begin(r) \/ Insert(r) \/ Stop(r) \/ Release(r)
    PROVE  \E x \in RunRows : /\ Quiet(r, x) /\ Keeps(r, x)
                              /\ x.pc \notin {"acquire", "evaluate", "latest", "decide", "adapt"}
                              /\ x.pc = "begin" => AcquireDb(r)
<1>1. /\ run[r].pc # "idle"
      /\ UNCHANGED <<score, history, adjustments, disturbed>>
  BY DEF AcquireDb, Begin, Insert, Stop, Release, At
<1>2. CASE AcquireDb(r)
  <2>1. PICK pc \in {"begin", "done"} : run' = [run EXCEPT ![r].pc = pc]
    BY <1>2 DEF AcquireDb
  <2>2. pc \in Pcs \ {"idle"}
    BY DEF Pcs
  <2>3. PICK x \in RunRows : Quiet(r, x) /\ Keeps(r, x) /\ x.pc = pc
    BY <1>1, <2>1, <2>2, MovesOn
  <2> QED
    BY <1>2, <2>3
<1>3. CASE Begin(r) \/ Insert(r) \/ Stop(r) \/ Release(r)
  <2>1. PICK pc \in Pcs \ {"idle", "acquire", "begin", "evaluate", "latest", "decide", "adapt"} :
          run' = [run EXCEPT ![r].pc = pc]
    BY <1>3 DEF Begin, Insert, Stop, Release, Pcs
  <2>2. PICK x \in RunRows : Quiet(r, x) /\ Keeps(r, x) /\ x.pc = pc
    BY <1>1, <2>1, MovesOn
  <2> QED
    BY <2>1, <2>2
<1> QED
  BY <1>2, <1>3

LEMMA ScoreMoves ==
    ASSUME TypeOK, RunsStarted, NEW r \in Runs, Score(r)
    PROVE  \E x \in RunRows :
             /\ Quiet(r, x) /\ x.trigger \in Triggers /\ x.locked = TRUE /\ ~RowLocked(r)
             /\ x.seen = run[r].seen /\ x.decision = run[r].decision
             /\ \/ x.pc = "evaluate" /\ x.wrote = "now" /\ x.base = score.version
                \/ x.pc = "stop" /\ x.wrote = run[r].wrote /\ x.base = run[r].base
             /\ score.version # 0
<1>1. /\ run[r].pc = "score" /\ run[r].trigger \in Triggers /\ run[r] \in RunRows
      /\ score.version \in Nat
  BY Types DEF Score, At, RunsStarted
<1>2. /\ UNCHANGED <<score, history, adjustments, disturbed>>
      /\ ~RowLocked(r) /\ score.version # 0
  BY DEF Score
<1> DEFINE a == [run[r] EXCEPT !.pc = "evaluate", !.locked = TRUE,
                               !.base = score.version, !.wrote = "now"]
           b == [run[r] EXCEPT !.pc = "stop", !.locked = TRUE]
<1>3. run' = [run EXCEPT ![r] = a] \/ run' = [run EXCEPT ![r] = b]
  BY Types DEF Score
<1>4. /\ a \in RunRows /\ a.trigger = run[r].trigger /\ a.locked = TRUE
      /\ a.seen = run[r].seen /\ a.decision = run[r].decision
      /\ a.pc = "evaluate" /\ a.wrote = "now" /\ a.base = score.version
  BY <1>1 DEF RunRows, Pcs
<1>5. /\ b \in RunRows /\ b.trigger = run[r].trigger /\ b.locked = TRUE
      /\ b.seen = run[r].seen /\ b.decision = run[r].decision
      /\ b.pc = "stop" /\ b.wrote = run[r].wrote /\ b.base = run[r].base
  BY <1>1 DEF RunRows, Pcs
<1> HIDE DEF a, b
<1>6. disturbed' \subseteq {"exposed", "midway"} /\ disturbed \subseteq disturbed'
  BY <1>2, Types
<1> QED
  BY <1>1, <1>2, <1>3, <1>4, <1>5, <1>6 DEF Quiet

LEMMA FirstScoreMoves ==
    ASSUME TypeOK, RunsStarted, NEW r \in Runs, FirstScore(r)
    PROVE  \E x \in RunRows :
             /\ Quiet(r, x) /\ x.trigger \in Triggers
             /\ x.seen = run[r].seen /\ x.decision = run[r].decision
             /\ \/ Keeps(r, x) /\ x.pc = "insert"
                \/ /\ x.pc = "evaluate" /\ x.wrote = "now" /\ x.base = 1
                   /\ x.locked = TRUE /\ ~RowLocked(r)
             /\ score.version = 0
<1>1. /\ run[r].pc = "score" /\ run[r].trigger \in Triggers /\ run[r] \in RunRows
  BY Types DEF FirstScore, At, RunsStarted
<1>2. /\ UNCHANGED <<score, history, adjustments, disturbed>> /\ score.version = 0
  BY DEF FirstScore
<1> DEFINE a == [run[r] EXCEPT !.pc = "evaluate", !.locked = TRUE,
                               !.base = 1, !.wrote = "now"]
<1>3. CASE RowLocked(r)
  <2>1. run' = [run EXCEPT ![r].pc = "insert"]
    BY <1>3 DEF FirstScore
  <2>2. "insert" \in Pcs \ {"idle"}
    BY DEF Pcs
  <2>3. PICK x \in RunRows : Quiet(r, x) /\ Keeps(r, x) /\ x.pc = "insert"
    BY <1>1, <1>2, <2>1, <2>2, MovesOn
  <2> QED
    BY <1>2, <2>3 DEF Keeps
<1>4. CASE ~RowLocked(r)
  <2>1. run' = [run EXCEPT ![r] = a]
    BY <1>4, Types DEF FirstScore
  <2>2. /\ a \in RunRows /\ a.trigger = run[r].trigger /\ a.locked = TRUE
        /\ a.seen = run[r].seen /\ a.decision = run[r].decision
        /\ a.pc = "evaluate" /\ a.wrote = "now" /\ a.base = 1
    BY <1>1 DEF RunRows, Pcs
  <2> HIDE DEF a
  <2>3. disturbed' \subseteq {"exposed", "midway"} /\ disturbed \subseteq disturbed'
    BY <1>2, Types
  <2> QED
    BY <1>1, <1>2, <1>4, <2>1, <2>2, <2>3 DEF Quiet
<1> QED
  BY <1>3, <1>4

LEMMA LatestMoves ==
    ASSUME TypeOK, RunsStarted, NEW r \in Runs, Latest(r)
    PROVE  \E x \in RunRows :
             /\ Quiet(r, x) /\ x.trigger \in Triggers /\ x.pc = "decide"
             /\ x.locked = run[r].locked /\ x.base = run[r].base /\ x.wrote = run[r].wrote
             /\ x.seen = Len(adjustments) /\ x.decision = run[r].decision
<1>1. /\ run[r].pc = "latest" /\ run[r].trigger \in Triggers /\ run[r] \in RunRows
      /\ Len(adjustments) \in Nat
  BY Types DEF Latest, At, RunsStarted
<1> DEFINE x == [run[r] EXCEPT !.pc = "decide", !.seen = Len(adjustments)]
<1>2. run' = [run EXCEPT ![r] = x]
  BY Types DEF Latest
<1>3. /\ x \in RunRows /\ x.trigger \in Triggers /\ x.pc = "decide"
      /\ x.locked = run[r].locked /\ x.base = run[r].base /\ x.wrote = run[r].wrote
      /\ x.seen = Len(adjustments) /\ x.decision = run[r].decision
  BY <1>1 DEF RunRows, Pcs
<1>4. Quiet(r, x)
  BY <1>2, Types DEF Quiet, Latest
<1> QED
  BY <1>3, <1>4

\* A decision is taken and kept for the commit, or the run gives up.
LEMMA DecideMoves ==
    ASSUME TypeOK, RunsStarted, NEW r \in Runs, Decide(r)
    PROVE  \/ \E x \in RunRows :
                /\ Quiet(r, x) /\ x.trigger \in Triggers /\ x.pc = "adapt"
                /\ x.locked = run[r].locked /\ x.base = run[r].base /\ x.wrote = run[r].wrote
                /\ x.seen = run[r].seen
                /\ x.decision # None /\ run[r].seen > 0 =>
                     Follows(x.decision, adjustments[run[r].seen])
           \/ Quiet(r, Settled(r, "stop"))
<1>1. /\ run[r].pc = "decide" /\ run[r].trigger \in Triggers /\ run[r] \in RunRows
  BY Types DEF Decide, At, RunsStarted
<1>2. CASE RolledBack(r) /\ run' = [run EXCEPT ![r] = Settled(r, "stop")]
  BY <1>2, Types DEF RolledBack, Quiet
<1>3. ASSUME NEW d \in Decisions, NEW open \in BOOLEAN,
             UNCHANGED <<rows, score, history, adjustments, disturbed>>,
             run' = [run EXCEPT ![r].pc = "adapt", ![r].latched = TRUE,
                                ![r].decision = IF Thrashes(r, d) THEN None
                                                ELSE Recorded(d, open)]
      PROVE  \E x \in RunRows :
                /\ Quiet(r, x) /\ x.trigger \in Triggers /\ x.pc = "adapt"
                /\ x.locked = run[r].locked /\ x.base = run[r].base /\ x.wrote = run[r].wrote
                /\ x.seen = run[r].seen
                /\ x.decision # None /\ run[r].seen > 0 =>
                     Follows(x.decision, adjustments[run[r].seen])
  <2> DEFINE e == IF Thrashes(r, d) THEN None ELSE Recorded(d, open)
             x == [run[r] EXCEPT !.pc = "adapt", !.latched = TRUE, !.decision = e]
  <2>1. /\ e \in Adjustments \cup {None}
        /\ e # None /\ run[r].seen > 0 => Follows(e, adjustments[run[r].seen])
    BY LoopAssumption DEF Thrashes, Recorded, Adjustments, Follows
  <2> HIDE DEF e
  <2>2. run' = [run EXCEPT ![r] = x]
    BY <1>3, Types DEF e
  <2>3. /\ x \in RunRows /\ x.trigger \in Triggers /\ x.pc = "adapt"
        /\ x.locked = run[r].locked /\ x.base = run[r].base /\ x.wrote = run[r].wrote
        /\ x.seen = run[r].seen /\ x.decision = e
    BY <1>1, <2>1 DEF RunRows, Pcs
  <2>4. Quiet(r, x)
    BY <1>3, <2>2, Types DEF Quiet
  <2> QED
    BY <2>1, <2>3, <2>4
<1> QED
  BY <1>2, <1>3 DEF Decide

LEMMA AdaptMoves ==
    ASSUME TypeOK, RunsStarted, NEW r \in Runs, Adapt(r)
    PROVE  \/ \E x \in RunRows : Quiet(r, x) /\ Keeps(r, x) /\ x.pc = "stop"
           \/ Quiet(r, Settled(r, "stop"))
           \/ /\ run' = [run EXCEPT ![r] = Settled(r, "stop")] /\ Committed(r)
              /\ disturbed' = disturbed
<1>1. run[r].pc = "adapt" /\ "stop" \in Pcs \ {"idle"}
  BY DEF Adapt, At, Pcs
<1>2. ASSUME run' = [run EXCEPT ![r].pc = "stop"],
             UNCHANGED <<rows, score, history, adjustments, disturbed>>
      PROVE  \E x \in RunRows : Quiet(r, x) /\ Keeps(r, x) /\ x.pc = "stop"
  BY <1>1, <1>2, MovesOn
<1>3. ASSUME RolledBack(r), run' = [run EXCEPT ![r] = Settled(r, "stop")]
      PROVE  Quiet(r, Settled(r, "stop"))
  BY <1>3, Types DEF RolledBack, Quiet
<1> QED
  BY <1>2, <1>3 DEF Adapt

\* The score's evaluation leaves the transaction open, commits it or undoes it.
LEMMA EvaluateMoves ==
    ASSUME TypeOK, RunsStarted, NEW r \in Runs, Evaluate(r)
    PROVE  \/ \E x \in RunRows : Quiet(r, x) /\ Keeps(r, x) /\ x.pc = "latest"
           \/ Quiet(r, Settled(r, "latest")) /\ "midway" \in disturbed'
           \/ /\ run' = [run EXCEPT ![r] = Settled(r, "latest")] /\ Committed(r)
              /\ disturbed' = disturbed \cup {"midway"}
<1>1. run[r].pc = "evaluate" /\ "latest" \in Pcs \ {"idle"}
  BY DEF Evaluate, At, Pcs
<1>2. ASSUME run' = [run EXCEPT ![r].pc = "latest"],
             UNCHANGED <<rows, score, history, adjustments, disturbed>>
      PROVE  \E x \in RunRows : Quiet(r, x) /\ Keeps(r, x) /\ x.pc = "latest"
  BY <1>1, <1>2, MovesOn
<1>3. ASSUME run' = [run EXCEPT ![r] = Settled(r, "latest")],
             disturbed' = disturbed \cup {"midway"}
                            \cup (IF rows' # rows THEN {"exposed"} ELSE {}),
             UNCHANGED <<score, history, adjustments>>
      PROVE  Quiet(r, Settled(r, "latest")) /\ "midway" \in disturbed'
  BY <1>3, Types DEF Quiet
<1> QED
  BY <1>2, <1>3 DEF Evaluate

LEMMA FinishMoves ==
    ASSUME TypeOK, RunsStarted, NEW r \in Runs, Finish(r)
    PROVE  \/ Quiet(r, Settled(r, "done"))
           \/ /\ run' = [run EXCEPT ![r] = Settled(r, "done")] /\ Committed(r)
              /\ disturbed' = disturbed
BY Types DEF Finish, Ended, Quiet

LEMMA CrashMoves ==
    ASSUME TypeOK, NEW r \in Runs, Crash(r)
    PROVE  Quiet(r, Settled(r, "done")) /\ run[r].pc \notin {"idle", "done"}
BY Types DEF Crash, Quiet, Active

-----------------------------------------------------------------------------
(* The user's row and the decisions.                                       *)

LEMMA RowLockedIs ==
    ASSUME NEW r \in Runs, ~RowLocked(r), NEW s \in Runs, s # r
    PROVE  ~run[s].locked
BY DEF RowLocked

LEMMA QuietKeepsRow ==
    ASSUME TypeOK, RowHeld, NoThrash, NEW r \in Runs, NEW x \in RunRows, Quiet(r, x),
           x.locked => run[r].locked \/ ~RowLocked(r),
           RunFits(x, score.version, adjustments, disturbed')
    PROVE  RowHeld' /\ NoThrash'
<1>1. /\ run'[r] = x /\ \A s \in Runs : s # r => run'[s] = run[s]
  BY RunMoves DEF Quiet
<1>2. /\ score' = score /\ history' = history /\ adjustments' = adjustments
      /\ "midway" \in disturbed => "midway" \in disturbed'
  BY DEF Quiet
<1>3. \A s, u \in Runs : run'[s].locked /\ run'[u].locked => s = u
  BY <1>1, RowLockedIs DEF RowHeld
<1>4. ASSUME NEW s \in Runs
      PROVE  RunFits(run'[s], score.version, adjustments, disturbed')
  <2>1. CASE s = r
    BY <1>1, <2>1
  <2>2. CASE s # r
    BY <1>1, <1>2, <2>2 DEF RowHeld, RunFits
  <2> QED
    BY <2>1, <2>2
<1>5. RowHeld'
  BY <1>2, <1>3, <1>4 DEF RowHeld
<1>6. NoThrash'
  BY <1>2 DEF NoThrash
<1> QED
  BY <1>5, <1>6

\* A run that gave its transaction up wrote, read and decided nothing.
LEMMA SettledFits ==
    ASSUME TypeOK, NEW r \in Runs, NEW pc \in Pcs, NEW v, NEW a, NEW m,
           pc \in {"stop", "done"} \/ "midway" \in m
    PROVE  /\ Settled(r, pc) \in RunRows /\ ~Settled(r, pc).locked
           /\ RunFits(Settled(r, pc), v, a, m)
<1> DEFINE x == Settled(r, pc)
<1>1. x \in RunRows /\ x.pc = pc /\ x.locked = FALSE /\ x.wrote = "no" /\ x.decision = None
  <2>1. run[r] \in RunRows
    BY Types
  <2> QED
    BY <2>1, SettledType, Zenon
<1> HIDE DEF x
<1>2. RunFits(x, v, a, m)
  BY <1>1 DEF RunFits
<1> QED
  BY <1>1, <1>2 DEF x

LEMMA CommitKeepsRow ==
    ASSUME TypeOK, RowHeld, NoThrash, NEW r \in Runs, NEW pc \in Pcs,
           run' = [run EXCEPT ![r] = Settled(r, pc)], Committed(r),
           "midway" \in disturbed => "midway" \in disturbed',
           pc \in {"stop", "done"} \/ "midway" \in disturbed'
    PROVE  RowHeld' /\ NoThrash'
<1> DEFINE x == Settled(r, pc)
           midway == "midway" \in disturbed'
<1>1. x \in RunRows /\ ~x.locked /\ RunFits(x, score'.version, adjustments', disturbed')
  BY SettledFits
<1> HIDE DEF x
<1>2. /\ run'[r] = x /\ \A s \in Runs : s # r => run'[s] = run[s]
  BY <1>1, RunMoves DEF x
<1>3. /\ \A s, u \in Runs : run[s].locked /\ run[u].locked => s = u
      /\ \A s \in Runs : RunFits(run[s], score.version, adjustments, disturbed)
      /\ IF history = 0 THEN score.version \in {0, 1} ELSE score.version = history + 1
      /\ "midway" \in disturbed => midway
  BY DEF RowHeld
<1>4. /\ history \in Nat /\ score.version \in Nat /\ adjustments \in Seq(Adjustments)
      /\ \A s \in Runs : run[s] \in RunRows
      /\ run[r].decision \in Adjustments \cup {None}
  BY Types DEF RunRows
<1>5. \A s, u \in Runs : run'[s].locked /\ run'[u].locked => s = u
  BY <1>1, <1>2, <1>3
\* The version counts on, once for each row of the history.
<1>6. IF history' = 0 THEN score'.version \in {0, 1} ELSE score'.version = history' + 1
  <2>1. CASE run[r].wrote = "no"
    BY <1>3, <2>1 DEF Committed, WroteScore
  <2>2. CASE run[r].wrote # "no"
    <3>1. score'.version = run[r].base + 1 /\ history' = history + 1
      BY <2>2 DEF Committed, WroteScore
    <3>2. run[r].base = IF score.version = 0 THEN 1 ELSE score.version
      BY <1>3, <2>2 DEF RunFits
    <3> QED
      BY <1>3, <1>4, <3>1, <3>2
  <2> QED
    BY <2>1, <2>2
\* A run that holds the row finds it as it was, for no other has written it.
<1>7. ASSUME NEW s \in Runs, s # r
      PROVE  RunFits(run[s], score'.version, adjustments', disturbed')
  <2>1. RunFits(run[s], score.version, adjustments, disturbed)
    BY <1>3
  <2>2. run[s].wrote # "no" => score'.version = score.version
    <3>1. run[s].wrote # "no" => run[r].wrote = "no"
      BY <1>3, <1>7 DEF RunFits
    <3> QED
      BY <3>1 DEF Committed, WroteScore
  <2>3. ~midway /\ run[s].locked => adjustments' = adjustments
    <3>1. ~midway /\ run[s].locked => run[r].decision = None
      BY <1>3, <1>7 DEF RunFits
    <3> QED
      BY <3>1 DEF Committed
  <2> QED
    BY <1>3, <2>1, <2>2, <2>3 DEF RunFits
<1>8. ASSUME NEW s \in Runs
      PROVE  RunFits(run'[s], score'.version, adjustments', disturbed')
  BY <1>1, <1>2, <1>7
<1>9. RowHeld'
  BY <1>5, <1>6, <1>8 DEF RowHeld
\* What is appended may follow the last adjustment.
<1>10. NoThrash'
  <2>1. CASE run[r].decision = None
    BY <1>3, <2>1 DEF Committed, NoThrash
  <2>2. CASE run[r].decision # None
    <3> DEFINE d == run[r].decision
               a == adjustments
    <3>1. adjustments' = Append(a, d) /\ d \in Adjustments
      BY <1>4, <2>2 DEF Committed
    <3> SUFFICES ASSUME ~midway, NEW n \in 2 .. Len(adjustments')
                 PROVE  Follows(adjustments'[n], adjustments'[n - 1])
      BY DEF NoThrash
    <3>2. run[r].seen = Len(a) /\ (run[r].seen > 0 => Follows(d, a[run[r].seen]))
      BY <1>3, <2>2 DEF RunFits
    <3>3. \A k \in 2 .. Len(a) : Follows(a[k], a[k - 1])
      BY <1>3 DEF NoThrash
    <3> HIDE DEF d, a
    <3>4. a \in Seq(Adjustments)
      BY <1>4 DEF a
    <3>5. CASE n = Len(a) + 1
      <4>1. Append(a, d)[n] = d /\ Append(a, d)[n - 1] = a[Len(a)] /\ Len(a) > 0
        BY <3>1, <3>4, <3>5
      <4> QED
        BY <3>1, <3>2, <4>1
    <3>6. CASE n # Len(a) + 1
      <4>1. n \in 2 .. Len(a)
        BY <3>1, <3>4, <3>6
      <4>2. Append(a, d)[n] = a[n] /\ Append(a, d)[n - 1] = a[n - 1]
        BY <3>1, <3>4, <4>1
      <4> QED
        BY <3>1, <3>3, <4>1, <4>2
    <3> QED
      BY <3>5, <3>6
  <2> QED
    BY <2>1, <2>2
<1> QED
  BY <1>9, <1>10

\* The steps of a run, by what they make of it.
LEMMA StepKeepsRow ==
    ASSUME TypeOK, RunsStarted, RowHeld, NoThrash, NEW r \in Runs,
           Step(r) \/ Crash(r) \/ \E t \in Triggers : Execute(r, t)
    PROVE  RowHeld' /\ NoThrash'
<1>a. /\ RunFits(run[r], score.version, adjustments, disturbed)
      /\ IF history = 0 THEN score.version \in {0, 1} ELSE score.version = history + 1
  BY DEF RowHeld
<1>b. "stop" \in Pcs /\ "done" \in Pcs /\ "latest" \in Pcs
  BY DEF Pcs
<1>c. ASSUME NEW x \in RunRows, Quiet(r, x), Keeps(r, x),
             x.pc \in {"evaluate", "latest", "decide", "adapt"} =>
               run[r].pc \in {"evaluate", "latest", "decide", "adapt"},
             x.pc \in {"decide", "adapt"} => run[r].pc \in {"decide", "adapt"}
      PROVE  RowHeld' /\ NoThrash'
  <2>1. RunFits(x, score.version, adjustments, disturbed')
    BY <1>a, <1>c DEF RunFits, Keeps, Quiet
  <2>2. x.locked => run[r].locked \/ ~RowLocked(r)
    BY <1>c DEF Keeps
  <2> QED
    BY <1>c, <2>1, <2>2, QuietKeepsRow
<1>d. ASSUME NEW pc \in Pcs, Quiet(r, Settled(r, pc)),
             pc \in {"stop", "done"} \/ "midway" \in disturbed'
      PROVE  RowHeld' /\ NoThrash'
  BY <1>d, SettledFits, QuietKeepsRow
<1>1. ASSUME NEW t \in Triggers, Execute(r, t) PROVE RowHeld' /\ NoThrash'
  BY <1>1, <1>c, ExecuteMoves
<1>2. CASE AcquireDb(r) \/ Begin(r) \/ Insert(r) \/ Stop(r) \/ Release(r)
  BY <1>2, <1>c, PlainMoves
<1>3. CASE Score(r)
  <2>1. PICK x \in RunRows :
             /\ Quiet(r, x) /\ x.trigger \in Triggers /\ x.locked = TRUE /\ ~RowLocked(r)
             /\ x.seen = run[r].seen /\ x.decision = run[r].decision
             /\ \/ x.pc = "evaluate" /\ x.wrote = "now" /\ x.base = score.version
                \/ x.pc = "stop" /\ x.wrote = run[r].wrote /\ x.base = run[r].base
             /\ score.version # 0
    BY <1>3, ScoreMoves
  <2>2. RunFits(x, score.version, adjustments, disturbed')
    BY <1>a, <2>1 DEF RunFits, Quiet
  <2> QED
    BY <2>1, <2>2, QuietKeepsRow
<1>4. CASE FirstScore(r)
  <2>1. PICK x \in RunRows :
             /\ Quiet(r, x) /\ x.trigger \in Triggers
             /\ x.seen = run[r].seen /\ x.decision = run[r].decision
             /\ \/ Keeps(r, x) /\ x.pc = "insert"
                \/ /\ x.pc = "evaluate" /\ x.wrote = "now" /\ x.base = 1
                   /\ x.locked = TRUE /\ ~RowLocked(r)
             /\ score.version = 0
    BY <1>4, FirstScoreMoves
  <2>2. CASE Keeps(r, x) /\ x.pc = "insert"
    BY <1>c, <2>1, <2>2
  <2>3. CASE /\ x.pc = "evaluate" /\ x.wrote = "now" /\ x.base = 1
             /\ x.locked = TRUE /\ ~RowLocked(r)
    <3>1. RunFits(x, score.version, adjustments, disturbed')
      BY <1>a, <2>1, <2>3 DEF RunFits, Quiet
    <3> QED
      BY <2>1, <2>3, <3>1, QuietKeepsRow
  <2> QED
    BY <2>1, <2>2, <2>3
<1>5. CASE Evaluate(r)
  <2>1. run[r].pc = "evaluate"
    BY <1>5 DEF Evaluate, At
  <2> QED
    BY <1>5, <1>b, <1>c, <1>d, <2>1, EvaluateMoves, CommitKeepsRow
<1>6. CASE Latest(r)
  <2>1. PICK x \in RunRows :
             /\ Quiet(r, x) /\ x.trigger \in Triggers /\ x.pc = "decide"
             /\ x.locked = run[r].locked /\ x.base = run[r].base /\ x.wrote = run[r].wrote
             /\ x.seen = Len(adjustments) /\ x.decision = run[r].decision
    BY <1>6, LatestMoves
  <2>2. run[r].pc = "latest"
    BY <1>6 DEF Latest, At
  <2>3. RunFits(x, score.version, adjustments, disturbed')
    BY <1>a, <2>1, <2>2 DEF RunFits, Quiet
  <2> QED
    BY <2>1, <2>3, QuietKeepsRow
<1>7. CASE Decide(r)
  <2>1. run[r].pc = "decide"
    BY <1>7 DEF Decide, At
  <2>2. ASSUME NEW x \in RunRows, Quiet(r, x), x.pc = "adapt",
               x.locked = run[r].locked, x.base = run[r].base, x.wrote = run[r].wrote,
               x.seen = run[r].seen,
               x.decision # None /\ run[r].seen > 0 =>
                 Follows(x.decision, adjustments[run[r].seen])
        PROVE  RowHeld' /\ NoThrash'
    <3>1. RunFits(x, score.version, adjustments, disturbed')
      BY <1>a, <2>1, <2>2 DEF RunFits, Quiet
    <3> QED
      BY <2>2, <3>1, QuietKeepsRow
  <2>3. CASE Quiet(r, Settled(r, "stop"))
    BY <1>b, <1>d, <2>3
  <2> QED
    BY <1>7, <2>2, <2>3, DecideMoves
<1>8. CASE Adapt(r)
  BY <1>8, <1>b, <1>c, <1>d, AdaptMoves, CommitKeepsRow
<1>9. CASE Finish(r)
  BY <1>9, <1>b, <1>d, FinishMoves, CommitKeepsRow
<1>10. CASE Crash(r)
  BY <1>10, <1>b, <1>d, CrashMoves
<1> QED
  BY <1>1, <1>2, <1>3, <1>4, <1>5, <1>6, <1>7, <1>8, <1>9, <1>10 DEF Step

\* When time passes, what is about to be committed is no longer recent.
LEMMA TickMoves ==
    ASSUME TypeOK, Tick
    PROVE  /\ run' \in [Runs -> RunRows]
           /\ \A r \in Runs : /\ run'[r].pc = run[r].pc /\ run'[r].trigger = run[r].trigger
                              /\ run'[r].locked = run[r].locked /\ run'[r].base = run[r].base
                              /\ (run'[r].wrote = "no" <=> run[r].wrote = "no")
                              /\ run'[r].seen = run[r].seen
                              /\ run'[r].decision = run[r].decision
<1>1. run' = [r \in Runs |-> IF WroteScore(r) THEN [run[r] EXCEPT !.wrote = "earlier"] ELSE run[r]]
  BY DEF Tick
<1>2. ASSUME NEW r \in Runs
      PROVE  LET x == [run[r] EXCEPT !.wrote = "earlier"] IN
             /\ x \in RunRows /\ run[r] \in RunRows
             /\ x.pc = run[r].pc /\ x.trigger = run[r].trigger
             /\ x.locked = run[r].locked /\ x.base = run[r].base /\ x.wrote = "earlier"
             /\ x.seen = run[r].seen /\ x.decision = run[r].decision
  BY Types DEF RunRows
<1> QED
  BY <1>1, <1>2 DEF WroteScore

LEMMA TickKeepsRow ==
    ASSUME TypeOK, RowHeld, NoThrash, Tick
    PROVE  RowHeld' /\ NoThrash'
<1>1. /\ score'.version = score.version /\ history' = history /\ adjustments' = adjustments
      /\ "midway" \in disturbed' => "midway" \in disturbed
      /\ "midway" \in disturbed => "midway" \in disturbed'
  BY Types DEF Tick
<1>2. ASSUME NEW r \in Runs PROVE RunFits(run'[r], score'.version, adjustments', disturbed')
  BY <1>1, TickMoves DEF RowHeld, RunFits
<1>3. RowHeld'
  BY <1>1, <1>2, TickMoves DEF RowHeld
<1>4. NoThrash'
  BY <1>1 DEF NoThrash
<1> QED
  BY <1>3, <1>4

LEMMA NextKeepsRow ==
    ASSUME TypeOK, RunsStarted, RowHeld, NoThrash, [Next]_vars
    PROVE  RowHeld' /\ NoThrash'
<1>1. ASSUME UNCHANGED <<run, score, history, adjustments>>,
             "midway" \in disturbed' <=> "midway" \in disturbed
      PROVE  RowHeld' /\ NoThrash'
  BY <1>1 DEF RowHeld, RunFits, NoThrash
<1>2. CASE \E r \in Runs : Heartbeat(r)
  BY <1>1, <1>2 DEF Heartbeat, BeatSet, BeatGet, BeatExpire, BeatDb
<1>3. CASE Flip
  BY <1>1, <1>3 DEF Flip
<1>4. CASE UNCHANGED vars
  BY <1>1, <1>4 DEF vars
<1> QED
  BY <1>2, <1>3, <1>4, StepKeepsRow, TickKeepsRow DEF Next

-----------------------------------------------------------------------------
(* Types.                                                                  *)

ScoreTyped ==
    /\ score \in [version : Nat, trigger : Triggers \cup {None}, recent : BOOLEAN]
    /\ history \in Nat /\ adjustments \in Seq(Adjustments)
    /\ disturbed \subseteq {"exposed", "midway"}

LEMMA CommittedType ==
    ASSUME TypeOK, NEW r \in Runs, Committed(r), disturbed' \subseteq {"exposed", "midway"}
    PROVE  ScoreTyped'
<1>1. /\ run[r] \in RunRows /\ history \in Nat /\ adjustments \in Seq(Adjustments)
      /\ score \in [version : Nat, trigger : Triggers \cup {None}, recent : BOOLEAN]
  BY Types
<1>2. /\ run[r].base \in Nat /\ Trig(r) \in Triggers \cup {None}
      /\ run[r].decision \in Adjustments \cup {None}
  BY <1>1 DEF RunRows, Trig
<1>3. adjustments' \in Seq(Adjustments)
  <2>1. CASE run[r].decision = None
    BY <1>1, <2>1 DEF Committed
  <2>2. CASE run[r].decision # None
    BY <1>1, <1>2, <2>2 DEF Committed
  <2> QED
    BY <2>1, <2>2
<1>4. history' \in Nat
  BY <1>1 DEF Committed
<1>5. score' \in [version : Nat, trigger : Triggers \cup {None}, recent : BOOLEAN]
  <2>1. CASE WroteScore(r)
    <3>1. score' = [version |-> run[r].base + 1, trigger |-> Trig(r),
                    recent |-> run[r].wrote = "now"]
      BY <2>1 DEF Committed
    <3>2. run[r].base + 1 \in Nat /\ (run[r].wrote = "now") \in BOOLEAN
      BY <1>2
    <3> QED
      BY <1>2, <3>1, <3>2, Zenon
  <2>2. CASE ~WroteScore(r)
    BY <1>1, <2>2 DEF Committed
  <2> QED
    BY <2>1, <2>2
<1> QED
  BY <1>3, <1>4, <1>5 DEF ScoreTyped

\* Where a run's step leaves it: of its trigger, and past the begin unless it
\* has just taken its lease.
LEMMA RunStep ==
    ASSUME TypeOK, RunsStarted, NEW r \in Runs,
           Step(r) \/ Crash(r) \/ \E t \in Triggers : Execute(r, t)
    PROVE  /\ run' \in [Runs -> RunRows] /\ ScoreTyped'
           /\ \A s \in Runs : s # r => run'[s] = run[s]
           /\ run'[r].trigger \in Triggers /\ run'[r].pc # "idle"
           /\ run'[r].pc \in {"acquire", "begin"} =>
                AcquireDb(r) \/ \E t \in Triggers : Execute(r, t)
<1> DEFINE Goal == /\ run' \in [Runs -> RunRows] /\ ScoreTyped'
                   /\ \A s \in Runs : s # r => run'[s] = run[s]
                   /\ run'[r].trigger \in Triggers /\ run'[r].pc # "idle"
                   /\ run'[r].pc \in {"acquire", "begin"} =>
                        AcquireDb(r) \/ \E t \in Triggers : Execute(r, t)
<1> SUFFICES Goal
  OBVIOUS
<1>a. ASSUME NEW x \in RunRows, Quiet(r, x), x.trigger \in Triggers, x.pc # "idle",
             x.pc \in {"acquire", "begin"} =>
                AcquireDb(r) \/ \E t \in Triggers : Execute(r, t)
      PROVE  Goal
  <2>1. ScoreTyped'
    BY <1>a, Types DEF ScoreTyped, Quiet
  <2>2. /\ run' \in [Runs -> RunRows] /\ run'[r] = x
        /\ \A s \in Runs : s # r => run'[s] = run[s]
    BY <1>a, RunMoves DEF Quiet
  <2> QED
    BY <1>a, <2>1, <2>2
<1>b. "stop" \in Pcs /\ "done" \in Pcs /\ "latest" \in Pcs
  BY DEF Pcs
<1>c. ASSUME NEW pc \in {"stop", "done", "latest"}, run[r].pc # "idle"
      PROVE  /\ Settled(r, pc) \in RunRows /\ Settled(r, pc).trigger \in Triggers
             /\ Settled(r, pc).pc = pc
  <2>1. run[r] \in RunRows /\ pc \in Pcs
    BY <1>b, Types
  <2>2. Trig(r) \in Triggers
    BY <1>c DEF RunsStarted, Trig
  <2> QED
    BY <2>1, <2>2, SettledType
<1>d. ASSUME NEW pc \in {"stop", "done", "latest"}, run[r].pc # "idle",
             Quiet(r, Settled(r, pc))
      PROVE  Goal
  BY <1>a, <1>c, <1>d
<1>e. ASSUME NEW pc \in {"stop", "done", "latest"}, run[r].pc # "idle",
             run' = [run EXCEPT ![r] = Settled(r, pc)], Committed(r),
             disturbed' \subseteq {"exposed", "midway"}
      PROVE  Goal
  <2>1. ScoreTyped'
    BY <1>e, CommittedType
  <2>2. /\ run' \in [Runs -> RunRows] /\ run'[r] = Settled(r, pc)
        /\ \A s \in Runs : s # r => run'[s] = run[s]
    BY <1>c, <1>e, RunMoves
  <2> QED
    BY <1>c, <1>e, <2>1, <2>2
<1> HIDE DEF Goal
<1>1. ASSUME NEW t \in Triggers, Execute(r, t) PROVE Goal
  BY <1>1, <1>a, ExecuteMoves DEF Keeps
<1>2. CASE AcquireDb(r) \/ Begin(r) \/ Insert(r) \/ Stop(r) \/ Release(r)
  BY <1>2, <1>a, PlainMoves DEF Keeps
<1>3. CASE Score(r)
  BY <1>3, <1>a, ScoreMoves
<1>4. CASE FirstScore(r)
  BY <1>4, <1>a, FirstScoreMoves DEF Keeps
<1>5. CASE Evaluate(r)
  <2>1. run[r].pc # "idle" /\ disturbed \subseteq {"exposed", "midway"}
    BY <1>5, Types DEF Evaluate, At
  <2> QED
    BY <1>5, <1>a, <1>d, <1>e, <2>1, EvaluateMoves DEF Keeps
<1>6. CASE Latest(r)
  BY <1>6, <1>a, LatestMoves
<1>7. CASE Decide(r)
  <2>1. run[r].pc # "idle"
    BY <1>7 DEF Decide, At
  <2> QED
    BY <1>7, <1>a, <1>d, <2>1, DecideMoves
<1>8. CASE Adapt(r)
  <2>1. run[r].pc # "idle" /\ disturbed \subseteq {"exposed", "midway"}
    BY <1>8, Types DEF Adapt, At
  <2> QED
    BY <1>8, <1>a, <1>d, <1>e, <2>1, AdaptMoves DEF Keeps
<1>9. CASE Finish(r)
  <2>1. run[r].pc # "idle" /\ disturbed \subseteq {"exposed", "midway"}
    BY <1>9, Types DEF Finish, At
  <2> QED
    BY <1>9, <1>d, <1>e, <2>1, FinishMoves
<1>10. CASE Crash(r)
  BY <1>10, <1>d, CrashMoves
<1> QED
  BY <1>1, <1>2, <1>3, <1>4, <1>5, <1>6, <1>7, <1>8, <1>9, <1>10 DEF Step

\* What else a run's step changes: the leases, its heartbeat, the counters.
LEMMA RunStepRest ==
    ASSUME TypeOK, RunsStarted, NEW r \in Runs,
           Step(r) \/ Crash(r) \/ \E t \in Triggers : Execute(r, t)
    PROVE  /\ redis' \in [Triggers -> Leases] /\ rows' \in [Triggers -> Leases]
           /\ up' = up /\ flips' = flips /\ crashes' \in 0 .. MaxCrashes
           /\ beat' \in [Runs -> BeatRows]
           /\ \A s \in Runs : s # r => beat'[s] = beat[s]
           /\ AcquireDb(r) \/ (\E t \in Triggers : Execute(r, t)) => beat' = beat
<1>a. /\ redis \in [Triggers -> Leases] /\ rows \in [Triggers -> Leases]
      /\ beat \in [Runs -> BeatRows] /\ crashes \in 0 .. MaxCrashes
      /\ Free \in Leases /\ \A open \in BOOLEAN : Lease(r, open) \in Leases
      /\ RowsCommitted(r) \in [Triggers -> Leases] /\ RowsUndone(r) \in [Triggers -> Leases]
  BY Types, LeaseTypes, RowsMove
<1>1. ASSUME NEW t \in Triggers, Execute(r, t)
      PROVE  /\ redis' \in [Triggers -> Leases] /\ rows' \in [Triggers -> Leases]
             /\ up' = up /\ flips' = flips /\ crashes' = crashes /\ beat' = beat
  <2>1. redis' = redis \/ redis' = [redis EXCEPT ![t] = Lease(r, FALSE)]
    BY <1>1 DEF Execute
  <2>2. Lease(r, FALSE) \in Leases
    BY <1>a
  <2>3. redis' \in [Triggers -> Leases]
    BY <1>a, <2>1, <2>2
  <2> QED
    BY <1>1, <1>a, <2>3 DEF Execute
<1>2. CASE AcquireDb(r)
  BY <1>2, <1>a DEF AcquireDb
<1>3. CASE Begin(r) \/ Stop(r)
  <2>1. PICK b \in BeatRows : beat' = [beat EXCEPT ![r] = b]
    BY <1>3, <1>a, BeatTypes DEF Begin, Stop
  <2>2. ~AcquireDb(r) /\ ~\E t \in Triggers : Execute(r, t)
    BY <1>3 DEF Begin, Stop, AcquireDb, Execute, At
  <2>3. /\ redis' = redis /\ rows' = rows /\ up' = up /\ flips' = flips /\ crashes' = crashes
    BY <1>3 DEF Begin, Stop
  <2> QED
    BY <1>a, <2>1, <2>2, <2>3, BeatMoves
<1>4. CASE Score(r) \/ FirstScore(r) \/ Insert(r) \/ Latest(r)
  BY <1>4, <1>a DEF Score, FirstScore, Insert, Latest
<1>5. CASE Evaluate(r)
  BY <1>5, <1>a DEF Evaluate
<1>6. CASE Decide(r) \/ Adapt(r)
  BY <1>6, <1>a DEF Decide, Adapt, RolledBack
<1>7. CASE Release(r)
  BY <1>7, <1>a DEF Release
<1>8. CASE Finish(r)
  BY <1>8, <1>a DEF Finish
<1>9. CASE Crash(r)
  <2>1. /\ redis' = redis /\ rows' = RowsUndone(r) /\ up' = up /\ flips' = flips
        /\ crashes' = crashes + 1 /\ crashes < MaxCrashes
        /\ beat' = [beat EXCEPT ![r] = NoBeat]
    BY <1>9 DEF Crash
  <2>2. ~AcquireDb(r) /\ ~\E t \in Triggers : Execute(r, t)
    <3>1. AcquireDb(r) \/ (\E t \in Triggers : Execute(r, t)) => crashes' = crashes
      BY DEF AcquireDb, Execute
    <3> QED
      BY <1>a, <2>1, <3>1
  <2>3. crashes' \in 0 .. MaxCrashes
    BY <1>a, <2>1, LoopAssumption
  <2> QED
    BY <1>a, <2>1, <2>2, <2>3, BeatTypes, BeatMoves
<1> QED
  BY <1>1, <1>2, <1>3, <1>4, <1>5, <1>6, <1>7, <1>8, <1>9, <1>a DEF Step

LEMMA HeartbeatMoves ==
    ASSUME TypeOK, NEW r \in Runs, Heartbeat(r), run[r].pc # "idle" => Trig(r) \in Triggers
    PROVE  /\ redis' \in [Triggers -> Leases] /\ rows' \in [Triggers -> Leases]
           /\ beat[r] # NoBeat
           /\ \E b \in BeatRows : beat' = [beat EXCEPT ![r] = b]
           /\ UNCHANGED <<up, run, score, history, adjustments, disturbed, flips, crashes>>
<1>a. /\ redis \in [Triggers -> Leases] /\ rows \in [Triggers -> Leases]
      /\ beat \in [Runs -> BeatRows] /\ Lease(r, FALSE) \in Leases
  BY Types, LeaseTypes
<1>b. \A l \in Leases : Extended(l) \in Leases
  BY ExtendedType
<1>1. UNCHANGED <<up, run, score, history, adjustments, disturbed, flips, crashes>>
  BY DEF Heartbeat, BeatSet, BeatGet, BeatExpire, BeatDb
<1>2. beat[r] # NoBeat
  <2>1. beat[r].pc \in {"wait", "get", "expire", "db"}
    BY DEF Heartbeat, BeatSet, BeatGet, BeatExpire, BeatDb, Beats
  <2> QED
    BY <2>1 DEF NoBeat
<1>3. redis' \in [Triggers -> Leases]
  <2>1. \/ redis' = redis
        \/ redis' = [redis EXCEPT ![Trig(r)] = Lease(r, FALSE)]
        \/ redis' = [redis EXCEPT ![Trig(r)] = Extended(redis[Trig(r)])]
    BY DEF Heartbeat, BeatSet, BeatGet, BeatExpire, BeatDb
  <2> QED
    BY <1>a, <1>b, <2>1
<1>4. rows' \in [Triggers -> Leases]
  <2>1. rows' = rows \/ rows' = [rows EXCEPT ![Trig(r)] = Lease(r, FALSE)]
    BY DEF Heartbeat, BeatSet, BeatGet, BeatExpire, BeatDb
  <2> QED
    BY <1>a, <2>1
<1>5. \E b \in BeatRows : beat' = [beat EXCEPT ![r] = b]
  <2>1. \/ beat' = [beat EXCEPT ![r] = Waiting] \/ beat' = [beat EXCEPT ![r] = NoBeat]
        \/ \E pc \in {"get", "expire", "db"} : beat' = [beat EXCEPT ![r].pc = pc]
    BY DEF Heartbeat, BeatSet, BeatGet, BeatExpire, BeatDb, Again, Call
  <2>2. ASSUME NEW pc \in {"get", "expire", "db"}, beat' = [beat EXCEPT ![r].pc = pc]
        PROVE  \E b \in BeatRows : beat' = [beat EXCEPT ![r] = b]
    <3>1. beat' = [beat EXCEPT ![r] = [beat[r] EXCEPT !.pc = pc]]
      BY <1>a, <2>2
    <3>2. [beat[r] EXCEPT !.pc = pc] \in BeatRows
      BY <1>a, BeatTypes
    <3> QED
      BY <3>1, <3>2
  <2> QED
    BY <2>1, <2>2, BeatTypes
<1> QED
  BY <1>1, <1>2, <1>3, <1>4, <1>5

LEMMA TickTypes ==
    ASSUME TypeOK, Tick
    PROVE  /\ redis' = [t \in Triggers |-> Aged(redis[t])]
           /\ rows' = [t \in Triggers |-> Aged(rows[t])]
           /\ redis' \in [Triggers -> Leases] /\ rows' \in [Triggers -> Leases]
           /\ beat' \in [Runs -> BeatRows] /\ ScoreTyped'
           /\ \A r \in Runs : beat'[r] # Waiting /\ beat'[r].pc = beat[r].pc
           /\ \A r \in Runs : beat[r] = NoBeat => beat'[r] = NoBeat
           /\ UNCHANGED <<up, flips, crashes>>
<1>a. /\ redis \in [Triggers -> Leases] /\ rows \in [Triggers -> Leases]
      /\ beat \in [Runs -> BeatRows] /\ disturbed \subseteq {"exposed", "midway"}
      /\ score \in [version : Nat, trigger : Triggers \cup {None}, recent : BOOLEAN]
      /\ history \in Nat /\ adjustments \in Seq(Adjustments)
  BY Types
<1>1. /\ redis' = [t \in Triggers |-> Aged(redis[t])]
      /\ rows' = [t \in Triggers |-> Aged(rows[t])]
      /\ beat' = [r \in Runs |-> [beat[r] EXCEPT !.left = 0]]
      /\ score' = [score EXCEPT !.recent = FALSE]
      /\ disturbed' \subseteq disturbed \cup {"exposed"}
      /\ UNCHANGED <<up, history, adjustments, flips, crashes>>
  BY DEF Tick
<1>2. redis' \in [Triggers -> Leases] /\ rows' \in [Triggers -> Leases]
  BY <1>a, <1>1, AgedType
<1>3. ASSUME NEW r \in Runs
      PROVE  /\ beat'[r] \in BeatRows /\ beat'[r] # Waiting /\ beat'[r].pc = beat[r].pc
             /\ beat[r] = NoBeat => beat'[r] = NoBeat
  <2>1. beat'[r] = [beat[r] EXCEPT !.left = 0] /\ beat[r] \in BeatRows
    BY <1>a, <1>1
  <2> QED
    BY <2>1, BeatTypes DEF BeatRows, NoBeat
<1>4. beat' \in [Runs -> BeatRows]
  BY <1>1, <1>3
<1>5. score' \in [version : Nat, trigger : Triggers \cup {None}, recent : BOOLEAN]
  BY <1>a, <1>1, Zenon
<1>6. ScoreTyped'
  BY <1>a, <1>1, <1>5 DEF ScoreTyped
<1> QED
  BY <1>1, <1>2, <1>3, <1>4, <1>6

LEMMA NextType ==
    ASSUME TypeOK, RunsStarted, [Next]_vars
    PROVE  TypeOK' /\ RunsStarted'
<1>a. /\ run \in [Runs -> RunRows] /\ flips \in 0 .. MaxFlips /\ crashes \in 0 .. MaxCrashes
      /\ up \in BOOLEAN /\ ScoreTyped
      /\ redis \in [Triggers -> Leases] /\ rows \in [Triggers -> Leases]
      /\ beat \in [Runs -> BeatRows]
  BY Types DEF ScoreTyped
<1>1. ASSUME NEW r \in Runs,
             Step(r) \/ Crash(r) \/ \E t \in Triggers : Execute(r, t)
      PROVE  TypeOK' /\ RunsStarted'
  <2>1. TypeOK'
    <3>1. run' \in [Runs -> RunRows] /\ ScoreTyped'
      BY <1>1, RunStep
    <3>2. /\ redis' \in [Triggers -> Leases] /\ rows' \in [Triggers -> Leases]
          /\ up' = up /\ flips' = flips /\ crashes' \in 0 .. MaxCrashes
          /\ beat' \in [Runs -> BeatRows]
      BY <1>1, RunStepRest
    <3> QED
      BY <1>a, <3>1, <3>2 DEF ScoreTyped, TypeOK, RunRows, BeatRows, Pcs
  <2>2. ASSUME NEW s \in Runs, s # r
        PROVE  /\ run'[s].pc # "idle" => run'[s].trigger \in Triggers
               /\ run'[s].pc \in {"idle", "acquire", "begin"} => beat'[s] = NoBeat
    <3>1. run'[s] = run[s]
      BY <1>1, <2>2, RunStep
    <3>2. beat'[s] = beat[s]
      BY <1>1, <2>2, RunStepRest
    <3> QED
      BY <3>1, <3>2 DEF RunsStarted
  <2>3. run'[r].trigger \in Triggers /\ run'[r].pc # "idle"
    BY <1>1, RunStep
  <2>4. ASSUME run'[r].pc \in {"acquire", "begin"} PROVE beat'[r] = NoBeat
    <3>1. AcquireDb(r) \/ \E t \in Triggers : Execute(r, t)
      BY <1>1, <2>4, RunStep
    <3>2. run[r].pc \in {"idle", "acquire"}
      BY <3>1 DEF AcquireDb, Execute, At
    <3>3. beat' = beat
      BY <1>1, <3>1, RunStepRest
    <3> QED
      BY <3>2, <3>3 DEF RunsStarted
  <2> QED
    BY <2>1, <2>2, <2>3, <2>4 DEF RunsStarted
<1>2. ASSUME NEW r \in Runs, Heartbeat(r)
      PROVE  TypeOK' /\ RunsStarted'
  <2>1. run[r].pc # "idle" => Trig(r) \in Triggers
    BY DEF RunsStarted, Trig
  <2>2. PICK b \in BeatRows : beat' = [beat EXCEPT ![r] = b]
    BY <1>2, <2>1, HeartbeatMoves
  <2>3. /\ beat' \in [Runs -> BeatRows] /\ \A s \in Runs : s # r => beat'[s] = beat[s]
    BY <2>2, BeatMoves
  <2>4. /\ redis' \in [Triggers -> Leases] /\ rows' \in [Triggers -> Leases]
        /\ beat[r] # NoBeat
        /\ UNCHANGED <<up, run, score, history, adjustments, disturbed, flips, crashes>>
    BY <1>2, <2>1, HeartbeatMoves
  <2>5. TypeOK'
    BY <1>a, <2>3, <2>4 DEF ScoreTyped, TypeOK, RunRows, BeatRows, Pcs
  <2>6. RunsStarted'
    BY <2>3, <2>4 DEF RunsStarted
  <2> QED
    BY <2>5, <2>6
<1>3. CASE Tick
  <2>1. TypeOK'
    BY <1>3, <1>a, TickMoves, TickTypes DEF ScoreTyped, TypeOK, RunRows, BeatRows, Pcs
  <2>2. RunsStarted'
    BY <1>3, TickMoves, TickTypes DEF RunsStarted
  <2> QED
    BY <2>1, <2>2
<1>4. CASE Flip
  <2>1. /\ UNCHANGED <<rows, run, beat, score, history, adjustments, crashes>>
        /\ up' \in BOOLEAN /\ disturbed' \subseteq disturbed \cup {"exposed"}
    BY <1>4, <1>a DEF Flip
  <2>2. flips' \in 0 .. MaxFlips
    BY <1>4, <1>a, LoopAssumption DEF Flip
  <2>3. redis' \in [Triggers -> Leases]
    BY <1>4, <1>a, LeaseTypes DEF Flip
  <2>4. disturbed' \subseteq {"exposed", "midway"}
    BY <1>a, <2>1 DEF ScoreTyped
  <2>5. TypeOK'
    BY <1>a, <2>1, <2>2, <2>3, <2>4 DEF ScoreTyped, TypeOK, RunRows, BeatRows, Pcs
  <2>6. RunsStarted'
    BY <2>1 DEF RunsStarted
  <2> QED
    BY <2>5, <2>6
<1>5. CASE UNCHANGED vars
  BY <1>5 DEF vars, TypeOK, RunsStarted
<1> QED
  BY <1>1, <1>2, <1>3, <1>4, <1>5 DEF Next

LEMMA InitHolds == Init => IInv
<1> SUFFICES ASSUME Init PROVE IInv
  OBVIOUS
<1>1. /\ \A r \in Runs : run[r] = Idle
      /\ run \in [Runs -> RunRows] /\ beat \in [Runs -> BeatRows]
      /\ redis \in [Triggers -> Leases] /\ rows \in [Triggers -> Leases]
  BY IdleType, BeatTypes, LeaseTypes DEF Init
<1>2. /\ score \in [version : Nat, trigger : Triggers \cup {None}, recent : BOOLEAN]
      /\ score.version \in {0, 1}
  <2>1. score \in [version : {0, 1}, trigger : {None}, recent : {FALSE}]
    BY DEF Init
  <2>2. {0, 1} \subseteq Nat
    OBVIOUS
  <2> QED
    BY <2>1, <2>2, Zenon
<1>3. /\ history = 0 /\ adjustments = <<>> /\ disturbed = {} /\ up \in BOOLEAN
      /\ flips = 0 /\ crashes = 0 /\ \A r \in Runs : beat[r] = NoBeat
  BY DEF Init
<1>4. TypeOK
  BY <1>1, <1>2, <1>3, LoopAssumption DEF TypeOK, RunRows, BeatRows, Pcs
<1>5. RunsStarted
  BY <1>1, <1>3, IdleType DEF RunsStarted
<1>6. RowHeld
  BY <1>1, <1>2, <1>3, IdleType DEF RowHeld, RunFits
<1>7. NoThrash
  BY <1>3 DEF NoThrash
<1> QED
  BY <1>4, <1>5, <1>6, <1>7 DEF IInv

\* What the user's row protects holds throughout.
THEOREM Inductive == Spec => []IInv
<1>1. IInv /\ [Next]_vars => IInv'
  BY NextType, NextKeepsRow DEF IInv
<1> QED
  BY <1>1, InitHolds, PTL DEF Spec

\* Rows, leases, heartbeats and runs keep the types the code gives them.
THEOREM TypeCorrect == Spec => []TypeOK
<1>1. IInv => TypeOK
  BY DEF IInv
<1> QED
  BY <1>1, Inductive, PTL

\* infinity_service: each version of the score is computed from the one before,
\* and each has its row of the history, however many runs overlap.
THEOREM ScoresCount == Spec => []NoLostScore
<1>1. IInv => NoLostScore
  BY DEF IInv, RowHeld, NoLostScore
<1> QED
  BY <1>1, Inductive, PTL

\* infinity_loop.run_loop: a row repeats the type of the row before it only as a
\* create_new_task that the want of an open task made of another decision after
\* the guard, unless a run gave up the user's row before it decided.
THEOREM DecisionsChange == Spec => []NoThrash
<1>1. IInv => NoThrash
  BY DEF IInv
<1> QED
  BY <1>1, Inductive, PTL

-----------------------------------------------------------------------------
(* The lease.                                                              *)

\* A step leaves the other runs' leases theirs, and no shorter.
LEMMA OthersLeases ==
    ASSUME TypeOK, RunsStarted, NEW r \in Runs, NEW s \in Runs, s # r, NEW t \in Triggers,
           \/ Step(r) \/ Crash(r) \/ \E u \in Triggers : Execute(r, u)
           \/ Heartbeat(r)
    PROVE  /\ redis[t].owner = s => redis'[t].owner = s /\ redis'[t].left >= redis[t].left
           /\ rows[t].owner = s => rows'[t] = rows[t]
<1>a. /\ redis \in [Triggers -> Leases] /\ rows \in [Triggers -> Leases]
      /\ redis[t] \in Leases /\ rows[t] \in Leases
      /\ redis[t].left \in 0 .. TTL /\ TTL \in Nat
  BY Types, LoopAssumption DEF Leases
<1>b. Free.owner # s
  BY LoopAssumption DEF Free
<1>c. run[r].pc # "idle" => Trig(r) \in Triggers
  BY DEF RunsStarted, Trig
<1>1. ASSUME NEW u \in Triggers, Execute(r, u) PROVE UNCHANGED rows
  BY <1>1 DEF Execute
<1>2. ASSUME NEW u \in Triggers, Execute(r, u), redis[t].owner = s PROVE redis'[t] = redis[t]
  <2>1. \/ redis' = redis
        \/ redis[u] = Free /\ redis' = [redis EXCEPT ![u] = Lease(r, FALSE)]
    BY <1>2 DEF Execute
  <2> QED
    BY <1>a, <1>b, <1>2, <2>1
<1>3. CASE AcquireDb(r)
  <2>1. /\ redis' = redis
        /\ \/ rows' = rows
           \/ ~DbTaken(r, Trig(r)) /\ \E l \in Leases : rows' = [rows EXCEPT ![Trig(r)] = l]
    BY <1>3, LeaseTypes DEF AcquireDb
  <2>2. rows[t].owner = s /\ t = Trig(r) => DbTaken(r, Trig(r))
    BY <1>b DEF DbTaken
  <2> QED
    BY <1>a, <2>1, <2>2
<1>4. CASE Begin(r) \/ Score(r) \/ FirstScore(r) \/ Insert(r) \/ Latest(r) \/ Stop(r)
  BY <1>4, <1>a DEF Begin, Score, FirstScore, Insert, Latest, Stop
<1>5. rows[t].owner = s => RowsUndone(r)[t] = rows[t] /\ RowsCommitted(r)[t] = rows[t]
  BY DEF RowsUndone, RowsCommitted, Mine
<1>6. CASE Evaluate(r) \/ Decide(r) \/ Adapt(r) \/ Crash(r)
  <2>1. /\ redis' = redis
        /\ rows' = rows \/ rows' = RowsUndone(r) \/ rows' = RowsCommitted(r)
    BY <1>6 DEF Evaluate, Decide, Adapt, Crash, RolledBack
  <2> QED
    BY <1>a, <1>5, <2>1
<1>7. CASE Release(r)
  <2>1. /\ rows' = rows
        /\ redis' = [redis EXCEPT ![Trig(r)] = IF up /\ Mine(r, redis[Trig(r)]) THEN Free
                                              ELSE redis[Trig(r)]]
    BY <1>7 DEF Release
  <2> QED
    BY <1>a, <2>1 DEF Mine
<1>8. CASE Finish(r)
  <2>1. /\ redis' = redis
        /\ \/ rows' = [rows EXCEPT ![Trig(r)] = IF Mine(r, rows[Trig(r)]) THEN Free
                                               ELSE rows[Trig(r)]]
           \/ rows' = RowsUndone(r)
    BY <1>8 DEF Finish
  <2> QED
    BY <1>a, <1>5, <2>1 DEF Mine
<1>9. CASE Heartbeat(r)
  <2>1. /\ \/ redis' = redis
           \/ redis[Trig(r)] = Free /\ redis' = [redis EXCEPT ![Trig(r)] = Lease(r, FALSE)]
           \/ redis' = [redis EXCEPT ![Trig(r)] = Extended(redis[Trig(r)])]
    BY <1>9 DEF Heartbeat, BeatSet, BeatGet, BeatExpire, BeatDb
  <2>2. \/ rows' = rows
        \/ ~DbTaken(r, Trig(r)) /\ rows' = [rows EXCEPT ![Trig(r)] = Lease(r, FALSE)]
    <3>1. CASE BeatSet(r) \/ BeatGet(r) \/ BeatExpire(r)
      BY <3>1 DEF BeatSet, BeatGet, BeatExpire
    <3>2. CASE BeatDb(r)
      BY <3>2 DEF BeatDb
    <3> QED
      BY <1>9, <3>1, <3>2 DEF Heartbeat
  <2>3. rows[t].owner = s /\ t = Trig(r) => DbTaken(r, Trig(r))
    BY <1>b DEF DbTaken
  <2>4. rows[t].owner = s => rows'[t] = rows[t]
    BY <1>a, <2>2, <2>3
  <2>5. redis[t].owner = s => Extended(redis[t]).owner = s /\ Extended(redis[t]).left >= redis[t].left
    BY <1>a, <1>b, ExtendedType
  <2>6. redis[t].owner = s => redis'[t].owner = s /\ redis'[t].left >= redis[t].left
    <3>1. CASE t = Trig(r)
      <4>1. redis'[t] = redis[t] \/ redis[t] = Free \/ redis'[t] = Extended(redis[t])
        BY <1>a, <2>1, <3>1
      <4> QED
        BY <1>a, <1>b, <2>5, <4>1
    <3>2. CASE t # Trig(r)
      <4>1. redis'[t] = redis[t]
        BY <1>a, <2>1, <3>2
      <4> QED
        BY <1>a, <4>1
    <3> QED
      BY <3>1, <3>2
  <2> QED
    BY <2>4, <2>6
<1> QED
  BY <1>a, <1>1, <1>2, <1>3, <1>4, <1>6, <1>7, <1>8, <1>9 DEF Step

\* No lease that was exposed is ever taken for one that was not.
LEMMA ExposedStays ==
    ASSUME [Next]_vars PROVE "exposed" \in disturbed => "exposed" \in disturbed'
<1>1. ASSUME NEW r \in Runs, NEW t \in Triggers, Execute(r, t)
      PROVE  "exposed" \in disturbed => "exposed" \in disturbed'
  BY <1>1 DEF Execute
<1>2. ASSUME NEW r \in Runs, AcquireDb(r) \/ Begin(r) \/ Score(r) \/ FirstScore(r)
      PROVE  "exposed" \in disturbed => "exposed" \in disturbed'
  BY <1>2 DEF AcquireDb, Begin, Score, FirstScore, RolledBack
<1>3. ASSUME NEW r \in Runs, Insert(r) \/ Evaluate(r) \/ Latest(r) \/ Decide(r)
      PROVE  "exposed" \in disturbed => "exposed" \in disturbed'
  BY <1>3 DEF Insert, Evaluate, Latest, Decide, RolledBack
<1>4. ASSUME NEW r \in Runs, Adapt(r) \/ Stop(r) \/ Release(r) \/ Finish(r)
      PROVE  "exposed" \in disturbed => "exposed" \in disturbed'
  BY <1>4 DEF Adapt, RolledBack, Stop, Release, Finish
<1>5. ASSUME NEW r \in Runs, Heartbeat(r)
      PROVE  "exposed" \in disturbed => "exposed" \in disturbed'
  BY <1>5 DEF Heartbeat, BeatSet, BeatGet, BeatExpire, BeatDb
<1>6. ASSUME NEW r \in Runs, Crash(r) PROVE "exposed" \in disturbed => "exposed" \in disturbed'
  BY <1>6 DEF Crash
<1>7. CASE Tick \/ Flip \/ UNCHANGED vars
  BY <1>7 DEF Tick, Flip, vars
<1> QED
  BY <1>1, <1>2, <1>3, <1>4, <1>5, <1>6, <1>7 DEF Next, Step

\* The other runs stay on their guard.
LEMMA OthersOnGuard ==
    ASSUME TypeOK, RunsStarted, NEW r \in Runs, NEW s \in Runs, s # r, OnGuard(s),
           \/ Step(r) \/ Crash(r) \/ \E u \in Triggers : Execute(r, u)
           \/ Heartbeat(r)
    PROVE  OnGuard(s)'
<1>1. run'[s] = run[s] /\ beat'[s] = beat[s] /\ up' = up
  <2>1. CASE Heartbeat(r)
    <3>1. run[r].pc # "idle" => Trig(r) \in Triggers
      BY DEF RunsStarted, Trig
    <3>2. /\ run' = run /\ up' = up
          /\ \E b \in BeatRows : beat' = [beat EXCEPT ![r] = b]
      BY <2>1, <3>1, HeartbeatMoves
    <3> QED
      BY <3>2, BeatMoves
  <2> QED
    BY <2>1, RunStep, RunStepRest
<1>2. CASE ~Working(s)
  BY <1>1, <1>2 DEF OnGuard, Working, At
<1>3. CASE Working(s)
  <2>1. Trig(s) \in Triggers
    BY <1>3 DEF RunsStarted, Trig, Working
  <2>2. LeaseOf(s).owner = s
    BY <1>3 DEF OnGuard
  <2>3. LeaseOf(s)'.owner = s /\ LeaseOf(s)'.left >= LeaseOf(s).left
    <3>1. rows[Trig(s)].left \in 0 .. TTL /\ TTL \in Nat
      BY <2>1, Types, LoopAssumption DEF Leases
    <3>2. Trig(s)' = Trig(s)
      BY <1>1 DEF Trig
    <3>3. CASE up
      <4>1. redis[Trig(s)].owner = s /\ LeaseOf(s) = redis[Trig(s)]
        BY <2>2, <3>3 DEF LeaseOf
      <4>2. LeaseOf(s)' = redis'[Trig(s)]
        BY <1>1, <3>2, <3>3 DEF LeaseOf
      <4> QED
        BY <2>1, <4>1, <4>2, OthersLeases
    <3>4. CASE ~up
      <4>1. rows[Trig(s)].owner = s /\ LeaseOf(s) = rows[Trig(s)]
        BY <2>2, <3>4 DEF LeaseOf
      <4>2. LeaseOf(s)' = rows'[Trig(s)]
        BY <1>1, <3>2, <3>4 DEF LeaseOf
      <4>3. rows'[Trig(s)] = rows[Trig(s)]
        BY <2>1, <4>1, OthersLeases
      <4> QED
        BY <3>1, <4>1, <4>2, <4>3
    <3> QED
      BY <3>3, <3>4
  <2>4. LeaseOf(s)'.left \in 0 .. TTL /\ LeaseOf(s).left \in 0 .. TTL /\ TTL \in Nat
    <3>1. /\ redis \in [Triggers -> Leases] /\ rows \in [Triggers -> Leases]
          /\ redis' \in [Triggers -> Leases] /\ rows' \in [Triggers -> Leases]
      <4>1. CASE Heartbeat(r)
        <5>1. run[r].pc # "idle" => Trig(r) \in Triggers
          BY DEF RunsStarted, Trig
        <5> QED
          BY <4>1, <5>1, Types, HeartbeatMoves
      <4> QED
        BY <4>1, Types, RunStepRest
    <3>2. Trig(s)' = Trig(s)
      BY <1>1 DEF Trig
    <3> QED
      BY <2>1, <3>1, <3>2, LoopAssumption DEF LeaseOf, Leases
  <2> QED
    BY <1>1, <1>3, <2>3, <2>4 DEF OnGuard, Working, At
<1> QED
  BY <1>2, <1>3

\* A run that goes on working under the lease it has stays on its guard.
LEMMA WorksOn ==
    ASSUME TypeOK, NEW r \in Runs, OnGuard(r), Working(r), ~At(r, "begin"),
           ~At(r, "begin")', ~At(r, "acquire")', Trig(r)' = Trig(r), Trig(r) \in Triggers,
           up' = up, beat'[r] = beat[r],
           up => redis' = redis,
           ~up => /\ rows'[Trig(r)].owner = rows[Trig(r)].owner
                  /\ rows'[Trig(r)].left = rows[Trig(r)].left
    PROVE  OnGuard(r)'
<1>1. LeaseOf(r)'.owner = LeaseOf(r).owner /\ LeaseOf(r)'.left = LeaseOf(r).left
  <2>1. CASE up
    BY <2>1 DEF LeaseOf
  <2>2. CASE ~up
    BY <2>2 DEF LeaseOf
  <2> QED
    BY <2>1, <2>2
<1> QED
  BY <1>1 DEF OnGuard

\* A run whose work is over has nothing to guard.
LEMMA WorkOver ==
    ASSUME NEW r \in Runs, ~Working(r)', ~At(r, "acquire")' PROVE OnGuard(r)'
BY DEF OnGuard

LEMMA ExecuteOnGuard ==
    ASSUME TypeOK, RunsStarted, NEW r \in Runs, NEW t \in Triggers, Execute(r, t)
    PROVE  OnGuard(r)'
<1>a. /\ redis \in [Triggers -> Leases] /\ run \in [Runs -> RunRows] /\ TTL \in Nat
      /\ run[r] \in RunRows
  BY Types, LoopAssumption
<1>b. beat[r] = NoBeat /\ beat' = beat /\ up' = up /\ NoBeat.pc = "off"
  BY DEF Execute, At, RunsStarted, NoBeat
<1>1. CASE up /\ redis[t] = Free
  <2>1. /\ redis' = [redis EXCEPT ![t] = Lease(r, FALSE)]
        /\ run' = [run EXCEPT ![r].pc = "begin", ![r].trigger = t]
    BY <1>1 DEF Execute
  <2>2. run'[r].pc = "begin" /\ run'[r].trigger = t
    BY <1>a, <2>1 DEF RunRows
  <2>3. LeaseOf(r)' = Lease(r, FALSE)
    BY <1>1, <1>a, <1>b, <2>1, <2>2 DEF LeaseOf, Trig
  <2>4. LeaseOf(r)'.owner = r /\ LeaseOf(r)'.left = TTL
    BY <2>3, LeaseTypes
  <2> QED
    BY <1>a, <1>b, <2>2, <2>4 DEF OnGuard, At
<1>2. CASE up /\ redis[t] # Free
  <2>1. run'[r].pc = "done"
    BY <1>2, <1>a DEF Execute, RunRows
  <2> QED
    BY <2>1, WorkOver DEF Working, At
<1>3. CASE ~up
  <2>1. run'[r].pc = "acquire" /\ ~up'
    <3>1. run' = [run EXCEPT ![r].pc = "acquire", ![r].trigger = t]
      BY <1>3 DEF Execute
    <3> QED
      BY <1>3, <1>a, <1>b, <3>1 DEF RunRows
  <2> QED
    BY <2>1 DEF OnGuard, Working, At
<1> QED
  BY <1>1, <1>2, <1>3

LEMMA AcquireDbOnGuard ==
    ASSUME TypeOK, RunsStarted, NEW r \in Runs, AcquireDb(r), OnGuard(r)
    PROVE  OnGuard(r)'
<1>a. /\ rows \in [Triggers -> Leases] /\ run \in [Runs -> RunRows] /\ TTL \in Nat
      /\ run[r] \in RunRows
  BY Types, LoopAssumption
<1>b. /\ beat[r] = NoBeat /\ beat' = beat /\ ~up' /\ NoBeat.pc = "off"
      /\ Trig(r) \in Triggers
  BY DEF AcquireDb, At, RunsStarted, NoBeat, OnGuard, Trig
<1>1. CASE DbTaken(r, Trig(r))
  <2>1. run'[r].pc = "done"
    BY <1>1, <1>a DEF AcquireDb, RunRows
  <2> QED
    BY <2>1, WorkOver DEF Working, At
<1>2. CASE ~DbTaken(r, Trig(r))
  <2>1. PICK open \in BOOLEAN : rows' = [rows EXCEPT ![Trig(r)] = Lease(r, open)]
    BY <1>2 DEF AcquireDb
  <2>2. run'[r].pc = "begin" /\ run'[r].trigger = Trig(r)
    <3>1. run' = [run EXCEPT ![r].pc = "begin"]
      BY <1>2 DEF AcquireDb
    <3> QED
      BY <1>a, <3>1 DEF RunRows, Trig
  <2>3. LeaseOf(r)' = Lease(r, open)
    BY <1>a, <1>b, <2>1, <2>2 DEF LeaseOf, Trig
  <2>4. LeaseOf(r)'.owner = r /\ LeaseOf(r)'.left = TTL
    BY <2>3, LeaseTypes
  <2> QED
    BY <1>a, <1>b, <2>2, <2>4 DEF OnGuard, At
<1> QED
  BY <1>1, <1>2

LEMMA BeginOnGuard ==
    ASSUME TypeOK, RunsStarted, NEW r \in Runs, Begin(r), OnGuard(r)
    PROVE  OnGuard(r)'
<1>a. /\ run \in [Runs -> RunRows] /\ beat \in [Runs -> BeatRows] /\ run[r] \in RunRows
      /\ TTL \in Nat
  BY Types, LoopAssumption
<1>1. /\ At(r, "begin") /\ UNCHANGED <<redis, rows, up>>
      /\ beat' = [beat EXCEPT ![r] = Waiting]
  BY DEF Begin
<1>2. /\ run'[r].pc \in {"score", "stop"} /\ run'[r].trigger = run[r].trigger
      /\ beat'[r] = Waiting /\ Waiting.pc = "wait"
  BY <1>a, <1>1 DEF Begin, RunRows, Waiting
<1>3. LeaseOf(r).owner = r /\ LeaseOf(r).left = TTL
  BY <1>1 DEF OnGuard, At, Working
<1>4. LeaseOf(r)' = LeaseOf(r)
  BY <1>1, <1>2 DEF LeaseOf, Trig
<1> QED
  BY <1>a, <1>2, <1>3, <1>4 DEF OnGuard, At

LEMMA WorkOnGuard ==
    ASSUME TypeOK, RunsStarted, NEW r \in Runs, OnGuard(r), TTL > 1,
           "exposed" \notin disturbed',
           \/ Score(r) \/ FirstScore(r) \/ Insert(r) \/ Latest(r)
           \/ Evaluate(r) \/ Decide(r) \/ Adapt(r)
    PROVE  OnGuard(r)'
<1>a. /\ run \in [Runs -> RunRows] /\ run[r] \in RunRows /\ rows \in [Triggers -> Leases]
      /\ TTL \in Nat
  BY Types, LoopAssumption
<1>b. /\ run[r].pc \in {"score", "insert", "evaluate", "latest", "decide", "adapt"}
      /\ UNCHANGED <<redis, up, beat>>
  BY DEF Score, FirstScore, Insert, Latest, Evaluate, Decide, Adapt, At
<1>c. Working(r) /\ ~At(r, "begin") /\ Trig(r) \in Triggers
  BY <1>b DEF Working, At, RunsStarted, Trig
<1>d. LeaseOf(r).owner = r /\ LeaseOf(r).left >= TTL - 1
  BY <1>c DEF OnGuard
<1>1. run'[r].trigger = run[r].trigger /\ run'[r].pc \notin {"begin", "acquire"}
  <2>1. CASE Score(r) \/ FirstScore(r) \/ Insert(r) \/ Latest(r)
    BY <2>1, <1>a DEF Score, FirstScore, Insert, Latest, RunRows
  <2>2. ASSUME NEW pc \in {"latest", "stop"}
        PROVE  Settled(r, pc).trigger = run[r].trigger /\ Settled(r, pc).pc = pc
    <3>1. pc \in Pcs
      BY DEF Pcs
    <3> QED
      BY <1>a, <3>1, SettledType DEF Trig
  <2>3. CASE Evaluate(r) \/ Decide(r) \/ Adapt(r)
    <3>1. \/ \E pc \in {"latest", "stop"} : run' = [run EXCEPT ![r] = Settled(r, pc)]
          \/ \E pc \in {"latest", "stop"} : run' = [run EXCEPT ![r].pc = pc]
          \/ \E d \in Adjustments \cup {None} :
               run' = [run EXCEPT ![r].pc = "adapt", ![r].latched = TRUE, ![r].decision = d]
      <4>1. \A d \in Decisions, open \in BOOLEAN : Recorded(d, open) \in Adjustments
        BY LoopAssumption DEF Recorded, Adjustments
      <4> QED
        BY <2>3, <4>1 DEF Evaluate, Decide, Adapt
    <3> QED
      BY <1>a, <2>2, <3>1 DEF RunRows
  <2> QED
    BY <2>1, <2>3
<1>2. rows' = rows \/ rows' = RowsCommitted(r)
  BY DEF Score, FirstScore, Insert, Latest, Evaluate, Decide, Adapt, RolledBack
<1>3. ~up => /\ rows'[Trig(r)].owner = rows[Trig(r)].owner
             /\ rows'[Trig(r)].left = rows[Trig(r)].left
  <2> SUFFICES ASSUME ~up, rows' = RowsCommitted(r)
               PROVE  /\ rows'[Trig(r)].owner = rows[Trig(r)].owner
                      /\ rows'[Trig(r)].left = rows[Trig(r)].left
    BY <1>2
  <2>1. rows[Trig(r)] \in Leases /\ rows[Trig(r)].left >= TTL - 1
    BY <1>a, <1>c, <1>d DEF LeaseOf
  <2>2. rows[Trig(r)].left > 0
    BY <1>a, <2>1 DEF Leases
  <2> QED
    BY <1>c, <2>1, <2>2, ClosedType DEF RowsCommitted
<1> QED
  BY <1>b, <1>c, <1>1, <1>3, WorksOn DEF At, Trig

LEMMA StepOnGuard ==
    ASSUME TypeOK, RunsStarted, NEW r \in Runs, OnGuard(r), TTL > 1,
           "exposed" \notin disturbed',
           Step(r) \/ Crash(r) \/ \E t \in Triggers : Execute(r, t)
    PROVE  OnGuard(r)'
<1>1. CASE Stop(r) \/ Release(r) \/ Finish(r) \/ Crash(r)
  <2>1. run \in [Runs -> RunRows] /\ run[r] \in RunRows /\ "done" \in Pcs
    BY Types DEF Pcs
  <2>2. run'[r].pc \in {"release", "release_broken", "finish", "finish_broken", "done"}
    <3>1. Settled(r, "done").pc = "done"
      BY <2>1, SettledType
    <3>2. \/ \E pc \in {"release", "release_broken", "finish", "finish_broken"} :
               run' = [run EXCEPT ![r].pc = pc]
          \/ run' = [run EXCEPT ![r] = Settled(r, "done")]
      BY <1>1 DEF Stop, Release, Finish, Crash, Ended
    <3> QED
      BY <2>1, <3>1, <3>2 DEF RunRows
  <2> QED
    BY <2>2, WorkOver DEF Working, At
<1> QED
  BY <1>1, ExecuteOnGuard, AcquireDbOnGuard, BeginOnGuard, WorkOnGuard DEF Step

\* A heartbeat finds the lease of a run at work where it left it, and renews it.
LEMMA HeartbeatOnGuard ==
    ASSUME TypeOK, RunsStarted, NEW r \in Runs, OnGuard(r), Heartbeat(r)
    PROVE  OnGuard(r)'
<1>a. /\ redis \in [Triggers -> Leases] /\ rows \in [Triggers -> Leases]
      /\ beat \in [Runs -> BeatRows] /\ beat[r] \in BeatRows /\ TTL \in Nat
      /\ up \in BOOLEAN
  BY Types, LoopAssumption
<1>b. UNCHANGED <<run, up>>
  BY DEF Heartbeat, BeatSet, BeatGet, BeatExpire, BeatDb
<1>1. CASE ~Working(r)
  BY <1>1, <1>b DEF OnGuard, Working, At
<1>2. CASE Working(r)
  <2>a. beat[r].pc # "off"
    BY DEF Heartbeat, BeatSet, BeatGet, BeatExpire, BeatDb, Beats
  <2>b. Trig(r) \in Triggers /\ ~At(r, "begin") /\ ~At(r, "acquire")
    BY <1>2, <2>a DEF RunsStarted, Trig, Working, At, NoBeat
  <2>c. /\ LeaseOf(r).owner = r /\ LeaseOf(r).left >= TTL - 1
        /\ beat[r].pc = "db" => ~up
    BY <1>2 DEF OnGuard
  <2>d. /\ up => redis[Trig(r)] # Free /\ Mine(r, redis[Trig(r)])
        /\ ~up => ~DbTaken(r, Trig(r))
    BY <2>c, LoopAssumption DEF LeaseOf, Free, Mine, DbTaken
  <2>1. ASSUME NEW b \in BeatRows, beat' = [beat EXCEPT ![r] = b], b # Waiting,
               b.pc = "db" => ~up, UNCHANGED <<redis, rows>>
        PROVE  OnGuard(r)'
    <3>1. beat'[r] = b
      BY <1>a, <2>1
    <3>2. LeaseOf(r)' = LeaseOf(r)
      BY <1>b, <2>1 DEF LeaseOf, Trig
    <3> QED
      BY <1>b, <2>b, <2>c, <2>1, <3>1, <3>2 DEF OnGuard, Working, At
  <2>2. ASSUME NEW pc \in {"get", "expire", "db"}, Call(r, pc), pc = "db" => ~up,
               UNCHANGED <<redis, rows>>
        PROVE  OnGuard(r)'
    <3>1. beat' = [beat EXCEPT ![r] = [beat[r] EXCEPT !.pc = pc]]
      BY <1>a, <2>2 DEF Call
    <3>2. [beat[r] EXCEPT !.pc = pc] \in BeatRows /\ [beat[r] EXCEPT !.pc = pc] # Waiting
      BY <1>a, BeatTypes
    <3>3. [beat[r] EXCEPT !.pc = pc].pc = pc
      BY <1>a DEF BeatRows
    <3> QED
      BY <2>1, <2>2, <3>1, <3>2, <3>3
  <2>3. ASSUME Again(r), LeaseOf(r)'.owner = r, LeaseOf(r)'.left = TTL
        PROVE  OnGuard(r)'
    <3>1. beat' = [beat EXCEPT ![r] = Waiting] /\ Waiting.pc = "wait"
      BY <1>2, <2>3 DEF Again, Waiting
    <3>2. beat'[r] = Waiting
      BY <1>a, <3>1
    <3> QED
      BY <1>a, <1>b, <2>b, <2>3, <3>1, <3>2 DEF OnGuard, Working, At
  <2>4. CASE BeatSet(r)
    <3>1. \/ up /\ Call(r, "get") /\ UNCHANGED <<redis, rows>>
          \/ ~up /\ Call(r, "db") /\ UNCHANGED <<redis, rows>>
      BY <2>4, <2>d DEF BeatSet
    <3> QED
      BY <2>2, <3>1
  <2>5. CASE BeatGet(r)
    <3>1. \/ up /\ Call(r, "expire") /\ UNCHANGED <<redis, rows>>
          \/ ~up /\ Call(r, "db") /\ UNCHANGED <<redis, rows>>
      BY <2>5, <2>d DEF BeatGet
    <3> QED
      BY <2>2, <3>1
  <2>6. CASE BeatExpire(r)
    <3>1. CASE ~up
      <4>1. Call(r, "db") /\ UNCHANGED <<redis, rows>>
        BY <2>6, <3>1 DEF BeatExpire
      <4> QED
        BY <2>2, <3>1, <4>1
    <3>2. CASE up
      <4>1. /\ Again(r)
            /\ redis' = [redis EXCEPT ![Trig(r)] = Extended(redis[Trig(r)])]
        BY <2>6, <3>2 DEF BeatExpire
      <4>2. LeaseOf(r)' = Extended(redis[Trig(r)])
        BY <1>a, <1>b, <2>b, <3>2, <4>1 DEF LeaseOf, Trig
      <4>3. LeaseOf(r)'.owner = r /\ LeaseOf(r)'.left = TTL
        BY <1>a, <2>b, <2>d, <3>2, <4>2, ExtendedType DEF Mine
      <4> QED
        BY <2>3, <4>1, <4>3
    <3> QED
      BY <3>1, <3>2
  <2>7. CASE BeatDb(r)
    <3>1. ~up /\ Again(r)
      BY <2>7, <2>c DEF BeatDb, Beats
    <3>2. rows' = [rows EXCEPT ![Trig(r)] = Lease(r, FALSE)]
      BY <2>7, <2>d, <3>1 DEF BeatDb
    <3>3. LeaseOf(r)' = Lease(r, FALSE)
      BY <1>a, <1>b, <2>b, <3>1, <3>2 DEF LeaseOf, Trig
    <3> QED
      BY <2>3, <3>1, <3>3, LeaseTypes
  <2> QED
    BY <2>4, <2>5, <2>6, <2>7 DEF Heartbeat
<1> QED
  BY <1>1, <1>2

\* Time that no heartbeat is late for leaves every lease all but one interval.
LEMMA TickOnGuard ==
    ASSUME TypeOK, RunsStarted, NEW r \in Runs, OnGuard(r), TTL > 1, Tick,
           "exposed" \notin disturbed'
    PROVE  OnGuard(r)'
<1>1. /\ run'[r].pc = run[r].pc /\ run'[r].trigger = run[r].trigger /\ up' = up
      /\ beat'[r] # Waiting /\ beat'[r].pc = beat[r].pc
      /\ redis' = [t \in Triggers |-> Aged(redis[t])]
      /\ rows' = [t \in Triggers |-> Aged(rows[t])]
  BY TickMoves, TickTypes
<1>2. CASE ~Working(r)
  BY <1>1, <1>2 DEF OnGuard, Working, At
<1>3. CASE Working(r)
  <2>1. beat[r] = Waiting
    BY <1>3 DEF Tick, Late
  <2>2. ~At(r, "begin")
    BY <2>1, BeatTypes DEF RunsStarted, At
  <2>3. LeaseOf(r).owner = r /\ LeaseOf(r).left = TTL /\ (beat[r].pc = "db" => ~up)
    BY <1>3, <2>1 DEF OnGuard
  <2>4. Trig(r) \in Triggers /\ TTL \in Nat
    BY <1>3, LoopAssumption DEF RunsStarted, Trig, Working
  <2>5. LeaseOf(r) \in Leases /\ LeaseOf(r)' = Aged(LeaseOf(r))
    BY <1>1, <2>4, Types DEF LeaseOf, Trig
  <2>6. LeaseOf(r)'.owner = r /\ LeaseOf(r)'.left = TTL - 1
    BY <2>3, <2>4, <2>5, AgedType
  <2> QED
    BY <1>1, <1>3, <2>2, <2>3, <2>4, <2>6 DEF OnGuard, Working, At
<1> QED
  BY <1>2, <1>3

\* Redis comes and goes unnoticed only while no run is active.
LEMMA FlipOnGuard ==
    ASSUME TypeOK, NEW r \in Runs, Flip, "exposed" \notin disturbed'
    PROVE  OnGuard(r)'
<1>1. ~Active(r) /\ run' = run
  BY DEF Flip
<1> QED
  BY <1>1, WorkOver DEF Active, Working, At

LEMMA NextLeaseHeld ==
    ASSUME TypeOK, RunsStarted, LeaseHeld, TTL > 1, [Next]_vars
    PROVE  LeaseHeld'
<1> SUFFICES ASSUME "exposed" \notin disturbed', NEW r \in Runs PROVE OnGuard(r)'
  BY DEF LeaseHeld
<1>1. OnGuard(r)
  BY ExposedStays DEF LeaseHeld
<1>2. CASE \E q \in Runs : Step(q) \/ Crash(q) \/ \E t \in Triggers : Execute(q, t)
  BY <1>1, <1>2, StepOnGuard, OthersOnGuard
<1>3. CASE \E q \in Runs : Heartbeat(q)
  BY <1>1, <1>3, HeartbeatOnGuard, OthersOnGuard
<1>4. CASE Tick
  BY <1>1, <1>4, TickOnGuard
<1>5. CASE Flip
  BY <1>5, FlipOnGuard
<1>6. CASE UNCHANGED vars
  BY <1>1, <1>6 DEF vars, OnGuard, Working, At, LeaseOf, Trig
<1> QED
  BY <1>2, <1>3, <1>4, <1>5, <1>6 DEF Next

\* One lease has one owner.
LEMMA OneOwner ==
    ASSUME LeaseHeld PROVE LeaseExcludes
BY DEF LeaseHeld, OnGuard, LeaseExcludes, LeaseOf

\* concurrency.acquire_execution_lease and LeaseHeartbeat: while a lease lives
\* longer than a heartbeat's interval, two runs of one trigger are at work
\* together only after a lease was left without its guard.
THEOREM LeaseProtects == ASSUME TTL > 1 PROVE Spec => []LeaseExcludes
<1>1. Init => LeaseHeld
  BY IdleType DEF Init, LeaseHeld, OnGuard, Working, At
<1>2. IInv /\ LeaseHeld /\ [Next]_vars => LeaseHeld'
  BY NextLeaseHeld DEF IInv
<1>3. LeaseHeld => LeaseExcludes
  BY OneOwner
<1> QED
  BY <1>1, <1>2, <1>3, Inductive, PTL DEF Spec
=============================================================================
