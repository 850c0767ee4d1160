------------------------ MODULE ReleaseHandoff_proofs ------------------------
(***************************************************************************)
(* Proofs about ReleaseHandoff, for every number of handoffs, requests,    *)
(* crashes and every pair of limits.                                       *)
(***************************************************************************)
EXTENDS ReleaseHandoff, FiniteSetTheorems, TLAPS

\* A thread on its way to GitHub holds the verdict it will send, and a thread
\* past its first step holds a handoff.
Deciding == {"spend", "load", "check", "post", "record"}
Aimless == {"idle", "insert", "next"}
Sound(s) == /\ s.pc \in Deciding => s.state \in Verdicts
            /\ s.pc \notin Aimless => s.h \in Handoffs
Intent == \A a \in Actors : Sound(sess[a])
Typed == TypeOK /\ Intent

LEMMA OlderType == ASSUME NEW a \in Ages PROVE Older(a) \in Ages
BY ReleaseAssumption DEF Older, Ages

\* The steps of GitHub and of the clock keep every variable's type.
LEMMA TypeGitHub == TypeOK /\ (GitHub \/ PassTime) => TypeOK' /\ UNCHANGED sess
<1> SUFFICES ASSUME TypeOK, GitHub \/ PassTime PROVE TypeOK' /\ UNCHANGED sess
  OBVIOUS
<1> USE DEF TypeOK, OnlyGitHub
<1>1. CASE PushTag
  BY <1>1 DEF PushTag, Truths
<1>2. CASE RunStarts
  <2>1. "in_progress" \in RunStates /\ "in_progress" \in JobStates /\ 0 \in Ages
    BY ReleaseAssumption DEF RunStates, JobStates, Ages
  <2>2. gh' \in Truths
    BY <1>2, <2>1 DEF RunStarts, Truths
  <2> QED BY <1>2, <2>2 DEF RunStarts
<1>3. CASE PypiStarts
  <2>1. "in_progress" \in JobStates /\ 0 \in Ages
    BY ReleaseAssumption DEF JobStates, Ages
  <2>2. gh' \in Truths
    BY <1>3, <2>1 DEF PypiStarts, Truths
  <2> QED BY <1>3, <2>2 DEF PypiStarts
<1>4. CASE RunEnds
  <2> DEFINE ended == [r \in Roles |-> IF gh.jobs[r] \in {"queued", "in_progress"}
                                      THEN "cancelled" ELSE gh.jobs[r]]
  <2>1. {"success", "failure", "cancelled"} \subseteq RunStates /\ "cancelled" \in JobStates
        /\ "closed" \in Gates
    BY DEF RunStates, JobStates, Gates
  <2>2. ended \in [Roles -> JobStates]
    BY <2>1 DEF Truths
  <2>3. gh' \in Truths
    <3> HIDE DEF ended
    <3>1. \/ gh' = [gh EXCEPT !.run = "success"]
          \/ gh' = [gh EXCEPT !.run = "failure"]
          \/ gh' = [gh EXCEPT !.run = "cancelled", !.jobs = ended,
                              !.gate = IF @ = "pending" THEN "closed" ELSE @]
      BY <1>4 DEF RunEnds, ended
    <3> QED BY <2>1, <2>2, <3>1 DEF Truths
  <2> QED BY <1>4, <2>3 DEF RunEnds
<1>5. ASSUME NEW r \in Roles, JobSucceeds(r) PROVE TypeOK' /\ UNCHANGED sess
  <2>1. {"in_progress", "success"} \subseteq JobStates /\ 0 \in Ages /\ "pending" \in Gates
    BY ReleaseAssumption DEF JobStates, Ages, Gates
  <2>2. gh' \in Truths
    BY <1>5, <2>1 DEF JobSucceeds, Truths
  <2> QED BY <1>5, <2>2 DEF JobSucceeds
<1>6. ASSUME NEW r \in Roles, JobFails(r) PROVE TypeOK' /\ UNCHANGED sess
  BY <1>6 DEF JobFails, JobStates, Truths
<1>7. ASSUME NEW v \in Verdicts, OwnerDecides(v) PROVE TypeOK' /\ UNCHANGED sess
  BY <1>7 DEF OwnerDecides, Gates, Channels, Truths
<1>8. CASE PassTime
  <2>1. gh' \in Truths
    <3>1. [f \in Facts |-> Older(gh.age[f])] \in [Facts -> Ages]
      BY OlderType DEF Truths
    <3>2. gh' = [gh EXCEPT !.age = [f \in Facts |-> Older(gh.age[f])]]
      BY <1>8 DEF PassTime
    <3> QED BY <3>1, <3>2 DEF Truths
  <2>2. rows' \in [Handoffs -> Rows]
    <3>1. ASSUME NEW row \in Rows
          PROVE [row EXCEPT !.createdAge = Older(@), !.stageAge = Older(@), !.taggedAge = Older(@)]
                  \in Rows
      <4>1. Older(row.createdAge) \in Ages /\ Older(row.stageAge) \in Ages /\ Older(row.taggedAge) \in Ages
        BY OlderType DEF Rows
      <4> QED BY <4>1 DEF Rows
    <3> QED BY <1>8, <3>1 DEF PassTime
  <2> QED BY <1>8, <2>1, <2>2 DEF PassTime
<1> QED BY <1>1, <1>2, <1>3, <1>4, <1>5, <1>6, <1>7, <1>8 DEF GitHub

-----------------------------------------------------------------------------
LEMMA Blank == /\ NoHistory \in Histories /\ NoRow \in Rows /\ NoSession \in Sessions
               /\ NextHandoff \in Sessions /\ NoReads \in Reads
<1>1. NoHistory \in Histories
  BY DEF NoHistory, Histories, Channels, Outcomes
<1>2. 0 \in Ages /\ MaxAge \in Ages /\ "none" \in Stages
  BY ReleaseAssumption DEF Ages, Stages, Position
<1>3. NoRow \in Rows
  BY <1>1, <1>2 DEF NoRow, Rows, Reasons, Deliveries
<1>4. NoSession \in Sessions /\ NextHandoff \in Sessions
  BY <1>1 DEF NoSession, NextHandoff, Sessions, PCs, Outcomes, Deliveries
<1>5. NoReads \in Reads
  BY DEF NoReads, Reads, RunStates, JobStates
<1> QED BY <1>1, <1>3, <1>4, <1>5

\* One thread changes: its new session has the type, and holds a verdict if it decides.
LEMMA OneSession ==
    ASSUME Typed, NEW a \in Actors, NEW s \in Sessions, Sound(s),
           sess' = [sess EXCEPT ![a] = s]
    PROVE  sess' \in [Actors -> Sessions] /\ Intent'
BY DEF Typed, TypeOK, Intent

LEMMA RowsWithHist ==
    ASSUME rows \in [Handoffs -> Rows], NEW h, NEW x \in Histories
    PROVE  [rows EXCEPT ![h].hist = x] \in [Handoffs -> Rows]
<1>1. ASSUME NEW row \in Rows PROVE [row EXCEPT !.hist = x] \in Rows
  BY DEF Rows
<1> QED BY <1>1

\* The number of handoffs a request's check finds.
LEMMA CreatedCount == Cardinality(Created) \in {0} \cup Handoffs
<1>1. IsFiniteSet(Handoffs) /\ Cardinality(Handoffs) = MaxHandoffs
  BY ReleaseAssumption, FS_Interval DEF Handoffs
<1>2. IsFiniteSet(Created) /\ Cardinality(Created) <= Cardinality(Handoffs)
  BY <1>1, FS_Subset DEF Created
<1>3. Cardinality(Created) \in Nat
  BY <1>2, FS_CardinalityType
<1> QED
  BY <1>1, <1>2, <1>3, ReleaseAssumption DEF Handoffs

LEMMA TypeStart == ASSUME Typed, NEW a \in Starters, StartCheck(a) \/ StartInsert(a) PROVE Typed'
<1> USE DEF TypeOK
<1>0. a \in Actors
  BY DEF Actors
<1>1. CASE StartCheck(a)
  <2>1. [sess[a] EXCEPT !.pc = "insert", !.h = Cardinality(Created)] \in Sessions
    <3>1. sess[a] \in Sessions /\ "insert" \in PCs
      BY <1>0 DEF Typed, PCs
    <3>2. ASSUME NEW n \in {0} \cup Handoffs PROVE [sess[a] EXCEPT !.pc = "insert", !.h = n] \in Sessions
      BY <3>1, <3>2 DEF Sessions
    <3> QED BY <3>2, CreatedCount
  <2>2. Sound([sess[a] EXCEPT !.pc = "insert", !.h = Cardinality(Created)])
    BY <1>0 DEF Sessions, Typed, Deciding, Aimless, Sound
  <2>3. sess' \in [Actors -> Sessions] /\ Intent'
    BY <1>0, <1>1, <2>1, <2>2, OneSession DEF StartCheck
  <2> QED BY <1>1, <2>3 DEF StartCheck, Typed
<1>2. CASE StartInsert(a)
  <2>1. ASSUME NEW task \in BOOLEAN
        PROVE [NoRow EXCEPT !.stage = "requested", !.task = task, !.hist.stages = {"requested"},
                            !.after = sess[a].h] \in Rows
    <3>1. NoRow \in Rows /\ NoRow.hist \in Histories /\ "requested" \in Stages
      BY Blank DEF Rows, Stages, Position
    <3>2. sess[a].h \in {0} \cup Handoffs
      BY <1>0 DEF Typed, Sessions
    <3> QED BY <3>1, <3>2 DEF Rows, Histories
  <2>2. rows' \in [Handoffs -> Rows]
    BY <1>2, <2>1 DEF StartInsert, Typed
  <2>3. sess' \in [Actors -> Sessions] /\ Intent'
    BY <1>0, <1>2, Blank, OneSession DEF StartInsert, NoSession, Deciding, Aimless, Sound
  <2> QED BY <1>2, <2>2, <2>3 DEF StartInsert, Typed
<1> QED BY <1>1, <1>2

LEMMA TypeDecide ==
    ASSUME Typed, NEW a \in {Watcher} \cup Deciders,
           DecideCheck(a) \/ DecidePost(a) \/ DecideRecord(a)
    PROVE Typed'
<1>0. a \in Actors /\ sess[a] \in Sessions /\ Sound(sess[a])
  BY DEF Actors, Typed, TypeOK, Intent
<1>1. ASSUME NEW outcome \in {"already_decided", "error"}, sess[a].pc \in Deciding, Answer(a, outcome)
      PROVE sess' \in [Actors -> Sessions] /\ Intent'
  <2>1. CASE a = Watcher
    <3>1. [sess[a] EXCEPT !.pc = "outcome", !.state = outcome] \in Sessions
      BY <1>0 DEF Sessions, Outcomes, PCs
    <3>2. Sound([sess[a] EXCEPT !.pc = "outcome", !.state = outcome])
      BY <1>0, <1>1 DEF Sessions, Deciding, Aimless, Sound
    <3> QED BY <1>0, <1>1, <2>1, <3>1, <3>2, OneSession DEF Answer
  <2>2. CASE a # Watcher
    BY <1>0, <1>1, <2>2, Blank, OneSession DEF Answer, NoSession, Deciding, Aimless, Sound
  <2> QED BY <2>1, <2>2
<1>2. ASSUME NEW pc \in {"post", "record"}, sess[a].pc \in Deciding, sess' = [sess EXCEPT ![a].pc = pc]
      PROVE sess' \in [Actors -> Sessions] /\ Intent'
  <2>1. [sess[a] EXCEPT !.pc = pc] \in Sessions /\ Sound([sess[a] EXCEPT !.pc = pc])
    BY <1>0, <1>2 DEF Sessions, PCs, Deciding, Aimless, Sound
  <2> QED BY <1>0, <1>2, <2>1, OneSession
<1>3. CASE DecideCheck(a)
  BY <1>1, <1>2, <1>3 DEF DecideCheck, Typed, TypeOK, At, Deciding, Aimless, Sound
<1>4. CASE DecidePost(a)
  <2>1. sess' \in [Actors -> Sessions] /\ Intent'
    BY <1>1, <1>2, <1>4 DEF DecidePost, At, Deciding, Aimless, Sound
  <2>2. gh' \in Truths
    BY <1>0, <1>4 DEF DecidePost, Truths, Via, Channels, At, Deciding, Aimless, Sound, Gates, Typed, TypeOK
  <2> QED BY <1>4, <2>1, <2>2 DEF DecidePost, Typed, TypeOK
<1>5. CASE DecideRecord(a)
  <2>1. WithDecision(a) \in Histories
    BY <1>0, <1>5 DEF DecideRecord, WithDecision, Sessions, Histories, At, Deciding, Aimless, Sound, Via, Channels
  <2>2. rows' \in [Handoffs -> Rows]
    BY <1>5, <2>1, RowsWithHist DEF DecideRecord, Typed, TypeOK
  <2>3. sess' \in [Actors -> Sessions] /\ Intent'
    <3>1. CASE a = Watcher
      <4>1. [sess[a] EXCEPT !.pc = "outcome", !.hist = WithDecision(a)] \in Sessions
        BY <1>0, <2>1 DEF Sessions, PCs
      <4>2. Sound([sess[a] EXCEPT !.pc = "outcome", !.hist = WithDecision(a)])
        BY <1>0, <1>5 DEF DecideRecord, At, Sessions, Deciding, Aimless, Sound
      <4> QED BY <1>0, <1>5, <3>1, <4>1, <4>2, OneSession DEF DecideRecord
    <3>2. CASE a # Watcher
      BY <1>0, <1>5, <3>2, Blank, OneSession DEF DecideRecord, NoSession, Deciding, Aimless, Sound
    <3> QED BY <3>1, <3>2
  <2> QED BY <1>5, <2>2, <2>3 DEF DecideRecord, Typed, TypeOK
<1> QED BY <1>3, <1>4, <1>5

LEMMA TypeRequest ==
    ASSUME Typed, NEW a \in Deciders, NEW h \in Handoffs, NEW v \in Verdicts, RequestDecision(a, h, v)
    PROVE Typed'
<1>1. a \in Actors /\ sess[a] \in Sessions /\ rows[h].hist \in Histories
  BY DEF Actors, Typed, TypeOK, Rows
<1> DEFINE s == [sess[a] EXCEPT !.pc = "check", !.h = h, !.state = v, !.hist = rows[h].hist]
<1>2. s \in Sessions /\ Sound(s)
  BY <1>1 DEF Sessions, PCs, Outcomes, Sound
<1>3. sess' \in [Actors -> Sessions] /\ Intent'
  BY <1>1, <1>2, OneSession DEF RequestDecision
<1> QED BY <1>3 DEF RequestDecision, Typed, TypeOK

-----------------------------------------------------------------------------
(* The watcher's steps *)

LEMMA WatcherSession ==
    ASSUME Typed
    PROVE  Watcher \in Actors /\ W \in Sessions /\ Sound(W)
BY DEF W, Actors, Typed, TypeOK, Intent

LEMMA StepType ==
    ASSUME Typed, NEW pc \in PCs, Step(pc), pc \in Deciding => W.state \in Verdicts,
           pc \notin Aimless => W.pc \notin Aimless
    PROVE  sess' \in [Actors -> Sessions] /\ Intent'
<1>1. [W EXCEPT !.pc = pc] \in Sessions /\ Sound([W EXCEPT !.pc = pc])
  BY WatcherSession DEF Sessions, Sound
<1> QED BY <1>1, WatcherSession, OneSession DEF Step, W

LEMMA BackToNext ==
    ASSUME Typed, sess' = [sess EXCEPT ![Watcher] = NextHandoff]
    PROVE  sess' \in [Actors -> Sessions] /\ Intent'
BY WatcherSession, Blank, OneSession DEF NextHandoff, NoSession, Deciding, Aimless, Sound

\* The reads and the end of a tick.
LEMMA TypeReads ==
    ASSUME Typed, TickStart \/ TakeHandoff \/ FindRun \/ GetRun \/ ReadJobs \/ ReadPending \/ Unavailable
    PROVE  Typed'
<1>1. CASE TickStart
  <2>1. sess' \in [Actors -> Sessions] /\ Intent'
    BY <1>1, StepType DEF TickStart, PCs, Deciding, Aimless
  <2> QED BY <1>1, <2>1 DEF TickStart, Typed, TypeOK
<1>2. CASE TakeHandoff
  <2>1. CASE todo = {}
    <3>1. sess' \in [Actors -> Sessions] /\ Intent'
      BY <1>2, <2>1, WatcherSession, Blank, OneSession DEF TakeHandoff, NoSession, Deciding, Aimless, Sound
    <3> QED BY <1>2, <2>1, <3>1, Blank DEF TakeHandoff, Typed, TypeOK
  <2>2. CASE todo # {}
    <3>1. PICK h \in todo :
            /\ todo' = todo \ {h}
            /\ sess' = [sess EXCEPT ![Watcher] =
                          [NoSession EXCEPT !.pc = IF rows[h].run THEN "get" ELSE "find",
                                            !.h = h, !.hist = rows[h].hist]]
      BY <1>2, <2>2 DEF TakeHandoff
    <3> DEFINE s == [NoSession EXCEPT !.pc = IF rows[h].run THEN "get" ELSE "find",
                                      !.h = h, !.hist = rows[h].hist]
    <3>2. h \in Handoffs /\ rows[h].hist \in Histories
      BY DEF Typed, TypeOK, Rows
    <3>3. s \in Sessions
      BY <3>2, Blank DEF Sessions, PCs
    <3>4. Sound(s)
      BY <3>2 DEF NoSession, Deciding, Aimless, Sound
    <3>5. sess' \in [Actors -> Sessions] /\ Intent'
      BY <3>1, <3>3, <3>4, WatcherSession, OneSession
    <3> QED BY <1>2, <3>1, <3>5, Blank DEF TakeHandoff, Typed, TypeOK
  <2> QED BY <2>1, <2>2
<1>3. CASE FindRun \/ GetRun \/ ReadJobs \/ ReadPending
  <2>1. sess' \in [Actors -> Sessions] /\ Intent'
    BY <1>3, StepType DEF FindRun, GetRun, ReadJobs, ReadPending, At, W, PCs, Deciding, Aimless
  <2>2. seen' \in Reads
    BY <1>3 DEF FindRun, GetRun, ReadJobs, ReadPending, Reads, Truths, Typed, TypeOK
  <2> QED BY <1>3, <2>1, <2>2 DEF FindRun, GetRun, ReadJobs, ReadPending, Typed, TypeOK
<1>4. CASE Unavailable
  <2>1. sess' \in [Actors -> Sessions] /\ Intent'
    BY <1>4, BackToNext DEF Unavailable
  <2> QED BY <1>4, <2>1, Blank DEF Unavailable, Typed, TypeOK
<1> QED BY <1>1, <1>2, <1>3, <1>4

LEMMA AfterTypes ==
    ASSUME NEW S
    PROVE  /\ AfterEffects(S) \in PCs \ Deciding
           /\ AfterEvents(S) \in PCs \ Deciding
           /\ Announced(S) \subseteq NotifyStages
BY DEF AfterEffects, AfterEvents, Announced, PCs, Deciding

LEMMA AfterCommitType ==
    ASSUME Typed, W.pc \notin Aimless, NEW entered \in SUBSET Reached, AfterCommit(entered), rows' \in [Handoffs -> Rows]
    PROVE  Typed'
<1> DEFINE s == [W EXCEPT !.pc = IF entered = {} THEN "replies" ELSE AfterEvents(entered), !.entered = entered]
<1>1. s \in Sessions /\ Sound(s)
  BY WatcherSession, AfterTypes DEF Sessions, PCs, Deciding, Aimless, Sound
<1>2. sess' \in [Actors -> Sessions] /\ Intent'
  BY <1>1, WatcherSession, OneSession DEF AfterCommit, W
<1> QED BY <1>2, Blank DEF AfterCommit, Typed, TypeOK

LEMMA HistWithStages ==
    ASSUME NEW x \in Histories, NEW S \in SUBSET (Stages \cup {"tagged"})
    PROVE  [x EXCEPT !.stages = @ \cup S] \in Histories
BY DEF Histories

LEMMA FailedType ==
    ASSUME NEW row \in Rows, NEW x \in Histories, NEW why \in Reasons
    PROVE  Failed(row, x, why) \in Rows
<1>1. {"failed"} \in SUBSET (Stages \cup {"tagged"}) /\ "failed" \in Stages /\ 0 \in Ages
  BY ReleaseAssumption DEF Stages, Position, Ages
<1>2. [x EXCEPT !.stages = @ \cup {"failed"}] \in Histories
  BY <1>1, HistWithStages
<1> QED BY <1>1, <1>2 DEF Failed, Rows

LEMMA TypeAwait == ASSUME Typed, AwaitRun PROVE Typed'
<1>1. W.hist \in Histories /\ "failed" \in Reached /\ W.pc \notin Aimless
  BY WatcherSession DEF Sessions, Reached, Terminal, AwaitRun, At, W, Aimless
<1>2. ASSUME NEW row \in Rows PROVE FirstSight(row) \in Rows
  <2>1. 0 \in Ages /\ [W.hist EXCEPT !.stages = @ \cup {"tagged"}] \in Histories
    <3>1. {"tagged"} \in SUBSET (Stages \cup {"tagged"})
      OBVIOUS
    <3>2. [W.hist EXCEPT !.stages = @ \cup {"tagged"}] \in Histories
      BY <1>1, <3>1, HistWithStages
    <3>3. 0 \in Ages
      BY ReleaseAssumption DEF Ages
    <3> QED BY <3>2, <3>3
  <2> QED BY <2>1 DEF FirstSight, Rows
<1>3. rows' \in [Handoffs -> Rows]
  <2>1. ASSUME NEW row \in Rows, NEW why \in {"no_run", "no_tag"} PROVE Failed(row, W.hist, why) \in Rows
    <3>1. why \in Reasons
      BY DEF Reasons
    <3> QED BY <1>1, <3>1, FailedType
  <2>2. \/ \E why \in {"no_run", "no_tag"} : rows' = [rows EXCEPT ![W.h] = Failed(rows[W.h], W.hist, why)]
        \/ rows' = [rows EXCEPT ![W.h] = FirstSight(rows[W.h])]
        \/ rows' = rows
    BY DEF AwaitRun
  <2> QED BY <1>2, <2>1, <2>2 DEF Typed, TypeOK
<1>4. AfterCommit({"failed"}) \/ AfterCommit({})
  BY DEF AwaitRun
<1> QED BY <1>1, <1>3, <1>4, AfterCommitType

LEMMA Positions ==
    /\ Position["none"] = 0 /\ Position["requested"] = 1
    /\ Position["running"] = 2 /\ Position["at_gate"] = 3 /\ Position["approved"] = 4
    /\ Position["published"] = 5 /\ Position["done"] = 6 /\ Position["failed"] = 7
BY DEF Position

LEMMA LatestIs ==
    ASSUME NEW S \in SUBSET Reached, S # {}
    PROVE  Latest(S) \in S /\ \A t \in S : Position[t] <= Position[Latest(S)]
<1> DEFINE Greatest(s) == \A t \in S : Position[t] <= Position[s]
<1>1. S \subseteq {"running", "at_gate", "approved", "published", "done", "failed"}
  BY DEF Reached, Facts, Terminal
<1>2. \E s \in S : Greatest(s)
  <2>1. CASE "failed" \in S
    BY Positions, <1>1, <2>1
  <2>2. CASE "failed" \notin S /\ "done" \in S
    BY Positions, <1>1, <2>2
  <2>3. CASE "failed" \notin S /\ "done" \notin S /\ "published" \in S
    BY Positions, <1>1, <2>3
  <2>4. CASE "failed" \notin S /\ "done" \notin S /\ "published" \notin S /\ "approved" \in S
    BY Positions, <1>1, <2>4
  <2>5. CASE "failed" \notin S /\ "done" \notin S /\ "published" \notin S /\ "approved" \notin S
             /\ "at_gate" \in S
    BY Positions, <1>1, <2>5
  <2>6. CASE S \subseteq {"running"}
    <3>1. \E s \in S : s = "running"
      BY <2>6
    <3> QED
      BY Positions, <2>6, <3>1
  <2> QED
    BY <1>1, <2>1, <2>2, <2>3, <2>4, <2>5, <2>6
<1> HIDE DEF Greatest
<1>3. Latest(S) = CHOOSE s \in S : Greatest(s)
  BY DEF Latest, Greatest
<1>4. Latest(S) \in S /\ Greatest(Latest(S))
  BY <1>2, <1>3
<1> QED
  BY <1>4 DEF Greatest

LEMMA LatestType == ASSUME NEW S \in SUBSET (Facts \cup {"done"}), S # {}
                    PROVE  Latest(S) \in S
BY LatestIs DEF Reached, Terminal

LEMMA EventsType == ASSUME NEW s, NEW r PROVE Events(s, r) \in SUBSET (Facts \cup {"done"})
BY DEF Events, Facts

LEMMA FailureType == ASSUME NEW s, NEW r PROVE Failure(s, r) \in Reasons
BY DEF Failure, Reasons

LEMMA AdvancedType ==
    ASSUME gh \in Truths, NEW row \in Rows, NEW x \in Histories, NEW S \in SUBSET (Facts \cup {"done"})
    PROVE  Advanced(row, x, S) \in Rows
<1>1. CASE S = {}
  BY <1>1 DEF Advanced
<1>2. CASE S # {}
  <2>1. Latest(S) \in Facts \cup {"done"} /\ Facts \cup {"done"} \subseteq Stages
    BY <1>2, LatestType DEF Facts, Stages, Position
  <2>2. [x EXCEPT !.stages = @ \cup S] \in Histories
    BY <2>1, HistWithStages
  <2>3. (IF Latest(S) \in Facts THEN gh.age[Latest(S)] ELSE 0) \in Ages
    BY ReleaseAssumption DEF Truths, Ages
  <2> QED BY <1>2, <2>1, <2>2, <2>3 DEF Advanced, Rows
<1> QED BY <1>1, <1>2

\* What advance commits: the row as moved, or that row failed.
LEMMA AdvanceCommits ==
    ASSUME Advance
    PROVE  \E entered \in SUBSET (Facts \cup {"done"}), why \in Reasons :
             LET row == [Advanced(rows[W.h], W.hist, entered) EXCEPT !.run = TRUE] IN
             /\ entered = NewStages(rows[W.h].stage, Events(seen, gh.gate = "rejected"))
             /\ \/ rows' = [rows EXCEPT ![W.h] = row] /\ AfterCommit(entered)
                \/ /\ row.stage # "done"
                   /\ \E hist \in {W.hist, row.hist} : rows' = [rows EXCEPT ![W.h] = Failed(row, hist, why)]
                   /\ AfterCommit(entered \cup {"failed"})
<1> DEFINE entered == NewStages(rows[W.h].stage, Events(seen, gh.gate = "rejected"))
<1> DEFINE row == [Advanced(rows[W.h], W.hist, entered) EXCEPT !.run = TRUE]
<1> DEFINE failure == Failure(seen, gh.gate = "rejected")
<1> DEFINE hist == IF entered = {} THEN W.hist ELSE row.hist
<1>1. entered \in SUBSET (Facts \cup {"done"})
  BY EventsType DEF NewStages
<1>2. failure \in Reasons /\ "stalled" \in Reasons
  BY FailureType DEF Reasons
<1>3. hist \in {W.hist, row.hist}
  OBVIOUS
<1>4. \/ rows' = [rows EXCEPT ![W.h] = row] /\ AfterCommit(entered)
      \/ row.stage # "done" /\ rows' = [rows EXCEPT ![W.h] = Failed(row, hist, failure)] /\ AfterCommit(entered \cup {"failed"})
      \/ /\ row.stage # "done" /\ entered = {}
         /\ rows' = [rows EXCEPT ![W.h] = Failed(row, hist, "stalled")] /\ AfterCommit({"failed"})
  BY DEF Advance, Stalled
<1> HIDE DEF row, failure, hist
<1>5. CASE rows' = [rows EXCEPT ![W.h] = row] /\ AfterCommit(entered)
  BY <1>1, <1>2, <1>5 DEF row
<1>6. CASE row.stage # "done" /\ rows' = [rows EXCEPT ![W.h] = Failed(row, hist, failure)] /\ AfterCommit(entered \cup {"failed"})
  BY <1>1, <1>2, <1>3, <1>6 DEF row
<1>7. CASE /\ row.stage # "done" /\ entered = {}
           /\ rows' = [rows EXCEPT ![W.h] = Failed(row, hist, "stalled")] /\ AfterCommit({"failed"})
  <2>1. AfterCommit(entered \cup {"failed"})
    BY <1>7
  <2> QED BY <1>1, <1>2, <1>3, <1>7, <2>1 DEF row
<1> QED BY <1>4, <1>5, <1>6, <1>7

LEMMA TypeAdvance == ASSUME Typed, Advance PROVE Typed'
<1>1. PICK entered \in SUBSET (Facts \cup {"done"}), why \in Reasons :
        LET row == [Advanced(rows[W.h], W.hist, entered) EXCEPT !.run = TRUE] IN
        \/ rows' = [rows EXCEPT ![W.h] = row] /\ AfterCommit(entered)
        \/ /\ \E hist \in {W.hist, row.hist} : rows' = [rows EXCEPT ![W.h] = Failed(row, hist, why)]
           /\ AfterCommit(entered \cup {"failed"})
  BY AdvanceCommits
<1> DEFINE row == [Advanced(rows[W.h], W.hist, entered) EXCEPT !.run = TRUE]
<1>2. W.hist \in Histories /\ entered \cup {"failed"} \in SUBSET Reached /\ W.pc \notin Aimless
  BY WatcherSession DEF Sessions, Reached, Terminal, Advance, At, W, Aimless
<1>3. W.h \in Handoffs => row \in Rows /\ row.hist \in Histories
  <2>1. W.h \in Handoffs => Advanced(rows[W.h], W.hist, entered) \in Rows
    BY <1>2, AdvancedType DEF Typed, TypeOK
  <2> QED BY <2>1 DEF Rows
<1> HIDE DEF row
<1>4. rows' \in [Handoffs -> Rows]
  <2>1. CASE rows' = [rows EXCEPT ![W.h] = row]
    BY <1>3, <2>1 DEF Typed, TypeOK
  <2>2. ASSUME NEW hist \in {W.hist, row.hist}, rows' = [rows EXCEPT ![W.h] = Failed(row, hist, why)]
        PROVE  rows' \in [Handoffs -> Rows]
    <3>1. W.h \in Handoffs => Failed(row, hist, why) \in Rows
      BY <1>2, <1>3, FailedType
    <3> QED BY <2>2, <3>1 DEF Typed, TypeOK
  <2> QED BY <1>1, <2>1, <2>2 DEF row
<1>5. AfterCommit(entered) \/ AfterCommit(entered \cup {"failed"})
  BY <1>1
<1> QED BY <1>2, <1>4, <1>5, AfterCommitType

LEMMA TriesType == Tries \subseteq {0, 1} /\ Tries \subseteq Nat
BY DEF Tries

\* The side effects of the stages entered.
LEMMA TypeEffects ==
    ASSUME Typed, CompleteTask \/ WriteNote \/ CreateAdoption \/ Notify \/ CommitEffects
    PROVE  Typed'
<1>0. Watcher \in Actors /\ W \in Sessions /\ W.pc \notin Aimless /\ W.h \in Handoffs
  BY WatcherSession DEF CompleteTask, WriteNote, CreateAdoption, Notify, CommitEffects,
                        At, W, Aimless, Sound
<1>2. CASE CompleteTask
  <2>1. PICK n \in {0, 1} : effects' = [effects EXCEPT ![W.h].completed = @ + n]
    BY <1>2, TriesType DEF CompleteTask
  <2>2. ASSUME NEW t \in Traces PROVE [t EXCEPT !.completed = @ + n] \in Traces
    BY <2>1 DEF Traces
  <2>3. effects' \in [Handoffs -> Traces]
    BY <2>1, <2>2 DEF Typed, TypeOK
  <2>4. sess' \in [Actors -> Sessions] /\ Intent'
    BY <1>0, <1>2, StepType DEF CompleteTask, PCs, Deciding
  <2> QED BY <1>2, <2>3, <2>4 DEF CompleteTask, Typed, TypeOK
<1>3. CASE WriteNote
  <2>1. PICK n \in {0, 1} :
          /\ effects' = [effects EXCEPT ![W.h].notes = @ + n]
          /\ sess' = [sess EXCEPT ![Watcher] = [W EXCEPT !.pc = "adopt", !.note = (n = 1)]]
    BY <1>3, TriesType DEF WriteNote, W
  <2>2. ASSUME NEW t \in Traces PROVE [t EXCEPT !.notes = @ + n] \in Traces
    BY <2>1 DEF Traces
  <2>3. effects' \in [Handoffs -> Traces]
    BY <2>1, <2>2 DEF Typed, TypeOK
  <2>4. /\ [W EXCEPT !.pc = "adopt", !.note = (n = 1)] \in Sessions
        /\ Sound([W EXCEPT !.pc = "adopt", !.note = (n = 1)])
    BY <1>0 DEF Sessions, PCs, Deciding, Aimless, Sound
  <2>5. sess' \in [Actors -> Sessions] /\ Intent'
    BY <1>0, <2>1, <2>4, OneSession
  <2> QED BY <1>3, <2>3, <2>5 DEF WriteNote, Typed, TypeOK
<1>4. CASE CreateAdoption
  <2>1. PICK n \in {0, 1} :
          /\ effects' = [effects EXCEPT ![W.h].adoptions = @ + n]
          /\ rows' = [rows EXCEPT ![W.h].note = @ \/ (n = 1 /\ W.note)]
          /\ sess' = [sess EXCEPT ![Watcher] = [W EXCEPT !.pc = AfterEffects(W.entered), !.adoption = (n = 1)]]
    BY <1>4, TriesType DEF CreateAdoption, W
  <2>2. ASSUME NEW t \in Traces PROVE [t EXCEPT !.adoptions = @ + n] \in Traces
    BY <2>1 DEF Traces
  <2>3. effects' \in [Handoffs -> Traces]
    BY <2>1, <2>2 DEF Typed, TypeOK
  <2>4. ASSUME NEW row \in Rows, NEW b \in BOOLEAN PROVE [row EXCEPT !.note = @ \/ b] \in Rows
    BY DEF Rows
  <2>5. rows' \in [Handoffs -> Rows]
    BY <2>1, <2>4 DEF Typed, TypeOK
  <2> DEFINE s == [W EXCEPT !.pc = AfterEffects(W.entered), !.adoption = (n = 1)]
  <2>6. s \in Sessions /\ Sound(s)
    BY <1>0, AfterTypes DEF Sessions, Sound
  <2>7. sess' \in [Actors -> Sessions] /\ Intent'
    BY <1>0, <2>1, <2>6, OneSession
  <2> QED BY <1>4, <2>3, <2>5, <2>7 DEF CreateAdoption, Typed, TypeOK
<1>5. CASE Notify
  <2>1. PICK s \in NotifyStages :
          \/ Step("commit") /\ UNCHANGED effects
          \/ \E n \in {0, 1}, mail \in {"sent", "undelivered"} :
               /\ effects' = [effects EXCEPT ![W.h].mails[s] = @ + n]
               /\ sess' = [sess EXCEPT ![Watcher] = [W EXCEPT !.pc = "commit", !.mail = mail]]
    BY <1>5, AfterTypes, TriesType DEF Notify, W
  <2>2. CASE Step("commit") /\ UNCHANGED effects
    <3>1. sess' \in [Actors -> Sessions] /\ Intent'
      BY <1>0, <2>2, StepType DEF PCs, Deciding
    <3> QED BY <1>5, <2>2, <3>1 DEF Notify, Typed, TypeOK
  <2>3. ASSUME NEW n \in {0, 1}, NEW mail \in {"sent", "undelivered"},
               effects' = [effects EXCEPT ![W.h].mails[s] = @ + n],
               sess' = [sess EXCEPT ![Watcher] = [W EXCEPT !.pc = "commit", !.mail = mail]]
        PROVE  Typed'
    <3>1. ASSUME NEW t \in Traces PROVE [t EXCEPT !.mails[s] = @ + n] \in Traces
      BY DEF Traces
    <3>2. effects' \in [Handoffs -> Traces]
      BY <2>3, <3>1 DEF Typed, TypeOK
    <3>3. /\ [W EXCEPT !.pc = "commit", !.mail = mail] \in Sessions
          /\ Sound([W EXCEPT !.pc = "commit", !.mail = mail])
      BY <1>0 DEF Sessions, PCs, Deciding, Aimless, Sound, Deliveries
    <3>4. sess' \in [Actors -> Sessions] /\ Intent'
      BY <1>0, <2>3, <3>3, OneSession
    <3> QED BY <1>5, <3>2, <3>4 DEF Notify, Typed, TypeOK
  <2> QED BY <2>1, <2>2, <2>3
<1>6. CASE CommitEffects
  <2>1. ASSUME NEW row \in Rows, NEW told \in SUBSET NotifyStages PROVE Committed(row, told) \in Rows
    <3>1. W.mail \in Deliveries /\ W.note \in BOOLEAN /\ W.adoption \in BOOLEAN
      BY <1>0 DEF Sessions
    <3>2. [s \in NotifyStages |-> IF s \in told THEN W.mail ELSE row.notified[s]] \in [NotifyStages -> Deliveries]
      BY <3>1 DEF Rows
    <3> QED BY <3>1, <3>2 DEF Committed, Rows
  <2>2. PICK told \in SUBSET NotifyStages : rows' = [rows EXCEPT ![W.h] = Committed(rows[W.h], told)]
    BY <1>6, AfterTypes DEF CommitEffects
  <2>3. rows' \in [Handoffs -> Rows]
    <3>1. rows \in [Handoffs -> Rows] /\ rows[W.h] \in Rows
      BY <1>0 DEF Typed, TypeOK
    <3>2. Committed(rows[W.h], told) \in Rows
      BY <2>1, <3>1
    <3> QED BY <2>2, <3>1, <3>2
  <2> DEFINE s == [NextHandoff EXCEPT !.pc = "replies", !.h = W.h]
  <2>4. s \in Sessions /\ Sound(s)
    BY <1>0, Blank DEF Sessions, PCs, Deciding, Aimless, Sound
  <2>5. sess' \in [Actors -> Sessions] /\ Intent'
    BY <1>0, <1>6, <2>4, OneSession DEF CommitEffects
  <2> QED BY <1>6, <2>3, <2>5 DEF CommitEffects, Typed, TypeOK
<1> QED BY <1>2, <1>3, <1>4, <1>5, <1>6

-----------------------------------------------------------------------------
(* The reply's steps, and the whole. *)

LEMMA TypeReplies ==
    ASSUME Typed, CheckReplies \/ ReadMailbox \/ SpendReply \/ DecideLoad \/ RecordOutcome
    PROVE  Typed'
<1>0. Watcher \in Actors /\ W \in Sessions /\ Sound(W)
  BY WatcherSession
<1>h. /\ W.pc \notin Aimless /\ W.h \in Handoffs
      /\ rows[W.h].hist \in Histories /\ inbox[W.h] \in {"none"} \cup Verdicts
  <2>1. W.pc \notin Aimless
    BY DEF CheckReplies, ReadMailbox, SpendReply, DecideLoad, RecordOutcome, At, W, Aimless
  <2> QED BY <1>0, <2>1 DEF Sound, Typed, TypeOK, Rows
<1>1. CASE CheckReplies
  <2>1. CASE EmailReplies /\ AwaitingReply(rows[W.h])
    <3> DEFINE s == [W EXCEPT !.pc = "imap", !.hist = rows[W.h].hist, !.entered = {}]
    <3>1. s \in Sessions /\ Sound(s)
      BY <1>0, <1>1, <1>h, <2>1 DEF Sessions, PCs, Deciding, Aimless, Sound
    <3>2. sess' \in [Actors -> Sessions] /\ Intent'
      BY <1>0, <1>1, <2>1, <3>1, OneSession DEF CheckReplies, W
    <3> QED BY <1>1, <3>2 DEF CheckReplies, Typed, TypeOK
  <2>2. CASE ~(EmailReplies /\ AwaitingReply(rows[W.h]))
    <3>1. sess' \in [Actors -> Sessions] /\ Intent'
      BY <1>1, <2>2, BackToNext DEF CheckReplies
    <3> QED BY <1>1, <3>1 DEF CheckReplies, Typed, TypeOK
  <2> QED BY <2>1, <2>2
<1>2. CASE ReadMailbox
  <2>1. sess' \in [Actors -> Sessions] /\ Intent'
    <3>1. CASE sess' = [sess EXCEPT ![Watcher] = NextHandoff]
      BY <3>1, BackToNext
    <3>2. CASE inbox[W.h] # "none" /\ sess' = [sess EXCEPT ![Watcher] = [@ EXCEPT !.pc = "spend", !.state = inbox[W.h]]]
      <4> DEFINE s == [W EXCEPT !.pc = "spend", !.state = inbox[W.h]]
      <4>1. s \in Sessions /\ Sound(s)
        BY <1>0, <1>h, <3>2 DEF Sessions, PCs, Outcomes, Sound
      <4> QED BY <1>0, <3>2, <4>1, OneSession DEF W
    <3> QED BY <1>2, <3>1, <3>2 DEF ReadMailbox
  <2> QED BY <1>2, <2>1 DEF ReadMailbox, Typed, TypeOK
<1>3. CASE SpendReply
  <2>1. [W.hist EXCEPT !.reply = "pending"] \in Histories
    BY <1>0 DEF Sessions, Histories, Outcomes
  <2>2. rows' \in [Handoffs -> Rows]
    BY <1>3, <2>1, RowsWithHist DEF SpendReply, Typed, TypeOK
  <2>3. sess' \in [Actors -> Sessions] /\ Intent'
    BY <1>0, <1>3, <1>h, StepType DEF SpendReply, At, W, PCs, Deciding, Sound
  <2> QED BY <1>3, <2>2, <2>3 DEF SpendReply, Typed, TypeOK
<1>4. CASE DecideLoad
  <2>1. sess' \in [Actors -> Sessions] /\ Intent'
    <3> DEFINE s == IF Decidable(W.h) THEN [W EXCEPT !.pc = "check", !.hist = rows[W.h].hist]
                    ELSE [W EXCEPT !.pc = "outcome", !.hist = rows[W.h].hist, !.state = "already_decided"]
    <3>1. s \in Sessions /\ Sound(s)
      BY <1>0, <1>4, <1>h DEF DecideLoad, At, W, Sessions, PCs, Outcomes, Deciding, Aimless, Sound
    <3>2. sess' = [sess EXCEPT ![Watcher] = s]
      BY <1>4 DEF DecideLoad, W
    <3> HIDE DEF s
    <3> QED BY <1>0, <3>1, <3>2, OneSession
  <2>2. effects' \in [Handoffs -> Traces]
    <3>1. ASSUME NEW t \in Traces PROVE [t EXCEPT !.replies = @ + 1] \in Traces
      BY DEF Traces
    <3> QED BY <1>4, <3>1 DEF DecideLoad, Typed, TypeOK
  <2> QED BY <1>4, <2>1, <2>2 DEF DecideLoad, Typed, TypeOK
<1>5. CASE RecordOutcome
  <2>1. [W.hist EXCEPT !.reply = IF @ = "none" THEN "none" ELSE W.state] \in Histories
    BY <1>0 DEF Sessions, Histories, Outcomes
  <2>2. rows' \in [Handoffs -> Rows]
    BY <1>5, <2>1, RowsWithHist DEF RecordOutcome, Typed, TypeOK
  <2>3. sess' \in [Actors -> Sessions] /\ Intent'
    BY <1>5, BackToNext DEF RecordOutcome
  <2> QED BY <1>5, <2>2, <2>3 DEF RecordOutcome, Typed, TypeOK
<1> QED BY <1>1, <1>2, <1>3, <1>4, <1>5

LEMMA TypeInit == Init => Typed
<1> SUFFICES ASSUME Init PROVE Typed
  OBVIOUS
<1> USE DEF Init
<1>1. gh \in Truths
  BY ReleaseAssumption DEF Truths, RunStates, JobStates, Gates, Channels, Ages
<1>2. rows \in [Handoffs -> Rows] /\ sess \in [Actors -> Sessions] /\ seen \in Reads
  BY Blank
<1>3. effects \in [Handoffs -> Traces]
  BY DEF Traces
<1>4. Intent
  BY DEF Intent, NoSession, Deciding, Aimless, Sound
<1>5. crashes \in 0 .. MaxCrashes
  BY ReleaseAssumption
<1> QED BY <1>1, <1>2, <1>3, <1>4, <1>5 DEF Typed, TypeOK

LEMMA TypeNext == Typed /\ [Next]_vars => Typed'
<1> SUFFICES ASSUME Typed, [Next]_vars PROVE Typed'
  OBVIOUS
<1>1. CASE GitHub \/ PassTime
  BY <1>1, TypeGitHub DEF Typed, Intent
<1>2. CASE Start
  BY <1>2, TypeStart DEF Start
<1>3. CASE Decide
  BY <1>3, TypeRequest, TypeDecide DEF Decide
<1>4. CASE Reply
  <2>1. PICK h \in Handoffs, v \in Verdicts : OwnerReplies(h, v)
    BY <1>4 DEF Reply
  <2> QED BY <2>1 DEF OwnerReplies, Typed, TypeOK, Intent
<1>5. CASE Tick
  BY <1>5, TypeReads, TypeAwait, TypeAdvance, TypeEffects, TypeReplies, TypeDecide DEF Tick
<1>6. CASE Unavailable
  BY <1>6, TypeReads
<1>7. CASE Crash
  <2>1. crashes' \in 0 .. MaxCrashes
    BY <1>7, ReleaseAssumption DEF Crash, Typed, TypeOK
  <2>2. sess' \in [Actors -> Sessions] /\ seen' \in Reads /\ Intent'
    BY <1>7, Blank DEF Crash, Intent, NoSession, Deciding, Aimless, Sound
  <2> QED BY <1>7, <2>1, <2>2 DEF Crash, Typed, TypeOK
<1>8. CASE UNCHANGED vars
  BY <1>8 DEF vars, Typed, TypeOK, Intent
<1> QED BY <1>1, <1>2, <1>3, <1>4, <1>5, <1>6, <1>7, <1>8 DEF Next

\* Rows, sessions, GitHub's facts and effects keep the types of the columns,
\* threads and facts they stand for, in every reachable state.
THEOREM TypeCorrect == Spec => []TypeOK
<1>1. Typed => TypeOK
  BY DEF Typed
<1> QED BY <1>1, TypeInit, TypeNext, PTL DEF Spec

-----------------------------------------------------------------------------
(* What is on record of a decision is what GitHub took.  The invariant says  *)
(* so of the copies of the history that the threads hold as well, because    *)
(* they are written back whole, and of the verdict a thread is about to      *)
(* record.                                                                   *)

Sincere(x, g) ==
    /\ x.decision # "none" => g.gate = x.decision /\ g.by = x.via
    /\ x.reply \in Verdicts => g.gate = x.reply /\ g.by = "email"
Honest(a, s, g) ==
    /\ Sincere(s.hist, g)
    /\ s.pc = "record" => g.gate = s.state /\ g.by = Via(a)
    /\ a = Watcher /\ s.pc = "outcome" /\ s.state \in Verdicts => g.gate = s.state /\ g.by = "email"
SincereRows == \A h \in Handoffs : Sincere(rows[h].hist, gh)
HonestThreads == \A a \in Actors : Honest(a, sess[a], gh)
GateOpened == gh.gate # "closed" => gh.run # "none" /\ gh.jobs["testpypi"] = "success"
Agreed == GateOpened /\ SincereRows /\ HonestThreads

\* The gate opens when TestPyPI has succeeded, and that job does not end again.
LEMMA GateOpenedNext ==
    ASSUME Typed, GateOpened, GitHub \/ PassTime \/ (\E a \in Actors : DecidePost(a)) \/ UNCHANGED gh
    PROVE  GateOpened'
<1>0. gh \in Truths
  BY DEF Typed, TypeOK
<1> USE DEF GateOpened
<1>1. CASE PushTag \/ RunStarts \/ PypiStarts
  <2>1. CASE PushTag
    BY <1>0, <2>1 DEF PushTag, Truths
  <2>2. CASE RunStarts
    BY <1>0, <2>2 DEF RunStarts, Truths, Roles
  <2>3. CASE PypiStarts
    BY <1>0, <2>3 DEF PypiStarts, Truths, Roles
  <2> QED BY <1>1, <2>1, <2>2, <2>3
<1>2. CASE RunEnds
  <2>1. PICK ended \in RunStates, jobs \in [Roles -> JobStates], gate \in Gates :
          /\ ended # "none"
          /\ gh' = [gh EXCEPT !.run = ended, !.gate = gate, !.jobs = jobs]
          /\ gate # "closed" => gate = gh.gate
          /\ gh.jobs["testpypi"] = "success" => jobs["testpypi"] = "success"
    <3>1. CASE gh' = [gh EXCEPT !.run = "success"] \/ gh' = [gh EXCEPT !.run = "failure"]
      <4>1. {"success", "failure"} \subseteq RunStates
        BY DEF RunStates
      <4>2. ASSUME NEW ended, gh' = [gh EXCEPT !.run = ended]
            PROVE  /\ gh' = [gh EXCEPT !.run = ended, !.gate = gh.gate, !.jobs = gh.jobs]
                   /\ gh.gate \in Gates /\ gh.jobs \in [Roles -> JobStates]
        BY <1>0, <4>2 DEF Truths
      <4> QED BY <3>1, <4>1, <4>2
    <3>2. CASE gh' = [gh EXCEPT !.run = "cancelled",
                                !.gate = IF @ = "pending" THEN "closed" ELSE @,
                                !.jobs = [r \in Roles |-> IF @[r] \in {"queued", "in_progress"}
                                                          THEN "cancelled" ELSE @[r]]]
      <4> DEFINE jobs == [r \in Roles |-> IF gh.jobs[r] \in {"queued", "in_progress"}
                                          THEN "cancelled" ELSE gh.jobs[r]]
                 gate == IF gh.gate = "pending" THEN "closed" ELSE gh.gate
      <4>1. "cancelled" \in RunStates /\ jobs \in [Roles -> JobStates] /\ gate \in Gates
        BY <1>0 DEF RunStates, JobStates, Gates, Truths
      <4>2. gh.jobs["testpypi"] = "success" => jobs["testpypi"] = "success"
        BY DEF Roles
      <4>3. gh' = [gh EXCEPT !.run = "cancelled", !.gate = gate, !.jobs = jobs]
        BY <3>2
      <4>4. gate # "closed" => gate = gh.gate
        OBVIOUS
      <4> HIDE DEF jobs, gate
      <4> QED BY <4>1, <4>2, <4>3, <4>4
    <3> QED BY <1>2, <3>1, <3>2 DEF RunEnds
  <2>2. gh'.gate = gate /\ gh'.run = ended /\ gh'.jobs = jobs
    BY <1>0, <2>1 DEF Truths
  <2> QED BY <2>1, <2>2
<1>3. ASSUME NEW r \in Roles, JobSucceeds(r) \/ JobFails(r) PROVE GateOpened'
  <2>1. CASE JobFails(r)
    BY <1>0, <2>1 DEF JobFails, Truths, Roles
  <2>2. CASE JobSucceeds(r)
    <3>1. CASE r = "testpypi"
      BY <1>0, <2>2, <3>1 DEF JobSucceeds, Truths, Roles
    <3>2. CASE r = "pypi"
      BY <1>0, <2>2, <3>2 DEF JobSucceeds, Truths, Roles
    <3>3. CASE r \notin {"testpypi", "pypi"}
      BY <1>0, <2>2, <3>3 DEF JobSucceeds, Truths, Roles
    <3> QED BY <3>1, <3>2, <3>3
  <2> QED BY <1>3, <2>1, <2>2
<1>4. ASSUME NEW v \in Verdicts, OwnerDecides(v) PROVE GateOpened'
  BY <1>0, <1>4 DEF OwnerDecides, Truths
<1>5. CASE PassTime
  BY <1>0, <1>5 DEF PassTime, Truths
<1>6. ASSUME NEW a \in Actors, DecidePost(a) PROVE GateOpened'
  BY <1>0, <1>6 DEF DecidePost, Truths
<1>7. CASE UNCHANGED gh
  BY <1>7
<1> QED BY <1>1, <1>2, <1>3, <1>4, <1>5, <1>6, <1>7 DEF GitHub

\* GitHub takes one decision: a gate that was decided keeps its verdict and
\* the channel it came through.
LEMMA GateStays ==
    ASSUME Typed, GateOpened, GitHub \/ PassTime \/ (\E a \in Actors : DecidePost(a)), gh.gate \in Verdicts
    PROVE  gh'.gate = gh.gate /\ gh'.by = gh.by
<1>0. gh \in Truths /\ gh.gate # "pending" /\ gh.run # "none" /\ gh.jobs["testpypi"] = "success"
  BY DEF GateOpened, Typed, TypeOK, Verdicts
<1>1. CASE PushTag \/ RunStarts \/ PypiStarts
  BY <1>0, <1>1 DEF PushTag, RunStarts, PypiStarts, Truths
<1>2. CASE RunEnds
  BY <1>0, <1>2 DEF RunEnds, Truths
<1>3. ASSUME NEW r \in Roles, JobSucceeds(r) \/ JobFails(r) PROVE gh'.gate = gh.gate /\ gh'.by = gh.by
  <2>1. CASE JobFails(r)
    BY <1>0, <2>1 DEF JobFails, Truths
  <2>2. CASE JobSucceeds(r)
    <3>1. r # "testpypi"
      BY <1>0, <2>2 DEF JobSucceeds
    <3> QED BY <1>0, <2>2, <3>1 DEF JobSucceeds, Truths
  <2> QED BY <1>3, <2>1, <2>2
<1>4. ASSUME NEW v \in Verdicts, OwnerDecides(v) PROVE FALSE
  BY <1>0, <1>4 DEF OwnerDecides
<1>5. CASE PassTime
  BY <1>0, <1>5 DEF PassTime, Truths
<1>6. ASSUME NEW a \in Actors, DecidePost(a) PROVE gh'.gate = gh.gate /\ gh'.by = gh.by
  BY <1>0, <1>6 DEF DecidePost
<1> QED BY <1>1, <1>2, <1>3, <1>4, <1>5, <1>6 DEF GitHub

\* What was sincere stays so when only GitHub moves.
LEMMA SincereStays ==
    ASSUME Typed, GateOpened, GitHub \/ PassTime \/ (\E a \in Actors : DecidePost(a)),
           NEW x \in Histories, Sincere(x, gh)
    PROVE  Sincere(x, gh')
<1>1. x.decision # "none" => x.decision \in Verdicts
  BY DEF Histories
<1> QED BY <1>1, GateStays DEF Sincere

\* A write of one row that leaves GitHub and the threads' copies alone.
LEMMA OneSincere ==
    ASSUME Typed, SincereRows, gh' = gh, NEW h, NEW row, Sincere(row.hist, gh), rows' = [rows EXCEPT ![h] = row]
    PROVE  SincereRows'
BY DEF SincereRows, Typed, TypeOK

LEMMA OneHonest ==
    ASSUME Typed, HonestThreads, gh' = gh, NEW a \in Actors, NEW s, Honest(a, s, gh), sess' = [sess EXCEPT ![a] = s]
    PROVE  HonestThreads'
BY DEF HonestThreads, Typed, TypeOK

\* A thread that holds the same history and is neither recording nor reporting.
LEMMA QuietHonest ==
    ASSUME NEW a, NEW s, Sincere(s.hist, gh), s.pc \notin {"record", "outcome"}
    PROVE  Honest(a, s, gh)
BY DEF Honest

LEMMA AddStages ==
    ASSUME NEW x \in Histories, NEW S, Sincere(x, gh)
    PROVE  Sincere([x EXCEPT !.stages = @ \cup S], gh)
BY DEF Sincere, Histories

LEMMA BlankHonest == /\ Sincere(NoHistory, gh)
                     /\ \A a : Honest(a, NoSession, gh) /\ Honest(a, NextHandoff, gh)
BY DEF Sincere, Honest, NoHistory, NoSession, NextHandoff, Verdicts

\* Steps that write neither a history nor a verdict: the row and the thread keep theirs.
LEMMA QuietNext ==
    ASSUME Typed, Agreed, gh' = gh,
           \A h \in Handoffs : rows'[h].hist = rows[h].hist,
           NEW s \in Sessions, s.hist \in {W.hist, NoHistory}, s.pc \notin {"record", "outcome"},
           sess' = [sess EXCEPT ![Watcher] = s]
    PROVE  Agreed'
<1>1. Watcher \in Actors /\ Sincere(W.hist, gh)
  BY DEF Actors, Agreed, HonestThreads, Honest, W
<1>2. Honest(Watcher, s, gh)
  BY <1>1, BlankHonest, QuietHonest
<1>3. HonestThreads'
  BY <1>1, <1>2, OneHonest DEF Agreed
<1> QED BY <1>3 DEF Agreed, SincereRows, GateOpened

LEMMA RowHist == ASSUME NEW row \in Rows
                 PROVE  /\ \A x : [row EXCEPT !.hist = x].hist = x
                        /\ \A told : Committed(row, told).hist = row.hist
                        /\ \A b : [row EXCEPT !.run = b].hist = row.hist
                        /\ \A x, why : Failed(row, x, why).hist = [x EXCEPT !.stages = @ \cup {"failed"}]
                        /\ FirstSight(row).hist = [W.hist EXCEPT !.stages = @ \cup {"tagged"}]
BY DEF Rows, Committed, Failed, FirstSight

\* The clock changes nothing of a row but its ages.
LEMMA Aged ==
    ASSUME Typed, PassTime, NEW h \in Handoffs
    PROVE  /\ Active(h) \/ rows'[h] = rows[h]
           /\ rows'[h].stage = rows[h].stage /\ rows'[h].failure = rows[h].failure
           /\ rows'[h].run = rows[h].run /\ rows'[h].hist = rows[h].hist
           /\ rows'[h].after = rows[h].after
<1>1. rows[h] \in Rows
  BY DEF Typed, TypeOK
<1> DEFINE aged == [rows[h] EXCEPT !.createdAge = Older(@), !.stageAge = Older(@), !.taggedAge = Older(@)]
<1>2. /\ aged.stage = rows[h].stage /\ aged.failure = rows[h].failure
      /\ aged.run = rows[h].run /\ aged.hist = rows[h].hist /\ aged.after = rows[h].after
  BY <1>1 DEF Rows
<1>3. rows'[h] = IF Active(h) THEN aged ELSE rows[h]
  BY DEF PassTime
<1> HIDE DEF aged
<1> QED BY <1>2, <1>3

\* GitHub's steps, the clock and the posting of a review.
LEMMA AgreedGitHub ==
    ASSUME Typed, Agreed, GitHub \/ PassTime PROVE Agreed'
<1>1. sess' = sess /\ \A h \in Handoffs : rows'[h].hist = rows[h].hist
  <2>1. CASE GitHub
    BY <2>1 DEF GitHub, PushTag, RunStarts, PypiStarts, RunEnds, JobSucceeds, JobFails, OwnerDecides, OnlyGitHub
  <2>2. CASE PassTime
    BY <2>2, Aged DEF PassTime
  <2> QED BY <2>1, <2>2
<1>2. GateOpened'
  BY GateOpenedNext DEF Agreed
<1>3. SincereRows'
  <2> SUFFICES ASSUME NEW h \in Handoffs PROVE Sincere(rows'[h].hist, gh')
    BY DEF SincereRows
  <2>1. rows[h].hist \in Histories /\ Sincere(rows[h].hist, gh)
    BY DEF Agreed, SincereRows, Typed, TypeOK, Rows
  <2> QED BY <1>1, <2>1, SincereStays DEF Agreed
<1>4. HonestThreads'
  <2> SUFFICES ASSUME NEW a \in Actors PROVE Honest(a, sess[a], gh')
    BY <1>1 DEF HonestThreads
  <2>1. /\ sess[a].hist \in Histories /\ Honest(a, sess[a], gh)
        /\ sess[a].pc = "record" => sess[a].state \in Verdicts
    BY DEF Agreed, HonestThreads, Typed, TypeOK, Sessions, Intent, Sound, Deciding
  <2>2. Sincere(sess[a].hist, gh')
    BY <2>1, SincereStays DEF Agreed, Honest
  <2>3. gh.gate \in Verdicts => gh'.gate = gh.gate /\ gh'.by = gh.by
    BY GateStays DEF Agreed
  <2> QED BY <2>1, <2>2, <2>3 DEF Honest
<1> QED BY <1>2, <1>3, <1>4 DEF Agreed

LEMMA AgreedStart ==
    ASSUME Typed, Agreed, NEW a \in Starters, StartCheck(a) \/ StartInsert(a) PROVE Agreed'
<1>0. a \in Actors /\ sess[a] \in Sessions /\ Honest(a, sess[a], gh)
  BY DEF Actors, Typed, TypeOK, Agreed, HonestThreads
<1>1. CASE StartCheck(a)
  <2>1. Honest(a, [sess[a] EXCEPT !.pc = "insert", !.h = Cardinality(Created)], gh)
    BY <1>0 DEF Honest, Sessions
  <2>2. HonestThreads'
    BY <1>0, <1>1, <2>1, OneHonest DEF StartCheck, Agreed
  <2> QED BY <1>1, <2>2 DEF StartCheck, Agreed, SincereRows, GateOpened
<1>2. CASE StartInsert(a)
  <2>1. PICK task \in BOOLEAN :
          rows' = [rows EXCEPT ![NextRow] = [NoRow EXCEPT !.stage = "requested", !.task = task,
                                                          !.hist.stages = {"requested"},
                                                          !.after = sess[a].h]]
    BY <1>2 DEF StartInsert
  <2> DEFINE row == [NoRow EXCEPT !.stage = "requested", !.task = task, !.hist.stages = {"requested"},
                                  !.after = sess[a].h]
  <2>2. Sincere(row.hist, gh)
    BY DEF NoRow, NoHistory, Sincere, Verdicts
  <2>3. SincereRows'
    BY <1>2, <2>1, <2>2, OneSincere DEF StartInsert, Agreed
  <2>4. HonestThreads'
    BY <1>0, <1>2, BlankHonest, OneHonest DEF StartInsert, Agreed
  <2> QED BY <1>2, <2>3, <2>4 DEF StartInsert, Agreed, GateOpened
<1> QED BY <1>1, <1>2

LEMMA AgreedDecide ==
    ASSUME Typed, Agreed, NEW a \in {Watcher} \cup Deciders,
           DecideCheck(a) \/ DecidePost(a) \/ DecideRecord(a)
    PROVE  Agreed'
<1>0. a \in Actors /\ sess[a] \in Sessions /\ Honest(a, sess[a], gh) /\ Sincere(sess[a].hist, gh)
  BY DEF Actors, Typed, TypeOK, Agreed, HonestThreads, Honest
<1> DEFINE refused(outcome) == IF a = Watcher THEN [sess[a] EXCEPT !.pc = "outcome", !.state = outcome]
                               ELSE NoSession
           turned(pc) == [sess[a] EXCEPT !.pc = pc]
<1>1. ASSUME NEW outcome \in {"already_decided", "error"}
      PROVE  Honest(a, refused(outcome), gh) /\ Sincere(refused(outcome).hist, gh)
  BY <1>0, BlankHonest DEF Honest, Sessions, Verdicts
<1>2. CASE DecideCheck(a)
  <2>1. \E s : Honest(a, s, gh) /\ sess' = [sess EXCEPT ![a] = s]
    <3>1. CASE sess' = [sess EXCEPT ![a].pc = "post"]
      BY <1>0, <3>1 DEF Honest, Sessions
    <3>2. ASSUME NEW outcome \in {"already_decided", "error"}, Answer(a, outcome)
          PROVE  \E s : Honest(a, s, gh) /\ sess' = [sess EXCEPT ![a] = s]
      BY <1>1, <3>2 DEF Answer
    <3> QED BY <1>2, <3>1, <3>2 DEF DecideCheck
  <2>2. HonestThreads'
    BY <1>0, <1>2, <2>1, OneHonest DEF DecideCheck, Agreed
  <2> QED BY <1>2, <2>2 DEF DecideCheck, Agreed, SincereRows, GateOpened
<1>3. CASE DecidePost(a)
  <2>1. GateOpened' /\ (gh.gate \in Verdicts => gh'.gate = gh.gate /\ gh'.by = gh.by)
    BY <1>0, <1>3, GateOpenedNext, GateStays DEF Agreed
  <2>2. SincereRows'
    <3> SUFFICES ASSUME NEW h \in Handoffs PROVE Sincere(rows[h].hist, gh')
      BY <1>3 DEF SincereRows, DecidePost
    <3>1. rows[h].hist \in Histories /\ Sincere(rows[h].hist, gh)
      BY DEF Agreed, SincereRows, Typed, TypeOK, Rows
    <3> QED BY <1>0, <1>3, <3>1, SincereStays DEF Agreed
  <2>3. ASSUME NEW b \in Actors PROVE Honest(b, sess[b], gh')
    <3>1. /\ sess[b].hist \in Histories /\ Honest(b, sess[b], gh)
          /\ sess[b].pc = "record" => sess[b].state \in Verdicts
      BY DEF Agreed, HonestThreads, Typed, TypeOK, Sessions, Intent, Sound, Deciding
    <3>2. Sincere(sess[b].hist, gh')
      BY <1>0, <1>3, <3>1, SincereStays DEF Agreed, Honest
    <3> QED BY <2>1, <3>1, <3>2 DEF Honest
  <2>4. \E s : Honest(a, s, gh') /\ sess' = [sess EXCEPT ![a] = s]
    <3>1. ASSUME sess' = [sess EXCEPT ![a].pc = "record"], gh' = [gh EXCEPT !.gate = sess[a].state, !.by = Via(a)]
          PROVE  Honest(a, turned("record"), gh')
      <4>1. gh'.gate = sess[a].state /\ gh'.by = Via(a)
        BY <3>1 DEF Typed, TypeOK, Truths
      <4> QED BY <1>0, <2>3, <4>1 DEF Honest, Sessions
    <3>2. ASSUME NEW outcome \in {"already_decided", "error"}
          PROVE  Honest(a, refused(outcome), gh')
      <4>1. CASE a = Watcher
        BY <1>0, <2>3, <4>1 DEF Honest, Sessions, Verdicts
      <4>2. CASE a # Watcher
        BY <4>2 DEF Honest, Sincere, NoSession, NoHistory, Verdicts
      <4> QED BY <4>1, <4>2
    <3>3. CASE Answer(a, "error")
      BY <3>2, <3>3 DEF Answer
    <3> QED BY <1>3, <3>1, <3>3 DEF DecidePost
  <2>5. HonestThreads'
    BY <1>0, <2>3, <2>4 DEF HonestThreads, Typed, TypeOK
  <2> QED BY <2>1, <2>2, <2>5 DEF Agreed
<1>4. CASE DecideRecord(a)
  <2>1. /\ sess[a].state \in Verdicts /\ gh.gate = sess[a].state /\ gh.by = Via(a)
        /\ sess[a].hist \in Histories
    BY <1>0, <1>4 DEF DecideRecord, At, Honest, Sessions, Typed, Intent, Sound, Deciding
  <2>2. Sincere(WithDecision(a), gh)
    BY <1>0, <2>1 DEF WithDecision, Sincere, Histories
  <2>3. SincereRows'
    <3> SUFFICES ASSUME NEW h \in Handoffs PROVE Sincere(rows'[h].hist, gh)
      BY <1>4 DEF SincereRows, DecideRecord
    <3>1. rows[h] \in Rows /\ Sincere(rows[h].hist, gh)
      BY DEF Agreed, SincereRows, Typed, TypeOK
    <3>2. CASE h = sess[a].h
      BY <1>4, <2>2, <3>1, <3>2 DEF DecideRecord, Typed, TypeOK, Rows
    <3>3. CASE h # sess[a].h
      BY <1>4, <3>1, <3>3 DEF DecideRecord, Typed, TypeOK
    <3> QED BY <3>2, <3>3
  <2>4. \E s : Honest(a, s, gh) /\ sess' = [sess EXCEPT ![a] = s]
    <3>1. CASE a = Watcher
      <4> DEFINE s == [sess[a] EXCEPT !.pc = "outcome", !.hist = WithDecision(a)]
      <4>1. s.hist = WithDecision(a) /\ s.state = sess[a].state /\ s.pc = "outcome"
        BY <1>0 DEF Sessions
      <4>2. Honest(a, s, gh)
        BY <2>1, <2>2, <3>1, <4>1 DEF Honest, Via
      <4> QED BY <1>4, <3>1, <4>2 DEF DecideRecord
    <3>2. CASE a # Watcher
      BY <1>4, <3>2, BlankHonest DEF DecideRecord
    <3> QED BY <3>1, <3>2
  <2>5. HonestThreads'
    BY <1>0, <1>4, <2>4, OneHonest DEF DecideRecord, Agreed
  <2> QED BY <1>4, <2>3, <2>5 DEF DecideRecord, Agreed, GateOpened
<1> QED BY <1>2, <1>3, <1>4

LEMMA AgreedRequest ==
    ASSUME Typed, Agreed, NEW a \in Deciders, NEW h \in Handoffs, NEW v \in Verdicts, RequestDecision(a, h, v)
    PROVE  Agreed'
<1> DEFINE s == [sess[a] EXCEPT !.pc = "check", !.h = h, !.state = v, !.hist = rows[h].hist]
<1>1. a \in Actors /\ sess[a] \in Sessions /\ Sincere(rows[h].hist, gh)
  BY DEF Actors, Typed, TypeOK, Agreed, SincereRows
<1>2. Honest(a, s, gh)
  BY <1>1 DEF Honest, Sessions
<1>3. HonestThreads'
  BY <1>1, <1>2, OneHonest DEF RequestDecision, Agreed
<1> QED BY <1>3 DEF RequestDecision, Agreed, SincereRows, GateOpened

LEMMA AgreedReads ==
    ASSUME Typed, Agreed,
           TickStart \/ TakeHandoff \/ FindRun \/ GetRun \/ ReadJobs \/ ReadPending \/ Unavailable
    PROVE  Agreed'
<1>0. W \in Sessions /\ NextHandoff \in Sessions /\ NoSession \in Sessions
  BY WatcherSession, Blank
<1>1. CASE TakeHandoff /\ todo # {}
  <2>1. PICK h \in Handoffs :
          sess' = [sess EXCEPT ![Watcher] =
                     [NoSession EXCEPT !.pc = IF rows[h].run THEN "get" ELSE "find",
                                       !.h = h, !.hist = rows[h].hist]]
    BY <1>1 DEF TakeHandoff, Typed, TypeOK
  <2> DEFINE s == [NoSession EXCEPT !.pc = IF rows[h].run THEN "get" ELSE "find",
                                    !.h = h, !.hist = rows[h].hist]
  <2>2. Honest(Watcher, s, gh)
    BY QuietHonest DEF Agreed, SincereRows, NoSession
  <2>3. HonestThreads'
    BY <1>1, <2>1, <2>2, WatcherSession, OneHonest DEF TakeHandoff, Agreed
  <2> QED BY <1>1, <2>3 DEF TakeHandoff, Agreed, SincereRows, GateOpened
<1>2. CASE ~(TakeHandoff /\ todo # {})
  <2>1. gh' = gh /\ rows' = rows
    BY <1>2 DEF TickStart, TakeHandoff, FindRun, GetRun, ReadJobs, ReadPending, Unavailable
  <2>2. \E s \in Sessions : /\ s.hist \in {W.hist, NoHistory} /\ s.pc \notin {"record", "outcome"}
                            /\ sess' = [sess EXCEPT ![Watcher] = s]
    <3>1. \/ \E pc \in {"next", "await", "jobs", "pending", "advance"} : Step(pc)
          \/ sess' = [sess EXCEPT ![Watcher] = NextHandoff]
          \/ sess' = [sess EXCEPT ![Watcher] = NoSession]
      BY <1>2 DEF TickStart, TakeHandoff, FindRun, GetRun, ReadJobs, ReadPending, Unavailable
    <3>2. ASSUME NEW pc \in {"next", "await", "jobs", "pending", "advance"}, Step(pc)
          PROVE  \E s \in Sessions : /\ s.hist \in {W.hist, NoHistory} /\ s.pc \notin {"record", "outcome"}
                                     /\ sess' = [sess EXCEPT ![Watcher] = s]
      <4> DEFINE s == [W EXCEPT !.pc = pc]
      <4>1. s \in Sessions /\ s.hist = W.hist /\ s.pc = pc /\ sess' = [sess EXCEPT ![Watcher] = s]
        BY <1>0, <3>2 DEF Step, W, Sessions, PCs
      <4> QED BY <4>1
    <3>3. NextHandoff.hist = NoHistory /\ NoSession.hist = NoHistory
          /\ NextHandoff.pc = "next" /\ NoSession.pc = "idle"
      BY DEF NextHandoff, NoSession
    <3> QED BY <1>0, <3>1, <3>2, <3>3
  <2> QED BY <2>1, <2>2, QuietNext
<1> QED BY <1>1, <1>2

\* Every commit of process: the row keeps a sincere history, the watcher its copy.
LEMMA AgreedCommit ==
    ASSUME Typed, Agreed, NEW entered \in SUBSET Reached, NEW row, Sincere(row.hist, gh),
           rows' = rows \/ rows' = [rows EXCEPT ![W.h] = row], AfterCommit(entered)
    PROVE  Agreed'
<1> DEFINE s == [W EXCEPT !.pc = IF entered = {} THEN "replies" ELSE AfterEvents(entered), !.entered = entered]
<1>0. AfterEvents(entered) \notin {"record", "outcome"}
  BY DEF AfterEvents, AfterEffects
<1>1. s.hist = W.hist /\ s.pc \notin {"record", "outcome"} /\ Sincere(W.hist, gh) /\ Watcher \in Actors
  BY <1>0, WatcherSession DEF Sessions, Agreed, HonestThreads, Honest, W
<1>2. HonestThreads'
  BY <1>1, QuietHonest, OneHonest DEF AfterCommit, Agreed, W
<1>3. SincereRows'
  BY OneSincere DEF AfterCommit, Agreed, SincereRows
<1> QED BY <1>2, <1>3 DEF AfterCommit, Agreed, GateOpened

LEMMA AgreedAwait == ASSUME Typed, Agreed, AwaitRun PROVE Agreed'
<1>0. W.h \in Handoffs /\ W.hist \in Histories /\ Sincere(W.hist, gh)
  BY WatcherSession DEF AwaitRun, At, W, Sound, Aimless, Sessions, Agreed, HonestThreads, Honest
<1>1. rows[W.h] \in Rows
  BY <1>0 DEF Typed, TypeOK
<1>2. \E row : Sincere(row.hist, gh) /\ (rows' = rows \/ rows' = [rows EXCEPT ![W.h] = row])
  <2>1. ASSUME NEW why PROVE Sincere(Failed(rows[W.h], W.hist, why).hist, gh)
    <3>1. Failed(rows[W.h], W.hist, why).hist = [W.hist EXCEPT !.stages = @ \cup {"failed"}]
      BY <1>1, RowHist
    <3> QED BY <1>0, <3>1, AddStages
  <2>2. Sincere(FirstSight(rows[W.h]).hist, gh)
    BY <1>0, <1>1, RowHist, AddStages
  <2>3. \/ \E why \in {"no_run", "no_tag"} : rows' = [rows EXCEPT ![W.h] = Failed(rows[W.h], W.hist, why)]
        \/ rows' = [rows EXCEPT ![W.h] = FirstSight(rows[W.h])]
        \/ rows' = rows
    BY DEF AwaitRun
  <2>4. Sincere(rows[W.h].hist, gh)
    BY <1>0 DEF Agreed, SincereRows
  <2> QED BY <2>1, <2>2, <2>3, <2>4
<1>3. \E entered \in SUBSET Reached : AfterCommit(entered)
  BY DEF AwaitRun, Reached, Terminal
<1> QED BY <1>2, <1>3, AgreedCommit

LEMMA AdvancedHist ==
    ASSUME NEW row \in Rows, NEW x \in Histories, NEW S, Sincere(row.hist, gh), Sincere(x, gh)
    PROVE  LET r == [Advanced(row, x, S) EXCEPT !.run = TRUE] IN Sincere(r.hist, gh)
<1>1. CASE S = {}
  BY <1>1 DEF Advanced, Rows
<1>2. CASE S # {}
  <2>1. [Advanced(row, x, S) EXCEPT !.run = TRUE].hist = [x EXCEPT !.stages = @ \cup S]
    BY <1>2 DEF Advanced, Rows
  <2> QED BY <2>1, AddStages
<1> QED BY <1>1, <1>2

LEMMA AgreedAdvance == ASSUME Typed, Agreed, Advance PROVE Agreed'
<1>0. W.h \in Handoffs /\ W.hist \in Histories /\ Sincere(W.hist, gh)
  BY WatcherSession DEF Advance, At, W, Sound, Aimless, Sessions, Agreed, HonestThreads, Honest
<1>1. rows[W.h] \in Rows /\ Sincere(rows[W.h].hist, gh) /\ gh \in Truths
  BY <1>0 DEF Typed, TypeOK, Agreed, SincereRows
<1>2. PICK entered \in SUBSET (Facts \cup {"done"}), why \in Reasons :
        LET row == [Advanced(rows[W.h], W.hist, entered) EXCEPT !.run = TRUE] IN
        \/ rows' = [rows EXCEPT ![W.h] = row] /\ AfterCommit(entered)
        \/ /\ \E hist \in {W.hist, row.hist} : rows' = [rows EXCEPT ![W.h] = Failed(row, hist, why)]
           /\ AfterCommit(entered \cup {"failed"})
  BY AdvanceCommits
<1> DEFINE row == [Advanced(rows[W.h], W.hist, entered) EXCEPT !.run = TRUE]
<1>3. Sincere(row.hist, gh)
  BY <1>0, <1>1, AdvancedHist
<1>4. row \in Rows /\ row.hist \in Histories
  <2>1. Advanced(rows[W.h], W.hist, entered) \in Rows
    BY <1>0, <1>1, AdvancedType
  <2> QED BY <2>1 DEF Rows
<1>5. entered \in SUBSET Reached /\ entered \cup {"failed"} \in SUBSET Reached
  BY DEF Reached, Terminal
<1> HIDE DEF row
<1>6. CASE rows' = [rows EXCEPT ![W.h] = row] /\ AfterCommit(entered)
  BY <1>3, <1>5, <1>6, AgreedCommit
<1>7. ASSUME NEW hist \in {W.hist, row.hist}, rows' = [rows EXCEPT ![W.h] = Failed(row, hist, why)],
             AfterCommit(entered \cup {"failed"})
      PROVE  Agreed'
  <2>1. Sincere(Failed(row, hist, why).hist, gh)
    <3>1. Failed(row, hist, why).hist = [hist EXCEPT !.stages = @ \cup {"failed"}]
      BY <1>4, RowHist
    <3>2. hist \in Histories /\ Sincere(hist, gh)
      BY <1>0, <1>3, <1>4
    <3> QED BY <3>1, <3>2, AddStages
  <2> QED BY <1>5, <1>7, <2>1, AgreedCommit
<1> QED BY <1>2, <1>6, <1>7 DEF row

LEMMA AgreedEffects ==
    ASSUME Typed, Agreed, CompleteTask \/ WriteNote \/ CreateAdoption \/ Notify \/ CommitEffects
    PROVE  Agreed'
<1>0. W \in Sessions /\ NextHandoff \in Sessions
  BY WatcherSession, Blank
<1>1. gh' = gh
  BY DEF CompleteTask, WriteNote, CreateAdoption, Notify, CommitEffects
<1>2. \A h \in Handoffs : rows'[h].hist = rows[h].hist
  <2>1. CASE CommitEffects
    <3>1. PICK told : rows' = [rows EXCEPT ![W.h] = Committed(rows[W.h], told)]
      BY <2>1 DEF CommitEffects
    <3> QED BY <3>1, RowHist DEF Typed, TypeOK
  <2>2. CASE CreateAdoption
    <3>1. PICK n : rows' = [rows EXCEPT ![W.h].note = @ \/ (n = 1 /\ W.note)]
      BY <2>2 DEF CreateAdoption, W
    <3> QED BY <3>1 DEF Typed, TypeOK, Rows
  <2>3. CASE rows' = rows
    BY <2>3
  <2> QED BY <2>1, <2>2, <2>3 DEF CompleteTask, WriteNote, CreateAdoption, Notify, CommitEffects
<1> DEFINE Quiet(s) == s \in Sessions /\ s.hist \in {W.hist, NoHistory} /\ s.pc \notin {"record", "outcome"}
<1>3. \E s : Quiet(s) /\ sess' = [sess EXCEPT ![Watcher] = s]
  <2>1. ASSUME NEW pc \in PCs \ Deciding, pc # "outcome", Step(pc)
        PROVE  \E s : Quiet(s) /\ sess' = [sess EXCEPT ![Watcher] = s]
    <3> DEFINE s == [W EXCEPT !.pc = pc]
    <3>1. Quiet(s) /\ sess' = [sess EXCEPT ![Watcher] = s]
      BY <1>0, <2>1 DEF Step, W, Sessions, Deciding
    <3> QED BY <3>1
  <2>2. \A S : AfterEvents(S) \in PCs \ Deciding /\ AfterEvents(S) # "outcome"
              /\ AfterEffects(S) \in PCs \ Deciding /\ AfterEffects(S) # "outcome"
    BY DEF AfterEvents, AfterEffects, PCs, Deciding
  <2>4. CASE CompleteTask
    <3>1. "note" \in PCs \ Deciding
      BY DEF PCs, Deciding
    <3> QED BY <2>1, <2>4, <3>1 DEF CompleteTask
  <2>5. CASE WriteNote
    <3>1. PICK n : sess' = [sess EXCEPT ![Watcher] = [W EXCEPT !.pc = "adopt", !.note = (n = 1)]]
      BY <2>5 DEF WriteNote, W
    <3> DEFINE s == [W EXCEPT !.pc = "adopt", !.note = (n = 1)]
    <3>2. Quiet(s)
      BY <1>0 DEF Sessions, PCs
    <3> HIDE DEF Quiet
    <3> QED BY <3>1, <3>2
  <2>6. CASE CreateAdoption
    <3>1. PICK n : sess' = [sess EXCEPT ![Watcher] = [W EXCEPT !.pc = AfterEffects(W.entered), !.adoption = (n = 1)]]
      BY <2>6 DEF CreateAdoption, W
    <3> DEFINE s == [W EXCEPT !.pc = AfterEffects(W.entered), !.adoption = (n = 1)]
    <3>2. Quiet(s)
      BY <1>0, <2>2 DEF Sessions, Deciding
    <3> HIDE DEF Quiet
    <3> QED BY <3>1, <3>2
  <2>7. CASE Notify
    <3>1. CASE Step("commit")
      <4>1. "commit" \in PCs \ Deciding
        BY DEF PCs, Deciding
      <4> QED BY <2>1, <3>1, <4>1
    <3>2. CASE ~Step("commit")
      <4>1. PICK mail \in Deliveries : sess' = [sess EXCEPT ![Watcher] = [W EXCEPT !.pc = "commit", !.mail = mail]]
        BY <2>7, <3>2 DEF Notify, W, Deliveries
      <4> DEFINE s == [W EXCEPT !.pc = "commit", !.mail = mail]
      <4>2. Quiet(s)
        BY <1>0 DEF Sessions, PCs
      <4> HIDE DEF Quiet
      <4> QED BY <4>1, <4>2
    <3> QED BY <3>1, <3>2
  <2>8. CASE CommitEffects
    <3> DEFINE s == [NextHandoff EXCEPT !.pc = "replies", !.h = W.h]
    <3>1. s \in Sessions /\ s.hist = NoHistory /\ s.pc = "replies"
      BY <1>0, Blank DEF Sessions, PCs, NextHandoff, NoSession
    <3>2. sess' = [sess EXCEPT ![Watcher] = s]
      BY <2>8 DEF CommitEffects
    <3> QED BY <3>1, <3>2
  <2> QED BY <2>4, <2>5, <2>6, <2>7, <2>8
<1> QED BY <1>1, <1>2, <1>3, QuietNext

LEMMA AgreedReplies ==
    ASSUME Typed, Agreed, CheckReplies \/ ReadMailbox \/ SpendReply \/ DecideLoad \/ RecordOutcome
    PROVE  Agreed'
<1>0. /\ Watcher \in Actors /\ W \in Sessions /\ W.h \in Handoffs /\ Honest(Watcher, W, gh)
      /\ W.hist \in Histories /\ Sincere(W.hist, gh) /\ Sincere(rows[W.h].hist, gh) /\ rows[W.h] \in Rows
  <2>1. Watcher \in Actors /\ W \in Sessions /\ W.h \in Handoffs
    BY WatcherSession DEF CheckReplies, ReadMailbox, SpendReply, DecideLoad, RecordOutcome, At, W, Sound, Aimless
  <2> QED BY <2>1 DEF Agreed, SincereRows, HonestThreads, Honest, W, Sessions, Typed, TypeOK
<1>1. gh' = gh
  BY DEF CheckReplies, ReadMailbox, SpendReply, DecideLoad, RecordOutcome
<1>2. SincereRows'
  <2>1. CASE rows' = rows
    BY <1>1, <2>1 DEF Agreed, SincereRows
  <2>2. ASSUME NEW x, Sincere(x, gh), rows' = [rows EXCEPT ![W.h].hist = x] PROVE SincereRows'
    <3> DEFINE row == [rows[W.h] EXCEPT !.hist = x]
    <3>1. Sincere(row.hist, gh)
      BY <1>0, <2>2, RowHist
    <3>2. rows' = [rows EXCEPT ![W.h] = row]
      BY <2>2
    <3> HIDE DEF row
    <3> QED BY <1>1, <3>1, <3>2, OneSincere DEF Agreed
  <2>3. CASE SpendReply
    <3>1. Sincere([W.hist EXCEPT !.reply = "pending"], gh)
      BY <1>0 DEF Sincere, Histories, Verdicts
    <3> QED BY <2>2, <2>3, <3>1 DEF SpendReply
  <2>4. CASE RecordOutcome
    <3>1. W.pc = "outcome"
      BY <2>4 DEF RecordOutcome, At, W
    <3>2. Sincere([W.hist EXCEPT !.reply = IF @ = "none" THEN "none" ELSE W.state], gh)
      BY <1>0, <3>1 DEF Sincere, Histories, Verdicts, Honest
    <3> DEFINE x == [W.hist EXCEPT !.reply = IF @ = "none" THEN "none" ELSE W.state]
    <3>3. rows' = [rows EXCEPT ![W.h].hist = x] /\ Sincere(x, gh)
      BY <2>4, <3>2 DEF RecordOutcome
    <3> HIDE DEF x
    <3> QED BY <2>2, <3>3
  <2> QED BY <2>1, <2>3, <2>4 DEF CheckReplies, ReadMailbox, DecideLoad
<1>3. HonestThreads'
  <2>1. ASSUME NEW s, Honest(Watcher, s, gh), sess' = [sess EXCEPT ![Watcher] = s] PROVE HonestThreads'
    BY <1>0, <1>1, <2>1, OneHonest DEF Agreed
  <2>2. CASE sess' = [sess EXCEPT ![Watcher] = NextHandoff]
    BY <2>1, <2>2, BlankHonest
  <2>3. CASE CheckReplies
    <3> DEFINE s == [W EXCEPT !.pc = "imap", !.hist = rows[W.h].hist, !.entered = {}]
    <3>1. s.hist = rows[W.h].hist /\ s.pc = "imap"
      BY <1>0 DEF Sessions
    <3>2. Honest(Watcher, s, gh)
      BY <1>0, <3>1, QuietHonest
    <3>3. CASE sess' = [sess EXCEPT ![Watcher] = s]
      BY <2>1, <3>2, <3>3
    <3> QED BY <2>2, <2>3, <3>3 DEF CheckReplies, W
  <2>4. CASE ReadMailbox
    <3> DEFINE s == [W EXCEPT !.pc = "spend", !.state = inbox[W.h]]
    <3>1. s.hist = W.hist /\ s.pc = "spend"
      BY <1>0 DEF Sessions
    <3>2. Honest(Watcher, s, gh)
      BY <1>0, <3>1, QuietHonest
    <3>3. CASE sess' = [sess EXCEPT ![Watcher] = s]
      BY <2>1, <3>2, <3>3
    <3> QED BY <2>2, <2>4, <3>3 DEF ReadMailbox, W
  <2>5. CASE SpendReply
    <3> DEFINE s == [W EXCEPT !.pc = "load"]
    <3>1. s.hist = W.hist /\ s.pc = "load"
      BY <1>0 DEF Sessions
    <3>2. Honest(Watcher, s, gh)
      BY <1>0, <3>1, QuietHonest
    <3> QED BY <2>1, <2>5, <3>2 DEF SpendReply, Step, W
  <2>6. CASE DecideLoad
    <3> DEFINE s == IF Decidable(W.h) THEN [W EXCEPT !.pc = "check", !.hist = rows[W.h].hist]
                    ELSE [W EXCEPT !.pc = "outcome", !.hist = rows[W.h].hist, !.state = "already_decided"]
    <3>1. s.hist = rows[W.h].hist /\ s.pc # "record" /\ (s.pc = "outcome" => s.state \notin Verdicts)
      BY <1>0 DEF Sessions, Verdicts
    <3>2. sess' = [sess EXCEPT ![Watcher] = s]
      BY <2>6 DEF DecideLoad, W
    <3> HIDE DEF s
    <3>3. Honest(Watcher, s, gh)
      BY <1>0, <3>1 DEF Honest
    <3> QED BY <2>1, <3>2, <3>3
  <2>7. CASE RecordOutcome
    BY <2>2, <2>7 DEF RecordOutcome
  <2> QED BY <2>3, <2>4, <2>5, <2>6, <2>7
<1> QED BY <1>1, <1>2, <1>3 DEF Agreed, GateOpened

LEMMA AgreedInit == Init => Agreed
<1> SUFFICES ASSUME Init PROVE Agreed
  OBVIOUS
<1>1. GateOpened
  BY DEF Init, GateOpened
<1>2. SincereRows
  BY DEF Init, SincereRows, NoRow, NoHistory, Sincere, Verdicts
<1>3. HonestThreads
  BY BlankHonest DEF Init, HonestThreads
<1> QED BY <1>1, <1>2, <1>3 DEF Agreed

LEMMA AgreedNext == Typed /\ Agreed /\ [Next]_vars => Agreed'
<1> SUFFICES ASSUME Typed, Agreed, [Next]_vars PROVE Agreed'
  OBVIOUS
<1>1. CASE GitHub \/ PassTime
  BY <1>1, AgreedGitHub
<1>2. CASE Start
  BY <1>2, AgreedStart DEF Start
<1>3. CASE Decide
  BY <1>3, AgreedRequest, AgreedDecide DEF Decide
<1>4. CASE Reply \/ UNCHANGED vars
  BY <1>4 DEF Reply, OwnerReplies, vars, Agreed, SincereRows, HonestThreads, GateOpened
<1>5. CASE Tick
  BY <1>5, AgreedReads, AgreedAwait, AgreedAdvance, AgreedEffects, AgreedReplies, AgreedDecide DEF Tick
<1>6. CASE Unavailable
  BY <1>6, AgreedReads
<1>7. CASE Crash
  BY <1>7, BlankHonest DEF Crash, Agreed, SincereRows, HonestThreads, GateOpened
<1> QED BY <1>1, <1>2, <1>3, <1>4, <1>5, <1>6, <1>7 DEF Next

\* A decision on record is the one GitHub took, through the channel recorded,
\* however many requests, replies and crashes there are.
THEOREM DecisionCorrect == Spec => []DecisionIsGitHubs
<1>1. Agreed => DecisionIsGitHubs
  BY DEF Agreed, SincereRows, Sincere, DecisionIsGitHubs
<1> QED BY <1>1, TypeInit, TypeNext, AgreedInit, AgreedNext, PTL DEF Spec

\* An outcome of a reply that claims a verdict is GitHub's verdict, given by mail.
THEOREM OutcomeCorrect == Spec => []OutcomeIsGitHubs
<1>1. Agreed => OutcomeIsGitHubs
  BY DEF Agreed, SincereRows, Sincere, OutcomeIsGitHubs
<1> QED BY <1>1, TypeInit, TypeNext, AgreedInit, AgreedNext, PTL DEF Spec
=============================================================================
