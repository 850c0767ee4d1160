------------------------- MODULE ReleaseOnce_proofs -------------------------
(***************************************************************************)
(* What a handoff does once: handoffs of a tag overlap only by requests at *)
(* the same time; a reply is used once and gets its outcome.  The          *)
(* invariants here rest on IInv.                                           *)
(***************************************************************************)
EXTENDS ReleasePromise_proofs

-----------------------------------------------------------------------------
(* Handoffs of a tag that overlap.  start_handoff's check and its insert    *)
(* are two statements, and requests may stand between them: what a request  *)
(* has seen failed stays failed.                                            *)

Seen ==
    /\ \A g, h \in Handoffs : g <= rows[h].after => g < h /\ rows[g].stage = "failed"
    /\ \A a \in Starters : At(a, "insert") =>
         \A g \in Handoffs : g <= sess[a].h => rows[g].stage = "failed"

\* No step of another's brings a request between its check and its insert.
LEMMA Inserts ==
    ASSUME Typed, [Next]_vars, NEW b \in Starters, sess'[b].pc = "insert"
    PROVE  StartCheck(b) \/ (At(b, "insert") /\ sess'[b] = sess[b])
<1>0. /\ sess \in [Actors -> Sessions] /\ b \in Actors
      /\ b # Watcher /\ b \notin Deciders
  BY ReleaseAssumption DEF Typed, TypeOK, Actors, Watcher
<1>1. ~StartInsert(b)
  <2>1. StartInsert(b) => sess' = [sess EXCEPT ![b] = NoSession]
    BY DEF StartInsert
  <2> QED
    BY <1>0, <2>1 DEF NoSession
<1>2. CASE sess'[b] = sess[b]
  BY <1>1, <1>2 DEF At
<1>3. ASSUME NEW a, a # b, \E s : sess' = [sess EXCEPT ![a] = s] PROVE sess'[b] = sess[b]
  BY <1>0, <1>3
<1>4. ASSUME GitHub \/ PassTime \/ Reply \/ UNCHANGED vars PROVE sess'[b] = sess[b]
  BY <1>4 DEF GitHub, PushTag, RunStarts, PypiStarts, RunEnds, JobSucceeds, JobFails, OwnerDecides,
              OnlyGitHub, PassTime, Reply, OwnerReplies, vars
<1>5. ASSUME NEW a \in Starters, a # b, StartCheck(a) \/ StartInsert(a) PROVE sess'[b] = sess[b]
  <2>1. \E s : sess' = [sess EXCEPT ![a] = s]
    BY <1>5 DEF StartCheck, StartInsert
  <2> QED
    BY <1>3, <1>5, <2>1
<1>6. ASSUME NEW a \in Deciders \cup {Watcher}, DecideCheck(a) \/ DecidePost(a) \/ DecideRecord(a)
      PROVE  sess'[b] = sess[b]
  <2>1. \E s : sess' = [sess EXCEPT ![a] = s]
    BY <1>6 DEF DecideCheck, DecidePost, DecideRecord, Answer
  <2> QED
    BY <1>0, <1>3, <1>6, <2>1
<1>7. ASSUME NEW a \in Deciders, \E h \in Handoffs, v \in Verdicts : RequestDecision(a, h, v)
      PROVE  sess'[b] = sess[b]
  <2>1. \E s : sess' = [sess EXCEPT ![a] = s]
    BY <1>7 DEF RequestDecision
  <2> QED
    BY <1>0, <1>3, <1>7, <2>1
<1>8. ASSUME \/ TickStart \/ TakeHandoff \/ FindRun \/ GetRun \/ ReadJobs \/ ReadPending
             \/ CompleteTask \/ WriteNote \/ CreateAdoption \/ Notify \/ CommitEffects
             \/ CheckReplies \/ ReadMailbox \/ SpendReply \/ DecideLoad \/ RecordOutcome \/ Unavailable
      PROVE  sess'[b] = sess[b]
  BY <1>0, <1>8 DEF TickStart, TakeHandoff, FindRun, GetRun, ReadJobs, ReadPending, CompleteTask,
     WriteNote, CreateAdoption, Notify, CommitEffects, CheckReplies, ReadMailbox, SpendReply,
     DecideLoad, RecordOutcome, Unavailable, Step
<1>9. ASSUME AwaitRun \/ Advance PROVE sess'[b] = sess[b]
  BY <1>0, <1>9 DEF AwaitRun, Advance, AfterCommit
<1>10. ASSUME Crash PROVE sess'[b] = NoSession
  BY <1>0, <1>10 DEF Crash
<1> QED
  BY <1>1, <1>2, <1>4, <1>5, <1>6, <1>7, <1>8, <1>9, <1>10 DEF Next, Start, Decide, Tick, NoSession

LEMMA OneHist ==
    ASSUME Typed, NEW g \in Handoffs, NEW x, rows' = [rows EXCEPT ![g].hist = x]
    PROVE  rows'[g].hist = x /\ \A h \in Handoffs : h # g => rows'[h] = rows[h]
<1>1. rows \in [Handoffs -> Rows]
  BY DEF Typed, TypeOK
<1> QED
  BY <1>1 DEF Rows

\* The two writes of a reply.
LEMMA SpendIs ==
    ASSUME Typed, SpendReply
    PROVE  /\ W.pc = "spend" /\ W.h \in Handoffs /\ rows'[W.h].hist.reply = "pending"
           /\ \A h \in Handoffs : h # W.h => rows'[h] = rows[h]
<1>1. W.pc = "spend" /\ W.h \in Handoffs /\ W.hist \in Histories
  BY WatcherSession DEF SpendReply, At, W, Sound, Aimless, Sessions
<1> DEFINE x == [W.hist EXCEPT !.reply = "pending"]
<1>2. x.reply = "pending"
  BY <1>1 DEF Histories
<1>3. rows' = [rows EXCEPT ![W.h].hist = x]
  BY DEF SpendReply
<1> HIDE DEF x
<1> QED
  BY <1>1, <1>2, <1>3, OneHist

LEMMA OutcomeIs ==
    ASSUME Typed, RecordOutcome
    PROVE  /\ W.pc = "outcome" /\ W.h \in Handoffs
           /\ rows'[W.h].hist.decision = W.hist.decision
           /\ rows'[W.h].hist.reply = IF W.hist.reply = "none" THEN "none" ELSE W.state
           /\ \A h \in Handoffs : h # W.h => rows'[h] = rows[h]
<1>1. W.pc = "outcome" /\ W.h \in Handoffs /\ W.hist \in Histories
  BY WatcherSession DEF RecordOutcome, At, W, Sound, Aimless, Sessions
<1> DEFINE x == [W.hist EXCEPT !.reply = IF @ = "none" THEN "none" ELSE W.state]
<1>2. /\ x.decision = W.hist.decision
      /\ x.reply = IF W.hist.reply = "none" THEN "none" ELSE W.state
  BY <1>1 DEF Histories
<1>3. rows' = [rows EXCEPT ![W.h].hist = x]
  BY DEF RecordOutcome
<1> HIDE DEF x
<1> QED
  BY <1>1, <1>2, <1>3, OneHist

\* A row keeps its request's count of the handoffs before it.
LEMMA RowAfter ==
    ASSUME NEW row \in Rows
    PROVE  /\ \A x : [row EXCEPT !.hist = x].after = row.after
           /\ \A b : [row EXCEPT !.note = b].after = row.after
           /\ \A told : Committed(row, told).after = row.after
           /\ \A x, why : Failed(row, x, why).after = row.after
           /\ FirstSight(row).after = row.after
           /\ \A x, entered : [Advanced(row, x, entered) EXCEPT !.run = TRUE].after = row.after
<1>1. \A x : [row EXCEPT !.hist = x].after = row.after
  BY DEF Rows
<1>2. \A b : [row EXCEPT !.note = b].after = row.after
  BY DEF Rows
<1>3. \A told : Committed(row, told).after = row.after
  BY DEF Rows, Committed
<1>4. \A x, why : Failed(row, x, why).after = row.after
  BY DEF Rows, Failed
<1>5. FirstSight(row).after = row.after
  BY DEF Rows, FirstSight
<1>6. ASSUME NEW x, NEW entered
      PROVE  [Advanced(row, x, entered) EXCEPT !.run = TRUE].after = row.after
  BY DEF Rows, Advanced
<1> QED
  BY <1>1, <1>2, <1>3, <1>4, <1>5, <1>6

LEMMA AfterOfOne ==
    ASSUME Typed, NEW g \in Handoffs, NEW row, row.after = rows[g].after,
           rows' = [rows EXCEPT ![g] = row], NEW h \in Handoffs
    PROVE  rows'[h].after = rows[h].after
BY DEF Typed, TypeOK

LEMMA AfterStays ==
    ASSUME Typed, Watching, [Next]_vars, \A a \in Starters : ~StartInsert(a), NEW h \in Handoffs
    PROVE  rows'[h].after = rows[h].after
<1>0. rows \in [Handoffs -> Rows] /\ \A g \in Handoffs : rows[g] \in Rows
  BY DEF Typed, TypeOK
<1>1. CASE \/ GitHub \/ Reply \/ Unavailable \/ Crash \/ UNCHANGED vars
           \/ TickStart \/ TakeHandoff \/ FindRun \/ GetRun \/ ReadJobs \/ ReadPending \/ CompleteTask
           \/ WriteNote \/ Notify \/ CheckReplies \/ ReadMailbox \/ DecideLoad
  BY <1>1 DEF GitHub, OnlyGitHub, PushTag, RunStarts, PypiStarts, RunEnds, JobSucceeds, JobFails,
     OwnerDecides, Reply, OwnerReplies, Unavailable, Crash, vars, TickStart, TakeHandoff, FindRun, GetRun,
     ReadJobs, ReadPending, CompleteTask, WriteNote, Notify, CheckReplies, ReadMailbox, DecideLoad
<1>2. CASE PassTime
  BY <1>2, Aged
<1>3. ASSUME NEW a \in Starters, StartCheck(a) PROVE rows' = rows
  BY <1>3 DEF StartCheck
<1>4. ASSUME NEW a, \/ DecideCheck(a) \/ DecidePost(a)
                    \/ \E g \in Handoffs, v \in Verdicts : RequestDecision(a, g, v)
      PROVE  rows' = rows
  BY <1>4 DEF DecideCheck, DecidePost, RequestDecision
<1>5. ASSUME NEW g \in Handoffs, NEW x, rows' = [rows EXCEPT ![g].hist = x]
      PROVE  rows'[h].after = rows[h].after
  <2>1. rows' = [rows EXCEPT ![g] = [rows[g] EXCEPT !.hist = x]]
    BY <1>5
  <2> QED
    BY <1>0, <2>1, RowAfter, AfterOfOne
<1>6. ASSUME NEW a \in Deciders \cup {Watcher}, DecideRecord(a) PROVE rows'[h].after = rows[h].after
  <2>1. sess[a].pc = "record" /\ Sound(sess[a])
    BY <1>6 DEF DecideRecord, At, Typed, Intent, Actors
  <2>2. sess[a].h \in Handoffs
    BY <2>1 DEF Sound, Aimless
  <2> QED
    BY <1>5, <1>6, <2>2 DEF DecideRecord
<1>7. CASE SpendReply \/ RecordOutcome
  <2>1. W.h \in Handoffs
    BY <1>7, SpendIs, OutcomeIs
  <2> QED
    BY <1>5, <1>7, <2>1 DEF SpendReply, RecordOutcome
<1>8. CASE CreateAdoption
  <2>1. PICK n : rows' = [rows EXCEPT ![W.h].note = @ \/ (n = 1 /\ W.note)]
    BY <1>8 DEF CreateAdoption
  <2> DEFINE note == rows[W.h].note \/ (n = 1 /\ W.note)
  <2>2. rows' = [rows EXCEPT ![W.h] = [rows[W.h] EXCEPT !.note = note]]
    BY <2>1
  <2>3. W.h \in Handoffs
    BY <1>8, WatcherSession DEF CreateAdoption, At, W, Sound, Aimless
  <2> HIDE DEF note
  <2> QED
    BY <1>0, <2>2, <2>3, RowAfter, AfterOfOne
<1>9. CASE CommitEffects
  <2>1. PICK told : rows' = [rows EXCEPT ![W.h] = Committed(rows[W.h], told)]
    BY <1>9 DEF CommitEffects
  <2>2. W.h \in Handoffs
    BY <1>9, WatcherSession DEF CommitEffects, At, W, Sound, Aimless
  <2> QED
    BY <1>0, <2>1, <2>2, RowAfter, AfterOfOne
<1>10. CASE AwaitRun
  <2>1. \/ \E why \in {"no_run", "no_tag"} : rows' = [rows EXCEPT ![W.h] = Failed(rows[W.h], W.hist, why)]
        \/ rows' = [rows EXCEPT ![W.h] = FirstSight(rows[W.h])]
        \/ rows' = rows
    BY <1>10 DEF AwaitRun
  <2>2. W.h \in Handoffs
    BY <1>10, WatcherSession DEF AwaitRun, At, W, Sound, Aimless
  <2> QED
    BY <1>0, <2>1, <2>2, RowAfter, AfterOfOne
<1>11. CASE Advance
  <2>1. W.h \in Handoffs /\ W.hist \in Histories
    BY <1>11, WatcherSession DEF Advance, At, W, Sound, Aimless, Sessions
  <2>2. PICK entered \in SUBSET (Facts \cup {"done"}), why \in Reasons :
          LET row == [Advanced(rows[W.h], W.hist, entered) EXCEPT !.run = TRUE] IN
          \/ rows' = [rows EXCEPT ![W.h] = row]
          \/ \E hist \in {W.hist, row.hist} : rows' = [rows EXCEPT ![W.h] = Failed(row, hist, why)]
    BY <1>11, AdvanceCommits
  <2> DEFINE row == [Advanced(rows[W.h], W.hist, entered) EXCEPT !.run = TRUE]
  <2>3. row \in Rows
    <3>1. Advanced(rows[W.h], W.hist, entered) \in Rows
      BY <1>0, <2>1, AdvancedType DEF Typed, TypeOK
    <3> QED
      BY <3>1 DEF Rows
  <2>4. row.after = rows[W.h].after
    BY <1>0, <2>1, RowAfter
  <2> HIDE DEF row
  <2>5. \A x : Failed(row, x, why).after = rows[W.h].after
    BY <2>3, <2>4, RowAfter
  <2> QED
    BY <2>1, <2>2, <2>4, <2>5, AfterOfOne DEF row
<1> QED
  BY <1>1, <1>2, <1>3, <1>4, <1>6, <1>7, <1>8, <1>9, <1>10, <1>11 DEF Next, Start, Decide, Tick

\* A failed handoff stays failed, and was there when its request's check came.
LEMMA FailedStays ==
    ASSUME IInv, [Next]_vars, NEW g \in Handoffs, rows[g].stage = "failed"
    PROVE  rows'[g].stage = "failed"
<1>1. Typed /\ RowsTrue /\ ThreadsHold /\ Watching /\ Numbered
  BY DEF IInv
<1> QED
  BY <1>1, StagesGo DEF Exists, Onward, Active, Terminal

LEMMA SeenInit == Init => Seen
<1> SUFFICES ASSUME Init PROVE Seen
  OBVIOUS
<1>1. \A h \in Handoffs : rows[h].after = 0
  BY DEF Init, NoRow
<1>2. \A g \in Handoffs : ~(g <= 0)
  BY ReleaseAssumption DEF Handoffs
<1>3. \A a \in Starters : ~At(a, "insert")
  BY DEF Init, At, NoSession, Actors
<1> QED
  BY <1>1, <1>2, <1>3 DEF Seen

LEMMA SeenRows ==
    ASSUME IInv, Seen, [Next]_vars, NEW g \in Handoffs, NEW h \in Handoffs, g <= rows'[h].after
    PROVE  g < h /\ rows'[g].stage = "failed"
<1>1. Typed /\ RowsTrue /\ ThreadsHold /\ Watching /\ Numbered
  BY DEF IInv
<1>2. CASE rows'[h].after = rows[h].after
  BY <1>2, FailedStays DEF Seen
<1>3. ASSUME NEW a \in Starters, StartInsert(a), rows'[h].after # rows[h].after
      PROVE  g < h /\ rows'[g].stage = "failed"
  <2>1. PICK row \in Rows : rows' = [rows EXCEPT ![NextRow] = row] /\ row.after = sess[a].h
    BY <1>1, <1>3, InsertIs
  <2>2. h = NextRow /\ rows'[h].after = sess[a].h
    BY <1>1, <1>3, <2>1 DEF Typed, TypeOK
  <2>3. rows[g].stage = "failed"
    BY <1>3, <2>2 DEF Seen, StartInsert
  <2>4. PICK k \in 0 .. MaxHandoffs : NextRow = k + 1 /\ \A i \in Handoffs : Exists(i) <=> i <= k
    BY <1>1, NextRowIs
  <2>5. g <= k
    BY <2>3, <2>4 DEF Exists
  <2>6. g < h
    BY <2>2, <2>4, <2>5, ReleaseAssumption DEF Handoffs
  <2> QED
    BY <2>3, <2>6, FailedStays
<1> QED
  BY <1>1, <1>2, <1>3, AfterStays

LEMMA SeenNext ==
    ASSUME IInv, Seen, [Next]_vars
    PROVE  Seen'
<1>1. Typed /\ Numbered /\ sess \in [Actors -> Sessions]
  BY DEF IInv, Typed, TypeOK
<1>2. ASSUME NEW a \in Starters, sess'[a].pc = "insert",
             NEW g \in Handoffs, g <= sess'[a].h
      PROVE  rows'[g].stage = "failed"
  <2>1. CASE StartCheck(a)
    <3>1. sess'[a].h = Cardinality(Created) /\ rows' = rows
      BY <1>1, <2>1 DEF StartCheck, Actors, Sessions
    <3>2. PICK k \in 0 .. MaxHandoffs : NextRow = k + 1 /\ \A i \in Handoffs : Exists(i) <=> i <= k
      BY <1>1, NextRowIs
    <3>3. Cardinality(Created) = k
      BY <3>2, CreatedCount, ReleaseAssumption DEF NextRow, Handoffs
    <3>4. Exists(g)
      BY <1>2, <3>1, <3>2, <3>3
    <3> QED
      BY <2>1, <3>1, <3>4 DEF StartCheck, MayStart, Exists
  <2>2. CASE At(a, "insert") /\ sess'[a] = sess[a]
    BY <1>2, <2>2, FailedStays DEF Seen
  <2> QED
    BY <1>1, <1>2, <2>1, <2>2, Inserts
<1> QED
  BY <1>2, SeenRows DEF Seen, At

LEMMA SeenSays == IInv /\ Seen => OverlapByRaceOnly
<1> SUFFICES ASSUME IInv, Seen, NEW g \in Handoffs, NEW h \in Handoffs, g <= rows[h].after
             PROVE  g < h /\ rows[g].stage = "failed" /\ effects[g].adoptions = 0
  BY DEF OverlapByRaceOnly
<1>1. g < h /\ rows[g].stage = "failed"
  BY DEF Seen
<1>2. effects[g].adoptions \in {0, 1} /\ (effects[g].adoptions = 1 => rows[g].stage = "done")
  <2>1. effects[g] \in Traces
    BY DEF IInv, Typed, TypeOK
  <2> QED
    BY <2>1 DEF IInv, EffectsFit, Traces
<1> QED
  BY <1>1, <1>2

\* start_handoff, with any number of requests: what a request's check found has
\* failed and stays so, without an adoption task; two handoffs of a tag overlap
\* only when the later one's check came before the earlier one's insert.
THEOREM OverlapsOnlyByRace == Spec => []OverlapByRaceOnly
<1>1. Init => Seen
  BY SeenInit
<1>2. IInv /\ Seen /\ [Next]_vars => Seen'
  BY SeenNext
<1>3. IInv /\ Seen => OverlapByRaceOnly
  BY SeenSays
<1> QED
  BY <1>1, <1>2, <1>3, Inductive, PTL DEF Spec

-----------------------------------------------------------------------------
(* One use of a reply.                                                     *)

Like(x, y) == x.reply = y.reply /\ x.decision = y.decision

\* Where a row's decision and reply come from.
HistFrom(h) ==
    \/ Like(rows'[h].hist, rows[h].hist)
    \/ ~Exists(h) /\ rows'[h].hist.reply = "none"
    \/ \E a \in Deciders \cup {Watcher} :
         /\ DecideRecord(a) /\ h = sess[a].h
         /\ rows'[h].hist.decision # "none"
    \/ SpendReply /\ h = W.h /\ rows'[h].hist.reply = "pending"
    \/ /\ RecordOutcome /\ h = W.h /\ rows'[h].hist.decision = W.hist.decision
       /\ rows'[h].hist.reply = IF W.hist.reply = "none" THEN "none" ELSE W.state
    \/ (AwaitRun \/ Advance) /\ h = W.h /\ Like(rows'[h].hist, W.hist)

LEMMA AwaitHist ==
    ASSUME Typed, AwaitRun, NEW h \in Handoffs
    PROVE  HistFrom(h)
<1>1. /\ W.h \in Handoffs /\ W.hist \in Histories /\ rows \in [Handoffs -> Rows]
  BY WatcherSession DEF AwaitRun, At, W, Sound, Aimless, Typed, TypeOK, Sessions
<1>2. \/ \E why \in {"no_run", "no_tag"} : rows' = [rows EXCEPT ![W.h] = Failed(rows[W.h], W.hist, why)]
      \/ rows' = [rows EXCEPT ![W.h] = FirstSight(rows[W.h])]
      \/ rows' = rows
  BY DEF AwaitRun
<1>3. CASE h # W.h
  BY <1>1, <1>2, <1>3 DEF HistFrom, Like
<1>4. ASSUME NEW S, rows'[W.h].hist = [W.hist EXCEPT !.stages = @ \cup S] PROVE Like(rows'[W.h].hist, W.hist)
  BY <1>1, <1>4 DEF Like, Histories
<1>5. CASE h = W.h
  <2>1. ASSUME NEW why, rows' = [rows EXCEPT ![W.h] = Failed(rows[W.h], W.hist, why)]
        PROVE  rows'[W.h].hist = [W.hist EXCEPT !.stages = @ \cup {"failed"}]
    BY <1>1, <2>1, RowHist
  <2>2. ASSUME rows' = [rows EXCEPT ![W.h] = FirstSight(rows[W.h])]
        PROVE  rows'[W.h].hist = [W.hist EXCEPT !.stages = @ \cup {"tagged"}]
    BY <1>1, <2>2, RowHist
  <2>3. Like(rows'[W.h].hist, W.hist) \/ rows' = rows
    BY <1>2, <1>4, <2>1, <2>2
  <2>4. rows' = rows => Like(rows'[h].hist, rows[h].hist)
    BY DEF Like
  <2> QED
    BY <1>5, <2>3, <2>4 DEF HistFrom
<1> QED
  BY <1>3, <1>5

LEMMA AdvanceHist ==
    ASSUME Typed, Watching, Advance, NEW h \in Handoffs
    PROVE  HistFrom(h)
<1>1. /\ W.h \in Handoffs /\ W.hist \in Histories /\ rows \in [Handoffs -> Rows] /\ gh \in Truths
      /\ rows[W.h] \in Rows
  BY WatcherSession DEF Advance, At, W, Sound, Aimless, Typed, TypeOK, Sessions
<1>2. CASE h # W.h
  BY <1>2, AdvanceStage DEF HistFrom, Like
<1>3. PICK entered \in SUBSET (Facts \cup {"done"}), why \in Reasons :
        LET row == [Advanced(rows[W.h], W.hist, entered) EXCEPT !.run = TRUE] IN
        \/ rows' = [rows EXCEPT ![W.h] = row]
        \/ \E hist \in {W.hist, row.hist} : rows' = [rows EXCEPT ![W.h] = Failed(row, hist, why)]
  BY AdvanceCommits
<1> DEFINE row == [Advanced(rows[W.h], W.hist, entered) EXCEPT !.run = TRUE]
<1>4. row \in Rows /\ row.hist \in Histories
  <2>1. Advanced(rows[W.h], W.hist, entered) \in Rows
    BY <1>1, AdvancedType
  <2> QED
    BY <2>1 DEF Rows
<1>5. Like(row.hist, rows[W.h].hist) \/ Like(row.hist, W.hist)
  <2>1. CASE entered = {}
    BY <1>1, <2>1 DEF Advanced, Rows, Like
  <2>2. CASE entered # {}
    <3>1. row.hist = [W.hist EXCEPT !.stages = @ \cup entered]
      BY <1>1, <2>2 DEF Advanced, Rows
    <3> QED
      BY <1>1, <3>1 DEF Like, Histories
  <2> QED
    BY <2>1, <2>2
<1> HIDE DEF row
<1>6. ASSUME NEW hist \in {W.hist, row.hist}, rows' = [rows EXCEPT ![W.h] = Failed(row, hist, why)]
      PROVE  Like(rows'[W.h].hist, rows[W.h].hist) \/ Like(rows'[W.h].hist, W.hist)
  <2>1. rows'[W.h].hist = [hist EXCEPT !.stages = @ \cup {"failed"}]
    BY <1>1, <1>4, <1>6, RowHist
  <2>2. hist \in Histories
    BY <1>1, <1>4
  <2>3. Like(rows'[W.h].hist, hist)
    BY <2>1, <2>2 DEF Like, Histories
  <2> QED
    BY <1>5, <1>6, <2>3 DEF Like
<1>7. Like(rows'[W.h].hist, rows[W.h].hist) \/ Like(rows'[W.h].hist, W.hist)
  <2>1. rows' = [rows EXCEPT ![W.h] = row] => rows'[W.h].hist = row.hist
    BY <1>1
  <2> QED
    BY <1>3, <1>5, <1>6, <2>1 DEF row
<1> QED
  BY <1>2, <1>7 DEF HistFrom

LEMMA InsertHist ==
    ASSUME Typed, Numbered, NEW a \in Starters, StartInsert(a), NEW h \in Handoffs
    PROVE  HistFrom(h)
<1>1. rows \in [Handoffs -> Rows]
  BY DEF Typed, TypeOK
<1>2. PICK task : rows' = [rows EXCEPT ![NextRow] =
        [NoRow EXCEPT !.stage = "requested", !.task = task, !.hist.stages = {"requested"},
                      !.after = sess[a].h]]
  BY DEF StartInsert
<1> DEFINE row == [NoRow EXCEPT !.stage = "requested", !.task = task, !.hist.stages = {"requested"},
                                !.after = sess[a].h]
<1>3. row.hist.reply = "none"
  BY DEF NoRow, NoHistory
<1> HIDE DEF row
<1>4. rows' = [rows EXCEPT ![NextRow] = row]
  BY <1>2 DEF row
<1>5. CASE h = NextRow /\ ~Exists(h)
  BY <1>1, <1>3, <1>4, <1>5 DEF HistFrom
<1>6. CASE rows'[h] = rows[h]
  BY <1>6 DEF HistFrom, Like
<1> QED
  BY <1>5, <1>6, InsertStage

\* The steps that write neither a decision nor a reply.
LEMMA HistStays ==
    ASSUME Typed, CreateAdoption \/ CommitEffects \/ PassTime, NEW h \in Handoffs
    PROVE  HistFrom(h)
<1>1. rows \in [Handoffs -> Rows]
  BY DEF Typed, TypeOK
<1>2. rows'[h].hist = rows[h].hist
  <2>1. CASE CreateAdoption
    <3>1. PICK n : rows' = [rows EXCEPT ![W.h].note = @ \/ (n = 1 /\ W.note)]
      BY <2>1 DEF CreateAdoption
    <3> QED
      BY <1>1, <3>1 DEF Rows
  <2>2. CASE CommitEffects
    <3>1. PICK told : rows' = [rows EXCEPT ![W.h] = Committed(rows[W.h], told)]
      BY <2>2 DEF CommitEffects
    <3> QED
      BY <1>1, <3>1 DEF Committed, Rows
  <2>3. CASE PassTime
    BY <2>3, Aged
  <2> QED
    BY <2>1, <2>2, <2>3
<1> QED
  BY <1>2 DEF HistFrom, Like

LEMMA HistGoes ==
    ASSUME Typed, Watching, Numbered, [Next]_vars, NEW h \in Handoffs
    PROVE  HistFrom(h)
<1>1. CASE rows' = rows
  BY <1>1 DEF HistFrom, Like
<1>2. CASE \/ GitHub \/ Reply \/ Unavailable \/ Crash \/ UNCHANGED vars
           \/ TickStart \/ TakeHandoff \/ FindRun \/ GetRun \/ ReadJobs \/ ReadPending \/ CompleteTask
           \/ WriteNote \/ Notify \/ CheckReplies \/ ReadMailbox \/ DecideLoad
  BY <1>1, <1>2 DEF GitHub, OnlyGitHub, PushTag, RunStarts, PypiStarts, RunEnds, JobSucceeds, JobFails,
     OwnerDecides, Reply, OwnerReplies, Unavailable, Crash, vars, TickStart, TakeHandoff, FindRun, GetRun,
     ReadJobs, ReadPending, CompleteTask, WriteNote, Notify, CheckReplies, ReadMailbox, DecideLoad
<1>3. ASSUME NEW a \in Starters, StartCheck(a) PROVE rows' = rows
  BY <1>3 DEF StartCheck
<1>4. ASSUME NEW a, \/ DecideCheck(a) \/ DecidePost(a)
                    \/ \E g \in Handoffs, v \in Verdicts : RequestDecision(a, g, v)
      PROVE  rows' = rows
  BY <1>4 DEF DecideCheck, DecidePost, RequestDecision
<1>5. ASSUME NEW a \in Deciders \cup {Watcher}, DecideRecord(a) PROVE HistFrom(h)
  <2>1. /\ sess[a].pc = "record" /\ sess[a] \in Sessions /\ Sound(sess[a])
    BY <1>5 DEF DecideRecord, At, Typed, TypeOK, Intent, Actors
  <2>2. /\ sess[a].h \in Handoffs /\ WithDecision(a).decision # "none"
    BY <2>1 DEF WithDecision, Sessions, Histories, Sound, Deciding, Aimless, Verdicts
  <2>3. rows' = [rows EXCEPT ![sess[a].h].hist = WithDecision(a)]
    BY <1>5 DEF DecideRecord
  <2>4. /\ rows'[sess[a].h].hist = WithDecision(a)
        /\ h # sess[a].h => rows'[h] = rows[h]
    BY <2>2, <2>3, OneHist
  <2> QED
    BY <1>5, <2>2, <2>4 DEF HistFrom, Like
<1>6. CASE SpendReply
  BY <1>6, SpendIs DEF HistFrom, Like
<1>7. CASE RecordOutcome
  BY <1>7, OutcomeIs DEF HistFrom, Like
<1> QED
  BY <1>1, <1>2, <1>3, <1>4, <1>5, <1>6, <1>7, AwaitHist, AdvanceHist, InsertHist, HistStays
  DEF Next, Start, Decide, Tick

Quiet == {"idle", "next", "replies", "complete", "note", "adopt", "notify", "commit"}
Answering == {"check", "post", "record", "outcome"}
Used(hist) == hist.reply # "none" \/ hist.decision # "none"

\* Where the watcher goes, and what it holds there.
WatcherGoes ==
    \/ W' = W /\ effects' = effects
    \/ W'.pc \in Quiet /\ (W.pc \in {"load"} \cup Answering => RecordOutcome \/ Crash)
    \/ /\ W.pc = "next" /\ W'.pc \in Following /\ W'.h \in Handoffs /\ W'.hist = rows[W'.h].hist
       /\ rows' = rows /\ effects' = effects
    \/ /\ W.pc \in Following /\ W'.pc \in Following /\ W'.h = W.h /\ W'.hist = W.hist
       /\ effects' = effects
    \/ /\ W'.h = W.h /\ W.h \in Handoffs
       /\ \/ /\ W.pc = "replies" /\ W'.pc = "imap" /\ AwaitingReply(rows[W.h])
          \/ W.pc = "imap" /\ W'.pc = "spend"
          \/ SpendReply /\ W'.pc = "load"
          \/ /\ DecideLoad /\ W.pc = "load" /\ W'.pc \in {"check", "outcome"}
             /\ W'.hist = rows[W.h].hist /\ (W'.pc = "outcome" => W'.state = "already_decided")
          \/ W.pc \in Answering /\ W'.pc \in {"post", "record"} /\ W'.hist = W.hist
          \/ /\ W.pc \in Answering /\ W'.pc = "outcome" /\ W'.hist = W.hist
             /\ W'.state \in {"already_decided", "error"}
          \/ /\ W.pc \in Answering /\ W'.pc = "outcome" /\ W'.hist.decision # "none"
             /\ W'.state \in Verdicts

LEMMA ReplyGoes ==
    ASSUME Typed, CheckReplies \/ ReadMailbox \/ SpendReply \/ DecideLoad \/ RecordOutcome
                  \/ DecideCheck(Watcher) \/ DecidePost(Watcher) \/ DecideRecord(Watcher)
    PROVE  WatcherGoes
<1>1. /\ CheckReplies => W.pc = "replies"
      /\ ReadMailbox => W.pc = "imap"
      /\ SpendReply => W.pc = "spend"
      /\ DecideLoad => W.pc = "load"
      /\ RecordOutcome => W.pc = "outcome"
      /\ DecideCheck(Watcher) => W.pc = "check"
      /\ DecidePost(Watcher) => W.pc = "post"
      /\ DecideRecord(Watcher) => W.pc = "record"
  BY DEF CheckReplies, ReadMailbox, SpendReply, DecideLoad, RecordOutcome, DecideCheck, DecidePost,
         DecideRecord, At, W
<1>2. W.pc = "record" => /\ W.state \in Verdicts
                         /\ WithDecision(Watcher).decision = W.state
  BY WatcherSession DEF W, Sound, Deciding, WithDecision, Sessions, Histories
<1>3. CASE W' = NextHandoff /\ (CheckReplies \/ ReadMailbox \/ RecordOutcome)
  BY <1>1, <1>3 DEF WatcherGoes, NextHandoff, NoSession, Quiet, Answering
<1>4. "none" \notin Verdicts
  BY DEF Verdicts
<1>5. CASE W'.h = W.h /\ (DecideRecord(Watcher) /\ W'.pc = "outcome"
                          /\ W'.hist = WithDecision(Watcher) /\ W'.state = W.state)
  BY <1>1, <1>2, <1>4, <1>5, RepliesAre DEF WatcherGoes, Answering
<1> QED
  BY <1>1, <1>3, <1>5, RepliesAre DEF WatcherGoes, Answering

LEMMA WatcherMoves ==
    ASSUME Typed, Watching, [Next]_vars
    PROVE  WatcherGoes
<1>1. CASE GitHub \/ PassTime \/ Start \/ Decide \/ Reply \/ UNCHANGED vars
  BY <1>1, Aside DEF WatcherGoes
<1>2. CASE TickStart
  <2>1. W'.pc = "next" /\ W.pc = "idle"
    BY <1>2, StepIs DEF TickStart, At, W
  <2> QED
    BY <2>1 DEF WatcherGoes, Quiet, Answering
<1>3. CASE TakeHandoff
  <2>1. W.pc = "next" /\ rows' = rows /\ effects' = effects /\ todo \subseteq Handoffs
    BY <1>3 DEF TakeHandoff, At, W, Typed, TypeOK
  <2>2. CASE W'.pc = "idle"
    BY <2>1, <2>2 DEF WatcherGoes, Quiet, Answering
  <2>3. CASE \E h \in todo : /\ W'.h = h /\ W'.hist = rows[h].hist
                             /\ W'.pc = IF rows[h].run THEN "get" ELSE "find"
    BY <2>1, <2>3 DEF WatcherGoes, Following
  <2> QED
    BY <1>3, <2>2, <2>3, TakeIs
<1>4. CASE FindRun \/ GetRun \/ ReadJobs \/ ReadPending
  <2>1. PICK pc \in {"await", "jobs", "pending", "advance"} : Step(pc)
    BY <1>4 DEF FindRun, GetRun, ReadJobs, ReadPending
  <2>2. W.pc \in Following /\ effects' = effects
    BY <1>4 DEF FindRun, GetRun, ReadJobs, ReadPending, At, W, Following
  <2> QED
    BY <2>1, <2>2, StepIs DEF WatcherGoes, Following
<1>5. CASE AwaitRun \/ Advance
  <2>1. PICK S : AfterCommit(S)
    BY <1>5, AwaitStage, AdvanceStage
  <2>2. W.pc \in {"await", "advance"}
    BY <1>5 DEF AwaitRun, Advance, At, W
  <2>3. W'.pc \in {"replies", "complete", "notify", "commit"}
    BY <2>1, CommitIs DEF AfterEvents, AfterEffects
  <2> QED
    BY <2>2, <2>3 DEF WatcherGoes, Quiet, Answering
<1>6. CASE CompleteTask \/ WriteNote \/ CreateAdoption \/ Notify
  <2>1. W'.pc \in {"note", "adopt", "commit", AfterEffects(W.entered)}
    BY <1>6, EffectsAre
  <2>2. W.pc \in {"complete", "note", "adopt", "notify"}
    BY <1>6 DEF CompleteTask, WriteNote, CreateAdoption, Notify, At, W
  <2> QED
    BY <2>1, <2>2 DEF AfterEffects, WatcherGoes, Quiet, Answering
<1>7. CASE CommitEffects
  <2>1. W'.pc = "replies" /\ W.pc = "commit"
    BY <1>7, CommitEffectsIs DEF CommitEffects, At, W
  <2> QED
    BY <2>1 DEF WatcherGoes, Quiet, Answering
<1>8. CASE Unavailable
  <2>1. W'.pc = "next" /\ W.pc \in Following
    BY <1>8, ToNext DEF Unavailable, Following
  <2> QED
    BY <2>1 DEF WatcherGoes, Quiet, Answering, Following
<1>9. CASE Crash
  <2>1. W'.pc = "idle"
    BY <1>9, WatcherSession DEF Crash, W, NoSession
  <2> QED
    BY <1>9, <2>1 DEF WatcherGoes, Quiet
<1> QED
  BY <1>1, <1>2, <1>3, <1>4, <1>5, <1>6, <1>7, <1>8, <1>9, ReplyGoes DEF Next, Tick

\* A reply that has been sent to decide has left its mark on the row, and on
\* every copy of the row's history that the watcher may write back.
Spent ==
    /\ \A h \in Handoffs : /\ effects[h].replies <= 1
                           /\ effects[h].replies > 0 => Exists(h) /\ Used(rows[h].hist)
    /\ W.pc \in {"imap", "spend", "load"} => effects[W.h].replies = 0
    /\ W.pc = "load" => Used(rows[W.h].hist)
    /\ W.pc \in Following /\ effects[W.h].replies > 0 => Used(W.hist)
    /\ W.pc \in Answering => Used(W.hist)
    /\ W.pc = "outcome" => W.state \notin {"none", "pending"}

LEMMA RepliesMove ==
    ASSUME Typed, [Next]_vars, NEW h \in Handoffs
    PROVE  effects'[h].replies = IF DecideLoad /\ h = W.h THEN effects[h].replies + 1 ELSE effects[h].replies
<1>1. CASE CompleteTask \/ WriteNote \/ CreateAdoption \/ Notify \/ DecideLoad
  BY <1>1, EffectsMove
<1>2. CASE ~(CompleteTask \/ WriteNote \/ CreateAdoption \/ Notify \/ DecideLoad)
  BY <1>2, EffectsElse
<1> QED
  BY <1>1, <1>2

\* A mark on a row stays: whatever is written over it carries one.
LEMMA UsedStays ==
    ASSUME IInv, Spent, [Next]_vars, NEW h \in Handoffs, Exists(h), Used(rows[h].hist),
           effects[h].replies > 0 \/ W.pc = "load"
    PROVE  Used(rows'[h].hist)
<1>1. Typed /\ Watching /\ Numbered
  BY DEF IInv
<1>2. SpendReply => W.pc = "spend"
  BY DEF SpendReply, At, W
<1>3. RecordOutcome => Used(W.hist) /\ W.state # "none"
  BY DEF RecordOutcome, At, W, Spent, Answering
<1>4. (AwaitRun \/ Advance) /\ h = W.h => Used(W.hist)
  BY DEF AwaitRun, Advance, At, W, Spent, Following
<1> QED
  BY <1>1, <1>2, <1>3, <1>4, HistGoes DEF HistFrom, Like, Used

LEMMA SpentRows ==
    ASSUME IInv, Spent, [Next]_vars, NEW h \in Handoffs
    PROVE  /\ effects'[h].replies <= 1
           /\ effects'[h].replies > 0 => Exists(h)' /\ Used(rows'[h].hist)
<1>1. /\ Typed /\ Watching /\ Numbered /\ RowsTrue /\ ThreadsHold
      /\ effects[h].replies \in Nat
  BY DEF IInv, Typed, TypeOK, Traces
<1>2. Exists(h) => Exists(h)'
  BY <1>1, StagesGo DEF Exists, Onward, Reached, Facts, Terminal
<1>3. CASE DecideLoad /\ h = W.h
  <2>1. W.pc = "load" /\ rows' = rows
    BY <1>3 DEF DecideLoad, At, W
  <2>2. rows[h].run
    BY <1>1, <1>3, <2>1, WatcherSession DEF ThreadsHold, Held, Replying, W
  <2>3. Exists(h)
    BY <1>1, <2>2 DEF RowsTrue, RowTrue, Exists
  <2>4. effects'[h].replies = 1
    BY <1>1, <1>3, <2>1, RepliesMove DEF Spent
  <2> QED
    BY <1>2, <1>3, <2>1, <2>3, <2>4 DEF Spent
<1>4. CASE ~(DecideLoad /\ h = W.h)
  BY <1>1, <1>2, <1>4, RepliesMove, UsedStays DEF Spent
<1> QED
  BY <1>3, <1>4

LEMMA SpentNext ==
    ASSUME IInv, Spent, [Next]_vars
    PROVE  Spent'
<1>1. /\ Typed /\ Watching /\ Numbered /\ RowsTrue /\ ThreadsHold
      /\ W.pc \notin Aimless => W.h \in Handoffs
  BY WatcherSession DEF IInv, Sound
<1>2. \A h \in Handoffs : /\ effects'[h].replies <= 1
                          /\ effects'[h].replies > 0 => Exists(h)' /\ Used(rows'[h].hist)
  BY SpentRows
<1> DEFINE Rest ==
      /\ W'.pc \in {"imap", "spend", "load"} => effects'[W'.h].replies = 0
      /\ W'.pc = "load" => Used(rows'[W'.h].hist)
      /\ W'.pc \in Following /\ effects'[W'.h].replies > 0 => Used(W'.hist)
      /\ W'.pc \in Answering => Used(W'.hist)
      /\ W'.pc = "outcome" => W'.state \notin {"none", "pending"}
<1>3. CASE W' = W /\ effects' = effects
  <2>1. W.pc = "load" => W.h \in Handoffs /\ Exists(W.h)
    BY <1>1, WatcherSession DEF Aimless, ThreadsHold, Held, Replying, W, RowsTrue, RowTrue, Exists
  <2>2. W.pc = "load" => Used(rows'[W.h].hist)
    BY <2>1, UsedStays DEF Spent
  <2> QED
    BY <1>2, <1>3, <2>2 DEF Spent, Exists
<1>4. CASE W'.pc \in Quiet
  <2>1. Rest
    BY <1>4 DEF Quiet, Following, Answering
  <2> QED
    BY <1>2, <2>1 DEF Spent, Exists
<1>5. CASE /\ W.pc = "next" /\ W'.pc \in Following /\ W'.h \in Handoffs /\ W'.hist = rows[W'.h].hist
           /\ rows' = rows /\ effects' = effects
  <2>1. Rest
    BY <1>5 DEF Following, Answering, Spent
  <2> QED
    BY <1>2, <2>1 DEF Spent, Exists
<1>6. CASE /\ W.pc \in Following /\ W'.pc \in Following /\ W'.h = W.h /\ W'.hist = W.hist
           /\ effects' = effects
  <2>1. Rest
    BY <1>6 DEF Following, Answering, Spent
  <2> QED
    BY <1>2, <2>1 DEF Spent, Exists
<1>7. CASE W'.h = W.h /\ W.h \in Handoffs /\ W.pc \in {"replies", "imap", "spend"}
           /\ W'.pc \in {"imap", "spend", "load"}
           /\ (W.pc = "replies" => AwaitingReply(rows[W.h]))
           /\ (W'.pc = "load" => SpendReply)
  <2>1. effects[W.h].replies = 0
    <3>1. effects[W.h].replies \in Nat
      BY <1>1, <1>7 DEF Typed, TypeOK, Traces
    <3>2. AwaitingReply(rows[W.h]) => ~Used(rows[W.h].hist)
      BY DEF AwaitingReply, Used
    <3> QED
      BY <1>7, <3>1, <3>2 DEF Spent
  <2>2. effects'[W.h].replies = 0
    <3>1. ~DecideLoad
      BY <1>7 DEF DecideLoad, At, W
    <3> QED
      BY <1>1, <1>7, <2>1, <3>1, RepliesMove
  <2>3. SpendReply => Used(rows'[W.h].hist)
    BY <1>1, SpendIs DEF Used
  <2>4. Rest
    BY <1>7, <2>2, <2>3 DEF Following, Answering
  <2> QED
    BY <1>2, <2>4 DEF Spent, Exists
<1>8. CASE \/ DecideLoad /\ W.pc = "load" /\ W'.pc \in {"check", "outcome"}
              /\ W'.hist = rows[W.h].hist /\ (W'.pc = "outcome" => W'.state = "already_decided")
           \/ W.pc \in Answering /\ W'.pc \in {"post", "record"} /\ W'.hist = W.hist
           \/ W.pc \in Answering /\ W'.pc = "outcome" /\ W'.hist = W.hist
              /\ W'.state \in {"already_decided", "error"}
           \/ W.pc \in Answering /\ W'.pc = "outcome" /\ W'.hist.decision # "none"
              /\ W'.state \in Verdicts
  <2>1. Rest
    BY <1>8 DEF Following, Answering, Spent, Used, Verdicts
  <2> QED
    BY <1>2, <2>1 DEF Spent, Exists
<1>9. WatcherGoes
  BY <1>1, WatcherMoves
<1>10. SpendReply => W.pc = "spend"
  BY DEF SpendReply, At, W
<1> QED
  BY <1>3, <1>4, <1>5, <1>6, <1>7, <1>8, <1>9, <1>10 DEF WatcherGoes

LEMMA SpentInit == Init => Spent
<1> SUFFICES ASSUME Init PROVE Spent
  OBVIOUS
<1>1. W = NoSession
  BY TypeInit, WatcherSession DEF Init, W
<1>2. \A h \in Handoffs : effects[h].replies = 0
  BY DEF Init
<1> QED
  BY <1>1, <1>2 DEF Spent, NoSession, Following, Answering

\* check_replies: a reply is sent to decide at most once, with any number of
\* requests that decide beside it and wherever the process dies.
THEOREM ReplyUsedOnce == Spec => []ReplySpentOnce
<1>1. Init => Spent
  BY SpentInit
<1>2. IInv /\ Spent /\ [Next]_vars => Spent'
  BY SpentNext
<1>3. Spent => ReplySpentOnce
  BY DEF Spent, ReplySpentOnce
<1> QED
  BY <1>1, <1>2, <1>3, Inductive, PTL DEF Spec

\* A reply stays pending no longer than the tick that took it: while nobody
\* decides on the card and no process has died.
Answered ==
    crashes = 0 =>
      /\ \A h \in Handoffs : rows[h].hist.reply = "pending" =>
           W.h = h /\ W.pc \in {"load"} \cup Answering
      /\ W.pc \in Following => W.hist.reply # "pending"

LEMMA AnsweredNext ==
    ASSUME Deciders = {}, IInv, Spent, Answered, [Next]_vars
    PROVE  Answered'
<1> SUFFICES ASSUME crashes' = 0
             PROVE  /\ \A h \in Handoffs : rows'[h].hist.reply = "pending" =>
                         W'.h = h /\ W'.pc \in {"load"} \cup Answering
                    /\ W'.pc \in Following => W'.hist.reply # "pending"
  BY DEF Answered
<1>1. Typed /\ Watching /\ Numbered
  BY DEF IInv
<1>2. crashes = 0 /\ ~Crash
  <2>1. crashes' = crashes \/ Crash
    BY DEF Next, GitHub, OnlyGitHub, PushTag, RunStarts, PypiStarts, RunEnds, JobSucceeds, JobFails,
       OwnerDecides, PassTime, Start, StartCheck, StartInsert, Decide, RequestDecision, DecideCheck,
       DecidePost, DecideRecord, Reply, OwnerReplies, Tick, TickStart, TakeHandoff, FindRun, AwaitRun,
       GetRun, ReadJobs, ReadPending, Advance, AfterCommit, CompleteTask, WriteNote, CreateAdoption,
       Notify, CommitEffects, CheckReplies, ReadMailbox, SpendReply, DecideLoad, RecordOutcome,
       Unavailable, vars
  <2>2. crashes \in Nat
    BY <1>1, ReleaseAssumption DEF Typed, TypeOK
  <2>3. Crash => crashes' # 0
    BY <2>2 DEF Crash
  <2> QED
    BY <2>1, <2>3
<1>3. WatcherGoes
  BY <1>1, WatcherMoves
<1>4. /\ \A h \in Handoffs : rows[h].hist.reply = "pending" =>
           W.h = h /\ W.pc \in {"load"} \cup Answering
      /\ W.pc \in Following => W.hist.reply # "pending"
  BY <1>2 DEF Answered
<1>5. RecordOutcome => W.pc = "outcome" /\ rows'[W.h].hist.reply # "pending"
  <2>1. W.pc = "outcome" => W.state # "pending"
    BY DEF Spent
  <2> QED
    BY <1>1, <2>1, OutcomeIs
<1>6. ASSUME NEW h \in Handoffs, rows'[h].hist.reply = "pending"
      PROVE  W'.h = h /\ W'.pc \in {"load"} \cup Answering
  <2>1. CASE rows[h].hist.reply = "pending"
    <3>1. W.h = h /\ W.pc \in {"load"} \cup Answering /\ ~RecordOutcome
      BY <1>4, <1>5, <1>6, <2>1
    <3>2. W.pc \notin Following /\ W.pc \notin {"next", "replies", "imap", "spend"}
      BY <3>1 DEF Following, Answering
    <3>3. SpendReply => W.pc = "spend"
      BY DEF SpendReply, At, W
    <3> QED
      BY <1>2, <1>3, <3>1, <3>2, <3>3 DEF WatcherGoes, Answering
  <2>2. CASE SpendReply /\ h = W.h
    BY <1>1, <2>2, StepIs DEF SpendReply
  <2>3. CASE DecideRecord(Watcher) /\ h = W.h
    <3>1. sess' = [sess EXCEPT ![Watcher] = [W EXCEPT !.pc = "outcome", !.hist = WithDecision(Watcher)]]
      BY <2>3 DEF DecideRecord, W
    <3>2. W' = [W EXCEPT !.pc = "outcome", !.hist = WithDecision(Watcher)]
      BY <1>1, <3>1, Becomes
    <3> QED
      BY <2>3, <3>2, WatcherSession DEF Sessions, Answering
  <2>4. CASE (AwaitRun \/ Advance) /\ h = W.h /\ Like(rows'[h].hist, W.hist)
    BY <1>4, <1>6, <2>4 DEF AwaitRun, Advance, At, W, Following, Like
  <2> QED
    BY <1>1, <1>5, <1>6, <2>1, <2>2, <2>3, <2>4, HistGoes DEF HistFrom, Like, W
<1>7. ASSUME W'.pc \in Following PROVE W'.hist.reply # "pending"
  <2>1. W.pc = "next" => \A h \in Handoffs : rows[h].hist.reply # "pending"
    BY <1>4 DEF Answering
  <2> QED
    BY <1>3, <1>4, <1>7, <2>1 DEF WatcherGoes, Quiet, Following, Answering
<1> QED
  BY <1>6, <1>7

LEMMA AnsweredInit == Init => Answered
<1> SUFFICES ASSUME Init PROVE Answered
  OBVIOUS
<1>1. W = NoSession
  BY TypeInit, WatcherSession DEF Init, W
<1> QED
  BY <1>1 DEF Init, Answered, NoRow, NoHistory, NoSession, Following

\* check_replies: while nobody decides on the card, a reply is used once, and
\* the tick that takes it records its outcome unless the process dies.
THEOREM ReplyHasOneUse == ASSUME Deciders = {} PROVE Spec => []OneUsePerReply
<1>1. Init => Spent /\ Answered
  BY SpentInit, AnsweredInit
<1>2. IInv /\ Spent /\ [Next]_vars => Spent'
  BY SpentNext
<1>3. IInv /\ Spent /\ Answered /\ [Next]_vars => Answered'
  BY AnsweredNext
<1>4. Spent /\ Answered => OneUsePerReply
  BY DEF Spent, Answered, OneUsePerReply, ReplySpentOnce, ReplyAnswered
<1> QED
  BY <1>1, <1>2, <1>3, <1>4, Inductive, PTL DEF Spec
=============================================================================
