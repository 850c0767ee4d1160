------------------------ MODULE ReleasePromise_proofs ------------------------
(***************************************************************************)
(* The handoff keeps what ReleasePromise promises: what a row says is true *)
(* of GitHub, stages and mails come in order and once, and nothing is      *)
(* recorded of a release that is not finished.  For every number of        *)
(* handoffs, requests, failures and crashes and every pair of limits.      *)
(***************************************************************************)
EXTENDS ReleaseHandoff_proofs

-----------------------------------------------------------------------------
(* The inductive invariant.                                                *)

Ended == {"success", "failure", "cancelled"}

\* GitHub's facts come in an order.
Ordered(g) ==
    /\ g.run # "none" => g.tag
    /\ g.run = "none" => \A r \in Roles : g.jobs[r] = "queued"
    /\ g.gate # "closed" => g.jobs["testpypi"] = "success"
    /\ PypiStarted(g) => g.gate = "approved"
    /\ \A r \in {"wheel", "release"} :
         g.jobs[r] \in {"in_progress", "success", "failure"} => g.jobs["pypi"] = "success"
    /\ g.run = "success" => \A r \in Roles : g.jobs[r] = "success"
    /\ \A r \in Roles : g.jobs[r] = "cancelled" => g.run = "cancelled"

\* What the watcher has read in this tick has happened.
Read(s, g) ==
    /\ s.run \in Ended => g.run = s.run
    /\ \A r \in Roles : s.jobs[r] \in Ended => g.jobs[r] = s.jobs[r]
    /\ PypiStarted(s) => g.gate = "approved"
    /\ s.pending => g.jobs["testpypi"] = "success"
ReadsTrue ==
    /\ Read(seen, gh)
    /\ W.pc \in {"jobs", "pending", "advance"} => gh.run # "none"

\* What a row says is true of GitHub, and the row of a run is not one of a
\* handoff that failed for want of a run.
Tagged(hist, g) == "tagged" \in hist.stages => g.tag
RowTrue(row, g) ==
    /\ row.stage \in Facts \cup {"done"} => g.run # "none" /\ row.run
    /\ row.stage = "at_gate" => g.jobs["testpypi"] = "success"
    /\ row.stage = "approved" => g.gate = "approved"
    /\ row.stage = "published" => g.jobs["pypi"] = "success"
    /\ row.stage = "done" => Finished(g)
    /\ row.run => g.run # "none" /\ row.stage # "none"
    /\ row.failure # "none" => row.stage = "failed"
    /\ row.failure = "rejected" => g.gate = "rejected"
    /\ row.failure = "cancelled" => g.run = "cancelled"
    /\ row.failure = "job_failed" => \E r \in Roles : g.jobs[r] \in {"failure", "cancelled"}
    /\ row.failure = "run_failed" => g.run = "failure"
    /\ row.failure = "no_tag" => ~row.run /\ "tagged" \notin row.hist.stages
    /\ row.failure = "no_run" => /\ ~row.run /\ "tagged" \in row.hist.stages
                                 /\ row.taggedAge > NoRunLimit
    /\ Tagged(row.hist, g)
RowsTrue == \A h \in Handoffs : RowTrue(rows[h], gh)

\* A thread that may write a history back holds one of a handoff with a run.
Replying == {"imap", "spend", "load", "check", "post", "record", "outcome"}
Held(s) == Tagged(s.hist, gh) /\ (s.pc \in Replying => rows[s.h].run)
ThreadsHold == \A a \in Actors : Held(sess[a])

\* The watcher follows open handoffs only, and each once a tick.
Following == {"find", "await", "get", "jobs", "pending", "advance"}
Watching ==
    /\ \A h \in todo : Active(h)
    /\ W.pc \in Following => Active(W.h) /\ W.h \notin todo
    /\ W.pc \in {"find", "await"} => ~rows[W.h].run
    /\ W.pc = "get" => rows[W.h].run

\* What is yet to be done for the stage that a tick entered has not been done.
Recording == {"complete", "note", "adopt"}
Telling == Recording \cup {"notify"}
Due ==
    /\ W.pc \in Telling => /\ W.entered # {} /\ rows[W.h].stage = Latest(W.entered)
                           /\ rows[W.h].stage \in NotifyStages =>
                                effects[W.h].mails[rows[W.h].stage] = 0
    /\ W.pc \in Recording => rows[W.h].stage = "done" /\ effects[W.h].adoptions = 0

\* What has left the system is of a stage the handoff has reached.
EffectsFit == \A h \in Handoffs :
    /\ \A s \in NotifyStages : /\ effects[h].mails[s] <= 1
                               /\ effects[h].mails[s] > 0 => Position[s] <= Position[rows[h].stage]
    /\ effects[h].completed + effects[h].notes + effects[h].adoptions > 0 => rows[h].stage = "done"
    /\ effects[h].adoptions <= 1

\* Handoffs are numbered as they come.
Numbered == \E k \in 0 .. MaxHandoffs : \A h \in Handoffs : Exists(h) <=> h <= k

IInv ==
    /\ Typed /\ Ordered(gh) /\ ReadsTrue /\ RowsTrue /\ ThreadsHold
    /\ Watching /\ Due /\ EffectsFit /\ Numbered

-----------------------------------------------------------------------------
(* GitHub.                                                                 *)

\* GitHub takes nothing back.
Grown(g, k) ==
    /\ g.tag => k.tag
    /\ g.run # "none" => k.run # "none"
    /\ g.run \in Ended => k.run = g.run
    /\ \A r \in Roles : g.jobs[r] \in Ended => k.jobs[r] = g.jobs[r]
    /\ g.gate \in Verdicts => k.gate = g.gate

LEMMA OrderedJob ==
    ASSUME gh \in Truths, Ordered(gh), NEW r \in Roles, JobSucceeds(r) \/ JobFails(r)
    PROVE  Ordered(gh') /\ Grown(gh, gh')
<1>1. gh.run = "in_progress" /\ gh.jobs[r] = "in_progress"
  BY DEF JobSucceeds, JobFails
<1>2. CASE JobFails(r)
  <2>1. /\ gh'.tag = gh.tag /\ gh'.run = gh.run /\ gh'.gate = gh.gate
        /\ gh'.jobs[r] = "failure" /\ \A q \in Roles : q # r => gh'.jobs[q] = gh.jobs[q]
    BY <1>2 DEF JobFails, Truths
  <2> QED
    BY <1>1, <2>1 DEF Ordered, Grown, Ended, Roles, PypiStarted
<1>3. CASE JobSucceeds(r) /\ r = "testpypi"
  <2>1. /\ gh'.tag = gh.tag /\ gh'.run = gh.run /\ gh'.gate = "pending"
        /\ gh'.jobs[r] = "success" /\ \A q \in Roles : q # r => gh'.jobs[q] = gh.jobs[q]
    BY <1>3 DEF JobSucceeds, Truths
  <2> QED
    BY <1>1, <1>3, <2>1 DEF Ordered, Grown, Ended, Roles, PypiStarted, Verdicts
<1>4. CASE JobSucceeds(r) /\ r = "pypi"
  <2>1. /\ gh'.tag = gh.tag /\ gh'.run = gh.run /\ gh'.gate = gh.gate
        /\ gh'.jobs["pypi"] = "success" /\ gh'.jobs["testpypi"] = gh.jobs["testpypi"]
        /\ gh'.jobs["wheel"] = "in_progress" /\ gh'.jobs["release"] = "in_progress"
    BY <1>4 DEF JobSucceeds, Truths, Roles
  <2> QED
    BY <1>1, <1>4, <2>1 DEF Ordered, Grown, Ended, Roles, PypiStarted
<1>5. CASE JobSucceeds(r) /\ r \in {"wheel", "release"}
  <2>1. /\ gh'.tag = gh.tag /\ gh'.run = gh.run /\ gh'.gate = gh.gate
        /\ gh'.jobs[r] = "success" /\ \A q \in Roles : q # r => gh'.jobs[q] = gh.jobs[q]
    BY <1>5 DEF JobSucceeds, Truths
  <2> QED
    BY <1>1, <1>5, <2>1 DEF Ordered, Grown, Ended, Roles, PypiStarted
<1> QED
  BY <1>2, <1>3, <1>4, <1>5 DEF Roles

LEMMA OrderedEnd ==
    ASSUME gh \in Truths, Ordered(gh), RunEnds
    PROVE  Ordered(gh') /\ Grown(gh, gh')
<1>1. CASE gh' = [gh EXCEPT !.run = "success"] /\ \A r \in Roles : gh.jobs[r] = "success"
  <2>1. gh'.tag = gh.tag /\ gh'.run = "success" /\ gh'.gate = gh.gate /\ gh'.jobs = gh.jobs
    BY <1>1 DEF Truths
  <2> QED
    BY <1>1, <2>1 DEF RunEnds, Ordered, Grown, Ended, PypiStarted
<1>2. CASE gh' = [gh EXCEPT !.run = "failure"]
  <2>1. gh'.tag = gh.tag /\ gh'.run = "failure" /\ gh'.gate = gh.gate /\ gh'.jobs = gh.jobs
    BY <1>2 DEF Truths
  <2> QED
    BY <2>1 DEF RunEnds, Ordered, Grown, Ended, PypiStarted
<1>3. CASE gh' = [gh EXCEPT !.run = "cancelled",
                            !.gate = IF @ = "pending" THEN "closed" ELSE @,
                            !.jobs = [r \in Roles |-> IF @[r] \in {"queued", "in_progress"}
                                                      THEN "cancelled" ELSE @[r]]]
  <2>1. /\ gh'.tag = gh.tag /\ gh'.run = "cancelled"
        /\ gh'.gate = IF gh.gate = "pending" THEN "closed" ELSE gh.gate
        /\ \A r \in Roles : gh'.jobs[r] = IF gh.jobs[r] \in {"queued", "in_progress"}
                                          THEN "cancelled" ELSE gh.jobs[r]
    BY <1>3 DEF Truths
  <2> QED
    BY <2>1 DEF RunEnds, Ordered, Grown, Ended, PypiStarted, Roles, Verdicts
<1> QED
  BY <1>1, <1>2, <1>3 DEF RunEnds

LEMMA OrderedNext ==
    ASSUME Typed, Ordered(gh),
           GitHub \/ PassTime \/ (\E a \in Actors : DecidePost(a)) \/ UNCHANGED gh
    PROVE  Ordered(gh') /\ Grown(gh, gh')
<1>0. gh \in Truths
  BY DEF Typed, TypeOK
<1>1. CASE PushTag
  <2>1. gh'.tag /\ gh'.run = gh.run /\ gh'.gate = gh.gate /\ gh'.jobs = gh.jobs
    BY <1>0, <1>1 DEF PushTag, Truths
  <2> QED
    BY <2>1 DEF Ordered, Grown, PypiStarted
<1>2. CASE RunStarts
  <2>1. /\ gh'.tag /\ gh'.run = "in_progress" /\ gh'.gate = gh.gate
        /\ gh'.jobs["testpypi"] = "in_progress" /\ gh'.jobs["pypi"] = gh.jobs["pypi"]
        /\ gh'.jobs["wheel"] = gh.jobs["wheel"] /\ gh'.jobs["release"] = gh.jobs["release"]
    BY <1>0, <1>2 DEF RunStarts, Truths, Roles
  <2>2. gh.tag /\ gh.run = "none" /\ \A r \in Roles : gh.jobs[r] = "queued"
    BY <1>2 DEF RunStarts, Ordered
  <2>3. gh.gate = "closed"
    BY <2>2 DEF Ordered, Roles
  <2> QED
    BY <2>1, <2>2, <2>3 DEF Ordered, Grown, PypiStarted, Roles, Ended, Verdicts
<1>3. CASE PypiStarts
  <2>1. /\ gh'.tag = gh.tag /\ gh'.run = gh.run /\ gh'.gate = gh.gate
        /\ gh'.jobs["pypi"] = "in_progress" /\ gh'.jobs["testpypi"] = gh.jobs["testpypi"]
        /\ gh'.jobs["wheel"] = gh.jobs["wheel"] /\ gh'.jobs["release"] = gh.jobs["release"]
    BY <1>0, <1>3 DEF PypiStarts, Truths, Roles
  <2>2. gh.run = "in_progress" /\ gh.gate = "approved" /\ gh.jobs["pypi"] = "queued"
    BY <1>3 DEF PypiStarts
  <2> QED
    BY <2>1, <2>2 DEF Ordered, Grown, PypiStarted, Roles, Ended, Verdicts
<1>4. ASSUME NEW v \in Verdicts, NEW by, gh.gate = "pending",
             gh' = [gh EXCEPT !.gate = v, !.by = by]
      PROVE  Ordered(gh') /\ Grown(gh, gh')
  <2>1. gh'.tag = gh.tag /\ gh'.run = gh.run /\ gh'.gate = v /\ gh'.jobs = gh.jobs
    BY <1>0, <1>4 DEF Truths
  <2> QED
    BY <1>4, <2>1 DEF Ordered, Grown, PypiStarted, Verdicts
<1>5. ASSUME NEW v \in Verdicts, OwnerDecides(v) PROVE Ordered(gh') /\ Grown(gh, gh')
  BY <1>4, <1>5 DEF OwnerDecides
<1>6. ASSUME NEW a \in Actors, DecidePost(a), gh' # gh PROVE Ordered(gh') /\ Grown(gh, gh')
  <2>1. sess[a].state \in Verdicts
    BY <1>6 DEF DecidePost, At, Typed, Intent, Sound, Deciding
  <2> QED
    BY <1>4, <1>6, <2>1 DEF DecidePost
<1>7. CASE PassTime
  <2>1. gh'.tag = gh.tag /\ gh'.run = gh.run /\ gh'.gate = gh.gate /\ gh'.jobs = gh.jobs
    BY <1>0, <1>7 DEF PassTime, Truths
  <2> QED
    BY <2>1 DEF Ordered, Grown, PypiStarted
<1>8. CASE gh' = gh
  BY <1>8 DEF Grown
<1> QED
  BY <1>0, <1>1, <1>2, <1>3, <1>5, <1>6, <1>7, <1>8, OrderedJob, OrderedEnd DEF GitHub

LEMMA GitHubNext ==
    ASSUME [Next]_vars
    PROVE  GitHub \/ PassTime \/ (\E a \in Actors : DecidePost(a)) \/ UNCHANGED gh
BY DEF Next, vars, Start, StartCheck, StartInsert, Decide, RequestDecision, DecideCheck, DecideRecord,
       Reply, OwnerReplies, Tick, TickStart, TakeHandoff, FindRun, AwaitRun, GetRun, ReadJobs,
       ReadPending, Advance, AfterCommit, CompleteTask, WriteNote, CreateAdoption, Notify,
       CommitEffects, CheckReplies, ReadMailbox, SpendReply, DecideLoad, RecordOutcome, Unavailable,
       Crash, Actors

LEMMA ReadStays ==
    ASSUME NEW s, NEW g, NEW k, Read(s, g), Grown(g, k)
    PROVE  Read(s, k)
BY DEF Read, Grown, Ended, Roles, Verdicts

LEMMA RowTrueStays ==
    ASSUME NEW row, NEW g, NEW k, RowTrue(row, g), Grown(g, k)
    PROVE  RowTrue(row, k)
BY DEF RowTrue, Grown, Ended, Roles, Verdicts, Finished, Tagged

-----------------------------------------------------------------------------
(* The rows.                                                               *)

\* The columns that what a row says of GitHub rests on.
Keeps(h) ==
    /\ rows'[h].stage = rows[h].stage /\ rows'[h].failure = rows[h].failure
    /\ rows'[h].run = rows[h].run
    /\ rows[h].run \/ rows'[h].hist.stages = rows[h].hist.stages
    /\ Active(h) \/ rows'[h].taggedAge = rows[h].taggedAge
    /\ Tagged(rows'[h].hist, gh)

LEMMA KeptAsItIs ==
    ASSUME RowsTrue, rows' = rows
    PROVE  \A h \in Handoffs : Keeps(h)
BY DEF RowsTrue, RowTrue, Keeps

LEMMA KeptByDecision ==
    ASSUME Typed, RowsTrue, ThreadsHold, NEW a \in Actors, sess[a].pc \in Replying,
           NEW x \in Histories, x.stages = sess[a].hist.stages,
           rows' = [rows EXCEPT ![sess[a].h].hist = x]
    PROVE  \A h \in Handoffs : Keeps(h)
<1>1. Sound(sess[a]) /\ Held(sess[a]) /\ rows \in [Handoffs -> Rows]
  BY DEF Typed, TypeOK, Intent, ThreadsHold
<1>2. sess[a].h \in Handoffs /\ rows[sess[a].h].run /\ Tagged(x, gh)
  BY <1>1 DEF Sound, Aimless, Replying, Held, Tagged
<1>3. \A h \in Handoffs : h # sess[a].h => rows'[h] = rows[h]
  BY <1>1
<1>4. rows'[sess[a].h] = [rows[sess[a].h] EXCEPT !.hist = x]
  BY <1>1, <1>2
<1>5. Keeps(sess[a].h)
  <2>1. ASSUME NEW row \in Rows
        PROVE  LET new == [row EXCEPT !.hist = x] IN
                 /\ new.stage = row.stage /\ new.failure = row.failure /\ new.run = row.run
                 /\ new.hist = x /\ new.taggedAge = row.taggedAge
    BY DEF Rows
  <2> QED
    BY <1>1, <1>2, <1>4, <2>1 DEF Keeps
<1> QED
  BY <1>3, <1>5 DEF RowsTrue, RowTrue, Keeps

LEMMA KeptByEffects ==
    ASSUME Typed, RowsTrue, CreateAdoption \/ CommitEffects
    PROVE  \A h \in Handoffs : Keeps(h)
<1>1. rows \in [Handoffs -> Rows]
  BY DEF Typed, TypeOK
<1>2. \A h \in Handoffs : /\ rows'[h].stage = rows[h].stage /\ rows'[h].failure = rows[h].failure
                          /\ rows'[h].run = rows[h].run /\ rows'[h].hist = rows[h].hist
                          /\ rows'[h].taggedAge = rows[h].taggedAge
  <2>1. CASE CreateAdoption
    <3>1. PICK n : rows' = [rows EXCEPT ![W.h].note = @ \/ (n = 1 /\ W.note)]
      BY <2>1 DEF CreateAdoption
    <3> QED
      BY <1>1, <3>1 DEF Rows
  <2>2. CASE CommitEffects
    <3>1. PICK told : rows' = [rows EXCEPT ![W.h] = Committed(rows[W.h], told)]
      BY <2>2 DEF CommitEffects
    <3>2. ASSUME NEW row \in Rows
          PROVE  LET new == Committed(row, told) IN
                   /\ new.stage = row.stage /\ new.failure = row.failure /\ new.run = row.run
                   /\ new.hist = row.hist /\ new.taggedAge = row.taggedAge
      BY DEF Committed, Rows
    <3> QED
      BY <1>1, <3>1, <3>2
  <2> QED
    BY <2>1, <2>2
<1> QED
  BY <1>2 DEF RowsTrue, RowTrue, Keeps

LEMMA KeptByTime ==
    ASSUME Typed, RowsTrue, PassTime
    PROVE  \A h \in Handoffs : Keeps(h)
BY Aged DEF RowsTrue, RowTrue, Keeps

\* A step keeps the rows, or it is one of three.
LEMMA RowsMove ==
    ASSUME Typed, RowsTrue, ThreadsHold, [Next]_vars
    PROVE  \/ \A h \in Handoffs : Keeps(h)
           \/ \E a \in Starters : StartInsert(a)
           \/ AwaitRun \/ Advance
<1>1. CASE GitHub \/ Reply \/ Unavailable \/ Crash \/ UNCHANGED vars
  BY <1>1, KeptAsItIs DEF GitHub, OnlyGitHub, PushTag, RunStarts, PypiStarts, RunEnds, JobSucceeds,
       JobFails, OwnerDecides, Reply, OwnerReplies, Unavailable, Crash, vars
<1>2. ASSUME NEW a \in Starters, StartCheck(a) PROVE \A h \in Handoffs : Keeps(h)
  BY <1>2, KeptAsItIs DEF StartCheck
<1>3. ASSUME NEW a \in Deciders, NEW h \in Handoffs, NEW v \in Verdicts, RequestDecision(a, h, v)
      PROVE  \A g \in Handoffs : Keeps(g)
  BY <1>3, KeptAsItIs DEF RequestDecision
<1>4. ASSUME NEW a \in Actors, DecideCheck(a) \/ DecidePost(a) PROVE \A h \in Handoffs : Keeps(h)
  BY <1>4, KeptAsItIs DEF DecideCheck, DecidePost
<1>5. ASSUME NEW a \in Actors, DecideRecord(a) PROVE \A h \in Handoffs : Keeps(h)
  <2>1. sess[a].pc = "record" /\ sess[a] \in Sessions /\ Sound(sess[a])
    BY <1>5 DEF DecideRecord, At, Typed, TypeOK, Intent
  <2>2. WithDecision(a) \in Histories /\ WithDecision(a).stages = sess[a].hist.stages
    BY <2>1 DEF WithDecision, Sessions, Histories, Sound, Deciding, Via, Channels
  <2>3. rows' = [rows EXCEPT ![sess[a].h].hist = WithDecision(a)]
    BY <1>5 DEF DecideRecord
  <2> QED
    BY <2>1, <2>2, <2>3, KeptByDecision DEF Replying
<1>6. CASE TickStart \/ TakeHandoff \/ FindRun \/ GetRun \/ ReadJobs \/ ReadPending \/ CompleteTask
           \/ WriteNote \/ Notify \/ CheckReplies \/ ReadMailbox \/ DecideLoad
  BY <1>6, KeptAsItIs DEF TickStart, TakeHandoff, FindRun, GetRun, ReadJobs, ReadPending, CompleteTask,
       WriteNote, Notify, CheckReplies, ReadMailbox, DecideLoad
<1>7. CASE SpendReply
  <2>1. Watcher \in Actors /\ W \in Sessions /\ W.pc = "spend" /\ W = sess[Watcher]
    BY <1>7, WatcherSession DEF SpendReply, At, W
  <2> DEFINE x == [W.hist EXCEPT !.reply = "pending"]
  <2>2. x \in Histories /\ x.stages = W.hist.stages
    BY <2>1 DEF Sessions, Histories, Outcomes
  <2>3. rows' = [rows EXCEPT ![W.h].hist = x]
    BY <1>7 DEF SpendReply
  <2> QED
    BY <2>1, <2>2, <2>3, KeptByDecision DEF Replying
<1>8. CASE RecordOutcome
  <2>1. Watcher \in Actors /\ W \in Sessions /\ W.pc = "outcome" /\ W = sess[Watcher]
    BY <1>8, WatcherSession DEF RecordOutcome, At, W
  <2> DEFINE x == [W.hist EXCEPT !.reply = IF @ = "none" THEN "none" ELSE W.state]
  <2>2. x \in Histories /\ x.stages = W.hist.stages
    BY <2>1 DEF Sessions, Histories, Outcomes
  <2>3. rows' = [rows EXCEPT ![W.h].hist = x]
    BY <1>8 DEF RecordOutcome
  <2> QED
    BY <2>1, <2>2, <2>3, KeptByDecision DEF Replying
<1> QED
  BY <1>1, <1>2, <1>3, <1>4, <1>5, <1>6, <1>7, <1>8, KeptByEffects, KeptByTime, WatcherSession
  DEF Next, Start, Decide, Tick, Actors

LEMMA KeptIsTrue ==
    ASSUME NEW h \in Handoffs, RowTrue(rows[h], gh), Keeps(h)
    PROVE  RowTrue(rows'[h], gh)
BY DEF RowTrue, Keeps, Tagged, Active, Terminal

LEMMA LatestDone ==
    ASSUME NEW S \in SUBSET (Facts \cup {"done"}), "done" \in S
    PROVE  Latest(S) = "done"
<1>1. Latest(S) \in S /\ \A t \in S : Position[t] <= Position[Latest(S)]
  BY LatestIs DEF Reached, Terminal
<1>2. ASSUME NEW s \in Facts PROVE ~(Position["done"] <= Position[s])
  BY Positions DEF Facts
<1> QED
  BY <1>1, <1>2

LEMMA LatestFailed ==
    ASSUME NEW S \in SUBSET (Facts \cup {"done"})
    PROVE  Latest(S \cup {"failed"}) = "failed"
<1> DEFINE T == S \cup {"failed"}
<1>1. Latest(T) \in T /\ \A t \in T : Position[t] <= Position[Latest(T)]
  <2>1. T \in SUBSET Reached /\ T # {}
    BY DEF Reached, Terminal
  <2> QED
    BY <2>1, LatestIs
<1>2. ASSUME NEW s \in Facts \cup {"done"} PROVE ~(Position["failed"] <= Position[s])
  BY Positions DEF Facts
<1> QED
  BY <1>1, <1>2

\* What advance commits.
LEMMA AdvanceIs ==
    ASSUME Typed, Watching, Advance
    PROVE  \E why \in {"none", "stalled", Failure(seen, gh.gate = "rejected")} :
             LET entered == NewStages(rows[W.h].stage, Events(seen, gh.gate = "rejected"))
                 row == rows'[W.h] IN
             /\ row.run /\ row.failure = IF why = "none" THEN rows[W.h].failure ELSE why
             /\ row.stage = IF why # "none" THEN "failed"
                            ELSE IF entered = {} THEN rows[W.h].stage ELSE Latest(entered)
             /\ "tagged" \in row.hist.stages => "tagged" \in rows[W.h].hist.stages \cup W.hist.stages
             /\ \A h \in Handoffs : h # W.h => rows'[h] = rows[h]
             /\ why # "none" => "done" \notin entered
             /\ AfterCommit(IF why = "none" THEN entered ELSE entered \cup {"failed"})
<1> DEFINE rejected == gh.gate = "rejected"
           entered == NewStages(rows[W.h].stage, Events(seen, rejected))
           moved == [Advanced(rows[W.h], W.hist, entered) EXCEPT !.run = TRUE]
           hist == IF entered = {} THEN W.hist ELSE moved.hist
           failure == Failure(seen, rejected)
<1>1. /\ rows \in [Handoffs -> Rows] /\ gh \in Truths /\ W.pc = "advance"
      /\ W.hist \in Histories /\ W.h \in Handoffs /\ Active(W.h)
  BY WatcherSession DEF Advance, At, W, Typed, TypeOK, Sound, Aimless, Watching, Following, Sessions
<1>2. entered \in SUBSET (Facts \cup {"done"})
  BY EventsType DEF NewStages
<1>3. \/ rows' = [rows EXCEPT ![W.h] = moved] /\ AfterCommit(entered)
      \/ /\ moved.stage # "done" /\ failure # "none" /\ AfterCommit(entered \cup {"failed"})
         /\ rows' = [rows EXCEPT ![W.h] = Failed(moved, hist, failure)]
      \/ /\ moved.stage # "done" /\ entered = {} /\ AfterCommit({"failed"})
         /\ rows' = [rows EXCEPT ![W.h] = Failed(moved, hist, "stalled")]
  BY DEF Advance, Stalled
<1> HIDE DEF rejected, entered, failure
<1>4. moved \in Rows
  <2>1. Advanced(rows[W.h], W.hist, entered) \in Rows
    BY <1>1, <1>2, AdvancedType
  <2> QED
    BY <2>1 DEF Rows
<1>5. /\ moved.run /\ moved.failure = rows[W.h].failure
      /\ moved.stage = IF entered = {} THEN rows[W.h].stage ELSE Latest(entered)
      /\ "tagged" \in moved.hist.stages => "tagged" \in rows[W.h].hist.stages \cup W.hist.stages
      /\ "tagged" \in hist.stages => "tagged" \in rows[W.h].hist.stages \cup W.hist.stages
  <2>1. CASE entered = {}
    BY <1>1, <2>1 DEF Advanced, Rows
  <2>2. CASE entered # {}
    <3>1. "tagged" \notin entered
      BY <1>2 DEF Facts
    <3>2. /\ moved.run /\ moved.failure = rows[W.h].failure /\ moved.stage = Latest(entered)
          /\ moved.hist.stages = W.hist.stages \cup entered
      BY <1>1, <2>2 DEF Advanced, Rows, Histories
    <3> QED
      BY <2>2, <3>1, <3>2
  <2> QED
    BY <2>1, <2>2
<1>6. moved.stage # "done" => "done" \notin entered
  <2> HIDE DEF moved
  <2> QED
    BY <1>2, <1>5, LatestDone
<1>7. hist \in Histories
  BY <1>1, <1>4 DEF Rows
<1> HIDE DEF moved, hist
<1>8. ASSUME NEW why
      PROVE  LET row == Failed(moved, hist, why) IN
             /\ row.run /\ row.failure = why /\ row.stage = "failed"
             /\ "tagged" \in row.hist.stages => "tagged" \in rows[W.h].hist.stages \cup W.hist.stages
  BY <1>4, <1>5, <1>7 DEF Failed, Rows, Histories
<1> DEFINE Goal(why) ==
      /\ rows'[W.h].run /\ rows'[W.h].failure = IF why = "none" THEN rows[W.h].failure ELSE why
      /\ rows'[W.h].stage = IF why # "none" THEN "failed"
                            ELSE IF entered = {} THEN rows[W.h].stage ELSE Latest(entered)
      /\ "tagged" \in rows'[W.h].hist.stages =>
           "tagged" \in rows[W.h].hist.stages \cup W.hist.stages
      /\ \A h \in Handoffs : h # W.h => rows'[h] = rows[h]
      /\ why # "none" => "done" \notin entered
      /\ AfterCommit(IF why = "none" THEN entered ELSE entered \cup {"failed"})
<1>9. \E why \in {"none", "stalled", failure} : Goal(why)
  <2>1. CASE rows' = [rows EXCEPT ![W.h] = moved] /\ AfterCommit(entered)
    <3>1. rows'[W.h] = moved /\ \A h \in Handoffs : h # W.h => rows'[h] = rows[h]
      BY <1>1, <2>1
    <3>2. Goal("none")
      BY <1>5, <2>1, <3>1
    <3> HIDE DEF Goal
    <3> QED
      BY <3>2
  <2>2. ASSUME NEW why \in {"stalled", failure}, why # "none", moved.stage # "done",
               AfterCommit(entered \cup {"failed"}),
               rows' = [rows EXCEPT ![W.h] = Failed(moved, hist, why)]
        PROVE  Goal(why)
    <3>1. rows'[W.h] = Failed(moved, hist, why) /\ \A h \in Handoffs : h # W.h => rows'[h] = rows[h]
      BY <1>1, <2>2
    <3> QED
      BY <1>6, <1>8, <2>2, <3>1
  <2>3. entered = {} => entered \cup {"failed"} = {"failed"}
    OBVIOUS
  <2> HIDE DEF Goal
  <2> QED
    BY <1>3, <2>1, <2>2, <2>3
<1> QED
  BY <1>9 DEF entered, failure, rejected

\* Each stage that is read off GitHub's answers is a fact.
LEMMA EventsAreFacts ==
    ASSUME Read(seen, gh), Ordered(gh), NEW e \in Events(seen, gh.gate = "rejected")
    PROVE  /\ e = "at_gate" => gh.jobs["testpypi"] = "success"
           /\ e = "approved" => gh.gate = "approved"
           /\ e = "published" => gh.jobs["pypi"] = "success"
           /\ e = "done" => Finished(gh)
<1>1. Finished(seen) => Finished(gh)
  BY DEF Read, Finished, Ended, Roles
<1>2. seen.jobs["pypi"] = "success" => gh.jobs["pypi"] = "success"
  BY DEF Read, Ended, Roles
<1>3. PypiStarted(seen) => gh.gate = "approved"
  BY DEF Read
<1>4. seen.pending \/ PypiStarted(seen) \/ gh.gate = "rejected" => gh.jobs["testpypi"] = "success"
  BY <1>3 DEF Read, Ordered
<1> QED
  BY <1>1, <1>2, <1>3, <1>4 DEF Events

LEMMA FailuresAreFacts ==
    ASSUME Read(seen, gh), NEW why, why = Failure(seen, gh.gate = "rejected")
    PROVE  /\ why \in {"none", "rejected", "cancelled", "job_failed", "run_failed"}
           /\ why = "rejected" => gh.gate = "rejected"
           /\ why = "cancelled" => gh.run = "cancelled"
           /\ why = "job_failed" => \E r \in Roles : gh.jobs[r] \in {"failure", "cancelled"}
           /\ why = "run_failed" => gh.run = "failure"
BY DEF Failure, Read, Ended

LEMMA AdvanceIsTrue ==
    ASSUME Typed, Ordered(gh), ReadsTrue, RowsTrue, ThreadsHold, Watching, Advance
    PROVE  \A h \in Handoffs : RowTrue(rows'[h], gh)
<1> DEFINE entered == NewStages(rows[W.h].stage, Events(seen, gh.gate = "rejected"))
<1>1. PICK why \in {"none", "stalled", Failure(seen, gh.gate = "rejected")} :
        /\ rows'[W.h].run /\ rows'[W.h].failure = IF why = "none" THEN rows[W.h].failure ELSE why
        /\ rows'[W.h].stage = IF why # "none" THEN "failed"
                              ELSE IF entered = {} THEN rows[W.h].stage ELSE Latest(entered)
        /\ "tagged" \in rows'[W.h].hist.stages =>
             "tagged" \in rows[W.h].hist.stages \cup W.hist.stages
        /\ \A h \in Handoffs : h # W.h => rows'[h] = rows[h]
  BY AdvanceIs
<1>2. W.pc = "advance" /\ W.h \in Handoffs /\ Active(W.h) /\ gh.run # "none" /\ Read(seen, gh)
  BY WatcherSession DEF Advance, At, W, Sound, Aimless, Watching, Following, ReadsTrue
<1>3. RowTrue(rows[W.h], gh) /\ rows[W.h].failure = "none" /\ rows[W.h].stage \notin {"none", "done", "failed"}
  BY <1>2 DEF RowsTrue, RowTrue, Active, Terminal
<1>4. Tagged(rows'[W.h].hist, gh)
  <2>1. Held(W)
    BY WatcherSession DEF ThreadsHold, W
  <2> QED
    BY <1>1, <1>3, <2>1 DEF Held, RowTrue, Tagged
<1>5. RowTrue(rows'[W.h], gh)
  <2>1. CASE why = "none" /\ entered = {}
    BY <1>1, <1>2, <1>3, <1>4, <2>1 DEF RowTrue
  <2>2. CASE why = "none" /\ entered # {}
    <3>1. entered \in SUBSET (Facts \cup {"done"})
      BY EventsType DEF NewStages
    <3>2. Latest(entered) \in entered
      BY <2>2, <3>1, LatestType
    <3>3. Latest(entered) \in Events(seen, gh.gate = "rejected")
      BY <3>2 DEF NewStages
    <3>4. Latest(entered) \in Facts \cup {"done"}
      BY <3>1, <3>2
    <3> HIDE DEF entered
    <3> QED
      BY <1>1, <1>2, <1>3, <1>4, <2>2, <3>3, <3>4, EventsAreFacts DEF RowTrue, Facts
  <2>3. CASE why # "none"
    BY <1>1, <1>2, <1>4, <2>3, FailuresAreFacts DEF RowTrue, Facts
  <2> QED
    BY <2>1, <2>2, <2>3
<1> QED
  BY <1>1, <1>5 DEF RowsTrue

LEMMA AwaitIsTrue ==
    ASSUME Typed, RowsTrue, ThreadsHold, Watching, AwaitRun
    PROVE  \A h \in Handoffs : RowTrue(rows'[h], gh)
<1>1. /\ W.pc = "await" /\ W.h \in Handoffs /\ Active(W.h) /\ ~rows[W.h].run /\ Held(W)
      /\ W.hist \in Histories /\ rows \in [Handoffs -> Rows]
  BY WatcherSession DEF AwaitRun, At, W, Sound, Aimless, Watching, Following, ThreadsHold, Sessions,
                        Typed, TypeOK
<1>2. RowTrue(rows[W.h], gh) /\ rows[W.h].failure = "none" /\ rows[W.h].stage = "requested"
  <2>1. rows[W.h].stage \in Stages /\ RowTrue(rows[W.h], gh)
    BY <1>1 DEF Rows, RowsTrue
  <2> QED
    BY <1>1, <2>1 DEF RowTrue, Active, Terminal, Stages, Position, Facts
<1>3. CASE AwaitExpired(rows[W.h]) /\ "tagged" \in W.hist.stages
  <2>1. rows' = [rows EXCEPT ![W.h] = Failed(rows[W.h], W.hist, "no_run")]
    BY <1>3 DEF AwaitRun
  <2>2. /\ rows'[W.h].stage = "failed" /\ rows'[W.h].failure = "no_run" /\ ~rows'[W.h].run
        /\ rows'[W.h].hist.stages = W.hist.stages \cup {"failed"}
        /\ rows'[W.h].taggedAge = rows[W.h].taggedAge
    BY <1>1, <2>1 DEF Failed, Rows, Histories
  <2>3. rows[W.h].taggedAge > NoRunLimit
    BY <1>3 DEF AwaitExpired
  <2>4. RowTrue(rows'[W.h], gh)
    BY <1>1, <1>3, <2>2, <2>3 DEF RowTrue, Held, Tagged, Facts
  <2>5. \A h \in Handoffs : h # W.h => rows'[h] = rows[h]
    BY <1>1, <2>1
  <2> QED
    BY <2>4, <2>5 DEF RowsTrue
<1>4. CASE AwaitExpired(rows[W.h]) /\ "tagged" \notin W.hist.stages
  <2>1. rows' = [rows EXCEPT ![W.h] = Failed(rows[W.h], W.hist, "no_tag")]
    BY <1>4 DEF AwaitRun
  <2>2. /\ rows'[W.h].stage = "failed" /\ rows'[W.h].failure = "no_tag" /\ ~rows'[W.h].run
        /\ rows'[W.h].hist.stages = W.hist.stages \cup {"failed"}
    BY <1>1, <2>1 DEF Failed, Rows, Histories
  <2>3. RowTrue(rows'[W.h], gh)
    BY <1>1, <1>4, <2>2 DEF RowTrue, Held, Tagged, Facts
  <2>4. \A h \in Handoffs : h # W.h => rows'[h] = rows[h]
    BY <1>1, <2>1
  <2> QED
    BY <2>3, <2>4 DEF RowsTrue
<1>5. CASE gh.tag /\ rows' = [rows EXCEPT ![W.h] = FirstSight(rows[W.h])]
  <2>1. /\ rows'[W.h].stage = "requested" /\ rows'[W.h].failure = "none" /\ ~rows'[W.h].run
    BY <1>1, <1>2, <1>5 DEF FirstSight, Rows
  <2>2. RowTrue(rows'[W.h], gh)
    BY <1>5, <2>1 DEF RowTrue, Tagged, Facts
  <2>3. \A h \in Handoffs : h # W.h => rows'[h] = rows[h]
    BY <1>1, <1>5
  <2> QED
    BY <2>2, <2>3 DEF RowsTrue
<1>6. CASE rows' = rows
  BY <1>6 DEF RowsTrue
<1> QED
  BY <1>3, <1>4, <1>5, <1>6 DEF AwaitRun

LEMMA InsertIs ==
    ASSUME Typed, NEW a \in Starters, StartInsert(a)
    PROVE  \E row \in Rows :
             /\ rows' = [rows EXCEPT ![NextRow] = row]
             /\ row.stage = "requested" /\ row.failure = "none" /\ ~row.run
             /\ row.hist.stages = {"requested"} /\ row.after = sess[a].h
<1>1. PICK task \in BOOLEAN : rows' = [rows EXCEPT ![NextRow] =
        [NoRow EXCEPT !.stage = "requested", !.task = task, !.hist.stages = {"requested"},
                      !.after = sess[a].h]]
  BY DEF StartInsert
<1> DEFINE row == [NoRow EXCEPT !.stage = "requested", !.task = task, !.hist.stages = {"requested"},
                                !.after = sess[a].h]
<1>2. NoRow \in Rows /\ NoRow.hist \in Histories /\ "requested" \in Stages
  BY Blank DEF Rows, Stages, Position
<1>3. row \in Rows
  <2>1. sess[a].h \in {0} \cup Handoffs
    BY DEF Typed, TypeOK, Actors, Sessions
  <2> QED
    BY <1>2, <2>1 DEF Rows, Histories
<1>4. /\ row.stage = "requested" /\ row.failure = "none" /\ ~row.run
      /\ row.hist.stages = {"requested"} /\ row.after = sess[a].h
  BY DEF NoRow, NoHistory
<1> HIDE DEF row
<1> QED
  BY <1>1, <1>3, <1>4 DEF row

LEMMA RowsTrueNext ==
    ASSUME Typed, Ordered(gh), ReadsTrue, RowsTrue, ThreadsHold, Watching, [Next]_vars
    PROVE  RowsTrue'
<1>1. Grown(gh, gh')
  BY GitHubNext, OrderedNext
<1>2. \A h \in Handoffs : RowTrue(rows'[h], gh)
  <2>1. ASSUME NEW a \in Starters, StartInsert(a)
        PROVE  \A h \in Handoffs : RowTrue(rows'[h], gh)
    <3>1. PICK row \in Rows :
            /\ rows' = [rows EXCEPT ![NextRow] = row]
            /\ row.stage = "requested" /\ row.failure = "none" /\ ~row.run
            /\ row.hist.stages = {"requested"}
      BY <2>1, InsertIs
    <3>2. RowTrue(row, gh)
      BY <3>1 DEF RowTrue, Tagged, Facts
    <3>3. \A h \in Handoffs : rows'[h] = row \/ rows'[h] = rows[h]
      BY <3>1 DEF Typed, TypeOK
    <3> QED
      BY <3>2, <3>3 DEF RowsTrue
  <2>2. CASE \A h \in Handoffs : Keeps(h)
    BY <2>2, KeptIsTrue DEF RowsTrue
  <2> QED
    BY <2>1, <2>2, RowsMove, AdvanceIsTrue, AwaitIsTrue
<1> QED
  BY <1>1, <1>2, RowTrueStays DEF RowsTrue

-----------------------------------------------------------------------------
(* Where the rows' stages go.                                              *)

\* The next handoff has the first number that no handoff has.
LEMMA NextRowIs ==
    ASSUME Numbered
    PROVE  \E k \in 0 .. MaxHandoffs : NextRow = k + 1 /\ \A h \in Handoffs : Exists(h) <=> h <= k
<1>1. PICK k \in 0 .. MaxHandoffs : \A h \in Handoffs : Exists(h) <=> h <= k
  BY DEF Numbered
<1>2. MaxHandoffs \in Nat /\ k \in Nat /\ k <= MaxHandoffs
  BY ReleaseAssumption
<1>3. Created = 1 .. k
  BY <1>1, <1>2 DEF Created, Handoffs
<1>4. Cardinality(1 .. k) = k
  BY <1>2, FS_Interval
<1> QED
  BY <1>1, <1>3, <1>4 DEF NextRow

LEMMA InsertStage ==
    ASSUME Typed, Numbered, NEW a \in Starters, StartInsert(a)
    PROVE  /\ Numbered'
           /\ \A h \in Handoffs : \/ rows'[h] = rows[h]
                                  \/ /\ h = NextRow /\ ~Exists(h)
                                     /\ rows'[h].stage = "requested" /\ ~rows'[h].run
<1>1. PICK k \in 0 .. MaxHandoffs : NextRow = k + 1 /\ \A h \in Handoffs : Exists(h) <=> h <= k
  BY NextRowIs
<1>2. PICK row \in Rows :
        /\ rows' = [rows EXCEPT ![NextRow] = row]
        /\ row.stage = "requested" /\ row.failure = "none" /\ ~row.run
        /\ row.hist.stages = {"requested"}
  BY InsertIs
<1>3. MaxHandoffs \in Nat /\ k \in Nat /\ k <= MaxHandoffs /\ rows \in [Handoffs -> Rows]
  BY ReleaseAssumption DEF Typed, TypeOK
<1>4. /\ \A h \in Handoffs : h # NextRow => rows'[h] = rows[h]
      /\ NextRow \in Handoffs => rows'[NextRow] = row
  BY <1>2, <1>3
<1>5. NextRow \in Handoffs => ~Exists(NextRow)
  BY <1>1, <1>3 DEF Handoffs
<1>6. ASSUME k = MaxHandoffs PROVE Numbered'
  <2>1. rows' = rows
    <3>1. NextRow \notin Handoffs
      BY <1>1, <1>3, <1>6 DEF Handoffs
    <3> QED
      BY <1>2, <1>3, <3>1
  <2> QED
    BY <1>1, <2>1 DEF Numbered, Exists
<1>7. ASSUME k # MaxHandoffs PROVE Numbered'
  <2>1. k + 1 \in 0 .. MaxHandoffs /\ k + 1 \in Handoffs
    BY <1>3, <1>7 DEF Handoffs
  <2>2. ASSUME NEW h \in Handoffs PROVE (rows'[h].stage # "none") <=> h <= k + 1
    <3>1. CASE h = k + 1
      BY <1>1, <1>2, <1>3, <1>4, <3>1
    <3>2. CASE h # k + 1
      <4>1. h <= k <=> h <= k + 1
        BY <1>3, <3>2 DEF Handoffs
      <4> QED
        BY <1>1, <1>4, <3>2, <4>1 DEF Exists
    <3> QED
      BY <3>1, <3>2
  <2>3. \E m \in 0 .. MaxHandoffs : \A h \in Handoffs : (rows'[h].stage # "none") <=> h <= m
    <3> DEFINE m == k + 1
    <3>1. m \in 0 .. MaxHandoffs /\ \A h \in Handoffs : (rows'[h].stage # "none") <=> h <= m
      BY <2>1, <2>2
    <3> HIDE DEF m
    <3> QED
      BY <3>1
  <2> QED
    BY <2>3 DEF Numbered, Exists
<1> QED
  BY <1>2, <1>4, <1>5, <1>6, <1>7

\* Where a step of the watcher's takes its handoff.
Onward(h) ==
    /\ Active(h) /\ (rows[h].run => rows'[h].run)
    /\ \/ rows'[h].stage = rows[h].stage
       \/ rows'[h].stage \in Reached /\ Position[rows[h].stage] < Position[rows'[h].stage]

LEMMA AdvanceStage ==
    ASSUME Typed, Watching, Advance
    PROVE  /\ W.h \in Handoffs /\ Onward(W.h) /\ \A h \in Handoffs : h # W.h => rows'[h] = rows[h]
           /\ \E S \in SUBSET Reached :
                /\ AfterCommit(S) /\ ("done" \in S => "failed" \notin S)
                /\ S # {} => /\ rows'[W.h].stage = Latest(S)
                             /\ Position[rows[W.h].stage] < Position[rows'[W.h].stage]
<1> DEFINE entered == NewStages(rows[W.h].stage, Events(seen, gh.gate = "rejected"))
<1>1. PICK why \in {"none", "stalled", Failure(seen, gh.gate = "rejected")} :
        /\ rows'[W.h].run
        /\ rows'[W.h].stage = IF why # "none" THEN "failed"
                              ELSE IF entered = {} THEN rows[W.h].stage ELSE Latest(entered)
        /\ \A h \in Handoffs : h # W.h => rows'[h] = rows[h]
        /\ why # "none" => "done" \notin entered
        /\ AfterCommit(IF why = "none" THEN entered ELSE entered \cup {"failed"})
  BY AdvanceIs
<1>2. W.h \in Handoffs /\ Active(W.h) /\ rows[W.h].stage \in Stages
  BY WatcherSession DEF Advance, At, W, Sound, Aimless, Watching, Following, Typed, TypeOK, Rows
<1>3. entered \in SUBSET (Facts \cup {"done"})
  BY EventsType DEF NewStages
<1>4. entered # {} => /\ Latest(entered) \in entered
                      /\ Position[rows[W.h].stage] < Position[Latest(entered)]
  <2>1. entered # {} => Latest(entered) \in entered
    BY <1>3, LatestType
  <2>2. \A e \in entered : Position[e] > Position[rows[W.h].stage]
    BY DEF NewStages
  <2>3. \A e \in Facts \cup {"done"} : Position[e] \in Int
    BY Positions DEF Facts
  <2>4. Position[rows[W.h].stage] \in Int
    BY <1>2, Positions DEF Stages, Position
  <2> HIDE DEF entered
  <2> QED
    BY <1>3, <2>1, <2>2, <2>3, <2>4
<1> HIDE DEF entered
<1>5. Position[rows[W.h].stage] < Position["failed"]
  BY <1>2, Positions DEF Active, Terminal, Stages, Position
<1>6. CASE why = "none"
  <2>1. AfterCommit(entered) /\ entered \in SUBSET Reached /\ "failed" \notin entered
    BY <1>1, <1>3, <1>6 DEF Reached, Terminal, Facts
  <2>2. Onward(W.h)
    BY <1>1, <1>2, <1>4, <1>6, <2>1 DEF Onward
  <2> QED
    BY <1>1, <1>2, <1>4, <1>6, <2>1, <2>2
<1>7. CASE why # "none"
  <2> DEFINE S == entered \cup {"failed"}
  <2>1. AfterCommit(S) /\ S \in SUBSET Reached /\ "done" \notin S /\ S # {}
    BY <1>1, <1>3, <1>7 DEF Reached, Terminal
  <2>2. Latest(S) = "failed"
    BY <1>3, LatestFailed
  <2>3. Onward(W.h)
    BY <1>1, <1>2, <1>5, <1>7 DEF Onward, Reached, Terminal
  <2> HIDE DEF S
  <2> QED
    BY <1>1, <1>2, <1>5, <1>7, <2>1, <2>2, <2>3
<1> QED
  BY <1>6, <1>7

LEMMA AwaitStage ==
    ASSUME Typed, Watching, AwaitRun
    PROVE  /\ W.h \in Handoffs /\ Onward(W.h) /\ \A h \in Handoffs : h # W.h => rows'[h] = rows[h]
           /\ \E S \in SUBSET Reached :
                /\ AfterCommit(S) /\ ("done" \in S => "failed" \notin S)
                /\ S # {} => /\ rows'[W.h].stage = Latest(S)
                             /\ Position[rows[W.h].stage] < Position[rows'[W.h].stage]
<1>1. /\ W.h \in Handoffs /\ Active(W.h) /\ rows[W.h].stage \in Stages /\ rows \in [Handoffs -> Rows]
      /\ W.hist \in Histories
  BY WatcherSession DEF AwaitRun, At, W, Sound, Aimless, Watching, Following, Typed, TypeOK, Rows, Sessions
<1>2. Position[rows[W.h].stage] < Position["failed"]
  BY <1>1, Positions DEF Active, Terminal, Stages, Position
<1>3. Latest({"failed"}) = "failed" /\ "failed" \in Reached
  <2>1. {"failed"} = {} \cup {"failed"}
    OBVIOUS
  <2>2. {} \in SUBSET (Facts \cup {"done"})
    OBVIOUS
  <2>3. Latest({} \cup {"failed"}) = "failed"
    BY <2>2, LatestFailed
  <2> QED
    BY <2>1, <2>3 DEF Reached, Terminal
<1>4. ASSUME NEW why, rows' = [rows EXCEPT ![W.h] = Failed(rows[W.h], W.hist, why)], AfterCommit({"failed"})
      PROVE  /\ rows'[W.h].stage = "failed" /\ rows'[W.h].run = rows[W.h].run
             /\ \A h \in Handoffs : h # W.h => rows'[h] = rows[h]
  BY <1>1, <1>4 DEF Failed, Rows
<1>5. CASE AwaitExpired(rows[W.h])
  <2>1. PICK why : rows' = [rows EXCEPT ![W.h] = Failed(rows[W.h], W.hist, why)] /\ AfterCommit({"failed"})
    BY <1>5 DEF AwaitRun
  <2>2. /\ rows'[W.h].stage = "failed" /\ rows'[W.h].run = rows[W.h].run
        /\ \A h \in Handoffs : h # W.h => rows'[h] = rows[h]
    BY <1>4, <2>1
  <2>3. Onward(W.h)
    BY <1>1, <1>2, <1>3, <2>2 DEF Onward
  <2>4. {"failed"} \in SUBSET Reached /\ "done" \notin {"failed"}
    BY <1>3
  <2> QED
    BY <1>1, <1>2, <1>3, <2>1, <2>2, <2>3, <2>4
<1>6. CASE ~AwaitExpired(rows[W.h])
  <2>1. AfterCommit({}) /\ (rows' = [rows EXCEPT ![W.h] = FirstSight(rows[W.h])] \/ rows' = rows)
    BY <1>6 DEF AwaitRun
  <2>2. /\ rows'[W.h].stage = rows[W.h].stage /\ rows'[W.h].run = rows[W.h].run
        /\ \A h \in Handoffs : h # W.h => rows'[h] = rows[h]
    BY <1>1, <2>1 DEF FirstSight, Rows
  <2>3. Onward(W.h)
    BY <1>1, <2>2 DEF Onward
  <2> QED
    BY <1>1, <2>1, <2>2, <2>3
<1> QED
  BY <1>5, <1>6

LEMMA StagesGo ==
    ASSUME Typed, RowsTrue, ThreadsHold, Watching, Numbered, [Next]_vars
    PROVE  \A h \in Handoffs :
             \/ rows'[h].stage = rows[h].stage /\ rows'[h].run = rows[h].run
             \/ ~Exists(h) /\ rows'[h].stage = "requested" /\ ~rows'[h].run
             \/ h = W.h /\ Onward(h) /\ (AwaitRun \/ Advance)
<1>1. CASE \A h \in Handoffs : Keeps(h)
  BY <1>1 DEF Keeps
<1>2. CASE \E a \in Starters : StartInsert(a)
  BY <1>2, InsertStage
<1>3. CASE AwaitRun
  BY <1>3, AwaitStage
<1>4. CASE Advance
  BY <1>4, AdvanceStage
<1> QED
  BY <1>1, <1>2, <1>3, <1>4, RowsMove

LEMMA NumberedNext ==
    ASSUME Typed, RowsTrue, ThreadsHold, Watching, Numbered, [Next]_vars
    PROVE  Numbered'
<1>1. CASE \E a \in Starters : StartInsert(a)
  BY <1>1, InsertStage
<1>2. CASE \A h \in Handoffs : Exists(h)' <=> Exists(h)
  BY <1>2 DEF Numbered
<1>3. CASE \A h \in Handoffs : Keeps(h)
  BY <1>2, <1>3 DEF Keeps, Exists
<1>4. CASE AwaitRun \/ Advance
  <2>1. /\ W.h \in Handoffs /\ Onward(W.h)
        /\ \A h \in Handoffs : h # W.h => rows'[h] = rows[h]
    BY <1>4, AwaitStage, AdvanceStage
  <2>2. Exists(W.h) /\ rows'[W.h].stage # "none"
    BY <2>1 DEF Onward, Active, Exists, Reached, Facts, Terminal
  <2> QED
    BY <1>2, <2>1, <2>2 DEF Exists
<1> QED
  BY <1>1, <1>3, <1>4, RowsMove

\* A stage only moves forward, and a run once found stays found.
LEMMA StagesMoveForward ==
    ASSUME Typed, RowsTrue, ThreadsHold, Watching, Numbered, [Next]_vars
    PROVE  StagesForward /\ \A h \in Handoffs : rows[h].run => rows'[h].run
<1> SUFFICES ASSUME NEW h \in Handoffs
             PROVE  /\ Position[rows[h].stage] <= Position[rows'[h].stage]
                    /\ rows[h].stage \in Terminal => rows'[h].stage = rows[h].stage
                    /\ rows[h].run => rows'[h].run
  BY DEF StagesForward
<1>1. rows[h].stage \in Stages /\ Position[rows[h].stage] \in Int
  <2>1. rows[h].stage \in Stages
    BY DEF Typed, TypeOK, Rows
  <2> QED
    BY <2>1, Positions DEF Stages, Position
<1>2. CASE rows'[h].stage = rows[h].stage /\ rows'[h].run = rows[h].run
  BY <1>1, <1>2
<1>3. CASE ~Exists(h) /\ rows'[h].stage = "requested" /\ ~rows'[h].run
  BY <1>3, Positions DEF Exists, RowsTrue, RowTrue, Terminal
<1>4. CASE Onward(h)
  <2>1. Position[rows[h].stage] <= Position[rows'[h].stage]
    <3>1. \A s \in Reached : Position[s] \in Int
      BY Positions DEF Reached, Facts, Terminal
    <3> QED
      BY <1>1, <1>4, <3>1 DEF Onward
  <2> QED
    BY <1>4, <2>1 DEF Onward, Active
<1> QED
  BY <1>2, <1>3, <1>4, StagesGo

-----------------------------------------------------------------------------
(* The watcher.                                                            *)

\* Steps of others leave the watcher where it is.
LEMMA Aside ==
    ASSUME Typed, GitHub \/ PassTime \/ Start \/ Decide \/ Reply \/ UNCHANGED vars
    PROVE  W' = W /\ seen' = seen /\ todo' = todo /\ effects' = effects
<1>0. Watcher \notin Starters \cup Deciders /\ sess \in [Actors -> Sessions]
  BY ReleaseAssumption DEF Watcher, Typed, TypeOK
<1>1. ASSUME NEW a, a # Watcher, \E s : sess' = [sess EXCEPT ![a] = s] PROVE W' = W
  BY <1>0, <1>1, WatcherSession DEF W
<1>2. CASE GitHub \/ PassTime \/ Reply \/ UNCHANGED vars
  <2>1. UNCHANGED <<sess, seen, todo, effects>>
    BY <1>2 DEF GitHub, PushTag, RunStarts, PypiStarts, RunEnds, JobSucceeds, JobFails, OwnerDecides,
                OnlyGitHub, PassTime, Reply, OwnerReplies, vars
  <2> QED
    BY <2>1 DEF W
<1>3. ASSUME NEW a \in Starters, StartCheck(a) \/ StartInsert(a) PROVE W' = W
  <2>1. \E s : sess' = [sess EXCEPT ![a] = s]
    BY <1>3 DEF StartCheck, StartInsert
  <2> QED
    BY <1>0, <1>1, <2>1
<1>4. ASSUME NEW a \in Deciders, \/ \E h \in Handoffs, v \in Verdicts : RequestDecision(a, h, v)
                                 \/ DecideCheck(a) \/ DecidePost(a) \/ DecideRecord(a)
      PROVE  W' = W
  <2>1. \E s : sess' = [sess EXCEPT ![a] = s]
    BY <1>4 DEF RequestDecision, DecideCheck, DecidePost, DecideRecord, Answer
  <2> QED
    BY <1>0, <1>1, <2>1
<1>5. Start => UNCHANGED <<seen, todo, effects>>
  BY DEF Start, StartCheck, StartInsert
<1>6. Decide => UNCHANGED <<seen, todo, effects>>
  BY DEF Decide, RequestDecision, DecideCheck, DecidePost, DecideRecord
<1> QED
  BY <1>2, <1>3, <1>4, <1>5, <1>6 DEF Start, Decide,
     GitHub, PushTag, RunStarts, PypiStarts, RunEnds, JobSucceeds, JobFails, OwnerDecides,
     OnlyGitHub, PassTime, Reply, OwnerReplies, vars

LEMMA Becomes ==
    ASSUME Typed, NEW s, sess' = [sess EXCEPT ![Watcher] = s]
    PROVE  W' = s
BY WatcherSession DEF W, Typed, TypeOK

LEMMA StepIs ==
    ASSUME Typed, NEW pc, Step(pc)
    PROVE  /\ W'.pc = pc /\ W'.h = W.h /\ W'.hist = W.hist /\ W'.entered = W.entered
           /\ W'.state = W.state
<1>1. W' = [W EXCEPT !.pc = pc]
  BY Becomes DEF Step, W
<1> QED
  BY <1>1, WatcherSession DEF Sessions

LEMMA ToNext ==
    ASSUME Typed, sess' = [sess EXCEPT ![Watcher] = NextHandoff]
    PROVE  W' = NextHandoff /\ W'.pc = "next" /\ W'.hist = NoHistory
<1>1. W' = NextHandoff
  BY Becomes
<1> QED
  BY <1>1 DEF NextHandoff, NoSession

LEMMA CommitIs ==
    ASSUME Typed, NEW S, AfterCommit(S)
    PROVE  /\ W'.pc = IF S = {} THEN "replies" ELSE AfterEvents(S)
           /\ W'.h = W.h /\ W'.hist = W.hist /\ W'.entered = S
           /\ UNCHANGED <<gh, todo, inbox, effects, crashes>> /\ seen' = NoReads
<1>1. W' = [W EXCEPT !.pc = IF S = {} THEN "replies" ELSE AfterEvents(S), !.entered = S]
  BY Becomes DEF AfterCommit, W
<1> QED
  BY <1>1, WatcherSession DEF Sessions, AfterCommit

LEMMA TakeIs ==
    ASSUME Typed, TakeHandoff
    PROVE  \/ W'.pc = "idle" /\ W'.hist = NoHistory /\ todo' = todo
           \/ \E h \in todo : /\ todo' = todo \ {h} /\ W'.h = h /\ W'.hist = rows[h].hist
                              /\ W'.pc = IF rows[h].run THEN "get" ELSE "find"
<1>1. CASE todo = {}
  <2>1. W' = NoSession /\ todo' = todo
    BY <1>1, Becomes DEF TakeHandoff
  <2> QED
    BY <2>1 DEF NoSession
<1>2. CASE todo # {}
  <2>1. PICK h \in todo :
          /\ todo' = todo \ {h}
          /\ sess' = [sess EXCEPT ![Watcher] =
                        [NoSession EXCEPT !.pc = IF rows[h].run THEN "get" ELSE "find",
                                          !.h = h, !.hist = rows[h].hist]]
    BY <1>2 DEF TakeHandoff
  <2>2. W' = [NoSession EXCEPT !.pc = IF rows[h].run THEN "get" ELSE "find",
                               !.h = h, !.hist = rows[h].hist]
    BY <2>1, Becomes
  <2>3. W'.h = h /\ W'.hist = rows[h].hist /\ W'.pc = IF rows[h].run THEN "get" ELSE "find"
    BY <2>2 DEF NoSession
  <2> QED
    BY <2>1, <2>3
<1> QED
  BY <1>1, <1>2

LEMMA EffectsAre ==
    ASSUME Typed, CompleteTask \/ WriteNote \/ CreateAdoption \/ Notify
    PROVE  /\ W'.h = W.h /\ W'.hist = W.hist /\ W'.entered = W.entered
           /\ CompleteTask => W'.pc = "note"
           /\ WriteNote => W'.pc = "adopt"
           /\ CreateAdoption => W'.pc = AfterEffects(W.entered)
           /\ Notify => W'.pc = "commit"
           /\ UNCHANGED <<gh, seen, todo>>
<1>1. W \in Sessions
  BY WatcherSession
<1>2. CASE CompleteTask
  <2>1. Step("note") /\ W.pc = "complete" /\ UNCHANGED <<gh, seen, todo>>
    BY <1>2 DEF CompleteTask, At, W
  <2> QED
    BY <2>1, StepIs DEF WriteNote, CreateAdoption, Notify, At, W
<1>3. CASE WriteNote
  <2>1. PICK n : sess' = [sess EXCEPT ![Watcher] = [W EXCEPT !.pc = "adopt", !.note = (n = 1)]]
    BY <1>3 DEF WriteNote, W
  <2>2. W' = [W EXCEPT !.pc = "adopt", !.note = (n = 1)]
    BY <2>1, Becomes
  <2> QED
    BY <1>1, <1>3, <2>2 DEF Sessions, WriteNote, CompleteTask, CreateAdoption, Notify, At, W
<1>4. CASE CreateAdoption
  <2>1. PICK n : sess' = [sess EXCEPT ![Watcher] = [W EXCEPT !.pc = AfterEffects(W.entered), !.adoption = (n = 1)]]
    BY <1>4 DEF CreateAdoption, W
  <2>2. W' = [W EXCEPT !.pc = AfterEffects(W.entered), !.adoption = (n = 1)]
    BY <2>1, Becomes
  <2> QED
    BY <1>1, <1>4, <2>2 DEF Sessions, WriteNote, CompleteTask, CreateAdoption, Notify, At, W
<1>5. CASE Notify
  <2>1. W.pc = "notify" /\ UNCHANGED <<gh, seen, todo>>
    BY <1>5 DEF Notify, At, W
  <2>2. W'.pc = "commit" /\ W'.h = W.h /\ W'.hist = W.hist /\ W'.entered = W.entered
    <3>1. CASE Step("commit")
      BY <3>1, StepIs
    <3>2. CASE ~Step("commit")
      <4>1. PICK mail : sess' = [sess EXCEPT ![Watcher] = [W EXCEPT !.pc = "commit", !.mail = mail]]
        BY <1>5, <3>2 DEF Notify, W
      <4>2. W' = [W EXCEPT !.pc = "commit", !.mail = mail]
        BY <4>1, Becomes
      <4> QED
        BY <1>1, <4>2 DEF Sessions
    <3> QED
      BY <3>1, <3>2
  <2> QED
    BY <2>1, <2>2 DEF WriteNote, CompleteTask, CreateAdoption, At, W
<1> QED
  BY <1>2, <1>3, <1>4, <1>5

LEMMA CommitEffectsIs ==
    ASSUME Typed, CommitEffects
    PROVE  W'.pc = "replies" /\ W'.h = W.h /\ W'.hist = NoHistory
<1>1. W' = [NextHandoff EXCEPT !.pc = "replies", !.h = W.h]
  BY Becomes DEF CommitEffects
<1> QED
  BY <1>1 DEF NextHandoff, NoSession

\* The steps that lead a reply to its outcome.
LEMMA RepliesAre ==
    ASSUME Typed, CheckReplies \/ ReadMailbox \/ SpendReply \/ DecideLoad \/ RecordOutcome
                  \/ DecideCheck(Watcher) \/ DecidePost(Watcher) \/ DecideRecord(Watcher)
    PROVE  /\ UNCHANGED <<seen, todo>> /\ W.h \in Handoffs
           /\ \/ W' = NextHandoff /\ (CheckReplies \/ ReadMailbox \/ RecordOutcome)
              \/ /\ W'.h = W.h
                 /\ \/ /\ CheckReplies /\ W'.pc = "imap" /\ W'.hist = rows[W.h].hist
                       /\ AwaitingReply(rows[W.h])
                    \/ ReadMailbox /\ W'.pc = "spend" /\ W'.hist = W.hist
                    \/ SpendReply /\ W'.pc = "load" /\ W'.hist = W.hist
                    \/ /\ DecideLoad /\ W'.pc \in {"check", "outcome"} /\ W'.hist = rows[W.h].hist
                       /\ W'.pc = "outcome" => W'.state = "already_decided"
                    \/ DecideCheck(Watcher) /\ W'.pc = "post" /\ W'.hist = W.hist
                    \/ DecidePost(Watcher) /\ W'.pc = "record" /\ W'.hist = W.hist /\ W'.state = W.state
                    \/ /\ DecideCheck(Watcher) \/ DecidePost(Watcher)
                       /\ W'.pc = "outcome" /\ W'.hist = W.hist
                       /\ W'.state \in {"already_decided", "error"}
                    \/ /\ DecideRecord(Watcher) /\ W'.pc = "outcome"
                       /\ W'.hist = WithDecision(Watcher) /\ W'.state = W.state
<1>1. W \in Sessions /\ W = sess[Watcher] /\ W.h \in Handoffs
  BY WatcherSession DEF W, CheckReplies, ReadMailbox, SpendReply, DecideLoad, RecordOutcome,
       DecideCheck, DecidePost, DecideRecord, At, Sound, Aimless
<1>2. UNCHANGED <<seen, todo>>
  BY DEF CheckReplies, ReadMailbox, SpendReply, DecideLoad, RecordOutcome,
       DecideCheck, DecidePost, DecideRecord
<1>3. ASSUME NEW outcome, Answer(Watcher, outcome)
      PROVE  W'.pc = "outcome" /\ W'.h = W.h /\ W'.hist = W.hist /\ W'.state = outcome
  <2>1. W' = [W EXCEPT !.pc = "outcome", !.state = outcome]
    BY <1>3, Becomes DEF Answer, W
  <2> QED
    BY <1>1, <2>1 DEF Sessions
<1>4. CASE CheckReplies
  <2>1. CASE EmailReplies /\ AwaitingReply(rows[W.h])
    <3>1. W' = [W EXCEPT !.pc = "imap", !.hist = rows[W.h].hist, !.entered = {}]
      BY <1>4, <2>1, Becomes DEF CheckReplies, W
    <3> QED
      BY <1>1, <1>2, <1>4, <2>1, <3>1 DEF Sessions
  <2>2. CASE ~(EmailReplies /\ AwaitingReply(rows[W.h]))
    BY <1>1, <1>2, <1>4, <2>2, Becomes DEF CheckReplies
  <2> QED
    BY <2>1, <2>2
<1>5. CASE ReadMailbox
  <2>1. CASE sess' = [sess EXCEPT ![Watcher] = NextHandoff]
    BY <1>1, <1>2, <1>5, <2>1, Becomes
  <2>2. CASE sess' = [sess EXCEPT ![Watcher] = [W EXCEPT !.pc = "spend", !.state = inbox[W.h]]]
    <3>1. W' = [W EXCEPT !.pc = "spend", !.state = inbox[W.h]]
      BY <2>2, Becomes
    <3> QED
      BY <1>1, <1>2, <1>5, <3>1 DEF Sessions
  <2> QED
    BY <1>5, <2>1, <2>2 DEF ReadMailbox, W
<1>6. CASE SpendReply
  <2>1. W'.pc = "load" /\ W'.h = W.h /\ W'.hist = W.hist
    BY <1>6, StepIs DEF SpendReply
  <2> QED
    BY <1>1, <1>2, <1>6, <2>1
<1>7. CASE DecideLoad
  <2>1. \/ W' = [W EXCEPT !.pc = "check", !.hist = rows[W.h].hist]
        \/ W' = [W EXCEPT !.pc = "outcome", !.hist = rows[W.h].hist, !.state = "already_decided"]
    <3>1. CASE Decidable(W.h)
      BY <1>7, <3>1, Becomes DEF DecideLoad, W
    <3>2. CASE ~Decidable(W.h)
      BY <1>7, <3>2, Becomes DEF DecideLoad, W
    <3> QED
      BY <3>1, <3>2
  <2>2. /\ W'.h = W.h /\ W'.hist = rows[W.h].hist /\ W'.pc \in {"check", "outcome"}
        /\ W'.pc = "outcome" => W'.state = "already_decided"
    BY <1>1, <2>1 DEF Sessions
  <2> QED
    BY <1>1, <1>2, <1>7, <2>2
<1>8. CASE RecordOutcome
  BY <1>1, <1>2, <1>8, Becomes DEF RecordOutcome
<1>9. CASE DecideCheck(Watcher)
  <2>1. \/ Step("post") \/ Answer(Watcher, "already_decided") \/ Answer(Watcher, "error")
    BY <1>9 DEF DecideCheck, Step
  <2> QED
    BY <1>1, <1>2, <1>3, <1>9, <2>1, StepIs
<1>10. CASE DecidePost(Watcher)
  <2>1. Step("record") \/ Answer(Watcher, "error")
    BY <1>10 DEF DecidePost, Step
  <2> QED
    BY <1>1, <1>2, <1>3, <1>10, <2>1, StepIs
<1>11. CASE DecideRecord(Watcher)
  <2>1. W' = [W EXCEPT !.pc = "outcome", !.hist = WithDecision(Watcher)]
    BY <1>11, Becomes DEF DecideRecord, W
  <2> QED
    BY <1>1, <1>2, <1>11, <2>1 DEF Sessions
<1> QED
  BY <1>4, <1>5, <1>6, <1>7, <1>8, <1>9, <1>10, <1>11

-----------------------------------------------------------------------------
(* What the watcher reads, and what the threads hold.                      *)

LEMMA ReadsTrueNext ==
    ASSUME Typed, Ordered(gh), ReadsTrue, RowsTrue, Watching, [Next]_vars
    PROVE  ReadsTrue'
<1>0. Grown(gh, gh') /\ gh \in Truths /\ seen \in Reads
  BY GitHubNext, OrderedNext DEF Typed, TypeOK
<1>1. ASSUME seen' = seen, W'.pc \notin {"jobs", "pending", "advance"} \/ W'.pc = W.pc
      PROVE  ReadsTrue'
  BY <1>0, <1>1, ReadStays DEF ReadsTrue, Grown
<1>2. ASSUME seen' = NoReads, W'.pc \notin {"jobs", "pending", "advance"}
      PROVE  ReadsTrue'
  BY <1>2 DEF ReadsTrue, Read, NoReads, Ended, Roles, PypiStarted
<1>3. CASE GitHub \/ PassTime \/ Start \/ Decide \/ Reply \/ UNCHANGED vars
  BY <1>1, <1>3, Aside
<1>4. CASE TickStart
  BY <1>1, <1>4, StepIs DEF TickStart
<1>5. CASE TakeHandoff
  <2>1. W'.pc \in {"idle", "get", "find"}
    BY <1>5, TakeIs
  <2> QED
    BY <1>2, <1>5, <2>1 DEF TakeHandoff
<1>6. CASE AwaitRun \/ Advance
  <2>1. PICK S : AfterCommit(S)
    BY <1>6, AwaitStage, AdvanceStage
  <2>2. seen' = NoReads /\ W'.pc \notin {"jobs", "pending", "advance"}
    BY <2>1, CommitIs DEF AfterEvents, AfterEffects
  <2> QED
    BY <1>2, <2>2
<1>7. CASE FindRun
  <2>1. CASE gh.run = "none"
    BY <1>1, <1>7, <2>1, StepIs DEF FindRun
  <2>2. CASE gh.run # "none"
    <3>1. gh' = gh /\ seen' = [seen EXCEPT !.run = gh.run]
      BY <1>7, <2>2 DEF FindRun
    <3>2. seen'.run = gh.run /\ seen'.jobs = seen.jobs /\ seen'.pending = seen.pending
      BY <1>0, <3>1 DEF Reads
    <3> QED
      BY <2>2, <3>1, <3>2 DEF ReadsTrue, Read, PypiStarted
  <2> QED
    BY <2>1, <2>2
<1>8. CASE GetRun
  <2>1. gh' = gh /\ seen' = [seen EXCEPT !.run = gh.run] /\ W.pc = "get"
    BY <1>8 DEF GetRun, At, W
  <2>2. seen'.run = gh.run /\ seen'.jobs = seen.jobs /\ seen'.pending = seen.pending
    BY <1>0, <2>1 DEF Reads
  <2>3. gh.run # "none"
    <3>1. W.h \in Handoffs /\ rows[W.h].run
      BY <2>1, WatcherSession DEF Watching, Sound, Aimless
    <3> QED
      BY <3>1 DEF RowsTrue, RowTrue
  <2> QED
    BY <2>1, <2>2, <2>3 DEF ReadsTrue, Read, PypiStarted
<1>9. CASE ReadJobs
  <2>1. gh' = gh /\ seen' = [seen EXCEPT !.jobs = gh.jobs] /\ W.pc = "jobs"
    BY <1>9 DEF ReadJobs, At, W
  <2>2. seen'.run = seen.run /\ seen'.jobs = gh.jobs /\ seen'.pending = seen.pending
    BY <1>0, <2>1 DEF Reads
  <2> QED
    BY <2>1, <2>2 DEF ReadsTrue, Read, PypiStarted, Ordered
<1>10. CASE ReadPending
  <2>1. gh' = gh /\ seen' = [seen EXCEPT !.pending = (gh.gate = "pending")] /\ W.pc = "pending"
    BY <1>10 DEF ReadPending, At, W
  <2>2. seen'.run = seen.run /\ seen'.jobs = seen.jobs /\ (seen'.pending => gh.gate = "pending")
    BY <1>0, <2>1 DEF Reads
  <2> QED
    BY <2>1, <2>2 DEF ReadsTrue, Read, PypiStarted, Ordered
<1>11. CASE CompleteTask \/ WriteNote \/ CreateAdoption \/ Notify
  <2>1. seen' = seen /\ W'.pc \in {"note", "adopt", "commit", AfterEffects(W.entered)}
    BY <1>11, EffectsAre
  <2> QED
    BY <1>1, <2>1 DEF AfterEffects
<1>12. CASE CommitEffects
  BY <1>1, <1>12, CommitEffectsIs DEF CommitEffects
<1>13. CASE CheckReplies \/ ReadMailbox \/ SpendReply \/ DecideLoad \/ RecordOutcome
            \/ DecideCheck(Watcher) \/ DecidePost(Watcher) \/ DecideRecord(Watcher)
  <2>1. seen' = seen /\ W'.pc \in {"next", "imap", "spend", "load", "check", "outcome", "post", "record"}
    BY <1>13, RepliesAre DEF NextHandoff, NoSession
  <2> QED
    BY <1>1, <2>1
<1>14. CASE Unavailable
  BY <1>2, <1>14, ToNext DEF Unavailable
<1>15. CASE Crash
  <2>1. W' = NoSession /\ seen' = NoReads
    BY <1>15, WatcherSession DEF Crash, W
  <2> QED
    BY <1>2, <2>1 DEF NoSession
<1> QED
  BY <1>3, <1>4, <1>5, <1>6, <1>7, <1>8, <1>9, <1>10, <1>11, <1>12, <1>13, <1>14, <1>15 DEF Next, Tick

\* One thread changes what it holds, to something true of a handoff with a run.
LEMMA OneHolds ==
    ASSUME Typed, ThreadsHold, Grown(gh, gh'), \A h \in Handoffs : rows[h].run => rows'[h].run,
           NEW a \in Actors, \E s : sess' = [sess EXCEPT ![a] = s],
           Tagged(sess'[a].hist, gh),
           sess'[a].pc \in Replying => sess'[a].h \in Handoffs /\ rows[sess'[a].h].run
    PROVE  ThreadsHold'
<1>1. ASSUME NEW b \in Actors, b # a PROVE Held(sess[b])'
  <2>1. sess'[b] = sess[b] /\ Held(sess[b]) /\ Sound(sess[b])
    BY <1>1 DEF Typed, TypeOK, Intent, ThreadsHold
  <2>2. sess[b].pc \in Replying => sess[b].h \in Handoffs /\ rows'[sess[b].h].run
    BY <2>1 DEF Held, Sound, Aimless, Replying
  <2> QED
    BY <2>1, <2>2 DEF Held, Tagged, Grown
<1>2. Held(sess[a])'
  BY DEF Held, Tagged, Grown
<1> QED
  BY <1>1, <1>2 DEF ThreadsHold

LEMMA NothingHeld == ASSUME NEW g PROVE Tagged(NoHistory, g) /\ Tagged(NoSession.hist, g) /\ Tagged(NextHandoff.hist, g)
BY DEF Tagged, NoHistory, NoSession, NextHandoff

LEMMA TaggedRow ==
    ASSUME RowsTrue, NEW h \in Handoffs PROVE Tagged(rows[h].hist, gh)
BY DEF RowsTrue, RowTrue

\* A thread other than the watcher that decides holds what it held, or nothing.
LEMMA DecidingHolds ==
    ASSUME Typed, ThreadsHold, NEW a \in Actors, DecideCheck(a) \/ DecidePost(a) \/ DecideRecord(a)
    PROVE  /\ \E s : sess' = [sess EXCEPT ![a] = s]
           /\ Tagged(sess'[a].hist, gh)
           /\ sess'[a].pc \in Replying => sess'[a].h \in Handoffs /\ rows[sess'[a].h].run
<1>1. /\ sess \in [Actors -> Sessions] /\ sess[a] \in Sessions /\ Sound(sess[a]) /\ Held(sess[a])
      /\ sess[a].pc \in {"check", "post", "record"}
  BY DEF Typed, TypeOK, Intent, ThreadsHold, DecideCheck, DecidePost, DecideRecord, At
<1>2. sess[a].h \in Handoffs /\ rows[sess[a].h].run /\ Tagged(sess[a].hist, gh) /\ sess[a].hist \in Histories
  BY <1>1 DEF Sound, Aimless, Held, Replying, Sessions
<1> DEFINE Fits(s) == \/ s = NoSession
                      \/ /\ s.h = sess[a].h
                         /\ s.hist.stages = sess[a].hist.stages
<1>3. \E s : Fits(s) /\ sess' = [sess EXCEPT ![a] = s]
  <2>1. ASSUME NEW outcome, Answer(a, outcome)
        PROVE  \E s : Fits(s) /\ sess' = [sess EXCEPT ![a] = s]
    <3> DEFINE s == IF a = Watcher THEN [sess[a] EXCEPT !.pc = "outcome", !.state = outcome] ELSE NoSession
    <3>1. Fits(s)
      BY <1>1 DEF Sessions
    <3>2. sess' = [sess EXCEPT ![a] = s]
      BY <2>1 DEF Answer
    <3> HIDE DEF s, Fits
    <3> QED
      BY <3>1, <3>2
  <2>2. ASSUME NEW pc, sess' = [sess EXCEPT ![a].pc = pc]
        PROVE  \E s : Fits(s) /\ sess' = [sess EXCEPT ![a] = s]
    <3> DEFINE s == [sess[a] EXCEPT !.pc = pc]
    <3>1. Fits(s)
      BY <1>1 DEF Sessions
    <3>2. sess' = [sess EXCEPT ![a] = s]
      BY <2>2
    <3> HIDE DEF s, Fits
    <3> QED
      BY <3>1, <3>2
  <2>3. CASE DecideRecord(a)
    <3> DEFINE s == IF a = Watcher THEN [sess[a] EXCEPT !.pc = "outcome", !.hist = WithDecision(a)]
                    ELSE NoSession
    <3>1. Fits(s)
      BY <1>1, <1>2 DEF Sessions, WithDecision, Histories
    <3>2. sess' = [sess EXCEPT ![a] = s]
      BY <2>3 DEF DecideRecord
    <3> HIDE DEF s, Fits
    <3> QED
      BY <3>1, <3>2
  <2> HIDE DEF Fits
  <2> QED
    BY <2>1, <2>2, <2>3 DEF DecideCheck, DecidePost
<1>4. PICK s : Fits(s) /\ sess' = [sess EXCEPT ![a] = s]
  BY <1>3
<1>5. sess'[a] = s
  BY <1>1, <1>4
<1>6. ASSUME s = NoSession PROVE Tagged(s.hist, gh) /\ s.pc \notin Replying
  BY <1>6, NothingHeld DEF NoSession, Replying
<1>7. ASSUME s.h = sess[a].h, s.hist.stages = sess[a].hist.stages
      PROVE  Tagged(s.hist, gh) /\ s.h \in Handoffs /\ rows[s.h].run
  BY <1>2, <1>7 DEF Tagged
<1>8. s = NoSession \/ (s.h = sess[a].h /\ s.hist.stages = sess[a].hist.stages)
  BY <1>4
<1> HIDE DEF Fits
<1> QED
  BY <1>4, <1>5, <1>6, <1>7, <1>8

LEMMA ThreadsHoldNext ==
    ASSUME Typed, Ordered(gh), RowsTrue, ThreadsHold, Watching, Numbered, [Next]_vars
    PROVE  ThreadsHold'
<1>0. /\ Grown(gh, gh') /\ \A h \in Handoffs : rows[h].run => rows'[h].run
      /\ Watcher \in Actors /\ sess \in [Actors -> Sessions] /\ Held(W) /\ Sound(W) /\ W \in Sessions
  BY GitHubNext, OrderedNext, StagesMoveForward, WatcherSession DEF Typed, TypeOK, ThreadsHold, W
<1>1. ASSUME NEW a \in Actors, NEW s, sess' = [sess EXCEPT ![a] = s], Tagged(s.hist, gh),
             s.pc \in Replying => s.h \in Handoffs /\ rows[s.h].run
      PROVE  ThreadsHold'
  <2>1. sess'[a] = s
    BY <1>0, <1>1
  <2> QED
    BY <1>0, <1>1, <2>1, OneHolds
<1>2. ASSUME \E s : sess' = [sess EXCEPT ![Watcher] = s], Tagged(W'.hist, gh),
             W'.pc \in Replying => W'.h \in Handoffs /\ rows[W'.h].run
      PROVE  ThreadsHold'
  <2>1. W' = sess'[Watcher]
    BY DEF W
  <2> QED
    BY <1>0, <1>2, <2>1, OneHolds
<1>3. CASE sess' = sess
  <2>1. sess' = [sess EXCEPT ![Watcher] = W] /\ (W.pc \in Replying => W.h \in Handoffs)
    BY <1>0, <1>3 DEF W, Sound, Aimless, Replying
  <2> QED
    BY <1>0, <1>1, <2>1 DEF Held
<1>4. CASE GitHub \/ PassTime \/ Reply \/ UNCHANGED vars
  <2>1. sess' = sess
    BY <1>4 DEF GitHub, PushTag, RunStarts, PypiStarts, RunEnds, JobSucceeds, JobFails, OwnerDecides,
                OnlyGitHub, PassTime, Reply, OwnerReplies, vars
  <2> QED
    BY <1>3, <2>1
<1>5. ASSUME NEW a \in Starters, StartCheck(a) PROVE ThreadsHold'
  <2> DEFINE s == [sess[a] EXCEPT !.pc = "insert", !.h = Cardinality(Created)]
  <2>1. a \in Actors /\ Held(sess[a]) /\ sess[a] \in Sessions
    BY <1>0 DEF Actors, ThreadsHold
  <2>2. s.hist = sess[a].hist /\ s.pc = "insert" /\ sess' = [sess EXCEPT ![a] = s]
    BY <1>5, <2>1 DEF Sessions, StartCheck
  <2> HIDE DEF s
  <2> QED
    BY <1>1, <2>1, <2>2 DEF Held, Replying
<1>6. ASSUME NEW a \in Starters, StartInsert(a) PROVE ThreadsHold'
  BY <1>1, <1>6, NothingHeld DEF StartInsert, Actors, NoSession, Replying
<1>7. ASSUME NEW a \in Deciders, NEW h \in Handoffs, NEW v \in Verdicts, RequestDecision(a, h, v)
      PROVE  ThreadsHold'
  <2> DEFINE s == [sess[a] EXCEPT !.pc = "check", !.h = h, !.state = v, !.hist = rows[h].hist]
  <2>1. a \in Actors /\ sess[a] \in Sessions /\ rows[h].run /\ Tagged(rows[h].hist, gh)
    BY <1>0, <1>7, TaggedRow DEF Actors, RequestDecision, Decidable
  <2>2. s.hist = rows[h].hist /\ s.h = h /\ sess' = [sess EXCEPT ![a] = s]
    BY <1>7, <2>1 DEF Sessions, RequestDecision
  <2> HIDE DEF s
  <2> QED
    BY <1>1, <2>1, <2>2
<1>8. ASSUME NEW a \in Actors, DecideCheck(a) \/ DecidePost(a) \/ DecideRecord(a) PROVE ThreadsHold'
  BY <1>0, <1>8, DecidingHolds, OneHolds
<1>9. CASE TickStart \/ FindRun \/ GetRun \/ ReadJobs \/ ReadPending
  <2>1. PICK pc \in {"next", "await", "jobs", "pending", "advance"} : Step(pc)
    BY <1>9 DEF TickStart, FindRun, GetRun, ReadJobs, ReadPending
  <2>2. \E s : sess' = [sess EXCEPT ![Watcher] = s]
    BY <2>1 DEF Step
  <2> QED
    BY <1>0, <1>2, <2>1, <2>2, StepIs DEF Held, Replying
<1>10. CASE TakeHandoff
  <2>1. \E s : sess' = [sess EXCEPT ![Watcher] = s]
    BY <1>10 DEF TakeHandoff
  <2>2. Tagged(W'.hist, gh) /\ W'.pc \in {"idle", "get", "find"}
    BY <1>10, TakeIs, TaggedRow, NothingHeld DEF Typed, TypeOK
  <2> QED
    BY <1>2, <2>1, <2>2 DEF Replying
<1>11. CASE AwaitRun \/ Advance
  <2>1. PICK S : AfterCommit(S)
    BY <1>11, AwaitStage, AdvanceStage
  <2>2. \E s : sess' = [sess EXCEPT ![Watcher] = s]
    <3> DEFINE s == [W EXCEPT !.pc = IF S = {} THEN "replies" ELSE AfterEvents(S), !.entered = S]
    <3>1. sess' = [sess EXCEPT ![Watcher] = s]
      BY <2>1 DEF AfterCommit, W
    <3> HIDE DEF s
    <3> QED
      BY <3>1
  <2>3. W'.hist = W.hist /\ W'.pc \notin Replying
    BY <2>1, CommitIs DEF Replying, AfterEvents, AfterEffects
  <2> QED
    BY <1>0, <1>2, <2>2, <2>3 DEF Held
<1>12. CASE CompleteTask \/ WriteNote \/ CreateAdoption \/ Notify
  <2>1. W'.hist = W.hist /\ W'.pc \in {"note", "adopt", "commit", AfterEffects(W.entered)}
    BY <1>12, EffectsAre
  <2>2. \E s : sess' = [sess EXCEPT ![Watcher] = s]
    BY <1>12 DEF CompleteTask, WriteNote, CreateAdoption, Notify, Step
  <2> QED
    BY <1>0, <1>2, <2>1, <2>2 DEF Held, Replying, AfterEffects
<1>13. CASE CommitEffects
  <2>1. \E s : sess' = [sess EXCEPT ![Watcher] = s]
    BY <1>13 DEF CommitEffects
  <2> QED
    BY <1>2, <1>13, <2>1, CommitEffectsIs, NothingHeld DEF Replying
<1>14. CASE CheckReplies \/ ReadMailbox \/ SpendReply \/ DecideLoad \/ RecordOutcome
  <2>1. \E s : sess' = [sess EXCEPT ![Watcher] = s]
    BY <1>14 DEF CheckReplies, ReadMailbox, SpendReply, DecideLoad, RecordOutcome, Step
  <2>2. W.h \in Handoffs /\ Tagged(rows[W.h].hist, gh) /\ Tagged(W.hist, gh)
    BY <1>0, <1>14, RepliesAre, TaggedRow DEF Held
  <2>3. CASE W' = NextHandoff
    BY <1>2, <2>1, <2>3, NothingHeld DEF NextHandoff, NoSession, Replying
  <2>4. CASE W'.h = W.h /\ CheckReplies /\ W'.hist = rows[W.h].hist /\ AwaitingReply(rows[W.h])
    <3>1. rows[W.h].run
      BY <2>2, <2>4 DEF AwaitingReply, RowsTrue, RowTrue, Facts
    <3> QED
      BY <1>2, <2>1, <2>2, <2>4, <3>1
  <2>5. CASE /\ W'.h = W.h /\ W'.hist \in {W.hist, rows[W.h].hist}
             /\ ReadMailbox \/ SpendReply \/ DecideLoad
    <3>1. rows[W.h].run
      BY <1>0, <2>5 DEF ReadMailbox, SpendReply, DecideLoad, At, W, Held, Replying
    <3> QED
      BY <1>2, <2>1, <2>2, <2>5, <3>1
  <2>6. \/ W' = NextHandoff
        \/ W'.h = W.h /\ CheckReplies /\ W'.hist = rows[W.h].hist /\ AwaitingReply(rows[W.h])
        \/ /\ W'.h = W.h /\ W'.hist \in {W.hist, rows[W.h].hist}
           /\ ReadMailbox \/ SpendReply \/ DecideLoad
        \/ DecideCheck(Watcher) \/ DecidePost(Watcher) \/ DecideRecord(Watcher)
    BY <1>14, RepliesAre
  <2> QED
    BY <1>0, <1>8, <2>3, <2>4, <2>5, <2>6
<1>15. CASE Unavailable
  BY <1>1, <1>0, <1>15, NothingHeld DEF Unavailable, NextHandoff, NoSession, Replying
<1>16. CASE Crash
  BY <1>16, NothingHeld DEF Crash, ThreadsHold, Held, NoSession, Replying, Tagged
<1> QED
  BY <1>0, <1>4, <1>5, <1>6, <1>7, <1>8, <1>9, <1>10, <1>11, <1>12, <1>13, <1>14, <1>15, <1>16
  DEF Next, Tick, Start, Decide, Actors

-----------------------------------------------------------------------------
(* What the watcher follows, and what it has still to do.                  *)

\* An open handoff stays open, and its run found or not, unless the watcher
\* itself moves it.
LEMMA OpenStays ==
    ASSUME Typed, RowsTrue, ThreadsHold, Watching, Numbered, [Next]_vars,
           NEW h \in Handoffs, Exists(h), h # W.h \/ ~(AwaitRun \/ Advance)
    PROVE  rows'[h].stage = rows[h].stage /\ rows'[h].run = rows[h].run
BY StagesGo

LEMMA WatchingNext ==
    ASSUME Typed, RowsTrue, ThreadsHold, Watching, Numbered, [Next]_vars
    PROVE  Watching'
<1>0. /\ W.pc \notin Aimless => W.h \in Handoffs
      /\ todo \subseteq Handoffs /\ \A h \in todo : Active(h)
      /\ \A h \in Handoffs : Active(h) <=> Exists(h) /\ rows[h].stage \notin Terminal
      /\ \A h \in Handoffs : Active(h)' <=> rows'[h].stage \notin {"none"} \cup Terminal
  BY WatcherSession DEF Typed, TypeOK, Watching, Active, Exists, Sound
<1>1. ASSUME todo' \subseteq todo, W'.pc \notin Following, ~(AwaitRun \/ Advance)
      PROVE  Watching'
  <2>1. \A h \in todo' : rows'[h].stage = rows[h].stage /\ Active(h) /\ h \in Handoffs
    BY <1>0, <1>1, OpenStays
  <2> QED
    BY <1>0, <1>1, <2>1 DEF Watching, Following, Active
<1>2. ASSUME todo' = todo, W'.h = W.h, W.pc \in Following, ~(AwaitRun \/ Advance),
             W'.pc \in {"find", "await"} => ~rows[W.h].run, W'.pc = "get" => rows[W.h].run
      PROVE  Watching'
  <2>1. \A h \in todo : rows'[h].stage = rows[h].stage /\ Active(h)
    BY <1>0, <1>2, OpenStays
  <2>2. W.h \in Handoffs /\ Active(W.h) /\ W.h \notin todo
    BY <1>0, <1>2 DEF Watching, Following, Aimless
  <2>3. rows'[W.h].stage = rows[W.h].stage /\ rows'[W.h].run = rows[W.h].run
    BY <1>0, <1>2, <2>2, OpenStays
  <2> QED
    BY <1>2, <2>1, <2>2, <2>3 DEF Watching, Active
<1>3. CASE GitHub \/ PassTime \/ Start \/ Decide \/ Reply \/ UNCHANGED vars
  <2>1. W' = W /\ todo' = todo
    BY <1>3, Aside
  <2>2. CASE AwaitRun \/ Advance
    <3>1. PICK S : AfterCommit(S)
      BY <2>2, AwaitStage, AdvanceStage
    <3>2. W.pc \in {"await", "advance"}
      BY <2>2 DEF AwaitRun, Advance, At, W
    <3>3. W'.pc \notin {"await", "advance"}
      BY <3>1, CommitIs DEF AfterEvents, AfterEffects
    <3> QED
      BY <2>1, <3>2, <3>3
  <2>3. CASE ~(AwaitRun \/ Advance) /\ W.pc \in Following
    BY <1>2, <2>1, <2>3 DEF Watching
  <2>4. CASE ~(AwaitRun \/ Advance) /\ W.pc \notin Following
    BY <1>1, <2>1, <2>4
  <2> QED
    BY <2>2, <2>3, <2>4
<1>4. CASE TickStart
  <2>1. todo' = {h \in Handoffs : Active(h)} /\ W'.pc = "next" /\ W.pc = "idle" /\ rows' = rows
    BY <1>4, StepIs DEF TickStart, At, W
  <2> QED
    BY <2>1 DEF Watching, Following, Active
<1>5. CASE TakeHandoff
  <2>1. rows' = rows
    BY <1>5 DEF TakeHandoff
  <2> QED
    BY <1>0, <1>5, <2>1, TakeIs DEF Watching, Following, Active
<1>6. CASE AwaitRun \/ Advance
  <2>1. PICK S : AfterCommit(S)
    BY <1>6, AwaitStage, AdvanceStage
  <2>2. W'.pc \notin Following /\ todo' = todo
    BY <2>1, CommitIs DEF AfterEvents, AfterEffects, Following
  <2>3. W.h \notin todo /\ \A h \in Handoffs : h # W.h => rows'[h] = rows[h]
    BY <1>6, AwaitStage, AdvanceStage DEF AwaitRun, Advance, At, W, Watching, Following
  <2> QED
    BY <1>0, <2>2, <2>3 DEF Watching, Following, Active
<1>7. ASSUME NEW pc, Step(pc), UNCHANGED <<rows, todo>>, W.pc \in Following,
             pc = "await" \/ pc \notin {"find", "get"}, pc = "await" => W.pc = "find"
      PROVE  Watching'
  <2>1. W'.pc = pc /\ W'.h = W.h
    BY <1>7, StepIs
  <2> QED
    BY <1>7, <2>1 DEF Watching, Active, Following
<1>8. CASE FindRun \/ GetRun \/ ReadJobs \/ ReadPending
  BY <1>7, <1>8 DEF FindRun, GetRun, ReadJobs, ReadPending, At, W, Following
<1>9. CASE CompleteTask \/ WriteNote \/ CreateAdoption \/ Notify
  <2>1. todo' = todo /\ W'.pc \in {"note", "adopt", "commit", AfterEffects(W.entered)}
    BY <1>9, EffectsAre
  <2>2. ~(AwaitRun \/ Advance)
    BY <1>9 DEF AwaitRun, Advance, CompleteTask, WriteNote, CreateAdoption, Notify, At
  <2> QED
    BY <1>1, <2>1, <2>2 DEF AfterEffects, Following
<1>10. CASE CommitEffects
  <2>1. todo' = todo /\ W'.pc = "replies"
    BY <1>10, CommitEffectsIs DEF CommitEffects
  <2>2. ~(AwaitRun \/ Advance)
    BY <1>10 DEF AwaitRun, Advance, CommitEffects, At
  <2> QED
    BY <1>1, <2>1, <2>2 DEF Following
<1>11. CASE CheckReplies \/ ReadMailbox \/ SpendReply \/ DecideLoad \/ RecordOutcome
            \/ DecideCheck(Watcher) \/ DecidePost(Watcher) \/ DecideRecord(Watcher)
  <2>1. todo' = todo /\ W'.pc \in {"next", "imap", "spend", "load", "check", "outcome", "post", "record"}
    BY <1>11, RepliesAre DEF NextHandoff, NoSession
  <2>2. ~(AwaitRun \/ Advance)
    BY <1>11 DEF AwaitRun, Advance, CheckReplies, ReadMailbox, SpendReply, DecideLoad, RecordOutcome,
                 DecideCheck, DecidePost, DecideRecord, At
  <2> QED
    BY <1>1, <2>1, <2>2 DEF Following
<1>12. CASE Unavailable
  <2>1. todo' = todo /\ W'.pc = "next" /\ rows' = rows
    BY <1>12, ToNext DEF Unavailable
  <2> QED
    BY <1>0, <2>1 DEF Watching, Following, Active
<1>13. CASE Crash
  <2>1. todo' = {} /\ W' = NoSession
    BY <1>13, WatcherSession DEF Crash, W
  <2> QED
    BY <2>1 DEF Watching, NoSession, Following
<1> QED
  BY <1>3, <1>4, <1>5, <1>6, <1>8, <1>9, <1>10, <1>11, <1>12, <1>13 DEF Next, Tick

\* A tick's effects are those of the handoff it is at.
LEMMA EffectsMove ==
    ASSUME Typed, CompleteTask \/ WriteNote \/ CreateAdoption \/ Notify \/ DecideLoad
    PROVE  /\ W.h \in Handoffs
           /\ \A h \in Handoffs : h # W.h => effects'[h] = effects[h]
           /\ ~Notify => effects'[W.h].mails = effects[W.h].mails
           /\ ~CreateAdoption => effects'[W.h].adoptions = effects[W.h].adoptions
           /\ CreateAdoption => effects'[W.h].adoptions \in {effects[W.h].adoptions, effects[W.h].adoptions + 1}
           /\ DecideLoad \/ Notify => /\ effects'[W.h].completed = effects[W.h].completed
                                      /\ effects'[W.h].notes = effects[W.h].notes
           /\ Notify => \E s \in Announced(W.entered) :
                \/ effects' = effects
                \/ /\ effects'[W.h].mails[s] \in {effects[W.h].mails[s], effects[W.h].mails[s] + 1}
                   /\ \A k \in NotifyStages : k # s => effects'[W.h].mails[k] = effects[W.h].mails[k]
           /\ ~DecideLoad => effects'[W.h].replies = effects[W.h].replies
           /\ DecideLoad => effects'[W.h].replies = effects[W.h].replies + 1
<1>1. W \in Sessions /\ W.h \in Handoffs /\ W = sess[Watcher] /\ effects \in [Handoffs -> Traces]
  BY WatcherSession DEF W, CompleteTask, WriteNote, CreateAdoption, Notify, DecideLoad, At, Sound, Aimless,
       Typed, TypeOK
<1>2. effects[W.h] \in Traces
  BY <1>1
<1>3. \A n \in Tries : n \in {0, 1}
  BY DEF Tries
<1>4. CASE CompleteTask
  <2>1. PICK n : effects' = [effects EXCEPT ![W.h].completed = @ + n]
    BY <1>4 DEF CompleteTask
  <2>2. effects'[W.h] = [effects[W.h] EXCEPT !.completed = @ + n]
    BY <1>1, <2>1
  <2> QED
    BY <1>1, <1>2, <1>4, <2>1, <2>2 DEF Traces, CompleteTask, CreateAdoption, Notify, DecideLoad, At
<1>5. CASE WriteNote
  <2>1. PICK n : effects' = [effects EXCEPT ![W.h].notes = @ + n]
    BY <1>5 DEF WriteNote
  <2>2. effects'[W.h] = [effects[W.h] EXCEPT !.notes = @ + n]
    BY <1>1, <2>1
  <2> QED
    BY <1>1, <1>2, <1>5, <2>1, <2>2 DEF Traces, WriteNote, CreateAdoption, Notify, DecideLoad, At
<1>6. CASE CreateAdoption
  <2>1. PICK n \in {0, 1} : effects' = [effects EXCEPT ![W.h].adoptions = @ + n]
    BY <1>3, <1>6 DEF CreateAdoption
  <2>2. effects'[W.h] = [effects[W.h] EXCEPT !.adoptions = @ + n]
    BY <1>1, <2>1
  <2>3. effects'[W.h].adoptions = effects[W.h].adoptions + n /\ effects[W.h].adoptions \in Nat
    BY <1>2, <2>2 DEF Traces
  <2>4. /\ effects'[W.h].mails = effects[W.h].mails
        /\ effects'[W.h].replies = effects[W.h].replies
    BY <1>2, <2>2 DEF Traces
  <2>5. ~DecideLoad /\ ~Notify
    BY <1>6 DEF CreateAdoption, Notify, DecideLoad, At
  <2>6. \A h \in Handoffs : h # W.h => effects'[h] = effects[h]
    BY <1>1, <2>1
  <2>7. effects'[W.h].adoptions \in {effects[W.h].adoptions, effects[W.h].adoptions + 1}
    BY <2>3
  <2> QED
    BY <1>1, <1>6, <2>4, <2>5, <2>6, <2>7
<1>7. CASE Notify
  <2>0. ~DecideLoad /\ ~CreateAdoption
    BY <1>7 DEF CreateAdoption, Notify, DecideLoad, At
  <2>1. PICK s \in Announced(W.entered) :
          \/ effects' = effects
          \/ \E n \in Tries : effects' = [effects EXCEPT ![W.h].mails[s] = @ + n]
    BY <1>7 DEF Notify
  <2>2. CASE effects' = effects
    BY <1>1, <1>7, <2>0, <2>1, <2>2
  <2>3. ASSUME NEW n \in Tries, effects' = [effects EXCEPT ![W.h].mails[s] = @ + n]
        PROVE  /\ \A h \in Handoffs : h # W.h => effects'[h] = effects[h]
               /\ effects'[W.h] = [effects[W.h] EXCEPT !.mails[s] = @ + n]
    BY <1>1, <2>3
  <2>4. ASSUME NEW n \in Tries, effects'[W.h] = [effects[W.h] EXCEPT !.mails[s] = @ + n]
        PROVE  /\ effects'[W.h].completed = effects[W.h].completed
               /\ effects'[W.h].notes = effects[W.h].notes
               /\ effects'[W.h].adoptions = effects[W.h].adoptions
               /\ effects'[W.h].replies = effects[W.h].replies
               /\ effects'[W.h].mails[s] = effects[W.h].mails[s] + n
               /\ \A k \in NotifyStages : k # s => effects'[W.h].mails[k] = effects[W.h].mails[k]
    <3>1. s \in NotifyStages
      BY DEF Announced
    <3> QED
      BY <1>2, <2>4, <3>1 DEF Traces
  <2>5. ASSUME NEW n \in Tries
        PROVE  effects[W.h].mails[s] + n \in {effects[W.h].mails[s], effects[W.h].mails[s] + 1}
    <3>1. effects[W.h].mails[s] \in Nat
      BY <1>2 DEF Traces, Announced
    <3> QED
      BY <1>3, <3>1
  <2>6. CASE \E n \in Tries : effects' = [effects EXCEPT ![W.h].mails[s] = @ + n]
    BY <1>1, <1>7, <2>0, <2>3, <2>4, <2>5, <2>6
  <2> QED
    BY <2>1, <2>2, <2>6
<1>8. CASE DecideLoad
  <2>1. effects' = [effects EXCEPT ![W.h].replies = @ + 1]
    BY <1>8 DEF DecideLoad, W
  <2>2. effects'[W.h] = [effects[W.h] EXCEPT !.replies = @ + 1]
    BY <1>1, <2>1
  <2> QED
    BY <1>1, <1>2, <1>8, <2>1, <2>2 DEF Traces, CreateAdoption, Notify, DecideLoad, At
<1> QED
  BY <1>4, <1>5, <1>6, <1>7, <1>8

LEMMA EffectsElse ==
    ASSUME Typed, [Next]_vars, ~(CompleteTask \/ WriteNote \/ CreateAdoption \/ Notify \/ DecideLoad)
    PROVE  effects' = effects
BY Aside DEF Next, Tick, TickStart, TakeHandoff, FindRun, AwaitRun, GetRun, ReadJobs, ReadPending, Advance,
   AfterCommit, CommitEffects, CheckReplies, ReadMailbox, SpendReply, RecordOutcome, DecideCheck,
   DecidePost, DecideRecord, Unavailable, Crash

LEMMA EffectsFitNext ==
    ASSUME Typed, RowsTrue, ThreadsHold, Watching, Due, EffectsFit, Numbered, [Next]_vars
    PROVE  EffectsFit'
<1>0. /\ \A h \in Handoffs : effects[h] \in Traces /\ rows[h].stage \in Stages
      /\ \A s \in Stages : Position[s] \in Int
      /\ \A h \in Handoffs : rows'[h].stage \in Stages
  <2>1. Typed'
    BY TypeNext
  <2> QED
    BY <2>1, Positions DEF Typed, TypeOK, Rows, Stages, Position
<1>1. StagesForward
  BY StagesMoveForward
<1> DEFINE Fits(h, e) ==
      /\ \A s \in NotifyStages : /\ e.mails[s] <= 1
                                 /\ e.mails[s] > 0 => Position[s] <= Position[rows'[h].stage]
      /\ e.completed + e.notes + e.adoptions > 0 => rows'[h].stage = "done"
      /\ e.adoptions <= 1
<1>2. ASSUME NEW h \in Handoffs PROVE Fits(h, effects[h])
  <2>1. \A s \in NotifyStages : /\ effects[h].mails[s] <= 1
                                /\ effects[h].mails[s] > 0 => Position[s] <= Position[rows'[h].stage]
    <3>1. NotifyStages \subseteq Stages
      BY DEF NotifyStages, Stages, Position
    <3>2. Position[rows[h].stage] <= Position[rows'[h].stage]
      BY <1>1 DEF StagesForward
    <3>3. \A s \in NotifyStages : /\ effects[h].mails[s] <= 1
                                  /\ effects[h].mails[s] > 0 => Position[s] <= Position[rows[h].stage]
      BY DEF EffectsFit
    <3>4. \A s \in NotifyStages : Position[s] \in Int
      BY <1>0, <3>1
    <3>5. Position[rows[h].stage] \in Int /\ Position[rows'[h].stage] \in Int
      BY <1>0
    <3> QED
      BY <3>2, <3>3, <3>4, <3>5
  <2>2. rows[h].stage = "done" => rows'[h].stage = "done"
    BY <1>1 DEF StagesForward, Terminal
  <2> QED
    BY <2>1, <2>2 DEF EffectsFit
<1>3. ASSUME \A h \in Handoffs : Fits(h, effects'[h]) PROVE EffectsFit'
  BY <1>3 DEF EffectsFit
<1>4. ASSUME CompleteTask \/ WriteNote \/ CreateAdoption \/ Notify \/ DecideLoad,
             Fits(W.h, effects'[W.h])
      PROVE  EffectsFit'
  <2>1. \A h \in Handoffs : h # W.h => effects'[h] = effects[h]
    BY <1>4, EffectsMove
  <2> HIDE DEF Fits
  <2>2. \A h \in Handoffs : Fits(h, effects'[h])
    BY <1>2, <1>4, <2>1
  <2> QED
    BY <1>3, <2>2
<1>5. CASE ~(CompleteTask \/ WriteNote \/ CreateAdoption \/ Notify \/ DecideLoad)
  <2>1. effects' = effects
    BY <1>5, EffectsElse
  <2> HIDE DEF Fits
  <2> QED
    BY <1>2, <1>3, <2>1
<1>6. CASE CompleteTask \/ WriteNote \/ CreateAdoption
  <2>1. W.pc \in Recording /\ W.h \in Handoffs /\ ~Notify /\ rows' \in [Handoffs -> Rows]
    <3>1. Typed'
      BY TypeNext
    <3> QED
      BY <1>6, <3>1, EffectsMove DEF CompleteTask, WriteNote, CreateAdoption, Notify, At, W, Recording,
         Typed, TypeOK
  <2>2. rows[W.h].stage = "done" /\ effects[W.h].adoptions = 0
    BY <2>1 DEF Due
  <2>3. rows'[W.h].stage = "done"
    BY <1>1, <2>1, <2>2 DEF StagesForward, Terminal
  <2>4. effects'[W.h].mails = effects[W.h].mails /\ effects'[W.h].adoptions <= 1
    <3>1. effects'[W.h].adoptions \in {effects[W.h].adoptions, effects[W.h].adoptions + 1}
      BY <1>6, <2>1, EffectsMove
    <3> QED
      BY <1>6, <2>1, <2>2, <3>1, EffectsMove
  <2>5. Fits(W.h, effects'[W.h])
    BY <1>2, <2>1, <2>3, <2>4
  <2> HIDE DEF Fits
  <2> QED
    BY <1>4, <1>6, <2>5
<1>7. CASE Notify
  <2>1. W.pc = "notify" /\ W.h \in Handoffs /\ ~CreateAdoption /\ ~(AwaitRun \/ Advance)
    BY <1>7, EffectsMove DEF Notify, CreateAdoption, AwaitRun, Advance, At, W
  <2>2. /\ rows[W.h].stage = Latest(W.entered)
        /\ rows[W.h].stage \in NotifyStages => effects[W.h].mails[rows[W.h].stage] = 0
    BY <2>1 DEF Due, Telling
  <2>3. PICK s \in Announced(W.entered) :
          \/ effects' = effects
          \/ /\ effects'[W.h].mails[s] \in {effects[W.h].mails[s], effects[W.h].mails[s] + 1}
             /\ \A k \in NotifyStages : k # s => effects'[W.h].mails[k] = effects[W.h].mails[k]
    BY <1>7, EffectsMove
  <2>4. s = rows[W.h].stage /\ s \in NotifyStages
    BY <2>2 DEF Announced
  <2>5. CASE effects' = effects
    <3> HIDE DEF Fits
    <3> QED
      BY <1>2, <1>4, <1>7, <2>1, <2>5
  <2>6. CASE /\ effects'[W.h].mails[s] \in {effects[W.h].mails[s], effects[W.h].mails[s] + 1}
             /\ \A k \in NotifyStages : k # s => effects'[W.h].mails[k] = effects[W.h].mails[k]
    <3>1. rows'[W.h].stage = s
      BY <1>7, <2>4 DEF Notify
    <3>2. effects'[W.h].mails[s] \in {0, 1} /\ Position[s] <= Position[rows'[W.h].stage]
      BY <1>0, <2>1, <2>2, <2>4, <2>6, <3>1
    <3>3. Fits(W.h, effects[W.h])
      BY <1>2, <2>1
    <3>4. /\ effects'[W.h].completed = effects[W.h].completed /\ effects'[W.h].notes = effects[W.h].notes
          /\ effects'[W.h].adoptions = effects[W.h].adoptions
      BY <1>7, <2>1, EffectsMove
    <3>5. Fits(W.h, effects'[W.h])
      BY <2>6, <3>2, <3>3, <3>4
    <3> HIDE DEF Fits
    <3> QED
      BY <1>4, <1>7, <3>5
  <2> QED
    BY <2>3, <2>5, <2>6
<1>8. CASE DecideLoad
  <2>1. W.h \in Handoffs /\ ~CreateAdoption /\ ~Notify
    BY <1>8, EffectsMove DEF Notify, CreateAdoption, DecideLoad, At
  <2>2. /\ effects'[W.h].completed = effects[W.h].completed /\ effects'[W.h].notes = effects[W.h].notes
        /\ effects'[W.h].adoptions = effects[W.h].adoptions /\ effects'[W.h].mails = effects[W.h].mails
    BY <1>8, <2>1, EffectsMove
  <2>3. Fits(W.h, effects'[W.h])
    BY <1>2, <2>1, <2>2
  <2> HIDE DEF Fits
  <2> QED
    BY <1>4, <1>8, <2>3
<1> QED
  BY <1>5, <1>6, <1>7, <1>8

\* A stage just entered is one the handoff has had no mail about.
LEMMA DueAtCommit ==
    ASSUME Typed, Watching, EffectsFit, AwaitRun \/ Advance
    PROVE  Due'
<1>1. PICK S \in SUBSET Reached :
        /\ AfterCommit(S) /\ ("done" \in S => "failed" \notin S)
        /\ S # {} => /\ rows'[W.h].stage = Latest(S)
                     /\ Position[rows[W.h].stage] < Position[rows'[W.h].stage]
  BY AwaitStage, AdvanceStage
<1>2. /\ W.h \in Handoffs /\ Active(W.h) /\ W'.h = W.h /\ W'.entered = S /\ effects' = effects
      /\ W'.pc = IF S = {} THEN "replies" ELSE AfterEvents(S)
  BY <1>1, AwaitStage, AdvanceStage, CommitIs DEF Onward
<1>3. CASE S = {}
  BY <1>2, <1>3 DEF Due, Telling, Recording
<1>4. CASE S # {}
  <2>1. Latest(S) \in Reached /\ rows'[W.h].stage = Latest(S)
        /\ Position[rows[W.h].stage] < Position[Latest(S)]
    BY <1>1, <1>4, LatestIs
  <2>2. effects[W.h] \in Traces /\ rows[W.h].stage \in Stages
    BY <1>2 DEF Typed, TypeOK, Rows
  <2>3. Latest(S) \in NotifyStages => effects[W.h].mails[Latest(S)] = 0
    <3>1. Position[rows[W.h].stage] \in Int /\ Position[Latest(S)] \in Int
      BY <2>1, <2>2, Positions DEF Stages, Position, Reached, Facts, Terminal
    <3>2. Latest(S) \in NotifyStages /\ effects[W.h].mails[Latest(S)] > 0 =>
            Position[Latest(S)] <= Position[rows[W.h].stage]
      BY <1>2 DEF EffectsFit
    <3>3. Latest(S) \in NotifyStages => effects[W.h].mails[Latest(S)] \in Nat
      BY <2>2 DEF Traces
    <3> QED
      BY <2>1, <3>1, <3>2, <3>3
  <2>4. W'.pc \in Recording => rows'[W.h].stage = "done" /\ effects[W.h].adoptions = 0
    <3> SUFFICES ASSUME W'.pc \in Recording
                 PROVE  rows'[W.h].stage = "done" /\ effects[W.h].adoptions = 0
      OBVIOUS
    <3>1. "done" \in S
      BY <1>2, <1>4 DEF AfterEvents, AfterEffects, Recording
    <3>2. Latest(S) = "done"
      <4>1. S \in SUBSET (Facts \cup {"done"})
        BY <1>1, <3>1 DEF Reached, Terminal
      <4> QED
        BY <3>1, <4>1, LatestDone
    <3>3. rows[W.h].stage # "done"
      BY <1>2 DEF Active, Terminal
    <3>4. /\ effects[W.h].completed \in Nat /\ effects[W.h].notes \in Nat /\ effects[W.h].adoptions \in Nat
          /\ ~(effects[W.h].completed + effects[W.h].notes + effects[W.h].adoptions > 0)
      BY <1>2, <2>2, <3>3 DEF Traces, EffectsFit
    <3>5. effects[W.h].adoptions = 0
      BY <3>4
    <3> QED
      BY <2>1, <3>2, <3>5
  <2> QED
    BY <1>2, <1>4, <2>1, <2>3, <2>4 DEF Due
<1> QED
  BY <1>3, <1>4

LEMMA DueNext ==
    ASSUME Typed, RowsTrue, ThreadsHold, Watching, Due, EffectsFit, Numbered, [Next]_vars
    PROVE  Due'
<1>0. W.pc \in Telling => /\ W.h \in Handoffs /\ W.entered # {} /\ rows[W.h].stage = Latest(W.entered)
                          /\ Exists(W.h) /\ ~(AwaitRun \/ Advance) /\ rows'[W.h].stage = rows[W.h].stage
  <2> SUFFICES ASSUME W.pc \in Telling
               PROVE  /\ W.h \in Handoffs /\ W.entered # {} /\ rows[W.h].stage = Latest(W.entered)
                      /\ Exists(W.h) /\ ~(AwaitRun \/ Advance) /\ rows'[W.h].stage = rows[W.h].stage
    OBVIOUS
  <2>1. W.h \in Handoffs /\ W \in Sessions /\ ~(AwaitRun \/ Advance)
    BY WatcherSession DEF Telling, Recording, Sound, Aimless, AwaitRun, Advance, At, W
  <2>2. W.entered # {} /\ rows[W.h].stage = Latest(W.entered) /\ W.entered \in SUBSET Reached
    BY <2>1 DEF Due, Sessions
  <2>3. Latest(W.entered) \in Reached
    BY <2>2, LatestIs
  <2>4. Exists(W.h)
    BY <2>2, <2>3 DEF Exists, Reached, Facts, Terminal
  <2> QED
    BY <2>1, <2>2, <2>4, OpenStays
<1>1. ASSUME W'.pc \notin Telling PROVE Due'
  BY <1>1 DEF Due, Telling
<1>2. ASSUME W.pc \in Telling, W'.pc \in Telling, W'.h = W.h, W'.entered = W.entered,
             effects'[W.h].mails = effects[W.h].mails,
             W'.pc \in Recording => W.pc \in Recording /\ effects'[W.h].adoptions = effects[W.h].adoptions
      PROVE  Due'
  BY <1>0, <1>2 DEF Due
<1>3. CASE GitHub \/ PassTime \/ Start \/ Decide \/ Reply \/ UNCHANGED vars
  <2>1. W' = W /\ effects' = effects
    BY <1>3, Aside
  <2> QED
    BY <1>1, <1>2, <2>1
<1>4. CASE TickStart \/ FindRun \/ GetRun \/ ReadJobs \/ ReadPending
  <2>1. PICK pc \in {"next", "await", "jobs", "pending", "advance"} : Step(pc)
    BY <1>4 DEF TickStart, FindRun, GetRun, ReadJobs, ReadPending
  <2> QED
    BY <1>1, <2>1, StepIs DEF Telling, Recording
<1>5. CASE TakeHandoff
  <2>1. W'.pc \in {"idle", "get", "find"}
    BY <1>5, TakeIs
  <2> QED
    BY <1>1, <2>1 DEF Telling, Recording
<1>6. CASE AwaitRun \/ Advance
  BY <1>6, DueAtCommit
<1>7. CASE CompleteTask \/ WriteNote
  <2>1. /\ W.pc \in Recording /\ ~Notify /\ ~CreateAdoption
        /\ W'.pc \in {"note", "adopt"} /\ W'.h = W.h /\ W'.entered = W.entered
    BY <1>7, EffectsAre DEF CompleteTask, WriteNote, Notify, CreateAdoption, At, W, Recording
  <2>2. effects'[W.h].mails = effects[W.h].mails /\ effects'[W.h].adoptions = effects[W.h].adoptions
    BY <1>7, <2>1, EffectsMove
  <2> QED
    BY <1>2, <2>1, <2>2 DEF Telling, Recording
<1>8. CASE CreateAdoption
  <2>1. /\ W.pc = "adopt" /\ ~Notify /\ W'.pc \in {"notify", "commit"} /\ W'.h = W.h
        /\ W'.entered = W.entered
    BY <1>8, EffectsAre DEF CreateAdoption, Notify, At, W, AfterEffects
  <2>2. effects'[W.h].mails = effects[W.h].mails
    BY <1>8, <2>1, EffectsMove
  <2> QED
    BY <1>1, <1>2, <2>1, <2>2 DEF Telling, Recording
<1>9. CASE Notify \/ CommitEffects
  BY <1>1, <1>9, EffectsAre, CommitEffectsIs DEF Telling, Recording
<1>10. CASE CheckReplies \/ ReadMailbox \/ SpendReply \/ DecideLoad \/ RecordOutcome
            \/ DecideCheck(Watcher) \/ DecidePost(Watcher) \/ DecideRecord(Watcher)
  <2>1. W'.pc \in {"next", "imap", "spend", "load", "check", "outcome", "post", "record"}
    BY <1>10, RepliesAre DEF NextHandoff, NoSession
  <2> QED
    BY <1>1, <2>1 DEF Telling, Recording
<1>11. CASE Unavailable
  BY <1>1, <1>11, ToNext DEF Unavailable, Telling, Recording
<1>12. CASE Crash
  <2>1. W' = NoSession
    BY <1>12, WatcherSession DEF Crash, W
  <2> QED
    BY <1>1, <2>1 DEF NoSession, Telling, Recording
<1> QED
  BY <1>3, <1>4, <1>5, <1>6, <1>7, <1>8, <1>9, <1>10, <1>11, <1>12 DEF Next, Tick

-----------------------------------------------------------------------------
(* The invariant, and what it says.                                        *)

LEMMA InitHolds == Init => IInv
<1> SUFFICES ASSUME Init PROVE IInv
  OBVIOUS
<1>1. Typed
  BY TypeInit
<1>2. /\ W = NoSession /\ \A a \in Actors : sess[a] = NoSession
      /\ \A h \in Handoffs : rows[h] = NoRow
  BY WatcherSession, <1>1 DEF Init, W
<1>3. Ordered(gh)
  BY DEF Init, Ordered, PypiStarted, Roles
<1>4. ReadsTrue
  BY <1>2 DEF Init, ReadsTrue, Read, NoReads, PypiStarted, Ended, Roles, NoSession
<1>5. RowsTrue
  BY <1>2 DEF RowsTrue, RowTrue, NoRow, NoHistory, Facts, Tagged
<1>6. ThreadsHold
  BY <1>2, NothingHeld DEF ThreadsHold, Held, NoSession, Replying
<1>7. Watching /\ Due
  BY <1>2 DEF Init, Watching, Due, NoSession, Following, Telling, Recording
<1>8. EffectsFit
  <2>1. ASSUME NEW h \in Handoffs
        PROVE  /\ \A s \in NotifyStages : effects[h].mails[s] = 0
               /\ effects[h].completed = 0 /\ effects[h].notes = 0 /\ effects[h].adoptions = 0
    BY DEF Init
  <2> QED
    BY <2>1 DEF EffectsFit
<1>9. Numbered
  <2>1. \A h \in Handoffs : ~Exists(h)
    BY <1>2 DEF Exists, NoRow
  <2>2. 0 \in 0 .. MaxHandoffs /\ \A h \in Handoffs : Exists(h) <=> h <= 0
    BY <2>1, ReleaseAssumption DEF Handoffs
  <2> QED
    BY <2>2 DEF Numbered
<1> QED
  BY <1>1, <1>3, <1>4, <1>5, <1>6, <1>7, <1>8, <1>9 DEF IInv

LEMMA NextHolds == IInv /\ [Next]_vars => IInv'
<1> SUFFICES ASSUME IInv, [Next]_vars PROVE IInv'
  OBVIOUS
<1>1. /\ Typed /\ Ordered(gh) /\ ReadsTrue /\ RowsTrue /\ ThreadsHold
      /\ Watching /\ Due /\ EffectsFit /\ Numbered
  BY DEF IInv
<1>2. Typed' /\ Ordered(gh)'
  BY <1>1, TypeNext, OrderedNext, GitHubNext
<1> QED
  BY <1>1, <1>2, ReadsTrueNext, RowsTrueNext, ThreadsHoldNext, WatchingNext, DueNext, EffectsFitNext,
     NumberedNext DEF IInv

\* What every reachable state satisfies: the rest of this module follows from it.
THEOREM Inductive == Spec => []IInv
BY InitHolds, NextHolds, PTL DEF Spec

LEMMA FactsFollow == IInv => RecordIsFact
<1> SUFFICES ASSUME IInv PROVE RecordIsFact
  OBVIOUS
<1>1. \A h \in Handoffs : RowTrue(rows[h], gh)
  BY DEF IInv, RowsTrue
<1>2. gh.run # "none" => gh.tag
  BY DEF IInv, Ordered
<1>3. StageIsFact
  BY <1>1 DEF StageIsFact, RowTrue
<1>4. FailureIsFact
  BY <1>1, <1>2 DEF FailureIsFact, RowTrue, Tagged
<1>5. NoRunFromTag
  BY <1>1 DEF NoRunFromTag, RowTrue
<1> QED
  BY <1>3, <1>4, <1>5 DEF RecordIsFact

\* advance and its four reads: what a row says of GitHub is true of it.
THEOREM RecordIsTrue == Spec => []RecordIsFact
<1>1. IInv => RecordIsFact
  BY FactsFollow
<1> QED
  BY <1>1, Inductive, PTL

LEMMA MailsFollow == IInv => MailOnce
BY DEF IInv, EffectsFit, MailOnce

\* notify: each mail of each handoff leaves at most once, whatever crashes.
THEOREM MailedOnce == Spec => []MailOnce
<1>1. IInv => MailOnce
  BY MailsFollow
<1> QED
  BY <1>1, Inductive, PTL

LEMMA RecordsFollow == IInv => RecordsOnlyDone
<1> SUFFICES ASSUME IInv, NEW h \in Handoffs,
                    effects[h].completed + effects[h].notes + effects[h].adoptions > 0
             PROVE  rows[h].stage = "done" /\ Finished(gh)
  BY DEF RecordsOnlyDone
<1>1. rows[h].stage = "done"
  BY DEF IInv, EffectsFit
<1> QED
  BY <1>1 DEF IInv, RowsTrue, RowTrue

\* record_outcome: nothing is recorded of a release that has not finished.
THEOREM RecordedWhenDone == Spec => []RecordsOnlyDone
<1>1. IInv => RecordsOnlyDone
  BY RecordsFollow
<1> QED
  BY <1>1, Inductive, PTL

LEMMA AskedWhenDue ==
    ASSUME IInv, [Next]_vars
    PROVE  AskedAtTheGate
<1> SUFFICES ASSUME NEW h \in Handoffs, effects'[h].mails["at_gate"] # effects[h].mails["at_gate"]
             PROVE  rows[h].stage = "at_gate"
  BY DEF AskedAtTheGate
<1>1. Typed /\ Due
  BY DEF IInv
<1>2. CASE Notify
  <2>1. W.pc = "notify" /\ W.h \in Handoffs
    BY <1>1, <1>2, EffectsMove DEF Notify, At, W
  <2>2. PICK s \in Announced(W.entered) :
          \/ effects' = effects
          \/ \A k \in NotifyStages : k # s => effects'[W.h].mails[k] = effects[W.h].mails[k]
    BY <1>1, <1>2, EffectsMove
  <2>3. s = rows[W.h].stage
    BY <1>1, <2>1 DEF Announced, Due, Telling
  <2>4. h = W.h
    BY <1>1, <1>2, EffectsMove
  <2> QED
    BY <2>2, <2>3, <2>4 DEF NotifyStages
<1>3. CASE ~Notify
  <2>1. CASE CompleteTask \/ WriteNote \/ CreateAdoption \/ DecideLoad
    BY <1>1, <1>3, <2>1, EffectsMove
  <2>2. CASE ~(CompleteTask \/ WriteNote \/ CreateAdoption \/ DecideLoad)
    BY <1>1, <1>3, <2>2, EffectsElse
  <2> QED
    BY <2>1, <2>2
<1> QED
  BY <1>2, <1>3

\* process: stages only move forward, nothing follows an end, and the owner is
\* asked to approve only while the handoff is at the gate.
THEOREM StagesInOrder == Spec => InOrder
<1>1. IInv /\ [Next]_vars => [StagesForward /\ AskedAtTheGate]_<<rows, effects>>
  <2> SUFFICES ASSUME IInv, [Next]_vars PROVE StagesForward /\ AskedAtTheGate
    OBVIOUS
  <2>1. StagesForward
    BY StagesMoveForward DEF IInv
  <2> QED
    BY <2>1, AskedWhenDue
<1> QED
  BY <1>1, InitHolds, NextHolds, PTL DEF Spec, InOrder

-----------------------------------------------------------------------------
(* The handoff implements ReleasePromise.                                  *)

Verdict == IF gh.gate \in Verdicts THEN gh.gate ELSE "none"
Published == gh.jobs["pypi"] = "success"
StageOf == [h \in Handoffs |-> rows[h].stage]
MailsOf == [h \in Handoffs |-> effects[h].mails]

\* Of the gate and of PyPI, GitHub changes one at a time, and once.
GateGoes ==
    \/ Verdict' = Verdict /\ Published' = Published
    \/ Verdict = "none" /\ Verdict' \in Verdicts /\ Published' = Published
    \/ Verdict = "approved" /\ Verdict' = Verdict /\ ~Published /\ Published'

LEMMA GitHubGoes ==
    ASSUME Typed, Ordered(gh), [Next]_vars
    PROVE  GateGoes
<1>0. gh \in Truths
  BY DEF Typed, TypeOK
<1>1. CASE gh'.gate = gh.gate /\ gh'.jobs["pypi"] = gh.jobs["pypi"]
  BY <1>1 DEF GateGoes, Verdict, Published
<1>2. CASE PushTag
  <2>1. gh'.gate = gh.gate /\ gh'.jobs = gh.jobs
    BY <1>0, <1>2 DEF PushTag, Truths
  <2> QED
    BY <1>1, <2>1
<1>3. CASE RunStarts
  <2>1. gh'.gate = gh.gate /\ gh'.jobs["pypi"] = gh.jobs["pypi"]
    BY <1>0, <1>3 DEF RunStarts, Truths, Roles
  <2> QED
    BY <1>1, <2>1
<1>4. CASE PypiStarts
  <2>1. gh'.gate = gh.gate /\ gh.jobs["pypi"] = "queued" /\ gh'.jobs["pypi"] = "in_progress"
    BY <1>0, <1>4 DEF PypiStarts, Truths, Roles
  <2> QED
    BY <2>1 DEF GateGoes, Verdict, Published
<1>5. CASE RunEnds
  <2>1. \/ gh'.gate = gh.gate /\ gh'.jobs = gh.jobs
        \/ /\ gh'.gate = IF gh.gate = "pending" THEN "closed" ELSE gh.gate
           /\ gh'.jobs["pypi"] = IF gh.jobs["pypi"] \in {"queued", "in_progress"}
                                 THEN "cancelled" ELSE gh.jobs["pypi"]
    <3>1. CASE gh' = [gh EXCEPT !.run = "success"] \/ gh' = [gh EXCEPT !.run = "failure"]
      BY <1>0, <3>1 DEF Truths
    <3>2. CASE gh' = [gh EXCEPT !.run = "cancelled",
                                !.gate = IF @ = "pending" THEN "closed" ELSE @,
                                !.jobs = [r \in Roles |-> IF @[r] \in {"queued", "in_progress"}
                                                          THEN "cancelled" ELSE @[r]]]
      BY <1>0, <3>2 DEF Truths, Roles
    <3> QED
      BY <1>5, <3>1, <3>2 DEF RunEnds
  <2> QED
    BY <2>1 DEF GateGoes, Verdict, Published, Verdicts
<1>6. ASSUME NEW r \in Roles, JobFails(r) PROVE GateGoes
  <2>1. /\ gh'.gate = gh.gate /\ gh.jobs[r] = "in_progress" /\ gh'.jobs[r] = "failure"
        /\ \A q \in Roles : q # r => gh'.jobs[q] = gh.jobs[q]
    BY <1>0, <1>6 DEF JobFails, Truths
  <2> QED
    BY <2>1 DEF GateGoes, Verdict, Published, Roles
<1>7. ASSUME NEW r \in Roles, JobSucceeds(r) PROVE GateGoes
  <2>1. gh.jobs[r] = "in_progress"
    BY <1>7 DEF JobSucceeds
  <2>2. CASE r = "testpypi"
    <3>1. gh'.gate = "pending" /\ gh'.jobs["pypi"] = gh.jobs["pypi"]
      BY <1>0, <1>7, <2>2 DEF JobSucceeds, Truths, Roles
    <3>2. gh.gate = "closed"
      BY <2>1, <2>2 DEF Ordered
    <3> QED
      BY <3>1, <3>2 DEF GateGoes, Verdict, Published, Verdicts
  <2>3. CASE r = "pypi"
    <3>1. gh'.gate = gh.gate /\ gh'.jobs["pypi"] = "success"
      BY <1>0, <1>7, <2>3 DEF JobSucceeds, Truths, Roles
    <3>2. gh.gate = "approved"
      BY <2>1, <2>3 DEF Ordered, PypiStarted
    <3> QED
      BY <2>1, <2>3, <3>1, <3>2 DEF GateGoes, Verdict, Published, Verdicts
  <2>4. CASE r \in {"wheel", "release"}
    <3>1. gh'.gate = gh.gate /\ gh'.jobs["pypi"] = gh.jobs["pypi"]
      BY <1>0, <1>7, <2>4 DEF JobSucceeds, Truths, Roles
    <3> QED
      BY <1>1, <3>1
  <2> QED
    BY <2>2, <2>3, <2>4 DEF Roles
<1>8. ASSUME NEW v \in Verdicts, NEW by, gh.gate = "pending", gh' = [gh EXCEPT !.gate = v, !.by = by]
      PROVE  GateGoes
  <2>1. gh'.gate = v /\ gh'.jobs = gh.jobs
    BY <1>0, <1>8 DEF Truths
  <2> QED
    BY <1>8, <2>1 DEF GateGoes, Verdict, Published, Verdicts
<1>9. ASSUME NEW v \in Verdicts, OwnerDecides(v) PROVE GateGoes
  BY <1>8, <1>9 DEF OwnerDecides
<1>10. ASSUME NEW a \in Actors, DecidePost(a), gh' # gh PROVE GateGoes
  <2>1. sess[a].state \in Verdicts
    BY <1>10 DEF DecidePost, At, Typed, Intent, Sound, Deciding
  <2> QED
    BY <1>8, <1>10, <2>1 DEF DecidePost
<1>11. CASE PassTime
  <2>1. gh'.gate = gh.gate /\ gh'.jobs = gh.jobs
    BY <1>0, <1>11 DEF PassTime, Truths
  <2> QED
    BY <1>1, <2>1
<1>12. CASE gh' = gh
  BY <1>1, <1>12
<1> QED
  BY <1>2, <1>3, <1>4, <1>5, <1>6, <1>7, <1>9, <1>10, <1>11, <1>12, GitHubNext DEF GitHub

LEMMA PromiseOfInsert ==
    ASSUME IInv, NEW a \in Starters, StartInsert(a)
    PROVE  [Promise!Next]_(Promise!vars)
<1>1. Verdict' = Verdict /\ Published' = Published /\ MailsOf' = MailsOf
  BY DEF StartInsert, Verdict, Published, MailsOf
<1>2. \A h \in Handoffs : \/ rows'[h] = rows[h]
                          \/ h = NextRow /\ ~Exists(h) /\ rows'[h].stage = "requested"
  BY InsertStage DEF IInv
<1>3. CASE \A h \in Handoffs : rows'[h] = rows[h]
  <2>1. StageOf' = StageOf
    BY <1>3 DEF StageOf
  <2> QED
    BY <1>1, <2>1 DEF Promise!vars, Verdict, Published, MailsOf, StageOf
<1>4. ASSUME NEW h \in Handoffs, rows'[h] # rows[h]
      PROVE  [Promise!Next]_(Promise!vars)
  <2>1. /\ ~Exists(h) /\ rows'[h].stage = "requested"
        /\ \A g \in Handoffs : g # h => rows'[g] = rows[g]
    BY <1>2, <1>4
  <2>2. StageOf[h] = "none" /\ StageOf' = [StageOf EXCEPT ![h] = "requested"]
    BY <2>1 DEF StageOf, Exists
  <2>3. Promise!HandOff(h)
    BY <1>1, <2>2 DEF Promise!HandOff, Verdict, Published, MailsOf, StageOf
  <2> QED
    BY <2>3 DEF Promise!Next
<1> QED
  BY <1>3, <1>4

LEMMA PromiseOfCommit ==
    ASSUME IInv, RowsTrue', AwaitRun \/ Advance
    PROVE  [Promise!Next]_(Promise!vars)
<1>1. /\ W.h \in Handoffs /\ Onward(W.h) /\ gh' = gh /\ effects' = effects
      /\ \A h \in Handoffs : h # W.h => rows'[h] = rows[h]
  BY AwaitStage, AdvanceStage, CommitIs DEF IInv
<1>2. Verdict' = Verdict /\ Published' = Published /\ MailsOf' = MailsOf
  BY <1>1 DEF Verdict, Published, MailsOf
<1>3. StageOf' = [StageOf EXCEPT ![W.h] = rows'[W.h].stage] /\ StageOf[W.h] = rows[W.h].stage
  BY <1>1 DEF StageOf
<1>4. CASE rows'[W.h].stage = rows[W.h].stage
  <2>1. StageOf' = StageOf
    BY <1>1, <1>4 DEF StageOf
  <2> QED
    BY <1>2, <2>1 DEF Promise!vars, Verdict, Published, MailsOf, StageOf
<1>5. CASE rows'[W.h].stage \in Reached /\ Position[rows[W.h].stage] < Position[rows'[W.h].stage]
  <2>0. PICK s \in Reached : s = rows'[W.h].stage
    BY <1>5
  <2>1. rows[W.h].stage \notin {"none", "done", "failed"}
    BY <1>1 DEF Onward, Active, Terminal
  <2>2. RowTrue(rows'[W.h], gh)
    BY <1>1 DEF RowsTrue
  <2>3. s = "approved" => Verdict = "approved"
    BY <2>0, <2>2 DEF RowTrue, Verdict, Verdicts
  <2>4. s \in {"published", "done"} => Published
    <3>1. Finished(gh) => gh.jobs["pypi"] = "success"
      BY DEF IInv, Ordered, Finished, Roles
    <3> QED
      BY <2>0, <2>2, <3>1 DEF RowTrue, Published
  <2>5. Promise!Order = Position /\ s \in DOMAIN Promise!Order
    BY DEF Promise!Order, Position, Reached, Facts, Terminal
  <2>6. Promise!Move(W.h, s)
    BY <1>2, <1>3, <1>5, <2>0, <2>1, <2>3, <2>4, <2>5
    DEF Promise!Move, Verdict, Published, MailsOf, StageOf
  <2> QED
    BY <1>1, <2>5, <2>6 DEF Promise!Next
<1> QED
  BY <1>1, <1>4, <1>5 DEF Onward

LEMMA PromiseOfNotify ==
    ASSUME IInv, Notify
    PROVE  [Promise!Next]_(Promise!vars)
<1>0. Typed /\ Due /\ effects \in [Handoffs -> Traces] /\ effects' \in [Handoffs -> Traces]
  <2>1. Typed'
    BY TypeNext DEF IInv, Next, Tick
  <2> QED
    BY <2>1 DEF IInv, Typed, TypeOK
<1>1. Verdict' = Verdict /\ Published' = Published /\ StageOf' = StageOf
  BY DEF Notify, Verdict, Published, StageOf
<1>2. W.pc = "notify" /\ W.h \in Handoffs /\ \A h \in Handoffs : h # W.h => effects'[h] = effects[h]
  BY <1>0, EffectsMove DEF Notify, At, W
<1>3. PICK s \in Announced(W.entered) :
        \/ effects' = effects
        \/ /\ effects'[W.h].mails[s] \in {effects[W.h].mails[s], effects[W.h].mails[s] + 1}
           /\ \A k \in NotifyStages : k # s => effects'[W.h].mails[k] = effects[W.h].mails[k]
  BY <1>0, EffectsMove
<1>4. s = rows[W.h].stage /\ s \in NotifyStages /\ effects[W.h].mails[s] = 0
  BY <1>0, <1>2 DEF Announced, Due, Telling
<1>5. /\ MailsOf[W.h] = effects[W.h].mails
      /\ effects[W.h].mails \in [NotifyStages -> Nat] /\ effects'[W.h].mails \in [NotifyStages -> Nat]
  BY <1>0, <1>2 DEF MailsOf, Traces
<1>6. CASE effects'[W.h].mails = effects[W.h].mails
  <2>1. MailsOf' = MailsOf
    BY <1>2, <1>6 DEF MailsOf
  <2> QED
    BY <1>1, <2>1 DEF Promise!vars, Verdict, Published, MailsOf, StageOf
<1>7. CASE effects'[W.h].mails = [effects[W.h].mails EXCEPT ![s] = 1]
  <2>1. MailsOf' = [MailsOf EXCEPT ![W.h][s] = 1]
    BY <1>2, <1>5, <1>7 DEF MailsOf
  <2>2. Promise!Mail(W.h, s)
    BY <1>1, <1>2, <1>4, <1>5, <2>1 DEF Promise!Mail, Verdict, Published, MailsOf, StageOf
  <2> QED
    BY <1>2, <1>4, <2>2 DEF Promise!Next, Promise!Kinds, NotifyStages
<1> QED
  BY <1>3, <1>4, <1>5, <1>6, <1>7

LEMMA PromiseOfNext ==
    ASSUME IInv, [Next]_vars
    PROVE  [Promise!Next]_(Promise!vars)
<1>1. CASE (\E a \in Starters : StartInsert(a)) \/ AwaitRun \/ Advance \/ Notify
  BY <1>1, NextHolds, PromiseOfInsert, PromiseOfCommit, PromiseOfNotify DEF IInv
<1>2. CASE ~((\E a \in Starters : StartInsert(a)) \/ AwaitRun \/ Advance \/ Notify)
  <2>1. StageOf' = StageOf
    <3>1. \A h \in Handoffs : Keeps(h)
      BY <1>2, RowsMove DEF IInv
    <3> QED
      BY <3>1 DEF Keeps, StageOf
  <2>2. MailsOf' = MailsOf
    <3>1. \A h \in Handoffs : effects'[h].mails = effects[h].mails
      BY <1>2, EffectsMove, EffectsElse DEF IInv
    <3> QED
      BY <3>1 DEF MailsOf
  <2>3. GateGoes
    BY GitHubGoes DEF IInv
  <2>4. CASE Verdict' = Verdict /\ Published' = Published
    BY <2>1, <2>2, <2>4 DEF Promise!vars, Verdict, Published, MailsOf, StageOf
  <2>5. CASE Verdict = "none" /\ Verdict' \in Verdicts /\ Published' = Published
    <3>1. Promise!GateDecided
      BY <2>1, <2>2, <2>5 DEF Promise!GateDecided, Verdict, Published, MailsOf, StageOf, Verdicts
    <3> QED
      BY <3>1 DEF Promise!Next
  <2>6. CASE Verdict = "approved" /\ Verdict' = Verdict /\ ~Published /\ Published'
    <3>1. Promise!Publish
      BY <2>1, <2>2, <2>6 DEF Promise!Publish, Verdict, Published, MailsOf, StageOf
    <3> QED
      BY <3>1 DEF Promise!Next
  <2> QED
    BY <2>3, <2>4, <2>5, <2>6 DEF GateGoes
<1> QED
  BY <1>1, <1>2

\* process, advance, decide and check_replies implement what a handoff promises.
THEOREM PromiseKept == Spec => KeepsPromise
<1>1. Init => Promise!Init
  BY DEF Init, Promise!Init, NoRow, Verdicts, Roles, NotifyStages, Promise!Kinds
<1>2. IInv /\ [Next]_vars => [Promise!Next]_(Promise!vars)
  BY PromiseOfNext
<1> QED
  BY <1>1, <1>2, InitHolds, NextHolds, PTL DEF Spec, KeepsPromise, Promise!Spec
=============================================================================
