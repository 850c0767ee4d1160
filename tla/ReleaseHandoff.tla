--------------------------- MODULE ReleaseHandoff ---------------------------
(***************************************************************************)
(* A release handed off to A.I.N.D.Y. (apps/automation, release_handoff)  *)
(*                                                                         *)
(* The owner hands a tag off; the watcher, once a minute, reads the tag's  *)
(* GitHub run and moves the handoff's row forward; at the approval gate it *)
(* mails the owner, who decides on GitHub, on the Collaborator card, or by *)
(* replying to the mail.  The module models one tag: its run on GitHub     *)
(* (external, nobody waits for anybody), the rows handed off for it, the   *)
(* watcher thread, and concurrent HTTP requests that start a handoff or    *)
(* decide the gate.  Every GitHub call and every database commit is a step *)
(* of its own; what a session holds in memory between two steps is state.  *)
(***************************************************************************)
EXTENDS Integers, FiniteSets

CONSTANTS
    MaxHandoffs,    \* bound: how many times the tag is handed off
    Starters,       \* concurrent POST /releases requests
    Deciders,       \* concurrent POST /releases/{id}/approve|reject requests
    EmailReplies,   \* email_reply_enabled(): token and mailbox are configured
    GitHubFails,    \* GitHub calls may fail or lose their answer
    EffectsFail,    \* task, memory and mail calls may fail
    MaxCrashes,     \* bound: how many times the api process dies
    NoRunLimit,     \* no_run_minutes(), in units of time
    StallLimit,     \* stall_minutes(), in units of time
    MaxAge          \* bound: ages saturate here; a limit that equals it never expires

ASSUME ReleaseAssumption ==
    /\ MaxHandoffs \in Nat \ {0}
    /\ MaxCrashes \in Nat
    /\ NoRunLimit \in Nat /\ StallLimit \in Nat /\ MaxAge \in Nat
    /\ NoRunLimit <= MaxAge /\ StallLimit <= MaxAge
    /\ EmailReplies \in BOOLEAN /\ GitHubFails \in BOOLEAN /\ EffectsFail \in BOOLEAN
    /\ "watcher" \notin Starters \cup Deciders
    /\ Starters \cap Deciders = {}

VARIABLES
    gh,        \* GitHub's truth about the tag: run, jobs, gate, ages of its facts
    rows,      \* release_handoffs: one row per handoff
    sess,      \* what each thread holds: program counter, handoff, loaded history
    seen,      \* the watcher's GitHub reads of the current handoff
    todo,      \* handoffs the current tick has still to process
    inbox,     \* the owner's deciding reply to each gate email, if one was sent
    effects,   \* what left the system: mails, tasks, notes, replies acted on
    crashes

vars == <<gh, rows, sess, seen, todo, inbox, effects, crashes>>

-----------------------------------------------------------------------------
(* Vocabulary *)

Handoffs == 1 .. MaxHandoffs
Watcher == "watcher"
Actors == {Watcher} \cup Starters \cup Deciders

Position == [none |-> 0, requested |-> 1, running |-> 2, at_gate |-> 3,
             approved |-> 4, published |-> 5, done |-> 6, failed |-> 7]
Stages == DOMAIN Position
Terminal == {"done", "failed"}
Facts == {"running", "at_gate", "approved", "published"}   \* GitHub dates these
Reached == Facts \cup Terminal
NotifyStages == {"at_gate", "done", "failed"}
Verdicts == {"approved", "rejected"}
Reasons == {"none", "rejected", "cancelled", "job_failed", "run_failed",
            "no_tag", "no_run", "stalled"}
Outcomes == {"none", "pending", "already_decided", "error"} \cup Verdicts
Deliveries == {"no", "sent", "undelivered"}
Channels == {"nobody", "github", "collaborator", "email"}
Ages == 0 .. MaxAge
Older(a) == IF a < MaxAge THEN a + 1 ELSE a

Roles == {"testpypi", "pypi", "wheel", "release"}
JobStates == {"queued", "in_progress", "success", "failure", "cancelled"}
RunStates == {"none", "in_progress", "success", "failure", "cancelled"}
Gates == {"closed", "pending"} \cup Verdicts

Truths == [tag : BOOLEAN, run : RunStates, jobs : [Roles -> JobStates],
           gate : Gates, by : Channels, age : [Facts -> Ages]]

\* The JSON column is read and written whole: stages entered ("tagged" among
\* them), the decision A.I.N.D.Y. sent, and the reply it acted on.
Histories == [stages : SUBSET (Stages \cup {"tagged"}),
              decision : Verdicts \cup {"none"}, via : Channels, reply : Outcomes]
NoHistory == [stages |-> {}, decision |-> "none", via |-> "nobody", reply |-> "none"]

Rows == [stage : Stages, hist : Histories, run : BOOLEAN, failure : Reasons,
         notified : [NotifyStages -> Deliveries],
         task : BOOLEAN, note : BOOLEAN, adoption : BOOLEAN,
         createdAge : Ages, stageAge : Ages, taggedAge : Ages,
         after : {0} \cup Handoffs]     \* history: the handoffs its request's check found
NoRow == [stage |-> "none", hist |-> NoHistory, run |-> FALSE, failure |-> "none",
          notified |-> [s \in NotifyStages |-> "no"],
          task |-> FALSE, note |-> FALSE, adoption |-> FALSE,
          createdAge |-> 0, stageAge |-> 0, taggedAge |-> MaxAge, after |-> 0]

PCs == {"idle", "insert", "next", "find", "await", "get", "jobs", "pending", "advance",
        "complete", "note", "adopt", "notify", "commit", "replies", "imap",
        "spend", "load", "check", "post", "record", "outcome"}
Sessions == [pc : PCs, h : {0} \cup Handoffs, hist : Histories,
             entered : SUBSET Reached, state : Outcomes, mail : Deliveries,
             note : BOOLEAN, adoption : BOOLEAN]
NoSession == [pc |-> "idle", h |-> 0, hist |-> NoHistory, entered |-> {}, state |-> "none",
              mail |-> "no", note |-> FALSE, adoption |-> FALSE]
Traces == [mails : [NotifyStages -> Nat],
           completed : Nat, notes : Nat, adoptions : Nat, replies : Nat]
Reads == [run : RunStates, jobs : [Roles -> JobStates], pending : BOOLEAN]
NoReads == [run |-> "none", jobs |-> [r \in Roles |-> "queued"], pending |-> FALSE]

Exists(h) == rows[h].stage # "none"
Active(h) == rows[h].stage \notin {"none"} \cup Terminal
Created == {h \in Handoffs : Exists(h)}
At(a, pc) == sess[a].pc = pc
Reset(a) == sess' = [sess EXCEPT ![a] = NoSession]
Via(a) == IF a = Watcher THEN "email" ELSE "collaborator"

-----------------------------------------------------------------------------
Init ==
    /\ gh = [tag |-> FALSE, run |-> "none", jobs |-> [r \in Roles |-> "queued"],
             gate |-> "closed", by |-> "nobody", age |-> [f \in Facts |-> MaxAge]]   \* not happened yet
    /\ rows = [h \in Handoffs |-> NoRow]
    /\ sess = [a \in Actors |-> NoSession]
    /\ seen = NoReads
    /\ todo = {}
    /\ inbox = [h \in Handoffs |-> "none"]
    /\ effects = [h \in Handoffs |->
                    [mails |-> [s \in NotifyStages |-> 0], completed |-> 0,
                     notes |-> 0, adoptions |-> 0, replies |-> 0]]
    /\ crashes = 0

-----------------------------------------------------------------------------
(* GitHub: the tag's publish.yml run.  External: modelled from what the     *)
(* client reads of it and from the workflow RELEASE_HANDOFF_SPEC.md lists.  *)

OnlyGitHub == UNCHANGED <<rows, sess, seen, todo, inbox, effects, crashes>>

PushTag == ~gh.tag /\ gh' = [gh EXCEPT !.tag = TRUE] /\ OnlyGitHub

RunStarts ==
    /\ gh.tag /\ gh.run = "none"
    /\ gh' = [gh EXCEPT !.run = "in_progress", !.jobs["testpypi"] = "in_progress",
                        !.age["running"] = 0]
    /\ OnlyGitHub

\* TestPyPI's end opens the gate; PyPI's end starts the wheel check and the release.
JobSucceeds(r) ==
    /\ gh.run = "in_progress" /\ gh.jobs[r] = "in_progress"
    /\ gh' = CASE r = "testpypi" -> [gh EXCEPT !.jobs[r] = "success", !.gate = "pending",
                                               !.age["at_gate"] = 0]
               [] r = "pypi" -> [gh EXCEPT !.jobs = [@ EXCEPT ![r] = "success",
                                                       !["wheel"] = "in_progress",
                                                       !["release"] = "in_progress"],
                                           !.age["published"] = 0]
               [] OTHER -> [gh EXCEPT !.jobs[r] = "success"]
    /\ OnlyGitHub

JobFails(r) ==
    /\ gh.run = "in_progress" /\ gh.jobs[r] = "in_progress"
    /\ gh' = [gh EXCEPT !.jobs[r] = "failure"]
    /\ OnlyGitHub

OwnerDecides(v) ==
    /\ gh.run = "in_progress" /\ gh.gate = "pending"
    /\ gh' = [gh EXCEPT !.gate = v, !.by = "github"]
    /\ OnlyGitHub

PypiStarts ==
    /\ gh.run = "in_progress" /\ gh.gate = "approved" /\ gh.jobs["pypi"] = "queued"
    /\ gh' = [gh EXCEPT !.jobs["pypi"] = "in_progress", !.age["approved"] = 0]
    /\ OnlyGitHub

\* A run that fails with its first job unfinished failed in a job without a role.
RunEnds ==
    /\ gh.run = "in_progress"
    /\ \/ /\ \A r \in Roles : gh.jobs[r] = "success"
          /\ gh' = [gh EXCEPT !.run = "success"]
       \/ /\ \/ \E r \in Roles : gh.jobs[r] = "failure"
             \/ gh.gate = "rejected"
             \/ gh.jobs["testpypi"] = "in_progress"
          /\ gh' = [gh EXCEPT !.run = "failure"]
       \/ gh' = [gh EXCEPT !.run = "cancelled",
                           !.gate = IF @ = "pending" THEN "closed" ELSE @,
                           !.jobs = [r \in Roles |-> IF @[r] \in {"queued", "in_progress"}
                                                     THEN "cancelled" ELSE @[r]]]
    /\ OnlyGitHub

\* The clock: every age grows, up to the bound above which the code's
\* comparisons (now - t > limit) no longer change.
PassTime ==
    /\ gh' = [gh EXCEPT !.age = [f \in Facts |-> Older(@[f])]]
    /\ rows' = [h \in Handoffs |->
                  IF Active(h)
                  THEN [rows[h] EXCEPT !.createdAge = Older(@), !.stageAge = Older(@),
                                       !.taggedAge = Older(@)]
                  ELSE rows[h]]
    /\ UNCHANGED <<sess, seen, todo, inbox, effects, crashes>>

GitHub ==
    \/ PushTag \/ RunStarts \/ PypiStarts \/ RunEnds
    \/ \E r \in Roles : JobSucceeds(r) \/ JobFails(r)
    \/ \E v \in Verdicts : OwnerDecides(v)

-----------------------------------------------------------------------------
(* start_handoff: the check and the insert are two statements, no constraint *)
(* of the table stands between them.                                         *)

MayStart_IgnoresOpen == \A h \in Handoffs : rows[h].stage # "done"
MayStart_IgnoresReleased == \A h \in Handoffs : ~Active(h)
MayStart == \A h \in Handoffs : rows[h].stage \in {"none", "failed"}

StartCheck(a) ==
    /\ At(a, "idle")
    /\ MayStart
    /\ Cardinality(Created) + Cardinality({b \in Starters : At(b, "insert")}) < MaxHandoffs
    /\ sess' = [sess EXCEPT ![a].pc = "insert", ![a].h = Cardinality(Created)]
    /\ UNCHANGED <<gh, rows, seen, todo, inbox, effects, crashes>>

NextRow_ReopensFailed == IF \E g \in Created : rows[g].stage = "failed"
                         THEN CHOOSE g \in Created : rows[g].stage = "failed"
                         ELSE Cardinality(Created) + 1
NextRow == Cardinality(Created) + 1

\* A handoff without its task stands; an earlier handoff's task is reused.
StartInsert(a) ==
    /\ At(a, "insert")
    /\ \E task \in IF EffectsFail /\ (\A g \in Created : ~rows[g].task) THEN BOOLEAN ELSE {TRUE} :
          rows' = [rows EXCEPT ![NextRow] = [NoRow EXCEPT !.stage = "requested", !.task = task,
                                                          !.hist.stages = {"requested"},
                                                          !.after = sess[a].h]]
    /\ sess' = [sess EXCEPT ![a] = NoSession]
    /\ UNCHANGED <<gh, seen, todo, inbox, effects, crashes>>

-----------------------------------------------------------------------------
(* decide: shared by the card's requests and by the watcher acting on a      *)
(* reply.  Between the load and the commit it calls GitHub twice.            *)

Decidable(h) == /\ rows[h].stage = "at_gate" /\ rows[h].run
                /\ rows[h].hist.decision = "none"

Answer_RecordsAnyway(a, outcome) ==
    sess' = [sess EXCEPT ![a].pc = IF outcome = "error" THEN "record"
                                   ELSE IF a = Watcher THEN "outcome" ELSE "idle"]
Answer_ClaimsVerdict(a, outcome) ==
    sess' = [sess EXCEPT ![a] = IF a = Watcher THEN [@ EXCEPT !.pc = "outcome"] ELSE NoSession]

\* A refusal or an error ends a request; the watcher records it as the outcome.
Answer(a, outcome) ==
    sess' = [sess EXCEPT ![a] = IF a = Watcher THEN [@ EXCEPT !.pc = "outcome", !.state = outcome]
                                ELSE NoSession]

RequestDecision(a, h, v) ==
    /\ At(a, "idle") /\ Decidable(h)
    /\ sess' = [sess EXCEPT ![a] = [@ EXCEPT !.pc = "check", !.h = h, !.state = v,
                                             !.hist = rows[h].hist]]
    /\ UNCHANGED <<gh, rows, seen, todo, inbox, effects, crashes>>

DecideLoad ==
    LET h == sess[Watcher].h IN
    /\ At(Watcher, "load")
    /\ sess' = [sess EXCEPT ![Watcher] =
                  IF Decidable(h) THEN [@ EXCEPT !.pc = "check", !.hist = rows[h].hist]
                  ELSE [@ EXCEPT !.pc = "outcome", !.hist = rows[h].hist,
                                 !.state = "already_decided"]]
    /\ effects' = [effects EXCEPT ![h].replies = @ + 1]
    /\ UNCHANGED <<gh, rows, seen, todo, inbox, crashes>>

DecideCheck(a) ==
    /\ At(a, "check")
    /\ \/ /\ gh.gate = "pending"
          /\ sess' = [sess EXCEPT ![a].pc = "post"]
       \/ gh.gate # "pending" /\ Answer(a, "already_decided")
       \/ GitHubFails /\ Answer(a, "error")
    /\ UNCHANGED <<gh, rows, seen, todo, inbox, effects, crashes>>

\* GitHub refuses a gate that is no longer pending; an answer may be lost
\* after the review took effect.
DecidePost(a) ==
    /\ At(a, "post")
    /\ \/ /\ gh.gate = "pending" /\ gh.run = "in_progress"
          /\ gh' = [gh EXCEPT !.gate = sess[a].state, !.by = Via(a)]
          /\ \/ sess' = [sess EXCEPT ![a].pc = "record"]
             \/ GitHubFails /\ Answer(a, "error")
       \/ /\ gh.gate # "pending" \/ GitHubFails
          /\ Answer(a, "error")
          /\ UNCHANGED gh
    /\ UNCHANGED <<rows, seen, todo, inbox, effects, crashes>>

\* The whole list is written from the copy loaded before the two calls.
WithDecision(a) == [sess[a].hist EXCEPT !.decision = sess[a].state, !.via = Via(a)]

DecideRecord(a) ==
    /\ At(a, "record")
    /\ rows' = [rows EXCEPT ![sess[a].h].hist = WithDecision(a)]
    /\ sess' = [sess EXCEPT ![a] = IF a = Watcher
                                   THEN [@ EXCEPT !.pc = "outcome", !.hist = WithDecision(a)]
                                   ELSE NoSession]
    /\ UNCHANGED <<gh, seen, todo, inbox, effects, crashes>>

-----------------------------------------------------------------------------
(* observe: what four responses, read one after another, say.  Pure.         *)

PypiStarted_Waiting(s) == s.jobs["testpypi"] = "success"
PypiStarted(s) == s.jobs["pypi"] \in {"in_progress", "success", "failure"}
Finished(s) == \/ s.jobs["wheel"] = "success" /\ s.jobs["release"] = "success"
               \/ s.run = "success"

Events_GateNotPending(s, rejected) ==
    {"running"} \cup {e \in {"at_gate", "approved"} : ~s.pending}
    \cup {e \in {"published"} : ~rejected /\ s.jobs["pypi"] = "success"}
    \cup {e \in {"done"} : ~rejected /\ Finished(s)}

\* A rejection is the last event: nothing after it is read.
Events(s, rejected) ==
    {"running"}
    \cup {e \in {"at_gate"} : s.pending \/ PypiStarted(s) \/ rejected}
    \cup {e \in {"approved"} : ~rejected /\ PypiStarted(s) /\ ~s.pending}
    \cup {e \in {"published"} : ~rejected /\ s.jobs["pypi"] = "success"}
    \cup {e \in {"done"} : ~rejected /\ Finished(s)}

Failure_UnfinishedFails(s, rejected) ==
    IF rejected THEN "rejected" ELSE IF s.run # "success" THEN "run_failed" ELSE "none"
Failure(s, rejected) ==
    IF rejected THEN "rejected" ELSE IF Finished(s) THEN "none"
    ELSE IF s.run = "cancelled" THEN "cancelled"
    ELSE IF \E r \in Roles : s.jobs[r] \in {"failure", "cancelled"} THEN "job_failed"
    ELSE IF s.run = "failure" THEN "run_failed" ELSE "none"

-----------------------------------------------------------------------------
(* The watcher: release_handoff_watch, process, advance.  One tick at a time *)
(* (the non-blocking lock), one handoff after another, oldest first.         *)

W == sess[Watcher]
Step(pc) == sess' = [sess EXCEPT ![Watcher].pc = pc]
NextHandoff == [NoSession EXCEPT !.pc = "next"]

TickStart ==
    /\ At(Watcher, "idle")
    /\ \E h \in Handoffs : Active(h)
    /\ todo' = {h \in Handoffs : Active(h)}
    /\ Step("next")
    /\ UNCHANGED <<gh, rows, seen, inbox, effects, crashes>>

TakeHandoff ==
    /\ At(Watcher, "next")
    /\ seen' = NoReads
    /\ IF todo = {}
       THEN sess' = [sess EXCEPT ![Watcher] = NoSession] /\ UNCHANGED todo
       ELSE \E h \in todo :
              /\ \A g \in todo : h <= g
              /\ todo' = todo \ {h}
              /\ sess' = [sess EXCEPT ![Watcher] =
                            [NoSession EXCEPT !.pc = IF rows[h].run THEN "get" ELSE "find",
                                              !.h = h, !.hist = rows[h].hist]]
    /\ UNCHANGED <<gh, rows, inbox, effects, crashes>>

FindRun ==
    /\ At(Watcher, "find")
    /\ IF gh.run = "none" THEN Step("await") /\ UNCHANGED seen
       ELSE Step("jobs") /\ seen' = [seen EXCEPT !.run = gh.run]
    /\ UNCHANGED <<gh, rows, todo, inbox, effects, crashes>>

GetRun ==
    /\ At(Watcher, "get")
    /\ seen' = [seen EXCEPT !.run = gh.run]
    /\ Step("jobs")
    /\ UNCHANGED <<gh, rows, todo, inbox, effects, crashes>>

ReadJobs ==
    /\ At(Watcher, "jobs")
    /\ seen' = [seen EXCEPT !.jobs = gh.jobs]
    /\ Step("pending")
    /\ UNCHANGED <<gh, rows, todo, inbox, effects, crashes>>

ReadPending ==
    /\ At(Watcher, "pending")
    /\ seen' = [seen EXCEPT !.pending = (gh.gate = "pending")]
    /\ Step("advance")
    /\ UNCHANGED <<gh, rows, todo, inbox, effects, crashes>>

\* A failed read rolls the session back and leaves the handoff to the next tick.
Unavailable ==
    /\ GitHubFails
    /\ \/ W.pc \in {"find", "get", "jobs", "pending", "advance"}
       \/ W.pc = "await" /\ "tagged" \notin W.hist.stages
    /\ sess' = [sess EXCEPT ![Watcher] = NextHandoff]
    /\ seen' = NoReads
    /\ UNCHANGED <<gh, rows, todo, inbox, effects, crashes>>

NewStages(stage, events) == {e \in events : Position[e] > Position[stage]}
Latest(stages) == CHOOSE s \in stages : \A t \in stages : Position[t] <= Position[s]

\* Mutant: every stage entered in a tick is announced, the gate too if passed.
Announced_Every(entered) == entered \cap NotifyStages
Announced(entered) == {s \in {Latest(entered)} : s \in NotifyStages}
AfterEffects(entered) == IF Announced(entered) # {} THEN "notify" ELSE "commit"

\* Mutants: a failure is recorded like a release; a release only if nothing came with it.
AfterEvents_AnyEnd(entered) ==
    IF entered \cap Terminal # {} THEN "complete" ELSE AfterEffects(entered)
AfterEvents_DoneAlone(entered) == IF entered = {"done"} THEN "complete" ELSE AfterEffects(entered)
AfterEvents(entered) == IF "done" \in entered THEN "complete" ELSE AfterEffects(entered)

\* Mutant: the effects of the stage on record are done again at every tick.
AfterCommit_RedoesEffects(entered) ==
    LET again == entered \cup ({rows'[W.h].stage} \cap Reached) IN
    /\ sess' = [sess EXCEPT ![Watcher] =
                  [@ EXCEPT !.pc = IF again = {} THEN "replies" ELSE AfterEvents(again),
                            !.entered = again]]
    /\ seen' = NoReads
    /\ UNCHANGED <<gh, todo, inbox, effects, crashes>>

\* process after advance commits: an event for each stage entered, sent and
\* forgotten, then the side effects; with no stage entered only replies are left.
AfterCommit(entered) ==
    /\ sess' = [sess EXCEPT ![Watcher] =
                  [@ EXCEPT !.pc = IF entered = {} THEN "replies" ELSE AfterEvents(entered),
                            !.entered = entered]]
    /\ seen' = NoReads
    /\ UNCHANGED <<gh, todo, inbox, effects, crashes>>

Failed(row, hist, reason) ==
    [row EXCEPT !.stage = "failed", !.stageAge = 0, !.failure = reason,
                !.hist = [hist EXCEPT !.stages = @ \cup {"failed"}]]

\* Mutant: a tag in sight is waited for from the request on.
AwaitExpired_FromRequest(row) ==
    ("tagged" \in W.hist.stages \/ ~gh.tag) /\ row.createdAge > NoRunLimit

\* No run yet: the limit counts from the first sight of the tag.
AwaitExpired(row) ==
    IF "tagged" \in W.hist.stages THEN row.taggedAge > NoRunLimit
                                  ELSE ~gh.tag /\ row.createdAge > StallLimit

\* The first sight of the tag is history, not a stage.
FirstSight_AsStage(row) ==
    [row EXCEPT !.stage = "tagged", !.taggedAge = 0, !.hist = [W.hist EXCEPT !.stages = @ \cup {"tagged"}]]
FirstSight(row) ==
    [row EXCEPT !.taggedAge = 0, !.hist = [W.hist EXCEPT !.stages = @ \cup {"tagged"}]]

AwaitRun ==
    LET h == W.h
        tagged == "tagged" \in W.hist.stages IN
    /\ At(Watcher, "await")
    /\ IF AwaitExpired(rows[h])
       THEN /\ rows' = [rows EXCEPT ![h] = Failed(@, W.hist, IF tagged THEN "no_run" ELSE "no_tag")]
            /\ AfterCommit({"failed"})
       ELSE /\ rows' = IF ~tagged /\ gh.tag
                       THEN [rows EXCEPT ![h] = FirstSight(@)] ELSE rows
            /\ AfterCommit({})

\* advance: the approvals are read last; then the row moves to what was seen
\* and is committed, its history written from the copy loaded before the reads.
Advanced(row, hist, entered) ==
    IF entered = {} THEN row
    ELSE LET last == Latest(entered) IN
         [row EXCEPT !.stage = last,
                     !.stageAge = IF last \in Facts THEN gh.age[last] ELSE 0,
                     !.hist = [hist EXCEPT !.stages = @ \cup entered]]
Stalled_NotAtTheGate(row, entered) ==
    entered = {} /\ row.stage # "at_gate" /\ row.stageAge > StallLimit
Stalled(row, entered) == entered = {} /\ row.stageAge > StallLimit

Advance ==
    LET h == W.h
        rejected == gh.gate = "rejected"
        entered == NewStages(rows[h].stage, Events(seen, rejected))
        row == [Advanced(rows[h], W.hist, entered) EXCEPT !.run = TRUE]
        hist == IF entered = {} THEN W.hist ELSE row.hist
        failure == Failure(seen, rejected) IN
    /\ At(Watcher, "advance")
    /\ \/ /\ row.stage = "done" \/ (failure = "none" /\ ~Stalled(row, entered))
          /\ rows' = [rows EXCEPT ![h] = row]
          /\ AfterCommit(entered)
       \/ /\ row.stage # "done" /\ failure # "none"
          /\ rows' = [rows EXCEPT ![h] = Failed(row, hist, failure)]
          /\ AfterCommit(entered \cup {"failed"})
       \/ /\ row.stage # "done" /\ failure = "none" /\ Stalled(row, entered)
          /\ rows' = [rows EXCEPT ![h] = Failed(row, hist, "stalled")]
          /\ AfterCommit({"failed"})

-----------------------------------------------------------------------------
(* process after the first commit: the outcome's three records, the          *)
(* mail, and a second commit.  Each effect may fail without the others, and  *)
(* none is computed again once the row has moved.                            *)

Tries == IF EffectsFail THEN {0, 1} ELSE {1}

CompleteTask ==
    /\ At(Watcher, "complete")
    /\ \E n \in IF rows[W.h].task THEN Tries ELSE {0} :
          effects' = [effects EXCEPT ![W.h].completed = @ + n]
    /\ Step("note")
    /\ UNCHANGED <<gh, rows, seen, todo, inbox, crashes>>

WriteNote ==
    /\ At(Watcher, "note")
    /\ \E n \in IF rows[W.h].note THEN {0} ELSE Tries :
          /\ effects' = [effects EXCEPT ![W.h].notes = @ + n]
          /\ sess' = [sess EXCEPT ![Watcher] = [@ EXCEPT !.pc = "adopt", !.note = (n = 1)]]
    /\ UNCHANGED <<gh, rows, seen, todo, inbox, crashes>>

\* Creating the task commits the session, the note's id with it.
CreateAdoption ==
    /\ At(Watcher, "adopt")
    /\ \E n \in IF rows[W.h].adoption THEN {0} ELSE Tries :
          /\ effects' = [effects EXCEPT ![W.h].adoptions = @ + n]
          /\ rows' = [rows EXCEPT ![W.h].note = @ \/ (n = 1 /\ W.note)]
          /\ sess' = [sess EXCEPT ![Watcher] = [@ EXCEPT !.pc = AfterEffects(W.entered),
                                                         !.adoption = (n = 1)]]
    /\ UNCHANGED <<gh, seen, todo, inbox, crashes>>

\* notify: a stage already recorded as notified is not announced again; a
\* failed send is recorded all the same.
Notify ==
    /\ At(Watcher, "notify")
    /\ \E s \in Announced(W.entered) :
          IF rows[W.h].notified[s] # "no"
          THEN Step("commit") /\ UNCHANGED effects
          ELSE \E n \in Tries :
                 /\ effects' = [effects EXCEPT ![W.h].mails[s] = @ + n]
                 /\ sess' = [sess EXCEPT ![Watcher] =
                      [@ EXCEPT !.pc = "commit", !.mail = IF n = 1 THEN "sent" ELSE "undelivered"]]
    /\ UNCHANGED <<gh, rows, seen, todo, inbox, crashes>>

Committed(row, told) ==
    [row EXCEPT !.notified = [s \in NotifyStages |-> IF s \in told THEN W.mail ELSE @[s]],
                !.note = @ \/ W.note, !.adoption = @ \/ W.adoption]

CommitEffects ==
    LET h == W.h
        told == {s \in Announced(W.entered) : W.mail # "no"} IN
    /\ At(Watcher, "commit")
    /\ rows' = [rows EXCEPT ![h] = Committed(@, told)]
    /\ sess' = [sess EXCEPT ![Watcher] = [NextHandoff EXCEPT !.pc = "replies", !.h = h]]
    /\ UNCHANGED <<gh, seen, todo, inbox, effects, crashes>>

-----------------------------------------------------------------------------
(* check_replies: the owner's reply to the gate email, read from Sent Mail.   *)

\* Only the first deciding reply ever counts; it answers a delivered mail.
OwnerReplies(h, v) ==
    /\ EmailReplies /\ inbox[h] = "none" /\ effects[h].mails["at_gate"] > 0
    /\ inbox' = [inbox EXCEPT ![h] = v]
    /\ UNCHANGED <<gh, rows, sess, seen, todo, effects, crashes>>

AwaitingReply(row) == /\ row.stage = "at_gate" /\ row.hist.decision = "none"
                      /\ row.notified["at_gate"] = "sent" /\ row.hist.reply = "none"

CheckReplies ==
    /\ At(Watcher, "replies")
    /\ sess' = [sess EXCEPT ![Watcher] =
                  IF EmailReplies /\ AwaitingReply(rows[W.h])
                  THEN [@ EXCEPT !.pc = "imap", !.hist = rows[W.h].hist, !.entered = {}]
                  ELSE NextHandoff]
    /\ UNCHANGED <<gh, rows, seen, todo, inbox, effects, crashes>>

ReadMailbox ==
    /\ At(Watcher, "imap")
    /\ \/ /\ inbox[W.h] # "none"
          /\ sess' = [sess EXCEPT ![Watcher] = [@ EXCEPT !.pc = "spend", !.state = inbox[W.h]]]
       \/ /\ inbox[W.h] = "none" \/ EffectsFail
          /\ sess' = [sess EXCEPT ![Watcher] = NextHandoff]
    /\ UNCHANGED <<gh, rows, seen, todo, inbox, effects, crashes>>

SpendReply_Unrecorded == At(Watcher, "spend") /\ Step("load") /\ UNCHANGED <<gh, rows, seen, todo, inbox, effects, crashes>>

\* The reply is recorded and committed before GitHub is called.
SpendReply ==
    /\ At(Watcher, "spend")
    /\ rows' = [rows EXCEPT ![W.h].hist = [W.hist EXCEPT !.reply = "pending"]]
    /\ Step("load")
    /\ UNCHANGED <<gh, seen, todo, inbox, effects, crashes>>

RecordOutcome_OnlyVerdicts ==
    /\ At(Watcher, "outcome")
    /\ rows' = IF W.state \in Verdicts THEN [rows EXCEPT ![W.h].hist.reply = W.state] ELSE rows
    /\ sess' = [sess EXCEPT ![Watcher] = NextHandoff]
    /\ UNCHANGED <<gh, seen, todo, inbox, effects, crashes>>

\* The reply's entry is replaced in the list as decide left it, if it is there.
RecordOutcome ==
    /\ At(Watcher, "outcome")
    /\ rows' = [rows EXCEPT ![W.h].hist =
                  [W.hist EXCEPT !.reply = IF @ = "none" THEN "none" ELSE W.state]]
    /\ sess' = [sess EXCEPT ![Watcher] = NextHandoff]
    /\ UNCHANGED <<gh, seen, todo, inbox, effects, crashes>>

\* The api process dies: every thread and every uncommitted write is gone.
Crash ==
    /\ crashes < MaxCrashes
    /\ crashes' = crashes + 1
    /\ sess' = [a \in Actors |-> NoSession]
    /\ seen' = NoReads /\ todo' = {}
    /\ UNCHANGED <<gh, rows, inbox, effects>>

-----------------------------------------------------------------------------
Tick ==
    \/ TickStart \/ TakeHandoff \/ FindRun \/ AwaitRun \/ GetRun \/ ReadJobs \/ ReadPending
    \/ Advance \/ CompleteTask \/ WriteNote \/ CreateAdoption \/ Notify
    \/ CommitEffects \/ CheckReplies \/ ReadMailbox \/ SpendReply \/ DecideLoad \/ RecordOutcome
    \/ DecideCheck(Watcher) \/ DecidePost(Watcher) \/ DecideRecord(Watcher)

Start == \E a \in Starters : StartCheck(a) \/ StartInsert(a)
Decide == \E a \in Deciders :
             \/ \E h \in Handoffs, v \in Verdicts : RequestDecision(a, h, v)
             \/ DecideCheck(a) \/ DecidePost(a) \/ DecideRecord(a)
Reply == \E h \in Handoffs, v \in Verdicts : OwnerReplies(h, v)

Next == GitHub \/ PassTime \/ Start \/ Decide \/ Reply \/ Tick \/ Unavailable \/ Crash

Spec == Init /\ [][Next]_vars

\* The scheduler calls the watcher every minute and each call runs to its end;
\* time passes.  Nothing is promised of GitHub, of the owner or of a request.
FairSpec == Spec /\ WF_vars(Tick) /\ WF_vars(PassTime)

-----------------------------------------------------------------------------
(* Properties *)

\* Every variable has the type of the columns, threads and facts it stands for.
TypeOK ==
    /\ gh \in Truths
    /\ rows \in [Handoffs -> Rows]
    /\ sess \in [Actors -> Sessions]
    /\ seen \in Reads
    /\ todo \in SUBSET Handoffs
    /\ inbox \in [Handoffs -> {"none"} \cup Verdicts]
    /\ effects \in [Handoffs -> Traces]
    /\ crashes \in 0 .. MaxCrashes

\* advance and its four reads, which GitHub does not answer at one instant: a
\* stage on record is a fact of the run ("only from facts it reads from GitHub").
StageIsFact == \A h \in Handoffs :
    LET stage == rows[h].stage IN
    /\ stage \in Facts \cup {"done"} => gh.run # "none"
    /\ stage = "at_gate" => gh.jobs["testpypi"] = "success"
    /\ stage = "approved" => gh.gate = "approved"
    /\ stage = "published" => gh.jobs["pypi"] = "success"
    /\ stage = "done" => Finished(gh)

\* advance: why a handoff failed is true of GitHub, and a run that finished
\* before its last read is never called a failure.
FailureIsFact == \A h \in Handoffs :
    LET why == rows[h].failure IN
    /\ why = "rejected" => gh.gate = "rejected"
    /\ why = "cancelled" => gh.run = "cancelled"
    /\ why = "job_failed" => \E r \in Roles : gh.jobs[r] \in {"failure", "cancelled"}
    /\ why = "run_failed" => gh.run = "failure"
    /\ why = "no_tag" => "tagged" \notin rows[h].hist.stages
    /\ why = "no_run" => gh.tag

\* _await_run: the no-run limit counts from the tag's first sight, never from
\* the request (the v2.29.0 handoff failed six minutes before its run).
NoRunFromTag == \A h \in Handoffs :
    rows[h].failure = "no_run" => "tagged" \in rows[h].hist.stages /\ rows[h].taggedAge > NoRunLimit

\* The three together: what a row says, of a run that moves between the reads
\* of one tick, is true of GitHub.
RecordIsFact == StageIsFact /\ FailureIsFact /\ NoRunFromTag

\* advance and every write of a row: a stage only moves forward, and nothing
\* follows done or failed.
StagesForward == \A h \in Handoffs :
    /\ Position[rows[h].stage] <= Position[rows'[h].stage]
    /\ rows[h].stage \in Terminal => rows'[h].stage = rows[h].stage

\* notify: each of the three mails leaves at most once per handoff, whatever
\* crashes between the send and the commit that records it.
MailOnce == \A h \in Handoffs, s \in NotifyStages : effects[h].mails[s] <= 1

\* process: the owner is asked to approve only while the handoff is at the
\* gate, not when one tick carried it past.
AskedAtTheGate == \A h \in Handoffs :
    effects'[h].mails["at_gate"] # effects[h].mails["at_gate"] => rows[h].stage = "at_gate"

\* The two together: stages, and the question to the owner, in their order.
InOrder == [][StagesForward /\ AskedAtTheGate]_<<rows, effects>>

\* decide: a decision on record is the one GitHub took, through the channel
\* recorded, even when the card, the reply and GitHub's own page race.
DecisionIsGitHubs == \A h \in Handoffs :
    LET hist == rows[h].hist IN
    hist.decision # "none" => gh.gate = hist.decision /\ gh.by = hist.via

\* check_replies: a reply is sent to decide at most once, whatever GitHub
\* answers and wherever the process dies.
ReplySpentOnce == \A h \in Handoffs : effects[h].replies <= 1

\* check_replies: a reply taken from the mailbox gets its outcome in the same
\* tick, whatever GitHub answers; only a crash leaves one pending.
ReplyAnswered == \A h \in Handoffs :
    rows[h].hist.reply = "pending" /\ crashes = 0 => W.h = h

\* The two together: a reply has one use and one outcome.
OneUsePerReply == ReplySpentOnce /\ ReplyAnswered

\* check_replies: an outcome that claims a verdict is GitHub's verdict.
OutcomeIsGitHubs == \A h \in Handoffs :
    rows[h].hist.reply \in Verdicts => gh.gate = rows[h].hist.reply /\ gh.by = "email"

\* start_handoff: every handoff that a request's check could see has failed, for
\* good, and left no adoption task.  Two handoffs of a tag overlap, or bring an
\* adoption task each, only when the later one's check came before the earlier
\* one's insert: nothing but requests at the same time makes two of them.
OverlapByRaceOnly == \A g, h \in Handoffs :
    g <= rows[h].after => g < h /\ rows[g].stage = "failed" /\ effects[g].adoptions = 0

\* record_outcome: adoption tasks and notes are written only for a release
\* that finished, and its task completes for nothing else.
RecordsOnlyDone == \A h \in Handoffs :
    effects[h].completed + effects[h].notes + effects[h].adoptions > 0 =>
        rows[h].stage = "done" /\ Finished(gh)

\* process: a handoff recorded as done has its three records.
Recorded(h) ==
    effects[h].completed = 1 /\ effects[h].notes = 1 /\ effects[h].adoptions = 1

\* Every handoff ends: the run's end, a failure, or a limit ends it, even when
\* GitHub never moves again; and one that ends done gets its records.
Settles == \A h \in Handoffs :
    Exists(h) ~> rows[h].stage \in Terminal /\ (rows[h].stage = "done" => Recorded(h))

\* The whole of process, advance, decide and check_replies implements what a
\* handoff promises: each commit is one step forward, each delivered mail one mail.
Promise == INSTANCE ReleasePromise WITH
    verdict <- IF gh.gate \in Verdicts THEN gh.gate ELSE "none",
    published <- gh.jobs["pypi"] = "success",
    stage <- [h \in Handoffs |-> rows[h].stage],
    mails <- [h \in Handoffs |-> effects[h].mails]
KeepsPromise == Promise!Spec

-----------------------------------------------------------------------------
(* What the documents say and the code does not do.  No run checks these;    *)
(* README names the constants under which TLC breaks each of them.           *)

\* decide: "sends it once and writes one history entry".
DecisionOnRecord ==
    gh.by \in {"collaborator", "email"} /\ (\A a \in Actors : ~At(a, "record")) =>
        \E h \in Handoffs : rows[h].hist.decision = gh.gate

\* The watcher: "a missed tick or a restart loses nothing".
RestartLosesNothing == \A h \in Handoffs :
    rows[h].stage = "done" /\ At(Watcher, "idle") => effects[h].adoptions = 1
=============================================================================
