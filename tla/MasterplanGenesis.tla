--------------------------- MODULE MasterplanGenesis ---------------------------
(***************************************************************************)
(* From a Genesis conversation to the active masterplan, for one user      *)
(* (apps/masterplan: flows/masterplan_flows.py, masterplan_factory.py,     *)
(* genesis_service.py, genesis_router.py, the genesis syscalls).           *)
(*                                                                         *)
(* Every request loads what it works on, waits (for a model's answer, for  *)
(* a row another transaction holds) and then commits: what it decides on   *)
(* may be stale by then.  SQLAlchemy keeps the rows as it first loaded     *)
(* them, and writes back the columns that changed, nothing else.           *)
(*                                                                         *)
(* The rows these requests go on to write in other tables (tasks, phases,  *)
(* objectives, declared worth, memories) are not state of this module.     *)
(***************************************************************************)
EXTENDS Integers, Sequences

CONSTANTS
    Workers,        \* the server's request threads
    Drafts,         \* what a synthesis may draw up
    None,           \* no draft
    Empty,          \* {}: the body's draft when POST /masterplans/lock has none
    MaxSessions     \* bound: how many sessions are opened

ASSUME GenesisAssumption ==
    /\ None \notin Drafts /\ Empty \notin Drafts /\ None # Empty
    /\ MaxSessions \in Nat

VARIABLES
    sessions,       \* genesis_sessions, by id
    plans,          \* master_plans, by id
    req             \* each thread's request: where it is, what it has loaded,
                    \* which rows it holds

vars == <<sessions, plans, req>>

-----------------------------------------------------------------------------
(* Rows.                                                                   *)

\* Columns that move: the model's verdict that the conversation suffices, the
\* draft the last synthesis stored, and the lock.
SessionRow == [status : {"active", "locked"}, ready : BOOLEAN, draft : Drafts \cup {None}]
NewSession == [status |-> "active", ready |-> FALSE, draft |-> None]

\* parent is 0 where the column is NULL.
PlanRow == [session : Nat, parent : Nat, origin : BOOLEAN, version : Nat,
            structure : Drafts \cup {Empty}, status : {"locked", "active"}, active : BOOLEAN]
\* Mutant: the version counts the plans that are still locked.
NewPlan_CountsLocked(s, known, structure) ==
    [session |-> s, parent |-> known, origin |-> known = 0,
     version |-> Len(SelectSeq(plans, LAMBDA p : p.status = "locked")) + 1,
     structure |-> structure, status |-> "locked", active |-> FALSE]

NewPlan(s, known, structure) ==
    [session |-> s, parent |-> known, origin |-> known = 0, version |-> known + 1,
     structure |-> structure, status |-> "locked", active |-> FALSE]

NoPlan == [status |-> "locked", active |-> FALSE]

Idle == [op |-> "idle", via |-> "", id |-> 0, seen |-> NewSession, plan |-> NoPlan,
         body |-> None, known |-> 0, held |-> {}]

At(w, op) == req[w].op = op
Serve(w, op, id) == [Idle EXCEPT !.op = op, !.id = id]

\* The session row SELECT ... FOR UPDATE holds, the plan rows an UPDATE holds.
SessionHeld(s) == \E w \in Workers : At(w, "locking") /\ req[w].id = s
PlanHeld(p) == \E w \in Workers : p \in req[w].held

Done(w) == req' = [req EXCEPT ![w] = Idle]

Open == {s \in DOMAIN sessions : sessions[s].status = "active"}
Latest(S) == CHOOSE s \in S : \A t \in S : t <= s

Init ==
    /\ sessions = <<>>
    /\ plans = <<>>
    /\ req = [w \in Workers |-> Idle]

-----------------------------------------------------------------------------
(* The conversation.                                                       *)

\* genesis_session_create_node: an open session is resumed, which writes
\* nothing; two requests that both find none open two.
FindNone(w) ==
    /\ At(w, "idle") /\ Open = {} /\ Len(sessions) < MaxSessions
    /\ req' = [req EXCEPT ![w] = Serve(w, "create", 0)]
    /\ UNCHANGED <<sessions, plans>>

CreateSession(w) ==
    /\ At(w, "create") /\ Len(sessions) < MaxSessions
    /\ sessions' = Append(sessions, NewSession)
    /\ Done(w)
    /\ UNCHANGED plans

\* sys.v1.genesis.import_plan: the open session, or a new one that is flushed
\* and stays unseen until the commit.
StartImport(w) ==
    /\ At(w, "idle") /\ (Open = {} => Len(sessions) < MaxSessions)
    /\ req' = [req EXCEPT ![w] =
                 IF Open = {} THEN Serve(w, "import", 0)
                 ELSE [Serve(w, "import", Latest(Open)) EXCEPT !.seen = sessions[Latest(Open)]]]
    /\ UNCHANGED <<sessions, plans>>

\* sys.v1.genesis.execute_llm: any session of the user's, locked ones too.
StartMessage(w) ==
    /\ At(w, "idle")
    /\ \E s \in DOMAIN sessions :
         req' = [req EXCEPT ![w] = [Serve(w, "message", s) EXCEPT !.seen = sessions[s]]]
    /\ UNCHANGED <<sessions, plans>>

\* Mutant: a turn writes the whole row back as it loaded it.
Written_WholeRow(row, seen, says) == [seen EXCEPT !.ready = @ \/ says]

\* The columns a turn writes back: synthesis_ready only when the model says so
\* of a session that was not ready as loaded.
Written(row, seen, says) == [row EXCEPT !.ready = @ \/ (says /\ ~seen.ready)]

\* genesis_message then restores the flag it had read before the flow ran.
Restored(row, seen) == [row EXCEPT !.ready = @ \/ seen.ready]

FinishImport(w) ==
    /\ At(w, "import")
    /\ \E says \in BOOLEAN :
         IF req[w].id = 0
         THEN /\ Len(sessions) < MaxSessions
              /\ sessions' = Append(sessions, Written(NewSession, NewSession, says))
         ELSE /\ ~SessionHeld(req[w].id)
              /\ sessions' = [sessions EXCEPT ![req[w].id] = Written(@, req[w].seen, says)]
    /\ Done(w)
    /\ UNCHANGED plans

FinishMessage(w) ==
    /\ At(w, "message") /\ ~SessionHeld(req[w].id)
    /\ \E says \in BOOLEAN :
         sessions' = [sessions EXCEPT ![req[w].id] =
                        Restored(Written(@, req[w].seen, says), req[w].seen)]
    /\ Done(w)
    /\ UNCHANGED plans

\* genesis_synthesize_node: the draft is drawn up from the session as loaded
\* and stored when the model has answered, on a locked session too.
StartSynthesis(w) ==
    /\ At(w, "idle")
    /\ \E s \in DOMAIN sessions :
         /\ sessions[s].ready
         /\ req' = [req EXCEPT ![w] = [Serve(w, "synthesize", s) EXCEPT !.seen = sessions[s]]]
    /\ UNCHANGED <<sessions, plans>>

\* Mutant: a synthesis marks its session, as the column's comment has it.
Drawn_Marks(row, seen, draft) == [row EXCEPT !.draft = draft, !.status = "synthesized"]

Drawn(row, seen, draft) == [row EXCEPT !.draft = draft]

FinishSynthesis(w) ==
    /\ At(w, "synthesize") /\ ~SessionHeld(req[w].id)
    /\ \E draft \in Drafts :
         sessions' = [sessions EXCEPT ![req[w].id] = Drawn(@, req[w].seen, draft)]
    /\ Done(w)
    /\ UNCHANGED plans

-----------------------------------------------------------------------------
(* The lock.                                                               *)

\* POST /genesis/lock loads the session before the factory locks its row, and
\* wants a draft, the body's or the session's.
StartGenesisLock(w) ==
    /\ At(w, "idle")
    /\ \E s \in DOMAIN sessions, body \in Drafts \cup {None} :
         /\ body # None \/ sessions[s].draft # None
         /\ req' = [req EXCEPT ![w] = [Serve(w, "lock", s) EXCEPT
                      !.via = "loaded", !.seen = sessions[s],
                      !.body = IF body # None THEN body ELSE sessions[s].draft]]
    /\ UNCHANGED <<sessions, plans>>

\* masterplan_lock_from_genesis_node goes to the factory at once; the body's
\* draft is {} where none is given.
StartPlanLock(w) ==
    /\ At(w, "idle")
    /\ \E s \in DOMAIN sessions, body \in Drafts \cup {Empty} :
         req' = [req EXCEPT ![w] = [Serve(w, "lock", s) EXCEPT !.via = "fresh", !.body = body]]
    /\ UNCHANGED <<sessions, plans>>

\* SELECT ... FOR UPDATE waits for the row but gives a session that was loaded
\* before as it was loaded then.  The guards are on that.
Loaded(w) == IF req[w].via = "loaded" THEN req[w].seen ELSE sessions[req[w].id]
MayLock(row) == row.status # "locked" /\ row.ready

\* The user's last plan as of now is to be the parent, and its count the version.
TakeSession(w) ==
    /\ At(w, "lock") /\ ~SessionHeld(req[w].id)
    /\ IF MayLock(Loaded(w))
       THEN req' = [req EXCEPT ![w] = [@ EXCEPT !.op = "locking", !.seen = Loaded(w),
                                                !.known = Len(plans)]]
       ELSE Done(w)
    /\ UNCHANGED <<sessions, plans>>

\* Mutant: without the unique index.
Duplicate_Unindexed(s) == FALSE

\* uq_masterplan_genesis_session_id.
Duplicate(s) == \E p \in DOMAIN plans : plans[p].session = s

Structure(w) == IF req[w].seen.draft # None THEN req[w].seen.draft ELSE req[w].body

\* One commit inserts the plan and freezes the session, or the index refuses
\* both.
CommitLock(w) ==
    /\ At(w, "locking")
    /\ IF Duplicate(req[w].id)
       THEN UNCHANGED <<sessions, plans>>
       ELSE /\ plans' = Append(plans, NewPlan(req[w].id, req[w].known, Structure(w)))
            /\ sessions' = [sessions EXCEPT ![req[w].id].status = "locked"]
    /\ Done(w)

-----------------------------------------------------------------------------
(* Activation, and the lock of a plan.                                     *)

\* activate_masterplan_genesis has nothing to write when the plan is active as
\* loaded; the two flow nodes have no such guard.
Activates(via, p) == via = "route" => ~plans[p].active

StartActivation(w) ==
    /\ At(w, "idle")
    /\ \E p \in DOMAIN plans, via \in {"route", "genesis_activate", "masterplan_activate"} :
         /\ Activates(via, p)
         /\ req' = [req EXCEPT ![w] = [Serve(w, "activate", p) EXCEPT
                      !.via = via,
                      !.plan = [status |-> plans[p].status, active |-> plans[p].active]]]
    /\ UNCHANGED <<sessions, plans>>

\* Mutant: only plans whose status is active are deactivated.
Others_ByStatus == {p \in DOMAIN plans : plans[p].status = "active"}

\* UPDATE master_plans SET is_active = false WHERE user_id = ...: the rows it
\* meets are held until the commit, the ones already false among them.
Others == DOMAIN plans

\* Mutant: the bulk UPDATE is committed before the plan is activated.
Deactivate_Commits(w) ==
    /\ At(w, "activate")
    /\ plans' = [p \in DOMAIN plans |-> [plans[p] EXCEPT !.active = FALSE]]
    /\ req' = [req EXCEPT ![w].op = "activating"]
    /\ UNCHANGED sessions

Deactivate(w) ==
    /\ At(w, "activate")
    /\ \A p \in DOMAIN plans : ~PlanHeld(p)
    /\ req' = [req EXCEPT ![w] = [@ EXCEPT !.op = "activating", !.held = Others]]
    /\ UNCHANGED <<sessions, plans>>

\* is_active is written when it differs from the plan in memory.  The bulk
\* UPDATE has set that to false as well, unless the plan's user_id, a UUID, was
\* compared with a string: then a plan loaded as active may stay so, unwritten.
Activated(w) ==
    IF req[w].via = "masterplan_activate" /\ req[w].plan.active THEN BOOLEAN ELSE {TRUE}

\* So is the status: one another request has changed since it was loaded as
\* active stays changed.
Marked(w) == IF req[w].plan.status # "active" THEN "active" ELSE plans[req[w].id].status

CommitActivation(w) ==
    /\ At(w, "activating")
    /\ \E active \in Activated(w) :
         plans' = [p \in DOMAIN plans |->
                     IF p = req[w].id
                     THEN [plans[p] EXCEPT !.active = active, !.status = Marked(w)]
                     ELSE [plans[p] EXCEPT !.active = @ /\ p \notin req[w].held]]
    /\ Done(w)
    /\ UNCHANGED sessions

\* masterplan_lock_node: also of the plan that is active, which it leaves so.
StartRelock(w) ==
    /\ At(w, "idle")
    /\ \E p \in DOMAIN plans :
         /\ plans[p].status # "locked"
         /\ req' = [req EXCEPT ![w] = Serve(w, "relock", p)]
    /\ UNCHANGED <<sessions, plans>>

CommitRelock(w) ==
    /\ At(w, "relock") /\ ~PlanHeld(req[w].id)
    /\ plans' = [plans EXCEPT ![req[w].id].status = "locked"]
    /\ Done(w)
    /\ UNCHANGED sessions

\* An exception, a refusal of the model's provider, or the death of the
\* process before the commit: the rows are let go and nothing is written.
Abandon(w) ==
    /\ ~At(w, "idle")
    /\ Done(w)
    /\ UNCHANGED <<sessions, plans>>

-----------------------------------------------------------------------------

Converse(w) ==
    \/ FindNone(w) \/ CreateSession(w)
    \/ StartImport(w) \/ FinishImport(w)
    \/ StartMessage(w) \/ FinishMessage(w)
    \/ StartSynthesis(w) \/ FinishSynthesis(w)

Lock(w) ==
    \/ StartGenesisLock(w) \/ StartPlanLock(w)
    \/ TakeSession(w) \/ CommitLock(w)

Activate(w) ==
    \/ StartActivation(w) \/ Deactivate(w) \/ CommitActivation(w)
    \/ StartRelock(w) \/ CommitRelock(w)

Next == \E w \in Workers : Converse(w) \/ Lock(w) \/ Activate(w) \/ Abandon(w)

Spec == Init /\ [][Next]_vars

-----------------------------------------------------------------------------
(* Properties.                                                             *)

Ops == {"idle", "create", "import", "message", "synthesize", "lock", "locking", "activate",
        "activating", "relock"}
ViaSet == {"", "loaded", "fresh", "route", "genesis_activate", "masterplan_activate"}

\* Types: rows carry the statuses the code writes and no other ("synthesized",
\* "paused", "abandoned" and "archived" are named in comments and set nowhere).
TypeOK ==
    /\ sessions \in Seq(SessionRow)
    /\ plans \in Seq(PlanRow)
    /\ req \in [Workers -> [op : Ops, via : ViaSet, id : Nat, seen : SessionRow,
                            plan : [status : {"locked", "active"}, active : BOOLEAN],
                            body : Drafts \cup {None, Empty}, known : Nat, held : SUBSET Nat]]

\* masterplan_factory: a session is locked exactly when a plan was made from
\* it, it made one plan and no second, and it was ready: also when two requests
\* lock it at once, each having loaded it unlocked.
OnePlanPerSession ==
    /\ \A s \in DOMAIN sessions :
         sessions[s].status = "locked" <=> \E p \in DOMAIN plans : plans[p].session = s
    /\ \A p, q \in DOMAIN plans : plans[p].session = plans[q].session => p = q
    /\ \A p \in DOMAIN plans : sessions[plans[p].session].ready

\* masterplan_activate_node, genesis_activate_node, activate_masterplan_genesis:
\* at most one plan is active, however activations, locks and the making of
\* new plans overlap.
SingleActive == \A p, q \in DOMAIN plans : plans[p].active /\ plans[q].active => p = q

\* The three activations: a plan takes over from another in one commit, so that
\* nobody finds the user without an active plan once there was one, whatever
\* fails in between.  The only way to none is an activation by
\* masterplan_activate_node of a plan that was active as it loaded it.
ActiveStays ==
    [][(\E p \in DOMAIN plans : plans[p].active) =>
         \/ \E p \in DOMAIN plans' : plans'[p].active
         \/ \E w \in Workers : /\ At(w, "activating") /\ req[w].plan.active
                               /\ req[w].via = "masterplan_activate"]_plans

\* masterplan_factory: following the parents leads to older plans of smaller
\* versions and ends at an origin, also when two sessions are locked at once and
\* take one parent and one version.
Lineage ==
    \A p \in DOMAIN plans :
        LET q == plans[p].parent IN
        /\ plans[p].origin <=> q = 0
        /\ q # 0 => q < p /\ plans[q].version < plans[p].version

\* The turns of a conversation, its synthesis and its lock overlap, and each
\* writes a session it loaded before: none takes back what another committed
\* (the lock, the readiness, the draft's being there).
SessionForward ==
    [][\A s \in DOMAIN sessions :
         /\ sessions[s].status = "locked" => sessions'[s].status = "locked"
         /\ sessions[s].ready => sessions'[s].ready
         /\ sessions[s].draft # None => sessions'[s].draft # None]_sessions

=============================================================================
