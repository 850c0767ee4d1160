----------------------- MODULE MasterplanGenesis_proofs -----------------------
(***************************************************************************)
(* Proofs about MasterplanGenesis, for every number of workers, sessions   *)
(* and drafts: what a request may rely on of the rows it points at, and    *)
(* from that every safety and action property of the module.               *)
(***************************************************************************)
EXTENDS MasterplanGenesis, WellFoundedInduction, TLAPS

-----------------------------------------------------------------------------
(* Sequences of rows.                                                      *)

LEMMA Appended ==
    ASSUME NEW S, NEW s \in Seq(S), NEW x \in S
    PROVE  /\ Append(s, x) \in Seq(S)
           /\ Len(Append(s, x)) = Len(s) + 1
           /\ DOMAIN Append(s, x) = DOMAIN s \cup {Len(s) + 1}
           /\ Len(s) + 1 \notin DOMAIN s
           /\ \A n \in DOMAIN s : Append(s, x)[n] = s[n]
           /\ Append(s, x)[Len(s) + 1] = x
OBVIOUS

LEMMA Mapped ==
    ASSUME NEW S, NEW s \in Seq(S), NEW f, f = [n \in DOMAIN s |-> f[n]],
           \A n \in DOMAIN s : f[n] \in S
    PROVE  f \in Seq(S) /\ DOMAIN f = DOMAIN s /\ Len(f) = Len(s)
OBVIOUS

LEMMA Replaced ==
    ASSUME NEW S, NEW s \in Seq(S), NEW n \in DOMAIN s, NEW x \in S
    PROVE  /\ [s EXCEPT ![n] = x] \in Seq(S)
           /\ DOMAIN [s EXCEPT ![n] = x] = DOMAIN s
           /\ Len([s EXCEPT ![n] = x]) = Len(s)
           /\ \A m \in DOMAIN s : [s EXCEPT ![n] = x][m] = IF m = n THEN x ELSE s[m]
OBVIOUS

-----------------------------------------------------------------------------
(* The inductive invariant.                                                *)

Requests == [op : Ops, via : ViaSet, id : Nat, seen : SessionRow,
             plan : [status : {"locked", "active"}, active : BOOLEAN],
             body : Drafts \cup {None, Empty}, known : Nat, held : SUBSET Nat]

\* What request r relies on of the sessions S and the plans P: the rows it
\* points at exist, a session it found ready is still ready, the parent it took
\* is still there, it has a draft to lock, and it holds rows only while it
\* activates, its own among them.
Fits(r, S, P) ==
    /\ r.op \in {"message", "synthesize", "lock", "locking"} => r.id \in DOMAIN S
    /\ r.op = "import" => r.id = 0 \/ r.id \in DOMAIN S
    /\ r.op \in {"activate", "activating", "relock"} => r.id \in DOMAIN P
    /\ r.op \in {"lock", "message", "import"} /\ r.seen.ready /\ r.id # 0 => S[r.id].ready
    /\ r.op = "locking" => S[r.id].ready /\ r.known <= Len(P)
    /\ r.op \in {"lock", "locking"} => r.body # None
    /\ r.op = "activating" => r.id \in r.held
    /\ r.op # "activating" => r.held = {}

RequestsFit == \A w \in Workers : Fits(req[w], sessions, plans)

\* Rows point at rows that exist, and no plan has a version beyond its number.
PlansFit ==
    /\ \A p \in DOMAIN plans : plans[p].session \in DOMAIN sessions
    /\ \A p \in DOMAIN plans : plans[p].version <= p

\* Activations exclude each other, and one that holds rows holds every row
\* that is active.
OneActivating ==
    /\ \A v, w \in Workers : At(v, "activating") /\ At(w, "activating") => v = w
    /\ \A w \in Workers, p \in DOMAIN plans :
         At(w, "activating") /\ plans[p].active => p \in req[w].held

IInv ==
    /\ TypeOK /\ RequestsFit /\ PlansFit /\ OneActivating
    /\ OnePlanPerSession /\ SingleActive /\ Lineage

-----------------------------------------------------------------------------
(* Rows and requests.                                                      *)

\* The columns a turn or a synthesis writes: the readiness only rises, the
\* status stays, and a draft stays or is replaced by a draft.
LEMMA TurnWrites ==
    ASSUME NEW row \in SessionRow, NEW seen \in SessionRow, NEW says \in BOOLEAN
    PROVE  /\ Written(row, seen, says) \in SessionRow
           /\ Written(row, seen, says).status = row.status
           /\ Written(row, seen, says).draft = row.draft
           /\ row.ready => Written(row, seen, says).ready
BY Zenon DEF Written, SessionRow

LEMMA RestoreWrites ==
    ASSUME NEW row \in SessionRow, NEW seen \in SessionRow
    PROVE  /\ Restored(row, seen) \in SessionRow
           /\ Restored(row, seen).status = row.status
           /\ Restored(row, seen).draft = row.draft
           /\ row.ready => Restored(row, seen).ready
BY Zenon DEF Restored, SessionRow

LEMMA SynthesisWrites ==
    ASSUME NEW row \in SessionRow, NEW seen \in SessionRow, NEW draft \in Drafts
    PROVE  /\ Drawn(row, seen, draft) \in SessionRow
           /\ Drawn(row, seen, draft).status = row.status
           /\ Drawn(row, seen, draft).draft # None
           /\ row.ready => Drawn(row, seen, draft).ready
BY GenesisAssumption DEF Drawn, SessionRow

LEMMA LockWrites ==
    ASSUME NEW row \in SessionRow
    PROVE  /\ [row EXCEPT !.status = "locked"] \in SessionRow
           /\ [row EXCEPT !.status = "locked"].status = "locked"
           /\ [row EXCEPT !.status = "locked"].draft = row.draft
           /\ [row EXCEPT !.status = "locked"].ready = row.ready
BY DEF SessionRow

LEMMA NewSessionType ==
    /\ NewSession \in SessionRow
    /\ NewSession.status = "active" /\ NewSession.ready = FALSE
BY DEF NewSession, SessionRow

LEMMA IdleType ==
    /\ Idle \in Requests
    /\ Idle.op = "idle" /\ Idle.held = {} /\ Idle.id = 0
    /\ Idle.seen = NewSession
BY NewSessionType DEF Idle, Requests, Ops, ViaSet, NoPlan

\* A request that is taken up holds nothing.
LEMMA ServeType ==
    ASSUME NEW w, NEW op \in Ops, NEW id \in Nat
    PROVE  /\ Serve(w, op, id) \in Requests
           /\ Serve(w, op, id).op = op /\ Serve(w, op, id).id = id
           /\ Serve(w, op, id).held = {}
           /\ Serve(w, op, id).seen = NewSession
BY IdleType DEF Serve, Requests

LEMMA OpNames == {"create", "import", "message", "synthesize", "lock", "locking", "activate",
                  "activating", "relock"} \subseteq Ops
BY DEF Ops

\* A nonempty set of sessions has a latest one.
LEMMA LatestIs ==
    ASSUME NEW n \in Nat, NEW S \in SUBSET (1 .. n), S # {}
    PROVE  Latest(S) \in S
<1> DEFINE R == {ss \in Nat \X Nat : ss[1] < ss[2]}
           D == {m \in Nat : n - m \in S}
<1>1. OpToRel(<, Nat) = R
  BY DEF OpToRel
<1>2. IsWellFoundedOn(R, Nat)
  BY <1>1, NatLessThanWellFounded, Zenon
<1>3. D \subseteq Nat /\ D # {}
  <2>1. PICK s \in S : s \in 1 .. n
    OBVIOUS
  <2>2. n - s \in Nat /\ n - (n - s) = s
    BY <2>1
  <2> QED
    BY <2>1, <2>2
<1> HIDE DEF R, D
<1>4. PICK d \in D : \A e \in D : <<e, d>> \notin R
  BY <1>2, <1>3, WFMin, Zenon
<1>5. d \in Nat /\ n - d \in S
  BY DEF D
<1>6. \A t \in S : t <= n - d
  <2> TAKE t \in S
  <2>1. t \in 1 .. n
    OBVIOUS
  <2>2. n - t \in Nat /\ n - (n - t) = t
    BY <2>1
  <2>3. n - t \in D
    BY <2>2 DEF D
  <2>4. ~(n - t < d)
    BY <1>4, <1>5, <2>2, <2>3 DEF R
  <2> QED
    BY <1>5, <2>1, <2>4
<1> QED
  BY <1>5, <1>6 DEF Latest

\* One request gives way to another.
LEMMA RequestReplaced ==
    ASSUME TypeOK, NEW w \in Workers, NEW r \in Requests, req' = [req EXCEPT ![w] = r]
    PROVE  /\ req' \in [Workers -> Requests]
           /\ req'[w] = r
           /\ \A v \in Workers : v # w => req'[v] = req[v]
BY DEF TypeOK, Requests

\* What no step takes back.
Forward(S, T) ==
    /\ DOMAIN S \subseteq DOMAIN T
    /\ \A s \in DOMAIN S :
         /\ S[s].status = "locked" => T[s].status = "locked"
         /\ S[s].ready => T[s].ready
         /\ S[s].draft # None => T[s].draft # None

\* A request keeps what it relies on while the rows go forward.
LEMMA StillFits ==
    ASSUME NEW S, NEW T, NEW P \in Seq(PlanRow), NEW Q \in Seq(PlanRow), NEW r \in Requests,
           Fits(r, S, P), Forward(S, T), Len(P) <= Len(Q)
    PROVE  Fits(r, T, Q)
<1>1. DOMAIN P \subseteq DOMAIN Q
  OBVIOUS
<1>2. r.known \in Nat /\ Len(P) \in Nat /\ Len(Q) \in Nat
  BY DEF Requests
<1>3. r.op = "locking" => r.known <= Len(Q)
  BY <1>2 DEF Fits
<1> QED
  BY <1>1, <1>3 DEF Fits, Forward

-----------------------------------------------------------------------------
(* What a step writes.                                                     *)

\* Taking up a request, and taking the session's row for the lock.
Begins(w) ==
    \/ FindNone(w) \/ StartImport(w) \/ StartMessage(w) \/ StartSynthesis(w)
    \/ StartGenesisLock(w) \/ StartPlanLock(w) \/ TakeSession(w)
    \/ StartActivation(w) \/ StartRelock(w)

Ends(w) ==
    \/ CreateSession(w) \/ FinishImport(w) \/ FinishMessage(w) \/ FinishSynthesis(w)
    \/ CommitLock(w) \/ CommitActivation(w) \/ CommitRelock(w) \/ Abandon(w)

LEMMA StepsAre ==
    Next <=> \E w \in Workers : Begins(w) \/ Deactivate(w) \/ Ends(w)
BY DEF Next, Converse, Lock, Activate, Begins, Ends

\* Rows as TypeOK has them.
LEMMA RowTypes ==
    ASSUME TypeOK
    PROVE  /\ sessions \in Seq(SessionRow) /\ plans \in Seq(PlanRow)
           /\ Len(sessions) \in Nat /\ Len(plans) \in Nat
           /\ DOMAIN sessions = 1 .. Len(sessions) /\ DOMAIN plans = 1 .. Len(plans)
           /\ \A s \in DOMAIN sessions : sessions[s] \in SessionRow
           /\ \A p \in DOMAIN plans : plans[p] \in PlanRow
           /\ \A w \in Workers : req[w] \in Requests
BY DEF TypeOK, Requests

LEMMA BeginsWith ==
    ASSUME TypeOK, RequestsFit, NEW w \in Workers, Begins(w)
    PROVE  /\ UNCHANGED <<sessions, plans>>
           /\ \E r \in Requests : /\ r.op # "activating"
                                  /\ Fits(r, sessions, plans)
                                  /\ req' = [req EXCEPT ![w] = r]
<1> DEFINE Goal == \E r \in Requests : /\ r.op # "activating"
                                       /\ Fits(r, sessions, plans)
                                       /\ req' = [req EXCEPT ![w] = r]
<1>a. UNCHANGED <<sessions, plans>>
  BY DEF Begins, FindNone, StartImport, StartMessage, StartSynthesis, StartGenesisLock,
         StartPlanLock, TakeSession, StartActivation, StartRelock
<1>b. ASSUME NEW r \in Requests, r.op # "activating", Fits(r, sessions, plans),
             req' = [req EXCEPT ![w] = r]
      PROVE  Goal
  BY <1>b
<1>c. \A s \in DOMAIN sessions : s \in Nat /\ s # 0 /\ sessions[s] \in SessionRow
  BY RowTypes
<1>d. \A p \in DOMAIN plans : p \in Nat /\ plans[p] \in PlanRow
  BY RowTypes
<1> SUFFICES Goal
  BY <1>a
<1> HIDE DEF Goal
<1>1. CASE FindNone(w)
  <2>1. /\ Serve(w, "create", 0) \in Requests
        /\ Serve(w, "create", 0).op = "create"
        /\ Serve(w, "create", 0).held = {}
    BY ServeType, OpNames
  <2>2. Fits(Serve(w, "create", 0), sessions, plans)
    BY <2>1 DEF Fits
  <2>3. req' = [req EXCEPT ![w] = Serve(w, "create", 0)]
    BY <1>1 DEF FindNone
  <2> QED
    BY <1>b, <2>1, <2>2, <2>3
<1>2. CASE StartImport(w)
  <2> DEFINE r(s) == Serve(w, "import", s)
  <2>1. \A s \in Nat : /\ r(s) \in Requests /\ r(s).op = "import" /\ r(s).id = s
                       /\ r(s).held = {} /\ r(s).seen = NewSession
    BY ServeType, OpNames
  <2>2. CASE Open = {}
    <3>1. Fits(r(0), sessions, plans)
      BY <2>1 DEF Fits
    <3>2. req' = [req EXCEPT ![w] = r(0)]
      BY <1>2, <2>2 DEF StartImport
    <3> QED
      BY <1>b, <2>1, <3>1, <3>2
  <2>3. CASE Open # {}
    <3> DEFINE s == Latest(Open)
               q == [r(s) EXCEPT !.seen = sessions[s]]
    <3>1. s \in DOMAIN sessions
      <4>1. Open \in SUBSET (1 .. Len(sessions))
        BY DEF Open
      <4> QED
        BY <2>3, <4>1, RowTypes, LatestIs DEF Open
    <3> HIDE DEF s
    <3>2. sessions[s] \in SessionRow /\ s \in Nat
      BY <1>c, <3>1
    <3>3. /\ q \in Requests /\ q.op = "import" /\ q.id = s /\ q.held = {}
          /\ q.seen = sessions[s]
      BY <2>1, <3>2 DEF Requests
    <3>4. Fits(q, sessions, plans)
      BY <3>1, <3>3 DEF Fits
    <3>5. req' = [req EXCEPT ![w] = q]
      BY <1>2, <2>3 DEF StartImport, s
    <3> QED
      BY <1>b, <3>3, <3>4, <3>5
  <2> QED
    BY <2>2, <2>3
<1>3. CASE StartMessage(w) \/ StartSynthesis(w)
  <2>1. PICK op \in {"message", "synthesize"}, s \in DOMAIN sessions :
          req' = [req EXCEPT ![w] = [Serve(w, op, s) EXCEPT !.seen = sessions[s]]]
    BY <1>3 DEF StartMessage, StartSynthesis
  <2> DEFINE q == [Serve(w, op, s) EXCEPT !.seen = sessions[s]]
  <2>2. sessions[s] \in SessionRow /\ s \in Nat /\ op \in Ops
    BY <1>c, OpNames
  <2>3. /\ q \in Requests /\ q.op = op /\ q.id = s /\ q.held = {}
        /\ q.seen = sessions[s]
    <3>1. /\ Serve(w, op, s) \in Requests /\ Serve(w, op, s).op = op
          /\ Serve(w, op, s).id = s /\ Serve(w, op, s).held = {}
      BY <2>2, ServeType
    <3> QED
      BY <2>2, <3>1 DEF Requests
  <2>4. Fits(q, sessions, plans)
    BY <2>3 DEF Fits
  <2> QED
    BY <1>b, <2>1, <2>3, <2>4
<1>4. CASE StartGenesisLock(w)
  <2>1. PICK s \in DOMAIN sessions, body \in Drafts \cup {None} :
          /\ body # None \/ sessions[s].draft # None
          /\ req' = [req EXCEPT ![w] = [Serve(w, "lock", s) EXCEPT
                       !.via = "loaded", !.seen = sessions[s],
                       !.body = IF body # None THEN body ELSE sessions[s].draft]]
    BY <1>4 DEF StartGenesisLock
  <2> DEFINE b == IF body # None THEN body ELSE sessions[s].draft
             q == [Serve(w, "lock", s) EXCEPT !.via = "loaded", !.seen = sessions[s], !.body = b]
  <2>2. sessions[s] \in SessionRow /\ s \in Nat
    BY <1>c
  <2>3. b \in Drafts \cup {None, Empty} /\ b # None
    BY <2>1, <2>2 DEF SessionRow
  <2> HIDE DEF b
  <2>4. /\ q \in Requests /\ q.op = "lock" /\ q.id = s /\ q.held = {}
        /\ q.seen = sessions[s] /\ q.body # None
    <3>1. /\ Serve(w, "lock", s) \in Requests /\ Serve(w, "lock", s).op = "lock"
          /\ Serve(w, "lock", s).id = s /\ Serve(w, "lock", s).held = {}
      BY <2>2, ServeType, OpNames
    <3> QED
      BY <2>2, <2>3, <3>1 DEF Requests, ViaSet
  <2>5. Fits(q, sessions, plans)
    BY <2>4 DEF Fits
  <2> QED
    BY <1>b, <2>1, <2>4, <2>5 DEF b
<1>5. CASE StartPlanLock(w)
  <2>1. PICK s \in DOMAIN sessions, body \in Drafts \cup {Empty} :
          req' = [req EXCEPT ![w] = [Serve(w, "lock", s) EXCEPT !.via = "fresh", !.body = body]]
    BY <1>5 DEF StartPlanLock
  <2> DEFINE q == [Serve(w, "lock", s) EXCEPT !.via = "fresh", !.body = body]
  <2>2. /\ q \in Requests /\ q.op = "lock" /\ q.id = s /\ q.held = {}
        /\ q.seen = NewSession /\ q.body # None
    <3>1. /\ Serve(w, "lock", s) \in Requests /\ Serve(w, "lock", s).op = "lock"
          /\ Serve(w, "lock", s).id = s /\ Serve(w, "lock", s).held = {}
          /\ Serve(w, "lock", s).seen = NewSession
      <4>1. s \in Nat /\ "lock" \in Ops
        BY <1>c, OpNames
      <4> QED
        BY <4>1, ServeType
    <3> QED
      BY <3>1, GenesisAssumption DEF Requests, ViaSet
  <2>3. Fits(q, sessions, plans)
    BY <2>2, NewSessionType DEF Fits
  <2> QED
    BY <1>b, <2>1, <2>2, <2>3
<1>6. CASE TakeSession(w)
  <2>1. /\ req[w].op = "lock" /\ req[w] \in Requests /\ Fits(req[w], sessions, plans)
    BY <1>6, RowTypes DEF TakeSession, At, RequestsFit
  <2>2. CASE MayLock(Loaded(w))
    <3> DEFINE q == [req[w] EXCEPT !.op = "locking", !.seen = Loaded(w), !.known = Len(plans)]
    <3>1. req[w].id \in DOMAIN sessions
      BY <2>1 DEF Fits
    <3>2. Loaded(w) \in SessionRow
      BY <1>c, <2>1, <3>1 DEF Loaded, Requests
    <3>3. sessions[req[w].id].ready
      BY <1>c, <2>1, <2>2, <3>1 DEF Fits, MayLock, Loaded
    <3>4. /\ q \in Requests /\ q.op = "locking" /\ q.id = req[w].id /\ q.held = req[w].held
          /\ q.known = Len(plans) /\ q.body = req[w].body
      BY <2>1, <3>2, RowTypes DEF Requests, Ops
    <3>5. Fits(q, sessions, plans)
      BY <2>1, <3>1, <3>3, <3>4, RowTypes DEF Fits
    <3>6. req' = [req EXCEPT ![w] = q]
      BY <1>6, <2>2 DEF TakeSession
    <3> QED
      BY <1>b, <3>4, <3>5, <3>6
  <2>3. CASE ~MayLock(Loaded(w))
    <3>1. req' = [req EXCEPT ![w] = Idle]
      BY <1>6, <2>3 DEF TakeSession, Done
    <3>2. Fits(Idle, sessions, plans)
      BY IdleType DEF Fits
    <3> QED
      BY <1>b, <3>1, <3>2, IdleType
  <2> QED
    BY <2>2, <2>3
<1>7. CASE StartActivation(w)
  <2>1. PICK p \in DOMAIN plans, via \in {"route", "genesis_activate", "masterplan_activate"} :
          req' = [req EXCEPT ![w] = [Serve(w, "activate", p) EXCEPT
                    !.via = via,
                    !.plan = [status |-> plans[p].status, active |-> plans[p].active]]]
    BY <1>7 DEF StartActivation
  <2> DEFINE b == [status |-> plans[p].status, active |-> plans[p].active]
             q == [Serve(w, "activate", p) EXCEPT !.via = via, !.plan = b]
  <2>2. b \in [status : {"locked", "active"}, active : BOOLEAN]
    BY <1>d, Zenon DEF PlanRow
  <2> HIDE DEF b
  <2>3. q \in Requests /\ q.op = "activate" /\ q.id = p /\ q.held = {}
    <3>1. /\ Serve(w, "activate", p) \in Requests /\ Serve(w, "activate", p).op = "activate"
          /\ Serve(w, "activate", p).id = p /\ Serve(w, "activate", p).held = {}
      BY <1>d, ServeType, OpNames
    <3> QED
      BY <2>2, <3>1 DEF Requests, ViaSet
  <2>4. Fits(q, sessions, plans)
    BY <2>3 DEF Fits
  <2> QED
    BY <1>b, <2>1, <2>3, <2>4 DEF b
<1>8. CASE StartRelock(w)
  <2>1. PICK p \in DOMAIN plans : req' = [req EXCEPT ![w] = Serve(w, "relock", p)]
    BY <1>8 DEF StartRelock
  <2>2. /\ Serve(w, "relock", p) \in Requests
        /\ Serve(w, "relock", p).op = "relock" /\ Serve(w, "relock", p).id = p
        /\ Serve(w, "relock", p).held = {}
    BY <1>d, ServeType, OpNames
  <2>3. Fits(Serve(w, "relock", p), sessions, plans)
    BY <2>2 DEF Fits
  <2> QED
    BY <1>b, <2>1, <2>2, <2>3
<1> QED
  BY <1>1, <1>2, <1>3, <1>4, <1>5, <1>6, <1>7, <1>8 DEF Begins

LEMMA EndsIdle ==
    ASSUME NEW w \in Workers, Ends(w)
    PROVE  req' = [req EXCEPT ![w] = Idle]
BY DEF Ends, CreateSession, FinishImport, FinishMessage, FinishSynthesis, CommitLock,
       CommitActivation, CommitRelock, Abandon, Done

\* Row x is row s of a session gone forward, with the status it had.
Turned(row, x) ==
    /\ x.status = row.status
    /\ row.ready => x.ready
    /\ row.draft # None => x.draft # None

\* A plan is inserted and its session frozen.
Inserts(w) == CommitLock(w) /\ ~Duplicate(req[w].id)

LEMMA SessionsWritten ==
    ASSUME TypeOK, RequestsFit, NEW w \in Workers, Ends(w)
    PROVE  \/ sessions' = sessions
           \/ /\ plans' = plans
              /\ \E x \in SessionRow : x.status = "active" /\ sessions' = Append(sessions, x)
           \/ /\ plans' = plans
              /\ \E s \in DOMAIN sessions, x \in SessionRow :
                   Turned(sessions[s], x) /\ sessions' = [sessions EXCEPT ![s] = x]
           \/ Inserts(w)
<1> DEFINE New == \E x \in SessionRow : x.status = "active" /\ sessions' = Append(sessions, x)
           Changed == \E s \in DOMAIN sessions, x \in SessionRow :
                        Turned(sessions[s], x) /\ sessions' = [sessions EXCEPT ![s] = x]
<1>a. ASSUME NEW x \in SessionRow, x.status = "active", sessions' = Append(sessions, x)
      PROVE  New
  BY <1>a
<1>b. ASSUME NEW s \in DOMAIN sessions, NEW x \in SessionRow, Turned(sessions[s], x),
             sessions' = [sessions EXCEPT ![s] = x]
      PROVE  Changed
  BY <1>b
<1>c. /\ req[w] \in Requests /\ Fits(req[w], sessions, plans)
      /\ req[w].seen \in SessionRow /\ req[w].id \in Nat
  BY RowTypes DEF RequestsFit, Requests
<1>d. \A s \in DOMAIN sessions : sessions[s] \in SessionRow
  BY RowTypes
<1> HIDE DEF New, Changed
<1>1. CASE CreateSession(w)
  <2>1. plans' = plans /\ sessions' = Append(sessions, NewSession)
    BY <1>1 DEF CreateSession
  <2> QED
    BY <1>a, <2>1, NewSessionType DEF New
<1>2. CASE FinishImport(w)
  <2>1. /\ plans' = plans /\ req[w].op = "import"
    BY <1>2 DEF FinishImport, At
  <2>2. PICK says \in BOOLEAN :
          IF req[w].id = 0
          THEN sessions' = Append(sessions, Written(NewSession, NewSession, says))
          ELSE sessions' = [sessions EXCEPT ![req[w].id] = Written(@, req[w].seen, says)]
    BY <1>2 DEF FinishImport
  <2>3. CASE req[w].id = 0
    <3>1. /\ Written(NewSession, NewSession, says) \in SessionRow
          /\ Written(NewSession, NewSession, says).status = "active"
      BY TurnWrites, NewSessionType
    <3> QED
      BY <1>a, <2>1, <2>2, <2>3, <3>1 DEF New
  <2>4. CASE req[w].id # 0
    <3> DEFINE s == req[w].id
               x == Written(sessions[s], req[w].seen, says)
    <3>1. s \in DOMAIN sessions
      BY <1>c, <2>1, <2>4 DEF Fits
    <3>2. x \in SessionRow /\ Turned(sessions[s], x)
      <4>1. sessions[s] \in SessionRow
        BY <1>d, <3>1
      <4> QED
        BY <1>c, <4>1, TurnWrites DEF Turned
    <3>3. sessions' = [sessions EXCEPT ![s] = x]
      BY <2>2, <2>4
    <3> QED
      BY <1>b, <2>1, <3>1, <3>2, <3>3 DEF Changed
  <2> QED
    BY <2>3, <2>4
<1>3. CASE FinishMessage(w)
  <2>1. /\ plans' = plans /\ req[w].op = "message"
    BY <1>3 DEF FinishMessage, At
  <2> DEFINE s == req[w].id
  <2>2. PICK says \in BOOLEAN :
          sessions' = [sessions EXCEPT ![s] =
                         Restored(Written(sessions[s], req[w].seen, says), req[w].seen)]
    BY <1>3 DEF FinishMessage
  <2> DEFINE y == Written(sessions[s], req[w].seen, says)
             x == Restored(y, req[w].seen)
  <2>3. s \in DOMAIN sessions
    BY <1>c, <2>1 DEF Fits
  <2>4. y \in SessionRow /\ Turned(sessions[s], y)
    <3>1. sessions[s] \in SessionRow
      BY <1>d, <2>3
    <3> QED
      BY <1>c, <3>1, TurnWrites DEF Turned
  <2>5. x \in SessionRow /\ Turned(y, x)
    BY <1>c, <2>4, RestoreWrites DEF Turned
  <2>6. Turned(sessions[s], x)
    BY <2>4, <2>5 DEF Turned
  <2> QED
    BY <1>b, <2>1, <2>2, <2>3, <2>5, <2>6 DEF Changed
<1>4. CASE FinishSynthesis(w)
  <2>1. /\ plans' = plans /\ req[w].op = "synthesize"
    BY <1>4 DEF FinishSynthesis, At
  <2> DEFINE s == req[w].id
  <2>2. PICK draft \in Drafts :
          sessions' = [sessions EXCEPT ![s] = Drawn(sessions[s], req[w].seen, draft)]
    BY <1>4 DEF FinishSynthesis
  <2> DEFINE x == Drawn(sessions[s], req[w].seen, draft)
  <2>3. s \in DOMAIN sessions
    BY <1>c, <2>1 DEF Fits
  <2>4. x \in SessionRow /\ Turned(sessions[s], x)
    <3>1. sessions[s] \in SessionRow
      BY <1>d, <2>3
    <3> QED
      BY <1>c, <3>1, SynthesisWrites DEF Turned
  <2> QED
    BY <1>b, <2>1, <2>2, <2>3, <2>4 DEF Changed
<1>5. CASE CommitLock(w)
  BY <1>5 DEF CommitLock, Inserts
<1>6. CASE CommitActivation(w) \/ CommitRelock(w) \/ Abandon(w)
  BY <1>6 DEF CommitActivation, CommitRelock, Abandon
<1> QED
  BY <1>1, <1>2, <1>3, <1>4, <1>5, <1>6 DEF Ends, New, Changed

LEMMA PlansWritten ==
    ASSUME NEW w \in Workers, Ends(w)
    PROVE  \/ plans' = plans
           \/ Inserts(w)
           \/ CommitActivation(w)
           \/ CommitRelock(w)
BY DEF Ends, CreateSession, FinishImport, FinishMessage, FinishSynthesis, CommitLock, Abandon,
       Inserts

-----------------------------------------------------------------------------
(* What a step leaves.                                                     *)

\* What no plan ever changes.
Same(row, x) ==
    /\ x.session = row.session /\ x.parent = row.parent
    /\ x.origin = row.origin /\ x.version = row.version

LEMMA Inserted ==
    ASSUME TypeOK, RequestsFit, NEW w \in Workers, Inserts(w)
    PROVE  /\ req[w].id \in DOMAIN sessions
           /\ sessions[req[w].id].ready
           /\ ~\E p \in DOMAIN plans : plans[p].session = req[w].id
           /\ req[w].known \in Nat /\ req[w].known <= Len(plans)
           /\ [sessions[req[w].id] EXCEPT !.status = "locked"] \in SessionRow
           /\ sessions' = [sessions EXCEPT ![req[w].id] =
                             [sessions[req[w].id] EXCEPT !.status = "locked"]]
           /\ \E x \in PlanRow :
                /\ plans' = Append(plans, x)
                /\ x.session = req[w].id /\ x.parent = req[w].known
                /\ (x.origin <=> req[w].known = 0) /\ x.version = req[w].known + 1
                /\ ~x.active
<1>1. /\ req[w] \in Requests /\ Fits(req[w], sessions, plans) /\ req[w].op = "locking"
  BY RowTypes DEF RequestsFit, Inserts, CommitLock, At
<1>2. /\ req[w].id \in DOMAIN sessions /\ sessions[req[w].id].ready
      /\ req[w].known <= Len(plans) /\ req[w].body # None
  BY <1>1 DEF Fits
<1>3. /\ req[w].id \in Nat /\ req[w].known \in Nat
      /\ req[w].seen \in SessionRow /\ req[w].body \in Drafts \cup {Empty}
  BY <1>1, <1>2 DEF Requests
<1>4. Structure(w) \in Drafts \cup {Empty}
  BY <1>3 DEF Structure, SessionRow
<1> DEFINE x == NewPlan(req[w].id, req[w].known, Structure(w))
<1>5. x \in PlanRow
  <2>1. (req[w].known = 0) \in BOOLEAN /\ req[w].known + 1 \in Nat
    BY <1>3
  <2> QED
    BY <1>3, <1>4, <2>1, Zenon DEF NewPlan, PlanRow
<1>6. /\ x.session = req[w].id /\ x.parent = req[w].known
      /\ (x.origin <=> req[w].known = 0) /\ x.version = req[w].known + 1
      /\ ~x.active
  BY Zenon DEF NewPlan
<1>7. /\ plans' = Append(plans, x)
      /\ sessions' = [sessions EXCEPT ![req[w].id].status = "locked"]
      /\ ~\E p \in DOMAIN plans : plans[p].session = req[w].id
  BY DEF Inserts, CommitLock, Duplicate
<1>8. [sessions[req[w].id] EXCEPT !.status = "locked"] \in SessionRow
  BY <1>2, RowTypes, LockWrites
<1> HIDE DEF x
<1>9. \E y \in PlanRow :
        /\ plans' = Append(plans, y)
        /\ y.session = req[w].id /\ y.parent = req[w].known
        /\ (y.origin <=> req[w].known = 0) /\ y.version = req[w].known + 1
        /\ ~y.active
  BY <1>5, <1>6, <1>7, Zenon
<1> QED
  BY <1>2, <1>3, <1>7, <1>8, <1>9, Zenon

\* An activation and the lock of a plan change the status and the flag.
LEMMA Activation ==
    ASSUME TypeOK, RequestsFit, NEW w \in Workers, CommitActivation(w)
    PROVE  /\ plans' \in Seq(PlanRow) /\ DOMAIN plans' = DOMAIN plans
           /\ Len(plans') = Len(plans)
           /\ \A p \in DOMAIN plans : Same(plans[p], plans'[p])
           /\ \A p \in DOMAIN plans : plans'[p].active =>
                p = req[w].id \/ (plans[p].active /\ p \notin req[w].held)
           /\ (req[w].plan.active /\ req[w].via = "masterplan_activate")
                \/ \E p \in DOMAIN plans : plans'[p].active
<1>1. /\ req[w] \in Requests /\ Fits(req[w], sessions, plans) /\ req[w].op = "activating"
  BY RowTypes DEF RequestsFit, CommitActivation, At
<1>2. req[w].id \in DOMAIN plans /\ req[w].id \in Nat
  BY <1>1 DEF Fits, Requests
<1>3. PICK active \in Activated(w) :
         plans' = [p \in DOMAIN plans |->
                     IF p = req[w].id
                     THEN [plans[p] EXCEPT !.active = active, !.status = Marked(w)]
                     ELSE [plans[p] EXCEPT !.active = @ /\ p \notin req[w].held]]
  BY DEF CommitActivation
<1>4. /\ active \in BOOLEAN
      /\ (req[w].plan.active /\ req[w].via = "masterplan_activate") \/ active
  BY <1>3 DEF Activated
<1>5. \A p \in DOMAIN plans : plans[p] \in PlanRow
  BY RowTypes
<1>6. Marked(w) \in {"locked", "active"}
  BY <1>2, <1>5 DEF Marked, PlanRow
<1> DEFINE x == [plans[req[w].id] EXCEPT !.active = active, !.status = Marked(w)]
           y(p) == [plans[p] EXCEPT !.active = @ /\ p \notin req[w].held]
<1>7. /\ x \in PlanRow /\ Same(plans[req[w].id], x) /\ x.active = active
  <2>1. plans[req[w].id] \in PlanRow
    BY <1>2, <1>5
  <2> QED
    BY <1>4, <1>6, <2>1, Zenon DEF PlanRow, Same
<1>8. ASSUME NEW p \in DOMAIN plans
      PROVE  /\ y(p) \in PlanRow /\ Same(plans[p], y(p))
             /\ y(p).active => plans[p].active /\ p \notin req[w].held
  BY <1>5, Zenon DEF PlanRow, Same
<1>9. ASSUME NEW p \in DOMAIN plans
      PROVE  plans'[p] = IF p = req[w].id THEN x ELSE y(p)
  BY <1>3, Zenon
<1> HIDE DEF x, y
<1>10. ASSUME NEW p \in DOMAIN plans
       PROVE  /\ plans'[p] \in PlanRow /\ Same(plans[p], plans'[p])
              /\ plans'[p].active => p = req[w].id \/ (plans[p].active /\ p \notin req[w].held)
  BY <1>7, <1>8, <1>9, Zenon
<1>11. plans'[req[w].id].active = active
  BY <1>2, <1>7, <1>9, Zenon
<1>12. plans' = [p \in DOMAIN plans |-> plans'[p]]
  BY <1>3, Zenon
<1>13. plans' \in Seq(PlanRow) /\ DOMAIN plans' = DOMAIN plans /\ Len(plans') = Len(plans)
  BY <1>10, <1>12, RowTypes, Mapped
<1> QED
  BY <1>2, <1>4, <1>10, <1>11, <1>13, Zenon

LEMMA Relocked ==
    ASSUME TypeOK, RequestsFit, NEW w \in Workers, CommitRelock(w)
    PROVE  /\ plans' \in Seq(PlanRow) /\ DOMAIN plans' = DOMAIN plans
           /\ Len(plans') = Len(plans)
           /\ \A p \in DOMAIN plans : Same(plans[p], plans'[p])
           /\ \A p \in DOMAIN plans : plans'[p].active = plans[p].active
<1> DEFINE n == req[w].id
           x == [plans[n] EXCEPT !.status = "locked"]
<1>1. /\ req[w] \in Requests /\ Fits(req[w], sessions, plans) /\ req[w].op = "relock"
  BY RowTypes DEF RequestsFit, CommitRelock, At
<1>2. n \in DOMAIN plans
  BY <1>1 DEF Fits
<1>3. plans' = [plans EXCEPT ![n] = x]
  BY DEF CommitRelock
<1>4. plans[n] \in PlanRow
  BY <1>2, RowTypes
<1>5. x \in PlanRow /\ Same(plans[n], x) /\ x.active = plans[n].active
  BY <1>4, Zenon DEF PlanRow, Same
<1> HIDE DEF x, n
<1>6. /\ plans' \in Seq(PlanRow) /\ DOMAIN plans' = DOMAIN plans /\ Len(plans') = Len(plans)
      /\ \A p \in DOMAIN plans : plans'[p] = IF p = n THEN x ELSE plans[p]
  BY <1>2, <1>3, <1>5, RowTypes, Replaced
<1> QED
  BY <1>5, <1>6, Zenon DEF Same

Step(w) == Begins(w) \/ Deactivate(w) \/ Ends(w)

LEMMA StepSessions ==
    ASSUME TypeOK, RequestsFit, NEW w \in Workers, Step(w)
    PROVE  sessions' \in Seq(SessionRow) /\ Forward(sessions, sessions')
<1>1. CASE sessions' = sessions
  BY <1>1, RowTypes DEF Forward
<1>2. ASSUME NEW x \in SessionRow, sessions' = Append(sessions, x)
      PROVE  sessions' \in Seq(SessionRow) /\ Forward(sessions, sessions')
  <2>1. /\ sessions' \in Seq(SessionRow) /\ DOMAIN sessions \subseteq DOMAIN sessions'
        /\ \A s \in DOMAIN sessions : sessions'[s] = sessions[s]
    BY <1>2, RowTypes, Appended
  <2> QED
    BY <2>1, Zenon DEF Forward
<1>3. ASSUME NEW n \in DOMAIN sessions, NEW x \in SessionRow,
             sessions' = [sessions EXCEPT ![n] = x],
             /\ sessions[n].status = "locked" => x.status = "locked"
             /\ sessions[n].ready => x.ready
             /\ sessions[n].draft # None => x.draft # None
      PROVE  sessions' \in Seq(SessionRow) /\ Forward(sessions, sessions')
  <2>1. /\ sessions' \in Seq(SessionRow) /\ DOMAIN sessions' = DOMAIN sessions
        /\ \A s \in DOMAIN sessions : sessions'[s] = IF s = n THEN x ELSE sessions[s]
    BY <1>3, RowTypes, Replaced
  <2> QED
    BY <1>3, <2>1, Zenon DEF Forward
<1>4. CASE Inserts(w)
  <2> DEFINE n == req[w].id
             x == [sessions[n] EXCEPT !.status = "locked"]
  <2>1. n \in DOMAIN sessions /\ x \in SessionRow /\ sessions' = [sessions EXCEPT ![n] = x]
    BY <1>4, Inserted, Zenon
  <2>2. sessions[n] \in SessionRow
    BY <2>1, RowTypes
  <2>3. x.status = "locked" /\ x.draft = sessions[n].draft /\ x.ready = sessions[n].ready
    BY <2>2, LockWrites
  <2> HIDE DEF x, n
  <2> QED
    BY <1>3, <2>1, <2>3, Zenon
<1>5. CASE Begins(w) \/ Deactivate(w)
  BY <1>1, <1>5, BeginsWith DEF Deactivate
<1>6. CASE Ends(w)
  BY <1>1, <1>2, <1>3, <1>4, <1>6, SessionsWritten, Zenon DEF Turned
<1> QED
  BY <1>5, <1>6 DEF Step

LEMMA StepPlans ==
    ASSUME TypeOK, RequestsFit, NEW w \in Workers, Step(w)
    PROVE  /\ plans' \in Seq(PlanRow) /\ Len(plans) <= Len(plans')
           /\ DOMAIN plans \subseteq DOMAIN plans'
           /\ \A p \in DOMAIN plans : Same(plans[p], plans'[p])
           /\ Inserts(w) \/ DOMAIN plans' = DOMAIN plans
<1>1. CASE plans' = plans
  BY <1>1, RowTypes DEF Same
<1>2. CASE Inserts(w)
  <2>1. PICK x \in PlanRow : plans' = Append(plans, x)
    BY <1>2, Inserted, Zenon
  <2>2. /\ plans' \in Seq(PlanRow) /\ DOMAIN plans \subseteq DOMAIN plans'
        /\ Len(plans') = Len(plans) + 1
        /\ \A p \in DOMAIN plans : plans'[p] = plans[p]
    BY <2>1, RowTypes, Appended
  <2> QED
    BY <1>2, <2>2, RowTypes DEF Same
<1>3. CASE CommitActivation(w) \/ CommitRelock(w)
  <2>1. /\ plans' \in Seq(PlanRow) /\ DOMAIN plans' = DOMAIN plans
        /\ Len(plans') = Len(plans)
        /\ \A p \in DOMAIN plans : Same(plans[p], plans'[p])
    BY <1>3, Activation, Relocked, Zenon
  <2> QED
    BY <2>1, RowTypes
<1>4. CASE Begins(w) \/ Deactivate(w)
  BY <1>1, <1>4, BeginsWith DEF Deactivate
<1> QED
  BY <1>1, <1>2, <1>3, <1>4, PlansWritten, Zenon DEF Step

LEMMA StepRequests ==
    ASSUME TypeOK, RequestsFit, NEW w \in Workers, Step(w)
    PROVE  /\ req' \in [Workers -> Requests]
           /\ RequestsFit'
           /\ \A v \in Workers : v # w => req'[v] = req[v]
           /\ req'[w].op = "activating" => Deactivate(w) /\ req'[w].held = DOMAIN plans
<1>1. \E r \in Requests : /\ Fits(r, sessions', plans')
                          /\ req' = [req EXCEPT ![w] = r]
                          /\ r.op = "activating" => Deactivate(w) /\ r.held = DOMAIN plans
  <2>1. CASE Begins(w)
    BY <2>1, BeginsWith
  <2>2. CASE Deactivate(w)
    <3> DEFINE r == [req[w] EXCEPT !.op = "activating", !.held = DOMAIN plans]
    <3>1. req[w] \in Requests /\ Fits(req[w], sessions, plans) /\ req[w].op = "activate"
      BY <2>2, RowTypes DEF RequestsFit, Deactivate, At
    <3>2. DOMAIN plans \in SUBSET Nat
      BY RowTypes
    <3>3. /\ r \in Requests /\ r.op = "activating" /\ r.id = req[w].id
          /\ r.held = DOMAIN plans
      BY <3>1, <3>2, OpNames DEF Requests
    <3>4. Fits(r, sessions, plans)
      BY <3>1, <3>3 DEF Fits
    <3>5. req' = [req EXCEPT ![w] = r] /\ UNCHANGED <<sessions, plans>>
      BY <2>2 DEF Deactivate, Others
    <3> HIDE DEF r
    <3> QED
      BY <2>2, <3>3, <3>4, <3>5
  <2>3. CASE Ends(w)
    <3>1. Fits(Idle, sessions', plans')
      BY IdleType DEF Fits
    <3>2. Idle \in Requests /\ Idle.op # "activating"
      BY IdleType
    <3> QED
      BY <2>3, <3>1, <3>2, EndsIdle, Zenon
  <2> QED
    BY <2>1, <2>2, <2>3 DEF Step
<1>2. PICK r \in Requests : /\ Fits(r, sessions', plans')
                            /\ req' = [req EXCEPT ![w] = r]
                            /\ r.op = "activating" => Deactivate(w) /\ r.held = DOMAIN plans
  BY <1>1
<1>3. /\ req' \in [Workers -> Requests] /\ req'[w] = r
      /\ \A v \in Workers : v # w => req'[v] = req[v]
  <2>1. req' = [req EXCEPT ![w] = r]
    BY <1>2
  <2> QED
    BY <2>1, RequestReplaced
<1>4. ASSUME NEW v \in Workers PROVE Fits(req'[v], sessions', plans')
  <2>1. CASE v = w
    BY <1>2, <1>3, <2>1
  <2>2. CASE v # w
    <3>1. req'[v] = req[v] /\ req[v] \in Requests /\ Fits(req[v], sessions, plans)
      BY <1>3, <2>2, RowTypes DEF RequestsFit
    <3>2. /\ Forward(sessions, sessions') /\ plans \in Seq(PlanRow)
          /\ plans' \in Seq(PlanRow) /\ Len(plans) <= Len(plans')
      BY StepSessions, StepPlans, RowTypes
    <3> QED
      BY <3>1, <3>2, StillFits
  <2> QED
    BY <2>1, <2>2
<1> QED
  BY <1>2, <1>3, <1>4 DEF RequestsFit

LEMMA StepType ==
    ASSUME TypeOK, RequestsFit, NEW w \in Workers, Step(w)
    PROVE  TypeOK'
BY StepSessions, StepPlans, StepRequests DEF TypeOK, Requests

-----------------------------------------------------------------------------
(* What a step preserves.                                                  *)

LEMMA StepPlansFit ==
    ASSUME TypeOK, RequestsFit, PlansFit, NEW w \in Workers, Step(w)
    PROVE  PlansFit'
<1>1. Forward(sessions, sessions')
  BY StepSessions
<1>2. ASSUME NEW p \in DOMAIN plans
      PROVE  plans'[p].session \in DOMAIN sessions' /\ plans'[p].version <= p
  BY <1>1, StepPlans DEF PlansFit, Same, Forward
<1>3. CASE DOMAIN plans' = DOMAIN plans
  BY <1>2, <1>3 DEF PlansFit
<1>4. CASE Inserts(w)
  <2>1. PICK x \in PlanRow : /\ plans' = Append(plans, x) /\ x.session = req[w].id
                             /\ x.version = req[w].known + 1
    BY <1>4, Inserted, Zenon
  <2>2. /\ req[w].id \in DOMAIN sessions
        /\ req[w].known \in Nat /\ req[w].known <= Len(plans)
    BY <1>4, Inserted, Zenon
  <2>3. /\ DOMAIN plans' = DOMAIN plans \cup {Len(plans) + 1}
        /\ plans'[Len(plans) + 1] = x
    BY <2>1, RowTypes, Appended
  <2>4. x.session \in DOMAIN sessions' /\ x.version <= Len(plans) + 1
    BY <1>1, <2>1, <2>2, RowTypes DEF Forward
  <2> QED
    BY <1>2, <2>3, <2>4 DEF PlansFit
<1> QED
  BY <1>3, <1>4, StepPlans

LEMMA StepLineage ==
    ASSUME TypeOK, RequestsFit, PlansFit, Lineage, NEW w \in Workers, Step(w)
    PROVE  Lineage'
<1> DEFINE Good(P, p) == /\ P[p].origin <=> P[p].parent = 0
                         /\ P[p].parent # 0 =>
                              P[p].parent < p /\ P[P[p].parent].version < P[p].version
<1>1. ASSUME NEW p \in DOMAIN plans PROVE Good(plans', p)
  <2>1. Good(plans, p) /\ plans[p] \in PlanRow /\ p \in Nat
    BY RowTypes DEF Lineage
  <2>2. Same(plans[p], plans'[p])
    BY StepPlans
  <2>3. plans[p].parent # 0 => /\ plans[p].parent \in DOMAIN plans
                               /\ Same(plans[plans[p].parent], plans'[plans[p].parent])
    <3>1. plans[p].parent \in Nat
      BY <2>1 DEF PlanRow
    <3>2. plans[p].parent # 0 => plans[p].parent \in DOMAIN plans
      BY <2>1, <3>1, RowTypes
    <3> QED
      BY <3>2, StepPlans
  <2> QED
    BY <2>1, <2>2, <2>3 DEF Same
<1>2. CASE DOMAIN plans' = DOMAIN plans
  BY <1>1, <1>2 DEF Lineage
<1>3. CASE Inserts(w)
  <2> DEFINE n == Len(plans) + 1
             k == req[w].known
  <2>1. PICK x \in PlanRow : /\ plans' = Append(plans, x) /\ x.parent = k
                             /\ (x.origin <=> k = 0) /\ x.version = k + 1
    BY <1>3, Inserted, Zenon
  <2>2. k \in Nat /\ k <= Len(plans)
    BY <1>3, Inserted, Zenon
  <2>3. /\ DOMAIN plans' = DOMAIN plans \cup {n} /\ plans'[n] = x
    BY <2>1, RowTypes, Appended
  <2>4. ASSUME k # 0 PROVE k < n /\ plans'[k].version < k + 1
    <3>1. k \in DOMAIN plans
      BY <2>2, <2>4, RowTypes
    <3>2. plans'[k].version = plans[k].version /\ plans[k].version <= k
      BY <3>1, StepPlans DEF Same, PlansFit
    <3>3. plans[k].version \in Nat
      BY <3>1, RowTypes DEF PlanRow
    <3> QED
      BY <2>2, <3>2, <3>3, RowTypes
  <2> HIDE DEF k
  <2>5. Good(plans', n)
    BY <2>1, <2>3, <2>4
  <2> QED
    BY <1>1, <2>3, <2>5 DEF Lineage
<1> QED
  BY <1>2, <1>3, StepPlans

\* The rows of a plan's session, and which plan a session has.
LEMMA StepOnePlan ==
    ASSUME TypeOK, RequestsFit, PlansFit, OnePlanPerSession, NEW w \in Workers, Step(w)
    PROVE  OnePlanPerSession'
<1> DEFINE Has(P, s) == \E p \in DOMAIN P : P[p].session = s
<1>a. /\ \A s \in DOMAIN sessions : sessions[s].status = "locked" <=> Has(plans, s)
      /\ \A p, q \in DOMAIN plans : plans[p].session = plans[q].session => p = q
      /\ \A p \in DOMAIN plans : plans[p].session \in DOMAIN sessions
      /\ \A p \in DOMAIN plans : sessions[plans[p].session].ready
  BY DEF OnePlanPerSession, PlansFit
<1>b. Forward(sessions, sessions')
  BY StepSessions
<1>c. \A p \in DOMAIN plans : p \in DOMAIN plans' /\ plans'[p].session = plans[p].session
  BY StepPlans DEF Same
<1>d. ASSUME NEW p \in DOMAIN plans PROVE sessions'[plans'[p].session].ready
  BY <1>a, <1>b, <1>c DEF Forward
<1>1. CASE DOMAIN plans' = DOMAIN plans
  <2>1. \A s : Has(plans', s) <=> Has(plans, s)
    BY <1>1, <1>c
  <2>2. \A p, q \in DOMAIN plans' : plans'[p].session = plans'[q].session => p = q
    BY <1>1, <1>a, <1>c
  <2> DEFINE Goal == \A s \in DOMAIN sessions' : sessions'[s].status = "locked" <=> Has(plans, s)
  <2>a. \A p \in DOMAIN plans' : sessions'[plans'[p].session].ready
    BY <1>1, <1>d
  <2> HIDE DEF Has
  <2>3. ASSUME sessions' = sessions PROVE Goal
    BY <1>a, <2>3
  <2>4. ASSUME NEW x \in SessionRow, x.status = "active", sessions' = Append(sessions, x)
        PROVE  Goal
    <3>1. /\ DOMAIN sessions' = DOMAIN sessions \cup {Len(sessions) + 1}
          /\ \A s \in DOMAIN sessions : sessions'[s] = sessions[s]
          /\ sessions'[Len(sessions) + 1] = x
          /\ Len(sessions) + 1 \notin DOMAIN sessions
      BY <2>4, RowTypes, Appended
    <3>2. ~Has(plans, Len(sessions) + 1)
      BY <1>a, <3>1 DEF Has
    <3> QED
      BY <1>a, <2>4, <3>1, <3>2
  <2>5. ASSUME NEW n \in DOMAIN sessions, NEW x \in SessionRow,
               x.status = sessions[n].status, sessions' = [sessions EXCEPT ![n] = x]
        PROVE  Goal
    <3>1. /\ DOMAIN sessions' = DOMAIN sessions
          /\ \A s \in DOMAIN sessions : sessions'[s] = IF s = n THEN x ELSE sessions[s]
      BY <2>5, RowTypes, Replaced
    <3> QED
      BY <1>a, <2>5, <3>1
  <2>6. ~Inserts(w)
    <3>1. SUFFICES ASSUME Inserts(w) PROVE FALSE
      OBVIOUS
    <3>2. PICK x \in PlanRow : plans' = Append(plans, x)
      BY <3>1, Inserted, Zenon
    <3>3. Len(plans) + 1 \in DOMAIN plans' /\ Len(plans) + 1 \notin DOMAIN plans
      BY <3>2, RowTypes, Appended
    <3> QED
      BY <1>1, <3>3
  <2>7. Goal
    <3>1. CASE Begins(w) \/ Deactivate(w)
      BY <2>3, <3>1, BeginsWith DEF Deactivate
    <3>2. CASE Ends(w)
      BY <2>3, <2>4, <2>5, <2>6, <3>2, SessionsWritten, Zenon DEF Turned
    <3> QED
      BY <3>1, <3>2 DEF Step
  <2> QED
    BY <2>a, <2>1, <2>2, <2>7 DEF OnePlanPerSession, Has
<1>2. CASE Inserts(w)
  <2> DEFINE n == req[w].id
             m == Len(plans) + 1
             y == [sessions[n] EXCEPT !.status = "locked"]
  <2>1. PICK x \in PlanRow : plans' = Append(plans, x) /\ x.session = n
    BY <1>2, Inserted, Zenon
  <2>2. /\ n \in DOMAIN sessions /\ sessions[n].ready /\ ~Has(plans, n)
        /\ y \in SessionRow /\ sessions' = [sessions EXCEPT ![n] = y]
    BY <1>2, Inserted, Zenon
  <2>3. /\ DOMAIN plans' = DOMAIN plans \cup {m} /\ plans'[m] = x
        /\ \A p \in DOMAIN plans : plans'[p] = plans[p]
    BY <2>1, RowTypes, Appended
  <2>4. y.status = "locked"
    BY <2>2, RowTypes, LockWrites
  <2> HIDE DEF n, y
  <2>5. /\ DOMAIN sessions' = DOMAIN sessions
        /\ \A s \in DOMAIN sessions : sessions'[s] = IF s = n THEN y ELSE sessions[s]
    BY <2>2, RowTypes, Replaced
  <2>6. \A s : Has(plans', s) <=> Has(plans, s) \/ s = n
    BY <2>1, <2>3
  <2>7. \A p, q \in DOMAIN plans' : plans'[p].session = plans'[q].session => p = q
    BY <1>a, <2>1, <2>2, <2>3
  <2>8. sessions'[n].ready
    BY <1>b, <2>2 DEF Forward
  <2>9. \A p \in DOMAIN plans' : sessions'[plans'[p].session].ready
    BY <1>d, <2>1, <2>3, <2>8
  <2> HIDE DEF Has
  <2>10. \A s \in DOMAIN sessions' : sessions'[s].status = "locked" <=> Has(plans', s)
    BY <1>a, <2>4, <2>5, <2>6
  <2> QED
    BY <2>7, <2>9, <2>10 DEF OnePlanPerSession, Has
<1> QED
  BY <1>1, <1>2, StepPlans

\* Nothing but an activation makes a plan active.
LEMMA OnlyActivationActivates ==
    ASSUME TypeOK, RequestsFit, NEW w \in Workers, Step(w), ~CommitActivation(w)
    PROVE  \A p \in DOMAIN plans' : plans'[p].active => p \in DOMAIN plans /\ plans[p].active
<1>1. CASE plans' = plans
  BY <1>1
<1>2. CASE Inserts(w)
  <2>1. PICK x \in PlanRow : plans' = Append(plans, x) /\ ~x.active
    BY <1>2, Inserted, Zenon
  <2>2. /\ DOMAIN plans' = DOMAIN plans \cup {Len(plans) + 1}
        /\ plans'[Len(plans) + 1] = x
        /\ \A q \in DOMAIN plans : plans'[q] = plans[q]
    BY <2>1, RowTypes, Appended
  <2> QED
    BY <2>1, <2>2
<1>3. CASE CommitRelock(w)
  BY <1>3, Relocked
<1> QED
  BY <1>1, <1>2, <1>3, PlansWritten, BeginsWith DEF Step, Deactivate

LEMMA StepOneActivating ==
    ASSUME TypeOK, RequestsFit, OneActivating, NEW w \in Workers, Step(w)
    PROVE  OneActivating'
<1>a. /\ \A v \in Workers : v # w => req'[v] = req[v]
      /\ req'[w].op = "activating" => Deactivate(w) /\ req'[w].held = DOMAIN plans
      /\ \A v \in Workers : Fits(req[v], sessions, plans)
  BY StepRequests DEF RequestsFit
<1>b. /\ \A u, v \in Workers : req[u].op = "activating" /\ req[v].op = "activating" => u = v
      /\ \A v \in Workers, p \in DOMAIN plans :
           req[v].op = "activating" /\ plans[p].active => p \in req[v].held
  BY DEF OneActivating, At
\* One that is activating holds its plan, so that no other gets to.
<1>1. ASSUME req'[w].op = "activating", NEW v \in Workers, req'[v].op = "activating"
      PROVE  v = w
  <2>1. SUFFICES ASSUME v # w PROVE FALSE
    OBVIOUS
  <2>2. req[v].op = "activating" /\ req[v].id \in req[v].held /\ req[v].id \in DOMAIN plans
    BY <1>1, <1>a, <2>1 DEF Fits
  <2>3. \A p \in DOMAIN plans : p \notin req[v].held
    BY <1>1, <1>a DEF Deactivate, PlanHeld
  <2> QED
    BY <2>2, <2>3
<1>2. ASSUME NEW u \in Workers, NEW v \in Workers,
             req'[u].op = "activating", req'[v].op = "activating"
      PROVE  u = v
  BY <1>a, <1>b, <1>1, <1>2
<1>3. ASSUME NEW v \in Workers, NEW p \in DOMAIN plans',
             req'[v].op = "activating", plans'[p].active
      PROVE  p \in req'[v].held
  <2>1. CASE v = w
    <3>1. Deactivate(w) /\ req'[w].held = DOMAIN plans
      BY <1>3, <1>a, <2>1
    <3> QED
      BY <2>1, <3>1 DEF Deactivate
  <2>2. CASE v # w
    <3>1. req'[v] = req[v] /\ req[v].op = "activating"
      BY <1>3, <1>a, <2>2
    <3>2. ~CommitActivation(w)
      BY <1>b, <2>2, <3>1 DEF CommitActivation, At
    <3>3. p \in DOMAIN plans /\ plans[p].active
      BY <1>3, <3>2, OnlyActivationActivates
    <3> QED
      BY <1>b, <3>1, <3>3
  <2> QED
    BY <2>1, <2>2
<1> QED
  BY <1>2, <1>3 DEF OneActivating, At

LEMMA StepSingleActive ==
    ASSUME TypeOK, RequestsFit, OneActivating, SingleActive, NEW w \in Workers, Step(w)
    PROVE  SingleActive'
<1>1. CASE CommitActivation(w)
  <2>1. \A p \in DOMAIN plans : plans[p].active => p \in req[w].held
    BY <1>1 DEF OneActivating, CommitActivation
  <2>2. /\ DOMAIN plans' = DOMAIN plans
        /\ \A p \in DOMAIN plans : plans'[p].active =>
             p = req[w].id \/ (plans[p].active /\ p \notin req[w].held)
    BY <1>1, Activation, Zenon
  <2> QED
    BY <2>1, <2>2, Zenon DEF SingleActive
<1>2. CASE ~CommitActivation(w)
  <2>1. \A p \in DOMAIN plans' : plans'[p].active => p \in DOMAIN plans /\ plans[p].active
    BY <1>2, OnlyActivationActivates
  <2> QED
    BY <2>1, Zenon DEF SingleActive
<1> QED
  BY <1>1, <1>2

-----------------------------------------------------------------------------
(* The theorems.                                                           *)

LEMMA InitHolds == Init => IInv
<1> SUFFICES ASSUME Init PROVE IInv
  OBVIOUS
<1>1. /\ sessions = <<>> /\ plans = <<>> /\ req = [w \in Workers |-> Idle]
      /\ DOMAIN sessions = {} /\ DOMAIN plans = {}
  BY DEF Init
<1>2. TypeOK
  <2>1. sessions \in Seq(SessionRow) /\ plans \in Seq(PlanRow)
    BY <1>1
  <2>2. req \in [Workers -> Requests]
    BY <1>1, IdleType
  <2> QED
    BY <2>1, <2>2 DEF TypeOK, Requests
<1>3. \A w \in Workers : req[w].op = "idle" /\ req[w].held = {}
  BY <1>1, IdleType
<1>4. RequestsFit
  BY <1>3 DEF RequestsFit, Fits
<1>5. OneActivating
  BY <1>1, <1>3 DEF OneActivating, At
<1>6. PlansFit /\ OnePlanPerSession /\ SingleActive /\ Lineage
  BY <1>1 DEF PlansFit, OnePlanPerSession, SingleActive, Lineage
<1> QED
  BY <1>2, <1>4, <1>5, <1>6 DEF IInv

LEMMA NextHolds == IInv /\ [Next]_vars => IInv'
<1> SUFFICES ASSUME IInv, [Next]_vars PROVE IInv'
  OBVIOUS
<1>1. CASE Next
  <2>1. PICK w \in Workers : Step(w)
    BY <1>1, StepsAre DEF Step
  <2> QED
    BY <2>1, StepType, StepRequests, StepPlansFit, StepOnePlan, StepOneActivating,
       StepSingleActive, StepLineage DEF IInv
<1>2. CASE UNCHANGED vars
  BY <1>2 DEF vars, IInv, TypeOK, RequestsFit, PlansFit, OneActivating, OnePlanPerSession,
              SingleActive, Lineage, At
<1> QED
  BY <1>1, <1>2

\* What requests rely on, and with it every invariant below, holds throughout.
THEOREM Inductive == Spec => []IInv
BY InitHolds, NextHolds, PTL DEF Spec

\* Rows carry the statuses the code writes and no other.
THEOREM TypeCorrect == Spec => []TypeOK
<1>1. IInv => TypeOK
  BY DEF IInv
<1> QED
  BY <1>1, Inductive, PTL

\* masterplan_factory.create_masterplan_from_genesis: however locks overlap, a
\* session is locked exactly when a plan was made from it, and one plan.
THEOREM OnePlan == Spec => []OnePlanPerSession
<1>1. IInv => OnePlanPerSession
  BY DEF IInv
<1> QED
  BY <1>1, Inductive, PTL

\* The three activations: at most one plan is active.
THEOREM AtMostOneActive == Spec => []SingleActive
<1>1. IInv => SingleActive
  BY DEF IInv
<1> QED
  BY <1>1, Inductive, PTL

\* masterplan_factory: the parents of a plan are older and of smaller versions.
THEOREM ParentsAreOlder == Spec => []Lineage
<1>1. IInv => Lineage
  BY DEF IInv
<1> QED
  BY <1>1, Inductive, PTL

\* The turns, the synthesis and the lock of a session take back nothing that
\* another committed.
THEOREM NothingTakenBack == Spec => SessionForward
<1> DEFINE A == \A s \in DOMAIN sessions :
                  /\ sessions[s].status = "locked" => sessions'[s].status = "locked"
                  /\ sessions[s].ready => sessions'[s].ready
                  /\ sessions[s].draft # None => sessions'[s].draft # None
<1>1. IInv /\ [Next]_vars => [A]_sessions
  <2> SUFFICES ASSUME IInv, [Next]_vars, sessions' # sessions PROVE A
    OBVIOUS
  <2>1. PICK w \in Workers : Step(w)
    BY StepsAre DEF Step, vars
  <2> QED
    BY <2>1, StepSessions DEF IInv, Forward
<1> QED
  BY <1>1, Inductive, PTL DEF Spec, SessionForward

\* Whoever has an active plan keeps one, except through masterplan_activate_node
\* on a plan that was active as it loaded it.
THEOREM AnActivePlanStays == Spec => ActiveStays
<1> DEFINE A == (\E p \in DOMAIN plans : plans[p].active) =>
                  \/ \E p \in DOMAIN plans' : plans'[p].active
                  \/ \E w \in Workers : /\ At(w, "activating") /\ req[w].plan.active
                                        /\ req[w].via = "masterplan_activate"
<1>1. IInv /\ [Next]_vars => [A]_plans
  <2> SUFFICES ASSUME IInv, [Next]_vars, plans' # plans,
                      NEW p \in DOMAIN plans, plans[p].active
               PROVE  \/ \E q \in DOMAIN plans' : plans'[q].active
                      \/ \E w \in Workers : /\ At(w, "activating") /\ req[w].plan.active
                                            /\ req[w].via = "masterplan_activate"
    OBVIOUS
  <2>1. PICK w \in Workers : Step(w)
    BY StepsAre DEF Step, vars
  <2>2. TypeOK /\ RequestsFit
    BY DEF IInv
  <2>3. CASE CommitActivation(w)
    <3>1. At(w, "activating") /\ DOMAIN plans' = DOMAIN plans
      BY <2>2, <2>3, Activation DEF CommitActivation
    <3>2. (req[w].plan.active /\ req[w].via = "masterplan_activate")
            \/ \E q \in DOMAIN plans : plans'[q].active
      BY <2>2, <2>3, Activation, Zenon
    <3> QED
      BY <3>1, <3>2, Zenon
  <2>4. CASE CommitRelock(w)
    <3>1. p \in DOMAIN plans' /\ plans'[p].active
      BY <2>2, <2>4, Relocked, Zenon
    <3> QED
      BY <3>1, Zenon
  <2>5. CASE Inserts(w)
    <3>1. PICK x \in PlanRow : plans' = Append(plans, x)
      BY <2>2, <2>5, Inserted, Zenon
    <3>2. plans \in Seq(PlanRow)
      BY <2>2, RowTypes
    <3>3. /\ DOMAIN plans' = DOMAIN plans \cup {Len(plans) + 1}
          /\ \A q \in DOMAIN plans : plans'[q] = plans[q]
      BY <3>1, <3>2, Appended
    <3> QED
      BY <3>3, Zenon
  <2> QED
    BY <2>1, <2>2, <2>3, <2>4, <2>5, PlansWritten, BeginsWith DEF Step, Deactivate
<1> QED
  BY <1>1, Inductive, PTL DEF Spec, ActiveStays
=============================================================================
