-------------------------- MODULE CheckpointerProofs --------------------------
(***************************************************************************)
(* The LangGraph checkpointer, for any number of calls and threads: every  *)
(* thread has one session, a read sees what was put before it began, and a *)
(* page of the history is a part of one chain.  The invariant ties what    *)
(* the calls and the cache hold to the tables of the store.                *)
(***************************************************************************)
EXTENDS Checkpointer, ChainProofs

(* One checkpointer instance: the lock of another is another lock.         *)
OneSaver == \A v, w \in Savers : v = w

Requests == [op         : {"put", "get", "list", "rollback"},
             saver      : Savers \cup {None},
             thread     : Threads \cup {None},
             checkpoint : Checkpoints \cup {None}]

Resolving(c) == at[c] \in {"lock", "prefix", "label", "create"}   \* its thread
Acting(c)    == at[c] \in {"write", "find", "page"}               \* on its session

CallOK(c) ==
  /\ Resolving(c) => request[c].saver \in Savers /\ request[c].thread \in Threads
  /\ Acting(c) => session[c] \in Sessions

ThreadTypeOK ==
  /\ db \in DB /\ IsFiniteSet(db.snaps)
  /\ sessionLabel \in [Sessions -> Threads \cup {None}]
  /\ request \in [Calls -> Requests]
  /\ cache \in [Savers -> [Threads -> Sessions \cup {None}]]
  /\ cacheLock \in [Savers -> Calls \cup {None}]
  /\ at \in [Calls -> Stages]
  /\ session \in [Calls -> Sessions \cup {None}]
  /\ result \in [Calls -> Calls \cup {None, Absent, "raised"}]
  /\ known \in [Calls -> SUBSET Calls]
  /\ created \in [Calls -> Nat]
  /\ anchor \in [Calls -> Calls \cup {None}]
  /\ rows \in [Calls -> SUBSET Calls]
  /\ \A c \in Calls : CallOK(c)

-----------------------------------------------------------------------------
(***************************************************************************)
(* What the steps do to the tables of the store.                           *)
(***************************************************************************)

NewRow(c, s) == [id |-> c, session |-> s, parent |-> db.heads[s]]

(* A new snapshot of c becomes the head of s.                              *)
Moves(c, s) ==
  /\ s \in Sessions /\ HasSession(db, s) /\ ~HasSnapshot(db, c)
  /\ db' \in DB
  /\ db'.snaps = db.snaps \cup {NewRow(c, s)} /\ NewRow(c, s) \in SnapshotRow
  /\ db'.heads = [db.heads EXCEPT ![s] = c]
  /\ created'[c] \in Times
  /\ \A d \in Calls : d # c => created'[d] = created[d]

LEMMA AdvancedMoves ==
  ASSUME ThreadTypeOK, NEW c \in Calls, Advanced(c)
  PROVE  /\ \E s \in Sessions : Moves(c, s)
         /\ db'.heads[session[c]] = c
         /\ \E now \in Times : created' = [created EXCEPT ![c] = now]
  <1>1. PICK s \in Sessions, us \in SUBSET Units, units \in [Units -> Calls \cup {None}] :
          Advance(c, s, us, units)
    <2>1. CASE TakeSnapshot(c)
      <3>1. PICK s \in Sessions, us \in SUBSET Units :
              Advance(c, s, us, [u \in Units |-> IF u \in us /\ db.units[u] = None
                                                   THEN c ELSE db.units[u]])
        BY <2>1 DEF TakeSnapshot
      <3>2. [u \in Units |-> IF u \in us /\ db.units[u] = None THEN c ELSE db.units[u]]
              \in [Units -> Calls \cup {None}]
        BY DEF ThreadTypeOK, DB
      <3> QED
        BY <3>1, <3>2
    <2>2. CASE Rollback(c)
      <3>1. PICK s \in Sessions, r \in db.snaps : Advance(c, s, Members(db, r.id), db.units)
        BY <2>2 DEF Rollback
      <3>2. Members(db, r.id) \subseteq Units /\ db.units \in [Units -> Calls \cup {None}]
        BY DEF ThreadTypeOK, DB, Members
      <3> QED
        BY <3>1, <3>2
    <2> QED
      BY <2>1, <2>2 DEF Advanced
  <1>2. /\ HasSession(db, s) /\ ~HasSnapshot(db, c)
        /\ db' = [db EXCEPT !.heads[s] = c, !.snaps = db.snaps \cup {NewRow(c, s)},
                            !.units = units, !.links = db.links \cup ({c} \X us)]
    BY <1>1 DEF Advance, NewRow
  <1>3. NewRow(c, s) \in SnapshotRow
    BY <1>2 DEF NewRow, SnapshotRow, HasSession, ThreadTypeOK, DB
  <1>4. /\ db'.snaps = db.snaps \cup {NewRow(c, s)}
        /\ db'.heads = [db.heads EXCEPT ![s] = c]
        /\ db' \in DB
    <2>1. [db.heads EXCEPT ![s] = c] \in [Sessions -> Calls \cup {None, Absent}]
      BY DEF ThreadTypeOK, DB
    <2>2. db.links \cup ({c} \X us) \subseteq Calls \X Units
      BY DEF ThreadTypeOK, DB
    <2> QED
      BY <1>2, <1>3, <2>1, <2>2 DEF ThreadTypeOK, DB
  <1>5. /\ \E now \in Times : created' = [created EXCEPT ![c] = now]
        /\ db'.heads[session[c]] = c
    BY DEF Advanced
  <1> QED
    BY <1>2, <1>3, <1>4, <1>5 DEF Moves, ThreadTypeOK

LEMMA CreateFields ==
  ASSUME ThreadTypeOK, NEW c \in Calls, CreateSession(c)
  PROVE  /\ ~HasSession(db, c) /\ db' \in DB /\ db'.snaps = db.snaps
         /\ db'.heads = [db.heads EXCEPT ![c] = None]
         /\ \A s \in Sessions : HasSession(db', s) <=> HasSession(db, s) \/ s = c
  <1>1. c \in Sessions /\ db' = [db EXCEPT !.heads[c] = None] /\ ~HasSession(db, c)
    BY DEF CreateSession, Sessions
  <1>2. /\ db' \in DB /\ db'.snaps = db.snaps
        /\ db'.heads = [db.heads EXCEPT ![c] = None]
    BY <1>1 DEF ThreadTypeOK, DB
  <1> QED
    BY <1>1, <1>2, DatabaseAssumption DEF ThreadTypeOK, DB, HasSession

(* The three things a step can do to the tables.                           *)
Kept == UNCHANGED <<db, sessionLabel, created>>

Opens(c) ==
  /\ at[c] = "create" /\ CreateSession(c) /\ UNCHANGED created
  /\ sessionLabel' = [sessionLabel EXCEPT ![c] = request[c].thread]

Writes(c) ==
  /\ at[c] = "write" /\ Advanced(c) /\ UNCHANGED sessionLabel
  /\ request'[c] = request[c] /\ at'[c] = "done"

LEMMA StepTables ==
  ASSUME ThreadTypeOK, NEW c \in Calls, Invoke(c) \/ InvokeRollback(c) \/ Step(c) \/ Fail(c)
  PROVE  Kept \/ Opens(c) \/ Writes(c)
  <1>1. CASE CreateThread(c)
    BY <1>1 DEF CreateThread, AddSession, Opens, listVars
  <1>2. CASE Write(c)
    <2>1. CASE Advanced(c) /\ Return(c, c)
      BY <1>2, <2>1 DEF Write, Writes, Return, ThreadTypeOK
    <2>2. CASE UNCHANGED <<vars, created>>
      BY <1>2, <2>2 DEF Write, Kept, vars
    <2> QED
      BY <1>2, <2>1, <2>2 DEF Write
  <1>3. CASE Fail(c)
    <2>1. CASE UNCHANGED <<vars, sessionLabel, created>>
      BY <2>1 DEF Kept, vars
    <2>2. CASE at[c] = "create" /\ AddSession(c) /\ UNCHANGED created
      BY <2>2 DEF AddSession, Opens
    <2>3. CASE at[c] = "write" /\ Advanced(c) /\ UNCHANGED <<sessionLabel, request>>
      BY <1>3, <2>3 DEF Fail, Writes, Return, ThreadTypeOK
    <2> QED
      BY <1>3, <2>1, <2>2, <2>3 DEF Fail
  <1>4. CASE \/ Invoke(c) \/ InvokeRollback(c) \/ LockCache(c) \/ ResolvePrefix(c)
             \/ ResolveLabel(c) \/ Find(c) \/ FindAnchor(c) \/ List(c)
    BY <1>4 DEF Kept, vars, listVars, Invoke, InvokeRollback, LockCache, ResolvePrefix,
                ResolveLabel, Find, FindAnchor, List
  <1> QED
    BY <1>1, <1>2, <1>3, <1>4 DEF Step

-----------------------------------------------------------------------------
(***************************************************************************)
(* Types.                                                                  *)
(***************************************************************************)
LEMMA NoRequestTyped ==
  /\ NoRequest \in Requests
  /\ [NoRequest EXCEPT !.op = "rollback"] \in Requests
  BY DEF NoRequest, Requests

LEMMA TablesTyped ==
  ASSUME ThreadTypeOK, NEW c \in Calls, Kept \/ Opens(c) \/ Writes(c),
         request[c].thread \in Threads \cup {None}
  PROVE  /\ db' \in DB /\ IsFiniteSet(db'.snaps)
         /\ sessionLabel' \in [Sessions -> Threads \cup {None}]
         /\ created' \in [Calls -> Nat]
  <1>1. CASE Kept
    BY <1>1 DEF Kept, ThreadTypeOK
  <1>2. CASE Opens(c)
    <2>1. c \in Sessions
      BY DEF Sessions
    <2> QED
      BY <1>2, <2>1, CreateFields DEF Opens, ThreadTypeOK
  <1>3. CASE Writes(c)
    <2>1. PICK s \in Sessions : Moves(c, s)
      BY <1>3, AdvancedMoves DEF Writes
    <2>2. IsFiniteSet(db'.snaps)
      <3>1. IsFiniteSet(db.snaps \cup {NewRow(c, s)})
        BY FS_AddElement DEF ThreadTypeOK
      <3> QED
        BY <2>1, <3>1 DEF Moves
    <2>3. created' \in [Calls -> Nat]
      <3>1. PICK now \in Times : created' = [created EXCEPT ![c] = now]
        BY <1>3, AdvancedMoves DEF Writes
      <3> QED
        BY <3>1, CheckpointerAssumption DEF ThreadTypeOK
    <2> QED
      BY <1>3, <2>1, <2>2, <2>3 DEF Writes, Moves, ThreadTypeOK
  <1> QED
    BY <1>1, <1>2, <1>3

LEMMA TypeInit == ThreadInit => ThreadTypeOK
  <1> SUFFICES ASSUME ThreadInit PROVE ThreadTypeOK
    OBVIOUS
  <1>1. db \in DB /\ db.snaps = {}
    BY DEF ThreadInit, Init, EmptyDB, DB
  <1>2. IsFiniteSet(db.snaps)
    BY <1>1, FS_EmptySet
  <1> QED
    BY <1>1, <1>2, NoRequestTyped DEF ThreadInit, ThreadTypeOK, Stages, CallOK, Resolving,
                                       Acting

(* The steps change the entries of one call.                               *)
LEMMA CallsOK ==
  ASSUME ThreadTypeOK, NEW c \in Calls,
         at' \in [Calls -> Stages], session' \in [Calls -> Sessions \cup {None}],
         request' \in [Calls -> Requests],
         \A d \in Calls : d # c => /\ at'[d] = at[d] /\ request'[d] = request[d]
                                   /\ session'[d] = session[d],
         CallOK(c)'
  PROVE  \A d \in Calls : CallOK(d)'
  BY DEF CallOK, Resolving, Acting, ThreadTypeOK

LEMMA InvokeTyped ==
  ASSUME ThreadTypeOK, NEW c \in Calls, Invoke(c)
  PROVE  ThreadTypeOK'
  <1>1. PICK op \in {"put", "get", "list"}, v \in Savers, t \in Threads,
             k \in Checkpoints \cup {None} :
          /\ at[c] = "idle"
          /\ op = "put" => k # None
          /\ request' = [request EXCEPT ![c] =
                           [op |-> op, saver |-> v, thread |-> t, checkpoint |-> k]]
          /\ known' = [known EXCEPT ![c] = IF op = "put" THEN {} ELSE Returned(t)]
          /\ session' = [session EXCEPT ![c] = cache[v][t]]
          /\ at' = [at EXCEPT ![c] = IF cache[v][t] = None THEN "lock"
                                     ELSE ActOf(op, k)]
          /\ UNCHANGED <<vars, sessionLabel, saverVars, result, listVars>>
    BY DEF Invoke
  <1> DEFINE rec  == [op |-> op, saver |-> v, thread |-> t, checkpoint |-> k]
             next == IF cache[v][t] = None THEN "lock" ELSE ActOf(op, k)
  <1>2. Returned(t) \subseteq Calls /\ next \in Stages
    BY DEF Returned, ActOf, Stages
  <1>3. rec \in Requests /\ cache[v][t] \in Sessions \cup {None}
    BY DEF Requests, ThreadTypeOK
  <1>4. /\ request' \in [Calls -> Requests] /\ known' \in [Calls -> SUBSET Calls]
        /\ session' \in [Calls -> Sessions \cup {None}] /\ at' \in [Calls -> Stages]
        /\ \A d \in Calls : d # c => /\ at'[d] = at[d] /\ request'[d] = request[d]
                                     /\ session'[d] = session[d]
    <2> HIDE DEF rec, next
    <2> QED
      BY <1>1, <1>2, <1>3 DEF rec, next, ThreadTypeOK
  <1>5. CallOK(c)'
    <2>1. /\ request'[c] = rec /\ session'[c] = cache[v][t] /\ at'[c] = next
      BY <1>1 DEF ThreadTypeOK
    <2>2. rec.saver \in Savers /\ rec.thread \in Threads
      OBVIOUS
    <2> QED
      BY <1>3, <2>1, <2>2 DEF CallOK, Resolving, Acting, ActOf
  <1>6. \A d \in Calls : CallOK(d)'
    BY <1>4, <1>5, CallsOK
  <1> QED
    BY <1>1, <1>4, <1>6 DEF ThreadTypeOK, vars, saverVars, listVars

LEMMA OtherTyped ==
  ASSUME ThreadTypeOK, NEW c \in Calls, InvokeRollback(c) \/ LockCache(c)
  PROVE  ThreadTypeOK'
  <1>1. CASE InvokeRollback(c)
    <2>1. PICK s \in Sessions :
            /\ request' = [request EXCEPT ![c] = [NoRequest EXCEPT !.op = "rollback"]]
            /\ session' = [session EXCEPT ![c] = s]
            /\ at' = [at EXCEPT ![c] = "write"] /\ UNCHANGED result
            /\ UNCHANGED <<vars, sessionLabel, saverVars, known, listVars>>
      BY <1>1 DEF InvokeRollback, Goto
    <2>2. /\ request' \in [Calls -> Requests]
          /\ session' \in [Calls -> Sessions \cup {None}] /\ at' \in [Calls -> Stages]
          /\ \A d \in Calls : d # c => /\ at'[d] = at[d] /\ request'[d] = request[d]
                                       /\ session'[d] = session[d]
          /\ CallOK(c)'
      BY <2>1, NoRequestTyped DEF ThreadTypeOK, Stages, CallOK, Resolving, Acting
    <2>3. \A d \in Calls : CallOK(d)'
      BY <2>2, CallsOK
    <2> QED
      BY <2>1, <2>2, <2>3 DEF ThreadTypeOK, vars, saverVars, listVars
  <1>2. CASE LockCache(c)
    <2> DEFINE v == request[c].saver
               s == cache[v][request[c].thread]
               next == IF s = None THEN "prefix" ELSE Act(c)
    <2>1. /\ v \in Savers /\ s \in Sessions \cup {None} /\ next \in Stages
          /\ request[c].thread \in Threads
      BY <1>2 DEF LockCache, ThreadTypeOK, Stages, Resolving, CallOK, Act, ActOf
    <2>2. /\ session' = [session EXCEPT ![c] = s] /\ at' = [at EXCEPT ![c] = next]
          /\ cacheLock' = [cacheLock EXCEPT ![v] = IF s = None THEN c ELSE None]
          /\ UNCHANGED <<vars, sessionLabel, request, result, known, cache, listVars>>
      BY <1>2 DEF LockCache, Goto
    <2>3. /\ session' \in [Calls -> Sessions \cup {None}] /\ at' \in [Calls -> Stages]
          /\ cacheLock' \in [Savers -> Calls \cup {None}]
          /\ request' \in [Calls -> Requests]
          /\ session'[c] = s /\ at'[c] = next /\ request' = request
          /\ \A d \in Calls : d # c => /\ at'[d] = at[d] /\ request'[d] = request[d]
                                       /\ session'[d] = session[d]
      <3> HIDE DEF s, v, next
      <3> QED
        BY <2>1, <2>2 DEF ThreadTypeOK
    <2>4. CallOK(c)'
      <3>1. s # None => next \in {"write", "find", "page"}
        BY DEF Act, ActOf
      <3> HIDE DEF s
      <3> QED
        BY <2>1, <2>3, <3>1 DEF CallOK, Resolving, Acting
    <2>5. \A d \in Calls : CallOK(d)'
      BY <2>3, <2>4, CallsOK
    <2> QED
      BY <2>2, <2>3, <2>5 DEF ThreadTypeOK, vars, listVars
  <1> QED
    BY <1>1, <1>2

LEMMA ResolvedTyped ==
  ASSUME ThreadTypeOK, NEW c \in Calls, Kept \/ Opens(c), Resolving(c),
         NEW s \in Sessions, Resolved(c, s), UNCHANGED <<request, known, anchor, rows>>
  PROVE  ThreadTypeOK'
  <1>1. Act(c) \in {"write", "find", "page"}
    BY DEF Act, ActOf
  <1>2. /\ session' \in [Calls -> Sessions \cup {None}]
        /\ cacheLock' \in [Savers -> Calls \cup {None}]
        /\ at' \in [Calls -> Stages] /\ request' \in [Calls -> Requests]
        /\ result' = result
        /\ \A d \in Calls : d # c => /\ at'[d] = at[d] /\ request'[d] = request[d]
                                     /\ session'[d] = session[d]
        /\ CallOK(c)'
    BY <1>1 DEF ThreadTypeOK, Resolved, Unlock, Goto, Stages, CallOK, Resolving, Acting
  <1>3. cache' \in [Savers -> [Threads -> Sessions \cup {None}]]
    BY DEF ThreadTypeOK, Resolved, CallOK
  <1>4. \A d \in Calls : CallOK(d)'
    BY <1>2, CallsOK
  <1>5. request[c].thread \in Threads \cup {None}
    BY DEF ThreadTypeOK, Requests
  <1> QED
    BY <1>2, <1>3, <1>4, <1>5, TablesTyped DEF ThreadTypeOK

(* On to another stage, with the session the call has.                     *)
LEMMA GotoTyped ==
  ASSUME ThreadTypeOK, NEW c \in Calls, Kept,
         NEW stage \in {"label", "create", "page"}, Goto(c, stage),
         stage = "page" => Acting(c), stage # "page" => Resolving(c),
         UNCHANGED <<request, cache, cacheLock, session, known, rows>>,
         anchor' \in [Calls -> Calls \cup {None}]
  PROVE  ThreadTypeOK'
  <1>1. /\ at' \in [Calls -> Stages] /\ CallOK(c)'
        /\ \A d \in Calls : d # c => /\ at'[d] = at[d] /\ request'[d] = request[d]
                                     /\ session'[d] = session[d]
    BY DEF ThreadTypeOK, Goto, Stages, CallOK, Resolving, Acting
  <1>2. \A d \in Calls : CallOK(d)'
    BY <1>1, CallsOK DEF ThreadTypeOK
  <1> QED
    BY <1>1, <1>2 DEF Kept, ThreadTypeOK, Goto

LEMMA ReturnTyped ==
  ASSUME ThreadTypeOK, NEW c \in Calls, Kept \/ Opens(c) \/ Writes(c),
         NEW answer \in Calls \cup {None, Absent, "raised"}, Return(c, answer),
         request' \in [Calls -> Requests], cacheLock' \in [Savers -> Calls \cup {None}],
         session' \in [Calls -> Sessions \cup {None}],
         \A d \in Calls : d # c => request'[d] = request[d] /\ session'[d] = session[d],
         known' \in [Calls -> SUBSET Calls],
         anchor' \in [Calls -> Calls \cup {None}],
         rows' \in [Calls -> SUBSET Calls], UNCHANGED cache
  PROVE  ThreadTypeOK'
  <1>1. /\ at' \in [Calls -> Stages] /\ CallOK(c)'
        /\ result' \in [Calls -> Calls \cup {None, Absent, "raised"}]
        /\ \A d \in Calls : d # c => at'[d] = at[d]
    BY DEF ThreadTypeOK, Return, Stages, CallOK, Resolving, Acting
  <1>2. \A d \in Calls : CallOK(d)'
    BY <1>1, CallsOK
  <1>3. request[c].thread \in Threads \cup {None}
    BY DEF ThreadTypeOK, Requests
  <1> QED
    BY <1>1, <1>2, <1>3, TablesTyped DEF ThreadTypeOK

LEMMA UnlockTyped ==
  ASSUME ThreadTypeOK, NEW c \in Calls, Unlock(c)
  PROVE  cacheLock' \in [Savers -> Calls \cup {None}]
  BY DEF ThreadTypeOK, Unlock

LEMMA StepTyped ==
  ASSUME ThreadTypeOK, NEW c \in Calls, Step(c) \/ Fail(c), ~LockCache(c)
  PROVE  ThreadTypeOK'
  <1>1. Kept \/ Opens(c) \/ Writes(c)
    BY StepTables
  <1>2. CASE ResolvePrefix(c)
    <2> DEFINE found == Prefixed(request[c].thread)
    <2>1. Resolving(c) /\ found \subseteq Sessions /\ Kept
      BY <1>2, CheckpointerAssumption
      DEF ResolvePrefix, Prefixed, Resolving, ThreadTypeOK, CallOK, Kept, vars, listVars
    <2>2. CASE \E s \in found : Resolved(c, s)
      BY <1>2, <2>1, <2>2, ResolvedTyped DEF ResolvePrefix, listVars
    <2>3. CASE (Goto(c, "label") \/ Goto(c, "create")) /\ UNCHANGED <<session, saverVars>>
      BY <1>2, <2>1, <2>3, GotoTyped DEF ResolvePrefix, listVars, saverVars, ThreadTypeOK
    <2> QED
      BY <1>2, <2>2, <2>3 DEF ResolvePrefix
  <1>3. CASE ResolveLabel(c)
    <2>1. Resolving(c) /\ Labelled(request[c].thread) \subseteq Sessions /\ Kept
      BY <1>3 DEF ResolveLabel, Resolving, Labelled, Kept, vars, listVars
    <2>2. CASE \E s \in Labelled(request[c].thread) : Resolved(c, s)
      BY <1>3, <2>1, <2>2, ResolvedTyped DEF ResolveLabel, listVars
    <2>3. CASE Goto(c, "create") /\ UNCHANGED <<session, saverVars>>
      BY <1>3, <2>1, <2>3, GotoTyped DEF ResolveLabel, listVars, saverVars, ThreadTypeOK
    <2> QED
      BY <1>3, <2>2, <2>3 DEF ResolveLabel
  <1>4. CASE CreateThread(c)
    <2>1. Opens(c) /\ Resolving(c) /\ c \in Sessions
      BY <1>4 DEF CreateThread, AddSession, Opens, listVars, Resolving, Sessions
    <2> QED
      BY <1>4, <2>1, ResolvedTyped DEF CreateThread, listVars
  <1>5. CASE Write(c)
    <2>1. PICK answer \in Calls \cup {None, Absent, "raised"} : Return(c, answer)
      BY <1>5 DEF Write
    <2> QED
      BY <1>1, <1>5, <2>1, ReturnTyped DEF Write, saverVars, ThreadTypeOK
  <1>6. CASE Find(c)
    <2>1. /\ db.heads[session[c]] \in Calls \cup {None, Absent}
          /\ Matching(session[c], request[c].checkpoint) \subseteq Calls
      BY <1>6 DEF Find, ThreadTypeOK, CallOK, Acting, Matching, Stored, DB, SnapshotRow
    <2>2. PICK answer \in Calls \cup {None, Absent, "raised"} : Return(c, answer)
      BY <1>6, <2>1 DEF Find
    <2> QED
      BY <1>1, <1>6, <2>2, ReturnTyped DEF Find, saverVars, listVars, ThreadTypeOK
  <1>7. CASE FindAnchor(c)
    <2>1. Matching(session[c], request[c].checkpoint) \subseteq Calls
      BY DEF ThreadTypeOK, Matching, Stored, DB, SnapshotRow
    <2>2. anchor' \in [Calls -> Calls \cup {None}] /\ Acting(c) /\ Kept
      BY <1>7, <2>1 DEF FindAnchor, ThreadTypeOK, Acting, Kept, vars
    <2> QED
      BY <1>7, <2>2, GotoTyped DEF FindAnchor, saverVars
  <1>8. CASE List(c)
    <2>1. /\ Older(session[c], anchor[c]) \subseteq Calls
          /\ \A page \in Newest(Older(session[c], anchor[c]), Limit[c]) : page \subseteq Calls
      BY DEF ThreadTypeOK, Older, Newest, Stored, DB, SnapshotRow
    <2>2. /\ anchor' \in [Calls -> Calls \cup {None}] /\ rows' \in [Calls -> SUBSET Calls]
          /\ UNCHANGED <<request, session, known, cache, cacheLock>> /\ Return(c, None)
      BY <1>8, <2>1 DEF List, ThreadTypeOK, saverVars
    <2> QED
      BY <1>1, <2>2, ReturnTyped DEF ThreadTypeOK
  <1>9. CASE Fail(c)
    <2>1. /\ request' \in [Calls -> Requests]
          /\ \A d \in Calls : d # c => request'[d] = request[d]
      BY <1>9, NoRequestTyped DEF Fail, Forget, ThreadTypeOK
    <2>2. /\ anchor' \in [Calls -> Calls \cup {None}] /\ known' \in [Calls -> SUBSET Calls]
          /\ session' \in [Calls -> Sessions \cup {None}]
          /\ \A d \in Calls : d # c => session'[d] = session[d]
          /\ UNCHANGED <<cache, rows>> /\ Return(c, "raised")
      BY <1>9 DEF Fail, ThreadTypeOK
    <2>3. cacheLock' \in [Savers -> Calls \cup {None}]
      BY <1>9, UnlockTyped DEF Fail
    <2> QED
      BY <1>1, <2>1, <2>2, <2>3, ReturnTyped DEF ThreadTypeOK
  <1> QED
    BY <1>2, <1>3, <1>4, <1>5, <1>6, <1>7, <1>8, <1>9 DEF Step

LEMMA ThreadTyped ==
  ASSUME ThreadTypeOK, [ThreadNext]_threadVars
  PROVE  ThreadTypeOK'
  <1>1. CASE UNCHANGED threadVars \/ Finished
    BY <1>1 DEF threadVars, vars, Finished, ThreadTypeOK, CallOK, Resolving, Acting
  <1>2. CASE Restart
    <2>1. /\ at' \in [Calls -> Stages] /\ \A c \in Calls : at'[c] \in {"idle", "done"}
      BY <1>2 DEF Restart, InProgress, ThreadTypeOK, Stages
    <2>2. \A c \in Calls : CallOK(c)'
      BY <2>1 DEF CallOK, Resolving, Acting
    <2> QED
      BY <1>2, <2>1, <2>2, NoRequestTyped DEF Restart, vars, ThreadTypeOK
  <1> QED
    BY <1>1, <1>2, InvokeTyped, OtherTyped, StepTyped DEF ThreadNext, Step

-----------------------------------------------------------------------------
(***************************************************************************)
(* One session for each thread: only the call that holds the lock of the   *)
(* cache looks a label up and creates a session when none has it.          *)
(***************************************************************************)

(* The call is inside the lock; what it has found so far is still so.      *)
LockOK(c) ==
  /\ at[c] \in {"prefix", "label", "create"} => cacheLock[request[c].saver] = c
  /\ at[c] \in {"label", "create"} /\ Settled(request[c].thread) =>
       ThreadPrefix[request[c].thread] = {}
  /\ at[c] = "create" /\ Settled(request[c].thread) => Labelled(request[c].thread) = {}

Unambiguous ==
  /\ \A t \in Threads : Settled(t) => \A x, y \in Labelled(t) : x = y
  /\ \A s \in InitialSessions : HasSession(db, s) /\ sessionLabel[s] = None

LabelInv == ThreadTypeOK /\ Unambiguous /\ \A c \in Calls : LockOK(c)

(* The sessions of a thread that has none by id.                           *)
LEMMA LabelledKept ==
  ASSUME ThreadTypeOK, NEW c \in Calls, Kept \/ Writes(c)
  PROVE  \A t \in Threads : Labelled(t)' = Labelled(t)
  <1>1. CASE Kept
    BY <1>1 DEF Kept, Labelled, HasSession
  <1>2. CASE Writes(c)
    <2>1. PICK s \in Sessions : Moves(c, s)
      BY <1>2, AdvancedMoves DEF Writes
    <2>2. \A x \in Sessions : HasSession(db', x) <=> HasSession(db, x)
      BY <2>1, DatabaseAssumption DEF Moves, HasSession, ThreadTypeOK, DB
    <2>3. sessionLabel' = sessionLabel
      BY <1>2 DEF Writes
    <2> QED
      BY <2>2, <2>3 DEF Labelled
  <1> QED
    BY <1>1, <1>2

LEMMA LabelledOpens ==
  ASSUME ThreadTypeOK, NEW c \in Calls, Opens(c)
  PROVE  \A t \in Threads : Labelled(t)' = IF t = request[c].thread THEN Labelled(t) \cup {c}
                                                                    ELSE Labelled(t)
  <1>1. /\ ~HasSession(db, c) /\ c \in Sessions
        /\ \A s \in Sessions : HasSession(db', s) <=> HasSession(db, s) \/ s = c
    BY CreateFields DEF Opens, Sessions
  <1>2. \A s \in Sessions :
          sessionLabel'[s] = IF s = c THEN request[c].thread ELSE sessionLabel[s]
    BY DEF Opens, ThreadTypeOK
  <1> QED
    BY <1>1, <1>2 DEF Labelled

(* Inside the lock of the cache.                                           *)
Inside(c) == at[c] \in {"prefix", "label", "create"}

LEMMA OneInside ==
  ASSUME OneSaver, LabelInv, NEW c \in Calls, NEW d \in Calls, Inside(c), Inside(d)
  PROVE  c = d
  <1>1. /\ request[c].saver \in Savers /\ request[d].saver \in Savers
        /\ cacheLock[request[c].saver] = c /\ cacheLock[request[d].saver] = d
    BY DEF LabelInv, ThreadTypeOK, CallOK, Resolving, LockOK, Inside
  <1> QED
    BY <1>1 DEF OneSaver

(* A step of c that leaves the others their lock.                          *)
LEMMA LocksStay ==
  ASSUME OneSaver, LabelInv, ThreadTypeOK', NEW c \in Calls, Kept \/ Opens(c) \/ Writes(c),
         \A d \in Calls : d # c => at'[d] = at[d] /\ request'[d] = request[d],
         \A d \in Calls : d # c /\ Inside(d) =>
           cacheLock'[request[d].saver] = cacheLock[request[d].saver],
         LockOK(c)'
  PROVE  \A d \in Calls : LockOK(d)'
  <1> SUFFICES ASSUME NEW d \in Calls, d # c PROVE LockOK(d)'
    OBVIOUS
  <1>1. at'[d] = at[d] /\ request'[d] = request[d] /\ LockOK(d)
    BY DEF LabelInv
  <1>2. CASE Inside(d)
    <2>1. ~Opens(c)
      BY <1>2, OneInside DEF Opens, Inside
    <2>2. request[d].thread \in Threads
      BY <1>2 DEF Inside, LabelInv, ThreadTypeOK, CallOK, Resolving
    <2>3. Labelled(request[d].thread)' = Labelled(request[d].thread)
      BY <2>1, <2>2, LabelledKept DEF LabelInv
    <2> QED
      BY <1>1, <1>2, <2>3 DEF LockOK
  <1>3. CASE ~Inside(d)
    BY <1>1, <1>3 DEF LockOK, Inside
  <1> QED
    BY <1>2, <1>3

LEMMA LabelsStep ==
  ASSUME OneSaver, LabelInv, ThreadTypeOK', NEW c \in Calls,
         Kept \/ Opens(c) \/ Writes(c), \A d \in Calls : LockOK(d)'
  PROVE  LabelInv'
  <1>1. CASE Opens(c)
    <2>1. /\ request[c].thread \in Threads
          /\ Settled(request[c].thread) => Labelled(request[c].thread) = {}
      BY <1>1 DEF Opens, LabelInv, LockOK, ThreadTypeOK, CallOK, Resolving
    <2>2. \A t \in Threads : Settled(t) => \A x, y \in Labelled(t)' : x = y
      BY <1>1, <2>1, LabelledOpens DEF LabelInv, Unambiguous
    <2>3. \A s \in InitialSessions : HasSession(db', s) /\ sessionLabel'[s] = None
      <3>1. \A s \in Sessions : HasSession(db', s) <=> HasSession(db, s) \/ s = c
        BY <1>1, CreateFields DEF Opens, LabelInv
      <3>2. \A s \in InitialSessions : s \in Sessions /\ s # c /\ sessionLabel'[s] = sessionLabel[s]
        BY <1>1, DatabaseAssumption DEF Opens, LabelInv, ThreadTypeOK, Sessions
      <3> QED
        BY <3>1, <3>2 DEF LabelInv, Unambiguous
    <2> QED
      BY <2>2, <2>3 DEF LabelInv, Unambiguous
  <1>2. CASE Kept \/ Writes(c)
    <2>1. \A t \in Threads : Labelled(t)' = Labelled(t)
      BY <1>2, LabelledKept DEF LabelInv
    <2>2. \A s \in InitialSessions : HasSession(db', s) /\ sessionLabel'[s] = None
      <3>1. sessionLabel' = sessionLabel
        BY <1>2 DEF Kept, Writes
      <3>2. CASE Kept
        BY <3>1, <3>2 DEF LabelInv, Unambiguous, Kept
      <3>3. CASE Writes(c)
        <4>1. PICK s \in Sessions : Moves(c, s)
          BY <3>3, AdvancedMoves DEF Writes, LabelInv
        <4> QED
          BY <3>1, <4>1, DatabaseAssumption
          DEF Moves, LabelInv, Unambiguous, HasSession, ThreadTypeOK, DB, Sessions
      <3> QED
        BY <1>2, <3>2, <3>3
    <2> QED
      BY <2>1, <2>2 DEF LabelInv, Unambiguous
  <1> QED
    BY <1>1, <1>2

LEMMA UnlockOthers ==
  ASSUME LabelInv, NEW c \in Calls, Unlock(c) \/ UNCHANGED cacheLock
  PROVE  \A d \in Calls : d # c /\ Inside(d) =>
           cacheLock'[request[d].saver] = cacheLock[request[d].saver]
  BY DEF Unlock, LabelInv, ThreadTypeOK, CallOK, Resolving, LockOK, Inside

(* What each step does to the lock.                                        *)
LEMMA StepLocks ==
  ASSUME OneSaver, LabelInv, NEW c \in Calls,
         Invoke(c) \/ InvokeRollback(c) \/ Step(c) \/ Fail(c)
  PROVE  /\ \A d \in Calls : d # c => at'[d] = at[d] /\ request'[d] = request[d]
         /\ \A d \in Calls : d # c /\ Inside(d) =>
              cacheLock'[request[d].saver] = cacheLock[request[d].saver]
         /\ LockOK(c)'
  <1>1. ThreadTypeOK /\ LockOK(c) /\ Unambiguous
    BY DEF LabelInv
  <1>2. Act(c) \notin {"prefix", "label", "create"}
    BY DEF Act, ActOf
  <1>3. ASSUME NEW stage, at' = [at EXCEPT ![c] = stage],
               stage \notin {"prefix", "label", "create"},
               Unlock(c) \/ UNCHANGED cacheLock,
               \A d \in Calls : d # c => request'[d] = request[d]
        PROVE  /\ \A d \in Calls : d # c => at'[d] = at[d] /\ request'[d] = request[d]
               /\ \A d \in Calls : d # c /\ Inside(d) =>
                    cacheLock'[request[d].saver] = cacheLock[request[d].saver]
               /\ LockOK(c)'
    BY <1>1, <1>3, UnlockOthers DEF ThreadTypeOK, LockOK
  <1>4. CASE Invoke(c)
    <2>1. PICK op \in {"put", "get", "list"}, v \in Savers, t \in Threads,
               k \in Checkpoints \cup {None} :
            /\ at[c] = "idle"
            /\ op = "put" => k # None
            /\ request' = [request EXCEPT ![c] =
                             [op |-> op, saver |-> v, thread |-> t, checkpoint |-> k]]
            /\ known' = [known EXCEPT ![c] = IF op = "put" THEN {} ELSE Returned(t)]
            /\ session' = [session EXCEPT ![c] = cache[v][t]]
            /\ at' = [at EXCEPT ![c] = IF cache[v][t] = None THEN "lock"
                                       ELSE ActOf(op, k)]
            /\ UNCHANGED <<vars, sessionLabel, saverVars, result, listVars>>
      BY <1>4 DEF Invoke
    <2> DEFINE stage == IF cache[v][t] = None THEN "lock" ELSE ActOf(op, k)
    <2>2. stage \notin {"prefix", "label", "create"}
      BY DEF ActOf
    <2>3. \A d \in Calls : d # c => request'[d] = request[d]
      BY <1>1, <2>1 DEF ThreadTypeOK
    <2>4. UNCHANGED cacheLock /\ at' = [at EXCEPT ![c] = stage]
      BY <2>1 DEF saverVars
    <2> HIDE DEF stage
    <2> QED
      BY <1>3, <2>2, <2>3, <2>4
  <1>5. CASE InvokeRollback(c)
    BY <1>1, <1>3, <1>5 DEF InvokeRollback, Goto, saverVars, ThreadTypeOK
  <1>6. CASE LockCache(c)
    <2> DEFINE v == request[c].saver
               s == cache[v][request[c].thread]
    <2>1. v \in Savers /\ cacheLock[v] = None
      BY <1>1, <1>6 DEF LockCache, ThreadTypeOK, CallOK, Resolving
    <2>2. \A d \in Calls : ~Inside(d)
      BY <2>1, DatabaseAssumption
      DEF OneSaver, LabelInv, LockOK, Inside, ThreadTypeOK, CallOK, Resolving
    <2>3. /\ at' = [at EXCEPT ![c] = IF s = None THEN "prefix" ELSE Act(c)]
          /\ cacheLock' = [cacheLock EXCEPT ![v] = IF s = None THEN c ELSE None]
          /\ request' = request
      BY <1>6 DEF LockCache, Goto
    <2>4. LockOK(c)'
      BY <1>1, <1>2, <2>1, <2>3 DEF ThreadTypeOK, LockOK
    <2> QED
      BY <1>1, <2>2, <2>3, <2>4 DEF ThreadTypeOK
  <1>7. CASE ResolvePrefix(c)
    <2> DEFINE t == request[c].thread
    <2>1. CASE \E s \in Prefixed(t) : Resolved(c, s)
      BY <1>2, <1>3, <1>7, <2>1 DEF ResolvePrefix, Resolved, Goto
    <2>2. at[c] = "prefix" /\ t \in Threads
      BY <1>1, <1>7 DEF ResolvePrefix, ThreadTypeOK, CallOK, Resolving
    <2>3. CASE Prefixed(t) = {} /\ Goto(c, "label") /\ UNCHANGED saverVars
      <3>1. /\ at' = [at EXCEPT ![c] = "label"] /\ UNCHANGED <<cacheLock, request>>
        BY <1>7, <2>3 DEF ResolvePrefix, Goto, saverVars
      <3>2. Settled(t) => ThreadPrefix[t] = {}
        BY <1>1, <2>3 DEF Settled, Prefixed, Unambiguous
      <3> QED
        BY <1>1, <2>2, <3>1, <3>2 DEF LockOK, ThreadTypeOK
    <2>4. CASE /\ \E s, x \in Prefixed(t) : s # x
               /\ Goto(c, "create") /\ UNCHANGED saverVars
      <3>1. /\ at' = [at EXCEPT ![c] = "create"] /\ UNCHANGED <<cacheLock, request>>
        BY <1>7, <2>4 DEF ResolvePrefix, Goto, saverVars
      <3>2. ~Settled(t)
        BY <2>4 DEF Settled, Prefixed
      <3> QED
        BY <1>1, <2>2, <3>1, <3>2 DEF LockOK, ThreadTypeOK
    <2> QED
      BY <1>7, <2>1, <2>3, <2>4 DEF ResolvePrefix
  <1>8. CASE ResolveLabel(c)
    <2> DEFINE t == request[c].thread
    <2>1. CASE \E s \in Labelled(t) : Resolved(c, s)
      BY <1>2, <1>3, <1>8, <2>1 DEF ResolveLabel, Resolved, Goto
    <2>2. CASE Cardinality(Labelled(t)) # 1 /\ Goto(c, "create") /\ UNCHANGED saverVars
      <3>1. /\ at[c] = "label" /\ at' = [at EXCEPT ![c] = "create"] /\ t \in Threads
            /\ UNCHANGED <<cacheLock, request, db, sessionLabel>>
        BY <1>1, <1>8, <2>2
        DEF ResolveLabel, Goto, saverVars, vars, ThreadTypeOK, CallOK, Resolving
      <3>2. Settled(t) => Labelled(t) = {}
        <4> SUFFICES ASSUME Settled(t), NEW s \in Labelled(t) PROVE FALSE
          OBVIOUS
        <4>1. Labelled(t) = {s}
          BY <1>1, <3>1 DEF Unambiguous
        <4> QED
          BY <2>2, <4>1, FS_Singleton
      <3>3. Settled(t) => Labelled(t)' = {}
        BY <3>1, <3>2 DEF Labelled
      <3> QED
        BY <1>1, <3>1, <3>3 DEF LockOK, ThreadTypeOK
    <2> QED
      BY <1>8, <2>1, <2>2 DEF ResolveLabel
  <1>9. CASE CreateThread(c)
    BY <1>2, <1>3, <1>9 DEF CreateThread, Resolved, Goto
  <1>10. CASE Write(c) \/ Find(c) \/ List(c)
    BY <1>3, <1>10 DEF Write, Find, List, Return, saverVars
  <1>11. CASE FindAnchor(c)
    BY <1>3, <1>11 DEF FindAnchor, Goto, saverVars
  <1>12. CASE Fail(c)
    <2>1. \A d \in Calls : d # c => request'[d] = request[d]
      BY <1>1, <1>12 DEF Fail, Forget, ThreadTypeOK
    <2> QED
      BY <1>3, <1>12, <2>1 DEF Fail, Return
  <1> QED
    BY <1>4, <1>5, <1>6, <1>7, <1>8, <1>9, <1>10, <1>11, <1>12 DEF Step

LEMMA LabelInit == ThreadInit => LabelInv
  <1> SUFFICES ASSUME ThreadInit PROVE LabelInv
    OBVIOUS
  <1>1. \A t \in Threads : Labelled(t) = {}
    BY CheckpointerAssumption DEF ThreadInit, Labelled
  <1>2. \A s \in InitialSessions : HasSession(db, s) /\ sessionLabel[s] = None
    BY DatabaseAssumption DEF ThreadInit, Init, EmptyDB, HasSession, Sessions
  <1> QED
    BY <1>1, <1>2, TypeInit DEF ThreadInit, LabelInv, Unambiguous, LockOK

LEMMA LabelNext ==
  ASSUME OneSaver, LabelInv, [ThreadNext]_threadVars
  PROVE  LabelInv'
  <1>1. ThreadTypeOK /\ ThreadTypeOK'
    BY ThreadTyped DEF LabelInv
  <1>2. CASE UNCHANGED threadVars \/ Finished
    BY <1>1, <1>2 DEF Finished, threadVars, vars, LabelInv, Unambiguous, Labelled, LockOK
  <1>3. CASE Restart
    <2>1. \A c \in Calls : at'[c] \in {"idle", "done"}
      BY <1>1, <1>3 DEF Restart, InProgress, ThreadTypeOK, Stages
    <2>2. UNCHANGED <<db, sessionLabel>>
      BY <1>3 DEF Restart, vars
    <2> QED
      BY <1>1, <2>1, <2>2 DEF LabelInv, Unambiguous, Labelled, LockOK
  <1>4. ASSUME NEW c \in Calls, Invoke(c) \/ InvokeRollback(c) \/ Step(c) \/ Fail(c)
        PROVE  LabelInv'
    <2>1. Kept \/ Opens(c) \/ Writes(c)
      BY <1>1, <1>4, StepTables
    <2>2. \A d \in Calls : LockOK(d)'
      BY <1>1, <1>4, <2>1, StepLocks, LocksStay
    <2> QED
      BY <1>1, <2>1, <2>2, LabelsStep
  <1> QED
    BY <1>2, <1>3, <1>4 DEF ThreadNext

(***************************************************************************)
(* A settled thread has at most one session, however many calls meet it at *)
(* once, fail half-way or come after a restart: for any number of calls    *)
(* and threads, settled or not, over one checkpointer.                     *)
(***************************************************************************)
THEOREM ThreadHasOneSession == OneSaver => (ThreadSpec => []OneSession)
  <1> SUFFICES ASSUME OneSaver PROVE ThreadSpec => []OneSession
    OBVIOUS
  <1>1. LabelInv => OneSession
    <2> SUFFICES ASSUME LabelInv, NEW t \in Threads, Settled(t)
                 PROVE  Cardinality(Labelled(t)) <= 1
      BY DEF OneSession
    <2>1. CASE Labelled(t) = {}
      BY <2>1, FS_EmptySet
    <2>2. ASSUME NEW s \in Labelled(t) PROVE Cardinality(Labelled(t)) <= 1
      <3>1. Labelled(t) = {s}
        BY DEF LabelInv, Unambiguous
      <3>2. Cardinality({s}) = 1
        BY FS_Singleton
      <3> QED
        BY <3>1, <3>2
    <2> QED
      BY <2>1, <2>2
  <1>2. LabelInv /\ [ThreadNext]_threadVars => LabelInv'
    BY LabelNext
  <1> QED
    BY <1>1, <1>2, LabelInit, PTL DEF ThreadSpec

-----------------------------------------------------------------------------
(***************************************************************************)
(* The tables: the snapshots of a session are one chain, the ancestors of  *)
(* its head; as long as the clock went forward there, a snapshot is newer  *)
(* than its ancestors.                                                     *)
(***************************************************************************)
HeadLast(s) ==
  /\ db.heads[s] \in Calls => /\ SnapshotIn(db, db.heads[s], s)
                              /\ Ancestry(db, db.heads[s]) = Stored(s)
  /\ db.heads[s] \notin Calls => Stored(s) = {}

RowOK(r) == HasSession(db, r.session) /\ Ancestry(db, r.id) \subseteq Stored(r.session)

OneChain(s) == \A x, y \in Stored(s) : x \in Ancestry(db, y) \/ y \in Ancestry(db, x)

Timely(s) ==
  Forward(s) => \A y \in Stored(s) : \A x \in Ancestry(db, y) : x # y => created[x] < created[y]

TableInv ==
  /\ ThreadTypeOK
  /\ \A r, q \in db.snaps : r.id = q.id => r = q
  /\ \A r \in db.snaps : RowOK(r)
  /\ \A s \in Sessions : HeadLast(s) /\ OneChain(s) /\ Timely(s)

LEMMA RowsTyped ==
  ASSUME ThreadTypeOK
  PROVE  /\ \A r \in db.snaps : r.id \in Calls /\ r.session \in Sessions
         /\ \A s : Stored(s) \subseteq Calls
         /\ \A y, s : y \in Stored(s) <=> \E r \in db.snaps : r.id = y /\ r.session = s
         /\ \A y \in Calls : created[y] \in Nat
  BY DEF ThreadTypeOK, DB, SnapshotRow, Stored

(* Ancestors come from the rows alone.                                     *)
LEMMA SameRows ==
  ASSUME IsFiniteSet(Calls), ThreadTypeOK, db' \in DB, db'.snaps = db.snaps
  PROVE  /\ \A id \in Calls : Ancestry(db', id) = Ancestry(db, id)
         /\ \A s : Stored(s)' = Stored(s)
         /\ \A id, s : SnapshotIn(db', id, s) <=> SnapshotIn(db, id, s)
  <1>1. ASSUME NEW id \in Calls PROVE Ancestry(db', id) = Ancestry(db, id)
    BY AncestryStays DEF ThreadTypeOK
  <1> QED
    BY <1>1 DEF Stored, SnapshotIn

LEMMA OpensTables ==
  ASSUME IsFiniteSet(Calls), TableInv, ThreadTypeOK', NEW c \in Calls, Opens(c)
  PROVE  TableInv'
  <1>1. /\ ~HasSession(db, c) /\ db' \in DB /\ db'.snaps = db.snaps
        /\ db'.heads = [db.heads EXCEPT ![c] = None] /\ created' = created
        /\ \A s \in Sessions : HasSession(db', s) <=> HasSession(db, s) \/ s = c
    BY CreateFields DEF Opens, TableInv
  <1>2. /\ \A id \in Calls : Ancestry(db', id) = Ancestry(db, id)
        /\ \A s : Stored(s)' = Stored(s)
        /\ \A id, s : SnapshotIn(db', id, s) <=> SnapshotIn(db, id, s)
    BY <1>1, SameRows DEF TableInv
  <1>3. ASSUME NEW r \in db'.snaps PROVE RowOK(r)'
    <2>1. r \in db.snaps /\ RowOK(r) /\ r.id \in Calls /\ r.session \in Sessions
      BY <1>1, RowsTyped DEF TableInv
    <2> QED
      BY <1>1, <1>2, <2>1 DEF RowOK
  <1>4. ASSUME NEW s \in Sessions PROVE HeadLast(s)'
    <2>1. CASE s = c
      <3>1. db.heads[c] = Absent /\ db'.heads[c] = None /\ HeadLast(s)
        BY <1>1, <2>1 DEF HasSession, TableInv, ThreadTypeOK, DB
      <3> QED
        BY <1>2, <2>1, <3>1, DatabaseAssumption DEF HeadLast
    <2>2. CASE s # c
      <3>1. db'.heads[s] = db.heads[s] /\ HeadLast(s)
        BY <1>1, <2>2 DEF TableInv, ThreadTypeOK, DB
      <3> QED
        BY <1>1, <1>2, <3>1 DEF HeadLast
    <2> QED
      BY <2>1, <2>2
  <1>5. ASSUME NEW s \in Sessions PROVE OneChain(s)' /\ Timely(s)'
    <2>1. OneChain(s) /\ Timely(s) /\ Stored(s) \subseteq Calls
      BY RowsTyped DEF TableInv
    <2>2. Forward(s)' <=> Forward(s)
      BY <1>1 DEF Forward
    <2>3. OneChain(s)'
      BY <1>2, <2>1 DEF OneChain
    <2>4. Timely(s)'
      BY <1>1, <1>2, <2>1, <2>2 DEF Timely
    <2> QED
      BY <2>3, <2>4
  <1> QED
    BY <1>1, <1>3, <1>4, <1>5 DEF TableInv

(* A new row is of a new id and leaves the ancestors of the others.        *)
LEMMA MovesRows ==
  ASSUME IsFiniteSet(Calls), TableInv, NEW c \in Calls, NEW s \in Sessions, Moves(c, s)
  PROVE  /\ \A q : Stored(q)' = IF q = s THEN Stored(q) \cup {c} ELSE Stored(q)
         /\ \A r \in db.snaps : /\ r.id # c /\ created'[r.id] = created[r.id]
                                /\ Ancestry(db', r.id) = Ancestry(db, r.id)
         /\ \A q : Forward(q)' => Forward(q)
  <1>1. /\ db'.snaps = db.snaps \cup {NewRow(c, s)} /\ NewRow(c, s) \notin db.snaps
        /\ NewRow(c, s).id = c /\ NewRow(c, s).session = s
    BY DEF Moves, NewRow, HasSnapshot
  <1>2. \A q : Stored(q)' = IF q = s THEN Stored(q) \cup {c} ELSE Stored(q)
    BY <1>1 DEF Stored
  <1>3. \A r \in db.snaps : r.id # c /\ r.id \in Calls /\ created'[r.id] = created[r.id]
    BY RowsTyped DEF Moves, HasSnapshot, TableInv
  <1>4. ASSUME NEW r \in db.snaps PROVE Ancestry(db', r.id) = Ancestry(db, r.id)
    <2>1. c \notin Ancestry(db, r.id)
      BY <1>3 DEF TableInv, RowOK, Stored
    <2>2. \A q \in db'.snaps : q \in db.snaps \/ q.id \notin Ancestry(db, r.id)
      BY <1>1, <2>1
    <2>3. db \in DB /\ db' \in DB /\ db.snaps \subseteq db'.snaps
      BY <1>1 DEF Moves, TableInv, ThreadTypeOK
    <2> QED
      BY <1>3, <2>2, <2>3, AncestryStays
  <1>5. \A q : Forward(q)' => Forward(q)
    BY <1>1, <1>3 DEF Forward
  <1> QED
    BY <1>2, <1>3, <1>4, <1>5

(* Its ancestors are all of its session.                                   *)
LEMMA NewAncestry ==
  ASSUME IsFiniteSet(Calls), TableInv, NEW c \in Calls, NEW s \in Sessions, Moves(c, s)
  PROVE  Ancestry(db', c) = Stored(s) \cup {c}
  <1> DEFINE S == Stored(s) \cup {c}
             A == Ancestry(db', c)
             p == db.heads[s]
  <1>1. /\ db' \in DB /\ db \in DB /\ db'.snaps = db.snaps \cup {NewRow(c, s)}
        /\ NewRow(c, s).id = c /\ NewRow(c, s).session = s /\ NewRow(c, s).parent = p
        /\ p \in Calls \cup {None} /\ HeadLast(s)
    BY DEF Moves, NewRow, TableInv, ThreadTypeOK, DB, HasSession
  <1>2. \A r \in db.snaps : r.id # c /\ Ancestry(db', r.id) = Ancestry(db, r.id)
    BY MovesRows
  <1>3. ASSUME NEW r \in db.snaps, r.id \in Stored(s), r.parent # None
        PROVE  r.parent \in Stored(s)
    <2>1. r.session = s /\ r.id \in Calls
      BY <1>3, RowsTyped DEF TableInv
    <2>2. r.parent \in Parents(db, Ancestry(db, r.id))
      BY <1>1, <1>3, <2>1, AncestryClosed DEF Parents
    <2>3. r.parent \in Ancestry(db, r.id)
      BY <1>1, <2>1, <2>2, AncestryClosed DEF Closed
    <2> QED
      BY <2>1, <2>3 DEF TableInv, RowOK
  <1>4. p # None => p \in Stored(s) /\ Stored(s) = Ancestry(db, p)
    BY <1>1, RowsTyped DEF HeadLast, SnapshotIn, TableInv
  <1>5. A \subseteq S
    <2>1. ASSUME NEW r \in db'.snaps, r.id \in S, r.parent # None PROVE r.parent \in S
      BY <1>1, <1>2, <1>3, <1>4, <2>1
    <2>2. Closed(db', S)
      <3> HIDE DEF S
      <3> QED
        BY <2>1 DEF Closed, Parents
    <2> QED
      BY <2>2, AncestryLeast
  <1>6. S \subseteq A
    <2>1. c \in A /\ Closed(db', A)
      BY <1>1, AncestryClosed
    <2>2. CASE p = None
      BY <1>1, <2>1, <2>2, DatabaseAssumption DEF HeadLast
    <2>3. CASE p # None
      <3>1. p \in Parents(db', A)
        BY <1>1, <2>1, <2>3 DEF Parents
      <3>2. p \in A
        BY <2>1, <3>1 DEF Closed
      <3>3. Ancestry(db', p) \subseteq A
        <4> HIDE DEF A, p
        <4> QED
          BY <2>1, <3>2, AncestryLeast
      <3>4. Ancestry(db', p) = Stored(s)
        BY <1>2, <1>4, <2>3 DEF Stored
      <3> QED
        BY <2>1, <3>3, <3>4
    <2> QED
      BY <2>2, <2>3
  <1> QED
    BY <1>5, <1>6

(* The last snapshot is newer than all before it when the clock went       *)
(* forward up to it.                                                       *)
LEMMA NewIsNewest ==
  ASSUME IsFiniteSet(Calls), TableInv, NEW c \in Calls, NEW s \in Sessions, Moves(c, s),
         ThreadTypeOK', Forward(s)', NEW x \in Stored(s)
  PROVE  created'[x] < created'[c]
  <1> DEFINE p == db.heads[s]
  <1>1. /\ HeadLast(s) /\ Timely(s) /\ Forward(s)
        /\ \A r \in db.snaps : created'[r.id] = created[r.id]
    BY MovesRows DEF TableInv
  <1>2. p \in Calls /\ Stored(s) = Ancestry(db, p)
    BY <1>1 DEF HeadLast
  <1>3. PICK r \in db.snaps : r.id = p /\ r.session = s
    BY <1>1, <1>2 DEF HeadLast, SnapshotIn
  <1>4. created'[p] < created'[c]
    <2>1. /\ r \in db'.snaps /\ NewRow(c, s) \in db'.snaps
          /\ NewRow(c, s).id = c /\ NewRow(c, s).session = s /\ NewRow(c, s).parent = r.id
      BY <1>3 DEF Moves, NewRow
    <2> QED
      BY <1>3, <2>1 DEF Forward
  <1>5. x = p \/ created[x] < created[p]
    BY <1>1, <1>2, <1>3, RowsTyped DEF Timely, TableInv
  <1>6. PICK q \in db.snaps : q.id = x
    BY RowsTyped DEF TableInv
  <1>7. /\ created'[x] = created[x] /\ created'[p] = created[p]
        /\ created[x] \in Nat /\ created[p] \in Nat /\ created'[c] \in Nat
    BY <1>1, <1>2, <1>3, <1>6, RowsTyped DEF TableInv, ThreadTypeOK
  <1> QED
    BY <1>4, <1>5, <1>7

LEMMA WritesTables ==
  ASSUME IsFiniteSet(Calls), TableInv, ThreadTypeOK', NEW c \in Calls, Writes(c)
  PROVE  TableInv'
  <1>1. PICK s \in Sessions : Moves(c, s)
    BY AdvancedMoves DEF Writes, TableInv
  <1>2. /\ \A q : Stored(q)' = IF q = s THEN Stored(q) \cup {c} ELSE Stored(q)
        /\ \A r \in db.snaps : /\ r.id # c /\ created'[r.id] = created[r.id]
                               /\ Ancestry(db', r.id) = Ancestry(db, r.id)
        /\ \A q : Forward(q)' => Forward(q)
        /\ Ancestry(db', c) = Stored(s) \cup {c}
    BY <1>1, MovesRows, NewAncestry
  <1>3. /\ db'.snaps = db.snaps \cup {NewRow(c, s)}
        /\ NewRow(c, s).id = c /\ NewRow(c, s).session = s
        /\ db'.heads = [db.heads EXCEPT ![s] = c]
        /\ \A q \in Sessions : HasSession(db, q) => HasSession(db', q)
        /\ HasSession(db', s)
    BY <1>1, DatabaseAssumption DEF Moves, NewRow, TableInv, ThreadTypeOK, DB, HasSession
  <1>4. /\ \A r \in db.snaps : r.id \in Calls /\ r.session \in Sessions
        /\ \A q : Stored(q) \subseteq Calls
        /\ \A y, q : y \in Stored(q) <=> \E r \in db.snaps : r.id = y /\ r.session = q
    BY RowsTyped DEF TableInv
  <1>5. \A q : \A y \in Stored(q) : /\ y # c /\ created'[y] = created[y]
                                    /\ Ancestry(db', y) = Ancestry(db, y)
                                    /\ Ancestry(db, y) \subseteq Stored(q)
    BY <1>2, <1>4 DEF TableInv, RowOK
  <1>6. ASSUME NEW r \in db'.snaps, NEW q \in db'.snaps, r.id = q.id
        PROVE  r = q
    BY <1>2, <1>3, <1>6 DEF TableInv
  <1>7. ASSUME NEW r \in db'.snaps PROVE RowOK(r)'
    <2>1. CASE r \in db.snaps
      <3>1. /\ r.session \in Sessions /\ RowOK(r)
            /\ Ancestry(db', r.id) = Ancestry(db, r.id)
        BY <1>2, <1>4, <2>1 DEF TableInv
      <3> QED
        BY <1>2, <1>3, <3>1 DEF RowOK
    <2>2. CASE r = NewRow(c, s)
      BY <1>2, <1>3, <2>2 DEF RowOK
    <2> QED
      BY <1>3, <2>1, <2>2
  <1>8. ASSUME NEW q \in Sessions PROVE HeadLast(q)'
    <2>1. CASE q = s
      <3>1. db'.heads[s] = c /\ SnapshotIn(db', c, s)
        BY <1>3 DEF TableInv, ThreadTypeOK, DB, SnapshotIn
      <3> QED
        BY <1>2, <2>1, <3>1 DEF HeadLast
    <2>2. CASE q # s
      <3>1. db'.heads[q] = db.heads[q] /\ Stored(q)' = Stored(q) /\ HeadLast(q)
        BY <1>2, <1>3, <2>2 DEF TableInv, ThreadTypeOK, DB
      <3>2. SnapshotIn(db, db.heads[q], q) => /\ SnapshotIn(db', db.heads[q], q)
                                              /\ db.heads[q] \in Stored(q)
        BY <1>3 DEF SnapshotIn, Stored
      <3> QED
        BY <1>5, <3>1, <3>2 DEF HeadLast
    <2> QED
      BY <2>1, <2>2
  <1>9. ASSUME NEW q \in Sessions PROVE OneChain(q)'
    <2> SUFFICES ASSUME NEW x \in Stored(q)', NEW y \in Stored(q)'
                 PROVE  x \in Ancestry(db', y) \/ y \in Ancestry(db', x)
      BY DEF OneChain
    <2>1. CASE x \in Stored(q) /\ y \in Stored(q)
      BY <1>5, <2>1 DEF TableInv, OneChain
    <2>2. CASE q = s /\ (x = c \/ y = c)
      BY <1>2, <2>2
    <2> QED
      BY <1>2, <2>1, <2>2
  <1>10. ASSUME NEW q \in Sessions PROVE Timely(q)'
    <2> SUFFICES ASSUME Forward(q)', NEW y \in Stored(q)', NEW x \in Ancestry(db', y), x # y
                 PROVE  created'[x] < created'[y]
      BY DEF Timely
    <2>1. CASE y \in Stored(q)
      <3>1. Timely(q) /\ Forward(q) /\ x \in Ancestry(db, y) /\ x \in Stored(q)
        BY <1>2, <1>5, <2>1 DEF TableInv
      <3> QED
        BY <1>5, <2>1, <3>1 DEF Timely
    <2>2. CASE q = s /\ y = c
      BY <1>1, <1>2, <2>2, NewIsNewest
    <2> QED
      BY <1>2, <2>1, <2>2
  <1> QED
    BY <1>6, <1>7, <1>8, <1>9, <1>10 DEF TableInv

LEMMA TableInit == ThreadInit => TableInv
  <1> SUFFICES ASSUME ThreadInit PROVE TableInv
    OBVIOUS
  <1>1. ThreadTypeOK /\ db.snaps = {} /\ \A s \in Sessions : db.heads[s] \in {None, Absent}
    BY TypeInit DEF ThreadInit, Init, EmptyDB
  <1>2. \A s : Stored(s) = {}
    BY <1>1 DEF Stored
  <1> QED
    BY <1>1, <1>2, DatabaseAssumption DEF TableInv, HeadLast, OneChain, Timely

LEMMA TableNext ==
  ASSUME IsFiniteSet(Calls), TableInv, [ThreadNext]_threadVars
  PROVE  TableInv'
  <1>1. ThreadTypeOK /\ ThreadTypeOK'
    BY ThreadTyped DEF TableInv
  <1>2. CASE Kept
    <2>1. db' = db /\ created' = created
      BY <1>2 DEF Kept
    <2>2. \A s : Stored(s)' = Stored(s) /\ (Forward(s)' <=> Forward(s))
      BY <2>1 DEF Stored, Forward
    <2> QED
      BY <1>1, <2>1, <2>2 DEF TableInv, RowOK, HeadLast, OneChain, Timely
  <1>3. ASSUME NEW c \in Calls, Invoke(c) \/ InvokeRollback(c) \/ Step(c) \/ Fail(c)
        PROVE  TableInv'
    BY <1>1, <1>2, <1>3, StepTables, OpensTables, WritesTables
  <1> QED
    BY <1>2, <1>3 DEF ThreadNext, Restart, Finished, threadVars, vars, Kept

-----------------------------------------------------------------------------
(***************************************************************************)
(* The calls: each is on the session of its thread.                        *)
(***************************************************************************)

(* s is a session of t: by its id, or by its label unless t has one by id. *)
IsHome(t, s) ==
  s \in ThreadPrefix[t] \/ (s \in Labelled(t) /\ (Settled(t) => ThreadPrefix[t] = {}))

CacheOK ==
  \A v \in Savers, t \in Threads :
    cache[v][t] # None => IsHome(t, cache[v][t])

ShapeOK(c) ==
  /\ Resolving(c) => request[c].op \in {"put", "get", "list"}
  /\ at[c] = "write" => request[c].op \in {"put", "rollback"}
  /\ at[c] = "write" /\ request[c].op = "rollback" => request[c].checkpoint = None
  /\ (Resolving(c) \/ at[c] = "write") /\ request[c].op = "put" =>
       request[c].checkpoint # None
  /\ at[c] = "find" => request[c].op \in {"get", "list"}
  /\ at[c] = "find" /\ request[c].op = "list" => request[c].checkpoint # None
  /\ at[c] = "page" => request[c].op = "list"
  /\ at[c] # "page" => anchor[c] = None

OnHome(c) ==
  Acting(c) /\ request[c].op # "rollback" =>
    /\ request[c].thread \in Threads
    /\ IsHome(request[c].thread, session[c])

HomeInv == LabelInv /\ CacheOK /\ \A c \in Calls : ShapeOK(c) /\ OnHome(c)

(* No step takes a label away, so only more threads come to share.         *)
LEMMA LabelledGrows ==
  ASSUME ThreadTypeOK, NEW c \in Calls, Kept \/ Opens(c) \/ Writes(c), NEW t
  PROVE  Labelled(t) \subseteq Labelled(t)'
  <1>1. CASE Kept
    BY <1>1 DEF Kept, Labelled, HasSession
  <1>2. CASE Writes(c)
    <2>1. PICK s \in Sessions : Moves(c, s)
      BY <1>2, AdvancedMoves DEF Writes
    <2>2. \A x \in Sessions : HasSession(db', x) <=> HasSession(db, x)
      BY <2>1, DatabaseAssumption DEF Moves, HasSession, ThreadTypeOK, DB
    <2> QED
      BY <1>2, <2>2 DEF Writes, Labelled
  <1>3. CASE Opens(c)
    <2>1. /\ ~HasSession(db, c)
          /\ \A s \in Sessions : HasSession(db', s) <=> HasSession(db, s) \/ s = c
      BY <1>3, CreateFields DEF Opens
    <2>2. \A s \in Sessions : s # c => sessionLabel'[s] = sessionLabel[s]
      BY <1>3 DEF Opens, ThreadTypeOK
    <2> QED
      BY <2>1, <2>2 DEF Labelled
  <1> QED
    BY <1>1, <1>2, <1>3

LEMMA SeparateStays ==
  ASSUME ThreadTypeOK, NEW c \in Calls, Kept \/ Opens(c) \/ Writes(c), NEW t, Separate(t)'
  PROVE  Separate(t)
  BY LabelledGrows DEF Separate, Settled, Home

(* A session stays that of its thread.                                     *)
LEMMA HomeStays ==
  ASSUME ThreadTypeOK, NEW c \in Calls, Kept \/ Opens(c) \/ Writes(c),
         NEW t \in Threads, NEW s, IsHome(t, s)
  PROVE  IsHome(t, s)'
  <1>1. Labelled(t) \subseteq Labelled(t)'
    BY LabelledKept, LabelledOpens
  <1> QED
    BY <1>1 DEF IsHome

(* A settled thread has one session, a separate one has it alone.          *)
LEMMA OneHome ==
  ASSUME LabelInv, NEW t \in Threads, Settled(t), NEW s, IsHome(t, s), NEW x, IsHome(t, x)
  PROVE  s = x
  BY DEF LabelInv, Unambiguous, IsHome, Settled

LEMMA OneThread ==
  ASSUME LabelInv, NEW t \in Threads, Separate(t), NEW u \in Threads,
         NEW s, IsHome(t, s), IsHome(u, s)
  PROVE  t = u
  <1> SUFFICES ASSUME t # u PROVE FALSE
    OBVIOUS
  <1>1. s \in Home(t) /\ Settled(t)
    BY DEF Separate, Settled, IsHome, Home
  <1>2. s \notin ThreadPrefix[u] /\ s \in Labelled(u)
    BY <1>1 DEF Separate, IsHome
  <1>3. CASE s \in Labelled(t)
    BY <1>2, <1>3 DEF Labelled
  <1>4. CASE ThreadPrefix[t] = {s}
    <2>1. s \in InitialSessions /\ sessionLabel[s] = u
      BY <1>1, <1>2, <1>4 DEF Settled, Labelled
    <2> QED
      BY <2>1, CheckpointerAssumption DEF LabelInv, Unambiguous
  <1> QED
    BY <1>1, <1>3, <1>4 DEF Home, Settled

(* A step of c changes the entries of c only.                              *)
LEMMA OthersStay ==
  ASSUME ThreadTypeOK, NEW c \in Calls,
         Invoke(c) \/ InvokeRollback(c) \/ Step(c) \/ Fail(c)
  PROVE  \A d \in Calls : d # c =>
           /\ at'[d] = at[d] /\ request'[d] = request[d] /\ session'[d] = session[d]
           /\ result'[d] = result[d] /\ known'[d] = known[d]
           /\ anchor'[d] = anchor[d] /\ rows'[d] = rows[d]
  <1>1. CASE Invoke(c)
    BY <1>1 DEF Invoke, listVars, ThreadTypeOK
  <1>2. CASE InvokeRollback(c)
    BY <1>2 DEF InvokeRollback, Goto, listVars, ThreadTypeOK
  <1>3. CASE LockCache(c)
    BY <1>3 DEF LockCache, Goto, listVars, ThreadTypeOK
  <1>4. CASE ResolvePrefix(c)
    BY <1>4 DEF ResolvePrefix, Resolved, Goto, listVars, ThreadTypeOK
  <1>5. CASE ResolveLabel(c)
    BY <1>5 DEF ResolveLabel, Resolved, Goto, listVars, ThreadTypeOK
  <1>6. CASE CreateThread(c)
    BY <1>6 DEF CreateThread, Resolved, Goto, listVars, ThreadTypeOK
  <1>7. CASE Write(c)
    BY <1>7 DEF Write, Return, ThreadTypeOK
  <1>8. CASE Find(c)
    BY <1>8 DEF Find, Return, listVars, ThreadTypeOK
  <1>9. CASE FindAnchor(c)
    BY <1>9 DEF FindAnchor, Goto, ThreadTypeOK
  <1>10. CASE List(c)
    BY <1>10 DEF List, Return, ThreadTypeOK
  <1>11. CASE Fail(c)
    BY <1>11 DEF Fail, Forget, Return, ThreadTypeOK
  <1> QED
    BY <1>1, <1>2, <1>3, <1>4, <1>5, <1>6, <1>7, <1>8, <1>9, <1>10, <1>11 DEF Step

(* A call whose thread is resolved goes on to its query or its write.      *)
LEMMA ToHome ==
  ASSUME HomeInv, ThreadTypeOK', NEW c \in Calls, Resolving(c), NEW s,
         IsHome(request[c].thread, s)', session'[c] = s,
         at'[c] = Act(c), UNCHANGED <<request, anchor>>
  PROVE  ShapeOK(c)' /\ OnHome(c)'
  <1>1. /\ request[c].thread \in Threads /\ request[c].op \in {"put", "get", "list"}
        /\ anchor[c] = None
        /\ request[c].op = "put" => request[c].checkpoint # None
    BY DEF HomeInv, LabelInv, ThreadTypeOK, CallOK, ShapeOK, Resolving
  <1>2. /\ Act(c) = "write" => request[c].op = "put"
        /\ Act(c) = "find" => request[c].op # "put"
        /\ Act(c) = "find" /\ request[c].op = "list" => request[c].checkpoint # None
        /\ Act(c) = "page" => request[c].op = "list"
        /\ Act(c) \in {"write", "find", "page"}
    BY <1>1 DEF Act, ActOf
  <1>3. ShapeOK(c)'
    BY <1>1, <1>2 DEF ShapeOK, Resolving
  <1> QED
    BY <1>1, <1>3 DEF OnHome

LEMMA CacheStays ==
  ASSUME HomeInv, NEW c \in Calls, Kept \/ Opens(c) \/ Writes(c), UNCHANGED cache
  PROVE  CacheOK'
  <1>1. \A t \in Threads : \A s : IsHome(t, s) => IsHome(t, s)'
    BY HomeStays DEF HomeInv, LabelInv
  <1> QED
    BY <1>1 DEF HomeInv, CacheOK

(* A call found its session, by id, by label or by creating it.            *)
LEMMA ResolvedHome ==
  ASSUME HomeInv, ThreadTypeOK', NEW c \in Calls, Kept \/ Opens(c), Resolving(c),
         NEW s, Resolved(c, s), IsHome(request[c].thread, s)',
         UNCHANGED <<request, anchor>>
  PROVE  ShapeOK(c)' /\ OnHome(c)' /\ CacheOK'
  <1>1. session'[c] = s /\ at'[c] = Act(c)
    BY DEF Resolved, Goto, HomeInv, LabelInv, ThreadTypeOK
  <1>2. CacheOK'
    <2>1. ASSUME NEW v \in Savers, NEW t \in Threads, NEW x, x = cache'[v][t], x # None
          PROVE  IsHome(t, x)'
      <3>1. CASE v = request[c].saver /\ t = request[c].thread
        <4>1. x = s
          BY <2>1, <3>1 DEF Resolved, HomeInv, LabelInv, ThreadTypeOK
        <4> QED
          BY <2>1, <3>1, <4>1 DEF IsHome
      <3>2. CASE ~(v = request[c].saver /\ t = request[c].thread)
        <4>1. x = cache[v][t]
          BY <2>1, <3>2 DEF Resolved, HomeInv, LabelInv, ThreadTypeOK
        <4>2. IsHome(t, x)
          BY <2>1, <4>1 DEF HomeInv, CacheOK
        <4> QED
          BY <4>2, HomeStays DEF HomeInv, LabelInv
      <3> QED
        BY <3>1, <3>2
    <2> QED
      BY <2>1 DEF CacheOK, IsHome
  <1> QED
    BY <1>1, <1>2, ToHome

LEMMA StepHome ==
  ASSUME HomeInv, ThreadTypeOK', NEW c \in Calls,
         Invoke(c) \/ InvokeRollback(c) \/ Step(c) \/ Fail(c)
  PROVE  ShapeOK(c)' /\ OnHome(c)' /\ CacheOK'
  <1>1. /\ ThreadTypeOK /\ LockOK(c) /\ ShapeOK(c) /\ OnHome(c) /\ CallOK(c)
        /\ Kept \/ Opens(c) \/ Writes(c)
    BY StepTables DEF HomeInv, LabelInv, ThreadTypeOK
  <1>2. ASSUME Kept PROVE \A t \in Threads : \A s : IsHome(t, s) => IsHome(t, s)'
    BY <1>1, <1>2, HomeStays
  <1>3. ASSUME at'[c] = "done", anchor'[c] = None PROVE ShapeOK(c)' /\ OnHome(c)'
    BY <1>3 DEF ShapeOK, OnHome, Resolving, Acting
  <1>4. CASE Invoke(c)
    <2>1. PICK op \in {"put", "get", "list"}, v \in Savers, t \in Threads,
               k \in Checkpoints \cup {None} :
            /\ at[c] = "idle"
            /\ op = "put" => k # None
            /\ request' = [request EXCEPT ![c] =
                             [op |-> op, saver |-> v, thread |-> t, checkpoint |-> k]]
            /\ known' = [known EXCEPT ![c] = IF op = "put" THEN {} ELSE Returned(t)]
            /\ session' = [session EXCEPT ![c] = cache[v][t]]
            /\ at' = [at EXCEPT ![c] = IF cache[v][t] = None THEN "lock"
                                       ELSE ActOf(op, k)]
            /\ UNCHANGED <<vars, sessionLabel, saverVars, result, listVars>>
      BY <1>4 DEF Invoke
    <2> DEFINE rec == [op |-> op, saver |-> v, thread |-> t, checkpoint |-> k]
    <2>2. rec.op = op /\ rec.thread = t /\ rec.checkpoint = k
      OBVIOUS
    <2>3. /\ Kept /\ UNCHANGED <<cache, anchor>> /\ anchor[c] = None
          /\ op = "put" => k # None
      BY <1>1, <2>1 DEF Kept, vars, saverVars, listVars, ShapeOK
    <2>4. /\ request'[c] = rec /\ session'[c] = cache[v][t]
          /\ at'[c] = IF cache[v][t] = None THEN "lock" ELSE ActOf(op, k)
      BY <1>1, <2>1 DEF ThreadTypeOK
    <2> HIDE DEF rec
    <2>5. cache[v][t] # None => IsHome(t, cache[v][t])'
      BY <1>2, <2>3 DEF HomeInv, CacheOK
    <2>6. /\ ActOf(op, k) = "write" => op = "put"
          /\ ActOf(op, k) = "find" => op # "put"
          /\ ActOf(op, k) = "find" /\ op = "list" => k # None
          /\ ActOf(op, k) = "page" => op = "list"
          /\ ActOf(op, k) \in {"write", "find", "page"}
      BY DEF ActOf
    <2>7. ShapeOK(c)'
      BY <2>2, <2>3, <2>4, <2>6 DEF ShapeOK, Resolving
    <2>8. OnHome(c)'
      BY <2>2, <2>3, <2>4, <2>5 DEF OnHome, Acting, IsHome
    <2> QED
      BY <1>1, <2>3, <2>7, <2>8, CacheStays
  <1>5. CASE InvokeRollback(c)
    <2>1. /\ at'[c] = "write" /\ request'[c] = [NoRequest EXCEPT !.op = "rollback"]
          /\ Kept /\ UNCHANGED <<cache, anchor>> /\ anchor[c] = None
      BY <1>1, <1>5 DEF InvokeRollback, Goto, Kept, vars, saverVars, listVars, ShapeOK,
                        ThreadTypeOK
    <2>2. request'[c].op = "rollback" /\ request'[c].checkpoint = None
      BY <2>1 DEF NoRequest
    <2>3. ShapeOK(c)' /\ OnHome(c)'
      BY <2>1, <2>2 DEF ShapeOK, OnHome, Resolving
    <2> QED
      BY <1>1, <2>1, <2>3, CacheStays
  <1>6. CASE LockCache(c)
    <2> DEFINE v == request[c].saver
               t == request[c].thread
               s == cache[v][t]
    <2>1. /\ Resolving(c) /\ v \in Savers /\ t \in Threads /\ Kept
          /\ UNCHANGED <<cache, request, anchor>>
          /\ session'[c] = s /\ at'[c] = IF s = None THEN "prefix" ELSE Act(c)
      BY <1>1, <1>6 DEF LockCache, Goto, Resolving, CallOK, ThreadTypeOK, Kept, vars, listVars
    <2>2. CASE s = None
      <3>1. ShapeOK(c)' /\ OnHome(c)'
        BY <1>1, <2>1, <2>2 DEF ShapeOK, OnHome, Resolving, Acting
      <3> QED
        BY <1>1, <2>1, <3>1, CacheStays
    <2>3. CASE s # None
      <3>1. IsHome(t, s)'
        BY <1>2, <2>1, <2>3 DEF HomeInv, CacheOK
      <3>2. IsHome(request[c].thread, cache[request[c].saver][request[c].thread])'
        BY <2>1, <3>1
      <3>3. ShapeOK(c)' /\ OnHome(c)'
        BY <2>1, <2>3, <3>1, <3>2, ToHome
      <3> QED
        BY <1>1, <2>1, <3>3, CacheStays
    <2> QED
      BY <2>2, <2>3
  <1>7. CASE ResolvePrefix(c)
    <2> DEFINE t == request[c].thread
    <2>1. Resolving(c) /\ Kept /\ t \in Threads /\ UNCHANGED <<request, anchor>>
      BY <1>1, <1>7 DEF ResolvePrefix, Resolving, CallOK, Kept, vars, listVars
    <2>2. ASSUME NEW s \in Prefixed(t), Resolved(c, s)
          PROVE  ShapeOK(c)' /\ OnHome(c)' /\ CacheOK'
      <3>1. s \in ThreadPrefix[t]
        BY DEF Prefixed
      <3>2. IsHome(request[c].thread, s)'
        <4>1. request' = request
          BY <2>1
        <4> QED
          BY <3>1, <4>1 DEF IsHome
      <3> QED
        BY <2>1, <2>2, <3>2, ResolvedHome
    <2>3. CASE (Goto(c, "label") \/ Goto(c, "create")) /\ UNCHANGED saverVars
      <3>1. at[c] = "prefix" /\ at'[c] \in {"label", "create"} /\ UNCHANGED cache
        BY <1>1, <1>7, <2>3 DEF ResolvePrefix, Goto, saverVars, ThreadTypeOK
      <3>2. ShapeOK(c)' /\ OnHome(c)'
        BY <1>1, <2>1, <3>1 DEF ShapeOK, OnHome, Resolving, Acting
      <3> QED
        BY <1>1, <2>1, <3>1, <3>2, CacheStays
    <2> QED
      BY <1>7, <2>2, <2>3 DEF ResolvePrefix
  <1>8. CASE ResolveLabel(c)
    <2> DEFINE t == request[c].thread
    <2>1. /\ Resolving(c) /\ Kept /\ t \in Threads /\ UNCHANGED <<request, anchor>>
          /\ Settled(t) => ThreadPrefix[t] = {}
      BY <1>1, <1>8 DEF ResolveLabel, Resolving, CallOK, Kept, vars, listVars, LockOK
    <2>2. ASSUME NEW s \in Labelled(t), Resolved(c, s)
          PROVE  ShapeOK(c)' /\ OnHome(c)' /\ CacheOK'
      <3>1. IsHome(t, s)
        BY <2>1, <2>2 DEF IsHome
      <3>2. IsHome(request[c].thread, s)'
        BY <1>2, <2>1, <3>1
      <3> QED
        BY <2>1, <2>2, <3>2, ResolvedHome
    <2>3. CASE Goto(c, "create") /\ UNCHANGED saverVars
      <3>1. at[c] = "label" /\ at'[c] = "create" /\ UNCHANGED cache
        BY <1>1, <1>8, <2>3 DEF ResolveLabel, Goto, saverVars, ThreadTypeOK
      <3>2. ShapeOK(c)' /\ OnHome(c)'
        BY <1>1, <2>1, <3>1 DEF ShapeOK, OnHome, Resolving, Acting
      <3> QED
        BY <1>1, <2>1, <3>1, <3>2, CacheStays
    <2> QED
      BY <1>8, <2>2, <2>3 DEF ResolveLabel
  <1>9. CASE CreateThread(c)
    <2> DEFINE t == request[c].thread
    <2>1. /\ Resolving(c) /\ Opens(c) /\ t \in Threads /\ UNCHANGED <<request, anchor>>
          /\ Settled(t) => ThreadPrefix[t] = {}
          /\ Resolved(c, c)
      BY <1>1, <1>9 DEF CreateThread, AddSession, Opens, Resolving, CallOK, listVars, LockOK
    <2>2. c \in Labelled(t)'
      BY <1>1, <2>1, LabelledOpens
    <2>3. IsHome(request[c].thread, c)'
      BY <2>1, <2>2 DEF IsHome
    <2> QED
      BY <2>1, <2>3, ResolvedHome
  <1>10. CASE Write(c) \/ Find(c) \/ List(c) \/ Fail(c)
    <2>1. at'[c] = "done" /\ anchor'[c] = None /\ UNCHANGED cache
      BY <1>1, <1>10 DEF Write, Find, List, Fail, Return, ShapeOK, saverVars, listVars,
                         ThreadTypeOK
    <2> QED
      BY <1>1, <1>3, <2>1, CacheStays
  <1>11. CASE FindAnchor(c)
    <2>1. /\ at[c] = "find" /\ at'[c] = "page" /\ request[c].op = "list" /\ Kept
          /\ UNCHANGED <<request, session, cache>>
      BY <1>1, <1>11 DEF FindAnchor, Goto, Kept, vars, saverVars, ThreadTypeOK
    <2>2. ShapeOK(c)'
      BY <2>1 DEF ShapeOK, Resolving
    <2>3. OnHome(c)'
      BY <1>1, <1>2, <2>1 DEF OnHome, Acting
    <2> QED
      BY <1>1, <2>1, <2>2, <2>3, CacheStays
  <1> QED
    BY <1>4, <1>5, <1>6, <1>7, <1>8, <1>9, <1>10, <1>11 DEF Step

LEMMA HomeInit == ThreadInit => HomeInv
  BY LabelInit DEF ThreadInit, HomeInv, CacheOK, ShapeOK, OnHome, Resolving, Acting

LEMMA HomeNext ==
  ASSUME OneSaver, HomeInv, [ThreadNext]_threadVars
  PROVE  HomeInv'
  <1>1. LabelInv' /\ ThreadTypeOK /\ ThreadTypeOK'
    BY LabelNext, ThreadTyped DEF HomeInv, LabelInv
  <1>2. CASE UNCHANGED threadVars \/ Finished
    BY <1>1, <1>2 DEF Finished, threadVars, vars, HomeInv, CacheOK, ShapeOK, OnHome, IsHome,
                      Labelled, Resolving, Acting
  <1>3. CASE Restart
    <2>1. \A c \in Calls : at'[c] \in {"idle", "done"} /\ anchor'[c] = None
      BY <1>1, <1>3 DEF Restart, InProgress, ThreadTypeOK, Stages
    <2>2. CacheOK'
      BY <1>3 DEF Restart, CacheOK
    <2> QED
      BY <1>1, <2>1, <2>2 DEF HomeInv, ShapeOK, OnHome, Resolving, Acting
  <1>4. ASSUME NEW c \in Calls, Invoke(c) \/ InvokeRollback(c) \/ Step(c) \/ Fail(c)
        PROVE  HomeInv'
    <2>1. Kept \/ Opens(c) \/ Writes(c)
      BY <1>1, <1>4, StepTables
    <2>2. ASSUME NEW d \in Calls, d # c PROVE ShapeOK(d)' /\ OnHome(d)'
      <3>1. /\ at'[d] = at[d] /\ request'[d] = request[d] /\ session'[d] = session[d]
            /\ anchor'[d] = anchor[d] /\ ShapeOK(d) /\ OnHome(d)
        BY <1>1, <1>4, <2>2, OthersStay DEF HomeInv
      <3>2. ShapeOK(d)'
        BY <3>1 DEF ShapeOK, Resolving
      <3>3. OnHome(d)'
        BY <1>1, <2>1, <3>1, HomeStays DEF OnHome, Acting
      <3> QED
        BY <3>2, <3>3
    <2> QED
      BY <1>1, <1>4, <2>2, StepHome DEF HomeInv
  <1> QED
    BY <1>2, <1>3, <1>4 DEF ThreadNext

-----------------------------------------------------------------------------
(***************************************************************************)
(* The snapshots and what was known of them: each was written for the      *)
(* session it is in, and the calls that wrote them do not change any more. *)
(***************************************************************************)
RowPut(r) ==
  /\ at[r.id] = "done"
  /\ request[r.id].op \in {"put", "rollback"}
  /\ request[r.id].op = "rollback" => request[r.id].checkpoint = None
  /\ request[r.id].op = "put" => /\ request[r.id].checkpoint # None
                                 /\ request[r.id].thread \in Threads
                                 /\ IsHome(request[r.id].thread, r.session)

PutTo(p, t) ==
  at[p] = "done" /\ request[p].op = "put" /\ request[p].thread = t /\ HasSnapshot(db, p)

KnownOK(c) ==
  /\ at[c] = "idle" => known[c] = {}
  /\ \A p \in known[c] : PutTo(p, request[c].thread)
  /\ result[c] \in Calls => HasSnapshot(db, result[c])

PutsInv ==
  HomeInv /\ TableInv /\ (\A r \in db.snaps : RowPut(r)) /\ (\A c \in Calls : KnownOK(c))

(* What no step takes back.                                                *)
Steady ==
  /\ \A d \in Calls : at[d] = "done" =>
       /\ at'[d] = "done" /\ request'[d] = request[d] /\ result'[d] = result[d]
       /\ known'[d] = known[d] /\ rows'[d] = rows[d] /\ session'[d] = session[d]
  /\ \A s : Forward(s)' => Forward(s)
  /\ \A t : Separate(t)' => Separate(t)
  /\ \A r \in db.snaps : /\ r \in db'.snaps /\ created'[r.id] = created[r.id]
                         /\ Ancestry(db', r.id) = Ancestry(db, r.id)

LEMMA StepSteady ==
  ASSUME IsFiniteSet(Calls), TableInv, [ThreadNext]_threadVars
  PROVE  Steady
  <1>1. ThreadTypeOK
    BY DEF TableInv
  <1>2. CASE UNCHANGED threadVars \/ Finished
    BY <1>2 DEF Finished, threadVars, vars, Steady, Forward, Separate, Home, Labelled
  <1>3. CASE Restart
    <2>1. \A t : Separate(t)' => Separate(t)
      BY <1>3 DEF Restart, vars, Separate, Home, Labelled
    <2> QED
      BY <1>1, <1>3, <2>1 DEF Restart, vars, InProgress, Steady, Forward, ThreadTypeOK
  <1>4. ASSUME NEW c \in Calls, Invoke(c) \/ InvokeRollback(c) \/ Step(c) \/ Fail(c)
        PROVE  Steady
    <2>1. at[c] # "done"
      BY <1>4 DEF Invoke, InvokeRollback, Step, LockCache, ResolvePrefix, ResolveLabel,
                  CreateThread, Write, Find, FindAnchor, List, Fail, InProgress
    <2>2. ASSUME NEW r \in db.snaps
          PROVE  /\ r \in db'.snaps /\ created'[r.id] = created[r.id]
                 /\ Ancestry(db', r.id) = Ancestry(db, r.id)
      <3>1. CASE Kept
        BY <3>1 DEF Kept
      <3>2. CASE Opens(c)
        <4>1. db' \in DB /\ db'.snaps = db.snaps /\ created' = created
          BY <1>1, <3>2, CreateFields DEF Opens
        <4> QED
          BY <1>1, <4>1, SameRows, RowsTyped
      <3>3. CASE Writes(c)
        <4>1. PICK s \in Sessions : Moves(c, s)
          BY <1>1, <3>3, AdvancedMoves DEF Writes
        <4> QED
          BY <4>1, MovesRows DEF Moves
      <3> QED
        BY <1>1, <1>4, <3>1, <3>2, <3>3, StepTables
    <2>3. \A s : Forward(s)' => Forward(s)
      <3>1. db.snaps \subseteq db'.snaps
        BY <2>2
      <3> QED
        BY <2>2, <3>1 DEF Forward
    <2>4. \A d \in Calls : at[d] = "done" =>
            /\ at'[d] = "done" /\ request'[d] = request[d] /\ result'[d] = result[d]
            /\ known'[d] = known[d] /\ rows'[d] = rows[d] /\ session'[d] = session[d]
      BY <1>1, <1>4, <2>1, OthersStay
    <2>5. \A t : Separate(t)' => Separate(t)
      BY <1>1, <1>4, StepTables, SeparateStays
    <2> QED
      BY <2>2, <2>3, <2>4, <2>5 DEF Steady
  <1> QED
    BY <1>2, <1>3, <1>4 DEF ThreadNext

(* A write is on the session of the call.                                  *)
LEMMA WritesOwn ==
  ASSUME TableInv, NEW c \in Calls, Writes(c)
  PROVE  Moves(c, session[c])
  <1>1. /\ \E s \in Sessions : Moves(c, s)
        /\ db'.heads[session[c]] = c /\ session[c] \in Sessions
    BY AdvancedMoves DEF Writes, TableInv, ThreadTypeOK, CallOK, Acting
  <1>2. PICK s \in Sessions : Moves(c, s)
    BY <1>1
  <1>3. ASSUME s # session[c] PROVE FALSE
    <2>1. db.heads[session[c]] = c
      BY <1>1, <1>2, <1>3 DEF Moves, TableInv, ThreadTypeOK, DB
    <2>2. HasSnapshot(db, c)
      BY <1>1, <2>1 DEF TableInv, HeadLast, SnapshotIn, HasSnapshot
    <2> QED
      BY <1>2, <2>2 DEF Moves
  <1> QED
    BY <1>2, <1>3

LEMMA RowsPut ==
  ASSUME IsFiniteSet(Calls), PutsInv, TableInv', NEW c \in Calls,
         Invoke(c) \/ InvokeRollback(c) \/ Step(c) \/ Fail(c), Steady
  PROVE  \A r \in db'.snaps : RowPut(r)'
  <1>1. ThreadTypeOK /\ (Kept \/ Opens(c) \/ Writes(c))
    BY StepTables DEF PutsInv, TableInv
  <1>2. ASSUME NEW r \in db.snaps PROVE RowPut(r)'
    <2>1. RowPut(r) /\ r.id \in Calls /\ at'[r.id] = "done" /\ request'[r.id] = request[r.id]
      BY <1>1, RowsTyped DEF PutsInv, RowPut, Steady
    <2>2. ASSUME NEW t \in Threads, IsHome(t, r.session) PROVE IsHome(t, r.session)'
      BY <1>1, <2>2, HomeStays
    <2> QED
      BY <2>1, <2>2 DEF RowPut, IsHome
  <1>3. CASE Kept \/ Opens(c)
    <2>1. db'.snaps = db.snaps
      BY <1>1, <1>3, CreateFields DEF Kept, Opens
    <2> QED
      BY <1>2, <2>1
  <1>4. CASE Writes(c)
    <2> DEFINE s == session[c]
               t == request[c].thread
    <2>1. /\ db'.snaps = db.snaps \cup {NewRow(c, s)}
          /\ NewRow(c, s).id = c /\ NewRow(c, s).session = s
      BY <1>4, WritesOwn DEF PutsInv, Moves, NewRow
    <2>2. /\ request'[c] = request[c] /\ at'[c] = "done" /\ request[c].op \in {"put", "rollback"}
          /\ request[c].op = "rollback" => request[c].checkpoint = None
          /\ request[c].op = "put" => /\ t \in Threads /\ IsHome(t, s)
                                      /\ request[c].checkpoint # None
      BY <1>4 DEF Writes, PutsInv, HomeInv, ShapeOK, OnHome, Acting
    <2>3. ASSUME NEW x, IsHome(t, x), t \in Threads PROVE IsHome(t, x)'
      BY <1>1, <2>2, <2>3, LabelledKept, <1>4 DEF IsHome
    <2>4. ASSUME NEW r, r = NewRow(c, s) PROVE RowPut(r)'
      <3>1. r.id = c /\ r.session = s
        BY <2>1, <2>4
      <3>2. request[c].op = "put" => t \in Threads /\ IsHome(t, r.session)
        BY <2>2, <3>1
      <3>3. request[c].op = "put" => t \in Threads /\ IsHome(t, r.session)'
        BY <3>2, <2>3
      <3> QED
        BY <2>2, <3>1, <3>3 DEF RowPut, IsHome
    <2> QED
      BY <1>2, <2>1, <2>4
  <1> QED
    BY <1>1, <1>3, <1>4

LEMMA PutStays ==
  ASSUME Steady, NEW p \in Calls, NEW t, PutTo(p, t)
  PROVE  PutTo(p, t)'
  BY DEF Steady, PutTo, HasSnapshot

LEMMA KnownOthers ==
  ASSUME ThreadTypeOK, Steady, NEW d \in Calls, KnownOK(d),
         at'[d] = "idle" => at[d] = "idle",
         known'[d] = known[d], result'[d] = result[d],
         request'[d] = request[d] \/ known[d] = {}
  PROVE  KnownOK(d)'
  <1>1. ASSUME NEW p \in known[d] PROVE PutTo(p, request[d].thread)'
    <2>1. p \in Calls /\ PutTo(p, request[d].thread)
      BY DEF ThreadTypeOK, KnownOK
    <2>2. ASSUME NEW t, t = request[d].thread PROVE PutTo(p, t)'
      BY <2>1, <2>2, PutStays
    <2>3. request'[d] = request[d]
      OBVIOUS
    <2> QED
      BY <2>2, <2>3 DEF PutTo
  <1>2. result'[d] \in Calls => HasSnapshot(db', result'[d])
    BY DEF KnownOK, HasSnapshot, Steady
  <1> QED
    BY <1>1, <1>2 DEF KnownOK

LEMMA StepKnown ==
  ASSUME PutsInv, Steady, NEW c \in Calls,
         Invoke(c) \/ InvokeRollback(c) \/ Step(c) \/ Fail(c)
  PROVE  KnownOK(c)'
  <1>1. ThreadTypeOK /\ KnownOK(c) /\ ShapeOK(c) /\ OnHome(c) /\ CallOK(c)
    BY DEF PutsInv, TableInv, HomeInv, ThreadTypeOK
  <1>2. HasSnapshot(db, result[c]) => HasSnapshot(db', result[c])
    BY DEF HasSnapshot, Steady
  <1>3. CASE Invoke(c)
    <2>1. PICK op \in {"put", "get", "list"}, v \in Savers, t \in Threads,
               k \in Checkpoints \cup {None} :
            /\ at[c] = "idle"
            /\ op = "put" => k # None
            /\ request' = [request EXCEPT ![c] =
                             [op |-> op, saver |-> v, thread |-> t, checkpoint |-> k]]
            /\ known' = [known EXCEPT ![c] = IF op = "put" THEN {} ELSE Returned(t)]
            /\ session' = [session EXCEPT ![c] = cache[v][t]]
            /\ at' = [at EXCEPT ![c] = IF cache[v][t] = None THEN "lock"
                                       ELSE ActOf(op, k)]
            /\ UNCHANGED <<vars, sessionLabel, saverVars, result, listVars>>
      BY <1>3 DEF Invoke
    <2>2. /\ request'[c].thread = t /\ known'[c] \subseteq Returned(t)
          /\ at'[c] # "idle" /\ result'[c] = result[c]
      BY <1>1, <2>1 DEF ThreadTypeOK, ActOf
    <2>3. ASSUME NEW p \in Returned(t) PROVE PutTo(p, t)'
      <3>1. p \in Calls /\ PutTo(p, t)
        BY DEF Returned, PutTo, PutsInv, KnownOK
      <3> QED
        BY <3>1, PutStays
    <2> QED
      BY <1>1, <1>2, <2>2, <2>3 DEF KnownOK, PutTo
  <1>4. CASE InvokeRollback(c)
    <2>1. /\ at[c] = "idle" /\ at'[c] # "idle" /\ known'[c] = known[c] /\ result'[c] = result[c]
      BY <1>1, <1>4 DEF InvokeRollback, Goto, ThreadTypeOK
    <2> QED
      BY <1>1, <2>1, KnownOthers DEF KnownOK
  <1>5. CASE \/ LockCache(c) \/ ResolvePrefix(c) \/ ResolveLabel(c) \/ CreateThread(c)
             \/ FindAnchor(c)
    <2>1. UNCHANGED <<request, known, result>> /\ at'[c] # "idle"
      BY <1>1, <1>5 DEF LockCache, ResolvePrefix, ResolveLabel, CreateThread, FindAnchor,
                        Resolved, Goto, Act, ActOf, ThreadTypeOK
    <2> QED
      BY <1>1, <2>1, KnownOthers
  <1>6. ASSUME UNCHANGED <<request, known>>, at'[c] = "done",
               result'[c] \in Calls => HasSnapshot(db', result'[c])
        PROVE  KnownOK(c)'
    <2>1. \A p \in known[c] : PutTo(p, request[c].thread) /\ p \in Calls
      BY <1>1 DEF KnownOK, ThreadTypeOK
    <2>2. ASSUME NEW t, t = request[c].thread PROVE \A p \in known[c] : PutTo(p, t)'
      BY <2>1, <2>2, PutStays
    <2>3. \A p \in known[c] : PutTo(p, request[c].thread)'
      BY <1>6, <2>2 DEF PutTo
    <2> QED
      BY <1>6, <2>3 DEF KnownOK
  <1>7. CASE Write(c)
    <2>1. UNCHANGED <<request, known>> /\ at'[c] = "done"
      BY <1>1, <1>7 DEF Write, Return, ThreadTypeOK
    <2>2. CASE Advanced(c) /\ Return(c, c)
      <3>1. result'[c] = c
        BY <1>1, <2>2 DEF Return, ThreadTypeOK
      <3>2. PICK s \in Sessions : Moves(c, s)
        BY <1>1, <2>2, AdvancedMoves
      <3>3. HasSnapshot(db', c)
        BY <3>2 DEF Moves, NewRow, HasSnapshot
      <3> QED
        BY <1>6, <2>1, <3>1, <3>3
    <2>3. CASE Return(c, "raised")
      BY <1>1, <1>6, <2>1, <2>3, CheckpointerAssumption DEF Return, ThreadTypeOK
    <2> QED
      BY <1>7, <2>2, <2>3 DEF Write
  <1>8. CASE Find(c)
    <2>1. UNCHANGED <<request, known, db>> /\ at'[c] = "done" /\ session[c] \in Sessions
      BY <1>1, <1>8 DEF Find, Return, ThreadTypeOK, vars, CallOK, Acting
    <2>2. ASSUME NEW x, Return(c, x), x \in Calls => HasSnapshot(db, x)
          PROVE  KnownOK(c)'
      <3>1. result'[c] = x
        BY <1>1, <2>2 DEF Return, ThreadTypeOK
      <3> QED
        BY <1>6, <2>1, <2>2, <3>1
    <2>3. db.heads[session[c]] \in Calls => HasSnapshot(db, db.heads[session[c]])
      BY <2>1 DEF PutsInv, TableInv, HeadLast, SnapshotIn, HasSnapshot
    <2>4. \A k : \A x \in Matching(session[c], k) : HasSnapshot(db, x)
      BY DEF Matching, Stored, HasSnapshot
    <2> QED
      BY <1>8, <2>2, <2>3, <2>4, DatabaseAssumption DEF Find
  <1>9. CASE List(c)
    <2>1. UNCHANGED <<request, known, db>> /\ at'[c] = "done" /\ result'[c] = None
      BY <1>1, <1>9 DEF List, Return, ThreadTypeOK, vars
    <2> QED
      BY <1>6, <2>1, DatabaseAssumption
  <1>10. CASE Fail(c)
    BY <1>1, <1>10, CheckpointerAssumption DEF Fail, Return, KnownOK, ThreadTypeOK
  <1> QED
    BY <1>3, <1>4, <1>5, <1>7, <1>8, <1>9, <1>10 DEF Step

LEMMA PutsInit == ThreadInit => PutsInv
  BY TableInit, HomeInit, DatabaseAssumption
  DEF ThreadInit, PutsInv, Init, EmptyDB, KnownOK

LEMMA PutsNext ==
  ASSUME OneSaver, IsFiniteSet(Calls), PutsInv, [ThreadNext]_threadVars
  PROVE  PutsInv' /\ Steady
  <1>1. /\ HomeInv' /\ TableInv' /\ Steady /\ ThreadTypeOK /\ ThreadTypeOK'
    BY HomeNext, TableNext, StepSteady, ThreadTyped DEF PutsInv, TableInv
  <1>2. CASE UNCHANGED threadVars \/ Finished
    BY <1>1, <1>2 DEF Finished, threadVars, vars, PutsInv, RowPut, KnownOK, PutTo, IsHome,
                      Labelled
  <1>3. CASE Restart
    <2>1. /\ UNCHANGED <<db, sessionLabel>>
          /\ \A d \in Calls : at[d] # "done" =>
               at'[d] \in {"idle", "done"} /\ (at'[d] = "done" => known'[d] = {})
          /\ \A d \in Calls : at'[d] = "idle" => at[d] = "idle"
      BY <1>1, <1>3 DEF Restart, InProgress, ThreadTypeOK, vars
    <2>2. ASSUME NEW r \in db'.snaps PROVE RowPut(r)'
      <3>1. RowPut(r) /\ r.id \in Calls /\ at'[r.id] = "done" /\ request'[r.id] = request[r.id]
        BY <1>1, <2>1, RowsTyped DEF PutsInv, RowPut, Steady
      <3> QED
        BY <2>1, <3>1 DEF RowPut, IsHome, Labelled
    <2>3. ASSUME NEW d \in Calls PROVE KnownOK(d)'
      <3>1. CASE InProgress(d)
        <4>1. at'[d] = "done" /\ known'[d] = {} /\ result'[d] = "raised"
          BY <1>3, <3>1 DEF Restart
        <4> QED
          BY <4>1, CheckpointerAssumption DEF KnownOK
      <3>2. CASE ~InProgress(d)
        <4>1. /\ at'[d] = at[d] /\ known'[d] = known[d] /\ result'[d] = result[d]
              /\ request'[d] = request[d] /\ KnownOK(d)
          BY <1>3, <3>2 DEF Restart, PutsInv
        <4> QED
          BY <1>1, <4>1, KnownOthers
      <3> QED
        BY <3>1, <3>2
    <2> QED
      BY <1>1, <2>2, <2>3 DEF PutsInv
  <1>4. ASSUME NEW c \in Calls, Invoke(c) \/ InvokeRollback(c) \/ Step(c) \/ Fail(c)
        PROVE  PutsInv'
    <2>1. \A r \in db'.snaps : RowPut(r)'
      BY <1>1, <1>4, RowsPut
    <2>2. ASSUME NEW d \in Calls, d # c PROVE KnownOK(d)'
      <3>1. /\ at'[d] = at[d] /\ known'[d] = known[d] /\ result'[d] = result[d]
            /\ request'[d] = request[d] /\ KnownOK(d)
        BY <1>1, <1>4, <2>2, OthersStay DEF PutsInv
      <3> QED
        BY <1>1, <3>1, KnownOthers
    <2>3. KnownOK(c)'
      BY <1>1, <1>4, StepKnown
    <2> QED
      BY <1>1, <2>1, <2>2, <2>3 DEF PutsInv
  <1> QED
    BY <1>1, <1>2, <1>3, <1>4 DEF ThreadNext

-----------------------------------------------------------------------------
(***************************************************************************)
(* Reads.                                                                  *)
(***************************************************************************)

(* What is known of a settled thread is in the session the call is on.     *)
LEMMA KnownHere ==
  ASSUME PutsInv, NEW c \in Calls, Acting(c), request[c].op # "rollback",
         Settled(request[c].thread)
  PROVE  known[c] \subseteq Stored(session[c])
  <1> SUFFICES ASSUME NEW p \in known[c] PROVE p \in Stored(session[c])
    OBVIOUS
  <1>1. PutTo(p, request[c].thread)
    BY DEF PutsInv, KnownOK
  <1>2. PICK r \in db.snaps : r.id = p
    BY <1>1 DEF PutTo, HasSnapshot
  <1>3. /\ request[c].thread \in Threads /\ IsHome(request[c].thread, r.session)
        /\ IsHome(request[c].thread, session[c])
    BY <1>1, <1>2 DEF PutsInv, RowPut, PutTo, HomeInv, OnHome
  <1>4. r.session = session[c]
    BY <1>3, OneHome DEF PutsInv, HomeInv
  <1> QED
    BY <1>2, <1>4 DEF Stored

Found(c) == request[c].op = "get" /\ at[c] = "done" /\ result[c] # "raised"

Latest(c) ==
  Found(c) /\ request[c].checkpoint = None /\ known[c] # {} /\ Settled(request[c].thread) =>
    result[c] \in Calls /\ known[c] \subseteq Ancestry(db, result[c])

Own(c) ==
  LET k == request[c].checkpoint
      t == request[c].thread
  IN  Found(c) /\ k # None =>
        /\ result[c] = None /\ Settled(t) => \A p \in known[c] : request[p].checkpoint # k
        /\ result[c] # None => result[c] \in Calls /\ request[result[c]].checkpoint = k
        /\ result[c] # None /\ Separate(t) => request[result[c]].thread = t

(* What alist pages before.                                                *)
Anchored(c) ==
  LET k == request[c].checkpoint IN
  at[c] = "page" =>
    /\ k = None => anchor[c] = None
    /\ k # None /\ Settled(request[c].thread) /\ (\E p \in known[c] : request[p].checkpoint = k) =>
         SnapshotIn(db, anchor[c], session[c]) /\ request[anchor[c]].checkpoint = k

(* A page of the chain of parents that ends at p, and of the one before p. *)
PagedTo(c, p) == HasSnapshot(db, p) /\ PageOf(rows[c], Ancestry(db, p), Limit[c])
PagedBefore(c, p) == HasSnapshot(db, p) /\ PageOf(rows[c], Ancestry(db, p) \ {p}, Limit[c])

ListedAll(c) ==
  request[c].checkpoint = None /\ known[c] # {} =>
    \E h \in Calls : known[c] \subseteq Ancestry(db, h) /\ PagedTo(c, h)

ListedOlder(c) ==
  LET k == request[c].checkpoint IN
  (\E p \in known[c] : request[p].checkpoint = k) =>
    \E p \in Calls : /\ request[p].op = "put" /\ request[p].checkpoint = k
                    /\ request[p].thread = request[c].thread
                    /\ PagedBefore(c, p)

Listed(c) ==
  request[c].op = "list" /\ at[c] = "done" /\ result[c] # "raised"
    /\ Separate(request[c].thread) /\ Forward(session[c]) => ListedAll(c) /\ ListedOlder(c)

LEMMA PagesStay ==
  ASSUME PutsInv, Steady, NEW c \in Calls, at[c] = "done", NEW p \in Calls, HasSnapshot(db, p)
  PROVE  /\ HasSnapshot(db', p) /\ request'[p] = request[p]
         /\ Ancestry(db', p) = Ancestry(db, p)
         /\ PagedTo(c, p) => PagedTo(c, p)'
         /\ PagedBefore(c, p) => PagedBefore(c, p)'
  <1>1. PICK r \in db.snaps : r.id = p
    BY DEF HasSnapshot
  <1>2. /\ HasSnapshot(db', p) /\ request'[p] = request[p] /\ rows'[c] = rows[c]
        /\ Ancestry(db', p) = Ancestry(db, p)
    BY <1>1 DEF HasSnapshot, Steady, PutsInv, RowPut
  <1>3. ASSUME NEW x \in Ancestry(db, p) PROVE Ancestry(db', x) = Ancestry(db, x)
    <2>1. x \in Stored(r.session)
      BY <1>1, <1>3 DEF PutsInv, TableInv, RowOK
    <2> QED
      BY <2>1 DEF Stored, Steady
  <1>4. PagedTo(c, p) => PagedTo(c, p)'
    BY <1>2, <1>3 DEF PagedTo, PageOf
  <1>5. PagedBefore(c, p) => PagedBefore(c, p)'
    BY <1>2, <1>3 DEF PagedBefore, PageOf
  <1> QED
    BY <1>2, <1>4, <1>5

(* What a finished call has seen stays so.                                 *)
LEMMA ReadsStay ==
  ASSUME PutsInv, Steady, NEW c \in Calls, at[c] = "done"
  PROVE  /\ Latest(c) => Latest(c)'
         /\ Own(c) => Own(c)'
         /\ Listed(c) => Listed(c)'
  <1>1. /\ at'[c] = "done" /\ request'[c] = request[c] /\ result'[c] = result[c]
        /\ known'[c] = known[c] /\ rows'[c] = rows[c]
    BY DEF Steady
  <1>2. \A p \in Calls : HasSnapshot(db, p) =>
          /\ HasSnapshot(db', p) /\ request'[p] = request[p]
          /\ Ancestry(db', p) = Ancestry(db, p)
    BY DEF HasSnapshot, Steady, PutsInv, RowPut
  <1>3. /\ \A p \in known[c] : request'[p] = request[p] /\ p \in Calls
        /\ \A t : Separate(t)' => Separate(t)
        /\ result[c] \in Calls => HasSnapshot(db, result[c])
    BY DEF PutsInv, TableInv, ThreadTypeOK, KnownOK, PutTo, Steady
  <1>4. Latest(c) => Latest(c)'
    BY <1>1, <1>2, <1>3 DEF Latest, Found
  <1>5. Own(c) => Own(c)'
    BY <1>1, <1>2, <1>3 DEF Own, Found
  <1>6. Listed(c) => Listed(c)'
    <2> SUFFICES ASSUME Listed(c), request[c].op = "list", result[c] # "raised",
                        Separate(request[c].thread), Forward(session[c])
                 PROVE  ListedAll(c)' /\ ListedOlder(c)'
      <3>1. session'[c] = session[c] /\ \A s : Forward(s)' => Forward(s)
        BY DEF Steady
      <3> QED
        BY <1>1, <1>3, <3>1 DEF Listed
    <2>1. ListedAll(c) /\ ListedOlder(c)
      BY DEF Listed
    <2>2. ASSUME request[c].checkpoint = None, known[c] # {}
          PROVE  \E h \in Calls : known[c] \subseteq Ancestry(db', h) /\ PagedTo(c, h)'
      <3>1. PICK h \in Calls : known[c] \subseteq Ancestry(db, h) /\ PagedTo(c, h)
        BY <2>1, <2>2 DEF ListedAll
      <3> QED
        BY <3>1, PagesStay DEF PagedTo
    <2>3. ASSUME NEW q \in known[c], request[q].checkpoint = request[c].checkpoint
          PROVE  \E p \in Calls : /\ request'[p].op = "put"
                                  /\ request'[p].checkpoint = request[c].checkpoint
                                  /\ request'[p].thread = request[c].thread
                                  /\ PagedBefore(c, p)'
      <3>1. PICK p \in Calls : /\ request[p].op = "put"
                               /\ request[p].checkpoint = request[c].checkpoint
                               /\ request[p].thread = request[c].thread
                               /\ PagedBefore(c, p)
        BY <2>1, <2>3 DEF ListedOlder
      <3> QED
        BY <3>1, PagesStay DEF PagedBefore
    <2>4. ListedAll(c)'
      BY <1>1, <2>2 DEF ListedAll
    <2>5. ListedOlder(c)'
      BY <1>1, <1>3, <2>3 DEF ListedOlder
    <2> QED
      BY <2>4, <2>5
  <1> QED
    BY <1>4, <1>5, <1>6

(***************************************************************************)
(* aget_tuple.                                                             *)
(***************************************************************************)
LEMMA FindLatest ==
  ASSUME PutsInv, Steady, NEW c \in Calls, Find(c)
  PROVE  Latest(c)'
  <1>1. ThreadTypeOK /\ Acting(c) /\ session[c] \in Sessions /\ request[c].op = "get"
    BY DEF Find, PutsInv, TableInv, ThreadTypeOK, Acting, CallOK
  <1>2. UNCHANGED <<request, known, db>>
    BY DEF Find, vars
  <1> SUFFICES ASSUME request[c].checkpoint = None, known[c] # {}, Settled(request[c].thread)
               PROVE  result'[c] \in Calls /\ known[c] \subseteq Ancestry(db, result'[c])
    BY <1>2 DEF Latest
  <1> DEFINE h == db.heads[session[c]]
  <1>3. known[c] \subseteq Stored(session[c])
    BY <1>1, KnownHere
  <1>4. h \in Calls /\ HeadLast(session[c])
    BY <1>1, <1>3 DEF PutsInv, TableInv, HeadLast
  <1>5. Ancestry(db, h) = Stored(session[c])
    BY <1>4 DEF HeadLast
  <1>6. result'[c] = h
    BY <1>1 DEF Find, Return, ThreadTypeOK
  <1> QED
    BY <1>3, <1>4, <1>5, <1>6

LEMMA FindOwn ==
  ASSUME PutsInv, Steady, NEW c \in Calls, Find(c)
  PROVE  Own(c)'
  <1>1. ThreadTypeOK /\ Acting(c) /\ session[c] \in Sessions /\ request[c].op = "get"
    BY DEF Find, PutsInv, TableInv, ThreadTypeOK, Acting, CallOK
  <1>2. UNCHANGED <<request, known, db>>
    BY DEF Find, vars
  <1> DEFINE k == request[c].checkpoint
             t == request[c].thread
             s == session[c]
  <1> SUFFICES ASSUME k # None
               PROVE  /\ result'[c] = None /\ Settled(t) =>
                           \A p \in known[c] : request[p].checkpoint # k
                      /\ result'[c] # None => /\ result'[c] \in Calls
                                              /\ request[result'[c]].checkpoint = k
                      /\ result'[c] # None /\ Separate(t) => request[result'[c]].thread = t
    <2>1. \A u : Separate(u)' => Separate(u)
      BY DEF Steady
    <2> QED
      BY <1>2, <2>1 DEF Own
  <1>3. Stored(s) \subseteq Calls /\ (Settled(t) => known[c] \subseteq Stored(s))
    BY <1>1, KnownHere, RowsTyped
  <1>4. CASE Matching(s, k) = {} /\ Return(c, None)
    <2>1. result'[c] = None
      BY <1>1, <1>4 DEF Return, ThreadTypeOK
    <2> QED
      BY <1>3, <1>4, <2>1 DEF Matching
  <1>5. ASSUME NEW x \in Matching(s, k), Return(c, x)
        PROVE  /\ result'[c] \in Calls /\ request[result'[c]].checkpoint = k
               /\ Separate(t) => request[result'[c]].thread = t
    <2>1. result'[c] = x
      BY <1>1, <1>5 DEF Return, ThreadTypeOK
    <2>2. PICK r \in db.snaps : r.id = x /\ r.session = s
      BY <1>5 DEF Matching, Stored
    <2>3. request[x].checkpoint = k /\ request[x].op = "put"
      BY <1>5, <2>2 DEF Matching, PutsInv, RowPut
    <2>4. ASSUME Separate(t) PROVE request[x].thread = t
      <3>1. /\ request[x].thread \in Threads /\ IsHome(request[x].thread, s)
            /\ t \in Threads /\ IsHome(t, s)
        BY <1>1, <2>2, <2>3, <2>4 DEF PutsInv, RowPut, HomeInv, OnHome, Separate
      <3> QED
        BY <2>4, <3>1, OneThread DEF PutsInv, HomeInv
    <2> QED
      BY <1>3, <1>5, <2>1, <2>3, <2>4 DEF Matching
  <1>6. \/ Matching(s, k) = {} /\ Return(c, None)
        \/ \E x \in Matching(s, k) : Return(c, x)
    BY DEF Find
  <1> QED
    BY <1>3, <1>4, <1>5, <1>6, DatabaseAssumption

(* No other step finishes a read.                                          *)
LEMMA StepFound ==
  ASSUME PutsInv, NEW c \in Calls, Invoke(c) \/ InvokeRollback(c) \/ Step(c) \/ Fail(c), ~Find(c)
  PROVE  ~Found(c)'
  <1>1. ThreadTypeOK /\ ShapeOK(c)
    BY DEF PutsInv, TableInv, HomeInv
  <1>2. CASE Invoke(c) \/ InvokeRollback(c)
    <2>1. ASSUME NEW op, NEW k PROVE ActOf(op, k) # "done"
      BY DEF ActOf
    <2>2. at'[c] # "done"
      BY <1>1, <1>2, <2>1 DEF Invoke, InvokeRollback, Goto, ThreadTypeOK
    <2> QED
      BY <2>2 DEF Found
  <1>3. CASE \/ LockCache(c) \/ ResolvePrefix(c) \/ ResolveLabel(c) \/ CreateThread(c)
             \/ FindAnchor(c)
    <2>1. at'[c] # "done"
      BY <1>1, <1>3 DEF LockCache, ResolvePrefix, ResolveLabel, CreateThread, FindAnchor,
                        Resolved, Goto, Act, ActOf, ThreadTypeOK
    <2> QED
      BY <2>1 DEF Found
  <1>4. CASE Write(c) \/ List(c)
    <2>1. request' = request /\ request[c].op # "get"
      BY <1>1, <1>4 DEF Write, List, ShapeOK
    <2> QED
      BY <2>1 DEF Found
  <1>5. CASE Fail(c)
    BY <1>1, <1>5 DEF Fail, Return, Found, ThreadTypeOK
  <1> QED
    BY <1>2, <1>3, <1>4, <1>5 DEF Step

(* A call that another step leaves is not found by it.                     *)
LEMMA StillUnfound ==
  ASSUME ThreadTypeOK, NEW c \in Calls, at[c] # "done",
         \/ UNCHANGED threadVars \/ Finished \/ Restart
         \/ \E d \in Calls : d # c /\ (Invoke(d) \/ InvokeRollback(d) \/ Step(d) \/ Fail(d))
  PROVE  ~Found(c)' /\ (at'[c] = "done" => result'[c] = "raised")
  <1>1. CASE UNCHANGED threadVars \/ Finished
    BY <1>1 DEF Finished, threadVars, Found
  <1>2. CASE Restart
    BY <1>2 DEF Restart, InProgress, Found, ThreadTypeOK
  <1>3. CASE \E d \in Calls : d # c /\ (Invoke(d) \/ InvokeRollback(d) \/ Step(d) \/ Fail(d))
    BY <1>3, OthersStay DEF Found
  <1> QED
    BY <1>1, <1>2, <1>3

LEMMA LatestNext ==
  ASSUME PutsInv, Steady, [ThreadNext]_threadVars, NEW c \in Calls, Latest(c)
  PROVE  Latest(c)'
  <1>1. CASE at[c] = "done"
    BY <1>1, ReadsStay
  <1>2. CASE at[c] # "done" /\ Find(c)
    BY <1>2, FindLatest
  <1>3. CASE at[c] # "done" /\ ~Find(c)
    BY <1>3, StepFound, StillUnfound DEF ThreadNext, Latest, PutsInv, TableInv
  <1> QED
    BY <1>1, <1>2, <1>3

LEMMA OwnNext ==
  ASSUME PutsInv, Steady, [ThreadNext]_threadVars, NEW c \in Calls, Own(c)
  PROVE  Own(c)'
  <1>1. CASE at[c] = "done"
    BY <1>1, ReadsStay
  <1>2. CASE at[c] # "done" /\ Find(c)
    BY <1>2, FindOwn
  <1>3. CASE at[c] # "done" /\ ~Find(c)
    BY <1>3, StepFound, StillUnfound DEF ThreadNext, Own, PutsInv, TableInv
  <1> QED
    BY <1>1, <1>2, <1>3

(***************************************************************************)
(* aget_tuple without a checkpoint id sees every put to a settled thread   *)
(* that had returned before it began, across restarts, failures and        *)
(* rollbacks, and whatever the clock does: for any number of calls and     *)
(* threads, settled or not, over one checkpointer.                         *)
(***************************************************************************)
THEOREM GetsTheLatest == OneSaver /\ IsFiniteSet(Calls) => (ThreadSpec => []ReadsLatest)
  <1> SUFFICES ASSUME OneSaver, IsFiniteSet(Calls) PROVE ThreadSpec => []ReadsLatest
    OBVIOUS
  <1> DEFINE Inv == PutsInv /\ \A c \in Calls : Latest(c)
  <1>1. ThreadInit => Inv
    BY PutsInit DEF ThreadInit, Latest, Found
  <1>2. Inv /\ [ThreadNext]_threadVars => Inv'
    BY PutsNext, LatestNext
  <1>3. Inv => ReadsLatest
    BY DEF Latest, Found, ReadsLatest
  <1> QED
    BY <1>1, <1>2, <1>3, PTL DEF ThreadSpec

(***************************************************************************)
(* aget_tuple by checkpoint id finds a checkpoint put to a settled thread  *)
(* before it began, under that id, and for a separate thread one of its    *)
(* own although threads may use the same ids: for any number of calls,     *)
(* threads, settled or not, and checkpoints over one checkpointer.         *)
(***************************************************************************)
THEOREM FindsItsOwn == OneSaver /\ IsFiniteSet(Calls) => (ThreadSpec => []FindsOwn)
  <1> SUFFICES ASSUME OneSaver, IsFiniteSet(Calls) PROVE ThreadSpec => []FindsOwn
    OBVIOUS
  <1> DEFINE Inv == PutsInv /\ \A c \in Calls : Own(c)
  <1>1. ThreadInit => Inv
    BY PutsInit DEF ThreadInit, Own, Found
  <1>2. Inv /\ [ThreadNext]_threadVars => Inv'
    BY PutsNext, OwnNext
  <1>3. Inv => FindsOwn
    BY DEF Own, Found, FindsOwn
  <1> QED
    BY <1>1, <1>2, <1>3, PTL DEF ThreadSpec

(***************************************************************************)
(* alist: its anchor, found by one query, and its page, read by another.   *)
(***************************************************************************)

(* A call that comes to its page without looking for an anchor has none.   *)
LEMMA ToPage ==
  ASSUME PutsInv, NEW c \in Calls, Invoke(c) \/ InvokeRollback(c) \/ Step(c) \/ Fail(c),
         ~FindAnchor(c), at'[c] = "page"
  PROVE  request'[c].checkpoint = None /\ anchor'[c] = None
  <1>1. ThreadTypeOK /\ ShapeOK(c)
    BY DEF PutsInv, TableInv, HomeInv
  <1>2. \A op, k : ActOf(op, k) = "page" => k = None
    BY DEF ActOf
  <1>3. CASE Invoke(c)
    <2>1. PICK op \in {"put", "get", "list"}, v \in Savers, t \in Threads,
               k \in Checkpoints \cup {None} :
            /\ at[c] = "idle"
            /\ op = "put" => k # None
            /\ request' = [request EXCEPT ![c] =
                             [op |-> op, saver |-> v, thread |-> t, checkpoint |-> k]]
            /\ known' = [known EXCEPT ![c] = IF op = "put" THEN {} ELSE Returned(t)]
            /\ session' = [session EXCEPT ![c] = cache[v][t]]
            /\ at' = [at EXCEPT ![c] = IF cache[v][t] = None THEN "lock"
                                       ELSE ActOf(op, k)]
            /\ UNCHANGED <<vars, sessionLabel, saverVars, result, listVars>>
      BY <1>3 DEF Invoke
    <2>2. request'[c].checkpoint = k /\ anchor'[c] = anchor[c]
      BY <1>1, <2>1 DEF ThreadTypeOK, listVars
    <2>3. ActOf(op, k) = "page"
      BY <1>1, <2>1 DEF ThreadTypeOK
    <2> QED
      BY <1>1, <1>2, <2>1, <2>2, <2>3 DEF ShapeOK
  <1>4. CASE LockCache(c) \/ ResolvePrefix(c) \/ ResolveLabel(c) \/ CreateThread(c)
    <2>1. UNCHANGED <<request, anchor>> /\ Resolving(c) /\ anchor[c] = None
      BY <1>1, <1>4 DEF LockCache, ResolvePrefix, ResolveLabel, CreateThread, listVars,
                        Resolving, ShapeOK
    <2>2. Act(c) = "page"
      BY <1>1, <1>4 DEF LockCache, ResolvePrefix, ResolveLabel, CreateThread, Resolved, Goto,
                        ThreadTypeOK
    <2> QED
      BY <1>2, <2>1, <2>2 DEF Act
  <1>5. CASE InvokeRollback(c) \/ Write(c) \/ Find(c) \/ List(c) \/ Fail(c)
    BY <1>1, <1>5 DEF InvokeRollback, Write, Find, List, Fail, Goto, Return, ThreadTypeOK
  <1> QED
    BY <1>3, <1>4, <1>5 DEF Step

LEMMA FindAnchored ==
  ASSUME PutsInv, NEW c \in Calls, FindAnchor(c)
  PROVE  Anchored(c)'
  <1>1. /\ ThreadTypeOK /\ Acting(c) /\ session[c] \in Sessions /\ request[c].op = "list"
        /\ request[c].checkpoint # None
    BY DEF FindAnchor, PutsInv, TableInv, HomeInv, ShapeOK, ThreadTypeOK, Acting, CallOK
  <1>2. UNCHANGED <<request, known, db, session>>
    BY DEF FindAnchor, vars
  <1> DEFINE k == request[c].checkpoint
             s == session[c]
  <1>3. Settled(request[c].thread) => known[c] \subseteq Stored(s)
    BY <1>1, KnownHere
  <1>4. ASSUME Settled(request[c].thread), NEW p \in known[c], request[p].checkpoint = k
        PROVE  SnapshotIn(db, anchor'[c], s) /\ request[anchor'[c]].checkpoint = k
    <2>1. p \in Matching(s, k)
      BY <1>3, <1>4 DEF Matching
    <2>2. anchor'[c] \in Matching(s, k)
      BY <1>1, <2>1 DEF FindAnchor, ThreadTypeOK
    <2> QED
      BY <2>2 DEF Matching, Stored, SnapshotIn
  <1> QED
    BY <1>1, <1>2, <1>4 DEF Anchored

LEMMA AnchorStays ==
  ASSUME PutsInv, Steady, NEW c \in Calls, Anchored(c), at[c] = "page",
         at'[c] = at[c], request'[c] = request[c], session'[c] = session[c],
         known'[c] = known[c], anchor'[c] = anchor[c]
  PROVE  Anchored(c)'
  <1>1. \A p \in known[c] : request'[p] = request[p]
    BY DEF PutsInv, TableInv, ThreadTypeOK, KnownOK, PutTo, Steady
  <1>2. SnapshotIn(db, anchor[c], session[c]) =>
          /\ SnapshotIn(db', anchor[c], session[c])
          /\ request'[anchor[c]] = request[anchor[c]]
    <2>1. \A r \in db.snaps : r \in db'.snaps /\ request'[r.id] = request[r.id]
      BY RowsTyped DEF PutsInv, TableInv, RowPut, Steady
    <2> QED
      BY <2>1 DEF SnapshotIn
  <1> QED
    BY <1>1, <1>2 DEF Anchored

LEMMA AnchoredNext ==
  ASSUME PutsInv, Steady, [ThreadNext]_threadVars, NEW c \in Calls, Anchored(c)
  PROVE  Anchored(c)'
  <1>1. ThreadTypeOK
    BY DEF PutsInv, TableInv
  <1>2. ASSUME at'[c] = at[c], request'[c] = request[c], session'[c] = session[c],
               known'[c] = known[c], anchor'[c] = anchor[c]
        PROVE  Anchored(c)'
    <2>1. CASE at[c] = "page"
      BY <1>2, <2>1, AnchorStays
    <2>2. CASE at[c] # "page"
      BY <1>2, <2>2 DEF Anchored
    <2> QED
      BY <2>1, <2>2
  <1>3. CASE UNCHANGED threadVars \/ Finished
    BY <1>2, <1>3 DEF Finished, threadVars
  <1>4. CASE Restart
    <2>1. at'[c] # "page"
      BY <1>4 DEF Restart, InProgress
    <2> QED
      BY <2>1 DEF Anchored
  <1>5. ASSUME NEW d \in Calls, d # c, Invoke(d) \/ InvokeRollback(d) \/ Step(d) \/ Fail(d)
        PROVE  Anchored(c)'
    BY <1>1, <1>2, <1>5, OthersStay
  <1>6. CASE Invoke(c) \/ InvokeRollback(c) \/ Step(c) \/ Fail(c)
    <2>1. CASE FindAnchor(c)
      BY <2>1, FindAnchored
    <2>2. CASE ~FindAnchor(c) /\ at'[c] = "page"
      BY <1>6, <2>2, ToPage DEF Anchored
    <2>3. CASE at'[c] # "page"
      BY <2>3 DEF Anchored
    <2> QED
      BY <2>1, <2>2, <2>3
  <1> QED
    BY <1>3, <1>4, <1>5, <1>6 DEF ThreadNext

(* In a session whose clock went forward, older snapshots are ancestors.   *)
LEMMA OlderChain ==
  ASSUME TableInv, NEW s \in Sessions, Forward(s), NEW x \in Stored(s)
  PROVE  Older(s, x) = Ancestry(db, x) \ {x}
  <1>1. /\ OneChain(s) /\ Timely(s) /\ ThreadTypeOK /\ x \in Calls /\ x # None
        /\ \A y \in Stored(s) : created[y] \in Nat
    BY RowsTyped, DatabaseAssumption DEF TableInv
  <1>2. Ancestry(db, x) \subseteq Stored(s)
    <2>1. PICK r \in db.snaps : r.id = x /\ r.session = s
      BY <1>1, RowsTyped
    <2> QED
      BY <2>1 DEF TableInv, RowOK
  <1>3. ASSUME NEW y \in Stored(s), created[y] < created[x]
        PROVE  y \in Ancestry(db, x) \ {x}
    <2>1. y # x /\ ~(created[x] < created[y])
      BY <1>1, <1>3
    <2>2. y \in Ancestry(db, x) \/ x \in Ancestry(db, y)
      BY <1>1 DEF OneChain
    <2> QED
      BY <1>1, <2>1, <2>2 DEF Timely
  <1>4. ASSUME NEW y \in Ancestry(db, x), y # x
        PROVE  y \in Stored(s) /\ created[y] < created[x]
    BY <1>1, <1>2, <1>4 DEF Timely
  <1>5. Older(s, x) = {y \in Stored(s) : created[y] < created[x]}
    BY <1>1 DEF Older
  <1> QED
    BY <1>3, <1>4, <1>5

(* There, the newest rows of a query are the last ones of a chain.         *)
LEMMA NewestPages ==
  ASSUME TableInv, NEW s \in Sessions, Forward(s), NEW ids, ids \subseteq Stored(s), NEW n,
         NEW page \in Newest(ids, n)
  PROVE  PageOf(page, ids, n)
  <1>1. /\ OneChain(s) /\ Timely(s) /\ \A y \in Stored(s) : created[y] \in Nat
    BY RowsTyped DEF TableInv
  <1>2. /\ page \subseteq ids /\ Cardinality(page) <= n
        /\ page # ids => Cardinality(page) = n
        /\ \A x \in page, y \in ids \ page : created[y] <= created[x]
    BY DEF Newest
  <1>3. ASSUME NEW x \in page, NEW y \in ids \ page PROVE y \in Ancestry(db, x)
    <2>1. /\ x \in Stored(s) /\ y \in Stored(s) /\ x # y /\ created[y] <= created[x]
      BY <1>2
    <2>2. ~(created[x] < created[y])
      BY <1>1, <2>1
    <2> QED
      BY <1>1, <2>1, <2>2 DEF OneChain, Timely
  <1> QED
    BY <1>2, <1>3 DEF PageOf

LEMMA ListListed ==
  ASSUME PutsInv, Steady, NEW c \in Calls, Anchored(c), List(c)
  PROVE  Listed(c)'
  <1> DEFINE k == request[c].checkpoint
             t == request[c].thread
             s == session[c]
             x == anchor[c]
  <1>1. /\ ThreadTypeOK /\ TableInv /\ Acting(c) /\ s \in Sessions /\ request[c].op = "list"
        /\ at[c] = "page"
    BY DEF List, PutsInv, TableInv, HomeInv, ShapeOK, ThreadTypeOK, Acting, CallOK
  <1>2. UNCHANGED <<request, known, db, session, created>>
    BY DEF List, vars
  <1>3. PICK page \in Newest(Older(s, x), Limit[c]) : rows'[c] = page
    BY <1>1 DEF List, ThreadTypeOK
  <1> SUFFICES ASSUME Separate(t), Forward(s) PROVE ListedAll(c)' /\ ListedOlder(c)'
    <2>1. /\ Forward(session[c])' <=> Forward(s)
          /\ Separate(t)' => Separate(t)
      BY <1>2 DEF Forward, Steady
    <2> QED
      BY <1>2, <2>1 DEF Listed
  <1>4. t \in Threads /\ Settled(t) /\ IsHome(t, s) /\ known[c] \subseteq Stored(s)
    BY <1>1, KnownHere DEF PutsInv, HomeInv, OnHome, Separate
  <1>5. ASSUME k = None, known[c] # {}
        PROVE  \E h \in Calls : known[c] \subseteq Ancestry(db, h) /\ PagedTo(c, h)'
    <2>1. PICK h \in Calls : Ancestry(db, h) = Stored(s) /\ HasSnapshot(db, h)
      BY <1>1, <1>4, <1>5 DEF TableInv, HeadLast, SnapshotIn, HasSnapshot
    <2>2. Older(s, x) = Stored(s)
      BY <1>1, <1>5 DEF Anchored, Older
    <2>3. PageOf(page, Ancestry(db, h), Limit[c])
      BY <1>1, <1>3, <2>1, <2>2, NewestPages
    <2>4. PagedTo(c, h)'
      BY <1>2, <1>3, <2>1, <2>3 DEF PagedTo, PageOf
    <2> QED
      BY <1>4, <2>1, <2>4
  <1>6. ASSUME NEW q \in known[c], request[q].checkpoint = k
        PROVE  \E p \in Calls : /\ request[p].op = "put" /\ request[p].checkpoint = k
                                /\ request[p].thread = t
                                /\ PagedBefore(c, p)'
    <2>1. k # None
      <3>1. PutTo(q, t)
        BY <1>6 DEF PutsInv, KnownOK
      <3> QED
        BY <1>6, <3>1 DEF PutTo, HasSnapshot, PutsInv, RowPut
    <2>2. SnapshotIn(db, x, s) /\ request[x].checkpoint = k
      BY <1>1, <1>4, <1>6, <2>1 DEF Anchored
    <2>3. PICK r \in db.snaps : r.id = x /\ r.session = s
      BY <2>2 DEF SnapshotIn
    <2>4. PICK p \in Calls : /\ p = x /\ p \in Stored(s) /\ HasSnapshot(db, p)
                            /\ request[p].op = "put"
      BY <1>1, <2>1, <2>2, <2>3, RowsTyped DEF PutsInv, RowPut, HasSnapshot
    <2>5. request[p].thread = t
      <3>1. request[p].thread \in Threads /\ IsHome(request[p].thread, s)
        BY <2>3, <2>4 DEF PutsInv, RowPut, Separate
      <3> QED
        BY <1>4, <3>1, OneThread DEF PutsInv, HomeInv
    <2>6. Older(s, p) = Ancestry(db, p) \ {p} /\ Older(s, p) \subseteq Stored(s)
      BY <1>1, <2>4, OlderChain DEF Older
    <2>7. PageOf(page, Ancestry(db, p) \ {p}, Limit[c])
      BY <1>1, <1>3, <2>4, <2>6, NewestPages
    <2>8. PagedBefore(c, p)'
      BY <1>2, <1>3, <2>4, <2>7 DEF PagedBefore, PageOf
    <2> QED
      BY <2>2, <2>4, <2>5, <2>8
  <1>7. ListedAll(c)'
    BY <1>2, <1>5 DEF ListedAll
  <1>8. ListedOlder(c)'
    BY <1>2, <1>6 DEF ListedOlder
  <1> QED
    BY <1>7, <1>8

LEMMA StepListed ==
  ASSUME PutsInv, NEW c \in Calls, Invoke(c) \/ InvokeRollback(c) \/ Step(c) \/ Fail(c), ~List(c)
  PROVE  ~(request'[c].op = "list" /\ at'[c] = "done" /\ result'[c] # "raised")
  <1>1. ThreadTypeOK /\ ShapeOK(c)
    BY DEF PutsInv, TableInv, HomeInv
  <1>2. CASE Invoke(c) \/ InvokeRollback(c)
    <2>1. ASSUME NEW op, NEW k PROVE ActOf(op, k) # "done"
      BY DEF ActOf
    <2> QED
      BY <1>1, <1>2, <2>1 DEF Invoke, InvokeRollback, Goto, ThreadTypeOK
  <1>3. CASE \/ LockCache(c) \/ ResolvePrefix(c) \/ ResolveLabel(c) \/ CreateThread(c)
             \/ FindAnchor(c)
    BY <1>1, <1>3 DEF LockCache, ResolvePrefix, ResolveLabel, CreateThread, FindAnchor,
                      Resolved, Goto, Act, ActOf, ThreadTypeOK
  <1>4. CASE Write(c) \/ Find(c)
    BY <1>1, <1>4 DEF Write, Find, ShapeOK
  <1>5. CASE Fail(c)
    BY <1>1, <1>5 DEF Fail, Return, ThreadTypeOK
  <1> QED
    BY <1>2, <1>3, <1>4, <1>5 DEF Step

LEMMA ListedNext ==
  ASSUME PutsInv, Steady, [ThreadNext]_threadVars, NEW c \in Calls, Anchored(c), Listed(c)
  PROVE  Listed(c)'
  <1>1. CASE at[c] = "done"
    BY <1>1, ReadsStay
  <1>2. CASE at[c] # "done" /\ List(c)
    BY <1>2, ListListed
  <1>3. CASE at[c] # "done" /\ ~List(c)
    BY <1>3, StepListed, StillUnfound DEF ThreadNext, Listed, PutsInv, TableInv
  <1> QED
    BY <1>1, <1>2, <1>3

(***************************************************************************)
(* alist pages along one chain of parents, with every put that had         *)
(* returned or before a put of the checkpoint, whatever is committed       *)
(* between its two queries and however LIMIT cuts it: for any number of    *)
(* calls, threads and checkpoints over one checkpointer, when the thread   *)
(* is separate and the clock went forward in its session.                  *)
(***************************************************************************)
THEOREM PagesOneChain == OneSaver /\ IsFiniteSet(Calls) => (ThreadSpec => []ListsBefore)
  <1> SUFFICES ASSUME OneSaver, IsFiniteSet(Calls) PROVE ThreadSpec => []ListsBefore
    OBVIOUS
  <1> DEFINE Inv == PutsInv /\ \A c \in Calls : Anchored(c) /\ Listed(c)
  <1>1. ThreadInit => Inv
    BY PutsInit DEF ThreadInit, Anchored, Listed
  <1>2. Inv /\ [ThreadNext]_threadVars => Inv'
    BY PutsNext, AnchoredNext, ListedNext
  <1>3. Inv => ListsBefore
    BY DEF Listed, ListedAll, ListedOlder, PagedTo, PagedBefore, ListsBefore
  <1> QED
    BY <1>1, <1>2, <1>3, PTL DEF ThreadSpec
=============================================================================
