----------------------------- MODULE Checkpointer -----------------------------
(***************************************************************************)
(* adapters/langgraph.py: StateForgeCheckpointer keeps each LangGraph      *)
(* thread in a session, found by its label or id or created, and cached.   *)
(* The client below it is the abstract store: every query is one step and  *)
(* every write takes effect at its commit, the steps of other calls come   *)
(* in between.  That StateForge.tla implements this store is shown for     *)
(* writes without create_session beside them, whose commit may keep half   *)
(* of a put to another thread (StateForge!CreateCommits): the puts here    *)
(* are those that meet no create_session inside their transaction.         *)
(***************************************************************************)
EXTENDS SnapshotStore

CONSTANTS
  Savers,        \* the checkpointer instances of the process
  Threads,       \* LangGraph thread ids
  Checkpoints,   \* LangGraph checkpoint ids
  ThreadPrefix,  \* the sessions, also later ones, whose id begins with a thread id
  Times,         \* what the wall clock may read
  Limit,         \* the limit each call pages with (`limit or 100`)
  Faulty         \* TRUE: calls may be cancelled or fail, the process may crash

ASSUME CheckpointerAssumption ==
  /\ ThreadPrefix \in [Threads -> SUBSET Sessions]
  /\ Times \subseteq Nat
  /\ Limit \in [Calls -> Nat \ {0}]
  /\ None \notin Threads
  /\ "raised" \notin Calls       \* an exception is no snapshot
  /\ Faulty \in BOOLEAN

VARIABLES
  sessionLabel,   \* the label of each session
  request,        \* the arguments of each call
  cache,          \* _thread_to_session of each saver
  cacheLock,      \* holder of _cache_lock of each saver
  at,             \* where each call is
  session,        \* the session each call resolved its thread to
  result,         \* what each call returned
  known,          \* the puts to the thread that had returned when a read began
  created,        \* created_at of each snapshot
  anchor,         \* the snapshot before which alist pages
  rows            \* the page it got

saverVars == <<cache, cacheLock>>
listVars == <<created, anchor, rows>>
threadVars == <<vars, sessionLabel, request, cache, cacheLock, at, session, result, known,
                created, anchor, rows>>

Stages == {"idle", "lock", "prefix", "label", "create", "write", "find", "page", "done"}

NoRequest == [op |-> "put", saver |-> None, thread |-> None, checkpoint |-> None]

ThreadInit ==
  /\ Init
  /\ sessionLabel = [s \in Sessions |-> None]
  /\ request = [c \in Calls |-> NoRequest]
  /\ cache = [v \in Savers |-> [t \in Threads |-> None]]
  /\ cacheLock = [v \in Savers |-> None]
  /\ at = [c \in Calls |-> "idle"]
  /\ session = [c \in Calls |-> None]
  /\ result = [c \in Calls |-> Absent]
  /\ known = [c \in Calls |-> {}]
  /\ created = [c \in Calls |-> 0]
  /\ anchor = [c \in Calls |-> None]
  /\ rows = [c \in Calls |-> {}]

-----------------------------------------------------------------------------
ActOf(op, k) ==
  CASE op = "list" /\ k = None -> "page"
    [] op = "put"              -> "write"
    [] OTHER                   -> "find"

Act(c) == ActOf(request[c].op, request[c].checkpoint)

(* Leave the lock, whether it is held or not.                              *)
Unlock(c) == cacheLock' = [v \in Savers |-> IF cacheLock[v] = c THEN None ELSE cacheLock[v]]

(* Return an answer: a snapshot, None, or "raised" for an exception.       *)
Return(c, answer) ==
  /\ at' = [at EXCEPT ![c] = "done"]
  /\ result' = [result EXCEPT ![c] = answer]

Goto(c, stage) ==
  /\ at' = [at EXCEPT ![c] = stage]
  /\ UNCHANGED result

(* The puts of a thread that have returned.                                *)
Returned(t) ==
  {c \in Calls : at[c] = "done" /\ result[c] = c
                   /\ request[c].thread = t /\ request[c].op = "put"}

(* aput, aget_tuple and alist, the last two with or without a checkpoint   *)
(* id.  A thread found in the cache needs no await.                        *)
Invoke(c) ==
  \E op \in {"put", "get", "list"}, v \in Savers, t \in Threads, k \in Checkpoints \cup {None} :
    /\ at[c] = "idle"
    /\ op = "put" => k # None
    /\ request' = [request EXCEPT ![c] =
                     [op |-> op, saver |-> v, thread |-> t, checkpoint |-> k]]
    /\ known' = [known EXCEPT ![c] = IF op = "put" THEN {} ELSE Returned(t)]
    /\ session' = [session EXCEPT ![c] = cache[v][t]]
    /\ at' = [at EXCEPT ![c] = IF cache[v][t] = None THEN "lock"
                               ELSE ActOf(op, k)]
    /\ UNCHANGED <<vars, sessionLabel, saverVars, result, listVars>>

(* The application rolls back a session that threads use.                  *)
InvokeRollback(c) ==
  \E s \in {x \in Sessions : HasSession(db, x)} :
    /\ at[c] = "idle"
    /\ request' = [request EXCEPT ![c] = [NoRequest EXCEPT !.op = "rollback"]]
    /\ session' = [session EXCEPT ![c] = s]
    /\ Goto(c, "write")
    /\ UNCHANGED <<vars, sessionLabel, saverVars, known, listVars>>

(* Mutant of LockCache: the lock is not taken.                             *)
EnterCache(c) ==
  /\ at[c] = "lock"
  /\ LET s == cache[request[c].saver][request[c].thread] IN
     /\ session' = [session EXCEPT ![c] = s]
     /\ Goto(c, IF s = None THEN "prefix" ELSE Act(c))
  /\ UNCHANGED <<vars, sessionLabel, request, known, saverVars, listVars>>

(* The lock, and the second look at the cache under it.                    *)
LockCache(c) ==
  LET v == request[c].saver
      s == cache[v][request[c].thread]
  IN  /\ at[c] = "lock"
      /\ cacheLock[v] = None
      /\ session' = [session EXCEPT ![c] = s]
      /\ cacheLock' = [cacheLock EXCEPT ![v] = IF s = None THEN c ELSE None]
      /\ Goto(c, IF s = None THEN "prefix" ELSE Act(c))
      /\ UNCHANGED <<vars, sessionLabel, request, known, cache, listVars>>

Resolved(c, s) ==
  /\ session' = [session EXCEPT ![c] = s]
  /\ cache' = [cache EXCEPT ![request[c].saver][request[c].thread] = s]
  /\ Unlock(c)
  /\ Goto(c, Act(c))

Prefixed(t) == {s \in ThreadPrefix[t] : HasSession(db, s)}

Labelled(t) == {s \in Sessions : HasSession(db, s) /\ sessionLabel[s] = t}

(* resolve_session, first by uuid prefix.  Several sessions with the       *)
(* prefix raise AmbiguousRefError, which leads to create_session at once.  *)
ResolvePrefix(c) ==
  LET found == Prefixed(request[c].thread) IN
  /\ at[c] = "prefix"
  /\ \/ \E s \in found : found = {s} /\ Resolved(c, s)
     \/ found = {} /\ Goto(c, "label") /\ UNCHANGED <<session, saverVars>>
     \/ \E s, x \in found : s # x /\ Goto(c, "create") /\ UNCHANGED <<session, saverVars>>
  /\ UNCHANGED <<vars, sessionLabel, request, known, listVars>>

(* Then by label; none or several lead to create_session.                  *)
ResolveLabel(c) ==
  LET found == Labelled(request[c].thread) IN
  /\ at[c] = "label"
  /\ \/ \E s \in found : found = {s} /\ Resolved(c, s)
     \/ Cardinality(found) # 1 /\ Goto(c, "create") /\ UNCHANGED <<session, saverVars>>
  /\ UNCHANGED <<vars, sessionLabel, request, known, listVars>>

(* Mutant of AddSession: create_session() without the label.               *)
AddUnlabelled(c) == CreateSession(c) /\ UNCHANGED sessionLabel

AddSession(c) ==
  /\ CreateSession(c)
  /\ sessionLabel' = [sessionLabel EXCEPT ![c] = request[c].thread]

CreateThread(c) ==
  /\ at[c] = "create"
  /\ AddSession(c)
  /\ Resolved(c, c)
  /\ UNCHANGED <<request, known, listVars>>

(* sf.snapshot or sf.rollback commits a new head, with the time of a wall  *)
(* clock that may stand still or step back.                                *)
Advanced(c) ==
  /\ \E now \in Times : created' = [created EXCEPT ![c] = now]
  /\ IF request[c].op = "rollback" THEN Rollback(c) ELSE TakeSnapshot(c)
  /\ db'.heads[session[c]] = c

Write(c) ==
  /\ at[c] = "write"
  /\ \/ Advanced(c) /\ Return(c, c)
     \/ /\ request[c].op = "rollback" /\ db.heads[session[c]] = None   \* no target
        /\ Return(c, "raised") /\ UNCHANGED <<vars, created>>
  /\ UNCHANGED <<sessionLabel, request, known, saverVars, session, anchor, rows>>

Stored(s) == {r.id : r \in {x \in db.snaps : x.session = s}}

(* Mutant of Matching: the label is looked up in every session.            *)
MatchingAnywhere(s, k) == {x \in {r.id : r \in db.snaps} : request[x].checkpoint = k}

(* A put labels its snapshot with the checkpoint id, a rollback does not.  *)
Matching(s, k) == {x \in Stored(s) : request[x].checkpoint = k}

(* aget_tuple: the head, or any of the snapshots with that label: the      *)
(* query has no ORDER BY.  What it then reads of the snapshot is immutable.*)
Find(c) ==
  LET k == request[c].checkpoint
      matches == IF k = None THEN {db.heads[session[c]]} ELSE Matching(session[c], k)
  IN  /\ at[c] = "find" /\ request[c].op = "get"
      /\ \/ \E x \in matches : Return(c, x)
         \/ matches = {} /\ Return(c, None)
      /\ UNCHANGED <<vars, sessionLabel, request, known, saverVars, session, listVars>>

(* alist before a checkpoint: one of the snapshots with that label is the  *)
(* anchor; without one the page starts at the newest.                      *)
FindAnchor(c) ==
  LET matches == Matching(session[c], request[c].checkpoint) IN
  /\ at[c] = "find" /\ request[c].op = "list"
  /\ \E x \in IF matches = {} THEN {None} ELSE matches :
       anchor' = [anchor EXCEPT ![c] = x]
  /\ Goto(c, "page")
  /\ UNCHANGED <<vars, sessionLabel, request, known, saverVars, session, created, rows>>

(* Mutant of Older: the anchor itself is on the page again.                *)
NotNewer(s, x) == {y \in Stored(s) : x = None \/ created[y] <= created[x]}

Older(s, x) == {y \in Stored(s) : x = None \/ created[y] < created[x]}

(* ORDER BY created_at DESC, id DESC LIMIT n: among equal times the random *)
(* ids decide.                                                             *)
Newest(ids, n) ==
  {page \in SUBSET ids :
     /\ Cardinality(page) <= n
     /\ page # ids => Cardinality(page) = n
     /\ \A x \in page, y \in ids \ page : created[y] <= created[x]}

(* list_snapshots.                                                         *)
List(c) ==
  /\ at[c] = "page"
  /\ \E page \in Newest(Older(session[c], anchor[c]), Limit[c]) :
       rows' = [rows EXCEPT ![c] = page]
  /\ anchor' = [anchor EXCEPT ![c] = None]
  /\ Return(c, None)
  /\ UNCHANGED <<vars, sessionLabel, request, known, saverVars, session, created>>

InProgress(c) == at[c] \notin {"idle", "done"}

(* Cancelled or failed: `async with` leaves the lock.  A commit already    *)
(* under way may take effect all the same; of a call that stored nothing   *)
(* nothing is remembered.                                                  *)
Forget(c) == request' = [request EXCEPT ![c] = NoRequest]

Fail(c) ==
  /\ Faulty /\ InProgress(c)
  /\ \/ UNCHANGED <<vars, sessionLabel, created>> /\ Forget(c)
     \/ at[c] = "create" /\ AddSession(c) /\ UNCHANGED created /\ Forget(c)
     \/ at[c] = "write" /\ Advanced(c) /\ UNCHANGED <<sessionLabel, request>>
  /\ Return(c, "raised")
  /\ Unlock(c)
  /\ anchor' = [anchor EXCEPT ![c] = None]
  /\ known' = [known EXCEPT ![c] = {}]
  /\ session' = [session EXCEPT ![c] = None]
  /\ UNCHANGED <<cache, rows>>

(* The process dies; a new one starts with an empty cache.                 *)
Restart ==
  /\ Faulty
  /\ cache' = [v \in Savers |-> [t \in Threads |-> None]]
  /\ cacheLock' = [v \in Savers |-> None]
  /\ at' = [c \in Calls |-> IF InProgress(c) THEN "done" ELSE at[c]]
  /\ result' = [c \in Calls |-> IF InProgress(c) THEN "raised" ELSE result[c]]
  /\ request' = [c \in Calls |-> IF InProgress(c) THEN NoRequest ELSE request[c]]
  /\ known' = [c \in Calls |-> IF InProgress(c) THEN {} ELSE known[c]]
  /\ session' = [c \in Calls |-> IF InProgress(c) THEN None ELSE session[c]]
  /\ anchor' = [c \in Calls |-> None]
  /\ UNCHANGED <<vars, sessionLabel, created, rows>>

Finished == (\A c \in Calls : at[c] = "done") /\ UNCHANGED threadVars

Step(c) ==
  \/ LockCache(c) \/ ResolvePrefix(c) \/ ResolveLabel(c) \/ CreateThread(c)
  \/ Write(c) \/ Find(c) \/ FindAnchor(c) \/ List(c)

ThreadNext ==
  \/ \E c \in Calls : Invoke(c) \/ InvokeRollback(c) \/ Step(c) \/ Fail(c)
  \/ Restart
  \/ Finished

ThreadSpec == ThreadInit /\ [][ThreadNext]_threadVars

-----------------------------------------------------------------------------
(* The id of t begins no session id, or that of one session which is there *)
(* from the start.  Any other thread may be given several sessions.        *)
Settled(t) == ThreadPrefix[t] = {} \/ \E s \in InitialSessions : ThreadPrefix[t] = {s}

(* The sessions of a settled thread.                                       *)
Home(t) == IF ThreadPrefix[t] = {} THEN Labelled(t) ELSE ThreadPrefix[t]

(* t is settled, and no other thread is led to its session by its own id.  *)
Separate(t) ==
  Settled(t) /\ \A u \in Threads \ {t} : ThreadPrefix[u] \cap Home(t) = {}

(* The clock went forward from each snapshot of s to the next.             *)
Forward(s) ==
  \A r, q \in db.snaps : q.session = s /\ q.parent = r.id => created[r.id] < created[q.id]

(* A settled thread has one session, however many calls meet it for the    *)
(* first time at once, fail half-way or come after a restart.  A second    *)
(* session with its label would hide the first: an ambiguous label creates *)
(* a third.                                                                *)
OneSession == \A t \in Threads : Settled(t) => Cardinality(Labelled(t)) <= 1

(* aget_tuple without a checkpoint id sees every put to a settled thread   *)
(* that had returned before it began, across restarts and rollbacks: they  *)
(* are the snapshot it answers with or ancestors of it.                    *)
ReadsLatest ==
  \A c \in Calls :
    /\ request[c].op = "get" /\ request[c].checkpoint = None
    /\ at[c] = "done" /\ result[c] # "raised"
    /\ known[c] # {} /\ Settled(request[c].thread)
    => result[c] \in Calls /\ known[c] \subseteq Ancestry(db, result[c])

(* aget_tuple by checkpoint id finds a checkpoint put to a settled thread  *)
(* before, under that id, and for a separate thread one of its own,        *)
(* although threads may use the same checkpoint ids.                       *)
FindsOwn ==
  \A c \in Calls :
    LET k == request[c].checkpoint
        t == request[c].thread
    IN  request[c].op = "get" /\ k # None /\ at[c] = "done" /\ result[c] # "raised" =>
          /\ result[c] = None /\ Settled(t) => \A p \in known[c] : request[p].checkpoint # k
          /\ result[c] # None => request[result[c]].checkpoint = k
          /\ result[c] # None /\ Separate(t) => request[result[c]].thread = t

(* ids are the n newest of a chain, or all of it.                          *)
PageOf(ids, chain, n) ==
  /\ ids \subseteq chain /\ Cardinality(ids) <= n
  /\ ids # chain => Cardinality(ids) = n
  /\ \A x \in ids, y \in chain \ ids : y \in Ancestry(db, x)

(* As long as the clock goes forward in the session of a separate thread,  *)
(* alist pages along one chain of parents: one with every put that had     *)
(* returned before it began; before a checkpoint put by then, the chain    *)
(* that one of the puts of that checkpoint was written on.                 *)
(* So paging neither skips nor repeats a checkpoint nor strays into        *)
(* another thread, whatever is committed between its two queries.          *)
ListsBefore ==
  \A c \in Calls :
    LET k == request[c].checkpoint IN
    /\ request[c].op = "list" /\ at[c] = "done" /\ result[c] # "raised"
    /\ Separate(request[c].thread) /\ Forward(session[c])
    => /\ k = None /\ known[c] # {} =>
            \E h \in Calls : /\ known[c] \subseteq Ancestry(db, h)
                            /\ PageOf(rows[c], Ancestry(db, h), Limit[c])
       /\ (\E p \in known[c] : request[p].checkpoint = k) =>
            \E p \in Calls : /\ request[p].op = "put" /\ request[p].checkpoint = k
                            /\ request[p].thread = request[c].thread
                            /\ PageOf(rows[c], Ancestry(db, p) \ {p}, Limit[c])
=============================================================================
