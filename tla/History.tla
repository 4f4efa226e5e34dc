------------------------------- MODULE History -------------------------------
(***************************************************************************)
(* The LangChain adapter (adapters/langchain.py) over the atomic store:    *)
(* the message list of one StateForgeMessageHistory against the snapshots  *)
(* of its session, with several tasks calling aadd_messages, aclear and    *)
(* snapshot at once, sf.rollback() on the same session, failing and        *)
(* cancelled calls, crashes, and from_snapshot().                          *)
(*                                                                         *)
(* Every call's sf.snapshot() awaits _ensure() and then the session lock.  *)
(* Both the init lock and the session lock are asyncio.Locks, which serve  *)
(* their waiters in order, but a client that is initialised passes a call  *)
(* by the init lock while others are still to wake there.  What a call     *)
(* then writes is a step of SnapshotStore (StateForge.tla implements it).  *)
(***************************************************************************)
EXTENDS SnapshotStore, SequencesExt

CONSTANTS
  Session,     \* the session of the adapter
  Batches,     \* numbers of messages passed to one aadd_messages
  Every,       \* snapshot_every of an adapter built with auto_snapshot=True
  Ticks,       \* how far the clock may move between two messages
  MaxRestarts, \* a bound on how often the adapter is replaced
  Failures     \* what may go wrong: "fail", "cancel", "crash"

(* A unit is identified by the call that built it and its place in it.     *)
ASSUME HistoryAssumption ==
  /\ Session \in InitialSessions
  /\ Every \in Nat \ {0}
  /\ Ticks \subseteq Nat
  /\ Batches \subseteq Nat \ {0}
  /\ \A n \in Batches : (Calls \X (1..n)) \subseteq Units
  /\ Failures \subseteq {"fail", "cancel", "crash"}

VARIABLES
  kept,      \* _units, and _messages beside it
  addCount,  \* _add_count
  auto,      \* auto_snapshot
  key,       \* the key a unit was given: "msg:" and this number
  stamp,     \* its created_at
  clock,     \* the time of the last unit built
  ready,     \* _initialized of the client
  queue,     \* the tasks at the session lock, the holder first, and behind
             \* them those at the client's init lock
  inside,    \* how many of them are at the session lock
  op,        \* what each call does, "idle" before it is made
  list,      \* the list of units a call passes to sf.snapshot()
  result,
  restarts,  \* how often the adapter was replaced
  epoch,     \* changes when the list is meant to lose messages
  since,     \* the epoch a call was made in
  overtaken  \* in this epoch a call passed by others at the init lock

adapterVars == <<kept, addCount, auto>>
unitVars    == <<key, stamp, clock>>
lockVars    == <<ready, queue, inside, overtaken>>
callVars    == <<op, list, result, since>>
histVars    == <<vars, adapterVars, unitVars, lockVars, callVars, restarts, epoch>>

HistoryInit ==
  /\ Init
  /\ kept = <<>>
  /\ addCount = 0
  /\ auto \in BOOLEAN
  /\ key = [u \in Units |-> 0]
  /\ stamp = [u \in Units |-> 0]
  /\ clock = 0
  /\ ready \in BOOLEAN
  /\ queue = <<>>
  /\ inside = 0
  /\ op = [c \in Calls |-> "idle"]
  /\ list = [c \in Calls |-> <<>>]
  /\ result = [c \in Calls |-> "pending"]
  /\ restarts = 0
  /\ epoch = 0
  /\ since = [c \in Calls |-> 0]
  /\ overtaken = FALSE

Waiting(c) == \E i \in DOMAIN queue : queue[i] = c

(* A call is made.  One that has to save awaits _ensure(), which returns   *)
(* at once when the client is initialised, whoever waits at the init lock. *)
Make(c, what, saves, us) ==
  LET place == IF ready THEN inside + 1 ELSE Len(queue) + 1
  IN  /\ op[c] = "idle"
      /\ op' = [op EXCEPT ![c] = what]
      /\ list' = [list EXCEPT ![c] = us]
      /\ queue' = IF saves THEN InsertAt(queue, place, c) ELSE queue
      /\ inside' = IF saves /\ ready THEN inside + 1 ELSE inside
      /\ overtaken' = \/ saves /\ place <= Len(queue)
                      \/ overtaken /\ what \in {"add", "save"}
      /\ result' = IF saves THEN result ELSE [result EXCEPT ![c] = "ok"]
      /\ UNCHANGED <<vars, ready, restarts>>

-----------------------------------------------------------------------------
(* The adapter's calls.                                                    *)

(* Mutant of Key: the number of calls instead of the number of messages.   *)
KeyOfCall(i) == addCount + i - 1

(* f"msg:{len(self._messages)}" for the i-th message of a call.            *)
Key(i) == Len(kept) + i - 1

(* Mutant of Due: the count is compared one call late.                     *)
DueLate == auto /\ addCount > 0 /\ addCount % Every = 0

Due == auto /\ (addCount + 1) % Every = 0

(* aadd_messages: the loop has no await, and the snapshot that may follow  *)
(* copies the list before it waits for anything.                           *)
Add(c) ==
  \E n \in Batches, tick \in Ticks :
    LET new   == [i \in 1..n |-> <<c, i>>]
        at(i) == clock + 1 + (i - 1) * tick
    IN  /\ Make(c, "add", Due, kept \o new)
        /\ kept' = kept \o new
        /\ key' = [u \in Units |-> IF u \in Range(new) THEN Key(u[2]) ELSE key[u]]
        /\ stamp' = [u \in Units |-> IF u \in Range(new) THEN at(u[2]) ELSE stamp[u]]
        /\ clock' = at(n)
        /\ addCount' = addCount + 1
        /\ since' = [since EXCEPT ![c] = epoch]
        /\ UNCHANGED <<auto, epoch>>

(* Mutant of Clear: the snapshot is empty but the lists are not.           *)
ClearStoreOnly(c) ==
  /\ Make(c, "clear", TRUE, <<>>)
  /\ epoch' = epoch + 1
  /\ since' = [since EXCEPT ![c] = epoch + 1]
  /\ UNCHANGED <<adapterVars, unitVars>>

(* aclear: the lists are emptied before the empty snapshot is awaited.     *)
Clear(c) ==
  /\ Make(c, "clear", TRUE, <<>>)
  /\ kept' = <<>>
  /\ epoch' = epoch + 1
  /\ since' = [since EXCEPT ![c] = epoch + 1]
  /\ UNCHANGED <<addCount, auto, unitVars>>

Save(c) ==
  /\ Make(c, "save", TRUE, kept)
  /\ since' = [since EXCEPT ![c] = epoch]
  /\ UNCHANGED <<adapterVars, unitVars, epoch>>

(* sf.rollback() to some snapshot of the session; the adapter is not told. *)
RollBack(c) ==
  \E r \in db.snaps :
    /\ r.session = Session
    /\ Make(c, "rollback", TRUE, list[r.id])
    /\ epoch' = epoch + 1
    /\ since' = [since EXCEPT ![c] = epoch + 1]
    /\ UNCHANGED <<adapterVars, unitVars>>

-----------------------------------------------------------------------------
(* What comes of a call that waits.                                        *)

(* The call at the init lock that goes on next initialises the client      *)
(* unless it finds that done.                                              *)
Entering(c) == inside < Len(queue) /\ queue[inside + 1] = c

Enter(c) ==
  /\ Entering(c)
  /\ ready' = TRUE
  /\ inside' = inside + 1
  /\ UNCHANGED <<vars, adapterVars, unitVars, callVars, queue, overtaken, restarts, epoch>>

(* Mutant of Served: waiters are served in any order.                      *)
ServedInAnyOrder(c) == \E i \in 1..inside : queue[i] = c

Served(c) == inside > 0 /\ Head(queue) = c

Leave(c, r) ==
  /\ \E i \in DOMAIN queue :
       /\ queue[i] = c
       /\ queue' = RemoveAt(queue, i)
       /\ inside' = IF i <= inside THEN inside - 1 ELSE inside
  /\ result' = [result EXCEPT ![c] = r]
  /\ UNCHANGED <<adapterVars, unitVars, ready, overtaken, op, list, restarts, epoch, since>>

(* A closed client stores nothing.                                         *)
Store(c) ==
  /\ ready
  /\ Advance(c, Session, Range(list[c]),
             [u \in Units |-> IF u \in Range(list[c]) /\ db.units[u] = None
                                THEN c ELSE db.units[u]])
  /\ UNCHANGED target

Write(c) == Served(c) /\ Store(c) /\ Leave(c, "ok")

(* The initialisation fails, or the write does.                            *)
Fail(c) ==
  /\ \/ Served(c) /\ ("fail" \in Failures \/ ~ready)
     \/ Entering(c) /\ "fail" \in Failures /\ ~ready
  /\ Leave(c, "raised")
  /\ UNCHANGED vars

(* A call cancelled at its COMMIT may still be committed.                  *)
Cancel(c) ==
  /\ "cancel" \in Failures
  /\ Waiting(c)
  /\ Leave(c, "raised")
  /\ UNCHANGED vars \/ (Served(c) /\ Store(c))

(* sf.close(), and some other call of the client that initialises it.      *)
CloseOrOpen ==
  /\ ready' = ~ready
  /\ UNCHANGED <<vars, adapterVars, unitVars, callVars, queue, inside, overtaken, restarts, epoch>>

-----------------------------------------------------------------------------
(* Replacing the adapter.                                                  *)

(* The units of us that no other is older than.                            *)
Oldest(us) == {u \in us : \A v \in us : stamp[u] <= stamp[v]}

(* Mutant of Resumable: the units in the order of the rows.                *)
RowOrder(us) ==
  {seq \in [1..Cardinality(us) -> us] : \A i, j \in DOMAIN seq : i # j => seq[i] # seq[j]}

(* The message units of a snapshot sorted by created_at.  The sort is      *)
(* stable and the rows come in no particular order, so those that tie may  *)
(* end up in any.                                                          *)
Resumable(us) ==
  LET First[n \in 0..Cardinality(us)] ==
        IF n = 0 THEN {<<>>}
        ELSE UNION {{Append(seq, u) : u \in Oldest(us \ Range(seq))} : seq \in First[n - 1]}
  IN  First[Cardinality(us)]

Replace(us, automatic) ==
  /\ restarts < MaxRestarts
  /\ queue = <<>>
  /\ kept' = us
  /\ auto' = automatic
  /\ addCount' = 0
  /\ restarts' = restarts + 1
  /\ epoch' = epoch + 1
  /\ ready' = TRUE
  /\ overtaken' = FALSE
  /\ UNCHANGED <<vars, unitVars, callVars, queue, inside>>

(* from_snapshot() of any snapshot of the session; get_units() initialises *)
(* the client.                                                             *)
Resume ==
  \E r \in db.snaps : \E us \in Resumable(Members(db, r.id)) : Replace(us, FALSE)

(* The process dies; the next one starts with an empty adapter, or resumes *)
(* with its next step.                                                     *)
Crash ==
  /\ "crash" \in Failures
  /\ restarts < MaxRestarts
  /\ kept' = <<>>
  /\ auto' \in BOOLEAN
  /\ addCount' = 0
  /\ restarts' = restarts + 1
  /\ epoch' = epoch + 1
  /\ ready' = FALSE
  /\ queue' = <<>>
  /\ inside' = 0
  /\ overtaken' = FALSE
  /\ result' = [c \in Calls |-> IF Waiting(c) THEN "raised" ELSE result[c]]
  /\ UNCHANGED <<vars, unitVars, op, list, since>>

HistoryTerminating ==
  /\ queue = <<>>
  /\ \A c \in Calls : op[c] # "idle"
  /\ UNCHANGED histVars

HistoryNext ==
  \/ \E c \in Calls : \/ Add(c) \/ Clear(c) \/ Save(c) \/ RollBack(c)
                      \/ Enter(c) \/ Write(c) \/ Fail(c) \/ Cancel(c)
  \/ CloseOrOpen
  \/ Resume
  \/ Crash
  \/ HistoryTerminating

HistorySpec == HistoryInit /\ [][HistoryNext]_histVars

-----------------------------------------------------------------------------
InHead == IF db.heads[Session] = None THEN {} ELSE Members(db, db.heads[Session])

Saving(c) == op[c] \in {"add", "save"} /\ list[c] # <<>>

Stored(c) == HasSnapshot(db, c)

(* What snapshot() or a saving aadd_messages() has returned stays in every *)
(* later head until the list is cleared, rolled back or replaced: of two   *)
(* overlapping calls the one that copied fewer messages never has the last *)
(* word, unless it was overtaken at the init lock of the client.           *)
ReturnedIsSaved ==
  ~overtaken =>
    \A c \in Calls :
      Stored(c) /\ Saving(c) /\ result[c] = "ok" /\ since[c] = epoch =>
        Range(list[c]) \subseteq InHead

(* Once aclear() has returned, the messages it dropped are out of the head *)
(* for good, unless a rollback or another adapter brings them back, or a   *)
(* save that the clear or a later call overtook at the init lock.          *)
ClearSticks ==
  ~overtaken =>
    \A c \in Calls :
      op[c] = "clear" /\ result[c] = "ok" /\ since[c] = epoch =>
        \A u \in InHead : since[u[1]] = epoch

(* With auto_snapshot, and as long as no call failed and none was          *)
(* overtaken at the init lock, fewer than snapshot_every calls of          *)
(* aadd_messages are missing from the head when nothing is in progress:    *)
(* that much a crash may cost and no more.                                 *)
AutoSaved ==
  LET now == {c \in Calls : op[c] # "idle" /\ since[c] = epoch}
      unsaved == {c \in now : op[c] = "add" /\ <<c, 1>> \notin InHead}
  IN  auto /\ ~overtaken /\ queue = <<>> /\ (\A c \in now : result[c] = "ok")
        => Cardinality(unsaved) < Every

(* The messages of a snapshot have different keys, through clears, retries *)
(* and resumed adapters: diff() tells units apart by their key.            *)
KeysDistinct ==
  \A r \in db.snaps : \A u, v \in Members(db, r.id) : u # v => key[u] # key[v]

(* from_snapshot() gives back the list that was saved: the same messages,  *)
(* in the same order wherever their created_at differ.                     *)
ResumedAsSaved ==
  restarts' # restarts /\ kept' # <<>> =>
    \E r \in db.snaps :
      LET old == list[r.id] IN
      /\ Len(kept') = Len(old)
      /\ Range(kept') = Range(old)
      /\ \A i, j \in DOMAIN old : \A m, n \in DOMAIN kept' :
           /\ i < j /\ stamp[old[i]] < stamp[old[j]]
           /\ kept'[m] = old[i] /\ kept'[n] = old[j]
           => m < n

Resumes == [][ResumedAsSaved]_histVars
=============================================================================
