------------------------------ MODULE Lifecycle ------------------------------
(***************************************************************************)
(* Opening and closing the connection under calls in flight: _ensure() and *)
(* close() of client.py, initialize() and close() of the backend, open()   *)
(* and close() of _AsyncConn, for the unencrypted driver.                  *)
(*                                                                         *)
(* A connection is served by a thread of its own, which runs the jobs      *)
(* tasks have queued on it in order, close() being one of them.  A task    *)
(* that resumes with the result of a statement queues its next one in the  *)
(* same step, on the connection _aio names by then.  A call stands for     *)
(* snapshot() or rollback() (Locked) or for write_provenance(): one read,  *)
(* then a transaction of two rows.                                         *)
(*                                                                         *)
(* create_session() is not one of the calls.  Its INSERT and its commit    *)
(* take no lock: beside it a BEGIN can meet its transaction and fail, and  *)
(* its commit can store half of a call.  StateForge has it.                *)
(***************************************************************************)
EXTENDS Naturals, Sequences, FiniteSets

CONSTANTS
  Calls,     \* the calls that write, each made once
  Locked,    \* those that take the session lock
  Closers,   \* the calls of close()
  MaxConns,  \* how often open() may be called: a bound for TLC
  Faults,    \* what may go wrong: "open", "statement", "commit", "cancel"
  Overlap,   \* close() may be called while another close() runs
  None

Tasks == Calls \cup Closers
Conns == 1..MaxConns
Rows  == Calls \X {1, 2}

ASSUME LifecycleAssumption ==
  /\ Locked \subseteq Calls
  /\ Calls \cap Closers = {}
  /\ MaxConns \in Nat
  /\ None \notin Tasks \cup Conns
  /\ \A rows \in SUBSET Rows : rows # None
  /\ Faults \subseteq {"open", "statement", "commit", "cancel"}
  /\ Overlap \in BOOLEAN

VARIABLES
  aio,          \* _AsyncConn._aio, the connection in use
  live,         \* the connections whose thread is running
  opened,       \* how many were opened
  jobs,         \* the queue of each thread: the task awaiting each job, or None
  txn,          \* the rows of the transaction open on each, None without one
  stored,       \* the committed rows
  initialized,  \* the _initialized flags of the client and of the backend
  lock,         \* the holders of _init_lock, the session's lock, _txn_lock
  pc,           \* the await each task stands at
  result,
  spoiled,      \* the connections a failed COMMIT or ROLLBACK left in a transaction
  shaken,       \* calls that overlapped a close(), met a spoiled connection,
                \* or overlapped a call that did
  faulted       \* calls hit by a fault

connVars == <<aio, live, opened, txn, stored>>
auxVars  == <<spoiled, shaken, faulted>>
vars == <<aio, live, opened, jobs, txn, stored, initialized,
          lock, pc, result, spoiled, shaken, faulted>>

Locks      == {"init", "session", "txn"}
Pragmas    == {"journal", "sync", "fks"}
Body       == {"ddl", "row1", "row2"}
Statements == {"abort", "read", "begin", "commit", "undo", "close"} \cup Pragmas \cup Body
LockWaits  == {"init_lock", "session_lock", "txn_lock"}
PCs        == {"idle", "open", "done"} \cup LockWaits \cup Statements

Init ==
  /\ aio = None
  /\ live = {}
  /\ opened = 0
  /\ jobs = [k \in Conns |-> <<>>]
  /\ txn = [k \in Conns |-> None]
  /\ stored = {}
  /\ initialized = [client |-> FALSE, backend |-> FALSE]
  /\ lock = [l \in Locks |-> None]
  /\ pc = [t \in Tasks |-> "idle"]
  /\ result = [t \in Tasks |-> "pending"]
  /\ spoiled = {}
  /\ shaken = {}
  /\ faulted = {}

InProgress(t) == pc[t] \notin {"idle", "done"}
Closing       == \E t \in Closers : InProgress(t)
Underway       == {u \in Calls : InProgress(u)}

-----------------------------------------------------------------------------
(* How a step of a task ends.  js is the queues without the job it had.    *)

(* The locks with those of ls given back by t.                             *)
Free(ls, t) == [l \in Locks |-> IF l \in ls /\ lock[l] = t THEN None ELSE lock[l]]

(* Mutant of Return: a failed initialisation keeps the init lock.          *)
ReturnKeepingInit(t, r, js) ==
  /\ pc' = [pc EXCEPT ![t] = "done"]
  /\ result' = [result EXCEPT ![t] = r]
  /\ jobs' = js
  /\ lock' = Free({"session", "txn"}, t)

(* The call returns or raises, leaving every `async with` it is in.        *)
Return(t, r, js) ==
  /\ pc' = [pc EXCEPT ![t] = "done"]
  /\ result' = [result EXCEPT ![t] = r]
  /\ jobs' = js
  /\ lock' = Free(Locks, t)

(* Go on to wait at at, with the queues js and the locks ls.               *)
Wait(t, at, js, ls) ==
  /\ pc' = [pc EXCEPT ![t] = at]
  /\ jobs' = js
  /\ lock' = ls
  /\ UNCHANGED result

(* Queue the next statement on connection k.  With _aio None execute()     *)
(* falls through to the absent cipher connection: an AttributeError, which *)
(* a rollback or a close that follows it meets as well.                    *)
Issue(t, k, at, js, ls) ==
  IF k = None
    THEN Return(t, "error", js)
    ELSE Wait(t, at, [js EXCEPT ![k] = Append(@, t)], ls)

(* Past _ensure(): the session lock, or the first statement.               *)
Proceed(t, js) ==
  IF t \in Locked THEN Wait(t, "session_lock", js, Free({"init", "txn"}, t))
                  ELSE Issue(t, aio, "read", js, Free({"init", "txn"}, t))

(* Mutant of Unwind: initialize() has no except clause.                    *)
UnwindOnly(t, js) == Return(t, "error", js)

(* initialize() closes the connection before the exception propagates.     *)
Unwind(t, js) == Issue(t, aio, "abort", js, Free({"txn"}, t))

(* An exception outside the body of a transaction block.                   *)
Escape(t, js) == IF lock["init"] = t THEN Unwind(t, js) ELSE Return(t, "error", js)

(* Mutant of Fail: the body's exception is not followed by a ROLLBACK.     *)
FailWithoutUndo(t, js) == Escape(t, js)

(* The statement t stands at raises.                                       *)
Fail(t, js) ==
  IF pc[t] \in Body THEN Issue(t, aio, "undo", js, lock) ELSE Escape(t, js)

-----------------------------------------------------------------------------
(* _ensure().                                                              *)

(* A call is made: the fast path, or the init lock.                        *)
Call(t) ==
  /\ pc[t] = "idle"
  /\ IF initialized.client
       THEN Proceed(t, jobs)
       ELSE Wait(t, "init_lock", jobs, lock)
  /\ shaken' = IF \/ Closing
                   \/ (initialized.client /\ aio \in spoiled)
                   \/ \E u \in shaken : InProgress(u)
                 THEN shaken \cup {t} ELSE shaken
  /\ UNCHANGED <<connVars, initialized, spoiled, faulted>>

(* Mutant of LockInit: no lock around the initialisation.                  *)
EnterInit(t) ==
  /\ pc[t] = "init_lock"
  /\ opened < MaxConns
  /\ Wait(t, "open", jobs, lock)
  /\ UNCHANGED <<connVars, initialized, auxVars>>

(* The flags are looked at again under the lock, the client's and then the *)
(* backend's.                                                              *)
LockInit(t) ==
  /\ pc[t] = "init_lock"
  /\ lock["init"] = None
  /\ IF initialized.client \/ initialized.backend
       THEN /\ initialized' = [initialized EXCEPT !.client = TRUE]
            /\ Proceed(t, jobs)
       ELSE /\ opened < MaxConns
            /\ Wait(t, "open", jobs, [lock EXCEPT !["init"] = t])
            /\ UNCHANGED initialized
  /\ UNCHANGED <<connVars, auxVars>>

(* Mutant of Open: open() makes new locks along with the connection.       *)
OpenWithNewLock(t) ==
  /\ pc[t] = "open"
  /\ aio' = opened + 1
  /\ opened' = opened + 1
  /\ live' = live \cup {opened + 1}
  /\ Issue(t, opened + 1, "journal", jobs, [lock EXCEPT !["txn"] = None])
  /\ UNCHANGED <<txn, stored, initialized, auxVars>>

(* open(), which stands before the try of initialize().                    *)
Open(t) ==
  /\ pc[t] = "open"
  /\ \/ /\ aio' = opened + 1
        /\ opened' = opened + 1
        /\ live' = live \cup {opened + 1}
        /\ Issue(t, opened + 1, "journal", jobs, lock)
        /\ UNCHANGED faulted
     \/ /\ "open" \in Faults
        /\ faulted' = faulted \cup {t}
        /\ Return(t, "error", jobs)
        /\ UNCHANGED <<aio, opened, live>>
  /\ UNCHANGED <<txn, stored, initialized, spoiled, shaken>>

-----------------------------------------------------------------------------
(* The thread of connection k runs the job at the head of its queue, the   *)
(* statement t stands at, and t resumes.                                   *)

Turn(t, k) == jobs[k] # <<>> /\ Head(jobs[k]) = t
Rest(k)    == [jobs EXCEPT ![k] = Tail(@)]

(* Nothing runs on a closed connection.  BEGIN and PRAGMA synchronous are  *)
(* refused inside a transaction.                                           *)
Possible(t, k) ==
  /\ k \in live
  /\ pc[t] \in {"begin", "sync"} => txn[k] = None

StatementFails(t, k) ==
  /\ Turn(t, k)
  /\ pc[t] \notin {"abort", "close"}
  /\ \/ ~Possible(t, k) /\ UNCHANGED faulted
     \/ /\ "statement" \in Faults
        /\ pc[t] \notin {"commit", "undo"}
        /\ faulted' = faulted \cup {t}
  /\ Fail(t, Rest(k))
  /\ UNCHANGED <<connVars, initialized, spoiled, shaken>>

(* COMMIT or ROLLBACK raises: SQLite has undone the transaction, or it     *)
(* stays open although transaction() gives its lock back, and every BEGIN  *)
(* on the connection fails until it is closed.                             *)
EndFails(t, k) ==
  /\ Turn(t, k) /\ pc[t] \in {"commit", "undo"} /\ Possible(t, k)
  /\ "commit" \in Faults
  /\ txn[k] # None
  /\ faulted' = faulted \cup {t}
  /\ \/ /\ txn' = [txn EXCEPT ![k] = None]
        /\ UNCHANGED <<spoiled, shaken>>
     \/ /\ spoiled' = spoiled \cup {k}
        /\ shaken' = IF lock["init"] = t THEN shaken ELSE shaken \cup Underway
        /\ UNCHANGED txn
  /\ Fail(t, Rest(k))
  /\ UNCHANGED <<aio, live, opened, stored, initialized>>

Orphaned(t) ==
  [k \in Conns |-> [i \in DOMAIN jobs[k] |-> IF jobs[k][i] = t THEN None ELSE jobs[k][i]]]

(* CancelledError in the task that initialises.  The job of the statement  *)
(* it awaited stays in the queue, ahead of the close that follows and      *)
(* makes up for a PRAGMA, a BEGIN or DDL; a COMMIT or ROLLBACK has its     *)
(* effect at once here.                                                    *)
CancelInit(t) ==
  /\ "cancel" \in Faults
  /\ lock["init"] = t
  /\ pc[t] \in Pragmas \cup Body \cup {"begin", "commit", "undo"}
  /\ faulted' = faulted \cup {t}
  /\ txn' = IF pc[t] \in {"commit", "undo"} THEN [txn EXCEPT ![aio] = None] ELSE txn
  /\ Fail(t, Orphaned(t))
  /\ UNCHANGED <<aio, live, opened, stored, initialized, spoiled, shaken>>

(* The job of a cancelled statement: nobody awaits it.                     *)
RunOrphan(k) ==
  /\ Turn(None, k)
  /\ jobs' = Rest(k)
  /\ UNCHANGED <<connVars, initialized, lock, pc, result, auxVars>>

Pragma(t, k) ==
  /\ Turn(t, k) /\ pc[t] \in Pragmas /\ Possible(t, k)
  /\ IF pc[t] = "fks"
       THEN Wait(t, "txn_lock", Rest(k), lock)
       ELSE Issue(t, aio, IF pc[t] = "journal" THEN "sync" ELSE "fks", Rest(k), lock)
  /\ UNCHANGED <<connVars, initialized, auxVars>>

LockSession(t) ==
  /\ pc[t] = "session_lock"
  /\ lock["session"] = None
  /\ Issue(t, aio, "read", jobs, [lock EXCEPT !["session"] = t])
  /\ UNCHANGED <<connVars, initialized, auxVars>>

(* The statements before the transaction: session head, target, unit.      *)
Read(t, k) ==
  /\ Turn(t, k) /\ pc[t] = "read" /\ Possible(t, k)
  /\ Wait(t, "txn_lock", Rest(k), lock)
  /\ UNCHANGED <<connVars, initialized, auxVars>>

LockTxn(t) ==
  /\ pc[t] = "txn_lock"
  /\ lock["txn"] = None
  /\ Issue(t, aio, "begin", jobs, [lock EXCEPT !["txn"] = t])
  /\ UNCHANGED <<connVars, initialized, auxVars>>

Begin(t, k) ==
  /\ Turn(t, k) /\ pc[t] = "begin" /\ Possible(t, k)
  /\ txn' = [txn EXCEPT ![k] = {}]
  /\ Issue(t, aio, IF lock["init"] = t THEN "ddl" ELSE "row1", Rest(k), lock)
  /\ UNCHANGED <<aio, live, opened, stored, initialized, auxVars>>

(* The body: the migrations, or the rows of a call.  A row written outside *)
(* a transaction opens one.                                                *)
Write(t, k) ==
  /\ Turn(t, k) /\ pc[t] \in Body /\ Possible(t, k)
  /\ LET rows == IF txn[k] = None THEN {} ELSE txn[k] IN
     txn' = [txn EXCEPT ![k] = CASE pc[t] = "ddl"  -> @
                                 [] pc[t] = "row1" -> rows \cup {<<t, 1>>}
                                 [] pc[t] = "row2" -> rows \cup {<<t, 2>>}]
  /\ Issue(t, aio, IF pc[t] = "row1" THEN "row2" ELSE "commit", Rest(k), lock)
  /\ UNCHANGED <<aio, live, opened, stored, initialized, auxVars>>

(* COMMIT: the end of the call, or of the initialisation.                  *)
Commit(t, k) ==
  /\ Turn(t, k) /\ pc[t] = "commit" /\ Possible(t, k)
  /\ stored' = IF txn[k] = None THEN stored ELSE stored \cup txn[k]
  /\ txn' = [txn EXCEPT ![k] = None]
  /\ IF lock["init"] = t
       THEN /\ initialized' = [client |-> TRUE, backend |-> TRUE]
            /\ Proceed(t, Rest(k))
       ELSE /\ Return(t, "ok", Rest(k))
            /\ UNCHANGED initialized
  /\ UNCHANGED <<aio, live, opened, auxVars>>

Undo(t, k) ==
  /\ Turn(t, k) /\ pc[t] = "undo" /\ Possible(t, k)
  /\ txn' = [txn EXCEPT ![k] = None]
  /\ Escape(t, Rest(k))
  /\ UNCHANGED <<aio, live, opened, stored, initialized, auxVars>>

(* The close that ends a failed initialisation.                            *)
Abort(t, k) ==
  /\ Turn(t, k) /\ pc[t] = "abort"
  /\ live' = live \ {k}
  /\ txn' = [txn EXCEPT ![k] = None]
  /\ aio' = None
  /\ Return(t, "error", Rest(k))
  /\ UNCHANGED <<opened, stored, initialized, auxVars>>

-----------------------------------------------------------------------------
(* close(): nothing to do before the first call, or while it initialises.  *)
Close(t) ==
  /\ pc[t] = "idle"
  /\ Closing => Overlap
  /\ IF initialized.client /\ aio # None
       THEN /\ Issue(t, aio, "close", jobs, lock)
            /\ shaken' = shaken \cup Underway
            /\ UNCHANGED initialized
       ELSE /\ Return(t, "ok", jobs)
            /\ initialized' = IF initialized.client
                                THEN [client |-> FALSE, backend |-> FALSE]
                                ELSE initialized
            /\ UNCHANGED shaken
  /\ UNCHANGED <<connVars, spoiled, faulted>>

(* Mutant of Closed: the backend still believes it is initialised.         *)
ClosedKeepingFlag(t, k) ==
  /\ Turn(t, k) /\ pc[t] = "close"
  /\ live' = live \ {k}
  /\ txn' = [txn EXCEPT ![k] = None]
  /\ aio' = None
  /\ initialized' = [initialized EXCEPT !.client = FALSE]
  /\ Return(t, "ok", Rest(k))
  /\ UNCHANGED <<opened, stored, auxVars>>

(* The thread closes the connection, which undoes an open transaction, and *)
(* ends; the task that closes forgets whichever connection is in use then. *)
Closed(t, k) ==
  /\ Turn(t, k) /\ pc[t] = "close"
  /\ live' = live \ {k}
  /\ txn' = [txn EXCEPT ![k] = None]
  /\ aio' = None
  /\ initialized' = [client |-> FALSE, backend |-> FALSE]
  /\ Return(t, "ok", Rest(k))
  /\ UNCHANGED <<opened, stored, auxVars>>

Step(t) ==
  \/ LockInit(t) \/ Open(t) \/ LockSession(t) \/ LockTxn(t)
  \/ \E k \in Conns :
       \/ StatementFails(t, k) \/ EndFails(t, k) \/ Pragma(t, k) \/ Read(t, k) \/ Begin(t, k)
       \/ Write(t, k) \/ Commit(t, k) \/ Undo(t, k) \/ Abort(t, k) \/ Closed(t, k)

Terminating ==
  /\ \A t \in Tasks : ~InProgress(t)
  /\ UNCHANGED vars

Next ==
  \/ \E t \in Calls : Call(t) \/ CancelInit(t)
  \/ \E t \in Closers : Close(t)
  \/ \E t \in Tasks : Step(t)
  \/ \E k \in Conns : RunOrphan(k)
  \/ Terminating

Spec == Init /\ [][Next]_vars

(* The threads run, and the event loop resumes every task whose await has  *)
(* completed.                                                              *)
FairSpec ==
  /\ Spec
  /\ \A t \in Tasks : WF_vars(Step(t))
  /\ \A k \in Conns : WF_vars(RunOrphan(k))

-----------------------------------------------------------------------------
(* A connection whose thread runs is the one the client would close: no    *)
(* failed, cancelled or repeated initialisation leaves a thread behind     *)
(* that keeps the process from exiting (the comment in initialize()).      *)
NoLeak == live \subseteq {aio}

(* A close() and a reopening under a call never tear it: its two rows are  *)
(* in the file together or not at all, and they are there when it returned *)
(* and not there when it raised.                                           *)
Answers ==
  \A c \in Calls :
    /\ <<c, 1>> \in stored <=> <<c, 2>> \in stored
    /\ result[c] = "ok"    => <<c, 1>> \in stored
    /\ result[c] = "error" => <<c, 1>> \notin stored

(* Only its own faults, close() and a failed COMMIT make a call raise: a   *)
(* call made after a close() reopens the file, which cures a failed COMMIT *)
(* as well, and the failed initialisation of one task is not the error of  *)
(* another that waited for it.                                             *)
NoStrayErrors ==
  \A c \in Calls : result[c] = "error" => c \in shaken \cup faulted

(* A transaction is open on the connection in use only while a task holds  *)
(* the transaction lock, across close() and reopening, unless the COMMIT   *)
(* or ROLLBACK of that transaction on that connection has failed.          *)
ConnectionClean ==
  aio # None /\ lock["txn"] = None /\ aio \notin spoiled => txn[aio] = None

(* Every call returns: none of the three locks is lost or waited for in a  *)
(* cycle, and close() neither blocks nor is blocked.  Each task runs once, *)
(* so that they all return when in the end none is in progress.            *)
CallsReturn == <>[](\A t \in Tasks : ~InProgress(t))
=============================================================================
