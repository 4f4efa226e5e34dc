----------------------------- MODULE StateForge -----------------------------
(***************************************************************************)
(* The write path of StateForge: the calls create_session, snapshot,       *)
(* rollback and write_provenance of client.py, running as asyncio tasks of *)
(* one process over the single connection of storage/sqlite.py.            *)
(*                                                                         *)
(* A call's step is the stretch between two awaits, and every SQL          *)
(* statement is one step: aiosqlite queues statements to one thread (the   *)
(* encrypted driver to a one-worker executor), so statements of different  *)
(* calls interleave but never overlap.  The connection holds two images of *)
(* the database: disk, the committed one, and work, the one every          *)
(* statement of this process reads and writes.                             *)
(***************************************************************************)
EXTENDS Database

CONSTANTS
  UnitLists,  \* the lists of units a caller passes to snapshot()
  Traces,     \* the hop indices of the traces passed to write_provenance()
  Ops,        \* the operations used
  Faults,     \* what may go wrong: see FaultKinds
  Encrypted   \* FALSE: sqlite3 through aiosqlite, TRUE: sqlcipher3

OpKinds == {"snapshot", "rollback", "provenance", "create"}

(* "statement": a statement fails (disk full, I/O error); "commit": COMMIT *)
(* fails and the transaction stays open (SQLITE_BUSY); "discard": COMMIT   *)
(* fails and SQLite has rolled the transaction back itself (SQLITE_IOERR,  *)
(* SQLITE_FULL); "cancel": the task is cancelled; "crash": the process     *)
(* dies.                                                                   *)
FaultKinds == {"statement", "commit", "discard", "cancel", "crash"}

ASSUME StateForgeAssumption ==
  /\ UnitLists \subseteq Seq(Units)
  /\ Traces \subseteq Seq(Nat)
  /\ Ops \subseteq OpKinds
  /\ Faults \subseteq FaultKinds
  /\ Encrypted \in BOOLEAN

VARIABLES
  disk,      \* the committed database
  work,      \* the database as the connection sees it
  inTxn,     \* a transaction is open on the connection
  txnLock,   \* holder of _AsyncConn._txn_lock
  sessLock,  \* holders of StateForge._session_locks
  pc,        \* where each call is
  call,      \* the arguments of each call, and the parent_id it read
  result     \* what each call returned to its caller

dbVars   == <<disk, work, inTxn>>
lockVars == <<txnLock, sessLock>>
vars     == <<disk, work, inTxn, txnLock, sessLock, pc, call, result>>

Waiting == {"session_lock", "read_head", "read_target", "check", "txn_lock"}
Body    == {"units", "snap", "links", "head", "copy", "prov", "hops"}
InBlock == {"begin", "commit", "undo"} \cup Body   \* holding _txn_lock
PCs     == {"idle", "insert", "create_commit", "done"} \cup Waiting \cup InBlock
Results == {"pending", "ok", "error", "cancelled", "crashed"}

CallRecord == [op      : OpKinds,
               session : Sessions,
               units   : UnitLists \cup {<<>>},
               target  : Calls \cup {None},
               unit    : Units \cup {None},
               trace   : Traces \cup {<<>>},
               parent  : Calls \cup {None}]

NewCall(op, s) == [op |-> op, session |-> s, units |-> <<>>, target |-> None,
                   unit |-> None, trace |-> <<>>, parent |-> None]

Init ==
  /\ disk = EmptyDB
  /\ work = EmptyDB
  /\ inTxn = FALSE
  /\ txnLock = None
  /\ sessLock = [s \in Sessions |-> None]
  /\ pc = [c \in Calls |-> "idle"]
  /\ call = [c \in Calls |-> NewCall("create", c)]
  /\ result = [c \in Calls |-> "pending"]

-----------------------------------------------------------------------------
(* What a step does to the call that takes it.                             *)

Goto(c, next) ==
  /\ pc' = [pc EXCEPT ![c] = next]
  /\ UNCHANGED <<txnLock, sessLock, call, result>>

(* Mutant of Raise: a `finally: commit()` instead of the rollback.         *)
RaiseToCommit(c, why) ==
  /\ pc' = [pc EXCEPT ![c] = "commit"]
  /\ UNCHANGED <<txnLock, sessLock, call, result>>

(* An exception inside the transaction block: ROLLBACK comes next.         *)
Raise(c, why) ==
  /\ pc' = [pc EXCEPT ![c] = "undo"]
  /\ result' = [result EXCEPT ![c] = why]
  /\ UNCHANGED <<txnLock, sessLock, call>>

(* Return to the caller, leaving the `async with` blocks of both locks.    *)
Finish(c, r) ==
  /\ pc' = [pc EXCEPT ![c] = "done"]
  /\ result' = [result EXCEPT ![c] = r]
  /\ txnLock' = IF txnLock = c THEN None ELSE txnLock
  /\ sessLock' = [s \in Sessions |->
                    IF sessLock[s] = c THEN None ELSE sessLock[s]]
  /\ UNCHANGED call

(* What a statement does to the connection.  sqlite3's default isolation   *)
(* level opens a transaction before a DML statement that finds none;       *)
(* sqlcipher3 runs with isolation_level None and commits it at once.       *)
Execute(db) ==
  /\ work' = db
  /\ inTxn' = (inTxn \/ ~Encrypted)
  /\ disk' = IF inTxn \/ ~Encrypted THEN disk ELSE db

CommitWork   == disk' = work /\ inTxn' = FALSE /\ UNCHANGED work
RollbackWork == work' = disk /\ inTxn' = FALSE /\ UNCHANGED disk

-----------------------------------------------------------------------------
(* The calls.  A caller may pass any id it could have seen, or an unknown  *)
(* one: c itself, the uuid no row has.                                     *)

Invoke(c, rec, next) ==
  /\ pc[c] = "idle"
  /\ pc' = [pc EXCEPT ![c] = next]
  /\ call' = [call EXCEPT ![c] = rec]
  /\ UNCHANGED <<disk, work, inTxn, txnLock, sessLock, result>>

AnySession(c)  == {s \in Sessions : HasSession(work, s)} \cup {c}
AnySnapshot(c) == {r.id : r \in work.snaps} \cup {c}

Snapshot(c) ==
  /\ "snapshot" \in Ops
  /\ \E s \in AnySession(c), us \in UnitLists :
       Invoke(c, [NewCall("snapshot", s) EXCEPT !.units = us], "session_lock")

Rollback(c) ==
  /\ "rollback" \in Ops
  /\ \E s \in AnySession(c), t \in AnySnapshot(c) :
       Invoke(c, [NewCall("rollback", s) EXCEPT !.target = t], "session_lock")

(* write_provenance goes straight to the backend, without a session lock.  *)
WriteProvenance(c) ==
  /\ "provenance" \in Ops
  /\ \E u \in Units, tr \in Traces :
       Invoke(c, [NewCall("provenance", c) EXCEPT !.unit = u, !.trace = tr],
              "check")

CreateSession(c) ==
  /\ "create" \in Ops
  /\ Invoke(c, NewCall("create", c), "insert")

(* Mutant of LockSession: no lock per session.                             *)
EnterSession(c) ==
  /\ pc[c] = "session_lock"
  /\ pc' = [pc EXCEPT ![c] = "read_head"]
  /\ UNCHANGED <<disk, work, inTxn, txnLock, sessLock, call, result>>

LockSession(c) ==
  /\ pc[c] = "session_lock"
  /\ sessLock[call[c].session] = None
  /\ sessLock' = [sessLock EXCEPT ![call[c].session] = c]
  /\ pc' = [pc EXCEPT ![c] = "read_head"]
  /\ UNCHANGED <<disk, work, inTxn, txnLock, call, result>>

(* Mutant of ReadHead: a missing session row is not noticed.               *)
ReadHeadUnchecked(c) ==
  /\ pc[c] = "read_head"
  /\ UNCHANGED dbVars
  /\ call' = [call EXCEPT ![c].parent = work.heads[call[c].session]]
  /\ pc' = [pc EXCEPT ![c] = IF call[c].op = "rollback"
                               THEN "read_target" ELSE "check"]
  /\ UNCHANGED <<txnLock, sessLock, result>>

(* get_session inside the session lock: the head becomes the parent_id.    *)
ReadHead(c) ==
  /\ pc[c] = "read_head"
  /\ UNCHANGED dbVars
  /\ LET h == work.heads[call[c].session] IN
     \/ /\ h = Absent
        /\ Finish(c, "error")
     \/ /\ h # Absent
        /\ call' = [call EXCEPT ![c].parent = h]
        /\ pc' = [pc EXCEPT ![c] = IF call[c].op = "rollback"
                                     THEN "read_target" ELSE "check"]
        /\ UNCHANGED <<txnLock, sessLock, result>>

(* Mutant of ReadTarget: the target may belong to another session.         *)
ReadTargetAnywhere(c) ==
  /\ pc[c] = "read_target"
  /\ UNCHANGED dbVars
  /\ IF HasSnapshot(work, call[c].target)
       THEN Goto(c, "check") ELSE Finish(c, "error")

(* rollback(): the target must exist and belong to the same session.       *)
ReadTarget(c) ==
  /\ pc[c] = "read_target"
  /\ UNCHANGED dbVars
  /\ IF SnapshotIn(work, call[c].target, call[c].session)
       THEN Goto(c, "check") ELSE Finish(c, "error")

(* The existence check a backend method makes before its transaction.      *)
Checked(c) ==
  CASE call[c].op = "snapshot"   -> HasSession(work, call[c].session)
    [] call[c].op = "rollback"   -> HasSnapshot(work, call[c].target)
    [] call[c].op = "provenance" -> work.units[call[c].unit] # None

Check(c) ==
  /\ pc[c] = "check"
  /\ UNCHANGED dbVars
  /\ IF Checked(c) THEN Goto(c, "txn_lock") ELSE Finish(c, "error")

-----------------------------------------------------------------------------
(* The transaction block: lock, BEGIN IMMEDIATE, body, COMMIT or ROLLBACK. *)

LockTxn(c) ==
  /\ pc[c] = "txn_lock"
  /\ txnLock = None
  /\ txnLock' = c
  /\ pc' = [pc EXCEPT ![c] = "begin"]
  /\ UNCHANGED <<disk, work, inTxn, sessLock, call, result>>

FirstStatement(c) ==
  CASE call[c].op = "provenance" -> "prov"
    [] call[c].op = "rollback"   -> "snap"
    [] call[c].op = "snapshot"   -> IF call[c].units = <<>> THEN "snap" ELSE "units"

(* BEGIN stands before the try: its failure releases the lock and nothing  *)
(* else.  It fails when a transaction is already open.                     *)
Begin(c) ==
  /\ pc[c] = "begin"
  /\ UNCHANGED <<disk, work>>
  /\ \/ /\ ~inTxn
        /\ inTxn' = TRUE
        /\ Goto(c, FirstStatement(c))
     \/ /\ inTxn \/ "statement" \in Faults
        /\ UNCHANGED inTxn
        /\ Finish(c, "error")

(* Mutant of ExecuteOne: the error of a statement is swallowed.            *)
ExecuteOneSwallowing(c, good, db, next) ==
  /\ \/ good /\ Execute(db)
     \/ (~good \/ "statement" \in Faults) /\ Execute(work)
  /\ Goto(c, next)

(* A statement of one row.                                                 *)
ExecuteOne(c, good, db, next) ==
  \/ good /\ Execute(db) /\ Goto(c, next)
  \/ (~good \/ "statement" \in Faults) /\ Execute(work) /\ Raise(c, "error")

(* An executemany over xs: all rows, or those before the one that fails.   *)
ExecuteMany(c, xs, Good(_), Keep(_), next) ==
  \/ /\ \A k \in DOMAIN xs : Good(k)
     /\ Execute(Keep(Range(xs)))
     /\ Goto(c, next)
  \/ \E k \in DOMAIN xs :
       /\ \A j \in 1..(k - 1) : Good(j)
       /\ ~Good(k) \/ "statement" \in Faults
       /\ Execute(Keep(Prefix(xs, k - 1)))
       /\ Raise(c, "error")

WriteUnits(c) ==
  /\ pc[c] = "units"
  /\ LET us == call[c].units
         Good(k) == GoodUnit(work, us, k)
         Keep(rows) == KeepUnits(work, c, rows)
     IN  ExecuteMany(c, us, Good, Keep, "snap")

WriteSnapshot(c) ==
  /\ pc[c] = "snap"
  /\ LET s == call[c].session
         p == call[c].parent
     IN  ExecuteOne(c, GoodSnapshot(work, s, p), InsertSnapshot(work, c, s, p),
                    IF call[c].op = "rollback" THEN "copy"
                    ELSE IF call[c].units = <<>> THEN "head" ELSE "links")

WriteLinks(c) ==
  /\ pc[c] = "links"
  /\ LET us == call[c].units
         Good(k) == GoodLink(work, c, us, k)
         Keep(rows) == KeepLinks(work, c, rows)
     IN  ExecuteMany(c, us, Good, Keep, "head")

WriteCopy(c) ==
  /\ pc[c] = "copy"
  /\ ExecuteOne(c, HasSnapshot(work, c), CopyLinks(work, c, call[c].target), "head")

WriteHead(c) ==
  /\ pc[c] = "head"
  /\ ExecuteOne(c, TRUE, SetHead(work, call[c].session, c), "commit")

(* Mutant of WriteProv: the record is committed before its hops.           *)
WriteProvAlone(c) ==
  /\ pc[c] = "prov"
  /\ work' = InsertProvenance(work, c, call[c].unit)
  /\ disk' = work'
  /\ UNCHANGED inTxn
  /\ Goto(c, IF call[c].trace = <<>> THEN "commit" ELSE "hops")

WriteProv(c) ==
  /\ pc[c] = "prov"
  /\ ExecuteOne(c, GoodProvenance(work, call[c].unit),
                InsertProvenance(work, c, call[c].unit),
                IF call[c].trace = <<>> THEN "commit" ELSE "hops")

WriteHops(c) ==
  /\ pc[c] = "hops"
  /\ LET tr == call[c].trace
         Good(k) == GoodHop(work, tr, k)
         Keep(rows) == KeepHops(work, c, rows)
     IN  ExecuteMany(c, tr, Good, Keep, "commit")

(* Mutant of CommitStep: the error of COMMIT is swallowed.                 *)
CommitStepSwallowing(c) ==
  /\ CommitWork \/ ("commit" \in Faults /\ inTxn /\ UNCHANGED dbVars)
  /\ Finish(c, "ok")

(* COMMIT, a no-op outside a transaction.                                  *)
CommitStep(c) ==
  \/ CommitWork /\ Finish(c, "ok")
  \/ /\ inTxn
     /\ \/ "commit" \in Faults /\ UNCHANGED dbVars
        \/ "discard" \in Faults /\ RollbackWork
     /\ Finish(c, "error")

Commit(c) == pc[c] = "commit" /\ CommitStep(c)

Undo(c) ==
  /\ pc[c] = "undo"
  /\ RollbackWork
  /\ Finish(c, result[c])

(* create_session takes neither lock and opens no transaction block.       *)
InsertSessionRow(c) ==
  /\ pc[c] = "insert"
  /\ \/ Execute(InsertSession(work, c)) /\ Goto(c, "create_commit")
     \/ "statement" \in Faults /\ Execute(work) /\ Finish(c, "error")

CommitSession(c) == pc[c] = "create_commit" /\ CommitStep(c)

-----------------------------------------------------------------------------
(* Cancellation: CancelledError is raised at the await the call stands at. *)
(* A statement already handed to aiosqlite's thread runs all the same; the *)
(* encrypted driver may drop it from its executor's queue.                 *)

CancelWaiting(c) ==
  /\ pc[c] \in Waiting \cup {"insert"}
  /\ UNCHANGED dbVars
  /\ Finish(c, "cancelled")

CancelBegin(c) ==
  /\ pc[c] = "begin"
  /\ UNCHANGED <<disk, work>>
  /\ inTxn' = TRUE \/ (Encrypted /\ UNCHANGED inTxn)
  /\ Finish(c, "cancelled")

(* At the last statement of the body as well: the call has not reached     *)
(* COMMIT yet when the exception is raised.                                *)
CancelBody(c) ==
  /\ pc[c] \in Body \cup {"commit"}
  /\ UNCHANGED dbVars
  /\ Raise(c, "cancelled")

(* COMMIT and ROLLBACK stand outside the try as well.                      *)
CancelEnd(c) ==
  /\ \/ pc[c] = "commit" /\ CommitWork
     \/ pc[c] = "undo" /\ RollbackWork
     \/ pc[c] \in {"commit", "undo"} /\ Encrypted /\ UNCHANGED dbVars
  /\ Finish(c, "cancelled")

CancelCreate(c) ==
  /\ pc[c] = "create_commit"
  /\ CommitWork \/ UNCHANGED dbVars
  /\ Finish(c, "cancelled")

Cancel(c) ==
  /\ "cancel" \in Faults
  /\ \/ CancelWaiting(c) \/ CancelBegin(c) \/ CancelBody(c)
     \/ CancelEnd(c) \/ CancelCreate(c)

InProgress(c) == pc[c] \notin {"idle", "done"}

(* The process dies and a new one opens the file: the journal undoes the   *)
(* open transaction, locks and tasks are gone.                             *)
Crash ==
  /\ "crash" \in Faults
  /\ inTxn \/ \E c \in Calls : InProgress(c)
  /\ RollbackWork
  /\ txnLock' = None
  /\ sessLock' = [s \in Sessions |-> None]
  /\ pc' = [c \in Calls |-> IF InProgress(c) THEN "done" ELSE pc[c]]
  /\ result' = [c \in Calls |-> IF InProgress(c) THEN "crashed" ELSE result[c]]
  /\ UNCHANGED call

(* Every call has been made and has returned.                              *)
Terminating ==
  /\ \A c \in Calls : pc[c] = "done"
  /\ UNCHANGED vars

Request(c) == Snapshot(c) \/ Rollback(c) \/ WriteProvenance(c) \/ CreateSession(c)

Step(c) ==
  \/ LockSession(c) \/ ReadHead(c) \/ ReadTarget(c) \/ Check(c)
  \/ LockTxn(c) \/ Begin(c)
  \/ WriteUnits(c) \/ WriteSnapshot(c) \/ WriteLinks(c) \/ WriteCopy(c)
  \/ WriteHead(c) \/ WriteProv(c) \/ WriteHops(c)
  \/ Commit(c) \/ Undo(c)
  \/ InsertSessionRow(c) \/ CommitSession(c)

Next ==
  \/ \E c \in Calls : Request(c) \/ Step(c) \/ Cancel(c)
  \/ Crash
  \/ Terminating

Spec == Init /\ [][Next]_vars

-----------------------------------------------------------------------------
(* The state has the shape declared above.                                 *)
TypeOK ==
  /\ disk \in DB
  /\ work \in DB
  /\ inTxn \in BOOLEAN
  /\ txnLock \in Calls \cup {None}
  /\ sessLock \in [Sessions -> Calls \cup {None}]
  /\ pc \in [Calls -> PCs]
  /\ call \in [Calls -> CallRecord]
  /\ result \in [Calls -> Results]

HeadsResolve(db) ==
  \A s \in Sessions : db.heads[s] \in Calls => SnapshotIn(db, db.heads[s], s)

(* head_snapshot_id carries no foreign key (sqlite.py:48), yet in every    *)
(* state, committed or seen by the process, it names a stored snapshot of  *)
(* its own session: head() and the next snapshot() never meet a dangling   *)
(* head, whatever fails or is cancelled.                                   *)
HeadIntegrity == HeadsResolve(disk) /\ HeadsResolve(work)

ParentsResolve(db) ==
  \A r \in db.snaps :
    /\ HasSession(db, r.session)
    /\ r.parent # None => SnapshotIn(db, r.parent, r.session)

(* The parent_id a call read before its transaction still names a stored   *)
(* snapshot of the same session when the row is there: histories never     *)
(* cross sessions, although the foreign key would allow it.                *)
ParentIntegrity == ParentsResolve(disk) /\ ParentsResolve(work)

(* The units a committed snapshot must hold.                               *)
Expected(c) ==
  IF call[c].op = "rollback" THEN Members(disk, call[c].target)
                             ELSE Range(call[c].units)

SnapshotWhole ==
  \A r \in disk.snaps :
    /\ Members(disk, r.id) = Expected(r.id)
    /\ \A u \in Members(disk, r.id) : disk.units[u] # None

ProvenanceWhole ==
  \A p \in disk.provs : Trace(disk, p[1]) = Range(call[p[1]].trace)

UnitsWhole ==
  \A u \in Units : disk.units[u] # None => HasSnapshot(disk, disk.units[u])

(* A committed snapshot holds exactly the units it was given (a rollback:  *)
(* those of its target), a committed provenance record its whole trace,    *)
(* and no unit is stored without the snapshot that brought it: each write  *)
(* is one transaction (README "Snapshot atomicity (crash mid-write)").     *)
AllOrNothing == SnapshotWhole /\ ProvenanceWhole /\ UnitsWhole

(* The snapshots of a session form one chain that ends at its head: no two *)
(* share a parent, none has the head as parent, and every snapshot but the *)
(* head has a child.  Concurrent calls never branch or lose a version.     *)
SingleChain ==
  /\ \A r1, r2 \in disk.snaps :
       r1.session = r2.session /\ r1.parent = r2.parent => r1 = r2
  /\ \A r \in disk.snaps :
       /\ r.parent # disk.heads[r.session]
       /\ \/ r.id = disk.heads[r.session]
          \/ \E r2 \in disk.snaps : r2.parent = r.id /\ r2.session = r.session

Stored(c) ==
  CASE call[c].op = "provenance" -> \E u \in Units : <<c, u>> \in disk.provs
    [] call[c].op = "create"     -> HasSession(disk, c)
    [] OTHER                     -> HasSnapshot(disk, c)

(* What a call tells its caller is true of the file: a call that returned  *)
(* is committed and stays so through any crash, and one that raised an     *)
(* error left nothing behind.                                              *)
Answers ==
  \A c \in Calls :
    /\ result[c] = "ok" => Stored(c)
    /\ result[c] = "error" => ~Stored(c)

(* Units and snapshots are write-once (README "How it works"): no step     *)
(* changes the content of a stored unit, the parent or the members of a    *)
(* stored snapshot, or takes a head back to "no snapshot".                 *)
Immutable ==
  /\ disk.snaps \subseteq disk'.snaps
  /\ \A r \in disk.snaps : Members(disk', r.id) = Members(disk, r.id)
  /\ \A u \in Units : disk.units[u] # None => disk'.units[u] = disk.units[u]
  /\ \A s \in Sessions : disk.heads[s] \in Calls => disk'.heads[s] \in Calls

WriteOnce == [][Immutable]_vars

(* When no call is running, no transaction is open on the connection       *)
(* (sqlite.py:162: "On exception, the transaction is rolled back").  One   *)
(* left open would make every later BEGIN IMMEDIATE fail.                  *)
ConnectionClean == (\A c \in Calls : ~InProgress(c)) => ~inTxn

(* The committed file behaves as the abstract store: each call takes       *)
(* effect as a whole, at its COMMIT, or not at all.                        *)
RolledBackTo == [c \in Calls |-> IF HasSnapshot(disk, c) THEN call[c].target ELSE None]

Store == INSTANCE SnapshotStore WITH db <- disk, target <- RolledBackTo

Implements == Store!Spec

=============================================================================
