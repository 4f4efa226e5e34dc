# StateForge in TLA+

Specifications of [StateForge](../src/README.md), a library that keeps the memory of
AI agents as immutable, versioned snapshots in a single SQLite file. They say
what concurrent calls, failing statements, cancelled tasks and crashes may do to
that file, and what a reader may see. TLC checks them on small instances; TLAPS
proves every safety property the runs check for any number of calls, sessions and units.

Paths such as `client.py` and `sqlite.py` are below `src/stateforge/`.

## 1. The system

| Component | State it keeps | Operations | Correct when |
|---|---|---|---|
| Tables (`storage/sqlite.py` `_SCHEMA`) | sessions with a head, snapshots with a parent, memory units, the links between them, provenance records and hops | INSERT / UPDATE / SELECT | heads and parents name stored snapshots of their own session; stored rows never change |
| Connection `_AsyncConn` (`sqlite.py`) | one connection, an open transaction or none, `_txn_lock` | `execute`, `executemany`, `fetch*`, `commit`, `rollback`, `transaction()` | every transaction is committed or undone as a whole, whatever fails; none stays open |
| Client, write path (`client.py`) | one `asyncio.Lock` per session | `create_session`, `snapshot`, `rollback`, `write_provenance` | each call is atomic; the snapshots of a session form one chain; the caller is told the truth; every call returns |
| Client, read path | none (the database) | `head`, `get_units`, `list_snapshots`, `history`, `get_provenance`, ... | a read beside a writer returns a whole snapshot or a whole history |
| References (`refs.py`) | none | `head~N`, uuid prefix, label; sessions and snapshots | a name denotes the one thing that bears it; "ambiguous" and "no match" are true |
| Diff (`diff.py`) | none | `compute_diff_iter`, `compute_diff` | a diff is a minimal patch |
| LangGraph adapter (`adapters/langgraph.py`) | cache thread -> session under `_cache_lock` | `aput`, `aget_tuple`, `alist` | one session per thread; a checkpoint that was put is found again |
| LangChain adapter (`adapters/langchain.py`) | message list and unit list in memory | `aadd_messages`, `aclear`, `snapshot`, `from_snapshot` | what was saved stays saved, what was cleared stays cleared, and a resumed adapter has the list that was saved |
| Lifecycle (`_ensure`, `initialize`, `close`) | `_initialized` flags of client and backend, `_init_lock`, the connection in use | open, migrate, close | opened once; a failed initialisation leaks no worker thread; a close under a call tears nothing |
| CLI (`cli.py`), keys (`crypto.py`), value contract (`value.py`, `units.py`) | none | printing, validation | pure functions and I/O |

The client calls the backend; the backend calls `_AsyncConn`; adapters and the
CLI call the client. All tasks of a process share **one** connection.

What makes it hard:

* **Interleaving.** Every `await` of a SQL statement lets other tasks run, and
  what they run meets the same connection. `transaction()` excludes other
  transactions by a lock, but `create_session` and every read take no lock:
  they run inside somebody else's open transaction.
* **Stale reads.** The head that becomes `parent_id`, the target of a rollback
  and the existence of session and unit are read before the transaction starts.
* **Partial failure.** A transaction is four or five statements; an
  `executemany` fails in the middle; `COMMIT` fails with the transaction open
  or already undone.
* **Cancellation** arrives at any `await`, also where the code has no `try`:
  at `BEGIN IMMEDIATE`, `COMMIT` and `ROLLBACK`.
* **Crashes** between two statements, and between a commit and its answer.
* **Reopening.** `close()` takes no lock: a call in flight goes on with whatever
  connection `_aio` names by then, which another call may have opened since.
* **Memory against the file.** The adapters keep lists and a cache that are
  changed before the store is, or after.
* **Boundaries**: depth caps, cursors on timestamps, `LIMIT`s, duplicate rows.

PROJECT.json lists each hazard at its line, with the property that covers it.

## 2. The modules

```
Database ---------- tables and statements as operators on one record
 |-- ChainProofs     lemmas: what walk_parents finds
 |-- SnapshotStore  what a user is promised: each operation one indivisible step
 |    |-- Queries       head~N, refs by name, history, paging from another process
 |    |-- Checkpointer  LangGraph threads over the store
 |    `-- History       the LangChain message list over the store
 |-- StateForge     the write path, statement by statement  (implements SnapshotStore)
 |    `-- Reads         readers on the same connection
Lifecycle           _ensure, initialize, close under calls in flight
Diff                the diff of two snapshots
```

`MCx` instantiates module `x` for TLC, and `xProofs` has the theorems about `x`. `ReadsProofs` builds on `StateForgeProofs`;
it, `CheckpointerProofs`, `HistoryProofs` and `QueriesProofs` use the lemmas of `ChainProofs`.

### Database

The tables as one record `db`; each DML statement of the backend is an operator
from `db` to `db` (`InsertSnapshot`, `KeepLinks`, `SetHead`, ...), with the
constraint under which SQLite accepts it (`GoodSnapshot`, `GoodLink`, ...): the
foreign keys, the primary key of `snapshot_units`, the `INSERT OR IGNORE` of
units. `PRAGMA foreign_keys` is its default, ON. Ids are `uuid4` values made by the
call that inserts the row, so the row is identified with the call; columns that no
property tells apart (JSON, and in this module labels and times) are left out. A
unit's content is represented by the call that stored it first.

### StateForge

The calls of the client as tasks of one process. A step is the stretch between
two awaits; a statement is one step, since aiosqlite has one thread (the encrypted
driver a one-worker executor). `disk` is the committed database, `work` the one
the connection sees, `inTxn` whether a transaction is open; `txnLock` and
`sessLock` are the two kinds of lock; `pc`, `call` and `result` belong to the
calls.

| Code | Actions |
|---|---|
| `snapshot`, `rollback`: session lock, `get_session`, target | `LockSession`, `ReadHead`, `ReadTarget` |
| existence check of the backend methods | `Check` |
| `transaction()`: lock, `BEGIN IMMEDIATE`, `COMMIT`, `ROLLBACK` | `LockTxn`, `Begin`, `Commit`, `Undo` |
| statements of `write_snapshot`, `write_rollback`, `write_provenance` | `WriteUnits`, `WriteSnapshot`, `WriteLinks`, `WriteCopy`, `WriteHead`, `WriteProv`, `WriteHops` |
| `create_session`: INSERT and commit without any lock | `InsertSessionRow`, `CommitSession` |

`Faults` selects what may go wrong: a statement fails, `COMMIT` fails and leaves the
transaction open (`commit`, as SQLITE_BUSY does) or has undone it (`discard`, as an I/O error
may), a task is cancelled, the process dies. A cancelled statement still runs
in the driver's thread; with `Encrypted` it may also be dropped from the queue.
`Encrypted` also selects the isolation level: the plain driver opens a transaction
before a statement that finds none, the encrypted one commits it at once.

A call may name a session or snapshot that exists, in whatever uncommitted
state the process sees, or an unknown id. Each call of `Calls` runs once; that is the
bound on the length of a behaviour.

### SnapshotStore

The abstract specification: `TakeSnapshot`, `Rollback`, `RecordProvenance` and
`CreateSession` as single steps on the committed tables. `StateForge!Implements`
says that `disk` behaves so, under the mapping `db <- disk` and
`target <- the snapshot each committed rollback was asked for`: a call takes effect
as a whole at its `COMMIT`, or not at all, also when the caller is told of an error or
is never told.

### Reads

Readers of `head`, `get_units`, `history`, `list_snapshots`, `get_provenance` on
the *same* connection beside StateForge: one SELECT per step, on `work`,
uncommitted rows included. The record `get_provenance` picks is the one with the
latest `ingested_at`, a time the caller supplies, so any record of the unit.

### Queries

The queries of a *second process* (the CLI while an application writes): each SELECT
sees the committed state, the abstract `db`, and commits come in between. It
adds the columns that matter here: `created_at`, labels, and which names an id
begins with. A ref is a model value; `UuidLike` are the ones
`looks_like_uuid_prefix` accepts. A `LIMIT` without `ORDER BY` returns any rows.
`CommitSnapshot` stands for rollbacks as well: they add a row of the same kind, and
the reader does not look at units. Parsing `head~N` and hex texts is abstracted
to what the regular expressions accept.

### Checkpointer

LangGraph calls: `_session_for_thread` (cache, lock, second look, lookup by id
and by label, creation, caching), then `aput`, `aget_tuple` or `alist`; failures and
cancellation, restarts with an empty cache, and rollbacks of the session by the
application. `ThreadPrefix` says which sessions, later ones included, have an id that
begins with a thread id: with one of them the thread is in that session, with none its
label is looked up, and with several the code creates a session at once (section 5).

The client below is SnapshotStore: a write takes effect at its commit. StateForge
implements that store where no `create_session` runs inside the transaction of another
call, so the puts here are those that meet none: when a thread is created in the middle of a put to another
thread, finding 1 applies to that put. No session has a thread's label before a checkpointer gives it one; an
application that labels sessions of its own with thread ids is not modelled.

`alist` before a checkpoint looks up its snapshot by label (`FindAnchor`) and
reads the page older than it (`List`), the newest rows up to its limit (`Newest`); if no snapshot has that label, the code
pages from the newest one, and so does the model. A snapshot gets any of `Times` as its `created_at`, the
clock being a wall clock (`client.py:39`), and rows with equal times come in any order, their ids being random.

### History

One `StateForgeMessageHistory` and the tasks that call it. A message is
identified by the call that added it and its place in that call. `Add`, `Clear`
and `Save` are what `aadd_messages`, `aclear` and `snapshot` do before their
first await: they change the lists, copy them, and call `sf.snapshot()` (`Make`), which
waits at the client's init lock unless the client is initialised, and then at the session lock.
`queue` is both lines, the first `inside` calls being at the session lock; each lock serves in order. `Enter` is the
call at the init lock that goes on next, and `overtaken` records that a later call passed by
others that still waited there. `CloseOrOpen` is what the rest of the program does to the client. `Write`, `Fail` and `Cancel` are what
comes of a waiting call; the store below is SnapshotStore. `RollBack` is an
application that rolls the session back behind the adapter's back. `Crash` and
`Resume` replace the adapter by an empty one and by `from_snapshot()` of any
snapshot: the units sorted by `created_at` over rows that come in no
order, as lists from which one can keep taking an oldest of what is left (`Resumable`). `epoch` counts the moments from which on messages may
legitimately be missing (clear, rollback, replacement).

### Lifecycle

Each connection has a thread of its own with a queue of jobs (`jobs`), `close()`
being one of them; `aio` is the connection `_AsyncConn._aio` names. A task that
resumes with the result of one statement queues its next one in the same step, on
the connection `aio` names by then. A call is `_ensure` (`Call`, `LockInit`, `Open`,
`Pragma`, the DDL transaction), then one read, then a transaction of two rows;
`Locked` are the calls that take the session lock. All four ways an
initialisation can end are there: committed; a failed open, before the `try`; a
failing or cancelled statement, after which `initialize()` closes (`Unwind`,
`Abort`). A COMMIT or ROLLBACK that fails (`EndFails`) has undone the transaction or leaves it
open with the lock given back; `spoiled` records the second, which only closing the connection ends.
The three `Pragmas` stand for the four the code issues. Left out: the encrypted driver, cancellation
at `open()` itself and of calls past `_ensure`, and `create_session`, whose INSERT opens a transaction without the
lock (StateForge has the last two): beside it a call can fail at its BEGIN without any fault.

### Diff

The identity map, the entries and the collected `MemoryDiff`, for every table of
units and every pair of snapshots. Rows come in id order, the order of
the primary key index SQLite searches with `id IN (...)`, and Python's stable sort keeps it for units
created at the same time (`Before`). A sorted list is described by what it is, the sequence in
`SetToSeqs` that is in order; that there is one is a lemma of DiffProofs.

## 3. Runs

| Run | Checks | Shows |
|---|---|---|
| `core_integrity` | `TypeOK`, `HeadIntegrity`, `ParentIntegrity` | three calls of any kind, `create_session` included; every fault but `discard`; duplicate units; units of a session that does not exist yet |
| `core_atomic` | `AllOrNothing`, `SingleChain`, `Answers`, `WriteOnce`, `Implements` | three calls of snapshot, rollback, provenance; all five faults; encrypted driver |
| `reads` | `HeadUnitsWhole`, `HistoryWhole`, `TraceWhole` | a reader beside three calls that may fail or crash |
| `queries` | `TildeCorrect`, `HistoryCorrect`, `PagesComplete`, `NameCorrect` | another process reads while three snapshots are committed to two sessions |
| `diff` | `PatchGivesTo`, `Minimal` | all pairs of snapshots of three units |
| `threads` | `OneSession`, `ReadsLatest`, `FindsOwn`, `ListsBefore` | three LangGraph calls on a thread known by its label, one known by its id and one whose id begins an existing session id and may begin a later one, with failures, restarts, rollbacks, two checkpoint ids, pages of one row and a clock that goes anywhere |
| `lifecycle` | `NoLeak`, `Answers`, `NoStrayErrors`, `ConnectionClean`, `CallsReturn` | three calls and two of `close()`, with failing opens, statements and COMMITs and cancelled initialisations; liveness under fairness |
| `history` | `ReturnedIsSaved`, `ClearSticks`, `AutoSaved`, `KeysDistinct`, `Resumes` | four overlapping calls of the LangChain adapter, each adding two messages, with failures, cancellation, a crash or a resume, rollbacks, and a client closed and initialised under them |
| `torn_snapshot` | `AllOrNothing` violated | finding 1 |
| `cancelled_begin` | `ConnectionClean` violated | finding 2 |
| `listed_units` | `EmptyMeansEmpty` violated | finding 3 |
| `head_tilde` | `TildeReaches` violated | finding 4 |

**Bounds.** Three calls are two that interfere and one that meets what they left
behind: a later snapshot on a stale head, a BEGIN on a dirty connection, a rollback
to a target whose writer is still in progress. Two sessions are needed only where a
session could be confused with another. Two units let an `executemany` fail between its
rows. In `queries` three commits make pages of one row with a commit between two of them,
and a chain one deeper than a cap of one (`HistoryCorrect`) with an ancestor to
miss. `threads` has three calls: two that race for a new thread, or one that puts and one that
puts, rolls back or fails, at any of two times each, and one that reads, before, between or after them; a restart may come at any
moment. With two snapshots in a chain a page of one row is cut when it starts from the newest; pages cut
further down a chain are left to `PagesOneChain`. What the four properties say is about threads that are `Settled`: their id
begins no session id, or that of one session that was there from the start (a thread started on an existing session). The id of any
other thread can match several sessions and give it more and more of them (section 5); the
run has such a thread beside two settled ones. Where a property distinguishes the checkpoints of two
threads, the one it is about must be `Separate` as well: no other thread has an id that begins the id of its session, as
that thread would be led to the same session.
`ListsBefore` is about sessions in which the clock went forward from each snapshot to the next
(`Forward`); the others hold whatever it does. One saver is one process, which is the bound of `OneSession` and
not a convenience: with two savers, as with two processes, both create a session for a thread,
since labels are not unique, and the thread is split from then on. `PagesComplete`
needs distinct `created_at`: with a tie on a page boundary a row is skipped, because the
cursor compares the time alone while the page is sorted by time and id.
`lifecycle` has three calls and two closes, so that one call can be in flight while
a close ends and a second call reopens, and a third waits for either. `MaxConns = 3`
is no restriction, since each call opens at most once. Calls of `close()` do not
overlap there (`Overlap = FALSE`): with two that do, and a call that reopens between
them, the second sets `_aio = None` over the new connection, and `NoLeak` fails.
`NoStrayErrors` accounts a failing COMMIT that leaves its transaction open to every call that
meets the connection before it is closed, and `ConnectionClean` excepts that connection.
In `history` four calls are two that overlap, one that clears or rolls back
between them and one that meets the result. Its first three properties are about the time in which no call was
`overtaken`; a clear, a rollback or a replacement begins anew. A client that is initialised before the calls and not closed under them is
never in that case, and one that is not is only where a call comes in the moment between the
end of the initialisation and the last wake-up at the lock. The two messages of a call share
their `created_at` (`Ticks`), which is the hard case for `Resumes`; messages of different calls do
not. That is an assumption of the model, that the clock advances between two calls; nothing
in the code enforces it.

**Faults left out of a run.** `core_atomic` runs without `create_session`: with it
the properties fail (finding 1). `lifecycle` cancels only a task that
initialises: with a call cancelled at its BEGIN `ConnectionClean` fails (finding 2). `reads`
runs without cancellation too: a transaction cancelled
after its UPDATE of the head is undone while a reader of that head is between two SELECTs, and
the reader gets part of the units. `HeadIntegrity` needs that `create` and
`discard` are not both enabled: a COMMIT of `create_session` that SQLite undoes takes the snapshot row of
the transaction in progress with it, and the UPDATE of the head still follows.

**Fairness.** `FairSpec` of Lifecycle has weak fairness of each task's next step and of
each connection's thread: the event loop resumes a task whose await has completed, and a
thread serves its queue in order. New calls, closes, faults and cancellations are never forced,
and the locks need not be fair for `CallsReturn`, since each task calls once.
StateForge states no fairness: its calls have no loops, so that the deadlock check of
`core_integrity` and `core_atomic` already shows that every call returns unless time
stops; that check runs everywhere, and the last state of a behaviour is one
where every call has returned.

**Symmetry** over the calls is used in runs with safety properties whose
constants name no call; in `threads`, whose `ThreadPrefix` names one, over the other two and over the checkpoint ids. `core_atomic` uses it with `Implements`, which
contains no liveness.

## 4. Proofs

What TLAPS proves, for all constants that meet the assumptions. "Under" names what a theorem takes for granted beyond
the `ASSUME`s of its module and the conditions the property itself names (`Settled`, `Separate`, `Forward`, `overtaken`, `spoiled`: section 3); each such condition is a fault or a use of the code under which the property is
known to fail (sections 3 and 5), or the finiteness of the set of calls.

| Module | Theorem | Property | Under |
|---|---|---|---|
| StateForgeProofs | `TypeCorrect` | `TypeOK` | |
| | `Exclusion` | one call in the transaction block, one per session | |
| | `ParentsHold` | `ParentIntegrity` | |
| | `HeadsHold` | `HeadIntegrity` | `NoDiscard` |
| | `WritesAtomic` | `AllOrNothing` | `NoCreate` |
| | `HistoryIsChain` | `SingleChain` | `NoCreate` |
| | `AnswersTrue` | `Answers` | `NoCreate` |
| | `OnceWritten` | `WriteOnce` | `NoCreate` |
| | `StoreImplemented` | `Implements`: StateForge refines SnapshotStore | `NoCreate` |
| ReadsProofs | `ProvenanceIsWhole` | `TraceWhole` | `NoCreate` |
| | `UnitsAreWhole` | `HeadUnitsWhole` | `NoCreate`, `NoUndo` |
| | `HistoriesAreWhole` | `HistoryWhole` | `NoCreate`, `NoUndo`, finite `Calls` |
| CheckpointerProofs | `ThreadHasOneSession` | `OneSession` | `OneSaver` |
| | `GetsTheLatest` | `ReadsLatest` | `OneSaver`, finite `Calls` |
| | `FindsItsOwn` | `FindsOwn` | `OneSaver`, finite `Calls` |
| | `PagesOneChain` | `ListsBefore` | `OneSaver`, finite `Calls` |
| LifecycleProofs | `NoConnectionLeaks` | `NoLeak` | `~Overlap` |
| | `AnswersHold` | `Answers` | `~Overlap` |
| | `ConnectionStaysClean` | `ConnectionClean` | `~Overlap` |
| | `ErrorsAreDeserved` | `NoStrayErrors` | `~Overlap` |
| HistoryProofs | `MessagesHaveKeys` | `KeysDistinct` | |
| | `AdapterResumes` | `Resumes` | |
| | `SavesSurvive` | `ReturnedIsSaved` | |
| | `ClearedForGood` | `ClearSticks` | |
| | `AutoSnapshotKeepsUp` | `AutoSaved` | |
| QueriesProofs | `TildeNames` | `TildeCorrect` | |
| | `HistoryIsWhole` | `HistoryCorrect` | |
| | `PagesListAll` | `PagesComplete` | |
| | `NamesDenote` | `NameCorrect` | |
| DiffProofs | `DiffIsPatch` | `PatchGivesTo` | |
| | `DiffIsMinimal` | `Minimal` | |

**Assumptions on constants.** They say that values of different kinds differ: `None` is no call, no thread, no
set of rows; the mark of an exception is no snapshot; a call of `close()` is no call that writes. Nothing bounds the number of calls,
sessions, units or faults. A finite `Calls` is asked for only where a recursive query walks a chain, which
then ends.

### Types, exclusion, integrity

`CtlInv` (types; each call's arguments fit its operation; who is where
in the code holds which lock) is inductive by itself and gives the first two theorems. Neither integrity
property is inductive: that the row a call is about to insert has a parent of
its own session depends on what the call read earlier, and that the
head it is about to set exists depends on its row still being in `work` although other calls may roll
back meanwhile. `IntInv` adds to `CtlInv`

* `Sound` for both images: parents resolve, and every row and head belongs to a call that was made for
  that session (`Owned`), so a row is never claimed by two sessions;
* `ParentOwned`: the parent a call has read is a call of its own session, also if its row has been undone
  since: the foreign key then refuses the INSERT;
* `HeadPart`: heads resolve, and a call between its INSERT and its UPDATE finds its row in `work`
  (`InPlace`). Only a rollback can take it away, only the call in the block rolls back, and `Exclusion` says
  that is the call itself. A failing COMMIT of `create_session` is the one exception (`NoDiscard`).

One lemma says what each operator of Database does to `Sound`; one lemma per action carries
`TablePart` over the step; the theorem combines them.

### Atomicity and the refinement

The second half of StateForgeProofs accounts for the connection exactly: outside a transaction block `work = disk`, and inside it `work` is `disk`
and the rows the call has written so far, a function of its arguments and its place (`Image`). That makes a `COMMIT` the
abstract step: it puts the whole of one call's rows on `disk` at once. Three more facts are needed.

* `Current`: the head a call has read is still the head when it writes. The session lock gives it, unless the
  transaction is one nobody will end.
* `Stuck`: a COMMIT that failed with the transaction open, or an await of BEGIN or ROLLBACK that was cancelled,
  leaves such a transaction. Nothing need be known of its rows, since every BEGIN
  fails until a restart and none of them is committed.
* `FileOK`: the rows in the file are those of calls that have returned without an error.

`NoCreate` excludes `create_session` beside the calls: with it all five fail, by finding 1. `StoreImplemented` maps each
action: a step that commits to the abstract operation of its call, every other step to a stutter.

### Readers

A reader follows ids through `work`, not `disk`. What makes this safe: committed rows are in
`work` as they are in the file (`Grown`), only one call has rows in `work` that are not committed
(`OneWriter`), and a head a reader can meet is `Firm`: its snapshot is committed, or complete and waiting
for its COMMIT. The last is where `NoUndo` comes in: a transaction that is undone after its UPDATE of the head takes the units
from under the reader. `ProvenanceIsWhole` does not need it, since it is about
records that were committed when the reader met them.

`HistoriesAreWhole` is about a recursive query. ChainProofs shows that `Ancestry`, which repeats a step as often as there are snapshots, is the least
set that contains the first id and the parent of each member: with finitely many snapshots the
climb cannot grow at every step. The provers have no induction; "at every step of the climb" is shown by
looking at the least step at which it fails, which exists because strict inclusion of finite sets is well-founded (a theorem
of the library without operator parameters).

### LangGraph

Four layers:

* `LabelInv`: at most one session has the label of a settled thread, and a call about to create one holds
  the cache lock and is right that there is none. `OneSession` follows.
* `TableInv`: the snapshots of a session are one chain in the order in which they were committed, the head being the
  last; where the clock went forward, `Ancestry` of a snapshot are those that are not newer.
* `HomeInv`: what the cache holds for a thread, and what a call acts on, is a session of that thread (`IsHome`), of which a settled one has one.
* `PutsInv` (all of the above): a stored checkpoint is in the session of its thread, and what a call knew when it began is still there.

`ReadsLatest`, `FindsOwn` and `ListsBefore` are then each shown from what a read has when it is at its statement (`Latest`,
`Own`, `Anchored`, `Listed`). `OneSaver` is one saver per process, the bound of the claim (section 3). Threads that are not settled
may be there in any number, with any ids: nothing is claimed of them, and they do not disturb the others. `FindsOwn` and `ListsBefore` speak
of the checkpoints of a thread and ask that no other thread is led to its session by its own id (`Separate`; a label leads
to one thread only); `Separate` and `Forward` can only be
lost, so that what `ListsBefore` says of a page is kept once the page is read.

### Opening and closing

`NoLeak` alone is not inductive: opening a connection leaks the old one unless none is in use, and a close
forgets whichever connection `_aio` names when it ends. `IInv` adds `InitInv` (only the holder
of the init lock initialises; with the lock free and the flags down nothing is open), `CloseInv`
(one closer at a time, and the flags stay up under it, so that nobody initialises) and `QueueInv` (a task has at
most one job in all queues, and that of an initialiser or a closer is on the connection in
use). Lemmas say what taking, orphaning and appending a job does to the queues and how each
helper ends a step; then there is one lemma per action.

By `NoLeak` a statement that can run at all runs on the connection `_aio` names. On that rests `TxnInv`: an
open transaction is that of the holder of `_txn_lock`, whose job is on the same connection, and it has exactly the rows of the
statements the task is past (`Written`). `SpoilInv` is what a failed COMMIT leaves: a connection that is in a transaction until it is
closed, on which no task is past its BEGIN. A call torn by a close and a reopening therefore finds its
transaction whole or finds none, and `stored` is the rows of the calls that returned. `Answers` and `ConnectionClean` are read off it.

`StrayInv` is the account of blame. A call is calm while no close and no failed COMMIT has touched it; then no close runs and none has
touched any other call on its way, the connection it uses is the one in use and not spoiled, and its statement is possible. So it raises
by a fault of its own or not at all (`NoStrayErrors`). The one delicate place is an initialisation that meets somebody's open
transaction at `PRAGMA synchronous`: that transaction would belong to a calm call past `_ensure`, while the flags are down.

### LangChain

`HistoryInv` has three layers.

* `BaseInv`: in every list the adapter has, has queued or has stored the keys are different numbers below its length
  (`Numbered`), so the next message, whose key is the length, has a new one, also after a clear, a failed save, a
  rollback or a resume. That a resumed list is so too needs that the sort of `from_snapshot` loses and repeats nothing:
  shown by the least step of the sort at which it would, since the provers have no induction.
* `InOrder`, which is `OrderInv` as long as no call was overtaken at the init lock: the two locks serve the waiting saves in the order in which
  they copied the list, and a call that finds the client initialised goes to the end of the line since nobody waits at the init lock. Within an epoch each
  waiting list is a part of the next and the last a part of the list in memory, and what has returned is part of the head,
  of the list in memory and of every list that waits. So whichever save comes next, nothing that returned is lost (`SavesSurvive`), and
  behind a clear only lists from after it are left (`ClearedForGood`). Either fails if two saves were served
  the other way round, which an overtaken call is. A clear or a rollback restores the order for what
  comes after it: older lists are then all ahead of it.
* `AutoCount`: with no failed and no overtaken call the adds that no save has covered yet are at most the count of calls modulo
  `snapshot_every`, so with nothing in progress fewer than `snapshot_every` are missing.

### Queries of another process

An answer is compared with a state of the session since the query began. The invariant `QueryInv` says so with
positions in the log of commits (`log`), which commits only extend, so that no commit between two statements
falsifies what is known.

* `StoreInv`: the rows of a session are its log, each with the one before it as parent and the last one as head.
* `WalkInv`: the head a walk starts from is in the log at or after the place where the session stood when it was asked. The
  recursive query from there gives the log backwards down to the depth bound (`Back`), shown by the least level at
  which it would not. So a row without a parent at the end of it is the first commit, and the chain is whole.
  `head~N` reads the head twice; the second reading counts.
* `PagesInv`: what was stored when the listing began is on a page already or older than the last row read. A commit in
  between may be newer or older than that row, it takes no place from what was there. `ORDER BY` is the sequence
  of the rows in descending order; that there is one is shown by the least set without one.
* `NameInv`: what bore the name when the query began still does, and a ref that is looked up by label was the id prefix
  of none of those. The `LIMIT` must be two or more (`QueriesAssumption`; the code has 100): with one row, one match would not
  mean that there is only one. "Ambiguous" may be said because of snapshots that were committed meanwhile.

### Diff

`Holds(seq, f, I)` says that a sequence has the value of `f` for each member of `I` once and nothing else. Lemmas say
how appending, taking the head, concatenation and sorting act on it. The invariant: the entries still to come are those of
some set of changed identities and the three lists hold the others. It holds at first because the
three blocks of `compute_diff_iter` are disjoint and complete, and each step moves one identity over. `MapFacts` has what the
identity map holds: for each identity a unit that no other of its identity is later than, with ties decided
by the order of the rows.

### Only model-checked

* `CallsReturn`: liveness under fairness is out of this prover's reach. So is the absence of deadlock, which is about ENABLED.
* The four violations of section 5 are counterexamples of TLC.

## 5. Findings

1. **`create_session` commits half a snapshot** (`sqlite.py:430-440`). It runs `INSERT` and `commit()` on the
   shared connection without `_txn_lock`, and so commits the rows another task has written since its BEGIN. A
   crash, or a later failure, leaves part of a snapshot in the file, against README "Snapshot
   atomicity (crash mid-write)". Conversely a `ROLLBACK` of the other task can undo the session.
2. **Cancellation at `BEGIN IMMEDIATE` leaves a transaction open** (`sqlite.py:166`): it is awaited before the
   `try`, the statement runs all the same, and every later transaction fails at its BEGIN.
3. **An empty answer that is not empty**: `get_units()` of a listed snapshot may run inside the
   transaction that writes it.
4. **`head~N` raises `HistoryTooDeepError`** as soon as the session has N+3 snapshots: the resolver asks for a walk of
   exactly the depth it needs, and `walk_parents` takes the rest of the chain for an error.

Noted while modelling, without a run:

* A thread whose id begins several session ids gets a new session from every process
  (`langgraph.py:98-100`): `resolve_session` raises `AmbiguousRefError` before it looks at labels
  (`refs.py:145-149`), and the adapter answers that with `create_session`. The session an earlier process created
  and labelled is never found, against "we either resolve it to an existing session (by label or by uuid match) or
  create one" (`langgraph.py:10-12`), and the checkpoints in it are lost to the thread. This concerns
  thread ids that are hexadecimal numbers of 8 to 35 characters.
* A unit named twice in one list makes `snapshot()` fail on the key of `snapshot_units`
  (`client.py:199`), where its doc says units are deduplicated by id (`client.py:171`). The failing call is part of
  `core_integrity` and `core_atomic`.
* `close()` is documented as idempotent (`client.py:119`); two that overlap can forget a connection a third
  task has opened in between (Lifecycle with `Overlap = TRUE`).
* A call past `_ensure` when the client is closed may go on with a connection that
  another task is still initialising: its BEGIN can come before `PRAGMA foreign_keys`, which SQLite ignores
  inside a transaction, or on an encrypted file before `PRAGMA key`.
* A call that waits at `_init_lock` can be overtaken by one made once the client is initialised
  (`client.py:102-104`). Of two saves of one LangChain adapter the older list is then committed last and is the head until the next
  save, and a save that `aclear` overtook puts the cleared messages back. A call after `close()`, or the first ones of a
  process on an existing session, can meet this.
* `from_snapshot()` builds an adapter without `auto_snapshot` (`langchain.py:189`).
* A COMMIT that fails leaves its transaction open (`sqlite.py:172-173`: the `else` branch has no ROLLBACK) and the lock free; every transaction
  after it fails until the client is closed, or a `create_session` commits the rows it had reported as failed.
* `alist` pages by `created_at`, a wall clock: with a tie, or a clock that was set back, a checkpoint of the chain may be skipped or
  repeated. Of two checkpoints put under one id `aget_tuple` may answer either (`langgraph.py:196`).
* After `sf.rollback()` the LangChain adapter still has the messages that were rolled back, and its next
  snapshot brings them back. A failed `aclear` leaves the lists empty and the head full.
* After a rollback the id that `aget_tuple` returns is that of a snapshot without such a label: reading it by id finds
  nothing, and `alist` before it starts from the newest page.
* A writer in a second process is not excluded by the session locks; the README of the repository documents
  single-process use (`README.md:222`).

## 6. Not modelled, and why

* The encrypted connection's open and close (executor, key probe); Lifecycle is about the aiosqlite driver.
  What encryption changes for transactions is in StateForge (`Encrypted`).
* The shape of checkpoint tuples and of messages, and the sync wrappers of both adapters, which run
  the same coroutines in a loop of their own.
* `get_session`, `get_snapshot`, `get_unit`: one SELECT each. `list_sessions`: the same paging as `list_snapshots`.
* `create_session` beside calls of Lifecycle and inside a put of Checkpointer (section 2); application sessions that bear the label
  of a thread, and a negative `limit` of `alist`, which SQLite takes for none.
* The skip of malformed units in `from_snapshot` (`langchain.py:194`): messages are opaque.
* Two processes that write: Queries has a second process that reads.
* `value.py`, `units.py`, `crypto.py`: validation of one value, without state.
* `cli.py`: argument parsing and printing; the queries it makes are modelled.
* The exact equality of JSON values in `diff.py` (Python's `1 == True`): contents are model values.
* `set_head`: no code calls it outside tests.

## 7. Plan

Done, in this order: Database and StateForge; SnapshotStore and the refinement; TypeOK, exclusion and
integrity proved; Reads, Queries, Diff, Checkpointer; Lifecycle and its proof, History, `get_provenance`, `alist`;
atomicity and the refinement proved; the readers and the lemmas about chains; the four properties of
Checkpointer; the remaining three of Lifecycle; History; Queries; Diff; failing COMMITs in Lifecycle, the init lock in
History, ambiguous ids, limits and the wall clock in Checkpointer. Every invariant and every safety property over
steps that a passing run checks is now also a theorem.

Next:

1. `create_session` beside calls of other sessions: what of `WritesAtomic` survives finding 1.
2. Liveness for StateForge and the adapters, where the lock queues matter (`CallsReturn` covers Lifecycle only).
3. Two saver processes on one file, where `OneSession` is known to fail.
