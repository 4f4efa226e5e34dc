----------------------------- MODULE ReadsProofs ----------------------------
(***************************************************************************)
(* What the readers of a process see beside its writers, for any number of *)
(* both.  A read follows an id through the connection's image, not the     *)
(* committed one; it is safe because what is committed never changes in    *)
(* that image, and because a head it meets before its COMMIT is whole.     *)
(***************************************************************************)
EXTENDS Reads, StateForgeProofs, ChainProofs

(* A transaction that has reached its COMMIT is not undone: the COMMIT     *)
(* succeeds or leaves it open, and the call is not cancelled there.  A     *)
(* reader can meet the rows of one that is (README.md, Findings).          *)
NoUndo == Faults \cap {"cancel", "discard"} = {}

(* Committed rows are in the connection's image as they are in the file.   *)
Grown ==
  /\ disk.snaps \subseteq work.snaps
  /\ disk.provs \subseteq work.provs
  /\ \A u \in Units : disk.units[u] # None => work.units[u] # None
  /\ \A d \in Calls : Kept(d) => /\ Members(work, d) = Members(disk, d)
                                 /\ Trace(work, d) = Trace(disk, d)

(* Snapshots of the image that are not committed are those of the call     *)
(* inside its transaction.                                                 *)
OneWriter ==
  \A c \in Calls : Live(c) => \A x \in work.snaps : x \in disk.snaps \/ x.id = c

SeenInv == AtomInv /\ Grown /\ OneWriter

(* A snapshot a reader may rely on: committed, or complete and waiting for *)
(* its COMMIT, or complete in a transaction that will stay open.           *)
Solid(id) ==
  /\ pc[id] \in {"commit", "done"} /\ inTxn
  /\ call[id].op \in Versions
  /\ HasSnapshot(work, id)
  /\ Members(work, id) = Content(id)
  /\ \A u \in Content(id) : work.units[u] # None
  /\ call[id].op = "rollback" => HasSnapshot(disk, call[id].target)

Firm(id) == id \in Calls /\ (HasSnapshot(disk, id) \/ Solid(id))

HeadsFirm == \A s \in Sessions, id \in Calls : work.heads[s] = id => Firm(id)

(* A read of the units of a head, or of a snapshot that was returned.      *)
UnitsRead(rec) ==
  /\ rec.goal = "units" /\ rec.source # "list" /\ rec.id # None
  /\ ~rec.raised /\ rec.at # "idle"

UnitsSafe(rec) ==
  UnitsRead(rec) => /\ Firm(rec.id)
                    /\ rec.at \in {"contents", "done"} => rec.found = Content(rec.id)

ReadsFirm == \A r \in Readers : UnitsSafe(read[r])

(* A read of a record that was committed when the reader met it.           *)
RecordSafe(rec) ==
  rec.durable /\ ~rec.raised =>
    /\ rec.id \in Calls /\ \E u \in Units : <<rec.id, u>> \in disk.provs
    /\ rec.at = "done" => rec.hops = Range(call[rec.id].trace)

RecordsSafe == \A r \in Readers : RecordSafe(read[r])

(* The shape of a read, at each of its stages.                             *)
Fields == {"at", "source", "goal", "session", "id", "found", "hops", "durable",
           "walked", "raised"}

Shape(rec) ==
  /\ DOMAIN rec = Fields
  /\ rec.at = "idle" => rec.id = None /\ ~rec.raised
  /\ rec.raised => rec.at = "done"
  /\ rec.durable => rec.at \in {"hops", "done"} /\ rec.goal = "provenance"
  /\ rec.at \in {"head", "session", "list"} => rec.id = None
  /\ rec.at = "head" => rec.session \in Sessions
  /\ rec.at \in {"session", "list"} => rec.source = "list"
  /\ rec.at \in {"head", "snapshot", "session", "list", "exists"} =>
       rec.goal \in {"units", "history"}
  /\ rec.at = "chain" => rec.goal = "history"
  /\ rec.at \in {"record", "hops"} => rec.goal = "provenance"

Shaped == DOMAIN read = Readers /\ \A r \in Readers : Shape(read[r])

-----------------------------------------------------------------------------
(***************************************************************************)
(* How the connection's image moves: by the rows of the call inside its    *)
(* transaction, back to the file, or not at all.                           *)
(***************************************************************************)

(* db is the image with more rows of c.                                    *)
Grows(db, c) ==
  /\ work.snaps \subseteq db.snaps
  /\ \A x \in db.snaps : \/ x \in work.snaps
                         \/ x.id = c /\ x.parent = call[c].parent
  /\ work.provs \subseteq db.provs
  /\ \A u \in Units : work.units[u] # None => db.units[u] # None
  /\ \A d \in Calls : d # c => /\ Members(db, d) = Members(work, d)
                               /\ Trace(db, d) = Trace(work, d)

Adds(c) ==
  /\ pc[c] \in Body /\ Alone(c) /\ disk' = disk /\ call' = call
  /\ Grows(work', c)
  /\ \A s \in Sessions : \/ work'.heads[s] = work.heads[s]
                         \/ work'.heads[s] = c /\ pc'[c] = "commit"

LEMMA StatementsGrow ==
  ASSUME CtlInv, NEW c \in Calls
  PROVE  /\ Grows(work, c)
         /\ \A rows : LET db == KeepUnits(work, c, rows)
                      IN  Grows(db, c) /\ db.heads = work.heads
         /\ \A rows : LET db == KeepLinks(work, c, rows)
                      IN  Grows(db, c) /\ db.heads = work.heads
         /\ \A rows : LET db == KeepHops(work, c, rows)
                      IN  Grows(db, c) /\ db.heads = work.heads
         /\ LET db == InsertSnapshot(work, c, call[c].session, call[c].parent)
            IN  Grows(db, c) /\ db.heads = work.heads
         /\ \A u : LET db == InsertProvenance(work, c, u)
                   IN  Grows(db, c) /\ db.heads = work.heads
  <1>1. work \in DB /\ c # None
    BY DatabaseAssumption DEF CtlInv, TypeOK
  <1>2. Grows(work, c)
    BY DEF Grows
  <1>3. ASSUME NEW rows, NEW db, db = KeepUnits(work, c, rows)
        PROVE  Grows(db, c) /\ db.heads = work.heads
    <2>1. /\ db.heads = work.heads /\ db.snaps = work.snaps /\ db.links = work.links
          /\ db.provs = work.provs /\ db.hops = work.hops
          /\ db.units = [u \in Units |-> IF u \in rows /\ work.units[u] = None
                                            THEN c ELSE work.units[u]]
      BY <1>1, <1>3, KeepUnitsFields
    <2>2. \A u \in Units : work.units[u] # None => db.units[u] # None
      BY <1>1, <2>1
    <2> QED
      BY <2>1, <2>2 DEF Grows, Members, Trace
  <1>4. ASSUME NEW rows, NEW db, db = KeepLinks(work, c, rows)
        PROVE  Grows(db, c) /\ db.heads = work.heads
    BY <1>1, <1>4, KeepLinksFields DEF Grows, Members, Trace
  <1>5. ASSUME NEW rows, NEW db, db = KeepHops(work, c, rows)
        PROVE  Grows(db, c) /\ db.heads = work.heads
    <2>1. \A d \in Calls : d # c => Trace(db, d) = Trace(work, d)
      BY <1>1, <1>5, KeepHopsFields DEF Trace
    <2> QED
      BY <1>1, <1>5, <2>1, KeepHopsFields DEF Grows, Members
  <1>6. ASSUME NEW db, db = InsertSnapshot(work, c, call[c].session, call[c].parent)
        PROVE  Grows(db, c) /\ db.heads = work.heads
    <2>1. \A x \in db.snaps : \/ x \in work.snaps
                              \/ x.id = c /\ x.parent = call[c].parent
      BY <1>1, <1>6, InsertSnapshotFields
    <2> QED
      BY <1>1, <1>6, <2>1, InsertSnapshotFields DEF Grows, Members, Trace
  <1>7. ASSUME NEW u, NEW db, db = InsertProvenance(work, c, u)
        PROVE  Grows(db, c) /\ db.heads = work.heads
    BY <1>1, <1>7, InsertProvenanceFields DEF Grows, Members, Trace
  <1> QED
    BY <1>2, <1>3, <1>4, <1>5, <1>6, <1>7

(* A statement of the block that leaves the heads alone.                   *)
LEMMA StatementAdds ==
  ASSUME CtlInv, BlockOK, NEW c \in Calls, pc[c] \in Body, NEW db, Execute(db),
         Grows(db, c), db.heads = work.heads, (\E at : Goto(c, at)) \/ \E r : Raise(c, r)
  PROVE  Adds(c)
  <1>1. Past(c) /\ Live(c)
    BY DEF Past, Live
  <1>2. work' = db /\ disk' = disk
    BY <1>1, ExecuteInside
  <1>3. Alone(c) /\ call' = call
    BY GotoAlone, RaiseAlone
  <1> QED
    BY <1>1, <1>2, <1>3 DEF Adds, Grows

LEMMA HeadAdds ==
  ASSUME CtlInv, BlockOK, NEW c \in Calls, WriteHead(c)
  PROVE  Adds(c)
  <1>1. pc[c] \in Body /\ Past(c) /\ Live(c) /\ work \in DB
    BY DEF WriteHead, Past, Live, Body, CtlInv, TypeOK
  <1>2. CASE Execute(work) /\ Raise(c, "error")
    BY <1>1, <1>2, StatementAdds, StatementsGrow
  <1>3. CASE Execute(SetHead(work, call[c].session, c)) /\ Goto(c, "commit")
    <2>1. work' = SetHead(work, call[c].session, c) /\ disk' = disk
      BY <1>1, <1>3, ExecuteInside
    <2>2. Alone(c) /\ call' = call /\ pc'[c] = "commit"
      BY <1>3, GotoAlone
    <2>3. /\ work'.snaps = work.snaps /\ work'.units = work.units
          /\ work'.links = work.links /\ work'.provs = work.provs
          /\ work'.hops = work.hops
          /\ \A s \in Sessions : work'.heads[s] \in {work.heads[s], c}
      BY <1>1, <2>1 DEF SetHead, DB
    <2> QED
      BY <1>1, <2>1, <2>2, <2>3 DEF Adds, Grows, Members, Trace
  <1> QED
    BY <1>2, <1>3 DEF WriteHead, ExecuteOne

LEMMA BodyAdds ==
  ASSUME CtlInv, BlockOK, NEW c \in Calls,
         WriteUnits(c) \/ WriteSnapshot(c) \/ WriteLinks(c) \/ WriteCopy(c)
           \/ WriteHead(c) \/ WriteProv(c) \/ WriteHops(c)
  PROVE  Adds(c)
  <1>1. pc[c] \in Body
    BY DEF WriteUnits, WriteSnapshot, WriteLinks, WriteCopy, WriteHead, WriteProv,
           WriteHops, Body
  <1>2. CASE WriteUnits(c)
    BY <1>1, <1>2, StatementAdds, StatementsGrow DEF WriteUnits, ExecuteMany
  <1>3. CASE WriteLinks(c)
    BY <1>1, <1>3, StatementAdds, StatementsGrow DEF WriteLinks, ExecuteMany
  <1>4. CASE WriteHops(c)
    BY <1>1, <1>4, StatementAdds, StatementsGrow DEF WriteHops, ExecuteMany
  <1>5. CASE WriteSnapshot(c)
    BY <1>1, <1>5, StatementAdds, StatementsGrow DEF WriteSnapshot, ExecuteOne
  <1>6. CASE WriteCopy(c)
    BY <1>1, <1>6, StatementAdds, StatementsGrow DEF WriteCopy, ExecuteOne, CopyLinks
  <1>7. CASE WriteProv(c)
    BY <1>1, <1>7, StatementAdds, StatementsGrow DEF WriteProv, ExecuteOne
  <1> QED
    BY <1>2, <1>3, <1>4, <1>5, <1>6, <1>7, HeadAdds

(* Returns to the file: the rollback of a failed or cancelled call.        *)
Undoes(c) ==
  /\ Live(c) /\ RollbackWork /\ Alone(c) /\ call' = call /\ pc'[c] = "done"
  /\ NoUndo => pc[c] = "undo"

(* The file catches up with the image.                                     *)
Lands(c) ==
  /\ pc[c] = "commit" /\ CommitWork /\ Alone(c) /\ call' = call /\ pc'[c] = "done"

(* Neither moves: a step of c outside its transaction, its BEGIN, a COMMIT *)
(* that fails, or a cancellation.                                          *)
Idles(c) ==
  /\ UNCHANGED <<disk, work>> /\ (inTxn => inTxn')
  /\ Alone(c) /\ pc[c] # "done" /\ (pc[c] # "idle" => Fixed(c))
  /\ pc[c] = "commit" /\ NoUndo => pc'[c] = "done"
  /\ Live(c)' => Live(c) \/ work = disk

LEMMA RequestIdles ==
  ASSUME CtlInv, BlockOK, ArgsOK, NoCreate, NEW c \in Calls, Request(c)
  PROVE  Idles(c)
  <1>1. Alone(c) /\ pc[c] = "idle"
    BY RequestArgs
  <1>2. /\ UNCHANGED <<disk, work, inTxn>>
        /\ pc'[c] \in {"session_lock", "check", "insert"}
    BY DEF Request, Snapshot, Rollback, WriteProvenance, CreateSession, Invoke,
           CtlInv, TypeOK
  <1> QED
    BY <1>1, <1>2 DEF Idles, Live, Past, Body

LEMMA StepMoves ==
  ASSUME CtlInv, BlockOK, NoCreate, NEW c \in Calls, Step(c)
  PROVE  Adds(c) \/ Undoes(c) \/ Lands(c) \/ Idles(c)
  <1>1. /\ Alone(c) /\ \A d \in Calls : Fixed(d)
        /\ pc[c] \notin {"idle", "done"}
    BY StepAdvances DEF Advances
  <1>2. CASE /\ pc[c] \in Waiting /\ UNCHANGED dbVars
             /\ pc'[c] \in Waiting \cup {"begin", "done"}
    BY <1>1, <1>2 DEF Idles, dbVars, Waiting, Live, Past, Body
  <1>3. CASE LockSession(c) \/ ReadHead(c) \/ ReadTarget(c) \/ Check(c) \/ LockTxn(c)
    <2>1. pc[c] \in Waiting /\ UNCHANGED dbVars
      BY <1>3 DEF LockSession, ReadHead, ReadTarget, Check, LockTxn, Waiting, dbVars
    <2>2. pc'[c] \in Waiting \cup {"begin", "done"}
      BY <1>3, GotoAlone, FinishAlone, ReadHeadAlone, LockAlone
      DEF LockSession, ReadHead, ReadTarget, Check, LockTxn, Waiting
    <2> QED
      BY <1>2, <2>1, <2>2
  <1>4. CASE Begin(c)
    <2>1. UNCHANGED <<disk, work>> /\ pc[c] = "begin" /\ (inTxn => inTxn')
      BY <1>4 DEF Begin
    <2>2. Live(c)' => work = disk
      <3>1. CASE Finish(c, "error")
        BY <3>1, FinishAlone DEF Live, Past, Body
      <3>2. CASE ~inTxn
        BY <3>2 DEF BlockOK
      <3> QED
        BY <1>4, <3>1, <3>2 DEF Begin
    <2> QED
      BY <1>1, <2>1, <2>2 DEF Idles
  <1>5. CASE Commit(c)
    <2>1. pc[c] = "commit" /\ Live(c) /\ inTxn
      BY <1>5 DEF Commit, Live, Past, BlockOK
    <2>2. pc'[c] = "done" /\ call' = call
      BY <1>5, FinishAlone DEF Commit, CommitStep
    <2>3. CASE CommitWork
      BY <1>1, <2>1, <2>2, <2>3 DEF Lands
    <2>4. CASE UNCHANGED dbVars
      BY <1>1, <2>1, <2>2, <2>4 DEF Idles, dbVars
    <2>5. CASE "discard" \in Faults /\ RollbackWork
      BY <1>1, <2>1, <2>2, <2>5 DEF Undoes, NoUndo
    <2> QED
      BY <1>5, <2>3, <2>4, <2>5 DEF Commit, CommitStep
  <1>6. CASE Undo(c)
    <2>1. pc[c] = "undo" /\ RollbackWork /\ pc'[c] = "done" /\ call' = call
      BY <1>6, FinishAlone DEF Undo
    <2> QED
      BY <1>1, <2>1 DEF Undoes, Live
  <1> QED
    BY <1>3, <1>4, <1>5, <1>6, BodyAdds, NoCreateSteps DEF Step

LEMMA CancelMoves ==
  ASSUME CtlInv, BlockOK, NoCreate, NEW c \in Calls, Cancel(c)
  PROVE  Undoes(c) \/ Lands(c) \/ Idles(c)
  <1>1. /\ Alone(c) /\ \A d \in Calls : Fixed(d)
        /\ pc[c] \notin {"idle", "done"}
    BY CancelAdvances DEF Advances
  <1>2. ~NoUndo
    BY DEF Cancel, NoUndo
  <1>3. CASE CancelWaiting(c) \/ CancelBegin(c)
    <2>1. UNCHANGED <<disk, work>> /\ (inTxn => inTxn') /\ pc'[c] = "done"
      BY <1>3, FinishAlone DEF CancelWaiting, CancelBegin, dbVars
    <2> QED
      BY <1>1, <1>2, <2>1 DEF Idles, Live, Past, Body
  <1>4. CASE CancelBody(c)
    <2>1. UNCHANGED <<disk, work, inTxn>> /\ Live(c)
      BY <1>4 DEF CancelBody, dbVars, Live, Past
    <2> QED
      BY <1>1, <1>2, <2>1 DEF Idles
  <1>5. CASE CancelEnd(c)
    <2>1. pc[c] \in {"commit", "undo"} /\ Live(c) /\ pc'[c] = "done" /\ call' = call
      BY <1>5, FinishAlone DEF CancelEnd, Live, Past
    <2>2. CASE pc[c] = "commit" /\ CommitWork
      BY <1>1, <2>1, <2>2 DEF Lands
    <2>3. CASE RollbackWork
      BY <1>1, <1>2, <2>1, <2>3 DEF Undoes
    <2>4. CASE UNCHANGED dbVars
      BY <1>1, <1>2, <2>1, <2>4 DEF Idles, dbVars
    <2> QED
      BY <1>5, <2>2, <2>3, <2>4 DEF CancelEnd
  <1> QED
    BY <1>3, <1>4, <1>5, NoCreateSteps DEF Cancel

(* What a step of the writers does to the image.                           *)
Shifts(c) == Adds(c) \/ Undoes(c) \/ Lands(c) \/ Idles(c)

LEMMA WriterShifts ==
  ASSUME AtomInv, NoCreate, NEW c \in Calls, Request(c) \/ Step(c) \/ Cancel(c)
  PROVE  Shifts(c)
  <1>1. CtlInv /\ BlockOK /\ ArgsOK
    BY DEF AtomInv, IntInv
  <1> QED
    BY <1>1, RequestIdles, StepMoves, CancelMoves DEF Shifts

(***************************************************************************)
(* SeenInv is an invariant of the write path, under every fault.           *)
(***************************************************************************)
LEMMA SeenShift ==
  ASSUME SeenInv, AtomInv', NEW c \in Calls, Shifts(c)
  PROVE  Grown' /\ OneWriter'
  <1>1. CtlInv /\ FileOK
    BY DEF SeenInv, AtomInv, IntInv
  <1>2. CASE work' = disk'
    BY <1>2 DEF Grown, OneWriter
  <1>3. CASE Adds(c)
    <2>1. Live(c) /\ ~Kept(c) /\ pc[c] \in InBlock
      BY <1>1, <1>3 DEF Adds, Live, Past, FileOK, Body, InBlock
    <2>2. \A d \in Calls : Kept(d)' <=> Kept(d)
      BY <1>3 DEF Adds, Kept, HasSnapshot
    <2>3. Grown'
      <3>1. ASSUME NEW d \in Calls, Kept(d)
            PROVE  Members(work', d) = Members(disk', d) /\ Trace(work', d) = Trace(disk', d)
        <4>1. d # c /\ Members(work, d) = Members(disk, d) /\ Trace(work, d) = Trace(disk, d)
          BY <2>1, <3>1 DEF SeenInv, Grown
        <4> QED
          BY <1>3, <4>1 DEF Adds, Grows
      <3>2. /\ disk'.snaps \subseteq work'.snaps /\ disk'.provs \subseteq work'.provs
            /\ \A u \in Units : disk'.units[u] # None => work'.units[u] # None
        BY <1>3 DEF SeenInv, Grown, Adds, Grows
      <3> QED
        BY <2>2, <3>1, <3>2 DEF Grown
    <2>4. OneWriter'
      <3>1. ASSUME NEW d \in Calls, Live(d)' PROVE d = c
        BY <1>1, <1>3, <2>1, <3>1, OneLive DEF Adds, Alone, Live, Past
      <3>2. \A x \in work'.snaps : x \in disk'.snaps \/ x.id = c
        BY <1>3, <2>1 DEF SeenInv, OneWriter, Adds, Grows
      <3> QED
        BY <3>1, <3>2 DEF OneWriter
    <2> QED
      BY <2>3, <2>4
  <1>4. CASE Idles(c)
    <2>1. UNCHANGED <<disk, work>>
      BY <1>4 DEF Idles
    <2>2. Grown'
      BY <2>1 DEF SeenInv, Grown, Kept, HasSnapshot, Members, Trace
    <2>3. ASSUME NEW d \in Calls, Live(d)', NEW x \in work'.snaps
          PROVE  x \in disk'.snaps \/ x.id = d
      <3>1. Live(d) \/ work = disk
        BY <1>4, <2>3 DEF Idles, Alone, Live, Past
      <3> QED
        BY <2>1, <2>3, <3>1 DEF SeenInv, OneWriter
    <2> QED
      BY <2>2, <2>3 DEF OneWriter
  <1> QED
    BY <1>2, <1>3, <1>4 DEF Shifts, Undoes, Lands, RollbackWork, CommitWork

LEMMA SeenInit == Init => SeenInv
  <1> SUFFICES ASSUME Init PROVE SeenInv
    OBVIOUS
  <1>1. work = disk
    BY DEF Init
  <1> QED
    BY <1>1, AtomInit DEF SeenInv, Grown, OneWriter

LEMMA SeenStep ==
  ASSUME NoCreate, SeenInv, [Next]_vars
  PROVE  SeenInv'
  <1>1. AtomInv'
    BY AtomNext DEF SeenInv
  <1>2. CASE UNCHANGED vars
    <2>1. UNCHANGED <<disk, work>> /\ \A d \in Calls : Live(d)' <=> Live(d)
      BY <1>2 DEF vars, Live, Past
    <2> QED
      BY <1>1, <2>1 DEF SeenInv, Grown, OneWriter, Kept, HasSnapshot, Members, Trace
  <1>3. CASE Crash
    <2>1. work' = disk'
      BY <1>3 DEF Crash, RollbackWork
    <2> QED
      BY <1>1, <2>1 DEF SeenInv, Grown, OneWriter
  <1>4. ASSUME NEW c \in Calls, Request(c) \/ Step(c) \/ Cancel(c) PROVE SeenInv'
    BY <1>1, <1>4, WriterShifts, SeenShift DEF SeenInv
  <1> QED
    BY <1>2, <1>3, <1>4 DEF Next, Terminating

(***************************************************************************)
(* What a reader may rely on.                                              *)
(***************************************************************************)

(* A call at its COMMIT has its whole snapshot in the image.               *)
CommitsSolid ==
  \A c \in Calls : pc[c] = "commit" /\ call[c].op \in Versions => Solid(c)

LEMMA CommitSolid == SeenInv => CommitsSolid
  <1> SUFFICES ASSUME SeenInv, NEW c \in Calls, pc[c] = "commit", call[c].op \in Versions
               PROVE  Solid(c)
    BY DEF CommitsSolid
  <1>1. CtlInv /\ BlockOK /\ FileOK /\ AllOrNothing /\ Past(c) /\ Live(c) /\ c # None
    BY DatabaseAssumption DEF SeenInv, AtomInv, IntInv, Past, Live
  <1>2. VersionImage(c) /\ Current(c) /\ inTxn /\ ~Stuck /\ ~Kept(c)
    <2>1. call[c].op # "provenance"
      BY DEF Versions
    <2>2. Image(c) /\ Current(c) /\ inTxn
      BY <1>1 DEF BlockOK
    <2>3. ~Kept(c)
      BY <1>1 DEF FileOK
    <2> QED
      BY <1>1, <2>1, <2>2, <2>3 DEF Image, Stuck
  <1>3. HasSnapshot(work, c)
    <2>1. work.snaps = disk.snaps \cup {Row(c)}
      BY <1>2 DEF VersionImage
    <2>2. Row(c) \in work.snaps /\ Row(c).id = c
      BY <2>1 DEF Row
    <2> QED
      BY <2>2 DEF HasSnapshot
  <1>4. Members(work, c) = Expected(c)
    <2>1. Members(disk, c) = {}
      BY <1>2 DEF Kept, Members
    <2>2. Expected(c) \subseteq Units
      <3>1. call[c].units \in Seq(Units)
        BY <1>1, ListsTyped DEF CtlInv, TypeOK, CallRecord
      <3>2. Range(call[c].units) \subseteq Units
        BY <3>1, RangeTyped
      <3> QED
        BY <3>2 DEF Expected, Members
    <2>3. work.links = disk.links \cup ({c} \X Expected(c))
      BY <1>2 DEF VersionImage
    <2> QED
      BY <2>1, <2>2, <2>3 DEF Members
  <1>5. CASE call[c].op = "rollback"
    <2>1. PICK t \in disk.snaps : t.id = call[c].target
      BY <1>1, <1>2, <1>5 DEF Current, HasTarget, SnapshotIn
    <2>2. t.id \in Calls /\ Kept(t.id)
      BY <1>1, OwnersDone
    <2>3. Members(work, t.id) = Members(disk, t.id)
      BY <2>2 DEF SeenInv, Grown
    <2>4. Content(c) = Expected(c)
      BY <1>5, <2>1, <2>3 DEF Content, Expected
    <2>5. \A u \in Expected(c) : u \in Units /\ disk.units[u] # None
      BY <1>1, <1>5, <2>1 DEF AllOrNothing, SnapshotWhole, Expected, Members
    <2>6. \A u \in Content(c) : work.units[u] # None
      BY <2>4, <2>5 DEF SeenInv, Grown
    <2>7. HasSnapshot(disk, call[c].target)
      BY <2>1 DEF HasSnapshot
    <2> QED
      BY <1>2, <1>3, <1>4, <2>4, <2>6, <2>7 DEF Solid
  <1>6. CASE call[c].op = "snapshot"
    <2>1. Content(c) = Expected(c) /\ Expected(c) = Range(call[c].units)
      BY <1>6 DEF Content, Expected
    <2>2. work.units = Filled(c)
      BY <1>2, <1>6 DEF VersionImage
    <2>3. \A u \in Content(c) : work.units[u] # None
      BY <1>1, <1>4, <2>1, <2>2 DEF Filled, Members
    <2> QED
      BY <1>2, <1>3, <1>4, <1>6, <2>1, <2>3 DEF Solid
  <1> QED
    BY <1>5, <1>6 DEF Versions

(* The units of such a snapshot can be read, now.                          *)
LEMMA FirmWhole ==
  SeenInv => \A id \in Calls : Firm(id) =>
    /\ HasSnapshot(work, id) /\ Members(work, id) = Content(id)
    /\ \A u \in Content(id) : work.units[u] # None
    /\ call[id].op = "rollback" => HasSnapshot(disk, call[id].target)
  <1> SUFFICES ASSUME SeenInv, NEW id \in Calls, HasSnapshot(disk, id)
               PROVE  /\ HasSnapshot(work, id) /\ Members(work, id) = Content(id)
                      /\ \A u \in Content(id) : work.units[u] # None
                      /\ call[id].op = "rollback" => HasSnapshot(disk, call[id].target)
    BY DEF Firm, Solid
  <1>1. CtlInv /\ FileOK /\ AllOrNothing /\ Kept(id)
    BY DEF SeenInv, AtomInv, IntInv, Kept
  <1>2. PICK r \in disk.snaps : r.id = id
    BY DEF HasSnapshot
  <1>3. HasSnapshot(work, id) /\ Members(work, id) = Members(disk, id)
    BY <1>1 DEF SeenInv, Grown, HasSnapshot
  <1>4. /\ Members(disk, id) = Expected(id)
        /\ \A u \in Members(disk, id) : u \in Units /\ disk.units[u] # None
    BY <1>1, <1>2 DEF AllOrNothing, SnapshotWhole, Members
  <1>5. call[id].op = "rollback" => HasSnapshot(disk, call[id].target)
    BY <1>1 DEF FileOK
  <1>6. Expected(id) = Content(id)
    <2>1. CASE call[id].op = "rollback"
      <3>1. PICK t \in disk.snaps : t.id = call[id].target
        BY <1>5, <2>1 DEF HasSnapshot
      <3>2. t.id \in Calls /\ Kept(t.id)
        BY <1>1, OwnersDone
      <3> QED
        BY <2>1, <3>1, <3>2 DEF SeenInv, Grown, Expected, Content
    <2>2. CASE call[id].op # "rollback"
      BY <2>2 DEF Expected, Content
    <2> QED
      BY <2>1, <2>2
  <1> QED
    BY <1>3, <1>4, <1>5, <1>6 DEF SeenInv, Grown

(***************************************************************************)
(* What a reader holds on to outlives the steps of the writers.            *)
(***************************************************************************)

(* A call that has returned keeps its arguments, and what is committed     *)
(* stays committed.                                                        *)
LEMMA CommittedStays ==
  ASSUME NoCreate, SeenInv, [Next]_vars
  PROVE  /\ \A d \in Calls : pc[d] = "done" => pc'[d] = "done" /\ call'[d] = call[d]
         /\ disk.snaps \subseteq disk'.snaps /\ disk.provs \subseteq disk'.provs
         /\ \A r \in disk.snaps : Members(work', r.id) = Members(work, r.id)
  <1>1. AtomInv /\ CtlInv /\ FileOK /\ Grown /\ SeenInv'
    BY SeenStep DEF SeenInv, AtomInv, IntInv
  <1>2. Immutable
    BY <1>1, MovesImmutable
  <1>3. /\ \A d \in Calls : pc[d] = "done" => pc'[d] = "done" /\ call'[d] = call[d]
        /\ disk.provs \subseteq disk'.provs
    <2>1. CASE UNCHANGED vars
      BY <2>1 DEF vars
    <2>2. CASE Crash
      BY <2>2 DEF Crash, RollbackWork, InProgress
    <2>3. ASSUME NEW c \in Calls, Shifts(c)
          PROVE  /\ \A d \in Calls : pc[d] = "done" => pc'[d] = "done" /\ call'[d] = call[d]
                 /\ disk.provs \subseteq disk'.provs
      <3>1. Alone(c) /\ pc[c] # "done"
        BY <2>3 DEF Shifts, Adds, Undoes, Lands, Idles, Body, Live, Past
      <3>2. disk' = disk \/ disk' = work
        BY <2>3 DEF Shifts, Adds, Undoes, Lands, Idles, RollbackWork, CommitWork
      <3> QED
        BY <1>1, <3>1, <3>2 DEF Alone, Grown
    <2> QED
      BY <1>1, <2>1, <2>2, <2>3, WriterShifts DEF Next, Terminating
  <1>4. ASSUME NEW r \in disk.snaps PROVE Members(work', r.id) = Members(work, r.id)
    <2>1. r.id \in Calls /\ Kept(r.id) /\ r \in disk'.snaps
      BY <1>1, <1>2, OwnersDone DEF Immutable
    <2>2. Kept(r.id)'
      BY <2>1 DEF Kept, HasSnapshot
    <2>3. Members(work', r.id) = Members(disk', r.id)
      BY <1>1, <2>1, <2>2 DEF SeenInv, Grown
    <2>4. Members(work, r.id) = Members(disk, r.id)
      BY <1>1, <2>1 DEF Grown
    <2> QED
      BY <1>2, <2>3, <2>4 DEF Immutable
  <1> QED
    BY <1>2, <1>3, <1>4 DEF Immutable

(* A committed snapshot keeps its content.                                 *)
LEMMA CommittedFirm ==
  ASSUME NoCreate, SeenInv, [Next]_vars, NEW id \in Calls, HasSnapshot(disk, id)
  PROVE  Firm(id)' /\ Content(id)' = Content(id)
  <1>1. CtlInv /\ FileOK
    BY DEF SeenInv, AtomInv, IntInv
  <1>2. pc[id] = "done" /\ call'[id] = call[id] /\ HasSnapshot(disk', id)
    BY <1>1, CommittedStays, OwnersDone DEF HasSnapshot
  <1>3. CASE call[id].op = "rollback"
    <2>1. PICK t \in disk.snaps : t.id = call[id].target
      BY <1>1, <1>3 DEF FileOK, HasSnapshot
    <2> QED
      BY <1>2, <1>3, <2>1, CommittedStays DEF Content, Firm
  <1>4. CASE call[id].op # "rollback"
    BY <1>2, <1>4 DEF Content, Firm
  <1> QED
    BY <1>3, <1>4

(* So does one that is complete, while no transaction that has reached its *)
(* COMMIT is undone.                                                       *)
LEMMA FirmStays ==
  ASSUME NoCreate, NoUndo, SeenInv, NEW c \in Calls, Request(c) \/ Step(c) \/ Cancel(c),
         NEW id \in Calls, Firm(id)
  PROVE  Firm(id)' /\ Content(id)' = Content(id)
  <1>1. [Next]_vars /\ Shifts(c)
    BY WriterShifts DEF SeenInv, Next
  <1>2. CASE HasSnapshot(disk, id)
    BY <1>1, <1>2, CommittedFirm
  <1>3. CASE Solid(id) /\ ~HasSnapshot(disk, id)
    <2>1. ASSUME NEW d \in Calls, Live(d) PROVE id = d
      BY <1>3, <2>1 DEF SeenInv, OneWriter, Solid, HasSnapshot
    <2>2. CASE Adds(c) \/ Undoes(c)
      <3>1. Live(c) /\ pc[c] \in Body \cup {"undo"}
        BY <2>2 DEF Adds, Undoes, Live, Past
      <3>2. pc[id] \notin Body \cup {"undo"}
        BY <1>3 DEF Solid, Body
      <3> QED
        BY <2>1, <3>1, <3>2
    <2>3. CASE Lands(c)
      <3>1. disk' = work /\ work' = work /\ call' = call
        BY <2>3 DEF Lands, CommitWork
      <3> QED
        BY <1>3, <3>1 DEF Firm, Solid, HasSnapshot, Content, Members
    <2>4. CASE Idles(c)
      <3>1. /\ UNCHANGED <<disk, work>> /\ inTxn' /\ Fixed(id)
            /\ pc'[id] \in {"commit", "done"}
        <4>1. CASE id = c
          BY <1>3, <2>4, <4>1 DEF Idles, Solid
        <4>2. CASE id # c
          BY <1>3, <2>4, <4>2 DEF Idles, Solid, Alone, Fixed
        <4> QED
          BY <4>1, <4>2
      <3>2. Content(id)' = Content(id)
        BY <3>1 DEF Content, Members, Fixed
      <3>3. Solid(id)'
        BY <1>3, <3>1, <3>2 DEF Solid, Fixed, HasSnapshot, Members
      <3> QED
        BY <3>2, <3>3 DEF Firm
    <2> QED
      BY <1>1, <2>2, <2>3, <2>4 DEF Shifts
  <1> QED
    BY <1>2, <1>3 DEF Firm

(* The heads the connection sees: committed, or set by a call that has     *)
(* written everything else.                                                *)
LEMMA HeadsInit == Init => HeadsFirm
  BY DatabaseAssumption DEF Init, EmptyDB, HeadsFirm

FileFirm == \A s \in Sessions, id \in Calls : disk.heads[s] = id => Firm(id)

LEMMA ResolvedFirm == NoCreate /\ SeenInv => FileFirm
  <1> SUFFICES ASSUME NoCreate, SeenInv, NEW s \in Sessions, NEW id \in Calls,
                      disk.heads[s] = id
               PROVE  Firm(id)
    BY DEF FileFirm
  <1>1. HeadsResolve(disk)
    BY DEF SeenInv, AtomInv, IntInv, TablePart, HeadPart, NoDiscard, NoCreate
  <1> QED
    BY <1>1 DEF HeadsResolve, SnapshotIn, HasSnapshot, Firm

LEMMA HeadsStep ==
  ASSUME NoCreate, NoUndo, SeenInv, HeadsFirm, [Next]_vars
  PROVE  HeadsFirm'
  <1>1. SeenInv'
    BY SeenStep
  <1>2. FileFirm'
    <2>1. (NoCreate /\ SeenInv)'
      BY <1>1 DEF NoCreate
    <2> QED
      BY <2>1, ResolvedFirm, PTL
  <1>3. CASE UNCHANGED vars
    <2>1. UNCHANGED <<disk, work, inTxn, pc, call>>
      BY <1>3 DEF vars
    <2> QED
      BY <2>1 DEF HeadsFirm, Firm, Solid, HasSnapshot, Members, Content
  <1>4. CASE work' = disk'
    BY <1>2, <1>4 DEF HeadsFirm, FileFirm
  <1>5. ASSUME NEW c \in Calls, Request(c) \/ Step(c) \/ Cancel(c) PROVE HeadsFirm'
    <2>1. Shifts(c)
      BY <1>5, WriterShifts DEF SeenInv
    <2>2. \A id \in Calls : Firm(id) => Firm(id)'
      BY <1>5, FirmStays
    <2>3. CASE Idles(c)
      BY <2>2, <2>3 DEF Idles, HeadsFirm
    <2>4. CASE Adds(c)
      <3>1. ASSUME NEW s \in Sessions, work'.heads[s] = c, pc'[c] = "commit"
            PROVE  Firm(c)'
        <4>1. CASE call'[c].op \in Versions
          <5>1. CommitsSolid'
            BY <1>1, CommitSolid, PTL
          <5> QED
            BY <3>1, <4>1, <5>1 DEF CommitsSolid, Firm
        <4>2. CASE call'[c].op \notin Versions
          <5>1. BlockOK' /\ CtlInv'
            BY <1>1 DEF SeenInv, AtomInv, IntInv
          <5>2. call'[c].op = "provenance"
            <6>1. call'[c].op \in OpKinds /\ call'[c].op # "create"
              BY <3>1, <5>1 DEF CtlInv, TypeOK, CallRecord, OpOK, OpAt
            <6> QED
              BY <4>2, <6>1 DEF Versions, OpKinds
          <5>3. Image(c)'
            BY <3>1, <5>1 DEF BlockOK, Past
          <5>4. work'.heads = disk'.heads
            BY <5>2, <5>3 DEF Image, RecordImage
          <5> QED
            BY <1>2, <3>1, <5>4 DEF FileFirm
        <4> QED
          BY <4>1, <4>2
      <3>2. ASSUME NEW s \in Sessions, NEW id \in Calls, work'.heads[s] = id
            PROVE  Firm(id)'
        <4>1. CASE work'.heads[s] = work.heads[s]
          BY <2>2, <3>2, <4>1 DEF HeadsFirm
        <4>2. CASE work'.heads[s] = c /\ pc'[c] = "commit"
          BY <3>1, <3>2, <4>2
        <4> QED
          BY <2>4, <4>1, <4>2 DEF Adds
      <3> QED
        BY <3>2 DEF HeadsFirm
    <2> QED
      BY <1>4, <2>1, <2>3, <2>4 DEF Shifts, Undoes, Lands, RollbackWork, CommitWork
  <1> QED
    BY <1>3, <1>4, <1>5 DEF Next, Terminating, Crash, RollbackWork

-----------------------------------------------------------------------------
(***************************************************************************)
(* The readers' own steps.                                                 *)
(***************************************************************************)

(* One SELECT changes the read that made it, and nothing else.             *)
LEMMA SelectOne ==
  ASSUME Shaped, NEW r \in Readers, NEW at, NEW rec, Select(r, at, rec), Shape(rec)
  PROVE  /\ Shaped' /\ UNCHANGED vars /\ read[r].at = at
         /\ \A q \in Readers : read'[q] = IF q = r THEN rec ELSE read[q]
  BY DEF Select, Shaped, Shape

(* The reads are safe after a SELECT if the one that made it is.           *)
Safe(rec) ==
  /\ Shape(rec)
  /\ RecordsSafe => RecordSafe(rec)
  /\ HeadsFirm /\ ReadsFirm => UnitsSafe(rec)

StaysSafe ==
  /\ Shaped'
  /\ RecordsSafe => RecordsSafe'
  /\ HeadsFirm /\ ReadsFirm => ReadsFirm'

LEMMA SafeSelect ==
  ASSUME Shaped, NEW r \in Readers, NEW at, NEW rec, Select(r, at, rec), Safe(rec)
  PROVE  StaysSafe
  <1>1. /\ Shaped' /\ UNCHANGED <<disk, work, inTxn, pc, call>>
        /\ \A q \in Readers : read'[q] = IF q = r THEN rec ELSE read[q]
    BY SelectOne DEF vars, Safe
  <1>2. ASSUME RecordsSafe PROVE RecordsSafe'
    BY <1>1, <1>2 DEF RecordsSafe, RecordSafe, Safe
  <1>3. ASSUME HeadsFirm, ReadsFirm PROVE ReadsFirm'
    <2>1. \A id : (Firm(id)' <=> Firm(id)) /\ Content(id)' = Content(id)
      BY <1>1 DEF Firm, Solid, HasSnapshot, Members, Content
    <2> QED
      BY <1>1, <1>3, <2>1 DEF ReadsFirm, UnitsSafe, UnitsRead, Safe
  <1> QED
    BY <1>1, <1>2, <1>3 DEF StaysSafe

(* A read that has found nothing.                                          *)
LEMMA NotFoundSafe ==
  ASSUME Shaped, NEW r \in Readers
  PROVE  Safe(NotFound(r))
  BY DEF Shaped, Shape, Safe, NotFound, Fields, RecordSafe, UnitsSafe, UnitsRead

LEMMA StartSafe ==
  ASSUME SeenInv, Shaped, NEW r \in Readers, StartRead(r)
  PROVE  StaysSafe
  <1>1. PICK source \in Sources, goal \in {"units", "history"}, s \in InitialSessions,
             x \in Calls \cup {None} :
          /\ goal = "history" => source = "head"
          /\ IF source = "returned"
               THEN x \in Calls /\ result[x] = "ok" /\ call[x].op \in {"snapshot", "rollback"}
               ELSE x = None
          /\ Select(r, "idle", [read[r] EXCEPT !.at = FirstSelect(source), !.goal = goal,
                                  !.source = source, !.session = s, !.id = x])
    BY DEF StartRead
  <1> DEFINE rec == [read[r] EXCEPT !.at = FirstSelect(source), !.goal = goal,
                                    !.source = source, !.session = s, !.id = x]
  <1>2. Shape(read[r]) /\ read[r].at = "idle"
    BY <1>1 DEF Shaped, Select
  <1>3. /\ rec.at = FirstSelect(source) /\ rec.goal = goal /\ rec.source = source
        /\ rec.session = s /\ rec.id = x /\ rec.raised = read[r].raised
        /\ rec.durable = read[r].durable /\ DOMAIN rec = Fields
    BY <1>2 DEF Shape, Fields
  <1>4. /\ FirstSelect(source) \in {"head", "session", "exists"}
        /\ FirstSelect(source) = "head" => source = "head"
        /\ FirstSelect(source) = "session" => source = "list"
    BY <1>1, ReadsAssumption DEF FirstSelect, SourceKinds
  <1>5. FirstSelect(source) # "exists" => x = None
    BY <1>1, ReadsAssumption DEF FirstSelect, SourceKinds
  <1> HIDE DEF rec
  <1>6. Shape(rec)
    BY <1>2, <1>3, <1>4, <1>5 DEF Shape, Sessions
  <1>7. RecordSafe(rec)
    BY <1>2, <1>3, <1>4 DEF Shape, RecordSafe
  <1>8. UnitsSafe(rec)
    <2>1. ASSUME x # None PROVE Firm(x)
      <3>1. x \in Calls /\ result[x] = "ok" /\ call[x].op \in {"snapshot", "rollback"}
        BY <1>1, <2>1
      <3> QED
        BY <3>1 DEF SeenInv, AtomInv, FileOK, Stored, Firm
    <2> QED
      BY <1>3, <1>4, <2>1 DEF UnitsSafe, UnitsRead
  <1> QED
    BY <1>1, <1>6, <1>7, <1>8, SafeSelect DEF Safe, rec

(* A read that goes on with the id it has.                                 *)
LEMMA GoOnSafe ==
  ASSUME Shaped, NEW r \in Readers, read[r].at \in {"snapshot", "session", "exists"},
         NEW at \in {"exists", "links", "chain", "list"},
         at = "chain" => read[r].goal = "history",
         at = "list" => read[r].at = "session"
  PROVE  Safe(To(r, at))
  <1> DEFINE rec == To(r, at)
  <1>1. Shape(read[r]) /\ ~read[r].durable /\ ~read[r].raised
    BY DEF Shaped, Shape
  <1>2. /\ rec.at = at /\ rec.goal = read[r].goal /\ rec.source = read[r].source
        /\ rec.session = read[r].session /\ rec.id = read[r].id
        /\ rec.raised = read[r].raised /\ rec.durable = read[r].durable
        /\ DOMAIN rec = Fields
    BY <1>1 DEF Shape, Fields, To
  <1> HIDE DEF rec
  <1>3. Shape(rec)
    BY <1>1, <1>2 DEF Shape
  <1>4. RecordSafe(rec)
    BY <1>1, <1>2 DEF RecordSafe
  <1>5. ASSUME ReadsFirm PROVE UnitsSafe(rec)
    BY <1>1, <1>2, <1>5 DEF ReadsFirm, UnitsSafe, UnitsRead
  <1> QED
    BY <1>3, <1>4, <1>5 DEF Safe, rec

LEMMA HeadSafe ==
  ASSUME SeenInv, Shaped, NEW r \in Readers, SelectHead(r)
  PROVE  StaysSafe
  <1> DEFINE h  == work.heads[read[r].session]
             up == IF read[r].goal = "units" THEN "snapshot" ELSE "exists"
             rec == [read[r] EXCEPT !.id = h, !.at = up]
  <1>1. /\ Shape(read[r]) /\ read[r].at = "head" /\ ~read[r].durable /\ ~read[r].raised
        /\ read[r].session \in Sessions /\ read[r].id = None
        /\ read[r].goal \in {"units", "history"}
    BY DEF Shaped, Shape, SelectHead, Select
  <1>2. h \in Calls \cup {None, Absent}
    BY <1>1 DEF SeenInv, AtomInv, IntInv, CtlInv, TypeOK, DB
  <1>3. CASE h = Absent
    <2>1. Select(r, "head", NotFound(r))
      BY <1>3, DatabaseAssumption DEF SelectHead
    <2> QED
      BY <2>1, SafeSelect, NotFoundSafe
  <1>4. CASE h = None
    <2>1. Safe(Answer(r))
      BY <1>1 DEF Safe, Shape, Fields, RecordSafe, UnitsSafe, UnitsRead, Answer, To
    <2> QED
      BY <1>4, <2>1, SafeSelect, DatabaseAssumption DEF SelectHead
  <1>5. CASE h \in Calls
    <2>1. Select(r, "head", rec)
      BY <1>5, DatabaseAssumption DEF SelectHead
    <2>2. /\ rec.at = up /\ rec.goal = read[r].goal /\ rec.id = h
          /\ ~rec.raised /\ ~rec.durable /\ DOMAIN rec = Fields
      BY <1>1 DEF Shape, Fields
    <2>3. up \in {"snapshot", "exists"}
      OBVIOUS
    <2> HIDE DEF rec, up
    <2>4. Shape(rec) /\ RecordSafe(rec)
      BY <1>1, <2>2, <2>3 DEF Shape, RecordSafe
    <2>5. ASSUME HeadsFirm PROVE UnitsSafe(rec)
      <3>1. Firm(h)
        BY <1>1, <1>5, <2>5 DEF HeadsFirm
      <3> QED
        BY <2>2, <2>3, <3>1 DEF UnitsSafe
    <2> QED
      BY <2>1, <2>4, <2>5, SafeSelect DEF Safe
  <1> QED
    BY <1>2, <1>3, <1>4, <1>5

LEMMA PathSafe ==
  ASSUME SeenInv, Shaped, NEW r \in Readers,
         SelectSnapshot(r) \/ SelectSession(r) \/ SelectExists(r)
  PROVE  StaysSafe
  <1>1. CASE SelectSnapshot(r)
    <2>1. read[r].at = "snapshot"
      BY <1>1 DEF SelectSnapshot, Select
    <2>2. Safe(To(r, "exists"))
      BY <2>1, GoOnSafe
    <2> QED
      BY <1>1, <2>2, SafeSelect, NotFoundSafe DEF SelectSnapshot
  <1>2. CASE SelectSession(r)
    <2>1. read[r].at = "session"
      BY <1>2 DEF SelectSession, Select
    <2>2. Safe(To(r, "list"))
      BY <2>1, GoOnSafe
    <2> QED
      BY <1>2, <2>2, SafeSelect, NotFoundSafe DEF SelectSession
  <1>3. CASE SelectExists(r)
    <2> DEFINE next == IF read[r].goal = "units" THEN "links" ELSE "chain"
    <2>1. read[r].at = "exists"
      BY <1>3 DEF SelectExists, Select
    <2>2. CASE Select(r, "exists", NotFound(r))
      BY <2>2, SafeSelect, NotFoundSafe
    <2>3. CASE Select(r, "exists", To(r, next))
      <3>1. read[r].goal \in {"units", "history"}
        BY <2>1 DEF Shaped, Shape
      <3>2. Safe(To(r, next))
        BY <2>1, <3>1, GoOnSafe
      <3> QED
        BY <2>3, <3>2, SafeSelect
    <2> QED
      BY <1>3, <2>2, <2>3 DEF SelectExists
  <1> QED
    BY <1>1, <1>2, <1>3

LEMMA ListSafe ==
  ASSUME Shaped, NEW r \in Readers, SelectList(r)
  PROVE  StaysSafe
  <1>1. /\ Shape(read[r]) /\ read[r].at = "list" /\ ~read[r].durable /\ ~read[r].raised
        /\ read[r].source = "list" /\ read[r].goal \in {"units", "history"}
    BY DEF Shaped, Shape, SelectList, Select
  <1>2. CASE Select(r, "list", Answer(r))
    <2>1. Safe(Answer(r))
      BY <1>1 DEF Safe, Shape, Fields, RecordSafe, UnitsSafe, UnitsRead, Answer, To
    <2> QED
      BY <1>2, <2>1, SafeSelect
  <1>3. ASSUME NEW id, Select(r, "list", [To(r, "exists") EXCEPT !.id = id])
        PROVE  StaysSafe
    <2> DEFINE rec == [To(r, "exists") EXCEPT !.id = id]
    <2>1. Safe(rec)
      BY <1>1 DEF Safe, Shape, Fields, RecordSafe, UnitsSafe, UnitsRead, To
    <2> QED
      BY <1>3, <2>1, SafeSelect
  <1> QED
    BY <1>2, <1>3 DEF SelectList

(* A read of a firm snapshot finds its members, and all their rows.        *)
LEMMA LinksSafe ==
  ASSUME SeenInv, Shaped, NEW r \in Readers, SelectLinks(r)
  PROVE  StaysSafe
  <1> DEFINE us   == Members(work, read[r].id)
             next == IF us = {} THEN "done" ELSE "contents"
             rec  == [To(r, next) EXCEPT !.found = us]
  <1>1. /\ Shape(read[r]) /\ read[r].at = "links" /\ ~read[r].durable /\ ~read[r].raised
        /\ Select(r, "links", rec)
    BY DEF Shaped, Shape, SelectLinks, Select
  <1>2. /\ rec.at = next /\ rec.goal = read[r].goal /\ rec.source = read[r].source
        /\ rec.id = read[r].id /\ ~rec.raised /\ ~rec.durable /\ rec.found = us
        /\ DOMAIN rec = Fields
    BY <1>1 DEF Shape, Fields, To
  <1>3. next \in {"contents", "done"}
    OBVIOUS
  <1> HIDE DEF rec, next
  <1>4. Shape(rec) /\ RecordSafe(rec)
    BY <1>2, <1>3 DEF Shape, RecordSafe
  <1>5. ASSUME ReadsFirm, UnitsRead(rec) PROVE Firm(rec.id) /\ rec.found = Content(rec.id)
    <2>1. UnitsRead(read[r])
      BY <1>1, <1>2, <1>5 DEF UnitsRead
    <2>2. Firm(read[r].id)
      BY <1>5, <2>1 DEF ReadsFirm, UnitsSafe
    <2>3. read[r].id \in Calls
      BY <2>2 DEF Firm
    <2> QED
      BY <1>2, <2>2, <2>3, FirmWhole
  <1> QED
    BY <1>1, <1>4, <1>5, SafeSelect DEF Safe, UnitsSafe

LEMMA ContentsSafe ==
  ASSUME SeenInv, Shaped, NEW r \in Readers, SelectContents(r)
  PROVE  StaysSafe
  <1> DEFINE us  == {u \in read[r].found : work.units[u] # None}
             rec == [Answer(r) EXCEPT !.found = us]
  <1>1. /\ Shape(read[r]) /\ read[r].at = "contents" /\ ~read[r].durable /\ ~read[r].raised
    BY DEF Shaped, Shape, SelectContents, Select
  <1>2. Select(r, "contents", rec)
    BY <1>1 DEF SelectContents, Answer, To, Shape, Fields
  <1>3. /\ rec.at = "done" /\ rec.goal = read[r].goal /\ rec.source = read[r].source
        /\ rec.id = read[r].id /\ ~rec.raised /\ ~rec.durable /\ rec.found = us
        /\ DOMAIN rec = Fields
    BY <1>1 DEF Shape, Fields, To, Answer
  <1> HIDE DEF rec
  <1>4. Shape(rec) /\ RecordSafe(rec)
    BY <1>3 DEF Shape, RecordSafe
  <1>5. ASSUME ReadsFirm, UnitsRead(rec) PROVE Firm(rec.id) /\ rec.found = Content(rec.id)
    <2>1. UnitsRead(read[r])
      BY <1>1, <1>3, <1>5 DEF UnitsRead
    <2>2. Firm(read[r].id) /\ read[r].found = Content(read[r].id)
      BY <1>1, <1>5, <2>1 DEF ReadsFirm, UnitsSafe
    <2>3. read[r].id \in Calls
      BY <2>2 DEF Firm
    <2>4. us = Content(read[r].id)
      BY <2>2, <2>3, FirmWhole
    <2> QED
      BY <1>3, <2>2, <2>4
  <1> QED
    BY <1>2, <1>4, <1>5, SafeSelect DEF Safe, UnitsSafe

LEMMA ChainSafe ==
  ASSUME Shaped, NEW r \in Readers, SelectChain(r)
  PROVE  StaysSafe
  <1>1. /\ Shape(read[r]) /\ read[r].at = "chain" /\ read[r].goal = "history"
        /\ ~read[r].durable /\ ~read[r].raised
    BY DEF Shaped, Shape, SelectChain, Select
  <1>2. ASSUME NEW ids PROVE Safe([Answer(r) EXCEPT !.walked = ids])
    BY <1>1 DEF Safe, Shape, Fields, RecordSafe, UnitsSafe, UnitsRead, Answer, To
  <1> QED
    BY <1>2, SafeSelect DEF SelectChain

(* A record that was committed when it was met is committed, and its hops  *)
(* in the image are its trace.                                             *)
LEMMA RecordStartSafe ==
  ASSUME Shaped, NEW r \in Readers, StartProvenance(r)
  PROVE  StaysSafe
  <1> DEFINE rec == [read[r] EXCEPT !.at = "record", !.goal = "provenance"]
  <1>1. Shape(read[r]) /\ read[r].at = "idle" /\ Select(r, "idle", rec)
    BY DEF Shaped, StartProvenance, Select
  <1>2. Safe(rec)
    BY <1>1 DEF Safe, Shape, Fields, RecordSafe, UnitsSafe, UnitsRead
  <1> QED
    BY <1>1, <1>2, SafeSelect

LEMMA RecordMetSafe ==
  ASSUME SeenInv, Shaped, NEW r \in Readers, SelectRecord(r)
  PROVE  StaysSafe
  <1>1. CASE Select(r, "record", NotFound(r))
    BY <1>1, SafeSelect, NotFoundSafe
  <1>2. ASSUME NEW p \in work.provs,
               Select(r, "record", [read[r] EXCEPT !.at = "hops", !.id = p[1],
                                                   !.durable = p \in disk.provs])
        PROVE  StaysSafe
    <2> DEFINE rec == [read[r] EXCEPT !.at = "hops", !.id = p[1],
                                      !.durable = p \in disk.provs]
    <2>1. /\ Shape(read[r]) /\ read[r].at = "record" /\ read[r].goal = "provenance"
          /\ ~read[r].raised
      BY <1>2 DEF Shaped, Shape, Select
    <2>2. /\ rec.at = "hops" /\ rec.goal = "provenance" /\ rec.id = p[1]
          /\ ~rec.raised /\ DOMAIN rec = Fields
      BY <2>1 DEF Shape, Fields
    <2>3. rec.durable = (p \in disk.provs)
      BY <2>1 DEF Shape, Fields
    <2> HIDE DEF rec
    <2>4. Shape(rec) /\ UnitsSafe(rec)
      BY <2>2 DEF Shape, UnitsSafe, UnitsRead
    <2>5. RecordSafe(rec)
      <3>1. p \in Calls \X Units
        BY DEF SeenInv, AtomInv, IntInv, CtlInv, TypeOK, DB
      <3>2. p = <<p[1], p[2]>> /\ p[1] \in Calls /\ p[2] \in Units
        BY <3>1
      <3> QED
        BY <2>2, <2>3, <3>2 DEF RecordSafe
    <2> QED
      BY <1>2, <2>4, <2>5, SafeSelect DEF Safe, rec
  <1> QED
    BY <1>1, <1>2 DEF SelectRecord

LEMMA HopsSafe ==
  ASSUME SeenInv, Shaped, NEW r \in Readers, SelectHops(r)
  PROVE  StaysSafe
  <1> DEFINE hs  == Trace(work, read[r].id)
             rec == [Answer(r) EXCEPT !.hops = hs]
  <1>1. /\ Shape(read[r]) /\ read[r].at = "hops" /\ read[r].goal = "provenance"
        /\ ~read[r].raised /\ Select(r, "hops", rec)
    BY DEF Shaped, Shape, SelectHops, Select
  <1>2. /\ rec.at = "done" /\ rec.goal = read[r].goal /\ rec.id = read[r].id
        /\ rec.durable = read[r].durable /\ ~rec.raised /\ rec.hops = hs
        /\ DOMAIN rec = Fields
    BY <1>1 DEF Shape, Fields, To, Answer
  <1> HIDE DEF rec
  <1>3. Shape(rec) /\ UnitsSafe(rec)
    BY <1>1, <1>2 DEF Shape, UnitsSafe, UnitsRead
  <1>4. ASSUME RecordsSafe, rec.durable
        PROVE  /\ rec.id \in Calls /\ \E u \in Units : <<rec.id, u>> \in disk.provs
               /\ hs = Range(call[rec.id].trace)
    <2>1. PICK u \in Units : rec.id \in Calls /\ <<rec.id, u>> \in disk.provs
      BY <1>1, <1>2, <1>4 DEF RecordsSafe, RecordSafe
    <2>2. Kept(rec.id) /\ ProvenanceWhole
      BY <2>1 DEF Kept, SeenInv, AtomInv, AllOrNothing
    <2>3. Trace(disk, rec.id) = Range(call[rec.id].trace)
      BY <2>1, <2>2 DEF ProvenanceWhole
    <2> QED
      BY <1>2, <2>1, <2>2, <2>3 DEF SeenInv, Grown
  <1> QED
    BY <1>1, <1>2, <1>3, <1>4, SafeSelect DEF Safe, RecordSafe

-----------------------------------------------------------------------------
(***************************************************************************)
(* The two invariants of the read path: what needs no hypothesis on the    *)
(* faults, and what needs NoUndo.                                          *)
(***************************************************************************)
RecordInv == SeenInv /\ Shaped /\ RecordsSafe
UnitsInv  == RecordInv /\ HeadsFirm /\ ReadsFirm

LEMMA ReadsInit == ReadInit => UnitsInv
  <1> SUFFICES ASSUME ReadInit PROVE UnitsInv
    OBVIOUS
  <1>1. SeenInv /\ HeadsFirm
    BY SeenInit, HeadsInit DEF ReadInit
  <1>2. \A r \in Readers :
          /\ DOMAIN read[r] = Fields /\ read[r].at = "idle" /\ read[r].id = None
          /\ ~read[r].raised /\ ~read[r].durable
    BY DEF ReadInit, Fields
  <1>3. Shaped
    BY <1>2 DEF ReadInit, Shaped, Shape
  <1> QED
    BY <1>1, <1>2, <1>3 DEF UnitsInv, RecordInv, RecordsSafe, RecordSafe, ReadsFirm,
                            UnitsSafe, UnitsRead

LEMMA ReaderSteps ==
  ASSUME SeenInv, Shaped, NEW r \in Readers, StartRead(r) \/ StartProvenance(r) \/ ReadStep(r)
  PROVE  StaysSafe /\ UNCHANGED vars
  <1>1. StaysSafe
    BY StartSafe, HeadSafe, PathSafe, ListSafe, LinksSafe, ContentsSafe, ChainSafe,
       RecordStartSafe, RecordMetSafe, HopsSafe DEF ReadStep
  <1>2. \E at, rec : Select(r, at, rec)
    BY DEF StartRead, StartProvenance, ReadStep, SelectHead, SelectSnapshot, SelectSession,
           SelectList, SelectExists, SelectLinks, SelectContents, SelectChain,
           SelectRecord, SelectHops
  <1> QED
    BY <1>1, <1>2 DEF Select

(* The writers' steps leave the reads alone; a crash ends them.            *)
LEMMA OtherSteps ==
  ASSUME NoCreate, RecordInv, WriteStep \/ CrashAll \/ ReadTerminating \/ UNCHANGED readVars
  PROVE  /\ [Next]_vars /\ Shaped' /\ RecordsSafe'
         /\ \A r \in Readers : read'[r] = read[r] \/ read'[r].raised
  <1>1. [Next]_vars
    BY DEF WriteStep, CrashAll, ReadTerminating, readVars, Next
  <1>2. /\ DOMAIN read' = Readers
        /\ \A r \in Readers : \/ read'[r] = read[r]
                              \/ read'[r] = NotFound(r)
    BY DEF RecordInv, Shaped, WriteStep, CrashAll, ReadTerminating, readVars
  <1>3. ASSUME NEW r \in Readers
        PROVE  /\ Shape(read'[r]) /\ RecordSafe(read[r])'
               /\ read'[r] = read[r] \/ read'[r].raised
    <2>1. Shape(NotFound(r)) /\ NotFound(r).raised
      BY DEF RecordInv, Shaped, Shape, NotFound, Fields
    <2>2. CASE read'[r] = read[r]
      <3>1. ASSUME read[r].durable, ~read[r].raised
            PROVE  /\ read[r].id \in Calls
                   /\ \E u \in Units : <<read[r].id, u>> \in disk'.provs
                   /\ call'[read[r].id] = call[read[r].id]
        <4>1. PICK u \in Units : read[r].id \in Calls /\ <<read[r].id, u>> \in disk.provs
          BY <3>1 DEF RecordInv, RecordsSafe, RecordSafe
        <4>2. pc[read[r].id] = "done"
          BY <4>1 DEF RecordInv, SeenInv, AtomInv, FileOK, Kept
        <4> QED
          BY <1>1, <4>1, <4>2, CommittedStays DEF RecordInv
      <3> QED
        BY <2>2, <3>1 DEF RecordInv, Shaped, RecordsSafe, RecordSafe
    <2>3. CASE read'[r] = NotFound(r)
      BY <2>1, <2>3 DEF RecordSafe
    <2> QED
      BY <1>2, <2>2, <2>3
  <1> QED
    BY <1>1, <1>2, <1>3 DEF Shaped, RecordsSafe

LEMMA RecordNext ==
  ASSUME NoCreate, RecordInv, [ReadNext]_readVars
  PROVE  RecordInv'
  <1>1. ASSUME NEW r \in Readers, StartRead(r) \/ StartProvenance(r) \/ ReadStep(r)
        PROVE  RecordInv'
    <2>1. StaysSafe /\ [Next]_vars
      BY <1>1, ReaderSteps DEF RecordInv
    <2> QED
      BY <2>1, SeenStep DEF RecordInv, StaysSafe
  <1>2. ASSUME WriteStep \/ CrashAll \/ ReadTerminating \/ UNCHANGED readVars
        PROVE  RecordInv'
    BY <1>2, OtherSteps, SeenStep DEF RecordInv
  <1> QED
    BY <1>1, <1>2 DEF ReadNext

LEMMA UnitsNext ==
  ASSUME NoCreate, NoUndo, UnitsInv, [ReadNext]_readVars
  PROVE  UnitsInv'
  <1>1. RecordInv /\ RecordInv'
    BY RecordNext DEF UnitsInv
  <1>2. ASSUME NEW r \in Readers, StartRead(r) \/ StartProvenance(r) \/ ReadStep(r)
        PROVE  UnitsInv'
    <2>1. StaysSafe /\ [Next]_vars
      BY <1>1, <1>2, ReaderSteps DEF RecordInv
    <2> QED
      BY <1>1, <2>1, HeadsStep DEF UnitsInv, RecordInv, StaysSafe
  <1>3. ASSUME WriteStep \/ CrashAll \/ ReadTerminating \/ UNCHANGED readVars
        PROVE  UnitsInv'
    <2>1. /\ [Next]_vars /\ HeadsFirm'
          /\ \A r \in Readers : read'[r] = read[r] \/ read'[r].raised
      BY <1>1, <1>3, OtherSteps, HeadsStep DEF UnitsInv, RecordInv
    <2>2. ASSUME NEW r \in Readers, UnitsRead(read[r])'
          PROVE  /\ Firm(read[r].id)'
                 /\ read'[r].at \in {"contents", "done"} => read'[r].found = Content(read[r].id)'
      <3>1. read'[r] = read[r] /\ UnitsRead(read[r])
        BY <2>1, <2>2 DEF UnitsRead
      <3> DEFINE id == read[r].id
      <3>2. /\ id \in Calls /\ Firm(id)
            /\ read[r].at \in {"contents", "done"} => read[r].found = Content(id)
        BY <3>1 DEF UnitsInv, ReadsFirm, UnitsSafe, Firm
      <3>3. ASSUME NEW k \in Calls, Firm(k) PROVE Firm(k)' /\ Content(k)' = Content(k)
        <4>1. CASE WriteStep
          BY <1>1, <3>3, <4>1, FirmStays DEF WriteStep, RecordInv
        <4>2. CASE UNCHANGED vars
          <5>1. UNCHANGED <<disk, work, inTxn, pc, call>>
            BY <4>2 DEF vars
          <5> QED
            BY <3>3, <5>1 DEF Firm, Solid, HasSnapshot, Members, Content
        <4>3. CASE CrashAll
          <5>1. read'[r].raised
            BY <3>1, <4>3 DEF CrashAll, UnitsRead, NotFound, UnitsInv, RecordInv, Shaped,
                              Shape, Fields
          <5> QED
            BY <3>1, <5>1 DEF UnitsRead
        <4> QED
          BY <1>3, <4>1, <4>2, <4>3 DEF ReadTerminating, readVars
      <3> QED
        BY <3>1, <3>2, <3>3 DEF Firm, Content
    <2> QED
      BY <1>1, <2>1, <2>2 DEF UnitsInv, ReadsFirm, UnitsSafe
  <1> QED
    BY <1>2, <1>3 DEF ReadNext

(***************************************************************************)
(* get_provenance() of a record that was committed when the read met it    *)
(* returns the whole trace of that record, and of no other: for any number *)
(* of readers and writers, whatever fails, is cancelled or crashes.        *)
(***************************************************************************)
THEOREM ProvenanceIsWhole == NoCreate => (ReadSpec => []TraceWhole)
  <1> SUFFICES ASSUME NoCreate PROVE ReadSpec => []TraceWhole
    OBVIOUS
  <1>1. ReadInit => RecordInv
    BY ReadsInit DEF UnitsInv
  <1>2. RecordInv /\ [ReadNext]_readVars => RecordInv'
    BY RecordNext
  <1>3. RecordInv => TraceWhole
    BY DEF RecordInv, RecordsSafe, RecordSafe, TraceWhole, Answered
  <1> QED
    BY <1>1, <1>2, <1>3, PTL DEF ReadSpec

(***************************************************************************)
(* get_units() of the head of a session, or of a snapshot that a call has  *)
(* returned, is the whole set its writer was asked to store, although a    *)
(* read takes several statements and no lock: for any number of readers    *)
(* and writers, failing statements, failing COMMITs and crashes, as long   *)
(* as no transaction that has reached its COMMIT is undone.                *)
(***************************************************************************)
THEOREM UnitsAreWhole == NoCreate /\ NoUndo => (ReadSpec => []HeadUnitsWhole)
  <1> SUFFICES ASSUME NoCreate, NoUndo PROVE ReadSpec => []HeadUnitsWhole
    OBVIOUS
  <1>1. UnitsInv /\ [ReadNext]_readVars => UnitsInv'
    BY UnitsNext
  <1>2. UnitsInv => HeadUnitsWhole
    BY DEF UnitsInv, ReadsFirm, UnitsSafe, UnitsRead, HeadUnitsWhole, Answered
  <1> QED
    BY <1>1, <1>2, ReadsInit, PTL DEF ReadSpec

-----------------------------------------------------------------------------
(***************************************************************************)
(* history(): the recursive query climbs through rows whose parent and     *)
(* session are those their calls were made with, committed or not, and it  *)
(* starts from a firm snapshot; so it returns a whole chain of the session *)
(* (ChainProofs.tla: the query returns the least set closed under parents).*)
(***************************************************************************)

(* The arguments of d no longer change, the parent it has read included.   *)
Settled(d) == pc[d] \notin {"idle", "session_lock", "read_head"}

RowsOwned == \A x \in work.snaps : Settled(x.id) /\ x.parent = call[x.id].parent

(* A set of snapshots of session s that has the parent of each.            *)
Chain(ids, s) ==
  \A x \in ids :
    /\ x \in Calls /\ Settled(x) /\ call[x].session = s
    /\ call[x].parent \in ids \cup {None}

(* A read by history(): where it can be, and what it then holds.           *)
WalkSafe(rec) ==
  rec.goal = "history" /\ ~rec.raised /\ rec.at # "idle" =>
    /\ rec.at \in {"head", "exists", "chain", "done"}
    /\ rec.id # None =>
         /\ Firm(rec.id) /\ call[rec.id].session = rec.session
         /\ rec.at = "done" => rec.id \in rec.walked /\ Chain(rec.walked, rec.session)

WalksSafe == \A r \in Readers : WalkSafe(read[r])

WalkInv == UnitsInv /\ RowsOwned /\ WalksSafe

(* A step leaves the settled calls settled, and what they were asked.      *)
SettledStay ==
  \A d \in Calls : Settled(d) => Settled(d)' /\ call'[d] = call[d]

LEMMA StepSettled ==
  ASSUME CtlInv, NoCreate, NEW c \in Calls, Step(c)
  PROVE  SettledStay
  <1>1. ASSUME NEW next \in PCs \ {"idle", "session_lock", "read_head"}, Goto(c, next)
        PROVE  SettledStay
    BY <1>1, GotoAlone DEF SettledStay, Settled, Alone
  <1>2. ASSUME NEW r, Raise(c, r) \/ Finish(c, r)
        PROVE  SettledStay
    BY <1>2, RaiseAlone, FinishAlone DEF SettledStay, Settled, Alone
  <1>3. CASE LockSession(c) \/ LockTxn(c)
    BY <1>3, LockAlone DEF LockSession, LockTxn, SettledStay, Settled, Alone
  <1>4. CASE ReadHead(c)
    <2>1. ~Settled(c)
      BY <1>4 DEF ReadHead, Settled
    <2> QED
      BY <1>2, <1>4, <2>1, ReadHeadAlone DEF SettledStay, Settled, Alone
  <1>5. CASE Begin(c)
    <2>1. FirstStatement(c) \in PCs \ {"idle", "session_lock", "read_head"}
      <3>1. call[c].op \in {"snapshot", "rollback", "provenance"}
        BY <1>5 DEF Begin, CtlInv, OpOK, OpAt, TypeOK, CallRecord, OpKinds
      <3> QED
        BY <3>1 DEF FirstStatement, PCs, InBlock, Body
    <2> QED
      BY <1>1, <1>2, <1>5, <2>1 DEF Begin
  <1>6. CASE ReadTarget(c) \/ Check(c)
    BY <1>1, <1>2, <1>6 DEF ReadTarget, Check, PCs, Waiting
  <1>7. CASE WriteUnits(c) \/ WriteLinks(c) \/ WriteHops(c)
    BY <1>1, <1>2, <1>7
    DEF WriteUnits, WriteLinks, WriteHops, ExecuteMany, PCs, InBlock, Body
  <1>8. CASE WriteSnapshot(c) \/ WriteCopy(c) \/ WriteHead(c) \/ WriteProv(c)
    BY <1>1, <1>2, <1>8
    DEF WriteSnapshot, WriteCopy, WriteHead, WriteProv, ExecuteOne, PCs, InBlock, Body
  <1>9. CASE Commit(c) \/ Undo(c)
    BY <1>2, <1>9 DEF Commit, CommitStep, Undo
  <1> QED
    BY <1>3, <1>4, <1>5, <1>6, <1>7, <1>8, <1>9, NoCreateSteps DEF Step

LEMMA NextSettled ==
  ASSUME CtlInv, BlockOK, ArgsOK, NoCreate, [Next]_vars
  PROVE  SettledStay
  <1>1. CASE UNCHANGED vars
    BY <1>1 DEF vars, SettledStay, Settled
  <1>2. CASE Crash
    BY <1>2 DEF Crash, InProgress, SettledStay, Settled
  <1>3. ASSUME NEW c \in Calls, Request(c) PROVE SettledStay
    BY <1>3, RequestArgs DEF SettledStay, Settled, Alone
  <1>4. ASSUME NEW c \in Calls, Cancel(c) PROVE SettledStay
    <2>1. ASSUME NEW r, Raise(c, r) \/ Finish(c, r) PROVE SettledStay
      BY <2>1, RaiseAlone, FinishAlone DEF SettledStay, Settled, Alone
    <2> QED
      BY <1>4, <2>1, NoCreateSteps DEF Cancel, CancelWaiting, CancelBegin, CancelBody,
                                       CancelEnd
  <1> QED
    BY <1>1, <1>2, <1>3, <1>4, StepSettled DEF Next, Terminating

(* The rows of the image are those of calls past their read of the head.   *)
LEMMA RowsStep ==
  ASSUME NoCreate, SeenInv, RowsOwned, [Next]_vars
  PROVE  RowsOwned'
  <1>1. /\ CtlInv /\ BlockOK /\ ArgsOK /\ Grown
        /\ work.snaps \subseteq SnapshotRow
    BY DEF SeenInv, AtomInv, IntInv, CtlInv, TypeOK, DB
  <1>2. SettledStay
    BY <1>1, NextSettled
  <1>3. ASSUME work'.snaps \subseteq work.snaps PROVE RowsOwned'
    BY <1>1, <1>2, <1>3 DEF RowsOwned, SettledStay, SnapshotRow
  <1>4. CASE UNCHANGED vars \/ Crash
    BY <1>1, <1>3, <1>4 DEF vars, Crash, RollbackWork, Grown
  <1>5. ASSUME NEW c \in Calls, Shifts(c) PROVE RowsOwned'
    <2>1. CASE ~Adds(c)
      BY <1>1, <1>3, <1>5, <2>1 DEF Shifts, Undoes, Lands, Idles, RollbackWork,
                                    CommitWork, Grown
    <2>2. CASE Adds(c)
      <3>1. Settled(c) /\ Grows(work', c) /\ call' = call
        BY <2>2 DEF Adds, Settled, Body
      <3>2. ASSUME NEW x \in work'.snaps PROVE Settled(x.id)' /\ x.parent = call'[x.id].parent
        <4>1. CASE x \in work.snaps
          BY <1>1, <1>2, <4>1 DEF RowsOwned, SettledStay, SnapshotRow
        <4>2. CASE x.id = c /\ x.parent = call[c].parent
          BY <1>2, <3>1, <4>2 DEF SettledStay
        <4> QED
          BY <3>1, <4>1, <4>2 DEF Grows
      <3> QED
        BY <3>2 DEF RowsOwned
    <2> QED
      BY <2>1, <2>2
  <1> QED
    BY <1>4, <1>5, WriterShifts DEF SeenInv, Next, Terminating

(* A SELECT keeps the reads of histories safe if its own is.               *)
LEMMA WalkSelect ==
  ASSUME WalkInv, NEW r \in Readers, NEW at, NEW rec, Select(r, at, rec), WalkSafe(rec)
  PROVE  WalksSafe'
  <1>1. UNCHANGED <<disk, work, inTxn, pc, call>>
    BY DEF Select, vars
  <1>2. \A q \in Readers : read'[q] = read[q] \/ read'[q] = rec
    BY DEF Select, WalkInv, UnitsInv, RecordInv, Shaped
  <1>3. \A id : Firm(id)' <=> Firm(id)
    BY <1>1 DEF Firm, Solid, HasSnapshot, Members, Content
  <1>4. \A ids, s : Chain(ids, s)' <=> Chain(ids, s)
    BY <1>1 DEF Chain, Settled
  <1>5. \A q \in Readers : WalkSafe(read[q])
    BY DEF WalkInv, WalksSafe
  <1> QED
    BY <1>1, <1>2, <1>3, <1>4, <1>5 DEF WalksSafe, WalkSafe

(* The query that climbs from a firm snapshot returns a chain.             *)
LEMMA ClimbWhole ==
  ASSUME NoCreate, IsFiniteSet(Calls), WalkInv, NEW id \in Calls, Firm(id)
  PROVE  /\ HasSnapshot(work, id) /\ id \in Ancestry(work, id)
         /\ Chain(Ancestry(work, id), call[id].session)
  <1> DEFINE s == call[id].session
             A == Ancestry(work, id)
             S == {x \in Calls : SnapshotIn(work, x, s)}
  <1>1. /\ work \in DB /\ SeenInv /\ RowsOwned
        /\ ParentsResolve(work) /\ Owned(work, pc, call)
    BY DEF WalkInv, UnitsInv, RecordInv, SeenInv, AtomInv, IntInv, CtlInv, TypeOK,
           TablePart, Sound
  <1>2. HasSnapshot(work, id)
    BY <1>1, FirmWhole
  <1>3. id \in S
    BY <1>1, <1>2 DEF HasSnapshot, SnapshotIn, Owned
  <1>4. Closed(work, S)
    <2>1. ASSUME NEW y \in work.snaps, y.id \in S, y.parent # None
          PROVE  y.parent \in S
      <3>1. y.session = s /\ y.parent \in Calls
        BY <1>1, <2>1 DEF SnapshotIn, Owned, DB, SnapshotRow
      <3> QED
        BY <1>1, <2>1, <3>1 DEF ParentsResolve
    <2> QED
      BY <2>1 DEF Closed, Parents
  <1>5. A \subseteq S
    <2> HIDE DEF S
    <2> QED
      BY <1>3, <1>4, AncestryLeast
  <1>6. id \in A /\ A \subseteq Calls /\ Closed(work, A)
    BY <1>1, AncestryClosed
  <1>7. ASSUME NEW x \in A
        PROVE  /\ x \in Calls /\ Settled(x) /\ call[x].session = s
               /\ call[x].parent \in A \cup {None}
    <2> HIDE DEF A
    <2>1. PICK y \in work.snaps : y.id = x /\ y.session = s
      BY <1>5 DEF SnapshotIn
    <2>2. Settled(x) /\ call[x].session = s /\ call[x].parent = y.parent
      BY <1>1, <2>1 DEF RowsOwned, Owned
    <2>3. y.parent # None => y.parent \in Parents(work, A)
      BY <2>1 DEF Parents
    <2> QED
      BY <1>6, <2>2, <2>3 DEF Closed
  <1> QED
    BY <1>2, <1>6, <1>7 DEF Chain

LEMMA WalkReads ==
  ASSUME NoCreate, IsFiniteSet(Calls), WalkInv, NEW r \in Readers,
         StartRead(r) \/ StartProvenance(r) \/ ReadStep(r)
  PROVE  WalksSafe'
  <1>1. Shape(read[r]) /\ WalkSafe(read[r]) /\ r \in DOMAIN read
    BY DEF WalkInv, UnitsInv, RecordInv, Shaped, WalksSafe
  <1>2. ASSUME NEW at, Select(r, at, NotFound(r)) PROVE WalksSafe'
    <2>1. NotFound(r).raised
      BY <1>1 DEF Shape, NotFound, Fields
    <2> QED
      BY <1>2, <2>1, WalkSelect DEF WalkSafe
  (* A step of a read of another kind.                                     *)
  <1>3. ASSUME NEW at, NEW rec, Select(r, at, rec), rec.goal # "history" PROVE WalksSafe'
    BY <1>3, WalkSelect DEF WalkSafe
  <1>4. CASE StartRead(r)
    <2>1. PICK source \in Sources, goal \in {"units", "history"}, s \in InitialSessions,
               x \in Calls \cup {None} :
            /\ goal = "history" => source = "head"
            /\ source # "returned" => x = None
            /\ Select(r, "idle", [read[r] EXCEPT !.at = FirstSelect(source), !.goal = goal,
                                    !.source = source, !.session = s, !.id = x])
      BY <1>4 DEF StartRead
    <2> DEFINE rec == [read[r] EXCEPT !.at = FirstSelect(source), !.goal = goal,
                                      !.source = source, !.session = s, !.id = x]
    <2>2. /\ rec.at = FirstSelect(source) /\ rec.goal = goal /\ rec.id = x
          /\ goal = "history" => FirstSelect(source) = "head" /\ x = None
      BY <1>1, <2>1 DEF Shape, Fields, FirstSelect
    <2> HIDE DEF rec
    <2>3. WalkSafe(rec)
      BY <2>2 DEF WalkSafe
    <2> QED
      BY <2>1, <2>3, WalkSelect DEF rec
  <1>5. CASE StartProvenance(r)
    <2>1. [read[r] EXCEPT !.at = "record", !.goal = "provenance"].goal = "provenance"
      BY <1>1 DEF Shape, Fields
    <2> QED
      BY <1>3, <1>5, <2>1 DEF StartProvenance
  <1>6. CASE SelectHead(r)
    <2> DEFINE h  == work.heads[read[r].session]
               up == IF read[r].goal = "units" THEN "snapshot" ELSE "exists"
               rec == [read[r] EXCEPT !.id = h, !.at = up]
    <2>1. /\ read[r].at = "head" /\ read[r].id = None /\ read[r].session \in Sessions
      BY <1>1, <1>6 DEF SelectHead, Select, Shape
    <2>2. h \in Calls \cup {None, Absent}
      BY <2>1 DEF WalkInv, UnitsInv, RecordInv, SeenInv, AtomInv, IntInv, CtlInv, TypeOK, DB
    <2>3. CASE h = Absent
      BY <1>2, <1>6, <2>3, DatabaseAssumption DEF SelectHead
    <2>4. CASE h = None
      <3>1. Answer(r).at = "done" /\ Answer(r).id = None
        BY <1>1, <2>1 DEF Answer, To, Shape, Fields
      <3>2. Select(r, "head", Answer(r))
        BY <1>6, <2>4, DatabaseAssumption DEF SelectHead
      <3>3. WalkSafe(Answer(r))
        BY <3>1 DEF WalkSafe
      <3> QED
        BY <3>2, <3>3, WalkSelect
    <2>5. CASE h \in Calls
      <3>1. Select(r, "head", rec)
        BY <1>6, <2>5, DatabaseAssumption DEF SelectHead
      <3>2. /\ rec.at = up /\ rec.goal = read[r].goal /\ rec.id = h
            /\ rec.session = read[r].session
        BY <1>1 DEF Shape, Fields
      <3>3. Firm(h) /\ call[h].session = read[r].session
        BY <2>1, <2>5 DEF WalkInv, UnitsInv, RecordInv, SeenInv, AtomInv, IntInv,
                          TablePart, Sound, Owned, HeadsFirm
      <3> HIDE DEF rec
      <3>4. WalkSafe(rec)
        BY <3>2, <3>3 DEF WalkSafe
      <3> QED
        BY <3>1, <3>4, WalkSelect
    <2> QED
      BY <2>2, <2>3, <2>4, <2>5
  <1>7. CASE SelectExists(r)
    <2> DEFINE next == IF read[r].goal = "units" THEN "links" ELSE "chain"
               rec  == To(r, next)
    <2>1. CASE Select(r, "exists", NotFound(r))
      BY <1>2, <2>1
    <2>2. CASE Select(r, "exists", rec)
      <3>1. read[r].at = "exists"
        BY <2>2 DEF Select
      <3>2. /\ rec.at = next /\ rec.goal = read[r].goal /\ rec.id = read[r].id
            /\ rec.session = read[r].session /\ rec.raised = read[r].raised
        BY <1>1 DEF Shape, Fields, To
      <3> HIDE DEF rec
      <3>3. WalkSafe(rec)
        BY <1>1, <3>1, <3>2 DEF WalkSafe
      <3> QED
        BY <2>2, <3>3, WalkSelect
    <2> QED
      BY <1>7, <2>1, <2>2 DEF SelectExists
  <1>8. CASE SelectChain(r)
    <2> DEFINE id  == read[r].id
               ids == IF HasSnapshot(work, id) THEN Ancestry(work, id) ELSE {}
               rec == [Answer(r) EXCEPT !.walked = ids]
    <2>1. read[r].at = "chain" /\ read[r].goal = "history" /\ Select(r, "chain", rec)
      BY <1>1, <1>8 DEF SelectChain, Select, Shape
    <2>2. /\ rec.at = "done" /\ rec.goal = "history" /\ rec.id = id
          /\ rec.session = read[r].session /\ rec.raised = read[r].raised
          /\ rec.walked = ids
      BY <1>1, <2>1 DEF Shape, Fields, To, Answer
    <2>3. ~read[r].raised
      BY <1>1, <2>1 DEF Shape
    <2>4. ASSUME id # None
          PROVE  /\ Firm(id) /\ call[id].session = read[r].session
                 /\ id \in ids /\ Chain(ids, read[r].session)
      <3>1. Firm(id) /\ id \in Calls /\ call[id].session = read[r].session
        BY <1>1, <2>1, <2>3, <2>4 DEF WalkSafe, Firm
      <3>2. /\ HasSnapshot(work, id) /\ id \in Ancestry(work, id)
            /\ Chain(Ancestry(work, id), call[id].session)
        BY <3>1, ClimbWhole
      <3> QED
        BY <3>1, <3>2
    <2> HIDE DEF rec
    <2>5. WalkSafe(rec)
      BY <2>2, <2>4 DEF WalkSafe
    <2> QED
      BY <2>1, <2>5, WalkSelect
  (* No history() is at any other SELECT.                                  *)
  <1>9. CASE \/ SelectSnapshot(r) \/ SelectSession(r) \/ SelectList(r) \/ SelectLinks(r)
             \/ SelectContents(r) \/ SelectRecord(r) \/ SelectHops(r)
    <2>1. ASSUME NEW at \in {"snapshot", "session", "list", "links", "contents", "record",
                             "hops"},
                 NEW rec, Select(r, at, rec), rec.goal = read[r].goal
          PROVE  WalksSafe'
      <3>1. read[r].goal # "history"
        BY <1>1, <2>1 DEF WalkSafe, Shape, Select
      <3> QED
        BY <1>3, <2>1, <3>1
    <2>2. \A at : To(r, at).goal = read[r].goal
      BY <1>1 DEF Shape, Fields, To
    <2>3. CASE SelectSnapshot(r)
      BY <1>2, <2>1, <2>2, <2>3 DEF SelectSnapshot
    <2>4. CASE SelectSession(r)
      BY <1>2, <2>1, <2>2, <2>4 DEF SelectSession
    <2>5. CASE SelectList(r)
      <3>1. CASE Select(r, "list", Answer(r))
        BY <2>1, <2>2, <3>1 DEF Answer
      <3>2. ASSUME NEW x, Select(r, "list", [To(r, "exists") EXCEPT !.id = x])
            PROVE  WalksSafe'
        <4> DEFINE rec == [To(r, "exists") EXCEPT !.id = x]
        <4>1. rec.goal = read[r].goal
          BY <1>1 DEF Shape, Fields, To
        <4> QED
          BY <2>1, <3>2, <4>1
      <3> QED
        BY <2>5, <3>1, <3>2 DEF SelectList
    <2>6. CASE SelectLinks(r)
      <3> DEFINE us   == Members(work, read[r].id)
                 next == IF us = {} THEN "done" ELSE "contents"
                 rec  == [To(r, next) EXCEPT !.found = us]
      <3>1. rec.goal = read[r].goal
        BY <1>1 DEF Shape, Fields, To
      <3>2. Select(r, "links", rec)
        BY <2>6 DEF SelectLinks
      <3> HIDE DEF rec
      <3> QED
        BY <2>1, <3>1, <3>2
    <2>7. CASE SelectContents(r)
      <3> DEFINE us  == {u \in read[r].found : work.units[u] # None}
                 rec == [Answer(r) EXCEPT !.found = us]
      <3>1. rec.goal = read[r].goal
        BY <1>1 DEF Shape, Fields, To, Answer
      <3>2. Select(r, "contents", rec)
        BY <1>1, <2>7 DEF SelectContents, Answer, To, Shape, Fields
      <3> HIDE DEF rec
      <3> QED
        BY <2>1, <3>1, <3>2
    <2>8. CASE SelectRecord(r)
      <3>1. ASSUME NEW p, Select(r, "record", [read[r] EXCEPT !.at = "hops", !.id = p[1],
                                                              !.durable = p \in disk.provs])
            PROVE  WalksSafe'
        <4> DEFINE rec == [read[r] EXCEPT !.at = "hops", !.id = p[1],
                                          !.durable = p \in disk.provs]
        <4>1. rec.goal = read[r].goal
          BY <1>1 DEF Shape, Fields
        <4> QED
          BY <2>1, <3>1, <4>1
      <3> QED
        BY <1>2, <2>8, <3>1 DEF SelectRecord
    <2>9. CASE SelectHops(r)
      <3> DEFINE rec == [Answer(r) EXCEPT !.hops = Trace(work, read[r].id)]
      <3>1. rec.goal = read[r].goal
        BY <1>1 DEF Shape, Fields, To, Answer
      <3> QED
        BY <2>1, <2>9, <3>1 DEF SelectHops
    <2> QED
      BY <1>9, <2>3, <2>4, <2>5, <2>6, <2>7, <2>8, <2>9
  <1> QED
    BY <1>4, <1>5, <1>6, <1>7, <1>8, <1>9 DEF ReadStep

LEMMA WalkNext ==
  ASSUME NoCreate, NoUndo, IsFiniteSet(Calls), WalkInv, [ReadNext]_readVars
  PROVE  WalkInv'
  <1>1. UnitsInv /\ RecordInv /\ UnitsInv'
    BY UnitsNext DEF WalkInv, UnitsInv
  <1>2. ASSUME NEW r \in Readers, StartRead(r) \/ StartProvenance(r) \/ ReadStep(r)
        PROVE  WalkInv'
    <2>1. UNCHANGED vars
      BY <1>1, <1>2, ReaderSteps DEF RecordInv
    <2>2. RowsOwned'
      BY <2>1 DEF vars, WalkInv, RowsOwned, Settled
    <2> QED
      BY <1>1, <1>2, <2>2, WalkReads DEF WalkInv
  <1>3. ASSUME WriteStep \/ CrashAll \/ ReadTerminating \/ UNCHANGED readVars
        PROVE  WalkInv'
    <2>1. /\ [Next]_vars
          /\ \A r \in Readers : read'[r] = read[r] \/ read'[r].raised
      BY <1>1, <1>3, OtherSteps
    <2>2. SettledStay
      BY <1>1, <2>1, NextSettled DEF RecordInv, SeenInv, AtomInv, IntInv
    <2>3. RowsOwned'
      BY <1>1, <2>1, RowsStep DEF RecordInv, WalkInv
    <2>4. ASSUME NEW r \in Readers, read'[r] = read[r]
          PROVE  WalkSafe(read[r])'
      <3>1. WalkSafe(read[r])
        BY DEF WalkInv, WalksSafe
      <3> DEFINE rec == read[r]
      <3>2. ASSUME rec.goal = "history", ~rec.raised, rec.at # "idle", rec.id # None
            PROVE  /\ rec.at \in {"head", "exists", "chain", "done"}
                   /\ Firm(rec.id)' /\ call'[rec.id].session = rec.session
                   /\ rec.at = "done" =>
                        rec.id \in rec.walked /\ Chain(rec.walked, rec.session)'
        <4>1. /\ rec.at \in {"head", "exists", "chain", "done"}
              /\ Firm(rec.id) /\ rec.id \in Calls /\ call[rec.id].session = rec.session
              /\ rec.at = "done" => rec.id \in rec.walked /\ Chain(rec.walked, rec.session)
          BY <3>1, <3>2 DEF WalkSafe, Firm
        <4>2. Settled(rec.id)
          BY <1>1, <4>1 DEF Firm, Solid, Settled, RecordInv, SeenInv, AtomInv, FileOK, Kept
        <4>3. Chain(rec.walked, rec.session) => Chain(rec.walked, rec.session)'
          BY <2>2, <2>4 DEF Chain, SettledStay
        <4>4. Firm(rec.id)'
          <5>1. CASE WriteStep
            BY <1>1, <4>1, <5>1, FirmStays DEF WriteStep, RecordInv
          <5>2. CASE UNCHANGED vars
            <6>1. UNCHANGED <<disk, work, inTxn, pc, call>>
              BY <5>2 DEF vars
            <6> QED
              BY <2>4, <4>1, <6>1 DEF Firm, Solid, HasSnapshot, Members, Content
          <5>3. CASE CrashAll
            <6>1. read'[r].raised
              BY <1>1, <3>2, <5>3 DEF CrashAll, NotFound, RecordInv, Shaped, Shape, Fields
            <6> QED
              BY <2>4, <3>2, <6>1
          <5> QED
            BY <1>3, <5>1, <5>2, <5>3 DEF ReadTerminating, readVars
        <4> QED
          BY <2>2, <4>1, <4>2, <4>3, <4>4 DEF SettledStay
      <3>3. rec.goal = "history" /\ ~rec.raised /\ rec.at # "idle" =>
              rec.at \in {"head", "exists", "chain", "done"}
        BY <3>1 DEF WalkSafe
      <3> QED
        BY <2>4, <3>2, <3>3 DEF WalkSafe
    <2>5. ASSUME NEW r \in Readers, read'[r].raised
          PROVE  WalkSafe(read[r])'
      BY <2>5 DEF WalkSafe
    <2> QED
      BY <1>1, <2>1, <2>3, <2>4, <2>5 DEF WalkInv, WalksSafe
  <1> QED
    BY <1>2, <1>3 DEF ReadNext

(***************************************************************************)
(* history() of the head of a session lists that head, the parent each     *)
(* listed snapshot was written on, down to the root, and nothing of        *)
(* another session; under the hypotheses of UnitsAreWhole, and for         *)
(* finitely many calls, which is what bounds the recursive query.          *)
(***************************************************************************)
THEOREM HistoriesAreWhole ==
  NoCreate /\ NoUndo /\ IsFiniteSet(Calls) => (ReadSpec => []HistoryWhole)
  <1> SUFFICES ASSUME NoCreate, NoUndo, IsFiniteSet(Calls)
               PROVE  ReadSpec => []HistoryWhole
    OBVIOUS
  <1>1. ReadInit => WalkInv
    <2> SUFFICES ASSUME ReadInit PROVE WalkInv
      OBVIOUS
    <2>1. UnitsInv /\ work.snaps = {} /\ \A r \in Readers : read[r].at = "idle"
      BY ReadsInit DEF ReadInit, Init, EmptyDB
    <2> QED
      BY <2>1 DEF WalkInv, RowsOwned, WalksSafe, WalkSafe
  <1>2. WalkInv /\ [ReadNext]_readVars => WalkInv'
    BY WalkNext
  <1>3. WalkInv => HistoryWhole
    BY DEF WalkInv, WalksSafe, WalkSafe, Chain, HistoryWhole, Answered
  <1> QED
    BY <1>1, <1>2, <1>3, PTL DEF ReadSpec
=============================================================================
