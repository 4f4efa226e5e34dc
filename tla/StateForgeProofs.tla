-------------------------- MODULE StateForgeProofs --------------------------
(***************************************************************************)
(* Theorems of StateForge that hold for every set of calls, sessions,      *)
(* units and faults.                                                       *)
(***************************************************************************)
EXTENDS StateForge, TLAPS

(***************************************************************************)
(* The statements keep the tables well typed.                              *)
(***************************************************************************)
LEMMA EmptyTyped == EmptyDB \in DB
  BY DatabaseAssumption DEF EmptyDB, DB, Sessions

LEMMA InsertSessionTyped ==
  ASSUME NEW db \in DB, NEW c \in Calls
  PROVE  InsertSession(db, c) \in DB
  BY DEF InsertSession, DB, Sessions

LEMMA KeepUnitsTyped ==
  ASSUME NEW db \in DB, NEW c \in Calls, NEW us
  PROVE  KeepUnits(db, c, us) \in DB
  BY DEF KeepUnits, DB

LEMMA InsertSnapshotTyped ==
  ASSUME NEW db \in DB, NEW c \in Calls, NEW s \in Sessions,
         NEW p \in Calls \cup {None}
  PROVE  InsertSnapshot(db, c, s, p) \in DB
  BY DEF InsertSnapshot, DB, SnapshotRow

LEMMA KeepLinksTyped ==
  ASSUME NEW db \in DB, NEW c \in Calls, NEW us \in SUBSET Units
  PROVE  KeepLinks(db, c, us) \in DB
  BY DEF KeepLinks, DB

LEMMA SetHeadTyped ==
  ASSUME NEW db \in DB, NEW c \in Calls, NEW s \in Sessions
  PROVE  SetHead(db, s, c) \in DB
  BY DEF SetHead, DB

LEMMA InsertProvenanceTyped ==
  ASSUME NEW db \in DB, NEW c \in Calls, NEW u \in Units
  PROVE  InsertProvenance(db, c, u) \in DB
  BY DEF InsertProvenance, DB

LEMMA KeepHopsTyped ==
  ASSUME NEW db \in DB, NEW c \in Calls, NEW hs \in SUBSET Nat
  PROVE  KeepHops(db, c, hs) \in DB
  BY DEF KeepHops, DB

(* Any prefix of a list of units is a set of units; the same of hops.      *)
LEMMA PrefixTyped ==
  ASSUME NEW S, NEW xs \in Seq(S), NEW k \in DOMAIN xs
  PROVE  Prefix(xs, k - 1) \subseteq S /\ Range(xs) \subseteq S
  BY DEF Prefix, Range

LEMMA ListsTyped ==
  UnitLists \cup {<<>>} \subseteq Seq(Units) /\ Traces \cup {<<>>} \subseteq Seq(Nat)
  <1>1. <<>> \in Seq(Units) /\ <<>> \in Seq(Nat)
    OBVIOUS
  <1> QED
    BY <1>1, StateForgeAssumption DEF StateForgeAssumption

LEMMA RangeTyped ==
  ASSUME NEW S, NEW xs \in Seq(S)
  PROVE  Range(xs) \subseteq S
  BY DEF Range

-----------------------------------------------------------------------------
(* TypeOK in two parts, so that each step argues about each part once.     *)
DbOK == disk \in DB /\ work \in DB /\ inTxn \in BOOLEAN

CtlOK ==
  /\ txnLock \in Calls \cup {None}
  /\ sessLock \in [Sessions -> Calls \cup {None}]
  /\ pc \in [Calls -> PCs]
  /\ call \in [Calls -> CallRecord]
  /\ result \in [Calls -> Results]

(* The program counters an operation can be at.                            *)
OpAt(op, at) ==
  /\ at \in {"session_lock", "read_head", "snap", "head"} =>
       op \in {"snapshot", "rollback"}
  /\ at \in {"read_target", "copy"} => op = "rollback"
  /\ at \in {"units", "links"} => op = "snapshot"
  /\ at \in {"prov", "hops"} => op = "provenance"
  /\ at \in {"check", "txn_lock", "begin", "commit", "undo"} => op # "create"
  /\ at \in {"insert", "create_commit"} => op = "create" /\ "create" \in Ops

OpOK ==
  \A c \in Calls :
    /\ OpAt(call[c].op, pc[c])
    /\ call[c].op = "provenance" => call[c].unit \in Units
    /\ call[c].op = "rollback" => call[c].target \in Calls

LEMMA TypeParts == TypeOK <=> DbOK /\ CtlOK
  BY DEF TypeOK, DbOK, CtlOK

LEMMA ExecuteTyped ==
  ASSUME DbOK, NEW db \in DB, Execute(db)
  PROVE  DbOK'
  BY StateForgeAssumption DEF DbOK, Execute

LEMMA CommitWorkTyped == DbOK /\ CommitWork => DbOK'
  BY DEF DbOK, CommitWork

LEMMA RollbackWorkTyped == DbOK /\ RollbackWork => DbOK'
  BY DEF DbOK, RollbackWork

LEMMA GotoTyped ==
  ASSUME CtlOK, NEW c \in Calls, NEW next \in PCs, Goto(c, next)
  PROVE  CtlOK'
  BY DEF CtlOK, Goto

LEMMA RaiseTyped ==
  ASSUME CtlOK, NEW c \in Calls, NEW why \in Results, Raise(c, why)
  PROVE  CtlOK'
  BY DEF CtlOK, Raise, PCs, InBlock

LEMMA FinishTyped ==
  ASSUME CtlOK, NEW c \in Calls, NEW r \in Results, Finish(c, r)
  PROVE  CtlOK'
  BY DEF CtlOK, Finish, PCs

LEMMA ExecuteOneTyped ==
  ASSUME TypeOK, NEW c \in Calls, NEW good, NEW db \in DB, NEW next \in PCs,
         ExecuteOne(c, good, db, next)
  PROVE  TypeOK'
  <1>1. work \in DB /\ "error" \in Results
    BY DEF TypeOK, Results
  <1>2. DbOK'
    BY <1>1, ExecuteTyped, TypeParts DEF ExecuteOne
  <1>3. CtlOK'
    BY <1>1, GotoTyped, RaiseTyped, TypeParts DEF ExecuteOne
  <1> QED
    BY <1>2, <1>3, TypeParts DEF TypeOK, DbOK, CtlOK

LEMMA InvokeTyped ==
  ASSUME TypeOK, NEW c \in Calls, NEW rec \in CallRecord, NEW next \in PCs,
         Invoke(c, rec, next)
  PROVE  TypeOK'
  BY DEF TypeOK, Invoke

LEMMA CommitStepTyped ==
  ASSUME TypeOK, NEW c \in Calls, CommitStep(c)
  PROVE  TypeOK'
  <1>1. DbOK'
    BY CommitWorkTyped, RollbackWorkTyped, TypeParts
    DEF CommitStep, dbVars, DbOK
  <1>2. CtlOK'
    BY FinishTyped, TypeParts DEF CommitStep, Results
  <1> QED
    BY <1>1, <1>2 DEF TypeOK, DbOK, CtlOK

THEOREM TypeInit == Init => TypeOK
  <1> SUFFICES ASSUME Init PROVE TypeOK
    OBVIOUS
  <1>1. \A c \in Calls : NewCall("create", c) \in CallRecord
    BY DEF NewCall, CallRecord, OpKinds, Sessions
  <1> QED
    BY <1>1, EmptyTyped DEF Init, TypeOK, PCs, Results

(***************************************************************************)
(* An executemany over a list xs of rows keeps TypeOK when every prefix it *)
(* may store gives typed tables.  The three such statements are taken      *)
(* apart one by one.                                                       *)
(***************************************************************************)
LEMMA WriteUnitsTyped ==
  ASSUME TypeOK, NEW c \in Calls, WriteUnits(c)
  PROVE  TypeOK'
  <1>1. \A us : KeepUnits(work, c, us) \in DB
    BY KeepUnitsTyped DEF TypeOK
  <1>2. DbOK'
    BY <1>1, ExecuteTyped, TypeParts DEF WriteUnits, ExecuteMany
  <1>3. CtlOK'
    BY GotoTyped, RaiseTyped, TypeParts
    DEF WriteUnits, ExecuteMany, PCs, InBlock, Body, Results
  <1> QED
    BY <1>2, <1>3 DEF TypeOK, DbOK, CtlOK

LEMMA WriteLinksTyped ==
  ASSUME TypeOK, NEW c \in Calls, WriteLinks(c)
  PROVE  TypeOK'
  <1> DEFINE xs == call[c].units
  <1>1. xs \in Seq(Units)
    BY ListsTyped DEF TypeOK, CallRecord
  <1>2. \A k \in DOMAIN xs : KeepLinks(work, c, Prefix(xs, k - 1)) \in DB
    BY <1>1, PrefixTyped, KeepLinksTyped DEF TypeOK
  <1>3. KeepLinks(work, c, Range(xs)) \in DB
    BY <1>1, RangeTyped, KeepLinksTyped DEF TypeOK
  <1>4. DbOK'
    BY <1>2, <1>3, ExecuteTyped, TypeParts DEF WriteLinks, ExecuteMany
  <1>5. CtlOK'
    BY GotoTyped, RaiseTyped, TypeParts
    DEF WriteLinks, ExecuteMany, PCs, InBlock, Body, Results
  <1> QED
    BY <1>4, <1>5 DEF TypeOK, DbOK, CtlOK

LEMMA WriteHopsTyped ==
  ASSUME TypeOK, NEW c \in Calls, WriteHops(c)
  PROVE  TypeOK'
  <1> DEFINE xs == call[c].trace
  <1>1. xs \in Seq(Nat)
    BY ListsTyped DEF TypeOK, CallRecord
  <1>2. \A k \in DOMAIN xs : KeepHops(work, c, Prefix(xs, k - 1)) \in DB
    BY <1>1, PrefixTyped, KeepHopsTyped DEF TypeOK
  <1>3. KeepHops(work, c, Range(xs)) \in DB
    BY <1>1, RangeTyped, KeepHopsTyped DEF TypeOK
  <1>4. DbOK'
    BY <1>2, <1>3, ExecuteTyped, TypeParts DEF WriteHops, ExecuteMany
  <1>5. CtlOK'
    BY GotoTyped, RaiseTyped, TypeParts
    DEF WriteHops, ExecuteMany, PCs, InBlock, Results
  <1> QED
    BY <1>4, <1>5 DEF TypeOK, DbOK, CtlOK

LEMMA RequestTyped ==
  ASSUME TypeOK, NEW c \in Calls, Request(c)
  PROVE  TypeOK'
  <1>1. \A op \in OpKinds, s \in Sessions : NewCall(op, s) \in CallRecord
    BY DEF NewCall, CallRecord
  <1>2. c \in Sessions /\ AnySession(c) \subseteq Sessions
    BY DEF Sessions, AnySession
  <1>3. AnySnapshot(c) \subseteq Calls
    BY DEF AnySnapshot, TypeOK, DB, SnapshotRow
  <1>4. {"session_lock", "check", "insert"} \subseteq PCs
    BY DEF PCs, Waiting
  <1>5. CASE Snapshot(c)
    <2>1. PICK s \in Sessions, us \in UnitLists :
            Invoke(c, [NewCall("snapshot", s) EXCEPT !.units = us], "session_lock")
      BY <1>2, <1>5 DEF Snapshot
    <2>2. [NewCall("snapshot", s) EXCEPT !.units = us] \in CallRecord
      BY DEF NewCall, CallRecord, OpKinds
    <2> QED
      BY <1>4, <2>1, <2>2, InvokeTyped
  <1>6. CASE Rollback(c)
    <2>1. PICK s \in Sessions, t \in Calls :
            Invoke(c, [NewCall("rollback", s) EXCEPT !.target = t], "session_lock")
      BY <1>2, <1>3, <1>6 DEF Rollback
    <2>2. [NewCall("rollback", s) EXCEPT !.target = t] \in CallRecord
      BY DEF NewCall, CallRecord, OpKinds
    <2> QED
      BY <1>4, <2>1, <2>2, InvokeTyped
  <1>7. CASE WriteProvenance(c)
    <2>1. PICK u \in Units, tr \in Traces :
            Invoke(c, [NewCall("provenance", c) EXCEPT !.unit = u, !.trace = tr],
                   "check")
      BY <1>7 DEF WriteProvenance
    <2>2. [NewCall("provenance", c) EXCEPT !.unit = u, !.trace = tr] \in CallRecord
      BY <1>2 DEF NewCall, CallRecord, OpKinds
    <2> QED
      BY <1>4, <2>1, <2>2, InvokeTyped
  <1>8. CASE CreateSession(c)
    BY <1>1, <1>2, <1>4, <1>8, InvokeTyped DEF CreateSession, OpKinds
  <1> QED
    BY <1>5, <1>6, <1>7, <1>8 DEF Request

LEMMA StepTyped ==
  ASSUME TypeOK, OpOK, NEW c \in Calls, Step(c)
  PROVE  TypeOK'
  <1>1. work \in DB /\ call[c] \in CallRecord /\ c \in Sessions
    BY DEF TypeOK, Sessions
  <1>2. CASE LockSession(c)
    BY <1>1, <1>2 DEF LockSession, TypeOK, PCs, Waiting, CallRecord
  <1>3. CASE ReadHead(c)
    <2>1. DbOK'
      BY <1>3, TypeParts DEF ReadHead, dbVars, DbOK
    <2>2. CASE Finish(c, "error")
      BY <2>1, <2>2, FinishTyped, TypeParts DEF Results, TypeOK, DbOK, CtlOK
    <2>3. CASE ~Finish(c, "error")
      <3>1. work.heads[call[c].session] \in Calls \cup {None}
        BY <1>1, <1>3, <2>3 DEF ReadHead, DB, CallRecord
      <3> QED
        BY <1>1, <1>3, <2>1, <2>3, <3>1
        DEF ReadHead, TypeOK, DbOK, PCs, Waiting, CallRecord
    <2> QED
      BY <2>2, <2>3
  <1>4. CASE ReadTarget(c)
    <2>1. DbOK'
      BY <1>4, TypeParts DEF ReadTarget, dbVars, DbOK
    <2>2. CtlOK'
      BY <1>4, GotoTyped, FinishTyped, TypeParts DEF ReadTarget, PCs, Waiting, Results
    <2> QED
      BY <2>1, <2>2 DEF TypeOK, DbOK, CtlOK
  <1>5. CASE Check(c)
    <2>1. DbOK'
      BY <1>5, TypeParts DEF Check, dbVars, DbOK
    <2>2. CtlOK'
      BY <1>5, GotoTyped, FinishTyped, TypeParts DEF Check, PCs, Waiting, Results
    <2> QED
      BY <2>1, <2>2 DEF TypeOK, DbOK, CtlOK
  <1>6. CASE LockTxn(c)
    BY <1>6 DEF LockTxn, TypeOK, PCs, InBlock
  <1>7. CASE Begin(c)
    <2>1. CtlOK'
      <3>1. ASSUME Goto(c, FirstStatement(c)), pc[c] = "begin"
            PROVE  CtlOK'
        <4>1. call[c].op \in {"snapshot", "rollback", "provenance"}
          BY <1>1, <3>1 DEF OpOK, OpAt, CallRecord, OpKinds
        <4>2. FirstStatement(c) \in PCs
          BY <4>1 DEF FirstStatement, PCs, InBlock, Body
        <4> QED
          BY <3>1, <4>2, GotoTyped, TypeParts
      <3> QED
        BY <1>7, <3>1, FinishTyped, TypeParts DEF Begin, Results
    <2> QED
      BY <1>7, <2>1 DEF Begin, TypeOK, CtlOK
  <1>8. CASE WriteUnits(c)
    BY <1>8, WriteUnitsTyped
  <1>9. CASE WriteSnapshot(c)
    <2>1. InsertSnapshot(work, c, call[c].session, call[c].parent) \in DB
      BY <1>1, InsertSnapshotTyped DEF CallRecord
    <2> QED
      BY <1>9, <2>1, ExecuteOneTyped DEF WriteSnapshot, PCs, InBlock, Body
  <1>10. CASE WriteLinks(c)
    BY <1>10, WriteLinksTyped
  <1>11. CASE WriteCopy(c)
    <2>1. CopyLinks(work, c, call[c].target) \in DB
      BY <1>1, KeepLinksTyped DEF CopyLinks, Members
    <2> QED
      BY <1>11, <2>1, ExecuteOneTyped DEF WriteCopy, PCs, InBlock, Body
  <1>12. CASE WriteHead(c)
    <2>1. SetHead(work, call[c].session, c) \in DB
      BY <1>1, SetHeadTyped DEF CallRecord
    <2> QED
      BY <1>12, <2>1, ExecuteOneTyped DEF WriteHead, PCs, InBlock
  <1>13. CASE WriteProv(c)
    <2>1. InsertProvenance(work, c, call[c].unit) \in DB
      BY <1>1, <1>13, InsertProvenanceTyped DEF WriteProv, OpOK, OpAt
    <2> QED
      BY <1>13, <2>1, ExecuteOneTyped DEF WriteProv, PCs, InBlock, Body
  <1>14. CASE WriteHops(c)
    BY <1>14, WriteHopsTyped
  <1>15. CASE Commit(c)
    BY <1>15, CommitStepTyped DEF Commit
  <1>16. CASE Undo(c)
    <2>1. DbOK'
      BY <1>16, RollbackWorkTyped, TypeParts DEF Undo
    <2>2. CtlOK'
      BY <1>16, FinishTyped, TypeParts DEF Undo, CtlOK
    <2> QED
      BY <2>1, <2>2 DEF TypeOK, DbOK, CtlOK
  <1>17. CASE InsertSessionRow(c)
    <2>1. InsertSession(work, c) \in DB
      BY <1>1, InsertSessionTyped
    <2>2. DbOK'
      BY <1>1, <1>17, <2>1, ExecuteTyped, TypeParts DEF InsertSessionRow
    <2>3. CtlOK'
      BY <1>17, GotoTyped, FinishTyped, TypeParts DEF InsertSessionRow, PCs, Results
    <2> QED
      BY <2>2, <2>3 DEF TypeOK, DbOK, CtlOK
  <1>18. CASE CommitSession(c)
    BY <1>18, CommitStepTyped DEF CommitSession
  <1> QED
    BY <1>2, <1>3, <1>4, <1>5, <1>6, <1>7, <1>8, <1>9, <1>10, <1>11, <1>12,
       <1>13, <1>14, <1>15, <1>16, <1>17, <1>18 DEF Step

LEMMA CancelTyped ==
  ASSUME TypeOK, NEW c \in Calls, Cancel(c)
  PROVE  TypeOK'
  <1>1. CASE CancelWaiting(c)
    <2>1. DbOK'
      BY <1>1, TypeParts DEF CancelWaiting, dbVars, DbOK
    <2>2. CtlOK'
      BY <1>1, FinishTyped, TypeParts DEF CancelWaiting, Results
    <2> QED
      BY <2>1, <2>2 DEF TypeOK, DbOK, CtlOK
  <1>2. CASE CancelBegin(c)
    <2>1. DbOK'
      BY <1>2, TypeParts DEF CancelBegin, DbOK
    <2>2. CtlOK'
      BY <1>2, FinishTyped, TypeParts DEF CancelBegin, Results
    <2> QED
      BY <2>1, <2>2 DEF TypeOK, DbOK, CtlOK
  <1>3. CASE CancelBody(c)
    <2>1. DbOK'
      BY <1>3, TypeParts DEF CancelBody, dbVars, DbOK
    <2>2. CtlOK'
      BY <1>3, RaiseTyped, TypeParts DEF CancelBody, Results
    <2> QED
      BY <2>1, <2>2 DEF TypeOK, DbOK, CtlOK
  <1>4. CASE CancelEnd(c)
    <2>1. DbOK'
      BY <1>4, CommitWorkTyped, RollbackWorkTyped, TypeParts
      DEF CancelEnd, dbVars, DbOK
    <2>2. CtlOK'
      BY <1>4, FinishTyped, TypeParts DEF CancelEnd, Results
    <2> QED
      BY <2>1, <2>2 DEF TypeOK, DbOK, CtlOK
  <1>5. CASE CancelCreate(c)
    <2>1. DbOK'
      BY <1>5, CommitWorkTyped, TypeParts DEF CancelCreate, dbVars, DbOK
    <2>2. CtlOK'
      BY <1>5, FinishTyped, TypeParts DEF CancelCreate, Results
    <2> QED
      BY <2>1, <2>2 DEF TypeOK, DbOK, CtlOK
  <1> QED
    BY <1>1, <1>2, <1>3, <1>4, <1>5 DEF Cancel

LEMMA CrashTyped == TypeOK /\ Crash => TypeOK'
  <1> SUFFICES ASSUME TypeOK, Crash PROVE TypeOK'
    OBVIOUS
  <1>1. DbOK'
    BY RollbackWorkTyped, TypeParts DEF Crash
  <1>2. CtlOK'
    BY DEF Crash, CtlOK, TypeOK, PCs, Results
  <1> QED
    BY <1>1, <1>2 DEF TypeOK, DbOK, CtlOK

-----------------------------------------------------------------------------
(***************************************************************************)
(* Mutual exclusion: the transaction lock is held exactly by the call      *)
(* inside its transaction block, and a call that has entered the session   *)
(* lock of its session holds it until it returns.                          *)
(***************************************************************************)
SessionHeld == {"read_head", "read_target", "check", "txn_lock"} \cup InBlock

LockOK ==
  \A c \in Calls :
    /\ pc[c] \in InBlock <=> txnLock = c
    /\ pc[c] \in SessionHeld /\ call[c].op \in {"snapshot", "rollback"} =>
         sessLock[call[c].session] = c

CtlInv == TypeOK /\ OpOK /\ LockOK

LEMMA GotoCtl ==
  ASSUME CtlInv, NEW c \in Calls, NEW next, Goto(c, next),
         OpAt(call[c].op, next),
         pc[c] \in InBlock <=> next \in InBlock,
         next \in SessionHeld => pc[c] \in SessionHeld \/ call[c].op = "provenance"
  PROVE  OpOK' /\ LockOK'
  BY DEF CtlInv, TypeOK, Goto, OpOK, LockOK

LEMMA RaiseCtl ==
  ASSUME CtlInv, NEW c \in Calls, NEW why, Raise(c, why), pc[c] \in InBlock
  PROVE  OpOK' /\ LockOK'
  <1>1. OpAt(call[c].op, "undo") 
    BY DEF CtlInv, OpOK, OpAt, InBlock, Body
  <1> QED
    BY <1>1 DEF CtlInv, TypeOK, Raise, OpOK, LockOK, InBlock, SessionHeld

LEMMA FinishCtl ==
  ASSUME CtlInv, NEW c \in Calls, NEW r, Finish(c, r)
  PROVE  OpOK' /\ LockOK'
  <1>1. OpAt(call[c].op, "done") /\ "done" \notin SessionHeld
    BY DEF OpAt, SessionHeld, InBlock, Body
  <1>2. OpOK'
    BY <1>1 DEF CtlInv, TypeOK, Finish, OpOK
  <1>3. ASSUME NEW d \in Calls
        PROVE  /\ pc'[d] \in InBlock <=> txnLock' = d
               /\ pc'[d] \in SessionHeld /\ call'[d].op \in {"snapshot", "rollback"} =>
                    sessLock'[call'[d].session] = d
    <2>1. CASE d = c
      BY <1>1, <2>1, DatabaseAssumption DEF CtlInv, TypeOK, Finish, LockOK, SessionHeld
    <2>2. CASE d # c
      <3>1. call[d].session \in Sessions
        BY DEF CtlInv, TypeOK, CallRecord
      <3> QED
        BY <2>2, <3>1, DatabaseAssumption DEF CtlInv, TypeOK, Finish, LockOK
    <2> QED
      BY <2>1, <2>2
  <1> QED
    BY <1>2, <1>3 DEF LockOK

LEMMA InvokeCtl ==
  ASSUME CtlInv, NEW c \in Calls, NEW rec \in CallRecord, NEW next,
         Invoke(c, rec, next),
         OpAt(rec.op, next),
         next \notin InBlock,
         next \in SessionHeld => rec.op = "provenance",
         rec.op = "provenance" => rec.unit \in Units,
         rec.op = "rollback" => rec.target \in Calls
  PROVE  OpOK' /\ LockOK'
  <1>1. "idle" \notin InBlock
    BY DEF InBlock, Body
  <1> QED
    BY <1>1 DEF CtlInv, TypeOK, Invoke, OpOK, LockOK

LEMMA CommitStepCtl ==
  ASSUME CtlInv, NEW c \in Calls, CommitStep(c)
  PROVE  OpOK' /\ LockOK'
  BY FinishCtl DEF CommitStep

LEMMA RequestCtl ==
  ASSUME CtlInv, NEW c \in Calls, Request(c)
  PROVE  OpOK' /\ LockOK'
  <1>1. c \in Sessions /\ AnySession(c) \subseteq Sessions
    BY DEF Sessions, AnySession
  <1>2. AnySnapshot(c) \subseteq Calls
    BY DEF AnySnapshot, CtlInv, TypeOK, DB, SnapshotRow
  <1>3. /\ {"session_lock", "insert"} \cap SessionHeld = {}
        /\ {"session_lock", "check", "insert"} \cap InBlock = {}
    BY DEF SessionHeld, InBlock, Body
  <1>4. CASE Snapshot(c)
    <2>1. PICK s \in Sessions, us \in UnitLists :
            Invoke(c, [NewCall("snapshot", s) EXCEPT !.units = us], "session_lock")
      BY <1>1, <1>4 DEF Snapshot
    <2> DEFINE rec == [NewCall("snapshot", s) EXCEPT !.units = us]
    <2>2. rec \in CallRecord /\ rec.op = "snapshot"
      BY DEF NewCall, CallRecord, OpKinds
    <2>3. OpAt(rec.op, "session_lock")
      BY <2>2 DEF OpAt
    <2> HIDE DEF rec
    <2> QED
      BY <1>3, <2>1, <2>2, <2>3, InvokeCtl DEF rec
  <1>5. CASE Rollback(c)
    <2>1. PICK s \in Sessions, t \in Calls :
            Invoke(c, [NewCall("rollback", s) EXCEPT !.target = t], "session_lock")
      BY <1>1, <1>2, <1>5 DEF Rollback
    <2> DEFINE rec == [NewCall("rollback", s) EXCEPT !.target = t]
    <2>2. rec \in CallRecord /\ rec.op = "rollback" /\ rec.target \in Calls
      BY DEF NewCall, CallRecord, OpKinds
    <2>3. OpAt(rec.op, "session_lock")
      BY <2>2 DEF OpAt
    <2> HIDE DEF rec
    <2> QED
      BY <1>3, <2>1, <2>2, <2>3, InvokeCtl DEF rec
  <1>6. CASE WriteProvenance(c)
    <2>1. PICK u \in Units, tr \in Traces :
            Invoke(c, [NewCall("provenance", c) EXCEPT !.unit = u, !.trace = tr],
                   "check")
      BY <1>6 DEF WriteProvenance
    <2> DEFINE rec == [NewCall("provenance", c) EXCEPT !.unit = u, !.trace = tr]
    <2>2. rec \in CallRecord /\ rec.op = "provenance" /\ rec.unit \in Units
      BY <1>1 DEF NewCall, CallRecord, OpKinds
    <2>3. OpAt(rec.op, "check")
      BY <2>2 DEF OpAt
    <2> HIDE DEF rec
    <2> QED
      BY <1>3, <2>1, <2>2, <2>3, InvokeCtl DEF rec
  <1>7. CASE CreateSession(c)
    <2> DEFINE rec == NewCall("create", c)
    <2>1. rec \in CallRecord /\ rec.op = "create"
      BY <1>1 DEF NewCall, CallRecord, OpKinds
    <2>2. Invoke(c, rec, "insert") /\ OpAt(rec.op, "insert")
      BY <1>7, <2>1 DEF CreateSession, OpAt
    <2> HIDE DEF rec
    <2> QED
      BY <1>3, <2>1, <2>2, InvokeCtl
  <1> QED
    BY <1>4, <1>5, <1>6, <1>7 DEF Request

(***************************************************************************)
(* A statement of the transaction block goes on to another of the block or *)
(* raises; either way both locks stay where they are.                      *)
(***************************************************************************)
LEMMA BlockCtl ==
  ASSUME CtlInv, NEW c \in Calls, pc[c] \in InBlock,
         NEW next \in InBlock, OpAt(call[c].op, next),
         Goto(c, next) \/ \E why \in Results : Raise(c, why)
  PROVE  OpOK' /\ LockOK'
  <1>1. pc[c] \in SessionHeld
    BY DEF SessionHeld
  <1> QED
    BY <1>1, GotoCtl, RaiseCtl

LEMMA StepCtl ==
  ASSUME CtlInv, NEW c \in Calls, Step(c)
  PROVE  OpOK' /\ LockOK'
  <1> USE DEF SessionHeld, InBlock, Body
  <1>1. /\ call[c] \in CallRecord
        /\ call[c].op \in OpKinds
        /\ OpAt(call[c].op, pc[c])
        /\ "error" \in Results
    BY DEF CtlInv, TypeOK, CallRecord, OpOK, Results
  <1>2. CASE LockSession(c)
    <2>1. OpAt(call[c].op, "read_head")
      BY <1>1, <1>2 DEF LockSession, OpAt
    <2>2. OpOK'
      BY <1>2, <2>1 DEF LockSession, CtlInv, TypeOK, OpOK
    <2>3. ASSUME NEW d \in Calls
          PROVE  /\ pc'[d] \in InBlock <=> txnLock' = d
                 /\ pc'[d] \in SessionHeld /\ call'[d].op \in {"snapshot", "rollback"} =>
                      sessLock'[call'[d].session] = d
      <3>1. call[d].session \in Sessions
        BY DEF CtlInv, TypeOK, CallRecord
      <3>2. CASE d = c
        BY <1>2, <3>1, <3>2 DEF LockSession, CtlInv, TypeOK, LockOK
      <3>3. CASE d # c
        BY <1>2, <3>1, <3>3, DatabaseAssumption
        DEF LockSession, CtlInv, TypeOK, LockOK
      <3> QED
        BY <3>2, <3>3
    <2> QED
      BY <2>2, <2>3 DEF LockOK
  <1>3. CASE ReadHead(c)
    <2>1. CASE Finish(c, "error")
      BY <2>1, FinishCtl
    <2>2. CASE ~Finish(c, "error")
      <3> DEFINE next == IF call[c].op = "rollback" THEN "read_target" ELSE "check"
      <3>1. /\ pc[c] = "read_head"
            /\ pc' = [pc EXCEPT ![c] = next]
            /\ call' = [call EXCEPT ![c].parent = work.heads[call[c].session]]
            /\ UNCHANGED <<txnLock, sessLock, result>>
        BY <1>3, <2>2 DEF ReadHead
      <3>2. OpAt(call[c].op, next)
        BY <1>1, <3>1 DEF OpAt
      <3>3. \A d \in Calls : /\ call'[d].op = call[d].op
                             /\ call'[d].session = call[d].session
                             /\ call'[d].unit = call[d].unit
                             /\ call'[d].target = call[d].target
        BY <3>1 DEF CtlInv, TypeOK, CallRecord
      <3> QED
        BY <3>1, <3>2, <3>3 DEF CtlInv, TypeOK, OpOK, LockOK
    <2> QED
      BY <2>1, <2>2
  <1>4. CASE ReadTarget(c)
    <2>1. OpAt(call[c].op, "check")
      BY <1>1, <1>4 DEF ReadTarget, OpAt
    <2> QED
      BY <1>4, <2>1, GotoCtl, FinishCtl DEF ReadTarget
  <1>5. CASE Check(c)
    <2>1. OpAt(call[c].op, "txn_lock")
      BY <1>1, <1>5 DEF Check, OpAt
    <2> QED
      BY <1>5, <2>1, GotoCtl, FinishCtl DEF Check
  <1>6. CASE LockTxn(c)
    <2>1. OpAt(call[c].op, "begin")
      BY <1>1, <1>6 DEF LockTxn, OpAt
    <2> QED
      BY <1>6, <2>1, DatabaseAssumption DEF LockTxn, CtlInv, TypeOK, OpOK, LockOK
  <1>7. CASE Begin(c)
    <2>1. /\ FirstStatement(c) \in InBlock
          /\ OpAt(call[c].op, FirstStatement(c))
      BY <1>1, <1>7 DEF Begin, FirstStatement, OpAt, OpKinds
    <2> QED
      BY <1>7, <2>1, BlockCtl, FinishCtl DEF Begin
  <1>8. CASE WriteUnits(c)
    <2>1. OpAt(call[c].op, "snap")
      BY <1>1, <1>8 DEF WriteUnits, OpAt
    <2> QED
      BY <1>1, <1>8, <2>1, BlockCtl DEF WriteUnits, ExecuteMany
  <1>9. CASE WriteSnapshot(c)
    <2> DEFINE next == IF call[c].op = "rollback" THEN "copy"
                       ELSE IF call[c].units = <<>> THEN "head" ELSE "links"
    <2>1. OpAt(call[c].op, next) /\ next \in InBlock
      BY <1>1, <1>9 DEF WriteSnapshot, OpAt
    <2> QED
      BY <1>1, <1>9, <2>1, BlockCtl DEF WriteSnapshot, ExecuteOne
  <1>10. CASE WriteLinks(c)
    <2>1. OpAt(call[c].op, "head")
      BY <1>1, <1>10 DEF WriteLinks, OpAt
    <2> QED
      BY <1>1, <1>10, <2>1, BlockCtl DEF WriteLinks, ExecuteMany
  <1>11. CASE WriteCopy(c)
    <2>1. OpAt(call[c].op, "head")
      BY <1>1, <1>11 DEF WriteCopy, OpAt
    <2> QED
      BY <1>1, <1>11, <2>1, BlockCtl DEF WriteCopy, ExecuteOne
  <1>12. CASE WriteHead(c)
    <2>1. OpAt(call[c].op, "commit")
      BY <1>1, <1>12 DEF WriteHead, OpAt
    <2> QED
      BY <1>1, <1>12, <2>1, BlockCtl DEF WriteHead, ExecuteOne
  <1>13. CASE WriteProv(c)
    <2> DEFINE next == IF call[c].trace = <<>> THEN "commit" ELSE "hops"
    <2>1. OpAt(call[c].op, next) /\ next \in InBlock
      BY <1>1, <1>13 DEF WriteProv, OpAt
    <2> QED
      BY <1>1, <1>13, <2>1, BlockCtl DEF WriteProv, ExecuteOne
  <1>14. CASE WriteHops(c)
    <2>1. OpAt(call[c].op, "commit")
      BY <1>1, <1>14 DEF WriteHops, OpAt
    <2> QED
      BY <1>1, <1>14, <2>1, BlockCtl DEF WriteHops, ExecuteMany
  <1>15. CASE Commit(c)
    BY <1>15, CommitStepCtl DEF Commit
  <1>16. CASE Undo(c)
    BY <1>16, FinishCtl DEF Undo
  <1>17. CASE InsertSessionRow(c)
    <2>1. OpAt(call[c].op, "create_commit")
      BY <1>1, <1>17 DEF InsertSessionRow, OpAt
    <2> QED
      BY <1>17, <2>1, GotoCtl, FinishCtl DEF InsertSessionRow
  <1>18. CASE CommitSession(c)
    BY <1>18, CommitStepCtl DEF CommitSession
  <1> QED
    BY <1>2, <1>3, <1>4, <1>5, <1>6, <1>7, <1>8, <1>9, <1>10, <1>11, <1>12,
       <1>13, <1>14, <1>15, <1>16, <1>17, <1>18 DEF Step

LEMMA CancelCtl ==
  ASSUME CtlInv, NEW c \in Calls, Cancel(c)
  PROVE  OpOK' /\ LockOK'
  <1>1. CASE CancelBody(c)
    BY <1>1, RaiseCtl DEF CancelBody, InBlock
  <1> QED
    BY <1>1, FinishCtl
    DEF Cancel, CancelWaiting, CancelBegin, CancelEnd, CancelCreate

LEMMA CrashCtl == CtlInv /\ Crash => OpOK' /\ LockOK'
  <1> SUFFICES ASSUME CtlInv, Crash PROVE OpOK' /\ LockOK'
    OBVIOUS
  <1>1. \A c \in Calls : pc'[c] \in {"idle", "done"}
    BY DEF Crash, InProgress
  <1>2. \A c \in Calls : pc'[c] \notin InBlock /\ pc'[c] \notin SessionHeld
    BY <1>1 DEF InBlock, Body, SessionHeld
  <1>3. \A c \in Calls : OpAt(call[c].op, pc'[c])
    BY <1>1 DEF OpAt
  <1> QED
    BY <1>2, <1>3, DatabaseAssumption DEF Crash, CtlInv, OpOK, LockOK

LEMMA CtlInit == Init => CtlInv
  <1> SUFFICES ASSUME Init PROVE CtlInv
    OBVIOUS
  <1>1. OpOK
    BY DEF Init, OpOK, OpAt, NewCall
  <1>2. LockOK
    BY DatabaseAssumption DEF Init, LockOK, InBlock, Body, SessionHeld
  <1> QED
    BY <1>1, <1>2, TypeInit DEF CtlInv

LEMMA CtlNext == CtlInv /\ [Next]_vars => CtlInv'
  <1> SUFFICES ASSUME CtlInv, [Next]_vars PROVE CtlInv'
    OBVIOUS
  <1>1. ASSUME NEW c \in Calls, Request(c) PROVE CtlInv'
    BY <1>1, RequestTyped, RequestCtl DEF CtlInv
  <1>2. ASSUME NEW c \in Calls, Step(c) PROVE CtlInv'
    BY <1>2, StepTyped, StepCtl DEF CtlInv
  <1>3. ASSUME NEW c \in Calls, Cancel(c) PROVE CtlInv'
    BY <1>3, CancelTyped, CancelCtl DEF CtlInv
  <1>4. CASE Crash
    BY <1>4, CrashTyped, CrashCtl DEF CtlInv
  <1>5. CASE UNCHANGED vars
    BY <1>5 DEF vars, CtlInv, TypeOK, OpOK, LockOK
  <1> QED
    BY <1>1, <1>2, <1>3, <1>4, <1>5 DEF Next, Terminating

(***************************************************************************)
(* The state keeps its declared shape: in particular a statement never     *)
(* stores an id no call generated and a lock never names two holders.      *)
(***************************************************************************)
THEOREM TypeCorrect == Spec => []TypeOK
  <1>1. CtlInv => TypeOK
    BY DEF CtlInv
  <1> QED
    BY <1>1, CtlInit, CtlNext, PTL DEF Spec

(***************************************************************************)
(* At most one call is inside a transaction block, and at most one call is *)
(* past the session lock of a session (the asyncio locks of client.py:184, *)
(* 264 and sqlite.py:165), whatever is cancelled or fails.                 *)
(***************************************************************************)
MutualExclusion ==
  \A c, d \in Calls : c # d =>
    /\ ~(pc[c] \in InBlock /\ pc[d] \in InBlock)
    /\ /\ pc[c] \in SessionHeld /\ call[c].op \in {"snapshot", "rollback"}
       /\ pc[d] \in SessionHeld /\ call[d].op \in {"snapshot", "rollback"}
       => call[c].session # call[d].session

THEOREM Exclusion == Spec => []MutualExclusion
  <1>1. CtlInv => MutualExclusion
    BY DEF CtlInv, LockOK, MutualExclusion
  <1> QED
    BY <1>1, CtlInit, CtlNext, PTL DEF Spec

-----------------------------------------------------------------------------
(***************************************************************************)
(* Referential integrity of the tables, for every set of calls, sessions   *)
(* and units and under every fault: parents always, heads unless a failed  *)
(* COMMIT of create_session may discard another call's rows.               *)
(***************************************************************************)

(* The rows of db belong to calls that were made, and so do its heads.     *)
Owned(db, p, k) ==
  /\ \A r \in db.snaps : p[r.id] # "idle" /\ k[r.id].session = r.session
  /\ \A s \in Sessions : db.heads[s] \in Calls =>
       p[db.heads[s]] # "idle" /\ k[db.heads[s]].session = s

Sound(db, p, k) == ParentsResolve(db) /\ Owned(db, p, k)

(* The parent a call has read is a snapshot of its own session.            *)
ParentOwned ==
  \A c \in Calls : call[c].parent # None =>
    /\ pc[c] # "idle"
    /\ pc[call[c].parent] # "idle"
    /\ call[call[c].parent].session = call[c].session

(* Only create_session commits without the transaction lock; a COMMIT of   *)
(* its own that fails and rolls back discards what another call has done.  *)
NoDiscard == ~("create" \in Ops /\ "discard" \in Faults)

(* Between its INSERT and its UPDATE of the head a call's row is in place. *)
InPlace ==
  \A c \in Calls : pc[c] \in {"links", "copy", "head"} =>
    SnapshotIn(work, c, call[c].session)

HeadPart == HeadsResolve(disk) /\ HeadsResolve(work) /\ InPlace

TablePart ==
  /\ Sound(disk, pc, call)
  /\ Sound(work, pc, call)
  /\ ParentOwned
  /\ NoDiscard => HeadPart

IntInv == CtlInv /\ TablePart

(* What every step does to calls that have been made.                      *)
Frame ==
  \A c \in Calls : pc[c] # "idle" =>
    /\ pc'[c] # "idle"
    /\ call'[c].session = call[c].session

-----------------------------------------------------------------------------
LEMMA SoundFrame ==
  ASSUME CtlInv, Frame, NEW db \in DB, Sound(db, pc, call)
  PROVE  Sound(db, pc', call')
  BY DEF Sound, Owned, Frame, DB, SnapshotRow

LEMMA SoundSameShape ==
  ASSUME NEW db, NEW db2, NEW p, NEW k, Sound(db, p, k),
         db2.heads = db.heads, db2.snaps = db.snaps
  PROVE  Sound(db2, p, k)
  BY DEF Sound, Owned, ParentsResolve, HasSession, SnapshotIn

LEMMA SoundInsertSession ==
  ASSUME NEW db \in DB, NEW c \in Calls, NEW p, NEW k, Sound(db, p, k)
  PROVE  Sound(InsertSession(db, c), p, k)
  <1> DEFINE db2 == InsertSession(db, c)
  <1>1. db2.snaps = db.snaps /\ db2.heads = [db.heads EXCEPT ![c] = None]
    BY DEF InsertSession, DB
  <1>2. \A s \in Sessions : HasSession(db, s) => HasSession(db2, s)
    BY <1>1, DatabaseAssumption DEF HasSession, DB
  <1>3. ParentsResolve(db2)
    BY <1>1, <1>2 DEF Sound, ParentsResolve, SnapshotIn, DB, SnapshotRow
  <1>4. Owned(db2, p, k)
    BY <1>1, DatabaseAssumption DEF Sound, Owned, DB
  <1> QED
    BY <1>3, <1>4 DEF Sound

LEMMA SoundInsertSnapshot ==
  ASSUME NEW db \in DB, NEW c \in Calls, NEW p, NEW k, Sound(db, p, k),
         NEW s \in Sessions, NEW q \in Calls \cup {None},
         GoodSnapshot(db, s, q),
         p[c] # "idle", k[c].session = s,
         q # None => k[q].session = s
  PROVE  /\ Sound(InsertSnapshot(db, c, s, q), p, k)
         /\ SnapshotIn(InsertSnapshot(db, c, s, q), c, s)
  <1> DEFINE db2 == InsertSnapshot(db, c, s, q)
             row == [id |-> c, session |-> s, parent |-> q]
  <1>1. db2.heads = db.heads /\ db2.snaps = db.snaps \cup {row}
    BY DEF InsertSnapshot, DB
  <1>2. q # None => SnapshotIn(db2, q, s)
    BY <1>1 DEF GoodSnapshot, HasSnapshot, SnapshotIn, Sound, Owned
  <1>3. ParentsResolve(db2)
    <2> SUFFICES ASSUME NEW r \in db2.snaps
                 PROVE  /\ HasSession(db2, r.session)
                        /\ r.parent # None => SnapshotIn(db2, r.parent, r.session)
      BY DEF ParentsResolve
    <2>1. CASE r = row
      BY <1>1, <1>2, <2>1 DEF GoodSnapshot, HasSession
    <2>2. CASE r \in db.snaps
      BY <1>1, <2>2 DEF Sound, ParentsResolve, HasSession, SnapshotIn
    <2> QED
      BY <1>1, <2>1, <2>2
  <1>4. Owned(db2, p, k)
    BY <1>1 DEF Sound, Owned
  <1>5. SnapshotIn(db2, c, s)
    <2>1. row \in db2.snaps /\ row.id = c /\ row.session = s
      BY <1>1
    <2> QED
      BY <2>1 DEF SnapshotIn
  <1> QED
    BY <1>3, <1>4, <1>5 DEF Sound

LEMMA SoundSetHead ==
  ASSUME NEW db \in DB, NEW c \in Calls, NEW p, NEW k, Sound(db, p, k),
         NEW s \in Sessions, p[c] # "idle", k[c].session = s
  PROVE  Sound(SetHead(db, s, c), p, k)
  <1> DEFINE db2 == SetHead(db, s, c)
  <1>1. /\ db2.snaps = db.snaps
        /\ db2.heads = [db.heads EXCEPT
                          ![s] = IF db.heads[s] = Absent THEN Absent ELSE c]
    BY DEF SetHead, DB
  <1>2. \A t \in Sessions : HasSession(db, t) => HasSession(db2, t)
    BY <1>1, DatabaseAssumption DEF HasSession, DB
  <1>3. ParentsResolve(db2)
    BY <1>1, <1>2 DEF Sound, ParentsResolve, SnapshotIn, DB, SnapshotRow
  <1>4. Owned(db2, p, k)
    BY <1>1, DatabaseAssumption DEF Sound, Owned, DB
  <1> QED
    BY <1>3, <1>4 DEF Sound

(* Heads stay resolved when rows are only added and no head is set.        *)
LEMMA HeadsGrow ==
  ASSUME NEW db \in DB, NEW db2 \in DB, HeadsResolve(db),
         db.snaps \subseteq db2.snaps,
         \A s \in Sessions : db2.heads[s] \in Calls => db2.heads[s] = db.heads[s]
  PROVE  HeadsResolve(db2)
  BY DEF HeadsResolve, SnapshotIn

LEMMA HeadsSet ==
  ASSUME NEW db \in DB, NEW c \in Calls, NEW s \in Sessions,
         HeadsResolve(db), SnapshotIn(db, c, s)
  PROVE  HeadsResolve(SetHead(db, s, c))
  BY DatabaseAssumption DEF HeadsResolve, SnapshotIn, SetHead, DB

-----------------------------------------------------------------------------
LEMMA StepFrame ==
  ASSUME CtlInv, NEW c \in Calls, Step(c)
  PROVE  Frame
  <1>1. ASSUME NEW next, next # "idle", Goto(c, next) PROVE Frame
    BY <1>1 DEF Goto, Frame, CtlInv, TypeOK
  <1>2. ASSUME NEW why, Raise(c, why) PROVE Frame
    BY <1>2 DEF Raise, Frame, CtlInv, TypeOK
  <1>3. ASSUME NEW r, Finish(c, r) PROVE Frame
    BY <1>3 DEF Finish, Frame, CtlInv, TypeOK
  <1>4. CASE LockSession(c) \/ LockTxn(c)
    BY <1>4 DEF LockSession, LockTxn, Frame, CtlInv, TypeOK
  <1>5. CASE ReadHead(c)
    BY <1>3, <1>5 DEF ReadHead, Frame, CtlInv, TypeOK, CallRecord
  <1>6. CASE Begin(c)
    <2>1. FirstStatement(c) # "idle"
      <3>1. call[c].op \in {"snapshot", "rollback", "provenance"}
        BY <1>6 DEF Begin, CtlInv, OpOK, OpAt, TypeOK, CallRecord, OpKinds
      <3> QED
        BY <3>1 DEF FirstStatement
    <2> QED
      BY <1>1, <1>3, <1>6, <2>1 DEF Begin
  <1>7. CASE ReadTarget(c) \/ Check(c) \/ InsertSessionRow(c)
    BY <1>1, <1>3, <1>7 DEF ReadTarget, Check, InsertSessionRow
  <1>8. CASE WriteUnits(c) \/ WriteLinks(c) \/ WriteHops(c)
    BY <1>1, <1>2, <1>8 DEF WriteUnits, WriteLinks, WriteHops, ExecuteMany
  <1>9. CASE WriteSnapshot(c) \/ WriteCopy(c) \/ WriteHead(c) \/ WriteProv(c)
    BY <1>1, <1>2, <1>9
    DEF WriteSnapshot, WriteCopy, WriteHead, WriteProv, ExecuteOne
  <1>10. CASE Commit(c) \/ Undo(c) \/ CommitSession(c)
    BY <1>3, <1>10 DEF Commit, Undo, CommitSession, CommitStep
  <1> QED
    BY <1>4, <1>5, <1>6, <1>7, <1>8, <1>9, <1>10 DEF Step

LEMMA OtherFrame ==
  ASSUME CtlInv, NEW c \in Calls, Request(c) \/ Cancel(c) \/ Crash
  PROVE  Frame
  <1>1. CASE Request(c)
    BY <1>1 DEF Request, Snapshot, Rollback, WriteProvenance, CreateSession,
                Invoke, Frame, CtlInv, TypeOK
  <1>2. CASE Cancel(c)
    BY <1>2 DEF Cancel, CancelWaiting, CancelBegin, CancelBody, CancelEnd,
                CancelCreate, Finish, Raise, Frame, CtlInv, TypeOK
  <1>3. CASE Crash
    BY <1>3 DEF Crash, InProgress, Frame
  <1> QED
    BY <1>1, <1>2, <1>3

(***************************************************************************)
(* How a step may change the two images of the database.                   *)
(***************************************************************************)

(* The connection's image becomes db, and perhaps the committed one.       *)
Becomes(db) == work' = db /\ disk' \in {disk, db}

LEMMA ExecuteBecomes ==
  ASSUME NEW db, Execute(db)
  PROVE  Becomes(db)
  BY DEF Execute, Becomes

LEMMA SoundBecomes ==
  ASSUME IntInv, Frame, NEW db, Becomes(db), Sound(db, pc', call')
  PROVE  Sound(disk, pc, call)' /\ Sound(work, pc, call)'
  <1>1. Sound(disk, pc', call')
    BY SoundFrame DEF IntInv, TablePart, HeadPart, CtlInv, TypeOK
  <1>2. Sound(disk', pc', call') /\ Sound(work', pc', call')
    BY <1>1 DEF Becomes
  <1> QED
    BY <1>2 DEF Sound, Owned, ParentsResolve, HasSession, SnapshotIn

(* No row lost, no head set: everything about heads is kept, provided the  *)
(* stepping call's own row is in place when it goes on to need it.         *)
Keeps(db) ==
  /\ db \in DB
  /\ work.snaps \subseteq db.snaps
  /\ \A s \in Sessions : db.heads[s] \in Calls => db.heads[s] = work.heads[s]

LEMMA HeadsKept ==
  ASSUME IntInv, Frame, NEW c \in Calls, NEW db, Becomes(db), Keeps(db),
         \A d \in Calls : d # c => pc'[d] = pc[d],
         pc'[c] \in {"links", "copy", "head"} => SnapshotIn(db, c, call'[c].session),
         pc[c] # "idle",
         NoDiscard
  PROVE  HeadPart'
  <1>1. HeadsResolve(db)
    BY HeadsGrow DEF IntInv, TablePart, HeadPart, CtlInv, TypeOK, Keeps
  <1>2. HeadsResolve(disk') /\ HeadsResolve(work')
    BY <1>1 DEF IntInv, TablePart, HeadPart, Becomes
  <1>3. ASSUME NEW d \in Calls, pc'[d] \in {"links", "copy", "head"}
        PROVE  SnapshotIn(work', d, call'[d].session)
    <2>1. CASE d = c
      BY <1>3, <2>1 DEF Becomes
    <2>2. CASE d # c
      BY <1>3, <2>2 DEF IntInv, TablePart, HeadPart, InPlace, SnapshotIn, Becomes, Keeps, Frame
    <2> QED
      BY <2>1, <2>2
  <1>4. InPlace'
    BY <1>3 DEF InPlace, SnapshotIn
  <1> QED
    BY <1>2, <1>4 DEF HeadPart, HeadsResolve, SnapshotIn

LEMMA ParentFrame ==
  ASSUME CtlInv, ParentOwned, Frame,
         \A d \in Calls : pc[d] # "idle" => call'[d].parent = call[d].parent,
         \A d \in Calls : pc[d] = "idle" => call'[d].parent = None
  PROVE  ParentOwned'
  BY DEF CtlInv, TypeOK, CallRecord, ParentOwned, Frame

(***************************************************************************)
(* Statements other than the UPDATE of the head.                           *)
(***************************************************************************)
LEMMA StatementPart ==
  ASSUME IntInv, Frame, NEW c \in Calls, NEW db, Becomes(db), Keeps(db),
         Sound(db, pc', call'),
         pc[c] # "idle",
         \A d \in Calls : d # c => pc'[d] = pc[d],
         UNCHANGED call,
         NoDiscard /\ pc'[c] \in {"links", "copy", "head"} =>
           SnapshotIn(db, c, call[c].session)
  PROVE  TablePart'
  <1>1. ParentOwned'
    BY ParentFrame DEF IntInv, TablePart, ParentOwned
  <1>2. NoDiscard => HeadPart'
    BY HeadsKept
  <1>3. NoDiscard' <=> NoDiscard
    BY DEF NoDiscard
  <1> QED
    BY <1>1, <1>2, <1>3, SoundBecomes DEF TablePart

(* The statements that leave sessions and snapshots alone.                 *)
SameShape(db) == db \in DB /\ db.heads = work.heads /\ db.snaps = work.snaps

LEMMA SameShapePart ==
  ASSUME IntInv, Frame, NEW c \in Calls, NEW db, Becomes(db), SameShape(db),
         pc[c] # "idle",
         \A d \in Calls : d # c => pc'[d] = pc[d],
         UNCHANGED call,
         NoDiscard /\ pc'[c] \in {"links", "copy", "head"} =>
           SnapshotIn(work, c, call[c].session)
  PROVE  TablePart'
  <1>1. Sound(work, pc', call')
    BY SoundFrame DEF IntInv, TablePart, CtlInv, TypeOK
  <1>2. Sound(db, pc', call')
    BY <1>1, SoundSameShape DEF SameShape
  <1>3. Keeps(db)
    BY DEF Keeps, SameShape
  <1>4. NoDiscard /\ pc'[c] \in {"links", "copy", "head"} =>
          SnapshotIn(db, c, call[c].session)
    BY DEF SameShape, SnapshotIn
  <1> QED
    BY <1>2, <1>3, <1>4, StatementPart

LEMMA SameShapes ==
  ASSUME CtlInv, NEW c \in Calls
  PROVE  /\ SameShape(work)
         /\ \A us : SameShape(KeepUnits(work, c, us))
         /\ \A us \in SUBSET Units : SameShape(KeepLinks(work, c, us))
         /\ \A u \in Units : SameShape(InsertProvenance(work, c, u))
         /\ \A hs \in SUBSET Nat : SameShape(KeepHops(work, c, hs))
  <1>1. work \in DB
    BY DEF CtlInv, TypeOK
  <1>2. \A us : SameShape(KeepUnits(work, c, us))
    BY <1>1, KeepUnitsTyped DEF SameShape, KeepUnits, DB
  <1>3. \A us \in SUBSET Units : SameShape(KeepLinks(work, c, us))
    BY <1>1, KeepLinksTyped DEF SameShape, KeepLinks, DB
  <1>4. \A u \in Units : SameShape(InsertProvenance(work, c, u))
    <2> TAKE u \in Units
    <2>1. InsertProvenance(work, c, u) \in DB
      BY <1>1, InsertProvenanceTyped
    <2> QED
      BY <1>1, <2>1 DEF SameShape, InsertProvenance, DB
  <1>5. \A hs \in SUBSET Nat : SameShape(KeepHops(work, c, hs))
    BY <1>1, KeepHopsTyped DEF SameShape, KeepHops, DB
  <1>6. SameShape(work)
    BY <1>1 DEF SameShape
  <1> QED
    BY <1>2, <1>3, <1>4, <1>5, <1>6

(* Goto, Raise and Finish move the stepping call only.                     *)
LEMMA Moves ==
  ASSUME CtlInv, NEW c \in Calls
  PROVE  /\ \A next : Goto(c, next) =>
              /\ pc'[c] = next /\ UNCHANGED call
              /\ \A d \in Calls : d # c => pc'[d] = pc[d]
         /\ \A why : Raise(c, why) =>
              /\ pc'[c] = "undo" /\ UNCHANGED call
              /\ \A d \in Calls : d # c => pc'[d] = pc[d]
         /\ \A r : Finish(c, r) =>
              /\ pc'[c] = "done" /\ UNCHANGED call
              /\ \A d \in Calls : d # c => pc'[d] = pc[d]
  BY DEF CtlInv, TypeOK, Goto, Raise, Finish

LEMMA UnitsPart ==
  ASSUME IntInv, NEW c \in Calls, WriteUnits(c)
  PROVE  TablePart'
  <1>1. PICK us : Execute(KeepUnits(work, c, us)) /\ (Goto(c, "snap") \/ Raise(c, "error"))
    BY DEF WriteUnits, ExecuteMany
  <1>2. Becomes(KeepUnits(work, c, us)) /\ SameShape(KeepUnits(work, c, us))
    BY <1>1, ExecuteBecomes, SameShapes DEF IntInv
  <1>3. Frame
    BY StepFrame DEF IntInv, Step
  <1> QED
    BY <1>1, <1>2, <1>3, Moves, SameShapePart DEF WriteUnits, IntInv

LEMMA LinksPart ==
  ASSUME IntInv, NEW c \in Calls, WriteLinks(c)
  PROVE  TablePart'
  <1>1. call[c].units \in Seq(Units)
    BY ListsTyped DEF IntInv, CtlInv, TypeOK, CallRecord
  <1>2. PICK us \in SUBSET Units : Execute(KeepLinks(work, c, us)) /\
                                   (Goto(c, "head") \/ Raise(c, "error"))
    BY <1>1, RangeTyped, PrefixTyped DEF WriteLinks, ExecuteMany
  <1>3. Becomes(KeepLinks(work, c, us)) /\ SameShape(KeepLinks(work, c, us))
    BY <1>2, ExecuteBecomes, SameShapes DEF IntInv
  <1>4. Frame
    BY StepFrame DEF IntInv, Step
  <1>5. NoDiscard => SnapshotIn(work, c, call[c].session)
    BY DEF WriteLinks, IntInv, TablePart, HeadPart, InPlace
  <1> QED
    BY <1>2, <1>3, <1>4, <1>5, Moves, SameShapePart DEF WriteLinks, IntInv

LEMMA CopyPart ==
  ASSUME IntInv, NEW c \in Calls, WriteCopy(c)
  PROVE  TablePart'
  <1> DEFINE us == Members(work, call[c].target)
  <1>1. us \in SUBSET Units
    BY DEF Members
  <1>2. PICK db \in {KeepLinks(work, c, us), work} :
          Execute(db) /\ (Goto(c, "head") \/ Raise(c, "error"))
    BY DEF WriteCopy, ExecuteOne, CopyLinks
  <1>3. Becomes(db) /\ SameShape(db)
    BY <1>1, <1>2, ExecuteBecomes, SameShapes DEF IntInv
  <1>4. Frame
    BY StepFrame DEF IntInv, Step
  <1>5. NoDiscard => SnapshotIn(work, c, call[c].session)
    BY DEF WriteCopy, IntInv, TablePart, HeadPart, InPlace
  <1> QED
    BY <1>2, <1>3, <1>4, <1>5, Moves, SameShapePart DEF WriteCopy, IntInv

LEMMA ProvenancePart ==
  ASSUME IntInv, NEW c \in Calls, WriteProv(c) \/ WriteHops(c)
  PROVE  TablePart'
  <1>1. call[c].unit \in Units
    BY DEF WriteProv, WriteHops, IntInv, CtlInv, OpOK, OpAt
  <1>2. call[c].trace \in Seq(Nat)
    BY ListsTyped DEF IntInv, CtlInv, TypeOK, CallRecord
  <1>3. PICK db : /\ Execute(db)
                  /\ SameShape(db)
                  /\ Raise(c, "error") \/ Goto(c, "commit") \/ Goto(c, "hops")
    <2>1. CASE WriteProv(c)
      BY <1>1, <2>1, SameShapes DEF WriteProv, ExecuteOne, IntInv
    <2>2. CASE WriteHops(c)
      BY <1>2, <2>2, SameShapes, RangeTyped, PrefixTyped
      DEF WriteHops, ExecuteMany, IntInv
    <2> QED
      BY <2>1, <2>2
  <1>4. Becomes(db)
    BY <1>3, ExecuteBecomes
  <1>5. Frame
    BY StepFrame DEF IntInv, Step
  <1> QED
    BY <1>3, <1>4, <1>5, Moves, SameShapePart DEF WriteProv, WriteHops, IntInv

LEMMA SnapshotPart ==
  ASSUME IntInv, NEW c \in Calls, WriteSnapshot(c)
  PROVE  TablePart'
  <1> DEFINE s == call[c].session
             q == call[c].parent
             db == InsertSnapshot(work, c, s, q)
  <1>1. Frame
    BY StepFrame DEF IntInv, Step
  <1>2. /\ work \in DB /\ s \in Sessions /\ q \in Calls \cup {None}
        /\ pc[c] = "snap"
    BY DEF IntInv, CtlInv, TypeOK, CallRecord, WriteSnapshot
  <1>3. CASE Raise(c, "error")
    <2>1. Execute(work)
      BY <1>2, <1>3, Moves DEF WriteSnapshot, ExecuteOne, IntInv
    <2>2. Becomes(work) /\ SameShape(work)
      BY <2>1, ExecuteBecomes, SameShapes DEF IntInv
    <2> QED
      BY <1>1, <1>2, <1>3, <2>2, Moves, SameShapePart DEF IntInv
  <1>4. CASE ~Raise(c, "error")
    <2>1. /\ GoodSnapshot(work, s, q)
          /\ Execute(db)
          /\ \E next : Goto(c, next)
      BY <1>4 DEF WriteSnapshot, ExecuteOne
    <2>2. Becomes(db)
      BY <2>1, ExecuteBecomes
    <2>3. /\ pc'[c] # "idle" /\ UNCHANGED call
          /\ \A d \in Calls : d # c => pc'[d] = pc[d]
      BY <1>1, <1>2, <2>1, Moves DEF Frame, IntInv
    <2>4. q # None => call'[q].session = s
      BY <1>2, <2>3 DEF IntInv, TablePart, ParentOwned
    <2>5. Sound(work, pc', call')
      BY <1>1, <1>2, SoundFrame DEF IntInv, TablePart
    <2>6. Sound(db, pc', call') /\ SnapshotIn(db, c, s)
      BY <1>2, <2>1, <2>3, <2>4, <2>5, SoundInsertSnapshot
    <2>7. Keeps(db)
      <3>1. db \in DB
        BY <1>2, InsertSnapshotTyped
      <3> QED
        BY <1>2, <3>1 DEF Keeps, InsertSnapshot, DB
    <2> HIDE DEF db
    <2> QED
      BY <1>1, <1>2, <2>2, <2>3, <2>6, <2>7, StatementPart
  <1> QED
    BY <1>3, <1>4

(* The UPDATE of the head: the row it names is in place.                   *)
LEMMA SetHeadPart ==
  ASSUME IntInv, NEW c \in Calls, WriteHead(c)
  PROVE  TablePart'
  <1> DEFINE s == call[c].session
             db == SetHead(work, s, c)
  <1>1. Frame
    BY StepFrame DEF IntInv, Step
  <1>2. work \in DB /\ s \in Sessions /\ pc[c] = "head"
    BY DEF IntInv, CtlInv, TypeOK, CallRecord, WriteHead
  <1>3. CASE Raise(c, "error")
    <2>1. Execute(work)
      BY <1>2, <1>3, Moves DEF WriteHead, ExecuteOne, IntInv
    <2>2. Becomes(work) /\ SameShape(work)
      BY <2>1, ExecuteBecomes, SameShapes DEF IntInv
    <2> QED
      BY <1>1, <1>2, <1>3, <2>2, Moves, SameShapePart DEF IntInv
  <1>4. CASE ~Raise(c, "error")
    <2>1. Execute(db) /\ Goto(c, "commit")
      BY <1>4 DEF WriteHead, ExecuteOne
    <2>2. Becomes(db)
      BY <2>1, ExecuteBecomes
    <2>3. /\ pc'[c] = "commit" /\ UNCHANGED call
          /\ \A d \in Calls : d # c => pc'[d] = pc[d]
      BY <2>1, Moves DEF IntInv
    <2>4. Sound(work, pc', call')
      BY <1>1, <1>2, SoundFrame DEF IntInv, TablePart
    <2>5. Sound(db, pc', call')
      BY <1>2, <2>3, <2>4, SoundSetHead
    <2>6. ParentOwned'
      BY <1>1, <2>3, ParentFrame DEF IntInv, TablePart, ParentOwned
    <2>7. ASSUME NoDiscard PROVE HeadPart'
      <3>1. HeadsResolve(work) /\ HeadsResolve(disk) /\ SnapshotIn(work, c, s)
        BY <1>2, <2>7 DEF IntInv, TablePart, HeadPart, InPlace
      <3>2. HeadsResolve(db)
        BY <1>2, <3>1, HeadsSet
      <3>3. db.snaps = work.snaps
        BY <1>2 DEF SetHead, DB
      <3>4. HeadsResolve(disk') /\ HeadsResolve(work')
        BY <2>2, <3>1, <3>2 DEF Becomes
      <3>5. \A d \in Calls : pc'[d] \in {"links", "copy", "head"} =>
                             SnapshotIn(work', d, call'[d].session)
        BY <2>2, <2>3, <2>7, <3>3
        DEF Becomes, IntInv, TablePart, HeadPart, InPlace, SnapshotIn
      <3> QED
        BY <3>4, <3>5 DEF HeadPart, HeadsResolve, InPlace, SnapshotIn
    <2>8. NoDiscard' <=> NoDiscard
      BY DEF NoDiscard
    <2> HIDE DEF db
    <2> QED
      BY <1>1, <2>2, <2>5, <2>6, <2>7, <2>8, SoundBecomes DEF TablePart
  <1> QED
    BY <1>3, <1>4

(***************************************************************************)
(* Steps that leave both images alone or store them as they are.           *)
(***************************************************************************)
LEMMA IdlePart ==
  ASSUME IntInv, Frame, NEW c \in Calls, UNCHANGED <<disk, work>>,
         pc'[c] \notin {"links", "copy", "head"} \/ pc'[c] = pc[c],
         \A d \in Calls : d # c => pc'[d] = pc[d],
         ParentOwned'
  PROVE  TablePart'
  <1>1. Sound(disk, pc', call') /\ Sound(work, pc', call')
    BY SoundFrame DEF IntInv, TablePart, CtlInv, TypeOK
  <1>2. Sound(disk, pc, call)' /\ Sound(work, pc, call)'
    BY <1>1 DEF Sound, Owned, ParentsResolve, HasSession, SnapshotIn
  <1>3. ASSUME NoDiscard PROVE HeadPart'
    <2>1. \A d \in Calls : pc'[d] \in {"links", "copy", "head"} =>
                           /\ SnapshotIn(work', d, call'[d].session)
      <3> TAKE d \in Calls
      <3> HAVE pc'[d] \in {"links", "copy", "head"}
      <3>1. pc[d] = pc'[d]
        OBVIOUS
      <3>2. SnapshotIn(work, d, call[d].session) /\ call'[d].session = call[d].session
        BY <1>3, <3>1 DEF IntInv, TablePart, HeadPart, InPlace, Frame
      <3> QED
        BY <3>2 DEF SnapshotIn
    <2>2. HeadsResolve(disk') /\ HeadsResolve(work')
      BY <1>3 DEF IntInv, TablePart, HeadPart, HeadsResolve, SnapshotIn
    <2> QED
      BY <2>1, <2>2 DEF HeadPart, HeadsResolve, InPlace, SnapshotIn
  <1>4. NoDiscard' <=> NoDiscard
    BY DEF NoDiscard
  <1> QED
    BY <1>2, <1>3, <1>4 DEF TablePart

LEMMA CommitPart ==
  ASSUME IntInv, Frame, NEW c \in Calls, CommitWork, UNCHANGED call,
         pc'[c] = "done",
         \A d \in Calls : d # c => pc'[d] = pc[d]
  PROVE  TablePart'
  <1>1. Sound(work, pc', call')
    BY SoundFrame DEF IntInv, TablePart, CtlInv, TypeOK
  <1>2. Sound(disk, pc, call)' /\ Sound(work, pc, call)'
    BY <1>1 DEF CommitWork, Sound, Owned, ParentsResolve, HasSession, SnapshotIn
  <1>3. ParentOwned'
    BY ParentFrame DEF IntInv, TablePart, ParentOwned
  <1>4. NoDiscard => HeadPart'
    BY DEF CommitWork, IntInv, TablePart, HeadPart, HeadsResolve, InPlace, SnapshotIn
  <1>5. NoDiscard' <=> NoDiscard
    BY DEF NoDiscard
  <1> QED
    BY <1>2, <1>3, <1>4, <1>5 DEF TablePart

(* A ROLLBACK while no call depends on a row of its own.                   *)
LEMMA RollbackPart ==
  ASSUME IntInv, Frame, RollbackWork, UNCHANGED call,
         NoDiscard => \A d \in Calls : pc'[d] \notin {"links", "copy", "head"}
  PROVE  TablePart'
  <1>1. Sound(disk, pc', call')
    BY SoundFrame DEF IntInv, TablePart, CtlInv, TypeOK
  <1>2. Sound(disk, pc, call)' /\ Sound(work, pc, call)'
    BY <1>1 DEF RollbackWork, Sound, Owned, ParentsResolve, HasSession, SnapshotIn
  <1>3. ParentOwned'
    BY ParentFrame DEF IntInv, TablePart, ParentOwned
  <1>4. NoDiscard => HeadPart'
    BY DEF RollbackWork, IntInv, TablePart, HeadPart, HeadsResolve, InPlace, SnapshotIn
  <1>5. NoDiscard' <=> NoDiscard
    BY DEF NoDiscard
  <1> QED
    BY <1>2, <1>3, <1>4, <1>5 DEF TablePart

(* The call that leaves the transaction block was the only one inside.     *)
LEMMA LeavingAlone ==
  ASSUME CtlInv, NEW c \in Calls, pc[c] \in InBlock, pc'[c] = "done",
         \A d \in Calls : d # c => pc'[d] = pc[d]
  PROVE  \A d \in Calls : pc'[d] \notin {"links", "copy", "head"}
  BY DEF CtlInv, LockOK, InBlock, Body

LEMMA CommitStepPart ==
  ASSUME IntInv, Frame, NEW c \in Calls, CommitStep(c),
         pc[c] = "commit" \/ pc[c] = "create_commit"
  PROVE  TablePart'
  <1>1. /\ pc'[c] = "done" /\ UNCHANGED call
        /\ \A d \in Calls : d # c => pc'[d] = pc[d]
    BY Moves DEF CommitStep, IntInv
  <1>2. ParentOwned'
    BY <1>1, ParentFrame DEF IntInv, TablePart, ParentOwned
  <1>3. CASE CommitWork
    BY <1>1, <1>3, CommitPart
  <1>4. CASE UNCHANGED dbVars
    BY <1>1, <1>2, <1>4, IdlePart DEF dbVars
  <1>5. CASE "discard" \in Faults /\ RollbackWork
    <2>1. NoDiscard => pc[c] = "commit"
      BY <1>5 DEF NoDiscard, IntInv, CtlInv, OpOK, OpAt
    <2>2. NoDiscard => \A d \in Calls : pc'[d] \notin {"links", "copy", "head"}
      BY <1>1, <2>1, LeavingAlone DEF IntInv, InBlock
    <2> QED
      BY <1>1, <1>5, <2>2, RollbackPart
  <1> QED
    BY <1>3, <1>4, <1>5 DEF CommitStep

(* The head a call reads under its session lock belongs to its session.    *)
LEMMA ReadHeadPart ==
  ASSUME IntInv, NEW c \in Calls, ReadHead(c)
  PROVE  TablePart'
  <1> DEFINE s == call[c].session
             h == work.heads[s]
  <1>1. Frame
    BY StepFrame DEF IntInv, Step
  <1>2. /\ pc[c] = "read_head" /\ UNCHANGED <<disk, work>>
        /\ s \in Sessions /\ h \in Calls \cup {None, Absent}
    BY DEF ReadHead, dbVars, IntInv, CtlInv, TypeOK, CallRecord, DB
  <1>3. CASE Finish(c, "error")
    <2>1. ParentOwned'
      BY <1>1, <1>3, Moves, ParentFrame DEF IntInv, TablePart, ParentOwned
    <2> QED
      BY <1>1, <1>2, <1>3, <2>1, Moves, IdlePart DEF IntInv
  <1>4. CASE ~Finish(c, "error")
    <2>1. /\ h \in Calls \cup {None}
          /\ call' = [call EXCEPT ![c].parent = h]
          /\ pc' = [pc EXCEPT ![c] = IF call[c].op = "rollback"
                                       THEN "read_target" ELSE "check"]
      BY <1>2, <1>4 DEF ReadHead
    <2>2. h # None => pc[h] # "idle" /\ call[h].session = s
      BY <1>2, <2>1 DEF IntInv, TablePart, Sound, Owned
    <2>3. ParentOwned'
      <3> SUFFICES ASSUME NEW d \in Calls, call'[d].parent # None
                   PROVE  /\ pc'[d] # "idle"
                          /\ pc'[call'[d].parent] # "idle"
                          /\ call'[call'[d].parent].session = call'[d].session
        BY DEF ParentOwned
      <3>1. /\ \A e \in Calls : pc[e] # "idle" => pc'[e] # "idle"
            /\ \A e \in Calls : call'[e].session = call[e].session
        BY <1>1, <2>1 DEF Frame, IntInv, CtlInv, TypeOK, CallRecord
      <3>2. CASE d = c
        <4>1. call'[d].parent = h
          BY <2>1, <3>2 DEF IntInv, CtlInv, TypeOK, CallRecord
        <4> QED
          BY <1>2, <2>1, <2>2, <3>1, <3>2, <4>1
      <3>3. CASE d # c
        <4>1. call'[d].parent = call[d].parent /\ call[d].parent \in Calls \cup {None}
          BY <2>1, <3>3 DEF IntInv, CtlInv, TypeOK, CallRecord
        <4> QED
          BY <3>1, <4>1 DEF IntInv, TablePart, ParentOwned
      <3> QED
        BY <3>2, <3>3
    <2>4. /\ pc'[c] \notin {"links", "copy", "head"}
          /\ \A d \in Calls : d # c => pc'[d] = pc[d]
      BY <2>1 DEF IntInv, CtlInv, TypeOK
    <2> QED
      BY <1>1, <1>2, <2>3, <2>4, IdlePart
  <1> QED
    BY <1>3, <1>4

LEMMA InsertSessionPart ==
  ASSUME IntInv, NEW c \in Calls, InsertSessionRow(c)
  PROVE  TablePart'
  <1> DEFINE db == InsertSession(work, c)
  <1>1. Frame
    BY StepFrame DEF IntInv, Step
  <1>2. work \in DB /\ c \in Sessions /\ pc[c] = "insert"
    BY DEF IntInv, CtlInv, TypeOK, InsertSessionRow, Sessions
  <1>3. CASE Finish(c, "error")
    <2>1. Execute(work)
      BY <1>2, <1>3, Moves DEF InsertSessionRow, IntInv
    <2>2. Becomes(work) /\ SameShape(work)
      BY <2>1, ExecuteBecomes, SameShapes DEF IntInv
    <2> QED
      BY <1>1, <1>2, <1>3, <2>2, Moves, SameShapePart DEF IntInv
  <1>4. CASE ~Finish(c, "error")
    <2>1. Execute(db) /\ Goto(c, "create_commit")
      BY <1>4 DEF InsertSessionRow
    <2>2. Becomes(db)
      BY <2>1, ExecuteBecomes
    <2>3. Sound(db, pc', call')
      <3>1. Sound(work, pc', call')
        BY <1>1, <1>2, SoundFrame DEF IntInv, TablePart
      <3> QED
        BY <1>2, <3>1, SoundInsertSession
    <2>4. Keeps(db)
      <3>1. db \in DB
        BY <1>2, InsertSessionTyped
      <3>2. db.snaps = work.snaps /\ db.heads = [work.heads EXCEPT ![c] = None]
        BY <1>2 DEF InsertSession, DB
      <3> QED
        BY <1>2, <3>1, <3>2, DatabaseAssumption DEF Keeps, DB
    <2> HIDE DEF db
    <2> QED
      BY <1>1, <1>2, <2>1, <2>2, <2>3, <2>4, Moves, StatementPart DEF IntInv
  <1> QED
    BY <1>3, <1>4

(* Locking, reading, checking and BEGIN touch neither image.               *)
LEMMA ControlPart ==
  ASSUME IntInv, NEW c \in Calls,
         LockSession(c) \/ ReadTarget(c) \/ Check(c) \/ LockTxn(c) \/ Begin(c)
  PROVE  TablePart'
  <1>1. Frame
    BY StepFrame DEF IntInv, Step
  <1>2. UNCHANGED <<disk, work, call>>
    BY DEF LockSession, ReadTarget, Check, LockTxn, Begin, Goto, Finish, dbVars
  <1>3. \A d \in Calls : d # c => pc'[d] = pc[d]
    BY Moves DEF LockSession, ReadTarget, Check, LockTxn, Begin, IntInv, CtlInv, TypeOK
  <1>4. pc'[c] \notin {"links", "copy", "head"}
    <2>1. CASE Begin(c)
      <3>1. call[c].op \in {"snapshot", "rollback", "provenance"}
        BY <2>1 DEF Begin, IntInv, CtlInv, OpOK, OpAt, TypeOK, CallRecord, OpKinds
      <3> QED
        BY <2>1, <3>1, Moves DEF Begin, FirstStatement, IntInv
    <2>2. CASE ~Begin(c)
      BY <2>2, Moves DEF LockSession, ReadTarget, Check, LockTxn, IntInv, CtlInv, TypeOK
    <2> QED
      BY <2>1, <2>2
  <1>5. ParentOwned'
    BY <1>1, <1>2, ParentFrame DEF IntInv, TablePart, ParentOwned
  <1> QED
    BY <1>1, <1>2, <1>3, <1>4, <1>5, IdlePart

LEMMA StepPart ==
  ASSUME IntInv, NEW c \in Calls, Step(c)
  PROVE  TablePart'
  <1>1. CASE Commit(c) \/ CommitSession(c)
    <2>1. Frame
      BY StepFrame DEF IntInv
    <2> QED
      BY <1>1, <2>1, CommitStepPart DEF Commit, CommitSession
  <1>2. CASE Undo(c)
    <2>1. Frame
      BY StepFrame DEF IntInv
    <2>2. /\ pc'[c] = "done" /\ UNCHANGED call /\ pc[c] \in InBlock
          /\ \A d \in Calls : d # c => pc'[d] = pc[d]
      BY <1>2, Moves DEF Undo, IntInv, InBlock
    <2>3. \A d \in Calls : pc'[d] \notin {"links", "copy", "head"}
      BY <2>2, LeavingAlone DEF IntInv
    <2> QED
      BY <1>2, <2>1, <2>2, <2>3, RollbackPart DEF Undo
  <1> QED
    BY <1>1, <1>2, ReadHeadPart, ControlPart, UnitsPart, SnapshotPart, LinksPart,
       CopyPart, SetHeadPart, ProvenancePart, InsertSessionPart DEF Step

LEMMA CancelPart ==
  ASSUME IntInv, NEW c \in Calls, Cancel(c)
  PROVE  TablePart'
  <1>1. Frame
    BY OtherFrame DEF IntInv
  <1>2. /\ UNCHANGED call
        /\ pc'[c] \in {"done", "undo"}
        /\ \A d \in Calls : d # c => pc'[d] = pc[d]
    BY Moves DEF Cancel, CancelWaiting, CancelBegin, CancelBody, CancelEnd,
                 CancelCreate, IntInv
  <1>3. ParentOwned'
    BY <1>1, <1>2, ParentFrame DEF IntInv, TablePart, ParentOwned
  <1>4. CASE UNCHANGED <<disk, work>>
    BY <1>1, <1>2, <1>3, <1>4, IdlePart
  <1>5. CASE CommitWork /\ Finish(c, "cancelled")
    BY <1>1, <1>2, <1>5, Moves, CommitPart DEF IntInv
  <1>6. CASE pc[c] = "undo" /\ RollbackWork /\ Finish(c, "cancelled")
    <2>1. \A d \in Calls : pc'[d] \notin {"links", "copy", "head"}
      BY <1>2, <1>6, Moves, LeavingAlone DEF IntInv, InBlock
    <2> QED
      BY <1>1, <1>2, <1>6, <2>1, RollbackPart
  <1> QED
    BY <1>4, <1>5, <1>6
    DEF Cancel, CancelWaiting, CancelBegin, CancelBody, CancelEnd, CancelCreate,
        dbVars

LEMMA CrashPart ==
  ASSUME IntInv, Crash
  PROVE  TablePart'
  <1>1. Frame
    BY DEF Crash, InProgress, Frame
  <1>2. \A d \in Calls : pc'[d] \notin {"links", "copy", "head"}
    BY DEF Crash, InProgress
  <1> QED
    BY <1>1, <1>2, RollbackPart DEF Crash

LEMMA RequestPart ==
  ASSUME IntInv, NEW c \in Calls, Request(c)
  PROVE  TablePart'
  <1>1. Frame
    BY OtherFrame DEF IntInv
  <1>2. PICK rec, next : /\ Invoke(c, rec, next)
                         /\ rec.parent = None
                         /\ next \in {"session_lock", "check", "insert"}
    BY DEF Request, Snapshot, Rollback, WriteProvenance, CreateSession, NewCall
  <1>3. /\ UNCHANGED <<disk, work>> /\ pc[c] = "idle"
        /\ pc'[c] = next /\ call'[c].parent = None
        /\ \A d \in Calls : d # c => pc'[d] = pc[d] /\ call'[d] = call[d]
    BY <1>2 DEF Invoke, IntInv, CtlInv, TypeOK
  <1>4. ParentOwned'
    BY <1>1, <1>3, ParentFrame DEF IntInv, TablePart, ParentOwned
  <1> QED
    BY <1>1, <1>2, <1>3, <1>4, IdlePart

LEMMA IntInit == Init => IntInv
  <1> SUFFICES ASSUME Init PROVE IntInv
    OBVIOUS
  <1>1. CtlInv
    BY CtlInit
  <1>2. Sound(disk, pc, call) /\ Sound(work, pc, call)
    BY DatabaseAssumption DEF Init, EmptyDB, Sound, ParentsResolve, Owned
  <1>3. ParentOwned
    BY DEF Init, NewCall, ParentOwned
  <1>4. HeadPart
    BY DatabaseAssumption DEF Init, EmptyDB, HeadPart, HeadsResolve, InPlace
  <1> QED
    BY <1>1, <1>2, <1>3, <1>4 DEF IntInv, TablePart

LEMMA IntNext == IntInv /\ [Next]_vars => IntInv'
  <1> SUFFICES ASSUME IntInv, [Next]_vars PROVE IntInv'
    OBVIOUS
  <1>1. CtlInv'
    BY CtlNext DEF IntInv
  <1>2. CASE UNCHANGED vars
    BY <1>1, <1>2
    DEF vars, IntInv, TablePart, Sound, Owned, ParentsResolve, HasSession, SnapshotIn,
        ParentOwned, NoDiscard, HeadPart, HeadsResolve, InPlace
  <1>3. CASE Next
    <2>1. CASE Crash
      BY <1>1, <2>1, CrashPart DEF IntInv
    <2>2. CASE Terminating
      BY <1>2, <2>2 DEF Terminating
    <2>3. ASSUME NEW c \in Calls, Request(c) \/ Step(c) \/ Cancel(c)
          PROVE  IntInv'
      BY <1>1, <2>3, RequestPart, StepPart, CancelPart DEF IntInv
    <2> QED
      BY <1>3, <2>1, <2>2, <2>3 DEF Next
  <1> QED
    BY <1>2, <1>3

(***************************************************************************)
(* The parent of every stored snapshot, committed or not, is a stored      *)
(* snapshot of the same session, although it was read before the           *)
(* transaction began and whatever fails in between.                        *)
(***************************************************************************)
THEOREM ParentsHold == Spec => []ParentIntegrity
  <1>1. IntInv => ParentIntegrity
    BY DEF IntInv, TablePart, Sound, ParentIntegrity
  <1> QED
    BY <1>1, IntInit, IntNext, PTL DEF Spec

(***************************************************************************)
(* No head ever dangles, although head_snapshot_id has no foreign key, as  *)
(* long as a failing COMMIT of create_session cannot discard the rows of   *)
(* another call (NoDiscard): sessions are created beforehand, or a failed  *)
(* COMMIT leaves its transaction open.                                     *)
(***************************************************************************)
THEOREM HeadsHold == NoDiscard => (Spec => []HeadIntegrity)
  <1> SUFFICES ASSUME NoDiscard PROVE Spec => []HeadIntegrity
    OBVIOUS
  <1>1. IntInv => HeadIntegrity
    BY DEF IntInv, TablePart, HeadPart, HeadIntegrity
  <1> QED
    BY <1>1, IntInit, IntNext, PTL DEF Spec

-----------------------------------------------------------------------------
(* Atomicity of the calls, for every set of calls, sessions and units and  *)
(* under every fault, as long as create_session is not used beside them:   *)
(* what a call commits is the whole of its write.  The argument is an      *)
(* exact account of the connection's image: inside a transaction block it  *)
(* is the committed image and the rows the call has written so far.        *)

(* create_session commits whatever transaction is open on the connection,  *)
(* another call's included (README.md, Findings); the theorems are about   *)
(* sessions created beforehand.                                            *)
NoCreate == "create" \notin Ops

Past(c) == pc[c] \in Body \cup {"commit"}   \* past its BEGIN
Live(c) == Past(c) \/ pc[c] = "undo"

(* A transaction nobody will end: its COMMIT failed, or the await of its   *)
(* BEGIN or ROLLBACK was cancelled.  Every BEGIN fails until the restart.  *)
Stuck == inTxn /\ \A c \in Calls : ~Live(c)

(* The arguments of a call are those of its operation.                     *)
ArgsOK ==
  \A c \in Calls :
    /\ pc[c] = "idle" => result[c] = "pending"
    /\ pc[c] # "idle" => call[c].op # "create"
    /\ call[c].op = "snapshot" => call[c].target = None
    /\ call[c].op = "provenance" => call[c].trace \in Traces

Versions == {"snapshot", "rollback"}   \* the operations that move a head

(* What c has written shows in its own session only, also while it is      *)
(* being undone.                                                           *)
Apart(c) ==
  /\ \A s \in Sessions : \/ work.heads[s] = disk.heads[s]
                         \/ call[c].op \in Versions /\ s = call[c].session
  /\ \A r \in work.snaps : \/ r \in disk.snaps
                           \/ call[c].op \in Versions /\ r.session = call[c].session

Row(c) == [id |-> c, session |-> call[c].session, parent |-> call[c].parent]

Filled(c) == [u \in Units |-> IF u \in Range(call[c].units) /\ disk.units[u] = None
                                THEN c ELSE disk.units[u]]

(* The image of the connection while c writes a new head.                  *)
VersionImage(c) ==
  /\ work.heads = IF pc[c] = "commit" THEN [disk.heads EXCEPT ![call[c].session] = c]
                                      ELSE disk.heads
  /\ work.snaps = IF pc[c] \in {"links", "copy", "head", "commit"}
                    THEN disk.snaps \cup {Row(c)} ELSE disk.snaps
  /\ work.units = IF call[c].op = "snapshot" /\ pc[c] # "units"
                    THEN Filled(c) ELSE disk.units
  /\ work.links = IF pc[c] \in {"head", "commit"}
                    THEN disk.links \cup ({c} \X Expected(c)) ELSE disk.links
  /\ work.provs = disk.provs
  /\ work.hops = disk.hops

(* The image of the connection while c writes a provenance record.         *)
RecordImage(c) ==
  /\ work.heads = disk.heads
  /\ work.snaps = disk.snaps
  /\ work.units = disk.units
  /\ work.links = disk.links
  /\ work.provs = IF pc[c] = "prov" THEN disk.provs ELSE disk.provs \cup {<<c, call[c].unit>>}
  /\ work.hops = IF pc[c] = "commit" THEN disk.hops \cup ({c} \X Range(call[c].trace))
                                     ELSE disk.hops
  /\ pc[c] # "prov" => disk.units[call[c].unit] # None

Image(c) == IF call[c].op = "provenance" THEN RecordImage(c) ELSE VersionImage(c)

(* What a call has read of its session is still so when it writes: the     *)
(* head, and that the target of a rollback is in place.                    *)
HasHead(c) ==
  /\ call[c].op \in Versions
  /\ Past(c) \/ pc[c] \in {"read_target", "check", "txn_lock", "begin"}

HasTarget(c) ==
  /\ call[c].op = "rollback"
  /\ Past(c) \/ pc[c] \in {"check", "txn_lock", "begin"}

Current(c) ==
  /\ HasHead(c) => Stuck \/ call[c].parent = disk.heads[call[c].session]
  /\ HasTarget(c) => Stuck \/ SnapshotIn(disk, call[c].target, call[c].session)

BlockOK ==
  /\ ~inTxn => work = disk
  /\ \A c \in Calls : /\ Live(c) => inTxn /\ Apart(c)
                      /\ Past(c) => Image(c)
                      /\ Current(c)

(* A row of call c is in the file.                                         *)
Kept(c) ==
  \/ HasSnapshot(disk, c)
  \/ \E u \in Units : <<c, u>> \in disk.links \/ <<c, u>> \in disk.provs
  \/ \E h \in disk.hops : h[1] = c

(* Rows are those of calls that have returned, and not with an error; the  *)
(* target of a stored rollback is stored.                                  *)
FileOK ==
  \A c \in Calls :
    /\ Kept(c) => pc[c] = "done" /\ result[c] # "error"
    /\ HasSnapshot(disk, c) => call[c].op \in Versions
    /\ HasSnapshot(disk, c) /\ call[c].op = "rollback" => HasSnapshot(disk, call[c].target)
    /\ result[c] = "ok" => Stored(c)

AtomInv == IntInv /\ ArgsOK /\ BlockOK /\ FileOK /\ AllOrNothing /\ SingleChain

-----------------------------------------------------------------------------
(***************************************************************************)
(* What a step of call c leaves to the others, and of its own arguments.   *)
(***************************************************************************)
Alone(c) ==
  \A d \in Calls : d # c => pc'[d] = pc[d] /\ call'[d] = call[d] /\ result'[d] = result[d]

(* Everything about a call but the parent it has read.                     *)
Fixed(d) ==
  /\ call'[d].op = call[d].op
  /\ call'[d].session = call[d].session
  /\ call'[d].units = call[d].units
  /\ call'[d].target = call[d].target
  /\ call'[d].unit = call[d].unit
  /\ call'[d].trace = call[d].trace

LEMMA GotoAlone ==
  ASSUME CtlInv, NEW c \in Calls, NEW next, Goto(c, next)
  PROVE  Alone(c) /\ pc'[c] = next /\ call' = call /\ result' = result
  BY DEF CtlInv, TypeOK, Goto, Alone

LEMMA RaiseAlone ==
  ASSUME CtlInv, NEW c \in Calls, NEW why, Raise(c, why)
  PROVE  Alone(c) /\ pc'[c] = "undo" /\ call' = call /\ result'[c] = why
  BY DEF CtlInv, TypeOK, Raise, Alone

LEMMA FinishAlone ==
  ASSUME CtlInv, NEW c \in Calls, NEW r, Finish(c, r)
  PROVE  Alone(c) /\ pc'[c] = "done" /\ call' = call /\ result'[c] = r
  BY DEF CtlInv, TypeOK, Finish, Alone

LEMMA ReadHeadAlone ==
  ASSUME CtlInv, NEW c \in Calls, ReadHead(c), ~Finish(c, "error")
  PROVE  /\ Alone(c) /\ result' = result
         /\ pc'[c] = IF call[c].op = "rollback" THEN "read_target" ELSE "check"
         /\ call'[c].parent = work.heads[call[c].session]
         /\ \A d \in Calls : Fixed(d)
  BY DEF CtlInv, TypeOK, CallRecord, ReadHead, Alone, Fixed

LEMMA LockAlone ==
  ASSUME CtlInv, NEW c \in Calls, LockSession(c) \/ LockTxn(c)
  PROVE  /\ Alone(c) /\ result' = result /\ call' = call
         /\ pc'[c] = IF pc[c] = "txn_lock" THEN "begin" ELSE "read_head"
  BY DEF CtlInv, TypeOK, LockSession, LockTxn, Alone

(* At most one call is in the block.                                       *)
LEMMA OneLive ==
  ASSUME CtlInv, NEW c \in Calls, NEW d \in Calls, c # d, pc[c] \in InBlock
  PROVE  ~Live(d)
  BY DEF CtlInv, LockOK, Live, Past, InBlock

(* Two calls past the session lock are of two sessions.                    *)
LEMMA OtherSession ==
  ASSUME CtlInv, NEW c \in Calls, NEW d \in Calls, c # d,
         Live(c), call[c].op \in Versions,
         pc[d] \in SessionHeld, call[d].op \in Versions
  PROVE  call[c].session # call[d].session
  <1>1. pc[c] \in SessionHeld
    BY DEF Live, Past, SessionHeld, InBlock
  <1> QED
    BY <1>1 DEF CtlInv, LockOK, Versions

LEMMA HoldsSession ==
  ASSUME NEW d \in Calls, HasHead(d) \/ HasTarget(d)
  PROVE  pc[d] \in SessionHeld /\ call[d].op \in Versions
  BY DEF HasHead, HasTarget, Past, SessionHeld, InBlock, Versions

-----------------------------------------------------------------------------
(***************************************************************************)
(* How the parts of BlockOK outlive a step, by the kind of step.           *)
(***************************************************************************)

(* Steps of a call outside the block, which touch neither image.           *)
LEMMA OutsideBlock ==
  ASSUME BlockOK, NEW c \in Calls, Alone(c), UNCHANGED dbVars,
         ~Live(c), pc'[c] \notin Body \cup {"commit", "undo"}, Current(c)'
  PROVE  BlockOK'
  <1>1. \A d \in Calls : Live(d)' <=> Live(d)
    BY DEF Live, Past, Alone
  <1>2. Stuck' <=> Stuck
    BY <1>1 DEF Stuck, dbVars
  <1>3. ASSUME NEW d \in Calls
        PROVE  /\ Live(d)' => inTxn' /\ Apart(d)'
               /\ Past(d)' => Image(d)'
               /\ Current(d)'
    <2>1. CASE d = c
      BY <2>1 DEF Live, Past
    <2>2. CASE d # c
      <3>1. /\ pc'[d] = pc[d] /\ call'[d] = call[d]
            /\ UNCHANGED <<disk, work, inTxn>>
        BY <2>2 DEF Alone, dbVars
      <3>2. Live(d)' => inTxn' /\ Apart(d)'
        BY <1>1, <3>1 DEF BlockOK, Apart
      <3>3. Past(d)' => Image(d)'
        BY <3>1 DEF BlockOK, Past, Image, RecordImage, VersionImage, Row, Filled,
                    Expected, Members
      <3>4. Current(d)'
        BY <1>2, <3>1 DEF BlockOK, Current, HasHead, HasTarget, Past, SnapshotIn
      <3> QED
        BY <3>2, <3>3, <3>4
    <2> QED
      BY <2>1, <2>2
  <1> QED
    BY <1>3 DEF BlockOK, dbVars

(* A statement of the block, or one that raises.                           *)
LEMMA InsideBlock ==
  ASSUME CtlInv, BlockOK, NEW c \in Calls, Alone(c), Past(c), Live(c)',
         UNCHANGED <<disk, inTxn, call>>, Apart(c)', Past(c)' => Image(c)'
  PROVE  BlockOK'
  <1>1. inTxn /\ inTxn'
    BY DEF BlockOK, Live
  <1>2. pc[c] \in InBlock
    BY DEF Past, InBlock
  <1>3. ~Stuck /\ ~Stuck'
    BY DEF Stuck, Live
  <1>4. ASSUME NEW d \in Calls
        PROVE  /\ Live(d)' => inTxn' /\ Apart(d)'
               /\ Past(d)' => Image(d)'
               /\ Current(d)'
    <2>1. CASE d = c
      <3>1. Current(c)'
        BY <1>3 DEF BlockOK, Current, HasHead, HasTarget, Live, SnapshotIn, Past
      <3> QED
        BY <1>1, <2>1, <3>1
    <2>2. CASE d # c
      <3>1. ~Live(d) /\ pc'[d] = pc[d]
        BY <1>2, <2>2, OneLive DEF Alone
      <3>2. ~Live(d)' /\ ~Past(d)'
        BY <3>1 DEF Live, Past
      <3>3. Current(d)'
        BY <1>3, <3>1 DEF BlockOK, Current, HasHead, HasTarget, SnapshotIn, Past
      <3> QED
        BY <3>2, <3>3
    <2> QED
      BY <2>1, <2>2
  <1> QED
    BY <1>1, <1>4 DEF BlockOK

(* The end of a block.  Whatever is committed is of the session of c; a    *)
(* transaction that stays open is stuck.                                   *)
LEMMA LeaveBlock ==
  ASSUME CtlInv, BlockOK, NEW c \in Calls, Alone(c), pc[c] \in InBlock, pc'[c] = "done",
         call' = call,
         \/ Live(c) /\ RollbackWork
         \/ pc[c] = "commit" /\ CommitWork
         \/ inTxn' = TRUE /\ UNCHANGED <<disk, work>>
  PROVE  BlockOK'
  <1>1. \A d \in Calls : ~Live(d)' /\ ~Past(d)'
    BY OneLive DEF Live, Past, Alone, Body
  <1>2. ~inTxn' => work' = disk'
    BY DEF RollbackWork, CommitWork
  <1>3. ASSUME NEW d \in Calls PROVE Current(d)'
    <2>1. CASE inTxn'
      BY <1>1, <2>1 DEF Current, Stuck
    <2>2. CASE d = c
      BY <2>2 DEF Current, HasHead, HasTarget, Past, Body
    <2>3. CASE ~inTxn' /\ d # c
      <3>1. Live(c) /\ ~Stuck
        BY <2>3 DEF Stuck, Live, Past
      <3>2. pc'[d] = pc[d]
        BY <2>3 DEF Alone
      <3>3. (HasHead(d)' <=> HasHead(d)) /\ (HasTarget(d)' <=> HasTarget(d))
        BY <3>2 DEF HasHead, HasTarget, Past
      <3>4. CASE disk' = disk
        BY <3>1, <3>3, <3>4 DEF BlockOK, Current, SnapshotIn
      <3>5. CASE pc[c] = "commit" /\ disk' = work
        <4>1. call[d].session \in Sessions
          BY DEF CtlInv, TypeOK, CallRecord
        <4>2. HasHead(d) => disk'.heads[call[d].session] = disk.heads[call[d].session]
          BY <2>3, <3>1, <3>5, <4>1, OtherSession, HoldsSession DEF BlockOK, Apart
        <4>3. disk.snaps \subseteq disk'.snaps
          BY <3>5 DEF BlockOK, Past, Image, RecordImage, VersionImage
        <4> QED
          BY <3>1, <3>3, <4>2, <4>3 DEF BlockOK, Current, SnapshotIn
      <3> QED
        BY <2>3, <3>4, <3>5 DEF RollbackWork, CommitWork
    <2> QED
      BY <2>1, <2>2, <2>3
  <1> QED
    BY <1>1, <1>2, <1>3 DEF BlockOK

LEMMA CrashBlock ==
  ASSUME Crash
  PROVE  BlockOK'
  <1>1. \A d \in Calls : pc'[d] \in {"idle", "done"}
    BY DEF Crash, InProgress
  <1>2. \A d \in Calls : ~Live(d)' /\ ~Past(d)' /\ Current(d)'
    BY <1>1 DEF Live, Past, Current, HasHead, HasTarget, Body
  <1> QED
    BY <1>2 DEF Crash, RollbackWork, BlockOK

-----------------------------------------------------------------------------
(***************************************************************************)
(* BlockOK, action by action.                                              *)
(***************************************************************************)

(* A call that holds its session lock and has not begun sees the committed *)
(* rows of its session, unless the connection is stuck.                    *)
LEMMA SeesCommitted ==
  ASSUME CtlInv, BlockOK, NEW c \in Calls, ~Live(c), ~Stuck,
         pc[c] \in SessionHeld, call[c].op \in Versions
  PROVE  /\ work.heads[call[c].session] = disk.heads[call[c].session]
         /\ \A r \in work.snaps : r.session = call[c].session => r \in disk.snaps
  <1>1. call[c].session \in Sessions
    BY DEF CtlInv, TypeOK, CallRecord
  <1>2. CASE ~inTxn
    BY <1>2 DEF BlockOK
  <1>3. CASE inTxn
    <2>1. PICK d \in Calls : Live(d)
      BY <1>3 DEF Stuck
    <2>2. call[d].op \in Versions => call[d].session # call[c].session
      BY <2>1, OtherSession
    <2> QED
      BY <1>1, <2>1, <2>2 DEF BlockOK, Apart
  <1> QED
    BY <1>2, <1>3

LEMMA RequestBlock ==
  ASSUME CtlInv, BlockOK, NEW c \in Calls, Request(c)
  PROVE  BlockOK'
  <1>1. /\ Alone(c) /\ UNCHANGED dbVars /\ pc[c] = "idle"
        /\ \/ pc'[c] \in {"session_lock", "insert"}
           \/ pc'[c] = "check" /\ call'[c].op = "provenance"
    BY DEF Request, Snapshot, Rollback, WriteProvenance, CreateSession, NewCall,
           Invoke, Alone, dbVars, CtlInv, TypeOK
  <1>2. Current(c)'
    BY <1>1 DEF Current, HasHead, HasTarget, Past, Body, Versions
  <1>3. ~Live(c) /\ pc'[c] \notin Body \cup {"commit", "undo"}
    BY <1>1 DEF Live, Past, Body
  <1> QED
    BY <1>1, <1>2, <1>3, OutsideBlock

(* The steps outside the block that end the call.                          *)
LEMMA FinishBlock ==
  ASSUME CtlInv, BlockOK, NEW c \in Calls, NEW r, Finish(c, r), UNCHANGED dbVars, ~Live(c)
  PROVE  BlockOK'
  <1>1. Alone(c) /\ pc'[c] = "done"
    BY FinishAlone
  <1>2. Current(c)' /\ pc'[c] \notin Body \cup {"commit", "undo"}
    BY <1>1 DEF Current, HasHead, HasTarget, Past, Body
  <1> QED
    BY <1>1, <1>2, OutsideBlock

LEMMA ReadHeadBlock ==
  ASSUME CtlInv, BlockOK, NEW c \in Calls, ReadHead(c)
  PROVE  BlockOK'
  <1>1. pc[c] = "read_head" /\ UNCHANGED dbVars
    BY DEF ReadHead
  <1>2. ~Live(c) /\ pc[c] \in SessionHeld /\ call[c].op \in Versions
    BY <1>1 DEF Live, Past, Body, SessionHeld, Versions, CtlInv, OpOK, OpAt
  <1>3. CASE Finish(c, "error")
    BY <1>1, <1>2, <1>3, FinishBlock
  <1>4. CASE ~Finish(c, "error")
    <2>1. /\ Alone(c)
          /\ pc'[c] = IF call[c].op = "rollback" THEN "read_target" ELSE "check"
          /\ call'[c].parent = work.heads[call[c].session]
          /\ Fixed(c)
      BY <1>4, ReadHeadAlone
    <2>2. Stuck => Stuck'
      <3>1. ~Past(c)' /\ ~Live(c)'
        BY <2>1 DEF Live, Past, Body
      <3> QED
        BY <1>1, <2>1, <3>1 DEF Stuck, dbVars, Alone, Live, Past
    <2>3. Current(c)'
      <3>1. ~HasTarget(c)'
        BY <2>1 DEF HasTarget, Past, Body, Fixed
      <3>2. Stuck' \/ call'[c].parent = disk.heads[call[c].session]
        BY <1>2, <2>1, <2>2, SeesCommitted
      <3> QED
        BY <1>1, <2>1, <3>1, <3>2 DEF Current, Fixed, dbVars
    <2>4. pc'[c] \notin Body \cup {"commit", "undo"}
      BY <2>1 DEF Body
    <2> QED
      BY <1>1, <1>2, <2>1, <2>3, <2>4, OutsideBlock
  <1> QED
    BY <1>3, <1>4

(* The other steps of a call on its way to the block.                      *)
LEMMA WayBlock ==
  ASSUME CtlInv, BlockOK, NEW c \in Calls,
         LockSession(c) \/ ReadTarget(c) \/ Check(c) \/ LockTxn(c)
  PROVE  BlockOK'
  <1>1. UNCHANGED dbVars /\ ~Live(c)
    BY DEF LockSession, ReadTarget, Check, LockTxn, dbVars, Live, Past, Body
  <1>2. CASE \E r : Finish(c, r)
    BY <1>1, <1>2, FinishBlock
  <1>3. CASE ~\E r : Finish(c, r)
    <2>1. /\ Alone(c) /\ call' = call
          /\ \/ pc[c] = "session_lock" /\ pc'[c] = "read_head"
             \/ /\ pc[c] = "read_target" /\ pc'[c] = "check"
                /\ SnapshotIn(work, call[c].target, call[c].session)
             \/ pc[c] = "check" /\ pc'[c] = "txn_lock"
             \/ pc[c] = "txn_lock" /\ pc'[c] = "begin"
      BY <1>3, GotoAlone, LockAlone DEF ReadTarget, Check, LockSession, LockTxn
    <2>2. pc'[c] \notin Body \cup {"commit", "undo"}
      BY <2>1 DEF Body
    <2>3. Stuck' <=> Stuck
      BY <1>1, <2>1, <2>2 DEF Stuck, dbVars, Alone, Live, Past
    <2>4. UNCHANGED <<disk, call>>
      BY <1>1, <2>1 DEF dbVars
    <2>5. HasHead(c)' => Stuck' \/ call'[c].parent = disk'.heads[call'[c].session]
      <3>1. HasHead(c)' => HasHead(c)
        BY <2>1, <2>2 DEF HasHead, Past
      <3> QED
        BY <2>3, <2>4, <3>1 DEF BlockOK, Current
    <2>6. HasTarget(c)' =>
            Stuck' \/ SnapshotIn(disk', call'[c].target, call'[c].session)
      <3>1. CASE pc[c] = "read_target" /\ ~Stuck
        <4>1. pc[c] \in SessionHeld /\ call[c].op \in Versions
          BY <3>1 DEF SessionHeld, Versions, CtlInv, OpOK, OpAt
        <4>2. SnapshotIn(work, call[c].target, call[c].session)
          BY <2>1, <3>1
        <4>3. SnapshotIn(disk, call[c].target, call[c].session)
          BY <1>1, <3>1, <4>1, <4>2, SeesCommitted DEF SnapshotIn
        <4> QED
          BY <2>4, <4>3
      <3>2. CASE pc[c] # "read_target"
        <4>1. HasTarget(c)' => HasTarget(c)
          BY <2>1, <2>2, <3>2 DEF HasTarget, Past
        <4> QED
          BY <2>3, <2>4, <4>1 DEF BlockOK, Current
      <3> QED
        BY <2>3, <3>1, <3>2
    <2>7. Current(c)'
      BY <2>5, <2>6 DEF Current
    <2> QED
      BY <1>1, <2>1, <2>2, <2>7, OutsideBlock
  <1> QED
    BY <1>2, <1>3

LEMMA BeginBlock ==
  ASSUME CtlInv, BlockOK, NEW c \in Calls, Begin(c)
  PROVE  BlockOK'
  <1>1. pc[c] = "begin" /\ UNCHANGED <<disk, work>> /\ ~Live(c)
    BY DEF Begin, Live, Past, Body
  <1>2. CASE Finish(c, "error") /\ UNCHANGED inTxn
    BY <1>1, <1>2, FinishBlock DEF dbVars
  <1>3. CASE ~inTxn /\ inTxn' /\ Goto(c, FirstStatement(c))
    <2>1. /\ Alone(c) /\ call' = call
          /\ \/ call[c].op = "provenance" /\ pc'[c] = "prov"
             \/ call[c].op = "rollback" /\ pc'[c] = "snap"
             \/ call[c].op = "snapshot" /\ call[c].units = <<>> /\ pc'[c] = "snap"
             \/ call[c].op = "snapshot" /\ pc'[c] = "units"
      <3>1. call[c].op \in {"snapshot", "rollback", "provenance"}
        BY <1>1 DEF CtlInv, OpOK, OpAt, TypeOK, CallRecord, OpKinds
      <3> QED
        BY <1>3, <3>1, GotoAlone DEF FirstStatement
    <2>2. work' = disk' /\ disk' = disk
      BY <1>1, <1>3 DEF BlockOK
    <2>3. ~Stuck /\ \A d \in Calls : ~Live(d) /\ ~Past(d)
      BY <1>3 DEF Stuck, BlockOK, Live
    <2>4. Image(c)'
      <3>1. CASE call[c].op = "snapshot" /\ call[c].units = <<>> /\ pc'[c] = "snap"
        <4>1. Filled(c)' = disk'.units
          <5>1. disk'.units \in [Units -> Calls \cup {None}]
            BY <2>2 DEF CtlInv, TypeOK, DB
          <5>2. Range(<<>>) = {}
            BY DEF Range
          <5> QED
            BY <2>1, <3>1, <5>1, <5>2 DEF Filled
        <4> QED
          BY <2>1, <2>2, <3>1, <4>1 DEF Image, VersionImage
      <3> QED
        BY <2>1, <2>2, <3>1 DEF Image, VersionImage, RecordImage
    <2>5. ASSUME NEW d \in Calls
          PROVE  /\ Live(d)' => inTxn' /\ Apart(d)'
                 /\ Past(d)' => Image(d)'
                 /\ Current(d)'
      <3>1. Apart(d)'
        BY <2>2 DEF Apart
      <3>2. HasHead(d)' => HasHead(d)
        BY <1>1, <2>1, <2>3 DEF HasHead, Past, Alone
      <3>3. HasTarget(d)' => HasTarget(d)
        BY <1>1, <2>1, <2>3 DEF HasTarget, Past, Alone
      <3>4. Current(d)'
        BY <2>1, <2>2, <2>3, <3>2, <3>3 DEF BlockOK, Current, SnapshotIn
      <3>5. d # c => ~Past(d)'
        BY <2>1, <2>3 DEF Past, Alone
      <3> QED
        BY <1>3, <2>4, <3>1, <3>4, <3>5
    <2> QED
      BY <1>3, <2>5 DEF BlockOK
  <1> QED
    BY <1>2, <1>3 DEF Begin

(* Which tables a statement touches.                                       *)
LEMMA KeepUnitsFields ==
  ASSUME NEW db \in DB, NEW c, NEW us, NEW db2, db2 = KeepUnits(db, c, us)
  PROVE  /\ db2.units = [u \in Units |-> IF u \in us /\ db.units[u] = None
                                           THEN c ELSE db.units[u]]
         /\ db2.heads = db.heads /\ db2.snaps = db.snaps /\ db2.links = db.links
         /\ db2.provs = db.provs /\ db2.hops = db.hops
  BY DEF KeepUnits, DB

LEMMA InsertSnapshotFields ==
  ASSUME NEW db \in DB, NEW c, NEW s, NEW p, NEW db2, db2 = InsertSnapshot(db, c, s, p)
  PROVE  /\ db2.snaps = db.snaps \cup {[id |-> c, session |-> s, parent |-> p]}
         /\ db2.heads = db.heads /\ db2.units = db.units /\ db2.links = db.links
         /\ db2.provs = db.provs /\ db2.hops = db.hops
  BY DEF InsertSnapshot, DB

LEMMA KeepLinksFields ==
  ASSUME NEW db \in DB, NEW c, NEW us, NEW db2, db2 = KeepLinks(db, c, us)
  PROVE  /\ db2.links = db.links \cup ({c} \X us)
         /\ db2.heads = db.heads /\ db2.snaps = db.snaps /\ db2.units = db.units
         /\ db2.provs = db.provs /\ db2.hops = db.hops
  BY DEF KeepLinks, DB

LEMMA SetHeadFields ==
  ASSUME NEW db \in DB, NEW c, NEW s \in Sessions, db.heads[s] # Absent,
         NEW db2, db2 = SetHead(db, s, c)
  PROVE  /\ db2.heads = [db.heads EXCEPT ![s] = c]
         /\ db2.snaps = db.snaps /\ db2.units = db.units /\ db2.links = db.links
         /\ db2.provs = db.provs /\ db2.hops = db.hops
  BY DEF SetHead, DB

LEMMA InsertProvenanceFields ==
  ASSUME NEW db \in DB, NEW c, NEW u, NEW db2, db2 = InsertProvenance(db, c, u)
  PROVE  /\ db2.provs = db.provs \cup {<<c, u>>}
         /\ db2.heads = db.heads /\ db2.snaps = db.snaps /\ db2.units = db.units
         /\ db2.links = db.links /\ db2.hops = db.hops
  BY DEF InsertProvenance, DB

LEMMA KeepHopsFields ==
  ASSUME NEW db \in DB, NEW c, NEW hs, NEW db2, db2 = KeepHops(db, c, hs)
  PROVE  /\ db2.hops = db.hops \cup ({c} \X hs)
         /\ db2.heads = db.heads /\ db2.snaps = db.snaps /\ db2.units = db.units
         /\ db2.links = db.links /\ db2.provs = db.provs
  BY DEF KeepHops, DB

(* Inside a transaction a statement reaches the connection's image only.   *)
LEMMA ExecuteInside ==
  ASSUME CtlInv, BlockOK, NEW c \in Calls, Live(c), NEW db, Execute(db)
  PROVE  work' = db /\ UNCHANGED <<disk, inTxn>>
  BY DEF CtlInv, TypeOK, BlockOK, Execute

(* A statement that raises has written rows of its own table at most.      *)
LEMMA RaiseBlock ==
  ASSUME CtlInv, BlockOK, NEW c \in Calls, Past(c), NEW why, Raise(c, why),
         NEW db, SameShape(db), work' = db, UNCHANGED <<disk, inTxn>>
  PROVE  BlockOK'
  <1>1. Alone(c) /\ pc'[c] = "undo" /\ call' = call
    BY RaiseAlone
  <1>2. Apart(c)'
    BY <1>1 DEF BlockOK, Live, Apart, SameShape
  <1>3. Live(c)' /\ ~Past(c)'
    BY <1>1 DEF Live, Past, Body
  <1> QED
    BY <1>1, <1>2, <1>3, InsideBlock

(***************************************************************************)
(* The statements: with what each writes the image is the one the next     *)
(* place in the code requires.                                             *)
(***************************************************************************)
LEMMA WrittenBlock ==
  ASSUME CtlInv, BlockOK, NEW c \in Calls, Past(c), NEW next, Goto(c, next),
         next \in Body \cup {"commit"}, UNCHANGED <<disk, inTxn>>, Apart(c)', Image(c)'
  PROVE  BlockOK'
  <1>1. Alone(c) /\ pc'[c] = next /\ call' = call
    BY GotoAlone
  <1>2. Live(c)'
    BY <1>1 DEF Live, Past
  <1> QED
    BY <1>1, <1>2, InsideBlock

(* A list that fails at row k has stored rows of units, links or hops.     *)
LEMMA PartShapes ==
  ASSUME CtlInv, NEW c \in Calls
  PROVE  /\ \A k \in DOMAIN call[c].units :
              SameShape(KeepUnits(work, c, Prefix(call[c].units, k - 1)))
         /\ \A k \in DOMAIN call[c].units :
              SameShape(KeepLinks(work, c, Prefix(call[c].units, k - 1)))
         /\ \A k \in DOMAIN call[c].trace :
              SameShape(KeepHops(work, c, Prefix(call[c].trace, k - 1)))
  <1>1. call[c].units \in Seq(Units) /\ call[c].trace \in Seq(Nat)
    BY ListsTyped DEF CtlInv, TypeOK, CallRecord
  <1> QED
    BY <1>1, SameShapes, PrefixTyped

LEMMA UnitsBlock ==
  ASSUME CtlInv, BlockOK, NEW c \in Calls, WriteUnits(c)
  PROVE  BlockOK'
  <1> DEFINE us == call[c].units
             db == KeepUnits(work, c, Range(us))
  <1>1. pc[c] = "units" /\ Past(c) /\ Live(c) /\ call[c].op = "snapshot" /\ work \in DB
    BY DEF WriteUnits, Past, Live, Body, CtlInv, TypeOK, OpOK, OpAt
  <1>2. CASE Execute(db) /\ Goto(c, "snap")
    <2>1. work' = db /\ UNCHANGED <<disk, inTxn>>
      BY <1>1, <1>2, ExecuteInside
    <2>2. pc'[c] = "snap" /\ call' = call
      BY <1>2, GotoAlone
    <2>3. VersionImage(c)
      BY <1>1 DEF BlockOK, Image
    <2>4. VersionImage(c)'
      <3>1. /\ work'.heads = work.heads /\ work'.snaps = work.snaps
            /\ work'.links = work.links /\ work'.provs = work.provs
            /\ work'.hops = work.hops
            /\ work'.units = [u \in Units |-> IF u \in Range(us) /\ work.units[u] = None
                                                THEN c ELSE work.units[u]]
        BY <1>1, <2>1, KeepUnitsFields
      <3>2. work.units = disk.units
        BY <1>1, <2>3 DEF VersionImage
      <3>3. work'.units = Filled(c)'
        BY <2>1, <2>2, <3>1, <3>2 DEF Filled
      <3> QED
        BY <1>1, <2>1, <2>2, <2>3, <3>1, <3>3 DEF VersionImage
    <2>5. Image(c)' /\ Apart(c)'
      BY <1>1, <2>2, <2>4 DEF Image, Apart, VersionImage
    <2> QED
      BY <1>1, <1>2, <2>1, <2>5, WrittenBlock DEF Body
  <1>3. ASSUME NEW k \in DOMAIN us,
               Execute(KeepUnits(work, c, Prefix(us, k - 1))), Raise(c, "error")
        PROVE  BlockOK'
    BY <1>1, <1>3, PartShapes, ExecuteInside, RaiseBlock
  <1> QED
    BY <1>2, <1>3 DEF WriteUnits, ExecuteMany

LEMMA LinksBlock ==
  ASSUME CtlInv, BlockOK, NEW c \in Calls, WriteLinks(c)
  PROVE  BlockOK'
  <1> DEFINE us == call[c].units
             db == KeepLinks(work, c, Range(us))
  <1>1. pc[c] = "links" /\ Past(c) /\ Live(c) /\ call[c].op = "snapshot" /\ work \in DB
    BY DEF WriteLinks, Past, Live, Body, CtlInv, TypeOK, OpOK, OpAt
  <1>2. CASE Execute(db) /\ Goto(c, "head")
    <2>1. work' = db /\ UNCHANGED <<disk, inTxn>>
      BY <1>1, <1>2, ExecuteInside
    <2>2. pc'[c] = "head" /\ call' = call
      BY <1>2, GotoAlone
    <2>3. VersionImage(c)
      BY <1>1 DEF BlockOK, Image
    <2>4. VersionImage(c)'
      <3>1. /\ work'.heads = work.heads /\ work'.snaps = work.snaps
            /\ work'.units = work.units /\ work'.provs = work.provs
            /\ work'.hops = work.hops
            /\ work'.links = work.links \cup ({c} \X Range(us))
        BY <1>1, <2>1, KeepLinksFields
      <3>2. Expected(c)' = Range(us)
        BY <1>1, <2>2 DEF Expected
      <3>3. Row(c)' = Row(c) /\ Filled(c)' = Filled(c)
        BY <2>1, <2>2 DEF Row, Filled
      <3> QED
        BY <1>1, <2>1, <2>2, <2>3, <3>1, <3>2, <3>3 DEF VersionImage
    <2>5. Image(c)' /\ Apart(c)'
      BY <1>1, <2>2, <2>4 DEF Image, Apart, VersionImage, Row, Versions
    <2> QED
      BY <1>1, <1>2, <2>1, <2>5, WrittenBlock DEF Body
  <1>3. ASSUME NEW k \in DOMAIN us,
               Execute(KeepLinks(work, c, Prefix(us, k - 1))), Raise(c, "error")
        PROVE  BlockOK'
    BY <1>1, <1>3, PartShapes, ExecuteInside, RaiseBlock
  <1> QED
    BY <1>2, <1>3 DEF WriteLinks, ExecuteMany

LEMMA HopsBlock ==
  ASSUME CtlInv, BlockOK, NEW c \in Calls, WriteHops(c)
  PROVE  BlockOK'
  <1> DEFINE tr == call[c].trace
             db == KeepHops(work, c, Range(tr))
  <1>1. pc[c] = "hops" /\ Past(c) /\ Live(c) /\ call[c].op = "provenance" /\ work \in DB
    BY DEF WriteHops, Past, Live, Body, CtlInv, TypeOK, OpOK, OpAt
  <1>2. CASE Execute(db) /\ Goto(c, "commit")
    <2>1. work' = db /\ UNCHANGED <<disk, inTxn>>
      BY <1>1, <1>2, ExecuteInside
    <2>2. pc'[c] = "commit" /\ call' = call
      BY <1>2, GotoAlone
    <2>3. RecordImage(c)
      BY <1>1 DEF BlockOK, Image
    <2>4. RecordImage(c)'
      BY <1>1, <2>1, <2>2, <2>3, KeepHopsFields DEF RecordImage
    <2>5. Image(c)' /\ Apart(c)'
      BY <1>1, <2>2, <2>4 DEF Image, Apart, RecordImage
    <2> QED
      BY <1>1, <1>2, <2>1, <2>5, WrittenBlock
  <1>3. ASSUME NEW k \in DOMAIN tr,
               Execute(KeepHops(work, c, Prefix(tr, k - 1))), Raise(c, "error")
        PROVE  BlockOK'
    BY <1>1, <1>3, PartShapes, ExecuteInside, RaiseBlock
  <1> QED
    BY <1>2, <1>3 DEF WriteHops, ExecuteMany

LEMMA SnapshotBlock ==
  ASSUME CtlInv, BlockOK, NEW c \in Calls, WriteSnapshot(c)
  PROVE  BlockOK'
  <1> DEFINE s == call[c].session
             p == call[c].parent
             db == InsertSnapshot(work, c, s, p)
             next == IF call[c].op = "rollback" THEN "copy"
                     ELSE IF call[c].units = <<>> THEN "head" ELSE "links"
  <1>1. /\ pc[c] = "snap" /\ Past(c) /\ Live(c) /\ work \in DB
        /\ call[c].op \in Versions /\ call[c].op # "provenance"
    BY DEF WriteSnapshot, Past, Live, Body, CtlInv, TypeOK, OpOK, OpAt, Versions
  <1>2. CASE Execute(db) /\ Goto(c, next)
    <2>1. work' = db /\ UNCHANGED <<disk, inTxn>>
      BY <1>1, <1>2, ExecuteInside
    <2>2. pc'[c] = next /\ call' = call
      BY <1>2, GotoAlone
    <2>3. VersionImage(c)
      BY <1>1 DEF BlockOK, Image
    <2>4. VersionImage(c)'
      <3>1. /\ work'.heads = work.heads /\ work'.units = work.units
            /\ work'.links = work.links /\ work'.provs = work.provs
            /\ work'.hops = work.hops
            /\ work'.snaps = work.snaps \cup {Row(c)}
        BY <1>1, <2>1, InsertSnapshotFields DEF Row
      <3>2. next = "head" => disk.links \cup ({c} \X Expected(c)') = disk.links
        <4>1. Range(<<>>) = {}
          BY DEF Range
        <4>2. next = "head" => Expected(c)' = {}
          BY <2>2, <4>1 DEF Expected
        <4> QED
          BY <4>2
      <3>3. Row(c)' = Row(c) /\ Filled(c)' = Filled(c)
        BY <2>1, <2>2 DEF Row, Filled
      <3>4. next \in {"copy", "head", "links"} /\ disk' = disk
        BY <2>1
      <3> HIDE DEF next, db
      <3> QED
        BY <1>1, <2>2, <2>3, <3>1, <3>2, <3>3, <3>4 DEF VersionImage
    <2>5. Image(c)' /\ Apart(c)'
      BY <1>1, <2>2, <2>4 DEF Image, Apart, VersionImage, Row
    <2> QED
      BY <1>1, <1>2, <2>1, <2>5, WrittenBlock DEF Body
  <1>3. CASE Execute(work) /\ Raise(c, "error")
    BY <1>1, <1>3, SameShapes, ExecuteInside, RaiseBlock
  <1> QED
    BY <1>2, <1>3 DEF WriteSnapshot, ExecuteOne

LEMMA CopyBlock ==
  ASSUME CtlInv, BlockOK, NEW c \in Calls, WriteCopy(c)
  PROVE  BlockOK'
  <1> DEFINE us == Members(work, call[c].target)
             db == KeepLinks(work, c, us)
  <1>1. pc[c] = "copy" /\ Past(c) /\ Live(c) /\ call[c].op = "rollback" /\ work \in DB
    BY DEF WriteCopy, Past, Live, Body, CtlInv, TypeOK, OpOK, OpAt
  <1>2. CASE Execute(db) /\ Goto(c, "head")
    <2>1. work' = db /\ UNCHANGED <<disk, inTxn>>
      BY <1>1, <1>2, ExecuteInside
    <2>2. pc'[c] = "head" /\ call' = call
      BY <1>2, GotoAlone
    <2>3. VersionImage(c)
      BY <1>1 DEF BlockOK, Image
    <2>4. VersionImage(c)'
      <3>1. /\ work'.heads = work.heads /\ work'.snaps = work.snaps
            /\ work'.units = work.units /\ work'.provs = work.provs
            /\ work'.hops = work.hops
            /\ work'.links = work.links \cup ({c} \X us)
        BY <1>1, <2>1, KeepLinksFields
      <3>2. work.links = disk.links
        BY <1>1, <2>3 DEF VersionImage
      <3>3. Expected(c)' = us
        BY <1>1, <2>1, <2>2, <3>2 DEF Expected, Members
      <3>4. Row(c)' = Row(c)
        BY <2>2 DEF Row
      <3> QED
        BY <1>1, <2>1, <2>2, <2>3, <3>1, <3>2, <3>3, <3>4 DEF VersionImage
    <2>5. Image(c)' /\ Apart(c)'
      BY <1>1, <2>2, <2>4 DEF Image, Apart, VersionImage, Row, Versions
    <2> QED
      BY <1>1, <1>2, <2>1, <2>5, WrittenBlock DEF Body
  <1>3. CASE Execute(work) /\ Raise(c, "error")
    BY <1>1, <1>3, SameShapes, ExecuteInside, RaiseBlock
  <1> QED
    BY <1>2, <1>3 DEF WriteCopy, ExecuteOne, CopyLinks

LEMMA HeadBlock ==
  ASSUME CtlInv, BlockOK, NEW c \in Calls, WriteHead(c)
  PROVE  BlockOK'
  <1> DEFINE s == call[c].session
             db == SetHead(work, s, c)
  <1>1. /\ pc[c] = "head" /\ Past(c) /\ Live(c) /\ work \in DB /\ s \in Sessions
        /\ call[c].op \in Versions /\ call[c].op # "provenance"
    BY DEF WriteHead, Past, Live, Body, CtlInv, TypeOK, CallRecord, OpOK, OpAt, Versions
  <1>2. CASE Execute(db) /\ Goto(c, "commit")
    <2>1. work' = db /\ UNCHANGED <<disk, inTxn>>
      BY <1>1, <1>2, ExecuteInside
    <2>2. pc'[c] = "commit" /\ call' = call
      BY <1>2, GotoAlone
    <2>3. VersionImage(c)
      BY <1>1 DEF BlockOK, Image
    <2>4. work.heads[s] # Absent
      <3>1. call[c].parent = disk.heads[s]
        BY <1>1 DEF BlockOK, Current, HasHead, Stuck
      <3>2. call[c].parent \in Calls \cup {None}
        BY DEF CtlInv, TypeOK, CallRecord
      <3> QED
        BY <1>1, <2>3, <3>1, <3>2, DatabaseAssumption DEF VersionImage
    <2>5. VersionImage(c)'
      <3>1. /\ work'.heads = [work.heads EXCEPT ![s] = c]
            /\ work'.snaps = work.snaps
            /\ work'.units = work.units /\ work'.links = work.links
            /\ work'.provs = work.provs /\ work'.hops = work.hops
        BY <1>1, <2>1, <2>4, SetHeadFields
      <3>2. Row(c)' = Row(c) /\ Filled(c)' = Filled(c) /\ Expected(c)' = Expected(c)
        BY <2>1, <2>2 DEF Row, Filled, Expected, Members
      <3> QED
        BY <1>1, <2>1, <2>2, <2>3, <3>1, <3>2 DEF VersionImage
    <2>6. disk'.heads \in [Sessions -> Calls \cup {None, Absent}]
      BY <2>1 DEF CtlInv, TypeOK, DB
    <2>7. Image(c)' /\ Apart(c)'
      BY <1>1, <2>2, <2>5, <2>6 DEF Image, Apart, VersionImage, Row
    <2> QED
      BY <1>1, <1>2, <2>1, <2>7, WrittenBlock
  <1>3. CASE Execute(work) /\ Raise(c, "error")
    BY <1>1, <1>3, SameShapes, ExecuteInside, RaiseBlock
  <1> QED
    BY <1>2, <1>3 DEF WriteHead, ExecuteOne

LEMMA ProvBlock ==
  ASSUME CtlInv, BlockOK, NEW c \in Calls, WriteProv(c)
  PROVE  BlockOK'
  <1> DEFINE u == call[c].unit
             db == InsertProvenance(work, c, u)
             next == IF call[c].trace = <<>> THEN "commit" ELSE "hops"
  <1>1. pc[c] = "prov" /\ Past(c) /\ Live(c) /\ call[c].op = "provenance" /\ work \in DB
    BY DEF WriteProv, Past, Live, Body, CtlInv, TypeOK, OpOK, OpAt
  <1>2. CASE GoodProvenance(work, u) /\ Execute(db) /\ Goto(c, next)
    <2>1. work' = db /\ UNCHANGED <<disk, inTxn>>
      BY <1>1, <1>2, ExecuteInside
    <2>2. pc'[c] = next /\ call' = call
      BY <1>2, GotoAlone
    <2>3. RecordImage(c)
      BY <1>1 DEF BlockOK, Image
    <2>4. RecordImage(c)'
      <3>1. /\ work'.heads = work.heads /\ work'.snaps = work.snaps
            /\ work'.units = work.units /\ work'.links = work.links
            /\ work'.hops = work.hops
            /\ work'.provs = work.provs \cup {<<c, u>>}
        BY <1>1, <2>1, InsertProvenanceFields
      <3>2. next = "commit" => disk.hops \cup ({c} \X Range(call[c].trace)) = disk.hops
        <4>1. Range(<<>>) = {}
          BY DEF Range
        <4> QED
          BY <4>1
      <3>3. next \in {"commit", "hops"} /\ disk' = disk
        BY <2>1
      <3>4. disk.units[u] # None
        BY <1>1, <1>2, <2>3 DEF GoodProvenance, RecordImage
      <3> HIDE DEF next, db
      <3> QED
        BY <1>1, <2>2, <2>3, <3>1, <3>2, <3>3, <3>4 DEF RecordImage
    <2>5. Image(c)' /\ Apart(c)'
      BY <1>1, <2>2, <2>4 DEF Image, Apart, RecordImage
    <2> QED
      BY <1>1, <1>2, <2>1, <2>5, WrittenBlock DEF Body
  <1>3. CASE Execute(work) /\ Raise(c, "error")
    BY <1>1, <1>3, SameShapes, ExecuteInside, RaiseBlock
  <1> QED
    BY <1>2, <1>3 DEF WriteProv, ExecuteOne

-----------------------------------------------------------------------------
(* The ends of a block.                                                    *)
LEMMA EndBlock ==
  ASSUME CtlInv, BlockOK, NEW c \in Calls, Commit(c) \/ Undo(c)
  PROVE  BlockOK'
  <1>1. Live(c) /\ inTxn /\ pc[c] \in InBlock
    BY DEF Commit, Undo, Live, Past, BlockOK, InBlock
  <1>2. Alone(c) /\ pc'[c] = "done" /\ call' = call
    BY FinishAlone DEF Commit, Undo, CommitStep
  <1>3. \/ RollbackWork
        \/ pc[c] = "commit" /\ CommitWork
        \/ inTxn' = TRUE /\ UNCHANGED <<disk, work>>
    BY <1>1 DEF Commit, Undo, CommitStep, dbVars, CtlInv, TypeOK
  <1> QED
    BY <1>1, <1>2, <1>3, LeaveBlock

(* Without create_session no call is ever at one of its steps.             *)
LEMMA NoCreateSteps ==
  ASSUME CtlInv, NoCreate, NEW c \in Calls
  PROVE  ~InsertSessionRow(c) /\ ~CommitSession(c) /\ ~CancelCreate(c) /\ ~CreateSession(c)
  BY DEF CtlInv, OpOK, OpAt, NoCreate, InsertSessionRow, CommitSession, CancelCreate,
         CreateSession

LEMMA CancelBlock ==
  ASSUME CtlInv, BlockOK, NoCreate, NEW c \in Calls, Cancel(c)
  PROVE  BlockOK'
  <1>1. CASE CancelWaiting(c)
    <2>1. ~Live(c) /\ Finish(c, "cancelled") /\ UNCHANGED dbVars
      BY <1>1 DEF CancelWaiting, Live, Past, Waiting, Body
    <2> QED
      BY <2>1, FinishBlock
  <1>2. CASE CancelBegin(c)
    <2>1. pc[c] = "begin" /\ Finish(c, "cancelled") /\ UNCHANGED <<disk, work>>
      BY <1>2 DEF CancelBegin
    <2>2. CASE inTxn' = TRUE
      <3>1. Alone(c) /\ pc'[c] = "done" /\ call' = call
        BY <2>1, FinishAlone
      <3>2. pc[c] \in InBlock
        BY <2>1 DEF InBlock
      <3> QED
        BY <2>1, <2>2, <3>1, <3>2, LeaveBlock
    <2>3. CASE UNCHANGED inTxn
      <3>1. ~Live(c) /\ UNCHANGED dbVars
        BY <2>1, <2>3 DEF Live, Past, Body, dbVars
      <3> QED
        BY <2>1, <3>1, FinishBlock
    <2> QED
      BY <1>2, <2>2, <2>3 DEF CancelBegin
  <1>3. CASE CancelBody(c)
    <2>1. Past(c) /\ Raise(c, "cancelled") /\ UNCHANGED dbVars
      BY <1>3 DEF CancelBody, Past
    <2>2. SameShape(work)
      BY SameShapes
    <2> QED
      BY <2>1, <2>2, RaiseBlock DEF dbVars
  <1>4. CASE CancelEnd(c)
    <2>1. Live(c) /\ inTxn /\ pc[c] \in InBlock
      BY <1>4 DEF CancelEnd, Live, Past, BlockOK, InBlock
    <2>2. Alone(c) /\ pc'[c] = "done" /\ call' = call
      BY <1>4, FinishAlone DEF CancelEnd
    <2>3. \/ RollbackWork
          \/ pc[c] = "commit" /\ CommitWork
          \/ inTxn' = TRUE /\ UNCHANGED <<disk, work>>
      BY <1>4, <2>1 DEF CancelEnd, dbVars, CtlInv, TypeOK
    <2> QED
      BY <2>1, <2>2, <2>3, LeaveBlock
  <1> QED
    BY <1>1, <1>2, <1>3, <1>4, NoCreateSteps DEF Cancel

LEMMA StepBlock ==
  ASSUME CtlInv, BlockOK, NoCreate, NEW c \in Calls, Step(c)
  PROVE  BlockOK'
  BY WayBlock, ReadHeadBlock, BeginBlock, UnitsBlock, SnapshotBlock, LinksBlock,
     CopyBlock, HeadBlock, ProvBlock, HopsBlock, EndBlock, NoCreateSteps DEF Step

(***************************************************************************)
(* The arguments of the calls.                                             *)
(***************************************************************************)
LEMMA RequestArgs ==
  ASSUME CtlInv, ArgsOK, NoCreate, NEW c \in Calls, Request(c)
  PROVE  ArgsOK' /\ Alone(c) /\ UNCHANGED <<disk, result>> /\ pc[c] = "idle"
  <1>1. PICK rec, next :
          /\ Invoke(c, rec, next) /\ next # "idle" /\ rec.op # "create"
          /\ rec.op = "snapshot" => rec.target = None
          /\ rec.op = "provenance" => rec.trace \in Traces
    <2>1. CASE Snapshot(c)
      BY <2>1 DEF Snapshot, NewCall
    <2>2. CASE Rollback(c)
      BY <2>2 DEF Rollback, NewCall
    <2>3. CASE WriteProvenance(c)
      <3>1. PICK u \in Units, tr \in Traces :
              Invoke(c, [NewCall("provenance", c) EXCEPT !.unit = u, !.trace = tr], "check")
        BY <2>3 DEF WriteProvenance
      <3> DEFINE rec == [NewCall("provenance", c) EXCEPT !.unit = u, !.trace = tr]
      <3>2. rec.op = "provenance" /\ rec.trace = tr
        BY DEF NewCall
      <3>3. Invoke(c, rec, "check")
        BY <3>1
      <3> HIDE DEF rec
      <3> QED
        BY <3>2, <3>3
    <2> QED
      BY <2>1, <2>2, <2>3, NoCreateSteps DEF Request
  <1>2. /\ Alone(c) /\ UNCHANGED <<disk, result>> /\ pc[c] = "idle"
        /\ pc'[c] = next /\ call'[c] = rec
    BY <1>1 DEF Invoke, Alone, CtlInv, TypeOK
  <1>3. ArgsOK'
    BY <1>1, <1>2 DEF ArgsOK, Alone
  <1> QED
    BY <1>2, <1>3

(* The file changes at a COMMIT only, which answers with no error.         *)
Quiet(c) == disk' = disk /\ (result'[c] = "ok" => result[c] = "ok")

Commits(c) ==
  /\ pc[c] = "commit" /\ CommitWork
  /\ \E r \in {"ok", "cancelled"} : Finish(c, r)

Advances(c) ==
  /\ Alone(c) /\ \A d \in Calls : Fixed(d)
  /\ pc[c] \notin {"idle", "done"} /\ pc'[c] # "idle"
  /\ Quiet(c) \/ Commits(c)

LEMMA StepAdvances ==
  ASSUME CtlInv, BlockOK, NoCreate, NEW c \in Calls, Step(c)
  PROVE  Advances(c)
  <1> USE DEF Advances, Quiet
  <1>1. ASSUME NEW next, next # "idle", pc[c] \notin {"idle", "done"},
               Goto(c, next), disk' = disk
        PROVE  Advances(c)
    BY <1>1, GotoAlone DEF Fixed
  <1>2. ASSUME NEW r, r # "ok" \/ r = result[c], pc[c] \notin {"idle", "done"},
               Raise(c, r) \/ Finish(c, r), disk' = disk
        PROVE  Advances(c)
    BY <1>2, RaiseAlone, FinishAlone DEF Fixed
  <1>3. CASE LockSession(c) \/ LockTxn(c)
    BY <1>3, LockAlone DEF LockSession, LockTxn, Fixed
  <1>4. CASE ReadHead(c)
    <2>1. pc[c] = "read_head" /\ disk' = disk
      BY <1>4 DEF ReadHead, dbVars
    <2> QED
      BY <1>2, <1>4, <2>1, ReadHeadAlone
  <1>5. CASE Begin(c)
    <2>1. FirstStatement(c) # "idle"
      <3>1. call[c].op \in {"snapshot", "rollback", "provenance"}
        BY <1>5 DEF Begin, CtlInv, OpOK, OpAt, TypeOK, CallRecord, OpKinds
      <3> QED
        BY <3>1 DEF FirstStatement
    <2> QED
      BY <1>1, <1>2, <1>5, <2>1 DEF Begin
  <1>6. CASE ReadTarget(c) \/ Check(c)
    BY <1>1, <1>2, <1>6 DEF ReadTarget, Check, dbVars
  <1>7. ASSUME NEW db, Execute(db), pc[c] \in Body PROVE disk' = disk
    BY <1>7, ExecuteInside DEF Live, Past
  <1>8. CASE WriteUnits(c) \/ WriteLinks(c) \/ WriteHops(c)
    <2>1. pc[c] \in Body /\ pc[c] \notin {"idle", "done"}
      BY <1>8 DEF WriteUnits, WriteLinks, WriteHops, Body
    <2> QED
      BY <1>1, <1>2, <1>7, <1>8, <2>1 DEF WriteUnits, WriteLinks, WriteHops, ExecuteMany
  <1>9. CASE WriteSnapshot(c) \/ WriteCopy(c) \/ WriteHead(c) \/ WriteProv(c)
    <2>1. pc[c] \in Body /\ pc[c] \notin {"idle", "done"}
      BY <1>9 DEF WriteSnapshot, WriteCopy, WriteHead, WriteProv, Body
    <2> QED
      BY <1>1, <1>2, <1>7, <1>9, <2>1
      DEF WriteSnapshot, WriteCopy, WriteHead, WriteProv, ExecuteOne
  <1>10. CASE Commit(c) \/ Undo(c)
    <2>1. Alone(c) /\ pc'[c] = "done" /\ call' = call
      BY <1>10, FinishAlone DEF Commit, Undo, CommitStep
    <2>2. pc[c] \in {"commit", "undo"} /\ \A d \in Calls : Fixed(d)
      BY <1>10, <2>1 DEF Commit, Undo, Fixed
    <2>3. CASE CommitWork /\ Finish(c, "ok") /\ Commit(c)
      BY <2>1, <2>2, <2>3 DEF Commit, Commits
    <2>4. CASE disk' = disk /\ \E r : (r # "ok" \/ r = result[c]) /\ Finish(c, r)
      BY <1>2, <2>2, <2>4
    <2> QED
      BY <1>10, <2>3, <2>4 DEF Commit, Undo, CommitStep, dbVars, RollbackWork
  <1> QED
    BY <1>3, <1>4, <1>5, <1>6, <1>8, <1>9, <1>10, NoCreateSteps DEF Step

LEMMA CancelAdvances ==
  ASSUME CtlInv, NoCreate, NEW c \in Calls, Cancel(c)
  PROVE  Advances(c)
  <1>1. pc[c] \notin {"idle", "done"}
    BY NoCreateSteps DEF Cancel, CancelWaiting, CancelBegin, CancelBody, CancelEnd,
       Waiting, Body
  <1>2. \/ Raise(c, "cancelled") /\ disk' = disk
        \/ Finish(c, "cancelled") /\ disk' = disk
        \/ Finish(c, "cancelled") /\ pc[c] = "commit" /\ CommitWork
    BY NoCreateSteps DEF Cancel, CancelWaiting, CancelBegin, CancelBody, CancelEnd,
       dbVars, RollbackWork
  <1> QED
    BY <1>1, <1>2, RaiseAlone, FinishAlone DEF Advances, Quiet, Commits, Fixed

(* ArgsOK speaks of what Fixed keeps.                                      *)
LEMMA FixedArgs ==
  ASSUME CtlInv, ArgsOK, NEW c \in Calls, Advances(c)
  PROVE  ArgsOK'
  BY DEF ArgsOK, Advances, Alone, Fixed

-----------------------------------------------------------------------------
(***************************************************************************)
(* The file between two commits.                                           *)
(***************************************************************************)
Calm ==
  /\ disk' = disk
  /\ \A d \in Calls :
       /\ pc[d] = "done" => pc'[d] = "done" /\ result'[d] = result[d] /\ Fixed(d)
       /\ result'[d] = "ok" => result[d] = "ok" /\ Fixed(d)

FileParts == FileOK /\ AllOrNothing /\ SingleChain

(* The call that owns a row has returned.                                  *)
LEMMA OwnersDone ==
  ASSUME CtlInv, FileOK
  PROVE  /\ \A r \in disk.snaps : r.id \in Calls /\ Kept(r.id) /\ pc[r.id] = "done"
         /\ \A p \in disk.provs : p[1] \in Calls /\ Kept(p[1]) /\ pc[p[1]] = "done"
  <1>1. disk.snaps \subseteq SnapshotRow /\ disk.provs \subseteq Calls \X Units
    BY DEF CtlInv, TypeOK, DB
  <1>2. ASSUME NEW r \in disk.snaps PROVE r.id \in Calls /\ Kept(r.id)
    BY <1>1, <1>2 DEF Kept, HasSnapshot, SnapshotRow
  <1>3. ASSUME NEW p \in disk.provs PROVE p[1] \in Calls /\ Kept(p[1])
    BY <1>1, <1>3 DEF Kept
  <1> QED
    BY <1>2, <1>3 DEF FileOK

LEMMA CalmFile ==
  ASSUME CtlInv, FileParts, Calm
  PROVE  FileParts'
  <1>1. FileOK'
    <2>1. ASSUME NEW d \in Calls PROVE Kept(d)' <=> Kept(d)
      BY DEF Calm, Kept, HasSnapshot
    <2>2. ASSUME NEW d \in Calls
          PROVE  /\ Kept(d)' => pc'[d] = "done" /\ result'[d] # "error"
                 /\ HasSnapshot(disk, d) => call'[d].op = call[d].op
                                            /\ call'[d].target = call[d].target
      BY <2>1 DEF FileParts, FileOK, Calm, Fixed, Kept
    <2>3. ASSUME NEW d \in Calls, result'[d] = "ok" PROVE Stored(d)'
      BY <2>3 DEF FileParts, FileOK, Calm, Fixed, Stored, HasSnapshot, HasSession
    <2> QED
      BY <2>2, <2>3 DEF FileParts, FileOK, Calm, HasSnapshot
  <1>2. AllOrNothing'
    <2>1. ASSUME NEW r \in disk.snaps PROVE Expected(r.id)' = Expected(r.id)
      <3>1. r.id \in Calls /\ pc[r.id] = "done"
        BY OwnersDone DEF FileParts
      <3>2. disk' = disk /\ Fixed(r.id)
        BY <3>1 DEF Calm, Fixed
      <3> QED
        BY <3>2 DEF Fixed, Expected, Members
    <2>2. ASSUME NEW p \in disk.provs PROVE call'[p[1]].trace = call[p[1]].trace
      BY OwnersDone DEF FileParts, Calm, Fixed
    <2>3. SnapshotWhole'
      BY <2>1 DEF FileParts, AllOrNothing, SnapshotWhole, Calm, Members
    <2>4. ProvenanceWhole'
      BY <2>2 DEF FileParts, AllOrNothing, ProvenanceWhole, Calm, Trace
    <2>5. UnitsWhole'
      BY DEF FileParts, AllOrNothing, UnitsWhole, Calm, HasSnapshot
    <2> QED
      BY <2>3, <2>4, <2>5 DEF AllOrNothing
  <1>3. SingleChain'
    BY DEF FileParts, SingleChain, Calm
  <1> QED
    BY <1>1, <1>2, <1>3 DEF FileParts

(***************************************************************************)
(* What a COMMIT adds to the file: a new head, or a provenance record, as  *)
(* a whole and on top of what its session looked like all along.           *)
(***************************************************************************)
Returned(c) ==
  /\ Alone(c) /\ call' = call
  /\ pc'[c] = "done" /\ result'[c] \in {"ok", "cancelled"}
  /\ ~Kept(c)

NewVersion(c) ==
  /\ call[c].op \in Versions
  /\ call[c].parent = disk.heads[call[c].session]
  /\ call[c].op = "rollback" => SnapshotIn(disk, call[c].target, call[c].session)
  /\ disk'.heads = [disk.heads EXCEPT ![call[c].session] = c]
  /\ disk'.snaps = disk.snaps \cup {Row(c)}
  /\ disk'.units = IF call[c].op = "snapshot" THEN Filled(c) ELSE disk.units
  /\ disk'.links = disk.links \cup ({c} \X Expected(c))
  /\ disk'.provs = disk.provs
  /\ disk'.hops = disk.hops

NewRecord(c) ==
  /\ call[c].op = "provenance"
  /\ disk.units[call[c].unit] # None
  /\ disk'.heads = disk.heads
  /\ disk'.snaps = disk.snaps
  /\ disk'.units = disk.units
  /\ disk'.links = disk.links
  /\ disk'.provs = disk.provs \cup {<<c, call[c].unit>>}
  /\ disk'.hops = disk.hops \cup ({c} \X Range(call[c].trace))

LEMMA CommitAdds ==
  ASSUME CtlInv, BlockOK, FileOK, NEW c \in Calls, Commits(c)
  PROVE  Returned(c) /\ (NewVersion(c) \/ NewRecord(c))
  <1>1. pc[c] = "commit" /\ disk' = work /\ Past(c) /\ Live(c)
    BY DEF Commits, CommitWork, Past, Live
  <1>2. Returned(c)
    BY <1>1, FinishAlone DEF Commits, Returned, FileOK
  <1>3. Image(c) /\ Current(c) /\ ~Stuck
    BY <1>1 DEF BlockOK, Stuck
  <1>4. CASE call[c].op = "provenance"
    BY <1>1, <1>2, <1>3, <1>4 DEF Image, RecordImage, NewRecord
  <1>5. CASE call[c].op # "provenance"
    <2>1. call[c].op \in Versions
      BY <1>1, <1>5 DEF CtlInv, TypeOK, CallRecord, OpKinds, OpOK, OpAt, Versions
    <2>2. VersionImage(c)
      BY <1>3, <1>5 DEF Image
    <2>3. HasHead(c) /\ (call[c].op = "rollback" => HasTarget(c))
      BY <1>1, <2>1 DEF HasHead, HasTarget
    <2> QED
      BY <1>1, <1>2, <1>3, <2>1, <2>2, <2>3 DEF VersionImage, Current, NewVersion
  <1> QED
    BY <1>4, <1>5

(* What is fresh about the call that commits.                              *)
LEMMA Fresh ==
  ASSUME CtlInv, FileOK, NEW c \in Calls, Returned(c)
  PROVE  /\ \A r \in disk.snaps : r.id # c
         /\ \A p \in disk.provs : p[1] # c
         /\ Members(disk, c) = {} /\ Trace(disk, c) = {}
  <1>1. /\ \A r \in disk.snaps : r.id # c
        /\ \A p \in disk.provs : p[1] # c
    BY OwnersDone DEF Returned
  <1>2. Members(disk, c) = {}
    BY DEF Returned, Kept, Members
  <1>3. Trace(disk, c) = {}
    BY DEF Returned, Kept, Trace
  <1> QED
    BY <1>1, <1>2, <1>3

(* What the members of a stored snapshot are after the commit.             *)
LEMMA MembersAfter ==
  ASSUME CtlInv, FileOK, NEW c \in Calls, Returned(c), NewVersion(c)
  PROVE  /\ Members(disk', c) = Expected(c) /\ Expected(c) \subseteq Units
         /\ \A d \in Calls : d # c => Members(disk', d) = Members(disk, d)
  <1>1. Expected(c) \subseteq Units
    <2>1. call[c].units \in Seq(Units)
      BY ListsTyped DEF CtlInv, TypeOK, CallRecord
    <2>2. Range(call[c].units) \subseteq Units
      BY <2>1, RangeTyped
    <2> QED
      BY <2>2 DEF Expected, Members
  <1>2. Members(disk', c) = Members(disk, c) \cup Expected(c)
    BY <1>1 DEF Members, NewVersion
  <1>3. \A d \in Calls : d # c => Members(disk', d) = Members(disk, d)
    BY DEF Members, NewVersion
  <1> QED
    BY <1>1, <1>2, <1>3, Fresh

LEMMA VersionFile ==
  ASSUME IntInv, FileParts, NEW c \in Calls, Returned(c), NewVersion(c)
  PROVE  FileOK' /\ AllOrNothing'
  <1>1. CtlInv /\ FileOK /\ call[c].session \in Sessions /\ c # None
    BY DatabaseAssumption DEF IntInv, FileParts, CtlInv, TypeOK, CallRecord
  <1>2. /\ disk.snaps \subseteq disk'.snaps /\ disk'.provs = disk.provs
        /\ \A r \in disk'.snaps : r \in disk.snaps \/ r = Row(c)
        /\ Row(c) \in disk'.snaps /\ Row(c).id = c /\ Row(c).session = call[c].session
    BY DEF NewVersion, Row
  <1>3. FileOK'
    <2>1. ASSUME NEW d \in Calls, Kept(d)' PROVE d = c \/ Kept(d)
      BY <1>2, <2>1 DEF Kept, HasSnapshot, NewVersion, Row
    <2>2. HasSnapshot(disk', c)
      BY <1>2 DEF HasSnapshot
    <2>3. ASSUME NEW d \in Calls, HasSnapshot(disk', d), d # c PROVE HasSnapshot(disk, d)
      BY <1>2, <2>3 DEF HasSnapshot
    <2>4. ASSUME NEW d \in Calls, HasSnapshot(disk, d) PROVE HasSnapshot(disk', d)
      BY <1>2, <2>4 DEF HasSnapshot
    <2>5. ASSUME NEW d \in Calls
          PROVE  /\ Kept(d)' => pc'[d] = "done" /\ result'[d] # "error"
                 /\ HasSnapshot(disk', d) => call'[d].op \in Versions
                 /\ HasSnapshot(disk', d) /\ call'[d].op = "rollback" =>
                      HasSnapshot(disk', call'[d].target)
      <3>1. CASE d = c
        <4>1. call[c].op = "rollback" => HasSnapshot(disk', call[c].target)
          BY <1>2 DEF NewVersion, SnapshotIn, HasSnapshot
        <4> QED
          BY <3>1, <4>1 DEF Returned, NewVersion
      <3>2. CASE d # c
        <4>1. call[d].target \in Calls \cup {None}
          BY <1>1 DEF CtlInv, TypeOK, CallRecord
        <4>2. HasSnapshot(disk, call[d].target) => HasSnapshot(disk', call[d].target)
          BY <1>2 DEF HasSnapshot
        <4> QED
          BY <1>1, <2>1, <2>3, <3>2, <4>2 DEF Returned, Alone, FileOK
      <3> QED
        BY <3>1, <3>2
    <2>6. ASSUME NEW d \in Calls, result'[d] = "ok" PROVE Stored(d)'
      <3>1. CASE d = c
        BY <2>2, <3>1 DEF Stored, Returned, NewVersion, Versions
      <3>2. CASE d # c
        <4>1. Stored(d)
          BY <1>1, <2>6, <3>2 DEF FileOK, Returned, Alone
        <4>2. HasSession(disk, d) => HasSession(disk', d)
          BY <1>1, DatabaseAssumption
          DEF NewVersion, HasSession, CtlInv, TypeOK, DB, Sessions
        <4> QED
          BY <1>2, <2>4, <4>1, <4>2 DEF Stored, Returned
      <3> QED
        BY <3>1, <3>2
    <2> QED
      BY <2>5, <2>6 DEF FileOK
  <1>4. SnapshotWhole'
    <2>1. /\ Members(disk', c) = Expected(c) /\ Expected(c) \subseteq Units
          /\ \A d \in Calls : d # c => Members(disk', d) = Members(disk, d)
      BY <1>1, MembersAfter
    <2>2. \A u \in Units : disk.units[u] # None => disk'.units[u] # None
      BY <1>1 DEF NewVersion, Filled
    <2>3. ASSUME NEW r \in disk.snaps
          PROVE  /\ Members(disk', r.id) = Expected(r.id)'
                 /\ \A u \in Members(disk', r.id) : disk'.units[u] # None
      <3>1. r.id \in Calls /\ r.id # c /\ HasSnapshot(disk, r.id)
        BY <1>1, OwnersDone, Fresh DEF HasSnapshot
      <3>2. Members(disk', r.id) = Members(disk, r.id)
        BY <2>1, <3>1
      <3>3. Expected(r.id)' = Expected(r.id)
        <4>1. CASE call[r.id].op = "rollback"
          <5>1. HasSnapshot(disk, call[r.id].target) /\ call[r.id].target \in Calls
            BY <1>1, <3>1, <4>1 DEF FileOK, CtlInv, OpOK
          <5>2. call[r.id].target # c
            BY <1>1, <5>1, Fresh DEF HasSnapshot
          <5> QED
            BY <2>1, <4>1, <5>1, <5>2 DEF Expected, Returned
        <4>2. CASE call[r.id].op # "rollback"
          BY <4>2 DEF Expected, Returned
        <4> QED
          BY <4>1, <4>2
      <3>4. \A u \in Members(disk', r.id) : disk'.units[u] # None
        BY <2>2, <3>2 DEF FileParts, AllOrNothing, SnapshotWhole, Members
      <3> QED
        BY <3>2, <3>3, <3>4 DEF FileParts, AllOrNothing, SnapshotWhole
    <2>4. Members(disk', c) = Expected(c)' /\ \A u \in Members(disk', c) : disk'.units[u] # None
      <3>1. CASE call[c].op = "rollback"
        <4>1. PICK t \in disk.snaps : t.id = call[c].target
          BY <3>1 DEF NewVersion, SnapshotIn
        <4>2. t.id \in Calls /\ t.id # c
          BY <1>1, OwnersDone, Fresh
        <4>3. Expected(c) = Members(disk, t.id) /\ Expected(c)' = Members(disk', t.id)
          BY <3>1, <4>1 DEF Expected, Returned
        <4> QED
          BY <2>1, <2>3, <4>2, <4>3
      <3>2. CASE call[c].op # "rollback"
        <4>1. Expected(c)' = Expected(c) /\ Expected(c) = Range(call[c].units)
          BY <3>2 DEF Expected, Returned
        <4>2. disk'.units = Filled(c)
          BY <3>2 DEF NewVersion, Versions
        <4> QED
          BY <1>1, <2>1, <4>1, <4>2 DEF Filled
      <3> QED
        BY <3>1, <3>2
    <2> QED
      BY <1>2, <2>3, <2>4 DEF SnapshotWhole
  <1>5. ProvenanceWhole'
    BY DEF FileParts, AllOrNothing, ProvenanceWhole, Trace, NewVersion, Returned
  <1>6. UnitsWhole'
    <2>1. ASSUME NEW u \in Units, disk'.units[u] # None
          PROVE  HasSnapshot(disk', disk'.units[u])
      <3>1. disk'.units[u] = c \/ disk'.units[u] = disk.units[u]
        BY DEF NewVersion, Filled
      <3>2. CASE disk'.units[u] = c
        BY <1>2, <3>2 DEF HasSnapshot
      <3>3. CASE disk'.units[u] = disk.units[u]
        BY <1>2, <2>1, <3>3 DEF FileParts, AllOrNothing, UnitsWhole, HasSnapshot
      <3> QED
        BY <3>1, <3>2, <3>3
    <2> QED
      BY <2>1 DEF UnitsWhole
  <1> QED
    BY <1>3, <1>4, <1>5, <1>6 DEF AllOrNothing

LEMMA VersionChain ==
  ASSUME IntInv, FileParts, NoCreate, NEW c \in Calls, Returned(c), NewVersion(c)
  PROVE  SingleChain'
  <1> DEFINE s == call[c].session
  <1>1. /\ CtlInv /\ FileOK /\ SingleChain /\ s \in Sessions /\ c # None
        /\ HeadsResolve(disk) /\ ParentsResolve(disk)
    BY DatabaseAssumption
    DEF IntInv, TablePart, HeadPart, Sound, NoDiscard, NoCreate, FileParts, CtlInv,
        TypeOK, CallRecord
  <1>2. /\ disk'.snaps = disk.snaps \cup {Row(c)}
        /\ disk'.heads = [disk.heads EXCEPT ![s] = c]
        /\ Row(c) = [id |-> c, session |-> s, parent |-> disk.heads[s]]
    BY DEF NewVersion, Row
  <1>3. disk.heads \in [Sessions -> Calls \cup {None, Absent}]
        /\ disk.snaps \subseteq SnapshotRow
    BY <1>1 DEF CtlInv, TypeOK, DB
  <1>4. \A r \in disk.snaps : r.id # c /\ r.parent # c /\ r.session \in Sessions
    BY <1>1, <1>3, Fresh DEF ParentsResolve, SnapshotIn, SnapshotRow
  <1>5. disk.heads[s] # c
    BY <1>1, <1>4 DEF HeadsResolve, SnapshotIn
  <1> HIDE DEF s
  <1>6. ASSUME NEW r1 \in disk'.snaps, NEW r2 \in disk'.snaps,
               r1.session = r2.session, r1.parent = r2.parent
        PROVE  r1 = r2
    BY <1>1, <1>2, <1>6 DEF SingleChain
  <1>7. ASSUME NEW r \in disk'.snaps
        PROVE  /\ r.parent # disk'.heads[r.session]
               /\ \/ r.id = disk'.heads[r.session]
                  \/ \E r2 \in disk'.snaps : r2.parent = r.id /\ r2.session = r.session
    <2>1. CASE r = Row(c)
      BY <1>1, <1>2, <1>3, <1>5, <2>1
    <2>2. CASE r \in disk.snaps /\ r.session # s
      <3>1. disk'.heads[r.session] = disk.heads[r.session]
        BY <1>2, <1>3, <1>4, <2>2
      <3> QED
        BY <1>1, <1>2, <2>2, <3>1 DEF SingleChain
    <2>3. CASE r \in disk.snaps /\ r.session = s
      <3>1. disk'.heads[r.session] = c
        BY <1>1, <1>2, <1>3, <2>3
      <3>2. CASE r.id = disk.heads[s]
        <4>1. Row(c) \in disk'.snaps /\ Row(c).parent = r.id /\ Row(c).session = r.session
          BY <1>2, <2>3, <3>2
        <4> QED
          BY <1>4, <2>3, <3>1, <4>1
      <3>3. CASE r.id # disk.heads[s]
        <4>1. PICK r2 \in disk.snaps : r2.parent = r.id /\ r2.session = r.session
          BY <1>1, <2>3, <3>3 DEF SingleChain
        <4> QED
          BY <1>2, <1>4, <2>3, <3>1, <4>1
      <3> QED
        BY <3>2, <3>3
    <2> QED
      BY <1>2, <2>1, <2>2, <2>3
  <1> QED
    BY <1>6, <1>7 DEF SingleChain

LEMMA RecordFile ==
  ASSUME IntInv, FileParts, NEW c \in Calls, Returned(c), NewRecord(c)
  PROVE  FileParts'
  <1>1. CtlInv /\ FileOK /\ call[c].unit \in Units
    BY DEF IntInv, FileParts, CtlInv, OpOK, NewRecord
  <1>2. FileOK'
    <2>1. ASSUME NEW d \in Calls, Kept(d)' PROVE d = c \/ Kept(d)
      <3>1. \A h \in disk'.hops : h \in disk.hops \/ h[1] = c
        BY DEF NewRecord
      <3>2. \A u \in Units : <<d, u>> \in disk'.provs => d = c \/ <<d, u>> \in disk.provs
        BY DEF NewRecord
      <3> QED
        BY <2>1, <3>1, <3>2 DEF Kept, HasSnapshot, NewRecord
    <2>2. ASSUME NEW d \in Calls, d # c
          PROVE  /\ Kept(d)' => pc'[d] = "done" /\ result'[d] # "error"
                 /\ result'[d] = "ok" => Stored(d)'
      BY <1>1, <2>1, <2>2
      DEF FileOK, Returned, Alone, Stored, NewRecord, HasSession, HasSnapshot
    <2>3. Stored(c)'
      BY <1>1 DEF Stored, NewRecord, Returned
    <2> QED
      BY <1>1, <2>2, <2>3 DEF FileOK, Returned, NewRecord, HasSnapshot
  <1>3. SnapshotWhole' /\ UnitsWhole'
    BY DEF FileParts, AllOrNothing, SnapshotWhole, UnitsWhole, Expected, Members,
           HasSnapshot, NewRecord, Returned
  <1>4. ProvenanceWhole'
    <2>1. Trace(disk', c) = Trace(disk, c) \cup Range(call[c].trace)
      <3> DEFINE tr == Range(call[c].trace)
      <3>1. disk'.hops = disk.hops \cup ({c} \X tr)
        BY DEF NewRecord
      <3> HIDE DEF tr
      <3>2. ASSUME NEW k \in tr PROVE k \in Trace(disk', c)
        <4>1. <<c, k>> \in disk'.hops /\ <<c, k>>[1] = c /\ <<c, k>>[2] = k
          BY <3>1, <3>2
        <4> QED
          BY <4>1 DEF Trace
      <3>3. Trace(disk, c) \subseteq Trace(disk', c)
        BY <3>1 DEF Trace
      <3>4. Trace(disk', c) \subseteq Trace(disk, c) \cup tr
        BY <3>1 DEF Trace
      <3> QED
        BY <3>2, <3>3, <3>4 DEF tr
    <2>2. ASSUME NEW p \in disk.provs PROVE Trace(disk', p[1]) = Trace(disk, p[1])
      <3>1. p[1] # c
        BY <1>1, Fresh
      <3> QED
        BY <3>1 DEF Trace, NewRecord
    <2>3. Trace(disk, c) = {}
      BY <1>1, Fresh
    <2> QED
      BY <2>1, <2>2, <2>3
      DEF FileParts, AllOrNothing, ProvenanceWhole, NewRecord, Returned
  <1>5. SingleChain'
    BY DEF FileParts, SingleChain, NewRecord
  <1> QED
    BY <1>2, <1>3, <1>4, <1>5 DEF FileParts, AllOrNothing

-----------------------------------------------------------------------------
(***************************************************************************)
(* The invariant, and how the file moves: not at all, or by one commit.    *)
(***************************************************************************)
LEMMA AtomInit == Init => AtomInv
  <1> SUFFICES ASSUME Init PROVE AtomInv
    OBVIOUS
  <1>1. IntInv
    BY IntInit
  <1>2. ArgsOK /\ BlockOK
    BY DEF Init, NewCall, ArgsOK, BlockOK, Live, Past, Body, Current, HasHead, HasTarget
  <1>3. FileOK
    BY DEF Init, EmptyDB, FileOK, Kept, HasSnapshot
  <1>4. AllOrNothing
    BY DEF Init, EmptyDB, AllOrNothing, SnapshotWhole, ProvenanceWhole, UnitsWhole
  <1>5. SingleChain
    BY DEF Init, EmptyDB, SingleChain
  <1> QED
    BY <1>1, <1>2, <1>3, <1>4, <1>5 DEF AtomInv

LEMMA RequestCalm ==
  ASSUME CtlInv, ArgsOK, NoCreate, NEW c \in Calls, Request(c)
  PROVE  Calm
  <1>1. Alone(c) /\ UNCHANGED <<disk, result>> /\ pc[c] = "idle"
    BY RequestArgs
  <1> QED
    BY <1>1 DEF Calm, Alone, Fixed, ArgsOK

LEMMA CrashCalm ==
  ASSUME Crash
  PROVE  Calm
  BY DEF Crash, RollbackWork, InProgress, Calm, Fixed

LEMMA QuietCalm ==
  ASSUME NEW c \in Calls, Advances(c), Quiet(c)
  PROVE  Calm
  <1>1. ASSUME NEW d \in Calls, pc[d] = "done"
        PROVE  pc'[d] = "done" /\ result'[d] = result[d] /\ Fixed(d)
    BY <1>1 DEF Advances, Alone
  <1>2. ASSUME NEW d \in Calls, result'[d] = "ok"
        PROVE  result[d] = "ok" /\ Fixed(d)
    BY <1>2 DEF Advances, Alone, Quiet
  <1>3. disk' = disk
    BY DEF Quiet
  <1> QED
    BY <1>1, <1>2, <1>3, Zenon DEF Calm, Fixed

LEMMA FileMoves ==
  ASSUME AtomInv, NoCreate, [Next]_vars
  PROVE  Calm \/ \E c \in Calls : Returned(c) /\ (NewVersion(c) \/ NewRecord(c))
  <1>1. CtlInv /\ ArgsOK /\ BlockOK /\ FileOK
    BY DEF AtomInv, IntInv
  <1>2. ASSUME NEW c \in Calls, Step(c) \/ Cancel(c)
        PROVE  Calm \/ (Returned(c) /\ (NewVersion(c) \/ NewRecord(c)))
    <2>1. Advances(c)
      BY <1>1, <1>2, StepAdvances, CancelAdvances
    <2>2. CASE Quiet(c)
      BY <2>1, <2>2, QuietCalm
    <2>3. CASE Commits(c)
      BY <1>1, <2>3, CommitAdds
    <2> QED
      BY <2>1, <2>2, <2>3 DEF Advances
  <1>3. CASE UNCHANGED vars
    BY <1>3 DEF vars, Calm, Fixed
  <1> QED
    BY <1>1, <1>2, <1>3, RequestCalm, CrashCalm DEF Next, Terminating

LEMMA ArgsNext ==
  ASSUME AtomInv, NoCreate, [Next]_vars
  PROVE  ArgsOK'
  <1>1. CtlInv /\ ArgsOK /\ BlockOK
    BY DEF AtomInv, IntInv
  <1>2. CASE Crash
    BY <1>1, <1>2 DEF Crash, InProgress, ArgsOK
  <1>3. CASE UNCHANGED vars
    BY <1>1, <1>3 DEF vars, ArgsOK
  <1>4. ASSUME NEW c \in Calls, Request(c) \/ Step(c) \/ Cancel(c) PROVE ArgsOK'
    BY <1>1, <1>4, RequestArgs, StepAdvances, CancelAdvances, FixedArgs
  <1> QED
    BY <1>2, <1>3, <1>4 DEF Next, Terminating

LEMMA BlockNext ==
  ASSUME AtomInv, NoCreate, [Next]_vars
  PROVE  BlockOK'
  <1>1. CtlInv /\ BlockOK
    BY DEF AtomInv, IntInv
  <1>2. CASE UNCHANGED vars
    <2>1. Stuck' <=> Stuck
      BY <1>2 DEF vars, Stuck, Live, Past
    <2>2. ASSUME NEW d \in Calls
          PROVE  /\ Live(d)' => inTxn' /\ Apart(d)'
                 /\ Past(d)' => Image(d)'
                 /\ Current(d)'
      <3>1. Live(d)' => inTxn' /\ Apart(d)'
        BY <1>1, <1>2 DEF vars, BlockOK, Live, Past, Apart
      <3>2. Past(d)' => Image(d)'
        BY <1>1, <1>2 DEF vars, BlockOK, Past, Image, RecordImage, VersionImage, Row,
                          Filled, Expected, Members
      <3>3. Current(d)'
        BY <1>1, <1>2, <2>1 DEF vars, BlockOK, Current, HasHead, HasTarget, Past, SnapshotIn
      <3> QED
        BY <3>1, <3>2, <3>3
    <2> QED
      BY <1>1, <1>2, <2>2 DEF vars, BlockOK
  <1> QED
    BY <1>1, <1>2, CrashBlock, RequestBlock, StepBlock, CancelBlock DEF Next, Terminating

LEMMA AtomNext ==
  ASSUME NoCreate
  PROVE  AtomInv /\ [Next]_vars => AtomInv'
  <1> SUFFICES ASSUME AtomInv, [Next]_vars PROVE AtomInv'
    OBVIOUS
  <1>1. IntInv' /\ ArgsOK' /\ BlockOK'
    BY IntNext, ArgsNext, BlockNext DEF AtomInv
  <1>2. IntInv /\ CtlInv /\ FileParts
    BY DEF AtomInv, IntInv, FileParts
  <1>3. ASSUME Calm PROVE FileParts'
    BY <1>2, <1>3, CalmFile
  <1>4. ASSUME NEW c \in Calls, Returned(c), NewVersion(c) \/ NewRecord(c)
        PROVE  FileParts'
    BY <1>2, <1>4, VersionFile, VersionChain, RecordFile DEF FileParts
  <1>5. FileParts'
    BY <1>3, <1>4, FileMoves
  <1> QED
    BY <1>1, <1>5 DEF AtomInv, FileParts

LEMMA NoCreateAtom == NoCreate => (Spec => []AtomInv)
  <1> SUFFICES ASSUME NoCreate PROVE Spec => []AtomInv
    OBVIOUS
  <1> QED
    BY AtomInit, AtomNext, PTL DEF Spec

(***************************************************************************)
(* A committed snapshot holds exactly the units it was given, a committed  *)
(* provenance record its whole trace, and no unit comes without its        *)
(* snapshot: for any number of calls, whatever fails or is cancelled.      *)
(***************************************************************************)
THEOREM WritesAtomic == NoCreate => (Spec => []AllOrNothing)
  <1> SUFFICES ASSUME NoCreate PROVE Spec => []AllOrNothing
    OBVIOUS
  <1>1. AtomInv => AllOrNothing
    BY DEF AtomInv
  <1> QED
    BY <1>1, NoCreateAtom, PTL

(***************************************************************************)
(* The snapshots of a session form one chain that ends at its head: calls  *)
(* on one session never branch its history or lose a version, because the  *)
(* head each has read is still the head when it commits.                   *)
(***************************************************************************)
THEOREM HistoryIsChain == NoCreate => (Spec => []SingleChain)
  <1> SUFFICES ASSUME NoCreate PROVE Spec => []SingleChain
    OBVIOUS
  <1>1. AtomInv => SingleChain
    BY DEF AtomInv
  <1> QED
    BY <1>1, NoCreateAtom, PTL

(***************************************************************************)
(* A call that has returned normally is in the file, and stays there       *)
(* through every crash; one that raised an error has left nothing behind.  *)
(***************************************************************************)
THEOREM AnswersTrue == NoCreate => (Spec => []Answers)
  <1> SUFFICES ASSUME NoCreate PROVE Spec => []Answers
    OBVIOUS
  <1>1. ASSUME AtomInv PROVE Answers
    <2>1. ASSUME NEW c \in Calls, result[c] = "error" PROVE ~Stored(c)
      <3>1. call[c].op \in {"snapshot", "rollback", "provenance"}
        BY <1>1, <2>1 DEF AtomInv, ArgsOK, IntInv, CtlInv, TypeOK, CallRecord, OpKinds
      <3>2. ~Kept(c)
        BY <1>1, <2>1 DEF AtomInv, FileOK
      <3> QED
        BY <3>1, <3>2 DEF Kept, Stored
    <2> QED
      BY <1>1, <2>1 DEF AtomInv, FileOK, Answers
  <1> QED
    BY <1>1, NoCreateAtom, PTL

(***************************************************************************)
(* Units and snapshots are write-once: no step changes a stored unit, or   *)
(* the parent or the members of a stored snapshot, or takes a head back.   *)
(***************************************************************************)
LEMMA MovesImmutable ==
  ASSUME NoCreate, AtomInv, [Next]_vars
  PROVE  Immutable
  <1>1. CtlInv /\ FileOK /\ disk \in DB
    BY DEF AtomInv, IntInv, CtlInv, TypeOK
  <1>2. CASE Calm
    BY <1>2 DEF Calm, Immutable, Members
  <1>3. ASSUME NEW c \in Calls, Returned(c), NewRecord(c) PROVE Immutable
    BY <1>3 DEF NewRecord, Immutable, Members
  <1>4. ASSUME NEW c \in Calls, Returned(c), NewVersion(c) PROVE Immutable
    <2>1. \A r \in disk.snaps : Members(disk', r.id) = Members(disk, r.id)
      BY <1>1, <1>4, MembersAfter, OwnersDone, Fresh
    <2>2. \A u \in Units : disk.units[u] # None => disk'.units[u] = disk.units[u]
      BY <1>4 DEF NewVersion, Filled
    <2>3. \A s \in Sessions : disk.heads[s] \in Calls => disk'.heads[s] \in Calls
      BY <1>1, <1>4 DEF NewVersion, DB
    <2> QED
      BY <1>4, <2>1, <2>2, <2>3 DEF NewVersion, Immutable
  <1> QED
    BY <1>2, <1>3, <1>4, FileMoves

THEOREM OnceWritten == NoCreate => (Spec => WriteOnce)
  <1> SUFFICES ASSUME NoCreate PROVE Spec => WriteOnce
    OBVIOUS
  <1> QED
    BY MovesImmutable, NoCreateAtom, PTL DEF Spec, WriteOnce

-----------------------------------------------------------------------------
(***************************************************************************)
(* Refinement: the file moves as the abstract store does.                  *)
(***************************************************************************)
LEMMA StoreInit == Init => Store!Init
  BY DEF Init, Store!Init, RolledBackTo, HasSnapshot, EmptyDB, Store!EmptyDB, Sessions,
         Store!Sessions

LEMMA CalmStutters ==
  ASSUME CtlInv, FileOK, Calm
  PROVE  UNCHANGED <<disk, RolledBackTo>>
  <1>1. disk' = disk
    BY DEF Calm
  <1>2. ASSUME NEW d \in Calls, HasSnapshot(disk, d) PROVE call'[d].target = call[d].target
    <2>1. pc[d] = "done"
      BY <1>2 DEF Kept, FileOK
    <2> QED
      BY <2>1 DEF Calm, Fixed
  <1> QED
    BY <1>1, <1>2 DEF RolledBackTo, HasSnapshot

(* Only the new row can change what the targets of stored rollbacks are.   *)
LEMMA TargetsAfter ==
  ASSUME CtlInv, FileOK, NEW c \in Calls, Returned(c), NewVersion(c)
  PROVE  RolledBackTo' = [RolledBackTo EXCEPT ![c] = call[c].target]
  <1>1. ASSUME NEW d \in Calls
        PROVE  HasSnapshot(disk', d) <=> (d = c \/ HasSnapshot(disk, d))
    <2>1. /\ disk'.snaps = disk.snaps \cup {Row(c)}
          /\ Row(c) \in disk'.snaps /\ Row(c).id = c
      BY DEF NewVersion, Row
    <2> QED
      BY <2>1 DEF HasSnapshot
  <1> QED
    BY <1>1 DEF RolledBackTo, Returned

LEMMA SnapshotSteps ==
  ASSUME AtomInv, CtlInv', NEW c \in Calls, Returned(c), NewVersion(c),
         call[c].op = "snapshot"
  PROVE  Store!TakeSnapshot(c)
  <1> DEFINE s  == call[c].session
             us == Range(call[c].units)
             units == [u \in Units |-> IF u \in us /\ disk.units[u] = None
                                         THEN c ELSE disk.units[u]]
  <1>1. /\ CtlInv /\ FileOK /\ disk \in DB /\ disk' \in DB /\ s \in Sessions
        /\ call[c].target = None
    BY DEF AtomInv, IntInv, CtlInv, TypeOK, CallRecord, ArgsOK
  <1>2. us = Expected(c) /\ us \in SUBSET Units
    BY <1>1, MembersAfter DEF Expected
  <1>3. HasSession(disk, s) /\ ~HasSnapshot(disk, c)
    <2>1. call[c].parent \in Calls \cup {None}
      BY <1>1 DEF CtlInv, TypeOK, CallRecord
    <2> QED
      BY <2>1, DatabaseAssumption DEF NewVersion, HasSession, Returned, Kept
  <1>4. /\ disk'.heads = [disk.heads EXCEPT ![s] = c]
        /\ disk'.snaps = disk.snaps
             \cup {[id |-> c, session |-> s, parent |-> disk.heads[s]]}
        /\ disk'.units = units
        /\ disk'.links = disk.links \cup ({c} \X us)
        /\ disk'.provs = disk.provs /\ disk'.hops = disk.hops
    BY <1>2 DEF NewVersion, Row, Filled
  <1>5. UNCHANGED RolledBackTo
    <2>1. RolledBackTo' = [RolledBackTo EXCEPT ![c] = None] /\ RolledBackTo[c] = None
      BY <1>1, <1>3, TargetsAfter DEF RolledBackTo
    <2> QED
      BY <2>1 DEF RolledBackTo
  <1> HIDE DEF s, us, units
  <1>6. disk' = [disk EXCEPT
                   !.heads[s] = c,
                   !.snaps = @ \cup {[id |-> c, session |-> s, parent |-> disk.heads[s]]},
                   !.units = units,
                   !.links = @ \cup ({c} \X us)]
    BY <1>1, <1>4 DEF DB
  <1>7. Store!Advance(c, s, us, units)
    BY <1>1, <1>3, <1>6
    DEF Store!Advance, Store!HasSession, Store!HasSnapshot, HasSession, HasSnapshot
  <1> QED
    BY <1>1, <1>2, <1>5, <1>7 DEF units, Store!TakeSnapshot, Store!Sessions, Sessions

LEMMA RollbackSteps ==
  ASSUME AtomInv, CtlInv', NEW c \in Calls, Returned(c), NewVersion(c),
         call[c].op = "rollback"
  PROVE  Store!Rollback(c)
  <1> DEFINE s == call[c].session
             us == Members(disk, call[c].target)
  <1>1. CtlInv /\ FileOK /\ disk \in DB /\ disk' \in DB /\ s \in Sessions
    BY DEF AtomInv, IntInv, CtlInv, TypeOK, CallRecord
  <1>2. HasSession(disk, s) /\ ~HasSnapshot(disk, c)
    <2>1. call[c].parent \in Calls \cup {None}
      BY <1>1 DEF CtlInv, TypeOK, CallRecord
    <2> QED
      BY <2>1, DatabaseAssumption DEF NewVersion, HasSession, Returned, Kept
  <1>3. /\ disk'.heads = [disk.heads EXCEPT ![s] = c]
        /\ disk'.snaps = disk.snaps
             \cup {[id |-> c, session |-> s, parent |-> disk.heads[s]]}
        /\ disk'.units = disk.units
        /\ disk'.links = disk.links \cup ({c} \X us)
        /\ disk'.provs = disk.provs /\ disk'.hops = disk.hops
    BY DEF NewVersion, Row, Expected
  <1>4. PICK r \in disk.snaps : r.id = call[c].target /\ r.session = s
    BY DEF NewVersion, SnapshotIn
  <1>5. RolledBackTo' = [RolledBackTo EXCEPT ![c] = r.id]
    BY <1>1, <1>4, TargetsAfter
  <1>6. us = Members(disk, r.id)
    BY <1>4
  <1> HIDE DEF s, us
  <1>7. disk' = [disk EXCEPT
                   !.heads[s] = c,
                   !.snaps = @ \cup {[id |-> c, session |-> s, parent |-> disk.heads[s]]},
                   !.units = disk.units,
                   !.links = @ \cup ({c} \X us)]
    BY <1>1, <1>3 DEF DB
  <1>8. Store!Advance(c, s, us, disk.units)
    BY <1>1, <1>2, <1>7
    DEF Store!Advance, Store!HasSession, Store!HasSnapshot, HasSession, HasSnapshot
  <1> QED
    BY <1>1, <1>4, <1>5, <1>6, <1>8 DEF Store!Rollback, Store!Sessions, Sessions,
                                              Store!Members, Members

LEMMA ProvenanceSteps ==
  ASSUME AtomInv, CtlInv', NEW c \in Calls, Returned(c), NewRecord(c)
  PROVE  Store!RecordProvenance(c)
  <1> DEFINE u  == call[c].unit
             tr == call[c].trace
  <1>1. /\ FileOK /\ disk \in DB /\ disk' \in DB
        /\ u \in Units /\ tr \in Traces /\ disk.units[u] # None
    BY DEF AtomInv, IntInv, CtlInv, TypeOK, OpOK, ArgsOK, NewRecord
  <1> DEFINE hs == Range(tr)
  <1>2. /\ disk'.heads = disk.heads /\ disk'.snaps = disk.snaps
        /\ disk'.units = disk.units /\ disk'.links = disk.links
        /\ disk'.provs = disk.provs \cup {<<c, u>>}
        /\ disk'.hops = disk.hops \cup ({c} \X hs)
    BY DEF NewRecord
  <1>3. UNCHANGED RolledBackTo
    BY DEF RolledBackTo, HasSnapshot, NewRecord, Returned
  <1> HIDE DEF u, tr, hs
  <1>4. disk' = [disk EXCEPT !.provs = @ \cup {<<c, u>>}, !.hops = @ \cup ({c} \X hs)]
    BY <1>1, <1>2 DEF DB
  <1> QED
    BY <1>1, <1>3, <1>4 DEF hs, Store!RecordProvenance, Store!Range, Range

LEMMA StoreNext ==
  ASSUME NoCreate, AtomInv, [Next]_vars
  PROVE  [Store!Next]_<<disk, RolledBackTo>>
  <1>1. CtlInv /\ FileOK /\ CtlInv'
    BY CtlNext DEF AtomInv, IntInv
  <1>2. CASE Calm
    BY <1>1, <1>2, CalmStutters
  <1>3. ASSUME NEW c \in Calls, Returned(c), NewVersion(c) \/ NewRecord(c)
        PROVE  Store!Next
    <2>1. NewVersion(c) => call[c].op \in {"snapshot", "rollback"}
      BY DEF NewVersion, Versions
    <2> QED
      BY <1>1, <1>3, <2>1, SnapshotSteps, RollbackSteps, ProvenanceSteps DEF Store!Next
  <1> QED
    BY <1>2, <1>3, FileMoves

(***************************************************************************)
(* The write path implements the abstract store: seen from the file, every *)
(* call takes effect in one step, at its COMMIT, or not at all.            *)
(***************************************************************************)
THEOREM StoreImplemented == NoCreate => (Spec => Implements)
  <1> SUFFICES ASSUME NoCreate PROVE Spec => Implements
    OBVIOUS
  <1> QED
    BY StoreInit, StoreNext, NoCreateAtom, PTL
    DEF Spec, Implements, Store!Spec, Store!vars
=============================================================================
