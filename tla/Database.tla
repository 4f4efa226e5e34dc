------------------------------ MODULE Database ------------------------------
(***************************************************************************)
(* The SQLite tables of stateforge/storage/sqlite.py (_SCHEMA) as one      *)
(* record, and the effect of each DML statement the backend issues on      *)
(* them.  Columns no property tells apart (labels, timestamps, JSON) are   *)
(* left out.  Ids are uuid4 values generated by the call that inserts the  *)
(* row, so the row a call inserts is identified by the call itself.        *)
(***************************************************************************)
EXTENDS Naturals, Sequences, Functions, FiniteSets

CONSTANTS
  Calls,            \* the calls made through the client; each one runs once
  InitialSessions,  \* sessions committed before the behaviour starts
  Units,            \* ids of memory units (chosen by the caller)
  UnitSession,      \* the session_id a unit carries
  None,             \* SQL NULL
  Absent            \* "no such row"

Sessions == InitialSessions \cup Calls

ASSUME DatabaseAssumption ==
  /\ InitialSessions \cap Calls = {}
  /\ UnitSession \in [Units -> Sessions]
  /\ None \notin Calls
  /\ Absent \notin Calls
  /\ None # Absent

SnapshotRow == [id : Calls, session : Sessions, parent : Calls \cup {None}]

(***************************************************************************)
(* heads[s] is Absent when sessions has no row s, otherwise the row's      *)
(* head_snapshot_id.  units[u] is the call whose content was kept.         *)
(***************************************************************************)
DB == [heads : [Sessions -> Calls \cup {None, Absent}],
       snaps : SUBSET SnapshotRow,
       units : [Units -> Calls \cup {None}],
       links : SUBSET (Calls \X Units),
       provs : SUBSET (Calls \X Units),
       hops  : SUBSET (Calls \X Nat)]

EmptyDB == [heads |-> [s \in Sessions |->
                         IF s \in InitialSessions THEN None ELSE Absent],
            snaps |-> {},
            units |-> [u \in Units |-> None],
            links |-> {},
            provs |-> {},
            hops  |-> {}]

-----------------------------------------------------------------------------
(* Queries.                                                                *)

HasSession(db, s)      == db.heads[s] # Absent
HasSnapshot(db, id)    == \E r \in db.snaps : r.id = id
SnapshotIn(db, id, s)  == \E r \in db.snaps : r.id = id /\ r.session = s
Members(db, id)        == {u \in Units : <<id, u>> \in db.links}
Trace(db, id)          == {h[2] : h \in {x \in db.hops : x[1] = id}}

Parents(db, ids) == {x.parent : x \in {y \in db.snaps : y.id \in ids}} \ {None}

(* The rows the recursive query of walk_parents collects from id when the  *)
(* depth does not cut it: there are at most as many as there are ids.      *)
Ancestry(db, id) ==
  LET Up[k \in 0..Cardinality(Calls)] ==
        IF k = 0 THEN {id} ELSE Up[k - 1] \cup Parents(db, Up[k - 1])
  IN  Up[Cardinality(Calls)]

-----------------------------------------------------------------------------
(***************************************************************************)
(* Statements.  An executemany runs its rows in order, each as a statement *)
(* of its own: when row k+1 fails, the first k rows stay in the            *)
(* transaction.  xs is the list of rows, KeepX the effect of a prefix of   *)
(* it and GoodX(..., k) says that row k meets the constraints.             *)
(***************************************************************************)

Prefix(xs, k) == {xs[i] : i \in 1..k}

(* INSERT INTO sessions: a fresh id never conflicts.                       *)
InsertSession(db, c) == [db EXCEPT !.heads[c] = None]

(* Mutant of KeepUnits: INSERT OR REPLACE.                                 *)
ReplaceUnits(db, c, us) ==
  [db EXCEPT !.units = [u \in Units |-> IF u \in us THEN c ELSE db.units[u]]]

(* INSERT OR IGNORE INTO memory_units: a row whose id exists is skipped,   *)
(* so the stored content is the first one written.  IGNORE does not cover  *)
(* the foreign key on session_id.                                          *)
KeepUnits(db, c, us) ==
  [db EXCEPT !.units = [u \in Units |-> IF u \in us /\ db.units[u] = None
                                        THEN c ELSE db.units[u]]]
GoodUnit(db, xs, k) ==
  db.units[xs[k]] # None \/ HasSession(db, UnitSession[xs[k]])

(* Mutant of GoodSnapshot: PRAGMA foreign_keys left OFF.                   *)
AnySnapshotRow(db, s, p) == TRUE

(* Mutant of InsertSnapshot: the head moves before the units are linked.   *)
InsertSnapshotAsHead(db, c, s, p) ==
  [db EXCEPT !.snaps = @ \cup {[id |-> c, session |-> s, parent |-> p]},
             !.heads[s] = IF @ = Absent THEN Absent ELSE c]

(* INSERT INTO snapshots, with foreign keys on session_id and parent_id.   *)
InsertSnapshot(db, c, s, p) ==
  [db EXCEPT !.snaps = @ \cup {[id |-> c, session |-> s, parent |-> p]}]
GoodSnapshot(db, s, p) ==
  /\ HasSession(db, s)
  /\ p # None => HasSnapshot(db, p)

(* INSERT INTO snapshot_units: (snapshot_id, memory_unit_id) is the        *)
(* primary key, so a unit named twice fails at its second row.             *)
KeepLinks(db, c, us) == [db EXCEPT !.links = @ \cup ({c} \X us)]
GoodLink(db, c, xs, k) ==
  /\ xs[k] \notin Prefix(xs, k - 1)
  /\ HasSnapshot(db, c)
  /\ db.units[xs[k]] # None

(* INSERT INTO snapshot_units SELECT ... WHERE snapshot_id = src.          *)
CopyLinks(db, c, src) == KeepLinks(db, c, Members(db, src))

(* UPDATE sessions SET head_snapshot_id: no foreign key on the column, and *)
(* no effect when the row does not exist.                                  *)
SetHead(db, s, c) ==
  [db EXCEPT !.heads[s] = IF @ = Absent THEN Absent ELSE c]

(* INSERT INTO provenance, with a foreign key on memory_unit_id.           *)
InsertProvenance(db, c, u) == [db EXCEPT !.provs = @ \cup {<<c, u>>}]
GoodProvenance(db, u) == db.units[u] # None

(* INSERT INTO provenance_hop: (provenance_id, hop_index) is the key.      *)
KeepHops(db, c, hs) == [db EXCEPT !.hops = @ \cup ({c} \X hs)]
GoodHop(db, xs, k) == xs[k] \notin Prefix(xs, k - 1)

=============================================================================
