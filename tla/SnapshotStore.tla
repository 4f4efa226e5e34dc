--------------------------- MODULE SnapshotStore ----------------------------
(***************************************************************************)
(* What StateForge promises of its file: a store in which taking a         *)
(* snapshot, rolling back, recording provenance and creating a session are *)
(* single, indivisible steps (README "How it works", "Rollback", "Snapshot *)
(* atomicity").  StateForge.tla is shown to implement it.                  *)
(***************************************************************************)
EXTENDS Database

CONSTANT Traces   \* the hop indices of the traces that are recorded

VARIABLES
  db,      \* the tables
  target   \* the snapshot a snapshot was rolled back to, None for the others

vars == <<db, target>>

Init ==
  /\ db = EmptyDB
  /\ target = [id \in Calls |-> None]

(* A new head: a snapshot id of session s whose parent is the current head *)
(* and whose members are us.                                               *)
Advance(id, s, us, units) ==
  /\ HasSession(db, s)
  /\ ~HasSnapshot(db, id)
  /\ db' = [db EXCEPT
              !.heads[s] = id,
              !.snaps = @ \cup {[id |-> id, session |-> s, parent |-> db.heads[s]]},
              !.units = units,
              !.links = @ \cup ({id} \X us)]

(* The content of a unit is the one it was first stored with.              *)
TakeSnapshot(id) ==
  /\ \E s \in Sessions, us \in SUBSET Units :
       Advance(id, s, us,
               [u \in Units |-> IF u \in us /\ db.units[u] = None
                                  THEN id ELSE db.units[u]])
  /\ UNCHANGED target

(* A rollback is a new snapshot that refers to the target's units.         *)
Rollback(id) ==
  \E s \in Sessions : \E r \in db.snaps :
    /\ r.session = s
    /\ Advance(id, s, Members(db, r.id), db.units)
    /\ target' = [target EXCEPT ![id] = r.id]

RecordProvenance(id) ==
  \E u \in Units, tr \in Traces :
    /\ db.units[u] # None
    /\ db' = [db EXCEPT !.provs = @ \cup {<<id, u>>},
                        !.hops = @ \cup ({id} \X Range(tr))]
    /\ UNCHANGED target

CreateSession(id) ==
  /\ ~HasSession(db, id)
  /\ db' = [db EXCEPT !.heads[id] = None]
  /\ UNCHANGED target

Next ==
  \E id \in Calls : \/ TakeSnapshot(id) \/ Rollback(id)
                    \/ RecordProvenance(id) \/ CreateSession(id)

Spec == Init /\ [][Next]_vars
=============================================================================
