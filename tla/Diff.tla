--------------------------------- MODULE Diff ---------------------------------
(***************************************************************************)
(* stateforge/diff.py: the difference of two snapshots, streamed entry by  *)
(* entry (compute_diff_iter) and collected (compute_diff).  Units of the   *)
(* same (session_id, key, type) are the same logical thing; a snapshot may *)
(* hold several of them and the latest by created_at stands for all.       *)
(***************************************************************************)
EXTENDS Integers, SequencesExt

CONSTANTS
  UnitIds,     \* ids of the stored units; SQLite returns rows in id order
  Identities,  \* values of (session_id, key, type), in sort order
  Times,       \* values of created_at
  Contents     \* values of (value, metadata, embedding)

ASSUME DiffAssumption ==
  /\ UnitIds \subseteq Nat \ {0}
  /\ IsFiniteSet(UnitIds)
  /\ Identities \subseteq Nat
  /\ Times \subseteq Nat

VARIABLES
  unit,     \* the memory_units table
  from,     \* the unit ids of the two snapshots
  to,
  todo,     \* the entries not yet yielded
  diff      \* the MemoryDiff collected so far

diffVars == <<unit, from, to, todo, diff>>

Unit == [identity : Identities, created : Times, content : Contents]

NoDiff == [added |-> <<>>, modified |-> <<>>, removed |-> <<>>]

-----------------------------------------------------------------------------
Ascending(ns) ==
  CHOOSE seq \in SetToSeqs(ns) : \A i, j \in DOMAIN seq : i < j => seq[i] < seq[j]

(* Mutant of SortedByTime: the rows are taken in the order SELECT gives.   *)
SelectOrder(ids) == Ascending(ids)

(* sorted(units, key=created_at) is stable: units created at the same time *)
(* keep the order of the rows.                                             *)
Before(x, y) ==
  \/ unit[x].created < unit[y].created
  \/ unit[x].created = unit[y].created /\ x < y

SortedByTime(ids) ==
  CHOOSE seq \in SetToSeqs(ids) : \A i, j \in DOMAIN seq : i < j => Before(seq[i], seq[j])

(* _identity_map: later units overwrite earlier ones of their identity.    *)
IdentityMap(ids) ==
  LET rows      == SortedByTime(ids)
      Of(i)     == {k \in DOMAIN rows : unit[rows[k]].identity = i}
      Winner(i) == CHOOSE k \in Of(i) : \A j \in Of(i) : j <= k
  IN  [i \in {unit[u].identity : u \in ids} |-> rows[Winner(i)]]

(* Mutant of IsModified: another row counts as a change, whatever it holds.*)
IsOther(before, after) == before # after

IsModified(before, after) == unit[before].content # unit[after].content

Entry(change, i, before, after) ==
  [change |-> change, identity |-> i, before |-> before, after |-> after]

(* compute_diff_iter: added, modified, removed, each sorted by identity.   *)
(* 0 stands for None.                                                      *)
Entries(old, new) ==
  LET fm     == IdentityMap(old)
      tm     == IdentityMap(new)
      common == DOMAIN tm \cap DOMAIN fm
      added  == Ascending(DOMAIN tm \ DOMAIN fm)
      kept   == Ascending({i \in common : IsModified(fm[i], tm[i])})
      gone   == Ascending(DOMAIN fm \ DOMAIN tm)
  IN  [k \in DOMAIN added |-> Entry("added", added[k], 0, tm[added[k]])]
      \o [k \in DOMAIN kept |-> Entry("modified", kept[k], fm[kept[k]], tm[kept[k]])]
      \o [k \in DOMAIN gone |-> Entry("removed", gone[k], fm[gone[k]], 0)]

DiffInit ==
  /\ unit \in [UnitIds -> Unit]
  /\ from \in SUBSET UnitIds
  /\ to \in SUBSET UnitIds
  /\ todo = Entries(from, to)
  /\ diff = NoDiff

(* compute_diff sorts each entry into its list as it arrives.              *)
Collect ==
  /\ todo # <<>>
  /\ LET e == Head(todo) IN
     diff' = CASE e.change = "added"    -> [diff EXCEPT !.added = Append(@, e.after)]
               [] e.change = "removed"  -> [diff EXCEPT !.removed = Append(@, e.before)]
               [] e.change = "modified" ->
                    [diff EXCEPT !.modified = Append(@, <<e.before, e.after>>)]
  /\ todo' = Tail(todo)
  /\ UNCHANGED <<unit, from, to>>

Complete == todo = <<>> /\ UNCHANGED diffVars

DiffNext == Collect \/ Complete

DiffSpec == DiffInit /\ [][DiffNext]_diffVars

-----------------------------------------------------------------------------
(* The unit that stands for identity i in a set of units: none, or one     *)
(* that no other unit of the identity is later than.                       *)
Candidates(ids, i) == {u \in ids : unit[u].identity = i}
Latest(ids, i) ==
  {u \in Candidates(ids, i) : \A v \in Candidates(ids, i) : unit[v].created <= unit[u].created}
LatestContents(ids, i) == {unit[u].content : u \in Latest(ids, i)}

Results == Range(diff.added) \cup {p[2] : p \in Range(diff.modified)}
OfIdentity(ids, i) == {unit[u].content : u \in Candidates(ids, i)}

(* What `from` holds of identity i once the diff has been applied to it.   *)
Patched(i) ==
  IF OfIdentity(Results, i) # {} THEN OfIdentity(Results, i)
  ELSE IF Candidates(Range(diff.removed), i) # {} THEN {}
  ELSE LatestContents(from, i)

(* README "Diff identity": a diff is a patch.  Applied to `from` it gives  *)
(* `to`, identity by identity, the latest unit of each identity counting   *)
(* and an identity that is not reported being the same on both sides.      *)
PatchGivesTo ==
  todo = <<>> =>
    \A i \in Identities :
      /\ Patched(i) = {} <=> Candidates(to, i) = {}
      /\ Patched(i) # {} => Patched(i) \cap LatestContents(to, i) # {}

(* A diff is minimal: no identity is reported twice, none that is on both  *)
(* sides counts as added or removed, and a "modified" pair differs in      *)
(* content, so a unit that was only stored again is not reported.          *)
Minimal ==
  LET reported == diff.added \o diff.removed \o [k \in DOMAIN diff.modified |-> diff.modified[k][2]]
  IN  /\ \A j, k \in DOMAIN reported :
           j # k => unit[reported[j]].identity # unit[reported[k]].identity
      /\ \A u \in Range(diff.added) : Candidates(from, unit[u].identity) = {}
      /\ \A u \in Range(diff.removed) : Candidates(to, unit[u].identity) = {}
      /\ \A p \in Range(diff.modified) :
           /\ unit[p[1]].identity = unit[p[2]].identity
           /\ unit[p[1]].content # unit[p[2]].content
=============================================================================
