----------------------------- MODULE ChainProofs -----------------------------
(***************************************************************************)
(* Lemmas about the chains of parents in the table of snapshots: what the  *)
(* recursive query of walk_parents returns (Ancestry in Database.tla) is   *)
(* the least set of ids that has the first one and the parent of each.     *)
(* The provers have no induction; a property of all steps of the climb is  *)
(* shown by the least step that lacks it, which exists because the sets    *)
(* 0..k are well-founded under strict inclusion.                           *)
(***************************************************************************)
EXTENDS Database, TLAPS, FiniteSetTheorems, WellFoundedInduction

(* A nonempty set of steps has a least one.                                *)
LEMMA LeastStep ==
  ASSUME NEW n \in Nat, NEW T, T \subseteq 0..n, T # {}
  PROVE  \E m \in T : \A k \in T : m <= k
  <1> DEFINE S    == 0..n
             Down == {0..k : k \in T}
             R    == StrictSubsetOrdering(S)
  <1>1. IsFiniteSet(S)
    BY FS_Interval
  <1>2. IsWellFoundedOn(R, SUBSET S)
    <2> HIDE DEF S
    <2>1. FiniteSubsetsOf(S) = SUBSET S
      BY <1>1, FS_FiniteSubsetsOfFinite
    <2>2. IsWellFoundedOn(R, FiniteSubsetsOf(S))
      BY FS_StrictSubsetOrderingWellFounded
    <2> HIDE DEF R
    <2> QED
      BY <2>1, <2>2
  <1>3. Down \subseteq SUBSET S /\ Down # {}
    <2>1. \A k \in T : 0..k \subseteq S
      OBVIOUS
    <2> HIDE DEF S
    <2> QED
      BY <2>1
  <1>4. \E x \in Down : \A y \in Down : ~(<<y, x>> \in R)
    <2> HIDE DEF Down, R
    <2> QED
      BY <1>2, <1>3, WFMin
  <1>5. PICK m \in T : \A y \in Down : ~(<<y, 0..m>> \in R)
    BY <1>4
  <1>6. ASSUME NEW k \in T, k < m PROVE FALSE
    <2>1. 0..k \in Down /\ 0..k \subseteq S /\ 0..m \subseteq S
      BY <1>3
    <2>2. 0..k \subseteq 0..m /\ m \in 0..m /\ m \notin 0..k /\ 0..k # 0..m
      BY <1>6
    <2>3. <<0..k, 0..m>> \in R
      BY <2>1, <2>2 DEF StrictSubsetOrdering
    <2> QED
      BY <1>5, <2>1, <2>3
  <1> QED
    BY <1>6

-----------------------------------------------------------------------------
(* f has the ids found in each of the first n steps of the recursion.      *)
Climb(db, id, n, f) ==
  f = [k \in 0..n |-> IF k = 0 THEN {id} ELSE f[k - 1] \cup Parents(db, f[k - 1])]

LEMMA ClimbExists ==
  ASSUME NEW db, NEW id, NEW n \in Nat
  PROVE  \E f : Climb(db, id, n, f)
  <1> DEFINE T == {m \in 0..n : ~\E f : Climb(db, id, m, f)}
  <1>1. CASE T = {}
    BY <1>1
  <1>2. CASE T # {}
    <2>1. PICK m \in T : \A k \in T : m <= k
      <3> HIDE DEF T
      <3>1. T \subseteq 0..n
        BY DEF T
      <3> QED
        BY <1>2, <3>1, LeastStep
    <2>2. m \in 0..n /\ ~\E f : Climb(db, id, m, f)
      OBVIOUS
    <2>3. CASE m = 0
      <3> DEFINE f == [k \in 0..0 |-> {id}]
      <3>1. Climb(db, id, 0, f)
        BY DEF Climb
      <3> QED
        BY <2>2, <2>3, <3>1
    <2>4. CASE m # 0
      <3>1. m - 1 \in 0..n /\ m - 1 \notin T
        BY <2>1, <2>2, <2>4
      <3>2. PICK g : Climb(db, id, m - 1, g)
        BY <3>1
      <3> DEFINE f == [k \in 0..m |-> IF k = m THEN g[m - 1] \cup Parents(db, g[m - 1])
                                               ELSE g[k]]
      <3>3. /\ \A k \in 0..(m - 1) : g[k] = IF k = 0 THEN {id}
                                            ELSE g[k - 1] \cup Parents(db, g[k - 1])
        BY <3>2 DEF Climb
      <3>4. ASSUME NEW k \in 0..m
            PROVE  f[k] = IF k = 0 THEN {id} ELSE f[k - 1] \cup Parents(db, f[k - 1])
        <4>1. CASE k = m
          <5>1. m - 1 \in 0..m /\ m - 1 # m /\ m \in 0..m
            BY <2>2, <2>4
          <5>2. f[m - 1] = g[m - 1] /\ f[m] = g[m - 1] \cup Parents(db, g[m - 1])
            BY <5>1
          <5> QED
            BY <2>4, <4>1, <5>2
        <4>2. CASE k # m
          <5>1. k \in 0..(m - 1) /\ f[k] = g[k]
            BY <2>2, <4>2
          <5>2. CASE k = 0
            BY <3>3, <5>1, <5>2
          <5>3. CASE k # 0
            <6>1. k - 1 \in 0..m /\ k - 1 # m
              BY <5>1, <5>3
            <6>2. f[k - 1] = g[k - 1]
              BY <6>1
            <6> HIDE DEF f
            <6> QED
              BY <3>3, <5>1, <5>3, <6>2
          <5> QED
            BY <5>2, <5>3
        <4> QED
          BY <4>1, <4>2
      <3>5. Climb(db, id, m, f)
        <4> DEFINE h == [k \in 0..m |-> IF k = 0 THEN {id}
                                        ELSE f[k - 1] \cup Parents(db, f[k - 1])]
        <4>1. DOMAIN f = 0..m /\ f = [k \in 0..m |-> f[k]]
          OBVIOUS
        <4> HIDE DEF f
        <4>2. f = h
          BY <3>4, <4>1
        <4> QED
          BY <4>2 DEF Climb
      <3> QED
        BY <2>2, <3>5
    <2> QED
      BY <2>3, <2>4
  <1> QED
    BY <1>1, <1>2

Climbs(db, id, n, f) ==
  /\ f[0] = {id}
  /\ \A k \in 1..n : f[k] = f[k - 1] \cup Parents(db, f[k - 1])
  /\ Ancestry(db, id) = f[n]

LEMMA AncestryClimbs ==
  ASSUME NEW db, NEW id, IsFiniteSet(Calls)
  PROVE  \E f : Climbs(db, id, Cardinality(Calls), f)
  <1> DEFINE n == Cardinality(Calls)
             f == CHOOSE f : Climb(db, id, n, f)
  <1>1. n \in Nat
    BY FS_CardinalityType
  <1>2. Ancestry(db, id) = f[n]
    BY DEF Ancestry, Climb
  <1>3. Climb(db, id, n, f)
    BY <1>1, ClimbExists
  <1> HIDE DEF f
  <1>4. \A k \in 0..n : f[k] = IF k = 0 THEN {id} ELSE f[k - 1] \cup Parents(db, f[k - 1])
    <2> HIDE DEF n
    <2> QED
      BY <1>3 DEF Climb
  <1>5. f[0] = {id} /\ \A k \in 1..n : f[k] = f[k - 1] \cup Parents(db, f[k - 1])
    <2> HIDE DEF n
    <2>1. f[0] = {id}
      <3>1. 0 \in 0..n
        BY <1>1
      <3> QED
        BY <1>4, <3>1
    <2>2. ASSUME NEW k \in 1..n PROVE f[k] = f[k - 1] \cup Parents(db, f[k - 1])
      <3>1. k \in 0..n /\ k # 0
        BY <1>1
      <3> QED
        BY <1>4, <3>1
    <2> QED
      BY <2>1, <2>2
  <1> QED
    BY <1>2, <1>5 DEF Climbs

-----------------------------------------------------------------------------
Closed(db, ids) == Parents(db, ids) \subseteq ids

(* A set with the id and closed under parents has every ancestor.          *)
LEMMA AncestryLeast ==
  ASSUME IsFiniteSet(Calls), NEW db, NEW id, NEW S, id \in S, Closed(db, S)
  PROVE  Ancestry(db, id) \subseteq S
  <1> DEFINE n == Cardinality(Calls)
  <1>1. n \in Nat
    BY FS_CardinalityType
  <1>2. PICK f : Climbs(db, id, n, f)
    BY AncestryClimbs
  <1> HIDE DEF n
  <1> DEFINE T == {k \in 0..n : ~(f[k] \subseteq S)}
  <1>3. CASE T = {}
    <2>1. n \in 0..n
      BY <1>1
    <2> QED
      BY <1>2, <1>3, <2>1 DEF Climbs
  <1>4. CASE T # {}
    <2>1. PICK m \in T : \A k \in T : m <= k
      <3>1. T \subseteq 0..n
        OBVIOUS
      <3> HIDE DEF T
      <3> QED
        BY <1>1, <1>4, <3>1, LeastStep
    <2>2. m \in 0..n /\ m # 0 /\ ~(f[m] \subseteq S)
      BY <1>2 DEF Climbs
    <2>3. m - 1 \in 0..n /\ m \in 1..n /\ ~(m <= m - 1)
      BY <1>1, <2>2
    <2>4. f[m - 1] \subseteq S
      BY <2>1, <2>3
    <2>5. Parents(db, f[m - 1]) \subseteq S
      BY <2>4 DEF Parents, Closed
    <2> QED
      BY <1>2, <2>2, <2>3, <2>4, <2>5 DEF Climbs
  <1> QED
    BY <1>3, <1>4

(* The recursion has found every ancestor by its last step: each step that *)
(* finds something new makes the set larger, and there are no more ids     *)
(* than steps.                                                             *)
LEMMA AncestryClosed ==
  ASSUME IsFiniteSet(Calls), NEW db, NEW id, db \in DB, id \in Calls
  PROVE  /\ id \in Ancestry(db, id) /\ Ancestry(db, id) \subseteq Calls
         /\ Closed(db, Ancestry(db, id))
  <1> DEFINE n == Cardinality(Calls)
  <1>1. n \in Nat
    BY FS_CardinalityType
  <1>2. PICK f : Climbs(db, id, n, f)
    BY AncestryClimbs
  <1>3. \A ids : Parents(db, ids) \subseteq Calls
    BY DEF Parents, DB, SnapshotRow
  <1>4. n \in 0..n
    BY <1>1
  <1> DEFINE Good(k) == /\ id \in f[k] /\ f[k] \subseteq Calls
                        /\ Closed(db, f[k]) \/ Cardinality(f[k]) >= k + 1
             T == {k \in 0..n : ~Good(k)}
  <1>5. Good(0)
    <2>1. f[0] = {id} /\ Cardinality({id}) = 1
      BY <1>2, FS_Singleton DEF Climbs
    <2> QED
      BY <2>1
  <1>6. ASSUME NEW m \in 1..n, Good(m - 1) PROVE Good(m)
    <2>1. f[m] = f[m - 1] \cup Parents(db, f[m - 1])
      BY <1>2 DEF Climbs
    <2>2. id \in f[m] /\ f[m] \subseteq Calls
      BY <1>3, <1>6, <2>1
    <2>3. CASE Closed(db, f[m - 1])
      <3>1. f[m] = f[m - 1]
        BY <2>1, <2>3 DEF Closed
      <3> QED
        BY <2>2, <2>3, <3>1
    <2>4. CASE ~Closed(db, f[m - 1])
      <3>1. f[m - 1] \subseteq f[m] /\ f[m - 1] # f[m]
        BY <2>1, <2>4 DEF Closed
      <3>2. IsFiniteSet(f[m]) /\ IsFiniteSet(f[m - 1])
        BY <1>6, <2>2, FS_Subset
      <3>3. Cardinality(f[m - 1]) < Cardinality(f[m])
        <4>1. Cardinality(f[m - 1]) <= Cardinality(f[m])
          BY <3>1, <3>2, FS_Subset
        <4>2. Cardinality(f[m - 1]) # Cardinality(f[m])
          BY <3>1, <3>2, FS_Subset
        <4>3. Cardinality(f[m - 1]) \in Nat /\ Cardinality(f[m]) \in Nat
          BY <3>2, FS_CardinalityType
        <4> QED
          BY <4>1, <4>2, <4>3
      <3>4. Cardinality(f[m - 1]) >= m
        BY <1>1, <1>6, <2>4
      <3>5. Cardinality(f[m - 1]) \in Nat /\ Cardinality(f[m]) \in Nat
        BY <3>2, FS_CardinalityType
      <3>6. Cardinality(f[m]) >= m + 1
        BY <1>1, <3>3, <3>4, <3>5
      <3> QED
        BY <2>2, <3>6
    <2> QED
      BY <2>3, <2>4
  <1>7. T = {}
    <2> SUFFICES ASSUME T # {} PROVE FALSE
      OBVIOUS
    <2>1. PICK m \in T : \A k \in T : m <= k
      <3>1. T \subseteq 0..n
        OBVIOUS
      <3> HIDE DEF T, n
      <3> QED
        BY <1>1, <3>1, LeastStep
    <2>2. m \in 0..n /\ ~Good(m)
      OBVIOUS
    <2> HIDE DEF Good, n
    <2>3. m # 0
      BY <1>5, <2>2
    <2>4. m - 1 \in 0..n /\ m \in 1..n /\ ~(m <= m - 1)
      BY <1>1, <2>2, <2>3
    <2>5. Good(m - 1)
      BY <2>1, <2>4
    <2> QED
      BY <1>6, <2>2, <2>4, <2>5
  <1>8. Good(n)
    <2> HIDE DEF Good, n
    <2> QED
      BY <1>4, <1>7
  <1>9. Closed(db, f[n])
    <2> SUFFICES ASSUME Cardinality(f[n]) >= n + 1 PROVE FALSE
      BY <1>8
    <2>1. IsFiniteSet(f[n]) /\ Cardinality(f[n]) <= n
      BY <1>8, FS_Subset
    <2>2. Cardinality(f[n]) \in Nat
      BY <2>1, FS_CardinalityType
    <2> HIDE DEF n
    <2> QED
      BY <1>1, <2>1, <2>2
  <1> QED
    BY <1>2, <1>8, <1>9 DEF Climbs

(* More snapshots keep the ancestors there were.                           *)
LEMMA AncestryGrows ==
  ASSUME IsFiniteSet(Calls), NEW db, NEW db2, NEW id, db \in DB, db2 \in DB, id \in Calls,
         db.snaps \subseteq db2.snaps
  PROVE  Ancestry(db, id) \subseteq Ancestry(db2, id)
  <1> DEFINE A == Ancestry(db2, id)
  <1>1. id \in A /\ Closed(db2, A)
    BY AncestryClosed
  <1>2. Parents(db, A) \subseteq Parents(db2, A)
    BY DEF Parents
  <1>3. Closed(db, A)
    BY <1>1, <1>2 DEF Closed
  <1> HIDE DEF A
  <1>4. Ancestry(db, id) \subseteq A
    BY <1>1, <1>3, AncestryLeast
  <1> QED
    BY <1>4 DEF A

(* They add none to a snapshot that was there.                             *)
LEMMA AncestryStays ==
  ASSUME IsFiniteSet(Calls), NEW db, NEW db2, NEW id, db \in DB, db2 \in DB, id \in Calls,
         db.snaps \subseteq db2.snaps,
         \A r \in db2.snaps : r \in db.snaps \/ r.id \notin Ancestry(db, id)
  PROVE  Ancestry(db2, id) = Ancestry(db, id)
  <1> DEFINE A == Ancestry(db, id)
  <1>1. id \in A /\ Closed(db, A)
    BY AncestryClosed
  <1>2. Parents(db2, A) \subseteq Parents(db, A)
    BY DEF Parents
  <1>3. Closed(db2, A)
    BY <1>1, <1>2 DEF Closed
  <1>4. Ancestry(db2, id) \subseteq A
    <2> HIDE DEF A
    <2> QED
      BY <1>1, <1>3, AncestryLeast
  <1> QED
    BY <1>4, AncestryGrows
=============================================================================
