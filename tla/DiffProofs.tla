------------------------------ MODULE DiffProofs ------------------------------
(***************************************************************************)
(* Theorems of Diff that hold for every table of units and every two       *)
(* snapshots of it.  Sorting is described by what it gives: a finite set   *)
(* under a total order is put in order by exactly the sequences the two    *)
(* sorts of the module choose from, and there is one.                      *)
(***************************************************************************)
EXTENDS Diff, TLAPS, FiniteSetTheorems, SequenceTheorems

-----------------------------------------------------------------------------
(* Sorting.                                                                *)

(* A strict total order on S, as a set of pairs.                           *)
Orders(R, S) ==
  /\ \A x, y \in S : x # y => <<x, y>> \in R \/ <<y, x>> \in R
  /\ \A x, y, z \in S : <<x, y>> \in R /\ <<y, z>> \in R => <<x, z>> \in R

Sorted(seq, R) == \A i, j \in DOMAIN seq : i < j => <<seq[i], seq[j]>> \in R

Sortable(S, R) == \E seq \in SetToSeqs(S) : Sorted(seq, R)

(* An element that follows all others can be put last.                     *)
LEMMA PutLast ==
  ASSUME NEW S, IsFiniteSet(S), NEW R, NEW x \in S, Sortable(S \ {x}, R),
         \A y \in S \ {x} : <<y, x>> \in R
  PROVE  Sortable(S, R)
  <1> DEFINE V == S \ {x}
             m == Cardinality(S)
  <1>1. PICK seq \in SetToSeqs(V) : Sorted(seq, R)
    BY DEF Sortable
  <1>2. m \in Nat /\ m # 0 /\ Cardinality(V) = m - 1
    BY FS_CardinalityType, FS_RemoveElement, FS_EmptySet
  <1>3. /\ seq \in [1..(m - 1) -> V] /\ DOMAIN seq = 1..(m - 1)
        /\ \A i, j \in 1..(m - 1) : i # j => seq[i] # seq[j]
    BY <1>1, <1>2 DEF SetToSeqs
  <1>4. V \subseteq S /\ x \notin V /\ \A y \in V : <<y, x>> \in R
    OBVIOUS
  <1> HIDE DEF V, m
  <1> DEFINE new == [i \in 1..m |-> IF i = m THEN x ELSE seq[i]]
  <1>5. \A i \in 1..m : i # m => i \in 1..(m - 1)
    BY <1>2
  <1>6. new \in [1..m -> S] /\ DOMAIN new = 1..m
    BY <1>3, <1>4, <1>5
  <1>7. \A i \in 1..m : i # m => new[i] = seq[i] /\ seq[i] \in V
    BY <1>3, <1>5
  <1>8. \A i \in 1..m : i = m => new[i] = x
    OBVIOUS
  <1> HIDE DEF new
  <1>9. \A i, j \in 1..m : i # j => new[i] # new[j]
    BY <1>3, <1>4, <1>5, <1>7, <1>8
  <1>10. new \in SetToSeqs(S)
    BY <1>6, <1>9 DEF SetToSeqs, m
  <1>11. ASSUME NEW i \in 1..m, NEW j \in 1..m, i < j PROVE <<new[i], new[j]>> \in R
    <2>1. i # m /\ new[i] = seq[i] /\ seq[i] \in V /\ i \in 1..(m - 1)
      BY <1>2, <1>5, <1>7, <1>11
    <2>2. CASE j = m
      BY <1>4, <1>8, <2>1, <2>2
    <2>3. CASE j # m
      BY <1>1, <1>3, <1>5, <1>7, <1>11, <2>1, <2>3 DEF Sorted
    <2> QED
      BY <2>2, <2>3
  <1> QED
    BY <1>6, <1>10, <1>11 DEF Sortable, Sorted

(* The last of a set: in a sorted sequence of it, or x if that follows.    *)
LEMMA LastOf ==
  ASSUME NEW S, IsFiniteSet(S), S # {}, NEW R, Orders(R, S),
         \A x \in S : Sortable(S \ {x}, R)
  PROVE  \E x \in S : \A y \in S \ {x} : <<y, x>> \in R
  <1>1. PICK x \in S : TRUE
    OBVIOUS
  <1> DEFINE V == S \ {x}
             n == Cardinality(V)
  <1>2. PICK seq \in SetToSeqs(V) : Sorted(seq, R)
    BY DEF Sortable
  <1>3. n \in Nat /\ IsFiniteSet(V)
    BY FS_Subset, FS_CardinalityType
  <1>4. seq \in [1..n -> V] /\ \A i, j \in 1..n : i # j => seq[i] # seq[j]
    BY <1>2 DEF SetToSeqs
  <1>5. \A y \in V : \E i \in 1..n : seq[i] = y
    <2>1. seq \in Injection(1..n, V)
      BY <1>4 DEF Injection, IsInjective
    <2>2. Cardinality(1..n) = n
      BY <1>3, FS_Interval
    <2> HIDE DEF V, n
    <2>3. seq \in Surjection(1..n, V)
      BY <1>3, <2>1, <2>2, FS_Injection DEF n
    <2> QED
      BY <2>3 DEF Surjection
  <1>6. CASE V = {}
    BY <1>6
  <1>7. CASE V # {}
    <2>1. n # 0
      BY <1>3, <1>7, FS_EmptySet
    <2> DEFINE l == seq[n]
    <2> HIDE DEF n, V
    <2>2. n \in 1..n /\ l \in V /\ DOMAIN seq = 1..n
      BY <1>3, <1>4, <2>1
    <2>3. \A y \in V \ {l} : <<y, l>> \in R
      <3> SUFFICES ASSUME NEW y \in V, y # l PROVE <<y, l>> \in R
        OBVIOUS
      <3>1. PICK i \in 1..n : seq[i] = y
        BY <1>5
      <3>2. i < n
        BY <1>3, <3>1
      <3> QED
        BY <1>2, <2>2, <3>1, <3>2 DEF Sorted
    <2> HIDE DEF l
    <2>4. l \in S /\ l # x
      BY <2>2 DEF V
    <2>5. CASE <<x, l>> \in R
      BY <2>3, <2>4, <2>5 DEF V
    <2>6. CASE <<l, x>> \in R
      <3>1. ASSUME NEW y \in S \ {x} PROVE <<y, x>> \in R
        <4>1. CASE y = l
          BY <2>6, <4>1
        <4>2. CASE y # l
          <5>1. <<y, l>> \in R
            BY <2>3, <4>2 DEF V
          <5> QED
            BY <2>4, <2>6, <5>1 DEF Orders
        <4> QED
          BY <4>1, <4>2
      <3> QED
        BY <3>1
    <2> QED
      BY <2>4, <2>5, <2>6 DEF Orders
  <1> QED
    BY <1>6, <1>7

(* A least set that cannot be sorted could be: its last element last.      *)
LEMMA AllSortable ==
  ASSUME NEW S, IsFiniteSet(S), NEW R, Orders(R, S)
  PROVE  Sortable(S, R)
  <1> DEFINE Bad == {us \in SUBSET S : ~Sortable(us, R)}
             Less == StrictSubsetOrdering(S)
  <1> SUFFICES ASSUME ~Sortable(S, R) PROVE FALSE
    OBVIOUS
  <1>1. IsWellFoundedOn(Less, SUBSET S)
    <2>1. FiniteSubsetsOf(S) = SUBSET S
      BY FS_FiniteSubsetsOfFinite
    <2>2. IsWellFoundedOn(Less, FiniteSubsetsOf(S))
      BY FS_StrictSubsetOrderingWellFounded
    <2> HIDE DEF Less
    <2> QED
      BY <2>1, <2>2
  <1>2. Bad \subseteq SUBSET S /\ Bad # {}
    OBVIOUS
  <1>3. PICK us \in Bad : \A vs \in Bad : ~(<<vs, us>> \in Less)
    <2> HIDE DEF Bad, Less
    <2> QED
      BY <1>1, <1>2, WFMin
  <1>4. us \subseteq S /\ ~Sortable(us, R)
    OBVIOUS
  <1>5. ASSUME NEW x \in us PROVE Sortable(us \ {x}, R)
    <2> SUFFICES ASSUME ~Sortable(us \ {x}, R) PROVE FALSE
      OBVIOUS
    <2>1. us \ {x} \in Bad
      BY <1>4
    <2>2. <<us \ {x}, us>> \in Less
      BY <1>4 DEF StrictSubsetOrdering
    <2> HIDE DEF Less, Bad
    <2> QED
      BY <1>3, <2>1, <2>2
  <1> HIDE DEF Less, Bad
  <1>6. IsFiniteSet(us) /\ Orders(R, us)
    BY <1>4, FS_Subset DEF Orders
  <1>7. CASE us = {}
    <2>1. Cardinality({}) = 0 /\ 1..0 = {}
      BY FS_EmptySet
    <2>2. <<>> \in [1..0 -> {}] /\ DOMAIN <<>> = {}
      BY <2>1
    <2>3. <<>> \in SetToSeqs({})
      BY <2>1, <2>2 DEF SetToSeqs
    <2> QED
      BY <1>4, <1>7, <2>2, <2>3 DEF Sortable, Sorted
  <1>8. CASE us # {}
    <2>1. PICK x \in us : \A y \in us \ {x} : <<y, x>> \in R
      BY <1>5, <1>6, <1>8, LastOf
    <2> QED
      BY <1>4, <1>5, <1>6, <2>1, PutLast
  <1> QED
    BY <1>7, <1>8

(* What is put in order is a sequence of all of S, each element once.      *)
LEMMA SetToSeqsFacts ==
  ASSUME NEW S, IsFiniteSet(S), NEW seq \in SetToSeqs(S)
  PROVE  /\ seq \in Seq(S) /\ Len(seq) \in Nat /\ DOMAIN seq = 1..Len(seq)
         /\ \A x \in S : \E i \in DOMAIN seq : seq[i] = x
         /\ \A i \in DOMAIN seq : seq[i] \in S
         /\ \A i, j \in DOMAIN seq : seq[i] = seq[j] => i = j
  <1> DEFINE n == Cardinality(S)
  <1>1. n \in Nat
    BY FS_CardinalityType
  <1>2. seq \in [1..n -> S] /\ \A i, j \in 1..n : i # j => seq[i] # seq[j]
    BY DEF SetToSeqs
  <1>3. seq \in Injection(1..n, S)
    BY <1>2 DEF Injection, IsInjective
  <1>4. Cardinality(1..n) = n
    BY <1>1, FS_Interval
  <1> HIDE DEF n
  <1>5. seq \in Surjection(1..n, S)
    BY <1>3, <1>4, FS_Injection DEF n
  <1>6. \A x \in S : \E i \in 1..n : seq[i] = x
    BY <1>5 DEF Surjection
  <1>7. seq \in Seq(S) /\ Len(seq) = n /\ DOMAIN seq = 1..n
    BY <1>1, <1>2, SeqDef, LenProperties
  <1> QED
    BY <1>1, <1>2, <1>6, <1>7

LEMMA AscendingSorts ==
  ASSUME NEW S \in SUBSET Nat, IsFiniteSet(S)
  PROVE  Ascending(S) \in SetToSeqs(S)
  <1> DEFINE R == {p \in S \X S : p[1] < p[2]}
  <1>1. \A x, y \in S : <<x, y>> \in R <=> x < y
    OBVIOUS
  <1>2. \A x \in S : x \in Nat
    OBVIOUS
  <1> HIDE DEF R
  <1>3. Orders(R, S)
    BY <1>1, <1>2 DEF Orders
  <1>4. PICK seq \in SetToSeqs(S) : Sorted(seq, R)
    BY <1>3, AllSortable DEF Sortable
  <1>5. \A i, j \in DOMAIN seq : i < j => seq[i] < seq[j]
    BY <1>1, <1>4, SetToSeqsFacts DEF Sorted
  <1> QED
    BY <1>5 DEF Ascending

-----------------------------------------------------------------------------
(* The identity map of a snapshot.                                         *)

Typed ==
  /\ unit \in [UnitIds -> Unit]
  /\ from \in SUBSET UnitIds
  /\ to \in SUBSET UnitIds

LEMMA UnitTyped ==
  ASSUME Typed, NEW u \in UnitIds
  PROVE  /\ unit[u].identity \in Identities /\ unit[u].identity \in Nat
         /\ unit[u].created \in Nat /\ u \in Nat /\ u # 0
  BY DiffAssumption DEF Typed, Unit

LEMMA RowsSorted ==
  ASSUME Typed, NEW ids \in SUBSET UnitIds
  PROVE  /\ IsFiniteSet(ids)
         /\ SortedByTime(ids) \in SetToSeqs(ids)
         /\ \A i, j \in DOMAIN SortedByTime(ids) :
              i < j => Before(SortedByTime(ids)[i], SortedByTime(ids)[j])
  <1> DEFINE R == {p \in ids \X ids : Before(p[1], p[2])}
  <1>1. \A x, y \in ids : <<x, y>> \in R <=> Before(x, y)
    OBVIOUS
  <1>2. \A x \in ids : x \in Nat /\ unit[x].created \in Nat
    BY UnitTyped
  <1>3. IsFiniteSet(ids)
    BY DiffAssumption, FS_Subset
  <1> HIDE DEF R
  <1>4. Orders(R, ids)
    <2>1. ASSUME NEW x \in ids, NEW y \in ids, x # y PROVE Before(x, y) \/ Before(y, x)
      BY <1>2, <2>1 DEF Before
    <2>2. ASSUME NEW x \in ids, NEW y \in ids, NEW z \in ids, Before(x, y), Before(y, z)
          PROVE  Before(x, z)
      BY <1>2, <2>2 DEF Before
    <2> QED
      BY <1>1, <2>1, <2>2 DEF Orders
  <1>5. PICK seq \in SetToSeqs(ids) : Sorted(seq, R)
    BY <1>3, <1>4, AllSortable DEF Sortable
  <1>6. \A i, j \in DOMAIN seq : i < j => Before(seq[i], seq[j])
    BY <1>1, <1>3, <1>5, SetToSeqsFacts DEF Sorted
  <1> QED
    BY <1>3, <1>6 DEF SortedByTime

(* A set of indices has a greatest.                                        *)
LEMMA Greatest ==
  ASSUME NEW n \in Nat, NEW T \in SUBSET (1..n), T # {}
  PROVE  \E k \in T : \A j \in T : j <= k
  <1> DEFINE R == {p \in T \X T : p[1] < p[2]}
  <1>1. \A x, y \in T : <<x, y>> \in R <=> x < y
    OBVIOUS
  <1>2. IsFiniteSet(T) /\ \A x \in T : x \in Nat
    <2>1. IsFiniteSet(1..n)
      BY FS_Interval
    <2>2. IsFiniteSet(T)
      BY <2>1, FS_Subset
    <2>3. \A x \in 1..n : x \in Nat
      OBVIOUS
    <2> QED
      BY <2>2, <2>3
  <1> HIDE DEF R
  <1>3. Orders(R, T)
    BY <1>1, <1>2 DEF Orders
  <1>4. \A x \in T : Sortable(T \ {x}, R)
    <2> SUFFICES ASSUME NEW x \in T PROVE Sortable(T \ {x}, R)
      OBVIOUS
    <2>1. IsFiniteSet(T \ {x}) /\ Orders(R, T \ {x})
      BY <1>2, <1>3, FS_Subset DEF Orders
    <2> QED
      BY <2>1, AllSortable
  <1>5. PICK k \in T : \A j \in T \ {k} : <<j, k>> \in R
    BY <1>2, <1>3, <1>4, LastOf
  <1>6. ASSUME NEW j \in T PROVE j <= k
    <2>1. CASE j = k
      BY <1>2, <2>1
    <2>2. CASE j # k
      <3>1. <<j, k>> \in R
        BY <1>5, <2>2
      <3>2. j < k /\ j \in Nat /\ k \in Nat
        BY <1>1, <1>2, <3>1
      <3> QED
        BY <3>2
    <2> QED
      BY <2>1, <2>2
  <1> QED
    BY <1>6

LEMMA MapFacts ==
  ASSUME Typed, NEW ids \in SUBSET UnitIds
  PROVE  /\ DOMAIN IdentityMap(ids) = {unit[u].identity : u \in ids}
         /\ DOMAIN IdentityMap(ids) \subseteq Identities
         /\ \A i \in DOMAIN IdentityMap(ids) : IdentityMap(ids)[i] \in Latest(ids, i)
  <1> DEFINE rows      == SortedByTime(ids)
             Of(i)     == {k \in DOMAIN rows : unit[rows[k]].identity = i}
             Winner(i) == CHOOSE k \in Of(i) : \A j \in Of(i) : j <= k
             dom       == {unit[u].identity : u \in ids}
  <1>1. IdentityMap(ids) = [i \in dom |-> rows[Winner(i)]]
    BY DEF IdentityMap
  <1>2. dom \subseteq Identities
    BY UnitTyped
  <1>3. /\ \A x \in ids : \E i \in DOMAIN rows : rows[i] = x
        /\ \A i \in DOMAIN rows : rows[i] \in ids
        /\ Len(rows) \in Nat /\ DOMAIN rows = 1..Len(rows)
        /\ \A i, j \in DOMAIN rows : i < j => Before(rows[i], rows[j])
    <2>1. rows \in SetToSeqs(ids) /\ IsFiniteSet(ids)
      BY RowsSorted
    <2>2. \A i, j \in DOMAIN rows : i < j => Before(rows[i], rows[j])
      BY RowsSorted
    <2> HIDE DEF rows
    <2> QED
      BY <2>1, <2>2, SetToSeqsFacts
  <1> HIDE DEF rows
  <1>4. ASSUME NEW i \in dom PROVE rows[Winner(i)] \in Latest(ids, i)
    <2>1. PICK u \in ids : unit[u].identity = i
      OBVIOUS
    <2>2. PICK n \in DOMAIN rows : rows[n] = u
      BY <1>3
    <2>3. Of(i) \in SUBSET (1..Len(rows)) /\ Of(i) # {}
      BY <1>3, <2>1, <2>2
    <2>4. \E k \in Of(i) : \A j \in Of(i) : j <= k
      <3> HIDE DEF Of
      <3> QED
        BY <1>3, <2>3, Greatest
    <2>5. Winner(i) \in Of(i) /\ \A j \in Of(i) : j <= Winner(i)
      <3> HIDE DEF Of
      <3> QED
        BY <2>4
    <2> DEFINE w == Winner(i)
    <2>6. w \in DOMAIN rows /\ rows[w] \in ids /\ unit[rows[w]].identity = i
      BY <1>3, <2>5
    <2>7. \A j \in DOMAIN rows : unit[rows[j]].identity = i => j <= w
      BY <2>5
    <2> HIDE DEF w, Of, Winner
    <2>8. ASSUME NEW v \in Candidates(ids, i) PROVE unit[v].created <= unit[rows[w]].created
      <3>1. v \in ids /\ unit[v].identity = i
        BY DEF Candidates
      <3>2. PICK j \in DOMAIN rows : rows[j] = v
        BY <1>3, <3>1
      <3>3. j <= w
        BY <2>7, <3>1, <3>2
      <3>4. unit[v].created \in Nat /\ unit[rows[w]].created \in Nat
        BY <2>6, <3>1, UnitTyped
      <3>5. CASE j = w
        BY <3>2, <3>4, <3>5
      <3>6. CASE j < w
        <4>1. Before(v, rows[w])
          BY <1>3, <2>6, <3>2, <3>6
        <4> QED
          BY <3>4, <4>1 DEF Before
      <3> QED
        BY <1>3, <2>6, <3>3, <3>5, <3>6
    <2>9. rows[w] \in Latest(ids, i)
      BY <2>6, <2>8 DEF Latest, Candidates
    <2> QED
      BY <2>9 DEF w
  <1> HIDE DEF Of, Winner
  <1> QED
    BY <1>1, <1>2, <1>4

-----------------------------------------------------------------------------
(* Sequences that hold the values of a function f on a set I, each once.   *)

Holds(seq, f, I) ==
  /\ seq \in Seq({f[i] : i \in I})
  /\ \A i \in I : \E k \in DOMAIN seq : seq[k] = f[i]
  /\ \A j, k \in DOMAIN seq : seq[j] = seq[k] => j = k

OneToOne(f, I) == \A i, j \in I : f[i] = f[j] => i = j

LEMMA HoldsFacts ==
  ASSUME NEW seq, NEW f, NEW I, Holds(seq, f, I)
  PROVE  /\ Len(seq) \in Nat /\ DOMAIN seq = 1..Len(seq)
         /\ \A k \in DOMAIN seq : \E i \in I : seq[k] = f[i]
         /\ Range(seq) = {f[i] : i \in I}
         /\ seq = <<>> => I = {}
  <1> DEFINE V == {f[i] : i \in I}
  <1>1. seq \in Seq(V)
    BY DEF Holds
  <1> HIDE DEF V
  <1>2. Len(seq) \in Nat /\ DOMAIN seq = 1..Len(seq) /\ \A k \in 1..Len(seq) : seq[k] \in V
    BY <1>1, LenProperties, ElementOfSeq
  <1>3. \A k \in DOMAIN seq : \E i \in I : seq[k] = f[i]
    BY <1>2 DEF V
  <1>4. Range(seq) = {f[i] : i \in I}
    <2>1. Range(seq) \subseteq {f[i] : i \in I}
      BY <1>2 DEF Range, V
    <2>2. {f[i] : i \in I} \subseteq Range(seq)
      BY DEF Range, Holds
    <2> QED
      BY <2>1, <2>2
  <1>5. seq = <<>> => I = {}
    BY DEF Holds
  <1> QED
    BY <1>2, <1>3, <1>4, <1>5

LEMMA HoldsNothing ==
  ASSUME NEW f
  PROVE  Holds(<<>>, f, {})
  BY EmptySeq DEF Holds

(* The same values under another name.                                     *)
LEMMA HoldsSame ==
  ASSUME NEW seq, NEW f, NEW g, NEW I, Holds(seq, f, I), \A i \in I : f[i] = g[i]
  PROVE  Holds(seq, g, I)
  <1>1. {f[i] : i \in I} = {g[i] : i \in I}
    OBVIOUS
  <1> QED
    BY <1>1 DEF Holds

LEMMA HoldsAppend ==
  ASSUME NEW seq, NEW f, NEW I, NEW i, i \notin I, Holds(seq, f, I), OneToOne(f, I \cup {i})
  PROVE  Holds(Append(seq, f[i]), f, I \cup {i})
  <1> DEFINE V   == {f[j] : j \in I \cup {i}}
             n   == Len(seq)
             new == Append(seq, f[i])
  <1>1. n \in Nat /\ DOMAIN seq = 1..n /\ \A k \in DOMAIN seq : \E j \in I : seq[k] = f[j]
    BY HoldsFacts
  <1>2. {f[j] : j \in I} \subseteq V /\ f[i] \in V
    OBVIOUS
  <1>3. seq \in Seq(V)
    BY <1>2 DEF Holds
  <1>4. /\ new \in Seq(V) /\ Len(new) = n + 1 /\ DOMAIN new = 1..(n + 1)
        /\ \A k \in 1..n : new[k] = seq[k]
        /\ new[n + 1] = f[i]
    <2> HIDE DEF V
    <2> QED
      BY <1>2, <1>3, AppendProperties, LenProperties
  <1> HIDE DEF new, n
  <1>5. ASSUME NEW j \in I \cup {i} PROVE \E k \in DOMAIN new : new[k] = f[j]
    <2>1. CASE j = i
      BY <1>1, <1>4, <2>1
    <2>2. CASE j \in I
      <3>1. PICK k \in DOMAIN seq : seq[k] = f[j]
        BY <2>2 DEF Holds
      <3>2. k \in 1..n /\ k \in 1..(n + 1)
        BY <1>1
      <3> QED
        BY <1>4, <3>1, <3>2
    <2> QED
      BY <2>1, <2>2
  <1>6. ASSUME NEW k \in 1..n PROVE new[k] # f[i]
    <2>1. PICK j \in I : seq[k] = f[j]
      BY <1>1
    <2> QED
      BY <1>4, <2>1 DEF OneToOne
  <1>7. ASSUME NEW j \in DOMAIN new, NEW k \in DOMAIN new, new[j] = new[k] PROVE j = k
    <2>1. (j \in 1..n \/ j = n + 1) /\ (k \in 1..n \/ k = n + 1)
      BY <1>1, <1>4
    <2>2. j \in 1..n /\ k \in 1..n => seq[j] = seq[k]
      BY <1>4, <1>7
    <2>3. \A a, b \in 1..n : seq[a] = seq[b] => a = b
      BY <1>1 DEF Holds
    <2> QED
      BY <1>4, <1>6, <1>7, <2>1, <2>2, <2>3
  <1> QED
    BY <1>4, <1>5, <1>7 DEF Holds, new

LEMMA HoldsTail ==
  ASSUME NEW seq, NEW f, NEW I, Holds(seq, f, I), seq # <<>>, OneToOne(f, I)
  PROVE  \E i \in I : Head(seq) = f[i] /\ Holds(Tail(seq), f, I \ {i})
  <1> DEFINE V == {f[j] : j \in I}
             n == Len(seq)
             t == Tail(seq)
  <1>1. seq \in Seq(V)
    BY DEF Holds
  <1>2. n \in Nat /\ DOMAIN seq = 1..n /\ \A k \in DOMAIN seq : \E j \in I : seq[k] = f[j]
    BY HoldsFacts
  <1>3. /\ Head(seq) = seq[1] /\ t \in Seq(V) /\ Len(t) = n - 1
        /\ \A k \in 1..Len(t) : t[k] = seq[k + 1]
    <2> HIDE DEF V
    <2> QED
      BY <1>1, HeadTailProperties
  <1>4. n # 0
    <2> HIDE DEF V
    <2> QED
      BY <1>1, EmptySeq
  <1>5. 1 \in DOMAIN seq
    BY <1>2, <1>4
  <1>6. PICK i \in I : seq[1] = f[i]
    BY <1>2, <1>5
  <1>7. Len(t) = n - 1 /\ DOMAIN t = 1..(n - 1)
    <2> HIDE DEF V
    <2> QED
      BY <1>3, LenProperties
  <1> HIDE DEF V, n, t
  <1>8. \A k \in 1..(n - 1) : t[k] = seq[k + 1] /\ k + 1 \in DOMAIN seq /\ k + 1 # 1
    BY <1>2, <1>3, <1>7
  <1>9. \A a, b \in DOMAIN seq : seq[a] = seq[b] => a = b
    BY DEF Holds
  <1>10. t \in Seq({f[j] : j \in I \ {i}})
    <2>1. ASSUME NEW k \in 1..(n - 1) PROVE t[k] \in {f[j] : j \in I \ {i}}
      <3>1. PICK j \in I : seq[k + 1] = f[j]
        BY <1>2, <1>8
      <3>2. j # i
        BY <1>5, <1>6, <1>8, <1>9, <3>1
      <3> QED
        BY <1>8, <3>1, <3>2
    <2> DEFINE W == {f[j] : j \in I \ {i}}
    <2> HIDE DEF W
    <2>2. n - 1 \in Nat
      BY <1>2, <1>4
    <2>3. t = [k \in 1..(n - 1) |-> t[k]]
      BY <1>3, <1>7
    <2>4. t \in [1..(n - 1) -> W]
      BY <2>1, <2>3 DEF W
    <2>5. t \in Seq(W)
      BY <2>2, <2>4, SeqDef
    <2> QED
      BY <2>5 DEF W
  <1>11. ASSUME NEW j \in I \ {i} PROVE \E k \in DOMAIN t : t[k] = f[j]
    <2>1. PICK k \in DOMAIN seq : seq[k] = f[j]
      BY DEF Holds
    <2>2. k # 1
      BY <1>6, <2>1 DEF OneToOne
    <2> DEFINE l == k - 1
    <2>3. l \in 1..(n - 1) /\ l + 1 = k
      BY <1>2, <2>2
    <2> HIDE DEF l
    <2> QED
      BY <1>7, <1>8, <2>1, <2>3
  <1>12. ASSUME NEW j \in DOMAIN t, NEW k \in DOMAIN t, t[j] = t[k] PROVE j = k
    <2>1. j + 1 = k + 1
      BY <1>7, <1>8, <1>9, <1>12
    <2> QED
      BY <1>2, <1>7, <2>1
  <1>13. Holds(t, f, I \ {i})
    BY <1>10, <1>11, <1>12 DEF Holds
  <1> QED
    BY <1>3, <1>6, <1>13 DEF t

LEMMA HoldsConcat ==
  ASSUME NEW s, NEW t, NEW f, NEW I, NEW J, Holds(s, f, I), Holds(t, f, J),
         I \cap J = {}, OneToOne(f, I \cup J)
  PROVE  Holds(s \o t, f, I \cup J)
  <1> DEFINE V == {f[j] : j \in I \cup J}
             m == Len(s)
             n == Len(t)
             c == s \o t
  <1>1. /\ m \in Nat /\ DOMAIN s = 1..m /\ \A k \in DOMAIN s : \E i \in I : s[k] = f[i]
        /\ n \in Nat /\ DOMAIN t = 1..n /\ \A k \in DOMAIN t : \E j \in J : t[k] = f[j]
    BY HoldsFacts
  <1>2. {f[j] : j \in I} \subseteq V /\ {f[j] : j \in J} \subseteq V
    OBVIOUS
  <1>3. s \in Seq(V) /\ t \in Seq(V)
    BY <1>2 DEF Holds
  <1>4. /\ c \in Seq(V) /\ Len(c) = m + n /\ DOMAIN c = 1..(m + n)
        /\ \A k \in 1..(m + n) : c[k] = IF k <= m THEN s[k] ELSE t[k - m]
    <2> HIDE DEF V
    <2>1. c \in Seq(V) /\ Len(c) = m + n
      BY <1>3, ConcatProperties
    <2> QED
      BY <1>3, <2>1, ConcatProperties, LenProperties
  <1> HIDE DEF V, m, n, c
  <1>5. \A k \in 1..m : k \in DOMAIN c /\ c[k] = s[k]
    <2> SUFFICES ASSUME NEW k \in 1..m PROVE k \in DOMAIN c /\ c[k] = s[k]
      OBVIOUS
    <2>1. k \in 1..(m + n) /\ k <= m
      BY <1>1
    <2> QED
      BY <1>4, <2>1
  <1>6. \A k \in 1..n : k + m \in DOMAIN c /\ c[k + m] = t[k]
    <2> SUFFICES ASSUME NEW k \in 1..n PROVE k + m \in DOMAIN c /\ c[k + m] = t[k]
      OBVIOUS
    <2> DEFINE l == k + m
    <2>1. l \in 1..(m + n) /\ ~(l <= m) /\ l - m = k
      BY <1>1
    <2> HIDE DEF l
    <2>2. l \in DOMAIN c /\ c[l] = t[k]
      BY <1>4, <2>1
    <2> QED
      BY <2>2 DEF l
  <1>7. \A k \in DOMAIN c : \/ k \in 1..m
                            \/ \E l \in 1..n : k = l + m
    <2> SUFFICES ASSUME NEW k \in DOMAIN c, k \notin 1..m PROVE \E l \in 1..n : k = l + m
      OBVIOUS
    <2>1. k - m \in 1..n /\ k = (k - m) + m
      BY <1>1, <1>4
    <2> QED
      BY <2>1
  <1>8. ASSUME NEW i \in I \cup J PROVE \E k \in DOMAIN c : c[k] = f[i]
    <2>1. CASE i \in I
      <3>1. PICK k \in DOMAIN s : s[k] = f[i]
        BY <2>1 DEF Holds
      <3> QED
        BY <1>1, <1>5, <3>1
    <2>2. CASE i \in J
      <3>1. PICK k \in DOMAIN t : t[k] = f[i]
        BY <2>2 DEF Holds
      <3> QED
        BY <1>1, <1>6, <3>1
    <2> QED
      BY <2>1, <2>2
  <1>9. ASSUME NEW j \in 1..m, NEW k \in 1..n PROVE s[j] # t[k]
    <2>1. PICK a \in I : s[j] = f[a]
      BY <1>1
    <2>2. PICK b \in J : t[k] = f[b]
      BY <1>1
    <2>3. a # b
      OBVIOUS
    <2> QED
      BY <2>1, <2>2, <2>3 DEF OneToOne
  <1>10. /\ \A j, k \in 1..m : s[j] = s[k] => j = k
         /\ \A j, k \in 1..n : t[j] = t[k] => j = k
    BY <1>1 DEF Holds
  <1>11. ASSUME NEW j \in DOMAIN c, NEW k \in DOMAIN c, c[j] = c[k] PROVE j = k
    <2>1. CASE j \in 1..m /\ k \in 1..m
      BY <1>5, <1>10, <1>11, <2>1
    <2>2. CASE j \in 1..m /\ k \notin 1..m
      <3>1. PICK l \in 1..n : k = l + m
        BY <1>7, <2>2
      <3> QED
        BY <1>5, <1>6, <1>9, <1>11, <2>2, <3>1
    <2>3. CASE j \notin 1..m /\ k \in 1..m
      <3>1. PICK l \in 1..n : j = l + m
        BY <1>7, <2>3
      <3> QED
        BY <1>5, <1>6, <1>9, <1>11, <2>3, <3>1
    <2>4. CASE j \notin 1..m /\ k \notin 1..m
      <3>1. PICK a \in 1..n : j = a + m
        BY <1>7, <2>4
      <3>2. PICK b \in 1..n : k = b + m
        BY <1>7, <2>4
      <3>3. t[a] = t[b]
        BY <1>6, <1>11, <3>1, <3>2
      <3> QED
        BY <1>10, <3>1, <3>2, <3>3
    <2> QED
      BY <2>1, <2>2, <2>3, <2>4
  <1> QED
    BY <1>4, <1>8, <1>11 DEF Holds, V, c

(* A sorted list of I, each replaced by what f makes of it.                *)
LEMMA HoldsMapped ==
  ASSUME NEW f, NEW I, IsFiniteSet(I), OneToOne(f, I), NEW seq \in SetToSeqs(I)
  PROVE  Holds([k \in DOMAIN seq |-> f[seq[k]]], f, I)
  <1> DEFINE V   == {f[i] : i \in I}
             new == [k \in DOMAIN seq |-> f[seq[k]]]
  <1>1. /\ Len(seq) \in Nat /\ DOMAIN seq = 1..Len(seq)
        /\ \A x \in I : \E i \in DOMAIN seq : seq[i] = x
        /\ \A i \in DOMAIN seq : seq[i] \in I
        /\ \A i, j \in DOMAIN seq : seq[i] = seq[j] => i = j
    BY SetToSeqsFacts
  <1>2. new \in [1..Len(seq) -> V]
    BY <1>1
  <1>3. new \in Seq(V)
    <2> HIDE DEF new, V
    <2> QED
      BY <1>1, <1>2, SeqDef
  <1>4. DOMAIN new = DOMAIN seq /\ \A k \in DOMAIN seq : new[k] = f[seq[k]]
    OBVIOUS
  <1> HIDE DEF new
  <1>5. \A i \in I : \E k \in DOMAIN new : new[k] = f[i]
    BY <1>1, <1>4
  <1>6. \A j, k \in DOMAIN new : new[j] = new[k] => j = k
    BY <1>1, <1>4 DEF OneToOne
  <1> QED
    BY <1>3, <1>5, <1>6 DEF Holds, new

-----------------------------------------------------------------------------
(* What changed between the snapshots, identity by identity.               *)

Fm == IdentityMap(from)
Tm == IdentityMap(to)

AddedIds    == DOMAIN Tm \ DOMAIN Fm
ModifiedIds == {i \in DOMAIN Tm \cap DOMAIN Fm : IsModified(Fm[i], Tm[i])}
RemovedIds  == DOMAIN Fm \ DOMAIN Tm
Changed     == AddedIds \cup ModifiedIds \cup RemovedIds

EntryMap ==
  [i \in Changed |-> IF i \in AddedIds THEN Entry("added", i, 0, Tm[i])
                     ELSE IF i \in ModifiedIds THEN Entry("modified", i, Fm[i], Tm[i])
                     ELSE Entry("removed", i, Fm[i], 0)]

PairMap == [i \in ModifiedIds |-> <<Fm[i], Tm[i]>>]

(* Every identity whose entry is still to come is in I; the lists hold the *)
(* others.                                                                 *)
Progress(entries, lists, I) ==
  /\ Holds(entries, EntryMap, I)
  /\ Holds(lists.added, Tm, AddedIds \ I)
  /\ Holds(lists.modified, PairMap, ModifiedIds \ I)
  /\ Holds(lists.removed, Fm, RemovedIds \ I)

DiffInv ==
  /\ Typed
  /\ diff = [added |-> diff.added, modified |-> diff.modified, removed |-> diff.removed]
  /\ \E I \in SUBSET Changed : Progress(todo, diff, I)

LEMMA ChangedFacts ==
  ASSUME Typed
  PROVE  /\ \A i \in DOMAIN Fm : i \in Identities /\ Fm[i] \in Latest(from, i)
         /\ \A i \in DOMAIN Tm : i \in Identities /\ Tm[i] \in Latest(to, i)
         /\ \A i : i \in DOMAIN Fm <=> Candidates(from, i) # {}
         /\ \A i : i \in DOMAIN Tm <=> Candidates(to, i) # {}
         /\ \A i \in DOMAIN Fm : unit[Fm[i]].identity = i
         /\ \A i \in DOMAIN Tm : unit[Tm[i]].identity = i
  <1>1. from \in SUBSET UnitIds /\ to \in SUBSET UnitIds
    BY DEF Typed
  <1>2. /\ DOMAIN Fm = {unit[u].identity : u \in from} /\ DOMAIN Fm \subseteq Identities
        /\ \A i \in DOMAIN Fm : Fm[i] \in Latest(from, i)
    BY <1>1, MapFacts DEF Fm
  <1>3. /\ DOMAIN Tm = {unit[u].identity : u \in to} /\ DOMAIN Tm \subseteq Identities
        /\ \A i \in DOMAIN Tm : Tm[i] \in Latest(to, i)
    BY <1>1, MapFacts DEF Tm
  <1>4. \A ids, i : i \in {unit[u].identity : u \in ids} <=> Candidates(ids, i) # {}
    BY DEF Candidates
  <1>5. \A ids, i, u : u \in Latest(ids, i) => unit[u].identity = i
    BY DEF Latest, Candidates
  <1> HIDE DEF Fm, Tm
  <1> QED
    BY <1>2, <1>3, <1>4, <1>5

LEMMA ChangedFinite ==
  ASSUME Typed
  PROVE  /\ AddedIds \in SUBSET Nat /\ IsFiniteSet(AddedIds)
         /\ ModifiedIds \in SUBSET Nat /\ IsFiniteSet(ModifiedIds)
         /\ RemovedIds \in SUBSET Nat /\ IsFiniteSet(RemovedIds)
  <1>1. ASSUME NEW ids \in SUBSET UnitIds
        PROVE  IsFiniteSet(DOMAIN IdentityMap(ids)) /\ DOMAIN IdentityMap(ids) \in SUBSET Nat
    <2> DEFINE dom == {unit[u].identity : u \in ids}
               f   == [u \in ids |-> unit[u].identity]
    <2>1. f \in Surjection(ids, dom)
      BY DEF Surjection
    <2>2. IsFiniteSet(ids)
      BY RowsSorted
    <2>3. IsFiniteSet(dom)
      <3> HIDE DEF f, dom
      <3> QED
        BY <2>1, <2>2, FS_Surjection
    <2>4. dom \in SUBSET Nat
      BY UnitTyped
    <2> QED
      BY <2>3, <2>4, MapFacts
  <1>2. /\ IsFiniteSet(DOMAIN Fm) /\ DOMAIN Fm \in SUBSET Nat
        /\ IsFiniteSet(DOMAIN Tm) /\ DOMAIN Tm \in SUBSET Nat
    BY <1>1 DEF Typed, Fm, Tm
  <1>3. AddedIds \subseteq DOMAIN Tm /\ ModifiedIds \subseteq DOMAIN Tm /\ RemovedIds \subseteq DOMAIN Fm
    BY DEF AddedIds, ModifiedIds, RemovedIds
  <1>4. IsFiniteSet(AddedIds) /\ IsFiniteSet(ModifiedIds) /\ IsFiniteSet(RemovedIds)
    BY <1>2, <1>3, FS_Subset
  <1> QED
    BY <1>2, <1>3, <1>4

LEMMA Disjoint ==
  /\ AddedIds \cap ModifiedIds = {} /\ AddedIds \cap RemovedIds = {}
  /\ ModifiedIds \cap RemovedIds = {}
  BY DEF AddedIds, ModifiedIds, RemovedIds

LEMMA EntryFacts ==
  /\ OneToOne(EntryMap, Changed)
  /\ \A i \in AddedIds : i \in Changed /\ EntryMap[i] = Entry("added", i, 0, Tm[i])
  /\ \A i \in ModifiedIds : i \in Changed /\ EntryMap[i] = Entry("modified", i, Fm[i], Tm[i])
  /\ \A i \in RemovedIds : i \in Changed /\ EntryMap[i] = Entry("removed", i, Fm[i], 0)
  <1>1. /\ \A i \in AddedIds : i \in Changed /\ EntryMap[i] = Entry("added", i, 0, Tm[i])
        /\ \A i \in ModifiedIds : i \in Changed /\ EntryMap[i] = Entry("modified", i, Fm[i], Tm[i])
        /\ \A i \in RemovedIds : i \in Changed /\ EntryMap[i] = Entry("removed", i, Fm[i], 0)
    BY Disjoint DEF EntryMap, Changed
  <1>2. ASSUME NEW i \in Changed PROVE EntryMap[i].identity = i
    <2>1. CASE i \in AddedIds
      <3>1. EntryMap[i] = Entry("added", i, 0, Tm[i])
        BY <1>1, <2>1
      <3> QED
        BY <3>1 DEF Entry
    <2>2. CASE i \in ModifiedIds
      <3>1. EntryMap[i] = Entry("modified", i, Fm[i], Tm[i])
        BY <1>1, <2>2
      <3> QED
        BY <3>1 DEF Entry
    <2>3. CASE i \in RemovedIds
      <3>1. EntryMap[i] = Entry("removed", i, Fm[i], 0)
        BY <1>1, <2>3
      <3> QED
        BY <3>1 DEF Entry
    <2> QED
      BY <2>1, <2>2, <2>3 DEF Changed
  <1> QED
    BY <1>1, <1>2 DEF OneToOne

(* The three blocks of compute_diff_iter are the entries of all changes.   *)
LEMMA EntriesHeld ==
  ASSUME Typed
  PROVE  Holds(Entries(from, to), EntryMap, Changed)
  <1> DEFINE added == Ascending(AddedIds)
             kept  == Ascending(ModifiedIds)
             gone  == Ascending(RemovedIds)
             as    == [k \in DOMAIN added |-> Entry("added", added[k], 0, Tm[added[k]])]
             ms    == [k \in DOMAIN kept |-> Entry("modified", kept[k], Fm[kept[k]], Tm[kept[k]])]
             rs    == [k \in DOMAIN gone |-> Entry("removed", gone[k], Fm[gone[k]], 0)]
  <1>1. Entries(from, to) = as \o ms \o rs
    BY DEF Entries, Fm, Tm, AddedIds, ModifiedIds, RemovedIds
  <1>2. added \in SetToSeqs(AddedIds) /\ kept \in SetToSeqs(ModifiedIds) /\ gone \in SetToSeqs(RemovedIds)
    BY ChangedFinite, AscendingSorts
  <1>3. /\ \A k \in DOMAIN added : added[k] \in AddedIds
        /\ \A k \in DOMAIN kept : kept[k] \in ModifiedIds
        /\ \A k \in DOMAIN gone : gone[k] \in RemovedIds
    BY <1>2, ChangedFinite, SetToSeqsFacts
  <1>4. OneToOne(EntryMap, AddedIds) /\ OneToOne(EntryMap, ModifiedIds) /\ OneToOne(EntryMap, RemovedIds)
    BY EntryFacts DEF OneToOne
  <1> HIDE DEF added, kept, gone
  <1>5. Holds([k \in DOMAIN added |-> EntryMap[added[k]]], EntryMap, AddedIds)
    BY <1>2, <1>4, ChangedFinite, HoldsMapped
  <1>6. Holds([k \in DOMAIN kept |-> EntryMap[kept[k]]], EntryMap, ModifiedIds)
    BY <1>2, <1>4, ChangedFinite, HoldsMapped
  <1>7. Holds([k \in DOMAIN gone |-> EntryMap[gone[k]]], EntryMap, RemovedIds)
    BY <1>2, <1>4, ChangedFinite, HoldsMapped
  <1>8. /\ as = [k \in DOMAIN added |-> EntryMap[added[k]]]
        /\ ms = [k \in DOMAIN kept |-> EntryMap[kept[k]]]
        /\ rs = [k \in DOMAIN gone |-> EntryMap[gone[k]]]
    BY <1>3, EntryFacts
  <1> HIDE DEF as, ms, rs
  <1>9. Holds(as \o ms, EntryMap, AddedIds \cup ModifiedIds)
    <2>1. OneToOne(EntryMap, AddedIds \cup ModifiedIds)
      BY EntryFacts DEF OneToOne
    <2> QED
      BY <1>5, <1>6, <1>8, <2>1, Disjoint, HoldsConcat
  <1>10. Holds((as \o ms) \o rs, EntryMap, Changed)
    <2>1. (AddedIds \cup ModifiedIds) \cap RemovedIds = {}
      BY Disjoint
    <2> QED
      BY <1>7, <1>8, <1>9, <2>1, EntryFacts, HoldsConcat DEF Changed
  <1> QED
    BY <1>1, <1>10

-----------------------------------------------------------------------------
(* The invariant: each change is either still to come or in its list.      *)

LEMMA MapsOneToOne ==
  ASSUME Typed
  PROVE  OneToOne(Tm, DOMAIN Tm) /\ OneToOne(Fm, DOMAIN Fm) /\ OneToOne(PairMap, ModifiedIds)
  <1>1. OneToOne(Tm, DOMAIN Tm) /\ OneToOne(Fm, DOMAIN Fm)
    BY ChangedFacts DEF OneToOne
  <1>2. \A i \in ModifiedIds : i \in DOMAIN Tm /\ PairMap[i] = <<Fm[i], Tm[i]>>
    BY DEF ModifiedIds, PairMap
  <1> QED
    BY <1>1, <1>2 DEF OneToOne

LEMMA DiffStart == DiffInit => DiffInv
  <1> SUFFICES ASSUME DiffInit PROVE DiffInv
    OBVIOUS
  <1>1. Typed /\ todo = Entries(from, to) /\ diff = NoDiff
    BY DEF DiffInit, Typed
  <1>2. Holds(todo, EntryMap, Changed)
    BY <1>1, EntriesHeld
  <1>3. AddedIds \ Changed = {} /\ ModifiedIds \ Changed = {} /\ RemovedIds \ Changed = {}
    BY DEF Changed
  <1>4. Progress(todo, diff, Changed)
    BY <1>1, <1>2, <1>3, HoldsNothing DEF Progress, NoDiff
  <1> QED
    BY <1>1, <1>4 DEF DiffInv, NoDiff

(* What one entry adds to its list.                                        *)
LEMMA CollectOne ==
  ASSUME DiffInv, Collect
  PROVE  /\ diff' = [added |-> diff'.added, modified |-> diff'.modified, removed |-> diff'.removed]
         /\ \E I \in SUBSET Changed : Progress(todo', diff', I)
  <1>1. Typed /\ diff = [added |-> diff.added, modified |-> diff.modified, removed |-> diff.removed]
    BY DEF DiffInv
  <1>2. PICK I \in SUBSET Changed : Progress(todo, diff, I)
    BY DEF DiffInv
  <1>3. PICK i \in I : Head(todo) = EntryMap[i] /\ Holds(Tail(todo), EntryMap, I \ {i})
    <2>1. OneToOne(EntryMap, I)
      BY EntryFacts DEF OneToOne
    <2> QED
      BY <1>2, <2>1, HoldsTail DEF Collect, Progress
  <1> DEFINE J == I \ {i}
  <1>4. /\ todo' = Tail(todo) /\ J \in SUBSET Changed
        /\ \A S : i \notin S => S \ J = S \ I
        /\ \A S : i \in S => S \ J = (S \ I) \cup {i} /\ i \notin S \ I
    BY DEF Collect
  <1>5. diff' = CASE EntryMap[i].change = "added"    -> [diff EXCEPT !.added = Append(@, EntryMap[i].after)]
                  [] EntryMap[i].change = "removed"  -> [diff EXCEPT !.removed = Append(@, EntryMap[i].before)]
                  [] EntryMap[i].change = "modified" ->
                       [diff EXCEPT !.modified = Append(@, <<EntryMap[i].before, EntryMap[i].after>>)]
    BY <1>3 DEF Collect
  <1> HIDE DEF J
  <1>6. Holds(todo', EntryMap, J)
    BY <1>3, <1>4 DEF J
  <1>7. CASE i \in AddedIds
    <2>1. EntryMap[i] = Entry("added", i, 0, Tm[i])
      BY <1>7, EntryFacts
    <2>2. EntryMap[i].change = "added" /\ EntryMap[i].after = Tm[i]
      BY <2>1 DEF Entry
    <2>3. diff' = [diff EXCEPT !.added = Append(@, Tm[i])]
      BY <1>5, <2>2
    <2>4. /\ diff'.added = Append(diff.added, Tm[i]) /\ diff'.modified = diff.modified
          /\ diff'.removed = diff.removed
          /\ diff' = [added |-> diff'.added, modified |-> diff'.modified, removed |-> diff'.removed]
      BY <1>1, <2>3
    <2>5. Holds(diff'.added, Tm, AddedIds \ J)
      <3>1. OneToOne(Tm, (AddedIds \ I) \cup {i})
        BY <1>1, <1>7, MapsOneToOne DEF OneToOne, AddedIds
      <3>2. AddedIds \ J = (AddedIds \ I) \cup {i} /\ i \notin AddedIds \ I
        BY <1>4, <1>7
      <3>3. Holds(diff.added, Tm, AddedIds \ I)
        BY <1>2 DEF Progress
      <3>4. Holds(Append(diff.added, Tm[i]), Tm, (AddedIds \ I) \cup {i})
        BY <3>1, <3>2, <3>3, HoldsAppend
      <3> QED
        BY <2>4, <3>2, <3>4
    <2>6. ModifiedIds \ J = ModifiedIds \ I /\ RemovedIds \ J = RemovedIds \ I
      BY <1>4, <1>7, Disjoint
    <2>7. Progress(todo', diff', J)
      BY <1>2, <1>6, <2>4, <2>5, <2>6 DEF Progress
    <2> QED
      BY <1>4, <2>4, <2>7
  <1>8. CASE i \in ModifiedIds
    <2>1. EntryMap[i] = Entry("modified", i, Fm[i], Tm[i])
      BY <1>8, EntryFacts
    <2>2. EntryMap[i].change = "modified" /\ EntryMap[i].before = Fm[i] /\ EntryMap[i].after = Tm[i]
      BY <2>1 DEF Entry
    <2>3. diff' = [diff EXCEPT !.modified = Append(@, PairMap[i])]
      BY <1>5, <1>8, <2>2 DEF PairMap
    <2>4. /\ diff'.modified = Append(diff.modified, PairMap[i]) /\ diff'.added = diff.added
          /\ diff'.removed = diff.removed
          /\ diff' = [added |-> diff'.added, modified |-> diff'.modified, removed |-> diff'.removed]
      BY <1>1, <2>3
    <2>5. Holds(diff'.modified, PairMap, ModifiedIds \ J)
      <3>1. OneToOne(PairMap, (ModifiedIds \ I) \cup {i})
        BY <1>1, <1>8, MapsOneToOne DEF OneToOne
      <3>2. ModifiedIds \ J = (ModifiedIds \ I) \cup {i} /\ i \notin ModifiedIds \ I
        BY <1>4, <1>8
      <3>3. Holds(diff.modified, PairMap, ModifiedIds \ I)
        BY <1>2 DEF Progress
      <3>4. Holds(Append(diff.modified, PairMap[i]), PairMap, (ModifiedIds \ I) \cup {i})
        BY <3>1, <3>2, <3>3, HoldsAppend
      <3> QED
        BY <2>4, <3>2, <3>4
    <2>6. AddedIds \ J = AddedIds \ I /\ RemovedIds \ J = RemovedIds \ I
      BY <1>4, <1>8, Disjoint
    <2>7. Progress(todo', diff', J)
      BY <1>2, <1>6, <2>4, <2>5, <2>6 DEF Progress
    <2> QED
      BY <1>4, <2>4, <2>7
  <1>9. CASE i \in RemovedIds
    <2>1. EntryMap[i] = Entry("removed", i, Fm[i], 0)
      BY <1>9, EntryFacts
    <2>2. EntryMap[i].change = "removed" /\ EntryMap[i].before = Fm[i]
      BY <2>1 DEF Entry
    <2>3. diff' = [diff EXCEPT !.removed = Append(@, Fm[i])]
      BY <1>5, <2>2
    <2>4. /\ diff'.removed = Append(diff.removed, Fm[i]) /\ diff'.added = diff.added
          /\ diff'.modified = diff.modified
          /\ diff' = [added |-> diff'.added, modified |-> diff'.modified, removed |-> diff'.removed]
      BY <1>1, <2>3
    <2>5. Holds(diff'.removed, Fm, RemovedIds \ J)
      <3>1. OneToOne(Fm, (RemovedIds \ I) \cup {i})
        BY <1>1, <1>9, MapsOneToOne DEF OneToOne, RemovedIds
      <3>2. RemovedIds \ J = (RemovedIds \ I) \cup {i} /\ i \notin RemovedIds \ I
        BY <1>4, <1>9
      <3>3. Holds(diff.removed, Fm, RemovedIds \ I)
        BY <1>2 DEF Progress
      <3>4. Holds(Append(diff.removed, Fm[i]), Fm, (RemovedIds \ I) \cup {i})
        BY <3>1, <3>2, <3>3, HoldsAppend
      <3> QED
        BY <2>4, <3>2, <3>4
    <2>6. AddedIds \ J = AddedIds \ I /\ ModifiedIds \ J = ModifiedIds \ I
      BY <1>4, <1>9, Disjoint
    <2>7. Progress(todo', diff', J)
      BY <1>2, <1>6, <2>4, <2>5, <2>6 DEF Progress
    <2> QED
      BY <1>4, <2>4, <2>7
  <1> QED
    BY <1>2, <1>7, <1>8, <1>9 DEF Changed

(* IdentityMap as a function of all it reads.                              *)
MapOf(units, ids, rows) ==
  LET Of(i)     == {k \in DOMAIN rows : units[rows[k]].identity = i}
      Winner(i) == CHOOSE k \in Of(i) : \A j \in Of(i) : j <= k
  IN  [i \in {units[u].identity : u \in ids} |-> rows[Winner(i)]]

(* Neither the table nor the snapshots change, nor what is derived of them.*)
LEMMA MapsStay ==
  ASSUME unit' = unit, from' = from, to' = to
  PROVE  /\ Fm' = Fm /\ Tm' = Tm /\ ModifiedIds' = ModifiedIds
         /\ EntryMap' = EntryMap /\ PairMap' = PairMap /\ Changed' = Changed
         /\ AddedIds' = AddedIds /\ RemovedIds' = RemovedIds
  <1>1. SortedByTime(from)' = SortedByTime(from) /\ SortedByTime(to)' = SortedByTime(to)
    BY DEF SortedByTime, Before
  <1>2. Fm' = Fm /\ Tm' = Tm
    <2>1. /\ Fm = MapOf(unit, from, SortedByTime(from))
          /\ Tm = MapOf(unit, to, SortedByTime(to))
      BY DEF Fm, Tm, IdentityMap, MapOf
    <2>2. /\ Fm' = MapOf(unit', from', SortedByTime(from)')
          /\ Tm' = MapOf(unit', to', SortedByTime(to)')
      BY DEF Fm, Tm, IdentityMap, MapOf
    <2> QED
      BY <1>1, <2>1, <2>2
  <1>3. AddedIds' = AddedIds /\ RemovedIds' = RemovedIds /\ ModifiedIds' = ModifiedIds
    BY <1>2 DEF AddedIds, RemovedIds, ModifiedIds, IsModified
  <1> QED
    BY <1>2, <1>3 DEF Changed, EntryMap, PairMap

LEMMA DiffStep ==
  ASSUME DiffInv, [DiffNext]_diffVars
  PROVE  DiffInv'
  <1>1. unit' = unit /\ from' = from /\ to' = to
    BY DEF DiffNext, Collect, Complete, diffVars
  <1>2. /\ diff' = [added |-> diff'.added, modified |-> diff'.modified, removed |-> diff'.removed]
        /\ \E I \in SUBSET Changed : Progress(todo', diff', I)
    <2>1. CASE Collect
      BY <2>1, CollectOne
    <2>2. CASE todo' = todo /\ diff' = diff
      BY <2>2 DEF DiffInv
    <2> QED
      BY <2>1, <2>2 DEF DiffNext, Complete, diffVars
  <1>3. Typed'
    BY <1>1 DEF DiffInv, Typed
  <1>4. PICK I \in SUBSET Changed : Progress(todo', diff', I)
    BY <1>2
  <1>5. Changed' = Changed
    BY <1>1, MapsStay
  <1>6. Progress(todo, diff, I)'
    BY <1>1, <1>4, MapsStay DEF Progress
  <1> QED
    BY <1>2, <1>3, <1>5, <1>6 DEF DiffInv

LEMMA DiffHolds == DiffSpec => []DiffInv
  BY DiffStart, DiffStep, PTL DEF DiffSpec

-----------------------------------------------------------------------------
(* The results.                                                            *)

LEMMA Finished ==
  ASSUME DiffInv, todo = <<>>
  PROVE  /\ Range(diff.removed) = {Fm[i] : i \in RemovedIds}
         /\ Results = {Tm[i] : i \in AddedIds \cup ModifiedIds}
  <1>1. PICK I \in SUBSET Changed : Progress(todo, diff, I)
    BY DEF DiffInv
  <1>2. I = {}
    BY <1>1, HoldsFacts DEF Progress
  <1>3. AddedIds \ I = AddedIds /\ ModifiedIds \ I = ModifiedIds /\ RemovedIds \ I = RemovedIds
    BY <1>2
  <1>4. /\ Range(diff.added) = {Tm[i] : i \in AddedIds}
        /\ Range(diff.modified) = {PairMap[i] : i \in ModifiedIds}
        /\ Range(diff.removed) = {Fm[i] : i \in RemovedIds}
    BY <1>1, <1>3, HoldsFacts DEF Progress
  <1>5. {p[2] : p \in Range(diff.modified)} = {Tm[i] : i \in ModifiedIds}
    <2>1. \A i \in ModifiedIds : PairMap[i][2] = Tm[i]
      BY DEF PairMap
    <2> DEFINE f == PairMap
    <2>2. Range(diff.modified) = {f[i] : i \in ModifiedIds} /\ \A i \in ModifiedIds : f[i][2] = Tm[i]
      BY <1>4, <2>1
    <2> HIDE DEF f
    <2> QED
      BY <2>2
  <1> QED
    BY <1>4, <1>5 DEF Results

(* A diff (compute_diff, diff.py) is a patch: applied to the one snapshot  *)
(* it gives the other, for all units they can hold, also when several have *)
(* one identity or the same created_at.                                    *)
THEOREM DiffIsPatch == DiffSpec => []PatchGivesTo
  <1>1. DiffInv => PatchGivesTo
    <2> SUFFICES ASSUME DiffInv, todo = <<>>, NEW i \in Identities
                 PROVE  /\ Patched(i) = {} <=> Candidates(to, i) = {}
                        /\ Patched(i) # {} => Patched(i) \cap LatestContents(to, i) # {}
      BY DEF PatchGivesTo
    <2>1. Typed
      BY DEF DiffInv
    <2>2. /\ i \in DOMAIN Fm => Fm[i] \in Latest(from, i)
          /\ i \in DOMAIN Tm => Tm[i] \in Latest(to, i)
          /\ i \in DOMAIN Fm <=> Candidates(from, i) # {}
          /\ i \in DOMAIN Tm <=> Candidates(to, i) # {}
      BY <2>1, ChangedFacts
    <2>3. /\ \A j \in DOMAIN Fm : unit[Fm[j]].identity = j
          /\ \A j \in DOMAIN Tm : unit[Tm[j]].identity = j
      BY <2>1, ChangedFacts
    <2>4. /\ AddedIds \cup ModifiedIds \subseteq DOMAIN Tm
          /\ RemovedIds \subseteq DOMAIN Fm
      BY DEF AddedIds, ModifiedIds, RemovedIds
    <2>5. /\ i \in AddedIds \cup ModifiedIds => Candidates(Results, i) = {Tm[i]}
          /\ i \notin AddedIds \cup ModifiedIds => Candidates(Results, i) = {}
      BY <2>3, <2>4, Finished DEF Candidates
    <2>6. i \in RemovedIds <=> Candidates(Range(diff.removed), i) # {}
      BY <2>3, <2>4, Finished DEF Candidates
    <2>7. CASE i \in AddedIds \cup ModifiedIds
      <3>1. OfIdentity(Results, i) = {unit[Tm[i]].content}
        BY <2>5, <2>7 DEF OfIdentity
      <3>2. Patched(i) = {unit[Tm[i]].content}
        BY <3>1 DEF Patched
      <3>3. unit[Tm[i]].content \in LatestContents(to, i)
        BY <2>2, <2>4, <2>7 DEF LatestContents
      <3> QED
        BY <2>2, <2>4, <2>7, <3>2, <3>3
    <2>8. CASE i \in RemovedIds
      <3>1. OfIdentity(Results, i) = {}
        BY <2>5, <2>8, Disjoint DEF OfIdentity
      <3>2. Patched(i) = {}
        BY <2>6, <2>8, <3>1 DEF Patched
      <3>3. i \notin DOMAIN Tm
        BY <2>8 DEF RemovedIds
      <3> QED
        BY <2>2, <3>2, <3>3
    <2>9. CASE i \notin AddedIds \cup ModifiedIds /\ i \notin RemovedIds
      <3>1. OfIdentity(Results, i) = {}
        BY <2>5, <2>9 DEF OfIdentity
      <3>2. Patched(i) = LatestContents(from, i)
        BY <2>6, <2>9, <3>1 DEF Patched
      <3>3. i \in DOMAIN Fm <=> i \in DOMAIN Tm
        BY <2>9 DEF AddedIds, RemovedIds
      <3>4. CASE i \notin DOMAIN Fm
        <4>1. LatestContents(from, i) = {}
          BY <2>2, <3>4 DEF LatestContents, Latest
        <4> QED
          BY <2>2, <3>2, <3>3, <3>4, <4>1
      <3>5. CASE i \in DOMAIN Fm
        <4>1. unit[Fm[i]].content = unit[Tm[i]].content
          BY <2>9, <3>3, <3>5 DEF ModifiedIds, IsModified
        <4>2. unit[Fm[i]].content \in LatestContents(from, i)
          BY <2>2, <3>5 DEF LatestContents
        <4>3. unit[Tm[i]].content \in LatestContents(to, i)
          BY <2>2, <3>3, <3>5 DEF LatestContents
        <4> QED
          BY <2>2, <3>2, <3>3, <3>5, <4>1, <4>2, <4>3
      <3> QED
        BY <3>4, <3>5
    <2> QED
      BY <2>7, <2>8, <2>9
  <1> QED
    BY <1>1, DiffHolds, PTL

(* The unit by which each change is reported.                              *)
ChangeMap == [i \in Changed |-> IF i \in RemovedIds THEN Fm[i] ELSE Tm[i]]

(* A diff reports nothing that is the same on both sides and nothing twice,*)
(* at each entry of compute_diff_iter (diff.py).                           *)
THEOREM DiffIsMinimal == DiffSpec => []Minimal
  <1>1. DiffInv => Minimal
    <2> SUFFICES ASSUME DiffInv PROVE Minimal
      OBVIOUS
    <2>1. Typed
      BY DEF DiffInv
    <2>2. PICK I \in SUBSET Changed : Progress(todo, diff, I)
      BY DEF DiffInv
    <2> DEFINE A == AddedIds \ I
               M == ModifiedIds \ I
               R == RemovedIds \ I
               after == [k \in DOMAIN diff.modified |-> diff.modified[k][2]]
               reported == diff.added \o diff.removed \o after
    <2>3. Holds(diff.added, Tm, A) /\ Holds(diff.modified, PairMap, M) /\ Holds(diff.removed, Fm, R)
      BY <2>2 DEF Progress
    <2>4. A \subseteq AddedIds /\ M \subseteq ModifiedIds /\ R \subseteq RemovedIds
      OBVIOUS
    <2>5. A \cap R = {} /\ (A \cup R) \cap M = {}
      BY Disjoint
    <2> HIDE DEF A, M, R
    <2>6. /\ AddedIds \subseteq DOMAIN Tm /\ AddedIds \cap DOMAIN Fm = {}
          /\ RemovedIds \subseteq DOMAIN Fm /\ RemovedIds \cap DOMAIN Tm = {}
          /\ ModifiedIds \subseteq DOMAIN Fm \cap DOMAIN Tm
      BY DEF AddedIds, ModifiedIds, RemovedIds
    <2>7. /\ \A i \in DOMAIN Fm : unit[Fm[i]].identity = i
          /\ \A i \in DOMAIN Tm : unit[Tm[i]].identity = i
          /\ \A i : i \in DOMAIN Fm <=> Candidates(from, i) # {}
          /\ \A i : i \in DOMAIN Tm <=> Candidates(to, i) # {}
      BY <2>1, ChangedFacts
    <2>8. ASSUME NEW u \in Range(diff.added) PROVE Candidates(from, unit[u].identity) = {}
      <3>1. PICK i \in A : u = Tm[i]
        BY <2>3, HoldsFacts
      <3>2. i \in DOMAIN Tm /\ i \notin DOMAIN Fm
        BY <2>4, <2>6
      <3> QED
        BY <2>7, <3>1, <3>2
    <2>9. ASSUME NEW u \in Range(diff.removed) PROVE Candidates(to, unit[u].identity) = {}
      <3>1. PICK i \in R : u = Fm[i]
        BY <2>3, HoldsFacts
      <3>2. i \in DOMAIN Fm /\ i \notin DOMAIN Tm
        BY <2>4, <2>6
      <3> QED
        BY <2>7, <3>1, <3>2
    <2>10. ASSUME NEW p \in Range(diff.modified)
           PROVE  /\ unit[p[1]].identity = unit[p[2]].identity
                  /\ unit[p[1]].content # unit[p[2]].content
      <3>1. PICK i \in M : p = PairMap[i]
        BY <2>3, HoldsFacts
      <3>2. i \in ModifiedIds /\ p[1] = Fm[i] /\ p[2] = Tm[i]
        BY <2>4, <3>1 DEF PairMap
      <3>3. unit[Fm[i]].content # unit[Tm[i]].content
        BY <3>2 DEF ModifiedIds, IsModified
      <3> QED
        BY <2>6, <2>7, <3>2, <3>3
    <2>11. /\ \A i \in A \cup M : ChangeMap[i] = Tm[i]
           /\ \A i \in R : ChangeMap[i] = Fm[i]
           /\ \A i \in (A \cup R) \cup M : unit[ChangeMap[i]].identity = i
      <3>1. A \cup M \cup R \subseteq Changed
        BY <2>4 DEF Changed
      <3>2. \A i \in A \cup M : ChangeMap[i] = Tm[i] /\ i \in DOMAIN Tm
        BY <2>4, <2>6, <3>1, Disjoint DEF ChangeMap
      <3>3. \A i \in R : ChangeMap[i] = Fm[i] /\ i \in DOMAIN Fm
        BY <2>4, <2>6, <3>1 DEF ChangeMap
      <3> QED
        BY <2>7, <3>2, <3>3
    <2>12. Holds(diff.added, ChangeMap, A) /\ Holds(diff.removed, ChangeMap, R)
      BY <2>3, <2>11, HoldsSame
    <2>13. Holds(after, ChangeMap, M)
      <3>1. Holds(after, Tm, M)
        <4>1. /\ \A k \in DOMAIN diff.modified : \E i \in M : diff.modified[k] = PairMap[i]
              /\ Len(diff.modified) \in Nat /\ DOMAIN diff.modified = 1..Len(diff.modified)
          BY <2>3, HoldsFacts
        <4>2. \A i \in M : PairMap[i] = <<Fm[i], Tm[i]>> /\ PairMap[i][2] = Tm[i] /\ i \in DOMAIN Tm
          BY <2>4, <2>6 DEF PairMap
        <4> DEFINE V == {Tm[i] : i \in M}
        <4>3. after \in [1..Len(diff.modified) -> V]
          BY <4>1, <4>2
        <4>4. after \in Seq(V)
          <5> HIDE DEF V, after
          <5> QED
            BY <4>1, <4>3, SeqDef
        <4>5. DOMAIN after = DOMAIN diff.modified /\ \A k \in DOMAIN after : after[k] = diff.modified[k][2]
          OBVIOUS
        <4> HIDE DEF after
        <4>6. ASSUME NEW i \in M PROVE \E k \in DOMAIN after : after[k] = Tm[i]
          <5>1. PICK k \in DOMAIN diff.modified : diff.modified[k] = PairMap[i]
            BY <2>3 DEF Holds
          <5> QED
            BY <4>2, <4>5, <5>1
        <4>7. ASSUME NEW j \in DOMAIN after, NEW k \in DOMAIN after, after[j] = after[k] PROVE j = k
          <5>1. PICK a \in M : diff.modified[j] = PairMap[a]
            BY <4>1, <4>5
          <5>2. PICK b \in M : diff.modified[k] = PairMap[b]
            BY <4>1, <4>5
          <5>3. Tm[a] = Tm[b]
            BY <4>2, <4>5, <4>7, <5>1, <5>2
          <5>4. a = b
            BY <2>7, <4>2, <5>3
          <5> QED
            BY <2>3, <4>5, <5>1, <5>2, <5>4 DEF Holds
        <4> QED
          BY <4>4, <4>6, <4>7 DEF Holds
      <3> QED
        BY <2>11, <3>1, HoldsSame
    <2> HIDE DEF after, reported
    <2>14. Holds(reported, ChangeMap, (A \cup R) \cup M)
      <3>1. OneToOne(ChangeMap, A \cup R) /\ OneToOne(ChangeMap, (A \cup R) \cup M)
        BY <2>11 DEF OneToOne
      <3>2. Holds(diff.added \o diff.removed, ChangeMap, A \cup R)
        BY <2>5, <2>12, <3>1, HoldsConcat
      <3>3. Holds((diff.added \o diff.removed) \o after, ChangeMap, (A \cup R) \cup M)
        BY <2>5, <2>13, <3>1, <3>2, HoldsConcat
      <3> QED
        BY <3>3 DEF reported
    <2>15. ASSUME NEW j \in DOMAIN reported, NEW k \in DOMAIN reported, j # k
           PROVE  unit[reported[j]].identity # unit[reported[k]].identity
      <3>1. PICK a \in (A \cup R) \cup M : reported[j] = ChangeMap[a]
        BY <2>14, HoldsFacts
      <3>2. PICK b \in (A \cup R) \cup M : reported[k] = ChangeMap[b]
        BY <2>14, HoldsFacts
      <3>3. a # b
        BY <2>14, <2>15, <3>1, <3>2 DEF Holds
      <3> QED
        BY <2>11, <3>1, <3>2, <3>3
    <2> QED
      BY <2>8, <2>9, <2>10, <2>15 DEF Minimal, reported, after
  <1> QED
    BY <1>1, DiffHolds, PTL
=============================================================================
