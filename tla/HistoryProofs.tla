---------------------------- MODULE HistoryProofs ----------------------------
(***************************************************************************)
(* The properties of History, proved for any calls, batches, clocks,       *)
(* cadence and number of restarts.                                         *)
(***************************************************************************)
EXTENDS History, ChainProofs, SequenceTheorems

Saves(c) == op[c] \in {"add", "save"}

Fresh(c) == since[c] = epoch

(* A list of messages: each is of a call that was made, and the keys are   *)
(* different numbers below its length.                                     *)
Numbered(seq, keys, ops) ==
  /\ seq \in Seq(Units)
  /\ \A i \in DOMAIN seq :
       /\ seq[i][1] \in Calls /\ ops[seq[i][1]] # "idle"
       /\ keys[seq[i]] < Len(seq)
  /\ \A i, j \in DOMAIN seq : keys[seq[i]] = keys[seq[j]] => i = j

HistoryTypeOK ==
  /\ db \in DB
  /\ addCount \in Nat
  /\ auto \in BOOLEAN
  /\ key \in [Units -> Nat]
  /\ stamp \in [Units -> Int]
  /\ clock \in Int
  /\ ready \in BOOLEAN
  /\ queue \in Seq(Calls)
  /\ inside \in Nat
  /\ inside <= Len(queue)
  /\ overtaken \in BOOLEAN
  /\ op \in [Calls -> {"idle", "add", "clear", "save", "rollback"}]
  /\ list \in [Calls -> Seq(Units)]
  /\ result \in [Calls -> {"pending", "ok", "raised"}]
  /\ restarts \in Nat
  /\ epoch \in Nat
  /\ since \in [Calls -> Nat]
  /\ \A c \in Calls : since[c] <= epoch

ListsOK ==
  /\ Numbered(kept, key, op)
  /\ \A c \in Calls : Numbered(list[c], key, op)

(* A call waits once, has not ended and has stored nothing.                *)
QueueOK ==
  /\ \A i, j \in DOMAIN queue : queue[i] = queue[j] => i = j
  /\ \A i \in DOMAIN queue :
       op[queue[i]] # "idle" /\ result[queue[i]] = "pending" /\ ~Stored(queue[i])
  /\ \A c \in Calls : op[c] = "idle" => result[c] = "pending"

(* A snapshot of the session has exactly the messages its call passed.     *)
StoredOK ==
  /\ \A r \in db.snaps :
       /\ r.session = Session
       /\ op[r.id] # "idle"
       /\ Members(db, r.id) = Range(list[r.id])
  /\ \A l \in db.links : Stored(l[1])
  /\ db.heads[Session] \in Calls \cup {None}

(* Behind a call that waits since the list last lost messages, only calls  *)
(* wait that copied a list which holds what that call copied.              *)
QueueGrows ==
  \A i, j \in DOMAIN queue :
    i < j /\ Fresh(queue[i]) =>
      /\ Fresh(queue[j])
      /\ Saves(queue[j])
      /\ Saves(queue[i]) => Range(list[queue[i]]) \subseteq Range(list[queue[j]])

KeptHolds ==
  \A i \in DOMAIN queue :
    Fresh(queue[i]) /\ Saves(queue[i]) => Range(list[queue[i]]) \subseteq Range(kept)

Returned(c) == Stored(c) /\ Saves(c) /\ result[c] = "ok" /\ Fresh(c)

(* What was returned is in the head, in the list and in all that waits.    *)
ReturnedHolds ==
  \A c \in Calls : Returned(c) =>
    /\ Range(list[c]) \subseteq InHead
    /\ Range(list[c]) \subseteq Range(kept)
    /\ \A i \in DOMAIN queue :
         /\ Fresh(queue[i])
         /\ Saves(queue[i])
         /\ Range(list[c]) \subseteq Range(list[queue[i]])

Cleared(c) == op[c] = "clear" /\ Fresh(c)

AllFresh(us) == \A u \in us : Fresh(u[1])

(* After a clear, the list and what is copied from it has new messages     *)
(* only; after it has returned, so does the head and all that may follow.  *)
ClearHolds ==
  \A c \in Calls : Cleared(c) =>
    /\ AllFresh(Range(kept))
    /\ \A i \in DOMAIN queue : Fresh(queue[i]) => AllFresh(Range(list[queue[i]]))
    /\ result[c] = "ok" =>
         AllFresh(InHead) /\ \A i \in DOMAIN queue : Fresh(queue[i])

Added(c) == op[c] = "add" /\ Fresh(c)

Covers(d) == Saves(d) /\ Fresh(d) /\ (Waiting(d) \/ Stored(d))

(* The calls of aadd_messages that no save in progress or done covers.     *)
Uncovered ==
  {c \in Calls : Added(c) /\ \A d \in Calls : Covers(d) => <<c, 1>> \notin Range(list[d])}

NoneRaised == \A d \in Calls : op[d] # "idle" /\ Fresh(d) => result[d] # "raised"

(* They are no more than the calls since the count was last a multiple.    *)
AutoCount ==
  /\ \A c \in Calls : Added(c) => <<c, 1>> \in Range(kept)
  /\ auto /\ NoneRaised =>
       IsFiniteSet(Uncovered) /\ Cardinality(Uncovered) <= addCount % Every

-----------------------------------------------------------------------------
(* Sequences.                                                              *)

LEMMA RemoveAtFacts ==
  ASSUME NEW S, NEW q \in Seq(S), NEW i \in DOMAIN q
  PROVE  /\ RemoveAt(q, i) \in Seq(S)
         /\ DOMAIN RemoveAt(q, i) = 1..(Len(q) - 1)
         /\ \A j \in 1..(Len(q) - 1) : RemoveAt(q, i)[j] = IF j < i THEN q[j] ELSE q[j + 1]
  <1> DEFINE s == SubSeq(q, 1, i - 1)
             t == SubSeq(q, i + 1, Len(q))
  <1>1. Len(q) \in Nat /\ DOMAIN q = 1..Len(q) /\ i \in 1..Len(q)
    BY LenProperties
  <1>2. /\ s \in Seq(S)
        /\ Len(s) = i - 1
        /\ \A j \in 1..(i - 1) : s[j] = q[j]
    <2>1. \A j \in 1..(i - 1) : q[j] \in S
      BY <1>1, ElementOfSeq
    <2>2. /\ s \in Seq(S)
          /\ Len(s) = IF 1 <= i - 1 THEN (i - 1) - 1 + 1 ELSE 0
          /\ \A j \in 1..((i - 1) - 1 + 1) : s[j] = q[1 + j - 1]
      <3> HIDE DEF s
      <3> QED
        BY <1>1, <2>1, SubSeqProperties DEF s
    <2> HIDE DEF s
    <2> QED
      BY <1>1, <2>2
  <1>3. /\ t \in Seq(S)
        /\ Len(t) = Len(q) - i
        /\ \A j \in 1..(Len(q) - i) : t[j] = q[j + i]
    <2>1. \A j \in (i + 1)..Len(q) : q[j] \in S
      BY <1>1, ElementOfSeq
    <2>2. /\ t \in Seq(S)
          /\ Len(t) = IF i + 1 <= Len(q) THEN Len(q) - (i + 1) + 1 ELSE 0
          /\ \A j \in 1..(Len(q) - (i + 1) + 1) : t[j] = q[i + 1 + j - 1]
      <3> HIDE DEF t
      <3> QED
        BY <1>1, <2>1, SubSeqProperties DEF t
    <2> HIDE DEF t
    <2>3. ASSUME NEW j \in 1..(Len(q) - i) PROVE t[j] = q[j + i]
      <3>1. j \in 1..(Len(q) - (i + 1) + 1) /\ i + 1 + j - 1 = j + i
        BY <1>1
      <3> QED
        BY <2>2, <3>1
    <2>4. Len(t) = Len(q) - i
      BY <1>1, <2>2
    <2> QED
      BY <2>2, <2>3, <2>4
  <1>4. RemoveAt(q, i) = s \o t
    BY DEF RemoveAt
  <1> HIDE DEF s, t
  <1>5. /\ s \o t \in Seq(S)
        /\ Len(s \o t) = Len(s) + Len(t)
        /\ \A j \in 1..(Len(s) + Len(t)) :
             (s \o t)[j] = IF j <= Len(s) THEN s[j] ELSE t[j - Len(s)]
    BY <1>2, <1>3, ConcatProperties
  <1>6. Len(s) + Len(t) = Len(q) - 1
    BY <1>1, <1>2, <1>3
  <1>7. DOMAIN (s \o t) = 1..(Len(q) - 1)
    BY <1>5, <1>6, LenProperties
  <1>8. ASSUME NEW j \in 1..(Len(q) - 1)
        PROVE  (s \o t)[j] = IF j < i THEN q[j] ELSE q[j + 1]
    <2>1. CASE j < i
      BY <1>1, <1>2, <1>5, <1>6, <2>1
    <2>2. CASE ~(j < i)
      <3>1. j - (i - 1) \in 1..(Len(q) - i) /\ ~(j <= Len(s))
        BY <1>1, <1>2, <2>2
      <3>2. t[j - (i - 1)] = q[(j - (i - 1)) + i] /\ (j - (i - 1)) + i = j + 1
        BY <1>1, <1>3, <3>1
      <3> QED
        BY <1>2, <1>5, <1>6, <2>2, <3>1, <3>2
    <2> QED
      BY <2>1, <2>2
  <1> QED
    BY <1>4, <1>5, <1>7, <1>8

LEMMA InsertAtFacts ==
  ASSUME NEW S, NEW q \in Seq(S), NEW e \in S, NEW i \in 1..(Len(q) + 1)
  PROVE  /\ InsertAt(q, i, e) \in Seq(S)
         /\ Len(InsertAt(q, i, e)) = Len(q) + 1
         /\ \A j \in 1..(Len(q) + 1) :
              InsertAt(q, i, e)[j] = IF j < i THEN q[j] ELSE IF j = i THEN e ELSE q[j - 1]
  <1> DEFINE s == SubSeq(q, 1, i - 1)
             t == SubSeq(q, i, Len(q))
             m == s \o <<e>>
  <1>1. Len(q) \in Nat /\ DOMAIN q = 1..Len(q) /\ i \in Nat /\ 1 <= i /\ i <= Len(q) + 1
    BY LenProperties
  <1>2. /\ s \in Seq(S)
        /\ Len(s) = i - 1
        /\ \A j \in 1..(i - 1) : s[j] = q[j]
    <2>1. \A j \in 1..(i - 1) : q[j] \in S
      BY <1>1, ElementOfSeq
    <2>2. /\ s \in Seq(S)
          /\ Len(s) = IF 1 <= i - 1 THEN (i - 1) - 1 + 1 ELSE 0
          /\ \A j \in 1..((i - 1) - 1 + 1) : s[j] = q[1 + j - 1]
      <3> HIDE DEF s
      <3> QED
        BY <1>1, <2>1, SubSeqProperties DEF s
    <2> HIDE DEF s
    <2> QED
      BY <1>1, <2>2
  <1>3. /\ t \in Seq(S)
        /\ Len(t) = Len(q) + 1 - i
        /\ \A j \in 1..(Len(q) + 1 - i) : t[j] = q[j + i - 1]
    <2>1. \A j \in i..Len(q) : q[j] \in S
      BY <1>1, ElementOfSeq
    <2>2. /\ t \in Seq(S)
          /\ Len(t) = IF i <= Len(q) THEN Len(q) - i + 1 ELSE 0
          /\ \A j \in 1..(Len(q) - i + 1) : t[j] = q[i + j - 1]
      <3> HIDE DEF t
      <3> QED
        BY <1>1, <2>1, SubSeqProperties DEF t
    <2> HIDE DEF t
    <2>3. ASSUME NEW j \in 1..(Len(q) + 1 - i) PROVE t[j] = q[j + i - 1]
      <3>1. j \in 1..(Len(q) - i + 1) /\ i + j - 1 = j + i - 1
        BY <1>1
      <3> QED
        BY <2>2, <3>1
    <2>4. Len(t) = Len(q) + 1 - i
      BY <1>1, <2>2
    <2> QED
      BY <2>2, <2>3, <2>4
  <1>4. InsertAt(q, i, e) = m \o t
    BY DEF InsertAt
  <1> HIDE DEF s, t
  <1>5. /\ m \in Seq(S)
        /\ Len(m) = i
        /\ \A j \in 1..(i - 1) : m[j] = q[j]
        /\ m[i] = e
    <2>1. <<e>> \in Seq(S) /\ Len(<<e>>) = 1 /\ <<e>>[1] = e
      OBVIOUS
    <2>2. /\ m \in Seq(S)
          /\ Len(m) = Len(s) + Len(<<e>>)
          /\ \A j \in 1..(Len(s) + Len(<<e>>)) :
               m[j] = IF j <= Len(s) THEN s[j] ELSE <<e>>[j - Len(s)]
      <3> HIDE DEF m
      <3> QED
        BY <1>2, <2>1, ConcatProperties DEF m
    <2> HIDE DEF m
    <2>3. Len(m) = i
      BY <1>1, <1>2, <2>1, <2>2
    <2>4. ASSUME NEW j \in 1..(i - 1) PROVE m[j] = q[j]
      BY <1>1, <1>2, <2>1, <2>2
    <2>5. m[i] = e
      <3>1. i \in 1..(Len(s) + Len(<<e>>)) /\ ~(i <= Len(s)) /\ i - Len(s) = 1
        BY <1>1, <1>2, <2>1
      <3> QED
        BY <2>1, <2>2, <3>1
    <2> QED
      BY <2>2, <2>3, <2>4, <2>5
  <1> HIDE DEF m
  <1>6. /\ m \o t \in Seq(S)
        /\ Len(m \o t) = Len(m) + Len(t)
        /\ \A j \in 1..(Len(m) + Len(t)) :
             (m \o t)[j] = IF j <= Len(m) THEN m[j] ELSE t[j - Len(m)]
    BY <1>3, <1>5, ConcatProperties
  <1>7. Len(m) + Len(t) = Len(q) + 1
    BY <1>1, <1>3, <1>5
  <1>8. ASSUME NEW j \in 1..(Len(q) + 1)
        PROVE  (m \o t)[j] = IF j < i THEN q[j] ELSE IF j = i THEN e ELSE q[j - 1]
    <2>1. CASE j < i
      BY <1>1, <1>5, <1>6, <1>7, <2>1
    <2>2. CASE j = i
      BY <1>1, <1>5, <1>6, <1>7, <2>2
    <2>3. CASE i < j
      <3>1. j - i \in 1..(Len(q) + 1 - i) /\ ~(j <= Len(m)) /\ Len(m) = i
        BY <1>1, <1>5, <2>3
      <3>2. t[j - i] = q[(j - i) + i - 1] /\ (j - i) + i - 1 = j - 1
        BY <1>1, <1>3, <3>1
      <3> QED
        BY <1>1, <1>6, <1>7, <2>3, <3>1, <3>2
    <2>4. j < i \/ j = i \/ i < j
      BY <1>1
    <2> QED
      BY <2>1, <2>2, <2>3, <2>4
  <1> QED
    BY <1>4, <1>6, <1>7, <1>8

LEMMA ConcatRange ==
  ASSUME NEW S, NEW s \in Seq(S), NEW t \in Seq(S)
  PROVE  Range(s \o t) = Range(s) \cup Range(t)
  <1>1. /\ Len(s) \in Nat /\ DOMAIN s = 1..Len(s)
        /\ Len(t) \in Nat /\ DOMAIN t = 1..Len(t)
    BY LenProperties
  <1>2. /\ s \o t \in Seq(S)
        /\ Len(s \o t) = Len(s) + Len(t)
        /\ \A i \in 1..(Len(s) + Len(t)) :
             (s \o t)[i] = IF i <= Len(s) THEN s[i] ELSE t[i - Len(s)]
    BY ConcatProperties
  <1>3. DOMAIN (s \o t) = 1..(Len(s) + Len(t))
    BY <1>2, LenProperties
  <1>4. ASSUME NEW x \in Range(s \o t) PROVE x \in Range(s) \cup Range(t)
    <2>1. PICK i \in 1..(Len(s) + Len(t)) : x = (s \o t)[i]
      BY <1>3 DEF Range
    <2>2. CASE i <= Len(s)
      BY <1>1, <1>2, <2>1, <2>2 DEF Range
    <2>3. CASE ~(i <= Len(s))
      <3>1. i - Len(s) \in DOMAIN t
        BY <1>1, <2>3
      <3> QED
        BY <1>2, <2>1, <2>3, <3>1 DEF Range
    <2> QED
      BY <2>2, <2>3
  <1>5. ASSUME NEW x \in Range(s) PROVE x \in Range(s \o t)
    <2>1. PICK i \in DOMAIN s : x = s[i]
      BY DEF Range
    <2>2. i \in 1..(Len(s) + Len(t)) /\ i <= Len(s)
      BY <1>1
    <2> QED
      BY <1>2, <1>3, <2>1, <2>2 DEF Range
  <1>6. ASSUME NEW x \in Range(t) PROVE x \in Range(s \o t)
    <2>1. PICK i \in DOMAIN t : x = t[i]
      BY DEF Range
    <2>2. i + Len(s) \in 1..(Len(s) + Len(t)) /\ ~(i + Len(s) <= Len(s)) /\ (i + Len(s)) - Len(s) = i
      BY <1>1
    <2> QED
      BY <1>2, <1>3, <2>1, <2>2 DEF Range
  <1> QED
    BY <1>4, <1>5, <1>6

LEMMA AppendRange ==
  ASSUME NEW S, NEW s \in Seq(S), NEW x \in S
  PROVE  Range(Append(s, x)) = Range(s) \cup {x}
  <1>1. /\ Append(s, x) \in Seq(S)
        /\ Len(s) \in Nat /\ DOMAIN s = 1..Len(s)
        /\ DOMAIN Append(s, x) = 1..(Len(s) + 1)
        /\ \A i \in 1..Len(s) : Append(s, x)[i] = s[i]
        /\ Append(s, x)[Len(s) + 1] = x
    BY LenProperties, AppendProperties
  <1>2. \A i \in 1..(Len(s) + 1) : i \in 1..Len(s) \/ i = Len(s) + 1
    BY <1>1
  <1>3. 1..Len(s) \subseteq 1..(Len(s) + 1) /\ Len(s) + 1 \in 1..(Len(s) + 1)
    BY <1>1
  <1> QED
    BY <1>1, <1>2, <1>3 DEF Range

-----------------------------------------------------------------------------
(* The queue of the lock.                                                  *)

LEMMA QueueTyped ==
  ASSUME HistoryTypeOK
  PROVE  /\ Len(queue) \in Nat
         /\ DOMAIN queue = 1..Len(queue)
         /\ \A i \in DOMAIN queue : queue[i] \in Calls
  BY LenProperties, ElementOfSeq DEF HistoryTypeOK

LEMMA LeaveQueue ==
  ASSUME HistoryTypeOK, QueueOK, NEW c \in Calls, NEW r, Leave(c, r)
  PROVE  /\ queue' \in Seq(Calls)
         /\ Waiting(c)
         /\ \A j, k \in DOMAIN queue' : j < k =>
              \E m, n \in DOMAIN queue : m < n /\ queue[m] = queue'[j] /\ queue[n] = queue'[k]
         /\ \A j \in DOMAIN queue' :
              queue'[j] # c /\ \E m \in DOMAIN queue : queue[m] = queue'[j]
         /\ \A m \in DOMAIN queue :
              queue[m] # c => \E j \in DOMAIN queue' : queue'[j] = queue[m]
         /\ \A j, k \in DOMAIN queue' : queue'[j] = queue'[k] => j = k
         /\ inside' \in Nat /\ inside' <= Len(queue')
  <1>1. PICK i \in DOMAIN queue :
          /\ queue[i] = c
          /\ queue' = RemoveAt(queue, i)
          /\ inside' = IF i <= inside THEN inside - 1 ELSE inside
    BY DEF Leave
  <1> DEFINE n    == Len(queue)
             f(j) == IF j < i THEN j ELSE j + 1
  <1>2. n \in Nat /\ DOMAIN queue = 1..n /\ queue \in Seq(Calls)
    BY QueueTyped DEF HistoryTypeOK
  <1>3. /\ queue' \in Seq(Calls)
        /\ DOMAIN queue' = 1..(n - 1)
        /\ \A j \in 1..(n - 1) : queue'[j] = IF j < i THEN queue[j] ELSE queue[j + 1]
    BY <1>1, <1>2, RemoveAtFacts
  <1> HIDE DEF n
  <1>4. ASSUME NEW j \in DOMAIN queue'
        PROVE  f(j) \in DOMAIN queue /\ f(j) # i /\ queue'[j] = queue[f(j)]
    <2>1. CASE j < i
      BY <1>2, <1>3, <2>1
    <2>2. CASE ~(j < i)
      BY <1>2, <1>3, <2>2
    <2> QED
      BY <2>1, <2>2
  <1>5. ASSUME NEW j \in DOMAIN queue', NEW k \in DOMAIN queue', j < k
        PROVE  f(j) < f(k)
    BY <1>2, <1>3, <1>5
  <1>6. ASSUME NEW m \in DOMAIN queue, m # i
        PROVE  \E j \in DOMAIN queue' : f(j) = m
    <2>1. CASE m < i
      <3>1. m \in DOMAIN queue' /\ f(m) = m
        BY <1>2, <1>3, <2>1
      <3> QED
        BY <3>1
    <2>2. CASE ~(m < i)
      <3>1. m - 1 \in DOMAIN queue' /\ f(m - 1) = m
        BY <1>2, <1>3, <1>6, <2>2
      <3> QED
        BY <3>1
    <2> QED
      BY <2>1, <2>2
  <1>7. \A a, b \in DOMAIN queue : queue[a] = queue[b] => a = b
    BY DEF QueueOK
  <1>8. ASSUME NEW j \in DOMAIN queue', NEW k \in DOMAIN queue', queue'[j] = queue'[k]
        PROVE  j = k
    <2>1. f(j) = f(k)
      BY <1>4, <1>7, <1>8
    <2>2. ~(j < k) /\ ~(k < j) /\ j \in Nat /\ k \in Nat
      <3>1. f(j) \in Nat /\ f(k) \in Nat /\ j \in Nat /\ k \in Nat
        BY <1>2, <1>3
      <3> QED
        BY <1>5, <2>1, <3>1
    <2> QED
      BY <2>2
  <1> HIDE DEF f
  <1>9. Waiting(c)
    BY <1>1 DEF Waiting
  <1>10. \A j, k \in DOMAIN queue' : j < k =>
           \E a, b \in DOMAIN queue : a < b /\ queue[a] = queue'[j] /\ queue[b] = queue'[k]
    BY <1>4, <1>5
  <1>11. \A j \in DOMAIN queue' :
           queue'[j] # c /\ \E m \in DOMAIN queue : queue[m] = queue'[j]
    BY <1>1, <1>4, <1>7
  <1>12. \A m \in DOMAIN queue :
           queue[m] # c => \E j \in DOMAIN queue' : queue'[j] = queue[m]
    BY <1>1, <1>4, <1>6
  <1>13. inside' \in Nat /\ inside' <= Len(queue')
    <2>1. inside \in Nat /\ inside <= n
      BY DEF HistoryTypeOK, n
    <2>2. Len(queue') \in Nat /\ 1..Len(queue') = 1..(n - 1)
      BY <1>3, LenProperties
    <2>3. Len(queue') = n - 1
      <3>1. n >= 1
        BY <1>1, <1>2
      <3> HIDE DEF n
      <3>2. n - 1 \in Nat
        BY <1>2, <3>1
      <3> QED
        BY <1>2, <2>2, <3>2
    <2> QED
      BY <1>1, <1>2, <2>1, <2>3
  <1> QED
    BY <1>3, <1>8, <1>9, <1>10, <1>11, <1>12, <1>13

ComesLast(c) ==
  /\ DOMAIN queue' = 1..(Len(queue) + 1)
  /\ \A i \in DOMAIN queue : queue'[i] = queue[i]
  /\ queue'[Len(queue) + 1] = c

(* A call starts to wait, behind all others unless it overtakes some.      *)
Joins(c) ==
  /\ \A j \in DOMAIN queue' : queue'[j] = c \/ \E i \in DOMAIN queue : queue'[j] = queue[i]
  /\ \A i \in DOMAIN queue : \E j \in DOMAIN queue' : queue'[j] = queue[i]
  /\ \E j \in DOMAIN queue' : queue'[j] = c
  /\ overtaken' \/ ComesLast(c)

LEMMA JoinQueue ==
  ASSUME HistoryTypeOK, QueueOK, NEW c \in Calls, \A i \in DOMAIN queue : queue[i] # c,
         NEW place \in 1..(Len(queue) + 1), queue' = InsertAt(queue, place, c),
         place <= Len(queue) => overtaken'
  PROVE  /\ Joins(c)
         /\ queue' \in Seq(Calls)
         /\ Len(queue') = Len(queue) + 1
         /\ \A j, k \in DOMAIN queue' : queue'[j] = queue'[k] => j = k
  <1> DEFINE n    == Len(queue)
             f(j) == IF j < place THEN j ELSE j - 1
  <1>1. n \in Nat /\ DOMAIN queue = 1..n /\ queue \in Seq(Calls)
    BY QueueTyped DEF HistoryTypeOK
  <1>2. /\ queue' \in Seq(Calls)
        /\ Len(queue') = n + 1
        /\ \A j \in 1..(n + 1) :
             queue'[j] = IF j < place THEN queue[j] ELSE IF j = place THEN c ELSE queue[j - 1]
    <2> HIDE DEF n, f
    <2>1. queue \in Seq(Calls)
      BY <1>1
    <2>2. /\ InsertAt(queue, place, c) \in Seq(Calls)
          /\ Len(InsertAt(queue, place, c)) = Len(queue) + 1
      BY <2>1, InsertAtFacts
    <2>3. \A j \in 1..(Len(queue) + 1) :
            InsertAt(queue, place, c)[j] =
              IF j < place THEN queue[j] ELSE IF j = place THEN c ELSE queue[j - 1]
      <3> DEFINE At(s, i, e, j) ==
                   InsertAt(s, i, e)[j] =
                     IF j < i THEN s[j] ELSE IF j = i THEN e ELSE s[j - 1]
      <3>1. \A s \in Seq(Calls), e \in Calls : \A i \in 1..(Len(s) + 1) :
              \A j \in 1..(Len(s) + 1) : At(s, i, e, j)
        BY InsertAtFacts
      <3> HIDE DEF At
      <3>2. \A j \in 1..(Len(queue) + 1) : At(queue, place, c, j)
        BY <2>1, <3>1
      <3> QED
        BY <3>2 DEF At
    <2> QED
      BY <2>2, <2>3 DEF n
  <1> HIDE DEF n
  <1>3. DOMAIN queue' = 1..(n + 1) /\ place \in DOMAIN queue' /\ queue'[place] = c
    <2>1. DOMAIN queue' = 1..(n + 1)
      BY <1>2, LenProperties
    <2> QED
      BY <1>1, <1>2, <2>1 DEF n
  <1>4. ASSUME NEW j \in DOMAIN queue', j # place
        PROVE  f(j) \in DOMAIN queue /\ queue'[j] = queue[f(j)]
    <2>1. CASE j < place
      BY <1>1, <1>2, <1>3, <2>1 DEF n
    <2>2. CASE ~(j < place)
      BY <1>1, <1>2, <1>3, <1>4, <2>2
    <2> QED
      BY <2>1, <2>2
  <1>5. ASSUME NEW j \in DOMAIN queue', NEW k \in DOMAIN queue', j # place, k # place, f(j) = f(k)
        PROVE  j = k
    BY <1>1, <1>3, <1>5
  <1>6. ASSUME NEW m \in DOMAIN queue
        PROVE  \E j \in DOMAIN queue' : j # place /\ f(j) = m
    <2>1. CASE m < place
      <3>1. m \in DOMAIN queue' /\ m # place /\ f(m) = m
        BY <1>1, <1>3, <2>1
      <3> QED
        BY <3>1
    <2>2. CASE ~(m < place)
      <3>1. m + 1 \in DOMAIN queue' /\ m + 1 # place /\ f(m + 1) = m
        BY <1>1, <1>3, <2>2
      <3> QED
        BY <3>1
    <2> QED
      BY <2>1, <2>2
  <1> HIDE DEF f
  <1>7. \A a, b \in DOMAIN queue : queue[a] = queue[b] => a = b
    BY DEF QueueOK
  <1>8. ASSUME NEW j \in DOMAIN queue', NEW k \in DOMAIN queue', queue'[j] = queue'[k]
        PROVE  j = k
    <2>1. CASE j = place \/ k = place
      BY <1>3, <1>4, <1>8, <2>1
    <2>2. CASE j # place /\ k # place
      <3>1. f(j) = f(k)
        BY <1>4, <1>7, <1>8, <2>2
      <3> QED
        BY <1>5, <2>2, <3>1
    <2> QED
      BY <2>1, <2>2
  <1>9. ASSUME ~overtaken' PROVE ComesLast(c)
    <2>1. place = n + 1
      BY <1>1, <1>9 DEF n
    <2>2. \A i \in 1..n : i < place /\ i \in 1..(n + 1)
      BY <1>1, <2>1
    <2>3. \A i \in DOMAIN queue : queue'[i] = queue[i]
      BY <1>1, <1>2, <2>2
    <2> QED
      BY <1>3, <2>1, <2>3 DEF ComesLast, n
  <1>10. Joins(c)
    <2>1. \A i \in DOMAIN queue : \E j \in DOMAIN queue' : queue'[j] = queue[i]
      BY <1>4, <1>6
    <2>2. overtaken' \/ ComesLast(c)
      BY <1>9
    <2> QED
      BY <1>3, <1>4, <2>1, <2>2 DEF Joins
  <1> QED
    BY <1>2, <1>8, <1>10 DEF n

-----------------------------------------------------------------------------
(* What a call stores.                                                     *)

LEMMA RangeFinite ==
  ASSUME NEW S, NEW s \in Seq(S)
  PROVE  Range(s) \subseteq S /\ IsFiniteSet(Range(s))
  <1>1. DOMAIN s = 1..Len(s) /\ Len(s) \in Nat /\ s \in [1..Len(s) -> S]
    BY LenProperties
  <1>2. Range(s) \subseteq S
    BY <1>1 DEF Range
  <1>3. IsFiniteSet(1..Len(s))
    BY <1>1, FS_Interval
  <1>4. s \in Surjection(1..Len(s), Range(s))
    BY <1>1 DEF Surjection, Range
  <1>5. IsFiniteSet(Range(s))
    BY <1>3, <1>4, FS_Surjection
  <1> QED
    BY <1>2, <1>5

Stores(c) ==
  /\ db' \in DB
  /\ ~Stored(c)
  /\ \A d \in Calls : Stored(d)' <=> Stored(d) \/ d = c
  /\ \E r \in SnapshotRow : r.id = c /\ r.session = Session /\ db'.snaps = db.snaps \cup {r}
  /\ db'.links = db.links \cup ({c} \X Range(list[c]))
  /\ db'.heads[Session] = c

LEMMA StoreFacts ==
  ASSUME HistoryTypeOK, StoredOK, NEW c \in Calls, Store(c)
  PROVE  Stores(c)
  <1> DEFINE r == [id |-> c, session |-> Session, parent |-> db.heads[Session]]
             us == [u \in Units |-> IF u \in Range(list[c]) /\ db.units[u] = None
                                      THEN c ELSE db.units[u]]
  <1>1. /\ HasSession(db, Session) /\ ~HasSnapshot(db, c)
        /\ db' = [db EXCEPT !.heads[Session] = c, !.snaps = db.snaps \cup {r}, !.units = us,
                            !.links = db.links \cup ({c} \X Range(list[c]))]
    BY DEF Store, Advance
  <1>2. Session \in Sessions
    BY HistoryAssumption DEF Sessions
  <1>3. db \in DB
    BY DEF HistoryTypeOK
  <1>4. r \in SnapshotRow
    BY <1>1, <1>2, <1>3 DEF SnapshotRow, HasSession, DB
  <1>5. us \in [Units -> Calls \cup {None}]
    BY <1>3 DEF DB
  <1>6. {c} \X Range(list[c]) \subseteq Calls \X Units
    BY RangeFinite DEF HistoryTypeOK
  <1>7. r.id = c /\ r.session = Session
    OBVIOUS
  <1> HIDE DEF r, us
  <1>8. /\ db'.snaps = db.snaps \cup {r}
        /\ db'.links = db.links \cup ({c} \X Range(list[c]))
        /\ db'.heads = [db.heads EXCEPT ![Session] = c]
        /\ db' \in DB
    <2>1. [db.heads EXCEPT ![Session] = c] \in [Sessions -> Calls \cup {None, Absent}]
      BY <1>3 DEF DB
    <2> QED
      BY <1>1, <1>3, <1>4, <1>5, <1>6, <2>1 DEF DB
  <1>9. db'.heads[Session] = c
    BY <1>2, <1>3, <1>8 DEF DB
  <1>10. \A d \in Calls : Stored(d)' <=> Stored(d) \/ d = c
    BY <1>7, <1>8 DEF Stored, HasSnapshot
  <1>11. ~Stored(c)
    BY <1>1 DEF Stored
  <1> QED
    BY <1>4, <1>7, <1>8, <1>9, <1>10, <1>11 DEF Stores

LEMMA StoreMembers ==
  ASSUME HistoryTypeOK, StoredOK, NEW c \in Calls, Stores(c), op[c] # "idle",
         UNCHANGED <<op, list>>
  PROVE  StoredOK' /\ InHead' = Range(list[c])
  <1>1. PICK r \in SnapshotRow :
          r.id = c /\ r.session = Session /\ db'.snaps = db.snaps \cup {r}
    BY DEF Stores
  <1>2. Range(list[c]) \subseteq Units
    BY RangeFinite DEF HistoryTypeOK
  <1>3. \A u : <<c, u>> \notin db.links
    <2>1. \A l \in db.links : l[1] # c
      BY DEF Stores, StoredOK
    <2> QED
      BY <2>1
  <1>4. Members(db', c) = Range(list[c])
    BY <1>2, <1>3 DEF Stores, Members
  <1>5. ASSUME NEW x \in db.snaps PROVE x.id # c /\ Members(db', x.id) = Members(db, x.id)
    <2>1. x.id # c
      BY DEF Stores, Stored, HasSnapshot
    <2> QED
      BY <2>1 DEF Stores, Members
  <1>6. \A x \in db'.snaps :
          x.session = Session /\ op'[x.id] # "idle" /\ Members(db', x.id) = Range(list'[x.id])
    BY <1>1, <1>4, <1>5 DEF StoredOK
  <1>7. \A l \in db'.links : Stored(l[1])'
    <2>1. ASSUME NEW l \in db'.links PROVE Stored(l[1])'
      <3>1. CASE l \in db.links
        <4>1. l[1] \in Calls
          BY <3>1 DEF HistoryTypeOK, DB
        <4> QED
          BY <3>1, <4>1 DEF StoredOK, Stores
      <3>2. CASE l \in {c} \X Range(list[c])
        BY <3>2 DEF Stores
      <3> QED
        BY <3>1, <3>2 DEF Stores
    <2> QED
      BY <2>1
  <1>8. db'.heads[Session] = c
    BY DEF Stores
  <1>9. None \notin Calls
    BY DatabaseAssumption
  <1>10. InHead' = Range(list[c])
    BY <1>4, <1>8, <1>9 DEF InHead
  <1>11. StoredOK'
    BY <1>6, <1>7, <1>8 DEF StoredOK
  <1> QED
    BY <1>10, <1>11

-----------------------------------------------------------------------------
(* The messages of a list and their keys.                                  *)

LEMMA NumberedStays ==
  ASSUME NEW seq, NEW keys, NEW ops, NEW keys2, NEW ops2,
         Numbered(seq, keys, ops),
         \A u \in Units : u[1] \in Calls /\ ops[u[1]] # "idle" => keys2[u] = keys[u],
         \A d \in Calls : ops[d] # "idle" => ops2[d] # "idle"
  PROVE  Numbered(seq, keys2, ops2)
  <1>1. seq \in Seq(Units) /\ \A i \in DOMAIN seq : seq[i] \in Units
    BY RangeFinite DEF Numbered, Range
  <1>2. \A i \in DOMAIN seq : keys2[seq[i]] = keys[seq[i]]
    BY <1>1 DEF Numbered
  <1> QED
    BY <1>1, <1>2 DEF Numbered

NewMessages(c, n) == [i \in 1..n |-> <<c, i>>]

LEMMA NewFacts ==
  ASSUME NEW c \in Calls, NEW n \in Batches
  PROVE  /\ n \in Nat \ {0}
         /\ NewMessages(c, n) \in Seq(Units)
         /\ Len(NewMessages(c, n)) = n
         /\ DOMAIN NewMessages(c, n) = 1..n
         /\ \A i \in 1..n : NewMessages(c, n)[i] = <<c, i>>
         /\ \A u \in Range(NewMessages(c, n)) : u[1] = c
         /\ <<c, 1>> \in Range(NewMessages(c, n))
  <1> DEFINE new == NewMessages(c, n)
  <1>1. n \in Nat \ {0} /\ Calls \X (1..n) \subseteq Units
    BY HistoryAssumption
  <1>2. DOMAIN new = 1..n /\ \A i \in 1..n : new[i] = <<c, i>>
    BY DEF NewMessages
  <1>3. \A i \in 1..n : new[i] \in Units
    BY <1>1, <1>2
  <1>4. new \in [1..n -> Units]
    BY <1>3 DEF NewMessages
  <1>5. new \in Seq(Units)
    BY <1>1, <1>4, SeqDef
  <1>6. Len(new) = n
    BY <1>1, <1>2, <1>5, LenProperties
  <1>7. 1 \in 1..n
    BY <1>1
  <1> HIDE DEF new
  <1>8. \A u \in Range(new) : u[1] = c
    BY <1>2 DEF Range
  <1>9. <<c, 1>> \in Range(new)
    BY <1>2, <1>7 DEF Range
  <1> QED
    BY <1>1, <1>2, <1>5, <1>6, <1>8, <1>9 DEF new

GivesKeys(keys2, keys, start, new) ==
  \A u \in Units : keys2[u] = IF u \in Range(new) THEN start + u[2] - 1 ELSE keys[u]

LEMMA NumberedGrows ==
  ASSUME NEW seq, NEW keys \in [Units -> Nat], NEW ops, NEW ops2,
         Numbered(seq, keys, ops),
         NEW c \in Calls, ops[c] = "idle", NEW n \in Batches,
         \A d \in Calls : ops[d] # "idle" => ops2[d] # "idle",
         ops2[c] # "idle", NEW keys2, GivesKeys(keys2, keys, Len(seq), NewMessages(c, n))
  PROVE  Numbered(seq \o NewMessages(c, n), keys2, ops2)
  <1> DEFINE new   == NewMessages(c, n)
             m     == Len(seq)
             all   == seq \o new
  <1>1. /\ n \in Nat \ {0} /\ new \in Seq(Units) /\ Len(new) = n /\ DOMAIN new = 1..n
        /\ \A i \in 1..n : new[i] = <<c, i>>
        /\ \A u \in Range(new) : u[1] = c
    BY NewFacts
  <1>2. /\ seq \in Seq(Units) /\ m \in Nat /\ DOMAIN seq = 1..m
        /\ \A i \in 1..m : seq[i] \in Units
    BY LenProperties, ElementOfSeq DEF Numbered
  <1>11. \A u \in Units : keys2[u] = IF u \in Range(new) THEN m + u[2] - 1 ELSE keys[u]
    BY DEF GivesKeys
  <1> HIDE DEF new
  <1>3. /\ all \in Seq(Units)
        /\ Len(all) = m + n
        /\ \A i \in 1..(m + n) : all[i] = IF i <= m THEN seq[i] ELSE new[i - m]
    BY <1>1, <1>2, ConcatProperties
  <1>4. DOMAIN all = 1..(m + n)
    BY <1>3, LenProperties
  <1>5. ASSUME NEW i \in 1..m
        PROVE  all[i] = seq[i] /\ keys2[all[i]] = keys[seq[i]] /\ keys[seq[i]] \in Nat
               /\ keys[seq[i]] < m /\ seq[i][1] \in Calls /\ ops[seq[i][1]] # "idle"
    <2>1. i \in 1..(m + n) /\ i <= m
      BY <1>1, <1>2
    <2>2. all[i] = seq[i]
      BY <1>3, <2>1
    <2>3. seq[i][1] \in Calls /\ ops[seq[i][1]] # "idle" /\ keys[seq[i]] < m
      BY <1>2 DEF Numbered
    <2>4. seq[i] \notin Range(new) /\ seq[i] \in Units
      BY <1>1, <1>2, <2>3
    <2>5. keys2[seq[i]] = keys[seq[i]]
      BY <1>11, <2>4
    <2> QED
      BY <2>2, <2>3, <2>4, <2>5
  <1>6. ASSUME NEW i \in (m + 1)..(m + n)
        PROVE  all[i] = <<c, i - m>> /\ keys2[all[i]] = i - 1
    <2>1. i \in 1..(m + n) /\ ~(i <= m) /\ i - m \in 1..n
      BY <1>1, <1>2
    <2>2. all[i] = <<c, i - m>>
      BY <1>1, <1>3, <2>1
    <2>3. all[i] \in Range(new)
      BY <1>1, <2>1, <2>2 DEF Range
    <2>4. all[i] \in Units /\ all[i][2] = i - m
      <3>1. new[i - m] \in Units
        BY <1>1, <2>1, ElementOfSeq
      <3>2. new[i - m] = <<c, i - m>>
        BY <1>1, <2>1
      <3>3. all[i] \in Units
        BY <2>2, <3>1, <3>2
      <3>4. <<c, i - m>>[2] = i - m
        OBVIOUS
      <3> QED
        BY <2>2, <3>3, <3>4
    <2>5. keys2[all[i]] = m + all[i][2] - 1
      BY <1>11, <2>3, <2>4
    <2> HIDE DEF all
    <2>6. m + (i - m) - 1 = i - 1
      BY <1>2, <2>1
    <2> QED
      BY <2>2, <2>4, <2>5, <2>6
  <1>7. \A i \in 1..(m + n) : i \in 1..m \/ i \in (m + 1)..(m + n)
    BY <1>1, <1>2
  <1> HIDE DEF all
  <1>8. ASSUME NEW i \in DOMAIN all
        PROVE  all[i][1] \in Calls /\ ops2[all[i][1]] # "idle" /\ keys2[all[i]] < Len(all)
    <2>1. CASE i \in 1..m
      <3>1. /\ keys2[all[i]] = keys[seq[i]] /\ keys[seq[i]] \in Nat /\ keys[seq[i]] < m
            /\ all[i] = seq[i] /\ seq[i][1] \in Calls /\ ops[seq[i][1]] # "idle"
        BY <1>5, <2>1
      <3>2. keys2[all[i]] < m + n
        BY <1>1, <1>2, <3>1
      <3> QED
        BY <1>3, <3>1, <3>2
    <2>2. CASE i \in (m + 1)..(m + n)
      <3>1. keys2[all[i]] = i - 1 /\ all[i] = <<c, i - m>>
        BY <1>6, <2>2
      <3>2. i - 1 < m + n
        BY <1>1, <1>2, <2>2
      <3> QED
        BY <1>3, <3>1, <3>2
    <2> QED
      BY <1>4, <1>7, <2>1, <2>2
  <1>9. ASSUME NEW i \in DOMAIN all, NEW j \in DOMAIN all, keys2[all[i]] = keys2[all[j]]
        PROVE  i = j
    <2>1. CASE i \in 1..m /\ j \in 1..m
      <3>1. keys[seq[i]] = keys[seq[j]]
        BY <1>5, <1>9, <2>1
      <3> QED
        BY <1>2, <2>1, <3>1 DEF Numbered
    <2>2. CASE i \in (m + 1)..(m + n) /\ j \in (m + 1)..(m + n)
      <3>1. i - 1 = j - 1
        BY <1>6, <1>9, <2>2
      <3> QED
        BY <1>2, <2>2, <3>1
    <2>3. ASSUME NEW a \in 1..m, NEW b \in (m + 1)..(m + n) PROVE keys2[all[a]] # keys2[all[b]]
      <3>1. keys2[all[a]] \in Nat /\ keys2[all[a]] < m /\ keys2[all[b]] = b - 1
        BY <1>5, <1>6
      <3>2. b - 1 >= m
        BY <1>2, <2>3
      <3> QED
        BY <1>2, <3>1, <3>2
    <2> QED
      BY <1>4, <1>7, <1>9, <2>1, <2>2, <2>3
  <1>10. Numbered(all, keys2, ops2)
    BY <1>3, <1>8, <1>9 DEF Numbered
  <1> QED
    BY <1>10 DEF new, all

-----------------------------------------------------------------------------
(* A call is made.                                                         *)

Others(c) ==
  \A d \in Calls : d # c => op'[d] = op[d] /\ list'[d] = list[d] /\ result'[d] = result[d]

Made(c, what, saves, us) ==
  /\ op[c] = "idle" /\ ~Stored(c) /\ \A i \in DOMAIN queue : queue[i] # c
  /\ op'[c] = what /\ list'[c] = us
  /\ result'[c] = IF saves THEN "pending" ELSE "ok"
  /\ Others(c)
  /\ db' = db /\ restarts' = restarts
  /\ saves => Joins(c)
  /\ ~saves => queue' = queue
  /\ queue' \in Seq(Calls)
  /\ inside' \in Nat /\ inside' <= Len(queue')
  /\ ready' \in BOOLEAN /\ overtaken' \in BOOLEAN
  /\ op' \in [Calls -> {"idle", "add", "clear", "save", "rollback"}]
  /\ list' \in [Calls -> Seq(Units)]
  /\ result' \in [Calls -> {"pending", "ok", "raised"}]
  /\ QueueOK' /\ StoredOK'

LEMMA MakeFacts ==
  ASSUME HistoryTypeOK, QueueOK, StoredOK, NEW c \in Calls,
         NEW what \in {"add", "clear", "save", "rollback"}, NEW saves \in BOOLEAN,
         NEW us \in Seq(Units), Make(c, what, saves, us)
  PROVE  Made(c, what, saves, us)
  <1>1. /\ op[c] = "idle"
        /\ op' = [op EXCEPT ![c] = what]
        /\ list' = [list EXCEPT ![c] = us]
        /\ result' = IF saves THEN result ELSE [result EXCEPT ![c] = "ok"]
        /\ db' = db /\ restarts' = restarts /\ ready' = ready
    BY DEF Make, vars
  <1>2. ~Stored(c)
    BY <1>1 DEF StoredOK, Stored, HasSnapshot
  <1>3. (\A i \in DOMAIN queue : queue[i] # c) /\ result[c] = "pending"
    BY <1>1 DEF QueueOK
  <1>4. /\ op'[c] = what /\ list'[c] = us
        /\ op' \in [Calls -> {"idle", "add", "clear", "save", "rollback"}]
        /\ list' \in [Calls -> Seq(Units)]
        /\ \A d \in Calls : d # c => op'[d] = op[d] /\ list'[d] = list[d]
    BY <1>1 DEF HistoryTypeOK
  <1>5. /\ result'[c] = IF saves THEN "pending" ELSE "ok"
        /\ result' \in [Calls -> {"pending", "ok", "raised"}]
        /\ \A d \in Calls : d # c => result'[d] = result[d]
    <2>1. CASE saves
      BY <1>1, <1>3, <2>1 DEF HistoryTypeOK
    <2>2. CASE ~saves
      BY <1>1, <2>2 DEF HistoryTypeOK
    <2> QED
      BY <2>1, <2>2
  <1>6. Others(c)
    BY <1>4, <1>5 DEF Others
  <1>7. \A d \in Calls : Stored(d)' <=> Stored(d)
    BY <1>1 DEF Stored, HasSnapshot
  <1>8. \A d \in Calls : op'[d] = "idle" => result'[d] = "pending"
    BY <1>4, <1>5 DEF QueueOK
  <1> DEFINE place == IF ready THEN inside + 1 ELSE Len(queue) + 1
  <1>11. /\ queue' = IF saves THEN InsertAt(queue, place, c) ELSE queue
         /\ inside' = IF saves /\ ready THEN inside + 1 ELSE inside
         /\ overtaken' = (\/ saves /\ place <= Len(queue)
                          \/ overtaken /\ what \in {"add", "save"})
    BY DEF Make
  <1>12. /\ ready \in BOOLEAN /\ inside \in Nat /\ inside <= Len(queue) /\ Len(queue) \in Nat
         /\ overtaken \in BOOLEAN
    BY QueueTyped DEF HistoryTypeOK
  <1>13. place \in 1..(Len(queue) + 1)
    BY <1>12
  <1>14. saves /\ ready => place = inside + 1
    OBVIOUS
  <1> HIDE DEF place
  <1>15. saves => /\ Joins(c)
                  /\ queue' \in Seq(Calls)
                  /\ Len(queue') = Len(queue) + 1
                  /\ \A j, k \in DOMAIN queue' : queue'[j] = queue'[k] => j = k
    <2> SUFFICES ASSUME saves
                 PROVE  /\ Joins(c)
                        /\ queue' \in Seq(Calls)
                        /\ Len(queue') = Len(queue) + 1
                        /\ \A j, k \in DOMAIN queue' : queue'[j] = queue'[k] => j = k
      OBVIOUS
    <2>1. queue' = InsertAt(queue, place, c) /\ (place <= Len(queue) => overtaken')
      BY <1>11
    <2> QED
      BY <1>3, <1>13, <2>1, JoinQueue
  <1>16. inside' \in Nat /\ inside' <= Len(queue') /\ overtaken' \in BOOLEAN
    <2>1. CASE saves
      <3>1. Len(queue') = Len(queue) + 1
        BY <1>15, <2>1
      <3>2. inside' \in {inside, inside + 1}
        BY <1>11
      <3>3. overtaken' \in BOOLEAN
        BY <1>11
      <3> QED
        BY <1>12, <3>1, <3>2, <3>3
    <2>2. CASE ~saves
      <3>1. queue' = queue /\ inside' = inside
        BY <1>11, <2>2
      <3>2. overtaken' \in BOOLEAN
        BY <1>11
      <3> QED
        BY <1>12, <3>1, <3>2
    <2> QED
      BY <2>1, <2>2
  <1>17. /\ saves => Joins(c)
         /\ ~saves => queue' = queue
    BY <1>11, <1>15
  <1>9. queue' \in Seq(Calls) /\ QueueOK'
    <2>1. CASE saves
      <3>2. /\ queue' \in Seq(Calls)
            /\ \A j \in DOMAIN queue' :
                 queue'[j] = c \/ \E i \in DOMAIN queue : queue'[j] = queue[i]
        BY <1>15, <2>1 DEF Joins
      <3>3. \A i, j \in DOMAIN queue' : queue'[i] = queue'[j] => i = j
        BY <1>15, <2>1
      <3>4. ASSUME NEW i \in DOMAIN queue'
            PROVE  op'[queue'[i]] # "idle" /\ result'[queue'[i]] = "pending" /\ ~HasSnapshot(db', queue'[i])
        <4>1. CASE queue'[i] = c
          <5>1. ~HasSnapshot(db', c)
            BY <1>1, <1>2 DEF Stored
          <5>2. op'[c] # "idle" /\ result'[c] = "pending"
            BY <1>4, <1>5, <2>1
          <5> QED
            BY <4>1, <5>1, <5>2
        <4>2. CASE queue'[i] # c
          <5>1. PICK k \in DOMAIN queue : queue'[i] = queue[k]
            BY <3>2, <4>2
          <5>2. queue'[i] = queue[k] /\ queue[k] \in Calls /\ queue[k] # c
            BY <4>2, <5>1, QueueTyped
          <5>3. /\ op[queue[k]] # "idle" /\ result[queue[k]] = "pending"
                /\ ~Stored(queue[k])
            BY DEF QueueOK
          <5>4. ~HasSnapshot(db', queue'[i])
            BY <1>1, <5>2, <5>3 DEF Stored
          <5> QED
            BY <1>4, <1>5, <5>2, <5>3, <5>4
        <4> QED
          BY <4>1, <4>2
      <3> QED
        BY <1>8, <3>2, <3>3, <3>4 DEF QueueOK, Stored
    <2>2. CASE ~saves
      <3>1. queue' = queue /\ queue \in Seq(Calls)
        BY <1>11, <2>2 DEF HistoryTypeOK
      <3>2. ASSUME NEW i \in DOMAIN queue
            PROVE  op'[queue[i]] # "idle" /\ result'[queue[i]] = "pending" /\ ~HasSnapshot(db', queue[i])
        <4>1. queue[i] \in Calls /\ queue[i] # c
          BY <1>3, QueueTyped
        <4>2. /\ op[queue[i]] # "idle" /\ result[queue[i]] = "pending"
              /\ ~Stored(queue[i])
          BY DEF QueueOK
        <4> QED
          BY <1>1, <1>4, <1>5, <4>1, <4>2 DEF Stored
      <3> QED
        BY <1>8, <3>1, <3>2 DEF QueueOK, Stored
    <2> QED
      BY <2>1, <2>2
  <1>10. StoredOK'
    <2>1. ASSUME NEW r \in db.snaps
          PROVE  r.session = Session /\ op'[r.id] # "idle" /\ Members(db, r.id) = Range(list'[r.id])
      <3>1. r.id \in Calls /\ r.id # c
        BY <1>2 DEF HistoryTypeOK, DB, SnapshotRow, Stored, HasSnapshot
      <3> QED
        BY <1>4, <3>1 DEF StoredOK
    <2> QED
      BY <1>1, <2>1 DEF StoredOK, Stored, HasSnapshot
  <1> QED
    BY <1>1, <1>2, <1>3, <1>4, <1>5, <1>6, <1>9, <1>10, <1>12, <1>16, <1>17 DEF Made

BaseInv == HistoryTypeOK /\ ListsOK /\ QueueOK /\ StoredOK

Extends(c, n) ==
  /\ kept' = kept \o NewMessages(c, n)
  /\ Make(c, "add", Due, kept')
  /\ kept' \in Seq(Units)
  /\ Range(kept') = Range(kept) \cup Range(NewMessages(c, n))
  /\ Numbered(kept', key', op')
  /\ key' \in [Units -> Nat]
  /\ \A u \in Units : u[1] # c => key'[u] = key[u]
  /\ stamp' \in [Units -> Int]
  /\ clock' \in Int
  /\ addCount' = addCount + 1
  /\ since' = [since EXCEPT ![c] = epoch]
  /\ UNCHANGED <<auto, epoch>>

LEMMA AddFacts ==
  ASSUME BaseInv, NEW c \in Calls, Add(c)
  PROVE  \E n \in Batches : Extends(c, n)
  <1>1. PICK n \in Batches, tick \in Ticks :
          LET new   == [i \in 1..n |-> <<c, i>>]
              at(i) == clock + 1 + (i - 1) * tick
          IN  /\ Make(c, "add", Due, kept \o new)
              /\ kept' = kept \o new
              /\ key' = [u \in Units |-> IF u \in Range(new) THEN Key(u[2]) ELSE key[u]]
              /\ stamp' = [u \in Units |-> IF u \in Range(new) THEN at(u[2]) ELSE stamp[u]]
              /\ clock' = at(n)
              /\ addCount' = addCount + 1
              /\ since' = [since EXCEPT ![c] = epoch]
              /\ UNCHANGED <<auto, epoch>>
    BY DEF Add
  <1> DEFINE new   == NewMessages(c, n)
             at(i) == clock + 1 + (i - 1) * tick
  <1>2. /\ Make(c, "add", Due, kept')
        /\ kept' = kept \o new
        /\ key' = [u \in Units |-> IF u \in Range(new) THEN Len(kept) + u[2] - 1 ELSE key[u]]
        /\ stamp' = [u \in Units |-> IF u \in Range(new) THEN at(u[2]) ELSE stamp[u]]
        /\ clock' = at(n)
        /\ addCount' = addCount + 1
        /\ since' = [since EXCEPT ![c] = epoch]
        /\ UNCHANGED <<auto, epoch>>
    BY <1>1 DEF NewMessages, Key
  <1>3. /\ n \in Nat \ {0} /\ new \in Seq(Units) /\ DOMAIN new = 1..n
        /\ \A i \in 1..n : new[i] = <<c, i>>
        /\ \A u \in Range(new) : u[1] = c
    BY NewFacts
  <1>4. tick \in Nat /\ clock \in Int /\ kept \in Seq(Units) /\ Len(kept) \in Nat
    BY HistoryAssumption, LenProperties DEF BaseInv, HistoryTypeOK, ListsOK, Numbered
  <1>5. \A u \in Range(new) : u[2] \in Nat /\ u[2] >= 1
    <2> HIDE DEF new
    <2> QED
      BY <1>3 DEF Range
  <1> HIDE DEF new
  <1>6. \A i \in Nat : at(i) \in Int
    BY <1>4
  <1>7. Range(kept') = Range(kept) \cup Range(new) /\ kept' \in Seq(Units)
    BY <1>2, <1>3, <1>4, ConcatRange, ConcatProperties
  <1>8. key \in [Units -> Nat] /\ stamp \in [Units -> Int]
    BY DEF BaseInv, HistoryTypeOK
  <1>9. key' \in [Units -> Nat] /\ \A u \in Units : u[1] # c => key'[u] = key[u]
    <2>1. \A u \in Range(new) : Len(kept) + u[2] - 1 \in Nat
      BY <1>4, <1>5
    <2> QED
      BY <1>2, <1>3, <1>8, <2>1
  <1> HIDE DEF at
  <1>10. stamp' \in [Units -> Int] /\ clock' \in Int
    BY <1>2, <1>3, <1>5, <1>6, <1>8
  <1>11. op[c] = "idle" /\ op' = [op EXCEPT ![c] = "add"]
    BY <1>2 DEF Make
  <1>12. Numbered(kept', key', op')
    <2>1. Numbered(kept, key, op)
      BY DEF BaseInv, ListsOK
    <2>2. op'[c] # "idle" /\ \A d \in Calls : op[d] # "idle" => op'[d] # "idle"
      BY <1>11 DEF BaseInv, HistoryTypeOK
    <2>3. GivesKeys(key', key, Len(kept), new)
      BY <1>2 DEF GivesKeys
    <2>4. Numbered(kept \o new, key', op')
      BY <1>8, <1>11, <2>1, <2>2, <2>3, NumberedGrows DEF new
    <2> QED
      BY <1>2, <2>4
  <1>13. Extends(c, n)
    BY <1>2, <1>7, <1>9, <1>10, <1>12 DEF Extends, new
  <1> QED
    BY <1>13

(* What the four calls have in common.                                     *)
Makes(c) ==
  /\ op[c] = "idle"
  /\ ~Stored(c)
  /\ \A i \in DOMAIN queue : queue[i] # c
  /\ op'[c] # "idle"
  /\ Others(c)
  /\ db' = db
  /\ restarts' = restarts
  /\ queue' = queue \/ Joins(c)
  /\ since' = [since EXCEPT ![c] = epoch']

LEMMA MakeBase ==
  ASSUME BaseInv, NEW c \in Calls, Add(c) \/ Clear(c) \/ Save(c) \/ RollBack(c)
  PROVE  BaseInv' /\ Makes(c)
  <1>1. /\ HistoryTypeOK /\ ListsOK /\ QueueOK /\ StoredOK
        /\ kept \in Seq(Units) /\ list \in [Calls -> Seq(Units)]
    BY DEF BaseInv, HistoryTypeOK, ListsOK, Numbered
  <1>2. Due \in BOOLEAN /\ TRUE \in BOOLEAN
    BY DEF Due, HistoryTypeOK, BaseInv
  <1>3. ASSUME NEW what \in {"add", "clear", "save", "rollback"}, NEW saves \in BOOLEAN,
               NEW us \in Seq(Units), Make(c, what, saves, us),
               Numbered(us, key', op'), Numbered(kept', key', op'),
               \A u \in Units : u[1] # c => key'[u] = key[u],
               key' \in [Units -> Nat], stamp' \in [Units -> Int], clock' \in Int,
               addCount' \in Nat, auto' \in BOOLEAN,
               epoch' \in {epoch, epoch + 1}, since' = [since EXCEPT ![c] = epoch']
        PROVE  BaseInv' /\ Makes(c)
    <2>1. /\ op[c] = "idle" /\ ~Stored(c) /\ \A i \in DOMAIN queue : queue[i] # c
          /\ op'[c] = what /\ list'[c] = us
          /\ Others(c)
          /\ db' = db /\ restarts' = restarts
          /\ saves => Joins(c)
          /\ ~saves => queue' = queue
          /\ queue' \in Seq(Calls)
          /\ inside' \in Nat /\ inside' <= Len(queue')
          /\ ready' \in BOOLEAN /\ overtaken' \in BOOLEAN
          /\ op' \in [Calls -> {"idle", "add", "clear", "save", "rollback"}]
          /\ list' \in [Calls -> Seq(Units)]
          /\ result' \in [Calls -> {"pending", "ok", "raised"}]
          /\ QueueOK' /\ StoredOK'
      <3>1. Made(c, what, saves, us)
        BY <1>1, <1>3, MakeFacts
      <3> QED
        BY <3>1 DEF Made
    <2>2. /\ epoch' \in Nat /\ since' \in [Calls -> Nat]
          /\ \A d \in Calls : since'[d] <= epoch'
      BY <1>1, <1>3 DEF HistoryTypeOK
    <2>3. HistoryTypeOK'
      BY <1>1, <1>3, <2>1, <2>2 DEF HistoryTypeOK
    <2>4. \A d \in Calls : op[d] # "idle" => op'[d] # "idle"
      BY <2>1 DEF Others
    <2>5. ASSUME NEW d \in Calls PROVE Numbered(list'[d], key', op')
      <3>1. CASE d = c
        BY <1>3, <2>1, <3>1
      <3>2. CASE d # c
        <4>1. list'[d] = list[d] /\ Numbered(list[d], key, op)
          BY <1>1, <2>1, <3>2 DEF Others, ListsOK
        <4>2. \A u \in Units : u[1] \in Calls /\ op[u[1]] # "idle" => key'[u] = key[u]
          BY <1>3, <2>1
        <4>3. Numbered(list[d], key', op')
          BY <2>4, <4>1, <4>2, NumberedStays
        <4> QED
          BY <4>1, <4>3
      <3> QED
        BY <3>1, <3>2
    <2>6. ListsOK'
      BY <1>3, <2>5 DEF ListsOK
    <2> QED
      BY <1>3, <2>1, <2>3, <2>6 DEF BaseInv, Makes
  <1>4. ASSUME NEW what \in {"add", "clear", "save", "rollback"}, NEW us \in Seq(Units),
               Make(c, what, TRUE, us), UNCHANGED key, NEW seq, Numbered(seq, key, op)
        PROVE  Numbered(seq, key', op')
    <2>1. \A d \in Calls : op[d] # "idle" => op'[d] # "idle"
      BY <1>1, <1>4 DEF Make, HistoryTypeOK
    <2>2. \A u \in Units : u[1] \in Calls /\ op[u[1]] # "idle" => key'[u] = key[u]
      BY <1>4
    <2> QED
      BY <1>4, <2>1, <2>2, NumberedStays
  <1>5. Numbered(<<>>, key, op)
    <2>1. <<>> \in Seq(Units) /\ DOMAIN <<>> = {}
      BY EmptySeq, LenProperties
    <2> QED
      BY <2>1 DEF Numbered
  <1>6. epoch \in Nat /\ addCount \in Nat /\ auto \in BOOLEAN /\ clock \in Int
        /\ key \in [Units -> Nat] /\ stamp \in [Units -> Int]
    BY <1>1 DEF HistoryTypeOK
  <1>7. Numbered(kept, key, op) /\ \A d \in Calls : Numbered(list[d], key, op)
    BY <1>1 DEF ListsOK
  <1>8. CASE Add(c)
    <2>1. PICK n \in Batches : Extends(c, n)
      BY <1>8, AddFacts
    <2>2. /\ Make(c, "add", Due, kept') /\ kept' \in Seq(Units) /\ Numbered(kept', key', op')
          /\ \A u \in Units : u[1] # c => key'[u] = key[u]
          /\ key' \in [Units -> Nat] /\ stamp' \in [Units -> Int] /\ clock' \in Int
          /\ addCount' = addCount + 1 /\ auto' = auto /\ epoch' = epoch
          /\ since' = [since EXCEPT ![c] = epoch]
      BY <2>1 DEF Extends
    <2>3. addCount' \in Nat /\ auto' \in BOOLEAN /\ since' = [since EXCEPT ![c] = epoch']
          /\ epoch' \in {epoch, epoch + 1}
      BY <1>6, <2>2
    <2> QED
      BY <1>2, <1>3, <2>2, <2>3
  <1>9. CASE Clear(c)
    <2>1. /\ Make(c, "clear", TRUE, <<>>) /\ kept' = <<>> /\ epoch' = epoch + 1
          /\ since' = [since EXCEPT ![c] = epoch'] /\ UNCHANGED <<addCount, auto, unitVars>>
      BY <1>9 DEF Clear
    <2>2. Numbered(<<>>, key', op') /\ <<>> \in Seq(Units)
      BY <1>4, <1>5, <2>1, EmptySeq DEF unitVars
    <2> QED
      BY <1>2, <1>3, <1>6, <2>1, <2>2 DEF unitVars
  <1>10. CASE Save(c)
    <2>1. /\ Make(c, "save", TRUE, kept) /\ epoch' = epoch
          /\ since' = [since EXCEPT ![c] = epoch'] /\ UNCHANGED <<adapterVars, unitVars>>
      BY <1>10 DEF Save
    <2>2. Numbered(kept, key', op')
      BY <1>1, <1>4, <1>7, <2>1 DEF unitVars
    <2> QED
      BY <1>1, <1>2, <1>3, <1>6, <2>1, <2>2 DEF unitVars, adapterVars
  <1>11. CASE RollBack(c)
    <2>1. PICK r \in db.snaps :
            /\ Make(c, "rollback", TRUE, list[r.id]) /\ epoch' = epoch + 1
            /\ since' = [since EXCEPT ![c] = epoch'] /\ UNCHANGED <<adapterVars, unitVars>>
      BY <1>11 DEF RollBack
    <2>2. r.id \in Calls
      BY <1>1 DEF HistoryTypeOK, DB, SnapshotRow
    <2>3. list[r.id] \in Seq(Units)
      BY <1>1, <2>2
    <2>4. Numbered(list[r.id], key', op') /\ Numbered(kept, key', op')
      BY <1>4, <1>7, <2>1, <2>2, <2>3 DEF unitVars
    <2> QED
      BY <1>1, <1>2, <1>3, <1>6, <2>1, <2>3, <2>4 DEF unitVars, adapterVars
  <1> QED
    BY <1>8, <1>9, <1>10, <1>11

-----------------------------------------------------------------------------
(* A call that waits has its turn, fails or is cancelled.                  *)

Leaves(c) ==
  /\ Waiting(c)
  /\ UNCHANGED <<adapterVars, unitVars, ready, overtaken, op, list, restarts, epoch, since>>
  /\ result'[c] \in {"ok", "raised"}
  /\ \A d \in Calls : d # c => result'[d] = result[d]
  /\ \/ db' = db /\ result'[c] = "raised"
     \/ queue # <<>> /\ queue[1] = c /\ Stores(c) /\ StoredOK' /\ InHead' = Range(list[c])
  /\ \A j, k \in DOMAIN queue' : j < k =>
       \E m, n \in DOMAIN queue : m < n /\ queue[m] = queue'[j] /\ queue[n] = queue'[k]
  /\ \A j \in DOMAIN queue' :
       queue'[j] # c /\ \E m \in DOMAIN queue : queue[m] = queue'[j]
  /\ \A m \in DOMAIN queue :
       queue[m] # c => \E j \in DOMAIN queue' : queue'[j] = queue[m]

LEMMA LeaveBase ==
  ASSUME BaseInv, NEW c \in Calls, Write(c) \/ Fail(c) \/ Cancel(c)
  PROVE  BaseInv' /\ Leaves(c)
  <1>1. HistoryTypeOK /\ ListsOK /\ QueueOK /\ StoredOK
    BY DEF BaseInv
  <1>2. PICK r \in {"ok", "raised"} :
          /\ Leave(c, r)
          /\ \/ UNCHANGED vars /\ r = "raised"
             \/ Served(c) /\ Store(c)
    BY DEF Write, Fail, Cancel
  <1>3. /\ result' = [result EXCEPT ![c] = r]
        /\ UNCHANGED <<adapterVars, unitVars, ready, overtaken, op, list, restarts, epoch, since>>
    BY <1>2 DEF Leave
  <1>4. /\ queue' \in Seq(Calls)
        /\ Waiting(c)
        /\ \A j, k \in DOMAIN queue' : j < k =>
             \E m, n \in DOMAIN queue : m < n /\ queue[m] = queue'[j] /\ queue[n] = queue'[k]
        /\ \A j \in DOMAIN queue' :
             queue'[j] # c /\ \E m \in DOMAIN queue : queue[m] = queue'[j]
        /\ \A m \in DOMAIN queue :
             queue[m] # c => \E j \in DOMAIN queue' : queue'[j] = queue[m]
        /\ \A j, k \in DOMAIN queue' : queue'[j] = queue'[k] => j = k
        /\ inside' \in Nat /\ inside' <= Len(queue')
    BY <1>1, <1>2, LeaveQueue
  <1>5. /\ result' \in [Calls -> {"pending", "ok", "raised"}]
        /\ result'[c] = r
        /\ \A d \in Calls : d # c => result'[d] = result[d]
    BY <1>1, <1>3 DEF HistoryTypeOK
  <1>6. op[c] # "idle"
    BY <1>1, <1>4 DEF Waiting, QueueOK
  <1>7. \/ db' = db /\ r = "raised"
        \/ queue # <<>> /\ queue[1] = c /\ Stores(c) /\ StoredOK' /\ InHead' = Range(list[c])
    <2>1. CASE UNCHANGED vars /\ r = "raised"
      BY <2>1 DEF vars
    <2>2. CASE Served(c) /\ Store(c)
      <3>1. Stores(c)
        BY <1>1, <2>2, StoreFacts
      <3>2. StoredOK' /\ InHead' = Range(list[c])
        BY <1>1, <1>3, <1>6, <3>1, StoreMembers
      <3>3. queue # <<>> /\ queue[1] = c
        <4>1. inside > 0 /\ Head(queue) = c
          BY <2>2 DEF Served
        <4>2. inside \in Nat /\ inside <= Len(queue) /\ Len(queue) \in Nat /\ queue \in Seq(Calls)
          BY <1>1, QueueTyped DEF HistoryTypeOK
        <4>3. Len(queue) # 0
          BY <4>1, <4>2
        <4> QED
          BY <4>1, <4>2, <4>3
      <3> QED
        BY <3>1, <3>2, <3>3
    <2> QED
      BY <1>2, <2>1, <2>2
  <1>8. Leaves(c)
    BY <1>3, <1>4, <1>5, <1>7 DEF Leaves
  <1>9. db' \in DB /\ StoredOK' /\ \A d \in Calls : d # c => (Stored(d)' <=> Stored(d))
    <2>1. CASE db' = db
      <3>1. StoredOK'
        BY <1>1, <1>3, <2>1 DEF StoredOK, Stored
      <3> QED
        BY <1>1, <2>1, <3>1 DEF Stored, HistoryTypeOK
    <2>2. CASE Stores(c) /\ StoredOK'
      BY <2>2 DEF Stores
    <2> QED
      BY <1>7, <2>1, <2>2
  <1>10. HistoryTypeOK'
    BY <1>1, <1>3, <1>4, <1>5, <1>9 DEF HistoryTypeOK, adapterVars, unitVars
  <1>11. ListsOK'
    BY <1>1, <1>3 DEF ListsOK, adapterVars, unitVars
  <1>12. QueueOK'
    <2>1. ASSUME NEW j \in DOMAIN queue'
          PROVE  op'[queue'[j]] # "idle" /\ result'[queue'[j]] = "pending"
                 /\ ~HasSnapshot(db', queue'[j])
      <3>1. PICK m \in DOMAIN queue : queue[m] = queue'[j] /\ queue'[j] # c
        BY <1>4
      <3>2. queue[m] \in Calls
        BY <1>1, QueueTyped
      <3>3. op[queue[m]] # "idle" /\ result[queue[m]] = "pending" /\ ~Stored(queue[m])
        BY <1>1 DEF QueueOK
      <3> QED
        BY <1>3, <1>5, <1>9, <3>1, <3>2, <3>3 DEF Stored
    <2>2. \A d \in Calls : op'[d] = "idle" => result'[d] = "pending"
      BY <1>1, <1>3, <1>5, <1>6 DEF QueueOK
    <2> QED
      BY <1>4, <2>1, <2>2 DEF QueueOK, Stored
  <1> QED
    BY <1>8, <1>9, <1>10, <1>11, <1>12 DEF BaseInv

-----------------------------------------------------------------------------
(* What from_snapshot() sorts.                                             *)

NextSeqs(us, seqs) == UNION {{Append(seq, u) : u \in Oldest(us \ Range(seq))} : seq \in seqs}

Sorts(us, n, f) ==
  f = [k \in 0..n |-> IF k = 0 THEN {<<>>} ELSE NextSeqs(us, f[k - 1])]

LEMMA SortsExists ==
  ASSUME NEW us, NEW n \in Nat
  PROVE  \E f : Sorts(us, n, f)
  <1> DEFINE T == {m \in 0..n : ~\E f : Sorts(us, m, f)}
  <1>1. CASE T = {}
    BY <1>1
  <1>2. CASE T # {}
    <2>1. PICK m \in T : \A k \in T : m <= k
      <3> HIDE DEF T
      <3>1. T \subseteq 0..n
        BY DEF T
      <3> QED
        BY <1>2, <3>1, LeastStep
    <2>2. m \in 0..n /\ ~\E f : Sorts(us, m, f)
      OBVIOUS
    <2>3. CASE m = 0
      <3> DEFINE f == [k \in 0..0 |-> {<<>>}]
      <3>1. Sorts(us, 0, f)
        BY DEF Sorts
      <3> QED
        BY <2>2, <2>3, <3>1
    <2>4. CASE m # 0
      <3>1. m - 1 \in 0..n /\ m - 1 \notin T
        BY <2>1, <2>2, <2>4
      <3>2. PICK g : Sorts(us, m - 1, g)
        BY <3>1
      <3> DEFINE f == [k \in 0..m |-> IF k = m THEN NextSeqs(us, g[m - 1]) ELSE g[k]]
      <3>3. \A k \in 0..(m - 1) : g[k] = IF k = 0 THEN {<<>>} ELSE NextSeqs(us, g[k - 1])
        BY <3>2 DEF Sorts
      <3>4. ASSUME NEW k \in 0..m
            PROVE  f[k] = IF k = 0 THEN {<<>>} ELSE NextSeqs(us, f[k - 1])
        <4>1. CASE k = m
          <5>1. m - 1 \in 0..m /\ m - 1 # m /\ m \in 0..m
            BY <2>2, <2>4
          <5>2. f[m - 1] = g[m - 1] /\ f[m] = NextSeqs(us, g[m - 1])
            BY <5>1
          <5> QED
            BY <2>4, <4>1, <5>2
        <4>2. CASE k # m
          <5>1. k \in 0..(m - 1) /\ f[k] = g[k]
            BY <2>2, <4>2
          <5>2. CASE k = 0
            BY <3>3, <5>1, <5>2
          <5>3. CASE k # 0
            <6>1. k - 1 \in 0..m /\ k - 1 # m
              BY <5>1, <5>3
            <6>2. f[k - 1] = g[k - 1]
              BY <6>1
            <6> HIDE DEF f
            <6> QED
              BY <3>3, <5>1, <5>3, <6>2
          <5> QED
            BY <5>2, <5>3
        <4> QED
          BY <4>1, <4>2
      <3>5. Sorts(us, m, f)
        <4> DEFINE h == [k \in 0..m |-> IF k = 0 THEN {<<>>} ELSE NextSeqs(us, f[k - 1])]
        <4>1. DOMAIN f = 0..m /\ f = [k \in 0..m |-> f[k]]
          OBVIOUS
        <4> HIDE DEF f
        <4>2. f = h
          BY <3>4, <4>1
        <4> QED
          BY <4>2 DEF Sorts
      <3> QED
        BY <2>2, <3>5
    <2> QED
      BY <2>3, <2>4
  <1> QED
    BY <1>1, <1>2

LEMMA ResumableSorts ==
  ASSUME NEW us, IsFiniteSet(us)
  PROVE  \E f : /\ f[0] = {<<>>}
                /\ \A k \in 1..Cardinality(us) : f[k] = NextSeqs(us, f[k - 1])
                /\ Resumable(us) = f[Cardinality(us)]
  <1> DEFINE n == Cardinality(us)
             f == CHOOSE f : Sorts(us, n, f)
  <1>1. n \in Nat
    BY FS_CardinalityType
  <1>2. Resumable(us) = f[n]
    BY DEF Resumable, Sorts, NextSeqs
  <1>3. Sorts(us, n, f)
    BY <1>1, SortsExists
  <1> HIDE DEF f
  <1>4. \A k \in 0..n : f[k] = IF k = 0 THEN {<<>>} ELSE NextSeqs(us, f[k - 1])
    BY <1>3 DEF Sorts
  <1>5. f[0] = {<<>>} /\ \A k \in 1..n : f[k] = NextSeqs(us, f[k - 1])
    <2>1. 0 \in 0..n /\ \A k \in 1..n : k \in 0..n /\ k # 0
      BY <1>1
    <2> HIDE DEF n
    <2> QED
      BY <1>4, <2>1
  <1> QED
    BY <1>2, <1>5

(* The first k messages of us by age.                                      *)
Eldest(us, k, seq) ==
  /\ seq \in Seq(us)
  /\ Len(seq) = k
  /\ Cardinality(Range(seq)) = k
  /\ \A i, j \in DOMAIN seq : i < j => stamp[seq[i]] <= stamp[seq[j]]
  /\ \A i \in DOMAIN seq : \A v \in us \ Range(seq) : stamp[seq[i]] <= stamp[v]

LEMMA EldestGrows ==
  ASSUME NEW us, \A u \in us : stamp[u] \in Int, NEW k \in Nat, NEW seq, Eldest(us, k, seq),
         NEW u \in Oldest(us \ Range(seq))
  PROVE  Eldest(us, k + 1, Append(seq, u))
  <1> DEFINE new == Append(seq, u)
  <1>1. u \in us /\ u \notin Range(seq) /\ \A v \in us \ Range(seq) : stamp[u] <= stamp[v]
    BY DEF Oldest
  <1>2. /\ new \in Seq(us)
        /\ Len(new) = k + 1
        /\ \A i \in 1..k : new[i] = seq[i]
        /\ new[k + 1] = u
        /\ DOMAIN seq = 1..k
        /\ \A i \in 1..k : seq[i] \in us
    BY <1>1, AppendProperties, LenProperties, ElementOfSeq DEF Eldest
  <1>3. DOMAIN new = 1..(k + 1)
    BY <1>2, LenProperties
  <1>4. Range(new) = Range(seq) \cup {u}
    BY <1>1, AppendRange DEF Eldest
  <1> HIDE DEF new
  <1>5. Cardinality(Range(new)) = k + 1
    <2>1. IsFiniteSet(Range(seq))
      BY RangeFinite DEF Eldest
    <2> QED
      BY <1>1, <1>4, <2>1, FS_AddElement DEF Eldest
  <1>6. \A i \in 1..(k + 1) : i \in 1..k \/ i = k + 1
    OBVIOUS
  <1>7. ASSUME NEW i \in 1..(k + 1), NEW j \in 1..(k + 1), i < j
        PROVE  stamp[new[i]] <= stamp[new[j]]
    <2>1. i \in 1..k
      BY <1>7
    <2>2. CASE j \in 1..k
      BY <1>2, <1>7, <2>1, <2>2 DEF Eldest
    <2>3. CASE j = k + 1
      BY <1>1, <1>2, <2>1, <2>3 DEF Eldest
    <2> QED
      BY <1>6, <2>2, <2>3
  <1>8. ASSUME NEW i \in 1..(k + 1), NEW v \in us \ Range(new)
        PROVE  stamp[new[i]] <= stamp[v]
    <2>1. v \in us \ Range(seq)
      BY <1>4
    <2> QED
      BY <1>1, <1>2, <1>6, <2>1 DEF Eldest
  <1> QED
    BY <1>2, <1>3, <1>5, <1>7, <1>8 DEF Eldest, new

LEMMA ResumableSorted ==
  ASSUME NEW us, IsFiniteSet(us), \A u \in us : stamp[u] \in Int, NEW seq \in Resumable(us)
  PROVE  /\ seq \in Seq(us)
         /\ Len(seq) = Cardinality(us)
         /\ Range(seq) = us
         /\ \A i, j \in DOMAIN seq : i < j => stamp[seq[i]] <= stamp[seq[j]]
  <1> DEFINE n == Cardinality(us)
  <1>1. n \in Nat
    BY FS_CardinalityType
  <1>2. PICK f : /\ f[0] = {<<>>}
                 /\ \A k \in 1..n : f[k] = NextSeqs(us, f[k - 1])
                 /\ Resumable(us) = f[n]
    BY ResumableSorts
  <1> HIDE DEF n
  <1> DEFINE T == {k \in 0..n : ~\A s \in f[k] : Eldest(us, k, s)}
  <1>3. T = {}
    <2> SUFFICES ASSUME T # {} PROVE FALSE
      OBVIOUS
    <2>1. PICK m \in T : \A k \in T : m <= k
      <3> HIDE DEF T
      <3>1. T \subseteq 0..n
        BY DEF T
      <3> QED
        BY <1>1, <3>1, LeastStep
    <2>2. m \in 0..n /\ ~\A s \in f[m] : Eldest(us, m, s)
      OBVIOUS
    <2>3. CASE m = 0
      <3>1. <<>> \in Seq(us) /\ Len(<<>>) = 0 /\ DOMAIN <<>> = {} /\ Range(<<>>) = {}
        BY EmptySeq, LenProperties DEF Range
      <3>2. Cardinality({}) = 0
        BY FS_EmptySet
      <3>3. Eldest(us, 0, <<>>)
        BY <3>1, <3>2 DEF Eldest
      <3> QED
        BY <1>2, <2>2, <2>3, <3>3
    <2>4. CASE m # 0
      <3>1. m - 1 \in 0..n /\ m - 1 \notin T /\ m \in 1..n /\ m - 1 \in Nat
        BY <1>1, <2>1, <2>2, <2>4
      <3>2. \A s \in f[m - 1] : Eldest(us, m - 1, s)
        BY <3>1
      <3>3. f[m] = NextSeqs(us, f[m - 1])
        BY <1>2, <3>1
      <3>4. (m - 1) + 1 = m
        BY <3>1
      <3>5. ASSUME NEW s \in f[m] PROVE Eldest(us, m, s)
        <4>1. PICK t \in f[m - 1] : \E u \in Oldest(us \ Range(t)) : s = Append(t, u)
          BY <3>3 DEF NextSeqs
        <4>2. Eldest(us, (m - 1) + 1, s)
          BY <3>1, <3>2, <4>1, EldestGrows
        <4> QED
          BY <3>4, <4>2
      <3> QED
        BY <2>2, <3>5
    <2> QED
      BY <2>3, <2>4
  <1>4. Eldest(us, n, seq)
    <2>1. n \in 0..n
      BY <1>1
    <2> QED
      BY <1>2, <1>3, <2>1
  <1>5. Range(seq) = us
    <2>1. Range(seq) \subseteq us /\ IsFiniteSet(Range(seq))
      BY <1>4, RangeFinite DEF Eldest
    <2> QED
      BY <1>4, <2>1, FS_Subset DEF Eldest, n
  <1> QED
    BY <1>4, <1>5 DEF Eldest, n

-----------------------------------------------------------------------------
(* Another adapter takes over.                                             *)

(* A sequence has no element twice when it is as long as its range.        *)
LEMMA NoRepeats ==
  ASSUME NEW S, NEW seq \in Seq(S)
  PROVE  (\A i, j \in DOMAIN seq : seq[i] = seq[j] => i = j)
           <=> Cardinality(Range(seq)) = Len(seq)
  <1>1. Len(seq) \in Nat /\ DOMAIN seq = 1..Len(seq) /\ seq \in [1..Len(seq) -> S]
    BY LenProperties
  <1>2. IsFiniteSet(1..Len(seq)) /\ Cardinality(1..Len(seq)) = Len(seq)
    BY <1>1, FS_Interval
  <1>3. seq \in Surjection(1..Len(seq), Range(seq))
    BY <1>1 DEF Surjection, Range
  <1>4. Cardinality(Range(seq)) = Len(seq) <=> seq \in Injection(1..Len(seq), Range(seq))
    BY <1>2, <1>3, FS_Surjection
  <1>5. seq \in Injection(1..Len(seq), Range(seq))
          <=> \A i, j \in 1..Len(seq) : seq[i] = seq[j] => i = j
    BY <1>1 DEF Injection, IsInjective, Range
  <1> QED
    BY <1>1, <1>4, <1>5

ResumesFrom(old) ==
  /\ Len(kept') = Len(old)
  /\ Range(kept') = Range(old)
  /\ \A m, n \in DOMAIN kept' : m < n => stamp[kept'[m]] <= stamp[kept'[n]]

LEMMA ResumeFacts ==
  ASSUME BaseInv, Resume
  PROVE  /\ Numbered(kept', key, op)
         /\ \E r \in db.snaps : ResumesFrom(list[r.id])
  <1>1. PICK r \in db.snaps : \E us \in Resumable(Members(db, r.id)) : kept' = us
    BY DEF Resume, Replace
  <1> DEFINE old == list[r.id]
  <1>2. r.id \in Calls /\ Members(db, r.id) = Range(old)
    BY DEF BaseInv, HistoryTypeOK, DB, SnapshotRow, StoredOK
  <1>3. old \in Seq(Units) /\ Numbered(old, key, op)
    BY <1>2 DEF BaseInv, HistoryTypeOK, ListsOK
  <1> HIDE DEF old
  <1>4. Range(old) \subseteq Units /\ IsFiniteSet(Range(old))
    BY <1>3, RangeFinite
  <1>5. \A u \in Range(old) : stamp[u] \in Int
    BY <1>4 DEF BaseInv, HistoryTypeOK
  <1>6. /\ kept' \in Seq(Range(old))
        /\ Len(kept') = Cardinality(Range(old))
        /\ Range(kept') = Range(old)
        /\ \A m, n \in DOMAIN kept' : m < n => stamp[kept'[m]] <= stamp[kept'[n]]
    BY <1>1, <1>2, <1>4, <1>5, ResumableSorted
  <1>7. \A i, j \in DOMAIN old : old[i] = old[j] => i = j
    BY <1>3 DEF Numbered
  <1>8. Len(kept') = Len(old)
    BY <1>3, <1>6, <1>7, NoRepeats
  <1>9. \A i, j \in DOMAIN kept' : kept'[i] = kept'[j] => i = j
    BY <1>6, NoRepeats
  <1>10. kept' \in Seq(Units)
    BY <1>4, <1>6, SeqMonotonic
  <1>11. \A i \in DOMAIN kept' : \E a \in DOMAIN old : kept'[i] = old[a]
    BY <1>6 DEF Range
  <1>12. ASSUME NEW i \in DOMAIN kept'
         PROVE  kept'[i][1] \in Calls /\ op[kept'[i][1]] # "idle" /\ key[kept'[i]] < Len(kept')
    BY <1>3, <1>8, <1>11 DEF Numbered
  <1>13. ASSUME NEW i \in DOMAIN kept', NEW j \in DOMAIN kept', key[kept'[i]] = key[kept'[j]]
         PROVE  i = j
    <2>1. PICK a \in DOMAIN old, b \in DOMAIN old : kept'[i] = old[a] /\ kept'[j] = old[b]
      BY <1>11
    <2>2. a = b
      BY <1>3, <1>13, <2>1 DEF Numbered
    <2> QED
      BY <1>9, <2>1, <2>2
  <1>14. Numbered(kept', key, op)
    BY <1>10, <1>12, <1>13 DEF Numbered
  <1>15. ResumesFrom(old)
    BY <1>6, <1>8 DEF ResumesFrom
  <1> QED
    BY <1>14, <1>15 DEF old

Replaces ==
  /\ queue' = <<>>
  /\ epoch' = epoch + 1
  /\ UNCHANGED <<db, op, list, since>>

LEMMA ReplaceBase ==
  ASSUME BaseInv, Resume \/ Crash
  PROVE  BaseInv' /\ Replaces
  <1>1. HistoryTypeOK /\ ListsOK /\ QueueOK /\ StoredOK
    BY DEF BaseInv
  <1>2. /\ queue' = <<>>
        /\ ready' \in BOOLEAN /\ inside' \in Nat /\ inside' = 0 /\ overtaken' = FALSE
        /\ epoch' = epoch + 1
        /\ restarts' = restarts + 1
        /\ addCount' = 0
        /\ UNCHANGED <<db, op, list, since, key, stamp, clock>>
        /\ auto' \in BOOLEAN
        /\ Numbered(kept', key, op)
        /\ result' \in [Calls -> {"pending", "ok", "raised"}]
        /\ \A d \in Calls : op[d] = "idle" => result'[d] = "pending"
    <2>1. CASE Resume
      <3>1. PICK r \in db.snaps : \E us \in Resumable(Members(db, r.id)) : Replace(us, FALSE)
        BY <2>1 DEF Resume
      <3>2. Numbered(kept', key, op)
        BY <2>1, ResumeFacts
      <3>3. queue' = <<>> /\ result' = result /\ UNCHANGED <<db, op, list, since, key, stamp, clock>>
        BY <3>1 DEF Replace, vars, unitVars, callVars
      <3>4. ready' \in BOOLEAN /\ inside' \in Nat /\ inside' = 0 /\ overtaken' = FALSE
        <4>1. queue = <<>> /\ inside' = inside /\ ready' = TRUE /\ overtaken' = FALSE
          BY <3>1 DEF Replace
        <4>2. inside \in Nat /\ inside <= Len(<<>>) /\ Len(<<>>) = 0
          BY <1>1, <4>1 DEF HistoryTypeOK
        <4> QED
          BY <4>1, <4>2
      <3> QED
        BY <1>1, <3>1, <3>2, <3>3, <3>4 DEF Replace, HistoryTypeOK, QueueOK
    <2>2. CASE Crash
      <3>1. <<>> \in Seq(Units) /\ DOMAIN <<>> = {}
        BY EmptySeq, LenProperties
      <3>2. Numbered(<<>>, key, op)
        BY <3>1 DEF Numbered
      <3>3. result' = [d \in Calls |-> IF Waiting(d) THEN "raised" ELSE result[d]]
        BY <2>2 DEF Crash
      <3>4. \A d \in Calls : result'[d] \in {result[d], "raised"}
        BY <3>3
      <3>5. \A d \in Calls : op[d] = "idle" => ~Waiting(d)
        BY <1>1 DEF Waiting, QueueOK
      <3>6. \A d \in Calls : op[d] = "idle" => result'[d] = "pending"
        BY <1>1, <3>3, <3>5 DEF QueueOK
      <3>7. result' \in [Calls -> {"pending", "ok", "raised"}]
        BY <1>1, <3>3 DEF HistoryTypeOK
      <3> QED
        BY <2>2, <3>2, <3>6, <3>7 DEF Crash, vars, unitVars
    <2> QED
      BY <2>1, <2>2
  <1>3. Replaces
    BY <1>2 DEF Replaces
  <1>4. queue' \in Seq(Calls) /\ DOMAIN queue' = {} /\ inside' <= Len(queue')
    <2>1. Len(<<>>) = 0 /\ <<>> \in Seq(Calls)
      BY EmptySeq
    <2> QED
      BY <1>2, <2>1, LenProperties
  <1>5. HistoryTypeOK'
    <2>1. \A d \in Calls : since'[d] <= epoch'
      BY <1>1, <1>2 DEF HistoryTypeOK
    <2>2. /\ db' \in DB /\ addCount' \in Nat /\ key' \in [Units -> Nat]
          /\ stamp' \in [Units -> Int] /\ clock' \in Int
          /\ op' \in [Calls -> {"idle", "add", "clear", "save", "rollback"}]
          /\ list' \in [Calls -> Seq(Units)] /\ since' \in [Calls -> Nat]
      BY <1>1, <1>2 DEF HistoryTypeOK
    <2>3. restarts' \in Nat /\ epoch' \in Nat
      BY <1>1, <1>2 DEF HistoryTypeOK
    <2>4. overtaken' \in BOOLEAN
      BY <1>2
    <2> QED
      BY <1>2, <1>4, <2>1, <2>2, <2>3, <2>4 DEF HistoryTypeOK
  <1>6. ListsOK'
    BY <1>1, <1>2 DEF ListsOK
  <1>7. QueueOK'
    BY <1>2, <1>4 DEF QueueOK
  <1>8. StoredOK'
    BY <1>1, <1>2 DEF StoredOK, Stored
  <1> QED
    BY <1>3, <1>5, <1>6, <1>7, <1>8 DEF BaseInv

-----------------------------------------------------------------------------
(* Types, lists and stored rows.                                           *)

LEMMA BaseInit == HistoryInit => BaseInv
  <1> SUFFICES ASSUME HistoryInit PROVE BaseInv
    OBVIOUS
  <1>1. <<>> \in Seq(Units) /\ <<>> \in Seq(Calls) /\ DOMAIN <<>> = {}
    BY EmptySeq, LenProperties
  <1>2. db = EmptyDB
    BY DEF HistoryInit, Init
  <1>3. /\ db \in DB /\ db.snaps = {} /\ db.links = {}
        /\ db.heads[Session] \in Calls \cup {None}
    <2>1. Session \in Sessions /\ Session \in InitialSessions
      BY HistoryAssumption DEF Sessions
    <2> QED
      BY <1>2, <2>1 DEF EmptyDB, DB, Sessions
  <1>4. HistoryTypeOK
    <2>1. inside \in Nat /\ inside <= Len(queue)
      <3>1. queue = <<>> /\ inside = 0 /\ Len(<<>>) = 0
        BY EmptySeq DEF HistoryInit
      <3> QED
        BY <3>1
    <2>2. /\ addCount \in Nat /\ clock \in Int /\ restarts \in Nat /\ epoch \in Nat
      BY DEF HistoryInit
    <2>6. auto \in BOOLEAN /\ ready \in BOOLEAN
      BY DEF HistoryInit
    <2>7. overtaken \in BOOLEAN
      BY DEF HistoryInit
    <2>3. /\ key \in [Units -> Nat] /\ stamp \in [Units -> Int] /\ since \in [Calls -> Nat]
          /\ \A c \in Calls : since[c] <= epoch
      BY DEF HistoryInit
    <2>4. /\ op \in [Calls -> {"idle", "add", "clear", "save", "rollback"}]
          /\ list \in [Calls -> Seq(Units)]
          /\ result \in [Calls -> {"pending", "ok", "raised"}]
      BY <1>1 DEF HistoryInit
    <2>5. queue \in Seq(Calls)
      BY <1>1 DEF HistoryInit
    <2> QED
      BY <1>3, <2>1, <2>2, <2>3, <2>4, <2>5, <2>6, <2>7 DEF HistoryTypeOK
  <1>5. \A c \in Calls : list[c] = <<>> /\ op[c] = "idle" /\ result[c] = "pending"
    BY DEF HistoryInit
  <1>6. ListsOK
    BY <1>1, <1>5 DEF ListsOK, Numbered, HistoryInit
  <1>7. QueueOK
    BY <1>1, <1>5 DEF QueueOK, HistoryInit
  <1>8. StoredOK
    BY <1>3 DEF StoredOK
  <1> QED
    BY <1>4, <1>6, <1>7, <1>8 DEF BaseInv

LEMMA BaseStutter ==
  ASSUME BaseInv, UNCHANGED histVars
  PROVE  BaseInv'
  BY DEF BaseInv, HistoryTypeOK, ListsOK, QueueOK, StoredOK, Stored, histVars, vars,
         adapterVars, unitVars, lockVars, callVars

(* A call passes the init lock, or the client is closed or initialised.    *)
Passes ==
  /\ UNCHANGED <<db, adapterVars, unitVars, callVars, queue, overtaken, restarts, epoch>>
  /\ ready' \in BOOLEAN
  /\ inside' \in Nat
  /\ inside' <= Len(queue)

LEMMA PassBase ==
  ASSUME BaseInv, CloseOrOpen \/ \E c \in Calls : Enter(c)
  PROVE  BaseInv' /\ Passes
  <1>1. HistoryTypeOK /\ Len(queue) \in Nat
    BY QueueTyped DEF BaseInv
  <1>2. Passes
    <2>1. CASE CloseOrOpen
      BY <1>1, <2>1 DEF CloseOrOpen, Passes, HistoryTypeOK, vars
    <2>2. ASSUME NEW c \in Calls, Enter(c) PROVE Passes
      <3>1. inside < Len(queue) /\ inside' = inside + 1 /\ inside \in Nat
        BY <1>1, <2>2 DEF Enter, Entering, HistoryTypeOK
      <3> QED
        BY <1>1, <2>2, <3>1 DEF Enter, Passes, vars
    <2> QED
      BY <2>1, <2>2
  <1> QED
    BY <1>2 DEF Passes, BaseInv, HistoryTypeOK, ListsOK, QueueOK, StoredOK, Stored,
                adapterVars, unitVars, callVars

LEMMA BaseNext ==
  ASSUME BaseInv, [HistoryNext]_histVars
  PROVE  BaseInv'
  <1>1. ASSUME NEW c \in Calls, Add(c) \/ Clear(c) \/ Save(c) \/ RollBack(c) PROVE BaseInv'
    BY <1>1, MakeBase
  <1>2. ASSUME NEW c \in Calls, Write(c) \/ Fail(c) \/ Cancel(c) PROVE BaseInv'
    BY <1>2, LeaveBase
  <1>3. CASE Resume \/ Crash
    BY <1>3, ReplaceBase
  <1>4. CASE HistoryTerminating \/ UNCHANGED histVars
    BY <1>4, BaseStutter DEF HistoryTerminating
  <1>5. CASE CloseOrOpen \/ \E c \in Calls : Enter(c)
    BY <1>5, PassBase
  <1> QED
    BY <1>1, <1>2, <1>3, <1>4, <1>5 DEF HistoryNext

THEOREM HistoryBase == HistorySpec => []BaseInv
  <1>1. HistoryInit => BaseInv
    BY BaseInit
  <1>2. BaseInv /\ [HistoryNext]_histVars => BaseInv'
    BY BaseNext
  <1> QED
    BY <1>1, <1>2, PTL DEF HistorySpec

(* The messages of a snapshot have different keys, so diff() tells them    *)
(* apart: adapters/langchain.py numbers them by the length of the list.    *)
THEOREM MessagesHaveKeys == HistorySpec => []KeysDistinct
  <1>1. BaseInv => KeysDistinct
    <2> SUFFICES ASSUME BaseInv, NEW r \in db.snaps,
                        NEW u \in Members(db, r.id), NEW v \in Members(db, r.id),
                        key[u] = key[v]
                 PROVE  u = v
      BY DEF KeysDistinct
    <2>1. r.id \in Calls /\ Members(db, r.id) = Range(list[r.id])
      BY DEF BaseInv, HistoryTypeOK, DB, SnapshotRow, StoredOK
    <2>2. PICK i, j \in DOMAIN list[r.id] : u = list[r.id][i] /\ v = list[r.id][j]
      BY <2>1 DEF Range
    <2>3. Numbered(list[r.id], key, op)
      BY <2>1 DEF BaseInv, ListsOK
    <2> QED
      BY <2>2, <2>3 DEF Numbered
  <1> QED
    BY <1>1, HistoryBase, PTL

(* What from_snapshot() gives back is the list that was saved, as far as   *)
(* sorting by created_at can tell.                                         *)
THEOREM AdapterResumes == HistorySpec => Resumes
  <1>1. ASSUME BaseInv, [HistoryNext]_histVars PROVE [ResumedAsSaved]_histVars
    <2> SUFFICES ASSUME HistoryNext, restarts' # restarts, kept' # <<>>
                 PROVE  \E r \in db.snaps :
                          LET old == list[r.id] IN
                          /\ Len(kept') = Len(old)
                          /\ Range(kept') = Range(old)
                          /\ \A i, j \in DOMAIN old : \A m, n \in DOMAIN kept' :
                               /\ i < j /\ stamp[old[i]] < stamp[old[j]]
                               /\ kept'[m] = old[i] /\ kept'[n] = old[j]
                               => m < n
      BY <1>1 DEF ResumedAsSaved
    <2>1. \A c \in Calls : ~(Add(c) \/ Clear(c) \/ Save(c) \/ RollBack(c))
      BY <1>1, MakeBase DEF Makes
    <2>2. \A c \in Calls : ~(Write(c) \/ Fail(c) \/ Cancel(c))
      BY <1>1, LeaveBase DEF Leaves
    <2>9. \A c \in Calls : ~Enter(c)
      BY <1>1 DEF Enter
    <2>3. Resume
      BY <1>1, <2>1, <2>2, <2>9 DEF HistoryNext, Crash, CloseOrOpen, HistoryTerminating, histVars
    <2>4. PICK r \in db.snaps : ResumesFrom(list[r.id])
      BY <1>1, <2>3, ResumeFacts
    <2> DEFINE old == list[r.id]
    <2>5. r.id \in Calls
      BY <1>1 DEF BaseInv, HistoryTypeOK, DB, SnapshotRow
    <2>6. old \in Seq(Units) /\ DOMAIN kept' = 1..Len(kept') /\ Len(kept') \in Nat
      <3>1. BaseInv'
        BY <1>1, BaseNext
      <3>2. kept' \in Seq(Units)
        BY <3>1 DEF BaseInv, ListsOK, Numbered
      <3> QED
        BY <1>1, <2>5, <3>2, LenProperties DEF BaseInv, HistoryTypeOK
    <2>7. \A i \in DOMAIN old : stamp[old[i]] \in Int
      BY <1>1, <2>6, LenProperties, ElementOfSeq DEF BaseInv, HistoryTypeOK
    <2> HIDE DEF old
    <2>8. ASSUME NEW i \in DOMAIN old, NEW j \in DOMAIN old,
                 NEW m \in DOMAIN kept', NEW n \in DOMAIN kept',
                 stamp[old[i]] < stamp[old[j]], kept'[m] = old[i], kept'[n] = old[j]
          PROVE  m < n
      <3>1. ~(n < m)
        BY <2>4, <2>7, <2>8 DEF ResumesFrom
      <3>2. n # m
        BY <2>7, <2>8
      <3> QED
        BY <2>6, <3>1, <3>2
    <2> QED
      BY <2>4, <2>8 DEF ResumesFrom, old
  <1> QED
    BY <1>1, HistoryBase, PTL DEF HistorySpec, Resumes

-----------------------------------------------------------------------------
(* The order of the calls that wait.                                       *)

(* A call that copies a list of which nothing is missing.                  *)
Grows(c) ==
  /\ Makes(c)
  /\ epoch' = epoch
  /\ op'[c] \in {"add", "save"}
  /\ list'[c] = kept'
  /\ Range(kept) \subseteq Range(kept')
  /\ \A u \in Range(kept') : u \in Range(kept) \/ u[1] = c
  /\ overtaken => overtaken'

(* A call from which on messages may be missing.                           *)
Empties(c) ==
  /\ Makes(c)
  /\ epoch' = epoch + 1
  /\ op'[c] \in {"clear", "rollback"}
  /\ op'[c] = "clear" => kept' = <<>> /\ list'[c] = <<>>
  /\ result'[c] = "pending"
  /\ Joins(c)

LEMMA GrowsOrEmpties ==
  ASSUME BaseInv, NEW c \in Calls
  PROVE  /\ Add(c) \/ Save(c) => Grows(c)
         /\ Clear(c) \/ RollBack(c) => Empties(c)
  <1>1. op[c] = "idle" => result[c] = "pending"
    BY DEF BaseInv, QueueOK
  <1>2. op \in [Calls -> {"idle", "add", "clear", "save", "rollback"}]
        /\ list \in [Calls -> Seq(Units)]
    BY DEF BaseInv, HistoryTypeOK
  <1>3. ASSUME Add(c) PROVE Grows(c)
    <2>1. PICK n \in Batches : Extends(c, n)
      BY <1>3, AddFacts
    <2>2. \A u \in Range(NewMessages(c, n)) : u[1] = c
      BY NewFacts
    <2>3. /\ Make(c, "add", Due, kept')
          /\ Range(kept') = Range(kept) \cup Range(NewMessages(c, n))
          /\ epoch' = epoch
      BY <2>1 DEF Extends
    <2>4. op'[c] = "add" /\ list'[c] = kept' /\ (overtaken => overtaken')
      BY <1>2, <2>3 DEF Make
    <2>5. Makes(c)
      BY <1>3, MakeBase
    <2> QED
      BY <2>2, <2>3, <2>4, <2>5 DEF Grows
  <1>4. ASSUME Save(c) PROVE Grows(c)
    <2>1. Makes(c)
      BY <1>4, MakeBase
    <2>2. /\ op'[c] = "save" /\ list'[c] = kept /\ kept' = kept /\ epoch' = epoch
          /\ overtaken => overtaken'
      BY <1>2, <1>4 DEF Save, Make, adapterVars
    <2> QED
      BY <2>1, <2>2 DEF Grows
  <1>6. ASSUME NEW what \in {"add", "clear", "save", "rollback"}, NEW saves \in BOOLEAN,
               NEW us \in Seq(Units), Make(c, what, saves, us), saves
        PROVE  Joins(c)
    <2>1. HistoryTypeOK /\ QueueOK /\ StoredOK
      BY DEF BaseInv
    <2>2. Made(c, what, saves, us)
      BY <1>6, <2>1, MakeFacts
    <2> QED
      BY <1>6, <2>2 DEF Made
  <1>8. TRUE \in BOOLEAN
    OBVIOUS
  <1>5. ASSUME Clear(c) PROVE Empties(c)
    <2>1. Makes(c)
      BY <1>5, MakeBase
    <2>2. /\ op'[c] = "clear" /\ list'[c] = <<>> /\ kept' = <<>> /\ epoch' = epoch + 1
          /\ result' = result /\ Make(c, "clear", TRUE, <<>>)
      BY <1>2, <1>5 DEF Clear, Make
    <2>3. Joins(c)
      BY <1>6, <1>8, <2>2, EmptySeq
    <2> QED
      BY <1>1, <2>1, <2>2, <2>3 DEF Empties, Makes
  <1>7. ASSUME RollBack(c) PROVE Empties(c)
    <2>1. Makes(c)
      BY <1>7, MakeBase
    <2>2. PICK r \in db.snaps :
            Make(c, "rollback", TRUE, list[r.id]) /\ epoch' = epoch + 1
      BY <1>7 DEF RollBack
    <2>3. op'[c] = "rollback" /\ result' = result
      BY <1>2, <2>2 DEF Make
    <2>4. r.id \in Calls
      BY DEF BaseInv, HistoryTypeOK, DB, SnapshotRow
    <2>5. Joins(c)
      BY <1>2, <1>6, <1>8, <2>2, <2>4
    <2> QED
      BY <1>1, <2>1, <2>2, <2>3, <2>5 DEF Empties, Makes
  <1> QED
    BY <1>3, <1>4, <1>5, <1>7

LEMMA InHeadSame ==
  ASSUME UNCHANGED db
  PROVE  InHead' = InHead /\ \A d : HasSnapshot(db', d) <=> Stored(d)
  BY DEF InHead, Stored

OrderInv == QueueGrows /\ KeptHolds /\ ReturnedHolds /\ ClearHolds

(* Nothing is said of a call made before the list lost messages.           *)
LEMMA EmptiesOrder ==
  ASSUME BaseInv, NEW c \in Calls, Empties(c), ~overtaken'
  PROVE  OrderInv'
  <1>1. HistoryTypeOK
    BY DEF BaseInv
  <1>2. /\ Len(queue) \in Nat /\ DOMAIN queue = 1..Len(queue)
        /\ \A i \in DOMAIN queue : queue[i] \in Calls
    BY <1>1, QueueTyped
  <1>3. /\ Joins(c) /\ epoch' = epoch + 1 /\ since' = [since EXCEPT ![c] = epoch']
        /\ op'[c] \in {"clear", "rollback"} /\ result'[c] = "pending"
        /\ \A i \in DOMAIN queue : queue[i] # c
        /\ op'[c] = "clear" => kept' = <<>> /\ list'[c] = <<>>
    BY DEF Empties, Makes
  <1>4. \A d \in Calls : since'[d] = epoch' => d = c
    BY <1>1, <1>3 DEF HistoryTypeOK
  <1>5. /\ \A i \in DOMAIN queue : queue'[i] = queue[i]
        /\ DOMAIN queue' = 1..(Len(queue) + 1)
        /\ \A i \in DOMAIN queue' : i \in DOMAIN queue \/ i = Len(queue) + 1
        /\ queue'[Len(queue) + 1] = c
    BY <1>2, <1>3 DEF Joins, ComesLast
  <1>6. \A i \in DOMAIN queue' : since'[queue'[i]] = epoch' => i = Len(queue) + 1 /\ queue'[i] = c
    BY <1>2, <1>3, <1>4, <1>5
  <1>7. QueueGrows'
    <2>1. ASSUME NEW i \in DOMAIN queue', NEW j \in DOMAIN queue', i < j,
                 since'[queue'[i]] = epoch'
          PROVE  FALSE
      BY <1>2, <1>5, <1>6, <2>1
    <2> QED
      BY <2>1 DEF QueueGrows, Fresh
  <1>8. KeptHolds'
    BY <1>3, <1>6 DEF KeptHolds, Fresh, Saves
  <1>9. ReturnedHolds'
    BY <1>3, <1>4 DEF ReturnedHolds, Returned, Fresh, Saves
  <1>10. ClearHolds'
    <2>1. DOMAIN <<>> = {} /\ Range(<<>>) = {}
      BY DEF Range
    <2>2. ASSUME NEW d \in Calls, op'[d] = "clear", since'[d] = epoch'
          PROVE  /\ Range(kept') = {}
                 /\ \A i \in DOMAIN queue' : since'[queue'[i]] = epoch' => Range(list'[queue'[i]]) = {}
                 /\ result'[d] # "ok"
      BY <1>3, <1>4, <1>6, <2>1, <2>2
    <2> QED
      BY <2>2 DEF ClearHolds, Cleared, Fresh, AllFresh
  <1> QED
    BY <1>7, <1>8, <1>9, <1>10 DEF OrderInv

LEMMA ReplacesOrder ==
  ASSUME BaseInv, Replaces
  PROVE  OrderInv'
  <1>1. \A d \in Calls : since'[d] # epoch'
    BY DEF BaseInv, HistoryTypeOK, Replaces
  <1>2. DOMAIN queue' = {}
    BY DEF Replaces
  <1> QED
    BY <1>1, <1>2 DEF OrderInv, QueueGrows, KeptHolds, ReturnedHolds, Returned, ClearHolds, Cleared,
                      Fresh

(* Every message in a list or in the head is of a call that was made.      *)
LEMMA MessageCalls ==
  ASSUME BaseInv
  PROVE  /\ \A u \in Range(kept) : u[1] \in Calls /\ op[u[1]] # "idle"
         /\ \A d \in Calls : \A u \in Range(list[d]) : u[1] \in Calls /\ op[u[1]] # "idle"
         /\ \A u \in InHead : u[1] \in Calls /\ op[u[1]] # "idle"
  <1>1. \A u \in Range(kept) : u[1] \in Calls /\ op[u[1]] # "idle"
    BY DEF BaseInv, ListsOK, Numbered, Range
  <1>2. \A d \in Calls : \A u \in Range(list[d]) : u[1] \in Calls /\ op[u[1]] # "idle"
    BY DEF BaseInv, ListsOK, Numbered, Range
  <1>3. ASSUME NEW u \in InHead PROVE u[1] \in Calls /\ op[u[1]] # "idle"
    <2> DEFINE h == db.heads[Session]
    <2>1. h \in Calls /\ u \in Members(db, h) /\ <<h, u>> \in db.links
      BY DEF InHead, Members, BaseInv, StoredOK
    <2>2. <<h, u>>[1] = h
      OBVIOUS
    <2>3. Stored(h)
      BY <2>1, <2>2 DEF BaseInv, StoredOK
    <2>4. u \in Range(list[h])
      BY <2>1, <2>3 DEF Stored, HasSnapshot, BaseInv, StoredOK
    <2> QED
      BY <1>2, <2>1, <2>4
  <1> QED
    BY <1>1, <1>2, <1>3

LEMMA GrowsOrder ==
  ASSUME BaseInv, OrderInv, NEW c \in Calls, Grows(c), ~overtaken'
  PROVE  OrderInv'
  <1>1. HistoryTypeOK
    BY DEF BaseInv
  <1>2. /\ Len(queue) \in Nat /\ DOMAIN queue = 1..Len(queue)
        /\ \A i \in DOMAIN queue : queue[i] \in Calls
    BY <1>1, QueueTyped
  <1>3. /\ epoch' = epoch /\ db' = db
        /\ op'[c] \in {"add", "save"} /\ list'[c] = kept' /\ since'[c] = epoch
        /\ Range(kept) \subseteq Range(kept')
        /\ \A u \in Range(kept') : u \in Range(kept) \/ u[1] = c
        /\ ~Stored(c)
        /\ \A d \in Calls : d # c => /\ op'[d] = op[d] /\ list'[d] = list[d]
                                     /\ result'[d] = result[d] /\ since'[d] = since[d]
    BY <1>1 DEF Grows, Makes, Others, HistoryTypeOK
  <1>4. \A i \in DOMAIN queue : queue[i] # c
    BY DEF Grows, Makes
  <1>5. /\ \A i \in DOMAIN queue' :
             \/ i \in DOMAIN queue /\ queue'[i] = queue[i]
             \/ i = Len(queue) + 1 /\ queue'[i] = c
        /\ \A i \in DOMAIN queue' : i \in Nat
    <2>1. CASE queue' = queue
      BY <1>2, <2>1
    <2>2. CASE Joins(c)
      BY <1>2, <2>2 DEF Joins, ComesLast
    <2> QED
      BY <2>1, <2>2 DEF Grows, Makes
  <1>6. ASSUME NEW i \in DOMAIN queue
        PROVE  /\ queue[i] \in Calls
               /\ op'[queue[i]] = op[queue[i]] /\ list'[queue[i]] = list[queue[i]]
               /\ since'[queue[i]] = since[queue[i]]
    BY <1>2, <1>3, <1>4
  <1>7. QueueGrows'
    <2>1. ASSUME NEW i \in DOMAIN queue', NEW j \in DOMAIN queue', i < j,
                 since'[queue'[i]] = epoch'
          PROVE  /\ since'[queue'[j]] = epoch'
                 /\ op'[queue'[j]] \in {"add", "save"}
                 /\ op'[queue'[i]] \in {"add", "save"} =>
                      Range(list'[queue'[i]]) \subseteq Range(list'[queue'[j]])
      <3>1. i \in DOMAIN queue /\ queue'[i] = queue[i]
        BY <1>2, <1>5, <2>1
      <3>2. Fresh(queue[i])
        BY <1>3, <1>6, <2>1, <3>1 DEF Fresh
      <3>3. CASE j \in DOMAIN queue /\ queue'[j] = queue[j]
        BY <1>3, <1>6, <2>1, <3>1, <3>2, <3>3 DEF OrderInv, QueueGrows, Fresh, Saves
      <3>4. CASE queue'[j] = c
        <4>1. Saves(queue[i]) => Range(list[queue[i]]) \subseteq Range(kept)
          BY <3>1, <3>2 DEF OrderInv, KeptHolds
        <4> QED
          BY <1>3, <1>6, <3>1, <3>4, <4>1 DEF Saves
      <3> QED
        BY <1>5, <3>3, <3>4
    <2> QED
      BY <2>1 DEF QueueGrows, Fresh, Saves
  <1>8. KeptHolds'
    <2>1. ASSUME NEW i \in DOMAIN queue', since'[queue'[i]] = epoch',
                 op'[queue'[i]] \in {"add", "save"}
          PROVE  Range(list'[queue'[i]]) \subseteq Range(kept')
      <3>1. CASE queue'[i] = c
        BY <1>3, <3>1
      <3>2. CASE i \in DOMAIN queue /\ queue'[i] = queue[i]
        BY <1>3, <1>6, <2>1, <3>2 DEF OrderInv, KeptHolds, Fresh, Saves
      <3> QED
        BY <1>5, <3>1, <3>2
    <2> QED
      BY <2>1 DEF KeptHolds, Fresh, Saves
  <1>9. InHead' = InHead /\ \A d : HasSnapshot(db', d) <=> Stored(d)
    BY <1>3, InHeadSame
  <1>10. ReturnedHolds'
    <2>1. ASSUME NEW d \in Calls, HasSnapshot(db', d), op'[d] \in {"add", "save"},
                 result'[d] = "ok", since'[d] = epoch'
          PROVE  /\ Range(list'[d]) \subseteq InHead'
                 /\ Range(list'[d]) \subseteq Range(kept')
                 /\ \A i \in DOMAIN queue' :
                      /\ since'[queue'[i]] = epoch'
                      /\ op'[queue'[i]] \in {"add", "save"}
                      /\ Range(list'[d]) \subseteq Range(list'[queue'[i]])
      <3>1. d # c /\ Returned(d) /\ list'[d] = list[d]
        BY <1>3, <1>9, <2>1 DEF Returned, Fresh, Saves
      <3>2. /\ Range(list[d]) \subseteq InHead
            /\ Range(list[d]) \subseteq Range(kept)
            /\ \A i \in DOMAIN queue :
                 /\ Fresh(queue[i])
                 /\ Saves(queue[i])
                 /\ Range(list[d]) \subseteq Range(list[queue[i]])
        BY <3>1 DEF OrderInv, ReturnedHolds
      <3>3. ASSUME NEW i \in DOMAIN queue'
            PROVE  /\ since'[queue'[i]] = epoch'
                   /\ op'[queue'[i]] \in {"add", "save"}
                   /\ Range(list[d]) \subseteq Range(list'[queue'[i]])
        <4>1. CASE queue'[i] = c
          BY <1>3, <3>2, <4>1
        <4>2. CASE i \in DOMAIN queue /\ queue'[i] = queue[i]
          BY <1>3, <1>6, <3>2, <4>2 DEF Fresh, Saves
        <4> QED
          BY <1>5, <4>1, <4>2
      <3> QED
        BY <1>3, <1>9, <3>1, <3>2, <3>3
    <2> QED
      BY <2>1 DEF ReturnedHolds, Returned, Fresh, Saves, Stored
  <1>11. ClearHolds'
    <2>1. ASSUME NEW u, u[1] \in Calls, Fresh(u[1]) PROVE since'[u[1]] = epoch'
      BY <1>3, <2>1 DEF Fresh
    <2>2. ASSUME NEW d \in Calls, op'[d] = "clear", since'[d] = epoch'
          PROVE  /\ \A u \in Range(kept') : since'[u[1]] = epoch'
                 /\ \A i \in DOMAIN queue' : since'[queue'[i]] = epoch' =>
                      \A u \in Range(list'[queue'[i]]) : since'[u[1]] = epoch'
                 /\ result'[d] = "ok" =>
                      /\ \A u \in InHead' : since'[u[1]] = epoch'
                      /\ \A i \in DOMAIN queue' : since'[queue'[i]] = epoch'
      <3>1. d # c /\ Cleared(d) /\ result'[d] = result[d]
        BY <1>3, <2>2 DEF Cleared, Fresh
      <3>2. /\ AllFresh(Range(kept))
            /\ \A i \in DOMAIN queue : Fresh(queue[i]) => AllFresh(Range(list[queue[i]]))
            /\ result[d] = "ok" =>
                 AllFresh(InHead) /\ \A i \in DOMAIN queue : Fresh(queue[i])
        BY <3>1 DEF OrderInv, ClearHolds
      <3>3. \A u \in Range(kept') : since'[u[1]] = epoch'
        <4>1. \A u \in Range(kept) : since'[u[1]] = epoch'
          BY <2>1, <3>2, MessageCalls DEF AllFresh
        <4> QED
          BY <1>3, <4>1
      <3>4. ASSUME NEW i \in DOMAIN queue', since'[queue'[i]] = epoch',
                   NEW u \in Range(list'[queue'[i]])
            PROVE  since'[u[1]] = epoch'
        <4>1. CASE queue'[i] = c
          BY <1>3, <3>3, <4>1
        <4>2. CASE i \in DOMAIN queue /\ queue'[i] = queue[i]
          <5>1. Fresh(queue[i]) /\ u \in Range(list[queue[i]]) /\ queue[i] \in Calls
            BY <1>3, <1>6, <3>4, <4>2 DEF Fresh
          <5>2. Fresh(u[1]) /\ u[1] \in Calls
            BY <3>2, <4>2, <5>1, MessageCalls DEF AllFresh
          <5> QED
            BY <2>1, <5>2
        <4> QED
          BY <1>5, <4>1, <4>2
      <3>5. ASSUME result'[d] = "ok", NEW u \in InHead' PROVE since'[u[1]] = epoch'
        <4>1. u \in InHead /\ Fresh(u[1])
          BY <1>9, <3>1, <3>2, <3>5 DEF AllFresh
        <4> QED
          BY <2>1, <4>1, MessageCalls
      <3>6. ASSUME result'[d] = "ok", NEW i \in DOMAIN queue' PROVE since'[queue'[i]] = epoch'
        BY <1>3, <1>5, <1>6, <3>1, <3>2, <3>6 DEF Fresh
      <3> QED
        BY <3>3, <3>4, <3>5, <3>6
    <2> QED
      BY <2>2 DEF ClearHolds, Cleared, Fresh, AllFresh
  <1> QED
    BY <1>7, <1>8, <1>10, <1>11 DEF OrderInv

LEMMA LeavesOrder ==
  ASSUME BaseInv, OrderInv, NEW c \in Calls, Leaves(c)
  PROVE  OrderInv'
  <1>1. HistoryTypeOK
    BY DEF BaseInv
  <1>2. /\ Len(queue) \in Nat /\ DOMAIN queue = 1..Len(queue)
        /\ \A i \in DOMAIN queue : queue[i] \in Calls
    BY <1>1, QueueTyped
  <1>3. /\ op' = op /\ list' = list /\ since' = since /\ epoch' = epoch /\ kept' = kept
        /\ \A d \in Calls : d # c => result'[d] = result[d]
    BY DEF Leaves, adapterVars
  <1>4. /\ \A j, k \in DOMAIN queue' : j < k =>
             \E m, n \in DOMAIN queue : m < n /\ queue[m] = queue'[j] /\ queue[n] = queue'[k]
        /\ \A j \in DOMAIN queue' :
             queue'[j] # c /\ \E m \in DOMAIN queue : queue[m] = queue'[j]
    BY DEF Leaves
  <1>5. QueueGrows'
    <2>1. ASSUME NEW j \in DOMAIN queue', NEW k \in DOMAIN queue', j < k,
                 Fresh(queue'[j])
          PROVE  /\ Fresh(queue'[k])
                 /\ Saves(queue'[k])
                 /\ Saves(queue'[j]) => Range(list[queue'[j]]) \subseteq Range(list[queue'[k]])
      BY <1>4, <2>1 DEF OrderInv, QueueGrows
    <2> QED
      BY <1>3, <2>1 DEF QueueGrows, Fresh, Saves
  <1>6. KeptHolds'
    <2>1. ASSUME NEW j \in DOMAIN queue', Fresh(queue'[j]), Saves(queue'[j])
          PROVE  Range(list[queue'[j]]) \subseteq Range(kept)
      BY <1>4, <2>1 DEF OrderInv, KeptHolds
    <2> QED
      BY <1>3, <2>1 DEF KeptHolds, Fresh, Saves
  <1>7. ASSUME NEW d \in Calls, HasSnapshot(db', d), Saves(d), result'[d] = "ok", Fresh(d)
        PROVE  /\ Range(list[d]) \subseteq InHead'
               /\ Range(list[d]) \subseteq Range(kept)
               /\ \A j \in DOMAIN queue' :
                    Fresh(queue'[j]) /\ Saves(queue'[j])
                    /\ Range(list[d]) \subseteq Range(list[queue'[j]])
    <2>1. CASE db' = db /\ result'[c] = "raised"
      <3>1. Returned(d) /\ InHead' = InHead
        BY <1>3, <1>7, <2>1, InHeadSame DEF Returned
      <3> QED
        BY <1>4, <3>1 DEF OrderInv, ReturnedHolds
    <2>2. CASE queue # <<>> /\ queue[1] = c /\ Stores(c) /\ InHead' = Range(list[c])
      <3>1. 1 \in DOMAIN queue
        BY <1>2, <2>2
      <3>2. \A j \in DOMAIN queue' : \E m \in DOMAIN queue : 1 < m /\ queue[m] = queue'[j]
        BY <1>2, <1>4, <2>2
      <3>3. CASE d = c
        <4>1. Range(list[c]) \subseteq Range(kept)
          BY <1>7, <2>2, <3>1, <3>3 DEF OrderInv, KeptHolds
        <4>2. ASSUME NEW j \in DOMAIN queue'
              PROVE  Fresh(queue'[j]) /\ Saves(queue'[j])
                     /\ Range(list[c]) \subseteq Range(list[queue'[j]])
          BY <1>7, <2>2, <3>1, <3>2, <3>3 DEF OrderInv, QueueGrows
        <4> QED
          BY <2>2, <3>3, <4>1, <4>2
      <3>4. CASE d # c
        <4>1. Returned(d)
          BY <1>3, <1>7, <2>2, <3>4 DEF Stores, Stored, Returned
        <4>2. /\ Range(list[d]) \subseteq Range(kept)
              /\ \A i \in DOMAIN queue :
                   /\ Fresh(queue[i])
                   /\ Saves(queue[i])
                   /\ Range(list[d]) \subseteq Range(list[queue[i]])
          BY <4>1 DEF OrderInv, ReturnedHolds
        <4>3. Range(list[d]) \subseteq InHead'
          BY <2>2, <3>1, <4>2
        <4> QED
          BY <1>4, <4>2, <4>3
      <3> QED
        BY <3>3, <3>4
    <2> QED
      BY <2>1, <2>2 DEF Leaves
  <1>8. ReturnedHolds'
    BY <1>3, <1>7 DEF ReturnedHolds, Returned, Fresh, Saves, Stored
  <1>9. ASSUME NEW d \in Calls, Cleared(d)
        PROVE  /\ AllFresh(Range(kept))
               /\ \A j \in DOMAIN queue' : Fresh(queue'[j]) => AllFresh(Range(list[queue'[j]]))
               /\ result'[d] = "ok" =>
                    AllFresh(InHead') /\ \A j \in DOMAIN queue' : Fresh(queue'[j])
    <2>1. /\ AllFresh(Range(kept))
          /\ \A i \in DOMAIN queue : Fresh(queue[i]) => AllFresh(Range(list[queue[i]]))
          /\ result[d] = "ok" =>
               AllFresh(InHead) /\ \A i \in DOMAIN queue : Fresh(queue[i])
      BY <1>9 DEF OrderInv, ClearHolds
    <2>2. \A j \in DOMAIN queue' : Fresh(queue'[j]) => AllFresh(Range(list[queue'[j]]))
      BY <1>4, <2>1
    <2>3. ASSUME result'[d] = "ok"
          PROVE  AllFresh(InHead') /\ \A j \in DOMAIN queue' : Fresh(queue'[j])
      <3>1. CASE db' = db /\ result'[c] = "raised"
        <4>1. result[d] = "ok" /\ InHead' = InHead
          BY <1>3, <2>3, <3>1, InHeadSame
        <4> QED
          BY <1>4, <2>1, <4>1
      <3>2. CASE queue # <<>> /\ queue[1] = c /\ InHead' = Range(list[c])
        <4>1. 1 \in DOMAIN queue
          BY <1>2, <3>2
        <4>2. \A j \in DOMAIN queue' : \E m \in DOMAIN queue : 1 < m /\ queue[m] = queue'[j]
          BY <1>2, <1>4, <3>2
        <4>3. Fresh(c)
          <5>1. CASE d = c
            BY <1>9, <5>1 DEF Cleared
          <5>2. CASE d # c
            BY <1>3, <2>1, <2>3, <3>2, <4>1, <5>2
          <5> QED
            BY <5>1, <5>2
        <4>4. AllFresh(InHead')
          BY <2>1, <3>2, <4>1, <4>3
        <4>5. \A j \in DOMAIN queue' : Fresh(queue'[j])
          BY <3>2, <4>1, <4>2, <4>3 DEF OrderInv, QueueGrows
        <4> QED
          BY <4>4, <4>5
      <3> QED
        BY <3>1, <3>2 DEF Leaves
    <2> QED
      BY <2>1, <2>2, <2>3
  <1>10. ClearHolds'
    BY <1>3, <1>9 DEF ClearHolds, Cleared, Fresh, AllFresh
  <1> QED
    BY <1>5, <1>6, <1>8, <1>10 DEF OrderInv

LEMMA OrderInit == HistoryInit => OrderInv
  <1> SUFFICES ASSUME HistoryInit PROVE OrderInv
    OBVIOUS
  <1>1. queue = <<>> /\ DOMAIN <<>> = {} /\ \A c \in Calls : op[c] = "idle"
    BY DEF HistoryInit
  <1> QED
    BY <1>1 DEF OrderInv, QueueGrows, KeptHolds, ReturnedHolds, Returned, Saves, ClearHolds, Cleared

LEMMA OrderStutter ==
  ASSUME OrderInv, UNCHANGED histVars \/ Passes
  PROVE  OrderInv'
  <1>1. /\ db' = db /\ queue' = queue /\ op' = op /\ list' = list /\ result' = result
        /\ since' = since /\ epoch' = epoch /\ kept' = kept
    BY DEF histVars, vars, adapterVars, lockVars, callVars, Passes
  <1>2. InHead' = InHead
    BY <1>1, InHeadSame
  <1> QED
    BY <1>1, <1>2 DEF OrderInv, QueueGrows, KeptHolds, ReturnedHolds, Returned, Saves, Stored,
                      ClearHolds, Cleared, Fresh, AllFresh

(* Nothing is said once a call was overtaken, until messages are meant to  *)
(* go: what waits then was all made before.                                *)
InOrder == ~overtaken => OrderInv

LEMMA OrderNext ==
  ASSUME BaseInv, InOrder, [HistoryNext]_histVars
  PROVE  InOrder'
  <1> SUFFICES ASSUME ~overtaken' PROVE OrderInv'
    BY DEF InOrder
  <1>1. ASSUME NEW c \in Calls, Add(c) \/ Save(c) PROVE OrderInv'
    <2>1. Grows(c)
      BY <1>1, GrowsOrEmpties
    <2>2. OrderInv
      BY <2>1 DEF Grows, InOrder
    <2> QED
      BY <2>1, <2>2, GrowsOrder
  <1>2. ASSUME NEW c \in Calls, Clear(c) \/ RollBack(c) PROVE OrderInv'
    BY <1>2, GrowsOrEmpties, EmptiesOrder
  <1>3. ASSUME NEW c \in Calls, Write(c) \/ Fail(c) \/ Cancel(c) PROVE OrderInv'
    <2>1. Leaves(c)
      BY <1>3, LeaveBase
    <2>2. OrderInv
      BY <2>1 DEF Leaves, InOrder
    <2> QED
      BY <2>1, <2>2, LeavesOrder
  <1>4. CASE Resume \/ Crash
    BY <1>4, ReplaceBase, ReplacesOrder
  <1>5. CASE HistoryTerminating \/ UNCHANGED histVars
    <2>1. UNCHANGED histVars
      BY <1>5 DEF HistoryTerminating
    <2>2. OrderInv
      BY <2>1 DEF histVars, lockVars, InOrder
    <2> QED
      BY <2>1, <2>2, OrderStutter
  <1>6. CASE CloseOrOpen \/ \E c \in Calls : Enter(c)
    <2>1. Passes
      BY <1>6, PassBase
    <2>2. OrderInv
      BY <2>1 DEF Passes, InOrder
    <2> QED
      BY <2>1, <2>2, OrderStutter
  <1> QED
    BY <1>1, <1>2, <1>3, <1>4, <1>5, <1>6 DEF HistoryNext

THEOREM HistoryOrder == HistorySpec => [](BaseInv /\ InOrder)
  <1>1. HistoryInit => InOrder
    BY OrderInit DEF InOrder
  <1>2. BaseInv /\ InOrder /\ [HistoryNext]_histVars => InOrder'
    BY OrderNext
  <1> QED
    BY <1>1, <1>2, HistoryBase, PTL DEF HistorySpec

(* What snapshot() or a saving aadd_messages() has returned is in every    *)
(* later head until messages are meant to go: calls that overlap never     *)
(* leave the list that was copied earlier as the last one stored, unless   *)
(* one of them overtook another at the init lock of the client.            *)
THEOREM SavesSurvive == HistorySpec => []ReturnedIsSaved
  <1>1. InOrder => ReturnedIsSaved
    BY DEF InOrder, OrderInv, ReturnedHolds, Returned, Saves, Fresh, ReturnedIsSaved, Saving
  <1> QED
    BY <1>1, HistoryOrder, PTL

(* After aclear() has returned, no call that was still waiting brings the  *)
(* messages back that it dropped, unless it was overtaken at the init lock *)
(* of the client.                                                          *)
THEOREM ClearedForGood == HistorySpec => []ClearSticks
  <1>1. InOrder => ClearSticks
    BY DEF InOrder, OrderInv, ClearHolds, Cleared, Fresh, AllFresh, ClearSticks
  <1> QED
    BY <1>1, HistoryOrder, PTL

-----------------------------------------------------------------------------
(* The cadence of auto_snapshot.                                           *)

LEMMA Remainder ==
  ASSUME NEW a \in Nat, NEW e \in Nat \ {0}
  PROVE  /\ a % e \in Nat
         /\ a % e < e
         /\ a \div e \in Nat
         /\ a = e * (a \div e) + (a % e)
  OBVIOUS

LEMMA NextRemainder ==
  ASSUME NEW a \in Nat, NEW e \in Nat \ {0}, (a + 1) % e # 0
  PROVE  (a + 1) % e = (a % e) + 1
  <1> DEFINE m == a % e
             r == (a + 1) % e
             k == ((a + 1) \div e) - (a \div e)
  <1>1. m \in Nat /\ m < e /\ a \div e \in Nat /\ a = e * (a \div e) + m
    BY Remainder
  <1>2. r \in Nat /\ r < e /\ (a + 1) \div e \in Nat /\ a + 1 = e * ((a + 1) \div e) + r
    <2>1. a + 1 \in Nat
      OBVIOUS
    <2> QED
      BY <2>1, Remainder
  <1>3. r # 0
    OBVIOUS
  <1> HIDE DEF m, r
  <1>4. k \in Int /\ e * k = m + 1 - r
    BY <1>1, <1>2
  <1> HIDE DEF k
  <1>5. CASE k >= 1
    <2>1. e * k >= e
      BY <1>4, <1>5
    <2> QED
      BY <1>1, <1>2, <1>3, <1>4, <2>1
  <1>6. CASE k <= -1
    <2>1. e * k <= -e
      BY <1>4, <1>6
    <2> QED
      BY <1>1, <1>2, <1>4, <2>1
  <1>7. CASE k = 0
    <2>1. m + 1 - r = 0
      BY <1>4, <1>7
    <2> QED
      BY <1>1, <1>2, <2>1 DEF m, r
  <1> QED
    BY <1>4, <1>5, <1>6, <1>7

LEMMA NoneAdded ==
  ASSUME BaseInv', \A d \in Calls : ~(op'[d] = "add" /\ since'[d] = epoch')
  PROVE  AutoCount'
  <1>1. Uncovered' = {}
    BY DEF Uncovered, Added, Fresh
  <1>2. Every \in Nat \ {0} /\ addCount' \in Nat
    <2>1. HistoryTypeOK'
      BY DEF BaseInv
    <2>2. addCount' \in Nat
      BY <2>1 DEF HistoryTypeOK
    <2> QED
      BY <2>2, HistoryAssumption
  <1>5. ASSUME NEW a \in Nat PROVE 0 <= a % Every
    BY <1>2, Remainder
  <1>3. 0 <= addCount' % Every
    BY <1>2, <1>5
  <1>4. IsFiniteSet({}) /\ Cardinality({}) = 0
    BY FS_EmptySet
  <1> QED
    BY <1>1, <1>3, <1>4 DEF AutoCount, Added, Fresh

LEMMA GrowsCount ==
  ASSUME BaseInv, AutoCount, NEW c \in Calls, Add(c) \/ Save(c)
  PROVE  AutoCount'
  <1>1. HistoryTypeOK /\ Grows(c) /\ Makes(c)
    BY GrowsOrEmpties DEF BaseInv, Grows
  <1>2. /\ epoch' = epoch /\ db' = db
        /\ op[c] = "idle" /\ op'[c] \in {"add", "save"} /\ list'[c] = kept' /\ since'[c] = epoch
        /\ Range(kept) \subseteq Range(kept')
        /\ queue' = queue \/ Joins(c)
        /\ \A d \in Calls : d # c => /\ op'[d] = op[d] /\ list'[d] = list[d]
                                     /\ result'[d] = result[d] /\ since'[d] = since[d]
    BY <1>1 DEF Grows, Makes, Others, HistoryTypeOK
  <1>3. ASSUME NEW d \in Calls, Covers(d)
        PROVE  Covers(d)' /\ list'[d] = list[d]
    <2>1. d # c
      BY <1>2, <1>3 DEF Covers, Saves
    <2>2. Waiting(d) => Waiting(d)'
      <3>1. \A i \in DOMAIN queue : \E j \in DOMAIN queue' : queue'[j] = queue[i]
        BY <1>2 DEF Joins
      <3> QED
        BY <3>1 DEF Waiting
    <2>3. Stored(d) => Stored(d)'
      BY <1>2 DEF Stored
    <2> QED
      BY <1>2, <1>3, <2>1, <2>2, <2>3 DEF Covers, Saves, Fresh
  <1>4. op'[c] = "add" => <<c, 1>> \in Range(kept')
    <2>1. CASE Add(c)
      <3>1. PICK n \in Batches : Extends(c, n)
        BY <2>1, AddFacts
      <3>2. <<c, 1>> \in Range(NewMessages(c, n))
        BY NewFacts
      <3> QED
        BY <3>1, <3>2 DEF Extends
    <2>2. CASE Save(c)
      <3>1. op' = [op EXCEPT ![c] = "save"]
        BY <2>2 DEF Save, Make
      <3> QED
        BY <1>1, <3>1 DEF HistoryTypeOK
    <2> QED
      BY <2>1, <2>2
  <1>5. ASSUME NEW x \in Calls, Added(x)' PROVE <<x, 1>> \in Range(kept')
    <2>1. CASE x = c
      BY <1>4, <1>5, <2>1 DEF Added
    <2>2. CASE x # c
      <3>1. Added(x)
        BY <1>2, <1>5, <2>2 DEF Added, Fresh
      <3> QED
        BY <1>2, <3>1 DEF AutoCount
    <2> QED
      BY <2>1, <2>2
  <1>6. ASSUME NEW x \in Uncovered', x # c PROVE x \in Uncovered
    <2>1. x \in Calls /\ Added(x)' /\ \A d \in Calls : Covers(d)' => <<x, 1>> \notin Range(list'[d])
      BY <1>6 DEF Uncovered
    <2>2. Added(x)
      BY <1>2, <1>6, <2>1 DEF Added, Fresh
    <2> QED
      BY <1>3, <2>1, <2>2 DEF Uncovered
  <1>7. NoneRaised' => NoneRaised
    <2>1. ASSUME NoneRaised', NEW d \in Calls, op[d] # "idle", Fresh(d) PROVE result[d] # "raised"
      BY <1>2, <2>1 DEF NoneRaised, Fresh
    <2> QED
      BY <2>1 DEF NoneRaised
  <1>8. Every \in Nat \ {0} /\ addCount \in Nat
    BY <1>1, HistoryAssumption DEF HistoryTypeOK
  <1>9. ASSUME auto', NoneRaised'
        PROVE  IsFiniteSet(Uncovered') /\ Cardinality(Uncovered') <= addCount' % Every
    <2>1. CASE Save(c)
      <3>1. auto' = auto /\ addCount' = addCount
        BY <2>1 DEF Save, adapterVars
      <3>2. op'[c] = "save"
        BY <1>1, <2>1 DEF Save, Make, HistoryTypeOK
      <3>3. c \notin Uncovered'
        BY <3>2 DEF Uncovered, Added
      <3>4. Uncovered' \subseteq Uncovered
        BY <1>6, <3>3
      <3>5. IsFiniteSet(Uncovered) /\ Cardinality(Uncovered) <= addCount % Every
        BY <1>7, <1>9, <3>1 DEF AutoCount
      <3>6. /\ IsFiniteSet(Uncovered') /\ Cardinality(Uncovered') <= Cardinality(Uncovered)
            /\ Cardinality(Uncovered') \in Nat /\ Cardinality(Uncovered) \in Nat
        BY <3>4, <3>5, FS_Subset, FS_CardinalityType
      <3>7. addCount % Every \in Nat
        BY <1>8, Remainder
      <3> QED
        BY <3>1, <3>5, <3>6, <3>7
    <2>2. CASE Add(c)
      <3>1. PICK n \in Batches : Extends(c, n)
        BY <2>2, AddFacts
      <3>2. /\ auto' = auto /\ addCount' = addCount + 1
            /\ Make(c, "add", Due, kept')
        BY <3>1 DEF Extends
      <3>3. CASE Due
        <4>1. Joins(c)
          <5>1. QueueOK /\ StoredOK /\ kept' \in Seq(Units) /\ Due \in BOOLEAN
            BY <3>1, <3>3 DEF BaseInv, Extends
          <5>2. Made(c, "add", Due, kept')
            BY <1>1, <3>2, <5>1, MakeFacts
          <5> QED
            BY <3>3, <5>2 DEF Made
        <4>2. Waiting(c)'
          BY <4>1 DEF Joins, Waiting
        <4>3. Covers(c)'
          BY <1>2, <4>2 DEF Covers, Saves, Fresh
        <4>4. Uncovered' = {}
          <5>1. ASSUME NEW x \in Uncovered' PROVE FALSE
            <6>1. x \in Calls /\ Added(x)' /\ \A d \in Calls : Covers(d)' => <<x, 1>> \notin Range(list'[d])
              BY <5>1 DEF Uncovered
            <6> QED
              BY <1>2, <1>5, <4>3, <6>1
          <5> QED
            BY <5>1
        <4>5. addCount' % Every \in Nat
          BY <1>8, <3>2, Remainder
        <4>6. IsFiniteSet({}) /\ Cardinality({}) = 0
          BY FS_EmptySet
        <4> QED
          BY <4>4, <4>5, <4>6
      <3>4. CASE ~Due
        <4>1. (addCount + 1) % Every # 0
          BY <1>9, <3>2, <3>4 DEF Due
        <4>2. addCount' % Every = (addCount % Every) + 1 /\ addCount % Every \in Nat
          BY <1>8, <3>2, <4>1, NextRemainder, Remainder
        <4>3. IsFiniteSet(Uncovered) /\ Cardinality(Uncovered) <= addCount % Every
          BY <1>7, <1>9, <3>2 DEF AutoCount
        <4>4. Uncovered' \subseteq Uncovered \cup {c}
          BY <1>6
        <4>5. /\ IsFiniteSet(Uncovered \cup {c})
              /\ Cardinality(Uncovered \cup {c}) <= Cardinality(Uncovered) + 1
              /\ Cardinality(Uncovered) \in Nat
          <5>1. Cardinality(Uncovered) \in Nat
            BY <4>3, FS_CardinalityType
          <5>2. /\ IsFiniteSet(Uncovered \cup {c})
                /\ Cardinality(Uncovered \cup {c}) =
                     IF c \in Uncovered THEN Cardinality(Uncovered) ELSE Cardinality(Uncovered) + 1
            BY <4>3, FS_AddElement
          <5> QED
            BY <5>1, <5>2
        <4>6. /\ IsFiniteSet(Uncovered')
              /\ Cardinality(Uncovered') <= Cardinality(Uncovered \cup {c})
              /\ Cardinality(Uncovered') \in Nat /\ Cardinality(Uncovered \cup {c}) \in Nat
          BY <4>4, <4>5, FS_Subset, FS_CardinalityType
        <4> QED
          BY <4>2, <4>3, <4>5, <4>6
      <3> QED
        BY <3>3, <3>4
    <2> QED
      BY <2>1, <2>2
  <1> QED
    BY <1>5, <1>9 DEF AutoCount

LEMMA LeavesCount ==
  ASSUME BaseInv, AutoCount, NEW c \in Calls, Leaves(c)
  PROVE  AutoCount'
  <1>1. HistoryTypeOK
    BY DEF BaseInv
  <1>2. /\ op' = op /\ list' = list /\ since' = since /\ epoch' = epoch /\ kept' = kept
        /\ auto' = auto /\ addCount' = addCount
        /\ \A d \in Calls : d # c => result'[d] = result[d]
    BY DEF Leaves, adapterVars
  <1>3. result[c] = "pending"
    BY DEF Leaves, Waiting, BaseInv, QueueOK
  <1>4. NoneRaised' => NoneRaised
    <2>1. ASSUME NoneRaised', NEW d \in Calls, op[d] # "idle", Fresh(d) PROVE result[d] # "raised"
      BY <1>2, <1>3, <2>1 DEF NoneRaised, Fresh
    <2> QED
      BY <2>1 DEF NoneRaised
  <1>5. ASSUME NoneRaised', NEW d \in Calls, Covers(d) PROVE Covers(d)'
    <2>1. CASE d = c
      <3>1. op[c] # "idle" /\ Fresh(c)
        BY <1>5, <2>1 DEF Covers, Saves
      <3>2. result'[c] # "raised"
        BY <1>2, <1>5, <3>1 DEF NoneRaised, Fresh
      <3>3. Stored(c)'
        BY <3>2 DEF Leaves, Stores, Stored
      <3> QED
        BY <1>2, <1>5, <2>1, <3>3 DEF Covers, Saves, Fresh
    <2>2. CASE d # c
      <3>1. Waiting(d) => Waiting(d)'
        BY <2>2 DEF Waiting, Leaves
      <3>2. Stored(d) => Stored(d)'
        BY DEF Leaves, Stores, Stored
      <3> QED
        BY <1>2, <1>5, <3>1, <3>2 DEF Covers, Saves, Fresh
    <2> QED
      BY <2>1, <2>2
  <1>6. ASSUME auto', NoneRaised'
        PROVE  IsFiniteSet(Uncovered') /\ Cardinality(Uncovered') <= addCount' % Every
    <2>1. Uncovered' \subseteq Uncovered
      <3>1. ASSUME NEW x \in Uncovered' PROVE x \in Uncovered
        <4>1. x \in Calls /\ Added(x) /\ \A d \in Calls : Covers(d)' => <<x, 1>> \notin Range(list[d])
          BY <1>2, <3>1 DEF Uncovered, Added, Fresh
        <4> QED
          BY <1>5, <1>6, <4>1 DEF Uncovered
      <3> QED
        BY <3>1
    <2>2. IsFiniteSet(Uncovered) /\ Cardinality(Uncovered) <= addCount % Every
      BY <1>2, <1>4, <1>6 DEF AutoCount
    <2>3. /\ IsFiniteSet(Uncovered') /\ Cardinality(Uncovered') <= Cardinality(Uncovered)
          /\ Cardinality(Uncovered') \in Nat /\ Cardinality(Uncovered) \in Nat
      BY <2>1, <2>2, FS_Subset, FS_CardinalityType
    <2>4. addCount % Every \in Nat
      BY <1>1, HistoryAssumption, Remainder DEF HistoryTypeOK
    <2> QED
      BY <1>2, <2>2, <2>3, <2>4
  <1>7. \A x \in Calls : Added(x)' => <<x, 1>> \in Range(kept')
    BY <1>2 DEF AutoCount, Added, Fresh
  <1> QED
    BY <1>6, <1>7 DEF AutoCount

LEMMA AutoStutter ==
  ASSUME AutoCount, UNCHANGED histVars \/ Passes
  PROVE  AutoCount'
  <1>1. /\ db' = db /\ queue' = queue /\ op' = op /\ list' = list /\ result' = result
        /\ since' = since /\ epoch' = epoch /\ kept' = kept /\ auto' = auto
        /\ addCount' = addCount
    BY DEF histVars, vars, adapterVars, lockVars, callVars, Passes
  <1>2. \A d : (Waiting(d)' <=> Waiting(d)) /\ (Stored(d)' <=> Stored(d))
    BY <1>1 DEF Waiting, Stored
  <1>3. Uncovered' = Uncovered
    BY <1>1, <1>2 DEF Uncovered, Added, Covers, Saves, Fresh
  <1> QED
    BY <1>1, <1>3 DEF AutoCount, Added, Fresh, NoneRaised

LEMMA AutoInit == HistoryInit => AutoCount
  <1> SUFFICES ASSUME HistoryInit PROVE AutoCount
    OBVIOUS
  <1>1. \A c \in Calls : op[c] = "idle"
    BY DEF HistoryInit
  <1>2. Uncovered = {}
    BY <1>1 DEF Uncovered, Added
  <1>3. addCount = 0 /\ Every \in Nat \ {0} /\ 0 \in Nat
    BY HistoryAssumption DEF HistoryInit
  <1>4. 0 <= addCount % Every
    BY <1>3, Remainder
  <1>5. IsFiniteSet({}) /\ Cardinality({}) = 0
    BY FS_EmptySet
  <1> QED
    BY <1>1, <1>2, <1>4, <1>5 DEF AutoCount, Added

LEMMA AutoNext ==
  ASSUME BaseInv, AutoCount, [HistoryNext]_histVars
  PROVE  AutoCount'
  <1>1. ASSUME NEW c \in Calls, Add(c) \/ Save(c) PROVE AutoCount'
    BY <1>1, GrowsCount
  <1>2. ASSUME NEW c \in Calls, Clear(c) \/ RollBack(c) PROVE AutoCount'
    <2>1. BaseInv' /\ Empties(c)
      BY <1>2, BaseNext, GrowsOrEmpties DEF HistoryNext
    <2>2. ASSUME NEW d \in Calls, op'[d] = "add", since'[d] = epoch' PROVE FALSE
      BY <2>1, <2>2 DEF Empties, Makes, BaseInv, HistoryTypeOK
    <2> QED
      BY <2>1, <2>2, NoneAdded
  <1>3. ASSUME NEW c \in Calls, Write(c) \/ Fail(c) \/ Cancel(c) PROVE AutoCount'
    BY <1>3, LeaveBase, LeavesCount
  <1>4. CASE Resume \/ Crash
    <2>1. BaseInv' /\ Replaces
      BY <1>4, ReplaceBase
    <2>2. \A d \in Calls : since'[d] # epoch'
      BY <2>1 DEF BaseInv, HistoryTypeOK, Replaces
    <2> QED
      BY <2>1, <2>2, NoneAdded
  <1>5. CASE HistoryTerminating \/ UNCHANGED histVars
    BY <1>5, AutoStutter DEF HistoryTerminating
  <1>6. CASE CloseOrOpen \/ \E c \in Calls : Enter(c)
    BY <1>6, PassBase, AutoStutter
  <1> QED
    BY <1>1, <1>2, <1>3, <1>4, <1>5, <1>6 DEF HistoryNext

(* With auto_snapshot, and as long as no call failed and none was          *)
(* overtaken at the init lock, fewer than snapshot_every calls of          *)
(* aadd_messages are missing from the head whenever nothing is in          *)
(* progress.                                                               *)
THEOREM AutoSnapshotKeepsUp == HistorySpec => []AutoSaved
  <1>1. HistoryInit => AutoCount
    BY AutoInit
  <1>2. BaseInv /\ AutoCount /\ [HistoryNext]_histVars => AutoCount'
    BY AutoNext
  <1>3. BaseInv /\ InOrder /\ AutoCount => AutoSaved
    <2> SUFFICES ASSUME BaseInv, InOrder, AutoCount, auto, ~overtaken, queue = <<>>,
                        \A c \in {x \in Calls : op[x] # "idle" /\ since[x] = epoch} :
                          result[c] = "ok"
                 PROVE  Cardinality({c \in {x \in Calls : op[x] # "idle" /\ since[x] = epoch} :
                                       op[c] = "add" /\ <<c, 1>> \notin InHead}) < Every
      BY DEF AutoSaved
    <2> DEFINE unsaved == {c \in {x \in Calls : op[x] # "idle" /\ since[x] = epoch} :
                             op[c] = "add" /\ <<c, 1>> \notin InHead}
    <2>1. NoneRaised
      BY DEF NoneRaised, Fresh
    <2>2. IsFiniteSet(Uncovered) /\ Cardinality(Uncovered) <= addCount % Every
      BY <2>1 DEF AutoCount
    <2>3. ASSUME NEW c \in unsaved PROVE c \in Uncovered
      <3>1. c \in Calls /\ Added(c) /\ <<c, 1>> \notin InHead
        BY DEF Added, Fresh
      <3>2. ASSUME NEW d \in Calls, Covers(d) PROVE <<c, 1>> \notin Range(list[d])
        <4>1. ~Waiting(d)
          BY DEF Waiting
        <4>2. Returned(d)
          BY <3>2, <4>1 DEF Covers, Returned, Saves, Fresh
        <4>3. Range(list[d]) \subseteq InHead
          BY <4>2 DEF InOrder, OrderInv, ReturnedHolds
        <4> QED
          BY <3>1, <4>3
      <3> QED
        BY <3>1, <3>2 DEF Uncovered
    <2>4. /\ Cardinality(unsaved) <= Cardinality(Uncovered)
          /\ Cardinality(unsaved) \in Nat /\ Cardinality(Uncovered) \in Nat
      <3> HIDE DEF unsaved
      <3> QED
        BY <2>2, <2>3, FS_Subset, FS_CardinalityType
    <2>5. Every \in Nat \ {0} /\ addCount % Every \in Nat /\ addCount % Every < Every
      BY HistoryAssumption, Remainder DEF BaseInv, HistoryTypeOK
    <2> HIDE DEF unsaved
    <2> QED
      BY <2>2, <2>4, <2>5 DEF unsaved
  <1> QED
    BY <1>1, <1>2, <1>3, HistoryBase, HistoryOrder, PTL DEF HistorySpec
=============================================================================
