---------------------------- MODULE QueriesProofs ----------------------------
(***************************************************************************)
(* Theorems of Queries that hold for every set of calls, sessions, names   *)
(* and depths: what head~N, history(), the pages of list_snapshots() and   *)
(* the lookup of a name answer while other processes commit in between.    *)
(*                                                                         *)
(* An answer is about a state the session had at some moment since the     *)
(* query began.  The invariants say so with a position in the log of       *)
(* commits, which only grows, so a commit never falsifies them.            *)
(***************************************************************************)
EXTENDS Queries, ChainProofs, SequenceTheorems

-----------------------------------------------------------------------------
(* The stored snapshots of a session are its log, each with the one before *)
(* it as parent and the last one as head.                                  *)

RowOf(lg, s, i) ==
  [id |-> lg[s][i], session |-> s, parent |-> IF i = 1 THEN None ELSE lg[s][i - 1]]

HeadOf(lg, s) ==
  IF s \notin InitialSessions THEN Absent
  ELSE IF lg[s] = <<>> THEN None ELSE lg[s][Len(lg[s])]

LogOK ==
  /\ log \in [Sessions -> Seq(Calls)]
  /\ \A s \in Sessions : db.heads[s] = HeadOf(log, s)
  /\ \A s \in Sessions : s \notin InitialSessions => log[s] = <<>>
  /\ \A s \in Sessions : \A i, j \in DOMAIN log[s] : log[s][i] = log[s][j] => i = j
  /\ \A s \in Sessions : \A i \in DOMAIN log[s] : RowOf(log, s, i) \in db.snaps
  /\ \A r \in db.snaps : \E i \in DOMAIN log[r.session] : log[r.session][i] = r.id
  /\ \A r, t \in db.snaps : r.id = t.id => r = t

(* created_at tells snapshots apart.                                       *)
ColumnsOK ==
  /\ db \in DB
  /\ IsFiniteSet(db.snaps)
  /\ created \in [Calls -> Nat]
  /\ label \in [Calls -> Names \cup {None}]
  /\ begins \in [Calls -> SUBSET UuidLike]
  /\ \A r, t \in db.snaps : created[r.id] = created[t.id] => r.id = t.id

StoreInv == ColumnsOK /\ LogOK

-----------------------------------------------------------------------------
(* Which statement belongs to which query.                                 *)
QueryTyped ==
  q \in [at : {"idle", "get_session", "read_snapshot", "history_session", "exists", "chain",
               "page_session", "anchor", "page", "prefix", "label", "done"},
         kind : Kinds, session : InitialSessions \cup {None}, n : Nat,
         head : Calls \cup {None}, rows : Seq(Calls), outcome : Outcomes, seenFrom : Nat,
         name : Names \cup {None}, begun : SUBSET Calls]

InPlaceOf(kind) ==
  CASE kind = "tilde"   -> {"get_session", "read_snapshot", "history_session", "exists", "chain"}
    [] kind = "history" -> {"history_session", "exists", "chain"}
    [] kind = "pages"   -> {"page_session", "anchor", "page"}
    [] kind = "name"    -> {"prefix", "label"}

AtInv ==
  /\ QueryTyped
  /\ q.at \in {"idle", "done"} \cup InPlaceOf(q.kind)
  /\ q.at # "done" => q.outcome = "none"
  /\ q.kind # "name" /\ q.at # "idle" =>
       q.session \in InitialSessions /\ q.seenFrom <= Len(log[q.session])

-----------------------------------------------------------------------------
(* The head a walk starts from is one the session had since the query      *)
(* began; a chain read whole is the log up to that head, newest first.     *)

NewestTo(rows, lg, n) == Len(rows) = n /\ \A i \in 1..n : rows[i] = lg[n + 1 - i]

HeadSeen(p, lg) == \E k \in p.seenFrom..Len(lg) : 1 <= k /\ lg[k] = p.head

TildeKnown(p, lg) ==
  /\ p.at = "history_session" => 1 <= Len(lg)
  /\ p.outcome = "found" =>
       \E k \in p.seenFrom..Len(lg) : p.n < k /\ p.rows = <<lg[k - p.n]>>
  /\ p.outcome = "missing" => \E k \in p.seenFrom..Len(lg) : k <= p.n

HistoryKnown(p, lg) ==
  /\ p.outcome = "found" => \E k \in p.seenFrom..Len(lg) : NewestTo(p.rows, lg, k)
  /\ p.outcome = "too_deep" => Len(lg) > p.n + 1

WalkInv ==
  q.kind \in {"tilde", "history"} /\ q.at # "idle" =>
    /\ q.at \in {"read_snapshot", "exists", "chain"} => HeadSeen(q, log[q.session])
    /\ q.kind = "tilde" => TildeKnown(q, log[q.session])
    /\ q.kind = "history" => HistoryKnown(q, log[q.session])

-----------------------------------------------------------------------------
(* The pages read so far are stored, newest first, and whatever was there  *)
(* when the listing began and is not on them is older than all of them.    *)

Descending(rows, at) == \A i, j \in DOMAIN rows : i < j => at[rows[i]] > at[rows[j]]

Behind(x, rows, at) == rows # <<>> /\ at[x] < at[rows[Len(rows)]]

PagesInv ==
  q.kind = "pages" /\ q.at # "idle" =>
    /\ 1 <= q.n
    /\ Descending(q.rows, created)
    /\ \A i \in DOMAIN q.rows : q.rows[i] \in Rows
    /\ \A i \in 1..q.seenFrom :
         \/ log[q.session][i] \in Range(q.rows)
         \/ q.rows = <<>> /\ q.outcome # "found"
         \/ Behind(log[q.session][i], q.rows, created) /\ q.outcome # "found"

-----------------------------------------------------------------------------
(* What bore the name when the query began still does, and what is looked  *)
(* up by label is the prefix of none of those.                             *)
Old == InScope \cap q.begun

NameInv ==
  q.kind = "name" /\ q.at # "idle" =>
    /\ q.begun \subseteq {r.id : r \in db.snaps}
    /\ q.at = "label" => q.session # None /\ Prefixed(Old) = {}
    /\ NameCorrect

QueryInv == StoreInv /\ AtInv /\ WalkInv /\ PagesInv /\ NameInv

-----------------------------------------------------------------------------
(* A commit.                                                               *)

NewRow(id, s) == [id |-> id, session |-> s, parent |-> db.heads[s]]

Commits(id, s, t) ==
  /\ id \in Calls /\ s \in InitialSessions /\ s \in Sessions
  /\ t \in Nat
  /\ ~HasSnapshot(db, id)
  /\ db'.snaps = db.snaps \cup {NewRow(id, s)}
  /\ db'.heads = [db.heads EXCEPT ![s] = id]
  /\ log' = [log EXCEPT ![s] = Append(@, id)]
  /\ \A x \in Calls : created[x] # t
  /\ created' = [created EXCEPT ![id] = t]
  /\ \A x \in Calls \ {id} : label'[x] = label[x] /\ begins'[x] = begins[x]
  /\ q' = q

LEMMA HeadsKnown ==
  ASSUME StoreInv, NEW s \in Sessions
  PROVE  /\ HasSession(db, s) <=> s \in InitialSessions
         /\ db.heads[s] \in Calls => HasSnapshot(db, db.heads[s])
         /\ db.heads[s] \in Calls \cup {None} <=> s \in InitialSessions
         /\ log[s] \in Seq(Calls) /\ Len(log[s]) \in Nat
         /\ log[s] = <<>> <=> Len(log[s]) = 0
  <1>1. log[s] \in Seq(Calls) /\ db.heads[s] = HeadOf(log, s)
    BY DEF StoreInv, LogOK
  <1>2. /\ Len(log[s]) \in Nat /\ DOMAIN log[s] = 1..Len(log[s])
        /\ log[s] = <<>> <=> Len(log[s]) = 0
    BY <1>1, EmptySeq, LenProperties
  <1>3. CASE s \notin InitialSessions
    BY <1>1, <1>2, <1>3, DatabaseAssumption DEF HeadOf, HasSession
  <1>4. CASE s \in InitialSessions /\ log[s] = <<>>
    BY <1>1, <1>2, <1>4, DatabaseAssumption DEF HeadOf, HasSession
  <1>5. CASE s \in InitialSessions /\ log[s] # <<>>
    <2>1. Len(log[s]) \in DOMAIN log[s]
      BY <1>2, <1>5
    <2>2. db.heads[s] = log[s][Len(log[s])] /\ log[s][Len(log[s])] \in Calls
      BY <1>1, <1>5, <2>1, ElementOfSeq DEF HeadOf
    <2>3. RowOf(log, s, Len(log[s])) \in db.snaps
      BY <2>1 DEF StoreInv, LogOK
    <2>4. HasSnapshot(db, db.heads[s])
      BY <2>2, <2>3 DEF HasSnapshot, RowOf
    <2> QED
      BY <1>1, <1>2, <1>5, <2>2, <2>4, DatabaseAssumption DEF HasSession
  <1> QED
    BY <1>1, <1>2, <1>3, <1>4, <1>5

LEMMA CommitFacts ==
  ASSUME StoreInv, NEW id \in Calls, CommitSnapshot(id)
  PROVE  /\ db' \in DB
         /\ label' \in [Calls -> Names \cup {None}] /\ begins' \in [Calls -> SUBSET UuidLike]
         /\ \E s \in InitialSessions, t \in Nat : Commits(id, s, t)
  <1>1. PICK s \in Sessions, us \in SUBSET Units :
          Advance(id, s, us, [u \in Units |-> IF u \in us /\ db.units[u] = None
                                                THEN id ELSE db.units[u]])
    BY DEF CommitSnapshot, TakeSnapshot
  <1>2. PICK t \in Times \ Range(created), z \in Sessions, l \in Names \cup {None},
             b \in SUBSET UuidLike :
          /\ db'.heads[z] = id
          /\ created' = [created EXCEPT ![id] = t]
          /\ label' = [label EXCEPT ![id] = l]
          /\ begins' = [begins EXCEPT ![id] = b]
          /\ log' = [log EXCEPT ![z] = Append(@, id)]
    BY DEF CommitSnapshot
  <1>3. db \in DB /\ db.heads \in [Sessions -> Calls \cup {None, Absent}]
    BY DEF StoreInv, ColumnsOK, DB
  <1>4. /\ s \in InitialSessions /\ ~HasSnapshot(db, id)
        /\ db'.snaps = db.snaps \cup {NewRow(id, s)}
        /\ db'.heads = [db.heads EXCEPT ![s] = id]
    BY <1>1, <1>3, HeadsKnown DEF Advance, NewRow, DB
  <1>5. NewRow(id, s) \in SnapshotRow
    <2>1. db.heads[s] \in Calls \cup {None}
      BY <1>4, HeadsKnown
    <2> QED
      BY <2>1 DEF NewRow, SnapshotRow
  <1>6. db' \in DB
    BY <1>1, <1>3, <1>4, <1>5 DEF Advance, DB
  <1>7. z = s
    <2> SUFFICES ASSUME z # s PROVE FALSE
      OBVIOUS
    <2>1. db.heads[z] = id
      BY <1>2, <1>3, <1>4
    <2> QED
      BY <1>4, <2>1, HeadsKnown
  <1>8. /\ created \in [Calls -> Nat] /\ label \in [Calls -> Names \cup {None}]
        /\ begins \in [Calls -> SUBSET UuidLike]
    BY DEF StoreInv, ColumnsOK
  <1>9. t \in Nat /\ \A x \in Calls : created[x] # t
    BY <1>2, <1>8, QueriesAssumption DEF Range
  <1>10. label' \in [Calls -> Names \cup {None}] /\ begins' \in [Calls -> SUBSET UuidLike]
    BY <1>2, <1>8
  <1>11. q' = q
    BY DEF CommitSnapshot
  <1>12. Commits(id, s, t)
    BY <1>2, <1>4, <1>7, <1>8, <1>9, <1>11 DEF Commits
  <1> QED
    BY <1>4, <1>6, <1>9, <1>10, <1>12

(* A commit makes the log of its session longer by one.                    *)
LEMMA LogGrows ==
  ASSUME StoreInv, NEW id, NEW s, NEW t, Commits(id, s, t), NEW z \in Sessions
  PROVE  /\ log'[z] \in Seq(Calls)
         /\ Len(log'[z]) = IF z = s THEN Len(log[z]) + 1 ELSE Len(log[z])
         /\ Len(log[z]) \in Nat
         /\ \A i \in 1..Len(log[z]) : log'[z][i] = log[z][i]
         /\ z = s => log'[z][Len(log[z]) + 1] = id
         /\ z # s => log'[z] = log[z]
  <1>1. log \in [Sessions -> Seq(Calls)]
    BY DEF StoreInv, LogOK
  <1>2. log' = [log EXCEPT ![s] = Append(@, id)] /\ id \in Calls /\ s \in Sessions
    BY DEF Commits
  <1>3. CASE z = s
    <2>1. log'[z] = Append(log[z], id)
      BY <1>1, <1>2, <1>3
    <2> QED
      BY <1>1, <1>2, <1>3, <2>1, AppendProperties, LenProperties
  <1>4. CASE z # s
    BY <1>1, <1>2, <1>4, LenProperties
  <1> QED
    BY <1>3, <1>4

LEMMA CommitColumns ==
  ASSUME StoreInv, NEW id \in Calls, CommitSnapshot(id)
  PROVE  ColumnsOK'
  <1>1. PICK s \in InitialSessions, t \in Nat : Commits(id, s, t)
    BY CommitFacts
  <1>2. db' \in DB /\ label' \in [Calls -> Names \cup {None}] /\ begins' \in [Calls -> SUBSET UuidLike]
    BY CommitFacts
  <1>3. IsFiniteSet(db.snaps \cup {NewRow(id, s)})
    BY FS_AddElement DEF StoreInv, ColumnsOK
  <1>4. created \in [Calls -> Nat] /\ created' = [created EXCEPT ![id] = t] /\ db \in DB
        /\ \A x \in Calls : created[x] # t
    BY <1>1 DEF Commits, StoreInv, ColumnsOK
  <1>5. \A r \in db.snaps : r.id \in Calls /\ r.id # id
    BY <1>1, <1>4 DEF Commits, HasSnapshot, DB, SnapshotRow
  <1>6. ASSUME NEW r \in db'.snaps, NEW z \in db'.snaps, created'[r.id] = created'[z.id]
        PROVE  r.id = z.id
    <2>1. /\ r \in db.snaps \/ r.id = id
          /\ z \in db.snaps \/ z.id = id
      BY <1>1 DEF Commits, NewRow
    <2>2. CASE r \in db.snaps /\ z \in db.snaps
      BY <1>4, <1>5, <1>6, <2>2 DEF StoreInv, ColumnsOK
    <2> QED
      BY <1>4, <1>5, <1>6, <2>1, <2>2
  <1>7. IsFiniteSet(db'.snaps)
    BY <1>1, <1>3 DEF Commits
  <1>8. created' \in [Calls -> Nat]
    BY <1>4
  <1> QED
    BY <1>2, <1>6, <1>7, <1>8 DEF ColumnsOK

LEMMA CommitLog ==
  ASSUME StoreInv, NEW id \in Calls, CommitSnapshot(id)
  PROVE  LogOK'
  <1>1. PICK s \in InitialSessions, t \in Nat : Commits(id, s, t)
    BY CommitFacts
  <1>2. log \in [Sessions -> Seq(Calls)] /\ log' = [log EXCEPT ![s] = Append(@, id)]
        /\ s \in Sessions
    BY <1>1 DEF Commits, StoreInv, LogOK
  <1>3. \A z \in Sessions :
          /\ log'[z] \in Seq(Calls)
          /\ Len(log'[z]) = IF z = s THEN Len(log[z]) + 1 ELSE Len(log[z])
          /\ Len(log[z]) \in Nat
          /\ \A i \in 1..Len(log[z]) : log'[z][i] = log[z][i]
          /\ z = s => log'[z][Len(log[z]) + 1] = id
          /\ z # s => log'[z] = log[z]
    BY <1>1, LogGrows
  <1>4. \A z \in Sessions : DOMAIN log[z] = 1..Len(log[z]) /\ DOMAIN log'[z] = 1..Len(log'[z])
    BY <1>2, <1>3, LenProperties
  <1>5. /\ db'.heads = [db.heads EXCEPT ![s] = id]
        /\ db'.snaps = db.snaps \cup {NewRow(id, s)}
        /\ db.heads \in [Sessions -> Calls \cup {None, Absent}]
    BY <1>1 DEF Commits, StoreInv, ColumnsOK, DB
  <1>6. \A z \in Sessions : \A i \in DOMAIN log[z] :
          RowOf(log, z, i) \in db.snaps /\ log[z][i] # id
    <2> SUFFICES ASSUME NEW z \in Sessions, NEW i \in DOMAIN log[z]
                 PROVE  RowOf(log, z, i) \in db.snaps /\ log[z][i] # id
      OBVIOUS
    <2>1. RowOf(log, z, i) \in db.snaps
      BY DEF StoreInv, LogOK
    <2>2. log[z][i] # id
      BY <1>1, <2>1 DEF Commits, HasSnapshot, RowOf
    <2> QED
      BY <2>1, <2>2
  <1>7. log' \in [Sessions -> Seq(Calls)]
    <2>1. DOMAIN log' = Sessions /\ log' = [z \in Sessions |-> log'[z]]
      BY <1>2
    <2> QED
      BY <1>3, <2>1
  <1>8. ASSUME NEW z \in Sessions PROVE db'.heads[z] = HeadOf(log', z)
    <2>1. db.heads[z] = HeadOf(log, z)
      BY DEF StoreInv, LogOK
    <2>2. CASE z # s
      BY <1>3, <1>5, <2>1, <2>2 DEF HeadOf
    <2>3. CASE z = s
      <3>1. Len(log'[s]) = Len(log[s]) + 1 /\ log'[s][Len(log[s]) + 1] = id
        BY <1>2, <1>3
      <3>2. log'[s] # <<>>
        <4>1. Len(log[s]) \in Nat /\ Len(<<>>) = 0
          BY <1>2, <1>3, EmptySeq
        <4> QED
          BY <3>1, <4>1
      <3>3. db'.heads[s] = id
        BY <1>2, <1>5
      <3> QED
        BY <2>3, <3>1, <3>2, <3>3 DEF HeadOf
    <2> QED
      BY <2>2, <2>3
  <1>9. ASSUME NEW z \in Sessions, NEW i \in DOMAIN log'[z], NEW j \in DOMAIN log'[z],
               log'[z][i] = log'[z][j]
        PROVE  i = j
    <2>1. CASE i \in DOMAIN log[z] /\ j \in DOMAIN log[z]
      BY <1>3, <1>4, <1>9, <2>1 DEF StoreInv, LogOK
    <2>2. \A m \in DOMAIN log'[z] :
            m \notin DOMAIN log[z] => m = Len(log[z]) + 1 /\ log'[z][m] = id
      BY <1>3, <1>4
    <2>3. \A m \in DOMAIN log[z] : log'[z][m] # id
      BY <1>3, <1>4, <1>6
    <2> QED
      BY <1>9, <2>1, <2>2, <2>3
  <1>10. ASSUME NEW z \in Sessions, NEW i \in DOMAIN log'[z]
         PROVE  RowOf(log', z, i) \in db'.snaps
    <2>1. CASE i \in DOMAIN log[z]
      <3>1. i = 1 \/ i - 1 \in 1..Len(log[z])
        BY <1>3, <1>4, <2>1
      <3>2. RowOf(log', z, i) = RowOf(log, z, i)
        BY <1>3, <1>4, <2>1, <3>1 DEF RowOf
      <3> QED
        BY <1>5, <1>6, <2>1, <3>2
    <2>2. CASE i \notin DOMAIN log[z]
      <3>1. z = s /\ i = Len(log[s]) + 1
        BY <1>3, <1>4, <2>2
      <3>2. db.heads[s] = IF log[s] = <<>> THEN None ELSE log[s][Len(log[s])]
        BY <1>1, <1>2 DEF StoreInv, LogOK, HeadOf
      <3>3. log[s] = <<>> <=> Len(log[s]) = 0
        BY <1>2, HeadsKnown
      <3>4. i = 1 <=> log[s] = <<>>
        BY <1>2, <1>3, <3>1, <3>3
      <3>5. i # 1 => i - 1 \in 1..Len(log[s]) /\ i - 1 = Len(log[s])
        BY <1>2, <1>3, <3>1, <3>3, <3>4
      <3>6. RowOf(log', z, i) = NewRow(id, s)
        BY <1>2, <1>3, <3>1, <3>2, <3>4, <3>5 DEF RowOf, NewRow
      <3> QED
        BY <1>5, <3>6
    <2> QED
      BY <2>1, <2>2
  <1>11. ASSUME NEW r \in db'.snaps
         PROVE  \E i \in DOMAIN log'[r.session] : log'[r.session][i] = r.id
    <2>1. CASE r \in db.snaps
      <3>1. r.session \in Sessions
        BY <2>1 DEF StoreInv, ColumnsOK, DB, SnapshotRow
      <3>2. PICK i \in DOMAIN log[r.session] : log[r.session][i] = r.id
        BY <2>1 DEF StoreInv, LogOK
      <3> QED
        BY <1>3, <1>4, <3>1, <3>2
    <2>2. CASE r = NewRow(id, s)
      <3>1. r.session = s /\ r.id = id
        BY <2>2 DEF NewRow
      <3>2. Len(log[s]) + 1 \in DOMAIN log'[s]
        BY <1>2, <1>3, <1>4
      <3> QED
        BY <1>2, <1>3, <3>1, <3>2
    <2> QED
      BY <1>5, <2>1, <2>2
  <1>12. ASSUME NEW r \in db'.snaps, NEW z \in db'.snaps, r.id = z.id PROVE r = z
    <2>1. \A x \in db.snaps : x.id # id
      BY <1>1 DEF Commits, HasSnapshot
    <2>2. NewRow(id, s).id = id
      BY DEF NewRow
    <2>3. \A x, y \in db.snaps : x.id = y.id => x = y
      BY DEF StoreInv, LogOK
    <2> QED
      BY <1>5, <1>12, <2>1, <2>2, <2>3
  <1>13. ASSUME NEW z \in Sessions, z \notin InitialSessions PROVE log'[z] = <<>>
    BY <1>1, <1>3, <1>13 DEF StoreInv, LogOK
  <1> QED
    BY <1>7, <1>8, <1>9, <1>10, <1>11, <1>12, <1>13 DEF LogOK

LEMMA StoreInit == QueryInit => StoreInv
  <1> SUFFICES ASSUME QueryInit PROVE StoreInv
    OBVIOUS
  <1>1. <<>> \in Seq(Calls) /\ DOMAIN <<>> = {}
    BY EmptySeq, LenProperties
  <1>2. db = EmptyDB
    BY DEF QueryInit, Init
  <1>3. db \in DB /\ db.snaps = {} /\ db.heads = [s \in Sessions |->
                         IF s \in InitialSessions THEN None ELSE Absent]
    BY <1>2 DEF EmptyDB, DB, Sessions
  <1>4. ColumnsOK
    BY <1>3, FS_EmptySet DEF ColumnsOK, QueryInit
  <1>5. LogOK
    BY <1>1, <1>3 DEF LogOK, HeadOf, QueryInit
  <1> QED
    BY <1>4, <1>5 DEF StoreInv

Asks      == AskTilde \/ AskHistory \/ AskPages \/ AskName
Walks     == GetSession \/ ReadSnapshot \/ HistorySession \/ ConfirmStart \/ WalkParents
PageSteps == PageSession \/ Anchor \/ Page
NameSteps == FindByIdPrefix \/ FindByLabel

LEMMA Reading ==
  ASSUME Asks \/ Walks \/ PageSteps \/ NameSteps \/ Answer
  PROVE  UNCHANGED storedVars
  BY DEF Asks, Walks, PageSteps, NameSteps, Answer, AskTilde, AskHistory, AskPages, AskName, Ask,
         GetSession, ReadSnapshot, HistorySession, ConfirmStart, WalkParents,
         PageSession, Anchor, Page, FindByIdPrefix, FindByLabel, Select

LEMMA StoreNext ==
  ASSUME StoreInv, [QueryNext]_queryVars
  PROVE  StoreInv'
  <1>1. ASSUME NEW id \in Calls, CommitSnapshot(id) PROVE StoreInv'
    BY <1>1, CommitColumns, CommitLog DEF StoreInv
  <1>2. CASE UNCHANGED storedVars
    <2>1. db' = db /\ created' = created /\ label' = label /\ begins' = begins /\ log' = log
      BY <1>2 DEF storedVars, vars
    <2>2. ColumnsOK'
      BY <2>1 DEF StoreInv, ColumnsOK
    <2>3. LogOK'
      BY <2>1 DEF StoreInv, LogOK, HeadOf, RowOf
    <2> QED
      BY <2>2, <2>3 DEF StoreInv
  <1>3. (\E id \in Calls : CommitSnapshot(id)) \/ UNCHANGED storedVars
    BY Reading DEF QueryNext, queryVars, Asks, Walks, PageSteps, NameSteps
  <1> QED
    BY <1>1, <1>2, <1>3

-----------------------------------------------------------------------------
(* Which statement a query is at.                                          *)

LEMMA RowsTyped ==
  ASSUME StoreInv, AtInv
  PROVE  /\ q.rows \in Seq(Calls) /\ Len(q.rows) \in Nat /\ DOMAIN q.rows = 1..Len(q.rows)
         /\ q.rows = <<>> <=> Len(q.rows) = 0
  BY EmptySeq, LenProperties DEF AtInv, QueryTyped

LEMMA StoredIds ==
  ASSUME StoreInv
  PROVE  /\ Rows \subseteq Calls /\ IsFiniteSet(Rows)
         /\ InScope \subseteq Calls /\ IsFiniteSet(InScope)
         /\ {r.id : r \in db.snaps} \subseteq Calls
  <1>1. db.snaps \subseteq SnapshotRow /\ IsFiniteSet(db.snaps)
    BY DEF StoreInv, ColumnsOK, DB
  <1>2. {r.id : r \in db.snaps} \subseteq Calls
    BY <1>1 DEF SnapshotRow
  <1>3. IsFiniteSet({r.id : r \in db.snaps})
    <2> DEFINE ids == {r.id : r \in db.snaps}
               f == [r \in db.snaps |-> r.id]
    <2>1. f \in Surjection(db.snaps, ids)
      BY DEF Surjection
    <2> HIDE DEF f, ids
    <2>2. IsFiniteSet(ids)
      BY <1>1, <2>1, FS_Surjection
    <2> QED
      BY <2>2 DEF ids
  <1>4. Rows \subseteq {r.id : r \in db.snaps} /\ InScope \subseteq {r.id : r \in db.snaps}
    BY DEF Rows, InScope
  <1> QED
    BY <1>2, <1>3, <1>4, FS_Subset

LEMMA AtCommit ==
  ASSUME StoreInv, AtInv, NEW id, NEW s, NEW t, Commits(id, s, t)
  PROVE  AtInv'
  <1>1. q' = q
    BY DEF Commits
  <1>2. q.session \in InitialSessions => q.session \in Sessions
    BY DEF Sessions
  <1>3. q.session \in InitialSessions =>
          Len(log[q.session]) \in Nat /\ Len(log'[q.session]) \in Nat
          /\ Len(log[q.session]) <= Len(log'[q.session])
    BY <1>2, LogGrows, LenProperties
  <1>4. QueryTyped'
    BY <1>1 DEF AtInv, QueryTyped
  <1>5. q.seenFrom \in Nat
    BY DEF AtInv, QueryTyped
  <1> QED
    BY <1>1, <1>3, <1>4, <1>5 DEF AtInv

LEMMA AtAsk ==
  ASSUME StoreInv, AtInv, NEW kind \in Kinds, NEW n \in Nat, NEW at \in InPlaceOf(kind),
         kind # "name", Ask(kind, n, at)
  PROVE  AtInv' /\ UNCHANGED storedVars
  <1>1. PICK s \in InitialSessions :
           /\ q' = [NoQuery EXCEPT !.at = at, !.kind = kind, !.n = n, !.session = s,
                      !.seenFrom = Len(log[s])]
           /\ UNCHANGED storedVars
    BY DEF Ask, Select
  <1>2. s \in Sessions /\ Len(log[s]) \in Nat /\ log' = log
    BY <1>1, HeadsKnown DEF Sessions, storedVars
  <1>3. <<>> \in Seq(Calls)
    BY EmptySeq
  <1>4. /\ q'.at = at /\ q'.kind = kind /\ q'.n = n /\ q'.session = s /\ q'.seenFrom = Len(log[s])
        /\ q'.outcome = "none"
    BY <1>1 DEF NoQuery
  <1>5. QueryTyped'
    BY <1>1, <1>2, <1>3 DEF QueryTyped, NoQuery, Outcomes, InPlaceOf, Kinds
  <1>6. at # "done"
    BY DEF InPlaceOf, Kinds
  <1> QED
    BY <1>1, <1>2, <1>4, <1>5, <1>6 DEF AtInv

LEMMA AtAskName ==
  ASSUME StoreInv, AtInv, AskName
  PROVE  /\ AtInv' /\ UNCHANGED storedVars /\ q'.kind = "name"
         /\ q'.begun = {r.id : r \in db.snaps}
         /\ q'.at = "label" => q'.session # None /\ q'.name \notin UuidLike
         /\ q'.outcome \in {"none", "missing"}
         /\ q'.outcome = "missing" => q'.session = None /\ q'.name \notin UuidLike
  <1>1. PICK name \in Names, s \in InitialSessions \cup {None} :
          LET new == [NoQuery EXCEPT !.kind = "name", !.name = name, !.session = s,
                                     !.begun = {r.id : r \in db.snaps}]
          IN  Select("idle",
                     IF name \in UuidLike THEN [new EXCEPT !.at = "prefix"]
                     ELSE IF s # None THEN [new EXCEPT !.at = "label"]
                     ELSE [new EXCEPT !.at = "done", !.outcome = "missing"])
    BY DEF AskName
  <1> DEFINE ids == {r.id : r \in db.snaps}
  <1>2. ids \subseteq Calls
    BY StoredIds
  <1> HIDE DEF ids
  <1>3. <<>> \in Seq(Calls)
    BY EmptySeq
  <1>4. PICK at \in {"prefix", "label", "done"}, outcome \in {"none", "missing"} :
          /\ q' = [at |-> at, kind |-> "name", session |-> s, n |-> 0, head |-> None,
                   rows |-> <<>>, outcome |-> outcome, seenFrom |-> 0, name |-> name,
                   begun |-> ids]
          /\ outcome = "missing" <=> at = "done"
          /\ at # "prefix" => name \notin UuidLike
          /\ at = "label" => s # None
          /\ at = "done" => s = None
    <2>1. CASE name \in UuidLike
      BY <1>1, <2>1 DEF Select, NoQuery, ids
    <2>2. CASE name \notin UuidLike /\ s # None
      BY <1>1, <2>2 DEF Select, NoQuery, ids
    <2>3. CASE name \notin UuidLike /\ s = None
      BY <1>1, <2>3 DEF Select, NoQuery, ids
    <2> QED
      BY <2>1, <2>2, <2>3
  <1>5. UNCHANGED storedVars
    BY <1>1 DEF Select
  <1>6. QueryTyped'
    BY <1>2, <1>3, <1>4 DEF QueryTyped, Outcomes, Kinds
  <1>7. AtInv'
    BY <1>4, <1>6 DEF AtInv, InPlaceOf
  <1> QED
    BY <1>4, <1>5, <1>7 DEF ids

(* The steps of a query, each with what it leaves in q.                    *)
Keeps == /\ UNCHANGED storedVars
         /\ q'.kind = q.kind /\ q'.session = q.session /\ q'.n = q.n
         /\ q'.seenFrom = q.seenFrom /\ q'.name = q.name /\ q'.begun = q.begun

LEMMA AtMoves ==
  ASSUME AtInv, NEW at, at \in InPlaceOf(q.kind), UNCHANGED storedVars,
         NEW head \in Calls \cup {None}, NEW rows \in Seq(Calls),
         q.at # "idle", q.outcome = "none", q' = [q EXCEPT !.at = at, !.head = head, !.rows = rows]
  PROVE  AtInv' /\ Keeps /\ q'.at = at /\ q'.outcome = "none" /\ q'.rows = rows
  <1>1. QueryTyped
    BY DEF AtInv
  <1>2. q' = [at |-> at, kind |-> q.kind, session |-> q.session, n |-> q.n, head |-> head,
              rows |-> rows, outcome |-> q.outcome, seenFrom |-> q.seenFrom, name |-> q.name,
              begun |-> q.begun]
    BY <1>1 DEF QueryTyped
  <1>3. at \in {"get_session", "read_snapshot", "history_session", "exists", "chain",
                "page_session", "anchor", "page", "prefix", "label"}
    BY <1>1 DEF InPlaceOf, QueryTyped, Kinds
  <1>4. QueryTyped'
    BY <1>1, <1>2, <1>3 DEF QueryTyped
  <1>5. Keeps
    BY <1>2 DEF Keeps
  <1> QED
    BY <1>2, <1>3, <1>4, <1>5 DEF AtInv, storedVars

LEMMA AtEnds ==
  ASSUME AtInv, q.at # "idle", UNCHANGED storedVars, NEW rows \in Seq(Calls),
         NEW outcome \in Outcomes,
         q' = [q EXCEPT !.at = "done", !.outcome = outcome, !.rows = rows]
  PROVE  AtInv' /\ Keeps /\ q'.at = "done" /\ q'.outcome = outcome /\ q'.rows = rows
  <1>1. QueryTyped
    BY DEF AtInv
  <1>2. q' = [at |-> "done", kind |-> q.kind, session |-> q.session, n |-> q.n, head |-> q.head,
              rows |-> rows, outcome |-> outcome, seenFrom |-> q.seenFrom, name |-> q.name,
              begun |-> q.begun]
    BY <1>1 DEF QueryTyped
  <1>3. QueryTyped'
    BY <1>1, <1>2 DEF QueryTyped
  <1>4. Keeps
    BY <1>2 DEF Keeps
  <1> QED
    BY <1>2, <1>3, <1>4 DEF AtInv, storedVars

LEMMA ToFacts ==
  ASSUME AtInv, NEW from, from \notin {"idle", "done"}, NEW at, at \in InPlaceOf(q.kind),
         Select(from, To(at))
  PROVE  /\ AtInv' /\ Keeps /\ q'.at = at /\ q'.outcome = "none" /\ q'.rows = q.rows
         /\ q'.head = q.head
  <1>1. q' = [q EXCEPT !.at = at, !.head = q.head, !.rows = q.rows]
    BY DEF Select, To, AtInv, QueryTyped
  <1>2. q.at # "idle" /\ q.outcome = "none" /\ UNCHANGED storedVars
        /\ q.head \in Calls \cup {None} /\ q.rows \in Seq(Calls)
    BY DEF Select, AtInv, QueryTyped
  <1> QED
    BY <1>1, <1>2, AtMoves DEF AtInv, QueryTyped

LEMMA EndFacts ==
  ASSUME AtInv, NEW from, from # "idle", NEW outcome \in Outcomes, Select(from, End(outcome))
  PROVE  /\ AtInv' /\ Keeps /\ q'.at = "done" /\ q'.outcome = outcome /\ q'.rows = q.rows
  <1>1. q' = [q EXCEPT !.at = "done", !.outcome = outcome, !.rows = q.rows]
    BY DEF Select, End, AtInv, QueryTyped
  <1>2. q.at # "idle" /\ UNCHANGED storedVars /\ q.rows \in Seq(Calls)
    BY DEF Select, AtInv, QueryTyped
  <1> QED
    BY <1>1, <1>2, AtEnds

LEMMA FoundFacts ==
  ASSUME AtInv, NEW from, from # "idle", NEW rows \in Seq(Calls), Select(from, Found(rows))
  PROVE  /\ AtInv' /\ Keeps /\ q'.at = "done" /\ q'.outcome = "found" /\ q'.rows = rows
  <1>1. q' = [q EXCEPT !.at = "done", !.outcome = "found", !.rows = rows]
    BY DEF Select, Found, End, AtInv, QueryTyped
  <1>2. q.at # "idle" /\ UNCHANGED storedVars /\ "found" \in Outcomes
    BY DEF Select, Outcomes
  <1> QED
    BY <1>1, <1>2, AtEnds

(* The query a statement belongs to.                                       *)
LEMMA KindOf ==
  ASSUME AtInv
  PROVE  /\ q.at \in {"get_session", "read_snapshot"} => q.kind = "tilde"
         /\ q.at \in {"history_session", "exists", "chain"} => q.kind \in {"tilde", "history"}
         /\ q.at \in {"page_session", "anchor", "page"} => q.kind = "pages"
         /\ q.at \in {"prefix", "label"} => q.kind = "name"
         /\ q.kind \in Kinds
  BY DEF AtInv, QueryTyped, InPlaceOf, Kinds

-----------------------------------------------------------------------------
(* Walking the parents.                                                    *)

LEMMA ParentIs ==
  ASSUME StoreInv, NEW s \in Sessions, NEW i \in DOMAIN log[s]
  PROVE  Parent(log[s][i]) = IF i = 1 THEN None ELSE log[s][i - 1]
  <1>1. RowOf(log, s, i) \in db.snaps /\ \A r, t \in db.snaps : r.id = t.id => r = t
    BY DEF StoreInv, LogOK
  <1>2. RowOf(log, s, i).id = log[s][i]
        /\ RowOf(log, s, i).parent = IF i = 1 THEN None ELSE log[s][i - 1]
    BY DEF RowOf
  <1>3. (CHOOSE r \in db.snaps : r.id = log[s][i]) = RowOf(log, s, i)
    BY <1>1, <1>2
  <1> QED
    BY <1>2, <1>3 DEF Parent

(* The rows the walk from the k-th snapshot has after d levels.            *)
Back(lg, k, d) == [i \in 1..(IF d < k THEN d + 1 ELSE k) |-> lg[k + 1 - i]]

NextRows(rows) ==
  LET p == Parent(rows[Len(rows)]) IN IF p = None THEN rows ELSE Append(rows, p)

LEMMA BackFacts ==
  ASSUME NEW lg \in Seq(Calls), NEW k \in 1..Len(lg), NEW d \in Nat
  PROVE  /\ Back(lg, k, d) \in Seq(Calls)
         /\ Len(Back(lg, k, d)) = IF d < k THEN d + 1 ELSE k
         /\ \A i \in 1..(IF d < k THEN d + 1 ELSE k) : Back(lg, k, d)[i] = lg[k + 1 - i]
  <1> DEFINE n == IF d < k THEN d + 1 ELSE k
  <1>1. n \in Nat /\ n <= k /\ k \in Nat /\ Len(lg) \in Nat
    BY LenProperties
  <1>2. \A i \in 1..n : lg[k + 1 - i] \in Calls
    <2> SUFFICES ASSUME NEW i \in 1..n PROVE lg[k + 1 - i] \in Calls
      OBVIOUS
    <2>1. k + 1 - i \in 1..Len(lg)
      BY <1>1
    <2> QED
      BY <2>1, ElementOfSeq
  <1> HIDE DEF n
  <1>3. Back(lg, k, d) = [i \in 1..n |-> lg[k + 1 - i]]
    BY DEF Back, n
  <1>4. Back(lg, k, d) \in [1..n -> Calls]
    BY <1>2, <1>3
  <1>5. Back(lg, k, d) \in Seq(Calls)
    BY <1>1, <1>4, SeqDef
  <1>6. Len(Back(lg, k, d)) = n
    BY <1>1, <1>4, <1>5, LenProperties
  <1>7. \A i \in 1..n : Back(lg, k, d)[i] = lg[k + 1 - i]
    BY <1>3
  <1> QED
    BY <1>5, <1>6, <1>7 DEF n

LEMMA BackNext ==
  ASSUME StoreInv, NEW s \in Sessions, NEW k \in 1..Len(log[s]), NEW d \in Nat, d # 0
  PROVE  Back(log[s], k, d) = NextRows(Back(log[s], k, d - 1))
  <1> DEFINE lg  == log[s]
             old == Back(lg, k, d - 1)
             new == Back(lg, k, d)
             m   == IF d - 1 < k THEN d ELSE k
  <1>1. lg \in Seq(Calls) /\ Len(lg) \in Nat /\ DOMAIN lg = 1..Len(lg) /\ d - 1 \in Nat
    BY HeadsKnown, LenProperties
  <1>2. /\ old \in Seq(Calls) /\ Len(old) = m /\ \A i \in 1..m : old[i] = lg[k + 1 - i]
    BY <1>1, BackFacts
  <1>3. /\ new \in Seq(Calls) /\ Len(new) = IF d < k THEN d + 1 ELSE k
        /\ \A i \in 1..(IF d < k THEN d + 1 ELSE k) : new[i] = lg[k + 1 - i]
    BY <1>1, BackFacts
  <1>4. /\ d < k => m = d
        /\ ~(d < k) => m = k
        /\ k \in Nat /\ 1 <= k /\ k <= Len(lg)
    BY <1>1
  <1> DEFINE j == k + 1 - m   \* where the walk has come to in the log
  <1> HIDE DEF new, old, lg, m
  <1>5. m \in 1..k /\ m \in Nat /\ j \in 1..Len(lg) /\ (j = 1 <=> ~(d < k)) /\ (m = d => j = k + 1 - d)
    BY <1>1, <1>4
  <1>6. old[Len(old)] = lg[j]
    BY <1>2, <1>5
  <1> HIDE DEF j
  <1>7. Parent(old[Len(old)]) = IF j = 1 THEN None ELSE lg[j - 1]
    <2>1. j \in DOMAIN log[s]
      BY <1>1, <1>5 DEF lg
    <2>2. Parent(log[s][j]) = IF j = 1 THEN None ELSE log[s][j - 1]
      BY <2>1, ParentIs
    <2>3. Parent(lg[j]) = IF j = 1 THEN None ELSE lg[j - 1]
      BY <2>2 DEF lg
    <2> QED
      BY <1>6, <2>3
  <1>8. CASE d < k
    <2>1. m = d /\ lg[k - d] \in Calls /\ j - 1 = k - d
      <3>1. m = d /\ k - d \in 1..Len(lg) /\ j - 1 = k - d
        BY <1>1, <1>4, <1>8, <1>5
      <3> QED
        BY <1>1, <3>1, ElementOfSeq
    <2>2. Parent(old[Len(old)]) = lg[k - d] /\ lg[k - d] # None
      BY <1>7, <1>8, <1>5, <2>1, DatabaseAssumption
    <2>3. NextRows(old) = Append(old, lg[k - d])
      BY <2>2 DEF NextRows
    <2>4. /\ Append(old, lg[k - d]) \in Seq(Calls) /\ Len(Append(old, lg[k - d])) = d + 1
          /\ \A i \in 1..d : Append(old, lg[k - d])[i] = old[i]
          /\ Append(old, lg[k - d])[d + 1] = lg[k - d]
      BY <1>2, <2>1, AppendProperties
    <2>5. \A i \in 1..(d + 1) : new[i] = Append(old, lg[k - d])[i]
      <3> SUFFICES ASSUME NEW i \in 1..(d + 1) PROVE new[i] = Append(old, lg[k - d])[i]
        OBVIOUS
      <3>1. new[i] = lg[k + 1 - i]
        BY <1>3, <1>8
      <3>2. CASE i = d + 1
        BY <2>4, <3>1, <3>2
      <3>3. CASE i # d + 1
        BY <1>2, <2>1, <2>4, <3>1, <3>3
      <3> QED
        BY <3>2, <3>3
    <2>6. new = Append(old, lg[k - d])
      BY <1>3, <1>8, <2>4, <2>5, SeqEqual
    <2> QED
      BY <2>3, <2>6 DEF new, old, lg
  <1>9. CASE ~(d < k)
    <2>1. m = k
      BY <1>4, <1>9
    <2>2. NextRows(old) = old
      BY <1>7, <1>9, <1>5 DEF NextRows
    <2>3. new = old
      BY <1>2, <1>3, <1>9, <2>1, SeqEqual
    <2> QED
      BY <2>2, <2>3 DEF new, old, lg
  <1> QED
    BY <1>8, <1>9

(* What the recursive query returns, by the least level at which it would  *)
(* not.                                                                    *)
LEMMA ChainIsBack ==
  ASSUME StoreInv, NEW s \in Sessions, NEW k \in 1..Len(log[s]), NEW depth \in Nat
  PROVE  Chain(log[s][k], depth) = Back(log[s], k, depth)
  <1> DEFINE lg == log[s]
             Walk(f) == [j \in 0..depth |-> IF j = 0 THEN <<lg[k]>> ELSE NextRows(f[j - 1])]
             g == [j \in 0..depth |-> Back(lg, k, j)]
             f == CHOOSE f : f = Walk(f)
  <1>1. Chain(lg[k], depth) = f[depth]
    BY DEF Chain, NextRows
  <1>2. Back(lg, k, 0) = <<lg[k]>>
    <2>1. lg \in Seq(Calls) /\ Len(lg) \in Nat /\ k \in Nat /\ 0 < k
      BY HeadsKnown
    <2>2. /\ Back(lg, k, 0) \in Seq(Calls) /\ Len(Back(lg, k, 0)) = 1
          /\ Back(lg, k, 0)[1] = lg[k]
      <3>1. /\ Back(lg, k, 0) \in Seq(Calls)
            /\ Len(Back(lg, k, 0)) = IF 0 < k THEN 0 + 1 ELSE k
            /\ \A i \in 1..(IF 0 < k THEN 0 + 1 ELSE k) : Back(lg, k, 0)[i] = lg[k + 1 - i]
        BY <2>1, BackFacts
      <3> QED
        BY <2>1, <3>1
    <2> QED
      BY <2>2
  <1>3. \A d \in 1..depth : Back(lg, k, d) = NextRows(Back(lg, k, d - 1))
    BY BackNext
  <1> HIDE DEF lg
  <1>4. g = Walk(g)
    <2>1. ASSUME NEW j \in 0..depth
          PROVE  g[j] = IF j = 0 THEN <<lg[k]>> ELSE NextRows(g[j - 1])
      <3>1. CASE j = 0
        BY <1>2, <3>1
      <3>2. CASE j # 0
        <4>1. j - 1 \in 0..depth /\ j \in 1..depth
          BY <3>2
        <4> QED
          BY <1>3, <3>2, <4>1
      <3> QED
        BY <3>1, <3>2
    <2>2. g = [j \in 0..depth |-> g[j]]
      OBVIOUS
    <2> HIDE DEF g
    <2> QED
      BY <2>1, <2>2
  <1>5. f = Walk(f)
    <2> HIDE DEF g, Walk
    <2> QED
      BY <1>4
  <1> HIDE DEF f, g
  <1>6. \A j \in 0..depth : f[j] = IF j = 0 THEN <<lg[k]>> ELSE NextRows(f[j - 1])
    BY <1>5
  <1> DEFINE T == {j \in 0..depth : f[j] # Back(lg, k, j)}
  <1>7. T = {}
    <2> SUFFICES ASSUME T # {} PROVE FALSE
      OBVIOUS
    <2>1. T \subseteq 0..depth
      OBVIOUS
    <2>2. PICK m \in T : \A j \in T : m <= j
      <3> HIDE DEF T
      <3> QED
        BY <2>1, LeastStep
    <2>3. m \in 0..depth /\ f[m] # Back(lg, k, m)
      OBVIOUS
    <2>4. m # 0
      BY <1>2, <1>6, <2>3
    <2>5. m - 1 \in 0..depth /\ m \in 1..depth /\ ~(m <= m - 1)
      BY <2>3, <2>4
    <2>6. f[m - 1] = Back(lg, k, m - 1)
      BY <2>2, <2>5
    <2> QED
      BY <1>3, <1>6, <2>3, <2>4, <2>5, <2>6
  <1>8. depth \in 0..depth
    OBVIOUS
  <1> QED
    BY <1>1, <1>7, <1>8 DEF lg

(* What is known of a walk stays true when the log grows.                  *)
LEMMA KnownGrows ==
  ASSUME NEW p, p.seenFrom \in Nat, p.n \in Nat, NEW lg, NEW lg2,
         Len(lg) \in Nat, Len(lg2) \in Nat, Len(lg) <= Len(lg2),
         \A i \in 1..Len(lg) : lg2[i] = lg[i]
  PROVE  /\ HeadSeen(p, lg) => HeadSeen(p, lg2)
         /\ TildeKnown(p, lg) => TildeKnown(p, lg2)
         /\ HistoryKnown(p, lg) => HistoryKnown(p, lg2)
  <1>1. \A k \in p.seenFrom..Len(lg) : k \in p.seenFrom..Len(lg2) /\ k \in Nat /\ k <= Len(lg)
    OBVIOUS
  <1>2. ASSUME HeadSeen(p, lg) PROVE HeadSeen(p, lg2)
    <2>1. PICK k \in p.seenFrom..Len(lg) : 1 <= k /\ lg[k] = p.head
      BY <1>2 DEF HeadSeen
    <2>2. lg2[k] = lg[k]
      BY <2>1
    <2> QED
      BY <1>1, <2>1, <2>2 DEF HeadSeen
  <1>3. ASSUME TildeKnown(p, lg), p.outcome = "found"
        PROVE  \E k \in p.seenFrom..Len(lg2) : p.n < k /\ p.rows = <<lg2[k - p.n]>>
    <2>1. PICK k \in p.seenFrom..Len(lg) : p.n < k /\ p.rows = <<lg[k - p.n]>>
      BY <1>3 DEF TildeKnown
    <2>2. k - p.n \in 1..Len(lg)
      BY <2>1
    <2> QED
      BY <1>1, <2>1, <2>2
  <1>4. ASSUME TildeKnown(p, lg), p.outcome = "missing"
        PROVE  \E k \in p.seenFrom..Len(lg2) : k <= p.n
    BY <1>1, <1>4 DEF TildeKnown
  <1>5. TildeKnown(p, lg) /\ p.at = "history_session" => 1 <= Len(lg2)
    BY DEF TildeKnown
  <1>6. ASSUME HistoryKnown(p, lg), p.outcome = "found"
        PROVE  \E k \in p.seenFrom..Len(lg2) : NewestTo(p.rows, lg2, k)
    <2>1. PICK k \in p.seenFrom..Len(lg) : NewestTo(p.rows, lg, k)
      BY <1>6 DEF HistoryKnown
    <2>2. \A i \in 1..k : lg2[k + 1 - i] = lg[k + 1 - i]
      <3> SUFFICES ASSUME NEW i \in 1..k PROVE lg2[k + 1 - i] = lg[k + 1 - i]
        OBVIOUS
      <3>1. k + 1 - i \in 1..Len(lg)
        BY <1>1
      <3> QED
        BY <3>1
    <2>3. NewestTo(p.rows, lg2, k)
      BY <2>1, <2>2 DEF NewestTo
    <2> QED
      BY <1>1, <2>3
  <1>7. HistoryKnown(p, lg) /\ p.outcome = "too_deep" => Len(lg2) > p.n + 1
    BY DEF HistoryKnown
  <1> QED
    BY <1>2, <1>3, <1>4, <1>5, <1>6, <1>7 DEF TildeKnown, HistoryKnown

LEMMA SessionOf ==
  ASSUME StoreInv, AtInv, q.kind # "name", q.at # "idle"
  PROVE  /\ q.session \in InitialSessions /\ q.session \in Sessions
         /\ log[q.session] \in Seq(Calls) /\ Len(log[q.session]) \in Nat
         /\ DOMAIN log[q.session] = 1..Len(log[q.session])
         /\ log[q.session] = <<>> <=> Len(log[q.session]) = 0
         /\ db.heads[q.session] = IF log[q.session] = <<>> THEN None
                                  ELSE log[q.session][Len(log[q.session])]
         /\ q.seenFrom \in Nat /\ q.seenFrom <= Len(log[q.session]) /\ q.n \in Nat
  <1>1. q.session \in InitialSessions /\ q.session \in Sessions
    BY DEF AtInv, Sessions
  <1> QED
    BY <1>1, HeadsKnown, LenProperties DEF AtInv, QueryTyped, StoreInv, LogOK, HeadOf

LEMMA WalkCommit ==
  ASSUME StoreInv, AtInv, WalkInv, NEW id, NEW s, NEW t, Commits(id, s, t)
  PROVE  WalkInv'
  <1>1. q' = q
    BY DEF Commits
  <1> SUFFICES ASSUME q.kind \in {"tilde", "history"}, q.at # "idle" PROVE WalkInv'
    BY <1>1 DEF WalkInv
  <1> DEFINE lg == log[q.session]
             lg2 == log'[q.session]
  <1>2. /\ q.session \in Sessions /\ q.seenFrom \in Nat /\ q.n \in Nat
    BY SessionOf
  <1>3. /\ Len(lg) \in Nat /\ Len(lg2) \in Nat /\ Len(lg) <= Len(lg2)
        /\ \A i \in 1..Len(lg) : lg2[i] = lg[i]
    BY <1>2, LogGrows, LenProperties
  <1> HIDE DEF lg, lg2
  <1>4. /\ HeadSeen(q, lg) => HeadSeen(q, lg2)
        /\ TildeKnown(q, lg) => TildeKnown(q, lg2)
        /\ HistoryKnown(q, lg) => HistoryKnown(q, lg2)
    BY <1>2, <1>3, KnownGrows
  <1> QED
    BY <1>1, <1>4 DEF WalkInv, lg, lg2

(* A head read now is one the session has had since the query began.       *)
LEMMA HeadNow ==
  ASSUME StoreInv, AtInv, q.kind # "name", q.at # "idle", db.heads[q.session] # None, NEW p,
         p.seenFrom = q.seenFrom, p.head = db.heads[q.session]
  PROVE  HeadSeen(p, log[q.session]) /\ db.heads[q.session] \in Calls
  <1>1. /\ Len(log[q.session]) \in Nat /\ Len(log[q.session]) # 0
        /\ log[q.session] \in Seq(Calls)
        /\ db.heads[q.session] = log[q.session][Len(log[q.session])]
        /\ q.seenFrom \in Nat /\ q.seenFrom <= Len(log[q.session])
    BY SessionOf
  <1>2. Len(log[q.session]) \in q.seenFrom..Len(log[q.session]) /\ 1 <= Len(log[q.session])
        /\ Len(log[q.session]) \in 1..Len(log[q.session])
    BY <1>1
  <1> QED
    BY <1>1, <1>2, ElementOfSeq DEF HeadSeen

(* A head that was seen is a stored snapshot at some place of the log.     *)
LEMMA SeenStored ==
  ASSUME StoreInv, AtInv, q.kind # "name", q.at # "idle", HeadSeen(q, log[q.session])
  PROVE  /\ HasSnapshot(db, q.head)
         /\ \E k \in 1..Len(log[q.session]) : q.seenFrom <= k /\ log[q.session][k] = q.head
  <1>1. PICK k \in q.seenFrom..Len(log[q.session]) : 1 <= k /\ log[q.session][k] = q.head
    BY DEF HeadSeen
  <1>2. /\ Len(log[q.session]) \in Nat /\ q.seenFrom \in Nat /\ q.session \in Sessions
        /\ DOMAIN log[q.session] = 1..Len(log[q.session])
    BY SessionOf
  <1>3. k \in 1..Len(log[q.session]) /\ q.seenFrom <= k
    BY <1>1, <1>2
  <1>4. RowOf(log, q.session, k) \in db.snaps
    BY <1>2, <1>3 DEF StoreInv, LogOK
  <1> QED
    BY <1>1, <1>3, <1>4 DEF HasSnapshot, RowOf

LEMMA GetSessionWalks ==
  ASSUME StoreInv, AtInv, WalkInv, GetSession
  PROVE  AtInv' /\ Keeps /\ WalkInv'
  <1>1. q.at = "get_session" /\ q.kind = "tilde" /\ q.outcome = "none"
    BY KindOf DEF GetSession, Select, AtInv
  <1>2. TildeKnown(q, log[q.session])
    BY <1>1 DEF WalkInv
  <1>3. CASE db.heads[q.session] = None
    <2>1. Select("get_session", End("missing"))
      BY <1>3 DEF GetSession
    <2>2. AtInv' /\ Keeps /\ q'.at = "done" /\ q'.outcome = "missing"
      BY <2>1, EndFacts DEF Outcomes
    <2>3. /\ Len(log[q.session]) = 0 /\ q.seenFrom \in Nat
          /\ q.seenFrom <= Len(log[q.session]) /\ q.n \in Nat
      <3>1. log[q.session] = <<>>
        <4>1. Len(log[q.session]) # 0 => log[q.session][Len(log[q.session])] \in Calls
          BY <1>1, SessionOf, ElementOfSeq
        <4> QED
          BY <1>1, <1>3, <4>1, SessionOf, DatabaseAssumption
      <3> QED
        BY <1>1, <3>1, SessionOf
    <2>4. 0 \in q.seenFrom..Len(log[q.session]) /\ 0 <= q.n
      BY <2>3
    <2>5. TildeKnown(q', log[q.session])
      BY <2>2, <2>4 DEF TildeKnown, Keeps
    <2>6. log' = log
      BY <2>2 DEF Keeps, storedVars
    <2> QED
      BY <1>1, <2>2, <2>5, <2>6 DEF WalkInv, Keeps
  <1>4. CASE db.heads[q.session] # None
    <2> DEFINE h == db.heads[q.session]
    <2>1. q' = [To("read_snapshot") EXCEPT !.head = h] /\ UNCHANGED storedVars
      BY <1>4 DEF GetSession, Select
    <2>2. h \in Calls
      BY <1>1, <1>4, HeadNow, SessionOf
    <2> HIDE DEF h
    <2>3. q' = [q EXCEPT !.at = "read_snapshot", !.head = h, !.rows = q.rows]
          /\ q.rows \in Seq(Calls)
      BY <2>1 DEF To, AtInv, QueryTyped
    <2>4. /\ AtInv' /\ Keeps /\ q'.at = "read_snapshot" /\ q'.outcome = "none"
      <3>1. "read_snapshot" \in InPlaceOf(q.kind)
        BY <1>1 DEF InPlaceOf
      <3>2. h \in Calls \cup {None} /\ q.at # "idle" /\ UNCHANGED storedVars
        BY <1>1, <2>1, <2>2
      <3> QED
        BY <1>1, <2>3, <3>1, <3>2, AtMoves
    <2>5. q'.head = h
      BY <2>3 DEF AtInv, QueryTyped
    <2>6. HeadSeen(q', log[q.session])
      BY <1>1, <1>4, <2>4, <2>5, HeadNow DEF Keeps, h
    <2>7. TildeKnown(q', log[q.session])
      BY <2>4 DEF TildeKnown
    <2>8. log' = log
      BY <2>4 DEF Keeps, storedVars
    <2> QED
      BY <1>1, <2>4, <2>6, <2>7, <2>8 DEF WalkInv, Keeps
  <1> QED
    BY <1>3, <1>4

LEMMA ReadSnapshotWalks ==
  ASSUME StoreInv, AtInv, WalkInv, ReadSnapshot
  PROVE  AtInv' /\ Keeps /\ WalkInv'
  <1>1. q.at = "read_snapshot" /\ q.kind = "tilde" /\ q.outcome = "none"
    BY KindOf DEF ReadSnapshot, Select, AtInv
  <1>2. HeadSeen(q, log[q.session])
    BY <1>1 DEF WalkInv
  <1>3. /\ Len(log[q.session]) \in Nat /\ q.seenFrom \in Nat
        /\ log[q.session] \in Seq(Calls)
    BY <1>1, SessionOf
  <1>4. PICK k \in 1..Len(log[q.session]) : q.seenFrom <= k /\ log[q.session][k] = q.head
    BY <1>1, <1>2, SeenStored
  <1>5. CASE q.n = 0
    <2>1. q.head \in Calls
      BY <1>3, <1>4, ElementOfSeq
    <2>2. Select("read_snapshot", Found(<<q.head>>)) /\ <<q.head>> \in Seq(Calls)
      BY <1>5, <2>1 DEF ReadSnapshot
    <2>3. /\ AtInv' /\ Keeps /\ q'.at = "done" /\ q'.outcome = "found" /\ q'.rows = <<q.head>>
      BY <2>2, FoundFacts
    <2>4. k \in q.seenFrom..Len(log[q.session]) /\ 0 < k /\ k - 0 = k
      BY <1>3, <1>4
    <2>5. TildeKnown(q', log[q.session])
      BY <1>4, <1>5, <2>3, <2>4 DEF TildeKnown, Keeps
    <2>6. log' = log
      BY <2>3 DEF Keeps, storedVars
    <2> QED
      BY <1>1, <2>3, <2>5, <2>6 DEF WalkInv, Keeps
  <1>6. CASE q.n # 0
    <2>1. Select("read_snapshot", To("history_session"))
      BY <1>6 DEF ReadSnapshot
    <2>2. /\ AtInv' /\ Keeps /\ q'.at = "history_session" /\ q'.outcome = "none"
      BY <1>1, <2>1, ToFacts DEF InPlaceOf
    <2>3. TildeKnown(q', log[q.session])
      BY <1>3, <1>4, <2>2 DEF TildeKnown
    <2>4. log' = log
      BY <2>2 DEF Keeps, storedVars
    <2> QED
      BY <1>1, <2>2, <2>3, <2>4 DEF WalkInv, Keeps
  <1> QED
    BY <1>5, <1>6

LEMMA HistorySessionWalks ==
  ASSUME StoreInv, AtInv, WalkInv, HistorySession
  PROVE  AtInv' /\ Keeps /\ WalkInv'
  <1>1. /\ q.at = "history_session" /\ q.kind \in {"tilde", "history"} /\ q.outcome = "none"
        /\ q.at # "idle" /\ q.kind # "name"
    BY KindOf DEF HistorySession, Select, AtInv
  <1>2. CASE db.heads[q.session] = None
    <2>1. log[q.session] = <<>> /\ Len(log[q.session]) = 0
      <3>1. Len(log[q.session]) # 0 => log[q.session][Len(log[q.session])] \in Calls
        BY <1>1, SessionOf, ElementOfSeq
      <3> QED
        BY <1>1, <1>2, <3>1, SessionOf, DatabaseAssumption
    <2>2. q.kind = "history"
      BY <1>1, <2>1 DEF WalkInv, TildeKnown
    <2>3. Select("history_session", Found(<<>>)) /\ <<>> \in Seq(Calls) /\ Len(<<>>) = 0
      BY <1>2, EmptySeq DEF HistorySession
    <2>4. /\ AtInv' /\ Keeps /\ q'.at = "done" /\ q'.outcome = "found" /\ q'.rows = <<>>
      BY <2>3, FoundFacts
    <2>5. 0 \in q.seenFrom..Len(log[q.session])
      BY <1>1, <2>1, SessionOf
    <2>6. NewestTo(q'.rows, log[q.session], 0)
      BY <2>3, <2>4 DEF NewestTo
    <2>7. HistoryKnown(q', log[q.session])
      BY <2>4, <2>5, <2>6 DEF HistoryKnown, Keeps
    <2>8. log' = log
      BY <2>4 DEF Keeps, storedVars
    <2> QED
      BY <2>2, <2>4, <2>7, <2>8 DEF WalkInv, Keeps
  <1>3. CASE db.heads[q.session] # None
    <2> DEFINE h == db.heads[q.session]
    <2>1. q' = [To("exists") EXCEPT !.head = h] /\ UNCHANGED storedVars
      BY <1>3 DEF HistorySession, Select
    <2>2. h \in Calls
      BY <1>1, <1>3, HeadNow, SessionOf
    <2> HIDE DEF h
    <2>3. q' = [q EXCEPT !.at = "exists", !.head = h, !.rows = q.rows]
          /\ q.rows \in Seq(Calls)
      BY <2>1 DEF To, AtInv, QueryTyped
    <2>4. /\ AtInv' /\ Keeps /\ q'.at = "exists" /\ q'.outcome = "none"
      <3>1. "exists" \in InPlaceOf(q.kind)
        BY <1>1 DEF InPlaceOf
      <3>2. h \in Calls \cup {None} /\ q.at # "idle" /\ UNCHANGED storedVars
        BY <1>1, <2>1, <2>2
      <3> QED
        BY <1>1, <2>3, <3>1, <3>2, AtMoves
    <2>5. q'.head = h
      BY <2>3 DEF AtInv, QueryTyped
    <2>6. HeadSeen(q', log[q.session])
      BY <1>1, <1>3, <2>4, <2>5, HeadNow DEF Keeps, h
    <2>7. TildeKnown(q', log[q.session]) /\ HistoryKnown(q', log[q.session])
      BY <2>4 DEF TildeKnown, HistoryKnown
    <2>8. log' = log
      BY <2>4 DEF Keeps, storedVars
    <2> QED
      BY <2>4, <2>6, <2>7, <2>8 DEF WalkInv, Keeps
  <1> QED
    BY <1>2, <1>3

LEMMA ConfirmStartWalks ==
  ASSUME StoreInv, AtInv, WalkInv, ConfirmStart
  PROVE  AtInv' /\ Keeps /\ WalkInv'
  <1>1. /\ q.at = "exists" /\ q.kind \in {"tilde", "history"} /\ q.outcome = "none"
        /\ q.at # "idle" /\ q.kind # "name"
    BY KindOf DEF ConfirmStart, Select, AtInv
  <1>2. HeadSeen(q, log[q.session])
    BY <1>1 DEF WalkInv
  <1>3. Select("exists", To("chain"))
    BY <1>1, <1>2, SeenStored DEF ConfirmStart
  <1>4. "chain" \in InPlaceOf(q.kind)
    BY <1>1 DEF InPlaceOf
  <1>5. AtInv' /\ Keeps /\ q'.at = "chain" /\ q'.outcome = "none" /\ q'.head = q.head
    BY <1>3, <1>4, ToFacts
  <1>6. HeadSeen(q', log[q.session])
    BY <1>2, <1>5 DEF HeadSeen, Keeps
  <1>7. TildeKnown(q', log[q.session]) /\ HistoryKnown(q', log[q.session])
    BY <1>5 DEF TildeKnown, HistoryKnown
  <1>8. log' = log
    BY <1>5 DEF Keeps, storedVars
  <1> QED
    BY <1>5, <1>6, <1>7, <1>8 DEF WalkInv, Keeps

LEMMA WalkParentsWalks ==
  ASSUME StoreInv, AtInv, WalkInv, WalkParents
  PROVE  AtInv' /\ Keeps /\ WalkInv'
  <1>1. /\ q.at = "chain" /\ q.kind \in {"tilde", "history"} /\ q.outcome = "none"
        /\ q.at # "idle" /\ q.kind # "name"
    BY KindOf DEF WalkParents, Select, AtInv
  <1> DEFINE lg   == log[q.session]
             rows == Chain(q.head, MaxDepth)
  <1>2. /\ lg \in Seq(Calls) /\ Len(lg) \in Nat /\ q.seenFrom \in Nat /\ q.n \in Nat
        /\ q.session \in Sessions /\ DOMAIN lg = 1..Len(lg)
    BY <1>1, SessionOf
  <1>3. HeadSeen(q, lg)
    BY <1>1 DEF WalkInv
  <1>4. PICK k \in 1..Len(lg) : q.seenFrom <= k /\ lg[k] = q.head
    BY <1>1, <1>3, SeenStored
  <1>5. MaxDepth = (IF q.kind = "tilde" THEN q.n + 1 ELSE q.n) /\ MaxDepth \in Nat
    BY <1>2 DEF MaxDepth
  <1>6. rows = Back(lg, k, MaxDepth)
    BY <1>2, <1>4, <1>5, ChainIsBack
  <1>7. Select("chain",
               IF TooDeep(rows) THEN End("too_deep")
               ELSE IF q.kind = "tilde" THEN PickAncestor(rows) ELSE Found(rows))
    BY DEF WalkParents
  <1> DEFINE m == IF MaxDepth < k THEN MaxDepth + 1 ELSE k
  <1> HIDE DEF rows
  <1>8. rows \in Seq(Calls) /\ Len(rows) = m /\ \A i \in 1..m : rows[i] = lg[k + 1 - i]
    <2>1. /\ Back(lg, k, MaxDepth) \in Seq(Calls)
          /\ Len(Back(lg, k, MaxDepth)) = IF MaxDepth < k THEN MaxDepth + 1 ELSE k
          /\ \A i \in 1..(IF MaxDepth < k THEN MaxDepth + 1 ELSE k) :
               Back(lg, k, MaxDepth)[i] = lg[k + 1 - i]
      <3> HIDE DEF lg
      <3> QED
        BY <1>2, <1>5, BackFacts
    <2> QED
      BY <1>6, <2>1
  <1>9. k \in Nat /\ 1 <= k /\ k <= Len(lg) /\ k \in q.seenFrom..Len(lg)
    BY <1>2, <1>4
  <1> HIDE DEF lg
  <1>10. m \in 1..k /\ m \in Nat /\ (MaxDepth < k => m = MaxDepth + 1) /\ (~(MaxDepth < k) => m = k)
    BY <1>5, <1>9
  <1> HIDE DEF m
  <1> DEFINE j == k + 1 - m
  <1>11. Parent(rows[Len(rows)]) # None <=> m < k
    <2>1. rows[Len(rows)] = lg[j] /\ j \in 1..Len(lg)
      BY <1>8, <1>9, <1>10
    <2>2. j = 1 <=> ~(m < k)
      BY <1>9, <1>10
    <2>3. j # 1 => j - 1 \in 1..Len(lg)
      BY <1>2, <2>1
    <2> HIDE DEF j
    <2>4. Parent(lg[j]) = IF j = 1 THEN None ELSE lg[j - 1]
      BY <1>2, <2>1, ParentIs DEF lg
    <2>5. j # 1 => lg[j - 1] \in Calls
      BY <1>2, <2>3, ElementOfSeq
    <2> QED
      BY <2>1, <2>2, <2>4, <2>5, DatabaseAssumption
  <1> HIDE DEF j
  <1>12. log' = log
    BY <1>7 DEF Select, storedVars
  <1>13. CASE TooDeep(rows)
    <2>1. AtInv' /\ Keeps /\ q'.at = "done" /\ q'.outcome = "too_deep"
      BY <1>7, <1>13, EndFacts DEF Outcomes
    <2>2. MaxDepth < Len(rows) /\ m < k
      BY <1>8, <1>10, <1>11, <1>13 DEF TooDeep
    <2>3. q.kind = "history" => Len(lg) > q.n + 1
      BY <1>1, <1>2, <1>5, <1>8, <1>9, <1>10, <2>2
    <2>4. TildeKnown(q', lg) /\ (q.kind = "history" => HistoryKnown(q', lg))
      BY <2>1, <2>3 DEF TildeKnown, HistoryKnown, Keeps
    <2> QED
      BY <1>12, <2>1, <2>4 DEF WalkInv, Keeps, lg
  <1>14. CASE ~TooDeep(rows)
    <2>1. m = k
      BY <1>5, <1>8, <1>9, <1>10, <1>11, <1>14 DEF TooDeep
    <2>2. CASE q.kind = "history"
      <3>1. Select("chain", Found(rows))
        BY <1>7, <1>14, <2>2
      <3>2. AtInv' /\ Keeps /\ q'.at = "done" /\ q'.outcome = "found" /\ q'.rows = rows
        BY <1>8, <3>1, FoundFacts
      <3>3. NewestTo(rows, lg, k)
        BY <1>8, <2>1 DEF NewestTo
      <3>4. HistoryKnown(q', lg)
        BY <1>9, <3>2, <3>3 DEF HistoryKnown, Keeps
      <3> QED
        BY <1>12, <2>2, <3>2, <3>4 DEF WalkInv, Keeps, lg
    <2>3. CASE q.kind = "tilde" /\ q.n >= Len(rows)
      <3>1. Select("chain", End("missing"))
        BY <1>7, <1>14, <2>3 DEF PickAncestor
      <3>2. AtInv' /\ Keeps /\ q'.at = "done" /\ q'.outcome = "missing"
        BY <3>1, EndFacts DEF Outcomes
      <3>3. k <= q.n
        BY <1>2, <1>8, <1>9, <2>1, <2>3
      <3>4. TildeKnown(q', lg)
        BY <1>9, <3>2, <3>3 DEF TildeKnown, Keeps
      <3> QED
        BY <1>12, <2>3, <3>2, <3>4 DEF WalkInv, Keeps, lg
    <2>4. CASE q.kind = "tilde" /\ ~(q.n >= Len(rows))
      <3>1. q.n < k /\ q.n + 1 \in 1..m /\ q.n + 1 \in 1..Len(rows) /\ k + 1 - (q.n + 1) = k - q.n
        <4>1. Len(rows) = k /\ m = k /\ k \in Nat /\ q.n \in Nat
          BY <1>2, <1>8, <1>9, <2>1
        <4> QED
          BY <2>4, <4>1
      <3>2. rows[q.n + 1] = lg[k - q.n] /\ rows[q.n + 1] \in Calls
        BY <1>8, <3>1, ElementOfSeq
      <3>3. Select("chain", Found(<<rows[q.n + 1]>>)) /\ <<rows[q.n + 1]>> \in Seq(Calls)
        BY <1>7, <1>14, <2>4, <3>2 DEF PickAncestor
      <3>4. /\ AtInv' /\ Keeps /\ q'.at = "done" /\ q'.outcome = "found"
            /\ q'.rows = <<rows[q.n + 1]>>
        BY <3>3, FoundFacts
      <3>5. TildeKnown(q', lg)
        BY <1>9, <3>1, <3>2, <3>4 DEF TildeKnown, Keeps
      <3> QED
        BY <1>12, <2>4, <3>4, <3>5 DEF WalkInv, Keeps, lg
    <2> QED
      BY <1>1, <2>2, <2>3, <2>4
  <1> QED
    BY <1>13, <1>14

(* The other queries leave nothing to know of a walk.                      *)
LEMMA OthersWalk ==
  ASSUME AtInv, q.kind \notin {"tilde", "history"}, Keeps
  PROVE  WalkInv'
  BY DEF WalkInv, Keeps

LEMMA AsksWalk ==
  ASSUME StoreInv, AtInv, AskTilde \/ AskHistory
  PROVE  AtInv' /\ WalkInv' /\ q'.kind \in {"tilde", "history"}
  <1>1. ASSUME NEW kind \in {"tilde", "history"}, NEW n \in Nat,
               NEW at \in {"get_session", "history_session"},
               kind = "tilde" <=> at = "get_session", Ask(kind, n, at)
        PROVE  AtInv' /\ WalkInv' /\ q'.kind \in {"tilde", "history"}
    <2>1. AtInv'
      BY <1>1, AtAsk DEF Kinds, InPlaceOf
    <2>2. q'.at = at /\ q'.kind = kind /\ q'.outcome = "none"
      BY <1>1 DEF Ask, Select, NoQuery
    <2> QED
      BY <1>1, <2>1, <2>2 DEF WalkInv, TildeKnown, HistoryKnown
  <1>2. CASE AskTilde
    BY <1>1, <1>2, QueriesAssumption DEF AskTilde
  <1>3. CASE AskHistory
    BY <1>1, <1>3, QueriesAssumption DEF AskHistory
  <1> QED
    BY <1>2, <1>3

-----------------------------------------------------------------------------
(* Pages.                                                                  *)

InOrder(seq, at) == \A i, j \in DOMAIN seq : i < j => at[seq[i]] > at[seq[j]]

Apart(ids, at) == \A x, y \in ids : at[x] = at[y] => x = y

(* A finite set whose times differ can be put in order, and that takes in  *)
(* all of it: the oldest of a least set that cannot goes last.             *)
LEMMA OrderExists ==
  ASSUME NEW ids, IsFiniteSet(ids), NEW at, \A x \in ids : at[x] \in Nat, Apart(ids, at)
  PROVE  \E seq \in SetToSeqs(ids) : InOrder(seq, at)
  <1> DEFINE Sortable(us) == \E seq \in SetToSeqs(us) : InOrder(seq, at)
             Bad == {us \in SUBSET ids : ~Sortable(us)}
             n   == Cardinality(ids)
             T   == {Cardinality(us) : us \in Bad}
  <1> SUFFICES ASSUME ~Sortable(ids) PROVE FALSE
    OBVIOUS
  <1> HIDE DEF Sortable
  <1>1. n \in Nat /\ \A us \in SUBSET ids : IsFiniteSet(us) /\ Cardinality(us) \in 0..n
    <2>1. n \in Nat
      BY FS_CardinalityType
    <2>2. ASSUME NEW us \in SUBSET ids PROVE IsFiniteSet(us) /\ Cardinality(us) \in 0..n
      <3>1. IsFiniteSet(us) /\ Cardinality(us) <= n
        BY FS_Subset
      <3>2. Cardinality(us) \in Nat
        BY <3>1, FS_CardinalityType
      <3> HIDE DEF n
      <3> QED
        BY <2>1, <3>1, <3>2
    <2> QED
      BY <2>1, <2>2
  <1> HIDE DEF n
  <1>2. T \subseteq 0..n /\ T # {}
    BY <1>1
  <1>3. PICK m \in T : \A k \in T : m <= k
    <2> HIDE DEF T
    <2> QED
      BY <1>1, <1>2, LeastStep
  <1>4. PICK us \in SUBSET ids : ~Sortable(us) /\ Cardinality(us) = m
    BY <1>3
  <1>5. IsFiniteSet(us) /\ m \in Nat
    BY <1>1, <1>4
  <1>6. us # {}
    <2> SUFFICES ASSUME us = {} PROVE Sortable({})
      BY <1>4
    <2>1. Cardinality({}) = 0 /\ 1..0 = {}
      BY FS_EmptySet
    <2>2. <<>> \in [1..0 -> {}] /\ DOMAIN <<>> = {}
      BY <2>1
    <2>3. <<>> \in SetToSeqs({})
      BY <2>1, <2>2 DEF SetToSeqs
    <2> QED
      BY <2>2, <2>3 DEF Sortable, InOrder
  <1>7. PICK x \in us : \A y \in us : at[x] <= at[y]
    <2> DEFINE Ts == {at[y] : y \in us}
    <2>1. PICK y \in us : TRUE
      BY <1>6
    <2>2. at[y] \in Nat
      OBVIOUS
    <2> DEFINE Early == {t \in Ts : t <= at[y]}
    <2>3. Early \subseteq 0..at[y] /\ Early # {}
      BY <2>2
    <2>4. PICK t \in Early : \A k \in Early : t <= k
      <3> HIDE DEF Early
      <3> QED
        BY <2>2, <2>3, LeastStep
    <2>5. PICK x \in us : at[x] = t
      BY <2>4
    <2>6. \A z \in us : at[z] \in Nat
      OBVIOUS
    <2>7. ASSUME NEW z \in us PROVE at[x] <= at[z]
      <3>1. at[z] <= at[y] => at[z] \in Early
        OBVIOUS
      <3>2. t \in Nat /\ t <= at[y]
        BY <2>4, <2>6
      <3> HIDE DEF Early
      <3> QED
        BY <2>2, <2>4, <2>5, <2>6, <3>1, <3>2
    <2> QED
      BY <2>5, <2>7
  <1> DEFINE vs == us \ {x}
  <1>8. Cardinality(vs) = m - 1 /\ m # 0
    <2>1. Cardinality(vs) = Cardinality(us) - 1
      BY <1>5, FS_RemoveElement
    <2>2. m # 0
      BY <1>4, <1>5, <1>6, FS_EmptySet
    <2> QED
      BY <1>4, <2>1, <2>2
  <1>9. Sortable(vs)
    <2> SUFFICES ASSUME ~Sortable(vs) PROVE FALSE
      OBVIOUS
    <2>1. vs \in Bad
      OBVIOUS
    <2>2. m - 1 \in T
      BY <1>8, <2>1
    <2> QED
      BY <1>3, <1>5, <2>2
  <1>10. PICK seq \in SetToSeqs(vs) : InOrder(seq, at)
    BY <1>9 DEF Sortable
  <1>11. /\ seq \in [1..(m - 1) -> vs] /\ DOMAIN seq = 1..(m - 1)
         /\ \A i, j \in 1..(m - 1) : i # j => seq[i] # seq[j]
    BY <1>8, <1>10 DEF SetToSeqs
  <1> HIDE DEF vs
  <1>12. vs \subseteq us /\ x \notin vs
    BY DEF vs
  <1> DEFINE new == [i \in 1..m |-> IF i = m THEN x ELSE seq[i]]
  <1>13. \A i \in 1..m : i # m => i \in 1..(m - 1)
    BY <1>5
  <1>14. new \in [1..m -> us]
    BY <1>11, <1>12, <1>13
  <1>15. \A i, j \in 1..m : i # j => new[i] # new[j]
    <2> SUFFICES ASSUME NEW i \in 1..m, NEW j \in 1..m, i # j PROVE new[i] # new[j]
      OBVIOUS
    <2>1. i # m => new[i] = seq[i] /\ seq[i] \in vs
      BY <1>11, <1>13
    <2>2. j # m => new[j] = seq[j] /\ seq[j] \in vs
      BY <1>11, <1>13
    <2>3. (i = m => new[i] = x) /\ (j = m => new[j] = x)
      OBVIOUS
    <2> HIDE DEF new
    <2> QED
      BY <1>11, <1>12, <1>13, <2>1, <2>2, <2>3
  <1>16. new \in SetToSeqs(us)
    <2> HIDE DEF new
    <2> QED
      BY <1>4, <1>14, <1>15 DEF SetToSeqs
  <1>17. ASSUME NEW i \in 1..m, NEW j \in 1..m, i < j PROVE at[new[i]] > at[new[j]]
    <2>1. i # m /\ i \in 1..(m - 1)
      BY <1>5, <1>17
    <2>2. new[i] = seq[i] /\ seq[i] \in vs
      BY <1>11, <2>1
    <2>3. CASE j = m
      <3>1. new[j] = x
        BY <2>3
      <3>2. at[seq[i]] \in Nat /\ at[x] \in Nat /\ at[x] <= at[seq[i]] /\ seq[i] # x
        BY <1>7, <1>12, <2>2
      <3>3. at[seq[i]] # at[x]
        BY <1>7, <1>12, <2>2, <3>2 DEF Apart
      <3> HIDE DEF new
      <3> QED
        BY <2>2, <3>1, <3>2, <3>3
    <2>4. CASE j # m
      <3>1. j \in 1..(m - 1) /\ new[j] = seq[j]
        BY <1>13, <2>4
      <3> HIDE DEF new
      <3> QED
        BY <1>10, <1>11, <1>17, <2>1, <2>2, <3>1 DEF InOrder
    <2> QED
      BY <2>3, <2>4
  <1>18. InOrder(new, at)
    <2>1. DOMAIN new = 1..m
      OBVIOUS
    <2> HIDE DEF new
    <2> QED
      BY <1>17, <2>1 DEF InOrder
  <1> QED
    <2> HIDE DEF new
    <2> QED
      BY <1>4, <1>16, <1>18 DEF Sortable

(* NewestFirst: all of ids, each once, in descending order of created_at.  *)
LEMMA NewestFirstSorts ==
  ASSUME NEW ids, IsFiniteSet(ids), \A x \in ids : created[x] \in Nat, Apart(ids, created)
  PROVE  /\ NewestFirst(ids) \in Seq(ids) /\ Len(NewestFirst(ids)) = Cardinality(ids)
         /\ DOMAIN NewestFirst(ids) = 1..Cardinality(ids)
         /\ InOrder(NewestFirst(ids), created)
         /\ \A x \in ids : \E i \in DOMAIN NewestFirst(ids) : NewestFirst(ids)[i] = x
  <1> DEFINE seq == NewestFirst(ids)
             n   == Cardinality(ids)
  <1>1. n \in Nat
    BY FS_CardinalityType
  <1>2. seq \in SetToSeqs(ids) /\ InOrder(seq, created)
    BY OrderExists DEF NewestFirst, InOrder
  <1>3. seq \in [1..n -> ids] /\ \A i, j \in 1..n : i # j => seq[i] # seq[j]
    BY <1>2 DEF SetToSeqs
  <1> HIDE DEF seq
  <1>4. seq \in Surjection(1..n, ids)
    <2>1. seq \in Injection(1..n, ids)
      BY <1>3 DEF Injection, IsInjective
    <2>2. Cardinality(1..n) = n
      BY <1>1, FS_Interval
    <2> HIDE DEF n
    <2> QED
      BY <2>1, <2>2, FS_Injection DEF n
  <1>5. \A x \in ids : \E i \in 1..n : seq[i] = x
    BY <1>4 DEF Surjection
  <1> HIDE DEF n
  <1>6. seq \in Seq(ids) /\ Len(seq) = n /\ DOMAIN seq = 1..n
    BY <1>1, <1>3, SeqDef, LenProperties
  <1> QED
    BY <1>2, <1>5, <1>6 DEF seq, n

LEMMA PagesCommit ==
  ASSUME StoreInv, AtInv, PagesInv, NEW id, NEW s, NEW t, Commits(id, s, t)
  PROVE  PagesInv'
  <1>1. q' = q
    BY DEF Commits
  <1> SUFFICES ASSUME q.kind = "pages", q.at # "idle" PROVE PagesInv'
    BY <1>1 DEF PagesInv
  <1>2. /\ q.session \in Sessions /\ q.seenFrom \in Nat /\ q.seenFrom <= Len(log[q.session])
        /\ Len(log[q.session]) \in Nat /\ DOMAIN log[q.session] = 1..Len(log[q.session])
        /\ log[q.session] \in Seq(Calls)
    BY SessionOf
  <1>3. /\ q.rows \in Seq(Calls) /\ Len(q.rows) \in Nat /\ DOMAIN q.rows = 1..Len(q.rows)
        /\ q.rows = <<>> <=> Len(q.rows) = 0
    BY RowsTyped
  <1>4. \A x \in {r.id : r \in db.snaps} : created'[x] = created[x] /\ x \in Calls
    <2>1. created \in [Calls -> Nat] /\ {r.id : r \in db.snaps} \subseteq Calls
      BY StoredIds DEF StoreInv, ColumnsOK
    <2>2. \A x \in {r.id : r \in db.snaps} : x # id
      BY DEF Commits, HasSnapshot
    <2> QED
      BY <2>1, <2>2 DEF Commits
  <1>5. Rows \subseteq Rows' /\ Rows \subseteq {r.id : r \in db.snaps}
    BY <1>1 DEF Rows, Commits
  <1>6. \A i \in DOMAIN q.rows : q.rows[i] \in Rows
    BY DEF PagesInv
  <1>7. \A i \in DOMAIN q.rows : created'[q.rows[i]] = created[q.rows[i]]
    BY <1>4, <1>5, <1>6
  <1>8. \A i \in 1..q.seenFrom : /\ log'[q.session][i] = log[q.session][i]
                                 /\ created'[log[q.session][i]] = created[log[q.session][i]]
    <2> SUFFICES ASSUME NEW i \in 1..q.seenFrom
                 PROVE  /\ log'[q.session][i] = log[q.session][i]
                        /\ created'[log[q.session][i]] = created[log[q.session][i]]
      OBVIOUS
    <2>1. i \in 1..Len(log[q.session])
      BY <1>2
    <2>2. RowOf(log, q.session, i) \in db.snaps /\ RowOf(log, q.session, i).id = log[q.session][i]
      BY <1>2, <2>1 DEF StoreInv, LogOK, RowOf
    <2>3. log'[q.session][i] = log[q.session][i]
      BY <1>2, <2>1, LogGrows
    <2> QED
      BY <1>4, <2>2, <2>3
  <1>9. Descending(q.rows, created')
    BY <1>7 DEF PagesInv, Descending
  <1>10. q.rows # <<>> => created'[q.rows[Len(q.rows)]] = created[q.rows[Len(q.rows)]]
    <2>1. q.rows # <<>> => Len(q.rows) \in DOMAIN q.rows
      BY <1>3
    <2> QED
      BY <1>7, <2>1
  <1>11. ASSUME NEW i \in 1..q.seenFrom
         PROVE  \/ log'[q.session][i] \in Range(q.rows)
                \/ q.rows = <<>> /\ q.outcome # "found"
                \/ Behind(log'[q.session][i], q.rows, created') /\ q.outcome # "found"
    BY <1>8, <1>10 DEF PagesInv, Behind
  <1>12. 1 <= q.n /\ \A i \in DOMAIN q.rows : q.rows[i] \in Rows'
    BY <1>5, <1>6 DEF PagesInv
  <1> QED
    BY <1>1, <1>9, <1>11, <1>12 DEF PagesInv

(* What is older than the last row already listed, and in the session.     *)
LEMMA OlderFacts ==
  ASSUME StoreInv, AtInv
  PROVE  /\ Older(Rows) \subseteq Calls /\ IsFiniteSet(Older(Rows)) /\ Older(Rows) \subseteq Rows
         /\ \A x \in Older(Rows) : created[x] \in Nat
         /\ Apart(Rows, created) /\ Apart(Older(Rows), created)
         /\ \A x \in Rows : created[x] \in Nat
  <1>1. Rows \subseteq Calls /\ IsFiniteSet(Rows)
    BY StoredIds
  <1>2. Older(Rows) \subseteq Rows
    BY DEF Older
  <1>3. Apart(Rows, created)
    BY DEF Apart, Rows, StoreInv, ColumnsOK
  <1>4. created \in [Calls -> Nat]
    BY DEF StoreInv, ColumnsOK
  <1> QED
    BY <1>1, <1>2, <1>3, <1>4, FS_Subset DEF Apart

(* The rows with a page of those that are older put after them.            *)
LEMMA PageFollows ==
  ASSUME StoreInv, AtInv, PagesInv, q.kind = "pages", q.at = "page", q.outcome = "none",
         NEW all, all = NewestFirst(Older(Rows)), NEW n \in 0..Len(all),
         NEW page, page = SubSeq(all, 1, n), NEW rows, rows = q.rows \o page
  PROVE  /\ all \in Seq(Calls)
         /\ page \in Seq(Calls) /\ Len(page) = n /\ rows \in Seq(Calls)
         /\ Descending(rows, created)
         /\ \A i \in DOMAIN rows : rows[i] \in Rows
         /\ \A i \in 1..q.seenFrom :
              \/ log[q.session][i] \in Range(rows)
              \/ n < Len(all) /\ 1 <= n /\ Behind(log[q.session][i], rows, created)
              \/ n = 0 /\ 0 < Len(all)
  <1> DEFINE lg    == log[q.session]
             older == Older(Rows)
             R     == q.rows
             m     == Len(R)
  <1>1. /\ older \subseteq Calls /\ IsFiniteSet(older) /\ older \subseteq Rows
        /\ \A x \in older : created[x] \in Nat
        /\ Apart(older, created) /\ \A x \in Rows : created[x] \in Nat
    BY OlderFacts
  <1>2. /\ all \in Seq(older) /\ InOrder(all, created) /\ DOMAIN all = 1..Len(all)
        /\ \A x \in older : \E i \in DOMAIN all : all[i] = x
        /\ Len(all) \in Nat
    <2>1. NewestFirst(older) \in Seq(older) /\ InOrder(NewestFirst(older), created)
          /\ \A x \in older : \E i \in DOMAIN NewestFirst(older) : NewestFirst(older)[i] = x
      <3> HIDE DEF older
      <3> QED
        BY <1>1, NewestFirstSorts
    <2> HIDE DEF older
    <2>2. all \in Seq(older)
      BY <2>1 DEF older
    <2> QED
      BY <2>1, <2>2, LenProperties DEF older
  <1>3. R \in Seq(Calls) /\ m \in Nat /\ DOMAIN R = 1..m /\ (R = <<>> <=> m = 0)
    BY RowsTyped
  <1>4. /\ q.seenFrom \in Nat /\ q.seenFrom <= Len(lg) /\ Len(lg) \in Nat
        /\ DOMAIN lg = 1..Len(lg) /\ q.session \in Sessions
    BY SessionOf
  <1>5. /\ Descending(R, created) /\ \A i \in 1..m : R[i] \in Rows
        /\ \A i \in 1..q.seenFrom :
             lg[i] \in Range(R) \/ R = <<>> \/ Behind(lg[i], R, created)
    BY <1>3 DEF PagesInv
  <1>6. \A x \in older : R # <<>> => created[x] < created[R[m]]
    BY DEF Older
  <1>7. \A x \in Rows : R = <<>> \/ created[x] < created[R[m]] => x \in older
    BY DEF Older
  <1> HIDE DEF older, R, m, lg
  <1>8. /\ page \in Seq(older) /\ Len(page) = n /\ n \in Nat
        /\ \A i \in 1..n : page[i] = all[i] /\ all[i] \in older
    <2>1. \A i \in 1..n : all[i] \in older
      BY <1>2, ElementOfSeq
    <2> QED
      BY <1>2, <2>1, SubSeqProperties
  <1>9. all \in Seq(Calls) /\ page \in Seq(Calls)
    BY <1>1, <1>2, <1>8, SeqMonotonic
  <1>10. /\ rows \in Seq(Calls) /\ Len(rows) = m + n /\ DOMAIN rows = 1..(m + n)
         /\ \A i \in 1..m : rows[i] = R[i]
         /\ \A i \in (m + 1)..(m + n) : rows[i] = page[i - m] /\ i - m \in 1..n
         /\ \A i \in 1..n : rows[m + i] = page[i] /\ m + i \in 1..(m + n)
    <2>1. /\ R \o page \in Seq(Calls) /\ Len(R \o page) = m + n
          /\ \A i \in 1..(m + n) : (R \o page)[i] = IF i <= m THEN R[i] ELSE page[i - m]
      BY <1>3, <1>8, <1>9, ConcatProperties DEF m
    <2>2. rows = R \o page
      BY DEF R
    <2>3. rows \in Seq(Calls) /\ Len(rows) = m + n /\ DOMAIN rows = 1..(m + n)
      BY <2>1, <2>2, LenProperties
    <2>4. ASSUME NEW i \in 1..m PROVE rows[i] = R[i]
      <3>1. i \in 1..(m + n) /\ i <= m
        BY <1>3, <1>8
      <3> QED
        BY <2>1, <2>2, <3>1
    <2>5. ASSUME NEW i \in (m + 1)..(m + n) PROVE rows[i] = page[i - m] /\ i - m \in 1..n
      <3>1. i \in 1..(m + n) /\ ~(i <= m) /\ i - m \in 1..n
        BY <1>3, <1>8
      <3> QED
        BY <2>1, <2>2, <3>1
    <2>6. ASSUME NEW i \in 1..n PROVE rows[m + i] = page[i] /\ m + i \in 1..(m + n)
      <3> DEFINE j == m + i
      <3>1. j \in 1..(m + n) /\ ~(j <= m) /\ j - m = i
        BY <1>3, <1>8
      <3> HIDE DEF j
      <3>2. rows[j] = page[i]
        BY <2>1, <2>2, <3>1
      <3> QED
        BY <3>1, <3>2 DEF j
    <2> QED
      BY <2>3, <2>4, <2>5, <2>6
  <1>11. \A i \in 1..(m + n) : i \in 1..m \/ i \in (m + 1)..(m + n)
    BY <1>3, <1>8
  <1>12. ASSUME NEW i \in 1..(m + n) PROVE rows[i] \in Rows
    <2>1. CASE i \in 1..m
      BY <1>5, <1>10, <2>1
    <2>2. CASE i \in (m + 1)..(m + n)
      <3>1. rows[i] = page[i - m] /\ i - m \in 1..n
        BY <1>10, <2>2
      <3>2. rows[i] \in older
        BY <1>8, <3>1
      <3> QED
        BY <1>1, <3>2
    <2> QED
      BY <1>11, <2>1, <2>2
  <1>13. \A i \in 1..m : \A x \in older : created[R[i]] > created[x]
    <2> SUFFICES ASSUME NEW i \in 1..m, NEW x \in older PROVE created[R[i]] > created[x]
      OBVIOUS
    <2>1. m \in 1..m /\ R # <<>>
      BY <1>3
    <2>2. created[x] < created[R[m]] /\ created[x] \in Nat /\ created[R[m]] \in Nat
          /\ created[R[i]] \in Nat
      BY <1>1, <1>5, <1>6, <2>1
    <2>3. i = m \/ created[R[i]] > created[R[m]]
      BY <1>3, <1>5, <2>1 DEF Descending
    <2> QED
      BY <2>2, <2>3
  <1>14. ASSUME NEW i \in 1..(m + n), NEW j \in 1..(m + n), i < j
         PROVE  created[rows[i]] > created[rows[j]]
    <2>1. CASE j \in 1..m
      <3>1. i \in 1..m
        BY <1>3, <1>8, <1>14, <2>1
      <3> QED
        BY <1>3, <1>5, <1>10, <1>14, <2>1, <3>1 DEF Descending
    <2>2. CASE i \in 1..m /\ j \in (m + 1)..(m + n)
      <3>1. rows[i] = R[i]
        BY <1>10, <2>2
      <3>2. rows[j] = page[j - m] /\ j - m \in 1..n
        BY <1>10, <2>2
      <3>3. rows[j] \in older
        BY <1>8, <3>2
      <3> QED
        BY <1>13, <2>2, <3>1, <3>3
    <2>3. CASE i \in (m + 1)..(m + n) /\ j \in (m + 1)..(m + n)
      <3>1. /\ rows[i] = all[i - m] /\ rows[j] = all[j - m]
            /\ i - m \in 1..n /\ j - m \in 1..n /\ i - m < j - m
        <4>1. rows[i] = page[i - m] /\ i - m \in 1..n
          BY <1>10, <2>3
        <4>2. rows[j] = page[j - m] /\ j - m \in 1..n
          BY <1>10, <2>3
        <4>3. i - m < j - m
          BY <1>3, <1>14, <2>3
        <4> QED
          BY <1>8, <4>1, <4>2, <4>3
      <3>2. i - m \in DOMAIN all /\ j - m \in DOMAIN all
        BY <1>2, <3>1
      <3> QED
        BY <1>2, <3>1, <3>2 DEF InOrder
    <2> QED
      BY <1>3, <1>11, <1>14, <2>1, <2>2, <2>3
  <1>15. ASSUME NEW i \in 1..q.seenFrom
         PROVE  \/ lg[i] \in Range(rows)
                \/ n < Len(all) /\ 1 <= n /\ Behind(lg[i], rows, created)
                \/ n = 0 /\ 0 < Len(all)
    <2>1. CASE lg[i] \in Range(R)
      <3>1. PICK j \in 1..m : R[j] = lg[i]
        BY <1>3, <2>1 DEF Range
      <3>2. rows[j] = lg[i] /\ j \in DOMAIN rows
        <4>1. rows[j] = R[j]
          BY <1>10, <3>1
        <4>2. j \in 1..(m + n)
          BY <1>3, <1>8
        <4> QED
          BY <1>10, <3>1, <4>1, <4>2
      <3> QED
        BY <3>2 DEF Range
    <2>2. CASE R = <<>> \/ Behind(lg[i], R, created)
      <3>1. lg[i] \in Rows
        <4>1. i \in DOMAIN log[q.session]
          BY <1>4 DEF lg
        <4>2. RowOf(log, q.session, i) \in db.snaps
          BY <1>4, <4>1 DEF StoreInv, LogOK
        <4> QED
          BY <4>2 DEF Rows, RowOf, lg
      <3>2. lg[i] \in older
        BY <1>7, <2>2, <3>1 DEF Behind, m
      <3>3. PICK j \in 1..Len(all) : all[j] = lg[i]
        BY <1>2, <3>2
      <3>4. CASE j <= n
        <4>1. j \in 1..n
          BY <1>8, <3>4
        <4>2. rows[m + j] = lg[i] /\ m + j \in DOMAIN rows
          BY <1>8, <1>10, <3>3, <4>1
        <4> QED
          BY <4>2 DEF Range
      <3>5. CASE ~(j <= n) /\ n # 0
        <4>1. n < Len(all) /\ 1 <= n /\ n \in 1..n /\ n < j /\ n \in DOMAIN all /\ j \in DOMAIN all
          BY <1>2, <1>8, <3>5
        <4>2. created[all[n]] > created[all[j]]
          BY <1>2, <4>1 DEF InOrder
        <4>3. rows[Len(rows)] = all[n] /\ rows # <<>>
          <5>1. rows[m + n] = all[n] /\ Len(rows) = m + n
            BY <1>8, <1>10, <4>1
          <5>2. Len(rows) # 0
            BY <1>3, <1>8, <4>1, <5>1
          <5>3. rows # <<>>
            BY <5>2, EmptySeq
          <5> QED
            BY <5>1, <5>3
        <4>4. created[all[n]] \in Nat /\ created[all[j]] \in Nat
          BY <1>1, <1>8, <3>2, <3>3, <4>1
        <4>5. Behind(lg[i], rows, created)
          BY <3>3, <4>2, <4>3, <4>4 DEF Behind
        <4> QED
          BY <4>1, <4>5
      <3>6. CASE n = 0
        BY <1>2, <3>3, <3>6
      <3> QED
        BY <1>8, <3>4, <3>5, <3>6
    <2> QED
      BY <1>5, <2>1, <2>2
  <1> QED
    BY <1>8, <1>9, <1>10, <1>12, <1>14, <1>15 DEF Descending, lg

LEMMA PagesStep ==
  ASSUME StoreInv, AtInv, PagesInv, PageSteps
  PROVE  AtInv' /\ Keeps /\ PagesInv' /\ q.kind = "pages"
  <1>1. q.kind = "pages" /\ q.outcome = "none" /\ q.at \in {"page_session", "anchor", "page"}
    BY KindOf DEF PageSteps, PageSession, Anchor, Page, Select, AtInv
  <1>2. ASSUME AtInv', Keeps, q'.rows = q.rows, q'.outcome # "found" PROVE PagesInv'
    <2>1. /\ created' = created /\ log' = log /\ db' = db
      BY <1>2 DEF Keeps, storedVars, vars
    <2>2. Rows' = Rows
      BY <1>2, <2>1 DEF Rows, Keeps
    <2>3. Descending(q'.rows, created') /\ 1 <= q'.n /\ \A i \in DOMAIN q'.rows : q'.rows[i] \in Rows'
      BY <1>1, <1>2, <2>1, <2>2 DEF PagesInv, Keeps
    <2>4. \A i \in 1..q'.seenFrom :
            \/ log'[q'.session][i] \in Range(q'.rows)
            \/ q'.rows = <<>> /\ q'.outcome # "found"
            \/ Behind(log'[q'.session][i], q'.rows, created') /\ q'.outcome # "found"
      BY <1>1, <1>2, <2>1 DEF PagesInv, Keeps
    <2> QED
      BY <2>3, <2>4 DEF PagesInv
  <1>3. \A at \in {"page_session", "anchor", "page"} : at \in InPlaceOf(q.kind)
    BY <1>1 DEF InPlaceOf
  <1>4. "missing" \in Outcomes
    BY DEF Outcomes
  <1>5. CASE PageSession
    <2>1. PICK at \in {"page", "anchor"} :
            Select("page_session", To(at)) \/ Select("page_session", End("missing"))
      BY <1>5 DEF PageSession
    <2>2. CASE Select("page_session", To(at))
      <3>1. AtInv' /\ Keeps /\ q'.rows = q.rows /\ q'.outcome = "none"
        BY <1>3, <2>2, ToFacts
      <3> QED
        BY <1>1, <1>2, <3>1
    <2>3. CASE Select("page_session", End("missing"))
      <3>1. AtInv' /\ Keeps /\ q'.rows = q.rows /\ q'.outcome = "missing"
        BY <1>4, <2>3, EndFacts
      <3> QED
        BY <1>1, <1>2, <3>1
    <2> QED
      BY <2>1, <2>2, <2>3
  <1>6. CASE Anchor
    <2>1. Select("anchor", To("page")) \/ Select("anchor", End("missing"))
      BY <1>6 DEF Anchor
    <2>2. CASE Select("anchor", To("page"))
      <3>1. AtInv' /\ Keeps /\ q'.rows = q.rows /\ q'.outcome = "none"
        BY <1>3, <2>2, ToFacts
      <3> QED
        BY <1>1, <1>2, <3>1
    <2>3. CASE Select("anchor", End("missing"))
      <3>1. AtInv' /\ Keeps /\ q'.rows = q.rows /\ q'.outcome = "missing"
        BY <1>4, <2>3, EndFacts
      <3> QED
        BY <1>1, <1>2, <3>1
    <2> QED
      BY <2>1, <2>2, <2>3
  <1>7. CASE Page
    <2> DEFINE all  == NewestFirst(Older(Rows))
               n    == IF Len(all) < q.n THEN Len(all) ELSE q.n
               page == SubSeq(all, 1, n)
               rows == q.rows \o page
    <2>1. q.at = "page" /\ q.n \in Nat /\ 1 <= q.n /\ Len(all) \in Nat
      <3>1. NewestFirst(Older(Rows)) \in Seq(Older(Rows))
        BY OlderFacts, NewestFirstSorts
      <3>2. Len(all) \in Nat
        BY <3>1, LenProperties
      <3> QED
        BY <1>1, <1>7, <3>2 DEF Page, Select, PagesInv, AtInv, QueryTyped
    <2>2. Select("page", IF Len(page) < q.n THEN Found(rows)
                         ELSE [To("page_session") EXCEPT !.rows = @ \o page])
      BY <1>7 DEF Page
    <2> HIDE DEF all
    <2>4. n \in 0..Len(all) /\ (n < q.n => n = Len(all)) /\ (~(n < q.n) => n = q.n) /\ n \in Nat
      BY <2>1
    <2> HIDE DEF n
    <2>5. /\ page \in Seq(Calls) /\ Len(page) = n /\ rows \in Seq(Calls)
          /\ Descending(rows, created)
          /\ \A i \in DOMAIN rows : rows[i] \in Rows
          /\ \A i \in 1..q.seenFrom :
               \/ log[q.session][i] \in Range(rows)
               \/ n < Len(all) /\ 1 <= n /\ Behind(log[q.session][i], rows, created)
               \/ n = 0 /\ 0 < Len(all)
      <3>1. all = NewestFirst(Older(Rows))
        BY DEF all
      <3> DEFINE pg == page
                 rs == rows
      <3>2. pg = SubSeq(all, 1, n) /\ rs = q.rows \o pg
        OBVIOUS
      <3> HIDE DEF page, rows
      <3> QED
        BY <1>1, <2>1, <2>4, <3>1, <3>2, PageFollows
    <2> HIDE DEF rows
    <2>6. CASE n < q.n
      <3>1. Select("page", Found(rows))
        BY <2>2, <2>5, <2>6
      <3>2. AtInv' /\ Keeps /\ q'.at = "done" /\ q'.outcome = "found" /\ q'.rows = rows
        BY <2>5, <3>1, FoundFacts
      <3>3. \A i \in 1..q.seenFrom : log[q.session][i] \in Range(rows)
        BY <2>1, <2>4, <2>5, <2>6
      <3>4. PagesInv'
        BY <1>1, <2>1, <2>5, <3>2, <3>3 DEF PagesInv, Keeps, storedVars, vars, Rows
      <3> QED
        BY <1>1, <3>2, <3>4
    <2>7. CASE ~(n < q.n)
      <3>1. q' = [To("page_session") EXCEPT !.rows = @ \o page] /\ UNCHANGED storedVars
        BY <2>2, <2>5, <2>7 DEF Select
      <3>2. q' = [q EXCEPT !.at = "page_session", !.head = q.head, !.rows = rows]
        BY <3>1 DEF To, AtInv, QueryTyped, rows
      <3>3. q.head \in Calls \cup {None} /\ q.at # "idle"
        BY <2>1 DEF AtInv, QueryTyped
      <3>4. AtInv' /\ Keeps /\ q'.at = "page_session" /\ q'.outcome = "none" /\ q'.rows = rows
        <4>1. "page_session" \in InPlaceOf(q.kind) /\ rows \in Seq(Calls) /\ q.outcome = "none"
              /\ UNCHANGED storedVars
          BY <1>1, <1>3, <2>5, <3>1
        <4> QED
          BY <3>2, <3>3, <4>1, AtMoves
      <3>5. \A i \in 1..q.seenFrom :
              log[q.session][i] \in Range(rows) \/ Behind(log[q.session][i], rows, created)
        BY <2>1, <2>4, <2>5, <2>7
      <3>6. PagesInv'
        BY <1>1, <2>1, <2>5, <3>4, <3>5 DEF PagesInv, Keeps, storedVars, vars, Rows
      <3> QED
        BY <1>1, <3>4, <3>6
    <2> QED
      BY <2>6, <2>7
  <1> QED
    BY <1>5, <1>6, <1>7 DEF PageSteps

LEMMA AsksPages ==
  ASSUME StoreInv, AtInv, AskPages
  PROVE  AtInv' /\ PagesInv' /\ q'.kind = "pages"
  <1>1. PICK n \in PageSizes : Ask("pages", n, "page_session")
    BY DEF AskPages
  <1>2. n \in Nat /\ 1 <= n
    BY QueriesAssumption
  <1>3. AtInv'
    BY <1>1, <1>2, AtAsk DEF Kinds, InPlaceOf
  <1>4. q'.kind = "pages" /\ q'.n = n /\ q'.rows = <<>> /\ q'.outcome = "none"
    BY <1>1 DEF Ask, Select, NoQuery
  <1>5. DOMAIN <<>> = {}
    BY EmptySeq, LenProperties
  <1> QED
    BY <1>2, <1>3, <1>4, <1>5 DEF PagesInv, Descending

LEMMA OthersPages ==
  ASSUME q.kind # "pages", Keeps
  PROVE  PagesInv'
  BY DEF PagesInv, Keeps

-----------------------------------------------------------------------------
(* Names.                                                                  *)

LEMMA SomeFacts ==
  ASSUME NEW ids, IsFiniteSet(ids), NEW found \in Some(ids)
  PROVE  /\ found \subseteq ids /\ IsFiniteSet(found)
         /\ found = {} => ids = {}
         /\ Cardinality(found) = 1 => \E x : ids = {x} /\ found = {x}
         /\ found # {} /\ Cardinality(found) # 1 => 1 < Cardinality(ids)
  <1>1. /\ found \subseteq ids
        /\ Cardinality(found) = IF Cardinality(ids) < FindLimit THEN Cardinality(ids) ELSE FindLimit
    BY DEF Some
  <1>2. IsFiniteSet(found) /\ Cardinality(found) <= Cardinality(ids)
    BY <1>1, FS_Subset
  <1>3. Cardinality(found) \in Nat /\ Cardinality(ids) \in Nat
    BY <1>2, FS_CardinalityType
  <1>4. FindLimit \in Nat /\ FindLimit # 0 /\ FindLimit # 1
    BY QueriesAssumption
  <1>5. Cardinality(found) = 0 <=> found = {}
    BY <1>2, FS_EmptySet
  <1>6. Cardinality(ids) = 0 <=> ids = {}
    BY FS_EmptySet
  <1>7. ASSUME Cardinality(found) = 1 PROVE \E x : ids = {x} /\ found = {x}
    <2>1. Cardinality(ids) = 1
      BY <1>1, <1>3, <1>4, <1>7
    <2>2. PICK x : ids = {x}
      BY <2>1, FS_Singleton
    <2>3. found = {x}
      BY <1>1, <1>5, <1>7, <2>2
    <2> QED
      BY <2>2, <2>3
  <1>8. found # {} /\ Cardinality(found) # 1 => 1 < Cardinality(ids)
    BY <1>2, <1>3, <1>5
  <1>9. found = {} => ids = {}
    BY <1>1, <1>3, <1>4, <1>5, <1>6
  <1> QED
    BY <1>1, <1>2, <1>7, <1>8, <1>9

LEMMA OneRow ==
  ASSUME NEW x
  PROVE  SetToSeq({x}) = <<x>>
  <1>1. Cardinality({x}) = 1
    BY FS_Singleton
  <1>2. \A f \in [1..1 -> {x}] : f = <<x>>
    <2> SUFFICES ASSUME NEW f \in [1..1 -> {x}] PROVE f = <<x>>
      OBVIOUS
    <2>1. f \in Seq({x}) /\ Len(f) = 1
      <3>1. f \in Seq({x})
        BY SeqDef
      <3> QED
        BY <3>1, LenProperties
    <2>2. f[1] = x
      OBVIOUS
    <2> QED
      BY <2>1, <2>2
  <1>3. <<x>> \in [1..1 -> {x}] /\ IsInjective(<<x>>)
    BY DEF IsInjective
  <1> QED
    BY <1>1, <1>2, <1>3 DEF SetToSeq

(* What was in scope when the query began stays what it was.               *)
LEMMA NameCommit ==
  ASSUME StoreInv, AtInv, NameInv, NEW id, NEW s, NEW t, Commits(id, s, t)
  PROVE  NameInv'
  <1>1. q' = q
    BY DEF Commits
  <1> SUFFICES ASSUME q.kind = "name", q.at # "idle" PROVE NameInv'
    BY <1>1 DEF NameInv
  <1> DEFINE ids == {r.id : r \in db.snaps}
  <1>2. q.begun \subseteq ids /\ ids \subseteq Calls /\ id \notin ids
    BY StoredIds DEF NameInv, Commits, HasSnapshot
  <1>3. InScope \subseteq ids /\ InScope' \subseteq InScope \cup {id} /\ InScope \subseteq InScope'
    BY <1>1 DEF InScope, Commits, NewRow
  <1>4. Old' = Old
    BY <1>1, <1>2, <1>3 DEF Old
  <1>5. \A x \in ids : label'[x] = label[x] /\ begins'[x] = begins[x]
    BY <1>2 DEF Commits
  <1> HIDE DEF ids
  <1>6. Old \subseteq ids /\ Old \subseteq InScope
    BY <1>3 DEF Old
  <1>7. (Prefixed(Old))' = Prefixed(Old) /\ (Labelled(Old))' = Labelled(Old)
    BY <1>1, <1>4, <1>5, <1>6 DEF Prefixed, Labelled
  <1>8. Prefixed(InScope) \subseteq (Prefixed(InScope))'
        /\ Labelled(InScope) \subseteq (Labelled(InScope))'
    BY <1>1, <1>3, <1>5 DEF Prefixed, Labelled
  <1>9. IsFiniteSet((Prefixed(InScope))') /\ IsFiniteSet((Labelled(InScope))')
    <2>1. IsFiniteSet(InScope \cup {id})
      BY StoredIds, FS_AddElement
    <2>2. IsFiniteSet(InScope')
      BY <1>3, <2>1, FS_Subset
    <2>3. (Prefixed(InScope))' \subseteq InScope' /\ (Labelled(InScope))' \subseteq InScope'
      BY DEF Prefixed, Labelled
    <2> QED
      BY <2>2, <2>3, FS_Subset
  <1>10. \A T : IsFiniteSet(T) => \A S : S \subseteq T /\ 1 < Cardinality(S) => 1 < Cardinality(T)
    <2> SUFFICES ASSUME NEW T, IsFiniteSet(T), NEW S, S \subseteq T, 1 < Cardinality(S)
                 PROVE  1 < Cardinality(T)
      OBVIOUS
    <2>1. IsFiniteSet(S) /\ Cardinality(S) <= Cardinality(T)
      BY FS_Subset
    <2>2. Cardinality(S) \in Nat /\ Cardinality(T) \in Nat
      BY <2>1, FS_CardinalityType
    <2> QED
      BY <2>1, <2>2
  <1>11. NameCorrect
    BY DEF NameInv
  <1>12. q.outcome = "found" =>
           \E x \in InScope' :
             /\ q.rows = <<x>>
             /\ \/ x \in (Prefixed(InScope))' /\ Prefixed(Old) \subseteq {x}
                \/ /\ x \in (Labelled(InScope))' /\ q.session # None
                   /\ (IF Prefixed(Old) # {} THEN Prefixed(Old) ELSE Labelled(Old)) \subseteq {x}
    BY <1>3, <1>8, <1>11 DEF NameCorrect, Old
  <1>13. q.outcome = "ambiguous" =>
           1 < Cardinality((Prefixed(InScope))') \/ 1 < Cardinality((Labelled(InScope))')
    BY <1>8, <1>9, <1>10, <1>11 DEF NameCorrect
  <1>14. q.outcome = "missing" =>
           Prefixed(Old) = {} /\ (q.session # None => Labelled(Old) = {})
    BY <1>11 DEF NameCorrect, Old
  <1>15. NameCorrect'
    BY <1>1, <1>7, <1>12, <1>13, <1>14 DEF NameCorrect, Old
  <1>16. q'.begun \subseteq {r.id : r \in db'.snaps}
    BY <1>1, <1>2 DEF Commits, ids
  <1> QED
    BY <1>1, <1>7, <1>15, <1>16 DEF NameInv

LEMMA AsksName ==
  ASSUME StoreInv, AtInv, AskName
  PROVE  AtInv' /\ NameInv' /\ q'.kind = "name"
  <1>1. /\ AtInv' /\ UNCHANGED storedVars /\ q'.kind = "name"
        /\ q'.begun = {r.id : r \in db.snaps}
        /\ q'.at = "label" => q'.session # None /\ q'.name \notin UuidLike
        /\ q'.outcome \in {"none", "missing"}
        /\ q'.outcome = "missing" => q'.session = None /\ q'.name \notin UuidLike
    BY AtAskName
  <1>2. db' = db /\ begins' = begins /\ label' = label
    BY <1>1 DEF storedVars, vars
  <1>3. begins \in [Calls -> SUBSET UuidLike] /\ {r.id : r \in db.snaps} \subseteq Calls
    BY StoredIds DEF StoreInv, ColumnsOK
  <1>4. Old' \subseteq Calls
    BY <1>1, <1>3 DEF Old
  <1>5. q'.name \notin UuidLike => (Prefixed(Old))' = {}
    BY <1>2, <1>3, <1>4 DEF Prefixed
  <1>6. NameCorrect'
    BY <1>1, <1>5 DEF NameCorrect, Old
  <1> QED
    BY <1>1, <1>2, <1>5, <1>6 DEF NameInv

(* What a step that only changes place, rows and outcome has to show.      *)
LEMMA NameKept ==
  ASSUME StoreInv, NameInv, q.kind = "name", q.at # "idle", Keeps,
         q'.at = "label" => q.session # None /\ Prefixed(Old) = {},
         q'.outcome = "found" =>
           \E x \in InScope :
             /\ q'.rows = <<x>>
             /\ \/ x \in Prefixed(InScope) /\ Prefixed(Old) \subseteq {x}
                \/ /\ x \in Labelled(InScope) /\ q.session # None
                   /\ Prefixed(Old) = {} /\ Labelled(Old) \subseteq {x},
         q'.outcome = "ambiguous" =>
           1 < Cardinality(Prefixed(InScope)) \/ 1 < Cardinality(Labelled(InScope)),
         q'.outcome = "missing" =>
           Prefixed(Old) = {} /\ (q.session # None => Labelled(Old) = {})
  PROVE  NameInv'
  <1>1. db' = db /\ begins' = begins /\ label' = label
    BY DEF Keeps, storedVars, vars
  <1>2. InScope' = InScope /\ Old' = Old
    BY <1>1 DEF InScope, Old, Keeps
  <1>3. /\ (Prefixed(Old))' = Prefixed(Old) /\ (Labelled(Old))' = Labelled(Old)
        /\ (Prefixed(InScope))' = Prefixed(InScope) /\ (Labelled(InScope))' = Labelled(InScope)
    BY <1>1, <1>2 DEF Prefixed, Labelled, Keeps
  <1>4. NameCorrect'
    BY <1>2, <1>3 DEF NameCorrect, Old, Keeps
  <1>5. q'.begun \subseteq {r.id : r \in db'.snaps}
    BY <1>1 DEF NameInv, Keeps
  <1> QED
    BY <1>3, <1>4, <1>5 DEF NameInv, Keeps

LEMMA NameFacts ==
  ASSUME StoreInv
  PROVE  /\ Prefixed(Old) \subseteq Prefixed(InScope) /\ Labelled(Old) \subseteq Labelled(InScope)
         /\ IsFiniteSet(Prefixed(InScope)) /\ IsFiniteSet(Labelled(InScope))
         /\ Prefixed(InScope) \subseteq InScope /\ Labelled(InScope) \subseteq InScope
         /\ InScope \subseteq Calls
  <1>1. Prefixed(InScope) \subseteq InScope /\ Labelled(InScope) \subseteq InScope
    BY DEF Prefixed, Labelled
  <1>2. Prefixed(Old) \subseteq Prefixed(InScope) /\ Labelled(Old) \subseteq Labelled(InScope)
    BY DEF Prefixed, Labelled, Old
  <1> QED
    BY <1>1, <1>2, StoredIds, FS_Subset

LEMMA PrefixStep ==
  ASSUME StoreInv, AtInv, NameInv, FindByIdPrefix
  PROVE  AtInv' /\ Keeps /\ NameInv' /\ q.kind = "name"
  <1>1. q.kind = "name" /\ q.at = "prefix" /\ q.outcome = "none" /\ q.at # "idle"
    BY KindOf DEF FindByIdPrefix, Select, AtInv
  <1>2. PICK found \in Some(Prefixed(InScope)) :
          Select("prefix",
                 Matched(found, IF q.session = None THEN End("missing") ELSE To("label")))
    BY DEF FindByIdPrefix
  <1>3. /\ found = {} => Prefixed(InScope) = {}
        /\ Cardinality(found) = 1 => \E x : Prefixed(InScope) = {x} /\ found = {x}
        /\ found # {} /\ Cardinality(found) # 1 => 1 < Cardinality(Prefixed(InScope))
    BY NameFacts, SomeFacts
  <1>4. {"missing", "ambiguous"} \subseteq Outcomes /\ "label" \in InPlaceOf(q.kind)
    BY <1>1 DEF Outcomes, InPlaceOf
  <1>5. CASE found = {} /\ q.session = None
    <2>1. Select("prefix", End("missing"))
      BY <1>2, <1>5 DEF Matched
    <2>2. AtInv' /\ Keeps /\ q'.at = "done" /\ q'.outcome = "missing"
      BY <1>4, <2>1, EndFacts
    <2>3. Prefixed(Old) = {}
      BY <1>3, <1>5, NameFacts
    <2> QED
      BY <1>1, <1>5, <2>2, <2>3, NameKept
  <1>6. CASE found = {} /\ q.session # None
    <2>1. Select("prefix", To("label"))
      BY <1>2, <1>6 DEF Matched
    <2>2. AtInv' /\ Keeps /\ q'.at = "label" /\ q'.outcome = "none"
      BY <1>4, <2>1, ToFacts
    <2>3. Prefixed(Old) = {}
      BY <1>3, <1>6, NameFacts
    <2> QED
      BY <1>1, <1>6, <2>2, <2>3, NameKept
  <1>7. CASE found # {} /\ Cardinality(found) = 1
    <2>1. PICK x : Prefixed(InScope) = {x} /\ found = {x}
      BY <1>3, <1>7
    <2>2. x \in InScope /\ x \in Calls
      BY <2>1, NameFacts
    <2>3. Select("prefix", Found(<<x>>)) /\ <<x>> \in Seq(Calls)
      BY <1>2, <1>7, <2>1, <2>2, OneRow DEF Matched
    <2>4. AtInv' /\ Keeps /\ q'.at = "done" /\ q'.outcome = "found" /\ q'.rows = <<x>>
      BY <2>3, FoundFacts
    <2>5. x \in Prefixed(InScope) /\ Prefixed(Old) \subseteq {x}
      BY <2>1, NameFacts
    <2> QED
      BY <1>1, <2>2, <2>4, <2>5, NameKept
  <1>8. CASE found # {} /\ Cardinality(found) # 1
    <2>1. Select("prefix", End("ambiguous"))
      BY <1>2, <1>8 DEF Matched
    <2>2. AtInv' /\ Keeps /\ q'.at = "done" /\ q'.outcome = "ambiguous"
      BY <1>4, <2>1, EndFacts
    <2> QED
      BY <1>1, <1>3, <1>8, <2>2, NameKept
  <1> QED
    BY <1>5, <1>6, <1>7, <1>8

LEMMA LabelStep ==
  ASSUME StoreInv, AtInv, NameInv, FindByLabel
  PROVE  AtInv' /\ Keeps /\ NameInv' /\ q.kind = "name"
  <1>1. q.kind = "name" /\ q.at = "label" /\ q.outcome = "none" /\ q.at # "idle"
    BY KindOf DEF FindByLabel, Select, AtInv
  <1>2. PICK found \in Some(Labelled(InScope)) : Select("label", Matched(found, End("missing")))
    BY DEF FindByLabel
  <1>3. /\ found = {} => Labelled(InScope) = {}
        /\ Cardinality(found) = 1 => \E x : Labelled(InScope) = {x} /\ found = {x}
        /\ found # {} /\ Cardinality(found) # 1 => 1 < Cardinality(Labelled(InScope))
    BY NameFacts, SomeFacts
  <1>4. {"missing", "ambiguous"} \subseteq Outcomes
    BY DEF Outcomes
  <1>5. q.session # None /\ Prefixed(Old) = {}
    BY <1>1 DEF NameInv
  <1>6. CASE found = {}
    <2>1. Select("label", End("missing"))
      BY <1>2, <1>6 DEF Matched
    <2>2. AtInv' /\ Keeps /\ q'.at = "done" /\ q'.outcome = "missing"
      BY <1>4, <2>1, EndFacts
    <2>3. Labelled(Old) = {}
      BY <1>3, <1>6, NameFacts
    <2> QED
      BY <1>1, <1>5, <2>2, <2>3, NameKept
  <1>7. CASE found # {} /\ Cardinality(found) = 1
    <2>1. PICK x : Labelled(InScope) = {x} /\ found = {x}
      BY <1>3, <1>7
    <2>2. x \in InScope /\ x \in Calls
      BY <2>1, NameFacts
    <2>3. Select("label", Found(<<x>>)) /\ <<x>> \in Seq(Calls)
      <3>1. SetToSeq(found) = <<x>>
        BY <2>1, OneRow
      <3>2. Matched(found, End("missing")) = Found(<<x>>)
        BY <1>7, <3>1 DEF Matched
      <3>3. Select("label", Found(<<x>>))
        BY <1>2, <3>2
      <3>4. <<x>> \in Seq(Calls)
        BY <2>2
      <3> QED
        BY <3>3, <3>4
    <2>4. AtInv' /\ Keeps /\ q'.at = "done" /\ q'.outcome = "found" /\ q'.rows = <<x>>
      BY <2>3, FoundFacts
    <2>5. x \in Labelled(InScope) /\ Labelled(Old) \subseteq {x}
      BY <2>1, NameFacts
    <2> QED
      BY <1>1, <1>5, <2>2, <2>4, <2>5, NameKept
  <1>8. CASE found # {} /\ Cardinality(found) # 1
    <2>1. Select("label", End("ambiguous"))
      BY <1>2, <1>8 DEF Matched
    <2>2. AtInv' /\ Keeps /\ q'.at = "done" /\ q'.outcome = "ambiguous"
      BY <1>4, <2>1, EndFacts
    <2> QED
      BY <1>1, <1>3, <1>8, <2>2, NameKept
  <1> QED
    BY <1>6, <1>7, <1>8

LEMMA OthersName ==
  ASSUME q.kind # "name", Keeps
  PROVE  NameInv'
  BY DEF NameInv, Keeps

-----------------------------------------------------------------------------
(* All of it.                                                              *)

LEMMA QueryStart == QueryInit => QueryInv
  <1> SUFFICES ASSUME QueryInit PROVE QueryInv
    OBVIOUS
  <1>1. StoreInv
    BY StoreInit
  <1>2. q = NoQuery /\ <<>> \in Seq(Calls)
    BY EmptySeq DEF QueryInit
  <1>3. AtInv
    BY <1>2 DEF AtInv, QueryTyped, NoQuery, Kinds, Outcomes
  <1>4. WalkInv /\ PagesInv /\ NameInv
    BY <1>2 DEF WalkInv, PagesInv, NameInv, NoQuery
  <1> QED
    BY <1>1, <1>3, <1>4 DEF QueryInv

LEMMA QueryAsks ==
  ASSUME QueryInv, Asks
  PROVE  AtInv' /\ WalkInv' /\ PagesInv' /\ NameInv'
  <1>1. StoreInv /\ AtInv
    BY DEF QueryInv
  <1>2. CASE AskTilde \/ AskHistory
    BY <1>1, <1>2, AsksWalk DEF PagesInv, NameInv
  <1>3. CASE AskPages
    BY <1>1, <1>3, AsksPages DEF WalkInv, NameInv
  <1>4. CASE AskName
    BY <1>1, <1>4, AsksName DEF WalkInv, PagesInv
  <1> QED
    BY <1>2, <1>3, <1>4 DEF Asks

LEMMA QuerySteps ==
  ASSUME QueryInv, Walks \/ PageSteps \/ NameSteps
  PROVE  AtInv' /\ WalkInv' /\ PagesInv' /\ NameInv'
  <1>1. StoreInv /\ AtInv /\ WalkInv /\ PagesInv /\ NameInv
    BY DEF QueryInv
  <1>2. CASE Walks
    <2>1. AtInv' /\ Keeps /\ WalkInv'
      BY <1>1, <1>2, GetSessionWalks, ReadSnapshotWalks, HistorySessionWalks, ConfirmStartWalks,
         WalkParentsWalks DEF Walks
    <2>2. q.kind \in {"tilde", "history"}
      BY <1>1, <1>2, KindOf
         DEF Walks, GetSession, ReadSnapshot, HistorySession, ConfirmStart, WalkParents, Select
    <2> QED
      BY <2>1, <2>2, OthersPages, OthersName
  <1>3. CASE PageSteps
    <2>1. AtInv' /\ Keeps /\ PagesInv' /\ q.kind = "pages"
      BY <1>1, <1>3, PagesStep
    <2> QED
      BY <1>1, <2>1, OthersWalk, OthersName
  <1>4. CASE NameSteps
    <2>1. AtInv' /\ Keeps /\ NameInv' /\ q.kind = "name"
      BY <1>1, <1>4, PrefixStep, LabelStep DEF NameSteps
    <2> QED
      BY <1>1, <2>1, OthersWalk, OthersPages
  <1> QED
    BY <1>2, <1>3, <1>4

LEMMA QueryAnswers ==
  ASSUME QueryInv, Answer
  PROVE  AtInv' /\ WalkInv' /\ PagesInv' /\ NameInv'
  <1>1. q' = NoQuery /\ <<>> \in Seq(Calls)
    BY EmptySeq DEF Answer
  <1>2. AtInv'
    BY <1>1 DEF AtInv, QueryTyped, NoQuery, Kinds, Outcomes
  <1> QED
    BY <1>1, <1>2 DEF WalkInv, PagesInv, NameInv, NoQuery

LEMMA QueryStutter ==
  ASSUME QueryInv, UNCHANGED queryVars
  PROVE  QueryInv'
  <1>1. /\ db' = db /\ created' = created /\ label' = label /\ begins' = begins /\ log' = log
        /\ q' = q
    BY DEF queryVars, storedVars, vars
  <1>2. Rows' = Rows /\ InScope' = InScope /\ Old' = Old
    BY <1>1 DEF Rows, InScope, Old
  <1>3. /\ (Prefixed(Old))' = Prefixed(Old) /\ (Labelled(Old))' = Labelled(Old)
        /\ (Prefixed(InScope))' = Prefixed(InScope) /\ (Labelled(InScope))' = Labelled(InScope)
    BY <1>1, <1>2 DEF Prefixed, Labelled
  <1>4. StoreInv'
    BY StoreNext DEF QueryInv
  <1>5. AtInv' /\ WalkInv'
    BY <1>1 DEF QueryInv, AtInv, QueryTyped, WalkInv
  <1>6. PagesInv'
    BY <1>1, <1>2 DEF QueryInv, PagesInv
  <1>7. NameInv'
    BY <1>1, <1>2, <1>3 DEF QueryInv, NameInv, NameCorrect, Old
  <1> QED
    BY <1>4, <1>5, <1>6, <1>7 DEF QueryInv

LEMMA QueryStep ==
  ASSUME QueryInv, [QueryNext]_queryVars
  PROVE  QueryInv'
  <1>1. StoreInv'
    BY StoreNext DEF QueryInv
  <1>2. ASSUME NEW id \in Calls, CommitSnapshot(id) PROVE QueryInv'
    <2>1. PICK s \in InitialSessions, t \in Nat : Commits(id, s, t)
      BY <1>2, CommitFacts DEF QueryInv
    <2> QED
      BY <1>1, <2>1, AtCommit, WalkCommit, PagesCommit, NameCommit DEF QueryInv
  <1>3. CASE Asks
    BY <1>1, <1>3, QueryAsks DEF QueryInv
  <1>4. CASE Walks \/ PageSteps \/ NameSteps
    BY <1>1, <1>4, QuerySteps DEF QueryInv
  <1>5. CASE Answer
    BY <1>1, <1>5, QueryAnswers DEF QueryInv
  <1>6. CASE UNCHANGED queryVars
    BY <1>6, QueryStutter
  <1> QED
    BY <1>2, <1>3, <1>4, <1>5, <1>6 DEF QueryNext, Asks, Walks, PageSteps, NameSteps

THEOREM QueriesHold == QuerySpec => []QueryInv
  BY QueryStart, QueryStep, PTL DEF QuerySpec

LEMMA NewestOf ==
  ASSUME NEW lg \in Seq(Calls), NEW n \in 0..Len(lg), NEW i \in 1..n
  PROVE  /\ Reverse(SubSeq(lg, 1, n))[i] = lg[n - i + 1]
         /\ DOMAIN Reverse(SubSeq(lg, 1, n)) = 1..n
  <1> DEFINE sub == SubSeq(lg, 1, n)
             j   == n - i + 1
  <1>1. Len(lg) \in Nat /\ n \in Nat /\ i \in Nat
    BY LenProperties
  <1>2. 1 <= n /\ n <= Len(lg) /\ j \in 1..n
    BY <1>1
  <1>3. Len(sub) = n /\ sub[j] = lg[j]
    <2>1. n - 1 + 1 = n /\ 1 + j - 1 = j
      BY <1>1, <1>2
    <2> QED
      BY <1>1, <1>2, <2>1, SubSeqProperties
  <1> HIDE DEF sub
  <1>4. Reverse(sub) = [k \in 1..n |-> sub[(n - k) + 1]]
    BY <1>3 DEF Reverse
  <1>5. Reverse(sub)[i] = sub[j] /\ DOMAIN Reverse(sub) = 1..n
    BY <1>4
  <1> QED
    BY <1>3, <1>5 DEF sub

(* head~N of a session is the snapshot N commits before a head the session *)
(* had while the ref was resolved, for every schedule of commits between   *)
(* the statements of _resolve_head and history() (refs.py, client.py).     *)
THEOREM TildeNames == QuerySpec => []TildeCorrect
  <1>1. QueryInv => TildeCorrect
    <2> SUFFICES ASSUME QueryInv, q.kind = "tilde", q.outcome \in {"found", "missing"}
                 PROVE  TildeCorrect
      BY DEF TildeCorrect, Answered
    <2>1. q.at # "idle" /\ q.session \in InitialSessions /\ q.n \in Nat /\ q.seenFrom \in Nat
      BY DEF QueryInv, AtInv, QueryTyped
    <2> DEFINE lg == log[q.session]
    <2>2. TildeKnown(q, lg)
      BY <2>1 DEF QueryInv, WalkInv
    <2>3. lg \in Seq(Calls) /\ Len(lg) \in Nat
      <3>1. StoreInv /\ q.session \in Sessions
        BY <2>1, DatabaseAssumption DEF QueryInv, Sessions
      <3> QED
        BY <3>1, HeadsKnown
    <2> HIDE DEF lg
    <2>4. ASSUME q.outcome = "found"
          PROVE  \E n \in q.seenFrom..Len(lg) :
                   q.n < n /\ q.rows = <<Reverse(SubSeq(lg, 1, n))[q.n + 1]>>
      <3>1. PICK k \in q.seenFrom..Len(lg) : q.n < k /\ q.rows = <<lg[k - q.n]>>
        BY <2>2, <2>4 DEF TildeKnown
      <3> DEFINE i == q.n + 1
      <3>2. k \in 0..Len(lg) /\ i \in 1..k /\ k - i + 1 = k - q.n
        BY <2>1, <2>3, <3>1
      <3> HIDE DEF i
      <3>3. Reverse(SubSeq(lg, 1, k))[i] = lg[k - q.n]
        BY <2>3, <3>2, NewestOf
      <3> QED
        BY <3>1, <3>3 DEF i
    <2>5. ASSUME q.outcome = "missing" PROVE \E n \in q.seenFrom..Len(lg) : n <= q.n
      BY <2>2, <2>5 DEF TildeKnown
    <2> QED
      BY <2>4, <2>5 DEF TildeCorrect, Answered, Since, UpTo, lg
  <1> QED
    BY <1>1, QueriesHold, PTL

(* history() (client.py, get_snapshot_chain in storage/sqlite.py) returns  *)
(* the whole chain of a head the session had meanwhile, in commit order,   *)
(* and is refused only when that chain is longer than its cap allows.      *)
THEOREM HistoryIsWhole == QuerySpec => []HistoryCorrect
  <1>1. QueryInv => HistoryCorrect
    <2> SUFFICES ASSUME QueryInv, q.kind = "history", q.outcome \in {"found", "too_deep"}
                 PROVE  HistoryCorrect
      BY DEF HistoryCorrect, Answered
    <2>1. /\ q.at # "idle" /\ q.session \in InitialSessions /\ q.seenFrom \in Nat
          /\ q.rows \in Seq(Calls)
      BY DEF QueryInv, AtInv, QueryTyped
    <2> DEFINE lg == log[q.session]
    <2>2. HistoryKnown(q, lg)
      BY <2>1 DEF QueryInv, WalkInv
    <2>3. lg \in Seq(Calls) /\ Len(lg) \in Nat
      <3>1. StoreInv /\ q.session \in Sessions
        BY <2>1, DatabaseAssumption DEF QueryInv, Sessions
      <3> QED
        BY <3>1, HeadsKnown
    <2> HIDE DEF lg
    <2>4. ASSUME q.outcome = "found"
          PROVE  \E n \in q.seenFrom..Len(lg) : q.rows = Reverse(SubSeq(lg, 1, n))
      <3>1. PICK k \in q.seenFrom..Len(lg) : NewestTo(q.rows, lg, k)
        BY <2>2, <2>4 DEF HistoryKnown
      <3> DEFINE up == Reverse(SubSeq(lg, 1, k))
      <3>2. k \in 0..Len(lg)
        BY <2>1, <2>3, <3>1
      <3>3. Len(SubSeq(lg, 1, k)) = k
        BY <2>3, <3>2, SubSeqProperties
      <3>4. up = [i \in 1..k |-> SubSeq(lg, 1, k)[(k - i) + 1]]
        BY <3>3 DEF Reverse
      <3>5. DOMAIN q.rows = 1..k /\ q.rows = [i \in 1..k |-> q.rows[i]]
        BY <2>1, <3>1, LenProperties DEF NewestTo
      <3>6. ASSUME NEW i \in 1..k PROVE up[i] = q.rows[i]
        <4>1. up[i] = lg[k - i + 1]
          BY <2>3, <3>2, NewestOf
        <4>2. k - i + 1 = k + 1 - i
          BY <3>2
        <4> QED
          BY <3>1, <4>1, <4>2 DEF NewestTo
      <3> HIDE DEF up
      <3>7. DOMAIN up = 1..k /\ up = [i \in 1..k |-> up[i]]
        BY <3>4
      <3>8. up = q.rows
        BY <3>5, <3>6, <3>7
      <3> QED
        BY <3>1, <3>8 DEF up
    <2>5. q.outcome = "too_deep" => Len(lg) > q.n + 1
      BY <2>2 DEF HistoryKnown
    <2> QED
      BY <2>4, <2>5 DEF HistoryCorrect, Answered, Since, UpTo, lg
  <1> QED
    BY <1>1, QueriesHold, PTL

(* Paging list_snapshots(before_id) to the end (storage/sqlite.py) gives   *)
(* every snapshot stored when the listing began, once, newest first,       *)
(* whatever is committed between two pages and whatever its created_at.    *)
THEOREM PagesListAll == QuerySpec => []PagesComplete
  <1>1. QueryInv => PagesComplete
    <2> SUFFICES ASSUME QueryInv, q.kind = "pages", q.outcome = "found" PROVE PagesComplete
      BY DEF PagesComplete, Answered
    <2>1. /\ q.at # "idle" /\ q.session \in InitialSessions /\ q.seenFrom \in Nat
          /\ q.seenFrom <= Len(log[q.session])
      BY DEF QueryInv, AtInv, QueryTyped
    <2>2. /\ Descending(q.rows, created)
          /\ \A i \in 1..q.seenFrom : log[q.session][i] \in Range(q.rows)
      BY <2>1 DEF QueryInv, PagesInv
    <2> DEFINE lg == log[q.session]
               n  == q.seenFrom
    <2>3. lg \in Seq(Calls) /\ Len(lg) \in Nat
      <3>1. StoreInv /\ q.session \in Sessions
        BY <2>1, DatabaseAssumption DEF QueryInv, Sessions
      <3> QED
        BY <3>1, HeadsKnown
    <2>4. \A i \in 1..n : lg[i] \in Range(q.rows)
      BY <2>2
    <2>5. n \in Nat /\ n <= Len(lg)
      BY <2>1
    <2> HIDE DEF lg, n
    <2>6. ASSUME NEW i \in DOMAIN SubSeq(lg, 1, n) PROVE SubSeq(lg, 1, n)[i] \in Range(q.rows)
      <3>1. Len(SubSeq(lg, 1, n)) = n
        BY <2>3, <2>5, SubSeqProperties
      <3>2. SubSeq(lg, 1, n) \in Seq(Calls)
        BY <2>3, <2>5, SubSeqProperties
      <3>3. i \in 1..n
        BY <2>6, <3>1, <3>2, LenProperties
      <3>4. SubSeq(lg, 1, n)[i] = lg[i]
        <4>1. 1 + i - 1 = i /\ n - 1 + 1 = n
          BY <2>5, <3>3
        <4> QED
          BY <2>3, <2>5, <3>3, <4>1, SubSeqProperties
      <3> QED
        BY <2>4, <3>3, <3>4
    <2>7. Range(SubSeq(lg, 1, n)) \subseteq Range(q.rows)
      <3> SUFFICES ASSUME NEW x \in Range(SubSeq(lg, 1, n)) PROVE x \in Range(q.rows)
        OBVIOUS
      <3>1. PICK i \in DOMAIN SubSeq(lg, 1, n) : SubSeq(lg, 1, n)[i] = x
        BY DEF Range
      <3> QED
        BY <2>6, <3>1
    <2> QED
      BY <2>2, <2>7 DEF PagesComplete, Descending, lg, n
  <1> QED
    BY <1>1, QueriesHold, PTL

(* A ref that is a name resolves, through find_snapshots_by_id_prefix and  *)
(* then find_snapshots_by_label (refs.py, storage/sqlite.py), to the only  *)
(* snapshot that bore it, an id before a label; it is called ambiguous     *)
(* only when two bear it and missing only when none did.                   *)
THEOREM NamesDenote == QuerySpec => []NameCorrect
  <1>1. QueryInv => NameCorrect
    <2>1. CASE q.at # "idle" /\ q.kind = "name"
      BY <2>1 DEF QueryInv, NameInv
    <2>2. ASSUME QueryInv, q.at = "idle" PROVE q.outcome = "none"
      BY <2>2 DEF QueryInv, AtInv
    <2> QED
      BY <2>1, <2>2 DEF NameCorrect
  <1> QED
    BY <1>1, QueriesHold, PTL
=============================================================================
