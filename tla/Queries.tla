------------------------------- MODULE Queries -------------------------------
(***************************************************************************)
(* The queries of the command line and of any other process that opens the *)
(* file while an application writes it: the snapshot refs (refs.py),       *)
(* history and the pages of list_snapshots (client.py, storage/sqlite.py). *)
(* Each SELECT is a read transaction of its own and sees the last          *)
(* committed state, the abstract store's db; commits of the application    *)
(* happen between any two.                                                 *)
(***************************************************************************)
EXTENDS SnapshotStore, SequencesExt

CONSTANTS
  Times,      \* the values of created_at; no two snapshots get the same one
  Distances,  \* N of head~N
  Depths,     \* the max_depth of history()
  PageSizes,  \* the limit of list_snapshots()
  Names,      \* texts used as labels and as refs, not of the form head~N
  UuidLike,   \* those of eight or more hex digits, possible id prefixes
  FindLimit   \* the limit of the find_ queries

ASSUME QueriesAssumption ==
  /\ Times \subseteq Nat
  /\ Distances \subseteq Nat
  /\ Depths \subseteq Nat \ {0}
  /\ PageSizes \subseteq Nat \ {0}
  /\ UuidLike \subseteq Names
  /\ None \notin Names
  /\ FindLimit \in Nat \ {0, 1}

VARIABLES
  created,  \* created_at of each snapshot, 0 before it is taken
  label,    \* label of each snapshot
  begins,   \* the names the id of each snapshot begins with
  log,      \* the snapshots of each session in commit order
  q         \* the query being answered

storedVars == <<vars, created, label, begins, log>>
queryVars  == <<storedVars, q>>

Kinds    == {"tilde", "history", "pages", "name"}
Outcomes == {"none", "found", "missing", "too_deep", "ambiguous"}

NoQuery == [at |-> "idle", kind |-> "tilde", session |-> None, n |-> 0, head |-> None,
            rows |-> <<>>, outcome |-> "none", seenFrom |-> 0, name |-> None, begun |-> {}]

QueryInit ==
  /\ Init
  /\ created = [id \in Calls |-> 0]
  /\ label = [id \in Calls |-> None]
  /\ begins = [id \in Calls |-> {}]
  /\ log = [s \in Sessions |-> <<>>]
  /\ q = NoQuery

-----------------------------------------------------------------------------
(* The application commits a snapshot.  created_at is the wall clock, read *)
(* before the transaction: it may jump, back as well.  The id is random,   *)
(* the label the caller's: neither is unique as a name.                    *)
CommitSnapshot(id) ==
  /\ TakeSnapshot(id)
  /\ \E t \in Times \ Range(created), s \in Sessions,
        l \in Names \cup {None}, b \in SUBSET UuidLike :
       /\ db'.heads[s] = id
       /\ created' = [created EXCEPT ![id] = t]
       /\ label' = [label EXCEPT ![id] = l]
       /\ begins' = [begins EXCEPT ![id] = b]
       /\ log' = [log EXCEPT ![s] = Append(@, id)]
  /\ UNCHANGED q

-----------------------------------------------------------------------------
(* Statements of a query.                                                  *)

Select(at, rec) ==
  /\ q.at = at
  /\ q' = rec
  /\ UNCHANGED storedVars

Ask(kind, n, at) ==
  \E s \in InitialSessions :
    Select("idle", [NoQuery EXCEPT !.at = at, !.kind = kind, !.n = n, !.session = s,
                      !.seenFrom = Len(log[s])])

AskTilde   == \E n \in Distances : Ask("tilde", n, "get_session")
AskHistory == \E n \in Depths    : Ask("history", n, "history_session")
AskPages   == \E n \in PageSizes : Ask("pages", n, "page_session")

(* resolve_snapshot of a ref that is not a head, with or without --session.*)
(* What cannot be the prefix of an id is not looked up as one.             *)
AskName ==
  \E name \in Names, s \in InitialSessions \cup {None} :
    LET new == [NoQuery EXCEPT !.kind = "name", !.name = name, !.session = s,
                               !.begun = {r.id : r \in db.snaps}]
    IN  Select("idle",
               IF name \in UuidLike THEN [new EXCEPT !.at = "prefix"]
               ELSE IF s # None THEN [new EXCEPT !.at = "label"]
               ELSE [new EXCEPT !.at = "done", !.outcome = "missing"])

To(at)        == [q EXCEPT !.at = at]
End(outcome)  == [q EXCEPT !.at = "done", !.outcome = outcome]
Found(rows)   == [End("found") EXCEPT !.rows = rows]

(* head(): get_session, then read_snapshot of its head.                    *)
GetSession ==
  LET h == db.heads[q.session] IN
  Select("get_session", IF h = None THEN End("missing")
                        ELSE [To("read_snapshot") EXCEPT !.head = h])

(* head~0 is the row just read; further back history() starts afresh.      *)
ReadSnapshot ==
  Select("read_snapshot",
         IF q.n = 0 THEN Found(<<q.head>>) ELSE To("history_session"))

(* history(): get_session again; no head, no history.                      *)
HistorySession ==
  LET h == db.heads[q.session] IN
  Select("history_session", IF h = None THEN Found(<<>>)
                            ELSE [To("exists") EXCEPT !.head = h])

ConfirmStart ==
  Select("exists", IF HasSnapshot(db, q.head) THEN To("chain") ELSE End("missing"))

Parent(id) == (CHOOSE r \in db.snaps : r.id = id).parent

(* The recursive query: the row of id and its ancestors, newest first, as  *)
(* far as the bound on the depth column allows.                            *)
Chain(id, depth) ==
  LET Rows[k \in 0..depth] ==
        IF k = 0 THEN <<id>>
        ELSE LET rows == Rows[k - 1]
                 p    == Parent(rows[Len(rows)])
             IN  IF p = None THEN rows ELSE Append(rows, p)
  IN  Rows[depth]

(* _resolve_head walks with one level more than it needs.                  *)
MaxDepth == IF q.kind = "tilde" THEN q.n + 1 ELSE q.n

(* Mutant of TooDeep: the cap is compared off by one, and a cut chain      *)
(* passes for a whole one.                                                 *)
TooDeepByOne(rows) == Parent(rows[Len(rows)]) # None /\ Len(rows) > MaxDepth + 1

(* The deepest row still has a parent and the bound cut the walk.          *)
TooDeep(rows) == Parent(rows[Len(rows)]) # None /\ Len(rows) > MaxDepth

(* Mutant of PickAncestor: distances count from one.                       *)
PickFromOne(rows) ==
  IF q.n > Len(rows) THEN End("missing") ELSE Found(<<rows[q.n]>>)

(* chain[distance]                                                         *)
PickAncestor(rows) ==
  IF q.n >= Len(rows) THEN End("missing") ELSE Found(<<rows[q.n + 1]>>)

WalkParents ==
  LET rows == Chain(q.head, MaxDepth) IN
  Select("chain",
         IF TooDeep(rows) THEN End("too_deep")
         ELSE IF q.kind = "tilde" THEN PickAncestor(rows) ELSE Found(rows))

(* list_snapshots: the session must exist; the first page has no anchor.   *)
PageSession ==
  Select("page_session",
         IF HasSession(db, q.session)
           THEN To(IF q.rows = <<>> THEN "page" ELSE "anchor") ELSE End("missing"))

Rows == {r.id : r \in {x \in db.snaps : x.session = q.session}}

(* The anchor is the last row of the previous page; its created_at never   *)
(* changes, so it is looked up again when the page is read.                *)
Anchor ==
  Select("anchor",
         IF q.rows[Len(q.rows)] \in Rows THEN To("page") ELSE End("missing"))

(* Mutant of Older: `<=` where the query says `<`.                         *)
NotNewer(ids) ==
  {x \in ids : q.rows = <<>> \/ created[x] <= created[q.rows[Len(q.rows)]]}

(* created_at < the anchor's                                               *)
Older(ids) ==
  {x \in ids : q.rows = <<>> \/ created[x] < created[q.rows[Len(q.rows)]]}

(* ORDER BY created_at DESC                                                *)
NewestFirst(ids) ==
  CHOOSE seq \in SetToSeqs(ids) :
    \A i, j \in DOMAIN seq : i < j => created[seq[i]] > created[seq[j]]

(* A page; a short one is the last.                                        *)
Page ==
  LET all  == NewestFirst(Older(Rows))
      page == SubSeq(all, 1, IF Len(all) < q.n THEN Len(all) ELSE q.n)
  IN  Select("page", IF Len(page) < q.n THEN Found(q.rows \o page)
                     ELSE [To("page_session") EXCEPT !.rows = @ \o page])

InScope == {r.id : r \in {x \in db.snaps : q.session \in {None, x.session}}}

Prefixed(ids) == {x \in ids : q.name \in begins[x]}
Labelled(ids) == {x \in ids : label[x] = q.name}

(* Mutant of Some: LIMIT 1.                                                *)
SomeOne(ids) == {found \in SUBSET ids : Cardinality(found) = IF ids = {} THEN 0 ELSE 1}

(* A SELECT with a LIMIT and without ORDER BY returns any of the rows.     *)
Some(ids) ==
  {found \in SUBSET ids :
     Cardinality(found) = IF Cardinality(ids) < FindLimit THEN Cardinality(ids) ELSE FindLimit}

(* One match answers the ref, several make it ambiguous.                   *)
Matched(found, otherwise) ==
  IF found = {} THEN otherwise
  ELSE IF Cardinality(found) = 1 THEN Found(SetToSeq(found)) ELSE End("ambiguous")

(* Ids of every session when none is given; no label without one.          *)
FindByIdPrefix ==
  \E found \in Some(Prefixed(InScope)) :
    Select("prefix",
           Matched(found, IF q.session = None THEN End("missing") ELSE To("label")))

FindByLabel ==
  \E found \in Some(Labelled(InScope)) : Select("label", Matched(found, End("missing")))

Answer == q.at = "done" /\ q' = NoQuery /\ UNCHANGED storedVars

QueryNext ==
  \/ \E id \in Calls : CommitSnapshot(id)
  \/ AskTilde \/ AskHistory \/ AskPages \/ AskName
  \/ GetSession \/ ReadSnapshot \/ HistorySession \/ ConfirmStart \/ WalkParents
  \/ PageSession \/ Anchor \/ Page
  \/ FindByIdPrefix \/ FindByLabel
  \/ Answer

QuerySpec == QueryInit /\ [][QueryNext]_queryVars

-----------------------------------------------------------------------------
Answered(kind) == q.kind = kind /\ q.outcome = "found"

(* The snapshots of the session up to its n-th commit, newest first.       *)
UpTo(n) == Reverse(SubSeq(log[q.session], 1, n))

(* The states of the session a query may answer from: those it had since   *)
(* the query began.                                                        *)
Since == q.seenFrom..Len(log[q.session])

(* head~N names the snapshot N commits before a head the session had while *)
(* the ref was being resolved, although the head is read twice; "beyond    *)
(* the start of history" is said only when it is.                          *)
TildeCorrect ==
  /\ Answered("tilde") =>
       \E n \in Since : q.n < n /\ q.rows = <<UpTo(n)[q.n + 1]>>
  /\ q.kind = "tilde" /\ q.outcome = "missing" =>
       \E n \in Since : n <= q.n

(* history() returns every snapshot of the session up to one of its heads  *)
(* in commit order, or raises: it never returns a chain cut by max_depth,  *)
(* and never raises for one of at most max_depth + 1 snapshots.            *)
HistoryCorrect ==
  /\ Answered("history") => \E n \in Since : q.rows = UpTo(n)
  /\ q.kind = "history" /\ q.outcome = "too_deep" => Len(log[q.session]) > q.n + 1

(* Paging to the end with before_id lists every snapshot committed when    *)
(* the listing began, none of them twice, newest first, whatever is        *)
(* committed meanwhile and however the clock jumps.                        *)
PagesComplete ==
  Answered("pages") =>
    /\ Range(SubSeq(log[q.session], 1, q.seenFrom)) \subseteq Range(q.rows)
    /\ \A i, j \in DOMAIN q.rows : i < j => created[q.rows[i]] > created[q.rows[j]]

(* A ref resolves to a snapshot in scope by its id, or else by its label,  *)
(* and to nothing else that bore the name when it was asked; an id known   *)
(* by then always goes before a label.  "Ambiguous" is said only of two    *)
(* snapshots, "no match" only of a name that none had, although the two    *)
(* lookups are apart and each is cut by its LIMIT.                         *)
NameCorrect ==
  LET old  == InScope \cap q.begun
      same == IF Prefixed(old) # {} THEN Prefixed(old) ELSE Labelled(old)
  IN  q.kind = "name" =>
        /\ q.outcome = "found" =>
             \E x \in InScope :
               /\ q.rows = <<x>>
               /\ \/ x \in Prefixed(InScope) /\ Prefixed(old) \subseteq {x}
                  \/ x \in Labelled(InScope) /\ q.session # None /\ same \subseteq {x}
        /\ q.outcome = "ambiguous" =>
             1 < Cardinality(Prefixed(InScope)) \/ 1 < Cardinality(Labelled(InScope))
        /\ q.outcome = "missing" =>
             Prefixed(old) = {} /\ (q.session # None => Labelled(old) = {})

(* README.md:161 "Snapshot refs accept `head`, `head~N`": a snapshot that  *)
(* the history of the session holds can be named by its distance.          *)
TildeReaches == q.kind = "tilde" => q.outcome # "too_deep"
=============================================================================
