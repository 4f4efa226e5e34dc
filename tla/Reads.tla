-------------------------------- MODULE Reads --------------------------------
(***************************************************************************)
(* The read path of StateForge beside its write path: head(), get_units(), *)
(* list_snapshots(), history() and get_provenance() of client.py.  A read  *)
(* takes no lock and opens no transaction, is several SELECTs long, and    *)
(* shares the connection with the writers: between two of its statements   *)
(* writers run, and what it sees is work, the rows of an open transaction  *)
(* included.                                                               *)
(***************************************************************************)
EXTENDS StateForge

CONSTANTS
  Readers,   \* the reads made by tasks of the same process, one each
  Sources    \* where a read takes the snapshot id from: see SourceKinds

(* "head": the head of a session; "list": a row of list_snapshots();       *)
(* "returned": the Snapshot a call of this process returned.               *)
SourceKinds == {"head", "list", "returned"}
Goals       == {"units", "history", "provenance"}

ASSUME ReadsAssumption == Sources \subseteq SourceKinds

VARIABLE read   \* the progress of each read

Stages == {"idle", "head", "snapshot", "session", "list", "exists", "links",
           "contents", "chain", "record", "hops", "done"}

ReadRecord == [at      : Stages,
               source  : SourceKinds,
               goal    : Goals,
               session : Sessions,
               id      : Calls \cup {None},
               found   : SUBSET Units,
               hops    : SUBSET Nat,
               durable : BOOLEAN,   \* the record found was committed by then
               walked  : SUBSET Calls,
               raised  : BOOLEAN]

readVars == <<vars, read>>

ReadInit ==
  /\ Init
  /\ read = [r \in Readers |->
               [at |-> "idle", source |-> "head", goal |-> "units",
                session |-> CHOOSE s \in InitialSessions : TRUE, id |-> None,
                found |-> {}, hops |-> {}, durable |-> FALSE, walked |-> {}, raised |-> FALSE]]

-----------------------------------------------------------------------------
(* One SELECT each; none of them changes the database.                     *)

Select(r, at, rec) ==
  /\ read[r].at = at
  /\ read' = [read EXCEPT ![r] = rec]
  /\ UNCHANGED vars

To(r, at)    == [read[r] EXCEPT !.at = at]
Answer(r)    == To(r, "done")
NotFound(r)  == [read[r] EXCEPT !.at = "done", !.raised = TRUE]

FirstSelect(source) ==
  CASE source = "head" -> "head" [] source = "list" -> "session"
    [] source = "returned" -> "exists"

(* history() starts from a head only; get_units() from any id.             *)
StartRead(r) ==
  \E source \in Sources, goal \in {"units", "history"}, s \in InitialSessions, x \in Calls \cup {None} :
    /\ goal = "history" => source = "head"
    /\ IF source = "returned"
         THEN x \in Calls /\ result[x] = "ok" /\ call[x].op \in {"snapshot", "rollback"}
         ELSE x = None
    /\ Select(r, "idle", [read[r] EXCEPT !.at = FirstSelect(source), !.goal = goal,
                            !.source = source, !.session = s, !.id = x])

(* get_session: head() and history() return at once without a head.        *)
SelectHead(r) ==
  LET h == work.heads[read[r].session] IN
  Select(r, "head",
         CASE h = Absent -> NotFound(r)
           [] h = None   -> Answer(r)
           [] OTHER      -> [read[r] EXCEPT !.id = h,
                               !.at = IF read[r].goal = "units" THEN "snapshot" ELSE "exists"])

(* head() reads the row its session points to.                             *)
SelectSnapshot(r) ==
  Select(r, "snapshot",
         IF HasSnapshot(work, read[r].id) THEN To(r, "exists") ELSE NotFound(r))

(* list_snapshots: the session must exist, then its rows.                  *)
SelectSession(r) ==
  Select(r, "session",
         IF HasSession(work, read[r].session) THEN To(r, "list") ELSE NotFound(r))

SelectList(r) ==
  LET rows == {x \in work.snaps : x.session = read[r].session} IN
  \/ rows = {} /\ Select(r, "list", Answer(r))
  \/ \E x \in rows : Select(r, "list", [To(r, "exists") EXCEPT !.id = x.id])

(* read_snapshot_unit_ids and walk_parents first confirm the id exists.    *)
SelectExists(r) ==
  Select(r, "exists",
         IF HasSnapshot(work, read[r].id)
           THEN To(r, IF read[r].goal = "units" THEN "links" ELSE "chain")
           ELSE NotFound(r))

SelectLinks(r) ==
  LET us == Members(work, read[r].id) IN
  Select(r, "links", [To(r, IF us = {} THEN "done" ELSE "contents") EXCEPT !.found = us])

(* read_units: ids without a row are silently missing from the result.     *)
SelectContents(r) ==
  Select(r, "contents", [Answer(r) EXCEPT !.found = {u \in @ : work.units[u] # None}])

(* Mutant of SelectChain: the row of the id itself and its parent only.    *)
SelectChainOnce(r) ==
  Select(r, "chain", [Answer(r) EXCEPT
    !.walked = {read[r].id} \cup Parents(work, {read[r].id})])

(* walk_parents: one recursive statement, empty when the id is gone.       *)
SelectChain(r) ==
  Select(r, "chain", [Answer(r) EXCEPT
    !.walked = IF HasSnapshot(work, read[r].id) THEN Ancestry(work, read[r].id) ELSE {}])

(* get_provenance: the record of the unit with the latest ingested_at, a   *)
(* time the caller supplies, so any of them.                               *)
StartProvenance(r) ==
  /\ "provenance" \in Ops
  /\ Select(r, "idle", [read[r] EXCEPT !.at = "record", !.goal = "provenance"])

SelectRecord(r) ==
  \/ \E p \in work.provs :
       Select(r, "record", [read[r] EXCEPT !.at = "hops", !.id = p[1],
                                           !.durable = p \in disk.provs])
  \/ \E u \in Units :
       (\A p \in work.provs : p[2] # u) /\ Select(r, "record", NotFound(r))

SelectHops(r) ==
  Select(r, "hops", [Answer(r) EXCEPT !.hops = Trace(work, read[r].id)])

ReadStep(r) ==
  \/ SelectHead(r) \/ SelectSnapshot(r) \/ SelectSession(r) \/ SelectList(r)
  \/ SelectExists(r) \/ SelectLinks(r) \/ SelectContents(r) \/ SelectChain(r)
  \/ SelectRecord(r) \/ SelectHops(r)

(* A write step, or the crash, which takes the reads with it.              *)
WriteStep ==
  /\ \E c \in Calls : Request(c) \/ Step(c) \/ Cancel(c)
  /\ UNCHANGED read

CrashAll ==
  /\ Crash
  /\ read' = [r \in Readers |-> IF read[r].at = "idle" THEN read[r] ELSE NotFound(r)]

ReadTerminating ==
  /\ \A c \in Calls : pc[c] = "done"
  /\ \A r \in Readers : read[r].at \in {"idle", "done"}
  /\ UNCHANGED readVars

ReadNext ==
  \/ \E r \in Readers : StartRead(r) \/ StartProvenance(r) \/ ReadStep(r)
  \/ WriteStep
  \/ CrashAll
  \/ ReadTerminating

ReadSpec == ReadInit /\ [][ReadNext]_readVars

-----------------------------------------------------------------------------
Answered(r, goal) ==
  read[r].at = "done" /\ ~read[r].raised /\ read[r].id # None /\ read[r].goal = goal

(* The units of a snapshot as its writer was asked to store them.          *)
Content(id) ==
  IF call[id].op = "rollback" THEN Members(work, call[id].target)
                              ELSE Range(call[id].units)

(* get_units() of the current head, or of a snapshot a call has returned,  *)
(* is the whole set: a transaction writes the head last, so even a read of *)
(* uncommitted rows never meets a snapshot without its units.              *)
HeadUnitsWhole ==
  \A r \in Readers :
    Answered(r, "units") /\ read[r].source # "list" => read[r].found = Content(read[r].id)

(* history() reaches the root: it lists the parent each listed snapshot    *)
(* was written on, and nothing of another session.                         *)
HistoryWhole ==
  \A r \in Readers :
    Answered(r, "history") =>
      /\ read[r].id \in read[r].walked
      /\ \A x \in read[r].walked :
           /\ call[x].session = read[r].session
           /\ call[x].parent \in read[r].walked \cup {None}

(* get_provenance() of a record that was committed when the read met it is *)
(* the whole trace of that record and of no other, whatever is written     *)
(* between its two statements.  A record still in its transaction may show *)
(* a part of its trace.                                                    *)
TraceWhole ==
  \A r \in Readers :
    Answered(r, "provenance") /\ read[r].durable =>
      read[r].hops = Range(call[read[r].id].trace)

(* sqlite.py:554 "Confirm the snapshot exists so callers get a clear       *)
(* NotFound vs empty": an empty answer means an empty snapshot.            *)
EmptyMeansEmpty ==
  \A r \in Readers :
    Answered(r, "units") /\ read[r].found = {} => Content(read[r].id) = {}
=============================================================================
