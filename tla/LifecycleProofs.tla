--------------------------- MODULE LifecycleProofs ---------------------------
(***************************************************************************)
(* Opening and closing under calls in flight, for any number of calls and  *)
(* of calls of close() that do not overlap.                                *)
(*                                                                         *)
(*   IInv      who may initialise, who may close, and on which connection  *)
(*             a task has its job: NoLeak;                                 *)
(*   TxnInv    whose transaction is open and what is in it: Answers and    *)
(*             ConnectionClean;                                            *)
(*   StrayInv  which calls a close() or a fault can have hit:              *)
(*             NoStrayErrors.                                              *)
(***************************************************************************)
EXTENDS Lifecycle, SequenceTheorems, TLAPS

In(js, t, k) == \E i \in DOMAIN js[k] : js[k][i] = t

(* The queues: lists of tasks, each task at most once in all of them.      *)
JobsTyped(js) == js \in [Conns -> Seq(Tasks \cup {None})]

Unique(js) ==
  \A k, l \in Conns : \A i \in DOMAIN js[k], j \in DOMAIN js[l] :
    js[k][i] = js[l][j] /\ js[k][i] # None => k = l /\ i = j

TypeInv ==
  /\ aio \in Conns \cup {None}
  /\ live \subseteq Conns
  /\ opened \in Nat
  /\ JobsTyped(jobs)
  /\ initialized \in [client : BOOLEAN, backend : BOOLEAN]
  /\ lock \in [Locks -> Tasks \cup {None}]
  /\ pc \in [Tasks -> PCs]

(* A task in a queue awaits a statement; the task that initialises and the *)
(* one that closes await theirs on the connection in use.                  *)
QueueInv ==
  /\ Unique(jobs)
  /\ \A t \in Tasks, k \in Conns : In(jobs, t, k) =>
       /\ pc[t] \in Statements
       /\ lock["init"] = t \/ pc[t] = "close" => k = aio

OnlyInit == {"open", "ddl", "abort"} \cup Pragmas
InInit   == OnlyInit \cup {"txn_lock", "begin", "commit", "undo"}

(* Only the holder of the init lock initialises, on no open connection, at *)
(* a time when nobody has anything to close.                               *)
InitInv ==
  /\ \A t \in Tasks : pc[t] \in OnlyInit => lock["init"] = t
  /\ \A t \in Tasks : lock["init"] = t => pc[t] \in InInit /\ ~initialized.client
  /\ \A t \in Tasks : pc[t] = "open" => aio = None /\ opened < MaxConns
  /\ initialized.client = initialized.backend
  /\ ~initialized.client /\ lock["init"] = None => aio = None

CloseInv ==
  /\ \A t \in Tasks : pc[t] = "close" => t \in Closers /\ initialized.client
  /\ \A t, u \in Tasks : pc[t] = "close" /\ pc[u] = "close" => t = u

IInv == TypeInv /\ QueueInv /\ InitInv /\ CloseInv /\ NoLeak

-----------------------------------------------------------------------------
(* The queues while a task t goes from one await to the next.              *)

(* js is the queues without any job of t.                                  *)
Freed(js, t) ==
  /\ JobsTyped(js)
  /\ Unique(js)
  /\ \A u \in Tasks, l \in Conns : In(js, u, l) => u # t /\ In(jobs, u, l)

(* t goes to x, with a job on connection k if x is a statement.            *)
Moved(t, x, k) ==
  /\ pc' = [pc EXCEPT ![t] = x]
  /\ JobsTyped(jobs')
  /\ Unique(jobs')
  /\ \A u \in Tasks, l \in Conns : In(jobs', u, l) =>
       \/ u # t /\ In(jobs, u, l)
       \/ u = t /\ x \in Statements /\ l = k

(* A task that awaits no statement has no job.                             *)
LEMMA FreeAtWait ==
  ASSUME TypeInv, QueueInv, NEW t \in Tasks, pc[t] \notin Statements
  PROVE  Freed(jobs, t)
BY DEF TypeInv, QueueInv, Freed

(* Taking the job at the head of a queue.                                  *)
LEMMA FreeByTurn ==
  ASSUME TypeInv, QueueInv, NEW t \in Tasks \cup {None}, NEW k \in Conns, Turn(t, k)
  PROVE  Freed(Rest(k), t)
<1> DEFINE js == Rest(k)
<1>1. jobs \in [Conns -> Seq(Tasks \cup {None})] /\ jobs[k] # <<>> /\ jobs[k][1] = t
  BY DEF TypeInv, JobsTyped, Turn
<1>2. JobsTyped(js)
  BY <1>1 DEF Rest, JobsTyped
<1>3. \A l \in Conns : \A i \in DOMAIN js[l] :
        \E m \in DOMAIN jobs[l] : /\ m = IF l = k THEN i + 1 ELSE i
                                  /\ js[l][i] = jobs[l][m]
  <2> SUFFICES ASSUME NEW l \in Conns, NEW i \in DOMAIN js[l]
      PROVE  LET m == IF l = k THEN i + 1 ELSE i
             IN  m \in DOMAIN jobs[l] /\ js[l][i] = jobs[l][m]
    OBVIOUS
  <2>1. CASE l = k
    BY <2>1, <1>1 DEF Rest
  <2>2. CASE l # k
    BY <2>2, <1>1 DEF Rest
  <2> QED BY <2>1, <2>2
<1>4. \A l \in Conns : \A i \in DOMAIN jobs[l] : i \in Nat \ {0}
  BY <1>1
<1>5. \A l \in Conns : \A i \in DOMAIN js[l] : i \in Nat \ {0}
  BY <1>2 DEF JobsTyped
<1>6. Unique(js)
  <2> SUFFICES ASSUME NEW l \in Conns, NEW m \in Conns,
                      NEW i \in DOMAIN js[l], NEW j \in DOMAIN js[m],
                      js[l][i] = js[m][j], js[l][i] # None
      PROVE  l = m /\ i = j
    BY DEF Unique
  <2> HIDE DEF js
  <2>1. Unique(jobs)
    BY DEF QueueInv
  <2> QED BY <2>1, <1>3, <1>5 DEF Unique
<1>7. ASSUME NEW u \in Tasks, NEW l \in Conns, In(js, u, l)
      PROVE  u # t /\ In(jobs, u, l)
  <2> HIDE DEF js
  <2>1. PICK i \in DOMAIN js[l] : js[l][i] = u
    BY <1>7 DEF In
  <2>2. In(jobs, u, l)
    BY <2>1, <1>3 DEF In
  <2>3. ASSUME u = t
        PROVE  FALSE
    <3>1. u # None
      BY LifecycleAssumption
    <3>2. Unique(jobs) /\ 1 \in DOMAIN jobs[k]
      BY <1>1 DEF QueueInv
    <3> QED BY <2>1, <2>3, <3>1, <3>2, <1>1, <1>3, <1>5 DEF Unique
  <2> QED BY <2>2, <2>3
<1> QED BY <1>2, <1>6, <1>7 DEF Freed

(* Leaving a job to nobody.                                                *)
LEMMA FreeByOrphan ==
  ASSUME TypeInv, QueueInv, NEW t \in Tasks
  PROVE  Freed(Orphaned(t), t)
<1> DEFINE js == Orphaned(t)
<1>1. jobs \in [Conns -> Seq(Tasks \cup {None})]
  BY DEF TypeInv, JobsTyped
<1>2. JobsTyped(js)
  <2> SUFFICES ASSUME NEW l \in Conns PROVE js[l] \in Seq(Tasks \cup {None})
    BY DEF JobsTyped, Orphaned
  <2>1. jobs[l] \in Seq(Tasks \cup {None}) /\ Len(jobs[l]) \in Nat
        /\ DOMAIN jobs[l] = 1..Len(jobs[l])
    BY <1>1
  <2>2. js[l] \in [1..Len(jobs[l]) -> Tasks \cup {None}]
    BY <1>1, <2>1 DEF Orphaned
  <2> QED BY <2>1, <2>2, SeqDef
<1>3. \A l \in Conns : /\ DOMAIN js[l] = DOMAIN jobs[l]
                       /\ \A i \in DOMAIN jobs[l] :
                            js[l][i] = IF jobs[l][i] = t THEN None ELSE jobs[l][i]
  BY DEF Orphaned
<1> HIDE DEF js
<1>4. Unique(js)
  BY <1>3 DEF Unique, QueueInv
<1>5. \A u \in Tasks, l \in Conns : In(js, u, l) => u # t /\ In(jobs, u, l)
  BY <1>3, LifecycleAssumption DEF In
<1> QED BY <1>2, <1>4, <1>5 DEF Freed, js

Queued(js, t, k) == [js EXCEPT ![k] = Append(@, t)]

(* Queueing a job of t.                                                    *)
LEMMA QueuedOnce ==
  ASSUME NEW js, NEW t \in Tasks, Freed(js, t), NEW k \in Conns
  PROVE  /\ JobsTyped(Queued(js, t, k))
         /\ Unique(Queued(js, t, k))
         /\ \A u \in Tasks, l \in Conns :
              In(Queued(js, t, k), u, l) => In(js, u, l) \/ (u = t /\ l = k)
<1> DEFINE new == Queued(js, t, k)
<1>0. new = [js EXCEPT ![k] = Append(@, t)]
  BY DEF Queued
<1> HIDE DEF new
<1>1. js \in [Conns -> Seq(Tasks \cup {None})]
  BY DEF Freed, JobsTyped
<1>2. JobsTyped(new)
  BY <1>0, <1>1 DEF JobsTyped
<1>3. \A l \in Conns : \A i \in DOMAIN new[l] :
        \/ i \in DOMAIN js[l] /\ new[l][i] = js[l][i]
        \/ l = k /\ i = Len(js[k]) + 1 /\ new[l][i] = t
  <2> SUFFICES ASSUME NEW l \in Conns, NEW i \in DOMAIN new[l]
      PROVE  \/ i \in DOMAIN js[l] /\ new[l][i] = js[l][i]
             \/ l = k /\ i = Len(js[k]) + 1 /\ new[l][i] = t
    OBVIOUS
  <2>1. CASE l = k
    BY <2>1, <1>0, <1>1
  <2>2. CASE l # k
    BY <2>2, <1>0, <1>1
  <2> QED BY <2>1, <2>2
<1>4. \A l \in Conns : \A i \in DOMAIN js[l] : js[l][i] # t
  BY DEF Freed, In
<1>5. Unique(new)
  BY <1>3, <1>4 DEF Unique, Freed
<1>6. \A u \in Tasks, l \in Conns : In(new, u, l) => In(js, u, l) \/ (u = t /\ l = k)
  BY <1>3 DEF In
<1> QED BY <1>2, <1>5, <1>6 DEF new

-----------------------------------------------------------------------------
(* How the helpers end a step of t.                                        *)

LocksTyped(ls) == ls \in [Locks -> Tasks \cup {None}]

(* t goes to x with the init lock as it was, or having given it back.      *)
Kept(t, x) == Moved(t, x, aio) /\ LocksTyped(lock') /\ lock'["init"] = lock["init"]
Left(t, x) ==
  /\ Moved(t, x, aio)
  /\ LocksTyped(lock')
  /\ lock'["init"] = IF lock["init"] = t THEN None ELSE lock["init"]

(* Giving locks back keeps the table of locks typed.                       *)
LEMMA FreeTyped ==
  ASSUME TypeInv, NEW t \in Tasks, NEW ls \in SUBSET Locks
  PROVE  /\ LocksTyped(Free(ls, t))
         /\ Free(ls, t)["init"] = IF "init" \in ls /\ lock["init"] = t THEN None ELSE lock["init"]
BY DEF TypeInv, LocksTyped, Free, Locks

(* Waiting for a lock leaves t without a job.                              *)
LEMMA WaitMoves ==
  ASSUME TypeInv, NEW js, NEW t \in Tasks, Freed(js, t), NEW x, NEW ls,
         NEW k, Wait(t, x, js, ls)
  PROVE  Moved(t, x, k) /\ lock' = ls
BY DEF Wait, Freed, Moved

(* So does returning, and every lock of t is free afterwards.              *)
LEMMA ReturnMoves ==
  ASSUME TypeInv, NEW js, NEW t \in Tasks, Freed(js, t), NEW r, Return(t, r, js)
  PROVE  Left(t, "done")
<1>1. Moved(t, "done", aio)
  BY DEF Return, Freed, Moved
<1>2. Locks \in SUBSET Locks /\ "init" \in Locks
  BY DEF Locks
<1> QED BY <1>1, <1>2, FreeTyped DEF Return, Left

(* Queueing a statement on the connection _aio names, or raising if none. *)
LEMMA IssueMoves ==
  ASSUME TypeInv, NEW js, NEW t \in Tasks, Freed(js, t), NEW x \in Statements,
         NEW ls, NEW k \in Conns \cup {None}, Issue(t, k, x, js, ls)
  PROVE  \/ k # None /\ Moved(t, x, k) /\ lock' = ls
         \/ k = None /\ Left(t, "done")
<1>1. CASE k = None
  BY <1>1, ReturnMoves DEF Issue
<1>2. CASE k # None
  <2>1. k \in Conns
    BY <1>2
  <2>2. /\ pc' = [pc EXCEPT ![t] = x]
        /\ jobs' = [js EXCEPT ![k] = Append(@, t)]
        /\ lock' = ls
    BY <1>2 DEF Issue, Wait
  <2>3. jobs' = Queued(js, t, k)
    BY <2>2 DEF Queued
  <2>4. /\ JobsTyped(jobs')
        /\ Unique(jobs')
        /\ \A u \in Tasks, l \in Conns :
             In(jobs', u, l) => In(js, u, l) \/ (u = t /\ l = k)
    BY <2>1, <2>3, QueuedOnce
  <2> QED BY <1>2, <2>2, <2>4 DEF Moved, Freed
<1> QED BY <1>1, <1>2

(* Past _ensure() the init lock is free of t.                              *)
LEMMA ProceedMoves ==
  ASSUME TypeInv, NEW js, NEW t \in Tasks, Freed(js, t), Proceed(t, js)
  PROVE  \E x \in {"session_lock", "read", "done"} : Left(t, x)
<1> DEFINE ls == Free({"init", "txn"}, t)
<1>1. LocksTyped(ls) /\ ls["init"] = IF lock["init"] = t THEN None ELSE lock["init"]
  <2>1. {"init", "txn"} \in SUBSET Locks
    BY DEF Locks
  <2> QED BY <2>1, FreeTyped
<1>2. CASE t \in Locked
  <2>1. Wait(t, "session_lock", js, ls)
    BY <1>2 DEF Proceed
  <2> QED BY <2>1, <1>1, WaitMoves DEF Left
<1>3. CASE t \notin Locked
  <2>1. Issue(t, aio, "read", js, ls)
    BY <1>3 DEF Proceed
  <2>2. "read" \in Statements
    BY DEF Statements
  <2> QED BY <2>1, <2>2, <1>1, IssueMoves DEF Left, TypeInv
<1> QED BY <1>2, <1>3

(* A statement that raises leads to a rollback, to the close of a failed   *)
(* initialisation, or out of the call.                                     *)
LEMMA FailMoves ==
  ASSUME TypeInv, NEW js, NEW t \in Tasks, Freed(js, t), Fail(t, js)
  PROVE  \/ Kept(t, "undo")
         \/ lock["init"] = t /\ Kept(t, "abort")
         \/ Left(t, "done") /\ (lock["init"] = t => aio = None)
<1>1. LocksTyped(lock)
  BY DEF TypeInv, LocksTyped
<1>2. {"undo", "abort"} \subseteq Statements
  BY DEF Statements
<1>3. CASE pc[t] \in Body
  <2>1. Issue(t, aio, "undo", js, lock)
    BY <1>3 DEF Fail
  <2> QED BY <2>1, <1>1, <1>2, IssueMoves DEF Kept, TypeInv
<1>4. CASE pc[t] \notin Body /\ lock["init"] = t
  <2> DEFINE ls == Free({"txn"}, t)
  <2>1. Issue(t, aio, "abort", js, ls)
    BY <1>4 DEF Fail, Escape, Unwind
  <2>2. {"txn"} \in SUBSET Locks
    BY DEF Locks
  <2>3. LocksTyped(ls) /\ ls["init"] = lock["init"]
    BY <2>2, FreeTyped
  <2> QED BY <2>1, <2>3, <1>2, <1>4, IssueMoves DEF Kept, TypeInv
<1>5. CASE pc[t] \notin Body /\ lock["init"] # t
  BY <1>5, ReturnMoves DEF Fail, Escape
<1> QED BY <1>3, <1>4, <1>5

-----------------------------------------------------------------------------
(* What a step of t to x has to respect when it opens and closes nothing.  *)

Flags == [client : BOOLEAN, backend : BOOLEAN]

(* A step within a call or within an initialisation.                       *)
LEMMA KeptSafe ==
  ASSUME IInv, NEW t \in Tasks, NEW x \in PCs \ {"close"}, Moved(t, x, aio),
         LocksTyped(lock'), UNCHANGED <<aio, live, opened>>,
         initialized' \in Flags, initialized'.client = initialized'.backend,
         initialized.client => initialized'.client,
         x = "open" => aio = None /\ opened < MaxConns,
         x \in OnlyInit => lock'["init"] = t,
         lock'["init"] = t => x \in InInit,
         \A u \in Tasks \ {t} : lock'["init"] = u <=> lock["init"] = u,
         lock'["init"] # None => ~initialized'.client,
         ~initialized'.client /\ lock'["init"] = None => aio = None
  PROVE  IInv'
<1>1. pc' \in [Tasks -> PCs] /\ pc'[t] = x /\ \A u \in Tasks \ {t} : pc'[u] = pc[u]
  BY DEF IInv, TypeInv, Moved
<1>2. TypeInv'
  BY <1>1 DEF IInv, TypeInv, Moved, LocksTyped, Flags
<1>3. QueueInv'
  BY <1>1 DEF IInv, QueueInv, Moved
<1>4. InitInv'
  <2>1. None \notin Tasks
    BY LifecycleAssumption
  <2> QED BY <1>1, <2>1 DEF IInv, InitInv
<1>5. CloseInv'
  BY <1>1 DEF IInv, CloseInv
<1>6. NoLeak'
  BY DEF IInv, NoLeak
<1> QED BY <1>2, <1>3, <1>4, <1>5, <1>6 DEF IInv

(* Giving the init lock back, with both flags set or with nothing open.    *)
LEMMA LeftSafe ==
  ASSUME IInv, NEW t \in Tasks, NEW x \in {"session_lock", "read", "done"}, Left(t, x),
         UNCHANGED <<aio, live, opened>>,
         \/ initialized' = initialized /\ (lock["init"] = t => aio = None)
         \/ lock["init"] = t /\ initialized' = [client |-> TRUE, backend |-> TRUE]
  PROVE  IInv'
<1>1. x \in PCs \ {"close"} /\ x # "open" /\ x \notin OnlyInit /\ t # None
  BY LifecycleAssumption DEF PCs, LockWaits, Statements, OnlyInit, Pragmas
<1>2. Moved(t, x, aio) /\ LocksTyped(lock') /\ lock'["init"] # t
      /\ \A u \in Tasks \ {t} : lock'["init"] = u <=> lock["init"] = u
  BY <1>1, LifecycleAssumption DEF Left
<1>3. lock["init"] # None => ~initialized.client
  BY DEF IInv, TypeInv, InitInv, Locks
<1>4. /\ initialized' \in Flags
      /\ initialized'.client = initialized'.backend
      /\ initialized.client => initialized'.client
  <2>1. initialized \in Flags /\ initialized.client = initialized.backend
    BY DEF IInv, TypeInv, InitInv, Flags
  <2>2. CASE initialized' = initialized
    BY <2>1, <2>2
  <2>3. CASE initialized' = [client |-> TRUE, backend |-> TRUE]
    BY <2>3 DEF Flags
  <2> QED BY <2>2, <2>3
<1>5. lock'["init"] # None => ~initialized'.client
  BY <1>3 DEF Left
<1>6. ~initialized'.client /\ lock'["init"] = None => aio = None
  BY DEF Left, IInv, InitInv
<1> QED BY <1>1, <1>2, <1>4, <1>5, <1>6, KeptSafe

(* A step that leaves the init lock and the flags alone.                   *)
LEMMA SameSafe ==
  ASSUME IInv, NEW t \in Tasks, NEW x \in PCs \ {"close", "open"}, Kept(t, x),
         UNCHANGED <<aio, live, opened, initialized>>,
         x \in OnlyInit => lock["init"] = t,
         lock["init"] = t => x \in InInit
  PROVE  IInv'
<1>1. Moved(t, x, aio) /\ LocksTyped(lock') /\ lock'["init"] = lock["init"]
  BY DEF Kept
<1>2. lock["init"] # None => ~initialized.client
  BY DEF IInv, TypeInv, InitInv, Locks
<1>3. /\ initialized' \in Flags
      /\ initialized'.client = initialized'.backend
  BY DEF IInv, TypeInv, InitInv, Flags
<1>4. ~initialized'.client /\ lock'["init"] = None => aio = None
  BY <1>1 DEF IInv, InitInv
<1> QED BY <1>1, <1>2, <1>3, <1>4, KeptSafe

-----------------------------------------------------------------------------
(* The actions.                                                            *)

(* What holds of a task whose job is run.                                  *)
LEMMA TurnFacts ==
  ASSUME IInv, NEW t \in Tasks, NEW k \in Conns, Turn(t, k)
  PROVE  /\ TypeInv
         /\ Freed(Rest(k), t)
         /\ lock["init"] = t \/ pc[t] = "close" => k = aio
<1>1. TypeInv /\ QueueInv
  BY DEF IInv
<1>2. In(jobs, t, k)
  BY <1>1 DEF TypeInv, JobsTyped, In, Turn
<1> QED BY <1>1, <1>2, FreeByTurn DEF QueueInv

(* What holds of a task that awaits no statement.                          *)
LEMMA WaitFacts ==
  ASSUME IInv, NEW t \in Tasks, pc[t] \notin Statements
  PROVE  /\ TypeInv
         /\ LocksTyped(lock)
         /\ Freed(jobs, t)
         /\ aio \in Conns \cup {None}
BY FreeAtWait DEF IInv, TypeInv, LocksTyped

(* Only the task that holds the init lock is past it.                      *)
LEMMA NotInitialising ==
  ASSUME IInv, NEW t \in Tasks, pc[t] \notin InInit
  PROVE  lock["init"] # t
BY DEF IInv, InitInv

(* Call(t), after a close or before one.                                   *)
LEMMA CallSafe == ASSUME IInv, NEW t \in Calls, Call(t) PROVE IInv'
<1>0. t \in Tasks /\ pc[t] = "idle" /\ "idle" \notin Statements \cup InInit
  BY DEF Call, Tasks, Statements, InInit, OnlyInit, Pragmas, Body
<1>1. TypeInv /\ LocksTyped(lock) /\ Freed(jobs, t) /\ lock["init"] # t
  BY <1>0, WaitFacts, NotInitialising
<1>2. UNCHANGED <<aio, live, opened, initialized>>
  BY DEF Call, connVars
<1>3. CASE initialized.client
  <2>1. \E x \in {"session_lock", "read", "done"} : Left(t, x)
    BY <1>0, <1>1, <1>3, ProceedMoves DEF Call
  <2> QED BY <2>1, <1>0, <1>1, <1>2, LeftSafe
<1>4. CASE ~initialized.client
  <2>1. Kept(t, "init_lock")
    BY <1>0, <1>1, <1>4, WaitMoves DEF Call, Kept
  <2>2. "init_lock" \in PCs \ {"close", "open"} /\ "init_lock" \notin OnlyInit
    BY DEF PCs, LockWaits, OnlyInit, Pragmas
  <2> QED BY <2>1, <2>2, <1>0, <1>1, <1>2, SameSafe
<1> QED BY <1>3, <1>4

(* LockInit(t): with the lock free and the flags down nothing is open.     *)
LEMMA LockInitSafe == ASSUME IInv, NEW t \in Tasks, LockInit(t) PROVE IInv'
<1>0. /\ pc[t] = "init_lock" /\ "init_lock" \notin Statements \cup InInit
      /\ lock["init"] = None /\ t # None
      /\ UNCHANGED <<aio, live, opened>>
  BY LifecycleAssumption
  DEF LockInit, Statements, InInit, OnlyInit, Pragmas, Body, connVars
<1>1. TypeInv /\ LocksTyped(lock) /\ Freed(jobs, t)
  BY <1>0, WaitFacts
<1>2. initialized \in Flags /\ initialized.client = initialized.backend
  BY DEF IInv, TypeInv, InitInv, Flags
<1>3. CASE initialized.client \/ initialized.backend
  <2>1. initialized' = initialized
    BY <1>2, <1>3 DEF LockInit, Flags
  <2>2. \E x \in {"session_lock", "read", "done"} : Left(t, x)
    BY <1>1, <1>3, ProceedMoves DEF LockInit
  <2> QED BY <2>1, <2>2, <1>0, LeftSafe
<1>4. CASE ~(initialized.client \/ initialized.backend)
  <2>1. /\ opened < MaxConns
        /\ Wait(t, "open", jobs, [lock EXCEPT !["init"] = t])
        /\ UNCHANGED initialized
    BY <1>4 DEF LockInit
  <2>2. Moved(t, "open", aio) /\ lock' = [lock EXCEPT !["init"] = t]
    BY <2>1, <1>1, WaitMoves
  <2>3. LocksTyped(lock') /\ lock'["init"] = t
    BY <2>2, <1>1 DEF LocksTyped, Locks
  <2>4. "open" \in PCs \ {"close"} /\ "open" \in InInit
    BY DEF PCs, InInit, OnlyInit
  <2>5. aio = None
    BY <1>0, <1>4 DEF IInv, InitInv
  <2>6. \A u \in Tasks \ {t} : lock'["init"] = u <=> lock["init"] = u
    BY <2>3, <1>0, LifecycleAssumption
  <2> QED BY <2>1, <2>2, <2>3, <2>4, <2>5, <2>6, <1>0, <1>2, <1>4, KeptSafe
<1> QED BY <1>3, <1>4

(* Open(t): the one connection, or the error of a file that won't open.    *)
LEMMA OpenSafe == ASSUME IInv, NEW t \in Tasks, Open(t) PROVE IInv'
<1>0. /\ pc[t] = "open" /\ "open" \in OnlyInit /\ "open" \notin Statements
      /\ "journal" \in Statements \cap OnlyInit
      /\ UNCHANGED initialized
  BY DEF Open, Statements, OnlyInit, Pragmas, Body
<1>1. TypeInv /\ LocksTyped(lock) /\ Freed(jobs, t)
  BY <1>0, WaitFacts
<1>2. lock["init"] = t /\ aio = None /\ opened < MaxConns /\ ~initialized.client
  BY <1>0 DEF IInv, InitInv
<1>3. CASE Return(t, "error", jobs) /\ UNCHANGED <<aio, opened, live>>
  BY <1>0, <1>1, <1>2, <1>3, ReturnMoves, LeftSafe
<1>4. CASE /\ aio' = opened + 1
           /\ opened' = opened + 1
           /\ live' = live \cup {opened + 1}
           /\ Issue(t, opened + 1, "journal", jobs, lock)
  <2>1. opened + 1 \in Conns /\ opened + 1 # None
    BY <1>1, <1>2, LifecycleAssumption DEF TypeInv, Conns
  <2>2. Moved(t, "journal", aio') /\ lock' = lock
    BY <2>1, <1>0, <1>1, <1>4, IssueMoves
  <2>3. /\ pc' \in [Tasks -> PCs]
        /\ pc'[t] = "journal"
        /\ \A u \in Tasks \ {t} : pc'[u] = pc[u]
    BY <2>2, <1>0, <1>1 DEF TypeInv, Moved, PCs
  <2>4. TypeInv'
    BY <2>1, <2>2, <2>3, <1>0, <1>1, <1>4 DEF TypeInv, Moved
  <2>5. QueueInv'
    <3>1. \A u \in Tasks \ {t} : pc[u] # "close" /\ lock["init"] # u
      BY <1>2 DEF IInv, CloseInv
    <3> QED BY <3>1, <2>2, <2>3, <1>0 DEF IInv, QueueInv, Moved
  <2>6. InitInv'
    BY <2>2, <2>3, <1>0, <1>2, LifecycleAssumption DEF IInv, InitInv, InInit
  <2>7. CloseInv'
    BY <2>3, <1>0 DEF IInv, CloseInv
  <2>8. NoLeak'
    BY <1>2, <1>4, LifecycleAssumption DEF IInv, TypeInv, NoLeak, Tasks
  <2> QED BY <2>4, <2>5, <2>6, <2>7, <2>8 DEF IInv
<1> QED BY <1>3, <1>4 DEF Open

(* The statement of t raises.                                              *)
LEMMA FailSafe ==
  ASSUME IInv, NEW t \in Tasks, NEW js, Freed(js, t), Fail(t, js),
         UNCHANGED <<aio, live, opened, initialized>>
  PROVE  IInv'
<1>1. "undo" \in PCs \ (OnlyInit \cup {"close", "open"}) /\ "undo" \in InInit
      /\ "abort" \in PCs \ {"close", "open"} /\ "abort" \in InInit
  BY DEF PCs, Statements, InInit, OnlyInit, Pragmas
<1>2. \/ Kept(t, "undo")
      \/ lock["init"] = t /\ Kept(t, "abort")
      \/ Left(t, "done") /\ (lock["init"] = t => aio = None)
  BY FailMoves DEF IInv
<1> QED BY <1>1, <1>2, SameSafe, LeftSafe

(* StatementFails(t, k).                                                   *)
LEMMA StatementFailsSafe ==
  ASSUME IInv, NEW t \in Tasks, NEW k \in Conns, StatementFails(t, k)
  PROVE  IInv'
<1>1. TypeInv /\ Freed(Rest(k), t)
  BY TurnFacts DEF StatementFails
<1> QED BY <1>1, FailSafe DEF StatementFails, connVars

(* EndFails(t, k).                                                         *)
LEMMA EndFailsSafe ==
  ASSUME IInv, NEW t \in Tasks, NEW k \in Conns, EndFails(t, k)
  PROVE  IInv'
<1>1. TypeInv /\ Freed(Rest(k), t)
  BY TurnFacts DEF EndFails
<1> QED BY <1>1, FailSafe DEF EndFails

(* CancelInit(t).                                                          *)
LEMMA CancelInitSafe == ASSUME IInv, NEW t \in Calls, CancelInit(t) PROVE IInv'
<1>1. t \in Tasks /\ Freed(Orphaned(t), t)
  BY FreeByOrphan DEF Tasks, IInv
<1> QED BY <1>1, FailSafe DEF CancelInit

(* RunOrphan(k): no task's job is touched.                                 *)
LEMMA RunOrphanSafe == ASSUME IInv, NEW k \in Conns, RunOrphan(k) PROVE IInv'
<1>1. Freed(jobs', None)
  BY FreeByTurn DEF RunOrphan, IInv
<1>2. UNCHANGED <<aio, live, opened, initialized, lock, pc>>
  BY DEF RunOrphan, connVars
<1>3. TypeInv' /\ QueueInv'
  BY <1>1, <1>2 DEF IInv, TypeInv, QueueInv, Freed
<1> QED BY <1>2, <1>3 DEF IInv, InitInv, CloseInv, NoLeak

(* The actions that only queue the next statement, or wait for a lock.     *)
LEMMA NextAwaitSafe ==
  ASSUME IInv, NEW t \in Tasks, NEW js, Freed(js, t),
         UNCHANGED <<aio, live, opened, initialized>>,
         NEW x \in PCs \ {"close", "open", "done"}, NEW ls,
         LocksTyped(ls), ls["init"] = lock["init"],
         x \in OnlyInit => lock["init"] = t,
         lock["init"] = t => x \in InInit,
         Wait(t, x, js, ls) \/ (x \in Statements /\ Issue(t, aio, x, js, ls))
  PROVE  IInv'
<1>0. TypeInv
  BY DEF IInv
<1>1. CASE Wait(t, x, js, ls)
  <2>1. Kept(t, x)
    BY <1>0, <1>1, WaitMoves DEF Kept
  <2> QED BY <2>1, SameSafe
<1>2. CASE x \in Statements /\ Issue(t, aio, x, js, ls)
  <2>1. \/ Kept(t, x)
        \/ aio = None /\ Left(t, "done")
    BY <1>0, <1>2, IssueMoves DEF Kept, TypeInv
  <2> QED BY <2>1, SameSafe, LeftSafe
<1> QED BY <1>1, <1>2

(* Pragma(t, k).                                                           *)
LEMMA PragmaSafe ==
  ASSUME IInv, NEW t \in Tasks, NEW k \in Conns, Pragma(t, k)
  PROVE  IInv'
<1> DEFINE x == IF pc[t] = "fks" THEN "txn_lock"
                ELSE IF pc[t] = "journal" THEN "sync" ELSE "fks"
<1>1. Freed(Rest(k), t) /\ LocksTyped(lock)
  BY TurnFacts DEF Pragma, IInv, TypeInv, LocksTyped
<1>2. lock["init"] = t
  BY DEF Pragma, IInv, InitInv, OnlyInit
<1>3. x \in PCs \ {"close", "open", "done"} /\ x \in InInit
  BY DEF PCs, LockWaits, Statements, InInit, OnlyInit, Pragmas
<1>4. Wait(t, x, Rest(k), lock) \/ (x \in Statements /\ Issue(t, aio, x, Rest(k), lock))
  BY DEF Pragma, Statements, Pragmas
<1>5. UNCHANGED <<aio, live, opened, initialized>>
  BY DEF Pragma, connVars
<1> HIDE DEF x
<1> QED BY <1>1, <1>2, <1>3, <1>4, <1>5, NextAwaitSafe

(* LockSession(t): only past _ensure().                                    *)
LEMMA LockSessionSafe == ASSUME IInv, NEW t \in Tasks, LockSession(t) PROVE IInv'
<1> DEFINE ls == [lock EXCEPT !["session"] = t]
<1>1. /\ pc[t] = "session_lock" /\ "session_lock" \notin Statements \cup InInit
      /\ "read" \in (PCs \cap Statements) \ (OnlyInit \cup {"close", "open", "done"})
      /\ UNCHANGED <<aio, live, opened, initialized>>
  BY DEF LockSession, PCs, Statements, InInit, OnlyInit, Pragmas, Body, connVars
<1>2. Freed(jobs, t) /\ LocksTyped(lock) /\ lock["init"] # t
  BY <1>1, WaitFacts, NotInitialising
<1>3. LocksTyped(ls) /\ ls["init"] = lock["init"]
  BY <1>2 DEF LocksTyped, Locks
<1>4. Issue(t, aio, "read", jobs, ls)
  BY DEF LockSession
<1> HIDE DEF ls
<1> QED BY <1>1, <1>2, <1>3, <1>4, NextAwaitSafe

(* Read(t, k).                                                             *)
LEMMA ReadSafe ==
  ASSUME IInv, NEW t \in Tasks, NEW k \in Conns, Read(t, k)
  PROVE  IInv'
<1>1. /\ pc[t] = "read" /\ "read" \notin InInit
      /\ "txn_lock" \in PCs \ (OnlyInit \cup {"close", "open", "done"})
      /\ UNCHANGED <<aio, live, opened, initialized>>
  BY DEF Read, PCs, LockWaits, InInit, OnlyInit, Pragmas, connVars
<1>2. Freed(Rest(k), t) /\ LocksTyped(lock) /\ lock["init"] # t
  BY <1>1, TurnFacts, NotInitialising DEF Read, IInv, TypeInv, LocksTyped
<1>3. Wait(t, "txn_lock", Rest(k), lock)
  BY DEF Read
<1> QED BY <1>1, <1>2, <1>3, NextAwaitSafe

(* LockTxn(t).                                                             *)
LEMMA LockTxnSafe == ASSUME IInv, NEW t \in Tasks, LockTxn(t) PROVE IInv'
<1> DEFINE ls == [lock EXCEPT !["txn"] = t]
<1>1. /\ pc[t] = "txn_lock" /\ "txn_lock" \notin Statements
      /\ "begin" \in (PCs \cap Statements \cap InInit) \ (OnlyInit \cup {"close", "open", "done"})
      /\ UNCHANGED <<aio, live, opened, initialized>>
  BY DEF LockTxn, PCs, Statements, InInit, OnlyInit, Pragmas, Body, connVars
<1>2. Freed(jobs, t) /\ LocksTyped(lock)
  BY <1>1, WaitFacts
<1>3. LocksTyped(ls) /\ ls["init"] = lock["init"]
  BY <1>2 DEF LocksTyped, Locks
<1>4. Issue(t, aio, "begin", jobs, ls)
  BY DEF LockTxn
<1> HIDE DEF ls
<1> QED BY <1>1, <1>2, <1>3, <1>4, NextAwaitSafe

(* Begin(t, k).                                                            *)
LEMMA BeginSafe ==
  ASSUME IInv, NEW t \in Tasks, NEW k \in Conns, Begin(t, k)
  PROVE  IInv'
<1> DEFINE x == IF lock["init"] = t THEN "ddl" ELSE "row1"
<1>1. Freed(Rest(k), t) /\ LocksTyped(lock)
  BY TurnFacts DEF Begin, IInv, TypeInv, LocksTyped
<1>2. /\ x \in (PCs \cap Statements) \ {"close", "open", "done"}
      /\ x \in OnlyInit => lock["init"] = t
      /\ lock["init"] = t => x \in InInit
  BY DEF PCs, Statements, Body, InInit, OnlyInit, Pragmas
<1>3. Issue(t, aio, x, Rest(k), lock)
  BY DEF Begin
<1>4. UNCHANGED <<aio, live, opened, initialized>>
  BY DEF Begin
<1> HIDE DEF x
<1> QED BY <1>1, <1>2, <1>3, <1>4, NextAwaitSafe

(* Write(t, k).                                                            *)
LEMMA WriteSafe ==
  ASSUME IInv, NEW t \in Tasks, NEW k \in Conns, Write(t, k)
  PROVE  IInv'
<1> DEFINE x == IF pc[t] = "row1" THEN "row2" ELSE "commit"
<1>1. Freed(Rest(k), t) /\ LocksTyped(lock)
  BY TurnFacts DEF Write, IInv, TypeInv, LocksTyped
<1>2. lock["init"] = t => pc[t] # "row1"
  BY DEF IInv, InitInv, InInit, OnlyInit, Pragmas
<1>3. /\ x \in (PCs \cap Statements) \ (OnlyInit \cup {"close", "open", "done"})
      /\ lock["init"] = t => x \in InInit
  BY <1>2 DEF PCs, Statements, Body, InInit, OnlyInit, Pragmas
<1>4. Issue(t, aio, x, Rest(k), lock)
  BY DEF Write
<1>5. UNCHANGED <<aio, live, opened, initialized>>
  BY DEF Write
<1> HIDE DEF x
<1> QED BY <1>1, <1>3, <1>4, <1>5, NextAwaitSafe

(* Commit(t, k): of a call, or of the initialisation, which sets the flags.*)
LEMMA CommitSafe ==
  ASSUME IInv, NEW t \in Tasks, NEW k \in Conns, Commit(t, k)
  PROVE  IInv'
<1>1. TypeInv /\ Freed(Rest(k), t)
  BY TurnFacts DEF Commit
<1>2. UNCHANGED <<aio, live, opened>>
  BY DEF Commit
<1>3. CASE lock["init"] = t
  <2>1. \E x \in {"session_lock", "read", "done"} : Left(t, x)
    BY <1>1, <1>3, ProceedMoves DEF Commit
  <2>2. initialized' = [client |-> TRUE, backend |-> TRUE]
    BY <1>3 DEF Commit
  <2> QED BY <2>1, <2>2, <1>2, <1>3, LeftSafe
<1>4. CASE lock["init"] # t
  <2>1. Return(t, "ok", Rest(k)) /\ UNCHANGED initialized
    BY <1>4 DEF Commit
  <2>2. Left(t, "done")
    BY <2>1, <1>1, ReturnMoves
  <2> QED BY <2>1, <2>2, <1>2, <1>4, LeftSafe
<1> QED BY <1>3, <1>4

(* Undo(t, k).                                                             *)
LEMMA UndoSafe ==
  ASSUME IInv, NEW t \in Tasks, NEW k \in Conns, Undo(t, k)
  PROVE  IInv'
<1>1. Freed(Rest(k), t)
  BY TurnFacts DEF Undo
<1>2. pc[t] \notin Body
  BY DEF Undo, Body
<1>3. Fail(t, Rest(k)) /\ UNCHANGED <<aio, live, opened, initialized>>
  BY <1>2 DEF Undo, Fail
<1> QED BY <1>1, <1>3, FailSafe

(* Returning with the connection in use closed and forgotten, when nobody  *)
(* else initialises or closes.                                             *)
LEMMA ForgetSafe ==
  ASSUME IInv, NEW t \in Tasks, Left(t, "done"),
         NEW k \in Conns, k = aio, live' = live \ {k}, aio' = None,
         UNCHANGED opened,
         \A u \in Tasks \ {t} : pc[u] # "close" /\ lock["init"] # u,
         initialized' \in Flags, initialized'.client = initialized'.backend
  PROVE  IInv'
<1>1. /\ pc' \in [Tasks -> PCs]
      /\ pc'[t] = "done"
      /\ \A u \in Tasks \ {t} : pc'[u] = pc[u]
  BY DEF IInv, TypeInv, Left, Moved, PCs
<1>2. \A u \in Tasks : lock'["init"] # u
  BY LifecycleAssumption DEF Left
<1>3. TypeInv'
  BY <1>1 DEF IInv, TypeInv, Left, Moved, LocksTyped, Flags
<1>4. "done" \notin {"open", "close"} \cup Statements \cup OnlyInit
  BY DEF Statements, OnlyInit, Pragmas, Body
<1>5. \A u \in Tasks : pc'[u] # "close" /\ pc'[u] \notin OnlyInit
  BY <1>1, <1>4 DEF IInv, InitInv
<1>6. QueueInv'
  BY <1>1, <1>2, <1>4, <1>5 DEF IInv, QueueInv, Left, Moved
<1>7. InitInv'
  BY <1>2, <1>5 DEF InitInv, OnlyInit
<1>8. CloseInv'
  BY <1>5 DEF CloseInv
<1>9. NoLeak'
  BY DEF IInv, NoLeak
<1> QED BY <1>3, <1>6, <1>7, <1>8, <1>9 DEF IInv

(* Abort(t, k): while t initialises nobody has anything to close.          *)
LEMMA AbortSafe ==
  ASSUME IInv, NEW t \in Tasks, NEW k \in Conns, Abort(t, k)
  PROVE  IInv'
<1>1. lock["init"] = t /\ ~initialized.client
  BY DEF Abort, IInv, InitInv, OnlyInit
<1>2. k = aio /\ TypeInv /\ Freed(Rest(k), t)
  BY <1>1, TurnFacts DEF Abort
<1>3. Left(t, "done")
  BY <1>2, ReturnMoves DEF Abort
<1>4. \A u \in Tasks \ {t} : pc[u] # "close" /\ lock["init"] # u
  BY <1>1 DEF IInv, CloseInv
<1>5. initialized' \in Flags /\ initialized'.client = initialized'.backend
  BY DEF Abort, IInv, TypeInv, InitInv, Flags
<1>6. live' = live \ {k} /\ aio' = None /\ UNCHANGED opened
  BY DEF Abort
<1> QED BY <1>2, <1>3, <1>4, <1>5, <1>6, ForgetSafe

(* Closed(t, k): a connection that is being closed is not replaced.        *)
LEMMA ClosedSafe ==
  ASSUME IInv, NEW t \in Tasks, NEW k \in Conns, Closed(t, k)
  PROVE  IInv'
<1>1. pc[t] = "close" /\ initialized.client
  BY DEF Closed, IInv, CloseInv
<1>2. k = aio /\ TypeInv /\ Freed(Rest(k), t)
  BY <1>1, TurnFacts DEF Closed
<1>3. Left(t, "done")
  BY <1>2, ReturnMoves DEF Closed
<1>4. \A u \in Tasks \ {t} : pc[u] # "close" /\ lock["init"] # u
  BY <1>1 DEF IInv, CloseInv, InitInv
<1>5. initialized' \in Flags /\ initialized'.client = initialized'.backend
  BY DEF Closed, Flags
<1>6. live' = live \ {k} /\ aio' = None /\ UNCHANGED opened
  BY DEF Closed
<1> QED BY <1>2, <1>3, <1>4, <1>5, <1>6, ForgetSafe

(* Close(t), while no other close() runs.                                  *)
LEMMA CloseSafe ==
  ASSUME IInv, ~Overlap, NEW t \in Closers, Close(t)
  PROVE  IInv'
<1>0. t \in Tasks /\ pc[t] = "idle" /\ "idle" \notin Statements \cup InInit
  BY DEF Close, Tasks, Statements, InInit, OnlyInit, Pragmas, Body
<1>1. /\ TypeInv /\ LocksTyped(lock) /\ Freed(jobs, t)
      /\ aio \in Conns \cup {None} /\ lock["init"] # t
  BY <1>0, WaitFacts, NotInitialising
<1>2. UNCHANGED <<aio, live, opened>>
  BY DEF Close, connVars
<1>3. \A u \in Tasks : pc[u] # "close"
  BY DEF Close, Closing, InProgress, IInv, CloseInv
<1>4. lock["init"] # None => ~initialized.client
  BY DEF IInv, TypeInv, InitInv, Locks
<1>5. CASE initialized.client /\ aio # None
  <2>1. Moved(t, "close", aio) /\ lock' = lock /\ initialized' = initialized
    BY <1>0, <1>1, <1>5, IssueMoves DEF Close, Statements
  <2>2. /\ pc' \in [Tasks -> PCs]
        /\ pc'[t] = "close"
        /\ \A u \in Tasks \ {t} : pc'[u] = pc[u]
    BY <2>1, <1>0, <1>1 DEF TypeInv, Moved, PCs, Statements
  <2>3. TypeInv'
    BY <2>1, <2>2, <1>2 DEF IInv, TypeInv, Moved
  <2>4. QueueInv'
    BY <2>1, <2>2, <1>2 DEF IInv, QueueInv, Moved
  <2>5. InitInv'
    BY <2>1, <2>2, <1>1, <1>2 DEF IInv, InitInv, OnlyInit, Pragmas
  <2>6. CloseInv'
    BY <2>1, <2>2, <1>3, <1>5 DEF CloseInv
  <2>7. NoLeak'
    BY <1>2 DEF IInv, NoLeak
  <2> QED BY <2>3, <2>4, <2>5, <2>6, <2>7 DEF IInv
<1>6. CASE ~initialized.client
  <2>1. Left(t, "done") /\ initialized' = initialized
    BY <1>0, <1>1, <1>6, ReturnMoves DEF Close
  <2> QED BY <2>1, <1>0, <1>1, <1>2, LeftSafe
<1>7. CASE initialized.client /\ aio = None
  <2>1. Left(t, "done") /\ initialized' = [client |-> FALSE, backend |-> FALSE]
    BY <1>0, <1>1, <1>7, ReturnMoves DEF Close
  <2>2. /\ pc' \in [Tasks -> PCs]
        /\ pc'[t] = "done"
        /\ \A u \in Tasks \ {t} : pc'[u] = pc[u]
    BY <2>1, <1>0, <1>1 DEF TypeInv, Left, Moved, PCs
  <2>3. lock'["init"] = lock["init"] /\ lock["init"] = None
    BY <2>1, <1>1, <1>4, <1>7 DEF Left
  <2>4. TypeInv'
    BY <2>1, <2>2, <1>2 DEF IInv, TypeInv, Left, Moved, LocksTyped
  <2>5. QueueInv'
    BY <2>1, <2>2, <2>3, <1>2 DEF IInv, QueueInv, Left, Moved
  <2>6. InitInv'
    BY <2>1, <2>2, <2>3, <1>2, <1>7, LifecycleAssumption DEF IInv, InitInv, OnlyInit, Pragmas
  <2>7. CloseInv'
    BY <2>2, <1>3 DEF CloseInv
  <2>8. NoLeak'
    BY <1>2 DEF IInv, NoLeak
  <2> QED BY <2>4, <2>5, <2>6, <2>7, <2>8 DEF IInv
<1> QED BY <1>5, <1>6, <1>7

-----------------------------------------------------------------------------
(* At the start nothing is open and no task has a job.                     *)
LEMMA InitSafe == ASSUME Init PROVE IInv
<1>1. jobs = [k \in Conns |-> <<>>] /\ \A k \in Conns : DOMAIN jobs[k] = {}
  BY DEF Init
<1>2. TypeInv
  <2>1. JobsTyped(jobs)
    BY <1>1, EmptySeq DEF JobsTyped
  <2> QED BY <2>1 DEF Init, TypeInv, PCs
<1>3. QueueInv
  BY <1>1 DEF QueueInv, Unique, In
<1>4. None \notin Tasks
  BY LifecycleAssumption
<1>5. InitInv
  BY <1>4 DEF Init, InitInv, OnlyInit, Pragmas, Locks
<1>6. CloseInv /\ NoLeak
  BY DEF Init, CloseInv, NoLeak
<1> QED BY <1>2, <1>3, <1>5, <1>6 DEF IInv

(* Each step preserves the invariant.                                      *)
LEMMA NextSafe == ASSUME IInv, ~Overlap, [Next]_vars PROVE IInv'
<1>1. CASE UNCHANGED vars
  BY <1>1 DEF vars, IInv, TypeInv, QueueInv, InitInv, CloseInv, NoLeak
<1>2. ASSUME NEW t \in Calls, Call(t) \/ CancelInit(t)
      PROVE  IInv'
  BY <1>2, CallSafe, CancelInitSafe
<1>3. ASSUME NEW t \in Closers, Close(t)
      PROVE  IInv'
  BY <1>3, CloseSafe
<1>4. ASSUME NEW t \in Tasks, Step(t)
      PROVE  IInv'
  <2>1. CASE LockInit(t) \/ Open(t) \/ LockSession(t) \/ LockTxn(t)
    BY <2>1, LockInitSafe, OpenSafe, LockSessionSafe, LockTxnSafe
  <2>2. ASSUME NEW k \in Conns,
               \/ StatementFails(t, k) \/ EndFails(t, k) \/ Pragma(t, k) \/ Read(t, k) \/ Begin(t, k)
               \/ Write(t, k) \/ Commit(t, k) \/ Undo(t, k)
               \/ Abort(t, k) \/ Closed(t, k)
        PROVE  IInv'
    BY <2>2, StatementFailsSafe, EndFailsSafe, PragmaSafe, ReadSafe, BeginSafe, WriteSafe,
       CommitSafe, UndoSafe, AbortSafe, ClosedSafe
  <2> QED BY <2>1, <2>2, <1>4 DEF Step
<1>5. ASSUME NEW k \in Conns, RunOrphan(k)
      PROVE  IInv'
  BY <1>5, RunOrphanSafe
<1> QED BY <1>1, <1>2, <1>3, <1>4, <1>5 DEF Next, Terminating

(* The queues and flags as IInv has them, and so NoLeak (the comment in    *)
(* initialize() about the thread that keeps the process from exiting), for *)
(* every number of calls, faults and reopenings, if close() is not called  *)
(* again while it runs.                                                    *)
THEOREM NoConnectionLeaks == ASSUME ~Overlap PROVE Spec => []NoLeak
<1>1. Init => IInv
  BY InitSafe
<1>2. IInv /\ [Next]_vars => IInv'
  BY NextSafe
<1>3. IInv => NoLeak
  BY DEF IInv
<1> QED BY <1>1, <1>2, <1>3, PTL DEF Spec
-----------------------------------------------------------------------------
(* The transactions: who writes in one, and what it has written.           *)

Work == Body \cup {"commit", "undo"}

(* The rows in the transaction of a task, by the place where it stands.    *)
Written(t) == {<<t, i>> : i \in CASE pc[t] = "row2" -> {1}
                                  [] pc[t] = "commit" /\ lock["init"] # t -> {1, 2}
                                  [] OTHER -> {}}

(* A connection is new: no task has a job on it before it is opened.       *)
NewConn ==
  /\ aio # None => aio <= opened
  /\ \A t \in Tasks, k \in Conns : In(jobs, t, k) => k <= opened

(* An open transaction belongs to the holder of the lock, which has its    *)
(* next statement queued on the same connection.                           *)
InBlock(k) ==
  /\ k \in live
  /\ \E t \in Tasks :
       /\ lock["txn"] = t
       /\ pc[t] \in Work
       /\ \A l \in Conns : In(jobs, t, l) => l = k

(* A COMMIT or ROLLBACK that failed left a transaction on its connection,  *)
(* which stays there until the connection is closed: nobody gets past      *)
(* BEGIN.                                                                  *)
SpoilInv ==
  /\ \A k \in spoiled :
       /\ k \in Conns
       /\ k <= opened
       /\ (k \in live <=> txn[k] # None)
  /\ aio \in spoiled => \A t \in Tasks : pc[t] \notin Work

TxnInv ==
  /\ result \in [Tasks -> {"pending", "ok", "error"}]
  /\ txn \in [Conns -> (SUBSET Rows) \cup {None}]
  /\ NewConn
  /\ \A t \in Tasks : pc[t] \in Work \cup {"begin"} => lock["txn"] = t
  /\ SpoilInv
  /\ \A k \in Conns : txn[k] # None => InBlock(k) \/ k \in spoiled
  /\ \A t \in Tasks, k \in live :
       In(jobs, t, k) /\ pc[t] \in Work \ {"undo"} => txn[k] = Written(t)
  /\ stored = {c \in Calls : result[c] = "ok"} \X {1, 2}
  /\ \A t \in Tasks : result[t] # "pending" => pc[t] = "done"
  /\ \A t \in Closers : pc[t] \in {"idle", "close", "done"}

-----------------------------------------------------------------------------
(* How the helpers end a step of t: where it stands, on which connection   *)
(* its job is, what it answers; the locks of the others stay theirs.       *)
Goes(t, x, k, r) ==
  /\ Moved(t, x, k)
  /\ result' = IF x = "done" THEN [result EXCEPT ![t] = r] ELSE result
  /\ \A u \in Tasks \ {t}, l \in Locks : lock'[l] = u <=> lock[l] = u

Others(ls, t) == \A u \in Tasks \ {t}, l \in Locks : ls[l] = u <=> lock[l] = u

(* Giving back one's own locks, or taking a free one.                      *)
LEMMA LocksOfOthers ==
  ASSUME TypeInv, NEW t \in Tasks
  PROVE  /\ Others(lock, t)
         /\ \A S \in SUBSET Locks : /\ Others(Free(S, t), t)
                                    /\ \A l \in Locks \ S : Free(S, t)[l] = lock[l]
         /\ \A m \in Locks : lock[m] = None =>
              Others([lock EXCEPT ![m] = t], t) /\ [lock EXCEPT ![m] = t][m] = t
<1>1. None \notin Tasks
  BY LifecycleAssumption
<1>2. \A S \in SUBSET Locks : /\ Others(Free(S, t), t)
                              /\ \A l \in Locks \ S : Free(S, t)[l] = lock[l]
  BY <1>1 DEF Others, Free
<1>3. \A m \in Locks : lock[m] = None =>
        Others([lock EXCEPT ![m] = t], t) /\ [lock EXCEPT ![m] = t][m] = t
  BY <1>1 DEF Others, TypeInv
<1> QED BY <1>2, <1>3 DEF Others

(* Waiting for a lock.                                                     *)
LEMMA WaitGoes ==
  ASSUME TypeInv, NEW js, NEW t \in Tasks, Freed(js, t), NEW x, x # "done",
         NEW ls, Others(ls, t), Wait(t, x, js, ls)
  PROVE  \A k, r : Goes(t, x, k, r)
BY WaitMoves DEF Goes, Wait, Others

(* Returning.                                                              *)
LEMMA ReturnGoes ==
  ASSUME TypeInv, NEW js, NEW t \in Tasks, Freed(js, t), NEW r, Return(t, r, js)
  PROVE  Goes(t, "done", aio, r)
<1>1. Locks \in SUBSET Locks
  OBVIOUS
<1>2. Moved(t, "done", aio)
  BY ReturnMoves DEF Left
<1>3. Others(Free(Locks, t), t)
  BY <1>1, LocksOfOthers
<1> QED BY <1>2, <1>3 DEF Goes, Return, Others

(* The next statement, or the error that there is no connection.           *)
LEMMA IssueGoes ==
  ASSUME TypeInv, NEW js, NEW t \in Tasks, Freed(js, t), NEW x \in Statements,
         NEW ls, Others(ls, t), NEW k \in Conns \cup {None}, Issue(t, k, x, js, ls)
  PROVE  \/ k # None /\ lock' = ls /\ \A r : Goes(t, x, k, r)
         \/ k = None /\ Goes(t, "done", aio, "error")
<1>1. CASE k = None
  BY <1>1, ReturnGoes DEF Issue
<1>2. CASE k # None
  <2>1. Moved(t, x, k) /\ lock' = ls
    BY <1>2, IssueMoves DEF Left
  <2>2. result' = result /\ x # "done"
    BY <1>2 DEF Issue, Wait, Statements, Pragmas, Body
  <2> QED BY <1>2, <2>1, <2>2 DEF Goes, Others
<1> QED BY <1>1, <1>2

(* Past _ensure().                                                         *)
LEMMA ProceedGoes ==
  ASSUME TypeInv, NEW js, NEW t \in Tasks, Freed(js, t), Proceed(t, js)
  PROVE  \/ Goes(t, "session_lock", aio, "error")
         \/ aio # None /\ Goes(t, "read", aio, "error")
         \/ aio = None /\ Goes(t, "done", aio, "error")
<1> DEFINE ls == Free({"init", "txn"}, t)
<1>1. Others(ls, t)
  <2>1. {"init", "txn"} \in SUBSET Locks
    BY DEF Locks
  <2> QED BY <2>1, LocksOfOthers
<1>2. CASE t \in Locked
  <2>1. Wait(t, "session_lock", js, ls)
    BY <1>2 DEF Proceed
  <2> HIDE DEF ls
  <2> QED BY <2>1, <1>1, WaitGoes
<1>3. CASE t \notin Locked
  <2>1. Issue(t, aio, "read", js, ls)
    BY <1>3 DEF Proceed
  <2>2. "read" \in Statements
    BY DEF Statements
  <2> HIDE DEF ls
  <2> QED BY <2>1, <2>2, <1>1, IssueGoes DEF TypeInv
<1> QED BY <1>2, <1>3

(* A statement that raises: a rollback only out of the body, then the      *)
(* close of a failed initialisation, or the error.                         *)
LEMMA FailGoes ==
  ASSUME TypeInv, NEW js, NEW t \in Tasks, Freed(js, t), Fail(t, js)
  PROVE  \/ pc[t] \in Body /\ aio # None /\ lock' = lock /\ Goes(t, "undo", aio, "error")
         \/ pc[t] \notin Body /\ lock["init"] = t /\ aio # None
            /\ Goes(t, "abort", aio, "error")
         \/ (pc[t] \in Body \/ lock["init"] = t => aio = None)
            /\ Goes(t, "done", aio, "error")
<1>1. {"undo", "abort"} \subseteq Statements
  BY DEF Statements
<1>2. CASE pc[t] \in Body
  <2>1. Issue(t, aio, "undo", js, lock)
    BY <1>2 DEF Fail
  <2> QED BY <2>1, <1>1, <1>2, IssueGoes, LocksOfOthers DEF TypeInv
<1>3. CASE pc[t] \notin Body /\ lock["init"] = t
  <2> DEFINE ls == Free({"txn"}, t)
  <2>1. Issue(t, aio, "abort", js, ls)
    BY <1>3 DEF Fail, Escape, Unwind
  <2>2. {"txn"} \in SUBSET Locks
    BY DEF Locks
  <2>3. Others(ls, t)
    BY <2>2, LocksOfOthers
  <2> HIDE DEF ls
  <2> QED BY <2>1, <2>3, <1>1, <1>3, IssueGoes DEF TypeInv
<1>4. CASE pc[t] \notin Body /\ lock["init"] # t
  BY <1>4, ReturnGoes DEF Fail, Escape
<1> QED BY <1>2, <1>3, <1>4

(* Where the tasks stand after a step of t.                                *)
LEMMA GoesTyped ==
  ASSUME IInv, TxnInv, NEW t \in Tasks, NEW x \in PCs, NEW k, NEW r \in {"ok", "error"},
         Goes(t, x, k, r), pc[t] # "done"
  PROVE  /\ pc'[t] = x
         /\ result'[t] = IF x = "done" THEN r ELSE "pending"
         /\ \A u \in Tasks \ {t} : pc'[u] = pc[u] /\ result'[u] = result[u]
         /\ \A u \in Tasks, l \in Conns : In(jobs', u, l) =>
              \/ u # t /\ In(jobs, u, l)
              \/ u = t /\ x \in Statements /\ l = k
         /\ result' \in [Tasks -> {"pending", "ok", "error"}]
         /\ \A u \in Tasks \ {t} : /\ lock'["txn"] = u <=> lock["txn"] = u
                                   /\ lock'["init"] = u <=> lock["init"] = u
         /\ result[t] = "pending"
<1>1. /\ pc \in [Tasks -> PCs]
      /\ result \in [Tasks -> {"pending", "ok", "error"}]
      /\ result[t] = "pending"
  BY DEF IInv, TypeInv, TxnInv
<1>2. "txn" \in Locks /\ "init" \in Locks
  BY DEF Locks
<1>3. pc' = [pc EXCEPT ![t] = x]
  BY DEF Goes, Moved
<1>4. result' = IF x = "done" THEN [result EXCEPT ![t] = r] ELSE result
  BY DEF Goes
<1> QED BY <1>1, <1>2, <1>3, <1>4 DEF Goes, Moved

(* All transactions are on the connection in use.                          *)
LEMMA TxnOnAio ==
  ASSUME IInv, TxnInv
  PROVE  \A k \in Conns : txn[k] # None => k \in live /\ k = aio
BY DEF IInv, NoLeak, TxnInv, SpoilInv, InBlock

(* Opening, or leaving the connections alone.                              *)
SameConn   == UNCHANGED <<aio, live, opened, spoiled>>
OpenedConn ==
  /\ aio = None
  /\ opened + 1 \in Conns
  /\ aio' = opened + 1
  /\ opened' = opened + 1
  /\ live' = live \cup {opened + 1}
  /\ UNCHANGED spoiled

(* A step that writes nothing: it begins no transaction, and a transaction *)
(* of t itself is left for a rollback.                                     *)
LEMMA QuietTxn ==
  ASSUME IInv, TxnInv, NEW t \in Tasks, NEW x \in PCs \ {"ddl", "row1", "row2", "commit"},
         NEW r \in {"ok", "error"}, Goes(t, x, aio', r), pc[t] # "done",
         UNCHANGED <<txn, stored>>, SameConn \/ OpenedConn,
         r = "ok" => t \in Closers,
         x \in {"begin", "undo"} => lock'["txn"] = t,
         x = "undo" => pc[t] \in Body,
         pc[t] \in Work /\ x # "undo" => \A k \in Conns : txn[k] = None,
         t \in Closers => x \in {"close", "done"}
  PROVE  TxnInv'
<1>a. /\ pc'[t] = x
      /\ result'[t] = IF x = "done" THEN r ELSE "pending"
      /\ \A u \in Tasks \ {t} : pc'[u] = pc[u] /\ result'[u] = result[u]
      /\ \A u \in Tasks, l \in Conns : In(jobs', u, l) =>
           \/ u # t /\ In(jobs, u, l)
           \/ u = t /\ x \in Statements /\ l = aio'
      /\ result' \in [Tasks -> {"pending", "ok", "error"}]
      /\ \A u \in Tasks \ {t} : /\ lock'["txn"] = u <=> lock["txn"] = u
                                /\ lock'["init"] = u <=> lock["init"] = u
      /\ result[t] = "pending"
  BY GoesTyped
<1> USE <1>a
<1>0. /\ opened \in Nat
      /\ live \subseteq {aio}
      /\ live \subseteq Conns
      /\ Conns \subseteq Nat
  BY DEF IInv, TypeInv, NoLeak, Conns
<1>1. NewConn'
  <2>1. aio' # None => aio' <= opened'
    BY <1>0, LifecycleAssumption DEF SameConn, OpenedConn, TxnInv, NewConn
  <2>2. \A u \in Tasks, l \in Conns : In(jobs', u, l) => l <= opened'
    <3> SUFFICES ASSUME NEW u \in Tasks, NEW l \in Conns, In(jobs', u, l)
        PROVE  l <= opened'
      OBVIOUS
    <3>1. CASE In(jobs, u, l)
      BY <3>1, <1>0 DEF SameConn, OpenedConn, TxnInv, NewConn
    <3>2. CASE l = aio'
      BY <3>2, <2>1, LifecycleAssumption
    <3> QED BY <3>1, <3>2
  <2> QED BY <2>1, <2>2 DEF NewConn
<1>2. \A u \in Tasks : pc'[u] \in Work \cup {"begin"} => lock'["txn"] = u
  BY DEF TxnInv, Work, Body
<1>3. ASSUME NEW k \in Conns, txn'[k] # None, k \notin spoiled'
      PROVE  InBlock(k)'
  <2>0. InBlock(k)
    BY <1>3 DEF TxnInv, SameConn, OpenedConn
  <2>1. PICK u \in Tasks : /\ lock["txn"] = u
                           /\ pc[u] \in Work
                           /\ \A l \in Conns : In(jobs, u, l) => l = k
    BY <2>0 DEF InBlock
  <2>2. k \in live /\ k \in live' /\ k = aio /\ aio # None
    BY <1>3, LifecycleAssumption, TxnOnAio DEF SameConn, OpenedConn, TxnInv, InBlock
  <2>3. CASE u # t
    BY <2>1, <2>2, <2>3 DEF InBlock
  <2>4. CASE u = t
    <3>1. x = "undo" /\ aio' = k
      BY <2>1, <2>2, <2>4, <1>3 DEF SameConn, OpenedConn
    <3> QED BY <2>1, <2>2, <2>4, <3>1 DEF InBlock, Work
  <2> QED BY <2>3, <2>4
<1>4. ASSUME NEW u \in Tasks, NEW k \in live', In(jobs', u, k), pc'[u] \in Work \ {"undo"}
      PROVE  txn'[k] = Written(u)'
  <2>1. u # t /\ In(jobs, u, k)
    <3>1. k \in Conns
      BY <1>0, <1>4 DEF SameConn, OpenedConn
    <3>2. u # t
      BY <1>4 DEF Work, Body
    <3> QED BY <3>1, <3>2, <1>4
  <2>2. k \in live
    BY <2>1, <1>0, <1>4 DEF SameConn, OpenedConn, TxnInv, NewConn
  <2>3. Written(u)' = Written(u)
    BY <2>1 DEF Written
  <2> QED BY <2>1, <2>2, <2>3, <1>4 DEF TxnInv
<1>5. stored' = {c \in Calls : result'[c] = "ok"} \X {1, 2}
  <2>1. \A c \in Calls : result'[c] = "ok" <=> result[c] = "ok"
    BY LifecycleAssumption DEF Tasks
  <2>2. {c \in Calls : result'[c] = "ok"} = {c \in Calls : result[c] = "ok"}
    BY <2>1
  <2> QED BY <2>2 DEF TxnInv
<1>6. \A u \in Tasks : result'[u] # "pending" => pc'[u] = "done"
  BY DEF TxnInv
<1>7. \A u \in Closers : pc'[u] \in {"idle", "close", "done"}
  BY DEF TxnInv, Tasks
<1>8. SpoilInv'
  <2>1. ASSUME NEW k \in spoiled'
        PROVE  k \in Conns /\ k <= opened' /\ (k \in live' <=> txn'[k] # None) /\ k # opened + 1
    <3>1. k \in Conns /\ k <= opened /\ (k \in live <=> txn[k] # None)
      BY <2>1 DEF TxnInv, SpoilInv, SameConn, OpenedConn
    <3>2. k # opened + 1 /\ k <= opened'
      BY <3>1, <1>0 DEF SameConn, OpenedConn
    <3> QED BY <3>1, <3>2 DEF SameConn, OpenedConn
  <2>2. ASSUME aio' \in spoiled', NEW u \in Tasks
        PROVE  pc'[u] \notin Work
    <3>1. aio \in spoiled
      BY <2>1, <2>2 DEF SameConn, OpenedConn
    <3>2. pc[u] \notin Work /\ pc[t] \notin Work
      BY <3>1 DEF TxnInv, SpoilInv
    <3> QED BY <3>2 DEF Work, Body
  <2> QED BY <2>1, <2>2 DEF SpoilInv
<1> QED BY <1>1, <1>2, <1>3, <1>4, <1>5, <1>6, <1>7, <1>8 DEF TxnInv

(* A step after which no transaction is open: t itself has ended it, or    *)
(* the connection is closed.                                               *)
LEMMA ClearedTxn ==
  ASSUME IInv, TxnInv, NEW t \in Tasks, NEW x \in PCs \ (Work \cup {"begin"}),
         NEW r \in {"ok", "error"}, Goes(t, x, aio, r), pc[t] # "done",
         NEW k \in Conns, k = aio, txn' = [txn EXCEPT ![k] = None],
         aio' \in {aio, None}, UNCHANGED <<opened, spoiled>>,
         \/ live' = live /\ lock["txn"] = t /\ pc[t] \in Work
         \/ live' = live \ {k},
         stored' = {c \in Calls : result'[c] = "ok"} \X {1, 2},
         t \in Closers => x \in {"close", "done"}
  PROVE  TxnInv'
<1>1. /\ pc'[t] = x
      /\ result'[t] = IF x = "done" THEN r ELSE "pending"
      /\ \A u \in Tasks \ {t} : pc'[u] = pc[u] /\ result'[u] = result[u]
      /\ \A u \in Tasks, l \in Conns : In(jobs', u, l) =>
           \/ u # t /\ In(jobs, u, l)
           \/ u = t /\ x \in Statements /\ l = aio
      /\ result' \in [Tasks -> {"pending", "ok", "error"}]
      /\ \A u \in Tasks \ {t} : lock'["txn"] = u <=> lock["txn"] = u
  BY GoesTyped
<1>2. live \subseteq {aio}
  BY DEF IInv, NoLeak
<1>3. \A j \in Conns : txn'[j] = None
  BY TxnOnAio DEF TxnInv
<1>4. txn' \in [Conns -> (SUBSET Rows) \cup {None}]
  <2>1. txn \in [Conns -> (SUBSET Rows) \cup {None}]
    BY DEF TxnInv
  <2>2. [txn EXCEPT ![k] = None] \in [Conns -> (SUBSET Rows) \cup {None}]
    BY <2>1
  <2> QED BY <2>2
<1>5. NewConn'
  <2>1. NewConn /\ aio # None
    BY LifecycleAssumption DEF TxnInv
  <2> QED BY <2>1, <1>1 DEF NewConn
<1>6. \A u \in Tasks : pc'[u] \in Work \cup {"begin"} => lock'["txn"] = u
  BY <1>1 DEF TxnInv
<1>7. \A u \in Tasks, j \in live' :
        In(jobs', u, j) /\ pc'[u] \in Work \ {"undo"} => txn'[j] = Written(u)'
  <2>1. \A u \in Tasks : lock["txn"] = t /\ pc'[u] \in Work => FALSE
    BY <1>1 DEF TxnInv
  <2> QED BY <2>1, <1>2
<1>8. \A u \in Tasks : result'[u] # "pending" => pc'[u] = "done"
  BY <1>1 DEF TxnInv
<1>9. \A u \in Closers : pc'[u] \in {"idle", "close", "done"}
  BY <1>1 DEF TxnInv, Tasks
<1>10. SpoilInv'
  <2>1. ASSUME NEW j \in spoiled'
        PROVE  j \in Conns /\ j <= opened' /\ j \notin live'
    <3>1. j \in Conns /\ j <= opened
      BY <2>1 DEF TxnInv, SpoilInv
    <3>2. CASE live' = live /\ pc[t] \in Work
      <4>1. SpoilInv /\ pc[t] \in Work /\ live' = live /\ j \in spoiled
        BY <3>2, <2>1 DEF TxnInv
      <4>2. aio \notin spoiled
        BY <4>1 DEF SpoilInv
      <4>3. j # aio
        BY <4>1, <4>2
      <4> QED BY <4>1, <4>3, <3>1, <1>2
    <3>3. CASE live' = live \ {k}
      BY <3>1, <3>3, <1>2
    <3> QED BY <3>1, <3>2, <3>3
  <2>2. aio' \in spoiled' => \A u \in Tasks : pc'[u] \notin Work
    <3>1. None \notin spoiled
      BY LifecycleAssumption DEF TxnInv, SpoilInv, Conns
    <3> QED BY <3>1, <1>1 DEF TxnInv, SpoilInv
  <2> QED BY <2>1, <2>2, <1>3 DEF SpoilInv
<1> QED BY <1>1, <1>3, <1>4, <1>5, <1>6, <1>7, <1>8, <1>9, <1>10 DEF TxnInv

(* A step that writes in the transaction of t, or begins it.               *)
LEMMA WritingTxn ==
  ASSUME IInv, TxnInv, NEW t \in Calls, NEW x \in {"ddl", "row1", "row2", "commit"},
         NEW k \in Conns, k \in live, k \notin spoiled, Goes(t, x, k, "error"),
         pc[t] # "done", lock["txn"] = t, lock' = lock,
         NEW rows \in SUBSET Rows, txn' = [txn EXCEPT ![k] = rows], rows = Written(t)',
         SameConn, UNCHANGED stored
  PROVE  TxnInv'
<1>0. t \in Tasks \ Closers /\ x \in PCs /\ x \in Work \ {"undo"} /\ x # "done"
  BY LifecycleAssumption DEF Tasks, PCs, Statements, Body, Work
<1>1. /\ pc'[t] = x
      /\ result' = result
      /\ \A u \in Tasks \ {t} : pc'[u] = pc[u]
      /\ \A u \in Tasks, l \in Conns : In(jobs', u, l) =>
           \/ u # t /\ In(jobs, u, l)
           \/ u = t /\ l = k
  BY <1>0, GoesTyped DEF Goes
<1>2. live = {k} /\ aio = k
  BY DEF IInv, NoLeak
<1>3. txn' \in [Conns -> (SUBSET Rows) \cup {None}] /\ txn'[k] = rows
  BY DEF TxnInv
<1>4. \A j \in Conns \ {k} : txn'[j] = None
  BY <1>2, TxnOnAio DEF TxnInv
<1>5. NewConn'
  BY <1>1, <1>2, LifecycleAssumption DEF TxnInv, NewConn, SameConn, Tasks
<1>6. \A u \in Tasks : pc'[u] \in Work \cup {"begin"} => lock'["txn"] = u
  BY <1>1 DEF TxnInv
<1>7. InBlock(k)'
  BY <1>0, <1>1, <1>2 DEF InBlock, SameConn
<1>8. \A u \in Tasks, j \in live' :
        In(jobs', u, j) /\ pc'[u] \in Work \ {"undo"} => txn'[j] = Written(u)'
  <2>1. \A u \in Tasks : pc'[u] \in Work => u = t
    BY <1>6
  <2> QED BY <2>1, <1>2, <1>3 DEF SameConn
<1>9. \A u \in Tasks : result'[u] # "pending" => pc'[u] = "done"
  BY <1>0, <1>1 DEF TxnInv
<1>10. \A u \in Closers : pc'[u] \in {"idle", "close", "done"}
  BY <1>0, <1>1 DEF TxnInv, Tasks
<1>11. stored' = {c \in Calls : result'[c] = "ok"} \X {1, 2}
  BY <1>1 DEF TxnInv
<1>12. result' \in [Tasks -> {"pending", "ok", "error"}]
  BY <1>1 DEF TxnInv
<1>13. SpoilInv'
  <2>1. ASSUME NEW j \in spoiled'
        PROVE  j \in Conns /\ j <= opened' /\ (j \in live' <=> txn'[j] # None)
    BY <2>1, <1>2, <1>4 DEF SameConn, TxnInv, SpoilInv
  <2>2. aio' \notin spoiled'
    BY <1>2 DEF SameConn
  <2> QED BY <2>1, <2>2 DEF SpoilInv
<1> QED BY <1>3, <1>4, <1>5, <1>6, <1>7, <1>8, <1>9, <1>10, <1>11, <1>12, <1>13 DEF TxnInv

-----------------------------------------------------------------------------
(* The actions and the transactions.                                       *)

(* A closer stands nowhere but at its close.                               *)
LEMMA NoCloser ==
  ASSUME TxnInv, NEW t \in Tasks, pc[t] \notin {"idle", "close", "done"}
  PROVE  t \in Calls
BY DEF TxnInv, Tasks

(* Call(t).                                                                *)
LEMMA CallTxn == ASSUME IInv, TxnInv, NEW t \in Calls, Call(t) PROVE TxnInv'
<1>0. /\ t \in Tasks \ Closers
      /\ pc[t] = "idle"
      /\ "idle" \notin Statements \cup Work \cup {"done"}
      /\ {"init_lock", "session_lock", "read", "done"}
           \subseteq PCs \ {"ddl", "row1", "row2", "commit", "begin", "undo"}
  BY LifecycleAssumption
  DEF Call, Tasks, Statements, Work, Pragmas, Body, PCs, LockWaits
<1>1. TypeInv /\ Freed(jobs, t)
  BY <1>0, WaitFacts
<1>2. SameConn /\ UNCHANGED <<txn, stored>>
  BY DEF Call, connVars, auxVars, SameConn
<1>3. \E x \in {"init_lock", "session_lock", "read", "done"} : Goes(t, x, aio, "error")
  <2>1. CASE initialized.client
    BY <2>1, <1>0, <1>1, ProceedGoes DEF Call
  <2>2. CASE ~initialized.client
    BY <2>2, <1>0, <1>1, WaitGoes, LocksOfOthers DEF Call
  <2> QED BY <2>1, <2>2
<1> QED BY <1>0, <1>2, <1>3, QuietTxn DEF SameConn

(* LockInit(t).                                                            *)
LEMMA LockInitTxn == ASSUME IInv, TxnInv, NEW t \in Tasks, LockInit(t) PROVE TxnInv'
<1>0. /\ pc[t] = "init_lock"
      /\ "init_lock" \notin Statements \cup Work \cup {"idle", "close", "done"}
      /\ {"open", "session_lock", "read", "done"}
           \subseteq PCs \ {"ddl", "row1", "row2", "commit", "begin", "undo"}
  BY DEF LockInit, Statements, Work, Pragmas, Body, PCs, LockWaits
<1>1. TypeInv /\ Freed(jobs, t) /\ t \notin Closers
  BY <1>0, WaitFacts DEF TxnInv
<1>2. SameConn /\ UNCHANGED <<txn, stored>>
  BY DEF LockInit, connVars, auxVars, SameConn
<1>3. \E x \in {"open", "session_lock", "read", "done"} : Goes(t, x, aio, "error")
  <2>1. CASE initialized.client \/ initialized.backend
    BY <2>1, <1>1, ProceedGoes DEF LockInit
  <2>2. CASE ~(initialized.client \/ initialized.backend)
    <3> DEFINE ls == [lock EXCEPT !["init"] = t]
    <3>1. Wait(t, "open", jobs, ls) /\ lock["init"] = None
      BY <2>2 DEF LockInit
    <3>2. Others(ls, t)
      BY <3>1, <1>1, LocksOfOthers DEF Locks
    <3> HIDE DEF ls
    <3> QED BY <3>1, <3>2, <1>1, WaitGoes
  <2> QED BY <2>1, <2>2
<1> QED BY <1>0, <1>1, <1>2, <1>3, QuietTxn DEF SameConn

(* Open(t).                                                                *)
LEMMA OpenTxn == ASSUME IInv, TxnInv, NEW t \in Tasks, Open(t) PROVE TxnInv'
<1>0. /\ pc[t] = "open" /\ pc[t] \in OnlyInit
      /\ "open" \notin Statements \cup Work \cup {"idle", "close", "done"}
      /\ "journal" \in Statements
      /\ {"journal", "done"} \subseteq PCs \ {"ddl", "row1", "row2", "commit", "begin", "undo"}
      /\ UNCHANGED <<txn, stored, spoiled>>
  BY DEF Open, Statements, Work, Pragmas, Body, PCs, OnlyInit
<1>1. /\ TypeInv
      /\ Freed(jobs, t)
      /\ t \notin Closers
      /\ aio = None /\ opened < MaxConns
  BY <1>0, WaitFacts DEF TxnInv, IInv, InitInv
<1>2. CASE Return(t, "error", jobs) /\ UNCHANGED <<aio, opened, live>>
  <2>1. Goes(t, "done", aio, "error") /\ SameConn
    BY <1>0, <1>1, <1>2, ReturnGoes DEF SameConn
  <2> QED BY <2>1, <1>0, <1>1, QuietTxn DEF SameConn
<1>3. CASE /\ aio' = opened + 1
           /\ opened' = opened + 1
           /\ live' = live \cup {opened + 1}
           /\ Issue(t, opened + 1, "journal", jobs, lock)
  <2>1. opened + 1 \in Conns /\ opened + 1 # None
    BY <1>1, LifecycleAssumption DEF TypeInv, Conns
  <2>2. Goes(t, "journal", aio', "error")
    BY <2>1, <1>0, <1>1, <1>3, IssueGoes, LocksOfOthers
  <2>3. OpenedConn
    BY <2>1, <1>0, <1>1, <1>3 DEF OpenedConn
  <2> QED BY <2>2, <2>3, <1>0, <1>1, QuietTxn
<1> QED BY <1>2, <1>3 DEF Open

(* The statement of t raises while its transaction, if it has one, is open *)
(* only in the body.                                                       *)
LEMMA FailTxn ==
  ASSUME IInv, TxnInv, NEW t \in Calls, NEW js, Freed(js, t), Fail(t, js),
         pc[t] \in Statements, SameConn, UNCHANGED <<txn, stored>>,
         pc[t] \in Work \ Body \/ aio = None => \A k \in Conns : txn[k] = None
  PROVE  TxnInv'
<1>0. /\ t \in Tasks \ Closers /\ pc[t] # "done" /\ TypeInv
      /\ Body \subseteq Work
      /\ {"undo", "abort", "done"} \subseteq PCs \ {"ddl", "row1", "row2", "commit", "begin"}
  BY LifecycleAssumption DEF Tasks, IInv, PCs, Statements, Body, Pragmas, Work
<1>1. CASE pc[t] \in Body /\ aio # None /\ lock' = lock /\ Goes(t, "undo", aio, "error")
  BY <1>0, <1>1, QuietTxn DEF SameConn, TxnInv
<1>2. CASE pc[t] \notin Body /\ Goes(t, "abort", aio, "error")
  BY <1>0, <1>2, QuietTxn DEF SameConn
<1>3. CASE (pc[t] \in Body => aio = None) /\ Goes(t, "done", aio, "error")
  BY <1>0, <1>3, QuietTxn DEF SameConn
<1> QED BY <1>0, <1>1, <1>2, <1>3, FailGoes

(* StatementFails(t, k): a COMMIT or ROLLBACK fails only on a connection   *)
(* that is closed, and a closed connection has no transaction.             *)
LEMMA StatementFailsTxn ==
  ASSUME IInv, TxnInv, NEW t \in Tasks, NEW k \in Conns, StatementFails(t, k)
  PROVE  TxnInv'
<1>1. /\ Freed(Rest(k), t)
      /\ In(jobs, t, k)
      /\ pc[t] \in Statements \ {"abort", "close"}
  <2>1. In(jobs, t, k)
    BY DEF StatementFails, Turn, In, IInv, TypeInv, JobsTyped
  <2> QED BY <2>1, TurnFacts DEF StatementFails, IInv, QueueInv
<1>2. t \in Calls
  BY <1>1, NoCloser DEF Statements, Pragmas, Body
<1>3. SameConn /\ UNCHANGED <<txn, stored>> /\ Fail(t, Rest(k))
  BY DEF StatementFails, connVars, auxVars, SameConn
<1>4. ASSUME pc[t] \in Work \ Body, NEW j \in Conns, txn[j] # None
      PROVE  FALSE
  <2>1. lock["txn"] = t /\ pc[t] \in {"commit", "undo"}
    BY <1>4 DEF TxnInv, Work
  <2>2. j = k /\ k \in live
    <3>1. j = aio
      BY <1>4, TxnOnAio
    <3>2. InBlock(j)
      BY <3>1, <1>4 DEF TxnInv, SpoilInv
    <3> QED BY <3>2, <2>1, <1>1 DEF InBlock
  <2> QED BY <2>1, <2>2 DEF StatementFails, Possible
<1>5. aio = None => \A j \in Conns : txn[j] = None
  BY TxnOnAio, LifecycleAssumption
<1> QED BY <1>1, <1>2, <1>3, <1>4, <1>5, FailTxn

(* CancelInit(t): at COMMIT and ROLLBACK the transaction is gone; at any   *)
(* other place outside the body none is open.                              *)
LEMMA CancelInitTxn == ASSUME IInv, TxnInv, NEW t \in Calls, CancelInit(t) PROVE TxnInv'
<1>0. /\ t \in Tasks \ Closers
      /\ lock["init"] = t
      /\ pc[t] \in Statements \ {"done", "idle"}
      /\ {"undo", "abort", "done"} \subseteq PCs
      /\ {"abort", "done"} \cap (Work \cup {"begin"}) = {}
      /\ {"commit", "undo"} \cap Body = {}
  BY LifecycleAssumption DEF CancelInit, Tasks, Statements, Pragmas, Body, PCs, Work
<1>1. TypeInv /\ Freed(Orphaned(t), t) /\ Fail(t, Orphaned(t)) /\ SameConn
  BY <1>0, FreeByOrphan DEF CancelInit, IInv, SameConn
<1>2. CASE pc[t] \in {"commit", "undo"} /\ aio # None
  <2>1. \E x \in {"abort", "done"} : Goes(t, x, aio, "error")
    BY <1>0, <1>1, <1>2, FailGoes
  <2>2. lock["txn"] = t /\ pc[t] \in Work
    BY <1>0, <1>2 DEF TxnInv, Work
  <2>3. aio \in Conns /\ txn' = [txn EXCEPT ![aio] = None]
    BY <1>1, <1>2 DEF CancelInit, TypeInv
  <2>4. \A c \in Calls : result'[c] = "ok" <=> result[c] = "ok"
    <3>1. result[t] = "pending"
      BY <1>0 DEF TxnInv
    <3>2. result' = result \/ result' = [result EXCEPT ![t] = "error"]
      BY <2>1 DEF Goes
    <3> QED BY <3>1, <3>2, <1>0 DEF TxnInv, Tasks
  <2>5. stored' = {c \in Calls : result'[c] = "ok"} \X {1, 2}
    <3>1. {c \in Calls : result'[c] = "ok"} = {c \in Calls : result[c] = "ok"}
      BY <2>4
    <3> QED BY <3>1 DEF TxnInv, CancelInit
  <2> QED BY <2>1, <2>2, <2>3, <2>5, <1>0, <1>1, ClearedTxn DEF SameConn
<1>3. CASE pc[t] \notin {"commit", "undo"} \/ aio = None
  <2>1. txn' = txn /\ UNCHANGED stored
    <3>1. ASSUME aio = None
          PROVE  [txn EXCEPT ![aio] = None] = txn
      BY <3>1, LifecycleAssumption DEF TxnInv
    <3> QED BY <3>1, <1>3 DEF CancelInit
  <2>2. aio = None => \A j \in Conns : txn[j] = None
    BY TxnOnAio, LifecycleAssumption
  <2>3. pc[t] \in Work \ Body => aio = None
    BY <1>3 DEF Work
  <2> QED BY <2>1, <2>2, <2>3, <1>0, <1>1, FailTxn
<1> QED BY <1>2, <1>3

(* RunOrphan(k): the job of nobody does nothing.                           *)
LEMMA RunOrphanTxn == ASSUME IInv, TxnInv, NEW k \in Conns, RunOrphan(k) PROVE TxnInv'
<1>1. \A u \in Tasks, l \in Conns : In(jobs', u, l) => In(jobs, u, l)
  BY FreeByTurn DEF RunOrphan, IInv, Freed
<1>2. UNCHANGED <<aio, live, opened, txn, stored, lock, pc, result, spoiled>>
  BY DEF RunOrphan, connVars, auxVars
<1>3. \A t \in Tasks : Written(t)' = Written(t)
  BY <1>2 DEF Written
<1>4. NewConn'
  BY <1>1, <1>2 DEF TxnInv, NewConn
<1>5. \A j \in Conns : txn[j] # None => InBlock(j)' \/ j \in spoiled
  BY <1>1, <1>2 DEF TxnInv, InBlock
<1>6. \A t \in Tasks, j \in live :
        In(jobs', t, j) /\ pc[t] \in Work \ {"undo"} => txn[j] = Written(t)'
  BY <1>1, <1>3 DEF TxnInv, IInv, TypeInv
<1>7. SpoilInv'
  BY <1>2 DEF TxnInv, SpoilInv
<1> QED BY <1>2, <1>4, <1>5, <1>6, <1>7 DEF TxnInv

(* The steps that read, or wait for a lock, or take one.                   *)
LEMMA AwaitTxn ==
  ASSUME IInv, TxnInv, NEW t \in Calls, NEW js, Freed(js, t),
         NEW x \in (LockWaits \cup Statements) \ (Work \cup {"close"}),
         NEW ls, Others(ls, t),
         Wait(t, x, js, ls) \/ (x \in Statements /\ Issue(t, aio, x, js, ls)),
         SameConn, UNCHANGED <<txn, stored>>,
         pc[t] \notin Work \cup {"done"}, x = "begin" => ls["txn"] = t
  PROVE  TxnInv'
<1>0. /\ t \in Tasks \ Closers
      /\ TypeInv
      /\ {x, "done"} \subseteq PCs \ {"ddl", "row1", "row2", "commit", "undo"}
      /\ x # "done"
  BY LifecycleAssumption
  DEF Tasks, IInv, PCs, LockWaits, Statements, Pragmas, Body, Work
<1>1. CASE lock' = ls /\ Goes(t, x, aio, "error")
  BY <1>0, <1>1, QuietTxn DEF SameConn
<1>2. CASE Goes(t, "done", aio, "error")
  BY <1>0, <1>2, QuietTxn DEF SameConn
<1>3. CASE Wait(t, x, js, ls)
  BY <1>0, <1>1, <1>3, WaitGoes DEF Wait
<1>4. CASE x \in Statements /\ Issue(t, aio, x, js, ls)
  BY <1>0, <1>1, <1>2, <1>4, IssueGoes DEF TypeInv
<1> QED BY <1>3, <1>4

(* What holds of a call whose job is run on an open connection.            *)
LEMMA RunFacts ==
  ASSUME IInv, TxnInv, NEW t \in Tasks, NEW k \in Conns, Turn(t, k),
         pc[t] \notin {"close", "idle", "done"}
  PROVE  /\ t \in Calls
         /\ TypeInv
         /\ Freed(Rest(k), t)
         /\ In(jobs, t, k)
         /\ pc[t] \in Statements
         /\ Possible(t, k) => aio = k
<1>1. In(jobs, t, k)
  BY DEF Turn, In, IInv, TypeInv, JobsTyped
<1> QED BY <1>1, NoCloser, TurnFacts DEF Possible, IInv, NoLeak, QueueInv

(* Pragma(t, k).                                                           *)
LEMMA PragmaTxn ==
  ASSUME IInv, TxnInv, NEW t \in Tasks, NEW k \in Conns, Pragma(t, k)
  PROVE  TxnInv'
<1> DEFINE x == IF pc[t] = "fks" THEN "txn_lock"
                ELSE IF pc[t] = "journal" THEN "sync" ELSE "fks"
<1>1. pc[t] \notin Work \cup {"close", "idle", "done"} /\ Turn(t, k)
  BY DEF Pragma, Pragmas, Work, Body
<1>2. x \in (LockWaits \cup Statements) \ (Work \cup {"close", "begin"})
  BY DEF LockWaits, Statements, Pragmas, Work, Body
<1>3. Wait(t, x, Rest(k), lock) \/ (x \in Statements /\ Issue(t, aio, x, Rest(k), lock))
  BY DEF Pragma, Statements, Pragmas
<1>4. SameConn /\ UNCHANGED <<txn, stored>>
  BY DEF Pragma, connVars, auxVars, SameConn
<1> HIDE DEF x
<1> QED BY <1>1, <1>2, <1>3, <1>4, RunFacts, LocksOfOthers, AwaitTxn

(* LockSession(t).                                                         *)
LEMMA LockSessionTxn ==
  ASSUME IInv, TxnInv, NEW t \in Tasks, LockSession(t) PROVE TxnInv'
<1> DEFINE ls == [lock EXCEPT !["session"] = t]
<1>1. pc[t] = "session_lock" /\ lock["session"] = None /\ Issue(t, aio, "read", jobs, ls)
  BY DEF LockSession
<1>2. pc[t] \notin Statements \cup Work \cup {"close", "idle", "done"}
  BY <1>1 DEF Statements, Pragmas, Work, Body
<1>3. t \in Calls /\ TypeInv /\ Freed(jobs, t)
  BY <1>2, NoCloser, WaitFacts
<1>4. Others(ls, t)
  BY <1>1, <1>3, LocksOfOthers DEF Locks
<1>5. SameConn /\ UNCHANGED <<txn, stored>>
  BY DEF LockSession, connVars, auxVars, SameConn
<1>6. "read" \in Statements \ (Work \cup {"close", "begin"})
  BY DEF Statements, Pragmas, Work, Body
<1> HIDE DEF ls
<1> QED BY <1>1, <1>2, <1>3, <1>4, <1>5, <1>6, AwaitTxn

(* Read(t, k).                                                             *)
LEMMA ReadTxn ==
  ASSUME IInv, TxnInv, NEW t \in Tasks, NEW k \in Conns, Read(t, k)
  PROVE  TxnInv'
<1>1. pc[t] \notin Work \cup {"close", "idle", "done"} /\ Turn(t, k)
  BY DEF Read, Work, Body
<1>2. Wait(t, "txn_lock", Rest(k), lock)
  BY DEF Read
<1>3. "txn_lock" \in LockWaits \ (Work \cup {"close", "begin"})
  BY DEF LockWaits, Work, Body
<1>4. SameConn /\ UNCHANGED <<txn, stored>>
  BY DEF Read, connVars, auxVars, SameConn
<1> QED BY <1>1, <1>2, <1>3, <1>4, RunFacts, LocksOfOthers, AwaitTxn

(* LockTxn(t).                                                             *)
LEMMA LockTxnTxn ==
  ASSUME IInv, TxnInv, NEW t \in Tasks, LockTxn(t) PROVE TxnInv'
<1> DEFINE ls == [lock EXCEPT !["txn"] = t]
<1>1. pc[t] = "txn_lock" /\ lock["txn"] = None /\ Issue(t, aio, "begin", jobs, ls)
  BY DEF LockTxn
<1>2. pc[t] \notin Statements \cup Work \cup {"close", "idle", "done"}
  BY <1>1 DEF Statements, Pragmas, Work, Body
<1>3. t \in Calls /\ TypeInv /\ Freed(jobs, t)
  BY <1>2, NoCloser, WaitFacts
<1>4. Others(ls, t) /\ ls["txn"] = t
  BY <1>1, <1>3, LocksOfOthers DEF Locks
<1>5. SameConn /\ UNCHANGED <<txn, stored>>
  BY DEF LockTxn, connVars, auxVars, SameConn
<1>6. "begin" \in Statements \ (Work \cup {"close"})
  BY DEF Statements, Pragmas, Work, Body
<1> HIDE DEF ls
<1> QED BY <1>1, <1>2, <1>3, <1>4, <1>5, <1>6, AwaitTxn

(* Begin(t, k): the transaction starts empty.                              *)
LEMMA BeginTxn ==
  ASSUME IInv, TxnInv, NEW t \in Tasks, NEW k \in Conns, Begin(t, k)
  PROVE  TxnInv'
<1> DEFINE x == IF lock["init"] = t THEN "ddl" ELSE "row1"
<1>1. pc[t] = "begin" /\ pc[t] \notin {"close", "idle", "done"} /\ Turn(t, k) /\ k \in live
  BY DEF Begin, Possible
<1>2. t \in Calls /\ TypeInv /\ Freed(Rest(k), t) /\ aio = k
  BY <1>1, RunFacts DEF Begin
<1>3. x \in {"ddl", "row1"} /\ x \in Statements
  BY DEF Statements, Body
<1>4. lock' = lock /\ Goes(t, x, k, "error")
  <2>1. Issue(t, k, x, Rest(k), lock) /\ k # None
    BY <1>2, LifecycleAssumption DEF Begin
  <2> HIDE DEF x
  <2> QED BY <2>1, <1>2, <1>3, IssueGoes, LocksOfOthers
<1>5. Written(t)' = {}
  <2>1. pc'[t] \in {"ddl", "row1"}
    BY <1>2, <1>3, <1>4 DEF Goes, Moved, TypeInv
  <2> QED BY <2>1 DEF Written
<1>6. lock["txn"] = t
  BY <1>1 DEF TxnInv
<1>7. SameConn /\ UNCHANGED stored /\ txn' = [txn EXCEPT ![k] = {}]
  BY DEF Begin, SameConn, auxVars
<1>8. k \notin spoiled
  BY <1>1 DEF Begin, Possible, TxnInv, SpoilInv
<1> HIDE DEF x
<1> QED BY <1>1, <1>2, <1>3, <1>4, <1>5, <1>6, <1>7, <1>8, WritingTxn

(* Write(t, k): the rows of t so far and the next one.                     *)
LEMMA WriteTxn ==
  ASSUME IInv, TxnInv, NEW t \in Tasks, NEW k \in Conns, Write(t, k)
  PROVE  TxnInv'
<1> DEFINE x    == IF pc[t] = "row1" THEN "row2" ELSE "commit"
           rows == CASE pc[t] = "ddl"  -> {}
                     [] pc[t] = "row1" -> {<<t, 1>>}
                     [] pc[t] = "row2" -> {<<t, 1>>, <<t, 2>>}
<1>1. /\ pc[t] \in Body /\ pc[t] \in Work \ {"undo"}
      /\ pc[t] \notin {"close", "idle", "done"}
      /\ Turn(t, k) /\ k \in live
  BY DEF Write, Possible, Work, Body
<1>2. t \in Calls /\ TypeInv /\ Freed(Rest(k), t) /\ aio = k /\ In(jobs, t, k)
  BY <1>1, RunFacts DEF Write
<1>3. x \in {"row2", "commit"} /\ x \in Statements
  BY DEF Statements, Body
<1>4. lock' = lock /\ Goes(t, x, k, "error")
  <2>1. Issue(t, k, x, Rest(k), lock) /\ k # None
    BY <1>2, LifecycleAssumption DEF Write
  <2> HIDE DEF x
  <2> QED BY <2>1, <1>2, <1>3, IssueGoes, LocksOfOthers
<1>5. lock["txn"] = t
  BY <1>1 DEF TxnInv
<1>6. lock["init"] = t <=> pc[t] = "ddl"
  BY <1>1 DEF IInv, InitInv, InInit, OnlyInit, Pragmas, Body
<1>7. rows \in SUBSET Rows
  BY <1>1, <1>2 DEF Rows, Body
<1>8. rows = Written(t)'
  <2>1. pc'[t] = x
    BY <1>2, <1>3, <1>4 DEF Goes, Moved, TypeInv
  <2>2. CASE pc[t] = "ddl"
    BY <2>1, <2>2, <1>4, <1>6 DEF Written
  <2>3. CASE pc[t] = "row1"
    BY <2>1, <2>3 DEF Written
  <2>4. CASE pc[t] = "row2"
    BY <2>1, <2>4, <1>4, <1>6 DEF Written
  <2> QED BY <2>2, <2>3, <2>4, <1>1 DEF Body
<1>9. txn' = [txn EXCEPT ![k] = rows]
  <2>1. txn[k] = Written(t)
    BY <1>1, <1>2 DEF TxnInv
  <2>2. txn[k] \in SUBSET Rows /\ txn[k] # None
    <3>1. Written(t) \in SUBSET Rows
      BY <1>2 DEF Written, Rows
    <3> QED BY <2>1, <3>1, LifecycleAssumption
  <2>3. CASE pc[t] = "ddl"
    BY <2>1, <2>2, <2>3 DEF Write, Written
  <2>4. CASE pc[t] = "row1"
    BY <2>1, <2>2, <2>4 DEF Write, Written
  <2>5. CASE pc[t] = "row2"
    BY <2>1, <2>2, <2>5 DEF Write, Written
  <2> QED BY <2>3, <2>4, <2>5, <1>1 DEF Body
<1>10. SameConn /\ UNCHANGED stored
  BY DEF Write, SameConn, auxVars
<1>11. k \notin spoiled
  BY <1>1, <1>2 DEF TxnInv, SpoilInv
<1> HIDE DEF x, rows
<1> QED BY <1>1, <1>2, <1>3, <1>4, <1>5, <1>7, <1>8, <1>9, <1>10, <1>11, WritingTxn

(* Commit(t, k): a call stores both its rows and returns, an               *)
(* initialisation stores none and goes on.                                 *)
LEMMA CommitTxn ==
  ASSUME IInv, TxnInv, NEW t \in Tasks, NEW k \in Conns, Commit(t, k)
  PROVE  TxnInv'
<1>1. /\ pc[t] = "commit" /\ pc[t] \in Work \ {"undo"}
      /\ pc[t] \notin {"close", "idle", "done"}
      /\ Turn(t, k) /\ k \in live
  BY DEF Commit, Possible, Work
<1>2. /\ t \in Calls /\ t \notin Closers /\ TypeInv /\ Freed(Rest(k), t)
      /\ aio = k /\ In(jobs, t, k) /\ aio # None
  BY <1>1, RunFacts, LifecycleAssumption DEF Commit
<1>3. lock["txn"] = t /\ result[t] = "pending"
  BY <1>1 DEF TxnInv
<1>4. txn[k] = Written(t) /\ txn[k] # None
  <2>1. Written(t) \in SUBSET Rows
    BY <1>2 DEF Written, Rows
  <2> QED BY <2>1, <1>1, <1>2, LifecycleAssumption DEF TxnInv
<1>5. stored' = stored \cup Written(t)
  BY <1>4 DEF Commit
<1>6. {"session_lock", "read", "done"} \subseteq PCs \ (Work \cup {"begin"})
  BY DEF PCs, LockWaits, Statements, Work, Body
<1>7. /\ SameConn
      /\ txn' = [txn EXCEPT ![k] = None]
      /\ stored = {c \in Calls : result[c] = "ok"} \X {1, 2}
  BY DEF Commit, SameConn, TxnInv, auxVars
<1>8. CASE lock["init"] = t
  <2>1. \E x \in {"session_lock", "read"} : Goes(t, x, aio, "error")
    BY <1>2, <1>8, ProceedGoes DEF Commit
  <2>2. Written(t) = {}
    BY <1>1, <1>8 DEF Written
  <2>3. result' = result
    BY <2>1 DEF Goes
  <2>4. stored' = {c \in Calls : result'[c] = "ok"} \X {1, 2}
    BY <2>2, <2>3, <1>5, <1>7
  <2> QED BY <2>1, <2>4, <1>1, <1>2, <1>3, <1>6, <1>7, ClearedTxn DEF SameConn
<1>9. CASE lock["init"] # t
  <2>1. Goes(t, "done", aio, "ok")
    BY <1>2, <1>9, ReturnGoes DEF Commit
  <2>2. Written(t) = {t} \X {1, 2}
    BY <1>1, <1>9 DEF Written
  <2>3. \A c \in Calls : result'[c] = "ok" <=> c = t \/ result[c] = "ok"
    BY <2>1, <1>2 DEF Goes, TxnInv, Tasks
  <2>4. {c \in Calls : result'[c] = "ok"} = {c \in Calls : result[c] = "ok"} \cup {t}
    BY <2>3, <1>2
  <2>5. stored' = {c \in Calls : result'[c] = "ok"} \X {1, 2}
    BY <2>2, <2>4, <1>5, <1>7
  <2> QED BY <2>1, <2>5, <1>1, <1>2, <1>3, <1>6, <1>7, ClearedTxn DEF SameConn
<1> QED BY <1>8, <1>9

(* A step that ends transactions and stores nothing.                       *)
LEMMA NothingStored ==
  ASSUME TxnInv, NEW t \in Tasks, NEW x, NEW r, Goes(t, x, aio, r),
         pc[t] # "done", r = "ok" => t \in Closers, UNCHANGED stored
  PROVE  stored' = {c \in Calls : result'[c] = "ok"} \X {1, 2}
<1>1. result[t] = "pending" /\ result \in [Tasks -> {"pending", "ok", "error"}]
  BY DEF TxnInv
<1>2. result' = result \/ result' = [result EXCEPT ![t] = r]
  BY DEF Goes
<1>3. \A c \in Calls : result'[c] = "ok" <=> result[c] = "ok"
  BY <1>1, <1>2, LifecycleAssumption DEF Tasks
<1>4. {c \in Calls : result'[c] = "ok"} = {c \in Calls : result[c] = "ok"}
  BY <1>3
<1> QED BY <1>4 DEF TxnInv

(* Undo(t, k).                                                             *)
LEMMA UndoTxn ==
  ASSUME IInv, TxnInv, NEW t \in Tasks, NEW k \in Conns, Undo(t, k)
  PROVE  TxnInv'
<1>1. /\ pc[t] = "undo" /\ pc[t] \in Work \ Body
      /\ pc[t] \notin {"close", "idle", "done"}
      /\ Turn(t, k) /\ k \in live
  BY DEF Undo, Possible, Work, Body
<1>2. t \in Calls /\ t \notin Closers /\ TypeInv /\ Freed(Rest(k), t) /\ aio = k
  BY <1>1, RunFacts, LifecycleAssumption DEF Undo
<1>3. Fail(t, Rest(k))
  BY <1>1 DEF Undo, Fail
<1>4. \E x \in {"abort", "done"} : Goes(t, x, aio, "error")
  BY <1>1, <1>2, <1>3, FailGoes
<1>5. {"abort", "done"} \subseteq PCs \ (Work \cup {"begin"})
  BY DEF PCs, Statements, Work, Body
<1>6. SameConn /\ txn' = [txn EXCEPT ![k] = None] /\ UNCHANGED stored /\ lock["txn"] = t
  BY <1>1 DEF Undo, SameConn, TxnInv, auxVars
<1>7. stored' = {c \in Calls : result'[c] = "ok"} \X {1, 2}
  BY <1>1, <1>4, <1>6, NothingStored
<1> QED BY <1>1, <1>2, <1>4, <1>5, <1>6, <1>7, ClearedTxn DEF SameConn

(* EndFails(t, k): SQLite has undone the transaction, or it stays on the   *)
(* connection of t, where it was the only one at work.                     *)
LEMMA EndFailsTxn ==
  ASSUME IInv, TxnInv, NEW t \in Tasks, NEW k \in Conns, EndFails(t, k)
  PROVE  TxnInv'
<1>1. /\ pc[t] \in {"commit", "undo"} /\ pc[t] \in Work \ Body
      /\ pc[t] \notin {"close", "idle", "done"}
      /\ Turn(t, k) /\ k \in live
  BY DEF EndFails, Possible, Work, Body
<1>2. t \in Calls /\ t \notin Closers /\ TypeInv /\ Freed(Rest(k), t) /\ aio = k
  BY <1>1, RunFacts, LifecycleAssumption DEF EndFails
<1>3. \E x \in {"abort", "done"} : Goes(t, x, aio, "error")
  BY <1>1, <1>2, FailGoes DEF EndFails
<1>4. {"abort", "done"} \subseteq PCs \ (Work \cup {"begin"})
  BY DEF PCs, Statements, Work, Body
<1>5. UNCHANGED <<aio, live, opened, stored>> /\ lock["txn"] = t
  BY <1>1 DEF EndFails, TxnInv
<1>6. stored' = {c \in Calls : result'[c] = "ok"} \X {1, 2}
  BY <1>1, <1>3, <1>5, NothingStored
<1>7. CASE txn' = [txn EXCEPT ![k] = None] /\ UNCHANGED spoiled
  BY <1>1, <1>2, <1>3, <1>4, <1>5, <1>6, <1>7, ClearedTxn
<1>8. CASE txn[k] # None /\ spoiled' = spoiled \cup {k} /\ UNCHANGED txn
  <2>1. PICK x \in {"abort", "done"} : Goes(t, x, aio, "error")
    BY <1>3
  <2>2. /\ pc'[t] = x
        /\ result'[t] = IF x = "done" THEN "error" ELSE "pending"
        /\ \A u \in Tasks \ {t} : pc'[u] = pc[u] /\ result'[u] = result[u]
        /\ \A u \in Tasks, l \in Conns : In(jobs', u, l) =>
             \/ u # t /\ In(jobs, u, l)
             \/ u = t /\ l = aio
        /\ result' \in [Tasks -> {"pending", "ok", "error"}]
        /\ \A u \in Tasks \ {t} : lock'["txn"] = u <=> lock["txn"] = u
    BY <2>1, <1>1, <1>4, GoesTyped
  <2>3. \A u \in Tasks : pc'[u] \notin Work
    BY <2>2, <1>4, <1>5 DEF TxnInv
  <2>4. NewConn'
    BY <2>2, <1>2, <1>5, LifecycleAssumption DEF TxnInv, NewConn
  <2>5. \A u \in Tasks : pc'[u] \in Work \cup {"begin"} => lock'["txn"] = u
    BY <2>2, <1>4 DEF TxnInv
  <2>6. SpoilInv'
    <3>1. k <= opened
      BY <1>2, LifecycleAssumption DEF TxnInv, NewConn
    <3>2. \A j \in spoiled' : j \in Conns /\ j <= opened /\ (j \in live <=> txn[j] # None)
      BY <3>1, <1>1, <1>8 DEF TxnInv, SpoilInv
    <3> QED BY <3>2, <2>3, <1>5, <1>8 DEF SpoilInv
  <2>7. \A j \in Conns : txn'[j] # None => j \in spoiled'
    BY <1>2, <1>8, TxnOnAio
  <2>8. \A u \in Tasks : result'[u] # "pending" => pc'[u] = "done"
    BY <2>2 DEF TxnInv
  <2>9. \A u \in Closers : pc'[u] \in {"idle", "close", "done"}
    BY <2>2, <1>2 DEF TxnInv, Tasks
  <2>10. txn' \in [Conns -> (SUBSET Rows) \cup {None}]
    BY <1>8 DEF TxnInv
  <2> QED BY <2>2, <2>3, <2>4, <2>5, <2>6, <2>7, <2>8, <2>9, <2>10, <1>6 DEF TxnInv
<1> QED BY <1>7, <1>8 DEF EndFails

(* Abort(t, k) and Closed(t, k): the connection takes its transaction      *)
(* along, whoever it belongs to.                                           *)
LEMMA EndTxn ==
  ASSUME IInv, TxnInv, NEW t \in Tasks, NEW k \in Conns, Abort(t, k) \/ Closed(t, k)
  PROVE  TxnInv'
<1>1. CASE Abort(t, k)
  <2>1. Turn(t, k) /\ pc[t] = "abort" /\ lock["init"] = t
    BY <1>1 DEF Abort, IInv, InitInv, OnlyInit
  <2>2. k = aio /\ TypeInv /\ Freed(Rest(k), t) /\ t \notin Closers
    BY <2>1, TurnFacts DEF TxnInv
  <2>3. Goes(t, "done", aio, "error")
    BY <2>2, <1>1, ReturnGoes DEF Abort
  <2>4. /\ live' = live \ {k} /\ txn' = [txn EXCEPT ![k] = None] /\ aio' = None
        /\ UNCHANGED <<opened, stored, spoiled>>
    BY <1>1 DEF Abort, auxVars
  <2>5. "done" \in PCs \ (Work \cup {"begin"})
    BY DEF PCs, Work, Body
  <2>6. stored' = {c \in Calls : result'[c] = "ok"} \X {1, 2}
    BY <2>1, <2>3, <2>4, NothingStored
  <2> QED BY <2>1, <2>2, <2>3, <2>4, <2>5, <2>6, ClearedTxn
<1>2. CASE Closed(t, k)
  <2>1. Turn(t, k) /\ pc[t] = "close"
    BY <1>2 DEF Closed
  <2>2. k = aio /\ TypeInv /\ Freed(Rest(k), t) /\ t \in Closers
    BY <2>1, TurnFacts DEF IInv, CloseInv
  <2>3. Goes(t, "done", aio, "ok")
    BY <2>2, <1>2, ReturnGoes DEF Closed
  <2>4. /\ live' = live \ {k} /\ txn' = [txn EXCEPT ![k] = None] /\ aio' = None
        /\ UNCHANGED <<opened, stored, spoiled>>
    BY <1>2 DEF Closed, auxVars
  <2>5. "done" \in PCs \ (Work \cup {"begin"})
    BY DEF PCs, Work, Body
  <2>6. stored' = {c \in Calls : result'[c] = "ok"} \X {1, 2}
    BY <2>1, <2>2, <2>3, <2>4, NothingStored
  <2> QED BY <2>1, <2>2, <2>3, <2>4, <2>5, <2>6, ClearedTxn
<1> QED BY <1>1, <1>2

(* Close(t) queues the close behind whatever is on its way.                *)
LEMMA CloseTxn == ASSUME IInv, TxnInv, NEW t \in Closers, Close(t) PROVE TxnInv'
<1>0. /\ t \in Tasks /\ pc[t] = "idle"
      /\ pc[t] \notin Statements \cup Work \cup {"done"}
      /\ {"close", "done"} \subseteq PCs \ {"ddl", "row1", "row2", "commit", "begin", "undo"}
      /\ "close" \in Statements
  BY DEF Close, Tasks, Statements, Pragmas, Work, Body, PCs
<1>1. TypeInv /\ Freed(jobs, t)
  BY <1>0, WaitFacts
<1>2. SameConn /\ UNCHANGED <<txn, stored>>
  BY DEF Close, connVars, auxVars, SameConn
<1>3. CASE initialized.client /\ aio # None
  <2>1. Issue(t, aio, "close", jobs, lock)
    BY <1>3 DEF Close
  <2>2. Goes(t, "close", aio, "ok")
    BY <2>1, <1>0, <1>1, <1>3, IssueGoes, LocksOfOthers DEF TypeInv
  <2> QED BY <2>2, <1>0, <1>2, QuietTxn DEF SameConn
<1>4. CASE ~(initialized.client /\ aio # None)
  <2>1. Goes(t, "done", aio, "ok")
    BY <1>1, <1>0, <1>4, ReturnGoes DEF Close
  <2> QED BY <2>1, <1>0, <1>2, QuietTxn DEF SameConn
<1> QED BY <1>3, <1>4

LEMMA InitTxn == ASSUME Init PROVE TxnInv
<1>1. /\ jobs = [k \in Conns |-> <<>>] /\ txn = [k \in Conns |-> None]
      /\ pc = [t \in Tasks |-> "idle"] /\ result = [t \in Tasks |-> "pending"]
      /\ aio = None /\ stored = {} /\ live = {} /\ spoiled = {}
  BY DEF Init
<1>2. \A t \in Tasks, k \in Conns : ~In(jobs, t, k)
  BY <1>1 DEF In
<1>3. {c \in Calls : result[c] = "ok"} = {}
  BY <1>1 DEF Tasks
<1>4. stored = {c \in Calls : result[c] = "ok"} \X {1, 2}
  BY <1>1, <1>3
<1>5. NewConn
  BY <1>1, <1>2 DEF NewConn
<1>6. txn \in [Conns -> (SUBSET Rows) \cup {None}]
  BY <1>1
<1> QED BY <1>1, <1>4, <1>5, <1>6 DEF TxnInv, SpoilInv, Work, Body, Tasks

LEMMA NextTxn == ASSUME IInv, TxnInv, [Next]_vars PROVE TxnInv'
<1>1. CASE UNCHANGED vars
  BY <1>1 DEF vars, TxnInv, SpoilInv, NewConn, InBlock, In, Written
<1>2. ASSUME NEW t \in Calls, Call(t) \/ CancelInit(t)
      PROVE  TxnInv'
  BY <1>2, CallTxn, CancelInitTxn
<1>3. ASSUME NEW t \in Closers, Close(t)
      PROVE  TxnInv'
  BY <1>3, CloseTxn
<1>4. ASSUME NEW t \in Tasks, Step(t)
      PROVE  TxnInv'
  <2>1. CASE LockInit(t) \/ Open(t) \/ LockSession(t) \/ LockTxn(t)
    BY <2>1, LockInitTxn, OpenTxn, LockSessionTxn, LockTxnTxn
  <2>2. ASSUME NEW k \in Conns,
               \/ StatementFails(t, k) \/ EndFails(t, k) \/ Pragma(t, k) \/ Read(t, k) \/ Begin(t, k)
               \/ Write(t, k) \/ Commit(t, k) \/ Undo(t, k)
               \/ Abort(t, k) \/ Closed(t, k)
        PROVE  TxnInv'
    BY <2>2, StatementFailsTxn, EndFailsTxn, PragmaTxn, ReadTxn, BeginTxn, WriteTxn,
       CommitTxn, UndoTxn, EndTxn
  <2> QED BY <2>1, <2>2, <1>4 DEF Step
<1>5. ASSUME NEW k \in Conns, RunOrphan(k)
      PROVE  TxnInv'
  BY <1>5, RunOrphanTxn
<1> QED BY <1>1, <1>2, <1>3, <1>4, <1>5 DEF Next, Terminating

(* A call that returned has both its rows in the file and any other call   *)
(* none, whatever close() and the reopening of the file did in the middle  *)
(* of its transaction.                                                     *)
THEOREM AnswersHold == ASSUME ~Overlap PROVE Spec => []Answers
<1>1. Init => IInv /\ TxnInv
  BY InitSafe, InitTxn
<1>2. IInv /\ TxnInv /\ [Next]_vars => (IInv /\ TxnInv)'
  BY NextSafe, NextTxn
<1>3. IInv /\ TxnInv => Answers
  BY DEF TxnInv, Answers
<1> QED BY <1>1, <1>2, <1>3, PTL DEF Spec

(* Nobody meets a transaction that is not its own on the connection in     *)
(* use: with the transaction lock free none is open, also after a close(), *)
(* a failed initialisation or a cancellation of one, unless a COMMIT or    *)
(* ROLLBACK has failed on that very connection.                            *)
THEOREM ConnectionStaysClean == ASSUME ~Overlap PROVE Spec => []ConnectionClean
<1>1. Init => IInv /\ TxnInv
  BY InitSafe, InitTxn
<1>2. IInv /\ TxnInv /\ [Next]_vars => (IInv /\ TxnInv)'
  BY NextSafe, NextTxn
<1>3. IInv /\ TxnInv => ConnectionClean
  BY LifecycleAssumption DEF IInv, TypeInv, TxnInv, InBlock, ConnectionClean
<1> QED BY <1>1, <1>2, <1>3, PTL DEF Spec

-----------------------------------------------------------------------------
(* Which calls may raise.  A calm call is on its way and no close() has    *)
(* touched it; then no close() runs and none has touched any other call on *)
(* its way, the connection stays the one in use, and all its jobs are      *)
(* there.                                                                  *)
Calm(c) == c \in Calls \ shaken /\ InProgress(c)

StrayInv ==
  /\ shaken \subseteq {c \in Calls : pc[c] # "idle"}
  /\ \A c \in Calls : Calm(c) =>
       /\ ~Closing
       /\ \A u \in shaken : ~InProgress(u)
       /\ pc[c] # "init_lock" => lock["init"] = c \/ initialized.client
       /\ \A k \in Conns : In(jobs, c, k) => k = aio
       /\ initialized.client \/ pc[c] \notin {"init_lock", "abort"} => aio \notin spoiled
  /\ initialized.client => aio \in live
  /\ \A t \in Tasks : lock["init"] = t /\ pc[t] # "open" => aio \in live
  /\ \A c \in Calls \ (shaken \cup faulted) :
       pc[c] \notin {"undo", "abort"} /\ result[c] # "error"

(* A calm call past _ensure(), or in it after open(), has its connection.  *)
LEMMA CalmLive ==
  ASSUME IInv, StrayInv, NEW t \in Calls, Calm(t), pc[t] \notin {"init_lock", "open"}
  PROVE  aio \in live /\ aio \in Conns /\ aio # None
BY LifecycleAssumption DEF StrayInv, IInv, TypeInv, Tasks

(* A step of a call that leaves the connections alone: it stays in the     *)
(* initialisation or past it, and only a shaken or faulted one raises.     *)
LEMMA QuietStray ==
  ASSUME IInv, IInv', TxnInv, StrayInv, NEW t \in Calls, NEW x \in PCs \ {"idle", "init_lock"},
         NEW r \in {"ok", "error"}, Goes(t, x, aio, r), pc[t] \notin {"idle", "done"},
         SameConn, UNCHANGED shaken, faulted \subseteq faulted',
         initialized.client => initialized'.client,
         initialized'.client => aio \in live,
         initialized'.client /\ ~initialized.client => aio \notin spoiled,
         pc[t] # "abort",
         pc[t] = "init_lock" /\ ~initialized.client => aio \notin spoiled,
         x # "done" => lock'["init"] = t \/ initialized'.client \/ t \in shaken,
         lock'["init"] = t => x = "open" \/ (lock["init"] = t /\ pc[t] # "open"),
         t \notin shaken \cup faulted' =>
            x \notin {"undo", "abort"} /\ ~(x = "done" /\ r = "error")
  PROVE  StrayInv'
<1>1. /\ t \in Tasks \ Closers
      /\ pc'[t] = x
      /\ result'[t] = IF x = "done" THEN r ELSE "pending"
      /\ \A u \in Tasks \ {t} : pc'[u] = pc[u] /\ result'[u] = result[u]
      /\ \A u \in Tasks, l \in Conns : In(jobs', u, l) =>
           \/ u # t /\ In(jobs, u, l)
           \/ u = t /\ l = aio
      /\ \A u \in Tasks \ {t} : lock'["init"] = u <=> lock["init"] = u
  BY GoesTyped, LifecycleAssumption DEF Tasks
<1>2. Calls \subseteq Tasks /\ Closers \subseteq Tasks /\ shaken \subseteq Calls
  BY DEF Tasks, StrayInv
<1>3. ASSUME NEW c \in Calls, Calm(c)'
      PROVE  /\ ~Closing'
             /\ \A u \in shaken' : ~InProgress(u)'
             /\ pc'[c] # "init_lock" => lock'["init"] = c \/ initialized'.client
             /\ \A k \in Conns : In(jobs', c, k) => k = aio'
             /\ initialized'.client \/ pc'[c] \notin {"init_lock", "abort"}
                  => aio' \notin spoiled'
  <2>1. Calm(c)
    BY <1>1, <1>2, <1>3 DEF Calm, InProgress
  <2>2. /\ ~Closing
        /\ \A u \in shaken : ~InProgress(u)
        /\ pc[c] # "init_lock" => lock["init"] = c \/ initialized.client
        /\ \A k \in Conns : In(jobs, c, k) => k = aio
        /\ initialized.client \/ pc[c] \notin {"init_lock", "abort"} => aio \notin spoiled
    BY <2>1 DEF StrayInv
  <2>3. ~Closing'
    BY <2>2, <1>1, <1>2 DEF Closing, InProgress
  <2>4. \A u \in shaken' : ~InProgress(u)'
    BY <2>2, <1>1, <1>2 DEF InProgress
  <2>5. pc'[c] # "init_lock" => lock'["init"] = c \/ initialized'.client
    BY <2>2, <1>1, <1>2, <1>3 DEF Calm, InProgress
  <2>6. \A k \in Conns : In(jobs', c, k) => k = aio'
    BY <2>2, <1>1, <1>2 DEF SameConn
  <2>7. initialized'.client \/ pc'[c] \notin {"init_lock", "abort"} => aio' \notin spoiled'
    BY <2>2, <1>1, <1>2 DEF SameConn
  <2> QED BY <2>3, <2>4, <2>5, <2>6, <2>7
<1>4. \A u \in Tasks : lock'["init"] = u /\ pc'[u] # "open" => aio' \in live'
  BY <1>1 DEF StrayInv, SameConn
<1>5. \A c \in Calls \ (shaken' \cup faulted') :
        pc'[c] \notin {"undo", "abort"} /\ result'[c] # "error"
  BY <1>1, <1>2 DEF StrayInv
<1>6. initialized'.client => aio' \in live'
  BY DEF SameConn
<1>7. shaken' \subseteq {c \in Calls : pc'[c] # "idle"}
  BY <1>1, <1>2 DEF StrayInv
<1> QED BY <1>3, <1>4, <1>5, <1>6, <1>7 DEF StrayInv

(* A step of a call past the init lock to its next statement or to a lock: *)
(* with its connection there it does not raise.                            *)
LEMMA AwaitStray ==
  ASSUME IInv, IInv', TxnInv, StrayInv, NEW t \in Calls, NEW js, Freed(js, t),
         NEW x \in (LockWaits \cup Statements) \ {"init_lock", "undo", "abort"},
         NEW ls, Others(ls, t), ls["init"] = lock["init"],
         Wait(t, x, js, ls) \/ (x \in Statements /\ Issue(t, aio, x, js, ls)),
         pc[t] \notin {"idle", "done", "init_lock", "open", "abort"},
         SameConn, UNCHANGED <<initialized, shaken, faulted>>
  PROVE  StrayInv'
<1>0. /\ t \in Tasks
      /\ TypeInv
      /\ {x, "done"} \subseteq PCs \ {"idle", "init_lock"}
      /\ x # "done" /\ x # "open"
      /\ t \notin shaken => Calm(t)
  BY DEF Tasks, IInv, PCs, LockWaits, Statements, Pragmas, Body, Calm, InProgress
<1>1. t \notin shaken => lock["init"] = t \/ initialized.client
  BY <1>0 DEF StrayInv
<1>2. CASE lock' = ls /\ Goes(t, x, aio, "error")
  BY <1>0, <1>1, <1>2, QuietStray DEF StrayInv
<1>3. CASE aio = None /\ Goes(t, "done", aio, "error")
  <2>1. t \in shaken
    BY <1>0, <1>3, CalmLive
  <2>2. lock'["init"] # t
    BY <1>0, <1>3, GoesTyped DEF IInv, InitInv, InInit, OnlyInit, Pragmas
  <2> QED BY <2>1, <2>2, <1>0, <1>3, QuietStray DEF StrayInv
<1>4. CASE Wait(t, x, js, ls)
  BY <1>0, <1>2, <1>4, WaitGoes DEF Wait
<1>5. CASE x \in Statements /\ Issue(t, aio, x, js, ls)
  BY <1>0, <1>2, <1>3, <1>5, IssueGoes DEF TypeInv
<1> QED BY <1>4, <1>5

(* A call that raises, or is about to roll back or to close a failed       *)
(* initialisation, is a shaken or a faulted one.                           *)
LEMMA FailStray ==
  ASSUME IInv, IInv', TxnInv, StrayInv, NEW t \in Calls, NEW js, Freed(js, t), Fail(t, js),
         pc[t] \in Statements \ {"abort"}, SameConn, UNCHANGED <<initialized, shaken>>,
         faulted \subseteq faulted', t \in shaken \cup faulted'
  PROVE  StrayInv'
<1>0. /\ t \in Tasks /\ TypeInv
      /\ pc[t] \notin {"idle", "done", "init_lock", "open"}
      /\ {"undo", "abort", "done"} \subseteq PCs \ {"idle", "init_lock", "open"}
      /\ t \notin shaken => Calm(t)
      /\ "abort" \in OnlyInit
  BY DEF Tasks, IInv, PCs, Statements, Pragmas, Body, Calm, InProgress, OnlyInit
<1>1. t \notin shaken => lock["init"] = t \/ initialized.client
  BY <1>0 DEF StrayInv
<1>2. CASE lock' = lock /\ Goes(t, "undo", aio, "error")
  BY <1>0, <1>1, <1>2, QuietStray DEF StrayInv
<1>3. CASE lock["init"] = t /\ Goes(t, "abort", aio, "error")
  <2>1. lock'["init"] = t
    BY <1>0, <1>3, GoesTyped DEF IInv, InitInv
  <2> QED BY <2>1, <1>0, <1>3, QuietStray DEF StrayInv
<1>4. CASE Goes(t, "done", aio, "error")
  <2>1. lock'["init"] # t
    BY <1>0, <1>4, GoesTyped DEF IInv, InitInv, InInit, OnlyInit, Pragmas
  <2> QED BY <2>1, <1>0, <1>4, QuietStray DEF StrayInv
<1> QED BY <1>0, <1>2, <1>3, <1>4, FailGoes

(* Call(t): shaken at once if a close() runs, or has touched a call that   *)
(* is still on its way.                                                    *)
LEMMA CallStray ==
  ASSUME IInv, IInv', TxnInv, StrayInv, NEW t \in Calls, Call(t)
  PROVE  StrayInv'
<1>0. /\ t \in Tasks /\ pc[t] = "idle" /\ t \notin Closers
      /\ pc[t] \notin Statements \cup {"done"}
      /\ {"init_lock", "session_lock", "read", "done"}
           \subseteq PCs \ {"open", "undo", "abort", "idle"}
      /\ "idle" \notin {"init_lock", "session_lock", "read", "done"}
      /\ Calls \subseteq Tasks /\ Closers \subseteq Tasks /\ shaken \subseteq Calls
  BY LifecycleAssumption
  DEF Call, Tasks, Statements, Pragmas, Body, PCs, LockWaits, StrayInv
<1>1. TypeInv /\ Freed(jobs, t)
  BY <1>0, WaitFacts
<1>2. UNCHANGED <<aio, live, initialized, spoiled, faulted>>
  BY DEF Call, connVars
<1>3. PICK x \in {"init_lock", "session_lock", "read", "done"} :
        /\ Goes(t, x, aio, "error")
        /\ x = "done" => initialized.client /\ aio = None
        /\ x # "init_lock" <=> initialized.client
  <2>1. CASE initialized.client
    BY <2>1, <1>0, <1>1, ProceedGoes DEF Call
  <2>2. CASE ~initialized.client
    BY <2>2, <1>0, <1>1, WaitGoes, LocksOfOthers DEF Call
  <2> QED BY <2>1, <2>2
<1>4. x # "done"
  BY <1>3, LifecycleAssumption DEF StrayInv, IInv, TypeInv
<1>5. /\ pc'[t] = x
      /\ result'[t] = "pending"
      /\ \A u \in Tasks \ {t} : pc'[u] = pc[u] /\ result'[u] = result[u]
      /\ \A u \in Tasks, l \in Conns : In(jobs', u, l) =>
           \/ u # t /\ In(jobs, u, l)
           \/ u = t /\ l = aio
      /\ \A u \in Tasks \ {t} : lock'["init"] = u <=> lock["init"] = u
  BY <1>0, <1>3, <1>4, GoesTyped
<1>6. lock'["init"] # t
  BY <1>0, <1>5 DEF IInv, InitInv, InInit, OnlyInit, Pragmas
<1>7. \A u \in Tasks : lock'["init"] = u /\ pc'[u] # "open" => aio' \in live'
  BY <1>2, <1>5, <1>6 DEF StrayInv
<1>8. \A c \in Calls \ (shaken' \cup faulted') :
        pc'[c] \notin {"undo", "abort"} /\ result'[c] # "error"
  BY <1>0, <1>2, <1>5 DEF StrayInv, Call
<1>9. CASE Closing \/ (initialized.client /\ aio \in spoiled) \/ \E u \in shaken : InProgress(u)
  <2>1. shaken' = shaken \cup {t}
    BY <1>9 DEF Call
  <2>2. \A c \in Calls : ~Calm(c)'
    <3> SUFFICES ASSUME NEW c \in Calls, Calm(c)' PROVE FALSE
      OBVIOUS
    <3>1. c \notin shaken /\ c # t
      BY <2>1 DEF Calm
    <3>2. Calm(c)
      BY <3>1, <1>0, <1>5 DEF Calm, InProgress
    <3> QED BY <3>2, <1>9 DEF StrayInv
  <2>3. shaken' \subseteq {c \in Calls : pc'[c] # "idle"}
    BY <2>1, <1>0, <1>3, <1>5 DEF StrayInv
  <2> QED BY <2>2, <2>3, <1>2, <1>7, <1>8 DEF StrayInv
<1>10. CASE ~(Closing \/ (initialized.client /\ aio \in spoiled) \/ \E u \in shaken : InProgress(u))
  <2>1. shaken' = shaken
    BY <1>10 DEF Call
  <2>2. ~Closing'
    BY <1>0, <1>5, <1>10 DEF Closing, InProgress
  <2>3. t \notin shaken
    BY <1>0 DEF StrayInv
  <2>4. \A u \in shaken' : ~InProgress(u)'
    BY <2>1, <2>3, <1>0, <1>5, <1>10 DEF InProgress
  <2>5. ASSUME NEW c \in Calls, Calm(c)'
        PROVE  /\ pc'[c] # "init_lock" => lock'["init"] = c \/ initialized'.client
               /\ \A k \in Conns : In(jobs', c, k) => k = aio'
               /\ initialized'.client \/ pc'[c] \notin {"init_lock", "abort"}
                    => aio' \notin spoiled'
    <3>1. CASE c = t
      BY <3>1, <1>0, <1>2, <1>3, <1>5, <1>10
    <3>2. CASE c # t
      <4>1. Calm(c)
        BY <3>2, <2>1, <2>5, <1>0, <1>5 DEF Calm, InProgress
      <4> QED BY <4>1, <3>2, <1>0, <1>2, <1>5 DEF StrayInv
    <3> QED BY <3>1, <3>2
  <2>6. shaken' \subseteq {c \in Calls : pc'[c] # "idle"}
    BY <2>1, <1>0, <1>5 DEF StrayInv
  <2> QED BY <2>2, <2>4, <2>5, <2>6, <1>2, <1>7, <1>8 DEF StrayInv
<1> QED BY <1>9, <1>10

(* LockInit(t).                                                            *)
LEMMA LockInitStray ==
  ASSUME IInv, IInv', TxnInv, StrayInv, NEW t \in Tasks, LockInit(t)
  PROVE  StrayInv'
<1>0. /\ pc[t] = "init_lock" /\ lock["init"] = None /\ t # None
      /\ pc[t] \notin Statements \cup {"idle", "close", "done"}
      /\ {"open", "session_lock", "read", "done"}
           \subseteq PCs \ {"init_lock", "undo", "abort", "idle"}
      /\ "open" # "done"
      /\ {"session_lock", "read", "done"} \cap InInit = {}
  BY LifecycleAssumption
  DEF LockInit, Statements, Pragmas, Body, PCs, LockWaits, InInit, OnlyInit
<1>1. TypeInv /\ Freed(jobs, t) /\ t \in Calls
  BY <1>0, WaitFacts, NoCloser
<1>2. SameConn /\ UNCHANGED <<shaken, faulted>>
  BY DEF LockInit, connVars, auxVars, SameConn
<1>3. CASE initialized.client \/ initialized.backend
  <2>1. initialized.client /\ initialized'.client
    BY <1>1, <1>3 DEF LockInit, IInv, InitInv, TypeInv
  <2>2. aio \in live /\ aio # None
    BY <2>1, LifecycleAssumption DEF StrayInv, IInv, TypeInv
  <2>3. \E x \in {"session_lock", "read"} : Goes(t, x, aio, "error")
    BY <2>2, <1>1, <1>3, ProceedGoes DEF LockInit
  <2>4. lock'["init"] # t
    BY <2>3, <1>0, GoesTyped DEF IInv, InitInv
  <2> QED BY <2>1, <2>2, <2>3, <2>4, <1>0, <1>1, <1>2, QuietStray
<1>4. CASE ~(initialized.client \/ initialized.backend)
  <2> DEFINE ls == [lock EXCEPT !["init"] = t]
  <2>1. Wait(t, "open", jobs, ls) /\ initialized' = initialized
    BY <1>4 DEF LockInit
  <2>2. Others(ls, t) /\ ls["init"] = t
    BY <1>0, <1>1, LocksOfOthers DEF Locks
  <2> HIDE DEF ls
  <2>3. Goes(t, "open", aio, "error") /\ lock' = ls
    BY <2>1, <2>2, <1>0, <1>1, WaitGoes DEF Wait
  <2>4. aio = None /\ aio \notin spoiled
    BY <1>0, <1>4, LifecycleAssumption DEF IInv, InitInv, TxnInv, SpoilInv
  <2> QED BY <2>1, <2>2, <2>3, <2>4, <1>0, <1>1, <1>2, <1>4, QuietStray
<1> QED BY <1>3, <1>4

(* Open(t): while t initialises the other calls wait, or have been shaken. *)
LEMMA OpenStray ==
  ASSUME IInv, IInv', TxnInv, StrayInv, NEW t \in Tasks, Open(t)
  PROVE  StrayInv'
<1>0. /\ pc[t] = "open" /\ pc[t] \in OnlyInit
      /\ pc[t] \notin Statements \cup {"idle", "close", "done"}
      /\ "journal" \in Statements
      /\ {"journal", "done"} \subseteq PCs \ {"init_lock", "undo", "abort", "idle"}
      /\ "journal" # "done"
      /\ "done" \notin InInit
      /\ UNCHANGED <<initialized, spoiled, shaken>>
  BY DEF Open, Statements, Pragmas, Body, PCs, OnlyInit, InInit
<1>1. /\ TypeInv
      /\ Freed(jobs, t)
      /\ t \in Calls /\ t \notin Closers
      /\ Calls \subseteq Tasks /\ Closers \subseteq Tasks
      /\ aio = None /\ opened < MaxConns
      /\ lock["init"] = t /\ ~initialized.client
  BY <1>0, WaitFacts, NoCloser DEF TxnInv, IInv, InitInv, Tasks
<1>2. CASE /\ faulted' = faulted \cup {t}
           /\ Return(t, "error", jobs) /\ UNCHANGED <<aio, opened, live>>
  <2>1. Goes(t, "done", aio, "error") /\ SameConn
    BY <1>0, <1>1, <1>2, ReturnGoes DEF SameConn
  <2>2. lock'["init"] # t
    BY <2>1, <1>0, <1>1, GoesTyped DEF IInv, InitInv
  <2> QED BY <2>1, <2>2, <1>0, <1>1, <1>2, QuietStray
<1>3. CASE /\ aio' = opened + 1
           /\ opened' = opened + 1
           /\ live' = live \cup {opened + 1}
           /\ Issue(t, opened + 1, "journal", jobs, lock)
           /\ UNCHANGED faulted
  <2>1. opened + 1 \in Conns /\ opened + 1 # None
    BY <1>1, LifecycleAssumption DEF TypeInv, Conns
  <2>2. Goes(t, "journal", aio', "error") /\ lock' = lock
    BY <2>1, <1>0, <1>1, <1>3, IssueGoes, LocksOfOthers
  <2>3. /\ pc'[t] = "journal"
        /\ result'[t] = "pending"
        /\ \A u \in Tasks \ {t} : pc'[u] = pc[u] /\ result'[u] = result[u]
        /\ \A u \in Tasks, l \in Conns : In(jobs', u, l) =>
             \/ u # t /\ In(jobs, u, l)
             \/ u = t /\ l = aio'
    BY <2>2, <1>0, <1>1, GoesTyped
  <2>4. ASSUME NEW c \in Calls, Calm(c)'
        PROVE  /\ ~Closing'
               /\ \A u \in shaken' : ~InProgress(u)'
               /\ pc'[c] # "init_lock" => lock'["init"] = c \/ initialized'.client
               /\ \A k \in Conns : In(jobs', c, k) => k = aio'
               /\ aio' \notin spoiled'
    <3>0. aio' \notin spoiled'
      BY <1>0, <1>1, <1>3 DEF TxnInv, SpoilInv, IInv, TypeInv
    <3>1. Calm(c)
      BY <2>3, <2>4, <1>0, <1>1 DEF Calm, InProgress
    <3>2. /\ ~Closing
          /\ \A u \in shaken : ~InProgress(u)
          /\ pc[c] # "init_lock" => lock["init"] = c \/ initialized.client
          /\ shaken \subseteq Calls
      BY <3>1 DEF StrayInv
    <3>3. ~Closing' /\ \A u \in shaken' : ~InProgress(u)'
      BY <3>2, <2>3, <1>0, <1>1 DEF Closing, InProgress
    <3>4. CASE c = t
      BY <3>0, <3>4, <3>3, <2>2, <2>3, <1>1
    <3>5. CASE c # t
      <4>1. pc[c] = "init_lock" /\ pc[c] \notin Statements
        BY <3>2, <3>5, <1>1 DEF Statements, Pragmas, Body
      <4>2. \A k \in Conns : ~In(jobs', c, k)
        BY <4>1, <3>5, <2>3, <1>1 DEF IInv, QueueInv
      <4> QED BY <4>1, <4>2, <3>0, <3>3, <3>5, <2>3, <1>1
    <3> QED BY <3>4, <3>5
  <2>5. aio' \in live'
    BY <1>3
  <2>6. shaken' \subseteq {c \in Calls : pc'[c] # "idle"}
    BY <2>3, <1>0, <1>1 DEF StrayInv
  <2>7. \A c \in Calls \ (shaken' \cup faulted') :
          pc'[c] \notin {"undo", "abort"} /\ result'[c] # "error"
    BY <2>3, <1>0, <1>1, <1>3 DEF StrayInv
  <2> QED BY <2>4, <2>5, <2>6, <2>7 DEF StrayInv
<1> QED BY <1>2, <1>3 DEF Open

(* StatementFails(t, k): on the connection of a calm call any statement is *)
(* possible, and so it raises by a fault or not at all.                    *)
LEMMA StatementFailsStray ==
  ASSUME IInv, IInv', TxnInv, StrayInv, NEW t \in Tasks, NEW k \in Conns, StatementFails(t, k)
  PROVE  StrayInv'
<1>1. /\ Turn(t, k)
      /\ pc[t] \notin {"abort", "close"}
      /\ Fail(t, Rest(k))
      /\ SameConn /\ UNCHANGED <<initialized, shaken>>
      /\ faulted \subseteq faulted'
  BY DEF StatementFails, connVars, auxVars, SameConn
<1>2. pc[t] \in Statements
  BY <1>1 DEF Turn, In, IInv, TypeInv, JobsTyped, QueueInv
<1>3. pc[t] \notin {"close", "idle", "done", "init_lock", "open"}
  BY <1>1, <1>2 DEF Statements, Pragmas, Body
<1>4. t \in Calls /\ Freed(Rest(k), t) /\ In(jobs, t, k)
  BY <1>1, <1>3, RunFacts
<1>5. ASSUME t \notin shaken \cup faulted'
      PROVE  FALSE
  <2>1. Calm(t) /\ ~Possible(t, k)
    BY <1>3, <1>4, <1>5 DEF Calm, InProgress, StatementFails
  <2>2. k \in live
    <3>1. k = aio
      BY <2>1, <1>4 DEF StrayInv
    <3> QED BY <3>1, <2>1, <1>3, <1>4, CalmLive
  <2>3. pc[t] \in {"begin", "sync"} /\ txn[k] # None
    BY <2>1, <2>2 DEF Possible
  <2>4. PICK u \in Tasks : lock["txn"] = u /\ pc[u] \in Work
    <3>1. k = aio /\ aio \notin spoiled
      BY <2>1, <2>3, <1>4 DEF StrayInv
    <3> QED BY <3>1, <2>3 DEF TxnInv, InBlock
  <2>5. u # t /\ pc[u] \notin {"idle", "done", "close", "init_lock"}
    BY <2>3, <2>4 DEF Work, Body
  <2>6. pc[t] # "begin"
    BY <2>4, <2>5, <1>4 DEF TxnInv
  <2>7. lock["init"] = t /\ ~initialized.client
    BY <2>3, <2>6 DEF IInv, InitInv, OnlyInit, Pragmas
  <2>8. u \in Calls /\ InProgress(u)
    BY <2>5, NoCloser DEF InProgress
  <2>9. Calm(u)
    BY <2>1, <2>8 DEF StrayInv, Calm
  <2> QED BY <2>5, <2>7, <2>8, <2>9 DEF StrayInv
<1> QED BY <1>1, <1>2, <1>4, <1>5, FailStray

(* EndFails(t, k): a transaction that stays open shakes every call on its  *)
(* way; one of an initialisation goes with its connection, before the      *)
(* calls that wait for t get there.                                        *)
LEMMA EndFailsStray ==
  ASSUME IInv, IInv', TxnInv, StrayInv, NEW t \in Tasks, NEW k \in Conns, EndFails(t, k)
  PROVE  StrayInv'
<1>1. /\ pc[t] \in {"commit", "undo"}
      /\ pc[t] \notin Body \cup {"abort", "close", "idle", "done", "init_lock", "open"}
      /\ Turn(t, k) /\ k \in live /\ k # None
      /\ Fail(t, Rest(k))
      /\ UNCHANGED <<aio, live, opened, initialized>>
      /\ faulted' = faulted \cup {t}
  BY LifecycleAssumption DEF EndFails, Possible, Body
<1>2. /\ t \in Calls /\ t \in Tasks \ Closers /\ TypeInv /\ Freed(Rest(k), t) /\ aio = k
      /\ pc[t] \in Statements
      /\ Calls \subseteq Tasks /\ Closers \subseteq Tasks
  BY <1>1, RunFacts, LifecycleAssumption DEF EndFails, Tasks
<1>3. CASE UNCHANGED <<spoiled, shaken>>
  BY <1>1, <1>2, <1>3, FailStray DEF SameConn
<1>4. CASE /\ spoiled' = spoiled \cup {k}
           /\ shaken' = IF lock["init"] = t THEN shaken ELSE shaken \cup Underway
  <2>1. PICK x \in {"abort", "done"} :
          Goes(t, x, aio, "error") /\ (lock["init"] = t <=> x = "abort")
    BY <1>1, <1>2, FailGoes
  <2>2. "done" \in PCs /\ "abort" \in PCs /\ "done" \notin InInit
    BY DEF PCs, Statements, InInit, OnlyInit, Pragmas
  <2>3. /\ pc'[t] = x
        /\ \A u \in Tasks \ {t} : pc'[u] = pc[u] /\ result'[u] = result[u]
        /\ \A u \in Tasks, l \in Conns : In(jobs', u, l) =>
             \/ u # t /\ In(jobs, u, l)
             \/ u = t /\ l = aio
        /\ \A u \in Tasks \ {t} : lock'["init"] = u <=> lock["init"] = u
    BY <2>1, <2>2, <1>1, <1>2, GoesTyped
  <2>4. lock'["init"] = t => lock["init"] = t
    BY <2>1, <2>2, <2>3, <1>2 DEF IInv, InitInv
  <2>5. \A u \in Tasks : lock'["init"] = u /\ pc'[u] # "open" => aio' \in live'
    BY <1>1, <1>2
  <2>6. \A c \in Calls \ (shaken' \cup faulted') :
          pc'[c] \notin {"undo", "abort"} /\ result'[c] # "error"
    BY <2>3, <1>1, <1>2, <1>4 DEF StrayInv
  <2>7. shaken' \subseteq {c \in Calls : pc'[c] # "idle"}
    BY <2>2, <2>3, <1>2, <1>4 DEF StrayInv, Underway, InProgress
  <2>8. ASSUME NEW c \in Calls, Calm(c)'
        PROVE  /\ ~Closing'
               /\ \A u \in shaken' : ~InProgress(u)'
               /\ pc'[c] # "init_lock" => lock'["init"] = c \/ initialized'.client
               /\ \A l \in Conns : In(jobs', c, l) => l = aio'
               /\ initialized'.client \/ pc'[c] \notin {"init_lock", "abort"}
                    => aio' \notin spoiled'
    <3>1. Calm(c) /\ InProgress(c)
      BY <2>3, <2>8, <1>1, <1>2, <1>4 DEF Calm, InProgress
    <3>2. lock["init"] = t /\ shaken' = shaken /\ x = "abort"
      BY <3>1, <2>1, <2>8, <1>4 DEF Calm, Underway
    <3>3. ~initialized.client /\ lock'["init"] = t
      BY <3>2, <2>3, <1>2 DEF IInv, InitInv, OnlyInit
    <3>4. /\ ~Closing
          /\ \A u \in shaken : ~InProgress(u)
          /\ pc[c] # "init_lock" => lock["init"] = c \/ initialized.client
          /\ \A l \in Conns : In(jobs, c, l) => l = aio
          /\ shaken \subseteq Calls
      BY <3>1 DEF StrayInv
    <3>5. ~Closing'
      BY <3>4, <2>3, <1>2 DEF Closing, InProgress
    <3>6. \A u \in shaken' : ~InProgress(u)'
      BY <3>2, <3>4, <2>3, <1>1, <1>2 DEF InProgress
    <3>7. c # t => pc'[c] = "init_lock"
      BY <3>2, <3>3, <3>4, <2>3, <1>2
    <3>8. c = t => pc'[c] = "abort"
      BY <3>2, <2>3
    <3> QED BY <3>3, <3>4, <3>5, <3>6, <3>7, <3>8, <2>3, <1>1, <1>2
  <2> QED BY <2>5, <2>6, <2>7, <2>8, <1>1, <1>2 DEF StrayInv
<1> QED BY <1>3, <1>4 DEF EndFails

(* CancelInit(t).                                                          *)
LEMMA CancelInitStray ==
  ASSUME IInv, IInv', TxnInv, StrayInv, NEW t \in Calls, CancelInit(t)
  PROVE  StrayInv'
<1>1. Freed(Orphaned(t), t)
  BY FreeByOrphan DEF IInv, Tasks
<1>2. pc[t] \in Statements \ {"abort"}
  BY DEF CancelInit, Statements, Pragmas, Body
<1>3. SameConn
  BY DEF CancelInit, SameConn
<1> QED BY <1>1, <1>2, <1>3, FailStray DEF CancelInit

(* RunOrphan(k).                                                           *)
LEMMA RunOrphanStray ==
  ASSUME IInv, StrayInv, NEW k \in Conns, RunOrphan(k)
  PROVE  StrayInv'
<1>1. \A u \in Tasks, l \in Conns : In(jobs', u, l) => In(jobs, u, l)
  BY FreeByTurn DEF RunOrphan, IInv, Freed
<1>2. UNCHANGED <<aio, live, initialized, lock, pc, result, spoiled, shaken, faulted>>
  BY DEF RunOrphan, connVars, auxVars
<1>3. Calls \subseteq Tasks
  BY DEF Tasks
<1>4. (\A c \in Calls : Calm(c)' <=> Calm(c)) /\ (Closing' <=> Closing)
      /\ \A u \in shaken : InProgress(u)' <=> InProgress(u)
  BY <1>2 DEF Calm, Closing, InProgress
<1> QED BY <1>1, <1>2, <1>3, <1>4 DEF StrayInv

(* The statements of a call that only lead to the next one.                *)
LEMMA RunStray ==
  ASSUME IInv, IInv', TxnInv, StrayInv, NEW t \in Tasks, NEW k \in Conns,
         \/ Pragma(t, k) \/ Read(t, k) \/ Begin(t, k) \/ Write(t, k)
  PROVE  StrayInv'
<1>1. /\ Turn(t, k)
      /\ pc[t] \notin {"close", "idle", "done", "init_lock", "open", "abort"}
  BY DEF Pragma, Read, Begin, Write, Pragmas, Body
<1>2. t \in Calls /\ Freed(Rest(k), t) /\ Others(lock, t)
  BY <1>1, RunFacts, LocksOfOthers
<1>3. SameConn /\ UNCHANGED <<initialized, shaken, faulted>>
  BY DEF Pragma, Read, Begin, Write, connVars, auxVars, SameConn
<1>4. \E x \in (LockWaits \cup Statements) \ {"init_lock", "undo", "abort"} :
        Wait(t, x, Rest(k), lock) \/ (x \in Statements /\ Issue(t, aio, x, Rest(k), lock))
  <2>1. {"sync", "fks", "ddl", "row1", "row2", "commit"} \subseteq Statements
        /\ "txn_lock" \in LockWaits
    BY DEF Statements, Pragmas, Body, LockWaits
  <2>2. CASE Pragma(t, k)
    BY <2>1, <2>2 DEF Pragma
  <2>3. CASE Read(t, k)
    BY <2>1, <2>3 DEF Read
  <2>4. CASE Begin(t, k)
    BY <2>1, <2>4 DEF Begin
  <2>5. CASE Write(t, k)
    BY <2>1, <2>5 DEF Write
  <2> QED BY <2>2, <2>3, <2>4, <2>5
<1> QED BY <1>1, <1>2, <1>3, <1>4, AwaitStray

(* LockSession(t) and LockTxn(t).                                          *)
LEMMA TakeStray ==
  ASSUME IInv, IInv', TxnInv, StrayInv, NEW t \in Tasks, LockSession(t) \/ LockTxn(t)
  PROVE  StrayInv'
<1>1. pc[t] \in {"session_lock", "txn_lock"}
  BY DEF LockSession, LockTxn
<1>2. pc[t] \notin Statements \cup {"close", "idle", "done", "init_lock", "open", "abort"}
  BY <1>1 DEF Statements, Pragmas, Body
<1>3. t \in Calls /\ TypeInv /\ Freed(jobs, t)
  BY <1>2, NoCloser, WaitFacts
<1>4. PICK l \in {"session", "txn"}, x \in {"read", "begin"} :
        lock[l] = None /\ Issue(t, aio, x, jobs, [lock EXCEPT ![l] = t])
  BY DEF LockSession, LockTxn
<1> DEFINE ls == [lock EXCEPT ![l] = t]
<1>5. Others(ls, t) /\ ls["init"] = lock["init"]
  BY <1>3, <1>4, LocksOfOthers DEF Locks, TypeInv
<1>6. x \in Statements \ {"init_lock", "undo", "abort"}
  BY DEF Statements
<1>7. SameConn /\ UNCHANGED <<initialized, shaken, faulted>>
  BY DEF LockSession, LockTxn, connVars, auxVars, SameConn
<1> HIDE DEF ls
<1>8. Issue(t, aio, x, jobs, ls)
  BY <1>4 DEF ls
<1> QED BY <1>2, <1>3, <1>5, <1>6, <1>7, <1>8, AwaitStray

(* Commit(t, k).                                                           *)
LEMMA CommitStray ==
  ASSUME IInv, IInv', TxnInv, StrayInv, NEW t \in Tasks, NEW k \in Conns, Commit(t, k)
  PROVE  StrayInv'
<1>1. /\ pc[t] = "commit" /\ pc[t] \notin {"close", "idle", "done", "open", "init_lock"}
      /\ Turn(t, k) /\ k \in live
  BY DEF Commit, Possible
<1>2. t \in Calls /\ TypeInv /\ Freed(Rest(k), t) /\ aio = k /\ aio # None
  BY <1>1, RunFacts, LifecycleAssumption DEF Commit
<1>3. SameConn /\ UNCHANGED <<shaken, faulted>> /\ aio \notin spoiled
  BY <1>1 DEF Commit, auxVars, SameConn, TxnInv, SpoilInv, Work
<1>4. {"session_lock", "read", "done"} \subseteq PCs \ (InInit \cup {"idle", "init_lock", "open"})
  BY DEF PCs, LockWaits, Statements, InInit, OnlyInit, Pragmas
<1>5. CASE lock["init"] = t
  <2>1. \E x \in {"session_lock", "read"} : Goes(t, x, aio, "error")
    BY <1>2, <1>5, ProceedGoes DEF Commit
  <2>2. lock'["init"] # t
    BY <2>1, <1>1, <1>4, GoesTyped DEF IInv, InitInv
  <2>3. initialized'.client
    BY <1>5 DEF Commit
  <2> QED BY <2>1, <2>2, <2>3, <1>1, <1>2, <1>3, <1>4, QuietStray
<1>6. CASE lock["init"] # t
  <2>1. Goes(t, "done", aio, "ok") /\ initialized' = initialized
    BY <1>2, <1>6, ReturnGoes DEF Commit
  <2>2. lock'["init"] # t
    BY <2>1, <1>1, <1>4, GoesTyped DEF IInv, InitInv
  <2> QED BY <2>1, <2>2, <1>1, <1>2, <1>3, <1>4, QuietStray
<1> QED BY <1>5, <1>6

(* Undo(t, k): the rollback of a call that something hit.                  *)
LEMMA UndoStray ==
  ASSUME IInv, IInv', TxnInv, StrayInv, NEW t \in Tasks, NEW k \in Conns, Undo(t, k)
  PROVE  StrayInv'
<1>1. /\ pc[t] = "undo" /\ pc[t] \notin Body \cup {"close", "idle", "done"}
      /\ Turn(t, k)
  BY DEF Undo, Body
<1>2. t \in Calls /\ pc[t] \in Statements \ {"abort"} /\ Freed(Rest(k), t)
  BY <1>1, RunFacts
<1>3. Fail(t, Rest(k))
  BY <1>1 DEF Undo, Fail
<1>4. SameConn /\ UNCHANGED <<initialized, shaken, faulted>>
  BY DEF Undo, auxVars, SameConn
<1>5. t \in shaken \cup faulted'
  BY <1>1, <1>2, <1>4 DEF StrayInv
<1> QED BY <1>2, <1>3, <1>4, <1>5, FailStray

(* Abort(t, k): the calls that wait for t to initialise have no connection *)
(* to lose.                                                                *)
LEMMA AbortStray ==
  ASSUME IInv, IInv', TxnInv, StrayInv, NEW t \in Tasks, NEW k \in Conns, Abort(t, k)
  PROVE  StrayInv'
<1>0. /\ pc[t] = "abort" /\ pc[t] \notin {"close", "idle", "done"} /\ Turn(t, k)
      /\ "done" \in PCs \ InInit
      /\ UNCHANGED <<initialized, spoiled, shaken, faulted>>
      /\ aio' = None
  BY DEF Abort, auxVars, PCs, InInit, OnlyInit, Pragmas
<1>1. /\ lock["init"] = t /\ ~initialized.client
      /\ t \in Calls /\ t \notin Closers /\ TypeInv /\ Freed(Rest(k), t)
      /\ Calls \subseteq Tasks /\ Closers \subseteq Tasks
  BY <1>0, RunFacts, LifecycleAssumption DEF IInv, InitInv, OnlyInit, Tasks
<1>2. Goes(t, "done", aio, "error")
  BY <1>1, ReturnGoes DEF Abort
<1>3. /\ pc'[t] = "done"
      /\ result'[t] = "error"
      /\ \A u \in Tasks \ {t} : pc'[u] = pc[u] /\ result'[u] = result[u]
      /\ \A u \in Tasks, l \in Conns : In(jobs', u, l) =>
           \/ u # t /\ In(jobs, u, l)
           \/ u = t /\ "done" \in Statements /\ l = aio
      /\ \A u \in Tasks \ {t} : lock'["init"] = u <=> lock["init"] = u
  BY <1>0, <1>2, GoesTyped
<1>4. \A u \in Tasks : lock'["init"] # u
  BY <1>0, <1>1, <1>3 DEF IInv, InitInv
<1>5. ASSUME NEW c \in Calls, Calm(c)'
      PROVE  /\ ~Closing'
             /\ \A u \in shaken' : ~InProgress(u)'
             /\ pc'[c] = "init_lock"
             /\ \A j \in Conns : ~In(jobs', c, j)
  <2>1. c # t /\ Calm(c)
    BY <1>0, <1>1, <1>3, <1>5 DEF Calm, InProgress
  <2>2. /\ ~Closing
        /\ \A u \in shaken : ~InProgress(u)
        /\ pc[c] = "init_lock"
        /\ shaken \subseteq Calls
    BY <2>1, <1>1 DEF StrayInv
  <2>3. pc[c] \notin Statements
    BY <2>2 DEF Statements, Pragmas, Body
  <2>4. \A j \in Conns : ~In(jobs', c, j)
    BY <2>1, <2>3, <1>1, <1>3 DEF IInv, QueueInv
  <2> QED BY <2>1, <2>2, <2>4, <1>0, <1>1, <1>3 DEF Closing, InProgress
<1>6. shaken' \subseteq {c \in Calls : pc'[c] # "idle"}
  BY <1>0, <1>1, <1>3 DEF StrayInv
<1>7. \A c \in Calls \ (shaken' \cup faulted') :
        pc'[c] \notin {"undo", "abort"} /\ result'[c] # "error"
  BY <1>0, <1>1, <1>3 DEF StrayInv
<1>8. aio' \notin spoiled'
  BY <1>0, LifecycleAssumption DEF TxnInv, SpoilInv
<1> QED BY <1>0, <1>1, <1>4, <1>5, <1>6, <1>7, <1>8 DEF StrayInv

(* Close(t): shakes every call that is on its way, or has nothing to do.   *)
LEMMA CloseStray ==
  ASSUME IInv, IInv', TxnInv, StrayInv, NEW t \in Closers, Close(t)
  PROVE  StrayInv'
<1>0. /\ t \in Tasks /\ pc[t] = "idle" /\ t \notin Calls
      /\ pc[t] \notin Statements \cup InInit \cup {"done"}
      /\ {"close", "done"} \subseteq PCs \ (InInit \cup {"idle"})
      /\ "close" \in Statements
      /\ Calls \subseteq Tasks /\ Closers \subseteq Tasks
  BY LifecycleAssumption DEF Close, Tasks, Statements, Pragmas, Body, PCs, InInit, OnlyInit
<1>1. TypeInv /\ Freed(jobs, t)
  BY <1>0, WaitFacts
<1>2. UNCHANGED <<aio, live, spoiled, faulted>>
  BY DEF Close, connVars
<1>3. initialized.client => aio # None
  BY LifecycleAssumption DEF StrayInv, IInv, TypeInv
<1>4. initialized' = initialized
  BY <1>3 DEF Close
<1>5. PICK x \in {"close", "done"} :
        /\ Goes(t, x, aio, "ok")
        /\ shaken' = IF x = "close" THEN shaken \cup Underway ELSE shaken
  <2>1. CASE initialized.client /\ aio # None
    <3>1. Issue(t, aio, "close", jobs, lock)
      BY <2>1 DEF Close
    <3>2. Goes(t, "close", aio, "ok")
      BY <3>1, <2>1, <1>0, <1>1, IssueGoes, LocksOfOthers DEF TypeInv
    <3> QED BY <3>2, <2>1 DEF Close
  <2>2. CASE ~(initialized.client /\ aio # None)
    <3>1. Goes(t, "done", aio, "ok")
      BY <1>0, <1>1, <2>2, ReturnGoes DEF Close
    <3> QED BY <3>1, <2>2 DEF Close
  <2> QED BY <2>1, <2>2
<1>6. /\ pc'[t] = x
      /\ \A u \in Tasks \ {t} : pc'[u] = pc[u] /\ result'[u] = result[u]
      /\ \A u \in Tasks, l \in Conns : In(jobs', u, l) =>
           \/ u # t /\ In(jobs, u, l)
           \/ u = t /\ x \in Statements /\ l = aio
      /\ \A u \in Tasks \ {t} : lock'["init"] = u <=> lock["init"] = u
  BY <1>0, <1>5, GoesTyped
<1>7. \A u \in Tasks : lock'["init"] = u /\ pc'[u] # "open" => aio' \in live'
  <2>1. lock'["init"] # t
    BY <1>0, <1>6 DEF IInv, InitInv
  <2> QED BY <2>1, <1>2, <1>6 DEF StrayInv
<1>8. \A c \in Calls : pc'[c] = pc[c] /\ result'[c] = result[c]
  BY <1>0, <1>6
<1>9. ASSUME NEW c \in Calls, Calm(c)'
      PROVE  /\ ~Closing'
             /\ \A u \in shaken' : ~InProgress(u)'
             /\ pc'[c] # "init_lock" => lock'["init"] = c \/ initialized'.client
             /\ \A k \in Conns : In(jobs', c, k) => k = aio'
             /\ initialized'.client \/ pc'[c] \notin {"init_lock", "abort"}
                  => aio' \notin spoiled'
  <2>1. Calm(c) /\ x = "done" /\ shaken' = shaken
    BY <1>5, <1>8, <1>9 DEF Calm, InProgress, Underway
  <2>2. ~Closing'
    BY <2>1, <1>0, <1>6 DEF StrayInv, Closing, InProgress
  <2>3. \A u \in shaken' : ~InProgress(u)'
    BY <2>1, <1>8 DEF StrayInv, InProgress
  <2> QED BY <2>1, <2>2, <2>3, <1>0, <1>2, <1>4, <1>6, <1>8 DEF StrayInv
<1>10. shaken' \subseteq {c \in Calls : pc'[c] # "idle"}
  BY <1>5, <1>8 DEF StrayInv, InProgress, Underway
<1>11. \A c \in Calls \ (shaken' \cup faulted') :
        pc'[c] \notin {"undo", "abort"} /\ result'[c] # "error"
  BY <1>2, <1>5, <1>8 DEF StrayInv
<1> QED BY <1>2, <1>4, <1>7, <1>9, <1>10, <1>11 DEF StrayInv

(* Closed(t, k): no call is calm when a close() ends.                      *)
LEMMA ClosedStray ==
  ASSUME IInv, IInv', TxnInv, StrayInv, NEW t \in Tasks, NEW k \in Conns, Closed(t, k)
  PROVE  StrayInv'
<1>0. /\ pc[t] = "close" /\ pc[t] \notin {"idle", "done"} /\ Turn(t, k)
      /\ "done" \in PCs \ InInit
      /\ UNCHANGED <<shaken, faulted>>
      /\ ~initialized'.client
  BY DEF Closed, auxVars, PCs, InInit, OnlyInit, Pragmas
<1>1. /\ initialized.client
      /\ t \in Closers /\ t \notin Calls /\ TypeInv /\ Freed(Rest(k), t)
      /\ Calls \subseteq Tasks
      /\ InProgress(t)
  BY <1>0, TurnFacts, LifecycleAssumption DEF IInv, CloseInv, Tasks, InProgress
<1>2. Goes(t, "done", aio, "ok")
  BY <1>1, ReturnGoes DEF Closed
<1>3. /\ pc'[t] = "done"
      /\ \A u \in Tasks \ {t} : pc'[u] = pc[u] /\ result'[u] = result[u]
      /\ \A u \in Tasks \ {t} : lock'["init"] = u <=> lock["init"] = u
  BY <1>0, <1>2, GoesTyped
<1>4. \A u \in Tasks : lock'["init"] # u
  BY <1>0, <1>1, <1>3 DEF IInv, InitInv
<1>5. \A c \in Calls : pc'[c] = pc[c] /\ result'[c] = result[c]
  BY <1>1, <1>3
<1>6. \A c \in Calls : ~Calm(c)'
  <2>1. \A c \in Calls : ~Calm(c)
    BY <1>1 DEF StrayInv, Closing
  <2> QED BY <2>1, <1>0, <1>5 DEF Calm, InProgress
<1>7. shaken' \subseteq {c \in Calls : pc'[c] # "idle"}
  BY <1>0, <1>5 DEF StrayInv
<1>8. \A c \in Calls \ (shaken' \cup faulted') :
        pc'[c] \notin {"undo", "abort"} /\ result'[c] # "error"
  BY <1>0, <1>5 DEF StrayInv
<1> QED BY <1>0, <1>4, <1>6, <1>7, <1>8 DEF StrayInv

LEMMA InitStray == ASSUME Init PROVE StrayInv
<1>1. None \notin Tasks /\ Calls \subseteq Tasks
  BY LifecycleAssumption DEF Tasks
<1> QED BY <1>1 DEF Init, StrayInv, Calm, InProgress, Locks

LEMMA NextStray ==
  ASSUME IInv, IInv', TxnInv, StrayInv, [Next]_vars
  PROVE  StrayInv'
<1>1. CASE UNCHANGED vars
  BY <1>1 DEF vars, StrayInv, Calm, Closing, InProgress, In
<1>2. ASSUME NEW t \in Calls, Call(t) \/ CancelInit(t)
      PROVE  StrayInv'
  BY <1>2, CallStray, CancelInitStray
<1>3. ASSUME NEW t \in Closers, Close(t)
      PROVE  StrayInv'
  BY <1>3, CloseStray
<1>4. ASSUME NEW t \in Tasks, Step(t)
      PROVE  StrayInv'
  <2>1. CASE LockInit(t) \/ Open(t) \/ LockSession(t) \/ LockTxn(t)
    BY <2>1, LockInitStray, OpenStray, TakeStray
  <2>2. ASSUME NEW k \in Conns,
               \/ StatementFails(t, k) \/ EndFails(t, k) \/ Pragma(t, k) \/ Read(t, k) \/ Begin(t, k)
               \/ Write(t, k) \/ Commit(t, k) \/ Undo(t, k)
               \/ Abort(t, k) \/ Closed(t, k)
        PROVE  StrayInv'
    BY <2>2, StatementFailsStray, EndFailsStray, RunStray, CommitStray, UndoStray, AbortStray, ClosedStray
  <2> QED BY <2>1, <2>2, <1>4 DEF Step
<1>5. ASSUME NEW k \in Conns, RunOrphan(k)
      PROVE  StrayInv'
  BY <1>5, RunOrphanStray
<1> QED BY <1>1, <1>2, <1>3, <1>4, <1>5 DEF Next, Terminating

(* A call that no fault hits and that no close() and no failed COMMIT      *)
(* touches, directly or through another call, does not raise: neither a    *)
(* failed initialisation of somebody else nor what went before an earlier  *)
(* close() is its error.                                                   *)
THEOREM ErrorsAreDeserved == ASSUME ~Overlap PROVE Spec => []NoStrayErrors
<1>1. Init => IInv /\ TxnInv /\ StrayInv
  BY InitSafe, InitTxn, InitStray
<1>2. IInv /\ TxnInv /\ StrayInv /\ [Next]_vars => (IInv /\ TxnInv /\ StrayInv)'
  BY NextSafe, NextTxn, NextStray
<1>3. IInv /\ TxnInv /\ StrayInv => NoStrayErrors
  BY DEF StrayInv, NoStrayErrors
<1> QED BY <1>1, <1>2, <1>3, PTL DEF Spec
=============================================================================
