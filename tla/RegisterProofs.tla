--------------------------- MODULE RegisterProofs ---------------------------
(***************************************************************************)
(* The service implements TaskRegister, for any number of tasks, threads   *)
(* and children, any limits and any number of mishaps; and what follows    *)
(* from where the copies of a record come from.                            *)
(***************************************************************************)
EXTENDS ServiceProofs

-----------------------------------------------------------------------------

(***************************************************************************)
(* The provenance of ids and copies.                                       *)
(***************************************************************************)

\* Who does nothing remembers nothing, a thread has a copy only between the
\* GET and the SET, and a child that is about to run the engine has one.
Tidy ==
    /\ \A w \in Threads :
          /\ web[w].pc = "idle" => web[w].task = Nil
          /\ web[w].pc \notin {"markWrite", "staleWrite"} => web[w].snap = Nil
    /\ \A c \in Children :
          /\ child[c].pc = "idle" => child[c] = IdleChild
          /\ child[c].pc = "solve" => child[c].snap # Nil
          /\ child[c].started <= clock

\* The message of t has been published, and may still be somewhere.
Handed(t) ==
    \/ Queued(t)
    \/ orphans[t] > 0
    \/ \E c \in Children : child[c].task = t
    \/ parent.task = t

\* Until its record is created and its message published, only the thread that
\* handles the POST knows an id.
Posting(w) == web[w].pc \in {"interval", "create", "publish"}

UnusedIsUnknown(t) ==
    posted[t] = "unused" =>
        store[t] = Nil /\ ~Handed(t) /\ \A w \in Threads : web[w].task # t

PostIsPrivate(w) ==
    Posting(w) =>
        /\ posted[web[w].task] = "open"
        /\ ~Handed(web[w].task)
        /\ web[w].pc # "publish" => store[web[w].task] = Nil
        /\ \A x \in Threads \ {w} : web[x].task # web[w].task

FreshIds ==
    /\ \A t \in Tasks : UnusedIsUnknown(t)
    /\ \A w \in Threads : PostIsPrivate(w)

\* Somebody remembers the record r of the task t.
HasCopy(t, r) ==
    /\ r # Nil
    /\ \/ \E w \in Threads : web[w].task = t /\ web[w].snap = r
       \/ \E c \in Children : child[c].task = t /\ child[c].snap = r
       \/ parent.task = t /\ parent.snap = r

\* A child that means to run the engine for t.
Starting(c, t) ==
    child[c].task = t /\ child[c].pc \in {"procRead", "procWrite", "solve"}

\* All there is of t, records and copies, was made at the same time n, and who
\* runs it took it before it was too old.
BornAt(t, n) ==
    /\ store[t] # Nil => store[t].created = n
    /\ \A r \in TaskRecords : HasCopy(t, r) => r.created = n
    /\ \A c \in Children : Starting(c, t) => child[c].started - n < MaxAge

OneBirth == \A t \in Tasks : \E n \in Nat : BornAt(t, n)

\* While a record is PENDING nobody has seen it as anything else.
NothingBeforePending ==
    \A t \in Tasks : store[t] # Nil /\ store[t].status = "PENDING" =>
        \A r \in TaskRecords : HasCopy(t, r) => r.status = "PENDING"

ProvenanceInv ==
    /\ ConsistencyInv
    /\ Tidy
    /\ FreshIds
    /\ OneBirth
    /\ NothingBeforePending

-----------------------------------------------------------------------------

(***************************************************************************)
(* What a step may do to the queue, a child, the parent and the store.     *)
(***************************************************************************)

\* A message that waits, waited before or was given back by a child.
QueueEffect(t) ==
    (Queued(t) \/ orphans[t] > 0)' =>
        Queued(t) \/ orphans[t] > 0 \/ \E c \in Children : child[c].task = t

\* A child keeps its message and its copy, copies what is stored, and sets out
\* to run the engine only for a stored record that is young enough; or it is
\* freed; or it takes a message.
ChildEffect(c) ==
    \/ child'[c] = IdleChild
    \/ /\ child'[c].task = child[c].task
       /\ child'[c].started = child[c].started
       /\ child'[c].snap \in {child[c].snap, store[child[c].task]}
       /\ child'[c].pc # "idle"
       /\ child'[c].pc = "solve" => child'[c].snap # Nil
       /\ child'[c].pc \in {"procRead", "procWrite", "solve"} =>
             \/ child[c].pc \in {"procRead", "procWrite", "solve"}
             \/ /\ child[c].pc = "load"
                /\ store[child[c].task] # Nil
                /\ clock - store[child[c].task].created < MaxAge
       /\ child'[c].pc = "procWrite" =>
             child[c].pc = "procWrite" \/ IsOpen(child[c].task)
    \/ /\ child'[c].pc = "load"
       /\ child'[c].snap = Nil
       /\ child'[c].task \in Tasks /\ Queued(child'[c].task)
       /\ child'[c].started = clock

\* The parent keeps its task and its copy, copies what is stored, or starts or
\* ends a hook.
ParentEffect ==
    \/ parent'.task = parent.task /\ parent'.snap \in {parent.snap, store[parent.task]}
    \/ parent'.snap = Nil /\ parent'.task = Nil
    \/ parent'.snap = Nil /\ \E c \in Children : child[c].task = parent'.task

\* new is what an update makes of the copy old.
Updates(t, old, new) ==
    /\ Consistent(t, new)
    /\ new.created = old.created
    /\ new.status # "PENDING"
    /\ new.status = "SUCCESS" => old.status # "PENDING"

\* Only a child that runs t writes PROCESSING or SUCCESS.
RunsFor(t, status) ==
    /\ status = "PROCESSING" =>
          \E c \in Children : child[c].task = t /\ child[c].pc = "procWrite"
    /\ status = "SUCCESS" =>
          \E c \in Children : child[c].task = t /\ child[c].pc = "succWrite"

\* Somebody writes back, updated, the copy it has of t.
WritesBack(t) ==
    \E old, new \in TaskRecords :
        /\ HasCopy(t, old)
        /\ Updates(t, old, new)
        /\ RunsFor(t, new.status)
        /\ store' = [store EXCEPT ![t] = new]

WorkerEffect ==
    /\ \A t \in Tasks : QueueEffect(t)
    /\ \A c \in Children : ChildEffect(c)
    /\ ParentEffect
    /\ \/ UNCHANGED store
       \/ \E t \in Tasks : Handed(t) /\ WritesBack(t)
    /\ UNCHANGED clock

\* What the code makes of a copy that it may move is an update of it.
LEMMA UpdatesOfCopies ==
    ASSUME NEW t \in Tasks, NEW rec, NEW m \in Messages
    PROVE  /\ Writable(t, rec, "FAILED") =>
                 /\ Updates(t, rec, MarkFailed(rec, m))
                 /\ Updates(t, rec, MarkFailedWithoutResult(rec, m))
           /\ Writable(t, rec, "PROCESSING") => Updates(t, rec, MarkProcessing(rec))
           /\ Writable(t, rec, "SUCCESS") => Updates(t, rec, MarkSuccess(rec, Solution(t)))
<1>1. ASSUME Writable(t, rec, "FAILED")
      PROVE  /\ Updates(t, rec, MarkFailed(rec, m))
             /\ Updates(t, rec, MarkFailedWithoutResult(rec, m))
  BY <1>1, FailedIsSound
     DEF Updates, MarkFailed, MarkFailedWithoutResult, Writable, TaskRecords
<1>2. ASSUME Writable(t, rec, "PROCESSING")
      PROVE  Updates(t, rec, MarkProcessing(rec))
  BY <1>2, ProcessingIsSound DEF Updates, MarkProcessing, Writable, TaskRecords
<1>3. ASSUME Writable(t, rec, "SUCCESS")
      PROVE  Updates(t, rec, MarkSuccess(rec, Solution(t)))
  <2>1. rec.status # "PENDING"
    BY <1>3 DEF Writable, MayMove, ALLOWED_STATUS_TRANSITIONS
  <2> QED
    BY <1>3, <2>1, SuccessIsSound DEF Updates, MarkSuccess, Writable, TaskRecords
<1> QED BY <1>1, <1>2, <1>3

\* What a child or the parent puts into the store is an update of its copy.
LEMMA ChildWritesBack ==
    ASSUME WorkerSound, NEW c \in Children, child[c].pc \in WritePC \cup {"recWrite"},
           SetTask(child[c].task, ChildWrites(c))
    PROVE  \E t \in Tasks : Handed(t) /\ WritesBack(t)
<1>1. /\ child[c].task \in Tasks
      /\ ChildWrites(c) \in TaskRecords
      /\ Consistent(child[c].task, ChildWrites(c))
  BY ChildWritesSound
<1>2. /\ child[c].snap \in TaskRecords
      /\ Updates(child[c].task, child[c].snap, ChildWrites(c))
  <2>0. "expired" \in Messages /\ "worker failed" \in Messages
    BY DEF Messages
  <2>1. CASE child[c].pc = "staleWrite"
    BY <1>1, <2>0, <2>1, UpdatesOfCopies DEF WorkerSound, ChildSound, ChildWrites, Writable
  <2>2. CASE child[c].pc = "procWrite"
    BY <1>1, <2>0, <2>2, UpdatesOfCopies DEF WorkerSound, ChildSound, ChildWrites, Writable
  <2>3. CASE child[c].pc = "succWrite"
    BY <1>1, <2>0, <2>3, UpdatesOfCopies DEF WorkerSound, ChildSound, ChildWrites, Writable
  <2>4. CASE child[c].pc = "recWrite"
    BY <1>1, <2>0, <2>4, UpdatesOfCopies DEF WorkerSound, ChildSound, ChildWrites, Writable
  <2> QED BY <2>1, <2>2, <2>3, <2>4 DEF WritePC
<1>3. HasCopy(child[c].task, child[c].snap) /\ Handed(child[c].task)
  BY <1>2, RecordAssumption DEF HasCopy, Handed
<1>4. RunsFor(child[c].task, ChildWrites(c).status)
  BY <1>2 DEF RunsFor, ChildWrites, MarkFailed, MarkFailedWithoutResult, MarkProcessing,
              MarkSuccess, TaskRecords, WritePC
<1>5. WritesBack(child[c].task)
  BY <1>1, <1>2, <1>3, <1>4 DEF WritesBack, SetTask
<1> QED BY <1>1, <1>3, <1>5

LEMMA ParentWritesBack ==
    ASSUME WorkerSound, parent.pc = "recWrite", SetTask(parent.task, ParentWrites)
    PROVE  \E t \in Tasks : Handed(t) /\ WritesBack(t)
<1>1. /\ parent.task \in Tasks
      /\ ParentWrites \in TaskRecords
  BY ParentWritesSound
<1>2. /\ parent.snap \in TaskRecords
      /\ Updates(parent.task, parent.snap, ParentWrites)
  <2>0. "worker failed" \in Messages
    BY DEF Messages
  <2> QED
    BY <1>1, <2>0, UpdatesOfCopies DEF WorkerSound, ParentSound, ParentWrites, Writable
<1>3. HasCopy(parent.task, parent.snap) /\ Handed(parent.task)
  BY <1>2, RecordAssumption DEF HasCopy, Handed
<1>4. ParentWrites.status = "FAILED"
  BY <1>2 DEF ParentWrites, MarkFailedWithoutResult, TaskRecords
<1>5. WritesBack(parent.task)
  BY <1>1, <1>2, <1>3, <1>4 DEF WritesBack, SetTask, RunsFor
<1> QED BY <1>1, <1>3, <1>5

-----------------------------------------------------------------------------

(***************************************************************************)
(* The queue                                                               *)
(***************************************************************************)

\* A message that is in the queue after a push was there before, or is the one
\* that was pushed.
LEMMA QueuedFrom ==
    ASSUME BrokerTypeOK, NEW t \in Tasks, NEW u \in Tasks,
           \/ Enqueue(t) \/ PutBack(t) \/ queue' = queue \o <<t, t>>,
           Queued(u)'
    PROVE  Queued(u) \/ u = t
<1>1. queue \in Seq(Tasks) /\ <<t>> \in Seq(Tasks) /\ <<t, t>> \in Seq(Tasks)
  BY DEF BrokerTypeOK
<1>2. PICK i \in 1..Len(queue') : queue'[i] = u
  BY DEF Queued
<1>3. CASE Enqueue(t)
  BY <1>1, <1>2, <1>3 DEF Enqueue, Queued
<1>4. CASE PutBack(t)
  BY <1>1, <1>2, <1>4 DEF PutBack, Queued
<1>5. CASE queue' = queue \o <<t, t>>
  BY <1>1, <1>2, <1>5 DEF Queued
<1> QED BY <1>3, <1>4, <1>5

\* The messages that wait after a delivery waited before it.
LEMMA QueuedAfterTail ==
    ASSUME BrokerTypeOK, queue # <<>>, queue' = Tail(queue), NEW u \in Tasks
    PROVE  /\ Queued(u)' => Queued(u)
           /\ Head(queue) \in Tasks /\ Queued(Head(queue))
BY DEF BrokerTypeOK, Queued

-----------------------------------------------------------------------------

(***************************************************************************)
(* The steps of the worker, one by one                                     *)
(***************************************************************************)

\* A step of one child that leaves broker and parent alone.
LEMMA OneChildEffect ==
    ASSUME NEW c \in Children, WorkerSound, Tidy,
           \A d \in Children \ {c} : child'[d] = child[d],
           ChildEffect(c), UNCHANGED <<brokerVars, parent, clock>>,
           \/ UNCHANGED store
           \/ \E t \in Tasks : Handed(t) /\ WritesBack(t)
    PROVE  WorkerEffect
<1>1. ASSUME NEW d \in Children, child'[d] = child[d]
      PROVE  ChildEffect(d)
  BY <1>1 DEF ChildEffect, Tidy
<1>2. \A t \in Tasks : QueueEffect(t)
  BY DEF QueueEffect, Queued, brokerVars
<1>3. ParentEffect
  BY DEF ParentEffect
<1> QED BY <1>1, <1>2, <1>3 DEF WorkerEffect

\* A child moves to a place that neither keeps a copy nor leads to the engine,
\* or to the engine after its write.
LEMMA GotoEffect ==
    ASSUME NEW c \in Children, WorkerSound, NEW pc,
           Goto(c, pc), pc # "idle",
           pc # "procWrite",
           pc = "solve" => child[c].snap # Nil,
           pc \in {"procRead", "solve"} =>
             \/ child[c].pc \in {"procRead", "procWrite", "solve"}
             \/ /\ child[c].pc = "load"
                /\ store[child[c].task] # Nil
                /\ clock - store[child[c].task].created < MaxAge
    PROVE  ChildEffect(c) /\ \A d \in Children \ {c} : child'[d] = child[d]
BY DEF Goto, ChildEffect, WorkerSound, WorkerTypeOK, ChildRecords

LEMMA UpdateReadEffect ==
    ASSUME NEW c \in Children, WorkerSound, StoreSound, child[c].task \in Tasks,
           NEW status, NEW next \in {"staleWrite", "procWrite", "succWrite", "recWrite"},
           NEW onRaise \in {"recLoad", "raised"},
           next = "procWrite" => child[c].pc = "procRead" /\ status = "PROCESSING",
           UpdateRead(c, status, next, onRaise)
    PROVE  ChildEffect(c) /\ \A d \in Children \ {c} : child'[d] = child[d]
<1>1. Accepts(child[c].task, "PROCESSING") => IsOpen(child[c].task)
  BY DEF Accepts, IsOpen, MayMove, ALLOWED_STATUS_TRANSITIONS, StoreSound, StoreTypeOK,
         TaskRecords, VALID_STATUSES, Open, Terminal
<1> QED
  BY <1>1 DEF UpdateRead, ChildEffect, WorkerSound, WorkerTypeOK, ChildRecords

LEMMA WorkerStepEffect ==
    ASSUME ConsistencyInv, Tidy, WorkerNext
    PROVE  WorkerEffect
<1> USE InvParts
<1>0. \A c \in Children : child[c].pc # "idle" => child[c].task \in Tasks
  BY DEF WorkerSound, ChildSound
<1>1. ASSUME NEW c \in Children, LoadTask(c)
      PROVE  WorkerEffect
  <2>1. child[c].task \in Tasks
    BY <1>0, <1>1 DEF LoadTask, Running
  <2>2. ASSUME IsOpen(child[c].task), ~IsStale(store[child[c].task], clock)
        PROVE  /\ store[child[c].task] # Nil
               /\ clock - store[child[c].task].created < MaxAge
    <3>1. /\ store[child[c].task] # Nil
          /\ store[child[c].task] \in TaskRecords
          /\ store[child[c].task].status \in Open
      BY <2>1, <2>2 DEF IsOpen, StoreSound, StoreTypeOK
    <3>2. store[child[c].task].created \in Nat
      BY <3>1 DEF TaskRecords
    <3> QED
      BY <2>2, <3>1, <3>2, RecordAssumption DEF IsStale, StoreSound, StoreTypeOK
  <2>3. ChildEffect(c) /\ \A d \in Children \ {c} : child'[d] = child[d]
    BY <1>1, <2>2, GotoEffect DEF LoadTask, Running
  <2> QED BY <1>1, <2>3, OneChildEffect DEF LoadTask, storeVars
<1>2. ASSUME NEW c \in Children, ReadForUpdate(c)
      PROVE  WorkerEffect
  <2>1. child[c].task \in Tasks
    BY <1>0, <1>2 DEF ReadForUpdate, Running
  <2>2. ChildEffect(c) /\ \A d \in Children \ {c} : child'[d] = child[d]
    BY <1>2, <2>1, UpdateReadEffect DEF ReadForUpdate, Running
  <2> QED BY <1>2, <2>2, OneChildEffect DEF ReadForUpdate, storeVars
<1>3. ASSUME NEW c \in Children, WriteUpdate(c)
      PROVE  WorkerEffect
  <2>1. child[c].pc = "procWrite" => child[c].snap # Nil
    BY RecordAssumption DEF WorkerSound, ChildSound, Writable
  <2>2. ChildEffect(c) /\ \A d \in Children \ {c} : child'[d] = child[d]
    BY <1>3, <2>1, GotoEffect DEF WriteUpdate, After
  <2>3. \E t \in Tasks : Handed(t) /\ WritesBack(t)
    BY <1>3, ChildWritesBack DEF WriteUpdate
  <2> QED BY <1>3, <2>2, <2>3, OneChildEffect DEF WriteUpdate
<1>4. ASSUME NEW c \in Children, Solve(c)
      PROVE  WorkerEffect
  <2>1. ChildEffect(c) /\ \A d \in Children \ {c} : child'[d] = child[d]
    BY <1>4 DEF Solve, ChildEffect, WorkerSound, WorkerTypeOK, ChildRecords
  <2> QED BY <1>4, <2>1, OneChildEffect DEF Solve, storeVars
<1>5. ASSUME NEW c \in Children, SolveFails(c)
      PROVE  WorkerEffect
  <2>1. ChildEffect(c) /\ \A d \in Children \ {c} : child'[d] = child[d]
    BY <1>5, GotoEffect DEF SolveFails
  <2> QED BY <1>5, <2>1, OneChildEffect DEF SolveFails, storeVars
<1>6. ASSUME NEW c \in Children, RecordFailure(c)
      PROVE  WorkerEffect
  <2>1. child[c].task \in Tasks
    BY <1>0, <1>6 DEF RecordFailure, Running
  <2>2. CASE Running(c, "recLoad") \/ Running(c, "recWrite")
    <3>1. ChildEffect(c) /\ \A d \in Children \ {c} : child'[d] = child[d]
      BY <1>6, <2>2, GotoEffect DEF RecordFailure, Running
    <3>2. UNCHANGED store \/ \E t \in Tasks : Handed(t) /\ WritesBack(t)
      BY <1>6, <2>2, ChildWritesBack DEF RecordFailure, Running
    <3> QED BY <1>6, <3>1, <3>2, OneChildEffect DEF RecordFailure
  <2>3. CASE Running(c, "recRead")
    <3>1. ChildEffect(c) /\ \A d \in Children \ {c} : child'[d] = child[d]
      BY <1>6, <2>1, <2>3, UpdateReadEffect DEF RecordFailure, Running
    <3> QED BY <1>6, <2>3, <3>1, OneChildEffect DEF RecordFailure, Running
  <2> QED BY <1>6, <2>2, <2>3 DEF RecordFailure
<1>7. ASSUME NEW c \in Children, ChildFault(c)
      PROVE  WorkerEffect
  <2>1. ChildEffect(c) /\ \A d \in Children \ {c} : child'[d] = child[d]
    BY <1>7, GotoEffect DEF ChildFault
  <2>2. UNCHANGED store \/ \E t \in Tasks : Handed(t) /\ WritesBack(t)
    BY <1>7, ChildWritesBack DEF ChildFault
  <2> QED BY <1>7, <2>1, <2>2, OneChildEffect DEF ChildFault
<1>8. ASSUME NEW c \in Children, Deliver(c)
      PROVE  WorkerEffect
  <2>1. /\ \A t \in Tasks : Queued(t)' => Queued(t)
        /\ Head(queue) \in Tasks /\ Queued(Head(queue))
    <3>1. Head(queue) \in Tasks
      BY <1>8, HeadTailProperties DEF Deliver, BrokerTypeOK
    <3> QED BY <1>8, <3>1, QueuedAfterTail DEF Deliver
  <2>2. ChildEffect(c)
    BY <1>8, <2>1 DEF Deliver, ChildEffect, WorkerSound, WorkerTypeOK, IdleChild
  <2>3. ASSUME NEW d \in Children, d # c
        PROVE  ChildEffect(d)
    BY <1>8, <2>3 DEF Deliver, ChildEffect, WorkerSound, WorkerTypeOK, Tidy
  <2>4. \A t \in Tasks : QueueEffect(t)
    BY <1>8, <2>1 DEF Deliver, QueueEffect
  <2> QED
    BY <1>8, <2>2, <2>3, <2>4 DEF Deliver, WorkerEffect, ParentEffect, storeVars
<1>9. ASSUME NEW c \in Children, ReportSuccess(c)
      PROVE  WorkerEffect
  <2>1. ChildEffect(c) /\ \A d \in Children \ {c} : child'[d] = child[d]
    BY <1>9 DEF ReportSuccess, ChildEffect, WorkerSound, WorkerTypeOK
  <2> QED BY <1>9, <2>1, OneChildEffect DEF ReportSuccess, storeVars
<1>10. ASSUME NEW c \in Children, ReportFailure(c) \/ ChildLost(c)
       PROVE  WorkerEffect
  <2>1. ASSUME NEW d \in Children
        PROVE  ChildEffect(d)
    BY <1>10 DEF ReportFailure, ChildLost, ChildEffect, WorkerSound, WorkerTypeOK, Tidy
  <2>2. ParentEffect
    BY <1>10 DEF ReportFailure, ChildLost, StartHooks, ParentEffect
  <2>3. \A t \in Tasks : QueueEffect(t)
    BY <1>10 DEF ReportFailure, ChildLost, QueueEffect, Queued, brokerVars
  <2> QED
    BY <1>10, <2>1, <2>2, <2>3 DEF ReportFailure, ChildLost, WorkerEffect, storeVars
<1>11. ASSUME NEW c \in Children, HardTimeout(c)
       PROVE  WorkerEffect
  <2>1. ASSUME NEW d \in Children
        PROVE  ChildEffect(d)
    BY <1>11 DEF HardTimeout, Running, ChildEffect, WorkerSound, WorkerTypeOK,
                 ChildRecords, Tidy
  <2>2. ParentEffect
    BY <1>11 DEF HardTimeout, StartHooks, ParentEffect
  <2>3. \A t \in Tasks : QueueEffect(t)
    BY <1>11 DEF HardTimeout, QueueEffect, Queued, brokerVars
  <2> QED
    BY <1>11, <2>1, <2>2, <2>3 DEF HardTimeout, WorkerEffect
<1>12. ASSUME ParentRecord \/ ParentFault
       PROVE  WorkerEffect
  <2>1. ASSUME NEW d \in Children
        PROVE  ChildEffect(d)
    BY <1>12 DEF ParentRecord, ParentFault, ChildEffect, Tidy
  <2>2. ParentEffect
    <3>1. EndHook => ParentEffect
      BY DEF EndHook, ParentEffect, WorkerSound, WorkerTypeOK, ParentRecords
    <3>2. CASE ~EndHook
      BY <1>12, <3>2 DEF ParentRecord, ParentFault, ParentEffect, WorkerSound,
                         WorkerTypeOK, ParentRecords
    <3> QED BY <3>1, <3>2
  <2>3. \A t \in Tasks : QueueEffect(t)
    BY <1>12 DEF ParentRecord, ParentFault, QueueEffect, Queued, brokerVars
  <2>4. UNCHANGED store \/ \E t \in Tasks : Handed(t) /\ WritesBack(t)
    BY <1>12, ParentWritesBack DEF ParentRecord, ParentFault
  <2> QED
    BY <1>12, <2>1, <2>2, <2>3, <2>4 DEF ParentRecord, ParentFault, WorkerEffect
<1>13. ASSUME EndHooks
       PROVE  WorkerEffect
  <2>1. ASSUME NEW d \in Children
        PROVE  ChildEffect(d)
    BY <1>13 DEF EndHooks, ChildEffect, WorkerSound, WorkerTypeOK, Tidy
  <2>2. \A t \in Tasks : QueueEffect(t)
    BY <1>13 DEF EndHooks, QueueEffect, Queued, brokerVars
  <2> QED
    BY <1>13, <2>1, <2>2 DEF EndHooks, IdleParent, ParentEffect, WorkerEffect, storeVars
<1>14. ASSUME NEW c \in Children, Redeliver(c)
       PROVE  WorkerEffect
  <2>1. child[c].task \in Tasks
    BY <1>14 DEF Redeliver, WorkerSound, ChildSound
  <2>2. \A t \in Tasks : QueueEffect(t)
    BY <1>14, <2>1, QueuedFrom DEF Redeliver, QueueEffect
  <2>3. ASSUME NEW d \in Children
        PROVE  ChildEffect(d)
    <3>1. child[c].pc # "idle"
      BY <1>14 DEF Redeliver, Tidy, IdleChild
    <3>2. CASE d = c
      BY <1>14, <3>1, <3>2 DEF Redeliver, ChildEffect, WorkerSound, WorkerTypeOK,
                               ChildRecords, Tidy
    <3>3. CASE d # c
      BY <1>14, <3>3 DEF Redeliver, ChildEffect, WorkerSound, WorkerTypeOK, Tidy
    <3> QED BY <3>2, <3>3
  <2> QED BY <1>14, <2>2, <2>3 DEF Redeliver, ParentEffect, WorkerEffect
<1>15. ASSUME WorkerCrash
       PROVE  WorkerEffect
  <2>1. ASSUME NEW t \in Tasks
        PROVE  QueueEffect(t)
    <3> DEFINE H == {c \in Children : child[c].held /\ child[c].task = t}
    <3>1. CASE H = {}
      <4>1. orphans'[t] = orphans[t]
        <5>1. Cardinality(H) = 0
          BY <3>1, FS_EmptySet
        <5>2. orphans'[t] = orphans[t] + Cardinality(H)
          BY <1>15 DEF WorkerCrash
        <5> HIDE DEF H
        <5> QED BY <5>1, <5>2 DEF BrokerTypeOK
      <4> QED BY <1>15, <4>1 DEF WorkerCrash, QueueEffect, Queued
    <3>2. CASE H # {}
      BY <3>2 DEF QueueEffect
    <3> QED BY <3>1, <3>2
  <2> QED
    BY <1>15, <2>1 DEF WorkerCrash, ChildEffect, IdleParent, ParentEffect, WorkerEffect
<1> QED
  BY <1>1, <1>2, <1>3, <1>4, <1>5, <1>6, <1>7, <1>8, <1>9, <1>10, <1>11,
     <1>12, <1>13, <1>14, <1>15
     DEF WorkerNext, ChildStep, ParentStep, Report

-----------------------------------------------------------------------------

(***************************************************************************)
(* The steps of the web threads                                            *)
(***************************************************************************)

\* A thread rests, drops what it remembers, or has just read a stored record.
ThreadEffect(w) ==
    \/ web'[w] = IdleThread
    \/ web'[w] = web[w]
    \/ web'[w].pc \notin {"idle", "markWrite", "staleWrite"} /\ web'[w].snap = Nil
    \/ /\ web'[w].pc \in {"markWrite", "staleWrite"}
       /\ web'[w].task = web[w].task
       /\ web'[w].snap = store[web[w].task]

\* The thread w creates the record of its task.
Creates(w) ==
    /\ web[w].pc = "create"
    /\ store[web[w].task] = Nil
    /\ store' = [store EXCEPT ![web[w].task] = NewTask(web[w].task, clock)]
    /\ Spent' = Spent \cup {web[w].task}

WebEffect ==
    /\ \A w \in Threads : ThreadEffect(w)
    /\ \/ UNCHANGED <<store, Spent>>
       \/ UNCHANGED store /\ \E S \in SUBSET Tasks :
             S # {} /\ S \cap Spent = {} /\ Spent' = Spent \cup S
       \/ UNCHANGED Spent /\ \E t \in Spent : WritesBack(t)
       \/ \E w \in Threads : Creates(w)
    /\ UNCHANGED clock

\* One thread moves, for its own task t, which is unused again only if the POST
\* had not got past its admission.
OneThreadMoves(w, t) ==
    /\ web[w].pc # "idle" /\ web[w].task = t
    /\ \A x \in Threads \ {w} : web'[x] = web[x]
    /\ web'[w].task \in {t, Nil}
    /\ \A u \in Tasks \ {t} :
          store'[u] = store[u] /\ posted'[u] = posted[u] /\ (Handed(u)' => Handed(u))
    /\ posted'[t] = "unused" =>
          /\ web[w].pc = "interval"
          /\ web'[w].task = Nil
          /\ store'[t] = store[t]
          /\ Handed(t)' => Handed(t)
    /\ Posting(w)' =>
          /\ Posting(w)
          /\ web'[w].task = t
          /\ posted'[t] = posted[t]
          /\ Handed(t)' => Handed(t)
          /\ web'[w].pc # "publish" =>
                web[w].pc # "publish" /\ store'[t] = store[t]

LEMMA MoveKeepsFresh ==
    ASSUME WebSound, FreshIds, NEW w \in Threads, NEW t \in Tasks, OneThreadMoves(w, t)
    PROVE  FreshIds'
<1>0. Nil \notin Tasks
  BY RecordAssumption
<1>1. ASSUME NEW u \in Tasks
      PROVE  UnusedIsUnknown(u)'
  <2>1. CASE u = t
    <3>1. posted'[t] = "unused" =>
             store'[t] = Nil /\ ~Handed(t)' /\ \A x \in Threads : web'[x].task # t
      BY <1>0 DEF OneThreadMoves, FreshIds, PostIsPrivate, Posting
    <3> QED BY <2>1, <3>1 DEF UnusedIsUnknown
  <2>2. CASE u # t
    BY <1>0, <2>2 DEF OneThreadMoves, FreshIds, UnusedIsUnknown
  <2> QED BY <2>1, <2>2
<1>2. ASSUME NEW x \in Threads
      PROVE  PostIsPrivate(x)'
  <2>1. CASE x = w
    <3>1. Posting(w)' =>
             /\ posted'[t] = "open"
             /\ ~Handed(t)'
             /\ web'[w].pc # "publish" => store'[t] = Nil
             /\ \A y \in Threads \ {w} : web'[y].task # t
             /\ web'[w].task = t
      BY DEF OneThreadMoves, FreshIds, PostIsPrivate, Posting
    <3> QED BY <2>1, <3>1 DEF PostIsPrivate
  <2>2. CASE x # w
    <3>1. web'[x] = web[x]
      BY <2>2 DEF OneThreadMoves
    <3>2. ASSUME Posting(x)', NEW u, u = web[x].task
          PROVE  /\ posted'[u] = "open"
                 /\ ~Handed(u)'
                 /\ web'[x].pc # "publish" => store'[u] = Nil
                 /\ \A y \in Threads \ {x} : web'[y].task # u
      <4>1. Posting(x) /\ u \in Tasks
        BY <3>1, <3>2 DEF Posting, WebSound, ThreadSound
      <4>2. u # t
        BY <2>2, <3>2, <4>1 DEF OneThreadMoves, FreshIds, PostIsPrivate
      <4>3. \A y \in Threads \ {x} : web'[y].task # u
        BY <1>0, <3>2, <4>1, <4>2 DEF OneThreadMoves, FreshIds, PostIsPrivate
      <4> QED BY <3>1, <3>2, <4>1, <4>2, <4>3 DEF OneThreadMoves, FreshIds, PostIsPrivate
    <3> QED BY <3>1, <3>2 DEF PostIsPrivate
  <2> QED BY <2>1, <2>2
<1> QED BY <1>1, <1>2 DEF FreshIds

\* Which ids are spent.
Early(w) == web[w].pc \in {"interval", "create"}

LEMMA SpentMembers ==
    /\ \A u : u \in Spent <=>
          u \in Tasks /\ posted[u] # "unused" /\ \A x \in Threads : Early(x) => web[x].task # u
    /\ \A u : u \in Spent' <=>
          u \in Tasks /\ posted'[u] # "unused" /\ \A x \in Threads : Early(x)' => web'[x].task # u
<1>1. \A u : u \in {web[w].task : w \in {x \in Threads : web[x].pc \in {"interval", "create"}}}
              <=> \E x \in Threads : Early(x) /\ web[x].task = u
  BY DEF Early
<1>2. \A u : u \in {web'[w].task : w \in {x \in Threads : web'[x].pc \in {"interval", "create"}}}
              <=> \E x \in Threads : Early(x)' /\ web'[x].task = u
  BY DEF Early
<1> QED BY <1>1, <1>2 DEF Spent

LEMMA SpentMoves ==
    ASSUME WebSound, FreshIds, NEW w \in Threads, NEW t \in Tasks, OneThreadMoves(w, t)
    PROVE  /\ t \in Spent <=> ~Early(w)
           /\ Spent' = IF posted'[t] = "unused" \/ Early(w)'
                       THEN Spent \ {t} ELSE Spent \cup {t}
<1>0. Nil \notin Tasks
  BY RecordAssumption
<1>1. \A x \in Threads \ {w} : Early(x) => web[x].task # t
  BY DEF OneThreadMoves, FreshIds, PostIsPrivate, Posting, Early
<1>2. posted[t] # "unused"
  BY DEF OneThreadMoves, FreshIds, UnusedIsUnknown
<1>3. t \in Spent <=> ~Early(w)
  BY <1>1, <1>2, SpentMembers DEF OneThreadMoves
<1>4. Early(w)' => web'[w].task = t
  BY DEF OneThreadMoves, Early, Posting
<1>5. \A x \in Threads \ {w} : web'[x] = web[x] /\ (Early(x)' <=> Early(x))
  BY DEF OneThreadMoves, Early
<1>6. t \in Spent' <=> posted'[t] # "unused" /\ ~Early(w)'
  BY <1>1, <1>4, <1>5, SpentMembers
<1>7. ASSUME NEW u, u # t
      PROVE  u \in Spent' <=> u \in Spent
  <2>1. CASE u \in Tasks
    <3>1. posted'[u] = posted[u] /\ web[w].task # u /\ web'[w].task # u
      BY <1>0, <1>7, <2>1 DEF OneThreadMoves
    <3> QED BY <1>5, <2>1, <3>1, SpentMembers
  <2>2. CASE u \notin Tasks
    BY <2>2, SpentMembers
  <2> QED BY <2>1, <2>2
<1>8. Spent' = IF posted'[t] = "unused" \/ Early(w)' THEN Spent \ {t} ELSE Spent \cup {t}
  BY <1>6, <1>7
<1> QED BY <1>3, <1>8

LEMMA SameHanded ==
    ASSUME UNCHANGED <<brokerVars, workerVars>>, NEW u
    PROVE  Handed(u)' => Handed(u)
BY DEF Handed, Queued, brokerVars, workerVars

\* A push hands over the task it pushes, and no other.
LEMMA PushHands ==
    ASSUME BrokerTypeOK, UNCHANGED <<orphans, workerVars>>, NEW t \in Tasks,
           \/ Enqueue(t) \/ queue' = queue \o <<t, t>>
    PROVE  \A u \in Tasks \ {t} : Handed(u)' => Handed(u)
BY QueuedFrom DEF Handed, workerVars

\* The updates of the two web handlers write back the copy of the thread.
LEMMA ThreadWritesBack ==
    ASSUME WebSound, FreshIds, NEW w \in Threads, NEW m \in Messages,
           web[w].pc \in {"markWrite", "staleWrite"},
           SetTask(web[w].task, MarkFailed(web[w].snap, m))
    PROVE  \E t \in Spent : WritesBack(t)
<1>1. /\ web[w].task \in Tasks
      /\ Writable(web[w].task, web[w].snap, "FAILED")
  BY DEF WebSound, ThreadSound
<1>2. /\ web[w].snap \in TaskRecords
      /\ MarkFailed(web[w].snap, m) \in TaskRecords
      /\ Updates(web[w].task, web[w].snap, MarkFailed(web[w].snap, m))
  BY <1>1, FailedIsSound, UpdatesOfCopies DEF Writable
<1>3. HasCopy(web[w].task, web[w].snap)
  BY <1>2, RecordAssumption DEF HasCopy
<1>4. WritesBack(web[w].task)
  <2>1. MarkFailed(web[w].snap, m).status = "FAILED"
    BY <1>2 DEF MarkFailed, TaskRecords
  <2> QED BY <1>2, <1>3, <2>1 DEF WritesBack, SetTask, RunsFor
<1>5. web[w].task \in Spent
  <2>1. posted[web[w].task] # "unused"
    BY <1>1 DEF FreshIds, UnusedIsUnknown
  <2>2. \A x \in Threads : Early(x) => web[x].task # web[w].task
    BY DEF FreshIds, PostIsPrivate, Posting, Early
  <2> QED BY <1>1, <2>1, <2>2, SpentMembers
<1> QED BY <1>4, <1>5

\* A thread that answers, or goes on without a copy.
LEMMA AnswerEffect ==
    ASSUME WebSound, Tidy, FreshIds, NEW w \in Threads, NEW t \in Tasks,
           web[w].pc # "idle", web[w].task = t,
           \A u \in Tasks \ {t} : store'[u] = store[u] /\ (Handed(u)' => Handed(u)),
           \/ \E answer \in {"accepted", "unavailable"} : Respond(w, answer)
           \/ WebFree(w) /\ UNCHANGED posted
    PROVE  /\ OneThreadMoves(w, t)
           /\ \A x \in Threads : ThreadEffect(x)
           /\ FreshIds'
           /\ ~Early(w) => Spent' = Spent
           /\ Early(w) => t \notin Spent /\ Spent' = Spent \cup {t}
<1>1. posted[t] # "unused" /\ posted'[t] # "unused"
  BY DEF FreshIds, UnusedIsUnknown, Respond, WebSound, WebTypeOK
<1>2. /\ web'[w] = IdleThread
      /\ \A x \in Threads \ {w} : web'[x] = web[x]
      /\ \A u \in Tasks \ {t} : posted'[u] = posted[u]
  BY DEF Respond, WebFree, WebSound, WebTypeOK
<1>3. OneThreadMoves(w, t) /\ ~Early(w)' /\ \A x \in Threads : ThreadEffect(x)
  BY <1>1, <1>2 DEF OneThreadMoves, ThreadEffect, IdleThread, Posting, Early
<1> QED
  BY <1>1, <1>3, MoveKeepsFresh, SpentMoves

\* A thread that is past the SET of its record, or polls, goes on.
LEMMA GoesOnEffect ==
    ASSUME WebSound, Tidy, FreshIds, NEW w \in Threads, NEW t \in Tasks,
           web[w].pc \notin {"idle", "interval", "create"}, web[w].task = t,
           \A u \in Tasks \ {t} : Handed(u)' => Handed(u),
           \/ WebGoto(w, "markRead") /\ web[w].snap = Nil
           \/ \E pc \in {"markWrite", "staleWrite"} :
                 web' = [web EXCEPT ![w].pc = pc, ![w].snap = store[t]],
           UNCHANGED <<store, posted>>
    PROVE  /\ \A x \in Threads : ThreadEffect(x)
           /\ FreshIds'
           /\ Spent' = Spent
<1>1. posted[t] # "unused"
  BY DEF FreshIds, UnusedIsUnknown
<1>2. /\ \A x \in Threads : ThreadEffect(x)
      /\ OneThreadMoves(w, t)
      /\ ~Early(w)'
  BY <1>1 DEF WebGoto, WebSound, WebTypeOK, OneThreadMoves, ThreadEffect, Posting, Early
<1>3. ~Early(w)
  BY DEF Early
<1> QED BY <1>1, <1>2, <1>3, MoveKeepsFresh, SpentMoves

LEMMA WebStepEffect ==
    ASSUME ConsistencyInv, Tidy, FreshIds, WebNext, UNCHANGED workerVars
    PROVE  WebEffect /\ FreshIds'
<1> USE InvParts
<1>0. \A w \in Threads : web[w].pc # "idle" => web[w].task \in Tasks
  BY DEF WebSound, ThreadSound
<1>1. ASSUME NEW w \in Threads, NEW t \in Tasks, CheckQueue(w, t)
      PROVE  WebEffect /\ FreshIds'
  <2>1. /\ web'[w].task = t /\ web'[w].pc \in {"interval", "create"}
        /\ web'[w].snap = Nil
        /\ \A x \in Threads \ {w} : web'[x] = web[x]
        /\ posted[t] = "unused" /\ posted'[t] = "open"
        /\ \A u \in Tasks \ {t} : posted'[u] = posted[u]
        /\ UNCHANGED <<store, clock>>
    BY <1>1 DEF CheckQueue, At, WebSound, WebTypeOK, Tidy, storeVars
  <2>2. \A x \in Threads : ThreadEffect(x)
    BY <2>1 DEF ThreadEffect
  <2>3. \A u \in Tasks : Handed(u)' => Handed(u)
    BY <1>1, SameHanded DEF CheckQueue
  <2>4. web[w].pc = "idle" /\ web[w].task = Nil
    BY <1>1 DEF CheckQueue, At, Tidy
  <2>5. Spent' = Spent
    <3>1. \A x \in Threads \ {w} : Early(x)' <=> Early(x)
      BY <2>1 DEF Early
    <3>2. Early(w)' /\ ~Early(w)
      BY <2>1, <2>4 DEF Early
    <3>3. \A u : u \in Spent' <=> u \in Spent
      BY <2>1, <3>1, <3>2, SpentMembers
    <3> QED BY <3>3
  <2>6. FreshIds'
    <3>1. ASSUME NEW u \in Tasks
          PROVE  UnusedIsUnknown(u)'
      BY <2>1, <2>3 DEF FreshIds, UnusedIsUnknown
    <3>2. ASSUME NEW x \in Threads, x # w
          PROVE  PostIsPrivate(x)'
      <4>1. ASSUME NEW u \in Tasks, u = web[x].task, Posting(x)
            PROVE  /\ posted'[u] = "open"
                   /\ ~Handed(u)'
                   /\ web'[x].pc # "publish" => store'[u] = Nil
                   /\ \A y \in Threads \ {x} : web'[y].task # u
        BY <2>1, <2>3, <3>2, <4>1 DEF FreshIds, PostIsPrivate
      <4>2. Posting(x)' => Posting(x) /\ web[x].task \in Tasks
        BY <1>0, <2>1, <3>2 DEF Posting
      <4> QED BY <2>1, <3>2, <4>1, <4>2 DEF PostIsPrivate
    <3>3. PostIsPrivate(w)'
      <4>1. ~Handed(t)' /\ store'[t] = Nil /\ \A y \in Threads \ {w} : web'[y].task # t
        BY <2>1, <2>3 DEF FreshIds, UnusedIsUnknown
      <4> QED BY <2>1, <4>1 DEF PostIsPrivate
    <3> QED BY <3>1, <3>2, <3>3 DEF FreshIds
  <2> QED BY <2>1, <2>2, <2>5, <2>6 DEF WebEffect
<1>2. ASSUME NEW w \in Threads, NEW t \in Tasks, Poll(w, t)
      PROVE  WebEffect /\ FreshIds'
  <2>1. /\ web'[w].task = t /\ web'[w].pc = "staleRead"
        /\ web'[w].snap = Nil
        /\ \A x \in Threads \ {w} : web'[x] = web[x]
        /\ posted[t] = "accepted"
        /\ UNCHANGED <<store, clock, posted>>
    BY <1>2 DEF Poll, At, WebSound, WebTypeOK, Tidy, storeVars
  <2>2. \A x \in Threads : ThreadEffect(x)
    BY <2>1 DEF ThreadEffect
  <2>3. \A u \in Tasks : Handed(u)' => Handed(u)
    BY <1>2, SameHanded DEF Poll
  <2>4. Spent' = Spent
    <3>1. \A x \in Threads \ {w} : Early(x)' <=> Early(x)
      BY <2>1 DEF Early
    <3>2. ~Early(w)' /\ ~Early(w)
      BY <1>2, <2>1 DEF Early, Poll, At
    <3>3. \A u : u \in Spent' <=> u \in Spent
      BY <2>1, <3>1, <3>2, SpentMembers
    <3> QED BY <3>3
  <2>5. FreshIds'
    <3>1. ASSUME NEW u \in Tasks
          PROVE  UnusedIsUnknown(u)'
      BY <2>1, <2>3 DEF FreshIds, UnusedIsUnknown
    <3>2. ASSUME NEW x \in Threads, x # w
          PROVE  PostIsPrivate(x)'
      <4>1. ASSUME NEW u \in Tasks, u = web[x].task, Posting(x)
            PROVE  /\ posted'[u] = "open"
                   /\ ~Handed(u)'
                   /\ web'[x].pc # "publish" => store'[u] = Nil
                   /\ \A y \in Threads \ {x} : web'[y].task # u
        BY <2>1, <2>3, <3>2, <4>1 DEF FreshIds, PostIsPrivate
      <4>2. Posting(x)' => Posting(x) /\ web[x].task \in Tasks
        BY <1>0, <2>1, <3>2 DEF Posting
      <4> QED BY <2>1, <3>2, <4>1, <4>2 DEF PostIsPrivate
    <3>3. PostIsPrivate(w)'
      BY <2>1 DEF PostIsPrivate, Posting
    <3> QED BY <3>1, <3>2, <3>3 DEF FreshIds
  <2> QED BY <2>1, <2>2, <2>4, <2>5 DEF WebEffect
<1>3. ASSUME NEW w \in Threads, TakeCooldown(w) \/ CooldownFails(w)
      PROVE  WebEffect /\ FreshIds'
  <2>0. web[w].pc = "interval" /\ web[w].snap = Nil /\ UNCHANGED <<store, clock, brokerVars>>
    BY <1>3 DEF TakeCooldown, CooldownFails, At, Tidy, storeVars
  <2>1. PICK t \in Tasks : web[w].task = t
    BY <1>0, <2>0
  <2>2. \A u \in Tasks : Handed(u)' => Handed(u)
    BY <2>0, SameHanded
  <2>3. posted[t] # "unused"
    BY <2>1 DEF FreshIds, UnusedIsUnknown
  <2>4. \/ WebGoto(w, "create") /\ UNCHANGED posted
        \/ Respond(w, "unused")
    BY <1>3 DEF TakeCooldown, CooldownFails
  <2>5. /\ OneThreadMoves(w, t)
        /\ \A x \in Threads : ThreadEffect(x)
        /\ posted'[t] = "unused" \/ Early(w)'
    <3>1. CASE WebGoto(w, "create") /\ UNCHANGED posted
      BY <2>0, <2>1, <2>2, <2>3, <3>1
         DEF WebGoto, WebSound, WebTypeOK, OneThreadMoves, ThreadEffect, Posting, Early
    <3>2. CASE Respond(w, "unused")
      BY <2>0, <2>1, <2>2, <3>2
         DEF Respond, WebFree, IdleThread, WebSound, WebTypeOK, OneThreadMoves,
             ThreadEffect, Posting
    <3> QED BY <2>4, <3>1, <3>2
  <2>6. Spent' = Spent
    BY <2>0, <2>5, SpentMoves DEF Early
  <2> QED BY <2>0, <2>5, <2>6, MoveKeepsFresh DEF WebEffect
<1>4. ASSUME NEW w \in Threads, Create(w)
      PROVE  WebEffect /\ FreshIds'
  <2>0. /\ web[w].pc = "create" /\ web[w].snap = Nil
        /\ store[web[w].task] = Nil
        /\ UNCHANGED <<clock, brokerVars, posted>>
    BY <1>4 DEF Create, At, Tidy
  <2>1. PICK t \in Tasks : web[w].task = t
    BY <1>0, <2>0
  <2>2. \A u \in Tasks : Handed(u)' => Handed(u)
    BY <2>0, SameHanded
  <2>3. posted[t] # "unused"
    BY <2>1 DEF FreshIds, UnusedIsUnknown
  <2>4. /\ OneThreadMoves(w, t)
        /\ \A x \in Threads : ThreadEffect(x)
        /\ ~Early(w)'
    BY <1>4, <2>0, <2>1, <2>2, <2>3
       DEF Create, SetTask, WebGoto, WebSound, WebTypeOK, StoreSound, StoreTypeOK,
           OneThreadMoves, ThreadEffect, Posting, Early
  <2>5. Spent' = Spent \cup {t}
    BY <2>0, <2>3, <2>4, SpentMoves
  <2>6. Creates(w)
    BY <1>4, <2>0, <2>1, <2>5 DEF Create, SetTask, Creates
  <2> QED BY <2>0, <2>4, <2>6, MoveKeepsFresh DEF WebEffect
<1>5. ASSUME NEW w \in Threads, CreateFails(w)
      PROVE  WebEffect /\ FreshIds'
  <2>0. /\ web[w].pc = "create"
        /\ store[web[w].task] = Nil
        /\ UNCHANGED <<clock, brokerVars>>
        /\ Respond(w, "unavailable")
    BY <1>5 DEF CreateFails, At
  <2>1. PICK t \in Tasks : web[w].task = t
    BY <1>0, <2>0
  <2>2. \A u \in Tasks : Handed(u)' => Handed(u)
    BY <2>0, SameHanded
  <2>3. \A u \in Tasks \ {t} : store'[u] = store[u]
    BY <1>5, <2>1 DEF CreateFails, SetTask, StoreSound, StoreTypeOK
  <2>4. /\ \A x \in Threads : ThreadEffect(x)
        /\ FreshIds'
        /\ t \notin Spent /\ Spent' = Spent \cup {t}
    BY <2>0, <2>1, <2>2, <2>3, AnswerEffect DEF Early
  <2>5. CASE UNCHANGED store
    <3>1. {t} \in SUBSET Tasks /\ {t} # {} /\ {t} \cap Spent = {} /\ Spent' = Spent \cup {t}
      BY <2>4
    <3> QED BY <2>0, <2>4, <2>5, <3>1 DEF WebEffect
  <2>6. CASE SetTask(t, NewTask(t, clock))
    <3>1. Creates(w)
      BY <2>0, <2>1, <2>4, <2>6 DEF SetTask, Creates
    <3> QED BY <2>0, <2>4, <3>1 DEF WebEffect
  <2> QED BY <1>5, <2>1, <2>5, <2>6 DEF CreateFails
<1>6. ASSUME NEW w \in Threads, Publish(w) \/ PublishTwice(w) \/ PublishFails(w)
      PROVE  WebEffect /\ FreshIds'
  <2>0. /\ web[w].pc = "publish" /\ web[w].snap = Nil
        /\ UNCHANGED <<store, clock, orphans>>
    BY <1>6 DEF Publish, PublishTwice, PublishFails, At, Tidy, storeVars
  <2>1. PICK t \in Tasks : web[w].task = t
    BY <1>0, <2>0
  <2>2. \A u \in Tasks \ {t} : Handed(u)' => Handed(u)
    BY <1>6, <2>0, <2>1, SameHanded, PushHands
       DEF Publish, PublishTwice, PublishFails, brokerVars
  <2>3. CASE Respond(w, "accepted")
    BY <2>0, <2>1, <2>2, <2>3, AnswerEffect DEF WebEffect, Early
  <2>4. CASE PublishFails(w)
    BY <2>0, <2>1, <2>2, <2>4, GoesOnEffect DEF PublishFails, WebEffect
  <2> QED BY <1>6, <2>3, <2>4 DEF Publish, PublishTwice
<1>7. ASSUME NEW w \in Threads, MarkRead(w) \/ StaleRead(w)
      PROVE  WebEffect /\ FreshIds'
  <2>0. /\ web[w].pc \in {"markRead", "staleRead"}
        /\ UNCHANGED <<store, clock, brokerVars>>
    BY <1>7 DEF MarkRead, StaleRead, At, storeVars
  <2>1. PICK t \in Tasks : web[w].task = t
    BY <1>0, <2>0
  <2>2. \A u \in Tasks : Handed(u)' => Handed(u)
    BY <2>0, SameHanded
  <2>3. CASE Accepts(t, "FAILED")
    BY <1>7, <2>0, <2>1, <2>2, <2>3, GoesOnEffect
       DEF MarkRead, StaleRead, WebUpdateRead, WebEffect
  <2>4. CASE ~Accepts(t, "FAILED")
    <3>1. Respond(w, "unavailable") \/ (WebFree(w) /\ UNCHANGED posted)
      BY <1>7, <2>1, <2>4 DEF MarkRead, StaleRead, WebUpdateRead
    <3> QED BY <2>0, <2>1, <2>2, <3>1, AnswerEffect DEF WebEffect, Early
  <2> QED BY <2>3, <2>4
<1>8. ASSUME NEW w \in Threads, MarkWrite(w) \/ StaleWrite(w) \/ WebUpdateFails(w)
      PROVE  WebEffect /\ FreshIds'
  <2>0. /\ web[w].pc \in {"markRead", "staleRead", "markWrite", "staleWrite"}
        /\ UNCHANGED <<clock, brokerVars>>
    BY <1>8 DEF MarkWrite, StaleWrite, WebUpdateFails, At
  <2>1. PICK t \in Tasks : web[w].task = t
    BY <1>0, <2>0
  <2>2. \A u \in Tasks : Handed(u)' => Handed(u)
    BY <2>0, SameHanded
  <2>3. \/ UNCHANGED store
        \/ /\ web[w].pc \in {"markWrite", "staleWrite"}
           /\ \E m \in Messages : SetTask(web[w].task, MarkFailed(web[w].snap, m))
    BY <1>8 DEF MarkWrite, StaleWrite, WebUpdateFails, At, Messages
  <2>4. UNCHANGED store \/ \E u \in Spent : WritesBack(u)
    BY <2>3, ThreadWritesBack
  <2>5. \A u \in Tasks \ {t} : store'[u] = store[u]
    BY <2>1, <2>3 DEF SetTask, StoreSound, StoreTypeOK
  <2>6. Respond(w, "unavailable") \/ (WebFree(w) /\ UNCHANGED posted)
    BY <1>8 DEF MarkWrite, StaleWrite, WebUpdateFails
  <2>7. (\A x \in Threads : ThreadEffect(x)) /\ FreshIds' /\ Spent' = Spent
    BY <2>0, <2>1, <2>2, <2>5, <2>6, AnswerEffect DEF Early
  <2> QED BY <2>0, <2>4, <2>7 DEF WebEffect
<1>9. ASSUME WebCrash
      PROVE  WebEffect /\ FreshIds'
  <2>0. /\ \A x \in Threads : web'[x] = IdleThread
        /\ \A u \in Tasks :
              /\ posted'[u] = IF posted[u] = "open" THEN "unavailable" ELSE posted[u]
              /\ Handed(u)' => Handed(u)
        /\ UNCHANGED <<store, clock>>
    BY <1>9, SameHanded DEF WebCrash
  <2>1. FreshIds'
    <3>1. ASSUME NEW u \in Tasks
          PROVE  UnusedIsUnknown(u)'
      BY <2>0, RecordAssumption DEF FreshIds, UnusedIsUnknown, IdleThread
    <3>2. ASSUME NEW x \in Threads
          PROVE  PostIsPrivate(x)'
      BY <2>0 DEF PostIsPrivate, Posting, IdleThread
    <3> QED BY <3>1, <3>2 DEF FreshIds
  <2>2. Spent \subseteq Spent' /\ Spent' \subseteq Tasks
    BY <2>0, SpentMembers DEF Early, IdleThread
  <2>3. \/ Spent' = Spent
        \/ \E S \in SUBSET Tasks : S # {} /\ S \cap Spent = {} /\ Spent' = Spent \cup S
    <3>1. CASE Spent' # Spent
      <4>1. /\ Spent' \ Spent \in SUBSET Tasks
            /\ Spent' \ Spent # {}
            /\ (Spent' \ Spent) \cap Spent = {}
            /\ Spent' = Spent \cup (Spent' \ Spent)
        BY <2>2, <3>1
      <4> QED BY <4>1
    <3> QED BY <3>1
  <2>4. \A x \in Threads : ThreadEffect(x)
    BY <2>0 DEF ThreadEffect
  <2> QED BY <2>0, <2>1, <2>3, <2>4 DEF WebEffect
<1>10. ASSUME ExpireCooldown
       PROVE  WebEffect /\ FreshIds'
  <2>1. UNCHANGED <<web, posted, store, clock>> /\ \A u \in Tasks : Handed(u)' => Handed(u)
    BY <1>10, SameHanded DEF ExpireCooldown, storeVars
  <2>2. Spent' = Spent
    BY <2>1 DEF Spent
  <2>3. FreshIds'
    <3>1. ASSUME NEW u \in Tasks
          PROVE  UnusedIsUnknown(u)'
      BY <2>1 DEF FreshIds, UnusedIsUnknown
    <3>2. ASSUME NEW x \in Threads
          PROVE  PostIsPrivate(x)'
      <4>1. ASSUME NEW u \in Tasks, u = web[x].task, Posting(x)
            PROVE  posted[u] = "open" /\ ~Handed(u)'
        BY <2>1, <4>1 DEF FreshIds, PostIsPrivate
      <4> QED BY <1>0, <2>1, <4>1 DEF FreshIds, PostIsPrivate, Posting
    <3> QED BY <3>1, <3>2 DEF FreshIds
  <2> QED BY <2>1, <2>2, <2>3 DEF WebEffect, ThreadEffect
<1> QED
  BY <1>1, <1>2, <1>3, <1>4, <1>5, <1>6, <1>7, <1>8, <1>9, <1>10
     DEF WebNext, ThreadStep, ThreadFault

-----------------------------------------------------------------------------

(***************************************************************************)
(* Any step                                                                *)
(***************************************************************************)

\* The time of some records is over.
Expires ==
    \E S \in SUBSET Tasks : store' = [t \in Tasks |-> IF t \in S THEN Nil ELSE store[t]]

Withdraws ==
    /\ UNCHANGED store
    /\ \E S \in SUBSET Tasks : S # {} /\ S \cap Spent = {} /\ Spent' = Spent \cup S

StoreEffect ==
    \/ UNCHANGED <<store, Spent>>
    \/ Withdraws
    \/ Spent' = Spent /\ \E t \in Spent : WritesBack(t)
    \/ \E w \in Threads : Creates(w)
    \/ Spent' = Spent /\ Expires

StepEffect ==
    /\ \A w \in Threads : ThreadEffect(w)
    /\ \A c \in Children : ChildEffect(c)
    /\ ParentEffect
    /\ StoreEffect
    /\ clock' \in Nat /\ clock <= clock'

LEMMA IdleEffects ==
    /\ UNCHANGED web => \A w \in Threads : ThreadEffect(w)
    /\ Tidy /\ UNCHANGED child => \A c \in Children : ChildEffect(c)
    /\ UNCHANGED parent => ParentEffect
    /\ UNCHANGED <<web, posted>> => Spent' = Spent
BY DEF ThreadEffect, ChildEffect, ParentEffect, Tidy, Spent

\* What the web threads do not touch stays private to them.
LEMMA OthersKeepFresh ==
    ASSUME WebSound, FreshIds, UNCHANGED <<web, posted>>,
           \A t \in Tasks :
              /\ Handed(t)' => Handed(t)
              /\ store'[t] \in {store[t], Nil} \/ Handed(t)
    PROVE  FreshIds'
<1>1. ASSUME NEW t \in Tasks
      PROVE  UnusedIsUnknown(t)'
  BY DEF FreshIds, UnusedIsUnknown
<1>2. ASSUME NEW w \in Threads
      PROVE  PostIsPrivate(w)'
  <2>1. ASSUME NEW t \in Tasks, t = web[w].task, Posting(w)
        PROVE  /\ posted[t] = "open" /\ ~Handed(t)'
               /\ web[w].pc # "publish" => store'[t] = Nil
               /\ \A x \in Threads \ {w} : web[x].task # t
    BY <2>1 DEF FreshIds, PostIsPrivate
  <2>2. Posting(w) => web[w].task \in Tasks
    BY DEF Posting, WebSound, ThreadSound
  <2>3. Posting(w)' <=> Posting(w)
    BY DEF Posting
  <2> QED BY <2>1, <2>2, <2>3 DEF PostIsPrivate
<1> QED BY <1>1, <1>2 DEF FreshIds

\* Whose message has been published is spent.
LEMMA HandedIsSpent ==
    ASSUME FreshIds, NEW t \in Tasks, Handed(t)
    PROVE  t \in Spent
<1>1. posted[t] # "unused"
  BY DEF FreshIds, UnusedIsUnknown
<1>2. \A x \in Threads : Early(x) => web[x].task # t
  BY DEF FreshIds, PostIsPrivate, Posting, Early
<1> QED BY <1>1, <1>2, SpentMembers

\* Where a child, the parent and the messages of the next state come from.
LEMMA EffectHands ==
    ASSUME NEW t \in Tasks, QueueEffect(t),
           \A c \in Children : ChildEffect(c), ParentEffect, Handed(t)'
    PROVE  Handed(t)
<1>1. CASE (Queued(t) \/ orphans[t] > 0)'
  BY <1>1 DEF QueueEffect, Handed
<1>2. CASE \E c \in Children : child'[c].task = t
  <2>1. PICK c \in Children : child'[c].task = t
    BY <1>2
  <2> QED BY <2>1, RecordAssumption DEF ChildEffect, IdleChild, Handed
<1>3. CASE parent'.task = t
  BY <1>3, RecordAssumption DEF ParentEffect, Handed
<1> QED BY <1>1, <1>2, <1>3 DEF Handed

LEMMA AnyStepEffect ==
    ASSUME ConsistencyInv, Tidy, FreshIds, [Next]_vars
    PROVE  StepEffect /\ FreshIds'
<1> USE InvParts
<1>0. clock \in Nat
  BY DEF StoreSound, StoreTypeOK
<1>1. CASE WebNext /\ UNCHANGED workerVars
  <2>1. WebEffect /\ FreshIds'
    BY <1>1, WebStepEffect
  <2>2. (\A c \in Children : ChildEffect(c)) /\ ParentEffect
    BY <1>1, IdleEffects DEF workerVars
  <2>3. StoreEffect
    BY <2>1 DEF WebEffect, StoreEffect, Withdraws
  <2> QED BY <1>0, <2>1, <2>2, <2>3 DEF WebEffect, StepEffect
<1>2. CASE WorkerNext /\ UNCHANGED webVars
  <2>1. WorkerEffect
    BY <1>2, WorkerStepEffect
  <2>2. (\A w \in Threads : ThreadEffect(w)) /\ Spent' = Spent
    BY <1>2, IdleEffects DEF webVars
  <2>3. StoreEffect
    BY <2>1, <2>2, HandedIsSpent DEF WorkerEffect, StoreEffect
  <2>4. ASSUME NEW t \in Tasks
        PROVE  store'[t] = store[t] \/ Handed(t)
    BY <2>1, <2>4 DEF WorkerEffect, WritesBack, StoreSound, StoreTypeOK
  <2>5. FreshIds'
    BY <1>2, <2>1, <2>4, EffectHands, OthersKeepFresh DEF WorkerEffect, webVars
  <2> QED BY <1>0, <2>1, <2>2, <2>3, <2>5 DEF WorkerEffect, StepEffect
<1>3. CASE RestoreOrphans
  <2>1. PICK t \in Tasks : RestoreOrphan(t)
    BY <1>3 DEF RestoreOrphans
  <2>2. UNCHANGED <<store, clock, web, posted, child, parent>>
    BY <1>3, <2>1 DEF RestoreOrphans, RestoreOrphan, storeVars, webVars, workerVars
  <2>3. ASSUME NEW u \in Tasks
        PROVE  QueueEffect(u)
    <3>1. Queued(u)' => Queued(u) \/ u = t
      BY <2>1, QueuedFrom DEF RestoreOrphan
    <3>2. orphans'[u] > 0 => orphans[u] > 0
      BY <2>1 DEF RestoreOrphan, BrokerTypeOK
    <3>3. orphans[t] > 0
      BY <2>1 DEF RestoreOrphan
    <3> QED BY <3>1, <3>2, <3>3 DEF QueueEffect
  <2>4. /\ \A w \in Threads : ThreadEffect(w)
        /\ \A c \in Children : ChildEffect(c)
        /\ ParentEffect
        /\ Spent' = Spent
    BY <2>2, IdleEffects
  <2>5. FreshIds'
    BY <2>2, <2>3, <2>4, EffectHands, OthersKeepFresh
  <2> QED BY <1>0, <2>2, <2>4, <2>5 DEF StepEffect, StoreEffect
<1>4. CASE TimePasses
  <2>1. UNCHANGED <<web, posted, child, parent, queue, orphans>>
    BY <1>4 DEF TimePasses, webVars, workerVars, brokerVars
  <2>2. clock' = clock + 1
    BY <1>4 DEF TimePasses, Tick
  <2>3. Expires
    <3>1. {t \in Tasks : expires[t] <= clock'} \in SUBSET Tasks
      OBVIOUS
    <3>2. store' = [t \in Tasks |-> IF t \in {u \in Tasks : expires[u] <= clock'}
                                    THEN Nil ELSE store[t]]
      BY <1>4 DEF TimePasses, Tick
    <3> QED BY <3>1, <3>2 DEF Expires
  <2>4. /\ \A w \in Threads : ThreadEffect(w)
        /\ \A c \in Children : ChildEffect(c)
        /\ ParentEffect
        /\ Spent' = Spent
    BY <2>1, IdleEffects
  <2>5. \A t \in Tasks : store'[t] \in {store[t], Nil} /\ (Handed(t)' => Handed(t))
    BY <1>4, <2>1, SameHanded DEF TimePasses, Tick, brokerVars, workerVars
  <2>6. FreshIds'
    BY <2>1, <2>5, OthersKeepFresh
  <2> QED BY <1>0, <2>2, <2>3, <2>4, <2>6 DEF StepEffect, StoreEffect
<1>5. CASE UNCHANGED vars
  <2>1. UNCHANGED <<store, clock, web, posted, child, parent, queue, orphans>>
    BY <1>5 DEF vars, storeVars, webVars, workerVars, brokerVars
  <2>2. /\ \A w \in Threads : ThreadEffect(w)
        /\ \A c \in Children : ChildEffect(c)
        /\ ParentEffect
        /\ Spent' = Spent
    BY <2>1, IdleEffects
  <2>3. FreshIds'
    BY <2>1, SameHanded, OthersKeepFresh DEF brokerVars, workerVars
  <2> QED BY <1>0, <2>1, <2>2, <2>3 DEF StepEffect, StoreEffect
<1> QED BY <1>1, <1>2, <1>3, <1>4, <1>5 DEF Next

-----------------------------------------------------------------------------

(***************************************************************************)
(* The inductive invariant                                                 *)
(***************************************************************************)

LEMMA StepKeepsTidy ==
    ASSUME ConsistencyInv, Tidy, StepEffect, ConsistencyInv'
    PROVE  Tidy'
<1>1. ASSUME NEW w \in Threads
      PROVE  /\ web'[w].pc = "idle" => web'[w].task = Nil
             /\ web'[w].pc \notin {"markWrite", "staleWrite"} => web'[w].snap = Nil
  BY DEF StepEffect, ThreadEffect, IdleThread, Tidy
<1>2. ASSUME NEW c \in Children
      PROVE  /\ child'[c].pc = "idle" => child'[c] = IdleChild
             /\ child'[c].pc = "solve" => child'[c].snap # Nil
             /\ child'[c].started <= clock'
  <2>1. clock \in Nat /\ clock' \in Nat /\ clock <= clock' /\ child[c].started \in Nat
    BY DEF StepEffect, ConsistencyInv, TypeOK, StoreTypeOK, WorkerTypeOK, ChildRecords
  <2>2. child[c].started <= clock
    BY DEF Tidy
  <2>3. CASE child'[c] = IdleChild
    BY <2>1, <2>3 DEF IdleChild
  <2>4. CASE child'[c] # IdleChild
    BY <2>1, <2>2, <2>4 DEF StepEffect, ChildEffect
  <2> QED BY <2>3, <2>4
<1> QED BY <1>1, <1>2 DEF Tidy

\* A copy that somebody has after a step was there before, or has just been read.
LEMMA CopiesComeFrom ==
    ASSUME Tidy, StepEffect, NEW t \in Tasks, NEW r \in TaskRecords, HasCopy(t, r)'
    PROVE  HasCopy(t, r) \/ r = store[t]
<1>0. r # Nil /\ t # Nil
  BY RecordAssumption
<1>1. CASE \E w \in Threads : web'[w].task = t /\ web'[w].snap = r
  <2>1. PICK w \in Threads : web'[w].task = t /\ web'[w].snap = r
    BY <1>1
  <2> QED BY <1>0, <2>1 DEF StepEffect, ThreadEffect, IdleThread, HasCopy
<1>2. CASE \E c \in Children : child'[c].task = t /\ child'[c].snap = r
  <2>1. PICK c \in Children : child'[c].task = t /\ child'[c].snap = r
    BY <1>2
  <2> QED BY <1>0, <2>1 DEF StepEffect, ChildEffect, IdleChild, HasCopy
<1>3. CASE parent'.task = t /\ parent'.snap = r
  BY <1>0, <1>3 DEF StepEffect, ParentEffect, HasCopy
<1> QED BY <1>1, <1>2, <1>3 DEF HasCopy

\* What is in the store after a step: nothing, the same record, a new record of
\* an id that nobody else knows, or an update of a copy.
LEMMA RecordsComeFrom ==
    ASSUME ConsistencyInv, Tidy, FreshIds, StepEffect, NEW t \in Tasks
    PROVE  \/ store'[t] = Nil
           \/ store'[t] = store[t]
           \/ /\ store[t] = Nil
              /\ store'[t] = NewTask(t, clock)
              /\ ~Handed(t)
              /\ \A r : ~HasCopy(t, r)
           \/ \E old, new \in TaskRecords :
                 /\ HasCopy(t, old)
                 /\ Updates(t, old, new)
                 /\ RunsFor(t, new.status)
                 /\ store'[t] = new
<1>0. store \in [Tasks -> TaskRecords \cup {Nil}]
  BY DEF ConsistencyInv, TypeOK, StoreTypeOK
<1>1. CASE UNCHANGED store \/ Expires
  BY <1>1 DEF Expires
<1>2. CASE \E u \in Spent : WritesBack(u)
  <2>1. PICK u \in Spent : WritesBack(u)
    BY <1>2
  <2> QED BY <1>0, <2>1 DEF WritesBack, Spent
<1>3. CASE \E w \in Threads : Creates(w)
  <2>1. PICK w \in Threads : Creates(w)
    BY <1>3
  <2>2. CASE web[w].task = t
    <3>1. ~Handed(t) /\ \A x \in Threads \ {w} : web[x].task # t
      BY <2>1, <2>2 DEF Creates, FreshIds, PostIsPrivate, Posting
    <3>2. web[w].snap = Nil
      BY <2>1 DEF Creates, Tidy
    <3>3. \A r : ~HasCopy(t, r)
      BY <3>1, <3>2 DEF HasCopy, Handed
    <3> QED BY <1>0, <2>1, <2>2, <3>1, <3>3 DEF Creates
  <2>3. CASE web[w].task # t
    BY <1>0, <2>1, <2>3 DEF Creates
  <2> QED BY <2>2, <2>3
<1> QED BY <1>1, <1>2, <1>3 DEF StepEffect, StoreEffect, Withdraws

LEMMA StepKeepsBirth ==
    ASSUME ConsistencyInv, Tidy, FreshIds, OneBirth, StepEffect
    PROVE  OneBirth'
<1> SUFFICES ASSUME NEW t \in Tasks
             PROVE  \E n \in Nat : BornAt(t, n)'
  BY DEF OneBirth
<1>0. /\ clock \in Nat /\ MaxAge \in Nat \ {0}
      /\ store[t] # Nil => store[t] \in TaskRecords
      /\ \A c \in Children : child[c] \in ChildRecords
      /\ Nil \notin TaskRecords
  BY RecordAssumption DEF ConsistencyInv, TypeOK, StoreTypeOK, WorkerTypeOK
<1>1. PICK n \in Nat : BornAt(t, n)
  BY DEF OneBirth
<1>2. ASSUME NEW c \in Children, Starting(c, t)'
      PROVE  \/ Starting(c, t) /\ child'[c].started = child[c].started
             \/ store[t] # Nil /\ child'[c].started - store[t].created < MaxAge
  <2>1. child[c].started <= clock
    BY DEF Tidy
  <2>2. child'[c] # IdleChild /\ child'[c].pc # "load"
    BY <1>2 DEF Starting, IdleChild
  <2>3. /\ child[c].task = t
        /\ child'[c].started = child[c].started
        /\ \/ child[c].pc \in {"procRead", "procWrite", "solve"}
           \/ store[t] # Nil /\ clock - store[t].created < MaxAge
    BY <1>2, <2>2 DEF StepEffect, ChildEffect, Starting
  <2>4. child[c].started \in Nat /\ (store[t] # Nil => store[t].created \in Nat)
    BY <1>0 DEF ChildRecords, TaskRecords
  <2>5. CASE child[c].pc \in {"procRead", "procWrite", "solve"}
    BY <2>3, <2>5 DEF Starting
  <2>6. CASE store[t] # Nil /\ clock - store[t].created < MaxAge
    BY <1>0, <2>1, <2>3, <2>4, <2>6
  <2> QED BY <2>3, <2>5, <2>6
<1>3. CASE store'[t] = NewTask(t, clock) /\ ~Handed(t) /\ store[t] = Nil /\ \A r : ~HasCopy(t, r)
  <2>1. store'[t].created = clock
    BY <1>3 DEF NewTask
  <2>2. \A r \in TaskRecords : ~HasCopy(t, r)'
    BY <1>0, <1>3, CopiesComeFrom
  <2>3. \A c \in Children : ~Starting(c, t)'
    BY <1>2, <1>3 DEF Starting, Handed
  <2> QED BY <1>0, <2>1, <2>2, <2>3 DEF BornAt
<1>4. CASE \/ store'[t] = Nil
           \/ store'[t] = store[t]
           \/ \E old, new \in TaskRecords :
                 HasCopy(t, old) /\ Updates(t, old, new) /\ store'[t] = new
  <2>1. store'[t] # Nil => store'[t].created = n
    BY <1>1, <1>4 DEF BornAt, Updates
  <2>2. \A r \in TaskRecords : HasCopy(t, r)' => r.created = n
    BY <1>0, <1>1, CopiesComeFrom DEF BornAt
  <2>3. \A c \in Children : Starting(c, t)' => child'[c].started - n < MaxAge
    BY <1>1, <1>2 DEF BornAt
  <2> QED BY <1>1, <2>1, <2>2, <2>3 DEF BornAt
<1> QED BY <1>3, <1>4, RecordsComeFrom

LEMMA StepKeepsPending ==
    ASSUME ConsistencyInv, Tidy, FreshIds, NothingBeforePending, StepEffect
    PROVE  NothingBeforePending'
<1> SUFFICES ASSUME NEW t \in Tasks, store'[t] # Nil, store'[t].status = "PENDING",
                    NEW r \in TaskRecords, HasCopy(t, r)'
             PROVE  r.status = "PENDING"
  BY DEF NothingBeforePending
<1>1. HasCopy(t, r) \/ r = store[t]
  BY CopiesComeFrom
<1>2. store'[t] = store[t]
  BY <1>1, RecordsComeFrom, RecordAssumption DEF Updates
<1> QED BY <1>1, <1>2 DEF NothingBeforePending

LEMMA InitProvenance == Init => ProvenanceInv
<1> SUFFICES ASSUME Init PROVE ProvenanceInv
  OBVIOUS
<1>0. /\ web = [w \in Threads |-> IdleThread] /\ posted = [t \in Tasks |-> "unused"]
      /\ child = [c \in Children |-> IdleChild] /\ parent = IdleParent
      /\ store = [t \in Tasks |-> Nil] /\ clock = 0
      /\ queue = <<>> /\ orphans = [t \in Tasks |-> 0]
  BY DEF Init, StoreInit, BrokerInit, WebInit, WorkerInit
<1>1. Tidy
  BY <1>0 DEF Tidy, IdleThread, IdleChild
<1>2. \A t \in Tasks : ~Handed(t) /\ \A w \in Threads : web[w].task # t
  <2> TAKE t \in Tasks
  <2>1. t # Nil /\ Len(queue) = 0 /\ orphans[t] = 0
    BY <1>0, RecordAssumption
  <2>2. ~Queued(t)
    BY <2>1 DEF Queued
  <2>3. \A w \in Threads : web[w].task # t
    BY <1>0, <2>1 DEF IdleThread
  <2>4. (\A c \in Children : child[c].task # t) /\ parent.task # t
    BY <1>0, <2>1 DEF IdleChild, IdleParent
  <2> QED BY <2>1, <2>2, <2>3, <2>4 DEF Handed
<1>3. FreshIds
  BY <1>0, <1>2 DEF FreshIds, UnusedIsUnknown, PostIsPrivate, Posting, IdleThread
<1>4. \A t \in Tasks, r \in TaskRecords : ~HasCopy(t, r)
  BY <1>0, <1>2 DEF HasCopy, Handed
<1>5. OneBirth
  <2>1. \A t \in Tasks : BornAt(t, 0)
    BY <1>0, <1>2, <1>4 DEF BornAt, Starting, Handed
  <2> QED BY <2>1 DEF OneBirth
<1>6. NothingBeforePending
  BY <1>4 DEF NothingBeforePending
<1> QED BY <1>1, <1>3, <1>5, <1>6, InitSound DEF ProvenanceInv

LEMMA NextProvenance == ProvenanceInv /\ [Next]_vars => ProvenanceInv' /\ StepEffect
<1> SUFFICES ASSUME ProvenanceInv, [Next]_vars PROVE ProvenanceInv' /\ StepEffect
  OBVIOUS
<1>1. ConsistencyInv'
  BY NextSound DEF ProvenanceInv
<1>2. StepEffect /\ FreshIds'
  BY AnyStepEffect DEF ProvenanceInv
<1> QED
  BY <1>1, <1>2, StepKeepsTidy, StepKeepsBirth, StepKeepsPending DEF ProvenanceInv

-----------------------------------------------------------------------------

(***************************************************************************)
(* The theorems                                                            *)
(***************************************************************************)

\* The inductive invariant: an id is private until its message is published,
\* and all the copies of a record go back to one creation.
THEOREM ProvenanceInvariant == Spec => []ProvenanceInv
<1>1. Init => ProvenanceInv
  BY InitProvenance
<1>2. ProvenanceInv /\ [Next]_vars => ProvenanceInv'
  BY NextProvenance
<1> QED BY <1>1, <1>2, PTL DEF Spec

\* No update, however late, changes the body or the creation time of a stored
\* task (update_task).
THEOREM InputIsPreserved == Spec => InputPreserved
<1>1. ASSUME ProvenanceInv, [Next]_vars, NEW t \in Tasks,
             store[t] # Nil, store'[t] # Nil
      PROVE  store'[t].input = store[t].input /\ store'[t].created = store[t].created
  <2>1. Consistent(t, store[t])
    BY <1>1 DEF ProvenanceInv, ConsistencyInv, RecordsConsistent
  <2>2. PICK n \in Nat : BornAt(t, n)
    BY <1>1 DEF ProvenanceInv, OneBirth
  <2>3. \/ store'[t] = store[t]
        \/ \E old, new \in TaskRecords :
              HasCopy(t, old) /\ Updates(t, old, new) /\ store'[t] = new
    BY <1>1, NextProvenance, RecordsComeFrom DEF ProvenanceInv
  <2> QED BY <1>1, <2>1, <2>2, <2>3 DEF BornAt, Updates, Consistent
<1>2. ProvenanceInv /\ [Next]_vars =>
        [\A t \in Tasks :
            store[t] # Nil /\ store'[t] # Nil =>
                /\ store'[t].input = store[t].input
                /\ store'[t].created = store[t].created]_vars
  BY <1>1
<1> QED BY <1>2, ProvenanceInvariant, PTL DEF Spec, InputPreserved

\* A stored task never goes back to PENDING, and never from PENDING straight to
\* SUCCESS, although every writer checks the transition on its own copy.
THEOREM NoStartIsSkipped == Spec => NoSkippedStart
<1>1. ASSUME ProvenanceInv, [Next]_vars, NEW t \in Tasks,
             store[t] # Nil, store'[t] # Nil
      PROVE  /\ store'[t].status = "PENDING" => store[t].status = "PENDING"
             /\ store'[t].status = "SUCCESS" => store[t].status # "PENDING"
  <2>1. \/ store'[t] = store[t]
        \/ \E old, new \in TaskRecords :
              HasCopy(t, old) /\ Updates(t, old, new) /\ store'[t] = new
    BY <1>1, NextProvenance, RecordsComeFrom DEF ProvenanceInv
  <2>2. \A r \in TaskRecords :
           HasCopy(t, r) /\ r.status # "PENDING" => store[t].status # "PENDING"
    BY <1>1 DEF ProvenanceInv, NothingBeforePending
  <2> QED BY <1>1, <2>1, <2>2 DEF Updates
<1>2. ProvenanceInv /\ [Next]_vars =>
        [\A t \in Tasks :
            store[t] # Nil /\ store'[t] # Nil =>
                /\ store'[t].status = "PENDING" => store[t].status = "PENDING"
                /\ store'[t].status = "SUCCESS" => store[t].status # "PENDING"]_vars
  BY <1>1
<1> QED BY <1>2, ProvenanceInvariant, PTL DEF Spec, NoSkippedStart

\* The engine never runs for a task that was too old when its message was
\* handed over (the age test of optimize_routes_task).
THEOREM NoRunIsAbandoned == Spec => []NoAbandonedRun
<1>1. ProvenanceInv => NoAbandonedRun
  <2> SUFFICES ASSUME ProvenanceInv, NEW c \in Children, Running(c, "solve")
               PROVE  child[c].started - child[c].snap.created < MaxAge
    BY DEF NoAbandonedRun
  <2>1. /\ child[c].task \in Tasks
        /\ child[c].snap \in TaskRecords
        /\ child[c].snap # Nil
    BY DEF Running, ProvenanceInv, ConsistencyInv, TypeOK, WorkerTypeOK, ChildRecords,
           Snapshots, CopiesSound, ChildSound, Tidy
  <2>2. PICK n \in Nat : BornAt(child[c].task, n)
    BY <2>1 DEF ProvenanceInv, OneBirth
  <2>3. HasCopy(child[c].task, child[c].snap) /\ Starting(c, child[c].task)
    BY <2>1 DEF HasCopy, Starting, Running
  <2> QED BY <2>1, <2>2, <2>3 DEF BornAt
<1> QED BY <1>1, ProvenanceInvariant, PTL

\* The store, driven by all the threads, children and hooks together, is a
\* register per task that is filled once and then only updated or emptied.
THEOREM ServiceImplementsRegister == Spec => ImplementsRegister
<1>1. Init => Register!RegisterInit
  <2> SUFFICES ASSUME Init PROVE Register!RegisterInit
    OBVIOUS
  <2>1. store = [t \in Tasks |-> Nil] /\ posted = [t \in Tasks |-> "unused"]
    BY DEF Init, StoreInit, WebInit
  <2>2. Spent = {}
    BY <2>1, SpentMembers
  <2> QED BY <2>1, <2>2 DEF Register!RegisterInit
<1>2. ProvenanceInv /\ [Next]_vars => [Register!RegisterNext]_(Register!registerVars)
  <2> SUFFICES ASSUME ProvenanceInv, [Next]_vars, ~UNCHANGED <<store, Spent>>
               PROVE  Register!RegisterNext
    BY DEF Register!registerVars
  <2>0. /\ StoreEffect
        /\ store \in [Tasks -> TaskRecords \cup {Nil}]
        /\ clock \in Nat /\ Nil \notin TaskRecords
    BY NextProvenance, RecordAssumption
       DEF StepEffect, ProvenanceInv, ConsistencyInv, TypeOK, StoreTypeOK
  <2>1. CASE Withdraws
    <3>1. PICK S \in SUBSET Tasks : Register!Withdraw(S)
      <4>1. PICK S : S # {} /\ S \cap Spent = {} /\ Spent' = Spent \cup S
        BY <2>1 DEF Withdraws
      <4>2. S \in SUBSET Tasks
        BY <4>1, SpentMembers
      <4> QED BY <2>1, <4>1, <4>2 DEF Register!Withdraw, Withdraws
    <3> QED BY <3>1 DEF Register!RegisterNext
  <2>2. CASE Spent' = Spent /\ \E t \in Spent : WritesBack(t)
    <3>1. PICK t \in Spent : WritesBack(t)
      BY <2>2
    <3>2. t \in Tasks
      BY <3>1, SpentMembers
    <3>3. PICK old, new \in TaskRecords :
             HasCopy(t, old) /\ Updates(t, old, new) /\ store' = [store EXCEPT ![t] = new]
      BY <3>1 DEF WritesBack
    <3>4. store'[t] = new /\ new # Nil
      BY <2>0, <3>2, <3>3
    <3>5. Register!Replace(t, store'[t]) /\ Register!Consistent(t, store'[t])
      BY <3>3, <3>4 DEF Register!Replace, Register!Consistent, Register!NoError,
                        Register!Solution, Updates, Consistent, NoError, Solution
    <3>6. CASE store[t] = Nil
      BY <2>2, <3>1, <3>2, <3>3, <3>4, <3>5, <3>6
         DEF Register!Refill, Register!RegisterNext, Updates
    <3>7. CASE store[t] # Nil
      <4>1. store[t].created = old.created
        BY <3>2, <3>3, <3>7 DEF ProvenanceInv, OneBirth, BornAt
      <4>2. old.status # "PENDING" => store[t].status # "PENDING"
        BY <3>2, <3>3, <3>7 DEF ProvenanceInv, NothingBeforePending
      <4>3. Register!Advance(t)
        BY <2>2, <3>3, <3>4, <3>5, <3>7, <4>1, <4>2 DEF Register!Advance, Updates
      <4> QED BY <3>2, <4>3 DEF Register!RegisterNext
    <3> QED BY <3>6, <3>7
  <2>3. CASE \E w \in Threads : Creates(w)
    <3>1. PICK w \in Threads : Creates(w)
      BY <2>3
    <3>2. PICK t \in Tasks : web[w].task = t
      BY <3>1 DEF Creates, ProvenanceInv, ConsistencyInv, CopiesSound, ThreadSound
    <3>3. t \notin Spent
      BY <3>1, <3>2, SpentMembers DEF Creates, Early
    <3>4. store'[t] = NewTask(t, clock)
      BY <2>0, <3>1, <3>2 DEF Creates
    <3>5. store'[t].created = clock /\ store'[t] # Nil
      BY <2>0, <3>4, NewIsSound DEF NewTask
    <3>6. Register!NewTask(t, store'[t].created) = store'[t]
      BY <3>4, <3>5 DEF Register!NewTask, NewTask, Register!NoError, NoError
    <3>7. Register!Fill(t)
      BY <3>1, <3>2, <3>3, <3>4, <3>5, <3>6 DEF Register!Fill, Register!Replace, Creates
    <3> QED BY <3>2, <3>7 DEF Register!RegisterNext
  <2>4. CASE Spent' = Spent /\ Expires
    <3>1. PICK S \in SUBSET Tasks :
             store' = [t \in Tasks |-> IF t \in S THEN Nil ELSE store[t]]
      BY <2>4 DEF Expires
    <3>2. Register!Empty(S)
      BY <2>4, <3>1 DEF Register!Empty
    <3> QED BY <3>2 DEF Register!RegisterNext
  <2> QED BY <2>0, <2>1, <2>2, <2>3, <2>4 DEF StoreEffect
<1> QED
  BY <1>1, <1>2, ProvenanceInvariant, PTL
     DEF Spec, ImplementsRegister, Register!RegisterSpec

-----------------------------------------------------------------------------

(***************************************************************************)
(* A single pool process, as the worker is deployed.                       *)
(***************************************************************************)

\* A child about to write PROCESSING does not overwrite a SUCCESS.
NoReopening ==
    \A c \in Children :
        child[c].pc = "procWrite" /\ store[child[c].task] # Nil =>
            store[child[c].task].status # "SUCCESS"

LEMMA StepKeepsClosed ==
    ASSUME NEW only, Children = {only}, ProvenanceInv, NoReopening, [Next]_vars
    PROVE  NoReopening'
<1> SUFFICES ASSUME NEW c \in Children, child'[c].pc = "procWrite",
                    NEW t, t = child'[c].task, store'[t] # Nil, store'[t].status = "SUCCESS"
             PROVE  FALSE
  BY DEF NoReopening
<1>1. StepEffect /\ ConsistencyInv'
  BY NextProvenance DEF ProvenanceInv
<1>2. child'[c] # IdleChild /\ child'[c].pc # "load"
  BY DEF IdleChild
<1>3. /\ child[c].task = t
      /\ child[c].pc \in {"procRead", "procWrite", "solve", "load"}
      /\ child[c].pc = "procWrite" \/ IsOpen(t)
  BY <1>1, <1>2 DEF StepEffect, ChildEffect
<1>4. t \in Tasks
  BY <1>1 DEF ConsistencyInv, CopiesSound, ChildSound
<1>5. ~(store[t] # Nil /\ store[t].status = "SUCCESS")
  BY <1>3 DEF NoReopening, IsOpen, Open
<1>6. /\ store'[t] # store[t]
      /\ store'[t] # NewTask(t, clock)
  BY <1>5 DEF NewTask
<1>7. PICK new : RunsFor(t, new.status) /\ store'[t] = new
  BY <1>1, <1>4, <1>6, RecordsComeFrom DEF ProvenanceInv
<1>8. child[only].pc = "succWrite"
  BY <1>7 DEF RunsFor
<1> QED BY <1>3, <1>8

\* With a single pool process a solved task is never started again, not even
\* when its message is delivered twice.
THEOREM SuccessIsNotReopened ==
    ASSUME NEW only, Children = {only}
    PROVE  Spec => SuccessNotReopened
<1>1. Init => NoReopening
  <2> SUFFICES ASSUME Init PROVE NoReopening
    OBVIOUS
  <2> QED BY DEF Init, WorkerInit, IdleChild, NoReopening
<1>2. ProvenanceInv /\ NoReopening /\ [Next]_vars => NoReopening'
  BY StepKeepsClosed
<1>3. ASSUME ProvenanceInv, NoReopening, [Next]_vars, NEW t \in Tasks,
             store[t] # Nil, store'[t] # Nil, store[t].status = "SUCCESS",
             store'[t].status = "PROCESSING"
      PROVE  FALSE
  <2>1. PICK new : RunsFor(t, new.status) /\ store'[t] = new
    BY <1>3, NextProvenance, RecordsComeFrom DEF ProvenanceInv
  <2> QED BY <1>3, <2>1 DEF RunsFor, NoReopening
<1>4. ProvenanceInv /\ NoReopening /\ [Next]_vars =>
        [\A t \in Tasks :
            store[t] # Nil /\ store'[t] # Nil /\ store[t].status = "SUCCESS" =>
                store'[t].status # "PROCESSING"]_vars
  BY <1>3
<1> QED
  BY <1>1, <1>2, <1>4, ProvenanceInvariant, PTL DEF Spec, SuccessNotReopened

=============================================================================
