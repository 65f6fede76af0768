---------------------------- MODULE ServiceProofs ----------------------------
(***************************************************************************)
(* Proofs about OptimizationService and ForgetfulService, for any number   *)
(* of tasks, threads and children, any limits and any number of mishaps.   *)
(***************************************************************************)
EXTENDS ForgetfulService, FiniteSetTheorems, SequenceTheorems, TLAPS

-----------------------------------------------------------------------------

(***************************************************************************)
(* What each update writes, given a copy that may be moved that way.       *)
(***************************************************************************)

\* A new record is a consistent record (create_task).
LEMMA NewIsSound ==
    ASSUME NEW t \in Tasks, NEW now \in Nat
    PROVE  NewTask(t, now) \in TaskRecords /\ Consistent(t, NewTask(t, now))
BY DEF NewTask, TaskRecords, Consistent, VALID_STATUSES, Open, Terminal, NoError

\* A copy that may be failed has no result yet (the two FAILED updates).
LEMMA FailedIsSound ==
    ASSUME NEW t \in Tasks, NEW rec, Writable(t, rec, "FAILED"), NEW m \in Messages
    PROVE  /\ MarkFailed(rec, m) \in TaskRecords
           /\ Consistent(t, MarkFailed(rec, m))
           /\ MarkFailedWithoutResult(rec, m) \in TaskRecords
           /\ Consistent(t, MarkFailedWithoutResult(rec, m))
<1>1. rec.status # "SUCCESS" /\ rec.status \in VALID_STATUSES
  BY DEF Writable, MayMove, ALLOWED_STATUS_TRANSITIONS, TaskRecords,
         VALID_STATUSES, Open, Terminal
<1>2. rec.result = Nil /\ rec.input = t
  BY <1>1 DEF Writable, Consistent
<1>3. m # NoError
  BY DEF Messages, NoError
<1> QED
  BY <1>1, <1>2, <1>3
     DEF Writable, MarkFailed, MarkFailedWithoutResult, TaskRecords, Consistent,
         VALID_STATUSES, Open, Terminal

\* A copy that may be started has neither result nor error.
LEMMA ProcessingIsSound ==
    ASSUME NEW t \in Tasks, NEW rec, Writable(t, rec, "PROCESSING")
    PROVE  MarkProcessing(rec) \in TaskRecords /\ Consistent(t, MarkProcessing(rec))
<1>1. rec.status \in {"PENDING", "PROCESSING"}
  BY DEF Writable, MayMove, ALLOWED_STATUS_TRANSITIONS, TaskRecords,
         VALID_STATUSES, Open, Terminal
<1> QED
  BY <1>1 DEF Writable, MarkProcessing, TaskRecords, Consistent,
              VALID_STATUSES, Open, Terminal

\* The engine's answer to the task's own body completes it.
LEMMA SuccessIsSound ==
    ASSUME NEW t \in Tasks, NEW rec, Writable(t, rec, "SUCCESS")
    PROVE  /\ MarkSuccess(rec, Solution(t)) \in TaskRecords
           /\ Consistent(t, MarkSuccess(rec, Solution(t)))
BY DEF Writable, MarkSuccess, TaskRecords, Consistent, VALID_STATUSES, Open,
       Terminal, NoError

\* What update_task has just read may be written back with the status it asked for.
LEMMA ReadIsWritable ==
    ASSUME StoreTypeOK, RecordsConsistent, NEW t \in Tasks, NEW s, Accepts(t, s)
    PROVE  Writable(t, store[t], s)
BY DEF StoreTypeOK, RecordsConsistent, Accepts, Writable

-----------------------------------------------------------------------------

(***************************************************************************)
(* The store half of the invariant, by the kind of step                    *)
(***************************************************************************)

StoreSound == StoreTypeOK /\ RecordsConsistent

LEMMA SetKeepsStore ==
    ASSUME StoreSound, NEW t \in Tasks, NEW rec \in TaskRecords, Consistent(t, rec),
           SetTask(t, rec), clock' = clock, faults' \in Nat
    PROVE  StoreSound'
<1>1. \A u \in Tasks : store'[u] = IF u = t THEN rec ELSE store[u]
  BY DEF StoreSound, StoreTypeOK, SetTask
<1>2. RecordsConsistent'
  BY <1>1 DEF StoreSound, RecordsConsistent, Consistent
<1>3. StoreTypeOK'
  <2>1. clock + Retention \in Nat
    BY StoreAssumption DEF StoreSound, StoreTypeOK
  <2> QED BY <2>1 DEF StoreSound, StoreTypeOK, SetTask
<1> QED BY <1>2, <1>3 DEF StoreSound

LEMMA FaultKeepsStore ==
    ASSUME StoreSound, UNCHANGED <<clock, store, expires>>, faults' \in Nat
    PROVE  StoreSound'
BY DEF StoreSound, StoreTypeOK, RecordsConsistent, Consistent

-----------------------------------------------------------------------------

(***************************************************************************)
(* The other halves                                                        *)
(***************************************************************************)

WebSound    == WebTypeOK /\ \A w \in Threads : ThreadSound(w)
WorkerSound == WorkerTypeOK /\ (\A c \in Children : ChildSound(c)) /\ ParentSound

LEMMA InvParts ==
    /\ ConsistencyInv <=> StoreSound /\ BrokerTypeOK /\ WebSound /\ WorkerSound
    /\ ConsistencyInv' <=> StoreSound' /\ BrokerTypeOK' /\ WebSound' /\ WorkerSound'
BY DEF ConsistencyInv, TypeOK, CopiesSound, StoreSound, WebSound, WorkerSound

LEMMA WebUntouched ==
    ASSUME WebSound, UNCHANGED webVars
    PROVE  WebSound'
BY DEF WebSound, WebTypeOK, ThreadSound, webVars, Writable, Consistent, MayMove

LEMMA WorkerUntouched ==
    ASSUME WorkerSound, UNCHANGED workerVars
    PROVE  WorkerSound'
BY DEF WorkerSound, WorkerTypeOK, ChildSound, ParentSound, workerVars,
       Writable, Consistent, MayMove

LEMMA BrokerUntouched ==
    ASSUME BrokerTypeOK, UNCHANGED brokerVars
    PROVE  BrokerTypeOK'
BY DEF BrokerTypeOK, brokerVars

LEMMA StoreUntouched ==
    ASSUME StoreSound, UNCHANGED storeVars
    PROVE  StoreSound'
BY DEF StoreSound, StoreTypeOK, RecordsConsistent, Consistent, storeVars

\* Putting a task's message at either end leaves a queue of tasks.
LEMMA QueueGrows ==
    ASSUME BrokerTypeOK, NEW t \in Tasks, UNCHANGED orphans,
           \/ Enqueue(t) \/ PutBack(t) \/ queue' = queue \o <<t, t>>
    PROVE  BrokerTypeOK'
<1>1. queue \in Seq(Tasks) /\ <<t>> \in Seq(Tasks) /\ <<t, t>> \in Seq(Tasks)
  BY DEF BrokerTypeOK
<1>2. /\ Append(queue, t) \in Seq(Tasks)
      /\ <<t>> \o queue \in Seq(Tasks)
      /\ queue \o <<t, t>> \in Seq(Tasks)
  BY <1>1, AppendProperties, ConcatProperties
<1> QED BY <1>2 DEF BrokerTypeOK, Enqueue, PutBack

\* A fault is counted.
LEMMA FaultCounts ==
    ASSUME StoreSound, Fault
    PROVE  faults' \in Nat
BY DEF StoreSound, StoreTypeOK, Fault

-----------------------------------------------------------------------------

(***************************************************************************)
(* The web threads                                                         *)
(***************************************************************************)

\* A thread that answers, moves on without a copy, or goes idle stays sound.
LEMMA RespondSound ==
    ASSUME WebSound, NEW w \in Threads, web[w].pc # "idle",
           NEW answer \in Answers, Respond(w, answer), cooldown' \in BOOLEAN
    PROVE  WebSound'
BY RecordAssumption
   DEF WebSound, WebTypeOK, ThreadSound, Respond, WebFree, IdleThread, WebPC,
       Writable, Consistent, MayMove, Answers

LEMMA FreeSound ==
    ASSUME WebSound, NEW w \in Threads, WebFree(w), UNCHANGED posted,
           cooldown' \in BOOLEAN
    PROVE  WebSound'
BY DEF WebSound, WebTypeOK, ThreadSound, WebFree, IdleThread, WebPC,
       Writable, Consistent, MayMove

LEMMA GotoSound ==
    ASSUME WebSound, NEW w \in Threads, web[w].pc # "idle",
           NEW pc \in WebPC \ {"markWrite", "staleWrite"}, WebGoto(w, pc),
           UNCHANGED posted, cooldown' \in BOOLEAN
    PROVE  WebSound'
BY DEF WebSound, WebTypeOK, ThreadSound, WebGoto, WebPC,
       Writable, Consistent, MayMove

\* Starting a request: the thread holds a task and no copy.
LEMMA StartSound ==
    ASSUME WebSound, NEW w \in Threads, NEW t \in Tasks, web[w].pc = "idle",
           NEW pc \in WebPC \ {"markWrite", "staleWrite"},
           web' = [web EXCEPT ![w].pc = pc, ![w].task = t],
           posted' \in [Tasks -> Answers], UNCHANGED cooldown
    PROVE  WebSound'
BY ZenonT(30) DEF WebSound, WebTypeOK, ThreadSound, WebPC, Writable, Consistent, MayMove

\* The read of an update_task(FAILED) leaves a copy that may be written.
LEMMA ReadSound ==
    ASSUME WebSound, StoreSound, NEW w \in Threads, web[w].pc # "idle",
           Accepts(web[w].task, "FAILED"),
           NEW pc \in {"markWrite", "staleWrite"},
           web' = [web EXCEPT ![w].pc = pc, ![w].snap = store[web[w].task]],
           UNCHANGED <<posted, cooldown>>
    PROVE  WebSound'
<1>1. web[w].task \in Tasks
  BY DEF WebSound, ThreadSound
<1>2. Writable(web[w].task, store[web[w].task], "FAILED")
  BY <1>1, ReadIsWritable DEF StoreSound
<1>3. store[web[w].task] \in TaskRecords
  BY <1>2 DEF Writable
<1>4. WebTypeOK'
  BY <1>3 DEF WebSound, WebTypeOK, WebPC
<1>5. \A x \in Threads : ThreadSound(x)'
  BY <1>1, <1>2 DEF WebSound, WebTypeOK, ThreadSound, Writable, Consistent, MayMove
<1> QED
  BY <1>4, <1>5 DEF WebSound

LEMMA WebStepSound ==
    ASSUME ConsistencyInv, WebNext, UNCHANGED workerVars
    PROVE  ConsistencyInv'
<1> USE InvParts
<1>0. WorkerSound'
  BY WorkerUntouched
<1>1. ASSUME NEW w \in Threads, NEW t \in Tasks, CheckQueue(w, t)
      PROVE  ConsistencyInv'
  <2>1. WebSound'
    <3>1. posted' \in [Tasks -> Answers]
      BY <1>1 DEF CheckQueue, WebSound, WebTypeOK, Answers
    <3> QED BY <1>1, <3>1, StartSound DEF CheckQueue, At, WebPC
  <2> QED BY <1>0, <1>1, <2>1, StoreUntouched, BrokerUntouched DEF CheckQueue
<1>2. ASSUME NEW w \in Threads, NEW t \in Tasks, Poll(w, t)
      PROVE  ConsistencyInv'
  <2>1. WebSound'
    <3>1. posted' \in [Tasks -> Answers]
      BY <1>2 DEF Poll, WebSound, WebTypeOK
    <3> QED BY <1>2, <3>1, StartSound DEF Poll, At, WebPC
  <2> QED BY <1>0, <1>2, <2>1, StoreUntouched, BrokerUntouched DEF Poll
<1>3. ASSUME NEW w \in Threads, TakeCooldown(w)
      PROVE  ConsistencyInv'
  <2>1. WebSound'
    BY <1>3, GotoSound, RespondSound DEF TakeCooldown, At, WebPC, Answers
  <2> QED BY <1>0, <1>3, <2>1, StoreUntouched, BrokerUntouched DEF TakeCooldown
<1>4. ASSUME NEW w \in Threads, Create(w)
      PROVE  ConsistencyInv'
  <2>1. web[w].task \in Tasks
    BY <1>4 DEF Create, At, WebSound, ThreadSound
  <2>2. StoreSound'
    <3>1. clock \in Nat /\ faults \in Nat
      BY DEF StoreSound, StoreTypeOK
    <3> QED BY <1>4, <2>1, <3>1, NewIsSound, SetKeepsStore DEF Create
  <2>3. WebSound'
    BY <1>4, GotoSound DEF Create, At, WebPC, WebSound, WebTypeOK
  <2> QED BY <1>0, <1>4, <2>2, <2>3, BrokerUntouched DEF Create
<1>5. ASSUME NEW w \in Threads, Publish(w)
      PROVE  ConsistencyInv'
  <2>1. web[w].task \in Tasks
    BY <1>5 DEF Publish, At, WebSound, ThreadSound
  <2>2. WebSound'
    BY <1>5, RespondSound DEF Publish, At, Answers, WebSound, WebTypeOK
  <2>3. BrokerTypeOK'
    BY <1>5, <2>1, QueueGrows DEF Publish
  <2> QED BY <1>0, <1>5, <2>2, <2>3, StoreUntouched DEF Publish
<1>6. ASSUME NEW w \in Threads, MarkRead(w)
      PROVE  ConsistencyInv'
  <2>1. CASE Accepts(web[w].task, "FAILED")
    <3>1. WebSound'
      BY <1>6, <2>1, ReadSound DEF MarkRead, At, WebUpdateRead
    <3> QED BY <1>0, <1>6, <3>1, StoreUntouched, BrokerUntouched DEF MarkRead
  <2>2. CASE ~Accepts(web[w].task, "FAILED")
    <3>1. WebSound'
      BY <1>6, <2>2, RespondSound
         DEF MarkRead, At, WebUpdateRead, Answers, WebSound, WebTypeOK
    <3> QED BY <1>0, <1>6, <3>1, StoreUntouched, BrokerUntouched DEF MarkRead
  <2> QED BY <2>1, <2>2
<1>7. ASSUME NEW w \in Threads, MarkWrite(w)
      PROVE  ConsistencyInv'
  <2>1. /\ web[w].task \in Tasks
        /\ Writable(web[w].task, web[w].snap, "FAILED")
    BY <1>7 DEF MarkWrite, At, WebSound, ThreadSound
  <2>2. StoreSound'
    <3>1. faults \in Nat
      BY DEF StoreSound, StoreTypeOK
    <3> QED BY <1>7, <2>1, <3>1, FailedIsSound, SetKeepsStore DEF MarkWrite, Messages
  <2>3. WebSound'
    BY <1>7, RespondSound DEF MarkWrite, At, Answers, WebSound, WebTypeOK
  <2> QED BY <1>0, <1>7, <2>2, <2>3, BrokerUntouched DEF MarkWrite
<1>8. ASSUME NEW w \in Threads, StaleRead(w)
      PROVE  ConsistencyInv'
  <2>1. CASE Accepts(web[w].task, "FAILED")
    <3>1. WebSound'
      BY <1>8, <2>1, ReadSound DEF StaleRead, At, WebUpdateRead
    <3> QED BY <1>0, <1>8, <3>1, StoreUntouched, BrokerUntouched DEF StaleRead
  <2>2. CASE ~Accepts(web[w].task, "FAILED")
    <3>1. WebSound'
      BY <1>8, <2>2, FreeSound DEF StaleRead, At, WebUpdateRead, WebSound, WebTypeOK
    <3> QED BY <1>0, <1>8, <3>1, StoreUntouched, BrokerUntouched DEF StaleRead
  <2> QED BY <2>1, <2>2
<1>9. ASSUME NEW w \in Threads, StaleWrite(w)
      PROVE  ConsistencyInv'
  <2>1. /\ web[w].task \in Tasks
        /\ Writable(web[w].task, web[w].snap, "FAILED")
    BY <1>9 DEF StaleWrite, At, WebSound, ThreadSound
  <2>2. StoreSound'
    <3>1. faults \in Nat
      BY DEF StoreSound, StoreTypeOK
    <3> QED BY <1>9, <2>1, <3>1, FailedIsSound, SetKeepsStore DEF StaleWrite, Messages
  <2>3. WebSound'
    BY <1>9, FreeSound DEF StaleWrite, WebSound, WebTypeOK
  <2> QED BY <1>0, <1>9, <2>2, <2>3, BrokerUntouched DEF StaleWrite
<1>10. ASSUME NEW w \in Threads, CooldownFails(w)
       PROVE  ConsistencyInv'
  <2>1. StoreSound'
    BY <1>10, FaultCounts, FaultKeepsStore DEF CooldownFails
  <2>2. WebSound'
    BY <1>10, RespondSound DEF CooldownFails, At, Answers, WebSound, WebTypeOK
  <2> QED BY <1>0, <1>10, <2>1, <2>2, BrokerUntouched DEF CooldownFails
<1>11. ASSUME NEW w \in Threads, CreateFails(w)
       PROVE  ConsistencyInv'
  <2>1. web[w].task \in Tasks /\ faults' \in Nat /\ clock \in Nat
    BY <1>11, FaultCounts DEF CreateFails, At, WebSound, ThreadSound, StoreSound, StoreTypeOK
  <2>2. StoreSound'
    BY <1>11, <2>1, NewIsSound, SetKeepsStore, FaultKeepsStore DEF CreateFails
  <2>3. WebSound'
    BY <1>11, RespondSound DEF CreateFails, At, Answers, WebSound, WebTypeOK
  <2> QED BY <1>0, <1>11, <2>2, <2>3, BrokerUntouched DEF CreateFails
<1>12. ASSUME NEW w \in Threads, PublishTwice(w)
       PROVE  ConsistencyInv'
  <2>1. web[w].task \in Tasks
    BY <1>12 DEF PublishTwice, At, WebSound, ThreadSound
  <2>2. StoreSound'
    BY <1>12, FaultCounts, FaultKeepsStore DEF PublishTwice
  <2>3. WebSound'
    BY <1>12, RespondSound DEF PublishTwice, At, Answers, WebSound, WebTypeOK
  <2>4. BrokerTypeOK'
    BY <1>12, <2>1, QueueGrows DEF PublishTwice
  <2> QED BY <1>0, <2>2, <2>3, <2>4
<1>13. ASSUME NEW w \in Threads, PublishFails(w)
       PROVE  ConsistencyInv'
  <2>1. web[w].task \in Tasks
    BY <1>13 DEF PublishFails, At, WebSound, ThreadSound
  <2>2. StoreSound'
    BY <1>13, FaultCounts, FaultKeepsStore DEF PublishFails
  <2>3. WebSound'
    BY <1>13, GotoSound DEF PublishFails, At, WebPC, WebSound, WebTypeOK
  <2>4. BrokerTypeOK'
    BY <1>13, <2>1, QueueGrows, BrokerUntouched DEF PublishFails, brokerVars
  <2> QED BY <1>0, <2>2, <2>3, <2>4
<1>14. ASSUME NEW w \in Threads, WebUpdateFails(w)
       PROVE  ConsistencyInv'
  <2>1. web[w].task \in Tasks /\ web[w].pc # "idle" /\ faults' \in Nat
    BY <1>14, FaultCounts DEF WebUpdateFails, At, WebSound, ThreadSound
  <2>2. CASE UNCHANGED <<store, expires>>
    <3>1. StoreSound'
      BY <1>14, <2>1, <2>2, FaultKeepsStore DEF WebUpdateFails
    <3>2. WebSound'
      BY <1>14, <2>1, RespondSound, FreeSound
         DEF WebUpdateFails, Answers, WebSound, WebTypeOK
    <3> QED BY <1>0, <1>14, <3>1, <3>2, BrokerUntouched DEF WebUpdateFails
  <2>3. CASE /\ web[w].pc \in {"markWrite", "staleWrite"}
             /\ \E m \in Messages : SetTask(web[w].task, MarkFailed(web[w].snap, m))
    <3>1. Writable(web[w].task, web[w].snap, "FAILED")
      BY <2>3 DEF WebSound, ThreadSound
    <3>2. StoreSound'
      BY <1>14, <2>1, <2>3, <3>1, FailedIsSound, SetKeepsStore DEF WebUpdateFails
    <3>3. WebSound'
      BY <1>14, <2>1, RespondSound, FreeSound
         DEF WebUpdateFails, Answers, WebSound, WebTypeOK
    <3> QED BY <1>0, <1>14, <3>2, <3>3, BrokerUntouched DEF WebUpdateFails
  <2> QED BY <1>14, <2>2, <2>3 DEF WebUpdateFails, At, Messages
<1>15. ASSUME WebCrash
       PROVE  ConsistencyInv'
  <2>1. StoreSound'
    BY <1>15, FaultCounts, FaultKeepsStore DEF WebCrash
  <2>2. WebSound'
    BY <1>15 DEF WebCrash, WebSound, WebTypeOK, ThreadSound, IdleThread, WebPC, Answers
  <2> QED BY <1>0, <1>15, <2>1, <2>2, BrokerUntouched DEF WebCrash
<1>16. ASSUME ExpireCooldown
       PROVE  ConsistencyInv'
  <2>1. WebSound'
    BY <1>16 DEF ExpireCooldown, WebSound, WebTypeOK, ThreadSound, Writable, Consistent, MayMove
  <2> QED BY <1>0, <1>16, <2>1, StoreUntouched, BrokerUntouched DEF ExpireCooldown
<1> QED
  BY <1>1, <1>2, <1>3, <1>4, <1>5, <1>6, <1>7, <1>8, <1>9, <1>10, <1>11,
     <1>12, <1>13, <1>14, <1>15, <1>16
     DEF WebNext, ThreadStep, ThreadFault

-----------------------------------------------------------------------------

(***************************************************************************)
(* The worker                                                              *)
(***************************************************************************)

\* One child moves; the others and their copies are left alone.
LEMMA OneChildMoves ==
    ASSUME WorkerSound, NEW c \in Children,
           child' \in [Children -> ChildRecords],
           \A d \in Children \ {c} : child'[d] = child[d],
           ChildSound(c)', parent' \in ParentRecords, ParentSound'
    PROVE  WorkerSound'
<1>1. ASSUME NEW d \in Children
      PROVE  ChildSound(d)'
  <2>1. CASE d = c
    BY <2>1
  <2>2. CASE d # c
    BY <2>2 DEF WorkerSound, ChildSound, Writable, Consistent, MayMove
  <2> QED BY <2>1, <2>2
<1> QED BY <1>1 DEF WorkerSound, WorkerTypeOK

LEMMA ParentUntouched ==
    ASSUME WorkerSound, UNCHANGED parent
    PROVE  parent' \in ParentRecords /\ ParentSound'
BY DEF WorkerSound, WorkerTypeOK, ParentSound, Writable, Consistent, MayMove

\* A child that moves to a place where it needs no copy.
LEMMA ChildGoesOn ==
    ASSUME WorkerSound, NEW c \in Children, child[c].pc # "idle", UNCHANGED parent,
           NEW pc \in {"done", "raised", "staleRead", "procRead", "recLoad", "recRead"},
           Goto(c, pc)
    PROVE  WorkerSound'
<1>1. /\ child' \in [Children -> ChildRecords]
      /\ \A d \in Children \ {c} : child'[d] = child[d]
  BY DEF WorkerSound, WorkerTypeOK, Goto, ChildRecords, ChildPC, ReadPC, RecordPC
<1>2. ChildSound(c)'
  BY DEF WorkerSound, WorkerTypeOK, Goto, ChildSound, ChildRecords
<1> QED BY <1>1, <1>2, ParentUntouched, OneChildMoves

\* The read of an update_task leaves a copy that allows the write.
LEMMA ChildReads ==
    ASSUME WorkerSound, StoreSound, NEW c \in Children, UNCHANGED parent,
           NEW status, NEW next, NEW onRaise \in {"recLoad", "raised"},
           UpdateRead(c, status, next, onRaise),
           \/ child[c].pc \in {"staleRead", "recRead"}
                 /\ status = "FAILED" /\ next \in {"staleWrite", "recWrite"}
           \/ child[c].pc = "procRead" /\ status = "PROCESSING" /\ next = "procWrite"
           \/ child[c].pc = "succRead" /\ status = "SUCCESS" /\ next = "succWrite"
    PROVE  WorkerSound'
<1>1. child[c].task \in Tasks /\ child[c].pc # "idle"
  BY DEF WorkerSound, ChildSound
<1>2. CASE Accepts(child[c].task, status)
  <2>1. Writable(child[c].task, store[child[c].task], status)
    BY <1>1, <1>2, ReadIsWritable DEF StoreSound
  <2>2. store[child[c].task] \in TaskRecords
    BY <2>1 DEF Writable
  <2>3. /\ child' \in [Children -> ChildRecords]
        /\ \A d \in Children \ {c} : child'[d] = child[d]
    BY ZenonT(30), <1>2, <2>2 DEF UpdateRead, WorkerSound, WorkerTypeOK, ChildRecords, ChildPC,
                                WritePC, RecordPC, Snapshots
  <2>4. /\ child'[c].pc = next
        /\ child'[c].snap = store[child[c].task]
        /\ child'[c].task = child[c].task
        /\ child'[c].result = child[c].result
        /\ child'[c].held = child[c].held
    BY <1>2 DEF UpdateRead, WorkerSound, WorkerTypeOK, ChildRecords
  <2>5. ChildSound(c)'
    BY <1>1, <2>1, <2>4 DEF WorkerSound, ChildSound, Writable, Consistent, MayMove
  <2> QED BY <2>3, <2>5, ParentUntouched, OneChildMoves
<1>3. CASE ~Accepts(child[c].task, status)
  BY <1>1, <1>3, ChildGoesOn DEF UpdateRead, Goto
<1> QED BY <1>2, <1>3

\* What a child is about to write is a consistent record of its task.
LEMMA ChildWritesSound ==
    ASSUME WorkerSound, NEW c \in Children, child[c].pc \in WritePC \cup {"recWrite"}
    PROVE  /\ child[c].task \in Tasks
           /\ ChildWrites(c) \in TaskRecords
           /\ Consistent(child[c].task, ChildWrites(c))
<1>1. child[c].task \in Tasks
  BY DEF WorkerSound, ChildSound, WritePC
<1>2. CASE child[c].pc = "staleWrite"
  BY <1>1, <1>2, FailedIsSound DEF WorkerSound, ChildSound, ChildWrites, Messages
<1>3. CASE child[c].pc = "procWrite"
  BY <1>1, <1>3, ProcessingIsSound DEF WorkerSound, ChildSound, ChildWrites
<1>4. CASE child[c].pc = "succWrite"
  BY <1>1, <1>4, SuccessIsSound DEF WorkerSound, ChildSound, ChildWrites
<1>5. CASE child[c].pc = "recWrite"
  BY <1>1, <1>5, FailedIsSound DEF WorkerSound, ChildSound, ChildWrites, Messages
<1> QED BY <1>1, <1>2, <1>3, <1>4, <1>5 DEF WritePC

\* A child that has nothing to do is sound, and so is the hook that starts.
LEMMA ChildFreed ==
    ASSUME WorkerSound, NEW c \in Children, child' = [child EXCEPT ![c] = IdleChild]
    PROVE  /\ child' \in [Children -> ChildRecords]
           /\ \A d \in Children \ {c} : child'[d] = child[d]
           /\ ChildSound(c)'
BY DEF WorkerSound, WorkerTypeOK, ChildRecords, IdleChild, ChildSound, ChildPC, Snapshots

LEMMA HooksStart ==
    ASSUME NEW t \in Tasks, NEW hooks \in 1..2, NEW kill \in Children \cup {Nil},
           StartHooks(t, hooks, kill)
    PROVE  parent' \in ParentRecords /\ ParentSound'
BY DEF StartHooks, ParentRecords, ParentSound, RecordPC, Snapshots

LEMMA HookEnds ==
    ASSUME WorkerSound, parent.pc \in RecordPC, EndHook
    PROVE  parent' \in ParentRecords /\ ParentSound'
<1>1. parent \in ParentRecords /\ parent.task \in Tasks
  BY DEF WorkerSound, WorkerTypeOK, ParentSound
<1>2. CASE parent.hooks > 1
  <2>1. parent.hooks - 1 \in 0..2
    BY <1>1, <1>2 DEF ParentRecords
  <2>2. parent' = [parent EXCEPT !.pc = "recLoad", !.hooks = parent.hooks - 1]
    BY <1>2 DEF EndHook
  <2>3. parent' \in ParentRecords
    BY <1>1, <2>1, <2>2 DEF ParentRecords, RecordPC
  <2>4. parent'.pc = "recLoad" /\ parent'.task = parent.task
    BY <1>1, <2>2 DEF ParentRecords
  <2> QED BY <1>1, <2>3, <2>4 DEF ParentSound
<1>3. CASE ~(parent.hooks > 1)
  <2>1. parent' = [parent EXCEPT !.pc = "kill", !.hooks = 0]
    BY <1>3 DEF EndHook
  <2>2. 0 \in 0..2
    OBVIOUS
  <2>3. parent' \in ParentRecords
    BY <1>1, <2>1, <2>2 DEF ParentRecords
  <2>4. parent'.pc = "kill"
    BY <1>1, <2>1 DEF ParentRecords
  <2> QED BY <2>3, <2>4 DEF ParentSound, RecordPC
<1> QED BY <1>2, <1>3

\* Only the parent moves.
LEMMA ParentMoves ==
    ASSUME WorkerSound, UNCHANGED child, parent' \in ParentRecords, ParentSound'
    PROVE  WorkerSound'
BY DEF WorkerSound, WorkerTypeOK, ChildSound, Writable, Consistent, MayMove

LEMMA ParentWritesSound ==
    ASSUME WorkerSound, parent.pc = "recWrite"
    PROVE  /\ parent.task \in Tasks
           /\ ParentWrites \in TaskRecords
           /\ Consistent(parent.task, ParentWrites)
BY FailedIsSound DEF WorkerSound, ParentSound, RecordPC, ParentWrites, Messages

LEMMA WorkerStepSound ==
    ASSUME ConsistencyInv, WorkerNext, UNCHANGED webVars
    PROVE  ConsistencyInv'
<1> USE InvParts
<1>0. WebSound' /\ faults \in Nat
  BY WebUntouched DEF StoreSound, StoreTypeOK
<1>1. ASSUME NEW c \in Children, LoadTask(c)
      PROVE  ConsistencyInv'
  <2>1. WorkerSound'
    BY <1>1, ChildGoesOn DEF LoadTask, Running
  <2> QED BY <1>0, <1>1, <2>1, StoreUntouched, BrokerUntouched DEF LoadTask
<1>2. ASSUME NEW c \in Children, ReadForUpdate(c)
      PROVE  ConsistencyInv'
  <2>1. WorkerSound'
    BY <1>2, ChildReads DEF ReadForUpdate, Running
  <2> QED BY <1>0, <1>2, <2>1, StoreUntouched, BrokerUntouched DEF ReadForUpdate
<1>3. ASSUME NEW c \in Children, WriteUpdate(c)
      PROVE  ConsistencyInv'
  <2>1. StoreSound'
    BY <1>0, <1>3, ChildWritesSound, SetKeepsStore DEF WriteUpdate
  <2>2. CASE child[c].pc = "procWrite"
    <3>1. /\ child' \in [Children -> ChildRecords]
          /\ \A d \in Children \ {c} : child'[d] = child[d]
      BY <1>3, <2>2 DEF WriteUpdate, Goto, After, WorkerSound, WorkerTypeOK,
                        ChildRecords, ChildPC
    <3>2. child[c].snap.input = child[c].task
      BY <2>2 DEF WorkerSound, ChildSound, Writable, Consistent
    <3>3. ChildSound(c)'
      BY <1>3, <2>2, <3>2 DEF WriteUpdate, Goto, After, WorkerSound, WorkerTypeOK,
                              ChildRecords, ChildSound
    <3>4. WorkerSound'
      BY <1>3, <3>1, <3>3, ParentUntouched, OneChildMoves DEF WriteUpdate
    <3> QED BY <1>0, <1>3, <2>1, <3>4, BrokerUntouched DEF WriteUpdate
  <2>3. CASE child[c].pc # "procWrite"
    <3>1. WorkerSound'
      BY <1>3, <2>3, ChildGoesOn DEF WriteUpdate, After, WritePC
    <3> QED BY <1>0, <1>3, <2>1, <3>1, BrokerUntouched DEF WriteUpdate
  <2> QED BY <2>2, <2>3
<1>4. ASSUME NEW c \in Children, Solve(c)
      PROVE  ConsistencyInv'
  <2>1. child[c].task \in Tasks /\ child[c].snap.input = child[c].task
    BY <1>4 DEF Solve, Running, WorkerSound, ChildSound
  <2>2. /\ child' \in [Children -> ChildRecords]
        /\ \A d \in Children \ {c} : child'[d] = child[d]
    BY <1>4, <2>1 DEF Solve, WorkerSound, WorkerTypeOK, ChildRecords, ChildPC, ReadPC
  <2>3. ChildSound(c)'
    BY <1>4, <2>1 DEF Solve, WorkerSound, WorkerTypeOK, ChildRecords, ChildSound
  <2>4. WorkerSound'
    BY <1>4, <2>2, <2>3, ParentUntouched, OneChildMoves DEF Solve
  <2> QED BY <1>0, <1>4, <2>4, StoreUntouched, BrokerUntouched DEF Solve
<1>5. ASSUME NEW c \in Children, SolveFails(c)
      PROVE  ConsistencyInv'
  <2>1. WorkerSound'
    BY <1>5, ChildGoesOn DEF SolveFails, Running
  <2> QED BY <1>0, <1>5, <2>1, StoreUntouched, BrokerUntouched DEF SolveFails
<1>6. ASSUME NEW c \in Children, RecordFailure(c)
      PROVE  ConsistencyInv'
  <2>1. CASE Running(c, "recLoad")
    <3>1. WorkerSound'
      BY <1>6, <2>1, ChildGoesOn DEF RecordFailure, Running
    <3>2. StoreSound'
      BY <1>0, <1>6, <2>1, FaultKeepsStore DEF RecordFailure, Running
    <3> QED BY <1>0, <1>6, <3>1, <3>2, BrokerUntouched DEF RecordFailure
  <2>2. CASE Running(c, "recRead")
    <3>1. WorkerSound'
      BY <1>6, <2>2, ChildReads DEF RecordFailure, Running
    <3>2. StoreSound'
      BY <1>0, <1>6, <2>2, FaultKeepsStore DEF RecordFailure, Running
    <3> QED BY <1>0, <1>6, <3>1, <3>2, BrokerUntouched DEF RecordFailure
  <2>3. CASE Running(c, "recWrite")
    <3>1. WorkerSound'
      BY <1>6, <2>3, ChildGoesOn DEF RecordFailure, Running
    <3>2. StoreSound'
      BY <1>0, <1>6, <2>3, ChildWritesSound, SetKeepsStore DEF RecordFailure, Running
    <3> QED BY <1>0, <1>6, <3>1, <3>2, BrokerUntouched DEF RecordFailure
  <2> QED BY <1>6, <2>1, <2>2, <2>3 DEF RecordFailure
<1>7. ASSUME NEW c \in Children, ChildFault(c)
      PROVE  ConsistencyInv'
  <2>1. child[c].pc # "idle" /\ faults' \in Nat
    BY <1>7, FaultCounts DEF ChildFault, ReadPC, WritePC
  <2>2. WorkerSound'
    BY <1>7, <2>1, ChildGoesOn DEF ChildFault
  <2>3. CASE UNCHANGED <<store, expires>>
    <3>1. StoreSound'
      BY <1>7, <2>1, <2>3, FaultKeepsStore DEF ChildFault
    <3> QED BY <1>0, <1>7, <2>2, <3>1, BrokerUntouched DEF ChildFault
  <2>4. CASE /\ child[c].pc \in WritePC \cup {"recWrite"}
             /\ SetTask(child[c].task, ChildWrites(c))
    <3>1. StoreSound'
      BY <1>7, <2>1, <2>4, ChildWritesSound, SetKeepsStore DEF ChildFault
    <3> QED BY <1>0, <1>7, <2>2, <3>1, BrokerUntouched DEF ChildFault
  <2> QED BY <1>7, <2>3, <2>4 DEF ChildFault
<1>8. ASSUME NEW c \in Children, Deliver(c)
      PROVE  ConsistencyInv'
  <2>1. /\ Head(queue) \in Tasks
        /\ Tail(queue) \in Seq(Tasks)
    BY <1>8, HeadTailProperties DEF Deliver, BrokerTypeOK
  <2>2. BrokerTypeOK'
    BY <1>8, <2>1 DEF Deliver, BrokerTypeOK
  <2>3. clock \in Nat
    BY DEF StoreSound, StoreTypeOK
  <2>4. /\ child' \in [Children -> ChildRecords]
        /\ \A d \in Children \ {c} : child'[d] = child[d]
    BY <1>8, <2>1, <2>3 DEF Deliver, WorkerSound, WorkerTypeOK, ChildRecords,
                            IdleChild, ChildPC, ReadPC, Snapshots
  <2>5. ChildSound(c)'
    BY <1>8, <2>1 DEF Deliver, WorkerSound, WorkerTypeOK, ChildSound, IdleChild
  <2>6. WorkerSound'
    BY <1>8, <2>4, <2>5, ParentUntouched, OneChildMoves DEF Deliver
  <2> QED BY <1>0, <1>8, <2>2, <2>6, StoreUntouched DEF Deliver
<1>9. ASSUME NEW c \in Children, ReportSuccess(c)
      PROVE  ConsistencyInv'
  <2>1. WorkerSound'
    BY <1>9, ChildFreed, ParentUntouched, OneChildMoves DEF ReportSuccess
  <2> QED BY <1>0, <1>9, <2>1, StoreUntouched, BrokerUntouched DEF ReportSuccess
<1>10. ASSUME NEW c \in Children, ReportFailure(c) \/ ChildLost(c)
       PROVE  ConsistencyInv'
  <2>1. child[c].task \in Tasks
    BY <1>10 DEF ReportFailure, ChildLost, Running, WorkerSound, ChildSound
  <2>2. parent' \in ParentRecords /\ ParentSound'
    BY <1>10, <2>1, HooksStart DEF ReportFailure, ChildLost
  <2>3. WorkerSound'
    BY <1>10, <2>2, ChildFreed, OneChildMoves DEF ReportFailure, ChildLost
  <2> QED BY <1>0, <1>10, <2>3, StoreUntouched, BrokerUntouched DEF ReportFailure, ChildLost
<1>11. ASSUME NEW c \in Children, HardTimeout(c)
       PROVE  ConsistencyInv'
  <2>1. child[c].task \in Tasks /\ faults' \in Nat
    BY <1>0, <1>11, FaultCounts DEF HardTimeout, Running, WorkerSound, ChildSound
  <2>2. parent' \in ParentRecords /\ ParentSound'
    BY <1>11, <2>1, HooksStart DEF HardTimeout
  <2>3. /\ child' \in [Children -> ChildRecords]
        /\ \A d \in Children \ {c} : child'[d] = child[d]
    BY <1>11 DEF HardTimeout, WorkerSound, WorkerTypeOK, ChildRecords
  <2>4. ChildSound(c)'
    BY <1>11 DEF HardTimeout, WorkerSound, WorkerTypeOK, ChildRecords, ChildSound,
                 Writable, Consistent, MayMove
  <2>5. WorkerSound'
    BY <2>2, <2>3, <2>4, OneChildMoves
  <2>6. StoreSound'
    BY <1>11, <2>1, FaultKeepsStore DEF HardTimeout
  <2> QED BY <1>0, <1>11, <2>5, <2>6, BrokerUntouched DEF HardTimeout
<1>12. ASSUME ParentRecord
       PROVE  ConsistencyInv'
  <2>1. parent \in ParentRecords
    BY DEF WorkerSound, WorkerTypeOK
  <2>2. CASE parent.pc = "recLoad"
    <3>1. parent' \in ParentRecords /\ ParentSound'
      <4>1. CASE IsOpen(parent.task)
        BY <1>12, <2>1, <2>2, <4>1
           DEF ParentRecord, ParentRecords, ParentSound, RecordPC, WorkerSound
      <4>2. CASE ~IsOpen(parent.task)
        BY <1>12, <2>2, <4>2, HookEnds DEF ParentRecord, RecordPC
      <4> QED BY <4>1, <4>2
    <3>2. StoreSound'
      BY <1>0, <1>12, <2>2, FaultKeepsStore DEF ParentRecord
    <3> QED BY <1>0, <1>12, <3>1, <3>2, ParentMoves, BrokerUntouched DEF ParentRecord
  <2>3. CASE parent.pc = "recRead"
    <3>1. parent' \in ParentRecords /\ ParentSound'
      <4>1. CASE Accepts(parent.task, "FAILED")
        <5>1. parent.task \in Tasks
          BY <2>3 DEF WorkerSound, ParentSound, RecordPC
        <5>2. Writable(parent.task, store[parent.task], "FAILED")
          BY <4>1, <5>1, ReadIsWritable DEF StoreSound
        <5>3. store[parent.task] \in TaskRecords
          BY <5>2 DEF Writable
        <5>4. parent' = [parent EXCEPT !.pc = "recWrite", !.snap = store[parent.task]]
          BY <1>12, <2>3, <4>1 DEF ParentRecord
        <5>5. /\ parent' \in ParentRecords
              /\ parent'.task = parent.task
              /\ parent'.snap = store[parent.task]
          BY <2>1, <5>3, <5>4 DEF ParentRecords, RecordPC, Snapshots
        <5> QED BY <5>1, <5>2, <5>5 DEF ParentSound, Writable, Consistent, MayMove
      <4>2. CASE ~Accepts(parent.task, "FAILED")
        BY <1>12, <2>3, <4>2, HookEnds DEF ParentRecord, RecordPC
      <4> QED BY <4>1, <4>2
    <3>2. StoreSound'
      BY <1>0, <1>12, <2>3, FaultKeepsStore DEF ParentRecord
    <3> QED BY <1>0, <1>12, <3>1, <3>2, ParentMoves, BrokerUntouched DEF ParentRecord
  <2>4. CASE parent.pc = "recWrite"
    <3>1. parent' \in ParentRecords /\ ParentSound'
      BY <1>12, <2>4, HookEnds DEF ParentRecord, RecordPC
    <3>2. StoreSound'
      BY <1>0, <1>12, <2>4, ParentWritesSound, SetKeepsStore DEF ParentRecord
    <3> QED BY <1>0, <1>12, <3>1, <3>2, ParentMoves, BrokerUntouched DEF ParentRecord
  <2> QED BY <1>12, <2>2, <2>3, <2>4 DEF ParentRecord
<1>13. ASSUME ParentFault
       PROVE  ConsistencyInv'
  <2>1. parent' \in ParentRecords /\ ParentSound'
    BY <1>13, HookEnds DEF ParentFault, RecordPC
  <2>2. faults' \in Nat
    BY <1>13, FaultCounts DEF ParentFault
  <2>3. StoreSound'
    BY <1>13, <2>2, FaultKeepsStore, ParentWritesSound, SetKeepsStore DEF ParentFault
  <2> QED BY <1>0, <1>13, <2>1, <2>3, ParentMoves, BrokerUntouched DEF ParentFault
<1>14. ASSUME EndHooks
       PROVE  ConsistencyInv'
  <2>1. parent' \in ParentRecords /\ ParentSound'
    BY <1>14 DEF EndHooks, IdleParent, ParentRecords, ParentSound, RecordPC, Snapshots
  <2>2. CASE parent.kill = Nil
    BY <1>0, <1>14, <2>1, <2>2, ParentMoves, StoreUntouched, BrokerUntouched DEF EndHooks
  <2>3. CASE parent.kill # Nil
    <3>1. parent.kill \in Children
      BY <2>3 DEF WorkerSound, WorkerTypeOK, ParentRecords
    <3>2. WorkerSound'
      BY <1>14, <2>1, <2>3, <3>1, ChildFreed, OneChildMoves DEF EndHooks
    <3> QED BY <1>0, <1>14, <3>2, StoreUntouched, BrokerUntouched DEF EndHooks
  <2> QED BY <2>2, <2>3
<1>15. ASSUME NEW c \in Children, Redeliver(c)
       PROVE  ConsistencyInv'
  <2>1. child[c].task \in Tasks /\ faults' \in Nat
    BY <1>15, FaultCounts DEF Redeliver, WorkerSound, ChildSound
  <2>2. BrokerTypeOK'
    BY <1>15, <2>1, QueueGrows DEF Redeliver
  <2>3. /\ child' \in [Children -> ChildRecords]
        /\ \A d \in Children \ {c} : child'[d] = child[d]
    BY <1>15 DEF Redeliver, WorkerSound, WorkerTypeOK, ChildRecords
  <2>4. ChildSound(c)'
    BY <1>15 DEF Redeliver, WorkerSound, WorkerTypeOK, ChildRecords, ChildSound,
                 Writable, Consistent, MayMove
  <2>5. WorkerSound'
    BY <1>15, <2>3, <2>4, ParentUntouched, OneChildMoves DEF Redeliver
  <2>6. StoreSound'
    BY <1>15, <2>1, FaultKeepsStore DEF Redeliver
  <2> QED BY <1>0, <2>2, <2>5, <2>6
<1>16. ASSUME WorkerCrash
       PROVE  ConsistencyInv'
  <2>1. StoreSound'
    BY <1>16, FaultCounts, FaultKeepsStore DEF WorkerCrash
  <2>2. ASSUME NEW t \in Tasks
        PROVE  orphans[t] + Cardinality({c \in Children : child[c].held /\ child[c].task = t})
                 \in Nat
    <3>1. IsFiniteSet({c \in Children : child[c].held /\ child[c].task = t})
      BY WorkerAssumption, FS_Subset
    <3>2. Cardinality({c \in Children : child[c].held /\ child[c].task = t}) \in Nat
      BY <3>1, FS_CardinalityType
    <3>3. orphans[t] \in Nat
      BY DEF BrokerTypeOK
    <3> QED BY <3>2, <3>3
  <2>3. BrokerTypeOK'
    BY <1>16, <2>2 DEF WorkerCrash, BrokerTypeOK
  <2>4. WorkerSound'
    BY <1>16 DEF WorkerCrash, WorkerSound, WorkerTypeOK, ChildRecords, ParentRecords,
                 IdleChild, IdleParent, ChildSound, ParentSound, ChildPC, RecordPC, Snapshots
  <2> QED BY <1>0, <2>1, <2>3, <2>4
<1> QED
  BY <1>1, <1>2, <1>3, <1>4, <1>5, <1>6, <1>7, <1>8, <1>9, <1>10, <1>11,
     <1>12, <1>13, <1>14, <1>15, <1>16
     DEF WorkerNext, ChildStep, ParentStep, Report

-----------------------------------------------------------------------------

(***************************************************************************)
(* The theorems                                                            *)
(***************************************************************************)

LEMMA InitSound == Init => ConsistencyInv
<1> SUFFICES ASSUME Init PROVE ConsistencyInv
  OBVIOUS
<1>1. StoreSound
  BY DEF Init, StoreInit, StoreSound, StoreTypeOK, RecordsConsistent
<1>2. BrokerTypeOK
  BY EmptySeq DEF Init, BrokerInit, BrokerTypeOK
<1>3. WebSound
  BY DEF Init, WebInit, WebSound, WebTypeOK, ThreadSound, IdleThread, WebPC, Answers
<1>4. WorkerSound
  BY DEF Init, WorkerInit, WorkerSound, WorkerTypeOK, ChildRecords, ParentRecords,
         IdleChild, IdleParent, ChildSound, ParentSound, ChildPC, RecordPC, Snapshots
<1> QED BY <1>1, <1>2, <1>3, <1>4, InvParts

LEMMA NextSound == ConsistencyInv /\ [Next]_vars => ConsistencyInv'
<1> SUFFICES ASSUME ConsistencyInv, [Next]_vars PROVE ConsistencyInv'
  OBVIOUS
<1> USE InvParts
<1>1. CASE WebNext /\ UNCHANGED workerVars
  BY <1>1, WebStepSound
<1>2. CASE WorkerNext /\ UNCHANGED webVars
  BY <1>2, WorkerStepSound
<1>3. CASE RestoreOrphans
  <2>1. PICK t \in Tasks : RestoreOrphan(t)
    BY <1>3 DEF RestoreOrphans
  <2>2. BrokerTypeOK'
    <3>1. orphans' \in [Tasks -> Nat]
      BY <2>1 DEF RestoreOrphan, BrokerTypeOK
    <3>2. queue' \in Seq(Tasks)
      BY <2>1, ConcatProperties DEF RestoreOrphan, PutBack, BrokerTypeOK
    <3> QED BY <3>1, <3>2 DEF BrokerTypeOK
  <2> QED
    BY <1>3, <2>1, <2>2, StoreUntouched, WebUntouched, WorkerUntouched
       DEF RestoreOrphans, RestoreOrphan
<1>4. CASE TimePasses
  <2>1. StoreSound'
    <3>1. clock' \in Nat /\ UNCHANGED <<expires, faults>>
      BY <1>4 DEF TimePasses, Tick, StoreSound, StoreTypeOK
    <3>2. \A t \in Tasks : store'[t] = store[t] \/ store'[t] = Nil
      BY <1>4 DEF TimePasses, Tick
    <3>3. store' \in [Tasks -> TaskRecords \cup {Nil}]
      BY <1>4 DEF TimePasses, Tick, StoreSound, StoreTypeOK
    <3>4. RecordsConsistent'
      BY <3>2 DEF StoreSound, RecordsConsistent, Consistent
    <3> QED BY <3>1, <3>3, <3>4 DEF StoreSound, StoreTypeOK
  <2> QED
    BY <1>4, <2>1, BrokerUntouched, WebUntouched, WorkerUntouched DEF TimePasses
<1>5. CASE UNCHANGED vars
  BY <1>5, StoreUntouched, BrokerUntouched, WebUntouched, WorkerUntouched DEF vars
<1> QED BY <1>1, <1>2, <1>3, <1>4, <1>5 DEF Next

\* The inductive invariant: every copy that is about to be written back is a
\* consistent record of its task whose own status allows the write.
THEOREM ConsistencyInvariant == Spec => []ConsistencyInv
<1>1. Init => ConsistencyInv
  BY InitSound
<1>2. ConsistencyInv /\ [Next]_vars => ConsistencyInv'
  BY NextSound
<1> QED BY <1>1, <1>2, PTL DEF Spec

\* Type correctness of the whole service.
THEOREM TypeCorrect == Spec => []TypeOK
<1>1. ConsistencyInv => TypeOK
  BY DEF ConsistencyInv
<1> QED BY <1>1, ConsistencyInvariant, PTL

\* However the updates interleave, a stored record is coherent.
THEOREM RecordsAreConsistent == Spec => []RecordsConsistent
<1>1. ConsistencyInv => RecordsConsistent
  BY DEF ConsistencyInv
<1> QED BY <1>1, ConsistencyInvariant, PTL

\* Every web thread, child and hook that is about to write has a copy that its
\* own status allows it to write (the checks of update_task).
THEOREM CopiesAreSound == Spec => []CopiesSound
<1>1. ConsistencyInv => CopiesSound
  BY DEF ConsistencyInv
<1> QED BY <1>1, ConsistencyInvariant, PTL

-----------------------------------------------------------------------------

(***************************************************************************)
(* The same of ForgetfulService.  What comes back from the disk is an older*)
(* state of the store, in which every record was coherent too, and the     *)
(* copies that the web threads and the worker keep across the restart stay *)
(* sound because nothing about a copy refers to what is stored.            *)
(***************************************************************************)

\* What the synced file holds is a state of the server.
ServerStates ==
    [ store : [Tasks -> TaskRecords \cup {Nil}], expires : [Tasks -> Nat],
      queue : Seq(Tasks), unacked : [Tasks -> Nat], cooldown : BOOLEAN ]

DiskTypeOK == disk \in ServerStates

DiskConsistent ==
    \A t \in Tasks : disk.store[t] # Nil => Consistent(t, disk.store[t])

ForgetfulInv == ConsistencyInv /\ DiskTypeOK /\ DiskConsistent

\* A state of the server that is written out is sound on the disk.
HeldSound == Held \in ServerStates /\ Held.store = store

LEMMA HeldIsSound == ConsistencyInv => HeldSound
<1> SUFFICES ASSUME ConsistencyInv PROVE HeldSound
  OBVIOUS
<1>1. ASSUME NEW t \in Tasks
      PROVE  orphans[t] + Cardinality({c \in Children : child[c].held /\ child[c].task = t})
               \in Nat
  <2> DEFINE H == {c \in Children : child[c].held /\ child[c].task = t}
  <2>1. IsFiniteSet(H)
    BY WorkerAssumption, FS_Subset
  <2>2. Cardinality(H) \in Nat
    BY <2>1, FS_CardinalityType
  <2>3. orphans[t] \in Nat
    BY DEF ConsistencyInv, TypeOK, BrokerTypeOK
  <2> QED BY <2>2, <2>3
<1>2. Unacked \in [Tasks -> Nat]
  BY <1>1 DEF Unacked
<1> QED
  BY <1>2 DEF HeldSound, ServerStates, Held, ConsistencyInv, TypeOK, StoreTypeOK,
              BrokerTypeOK, WebTypeOK

LEMMA HeldIsSoundNext == ConsistencyInv' => HeldSound'
<1>1. ConsistencyInv => HeldSound
  BY HeldIsSound
<1> QED BY <1>1, PTL

\* What is written out next to a sound state is sound, and stays so.
LEMMA SyncKeepsDisk ==
    ASSUME ConsistencyInv, ConsistencyInv', DiskTypeOK, DiskConsistent,
           disk' \in {disk, Held, Held'}
    PROVE  DiskTypeOK' /\ DiskConsistent'
<1>1. CASE disk' = disk
  BY <1>1 DEF DiskTypeOK, DiskConsistent
<1>2. CASE disk' = Held
  <2>1. disk'.store = store /\ DiskTypeOK'
    BY <1>2, HeldIsSound DEF DiskTypeOK, HeldSound
  <2> QED BY <2>1 DEF DiskConsistent, ConsistencyInv, RecordsConsistent
<1>3. CASE disk' = Held'
  <2>1. Held' \in ServerStates /\ Held'.store = store'
    BY HeldIsSoundNext DEF HeldSound
  <2> QED BY <1>3, <2>1 DEF DiskTypeOK, DiskConsistent, ConsistencyInv, RecordsConsistent
<1> QED BY <1>1, <1>2, <1>3

\* The restart brings sound records back and takes no copy away.
LEMMA RestartKeepsSound ==
    ASSUME ForgetfulInv, RestartRedis
    PROVE  ForgetfulInv'
<1>0. StoreSound /\ BrokerTypeOK /\ WebSound /\ WorkerSound
  BY InvParts DEF ForgetfulInv
<1>1. StoreSound' /\ BrokerTypeOK' /\ cooldown' \in BOOLEAN
  BY <1>0, FaultCounts
     DEF RestartRedis, ForgetfulInv, DiskTypeOK, DiskConsistent, ServerStates, StoreSound, StoreTypeOK,
         RecordsConsistent, Consistent, BrokerTypeOK
<1>2. WebSound'
  BY <1>0, <1>1 DEF RestartRedis, WebSound, WebTypeOK, ThreadSound, Writable, Consistent, MayMove
<1>3. WorkerSound'
  <2>1. /\ child \in [Children -> ChildRecords] /\ parent' = parent
        /\ child' = [c \in Children |-> [child[c] EXCEPT !.held = FALSE]]
    BY <1>0 DEF RestartRedis, WorkerSound, WorkerTypeOK
  <2>2. child' \in [Children -> ChildRecords]
    BY <2>1 DEF ChildRecords
  <2>3. ASSUME NEW c \in Children
        PROVE  /\ child'[c].pc = child[c].pc /\ child'[c].task = child[c].task
               /\ child'[c].snap = child[c].snap /\ child'[c].result = child[c].result
               /\ child'[c].held = FALSE
    BY <2>1 DEF ChildRecords
  <2>4. \A c \in Children : ChildSound(c)'
    BY ZenonT(30), <1>0, <2>3 DEF WorkerSound, ChildSound, Writable, Consistent, MayMove
  <2>5. ParentSound'
    BY <1>0, <2>1 DEF WorkerSound, ParentSound, Writable, Consistent, MayMove
  <2> QED BY <1>0, <2>1, <2>2, <2>4, <2>5 DEF WorkerSound, WorkerTypeOK
<1>4. DiskTypeOK' /\ DiskConsistent'
  BY DEF RestartRedis, ForgetfulInv, DiskTypeOK, DiskConsistent
<1> QED BY <1>1, <1>2, <1>3, <1>4, InvParts DEF ForgetfulInv

LEMMA ForgetfulNextSound ==
    ASSUME ForgetfulInv, [ForgetfulNext]_allVars
    PROVE  ForgetfulInv'
<1>1. CASE RestartRedis
  BY <1>1, RestartKeepsSound
<1>2. CASE ~RestartRedis
  <2>1. [Next]_vars
    BY <1>2 DEF ForgetfulNext, SyncedTick, Sync, Next, allVars
  <2>2. ConsistencyInv'
    BY <2>1, NextSound DEF ForgetfulInv
  <2>3. disk' \in {disk, Held, Held'}
    BY <1>2 DEF ForgetfulNext, SyncedTick, Sync, allVars
  <2> QED BY <2>2, <2>3, SyncKeepsDisk DEF ForgetfulInv
<1> QED BY <1>1, <1>2

\* Types, records and copies stay sound whatever is lost with the server's
\* memory (the appendfsync of deploy/compose.yml, task_store.py:106-142).
THEOREM ForgetfulInvariant == ForgetfulSpec => []ForgetfulInv
<1>1. ForgetfulInit => ForgetfulInv
  <2> SUFFICES ASSUME ForgetfulInit PROVE ForgetfulInv
    OBVIOUS
  <2>1. ConsistencyInv
    BY InitSound DEF ForgetfulInit
  <2> QED BY <2>1, HeldIsSound
          DEF ForgetfulInit, ForgetfulInv, HeldSound, DiskTypeOK, DiskConsistent,
              ConsistencyInv, RecordsConsistent
<1>2. ForgetfulInv /\ [ForgetfulNext]_allVars => ForgetfulInv'
  BY ForgetfulNextSound
<1> QED BY <1>1, <1>2, PTL DEF ForgetfulSpec

\* A reader finds a coherent record, also after the server has come back with
\* what it held at its last sync.
THEOREM ForgetfulRecordsAreConsistent == ForgetfulSpec => []RecordsConsistent
<1>1. ForgetfulInv => RecordsConsistent
  BY DEF ForgetfulInv, ConsistencyInv
<1> QED BY <1>1, ForgetfulInvariant, PTL

\* What a process remembers across the restart may still be written back.
THEOREM ForgetfulCopiesAreSound == ForgetfulSpec => []CopiesSound
<1>1. ForgetfulInv => CopiesSound
  BY DEF ForgetfulInv, ConsistencyInv
<1> QED BY <1>1, ForgetfulInvariant, PTL

=============================================================================
