---------------------------- MODULE CustodyProofs ----------------------------
(***************************************************************************)
(* Where the messages are: while nothing has gone wrong every accepted     *)
(* task that is not settled is somebody's job, and whatever goes wrong the *)
(* queue passes its limit by no more than threads and mishaps explain.     *)
(***************************************************************************)
EXTENDS RegisterProofs

-----------------------------------------------------------------------------

(***************************************************************************)
(* Custody, while nothing has gone wrong.                                  *)
(***************************************************************************)

\* A task has one message, which is in one place.
OneMessage ==
    /\ \A t \in Tasks : orphans[t] = 0
    /\ \A i, j \in 1..Len(queue) : i # j => queue[i] # queue[j]
    /\ \A c \in Children : child[c].pc # "idle" =>
          /\ ~Queued(child[c].task)
          /\ \A d \in Children \ {c} : child[d].task # child[c].task
    /\ parent.pc # "idle" =>
          /\ parent.task \in Tasks /\ ~Queued(parent.task)
          /\ \A c \in Children : child[c].task = parent.task => c = parent.kill

\* A child that works holds its message, unless the hard limit has struck: then
\* it is past the point where it would start the task again.
Custody ==
    /\ \A c \in Children : child[c].pc # "idle" =>
          child[c].held \/ (parent.pc # "idle" /\ parent.kill = c)
    /\ parent.pc # "idle" /\ parent.kill # Nil =>
          /\ child[parent.kill].task = parent.task
          /\ child[parent.kill].pc \notin BeforeEngine

\* Who lets go of a task has settled it.
Settled ==
    /\ \A c \in Children : child[c].pc = "done" => ~IsOpen(child[c].task)
    /\ parent.pc = "kill" => ~IsOpen(parent.task)

Owned == \A t \in Tasks : posted[t] = "accepted" /\ IsOpen(t) => HasOwner(t)

CustodyInv == faults = 0 => OneMessage /\ Custody /\ Settled /\ Owned

-----------------------------------------------------------------------------

(***************************************************************************)
(* The length of the queue, whatever goes wrong.                           *)
(***************************************************************************)

\* The deliveries that died with a worker, one by one.
Lost == {e \in Tasks \X Nat : e[2] \in 1..orphans[e[1]]}

\* The threads that passed the test of the queue length and have not published.
Publishing == {w \in Threads : Posting(w)}

\* Everything that is in the queue or may get there without being measured.
Backlog == Len(queue) + Cardinality(Publishing) + Cardinality(Lost)

Allowance ==
    QueueLimit + (Cardinality(Threads) - 1) + faults * Cardinality(Children)

BacklogInv ==
    /\ IsFiniteSet(Lost)
    /\ Cardinality(Lost) <= faults * Cardinality(Children)
    /\ QueueLimit # 0 => Backlog <= Allowance

-----------------------------------------------------------------------------

(***************************************************************************)
(* Which tasks a step opens: one whose record is created, or one that a    *)
(* child starts.                                                           *)
(***************************************************************************)

LEMMA OpenedBy ==
    ASSUME ProvenanceInv, StepEffect, NEW t \in Tasks, IsOpen(t)', ~IsOpen(t)
    PROVE  \/ posted[t] = "open" /\ ~Handed(t)
           \/ \E c \in Children : child[c].task = t /\ child[c].pc = "procWrite"
<1>0. store \in [Tasks -> TaskRecords \cup {Nil}]
  BY DEF ProvenanceInv, ConsistencyInv, TypeOK, StoreTypeOK
<1>1. CASE UNCHANGED store \/ Expires
  BY <1>1 DEF IsOpen, Expires
<1>2. CASE \E u \in Spent : WritesBack(u)
  <2>1. PICK u \in Spent : WritesBack(u)
    BY <1>2
  <2>2. PICK old, new \in TaskRecords :
           /\ Updates(u, old, new) /\ RunsFor(u, new.status)
           /\ store' = [store EXCEPT ![u] = new]
    BY <2>1 DEF WritesBack
  <2>3. u = t
    BY <1>0, <2>2 DEF IsOpen
  <2>4. store'[t] = new
    BY <1>0, <2>2, <2>3
  <2>5. new.status = "PROCESSING"
    BY <2>2, <2>4 DEF IsOpen, Open, Updates
  <2> QED BY <2>2, <2>3, <2>5 DEF RunsFor
<1>3. CASE \E w \in Threads : Creates(w)
  <2>1. PICK w \in Threads : Creates(w)
    BY <1>3
  <2>2. web[w].task = t
    BY <1>0, <2>1 DEF Creates, IsOpen
  <2> QED BY <2>1, <2>2 DEF Creates, ProvenanceInv, FreshIds, PostIsPrivate, Posting
<1> QED BY <1>1, <1>2, <1>3 DEF StepEffect, StoreEffect, Withdraws

\* Who has let go of a task, and who has accepted it, is not taken by surprise.
LEMMA ClosedStays ==
    ASSUME ProvenanceInv, StepEffect, OneMessage, Custody, NEW t \in Tasks
    PROVE  /\ \A c \in Children : child[c].pc = "done" /\ child[c].task = t /\ ~IsOpen(t)
                                     => ~IsOpen(t)'
           /\ parent.pc # "idle" /\ parent.task = t /\ ~IsOpen(t) => ~IsOpen(t)'
           /\ Owned /\ posted[t] = "accepted" /\ IsOpen(t)' => HasOwner(t)
<1>1. ASSUME NEW d \in Children, child[d].task = t, child[d].pc = "procWrite"
      PROVE  /\ child[d].held
             /\ \A c \in Children : child[c].task = t => c = d
             /\ ~(parent.pc # "idle" /\ parent.task = t)
  <2>1. d # parent.kill \/ parent.pc = "idle"
    BY <1>1, WorkerAssumption DEF Custody, BeforeEngine
  <2> QED BY <1>1, <2>1 DEF Custody, OneMessage
<1>2. ASSUME NEW c \in Children, child[c].pc = "done", child[c].task = t, ~IsOpen(t), IsOpen(t)'
      PROVE  FALSE
  <2>1. Handed(t)
    BY <1>2 DEF Handed
  <2>2. PICK d \in Children : child[d].task = t /\ child[d].pc = "procWrite"
    BY <1>2, <2>1, OpenedBy
  <2>3. c = d
    BY <1>1, <1>2, <2>2
  <2> QED BY <1>2, <2>2, <2>3
<1>3. ASSUME parent.pc # "idle", parent.task = t, ~IsOpen(t), IsOpen(t)'
      PROVE  FALSE
  BY <1>1, <1>3, OpenedBy DEF Handed
<1>4. ASSUME Owned, posted[t] = "accepted", IsOpen(t)'
      PROVE  HasOwner(t)
  BY <1>1, <1>4, OpenedBy DEF Owned, HasOwner
<1> QED BY <1>2, <1>3, <1>4

-----------------------------------------------------------------------------

(***************************************************************************)
(* The steps, while nothing goes wrong                                     *)
(***************************************************************************)

CustodyHolds == OneMessage /\ Custody /\ Settled /\ Owned

\* Nobody hands anything on.
LEMMA NothingHandedOn ==
    ASSUME ProvenanceInv, CustodyHolds, StepEffect,
           UNCHANGED <<brokerVars, child, parent>>,
           \A t \in Tasks : posted'[t] = "accepted" => posted[t] = "accepted"
    PROVE  CustodyHolds'
<1>1. OneMessage' /\ Custody'
  BY DEF CustodyHolds, OneMessage, Custody, Queued, brokerVars
<1>2. Settled'
  <2>1. ASSUME NEW c \in Children, child[c].pc = "done", NEW t, t = child[c].task
        PROVE  ~IsOpen(t)'
    <3>1. t \in Tasks
      BY <2>1 DEF ProvenanceInv, ConsistencyInv, CopiesSound, ChildSound
    <3> QED BY <2>1, <3>1, ClosedStays DEF CustodyHolds, Settled
  <2>2. ASSUME parent.pc = "kill", NEW t, t = parent.task
        PROVE  ~IsOpen(t)'
    BY <2>2, ClosedStays DEF CustodyHolds, Settled, OneMessage
  <2> QED BY <2>1, <2>2 DEF Settled
<1>3. Owned'
  <2> SUFFICES ASSUME NEW t \in Tasks, posted'[t] = "accepted", IsOpen(t)'
               PROVE  HasOwner(t)'
    BY DEF Owned
  <2>1. HasOwner(t)
    BY ClosedStays DEF CustodyHolds
  <2> QED BY <2>1 DEF HasOwner, Queued, brokerVars
<1> QED BY <1>1, <1>2, <1>3 DEF CustodyHolds

\* A child goes on with the message it has.
GoesOn(c) ==
    /\ child[c].pc # "idle" /\ child'[c].pc # "idle"
    /\ child'[c].task = child[c].task
    /\ child'[c].held = child[c].held
    /\ child'[c].pc \in BeforeEngine => child[c].pc \in BeforeEngine
    /\ child'[c].pc = "done" => ~IsOpen(child[c].task)'
    /\ \A d \in Children \ {c} : child'[d] = child[d]

LEMMA ChildKeepsCustody ==
    ASSUME ProvenanceInv, CustodyHolds, StepEffect, NEW c \in Children, GoesOn(c),
           UNCHANGED <<brokerVars, parent, posted>>
    PROVE  CustodyHolds'
<1>0. /\ \A d \in Children : child'[d].task = child[d].task
      /\ \A d \in Children : child'[d].held = child[d].held
      /\ \A d \in Children : child'[d].pc # "idle" <=> child[d].pc # "idle"
  BY DEF GoesOn
<1>1. OneMessage'
  BY <1>0 DEF CustodyHolds, OneMessage, Queued, brokerVars
<1>2. Custody'
  <2>1. parent.pc # "idle" /\ parent.kill # Nil => parent.kill \in Children
    BY DEF ProvenanceInv, ConsistencyInv, TypeOK, WorkerTypeOK, ParentRecords
  <2>2. \A d \in Children : child'[d].pc \in BeforeEngine => child[d].pc \in BeforeEngine
    BY DEF GoesOn
  <2> QED BY <1>0, <2>1, <2>2 DEF CustodyHolds, Custody
<1>3. Settled'
  <2>1. ASSUME NEW d \in Children, child'[d].pc = "done"
        PROVE  ~IsOpen(child[d].task)'
    <3>1. CASE d = c
      BY <2>1, <3>1 DEF GoesOn
    <3>2. CASE d # c
      <4>1. child[d].pc = "done" /\ child'[d].task = child[d].task
        BY <2>1, <3>2 DEF GoesOn
      <4>2. PICK t \in Tasks : t = child[d].task
        BY <4>1 DEF ProvenanceInv, ConsistencyInv, CopiesSound, ChildSound
      <4>3. ~IsOpen(t)'
        BY <4>1, <4>2, ClosedStays DEF CustodyHolds, Settled
      <4> QED BY <4>1, <4>2, <4>3
    <3> QED BY <3>1, <3>2
  <2>2. ASSUME parent.pc = "kill", NEW t, t = parent.task
        PROVE  ~IsOpen(t)'
    BY <2>2, ClosedStays DEF CustodyHolds, Settled, OneMessage
  <2> QED BY <2>1, <2>2 DEF Settled
<1>4. Owned'
  <2> SUFFICES ASSUME NEW t \in Tasks, posted'[t] = "accepted", IsOpen(t)'
               PROVE  HasOwner(t)'
    BY DEF Owned
  <2>1. HasOwner(t)
    BY ClosedStays DEF CustodyHolds
  <2> QED BY <1>0, <2>1 DEF HasOwner, Queued, brokerVars
<1> QED BY <1>1, <1>2, <1>3, <1>4 DEF CustodyHolds

\* Every way a child goes on by itself, with no mishap.
LEMMA ChildStepGoesOn ==
    ASSUME ConsistencyInv, NEW c \in Children, ChildStep(c) \/ SolveFails(c)
    PROVE  GoesOn(c) /\ UNCHANGED <<brokerVars, parent, faults>>
<1> USE InvParts
<1>0. child[c].pc # "idle" => child[c].task \in Tasks
  BY DEF WorkerSound, ChildSound
<1>1. CASE LoadTask(c)
  <2>1. /\ child'[c].pc = (IF ~IsOpen(child[c].task) THEN "done"
                           ELSE IF IsStale(store[child[c].task], clock) THEN "staleRead"
                           ELSE "procRead")
        /\ child[c].pc = "load"
        /\ child'[c].task = child[c].task /\ child'[c].held = child[c].held
        /\ \A d \in Children \ {c} : child'[d] = child[d]
        /\ UNCHANGED <<store, brokerVars, parent, faults>>
    BY <1>1 DEF LoadTask, Goto, Running, WorkerSound, WorkerTypeOK, ChildRecords, storeVars
  <2> QED BY <2>1 DEF GoesOn, BeforeEngine, IsOpen
<1>2. CASE ReadForUpdate(c)
  <2>1. /\ child[c].pc \in {"staleRead", "procRead", "succRead"}
        /\ child'[c].pc \in {"staleWrite", "procWrite", "succWrite", "recLoad"}
        /\ child[c].pc = "succRead" => child'[c].pc \in {"succWrite", "recLoad"}
        /\ child'[c].task = child[c].task /\ child'[c].held = child[c].held
        /\ \A d \in Children \ {c} : child'[d] = child[d]
        /\ UNCHANGED <<brokerVars, parent, faults>>
    BY <1>2 DEF ReadForUpdate, UpdateRead, Running, WorkerSound, WorkerTypeOK, ChildRecords,
                storeVars
  <2> QED BY <2>1 DEF GoesOn, BeforeEngine
<1>3. CASE WriteUpdate(c)
  <2>1. /\ child'[c].pc = (IF child[c].pc = "procWrite" THEN "solve" ELSE "done")
        /\ child[c].pc \in WritePC
        /\ child'[c].task = child[c].task /\ child'[c].held = child[c].held
        /\ \A d \in Children \ {c} : child'[d] = child[d]
        /\ UNCHANGED <<brokerVars, parent, faults>>
        /\ store' = [store EXCEPT ![child[c].task] = ChildWrites(c)]
    BY <1>3 DEF WriteUpdate, SetTask, After, Goto, WorkerSound, WorkerTypeOK, ChildRecords
  <2>2. /\ child[c].task \in Tasks
        /\ store'[child[c].task] = ChildWrites(c)
    BY <2>1, ChildWritesSound DEF WritePC, StoreSound, StoreTypeOK
  <2>3. child[c].pc # "procWrite" => ChildWrites(c).status \in Terminal
    BY <2>1, ChildWritesSound
       DEF WritePC, ChildWrites, WorkerSound, ChildSound, Writable, TaskRecords,
           MarkFailed, MarkSuccess, Terminal
  <2> QED BY <2>1, <2>2, <2>3 DEF GoesOn, BeforeEngine, IsOpen, Open, Terminal, WritePC
<1>4. CASE Solve(c) \/ SolveFails(c)
  <2>1. /\ child[c].pc = "solve"
        /\ child'[c].pc \in {"succRead", "recLoad"}
        /\ child'[c].task = child[c].task /\ child'[c].held = child[c].held
        /\ \A d \in Children \ {c} : child'[d] = child[d]
        /\ UNCHANGED <<brokerVars, parent, faults>>
    BY <1>4 DEF Solve, SolveFails, Goto, Running, WorkerSound, WorkerTypeOK, ChildRecords,
                storeVars
  <2> QED BY <2>1 DEF GoesOn, BeforeEngine
<1>5. CASE RecordFailure(c)
  <2>1. /\ child[c].pc \in RecordPC
        /\ child'[c].pc \in {"recRead", "recWrite", "raised"}
        /\ child'[c].task = child[c].task /\ child'[c].held = child[c].held
        /\ \A d \in Children \ {c} : child'[d] = child[d]
        /\ UNCHANGED <<brokerVars, parent, faults>>
    BY <1>5 DEF RecordFailure, UpdateRead, Goto, Running, RecordPC, WorkerSound,
                WorkerTypeOK, ChildRecords
  <2> QED BY <2>1 DEF GoesOn, BeforeEngine, RecordPC
<1> QED BY <1>1, <1>2, <1>3, <1>4, <1>5 DEF ChildStep

\* A hook goes on with the task it has, and does not end before it is settled.
LEMMA HookStepGoesOn ==
    ASSUME ConsistencyInv, ParentRecord
    PROVE  /\ parent.pc # "idle" /\ parent'.pc # "idle"
           /\ parent'.task = parent.task /\ parent'.kill = parent.kill
           /\ parent'.pc = "kill" => ~IsOpen(parent.task)'
           /\ UNCHANGED <<brokerVars, child, faults>>
<1> USE InvParts
<1>0. /\ parent \in ParentRecords
      /\ parent.pc \in RecordPC
      /\ parent.task \in Tasks
  BY DEF WorkerSound, WorkerTypeOK, ParentRecord, RecordPC, ParentSound
<1>1. /\ parent'.task = parent.task /\ parent'.kill = parent.kill
      /\ parent'.pc # "idle"
      /\ parent'.pc = "kill" => EndHook
  BY <1>0 DEF ParentRecord, EndHook, ParentRecords
<1>2. ASSUME parent'.pc = "kill"
      PROVE  ~IsOpen(parent.task)'
  <2>1. CASE parent.pc = "recLoad"
    BY <1>0, <1>1, <1>2, <2>1 DEF ParentRecord, ParentRecords, IsOpen
  <2>2. CASE parent.pc = "recRead"
    <3>1. ~Accepts(parent.task, "FAILED") /\ UNCHANGED store
      BY <1>0, <1>2, <2>2 DEF ParentRecord, ParentRecords
    <3>2. ~IsOpen(parent.task)
      BY <1>0, <3>1 DEF Accepts, MayMove, ALLOWED_STATUS_TRANSITIONS, IsOpen, Open
    <3> QED BY <1>1, <3>1, <3>2 DEF IsOpen
  <2>3. CASE parent.pc = "recWrite"
    <3>1. store'[parent.task] = ParentWrites
      BY <1>0, <2>3 DEF ParentRecord, SetTask, StoreSound, StoreTypeOK
    <3>2. ParentWrites.status = "FAILED"
      BY <1>0, <2>3 DEF ParentWrites, MarkFailedWithoutResult, WorkerSound, ParentSound,
                        Writable, TaskRecords
    <3> QED BY <1>1, <3>1, <3>2 DEF IsOpen, Open
  <2> QED BY <1>0, <2>1, <2>2, <2>3 DEF RecordPC
<1> QED BY <1>0, <1>1, <1>2 DEF ParentRecord, RecordPC

LEMMA HookKeepsCustody ==
    ASSUME ProvenanceInv, CustodyHolds, StepEffect, ParentRecord, UNCHANGED posted
    PROVE  CustodyHolds'
<1>0. /\ parent.pc # "idle" /\ parent'.pc # "idle"
      /\ parent'.task = parent.task /\ parent'.kill = parent.kill
      /\ parent'.pc = "kill" => ~IsOpen(parent.task)'
      /\ UNCHANGED <<brokerVars, child>>
  BY HookStepGoesOn DEF ProvenanceInv
<1>1. OneMessage' /\ Custody'
  BY <1>0 DEF CustodyHolds, OneMessage, Custody, Queued, brokerVars
<1>2. Settled'
  <2>1. ASSUME NEW c \in Children, child[c].pc = "done", NEW t, t = child[c].task
        PROVE  ~IsOpen(t)'
    <3>1. t \in Tasks
      BY <2>1 DEF ProvenanceInv, ConsistencyInv, CopiesSound, ChildSound
    <3> QED BY <2>1, <3>1, ClosedStays DEF CustodyHolds, Settled
  <2> QED BY <1>0, <2>1 DEF Settled
<1>3. Owned'
  <2> SUFFICES ASSUME NEW t \in Tasks, posted'[t] = "accepted", IsOpen(t)'
               PROVE  HasOwner(t)'
    BY DEF Owned
  <2>1. HasOwner(t)
    BY ClosedStays DEF CustodyHolds
  <2> QED BY <1>0, <2>1 DEF HasOwner, Queued, brokerVars
<1> QED BY <1>1, <1>2, <1>3 DEF CustodyHolds

\* In a step that leaves the store alone every task is as open as it was.
LEMMA SameStore ==
    ASSUME UNCHANGED store, NEW t
    PROVE  IsOpen(t)' <=> IsOpen(t)
BY DEF IsOpen

LEMMA DeliverKeepsCustody ==
    ASSUME ProvenanceInv, CustodyHolds, NEW c \in Children, Deliver(c), UNCHANGED posted
    PROVE  CustodyHolds'
<1> DEFINE t == Head(queue)
<1>0. /\ queue \in Seq(Tasks) /\ queue # <<>> /\ queue' = Tail(queue)
      /\ parent.pc = "idle" /\ UNCHANGED <<store, orphans, parent>>
      /\ child[c].pc = "idle"
      /\ child \in [Children -> ChildRecords] /\ Nil \notin Tasks
  BY RecordAssumption DEF Deliver, Running, storeVars, ProvenanceInv, ConsistencyInv, TypeOK,
                          BrokerTypeOK, WorkerTypeOK
<1>1. /\ Len(queue') = Len(queue) - 1 /\ Len(queue) \in Nat \ {0}
      /\ \A i \in 1..Len(queue') : queue'[i] = queue[i+1]
      /\ t = queue[1] /\ t \in Tasks
  BY <1>0
<1>2. /\ child'[c].task = t /\ child'[c].held /\ child'[c].pc = "load"
      /\ \A d \in Children \ {c} : child'[d] = child[d]
  BY <1>0 DEF Deliver, IdleChild
<1>3. \A u : Queued(u)' => Queued(u) /\ u # t
  <2>1. ASSUME NEW i \in 1..Len(queue')
        PROVE  /\ queue'[i] # t
               /\ i+1 \in 1..Len(queue) /\ queue'[i] = queue[i+1]
    <3>1. i+1 \in 1..Len(queue) /\ 1 \in 1..Len(queue) /\ i+1 # 1
      BY <1>1
    <3> QED BY <1>1, <3>1 DEF CustodyHolds, OneMessage
  <2> QED BY <2>1 DEF Queued
<1>4. \A u : Queued(u) => Queued(u)' \/ u = t
  <2>1. ASSUME NEW i \in 1..Len(queue), i # 1
        PROVE  i-1 \in 1..Len(queue') /\ queue'[i-1] = queue[i]
    <3>1. i-1 \in 1..Len(queue') /\ (i-1)+1 = i
      BY <1>1, <2>1
    <3> QED BY <1>1, <3>1
  <2> HIDE DEF t
  <2> QED BY <1>1, <2>1 DEF Queued
<1>5. Queued(t)
  <2>1. 1 \in 1..Len(queue) /\ queue[1] = t
    BY <1>1
  <2> QED BY <2>1 DEF Queued
<1>6. \A d \in Children \ {c} : child[d].task # t
  <2>1. \A d \in Children : child[d].pc = "idle" => child[d].task = Nil
    BY DEF ProvenanceInv, Tidy, IdleChild
  <2> QED BY <1>0, <1>1, <1>5, <2>1 DEF CustodyHolds, OneMessage
<1> HIDE DEF t
<1>7. OneMessage'
  <2>1. \A i, j \in 1..Len(queue') : i # j => queue'[i] # queue'[j]
    <3> TAKE i, j \in 1..Len(queue')
    <3>1. /\ i+1 \in 1..Len(queue) /\ j+1 \in 1..Len(queue)
          /\ i # j => i+1 # j+1
      BY <1>1
    <3> QED BY <1>1, <3>1 DEF CustodyHolds, OneMessage
  <2>2. ASSUME NEW d \in Children, child'[d].pc # "idle"
        PROVE  /\ ~Queued(child[d].task)'
               /\ \A e \in Children \ {d} : child'[e].task # child'[d].task
    <3>1. CASE d = c
      BY <1>2, <1>3, <1>6, <3>1
    <3>2. CASE d # c
      BY <1>2, <1>3, <1>6, <2>2, <3>2 DEF CustodyHolds, OneMessage
    <3> QED BY <3>1, <3>2
  <2> QED BY <1>0, <2>1, <2>2 DEF CustodyHolds, OneMessage
<1>8. Custody'
  BY <1>0, <1>2 DEF CustodyHolds, Custody
<1>9. Settled'
  <2>1. ASSUME NEW d \in Children, child'[d].pc = "done"
        PROVE  ~IsOpen(child[d].task)'
    <3>1. d # c /\ child'[d] = child[d]
      BY <1>2, <2>1
    <3> QED BY <1>0, <2>1, <3>1 DEF CustodyHolds, Settled, IsOpen
  <2> QED BY <1>0, <2>1 DEF Settled
<1>10. Owned'
  <2> SUFFICES ASSUME NEW u \in Tasks, posted'[u] = "accepted", IsOpen(u)'
               PROVE  HasOwner(u)'
    BY DEF Owned
  <2>1. HasOwner(u)
    BY <1>0, SameStore DEF CustodyHolds, Owned
  <2> QED BY <1>0, <1>2, <1>4, <2>1 DEF HasOwner, CustodyHolds, Custody, ProvenanceInv, Tidy, IdleChild
<1> QED BY <1>7, <1>8, <1>9, <1>10 DEF CustodyHolds

\* A child is freed: its task is settled, or the parent takes it over.
LEMMA ReportKeepsCustody ==
    ASSUME ProvenanceInv, CustodyHolds, NEW c \in Children, UNCHANGED posted,
           ReportSuccess(c) \/ ReportFailure(c) \/ ChildLost(c)
    PROVE  CustodyHolds'
<1>0. /\ parent.pc = "idle" /\ UNCHANGED <<store, orphans, queue>>
      /\ child[c].pc # "idle" /\ child[c].task \in Tasks
      /\ child'[c] = IdleChild /\ \A d \in Children \ {c} : child'[d] = child[d]
      /\ Nil \notin Tasks
  BY RecordAssumption
     DEF ReportSuccess, ReportFailure, ChildLost, Running, storeVars, brokerVars, ProvenanceInv,
         ConsistencyInv, TypeOK, WorkerTypeOK, CopiesSound, ChildSound
<1>1. /\ \A u \in Tasks : Queued(u)' <=> Queued(u)
      /\ \A u \in Tasks : IsOpen(u)' <=> IsOpen(u)
  BY <1>0 DEF Queued, IsOpen
<1>2. \/ child[c].pc = "done" /\ UNCHANGED parent
      \/ /\ parent'.pc = "recLoad" /\ parent'.task = child[c].task
         /\ parent'.kill = Nil
  BY DEF ReportSuccess, ReportFailure, ChildLost, Running, StartHooks
<1>3. \A d \in Children : child[d].pc # "idle" => child[d].task \in Tasks
  BY DEF ProvenanceInv, ConsistencyInv, CopiesSound, ChildSound
<1>4. \A d \in Children \ {c} : child[d].task # child[c].task
  BY <1>0 DEF CustodyHolds, OneMessage
<1>5. OneMessage'
  <2>1. \A d \in Children : child'[d].pc # "idle" =>
           /\ ~Queued(child[d].task)'
           /\ \A e \in Children \ {d} : child'[e].task # child'[d].task
    <3> SUFFICES ASSUME NEW d \in Children, child'[d].pc # "idle"
                 PROVE  /\ ~Queued(child[d].task)'
                        /\ \A e \in Children \ {d} : child'[e].task # child'[d].task
      OBVIOUS
    <3>1. d # c /\ child'[d] = child[d] /\ child[d].task \in Tasks
      BY <1>0, <1>3 DEF IdleChild
    <3>2. ~Queued(child[d].task) /\ \A e \in Children \ {d} : child[e].task # child[d].task
      BY <3>1 DEF CustodyHolds, OneMessage
    <3>3. \A e \in Children \ {d} : child'[e].task \in {child[e].task, Nil}
      BY <1>0 DEF IdleChild
    <3> QED BY <1>0, <3>1, <3>2, <3>3 DEF Queued
  <2>2. parent'.pc # "idle" =>
           /\ parent'.task \in Tasks /\ ~Queued(parent.task)'
           /\ \A d \in Children : child'[d].task # parent'.task
    <3> SUFFICES ASSUME parent'.pc # "idle"
                 PROVE  /\ parent'.task \in Tasks /\ ~Queued(parent.task)'
                        /\ \A d \in Children : child'[d].task # parent'.task
      OBVIOUS
    <3>1. parent'.task = child[c].task
      BY <1>0, <1>2
    <3>2. ~Queued(child[c].task)
      BY <1>0 DEF CustodyHolds, OneMessage
    <3> QED BY <1>0, <1>4, <3>1, <3>2 DEF Queued, IdleChild
  <2> QED BY <1>0, <2>1, <2>2 DEF CustodyHolds, OneMessage
<1>6. Custody'
  BY <1>0, <1>2 DEF CustodyHolds, Custody, IdleChild
<1>7. Settled'
  <2>1. ASSUME NEW d \in Children, child'[d].pc = "done"
        PROVE  ~IsOpen(child[d].task)'
    <3>1. d # c /\ child'[d] = child[d]
      BY <1>0, <2>1 DEF IdleChild
    <3> QED BY <1>0, <2>1, <3>1 DEF CustodyHolds, Settled, IsOpen
  <2> QED BY <1>0, <1>2, <2>1 DEF Settled
<1>8. Owned'
  <2> SUFFICES ASSUME NEW u \in Tasks, posted'[u] = "accepted", IsOpen(u)'
               PROVE  HasOwner(u)'
    BY DEF Owned
  <2>1. HasOwner(u) /\ IsOpen(u)
    BY <1>1 DEF CustodyHolds, Owned
  <2>2. CASE u = child[c].task
    BY <1>2, <2>1, <2>2 DEF CustodyHolds, Settled, HasOwner
  <2>3. CASE u # child[c].task
    BY <1>0, <1>1, <2>1, <2>3 DEF HasOwner
  <2> QED BY <2>2, <2>3
<1> QED BY <1>5, <1>6, <1>7, <1>8 DEF CustodyHolds

\* The parent takes a task over from a child that runs on.
LEMMA TimeoutKeepsCustody ==
    ASSUME ProvenanceInv, CustodyHolds, NEW c \in Children, HardTimeout(c),
           UNCHANGED <<faults, posted>>
    PROVE  CustodyHolds'
<1>0. /\ parent.pc = "idle" /\ UNCHANGED <<store, orphans, queue>>
      /\ child[c].pc # "idle" /\ child[c].task \in Tasks
      /\ child[c].pc \notin BeforeEngine
      /\ \A d \in Children \ {c} : child'[d] = child[d]
      /\ child'[c].pc = child[c].pc /\ child'[c].task = child[c].task
      /\ parent'.pc = "recLoad" /\ parent'.task = child[c].task /\ parent'.kill = c
  BY DEF HardTimeout, Running, StartHooks, Fault, brokerVars, ProvenanceInv, ConsistencyInv,
         TypeOK, StoreTypeOK, WorkerTypeOK, ChildRecords, CopiesSound, ChildSound
<1>1. \A d \in Children : child'[d].task = child[d].task /\ child'[d].pc = child[d].pc
  BY <1>0
<1>2. OneMessage'
  BY <1>0, <1>1 DEF CustodyHolds, OneMessage, Queued
<1>3. Custody'
  BY <1>0, <1>1 DEF CustodyHolds, Custody
<1>4. Settled'
  BY <1>0, <1>1 DEF CustodyHolds, Settled, IsOpen
<1>5. Owned'
  <2> SUFFICES ASSUME NEW u \in Tasks, posted'[u] = "accepted", IsOpen(u)'
               PROVE  HasOwner(u)'
    BY DEF Owned
  <2>1. HasOwner(u)
    BY <1>0, SameStore DEF CustodyHolds, Owned
  <2> QED BY <1>0, <2>1 DEF HasOwner, Queued
<1> QED BY <1>2, <1>3, <1>4, <1>5 DEF CustodyHolds

\* The hook is over; the child that ran on is replaced.
LEMMA HookEndKeepsCustody ==
    ASSUME ProvenanceInv, CustodyHolds, EndHooks, UNCHANGED posted
    PROVE  CustodyHolds'
<1>0. /\ parent.pc = "kill" /\ parent' = IdleParent
      /\ UNCHANGED <<store, orphans, queue>>
      /\ \A d \in Children : child'[d] = IF d = parent.kill THEN IdleChild ELSE child[d]
      /\ Nil \notin Tasks /\ Nil \notin Children
  BY RecordAssumption, WorkerAssumption
     DEF EndHooks, storeVars, brokerVars, ProvenanceInv, ConsistencyInv, TypeOK, WorkerTypeOK,
         ParentRecords
<1>1. \A d \in Children : child[d].pc # "idle" => child[d].task \in Tasks
  BY DEF ProvenanceInv, ConsistencyInv, CopiesSound, ChildSound
<1>2. OneMessage'
  <2>1. \A d \in Children : child'[d].pc # "idle" =>
           /\ ~Queued(child[d].task)'
           /\ \A e \in Children \ {d} : child'[e].task # child'[d].task
    <3> SUFFICES ASSUME NEW d \in Children, child'[d].pc # "idle"
                 PROVE  /\ ~Queued(child[d].task)'
                        /\ \A e \in Children \ {d} : child'[e].task # child'[d].task
      OBVIOUS
    <3>1. child'[d] = child[d] /\ child[d].task \in Tasks
      BY <1>0, <1>1 DEF IdleChild
    <3>2. ~Queued(child[d].task) /\ \A e \in Children \ {d} : child[e].task # child[d].task
      BY <3>1 DEF CustodyHolds, OneMessage
    <3>3. \A e \in Children : child'[e].task \in {child[e].task, Nil}
      BY <1>0 DEF IdleChild
    <3> QED BY <1>0, <3>1, <3>2, <3>3 DEF Queued
  <2> QED BY <1>0, <2>1 DEF CustodyHolds, OneMessage, IdleParent
<1>3. Custody'
  BY <1>0 DEF CustodyHolds, Custody, IdleChild, IdleParent
<1>4. Settled'
  BY <1>0 DEF CustodyHolds, Settled, IsOpen, IdleChild, IdleParent
<1>5. Owned'
  <2> SUFFICES ASSUME NEW u \in Tasks, posted'[u] = "accepted", IsOpen(u)'
               PROVE  HasOwner(u)'
    BY DEF Owned
  <2>1. HasOwner(u) /\ IsOpen(u)
    BY <1>0, SameStore DEF CustodyHolds, Owned
  <2>2. parent.task # u
    BY <1>0, <2>1 DEF CustodyHolds, Settled
  <2>3. \A d \in Children : child[d].task = u => d # parent.kill
    BY <1>0, <2>2 DEF CustodyHolds, Custody
  <2> QED BY <1>0, <2>1, <2>2, <2>3 DEF HasOwner, Queued
<1> QED BY <1>2, <1>3, <1>4, <1>5 DEF CustodyHolds

\* The message of a new task is the only one of that task.
LEMMA PublishKeepsCustody ==
    ASSUME ProvenanceInv, CustodyHolds, NEW w \in Threads, Publish(w), UNCHANGED workerVars
    PROVE  CustodyHolds'
<1>0. PICK t \in Tasks :
         /\ web[w].task = t /\ ~Handed(t)
         /\ queue' = Append(queue, t)
         /\ posted' = [posted EXCEPT ![t] = "accepted"]
  BY DEF Publish, At, Enqueue, Respond, ProvenanceInv, ConsistencyInv, CopiesSound, ThreadSound,
         FreshIds, PostIsPrivate, Posting
<1>1. /\ queue \in Seq(Tasks) /\ UNCHANGED <<store, orphans, child, parent>>
      /\ posted \in [Tasks -> Answers]
  BY DEF Publish, storeVars, workerVars, ProvenanceInv, ConsistencyInv, TypeOK, BrokerTypeOK,
         WebTypeOK
<1>2. /\ Len(queue') = Len(queue) + 1 /\ Len(queue) \in Nat
      /\ \A i \in 1..Len(queue) : queue'[i] = queue[i]
      /\ queue'[Len(queue) + 1] = t
  BY <1>0, <1>1
<1>3. \A u : Queued(u)' <=> Queued(u) \/ u = t
  <2>1. 1..Len(queue') = 1..Len(queue) \cup {Len(queue) + 1}
    BY <1>2
  <2> QED BY <1>2, <2>1 DEF Queued
<1>4. /\ \A i \in 1..Len(queue) : queue[i] # t
      /\ \A c \in Children : child[c].task # t
      /\ parent.task # t
  BY <1>0 DEF Handed, Queued
<1>5. OneMessage'
  <2>1. \A i, j \in 1..Len(queue') : i # j => queue'[i] # queue'[j]
    <3> TAKE i, j \in 1..Len(queue')
    <3>1. /\ i \in 1..Len(queue) \/ i = Len(queue) + 1
          /\ j \in 1..Len(queue) \/ j = Len(queue) + 1
      BY <1>2
    <3> QED BY <1>2, <1>4, <3>1 DEF CustodyHolds, OneMessage
  <2>2. \A c \in Children : child[c].pc # "idle" => ~Queued(child[c].task)'
    BY <1>1, <1>3, <1>4 DEF CustodyHolds, OneMessage
  <2>3. parent.pc # "idle" => ~Queued(parent.task)'
    BY <1>1, <1>3, <1>4 DEF CustodyHolds, OneMessage
  <2> QED BY <1>1, <2>1, <2>2, <2>3 DEF CustodyHolds, OneMessage
<1>6. Custody' /\ Settled'
  BY <1>1 DEF CustodyHolds, Custody, Settled, IsOpen
<1>7. Owned'
  <2> SUFFICES ASSUME NEW u \in Tasks, posted'[u] = "accepted", IsOpen(u)'
               PROVE  HasOwner(u)'
    BY DEF Owned
  <2>1. CASE u = t
    BY <1>3, <2>1 DEF HasOwner
  <2>2. CASE u # t
    <3>1. HasOwner(u)
      BY <1>0, <1>1, <2>2, SameStore DEF CustodyHolds, Owned
    <3> QED BY <1>1, <1>3, <3>1 DEF HasOwner
  <2> QED BY <2>1, <2>2
<1> QED BY <1>5, <1>6, <1>7 DEF CustodyHolds

\* A step that is charged to the environment, and one that is not.
LEMMA FaultsCount ==
    ASSUME TypeOK, faults' = 0
    PROVE  ~Fault
BY DEF TypeOK, StoreTypeOK, Fault

LEMMA NextCustody ==
    ASSUME ProvenanceInv, CustodyInv, [Next]_vars
    PROVE  CustodyInv'
<1> SUFFICES ASSUME faults' = 0 PROVE CustodyHolds'
  BY DEF CustodyInv, CustodyHolds
<1>0. /\ StepEffect /\ ~Fault
  BY NextProvenance, FaultsCount DEF ProvenanceInv, ConsistencyInv
<1>1. CASE WebNext /\ UNCHANGED workerVars
  <2>1. faults = 0
    BY <1>0, <1>1 DEF WebNext, ThreadStep, ThreadFault, CheckQueue, Poll, TakeCooldown, Create,
       Publish, MarkRead, MarkWrite, StaleRead, StaleWrite, CooldownFails, CreateFails,
       PublishTwice, PublishFails, WebUpdateFails, ExpireCooldown, WebCrash, storeVars
  <2>2. CustodyHolds
    BY <2>1 DEF CustodyInv, CustodyHolds
  <2>3. CASE \E w \in Threads : Publish(w)
    BY <1>1, <2>2, <2>3, PublishKeepsCustody
  <2>4. CASE ~\E w \in Threads : Publish(w)
    <3>1. /\ UNCHANGED brokerVars
          /\ \A t \in Tasks : posted'[t] = "accepted" => posted[t] = "accepted"
      BY <1>0, <1>1, <2>4
         DEF WebNext, ThreadStep, ThreadFault, CheckQueue, Poll, TakeCooldown, Create,
             MarkRead, MarkWrite, StaleRead, StaleWrite, CooldownFails, CreateFails,
             PublishTwice, PublishFails, WebUpdateFails, WebUpdateRead, ExpireCooldown, WebCrash,
             Respond, brokerVars, ProvenanceInv, ConsistencyInv, TypeOK, WebTypeOK
    <3> QED BY <1>0, <1>1, <2>2, <3>1, NothingHandedOn DEF workerVars
  <2> QED BY <2>3, <2>4
<1>2. CASE WorkerNext /\ UNCHANGED webVars
  <2>1. PICK c \in Children :
           \/ ChildStep(c) \/ SolveFails(c)
           \/ Deliver(c)
           \/ ReportSuccess(c) \/ ReportFailure(c) \/ ChildLost(c)
           \/ HardTimeout(c) /\ UNCHANGED faults
           \/ ParentRecord \/ EndHooks
    BY <1>0, <1>2, WorkerAssumption
       DEF WorkerNext, Report, ParentStep, ChildFault, ParentFault, Redeliver, WorkerCrash,
           HardTimeout
  <2>2. UNCHANGED posted /\ faults = 0
    BY <1>2, <2>1, ChildStepGoesOn, HookStepGoesOn
       DEF webVars, Deliver, ReportSuccess, ReportFailure, ChildLost, EndHooks, storeVars,
           ProvenanceInv
  <2>3. CustodyHolds
    BY <2>2 DEF CustodyInv, CustodyHolds
  <2>4. CASE ChildStep(c) \/ SolveFails(c)
    BY <1>0, <2>2, <2>3, <2>4, ChildStepGoesOn, ChildKeepsCustody DEF ProvenanceInv
  <2> QED
    BY <1>0, <2>1, <2>2, <2>3, <2>4, DeliverKeepsCustody, ReportKeepsCustody,
       TimeoutKeepsCustody, HookKeepsCustody, HookEndKeepsCustody
<1>3. CASE RestoreOrphans
  <2>1. faults = 0
    BY <1>3 DEF RestoreOrphans, RestoreOrphan, storeVars
  <2> QED BY <1>3, <2>1 DEF RestoreOrphans, RestoreOrphan, CustodyInv, OneMessage
<1>4. CASE TimePasses \/ UNCHANGED vars
  <2>1. faults = 0 /\ UNCHANGED <<brokerVars, child, parent, posted>>
    BY <1>4 DEF TimePasses, Tick, vars, storeVars, webVars, workerVars
  <2> QED BY <1>0, <2>1, NothingHandedOn DEF CustodyInv, CustodyHolds
<1> QED BY <1>1, <1>2, <1>3, <1>4 DEF Next

\* While nothing has gone wrong, an accepted task that is not settled is
\* somebody's job (CELERY_TASK_ACKS_LATE and the two hooks).
THEOREM AcceptedIsOwned == Spec => []AcceptedHasOwner
<1>1. Init => CustodyInv
  <2> SUFFICES ASSUME Init PROVE CustodyHolds
    BY DEF CustodyInv, CustodyHolds
  <2>1. /\ queue = <<>> /\ orphans = [t \in Tasks |-> 0]
        /\ child = [c \in Children |-> IdleChild] /\ parent = IdleParent
        /\ store = [t \in Tasks |-> Nil]
    BY DEF Init, BrokerInit, StoreInit, WorkerInit
  <2>2. OneMessage /\ Custody /\ Settled
    BY <2>1 DEF OneMessage, Custody, Settled, IdleChild, IdleParent
  <2>3. Owned
    BY <2>1 DEF Owned, IsOpen
  <2> QED BY <2>2, <2>3 DEF CustodyHolds
<1>2. ProvenanceInv /\ CustodyInv /\ [Next]_vars => CustodyInv'
  BY NextCustody
<1>3. CustodyInv => AcceptedHasOwner
  BY DEF CustodyInv, Owned, AcceptedHasOwner
<1> QED BY <1>1, <1>2, <1>3, ProvenanceInvariant, PTL DEF Spec

-----------------------------------------------------------------------------

(***************************************************************************)
(* The length of the queue                                                 *)
(***************************************************************************)

\* The sizes that count.
LEMMA Sizes ==
    ASSUME TypeOK
    PROVE  /\ Cardinality(Threads) \in Nat
           /\ Cardinality(Children) \in Nat \ {0}
           /\ IsFiniteSet(Publishing)
           /\ Cardinality(Publishing) \in Nat
           /\ Cardinality(Publishing) <= Cardinality(Threads)
           /\ Len(queue) \in Nat /\ faults \in Nat
<1>1. Publishing \in SUBSET Threads
  BY DEF Publishing
<1>2. IsFiniteSet(Publishing) /\ Cardinality(Publishing) <= Cardinality(Threads)
  BY <1>1, WebAssumption, FS_Subset
<1>3. /\ Cardinality(Threads) \in Nat /\ Cardinality(Children) \in Nat
      /\ Cardinality(Publishing) \in Nat
  BY <1>2, WebAssumption, WorkerAssumption, FS_CardinalityType
<1>4. Cardinality(Children) # 0
  BY WorkerAssumption, FS_EmptySet
<1>5. Len(queue) \in Nat /\ faults \in Nat
  BY DEF TypeOK, BrokerTypeOK, StoreTypeOK
<1> QED BY <1>2, <1>3, <1>4, <1>5

\* The backlog stays within the allowance if it grows only when a mishap is
\* charged, and then by no more than the children.
LEMMA BacklogAllowed ==
    ASSUME TypeOK, TypeOK', BacklogInv, IsFiniteSet(Lost'),
           \/ /\ faults' = faults
              /\ Cardinality(Lost') <= Cardinality(Lost)
              /\ Backlog' <= Backlog
           \/ /\ faults' = faults + 1
              /\ Cardinality(Lost') <= Cardinality(Lost) + Cardinality(Children)
              /\ Backlog' <= Backlog + Cardinality(Children)
    PROVE  BacklogInv'
<1> DEFINE K == Cardinality(Children)
           T == Cardinality(Threads)
<1>0. K \in Nat /\ T \in Nat /\ faults \in Nat /\ faults' \in Nat /\ QueueLimit \in Nat
  BY Sizes, WebAssumption DEF TypeOK, StoreTypeOK
<1>1. Cardinality(Lost) \in Nat /\ Cardinality(Lost') \in Nat
  BY FS_CardinalityType DEF BacklogInv
<1>2. Backlog \in Nat /\ Backlog' \in Nat
  <2>1. Cardinality(Publishing) \in Nat /\ Len(queue) \in Nat
    BY Sizes
  <2>2. Cardinality(Publishing') \in Nat /\ Len(queue') \in Nat
    <3>1. Publishing' \in SUBSET Threads
      BY DEF Publishing
    <3>2. IsFiniteSet(Publishing')
      BY <3>1, WebAssumption, FS_Subset
    <3> QED BY <3>2, FS_CardinalityType DEF TypeOK, BrokerTypeOK
  <2> QED BY <1>1, <2>1, <2>2 DEF Backlog
<1> HIDE DEF K, T
<1>3. (faults + 1) * K = faults * K + K /\ faults * K \in Nat
  BY <1>0
<1>4. /\ Cardinality(Lost) <= faults * K
      /\ QueueLimit # 0 => Backlog <= QueueLimit + (T - 1) + faults * K
  BY DEF BacklogInv, Allowance, K, T
<1>5. /\ Cardinality(Lost') <= faults' * K
      /\ QueueLimit # 0 => Backlog' <= QueueLimit + (T - 1) + faults' * K
  <2>1. CASE faults' = faults
    BY <1>0, <1>1, <1>2, <1>3, <1>4, <2>1 DEF K
  <2>2. CASE faults' = faults + 1
    BY <1>0, <1>1, <1>2, <1>3, <1>4, <2>2 DEF K
  <2> QED BY <2>1, <2>2
<1> QED BY <1>5 DEF BacklogInv, Allowance, K, T

\* The deliveries of a worker that dies are as many as its children at most.
LEMMA CrashLoses ==
    ASSUME TypeOK, IsFiniteSet(Lost), WorkerCrash
    PROVE  /\ IsFiniteSet(Lost')
           /\ Cardinality(Lost') <= Cardinality(Lost) + Cardinality(Children)
<1> DEFINE H(t) == {c \in Children : child[c].held /\ child[c].task = t}
           New == {e \in Tasks \X Nat :
                      e[2] \in (orphans[e[1]] + 1)..(orphans[e[1]] + Cardinality(H(e[1])))}
           F == [t \in Tasks |-> CHOOSE f : f \in Bijection(1..Cardinality(H(t)), H(t))]
           G == [e \in New |-> F[e[1]][e[2] - orphans[e[1]]]]
<1>1. ASSUME NEW t \in Tasks
      PROVE  /\ Cardinality(H(t)) \in Nat
             /\ F[t] \in Bijection(1..Cardinality(H(t)), H(t))
             /\ orphans[t] \in Nat
             /\ orphans'[t] = orphans[t] + Cardinality(H(t))
  <2>1. IsFiniteSet(H(t))
    BY WorkerAssumption, FS_Subset
  <2>2. Cardinality(H(t)) \in Nat /\ ExistsBijection(1..Cardinality(H(t)), H(t))
    BY <2>1, FS_CardinalityType
  <2>3. F[t] = CHOOSE f : f \in Bijection(1..Cardinality(H(t)), H(t))
    OBVIOUS
  <2>4. F[t] \in Bijection(1..Cardinality(H(t)), H(t))
    <3> HIDE DEF H, F
    <3> QED BY <2>2, <2>3 DEF ExistsBijection
  <2> QED BY <2>2, <2>4 DEF WorkerCrash, TypeOK, BrokerTypeOK
<1>2. Lost' = Lost \cup New
  <2> SUFFICES ASSUME NEW t \in Tasks, NEW i \in Nat
               PROVE  <<t, i>> \in Lost' <=> <<t, i>> \in Lost \cup New
    BY DEF Lost
  <2> HIDE DEF H, F, G
  <2> QED BY <1>1 DEF Lost
<1>3. G \in Injection(New, Children)
  <2>1. ASSUME NEW e \in New
        PROVE  /\ e[1] \in Tasks
               /\ e[2] - orphans[e[1]] \in 1..Cardinality(H(e[1]))
               /\ e = <<e[1], e[2]>> /\ e[2] \in Nat
    <3>1. PICK t \in Tasks, i \in Nat : e = <<t, i>>
      BY <2>1
    <3> HIDE DEF H, F, G
    <3> QED BY <1>1, <2>1, <3>1
  <2>2. ASSUME NEW e \in New
        PROVE  G[e] \in H(e[1]) /\ G[e] = F[e[1]][e[2] - orphans[e[1]]]
    <3>1. G[e] = F[e[1]][e[2] - orphans[e[1]]]
      BY <2>2
    <3> HIDE DEF H, F, G, New
    <3> QED BY <1>1, <2>1, <2>2, <3>1 DEF Bijection, Injection, Surjection
  <2>3. ASSUME NEW e \in New, NEW d \in New, G[e] = G[d]
        PROVE  e = d
    <3>1. e[1] = d[1]
      <4>1. G[e] \in H(e[1]) /\ G[e] \in H(d[1])
        BY <2>2, <2>3
      <4> QED BY <4>1
    <3> HIDE DEF H, F, G, New
    <3>2. e[2] - orphans[e[1]] = d[2] - orphans[e[1]]
      BY <1>1, <2>1, <2>2, <2>3, <3>1 DEF Bijection, Injection, IsInjective
    <3>3. e[2] = d[2]
      BY <1>1, <2>1, <2>3, <3>1, <3>2
    <3> QED BY <2>1, <2>3, <3>1, <3>3
  <2>4. \A e \in New : G[e] \in Children
    BY <2>2
  <2>5. G \in [New -> Children]
    BY <2>4
  <2>6. DOMAIN G = New
    OBVIOUS
  <2> HIDE DEF H, F, G, New
  <2> QED BY <2>3, <2>5, <2>6 DEF Injection, IsInjective
<1> HIDE DEF H, F, G, New
<1>4. IsFiniteSet(New) /\ Cardinality(New) <= Cardinality(Children)
  BY <1>3, WorkerAssumption, FS_Injection
<1>5. /\ IsFiniteSet(Lost \cup New)
      /\ Cardinality(Lost \cup New)
           = Cardinality(Lost) + Cardinality(New) - Cardinality(Lost \cap New)
  BY <1>4, FS_Union
<1>6. IsFiniteSet(Lost \cap New)
  BY FS_Intersection
<1>7. /\ Cardinality(Lost) \in Nat /\ Cardinality(New) \in Nat
      /\ Cardinality(Lost \cap New) \in Nat /\ Cardinality(Children) \in Nat
  BY <1>4, <1>6, WorkerAssumption, FS_CardinalityType
<1> QED BY <1>2, <1>4, <1>5, <1>7


\* A step that leaves the lost deliveries alone, and adds messages only at the
\* cost of a thread that was to publish one or of a mishap.
LEMMA NothingLost ==
    ASSUME TypeOK, TypeOK', BacklogInv, UNCHANGED orphans,
           faults' \in {faults, faults + 1},
           Len(queue') + Cardinality(Publishing')
             <= Len(queue) + Cardinality(Publishing) + (faults' - faults)
    PROVE  BacklogInv'
<1>1. Lost' = Lost
  BY DEF Lost
<1>2. /\ Cardinality(Publishing) \in Nat /\ Len(queue) \in Nat /\ faults \in Nat
      /\ Cardinality(Children) \in Nat \ {0}
  BY Sizes
<1>3. Cardinality(Publishing') \in Nat /\ Len(queue') \in Nat
  <2>1. Publishing' \in SUBSET Threads
    BY DEF Publishing
  <2>2. IsFiniteSet(Publishing')
    BY <2>1, WebAssumption, FS_Subset
  <2> QED BY <2>2, FS_CardinalityType DEF TypeOK, BrokerTypeOK
<1>4. IsFiniteSet(Lost) /\ Cardinality(Lost) \in Nat
  BY FS_CardinalityType DEF BacklogInv
<1>5. Backlog' <= Backlog + (faults' - faults)
  <2>1. Backlog' = Len(queue') + Cardinality(Publishing') + Cardinality(Lost)
    BY <1>1 DEF Backlog
  <2> QED BY <1>2, <1>3, <1>4, <2>1 DEF Backlog
<1>6. Backlog \in Nat /\ Backlog' \in Nat
  BY <1>1, <1>2, <1>3, <1>4 DEF Backlog
<1>7. \/ faults' = faults /\ Backlog' <= Backlog
      \/ faults' = faults + 1 /\ Backlog' <= Backlog + Cardinality(Children)
  <2>1. CASE faults' = faults
    <3>1. faults' - faults = 0
      BY <1>2, <2>1
    <3> QED BY <1>5, <1>6, <2>1, <3>1
  <2>2. CASE faults' = faults + 1
    <3>1. faults' - faults = 1
      BY <1>2, <2>2
    <3> QED BY <1>2, <1>5, <1>6, <2>2, <3>1
  <2> QED BY <2>1, <2>2
<1>8. /\ Cardinality(Lost') <= Cardinality(Lost)
      /\ Cardinality(Lost') <= Cardinality(Lost) + Cardinality(Children)
  BY <1>1, <1>2, <1>4
<1> QED BY <1>1, <1>4, <1>7, <1>8, BacklogAllowed

\* A step that adds no message and lets no thread pass the test.
LEMMA NothingAdded ==
    ASSUME TypeOK, TypeOK', BacklogInv, UNCHANGED orphans,
           faults' \in {faults, faults + 1},
           Len(queue') <= Len(queue),
           \A w \in Threads : Posting(w)' => Posting(w)
    PROVE  BacklogInv'
<1>1. Publishing' \in SUBSET Publishing
  BY DEF Publishing
<1>2. /\ Cardinality(Publishing') <= Cardinality(Publishing)
      /\ Cardinality(Publishing') \in Nat
  BY <1>1, Sizes, FS_Subset, FS_CardinalityType
<1>3. Len(queue) \in Nat /\ Len(queue') \in Nat /\ Cardinality(Publishing) \in Nat
      /\ faults \in Nat
  BY Sizes DEF TypeOK, BrokerTypeOK
<1> QED BY <1>2, <1>3, NothingLost

\* The message that a thread publishes was counted when it passed the test.
LEMMA PublishedWasCounted ==
    ASSUME TypeOK, TypeOK', BacklogInv, UNCHANGED orphans,
           NEW w \in Threads, Posting(w), ~Posting(w)',
           \A x \in Threads \ {w} : web'[x] = web[x],
           faults' \in {faults, faults + 1},
           Len(queue') <= Len(queue) + 1 + (faults' - faults)
    PROVE  BacklogInv'
<1>1. Publishing' = Publishing \ {w} /\ w \in Publishing
  BY DEF Publishing, Posting
<1>2. Cardinality(Publishing') = Cardinality(Publishing) - 1
  BY <1>1, Sizes, FS_RemoveElement
<1>3. Len(queue) \in Nat /\ Len(queue') \in Nat /\ Cardinality(Publishing) \in Nat
      /\ faults \in Nat
  BY Sizes DEF TypeOK, BrokerTypeOK
<1> QED BY <1>2, <1>3, NothingLost

\* The test itself: check_capacity found room, whoever else is on the way.
LEMMA RoomForOne ==
    ASSUME TypeOK, TypeOK', BacklogInv, UNCHANGED <<brokerVars, faults>>, HasRoom
    PROVE  BacklogInv'
<1>1. Lost' = Lost /\ queue' = queue
  BY DEF Lost, brokerVars
<1>2. Publishing' \in SUBSET Threads
  BY DEF Publishing
<1>3. /\ Cardinality(Publishing') <= Cardinality(Threads)
      /\ Cardinality(Publishing') \in Nat
  BY <1>2, WebAssumption, FS_Subset, FS_CardinalityType
<1>4. /\ Cardinality(Threads) \in Nat /\ Cardinality(Children) \in Nat
      /\ Len(queue) \in Nat /\ faults \in Nat /\ QueueLimit \in Nat
  BY Sizes, WebAssumption
<1>5. Cardinality(Lost) \in Nat
  BY FS_CardinalityType DEF BacklogInv
<1> DEFINE FK == faults * Cardinality(Children)
<1>6. FK \in Nat /\ Cardinality(Lost) <= FK
  BY <1>4 DEF BacklogInv
<1>7. Backlog' = Len(queue) + Cardinality(Publishing') + Cardinality(Lost)
  BY <1>1 DEF Backlog
<1>8. Allowance' = QueueLimit + (Cardinality(Threads) - 1) + FK
  BY DEF Allowance
<1> HIDE DEF FK
<1>9. QueueLimit # 0 => Backlog' <= Allowance'
  BY <1>3, <1>4, <1>5, <1>6, <1>7, <1>8 DEF HasRoom
<1>10. IsFiniteSet(Lost') /\ Cardinality(Lost') <= faults' * Cardinality(Children)
  BY <1>1, <1>6 DEF FK, BacklogInv
<1> QED BY <1>9, <1>10 DEF BacklogInv

LEMMA WebBacklog ==
    ASSUME TypeOK, TypeOK', BacklogInv, WebNext
    PROVE  BacklogInv'
<1>0. WebTypeOK /\ faults \in Nat /\ Len(queue) \in Nat /\ queue \in Seq(Tasks)
  BY Sizes DEF TypeOK, BrokerTypeOK
<1>1. faults' \in {faults, faults + 1} /\ UNCHANGED orphans
  BY DEF WebNext, ThreadStep, ThreadFault, CheckQueue, Poll, TakeCooldown, Create,
     Publish, MarkRead, MarkWrite, StaleRead, StaleWrite, CooldownFails, CreateFails,
     PublishTwice, PublishFails, WebUpdateFails, ExpireCooldown, WebCrash, Fault,
     storeVars, brokerVars
<1>2. CASE \E w \in Threads, t \in Tasks : CheckQueue(w, t)
  <2>1. UNCHANGED <<brokerVars, faults>> /\ HasRoom
    BY <1>2 DEF CheckQueue, storeVars
  <2> QED BY <2>1, RoomForOne
<1>3. CASE \E w \in Threads, t \in Tasks : Poll(w, t)
  <2>1. /\ UNCHANGED queue
        /\ \A x \in Threads : Posting(x)' => Posting(x)
    BY <1>0, <1>3 DEF Poll, Posting, brokerVars, WebTypeOK
  <2> QED BY <1>0, <1>1, <2>1, NothingAdded
<1>4. ASSUME NEW w \in Threads, Publish(w) \/ PublishTwice(w) \/ PublishFails(w)
      PROVE  BacklogInv'
  <2>1. /\ Posting(w) /\ ~Posting(w)'
        /\ \A x \in Threads \ {w} : web'[x] = web[x]
    BY <1>0, <1>4 DEF Publish, PublishTwice, PublishFails, Respond, WebFree, WebGoto, At,
       IdleThread, Posting, WebTypeOK
  <2>2. web[w].task \in Tasks \cup {Nil}
    BY <1>0 DEF WebTypeOK
  <2>3. ASSUME NEW t
        PROVE  /\ Len(Append(queue, t)) = Len(queue) + 1
               /\ Len(queue \o <<t, t>>) = Len(queue) + 2
    BY <1>0
  <2>4. Len(queue') <= Len(queue) + 1 + (faults' - faults)
    <3>1. CASE Publish(w)
      <4>1. faults' - faults = 0
        BY <1>0, <3>1 DEF Publish, storeVars
      <4> QED BY <1>0, <2>3, <3>1, <4>1 DEF Publish, Enqueue
    <3>2. CASE PublishTwice(w)
      <4>1. faults' - faults = 1
        BY <1>0, <3>2 DEF PublishTwice, Fault
      <4> QED BY <1>0, <2>3, <3>2, <4>1 DEF PublishTwice
    <3>3. CASE PublishFails(w)
      <4>1. faults' - faults = 1
        BY <1>0, <3>3 DEF PublishFails, Fault
      <4> QED BY <1>0, <2>3, <3>3, <4>1 DEF PublishFails, Enqueue
    <3> QED BY <1>4, <3>1, <3>2, <3>3
  <2> QED BY <1>1, <2>1, <2>4, PublishedWasCounted
<1>5. ASSUME NEW w \in Threads,
             \/ TakeCooldown(w) \/ Create(w) \/ MarkRead(w) \/ MarkWrite(w)
             \/ StaleRead(w) \/ StaleWrite(w)
             \/ CooldownFails(w) \/ CreateFails(w) \/ WebUpdateFails(w)
      PROVE  BacklogInv'
  <2>1. UNCHANGED queue
    BY <1>5 DEF TakeCooldown, Create, MarkRead, MarkWrite, StaleRead, StaleWrite,
       CooldownFails, CreateFails, WebUpdateFails, brokerVars
  <2>2. ASSUME NEW x \in Threads, Posting(x)'
        PROVE  Posting(x)
    <3>1. CASE TakeCooldown(w) \/ Create(w)
      BY <1>0, <2>2, <3>1 DEF TakeCooldown, Create, Respond, WebFree, WebGoto, At,
         IdleThread, Posting, WebTypeOK
    <3>2. ASSUME ~(TakeCooldown(w) \/ Create(w))
          PROVE  \/ web' = [web EXCEPT ![w] = IdleThread]
                 \/ \E pc \in {"markWrite", "staleWrite"} : \E r :
                       web' = [web EXCEPT ![w].pc = pc, ![w].snap = r]
      <4>1. CASE MarkRead(w) \/ StaleRead(w)
        BY <4>1 DEF MarkRead, StaleRead, WebUpdateRead, Respond, WebFree
      <4>2. CASE MarkWrite(w) \/ StaleWrite(w)
        BY <4>2 DEF MarkWrite, StaleWrite, Respond, WebFree
      <4>3. CASE CooldownFails(w) \/ CreateFails(w)
        BY <4>3 DEF CooldownFails, CreateFails, Respond, WebFree
      <4>4. CASE WebUpdateFails(w)
        BY <4>4 DEF WebUpdateFails, Respond, WebFree
      <4> QED BY <1>5, <3>2, <4>1, <4>2, <4>3, <4>4
    <3>3. ASSUME ~(TakeCooldown(w) \/ Create(w))
          PROVE  Posting(x)
      BY <1>0, <2>2, <3>2, <3>3 DEF IdleThread, Posting, WebTypeOK
    <3> QED BY <3>1, <3>3
  <2> QED BY <1>0, <1>1, <2>1, <2>2, NothingAdded
<1>6. CASE ExpireCooldown \/ WebCrash
  <2>1. /\ UNCHANGED queue
        /\ \A x \in Threads : Posting(x)' => Posting(x)
    BY <1>6 DEF ExpireCooldown, WebCrash, Posting, brokerVars, IdleThread
  <2> QED BY <1>0, <1>1, <2>1, NothingAdded
<1> QED BY <1>2, <1>3, <1>4, <1>5, <1>6 DEF WebNext, ThreadStep, ThreadFault

LEMMA WorkerBacklog ==
    ASSUME TypeOK, TypeOK', BacklogInv, WorkerNext, UNCHANGED webVars
    PROVE  BacklogInv'
<1>0. /\ WorkerTypeOK /\ faults \in Nat /\ Len(queue) \in Nat /\ queue \in Seq(Tasks)
      /\ Cardinality(Publishing) \in Nat
  BY Sizes DEF TypeOK, BrokerTypeOK
<1>1. Publishing' = Publishing /\ \A x \in Threads : Posting(x)' => Posting(x)
  BY DEF Publishing, Posting, webVars
<1>2. ASSUME NEW c \in Children, Deliver(c)
      PROVE  BacklogInv'
  <2>1. UNCHANGED <<orphans, faults>> /\ queue # <<>> /\ queue' = Tail(queue)
    BY <1>2 DEF Deliver, storeVars
  <2>2. Len(queue') <= Len(queue)
    BY <1>0, <2>1, HeadTailProperties
  <2> QED BY <1>1, <2>1, <2>2, NothingAdded
<1>3. ASSUME NEW c \in Children, Redeliver(c)
      PROVE  BacklogInv'
  <2>1. /\ UNCHANGED orphans /\ faults' = faults + 1
        /\ queue' = <<child[c].task>> \o queue
    BY <1>3 DEF Redeliver, Fault, PutBack
  <2>2. Len(queue') = Len(queue) + 1
    BY <1>0, <2>1
  <2>3. faults' - faults = 1
    BY <1>0, <2>1
  <2>4. Len(queue') + Cardinality(Publishing')
          <= Len(queue) + Cardinality(Publishing) + (faults' - faults)
    BY <1>0, <1>1, <2>2, <2>3
  <2> QED BY <2>1, <2>4, NothingLost
<1>4. CASE WorkerCrash
  <2>1. IsFiniteSet(Lost) /\ Cardinality(Lost) \in Nat
    BY FS_CardinalityType DEF BacklogInv
  <2>2. /\ IsFiniteSet(Lost')
        /\ Cardinality(Lost') <= Cardinality(Lost) + Cardinality(Children)
    BY <1>4, <2>1, CrashLoses
  <2>3. Cardinality(Lost') \in Nat /\ Cardinality(Children) \in Nat
    BY <2>2, Sizes, FS_CardinalityType
  <2>4. faults' = faults + 1 /\ queue' = queue
    BY <1>4 DEF WorkerCrash, Fault
  <2>5. Backlog' = Len(queue) + Cardinality(Publishing) + Cardinality(Lost')
    BY <1>1, <2>4 DEF Backlog
  <2>6. Backlog' <= Backlog + Cardinality(Children)
    BY <1>0, <2>1, <2>2, <2>3, <2>5 DEF Backlog
  <2> QED BY <2>2, <2>4, <2>6, BacklogAllowed
<1>5. ASSUME NEW c \in Children,
             \/ ChildStep(c) \/ SolveFails(c) \/ ChildFault(c) \/ Report(c)
             \/ ChildLost(c) \/ HardTimeout(c)
      PROVE  BacklogInv'
  <2>1. UNCHANGED brokerVars /\ faults' \in {faults, faults + 1}
    BY <1>5 DEF ChildStep, LoadTask, ReadForUpdate, WriteUpdate, Solve, RecordFailure,
       SolveFails, ChildFault, Report, ReportSuccess, ReportFailure, ChildLost, HardTimeout,
       Fault, storeVars
  <2> QED BY <1>0, <1>1, <2>1, NothingAdded DEF brokerVars
<1>6. CASE ParentStep \/ ParentFault
  <2>1. UNCHANGED brokerVars /\ faults' \in {faults, faults + 1}
    BY <1>6 DEF ParentStep, ParentRecord, EndHooks, ParentFault, Fault, storeVars
  <2> QED BY <1>0, <1>1, <2>1, NothingAdded DEF brokerVars
<1> QED BY <1>2, <1>3, <1>4, <1>5, <1>6 DEF WorkerNext

\* The visibility timeout turns a lost delivery into a message.
LEMMA RestoreBacklog ==
    ASSUME TypeOK, TypeOK', BacklogInv, RestoreOrphans
    PROVE  BacklogInv'
<1>1. PICK t \in Tasks : RestoreOrphan(t)
  BY DEF RestoreOrphans
<1>2. /\ orphans \in [Tasks -> Nat] /\ orphans[t] \in Nat /\ orphans[t] > 0
      /\ orphans' = [orphans EXCEPT ![t] = orphans[t] - 1]
      /\ queue \in Seq(Tasks) /\ queue' = <<t>> \o queue
      /\ faults' = faults /\ UNCHANGED webVars
  BY <1>1 DEF RestoreOrphan, RestoreOrphans, PutBack, storeVars, TypeOK, BrokerTypeOK
<1> DEFINE gone == <<t, orphans[t]>>
<1>3. gone \in Lost /\ Lost' = Lost \ {gone}
  <2>1. gone \in Lost
    BY <1>2 DEF Lost
  <2>2. ASSUME NEW u \in Tasks, NEW i \in Nat
        PROVE  <<u, i>> \in Lost' <=> <<u, i>> \in Lost \ {gone}
    <3>1. CASE u = t
      <4>1. orphans'[u] = orphans[t] - 1
        BY <1>2, <3>1
      <4> QED BY <1>2, <3>1, <4>1 DEF Lost
    <3>2. CASE u # t
      <4>1. orphans'[u] = orphans[u]
        BY <1>2, <3>2
      <4> QED BY <3>2, <4>1 DEF Lost
    <3> QED BY <3>1, <3>2
  <2> QED BY <2>1, <2>2 DEF Lost
<1> HIDE DEF gone
<1>4. /\ IsFiniteSet(Lost) /\ Cardinality(Lost) \in Nat
      /\ IsFiniteSet(Lost') /\ Cardinality(Lost') = Cardinality(Lost) - 1
  BY <1>3, FS_RemoveElement, FS_CardinalityType DEF BacklogInv
<1>5. Len(queue) \in Nat /\ Cardinality(Publishing) \in Nat
  BY Sizes
<1>6. Len(queue') = Len(queue) + 1 /\ Publishing' = Publishing
  BY <1>2 DEF Publishing, Posting, webVars
<1>7. Backlog' <= Backlog
  <2>1. Backlog' = Len(queue') + Cardinality(Publishing) + Cardinality(Lost')
    BY <1>6 DEF Backlog
  <2> QED BY <1>4, <1>5, <1>6, <2>1 DEF Backlog
<1>8. Cardinality(Lost') <= Cardinality(Lost)
  BY <1>4
<1> QED BY <1>2, <1>4, <1>7, <1>8, BacklogAllowed

LEMMA NextBacklog ==
    ASSUME TypeOK, TypeOK', BacklogInv, [Next]_vars
    PROVE  BacklogInv'
<1>1. CASE TimePasses \/ UNCHANGED vars
  <2>1. UNCHANGED <<brokerVars, webVars, faults>>
    BY <1>1 DEF TimePasses, Tick, vars, storeVars
  <2>2. /\ Len(queue') <= Len(queue)
        /\ \A w \in Threads : Posting(w)' => Posting(w)
    BY <2>1, Sizes DEF brokerVars, webVars, Posting
  <2> QED BY <2>1, <2>2, NothingAdded DEF brokerVars
<1> QED BY <1>1, WebBacklog, WorkerBacklog, RestoreBacklog DEF Next

\* The queue passes its limit by the other threads and by one delivery per
\* child and mishap at the most: check_capacity measures long before delay()
\* publishes (admission.py, views.py), and put-back messages are not measured.
THEOREM QueueIsBounded == Spec => []QueueBound
<1>1. Init => BacklogInv
  <2> SUFFICES ASSUME Init PROVE BacklogInv
    OBVIOUS
  <2>1. Lost = {} /\ Publishing = {} /\ Len(queue) = 0 /\ faults = 0
    BY DEF Init, BrokerInit, WebInit, StoreInit, IdleThread, Lost, Publishing, Posting
  <2>2. IsFiniteSet(Lost) /\ Cardinality(Lost) = 0 /\ Cardinality(Publishing) = 0
    BY <2>1, FS_EmptySet
  <2>3. Cardinality(Threads) \in Nat /\ Cardinality(Children) \in Nat /\ QueueLimit \in Nat
    BY WebAssumption, WorkerAssumption, FS_CardinalityType
  <2>4. Backlog = 0 /\ faults * Cardinality(Children) = 0
    BY <2>1, <2>2, <2>3 DEF Backlog
  <2>5. QueueLimit # 0 => Backlog <= Allowance
    BY <2>3, <2>4 DEF Allowance
  <2> QED BY <2>2, <2>4, <2>5 DEF BacklogInv
<1>2. TypeOK /\ TypeOK' /\ BacklogInv /\ [Next]_vars => BacklogInv'
  BY NextBacklog
<1>3. TypeOK /\ BacklogInv => QueueBound
  <2> SUFFICES ASSUME TypeOK, BacklogInv, QueueLimit # 0
               PROVE  Len(queue) <= Allowance
    BY DEF QueueBound, Allowance
  <2>1. Cardinality(Lost) \in Nat
    BY FS_CardinalityType DEF BacklogInv
  <2>2. Allowance \in Int
    <3>1. faults * Cardinality(Children) \in Nat
      BY Sizes
    <3> QED BY <3>1, Sizes, WebAssumption DEF Allowance
  <2> QED BY <2>1, <2>2, Sizes DEF BacklogInv, Backlog
<1> QED BY <1>1, <1>2, <1>3, TypeCorrect, PTL DEF Spec

=============================================================================
