------------------------------- MODULE Worker -------------------------------
(***************************************************************************)
(* The Celery worker: the pool children that run optimize_routes_task      *)
(* (backend/api/tasks.py) and the parent process they hang from, which     *)
(* takes messages, acknowledges them, enforces the hard time limit and     *)
(* runs the on_failure and on_timeout hooks of OptimizationRequest.        *)
(*                                                                         *)
(* Children and parent run concurrently; the parent does one thing at a    *)
(* time.  Every Redis command of the task store is a step of its own.      *)
(***************************************************************************)
EXTENDS Broker, FiniteSets

CONSTANTS
    Children,   \* the pool processes (--concurrency)
    TimeLimit   \* settings.CELERY_TASK_TIME_LIMIT, in clock units

\* The ImproperlyConfigured check of settings.py, with StoreAssumption.
ASSUME WorkerAssumption ==
    /\ TimeLimit \in Nat
    /\ TimeLimit < MaxAge
    /\ IsFiniteSet(Children) /\ Children # {} /\ Nil \notin Children

VARIABLES
    child,      \* child[c]: the task function running in c
    parent      \* the hook the parent is running, if any

workerVars == <<child, parent>>

\* optimize_routes_task, then _record_failure, then the two ways to end.
ReadPC   == {"load", "staleRead", "procRead", "succRead"}
WritePC  == {"staleWrite", "procWrite", "succWrite"}
RecordPC == {"recLoad", "recRead", "recWrite"}
ChildPC  == {"idle", "solve", "done", "raised"} \cup ReadPC \cup WritePC \cup RecordPC

Snapshots == TaskRecords \cup {Nil}

ChildRecords ==
    [ pc      : ChildPC,
      task    : Tasks \cup {Nil},
      snap    : Snapshots,
      result  : {Solution(t) : t \in Tasks} \cup {Nil},
      held    : BOOLEAN,    \* delivered and not acknowledged
      started : Nat ]       \* when the child took it

ParentRecords ==
    [ pc    : {"idle", "kill"} \cup RecordPC,
      task  : Tasks \cup {Nil},
      snap  : Snapshots,
      hooks : 0..2,         \* _record_failure calls to come
      kill  : Children \cup {Nil} ]

WorkerTypeOK ==
    /\ child \in [Children -> ChildRecords]
    /\ parent \in ParentRecords

IdleChild == [ pc |-> "idle", task |-> Nil, snap |-> Nil,
               result |-> Nil, held |-> FALSE, started |-> 0 ]

IdleParent == [pc |-> "idle", task |-> Nil, snap |-> Nil, hooks |-> 0, kill |-> Nil]

WorkerInit ==
    /\ child = [c \in Children |-> IdleChild]
    /\ parent = IdleParent

-----------------------------------------------------------------------------

Running(c, pc) == child[c].pc = pc

Goto(c, pc) == child' = [child EXCEPT ![c].pc = pc]

\* The read of an update_task: it keeps what it read, or raises.
UpdateRead(c, status, next, onRaise) ==
    LET t == child[c].task IN
    child' = IF Accepts(t, status)
             THEN [child EXCEPT ![c].pc = next, ![c].snap = store[t]]
             ELSE [child EXCEPT ![c].pc = onRaise]

\* The record each write of a child puts into the store.
ChildWrites(c) ==
    CASE child[c].pc = "staleWrite" -> MarkFailed(child[c].snap, "expired")
      [] child[c].pc = "procWrite"  -> MarkProcessing(child[c].snap)
      [] child[c].pc = "succWrite"  -> MarkSuccess(child[c].snap, child[c].result)
      [] child[c].pc = "recWrite"   -> MarkFailedWithoutResult(child[c].snap, "worker failed")

-----------------------------------------------------------------------------

(***************************************************************************)
(* optimize_routes_task, in a child                                        *)
(***************************************************************************)

\* get_task, the age test of fail_stale_task and the test for a final status
LoadTask_TrustsItsRead(c) ==
    LET t == child[c].task IN
    /\ Running(c, "load")
    /\ child' = IF store[t] = Nil
                THEN [child EXCEPT ![c].pc = "done"]
                ELSE [child EXCEPT ![c].pc = "procWrite", ![c].snap = store[t]]
    /\ UNCHANGED <<storeVars, brokerVars, parent>>
LoadTask(c) ==
    LET t == child[c].task IN
    /\ Running(c, "load")
    /\ Goto(c, IF ~IsOpen(t) THEN "done"
               ELSE IF IsStale(store[t], clock) THEN "staleRead"
               ELSE "procRead")
    /\ UNCHANGED <<storeVars, brokerVars, parent>>

\* the reads of the three update_task calls
ReadForUpdate(c) ==
    /\ \/ Running(c, "staleRead") /\ UpdateRead(c, "FAILED", "staleWrite", "recLoad")
       \/ Running(c, "procRead") /\ UpdateRead(c, "PROCESSING", "procWrite", "recLoad")
       \/ Running(c, "succRead") /\ UpdateRead(c, "SUCCESS", "succWrite", "recLoad")
    /\ UNCHANGED <<storeVars, brokerVars, parent>>

\* their writes
After(pc) == IF pc = "procWrite" THEN "solve" ELSE "done"

WriteUpdate(c) ==
    /\ child[c].pc \in WritePC
    /\ SetTask(child[c].task, ChildWrites(c))
    /\ Goto(c, After(child[c].pc))
    /\ UNCHANGED <<clock, faults, brokerVars, parent>>

\* _run_engine on the body that update_task returned
Solve_EchoesBody(c) ==
    /\ Running(c, "solve")
    /\ child' = [child EXCEPT ![c].pc = "succRead",
                              ![c].result = child[c].snap.input]
    /\ UNCHANGED <<storeVars, brokerVars, parent>>
Solve(c) ==
    /\ Running(c, "solve")
    /\ child' = [child EXCEPT ![c].pc = "succRead",
                              ![c].result = Solution(child[c].snap.input)]
    /\ UNCHANGED <<storeVars, brokerVars, parent>>

\* the engine raises
SolveFails(c) ==
    /\ Running(c, "solve")
    /\ Goto(c, "recLoad")
    /\ UNCHANGED <<storeVars, brokerVars, parent>>

\* _record_failure: get_task, then update_task; what it raises is swallowed
RecordFailure(c) ==
    LET t == child[c].task IN
    /\ \/ /\ Running(c, "recLoad")
          /\ Goto(c, IF IsOpen(t) THEN "recRead" ELSE "raised")
          /\ UNCHANGED <<store, expires>>
       \/ /\ Running(c, "recRead")
          /\ UpdateRead(c, "FAILED", "recWrite", "raised")
          /\ UNCHANGED <<store, expires>>
       \/ /\ Running(c, "recWrite")
          /\ SetTask(t, ChildWrites(c))
          /\ Goto(c, "raised")
    /\ UNCHANGED <<clock, faults, brokerVars, parent>>

\* A Redis command raises; a write may have been carried out all the same.
ChildFault(c) ==
    /\ Fault
    /\ \/ /\ child[c].pc \in ReadPC \cup {"recLoad", "recRead"}
          /\ UNCHANGED <<store, expires>>
       \/ /\ child[c].pc \in WritePC \cup {"recWrite"}
          /\ SetTask(child[c].task, ChildWrites(c)) \/ UNCHANGED <<store, expires>>
    /\ Goto(c, IF child[c].pc \in RecordPC THEN "raised" ELSE "recLoad")
    /\ UNCHANGED <<clock, brokerVars, parent>>

-----------------------------------------------------------------------------

(***************************************************************************)
(* The parent: deliveries, acknowledgements, and the two hooks             *)
(***************************************************************************)

\* A free child takes the next message, which stays unacknowledged.
Deliver(c) ==
    /\ parent.pc = "idle"
    /\ Running(c, "idle")
    /\ queue # <<>>
    /\ child' = [child EXCEPT ![c] = [IdleChild EXCEPT !.pc = "load",
                                                       !.task = Head(queue),
                                                       !.held = TRUE,
                                                       !.started = clock]]
    /\ queue' = Tail(queue)
    /\ UNCHANGED <<storeVars, orphans, parent>>

\* A hook starts: `hooks' calls of _record_failure, then `kill' is ended.
StartHooks_Ignored(t, hooks, kill) == UNCHANGED parent
StartHooks(t, hooks, kill) ==
    parent' = [ pc |-> "recLoad", task |-> t, snap |-> Nil,
                hooks |-> hooks, kill |-> kill ]

\* The task function returned: CELERY_TASK_ACKS_LATE acknowledges now.
ReportSuccess(c) ==
    /\ parent.pc = "idle"
    /\ Running(c, "done")
    /\ child' = [child EXCEPT ![c] = IdleChild]
    /\ UNCHANGED <<storeVars, brokerVars, parent>>

\* It raised: on_failure acknowledges, then records.
ReportFailure(c) ==
    /\ parent.pc = "idle"
    /\ Running(c, "raised")
    /\ child' = [child EXCEPT ![c] = IdleChild]
    /\ StartHooks(child[c].task, 1, Nil)
    /\ UNCHANGED <<storeVars, brokerVars>>

\* The child process is gone (WorkerLostError): on_failure, as above.
ChildLost(c) ==
    /\ parent.pc = "idle"
    /\ ~Running(c, "idle")
    /\ child' = [child EXCEPT ![c] = IdleChild]
    /\ StartHooks(child[c].task, 1, Nil)
    /\ UNCHANGED <<storeVars, brokerVars>>

\* The commands before the engine run take at most some seconds together, far
\* less than the limit: to be hit there is a mishap of its own.
BeforeEngine == {"load", "staleRead", "staleWrite", "procRead", "procWrite"}

\* The hard limit: on_failure and on_timeout acknowledge and record while the
\* child still runs; only then is it killed.
HardTimeout(c) ==
    /\ parent.pc = "idle"
    /\ ~Running(c, "idle")
    /\ clock - child[c].started >= TimeLimit
    /\ IF child[c].pc \in BeforeEngine THEN Fault ELSE UNCHANGED faults
    /\ child' = [child EXCEPT ![c].held = FALSE]
    /\ \E hooks \in 1..2 : StartHooks(child[c].task, hooks, c)
    /\ UNCHANGED <<clock, store, expires, brokerVars>>

\* One _record_failure of the parent is over; nothing it raised gets out.
EndHook ==
    IF parent.hooks > 1
    THEN parent' = [parent EXCEPT !.pc = "recLoad", !.hooks = @ - 1]
    ELSE parent' = [parent EXCEPT !.pc = "kill", !.hooks = 0]

ParentWrites == MarkFailedWithoutResult(parent.snap, "worker failed")

ParentRecord ==
    LET t == parent.task IN
    /\ \/ /\ parent.pc = "recLoad"
          /\ IF IsOpen(t) THEN parent' = [parent EXCEPT !.pc = "recRead"] ELSE EndHook
          /\ UNCHANGED <<store, expires>>
       \/ /\ parent.pc = "recRead"
          /\ IF Accepts(t, "FAILED")
             THEN parent' = [parent EXCEPT !.pc = "recWrite", !.snap = store[t]]
             ELSE EndHook
          /\ UNCHANGED <<store, expires>>
       \/ /\ parent.pc = "recWrite"
          /\ SetTask(t, ParentWrites)
          /\ EndHook
    /\ UNCHANGED <<clock, faults, brokerVars, child>>

ParentFault ==
    /\ Fault
    /\ \/ /\ parent.pc \in {"recLoad", "recRead"}
          /\ UNCHANGED <<store, expires>>
       \/ /\ parent.pc = "recWrite"
          /\ SetTask(parent.task, ParentWrites) \/ UNCHANGED <<store, expires>>
    /\ EndHook
    /\ UNCHANGED <<clock, brokerVars, child>>

\* After a timeout the child is killed and replaced.
EndHooks ==
    /\ parent.pc = "kill"
    /\ child' = IF parent.kill = Nil THEN child
                ELSE [child EXCEPT ![parent.kill] = IdleChild]
    /\ parent' = IdleParent
    /\ UNCHANGED <<storeVars, brokerVars>>

-----------------------------------------------------------------------------

\* The broker connection is lost: what c holds is delivered again, while c runs.
Redeliver(c) ==
    /\ Fault
    /\ child[c].held
    /\ child' = [child EXCEPT ![c].held = FALSE]
    /\ PutBack(child[c].task)
    /\ UNCHANGED <<clock, store, expires, orphans, parent>>

\* The whole worker dies and is started again.
WorkerCrash ==
    /\ Fault
    /\ orphans' = [t \in Tasks |-> orphans[t] +
                     Cardinality({c \in Children : child[c].held /\ child[c].task = t})]
    /\ child' = [c \in Children |-> IdleChild]
    /\ parent' = IdleParent
    /\ UNCHANGED <<clock, store, expires, queue>>

-----------------------------------------------------------------------------

\* What a child does on its own once it has a message.
ChildStep(c) ==
    \/ LoadTask(c)
    \/ ReadForUpdate(c)
    \/ WriteUpdate(c)
    \/ Solve(c)
    \/ RecordFailure(c)

ParentStep == ParentRecord \/ EndHooks

\* What the parent does about a child.
Report(c) == ReportSuccess(c) \/ ReportFailure(c)

WorkerNext ==
    \/ \E c \in Children :
          \/ ChildStep(c)
          \/ SolveFails(c)
          \/ ChildFault(c)
          \/ Deliver(c)
          \/ Report(c)
          \/ ChildLost(c)
          \/ HardTimeout(c)
          \/ Redeliver(c)
    \/ ParentStep
    \/ ParentFault
    \/ WorkerCrash

=============================================================================
