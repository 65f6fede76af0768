------------------------- MODULE OptimizationService -------------------------
(***************************************************************************)
(* The whole service: web threads, queue, worker and task store, and what  *)
(* they owe to whoever posts a route problem.                              *)
(***************************************************************************)
EXTENDS WebApi, Worker

vars == <<storeVars, brokerVars, webVars, workerVars>>

TypeOK == StoreTypeOK /\ BrokerTypeOK /\ WebTypeOK /\ WorkerTypeOK

Init == StoreInit /\ BrokerInit /\ WebInit /\ WorkerInit

RestoreOrphans ==
    /\ \E t \in Tasks : RestoreOrphan(t)
    /\ UNCHANGED <<webVars, workerVars>>

TimePasses == Tick /\ UNCHANGED <<brokerVars, webVars, workerVars>>

Next ==
    \/ WebNext /\ UNCHANGED workerVars
    \/ WorkerNext /\ UNCHANGED webVars
    \/ RestoreOrphans
    \/ TimePasses

Spec == Init /\ [][Next]_vars

-----------------------------------------------------------------------------

(***************************************************************************)
(* Fairness.  A thread, a child and the parent keep going, a free child is *)
(* given a message, time passes, and a lost delivery becomes visible again *)
(* in the end.  Nothing that goes wrong is ever obliged to.                *)
(***************************************************************************)
Fairness ==
    /\ \A w \in Threads : WF_vars(ThreadStep(w) /\ UNCHANGED workerVars)
    /\ \A c \in Children :
          /\ WF_vars(ChildStep(c) /\ UNCHANGED webVars)
          /\ SF_vars(Report(c) /\ UNCHANGED webVars)
          /\ SF_vars(Deliver(c) /\ UNCHANGED webVars)
    /\ WF_vars(ParentStep /\ UNCHANGED webVars)
    /\ WF_vars(RestoreOrphans)
    /\ WF_vars(TimePasses)

FairSpec == Spec /\ Fairness

-----------------------------------------------------------------------------

(***************************************************************************)
(* Safety                                                                  *)
(***************************************************************************)

\* Every record a reader can find is coherent: it answers its own body, and
\* has a result exactly when it succeeded and an error exactly when it failed,
\* however the read-modify-write update_task calls of the web threads, the
\* children and the parent interleave (task_store.py:106-142).
RecordsConsistent ==
    \A t \in Tasks : store[t] # Nil => Consistent(t, store[t])

\* The body and the creation time of a task survive every update, late ones
\* included, as long as the key exists (update_task's docstring).
InputPreserved ==
    [][\A t \in Tasks :
          store[t] # Nil /\ store'[t] # Nil =>
              /\ store'[t].input = store[t].input
              /\ store'[t].created = store[t].created]_vars

\* No interleaving takes a task back to PENDING, or to SUCCESS without a
\* PROCESSING in between (the rows of _ALLOWED_STATUS_TRANSITIONS that hold
\* of the stored record even though each writer checks them on a copy).
NoSkippedStart ==
    [][\A t \in Tasks :
          store[t] # Nil /\ store'[t] # Nil =>
              /\ store'[t].status = "PENDING" => store[t].status = "PENDING"
              /\ store'[t].status = "SUCCESS" => store[t].status # "PENDING"]_vars

\* The engine never runs for a task that had already reached its maximum age
\* when its message was handed over, however late a redelivery comes.
NoAbandonedRun ==
    \A c \in Children :
        Running(c, "solve") =>
            child[c].started - child[c].snap.created < MaxAge

\* With the single pool process of the deployed worker a solved task is never
\* started again, not even when its message is delivered twice.
SuccessNotReopened ==
    [][\A t \in Tasks :
          store[t] # Nil /\ store'[t] # Nil /\ store[t].status = "SUCCESS" =>
              store'[t].status # "PROCESSING"]_vars

\* While nothing has gone wrong in the environment, an accepted task that is
\* not settled is somebody's job: its message waits, or a child holds it, or
\* the parent is recording its failure.
HasOwner(t) ==
    \/ Queued(t)
    \/ \E c \in Children : child[c].held /\ child[c].task = t
    \/ parent.pc # "idle" /\ parent.task = t

AcceptedHasOwner ==
    faults = 0 =>
        \A t \in Tasks : posted[t] = "accepted" /\ IsOpen(t) => HasOwner(t)

\* The limit is tested long before the message is published, and put-back
\* messages are not tested at all: the queue may pass the limit, but by no
\* more than the other threads and one delivery per child and mishap.
QueueBound ==
    QueueLimit # 0 =>
        Len(queue) <= QueueLimit + (Cardinality(Threads) - 1)
                        + faults * Cardinality(Children)

-----------------------------------------------------------------------------

(***************************************************************************)
(* Liveness                                                                *)
(***************************************************************************)

\* Every accepted task that can still reach its maximum age before the model's
\* clock stops is settled for good.
SettlesInTime(t) ==
    posted[t] = "accepted" /\ store[t] # Nil
        /\ store[t].created + MaxAge <= MaxClock

EventuallySettled ==
    \A t \in Tasks : <>[](SettlesInTime(t) => ~IsOpen(t))

\* With no mishap, nobody needs to ask: the worker alone settles it.
AcceptedIsServed ==
    \A t \in Tasks : posted[t] = "accepted" ~> store[t] # Nil /\ ~IsOpen(t)

-----------------------------------------------------------------------------

(***************************************************************************)
(* Why records stay consistent.  Between the GET and the SET of an         *)
(* update_task the store may move on, so what makes the SET safe is not    *)
(* what the store holds but what the copy does: it was consistent when it  *)
(* was read, and its own status allows the status that will be written.    *)
(***************************************************************************)
Writable(t, rec, status) ==
    /\ rec \in TaskRecords
    /\ Consistent(t, rec)
    /\ MayMove(rec, status)

ThreadSound(w) ==
    /\ web[w].pc # "idle" => web[w].task \in Tasks
    /\ web[w].pc \in {"markWrite", "staleWrite"} =>
          Writable(web[w].task, web[w].snap, "FAILED")

ChildSound(c) ==
    LET me == child[c] IN
    /\ me.pc # "idle" \/ me.held => me.task \in Tasks
    /\ me.pc \in {"staleWrite", "recWrite"} => Writable(me.task, me.snap, "FAILED")
    /\ me.pc = "procWrite" => Writable(me.task, me.snap, "PROCESSING")
    /\ me.pc = "succWrite" => Writable(me.task, me.snap, "SUCCESS")
    /\ me.pc = "solve" => me.snap.input = me.task
    /\ me.pc \in {"succRead", "succWrite"} => me.result = Solution(me.task)

ParentSound ==
    /\ parent.pc \in RecordPC => parent.task \in Tasks
    /\ parent.pc = "recWrite" => Writable(parent.task, parent.snap, "FAILED")

CopiesSound ==
    /\ \A w \in Threads : ThreadSound(w)
    /\ \A c \in Children : ChildSound(c)
    /\ ParentSound

\* The inductive strengthening of RecordsConsistent.
ConsistencyInv == TypeOK /\ RecordsConsistent /\ CopiesSound

-----------------------------------------------------------------------------

(***************************************************************************)
(* Refinement                                                              *)
(***************************************************************************)

\* The ids that the POST handler has tried to create a record for, or dropped.
Spent ==
    {t \in Tasks : posted[t] # "unused"}
      \ {web[w].task : w \in {x \in Threads : web[x].pc \in {"interval", "create"}}}

Register == INSTANCE TaskRegister WITH register <- store, spent <- Spent

\* The store, as all the processes together drive it, keeps the promise of
\* the register (task_store.py as a whole).
ImplementsRegister == Register!RegisterSpec

-----------------------------------------------------------------------------

(***************************************************************************)
(* What the code's own table and tests promise, and the code does not keep *)
(***************************************************************************)

\* A task that has succeeded or failed keeps that status: the last two rows of
\* _ALLOWED_STATUS_TRANSITIONS, and test_failure_does_not_regress_terminal_task.
TerminalIsFinal ==
    [][\A t \in Tasks :
          store[t] # Nil /\ store'[t] # Nil /\ store[t].status \in Terminal =>
              store'[t].status = store[t].status]_vars

=============================================================================
