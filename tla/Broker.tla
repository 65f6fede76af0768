------------------------------- MODULE Broker -------------------------------
(***************************************************************************)
(* The Celery queue on Redis, as the settings and the code use it: the     *)
(* list "celery" that delay() pushes to and check_capacity measures, and   *)
(* the deliveries that were handed to a worker and not acknowledged        *)
(* (CELERY_TASK_ACKS_LATE).  External: the repository configures it and    *)
(* relies on it, Celery and kombu implement it.                            *)
(***************************************************************************)
EXTENDS TaskStore, Sequences

VARIABLES
    queue,      \* the list "celery": one message names one task
    orphans     \* orphans[t]: unacknowledged deliveries of t whose worker died

brokerVars == <<queue, orphans>>

BrokerTypeOK ==
    /\ queue \in Seq(Tasks)
    /\ orphans \in [Tasks -> Nat]

BrokerInit ==
    /\ queue = <<>>
    /\ orphans = [t \in Tasks |-> 0]

Queued(t) == \E i \in 1..Len(queue) : queue[i] = t

Enqueue(t) == queue' = Append(queue, t)

\* An unacknowledged delivery goes back to the end the consumer takes from.
PutBack(t) == queue' = <<t>> \o queue

\* The visibility timeout puts the delivery of a dead worker back.
RestoreOrphan(t) ==
    /\ orphans[t] > 0
    /\ orphans' = [orphans EXCEPT ![t] = @ - 1]
    /\ PutBack(t)
    /\ UNCHANGED storeVars

=============================================================================
