--------------------------- MODULE ForgetfulService ---------------------------
(***************************************************************************)
(* The service over a Redis that restarts.  The deployed server appends    *)
(* its commands to a file and syncs the file once a second (appendonly     *)
(* yes, appendfsync everysec), and Docker starts it again when it dies     *)
(* (restart: unless-stopped): it comes back with what it held at the last  *)
(* sync.  Records, queue, unacknowledged deliveries and cooldown key go    *)
(* back together; the web threads, the worker and the clients do not, and  *)
(* carry on with what they remember.                                       *)
(***************************************************************************)
EXTENDS OptimizationService

VARIABLE
    disk        \* what the synced part of the append-only file says

allVars == <<vars, disk>>

\* The unacknowledged deliveries that Redis knows of.
Unacked ==
    [t \in Tasks |-> orphans[t] +
        Cardinality({c \in Children : child[c].held /\ child[c].task = t})]

Held == [ store |-> store, expires |-> expires, queue |-> queue,
          unacked |-> Unacked, cooldown |-> cooldown ]

ForgetfulInit == Init /\ disk = Held

-----------------------------------------------------------------------------

\* One sync; there are many within a unit of the model's clock.
Sync ==
    /\ disk # Held
    /\ disk' = Held
    /\ UNCHANGED vars

SyncedTick == TimePasses /\ disk' = Held'

\* Redis dies and comes back.  The worker's connection is gone, and what its
\* children hold is acknowledged to nobody: the server restores what it knows.
RestartRedis ==
    /\ Fault
    /\ store' = disk.store
    /\ expires' = disk.expires
    /\ queue' = disk.queue
    /\ orphans' = disk.unacked
    /\ cooldown' = disk.cooldown
    /\ child' = [c \in Children |-> [child[c] EXCEPT !.held = FALSE]]
    /\ UNCHANGED <<clock, web, posted, parent, disk>>

ForgetfulNext ==
    \/ WebNext /\ UNCHANGED <<workerVars, disk>>
    \/ WorkerNext /\ UNCHANGED <<webVars, disk>>
    \/ RestoreOrphans /\ UNCHANGED disk
    \/ SyncedTick
    \/ Sync
    \/ RestartRedis

ForgetfulSpec == ForgetfulInit /\ [][ForgetfulNext]_allVars

-----------------------------------------------------------------------------

(***************************************************************************)
(* Fairness: that of the service, and the syncs; and a client that was     *)
(* given an id does not stop asking for its status.                        *)
(***************************************************************************)
ForgetfulFairness ==
    /\ \A w \in Threads : WF_allVars(ThreadStep(w) /\ UNCHANGED <<workerVars, disk>>)
    /\ \A c \in Children :
          /\ WF_allVars(ChildStep(c) /\ UNCHANGED <<webVars, disk>>)
          /\ SF_allVars(Report(c) /\ UNCHANGED <<webVars, disk>>)
          /\ SF_allVars(Deliver(c) /\ UNCHANGED <<webVars, disk>>)
    /\ WF_allVars(ParentStep /\ UNCHANGED <<webVars, disk>>)
    /\ WF_allVars(RestoreOrphans /\ UNCHANGED disk)
    /\ WF_allVars(SyncedTick)
    /\ WF_allVars(Sync)
    /\ \A t \in Tasks :
          SF_allVars((\E w \in Threads : Poll(w, t)) /\ UNCHANGED <<workerVars, disk>>)

ForgetfulFairSpec == ForgetfulSpec /\ ForgetfulFairness

=============================================================================
