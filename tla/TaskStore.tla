------------------------------ MODULE TaskStore ------------------------------
(***************************************************************************)
(* The Redis keys task:<id> as backend/api/task_store.py uses them, and    *)
(* the time they live in.  A task function is not atomic: update_task is a *)
(* GET followed, some time later, by a SET of the whole record, and any    *)
(* other process may run in between.  This module holds the keys and the   *)
(* single Redis commands; WebApi and Worker hold the processes that issue  *)
(* them one by one.                                                        *)
(***************************************************************************)
EXTENDS TaskRecord

CONSTANTS
    Retention,  \* settings.TASK_RETENTION_SECONDS, in clock units
    MaxClock,   \* bound: the clock stops here
    MaxFaults   \* bound: how many times the environment misbehaves

ASSUME StoreAssumption ==
    /\ Retention \in Nat /\ Retention > MaxAge
    /\ MaxClock \in Nat
    /\ MaxFaults \in Nat

VARIABLES
    clock,      \* the time of day
    store,      \* store[t]: the record under task:t, Nil when there is no key
    expires,    \* expires[t]: when Redis drops the key
    faults      \* mishaps so far: command errors, lost connections, crashes

storeVars == <<clock, store, expires, faults>>

StoreTypeOK ==
    /\ clock \in Nat
    /\ store \in [Tasks -> TaskRecords \cup {Nil}]
    /\ expires \in [Tasks -> Nat]
    /\ faults \in Nat

StoreInit ==
    /\ clock = 0
    /\ store = [t \in Tasks |-> Nil]
    /\ expires = [t \in Tasks |-> 0]
    /\ faults = 0

-----------------------------------------------------------------------------

IsOpen(t) == store[t] # Nil /\ store[t].status \in Open

\* update_task, having read the key, does not raise for this status.
Accepts_AnyStatus(t, status) == store[t] # Nil
Accepts(t, status) == store[t] # Nil /\ MayMove(store[t], status)

\* SET key record EX retention
SetTask(t, rec) ==
    /\ store' = [store EXCEPT ![t] = rec]
    /\ expires' = [expires EXCEPT ![t] = clock + Retention]

\* One mishap is charged to the bound.
Fault ==
    /\ faults < MaxFaults
    /\ faults' = faults + 1

\* Time passes; a key whose time to live is over disappears.
Tick ==
    /\ clock < MaxClock
    /\ clock' = clock + 1
    /\ store' = [t \in Tasks |->
                    IF expires[t] <= clock' THEN Nil ELSE store[t]]
    /\ UNCHANGED <<expires, faults>>

=============================================================================
