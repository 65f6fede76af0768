------------------------------- MODULE WebApi -------------------------------
(***************************************************************************)
(* The web process: backend/api/views.py and admission.py.  A request runs *)
(* on one of the gunicorn threads, and every Redis command it issues is a  *)
(* step of its own, so that the other threads and the worker run between.  *)
(*                                                                         *)
(* A POST: LLEN, SET nx of the cooldown key, SET nx of the record, publish,*)
(* and, when publishing raises, update_task(FAILED).  A GET: get_task, and *)
(* update_task(FAILED) when the task is stale.  Requests that change       *)
(* nothing (a 400, a 429 for a full queue, a GET of a task that is not     *)
(* stale) are stuttering steps.                                            *)
(***************************************************************************)
EXTENDS Broker, FiniteSets

CONSTANTS
    Threads,    \* gunicorn threads
    QueueLimit, \* settings.OPTIMIZATION_QUEUE_LIMIT, 0 switches admission off
    CooldownOn  \* settings.OPTIMIZATION_MIN_INTERVAL_SECONDS # 0

ASSUME WebAssumption ==
    /\ IsFiniteSet(Threads)
    /\ QueueLimit \in Nat
    /\ CooldownOn \in BOOLEAN

VARIABLES
    web,        \* web[w]: where thread w is, for which task, what update_task read
    posted,     \* posted[t]: what the POST that made the id t has come to
    cooldown    \* the key optiroute:admission exists

webVars == <<web, posted, cooldown>>

WebPC == { "idle", "interval", "create", "publish", "markRead", "markWrite",
           "staleRead", "staleWrite" }

\* "unused" also stands for an id that was dropped before anything knew it.
Answers == {"unused", "open", "accepted", "unavailable"}

WebTypeOK ==
    /\ web \in [Threads -> [ pc   : WebPC,
                             task : Tasks \cup {Nil},
                             snap : TaskRecords \cup {Nil} ]]
    /\ posted \in [Tasks -> Answers]
    /\ cooldown \in BOOLEAN

IdleThread == [pc |-> "idle", task |-> Nil, snap |-> Nil]

WebInit ==
    /\ web = [w \in Threads |-> IdleThread]
    /\ posted = [t \in Tasks |-> "unused"]
    /\ cooldown = FALSE

-----------------------------------------------------------------------------

At(w, pc) == web[w].pc = pc

WebGoto(w, pc) == web' = [web EXCEPT ![w].pc = pc]

WebFree(w) == web' = [web EXCEPT ![w] = IdleThread]

\* The thread answers its POST and is free.
Respond(w, answer) ==
    /\ WebFree(w)
    /\ posted' = [posted EXCEPT ![web[w].task] = answer]

\* update_task reads the record, or raises and leads to `Raised'.
WebUpdateRead(w, next, Raised) ==
    LET t == web[w].task IN
    \/ /\ Accepts(t, "FAILED")
       /\ web' = [web EXCEPT ![w].pc = next, ![w].snap = store[t]]
       /\ UNCHANGED posted
    \/ /\ ~Accepts(t, "FAILED")
       /\ Raised

-----------------------------------------------------------------------------

(***************************************************************************)
(* POST /api/optimizations                                                 *)
(***************************************************************************)

\* check_capacity's test; a limit of 0 switches it off.
HasRoom_OneMore == QueueLimit # 0 => Len(queue) <= QueueLimit
HasRoom == QueueLimit # 0 => Len(queue) < QueueLimit

\* The queue length is compared with the limit long before publishing.
CheckQueue(w, t) ==
    /\ At(w, "idle")
    /\ posted[t] = "unused"
    /\ HasRoom
    /\ LET next == IF QueueLimit # 0 /\ CooldownOn THEN "interval" ELSE "create"
       IN  web' = [web EXCEPT ![w].pc = next, ![w].task = t]
    /\ posted' = [posted EXCEPT ![t] = "open"]
    /\ UNCHANGED <<storeVars, brokerVars, cooldown>>

\* SET optiroute:admission nx: the first one passes, the others get a 429.
TakeCooldown(w) ==
    /\ At(w, "interval")
    /\ \/ /\ ~cooldown
          /\ WebGoto(w, "create")
          /\ UNCHANGED posted
       \/ /\ cooldown
          /\ Respond(w, "unused")
    /\ cooldown' = TRUE
    /\ UNCHANGED <<storeVars, brokerVars>>

\* The time to live of the cooldown key is over.
ExpireCooldown ==
    /\ cooldown
    /\ cooldown' = FALSE
    /\ UNCHANGED <<storeVars, brokerVars, web, posted>>

\* SET task:<id> nx: the id is a fresh uuid, so the key is never there.
Create(w) ==
    LET t == web[w].task IN
    /\ At(w, "create")
    /\ store[t] = Nil
    /\ SetTask(t, NewTask(t, clock))
    /\ WebGoto(w, "publish")
    /\ UNCHANGED <<clock, faults, brokerVars, posted, cooldown>>

\* delay(): one message, and the 202.
Publish(w) ==
    /\ At(w, "publish")
    /\ Enqueue(web[w].task)
    /\ Respond(w, "accepted")
    /\ UNCHANGED <<storeVars, orphans, cooldown>>

\* delay() raised: the update_task(FAILED) that follows it.
MarkRead(w) ==
    /\ At(w, "markRead")
    /\ WebUpdateRead(w, "markWrite", Respond(w, "unavailable"))
    /\ UNCHANGED <<storeVars, brokerVars, cooldown>>

MarkWrite(w) ==
    /\ At(w, "markWrite")
    /\ SetTask(web[w].task, MarkFailed(web[w].snap, "not enqueued"))
    /\ Respond(w, "unavailable")
    /\ UNCHANGED <<clock, faults, brokerVars, cooldown>>

-----------------------------------------------------------------------------

(***************************************************************************)
(* GET /api/optimizations/<id>, when it finds the task stale.              *)
(***************************************************************************)
Poll(w, t) ==
    /\ At(w, "idle")
    /\ posted[t] = "accepted"
    /\ store[t] # Nil
    /\ IsStale(store[t], clock)
    /\ web' = [web EXCEPT ![w].pc = "staleRead", ![w].task = t]
    /\ UNCHANGED <<storeVars, brokerVars, posted, cooldown>>

StaleRead(w) ==
    /\ At(w, "staleRead")
    /\ WebUpdateRead(w, "staleWrite", WebFree(w) /\ UNCHANGED posted)
    /\ UNCHANGED <<storeVars, brokerVars, cooldown>>

StaleWrite(w) ==
    /\ At(w, "staleWrite")
    /\ SetTask(web[w].task, MarkFailed(web[w].snap, "expired"))
    /\ WebFree(w)
    /\ UNCHANGED <<clock, faults, brokerVars, posted, cooldown>>

-----------------------------------------------------------------------------

(***************************************************************************)
(* What goes wrong.  A command that raises may have reached Redis all the  *)
(* same: the error is a timeout of two seconds, or a lost connection.      *)
(***************************************************************************)
CooldownFails(w) ==
    /\ At(w, "interval")
    /\ Fault
    /\ cooldown' \in {cooldown, TRUE}
    /\ Respond(w, "unused")
    /\ UNCHANGED <<clock, store, expires, brokerVars>>

CreateFails(w) ==
    LET t == web[w].task IN
    /\ At(w, "create")
    /\ Fault
    /\ store[t] = Nil
    /\ SetTask(t, NewTask(t, clock)) \/ UNCHANGED <<store, expires>>
    /\ Respond(w, "unavailable")
    /\ UNCHANGED <<clock, brokerVars, cooldown>>

\* The publisher retries a push whose reply was lost.
PublishTwice(w) ==
    LET t == web[w].task IN
    /\ At(w, "publish")
    /\ Fault
    /\ queue' = queue \o <<t, t>>
    /\ Respond(w, "accepted")
    /\ UNCHANGED <<clock, store, expires, orphans, cooldown>>

PublishFails(w) ==
    /\ At(w, "publish")
    /\ Fault
    /\ Enqueue(web[w].task) \/ UNCHANGED queue
    /\ WebGoto(w, "markRead")
    /\ UNCHANGED <<clock, store, expires, orphans, posted, cooldown>>

\* Both update_task calls end in a 503, with or without their write.
WebUpdateFails(w) ==
    LET t == web[w].task IN
    /\ Fault
    /\ \/ /\ At(w, "markRead") \/ At(w, "staleRead")
          /\ UNCHANGED <<store, expires>>
       \/ /\ At(w, "markWrite")
          /\ SetTask(t, MarkFailed(web[w].snap, "not enqueued"))
                \/ UNCHANGED <<store, expires>>
       \/ /\ At(w, "staleWrite")
          /\ SetTask(t, MarkFailed(web[w].snap, "expired"))
                \/ UNCHANGED <<store, expires>>
    /\ IF posted[t] = "open" THEN Respond(w, "unavailable")
                             ELSE WebFree(w) /\ UNCHANGED posted
    /\ UNCHANGED <<clock, brokerVars, cooldown>>

\* The web process dies with all its threads and is started again.
WebCrash ==
    /\ Fault
    /\ web' = [w \in Threads |-> IdleThread]
    /\ posted' = [t \in Tasks |->
                     IF posted[t] = "open" THEN "unavailable" ELSE posted[t]]
    /\ UNCHANGED <<clock, store, expires, brokerVars, cooldown>>

-----------------------------------------------------------------------------

\* What a thread does on its own once it has a request.
ThreadStep(w) ==
    \/ TakeCooldown(w)
    \/ Create(w)
    \/ Publish(w)
    \/ MarkRead(w)
    \/ MarkWrite(w)
    \/ StaleRead(w)
    \/ StaleWrite(w)

ThreadFault(w) ==
    \/ CooldownFails(w)
    \/ CreateFails(w)
    \/ PublishTwice(w)
    \/ PublishFails(w)
    \/ WebUpdateFails(w)

WebNext ==
    \/ \E w \in Threads, t \in Tasks : CheckQueue(w, t) \/ Poll(w, t)
    \/ \E w \in Threads : ThreadStep(w) \/ ThreadFault(w)
    \/ ExpireCooldown
    \/ WebCrash

=============================================================================
