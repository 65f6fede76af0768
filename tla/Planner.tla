------------------------------- MODULE Planner -------------------------------
(***************************************************************************)
(* The page of frontend/js/app.js: the locations on the map, the one task  *)
(* it may be waiting for, the chain of timer and request that polls that   *)
(* task, the copy in sessionStorage that survives a reload, and the        *)
(* drawing of the result.                                                  *)
(*                                                                         *)
(* JavaScript runs one handler at a time, to its end or to its next await. *)
(* So an action is a handler up to its await, and what it awaits (a reply, *)
(* a timer, a road route from Google) comes back in an action of its own.  *)
(* The service is seen through its answers: a POST may make a task of its  *)
(* body, and a GET of a task gives any status, a success only with the     *)
(* result of that body (RecordsConsistent of OptimizationService).         *)
(***************************************************************************)
EXTENDS Integers, Sequences

CONSTANTS
    Tasks,          \* the task ids the service may hand out
    Places,         \* the coordinates the user may click on
    Nil,            \* null
    MaxStops,       \* MAX_STOPS
    MaxVehicles,    \* the max attribute of the vehicle input
    PollTimeout,    \* POLL_TIMEOUT_MS, in units of the model clock
    MaxClock,       \* bound: the clock stops here
    MaxReloads,     \* bound: how often the user reloads the page
    MaxMishaps      \* bound: Google errors and storage errors

Plans == [ depot    : Places \cup {Nil},
           stops    : UNION {[1..n -> Places] : n \in 0..MaxStops},
           vehicles : 0..MaxVehicles ]     \* 0: nothing validateVehicleCount accepts

EmptyPlan == [depot |-> Nil, stops |-> <<>>, vehicles |-> 1]

\* canSubmitOptimization, but for isBusy
Submittable(plan) ==
    /\ plan.depot # Nil
    /\ plan.stops # <<>>
    /\ plan.vehicles \in 1..Len(plan.stops)

Bodies == {plan \in Plans : Submittable(plan)}

\* A result that is being drawn: whose it is, and the vehicle that is next.
Drawings == [plan : Bodies, next : 1..(MaxVehicles + 1)]

Lines == [plan : Bodies, vehicle : 1..MaxVehicles]

ASSUME PlannerAssumption ==
    /\ MaxStops \in Nat \ {0}
    /\ MaxVehicles \in Nat \ {0}
    /\ PollTimeout \in Nat \ {0}
    /\ MaxClock \in Nat
    /\ MaxReloads \in Nat
    /\ MaxMishaps \in Nat
    /\ Nil \notin Tasks \cup Places \cup Plans \cup Drawings

VARIABLES
    page,       \* whether the map is there to be clicked on
    screen,     \* depot, stops and vehicle count as displayed
    taskId, startedAt, isBusy, timedOut,    \* appState, by the same names
    timers,     \* live poll timers
    posting,    \* the body of the POST that is under way, or Nil
    polls,      \* the tasks of the GETs that are under way
    drawing,    \* the result that is being drawn, or Nil
    lines,      \* the routes on the map: the plan they answer, which vehicle
    button,     \* the start button: off, or what it says
    stored,     \* sessionStorage["optiroute.pendingTask"], or Nil
    server,     \* server[t]: the body t was made of, or Nil
    clock, reloads, mishaps

taskVars == <<taskId, startedAt, isBusy, timedOut>>
netVars  == <<timers, posting, polls>>
vars == <<page, screen, taskVars, netVars, drawing, lines, button, stored,
          server, clock, reloads, mishaps>>

\* what storePendingTask stores
PendingTasks == [task : Tasks, since : Nat, plan : Plans]

TypeOK ==
    /\ page \in {"loading", "ready", "broken"}
    /\ screen \in Plans
    /\ taskId \in Tasks \cup {Nil}
    /\ startedAt \in Nat
    /\ isBusy \in BOOLEAN
    /\ timedOut \in BOOLEAN
    /\ timers \in Nat
    /\ posting \in Bodies \cup {Nil}
    /\ polls \in SUBSET Tasks
    /\ drawing \in Drawings \cup {Nil}
    /\ lines \in SUBSET Lines
    /\ button \in {"off", "start", "check"}
    /\ stored = Nil \/ stored \in PendingTasks
    /\ server \in [Tasks -> Bodies \cup {Nil}]
    /\ clock \in Nat
    /\ reloads \in Nat
    /\ mishaps \in Nat

Init ==
    /\ page = "loading"
    /\ screen = EmptyPlan
    /\ taskId = Nil /\ startedAt = 0
    /\ isBusy = FALSE /\ timedOut = FALSE
    /\ timers = 0 /\ posting = Nil /\ polls = {}
    /\ drawing = Nil /\ lines = {}
    /\ button = "off"
    /\ stored = Nil
    /\ server = [t \in Tasks |-> Nil]
    /\ clock = 0 /\ reloads = 0 /\ mishaps = 0

-----------------------------------------------------------------------------

\* updatePlannerState: the button after a handler has set everything else
UpdateButton_IgnoresPlan ==
    button' = IF isBusy' THEN "off" ELSE IF timedOut' THEN "check" ELSE "start"
UpdateButton ==
    button' = IF isBusy' THEN "off"
              ELSE IF timedOut' THEN "check"
              ELSE IF Submittable(screen') THEN "start" ELSE "off"

Mishap == mishaps < MaxMishaps /\ mishaps' = mishaps + 1

Pending(t, since, plan) == [task |-> t, since |-> since, plan |-> plan]

\* storePendingTask, which may fail and then leaves what was there
StorePending_Forgotten == UNCHANGED <<stored, mishaps>>
StorePending_OneVehicle ==
    \/ /\ stored' = Pending(taskId', startedAt', [screen' EXCEPT !.vehicles = 1])
       /\ UNCHANGED mishaps
    \/ /\ Mishap
       /\ UNCHANGED stored
StorePending ==
    \/ /\ stored' = Pending(taskId', startedAt', screen')
       /\ UNCHANGED mishaps
    \/ /\ Mishap
       /\ UNCHANGED stored

\* clearRenderedRoutes
ClearRoutes_KeepsThem == UNCHANGED lines
ClearRoutes == lines' = {}

\* clearPollTimer
ClearPollTimer == timers' = IF timers > 0 THEN timers - 1 ELSE 0

\* schedulePoll
SchedulePoll_Twice == timers' = timers + 2
SchedulePoll == timers' = timers + 1

-----------------------------------------------------------------------------

(***************************************************************************)
(* The user                                                                *)
(***************************************************************************)

\* While a task is pending the plan is left alone.
Editable_WhenTimedOut == ~isBusy
Editable == ~isBusy /\ ~timedOut

RoomForStop_Always == TRUE
RoomForStop == Len(screen.stops) < MaxStops

MapClick(p) ==
    /\ page = "ready"
    /\ Editable
    /\ IF screen.depot = Nil
       THEN screen' = [screen EXCEPT !.depot = p]
       ELSE /\ RoomForStop
            /\ screen' = [screen EXCEPT !.stops = Append(@, p)]
    /\ UNCHANGED <<page, taskVars, netVars, drawing, lines, stored, server, clock, reloads, mishaps>>
    /\ UpdateButton

\* The input is disabled by updatePlannerControls while a task is pending.
SetVehicles(n) ==
    /\ Editable
    /\ screen' = [screen EXCEPT !.vehicles = n]
    /\ UNCHANGED <<page, taskVars, netVars, drawing, lines, stored, server, clock, reloads, mishaps>>
    /\ UpdateButton

\* clearLocations; the vehicle count stays
Clear ==
    /\ screen.depot # Nil /\ ~isBusy
    /\ ClearPollTimer
    /\ stored' = Nil
    /\ ClearRoutes
    /\ screen' = [EmptyPlan EXCEPT !.vehicles = screen.vehicles]
    /\ taskId' = Nil /\ startedAt' = 0
    /\ isBusy' = FALSE /\ timedOut' = FALSE
    /\ UpdateButton
    /\ UNCHANGED <<page, posting, polls, drawing, server, clock, reloads, mishaps>>

\* submitOptimization up to the POST
Submit ==
    /\ button # "off"
    /\ ~(timedOut /\ taskId # Nil)
    /\ ~isBusy /\ Submittable(screen)
    /\ isBusy' = TRUE
    /\ ClearRoutes
    /\ posting' = screen
    /\ UNCHANGED <<page, screen, taskId, startedAt, timedOut, timers, polls,
                   drawing, stored, server, clock, reloads, mishaps>>
    /\ UpdateButton

\* resumePolling, on the button that says "Check status"
Resume ==
    /\ button # "off"
    /\ timedOut /\ taskId # Nil
    /\ timedOut' = FALSE /\ isBusy' = TRUE
    /\ startedAt' = clock
    /\ UNCHANGED <<page, screen, taskId>>
    /\ StorePending
    /\ UpdateButton
    /\ polls' = polls \cup {taskId}
    /\ UNCHANGED <<timers, posting, drawing, lines, server, clock, reloads>>

-----------------------------------------------------------------------------

(***************************************************************************)
(* The reply to the POST                                                   *)
(***************************************************************************)

PostAccepted(t) ==
    /\ posting # Nil
    /\ server[t] = Nil
    /\ server' = [server EXCEPT ![t] = posting]
    /\ posting' = Nil
    /\ taskId' = t /\ startedAt' = clock /\ timedOut' = FALSE
    /\ UNCHANGED <<page, screen, isBusy, polls, drawing, lines, button, clock, reloads>>
    /\ StorePending
    /\ SchedulePoll

\* A 4xx, a 503 or a lost reply: the service may have made the task.
PostFails ==
    /\ posting # Nil
    /\ \/ UNCHANGED server
       \/ \E t \in Tasks : server[t] = Nil /\ server' = [server EXCEPT ![t] = posting]
    /\ posting' = Nil
    /\ isBusy' = FALSE
    /\ UNCHANGED <<page, screen, taskId, startedAt, timedOut, timers, polls, drawing,
                   lines, stored, clock, reloads, mishaps>>
    /\ UpdateButton

-----------------------------------------------------------------------------

(***************************************************************************)
(* The polling chain                                                       *)
(***************************************************************************)

\* finishPolling
FinishPolling(keepBusy) ==
    /\ ClearPollTimer
    /\ isBusy' = keepBusy /\ timedOut' = FALSE
    /\ taskId' = Nil /\ startedAt' = 0
    /\ stored' = Nil
    /\ UNCHANGED <<page, screen>>
    /\ UpdateButton

\* handlePollingTimeout, and when pollTask calls it
TimeOut_StaysBusy == timedOut' = TRUE /\ UNCHANGED isBusy
TimeOut == timedOut' = TRUE /\ isBusy' = FALSE

PollTimedOut_Never == FALSE
PollTimedOut == clock - startedAt >= PollTimeout

\* pollTask, from its timer, up to the GET
TimerFires ==
    /\ timers > 0
    /\ timers' = timers - 1
    /\ IF ~isBusy \/ taskId = Nil
       THEN UNCHANGED <<isBusy, timedOut, polls, button>>
       ELSE IF PollTimedOut
       THEN /\ TimeOut
            /\ UNCHANGED <<screen, polls>>
            /\ UpdateButton
       ELSE /\ polls' = polls \cup {taskId}
            /\ UNCHANGED <<isBusy, timedOut, button>>
    /\ UNCHANGED <<page, screen, taskId, startedAt, posting, drawing, lines, stored,
                   server, clock, reloads, mishaps>>

\* PENDING or PROCESSING, or an error other than a 404: ask again later
PollAgain(t) ==
    /\ t \in polls
    /\ polls' = polls \ {t}
    /\ IF t = taskId THEN SchedulePoll ELSE UNCHANGED timers
    /\ UNCHANGED <<page, screen, taskVars, posting, drawing, lines, button, stored,
                   server, clock, reloads, mishaps>>

\* FAILED, an unknown status or a 404: the task is over
PollEnds(t) ==
    /\ t \in polls
    /\ polls' = polls \ {t}
    /\ IF t = taskId THEN FinishPolling(FALSE)
       ELSE UNCHANGED <<page, screen, taskVars, timers, stored, button>>
    /\ UNCHANGED <<posting, drawing, lines, server, clock, reloads, mishaps>>

\* SUCCESS: the task is over, its result is drawn while the page stays busy
PollSucceeds(t) ==
    /\ t \in polls
    /\ polls' = polls \ {t}
    /\ IF t = taskId
       THEN /\ FinishPolling(TRUE)
            /\ drawing' = [plan |-> server[t], next |-> 1]
            /\ ClearRoutes
       ELSE UNCHANGED <<page, screen, taskVars, timers, stored, button, drawing, lines>>
    /\ UNCHANGED <<posting, server, clock, reloads, mishaps>>

-----------------------------------------------------------------------------

(***************************************************************************)
(* Drawing, one vehicle after the other                                    *)
(***************************************************************************)

\* renderVehicleRoute: drawn as a whole, or not at all and noted as a failure
DrawRoute ==
    /\ drawing # Nil
    /\ drawing.next <= drawing.plan.vehicles
    /\ \/ lines' = lines \cup {[plan |-> drawing.plan, vehicle |-> drawing.next]}
       \/ UNCHANGED lines
    /\ drawing' = [drawing EXCEPT !.next = @ + 1]
    /\ UNCHANGED <<page, screen, taskVars, netVars, button, stored, server, clock, reloads, mishaps>>

\* All done, or renderOptimizedRoutes has thrown (Google's library is missing).
DrawingEnds ==
    /\ drawing # Nil
    /\ \/ /\ drawing.next > drawing.plan.vehicles
          /\ UNCHANGED mishaps
       \/ /\ drawing.next = 1
          /\ Mishap
    /\ drawing' = Nil
    /\ isBusy' = FALSE
    /\ UNCHANGED <<page, screen, taskId, startedAt, timedOut, netVars, lines, stored,
                   server, clock, reloads>>
    /\ UpdateButton

-----------------------------------------------------------------------------

(***************************************************************************)
(* Loading the page                                                        *)
(***************************************************************************)

\* initMap, then restorePendingTask: nothing stored, a task to ask about, or
\* one that has been pending for too long to ask without being told to
InitMap ==
    /\ page = "loading"
    /\ page' = "ready"
    /\ IF stored = Nil
       THEN UNCHANGED <<screen, taskVars, polls>>
       ELSE /\ screen' = stored.plan
            /\ taskId' = stored.task /\ startedAt' = stored.since
            /\ IF clock - stored.since >= PollTimeout
               THEN /\ timedOut' = TRUE
                    /\ UNCHANGED <<isBusy, polls>>
               ELSE /\ isBusy' = TRUE
                    /\ polls' = polls \cup {stored.task}
                    /\ UNCHANGED timedOut
    /\ UpdateButton
    /\ UNCHANGED <<timers, posting, drawing, lines, stored, server, clock, reloads, mishaps>>

\* Google's libraries do not load: no map, and the button is off.
InitMapFails ==
    /\ page = "loading"
    /\ Mishap
    /\ page' = "broken"
    /\ button' = "off"
    /\ UNCHANGED <<screen, taskVars, netVars, drawing, lines, stored, server, clock, reloads>>

\* applyPendingTask throws at its first marker: the map can be clicked, the task
\* is half restored, and nothing asks for it.
RestoreFails ==
    /\ page = "loading"
    /\ stored # Nil
    /\ Mishap
    /\ page' = "ready"
    /\ screen' = [stored.plan EXCEPT !.vehicles = screen.vehicles]
    /\ taskId' = stored.task /\ startedAt' = stored.since
    /\ button' = "off"
    /\ UNCHANGED <<isBusy, timedOut, netVars, drawing, lines, stored, server, clock, reloads>>

\* gm_authFailure, or the map took too long: the button is switched off, and
\* stays so until the next updatePlannerState.
MapError ==
    /\ Mishap
    /\ button' = "off"
    /\ UNCHANGED <<page, screen, taskVars, netVars, drawing, lines, stored, server, clock, reloads>>

\* The user reloads the page; a POST under way may still be accepted.
Reload ==
    /\ reloads < MaxReloads
    /\ reloads' = reloads + 1
    /\ \/ UNCHANGED server
       \/ /\ posting # Nil
          /\ \E t \in Tasks : server[t] = Nil /\ server' = [server EXCEPT ![t] = posting]
    /\ page' = "loading"
    /\ screen' = EmptyPlan
    /\ taskId' = Nil /\ startedAt' = 0
    /\ isBusy' = FALSE /\ timedOut' = FALSE
    /\ timers' = 0 /\ posting' = Nil /\ polls' = {}
    /\ drawing' = Nil /\ lines' = {}
    /\ button' = "off"
    /\ UNCHANGED <<stored, clock, mishaps>>

Tick ==
    /\ clock < MaxClock
    /\ clock' = clock + 1
    /\ UNCHANGED <<page, screen, taskVars, netVars, drawing, lines, button, stored,
                   server, reloads, mishaps>>

-----------------------------------------------------------------------------

PollAnswered(t) == PollAgain(t) \/ PollEnds(t) \/ PollSucceeds(t)

PostAnswered == PostFails \/ \E t \in Tasks : PostAccepted(t)

Next ==
    \/ \E p \in Places : MapClick(p)
    \/ \E n \in 0..MaxVehicles : SetVehicles(n)
    \/ Clear
    \/ Submit
    \/ Resume
    \/ PostAnswered
    \/ TimerFires
    \/ \E t \in Tasks : PollAnswered(t)
    \/ DrawRoute
    \/ DrawingEnds
    \/ InitMap
    \/ InitMapFails
    \/ RestoreFails
    \/ MapError
    \/ Reload
    \/ Tick

Spec == Init /\ [][Next]_vars

\* Requests are answered, timers fire, road routes come or fail, time passes.
Fairness ==
    /\ WF_vars(PostAnswered)
    /\ \A t \in Tasks : WF_vars(PollAnswered(t))
    /\ WF_vars(TimerFires)
    /\ WF_vars(DrawRoute \/ DrawingEnds)
    /\ WF_vars(Tick)

FairSpec == Spec /\ Fairness

-----------------------------------------------------------------------------

(***************************************************************************)
(* Properties                                                              *)
(***************************************************************************)

\* The page is waiting for the answer of a task (and not for that of its POST).
Waiting == isBusy /\ posting = Nil /\ drawing = Nil

\* A page that waits has exactly one timer or one request under way, for the
\* task it waits for; a page that does not wait has none (pollTask, schedulePoll
\* and the three places that end a poll).
SinglePollChain ==
    IF Waiting
    THEN /\ taskId # Nil
         /\ \/ timers = 1 /\ polls = {}
            \/ timers = 0 /\ polls = {taskId}
    ELSE timers = 0 /\ polls = {}

\* The page is in one mode at a time: a time-out has a task to ask for and
\* nothing else going on, a POST and a drawing keep the page busy and do not
\* overlap.
OneMode ==
    /\ timedOut => ~isBusy /\ taskId # Nil
    /\ posting # Nil => isBusy /\ drawing = Nil
    /\ drawing # Nil => isBusy /\ taskId = Nil

\* What is on the screen while a task is pending is what that task was made of,
\* and so is what is on it while its result is drawn: markers and routes match.
ScreenIsPosted ==
    /\ Waiting \/ timedOut => taskId # Nil /\ server[taskId] = screen
    /\ drawing # Nil => drawing.plan = screen

\* A pending task survives a reload: what restorePendingTask would find is that
\* task with that screen (as long as the storage works).
PendingIsStored ==
    Waiting \/ timedOut =>
        /\ Submittable(screen)
        /\ mishaps = 0 => stored = Pending(taskId, startedAt, screen)

\* No route of an earlier result is on the map while a new one is awaited, and
\* the routes on the map are routes of one result.
RoutesOfOneResult ==
    /\ posting # Nil \/ Waiting => lines = {}
    /\ \A l1, l2 \in lines : l1.plan = l2.plan

\* What the invariants above rest on: what is posted is what is on the screen,
\* what is stored was posted as it is stored, and a page that is loading has no
\* plan and nothing under way.
PageSound ==
    /\ posting # Nil => posting = screen
    /\ stored # Nil => server[stored.task] = stored.plan
    /\ page = "loading" =>
          screen.depot = Nil /\ ~isBusy /\ ~timedOut

\* Without a map there is nothing to submit: however the vehicle input is used on
\* a page whose map never came, the button that showMapError switched off stays
\* off and nothing is posted, for want of a depot (app.js:61 and updatePlannerState).
NoMapNoSubmit == page # "ready" => button = "off" /\ posting = Nil

\* The inductive invariant.
PageInv ==
    /\ TypeOK
    /\ SinglePollChain
    /\ OneMode
    /\ ScreenIsPosted
    /\ PageSound

\* The page does not stay busy: the service answers or the polling times out
\* (a wait that begins too late for the model's clock aside).
TooLate == startedAt + PollTimeout > MaxClock

NotBusyForever == []<>(isBusy => TooLate)

=============================================================================
