# Verification of OptiRoute

TLA+ modules that model OptiRoute's backend, its web page and its route
optimizer, the TLC configurations that check them, and proofs that TLAPS checks.
Paths such as `backend/api/views.py` are paths of the repository; every
definition that models code is listed with its lines in `PROJECT.json` ("map").

    tlc -config MCService_races.cfg MCService     # any run of the table below
    tlapm ServiceProofs.tla                       # the proofs, likewise of any ...Proofs module

1. [The system](#1-the-system)
2. [Modules](#2-modules)
3. [The service](#3-the-service)
4. [The page](#4-the-page)
5. [The engine](#5-the-engine)
6. [Runs, bounds and what they show](#6-runs-bounds-and-what-they-show)
7. [Fairness](#7-fairness)
8. [Proofs](#8-proofs)
9. [Findings](#9-findings)
10. [What is not modelled](#10-what-is-not-modelled)
11. [Plan](#11-plan)


## 1. The system

A user clicks a depot and up to a handful of stops on a map and asks for routes.
The page posts the plan; Django stores a task in Redis and pushes a Celery
message; a worker runs the C++ engine and writes the result into the task's
record; the page polls the record and draws the routes.

    page (app.js) --POST--> web threads --SET task:<id>--> Redis <--GET/SET-- worker
         ^                      |                            |                   |
         |                      +------LPUSH celery--------> queue ---deliver--> child -> engine
         +---------GET (poll)---+

| Component | Code | State it keeps | Operations |
|---|---|---|---|
| Task store | `backend/api/task_store.py` | one Redis key `task:<id>` per task, with a time to live | `create_task` (SET nx), `get_task` (GET), `update_task` (GET, check the transition, SET the whole record), `fail_stale_task` |
| Web API | `backend/api/views.py`, `admission.py` | the cooldown key; per request, where its handler is | POST (admission, create, publish, or mark as failed), GET (read, and fail a task that is too old) |
| Celery tasks | `backend/api/tasks.py` | per pool process, where the task function is and what it has read; in the parent, the hook it is running | `optimize_routes_task`, `on_failure`, `on_timeout`, `_record_failure` |
| Queue | Celery on Redis, configured in `optiroute_config/settings.py` | the list `celery`; unacknowledged deliveries | push, deliver, acknowledge late, put back after a lost connection or the visibility timeout |
| Planner page | `frontend/js/app.js` | `appState`, the map's markers and routes, one poll timer, `sessionStorage` | map click, vehicle count, clear, submit, poll, resume, draw, restore on load |
| Engine | `engine/*.cpp` | routes, their distances, the annealing's current and best solution | validate, seed, assign, 2-opt, move between routes, anneal, build the result |
| Request validation, bindings | `backend/api/serializers.py`, `engine/bindings.cpp` | what has been converted so far | refuse, or convert Python values to the engine's arguments |
| Redis server | `deploy/compose.yml` | the data set and the synced part of its append-only file | sync once a second, restart |
| Error contract, static pages, rest of the deployment | see `PROJECT.json` | none that survives a call | mappings to HTTP answers, configuration |

How they interact, and what makes that hard:

* **Shared records without atomic updates.** Web threads, pool processes and
  the worker's parent all call `update_task`. It checks the status transition on
  the copy it has read with GET and writes the whole record with a later SET.
  Anything may happen to the key in between: another writer, or expiry.
* **At-least-once delivery.** `CELERY_TASK_ACKS_LATE` acknowledges after the
  task function; a lost connection or a dead worker gives the message out again,
  perhaps while the first delivery still runs.
* **Two processes about one failure.** At the hard time limit the parent
  acknowledges and records a failure while the child is still running, and only
  then is the child killed.
* **Errors after the effect.** A Redis command that timed out may have been
  carried out, a `delay()` that raised may have pushed the message.
* **Handlers around awaits.** The page's handlers stop at `await`; while a GET
  or a drawing is under way the user may clear, resume or reload.
* **A store that forgets.** Redis comes back from a crash as it was at its last
  sync, up to a second ago; threads, worker and clients remember more than it does.
* **The same limits in several places.** The serializer, the bindings and
  `validate_inputs` each test the input; where they disagree, an accepted task
  fails or a good request is refused.
* **Floating-point comparisons with a tolerance** in the engine's loops, and
  distances that are kept beside the routes and updated by hand.

What makes each part correct:

| Component | Properties |
|---|---|
| Task store | a record is always coherent and about its own body; input and creation time survive every update; no way back to PENDING, no success without a start; it implements a register per task |
| Web API, queue | an accepted task is somebody's job; the queue limit is exceeded by a known amount at most |
| Celery tasks | a solved task is not started again; no run for a task that is too old; every accepted task ends, also when Redis forgets |
| Page | one poll chain; one mode at a time; markers, task and routes belong together; a pending task survives a reload; the page does not stay busy; the map shows whole routes and nothing stray |
| Request validation, bindings | what one layer accepts the next one can take; a result for well-formed arguments and for no others |
| Engine | every stop on one route, once; no empty route; the kept distances and predicted objectives are the real ones; the result is a local optimum; the search never loses its best solution; the answer is the plan it found, measured along its coordinates; it ends |

The hazards these properties are for are listed, each at its line, in
`PROJECT.json` ("hazards").


## 2. Modules

| Module | Models | Extends |
|---|---|---|
| `TaskRecord` | the record, the transition table, the pure part of each update | |
| `TaskStore` | the keys, the clock, GET/SET as single commands, expiry, the mishap counter | `TaskRecord` |
| `Broker` | the queue and lost deliveries (external) | `TaskStore` |
| `WebApi` | web threads, admission, POST and GET | `Broker` |
| `Worker` | pool processes, the parent, deliveries and hooks | `Broker` |
| `OptimizationService` | their composition, its fairness and its properties | `WebApi`, `Worker` |
| `TaskRegister` | the abstract specification: a register per task | `TaskRecord` |
| `ForgetfulService` | the service over a Redis that is restarted and forgets | `OptimizationService` |
| `MCService`, `MCForgetful` | instances of the service | `OptimizationService`, `ForgetfulService` |
| `ServiceProofs` | proofs: records and copies, with and without a Redis that forgets | `ForgetfulService` |
| `RegisterProofs` | proofs: where records and copies come from, the abstract register | `ServiceProofs` |
| `CustodyProofs` | proofs: whose job a task is, the length of the queue | `RegisterProofs` |
| `Planner`, `MCPlanner`, `PlannerProofs` | the page, its instances, the proofs about it | |
| `RouteDrawing`, `MCRouteDrawing`, `DrawingProofs` | how a result is drawn, request by request, its instances, the proofs | |
| `Loops` | for loops, as a recursive function | |
| `LoopProofs` | lemmas: what a loop keeps and brings about, for any turn | `Loops` |
| `Routes` | pure operators of the engine: distances, objective, moves, 2-opt, deltas, the searches | `Loops` |
| `EngineInput` | doubles, coordinates and `validate_inputs` | |
| `Optimizer`, `MCOptimizer` | `optimize_routes` as a state machine, and its instances | `Routes`, `EngineInput` |
| `Assignment` | the abstract specification: what `optimize_routes` promises | `Routes`, `EngineInput` |
| `EngineProofs` | the proofs about the search and that it implements `Assignment` | `Optimizer` |
| `EngineCall`, `MCEngineCall`, `CallProofs` | serializer, bindings and validation of one call, its instances, the proofs | `EngineInput` |

Definitions such as `IsStale_Never` stand just before the definition they vary
(`IsStale`). They are not part of any specification: each is a plausible mistake
in that code which makes one of the properties fail, and `PROJECT.json`
("mutants") says which.


## 3. The service

**State.** `store[t]` is the record under `task:<t>` or `Nil`, `expires[t]` when
its key disappears, `clock` the time. `queue` is the list `celery`, `orphans[t]`
counts unacknowledged deliveries whose worker has died. `web[w]` is where a
gunicorn thread is in its handler, with the copy its `update_task` has read;
`posted[t]` is what the POST that made `t` has come to; `cooldown` is the
admission key. `child[c]` is the same for a pool process, with whether its
delivery is still unacknowledged (`held`) and when it was taken (`started`);
`parent` is the hook the worker's parent is running. `faults` counts mishaps.

**Data.** A task id stands for the request body it was created from, and
`Solution(input)` for the engine's answer to it: the properties ask only whose
body and whose answer a record carries. Error texts are four values. Times are in
units of a model clock; the assumptions `TimeLimit < MaxAge < Retention` are those
that `settings.py` checks or sets.

**Actions.** Each Redis command is one step.

| Code | Actions |
|---|---|
| POST: `check_capacity` | `CheckQueue` (LLEN), `TakeCooldown` (SET nx); `ExpireCooldown` |
| POST: `create_task` | `Create`, `CreateFails` |
| POST: `delay()` | `Publish`, `PublishTwice`, `PublishFails` |
| POST: `update_task(FAILED)` after a failed `delay()` | `MarkRead`, `MarkWrite`, `WebUpdateFails` |
| GET with `fail_stale_task` | `Poll`, `StaleRead`, `StaleWrite`, `WebUpdateFails` |
| `optimize_routes_task` | `Deliver`, `LoadTask`, `ReadForUpdate`, `WriteUpdate`, `Solve`, `SolveFails` |
| its `except` branch, `_record_failure` in the child | `RecordFailure`, `ChildFault` |
| return or exception, late acknowledgement | `ReportSuccess`, `ReportFailure` |
| `on_failure`, `on_timeout` and the `_record_failure` they call | `ChildLost`, `HardTimeout`, `ParentRecord`, `ParentFault`, `EndHooks` |
| at-least-once delivery | `Redeliver`, `WorkerCrash`, `RestoreOrphan` |
| crash and restart of gunicorn | `WebCrash` |
| time and time to live | `Tick` |

Every action named `...Fails`, `...Fault`, `...Twice` or `...Crash`, and
`Redeliver`, costs one mishap. `ChildLost` and a `HardTimeout` during the engine
run cost none: a slow or crashing engine is what the hooks are there for. Requests that
change nothing (a 400, a 429, a GET of a task that is not stale) are stuttering
steps.

**Abstract specification.** `TaskRegister` says what a reader of the store may
rely on without any process in sight: a register per id is filled once, with a
PENDING record; moves between coherent records of the same body and creation
time, never back to PENDING and never from PENDING straight to SUCCESS; and is
emptied. Two things it has to allow are worth knowing: a final status may change
(finding 1), and a write that comes after expiry may fill the register again,
because the SET of `update_task` has no `xx`. The mapping is `register <- store`
and `spent <- Spent`, the ids whose POST has got past creating its record.

**A Redis that forgets.** `ForgetfulService` adds `disk`, what the synced part of
the append-only file says: records and their expiry, the queue, the deliveries
Redis knows to be unacknowledged, the cooldown key. The file is a log, so a
restart goes back to one moment in the past for all of them together.
`Sync` copies the present to `disk` at any time; as it happens every second and a
unit of the model's clock stands for minutes, no unit passes without one
(`SyncedTick`). `RestartRedis`, a mishap, copies it back. Web threads, children, the
parent and the clients keep what they remember: a child may write PROCESSING, lose it
with the restart, and be refused its SUCCESS because the record says PENDING
again; it then records a failure. An accepted task may lose its record (its
client gets a 404), or its message and keep its record; then the next GET after
its maximum age settles it.


## 4. The page

JavaScript runs a handler to its end or to its next `await`; so an action is a
handler up to its `await`, and what it awaits comes back in an action of its own.

**State.** `screen` is depot, stops and vehicle count as displayed; `taskId`,
`startedAt`, `isBusy`, `timedOut` are fields of `appState`; `timers` counts live
poll timers; `posting` is the body of a POST under way, `polls` the tasks of the
GETs under way; `drawing` is the result that is being drawn and the vehicle that
comes next; `lines` are the routes on the map, each with the plan it answers;
`button` is the start button; `stored` is `sessionStorage`; `server[t]` is the
body the service made `t` of.

| Code | Actions |
|---|---|
| `handleMapClick`, the vehicle input, `clearLocations` | `MapClick`, `SetVehicles`, `Clear` |
| `submitOptimization` | `Submit`, then `PostAccepted` or `PostFails` |
| `pollTask` | `TimerFires`, then `PollAgain`, `PollEnds` or `PollSucceeds` |
| `resumePolling` | `Resume` |
| `renderOptimizedRoutes` | `DrawRoute`, `DrawingEnds` |
| `initMap`, `restorePendingTask`, `applyPendingTask` | `InitMap`, `InitMapFails`, `RestoreFails` |
| `showMapError`; a reload | `MapError`; `Reload` |

**Drawing.** `DrawRoute` of `Planner` draws one vehicle as a whole or not at all.
`RouteDrawing` is what the code does instead: `Begin` (validation, clearing the map),
`LibraryMissing`, then for each vehicle a request per leg (`LegDrawn`,
`LastLegDrawn`), any of which may fail and take back the legs on the map
(`RouteFails`), and `Finish`, which makes a checkbox per drawn route (`Toggle`).
`ClearMap` is the clearing by `clearLocations` and `submitOptimization`. A leg is
the interval of the route's points that one request covers.

The service is seen through its answers. A GET may give any status, and a success
comes with the result of the task's own body. That is `RecordsConsistent`, which
is proved of the service.


## 5. The engine

`Routes` has the pure part: closed route distances, the objective (longest route,
then total), `IsBetter` with its tolerance, the three moves, one 2-opt pass, the
deltas with which a move is judged without making it, and the two searches with
their loop order. `Optimizer` is `optimize_routes` as a state machine: `Start`
validates the arguments and fills the distance matrix, and then there is an action
per turn of a loop: `SeedVehicle`, `AssignStop`, `ConstructionEnds`, `TwoOptPass`
(a pass that changed something is followed by another), `MakeMove` followed by the
2-opt of the two routes it changed, `LocalSearchEnds`, `AnnealStep`,
`AnnealEnds`, the local search again, and `Return`, which builds the result.

**Data.** Doubles are integers in a unit of which `Eps` is
`kComparisonEpsilon`, and the distances of an instance are such that they really
are whole numbers of that unit, so sums and comparisons are exact. Rounding
errors of the doubles are not modelled. `TwoOpt` and the construction are
deterministic, as in the code; the annealing's generator is a free choice among
the moves it may propose and, for a worse candidate, between taking and leaving
it, so that the properties hold for every seed and temperature. The 32 attempts
of `propose_annealing_neighbor` are one choice that may come to nothing where an
attempt can.

For loops are `Loop` of `Loops`, a recursive function; no module has a RECURSIVE
operator. Each loop of a nest has a name of its own (`RelocationsInto` in
`RelocationsOf` in `RelocationsFrom`), so that a proof can speak of it.
`Once(Op, value)` is `Op(value)`, written so that TLC evaluates `value` once.

**Abstract specification.** `Assignment` says what the function promises, whatever
its search does: arguments that violate a constraint are refused; for others a
plan grows by one stop at a time, no stop twice, until it is complete; from then
on it only gives way to complete plans (every vehicle drives, every stop is
visited once) that are not worse; and the answer is the last plan, with the
lengths of its tours along the coordinates it returns. `Optimizer` implements it
with `plan <- routes`, the best solution found so far, and `answer <- result`.
`SpecWithin(leeway)` is the same with a weaker "not worse": not worse than the old
plan would be if its longest route were longer by `leeway` for each pair of stops.
`Spec` has no leeway. `solve` checks `Spec`; that the search keeps the other for
every input, with three tolerances for leeway, is proved.
The objective in `Assignment` is measured afresh from the plan: the refinement
also says that a step which by the kept distances and deltas is an improvement really
is one, and that the `distance_km` of the result are not stale.

**The way to the engine.** `EngineCall` follows one body through the serializer (for
the service) or straight into the bindings (a direct call, which the module's
tests make): `Serialize`, `MatchSignature`, `CheckVehicles`, `ConvertDepot`,
`ConvertStop`, `CastVehicles`, `Solve`, in the order of the code, each with what it
throws. A Python value is its type and its number; a double is a whole number of a
small range, an infinity or NaN; an int may be too large for a double or for a
C++ `int`. The last of these ends in a RuntimeError of pybind11, where the
docstring (`bindings.cpp:153`) speaks of ValueError only; no result is
returned either way.


## 6. Runs, bounds and what they show

| Run | Module, bounds | Properties | Shows | Distinct states |
|---|---|---|---|---|
| `races` | `MCService`: 1 task, 2 threads, 1 child, clock 4, 2 mishaps | `TypeOK`, `RecordsConsistent`, `CopiesSound`, `NoAbandonedRun`, `InputPreserved`, `NoSkippedStart`, `SuccessNotReopened`, `ImplementsRegister` | whatever the GETs and SETs interleave to, a record stays coherent, keeps its body, never goes back to PENDING; a solved task is not reopened; the store implements the register | 1,330,994 |
| `admission` | 3 tasks, 2 threads, limit 1, cooldown on, 1 mishap | `QueueBound` | how far check-then-publish and redelivery can pass the limit | 121,097 |
| `settled` | `MCForgetful`, `ForgetfulFairSpec`: 1 task, 1 thread, clock 3, 1 mishap | `RecordsConsistent`, `CopiesSound`, `EventuallySettled` | with a mishap, a restart of Redis among them, and a client that asks, an accepted task is settled and no record is incoherent | 537,559 |
| `served` | `FairSpec`, 2 tasks, 1 thread, clock 3, no mishap | `AcceptedHasOwner`, `AcceptedIsServed` | without a mishap, an unsettled accepted task is always somebody's job, and the worker alone settles it | 228,158 |
| `final` | 1 task, 1 thread, clock 2, no mishap | `TerminalIsFinal` | violated: finding 1 | |
| `page` | `MCPlanner`: 2 tasks, 2 places, 2 stops, 2 vehicles, clock 3, 2 reloads, 1 mishap | `TypeOK`, `SinglePollChain`, `OneMode`, `ScreenIsPosted`, `PendingIsStored`, `RoutesOfOneResult`, `PageSound`, `NoMapNoSubmit` | one chain of polling, and screen, task and routes belong together | 1,584,612 |
| `idle` | `FairSpec`, 1 task, 1 place, clock 3, 1 reload, 1 mishap | `NotBusyForever` | the page is answered or gives up | 2,978 |
| `draw` | `MCRouteDrawing`: 2 results of up to 3 vehicles, routes of 2 to 6 points, 1 intermediate point per request | `TypeOK`, `NothingStray`, `KeptAreWhole`, `EveryVehicleAccounted` | whatever fails and whatever is ticked, the map shows whole routes and nothing else | 9,697 |
| `solve` | `MCOptimizer`: placements of up to 4 stops, 1 to 3 vehicles, 5 stops in 72 orders, invalid arguments, 2 annealing turns | `TypeOK`, `EachStopOnce`, `EveryVehicleDrives`, `DistancesAreCurrent`, `PredictionsAreExact`, `ResultIsLocalOptimum`, `ImplementsAssignment` | the moves keep an assignment, the kept and predicted numbers are the real ones, the best solution is never lost, the result is a local optimum, and the function implements `Assignment` | 315,886 |
| `ends` | `FairSpec`, 4 stops, 3 vehicles with every placement on 3 points of a line, 2 vehicles on a kite, 1 turn | `Terminates` | the search ends where different lengths differ by more than the tolerance | 82,323 |
| `close` | `FairSpec`, 4 stops, 2 vehicles, places 1.2 to 3.2 mm apart, no annealing | `Terminates` | violated: finding 2 | |
| `call` | `MCEngineCall`: up to 3 stops where 2 are allowed, `MaxInt` = 1000 | `SolvedIffWellFormed`, `AcceptedIsSolved`, `RejectedForCause` | serializer, bindings and `validate_inputs` agree on what is well-formed | 127,984 |

Why the bounds are enough:

* *Tasks.* Records of different tasks meet only in the queue and in who is busy,
  so one task is enough for the races on a record (`races`), and two or three
  for the questions about the queue and about who owns what.
* *Threads and children.* The deployment has one gunicorn worker with two
  threads (`Dockerfile:44`) and one pool process (`deploy/compose.yml:47`).
  `races` and `admission` have exactly these. `settled` has one thread: two GETs of a
  stale task write the same record, which `races` has, and the child and the parent
  still run against the one thread. `SuccessNotReopened`
  is stated of the single pool process: with two, a redelivered message may run beside
  the first delivery.
* *Clock.* `TimeLimit = 1`, `MaxAge = 2`, `Retention = 3` or `4`: the smallest
  numbers in the order the settings demand. `MaxClock` lets a task become stale,
  and in `races` lets its key expire and a late write bring it back; `final`
  needs no expiry, `admission` no time at all.
* *Mishaps.* Two in `races`: a mishap and one in what repairs it, such as a
  redelivery followed by a failing command.
* *Page.* Two tasks and two places let an answer for another task or another
  plan be told apart from the right one. Two reloads let a restored page be
  reloaded again; `PollTimeout = 2` of `MaxClock = 3` lets polling go on, time out
  and be resumed.
* *Drawing.* With one intermediate point a route of 3 to 6 points takes one to three
  requests, the last of them full or not; three vehicles let one fail between two
  that do not, and a second result shows that nothing of the first one is left.
* *Engine.* `solve` takes four stops on a kite, two vehicles, one to three stops with
  one vehicle, and three with three, with distances of which different sums
  differ by more than `Eps = 2` where the construction compares them, and with every
  choice of the generator in two annealing turns: stops on the depot, on each
  other and apart, routes of one to four stops, improving and worsening moves.
  Placements that are mirror images of others are left out. With four stops
  annealing never finds anything better than the first local search; the five stops
  of `TownInputs` are placed so that its second turn does and that the local search
  after it has something left to improve. `BadInputs` has one argument of every kind
  `validate_inputs` throws for. `ends` has three vehicles on a line, so that a move
  leaves a route unchanged, and the placements on the kite, where 2-opt has routes
  to shorten.
* *Calls.* `MaxStops` is 2, so that the limit of 100 stops is met and passed by one;
  coordinates are at the limits, one beyond them, and not numbers at all.

Deadlock is not checked (`CHECK_DEADLOCK FALSE`) because the bounded systems do
stop: the clock, the mishaps and the ids are used up, and the engine returns.

Symmetry is used in `races` and `admission`, which have only safety properties, over the
threads, which no property tells apart.


## 7. Fairness

* *Service* (`FairSpec`). Gunicorn threads, pool processes and the parent keep
  running the handler they are in: weak fairness of `ThreadStep(w)`,
  `ChildStep(c)`, `ParentStep`. The parent is one process that does one thing at a
  time, so handing a message to a free child and taking a child's outcome are
  enabled again and again rather than all the time: strong fairness of
  `Deliver(c)` and `Report(c)`. Redis gives an unacknowledged delivery back
  after `visibility_timeout`: weak fairness of `RestoreOrphans`. Time passes.
  Nothing that goes wrong is obliged to, nor is anybody obliged to post.
  `ForgetfulFairSpec` adds that a client with an id keeps asking for it, which the page
  does until its poll timeout and beyond it when the user resumes: it is assumed
  only where a mishap can lose the worker's own record of a failure, and then
  `fail_stale_task` is what settles the task. A GET needs a thread that other
  requests also need, hence strong fairness. The forgetful
  Redis syncs once a second (weak fairness of `Sync`) and is never obliged to
  restart.
* *Page*. Requests are answered, timers fire, Google's answers come or fail, time
  passes. `fetch` has no time limit (`app.js:308`), so the first of these is an
  assumption about the network, and without it the page can stay busy.
* *Engine*. The function runs until it returns: weak fairness of `Next`.


## 8. Proofs

Every safety property of the runs that pass, invariant, action property or
refinement, is also a theorem, for every value of the constants that satisfies the named
assumptions of the modules (`RecordAssumption`, `StoreAssumption`,
`WebAssumption`, `WorkerAssumption`, `PlannerAssumption`, `DrawingAssumption`,
`RoutesAssumption`, `EngineInputAssumption`, `OptimizerAssumption`,
`EngineCallAssumption`). TLC evaluates them in the runs. They fix the order of the
time limits that `settings.py` checks, make threads and children finite sets with at
least one child, keep `Nil` apart from everything else, and make `Distance` a metric on
the places. `ImplementsAssignment` alone is proved under a condition on the behaviour,
and beside it a weaker promise without one.

| Theorem | States | Property | For any |
|---|---|---|---|
| `ServiceProofs!ConsistencyInvariant` | `Spec => []ConsistencyInv` | | tasks, threads, pool processes, limits, clock bound, number of mishaps |
| `ServiceProofs!TypeCorrect`, `RecordsAreConsistent`, `CopiesAreSound` | its parts | `TypeOK`, `RecordsConsistent`, `CopiesSound` | the same |
| `ServiceProofs!ForgetfulInvariant` | `ForgetfulSpec => []ForgetfulInv` | | the same, and any restarts |
| `ServiceProofs!ForgetfulRecordsAreConsistent`, `ForgetfulCopiesAreSound` | its parts | `RecordsConsistent`, `CopiesSound` | the same |
| `RegisterProofs!ProvenanceInvariant` | `Spec => []ProvenanceInv` | | as for the service |
| `RegisterProofs!InputIsPreserved`, `NoStartIsSkipped` | action properties | `InputPreserved`, `NoSkippedStart` | the same |
| `RegisterProofs!NoRunIsAbandoned` | `Spec => []NoAbandonedRun` | `NoAbandonedRun` | the same |
| `RegisterProofs!SuccessIsNotReopened` | an action property | `SuccessNotReopened` | the same, one pool process |
| `RegisterProofs!ServiceImplementsRegister` | `Spec => Register!RegisterSpec` | `ImplementsRegister` | the same |
| `CustodyProofs!AcceptedIsOwned` | `Spec => []AcceptedHasOwner` | `AcceptedHasOwner` | the same |
| `CustodyProofs!QueueIsBounded` | `Spec => []QueueBound` | `QueueBound` | the same |
| `PlannerProofs!PageInvariant` | `Spec => []PageInv` | | tasks, places, limits, number of reloads and mishaps |
| `PlannerProofs!PageTypeCorrect`, `PollChainIsSingle`, `PageIsInOneMode`, `ScreenAnswersTask`, `PageIsSound` | its parts | `TypeOK`, `SinglePollChain`, `OneMode`, `ScreenIsPosted`, `PageSound` | the same |
| `PlannerProofs!PendingSurvivesReload`, `RoutesAreOfOneResult`, `NoMapMeansNoSubmit` | from an addition each | `PendingIsStored`, `RoutesOfOneResult`, `NoMapNoSubmit` | the same |
| `DrawingProofs!DrawingInvariant` | `Spec => []DrawingInv` | | results, numbers of points, intermediate points per request |
| `DrawingProofs!DrawingTypeCorrect`, `NothingStrayOnMap`, `KeptRoutesAreWhole`, `VehiclesAreAccounted` | its parts | `TypeOK`, `NothingStray`, `KeptAreWhole`, `EveryVehicleAccounted` | the same |
| `CallProofs!CallInvariant` | `Spec => []CallInv` | | bodies, limits |
| `CallProofs!DirectCallsAreSolvedIffWellFormed`, `AcceptedRequestsAreSolved`, `RejectionsHaveACause` | its consequences | `SolvedIffWellFormed`, `AcceptedIsSolved`, `RejectedForCause` | the same |
| `EngineProofs!EngineInvariant` | `Spec => []EngineInv` | | inputs, metrics, tolerances, annealing turns |
| `EngineProofs!EngineIsTyped`, `EachStopIsVisitedOnce`, `EveryVehicleIsUsed`, `DistancesAreTheRoutes`, `PredictionsAreTheMoves` | its consequences | `TypeOK`, `EachStopOnce`, `EveryVehicleDrives`, `DistancesAreCurrent`, `PredictionsAreExact` | the same |
| `EngineProofs!ResultCannotBeImproved` | `Spec => []ResultIsLocalOptimum` | `ResultIsLocalOptimum` | the same |
| `EngineProofs!SearchImplementsAssignmentNearly` | `Spec => Promised!SpecWithin(3 * Eps)` | | the same |
| `EngineProofs!SearchImplementsAssignment` | `Spec /\ []MovesCompare => Promised!Spec` | `ImplementsAssignment` | the same, where "better" is transitive on what a search compares |

### The service

*Records.* `RecordsConsistent` is not inductive: nothing in it speaks of a SET
that is about to happen. And no relation between the copy that `update_task` has
read and what the store holds by the time of the SET can be the missing part:
there is none, the store may have moved on or be empty. What makes the SET safe is
the copy alone. It was a coherent record of its task when it was read, its own
status allowed the status that will be written, and every writer overwrites the
fields that the new status is about. `CopiesSound` says so for each thread, child
and the parent; a child that has solved its task also carries the answer to that
task's body. `ConsistencyInv` is `TypeOK /\ RecordsConsistent /\ CopiesSound`.
The proof has a lemma per pure update (`FailedIsSound`, `ProcessingIsSound`,
`SuccessIsSound`: a permitted update of a coherent record gives a coherent one),
one for reading (`ReadIsWritable`), and one step per action.

*A Redis that forgets.* As `CopiesSound` relates no copy to the store, a restart
cannot break it. `ForgetfulInv` adds only that what is on disk has its type and that
its records are coherent.

*Where records and copies come from.* The action properties relate a write to a record
that somebody read earlier, so they need to know what can have happened to the key
in between. `ProvenanceInv` says: until its message is published an id is known to
the thread that handles its POST and to nobody else (`FreshIds`); all there is of a
task, stored or copied, was created at the same time, and whoever is about to run it took its
message before it was too old by that time (`OneBirth`); and while a record is
PENDING nobody has a copy that is further on (`NothingBeforePending`). The first is why
`create_task` never meets an old copy, the second makes a late write harmless, even
one that brings an expired key back, and from the third it follows that nothing goes
back. The proof summarises what a step may do (`WorkerEffect`, `WebEffect`,
`StoreEffect`: put in its place an updated copy, take a new copy of what is stored,
pass a message on), once per action, and then shows that these effects keep the
invariant; the properties and the refinement of `TaskRegister` follow from the same
effects. `NoReopening` adds, for a single child, that what it is about to overwrite with
PROCESSING is not a SUCCESS.

*Whose job a task is.* `CustodyInv`, which speaks of the time before the first
mishap, says where the one message of a task is (`OneMessage`), that a child
holds it unless the hard limit has struck and it can no longer start the engine
(`Custody`), and that whoever lets go of a task has settled it (`Settled`).

*The queue.* `check_capacity` measures the queue; the message arrives some steps
later. What stays bounded is `Backlog`: the messages in the queue, the threads that
have passed the test and not yet published, and the deliveries that died with a worker.
A mishap adds at most one per child, and a thread that measures leaves room for all the
others.

### The page

`SinglePollChain` fails to be inductive at a stored task and at a POST
under way: the answer to the POST starts a chain, a reload starts one from
storage. `OneMode` says what else can be going on when they do, and `PageSound`
that what is posted is on the screen and that what is stored was posted as it is
stored. `PageInv` is these with `TypeOK` and `ScreenIsPosted`. On top of it
`StoredInv` says that what is awaited is in storage, `LinesInv` that the map is empty
while something is awaited and otherwise has routes of the result being drawn,
`NoMapInv` that a page without a map has no depot.

### The drawing

What is missing from the properties is the vehicle whose turn it is. `PartialRoute` says
that its legs so far lead from its first point to the point the next request starts
from, each starting where another ends. The last leg then makes a whole route, and a
failure takes back legs that belong to no kept route.

### Calls

`CallInv` says what each stage has established (`PassedSoFar`): what is converted
so far are the first stops of the body, and whoever came through the serializer has a
well-formed one. It rests on two lemmas that compare the layers test by test:
what is well-formed passes the bindings and `validate_inputs`, and nothing else does
(`WellFormedPasses`, `PlaceIsConvertibleAndValid`), and the serializer makes floats
of numbers that stay within the limits (`FloatsStayWellFormed`).

### The engine

*Loops.* What a recursive function computes needs induction, and the library's induction
theorems take a predicate, which the provers cannot instantiate. `LoopProofs` does
without: the turns after which a property fails would be a set of naturals with a
least element. It has the turn of the loop as a CONSTANT and is instantiated once per
loop (`Measuring`, `Reversing`, `RelocatingInto`, ...), so that `LoopKeeps` is at hand
as the rule for loop invariants and `LoopReaches` for what a loop cannot overlook.

*The plan.* `EngineInv` says that the routes, and those of the annealing, are a
partition of the stops that are assigned (`PlanInv`), that one vehicle after the other
gets its seed (`SeedInv`), and that each route on which 2-opt has no work left is as
long as it says (`MeasuredInv`). The lemmas on which it rests say that appending,
relocating, swapping and reversing keep a partition, and that the deltas of `Routes`
are differences of lengths (`RemovedDistance`, `InsertedDistance`, `ReplacedDistance`).
With them `PredictionsAreExact` needs no step of its own: the kept distances are the
real ones where a delta is added to them.

*The result.* `SearchedInv` adds that 2-opt would leave each route it has no
work on as it is, and that nothing was better when the search returned. That the
searches overlook no move is `RelocationsReach` and `SwapsReach`, from
`LoopReaches`: once a move has been considered that is better than the routes as they
are, the search has a move to return, this one or another (`Without`), and keeps one
(`NoMoveIsBetter`). For a reversal it takes that the length of a route does not
depend on its direction, since `Distance` is symmetric (`ReversedDistance`).

*The refinement* says that no step makes the plan worse. A move is found along a
chain of moves each of which is better than the one before it, and `is_better_objective`
is not transitive, as finding 2 shows: where lengths differ by less than the tolerance, a
chain of better moves may end at a worse one. There are two theorems, therefore.

`SearchImplementsAssignmentNearly` assumes nothing about the distances. One
comparison lets the longest route become `Eps` longer at most, and a search for a move
makes no more comparisons than it considers moves: `RelocationsClimb` and `SwapsClimb`
count them through the nested loops (`Climbed(k)`: what up to `k` comparisons can come
to), and with `n` stops there are at most `3 * n * n` (`BestMoveClimbs`). A 2-opt pass
and the annealing's one comparison of complete plans need no such count. `Eps` is a
millionth of a kilometre in the code, a millimetre: with 5 stops a step may make
the longest route 7.5 cm longer, with 100 stops 30 m, if all its comparisons were that
unlucky.

`SearchImplementsAssignment` is the promise without a leeway, of behaviours in which
`MovesCompare` always holds: on the objectives which one search for a move compares,
better than better is better. By `FarMovesCompare` that is so where these
figures, longest routes and totals, are pairwise equal or more than `Eps` apart. They
are those of one set of routes and its neighbours, not of all plans. TLC finds
`MovesCompare` true in every state of `solve` (its distances are multiples of 3, `Eps`
is 2) and false on the inputs of `close`.

### What is only model-checked

Liveness (`EventuallySettled`, `AcceptedIsServed`, `NotBusyForever`, `Terminates`):
TLAPS cannot prove it, since fairness needs ENABLED. `TerminalIsFinal` and
`Terminates` in the run `close` are false. That the inductive invariants are what they claim
is not left to TLC: the theorems above prove them.


## 9. Findings

1. **A final status does not always stay** (run `final`, `TerminalIsFinal`,
   `task_store.py:116`). The transition table lets SUCCESS and FAILED only be
   followed by themselves. The check is made on the copy that was read, so a child
   that has read PENDING writes PROCESSING after a web thread has marked the
   stale task as FAILED. The record goes from FAILED to PROCESSING and on to
   SUCCESS. A client can thus be told that a task failed and find it solved
   later. It needs no mishap: `MaxFaults = 0`. `RecordsConsistent`, `InputPreserved`
   and `NoSkippedStart` say what survives this, `SuccessNotReopened` that with a
   single pool process the opposite, a solved task that is started again, does not
   happen.
2. **The local search may go round in a circle** (run `close`, `Terminates`,
   `local_search.cpp:335`). `is_better_objective` takes lengths within
   `kComparisonEpsilon` (a millionth of a kilometre) for equal, so it is not
   transitive: each of a few solutions can be better than the one before it and
   the first better than the last. `improve_across_routes` moves for as long as it
   finds something better. With a depot at (0, -4) and stops at (0, -4), (0, 4), (3, 0),
   (-3, 0), in units of 0.4 mm, and two vehicles it never returns. The compiled
   engine hangs on that input, and returns at once when the unit is 0.4 m. Coordinates that close
   are not what a user clicks; a task with them ends at the hard time limit.


## 10. What is not modelled

* *Exception handler, error contract* (`exceptions.py`, `errors.py`): pure mappings
  from an exception to a status code and a text; nothing they do changes state.
* *Error texts and `result_to_dict`*: the wording of exceptions, and the copying of
  a result into a dict, field by field.
* *Site, health and index views; markup, style; scripts and deployment files.*
  From the latter the models take numbers, and the persistence and restart of Redis.
* *A Redis that is full.* With 64 MB and `noeviction` a SET can be refused; that is a
  command that raises, of which the models have many.
* *A reload while a result is drawn* loses the result: `finishPolling` has removed
  the stored task (`app.js:522`). The model has the step; nothing promises
  otherwise, so no property is about it.
* *Floating point*: rounding in sums of distances, the haversine formula, the
  acceptance probability and temperature of the annealing.
* *Storage that cannot be cleared*: `storePendingTask` may fail in the model,
  `removeItem` may not.
* *Celery and kombu* are modelled as the code uses them: `Broker`, and the
  acknowledgement parts of `Worker`.


## 11. Plan

Done, in this order: the service (records, store, queue, web, worker, their
composition, the abstract register), its invariant proved; the page, its
invariant proved; the engine; its input and result, the abstract assignment it
implements, the way of a request to it; the service over a Redis that forgets; the
drawing of a result.

The proofs: the service's invariant, the provenance of its records and the abstract
register, custody of tasks and the bound of the queue, the service over a Redis that
forgets; the page; the drawing; the calls; loops, the engine's invariant, its local
optimum and its refinement of `Assignment`.

Next:

1. *Service*: `ForgetfulService` as a register per task. It does not implement
   `TaskRegister` as it stands, as a restart may take a record back to PENDING or
   empty a key and leave a copy behind; the register needs a step for it.
2. *Page and drawing*: `RouteDrawing` as an implementation of the `DrawRoute` steps of
   `Planner`.
