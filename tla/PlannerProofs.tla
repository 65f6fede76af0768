---------------------------- MODULE PlannerProofs ----------------------------
(***************************************************************************)
(* Proofs about Planner, for any number of tasks, places and stops, any    *)
(* time limit and any number of reloads and mishaps.                       *)
(***************************************************************************)
EXTENDS Planner, SequenceTheorems, TLAPS

-----------------------------------------------------------------------------

\* One more stop, below the limit, is a plan again (handleMapClick).
LEMMA StopsGrow ==
    ASSUME NEW plan \in Plans, NEW p \in Places, Len(plan.stops) < MaxStops
    PROVE  [plan EXCEPT !.stops = Append(@, p)] \in Plans
<1>1. PICK n \in 0..MaxStops : plan.stops \in [1..n -> Places]
  BY DEF Plans
<1>2. Len(plan.stops) = n /\ plan.stops \in Seq(Places)
  BY <1>1, PlannerAssumption
<1>3. n + 1 \in 0..MaxStops
  BY <1>1, <1>2, PlannerAssumption
<1>4. Append(plan.stops, p) \in [1..(n + 1) -> Places]
  <2>1. Append(plan.stops, p) \in Seq(Places)
    BY <1>2
  <2>2. Len(Append(plan.stops, p)) = n + 1
    BY <1>1, <1>2
  <2> QED BY <2>1, <2>2, LenProperties, Zenon
<1>5. Append(plan.stops, p) \in UNION {[1..k -> Places] : k \in 0..MaxStops}
  BY <1>3, <1>4
<1> QED BY <1>5 DEF Plans

\* A body is no null, and its vehicles are at least one.
LEMMA BodyFacts ==
    ASSUME NEW plan \in Bodies
    PROVE  /\ plan \in Plans /\ plan # Nil
           /\ Submittable(plan)
           /\ plan.vehicles \in 1..MaxVehicles
<1>1. plan \in Plans /\ Submittable(plan)
  BY DEF Bodies
<1>2. plan # Nil
  BY <1>1, PlannerAssumption
<1>3. plan.vehicles \in 0..MaxVehicles /\ plan.vehicles >= 1
  <2>1. plan.vehicles \in 1..Len(plan.stops)
    BY <1>1 DEF Submittable
  <2> QED BY <1>1, <2>1 DEF Plans
<1> QED BY <1>1, <1>2, <1>3, PlannerAssumption

LEMMA EmptyIsPlan == EmptyPlan \in Plans
<1>1. <<>> \in [1..0 -> Places]
  OBVIOUS
<1>2. 0 \in 0..MaxStops /\ 1 \in 0..MaxVehicles
  BY PlannerAssumption
<1>3. <<>> \in UNION {[1..n -> Places] : n \in 0..MaxStops}
  BY <1>1, <1>2
<1> QED BY <1>2, <1>3 DEF EmptyPlan, Plans

-----------------------------------------------------------------------------

USE DEF Waiting, SinglePollChain, OneMode, ScreenIsPosted, PageSound, PageInv
USE DEF Editable, RoomForStop, ClearRoutes, TimeOut, PollTimedOut

LEMMA PageInit == Init => PageInv
<1> SUFFICES ASSUME Init PROVE PageInv
  OBVIOUS
<1>1. TypeOK
  BY EmptyIsPlan DEF Init, TypeOK
<1> QED BY <1>1 DEF Init, EmptyPlan

\* The user changes the plan, which only a page that waits for nothing lets him.
LEMMA EditKeepsPage ==
    ASSUME PageInv,
           \/ \E p \in Places : MapClick(p)
           \/ \E n \in 0..MaxVehicles : SetVehicles(n)
    PROVE  PageInv'
<1>1. /\ ~isBusy /\ ~timedOut
      /\ UNCHANGED <<page, taskVars, netVars, drawing, lines, stored, server, clock,
                     reloads, mishaps>>
  BY DEF MapClick, SetVehicles
<1>2. button' \in {"off", "start", "check"}
  BY DEF MapClick, SetVehicles, UpdateButton
<1>3. screen' \in Plans /\ (page = "loading" => screen'.depot = screen.depot)
  <2>1. ASSUME NEW p \in Places, MapClick(p)
        PROVE  screen' \in Plans /\ page # "loading"
    <3>1. CASE screen.depot = Nil
      BY <2>1, <3>1 DEF MapClick, TypeOK, Plans
    <3>2. CASE screen.depot # Nil
      BY <2>1, <3>2, StopsGrow DEF MapClick, TypeOK
    <3> QED BY <2>1, <3>1, <3>2 DEF MapClick
  <2>2. ASSUME NEW n \in 0..MaxVehicles, SetVehicles(n)
        PROVE  screen' \in Plans /\ screen'.depot = screen.depot
    BY <2>2 DEF SetVehicles, TypeOK, Plans
  <2> QED BY <2>1, <2>2
<1>4. TypeOK'
  BY <1>1, <1>2, <1>3 DEF TypeOK, taskVars, netVars
<1> QED BY <1>1, <1>3, <1>4 DEF taskVars, netVars

LEMMA ClearKeepsPage ==
    ASSUME PageInv, Clear
    PROVE  PageInv'
<1>1. screen' \in Plans
  BY EmptyIsPlan DEF Clear, TypeOK, Plans, EmptyPlan
<1>2. timers' = 0 /\ screen'.depot = Nil
  BY DEF Clear, ClearPollTimer, EmptyPlan
<1>3. TypeOK'
  BY <1>1, <1>2 DEF Clear, TypeOK, UpdateButton
<1> QED BY <1>2, <1>3 DEF Clear

LEMMA SubmitKeepsPage ==
    ASSUME PageInv, Submit
    PROVE  PageInv'
<1>1. screen \in Bodies
  BY DEF Submit, TypeOK, Bodies
<1>2. screen # Nil
  BY <1>1, BodyFacts
<1>3. page # "loading"
  BY DEF Submit, Submittable
<1>4. TypeOK'
  BY <1>1 DEF Submit, TypeOK, UpdateButton
<1> QED BY <1>2, <1>3, <1>4 DEF Submit

LEMMA ResumeKeepsPage ==
    ASSUME PageInv, Resume
    PROVE  PageInv'
<1>1. taskId \in Tasks /\ server[taskId] = screen /\ ~isBusy /\ page # "loading"
  BY DEF Resume, TypeOK
<1>2. stored' = stored \/ stored' = Pending(taskId, clock, screen)
  BY DEF Resume, StorePending
<1>3. mishaps' \in Nat /\ polls' = {taskId}
  BY DEF Resume, StorePending, Mishap, TypeOK
<1>4. TypeOK'
  <2>1. stored' = Nil \/ stored' \in PendingTasks
    BY <1>1, <1>2 DEF TypeOK, Pending, PendingTasks
  <2>2. button' \in {"off", "start", "check"}
    BY DEF Resume, UpdateButton
  <2>3. polls' \in SUBSET Tasks
    BY <1>1, <1>3
  <2> QED BY <1>3, <2>1, <2>2, <2>3 DEF Resume, TypeOK
<1>5. stored' # Nil => server[stored'.task] = stored'.plan
  BY <1>1, <1>2 DEF Pending
<1> QED BY <1>1, <1>3, <1>4, <1>5 DEF Resume

-----------------------------------------------------------------------------

\* A new task's body is entered under its id; what was entered before stays.
LEMMA ServerGrows ==
    ASSUME PageInv, NEW t \in Tasks, server[t] = Nil, posting # Nil,
           server' = [server EXCEPT ![t] = posting]
    PROVE  /\ server' \in [Tasks -> Bodies \cup {Nil}]
           /\ server'[t] = screen
           /\ stored # Nil => server'[stored.task] = stored.plan
<1>1. posting \in Bodies /\ posting = screen
  BY DEF TypeOK
<1>2. stored # Nil => stored.task # t
  <2>1. SUFFICES ASSUME stored # Nil, stored.task = t PROVE FALSE
    OBVIOUS
  <2>2. stored.plan = Nil /\ stored.plan \in Plans
    BY <2>1 DEF TypeOK, PendingTasks
  <2> QED BY <2>2, PlannerAssumption
<1>3. server \in [Tasks -> Bodies \cup {Nil}]
  BY DEF TypeOK
<1>4. stored # Nil => stored.task \in Tasks /\ server[stored.task] = stored.plan
  BY DEF TypeOK, PendingTasks
<1> QED BY <1>1, <1>2, <1>3, <1>4

LEMMA PostAnswerKeepsPage ==
    ASSUME PageInv, PostAnswered
    PROVE  PageInv'
<1>1. posting \in Bodies /\ posting = screen /\ isBusy /\ drawing = Nil
      /\ timers = 0 /\ polls = {} /\ ~timedOut /\ page # "loading"
  BY DEF PostAnswered, PostAccepted, PostFails, TypeOK
<1>2. ASSUME NEW t \in Tasks, PostAccepted(t)
      PROVE  PageInv'
  <2>1. /\ server' \in [Tasks -> Bodies \cup {Nil}]
        /\ server'[t] = screen
        /\ stored # Nil => server'[stored.task] = stored.plan
    BY <1>2, ServerGrows DEF PostAccepted
  <2>2. stored' = stored \/ stored' = Pending(t, clock, screen)
    BY <1>2 DEF PostAccepted, StorePending
  <2>3. mishaps' \in Nat
    BY <1>2 DEF PostAccepted, StorePending, Mishap, TypeOK
  <2>4. t # Nil
    BY PlannerAssumption
  <2>5. TypeOK'
    <3>1. stored' = Nil \/ stored' \in PendingTasks
      BY <1>2, <2>2 DEF TypeOK, Pending, PendingTasks
    <3>2. timers' \in Nat
      BY <1>1, <1>2 DEF PostAccepted, SchedulePoll
    <3> QED BY <1>2, <2>1, <2>3, <3>1, <3>2 DEF PostAccepted, TypeOK
  <2>6. stored' # Nil => server'[stored'.task] = stored'.plan
    BY <2>1, <2>2 DEF Pending
  <2> QED BY <1>1, <1>2, <2>1, <2>4, <2>5, <2>6 DEF PostAccepted, SchedulePoll
<1>3. ASSUME PostFails
      PROVE  PageInv'
  <2>1. /\ server' \in [Tasks -> Bodies \cup {Nil}]
        /\ stored # Nil => server'[stored.task] = stored.plan
    BY <1>3, ServerGrows DEF PostFails, TypeOK
  <2>2. TypeOK'
    BY <1>3, <2>1 DEF PostFails, TypeOK, UpdateButton
  <2> QED BY <1>1, <1>3, <2>1, <2>2 DEF PostFails
<1> QED BY <1>2, <1>3 DEF PostAnswered

LEMMA TimerKeepsPage ==
    ASSUME PageInv, TimerFires
    PROVE  PageInv'
<1>1. timers = 1 /\ polls = {} /\ Waiting /\ taskId \in Tasks /\ taskId # Nil
  BY DEF TimerFires, TypeOK
<1>2. timers' = 0
  BY <1>1 DEF TimerFires
<1>3. CASE clock - startedAt >= PollTimeout
  <2>1. /\ isBusy' = FALSE /\ timedOut' = TRUE
        /\ UNCHANGED <<page, screen, taskId, startedAt, posting, polls, drawing,
                       lines, stored, server, clock, reloads, mishaps>>
        /\ button' \in {"off", "start", "check"}
    BY <1>1, <1>3 DEF TimerFires, UpdateButton
  <2>2. TypeOK'
    BY <1>2, <2>1 DEF TypeOK
  <2> QED BY <1>1, <1>2, <2>1, <2>2
<1>4. CASE ~(clock - startedAt >= PollTimeout)
  <2>1. TypeOK'
    BY <1>1, <1>2, <1>4 DEF TimerFires, TypeOK
  <2> QED BY <1>1, <1>2, <1>4, <2>1 DEF TimerFires
<1> QED BY <1>3, <1>4

LEMMA PollAnswerKeepsPage ==
    ASSUME PageInv, NEW t \in Tasks, PollAnswered(t)
    PROVE  PageInv'
<1>1. t = taskId /\ Waiting /\ timers = 0 /\ polls = {t} /\ t # Nil /\ server[t] = screen
  BY PlannerAssumption DEF PollAnswered, PollAgain, PollEnds, PollSucceeds
<1>2. CASE PollAgain(t)
  <2>1. TypeOK'
    BY <1>1, <1>2 DEF PollAgain, SchedulePoll, TypeOK, taskVars
  <2> QED BY <1>1, <1>2, <2>1 DEF PollAgain, SchedulePoll, taskVars
<1>3. CASE PollEnds(t)
  <2>1. timers' = 0 /\ polls' = {}
    BY <1>1, <1>3 DEF PollEnds, FinishPolling, ClearPollTimer
  <2>2. TypeOK'
    BY <1>1, <1>3, <2>1 DEF PollEnds, FinishPolling, TypeOK, UpdateButton
  <2> QED BY <1>1, <1>3, <2>1, <2>2 DEF PollEnds, FinishPolling
<1>4. CASE PollSucceeds(t)
  <2>1. timers' = 0 /\ polls' = {}
    BY <1>1, <1>4 DEF PollSucceeds, FinishPolling, ClearPollTimer
  <2>2. screen \in Bodies
    <3>1. server[t] \in Bodies \cup {Nil} /\ screen \in Plans
      BY DEF TypeOK
    <3> QED BY <1>1, <3>1, PlannerAssumption
  <2>3. drawing' = [plan |-> screen, next |-> 1]
    BY <1>1, <1>4 DEF PollSucceeds
  <2>4. drawing' \in Drawings /\ drawing'.plan = screen
    BY <2>2, <2>3, PlannerAssumption DEF Drawings
  <2>5. TypeOK'
    BY <1>1, <1>4, <2>1, <2>4 DEF PollSucceeds, FinishPolling, TypeOK, UpdateButton
  <2> QED BY <1>1, <1>4, <2>1, <2>4, <2>5, PlannerAssumption
          DEF PollSucceeds, FinishPolling
<1> QED BY <1>2, <1>3, <1>4 DEF PollAnswered

LEMMA DrawingKeepsPage ==
    ASSUME PageInv, DrawRoute \/ DrawingEnds
    PROVE  PageInv'
<1>1. /\ drawing \in Drawings /\ drawing # Nil /\ drawing.plan \in Bodies
      /\ drawing.plan.vehicles \in 1..MaxVehicles
      /\ drawing.plan = screen
  BY BodyFacts DEF DrawRoute, DrawingEnds, TypeOK, Drawings
<1>2. CASE DrawRoute
  <2>1. drawing.next \in 1..MaxVehicles
    BY <1>1, <1>2, PlannerAssumption DEF DrawRoute, Drawings
  <2>2. drawing' = [drawing EXCEPT !.next = drawing.next + 1]
    BY <1>2 DEF DrawRoute
  <2>3. drawing.next + 1 \in 1..(MaxVehicles + 1)
    BY <2>1, PlannerAssumption
  <2>4. drawing' \in Drawings /\ drawing'.plan = screen
    BY <1>1, <2>2, <2>3 DEF Drawings
  <2>5. lines' \in SUBSET Lines
    BY <1>1, <1>2, <2>1 DEF DrawRoute, TypeOK, Lines
  <2>6. TypeOK'
    BY <1>2, <2>4, <2>5 DEF DrawRoute, TypeOK, taskVars, netVars
  <2>7. drawing' # Nil
    BY <2>4, PlannerAssumption
  <2> QED BY <1>1, <1>2, <2>4, <2>6, <2>7 DEF DrawRoute, taskVars, netVars
<1>3. CASE DrawingEnds
  <2>1. mishaps' \in Nat
    BY <1>3 DEF DrawingEnds, Mishap, TypeOK
  <2>2. TypeOK'
    BY <1>3, <2>1 DEF DrawingEnds, TypeOK, UpdateButton, netVars
  <2> QED BY <1>1, <1>3, <2>2 DEF DrawingEnds, netVars
<1> QED BY <1>2, <1>3

-----------------------------------------------------------------------------

LEMMA LoadingKeepsPage ==
    ASSUME PageInv, InitMap \/ InitMapFails \/ RestoreFails
    PROVE  PageInv'
<1>1. /\ ~isBusy /\ ~timedOut /\ posting = Nil /\ drawing = Nil
      /\ timers = 0 /\ polls = {}
  BY DEF InitMap, InitMapFails, RestoreFails
<1>2. stored # Nil =>
        /\ stored.task \in Tasks /\ stored.task # Nil
        /\ stored.since \in Nat
        /\ stored.plan \in Plans
        /\ server[stored.task] = stored.plan
  BY PlannerAssumption DEF TypeOK, PendingTasks
<1>3. CASE InitMap
  <2>1. CASE stored = Nil
    <3>1. TypeOK'
      BY <1>3, <2>1 DEF InitMap, TypeOK, UpdateButton, taskVars
    <3> QED BY <1>1, <1>3, <2>1, <3>1 DEF InitMap, taskVars
  <2>2. CASE stored # Nil /\ clock - stored.since >= PollTimeout
    <3>1. TypeOK'
      BY <1>2, <1>3, <2>2 DEF InitMap, TypeOK, UpdateButton
    <3> QED BY <1>1, <1>2, <1>3, <2>2, <3>1 DEF InitMap
  <2>3. CASE stored # Nil /\ ~(clock - stored.since >= PollTimeout)
    <3>1. TypeOK'
      BY <1>2, <1>3, <2>3 DEF InitMap, TypeOK, UpdateButton
    <3> QED BY <1>1, <1>2, <1>3, <2>3, <3>1 DEF InitMap
  <2> QED BY <2>1, <2>2, <2>3
<1>4. CASE InitMapFails
  <2>1. TypeOK'
    BY <1>4 DEF InitMapFails, Mishap, TypeOK, taskVars, netVars
  <2> QED BY <1>1, <1>4, <2>1 DEF InitMapFails, taskVars, netVars
<1>5. CASE RestoreFails
  <2>1. screen' \in Plans
    BY <1>2, <1>5 DEF RestoreFails, TypeOK, Plans
  <2>2. TypeOK'
    BY <1>2, <1>5, <2>1 DEF RestoreFails, Mishap, TypeOK, netVars
  <2> QED BY <1>1, <1>5, <2>2 DEF RestoreFails, netVars
<1> QED BY <1>3, <1>4, <1>5

LEMMA RestKeepsPage ==
    ASSUME PageInv, MapError \/ Reload \/ Tick \/ UNCHANGED vars
    PROVE  PageInv'
<1>1. CASE MapError
  <2>1. TypeOK'
    BY <1>1 DEF MapError, Mishap, TypeOK, taskVars, netVars
  <2> QED BY <1>1, <2>1 DEF MapError, taskVars, netVars
<1>2. CASE Reload
  <2>1. /\ server' \in [Tasks -> Bodies \cup {Nil}]
        /\ stored # Nil => server'[stored.task] = stored.plan
    <3>1. CASE UNCHANGED server
      BY <3>1 DEF TypeOK
    <3>2. ASSUME NEW t \in Tasks, posting # Nil, server[t] = Nil,
                 server' = [server EXCEPT ![t] = posting]
          PROVE  /\ server' \in [Tasks -> Bodies \cup {Nil}]
                 /\ stored # Nil => server'[stored.task] = stored.plan
      BY <3>2, ServerGrows
    <3> QED BY <1>2, <3>1, <3>2 DEF Reload
  <2>2. TypeOK'
    <3>1. reloads' \in Nat
      BY <1>2 DEF Reload, TypeOK
    <3> QED BY <1>2, <2>1, <3>1, EmptyIsPlan DEF Reload, TypeOK
  <2> QED BY <1>2, <2>1, <2>2 DEF Reload, EmptyPlan
<1>3. CASE Tick
  <2>1. TypeOK'
    BY <1>3 DEF Tick, TypeOK, taskVars, netVars
  <2> QED BY <1>3, <2>1 DEF Tick, taskVars, netVars
<1>4. CASE UNCHANGED vars
  <2>1. TypeOK'
    BY <1>4 DEF vars, TypeOK, taskVars, netVars
  <2> QED BY <1>4, <2>1 DEF vars, taskVars, netVars
<1> QED BY <1>1, <1>2, <1>3, <1>4

LEMMA PageNext == PageInv /\ [Next]_vars => PageInv'
BY EditKeepsPage, ClearKeepsPage, SubmitKeepsPage, ResumeKeepsPage,
   PostAnswerKeepsPage, TimerKeepsPage, PollAnswerKeepsPage, DrawingKeepsPage,
   LoadingKeepsPage, RestKeepsPage
   DEF Next

-----------------------------------------------------------------------------

\* The page's inductive invariant.
THEOREM PageInvariant == Spec => []PageInv
BY PageInit, PageNext, PTL DEF Spec

\* A page that waits for a task has exactly one timer or request for it, and a
\* page that does not wait has none, whatever is clicked, reloaded or lost.
THEOREM PollChainIsSingle == Spec => []SinglePollChain
<1>1. PageInv => SinglePollChain
  OBVIOUS
<1> QED BY <1>1, PageInvariant, PTL

\* The screen shows what the pending task was made of, and the plan whose
\* result is drawn.
THEOREM ScreenAnswersTask == Spec => []ScreenIsPosted
<1>1. PageInv => ScreenIsPosted
  OBVIOUS
<1> QED BY <1>1, PageInvariant, PTL


-----------------------------------------------------------------------------

\* Every variable keeps its type.
THEOREM PageTypeCorrect == Spec => []TypeOK
<1>1. PageInv => TypeOK
  OBVIOUS
<1> QED BY <1>1, PageInvariant, PTL

\* Waiting, timed out, posting and drawing exclude each other.
THEOREM PageIsInOneMode == Spec => []OneMode
<1>1. PageInv => OneMode
  OBVIOUS
<1> QED BY <1>1, PageInvariant, PTL

\* What is posted is on the screen, and what is stored was posted.
THEOREM PageIsSound == Spec => []PageSound
<1>1. PageInv => PageSound
  OBVIOUS
<1> QED BY <1>1, PageInvariant, PTL

-----------------------------------------------------------------------------

(***************************************************************************)
(* The copy in sessionStorage: while the storage works, every handler that *)
(* changes what is awaited stores it as well.                              *)
(***************************************************************************)

StoredInv ==
    (Waiting \/ timedOut) /\ mishaps = 0 =>
        stored = Pending(taskId, startedAt, screen)

USE DEF StoredInv

\* What is awaited was a body once, so it can be submitted.
LEMMA AwaitedIsSubmittable == PageInv => (Waiting \/ timedOut => Submittable(screen))
<1> SUFFICES ASSUME PageInv, Waiting \/ timedOut PROVE Submittable(screen)
  OBVIOUS
<1>1. taskId \in Tasks /\ server[taskId] = screen /\ screen \in Plans
  BY DEF TypeOK
<1>2. screen \in Bodies
  BY <1>1, PlannerAssumption DEF TypeOK
<1> QED BY <1>2, BodyFacts

\* A drawing that goes on is a drawing.
LEMMA DrawRouteKeepsDrawing ==
    ASSUME PageInv, DrawRoute
    PROVE  drawing' \in Drawings
<1>1. drawing \in Drawings /\ drawing' = [drawing EXCEPT !.next = drawing.next + 1]
  BY DEF DrawRoute, TypeOK
<1>2. drawing.plan.vehicles \in 1..MaxVehicles /\ drawing.next \in 1..(MaxVehicles + 1)
  BY <1>1, BodyFacts DEF Drawings
<1>3. drawing.next + 1 \in 1..(MaxVehicles + 1)
  BY <1>2, PlannerAssumption DEF DrawRoute
<1> QED BY <1>1, <1>3 DEF Drawings

LEMMA NextStored == PageInv /\ StoredInv /\ [Next]_vars => StoredInv'
<1> SUFFICES ASSUME PageInv, StoredInv, [Next]_vars, Waiting' \/ timedOut', mishaps' = 0
             PROVE  stored' = Pending(taskId', startedAt', screen')
  OBVIOUS
<1>0. mishaps \in Nat /\ ~Mishap
  BY DEF TypeOK, Mishap
<1>1. CASE \/ \E p \in Places : MapClick(p)
           \/ \E n \in 0..MaxVehicles : SetVehicles(n)
           \/ Clear \/ Submit
  <2>1. ~Waiting' /\ ~timedOut'
    <3>1. CASE \/ \E p \in Places : MapClick(p)
               \/ \E n \in 0..MaxVehicles : SetVehicles(n)
      BY <3>1 DEF MapClick, SetVehicles, taskVars
    <3>2. CASE Clear
      BY <3>2 DEF Clear
    <3>3. CASE Submit
      <4>1. screen # Nil /\ ~timedOut
        BY <3>3, PlannerAssumption DEF Submit, TypeOK
      <4> QED BY <3>3, <4>1 DEF Submit
    <3> QED BY <1>1, <3>1, <3>2, <3>3
  <2> QED BY <2>1
<1>2. CASE Resume
  BY <1>0, <1>2 DEF Resume, StorePending
<1>3. CASE PostAnswered
  <2>1. CASE \E t \in Tasks : PostAccepted(t)
    BY <1>0, <2>1 DEF PostAccepted, StorePending
  <2>2. CASE PostFails
    BY <2>2 DEF PostFails
  <2> QED BY <1>3, <2>1, <2>2 DEF PostAnswered
<1>4. CASE TimerFires
  <2>1. Waiting
    BY <1>4 DEF TimerFires
  <2> QED BY <1>4, <2>1 DEF TimerFires
<1>5. ASSUME NEW t \in Tasks, PollAnswered(t)
      PROVE  stored' = Pending(taskId', startedAt', screen')
  <2>1. t = taskId /\ Waiting
    BY <1>5 DEF PollAnswered, PollAgain, PollEnds, PollSucceeds
  <2>2. CASE PollAgain(t)
    BY <2>1, <2>2 DEF PollAgain, taskVars
  <2>3. CASE PollEnds(t)
    BY <2>1, <2>3 DEF PollEnds, FinishPolling
  <2>4. CASE PollSucceeds(t)
    <3>1. screen \in Bodies
      <4>1. server[t] \in Bodies \cup {Nil} /\ screen \in Plans
        BY DEF TypeOK
      <4> QED BY <2>1, <4>1, PlannerAssumption
    <3>2. drawing' = [plan |-> screen, next |-> 1] /\ timedOut' = FALSE
      BY <2>1, <2>4 DEF PollSucceeds, FinishPolling
    <3>3. drawing' \in Drawings
      BY <3>1, <3>2, PlannerAssumption DEF Drawings
    <3> QED BY <3>2, <3>3, PlannerAssumption
  <2> QED BY <1>5, <2>2, <2>3, <2>4 DEF PollAnswered
<1>6. CASE DrawRoute
  <2>1. drawing' # Nil
    BY <1>6, DrawRouteKeepsDrawing, PlannerAssumption
  <2> QED BY <1>6, <2>1 DEF DrawRoute, taskVars, netVars
<1>7. CASE DrawingEnds
  BY <1>7 DEF DrawingEnds
<1>8. CASE InitMap
  <2>1. stored # Nil => stored = Pending(stored.task, stored.since, stored.plan)
    BY DEF TypeOK, PendingTasks, Pending
  <2>2. stored # Nil
    BY <1>8 DEF InitMap, taskVars
  <2> QED BY <1>8, <2>1, <2>2 DEF InitMap
<1>9. CASE Reload
  BY <1>9 DEF Reload
<1>10. CASE InitMapFails \/ RestoreFails \/ MapError
  BY <1>0, <1>10 DEF InitMapFails, RestoreFails, MapError
<1>11. CASE Tick \/ UNCHANGED vars
  BY <1>11 DEF Tick, vars, taskVars, netVars
<1> QED BY <1>1, <1>2, <1>3, <1>4, <1>5, <1>6, <1>7, <1>8, <1>9, <1>10, <1>11 DEF Next

\* A reload finds the task that was awaited and the screen it was posted with
\* (storePendingTask, restorePendingTask), unless a storage call has failed.
THEOREM PendingSurvivesReload == Spec => []PendingIsStored
<1>1. Init => StoredInv
  BY DEF Init
<1>2. PageInv /\ StoredInv /\ [Next]_vars => StoredInv'
  BY NextStored
<1>3. PageInv /\ StoredInv => PendingIsStored
  BY AwaitedIsSubmittable DEF PendingIsStored
<1> HIDE DEF PageInv, StoredInv
<1> QED BY <1>1, <1>2, <1>3, PageInvariant, PTL DEF Spec

-----------------------------------------------------------------------------

(***************************************************************************)
(* The routes on the map: whoever starts to wait for a result clears them, *)
(* and what is drawn later is drawn from the one result there is.          *)
(***************************************************************************)

LinesInv ==
    /\ timedOut \/ posting # Nil \/ Waiting \/ page = "loading" => lines = {}
    /\ drawing # Nil => \A l \in lines : l.plan = drawing.plan
    /\ \A l1, l2 \in lines : l1.plan = l2.plan

USE DEF LinesInv

LEMMA NextLines == PageInv /\ LinesInv /\ [Next]_vars => LinesInv'
<1> SUFFICES ASSUME PageInv, LinesInv, [Next]_vars PROVE LinesInv'
  OBVIOUS
<1>1. CASE \/ \E p \in Places : MapClick(p)
           \/ \E n \in 0..MaxVehicles : SetVehicles(n)
  BY <1>1 DEF MapClick, SetVehicles, taskVars, netVars
<1>2. CASE Clear \/ Submit \/ Reload
  BY <1>2 DEF Clear, Submit, Reload
<1>3. CASE Resume
  BY <1>3 DEF Resume
<1>4. CASE PostAnswered
  <2>1. posting # Nil
    BY <1>4 DEF PostAnswered, PostAccepted, PostFails
  <2> QED BY <1>4, <2>1 DEF PostAnswered, PostAccepted, PostFails
<1>5. CASE TimerFires
  <2>1. Waiting
    BY <1>5 DEF TimerFires
  <2> QED BY <1>5, <2>1 DEF TimerFires
<1>6. ASSUME NEW t \in Tasks, PollAnswered(t)
      PROVE  LinesInv'
  <2>1. t = taskId /\ Waiting
    BY <1>6 DEF PollAnswered, PollAgain, PollEnds, PollSucceeds
  <2> QED BY <1>6, <2>1 DEF PollAnswered, PollAgain, PollEnds, PollSucceeds,
             FinishPolling, taskVars
<1>7. CASE DrawRoute
  <2>1. /\ drawing # Nil /\ drawing \in Drawings
        /\ drawing' = [drawing EXCEPT !.next = @ + 1]
        /\ UNCHANGED <<page, taskVars, netVars>>
    BY <1>7 DEF DrawRoute, TypeOK
  <2>2. drawing'.plan = drawing.plan
    BY <2>1 DEF Drawings
  <2>3. \A l \in lines' : l.plan = drawing.plan
    BY <1>7, <2>1 DEF DrawRoute
  <2>4. page # "loading" /\ isBusy /\ posting = Nil /\ ~timedOut
    BY <2>1
  <2>5. page' # "loading" /\ posting' = Nil /\ ~timedOut'
    BY <2>1, <2>4 DEF taskVars, netVars
  <2>6. ~Waiting'
    <3>1. drawing' \in Drawings
      BY <1>7, <2>1, DrawRouteKeepsDrawing
    <3> QED BY <3>1, PlannerAssumption
  <2> QED BY <2>2, <2>3, <2>5, <2>6
<1>8. CASE DrawingEnds
  <2>1. page # "loading" /\ posting = Nil /\ ~timedOut
    BY <1>8 DEF DrawingEnds
  <2> QED BY <1>8, <2>1 DEF DrawingEnds, netVars
<1>9. CASE InitMap \/ InitMapFails \/ RestoreFails
  BY <1>9 DEF InitMap, InitMapFails, RestoreFails, taskVars, netVars
<1>10. CASE MapError \/ Tick \/ UNCHANGED vars
  BY <1>10 DEF MapError, Tick, vars, taskVars, netVars
<1> QED BY <1>1, <1>2, <1>3, <1>4, <1>5, <1>6, <1>7, <1>8, <1>9, <1>10 DEF Next

\* The map never mixes the routes of two results, and shows none while a result
\* is awaited (clearRenderedRoutes in submitOptimization and renderOptimizedRoutes).
THEOREM RoutesAreOfOneResult == Spec => []RoutesOfOneResult
<1>1. Init => LinesInv
  BY DEF Init
<1>2. PageInv /\ LinesInv /\ [Next]_vars => LinesInv'
  BY NextLines
<1>3. LinesInv => RoutesOfOneResult
  BY DEF RoutesOfOneResult
<1> HIDE DEF PageInv, LinesInv
<1> QED BY <1>1, <1>2, <1>3, PageInvariant, PTL DEF Spec

-----------------------------------------------------------------------------

(***************************************************************************)
(* A page whose map never came has no depot, and the vehicle input alone   *)
(* does not switch the button on.                                          *)
(***************************************************************************)

NoMapInv ==
    page # "ready" =>
        /\ screen.depot = Nil
        /\ ~isBusy /\ ~timedOut
        /\ button = "off"

USE DEF NoMapInv

LEMMA NextNoMap == PageInv /\ NoMapInv /\ [Next]_vars => NoMapInv'
<1> SUFFICES ASSUME PageInv, NoMapInv, [Next]_vars, page' # "ready"
             PROVE  /\ screen'.depot = Nil
                    /\ ~isBusy' /\ ~timedOut'
                    /\ button' = "off"
  OBVIOUS
<1>1. CASE \E n \in 0..MaxVehicles : SetVehicles(n)
  <2>1. screen'.depot = screen.depot
    BY <1>1 DEF SetVehicles, TypeOK, Plans
  <2> QED BY <1>1, <2>1 DEF SetVehicles, UpdateButton, Submittable, taskVars
<1>2. CASE \E p \in Places : MapClick(p)
  BY <1>2 DEF MapClick
<1>3. CASE Clear \/ Submit \/ Resume
  BY <1>3 DEF Clear, Submit, Resume
<1>4. CASE PostAnswered \/ TimerFires
  BY <1>4 DEF PostAnswered, PostAccepted, PostFails, TimerFires
<1>5. CASE \E t \in Tasks : PollAnswered(t)
  BY <1>5 DEF PollAnswered, PollAgain, PollEnds, PollSucceeds, FinishPolling, taskVars
<1>6. CASE DrawRoute \/ DrawingEnds
  BY <1>6 DEF DrawRoute, DrawingEnds, taskVars
<1>7. CASE InitMap \/ InitMapFails \/ RestoreFails
  BY <1>7 DEF InitMap, InitMapFails, RestoreFails, taskVars
<1>8. CASE Reload
  BY <1>8 DEF Reload, EmptyPlan
<1>9. CASE MapError \/ Tick \/ UNCHANGED vars
  BY <1>9 DEF MapError, Tick, vars, taskVars
<1> QED BY <1>1, <1>2, <1>3, <1>4, <1>5, <1>6, <1>7, <1>8, <1>9 DEF Next

\* Without a map nothing can be submitted, and nothing is.
THEOREM NoMapMeansNoSubmit == Spec => []NoMapNoSubmit
<1>1. Init => NoMapInv
  BY DEF Init, EmptyPlan
<1>2. PageInv /\ NoMapInv /\ [Next]_vars => NoMapInv'
  BY NextNoMap
<1>3. PageInv /\ NoMapInv => NoMapNoSubmit
  BY DEF NoMapNoSubmit
<1> HIDE DEF PageInv, NoMapInv
<1> QED BY <1>1, <1>2, <1>3, PageInvariant, PTL DEF Spec

=============================================================================
