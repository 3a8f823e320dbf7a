------------------------ MODULE ExperienceComposition ------------------------
(***************************************************************************)
(* Games launched from the Lua app: RobloxExperienceComposition            *)
(* (src/runtime/roblox_experience_composition.cc) with the launch          *)
(* controller it owns (roblox_fresh_game_launch_controller.cc), driven by  *)
(* the main loop of legacy_runtime.cc.                                     *)
(*                                                                         *)
(* Four parties meet.  The main thread repeats PumpEvents, the draining of *)
(* the window's surface events and DrainLaunchRequests, one step per       *)
(* section of the code between two acquisitions of a mutex.  A worker      *)
(* thread runs the launch.  The render thread calls the present observer   *)
(* while it holds the mutex of PresentLifecycleGate, so that clearing the  *)
(* observer waits for it.  The Lua app and the engine ask for launches,    *)
(* end games and report their return on threads of their own; the broker   *)
(* of external launches calls the same Dispatch.                           *)
(***************************************************************************)
EXTENDS Naturals, SequencesExt

CONSTANTS Requests, NoRequest, kMaxPendingLaunchRequests,
          Windows, NoWindow, Sizes, NoSize, TooSmall, BadDpi, GenerationLimit

ASSUME CompositionAssumption ==
    /\ NoRequest \notin Requests
    /\ kMaxPendingLaunchRequests \in Nat \ {0}

VARIABLES
    main,              \* where the main thread is
    quit,              \* quit_requested
    windowActive, window, queue, windowOk,   \* the window surface lifecycle
    subscribed,        \* subscribed_, with controller_ and objects_ present
    pending,           \* pending_launch_requests_
    task,              \* active_launch_, with launch_in_progress_
    worker,            \* where the launch worker is
    activeGame,        \* active_game_canonical_json_, NoRequest: not game_active_
    returnPending,     \* lua_app_return_pending_
    switchWaiting,     \* controlled_switch_waiting_for_return_
    presenceRequest,   \* presence_request_
    playingPublished,  \* playing_presence_published_
    readiness,         \* readiness_.surface: its generation, and its window is set
    session,           \* the controller's runtime_ and its coordinator
    observed,          \* observer_registered_
    appShutdown,       \* app_shutdown_
    presenter,         \* where the render thread is
    publishing,        \* request PublishPresentedPresence copied under mutex_
    presence,          \* what the presence observer was last told
    inGame,            \* the engine runs a game
    owed               \* returns to the Lua app the engine has yet to report

hostVars == <<quit, windowActive, window, queue, windowOk>>
launchVars == <<subscribed, pending, task, activeGame, returnPending,
                switchWaiting, presenceRequest, playingPublished>>
controllerVars == <<session, observed, appShutdown>>
renderVars == <<presenter, publishing>>
engineVars == <<inGame, owed>>
vars == <<main, worker, hostVars, launchVars, readiness, controllerVars,
          renderVars, presence, engineVars>>

Window == INSTANCE WindowSurfaceLifecycle
            WITH active <- windowActive, current <- window, events <- queue,
                 ok <- windowOk

NoTask == [request |-> NoRequest, surface |-> 0, complete |-> FALSE]

\* A session has the request it was launched for, the state and the surfaces
\* of its coordinator, and whether its first present has been recorded.
NoSession == [request |-> NoRequest, state |-> "None", active |-> 0,
              prepared |-> 0, presented |-> FALSE]

\* The Lua app is ready, on the first surface of the window.
Init ==
    /\ main = "pump" /\ worker = "none"
    /\ window \in {Window!Snapshot(1, w, z, TRUE) : w \in Windows, z \in Sizes}
    /\ windowActive = TRUE /\ queue = <<>> /\ windowOk = TRUE /\ quit = FALSE
    /\ subscribed = TRUE /\ pending = <<>> /\ task = NoTask
    /\ activeGame = NoRequest /\ presenceRequest = NoRequest
    /\ returnPending = FALSE /\ switchWaiting = FALSE
    /\ playingPublished = FALSE
    /\ readiness = [generation |-> 1, available |-> TRUE]
    /\ session = NoSession /\ observed = FALSE /\ appShutdown = FALSE
    /\ presenter = "idle" /\ publishing = NoRequest
    /\ presence = <<"Browsing", NoRequest>>
    /\ inGame = FALSE /\ owed = 0

-----------------------------------------------------------------------------
\* PumpEvents: what happens to the window, and the end of the pump.

\* A window event, a fullscreen transition or the recovery of an out-of-date
\* swapchain, whose gate GameSurfacePipeline models.
HostEvent ==
    /\ main = "pump"
    /\ \/ \E w \in Windows \cup {NoWindow}, z \in Sizes : Window!Observe(w, z)
       \/ Window!Refresh
       \/ Window!Recreate
    /\ quit' = IF windowOk' THEN quit ELSE TRUE
    /\ UNCHANGED <<main, worker, launchVars, readiness, controllerVars,
                   renderVars, presence, engineVars>>

CloseWindow ==
    /\ main = "pump" /\ main' = "drain" /\ quit' = TRUE
    /\ UNCHANGED <<worker, windowActive, window, queue, windowOk, launchVars,
                   readiness, controllerVars, renderVars, presence, engineVars>>

EndPump ==
    /\ main = "pump" /\ main' = "drain"
    /\ UNCHANGED <<worker, hostVars, launchVars, readiness, controllerVars,
                   renderVars, presence, engineVars>>

-----------------------------------------------------------------------------
\* The surface events, drained one by one by the bridge.

\* What the coordinator of a launched game makes of an event: the session
\* after it, or NoSession when the event is rejected.
SessionAfter(type, g) ==
    CASE type = "Created" /\ session.prepared = g -> session
      [] type = "Created" /\ session.state = "Paused" /\ session.active # g
           -> [session EXCEPT !.prepared = g]
      [] type = "Changed" /\ session.prepared = g
           -> [session EXCEPT !.state = "Running", !.active = g]
      [] type = "Destroyed" /\ session.active = g /\ session.prepared \in {0, g}
           -> [session EXCEPT !.state = "Paused", !.prepared = 0]
      [] OTHER -> NoSession

\* The event goes to the controller, whose native calls may fail.
ForwardEvent(type, g) ==
    /\ activeGame # NoRequest
    /\ \/ /\ SessionAfter(type, g) # NoSession
          /\ session' = SessionAfter(type, g)
          /\ readiness' = IF type = "Changed"
                          THEN [generation |-> g, available |-> TRUE]
                          ELSE readiness
          /\ UNCHANGED main
       \/ main' = "shutdown" /\ UNCHANGED <<session, readiness>>

\* The event is for the Lua app, which is rebound or restarted on a Changed:
\* a native call that may fail.
RetainEvent(type, g) ==
    /\ activeGame = NoRequest /\ UNCHANGED session
    /\ \/ /\ type = "Created" /\ readiness' = [readiness EXCEPT !.generation = g]
          /\ UNCHANGED main
       \/ /\ type = "Changed" /\ UNCHANGED main
          /\ readiness' = [generation |-> g, available |-> TRUE]
       \/ type = "Changed" /\ main' = "shutdown" /\ UNCHANGED readiness
       \/ /\ type = "Destroyed" /\ UNCHANGED main
          /\ readiness' = IF readiness.generation = g
                          THEN [readiness EXCEPT !.available = FALSE]
                          ELSE readiness

DrainEvent ==
    /\ main = "drain" /\ Window!Poll
    /\ LET e == Head(queue)
       IN ForwardEvent(e.type, e.surface.generation)
          \/ RetainEvent(e.type, e.surface.generation)
    /\ UNCHANGED <<worker, quit, launchVars, observed, appShutdown, renderVars,
                   presence, engineVars>>

\* The loop goes on with DrainPlatformEvents, whose failure ends it.
EndDrain ==
    /\ main = "drain" /\ queue = <<>>
    /\ main' \in IF quit THEN {"shutdown"} ELSE {"reap", "shutdown"}
    /\ UNCHANGED <<worker, hostVars, launchVars, readiness, controllerVars,
                   renderVars, presence, engineVars>>

-----------------------------------------------------------------------------
\* DrainLaunchRequests, on the main thread.  When a step fails it returns the
\* error, the main loop ends and the process shuts down.

\* The launch worker is joined when it has ended; otherwise nothing is done.
ReapWorker ==
    /\ main = "reap"
    /\ \/ worker = "none" /\ main' = "return" /\ UNCHANGED <<worker, launchVars>>
       \/ /\ worker \notin {"none", "succeeded", "failed"} /\ main' = "pump"
          /\ UNCHANGED <<worker, launchVars>>
       \/ /\ worker = "succeeded" /\ main' = "return" /\ worker' = "none"
          /\ activeGame' = task.request /\ task' = NoTask
          /\ UNCHANGED <<subscribed, pending, returnPending, switchWaiting,
                         presenceRequest, playingPublished>>
       \/ /\ worker = "failed" /\ main' = "abandon" /\ worker' = "none"
          /\ activeGame' = NoRequest /\ task' = NoTask /\ pending' = <<>>
          /\ presenceRequest' = NoRequest /\ playingPublished' = FALSE
          /\ UNCHANGED <<subscribed, returnPending, switchWaiting>>
    /\ UNCHANGED <<hostVars, readiness, controllerVars, renderVars, presence,
                   engineVars>>

\* A reported return is consumed, or there is none.
ConsumeReturn ==
    /\ main = "return" /\ returnPending' = FALSE
    /\ main' = IF returnPending THEN "observe" ELSE "switch"
    /\ UNCHANGED <<worker, hostVars, subscribed, pending, task, activeGame,
                   switchWaiting, presenceRequest, playingPublished, readiness,
                   controllerVars, renderVars, presence, engineVars>>

\* Mutant: the observer is cleared without waiting for a present callback.
ClearObserverAtOnce == observed' = FALSE

\* clear_observer waits for the present callback that is running.
ClearObserver == (observed => presenter = "idle") /\ observed' = FALSE

\* ObserveLuaAppReturn.
ObserveLuaAppReturn ==
    /\ main = "observe" /\ main' = "returned"
    /\ ClearObserver /\ session' = NoSession
    /\ UNCHANGED <<worker, hostVars, launchVars, readiness, appShutdown,
                   renderVars, presence, engineVars>>

\* Mutant: the switch goes on waiting after the return.
ReturnedButWaiting ==
    /\ main = "returned" /\ main' = "browsing"
    /\ activeGame' = NoRequest /\ presenceRequest' = NoRequest
    /\ playingPublished' = FALSE
    /\ UNCHANGED <<worker, hostVars, subscribed, pending, task, returnPending,
                   switchWaiting, readiness, controllerVars, renderVars,
                   presence, engineVars>>

\* The game is over for the composition; a switch need not wait any more.
GameReturned ==
    /\ main = "returned" /\ main' = "browsing"
    /\ activeGame' = NoRequest /\ presenceRequest' = NoRequest
    /\ playingPublished' = FALSE /\ switchWaiting' = FALSE
    /\ UNCHANGED <<worker, hostVars, subscribed, pending, task, returnPending,
                   readiness, controllerVars, renderVars, presence, engineVars>>

\* NotifyPresence(kBrowsing), after a return or after a failed launch.
NotifyBrowsing ==
    /\ \/ main = "browsing" /\ main' = "switch"
       \/ main = "abandon" /\ main' = "shutdown"
    /\ presence' = <<"Browsing", NoRequest>>
    /\ UNCHANGED <<worker, hostVars, launchVars, readiness, controllerVars,
                   renderVars, engineVars>>

\* Mutant: the next launch does not wait for the return of the game left.
SwitchAtOnce ==
    /\ main = "switch" /\ UNCHANGED switchWaiting
    /\ main' = IF activeGame # NoRequest /\ pending # <<>> THEN "leave"
               ELSE "start"
    /\ UNCHANGED <<worker, hostVars, subscribed, pending, task, activeGame,
                   returnPending, presenceRequest, playingPublished, readiness,
                   controllerVars, renderVars, presence, engineVars>>

\* A launch queued behind a game makes that game leave first.  Before that the
\* broker's launches are drained (Dispatch), which may fail: it is stopping, or
\* a request is refused for another reason than a full queue.
SwitchGame ==
    /\ main = "switch"
    /\ \/ main' = "shutdown" /\ UNCHANGED switchWaiting
       \/ switchWaiting /\ main' = "pump" /\ UNCHANGED switchWaiting
       \/ /\ ~switchWaiting /\ activeGame # NoRequest /\ pending # <<>>
          /\ switchWaiting' = TRUE /\ main' = "leave"
       \/ /\ ~switchWaiting /\ (activeGame = NoRequest \/ pending = <<>>)
          /\ main' = "start" /\ UNCHANGED switchWaiting
    /\ UNCHANGED <<worker, hostVars, subscribed, pending, task, activeGame,
                   returnPending, presenceRequest, playingPublished, readiness,
                   controllerVars, renderVars, presence, engineVars>>

\* The controller's Leave, up to the native call: a game that is running
\* leaves, and its return will be reported.
LeaveGame ==
    /\ main = "leave" /\ UNCHANGED <<observed, appShutdown>>
    /\ \/ /\ session.state \in {"Running", "Paused"}
          /\ main' = "clear" /\ session' = [session EXCEPT !.state = "Returned"]
          /\ inGame' = FALSE /\ owed' = IF inGame THEN owed + 1 ELSE owed
          /\ UNCHANGED switchWaiting
       \/ /\ main' = "shutdown" /\ switchWaiting' = FALSE
          /\ UNCHANGED <<session, engineVars>>
    /\ UNCHANGED <<worker, hostVars, subscribed, pending, task, activeGame,
                   returnPending, presenceRequest, playingPublished, readiness,
                   renderVars, presence>>

\* The rest of Leave, and of LeaveGame.
GameLeft ==
    \/ /\ main = "clear" /\ main' = "left"
       /\ ClearObserver /\ session' = NoSession
       /\ UNCHANGED <<worker, hostVars, launchVars, readiness, appShutdown,
                      renderVars, presence, engineVars>>
    \/ /\ main = "left" /\ main' = "pump" /\ activeGame' = NoRequest
       /\ UNCHANGED <<worker, hostVars, subscribed, pending, task,
                      returnPending, switchWaiting, presenceRequest,
                      playingPublished, readiness, controllerVars, renderVars,
                      presence, engineVars>>

\* The first queued launch becomes the task, with the surface as it is now.
StartLaunch ==
    /\ main = "start"
    /\ \/ /\ activeGame # NoRequest \/ pending = <<>>
          /\ main' = "pump"
          /\ UNCHANGED <<pending, task, presenceRequest, playingPublished>>
       \/ /\ activeGame = NoRequest /\ pending # <<>>
          /\ main' = "joining" /\ pending' = Tail(pending)
          /\ task' = [request |-> Head(pending),
                      surface |-> readiness.generation,
                      complete |-> readiness.available]
          /\ presenceRequest' = Head(pending) /\ playingPublished' = FALSE
    /\ UNCHANGED <<worker, hostVars, subscribed, activeGame, returnPending,
                   switchWaiting, readiness, controllerVars, renderVars,
                   presence, engineVars>>

\* NotifyPresence(kJoining).
NotifyJoining ==
    /\ main = "joining" /\ main' = "spawn"
    /\ presence' = <<"Joining", task.request>>
    /\ UNCHANGED <<worker, hostVars, launchVars, readiness, controllerVars,
                   renderVars, engineVars>>

\* The worker is started; when it cannot be, the launches are dropped.
SpawnWorker ==
    /\ main = "spawn"
    /\ \/ worker' = "launch" /\ main' = "pump" /\ UNCHANGED launchVars
       \/ /\ main' = "abandon" /\ UNCHANGED worker
          /\ task' = NoTask /\ presenceRequest' = NoRequest
          /\ playingPublished' = FALSE /\ pending' = <<>>
          /\ UNCHANGED <<subscribed, activeGame, returnPending, switchWaiting>>
    /\ UNCHANGED <<hostVars, readiness, controllerVars, renderVars, presence,
                   engineVars>>

-----------------------------------------------------------------------------
\* Shutdown of the composition, after the main loop.

\* The first section: no launch, return or present has an effect any more.
Unsubscribe ==
    /\ main = "shutdown" /\ main' = "join"
    /\ subscribed' = FALSE /\ pending' = <<>>
    /\ activeGame' = NoRequest /\ presenceRequest' = NoRequest
    /\ playingPublished' = FALSE
    /\ returnPending' = FALSE /\ switchWaiting' = FALSE
    /\ UNCHANGED <<worker, hostVars, task, readiness, controllerVars,
                   renderVars, presence, engineVars>>

\* Mutant: the worker is not waited for.
AbandonWorker ==
    /\ main = "join" /\ main' = "release" /\ task' = NoTask
    /\ UNCHANGED <<worker, hostVars, subscribed, pending, activeGame,
                   returnPending, switchWaiting, presenceRequest,
                   playingPublished, readiness, controllerVars, renderVars,
                   presence, engineVars>>

\* Mutant: the end of a failed launch is not noticed.
JoinSucceededWorker ==
    /\ main = "join" /\ worker \in {"none", "succeeded"}
    /\ main' = "release" /\ worker' = "none" /\ task' = NoTask
    /\ UNCHANGED <<hostVars, subscribed, pending, activeGame, returnPending,
                   switchWaiting, presenceRequest, playingPublished, readiness,
                   controllerVars, renderVars, presence, engineVars>>

\* The worker is joined, without a timeout.
JoinWorker ==
    /\ main = "join" /\ worker \in {"none", "succeeded", "failed"}
    /\ main' = "release" /\ worker' = "none" /\ task' = NoTask
    /\ UNCHANGED <<hostVars, subscribed, pending, activeGame, returnPending,
                   switchWaiting, presenceRequest, playingPublished, readiness,
                   controllerVars, renderVars, presence, engineVars>>

\* Shutdown of the controller, which ends a game that still runs.
ShutdownController ==
    /\ main = "release" /\ main' = "exited"
    /\ ClearObserver /\ session' = NoSession /\ appShutdown' = TRUE
    /\ inGame' = FALSE
    /\ UNCHANGED <<worker, hostVars, launchVars, readiness, renderVars,
                   presence, owed>>

-----------------------------------------------------------------------------
\* RunActiveLaunch and the controller's Launch, on the worker.

\* Up to the registration of the observer; building the JNI objects and the
\* registration itself may fail.
PrepareLaunch ==
    /\ worker = "launch"
    /\ \/ /\ ~appShutdown /\ session = NoSession /\ ~observed /\ task.complete
          /\ session' = [NoSession EXCEPT !.request = task.request,
                                          !.state = "Starting",
                                          !.prepared = task.surface]
          /\ observed' = TRUE /\ worker' = "start"
       \/ worker' = "failed" /\ UNCHANGED <<session, observed>>
    /\ UNCHANGED <<main, hostVars, launchVars, readiness, appShutdown,
                   renderVars, presence, engineVars>>

\* InitializeAndStart.  When it succeeds the launch may still fail because the
\* JNI environment is not there to release the local references.
StartSession ==
    /\ worker = "start"
    /\ \/ /\ session' = [session EXCEPT !.state = "Running",
                                        !.active = session.prepared]
          /\ inGame' = TRUE /\ worker' \in {"succeeded", "failed"}
       \/ /\ session' = [session EXCEPT !.state = "Failure"]
          /\ worker' = "undo" /\ UNCHANGED inGame
    /\ UNCHANGED <<main, hostVars, launchVars, readiness, observed,
                   appShutdown, renderVars, presence, owed>>

\* A failed start is undone, and the controller refuses another.
UndoLaunch ==
    /\ worker = "undo" /\ worker' = "failed"
    /\ ClearObserver /\ session' = NoSession /\ appShutdown' = TRUE
    /\ UNCHANGED <<main, hostVars, launchVars, readiness, renderVars,
                   presence, engineVars>>

-----------------------------------------------------------------------------
\* SuccessfulPresentCallback, on the render thread.

\* A frame is presented while the observer is registered.
EnterPresent ==
    /\ presenter = "idle" /\ observed
    /\ presenter' = "callback"
    /\ UNCHANGED <<main, worker, hostVars, launchVars, readiness,
                   controllerVars, publishing, presence, engineVars>>

\* The coordinator takes the present as evidence, or it does not; once it has,
\* the callback returns after a look at the runtime.
RecordPresent ==
    /\ presenter = "callback"
    /\ \/ /\ ~session.presented
          /\ session.state \in {"Starting", "Running", "Paused"}
          /\ session' = [session EXCEPT !.presented = TRUE]
          /\ presenter' = "publish"
       \/ presenter' = "idle" /\ UNCHANGED session
    /\ UNCHANGED <<main, worker, hostVars, launchVars, readiness, observed,
                   appShutdown, publishing, presence, engineVars>>

PublishPresentedPresence ==
    /\ presenter = "publish"
    /\ IF subscribed /\ ~playingPublished /\ presenceRequest # NoRequest
       THEN /\ playingPublished' = TRUE /\ publishing' = presenceRequest
            /\ presenter' = "notify"
       ELSE presenter' = "idle" /\ UNCHANGED <<playingPublished, publishing>>
    /\ UNCHANGED <<main, worker, hostVars, subscribed, pending, task,
                   activeGame, returnPending, switchWaiting, presenceRequest,
                   readiness, controllerVars, presence, engineVars>>

\* NotifyPresence(kPlaying), after mutex_ has been released.
NotifyPlaying ==
    /\ presenter = "notify" /\ presenter' = "idle"
    /\ presence' = <<"Playing", publishing>> /\ publishing' = NoRequest
    /\ UNCHANGED <<main, worker, hostVars, launchVars, readiness,
                   controllerVars, engineVars>>

-----------------------------------------------------------------------------
\* The Lua app and the engine.

\* Whether Dispatch acknowledges r without queueing it.
Duplicate(r) == r \in {activeGame, task.request} \/ Contains(pending, r)

\* Mutant: the size of the queue is compared one too late.
DispatchOneMore(r) ==
    /\ subscribed /\ ~Duplicate(r)
    /\ Len(pending) <= kMaxPendingLaunchRequests
    /\ pending' = Append(pending, r)
    /\ UNCHANGED <<main, worker, hostVars, subscribed, task, activeGame,
                   returnPending, switchWaiting, presenceRequest,
                   playingPublished, readiness, controllerVars, renderVars,
                   presence, engineVars>>

Dispatch(r) ==
    /\ subscribed /\ ~Duplicate(r)
    /\ Len(pending) < kMaxPendingLaunchRequests
    /\ pending' = Append(pending, r)
    /\ UNCHANGED <<main, worker, hostVars, subscribed, task, activeGame,
                   returnPending, switchWaiting, presenceRequest,
                   playingPublished, readiness, controllerVars, renderVars,
                   presence, engineVars>>

\* The game ends by itself: its player leaves it.
PlayerLeaves ==
    /\ inGame /\ inGame' = FALSE /\ owed' = owed + 1
    /\ UNCHANGED <<main, worker, hostVars, launchVars, readiness,
                   controllerVars, renderVars, presence>>

\* NotifyLuaAppDidReturn, once for each game that has ended.
NotifyLuaAppDidReturn ==
    /\ owed > 0 /\ owed' = owed - 1
    /\ returnPending' = (returnPending \/ subscribed)
    /\ UNCHANGED <<main, worker, hostVars, subscribed, pending, task,
                   activeGame, switchWaiting, presenceRequest,
                   playingPublished, readiness, controllerVars, renderVars,
                   presence, inGame>>

-----------------------------------------------------------------------------
MainStep == \/ EndPump \/ DrainEvent \/ EndDrain \/ ReapWorker \/ ConsumeReturn
            \/ ObserveLuaAppReturn \/ GameReturned \/ NotifyBrowsing
            \/ SwitchGame \/ LeaveGame \/ GameLeft \/ StartLaunch
            \/ NotifyJoining \/ SpawnWorker
            \/ Unsubscribe \/ JoinWorker \/ ShutdownController
WorkerStep == PrepareLaunch \/ StartSession \/ UndoLaunch
CallbackStep == RecordPresent \/ PublishPresentedPresence \/ NotifyPlaying

Next == \/ MainStep \/ WorkerStep \/ CallbackStep
        \/ HostEvent \/ CloseWindow \/ EnterPresent
        \/ (\E r \in Requests : Dispatch(r))
        \/ PlayerLeaves \/ NotifyLuaAppDidReturn

Spec == Init /\ [][Next]_vars

\* The main loop, the worker and a callback that has begun go on, native calls
\* return, and the engine reports the end of each game.  A thread that waits
\* for the mutex of the present gate gets it between two frames, however many
\* are presented: hence the strong fairness.
Fairness == /\ SF_vars(MainStep) /\ SF_vars(WorkerStep)
            /\ WF_vars(CallbackStep) /\ WF_vars(NotifyLuaAppDidReturn)
FairSpec == Spec /\ Fairness

-----------------------------------------------------------------------------
\* Properties.

\* Every variable has its type; the queue never exceeds its capacity.
TypeOK ==
    /\ main \in {"pump", "drain", "reap", "return", "observe", "returned",
                 "browsing", "abandon", "switch", "leave", "clear", "left",
                 "start", "joining", "spawn", "shutdown", "join", "release",
                 "exited"}
    /\ worker \in {"none", "launch", "start", "undo", "succeeded", "failed"}
    /\ presenter \in {"idle", "callback", "publish", "notify"}
    /\ pending \in Seq(Requests) /\ Len(pending) <= kMaxPendingLaunchRequests
    /\ {activeGame, presenceRequest, publishing, task.request, session.request}
         \subseteq Requests \cup {NoRequest}
    /\ {subscribed, returnPending, switchWaiting, playingPublished, observed,
        appShutdown, inGame, quit, session.presented, task.complete}
         \subseteq BOOLEAN
    /\ {task.surface, readiness.generation, session.active, session.prepared}
         \subseteq 0..GenerationLimit
    /\ owed \in Nat

\* The runtime a present callback was given lives until the callback returns,
\* however the game ends meanwhile: a return, a switch, a failed start or the
\* shutdown ("runtime_ remains alive for every accepted present").
CallbackRuntimeLives == presenter # "idle" => observed /\ session # NoSession

\* A return of the Lua app that is reported late is never taken for the end of
\* the next game: while the engine runs a game the controller has its session,
\* and no return is owed, waiting or being consumed.
ReturnEndsItsOwnGame ==
    inGame => /\ session # NoSession
              /\ owed = 0 /\ ~returnPending
              /\ main \notin {"observe", "returned"}

\* One launch at a time: the game, the launch and the runtime of the
\* controller are of one request, and the worker has its task until it is
\* joined.
OneLaunch ==
    /\ worker # "none" => task # NoTask /\ activeGame = NoRequest
    /\ session.state = "Starting" => session.request = task.request
    /\ activeGame # NoRequest /\ session # NoSession
         => session.request = activeGame

\* Presence is told in order: a request joins before it plays, it plays at
\* most once, and nothing is told of a game after it has returned.  Only a
\* process that already shuts down may tell more: a launch that failed after
\* the game had started leaves the observer to the shutdown.
PresenceOrder ==
    [][presence' # presence =>
         \/ presence'[1] = "Browsing"
         \/ presence'[1] = "Joining" /\ presence[1] = "Browsing"
         \/ presence' = <<"Playing", presence[2]>> /\ presence[1] = "Joining"
         \/ main \in {"shutdown", "join", "release"}]_vars

\* A launch that was queued becomes the running task, or the process ends:
\* the switch from a game to the next launch never waits for ever.
QueuedLaunchStarts ==
    \A r \in Requests :
        Contains(pending, r) ~> (task.request = r \/ ~subscribed)

\* Shutdown ends although it waits for the worker and for a present callback
\* that itself needs the mutex of the composition.
ShutdownEnds == main = "shutdown" ~> main = "exited"

\* "Once running, new generations pause and resume the session"
\* (game_session_coordinator.h): when the surface events have been drained, a
\* launched game is on the surface of the window, or paused when it has none.
\* It does not hold: the events drained while the worker starts the game go to
\* the Lua app, and the game stays on the surface the launch was given.
LaunchedGameFollowsWindow ==
    main = "reap" /\ session.state \in {"Running", "Paused"}
                  /\ activeGame # NoRequest =>
        IF window.available
        THEN session.state = "Running" /\ session.active = window.generation
        ELSE session.state = "Paused"
====
