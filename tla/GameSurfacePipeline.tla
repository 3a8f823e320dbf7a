-------------------------- MODULE GameSurfacePipeline --------------------------
(***************************************************************************)
(* A directly launched game from start-up to exit: the window surface      *)
(* lifecycle, the bridge that drains its events                            *)
(* (src/window/window_game_surface_bridge.cc), the game-session runtime    *)
(* (RobloxGameSessionRuntime in roblox_game_session_native_adapter.cc) and *)
(* its coordinator, driven by the main loop of legacy_runtime.cc.          *)
(*                                                                         *)
(* Three threads meet here.  The main thread (main is its program counter) *)
(* starts the session, then repeats PumpEvents and Drain, and finally      *)
(* shuts the session down; a coordinator method it calls keeps it until    *)
(* the native callback returns.  The engine ends native callbacks.  The    *)
(* render thread presents frames and reports out-of-date swapchains at any *)
(* moment.                                                                 *)
(*                                                                         *)
(* The process ends in one of two ways: it has "exited" when the session   *)
(* was shut down, and "aborted" when main returned EXIT_FAILURE before the *)
(* main loop or _Exit gave up a call that took too long.                   *)
(***************************************************************************)
EXTENDS GameSessionCoordinator, Sequences

CONSTANTS Windows, NoWindow, Sizes, NoSize, TooSmall, BadDpi, GenerationLimit,
          Player, Join     \* principal and request of the launch

VARIABLES
    main,          \* where the main thread is
    windowActive,  \* active_ of the window surface lifecycle
    window,        \* its current_
    queue,         \* its events_
    windowOk,      \* status of its last method
    quit,          \* quit_requested
    bridgeFailed,  \* the bridge's terminal_status_ is an error
    stale,         \* out-of-date reports the recovery gate has not handled
    due,           \* no rebind yet, or a present since the last one
    sampled,       \* generation the present callback read, 0 outside of it
    recorded,      \* present_evidence_recorded_
    engineFailed   \* some native callback has failed

hostVars == <<windowActive, window, queue, windowOk, quit>>
gateVars == <<stale, due>>
renderVars == <<sampled, recorded>>
pipelineVars == <<vars, main, hostVars, bridgeFailed, gateVars, renderVars,
                  engineFailed>>

\* The window is active from before the session starts until it has ended.
Window == INSTANCE WindowSurfaceLifecycle
            WITH active <- windowActive, current <- window, events <- queue,
                 ok <- windowOk

GameSurface(s) ==
    [generation |-> s.generation,
     extent |-> IF s.window = NoWindow \/ s.size = NoSize THEN NoExtent
                ELSE <<s.window, s.size>>]

PipelineInit ==
    /\ Init /\ capabilities = "complete"
    /\ main = "initialize"
    /\ window \in {Window!Snapshot(1, w, z, TRUE) : w \in Windows, z \in Sizes}
    /\ windowActive = TRUE /\ queue = <<>> /\ windowOk = TRUE /\ quit = FALSE
    /\ bridgeFailed = FALSE /\ engineFailed = FALSE
    /\ stale = FALSE /\ due = TRUE
    /\ sampled = 0 /\ recorded = FALSE

-----------------------------------------------------------------------------
Ended == main \in {"exited", "aborted"}

\* RobloxGameSessionRuntime::InitializeAndStart, on the snapshot of the window:
\* the adapter is initialized, which may fail, and the coordinator is told the
\* principal, the request and the surface, as long as it accepts them.
InitializeAndStart ==
    /\ result # "Rejected"
    /\ \/ /\ main = "initialize" /\ main' \in {"principal", "refused"}
          /\ UNCHANGED vars
       \/ /\ main = "principal" /\ main' = "request" /\ SetPrincipal(Player)
       \/ /\ main = "request" /\ main' = "create" /\ QueueJoinRequest(Join)
       \/ /\ main = "create" /\ main' = "change"
          /\ SurfaceCreated(window.generation)
       \/ /\ main = "change" /\ main' = "starting"
          /\ UpdateSurface(GameSurface(window), FALSE)
    /\ UNCHANGED <<hostVars, bridgeFailed, gateVars, renderVars, engineFailed>>

\* The start-up thread is joined and startup_status() looked at: EXIT_FAILURE,
\* or the main loop once the input and text input have been set up.  When they
\* cannot be, that is EXIT_FAILURE too, with the game running.
StartupReturns ==
    /\ OperationMutexFree
    /\ \/ main = "starting" /\ result # "Rejected" /\ main' \in {"pump", "aborted"}
       \/ /\ \/ main = "refused"
             \/ main \in {"change", "starting"} /\ result = "Rejected"
          /\ main' = "aborted"
    /\ UNCHANGED <<vars, hostVars, bridgeFailed, gateVars, renderVars,
                   engineFailed>>

\* The start-up thread is not joined in MOCKTAIL_STARTUP_THREAD_TIMEOUT_MS: it
\* is cancelled, and the process ends by _Exit wherever the thread was.
StartupTimesOut ==
    /\ main \in {"initialize", "principal", "request", "create", "change",
                 "starting", "refused"}
    /\ main' = "aborted"
    /\ UNCHANGED <<vars, hostVars, bridgeFailed, gateVars, renderVars,
                   engineFailed>>

-----------------------------------------------------------------------------
\* PumpEvents.

\* A window event: the lifecycle observes the window, and looks at it again
\* when the event ends a fullscreen transition.
WindowEvent(w, z, fullscreen) ==
    /\ main = "pump"
    /\ Window!Observe(w, z)
    /\ quit' = IF windowOk' THEN quit ELSE TRUE
    /\ main' = IF windowOk' /\ fullscreen THEN "refresh" ELSE main
    /\ UNCHANGED <<vars, bridgeFailed, gateVars, renderVars, engineFailed>>

RefreshWindow ==
    /\ main = "refresh" /\ main' = "pump"
    /\ Window!Refresh
    /\ quit' = IF windowOk' THEN quit ELSE TRUE
    /\ UNCHANGED <<vars, bridgeFailed, gateVars, renderVars, engineFailed>>

CloseWindow ==
    /\ main = "pump" /\ quit' = TRUE
    /\ UNCHANGED <<vars, main, windowActive, window, queue, windowOk,
                   bridgeFailed, gateVars, renderVars, engineFailed>>

\* TakeRebindRequest.  When nothing was presented since the last rebind the
\* request waits for kRetryIntervalNs, which may or may not have passed.
TakeRebindRequest == stale /\ stale' = FALSE /\ due' = FALSE

\* MaybeRecoverVulkanSurface, the last thing PumpEvents does: the surface is
\* recreated.
RecoverSurface ==
    /\ main = "pump" /\ main' = "drain"
    /\ TakeRebindRequest
    /\ Window!Recreate
    /\ quit' = IF windowOk' THEN quit ELSE TRUE
    /\ UNCHANGED <<vars, bridgeFailed, renderVars, engineFailed>>

\* Mutant: a request that comes too early counts as handled.
KeepSurfaceForgetful ==
    /\ main = "pump" /\ main' = "drain"
    /\ ~(stale /\ due)
    /\ stale' = FALSE
    /\ UNCHANGED <<vars, hostVars, bridgeFailed, due, renderVars, engineFailed>>

\* Or there is no request, or it has to wait.
KeepSurface ==
    /\ main = "pump" /\ main' = "drain"
    /\ ~(stale /\ due)
    /\ UNCHANGED <<vars, hostVars, bridgeFailed, gateVars, renderVars,
                   engineFailed>>

EndPump == RecoverSurface \/ KeepSurface

-----------------------------------------------------------------------------
\* WindowGameSurfaceBridge::Drain.

ValidEvent(e) ==
    /\ e.surface.generation # 0
    /\ e.type = "Changed" =>
         e.surface.available /\ GameSurface(e.surface).extent # NoExtent

\* Mutant: a lost surface is not reported to the game.
DispatchButDestroyed(e) ==
    IF e.type = "Created" THEN SurfaceCreated(e.surface.generation)
    ELSE IF e.type = "Changed" THEN UpdateSurface(GameSurface(e.surface), TRUE)
    ELSE result' = "Applied" /\ UNCHANGED <<state, callback, surfaceVars,
                                  presentVars, requestVars, flagVars>>

Dispatch(e) ==
    IF e.type = "Created" THEN SurfaceCreated(e.surface.generation)
    ELSE IF e.type = "Changed" THEN UpdateSurface(GameSurface(e.surface), TRUE)
    ELSE SurfaceDestroyed(e.surface.generation)

DrainEvent ==
    /\ main = "drain" /\ Window!Poll
    /\ IF ValidEvent(Head(queue))
       THEN /\ Dispatch(Head(queue)) /\ main' = "dispatched"
            /\ UNCHANGED bridgeFailed
       ELSE bridgeFailed' = TRUE /\ main' = "shutdown" /\ UNCHANGED vars
    /\ UNCHANGED <<quit, gateVars, renderVars, engineFailed>>

\* The commit observer, the opt-in resize readiness gate, is disabled.
EventCommitted ==
    /\ main = "dispatched" /\ OperationMutexFree
    /\ IF result = "Rejected" THEN bridgeFailed' = TRUE /\ main' = "shutdown"
       ELSE main' = "drain" /\ UNCHANGED bridgeFailed
    /\ UNCHANGED <<vars, hostVars, gateVars, renderVars, engineFailed>>

EndDrain ==
    /\ main = "drain" /\ queue = <<>>
    /\ main' = IF quit THEN "shutdown" ELSE "pump"
    /\ UNCHANGED <<vars, hostVars, bridgeFailed, gateVars, renderVars,
                   engineFailed>>

-----------------------------------------------------------------------------
\* RobloxGameSessionRuntime::Shutdown: pause, leave and stop, each if it applies.

PauseSession ==
    /\ main = "shutdown"
    /\ IF state = "Running" /\ activeAvailable
       THEN SurfaceDestroyed(active.generation) /\ main' = "pausing"
       ELSE UNCHANGED vars /\ main' = "leave"

\* Mutant: the engine is stopped with the game still paused in it.
LeaveSessionNever == main = "leave" /\ main' = "stop" /\ UNCHANGED vars

LeaveSession ==
    /\ main = "leave"
    /\ IF state \in {"Running", "Paused"}
       THEN LeaveGame /\ main' = "leaving"
       ELSE UNCHANGED vars /\ main' = "stop"

StopSession == main = "stop" /\ Shutdown /\ main' = "stopping"

ShutdownSession ==
    /\ PauseSession \/ LeaveSession \/ StopSession
    /\ UNCHANGED <<hostVars, bridgeFailed, gateVars, renderVars, engineFailed>>

\* The result of one of the three calls is looked at.
ShutdownReturns ==
    /\ main \in {"pausing", "leaving", "stopping"} /\ OperationMutexFree
    /\ main' = IF result = "Rejected" \/ main = "stopping" THEN "exited"
               ELSE IF main = "pausing" THEN "leave" ELSE "stop"
    /\ UNCHANGED <<vars, hostVars, bridgeFailed, gateVars, renderVars,
                   engineFailed>>

-----------------------------------------------------------------------------
\* The engine and the render thread.

EngineReturns(ok) ==
    /\ ~Ended /\ NativeReturns(ok)
    /\ engineFailed' = IF ok THEN engineFailed ELSE TRUE
    /\ UNCHANGED <<main, hostVars, bridgeFailed, gateVars, renderVars>>

\* The calls InvokeWithMainThreadPump makes, on a thread of their own.
PumpedCall == callback \in {"pause_game", "leave_game"}

\* Mutant: the thread is waited for without a limit.
GuestCallWaitsOn == FALSE

\* InvokeWithMainThreadPump: the call takes more than kGuestLifecycleTimeoutMs,
\* and the process ends by _Exit.
GuestCallTimesOut ==
    /\ ~Ended /\ PumpedCall /\ main' = "aborted"
    /\ UNCHANGED <<vars, hostVars, bridgeFailed, gateVars, renderVars,
                   engineFailed>>

OutOfDate ==
    /\ ~Ended /\ ~stale /\ stale' = TRUE
    /\ UNCHANGED <<vars, main, hostVars, bridgeFailed, due, renderVars,
                   engineFailed>>

\* SuccessfulPresentCallback up to the Snapshot in RecordPresent.
FramePresented ==
    /\ ~Ended /\ sampled = 0 /\ due' = TRUE
    /\ sampled' = IF recorded THEN 0
                  ELSE IF pending # NoSurface THEN pending.generation
                  ELSE active.generation
    /\ UNCHANGED <<vars, main, hostVars, bridgeFailed, stale, recorded,
                   engineFailed>>

\* Mutant: any answer counts as a recorded present.
RecordAnyAnswer(f) ==
    /\ recorded' = TRUE
    /\ IF PresentStatus(sampled, f) = "Applied" THEN RecordGamePresent(sampled, f)
       ELSE UNCHANGED vars

\* The rest of it: the evidence is offered for the surface that was read.
RecordPresent(f) ==
    IF PresentStatus(sampled, f) = "Applied"
    THEN RecordGamePresent(sampled, f) /\ recorded' = TRUE
    ELSE UNCHANGED <<vars, recorded>>

PresentRecorded(f) ==
    /\ ~Ended /\ sampled # 0 /\ sampled' = 0
    /\ RecordPresent(f)
    /\ UNCHANGED <<main, hostVars, bridgeFailed, gateVars, engineFailed>>

-----------------------------------------------------------------------------
MainStep ==
    \/ InitializeAndStart \/ StartupReturns
    \/ RefreshWindow \/ EndPump
    \/ DrainEvent \/ EventCommitted \/ EndDrain
    \/ ShutdownSession \/ ShutdownReturns

HostEvent ==
    \/ \E w \in Windows \cup {NoWindow}, z \in Sizes \cup {TooSmall, BadDpi},
          fullscreen \in BOOLEAN : WindowEvent(w, z, fullscreen)
    \/ CloseWindow

RenderStep ==
    \/ OutOfDate \/ FramePresented
    \/ \E f \in Frames \ {0} : PresentRecorded(f)

PipelineNext ==
    \/ MainStep \/ HostEvent \/ StartupTimesOut \/ GuestCallTimesOut
    \/ \E ok \in BOOLEAN : EngineReturns(ok)
    \/ RenderStep

\* The main thread keeps running.  A pause or a leave returns or is given up,
\* which the code sees to; the calls it makes without a limit return.
\* PumpEvents ends although window events keep arriving: it drains what SDL had
\* queued.  Time passes: a request to rebind does not wait at every pump.
PipelineFairness ==
    /\ WF_pipelineVars(MainStep)
    /\ SF_pipelineVars(EndPump) /\ SF_pipelineVars(RecoverSurface)
    /\ WF_pipelineVars(GuestCallTimesOut)
    /\ WF_pipelineVars(~PumpedCall /\ \E ok \in BOOLEAN : EngineReturns(ok))

PipelineSpec == PipelineInit /\ [][PipelineNext]_pipelineVars /\ PipelineFairness

-----------------------------------------------------------------------------
\* Properties.

\* The session fails only if the engine fails a call: no sequence of window
\* events, minimisations, handle replacements, fullscreen transitions and
\* swapchain recoveries makes the coordinator refuse what the bridge drains,
\* which is fatal to the process (legacy_runtime.cc "Typed GAME surface bridge
\* rejected an event").
FailureIsNative ==
    /\ state = "Failure" => engineFailed
    /\ bridgeFailed => engineFailed

\* Between a drain and the next pump the game is bound to exactly the surface
\* the window has, or is paused because the window has none.
GameFollowsWindow ==
    main = "pump" /\ queue = <<>> /\ ~engineFailed =>
      IF window.available
      THEN state = "Running" /\ active = GameSurface(window)
      ELSE state = "Paused"

\* Once the runtime stops offering presents to the coordinator
\* (present_evidence_recorded_), the coordinator holds the evidence or has
\* failed: reading the generation and recording it are two steps, and evidence
\* refused because the surface changed in between does not count.
RecordedMeansEvidence ==
    recorded => presented # 0 \/ pendingPresent # 0 \/ state = "Failure"
                \/ engineFailed

\* Unless the engine fails a call, a process that got to its main loop and out
\* of it has left the game, paused it before that, and stopped the engine: no
\* moment at which the loop ends, and no surface lost or recovered meanwhile,
\* makes Shutdown skip a step or be refused one.  Not so the exits that do not
\* shut down ("aborted").
CleanExit == main = "exited" /\ ~engineFailed => state = "Stopped" /\ returned

\* Every surface the window opens reaches the game, or the process ends, even
\* if the engine never returns from a pause or a leave.
SurfacesReachGame ==
    \A g \in Generations :
      window.available /\ window.generation = g
        ~> active.generation >= g \/ Ended

\* A swapchain that is out of date is replaced: after a report the game gets a
\* surface newer than the one the window then had, or the process ends.  No
\* report is lost, although reports are coalesced and a request that follows
\* another too closely has to wait.
OutOfDateIsReplaced ==
    \A g \in Generations :
      stale /\ window.generation = g ~> active.generation > g \/ Ended

=============================================================================
