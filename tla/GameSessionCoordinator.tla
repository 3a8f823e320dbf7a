------------------------ MODULE GameSessionCoordinator ------------------------
(***************************************************************************)
(* The game-session coordinator (src/runtime/game_session_coordinator.cc): *)
(* the state machine between the host window and the native game engine.   *)
(*                                                                         *)
(* Two mutexes guard it.  operation_mutex_ serialises the lifecycle        *)
(* methods and is held for the whole of a native callback; mutex_ guards   *)
(* the fields and is released while the callback runs, so that the render  *)
(* thread can record a present in the middle of one.  A lifecycle method   *)
(* is therefore one action when it makes no native call, and otherwise a   *)
(* begin action, which leaves the call in `callback', and the action       *)
(* NativeReturns that takes its result.  RecordGamePresent may happen      *)
(* between the two.                                                        *)
(*                                                                         *)
(* A flag and the value it guards are one variable when the code always    *)
(* writes them together: generation 0 is "no surface prepared", NoSurface  *)
(* "no pending surface", frame 0 "no present".  revision_, which only      *)
(* counts changes, and the texts of messages are left out.                 *)
(***************************************************************************)
EXTENDS Naturals

CONSTANTS
    Generations,       \* surface generations a caller may name; 0 is invalid
    Extents,           \* usable native window and size of a surface
    NoExtent,          \* a zero window, width or height
    Frames,            \* serials of presented frames; 0 is invalid
    AuthPrincipals, GuestPrincipals, InvalidPrincipals,
    NetworkRequests,   \* valid join requests with place_id # 0
    LocalRequests,     \* valid join requests with place_id = 0
    InvalidRequests,
    NoPrincipal, NoRequest

Principals == AuthPrincipals \cup GuestPrincipals \cup InvalidPrincipals
Requests == NetworkRequests \cup LocalRequests \cup InvalidRequests

ASSUME CoordinatorAssumption ==
    /\ Generations \subseteq Nat /\ Frames \subseteq Nat
    /\ NoExtent \notin Extents
    /\ NoPrincipal \notin Principals /\ NoRequest \notin Requests
    /\ InvalidPrincipals \cap (AuthPrincipals \cup GuestPrincipals) = {}
    /\ InvalidRequests \cap (NetworkRequests \cup LocalRequests) = {}
    /\ AuthPrincipals \cap GuestPrincipals = {}
    /\ NetworkRequests \cap LocalRequests = {}

NoSurface == [generation |-> 0, extent |-> NoExtent]
Surface == [generation : Generations, extent : Extents \cup {NoExtent}]
\* Mutant: only the generation is checked.
ValidSurfaceByGeneration(s) == s.generation # 0

ValidSurface(s) == s.generation # 0 /\ s.extent # NoExtent

VARIABLES
    capabilities,      \* which native entry points capabilities_ holds
    state,             \* state_
    callback,          \* native call in flight, with operation_mutex_ held
    creating,          \* argument of the SurfaceCreated whose call is in flight
    principal,         \* principal_ready_ and principal_
    request,           \* join_request_queued_ and request_
    prepared,          \* surface_created_ and prepared_surface_generation_
    pending,           \* pending_surface_available_ and pending_surface_
    active,            \* active_surface_
    activeAvailable,   \* active_surface_available_
    started,           \* initial_start_completed_
    paused,            \* game_paused_
    pendingPresent,    \* pending_present_ and its frame serial
    presented,         \* game_presented_ and first_presented_frame_
    returned,          \* returned_to_lua_app_
    shutdownAttempted, \* shutdown_attempted_
    lastDestroyed,     \* last_destroyed_surface_generation_
    result             \* status of the last lifecycle method

surfaceVars == <<creating, prepared, pending, active, activeAvailable,
                 lastDestroyed>>
presentVars == <<pendingPresent, presented>>
requestVars == <<principal, request>>
flagVars == <<started, paused, returned, shutdownAttempted, capabilities>>
vars == <<state, callback, result, surfaceVars, presentVars, requestVars,
          flagVars>>

\* Complete, or with a missing entry point that is or is not shutdown_runtime.
CapabilityTables == {"complete", "partial", "noShutdown"}

Init ==
    /\ capabilities \in CapabilityTables
    /\ state = "Created" /\ callback = "none" /\ result = "none"
    /\ creating = 0 /\ prepared = 0 /\ lastDestroyed = 0
    /\ pending = NoSurface /\ active = NoSurface /\ activeAvailable = FALSE
    /\ pendingPresent = 0 /\ presented = 0
    /\ principal = NoPrincipal /\ request = NoRequest
    /\ started = FALSE /\ paused = FALSE /\ returned = FALSE
    /\ shutdownAttempted = FALSE

-----------------------------------------------------------------------------
\* How a lifecycle method ends.

\* FailLocked changes the state and keeps every other field.
Fail == /\ state' = "Failure" /\ result' = "Rejected"
        /\ UNCHANGED callback

Finish(s) == /\ state' = s /\ result' = "Applied"
             /\ UNCHANGED callback

\* DuplicateLocked, RejectLocked and RejectTerminalLocked change nothing.
Answer(r) == result' = r /\ UNCHANGED <<state, callback>>

Calls(s, fn) == state' = s /\ callback' = fn /\ result' = "none"

OperationMutexFree == callback = "none"

\* Mutant: a failed session still accepts lifecycle events.
IsForwardTerminalButFailure ==
    state \in {"ReturnedToLuaApp", "Stopping", "Stopped"}

IsForwardTerminal ==
    state \in {"Failure", "ReturnedToLuaApp", "Stopping", "Stopped"}

PreStartState(pend, req, prep) ==
    IF pend # NoSurface THEN "SurfaceAvailable"
    ELSE IF req # NoRequest THEN "JoinRequestQueued"
    ELSE IF prep # 0 THEN "SurfaceCreated" ELSE "PrincipalReady"

-----------------------------------------------------------------------------
\* Lifecycle methods.

SetPrincipal(p) ==
    /\ OperationMutexFree
    /\ UNCHANGED <<surfaceVars, presentVars, request, flagVars>>
    /\ LET acceptable == /\ principal = NoPrincipal /\ state = "Created"
                         /\ capabilities = "complete" /\ p \notin InvalidPrincipals
       IN \/ /\ acceptable
             /\ principal' = p /\ Finish("PrincipalReady")
          \/ /\ ~acceptable /\ UNCHANGED principal
             /\ IF principal = p THEN Answer("Duplicate")
                ELSE IF IsForwardTerminal THEN Answer("Rejected") ELSE Fail

\* StartIfReadyLocked, with the request and the candidate surface it starts.
StartIfReady(req, surface) ==
    /\ request' = req /\ pending' = surface
    /\ IF principal # NoPrincipal /\ prepared # 0 /\ ~started
       THEN Calls("Starting", "start_game") /\ pendingPresent' = 0
       ELSE Fail /\ UNCHANGED pendingPresent
    /\ UNCHANGED <<creating, prepared, active, activeAvailable, lastDestroyed,
                   presented, principal, flagVars>>

\* Mutant: a guest may join a network game.
MayJoinAsAnyone(r) == principal # NoPrincipal /\ r \notin InvalidRequests

MayJoin(r) ==
    /\ principal # NoPrincipal /\ r \notin InvalidRequests
    /\ r \in NetworkRequests => principal \in AuthPrincipals

QueueJoinRequest(r) ==
    /\ OperationMutexFree
    /\ LET acceptable == request = NoRequest /\ ~IsForwardTerminal /\ MayJoin(r)
       IN \/ /\ acceptable /\ pending = NoSurface
             /\ request' = r /\ Finish("JoinRequestQueued")
             /\ UNCHANGED <<surfaceVars, presentVars, principal, flagVars>>
          \/ /\ acceptable /\ pending # NoSurface
             /\ StartIfReady(r, pending)
          \/ /\ ~acceptable
             /\ UNCHANGED <<surfaceVars, presentVars, requestVars, flagVars>>
             /\ IF request = r THEN Answer("Duplicate")
                ELSE IF IsForwardTerminal THEN Answer("Rejected") ELSE Fail

\* Mutant: a paused game may get its last surface lifetime again.
MayPrepareAgain(g) == IF started THEN state = "Paused" ELSE prepared = 0

MayPrepare(g) ==
    IF started
    THEN state = "Paused" /\ g \notin {active.generation, lastDestroyed}
    ELSE prepared = 0

SurfaceCreated(g) ==
    /\ OperationMutexFree
    /\ UNCHANGED <<prepared, pending, active, activeAvailable, lastDestroyed,
                   presentVars, requestVars, flagVars>>
    /\ LET acceptable ==
             /\ ~IsForwardTerminal /\ principal # NoPrincipal
             /\ g # 0 /\ MayPrepare(g)
       IN IF g # 0 /\ g = prepared
          THEN Answer("Duplicate") /\ UNCHANGED creating
          ELSE \/ /\ acceptable /\ creating' = g
                  /\ Calls("PreparingSurface", "set_game_foreground")
               \/ /\ ~acceptable /\ UNCHANGED creating
                  /\ IF IsForwardTerminal THEN Answer("Rejected") ELSE Fail

\* UpdateSurface: SurfaceChanged is force = FALSE, RebindSurface is TRUE.
UpdateSurface(s, force) ==
    /\ OperationMutexFree
    /\ LET matched == /\ ~IsForwardTerminal /\ principal # NoPrincipal
                      /\ ValidSurface(s) /\ s.generation = prepared
                      /\ started => state \in {"Paused", "Running"}
           same == IF started
                   THEN /\ ~force /\ activeAvailable
                        /\ state = "Running" /\ active = s
                   ELSE pending = s
           candidate(st, fn) ==
             /\ pending' = s /\ pendingPresent' = 0 /\ Calls(st, fn)
             /\ UNCHANGED <<creating, prepared, active, activeAvailable,
                            lastDestroyed, presented, requestVars, flagVars>>
           refused == UNCHANGED <<surfaceVars, presentVars, requestVars,
                                  flagVars>>
       IN \/ ~matched /\ refused
             /\ IF IsForwardTerminal THEN Answer("Rejected") ELSE Fail
          \/ matched /\ same /\ refused /\ Answer("Duplicate")
          \/ /\ matched /\ ~same /\ ~started /\ request = NoRequest
             /\ pending' = s /\ Finish("SurfaceAvailable")
             /\ UNCHANGED <<creating, prepared, active, activeAvailable,
                            lastDestroyed, presentVars, requestVars, flagVars>>
          \/ /\ matched /\ ~same /\ ~started /\ request # NoRequest
             /\ StartIfReady(request, s)
          \/ /\ matched /\ started /\ state = "Paused"
             /\ candidate("Resuming", "resume_game")
          \/ /\ matched /\ ~same /\ started /\ state = "Running"
             /\ candidate("UpdatingSurface", "update_surface")

\* Mutant: the surface stays usable until the engine has paused.
DropSurfaceLate(g) ==
    /\ prepared' = 0 /\ lastDestroyed' = g /\ UNCHANGED activeAvailable
    /\ pending' = NoSurface /\ pendingPresent' = 0

\* The destroyed surface is unusable before the engine hears of it.
DropSurface(g) ==
    /\ prepared' = 0 /\ lastDestroyed' = g /\ activeAvailable' = FALSE
    /\ pending' = NoSurface /\ pendingPresent' = 0

SurfaceDestroyed(g) ==
    /\ OperationMutexFree
    /\ UNCHANGED <<creating, active, presented, requestVars, flagVars>>
    /\ LET duplicate == /\ prepared = 0 /\ pending = NoSurface
                        /\ ~activeAvailable /\ g # 0 /\ g = lastDestroyed
           destroysUnused == /\ ~started /\ g # 0
                             /\ g \in {prepared, pending.generation}
           destroysActive == /\ started /\ g # 0 /\ state = "Running"
                             /\ activeAvailable /\ g = active.generation
           keep == UNCHANGED <<prepared, lastDestroyed, pending,
                               pendingPresent, activeAvailable>>
       IN \/ duplicate /\ keep /\ Answer("Duplicate")
          \/ ~duplicate /\ IsForwardTerminal /\ keep /\ Answer("Rejected")
          \/ /\ ~duplicate /\ ~IsForwardTerminal /\ destroysUnused
             /\ DropSurface(g) /\ Finish(PreStartState(NoSurface, request, 0))
          \/ /\ ~duplicate /\ ~IsForwardTerminal /\ destroysActive
             /\ DropSurface(g) /\ Calls("Pausing", "pause_game")
          \/ /\ ~duplicate /\ ~IsForwardTerminal
             /\ ~destroysUnused /\ ~destroysActive
             /\ keep /\ Fail

LeaveGame ==
    /\ OperationMutexFree
    /\ UNCHANGED <<surfaceVars, presentVars, requestVars, flagVars>>
    /\ IF returned THEN Answer("Duplicate")
       ELSE IF IsForwardTerminal THEN Answer("Rejected")
       ELSE IF started /\ state \in {"Running", "Paused"}
       THEN Calls("Leaving", "leave_game")
       ELSE Fail

Shutdown ==
    /\ OperationMutexFree
    /\ UNCHANGED <<surfaceVars, presentVars, requestVars, started, paused,
                   returned, capabilities>>
    /\ LET attempts == /\ state # "Stopped" /\ ~shutdownAttempted
                       /\ capabilities # "noShutdown"
       IN \/ /\ attempts /\ shutdownAttempted' = TRUE
             /\ Calls("Stopping", "shutdown_runtime")
          \/ /\ ~attempts /\ UNCHANGED shutdownAttempted
             /\ IF state = "Stopped" THEN Answer("Duplicate")
                ELSE IF shutdownAttempted THEN Answer("Rejected") ELSE Fail

-----------------------------------------------------------------------------
\* The native callback returns and the method finishes under mutex_.

\* Mutant: the evidence that waited for the call is discarded.
PromoteWithoutEvidence ==
    /\ active' = pending /\ activeAvailable' = TRUE /\ pending' = NoSurface
    /\ pendingPresent' = 0 /\ UNCHANGED presented

\* PromotePendingSurfaceLocked and CommitPendingPresentLocked.
Promote ==
    /\ active' = pending /\ activeAvailable' = TRUE /\ pending' = NoSurface
    /\ presented' = IF presented = 0 THEN pendingPresent ELSE presented
    /\ pendingPresent' = 0

Return(s, r) == callback' = "none" /\ state' = s /\ result' = r

ForegroundReturns(ok) ==
    /\ callback = "set_game_foreground"
    /\ prepared' = IF ok THEN creating ELSE prepared
    /\ creating' = 0
    /\ IF ok THEN Return(IF started THEN "Paused"
                         ELSE PreStartState(pending, request, creating),
                         "Applied")
             ELSE Return("Failure", "Rejected")
    /\ UNCHANGED <<pending, active, activeAvailable, lastDestroyed,
                   presentVars, requestVars, flagVars>>

\* start_game, resume_game and update_surface: the candidate surface becomes
\* active, or is dropped with the present evidence that was waiting for it.
CandidateReturns(ok) ==
    /\ callback \in {"start_game", "resume_game", "update_surface"}
    /\ IF ok
       THEN /\ Promote /\ Return("Running", "Applied")
            /\ started' = TRUE
            /\ paused' = IF callback = "update_surface" THEN paused ELSE FALSE
       ELSE /\ pending' = NoSurface /\ pendingPresent' = 0
            /\ Return("Failure", "Rejected")
            /\ UNCHANGED <<active, activeAvailable, presented, started, paused>>
    /\ UNCHANGED <<creating, prepared, lastDestroyed, requestVars, returned,
                   shutdownAttempted, capabilities>>

PauseReturns(ok) ==
    /\ callback = "pause_game"
    /\ IF ok THEN Return("Paused", "Applied") /\ paused' = TRUE
             ELSE Return("Failure", "Rejected") /\ UNCHANGED paused
    /\ UNCHANGED <<surfaceVars, presentVars, requestVars, started, returned,
                   shutdownAttempted, capabilities>>

\* leave_game and shutdown_runtime drop every surface when they succeed.
EndReturns(ok) ==
    /\ callback \in {"leave_game", "shutdown_runtime"}
    /\ IF ok
       THEN /\ Return(IF callback = "leave_game" THEN "ReturnedToLuaApp"
                      ELSE "Stopped", "Applied")
            /\ returned' = IF callback = "leave_game" THEN TRUE ELSE returned
            /\ activeAvailable' = FALSE /\ prepared' = 0 /\ paused' = FALSE
            /\ pending' = NoSurface /\ pendingPresent' = 0
       ELSE /\ Return("Failure", "Rejected")
            /\ UNCHANGED <<returned, activeAvailable, prepared, paused,
                           pending, pendingPresent>>
    /\ UNCHANGED <<creating, active, lastDestroyed, presented, requestVars,
                   started, shutdownAttempted, capabilities>>

NativeReturns(ok) ==
    \/ ForegroundReturns(ok) \/ CandidateReturns(ok)
    \/ PauseReturns(ok) \/ EndReturns(ok)

-----------------------------------------------------------------------------
\* The render thread, which takes mutex_ only.

\* Mutant: evidence for any candidate waits, called for or not.
DefersPresentInAnyState(g) == pending # NoSurface /\ g = pending.generation

DefersPresent(g) ==
    /\ state \in {"Starting", "Resuming", "UpdatingSurface"}
    /\ pending # NoSurface /\ g = pending.generation

ObservesPresent(g) ==
    /\ g = active.generation
    /\ \/ state \in {"Running", "UpdatingSurface"} /\ activeAvailable
       \/ state \in {"Pausing", "Paused"}

\* What RecordGamePresent answers; it changes a field only when it applies the
\* evidence.  A malformed present (failed, or of the wrong backend) is frame 0.
PresentStatus(g, frame) ==
    IF g = 0 \/ frame = 0 \/ ~(DefersPresent(g) \/ ObservesPresent(g))
    THEN "Rejected"
    ELSE IF presented # 0 \/ (DefersPresent(g) /\ pendingPresent # 0)
    THEN "Duplicate" ELSE "Applied"

RecordGamePresent(g, frame) ==
    /\ PresentStatus(g, frame) = "Applied"
    /\ IF DefersPresent(g)
       THEN pendingPresent' = frame /\ UNCHANGED presented
       ELSE presented' = frame /\ UNCHANGED pendingPresent
    /\ UNCHANGED <<state, callback, result, surfaceVars, requestVars, flagVars>>

-----------------------------------------------------------------------------
LifecycleCall ==
    \/ \E p \in Principals : SetPrincipal(p)
    \/ \E r \in Requests : QueueJoinRequest(r)
    \/ \E g \in Generations : SurfaceCreated(g) \/ SurfaceDestroyed(g)
    \/ \E s \in Surface, force \in BOOLEAN : UpdateSurface(s, force)
    \/ LeaveGame
    \/ Shutdown

Next ==
    \/ LifecycleCall
    \/ \E ok \in BOOLEAN : NativeReturns(ok)
    \/ \E g \in Generations, f \in Frames : RecordGamePresent(g, f)

\* Native callbacks are synchronous and return; callers owe nothing.
Fairness == WF_vars(\E ok \in BOOLEAN : NativeReturns(ok))

Spec == Init /\ [][Next]_vars
FairSpec == Spec /\ Fairness

-----------------------------------------------------------------------------
\* Properties.

States ==
    {"Created", "PrincipalReady", "JoinRequestQueued", "PreparingSurface",
     "SurfaceCreated", "SurfaceAvailable", "Starting", "Running",
     "UpdatingSurface", "Pausing", "Paused", "Resuming", "Leaving",
     "ReturnedToLuaApp", "Failure", "Stopping", "Stopped"}

Callbacks == {"set_game_foreground", "start_game", "update_surface",
              "pause_game", "resume_game", "leave_game", "shutdown_runtime"}

UsableSurface == {s \in Surface : s.generation # 0 /\ s.extent # NoExtent}
                 \cup {NoSurface}

FieldsTyped ==
    /\ capabilities \in CapabilityTables
    /\ state \in States /\ callback \in Callbacks \cup {"none"}
    /\ result \in {"none", "Applied", "Duplicate", "Rejected"}
    /\ creating \in Generations \cup {0} /\ prepared \in Generations \cup {0}
    /\ lastDestroyed \in Generations \cup {0}
    /\ pending \in UsableSurface /\ active \in UsableSurface
    /\ pendingPresent \in Frames \cup {0} /\ presented \in Frames \cup {0}
    /\ principal \in (Principals \ InvalidPrincipals) \cup {NoPrincipal}
    /\ request \in (Requests \ InvalidRequests) \cup {NoRequest}

FlagsTyped ==
    /\ activeAvailable \in BOOLEAN /\ started \in BOOLEAN
    /\ paused \in BOOLEAN /\ returned \in BOOLEAN
    /\ shutdownAttempted \in BOOLEAN

\* Every field has a value of its C++ type, and a surface the coordinator keeps
\* is absent or valid: none that ValidSurface refuses is ever stored.
TypeOK == FieldsTyped /\ FlagsTyped

\* The surface the game renders to, and the one offered to it by a native call,
\* belong to the surface lifetime the host has open, in every state, the failed
\* ones included (.cc:346 "A failed callback must never resurrect an invalid
\* native window").  A resize never changes the generation.
SurfaceOwnership ==
    /\ activeAvailable => active # NoSurface /\ active.generation = prepared
    /\ pending # NoSurface => pending.generation = prepared
    /\ state = "UpdatingSurface" => pending.generation = active.generation
    /\ state \in {"Running", "UpdatingSurface"} => activeAvailable
    /\ state \in {"Pausing", "Paused", "Resuming", "ReturnedToLuaApp"}
         => ~activeAvailable

\* The engine is started with an accepted principal and request, an
\* authenticated one for a network game, and with the surface the host has open.
\* The internal precondition of StartIfReadyLocked is never the one that fails.
StartIsJustified ==
    /\ started \/ callback = "start_game"
         => principal # NoPrincipal /\ request # NoRequest
    /\ request \in NetworkRequests => principal \in AuthPrincipals
    /\ pending # NoSurface => principal # NoPrincipal /\ prepared # 0
    /\ callback \in {"start_game", "resume_game", "update_surface"}
         => pending # NoSurface

\* A frame is counted as presented only after StartGame succeeded, and evidence
\* waits only for a candidate surface whose native call is in flight.
PresentIsJustified ==
    /\ presented # 0 => started
    /\ pendingPresent # 0 =>
         /\ presented = 0 /\ pending # NoSurface
         /\ callback \in {"start_game", "resume_game", "update_surface"}

\* How the state, the flags and the call in flight hang together; with the
\* invariants above it is inductive.  In particular a paused game is never
\* offered the surface lifetime it was paused from, and the flags of a session
\* that has not started are clear.
SessionShape ==
    /\ callback = "set_game_foreground" <=> state = "PreparingSurface"
    /\ callback = "start_game" <=> state = "Starting"
    /\ callback = "update_surface" <=> state = "UpdatingSurface"
    /\ callback = "pause_game" <=> state = "Pausing"
    /\ callback = "resume_game" <=> state = "Resuming"
    /\ callback = "leave_game" <=> state = "Leaving"
    /\ callback = "shutdown_runtime" <=> state = "Stopping"
    /\ IF started
       THEN /\ active # NoSurface /\ principal # NoPrincipal
            /\ state \notin {"Created", "PrincipalReady", "JoinRequestQueued",
                             "SurfaceCreated", "SurfaceAvailable", "Starting"}
            /\ pending # NoSurface => state \in {"Resuming", "UpdatingSurface"}
            /\ state \in {"PreparingSurface", "Paused", "Resuming"} => paused
            /\ state \in {"Running", "UpdatingSurface", "Pausing"} => ~paused
            /\ state \in {"Pausing", "Paused", "Resuming"}
                 => prepared # active.generation
            /\ state = "PreparingSurface" =>
                 ~activeAvailable /\ creating # active.generation
       ELSE /\ active = NoSurface /\ ~activeAvailable /\ ~paused /\ ~returned
            /\ state \notin {"Running", "UpdatingSurface", "Pausing", "Paused",
                             "Resuming", "Leaving", "ReturnedToLuaApp"}
            /\ state = "PreparingSurface" => pending = NoSurface
    /\ returned => state \in {"ReturnedToLuaApp", "Stopping", "Stopped", "Failure"}
    /\ state = "Created" => principal = NoPrincipal
    /\ state \in {"Stopping", "Stopped"} => shutdownAttempted
    /\ shutdownAttempted => state \in {"Stopping", "Stopped", "Failure"}
    /\ prepared # 0 \/ callback = "set_game_foreground" => principal # NoPrincipal
    /\ callback = "set_game_foreground" => creating # 0
    /\ principal # NoPrincipal => capabilities = "complete"

\* Present evidence the render thread was told is applied is not lost: it is
\* committed by the native call it waits for unless that call fails, and the
\* first presented frame is never replaced.
EvidenceSettles ==
    [][/\ presented # 0 => presented' = presented
       /\ pendingPresent # 0 /\ pendingPresent' # pendingPresent
            => /\ pendingPresent' = 0
               /\ presented' = pendingPresent \/ state' = "Failure"]_vars

\* Evidence that waits for a native call is eventually committed, or the
\* session has failed.
EvidenceDecided == pendingPresent # 0 ~> presented # 0 \/ state = "Failure"

\* The engine's view of the coordinator.
Phase == IF state = "Failure" THEN "failed"
         ELSE IF state = "Stopping" THEN "stopping"
         ELSE IF state = "Stopped" THEN "stopped"
         ELSE IF state = "ReturnedToLuaApp" THEN "left"
         ELSE IF ~started THEN "idle"
         ELSE IF paused THEN "paused" ELSE "running"

Target == IF callback \in {"start_game", "resume_game", "update_surface"}
          THEN pending.generation ELSE 0

Protocol == INSTANCE NativeGameProtocol WITH
    phase <- Phase, call <- callback, target <- Target,
    bound <- active.generation, stopTried <- shutdownAttempted

\* The coordinator calls the engine in the order NativeGameProtocol allows.
NativeProtocol == Protocol!Spec

=============================================================================
