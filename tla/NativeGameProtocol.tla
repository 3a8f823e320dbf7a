-------------------------- MODULE NativeGameProtocol --------------------------
(***************************************************************************)
(* What the native game engine may expect of its host: the order in which  *)
(* the seven entry points of GameSessionCapabilities are called, one at a  *)
(* time, and the surface generations they are given.  This is the abstract *)
(* specification; GameSessionCoordinator is shown to implement it.         *)
(***************************************************************************)
EXTENDS Naturals

CONSTANT Generations   \* of surfaces; 0 stands for no surface

VARIABLES
    phase,      \* what the engine is doing between two calls
    call,       \* entry point being executed
    target,     \* surface generation given to that call, 0 for none
    bound,      \* surface generation the engine was last bound to
    stopTried   \* shutdown_runtime has been called

pvars == <<phase, call, target, bound, stopTried>>

Init == /\ phase = "idle" /\ call = "none" /\ target = 0 /\ bound = 0
        /\ stopTried = FALSE

Invoke(fn, g) ==
    /\ call = "none" /\ call' = fn /\ target' = g
    /\ UNCHANGED <<phase, bound, stopTried>>

\* The game is foregrounded only while it does not render.
Foreground == phase \in {"idle", "paused"} /\ Invoke("set_game_foreground", 0)

Start == /\ phase = "idle"
         /\ \E g \in Generations \ {0} : Invoke("start_game", g)

\* A resize stays on the surface the engine is bound to.
Update == phase = "running" /\ Invoke("update_surface", bound)

Pause == phase = "running" /\ Invoke("pause_game", 0)

\* The surface a game was paused from is gone; it resumes on another one.
Resume == /\ phase = "paused"
          /\ \E g \in Generations \ {0, bound} : Invoke("resume_game", g)

Leave == phase \in {"running", "paused"} /\ Invoke("leave_game", 0)

\* Shutdown is possible in any phase, once; a failed one is not retried.
Stop == /\ call = "none" /\ ~stopTried /\ phase # "stopped"
        /\ call' = "shutdown_runtime" /\ target' = 0
        /\ phase' = "stopping" /\ stopTried' = TRUE
        /\ UNCHANGED bound

PhaseAfter(fn) ==
    IF fn = "set_game_foreground" THEN phase
    ELSE IF fn = "pause_game" THEN "paused"
    ELSE IF fn = "leave_game" THEN "left"
    ELSE IF fn = "shutdown_runtime" THEN "stopped" ELSE "running"

Succeed == /\ call # "none" /\ call' = "none" /\ target' = 0
           /\ phase' = PhaseAfter(call)
           /\ bound' = IF target # 0 THEN target ELSE bound
           /\ UNCHANGED stopTried

\* A call that fails ends the session, except for shutdown.
Failed == /\ call # "none" /\ call' = "none" /\ target' = 0
          /\ phase' = "failed"
          /\ UNCHANGED <<bound, stopTried>>

\* The host gives up between two calls, on an event it cannot accept.
GiveUp == /\ call = "none" /\ phase \in {"idle", "running", "paused"}
          /\ phase' = "failed"
          /\ UNCHANGED <<call, target, bound, stopTried>>

Next == Foreground \/ Start \/ Update \/ Pause \/ Resume \/ Leave \/ Stop
        \/ Succeed \/ Failed \/ GiveUp

Spec == Init /\ [][Next]_pvars

=============================================================================
