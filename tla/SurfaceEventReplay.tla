-------------------------- MODULE SurfaceEventReplay --------------------------
(***************************************************************************)
(* A consumer of the window surface lifecycle that takes the snapshot when *)
(* the lifecycle is activated, as LuaApp start-up does, and applies every  *)
(* event it polls.  view is the surface it believes the window has.        *)
(***************************************************************************)
EXTENDS WindowSurfaceLifecycle

VARIABLE view

replayVars == <<vars, view>>

Broken == Snapshot(0, NoWindow, NoSize, TRUE)

\* What a consumer that trusts nothing makes of an event: surfaces are opened,
\* bound, resized and closed in that order, and generations only grow.
Apply(v, e) ==
    IF /\ e.type = "Created" /\ ~v.available
       /\ e.surface.generation > v.generation
    THEN Snapshot(e.surface.generation, NoWindow, NoSize, TRUE)
    ELSE IF /\ e.type = "Changed" /\ v.available
            /\ e.surface.available /\ e.surface.generation = v.generation
    THEN e.surface
    ELSE IF /\ e.type = "Destroyed" /\ v.available /\ v.window # NoWindow
            /\ e.surface.generation = v.generation
    THEN Snapshot(v.generation, NoWindow, v.size, FALSE)
    ELSE Broken

ReplayInit == Init /\ view = NoSnapshot

ReplayNext ==
    \/ /\ HostStep
       /\ view' = IF active = active' THEN view ELSE current'
    \/ /\ Poll /\ view' = Apply(view, Head(events))

ReplaySpec == ReplayInit /\ [][ReplayNext]_replayVars

\* Draining the queue takes the consumer from what it holds to exactly the
\* window's current surface, through legal events only: no Changed or Destroyed
\* for a lifetime it does not have, no lifetime left open, no generation reused,
\* whatever was coalesced, minimised, replaced or recreated in between.
ReplayReachesCurrent == active => FoldLeft(Apply, view, events) = current

=============================================================================
