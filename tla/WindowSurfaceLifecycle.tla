------------------------ MODULE WindowSurfaceLifecycle ------------------------
(***************************************************************************)
(* The window surface lifecycle (src/window/window_surface_lifecycle.cc):  *)
(* it turns what PumpEvents observes of the host window into a queue of    *)
(* Android-style surface events.  Each method holds mutex_ throughout and  *)
(* is one action.  A width, a height and a DPI scale are one size; the     *)
(* sizes below the minimum are TooSmall and those with a DPI scale that is *)
(* not positive BadDpi.  GenerationLimit is the largest uint64_t.          *)
(***************************************************************************)
EXTENDS Naturals, SequencesExt

CONSTANTS Windows, NoWindow, Sizes, NoSize, TooSmall, BadDpi, GenerationLimit

ASSUME LifecycleAssumption ==
    /\ GenerationLimit \in Nat \ {0}
    /\ NoWindow \notin Windows
    /\ NoSize \notin Sizes /\ TooSmall \notin Sizes /\ BadDpi \notin Sizes

VARIABLES
    active,    \* active_
    current,   \* current_
    events,    \* events_
    ok         \* status of the last method

vars == <<active, current, events, ok>>

Snapshot(g, w, z, a) ==
    [generation |-> g, window |-> w, size |-> z, available |-> a]
NoSnapshot == Snapshot(0, NoWindow, NoSize, FALSE)

Event(type, surface) == [type |-> type, surface |-> surface]

Init == /\ active = FALSE /\ current = NoSnapshot /\ events = <<>>
        /\ ok = TRUE

-----------------------------------------------------------------------------
\* Mutant: a trailing Changed is replaced whatever its generation was.
QueueOverAnyEvent(q, e) ==
    IF e.type = "Changed" /\ q # <<>> /\ Last(q).type # "Destroyed"
    THEN [q EXCEPT ![Len(q)] = e] ELSE Append(q, e)

\* QueueLocked: a Changed replaces a Changed of its generation that is last.
Queue(q, e) ==
    IF /\ e.type = "Changed" /\ q # <<>>
       /\ Last(q).type = "Changed"
       /\ Last(q).surface.generation = e.surface.generation
    THEN [q EXCEPT ![Len(q)] = e] ELSE Append(q, e)

\* The current surface is lost: its Destroyed event, and what is left of it.
QueueDestroyed ==
    Queue(events, Event("Destroyed", [current EXCEPT !.available = FALSE]))
Lost == [current EXCEPT !.window = NoWindow, !.available = FALSE]

Refuse == ok' = FALSE /\ UNCHANGED <<active, current, events>>

\* Mutant: the surface comes back with the generation it was lost with.
ReopenSameGeneration(q, c, w, z) ==
    LET opened == Snapshot(c.generation, w, z, TRUE)
    IN /\ ok' = TRUE /\ current' = opened
       /\ events' = Queue(Queue(q, Event("Created", opened)),
                          Event("Changed", opened))

\* Mutant: the new surface is not announced.
ReopenUnannounced(q, c, w, z) ==
    ok' = TRUE /\ events' = q /\ current' = Snapshot(c.generation + 1, w, z, TRUE)

\* RestoreLocked, after q has been queued and with c the current surface.
Reopen(q, c, w, z) ==
    LET opened == Snapshot(c.generation + 1, w, z, TRUE)
    IN IF c.generation = GenerationLimit
       THEN ok' = FALSE /\ current' = c /\ events' = q
       ELSE /\ ok' = TRUE /\ current' = opened
            /\ events' = Queue(Queue(q, Event("Created", opened)),
                               Event("Changed", opened))

Activate(w, z) ==
    \/ /\ ~active /\ w \in Windows /\ z \in Sizes
       /\ active' = TRUE /\ ok' = TRUE /\ events' = <<>>
       /\ current' = Snapshot(1, w, z, TRUE)
    \/ (active \/ w \notin Windows \/ z \notin Sizes) /\ Refuse

Deactivate ==
    /\ active' = FALSE /\ events' = <<>> /\ current' = NoSnapshot
    /\ UNCHANGED ok

\* Mutant: the minimum size is not looked at.
UsableAtAnySize(w, z) == w # NoWindow /\ z # BadDpi

Usable(w, z) == w # NoWindow /\ z \in Sizes

\* Whether the observation ends the current surface's lifetime.
LosesWindow(w) == current.available /\ w # current.window

Observe(w, z) ==
    \/ ~active /\ Refuse
    \/ active /\ w # NoWindow /\ z = BadDpi /\ Refuse
    \/ /\ active /\ UNCHANGED active
       /\ \/ /\ w = NoWindow \/ z = TooSmall
             /\ ok' = TRUE
             /\ current' = IF LosesWindow(w) THEN Lost ELSE current
             /\ events' = IF LosesWindow(w) THEN QueueDestroyed ELSE events
          \/ /\ Usable(w, z) /\ ~current.available
             /\ Reopen(events, current, w, z)
          \/ /\ Usable(w, z) /\ LosesWindow(w)
             /\ Reopen(QueueDestroyed, Lost, w, z)
          \/ /\ Usable(w, z) /\ current.available /\ w = current.window
             /\ ok' = TRUE /\ current' = [current EXCEPT !.size = z]
             /\ events' = IF z = current.size THEN events
                          ELSE Queue(events, Event("Changed", current'))

\* A surface that is available is valid, so the code's second test of it in
\* Refresh and Recreate adds nothing to the first.
Refresh ==
    \/ ~(active /\ current.available) /\ Refuse
    \/ /\ active /\ current.available /\ ok' = TRUE
       /\ events' = Queue(events, Event("Changed", current))
       /\ UNCHANGED <<active, current>>

\* Mutant: the old lifetime is not closed first.
RecreateWithoutDestroy ==
    /\ active /\ current.available
    /\ Reopen(events, current, current.window, current.size)
    /\ UNCHANGED active

Recreate ==
    \/ /\ \/ ~(active /\ current.available)
          \/ current.generation = GenerationLimit
       /\ Refuse
    \/ /\ active /\ current.available /\ current.generation # GenerationLimit
       /\ Reopen(QueueDestroyed, current, current.window, current.size)
       /\ UNCHANGED active

Poll ==
    /\ events # <<>> /\ events' = Tail(events)
    /\ UNCHANGED <<active, current, ok>>

-----------------------------------------------------------------------------
\* PumpEvents and window start-up and shutdown, which produce events.
HostStep ==
    \/ \E w \in Windows \cup {NoWindow}, z \in Sizes \cup {TooSmall, BadDpi} :
         Activate(w, z) \/ Observe(w, z)
    \/ Deactivate \/ Refresh \/ Recreate

Next == HostStep \/ Poll

Spec == Init /\ [][Next]_vars

-----------------------------------------------------------------------------
\* Properties.

Surfaces == [generation : 0..GenerationLimit, window : Windows \cup {NoWindow},
             size : Sizes \cup {NoSize}, available : BOOLEAN]

\* Every surface the lifecycle holds or queues has a generation in range, and an
\* available one has a window and a usable size: no TooSmall or BadDpi
\* observation is ever stored.
TypeOK ==
    /\ active \in BOOLEAN /\ ok \in BOOLEAN
    /\ current \in Surfaces
    /\ events \in Seq([type : {"Created", "Changed", "Destroyed"},
                       surface : Surfaces])
    /\ current.available => current.window \in Windows /\ current.size \in Sizes

\* Two events that may follow one another in the queue.
Follows(d, e) ==
    \/ /\ d.type = "Created" /\ e.type = "Changed"
       /\ e.surface.generation = d.surface.generation
    \/ /\ d.type = "Changed" /\ e.type = "Destroyed"
       /\ e.surface.generation = d.surface.generation
    \/ /\ d.type = "Destroyed" /\ e.type = "Created"
       /\ e.surface.generation = d.surface.generation + 1

\* The queue is a run of Created, one Changed, Destroyed per lifetime, the next
\* lifetime with the next generation, and its last event is about the current
\* surface (QueueLocked, RestoreLocked, Recreate).
StreamOrder ==
    /\ \A i \in 1..(Len(events) - 1) : Follows(events[i], events[i + 1])
    /\ events # <<>> =>
         /\ Last(events).surface.generation = current.generation
         /\ Last(events).type = IF current.available THEN "Changed" ELSE "Destroyed"

\* While the lifecycle is active a generation is never used for a second
\* surface: it only grows, and a surface that is lost or replaced gets a new one.
GenerationsGrow ==
    [][active /\ active' =>
         /\ current'.generation >= current.generation
         /\ current'.available /\ ~current.available
              => current'.generation > current.generation
         /\ current'.available /\ current.available
              /\ current'.window # current.window
              => current'.generation > current.generation]_vars

=============================================================================
