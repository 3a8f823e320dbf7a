--------------------- MODULE WindowSurfaceLifecycle_proofs ---------------------
(***************************************************************************)
(* Proofs about WindowSurfaceLifecycle, for any windows and sizes, any     *)
(* largest generation and a queue of any length.                           *)
(***************************************************************************)
EXTENDS WindowSurfaceLifecycle, SequenceTheorems, TLAPS

Types == {"Created", "Changed", "Destroyed"}
EventSet == [type : Types, surface : Surfaces]

Ordered(q) == \A i \in 1..(Len(q) - 1) : Follows(q[i], q[i + 1])

\* The last event of q is about surface s.
EndsWith(q, s) ==
    q # <<>> => /\ q[Len(q)].surface.generation = s.generation
                /\ q[Len(q)].type = IF s.available THEN "Changed" ELSE "Destroyed"

\* A queue and a surface that the lifecycle may hold together.
Consistent(q, s) ==
    /\ q \in Seq(EventSet) /\ Ordered(q) /\ EndsWith(q, s)
    /\ s \in Surfaces
    /\ s.available => s.window \in Windows /\ s.size \in Sizes

\* The inductive invariant says no more than TypeOK and StreamOrder together.
LEMMA ConsistentIsInv ==
    TypeOK /\ StreamOrder <=>
        active \in BOOLEAN /\ ok \in BOOLEAN /\ Consistent(events, current)
<1>1. events \in Seq(EventSet) /\ events # <<>> =>
        Last(events) = events[Len(events)]
  BY DEF Last
<1> QED
  BY <1>1 DEF TypeOK, StreamOrder, Consistent, Ordered, EndsWith, EventSet, Types

\* No event need be queued.
LEMMA EmptyIsConsistent ==
    ASSUME NEW s \in Surfaces,
           s.available => s.window \in Windows /\ s.size \in Sizes
    PROVE  Consistent(<<>>, s)
<1>1. <<>> \in Seq(EventSet) /\ Len(<<>>) = 0
  BY EmptySeq
<1>2. Ordered(<<>>)
  BY <1>1 DEF Ordered
<1> QED
  BY <1>1, <1>2 DEF Consistent, EndsWith

\* QueueLocked appends an event that may follow the last one, or replaces a
\* last Changed of the same generation; either way the order is kept.
LEMMA QueueKeepsOrder ==
    ASSUME NEW q \in Seq(EventSet), NEW e \in EventSet, Ordered(q),
           q # <<>> =>
             \/ Follows(q[Len(q)], e)
             \/ /\ q[Len(q)].type = "Changed" /\ e.type = "Changed"
                /\ q[Len(q)].surface.generation = e.surface.generation
    PROVE  LET r == Queue(q, e)
           IN r \in Seq(EventSet) /\ Ordered(r) /\ r # <<>> /\ r[Len(r)] = e
<1> DEFINE r == Queue(q, e)
<1>1. CASE /\ e.type = "Changed" /\ q # <<>> /\ q[Len(q)].type = "Changed"
           /\ q[Len(q)].surface.generation = e.surface.generation
  <2>1. Len(q) \in 1..Len(q) /\ Last(q) = q[Len(q)]
    BY <1>1 DEF Last
  <2>2. r = [q EXCEPT ![Len(q)] = e]
    BY <1>1, <2>1 DEF Queue
  <2>3. r \in Seq(EventSet) /\ Len(r) = Len(q) /\ r[Len(q)] = e
        /\ \A i \in 1..(Len(q) - 1) : r[i] = q[i]
    BY <2>1, <2>2
  <2>4. ASSUME NEW i \in 1..(Len(q) - 1) PROVE Follows(r[i], r[i + 1])
    <3>1. Follows(q[i], q[i + 1]) /\ r[i] = q[i]
      BY <2>3 DEF Ordered
    <3>2. CASE i + 1 = Len(q)
      BY <1>1, <2>3, <3>1, <3>2 DEF Follows
    <3>3. CASE i + 1 # Len(q)
      BY <2>3, <3>1, <3>3
    <3> QED
      BY <3>2, <3>3
  <2> QED
    BY <2>1, <2>3, <2>4 DEF Ordered
<1>2. CASE ~(/\ e.type = "Changed" /\ q # <<>> /\ q[Len(q)].type = "Changed"
             /\ q[Len(q)].surface.generation = e.surface.generation)
  <2>1. r = Append(q, e)
    BY <1>2 DEF Queue, Last
  <2>2. r \in Seq(EventSet) /\ Len(r) = Len(q) + 1 /\ r[Len(q) + 1] = e
        /\ \A i \in 1..Len(q) : r[i] = q[i]
    BY <2>1
  <2>3. ASSUME NEW i \in 1..Len(q) PROVE Follows(r[i], r[i + 1])
    <3>1. CASE i = Len(q)
      BY <1>2, <2>2, <3>1
    <3>2. CASE i # Len(q)
      BY <2>2, <3>2 DEF Ordered
    <3> QED
      BY <3>1, <3>2
  <2> QED
    BY <2>2, <2>3 DEF Ordered
<1> QED
  BY <1>1, <1>2

\* Losing the available surface closes its lifetime (Observe, Recreate).
LEMMA DestroyedIsConsistent ==
    ASSUME Consistent(events, current), current.available
    PROVE  /\ Consistent(QueueDestroyed, Lost)
           /\ Lost.generation = current.generation
<1> DEFINE e == Event("Destroyed", [current EXCEPT !.available = FALSE])
<1>1. current \in Surfaces /\ Lost \in Surfaces /\ ~Lost.available
      /\ Lost.generation = current.generation
  BY DEF Consistent, Lost, Surfaces
<1>2. e \in EventSet /\ e.type = "Destroyed"
      /\ e.surface.generation = current.generation
  BY <1>1 DEF Event, EventSet, Types, Surfaces
<1>3. events # <<>> => Follows(events[Len(events)], e)
  BY <1>2 DEF Consistent, EndsWith, Follows
<1>4. LET r == QueueDestroyed
      IN r \in Seq(EventSet) /\ Ordered(r) /\ r # <<>> /\ r[Len(r)] = e
  BY <1>2, <1>3, QueueKeepsOrder DEF Consistent, QueueDestroyed
<1> QED
  BY <1>1, <1>2, <1>4 DEF Consistent, EndsWith

\* RestoreLocked opens the next lifetime after one that is closed.
LEMMA ReopenIsConsistent ==
    ASSUME NEW q \in Seq(EventSet), Ordered(q), NEW c \in Surfaces,
           q # <<>> => /\ q[Len(q)].type = "Destroyed"
                       /\ q[Len(q)].surface.generation = c.generation,
           c.generation = GenerationLimit => ~c.available,
           NEW w \in Windows, NEW z \in Sizes, Reopen(q, c, w, z)
    PROVE  Consistent(events', current') /\ ok' \in BOOLEAN
<1>1. CASE c.generation = GenerationLimit
  BY <1>1 DEF Reopen, Consistent, EndsWith
<1>2. CASE c.generation # GenerationLimit
  <2> DEFINE opened == Snapshot(c.generation + 1, w, z, TRUE)
             q1 == Queue(q, Event("Created", opened))
             q2 == Queue(q1, Event("Changed", opened))
  <2>1. opened \in Surfaces /\ opened.available
        /\ opened.window \in Windows /\ opened.size \in Sizes
        /\ opened.generation = c.generation + 1
    BY <1>2, LifecycleAssumption DEF Snapshot, Surfaces
  <2>2. /\ Event("Created", opened) \in EventSet
        /\ Event("Changed", opened) \in EventSet
    BY <2>1 DEF Event, EventSet, Types
  <2>3. q # <<>> => Follows(q[Len(q)], Event("Created", opened))
    BY <2>1 DEF Follows, Event
  <2>4. q1 \in Seq(EventSet) /\ Ordered(q1) /\ q1 # <<>>
        /\ q1[Len(q1)] = Event("Created", opened)
    <3> HIDE DEF opened
    <3> QED
      BY <2>2, <2>3, QueueKeepsOrder
  <2>5. Follows(q1[Len(q1)], Event("Changed", opened))
    <3> HIDE DEF opened, q1
    <3> QED
      BY <2>4 DEF Follows, Event
  <2>6. q2 \in Seq(EventSet) /\ Ordered(q2) /\ q2 # <<>>
        /\ q2[Len(q2)] = Event("Changed", opened)
    <3> HIDE DEF opened, q1
    <3> QED
      BY <2>2, <2>4, <2>5, QueueKeepsOrder
  <2>7. events' = q2 /\ current' = opened /\ ok' = TRUE
    BY <1>2 DEF Reopen
  <2> HIDE DEF opened, q2
  <2> QED
    BY <2>1, <2>6, <2>7 DEF Consistent, EndsWith, Event
<1> QED
  BY <1>1, <1>2

\* A Changed for the available surface, at the size z it has or gets.
LEMMA ChangedIsConsistent ==
    ASSUME Consistent(events, current), current.available, NEW z \in Sizes,
           NEW s, s = [current EXCEPT !.size = z]
    PROVE  /\ Consistent(Queue(events, Event("Changed", s)), s)
           /\ Consistent(events, s)
<1> DEFINE e == Event("Changed", s)
           r == Queue(events, e)
<1>1. s \in Surfaces /\ s.available /\ s.generation = current.generation
      /\ s.window \in Windows /\ s.size \in Sizes
  BY DEF Consistent, Surfaces
<1>2. e \in EventSet /\ e.type = "Changed" /\ e.surface.generation = s.generation
  BY <1>1 DEF Event, EventSet, Types
<1>3. events \in Seq(EventSet) /\ Ordered(events)
  BY DEF Consistent
<1>4. events # <<>> =>
        /\ events[Len(events)].type = "Changed"
        /\ events[Len(events)].surface.generation = s.generation
  BY <1>1 DEF Consistent, EndsWith
<1>5. r \in Seq(EventSet) /\ Ordered(r) /\ r # <<>> /\ r[Len(r)] = e
  <2> HIDE DEF e
  <2> QED
    BY <1>2, <1>3, <1>4, QueueKeepsOrder
<1>6. Consistent(events, s)
  BY <1>1, <1>3, <1>4 DEF Consistent, EndsWith
<1>7. Consistent(r, s)
  <2> HIDE DEF r, e
  <2> QED
    BY <1>1, <1>2, <1>5 DEF Consistent, EndsWith
<1> QED
  BY <1>6, <1>7

\* Observe: a look at the window that is refused, that loses the surface, that
\* brings one back or replaces it, or that finds another size.
LEMMA ObserveIsConsistent ==
    ASSUME Consistent(events, current), active \in BOOLEAN, ok \in BOOLEAN,
           NEW w \in Windows \cup {NoWindow}, NEW z, Observe(w, z)
    PROVE  Consistent(events', current') /\ active' \in BOOLEAN /\ ok' \in BOOLEAN
<1>1. CASE Refuse
  BY <1>1 DEF Refuse
<1>2. CASE /\ UNCHANGED active /\ ok' = TRUE
           /\ current' = IF LosesWindow(w) THEN Lost ELSE current
           /\ events' = IF LosesWindow(w) THEN QueueDestroyed ELSE events
  BY <1>2, DestroyedIsConsistent DEF LosesWindow
<1>3. CASE /\ UNCHANGED active /\ Usable(w, z) /\ ~current.available
           /\ Reopen(events, current, w, z)
  <2>1. w \in Windows /\ z \in Sizes
    BY <1>3 DEF Usable
  <2> QED
    BY <1>3, <2>1, ReopenIsConsistent DEF Consistent, EndsWith
<1>4. CASE /\ UNCHANGED active /\ Usable(w, z) /\ LosesWindow(w)
           /\ Reopen(QueueDestroyed, Lost, w, z)
  <2>1. w \in Windows /\ z \in Sizes
    BY <1>4 DEF Usable
  <2>2. Consistent(QueueDestroyed, Lost) /\ ~Lost.available
    BY <1>4, DestroyedIsConsistent DEF LosesWindow, Lost, Consistent, Surfaces
  <2> QED
    BY <1>4, <2>1, <2>2, ReopenIsConsistent DEF Consistent, EndsWith
<1>5. CASE /\ UNCHANGED active /\ Usable(w, z) /\ current.available
           /\ ok' = TRUE /\ current' = [current EXCEPT !.size = z]
           /\ events' = IF z = current.size THEN events
                        ELSE Queue(events, Event("Changed", current'))
  BY <1>5, ChangedIsConsistent DEF Usable
<1> QED
  BY <1>1, <1>2, <1>3, <1>4, <1>5 DEF Observe

\* Refresh and Recreate, for a surface that is there.
LEMMA RecoveryIsConsistent ==
    ASSUME Consistent(events, current), active \in BOOLEAN, ok \in BOOLEAN,
           Refresh \/ Recreate
    PROVE  Consistent(events', current') /\ active' \in BOOLEAN /\ ok' \in BOOLEAN
<1>1. CASE Refuse
  BY <1>1 DEF Refuse
<1>2. CASE Refresh /\ ~Refuse
  <2>1. current = [current EXCEPT !.size = current.size]
    BY DEF Consistent, Surfaces
  <2>2. /\ current.available /\ ok' = TRUE /\ UNCHANGED <<active, current>>
        /\ events' = Queue(events, Event("Changed", current))
    BY <1>2 DEF Refresh
  <2> QED
    BY <2>1, <2>2, ChangedIsConsistent DEF Consistent
<1>3. CASE Recreate /\ ~Refuse
  <2>1. /\ current.available /\ current.generation # GenerationLimit
        /\ Reopen(QueueDestroyed, current, current.window, current.size)
        /\ UNCHANGED active
    BY <1>3 DEF Recreate
  <2>2. /\ QueueDestroyed \in Seq(EventSet) /\ Ordered(QueueDestroyed)
        /\ QueueDestroyed # <<>> =>
             /\ QueueDestroyed[Len(QueueDestroyed)].type = "Destroyed"
             /\ QueueDestroyed[Len(QueueDestroyed)].surface.generation
                  = current.generation
    <3>1. ~Lost.available
      BY DEF Lost, Consistent, Surfaces
    <3> QED
      BY <2>1, <3>1, DestroyedIsConsistent DEF Consistent, EndsWith
  <2>3. current \in Surfaces /\ current.window \in Windows /\ current.size \in Sizes
    BY <2>1 DEF Consistent
  <2> QED
    BY <2>1, <2>2, <2>3, ReopenIsConsistent
<1> QED
  BY <1>1, <1>2, <1>3

\* Activate, Deactivate and Poll: an empty queue, or the rest of it.
LEMMA RestIsConsistent ==
    ASSUME Consistent(events, current), active \in BOOLEAN, ok \in BOOLEAN,
           NEW w, NEW z, Activate(w, z) \/ Deactivate \/ Poll
    PROVE  Consistent(events', current') /\ active' \in BOOLEAN /\ ok' \in BOOLEAN
<1>1. CASE Refuse
  BY <1>1 DEF Refuse
<1>2. CASE Activate(w, z) /\ ~Refuse
  <2>1. /\ w \in Windows /\ z \in Sizes /\ active' = TRUE /\ ok' = TRUE
        /\ events' = <<>> /\ current' = Snapshot(1, w, z, TRUE)
    BY <1>2 DEF Activate
  <2>2. Snapshot(1, w, z, TRUE) \in Surfaces
    BY <2>1, LifecycleAssumption DEF Snapshot, Surfaces
  <2> QED
    BY <2>1, <2>2, EmptyIsConsistent DEF Snapshot
<1>3. CASE Deactivate
  <2>1. NoSnapshot \in Surfaces /\ NoSnapshot.available = FALSE
    BY LifecycleAssumption DEF NoSnapshot, Snapshot, Surfaces
  <2> QED
    BY <1>3, <2>1, EmptyIsConsistent DEF Deactivate
<1>4. CASE Poll
  <2>1. /\ events \in Seq(EventSet) /\ events # <<>> /\ events' = Tail(events)
        /\ UNCHANGED <<active, current, ok>>
    BY <1>4 DEF Poll, Consistent
  <2>2. /\ events' \in Seq(EventSet) /\ Len(events') = Len(events) - 1
        /\ \A i \in 1..Len(events') : events'[i] = events[i + 1]
    BY <2>1, HeadTailProperties
  <2>3. Ordered(events')
    BY <2>1, <2>2 DEF Consistent, Ordered
  <2>4. EndsWith(events', current)
    BY <2>1, <2>2 DEF Consistent, EndsWith
  <2> QED
    BY <2>1, <2>2, <2>3, <2>4 DEF Consistent
<1> QED
  BY <1>1, <1>2, <1>3, <1>4

\* The queue of surface events is well typed and in the order of surface
\* lifetimes, however long it grows before it is polled and whichever of its
\* events were coalesced (QueueLocked, RestoreLocked, Observe, Recreate).
THEOREM StreamIsOrdered == Spec => [](TypeOK /\ StreamOrder)
<1> DEFINE Inv == /\ active \in BOOLEAN /\ ok \in BOOLEAN
                  /\ Consistent(events, current)
<1>1. Init => Inv
  <2>1. NoSnapshot \in Surfaces /\ NoSnapshot.available = FALSE
    BY LifecycleAssumption DEF NoSnapshot, Snapshot, Surfaces
  <2> QED
    BY <2>1, EmptyIsConsistent DEF Init
<1>2. Inv /\ [Next]_vars => Inv'
  <2> SUFFICES ASSUME Inv, [Next]_vars PROVE Inv'
    OBVIOUS
  <2>1. ASSUME NEW w \in Windows \cup {NoWindow},
               NEW z \in Sizes \cup {TooSmall, BadDpi},
               Activate(w, z) \/ Observe(w, z)
        PROVE  Inv'
    BY <2>1, ObserveIsConsistent, RestIsConsistent
  <2>2. CASE Refresh \/ Recreate
    BY <2>2, RecoveryIsConsistent
  <2>3. CASE Deactivate \/ Poll
    BY <2>3, RestIsConsistent
  <2>4. CASE UNCHANGED vars
    BY <2>4 DEF vars
  <2> HIDE DEF Inv
  <2> QED
    BY <2>1, <2>2, <2>3, <2>4 DEF Next, HostStep
<1>3. Inv => TypeOK /\ StreamOrder
  BY ConsistentIsInv
<1> HIDE DEF Inv
<1> QED
  BY <1>1, <1>2, <1>3, PTL DEF Spec

\* While the lifecycle is active no generation is used for a second surface:
\* generations grow, and a surface that comes back or is replaced has a new one.
THEOREM GenerationsAreFresh == Spec => GenerationsGrow
<1> DEFINE Grown ==
      /\ current'.generation >= current.generation
      /\ current'.available /\ ~current.available
           => current'.generation > current.generation
      /\ current'.available /\ current.available
           /\ current'.window # current.window
           => current'.generation > current.generation
<1>1. ASSUME TypeOK, NEW q, NEW c \in {current, Lost}, NEW w, NEW z,
             Reopen(q, c, w, z), c = current => current.generation # GenerationLimit
                                               \/ ~current.available
      PROVE  Grown
  <2> current \in Surfaces
    BY <1>1 DEF TypeOK
  <2>0. Lost.generation = current.generation /\ Lost.available = FALSE
    BY DEF Surfaces, Lost
  <2>1. current.generation \in Nat /\ c.generation = current.generation
    BY <1>1, <2>0 DEF Surfaces
  <2>2. CASE c.generation = GenerationLimit
    <3>1. current' = c /\ c.available = FALSE
      BY <1>1, <2>0, <2>1, <2>2 DEF Reopen, Surfaces
    <3> QED
      BY <2>1, <3>1
  <2>3. CASE c.generation # GenerationLimit
    <3>1. current'.generation = c.generation + 1
      BY <1>1, <2>3 DEF Reopen, Snapshot
    <3> QED
      BY <2>1, <3>1
  <2> QED
    BY <2>2, <2>3
<1>2. TypeOK /\ [Next]_vars => [active /\ active' => Grown]_vars
  <2> SUFFICES ASSUME TypeOK, Next, active, active' PROVE Grown
    BY DEF vars
  <2>1. current \in Surfaces /\ current.generation \in Nat
    BY DEF TypeOK, Surfaces
  <2>2. CASE UNCHANGED current
    BY <2>1, <2>2
  <2>3. ASSUME NEW w, NEW z, Observe(w, z) PROVE Grown
    <3>1. CASE current' = Lost
      BY <2>1, <3>1 DEF Lost, Surfaces
    <3>2. CASE Reopen(events, current, w, z) /\ ~current.available
      BY <1>1, <3>2
    <3>3. CASE Reopen(QueueDestroyed, Lost, w, z)
      <4>1. Lost = current => ~current.available
        BY <2>1 DEF Lost, Surfaces
      <4> QED
        BY <1>1, <3>3, <4>1
    <3>4. CASE current' = [current EXCEPT !.size = z]
      BY <2>1, <3>4 DEF Surfaces
    <3> QED
      BY <2>2, <2>3, <3>1, <3>2, <3>3, <3>4 DEF Observe, Refuse
  <2>4. CASE Recreate
    BY <1>1, <2>2, <2>4 DEF Recreate, Refuse
  <2>5. CASE Refresh \/ Poll \/ Deactivate
    BY <2>2, <2>5 DEF Refresh, Refuse, Poll, Deactivate
  <2>6. ASSUME NEW w, NEW z, Activate(w, z) PROVE Grown
    BY <2>2, <2>6 DEF Activate, Refuse
  <2> QED
    BY <2>3, <2>4, <2>5, <2>6 DEF Next, HostStep
<1> QED
  BY <1>2, StreamIsOrdered, PTL DEF Spec, GenerationsGrow
=============================================================================
