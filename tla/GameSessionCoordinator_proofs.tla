---------------------- MODULE GameSessionCoordinator_proofs ----------------------
(***************************************************************************)
(* Proofs about GameSessionCoordinator, for any sets of generations,       *)
(* extents, frames, principals and requests.                               *)
(***************************************************************************)
EXTENDS GameSessionCoordinator, TLAPS

\* The inductive invariant.  None of its conjuncts is inductive alone: what a
\* native call does when it returns depends on SessionShape, which ties the call
\* in flight to the state, and SessionShape on who owns the surfaces.
IInv == /\ TypeOK /\ SessionShape /\ SurfaceOwnership /\ StartIsJustified
        /\ PresentIsJustified

\* A surface that is kept is NoSurface or has a generation; NoSurface has none.
LEMMA SurfaceFacts ==
    /\ NoSurface \in UsableSurface
    /\ NoSurface.generation = 0 /\ NoSurface.extent = NoExtent
    /\ \A s \in UsableSurface : s = NoSurface \/ s.generation # 0
    /\ \A s \in UsableSurface : s.generation \in Generations \cup {0}
BY CoordinatorAssumption
DEF NoSurface, UsableSurface, Surface, ValidSurface

\* A new coordinator satisfies the invariant.
LEMMA InitInv == Init => IInv
BY SurfaceFacts, CoordinatorAssumption
DEF Init, IInv, TypeOK, FieldsTyped, FlagsTyped, SessionShape,
    SurfaceOwnership, StartIsJustified, PresentIsJustified, CapabilityTables, States, Callbacks, UsableSurface,
    Principals, Requests

\* SetPrincipal only moves a created session on, or fails it.
LEMMA SetPrincipalInv ==
    ASSUME IInv, NEW p \in Principals, SetPrincipal(p)
    PROVE  IInv'
BY SurfaceFacts, CoordinatorAssumption
DEF IInv, TypeOK, FieldsTyped, FlagsTyped, SessionShape, SurfaceOwnership,
    StartIsJustified, PresentIsJustified, CapabilityTables, States, Callbacks, Principals,
    Requests, surfaceVars, presentVars, requestVars, flagVars,
    OperationMutexFree, IsForwardTerminal, ValidSurface, SetPrincipal,
    Finish, Answer, Fail

\* QueueJoinRequest starts the game only with principal and surface.
LEMMA QueueJoinRequestInv ==
    ASSUME IInv, NEW r \in Requests, QueueJoinRequest(r)
    PROVE  IInv'
BY SurfaceFacts, CoordinatorAssumption
DEF IInv, TypeOK, FieldsTyped, FlagsTyped, SessionShape, SurfaceOwnership,
    StartIsJustified, PresentIsJustified, CapabilityTables, States, Callbacks, Principals,
    Requests, surfaceVars, presentVars, requestVars, flagVars,
    OperationMutexFree, IsForwardTerminal, ValidSurface, QueueJoinRequest,
    MayJoin, StartIfReady, Calls, Finish, Answer, Fail

\* SurfaceCreated leaves every surface alone until its call returns.
LEMMA SurfaceCreatedInv ==
    ASSUME IInv, NEW g \in Generations, SurfaceCreated(g)
    PROVE  IInv'
BY SurfaceFacts, CoordinatorAssumption
DEF IInv, TypeOK, FieldsTyped, FlagsTyped, SessionShape, SurfaceOwnership,
    StartIsJustified, PresentIsJustified, CapabilityTables, States, Callbacks, Principals,
    Requests, surfaceVars, presentVars, requestVars, flagVars,
    OperationMutexFree, IsForwardTerminal, ValidSurface, SurfaceCreated,
    MayPrepare, Calls, Answer, Fail

\* UpdateSurface offers the engine a surface of the open lifetime only.
LEMMA UpdateSurfaceInv ==
    ASSUME IInv, NEW s \in Surface, NEW force \in BOOLEAN,
           UpdateSurface(s, force)
    PROVE  IInv'
<1> USE SurfaceFacts, CoordinatorAssumption
        DEF IInv, TypeOK, FieldsTyped, FlagsTyped, CapabilityTables, States, Callbacks,
            Principals, Requests, surfaceVars, presentVars, requestVars, flagVars,
            OperationMutexFree, IsForwardTerminal, ValidSurface,
            UpdateSurface, UsableSurface, StartIfReady, Calls, Finish, Answer, Fail
<1>1. FieldsTyped'
  OBVIOUS
<1>6. FlagsTyped'
  OBVIOUS
<1>2. SessionShape'
  BY DEF SessionShape, SurfaceOwnership, StartIsJustified
<1>3. SurfaceOwnership'
  BY DEF SessionShape, SurfaceOwnership, StartIsJustified
<1>4. StartIsJustified'
  BY DEF SessionShape, SurfaceOwnership, StartIsJustified
<1>5. PresentIsJustified'
  BY DEF SessionShape, SurfaceOwnership, StartIsJustified, PresentIsJustified
<1> QED
  BY <1>1, <1>2, <1>3, <1>4, <1>5, <1>6

\* SurfaceDestroyed gives up the surface before the engine is paused.
LEMMA SurfaceDestroyedInv ==
    ASSUME IInv, NEW g \in Generations, SurfaceDestroyed(g)
    PROVE  IInv'
<1> USE SurfaceFacts, CoordinatorAssumption
        DEF IInv, TypeOK, FieldsTyped, FlagsTyped, CapabilityTables, States, Callbacks,
            Principals, Requests, surfaceVars, presentVars, requestVars, flagVars,
            OperationMutexFree, IsForwardTerminal, ValidSurface,
            SurfaceDestroyed, DropSurface, PreStartState, Calls, Finish, Answer, Fail
<1>1. FieldsTyped'
  OBVIOUS
<1>6. FlagsTyped'
  OBVIOUS
<1>2. SessionShape'
  BY DEF SessionShape, SurfaceOwnership, StartIsJustified
<1>3. SurfaceOwnership'
  BY DEF SessionShape, SurfaceOwnership, StartIsJustified
<1>4. StartIsJustified'
  BY DEF SessionShape, SurfaceOwnership, StartIsJustified
<1>5. PresentIsJustified'
  BY DEF SessionShape, SurfaceOwnership, StartIsJustified, PresentIsJustified
<1> QED
  BY <1>1, <1>2, <1>3, <1>4, <1>5, <1>6

\* LeaveGame keeps every surface until its call returns.
LEMMA LeaveGameInv ==
    ASSUME IInv, LeaveGame
    PROVE  IInv'
BY SurfaceFacts, CoordinatorAssumption
DEF IInv, TypeOK, FieldsTyped, FlagsTyped, SessionShape, SurfaceOwnership,
    StartIsJustified, PresentIsJustified, CapabilityTables, States, Callbacks, Principals,
    Requests, surfaceVars, presentVars, requestVars, flagVars,
    OperationMutexFree, IsForwardTerminal, ValidSurface, LeaveGame,
    Calls, Answer, Fail

\* Shutdown is attempted once, from any state.
LEMMA ShutdownInv ==
    ASSUME IInv, Shutdown
    PROVE  IInv'
<1> USE SurfaceFacts, CoordinatorAssumption
        DEF IInv, TypeOK, FieldsTyped, FlagsTyped, CapabilityTables, States, Callbacks,
            Principals, Requests, surfaceVars, presentVars, requestVars, flagVars,
            OperationMutexFree, IsForwardTerminal, ValidSurface,
            Shutdown, Calls, Answer, Fail
<1>1. FieldsTyped'
  OBVIOUS
<1>6. FlagsTyped'
  OBVIOUS
<1>2. SessionShape'
  BY DEF SessionShape, SurfaceOwnership, StartIsJustified
<1>3. SurfaceOwnership'
  BY DEF SessionShape, SurfaceOwnership, StartIsJustified
<1>4. StartIsJustified'
  BY DEF SessionShape, SurfaceOwnership, StartIsJustified
<1>5. PresentIsJustified'
  BY DEF SessionShape, SurfaceOwnership, StartIsJustified, PresentIsJustified
<1> QED
  BY <1>1, <1>2, <1>3, <1>4, <1>5, <1>6

\* The return of set_game_foreground opens the lifetime, or fails.
LEMMA ForegroundReturnsInv ==
    ASSUME IInv, NEW ok \in BOOLEAN, ForegroundReturns(ok)
    PROVE  IInv'
BY SurfaceFacts, CoordinatorAssumption
DEF IInv, TypeOK, FieldsTyped, FlagsTyped, SessionShape, SurfaceOwnership,
    StartIsJustified, PresentIsJustified, CapabilityTables, States, Callbacks, Principals,
    Requests, surfaceVars, presentVars, requestVars, flagVars,
    OperationMutexFree, IsForwardTerminal, ValidSurface, ForegroundReturns,
    Return, PreStartState

\* A candidate surface is promoted or dropped with its evidence.
LEMMA CandidateReturnsInv ==
    ASSUME IInv, NEW ok \in BOOLEAN, CandidateReturns(ok)
    PROVE  IInv'
<1> USE SurfaceFacts, CoordinatorAssumption
        DEF IInv, TypeOK, FieldsTyped, FlagsTyped, CapabilityTables, States, Callbacks,
            Principals, Requests, surfaceVars, presentVars, requestVars, flagVars,
            OperationMutexFree, IsForwardTerminal, ValidSurface,
            CandidateReturns, Return, Promote
<1>1. FieldsTyped'
  <2>1. CASE ok
    BY <2>1
  <2>2. CASE ~ok
    BY <2>2
  <2> QED
    BY <2>1, <2>2
<1>6. FlagsTyped'
  OBVIOUS
<1>2. SessionShape'
  BY DEF SessionShape, SurfaceOwnership, StartIsJustified
<1>3. SurfaceOwnership'
  BY DEF SessionShape, SurfaceOwnership, StartIsJustified
<1>4. StartIsJustified'
  BY DEF SessionShape, SurfaceOwnership, StartIsJustified
<1>5. PresentIsJustified'
  BY DEF SessionShape, SurfaceOwnership, StartIsJustified, PresentIsJustified
<1> QED
  BY <1>1, <1>2, <1>3, <1>4, <1>5, <1>6

\* The return of pause_game leaves the game without a surface.
LEMMA PauseReturnsInv ==
    ASSUME IInv, NEW ok \in BOOLEAN, PauseReturns(ok)
    PROVE  IInv'
<1> USE SurfaceFacts, CoordinatorAssumption
        DEF IInv, TypeOK, FieldsTyped, FlagsTyped, CapabilityTables, States, Callbacks,
            Principals, Requests, surfaceVars, presentVars, requestVars, flagVars,
            OperationMutexFree, IsForwardTerminal, ValidSurface,
            PauseReturns, Return
<1>1. FieldsTyped'
  OBVIOUS
<1>6. FlagsTyped'
  OBVIOUS
<1>2. SessionShape'
  BY DEF SessionShape, SurfaceOwnership, StartIsJustified
<1>3. SurfaceOwnership'
  BY DEF SessionShape, SurfaceOwnership, StartIsJustified
<1>4. StartIsJustified'
  BY DEF SessionShape, SurfaceOwnership, StartIsJustified
<1>5. PresentIsJustified'
  BY DEF SessionShape, SurfaceOwnership, StartIsJustified, PresentIsJustified
<1> QED
  BY <1>1, <1>2, <1>3, <1>4, <1>5, <1>6

\* Leaving and shutting down drop every surface, unless they fail.
LEMMA EndReturnsInv ==
    ASSUME IInv, NEW ok \in BOOLEAN, EndReturns(ok)
    PROVE  IInv'
<1> USE SurfaceFacts, CoordinatorAssumption
        DEF IInv, TypeOK, FieldsTyped, FlagsTyped, CapabilityTables, States, Callbacks,
            Principals, Requests, surfaceVars, presentVars, requestVars, flagVars,
            OperationMutexFree, IsForwardTerminal, ValidSurface,
            EndReturns, Return
<1>1. FieldsTyped'
  <2>1. CASE ok
    BY <2>1
  <2>2. CASE ~ok
    BY <2>2
  <2> QED
    BY <2>1, <2>2
<1>6. FlagsTyped'
  OBVIOUS
<1>2. SessionShape'
  BY DEF SessionShape, SurfaceOwnership, StartIsJustified
<1>3. SurfaceOwnership'
  BY DEF SessionShape, SurfaceOwnership, StartIsJustified
<1>4. StartIsJustified'
  BY DEF SessionShape, SurfaceOwnership, StartIsJustified
<1>5. PresentIsJustified'
  BY DEF SessionShape, SurfaceOwnership, StartIsJustified, PresentIsJustified
<1> QED
  BY <1>1, <1>2, <1>3, <1>4, <1>5, <1>6

\* A present recorded by the render thread touches evidence only.
LEMMA RecordGamePresentInv ==
    ASSUME IInv, NEW g \in Generations, NEW f \in Frames,
           RecordGamePresent(g, f)
    PROVE  IInv'
BY SurfaceFacts, CoordinatorAssumption
DEF IInv, TypeOK, FieldsTyped, FlagsTyped, SessionShape, SurfaceOwnership,
    StartIsJustified, PresentIsJustified, CapabilityTables, States, Callbacks, Principals,
    Requests, surfaceVars, presentVars, requestVars, flagVars,
    OperationMutexFree, IsForwardTerminal, ValidSurface, RecordGamePresent,
    PresentStatus, DefersPresent, ObservesPresent

\* The invariant is about the variables of the coordinator.
LEMMA StutterInv ==
    ASSUME IInv, UNCHANGED vars
    PROVE  IInv'
BY DEF IInv, TypeOK, FieldsTyped, FlagsTyped, SessionShape, SurfaceOwnership,
       StartIsJustified, PresentIsJustified, vars, surfaceVars, presentVars,
       requestVars, flagVars

\* Every lifecycle method, every return of a native call and every present the
\* render thread records keeps the invariant.
LEMMA NextInv ==
    ASSUME IInv, [Next]_vars
    PROVE  IInv'
<1>1. CASE \E p \in Principals : SetPrincipal(p)
  BY <1>1, SetPrincipalInv
<1>2. CASE \E r \in Requests : QueueJoinRequest(r)
  BY <1>2, QueueJoinRequestInv
<1>3. CASE \E g \in Generations : SurfaceCreated(g) \/ SurfaceDestroyed(g)
  BY <1>3, SurfaceCreatedInv, SurfaceDestroyedInv
<1>4. CASE \E s \in Surface, force \in BOOLEAN : UpdateSurface(s, force)
  BY <1>4, UpdateSurfaceInv
<1>5. CASE LeaveGame
  BY <1>5, LeaveGameInv
<1>6. CASE Shutdown
  BY <1>6, ShutdownInv
<1>7. CASE \E ok \in BOOLEAN : NativeReturns(ok)
  BY <1>7, ForegroundReturnsInv, CandidateReturnsInv, PauseReturnsInv,
     EndReturnsInv DEF NativeReturns
<1>8. CASE \E g \in Generations, f \in Frames : RecordGamePresent(g, f)
  BY <1>8, RecordGamePresentInv
<1>9. CASE UNCHANGED vars
  BY <1>9, StutterInv
<1> QED
  BY <1>1, <1>2, <1>3, <1>4, <1>5, <1>6, <1>7, <1>8, <1>9
  DEF Next, LifecycleCall

\* The invariant holds in every state the coordinator reaches, whatever its
\* callers, the engine and the render thread do.
THEOREM Invariance == Spec => []IInv
<1>1. Init => IInv
  BY InitInv
<1>2. IInv /\ [Next]_vars => IInv'
  BY NextInv
<1> QED
  BY <1>1, <1>2, PTL DEF Spec

\* No field ever leaves its type and no invalid surface is ever stored.
THEOREM TypeCorrect == Spec => []TypeOK
BY Invariance, PTL DEF IInv

\* The state, the flags and the native call in flight always fit together, and a
\* paused game is never offered the surface lifetime it was paused from.
THEOREM SessionsShaped == Spec => []SessionShape
BY Invariance, PTL DEF IInv

\* The surface a game renders to, or is offered, belongs to the surface lifetime
\* the host has open, whatever native call failed before.
THEOREM SurfacesOwned == Spec => []SurfaceOwnership
BY Invariance, PTL DEF IInv

\* No engine is started without principal, request and open surface.
THEOREM StartsJustified == Spec => []StartIsJustified
BY Invariance, PTL DEF IInv

\* No frame counts as presented before StartGame succeeded.
THEOREM PresentsJustified == Spec => []PresentIsJustified
BY Invariance, PTL DEF IInv

-----------------------------------------------------------------------------
\* Present evidence

EvidenceStep ==
    /\ presented # 0 => presented' = presented
    /\ pendingPresent # 0 /\ pendingPresent' # pendingPresent
         => /\ pendingPresent' = 0
            /\ presented' = pendingPresent \/ state' = "Failure"

\* While evidence waits, operation_mutex_ is held by the call it waits for, so
\* only the return of that call, or another present, can touch it.
LEMMA EvidenceKept ==
    ASSUME IInv, Next
    PROVE  EvidenceStep
<1> USE DEF EvidenceStep
<1>1. CASE LifecycleCall
  <2>1. callback = "none" /\ pendingPresent = 0
    <3>1. callback = "none"
      BY <1>1 DEF LifecycleCall, SetPrincipal, QueueJoinRequest, SurfaceCreated,
         SurfaceDestroyed, UpdateSurface, LeaveGame, Shutdown, OperationMutexFree
    <3> QED
      BY <3>1 DEF IInv, PresentIsJustified
  <2>2. presented' = presented
    <3>1. \A p \in Principals : SetPrincipal(p) => presented' = presented
      BY DEF SetPrincipal, presentVars
    <3>2. \A r \in Requests : QueueJoinRequest(r) => presented' = presented
      BY DEF QueueJoinRequest, StartIfReady, presentVars
    <3>3. \A g \in Generations : SurfaceCreated(g) \/ SurfaceDestroyed(g)
             => presented' = presented
      BY DEF SurfaceCreated, SurfaceDestroyed, presentVars
    <3>4. \A s \in Surface, force \in BOOLEAN :
             UpdateSurface(s, force) => presented' = presented
      BY DEF UpdateSurface, StartIfReady, presentVars
    <3>5. LeaveGame \/ Shutdown => presented' = presented
      BY DEF LeaveGame, Shutdown, presentVars
    <3> QED
      BY <1>1, <3>1, <3>2, <3>3, <3>4, <3>5 DEF LifecycleCall
  <2> QED
    BY <2>1, <2>2
<1>2. CASE \E ok \in BOOLEAN : NativeReturns(ok)
  BY <1>2 DEF NativeReturns, ForegroundReturns, CandidateReturns, PauseReturns,
     EndReturns, Promote, Return, presentVars, IInv, PresentIsJustified
<1>3. CASE \E g \in Generations, f \in Frames : RecordGamePresent(g, f)
  BY <1>3 DEF RecordGamePresent, PresentStatus
<1> QED
  BY <1>1, <1>2, <1>3 DEF Next

\* Applied present evidence is committed unless its native call fails, and the
\* first presented frame is final.
THEOREM EvidenceIsKept == Spec => EvidenceSettles
<1>1. IInv /\ [Next]_vars => [EvidenceStep]_vars
  BY EvidenceKept
<1> QED
  BY <1>1, Invariance, PTL DEF Spec, EvidenceSettles, EvidenceStep

-----------------------------------------------------------------------------
\* The coordinator implements NativeGameProtocol.

PStep == [Protocol!Next]_Protocol!pvars

\* A new coordinator is an idle engine.
LEMMA ProtocolInit == Init => Protocol!Init
BY SurfaceFacts DEF Init, Protocol!Init, Phase, Target

\* The two methods that can start the game make the same abstract step.
LEMMA StartStep ==
    ASSUME callback = "none", callback' = "start_game", ~started,
           ~IsForwardTerminal, state' = "Starting",
           UNCHANGED <<active, flagVars>>,
           pending'.generation \in Generations \ {0}
    PROVE  PStep
<1>1. /\ Phase = "idle" /\ Phase' = "idle"
      /\ Target' = pending'.generation
      /\ UNCHANGED <<active, shutdownAttempted>>
  BY DEF Phase, Target, IsForwardTerminal, flagVars
<1>2. Protocol!Start
  BY <1>1 DEF Protocol!Start, Protocol!Invoke
<1> QED
  BY <1>2 DEF PStep, Protocol!Next

\* A method that makes no native call stutters or gives up.
LEMMA QuietStep ==
    ASSUME callback = "none", callback' = "none", UNCHANGED <<active, flagVars>>,
           \/ state' = state
           \/ ~IsForwardTerminal /\ state' = "Failure"
           \/ /\ ~IsForwardTerminal /\ ~started
              /\ state' \in {"PrincipalReady", "JoinRequestQueued",
                             "SurfaceCreated", "SurfaceAvailable"}
    PROVE  PStep
<1>1. /\ Target = 0 /\ Target' = 0
      /\ UNCHANGED <<callback, active, shutdownAttempted>>
  BY DEF Target, flagVars
<1>2. \/ Phase' = Phase
      \/ Phase \in {"idle", "running", "paused"} /\ Phase' = "failed"
  BY DEF Phase, IsForwardTerminal, flagVars
<1> QED
  BY <1>1, <1>2 DEF PStep, Protocol!Next, Protocol!pvars, Protocol!GiveUp

\* A lifecycle method makes at most one native call, one that is allowed.
LEMMA MethodStep ==
    ASSUME IInv, LifecycleCall
    PROVE  PStep
<1> USE SurfaceFacts, CoordinatorAssumption
    DEF IInv, TypeOK, FieldsTyped, FlagsTyped, SessionShape, States, Callbacks,
        surfaceVars, presentVars, requestVars, OperationMutexFree,
        IsForwardTerminal, Calls, Finish, Answer, Fail
<1> DEFINE Quiet ==
        /\ callback = "none" /\ callback' = "none" /\ UNCHANGED <<active, flagVars>>
        /\ \/ state' = state
           \/ ~IsForwardTerminal /\ state' = "Failure"
           \/ /\ ~IsForwardTerminal /\ ~started
              /\ state' \in {"PrincipalReady", "JoinRequestQueued",
                             "SurfaceCreated", "SurfaceAvailable"}
      Starts ==
        /\ callback = "none" /\ callback' = "start_game" /\ ~started
        /\ ~IsForwardTerminal /\ state' = "Starting"
        /\ UNCHANGED <<active, flagVars>>
        /\ pending'.generation \in Generations \ {0}
<1>1. ASSUME NEW p \in Principals, SetPrincipal(p) PROVE PStep
  <2>1. Quiet
    BY <1>1 DEF SetPrincipal
  <2> QED
    BY <2>1, QuietStep
<1>2. ASSUME NEW r \in Requests, QueueJoinRequest(r) PROVE PStep
  <2>1. CASE callback' = "none"
    <3>1. Quiet
      BY <1>2, <2>1 DEF QueueJoinRequest, StartIfReady, StartIsJustified
    <3> QED
      BY <3>1, QuietStep
  <2>2. CASE callback' # "none"
    <3>1. Starts
      BY <1>2, <2>2 DEF QueueJoinRequest, StartIfReady, StartIsJustified
    <3> QED
      BY <3>1, StartStep
  <2> QED
    BY <2>1, <2>2
<1>3. ASSUME NEW g \in Generations, SurfaceCreated(g) PROVE PStep
  <2>1. CASE callback' = "none"
    <3>1. Quiet
      BY <1>3, <2>1 DEF SurfaceCreated, MayPrepare
    <3> QED
      BY <3>1, QuietStep
  <2>2. CASE callback' # "none"
    <3>1. /\ callback = "none" /\ callback' = "set_game_foreground"
          /\ ~IsForwardTerminal /\ state' = "PreparingSurface"
          /\ started => paused
          /\ UNCHANGED <<active, flagVars>>
      BY <1>3, <2>2 DEF SurfaceCreated, MayPrepare
    <3>2. Protocol!Foreground
      BY <3>1 DEF Protocol!Foreground, Protocol!Invoke, Phase, Target, flagVars
    <3> QED
      BY <3>2 DEF PStep, Protocol!Next
  <2> QED
    BY <2>1, <2>2
<1>4. ASSUME NEW g \in Generations, SurfaceDestroyed(g) PROVE PStep
  <2>1. CASE callback' = "none"
    <3>1. Quiet
      BY <1>4, <2>1 DEF SurfaceDestroyed, DropSurface, PreStartState
    <3> QED
      BY <3>1, QuietStep
  <2>2. CASE callback' # "none"
    <3>1. /\ callback = "none" /\ callback' = "pause_game"
          /\ state = "Running" /\ state' = "Pausing" /\ started /\ ~paused
          /\ UNCHANGED <<active, flagVars>>
      BY <1>4, <2>2 DEF SurfaceDestroyed, DropSurface
    <3>2. Protocol!Pause
      BY <3>1 DEF Protocol!Pause, Protocol!Invoke, Phase, Target, flagVars
    <3> QED
      BY <3>2 DEF PStep, Protocol!Next
  <2> QED
    BY <2>1, <2>2
<1>5. ASSUME NEW s \in Surface, NEW force \in BOOLEAN, UpdateSurface(s, force)
      PROVE  PStep
  <2>1. CASE callback' = "none"
    <3>1. Quiet
      BY <1>5, <2>1 DEF UpdateSurface, StartIfReady
    <3> QED
      BY <3>1, QuietStep
  <2>2. CASE callback' = "start_game"
    <3>1. Starts
      BY <1>5, <2>2 DEF UpdateSurface, StartIfReady, ValidSurface, Surface
    <3> QED
      BY <3>1, StartStep
  <2>3. CASE callback' = "resume_game"
    <3>1. /\ callback = "none" /\ state = "Paused" /\ state' = "Resuming"
          /\ started /\ paused
          /\ pending'.generation \in Generations \ {0, active.generation}
          /\ UNCHANGED <<active, flagVars>>
      BY <1>5, <2>3 DEF UpdateSurface, StartIfReady, ValidSurface, Surface
    <3>2. Protocol!Resume
      BY <2>3, <3>1
      DEF Protocol!Resume, Protocol!Invoke, Phase, Target, flagVars
    <3> QED
      BY <3>2 DEF PStep, Protocol!Next
  <2>4. CASE callback' = "update_surface"
    <3>1. /\ callback = "none" /\ state = "Running"
          /\ state' = "UpdatingSurface" /\ started /\ ~paused
          /\ pending'.generation = active.generation
          /\ UNCHANGED <<active, flagVars>>
      BY <1>5, <2>4 DEF UpdateSurface, StartIfReady, SurfaceOwnership
    <3>2. Protocol!Update
      BY <2>4, <3>1
      DEF Protocol!Update, Protocol!Invoke, Phase, Target, flagVars
    <3> QED
      BY <3>2 DEF PStep, Protocol!Next
  <2> QED
    BY <1>5, <2>1, <2>2, <2>3, <2>4 DEF UpdateSurface, StartIfReady
<1>6. CASE LeaveGame
  <2>1. CASE callback' = "none"
    <3>1. Quiet
      BY <1>6, <2>1 DEF LeaveGame
    <3> QED
      BY <3>1, QuietStep
  <2>2. CASE callback' # "none"
    <3>1. /\ callback = "none" /\ callback' = "leave_game" /\ started
          /\ state \in {"Running", "Paused"} /\ state' = "Leaving"
          /\ UNCHANGED <<active, flagVars>>
      BY <1>6, <2>2 DEF LeaveGame
    <3>2. Protocol!Leave
      BY <3>1 DEF Protocol!Leave, Protocol!Invoke, Phase, Target, flagVars
    <3> QED
      BY <3>2 DEF PStep, Protocol!Next
  <2> QED
    BY <2>1, <2>2
<1>7. CASE Shutdown
  <2>1. CASE callback' = "none"
    <3>1. Quiet
      BY <1>7, <2>1 DEF Shutdown, flagVars
    <3> QED
      BY <3>1, QuietStep
  <2>2. CASE callback' # "none"
    <3>1. /\ callback = "none" /\ callback' = "shutdown_runtime"
          /\ state # "Stopped" /\ state' = "Stopping"
          /\ ~shutdownAttempted /\ shutdownAttempted' = TRUE
          /\ UNCHANGED active
      BY <1>7, <2>2 DEF Shutdown
    <3>2. Protocol!Stop
      BY <3>1 DEF Protocol!Stop, Phase, Target
    <3> QED
      BY <3>2 DEF PStep, Protocol!Next
  <2> QED
    BY <2>1, <2>2
<1> QED
  BY <1>1, <1>2, <1>3, <1>4, <1>5, <1>6, <1>7 DEF LifecycleCall

\* The return of a native call is the success or failure of the abstract call.
LEMMA ReturnStep ==
    ASSUME IInv, NEW ok \in BOOLEAN, NativeReturns(ok)
    PROVE  PStep
<1> USE SurfaceFacts, CoordinatorAssumption
    DEF IInv, TypeOK, FieldsTyped, FlagsTyped, SessionShape, SurfaceOwnership,
        StartIsJustified, States, Callbacks, surfaceVars, presentVars,
        requestVars, flagVars, Return, PStep, Phase, Target, Protocol!Next,
        Protocol!pvars, Protocol!Succeed, Protocol!Failed, Protocol!PhaseAfter
<1>1. CASE ForegroundReturns(ok)
  BY <1>1 DEF ForegroundReturns, PreStartState
<1>2. CASE CandidateReturns(ok)
  BY <1>2 DEF CandidateReturns, Promote
<1>3. CASE PauseReturns(ok)
  BY <1>3 DEF PauseReturns
<1>4. CASE EndReturns(ok)
  BY <1>4 DEF EndReturns
<1> QED
  BY <1>1, <1>2, <1>3, <1>4 DEF NativeReturns

\* The engine is called in the order, and with the surface generations, that
\* NativeGameProtocol allows.
THEOREM ImplementsNativeProtocol == Spec => NativeProtocol
<1>1. ASSUME IInv, [Next]_vars PROVE PStep
  <2>1. CASE LifecycleCall
    BY <1>1, <2>1, MethodStep DEF Next
  <2>2. CASE \E ok \in BOOLEAN : NativeReturns(ok)
    BY <1>1, <2>2, ReturnStep
  <2>3. CASE \E g \in Generations, f \in Frames : RecordGamePresent(g, f)
    BY <2>3 DEF RecordGamePresent, surfaceVars, flagVars, PStep, Phase, Target,
       Protocol!pvars
  <2>4. CASE UNCHANGED vars
    BY <2>4 DEF vars, surfaceVars, flagVars, PStep, Phase, Target, Protocol!pvars
  <2> QED
    BY <1>1, <2>1, <2>2, <2>3, <2>4 DEF Next
<1> QED
  BY <1>1, ProtocolInit, Invariance, PTL
  DEF Spec, NativeProtocol, Protocol!Spec, PStep

=============================================================================
