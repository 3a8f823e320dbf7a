# Formal model of the mocktail runtime

Mocktail runs the Android build of a game engine as a desktop program. It loads
the engine's native libraries against a re-implemented bionic libc and a virtual
JNI, gives it a host window as an Android surface, and stands between three
parties that do not know each other: the host window system, the native engine
(which starts with a *Lua app* and can run one *game* at a time), and the user's
launch requests. Most of its subtle code is the bookkeeping between them: which
surface is alive, which game is running, who may still call back.

These modules model that core. Paths below are relative to the repository; code
is in `src/` and headers in `include/`.

## 1. The system's parts

| Part | Code | Modelled in | Status |
|---|---|---|---|
| Game session coordinator | `runtime/game_session_coordinator.cc` | `GameSessionCoordinator`, abstract `NativeGameProtocol` | modelled, proved |
| Window surface lifecycle | `window/window_surface_lifecycle.cc` | `WindowSurfaceLifecycle`, `SurfaceEventReplay` | modelled, proved |
| Surface bridge | `window/window_game_surface_bridge.cc` | `GameSurfacePipeline` | modelled |
| Game session runtime and native adapter | `runtime/roblox_game_session_native_adapter.cc` | `GameSurfacePipeline`, `ExperienceComposition` | in part |
| Vulkan surface recovery gate | `window/vulkan_surface_recovery_gate.h` | `GameSurfacePipeline` | in part |
| Present observer and its gate | `window/present_observer.h` | `ExperienceComposition` | in part |
| Experience composition | `runtime/roblox_experience_composition.cc` | `ExperienceComposition` | in part |
| Fresh game launch controller | `runtime/roblox_fresh_game_launch_controller.cc` | `ExperienceComposition` | modelled |
| Startup state machine | `runtime/startup_state_machine.cc` | `StartupStateMachine` | modelled, proved |
| Main program and window | `legacy/legacy_runtime.cc`, `window/window.cc` | `GameSurfacePipeline`, `ExperienceComposition` | in part |
| Everything else | see section 8 | | not modelled |

How they interact:

1. `Window::PumpEvents`, on the main thread, tells the *surface lifecycle* what
   it sees of the host window. The lifecycle turns that into a queue of
   Created, Changed and Destroyed events, each with a surface *generation*.
2. After each pump the main loop *drains* the queue. Directly launched games get
   the events through the *bridge* and the *runtime*, games launched from the
   Lua app through the *composition* and its *controller*.
3. Both end in a *coordinator*, which decides which native entry point to call.
4. The render thread reports presents. The first present of a game is the
   evidence that it really runs; a stale swapchain makes the *recovery gate* ask
   `PumpEvents` for a new surface.
5. Launch requests come from the Lua app or from another process, are queued by
   the composition, and are started by a worker thread.
6. Evidence of start-up progress can be collected by the *startup state machine*.
   In this repository only its tests use that class.

`PROJECT.json` lists every part, the mapping from definitions to source lines
and the hazards of the code, each with the properties that would catch it.

## 2. Modules

### GameSessionCoordinator

One variable per field of the class, where a flag and the value it guards are
one variable when the code always writes them together (generation 0, surface
`NoSurface`, frame 0 mean "none").

The coordinator has two mutexes. `operation_mutex_` serialises the lifecycle
methods and is held during a native call; `mutex_` guards the fields and is
released during the call. So a method that makes no native call is one action,
and one that does is two: the method, which leaves the call in `callback`, and
`NativeReturns`, which takes its success or failure. `RecordGamePresent` takes
only `mutex_` and may come between the two. That interleaving is where present
evidence can be lost or credited to the wrong surface.

Inputs include what callers can get wrong: generation 0, surfaces without a
window or size, malformed frames, invalid principals and requests, and
incomplete capability tables.

### NativeGameProtocol

The abstract specification: what the engine may expect of its host. It has a
phase (idle, running, paused, left, stopping, stopped, failed), one entry point
at a time, and the surface generation bound to the engine. Its rules are that a
game is started once, resized only on the surface it has, resumed only on a
surface other than the one it was paused from, left only when it runs or is
paused, and that shutdown is tried once.

### WindowSurfaceLifecycle and SurfaceEventReplay

All methods of the lifecycle, one action each, since each holds `mutex_`
throughout. A window's size and DPI scale are one value, with `TooSmall` and
`BadDpi` for the observations the code treats differently. `GenerationLimit`
stands for the largest `uint64_t` and the code's check at that limit is modelled.
`SurfaceEventReplay` adds a consumer that trusts nothing and applies each event.

### GameSurfacePipeline

The path of a directly launched game: window, lifecycle, recovery gate, bridge,
runtime and coordinator together, with the main loop from start-up to shutdown.
It extends `GameSessionCoordinator` and instantiates `WindowSurfaceLifecycle`,
so it uses the very actions the other runs check. The main thread's program
counter is `main`; window events arrive during the pump only, presents at any
time. `RobloxGameSessionRuntime::RecordPresent` reads the generation in one
critical section and records it in a second, and so is two actions.

The process ends in two ways. It has *exited* when the main loop ended and the
session was shut down. It is *aborted* when it ends without a shutdown: the
start-up fails (the adapter cannot be initialized, the coordinator refuses, a
native call fails), the input or the text input cannot be set up although the
game already runs, the start-up thread exceeds its time limit (`_Exit`), or a
pause or a leave takes more than 15 seconds (`_Exit`).

### ExperienceComposition

Games launched from the Lua app. Four parties interleave:

- the main thread: pump, drain, then `DrainLaunchRequests` step by step between
  two acquisitions of a mutex, and the shutdown;
- the launch worker, with the failure paths of a launch;
- the render thread, which runs the present observer with the gate's mutex held,
  so that clearing the observer waits for it;
- the Lua app and the engine: they dispatch requests, end games and report
  returns, on threads of their own.

The coordinator of each game is reduced to its state, surfaces and whether it has
presented. The whole of it is checked in the runs above.

### StartupStateMachine

All methods of the class. Evidence is a number: 1..7 the core sequence, then the
auxiliary kinds. `Requirements` is the set the configuration waits for. Callers
also pass evidence of no known kind, which the code rejects before it looks at
the state.

The `MC*` modules bind constants and symmetry sets. `MCSurfaceGenerations` and
`MCDuplicateLaunch` also add a history variable that the property needs.

## 3. Runs

| Run | Result | Distinct states | Question |
|---|---|---|---|
| `coordinator` | holds | 8,484 | Are surfaces, evidence and flags consistent and the engine called in protocol order, whatever callers do? |
| `surface_events` | holds | 4,798 | Does replaying the coalesced event queue give exactly the window's surface? |
| `pipeline` | holds | 272,536 | Can any sequence of window events make the coordinator refuse an event, which is fatal? Is the game on the window's surface after each drain? |
| `pipeline_progress` | holds | 20,676 | Does every surface the window opens reach the game, and is every out-of-date swapchain replaced? |
| `experience` | holds | 147,181 | Can a callback outlive its runtime, a late return end the next game, presence be told out of order? |
| `experience_progress` | holds | 21,656 | Does every queued launch start, and does shutdown end? |
| `startup` | holds | 449 | Is start-up ready exactly when its evidence is complete, in any order? |
| `surface_generations` | violated | | finding 1 |
| `launched_game_surface` | violated | | finding 2 |
| `duplicate_launch` | violated | | finding 3 |
| `startup_stopped` | violated | | finding 4 |

Every property of a passing run has a mutant: a named variant of one definition
that makes a plausible mistake (a dropped guard, a missing reset), kept just
before the definition it varies. With the variant in place TLC finds the property
violated.

### Findings

1. **A generation can come back.** `SurfaceCreated` compares a new generation
   only with the active and the last destroyed one, so an earlier generation is
   accepted again once two others have taken those places. A game that was paused
   twice and is offered the generation of its first surface is one instance. The
   header says recreated surfaces "must receive a new generation". The window
   never repeats one
   (`GenerationsGrow` is proved), so this is a gap in the coordinator's own check
   and not reachable from the window.
2. **A game launched while the window changes keeps the old surface.** Surface
   events drained while the worker starts the game go to the Lua app, because
   `game_active_` is still false. The game starts on the surface copied when the
   launch began and is not told afterwards, although the header says that new
   generations pause and resume a running session. For directly launched
   games the property holds (`GameFollowsWindow`).
3. **A request to rejoin a game can be dropped.** Between the return of a game and
   the main loop's consumption of that return the game counts as active. A
   request for the same game is acknowledged as a duplicate and never launched.
4. **A stopped runtime can fail.** `StartupStateMachine::RecordEvidence` rejects
   evidence of no known kind before it looks at the state, and the rejection sets
   `kFailure`. `Fail` refuses the same transition ("cannot fail an already stopped
   runtime"), and the header speaks of invalid evidence in "an active startup".
   The runtime does not become active again (`NoRevival` is proved).

## 4. Bounds

| Bound | Value | Why it is enough |
|---|---|---|
| Generations (coordinator) | 0..3 | the invalid one, two lifetimes and one never seen; the code remembers two |
| Frames | 0..2 | malformed, first and later evidence |
| Extents and sizes | 2 | a resize differs from a repeated event |
| Window handles | 2 | replacement differs from resize |
| `GenerationLimit` | 1..3 | three lifetimes in the safety runs, so a surface can be lost and replaced twice; the counter's limit is reached as well. 3 with one window size in `pipeline_progress`, so that a recovery can follow another too closely and still succeed; 1 or 2 in the other liveness run and the findings |
| Requests | 3, queue of 2 | one played, one being launched or waited for, one queued; the queue fills up |
| Event queue | no explicit bound | the generations bound it |
| Games owed a return | no explicit bound | a new game starts only when none is owed, which `ReturnEndsItsOwnGame` checks |

Requests, window handles and sizes are interchangeable and form symmetry sets in
the safety runs. The liveness runs use no symmetry.

Deadlock is checked for the coordinator, the lifecycle and the startup machine.
The pipeline and the composition end with the process, so their configurations
turn the check off. How they end is the subject of `CleanExit` (a process that
shuts down has left the game and stopped the engine) and `ShutdownEnds`.

## 5. Fairness

- **The main thread goes on** (weak fairness).
- **A pause or a leave ends** (weak fairness of `GuestCallTimesOut`).
  `InvokeWithMainThreadPump` sees to it: it waits 15 seconds and then calls
  `_Exit`. In the pipeline the engine need not return from these two at all.
- **The other native calls return** (weak fairness). `start_game`,
  `update_surface`, `resume_game`, `set_game_foreground` and `shutdown_runtime`
  are called without a limit; if one of them hangs, so does the program, except
  that a limit on the start-up can be configured. The composition takes all its
  native calls to return; there too a hanging pause or leave ends the process.
- **Time passes** (strong fairness of `RecoverSurface`): a request to rebind that
  comes too early waits for a present or for one second, not at every pump.
- **`PumpEvents` ends** (strong fairness of `EndPump`): it handles what SDL has
  queued, so a stream of window events cannot keep the main thread in it.
- **A thread waiting for the present gate gets it** (strong fairness of the main
  thread and the worker): the gate's mutex is released between two frames, and
  waiting for it is what the steps that clear or set the observer do.
- **The engine reports the return of each game that ended, once** (weak fairness
  and the counter `owed`). This is external: it is how the composition uses
  `NotifyLuaAppDidReturn`.

No fairness is assumed of users, window events, presents or launch requests.

## 6. Proofs

TLAPS proves the following for every value of the constants that satisfies the
modules' named assumptions: that generations and frames are natural numbers, that
the "none" values are not real values, that valid and invalid inputs are disjoint.

**GameSessionCoordinator_proofs.**
`IInv` is the conjunction of `TypeOK`, `SessionShape`, `SurfaceOwnership`,
`StartIsJustified` and `PresentIsJustified`; TLC checks each of them in the run
`coordinator`. They are proved together because they lean on each other: that a resumed
game gets a surface other than the one it was paused from depends on what is
remembered during `pause_game` and `set_game_foreground`, which `SessionShape`
says, and that in turn needs `SurfaceOwnership` for the generation of the active
surface. There is one lemma per method or native return, `NextInv` combines them,
and `Invariance` is `Spec => []IInv`. From it follow the five invariants
(`TypeCorrect`, `SessionsShaped`, `SurfacesOwned`, `StartsJustified`,
`PresentsJustified`), the action property `EvidenceIsKept`, and
`ImplementsNativeProtocol`: under the refinement mapping (`Phase`, `Target`)
every step is a step of `NativeGameProtocol` or leaves the engine's view alone.

**WindowSurfaceLifecycle_proofs.** `StreamIsOrdered`: the event queue, of any
length, is a run of complete lifetimes that ends with the current surface. The
argument is one predicate, `Consistent(queue, surface)`, kept by queueing each
kind of event. `GenerationsAreFresh` is the action property that no generation is
used for two surfaces while the lifecycle is active.

**StartupStateMachine_proofs.** `ReadyIsExact` and `StaysEnded`, for any set of
requirements and for evidence of unknown kinds too. The strengthening says that
the last core evidence is present in the two states that follow it. `StaysEnded`
does not say that `kStopped` is final, which is not so (finding 4): it says that
a stopped runtime is failed by rejected evidence alone.

## 7. Only model-checked

- Liveness (`EvidenceDecided`, `SurfacesReachGame`, `OutOfDateIsReplaced`,
  `QueuedLaunchStarts`, `ShutdownEnds`): liveness under fairness is outside the prover's reach.
- `ReplayReachesCurrent`, a fold over the queue: it needs induction over data,
  which the installed provers cannot do. Its safety core, `StreamOrder`, is proved.
- The compositions `GameSurfacePipeline` and `ExperienceComposition`. Their
  invariants are candidates for proof.

## 8. What the models leave out

Inside the modelled parts:

- the texts of messages and statuses, logs, and `revision_`, which only counts;
- the parameters of `StartGame` and the JNI calls behind the native entry points,
  which are calls that succeed or fail;
- the resize readiness gate, which is opt-in: the bridge's commit observer is
  taken as disabled;
- the retry interval of the recovery gate, which is a choice: a report may be due
  at any pump;
- in the composition, `HostEvent` allows any change of the surface that
  `Observe`, `Refresh` and `Recreate` can make, whenever the window is pumped;
- in the composition, failing timed waits for the worker, exhausted request ids,
  platform protocols, web surfaces and late promotion of a signed-in session;
- exits before the session is started, and what the destructors do after an exit
  without shutdown. `CleanExit` does not cover the exits without shutdown listed
  in section 2: with the input or the text input missing, the process ends with
  the game running;
- in the composition, the number of free places the main thread counts before it
  drains the broker, and the broker's own queue: its requests come through the
  same `Dispatch`, and a drain that fails ends the main loop;
- in the composition, the limit on a pause or a leave, and what a native entry
  point needs of the main thread. `Shutdown` joins the worker without pumping
  messages; the model lets every native call return.

Parts without a model:

- *Pure I/O and parsing*: update formats and download, APK and ELF parsing, HTTP
  services, configuration files, diagnostics, SDL event conversion, the linker.
- *Translation of calls*: most of the bionic runtime, Vulkan and GL adapters,
  texture decoding, the table of Java methods.
- *State machines that are worth a model*, in the plan below.

## 9. Plan

In order of what is hardest to test:

1. **Payload store and updater** (`update/payload_store.cc`,
   `update_coordinator.cc`, `candidate_approval.cc`): staging, quarantine,
   promotion, rollback and collection of payloads with a crash between any two
   file-system steps; current and previous-good must stay usable or recoverable.
2. **Bionic synchronisation** (`compat/bionic_rwlock_runtime.cc`,
   `bionic_semaphore_runtime.cc`, `bionic_pthread_key_runtime.cc`): each atomic
   operation and futex call as a step; exclusion proved, lost wake-ups checked.
3. **Audio buffer queue and player** (`audio/opensl_simple_buffer_queue.cc`,
   `opensl_playback_runtime.cc`): tickets, generations, callbacks and shutdown
   from inside a callback.
4. **External launch broker and single-instance lock**
   (`runtime/external_launch_broker.cc`, `single_instance_lock.cc`): two
   processes, hand-over with a timeout, and the end of the owner.
5. **Window gates** (resize readiness, fullscreen requests, main-thread commands)
   and the text-input and pointer-capture owners.
6. **The rest of the composition**: web surfaces and late promotion, with
   `runtime/owned_pthread.cc` under it.
7. **JNI references**, input routing and text editing, Discord reconnects, cache
   migration.
8. **Proofs**: the invariants of the pipeline, and exclusion of the locks.
