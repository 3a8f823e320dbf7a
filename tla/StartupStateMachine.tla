------------------------- MODULE StartupStateMachine -------------------------
(***************************************************************************)
(* The startup state machine (src/runtime/startup_state_machine.cc): the   *)
(* evidence that the process has come up, recorded by the main thread, the *)
(* render thread and the input and audio threads in whatever order they    *)
(* get there.  Each method holds mutex_ throughout and is one action.      *)
(*                                                                         *)
(* Evidence and states are the numbers of their enumerations: the core     *)
(* evidence is 1 (kConfigured) to 7 (kLuaAppReady), and recording core     *)
(* evidence e leads to state e.  A caller may also pass a value that is no *)
(* enumerator, UnknownEvidence: the tests cast one.                        *)
(***************************************************************************)
EXTENDS Naturals

CONSTANT Requirements   \* auxiliary evidence that requirements_ asks for

EngineStarted == 5
LuaAppReady == 7
CoreEvidence == 1..7
RealFramePresented == 8
AuxiliaryEvidence == 8..10
Evidence == CoreEvidence \cup AuxiliaryEvidence
UnknownEvidence == 255

Ready == 8
Failure == 9
Stopping == 10
Stopped == 11

ASSUME RequirementsAssumption == Requirements \subseteq AuxiliaryEvidence

VARIABLES
    state,      \* state_
    evidence,   \* evidence_bits_
    outcome     \* status of the last method

vars == <<state, evidence, outcome>>

Init == state = 0 /\ evidence = {} /\ outcome = "none"

-----------------------------------------------------------------------------
Answer(status) == outcome' = status /\ UNCHANGED <<state, evidence>>

Move(s) == state' = s /\ outcome' = "Applied" /\ UNCHANGED evidence

\* RejectInvalidOrderLocked.
Reject == state' = Failure /\ outcome' = "Rejected" /\ UNCHANGED evidence

\* Mutant: auxiliary evidence alone makes the runtime ready.
EvaluateReadyAnyTime(s, known) == IF Requirements \subseteq known THEN Ready ELSE s

\* EvaluateReadyLocked: the state once the evidence is known.
EvaluateReady(s, known) ==
    IF LuaAppReady \notin known THEN s
    ELSE IF Requirements \subseteq known THEN Ready ELSE LuaAppReady

\* Recorded evidence, in the state it leads to.
Record(e, s) ==
    LET known == evidence \cup {e}
    IN /\ evidence' = known /\ state' = EvaluateReady(s, known)
       /\ outcome' = "Applied"

\* Mutant: a frame may be presented before the engine has started.
AuxiliaryInAnyOrder(e) == 1 \in evidence

\* RecordAuxiliaryEvidenceLocked accepts it.
AuxiliaryInOrder(e) ==
    /\ 1 \in evidence
    /\ e = RealFramePresented => EngineStarted \in evidence

\* RecordEvidence, of a known kind.  The core evidence expected after state s
\* is s + 1; nothing is expected after kLuaAppReady, whose evidence is then a
\* duplicate.
RecordKnown(e) ==
    \/ e \in evidence /\ Answer("Duplicate")
    \/ /\ e \notin evidence /\ state \in {Failure, Stopping, Stopped}
       /\ Answer("Rejected")
    \/ /\ e \notin evidence /\ state < Failure
       /\ e \in CoreEvidence
       /\ IF e = state + 1 THEN Record(e, e) ELSE Reject
    \/ /\ e \notin evidence /\ state < Failure
       /\ e \notin CoreEvidence
       /\ IF AuxiliaryInOrder(e) THEN Record(e, state) ELSE Reject

\* Mutant: the kind of the evidence is not looked at.
RecordUnchecked(e) == RecordKnown(e)

\* Evidence of no known kind is rejected first, in whatever state, and so fails
\* a runtime that stops or has stopped too.
RecordEvidence(e) == IF e \in Evidence THEN RecordKnown(e) ELSE Reject

\* Mutant: a stopped runtime can still fail.
FailAnyTime == IF state = Failure THEN Answer("Duplicate") ELSE Move(Failure)

Fail == IF state = Failure THEN Answer("Duplicate")
        ELSE IF state = Stopped THEN Answer("Rejected") ELSE Move(Failure)

BeginStopping == IF state \in {Stopping, Stopped} THEN Answer("Duplicate")
                 ELSE Move(Stopping)

MarkStopped == IF state = Stopped THEN Answer("Duplicate")
               ELSE IF state = Stopping THEN Move(Stopped) ELSE Reject

Next == \/ \E e \in Evidence \cup {UnknownEvidence} : RecordEvidence(e)
        \/ Fail \/ BeginStopping \/ MarkStopped

Spec == Init /\ [][Next]_vars

-----------------------------------------------------------------------------
\* Properties.

\* The state is one of the enumeration, and only evidence of a known kind is
\* recorded, whatever callers pass (IsKnownEvidence).
TypeOK == /\ state \in 0..Stopped /\ evidence \subseteq Evidence
          /\ outcome \in {"none", "Applied", "Duplicate", "Rejected"}

\* Core evidence is strictly ordered however the auxiliary evidence arrives:
\* what is recorded is a prefix of the core sequence, the state of an active
\* startup is its length, and a frame counts only once the engine has started.
CoreInOrder ==
    /\ \A e \in CoreEvidence : e \in evidence => \A d \in 1..e : d \in evidence
    /\ state < LuaAppReady =>
         \A e \in CoreEvidence : e \in evidence <=> e <= state
    /\ RealFramePresented \in evidence => EngineStarted \in evidence
    /\ evidence # {} => 1 \in evidence

\* An active startup is Ready exactly when the core sequence is complete and
\* everything required is there: neither too early nor, when the last evidence
\* is an auxiliary one, never.
ReadyWhenComplete ==
    state < Failure =>
      (state = Ready <=> CoreEvidence \cup Requirements \subseteq evidence)

\* What makes the invariants inductive: the last core evidence is there in the
\* states that follow it.
Inv == /\ TypeOK /\ CoreInOrder /\ ReadyWhenComplete
       /\ state \in {LuaAppReady, Ready} => LuaAppReady \in evidence

\* A startup that failed or stops never becomes active again and records
\* nothing more, nor is evidence ever lost.  A stopped runtime cannot be failed
\* or stopped anew: it leaves Stopped only for Failure, and only because a
\* caller's evidence was rejected.
NoRevival ==
    [][/\ state >= Failure => state' >= Failure
       /\ evidence' # evidence => state < Failure /\ evidence \subseteq evidence'
       /\ state = Stopped /\ state' # Stopped
            => state' = Failure /\ outcome' = "Rejected"]_vars

\* A stopped runtime does not fail any more: Fail refuses, "cannot fail an
\* already stopped runtime".  It does not hold: RecordEvidence looks at the kind
\* of the evidence before it looks at the state, and evidence of no known kind
\* makes a stopped runtime a failed one.
StoppedCannotFail == [][state = Stopped => state' # Failure]_vars
=============================================================================
