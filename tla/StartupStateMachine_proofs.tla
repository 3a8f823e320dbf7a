---------------------- MODULE StartupStateMachine_proofs ----------------------
(***************************************************************************)
(* Proofs about StartupStateMachine, for every set of requirements.        *)
(***************************************************************************)
EXTENDS StartupStateMachine, TLAPS

USE DEF EngineStarted, LuaAppReady, CoreEvidence, RealFramePresented,
        AuxiliaryEvidence, Evidence, UnknownEvidence, Ready, Failure, Stopping,
        Stopped

\* The methods that record nothing keep the invariant: they leave the state as
\* it is or make it one of the three ending states.
LEMMA EndingsKeepInv ==
    ASSUME Inv, UNCHANGED evidence, state' = state \/ state' \in 9..11,
           outcome' \in {"Applied", "Duplicate", "Rejected"}
    PROVE  Inv'
  BY DEF Inv, TypeOK, CoreInOrder, ReadyWhenComplete

\* Core evidence that is accepted is the next one, and extends the prefix.
LEMMA CoreKeepsInv ==
    ASSUME Inv, NEW e \in CoreEvidence, e \notin evidence, state < Failure,
           e = state + 1, Record(e, e)
    PROVE  Inv'
<1>1. state \in 0..6 /\ state' = EvaluateReady(e, evidence')
      /\ evidence' = evidence \cup {e} /\ outcome' = "Applied"
  BY DEF Inv, TypeOK, Record
<1>2. \A d \in CoreEvidence : d \in evidence' <=> d <= e
  BY <1>1 DEF Inv, CoreInOrder
<1>3. CASE e < 7
  <2>1. state' = e
    BY <1>1, <1>2, <1>3 DEF EvaluateReady
  <2> QED
    BY <1>1, <1>2, <1>3, <2>1
    DEF Inv, TypeOK, CoreInOrder, ReadyWhenComplete
<1>4. CASE e = 7
  <2>1. CoreEvidence \subseteq evidence'
    BY <1>2, <1>4
  <2>2. state' = IF Requirements \subseteq evidence' THEN 8 ELSE 7
    BY <1>1, <1>4, <2>1 DEF EvaluateReady
  <2>3. TypeOK' /\ ReadyWhenComplete'
    BY <1>1, <2>1, <2>2 DEF Inv, TypeOK, ReadyWhenComplete
  <2>4. CoreInOrder'
    BY <1>1, <2>1, <2>2 DEF Inv, CoreInOrder
  <2> QED
    BY <2>1, <2>2, <2>3, <2>4 DEF Inv
<1> QED
  BY <1>3, <1>4

\* Auxiliary evidence makes the startup ready when it is the last that is
\* missing, and otherwise leaves the state.
LEMMA AuxiliaryKeepsInv ==
    ASSUME Inv, NEW e \in AuxiliaryEvidence, e \notin evidence,
           state < Failure, AuxiliaryInOrder(e), Record(e, state)
    PROVE  Inv'
<1>1. state \in 0..8 /\ state' = EvaluateReady(state, evidence')
      /\ evidence' = evidence \cup {e} /\ outcome' = "Applied"
  BY DEF Inv, TypeOK, Record
<1>2. \A d \in CoreEvidence : d \in evidence' <=> d \in evidence
  BY <1>1
<1>3. CASE 7 \notin evidence
  <2>1. state' = state /\ state < 7
    BY <1>1, <1>2, <1>3 DEF EvaluateReady, Inv
  <2> QED
    BY <1>1, <1>2, <1>3, <2>1
    DEF Inv, TypeOK, CoreInOrder, ReadyWhenComplete, AuxiliaryInOrder
<1>4. CASE 7 \in evidence
  <2>1. CoreEvidence \subseteq evidence'
    BY <1>1, <1>4 DEF Inv, CoreInOrder
  <2>2. state' = IF Requirements \subseteq evidence' THEN 8 ELSE 7
    BY <1>1, <2>1 DEF EvaluateReady
  <2>3. TypeOK' /\ ReadyWhenComplete'
    BY <1>1, <2>1, <2>2 DEF Inv, TypeOK, ReadyWhenComplete
  <2>4. CoreInOrder'
    BY <1>1, <2>1, <2>2 DEF Inv, CoreInOrder
  <2> QED
    BY <2>1, <2>2, <2>3, <2>4 DEF Inv
<1> QED
  BY <1>3, <1>4

\* Every method of the state machine keeps the inductive invariant.
THEOREM Invariance == Spec => []Inv
<1>1. Init => Inv
  BY DEF Init, Inv, TypeOK, CoreInOrder, ReadyWhenComplete
<1>2. Inv /\ [Next]_vars => Inv'
  <2> SUFFICES ASSUME Inv, [Next]_vars PROVE Inv'
    OBVIOUS
  <2>1. ASSUME NEW e \in Evidence \cup {UnknownEvidence}, RecordEvidence(e)
        PROVE  Inv'
    <3>1. CASE Answer("Duplicate") \/ Answer("Rejected") \/ Reject
      BY <3>1, EndingsKeepInv DEF Answer, Reject
    <3>2. CASE /\ e \in CoreEvidence /\ e \notin evidence
               /\ state < Failure /\ e = state + 1 /\ Record(e, e)
      BY <3>2, CoreKeepsInv
    <3>3. CASE /\ e \in AuxiliaryEvidence /\ e \notin evidence
               /\ state < Failure /\ AuxiliaryInOrder(e) /\ Record(e, state)
      BY <3>3, AuxiliaryKeepsInv
    <3> QED
      BY <2>1, <3>1, <3>2, <3>3 DEF RecordEvidence, RecordKnown
  <2>2. CASE Fail
    BY <2>2, EndingsKeepInv DEF Fail, Answer, Move
  <2>3. CASE BeginStopping
    BY <2>3, EndingsKeepInv DEF BeginStopping, Answer, Move
  <2>4. CASE MarkStopped
    BY <2>4, EndingsKeepInv DEF MarkStopped, Answer, Move, Reject
  <2>5. CASE UNCHANGED vars
    BY <2>5 DEF vars, Inv, TypeOK, CoreInOrder, ReadyWhenComplete
  <2> QED
    BY <2>1, <2>2, <2>3, <2>4, <2>5 DEF Next
<1> QED
  BY <1>1, <1>2, PTL DEF Spec

\* Startup is Ready exactly when all evidence is there (EvaluateReadyLocked),
\* whatever is required and in whatever order the auxiliary evidence came.
THEOREM ReadyIsExact == Spec => [](TypeOK /\ CoreInOrder /\ ReadyWhenComplete)
<1>1. Inv => TypeOK /\ CoreInOrder /\ ReadyWhenComplete
  BY DEF Inv
<1> QED
  BY <1>1, Invariance, PTL

\* A startup that failed or stops is never revived by late evidence, known or
\* not, and a stopped one is failed by rejected evidence alone.
THEOREM StaysEnded == Spec => NoRevival
<1> DEFINE Kept == /\ state >= Failure => state' >= Failure
                   /\ evidence' # evidence
                        => state < Failure /\ evidence \subseteq evidence'
                   /\ state = Stopped /\ state' # Stopped
                        => state' = Failure /\ outcome' = "Rejected"
<1>1. TypeOK /\ [Next]_vars => [Kept]_vars
  <2> SUFFICES ASSUME TypeOK, Next PROVE Kept
    BY DEF vars
  <2>1. ASSUME NEW e \in Evidence \cup {UnknownEvidence}, RecordEvidence(e)
        PROVE  Kept
    <3>1. CASE e \in Evidence
      BY <2>1, <3>1
      DEF RecordEvidence, RecordKnown, Answer, Reject, Record, TypeOK
    <3>2. CASE e \notin Evidence
      BY <2>1, <3>2 DEF RecordEvidence, Reject
    <3> QED
      BY <3>1, <3>2
  <2>2. CASE Fail
    BY <2>2 DEF Fail, Answer, Move, TypeOK
  <2>3. CASE BeginStopping
    BY <2>3 DEF BeginStopping, Answer, Move, TypeOK
  <2>4. CASE MarkStopped
    BY <2>4 DEF MarkStopped, Answer, Move, Reject, TypeOK
  <2> QED
    BY <2>1, <2>2, <2>3, <2>4 DEF Next
<1> QED
  BY <1>1, ReadyIsExact, PTL DEF Spec, NoRevival
=============================================================================
