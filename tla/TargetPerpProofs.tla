-------------------------- MODULE TargetPerpProofs --------------------------
(***************************************************************************)
(* Machine-checked theorems about CircuitBreaker and its client TargetPerp: *)
(* every proof age and reset timelock, every choice of leverages.          *)
(***************************************************************************)
EXTENDS TargetPerp, TLAPS

-----------------------------------------------------------------------------
(* The breaker itself *)

LEMMA CapInRange ==
    ASSUME NEW limit \in Nat, NEW age \in Nat
    PROVE  Cap(age, limit) \in 0..limit
  BY DEF Cap

LEMMA BreakerInitTyped == Init => TypeOK
  <1>1. 0 \in 0..LapsedAge
    BY AgesAssumption DEF LapsedAge
  <1>2. QED
    BY <1>1, Zenon DEF Init, LiveState, TypeOK

LEMMA BreakerStepTyped == TypeOK /\ [Next]_vars => TypeOK'
  <1> SUFFICES ASSUME TypeOK, [Next]_vars PROVE TypeOK'
    OBVIOUS
  <1> USE AgesAssumption
  <1>1. CASE Tick
    <2>1. LapsedAge \in Nat
      BY DEF LapsedAge
    <2>2. proofAge + 1 \in Nat /\ haltAge + 1 \in Nat
      BY <2>1 DEF TypeOK
    <2>3. Cap(proofAge + 1, LapsedAge) \in 0..LapsedAge
      BY <2>1, <2>2, CapInRange
    <2>4. Cap(haltAge + 1, ResetTimelock) \in 0..ResetTimelock
      BY <2>2, CapInRange
    <2>5. QED
      BY <1>1, <2>3, <2>4 DEF Tick, TypeOK
  <1>2. CASE Environment
    BY <1>2 DEF Environment, LiveState, TypeOK
  <1>3. ASSUME NEW trips \in BOOLEAN, Accept(trips) PROVE TypeOK'
    BY <1>3 DEF Accept, MayAccept, TypeOK, LapsedAge
  <1>4. CASE Reset
    BY <1>4 DEF Reset, LiveState, TypeOK
  <1>5. CASE UNCHANGED vars
    BY <1>5 DEF vars, TypeOK
  <1>6. QED
    BY <1>1, <1>2, <1>3, <1>4, <1>5 DEF Next

\* The ages of the abstract breaker stay within their caps.
THEOREM BreakerTypeCorrect == Spec => []TypeOK
  BY BreakerInitTyped, BreakerStepTyped, PTL DEF Spec

-----------------------------------------------------------------------------
(* The client *)

\* What the client's leverage rests on: a breaker that is active was tripped by a
\* danger that was live, and a danger that is live is on record.
Grounds ==
    /\ danger => evidence
    /\ halted => evidence
    /\ ~ created => max_leverage = initial_leverage

PerpInv == PerpTypeOK /\ Grounds /\ CutsOnEvidence

LEMMA HalvedNat == max_leverage \in Nat => Halved \in Nat
  BY LeveragesAssumption DEF Halved

LEMMA PerpInitInvariant == PerpInit => PerpInv
  <1> SUFFICES ASSUME PerpInit PROVE PerpInv
    OBVIOUS
  <1>1. TypeOK
    BY BreakerInitTyped DEF PerpInit
  <1>2. PerpTypeOK
    BY <1>1, Zenon DEF PerpInit, PerpTypeOK, TypeOK, Init
  <1>3. Grounds
    BY Zenon DEF PerpInit, Grounds, Init
  <1>4. QED
    BY <1>2, <1>3, Zenon DEF PerpInit, PerpInv, CutsOnEvidence

LEMMA EngineStepInvariant == PerpInv /\ EngineStep => PerpInv'
  <1> SUFFICES ASSUME PerpInv, EngineStep PROVE PerpInv'
    OBVIOUS
  <1>1. TypeOK'
    BY BreakerStepTyped DEF PerpInv, PerpTypeOK, EngineStep
  <1>2. evidence' = (evidence \/ danger')
    BY DEF EngineStep
  <1>3. PerpTypeOK'
    BY <1>1, <1>2 DEF PerpInv, PerpTypeOK, EngineStep, TypeOK
  <1>4. halted' => evidence \/ danger'
    BY DEF PerpInv, PerpTypeOK, TypeOK, Grounds, EngineStep, Next, Tick, Environment,
       Accept, MayAccept, Reset
  <1>5. Grounds'
    BY <1>2, <1>4 DEF PerpInv, Grounds, EngineStep
  <1>6. CutsOnEvidence'
    BY <1>2 DEF PerpInv, CutsOnEvidence, EngineStep
  <1>7. QED
    BY <1>3, <1>5, <1>6 DEF PerpInv

LEMMA ClientStepInvariant ==
    ASSUME PerpInv,
           (\E leverage \in InitialLeverages : Initialize(leverage))
             \/ ApplyCircuitBreaker
    PROVE  PerpInv'
  <1>1. ASSUME NEW leverage \in InitialLeverages, Initialize(leverage)
        PROVE  PerpInv'
    BY <1>1, LeveragesAssumption
    DEF Initialize, PerpInv, PerpTypeOK, TypeOK, Grounds, CutsOnEvidence, vars, LapsedAge
  <1>2. CASE ApplyCircuitBreaker
    <2>1. max_leverage' \in Nat
      BY <1>2, HalvedNat DEF ApplyCircuitBreaker, PerpInv, PerpTypeOK
    <2>2. evidence'
      BY <1>2 DEF ApplyCircuitBreaker, PerpInv, Grounds
    <2>3. QED
      BY <1>2, <2>1, <2>2
      DEF ApplyCircuitBreaker, PerpInv, PerpTypeOK, TypeOK, Grounds, CutsOnEvidence,
          vars, LapsedAge
  <1>3. QED
    BY <1>1, <1>2

LEMMA PerpStepInvariant == PerpInv /\ [PerpNext]_allVars => PerpInv'
  <1> SUFFICES ASSUME PerpInv, [PerpNext]_allVars PROVE PerpInv'
    OBVIOUS
  <1>1. CASE UNCHANGED allVars
    BY <1>1 DEF allVars, vars, perpVars, PerpInv, PerpTypeOK, TypeOK, Grounds,
       CutsOnEvidence, LapsedAge
  <1>2. QED
    BY <1>1, EngineStepInvariant, ClientStepInvariant DEF PerpNext

LEMMA PerpSpecInvariant == PerpSpec => []PerpInv
  BY PerpInitInvariant, PerpStepInvariant, PTL DEF PerpSpec

\* The client's account holds what its types allow.
THEOREM PerpTypeCorrect == PerpSpec => []PerpTypeOK
  <1>1. PerpInv => PerpTypeOK
    BY DEF PerpInv
  <1>2. QED
    BY <1>1, PerpSpecInvariant, PTL

\* The leverage is cut only in a protocol that has been in danger.
THEOREM CutsAreGrounded == PerpSpec => []CutsOnEvidence
  <1>1. PerpInv => CutsOnEvidence
    BY DEF PerpInv
  <1>2. QED
    BY <1>1, PerpSpecInvariant, PTL

\* The client does not disturb the engine: with it, the breaker is still the
\* breaker CircuitBreaker specifies.
THEOREM ClientOnlyReads == PerpSpec => Spec
  <1>1. PerpInit => Init
    BY DEF PerpInit
  <1>2. [PerpNext]_allVars => [Next]_vars
    BY DEF PerpNext, EngineStep, Initialize, ApplyCircuitBreaker, allVars, vars
  <1>3. QED
    BY <1>1, <1>2, PTL DEF PerpSpec, Spec
=============================================================================
