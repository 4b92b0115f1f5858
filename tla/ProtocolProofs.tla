--------------------------- MODULE ProtocolProofs ---------------------------
(***************************************************************************)
(* The two programs together are the client of the abstract breaker, and   *)
(* the program under the service is the chain the service supposes, so     *)
(* that the theorems about those two are theorems about these three.       *)
(***************************************************************************)
EXTENDS Protocol, RiskEngineProofs

\* The steps of the client and the service leave the engine as it is.
LEMMA EngineGoesOn == ProtocolSpec => Spec
  <1>1. ProtocolInit => Init
    BY DEF ProtocolInit
  <1>2. [ProtocolNext]_protocolVars => [Next]_vars
    BY DEF ProtocolNext, EngineStep, ClientStep, ServiceStep, protocolVars
  <1>3. QED
    BY <1>1, <1>2, PTL DEF ProtocolSpec, Spec

\* What the client sees of the breaker, step by step.
LEMMA EngineStepSeen ==
    ASSUME IInv, ~ MOCK_VERIFY, EngineStep
    PROVE  Perp!EngineStep
  <1>1. Breaker!Next
    BY StepRefines DEF EngineStep
  <1>2. Perp!Next
    BY <1>1
       DEF Breaker!Next, Breaker!Tick, Breaker!Environment, Breaker!Accept, Breaker!Reset,
           Breaker!LiveState, Breaker!MayAccept, Breaker!Cap, Breaker!LapsedAge,
           Perp!Next, Perp!Tick, Perp!Environment, Perp!Accept, Perp!Reset,
           Perp!LiveState, Perp!MayAccept, Perp!Cap, Perp!LapsedAge
  <1>3. QED
    BY <1>2 DEF EngineStep, Perp!EngineStep

LEMMA ProtocolInitSeen == ProtocolInit => Perp!PerpInit
  <1>1. ProtocolInit => Breaker!Init
    BY BreakerInit DEF ProtocolInit
  <1>2. QED
    BY <1>1 DEF ProtocolInit, Perp!PerpInit, Breaker!Init, Breaker!LiveState, Perp!Init,
       Perp!LiveState

LEMMA ViewUnchanged ==
    ASSUME UNCHANGED <<vars, clientVars>>
    PROVE  UNCHANGED Perp!allVars
  <1>1. UNCHANGED vars /\ UNCHANGED clientVars
    OBVIOUS
  <1>2. UNCHANGED <<slot, accounts, globalState, riskConfig, positionBook>>
    BY <1>1 DEF vars
  <1>3. UNCHANGED <<Danger, Provable>>
    BY <1>2, DangerUnchanged
  <1>4. UNCHANGED <<Proven, ProofAge, HaltAge>>
    BY <1>2, AgesUnchanged
  <1>5. QED
    BY <1>1, <1>2, <1>3, <1>4 DEF Perp!allVars, Perp!vars, Perp!perpVars, clientVars

LEMMA ProtocolStepSeen ==
    ASSUME IInv, ~ MOCK_VERIFY, [ProtocolNext]_protocolVars
    PROVE  [Perp!PerpNext]_Perp!allVars
  <1>1. CASE EngineStep
    BY <1>1, EngineStepSeen DEF Perp!PerpNext
  <1>2. CASE ClientStep
    BY <1>2 DEF ClientStep, Perp!PerpNext
  <1>3. CASE ServiceStep \/ UNCHANGED protocolVars
    BY <1>3, ViewUnchanged DEF ServiceStep, protocolVars
  <1>4. QED
    BY <1>1, <1>2, <1>3 DEF ProtocolNext

\* The two programs implement the client of the abstract breaker, as long as the
\* verifier is the real one.
THEOREM ProtocolImplementsPerp ==
    ASSUME ~ MOCK_VERIFY
    PROVE  ProtocolSpec => PerpRefined
  <1>1. IInv /\ [ProtocolNext]_protocolVars => [Perp!PerpNext]_Perp!allVars
    BY ProtocolStepSeen
  <1>2. QED
    BY <1>1, ProtocolInitSeen, EngineGoesOn, Invariance, PTL
       DEF ProtocolSpec, PerpRefined, Perp!PerpSpec

Client == INSTANCE TargetPerpProofs WITH
    MaxAge <- MAX_PROOF_AGE_SLOTS,
    ResetTimelock <- CB_RESET_TIMELOCK_SLOTS,
    danger <- Danger,
    provable <- Provable,
    halted <- globalState.circuit_breaker_active,
    proven <- Proven,
    proofAge <- ProofAge,
    haltAge <- HaltAge,
    max_leverage <- perpLeverage,
    initial_leverage <- perpInitial

\* TargetPerp's theorems, of the client in its place between the two programs.
LEMMA ClientIsPerp ==
    /\ Perp!PerpSpec => Client!PerpSpec
    /\ Client!CutsOnEvidence => Perp!CutsOnEvidence
  <1>1. Perp!PerpInit => Client!PerpInit
    BY DEF Perp!PerpInit, Client!PerpInit, Perp!Init, Perp!LiveState, Client!Init,
           Client!LiveState
  <1>2. Perp!Next => Client!Next
    BY DEF Perp!Next, Perp!Tick, Perp!Environment, Perp!Accept, Perp!Reset,
           Perp!LiveState, Perp!MayAccept, Perp!Cap, Perp!LapsedAge,
           Client!Next, Client!Tick, Client!Environment, Client!Accept, Client!Reset,
           Client!LiveState, Client!MayAccept, Client!Cap, Client!LapsedAge
  <1>3. [Perp!PerpNext]_Perp!allVars => [Client!PerpNext]_Client!allVars
    BY <1>2
       DEF Perp!PerpNext, Perp!EngineStep, Perp!Initialize, Perp!ApplyCircuitBreaker,
           Perp!Halved, Perp!allVars, Perp!vars, Perp!perpVars,
           Client!PerpNext, Client!EngineStep, Client!Initialize,
           Client!ApplyCircuitBreaker, Client!Halved, Client!allVars, Client!vars,
           Client!perpVars
  <1>4. Client!CutsOnEvidence => Perp!CutsOnEvidence
    BY DEF Perp!CutsOnEvidence, Client!CutsOnEvidence
  <1>5. QED
    BY <1>1, <1>3, <1>4, PTL DEF Perp!PerpSpec, Client!PerpSpec

\* No client is cut whose engine has never been in danger, for every book, score,
\* parameter and schedule of the two programs' calls.
THEOREM CutsAreJustified ==
    ASSUME ~ MOCK_VERIFY
    PROVE  ProtocolSpec => []CutsJustified
  <1>1. Client!AgesAssumption /\ Client!LeveragesAssumption
    BY SlotsAssumption, ReadersAssumption DEF Client!AgesAssumption, Client!LeveragesAssumption
  <1>2. Client!PerpSpec => []Client!CutsOnEvidence
    BY <1>1, Client!CutsAreGrounded
  <1>3. ProtocolSpec => Perp!PerpSpec
    BY ProtocolImplementsPerp DEF PerpRefined
  <1>4. Client!CutsOnEvidence => CutsJustified
    BY ClientIsPerp DEF CutsJustified
  <1>5. QED
    BY <1>2, <1>3, <1>4, ClientIsPerp, PTL

-----------------------------------------------------------------------------
(* The service *)

LEMMA ProtocolInitServed == ProtocolInit => Service!Init
  <1> SUFFICES ASSUME ProtocolInit PROVE Service!Init
    OBVIOUS
  <1>1. PolledState = Service!Genesis
    BY DEF ProtocolInit, Init, PolledState, Service!Genesis, DefaultGlobalState
  <1>2. riskConfig.circuit_breaker_threshold \in 0..RISK_SCORE_MAX
    BY AmountsAssumption DEF ProtocolInit, Init, DefaultRiskConfig
  <1>3. QED
    BY <1>1, <1>2 DEF ProtocolInit, Service!Init

\* A submission records a score, and trips the breaker if it is over the threshold.
LEMMA SubmissionServed ==
    ASSUME IInv, NEW user \in Users, NEW withIncentives \in BOOLEAN,
           SubmitProof(user, withIncentives), EngineStep
    PROVE  \E score \in 0..RISK_SCORE_MAX : Service!RecordScore(score)
  <1>1. \A snap \in Snapshots :
          {StressScore(snap), 0, RISK_SCORE_MAX} \subseteq 0..RISK_SCORE_MAX
    BY ScoresAssumption, AmountsAssumption
  <1>2. PICK snap \in Snapshots, score \in 0..RISK_SCORE_MAX :
          RecordProof(PublicValues(snap, score))
    BY <1>1 DEF SubmitProof
  <1> DEFINE threshold == riskConfig.circuit_breaker_threshold
             trips == Panics(PublicValues(snap, score))
  <1>3. trips \in BOOLEAN /\ (trips <=> score > threshold)
    BY DEF Panics, PublicValues
  <1>4. globalState \in GlobalStates
    BY DEF IInv, TypeOK
  <1>5. /\ globalState'.last_risk_score = score
        /\ globalState'.circuit_breaker_active =
             (globalState.circuit_breaker_active \/ trips)
    BY <1>2, <1>4 DEF RecordProof, GlobalStates, PublicValues
  <1>6. bar' = threshold
    BY SubmissionMovesSlot DEF EngineStep
  <1>7. riskConfig' = riskConfig
    BY SubmitProofEffect
  <1> HIDE DEF trips
  <1>8. globalState'.circuit_breaker_active =
          (globalState.circuit_breaker_active \/ score > threshold)
    BY <1>3, <1>5
  <1>9. PolledState' = [score |-> score, active |-> PolledState.active \/ score > threshold,
                        bar |-> threshold]
    BY <1>5, <1>6, <1>8 DEF PolledState
  <1>10. Service!RecordScore(score)
    BY <1>7, <1>9 DEF EngineStep, Service!RecordScore
  <1>11. QED
    BY <1>10

\* A call of governance resets the breaker, with the score, or leaves both alone,
\* and moves the threshold or does not.
LEMMA GovernanceServed ==
    ASSUME IInv, NEW user \in Users, NEW u \in RiskUpdates, UpdateRiskParams(user, u),
           EngineStep
    PROVE  \E new \in 0..RISK_SCORE_MAX, reset \in BOOLEAN : Service!UpdateParams(new, reset)
  <1>1. globalState \in GlobalStates
    BY DEF IInv, TypeOK
  <1>2. u.reset_circuit_breaker \in BOOLEAN
    BY DEF RiskUpdates
  <1>3. riskConfig'.circuit_breaker_threshold \in 0..RISK_SCORE_MAX
    <2>1. IInv'
      BY StepInv DEF EngineStep
    <2>2. QED
      BY <2>1 DEF IInv, TypeOK, RiskConfigs
  <1>4. bar' = bar
    <2>1. globalState'.last_proof_slot = globalState.last_proof_slot
      BY <1>1 DEF UpdateRiskParams, GlobalStates
    <2>2. QED
      BY <2>1 DEF EngineStep
  <1>5. globalState'.circuit_breaker_active =
          (globalState.circuit_breaker_active /\ ~ u.reset_circuit_breaker)
    BY <1>1 DEF UpdateRiskParams, GlobalStates
  <1>6. PolledState' = IF u.reset_circuit_breaker THEN Service!Reset(PolledState)
                       ELSE PolledState
    <2>1. CASE u.reset_circuit_breaker
      <3>1. globalState'.last_risk_score = 0
        BY <1>1, <2>1 DEF UpdateRiskParams, GlobalStates
      <3>2. globalState'.circuit_breaker_active = FALSE
        BY <1>5, <2>1
      <3>3. QED
        BY <1>4, <2>1, <3>1, <3>2 DEF PolledState, Service!Reset
    <2>2. CASE ~ u.reset_circuit_breaker
      <3>1. globalState'.last_risk_score = globalState.last_risk_score
        BY <1>1, <2>2 DEF UpdateRiskParams, GlobalStates
      <3>2. globalState'.circuit_breaker_active = globalState.circuit_breaker_active
        BY <1>1, <1>5, <2>2 DEF GlobalStates
      <3>3. QED
        BY <1>4, <2>2, <3>1, <3>2 DEF PolledState
    <2>3. QED
      BY <1>2, <2>1, <2>2
  <1>7. Service!UpdateParams(riskConfig'.circuit_breaker_threshold, u.reset_circuit_breaker)
    BY <1>6 DEF EngineStep, Service!UpdateParams
  <1>8. QED
    BY <1>2, <1>3, <1>7

\* What the service's chain consists of.
ServedState == <<PolledState, riskConfig.circuit_breaker_threshold>>

\* initialize_protocol finds what a poll reads as it leaves it, and writes the
\* default threshold.
LEMMA InitializationServed ==
    ASSUME IInv, NEW user \in Users, InitializeProtocol(user), EngineStep
    PROVE  Service!UpdateParams(DEFAULT_CB_THRESHOLD, FALSE)
  <1>1. globalState = DefaultGlobalState(NoKey)
    BY DEF InitializeProtocol, IInv, SlotsConsistent
  <1>2. globalState' = DefaultGlobalState(user) /\ riskConfig' = DefaultRiskConfig
    BY DEF InitializeProtocol
  <1>3. UNCHANGED PolledState
    BY <1>1, <1>2 DEF EngineStep, DefaultGlobalState, PolledState
  <1>4. riskConfig'.circuit_breaker_threshold = DEFAULT_CB_THRESHOLD
    BY <1>2 DEF DefaultRiskConfig
  <1>5. QED
    BY <1>3, <1>4 DEF EngineStep, Service!UpdateParams

\* No other instruction moves what a poll reads or the threshold.
LEMMA OthersServed ==
    ASSUME IInv, EngineStep,
           ~ \E user \in Users, withIncentives \in BOOLEAN :
                 SubmitProof(user, withIncentives),
           ~ \E user \in Users, u \in RiskUpdates : UpdateRiskParams(user, u),
           ~ \E user \in Users : InitializeProtocol(user)
    PROVE  UNCHANGED ServedState
  <1> DEFINE same == /\ globalState'.last_risk_score = globalState.last_risk_score
                     /\ globalState'.circuit_breaker_active
                          = globalState.circuit_breaker_active
                     /\ globalState'.last_proof_slot = globalState.last_proof_slot
                     /\ riskConfig'.circuit_breaker_threshold
                          = riskConfig.circuit_breaker_threshold
  <1>1. globalState \in GlobalStates
    BY DEF IInv, TypeOK
  <1>2. ASSUME AdvanceSlot
        PROVE  same
    BY <1>2 DEF AdvanceSlot
  <1>3. ASSUME NEW feed \in PythFeeds, RefreshOraclePrice(feed)
        PROVE  same
    BY <1>1, <1>3 DEF RefreshOraclePrice, GlobalStates
  <1>4. ASSUME NEW user \in Users, InitializePositions(user)
        PROVE  same
    BY <1>1, <1>4 DEF InitializePositions, GlobalStates
  <1>5. ASSUME NEW user \in Users,
               \/ \E reward \in RewardChoices, interval \in IntervalChoices,
                     enabled \in BOOLEAN :
                    InitializeIncentives(user, reward, interval, enabled)
               \/ \E reward \in RewardChoices \cup {None},
                     interval \in IntervalChoices \cup {None},
                     enabled \in BOOLEAN \cup {None} :
                    UpdateIncentives(user, reward, interval, enabled)
               \/ \E amount \in FundingChoices : FundRewardVault(user, amount)
        PROVE  same
    BY <1>5 DEF InitializeIncentives, UpdateIncentives, FundRewardVault
  <1>6. same
    BY <1>2, <1>3, <1>4, <1>5 DEF EngineStep, Next
  <1>7. bar' = bar
    BY <1>6 DEF EngineStep
  <1>8. QED
    BY <1>6, <1>7 DEF ServedState, PolledState

LEMMA EngineStepServed ==
    ASSUME IInv, EngineStep
    PROVE  [Service!Next]_Service!vars
  <1>1. ASSUME NEW user \in Users, NEW withIncentives \in BOOLEAN,
               SubmitProof(user, withIncentives)
        PROVE  Service!Next
    BY <1>1, SubmissionServed DEF Service!Next
  <1>2. ASSUME NEW user \in Users, NEW u \in RiskUpdates, UpdateRiskParams(user, u)
        PROVE  Service!Next
    BY <1>2, GovernanceServed DEF Service!Next
  <1>3. ASSUME NEW user \in Users, InitializeProtocol(user)
        PROVE  Service!Next
    <2>1. DEFAULT_CB_THRESHOLD \in 0..RISK_SCORE_MAX
      BY AmountsAssumption
    <2>2. QED
      BY <1>3, <2>1, InitializationServed DEF Service!Next
  <1>4. CASE /\ ~ \E user \in Users, withIncentives \in BOOLEAN :
                      SubmitProof(user, withIncentives)
             /\ ~ \E user \in Users, u \in RiskUpdates : UpdateRiskParams(user, u)
             /\ ~ \E user \in Users : InitializeProtocol(user)
    BY <1>4, OthersServed DEF EngineStep, ServedState, Service!vars
  <1>5. QED
    BY <1>1, <1>2, <1>3, <1>4

\* The client does nothing a poll can see.
LEMMA ProtocolStepServed ==
    ASSUME IInv, [ProtocolNext]_protocolVars
    PROVE  [Service!Next]_Service!vars
  <1>1. UNCHANGED <<vars, bar>> => UNCHANGED ServedState
    BY DEF vars, PolledState, ServedState
  <1>2. CASE EngineStep
    BY <1>2, EngineStepServed
  <1>3. CASE ClientStep \/ UNCHANGED protocolVars
    BY <1>1, <1>3 DEF ClientStep, protocolVars, serviceVars, Service!vars, ServedState
  <1>4. CASE ServiceStep
    BY <1>4 DEF ServiceStep, Service!Next
  <1>5. QED
    BY <1>2, <1>3, <1>4 DEF ProtocolNext

\* The program is the chain that Keeper supposes under its polls, whatever governance
\* does to the threshold.
THEOREM ProtocolImplementsKeeper == ProtocolSpec => ServiceRefined
  <1>1. IInv /\ [ProtocolNext]_protocolVars => [Service!Next]_Service!vars
    BY ProtocolStepServed
  <1>2. QED
    BY <1>1, ProtocolInitServed, EngineGoesOn, Invariance, PTL
       DEF ProtocolSpec, ServiceRefined, Service!Spec

Watcher == INSTANCE KeeperProofs WITH
    Scores <- 0..RISK_SCORE_MAX,
    Thresholds <- 0..RISK_SCORE_MAX,
    chain <- PolledState,
    threshold <- riskConfig.circuit_breaker_threshold

\* Keeper's theorems, of the service above the program.
LEMMA ServiceIsKeeper ==
    /\ Service!Spec => Watcher!Spec
    /\ Watcher!AlarmOnlyUntripped => Service!AlarmOnlyUntripped
  <1>1. Service!Init => Watcher!Init
    BY DEF Service!Init, Service!Genesis, Service!Idle, Service!Polled,
           Watcher!Init, Watcher!Genesis, Watcher!Idle, Watcher!Polled
  <1>2. [Service!Next]_Service!vars => [Watcher!Next]_Watcher!vars
    BY DEF Service!Next, Service!RecordScore, Service!UpdateParams, Service!Reset,
           Service!StartPoll, Service!PollStep, Service!ReadState, Service!Arrive,
           Service!FinishProof, Service!FailPoll, Service!Alarm, Service!Genesis,
           Service!Polled, Service!Idle, Service!vars,
           Watcher!Next, Watcher!RecordScore, Watcher!UpdateParams, Watcher!Reset,
           Watcher!StartPoll, Watcher!PollStep, Watcher!ReadState, Watcher!Arrive,
           Watcher!FinishProof, Watcher!FailPoll, Watcher!Alarm, Watcher!Genesis,
           Watcher!Polled, Watcher!Idle, Watcher!vars
  <1>3. Watcher!AlarmOnlyUntripped => Service!AlarmOnlyUntripped
    BY DEF Watcher!AlarmOnlyUntripped, Service!AlarmOnlyUntripped
  <1>4. QED
    BY <1>1, <1>2, <1>3, PTL DEF Service!Spec, Watcher!Spec

\* The service generates no proof of a score that was over the threshold when the
\* program accepted it: for every book, score, change of the threshold, schedule of
\* calls and polls, and any number of polls at once.
THEOREM ServiceAlarmsUntripped == ProtocolSpec => []AlarmsUntripped
  <1>1. Watcher!ScoresAssumption
    BY AmountsAssumption, ReadersAssumption DEF Watcher!ScoresAssumption
  <1>2. Watcher!Spec => []Watcher!AlarmOnlyUntripped
    BY <1>1, Watcher!AlarmsAreUntripped
  <1>3. ProtocolSpec => Service!Spec
    BY ProtocolImplementsKeeper DEF ServiceRefined
  <1>4. QED
    BY <1>2, <1>3, ServiceIsKeeper, PTL DEF AlarmsUntripped
=============================================================================
