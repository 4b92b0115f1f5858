-------------------------- MODULE RiskEngineProofs --------------------------
(***************************************************************************)
(* Machine-checked theorems about RiskEngine, for every value of its       *)
(* constants that the module's assumptions allow.                          *)
(***************************************************************************)
EXTENDS RiskEngine, TLAPS

LEMMA DenominatorNat == BPS_DENOMINATOR \in Nat
  BY DEF BPS_DENOMINATOR

\* The values initialize_protocol writes are within the accounts' types.
LEMMA DefaultsTyped ==
    /\ \A key \in Users \cup {NoKey} : DefaultGlobalState(key) \in GlobalStates
    /\ DefaultRiskConfig \in RiskConfigs
  <1>1. /\ DEFAULT_ORACLE_PRICE \in Nat \ {0}
        /\ DEFAULT_INSURANCE_FUND \in Nat
        /\ DEFAULT_MAX_LEVERAGE \in 1..(100 * SCALE)
    BY AmountsAssumption DEF DEFAULT_ORACLE_PRICE, DEFAULT_INSURANCE_FUND, DEFAULT_MAX_LEVERAGE
  <1>2. \A key \in Users \cup {NoKey} : DefaultGlobalState(key) \in GlobalStates
    BY <1>1, SlotsAssumption DEF DefaultGlobalState, GlobalStates
  <1>3. DefaultRiskConfig \in RiskConfigs
    BY <1>1, AmountsAssumption DEF DefaultRiskConfig, RiskConfigs, BPS_DENOMINATOR,
       DEFAULT_MAINTENANCE_MARGIN_BPS, DEFAULT_LIQUIDATION_FEE_BPS,
       DEFAULT_LIQUIDATION_TARGET_MARGIN_BPS, DEFAULT_SHOCK_BPS
  <1>4. QED
    BY <1>2, <1>3

LEMMA InitTyped == Init => TypeOK
  BY DefaultsTyped, SlotsAssumption, AmountsAssumption DEF Init, TypeOK, IncentivesConfigs, Books

-----------------------------------------------------------------------------
(* Type correctness, action by action *)

LEMMA InitializeProtocolTyped ==
    ASSUME TypeOK, NEW user \in Users, InitializeProtocol(user)
    PROVE  TypeOK'
  BY DefaultsTyped DEF InitializeProtocol, TypeOK, Books, lamports

LEMMA InitializePositionsTyped ==
    ASSUME TypeOK, NEW user \in Users, InitializePositions(user)
    PROVE  TypeOK'
  BY DEF InitializePositions, TypeOK, GlobalStates, Books, lamports

LEMMA RefreshOraclePriceTyped ==
    ASSUME TypeOK, NEW feed \in PythFeeds, RefreshOraclePrice(feed)
    PROVE  TypeOK'
  <1>1. StoredPrice(feed) \in Nat
    BY FeedsAssumption, AmountsAssumption DEF StoredPrice
  <1>2. globalState' \in GlobalStates
    BY <1>1 DEF RefreshOraclePrice, TypeOK, GlobalStates
  <1>3. QED
    BY <1>2 DEF RefreshOraclePrice, TypeOK, lamports

LEMMA InitializeIncentivesTyped ==
    ASSUME TypeOK, NEW user \in Users, NEW reward \in RewardChoices,
           NEW interval \in IntervalChoices, NEW enabled \in BOOLEAN,
           InitializeIncentives(user, reward, interval, enabled)
    PROVE  TypeOK'
  BY ArgumentsAssumption DEF InitializeIncentives, TypeOK, IncentivesConfigs, lamports

LEMMA UpdateIncentivesTyped ==
    ASSUME TypeOK, NEW user \in Users, NEW reward \in RewardChoices \cup {None},
           NEW interval \in IntervalChoices \cup {None},
           NEW enabled \in BOOLEAN \cup {None},
           UpdateIncentives(user, reward, interval, enabled)
    PROVE  TypeOK'
  BY ArgumentsAssumption DEF UpdateIncentives, Updated, TypeOK, IncentivesConfigs, lamports

LEMMA FundRewardVaultTyped ==
    ASSUME TypeOK, NEW user \in Users, NEW amount \in FundingChoices,
           FundRewardVault(user, amount)
    PROVE  TypeOK'
  BY ArgumentsAssumption DEF FundRewardVault, TypeOK

\* An Option argument that is in range leaves the field in range.
LEMMA UpdatedInRange ==
    ASSUME NEW Range, NEW option, NEW current \in Range, option # None => option \in Range
    PROVE  Updated(option, current) \in Range
  BY DEF Updated

LEMMA UpdateRiskParamsTyped ==
    ASSUME TypeOK, NEW user \in Users, NEW u \in RiskUpdates, UpdateRiskParams(user, u)
    PROVE  TypeOK'
  <1> DEFINE leverage == Updated(u.max_leverage, riskConfig.max_leverage)
             maintenance == Updated(u.maintenance_margin_bps,
                                    riskConfig.maintenance_margin_bps)
             target == Updated(u.liquidation_target_margin_bps,
                               riskConfig.liquidation_target_margin_bps)
             threshold == Updated(u.circuit_breaker_threshold,
                                  riskConfig.circuit_breaker_threshold)
  <1>1. /\ riskConfig.max_leverage \in 1..(100 * SCALE)
        /\ riskConfig.maintenance_margin_bps \in 1..BPS_DENOMINATOR
        /\ riskConfig.liquidation_target_margin_bps \in 1..BPS_DENOMINATOR
        /\ riskConfig.circuit_breaker_threshold \in 0..RISK_SCORE_MAX
    BY DEF TypeOK, RiskConfigs
  <1>2. /\ u.max_leverage \in Nat \cup {None}
        /\ u.governance_timelock_slots \in Nat \cup {None}
        /\ u.circuit_breaker_threshold \in Nat \cup {None}
    BY ArgumentsAssumption DEF RiskUpdates
  <1>3. ValidUpdate(u)
    BY DEF UpdateRiskParams
  <1>4. leverage \in 1..(100 * SCALE)
    BY <1>1, <1>3, UpdatedInRange DEF ValidUpdate
  <1>5. maintenance \in 1..BPS_DENOMINATOR
    BY <1>1, <1>3, UpdatedInRange DEF ValidUpdate
  <1>6. target \in 1..BPS_DENOMINATOR
    <2>2. u.liquidation_target_margin_bps # None =>
            u.liquidation_target_margin_bps \in maintenance..BPS_DENOMINATOR
      BY <1>3 DEF ValidUpdate
    <2> HIDE DEF maintenance
    <2>1. \A n \in maintenance..BPS_DENOMINATOR : n \in 1..BPS_DENOMINATOR
      BY <1>5, DenominatorNat
    <2>3. QED
      BY <1>1, <2>1, <2>2, UpdatedInRange
  <1>7. threshold \in 0..RISK_SCORE_MAX
    <2>1. u.circuit_breaker_threshold # None =>
            u.circuit_breaker_threshold \in 0..RISK_SCORE_MAX
      BY <1>2, <1>3 DEF ValidUpdate, Updated
    <2>2. QED
      BY <1>1, <2>1, UpdatedInRange
  <1>8. riskConfig' \in RiskConfigs
    <2>1. riskConfig' = [riskConfig EXCEPT !.max_leverage = leverage,
                                           !.maintenance_margin_bps = maintenance,
                                           !.liquidation_target_margin_bps = target,
                                           !.circuit_breaker_threshold = threshold]
      BY DEF UpdateRiskParams
    <2> HIDE DEF leverage, maintenance, target, threshold
    <2>2. QED
      BY <2>1, <1>4, <1>5, <1>6, <1>7 DEF TypeOK, RiskConfigs
  <1>9. globalState' \in GlobalStates
    <2> DEFINE timelock == Updated(u.governance_timelock_slots,
                                   globalState.governance_timelock_slots)
               cut == IF u.reset_circuit_breaker THEN DEFAULT_MAX_LEVERAGE
                      ELSE Updated(u.max_leverage, globalState.max_leverage)
               active == globalState.circuit_breaker_active /\ ~ u.reset_circuit_breaker
               updateSlot == IF ChangesParams(u) THEN slot
                             ELSE globalState.last_risk_update_slot
               score == IF u.reset_circuit_breaker THEN 0 ELSE globalState.last_risk_score
               fund == IF u.reset_circuit_breaker THEN DEFAULT_INSURANCE_FUND
                       ELSE globalState.insurance_fund
    <2>1. timelock \in Nat \ {0}
      <3>1. u.governance_timelock_slots # None => u.governance_timelock_slots \in Nat \ {0}
        BY <1>2, <1>3 DEF ValidUpdate, Updated
      <3>2. QED
        BY <3>1, UpdatedInRange DEF TypeOK, GlobalStates
    <2>2. cut \in Nat
      <3>1. globalState.max_leverage \in Nat
        BY DEF TypeOK, GlobalStates
      <3>2. Updated(u.max_leverage, globalState.max_leverage) \in Nat
        BY <1>2, <3>1 DEF Updated
      <3>3. DEFAULT_MAX_LEVERAGE \in Nat
        BY AmountsAssumption DEF DEFAULT_MAX_LEVERAGE
      <3>4. QED
        BY <3>2, <3>3
    <2>3. /\ active \in BOOLEAN
          /\ updateSlot \in Nat
          /\ score \in Nat
          /\ fund \in Nat
      <3>1. /\ globalState.circuit_breaker_active \in BOOLEAN
            /\ globalState.last_risk_update_slot \in Nat
            /\ globalState.last_risk_score \in Nat
            /\ globalState.insurance_fund \in Nat
            /\ slot \in Nat
        BY SlotsAssumption DEF TypeOK, GlobalStates
      <3>2. DEFAULT_INSURANCE_FUND \in Nat
        BY AmountsAssumption DEF DEFAULT_INSURANCE_FUND
      <3>3. QED
        BY <3>1, <3>2
    <2>4. globalState' = [globalState EXCEPT !.last_risk_update_slot = updateSlot,
                                             !.governance_timelock_slots = timelock,
                                             !.max_leverage = cut,
                                             !.circuit_breaker_active = active,
                                             !.last_risk_score = score,
                                             !.insurance_fund = fund]
      BY DEF UpdateRiskParams
    <2> HIDE DEF timelock, cut, active, updateSlot, score, fund
    <2>5. QED
      BY <2>1, <2>2, <2>3, <2>4 DEF TypeOK, GlobalStates
  <1>10. history' \in [panicSlot : Nat, paidSlot : Nat, paramSlot : Nat]
    BY SlotsAssumption DEF UpdateRiskParams, TypeOK
  <1>11. QED
    BY <1>8, <1>9, <1>10 DEF UpdateRiskParams, TypeOK, lamports

LEMMA AdvanceSlotTyped ==
    ASSUME TypeOK, AdvanceSlot
    PROVE  TypeOK'
  BY SlotsAssumption DEF AdvanceSlot, TypeOK, lamports

\* A submission that succeeds, taken apart.
LEMMA SubmitProofEffect ==
    ASSUME NEW user \in Users, NEW withIncentives \in BOOLEAN,
           SubmitProof(user, withIncentives)
    PROVE  /\ Exists("global_state")
           /\ ProofAgeAccepted
           /\ \E snap \in Snapshots, score \in Nat :
                /\ BoundToState(PublicValues(snap, score))
                /\ ShockRecomputed(PublicValues(snap, score))
                /\ Verified(PublicValues(snap, score), snap)
                /\ RecordProof(PublicValues(snap, score))
                /\ history' = [history EXCEPT
                                 !.panicSlot = IF Panics(PublicValues(snap, score))
                                               THEN slot ELSE @,
                                 !.paidSlot = IF Pays(withIncentives) THEN slot ELSE @]
           /\ rewardVault' = rewardVault - Reward(withIncentives)
           /\ wallets' = [wallets EXCEPT ![user] = @ + Reward(withIncentives)]
           /\ UNCHANGED <<slot, accounts, riskConfig, positionBook, incentivesConfig>>
  <1>1. \A snap \in Snapshots : {StressScore(snap), 0, RISK_SCORE_MAX} \subseteq Nat
    BY ScoresAssumption, AmountsAssumption
  <1>2. QED
    BY <1>1 DEF SubmitProof

LEMMA SubmitProofTyped ==
    ASSUME TypeOK, NEW user \in Users, NEW withIncentives \in BOOLEAN,
           SubmitProof(user, withIncentives)
    PROVE  TypeOK'
  <1>1. PICK snap \in Snapshots, score \in Nat :
          /\ RecordProof(PublicValues(snap, score))
          /\ history' = [history EXCEPT
                           !.panicSlot = IF Panics(PublicValues(snap, score))
                                         THEN slot ELSE @,
                           !.paidSlot = IF Pays(withIncentives) THEN slot ELSE @]
    BY SubmitProofEffect
  <1> DEFINE pv == PublicValues(snap, score)
             activation == IF Panics(pv) THEN slot
                           ELSE globalState.circuit_breaker_activation_slot
             active == globalState.circuit_breaker_active \/ Panics(pv)
             leverage == IF Panics(pv)
                         THEN (globalState.max_leverage * CB_LEVERAGE_REDUCTION_BPS)
                                \div BPS_DENOMINATOR
                         ELSE globalState.max_leverage
  <1>2. slot \in Nat
    BY SlotsAssumption DEF TypeOK
  <1>3. pv.risk_score \in Nat
    BY DEF PublicValues
  <1>4. active \in BOOLEAN
    BY DEF TypeOK, GlobalStates
  <1>5. activation \in Nat
    BY <1>2 DEF TypeOK, GlobalStates
  <1>6. leverage \in Nat
    <2>1. globalState.max_leverage \in Nat
      BY DEF TypeOK, GlobalStates
    <2>2. (globalState.max_leverage * CB_LEVERAGE_REDUCTION_BPS) \div BPS_DENOMINATOR \in Nat
      BY <2>1 DEF CB_LEVERAGE_REDUCTION_BPS, BPS_DENOMINATOR
    <2>3. QED
      BY <2>1, <2>2
  <1>7. StateHash(positionBook) \in {StateHash(book) : book \in Books}
    BY DEF TypeOK
  <1>8. globalState' \in GlobalStates
    <2>1. globalState' = [globalState EXCEPT !.last_proof_slot = slot,
                                             !.last_state_hash = StateHash(positionBook),
                                             !.last_risk_score = pv.risk_score,
                                             !.circuit_breaker_active = active,
                                             !.circuit_breaker_activation_slot = activation,
                                             !.max_leverage = leverage]
      BY <1>1 DEF RecordProof
    <2> HIDE DEF pv, active, activation, leverage
    <2>2. QED
      BY <2>1, <1>2, <1>3, <1>4, <1>5, <1>6, <1>7 DEF TypeOK, GlobalStates
  <1>9. Reward(withIncentives) \in Nat /\ Reward(withIncentives) <= rewardVault
    BY DEF Reward, Pays, PayoutDue, TypeOK, IncentivesConfigs
  <1>10. rewardVault' \in Nat /\ wallets' \in [Users -> Nat]
    <2> DEFINE reward == Reward(withIncentives)
    <2>1. /\ rewardVault' = rewardVault - reward
          /\ wallets' = [wallets EXCEPT ![user] = @ + reward]
      BY SubmitProofEffect
    <2>2. reward \in Nat /\ reward <= rewardVault
      BY <1>9
    <2> HIDE DEF reward
    <2>3. rewardVault \in Nat /\ wallets \in [Users -> Nat]
      BY DEF TypeOK
    <2>4. QED
      BY <2>1, <2>2, <2>3
  <1>11. history' \in [panicSlot : Nat, paidSlot : Nat, paramSlot : Nat]
    BY <1>1, <1>2 DEF TypeOK
  <1>12. QED
    BY <1>8, <1>10, <1>11, SubmitProofEffect DEF TypeOK

LEMMA StepTyped ==
    ASSUME TypeOK, [Next]_vars
    PROVE  TypeOK'
  <1>1. CASE AdvanceSlot
    BY <1>1, AdvanceSlotTyped
  <1>2. CASE \E feed \in PythFeeds : RefreshOraclePrice(feed)
    BY <1>2, RefreshOraclePriceTyped
  <1>3. ASSUME NEW user \in Users, InitializeProtocol(user) \/ InitializePositions(user)
        PROVE  TypeOK'
    BY <1>3, InitializeProtocolTyped, InitializePositionsTyped
  <1>4. ASSUME NEW user \in Users, NEW reward \in RewardChoices,
               NEW interval \in IntervalChoices, NEW enabled \in BOOLEAN,
               InitializeIncentives(user, reward, interval, enabled)
        PROVE  TypeOK'
    BY <1>4, InitializeIncentivesTyped
  <1>5. ASSUME NEW user \in Users, NEW reward \in RewardChoices \cup {None},
               NEW interval \in IntervalChoices \cup {None},
               NEW enabled \in BOOLEAN \cup {None},
               UpdateIncentives(user, reward, interval, enabled)
        PROVE  TypeOK'
    BY <1>5, UpdateIncentivesTyped
  <1>6. ASSUME NEW user \in Users, NEW amount \in FundingChoices,
               FundRewardVault(user, amount)
        PROVE  TypeOK'
    BY <1>6, FundRewardVaultTyped
  <1>7. ASSUME NEW user \in Users, NEW withIncentives \in BOOLEAN,
               SubmitProof(user, withIncentives)
        PROVE  TypeOK'
    BY <1>7, SubmitProofTyped
  <1>8. ASSUME NEW user \in Users, NEW u \in RiskUpdates, UpdateRiskParams(user, u)
        PROVE  TypeOK'
    BY <1>8, UpdateRiskParamsTyped
  <1>9. CASE UNCHANGED vars
    BY <1>9 DEF vars, lamports, TypeOK
  <1>10. QED
    BY <1>1, <1>2, <1>3, <1>4, <1>5, <1>6, <1>7, <1>8, <1>9 DEF Next

\* Every reachable state is well typed: among others the vault is never overdrawn,
\* and the margins and the threshold stay where update_risk_params checks them.
THEOREM TypeCorrect == Spec => []TypeOK
  <1>1. Init => TypeOK
    BY InitTyped
  <1>2. TypeOK /\ [Next]_vars => TypeOK'
    BY StepTyped
  <1>3. QED
    BY <1>1, <1>2, PTL DEF Spec

-----------------------------------------------------------------------------
(* The inductive invariant: the slots kept on chain tell the true history, so  *)
(* a guard on them is a guard on the events themselves.                        *)

IInv == TypeOK /\ SlotsConsistent /\ HaltHeldForTimelock

\* The slots as numbers.
LEMMA SlotsAreNumbers ==
    ASSUME TypeOK
    PROVE  /\ slot \in Nat
           /\ globalState.last_proof_slot \in Nat
           /\ globalState.circuit_breaker_activation_slot \in Nat
           /\ globalState.last_risk_update_slot \in Nat
           /\ globalState.governance_timelock_slots \in Nat
           /\ history.panicSlot \in Nat
           /\ history.paidSlot \in Nat
           /\ history.paramSlot \in Nat
           /\ incentivesConfig.min_proof_interval_slots \in Nat
           /\ incentivesConfig.reward_lamports \in Nat
  BY SlotsAssumption DEF TypeOK, GlobalStates, IncentivesConfigs

\* Steps that leave the clock and every slot the invariant speaks of alone.
LEMMA QuietStep ==
    ASSUME SlotsConsistent, HaltHeldForTimelock,
           UNCHANGED <<slot, history>>,
           globalState'.circuit_breaker_activation_slot
             = globalState.circuit_breaker_activation_slot,
           globalState'.last_proof_slot = globalState.last_proof_slot,
           globalState'.last_risk_update_slot = globalState.last_risk_update_slot,
           globalState'.circuit_breaker_active = globalState.circuit_breaker_active,
           Exists("global_state")' \/ (~ Exists("global_state") /\ UNCHANGED globalState)
    PROVE  SlotsConsistent' /\ HaltHeldForTimelock'
  BY DEF SlotsConsistent, HaltHeldForTimelock

LEMMA InitInv == Init => IInv
  <1> SUFFICES ASSUME Init PROVE IInv
    OBVIOUS
  <1>1. TypeOK
    BY InitTyped
  <1>2. SlotsConsistent
    BY SlotsAssumption DEF Init, SlotsConsistent, DefaultGlobalState
  <1>3. HaltHeldForTimelock
    BY DEF Init, HaltHeldForTimelock
  <1>4. QED
    BY <1>1, <1>2, <1>3 DEF IInv

LEMMA AdvanceSlotInv ==
    ASSUME IInv, AdvanceSlot
    PROVE  SlotsConsistent' /\ HaltHeldForTimelock'
  BY SlotsAreNumbers, SlotsAssumption
     DEF IInv, AdvanceSlot, SlotsConsistent, HaltHeldForTimelock, Exists

LEMMA InitializeProtocolInv ==
    ASSUME IInv, NEW user \in Users, InitializeProtocol(user)
    PROVE  SlotsConsistent' /\ HaltHeldForTimelock'
  <1>1. globalState = DefaultGlobalState(NoKey)
    BY DEF IInv, SlotsConsistent, InitializeProtocol
  <1>2. /\ globalState' = DefaultGlobalState(user)
        /\ UNCHANGED <<slot, history>>
        /\ Exists("global_state")'
    BY DEF InitializeProtocol, Exists
  <1>3. QED
    BY <1>1, <1>2, QuietStep DEF IInv, DefaultGlobalState

LEMMA InitializePositionsInv ==
    ASSUME IInv, NEW user \in Users, InitializePositions(user)
    PROVE  SlotsConsistent' /\ HaltHeldForTimelock'
  BY QuietStep DEF IInv, TypeOK, GlobalStates, InitializePositions, Exists

LEMMA RefreshOraclePriceInv ==
    ASSUME IInv, NEW feed \in PythFeeds, RefreshOraclePrice(feed)
    PROVE  SlotsConsistent' /\ HaltHeldForTimelock'
  BY QuietStep DEF IInv, TypeOK, GlobalStates, RefreshOraclePrice, Exists

\* The calls about incentives and the steps that change nothing at all.
LEMMA ElsewhereInv ==
    ASSUME IInv, UNCHANGED <<slot, globalState, history>>, accounts \subseteq accounts'
    PROVE  SlotsConsistent' /\ HaltHeldForTimelock'
  BY QuietStep DEF IInv, Exists

LEMMA SubmitProofInv ==
    ASSUME IInv, NEW user \in Users, NEW withIncentives \in BOOLEAN,
           SubmitProof(user, withIncentives)
    PROVE  SlotsConsistent' /\ HaltHeldForTimelock'
  <1>1. PICK snap \in Snapshots, score \in Nat :
          /\ RecordProof(PublicValues(snap, score))
          /\ history' = [history EXCEPT
                           !.panicSlot = IF Panics(PublicValues(snap, score))
                                         THEN slot ELSE @,
                           !.paidSlot = IF Pays(withIncentives) THEN slot ELSE @]
    BY SubmitProofEffect
  <1> DEFINE trips == Panics(PublicValues(snap, score))
  <1>2. /\ globalState'.last_proof_slot = slot
        /\ globalState'.circuit_breaker_activation_slot =
             IF trips THEN slot ELSE globalState.circuit_breaker_activation_slot
        /\ globalState'.circuit_breaker_active =
             (globalState.circuit_breaker_active \/ trips)
        /\ globalState'.last_risk_update_slot = globalState.last_risk_update_slot
    BY <1>1 DEF RecordProof, IInv, TypeOK, GlobalStates
  <1>3. /\ history'.panicSlot = IF trips THEN slot ELSE history.panicSlot
        /\ history'.paidSlot = IF Pays(withIncentives) THEN slot ELSE history.paidSlot
        /\ history'.paramSlot = history.paramSlot
    BY <1>1 DEF IInv, TypeOK
  <1>4. slot' = slot /\ Exists("global_state")'
    BY SubmitProofEffect DEF Exists
  <1> HIDE DEF trips
  <1>5. SlotsConsistent'
    BY <1>2, <1>3, <1>4, SlotsAreNumbers DEF IInv, SlotsConsistent
  <1>6. HaltHeldForTimelock'
    BY <1>2, <1>3, <1>4, SlotsAreNumbers DEF IInv, HaltHeldForTimelock
  <1>7. QED
    BY <1>5, <1>6

\* A call that gives no parameter changes none, whatever it resets.
LEMMA UnchangedParams ==
    ASSUME TypeOK, NEW user \in Users, NEW u \in RiskUpdates, UpdateRiskParams(user, u),
           history'.paramSlot # history.paramSlot
    PROVE  ChangesParams(u)
  <1> SUFFICES ASSUME ~ ChangesParams(u) PROVE FALSE
    OBVIOUS
  <1>1. riskConfig' = riskConfig
    BY DEF UpdateRiskParams, ChangesParams, Updated, TypeOK, RiskConfigs
  <1>2. globalState'.governance_timelock_slots = globalState.governance_timelock_slots
    BY DEF UpdateRiskParams, ChangesParams, Updated, TypeOK, GlobalStates
  <1>3. QED
    BY <1>1, <1>2 DEF UpdateRiskParams, TypeOK

LEMMA UpdateRiskParamsInv ==
    ASSUME IInv, NEW user \in Users, NEW u \in RiskUpdates, UpdateRiskParams(user, u)
    PROVE  SlotsConsistent' /\ HaltHeldForTimelock'
  <1>1. /\ globalState'.last_proof_slot = globalState.last_proof_slot
        /\ globalState'.circuit_breaker_activation_slot
             = globalState.circuit_breaker_activation_slot
        /\ globalState'.circuit_breaker_active =
             (globalState.circuit_breaker_active /\ ~ u.reset_circuit_breaker)
        /\ globalState'.last_risk_update_slot =
             IF ChangesParams(u) THEN slot ELSE globalState.last_risk_update_slot
    BY DEF UpdateRiskParams, IInv, TypeOK, GlobalStates
  <1>2. /\ slot' = slot
        /\ history'.panicSlot = history.panicSlot
        /\ history'.paidSlot = history.paidSlot
        /\ Exists("global_state")'
    BY DEF UpdateRiskParams, IInv, TypeOK, Exists
  <1>3. history'.paramSlot = history.paramSlot
        \/ (ChangesParams(u) /\ history'.paramSlot = slot)
    BY UnchangedParams DEF UpdateRiskParams, IInv, TypeOK
  <1>4. SlotsConsistent'
    BY <1>1, <1>2, <1>3, SlotsAreNumbers DEF IInv, SlotsConsistent
  <1>5. u.reset_circuit_breaker =>
          slot >= history.panicSlot + CB_RESET_TIMELOCK_SLOTS
    BY DEF UpdateRiskParams, ResetTimelockExpired, IInv, SlotsConsistent
  <1>6. HaltHeldForTimelock'
    <2>1. CASE u.reset_circuit_breaker
      <3>1. ~ (slot' < history'.panicSlot + CB_RESET_TIMELOCK_SLOTS)
        BY <2>1, <1>2, <1>5, SlotsAreNumbers, SlotsAssumption DEF IInv
      <3>2. QED
        BY <3>1 DEF HaltHeldForTimelock
    <2>2. CASE ~ u.reset_circuit_breaker
      <3>1. globalState'.circuit_breaker_active = globalState.circuit_breaker_active
        BY <2>2, <1>1 DEF IInv, TypeOK, GlobalStates
      <3>2. QED
        BY <3>1, <1>2 DEF IInv, HaltHeldForTimelock
    <2>3. QED
      BY <2>1, <2>2
  <1>7. QED
    BY <1>4, <1>6

LEMMA StepInv ==
    ASSUME IInv, [Next]_vars
    PROVE  IInv'
  <1>1. TypeOK'
    BY StepTyped DEF IInv
  <1>2. SlotsConsistent' /\ HaltHeldForTimelock'
    <2>1. CASE AdvanceSlot
      BY <2>1, AdvanceSlotInv
    <2>2. CASE \E feed \in PythFeeds : RefreshOraclePrice(feed)
      BY <2>2, RefreshOraclePriceInv
    <2>3. ASSUME NEW user \in Users, InitializeProtocol(user) \/ InitializePositions(user)
          PROVE  SlotsConsistent' /\ HaltHeldForTimelock'
      BY <2>3, InitializeProtocolInv, InitializePositionsInv
    <2>4. ASSUME NEW user \in Users, NEW reward, NEW interval, NEW enabled,
                 \/ InitializeIncentives(user, reward, interval, enabled)
                 \/ UpdateIncentives(user, reward, interval, enabled)
                 \/ FundRewardVault(user, reward)
          PROVE  SlotsConsistent' /\ HaltHeldForTimelock'
      BY <2>4, ElsewhereInv DEF InitializeIncentives, UpdateIncentives, FundRewardVault
    <2>5. ASSUME NEW user \in Users, NEW withIncentives \in BOOLEAN,
                 SubmitProof(user, withIncentives)
          PROVE  SlotsConsistent' /\ HaltHeldForTimelock'
      BY <2>5, SubmitProofInv
    <2>6. ASSUME NEW user \in Users, NEW u \in RiskUpdates, UpdateRiskParams(user, u)
          PROVE  SlotsConsistent' /\ HaltHeldForTimelock'
      BY <2>6, UpdateRiskParamsInv
    <2>7. CASE UNCHANGED vars
      BY <2>7, ElsewhereInv DEF vars
    <2>8. QED
      BY <2>1, <2>2, <2>3, <2>4, <2>5, <2>6, <2>7 DEF Next
  <1>3. QED
    BY <1>1, <1>2 DEF IInv

LEMMA Invariance == Spec => []IInv
  <1>1. IInv /\ [Next]_vars => IInv'
    BY StepInv
  <1>2. QED
    BY InitInv, <1>1, PTL DEF Spec

\* The program's slots are consistent with each other, the clock and the history.
THEOREM SlotsAlwaysConsistent == Spec => []SlotsConsistent
  <1>1. IInv => SlotsConsistent
    BY DEF IInv
  <1>2. QED
    BY <1>1, Invariance, PTL

\* SECURITY.md:42, for every timelock, every interval between proofs and every
\* sequence of calls: a breaker that has tripped stays active for the timelock.
THEOREM HaltIsHeld == Spec => []HaltHeldForTimelock
  <1>1. IInv => HaltHeldForTimelock
    BY DEF IInv
  <1>2. QED
    BY <1>1, Invariance, PTL

-----------------------------------------------------------------------------
(* Action properties *)

\* A step that moves a slot the history keeps is the call it is about.
LEMMA WhoMovesSlots ==
    ASSUME IInv, [Next]_vars
    PROVE  \/ \E user \in Users, withIncentives \in BOOLEAN :
                SubmitProof(user, withIncentives)
           \/ \E user \in Users, u \in RiskUpdates : UpdateRiskParams(user, u)
           \/ /\ globalState'.last_proof_slot = globalState.last_proof_slot
              /\ globalState'.circuit_breaker_active = globalState.circuit_breaker_active
              /\ history' = history
              /\ AdvanceSlot \/ slot' = slot
              /\ rewardVault' >= rewardVault
  <1> DEFINE quiet ==
        /\ globalState'.last_proof_slot = globalState.last_proof_slot
        /\ globalState'.circuit_breaker_active = globalState.circuit_breaker_active
        /\ history' = history
        /\ AdvanceSlot \/ slot' = slot
        /\ rewardVault' >= rewardVault
  <1>1. slot \in Nat /\ rewardVault \in Nat
    BY SlotsAssumption DEF IInv, TypeOK
  <1>2. CASE AdvanceSlot
    BY <1>1, <1>2 DEF AdvanceSlot, lamports
  <1>3. CASE \E feed \in PythFeeds : RefreshOraclePrice(feed)
    BY <1>1, <1>3 DEF RefreshOraclePrice, IInv, TypeOK, GlobalStates, lamports
  <1>4. ASSUME NEW user \in Users, InitializeProtocol(user)
        PROVE  quiet
    <2>1. globalState = DefaultGlobalState(NoKey)
      BY <1>4 DEF InitializeProtocol, IInv, SlotsConsistent
    <2>2. globalState' = DefaultGlobalState(user)
      BY <1>4 DEF InitializeProtocol
    <2>3. /\ globalState'.last_proof_slot = globalState.last_proof_slot
          /\ globalState'.circuit_breaker_active = globalState.circuit_breaker_active
      BY <2>1, <2>2 DEF DefaultGlobalState
    <2>4. QED
      BY <1>1, <1>4, <2>3 DEF InitializeProtocol, lamports
  <1>5. ASSUME NEW user \in Users, InitializePositions(user)
        PROVE  quiet
    BY <1>1, <1>5 DEF InitializePositions, IInv, TypeOK, GlobalStates, lamports
  <1>6. ASSUME NEW user \in Users, NEW reward, NEW interval, NEW enabled,
               \/ InitializeIncentives(user, reward, interval, enabled)
               \/ UpdateIncentives(user, reward, interval, enabled)
        PROVE  quiet
    BY <1>1, <1>6 DEF InitializeIncentives, UpdateIncentives, lamports
  <1>7. ASSUME NEW user \in Users, NEW amount \in FundingChoices,
               FundRewardVault(user, amount)
        PROVE  quiet
    BY <1>1, <1>7, ArgumentsAssumption DEF FundRewardVault
  <1>8. CASE UNCHANGED vars
    BY <1>1, <1>8 DEF vars, lamports
  <1> HIDE DEF quiet
  <1>9. \/ \E user \in Users, withIncentives \in BOOLEAN :
             SubmitProof(user, withIncentives)
        \/ \E user \in Users, u \in RiskUpdates : UpdateRiskParams(user, u)
        \/ quiet
    BY <1>2, <1>3, <1>4, <1>5, <1>6, <1>7, <1>8 DEF Next, quiet
  <1>10. QED
    BY <1>9 DEF quiet

\* What a change of the risk parameters leaves alone.
LEMMA UpdateLeaves ==
    ASSUME IInv, NEW user \in Users, NEW u \in RiskUpdates, UpdateRiskParams(user, u)
    PROVE  /\ globalState'.last_proof_slot = globalState.last_proof_slot
           /\ globalState'.circuit_breaker_active => globalState.circuit_breaker_active
           /\ slot' = slot
           /\ rewardVault' = rewardVault
  BY DEF UpdateRiskParams, IInv, TypeOK, GlobalStates, lamports

\* Two rewards are at least the interval apart, and a slot pays at most one.
THEOREM PayoutsAreSpaced == Spec => PayoutsSpaced
  <1>1. ASSUME IInv, [Next]_vars
        PROVE  [KeepsPayoutInterval]_vars
    <2>1. CASE \E user \in Users, withIncentives \in BOOLEAN :
                 SubmitProof(user, withIncentives)
      <3> SUFFICES ASSUME rewardVault' < rewardVault, history.paidSlot # 0
                   PROVE  /\ slot > history.paidSlot
                          /\ slot - history.paidSlot
                               >= incentivesConfig.min_proof_interval_slots
        BY DEF KeepsPayoutInterval
      <3>1. PICK user \in Users, withIncentives \in BOOLEAN :
              SubmitProof(user, withIncentives)
        BY <2>1
      <3>2. ProofAgeAccepted /\ rewardVault' = rewardVault - Reward(withIncentives)
        BY <1>1, <3>1, SubmitProofEffect
      <3>3. PayoutDue
        BY <1>1, <3>2 DEF Reward, Pays, IInv, TypeOK
      <3>4. 0 < history.paidSlot /\ history.paidSlot <= globalState.last_proof_slot
        BY <1>1, SlotsAreNumbers DEF IInv, SlotsConsistent
      <3>5. slot - globalState.last_proof_slot \in 1..MAX_PROOF_AGE_SLOTS
        BY <1>1, <3>2, <3>4, SlotsAreNumbers DEF ProofAgeAccepted, SlotsSinceLastProof, IInv
      <3>6. incentivesConfig.min_proof_interval_slots > 0 =>
              slot - globalState.last_proof_slot
                >= incentivesConfig.min_proof_interval_slots
        BY <3>3 DEF PayoutDue, SlotsSinceLastProof
      <3>7. QED
        BY <1>1, <3>4, <3>5, <3>6, SlotsAreNumbers DEF IInv
    <2>2. CASE \E user \in Users, u \in RiskUpdates : UpdateRiskParams(user, u)
      BY <1>1, <2>2, UpdateLeaves DEF KeepsPayoutInterval, IInv, TypeOK
    <2>3. CASE rewardVault' >= rewardVault
      BY <1>1, <2>3, StepTyped DEF KeepsPayoutInterval, IInv, TypeOK
    <2>4. QED
      BY <1>1, <2>1, <2>2, <2>3, WhoMovesSlots
  <1>2. QED
    BY <1>1, Invariance, PTL DEF Spec, PayoutsSpaced

\* Governance never changes the parameters twice within the timelock.
THEOREM ParamChangesAreSpaced == Spec => ParamChangesSpaced
  <1>1. ASSUME IInv, [Next]_vars
        PROVE  [KeepsGovernanceTimelock]_vars
    <2> SUFFICES ASSUME history'.paramSlot # history.paramSlot
                 PROVE  slot - history.paramSlot >= globalState.governance_timelock_slots
      BY DEF KeepsGovernanceTimelock
    <2>1. CASE \E user \in Users, withIncentives \in BOOLEAN :
                 SubmitProof(user, withIncentives)
      <3>1. PICK user \in Users, withIncentives \in BOOLEAN :
              SubmitProof(user, withIncentives)
        BY <2>1
      <3>2. history'.paramSlot = history.paramSlot
        BY <1>1, <3>1, SubmitProofEffect DEF IInv, TypeOK
      <3>3. QED
        BY <3>2
    <2>2. CASE \E user \in Users, u \in RiskUpdates : UpdateRiskParams(user, u)
      <3>1. PICK user \in Users, u \in RiskUpdates : UpdateRiskParams(user, u)
        BY <2>2
      <3>2. ChangesParams(u)
        BY <1>1, <3>1, UnchangedParams DEF IInv
      <3>3. slot >= globalState.last_risk_update_slot + globalState.governance_timelock_slots
        BY <3>1, <3>2 DEF UpdateRiskParams, GovernanceTimelockExpired
      <3>4. history.paramSlot <= globalState.last_risk_update_slot
        BY <1>1 DEF IInv, SlotsConsistent
      <3>5. QED
        BY <1>1, <3>3, <3>4, SlotsAreNumbers DEF IInv
    <2>3. QED
      BY <1>1, <2>1, <2>2, WhoMovesSlots
  <1>2. QED
    BY <1>1, Invariance, PTL DEF Spec, ParamChangesSpaced

\* Nothing anybody can call revives a chain of proofs that has lapsed.
THEOREM LapsesAreForGood == Spec => LapseIsPermanent
  <1>1. ASSUME IInv, [Next]_vars
        PROVE  [StaysLapsed]_vars
    <2> SUFFICES ASSUME Lapsed
                 PROVE  /\ Lapsed'
                        /\ globalState'.circuit_breaker_active =>
                             globalState.circuit_breaker_active
      BY DEF StaysLapsed
    <2>1. ~ ProofAgeAccepted
      BY <1>1, SlotsAreNumbers, SlotsAssumption
      DEF Lapsed, ProofAgeAccepted, SlotsSinceLastProof, IInv
    <2>2. ~ \E user \in Users, withIncentives \in BOOLEAN :
              SubmitProof(user, withIncentives)
      BY <1>1, <2>1, SubmitProofEffect
    <2>3. /\ globalState'.last_proof_slot = globalState.last_proof_slot
          /\ globalState'.circuit_breaker_active => globalState.circuit_breaker_active
          /\ slot' >= slot
      BY <1>1, <2>2, WhoMovesSlots, UpdateLeaves, SlotsAreNumbers DEF IInv, AdvanceSlot
    <2>4. slot' \in Nat /\ slot \in Nat /\ globalState.last_proof_slot \in Nat
      BY <1>1, StepTyped, SlotsAssumption, SlotsAreNumbers DEF IInv, TypeOK
    <2>5. QED
      BY <2>3, <2>4, SlotsAssumption DEF Lapsed, SlotsSinceLastProof
  <1>2. QED
    BY <1>1, Invariance, PTL DEF Spec, LapseIsPermanent

\* A governance timelock that overflows the addition can never be shortened again.
THEOREM FreezesAreForGood == Spec => FreezeIsPermanent
  <1>1. ASSUME IInv, [Next]_vars
        PROVE  [StaysFrozen]_vars
    <2> SUFFICES ASSUME Exists("global_state"), GovernanceFrozen
                 PROVE  GovernanceFrozen' /\ UNCHANGED riskConfig
      BY DEF StaysFrozen
    <2> DEFINE still ==
          /\ globalState'.last_risk_update_slot = globalState.last_risk_update_slot
          /\ globalState'.governance_timelock_slots = globalState.governance_timelock_slots
          /\ riskConfig' = riskConfig
    <2>1. ASSUME NEW user \in Users, NEW withIncentives \in BOOLEAN,
                 SubmitProof(user, withIncentives)
          PROVE  still
      <3>1. PICK snap \in Snapshots, score \in Nat :
              RecordProof(PublicValues(snap, score))
        BY <2>1, SubmitProofEffect
      <3>2. QED
        BY <1>1, <2>1, <3>1, SubmitProofEffect DEF RecordProof, IInv, TypeOK, GlobalStates
    <2>2. ASSUME NEW user \in Users, NEW u \in RiskUpdates, UpdateRiskParams(user, u)
          PROVE  still
      <3>1. ~ ChangesParams(u)
        BY <1>1, <2>2, SlotsAreNumbers, AmountsAssumption
           DEF UpdateRiskParams, GovernanceTimelockExpired, GovernanceFrozen, IInv
      <3>2. riskConfig' = riskConfig
        BY <1>1, <2>2, <3>1
           DEF UpdateRiskParams, ChangesParams, Updated, IInv, TypeOK, RiskConfigs
      <3>3. QED
        BY <1>1, <2>2, <3>1, <3>2
           DEF UpdateRiskParams, ChangesParams, Updated, IInv, TypeOK, GlobalStates
    <2>3. ASSUME \/ \E user \in Users : InitializePositions(user)
                 \/ \E feed \in PythFeeds : RefreshOraclePrice(feed)
          PROVE  still
      BY <1>1, <2>3 DEF InitializePositions, RefreshOraclePrice, IInv, TypeOK, GlobalStates
    <2>4. ASSUME NEW user \in Users
          PROVE  ~ InitializeProtocol(user)
      BY DEF InitializeProtocol
    <2>5. ASSUME globalState' = globalState, riskConfig' = riskConfig
          PROVE  still
      BY <2>5
    <2>6. ASSUME NEW user,
                 \/ \E reward, interval, enabled :
                      \/ InitializeIncentives(user, reward, interval, enabled)
                      \/ UpdateIncentives(user, reward, interval, enabled)
                 \/ \E amount : FundRewardVault(user, amount)
          PROVE  still
      BY <2>5, <2>6 DEF InitializeIncentives, UpdateIncentives, FundRewardVault
    <2>7. ASSUME AdvanceSlot \/ UNCHANGED vars
          PROVE  still
      BY <2>5, <2>7 DEF AdvanceSlot, vars
    <2> HIDE DEF still
    <2>8. still
      <3>1. CASE \E feed \in PythFeeds : RefreshOraclePrice(feed)
        BY <2>3, <3>1
      <3>2. ASSUME NEW user \in Users,
                   \/ InitializeProtocol(user)
                   \/ InitializePositions(user)
                   \/ \E reward \in RewardChoices, interval \in IntervalChoices,
                         enabled \in BOOLEAN :
                        InitializeIncentives(user, reward, interval, enabled)
                   \/ \E reward \in RewardChoices \cup {None},
                         interval \in IntervalChoices \cup {None},
                         enabled \in BOOLEAN \cup {None} :
                        UpdateIncentives(user, reward, interval, enabled)
                   \/ \E amount \in FundingChoices : FundRewardVault(user, amount)
                   \/ \E withIncentives \in BOOLEAN : SubmitProof(user, withIncentives)
                   \/ \E u \in RiskUpdates : UpdateRiskParams(user, u)
            PROVE  still
        BY <2>1, <2>2, <2>3, <2>4, <2>6, <3>2
      <3>3. QED
        BY <1>1, <2>7, <3>1, <3>2 DEF Next
    <2>9. QED
      BY <2>8 DEF still, GovernanceFrozen
  <1>2. QED
    BY <1>1, Invariance, PTL DEF Spec, FreezeIsPermanent

-----------------------------------------------------------------------------
(* Completeness *)

\* What the checks on the state itself, rather than on the proof, need: somebody
\* can sign, nobody has to approve, and the leverage can be halved.
Operable ==
    /\ Exists("global_state") => globalState.authority \in Users
    /\ riskConfig.require_admin_approval = FALSE
    /\ globalState.max_leverage <= 100 * SCALE

LEMMA HalvingShrinks ==
    ASSUME NEW leverage \in Nat
    PROVE  (leverage * CB_LEVERAGE_REDUCTION_BPS) \div BPS_DENOMINATOR <= leverage
  BY DEF CB_LEVERAGE_REDUCTION_BPS, BPS_DENOMINATOR

LEMMA OperableInit == Init => Operable
  BY AmountsAssumption
     DEF Init, Operable, Exists, DefaultGlobalState, DefaultRiskConfig, DEFAULT_MAX_LEVERAGE

LEMMA SubmitProofOperable ==
    ASSUME TypeOK, Operable, NEW user \in Users, NEW withIncentives \in BOOLEAN,
           SubmitProof(user, withIncentives)
    PROVE  Operable'
  <1>1. PICK snap \in Snapshots, score \in Nat : RecordProof(PublicValues(snap, score))
    BY SubmitProofEffect
  <1>2. accounts' = accounts /\ riskConfig' = riskConfig
    BY SubmitProofEffect
  <1> DEFINE halved == (globalState.max_leverage * CB_LEVERAGE_REDUCTION_BPS)
                         \div BPS_DENOMINATOR
  <1>3. /\ globalState'.authority = globalState.authority
        /\ globalState'.max_leverage \in {globalState.max_leverage, halved}
    BY <1>1 DEF RecordProof, TypeOK, GlobalStates
  <1>4. globalState.max_leverage \in Nat /\ halved \in Nat
    BY DEF TypeOK, GlobalStates, CB_LEVERAGE_REDUCTION_BPS, BPS_DENOMINATOR
  <1>5. halved <= globalState.max_leverage
    BY <1>4, HalvingShrinks
  <1> HIDE DEF halved
  <1>6. globalState'.max_leverage <= 100 * SCALE
    BY <1>3, <1>4, <1>5, AmountsAssumption DEF Operable
  <1>7. QED
    BY <1>2, <1>3, <1>6 DEF Operable, Exists

LEMMA UpdateRiskParamsOperable ==
    ASSUME TypeOK, Operable, NEW user \in Users, NEW u \in RiskUpdates,
           UpdateRiskParams(user, u)
    PROVE  Operable'
  <1> DEFINE leverage == IF u.reset_circuit_breaker THEN DEFAULT_MAX_LEVERAGE
                         ELSE Updated(u.max_leverage, globalState.max_leverage)
  <1>1. /\ accounts' = accounts
        /\ globalState'.authority = globalState.authority
        /\ globalState'.max_leverage = leverage
        /\ riskConfig'.require_admin_approval = riskConfig.require_admin_approval
    BY DEF UpdateRiskParams, TypeOK, GlobalStates, RiskConfigs
  <1>2. u.max_leverage # None => u.max_leverage \in 1..(100 * SCALE)
    BY DEF UpdateRiskParams, ValidUpdate
  <1>3. leverage <= 100 * SCALE
    BY <1>2, AmountsAssumption DEF Operable, Updated, DEFAULT_MAX_LEVERAGE
  <1>4. QED
    BY <1>1, <1>3 DEF Operable, Exists

LEMMA OperableStep ==
    ASSUME TypeOK, Operable, [Next]_vars
    PROVE  Operable'
  <1>1. ASSUME NEW user \in Users, InitializeProtocol(user)
        PROVE  Operable'
    BY <1>1, AmountsAssumption
       DEF InitializeProtocol, Operable, DefaultGlobalState, DefaultRiskConfig,
           DEFAULT_MAX_LEVERAGE
  <1>2. ASSUME \/ \E user \in Users : InitializePositions(user)
               \/ \E feed \in PythFeeds : RefreshOraclePrice(feed)
        PROVE  Operable'
    BY <1>2 DEF InitializePositions, RefreshOraclePrice, Operable, Exists, TypeOK, GlobalStates
  <1>3. ASSUME NEW user,
               \/ \E reward, interval, enabled :
                    \/ InitializeIncentives(user, reward, interval, enabled)
                    \/ UpdateIncentives(user, reward, interval, enabled)
               \/ \E amount : FundRewardVault(user, amount)
        PROVE  Operable'
    BY <1>3 DEF InitializeIncentives, UpdateIncentives, FundRewardVault, Operable, Exists
  <1>4. ASSUME AdvanceSlot \/ UNCHANGED vars
        PROVE  Operable'
    BY <1>4 DEF AdvanceSlot, vars, Operable, Exists
  <1>5. CASE \E feed \in PythFeeds : RefreshOraclePrice(feed)
    BY <1>2, <1>5
  <1>6. ASSUME NEW user \in Users,
               \/ InitializeProtocol(user)
               \/ InitializePositions(user)
               \/ \E reward \in RewardChoices, interval \in IntervalChoices,
                     enabled \in BOOLEAN :
                    InitializeIncentives(user, reward, interval, enabled)
               \/ \E reward \in RewardChoices \cup {None},
                     interval \in IntervalChoices \cup {None},
                     enabled \in BOOLEAN \cup {None} :
                    UpdateIncentives(user, reward, interval, enabled)
               \/ \E amount \in FundingChoices : FundRewardVault(user, amount)
               \/ \E withIncentives \in BOOLEAN : SubmitProof(user, withIncentives)
               \/ \E u \in RiskUpdates : UpdateRiskParams(user, u)
        PROVE  Operable'
    BY <1>1, <1>2, <1>3, <1>6, SubmitProofOperable, UpdateRiskParamsOperable
  <1>7. QED
    BY <1>4, <1>5, <1>6 DEF Next

LEMMA AlwaysOperable == Spec => []Operable
  <1>1. TypeOK /\ Operable /\ [Next]_vars => Operable'
    BY OperableStep
  <1>2. QED
    BY OperableInit, TypeCorrect, <1>1, PTL DEF Spec

\* The guest divides once, after the subtraction or the addition; the program
\* divides the shock and subtracts or adds it after.  They agree on every upward
\* shock and on exactly those downward ones that divide.
LEMMA RoundingsAgree ==
    ASSUME NEW price \in Nat, NEW bps \in 0..BPS_DENOMINATOR, NEW up \in BOOLEAN
    PROVE  /\ ApplyShockPrice(price, bps, up) \in Nat
           /\ GuestShockedPrice(price, bps, up) = ApplyShockPrice(price, bps, up)
                <=> up \/ (price * bps) % BPS_DENOMINATOR = 0
  <1> DEFINE shock == price * bps
  <1>1. bps \in Nat /\ bps <= BPS_DENOMINATOR
    BY DenominatorNat
  <1>2. shock \in Nat
    BY <1>1
  <1>3. /\ price * (BPS_DENOMINATOR + bps) = price * BPS_DENOMINATOR + shock
        /\ price * (BPS_DENOMINATOR - bps) = price * BPS_DENOMINATOR - shock
    BY <1>1, DenominatorNat
  <1>4. shock <= price * BPS_DENOMINATOR
    <2>1. price * (BPS_DENOMINATOR - bps) \in Nat
      BY <1>1, DenominatorNat
    <2>2. QED
      BY <1>2, <1>3, <2>1, DenominatorNat
  <1> HIDE DEF shock
  <1>5. shock \div 10000 \in Nat /\ shock \div 10000 <= price
    BY <1>2, <1>4 DEF BPS_DENOMINATOR
  <1>6. (price * 10000 + shock) \div 10000 = price + shock \div 10000
    BY <1>2
  <1>7. (price * 10000 - shock) \div 10000 = price - shock \div 10000 <=> shock % 10000 = 0
    BY <1>2
  <1>8. /\ GuestShockedPrice(price, bps, up) =
             IF up THEN (price * 10000 + shock) \div 10000
                   ELSE (price * 10000 - shock) \div 10000
        /\ ApplyShockPrice(price, bps, up) =
             IF up THEN price + shock \div 10000 ELSE price - shock \div 10000
    BY <1>1, <1>3, DenominatorNat
       DEF GuestShockedPrice, ApplyShockPrice, ShockAmount, shock, BPS_DENOMINATOR
  <1>9. (price * bps) % BPS_DENOMINATOR = shock % 10000
    BY DEF shock, BPS_DENOMINATOR
  <1>10. QED
    BY <1>5, <1>6, <1>7, <1>8, <1>9

\* docs/THREAT_MODEL_AND_FORMAL_SPECS.md:30, as far as it is true: until a lapse the
\* proof of the live state passes every check, unless the two roundings differ.
THEOREM CompletenessHolds == Spec => []CompleteUntilLapse
  <1>1. ASSUME IInv, Operable
        PROVE  CompleteUntilLapse
    <2> SUFFICES ASSUME Exists("global_state"), slot # globalState.last_proof_slot,
                        ~ Lapsed, NEW up \in BOOLEAN, ShockFits(up)
                 PROVE  LiveProofAccepted(up) <=> ShockExact(up)
      BY DEF CompleteUntilLapse
    <2> DEFINE pv == PublicValues(LiveSnapshot(up), LiveScore(up))
    <2>1. ProofAgeAccepted
      BY <1>1, SlotsAreNumbers, SlotsAssumption
      DEF Lapsed, ProofAgeAccepted, SlotsSinceLastProof, IInv, SlotsConsistent
    <2>2. /\ pv.pre_shock_price = globalState.oracle_price
          /\ pv.shock_bps = riskConfig.shock_magnitude_bps
          /\ pv.shock_direction_up = up
          /\ pv.post_shock_price = GuestShockedPrice(globalState.oracle_price,
                                                     riskConfig.shock_magnitude_bps, up)
      BY DEF PublicValues, LiveSnapshot
    <2>3. BoundToState(pv)
      BY DEF BoundToState, PublicValues, LiveSnapshot
    <2>4. ShockRecomputed(pv) <=> ShockExact(up)
      <3>1. /\ globalState.oracle_price \in Nat
            /\ riskConfig.shock_magnitude_bps \in 0..BPS_DENOMINATOR
        BY <1>1 DEF IInv, TypeOK, GlobalStates, RiskConfigs
      <3> DEFINE post == ApplyShockPrice(globalState.oracle_price,
                                         riskConfig.shock_magnitude_bps, up)
      <3>2. post \in 0..U64_MAX
        BY <3>1, RoundingsAgree, AmountsAssumption DEF ShockFits
      <3>3. ShockRecomputed(pv) <=> pv.post_shock_price = post
        BY <2>2, <3>2 DEF ShockRecomputed, ShockFits
      <3>4. QED
        BY <2>2, <3>1, <3>3, RoundingsAgree DEF ShockExact
    <2>5. \E admin \in Users : AdminApproves(admin)
      BY <1>1 DEF Operable, AdminApproves
    <2>6. Verified(pv, LiveSnapshot(up))
      BY DEF Verified, LiveScore
    <2>7. globalState.max_leverage * CB_LEVERAGE_REDUCTION_BPS <= U64_MAX
      BY <1>1, AmountsAssumption
         DEF IInv, Operable, TypeOK, GlobalStates, CB_LEVERAGE_REDUCTION_BPS
    <2>8. OracleAgrees(None, pv)
      BY DEF OracleAgrees
    <2> HIDE DEF pv
    <2>9. LiveProofAccepted(up) <=> ShockRecomputed(pv)
      BY <2>1, <2>3, <2>5, <2>6, <2>7, <2>8 DEF LiveProofAccepted, pv
    <2>10. QED
      BY <2>4, <2>9
  <1>2. QED
    BY <1>1, Invariance, AlwaysOperable, PTL

-----------------------------------------------------------------------------
(* The refinement of the abstract breaker, and the property it rests on: a    *)
(* score that reaches the chain is the live one.                              *)

\* A snapshot that is bound to the state is the snapshot of the live accounts.
LEMMA BoundSnapshotIsLive ==
    ASSUME NEW snap \in Snapshots, NEW score, BoundToState(PublicValues(snap, score))
    PROVE  /\ snap.shock_direction_up \in BOOLEAN
           /\ snap = LiveSnapshot(snap.shock_direction_up)
  <1>1. snap.book = positionBook
    BY DEF BoundToState, PublicValues, StateHash
  <1>2. QED
    BY <1>1 DEF BoundToState, PublicValues, Snapshots, LiveSnapshot

\* What a prover computes from a snapshot that is bound to the state is the live
\* score of one direction.
LEMMA BoundScoreIsLive ==
    ASSUME NEW snap \in Snapshots, BoundToState(PublicValues(snap, StressScore(snap)))
    PROVE  \E up \in BOOLEAN : StressScore(snap) = LiveScore(up)
  BY BoundSnapshotIsLive DEF LiveScore

\* With the real verifier the claimed score is the one the guest computes.
LEMMA VerifiedScoreIsComputed ==
    ASSUME ~ MOCK_VERIFY, NEW snap \in Snapshots, NEW score,
           Verified(PublicValues(snap, score), snap)
    PROVE  score = StressScore(snap)
  <1>1. PublicValues(snap, score) = PublicValues(snap, StressScore(snap))
    BY DEF Verified
  <1>2. QED
    BY <1>1 DEF PublicValues

\* Recording the public values the guest computes puts a live score on chain.
LEMMA ComputedIsAcceptedLive ==
    ASSUME IInv, NEW snap \in Snapshots,
           BoundToState(PublicValues(snap, StressScore(snap))),
           RecordProof(PublicValues(snap, StressScore(snap)))
    PROVE  AcceptsLiveScore
  <1>1. globalState'.last_risk_score = StressScore(snap)
    BY DEF RecordProof, PublicValues, IInv, TypeOK, GlobalStates
  <1>2. QED
    BY <1>1, BoundScoreIsLive DEF AcceptsLiveScore

\* Whatever snapshot a prover used, the score the chain records is the live one.
THEOREM AcceptedScoresAreLive ==
    ASSUME ~ MOCK_VERIFY
    PROVE  Spec => AcceptedScoreIsLive
  <1>1. ASSUME IInv, [Next]_vars
        PROVE  [AcceptsLiveScore]_vars
    <2>1. CASE \E user \in Users, withIncentives \in BOOLEAN :
                 SubmitProof(user, withIncentives)
      <3>1. PICK user \in Users, withIncentives \in BOOLEAN :
              SubmitProof(user, withIncentives)
        BY <2>1
      <3>2. PICK snap \in Snapshots, score \in Nat :
              /\ BoundToState(PublicValues(snap, score))
              /\ Verified(PublicValues(snap, score), snap)
              /\ RecordProof(PublicValues(snap, score))
        BY <3>1, SubmitProofEffect
      <3>3. score = StressScore(snap)
        BY <3>2, VerifiedScoreIsComputed
      <3>4. QED
        BY <1>1, <3>2, <3>3, ComputedIsAcceptedLive
    <2>2. CASE globalState'.last_proof_slot = globalState.last_proof_slot
      BY <2>2 DEF AcceptsLiveScore
    <2>3. QED
      BY <1>1, <2>1, <2>2, WhoMovesSlots, UpdateLeaves
  <1>2. QED
    BY <1>1, Invariance, PTL DEF Spec, AcceptedScoreIsLive

-----------------------------------------------------------------------------
(* The refinement *)

\* The program finds the shocked price of a proof of the live state exactly when the
\* two roundings of the live price agree.
LEMMA LiveShockAgreed ==
    ASSUME NEW up \in BOOLEAN, NEW score
    PROVE  ShockRecomputed(PublicValues(LiveSnapshot(up), score)) <=> ShockAgreed(up)
  <1> DEFINE pv == PublicValues(LiveSnapshot(up), score)
  <1>1. /\ pv.pre_shock_price = globalState.oracle_price
        /\ pv.shock_bps = riskConfig.shock_magnitude_bps
        /\ pv.shock_direction_up = up
        /\ pv.post_shock_price = GuestShockedPrice(globalState.oracle_price,
                                                   riskConfig.shock_magnitude_bps, up)
    BY DEF PublicValues, LiveSnapshot
  <1> HIDE DEF pv
  <1>2. ShockRecomputed(pv) <=> ShockAgreed(up)
    BY <1>1, Zenon DEF ShockRecomputed, ShockAgreed
  <1>3. QED
    BY <1>2 DEF pv

\* Danger, and whether it can be proved, only depend on what the guest reads.
LEMMA DangerUnchanged ==
    ASSUME UNCHANGED <<accounts, riskConfig, positionBook>>,
           globalState'.oracle_price = globalState.oracle_price,
           globalState'.insurance_fund = globalState.insurance_fund
    PROVE  Danger' = Danger /\ Provable' = Provable
  <1> DEFINE Over(up) == LiveScore(up) > riskConfig.circuit_breaker_threshold
  <1>1. ASSUME NEW up \in BOOLEAN
        PROVE  Over(up)' = Over(up) /\ ShockAgreed(up)' = ShockAgreed(up)
    <2>1. LiveSnapshot(up)' = LiveSnapshot(up)
      BY DEF LiveSnapshot
    <2>2. LiveScore(up)' = LiveScore(up)
      BY <2>1 DEF LiveScore
    <2>3. ShockAgreed(up)' = ShockAgreed(up)
      BY Zenon DEF ShockAgreed
    <2>4. QED
      BY <2>2, <2>3
  <1>2. /\ Danger <=> Exists("global_state") /\ \E up \in BOOLEAN : Over(up)
        /\ Provable <=> Exists("global_state") /\ \E up \in BOOLEAN : Over(up) /\ ShockAgreed(up)
    BY Zenon DEF Danger, Provable
  <1>3. /\ Danger' <=> Exists("global_state") /\ \E up \in BOOLEAN : Over(up)'
        /\ Provable' <=>
             Exists("global_state") /\ \E up \in BOOLEAN : Over(up)' /\ ShockAgreed(up)'
    BY Zenon DEF Danger, Provable, Exists
  <1> HIDE DEF Over
  <1>4. /\ Danger \in BOOLEAN /\ Danger' \in BOOLEAN
        /\ Provable \in BOOLEAN /\ Provable' \in BOOLEAN
    BY DEF Danger, Provable
  <1>5. QED
    BY <1>1, <1>2, <1>3, <1>4

\* Danger that can be proved is danger, whatever a step does to the state.
LEMMA LiveStateNext == Breaker!LiveState(Danger', Provable')
  <1>1. Danger' \in BOOLEAN /\ Provable' \in BOOLEAN
    BY DEF Danger, Provable
  <1>2. Provable' => Danger'
    BY Zenon DEF Danger, Provable
  <1>3. QED
    BY <1>1, <1>2 DEF Breaker!LiveState

LEMMA BreakerInit == Init => Breaker!Init
  <1> SUFFICES ASSUME Init PROVE Breaker!Init
    OBVIOUS
  <1>1. Danger = FALSE /\ Provable = FALSE
    BY DEF Init, Danger, Provable, Exists
  <1>2. /\ globalState.last_proof_slot = 0
        /\ globalState.circuit_breaker_active = FALSE
        /\ globalState.circuit_breaker_activation_slot = 0
    BY DEF Init, DefaultGlobalState
  <1>3. Proven = FALSE /\ ProofAge = 0
    BY <1>2 DEF Proven, ProofAge
  <1>4. slot \in Nat
    BY SlotsAssumption DEF Init
  <1>5. HaltAge \in 0..CB_RESET_TIMELOCK_SLOTS
    BY <1>2, <1>4, SlotsAssumption DEF HaltAge, ResetTimelockExpired
  <1>6. QED
    BY <1>1, <1>2, <1>3, <1>5 DEF Breaker!Init, Breaker!LiveState

\* The ages stand still when the slots they are counted from and the clock do.
LEMMA AgesUnchanged ==
    ASSUME slot' = slot,
           globalState'.last_proof_slot = globalState.last_proof_slot,
           globalState'.circuit_breaker_activation_slot
             = globalState.circuit_breaker_activation_slot
    PROVE  UNCHANGED <<Proven, ProofAge, HaltAge>>
  BY DEF Proven, ProofAge, HaltAge, SlotsSinceLastProof, ResetTimelockExpired

\* The clock ticks.
LEMMA AdvanceSlotRefines ==
    ASSUME IInv, AdvanceSlot
    PROVE  Breaker!Tick
  <1>1. slot' = slot + 1 /\ globalState' = globalState
    BY DEF AdvanceSlot
  <1>2. Danger' = Danger /\ Provable' = Provable
    BY DangerUnchanged DEF AdvanceSlot
  <1>3. Proven' = Proven
    BY <1>1 DEF Proven
  <1>4. slot \in Nat /\ globalState.last_proof_slot \in Nat
        /\ globalState.circuit_breaker_activation_slot \in Nat
        /\ globalState.last_proof_slot <= slot
        /\ globalState.circuit_breaker_activation_slot <= slot
    BY SlotsAreNumbers DEF IInv, SlotsConsistent
  <1>5. ProofAge' = IF Proven THEN Breaker!Cap(ProofAge + 1, Breaker!LapsedAge)
                    ELSE ProofAge
    BY <1>1, <1>3, <1>4, SlotsAssumption
    DEF ProofAge, SlotsSinceLastProof, Breaker!Cap, Breaker!LapsedAge
  <1>6. HaltAge' = Breaker!Cap(HaltAge + 1, CB_RESET_TIMELOCK_SLOTS)
    BY <1>1, <1>4, SlotsAssumption DEF HaltAge, ResetTimelockExpired, Breaker!Cap
  <1>7. QED
    BY <1>1, <1>2, <1>3, <1>5, <1>6 DEF Breaker!Tick

\* A proof the guest computed that is accepted is the breaker's, and trips it only
\* on live evidence.
LEMMA ComputedRefines ==
    ASSUME IInv, NEW snap \in Snapshots,
           BoundToState(PublicValues(snap, StressScore(snap))),
           ShockRecomputed(PublicValues(snap, StressScore(snap))),
           RecordProof(PublicValues(snap, StressScore(snap))),
           Exists("global_state"), ProofAgeAccepted,
           UNCHANGED <<slot, accounts, riskConfig, positionBook>>
    PROVE  \E trips \in BOOLEAN : Breaker!Accept(trips)
  <1> DEFINE score == StressScore(snap)
             trips == Panics(PublicValues(snap, score))
  <1>1. trips <=> score > riskConfig.circuit_breaker_threshold
    BY DEF Panics, PublicValues
  <1>2. /\ globalState'.last_proof_slot = slot
        /\ globalState'.circuit_breaker_active
             = (globalState.circuit_breaker_active \/ trips)
        /\ globalState'.circuit_breaker_activation_slot
             = IF trips THEN slot ELSE globalState.circuit_breaker_activation_slot
        /\ globalState'.oracle_price = globalState.oracle_price
        /\ globalState'.insurance_fund = globalState.insurance_fund
    BY DEF RecordProof, IInv, TypeOK, GlobalStates
  <1>3. trips => Provable
    BY <1>1, BoundSnapshotIsLive, LiveShockAgreed DEF Provable, LiveScore
  <1>4. trips \in BOOLEAN
    BY DEF Panics
  <1> HIDE DEF trips
  <1>5. Danger' = Danger /\ Provable' = Provable
    BY <1>2, DangerUnchanged
  <1>6. slot \in Nat \ {0}
    BY SlotsAssumption DEF IInv, TypeOK
  <1>7. Proven' = TRUE /\ ProofAge' = 0
    BY <1>2, <1>6, SlotsAssumption DEF Proven, ProofAge, SlotsSinceLastProof
  <1>8. Proven => ProofAge \in 1..MAX_PROOF_AGE_SLOTS
    BY SlotsAreNumbers, SlotsAssumption
    DEF Proven, ProofAge, ProofAgeAccepted, SlotsSinceLastProof, IInv
  <1>9. HaltAge' = IF trips THEN 0 ELSE HaltAge
    BY <1>2, <1>6, SlotsAssumption DEF HaltAge, ResetTimelockExpired
  <1>10. Breaker!Accept(trips)
    BY <1>2, <1>3, <1>5, <1>7, <1>8, <1>9 DEF Breaker!Accept, Breaker!MayAccept
  <1>11. QED
    BY <1>4, <1>10

\* So it is for every submission when the verifier is the real one.
LEMMA SubmitProofRefines ==
    ASSUME IInv, ~ MOCK_VERIFY, NEW user \in Users, NEW withIncentives \in BOOLEAN,
           SubmitProof(user, withIncentives)
    PROVE  \E trips \in BOOLEAN : Breaker!Accept(trips)
  <1>1. PICK snap \in Snapshots, score \in Nat :
          /\ BoundToState(PublicValues(snap, score))
          /\ ShockRecomputed(PublicValues(snap, score))
          /\ Verified(PublicValues(snap, score), snap)
          /\ RecordProof(PublicValues(snap, score))
    BY SubmitProofEffect
  <1>2. score = StressScore(snap)
    BY <1>1, VerifiedScoreIsComputed
  <1>3. /\ Exists("global_state")
        /\ ProofAgeAccepted
        /\ UNCHANGED <<slot, accounts, riskConfig, positionBook>>
    BY SubmitProofEffect
  <1>4. QED
    BY <1>1, <1>2, <1>3, ComputedRefines

\* A slot accepts one proof: every accepted one moves the slot of the last.
LEMMA SubmissionMovesSlot ==
    ASSUME IInv, NEW user \in Users, NEW withIncentives \in BOOLEAN,
           SubmitProof(user, withIncentives)
    PROVE  globalState'.last_proof_slot # globalState.last_proof_slot
  <1>1. globalState \in GlobalStates
    BY DEF IInv, TypeOK
  <1>2. PICK snap \in Snapshots, score \in Nat : RecordProof(PublicValues(snap, score))
    BY SubmitProofEffect
  <1>3. globalState'.last_proof_slot = slot /\ ProofAgeAccepted
    BY <1>1, <1>2, SubmitProofEffect DEF RecordProof, GlobalStates
  <1>4. slot \in Nat \ {0} /\ globalState.last_proof_slot \in Nat
    BY SlotsAreNumbers, SlotsAssumption DEF IInv, TypeOK
  <1>5. QED
    BY <1>3, <1>4, SlotsAssumption DEF ProofAgeAccepted, SlotsSinceLastProof

\* Governance may only reset a breaker whose timelock has run out.
LEMMA UpdateRiskParamsRefines ==
    ASSUME IInv, NEW user \in Users, NEW u \in RiskUpdates, UpdateRiskParams(user, u)
    PROVE  Breaker!Environment \/ Breaker!Reset
  <1>1. /\ slot' = slot
        /\ globalState'.last_proof_slot = globalState.last_proof_slot
        /\ globalState'.circuit_breaker_activation_slot
             = globalState.circuit_breaker_activation_slot
    BY DEF UpdateRiskParams, IInv, TypeOK, GlobalStates
  <1>2. UNCHANGED <<Proven, ProofAge, HaltAge>>
    BY <1>1, AgesUnchanged
  <1>3. Breaker!LiveState(Danger', Provable')
    BY LiveStateNext
  <1>4. CASE u.reset_circuit_breaker
    <2>1. HaltAge = CB_RESET_TIMELOCK_SLOTS
      BY <1>4 DEF UpdateRiskParams, HaltAge
    <2>2. globalState'.circuit_breaker_active = FALSE
      BY <1>4 DEF UpdateRiskParams, IInv, TypeOK, GlobalStates
    <2>3. QED
      BY <1>2, <1>3, <2>1, <2>2 DEF Breaker!Reset
  <1>5. CASE ~ u.reset_circuit_breaker
    <2>1. globalState'.circuit_breaker_active = globalState.circuit_breaker_active
      BY <1>5 DEF UpdateRiskParams, IInv, TypeOK, GlobalStates
    <2>2. QED
      BY <1>2, <1>3, <2>1 DEF Breaker!Environment
  <1>6. QED
    BY <1>4, <1>5

\* Whoever is asked to verify a proof, the other calls keep to the breaker.
LEMMA OthersRefine ==
    ASSUME IInv, [Next]_vars,
           ~ \E user \in Users, withIncentives \in BOOLEAN : SubmitProof(user, withIncentives)
    PROVE  Breaker!Next
  <1>1. CASE AdvanceSlot
    BY <1>1, AdvanceSlotRefines DEF Breaker!Next
  <1>2. CASE \E user \in Users, u \in RiskUpdates : UpdateRiskParams(user, u)
    BY <1>2, UpdateRiskParamsRefines DEF Breaker!Next
  <1>3. CASE /\ globalState'.last_proof_slot = globalState.last_proof_slot
             /\ globalState'.circuit_breaker_active = globalState.circuit_breaker_active
             /\ history' = history
             /\ slot' = slot
    <2>1. IInv'
      BY StepInv
    <2>2. globalState'.circuit_breaker_activation_slot
            = globalState.circuit_breaker_activation_slot
      BY <1>3, <2>1 DEF IInv, SlotsConsistent
    <2>3. UNCHANGED <<Proven, ProofAge, HaltAge>>
      BY <1>3, <2>2, AgesUnchanged
    <2>4. Breaker!LiveState(Danger', Provable')
      BY LiveStateNext
    <2>5. QED
      BY <1>3, <2>3, <2>4 DEF Breaker!Next, Breaker!Environment
  <1>4. QED
    BY <1>1, <1>2, <1>3, WhoMovesSlots

LEMMA StepRefines ==
    ASSUME IInv, ~ MOCK_VERIFY, [Next]_vars
    PROVE  Breaker!Next
  <1>1. CASE \E user \in Users, withIncentives \in BOOLEAN :
               SubmitProof(user, withIncentives)
    BY <1>1, SubmitProofRefines DEF Breaker!Next
  <1>2. QED
    BY <1>1, OthersRefine

\* The step of which the abstract breaker asks strong fairness is enabled exactly
\* when the program would let somebody trip the breaker.
THEOREM TripGuardIsExact == Spec => []TripGuardExact
  <1>1. ASSUME IInv, Operable
        PROVE  TripGuardExact
    <2> SUFFICES ASSUME Exists("global_state")
                 PROVE  Breaker!MayAccept(TRUE) <=> \E up \in BOOLEAN : LiveProofTrips(up)
      BY DEF TripGuardExact
    <2> DEFINE Over(up) == LiveScore(up) > riskConfig.circuit_breaker_threshold
               pv(up) == PublicValues(LiveSnapshot(up), LiveScore(up))
    <2>1. ProofAgeAccepted <=> (Proven => ProofAge \in 1..MAX_PROOF_AGE_SLOTS)
      BY <1>1, SlotsAreNumbers, SlotsAssumption
      DEF Proven, ProofAge, ProofAgeAccepted, SlotsSinceLastProof, IInv, SlotsConsistent
    <2>2. Breaker!MayAccept(TRUE) <=>
            ProofAgeAccepted /\ \E up \in BOOLEAN : Over(up) /\ ShockAgreed(up)
      BY <2>1, Zenon DEF Breaker!MayAccept, Provable
    <2>3. ASSUME NEW up \in BOOLEAN
          PROVE  LiveProofAccepted(up) <=> ProofAgeAccepted /\ ShockAgreed(up)
      <3>1. BoundToState(pv(up))
        BY DEF BoundToState, PublicValues, LiveSnapshot
      <3>2. \E admin \in Users : AdminApproves(admin)
        BY <1>1 DEF Operable, AdminApproves
      <3>3. Verified(pv(up), LiveSnapshot(up))
        BY DEF Verified, LiveScore
      <3>4. globalState.max_leverage * CB_LEVERAGE_REDUCTION_BPS <= U64_MAX
        BY <1>1, AmountsAssumption
           DEF IInv, Operable, TypeOK, GlobalStates, CB_LEVERAGE_REDUCTION_BPS
      <3>5. OracleAgrees(None, pv(up))
        BY DEF OracleAgrees
      <3>6. ShockRecomputed(pv(up)) <=> ShockAgreed(up)
        BY LiveShockAgreed
      <3> HIDE DEF pv
      <3>7. QED
        BY <3>1, <3>2, <3>3, <3>4, <3>5, <3>6 DEF LiveProofAccepted, pv
    <2> HIDE DEF pv, Over
    <2>4. \A up \in BOOLEAN : LiveProofTrips(up) <=> LiveProofAccepted(up) /\ Over(up)
      BY DEF LiveProofTrips, Over
    <2>5. QED
      BY <2>2, <2>3, <2>4
  <1>2. QED
    BY <1>1, Invariance, AlwaysOperable, PTL

\* The program implements the abstract breaker: trips only on danger, resets only
\* after the timelock, accepts nothing after a lapse.
THEOREM ProgramImplementsBreaker ==
    ASSUME ~ MOCK_VERIFY
    PROVE  Spec => BreakerRefined
  <1>1. IInv /\ [Next]_vars => [Breaker!Next]_Breaker!vars
    BY StepRefines
  <1>2. QED
    BY <1>1, BreakerInit, Invariance, PTL DEF Spec, BreakerRefined, Breaker!Spec

=============================================================================
