----------------------------- MODULE RiskEngine -----------------------------
(***************************************************************************)
(* The on-chain program `proof_of_panic`: one action per instruction.      *)
(*                                                                         *)
(* A Solana transaction is atomic and a failed `require!` reverts it, so   *)
(* an instruction is one step whose guard is the conjunction of all its    *)
(* checks.  Many transactions fit in one slot; the clock advances between  *)
(* them.  A proof is produced off chain by anybody, from any snapshot, at  *)
(* any time: the chain only sees the public values the guest committed to. *)
(*                                                                         *)
(* Abstractions.  SHA-256 is injective.  The score the guest computes is   *)
(* the constant operator StressScore.  The fields that are written and     *)
(* never read (PDA bumps, last_public_values_hash, the schema version) and *)
(* the public values that are only logged (bad_debt, num_liquidated) are   *)
(* left out.                                                               *)
(***************************************************************************)
EXTENDS Integers

CONSTANTS
    Users,                  \* the keys that sign transactions
    NoKey,                  \* Pubkey::default()
    None,                   \* an absent Option argument
    EmptyBook, DemoBook,    \* the two contents the position book ever has
    FirstSlot, MaxSlot,     \* the clock's start, and the bound on it
    U64_MAX,
    SCALE, RISK_SCORE_MAX, DEFAULT_CB_THRESHOLD,
    MAX_PROOF_AGE_SLOTS, CB_RESET_TIMELOCK_SLOTS,
    DEFAULT_GOVERNANCE_TIMELOCK_SLOTS,
    MOCK_VERIFY,            \* the build feature test-mock-verify
    StressScore(_),         \* the risk score the guest finds for a snapshot
    TARGET_EXPO,            \* the exponent of an on-chain price
    PythFeeds,              \* the price accounts a transaction may name
    SnapshotPrices, SnapshotFunds,      \* what a prover's snapshot may claim
    LeverageChoices, MaintenanceChoices, TargetChoices,
    TimelockChoices, ThresholdChoices,  \* arguments of update_risk_params
    RewardChoices, IntervalChoices,     \* arguments of the incentives' calls
    FundingChoices, InitialLamports

BPS_DENOMINATOR == 10000
PROOF_SCHEMA_VERSION == 1
CB_LEVERAGE_REDUCTION_BPS == 5000
DEFAULT_MAINTENANCE_MARGIN_BPS == 500
DEFAULT_LIQUIDATION_FEE_BPS == 250
DEFAULT_LIQUIDATION_TARGET_MARGIN_BPS == 800
DEFAULT_SHOCK_BPS == 3000
DEFAULT_ORACLE_PRICE == 150 * SCALE
DEFAULT_INSURANCE_FUND == 50000 * SCALE
DEFAULT_MAX_LEVERAGE == 10 * SCALE

Books == {EmptyBook, DemoBook}

ASSUME KeysAssumption ==
    /\ NoKey \notin Users
    /\ None \notin Nat
    /\ None \notin BOOLEAN

\* A program runs after the genesis slot: slot 0 is free to mean "never".
ASSUME SlotsAssumption ==
    /\ FirstSlot \in Nat \ {0}
    /\ MaxSlot \in Nat
    /\ FirstSlot <= MaxSlot
    /\ MAX_PROOF_AGE_SLOTS \in Nat \ {0}
    /\ CB_RESET_TIMELOCK_SLOTS \in Nat
    /\ DEFAULT_GOVERNANCE_TIMELOCK_SLOTS \in Nat \ {0}

\* A u64 holds the product by which the largest leverage is halved.
ASSUME AmountsAssumption ==
    /\ U64_MAX \in Nat
    /\ SCALE \in Nat \ {0}
    /\ 100 * SCALE * CB_LEVERAGE_REDUCTION_BPS <= U64_MAX
    /\ RISK_SCORE_MAX \in Nat
    /\ DEFAULT_CB_THRESHOLD \in 0..RISK_SCORE_MAX
    /\ InitialLamports \in Nat

ASSUME ArgumentsAssumption ==
    /\ LeverageChoices \subseteq Nat
    /\ MaintenanceChoices \subseteq Nat
    /\ TargetChoices \subseteq Nat
    /\ TimelockChoices \subseteq Nat
    /\ ThresholdChoices \subseteq Nat
    /\ RewardChoices \subseteq Nat
    /\ IntervalChoices \subseteq Nat
    /\ FundingChoices \subseteq Nat
    /\ MOCK_VERIFY \in BOOLEAN

VARIABLES
    slot,               \* Clock::get()?.slot
    accounts,           \* the program accounts that exist
    globalState,
    riskConfig,
    positionBook,
    incentivesConfig,
    rewardVault,        \* lamports of the reward vault
    wallets,            \* lamports of every user
    history             \* past slots no instruction reads: see Init

vars == <<slot, accounts, globalState, riskConfig, positionBook,
          incentivesConfig, rewardVault, wallets, history>>

lamports == <<rewardVault, wallets>>

-----------------------------------------------------------------------------
(* Prices *)

\* scale_pyth_price before its sign test, as the code has it: the factor is
\* 10^(target - expo).
ScaledPrice(feed) ==
    IF TARGET_EXPO >= feed.expo
    THEN feed.price * 10^(TARGET_EXPO - feed.expo)
    ELSE feed.price \div 10^(feed.expo - TARGET_EXPO)

\* A feed the program can read: both the raw and the scaled price are positive.
ValidFeed(feed) == feed.price > 0 /\ ScaledPrice(feed) > 0

\* The scaled price is an i128 and the stored one a u64: the cast drops high bits.
StoredPrice(feed) == ScaledPrice(feed) % (U64_MAX + 1)

\* The program rounds the shock down ...
ShockAmount(price, bps) == (price * bps) \div BPS_DENOMINATOR

\* apply_shock_price in the program.
ApplyShockPrice(price, bps, up) ==
    IF up THEN price + ShockAmount(price, bps)
          ELSE price - ShockAmount(price, bps)

\* ... the guest (apply_shock, apply_shock_up) rounds the shocked price down.
GuestShockedPrice(price, bps, up) ==
    IF up THEN (price * (BPS_DENOMINATOR + bps)) \div BPS_DENOMINATOR
    ELSE IF bps > BPS_DENOMINATOR THEN 0
    ELSE (price * (BPS_DENOMINATOR - bps)) \div BPS_DENOMINATOR

ASSUME FeedsAssumption ==
    \A feed \in PythFeeds : feed.price \in Int /\ ScaledPrice(feed) \in Int

-----------------------------------------------------------------------------
(* The guest *)

StateHash(book) == <<"sha256", book>>

\* What a prover may feed to the guest: any state, live or not.
Snapshots ==
    [book : Books,
     oracle_price : SnapshotPrices,
     insurance_fund : SnapshotFunds,
     maintenance_margin_bps : MaintenanceChoices \cup {DEFAULT_MAINTENANCE_MARGIN_BPS},
     liquidation_fee_bps : {DEFAULT_LIQUIDATION_FEE_BPS},
     liquidation_target_margin_bps :
        TargetChoices \cup {DEFAULT_LIQUIDATION_TARGET_MARGIN_BPS},
     circuit_breaker_threshold : ThresholdChoices \cup {DEFAULT_CB_THRESHOLD},
     shock_bps : {DEFAULT_SHOCK_BPS},
     shock_direction_up : BOOLEAN]

ASSUME ScoresAssumption == \A snap \in Snapshots : StressScore(snap) \in 0..RISK_SCORE_MAX

\* The public values the guest commits to for a snapshot; "score" is what the
\* bytes claim as the risk score, which only a verified proof ties to the rest.
PublicValues(snap, score) ==
    [state_hash |-> StateHash(snap.book),
     schema_version |-> PROOF_SCHEMA_VERSION,
     pre_shock_price |-> snap.oracle_price,
     post_shock_price |->
        GuestShockedPrice(snap.oracle_price, snap.shock_bps, snap.shock_direction_up),
     shock_bps |-> snap.shock_bps,
     shock_direction_up |-> snap.shock_direction_up,
     maintenance_margin_bps |-> snap.maintenance_margin_bps,
     liquidation_fee_bps |-> snap.liquidation_fee_bps,
     liquidation_target_margin_bps |-> snap.liquidation_target_margin_bps,
     circuit_breaker_threshold |-> snap.circuit_breaker_threshold,
     insurance_fund |-> snap.insurance_fund,
     risk_score |-> score]

\* Mutant: the proof bytes are never checked.
VerifiedByNobody(pv, snap) == TRUE

\* The SP1 verifier accepts exactly what the guest outputs; the mock build
\* asks nobody.
Verified(pv, snap) == MOCK_VERIFY \/ pv = PublicValues(snap, StressScore(snap))

\* What a prover who reads the live accounts at this instant would see.
LiveSnapshot(up) ==
    [book |-> positionBook,
     oracle_price |-> globalState.oracle_price,
     insurance_fund |-> globalState.insurance_fund,
     maintenance_margin_bps |-> riskConfig.maintenance_margin_bps,
     liquidation_fee_bps |-> riskConfig.liquidation_fee_bps,
     liquidation_target_margin_bps |-> riskConfig.liquidation_target_margin_bps,
     circuit_breaker_threshold |-> riskConfig.circuit_breaker_threshold,
     shock_bps |-> riskConfig.shock_magnitude_bps,
     shock_direction_up |-> up]

-----------------------------------------------------------------------------
(* The accounts before and after initialize_protocol *)

DefaultGlobalState(authority) ==
    [authority |-> authority,
     oracle_price |-> DEFAULT_ORACLE_PRICE,
     total_positions |-> 0,
     insurance_fund |-> DEFAULT_INSURANCE_FUND,
     circuit_breaker_active |-> FALSE,
     last_proof_slot |-> 0,
     last_state_hash |-> None,
     last_risk_score |-> 0,
     last_submitter |-> NoKey,
     last_reward_lamports |-> 0,
     last_risk_update_slot |-> 0,
     governance_timelock_slots |-> DEFAULT_GOVERNANCE_TIMELOCK_SLOTS,
     max_leverage |-> DEFAULT_MAX_LEVERAGE,
     circuit_breaker_activation_slot |-> 0]

DefaultRiskConfig ==
    [maintenance_margin_bps |-> DEFAULT_MAINTENANCE_MARGIN_BPS,
     liquidation_fee_bps |-> DEFAULT_LIQUIDATION_FEE_BPS,
     liquidation_target_margin_bps |-> DEFAULT_LIQUIDATION_TARGET_MARGIN_BPS,
     max_leverage |-> DEFAULT_MAX_LEVERAGE,
     insurance_fund_target |-> DEFAULT_INSURANCE_FUND,
     circuit_breaker_threshold |-> DEFAULT_CB_THRESHOLD,
     shock_magnitude_bps |-> DEFAULT_SHOCK_BPS,
     require_admin_approval |-> FALSE]

Exists(account) == account \in accounts

\* Until an account exists its variable holds a placeholder nobody can read.
\* "global_state" stands for the three accounts initialize_protocol creates.
\* history: the slot of the last accepted proof over the threshold, of the last
\* payout, and of the last change of a risk parameter by governance (0: never).
Init ==
    /\ slot = FirstSlot
    /\ accounts = {}
    /\ globalState = DefaultGlobalState(NoKey)
    /\ riskConfig = DefaultRiskConfig
    /\ positionBook = EmptyBook
    /\ incentivesConfig = [authority |-> NoKey, reward_lamports |-> 0,
                           min_proof_interval_slots |-> 0, enabled |-> FALSE]
    /\ rewardVault = 0
    /\ wallets = [u \in Users |-> InitialLamports]
    /\ history = [panicSlot |-> 0, paidSlot |-> 0, paramSlot |-> 0]

-----------------------------------------------------------------------------
(* Setting up *)

\* Whoever comes first becomes the authority: `init` fails ever after.
InitializeProtocol(authority) ==
    /\ ~ Exists("global_state")
    /\ accounts' = accounts \cup {"global_state"}
    /\ globalState' = DefaultGlobalState(authority)
    /\ riskConfig' = DefaultRiskConfig
    /\ positionBook' = EmptyBook
    /\ UNCHANGED <<slot, incentivesConfig, lamports, history>>

InitializePositions(authority) ==
    /\ Exists("global_state")
    /\ globalState.authority = authority
    /\ globalState.total_positions = 0
    /\ positionBook' = DemoBook
    /\ globalState' = [globalState EXCEPT !.total_positions = 5]
    /\ UNCHANGED <<slot, accounts, riskConfig, incentivesConfig, lamports, history>>

\* Anybody may name any account Pyth's SDK can parse.
RefreshOraclePrice(feed) ==
    /\ Exists("global_state")
    /\ ValidFeed(feed)
    /\ globalState' = [globalState EXCEPT !.oracle_price = StoredPrice(feed)]
    /\ UNCHANGED <<slot, accounts, riskConfig, positionBook, incentivesConfig,
                   lamports, history>>

-----------------------------------------------------------------------------
(* Incentives *)

InitializeIncentives(authority, reward, interval, enabled) ==
    /\ ~ Exists("incentives_config")
    /\ accounts' = accounts \cup {"incentives_config"}
    /\ incentivesConfig' = [authority |-> authority, reward_lamports |-> reward,
                            min_proof_interval_slots |-> interval, enabled |-> enabled]
    /\ UNCHANGED <<slot, globalState, riskConfig, positionBook, lamports, history>>

\* The new value of a field, given an Option argument.
Updated(option, current) == IF option = None THEN current ELSE option

UpdateIncentives(authority, reward, interval, enabled) ==
    /\ Exists("incentives_config")
    /\ incentivesConfig.authority = authority
    /\ incentivesConfig' =
         [incentivesConfig EXCEPT
            !.reward_lamports = Updated(reward, @),
            !.min_proof_interval_slots = Updated(interval, @),
            !.enabled = Updated(enabled, @)]
    /\ UNCHANGED <<slot, accounts, globalState, riskConfig, positionBook, lamports,
                   history>>

FundRewardVault(funder, amount) ==
    /\ amount <= wallets[funder]
    /\ wallets' = [wallets EXCEPT ![funder] = @ - amount]
    /\ rewardVault' = rewardVault + amount
    /\ UNCHANGED <<slot, accounts, globalState, riskConfig, positionBook,
                   incentivesConfig, history>>

-----------------------------------------------------------------------------
(* submit_proof_and_verify *)

SlotsSinceLastProof == slot - globalState.last_proof_slot

\* Mutant: a proof may not be too fresh, but the last one never lapses.
ProofAgeAcceptedUnbounded ==
    globalState.last_proof_slot # 0 => SlotsSinceLastProof > 0

\* Mutant: the first proof has an age too, counted from slot 0.
ProofAgeAcceptedFromGenesis == SlotsSinceLastProof \in 1..MAX_PROOF_AGE_SLOTS

\* Step 1.  Slot 0 means "no proof yet": then any age will do.
ProofAgeAccepted ==
    globalState.last_proof_slot # 0 =>
        SlotsSinceLastProof \in 1..MAX_PROOF_AGE_SLOTS

\* Mutant: the price before the shock is taken from the public values unchecked.
BoundToStateExceptPrice(pv) ==
    /\ pv.schema_version = PROOF_SCHEMA_VERSION
    /\ pv.state_hash = StateHash(positionBook)
    /\ pv.shock_bps = riskConfig.shock_magnitude_bps
    /\ pv.maintenance_margin_bps = riskConfig.maintenance_margin_bps
    /\ pv.liquidation_fee_bps = riskConfig.liquidation_fee_bps
    /\ pv.liquidation_target_margin_bps = riskConfig.liquidation_target_margin_bps
    /\ pv.circuit_breaker_threshold = riskConfig.circuit_breaker_threshold
    /\ pv.insurance_fund = globalState.insurance_fund

\* Step 1.5.  The public values describe the live accounts.
BoundToState(pv) ==
    /\ pv.schema_version = PROOF_SCHEMA_VERSION
    /\ pv.state_hash = StateHash(positionBook)
    /\ pv.shock_bps = riskConfig.shock_magnitude_bps
    /\ pv.maintenance_margin_bps = riskConfig.maintenance_margin_bps
    /\ pv.liquidation_fee_bps = riskConfig.liquidation_fee_bps
    /\ pv.liquidation_target_margin_bps = riskConfig.liquidation_target_margin_bps
    /\ pv.circuit_breaker_threshold = riskConfig.circuit_breaker_threshold
    /\ pv.insurance_fund = globalState.insurance_fund
    /\ pv.pre_shock_price = globalState.oracle_price

\* Step 1.5, continued: the program recomputes the shock, with checked u64
\* arithmetic and its own rounding.
ShockRecomputed(pv) ==
    LET post == ApplyShockPrice(pv.pre_shock_price, pv.shock_bps, pv.shock_direction_up)
    IN  /\ pv.pre_shock_price * pv.shock_bps <= U64_MAX
        /\ post \in 0..U64_MAX
        /\ pv.post_shock_price = post

\* Step 1.6: the submitter decides whether to name a price account at all.
OracleAgrees(feed, pv) ==
    feed # None => ValidFeed(feed) /\ StoredPrice(feed) = pv.pre_shock_price

\* Step 1.7.
AdminApproves(admin) ==
    riskConfig.require_admin_approval => admin = globalState.authority

Panics(pv) == pv.risk_score > riskConfig.circuit_breaker_threshold

\* Mutant: the vault's balance is not compared with the reward.
PayoutDueOverdrawn ==
    /\ incentivesConfig.enabled
    /\ incentivesConfig.min_proof_interval_slots > 0 =>
         SlotsSinceLastProof >= incentivesConfig.min_proof_interval_slots

\* Mutant: the interval allows the slot before its end.
PayoutDueEarly ==
    /\ incentivesConfig.enabled
    /\ incentivesConfig.min_proof_interval_slots > 0 =>
         SlotsSinceLastProof + 1 >= incentivesConfig.min_proof_interval_slots
    /\ rewardVault >= incentivesConfig.reward_lamports

\* Phase 5: the interval is counted from the last accepted proof.
PayoutDue ==
    /\ incentivesConfig.enabled
    /\ incentivesConfig.min_proof_interval_slots > 0 =>
         SlotsSinceLastProof >= incentivesConfig.min_proof_interval_slots
    /\ rewardVault >= incentivesConfig.reward_lamports

Pays(withIncentives) == withIncentives /\ PayoutDue

Reward(withIncentives) ==
    IF Pays(withIncentives) THEN incentivesConfig.reward_lamports ELSE 0

\* Mutant: an active breaker that trips again keeps its old activation slot.
RecordProofFirstTrip(pv) ==
    globalState' =
      [globalState EXCEPT
         !.last_proof_slot = slot,
         !.last_state_hash = StateHash(positionBook),
         !.last_risk_score = pv.risk_score,
         !.circuit_breaker_active = @ \/ Panics(pv),
         !.circuit_breaker_activation_slot =
             IF Panics(pv) /\ ~ globalState.circuit_breaker_active THEN slot ELSE @,
         !.max_leverage =
             IF Panics(pv)
             THEN (@ * CB_LEVERAGE_REDUCTION_BPS) \div BPS_DENOMINATOR ELSE @]

\* Mutant: a proof under the threshold ends the halt.
RecordProofUnlatched(pv) ==
    globalState' =
      [globalState EXCEPT
         !.last_proof_slot = slot,
         !.last_state_hash = StateHash(positionBook),
         !.last_risk_score = pv.risk_score,
         !.circuit_breaker_active = Panics(pv),
         !.circuit_breaker_activation_slot = IF Panics(pv) THEN slot ELSE @,
         !.max_leverage =
             IF Panics(pv)
             THEN (@ * CB_LEVERAGE_REDUCTION_BPS) \div BPS_DENOMINATOR ELSE @]

\* Steps 3 and 4.  A trip is recorded, and the leverage cut again, whether or not
\* the breaker is active already.
RecordProof(pv) ==
    globalState' =
      [globalState EXCEPT
         !.last_proof_slot = slot,
         !.last_state_hash = StateHash(positionBook),
         !.last_risk_score = pv.risk_score,
         !.circuit_breaker_active = @ \/ Panics(pv),
         !.circuit_breaker_activation_slot = IF Panics(pv) THEN slot ELSE @,
         !.max_leverage =
             IF Panics(pv)
             THEN (@ * CB_LEVERAGE_REDUCTION_BPS) \div BPS_DENOMINATOR ELSE @]

\* The transaction carries the public values, and the submitter decides whether
\* to name a price account and whether to pass the incentives' accounts.
SubmitProof(submitter, withIncentives) ==
    /\ Exists("global_state")
    /\ withIncentives => Exists("incentives_config")
    /\ ProofAgeAccepted
    /\ \E snap \in Snapshots :
         \E score \in {StressScore(snap), 0, RISK_SCORE_MAX} :
           LET pv == PublicValues(snap, score)
           IN  /\ BoundToState(pv)
               /\ ShockRecomputed(pv)
               /\ \E feed \in PythFeeds \cup {None} : OracleAgrees(feed, pv)
               /\ \E admin \in Users : AdminApproves(admin)
               /\ Verified(pv, snap)
               /\ Panics(pv) =>
                    globalState.max_leverage * CB_LEVERAGE_REDUCTION_BPS <= U64_MAX
               /\ RecordProof(pv)
               /\ history' = [history EXCEPT
                                !.panicSlot = IF Panics(pv) THEN slot ELSE @,
                                !.paidSlot = IF Pays(withIncentives) THEN slot ELSE @]
    /\ rewardVault' = rewardVault - Reward(withIncentives)
    /\ wallets' = [wallets EXCEPT ![submitter] = @ + Reward(withIncentives)]
    /\ UNCHANGED <<slot, accounts, riskConfig, positionBook, incentivesConfig>>

-----------------------------------------------------------------------------
(* update_risk_params *)

RiskUpdates ==
    [max_leverage : LeverageChoices \cup {None},
     maintenance_margin_bps : MaintenanceChoices \cup {None},
     liquidation_target_margin_bps : TargetChoices \cup {None},
     governance_timelock_slots : TimelockChoices \cup {None},
     circuit_breaker_threshold : ThresholdChoices \cup {None},
     reset_circuit_breaker : BOOLEAN]

ChangesParams(u) ==
    \/ u.max_leverage # None
    \/ u.maintenance_margin_bps # None
    \/ u.liquidation_target_margin_bps # None
    \/ u.governance_timelock_slots # None
    \/ u.circuit_breaker_threshold # None

\* Mutant: parameters may change again in the last slot of the timelock.
GovernanceTimelockShort ==
    slot + 1 >= globalState.last_risk_update_slot + globalState.governance_timelock_slots

\* Mutant: the sum wraps around instead of aborting.
GovernanceTimelockWraps ==
    slot >= (globalState.last_risk_update_slot + globalState.governance_timelock_slots)
              % (U64_MAX + 1)

\* The sum is a plain u64 addition: overflow aborts the transaction.
GovernanceTimelockExpired ==
    LET end == globalState.last_risk_update_slot + globalState.governance_timelock_slots
    IN  end <= U64_MAX /\ slot >= end

\* Mutant: the breaker may be reset in the last slot of its timelock.
ResetTimelockShort ==
    slot + 1 >= globalState.circuit_breaker_activation_slot + CB_RESET_TIMELOCK_SLOTS

ResetTimelockExpired ==
    slot >= globalState.circuit_breaker_activation_slot + CB_RESET_TIMELOCK_SLOTS

\* The target is compared with the maintenance margin the same call has set;
\* a new maintenance margin is not compared with the target in force.
ValidUpdate(u) ==
    /\ u.max_leverage # None => u.max_leverage \in 1..(100 * SCALE)
    /\ u.maintenance_margin_bps # None => u.maintenance_margin_bps \in 1..BPS_DENOMINATOR
    /\ u.liquidation_target_margin_bps # None =>
         u.liquidation_target_margin_bps \in
           Updated(u.maintenance_margin_bps, riskConfig.maintenance_margin_bps)
             .. BPS_DENOMINATOR
    /\ u.governance_timelock_slots # None => u.governance_timelock_slots > 0
    /\ u.circuit_breaker_threshold # None => u.circuit_breaker_threshold <= RISK_SCORE_MAX

UpdateRiskParams(authority, u) ==
    /\ Exists("global_state")
    /\ globalState.authority = authority
    /\ ChangesParams(u) => GovernanceTimelockExpired
    /\ ValidUpdate(u)
    /\ u.reset_circuit_breaker => ResetTimelockExpired
    /\ riskConfig' =
         [riskConfig EXCEPT
            !.max_leverage = Updated(u.max_leverage, @),
            !.maintenance_margin_bps = Updated(u.maintenance_margin_bps, @),
            !.liquidation_target_margin_bps = Updated(u.liquidation_target_margin_bps, @),
            !.circuit_breaker_threshold = Updated(u.circuit_breaker_threshold, @)]
    /\ globalState' =
         [globalState EXCEPT
            !.last_risk_update_slot = IF ChangesParams(u) THEN slot ELSE @,
            !.governance_timelock_slots = Updated(u.governance_timelock_slots, @),
            !.max_leverage = IF u.reset_circuit_breaker THEN DEFAULT_MAX_LEVERAGE
                             ELSE Updated(u.max_leverage, @),
            !.circuit_breaker_active = @ /\ ~ u.reset_circuit_breaker,
            !.last_risk_score = IF u.reset_circuit_breaker THEN 0 ELSE @,
            !.insurance_fund = IF u.reset_circuit_breaker THEN DEFAULT_INSURANCE_FUND
                               ELSE @]
    /\ history' = [history EXCEPT
                     !.paramSlot =
                        IF \/ riskConfig' # riskConfig
                           \/ globalState'.governance_timelock_slots
                                # globalState.governance_timelock_slots
                        THEN slot ELSE @]
    /\ UNCHANGED <<slot, accounts, positionBook, incentivesConfig, lamports>>

-----------------------------------------------------------------------------

AdvanceSlot ==
    /\ slot < MaxSlot
    /\ slot' = slot + 1
    /\ UNCHANGED <<accounts, globalState, riskConfig, positionBook, incentivesConfig,
                   lamports, history>>

Next ==
    \/ AdvanceSlot
    \/ \E feed \in PythFeeds : RefreshOraclePrice(feed)
    \/ \E user \in Users :
         \/ InitializeProtocol(user)
         \/ InitializePositions(user)
         \/ \E reward \in RewardChoices, interval \in IntervalChoices,
               enabled \in BOOLEAN :
              InitializeIncentives(user, reward, interval, enabled)
         \/ \E reward \in RewardChoices \cup {None},
               interval \in IntervalChoices \cup {None},
               enabled \in BOOLEAN \cup {None} :
              UpdateIncentives(user, reward, interval, enabled)
         \/ \E amount \in FundingChoices : FundRewardVault(user, amount)
         \/ \E withIncentives \in BOOLEAN : SubmitProof(user, withIncentives)
         \/ \E u \in RiskUpdates : UpdateRiskParams(user, u)

Spec == Init /\ [][Next]_vars

-----------------------------------------------------------------------------
(* Correctness *)

\* The accounts hold what their Rust types and the handlers' checks allow.
GlobalStates ==
    [authority : Users \cup {NoKey},
     oracle_price : Nat,
     total_positions : {0, 5},
     insurance_fund : Nat,
     circuit_breaker_active : BOOLEAN,
     last_proof_slot : Nat,
     last_state_hash : {None} \cup {StateHash(book) : book \in Books},
     last_risk_score : Nat,
     last_submitter : Users \cup {NoKey},
     last_reward_lamports : Nat,
     last_risk_update_slot : Nat,
     governance_timelock_slots : Nat \ {0},
     max_leverage : Nat,
     circuit_breaker_activation_slot : Nat]

RiskConfigs ==
    [maintenance_margin_bps : 1..BPS_DENOMINATOR,
     liquidation_fee_bps : 0..BPS_DENOMINATOR,
     liquidation_target_margin_bps : 1..BPS_DENOMINATOR,
     max_leverage : 1..(100 * SCALE),
     insurance_fund_target : Nat,
     circuit_breaker_threshold : 0..RISK_SCORE_MAX,
     shock_magnitude_bps : 0..BPS_DENOMINATOR,
     require_admin_approval : BOOLEAN]

IncentivesConfigs ==
    [authority : Users \cup {NoKey}, reward_lamports : Nat,
     min_proof_interval_slots : Nat, enabled : BOOLEAN]

TypeOK ==
    /\ slot \in FirstSlot..MaxSlot
    /\ accounts \subseteq {"global_state", "incentives_config"}
    /\ globalState \in GlobalStates
    /\ riskConfig \in RiskConfigs
    /\ positionBook \in Books
    /\ incentivesConfig \in IncentivesConfigs
    /\ rewardVault \in Nat
    /\ wallets \in [Users -> Nat]
    /\ history \in [panicSlot : Nat, paidSlot : Nat, paramSlot : Nat]

\* The slots the accounts keep never run ahead of the clock or of each other, and
\* they are what their names say (history knows): the activation slot is that of
\* the last proof over the threshold, re-trips and resets notwithstanding.  So the
\* subtraction at submit_proof.rs:38-42 never fails, and an interval or a timelock
\* counted from one of these slots is counted from the event it is about.
SlotsConsistent ==
    /\ history.panicSlot = globalState.circuit_breaker_activation_slot
    /\ history.panicSlot <= globalState.last_proof_slot
    /\ history.paidSlot <= globalState.last_proof_slot
    /\ globalState.last_proof_slot <= slot
    /\ history.paramSlot <= globalState.last_risk_update_slot
    /\ globalState.last_risk_update_slot <= slot
    /\ ~ Exists("global_state") => globalState = DefaultGlobalState(NoKey)

\* The score the live state would be given by a proof of one shock direction.
LiveScore(up) == StressScore(LiveSnapshot(up))

Danger ==
    /\ Exists("global_state")
    /\ \E up \in BOOLEAN : LiveScore(up) > riskConfig.circuit_breaker_threshold

\* The program finds the price that the guest puts into a proof of the live state.
ShockAgreed(up) ==
    LET price == globalState.oracle_price
        bps == riskConfig.shock_magnitude_bps
    IN  /\ price * bps <= U64_MAX
        /\ ApplyShockPrice(price, bps, up) \in 0..U64_MAX
        /\ GuestShockedPrice(price, bps, up) = ApplyShockPrice(price, bps, up)

\* Danger that the program lets be proved.
Provable ==
    /\ Exists("global_state")
    /\ \E up \in BOOLEAN :
         ShockAgreed(up) /\ LiveScore(up) > riskConfig.circuit_breaker_threshold

Lapsed ==
    /\ globalState.last_proof_slot # 0
    /\ SlotsSinceLastProof > MAX_PROOF_AGE_SLOTS

AcceptsLiveScore ==
    globalState'.last_proof_slot # globalState.last_proof_slot =>
        \E up \in BOOLEAN : globalState'.last_risk_score = LiveScore(up)

\* submit_proof.rs:84-130 and the verifier - whatever snapshot a prover used and
\* however long the proof was in flight, a score that reaches the chain is the
\* score of the accounts as they are when it is accepted.
AcceptedScoreIsLive == [][AcceptsLiveScore]_vars

\* SECURITY.md:42 - for CB_RESET_TIMELOCK_SLOTS after every accepted proof over
\* the threshold the breaker is active, whatever governance does, re-trips of an
\* active breaker included.
HaltHeldForTimelock ==
    history.panicSlot # 0 /\ slot < history.panicSlot + CB_RESET_TIMELOCK_SLOTS =>
        globalState.circuit_breaker_active

KeepsPayoutInterval ==
    rewardVault' < rewardVault /\ history.paidSlot # 0 =>
        /\ slot > history.paidSlot
        /\ slot - history.paidSlot >= incentivesConfig.min_proof_interval_slots

\* submit_proof.rs:253-259 - payouts are at least the configured interval apart,
\* and never two in one slot, although the code only looks at the last proof.
PayoutsSpaced == [][KeepsPayoutInterval]_vars

KeepsGovernanceTimelock ==
    history'.paramSlot # history.paramSlot /\ history.paramSlot # 0 =>
        slot - history.paramSlot >= globalState.governance_timelock_slots

\* README.md:283 - two changes of the risk parameters are at least the timelock
\* then in force apart, also when one of them changes the timelock itself.
ParamChangesSpaced == [][KeepsGovernanceTimelock]_vars

StaysLapsed ==
    Lapsed =>
        /\ Lapsed'
        /\ globalState'.circuit_breaker_active => globalState.circuit_breaker_active

\* submit_proof.rs:44-48 - a lapse is permanent, and from then on nothing trips
\* the breaker: no call of anybody's, governance included, brings proofs back.
LapseIsPermanent == [][StaysLapsed]_vars

\* The end of the governance timelock is not a u64.
GovernanceFrozen ==
    globalState.last_risk_update_slot + globalState.governance_timelock_slots > U64_MAX

StaysFrozen ==
    Exists("global_state") /\ GovernanceFrozen =>
        GovernanceFrozen' /\ UNCHANGED riskConfig

\* update_risk.rs:34,67-71 - a timelock that overflows the sum freezes the risk
\* parameters for good: no call of anybody's changes them, or the timelock, again.
FreezeIsPermanent == [][StaysFrozen]_vars

\* The ages CircuitBreaker counts, computed from the slots the accounts keep.
Proven == globalState.last_proof_slot # 0

ProofAge ==
    IF ~ Proven THEN 0
    ELSE IF SlotsSinceLastProof <= MAX_PROOF_AGE_SLOTS THEN SlotsSinceLastProof
    ELSE MAX_PROOF_AGE_SLOTS + 1

HaltAge ==
    IF ResetTimelockExpired THEN CB_RESET_TIMELOCK_SLOTS
    ELSE slot - globalState.circuit_breaker_activation_slot

\* The program implements the breaker it promises.
Breaker == INSTANCE CircuitBreaker WITH
    MaxAge <- MAX_PROOF_AGE_SLOTS,
    ResetTimelock <- CB_RESET_TIMELOCK_SLOTS,
    danger <- Danger,
    provable <- Provable,
    halted <- globalState.circuit_breaker_active,
    proven <- Proven,
    proofAge <- ProofAge,
    haltAge <- HaltAge

\* Every step of the program is a step the breaker's specification allows.
BreakerRefined == Breaker!Spec

-----------------------------------------------------------------------------
(* Completeness *)

\* Every check of submit_proof_and_verify passes, at this instant, for the proof of
\* the live state that names no price account.
LiveProofAccepted(up) ==
    LET pv == PublicValues(LiveSnapshot(up), LiveScore(up))
    IN  /\ ProofAgeAccepted
        /\ BoundToState(pv)
        /\ ShockRecomputed(pv)
        /\ OracleAgrees(None, pv)
        /\ \E admin \in Users : AdminApproves(admin)
        /\ Verified(pv, LiveSnapshot(up))
        /\ Panics(pv) => globalState.max_leverage * CB_LEVERAGE_REDUCTION_BPS <= U64_MAX

\* The program's checked u64 arithmetic finds the shocked price at all.
ShockFits(up) ==
    /\ globalState.oracle_price * riskConfig.shock_magnitude_bps <= U64_MAX
    /\ ApplyShockPrice(globalState.oracle_price, riskConfig.shock_magnitude_bps, up)
         <= U64_MAX

\* The shock is a whole number of the price's units.
ShockExact(up) ==
    up \/ (globalState.oracle_price * riskConfig.shock_magnitude_bps) % BPS_DENOMINATOR = 0

\* submit_proof.rs:36-188 - as long as proofs have not lapsed, and once per slot, the
\* proof of the live state is accepted whatever governance, the feeds and the
\* keepers have done, and it is refused for one reason only: a downward shock that
\* the program and the guest round differently.  In particular no parameters that
\* governance may set make the halving of the leverage overflow.
CompleteUntilLapse ==
    Exists("global_state") /\ slot # globalState.last_proof_slot /\ ~ Lapsed =>
        \A up \in BOOLEAN :
          ShockFits(up) => (LiveProofAccepted(up) <=> ShockExact(up))

\* The proof of the live state would be accepted, and trip the breaker, right now.
LiveProofTrips(up) ==
    LiveProofAccepted(up) /\ LiveScore(up) > riskConfig.circuit_breaker_threshold

\* submit_proof.rs:36-188 - the breaker can be tripped exactly when the abstract
\* breaker says so, and not only never when it says no: CircuitBreaker asks for
\* fairness of a step that the program really lets somebody take, through every
\* lapse, reset, change of parameters and price that does not divide.
TripGuardExact ==
    Exists("global_state") =>
        (Breaker!MayAccept(TRUE) <=> \E up \in BOOLEAN : LiveProofTrips(up))

-----------------------------------------------------------------------------
(* What the repository says and the code does not do *)

\* docs/THREAT_MODEL_AND_FORMAL_SPECS.md:30 - a live state over the threshold has
\* a proof the program accepts (one accepted earlier in this slot aside).
Completeness ==
    Danger /\ slot # globalState.last_proof_slot => \E up \in BOOLEAN : LiveProofTrips(up)

\* global_state.rs:15 - the stored price is the feed's, in units of 10^TARGET_EXPO
\* dollars (rounded down).
OraclePriceInMicrodollars ==
    [][\A feed \in PythFeeds :
         RefreshOraclePrice(feed) =>
           globalState'.oracle_price =
             IF feed.expo >= TARGET_EXPO
             THEN feed.price * 10^(feed.expo - TARGET_EXPO)
             ELSE feed.price \div 10^(TARGET_EXPO - feed.expo)]_vars

=============================================================================
