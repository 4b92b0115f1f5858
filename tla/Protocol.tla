------------------------------ MODULE Protocol ------------------------------
(***************************************************************************)
(* The risk engine with the two parties that read its account: target_perp *)
(* in the transaction that cuts its own leverage, the keeper service late  *)
(* and over the network.  The steps of both are those of their own         *)
(* modules, with the program in the place of what they abstract it to.     *)
(***************************************************************************)
EXTENDS RiskEngine

CONSTANTS
    ONE_X,              \* a leverage of 1x, 1_000_000 in the code
    InitialLeverages,   \* arguments of the client's initialize
    AlarmScore,         \* 7000 in pollRiskState
    Polls               \* bound on the keeper's polls under way at once

ASSUME ReadersAssumption ==
    /\ ONE_X \in Nat \ {0}
    /\ InitialLeverages \subseteq Nat
    /\ AlarmScore \in Nat

VARIABLES
    created,            \* the account perp_state exists
    perpLeverage,       \* its max_leverage, 0 until then
    perpInitial,        \* the argument of initialize: no instruction reads it
    evidence,           \* the live state has been in danger: nobody reads it
    polls,              \* the keeper's polls
    gauges,             \* and its gauges
    bar                 \* the threshold when the last proof was accepted: nobody
                        \* reads it

clientVars == <<created, perpLeverage, perpInitial, evidence>>
serviceVars == <<polls, gauges, bar>>
protocolVars == <<vars, clientVars, serviceVars>>

\* The two fields of the account that a poll reads, and that threshold.
PolledState ==
    [score |-> globalState.last_risk_score,
     active |-> globalState.circuit_breaker_active,
     bar |-> bar]

Perp == INSTANCE TargetPerp WITH
    MaxAge <- MAX_PROOF_AGE_SLOTS,
    ResetTimelock <- CB_RESET_TIMELOCK_SLOTS,
    danger <- Danger,
    provable <- Provable,
    halted <- globalState.circuit_breaker_active,
    proven <- Proven,
    proofAge <- ProofAge,
    haltAge <- HaltAge,
    max_leverage <- perpLeverage,
    initial_leverage <- perpInitial

Service == INSTANCE Keeper WITH
    Scores <- 0..RISK_SCORE_MAX,
    Thresholds <- 0..RISK_SCORE_MAX,
    chain <- PolledState,
    threshold <- riskConfig.circuit_breaker_threshold

ProtocolInit ==
    /\ Init
    /\ created = FALSE
    /\ perpLeverage = 0
    /\ perpInitial = 0
    /\ evidence = Danger
    /\ polls = [p \in Polls |-> Service!Idle]
    /\ bar = 0
    /\ gauges = Service!Polled(PolledState)

EngineStep ==
    /\ Next
    /\ evidence' = (evidence \/ Danger')
    /\ bar' = IF globalState'.last_proof_slot # globalState.last_proof_slot
              THEN riskConfig.circuit_breaker_threshold ELSE bar
    /\ UNCHANGED <<created, perpLeverage, perpInitial, polls, gauges>>

ClientStep ==
    /\ UNCHANGED <<vars, serviceVars>>
    /\ \/ \E leverage \in InitialLeverages : Perp!Initialize(leverage)
       \/ Perp!ApplyCircuitBreaker

ServiceStep ==
    /\ UNCHANGED <<vars, clientVars, bar>>
    /\ \E p \in Polls : Service!StartPoll(p) \/ Service!PollStep(p)

ProtocolNext == EngineStep \/ ClientStep \/ ServiceStep

ProtocolSpec == ProtocolInit /\ [][ProtocolNext]_protocolVars

-----------------------------------------------------------------------------
(* Properties                                                              *)

\* target-perp/lib.rs:18-40 with submit_proof.rs:84-219 - no schedule of proofs,
\* refreshes, parameter changes, resets and late or repeated calls of the client cuts
\* a client whose engine has never been in danger.
CutsJustified == Perp!CutsOnEvidence

\* The program with its client is the abstract breaker with its client, so that what
\* is proved of that one holds of this one.
PerpRefined == Perp!PerpSpec

\* keeper/src/index.ts:102 with submit_proof.rs:201-219 and update_risk.rs:74-91 -
\* whatever governance does to the threshold, the service generates proofs only of
\* scores that were not over it when they were accepted, however old the answer it
\* acts on.
AlarmsUntripped == Service!AlarmOnlyUntripped

\* The program moves the polled fields, and the threshold, as Keeper's chain moves.
ServiceRefined == Service!Spec
=============================================================================
