----------------------------- MODULE TargetPerp -----------------------------
(***************************************************************************)
(* The demo protocol `target_perp` as a client of the breaker: its only    *)
(* input is circuit_breaker_active, read from the engine's account in the  *)
(* same transaction that cuts its leverage.  Anybody may send that         *)
(* transaction, as often as the breaker is active.                         *)
(***************************************************************************)
EXTENDS CircuitBreaker

CONSTANTS
    ONE_X,              \* a leverage of 1x, 1_000_000 in the code
    InitialLeverages    \* arguments of initialize, which checks none of them

ASSUME LeveragesAssumption ==
    /\ ONE_X \in Nat \ {0}
    /\ InitialLeverages \subseteq Nat

VARIABLES
    created,            \* the account perp_state exists
    max_leverage,       \* 0 until then
    initial_leverage,   \* the argument of initialize: no instruction reads it
    evidence            \* the live state has been in danger: nobody reads it

perpVars == <<created, max_leverage, initial_leverage, evidence>>
allVars == <<vars, perpVars>>

PerpInit ==
    /\ Init
    /\ created = FALSE
    /\ max_leverage = 0
    /\ initial_leverage = 0
    /\ evidence = danger

Initialize(leverage) ==
    /\ ~ created
    /\ created' = TRUE
    /\ max_leverage' = leverage
    /\ initial_leverage' = leverage
    /\ UNCHANGED <<vars, evidence>>

\* Mutant: the leverage is only held to its floor.
HalvedToFloor == IF max_leverage > ONE_X THEN max_leverage ELSE ONE_X

\* max(1x, current / 2): a leverage under 1x is raised.
Halved == IF max_leverage \div 2 < ONE_X THEN ONE_X ELSE max_leverage \div 2

\* Mutant: the engine's account is not looked at.
ApplyCircuitBreakerUnchecked ==
    /\ created
    /\ max_leverage' = Halved
    /\ UNCHANGED <<vars, created, initial_leverage, evidence>>

ApplyCircuitBreaker ==
    /\ created
    /\ halted
    /\ max_leverage' = Halved
    /\ UNCHANGED <<vars, created, initial_leverage, evidence>>

\* A step of the engine, as the client sees it.
EngineStep ==
    /\ Next
    /\ evidence' = (evidence \/ danger')
    /\ UNCHANGED <<created, max_leverage, initial_leverage>>

PerpNext ==
    \/ EngineStep
    \/ \E leverage \in InitialLeverages : Initialize(leverage)
    \/ ApplyCircuitBreaker

PerpSpec == PerpInit /\ [][PerpNext]_allVars

\* The engine's fairness, and a keeper who goes on sending the transaction: it is
\* refused whenever the breaker has just been reset, so that strong fairness is
\* what "goes on" means.
PerpFairSpec ==
    /\ PerpSpec
    /\ Fairness
    /\ WF_allVars(\E leverage \in InitialLeverages : Initialize(leverage))
    /\ SF_allVars(ApplyCircuitBreaker)

-----------------------------------------------------------------------------
(* Properties                                                              *)

PerpTypeOK ==
    /\ TypeOK
    /\ created \in BOOLEAN
    /\ max_leverage \in Nat
    /\ initial_leverage \in InitialLeverages \cup {0}
    /\ evidence \in BOOLEAN

\* target-perp/lib.rs:22 with submit_proof.rs:84-130 - the client's leverage moves
\* only in a protocol whose live state has been over the threshold, however stale
\* the proofs under way and however late the transaction that cuts it.
CutsOnEvidence == max_leverage # initial_leverage => evidence

\* README.md:108 with submit_proof.rs:122-130 - lasting danger that the program lets
\* be proved takes the client's leverage down to 1x, through resets and repeated
\* calls, provided proofs never lapse.
DangerDeleverages ==
    []~Lapsed /\ <>[]provable => <>(max_leverage = ONE_X)

=============================================================================
