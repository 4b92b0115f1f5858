--------------------------- MODULE CircuitBreaker ---------------------------
(***************************************************************************)
(* What the program promises about its circuit breaker, with every slot    *)
(* number replaced by an age: the state is finite although the clock is    *)
(* not, so that "eventually" can be asked of it.  RiskEngine implements    *)
(* this specification (BreakerRefined there).                              *)
(*                                                                         *)
(* An age stops growing where no guard can tell the difference: a proof    *)
(* older than MaxAge has lapsed, a trip older than ResetTimelock may be    *)
(* reset.                                                                  *)
(***************************************************************************)
EXTENDS Naturals

CONSTANTS MaxAge, ResetTimelock

ASSUME AgesAssumption == MaxAge \in Nat \ {0} /\ ResetTimelock \in Nat

VARIABLES
    danger,     \* the live state's score is over the threshold
    provable,   \* ... and the program can recompute the shock of a proof of it
    halted,     \* circuit_breaker_active
    proven,     \* some proof has been accepted
    proofAge,   \* slots since the last accepted proof
    haltAge     \* slots since the breaker last tripped

vars == <<danger, provable, halted, proven, proofAge, haltAge>>

LapsedAge == MaxAge + 1
Cap(age, limit) == IF age < limit THEN age ELSE limit

TypeOK ==
    /\ danger \in BOOLEAN
    /\ provable \in BOOLEAN
    /\ provable => danger
    /\ halted \in BOOLEAN
    /\ proven \in BOOLEAN
    /\ proofAge \in 0..LapsedAge
    /\ haltAge \in 0..ResetTimelock

\* What the live state is like is up to prices, parameters and positions.  Not all
\* danger can be proved: the program refuses the proof of a shock that it and the
\* guest round differently, for as long as the price stands where they do.
LiveState(inDanger, canBeProved) ==
    /\ inDanger \in BOOLEAN
    /\ canBeProved \in BOOLEAN
    /\ canBeProved => inDanger

Init ==
    /\ LiveState(danger, provable)
    /\ halted = FALSE
    /\ proven = FALSE
    /\ proofAge = 0
    /\ haltAge \in 0..ResetTimelock

\* A slot goes by.
Tick ==
    /\ proofAge' = IF proven THEN Cap(proofAge + 1, LapsedAge) ELSE proofAge
    /\ haltAge' = Cap(haltAge + 1, ResetTimelock)
    /\ UNCHANGED <<danger, provable, halted, proven>>

\* Prices, parameters and positions move.
Environment ==
    /\ LiveState(danger', provable')
    /\ UNCHANGED <<halted, proven, proofAge, haltAge>>

\* One proof per slot, none after a lapse; it trips the breaker only on evidence
\* about the live state.  (A live state in danger also has proofs that do not trip:
\* those of the harmless shock direction.)
MayAccept(trips) ==
    /\ proven => proofAge \in 1..MaxAge
    /\ trips => provable

\* Mutant: a proof over the threshold is recorded, and nothing is halted.
AcceptWithoutHalting(trips) ==
    /\ MayAccept(trips)
    /\ proven' = TRUE
    /\ proofAge' = 0
    /\ haltAge' = IF trips THEN 0 ELSE haltAge
    /\ UNCHANGED <<danger, provable, halted>>

\* Mutant: a proof of a state that is no longer live trips the breaker.
AcceptStale(trips) ==
    /\ proven => proofAge \in 1..MaxAge
    /\ proven' = TRUE
    /\ proofAge' = 0
    /\ halted' = (halted \/ trips)
    /\ haltAge' = IF trips THEN 0 ELSE haltAge
    /\ UNCHANGED <<danger, provable>>

\* A proof is accepted.
Accept(trips) ==
    /\ MayAccept(trips)
    /\ proven' = TRUE
    /\ proofAge' = 0
    /\ halted' = (halted \/ trips)
    /\ haltAge' = IF trips THEN 0 ELSE haltAge
    /\ UNCHANGED <<danger, provable>>

\* Governance resets the breaker, possibly with other parameters.
Reset ==
    /\ haltAge = ResetTimelock
    /\ halted' = FALSE
    /\ LiveState(danger', provable')
    /\ UNCHANGED <<proven, proofAge, haltAge>>

Next ==
    \/ Tick
    \/ Environment
    \/ \E trips \in BOOLEAN : Accept(trips)
    \/ Reset

Spec == Init /\ [][Next]_vars

\* The clock runs; a keeper who keeps submitting the proof that trips the breaker
\* wins the slot infinitely often if it could infinitely often (weak fairness
\* is not enough: each proof another submitter lands disables it for a slot);
\* the authority resets a breaker that stays resettable.
Fairness ==
    /\ WF_vars(Tick)
    /\ SF_vars(Accept(TRUE))
    /\ WF_vars(Reset)

FairSpec == Spec /\ Fairness

Lapsed == proven /\ proofAge = LapsedAge

\* submit_proof.rs:36-50, 122-130 - danger that lasts brings the breaker down, and
\* again after every reset, on two conditions: proofs are never let lapse, and from
\* some time on the danger is one the program lets be proved.  The first alone is
\* not enough: harmless upward proofs keep the chain of proofs alive at a price
\* whose downward shock is refused.
WatchedDangerHalts ==
    []~Lapsed => (<>[]provable => []<>halted)

\* Once the live state stays out of danger the breaker is reset for good: no
\* proof already under way can trip it again.
CalmRecovers == <>[]~danger => <>[]~halted

=============================================================================
