------------------------------- MODULE Keeper -------------------------------
(***************************************************************************)
(* The keeper service: a poll of the chain's state is started every few    *)
(* seconds, whether or not the ones before it are over, and copies what it *)
(* read into two gauges.  The chain answers late, in any order, or never.  *)
(*                                                                         *)
(* The chain is what a poll sees of it, the last risk score and the        *)
(* breaker, and the threshold, which no poll reads and governance moves.   *)
(***************************************************************************)
EXTENDS Integers

CONSTANTS
    Scores,             \* the scores a proof may bring
    RISK_SCORE_MAX,
    Thresholds,         \* the values of circuit_breaker_threshold
    AlarmScore,         \* 7000 in pollRiskState
    Polls               \* bound on the polls under way at once

ASSUME ScoresAssumption ==
    /\ RISK_SCORE_MAX \in Nat
    /\ Scores \subseteq 0..RISK_SCORE_MAX
    /\ Thresholds \subseteq Nat
    /\ AlarmScore \in Nat

VARIABLES
    chain,              \* [score, active, bar]: the two fields of GlobalState polled,
                        \* and the threshold when the score was recorded, which
                        \* nobody reads
    threshold,          \* the threshold in force
    polls,              \* where each poll is, and what the chain told it
    gauges              \* the two gauges Prometheus scrapes

vars == <<chain, threshold, polls, gauges>>

GaugeStates == [score : Scores \union {0}, active : BOOLEAN]

ChainStates ==
    [score : Scores \union {0}, active : BOOLEAN, bar : Thresholds \union {0}]

Genesis == [score |-> 0, active |-> FALSE, bar |-> 0]

\* What a poll tells of a state of the chain.
Polled(state) == [score |-> state.score, active |-> state.active]

Idle == [stage |-> "idle", seen |-> Genesis]

Init ==
    /\ chain = Genesis
    /\ threshold \in Thresholds
    /\ polls = [p \in Polls |-> Idle]
    /\ gauges = Polled(Genesis)

\* Mutant: a score over the threshold is recorded, the breaker left alone.
RecordScoreOnly(score) ==
    /\ chain' = [score |-> score, active |-> chain.active, bar |-> threshold]
    /\ UNCHANGED <<threshold, polls, gauges>>

\* An accepted proof: a score over the threshold also trips the breaker.
RecordScore(score) ==
    /\ chain' = [score |-> score, active |-> chain.active \/ score > threshold,
                 bar |-> threshold]
    /\ UNCHANGED <<threshold, polls, gauges>>

\* A reset forgets the score with the trip.
Reset(state) == [state EXCEPT !.score = 0, !.active = FALSE]

\* Governance may move the threshold under a score that is on record: that trips
\* nothing.
UpdateParams(new, reset) ==
    /\ threshold' = new
    /\ chain' = IF reset THEN Reset(chain) ELSE chain
    /\ UNCHANGED <<polls, gauges>>

-----------------------------------------------------------------------------

\* setInterval fires, or the service starts.
StartPoll(p) ==
    /\ polls[p].stage = "idle"
    /\ polls' = [polls EXCEPT ![p].stage = "fetching"]
    /\ UNCHANGED <<chain, threshold, gauges>>

\* The account is read at the RPC node; the answer is under way.
ReadState(p) ==
    /\ polls[p].stage = "fetching"
    /\ polls' = [polls EXCEPT ![p] = [stage |-> "answered", seen |-> chain]]
    /\ UNCHANGED <<chain, threshold, gauges>>

\* Mutant: the score of the alarm is the chain's threshold.
AlarmOverThreshold(state) == state.score > threshold /\ ~ state.active

\* The state a poll would have a proof generated for.
Alarm(state) == state.score > AlarmScore /\ ~ state.active

\* The answer comes: both gauges are set, and the poll is over unless it goes on
\* to generate a proof.
Arrive(p) ==
    /\ polls[p].stage = "answered"
    /\ gauges' = Polled(polls[p].seen)
    /\ polls' = [polls EXCEPT ![p] =
                    IF Alarm(polls[p].seen) THEN [@ EXCEPT !.stage = "proving"]
                                            ELSE Idle]
    /\ UNCHANGED <<chain, threshold>>

\* simulateProofGeneration is over; nothing is submitted.
FinishProof(p) ==
    /\ polls[p].stage = "proving"
    /\ polls' = [polls EXCEPT ![p] = Idle]
    /\ UNCHANGED <<chain, threshold, gauges>>

\* Mutant: an error that is not caught ends the polling.
FailPollForGood(p) ==
    /\ polls[p].stage \in {"fetching", "answered"}
    /\ polls' = [polls EXCEPT ![p].stage = "dead"]
    /\ UNCHANGED <<chain, threshold, gauges>>

\* The node is offline, the account missing or the answer lost: caught and logged.
FailPoll(p) ==
    /\ polls[p].stage \in {"fetching", "answered"}
    /\ polls' = [polls EXCEPT ![p] = Idle]
    /\ UNCHANGED <<chain, threshold, gauges>>

PollStep(p) == ReadState(p) \/ Arrive(p) \/ FinishProof(p) \/ FailPoll(p)

Next ==
    \/ \E score \in Scores : RecordScore(score)
    \/ \E new \in Thresholds, reset \in BOOLEAN : UpdateParams(new, reset)
    \/ \E p \in Polls : StartPoll(p) \/ PollStep(p)

Spec == Init /\ [][Next]_vars

\* The interval goes on firing, no poll takes for ever, and a node that is asked
\* again and again answers, and gets an answer through, again and again.
FairSpec ==
    /\ Spec
    /\ WF_vars(\E p \in Polls : StartPoll(p))
    /\ \A p \in Polls : WF_vars(PollStep(p))
    /\ SF_vars(\E p \in Polls : ReadState(p))
    /\ SF_vars(\E p \in Polls : Arrive(p))
-----------------------------------------------------------------------------
(* Properties *)

\* A poll is at one of its stages, and has been told of a state of the chain.
TypeOK ==
    /\ chain \in ChainStates
    /\ threshold \in Thresholds
    /\ polls \in [Polls -> [stage : {"idle", "fetching", "answered", "proving"},
                            seen : ChainStates]]
    /\ gauges \in GaugeStates

\* keeper/src/index.ts:102, submit_proof.rs:201-219, update_risk.rs:74-91 - a proof is
\* generated only of a score that was not over the threshold in force when it was
\* recorded, however late the answer: one that was has tripped the breaker in the
\* same transaction, and the reset that clears the trip clears the score.  (It may
\* be over the threshold in force now: lowering that one trips nothing.)
AlarmOnlyUntripped ==
    \A p \in Polls :
        polls[p].stage = "proving" => polls[p].seen.score <= polls[p].seen.bar

\* Once the chain stands still the gauges come to show it and stay so, though a
\* poll that was late may have turned them back any number of times.
GaugesCatchUp ==
    \A state \in GaugeStates : <>[](Polled(chain) = state) => <>[](gauges = state)

\* Once the chain stands still in a state the service calls high risk, a proof is
\* generated again and again.
AlarmSounds ==
    \A state \in GaugeStates :
        state.score > AlarmScore /\ ~ state.active /\ <>[](Polled(chain) = state) =>
            []<>(\E p \in Polls : polls[p].stage = "proving")
=============================================================================
