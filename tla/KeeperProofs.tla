---------------------------- MODULE KeeperProofs ----------------------------
(***************************************************************************)
(* Machine-checked theorems about Keeper: any number of polls under way at *)
(* once, any scores, any alarm score, and a threshold that governance      *)
(* moves at any time.                                                      *)
(***************************************************************************)
EXTENDS Keeper, TLAPS

Stages == {"idle", "fetching", "answered", "proving"}

\* A score over the threshold it was recorded under has left the breaker active.
Tripped(state) == state.score > state.bar => state.active

\* What a poll holds: such a state, and one worth an alarm if a proof is being
\* generated of it.
PollOf(p) ==
    /\ Tripped(polls[p].seen)
    /\ polls[p].stage = "proving" => Alarm(polls[p].seen)

\* The invariant by induction.  That the chain never is over its bar with the
\* breaker off is what makes an alarm one of a score under it.
IInv ==
    /\ TypeOK
    /\ Tripped(chain)
    /\ \A p \in Polls : PollOf(p)

LEMMA NaturalOrZero ==
    ASSUME NEW S, S \subseteq Nat, NEW n \in S \union {0}
    PROVE  n \in Nat
  OBVIOUS

LEMMA ChainNatural ==
    ASSUME NEW state \in ChainStates
    PROVE  state.score \in Nat /\ state.bar \in Nat
  <1>1. Scores \subseteq Nat /\ Thresholds \subseteq Nat
    BY ScoresAssumption
  <1>2. state.score \in Scores \union {0} /\ state.bar \in Thresholds \union {0}
    BY DEF ChainStates
  <1>3. QED
    BY <1>1, <1>2, NaturalOrZero

LEMMA GenesisTyped ==
    /\ Genesis \in ChainStates
    /\ Tripped(Genesis)
    /\ Idle \in [stage : Stages, seen : ChainStates]
    /\ Idle.seen = Genesis /\ Idle.stage = "idle"
  BY DEF Genesis, ChainStates, Tripped, Idle, Stages

LEMMA PolledTyped ==
    ASSUME NEW state \in ChainStates
    PROVE  Polled(state) \in GaugeStates
  BY DEF Polled, ChainStates, GaugeStates

LEMMA InitInvariant == Init => IInv
  <1> SUFFICES ASSUME Init PROVE IInv
    OBVIOUS
  <1>1. TypeOK
    BY GenesisTyped, PolledTyped DEF Init, TypeOK, Stages
  <1>2. \A p \in Polls : PollOf(p)
    BY GenesisTyped DEF Init, PollOf
  <1>3. QED
    BY <1>1, <1>2, GenesisTyped DEF Init, IInv

\* The chain moves on: what polls and gauges hold stays as it was.
LEMMA ChainMoves ==
    ASSUME IInv, chain' \in ChainStates, Tripped(chain)', threshold' \in Thresholds,
           UNCHANGED <<polls, gauges>>
    PROVE  IInv'
  <1>1. TypeOK'
    BY DEF IInv, TypeOK
  <1>2. \A p \in Polls : PollOf(p)'
    BY DEF IInv, PollOf, Tripped, Alarm
  <1>3. QED
    BY <1>1, <1>2 DEF IInv

\* One poll moves on, the chain does not: it is enough that the poll's new state
\* and the gauges are right.
LEMMA PollMoves ==
    ASSUME IInv, NEW p \in Polls, NEW poll \in [stage : Stages, seen : ChainStates],
           polls' = [polls EXCEPT ![p] = poll],
           Tripped(poll.seen),
           poll.stage = "proving" => Alarm(poll.seen),
           gauges' \in GaugeStates,
           UNCHANGED <<chain, threshold>>
    PROVE  IInv'
  <1>1. TypeOK'
    BY DEF IInv, TypeOK, Stages
  <1>2. \A q \in Polls : PollOf(q)'
    <2> SUFFICES ASSUME NEW q \in Polls PROVE PollOf(q)'
      OBVIOUS
    <2>1. CASE q = p
      BY <2>1 DEF IInv, TypeOK, PollOf, Tripped, Alarm
    <2>2. CASE q # p
      BY <2>2 DEF IInv, TypeOK, PollOf, Tripped, Alarm
    <2>3. QED
      BY <2>1, <2>2
  <1>3. Tripped(chain)'
    BY DEF IInv, Tripped
  <1>4. QED
    BY <1>1, <1>2, <1>3 DEF IInv

LEMMA RecordInvariant ==
    ASSUME IInv, NEW score \in Scores, RecordScore(score)
    PROVE  IInv'
  <1>1. chain' = [score |-> score, active |-> chain.active \/ score > threshold,
                  bar |-> threshold]
    BY DEF RecordScore
  <1>2. chain' \in ChainStates
    BY <1>1 DEF IInv, TypeOK, ChainStates
  <1>3. Tripped(chain)'
    BY <1>1 DEF Tripped
  <1>4. QED
    BY <1>2, <1>3, ChainMoves DEF RecordScore, IInv, TypeOK

LEMMA UpdateInvariant ==
    ASSUME IInv, NEW new \in Thresholds, NEW reset \in BOOLEAN, UpdateParams(new, reset)
    PROVE  IInv'
  <1>1. chain \in ChainStates
    BY DEF IInv, TypeOK
  <1> DEFINE after == Reset(chain)
  <1>2. after \in ChainStates /\ after.score = 0 /\ after.bar = chain.bar
    BY <1>1 DEF ChainStates, Reset
  <1> HIDE DEF after
  <1>3. after.bar \in Nat
    BY <1>2, ChainNatural
  <1>4. chain' \in {chain, after}
    BY DEF UpdateParams, after
  <1>5. chain' \in ChainStates
    BY <1>1, <1>2, <1>4
  <1>6. Tripped(chain)'
    BY <1>2, <1>3, <1>4 DEF IInv, Tripped
  <1>7. QED
    BY <1>5, <1>6, ChainMoves DEF UpdateParams

LEMMA PollInvariant ==
    ASSUME IInv, NEW p \in Polls, StartPoll(p) \/ PollStep(p)
    PROVE  IInv'
  <1> DEFINE PollStates == [stage : Stages, seen : ChainStates]
  <1> USE DEF Stages
  <1>1. polls[p] \in PollStates /\ PollOf(p) /\ gauges \in GaugeStates
    BY DEF IInv, TypeOK
  <1>2. Idle \in PollStates /\ Tripped(Idle.seen) /\ Idle.stage = "idle"
    BY GenesisTyped
  <1>3. CASE StartPoll(p)
    <2> DEFINE next == [polls[p] EXCEPT !.stage = "fetching"]
    <2>1. next \in PollStates /\ next.seen = polls[p].seen /\ next.stage = "fetching"
      BY <1>1
    <2>2. polls' = [polls EXCEPT ![p] = next] /\ UNCHANGED <<chain, threshold, gauges>>
      BY <1>3 DEF StartPoll
    <2> HIDE DEF next
    <2>3. QED
      BY <1>1, <2>1, <2>2, PollMoves DEF PollOf
  <1>4. CASE ReadState(p)
    <2> DEFINE next == [stage |-> "answered", seen |-> chain]
    <2>1. next \in PollStates /\ next.seen = chain /\ next.stage = "answered"
      BY DEF IInv, TypeOK
    <2>2. polls' = [polls EXCEPT ![p] = next] /\ UNCHANGED <<chain, threshold, gauges>>
      BY <1>4 DEF ReadState
    <2> HIDE DEF next
    <2>3. QED
      BY <1>1, <2>1, <2>2, PollMoves DEF IInv
  <1>5. CASE Arrive(p)
    <2> DEFINE next == IF Alarm(polls[p].seen)
                       THEN [polls[p] EXCEPT !.stage = "proving"] ELSE Idle
    <2>1. /\ next \in PollStates
          /\ Tripped(next.seen)
          /\ next.stage = "proving" => Alarm(next.seen)
      BY <1>1, <1>2 DEF PollOf
    <2>2. /\ polls' = [polls EXCEPT ![p] = next]
          /\ gauges' = Polled(polls[p].seen)
          /\ UNCHANGED <<chain, threshold>>
      BY <1>5 DEF Arrive
    <2>3. gauges' \in GaugeStates
      BY <1>1, <2>2, PolledTyped
    <2> HIDE DEF next
    <2>4. QED
      BY <2>1, <2>2, <2>3, PollMoves
  <1>6. CASE FinishProof(p) \/ FailPoll(p)
    <2>1. polls' = [polls EXCEPT ![p] = Idle] /\ UNCHANGED <<chain, threshold, gauges>>
      BY <1>6 DEF FinishProof, FailPoll
    <2>2. QED
      BY <1>1, <1>2, <2>1, PollMoves
  <1>7. QED
    BY <1>3, <1>4, <1>5, <1>6 DEF PollStep

LEMMA StepInvariant == IInv /\ [Next]_vars => IInv'
  <1> SUFFICES ASSUME IInv, [Next]_vars PROVE IInv'
    OBVIOUS
  <1>1. ASSUME NEW p \in Polls, StartPoll(p) \/ PollStep(p) PROVE IInv'
    BY <1>1, PollInvariant
  <1>2. CASE UNCHANGED vars
    BY <1>2 DEF vars, IInv, TypeOK, PollOf, Tripped, Alarm
  <1>3. QED
    BY <1>1, <1>2, RecordInvariant, UpdateInvariant DEF Next

LEMMA SpecInvariant == Spec => []IInv
  BY InitInvariant, StepInvariant, PTL DEF Spec

\* The polls are at one of their stages and hold states of the chain.
THEOREM TypeCorrect == Spec => []TypeOK
  <1>1. IInv => TypeOK
    BY DEF IInv
  <1>2. QED
    BY <1>1, SpecInvariant, PTL

\* No proof is generated of a score that was over the threshold it was recorded
\* under, whenever governance moves the threshold and however late the answer.
THEOREM AlarmsAreUntripped == Spec => []AlarmOnlyUntripped
  <1>1. IInv => AlarmOnlyUntripped
    <2> SUFFICES ASSUME IInv, NEW p \in Polls, polls[p].stage = "proving"
                 PROVE  polls[p].seen.score <= polls[p].seen.bar
      BY DEF AlarmOnlyUntripped
    <2>1. Tripped(polls[p].seen) /\ ~ polls[p].seen.active
      BY DEF IInv, PollOf, Alarm
    <2>2. polls[p].seen \in ChainStates
      BY DEF IInv, TypeOK
    <2>3. polls[p].seen.score \in Nat /\ polls[p].seen.bar \in Nat
      BY <2>2, ChainNatural
    <2>4. ~ (polls[p].seen.score > polls[p].seen.bar)
      BY <2>1, Zenon DEF Tripped
    <2>5. QED
      BY <2>3, <2>4
  <1>2. QED
    BY <1>1, SpecInvariant, PTL
=============================================================================
