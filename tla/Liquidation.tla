---------------------------- MODULE Liquidation ----------------------------
(***************************************************************************)
(* The liquidation cascade of the simulator, the computation the guest     *)
(* proves: the shocked price meets a book of positions, what falls under   *)
(* the maintenance margin is liquidated in part or in full, the volume     *)
(* liquidated in a round moves the price, and rounds go on until one       *)
(* liquidates nothing.  One action per position visited and one per round. *)
(*                                                                         *)
(* The run is deterministic: everything open is in the snapshot and the    *)
(* shock it starts from.  Owners of positions are left out.  A plain       *)
(* addition that does not fit a u64 is counted with the checked            *)
(* multiplications as the end of the run: the first kind panics in the     *)
(* command line and takes amounts of 9 * 10^12 dollars in the guest.       *)
(***************************************************************************)
EXTENDS Integers, Sequences

CONSTANTS
    Snapshots,              \* the snapshots a run may start from
    Shocks,                 \* the shocks, in basis points
    ImpactBlock,            \* $100,000 of a position: 100_000 * SCALE
    U64_MAX

BPS_DENOMINATOR == 10000
PRICE_IMPACT_BPS_PER_100K == 50

SimPosition ==
    [collateral : Nat, size : Nat, entry_price : Nat, is_long : BOOLEAN, is_open : BOOLEAN]

SimRiskConfig ==
    [maintenance_margin_bps : Nat, liquidation_fee_bps : Nat,
     liquidation_target_margin_bps : Nat, circuit_breaker_threshold : Nat]

Snapshot ==
    [oracle_price : Nat, insurance_fund : Nat,
     positions : Seq(SimPosition), risk_config : SimRiskConfig]

ASSUME SnapshotsAssumption ==
    /\ Snapshots \subseteq Snapshot
    /\ Shocks \subseteq Nat

ASSUME UnitsAssumption ==
    /\ ImpactBlock \in Nat \ {0}
    /\ U64_MAX \in Nat

VARIABLES
    snapshot,               \* the input, which solvency reads again
    positions,              \* the run's own copy of the book
    current_price,
    results,                \* a report for each position
    visiting,               \* the index the round's loop has reached
    cascade_active,         \* has this round found a position to liquidate
    liquidated_this_round,  \* total_liquidated_size_this_round
    status                  \* "running", "done", or "overflow"

vars == <<snapshot, positions, current_price, results, visiting,
          cascade_active, liquidated_this_round, status>>

-----------------------------------------------------------------------------
(* Arithmetic                                                              *)

\* n read as an i64, n being a u64.
Signed(n) == IF n > U64_MAX \div 2 THEN n - (U64_MAX + 1) ELSE n

ShockFactor(bps, up) ==
    IF up THEN BPS_DENOMINATOR + bps
    ELSE IF bps > BPS_DENOMINATOR THEN 0 ELSE BPS_DENOMINATOR - bps

ApplyShock(price, bps, up) == (price * ShockFactor(bps, up)) \div BPS_DENOMINATOR

PriceMove(p, price) ==
    IF price >= p.entry_price THEN price - p.entry_price ELSE p.entry_price - price

\* A position gains when the price moves its way.
ComputePnl(p, price) ==
    IF p.entry_price = 0 THEN 0
    ELSE LET amount == Signed(((p.size * PriceMove(p, price)) \div p.entry_price) % (U64_MAX + 1))
         IN  IF p.is_long = (price >= p.entry_price) THEN amount ELSE -amount

EffectiveCollateral(p, price) == Signed(p.collateral) + ComputePnl(p, price)

MarginRatio(p, price) ==
    IF EffectiveCollateral(p, price) > 0
    THEN (EffectiveCollateral(p, price) * BPS_DENOMINATOR) \div p.size
    ELSE 0

Underwater(p, price, config) == MarginRatio(p, price) < config.maintenance_margin_bps

-----------------------------------------------------------------------------
(* One liquidation                                                         *)

TargetMargin(config) ==
    IF config.liquidation_target_margin_bps > config.maintenance_margin_bps
    THEN config.liquidation_target_margin_bps
    ELSE config.maintenance_margin_bps

\* The size a position's collateral supports at the target margin.
DesiredSize(p, price, config) ==
    (EffectiveCollateral(p, price) * BPS_DENOMINATOR) \div TargetMargin(config)

\* Mutant: trusts the configured target to be over the maintenance margin.
LiquidateSizeToTarget(p, price, config) ==
    LET target  == config.liquidation_target_margin_bps
        desired == (EffectiveCollateral(p, price) * BPS_DENOMINATOR) \div target
    IN  IF EffectiveCollateral(p, price) <= 0 THEN p.size
        ELSE IF desired < p.size THEN p.size - desired ELSE 0

LiquidateSize(p, price, config) ==
    IF EffectiveCollateral(p, price) > 0 /\ DesiredSize(p, price, config) < p.size
    THEN p.size - DesiredSize(p, price, config)
    ELSE p.size

Fee(size, config) == (size * config.liquidation_fee_bps) \div BPS_DENOMINATOR

FeeShortfall(p, fee) == IF p.collateral >= fee THEN 0 ELSE fee - p.collateral

\* Mutant: a deficit is only looked at when the fee was paid in full.
LiquidationLossEither(p, price, fee) ==
    IF FeeShortfall(p, fee) > 0 THEN FeeShortfall(p, fee)
    ELSE IF EffectiveCollateral(p, price) < 0 THEN -EffectiveCollateral(p, price) ELSE 0

\* What the position owes beyond its collateral, fee included.
LiquidationLoss(p, price, fee) ==
    FeeShortfall(p, fee)
    + (IF EffectiveCollateral(p, price) < 0 THEN -EffectiveCollateral(p, price) ELSE 0)

\* Mutant: takes the fee without asking whether the collateral covers it.
RemainingPositionOverdrawn(p, size, fee) ==
    IF p.size = size THEN [p EXCEPT !.size = 0, !.collateral = 0, !.is_open = FALSE]
    ELSE [p EXCEPT !.size = @ - size,
                   !.collateral = ((@ - fee) * (p.size - size)) \div p.size]

\* Collateral shrinks by the fee, then in proportion to the size.
RemainingPosition(p, size, fee) ==
    IF p.size = size THEN [p EXCEPT !.size = 0, !.collateral = 0, !.is_open = FALSE]
    ELSE [p EXCEPT !.size = @ - size,
                   !.collateral = ((IF @ >= fee THEN @ - fee ELSE 0) * (p.size - size)) \div p.size]

-----------------------------------------------------------------------------
(* The cascade                                                             *)

Config == snapshot.risk_config
Visited == positions[visiting]
VisitedSize == LiquidateSize(Visited, current_price, Config)
VisitedLoss == LiquidationLoss(Visited, current_price, Fee(VisitedSize, Config))

EmptyReport ==
    [unrealized_pnl |-> 0, margin_ratio_bps |-> 0, is_liquidated |-> FALSE,
     liquidation_loss |-> 0, liquidation_fee_paid |-> 0, liquidated_size |-> 0,
     effective_collateral |-> 0]

\* Mutant: every round starts a report from nothing.
VisitedReportFresh ==
    [EmptyReport EXCEPT
        !.unrealized_pnl = ComputePnl(Visited, current_price),
        !.margin_ratio_bps = MarginRatio(Visited, current_price),
        !.effective_collateral = EffectiveCollateral(Visited, current_price)]

\* The report of the visited position at the current price.
VisitedReport ==
    [results[visiting] EXCEPT
        !.unrealized_pnl = ComputePnl(Visited, current_price),
        !.margin_ratio_bps = MarginRatio(Visited, current_price),
        !.effective_collateral = EffectiveCollateral(Visited, current_price)]

Init ==
    /\ snapshot \in Snapshots
    /\ positions = snapshot.positions
    /\ \E bps \in Shocks, up \in BOOLEAN :
          /\ current_price = ApplyShock(snapshot.oracle_price, bps, up)
          /\ status = IF snapshot.oracle_price * ShockFactor(bps, up) > U64_MAX
                      THEN "overflow" ELSE "running"
    /\ results = [i \in DOMAIN positions |-> EmptyReport]
    /\ visiting = 1
    /\ cascade_active = FALSE
    /\ liquidated_this_round = 0

\* The loop has reached a position that is worth a look.
Visiting == status = "running" /\ visiting \in DOMAIN positions
Skipped == ~ Visited.is_open \/ Visited.size = 0

SkipPosition ==
    /\ Visiting
    /\ Skipped
    /\ visiting' = visiting + 1
    /\ UNCHANGED <<snapshot, positions, current_price, results,
                   cascade_active, liquidated_this_round, status>>

RatioOverflows ==
    EffectiveCollateral(Visited, current_price) > U64_MAX \div BPS_DENOMINATOR

KeepPosition ==
    /\ Visiting
    /\ ~ Skipped
    /\ ~ RatioOverflows
    /\ ~ Underwater(Visited, current_price, Config)
    /\ results' = [results EXCEPT ![visiting] = VisitedReport]
    /\ visiting' = visiting + 1
    /\ UNCHANGED <<snapshot, positions, current_price,
                   cascade_active, liquidated_this_round, status>>

LiquidationOverflows ==
    \/ VisitedSize * Config.liquidation_fee_bps > U64_MAX
    \/ liquidated_this_round + VisitedSize > U64_MAX
    \/ results[visiting].liquidation_loss + VisitedLoss > U64_MAX

\* The last report of a size and a fee replaces earlier ones; losses add up.
\* VisitedSize is never 0 (ActiveRoundLiquidates): the early `continue` for
\* that case is dead code.
LiquidatePosition ==
    /\ Visiting
    /\ ~ Skipped
    /\ ~ RatioOverflows
    /\ Underwater(Visited, current_price, Config)
    /\ ~ LiquidationOverflows
    /\ LET fee == Fee(VisitedSize, Config)
       IN  /\ positions' = [positions EXCEPT
                  ![visiting] = RemainingPosition(Visited, VisitedSize, fee)]
           /\ results' = [results EXCEPT ![visiting] =
                  [VisitedReport EXCEPT !.is_liquidated = TRUE,
                                        !.liquidated_size = VisitedSize,
                                        !.liquidation_fee_paid = fee,
                                        !.liquidation_loss = @ + VisitedLoss]]
    /\ liquidated_this_round' = liquidated_this_round + VisitedSize
    /\ cascade_active' = TRUE
    /\ visiting' = visiting + 1
    /\ UNCHANGED <<snapshot, current_price, status>>

Impact ==
    (liquidated_this_round \div ImpactBlock) * PRICE_IMPACT_BPS_PER_100K

PriceDrop == (current_price * Impact) \div BPS_DENOMINATOR

\* Mutant: the price moves against shorts.
PriceAfterImpactUp == current_price + PriceDrop

PriceAfterImpact == IF PriceDrop > current_price THEN 0 ELSE current_price - PriceDrop

RoundOver == status = "running" /\ visiting \notin DOMAIN positions

\* Mutant: the cascade is one round long.
EndRoundOnce ==
    /\ RoundOver
    /\ current_price * Impact <= U64_MAX
    /\ current_price' = PriceAfterImpact
    /\ status' = "done"
    /\ UNCHANGED <<snapshot, positions, results, visiting,
                   cascade_active, liquidated_this_round>>

EndRound ==
    /\ RoundOver
    /\ current_price * Impact <= U64_MAX
    /\ current_price' = PriceAfterImpact
    /\ IF cascade_active
       THEN visiting' = 1 /\ cascade_active' = FALSE /\ liquidated_this_round' = 0
            /\ UNCHANGED status
       ELSE status' = "done" /\ UNCHANGED <<visiting, cascade_active, liquidated_this_round>>
    /\ UNCHANGED <<snapshot, positions, results>>

\* SimulatorError::MathOverflow, or a panic.
Overflow ==
    /\ \/ Visiting /\ ~ Skipped
          /\ \/ RatioOverflows
             \/ Underwater(Visited, current_price, Config) /\ LiquidationOverflows
       \/ RoundOver /\ current_price * Impact > U64_MAX
    /\ status' = "overflow"
    /\ UNCHANGED <<snapshot, positions, current_price, results, visiting,
                   cascade_active, liquidated_this_round>>

Next == SkipPosition \/ KeepPosition \/ LiquidatePosition \/ EndRound \/ Overflow

Spec == Init /\ [][Next]_vars

\* The run is one thread that nothing stops.
FairSpec == Spec /\ WF_vars(Next)

-----------------------------------------------------------------------------
(* Properties                                                              *)

PositionResult ==
    [unrealized_pnl : Int, margin_ratio_bps : Nat, is_liquidated : BOOLEAN,
     liquidation_loss : Nat, liquidation_fee_paid : Nat, liquidated_size : Nat,
     effective_collateral : Int]

\* Every amount that is unsigned in the code stays at or above zero: no fee,
\* cut or price drop takes more than there is.
TypeOK ==
    /\ snapshot \in Snapshots
    /\ positions \in [DOMAIN snapshot.positions -> SimPosition]
    /\ current_price \in Nat
    /\ results \in [DOMAIN snapshot.positions -> PositionResult]
    /\ visiting \in Nat \ {0}
    /\ cascade_active \in BOOLEAN
    /\ liquidated_this_round \in Nat
    /\ status \in {"running", "done", "overflow"}

\* A round asks for another one exactly when it has liquidated something: the
\* loop `while cascade_active` cannot go round without making progress, whatever
\* the margins and the target are, and does not stop after a liquidation.
ActiveRoundLiquidates == cascade_active <=> liquidated_this_round > 0

\* A position the cascade did not liquidate is the one in the snapshot, and
\* charged nothing.
UntouchedUnlessLiquidated ==
    \A i \in DOMAIN positions :
        ~ results[i].is_liquidated =>
            /\ positions[i] = snapshot.positions[i]
            /\ results[i].liquidation_loss = 0
            /\ results[i].liquidation_fee_paid = 0

\* When the cascade ends, no open position is under the maintenance margin at
\* the price it ends with, and the report of each is one of that price.
Settled ==
    status = "done" =>
        \A i \in DOMAIN positions :
            positions[i].is_open /\ positions[i].size > 0 =>
                /\ ~ Underwater(positions[i], current_price, Config)
                /\ results[i].margin_ratio_bps = MarginRatio(positions[i], current_price)
                /\ results[i].effective_collateral = EffectiveCollateral(positions[i], current_price)

\* A deficit is charged in full when it shows: a position whose last report says
\* that it owes more than its collateral is closed, and its loss is at least what
\* it owes, whatever earlier rounds took from it.  So no debt stays in the book
\* for the score to miss.  (A book with a maintenance margin of 0, which the
\* program does not let governance set, keeps such positions.)
DeficitsCharged ==
    Config.maintenance_margin_bps > 0 =>
        \A i \in DOMAIN positions :
            results[i].effective_collateral < 0 =>
                /\ results[i].is_liquidated
                /\ ~ positions[i].is_open
                /\ results[i].liquidation_loss >= -results[i].effective_collateral

\* Sizes, collateral and the price only fall, and nothing reopens.
NothingGrows ==
    [][ /\ current_price' <= current_price
        /\ \A i \in DOMAIN positions :
              /\ positions[i].size >= positions'[i].size
              /\ positions[i].collateral >= positions'[i].collateral
              /\ positions'[i].is_open => positions[i].is_open ]_vars

\* Every step that does not end the cascade comes closer to the end: a size falls
\* (NothingGrows: no other rises), or all stay and an active round is over, or all
\* stay and the round goes on to its next position.  None of the three can go on
\* for ever without the one before it.
StepsMakeProgress ==
    [][ \/ status' # "running"
        \/ \E i \in DOMAIN positions : positions'[i].size < positions[i].size
        \/ /\ positions' = positions
           /\ \/ cascade_active /\ ~ cascade_active'
              \/ /\ cascade_active' = cascade_active
                 /\ visiting \in DOMAIN positions
                 /\ visiting' = visiting + 1 ]_vars

\* The cascade comes to an end.
CascadeEnds == <>(status # "running")

\* What the code says of its target: the part of a position a liquidation
\* leaves has the target margin at the price it was liquidated at.
TargetReached ==
    [][ \A i \in DOMAIN positions :
            positions'[i].is_open /\ positions'[i].size < positions[i].size =>
                MarginRatio(positions'[i], current_price) >= TargetMargin(Config) ]_vars

=============================================================================
