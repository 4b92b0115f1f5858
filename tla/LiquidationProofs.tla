-------------------------- MODULE LiquidationProofs --------------------------
(***************************************************************************)
(* Machine-checked theorems about the cascade, for every book of           *)
(* positions, every shock, every margin, fee and target.                   *)
(***************************************************************************)
EXTENDS Liquidation, TLAPS

LEMMA DenominatorPositive == BPS_DENOMINATOR \in Nat \ {0}
  BY DEF BPS_DENOMINATOR

-----------------------------------------------------------------------------
(* Arithmetic                                                              *)

LEMMA ProductNat == \A a, b \in Nat : a * b \in Nat
  OBVIOUS

LEMMA QuotientNat ==
    ASSUME NEW a \in Nat, NEW b \in Nat \ {0}
    PROVE  a \div b \in Nat
  OBVIOUS

\* A part of an amount that has the proportion of k to s is no more than it.
LEMMA ProportionBelow ==
    ASSUME NEW a \in Nat, NEW s \in Nat \ {0}, NEW k \in 0 .. s
    PROVE  (a * k) \div s \in 0 .. a
  <1>1. a * k \in Nat /\ a * s \in Nat
    BY ProductNat
  <1>2. a * k <= a * s
    OBVIOUS
  <1>3. (a * k) \div s \in Nat
    BY <1>1, QuotientNat
  <1>4. (a * k) \div s <= a
    BY <1>1, <1>2
  <1>5. QED
    BY <1>3, <1>4

LEMMA SignedInt == \A n \in Nat : Signed(n) \in Int
  BY UnitsAssumption DEF Signed

LEMMA PnlInt ==
    ASSUME NEW p \in SimPosition, NEW price \in Nat
    PROVE  ComputePnl(p, price) \in Int
  <1> DEFINE gross == p.size * PriceMove(p, price)
  <1>1. p.size \in Nat /\ p.entry_price \in Nat
    BY DEF SimPosition
  <1>2. PriceMove(p, price) \in Nat
    BY <1>1 DEF PriceMove
  <1>3. gross \in Nat
    BY <1>1, <1>2, ProductNat
  <1> HIDE DEF gross
  <1>4. CASE p.entry_price = 0
    BY <1>4 DEF ComputePnl
  <1>5. CASE p.entry_price # 0
    <2>1. (gross \div p.entry_price) \in Nat
      BY <1>1, <1>3, <1>5, QuotientNat
    <2>2. (gross \div p.entry_price) % (U64_MAX + 1) \in Nat
      BY <2>1, UnitsAssumption
    <2>3. Signed((gross \div p.entry_price) % (U64_MAX + 1)) \in Int
      BY <2>2, SignedInt
    <2>4. QED
      BY <1>5, <2>3 DEF ComputePnl, gross
  <1>6. QED
    BY <1>4, <1>5

LEMMA EffectiveCollateralInt ==
    ASSUME NEW p \in SimPosition, NEW price \in Nat
    PROVE  EffectiveCollateral(p, price) \in Int
  <1>1. Signed(p.collateral) \in Int
    BY SignedInt DEF SimPosition
  <1>2. QED
    BY <1>1, PnlInt DEF EffectiveCollateral

LEMMA MarginRatioNat ==
    ASSUME NEW p \in SimPosition, NEW price \in Nat, p.size # 0
    PROVE  MarginRatio(p, price) \in Nat
  <1> DEFINE e == EffectiveCollateral(p, price)
  <1>1. e \in Int
    BY EffectiveCollateralInt
  <1>2. p.size \in Nat \ {0}
    BY DEF SimPosition
  <1> HIDE DEF e
  <1>3. CASE e > 0
    <2>1. e * BPS_DENOMINATOR \in Nat
      BY <1>1, <1>3, DenominatorPositive, ProductNat
    <2>2. (e * BPS_DENOMINATOR) \div p.size \in Nat
      BY <1>2, <2>1, QuotientNat
    <2>3. QED
      BY <1>3, <2>2 DEF MarginRatio, e
  <1>4. CASE ~ (e > 0)
    BY <1>4 DEF MarginRatio, e
  <1>5. QED
    BY <1>3, <1>4

-----------------------------------------------------------------------------
(* One liquidation                                                         *)

\* A liquidation is of something, and of no more than there is.
LEMMA LiquidateSizeBounded ==
    ASSUME NEW p \in SimPosition, NEW price \in Nat, NEW config \in SimRiskConfig,
           p.size # 0, Underwater(p, price, config)
    PROVE  LiquidateSize(p, price, config) \in 1 .. p.size
  <1> DEFINE e == EffectiveCollateral(p, price)
             desired == DesiredSize(p, price, config)
  <1>1. e \in Int
    BY EffectiveCollateralInt
  <1>2. p.size \in Nat \ {0}
    BY DEF SimPosition
  <1>3. TargetMargin(config) \in Nat \ {0}
    BY MarginRatioNat DEF TargetMargin, Underwater, SimRiskConfig
  <1>4. ASSUME e > 0
        PROVE  desired \in Nat
    <2> HIDE DEF e
    <2>1. e * BPS_DENOMINATOR \in Nat
      BY <1>1, <1>4, DenominatorPositive, ProductNat
    <2>2. (e * BPS_DENOMINATOR) \div TargetMargin(config) \in Nat
      BY <1>3, <2>1, QuotientNat
    <2>3. QED
      BY <2>2 DEF e, DesiredSize
  <1> HIDE DEF e, desired
  <1>5. LiquidateSize(p, price, config) =
          IF e > 0 /\ desired < p.size THEN p.size - desired ELSE p.size
    BY DEF LiquidateSize, e, desired
  <1>6. QED
    BY <1>2, <1>4, <1>5

LEMMA ClosedPosition ==
    ASSUME NEW p \in SimPosition,
           NEW q, q = [p EXCEPT !.size = 0, !.collateral = 0, !.is_open = FALSE]
    PROVE  q \in SimPosition /\ q.size = 0 /\ q.collateral = 0 /\ ~ q.is_open
  <1>1. q \in SimPosition
    BY DEF SimPosition
  <1>2. q.size = 0 /\ q.collateral = 0
    BY DEF SimPosition
  <1>3. ~ q.is_open
    BY Zenon DEF SimPosition
  <1>4. QED
    BY <1>1, <1>2, <1>3

\* What is left of a position is a position, no larger in size or collateral.
LEMMA RemainingPositionSmaller ==
    ASSUME NEW p \in SimPosition, NEW size \in 1 .. p.size, NEW fee \in Nat
    PROVE  /\ RemainingPosition(p, size, fee) \in SimPosition
           /\ RemainingPosition(p, size, fee).size < p.size
           /\ RemainingPosition(p, size, fee).collateral <= p.collateral
           /\ RemainingPosition(p, size, fee).is_open => p.is_open
  <1> DEFINE q == RemainingPosition(p, size, fee)
  <1>1. p.size \in Nat \ {0} /\ p.collateral \in Nat
    BY DEF SimPosition
  <1>2. CASE p.size = size
    <2>1. q = [p EXCEPT !.size = 0, !.collateral = 0, !.is_open = FALSE]
      BY <1>2 DEF RemainingPosition
    <2> HIDE DEF q
    <2>2. q \in SimPosition /\ q.size = 0 /\ q.collateral = 0 /\ ~ q.is_open
      BY <2>1, ClosedPosition
    <2>3. QED
      BY <1>1, <2>2 DEF q
  <1>3. CASE p.size # size
    <2> DEFINE net == IF p.collateral >= fee THEN p.collateral - fee ELSE 0
               rest == p.size - size
               left == (net * rest) \div p.size
    <2>1. net \in 0 .. p.collateral
      BY <1>1
    <2>2. left \in 0 .. net
      <3> HIDE DEF net
      <3>1. net \in Nat /\ p.size \in Nat \ {0} /\ rest \in 0 .. p.size
        BY <1>1, <2>1
      <3> HIDE DEF rest
      <3>2. QED
        BY <3>1, ProportionBelow
    <2>3. q = [p EXCEPT !.size = rest, !.collateral = left]
      BY <1>3 DEF RemainingPosition
    <2> HIDE DEF left, net, q
    <2>4. left \in Nat /\ left <= p.collateral /\ rest \in Nat /\ rest < p.size
      BY <1>1, <2>1, <2>2
    <2> HIDE DEF rest
    <2>5. q \in SimPosition /\ q.size = rest /\ q.collateral = left /\ q.is_open = p.is_open
      <3>1. q \in SimPosition
        BY <2>3, <2>4 DEF SimPosition
      <3>2. q.size = rest /\ q.collateral = left
        BY <2>3, <2>4 DEF SimPosition
      <3>3. q.is_open = p.is_open
        BY <2>3, Zenon DEF SimPosition
      <3>4. QED
        BY <3>1, <3>2, <3>3
    <2>6. QED
      BY <2>4, <2>5 DEF q
  <1>4. QED
    BY <1>2, <1>3

\* The whole of one liquidation.
LEMMA LiquidationAmounts ==
    ASSUME NEW p \in SimPosition, NEW price \in Nat, NEW config \in SimRiskConfig,
           p.size # 0, Underwater(p, price, config),
           NEW size, size = LiquidateSize(p, price, config),
           NEW fee, fee = Fee(size, config)
    PROVE  /\ size \in 1 .. p.size
           /\ fee \in Nat
           /\ LiquidationLoss(p, price, fee) \in Nat
  <1>1. p.size \in Nat /\ p.collateral \in Nat
    BY DEF SimPosition
  <1>2. size \in 1 .. p.size
    BY LiquidateSizeBounded
  <1>3. fee \in Nat
    <2>1. size \in Nat /\ config.liquidation_fee_bps \in Nat
      BY <1>1, <1>2 DEF SimRiskConfig
    <2>2. size * config.liquidation_fee_bps \in Nat
      BY <2>1, ProductNat
    <2>3. (size * config.liquidation_fee_bps) \div BPS_DENOMINATOR \in Nat
      BY <2>2, DenominatorPositive, QuotientNat
    <2>4. QED
      BY <2>3 DEF Fee
  <1>4. FeeShortfall(p, fee) \in Nat
    BY <1>1, <1>3 DEF FeeShortfall
  <1>5. EffectiveCollateral(p, price) \in Int
    BY EffectiveCollateralInt
  <1>6. LiquidationLoss(p, price, fee) \in Nat
    BY <1>4, <1>5 DEF LiquidationLoss
  <1>7. QED
    BY <1>2, <1>3, <1>6

\* A liquidation in deficit charges the deficit, and what is missing of the fee.
LEMMA LossCoversDeficit ==
    ASSUME NEW p \in SimPosition, NEW price \in Nat, NEW fee \in Nat,
           EffectiveCollateral(p, price) < 0
    PROVE  LiquidationLoss(p, price, fee) >= -EffectiveCollateral(p, price)
  <1>1. FeeShortfall(p, fee) \in Nat
    BY DEF FeeShortfall, SimPosition
  <1>2. EffectiveCollateral(p, price) \in Int
    BY EffectiveCollateralInt
  <1>3. QED
    BY <1>1, <1>2 DEF LiquidationLoss

-----------------------------------------------------------------------------
(* The invariant                                                           *)

\* In a round that has liquidated nothing so far, the positions it has visited
\* are above the maintenance margin at the round's price.
SettledSoFar ==
    ~ cascade_active =>
        \A i \in DOMAIN positions :
            i < visiting /\ positions[i].is_open /\ positions[i].size > 0 =>
                /\ ~ Underwater(positions[i], current_price, Config)
                /\ results[i].margin_ratio_bps = MarginRatio(positions[i], current_price)
                /\ results[i].effective_collateral = EffectiveCollateral(positions[i], current_price)

IInv ==
    /\ TypeOK
    /\ ActiveRoundLiquidates
    /\ SettledSoFar
    /\ UntouchedUnlessLiquidated
    /\ Settled
    /\ DeficitsCharged

LEMMA SnapshotTyped ==
    ASSUME TypeOK
    PROVE  /\ snapshot \in Snapshot
           /\ Config \in SimRiskConfig
           /\ DOMAIN snapshot.positions = 1 .. Len(snapshot.positions)
           /\ Len(snapshot.positions) \in Nat
  <1>1. snapshot \in Snapshot
    BY SnapshotsAssumption DEF TypeOK
  <1>2. QED
    BY <1>1 DEF Snapshot, Config

LEMMA ShockedPriceNat ==
    ASSUME NEW price \in Nat, NEW bps \in Nat, NEW up \in BOOLEAN
    PROVE  ApplyShock(price, bps, up) \in Nat
  <1>1. ShockFactor(bps, up) \in Nat
    BY DenominatorPositive DEF ShockFactor
  <1>2. price * ShockFactor(bps, up) \in Nat
    BY <1>1, ProductNat
  <1>3. QED
    BY <1>2, DenominatorPositive, QuotientNat DEF ApplyShock

LEMMA InitInvariant == Init => IInv
  <1> SUFFICES ASSUME Init PROVE IInv
    OBVIOUS
  <1>1. snapshot \in Snapshot /\ snapshot \in Snapshots
    BY SnapshotsAssumption DEF Init
  <1>2. snapshot.positions \in Seq(SimPosition) /\ snapshot.oracle_price \in Nat
    BY <1>1 DEF Snapshot
  <1>3. positions \in [DOMAIN snapshot.positions -> SimPosition]
    BY <1>2 DEF Init
  <1>4. current_price \in Nat
    BY <1>2, ShockedPriceNat, SnapshotsAssumption DEF Init
  <1>5. EmptyReport \in PositionResult
    BY DEF EmptyReport, PositionResult
  <1>6. results \in [DOMAIN snapshot.positions -> PositionResult]
    BY <1>5 DEF Init
  <1>7. TypeOK
    <2>1. status \in {"running", "done", "overflow"}
      BY DEF Init
    <2>2. visiting \in Nat \ {0} /\ liquidated_this_round \in Nat
      BY DEF Init
    <2>3. cascade_active \in BOOLEAN
      BY Zenon DEF Init
    <2>4. QED
      BY <1>1, <1>3, <1>4, <1>6, <2>1, <2>2, <2>3 DEF TypeOK
  <1>8. \A i \in DOMAIN positions : ~ (i < visiting)
    BY <1>2 DEF Init
  <1>9. DeficitsCharged
    BY DEF Init, DeficitsCharged, EmptyReport
  <1>10. QED
    BY <1>7, <1>8, <1>9 DEF Init, IInv, ActiveRoundLiquidates, SettledSoFar, Settled,
       UntouchedUnlessLiquidated, EmptyReport

\* What a visit computes, while there is something to compute.
LEMMA VisitedTyped ==
    ASSUME TypeOK, Visiting
    PROVE  /\ visiting \in DOMAIN snapshot.positions
           /\ Visited \in SimPosition
           /\ results[visiting] \in PositionResult
           /\ DOMAIN results = DOMAIN positions
  BY DEF TypeOK, Visiting, Visited

LEMMA VisitedReportFields ==
    ASSUME TypeOK, Visiting, ~ Skipped
    PROVE  /\ VisitedReport \in PositionResult
           /\ VisitedReport.margin_ratio_bps = MarginRatio(Visited, current_price)
           /\ VisitedReport.effective_collateral = EffectiveCollateral(Visited, current_price)
           /\ VisitedReport.is_liquidated = results[visiting].is_liquidated
           /\ VisitedReport.liquidation_loss = results[visiting].liquidation_loss
           /\ VisitedReport.liquidation_fee_paid = results[visiting].liquidation_fee_paid
  <1> DEFINE r == results[visiting]
             pnl == ComputePnl(Visited, current_price)
             ratio == MarginRatio(Visited, current_price)
             e == EffectiveCollateral(Visited, current_price)
  <1>1. Visited \in SimPosition /\ r \in PositionResult /\ current_price \in Nat
    BY VisitedTyped DEF TypeOK
  <1>2. Visited.size # 0
    BY DEF Skipped
  <1>3. pnl \in Int
    BY <1>1, PnlInt
  <1>4. ratio \in Nat
    BY <1>1, <1>2, MarginRatioNat
  <1>5. e \in Int
    BY <1>1, EffectiveCollateralInt
  <1>6. VisitedReport = [r EXCEPT !.unrealized_pnl = pnl, !.margin_ratio_bps = ratio,
                                  !.effective_collateral = e]
    BY DEF VisitedReport
  <1> HIDE DEF r, pnl, ratio, e
  <1>7. VisitedReport \in PositionResult
    BY <1>1, <1>3, <1>4, <1>5, <1>6 DEF PositionResult
  <1>8. /\ VisitedReport.margin_ratio_bps = ratio
        /\ VisitedReport.effective_collateral = e
        /\ VisitedReport.liquidation_loss = r.liquidation_loss
        /\ VisitedReport.liquidation_fee_paid = r.liquidation_fee_paid
    BY <1>1, <1>3, <1>4, <1>5, <1>6 DEF PositionResult
  <1>9. VisitedReport.is_liquidated = r.is_liquidated
    BY <1>1, <1>6, Zenon DEF PositionResult
  <1>10. QED
    BY <1>7, <1>8, <1>9 DEF r, ratio, e

LEMMA SkipPositionInvariant ==
    ASSUME IInv, SkipPosition
    PROVE  IInv'
  <1>1. TypeOK'
    BY DEF IInv, TypeOK, SkipPosition
  <1>2. SettledSoFar'
    BY SnapshotTyped DEF IInv, TypeOK, SettledSoFar, SkipPosition, Skipped, Visiting, Visited, Config
  <1>3. ActiveRoundLiquidates' /\ Settled' /\ UntouchedUnlessLiquidated'
    BY DEF IInv, SkipPosition, Visiting, ActiveRoundLiquidates, Settled, UntouchedUnlessLiquidated
  <1>4. DeficitsCharged'
    BY DEF IInv, SkipPosition, DeficitsCharged, Config
  <1>5. QED
    BY <1>1, <1>2, <1>3, <1>4 DEF IInv

\* A position that is not under a positive margin has collateral left.
LEMMA KeptIsNotInDeficit ==
    ASSUME TypeOK, Visiting, ~ Skipped, ~ Underwater(Visited, current_price, Config),
           Config.maintenance_margin_bps > 0
    PROVE  EffectiveCollateral(Visited, current_price) > 0
  <1>1. Config.maintenance_margin_bps \in Nat
    BY SnapshotTyped DEF SimRiskConfig
  <1>2. MarginRatio(Visited, current_price) # 0
    BY <1>1 DEF Underwater
  <1>3. QED
    BY <1>2 DEF MarginRatio

LEMMA KeepPositionInvariant ==
    ASSUME IInv, KeepPosition
    PROVE  IInv'
  <1>1. TypeOK /\ Visiting /\ ~ Skipped
    BY DEF IInv, KeepPosition
  <1>2. /\ results' = [results EXCEPT ![visiting] = VisitedReport]
        /\ UNCHANGED <<snapshot, positions, current_price>>
        /\ UNCHANGED <<cascade_active, liquidated_this_round, status>>
        /\ visiting' = visiting + 1
    BY DEF KeepPosition
  <1>3. TypeOK'
    BY <1>1, <1>2, VisitedTyped, VisitedReportFields DEF TypeOK
  <1>4. \A i \in DOMAIN positions :
            results'[i] = IF i = visiting THEN VisitedReport ELSE results[i]
    BY <1>1, <1>2, VisitedTyped
  <1>5. SettledSoFar'
    <2> SUFFICES ASSUME ~ cascade_active', NEW i \in DOMAIN positions',
                        i < visiting', positions'[i].is_open, positions'[i].size > 0
                 PROVE  /\ ~ Underwater(positions'[i], current_price', Config')
                        /\ results'[i].margin_ratio_bps = MarginRatio(positions'[i], current_price')
                        /\ results'[i].effective_collateral =
                               EffectiveCollateral(positions'[i], current_price')
      BY DEF SettledSoFar
    <2>1. CASE i = visiting
      BY <1>1, <1>2, <1>4, <2>1, VisitedReportFields DEF KeepPosition, Visited, Config
    <2>2. CASE i # visiting
      <3>1. i < visiting
        BY <1>1, <1>2, <2>2, SnapshotTyped DEF TypeOK
      <3>2. QED
        BY <1>2, <1>4, <2>2, <3>1 DEF IInv, SettledSoFar, Config
    <2>3. QED
      BY <2>1, <2>2
  <1>6. UntouchedUnlessLiquidated'
    BY <1>1, <1>2, <1>4, VisitedReportFields DEF IInv, UntouchedUnlessLiquidated, Visiting
  <1>7. ActiveRoundLiquidates' /\ Settled'
    BY <1>1, <1>2 DEF IInv, Visiting, ActiveRoundLiquidates, Settled
  <1>8. DeficitsCharged'
    <2>1. Config' = Config
      BY <1>2 DEF Config
    <2>2. Config.maintenance_margin_bps > 0 => EffectiveCollateral(Visited, current_price) > 0
      BY <1>1, KeptIsNotInDeficit DEF KeepPosition
    <2>3. /\ VisitedReport.effective_collateral = EffectiveCollateral(Visited, current_price)
          /\ EffectiveCollateral(Visited, current_price) \in Int
      BY <1>1, VisitedTyped, VisitedReportFields, EffectiveCollateralInt DEF TypeOK
    <2>4. Config.maintenance_margin_bps > 0 => ~ (VisitedReport.effective_collateral < 0)
      BY <2>2, <2>3
    <2>5. QED
      BY <1>2, <1>4, <2>1, <2>4 DEF IInv, DeficitsCharged
  <1>9. QED
    BY <1>3, <1>5, <1>6, <1>7, <1>8 DEF IInv

\* A liquidation shrinks the visited position and reports it.
LEMMA LiquidatePositionEffect ==
    ASSUME IInv, LiquidatePosition
    PROVE  /\ VisitedSize \in Nat \ {0}
           /\ positions'[visiting] \in SimPosition
           /\ positions'[visiting].size < Visited.size
           /\ positions'[visiting].collateral <= Visited.collateral
           /\ positions'[visiting].is_open => Visited.is_open
           /\ results'[visiting] \in PositionResult
           /\ results'[visiting].is_liquidated
           /\ results'[visiting].effective_collateral =
                  EffectiveCollateral(Visited, current_price)
           /\ EffectiveCollateral(Visited, current_price) < 0 =>
                  /\ ~ positions'[visiting].is_open
                  /\ results'[visiting].liquidation_loss >=
                         -EffectiveCollateral(Visited, current_price)
  <1> DEFINE fee == Fee(VisitedSize, Config)
             loss == VisitedReport.liquidation_loss + VisitedLoss
  <1>1. TypeOK /\ Visiting /\ ~ Skipped
    BY DEF IInv, LiquidatePosition
  <1>2. /\ Visited \in SimPosition
        /\ visiting \in DOMAIN positions
        /\ DOMAIN results = DOMAIN positions
        /\ current_price \in Nat
        /\ Config \in SimRiskConfig
        /\ Visited.size # 0
        /\ Underwater(Visited, current_price, Config)
    BY <1>1, VisitedTyped, SnapshotTyped DEF TypeOK, Skipped, Visiting, LiquidatePosition
  <1>3. /\ VisitedSize \in 1 .. Visited.size
        /\ fee \in Nat
        /\ VisitedLoss \in Nat
    BY <1>2, LiquidationAmounts DEF VisitedSize, VisitedLoss
  <1>4. VisitedSize \in Nat \ {0}
    BY <1>2, <1>3 DEF SimPosition
  <1>5. VisitedReport \in PositionResult
    BY <1>1, VisitedReportFields
  <1>6. loss \in Nat
    BY <1>3, <1>5 DEF PositionResult
  <1>7. positions'[visiting] = RemainingPosition(Visited, VisitedSize, fee)
    BY <1>2 DEF LiquidatePosition
  <1>8. results'[visiting] =
          [VisitedReport EXCEPT !.is_liquidated = TRUE, !.liquidated_size = VisitedSize,
                                !.liquidation_fee_paid = fee, !.liquidation_loss = loss]
    BY <1>2 DEF LiquidatePosition
  <1> HIDE DEF fee, loss
  <1>9. /\ positions'[visiting] \in SimPosition
        /\ positions'[visiting].size < Visited.size
        /\ positions'[visiting].collateral <= Visited.collateral
        /\ positions'[visiting].is_open => Visited.is_open
    BY <1>2, <1>3, <1>7, RemainingPositionSmaller
  <1>10. results'[visiting] \in PositionResult
    BY <1>3, <1>4, <1>5, <1>6, <1>8 DEF PositionResult
  <1>11. results'[visiting].is_liquidated
    BY <1>5, <1>8, Zenon DEF PositionResult
  <1> DEFINE e == EffectiveCollateral(Visited, current_price)
  <1>12. /\ results'[visiting].effective_collateral = e
         /\ results'[visiting].liquidation_loss = loss
    <2>1. VisitedReport.effective_collateral = e
      BY <1>1, VisitedReportFields
    <2> HIDE DEF e
    <2>2. QED
      BY <1>3, <1>4, <1>5, <1>6, <1>8, <2>1 DEF PositionResult
  <1>13. ASSUME e < 0
         PROVE  ~ positions'[visiting].is_open /\ loss >= -e
    <2>1. VisitedSize = Visited.size
      <3>1. e \in Int
        BY <1>2, EffectiveCollateralInt
      <3> HIDE DEF e
      <3>2. ~ (e > 0)
        BY <1>13, <3>1
      <3>3. QED
        BY <3>2 DEF e, VisitedSize, LiquidateSize
    <2>2. ~ positions'[visiting].is_open
      <3> DEFINE q == positions'[visiting]
      <3>1. q = [Visited EXCEPT !.size = 0, !.collateral = 0, !.is_open = FALSE]
        BY <1>7, <2>1 DEF RemainingPosition
      <3> HIDE DEF q
      <3>2. QED
        BY <1>2, <3>1, ClosedPosition DEF q
    <2>3. loss >= -e
      <3>1. VisitedLoss >= -e
        BY <1>2, <1>3, <1>13, LossCoversDeficit DEF fee, VisitedLoss
      <3>2. e \in Int /\ VisitedReport.liquidation_loss \in Nat
        BY <1>2, <1>5, EffectiveCollateralInt DEF PositionResult
      <3> HIDE DEF e
      <3>3. QED
        BY <1>3, <3>1, <3>2 DEF loss
    <2>4. QED
      BY <2>2, <2>3
  <1>14. QED
    BY <1>4, <1>9, <1>10, <1>11, <1>12, <1>13

\* A liquidation leaves the other positions and reports alone.
LEMMA LiquidatePositionFrame ==
    ASSUME IInv, LiquidatePosition
    PROVE  /\ DOMAIN positions' = DOMAIN positions
           /\ DOMAIN results' = DOMAIN results
           /\ \A i \in DOMAIN positions :
                 i # visiting => positions'[i] = positions[i] /\ results'[i] = results[i]
  BY DEF IInv, TypeOK, LiquidatePosition

LEMMA LiquidatePositionInvariant ==
    ASSUME IInv, LiquidatePosition
    PROVE  IInv'
  <1>1. /\ UNCHANGED <<snapshot, current_price, status>>
        /\ cascade_active' = TRUE
        /\ liquidated_this_round' = liquidated_this_round + VisitedSize
        /\ visiting' = visiting + 1
        /\ status = "running"
    BY DEF LiquidatePosition, Visiting
  <1>2. TypeOK
    BY DEF IInv
  <1>3. positions' \in [DOMAIN snapshot.positions -> SimPosition]
    BY <1>2, LiquidatePositionEffect DEF LiquidatePosition, TypeOK
  <1>4. results' \in [DOMAIN snapshot.positions -> PositionResult]
    BY <1>2, LiquidatePositionEffect DEF LiquidatePosition, TypeOK
  <1>5. liquidated_this_round' \in Nat \ {0}
    BY <1>1, <1>2, LiquidatePositionEffect DEF TypeOK
  <1>6. TypeOK'
    BY <1>1, <1>2, <1>3, <1>4, <1>5 DEF TypeOK
  <1>7. ActiveRoundLiquidates' /\ SettledSoFar' /\ Settled'
    BY <1>1, <1>5 DEF ActiveRoundLiquidates, SettledSoFar, Settled
  <1>8. UntouchedUnlessLiquidated'
    BY <1>1, LiquidatePositionEffect, LiquidatePositionFrame
       DEF IInv, UntouchedUnlessLiquidated
  <1>9. DeficitsCharged'
    <2>1. Config' = Config
      BY <1>1 DEF Config
    <2>2. QED
      BY <2>1, LiquidatePositionEffect, LiquidatePositionFrame DEF IInv, DeficitsCharged
  <1>10. QED
    BY <1>6, <1>7, <1>8, <1>9 DEF IInv

\* The price never rises, and stays where it is when nothing was liquidated.
LEMMA PriceFalls ==
    ASSUME TypeOK
    PROVE  /\ PriceAfterImpact \in 0 .. current_price
           /\ liquidated_this_round = 0 => PriceAfterImpact = current_price
  <1>1. current_price \in Nat /\ liquidated_this_round \in Nat
    BY DEF TypeOK
  <1>2. Impact \in Nat /\ (liquidated_this_round = 0 => Impact = 0)
    <2>1. (liquidated_this_round \div ImpactBlock) \in Nat
      BY <1>1, UnitsAssumption, QuotientNat
    <2>2. liquidated_this_round = 0 => liquidated_this_round \div ImpactBlock = 0
      BY UnitsAssumption
    <2>3. QED
      BY <2>1, <2>2 DEF Impact, PRICE_IMPACT_BPS_PER_100K
  <1>3. current_price * Impact \in Nat /\ (Impact = 0 => current_price * Impact = 0)
    BY <1>1, <1>2, ProductNat
  <1>4. PriceDrop \in Nat /\ (Impact = 0 => PriceDrop = 0)
    <2>1. (current_price * Impact) \div BPS_DENOMINATOR \in Nat
      BY <1>3, DenominatorPositive, QuotientNat
    <2>2. Impact = 0 => (current_price * Impact) \div BPS_DENOMINATOR = 0
      BY <1>3 DEF BPS_DENOMINATOR
    <2>3. QED
      BY <2>1, <2>2 DEF PriceDrop
  <1>5. QED
    BY <1>1, <1>2, <1>4 DEF PriceAfterImpact

LEMMA EndRoundInvariant ==
    ASSUME IInv, EndRound
    PROVE  IInv'
  <1>1. TypeOK /\ status = "running" /\ visiting \notin DOMAIN positions
    BY DEF IInv, EndRound, RoundOver
  <1>2. /\ current_price' = PriceAfterImpact
        /\ UNCHANGED <<snapshot, positions, results>>
    BY DEF EndRound
  <1>3. current_price' \in Nat
    BY <1>1, <1>2, PriceFalls DEF TypeOK
  <1>4. UntouchedUnlessLiquidated' /\ DeficitsCharged'
    BY <1>2 DEF IInv, UntouchedUnlessLiquidated, DeficitsCharged, Config
  <1>5. CASE cascade_active
    <2>1. /\ visiting' = 1 /\ cascade_active' = FALSE
          /\ liquidated_this_round' = 0 /\ status' = "running"
      BY <1>1, <1>5 DEF EndRound
    <2>2. TypeOK'
      <3>1. /\ visiting' \in Nat \ {0} /\ liquidated_this_round' \in Nat
            /\ status' \in {"running", "done", "overflow"}
        BY <2>1
      <3>2. cascade_active' \in BOOLEAN
        BY <2>1, Zenon
      <3>3. QED
        BY <1>1, <1>2, <1>3, <3>1, <3>2 DEF TypeOK
    <2>3. \A i \in DOMAIN positions' : ~ (i < visiting')
      BY <1>1, <1>2, <2>1, SnapshotTyped DEF TypeOK
    <2>4. ActiveRoundLiquidates' /\ SettledSoFar' /\ Settled'
      BY <2>1, <2>3 DEF ActiveRoundLiquidates, SettledSoFar, Settled
    <2>5. QED
      BY <1>4, <2>2, <2>4 DEF IInv
  <1>6. CASE ~ cascade_active
    <2>1. /\ UNCHANGED <<visiting, cascade_active, liquidated_this_round>>
          /\ status' = "done"
      BY <1>6 DEF EndRound
    <2>2. liquidated_this_round = 0
      BY <1>1, <1>6 DEF IInv, ActiveRoundLiquidates, TypeOK
    <2>3. current_price' = current_price
      BY <1>1, <1>2, <2>2, PriceFalls
    <2>4. TypeOK'
      <3>1. status' \in {"running", "done", "overflow"}
        BY <2>1
      <3>2. cascade_active' \in BOOLEAN
        BY <1>1, <2>1, Zenon DEF TypeOK
      <3>3. QED
        BY <1>1, <1>2, <1>3, <2>1, <3>1, <3>2 DEF TypeOK
    <2>5. \A i \in DOMAIN positions : i < visiting
      BY <1>1, SnapshotTyped DEF TypeOK
    <2>6. ActiveRoundLiquidates' /\ SettledSoFar'
      BY <1>2, <2>1, <2>3 DEF IInv, ActiveRoundLiquidates, SettledSoFar, Config
    <2>7. Settled'
      BY <1>2, <1>6, <2>1, <2>3, <2>5 DEF IInv, SettledSoFar, Settled, Config
    <2>8. QED
      BY <1>4, <2>4, <2>6, <2>7 DEF IInv
  <1>7. QED
    BY <1>5, <1>6

LEMMA OverflowInvariant ==
    ASSUME IInv, Overflow
    PROVE  IInv'
  BY DEF IInv, Overflow, TypeOK, ActiveRoundLiquidates, SettledSoFar, Settled,
     UntouchedUnlessLiquidated, DeficitsCharged, Config

LEMMA StepInvariant == IInv /\ [Next]_vars => IInv'
  <1> SUFFICES ASSUME IInv, [Next]_vars PROVE IInv'
    OBVIOUS
  <1>1. CASE SkipPosition
    BY <1>1, SkipPositionInvariant
  <1>2. CASE KeepPosition
    BY <1>2, KeepPositionInvariant
  <1>3. CASE LiquidatePosition
    BY <1>3, LiquidatePositionInvariant
  <1>4. CASE EndRound
    BY <1>4, EndRoundInvariant
  <1>5. CASE Overflow
    BY <1>5, OverflowInvariant
  <1>6. CASE UNCHANGED vars
    BY <1>6 DEF vars, IInv, TypeOK, ActiveRoundLiquidates, SettledSoFar, Settled,
       UntouchedUnlessLiquidated, DeficitsCharged, Config
  <1>7. QED
    BY <1>1, <1>2, <1>3, <1>4, <1>5, <1>6 DEF Next

-----------------------------------------------------------------------------
(* Theorems                                                                *)

LEMMA InvariantHolds == Spec => []IInv
  BY InitInvariant, StepInvariant, PTL DEF Spec

\* No amount the code keeps unsigned goes below zero, whatever book, margins,
\* fee, target and shock the run starts from.
THEOREM TypeCorrect == Spec => []TypeOK
  <1>1. IInv => TypeOK
    BY DEF IInv
  <1>2. QED
    BY <1>1, InvariantHolds, PTL

\* The loop of rounds goes round exactly when it has liquidated something.
THEOREM RoundsMakeProgress == Spec => []ActiveRoundLiquidates
  <1>1. IInv => ActiveRoundLiquidates
    BY DEF IInv
  <1>2. QED
    BY <1>1, InvariantHolds, PTL

\* Who is not liquidated keeps position and collateral, and pays nothing.
THEOREM OthersAreUntouched == Spec => []UntouchedUnlessLiquidated
  <1>1. IInv => UntouchedUnlessLiquidated
    BY DEF IInv
  <1>2. QED
    BY <1>1, InvariantHolds, PTL

\* The cascade stops only where nothing more falls: no open position is under
\* the maintenance margin at the final price, and the reports say so.
THEOREM CascadeSettles == Spec => []Settled
  <1>1. IInv => Settled
    BY DEF IInv
  <1>2. QED
    BY <1>1, InvariantHolds, PTL

\* What a position owes when it is last looked at has been charged, and the
\* position closed, through any number of rounds.
THEOREM DeficitsAreCharged == Spec => []DeficitsCharged
  <1>1. IInv => DeficitsCharged
    BY DEF IInv
  <1>2. QED
    BY <1>1, InvariantHolds, PTL

Falls ==
    /\ current_price' <= current_price
    /\ \A i \in DOMAIN positions :
          /\ positions[i].size >= positions'[i].size
          /\ positions[i].collateral >= positions'[i].collateral
          /\ positions'[i].is_open => positions[i].is_open

LEMMA StepFalls == IInv /\ [Next]_vars => [Falls]_vars
  <1> SUFFICES ASSUME IInv, Next PROVE Falls
    OBVIOUS
  <1>1. TypeOK
    BY DEF IInv
  <1>2. /\ current_price \in Nat
        /\ \A i \in DOMAIN positions : positions[i].size \in Nat /\ positions[i].collateral \in Nat
    BY <1>1 DEF TypeOK, SimPosition
  <1>3. CASE SkipPosition \/ KeepPosition \/ Overflow
    BY <1>2, <1>3 DEF Falls, SkipPosition, KeepPosition, Overflow
  <1>4. CASE LiquidatePosition
    <2>1. current_price' = current_price
      BY <1>4 DEF LiquidatePosition
    <2>2. positions'[visiting].size \in Nat /\ positions'[visiting].collateral \in Nat
      BY <1>4, LiquidatePositionEffect DEF SimPosition
    <2> SUFFICES ASSUME NEW i \in DOMAIN positions
                 PROVE  /\ positions[i].size >= positions'[i].size
                        /\ positions[i].collateral >= positions'[i].collateral
                        /\ positions'[i].is_open => positions[i].is_open
      BY <1>2, <2>1 DEF Falls
    <2>3. CASE i = visiting
      BY <1>2, <1>4, <2>2, <2>3, LiquidatePositionEffect DEF Visited
    <2>4. CASE i # visiting
      BY <1>2, <1>4, <2>4, LiquidatePositionFrame
    <2>5. QED
      BY <2>3, <2>4
  <1>5. CASE EndRound
    BY <1>1, <1>2, <1>5, PriceFalls DEF EndRound, Falls
  <1>6. QED
    BY <1>3, <1>4, <1>5 DEF Next

\* Sizes, collateral and the price only fall, and nothing reopens.
THEOREM CascadeOnlyFalls == Spec => NothingGrows
  <1>1. Spec => [][Falls]_vars
    BY InvariantHolds, StepFalls, PTL DEF Spec
  <1>2. QED
    BY <1>1 DEF NothingGrows, Falls

Progresses ==
    \/ status' # "running"
    \/ \E i \in DOMAIN positions : positions'[i].size < positions[i].size
    \/ /\ positions' = positions
       /\ \/ cascade_active /\ ~ cascade_active'
          \/ /\ cascade_active' = cascade_active
             /\ visiting \in DOMAIN positions
             /\ visiting' = visiting + 1

LEMMA StepProgresses == IInv /\ [Next]_vars => [Progresses]_vars
  <1> SUFFICES ASSUME IInv, Next PROVE Progresses
    OBVIOUS
  <1>1. CASE SkipPosition \/ KeepPosition
    BY <1>1 DEF SkipPosition, KeepPosition, Visiting, Progresses
  <1>2. CASE LiquidatePosition
    BY <1>2, LiquidatePositionEffect DEF LiquidatePosition, Visiting, Visited, Progresses
  <1>3. CASE EndRound \/ Overflow
    BY <1>3 DEF EndRound, Overflow, Progresses
  <1>4. QED
    BY <1>1, <1>2, <1>3 DEF Next

\* No step of the cascade goes round in a circle: sizes fall, or an active round
\* is over, or the round reaches its next position.
THEOREM CascadeProgresses == Spec => StepsMakeProgress
  <1>1. Spec => [][Progresses]_vars
    BY InvariantHolds, StepProgresses, PTL DEF Spec
  <1>2. QED
    BY <1>1 DEF StepsMakeProgress, Progresses

=============================================================================
