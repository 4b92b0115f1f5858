---------------------------- MODULE SolvencyProofs ----------------------------
(***************************************************************************)
(* Machine-checked theorems about what the guest commits to: for every     *)
(* book, shock and fund, and although every sum and difference wraps.      *)
(***************************************************************************)
EXTENDS Solvency, LiquidationProofs

-----------------------------------------------------------------------------
(* The sums leave the cascade alone                                        *)

LEMMA SolvencyStepCascades == SolvencyNext => [Next]_vars
  BY DEF SolvencyNext, Cascade, AddReport

\* The run with its sums is a run of the cascade, so that what is proved of the
\* cascade holds of it.
THEOREM SolvencyRunsCascade == SolvencySpec => Spec
  <1>1. SolvencyInit => Init
    BY DEF SolvencyInit
  <1>2. [SolvencyNext]_solvencyVars => [Next]_vars
    BY SolvencyStepCascades DEF solvencyVars
  <1>3. QED
    BY <1>1, <1>2, PTL DEF SolvencySpec, Spec

LEMMA StepRuns == Next => status = "running"
  BY DEF Next, SkipPosition, KeepPosition, LiquidatePosition, EndRound, Overflow,
     Visiting, RoundOver

-----------------------------------------------------------------------------
(* Arithmetic that wraps                                                   *)

LEMMA WrappedRange == \A n \in Int : Wrapped(n) \in 0 .. U64_MAX
  BY UnitsAssumption DEF Wrapped

LEMMA WrappedZero == Wrapped(0) = 0
  BY UnitsAssumption DEF Wrapped

LEMMA AtMostRange ==
    ASSUME NEW n \in Nat, NEW max \in Nat
    PROVE  AtMost(n, max) \in 0 .. max /\ (n <= max => AtMost(n, max) = n)
  BY DEF AtMost

-----------------------------------------------------------------------------
(* The invariant                                                           *)

\* The totals are u64s, and nothing is summed before the cascade is over.
SumsTyped ==
    /\ summing \in Nat \ {0}
    /\ total_losses \in 0 .. U64_MAX
    /\ total_fees \in 0 .. U64_MAX
    /\ total_collateral \in 0 .. U64_MAX
    /\ status # "done" => summing = 1 /\ total_losses = 0 /\ total_fees = 0

\* The reports of a book nobody of which is liquidated add up to nothing.
NothingCharged == Liquidated = {} => total_losses = 0 /\ total_fees = 0

SolvencyInv == IInv /\ SumsTyped /\ NothingCharged

LEMMA SolvencyInitInvariant == SolvencyInit => SolvencyInv
  <1> SUFFICES ASSUME SolvencyInit PROVE SolvencyInv
    OBVIOUS
  <1>1. IInv
    BY InitInvariant DEF SolvencyInit
  <1>2. SumsTyped /\ NothingCharged
    BY UnitsAssumption DEF SolvencyInit, SumsTyped, NothingCharged
  <1>3. QED
    BY <1>1, <1>2 DEF SolvencyInv

\* A report that is added is one of a position of the book.
LEMMA AddedReportTyped ==
    ASSUME TypeOK, AddReport
    PROVE  /\ summing \in DOMAIN positions
           /\ results[summing] \in PositionResult
           /\ OpenCollateral(snapshot.positions[summing]) \in Nat
  <1>1. summing \in DOMAIN snapshot.positions /\ results[summing] \in PositionResult
    BY DEF TypeOK, AddReport
  <1>2. snapshot.positions \in Seq(SimPosition)
    BY SnapshotTyped DEF Snapshot
  <1>3. snapshot.positions[summing] \in SimPosition
    BY <1>1, <1>2
  <1>4. OpenCollateral(snapshot.positions[summing]) \in Nat
    BY <1>3 DEF OpenCollateral, SimPosition
  <1>5. QED
    BY <1>1, <1>4 DEF TypeOK

LEMMA AddReportInvariant ==
    ASSUME SolvencyInv, AddReport
    PROVE  SumsTyped' /\ NothingCharged'
  <1>1. TypeOK /\ SumsTyped /\ UntouchedUnlessLiquidated
    BY DEF SolvencyInv, IInv
  <1>2. /\ summing \in DOMAIN positions
        /\ results[summing].liquidation_loss \in Nat
        /\ results[summing].liquidation_fee_paid \in Nat
        /\ OpenCollateral(snapshot.positions[summing]) \in Nat
    BY <1>1, AddedReportTyped DEF PositionResult
  <1>3. SumsTyped'
    <2>1. /\ total_losses + results[summing].liquidation_loss \in Int
          /\ total_fees + results[summing].liquidation_fee_paid \in Int
          /\ total_collateral + OpenCollateral(snapshot.positions[summing]) \in Int
      BY <1>1, <1>2, UnitsAssumption DEF SumsTyped
    <2>2. /\ total_losses' \in 0 .. U64_MAX
          /\ total_fees' \in 0 .. U64_MAX
          /\ total_collateral' \in 0 .. U64_MAX
      BY <2>1, WrappedRange DEF AddReport
    <2>3. summing' \in Nat \ {0} /\ status' = "done"
      BY <1>1 DEF SumsTyped, AddReport, vars
    <2>4. QED
      BY <2>2, <2>3 DEF SumsTyped
  <1>4. NothingCharged'
    <2> SUFFICES ASSUME Liquidated' = {} PROVE total_losses' = 0 /\ total_fees' = 0
      BY DEF NothingCharged
    <2>1. Liquidated = {}
      BY DEF AddReport, vars, Liquidated
    <2>2. ~ results[summing].is_liquidated
      BY <2>1, Zenon DEF Liquidated, AddReport
    <2>3. /\ results[summing].liquidation_loss = 0
          /\ results[summing].liquidation_fee_paid = 0
      BY <1>1, <1>2, <2>2 DEF UntouchedUnlessLiquidated
    <2>4. total_losses = 0 /\ total_fees = 0
      BY <2>1 DEF SolvencyInv, NothingCharged
    <2>5. QED
      BY <2>3, <2>4, WrappedZero DEF AddReport
  <1>5. QED
    BY <1>3, <1>4

LEMMA SolvencyStepInvariant ==
    SolvencyInv /\ [SolvencyNext]_solvencyVars => SolvencyInv'
  <1> SUFFICES ASSUME SolvencyInv, [SolvencyNext]_solvencyVars PROVE SolvencyInv'
    OBVIOUS
  <1>1. IInv'
    BY SolvencyStepCascades, StepInvariant DEF SolvencyInv, solvencyVars
  <1>2. CASE Cascade
    \* The sums are still 0, and a cascade does not touch them.
    <2>1. status = "running" /\ UNCHANGED sums
      BY <1>2, StepRuns DEF Cascade
    <2>2. SumsTyped /\ total_losses = 0 /\ total_fees = 0 /\ summing = 1
      BY <2>1 DEF SolvencyInv, SumsTyped
    <2>3. SumsTyped' /\ NothingCharged'
      BY <2>1, <2>2 DEF sums, SumsTyped, NothingCharged
    <2>4. QED
      BY <1>1, <2>3 DEF SolvencyInv
  <1>3. CASE AddReport
    BY <1>1, <1>3, AddReportInvariant DEF SolvencyInv
  <1>4. CASE UNCHANGED solvencyVars
    <2>1. SumsTyped' /\ NothingCharged'
      BY <1>4 DEF SolvencyInv, SumsTyped, NothingCharged, Liquidated, solvencyVars, sums, vars
    <2>2. QED
      BY <1>1, <2>1 DEF SolvencyInv
  <1>5. QED
    BY <1>2, <1>3, <1>4 DEF SolvencyNext

LEMMA SolvencyInvariantHolds == SolvencySpec => []SolvencyInv
  BY SolvencyInitInvariant, SolvencyStepInvariant, PTL DEF SolvencySpec

-----------------------------------------------------------------------------
(* What is computed from the sums                                          *)

LEMMA FundTyped ==
    ASSUME TypeOK
    PROVE  snapshot.insurance_fund \in 0 .. U64_MAX
  <1>1. snapshot.insurance_fund \in Nat /\ snapshot.insurance_fund <= U64_MAX
    BY SnapshotTyped, FundAssumption DEF TypeOK, Snapshot
  <1>2. QED
    BY <1>1, UnitsAssumption

LEMMA InsuranceTyped ==
    ASSUME TypeOK, SumsTyped
    PROVE  /\ InsuranceRemaining \in 0 .. U64_MAX
           /\ BadDebt \in 0 .. U64_MAX
  <1>1. /\ snapshot.insurance_fund + total_fees \in Nat
        /\ total_losses \in 0 .. U64_MAX
        /\ U64_MAX \in Nat
    BY FundTyped, UnitsAssumption DEF SumsTyped
  <1>2. InsuranceAfterFees \in 0 .. U64_MAX
    BY <1>1, AtMostRange DEF InsuranceAfterFees
  <1>3. QED
    BY <1>1, <1>2 DEF InsuranceRemaining, BadDebt

LEMMA DepletionNat ==
    ASSUME TypeOK, SumsTyped
    PROVE  Depletion \in Nat
  <1> DEFINE used == Wrapped(snapshot.insurance_fund - InsuranceRemaining)
  <1>1. snapshot.insurance_fund \in Nat /\ RISK_SCORE_MAX \in Nat
    BY FundTyped, ScoreAssumption
  <1>2. used \in Nat
    <2>1. snapshot.insurance_fund - InsuranceRemaining \in Int
      BY <1>1, InsuranceTyped
    <2>2. QED
      BY <2>1, WrappedRange
  <1> HIDE DEF used
  <1>3. CASE snapshot.insurance_fund = 0
    BY <1>3 DEF Depletion
  <1>4. CASE snapshot.insurance_fund # 0
    <2>1. used * RISK_SCORE_MAX \in Nat
      BY <1>1, <1>2, ProductNat
    <2>2. (used * RISK_SCORE_MAX) \div snapshot.insurance_fund \in Nat
      BY <1>1, <1>4, <2>1, QuotientNat
    <2>3. QED
      BY <1>4, <2>2 DEF Depletion, used
  <1>5. QED
    BY <1>3, <1>4

LEMMA CappedScore == \A n \in Nat : AtMost(Wrapped(n), RISK_SCORE_MAX) \in 0 .. RISK_SCORE_MAX
  <1> SUFFICES ASSUME NEW n \in Nat
               PROVE  AtMost(Wrapped(n), RISK_SCORE_MAX) \in 0 .. RISK_SCORE_MAX
    OBVIOUS
  <1>1. Wrapped(n) \in Nat
    BY WrappedRange
  <1>2. QED
    BY <1>1, AtMostRange, ScoreAssumption

LEMMA ScoreBounded ==
    ASSUME TypeOK, SumsTyped
    PROVE  RiskScore \in 0 .. RISK_SCORE_MAX
  <1>1. CASE total_collateral = 0
    BY <1>1, ScoreAssumption DEF RiskScore
  <1>2. CASE total_collateral # 0 /\ BadDebt > 0
    <2>1. BadDebt \in Nat /\ RISK_SCORE_MAX \in Nat /\ total_collateral \in Nat \ {0}
      BY <1>2, InsuranceTyped, ScoreAssumption DEF SumsTyped
    <2>2. BadDebt * RISK_SCORE_MAX \in Nat
      BY <2>1, ProductNat
    <2>3. (BadDebt * RISK_SCORE_MAX) \div total_collateral \in Nat
      BY <2>1, <2>2, QuotientNat
    <2>4. QED
      BY <1>2, <2>3, CappedScore DEF RiskScore
  <1>3. CASE total_collateral # 0 /\ ~ (BadDebt > 0)
    BY <1>3, DepletionNat, CappedScore DEF RiskScore
  <1>4. QED
    BY <1>1, <1>2, <1>3

\* Without losses and fees the fund is as it was.
LEMMA NothingChargedNothingScored ==
    ASSUME TypeOK, SumsTyped, total_losses = 0, total_fees = 0
    PROVE  ProtocolSolvent /\ InsuranceRemaining = snapshot.insurance_fund /\ RiskScore = 0
  <1>1. snapshot.insurance_fund \in 0 .. U64_MAX /\ U64_MAX \in Nat
    BY FundTyped, UnitsAssumption
  <1>2. InsuranceAfterFees = snapshot.insurance_fund
    BY <1>1 DEF InsuranceAfterFees, AtMost
  <1>3. InsuranceRemaining = snapshot.insurance_fund /\ BadDebt = 0
    BY <1>1, <1>2 DEF InsuranceRemaining, BadDebt
  <1>4. Depletion = 0
    <2>1. Wrapped(snapshot.insurance_fund - InsuranceRemaining) = 0
      BY <1>1, <1>3, WrappedZero
    <2>2. 0 * RISK_SCORE_MAX = 0
      BY ScoreAssumption
    <2>3. snapshot.insurance_fund # 0 => 0 \div snapshot.insurance_fund = 0
      BY <1>1
    <2>4. QED
      BY <2>1, <2>2, <2>3 DEF Depletion
  <1>5. AtMost(Wrapped(0), RISK_SCORE_MAX) = 0
    BY WrappedZero, ScoreAssumption DEF AtMost
  <1>6. RiskScore = 0
    BY <1>3, <1>4, <1>5 DEF RiskScore
  <1>7. QED
    BY <1>3, <1>6 DEF ProtocolSolvent

-----------------------------------------------------------------------------
(* Theorems                                                                *)

\* Totals stay u64s, and are not touched before the cascade has ended.
THEOREM SumsTypeCorrect == SolvencySpec => []SumsTyped
  <1>1. SolvencyInv => SumsTyped
    BY DEF SolvencyInv
  <1>2. QED
    BY <1>1, SolvencyInvariantHolds, PTL

\* A shock that liquidates nobody leaves the fund as it was and scores 0,
\* whatever the book, the fund and the margins.
THEOREM QuietShockScoresZero == SolvencySpec => []NoLiquidationNoRisk
  <1>1. SolvencyInv => NoLiquidationNoRisk
    BY NothingChargedNothingScored
       DEF SolvencyInv, IInv, NothingCharged, NoLiquidationNoRisk
  <1>2. QED
    BY <1>1, SolvencyInvariantHolds, PTL

\* The score is one the program's threshold can be compared with, although the
\* sums and the depletion may wrap.
THEOREM ScoreStaysInRange == SolvencySpec => []ScoreInRange
  <1>1. SolvencyInv => ScoreInRange
    BY ScoreBounded DEF SolvencyInv, IInv, ScoreInRange
  <1>2. QED
    BY <1>1, SolvencyInvariantHolds, PTL

=============================================================================
