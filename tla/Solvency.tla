------------------------------ MODULE Solvency ------------------------------
(***************************************************************************)
(* What the guest commits to after the cascade: insurance, bad debt and    *)
(* the risk score the breaker is tripped by.  The sums over the book are   *)
(* loops, here one loop with an accumulator for each; what is computed     *)
(* from them are operators on the state the loop ends in.                  *)
(*                                                                         *)
(* The arithmetic is that of the guest, a release build of a workspace of  *)
(* its own, where a plain sum or difference wraps around; the command      *)
(* line's build panics there.                                              *)
(***************************************************************************)
EXTENDS Liquidation

CONSTANT RISK_SCORE_MAX

ASSUME ScoreAssumption == RISK_SCORE_MAX \in Nat \ {0}

\* The fund of a snapshot is a u64.
ASSUME FundAssumption == \A s \in Snapshots : s.insurance_fund <= U64_MAX

VARIABLES
    summing,                \* the index the sums have reached
    total_losses,
    total_fees,
    total_collateral

sums == <<summing, total_losses, total_fees, total_collateral>>
solvencyVars == <<vars, sums>>

AtMost(n, max) == IF n > max THEN max ELSE n

\* What a u64 keeps of an integer.
Wrapped(n) == n % (U64_MAX + 1)

-----------------------------------------------------------------------------
(* The sums                                                                *)

SolvencyInit ==
    /\ Init
    /\ summing = 1
    /\ total_losses = 0
    /\ total_fees = 0
    /\ total_collateral = 0

\* The collateral of the snapshot, not what the cascade has left of it.
OpenCollateral(p) == IF p.is_open THEN p.collateral ELSE 0

\* Mutant: deficits of positions that were not liquidated count as losses.
AddReportOfDeficits ==
    /\ status = "done"
    /\ summing \in DOMAIN results
    /\ total_losses' = Wrapped(total_losses + (IF results[summing].unrealized_pnl < 0
                                              THEN -results[summing].unrealized_pnl ELSE 0))
    /\ total_fees' = Wrapped(total_fees + results[summing].liquidation_fee_paid)
    /\ total_collateral' =
          Wrapped(total_collateral + OpenCollateral(snapshot.positions[summing]))
    /\ summing' = summing + 1
    /\ UNCHANGED vars

AddReport ==
    /\ status = "done"
    /\ summing \in DOMAIN results
    /\ total_losses' = Wrapped(total_losses + results[summing].liquidation_loss)
    /\ total_fees' = Wrapped(total_fees + results[summing].liquidation_fee_paid)
    /\ total_collateral' =
          Wrapped(total_collateral + OpenCollateral(snapshot.positions[summing]))
    /\ summing' = summing + 1
    /\ UNCHANGED vars

Cascade == Next /\ UNCHANGED sums

SolvencyNext == Cascade \/ AddReport

SolvencySpec == SolvencyInit /\ [][SolvencyNext]_solvencyVars

\* The run is one thread that nothing stops.
SolvencyFairSpec == SolvencySpec /\ WF_solvencyVars(SolvencyNext)

Computed == status = "done" /\ summing \notin DOMAIN results

-----------------------------------------------------------------------------
(* The results, once Computed                                              *)

InsuranceAfterFees == AtMost(snapshot.insurance_fund + total_fees, U64_MAX)

InsuranceRemaining ==
    IF total_losses <= InsuranceAfterFees THEN InsuranceAfterFees - total_losses ELSE 0

BadDebt ==
    IF total_losses <= InsuranceAfterFees THEN 0 ELSE total_losses - InsuranceAfterFees

ProtocolSolvent == BadDebt = 0

\* insurance_fund - insurance_remaining wraps when fees exceed losses.
Depletion ==
    IF snapshot.insurance_fund = 0 THEN 0
    ELSE (Wrapped(snapshot.insurance_fund - InsuranceRemaining) * RISK_SCORE_MAX)
             \div snapshot.insurance_fund

RiskScore ==
    IF total_collateral = 0 THEN IF BadDebt > 0 THEN RISK_SCORE_MAX ELSE 0
    ELSE IF BadDebt > 0
         THEN AtMost(Wrapped((BadDebt * RISK_SCORE_MAX) \div total_collateral), RISK_SCORE_MAX)
         ELSE AtMost(Wrapped(Depletion), RISK_SCORE_MAX)

-----------------------------------------------------------------------------
(* Properties                                                              *)

Liquidated == {i \in DOMAIN results : results[i].is_liquidated}

\* A shock that liquidates nobody leaves the fund as it was and scores 0.
NoLiquidationNoRisk ==
    Computed /\ Liquidated = {} =>
        ProtocolSolvent /\ InsuranceRemaining = snapshot.insurance_fund /\ RiskScore = 0

\* The public values hold a score the program's threshold can be compared with,
\* wherever the depletion wraps and however far the debt exceeds the collateral.
ScoreInRange == Computed => RiskScore \in 0..RISK_SCORE_MAX

\* What solvency.rs says of its score: without bad debt it measures the
\* depletion of the fund, so that a fund that lost nothing scores 0.
NoDepletionNoRisk ==
    Computed /\ ProtocolSolvent /\ InsuranceRemaining >= snapshot.insurance_fund =>
        RiskScore = 0
=============================================================================
