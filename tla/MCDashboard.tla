---------------------------- MODULE MCDashboard ----------------------------
(***************************************************************************)
(* Two of the five scenarios the app ships with, the first tab's and one   *)
(* that trips the breaker: both deplete the fund.  Money in dollars.       *)
(***************************************************************************)
EXTENDS Dashboard

CONSTANTS volatility_shock, flash_crash

MCScenarios == {volatility_shock, flash_crash}

MCResult ==
    [s \in MCScenarios |->
        CASE s = volatility_shock ->
                [risk_score |-> 516632, total_losses |-> 71590, total_bad_debt |-> 14465]
          [] s = flash_crash ->
                [risk_score |-> 1000000, total_losses |-> 126850, total_bad_debt |-> 69725]]

\* What the theorem about the verdicts assumes of the results.
ASSUME ShippedColoursAgree == ColoursAgree
=============================================================================
