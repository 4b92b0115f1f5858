---------------------------- MODULE MCRiskEngine ----------------------------
(***************************************************************************)
(* Small instances of RiskEngine.  SCALE = 1: prices and funds in dollars, *)
(* leverage in whole multiples.  Scores are out of 10, the threshold is 7. *)
(***************************************************************************)
EXTENDS RiskEngine, TLC

CONSTANTS u1, u2

\* Keys are interchangeable: the first to call initialize_protocol becomes the
\* authority, and every property below is about safety.
MCUsers == {u1, u2}
MCSymmetry == Permutations(MCUsers)

\* A score that tells apart every input the guest reads: with the demo book the
\* downward shock is over the threshold at $140 and under it at $150.
MCStressScore(snap) ==
    IF snap.book = EmptyBook THEN 0
    ELSE (IF snap.shock_direction_up THEN 1 ELSE 5)
       + (IF snap.oracle_price < 150 THEN 3 ELSE 0)
       + (IF snap.insurance_fund < DEFAULT_INSURANCE_FUND THEN 1 ELSE 0)
       + (IF snap.maintenance_margin_bps > 500 THEN 1 ELSE 0)

\* $150 with the target exponent, $140 through a scaling and through one whose
\* result the cast to u64 cuts, and two that do not pass: not positive, and
\* rounded down to zero.  The shock of 30% divides these prices.
MCFeeds == {[price |-> 150, expo |-> 0], [price |-> 14, expo |-> -1],
            [price |-> 200000014, expo |-> -1],
            [price |-> 0, expo |-> 0], [price |-> 4, expo |-> 1]}
MCPrices == {140, 150}

\* 30% of $141 is not a whole number of dollars, the unit of this instance.
MCOddFeeds == {[price |-> 141, expo |-> 0]}
MCOddPrices == {141, 150}

\* Danger that can be proved, at $140, and danger that cannot, at $141, which one
\* feed gives through the cast.
MCBreakerFeeds == {[price |-> 150, expo |-> 0], [price |-> 14, expo |-> -1],
                   [price |-> 2000000141, expo |-> 0], [price |-> 4, expo |-> 1]}
MCBreakerPrices == {140, 141, 150}
MCFunds == {DEFAULT_INSURANCE_FUND, 0}

\* A fund that no snapshot gets wrong, for the runs about money and about scripts.
MCCalmFunds == {DEFAULT_INSURANCE_FUND}

=============================================================================
