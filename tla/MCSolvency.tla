----------------------------- MODULE MCSolvency -----------------------------
(***************************************************************************)
(* Small instances of Liquidation and Solvency.  Prices are in dimes,      *)
(* amounts in hundreds of dollars, scores out of 100.                      *)
(***************************************************************************)
EXTENDS Solvency

Position(collateral, size, entry, long) ==
    [collateral |-> collateral, size |-> size, entry_price |-> entry,
     is_long |-> long, is_open |-> TRUE]

\* The book init_positions.rs writes.
DemoPositions ==
    <<Position(100, 1000, 1500, TRUE), Position(50, 750, 1550, TRUE),
      Position(30, 600, 1600, TRUE), Position(80, 400, 1450, FALSE),
      Position(20, 500, 1580, TRUE)>>

\* Bankrupt or at break-even after a shock of 3000; one whose fee exceeds its
\* collateral; a short whose margin ratio overflows when the price falls, and
\* whose liquidation after a rise is large enough to rescue what is left of it;
\* one without an entry price; one that is closed.
Menu ==
    {Position(100, 1000, 1500, TRUE), Position(300, 1000, 1500, TRUE),
     Position(2, 1000, 1040, TRUE), Position(9500, 25000, 1450, FALSE),
     Position(3, 400, 0, TRUE),
     [Position(10, 100, 1500, TRUE) EXCEPT !.is_open = FALSE]}

RiskConfig(margin, fee, target) ==
    [maintenance_margin_bps |-> margin, liquidation_fee_bps |-> fee,
     liquidation_target_margin_bps |-> target, circuit_breaker_threshold |-> 70]

\* The defaults, and a target that a later change left under the maintenance margin.
Configs == {RiskConfig(500, 250, 800), RiskConfig(500, 250, 300)}

MCSnapshots ==
    [oracle_price : {1500}, insurance_fund : {0, 500},
     positions : {DemoPositions} \union [1 .. 3 -> Menu], risk_config : Configs]

\* The demo protocol as it is initialized.
DefaultSnapshots ==
    [oracle_price : {1500}, insurance_fund : {500},
     positions : {DemoPositions}, risk_config : {RiskConfig(500, 250, 800)}]

MCShocks == {0, 300, 3000, 5000}

=============================================================================
