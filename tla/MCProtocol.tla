----------------------------- MODULE MCProtocol -----------------------------
(***************************************************************************)
(* The small engine of MCRiskEngine with its client and the service.       *)
(***************************************************************************)
EXTENDS Protocol, MCRiskEngine

\* The prices at which the demo book is in no danger, in danger, and in danger that
\* cannot be proved.
MCProtocolFeeds == {[price |-> price, expo |-> 0] : price \in MCBreakerPrices}
=============================================================================
