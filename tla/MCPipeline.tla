----------------------------- MODULE MCPipeline -----------------------------
(***************************************************************************)
(* A small instance of Pipeline: the operator and one other key, a price   *)
(* that leaves $150, at which the demo book is safe, for $140, at which it *)
(* is not, or for $141, whose downward shock the program refuses.          *)
(***************************************************************************)
EXTENDS Pipeline, MCRiskEngine

MCPipelineFeeds == {[price |-> 150, expo |-> 0], [price |-> 140, expo |-> 0],
                    [price |-> 141, expo |-> 0]}
MCPipelinePrices == {140, 141, 150}
=============================================================================
