------------------------------- MODULE MCPaper -------------------------------
(***************************************************************************)
(* PaperTrading on one token: one resting order and three market trades,   *)
(* or two orders that share the account or the inventory and one trade.    *)
(***************************************************************************)
EXTENDS PaperTrading

CONSTANTS i1, i2

Ask(side, price, tif) == [token |-> "yes", side |-> side, price |-> price, tif |-> tif]
RestingBuy == Ask("BUY", 2, "GTC")
RestingSale == Ask("SELL", 1, "GTC")

Alone(first) == [ask |-> (i1 :> first), events |-> 3,
                 config |-> [quote |-> 6, shares |-> [t \in Tokens |-> 2]]]
Both(first, second, quote) ==
  [ask |-> (i1 :> first) @@ (i2 :> second), events |-> 1,
   config |-> [quote |-> quote, shares |-> [t \in Tokens |-> 2]]]

\* One trade sweeps both purchases; an immediate order meets the reservation of a
\* resting one.
MCScenarios ==
  {Alone(RestingBuy), Alone(RestingSale),
   Both(RestingBuy, RestingBuy, 12),
   Both(RestingBuy, Ask("BUY", 2, "FAK"), 8),
   Both(RestingSale, Ask("SELL", 1, "FOK"), 0)}
=============================================================================
