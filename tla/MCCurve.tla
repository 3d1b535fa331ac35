------------------------------- MODULE MCCurve ------------------------------
EXTENDS CurveCheck, TLC

Prices(p0, p1, p2) == 0 :> p0 @@ 1 :> p1 @@ 2 :> p2

\* Two intervals: a spread, no spread, a free start with a steep end, and a curve whose
\* last interval is worth more than U64_MAX; the market before its prices are set.
MCCurves ==
  {[bid_prices |-> Prices(1, 2, 4), ask_prices |-> Prices(2, 3, 5)],
   [bid_prices |-> Prices(1, 3, 4), ask_prices |-> Prices(1, 3, 4)],
   [bid_prices |-> Prices(0, 1, 7), ask_prices |-> Prices(0, 2, 9)],
   [bid_prices |-> Prices(1, 5, 20), ask_prices |-> Prices(3, 6, 25)],
   [bid_prices |-> Prices(0, 0, 0), ask_prices |-> Prices(0, 0, 0)]}

\* One of these curves, with prices set.
MCPricedCurve == {[bid_prices |-> Prices(1, 2, 4), ask_prices |-> Prices(2, 3, 5)]}
=============================================================================
