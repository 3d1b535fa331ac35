------------------------------ MODULE MCMarket ------------------------------
EXTENDS Market, TLC

Prices(p0, p1, p2) == 0 :> p0 @@ 1 :> p1 @@ 2 :> p2

\* Accepted curves with a wide and with no spread, and proposals check_and_set_prices
\* refuses: bid above ask, a flat step, a price above MAX_PRICE.
MCPriceCurves ==
  {[bid_prices |-> Prices(0, 1, 2), ask_prices |-> Prices(2, 4, 5)],
   [bid_prices |-> Prices(1, 2, 3), ask_prices |-> Prices(1, 2, 3)],
   [bid_prices |-> Prices(2, 3, 4), ask_prices |-> Prices(1, 3, 5)],
   [bid_prices |-> Prices(1, 1, 2), ask_prices |-> Prices(1, 2, 3)],
   [bid_prices |-> Prices(1, 2, 3), ask_prices |-> Prices(1, 2, 8)]}
\* One curve with a wide spread, so that fees are large on a small market.
MCWideCurve == {[bid_prices |-> Prices(0, 1, 2), ask_prices |-> Prices(2, 4, 6)]}
=============================================================================
