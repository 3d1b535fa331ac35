---------------------------- MODULE MCTokenMill -----------------------------
EXTENDS TokenMill, TLC

Prices(p0, p1) == 0 :> p0 @@ 1 :> p1

\* One interval with a wide spread.
MCCurves == {[bid_prices |-> Prices(0, 2), ask_prices |-> Prices(4, 8)]}

\* A plan that has a cliff and a linear part.
MCSchedules == {[start |-> 1, vesting_duration |-> 2, cliff_duration |-> 1]}
=============================================================================
