----------------------------- MODULE CurveValue -----------------------------
(***************************************************************************)
(* The exact value of a supply under a price curve, without any rounding:  *)
(* the reference that the pricing functions of Curve are measured against. *)
(* All amounts are scaled to whole numbers: with Unit(w) = 2 * SCALE * w,  *)
(* Area(p, w, n) is Unit(w) times the integral of p from 0 to the supply   *)
(* n, a quote amount q is worth Worth(w, q), and an area costs Priced(a).  *)
(***************************************************************************)
EXTENDS Curve

\* A curve as set_market_prices accepts it, or before it is set: it rises in every interval,
\* or the interval is free.
Climbs(p) ==
  /\ p \in [Index -> Nat]
  /\ \A i \in 1..INTERVAL_NUMBER : p[i - 1] < p[i] \/ (p[i - 1] = 0 /\ p[i] = 0)

Unit(w) == 2 * SCALE * w

\* The integral over one interval filled up to x, for a price that goes from p0 to p1.
IntervalArea(p0, p1, w, x) == x * ((p1 - p0) * x + 2 * p0 * w)

\* The integral up to a normalised supply.
AreaAt(p, w, supply) ==
  SumTo([k \in 1..INTERVAL_NUMBER |-> IntervalArea(p[k - 1], p[k], w, Filled(k, supply, w))],
        INTERVAL_NUMBER)

Area(p, w, n) == AreaAt(p, w, Normalized(n))

Worth(w, quote) == quote * SCALE * Unit(w)
Priced(area) == area * QUOTE_PRECISION
=============================================================================
