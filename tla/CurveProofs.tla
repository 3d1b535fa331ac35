----------------------------- MODULE CurveProofs -----------------------------
(***************************************************************************)
(* The pricing functions against exact areas, for every price curve, every *)
(* supply and every amount: each rounding goes the market's way, and no    *)
(* swap leaves the supply.  The two walks over the intervals are followed  *)
(* round by round with an invariant, like the loops they model.            *)
(***************************************************************************)
EXTENDS CurveValue, SumsProofs

-----------------------------------------------------------------------------
(* Arithmetic. *)

\* Division rounds to the side that is asked for.
LEMMA DivRounds ==
  ASSUME NEW a \in Int, NEW b \in Nat \ {0}
  PROVE  /\ a \div b \in Int /\ (a \div b) * b <= a /\ a < (a \div b) * b + b
         /\ (a + b - 1) \div b \in Int
         /\ ((a + b - 1) \div b) * b >= a /\ ((a + b - 1) \div b) * b < a + b
         /\ a >= 0 => a \div b >= 0 /\ (a + b - 1) \div b >= 0
<1>1. a \div b \in Int /\ (a \div b) * b <= a /\ a < (a \div b) * b + b /\ (a >= 0 => a \div b >= 0)
  OBVIOUS
<1> DEFINE c == a + b - 1
<1>2. c \in Int /\ c = a + b - 1
  OBVIOUS
<1> HIDE DEF c
<1>3. c \div b \in Int /\ (c \div b) * b <= c /\ c < (c \div b) * b + b /\ (c >= 0 => c \div b >= 0)
  BY <1>2
<1>4. /\ c \div b \in Int
      /\ (c \div b) * b >= a /\ (c \div b) * b < a + b
      /\ a >= 0 => c \div b >= 0
  BY <1>2, <1>3
<1> QED
  BY <1>1, <1>4 DEF c

\* An exact quotient.
LEMMA DivExact ==
  ASSUME NEW a \in Int, NEW b \in Nat \ {0}
  PROVE  (a * b) \div b = a /\ (a * b + b - 1) \div b = a
<1> DEFINE c == a * b
           d == a * b + b - 1
           x == c \div b
           y == d \div b
<1>1. c \in Int /\ d \in Int /\ d = c + b - 1 /\ c = a * b
  OBVIOUS
<1> HIDE DEF c, d
<1>2. x \in Int /\ x * b <= c /\ c < x * b + b /\ y \in Int /\ y * b <= d /\ d < y * b + b
  BY <1>1
<1> HIDE DEF x, y
<1>3. x * b <= a * b /\ a * b < (x + 1) * b /\ y * b < (a + 1) * b /\ a * b < (y + 1) * b
  BY <1>1, <1>2
<1>4. \A e, f \in Int : e * b < f * b => e < f
  OBVIOUS
<1>5. \A e, f \in Int : e * b <= f * b => e <= f
  OBVIOUS
<1>6. x <= a /\ a < x + 1 /\ y < a + 1 /\ a < y + 1
  BY <1>2, <1>3, <1>4, <1>5
<1>7. x = a /\ y = a
  BY <1>2, <1>6
<1> QED
  BY <1>7 DEF x, y, c, d

\* Products keep the order.
LEMMA TimesOrder ==
  ASSUME NEW a \in Int, NEW b \in Int, NEW c \in Nat
  PROVE  /\ a <= b => a * c <= b * c
         /\ c > 0 /\ a * c <= b * c => a <= b
         /\ c > 0 /\ a * c < b * c => a < b
OBVIOUS

\* The rounded quotient is the integer next to the exact one, on the side that is asked for.
LEMMA Rounds ==
  ASSUME NEW a \in Int, NEW b \in Nat \ {0}, NEW r \in Rounding
  PROVE  /\ DivRound(a, b, r) \in Int
         /\ a >= 0 => DivRound(a, b, r) >= 0
         /\ r = "Up" => DivRound(a, b, r) * b >= a /\ DivRound(a, b, r) * b < a + b
         /\ r = "Down" => DivRound(a, b, r) * b <= a /\ DivRound(a, b, r) * b > a - b
<1>1. CASE r = "Up"
  <2>1. DivRound(a, b, r) = (a + b - 1) \div b
    BY <1>1 DEF DivRound
  <2> QED
    BY <1>1, <2>1, DivRounds
<1>2. CASE r = "Down"
  <2>1. DivRound(a, b, r) = a \div b
    BY <1>2 DEF DivRound
  <2> DEFINE x == a \div b
  <2>2. x \in Int /\ x * b <= a /\ a < x * b + b /\ (a >= 0 => x >= 0)
    BY DivRounds
  <2> HIDE DEF x
  <2>3. x * b > a - b
    BY <2>2
  <2> QED
    BY <1>2, <2>1, <2>2, <2>3 DEF x
<1> QED
  BY <1>1, <1>2 DEF Rounding

\* Rounding keeps the order.
LEMMA RoundsOrder ==
  ASSUME NEW a \in Int, NEW c \in Int, a <= c, NEW b \in Nat \ {0}, NEW r \in Rounding
  PROVE  DivRound(a, b, r) <= DivRound(c, b, r)
<1> DEFINE x == DivRound(a, b, r)
           y == DivRound(c, b, r)
<1>1. /\ x \in Int /\ y \in Int
      /\ r = "Up" => x * b < a + b /\ y * b >= c
      /\ r = "Down" => x * b <= a /\ y * b > c - b
  BY Rounds
<1> HIDE DEF x, y
<1>2. x * b < (y + 1) * b
  BY <1>1 DEF Rounding
<1>3. x < y + 1
  <2> DEFINE z == y + 1
  <2>1. z \in Int /\ x * b < z * b
    BY <1>1, <1>2
  <2> HIDE DEF z
  <2>2. x < z
    BY <1>1, <2>1, TimesOrder
  <2> QED
    BY <2>2 DEF z
<1>4. x <= y
  BY <1>1, <1>3
<1> QED
  BY <1>4 DEF x, y

\* Rounding two amounts apart is never better for the side that rounding goes against.
LEMMA RoundsSplit ==
  ASSUME NEW a \in Int, NEW c \in Int, NEW b \in Nat \ {0}
  PROVE  /\ DivRound(a + c, b, "Up") <= DivRound(a, b, "Up") + DivRound(c, b, "Up")
         /\ DivRound(a + c, b, "Down") >= DivRound(a, b, "Down") + DivRound(c, b, "Down")
<1> DEFINE x(r) == DivRound(a, b, r)
           y(r) == DivRound(c, b, r)
           z(r) == DivRound(a + c, b, r)
           xu == x("Up")
           yu == y("Up")
           zu == z("Up")
           xd == x("Down")
           yd == y("Down")
           zd == z("Down")
<1>1. "Up" \in Rounding /\ "Down" \in Rounding /\ a + c \in Int
  BY DEF Rounding
<1>2. xu \in Int /\ xu * b >= a /\ xd \in Int /\ xd * b <= a
  BY <1>1, Rounds
<1>3. yu \in Int /\ yu * b >= c /\ yd \in Int /\ yd * b <= c
  BY <1>1, Rounds
<1>4. zu \in Int /\ zu * b < a + c + b /\ zd \in Int /\ zd * b > a + c - b
  BY <1>1, Rounds
<1> HIDE DEF xu, yu, zu, xd, yd, zd
<1> DEFINE u == xu + yu + 1
           d == xd + yd
           v == zd + 1
<1>5. u \in Int /\ d \in Int /\ v \in Int /\ zu * b < u * b /\ d * b < v * b
  BY <1>2, <1>3, <1>4
<1>6. u = xu + yu + 1 /\ d = xd + yd /\ v = zd + 1
  OBVIOUS
<1> HIDE DEF u, d, v
<1>7. zu < u /\ d < v
  BY <1>4, <1>5, TimesOrder
<1>8. zu <= xu + yu /\ zd >= xd + yd
  BY <1>2, <1>3, <1>4, <1>6, <1>7
<1> QED
  BY <1>8 DEF xu, yu, zu, xd, yd, zd

\* The root is defined, and is the largest integer whose square is not above the argument.
LEMMA RootDef ==
  ASSUME NEW d \in Nat
  PROVE  /\ Root(d) \in Nat /\ Root(d) * Root(d) <= d /\ d < (Root(d) + 1) * (Root(d) + 1)
<1> DEFINE G == {k \in 0..d : \E r \in 0..k : r * r <= k /\ k < (r + 1) * (r + 1)}
<1>1. 0 \in G
  OBVIOUS
<1>2. ASSUME NEW k \in 0..d, k # 0, k - 1 \in G
      PROVE  k \in G
  <2>1. PICK r \in 0..(k - 1) : r * r <= k - 1 /\ k - 1 < (r + 1) * (r + 1)
    BY <1>2
  <2>2. CASE k < (r + 1) * (r + 1)
    <3>1. r \in 0..k /\ r * r <= k
      BY <2>1
    <3> QED
      BY <2>2, <3>1
  <2>3. CASE ~(k < (r + 1) * (r + 1))
    <3> DEFINE t == r + 1
    <3>1. t \in 0..k /\ t \in Nat
      BY <2>1
    <3>2. t * t = k
      BY <2>1, <2>3
    <3> HIDE DEF t
    <3>3. k < (t + 1) * (t + 1)
      BY <3>1, <3>2
    <3> QED
      BY <3>1, <3>2, <3>3
  <2> QED
    BY <2>2, <2>3
<1> HIDE DEF G
<1>3. d \in G
  <2>1. 0..d \subseteq G
    BY <1>1, <1>2, SegmentInduction
  <2> QED
    BY <2>1
<1>4. \E r \in 0..d : r * r <= d /\ d < (r + 1) * (r + 1)
  BY <1>3 DEF G
<1> DEFINE R == Root(d)
<1>5. R \in 0..d /\ R * R <= d /\ d < (R + 1) * (R + 1)
  BY <1>4, Zenon DEF Root
<1> HIDE DEF R
<1>6. R \in Nat
  BY <1>5
<1> QED
  BY <1>5, <1>6 DEF R

\* Squares of natural numbers keep the order.
LEMMA SquareOrder ==
  ASSUME NEW a \in Nat, NEW b \in Nat
  PROVE  /\ a <= b => a * a <= b * b
         /\ a * a <= b * b => a <= b
         /\ a * a < (b + 1) * (b + 1) => a <= b
<1>1. a <= b => a * a <= b * b
  <2> SUFFICES ASSUME a <= b PROVE a * a <= b * b
    OBVIOUS
  <2>1. a * a <= b * a /\ b * a <= b * b
    OBVIOUS
  <2> QED
    BY <2>1
<1>2. ASSUME b + 1 <= a PROVE (b + 1) * (b + 1) <= a * a
  <2> DEFINE c == b + 1
  <2>1. c \in Nat /\ c <= a
    BY <1>2
  <2> HIDE DEF c
  <2>2. c * c <= a * c /\ a * c <= a * a
    BY <2>1
  <2>3. c * c <= a * a
    BY <2>1, <2>2
  <2> QED
    BY <2>3 DEF c
<1>3. b * b <= (b + 1) * (b + 1) - 1
  OBVIOUS
<1> QED
  BY <1>1, <1>2, <1>3

\* Normalising multiplies by a whole number, because BASE_PRECISION divides SCALE.
Ratio == SCALE \div BASE_PRECISION

LEMMA NormalizedDef ==
  /\ Ratio \in Nat \ {0} /\ SCALE = Ratio * BASE_PRECISION
  /\ \A n \in Int : Normalized(n) = n * Ratio
<1>1. Ratio \in Nat \ {0} /\ SCALE = Ratio * BASE_PRECISION
  BY CurveAssumption DEF Ratio
<1>2. ASSUME NEW n \in Int PROVE Normalized(n) = n * Ratio
  <2> DEFINE a == n * Ratio
  <2>1. a \in Int
    BY <1>1
  <2>2. n * SCALE = a * BASE_PRECISION
    BY <1>1, CurveAssumption
  <2> HIDE DEF a
  <2>3. (a * BASE_PRECISION) \div BASE_PRECISION = a
    BY <2>1, DivExact, CurveAssumption
  <2> QED
    BY <2>2, <2>3 DEF Normalized, a
<1> QED
  BY <1>1, <1>2

-----------------------------------------------------------------------------
(* One interval. *)

\* The integral is the price at both ends weighted by how far the interval is filled.
LEMMA IntervalSteps ==
  ASSUME NEW p0 \in Nat, NEW p1 \in Nat, NEW w \in Nat, NEW x \in 0..w, NEW y \in 0..w
  PROVE  /\ IntervalArea(p0, p1, w, x) \in Int /\ IntervalArea(p0, p1, w, 0) = 0
         /\ IntervalArea(p0, p1, w, y) - IntervalArea(p0, p1, w, x)
              = (y - x) * (p1 * (x + y) + p0 * (2 * w - x - y))
BY DEF IntervalArea

\* An interval is worth more the more of it is filled, and the more its price is.
LEMMA IntervalOrder ==
  ASSUME NEW p0 \in Nat, NEW p1 \in Nat, NEW q0 \in Nat, NEW q1 \in Nat, p0 <= q0, p1 <= q1,
         NEW w \in Nat, NEW x \in 0..w, NEW y \in x..w
  PROVE  /\ IntervalArea(p0, p1, w, x) <= IntervalArea(p0, p1, w, y)
         /\ IntervalArea(p0, p1, w, y) - IntervalArea(p0, p1, w, x)
              <= IntervalArea(q0, q1, w, y) - IntervalArea(q0, q1, w, x)
<1> DEFINE d == y - x
           s == x + y
           t == 2 * w - x - y
<1>1. d \in Nat /\ s \in Nat /\ t \in Nat /\ y \in 0..w
  OBVIOUS
<1>2. ASSUME NEW r0 \in Nat, NEW r1 \in Nat
      PROVE  /\ IntervalArea(r0, r1, w, y) - IntervalArea(r0, r1, w, x) = d * (r1 * s + r0 * t)
             /\ IntervalArea(r0, r1, w, x) \in Int /\ IntervalArea(r0, r1, w, y) \in Int
  <2>1. /\ IntervalArea(r0, r1, w, y) - IntervalArea(r0, r1, w, x)
             = (y - x) * (r1 * (x + y) + r0 * (2 * w - x - y))
        /\ IntervalArea(r0, r1, w, x) \in Int /\ IntervalArea(r0, r1, w, y) \in Int
    BY <1>1 DEF IntervalArea
  <2> QED
    BY <2>1, Zenon
<1> HIDE DEF d, s, t
<1>3. p1 * s <= q1 * s /\ p0 * t <= q0 * t /\ 0 <= p1 * s /\ 0 <= p0 * t
  BY <1>1
<1> DEFINE a == p1 * s + p0 * t
           b == q1 * s + q0 * t
<1>4. a \in Nat /\ b \in Nat /\ a <= b
  BY <1>1, <1>3
<1> HIDE DEF a, b
<1>5. 0 <= d * a /\ d * a <= d * b
  BY <1>1, <1>4
<1>6. /\ IntervalArea(p0, p1, w, y) - IntervalArea(p0, p1, w, x) = d * a
      /\ IntervalArea(q0, q1, w, y) - IntervalArea(q0, q1, w, x) = d * b
  BY <1>2 DEF a, b
<1> QED
  BY <1>2, <1>5, <1>6

\* What of an interval a supply fills is between nothing and its width.
LEMMA FilledType ==
  ASSUME NEW k \in Int, NEW w \in Nat, NEW x \in Int
  PROVE  Filled(k, x, w) \in 0..w
BY DEF Filled, Clamp, Min2

\* It grows with the supply.
LEMMA FilledGrows ==
  ASSUME NEW k \in Int, NEW w \in Nat, NEW x \in Int, NEW y \in Int, x <= y
  PROVE  Filled(k, x, w) <= Filled(k, y, w)
BY DEF Filled, Clamp, Min2

\* It is nothing below the interval, all beyond it, and the rest of the supply inside.
LEMMA FilledParts ==
  ASSUME NEW k \in Int, NEW w \in Nat, NEW x \in Int
  PROVE  /\ x <= (k - 1) * w => Filled(k, x, w) = 0
         /\ x >= k * w => Filled(k, x, w) = w
         /\ (k - 1) * w <= x /\ x <= k * w => Filled(k, x, w) = x - (k - 1) * w
<1> DEFINE c == (k - 1) * w
<1>1. c \in Int /\ k * w = c + w
  OBVIOUS
<1> HIDE DEF c
<1>2. Filled(k, x, w) = (IF x - c < 0 THEN 0 ELSE IF x - c < w THEN x - c ELSE w)
  BY DEF Filled, Clamp, Min2, c
<1>3. /\ x <= c => Filled(k, x, w) = 0
      /\ x >= c + w => Filled(k, x, w) = w
      /\ c <= x /\ x <= c + w => Filled(k, x, w) = x - c
  BY <1>1, <1>2
<1> QED
  BY <1>1, <1>3 DEF c

-----------------------------------------------------------------------------
(* The whole curve. *)

\* The term of an interval in AreaAt.
AreaTerms(p, w, x) ==
  [k \in 1..INTERVAL_NUMBER |-> IntervalArea(p[k - 1], p[k], w, Filled(k, x, w))]

LEMMA AreaType ==
  ASSUME NEW p \in [Index -> Nat], NEW w \in Nat, NEW x \in Int
  PROVE  /\ AreaTerms(p, w, x) \in [1..INTERVAL_NUMBER -> Int]
         /\ AreaAt(p, w, x) = SumTo(AreaTerms(p, w, x), INTERVAL_NUMBER)
         /\ AreaAt(p, w, x) \in Int
<1>1. ASSUME NEW k \in 1..INTERVAL_NUMBER
      PROVE  IntervalArea(p[k - 1], p[k], w, Filled(k, x, w)) \in Int
  <2>1. p[k - 1] \in Nat /\ p[k] \in Nat /\ k \in Int
    BY CurveAssumption DEF Index
  <2>2. Filled(k, x, w) \in 0..w
    BY <2>1, FilledType, Zenon
  <2> QED
    BY <2>1, <2>2, IntervalSteps, Zenon
<1>2. AreaTerms(p, w, x) \in [1..INTERVAL_NUMBER -> Int]
  BY <1>1 DEF AreaTerms
<1>3. AreaAt(p, w, x) = SumTo(AreaTerms(p, w, x), INTERVAL_NUMBER)
  BY DEF AreaAt, AreaTerms
<1> QED
  BY <1>2, <1>3, SumInt, CurveAssumption

\* One term of the sum.
LEMMA AreaTerm ==
  ASSUME NEW p \in [Index -> Nat], NEW w \in Nat \ {0}, NEW x \in Int, NEW k \in 1..INTERVAL_NUMBER
  PROVE  AreaTerms(p, w, x)[k] \in Int
<1> DEFINE f == AreaTerms(p, w, x)
<1>1. w \in Nat
  OBVIOUS
<1>2. f \in [1..INTERVAL_NUMBER -> Int]
  BY <1>1, AreaType, Zenon
<1> HIDE DEF f
<1>3. f[k] \in Int
  BY <1>2
<1> QED
  BY <1>3 DEF f

\* A larger supply is worth more, and where the prices are higher the difference is larger.
LEMMA AreaOrder ==
  ASSUME NEW p \in [Index -> Nat], NEW q \in [Index -> Nat], \A i \in Index : p[i] <= q[i],
         NEW w \in Nat, NEW x \in Int, NEW y \in Int, x <= y
  PROVE  /\ AreaAt(p, w, x) <= AreaAt(p, w, y)
         /\ AreaAt(p, w, y) - AreaAt(p, w, x) <= AreaAt(q, w, y) - AreaAt(q, w, x)
<1> DEFINE px == AreaTerms(p, w, x)
           py == AreaTerms(p, w, y)
           qx == AreaTerms(q, w, x)
           qy == AreaTerms(q, w, y)
<1>1. INTERVAL_NUMBER \in Nat
  BY CurveAssumption
<1>2. /\ px \in [1..INTERVAL_NUMBER -> Int] /\ py \in [1..INTERVAL_NUMBER -> Int]
      /\ qx \in [1..INTERVAL_NUMBER -> Int] /\ qy \in [1..INTERVAL_NUMBER -> Int]
      /\ AreaAt(p, w, x) = SumTo(px, INTERVAL_NUMBER) /\ AreaAt(p, w, y) = SumTo(py, INTERVAL_NUMBER)
      /\ AreaAt(q, w, x) = SumTo(qx, INTERVAL_NUMBER) /\ AreaAt(q, w, y) = SumTo(qy, INTERVAL_NUMBER)
  BY AreaType
<1>3. ASSUME NEW k \in 1..INTERVAL_NUMBER
      PROVE  px[k] <= py[k] /\ py[k] - px[k] <= qy[k] - qx[k]
  <2>1. /\ p[k - 1] \in Nat /\ p[k] \in Nat /\ q[k - 1] \in Nat /\ q[k] \in Nat
        /\ p[k - 1] <= q[k - 1] /\ p[k] <= q[k]
    BY <1>1 DEF Index
  <2>2. Filled(k, x, w) \in 0..w /\ Filled(k, y, w) \in Filled(k, x, w)..w
    <3>1. k \in Int
      OBVIOUS
    <3>2. /\ Filled(k, x, w) \in 0..w /\ Filled(k, y, w) \in 0..w
          /\ Filled(k, x, w) <= Filled(k, y, w)
      BY <3>1, FilledType, FilledGrows, Zenon
    <3> QED
      BY <3>2
  <2>3. /\ px[k] = IntervalArea(p[k - 1], p[k], w, Filled(k, x, w))
        /\ py[k] = IntervalArea(p[k - 1], p[k], w, Filled(k, y, w))
        /\ qx[k] = IntervalArea(q[k - 1], q[k], w, Filled(k, x, w))
        /\ qy[k] = IntervalArea(q[k - 1], q[k], w, Filled(k, y, w))
    BY DEF AreaTerms
  <2> QED
    <3>1. /\ IntervalArea(p[k - 1], p[k], w, Filled(k, x, w)) <= IntervalArea(p[k - 1], p[k], w, Filled(k, y, w))
          /\ IntervalArea(p[k - 1], p[k], w, Filled(k, y, w)) - IntervalArea(p[k - 1], p[k], w, Filled(k, x, w))
               <= IntervalArea(q[k - 1], q[k], w, Filled(k, y, w)) - IntervalArea(q[k - 1], q[k], w, Filled(k, x, w))
      BY <2>1, <2>2, IntervalOrder, Zenon
    <3> QED
      BY <2>3, <3>1, Zenon
<1> HIDE DEF px, py, qx, qy
<1>4. SumTo(px, INTERVAL_NUMBER) <= SumTo(py, INTERVAL_NUMBER)
  BY <1>1, <1>2, <1>3, SumMonotone
<1>5. SumTo(py, INTERVAL_NUMBER) - SumTo(px, INTERVAL_NUMBER)
        <= SumTo(qy, INTERVAL_NUMBER) - SumTo(qx, INTERVAL_NUMBER)
  BY <1>1, <1>2, <1>3, SumDifferences, Zenon
<1> QED
  BY <1>2, <1>4, <1>5, Zenon

-----------------------------------------------------------------------------
(* Naming the base amount. *)

\* The terms that get_quote_amount_with_parameters adds up, and their sum: the price of the
\* supplies between x and y, in quote that is not yet converted to token units.
QuoteTerms(p, w, x, y, rounding) ==
  [k \in 1..INTERVAL_NUMBER |->
     LET used == Filled(k, x, w)
         delta_base == Filled(k, y, w) - used
     IN  mul_div(delta_base, (p[k] - p[k - 1]) * (delta_base + 2 * used) + 2 * p[k - 1] * w,
                 2 * SCALE * w, rounding)]

QuoteSum(p, w, x, y, rounding) == SumTo(QuoteTerms(p, w, x, y, rounding), INTERVAL_NUMBER)

Price(p, w, x, y, rounding) == DivRound(QuoteSum(p, w, x, y, rounding) * QUOTE_PRECISION, SCALE, rounding)

LEMMA UnitType == \A w \in Nat \ {0} : Unit(w) \in Nat \ {0} /\ Unit(w) = 2 * SCALE * w
BY CurveAssumption DEF Unit

\* A term is the area between two supplies within one interval, rounded.
LEMMA QuoteTerm ==
  ASSUME NEW p \in [Index -> Nat], NEW w \in Nat \ {0}, NEW x \in Int, NEW y \in Int,
         NEW r \in Rounding, NEW k \in 1..INTERVAL_NUMBER
  PROVE  /\ AreaTerms(p, w, y)[k] - AreaTerms(p, w, x)[k] \in Int
         /\ QuoteTerms(p, w, x, y, r)[k]
              = DivRound(AreaTerms(p, w, y)[k] - AreaTerms(p, w, x)[k], Unit(w), r)
<1> DEFINE p0 == p[k - 1]
           p1 == p[k]
           fx == Filled(k, x, w)
           fy == Filled(k, y, w)
           d == fy - fx
<1>1. p0 \in Nat /\ p1 \in Nat /\ k \in Int /\ w \in Nat
  BY CurveAssumption DEF Index
<1>2. fx \in 0..w /\ fy \in 0..w
  BY <1>1, FilledType, Zenon
<1>3. /\ AreaTerms(p, w, y)[k] = IntervalArea(p0, p1, w, fy)
      /\ AreaTerms(p, w, x)[k] = IntervalArea(p0, p1, w, fx)
  BY DEF AreaTerms
<1>4. QuoteTerms(p, w, x, y, r)[k]
        = mul_div(d, (p1 - p0) * (d + 2 * fx) + 2 * p0 * w, 2 * SCALE * w, r)
  BY DEF QuoteTerms
<1> HIDE DEF p0, p1, fx, fy
<1>5. d * ((p1 - p0) * (d + 2 * fx) + 2 * p0 * w) = IntervalArea(p0, p1, w, fy) - IntervalArea(p0, p1, w, fx)
  BY <1>1, <1>2 DEF IntervalArea
<1>6. IntervalArea(p0, p1, w, fy) \in Int /\ IntervalArea(p0, p1, w, fx) \in Int
  BY <1>1, <1>2 DEF IntervalArea
<1>7. AreaTerms(p, w, y)[k] - AreaTerms(p, w, x)[k] \in Int
  BY <1>3, <1>6
<1> QED
  BY <1>3, <1>4, <1>5, <1>7, Zenon DEF mul_div, Unit

LEMMA QuoteTermsType ==
  ASSUME NEW p \in [Index -> Nat], NEW w \in Nat \ {0}, NEW x \in Int, NEW y \in Int, NEW r \in Rounding
  PROVE  /\ QuoteTerms(p, w, x, y, r) \in [1..INTERVAL_NUMBER -> Int]
         /\ QuoteSum(p, w, x, y, r) \in Int
<1>1. ASSUME NEW k \in 1..INTERVAL_NUMBER PROVE QuoteTerms(p, w, x, y, r)[k] \in Int
  <2> DEFINE d == AreaTerms(p, w, y)[k] - AreaTerms(p, w, x)[k]
  <2>1. d \in Int /\ QuoteTerms(p, w, x, y, r)[k] = DivRound(d, Unit(w), r)
    BY QuoteTerm
  <2> HIDE DEF d
  <2>2. DivRound(d, Unit(w), r) \in Int
    BY <2>1, UnitType, Rounds
  <2> QED
    BY <2>1, <2>2
<1>2. QuoteTerms(p, w, x, y, r) = [k \in 1..INTERVAL_NUMBER |-> QuoteTerms(p, w, x, y, r)[k]]
  BY DEF QuoteTerms
<1> DEFINE f == QuoteTerms(p, w, x, y, r)
<1> HIDE DEF f
<1>3. f \in [1..INTERVAL_NUMBER -> Int]
  BY <1>1, <1>2 DEF f
<1> QED
  BY <1>3, SumInt, CurveAssumption DEF QuoteSum, f

\* Where an interval is filled alike by both supplies, its term is nothing.
LEMMA QuoteTermEmpty ==
  ASSUME NEW p \in [Index -> Nat], NEW w \in Nat \ {0}, NEW x \in Int, NEW y \in Int,
         NEW r \in Rounding, NEW k \in 1..INTERVAL_NUMBER, Filled(k, x, w) = Filled(k, y, w)
  PROVE  QuoteTerms(p, w, x, y, r)[k] = 0
<1> DEFINE a == AreaTerms(p, w, x)[k]
           u == Unit(w)
<1>1. AreaTerms(p, w, y)[k] = a
  BY DEF AreaTerms
<1>2. a \in Int
  BY AreaTerm, Zenon
<1>3. QuoteTerms(p, w, x, y, r)[k] = DivRound(AreaTerms(p, w, y)[k] - AreaTerms(p, w, x)[k], u, r)
  BY QuoteTerm
<1> HIDE DEF a
<1>4. QuoteTerms(p, w, x, y, r)[k] = DivRound(a - a, u, r)
  BY <1>1, <1>3, Zenon DEF a
<1>5. u \in Nat \ {0} /\ a - a = 0
  BY <1>2, UnitType
<1> HIDE DEF u
<1>6. DivRound(0, u, r) = 0
  <2>1. (0 * u) \div u = 0 /\ (0 * u + u - 1) \div u = 0
    BY <1>5, DivExact
  <2>2. 0 * u = 0 /\ 0 + u - 1 = 0 * u + u - 1
    BY <1>5
  <2> QED
    BY <2>1, <2>2 DEF DivRound
<1> QED
  BY <1>4, <1>5, <1>6

\* No supply costs nothing.
LEMMA QuoteEmpty ==
  ASSUME NEW p \in [Index -> Nat], NEW w \in Nat \ {0}, NEW x \in Int, NEW r \in Rounding
  PROVE  QuoteSum(p, w, x, x, r) = 0
<1> DEFINE f == QuoteTerms(p, w, x, x, r)
<1>1. f \in [1..INTERVAL_NUMBER -> Int]
  BY QuoteTermsType
<1>2. ASSUME NEW k \in 1..INTERVAL_NUMBER PROVE f[k] = 0
  BY QuoteTermEmpty
<1> HIDE DEF f
<1>3. 0 \in Int /\ INTERVAL_NUMBER \in Nat /\ \A k \in 1..INTERVAL_NUMBER : f[k] = 0
  BY <1>2, CurveAssumption
<1>4. SumTo(f, INTERVAL_NUMBER) = INTERVAL_NUMBER * 0
  BY <1>1, <1>3, SumConstant, Zenon
<1> QED
  BY <1>3, <1>4 DEF QuoteSum, f

\* Between two supplies in the same interval only that interval counts.
LEMMA QuoteInside ==
  ASSUME NEW p \in [Index -> Nat], NEW w \in Nat \ {0}, NEW r \in Rounding, NEW i \in 1..INTERVAL_NUMBER,
         NEW x \in Int, NEW y \in Int, (i - 1) * w <= x, x <= y, y <= i * w
  PROVE  QuoteSum(p, w, x, y, r)
           = DivRound(IntervalArea(p[i - 1], p[i], w, y - (i - 1) * w)
                        - IntervalArea(p[i - 1], p[i], w, x - (i - 1) * w), Unit(w), r)
<1> DEFINE f == QuoteTerms(p, w, x, y, r)
           zero == [k \in 1..INTERVAL_NUMBER |-> 0]
<1>1. INTERVAL_NUMBER \in Nat /\ w \in Nat
  BY CurveAssumption
<1>2. f \in [1..INTERVAL_NUMBER -> Int]
  BY QuoteTermsType
<1>3. ASSUME NEW k \in 1..INTERVAL_NUMBER, k # i
      PROVE  f[k] = 0
  <2>1. CASE k < i
    <3>1. k * w <= (i - 1) * w
      <4>1. k \in Int /\ i - 1 \in Int /\ k <= i - 1
        BY <2>1
      <4> QED
        BY <4>1, TimesOrder
    <3>2. x >= k * w /\ y >= k * w /\ k \in Int
      BY <3>1
    <3>3. Filled(k, x, w) = Filled(k, y, w)
      BY <1>1, <3>2, FilledParts, Zenon
    <3> QED
      BY <3>3, QuoteTermEmpty
  <2>2. CASE k > i
    <3>1. i * w <= (k - 1) * w
      <4>1. i \in Int /\ k - 1 \in Int /\ i <= k - 1
        BY <2>2
      <4> QED
        BY <4>1, TimesOrder
    <3>2. x <= (k - 1) * w /\ y <= (k - 1) * w /\ k \in Int
      BY <3>1
    <3>3. Filled(k, x, w) = Filled(k, y, w)
      BY <1>1, <3>2, FilledParts, Zenon
    <3> QED
      BY <3>3, QuoteTermEmpty
  <2> QED
    BY <1>3, <2>1, <2>2
<1>4. f[i] = DivRound(IntervalArea(p[i - 1], p[i], w, y - (i - 1) * w)
                        - IntervalArea(p[i - 1], p[i], w, x - (i - 1) * w), Unit(w), r)
  <2>1. (i - 1) * w <= y /\ x <= i * w /\ i \in Int
    OBVIOUS
  <2>2. Filled(i, x, w) = x - (i - 1) * w /\ Filled(i, y, w) = y - (i - 1) * w
    BY <1>1, <2>1, FilledParts, Zenon
  <2>3. /\ AreaTerms(p, w, x)[i] = IntervalArea(p[i - 1], p[i], w, x - (i - 1) * w)
        /\ AreaTerms(p, w, y)[i] = IntervalArea(p[i - 1], p[i], w, y - (i - 1) * w)
    BY <2>2 DEF AreaTerms
  <2>4. f[i] = DivRound(AreaTerms(p, w, y)[i] - AreaTerms(p, w, x)[i], Unit(w), r)
    BY QuoteTerm
  <2> QED
    BY <2>3, <2>4, Zenon
<1> HIDE DEF f
<1>5. /\ zero \in [1..INTERVAL_NUMBER -> Int] /\ 0 \in Int
      /\ \A k \in 1..INTERVAL_NUMBER : zero[k] = 0
      /\ \A k \in 1..INTERVAL_NUMBER : k # i => f[k] = zero[k]
  BY <1>3
<1> HIDE DEF zero
<1>6. SumTo(zero, INTERVAL_NUMBER) = INTERVAL_NUMBER * 0
  BY <1>1, <1>5, SumConstant, Zenon
<1>7. SumTo(f, INTERVAL_NUMBER) = SumTo(zero, INTERVAL_NUMBER) + (f[i] - zero[i])
  BY <1>1, <1>2, <1>5, SumUpdate
<1>8. SumTo(f, INTERVAL_NUMBER) = f[i]
  BY <1>1, <1>2, <1>5, <1>6, <1>7
<1> QED
  BY <1>4, <1>8 DEF QuoteSum, f

\* Nothing is sold above the whole curve.
LEMMA QuoteBeyond ==
  ASSUME NEW p \in [Index -> Nat], NEW w \in Nat \ {0}, NEW r \in Rounding,
         NEW x \in Int, NEW y \in Int, y >= INTERVAL_NUMBER * w
  PROVE  QuoteSum(p, w, x, y, r) = QuoteSum(p, w, x, INTERVAL_NUMBER * w, r)
<1> DEFINE top == INTERVAL_NUMBER * w
<1>1. ASSUME NEW k \in 1..INTERVAL_NUMBER PROVE Filled(k, y, w) = Filled(k, top, w)
  <2>1. INTERVAL_NUMBER \in Int /\ k \in Int /\ k <= INTERVAL_NUMBER /\ w \in Nat
    BY CurveAssumption
  <2>2. k * w <= top /\ top \in Int
    BY <2>1, TimesOrder
  <2>3. y >= k * w /\ top >= k * w
    BY <2>1, <2>2
  <2> HIDE DEF top
  <2>4. Filled(k, y, w) = w
    BY <2>1, <2>3, FilledParts
  <2>5. Filled(k, top, w) = w
    BY <2>1, <2>2, <2>3, FilledParts
  <2> QED
    BY <2>4, <2>5
<1>2. QuoteTerms(p, w, x, y, r) = QuoteTerms(p, w, x, top, r)
  BY <1>1 DEF QuoteTerms
<1> QED
  BY <1>2 DEF QuoteSum

\* The sum is on the side of the area that the rounding asks for.
LEMMA SumRounds ==
  ASSUME NEW p \in [Index -> Nat], NEW w \in Nat \ {0}, NEW x \in Int, NEW y \in Int, NEW r \in Rounding
  PROVE  /\ r = "Up" => QuoteSum(p, w, x, y, r) * Unit(w) >= AreaAt(p, w, y) - AreaAt(p, w, x)
         /\ r = "Down" => QuoteSum(p, w, x, y, r) * Unit(w) <= AreaAt(p, w, y) - AreaAt(p, w, x)
<1> DEFINE n == INTERVAL_NUMBER
           u == Unit(w)
           q == QuoteTerms(p, w, x, y, r)
           ax == AreaTerms(p, w, x)
           ay == AreaTerms(p, w, y)
           scaled == [k \in 1..n |-> u * q[k]]
           zero == [k \in 1..n |-> 0]
<1>1. n \in Nat /\ u \in Nat \ {0} /\ w \in Nat
  BY CurveAssumption, UnitType
<1>2. q \in [1..n -> Int]
  BY QuoteTermsType, Zenon
<1>3. ax \in [1..n -> Int] /\ ay \in [1..n -> Int]
  BY <1>1, AreaType, Zenon
<1>4. AreaAt(p, w, x) = SumTo(ax, n) /\ AreaAt(p, w, y) = SumTo(ay, n)
  BY <1>1, AreaType, Zenon
<1>5. ASSUME NEW k \in 1..n
      PROVE  /\ r = "Up" => u * q[k] >= ay[k] - ax[k]
             /\ r = "Down" => u * q[k] <= ay[k] - ax[k]
  <2>1. q[k] = DivRound(ay[k] - ax[k], u, r) /\ ay[k] - ax[k] \in Int
    BY QuoteTerm
  <2> HIDE DEF q, u, ax, ay
  <2> DEFINE d == ay[k] - ax[k]
  <2> HIDE DEF d
  <2>2. /\ DivRound(d, u, r) \in Int
        /\ r = "Up" => DivRound(d, u, r) * u >= d
        /\ r = "Down" => DivRound(d, u, r) * u <= d
    BY <1>1, <2>1, Rounds DEF d
  <2>3. /\ r = "Up" => u * q[k] >= d
        /\ r = "Down" => u * q[k] <= d
    BY <1>1, <2>1, <2>2 DEF d
  <2> QED
    BY <2>3 DEF d
<1> HIDE DEF n, u, q, ax, ay
<1>6. scaled \in [1..n -> Int] /\ \A k \in 1..n : scaled[k] = u * q[k]
  BY <1>1, <1>2
<1>7. zero \in [1..n -> Int] /\ SumTo(zero, n) = 0
  <2>1. zero \in [1..n -> Int] /\ 0 \in Int /\ \A k \in 1..n : zero[k] = 0
    OBVIOUS
  <2> HIDE DEF zero
  <2>2. SumTo(zero, n) = n * 0
    BY <1>1, <2>1, SumConstant, Zenon
  <2> QED
    BY <1>1, <2>1, <2>2
<1>8. SumTo(scaled, n) = u * SumTo(q, n)
  <2>1. u \in Int
    BY <1>1
  <2> HIDE DEF scaled
  <2> QED
    BY <1>1, <1>2, <1>6, <2>1, SumTimes, Zenon
<1>9. /\ SumTo(scaled, n) \in Int /\ SumTo(ax, n) \in Int /\ SumTo(ay, n) \in Int /\ SumTo(q, n) \in Int
  <2> HIDE DEF scaled
  <2> QED
    BY <1>1, <1>2, <1>3, <1>6, SumInt
<1>10. CASE r = "Up"
  <2>1. \A k \in 1..n : ay[k] - ax[k] <= scaled[k] - zero[k]
    BY <1>1, <1>2, <1>3, <1>5, <1>6, <1>10
  <2> HIDE DEF scaled, zero
  <2>2. SumTo(ay, n) - SumTo(ax, n) <= SumTo(scaled, n) - SumTo(zero, n)
    BY <1>1, <1>3, <1>6, <1>7, <2>1, SumDifferences, Zenon
  <2>3. SumTo(q, n) * u >= SumTo(ay, n) - SumTo(ax, n)
    BY <1>1, <1>7, <1>8, <1>9, <2>2
  <2> QED
    BY <1>4, <1>10, <2>3 DEF QuoteSum, n, u, q
<1>11. CASE r = "Down"
  <2>1. \A k \in 1..n : scaled[k] - zero[k] <= ay[k] - ax[k]
    BY <1>1, <1>2, <1>3, <1>5, <1>6, <1>11
  <2> HIDE DEF scaled, zero
  <2>2. SumTo(scaled, n) - SumTo(zero, n) <= SumTo(ay, n) - SumTo(ax, n)
    BY <1>1, <1>3, <1>6, <1>7, <2>1, SumDifferences, Zenon
  <2>3. SumTo(q, n) * u <= SumTo(ay, n) - SumTo(ax, n)
    BY <1>1, <1>7, <1>8, <1>9, <2>2
  <2> QED
    BY <1>4, <1>11, <2>3 DEF QuoteSum, n, u, q
<1> QED
  BY <1>10, <1>11 DEF Rounding

\* A wider range of supplies does not cost less.
LEMMA SumWidens ==
  ASSUME NEW p \in [Index -> Nat], NEW w \in Nat \ {0}, NEW r \in Rounding,
         NEW x \in Int, NEW y \in Int, NEW x2 \in Int, NEW y2 \in Int, x2 <= x, y <= y2
  PROVE  QuoteSum(p, w, x, y, r) <= QuoteSum(p, w, x2, y2, r)
<1> DEFINE n == INTERVAL_NUMBER
           f == QuoteTerms(p, w, x, y, r)
           g == QuoteTerms(p, w, x2, y2, r)
<1>1. n \in Nat /\ Unit(w) \in Nat \ {0} /\ w \in Nat
  BY CurveAssumption, UnitType
<1>2. f \in [1..n -> Int] /\ g \in [1..n -> Int]
  BY QuoteTermsType, Zenon
<1>3. ASSUME NEW k \in 1..n PROVE f[k] <= g[k]
  <2> DEFINE a == AreaTerms(p, w, y)[k] - AreaTerms(p, w, x)[k]
             b == AreaTerms(p, w, y2)[k] - AreaTerms(p, w, x2)[k]
  <2>1. /\ a \in Int /\ f[k] = DivRound(a, Unit(w), r)
        /\ b \in Int /\ g[k] = DivRound(b, Unit(w), r)
    BY QuoteTerm
  <2>2. /\ AreaTerms(p, w, x2)[k] <= AreaTerms(p, w, x)[k] /\ AreaTerms(p, w, y)[k] <= AreaTerms(p, w, y2)[k]
        /\ AreaTerms(p, w, x)[k] \in Int /\ AreaTerms(p, w, x2)[k] \in Int
        /\ AreaTerms(p, w, y)[k] \in Int /\ AreaTerms(p, w, y2)[k] \in Int
    <3>1. \A z \in Int : AreaTerms(p, w, z)[k] \in Int
      BY <1>1, AreaType
    <3>2. ASSUME NEW z \in Int, NEW z2 \in Int, z <= z2
          PROVE  AreaTerms(p, w, z)[k] <= AreaTerms(p, w, z2)[k]
      <4>1. k \in Int /\ p[k - 1] \in Nat /\ p[k] \in Nat /\ p[k - 1] <= p[k - 1] /\ p[k] <= p[k]
        BY <1>1 DEF Index
      <4>2. Filled(k, z, w) \in 0..w /\ Filled(k, z2, w) \in Filled(k, z, w)..w
        <5>1. Filled(k, z, w) \in 0..w /\ Filled(k, z2, w) \in 0..w
          BY <1>1, <4>1, FilledType, Zenon
        <5>2. Filled(k, z, w) <= Filled(k, z2, w)
          BY <1>1, <3>2, <4>1, FilledGrows, Zenon
        <5> QED
          BY <5>1, <5>2
      <4>3. IntervalArea(p[k - 1], p[k], w, Filled(k, z, w)) <= IntervalArea(p[k - 1], p[k], w, Filled(k, z2, w))
        BY <1>1, <4>1, <4>2, IntervalOrder, Zenon
      <4> QED
        BY <4>3 DEF AreaTerms
    <3> QED
      BY <3>1, <3>2
  <2>3. a <= b
    BY <2>2
  <2> HIDE DEF a, b
  <2> QED
    BY <1>1, <2>1, <2>3, RoundsOrder
<1> HIDE DEF f, g
<1>4. SumTo(f, n) <= SumTo(g, n)
  BY <1>1, <1>2, <1>3, SumMonotone
<1> QED
  BY <1>4 DEF QuoteSum, f, g

\* Dividing a range adds roundings, all of them to the same side.
LEMMA SumDivides ==
  ASSUME NEW p \in [Index -> Nat], NEW w \in Nat \ {0}, NEW x \in Int, NEW y \in Int, NEW z \in Int
  PROVE  /\ QuoteSum(p, w, x, z, "Up") <= QuoteSum(p, w, x, y, "Up") + QuoteSum(p, w, y, z, "Up")
         /\ QuoteSum(p, w, x, z, "Down") >= QuoteSum(p, w, x, y, "Down") + QuoteSum(p, w, y, z, "Down")
<1> DEFINE n == INTERVAL_NUMBER
           f(r) == QuoteTerms(p, w, x, y, r)
           g(r) == QuoteTerms(p, w, y, z, r)
           h(r) == QuoteTerms(p, w, x, z, r)
           zero == [k \in 1..n |-> 0]
<1>1. n \in Nat /\ Unit(w) \in Nat \ {0} /\ "Up" \in Rounding /\ "Down" \in Rounding
  BY CurveAssumption, UnitType DEF Rounding
<1>2. \A r \in Rounding : f(r) \in [1..n -> Int] /\ g(r) \in [1..n -> Int] /\ h(r) \in [1..n -> Int]
  BY QuoteTermsType
<1>3. ASSUME NEW k \in 1..n
      PROVE  /\ h("Up")[k] <= f("Up")[k] + g("Up")[k]
             /\ h("Down")[k] >= f("Down")[k] + g("Down")[k]
  <2> DEFINE a == AreaTerms(p, w, y)[k] - AreaTerms(p, w, x)[k]
             b == AreaTerms(p, w, z)[k] - AreaTerms(p, w, y)[k]
             c == AreaTerms(p, w, z)[k] - AreaTerms(p, w, x)[k]
  <2>1. \A r \in Rounding : a \in Int /\ f(r)[k] = DivRound(a, Unit(w), r)
    BY QuoteTerm
  <2>2. \A r \in Rounding : b \in Int /\ g(r)[k] = DivRound(b, Unit(w), r)
    BY QuoteTerm
  <2>3. \A r \in Rounding : c \in Int /\ h(r)[k] = DivRound(c, Unit(w), r)
    BY QuoteTerm
  <2>4. c = a + b
    <3>1. /\ AreaTerms(p, w, x)[k] \in Int /\ AreaTerms(p, w, y)[k] \in Int /\ AreaTerms(p, w, z)[k] \in Int
      BY AreaTerm, Zenon
    <3> QED
      BY <3>1
  <2> HIDE DEF a, b, c, f, g, h
  <2>5. a \in Int /\ b \in Int
    BY <1>1, <2>1, <2>2
  <2>6. /\ DivRound(a + b, Unit(w), "Up") <= DivRound(a, Unit(w), "Up") + DivRound(b, Unit(w), "Up")
        /\ DivRound(a + b, Unit(w), "Down") >= DivRound(a, Unit(w), "Down") + DivRound(b, Unit(w), "Down")
    BY <1>1, <2>5, RoundsSplit
  <2> QED
    BY <1>1, <2>1, <2>2, <2>3, <2>4, <2>6, Zenon
<1> HIDE DEF f, g, h
<1> DEFINE fu == f("Up")
           gu == g("Up")
           hu == h("Up")
           fd == f("Down")
           gd == g("Down")
           hd == h("Down")
<1>4. /\ fu \in [1..n -> Int] /\ gu \in [1..n -> Int] /\ hu \in [1..n -> Int]
      /\ fd \in [1..n -> Int] /\ gd \in [1..n -> Int] /\ hd \in [1..n -> Int]
      /\ \A k \in 1..n : hu[k] <= fu[k] + gu[k]
      /\ \A k \in 1..n : hd[k] >= fd[k] + gd[k]
  BY <1>1, <1>2, <1>3
<1> HIDE DEF fu, gu, hu, fd, gd, hd
<1>5. zero \in [1..n -> Int] /\ SumTo(zero, n) = 0
  <2>1. zero \in [1..n -> Int] /\ 0 \in Int /\ \A k \in 1..n : zero[k] = 0
    OBVIOUS
  <2> HIDE DEF zero
  <2>2. SumTo(zero, n) = n * 0
    BY <1>1, <2>1, SumConstant, Zenon
  <2> QED
    BY <1>1, <2>1, <2>2
<1>6. \A k \in 1..n : hu[k] - fu[k] <= gu[k] - zero[k]
  BY <1>4
<1>7. \A k \in 1..n : gd[k] - zero[k] <= hd[k] - fd[k]
  BY <1>4
<1> HIDE DEF zero, n
<1>8. /\ SumTo(hu, n) - SumTo(fu, n) <= SumTo(gu, n) - SumTo(zero, n)
      /\ SumTo(gd, n) - SumTo(zero, n) <= SumTo(hd, n) - SumTo(fd, n)
  BY <1>1, <1>4, <1>5, <1>6, <1>7, SumDifferences, Zenon
<1>9. /\ SumTo(hu, n) \in Int /\ SumTo(fu, n) \in Int /\ SumTo(gu, n) \in Int
      /\ SumTo(hd, n) \in Int /\ SumTo(fd, n) \in Int /\ SumTo(gd, n) \in Int
  BY <1>1, <1>4, SumInt
<1>10. /\ SumTo(hu, n) <= SumTo(fu, n) + SumTo(gu, n)
       /\ SumTo(hd, n) >= SumTo(fd, n) + SumTo(gd, n)
  BY <1>5, <1>8, <1>9
<1> QED
  BY <1>10 DEF QuoteSum, fu, gu, hu, fd, gd, hd, f, g, h, n

\* The price of a range: at least its area when it is rounded up, at most when rounded down.
LEMMA PriceValue ==
  ASSUME NEW p \in [Index -> Nat], NEW w \in Nat \ {0}, NEW r \in Rounding,
         NEW x \in Int, NEW y \in Int, x <= y
  PROVE  /\ Price(p, w, x, y, r) \in Nat
         /\ r = "Up" => Worth(w, Price(p, w, x, y, r)) >= Priced(AreaAt(p, w, y) - AreaAt(p, w, x))
         /\ r = "Down" => Worth(w, Price(p, w, x, y, r)) <= Priced(AreaAt(p, w, y) - AreaAt(p, w, x))
<1> DEFINE q == QuoteSum(p, w, x, y, r)
           t == q * QUOTE_PRECISION
           z == Price(p, w, x, y, r)
           u == Unit(w)
           a == AreaAt(p, w, y) - AreaAt(p, w, x)
<1>1. q \in Int /\ q >= 0
  <2>1. q \in Int
    BY QuoteTermsType
  <2>2. QuoteSum(p, w, x, x, r) <= q
    BY SumWidens
  <2>3. QuoteSum(p, w, x, x, r) = 0
    BY QuoteEmpty
  <2> QED
    BY <2>1, <2>2, <2>3
<1>2. a \in Int /\ u \in Nat \ {0} /\ SCALE \in Nat \ {0} /\ QUOTE_PRECISION \in Nat \ {0}
  <2>1. w \in Nat
    OBVIOUS
  <2>2. AreaAt(p, w, x) \in Int /\ AreaAt(p, w, y) \in Int
    BY <2>1, AreaType, Zenon
  <2> QED
    BY <2>2, UnitType, CurveAssumption
<1>3. /\ r = "Up" => q * u >= a
      /\ r = "Down" => q * u <= a
  BY SumRounds
<1> HIDE DEF q, u, a
<1>4. t \in Int /\ t >= 0
  BY <1>1, <1>2
<1>5. z = DivRound(t, SCALE, r)
  BY DEF Price, q
<1>6. /\ z \in Int /\ z >= 0
      /\ r = "Up" => z * SCALE >= t
      /\ r = "Down" => z * SCALE <= t
  <2> HIDE DEF t
  <2> QED
    BY <1>2, <1>4, <1>5, Rounds
<1> HIDE DEF z
<1>7. (q * u) * QUOTE_PRECISION = t * u
  BY <1>1, <1>2
<1>8. CASE r = "Up"
  <2> DEFINE b == z * SCALE
             c == q * u
  <2>1. b \in Int /\ t <= b /\ c \in Int /\ a <= c
    BY <1>1, <1>2, <1>3, <1>4, <1>6, <1>8
  <2> HIDE DEF b, c, t
  <2>2. t * u <= b * u /\ a * QUOTE_PRECISION <= c * QUOTE_PRECISION
    BY <1>2, <1>4, <2>1, TimesOrder
  <2>3. c * QUOTE_PRECISION = t * u /\ b * u \in Int /\ a * QUOTE_PRECISION \in Int /\ t * u \in Int
    BY <1>2, <1>4, <1>7, <2>1 DEF c
  <2>4. b * u >= a * QUOTE_PRECISION
    BY <2>2, <2>3
  <2> QED
    BY <1>6, <1>8, <2>4 DEF Worth, Priced, b, z, u, a
<1>9. CASE r = "Down"
  <2> DEFINE b == z * SCALE
             c == q * u
  <2>1. b \in Int /\ b <= t /\ c \in Int /\ c <= a
    BY <1>1, <1>2, <1>3, <1>4, <1>6, <1>9
  <2> HIDE DEF b, c, t
  <2>2. b * u <= t * u /\ c * QUOTE_PRECISION <= a * QUOTE_PRECISION
    BY <1>2, <1>4, <2>1, TimesOrder
  <2>3. c * QUOTE_PRECISION = t * u /\ b * u \in Int /\ a * QUOTE_PRECISION \in Int /\ t * u \in Int
    BY <1>2, <1>4, <1>7, <2>1 DEF c
  <2>4. b * u <= a * QUOTE_PRECISION
    BY <2>2, <2>3
  <2> QED
    BY <1>6, <1>9, <2>4 DEF Worth, Priced, b, z, u, a
<1>10. z \in Nat
  BY <1>6
<1> QED
  BY <1>8, <1>9, <1>10 DEF Rounding, z, a

\* A wider range of supplies does not have a lower price.
LEMMA PriceWidens ==
  ASSUME NEW p \in [Index -> Nat], NEW w \in Nat \ {0}, NEW r \in Rounding,
         NEW x \in Int, NEW y \in Int, NEW x2 \in Int, NEW y2 \in Int, x2 <= x, y <= y2
  PROVE  Price(p, w, x, y, r) <= Price(p, w, x2, y2, r)
<1> DEFINE a == QuoteSum(p, w, x, y, r)
           b == QuoteSum(p, w, x2, y2, r)
<1>1. a \in Int /\ b \in Int /\ SCALE \in Nat \ {0} /\ QUOTE_PRECISION \in Nat
  BY QuoteTermsType, CurveAssumption
<1>2. a <= b
  BY SumWidens
<1>3. Price(p, w, x, y, r) = DivRound(a * QUOTE_PRECISION, SCALE, r)
  BY DEF Price
<1>4. Price(p, w, x2, y2, r) = DivRound(b * QUOTE_PRECISION, SCALE, r)
  BY DEF Price
<1> HIDE DEF a, b
<1> DEFINE c == a * QUOTE_PRECISION
           d == b * QUOTE_PRECISION
<1>5. c \in Int /\ d \in Int /\ c <= d
  BY <1>1, <1>2
<1> HIDE DEF c, d
<1>6. DivRound(c, SCALE, r) <= DivRound(d, SCALE, r)
  BY <1>1, <1>5, RoundsOrder
<1> QED
  BY <1>3, <1>4, <1>6 DEF c, d

\* Dividing a range is never better for the one that rounding goes against.
LEMMA PriceDivides ==
  ASSUME NEW p \in [Index -> Nat], NEW w \in Nat \ {0}, NEW x \in Int, NEW y \in Int, NEW z \in Int,
         x <= y, y <= z
  PROVE  /\ Price(p, w, x, z, "Up") <= Price(p, w, x, y, "Up") + Price(p, w, y, z, "Up")
         /\ Price(p, w, x, z, "Down") >= Price(p, w, x, y, "Down") + Price(p, w, y, z, "Down")
<1> DEFINE a(r) == QuoteSum(p, w, x, y, r)
           b(r) == QuoteSum(p, w, y, z, r)
           c(r) == QuoteSum(p, w, x, z, r)
<1>1. "Up" \in Rounding /\ "Down" \in Rounding /\ SCALE \in Nat \ {0} /\ QUOTE_PRECISION \in Nat
  BY CurveAssumption DEF Rounding
<1>2. \A r \in Rounding : a(r) \in Int /\ b(r) \in Int /\ c(r) \in Int
  BY QuoteTermsType
<1>3. c("Up") <= a("Up") + b("Up") /\ c("Down") >= a("Down") + b("Down")
  BY SumDivides
<1>4. \A r \in Rounding : /\ Price(p, w, x, y, r) = DivRound(a(r) * QUOTE_PRECISION, SCALE, r)
                          /\ Price(p, w, y, z, r) = DivRound(b(r) * QUOTE_PRECISION, SCALE, r)
                          /\ Price(p, w, x, z, r) = DivRound(c(r) * QUOTE_PRECISION, SCALE, r)
  BY DEF Price
<1> HIDE DEF a, b, c
<1>5. ASSUME NEW r \in Rounding
      PROVE  /\ a(r) * QUOTE_PRECISION \in Int /\ b(r) * QUOTE_PRECISION \in Int
             /\ c(r) * QUOTE_PRECISION \in Int
             /\ Price(p, w, x, y, r) \in Int /\ Price(p, w, y, z, r) \in Int /\ Price(p, w, x, z, r) \in Int
             /\ DivRound(a(r) * QUOTE_PRECISION + b(r) * QUOTE_PRECISION, SCALE, r) \in Int
  <2> DEFINE s == a(r) * QUOTE_PRECISION
             t == b(r) * QUOTE_PRECISION
             v == c(r) * QUOTE_PRECISION
  <2>1. s \in Int /\ t \in Int /\ v \in Int /\ s + t \in Int
    BY <1>1, <1>2
  <2> HIDE DEF s, t, v
  <2>2. /\ DivRound(s, SCALE, r) \in Int /\ DivRound(t, SCALE, r) \in Int /\ DivRound(v, SCALE, r) \in Int
        /\ DivRound(s + t, SCALE, r) \in Int
    BY <1>1, <2>1, Rounds
  <2> QED
    BY <1>4, <2>1, <2>2 DEF s, t, v
<1>6. Price(p, w, x, z, "Up") <= Price(p, w, x, y, "Up") + Price(p, w, y, z, "Up")
  <2> DEFINE s == a("Up") * QUOTE_PRECISION
             t == b("Up") * QUOTE_PRECISION
             v == c("Up") * QUOTE_PRECISION
  <2>1. s \in Int /\ t \in Int /\ v \in Int /\ v <= s + t
    <3>1. c("Up") * QUOTE_PRECISION <= (a("Up") + b("Up")) * QUOTE_PRECISION
      BY <1>1, <1>2, <1>3
    <3> QED
      BY <1>1, <1>2, <3>1
  <2>2. /\ Price(p, w, x, y, "Up") = DivRound(s, SCALE, "Up")
        /\ Price(p, w, y, z, "Up") = DivRound(t, SCALE, "Up")
        /\ Price(p, w, x, z, "Up") = DivRound(v, SCALE, "Up")
        /\ DivRound(s + t, SCALE, "Up") \in Int
    BY <1>1, <1>4, <1>5
  <2> HIDE DEF s, t, v
  <2>3. DivRound(v, SCALE, "Up") <= DivRound(s + t, SCALE, "Up")
    <3>1. s + t \in Int
      BY <2>1
    <3> QED
      BY <1>1, <2>1, <3>1, RoundsOrder
  <2>4. DivRound(s + t, SCALE, "Up") <= DivRound(s, SCALE, "Up") + DivRound(t, SCALE, "Up")
    BY <1>1, <2>1, RoundsSplit
  <2> QED
    BY <1>1, <1>5, <2>2, <2>3, <2>4
<1>7. Price(p, w, x, z, "Down") >= Price(p, w, x, y, "Down") + Price(p, w, y, z, "Down")
  <2> DEFINE s == a("Down") * QUOTE_PRECISION
             t == b("Down") * QUOTE_PRECISION
             v == c("Down") * QUOTE_PRECISION
  <2>1. s \in Int /\ t \in Int /\ v \in Int /\ s + t <= v
    <3>1. (a("Down") + b("Down")) * QUOTE_PRECISION <= c("Down") * QUOTE_PRECISION
      BY <1>1, <1>2, <1>3
    <3> QED
      BY <1>1, <1>2, <3>1
  <2>2. /\ Price(p, w, x, y, "Down") = DivRound(s, SCALE, "Down")
        /\ Price(p, w, y, z, "Down") = DivRound(t, SCALE, "Down")
        /\ Price(p, w, x, z, "Down") = DivRound(v, SCALE, "Down")
        /\ DivRound(s + t, SCALE, "Down") \in Int
    BY <1>1, <1>4, <1>5
  <2> HIDE DEF s, t, v
  <2>3. DivRound(s + t, SCALE, "Down") <= DivRound(v, SCALE, "Down")
    <3>1. s + t \in Int
      BY <2>1
    <3> QED
      BY <1>1, <2>1, <3>1, RoundsOrder
  <2>4. DivRound(s + t, SCALE, "Down") >= DivRound(s, SCALE, "Down") + DivRound(t, SCALE, "Down")
    BY <1>1, <2>1, RoundsSplit
  <2> QED
    BY <1>1, <1>5, <2>2, <2>3, <2>4
<1> QED
  BY <1>6, <1>7

\* A market that the pricing functions are called with.
Sound(m) ==
  /\ m.total_supply \in Nat /\ m.base_reserve \in 0..m.total_supply
  /\ m.width_scaled \in Nat \ {0}
  /\ INTERVAL_NUMBER * m.width_scaled = Normalized(m.total_supply)
  /\ Climbs(m.bid_prices) /\ Climbs(m.ask_prices)

\* The price between two supplies in token units.
Cost(p, m, x, y, r) == Price(p, m.width_scaled, Normalized(x), Normalized(y), r)

PricesOf(m, type) == IF type = "ExactInput" THEN m.bid_prices ELSE m.ask_prices

\* Naming a base amount gives what of it is left above the supply, at the price of that range.
LEMMA NamedBase ==
  ASSUME NEW m, Sound(m), NEW supply \in 0..m.total_supply, NEW amount \in Nat, NEW type, NEW r \in Rounding
  PROVE  LET given == Min2(amount, m.total_supply - supply)
         IN  get_quote_amount_with_parameters(m, supply, amount, type, r)
               = Quoted(given, Cost(PricesOf(m, type), m, supply, supply + given, r))
<1> DEFINE total == m.total_supply
           given == Min2(amount, total - supply)
           w == m.width_scaled
           p == PricesOf(m, type)
           start == Normalized(supply)
           end == start + Normalized(amount)
           top == INTERVAL_NUMBER * w
           left == IF end > top THEN end - top ELSE 0
           goal == Normalized(supply + given)
<1>1. /\ total \in Nat /\ w \in Nat \ {0} /\ supply \in Nat /\ supply <= total /\ p \in [Index -> Nat]
      /\ SCALE \in Nat \ {0} /\ BASE_PRECISION \in Nat \ {0}
  BY CurveAssumption DEF Sound, Climbs, PricesOf
<1>2. /\ Ratio \in Nat \ {0} /\ SCALE = Ratio * BASE_PRECISION
      /\ given \in Nat /\ start = supply * Ratio /\ goal = (supply + given) * Ratio
      /\ end = supply * Ratio + amount * Ratio /\ top = total * Ratio
  BY <1>1, NormalizedDef DEF Sound, Min2
<1>3. get_quote_amount_with_parameters(m, supply, amount, type, r)
        = Quoted(amount - DivRound(left * BASE_PRECISION, SCALE, r), Price(p, w, start, end, r))
  BY DEF get_quote_amount_with_parameters, Price, QuoteSum, QuoteTerms, PricesOf
<1> HIDE DEF start, end, top, goal, w, p, left
<1>4. CASE amount <= total - supply
  <2>1. given = amount
    BY <1>1, <1>4 DEF Min2
  <2>2. end = goal
    BY <1>1, <1>2, <2>1
  <2>3. end <= top
    <3>1. (supply + amount) * Ratio <= total * Ratio
      BY <1>1, <1>2, <1>4
    <3> QED
      BY <1>1, <1>2, <3>1
  <2>4. left * BASE_PRECISION = 0 * SCALE
    <3>1. end \in Int /\ top \in Int
      BY <1>1, <1>2
    <3>2. left = 0
      BY <2>3, <3>1 DEF left
    <3> QED
      BY <1>1, <3>2
  <2>5. DivRound(left * BASE_PRECISION, SCALE, r) = 0
    <3>1. (0 * SCALE) \div SCALE = 0 /\ (0 * SCALE + SCALE - 1) \div SCALE = 0
      BY <1>1, DivExact
    <3> QED
      BY <2>4, <3>1 DEF DivRound
  <2>6. amount - 0 = given
    BY <2>1
  <2> QED
    BY <1>3, <2>2, <2>5, <2>6 DEF Cost, start, goal, w, p
<1>5. CASE ~(amount <= total - supply)
  <2> DEFINE over == supply + amount - total
  <2>1. given = total - supply /\ over \in Nat \ {0}
    BY <1>1, <1>5 DEF Min2
  <2>2. end - top = over * Ratio /\ goal = top
    BY <1>1, <1>2, <2>1
  <2>3. end > top
    <3>1. over * Ratio > 0
      BY <1>2, <2>1
    <3>2. end \in Int /\ top \in Int
      BY <1>1, <1>2
    <3> QED
      BY <2>2, <3>1, <3>2
  <2>4. left = over * Ratio
    BY <2>2, <2>3 DEF left
  <2> HIDE DEF over
  <2>5. left * BASE_PRECISION = over * SCALE
    BY <1>1, <1>2, <2>1, <2>4
  <2>6. DivRound(left * BASE_PRECISION, SCALE, r) = over
    <3>1. (over * SCALE) \div SCALE = over /\ (over * SCALE + SCALE - 1) \div SCALE = over
      BY <1>1, <2>1, DivExact
    <3> QED
      BY <2>5, <3>1 DEF DivRound
  <2>7. amount - over = given
    BY <1>1, <2>1 DEF over
  <2>8. Price(p, w, start, end, r) = Price(p, w, start, goal, r)
    <3>1. end >= INTERVAL_NUMBER * w /\ end \in Int /\ start \in Int
      BY <1>1, <1>2, <2>3 DEF top
    <3>2. QuoteSum(p, w, start, end, r) = QuoteSum(p, w, start, top, r)
      BY <1>1, <3>1, QuoteBeyond, Zenon DEF top
    <3> QED
      BY <2>2, <3>2 DEF Price
  <2> QED
    BY <1>3, <2>6, <2>7, <2>8 DEF Cost, start, goal, w, p
<1> QED
  BY <1>4, <1>5 DEF p

-----------------------------------------------------------------------------
(* One round of a walk. *)

\* The value of a partly filled interval, rounded down, brackets its area.
LEMMA CurrentQuote ==
  ASSUME NEW p0 \in Nat, NEW p1 \in Nat, p0 <= p1, NEW w \in Nat \ {0}, NEW x \in 0..w
  PROVE  /\ current_quote(p0, p1, w, x) \in Nat
         /\ current_quote(p0, p1, w, x) * Unit(w) <= IntervalArea(p0, p1, w, x)
         /\ IntervalArea(p0, p1, w, x) < current_quote(p0, p1, w, x) * Unit(w) + Unit(w)
         /\ current_quote(p0, p1, w, x) = DivRound(IntervalArea(p0, p1, w, x), Unit(w), "Down")
<1> DEFINE a == IntervalArea(p0, p1, w, x)
           u == Unit(w)
           q == current_quote(p0, p1, w, x)
<1>1. u \in Nat \ {0} /\ "Down" \in Rounding
  BY UnitType DEF Rounding
<1>2. a \in Int /\ a >= 0
  <2>1. (p1 - p0) * x >= 0 /\ p0 * w >= 0
    OBVIOUS
  <2> DEFINE b == (p1 - p0) * x + 2 * p0 * w
  <2>2. b \in Nat
    BY <2>1
  <2>3. a = x * b
    BY DEF IntervalArea
  <2> HIDE DEF b, a
  <2> QED
    BY <2>2, <2>3
<1>3. q = DivRound(a, u, "Down")
  BY DEF current_quote, mul_div, IntervalArea, Unit
<1> HIDE DEF a, u, q
<1>4. q \in Int /\ q >= 0 /\ q * u <= a /\ q * u > a - u
  BY <1>1, <1>2, <1>3, Rounds
<1>5. q \in Nat /\ a < q * u + u
  BY <1>1, <1>2, <1>4
<1> QED
  BY <1>3, <1>4, <1>5 DEF a, u, q

\* The discriminant is the square of the price at the end of the filled part.
LEMMA IntervalSquare ==
  ASSUME NEW p0 \in Nat, NEW p1 \in Nat, NEW w \in Nat, NEW x \in Int
  PROVE  (p0 * w + (p1 - p0) * x) * (p0 * w + (p1 - p0) * x)
           = (p1 - p0) * IntervalArea(p0, p1, w, x) + (p0 * w) * (p0 * w)
BY DEF IntervalArea

\* The rounded quotient is at most every integer that bounds the exact one from above.
LEMMA RoundsLeast ==
  ASSUME NEW a \in Int, NEW b \in Nat \ {0}, NEW q \in Int
  PROVE  /\ a <= q * b => DivRound(a, b, "Up") <= q
         /\ q * b <= a => q <= DivRound(a, b, "Down")
<1> DEFINE x == DivRound(a, b, "Up")
           y == DivRound(a, b, "Down")
<1>1. x \in Int /\ x * b < a + b /\ y \in Int /\ y * b > a - b
  BY Rounds DEF Rounding
<1> HIDE DEF x, y
<1>2. ASSUME a <= q * b PROVE x <= q
  <2> DEFINE c == q + 1
  <2>1. c \in Int /\ x * b < c * b
    BY <1>1, <1>2
  <2> HIDE DEF c
  <2>2. x < c
    BY <1>1, <2>1, TimesOrder
  <2> QED
    BY <1>1, <2>2 DEF c
<1>3. ASSUME q * b <= a PROVE q <= y
  <2> DEFINE c == y + 1
  <2>1. c \in Int /\ q * b < c * b
    BY <1>1, <1>3
  <2> HIDE DEF c
  <2>2. q < c
    BY <1>1, <2>1, TimesOrder
  <2> QED
    BY <1>1, <2>2 DEF c
<1> QED
  BY <1>2, <1>3 DEF x, y

\* One interval of a purchase: what is bought lies inside the interval and its area, rounded
\* up, is not more than what is paid; the interval or the quote amount is used up.
LEMMA BuyPart ==
  ASSUME NEW p0 \in Nat, NEW p1 \in Nat, p0 < p1 \/ (p0 = 0 /\ p1 = 0), NEW w \in Nat \ {0},
         NEW used \in 0..w, NEW rem \in Nat \ {0}, get_delta_base_out(p0, p1, w, used, rem).ok
  PROVE  LET d == get_delta_base_out(p0, p1, w, used, rem)
         IN  /\ d.base \in 0..(w - used) /\ d.quote \in 0..rem
             /\ DivRound(IntervalArea(p0, p1, w, used + d.base) - IntervalArea(p0, p1, w, used), Unit(w), "Up")
                  <= d.quote
             /\ d.quote = rem \/ d.base = w - used
<1> DEFINE d == get_delta_base_out(p0, p1, w, used, rem)
           pd == p1 - p0
           u == Unit(w)
           uq == current_quote(p0, p1, w, used)
           next == DivRound((p0 + p1) * w, 2 * SCALE, "Up")
           rr == p0 * w + pd * used
           disc == w * pd * (uq + rem) * 2 * SCALE + (p0 * w) * (p0 * w)
           root == Root(disc)
           part == DivRound(root - rr, pd, "Down")
           ia(x) == IntervalArea(p0, p1, w, x)
<1>1. /\ u \in Nat \ {0} /\ u = 2 * SCALE * w /\ SCALE \in Nat \ {0} /\ p0 <= p1 /\ pd \in Nat
      /\ "Up" \in Rounding /\ "Down" \in Rounding /\ w \in Nat
  BY UnitType, CurveAssumption DEF Rounding
<1>2. /\ d = IF next \notin U64 THEN Fail
             ELSE IF rem >= next - uq THEN [base |-> w - used, quote |-> next - uq, ok |-> TRUE]
             ELSE [base |-> part, quote |-> rem, ok |-> TRUE]
      /\ d.ok
  BY DEF get_delta_base_out, get_sqrt_discriminant
<1>3. /\ uq \in Nat /\ uq * u <= ia(used) /\ ia(used) < uq * u + u
  BY <1>1, CurrentQuote
<1>4. ia(used) \in Int /\ ia(w) \in Int /\ ia(used) <= ia(w) /\ \A x \in Int : ia(x) \in Int
  <2>1. \A x \in Int : ia(x) \in Int
    BY DEF IntervalArea
  <2>2. w \in used..w /\ p0 <= p0 /\ p1 <= p1
    OBVIOUS
  <2>3. ia(used) <= ia(w)
    BY <1>1, <2>2, IntervalOrder
  <2> QED
    BY <2>1, <2>3
<1>5. next \in Int /\ next * u >= ia(w) /\ next * u < ia(w) + u
  <2> DEFINE c == (p0 + p1) * w
             s == 2 * SCALE
  <2>1. c \in Int /\ s \in Nat \ {0}
    BY <1>1
  <2>2. ia(w) = c * w /\ u = s * w
    BY <1>1 DEF IntervalArea
  <2> HIDE DEF c, s
  <2>3. next \in Int /\ next * s >= c /\ next * s < c + s
    BY <1>1, <2>1, Rounds DEF c, s
  <2> HIDE DEF next, u
  <2>4. (next * s) * w >= c * w /\ (next * s) * w < (c + s) * w
    BY <1>1, <2>1, <2>3
  <2> QED
    BY <1>1, <2>1, <2>2, <2>3, <2>4
<1>6. uq <= next
  <2> HIDE DEF uq, next, u, ia
  <2>1. uq * u <= next * u
    BY <1>1, <1>3, <1>4, <1>5
  <2> QED
    BY <1>1, <1>3, <1>5, <2>1, TimesOrder
<1>7. next \in U64
  BY <1>2 DEF Fail
<1>8. CASE rem >= next - uq
  <2>1. d.base = w - used /\ d.quote = next - uq
    BY <1>2, <1>7, <1>8
  <2> HIDE DEF d, uq, next, u, ia
  <2>2. d.base \in 0..(w - used) /\ d.quote \in 0..rem
    BY <1>1, <1>3, <1>5, <1>6, <1>8, <2>1
  <2>3. used + d.base = w
    BY <1>1, <2>1
  <2>4. ia(w) - ia(used) <= d.quote * u
    BY <1>1, <1>3, <1>4, <1>5, <2>1
  <2>5. ia(w) - ia(used) \in Int /\ d.quote \in Int
    BY <1>4, <2>2
  <2>6. DivRound(ia(w) - ia(used), u, "Up") <= d.quote
    BY <1>1, <2>4, <2>5, RoundsLeast
  <2> QED
    BY <2>1, <2>2, <2>3, <2>6 DEF d, ia, u
<1>9. CASE rem < next - uq
  <2>1. d.base = part /\ d.quote = rem
    BY <1>2, <1>3, <1>5, <1>7, <1>9
  <2>2. pd > 0 /\ pd \in Nat \ {0}
    <3>1. CASE p0 < p1
      BY <3>1
    <3>2. CASE p0 = 0 /\ p1 = 0
      <4>1. ia(w) = 0
        BY <1>1, <3>2 DEF IntervalArea
      <4> HIDE DEF next, u, uq, ia
      <4>2. next * u < 1 * u
        BY <1>1, <1>5, <4>1
      <4>3. next < 1
        BY <1>1, <1>5, <4>2, TimesOrder
      <4> QED
        BY <1>3, <1>5, <1>9, <4>3
    <3> QED
      BY <3>1, <3>2
  <2> DEFINE pw == p0 * w
             v == uq + rem
             x == used + part
  <2>3. pw \in Nat /\ v \in Nat
    BY <1>1, <1>3
  <2>4. disc = pd * (u * v) + pw * pw
    <3> HIDE DEF uq
    <3> QED
      BY <1>1, <1>3
  <2>5. disc \in Nat
    <3> HIDE DEF disc, uq, pw, v, pd, u
    <3>1. u * v \in Nat /\ pw * pw \in Nat
      BY <1>1, <2>3
    <3>2. pd * (u * v) \in Nat
      BY <1>1, <3>1
    <3> QED
      BY <2>4, <3>1, <3>2
  <2>6. root \in Nat /\ root * root <= disc /\ disc < (root + 1) * (root + 1)
    <3> HIDE DEF disc
    <3> QED
      BY <2>5, RootDef
  <2>7. rr \in Nat /\ rr * rr = pd * ia(used) + pw * pw
    <3>1. rr \in Nat
      BY <1>1
    <3> QED
      BY <3>1, <1>1, IntervalSquare
  <2> HIDE DEF pd, u, uq, next, rr, disc, root, part, ia, pw, v
  <2>8. ia(used) <= u * v
    <3>1. uq + 1 <= v /\ uq + 1 \in Int
      BY <1>3 DEF v
    <3>2. (uq + 1) * u <= v * u
      BY <1>1, <2>3, <3>1, TimesOrder
    <3> QED
      BY <1>1, <1>3, <1>4, <2>3, <3>2
  <2>9. rr <= root
    <3>1. pd * ia(used) <= pd * (u * v)
      BY <1>1, <1>4, <2>3, <2>8
    <3>2. rr * rr <= disc
      <4>1. pw * pw \in Int /\ pd * ia(used) \in Int /\ pd * (u * v) \in Int
        BY <1>1, <1>4, <2>3
      <4> QED
        BY <2>4, <2>7, <3>1, <4>1
    <3>3. rr * rr < (root + 1) * (root + 1)
      <4>1. rr * rr \in Int /\ (root + 1) * (root + 1) \in Int
        BY <2>6, <2>7
      <4> QED
        BY <2>5, <2>6, <3>2, <4>1
    <3> QED
      BY <2>6, <2>7, <3>3, SquareOrder
  <2>10. part \in Nat /\ part * pd <= root - rr
    <3> DEFINE e == root - rr
    <3>1. e \in Int /\ e >= 0
      BY <2>6, <2>7, <2>9
    <3>2. part = DivRound(e, pd, "Down")
      BY DEF part
    <3> HIDE DEF e
    <3>3. /\ DivRound(e, pd, "Down") \in Int /\ DivRound(e, pd, "Down") >= 0
          /\ DivRound(e, pd, "Down") * pd <= e
      BY <1>1, <2>2, <3>1, Rounds
    <3> QED
      BY <3>2, <3>3 DEF e
  <2>11. x \in Nat /\ pw + pd * x \in Nat /\ pw + pd * x <= root
    <3>1. rr = pw + pd * used
      BY DEF rr, pw
    <3> QED
      BY <1>1, <2>3, <2>6, <2>7, <2>10, <3>1
  <2>12. (pw + pd * x) * (pw + pd * x) = pd * ia(x) + pw * pw
    <3>1. x \in Int
      BY <2>11
    <3> HIDE DEF x
    <3> QED
      BY <1>1, <3>1, IntervalSquare DEF pw, pd, ia
  <2> HIDE DEF x
  <2>13. ia(x) \in Int
    BY <1>4, <2>11
  <2>14. ia(x) <= u * v
    <3> DEFINE e == pw + pd * x
    <3>1. e \in Nat /\ e <= root
      BY <2>11
    <3>2. e * e = pd * ia(x) + pw * pw
      BY <2>12
    <3> HIDE DEF e
    <3>3. e * e <= root * root
      BY <2>6, <3>1, SquareOrder
    <3> DEFINE f == ia(x)
               g == u * v
               h == pw * pw
    <3>4. f \in Int /\ g \in Int /\ h \in Int
      BY <1>1, <2>3, <2>13
    <3>5. e * e = pd * f + h /\ disc = pd * g + h
      BY <2>4, <3>2
    <3> HIDE DEF f, g, h
    <3>6. pd * f <= pd * g
      <4>1. e * e \in Int /\ root * root \in Int /\ pd * f \in Int /\ pd * g \in Int
        BY <1>1, <2>6, <3>1, <3>4
      <4> QED
        BY <2>5, <2>6, <3>3, <3>4, <3>5, <4>1
    <3>7. f <= g
      <4>1. f * pd <= g * pd
        BY <1>1, <3>4, <3>6
      <4> QED
        BY <2>2, <3>4, <4>1, TimesOrder
    <3> QED
      BY <3>7 DEF f, g
  <2>15. x <= w
    <3>1. u * v < ia(w)
      <4>1. v + 1 <= next /\ v + 1 \in Int
        BY <1>3, <1>5, <1>9 DEF v
      <4>2. (v + 1) * u <= next * u
        BY <1>1, <1>5, <4>1, TimesOrder
      <4> QED
        BY <1>1, <1>4, <1>5, <2>3, <4>2
    <3>2. ia(x) < ia(w)
      BY <1>1, <1>4, <2>3, <2>13, <2>14, <3>1
    <3>3. ASSUME w < x PROVE FALSE
      <4>1. pd * w <= pd * x
        BY <1>1, <2>11, <3>3
      <4> DEFINE cw == pd * w + 2 * p0 * w
                 cx == pd * x + 2 * p0 * w
      <4>2. cw \in Nat /\ cx \in Nat /\ cw <= cx
        BY <1>1, <2>11, <4>1
      <4>3. ia(w) = w * cw /\ ia(x) = x * cx
        BY DEF ia, IntervalArea, pd
      <4> HIDE DEF cw, cx
      <4>4. w * cw <= x * cw /\ x * cw <= x * cx
        BY <1>1, <2>11, <3>3, <4>2
      <4> QED
        BY <1>1, <2>11, <3>2, <4>2, <4>3, <4>4
    <3> QED
      BY <1>1, <2>11, <3>3
  <2>16. part \in 0..(w - used)
    BY <1>1, <2>10, <2>15 DEF x
  <2>17. DivRound(ia(x) - ia(used), u, "Up") <= rem
    <3>1. u * v = uq * u + rem * u
      BY <1>1, <1>3 DEF v
    <3>2. ia(x) - ia(used) <= rem * u
      BY <1>1, <1>3, <1>4, <2>13, <2>14, <3>1
    <3>3. ia(x) - ia(used) \in Int /\ rem \in Int
      BY <1>4, <2>13
    <3> QED
      BY <1>1, <3>2, <3>3, RoundsLeast
  <2> QED
    BY <2>1, <2>16, <2>17 DEF d, ia, u, x
<1> QED
  BY <1>3, <1>5, <1>8, <1>9

\* One interval of a sale: what is sold lies in the filled part and its area, rounded down,
\* is not less than what is paid out; the filled part or the quote amount is used up.
LEMMA SellPart ==
  ASSUME NEW p0 \in Nat, NEW p1 \in Nat, p0 < p1 \/ (p0 = 0 /\ p1 = 0), NEW w \in Nat \ {0},
         NEW avail \in 0..w, NEW rem \in Nat \ {0}
  PROVE  LET d == get_delta_base_in(p0, p1, w, avail, rem)
         IN  /\ d.ok /\ d.base \in 0..avail /\ d.quote \in 0..rem
             /\ DivRound(IntervalArea(p0, p1, w, avail) - IntervalArea(p0, p1, w, avail - d.base), Unit(w), "Down")
                  >= d.quote
             /\ d.quote = rem \/ d.base = avail
<1> DEFINE d == get_delta_base_in(p0, p1, w, avail, rem)
           pd == p1 - p0
           u == Unit(w)
           all == current_quote(p0, p1, w, avail)
           rl == p0 * w + pd * avail
           disc == w * pd * (all - rem) * 2 * SCALE + (p0 * w) * (p0 * w)
           root == Root(disc)
           part == DivRound(rl - root, pd, "Up")
           ia(x) == IntervalArea(p0, p1, w, x)
<1>1. /\ u \in Nat \ {0} /\ u = 2 * SCALE * w /\ SCALE \in Nat \ {0} /\ p0 <= p1 /\ pd \in Nat
      /\ "Up" \in Rounding /\ "Down" \in Rounding /\ w \in Nat
  BY UnitType, CurveAssumption DEF Rounding
<1>2. d = IF rem >= all THEN [base |-> avail, quote |-> all, ok |-> TRUE]
          ELSE [base |-> part, quote |-> rem, ok |-> TRUE]
  BY DEF get_delta_base_in, get_sqrt_discriminant
<1>3. all \in Nat /\ all * u <= ia(avail) /\ all = DivRound(ia(avail), u, "Down")
  BY <1>1, CurrentQuote
<1>4. ia(0) = 0 /\ ia(avail) \in Int /\ \A x \in Int : ia(x) \in Int
  BY DEF IntervalArea
<1>5. CASE rem >= all
  <2>1. d.ok /\ d.base = avail /\ d.quote = all
    BY <1>2, <1>5
  <2> HIDE DEF d, all, ia, u
  <2>2. avail - d.base = 0 /\ d.base \in 0..avail /\ d.quote \in 0..rem
    BY <1>3, <1>5, <2>1
  <2>3. ia(avail) - ia(avail - d.base) = ia(avail)
    BY <1>4, <2>2
  <2>4. DivRound(ia(avail) - ia(avail - d.base), u, "Down") >= d.quote
    BY <1>3, <2>1, <2>3
  <2> QED
    BY <2>1, <2>2, <2>4 DEF d, ia, u
<1>6. CASE rem < all
  <2>1. d.ok /\ d.base = part /\ d.quote = rem
    BY <1>2, <1>3, <1>6
  <2>2. pd > 0 /\ pd \in Nat \ {0}
    <3>1. CASE p0 < p1
      BY <3>1
    <3>2. CASE p0 = 0 /\ p1 = 0
      <4>1. ia(avail) = 0
        BY <1>1, <3>2 DEF IntervalArea
      <4> HIDE DEF u, all, ia
      <4>2. all * u <= 0
        BY <1>3, <4>1
      <4>3. 1 * u <= all * u
        BY <1>1, <1>3, <1>6
      <4> QED
        BY <1>1, <1>3, <4>2, <4>3
    <3> QED
      BY <3>1, <3>2
  <2> DEFINE pw == p0 * w
             v == all - rem
             y == avail - part
  <2>3. pw \in Nat /\ v \in Nat
    BY <1>1, <1>3, <1>6
  <2>4. disc = pd * (u * v) + pw * pw
    <3> HIDE DEF all
    <3> QED
      BY <1>1, <1>3
  <2>5. disc \in Nat /\ pw * pw <= disc
    <3> HIDE DEF disc, all, pw, v, pd, u
    <3>1. u * v \in Nat /\ pw * pw \in Nat
      BY <1>1, <2>3
    <3>2. pd * (u * v) \in Nat
      BY <1>1, <3>1
    <3> QED
      BY <2>4, <3>1, <3>2
  <2>6. root \in Nat /\ root * root <= disc /\ disc < (root + 1) * (root + 1)
    <3> HIDE DEF disc
    <3> QED
      BY <2>5, RootDef
  <2>7. rl \in Nat /\ rl * rl = pd * ia(avail) + pw * pw
    <3>1. rl \in Nat
      BY <1>1
    <3> QED
      BY <3>1, <1>1, IntervalSquare
  <2>8. rl = pw + pd * avail
    OBVIOUS
  <2> HIDE DEF pd, u, all, rl, disc, root, part, ia, pw, v
  <2>9. u * v <= ia(avail)
    <3>1. v * u <= all * u
      <4>1. v <= all
        BY <1>3 DEF v
      <4> QED
        BY <1>1, <1>3, <2>3, <4>1, TimesOrder
    <3> QED
      BY <1>1, <1>3, <1>4, <2>3, <3>1
  <2>10. root <= rl
    <3>1. pd * (u * v) <= pd * ia(avail)
      BY <1>1, <1>4, <2>3, <2>9
    <3>2. disc <= rl * rl
      <4>1. pw * pw \in Int /\ pd * ia(avail) \in Int /\ pd * (u * v) \in Int
        BY <1>1, <1>4, <2>3
      <4> QED
        BY <2>4, <2>7, <3>1, <4>1
    <3>3. root * root <= rl * rl
      <4>1. rl * rl \in Int /\ root * root \in Int
        BY <2>6, <2>7
      <4> QED
        BY <2>5, <2>6, <3>2, <4>1
    <3> QED
      BY <2>6, <2>7, <3>3, SquareOrder
  <2>11. pw <= root
    <3>1. pw * pw < (root + 1) * (root + 1)
      <4>1. pw * pw \in Int /\ (root + 1) * (root + 1) \in Int
        BY <2>3, <2>6
      <4> QED
        BY <2>5, <2>6, <4>1
    <3> QED
      BY <2>3, <2>6, <3>1, SquareOrder
  <2>12. part \in Nat /\ part * pd >= rl - root /\ part <= avail
    <3> DEFINE e == rl - root
    <3>1. e \in Int /\ e >= 0
      BY <2>6, <2>7, <2>10
    <3>2. part = DivRound(e, pd, "Up")
      BY DEF part
    <3>3. e <= avail * pd
      BY <1>1, <2>3, <2>6, <2>7, <2>8, <2>11
    <3> HIDE DEF e
    <3>4. /\ DivRound(e, pd, "Up") \in Int /\ DivRound(e, pd, "Up") >= 0
          /\ DivRound(e, pd, "Up") * pd >= e
      BY <1>1, <2>2, <3>1, Rounds
    <3>5. avail \in Int
      OBVIOUS
    <3>6. DivRound(e, pd, "Up") <= avail
      BY <2>2, <3>1, <3>3, <3>5, RoundsLeast
    <3> QED
      BY <3>2, <3>4, <3>6 DEF e
  <2>13. y \in 0..w /\ pw + pd * y \in Nat /\ pw + pd * y <= root
    <3>1. y \in 0..w
      BY <2>12
    <3>2. pw + pd * y = rl - part * pd
      BY <1>1, <2>3, <2>8, <2>12
    <3>3. pw + pd * y \in Nat
      BY <1>1, <2>3, <3>1
    <3> HIDE DEF y
    <3> QED
      BY <1>1, <2>6, <2>7, <2>12, <3>1, <3>2, <3>3
  <2>14. (pw + pd * y) * (pw + pd * y) = pd * ia(y) + pw * pw
    <3>1. y \in Int
      BY <2>13
    <3> HIDE DEF y
    <3> QED
      BY <1>1, <3>1, IntervalSquare DEF pw, pd, ia
  <2> HIDE DEF y
  <2>15. ia(y) \in Int
    BY <1>4, <2>13
  <2>16. ia(y) <= u * v
    <3> DEFINE e == pw + pd * y
    <3>1. e \in Nat /\ e <= root
      BY <2>13
    <3>2. e * e = pd * ia(y) + pw * pw
      BY <2>14
    <3> HIDE DEF e
    <3>3. e * e <= root * root
      BY <2>6, <3>1, SquareOrder
    <3> DEFINE f == ia(y)
               g == u * v
               h == pw * pw
    <3>4. f \in Int /\ g \in Int /\ h \in Int
      BY <1>1, <2>3, <2>15
    <3>5. e * e = pd * f + h /\ disc = pd * g + h
      BY <2>4, <3>2
    <3> HIDE DEF f, g, h
    <3>6. pd * f <= pd * g
      <4>1. e * e \in Int /\ root * root \in Int /\ pd * f \in Int /\ pd * g \in Int
        BY <1>1, <2>6, <3>1, <3>4
      <4> QED
        BY <2>5, <2>6, <3>3, <3>4, <3>5, <4>1
    <3>7. f <= g
      <4>1. f * pd <= g * pd
        BY <1>1, <3>4, <3>6
      <4> QED
        BY <2>2, <3>4, <4>1, TimesOrder
    <3> QED
      BY <3>7 DEF f, g
  <2>17. DivRound(ia(avail) - ia(y), u, "Down") >= rem
    <3>1. u * v = all * u - rem * u
      BY <1>1, <1>3 DEF v
    <3>2. rem * u <= ia(avail) - ia(y)
      BY <1>1, <1>3, <1>4, <2>15, <2>16, <3>1
    <3>3. ia(avail) - ia(y) \in Int /\ rem \in Int
      BY <1>4, <2>15
    <3>4. rem <= DivRound(ia(avail) - ia(y), u, "Down")
      BY <1>1, <3>2, <3>3, RoundsLeast
    <3>5. DivRound(ia(avail) - ia(y), u, "Down") \in Int
      BY <1>1, <3>3, Rounds
    <3> QED
      BY <3>4, <3>5
  <2>18. part \in 0..avail /\ rem \in 0..rem
    BY <2>12
  <2> QED
    BY <2>1, <2>17, <2>18 DEF d, ia, u, y
<1> QED
  BY <1>3, <1>5, <1>6

-----------------------------------------------------------------------------
(* The walks. *)

\* The recursion that defines PassesUp has a solution, so that each round follows from the last.
LEMMA PassesUpExist ==
  ASSUME NEW m, NEW nq
  PROVE  \E g : g = [i \in Index |-> IF i = 0 THEN WalkStart(nq) ELSE BuyInterval(m, g[i - 1], i)]
<1> DEFINE n == INTERVAL_NUMBER
           start == WalkStart(nq)
           Round(s, j) == BuyInterval(m, s, j)
           Solves(g, k) == g = [j \in 0..k |-> IF j = 0 THEN start ELSE Round(g[j - 1], j)]
           G == {k \in 0..n : \E g : Solves(g, k)}
<1>0. n \in Nat
  BY CurveAssumption
<1> HIDE DEF n, start, Round
<1>1. 0 \in G
  <2>1. Solves([j \in 0..0 |-> start], 0)
    OBVIOUS
  <2>2. \E g : Solves(g, 0)
    <3> HIDE DEF Solves
    <3> QED BY <2>1
  <2> HIDE DEF Solves
  <2> QED
    BY <1>0, <2>2
<1>2. ASSUME NEW k \in 0..n, k # 0, k - 1 \in G
      PROVE  k \in G
  <2>1. PICK g : Solves(g, k - 1)
    BY <1>2
  <2> DEFINE h == [j \in 0..k |-> IF j = k THEN Round(g[k - 1], k) ELSE g[j]]
  <2>2. ASSUME NEW j \in 0..k
        PROVE  h[j] = IF j = 0 THEN start ELSE Round(h[j - 1], j)
    <3>1. CASE j = k
      BY <3>1, <1>2
    <3>2. CASE j # k
      <4>1. j \in 0..(k - 1)
        BY <3>2
      <4>2. g[j] = IF j = 0 THEN start ELSE Round(g[j - 1], j)
        BY <2>1, <4>1
      <4> QED
        BY <3>2, <4>1, <4>2
    <3> QED
      BY <3>1, <3>2
  <2>3. h = [j \in 0..k |-> IF j = 0 THEN start ELSE Round(h[j - 1], j)]
    BY <2>2
  <2>4. Solves(h, k)
    BY <2>3
  <2> HIDE DEF h, Solves
  <2> QED
    BY <2>4
<1> HIDE DEF G
<1>3. 0..n \subseteq G
  BY <1>0, <1>1, <1>2, SegmentInduction
<1>4. n \in G
  BY <1>0, <1>3
<1>5. \E g : Solves(g, n)
  BY <1>4 DEF G
<1> HIDE DEF Solves
<1>6. PICK g : Solves(g, n)
  BY <1>5
<1>7. g = [i \in Index |-> IF i = 0 THEN WalkStart(nq) ELSE BuyInterval(m, g[i - 1], i)]
  BY <1>6, Zenon DEF Solves, Round, start, n, Index
<1> QED
  BY <1>7, Zenon

\* The two equations of the recursion, as the proofs use them.
LEMMA PassesUpStep ==
  ASSUME NEW m, NEW nq
  PROVE  /\ PassesUp(m, nq)[0] = WalkStart(nq)
         /\ \A j \in 1..INTERVAL_NUMBER :
              PassesUp(m, nq)[j] = BuyInterval(m, PassesUp(m, nq)[j - 1], j)
<1> DEFINE s == PassesUp(m, nq)
           Solves(h) == h = [i \in Index |-> IF i = 0 THEN WalkStart(nq) ELSE BuyInterval(m, h[i - 1], i)]
           g == CHOOSE g : Solves(g)
<1>0. \E h : Solves(h)
  BY PassesUpExist
<1>1. g = [i \in Index |-> IF i = 0 THEN WalkStart(nq) ELSE BuyInterval(m, g[i - 1], i)]
  <2>1. Solves(g)
    <3> HIDE DEF Solves
    <3> QED
      BY <1>0
  <2> HIDE DEF g
  <2> QED
    BY <2>1, Zenon
<1>2. s = g
  BY Zenon DEF PassesUp
<1>3. s = [i \in Index |-> IF i = 0 THEN WalkStart(nq) ELSE BuyInterval(m, s[i - 1], i)]
  BY <1>1, <1>2, Zenon
<1> HIDE DEF s
<1> DEFINE Round(t, j) == BuyInterval(m, t, j)
           start == WalkStart(nq)
<1>4. s = [j \in Index |-> IF j = 0 THEN start ELSE Round(s[j - 1], j)]
  BY <1>3
<1> HIDE DEF Round, start
<1>5. s[0] = start /\ \A j \in 1..INTERVAL_NUMBER : s[j] = Round(s[j - 1], j)
  BY <1>4, CurveAssumption DEF Index
<1> QED
  BY <1>5, Zenon DEF s, start, Round

\* The recursion that defines PassesDown has a solution, so that each round follows from the last.
LEMMA PassesDownExist ==
  ASSUME NEW m, NEW nq
  PROVE  \E g : g = [j \in Index |-> IF j = 0 THEN WalkStart(nq) ELSE SellInterval(m, g[j - 1], TopInterval(m) - j + 1)]
<1> DEFINE n == INTERVAL_NUMBER
           start == WalkStart(nq)
           Round(s, j) == SellInterval(m, s, TopInterval(m) - j + 1)
           Solves(g, k) == g = [j \in 0..k |-> IF j = 0 THEN start ELSE Round(g[j - 1], j)]
           G == {k \in 0..n : \E g : Solves(g, k)}
<1>0. n \in Nat
  BY CurveAssumption
<1> HIDE DEF n, start, Round
<1>1. 0 \in G
  <2>1. Solves([j \in 0..0 |-> start], 0)
    OBVIOUS
  <2>2. \E g : Solves(g, 0)
    <3> HIDE DEF Solves
    <3> QED BY <2>1
  <2> HIDE DEF Solves
  <2> QED
    BY <1>0, <2>2
<1>2. ASSUME NEW k \in 0..n, k # 0, k - 1 \in G
      PROVE  k \in G
  <2>1. PICK g : Solves(g, k - 1)
    BY <1>2
  <2> DEFINE h == [j \in 0..k |-> IF j = k THEN Round(g[k - 1], k) ELSE g[j]]
  <2>2. ASSUME NEW j \in 0..k
        PROVE  h[j] = IF j = 0 THEN start ELSE Round(h[j - 1], j)
    <3>1. CASE j = k
      BY <3>1, <1>2
    <3>2. CASE j # k
      <4>1. j \in 0..(k - 1)
        BY <3>2
      <4>2. g[j] = IF j = 0 THEN start ELSE Round(g[j - 1], j)
        BY <2>1, <4>1
      <4> QED
        BY <3>2, <4>1, <4>2
    <3> QED
      BY <3>1, <3>2
  <2>3. h = [j \in 0..k |-> IF j = 0 THEN start ELSE Round(h[j - 1], j)]
    BY <2>2
  <2>4. Solves(h, k)
    BY <2>3
  <2> HIDE DEF h, Solves
  <2> QED
    BY <2>4
<1> HIDE DEF G
<1>3. 0..n \subseteq G
  BY <1>0, <1>1, <1>2, SegmentInduction
<1>4. n \in G
  BY <1>0, <1>3
<1>5. \E g : Solves(g, n)
  BY <1>4 DEF G
<1> HIDE DEF Solves
<1>6. PICK g : Solves(g, n)
  BY <1>5
<1>7. g = [j \in Index |-> IF j = 0 THEN WalkStart(nq) ELSE SellInterval(m, g[j - 1], TopInterval(m) - j + 1)]
  BY <1>6, Zenon DEF Solves, Round, start, n, Index
<1> QED
  BY <1>7, Zenon

\* The two equations of the recursion, as the proofs use them.
LEMMA PassesDownStep ==
  ASSUME NEW m, NEW nq
  PROVE  /\ PassesDown(m, nq)[0] = WalkStart(nq)
         /\ \A j \in 1..INTERVAL_NUMBER :
              PassesDown(m, nq)[j] = SellInterval(m, PassesDown(m, nq)[j - 1], TopInterval(m) - j + 1)
<1> DEFINE s == PassesDown(m, nq)
           g == CHOOSE g : g = [j \in Index |-> IF j = 0 THEN WalkStart(nq) ELSE SellInterval(m, g[j - 1], TopInterval(m) - j + 1)]
<1>1. g = [j \in Index |-> IF j = 0 THEN WalkStart(nq) ELSE SellInterval(m, g[j - 1], TopInterval(m) - j + 1)]
  BY PassesDownExist, Zenon
<1>2. s = g
  BY Zenon DEF PassesDown
<1>3. s = [j \in Index |-> IF j = 0 THEN WalkStart(nq) ELSE SellInterval(m, s[j - 1], TopInterval(m) - j + 1)]
  BY <1>1, <1>2, Zenon
<1> HIDE DEF s
<1> DEFINE Round(t, j) == SellInterval(m, t, TopInterval(m) - j + 1)
           start == WalkStart(nq)
<1>4. s = [j \in Index |-> IF j = 0 THEN start ELSE Round(s[j - 1], j)]
  BY <1>3
<1> HIDE DEF Round, start
<1>5. s[0] = start /\ \A j \in 1..INTERVAL_NUMBER : s[j] = Round(s[j - 1], j)
  BY <1>4, CurveAssumption DEF Index
<1> QED
  BY <1>5, Zenon DEF s, start, Round

\* The supply in circulation, on the scale of the walks.
Supply(m) == Normalized(circulating_supply(m))

LEMMA SupplyType ==
  ASSUME NEW m, Sound(m)
  PROVE  /\ circulating_supply(m) \in 0..m.total_supply /\ m.total_supply \in Nat
         /\ Supply(m) = circulating_supply(m) * Ratio
         /\ INTERVAL_NUMBER * m.width_scaled = m.total_supply * Ratio
         /\ INTERVAL_NUMBER * m.width_scaled \in Nat /\ Supply(m) \in 0..(INTERVAL_NUMBER * m.width_scaled)
<1> DEFINE c == circulating_supply(m)
           t == m.total_supply
<1>1. c \in Int /\ t \in Nat /\ c \in 0..t
  BY DEF circulating_supply, Sound
<1>2. Supply(m) = c * Ratio /\ INTERVAL_NUMBER * m.width_scaled = t * Ratio /\ Ratio \in Nat \ {0}
  BY <1>1, NormalizedDef DEF Supply, Sound
<1> HIDE DEF c, t
<1>3. 0 <= c * Ratio /\ c * Ratio <= t * Ratio /\ c * Ratio \in Int /\ t * Ratio \in Int
  BY <1>1, <1>2
<1>4. INTERVAL_NUMBER * m.width_scaled \in Nat /\ Supply(m) \in 0..(INTERVAL_NUMBER * m.width_scaled)
  BY <1>2, <1>3
<1> QED
  BY <1>1, <1>2, <1>4 DEF c, t

\* What a purchase has bought after the rounds up to interval i: it has paid at least the
\* price of it, and either the quote amount is used up or the interval is.
BoughtTo(m, nq, s, i) ==
  LET w == m.width_scaled
      end == Supply(m) + s.base
  IN  s.ok =>
        /\ s.left \in 0..nq /\ s.base \in Nat /\ end <= INTERVAL_NUMBER * w
        /\ QuoteSum(m.ask_prices, w, Supply(m), end, "Up") <= nq - s.left
        /\ s.left = 0 \/ end >= i * w
        /\ s.base = 0 \/ end <= i * w

\* A round of the purchase keeps that.
LEMMA BuyRound ==
  ASSUME NEW m, Sound(m), NEW nq \in Nat, NEW s, NEW i \in 1..INTERVAL_NUMBER, BoughtTo(m, nq, s, i - 1)
  PROVE  BoughtTo(m, nq, BuyInterval(m, s, i), i)
<1> DEFINE w == m.width_scaled
           p == m.ask_prices
           S == Supply(m)
           X == S + s.base
           lo == (i - 1) * w
           hi == i * w
           top == INTERVAL_NUMBER * w
           t == BuyInterval(m, s, i)
           used == Filled(i, S, w)
           d == get_delta_base_out(p[i - 1], p[i], w, used, s.left)
<1>1. /\ w \in Nat \ {0} /\ w \in Nat /\ S \in Nat /\ S \in Int /\ top \in Nat /\ S <= top
      /\ p \in [Index -> Nat] /\ p[i - 1] \in Nat /\ p[i] \in Nat /\ i \in Int
      /\ p[i - 1] < p[i] \/ (p[i - 1] = 0 /\ p[i] = 0)
      /\ "Up" \in Rounding
  <2>1. S \in 0..top /\ top \in Nat
    BY SupplyType
  <2>2. /\ w \in Nat \ {0} /\ p \in [Index -> Nat]
        /\ p[i - 1] < p[i] \/ (p[i - 1] = 0 /\ p[i] = 0)
    BY DEF Sound, Climbs
  <2>3. i - 1 \in Index /\ i \in Index /\ i \in Int
    BY CurveAssumption DEF Index
  <2> HIDE DEF S, top, w, p
  <2> QED
    BY <2>1, <2>2, <2>3 DEF Rounding
<1>2. lo \in Int /\ hi \in Int /\ hi = lo + w /\ hi <= top
  <2>1. hi <= top
    BY <1>1, CurveAssumption, TimesOrder
  <2> QED
    BY <1>1, <2>1
<1>3. t = IF i <= S \div w \/ s.left = 0 THEN s
          ELSE [base |-> s.base + d.base, left |-> s.left - d.quote, ok |-> s.ok /\ d.ok]
  BY DEF BuyInterval, Supply
<1>4. s.ok => /\ s.left \in 0..nq /\ s.base \in Nat /\ X <= top
              /\ QuoteSum(p, w, S, X, "Up") <= nq - s.left
              /\ s.left = 0 \/ X >= lo
              /\ s.base = 0 \/ X <= lo
  BY DEF BoughtTo
<1> SUFFICES t.ok => /\ t.left \in 0..nq /\ t.base \in Nat /\ S + t.base <= top
                     /\ QuoteSum(p, w, S, S + t.base, "Up") <= nq - t.left
                     /\ t.left = 0 \/ S + t.base >= hi
                     /\ t.base = 0 \/ S + t.base <= hi
  BY DEF BoughtTo
<1> HIDE DEF w, p, S, lo, hi, top, t, used
<1>5. (S \div w) * w <= S /\ S < (S \div w) * w + w /\ S \div w \in Int
  BY <1>1, DivRounds
<1>6. CASE s.left = 0
  <2>1. t = s
    BY <1>3, <1>6
  <2>2. s.base \in Nat /\ X <= lo => X <= hi
    BY <1>1, <1>2
  <2> QED
    BY <1>4, <1>6, <2>1, <2>2
<1>7. CASE i <= S \div w
  <2>1. t = s
    BY <1>3, <1>7
  <2>2. hi <= S
    <3>1. hi <= (S \div w) * w
      BY <1>1, <1>5, <1>7, TimesOrder DEF hi
    <3> QED
      BY <1>1, <1>2, <1>5, <3>1
  <2>3. s.ok => s.base = 0
    BY <1>1, <1>2, <1>4, <2>2
  <2> QED
    BY <1>1, <1>2, <1>4, <2>1, <2>2, <2>3
<1>8. CASE ~(i <= S \div w) /\ s.left # 0
  <2> SUFFICES ASSUME t.ok
               PROVE  /\ t.left \in 0..nq /\ t.base \in Nat /\ S + t.base <= top
                      /\ QuoteSum(p, w, S, S + t.base, "Up") <= nq - t.left
                      /\ t.left = 0 \/ S + t.base >= hi
                      /\ t.base = 0 \/ S + t.base <= hi
    OBVIOUS
  <2>1. t.base = s.base + d.base /\ t.left = s.left - d.quote /\ s.ok /\ d.ok
    BY <1>3, <1>8
  <2> HIDE DEF d, X
  <2>2. S < hi
    <3> DEFINE k == S \div w + 1
    <3>1. k \in Int /\ k <= i
      BY <1>1, <1>5, <1>8
    <3>2. k * w <= hi
      <4> HIDE DEF k
      <4> QED
        BY <1>1, <3>1, TimesOrder DEF hi
    <3>3. S < k * w
      BY <1>1, <1>5
    <3> HIDE DEF k
    <3> QED
      BY <1>1, <1>2, <3>1, <3>2, <3>3
  <2>3. X = S + s.base /\ X \in Nat /\ lo <= X /\ X <= hi /\ S <= X
    BY <1>1, <1>2, <1>4, <1>8, <2>1, <2>2 DEF X
  <2>4. used = X - lo /\ used \in 0..w
    <3>1. CASE S <= lo
      <4>1. used = 0
        BY <1>1, <3>1, FilledParts DEF used, lo
      <4>2. X = lo
        BY <1>1, <1>2, <1>4, <1>8, <2>1, <2>3, <3>1
      <4> QED
        BY <1>1, <1>2, <4>1, <4>2
    <3>2. CASE ~(S <= lo)
      <4>1. s.base = 0
        BY <1>1, <1>2, <1>4, <2>1, <2>3, <3>2
      <4>2. X = S
        BY <1>1, <2>3, <4>1
      <4>3. used = S - lo
        <5>1. lo <= S /\ S <= hi
          BY <1>1, <1>2, <2>2, <3>2
        <5> QED
          BY <1>1, <5>1, FilledParts DEF used, lo, hi
      <4> QED
        BY <1>1, <1>2, <2>2, <3>2, <4>2, <4>3
    <3> QED
      BY <3>1, <3>2
  <2> DEFINE u == Unit(w)
             ia(x) == IntervalArea(p[i - 1], p[i], w, x)
             Y == X + d.base
  <2>5. /\ d.base \in 0..(w - used) /\ d.quote \in 0..s.left
        /\ DivRound(ia(used + d.base) - ia(used), u, "Up") <= d.quote
        /\ d.quote = s.left \/ d.base = w - used
    <3>1. s.left \in Nat \ {0}
      BY <1>4, <1>8, <2>1
    <3>2. get_delta_base_out(p[i - 1], p[i], w, used, s.left).ok
      BY <2>1 DEF d
    <3> QED
      BY <1>1, <2>4, <3>1, <3>2, BuyPart DEF d
  <2>6. Y \in Int /\ X <= Y /\ Y <= hi /\ Y = S + t.base /\ t.base \in Nat
    BY <1>1, <1>2, <1>4, <2>1, <2>3, <2>4, <2>5
  <2>7. QuoteSum(p, w, X, Y, "Up") <= d.quote
    <3>1. Y - lo = used + d.base
      BY <1>2, <2>3, <2>4, <2>5
    <3>2. QuoteSum(p, w, X, Y, "Up") = DivRound(ia(Y - lo) - ia(X - lo), u, "Up")
      <4>1. X \in Int
        BY <2>3
      <4> HIDE DEF Y
      <4> QED
        BY <1>1, <2>3, <2>6, <4>1, QuoteInside DEF lo, hi
    <3> QED
      BY <2>4, <2>5, <3>1, <3>2
  <2>8. QuoteSum(p, w, S, Y, "Up") <= QuoteSum(p, w, S, X, "Up") + QuoteSum(p, w, X, Y, "Up")
    <3>1. X \in Int
      BY <2>3
    <3> HIDE DEF Y
    <3> QED
      BY <1>1, <2>6, <3>1, SumDivides
  <2>9. /\ QuoteSum(p, w, S, X, "Up") \in Int /\ QuoteSum(p, w, X, Y, "Up") \in Int
        /\ QuoteSum(p, w, S, Y, "Up") \in Int
    <3>1. X \in Int
      BY <2>3
    <3> HIDE DEF Y
    <3> QED
      BY <1>1, <2>6, <3>1, QuoteTermsType
  <2>10. QuoteSum(p, w, S, X, "Up") <= nq - s.left /\ s.left \in 0..nq
    BY <1>4, <2>1 DEF X
  <2> HIDE DEF Y
  <2>11. QuoteSum(p, w, S, Y, "Up") <= nq - t.left
    BY <2>1, <2>5, <2>7, <2>8, <2>9, <2>10
  <2>12. t.left \in 0..nq /\ Y <= top
    BY <1>1, <1>2, <2>1, <2>5, <2>6, <2>10
  <2>13. t.left = 0 \/ Y >= hi
    <3>1. CASE d.quote = s.left
      BY <2>1, <2>10, <3>1
    <3>2. CASE d.base = w - used
      <4>1. Y = hi
        BY <1>1, <1>2, <2>3, <2>4, <3>2 DEF Y
      <4> QED
        BY <1>2, <4>1
    <3> QED
      BY <2>5, <3>1, <3>2
  <2> QED
    BY <2>6, <2>11, <2>12, <2>13
<1> QED
  BY <1>6, <1>7, <1>8

\* The whole purchase.
LEMMA WalkUpValue ==
  ASSUME NEW m, Sound(m), NEW nq \in Nat
  PROVE  LET s == WalkUp(m, nq)
         IN  s.ok =>
               /\ s.left \in 0..nq /\ s.base \in Nat
               /\ Supply(m) + s.base <= INTERVAL_NUMBER * m.width_scaled
               /\ QuoteSum(m.ask_prices, m.width_scaled, Supply(m), Supply(m) + s.base, "Up") <= nq - s.left
<1> DEFINE n == INTERVAL_NUMBER
           g == PassesUp(m, nq)
           G == {i \in 0..n : BoughtTo(m, nq, g[i], i)}
<1>0. n \in Nat
  BY CurveAssumption
<1>1. g[0] = WalkStart(nq) /\ \A i \in 1..n : g[i] = BuyInterval(m, g[i - 1], i)
  BY PassesUpStep
<1>2. 0 \in G
  <2> DEFINE s == WalkStart(nq)
             w == m.width_scaled
             p == m.ask_prices
             S == Supply(m)
  <2>1. /\ s.left = nq /\ s.base = 0
    BY DEF WalkStart
  <2>2. /\ S \in Nat /\ n * w \in Nat /\ S <= n * w /\ w \in Nat \ {0} /\ p \in [Index -> Nat]
        /\ "Up" \in Rounding
    BY SupplyType DEF Sound, Climbs, Rounding
  <2> HIDE DEF s, S, w, p
  <2>3. S + s.base = S
    BY <2>1, <2>2
  <2>4. QuoteSum(p, w, S, S, "Up") = 0
    BY <2>2, QuoteEmpty
  <2>5. /\ s.left \in 0..nq /\ s.base \in Nat /\ S + s.base <= n * w
        /\ QuoteSum(p, w, S, S + s.base, "Up") <= nq - s.left
        /\ s.left = 0 \/ S + s.base >= 0 * w
        /\ s.base = 0 \/ S + s.base <= 0 * w
    BY <2>1, <2>2, <2>3, <2>4
  <2> QED
    BY <1>0, <1>1, <2>5 DEF BoughtTo, s, S, w, p
<1>3. ASSUME NEW i \in 0..n, i # 0, i - 1 \in G
      PROVE  i \in G
  <2>1. i \in 1..INTERVAL_NUMBER /\ BoughtTo(m, nq, g[i - 1], i - 1)
    BY <1>3
  <2>2. BoughtTo(m, nq, BuyInterval(m, g[i - 1], i), i)
    BY <2>1, BuyRound, Zenon
  <2> QED
    BY <1>1, <2>1, <2>2
<1> HIDE DEF G
<1>4. 0..n \subseteq G
  BY <1>0, <1>2, <1>3, SegmentInduction
<1>5. n \in G
  BY <1>0, <1>4
<1>6. BoughtTo(m, nq, WalkUp(m, nq), n)
  BY <1>5 DEF G, WalkUp
<1> QED
  BY <1>6 DEF BoughtTo

\* What a sale has sold after j rounds down from the top interval: it has been paid at most
\* the price of it, and either the quote amount is reached or the interval is used up.
SoldTo(m, nq, s, j) ==
  LET w == m.width_scaled
      start == Supply(m) - s.base
  IN  /\ s.ok /\ s.left \in 0..nq /\ s.base \in 0..Supply(m)
      /\ QuoteSum(m.bid_prices, w, start, Supply(m), "Down") >= nq - s.left
      /\ s.left = 0 \/ s.base = Supply(m) \/ start <= (TopInterval(m) - j) * w
      /\ s.base = 0 \/ start >= (TopInterval(m) - j) * w

\* The walk starts in the interval of the last token sold.
LEMMA TopIntervalDef ==
  ASSUME NEW m, Sound(m)
  PROVE  /\ TopInterval(m) \in 0..INTERVAL_NUMBER
         /\ Supply(m) <= TopInterval(m) * m.width_scaled
         /\ (TopInterval(m) - 1) * m.width_scaled < Supply(m)
<1> DEFINE w == m.width_scaled
           S == Supply(m)
           n == INTERVAL_NUMBER
           T == TopInterval(m)
<1>1. w \in Nat \ {0} /\ S \in 0..(n * w) /\ n * w \in Nat /\ n \in Nat
  BY SupplyType, CurveAssumption DEF Sound
<1>2. T = (S + w - 1) \div w
  BY DEF TopInterval, Supply
<1> HIDE DEF w, S, n, T
<1>3. T \in Int /\ T * w >= S /\ T * w < S + w /\ T >= 0
  <2>1. T = DivRound(S, w, "Up") /\ S \in Int /\ S >= 0 /\ "Up" \in Rounding
    BY <1>1, <1>2 DEF DivRound, Rounding
  <2>2. /\ DivRound(S, w, "Up") \in Int /\ DivRound(S, w, "Up") >= 0
        /\ DivRound(S, w, "Up") * w >= S /\ DivRound(S, w, "Up") * w < S + w
    BY <1>1, <2>1, Rounds
  <2> QED
    BY <2>1, <2>2
<1>4. (T - 1) * w < S
  BY <1>1, <1>3
<1>5. T <= n
  <2> DEFINE k == n + 1
  <2>1. k \in Int /\ T * w < k * w
    BY <1>1, <1>3
  <2> HIDE DEF k
  <2>2. T < k
    BY <1>1, <1>3, <2>1, TimesOrder
  <2> QED
    BY <1>1, <1>3, <2>2 DEF k
<1>6. T \in 0..n /\ S <= T * w
  BY <1>1, <1>3, <1>5
<1> QED
  BY <1>4, <1>6 DEF w, S, n, T

\* A round of the sale keeps that.
LEMMA SellRound ==
  ASSUME NEW m, Sound(m), NEW nq \in Nat, NEW s, NEW j \in 1..INTERVAL_NUMBER, SoldTo(m, nq, s, j - 1)
  PROVE  SoldTo(m, nq, SellInterval(m, s, TopInterval(m) - j + 1), j)
<1> DEFINE w == m.width_scaled
           p == m.bid_prices
           S == Supply(m)
           T == TopInterval(m)
           i == T - j + 1
           X == S - s.base
           lo == (T - j) * w
           hi == (T - (j - 1)) * w
           t == SellInterval(m, s, i)
           avail == Filled(i, S, w)
           d == get_delta_base_in(p[i - 1], p[i], w, avail, s.left)
<1>1. /\ w \in Nat \ {0} /\ w \in Nat /\ S \in Nat /\ S \in Int /\ p \in [Index -> Nat]
      /\ T \in 0..INTERVAL_NUMBER /\ T \in Int /\ j \in Int /\ j >= 1 /\ i \in Int /\ INTERVAL_NUMBER \in Nat
      /\ S <= T * w /\ (T - 1) * w < S
      /\ "Down" \in Rounding
  <2>1. S \in Nat /\ w \in Nat \ {0} /\ p \in [Index -> Nat]
    BY SupplyType DEF Sound, Climbs
  <2>2. T \in 0..INTERVAL_NUMBER /\ S <= T * w /\ (T - 1) * w < S
    BY TopIntervalDef
  <2> HIDE DEF S, w, p, T
  <2> QED
    BY <2>1, <2>2, CurveAssumption DEF Rounding
<1>2. lo \in Int /\ hi \in Int /\ hi = lo + w /\ lo = (i - 1) * w /\ hi = i * w
  <2> HIDE DEF w, T
  <2> QED
    BY <1>1
<1>3. t = IF i < 1 \/ s.left = 0 THEN s
          ELSE [base |-> s.base + d.base, left |-> s.left - d.quote, ok |-> s.ok /\ d.ok]
  BY DEF SellInterval, Supply
<1>4. /\ s.ok /\ s.left \in 0..nq /\ s.base \in 0..S
      /\ QuoteSum(p, w, X, S, "Down") >= nq - s.left
      /\ s.left = 0 \/ s.base = S \/ X <= hi
      /\ s.base = 0 \/ X >= hi
  BY DEF SoldTo
<1> SUFFICES /\ t.ok /\ t.left \in 0..nq /\ t.base \in 0..S
             /\ QuoteSum(p, w, S - t.base, S, "Down") >= nq - t.left
             /\ t.left = 0 \/ t.base = S \/ S - t.base <= lo
             /\ t.base = 0 \/ S - t.base >= lo
  BY DEF SoldTo
<1> HIDE DEF w, p, S, T, lo, hi, t, avail
<1>5. X \in Nat /\ X <= S /\ X = S - s.base
  BY <1>1, <1>4
<1>6. CASE s.left = 0
  <2>1. t = s
    BY <1>3, <1>6
  <2>2. X >= hi => X >= lo
    BY <1>1, <1>2, <1>5
  <2> QED
    BY <1>4, <1>6, <2>1, <2>2
<1>7. CASE i < 1
  <2>1. t = s
    BY <1>3, <1>7
  <2>2. hi <= 0 * w
    <3> HIDE DEF i
    <3> QED
      BY <1>1, <1>2, <1>7, TimesOrder
  <2>3. hi <= 0
    BY <1>1, <1>2, <2>2
  <2>4. s.left = 0 \/ s.base = S
    BY <1>1, <1>2, <1>4, <1>5, <2>3
  <2>5. X >= lo
    BY <1>1, <1>2, <1>5, <2>3
  <2> QED
    BY <1>4, <2>1, <2>4, <2>5
<1>8. CASE ~(i < 1) /\ s.left # 0
  <2>1. t.base = s.base + d.base /\ t.left = s.left - d.quote /\ t.ok = (s.ok /\ d.ok)
    BY <1>3, <1>8
  <2>2. i \in 1..INTERVAL_NUMBER /\ p[i - 1] \in Nat /\ p[i] \in Nat
        /\ (p[i - 1] < p[i] \/ (p[i - 1] = 0 /\ p[i] = 0))
    <3>1. i \in 1..INTERVAL_NUMBER
      BY <1>1, <1>8
    <3> HIDE DEF i
    <3>2. i - 1 \in Index /\ i \in Index
      BY <1>1, <3>1 DEF Index
    <3>3. p[i - 1] < p[i] \/ (p[i - 1] = 0 /\ p[i] = 0)
      BY <3>1 DEF p, Sound, Climbs
    <3> QED
      BY <1>1, <3>1, <3>2, <3>3
  <2>3. lo < S
    <3>1. lo <= (T - 1) * w
      <4> DEFINE a == T - 1
                 b == i - 1
      <4>1. a \in Int /\ b \in Int /\ b <= a
        BY <1>1
      <4> HIDE DEF a, b
      <4>2. b * w <= a * w
        BY <1>1, <4>1, TimesOrder
      <4> QED
        BY <1>2, <4>2 DEF a, b
    <3>2. (T - 1) * w \in Int
      BY <1>1
    <3> QED
      BY <1>1, <1>2, <3>1, <3>2
  <2>4. hi > 0 /\ lo >= 0
    <3> HIDE DEF i
    <3>1. 1 * w <= i * w /\ 0 * w <= (i - 1) * w
      BY <1>1, <1>8
    <3> QED
      BY <1>1, <1>2, <3>1
  <2> HIDE DEF d, X, i
  <2>5. lo <= X /\ X <= hi
    <3>1. CASE s.base = 0
      <4>1. X = S
        BY <1>1, <1>5, <3>1
      <4>2. X <= hi
        BY <1>1, <1>2, <1>4, <1>8, <2>4, <3>1, <4>1
      <4> QED
        BY <1>1, <1>2, <2>3, <4>1, <4>2
    <3>2. CASE s.base # 0
      <4>1. X >= hi
        BY <1>4, <3>2
      <4>2. s.base # S
        BY <1>1, <1>2, <1>4, <1>5, <2>4, <4>1
      <4>3. X <= hi
        BY <1>4, <1>8, <4>2
      <4> QED
        BY <1>1, <1>2, <1>5, <4>1, <4>3
    <3> QED
      BY <3>1, <3>2
  <2>6. avail = X - lo /\ avail \in 0..w
    <3>1. CASE s.base = 0
      <4>1. X = S
        BY <1>1, <1>5, <3>1
      <4>2. (i - 1) * w <= S /\ S <= i * w
        BY <1>2, <2>5, <4>1
      <4>3. avail = S - lo
        BY <1>1, <1>2, <4>2, FilledParts DEF avail
      <4> QED
        BY <1>1, <1>2, <2>5, <4>1, <4>3
    <3>2. CASE s.base # 0
      <4>1. X = hi
        BY <1>2, <1>4, <1>5, <2>5, <3>2
      <4>2. S >= i * w
        BY <1>1, <1>2, <1>5, <4>1
      <4>3. avail = w
        BY <1>1, <4>2, FilledParts DEF avail
      <4> QED
        BY <1>1, <1>2, <4>1, <4>3
    <3> QED
      BY <3>1, <3>2
  <2> DEFINE u == Unit(w)
             ia(x) == IntervalArea(p[i - 1], p[i], w, x)
             Y == X - d.base
  <2>7. /\ d.ok /\ d.base \in 0..avail /\ d.quote \in 0..s.left
        /\ DivRound(ia(avail) - ia(avail - d.base), u, "Down") >= d.quote
        /\ d.quote = s.left \/ d.base = avail
    <3>1. s.left \in Nat \ {0}
      BY <1>4, <1>8
    <3> DEFINE p0 == p[i - 1]
               p1 == p[i]
    <3>2. p0 \in Nat /\ p1 \in Nat /\ (p0 < p1 \/ (p0 = 0 /\ p1 = 0))
      BY <2>2
    <3>3. d = get_delta_base_in(p0, p1, w, avail, s.left) /\ \A x : ia(x) = IntervalArea(p0, p1, w, x)
      BY DEF d
    <3> HIDE DEF p0, p1, ia
    <3>4. /\ d.ok /\ d.base \in 0..avail /\ d.quote \in 0..s.left
          /\ DivRound(IntervalArea(p0, p1, w, avail) - IntervalArea(p0, p1, w, avail - d.base), u, "Down") >= d.quote
          /\ d.quote = s.left \/ d.base = avail
      BY <1>1, <2>6, <3>1, <3>2, <3>3, SellPart
    <3> QED
      BY <3>3, <3>4
  <2>8. Y \in Int /\ lo <= Y /\ Y <= X /\ Y = S - t.base /\ t.base \in 0..S
    BY <1>1, <1>2, <1>4, <1>5, <2>1, <2>4, <2>5, <2>6, <2>7
  <2>9. QuoteSum(p, w, Y, X, "Down") >= d.quote
    <3>1. Y - lo = avail - d.base
      BY <1>2, <1>5, <2>6, <2>7
    <3>2. QuoteSum(p, w, Y, X, "Down") = DivRound(ia(X - lo) - ia(Y - lo), u, "Down")
      <4>1. X \in Int /\ lo = (i - 1) * w /\ hi = i * w
        BY <1>2, <1>5
      <4> HIDE DEF Y
      <4>2. QuoteSum(p, w, Y, X, "Down")
              = DivRound(IntervalArea(p[i - 1], p[i], w, X - (i - 1) * w)
                           - IntervalArea(p[i - 1], p[i], w, Y - (i - 1) * w), Unit(w), "Down")
        <5>1. (i - 1) * w <= Y /\ Y <= X /\ X <= i * w
          BY <2>5, <2>8, <4>1
        <5> QED
          BY <1>1, <2>2, <2>8, <4>1, <5>1, QuoteInside
      <4> QED
        BY <4>1, <4>2
    <3> QED
      BY <2>6, <2>7, <3>1, <3>2
  <2>10. QuoteSum(p, w, Y, S, "Down") >= QuoteSum(p, w, Y, X, "Down") + QuoteSum(p, w, X, S, "Down")
    <3>1. X \in Int
      BY <1>5
    <3> HIDE DEF Y
    <3> QED
      BY <1>1, <2>8, <3>1, SumDivides
  <2>11. /\ QuoteSum(p, w, Y, X, "Down") \in Int /\ QuoteSum(p, w, X, S, "Down") \in Int
         /\ QuoteSum(p, w, Y, S, "Down") \in Int
    <3>1. X \in Int
      BY <1>5
    <3> HIDE DEF Y
    <3> QED
      BY <1>1, <2>8, <3>1, QuoteTermsType
  <2>12. QuoteSum(p, w, X, S, "Down") >= nq - s.left /\ s.left \in 0..nq
    BY <1>4 DEF X
  <2>13. t.left = 0 \/ Y <= lo
    <3>1. CASE d.quote = s.left
      BY <2>1, <2>12, <3>1
    <3>2. CASE d.base = avail
      BY <1>2, <1>5, <2>6, <3>2
    <3> QED
      BY <2>7, <3>1, <3>2
  <2> HIDE DEF Y
  <2>14. QuoteSum(p, w, Y, S, "Down") >= nq - t.left /\ t.left \in 0..nq
    BY <2>1, <2>7, <2>9, <2>10, <2>11, <2>12
  <2> QED
    BY <1>4, <2>1, <2>7, <2>8, <2>13, <2>14
<1> QED
  BY <1>6, <1>7, <1>8

\* The whole sale.
LEMMA WalkDownValue ==
  ASSUME NEW m, Sound(m), NEW nq \in Nat
  PROVE  LET s == WalkDown(m, nq)
         IN  /\ s.ok /\ s.left \in 0..nq /\ s.base \in 0..Supply(m)
             /\ QuoteSum(m.bid_prices, m.width_scaled, Supply(m) - s.base, Supply(m), "Down") >= nq - s.left
<1> DEFINE n == INTERVAL_NUMBER
           g == PassesDown(m, nq)
           G == {j \in 0..n : SoldTo(m, nq, g[j], j)}
<1>0. n \in Nat
  BY CurveAssumption
<1>1. g[0] = WalkStart(nq) /\ \A j \in 1..n : g[j] = SellInterval(m, g[j - 1], TopInterval(m) - j + 1)
  BY PassesDownStep
<1>2. 0 \in G
  <2> DEFINE s == WalkStart(nq)
             w == m.width_scaled
             p == m.bid_prices
             S == Supply(m)
             T == TopInterval(m)
  <2>1. s.left = nq /\ s.base = 0 /\ s.ok
    BY DEF WalkStart
  <2>2. /\ S \in Nat /\ w \in Nat \ {0} /\ p \in [Index -> Nat] /\ "Down" \in Rounding
        /\ T \in Int /\ S <= T * w
    BY SupplyType, TopIntervalDef DEF Sound, Climbs, Rounding
  <2> HIDE DEF s, S, w, p, T
  <2>3. S - s.base = S /\ T - 0 = T
    BY <2>1, <2>2
  <2>4. QuoteSum(p, w, S, S, "Down") = 0
    BY <2>2, QuoteEmpty
  <2>5. /\ s.ok /\ s.left \in 0..nq /\ s.base \in 0..S
        /\ QuoteSum(p, w, S - s.base, S, "Down") >= nq - s.left
        /\ s.left = 0 \/ s.base = S \/ S - s.base <= (T - 0) * w
        /\ s.base = 0 \/ S - s.base >= (T - 0) * w
    BY <2>1, <2>2, <2>3, <2>4
  <2> QED
    BY <1>0, <1>1, <2>5 DEF SoldTo, s, S, w, p, T
<1>3. ASSUME NEW j \in 0..n, j # 0, j - 1 \in G
      PROVE  j \in G
  <2>1. j \in 1..INTERVAL_NUMBER /\ SoldTo(m, nq, g[j - 1], j - 1)
    BY <1>3
  <2>2. SoldTo(m, nq, SellInterval(m, g[j - 1], TopInterval(m) - j + 1), j)
    BY <2>1, SellRound, Zenon
  <2> QED
    BY <1>1, <2>1, <2>2
<1> HIDE DEF G
<1>4. 0..n \subseteq G
  BY <1>0, <1>2, <1>3, SegmentInduction
<1>5. n \in G
  BY <1>0, <1>4
<1>6. SoldTo(m, nq, WalkDown(m, nq), n)
  BY <1>5 DEF G, WalkDown
<1> QED
  BY <1>6 DEF SoldTo

-----------------------------------------------------------------------------
(* The four forms of a swap. *)

\* What a successful quote holds.
LEMMA QuotedOk ==
  ASSUME NEW b, NEW c, Quoted(b, c).ok
  PROVE  /\ Quoted(b, c).base = b /\ Quoted(b, c).quote = c
         /\ b \in U64 /\ c \in U64 /\ b \in Nat /\ c \in Nat
BY CurveAssumption DEF Quoted, Fail, U64

\* A range costs a natural number, at least its area when rounded up, at most when rounded down.
LEMMA CostValue ==
  ASSUME NEW m, Sound(m), NEW p \in [Index -> Nat], NEW x \in Int, NEW y \in Int, x <= y, NEW r \in Rounding
  PROVE  /\ Cost(p, m, x, y, r) \in Nat
         /\ r = "Up" => Worth(m.width_scaled, Cost(p, m, x, y, r))
                          >= Priced(Area(p, m.width_scaled, y) - Area(p, m.width_scaled, x))
         /\ r = "Down" => Worth(m.width_scaled, Cost(p, m, x, y, r))
                            <= Priced(Area(p, m.width_scaled, y) - Area(p, m.width_scaled, x))
         /\ x = y => Cost(p, m, x, y, r) = 0
<1> DEFINE w == m.width_scaled
           a == Normalized(x)
           b == Normalized(y)
<1>1. w \in Nat \ {0}
  BY DEF Sound
<1>2. a \in Int /\ b \in Int /\ a <= b
  <2>1. Ratio \in Nat \ {0} /\ a = x * Ratio /\ b = y * Ratio
    BY NormalizedDef
  <2> HIDE DEF a, b
  <2> QED
    BY <2>1
<1>3. Cost(p, m, x, y, r) = Price(p, w, a, b, r)
  BY DEF Cost
<1>4. Area(p, w, x) = AreaAt(p, w, a) /\ Area(p, w, y) = AreaAt(p, w, b)
  BY DEF Area
<1> HIDE DEF w, a, b
<1>5. /\ Price(p, w, a, b, r) \in Nat
      /\ r = "Up" => Worth(w, Price(p, w, a, b, r)) >= Priced(AreaAt(p, w, b) - AreaAt(p, w, a))
      /\ r = "Down" => Worth(w, Price(p, w, a, b, r)) <= Priced(AreaAt(p, w, b) - AreaAt(p, w, a))
  BY <1>1, <1>2, PriceValue
<1>6. ASSUME x = y PROVE Price(p, w, a, b, r) = 0
  <2>1. a = b
    BY <1>6 DEF a, b
  <2>2. QuoteSum(p, w, a, a, r) = 0
    BY <1>1, <1>2, QuoteEmpty
  <2>3. Price(p, w, a, b, r) = DivRound(0 * QUOTE_PRECISION, SCALE, r)
    BY <2>1, <2>2 DEF Price
  <2>4. 0 * QUOTE_PRECISION = 0 * SCALE /\ SCALE \in Nat \ {0}
    BY CurveAssumption
  <2>5. (0 * SCALE) \div SCALE = 0 /\ (0 * SCALE + SCALE - 1) \div SCALE = 0
    BY <2>4, DivExact
  <2> QED
    BY <2>3, <2>4, <2>5 DEF DivRound
<1> QED
  BY <1>3, <1>4, <1>5, <1>6 DEF w

\* A wider range does not cost less, and dividing a range adds roundings to the same side.
LEMMA CostParts ==
  ASSUME NEW m, Sound(m), NEW p \in [Index -> Nat], NEW x \in Int, NEW y \in Int, NEW z \in Int, x <= y, y <= z
  PROVE  /\ \A r \in Rounding : /\ Cost(p, m, x, y, r) <= Cost(p, m, x, z, r)
                                /\ Cost(p, m, y, z, r) <= Cost(p, m, x, z, r)
         /\ Cost(p, m, x, z, "Up") <= Cost(p, m, x, y, "Up") + Cost(p, m, y, z, "Up")
         /\ Cost(p, m, x, z, "Down") >= Cost(p, m, x, y, "Down") + Cost(p, m, y, z, "Down")
<1> DEFINE w == m.width_scaled
           a == Normalized(x)
           b == Normalized(y)
           c == Normalized(z)
<1>1. w \in Nat \ {0}
  BY DEF Sound
<1>2. a \in Int /\ b \in Int /\ c \in Int /\ a <= b /\ b <= c /\ a <= a /\ c <= c
  <2>1. Ratio \in Nat \ {0} /\ a = x * Ratio /\ b = y * Ratio /\ c = z * Ratio
    BY NormalizedDef
  <2> HIDE DEF a, b, c
  <2>2. x * Ratio <= y * Ratio /\ y * Ratio <= z * Ratio
    BY <2>1
  <2>3. x * Ratio \in Int /\ y * Ratio \in Int /\ z * Ratio \in Int
    BY <2>1
  <2> QED
    BY <2>1, <2>2, <2>3
<1> HIDE DEF w, a, b, c
<1>3. \A r \in Rounding : /\ Price(p, w, a, b, r) <= Price(p, w, a, c, r)
                          /\ Price(p, w, b, c, r) <= Price(p, w, a, c, r)
  BY <1>1, <1>2, PriceWidens
<1>4. /\ Price(p, w, a, c, "Up") <= Price(p, w, a, b, "Up") + Price(p, w, b, c, "Up")
      /\ Price(p, w, a, c, "Down") >= Price(p, w, a, b, "Down") + Price(p, w, b, c, "Down")
  BY <1>1, <1>2, PriceDivides
<1> QED
  BY <1>3, <1>4 DEF Cost, w, a, b, c

\* Naming the base amount of a purchase.
LEMMA BuyExactBase ==
  ASSUME NEW m, Sound(m), NEW amount \in Nat
  PROVE  LET given == Min2(amount, m.base_reserve)
             circ == circulating_supply(m)
         IN  get_quote_amount(m, amount, "ExactOutput")
               = Quoted(given, Cost(m.ask_prices, m, circ, circ + given, "Up"))
<1> DEFINE circ == circulating_supply(m)
<1>1. circ \in 0..m.total_supply /\ m.total_supply - circ = m.base_reserve /\ "Up" \in Rounding
  BY DEF circulating_supply, Sound, Rounding
<1>2. get_quote_amount(m, amount, "ExactOutput")
        = get_quote_amount_with_parameters(m, circ, amount, "ExactOutput", "Up")
  BY DEF get_quote_amount
<1>3. PricesOf(m, "ExactOutput") = m.ask_prices
  BY DEF PricesOf
<1> HIDE DEF circ
<1>4. LET given == Min2(amount, m.total_supply - circ)
      IN  get_quote_amount_with_parameters(m, circ, amount, "ExactOutput", "Up")
            = Quoted(given, Cost(PricesOf(m, "ExactOutput"), m, circ, circ + given, "Up"))
  BY <1>1, NamedBase
<1> QED
  BY <1>1, <1>2, <1>3, <1>4 DEF circ

\* Naming the base amount of a sale.
LEMMA SellExactBase ==
  ASSUME NEW m, Sound(m), NEW amount \in Nat
  PROVE  LET circ == circulating_supply(m)
         IN  get_quote_amount(m, amount, "ExactInput")
               = IF amount <= circ THEN Quoted(amount, Cost(m.bid_prices, m, circ - amount, circ, "Down"))
                 ELSE Fail
<1> DEFINE circ == circulating_supply(m)
<1>1. circ \in 0..m.total_supply /\ m.total_supply \in Nat /\ "Down" \in Rounding
  BY DEF circulating_supply, Sound, Rounding
<1>2. get_quote_amount(m, amount, "ExactInput")
        = IF amount <= circ
          THEN get_quote_amount_with_parameters(m, circ - amount, amount, "ExactInput", "Down") ELSE Fail
  BY DEF get_quote_amount
<1>3. PricesOf(m, "ExactInput") = m.bid_prices
  BY DEF PricesOf
<1> HIDE DEF circ
<1>4. CASE amount <= circ
  <2> DEFINE start == circ - amount
  <2>1. start \in 0..m.total_supply /\ start + amount = circ /\ Min2(amount, m.total_supply - start) = amount
    BY <1>1, <1>4 DEF Min2
  <2> HIDE DEF start
  <2>2. LET given == Min2(amount, m.total_supply - start)
        IN  get_quote_amount_with_parameters(m, start, amount, "ExactInput", "Down")
              = Quoted(given, Cost(PricesOf(m, "ExactInput"), m, start, start + given, "Down"))
    BY <1>1, <2>1, NamedBase
  <2> QED
    BY <1>2, <1>3, <1>4, <2>1, <2>2 DEF start, circ
<1> QED
  BY <1>2, <1>4 DEF circ

\* Naming the quote amount of a purchase: what is bought is left in the reserve, no more than
\* the amount is paid, and naming what is bought instead would not have cost more.
LEMMA BuyExactQuote ==
  ASSUME NEW m, Sound(m), NEW amount \in Nat, get_base_amount_out(m, amount).ok
  PROVE  LET q == get_base_amount_out(m, amount)
             circ == circulating_supply(m)
         IN  /\ q.base \in 0..m.base_reserve /\ q.quote \in 0..amount
             /\ Cost(m.ask_prices, m, circ, circ + q.base, "Up") <= q.quote
<1> DEFINE q == get_base_amount_out(m, amount)
           circ == circulating_supply(m)
           total == m.total_supply
           w == m.width_scaled
           p == m.ask_prices
           S == Supply(m)
           nq == NormalizedQuote(amount)
           s == WalkUp(m, nq)
           B == DivRound(s.base * BASE_PRECISION, SCALE, "Down")
           D == DivRound(s.left * QUOTE_PRECISION, SCALE, "Down")
           E == Normalized(circ + B)
           cost == Cost(p, m, circ, circ + B, "Up")
<1>1. /\ SCALE \in Nat \ {0} /\ QUOTE_PRECISION \in Nat \ {0} /\ BASE_PRECISION \in Nat \ {0}
      /\ "Up" \in Rounding /\ "Down" \in Rounding
      /\ Ratio \in Nat \ {0} /\ SCALE = Ratio * BASE_PRECISION
  BY CurveAssumption, NormalizedDef DEF Rounding
<1>2. /\ circ \in 0..total /\ total \in Nat /\ total - circ = m.base_reserve
      /\ S = circ * Ratio /\ INTERVAL_NUMBER * w = total * Ratio /\ S \in Nat
      /\ w \in Nat \ {0} /\ p \in [Index -> Nat]
  <2>1. total - circ = m.base_reserve
    BY DEF circulating_supply, Sound
  <2> QED
    BY <2>1, SupplyType DEF Sound, Climbs
<1>3. nq \in Nat /\ nq * QUOTE_PRECISION <= amount * SCALE
  <2> DEFINE a == amount * SCALE
  <2>1. a \in Int /\ a >= 0
    BY <1>1
  <2>2. nq = a \div QUOTE_PRECISION
    BY DEF NormalizedQuote
  <2> HIDE DEF a, nq
  <2>3. nq \in Int /\ nq * QUOTE_PRECISION <= a /\ nq >= 0
    BY <1>1, <2>1, <2>2, DivRounds
  <2> QED
    BY <2>1, <2>3 DEF a
<1>4. /\ s.ok /\ Quoted(B, amount - D).ok /\ q = Quoted(B, amount - D)
  BY DEF get_base_amount_out, SwapForQuote, Fail
<1>5. q.base = B /\ q.quote = amount - D /\ B \in Nat /\ amount - D \in Nat
  BY <1>4, QuotedOk
<1>6. /\ s.left \in 0..nq /\ s.base \in Nat /\ S + s.base <= INTERVAL_NUMBER * w
      /\ QuoteSum(p, w, S, S + s.base, "Up") <= nq - s.left
  <2> HIDE DEF nq
  <2> QED
    BY <1>3, <1>4, WalkUpValue
<1> HIDE DEF q, circ, total, w, p, S, nq, s, E, cost
<1>7. B * SCALE <= s.base * BASE_PRECISION
  <2> DEFINE a == s.base * BASE_PRECISION
  <2>1. a \in Int
    BY <1>1, <1>6
  <2> HIDE DEF a
  <2>2. B * SCALE <= a
    BY <1>1, <2>1, Rounds DEF a
  <2> QED
    BY <2>2 DEF a
<1>8. D \in Nat /\ D * SCALE <= s.left * QUOTE_PRECISION
  <2> DEFINE a == s.left * QUOTE_PRECISION
  <2>1. a \in Int /\ a >= 0
    BY <1>1, <1>3, <1>6
  <2> HIDE DEF a
  <2>2. D * SCALE <= a /\ D \in Int /\ D >= 0
    BY <1>1, <2>1, Rounds DEF a
  <2> QED
    BY <2>2 DEF a
<1> HIDE DEF B, D
<1>9. B * Ratio <= s.base
  <2>1. (B * Ratio) * BASE_PRECISION <= s.base * BASE_PRECISION
    BY <1>1, <1>5, <1>7
  <2> DEFINE a == B * Ratio
  <2>2. a \in Int
    BY <1>1, <1>5
  <2> HIDE DEF a
  <2>3. a * BASE_PRECISION <= s.base * BASE_PRECISION
    BY <2>1 DEF a
  <2>4. a <= s.base
    BY <1>1, <1>6, <2>2, <2>3, TimesOrder
  <2> QED
    BY <2>4 DEF a
<1>10. E = S + B * Ratio /\ E \in Int
  <2>1. circ + B \in Int
    BY <1>2, <1>5
  <2>2. E = (circ + B) * Ratio
    BY <2>1, NormalizedDef DEF E
  <2> QED
    BY <1>1, <1>2, <1>5, <2>2
<1>11. B <= m.base_reserve
  <2> DEFINE c == circ + B
  <2>1. c \in Int /\ c * Ratio <= total * Ratio
    BY <1>1, <1>2, <1>5, <1>6, <1>9
  <2> HIDE DEF c
  <2>2. c <= total
    BY <1>1, <1>2, <2>1, TimesOrder
  <2> QED
    BY <1>2, <1>5, <2>2 DEF c
<1>12. cost <= amount - D
  <2> DEFINE X == QuoteSum(p, w, S, E, "Up")
             Z == QuoteSum(p, w, S, S + s.base, "Up")
  <2>1. X \in Int /\ Z \in Int
    <3>1. S \in Int /\ S + s.base \in Int
      BY <1>2, <1>6
    <3> QED
      BY <1>1, <1>2, <1>10, <3>1, QuoteTermsType
  <2>2. X <= Z
    <3>1. S \in Int /\ S + s.base \in Int /\ S <= S /\ E <= S + s.base
      BY <1>1, <1>2, <1>5, <1>6, <1>9, <1>10
    <3> QED
      BY <1>1, <1>2, <1>10, <3>1, SumWidens
  <2>3. cost = DivRound(X * QUOTE_PRECISION, SCALE, "Up")
    BY DEF cost, Cost, Price, E, S, w, Supply, circ
  <2>4. X <= nq - s.left
    BY <1>3, <1>6, <2>1, <2>2
  <2> HIDE DEF X
  <2>5. X * QUOTE_PRECISION <= (amount - D) * SCALE
    <3>1. X * QUOTE_PRECISION <= (nq - s.left) * QUOTE_PRECISION
      BY <1>1, <1>3, <1>6, <2>1, <2>4
    <3>2. (nq - s.left) * QUOTE_PRECISION = nq * QUOTE_PRECISION - s.left * QUOTE_PRECISION
      BY <1>1, <1>3, <1>6
    <3>3. (amount - D) * SCALE = amount * SCALE - D * SCALE
      BY <1>1, <1>8
    <3>4. /\ X * QUOTE_PRECISION \in Int /\ nq * QUOTE_PRECISION \in Int /\ s.left * QUOTE_PRECISION \in Int
          /\ amount * SCALE \in Int /\ D * SCALE \in Int
      BY <1>1, <1>3, <1>6, <1>8, <2>1
    <3> QED
      BY <1>3, <1>8, <3>1, <3>2, <3>3, <3>4
  <2> DEFINE a == X * QUOTE_PRECISION
             b == amount - D
  <2>6. a \in Int /\ b \in Int /\ a <= b * SCALE
    BY <1>1, <1>8, <2>1, <2>5
  <2> HIDE DEF a, b
  <2>7. DivRound(a, SCALE, "Up") <= b
    BY <1>1, <2>6, RoundsLeast
  <2> QED
    BY <2>3, <2>7 DEF a, b
<1>13. q.base \in 0..m.base_reserve /\ q.quote \in 0..amount
  BY <1>2, <1>5, <1>8, <1>11
<1> QED
  BY <1>5, <1>12, <1>13 DEF q, circ, p, cost

\* Naming the quote amount of a sale: what is sold was in circulation and no more than the
\* amount is paid out.  With a quote token of at most as many decimals as SCALE has, selling
\* what is taken would have paid at least as much.
LEMMA SellExactQuote ==
  ASSUME NEW m, Sound(m), NEW amount \in Nat, get_base_amount_in(m, amount).ok
  PROVE  LET q == get_base_amount_in(m, amount)
             circ == circulating_supply(m)
         IN  /\ q.base \in 0..circ /\ q.quote \in 0..amount
             /\ SCALE % QUOTE_PRECISION = 0
                  => q.quote <= Cost(m.bid_prices, m, circ - q.base, circ, "Down")
<1> DEFINE q == get_base_amount_in(m, amount)
           circ == circulating_supply(m)
           w == m.width_scaled
           p == m.bid_prices
           S == Supply(m)
           nq == NormalizedQuote(amount)
           s == WalkDown(m, nq)
           B == DivRound(s.base * BASE_PRECISION, SCALE, "Up")
           D == DivRound(s.left * QUOTE_PRECISION, SCALE, "Up")
           E == Normalized(circ - B)
           cost == Cost(p, m, circ - B, circ, "Down")
<1>1. /\ SCALE \in Nat \ {0} /\ QUOTE_PRECISION \in Nat \ {0} /\ BASE_PRECISION \in Nat \ {0}
      /\ "Up" \in Rounding /\ "Down" \in Rounding
      /\ Ratio \in Nat \ {0} /\ SCALE = Ratio * BASE_PRECISION
  BY CurveAssumption, NormalizedDef DEF Rounding
<1>2. /\ circ \in Nat /\ S = circ * Ratio /\ S \in Nat
      /\ w \in Nat \ {0} /\ p \in [Index -> Nat]
  BY SupplyType DEF Sound, Climbs
<1>3. nq \in Nat /\ nq = (amount * SCALE) \div QUOTE_PRECISION
  <2> DEFINE a == amount * SCALE
  <2>1. a \in Int /\ a >= 0
    BY <1>1
  <2>2. nq = a \div QUOTE_PRECISION
    BY DEF NormalizedQuote
  <2> HIDE DEF a, nq
  <2>3. nq \in Int /\ nq >= 0
    BY <1>1, <2>1, <2>2, DivRounds
  <2> QED
    BY <2>2, <2>3 DEF a
<1>4. /\ s.ok /\ s.left \in 0..nq /\ s.base \in 0..S
      /\ QuoteSum(p, w, S - s.base, S, "Down") >= nq - s.left
  <2> HIDE DEF nq
  <2> QED
    BY <1>3, WalkDownValue
<1>5. Quoted(B, amount - D).ok /\ q = Quoted(B, amount - D)
  BY <1>4 DEF get_base_amount_in, SwapForQuote
<1>6. q.base = B /\ q.quote = amount - D /\ B \in Nat /\ amount - D \in Nat
  BY <1>5, QuotedOk
<1> HIDE DEF q, circ, w, p, S, nq, s, E, cost
<1>7. B * SCALE >= s.base * BASE_PRECISION /\ B <= circ
  <2> DEFINE a == s.base * BASE_PRECISION
  <2>1. a \in Int /\ a <= circ * SCALE
    <3>1. s.base * BASE_PRECISION <= S * BASE_PRECISION
      BY <1>1, <1>2, <1>4
    <3> QED
      BY <1>1, <1>2, <1>4, <3>1
  <2> HIDE DEF a
  <2>2. B * SCALE >= a
    BY <1>1, <2>1, Rounds DEF a
  <2>3. DivRound(a, SCALE, "Up") <= circ
    BY <1>1, <1>2, <2>1, RoundsLeast
  <2> QED
    BY <2>2, <2>3 DEF a
<1>8. D \in Nat /\ D * SCALE >= s.left * QUOTE_PRECISION
  <2> DEFINE a == s.left * QUOTE_PRECISION
  <2>1. a \in Int /\ a >= 0
    BY <1>1, <1>3, <1>4
  <2> HIDE DEF a
  <2>2. D * SCALE >= a /\ D \in Int /\ D >= 0
    BY <1>1, <2>1, Rounds DEF a
  <2> QED
    BY <2>2 DEF a
<1> HIDE DEF B, D
<1>9. s.base <= B * Ratio
  <2>1. s.base * BASE_PRECISION <= (B * Ratio) * BASE_PRECISION
    BY <1>1, <1>6, <1>7
  <2> DEFINE a == B * Ratio
  <2>2. a \in Int
    BY <1>1, <1>6
  <2> HIDE DEF a
  <2>3. s.base * BASE_PRECISION <= a * BASE_PRECISION
    BY <2>1 DEF a
  <2>4. s.base <= a
    BY <1>1, <1>4, <2>2, <2>3, TimesOrder
  <2> QED
    BY <2>4 DEF a
<1>10. E = S - B * Ratio /\ E \in Int
  <2>1. circ - B \in Int
    BY <1>2, <1>6
  <2>2. E = (circ - B) * Ratio
    BY <2>1, NormalizedDef DEF E
  <2> QED
    BY <1>1, <1>2, <1>6, <2>2
<1>11. ASSUME SCALE % QUOTE_PRECISION = 0 PROVE amount - D <= cost
  <2> DEFINE X == QuoteSum(p, w, E, S, "Down")
             Z == QuoteSum(p, w, S - s.base, S, "Down")
  <2>1. X \in Int /\ Z \in Int
    <3>1. S \in Int /\ S - s.base \in Int
      BY <1>2, <1>4
    <3> QED
      BY <1>1, <1>2, <1>10, <3>1, QuoteTermsType
  <2>2. Z <= X
    <3>1. S \in Int /\ S - s.base \in Int /\ S <= S /\ E <= S - s.base
      BY <1>1, <1>2, <1>4, <1>6, <1>9, <1>10
    <3> QED
      BY <1>1, <1>2, <1>10, <3>1, SumWidens
  <2>3. cost = DivRound(X * QUOTE_PRECISION, SCALE, "Down")
    BY DEF cost, Cost, Price, E, S, w, Supply, circ
  <2>4. nq - s.left <= X
    BY <1>3, <1>4, <2>1, <2>2
  <2>0. nq \in Int /\ s.left \in Int /\ QUOTE_PRECISION \in Int
    BY <1>1, <1>3, <1>4
  <2>5. nq * QUOTE_PRECISION = amount * SCALE
    <3> DEFINE k == SCALE \div QUOTE_PRECISION
               c == amount * k
    <3>1. k \in Int /\ SCALE = k * QUOTE_PRECISION
      BY <1>1, <1>11
    <3> HIDE DEF k
    <3>2. c \in Int /\ amount * SCALE = c * QUOTE_PRECISION
      BY <1>1, <3>1
    <3> HIDE DEF c
    <3>3. (c * QUOTE_PRECISION) \div QUOTE_PRECISION = c
      BY <1>1, <3>2, DivExact
    <3> QED
      BY <1>3, <3>2, <3>3
  <2> HIDE DEF X
  <2>6. (amount - D) * SCALE <= X * QUOTE_PRECISION
    <3>1. (nq - s.left) * QUOTE_PRECISION <= X * QUOTE_PRECISION
      BY <1>1, <1>3, <1>4, <2>1, <2>4
    <3>2. (nq - s.left) * QUOTE_PRECISION = nq * QUOTE_PRECISION - s.left * QUOTE_PRECISION
      BY <2>0
    <3>3. (amount - D) * SCALE = amount * SCALE - D * SCALE
      BY <1>1, <1>8
    <3>4. /\ X * QUOTE_PRECISION \in Int /\ nq * QUOTE_PRECISION \in Int /\ s.left * QUOTE_PRECISION \in Int
          /\ amount * SCALE \in Int /\ D * SCALE \in Int
      BY <1>1, <1>3, <1>4, <1>8, <2>1
    <3> QED
      BY <1>8, <2>5, <3>1, <3>2, <3>3, <3>4
  <2> DEFINE a == X * QUOTE_PRECISION
             b == amount - D
  <2>7. a \in Int /\ b \in Int /\ b * SCALE <= a
    BY <1>1, <1>8, <2>1, <2>6
  <2> HIDE DEF a, b
  <2>8. b <= DivRound(a, SCALE, "Down")
    BY <1>1, <2>7, RoundsLeast
  <2> QED
    BY <2>3, <2>8 DEF a, b
<1>12. q.base \in 0..circ /\ q.quote \in 0..amount
  BY <1>2, <1>6, <1>7, <1>8
<1> QED
  BY <1>6, <1>11, <1>12 DEF q, circ, p, cost

-----------------------------------------------------------------------------
(* Areas and quote amounts on one scale. *)

\* SCALE has at least as many decimals as the quote token.
DecimalsFit == SCALE % QUOTE_PRECISION = 0

\* No supply is worth nothing, and a free curve makes every supply worth nothing.
LEMMA AreaNothing ==
  ASSUME NEW p \in [Index -> Nat], NEW w \in Nat
  PROVE  /\ Area(p, w, 0) = 0
         /\ (\A i \in Index : p[i] = 0) => \A n \in Int : Area(p, w, n) = 0
<1>1. INTERVAL_NUMBER \in Nat /\ \A k \in 1..INTERVAL_NUMBER : k \in Int /\ k - 1 \in Index /\ k \in Index
  BY CurveAssumption DEF Index
<1>2. \A n \in Int : Normalized(n) \in Int /\ Normalized(0) = 0
  BY NormalizedDef
<1>3. \A x \in Int : (\A k \in 1..INTERVAL_NUMBER : AreaTerms(p, w, x)[k] = 0) => AreaAt(p, w, x) = 0
  <2> SUFFICES ASSUME NEW x \in Int, \A k \in 1..INTERVAL_NUMBER : AreaTerms(p, w, x)[k] = 0
               PROVE  AreaAt(p, w, x) = 0
    OBVIOUS
  <2> DEFINE f == AreaTerms(p, w, x)
  <2>1. f \in [1..INTERVAL_NUMBER -> Int] /\ AreaAt(p, w, x) = SumTo(f, INTERVAL_NUMBER)
    BY AreaType
  <2>2. \A k \in 1..INTERVAL_NUMBER : f[k] = 0
    OBVIOUS
  <2> HIDE DEF f
  <2>3. SumTo(f, INTERVAL_NUMBER) = INTERVAL_NUMBER * 0
    BY <1>1, <2>1, <2>2, SumConstant
  <2> QED
    BY <1>1, <2>1, <2>3
<1>4. ASSUME NEW k \in 1..INTERVAL_NUMBER
      PROVE  AreaTerms(p, w, 0)[k] = 0
  <2>1. p[k - 1] \in Nat /\ p[k] \in Nat
    BY <1>1
  <2>2. Filled(k, 0, w) = 0
    <3>1. 0 <= (k - 1) * w
      BY <1>1
    <3> QED
      BY <1>1, <3>1, FilledParts
  <2>3. IntervalArea(p[k - 1], p[k], w, 0) = 0
    BY <2>1 DEF IntervalArea
  <2> QED
    BY <2>2, <2>3 DEF AreaTerms
<1>5. ASSUME \A i \in Index : p[i] = 0, NEW x \in Int, NEW k \in 1..INTERVAL_NUMBER
      PROVE  AreaTerms(p, w, x)[k] = 0
  <2>1. p[k - 1] = 0 /\ p[k] = 0
    BY <1>1, <1>5
  <2> DEFINE y == Filled(k, x, w)
  <2>2. y \in 0..w
    BY <1>1, FilledType
  <2> HIDE DEF y
  <2>3. IntervalArea(0, 0, w, y) = 0
    BY <2>2 DEF IntervalArea
  <2> QED
    BY <2>1, <2>3 DEF AreaTerms, y
<1>6. Area(p, w, 0) = 0
  <2>1. 0 \in Int
    OBVIOUS
  <2> QED
    BY <1>2, <1>3, <1>4, <2>1 DEF Area
<1>7. ASSUME \A i \in Index : p[i] = 0, NEW n \in Int
      PROVE  Area(p, w, n) = 0
  BY <1>2, <1>3, <1>5, <1>7 DEF Area
<1> QED
  BY <1>6, <1>7

\* The area of a supply is an integer, grows with the supply, and grows faster where the
\* prices are higher.
LEMMA AreaGrows ==
  ASSUME NEW p \in [Index -> Nat], NEW q \in [Index -> Nat], \A i \in Index : p[i] <= q[i],
         NEW w \in Nat, NEW x \in Int, NEW y \in Int, x <= y
  PROVE  /\ Area(p, w, x) \in Int /\ Area(p, w, y) \in Int
         /\ Area(q, w, x) \in Int /\ Area(q, w, y) \in Int
         /\ Area(p, w, x) <= Area(p, w, y)
         /\ Area(p, w, y) - Area(p, w, x) <= Area(q, w, y) - Area(q, w, x)
<1> DEFINE a == Normalized(x)
           b == Normalized(y)
<1>1. a \in Int /\ b \in Int /\ a <= b
  <2>1. Ratio \in Nat \ {0} /\ a = x * Ratio /\ b = y * Ratio
    BY NormalizedDef
  <2> HIDE DEF a, b
  <2> QED
    BY <2>1
<1> HIDE DEF a, b
<1>2. /\ AreaAt(p, w, a) \in Int /\ AreaAt(p, w, b) \in Int
      /\ AreaAt(q, w, a) \in Int /\ AreaAt(q, w, b) \in Int
  BY <1>1, AreaType
<1>3. /\ AreaAt(p, w, a) <= AreaAt(p, w, b)
      /\ AreaAt(p, w, b) - AreaAt(p, w, a) <= AreaAt(q, w, b) - AreaAt(q, w, a)
  BY <1>1, AreaOrder
<1> QED
  BY <1>2, <1>3 DEF Area, a, b

\* Quote amounts are compared by what they are worth.
LEMMA WorthOrder ==
  ASSUME NEW w \in Nat, NEW a \in Int, NEW b \in Int
  PROVE  /\ Worth(w, a) \in Int
         /\ Worth(w, a + b) = Worth(w, a) + Worth(w, b)
         /\ a <= b => Worth(w, a) <= Worth(w, b)
         /\ w > 0 /\ Worth(w, a) <= Worth(w, b) => a <= b
         /\ Worth(w, 0) = 0
<1> DEFINE u == SCALE * Unit(w)
<1>1. u \in Nat /\ (w > 0 => u > 0)
  <2>1. Unit(w) = 2 * SCALE * w /\ SCALE \in Nat \ {0}
    BY CurveAssumption DEF Unit
  <2> DEFINE v == Unit(w)
  <2>2. v \in Nat /\ (w > 0 => v > 0)
    BY <2>1
  <2> HIDE DEF v
  <2> QED
    BY <2>1, <2>2 DEF v
<1>2. \A c \in Int : Worth(w, c) = c * u
  <2> SUFFICES ASSUME NEW c \in Int PROVE c * SCALE * Unit(w) = c * u
    BY DEF Worth
  <2> DEFINE v == Unit(w)
  <2>1. v \in Int /\ SCALE \in Int
    BY CurveAssumption DEF Unit
  <2> HIDE DEF v
  <2>2. c * SCALE * v = c * (SCALE * v)
    BY <2>1
  <2> QED
    BY <2>2 DEF v
<1> HIDE DEF u
<1>3. /\ a <= b => a * u <= b * u
      /\ u > 0 /\ a * u <= b * u => a <= b
  BY <1>1, TimesOrder
<1>4. a * u \in Int /\ b * u \in Int /\ (a + b) * u = a * u + b * u /\ 0 * u = 0 /\ a + b \in Int
  BY <1>1
<1>5. Worth(w, a) = a * u /\ Worth(w, b) = b * u /\ Worth(w, a + b) = (a + b) * u /\ Worth(w, 0) = 0 * u
  BY <1>2
<1> DEFINE wa == Worth(w, a)
           wb == Worth(w, b)
           au == a * u
           bu == b * u
<1>6. wa = au /\ wb = bu /\ au \in Int /\ bu \in Int /\ Worth(w, a + b) = au + bu /\ Worth(w, 0) = 0
  BY <1>4, <1>5
<1>7. /\ a <= b => au <= bu
      /\ u > 0 /\ au <= bu => a <= b
  BY <1>3
<1> HIDE DEF wa, wb, au, bu
<1>8. /\ wa \in Int /\ Worth(w, a + b) = wa + wb
      /\ a <= b => wa <= wb
      /\ w > 0 /\ wa <= wb => a <= b
  BY <1>1, <1>6, <1>7
<1> QED
  BY <1>6, <1>8 DEF wa, wb

\* What an area costs is linear in it.
LEMMA PricedOrder ==
  ASSUME NEW a \in Int, NEW b \in Int
  PROVE  /\ Priced(a) \in Int
         /\ Priced(a - b) = Priced(a) - Priced(b)
         /\ a <= b => Priced(a) <= Priced(b)
         /\ Priced(0) = 0
<1>1. QUOTE_PRECISION \in Nat
  BY CurveAssumption
<1>2. a <= b => a * QUOTE_PRECISION <= b * QUOTE_PRECISION
  BY <1>1, TimesOrder
<1> QED
  BY <1>1, <1>2 DEF Priced
=============================================================================
