-------------------------- MODULE CurveCheckProofs --------------------------
(***************************************************************************)
(* The properties of the pricing functions that CurveCheck states, for     *)
(* every total supply, every reserve, every accepted curve and every       *)
(* amount.                                                                 *)
(***************************************************************************)
EXTENDS CurveCheck, CurveProofs

\* The markets and amounts that are asked about.
Inv == market \in Markets /\ Sound(market) /\ amount \in Nat \ {0}

\* Every market tried is one that the pricing functions may be called with.
LEMMA MarketsSound ==
  ASSUME NEW m \in Markets
  PROVE  Sound(m)
<1>1. PICK reserve \in 0..TotalSupply, c \in Curves :
        m = [base_reserve |-> reserve, total_supply |-> TotalSupply,
             width_scaled |-> Normalized(TotalSupply \div INTERVAL_NUMBER),
             bid_prices |-> c.bid_prices, ask_prices |-> c.ask_prices]
  BY DEF Markets
<1> DEFINE each == TotalSupply \div INTERVAL_NUMBER
<1>2. each \in Nat \ {0} /\ TotalSupply = INTERVAL_NUMBER * each
  BY CheckAssumption, CurveAssumption
<1> HIDE DEF each
<1>3. /\ Normalized(each) = each * Ratio /\ Normalized(TotalSupply) = TotalSupply * Ratio
      /\ Ratio \in Nat \ {0}
  BY <1>2, CheckAssumption, NormalizedDef
<1>4. Normalized(each) \in Nat \ {0} /\ INTERVAL_NUMBER * Normalized(each) = Normalized(TotalSupply)
  BY <1>2, <1>3, CurveAssumption
<1> QED
  BY <1>1, <1>4, CheckAssumption DEF Sound, each

LEMMA AlwaysInv == Spec => []Inv
<1>1. Init => Inv
  BY MarketsSound DEF Init, Inv
<1>2. Inv /\ [Next]_vars => Inv'
  BY CheckAssumption DEF Inv, Next, AskMore, AskAgain, vars
<1> QED
  BY <1>1, <1>2, PTL DEF Spec

-----------------------------------------------------------------------------
\* A purchase by its quote amount, a purchase by its base amount and a sale by its base
\* amount are within the supply, and are valued on the market's side.
LEMMA QuotesSound ==
  ASSUME Inv
  PROVE  /\ BuyExactIn.ok => /\ BuyExactIn.base \in 0..market.base_reserve /\ BuyExactIn.quote \in 0..amount
                             /\ Cost(market.ask_prices, market, circ, circ + BuyExactIn.base, "Up")
                                  <= BuyExactIn.quote
         /\ BuyExactOut.ok => /\ BuyExactOut.base = Min2(amount, market.base_reserve)
                              /\ BuyExactOut.quote
                                   = Cost(market.ask_prices, market, circ, circ + BuyExactOut.base, "Up")
         /\ SellExactIn.ok => /\ amount <= circ /\ SellExactIn.base = amount
                              /\ SellExactIn.quote
                                   = Cost(market.bid_prices, market, circ - amount, circ, "Down")
         /\ SellExactOut.ok => /\ SellExactOut.base \in 0..circ /\ SellExactOut.quote \in 0..amount
                               /\ SCALE % QUOTE_PRECISION = 0 =>
                                    SellExactOut.quote
                                      <= Cost(market.bid_prices, market, circ - SellExactOut.base, circ, "Down")
<1>1. Sound(market) /\ amount \in Nat
  BY DEF Inv
<1>2. ASSUME BuyExactIn.ok
      PROVE  /\ BuyExactIn.base \in 0..market.base_reserve /\ BuyExactIn.quote \in 0..amount
             /\ Cost(market.ask_prices, market, circ, circ + BuyExactIn.base, "Up") <= BuyExactIn.quote
  BY <1>1, <1>2, BuyExactQuote DEF BuyExactIn, circ
<1>3. ASSUME BuyExactOut.ok
      PROVE  /\ BuyExactOut.base = Min2(amount, market.base_reserve)
             /\ BuyExactOut.quote = Cost(market.ask_prices, market, circ, circ + BuyExactOut.base, "Up")
  <2> DEFINE given == Min2(amount, market.base_reserve)
             cost == Cost(market.ask_prices, market, circ, circ + given, "Up")
  <2>1. BuyExactOut = Quoted(given, cost)
    BY <1>1, BuyExactBase DEF BuyExactOut, circ
  <2> HIDE DEF given, cost
  <2>2. BuyExactOut.base = given /\ BuyExactOut.quote = cost
    BY <1>3, <2>1, QuotedOk
  <2> QED
    BY <2>2 DEF given, cost
<1>4. ASSUME SellExactIn.ok
      PROVE  /\ amount <= circ /\ SellExactIn.base = amount
             /\ SellExactIn.quote = Cost(market.bid_prices, market, circ - amount, circ, "Down")
  <2> DEFINE cost == Cost(market.bid_prices, market, circ - amount, circ, "Down")
  <2>1. SellExactIn = IF amount <= circ THEN Quoted(amount, cost) ELSE Fail
    BY <1>1, SellExactBase DEF SellExactIn, circ
  <2> HIDE DEF cost
  <2>2. amount <= circ /\ SellExactIn = Quoted(amount, cost)
    BY <1>4, <2>1 DEF Fail
  <2>3. SellExactIn.base = amount /\ SellExactIn.quote = cost
    BY <1>4, <2>2, QuotedOk
  <2> QED
    BY <2>2, <2>3 DEF cost
<1>5. ASSUME SellExactOut.ok
      PROVE  /\ SellExactOut.base \in 0..circ /\ SellExactOut.quote \in 0..amount
             /\ SCALE % QUOTE_PRECISION = 0 =>
                  SellExactOut.quote
                    <= Cost(market.bid_prices, market, circ - SellExactOut.base, circ, "Down")
  BY <1>1, <1>5, SellExactQuote DEF SellExactOut, circ
<1> QED
  BY <1>2, <1>3, <1>4, <1>5

\* No form of swap leaves the supply or takes more than the user named, whatever the curve
\* and wherever in the curve the swap starts and ends.
THEOREM AlwaysWithinSupply == Spec => []WithinSupply
<1>1. Inv => WithinSupply
  <2> SUFFICES ASSUME Inv PROVE WithinSupply
    OBVIOUS
  <2>1. market.base_reserve \in Nat /\ circ \in Nat /\ amount \in Nat
    BY SupplyType DEF Inv, Sound, circ
  <2>2. Min2(amount, market.base_reserve) \in Nat
    BY <2>1 DEF Min2
  <2> HIDE DEF BuyExactIn, BuyExactOut, SellExactIn, SellExactOut, circ
  <2> QED
    BY <2>1, <2>2, QuotesSound DEF WithinSupply
<1> QED
  BY <1>1, AlwaysInv, PTL

\* Naming what an exact-input purchase returns never costs more than the purchase did.
THEOREM ExactFormsAlwaysAgree == Spec => []ExactFormsAgree
<1>1. Inv => ExactFormsAgree
  <2> SUFFICES ASSUME Inv, BuyExactIn.ok,
                      get_quote_amount(market, BuyExactIn.base, "ExactOutput").ok
               PROVE  get_quote_amount(market, BuyExactIn.base, "ExactOutput").quote <= BuyExactIn.quote
    BY DEF ExactFormsAgree
  <2> DEFINE b == BuyExactIn.base
             given == Min2(b, market.base_reserve)
             cost == Cost(market.ask_prices, market, circ, circ + given, "Up")
  <2>1. /\ b \in 0..market.base_reserve /\ market.base_reserve \in Nat
        /\ Cost(market.ask_prices, market, circ, circ + b, "Up") <= BuyExactIn.quote
    BY QuotesSound DEF Inv, Sound
  <2> HIDE DEF b
  <2>2. get_quote_amount(market, b, "ExactOutput") = Quoted(given, cost)
    BY <2>1, BuyExactBase DEF Inv, circ
  <2>3. given = b
    BY <2>1 DEF Min2
  <2> HIDE DEF cost, given
  <2>4. get_quote_amount(market, b, "ExactOutput").quote = cost
    <3>1. Quoted(given, cost).ok
      BY <2>2 DEF b
    <3> QED
      BY <2>2, <3>1, QuotedOk
  <2> QED
    BY <2>1, <2>3, <2>4 DEF cost, b
<1> QED
  BY <1>1, AlwaysInv, PTL

\* In every form of swap the buyer pays at least the ask area of the tokens and the seller
\* gets at most their bid area, for quote tokens of at most as many decimals as SCALE has.
THEOREM RoundingAlwaysFavoursMarket ==
  ASSUME DecimalsFit
  PROVE  Spec => []RoundingFavoursMarket
<1>1. Inv => RoundingFavoursMarket
  <2> SUFFICES ASSUME Inv PROVE RoundingFavoursMarket
    OBVIOUS
  <2> DEFINE w == market.width_scaled
             ask == market.ask_prices
             bid == market.bid_prices
  <2>1. /\ Sound(market) /\ w \in Nat \ {0} /\ circ \in Nat /\ amount \in Nat
        /\ market.base_reserve \in Nat
        /\ ask \in [Index -> Nat] /\ bid \in [Index -> Nat]
        /\ "Up" \in Rounding /\ "Down" \in Rounding
    BY SupplyType DEF Inv, Sound, Climbs, Rounding, circ
  <2> HIDE DEF w, ask, bid
  <2>2. \A a, b \in Int : a <= b => WorthOf(a) <= WorthOf(b) /\ WorthOf(a) \in Int
    <3> DEFINE k == SCALE * Unit(w)
    <3>1. Unit(w) \in Nat \ {0} /\ SCALE \in Nat \ {0}
      BY <2>1, UnitType, CurveAssumption
    <3>2. k \in Nat
      BY <3>1
    <3>3. \A a \in Int : WorthOf(a) = a * k
      BY <3>1 DEF WorthOf, Worth, w
    <3> HIDE DEF k
    <3> QED
      BY <3>2, <3>3, TimesOrder
  <2>3. \A x, y : AreaOf(ask, y) - AreaOf(ask, x) = Area(ask, w, y) - Area(ask, w, x)
    BY DEF AreaOf, w
  <2>4. \A x, y : AreaOf(bid, y) - AreaOf(bid, x) = Area(bid, w, y) - Area(bid, w, x)
    BY DEF AreaOf, w
  <2>5. \A b \in Nat : \A r \in Rounding :
          /\ Cost(ask, market, circ, circ + b, r) \in Nat
          /\ r = "Up" => WorthOf(Cost(ask, market, circ, circ + b, r))
                           >= Priced(AreaOf(ask, circ + b) - AreaOf(ask, circ))
    <3> SUFFICES ASSUME NEW b \in Nat, NEW r \in Rounding
                 PROVE  /\ Cost(ask, market, circ, circ + b, r) \in Nat
                        /\ r = "Up" => WorthOf(Cost(ask, market, circ, circ + b, r))
                                         >= Priced(AreaOf(ask, circ + b) - AreaOf(ask, circ))
      OBVIOUS
    <3> DEFINE y == circ + b
    <3>1. y \in Int /\ circ \in Int /\ circ <= y
      BY <2>1
    <3> HIDE DEF y, circ
    <3>2. /\ Cost(ask, market, circ, y, r) \in Nat
          /\ r = "Up" => Worth(market.width_scaled, Cost(ask, market, circ, y, r))
                          >= Priced(Area(ask, market.width_scaled, y) - Area(ask, market.width_scaled, circ))
      BY <2>1, <3>1, CostValue
    <3> QED
      BY <3>2 DEF WorthOf, AreaOf, y
  <2>6. \A b \in Nat : 
          /\ Cost(bid, market, circ - b, circ, "Down") \in Nat
          /\ WorthOf(Cost(bid, market, circ - b, circ, "Down"))
               <= Priced(AreaOf(bid, circ) - AreaOf(bid, circ - b))
    <3> SUFFICES ASSUME NEW b \in Nat
                 PROVE  /\ Cost(bid, market, circ - b, circ, "Down") \in Nat
                        /\ WorthOf(Cost(bid, market, circ - b, circ, "Down"))
                             <= Priced(AreaOf(bid, circ) - AreaOf(bid, circ - b))
      OBVIOUS
    <3> DEFINE x == circ - b
    <3>1. x \in Int /\ circ \in Int /\ x <= circ
      BY <2>1
    <3> HIDE DEF x, circ
    <3>2. /\ Cost(bid, market, x, circ, "Down") \in Nat
          /\ Worth(market.width_scaled, Cost(bid, market, x, circ, "Down"))
               <= Priced(Area(bid, market.width_scaled, circ) - Area(bid, market.width_scaled, x))
      BY <2>1, <3>1, CostValue
    <3> QED
      BY <3>2 DEF WorthOf, AreaOf, x
  <2>7. \A b \in Nat : Priced(AreaOf(ask, circ + b) - AreaOf(ask, circ)) \in Int
                       /\ Priced(AreaOf(bid, circ) - AreaOf(bid, circ - b)) \in Int
    <3>1. \A n \in Int : AreaOf(ask, n) \in Int /\ AreaOf(bid, n) \in Int
      <4> SUFFICES ASSUME NEW n \in Int PROVE AreaOf(ask, n) \in Int /\ AreaOf(bid, n) \in Int
        OBVIOUS
      <4>1. Normalized(n) \in Int /\ w \in Nat
        BY <2>1, NormalizedDef
      <4>2. AreaAt(ask, w, Normalized(n)) \in Int /\ AreaAt(bid, w, Normalized(n)) \in Int
        BY <2>1, <4>1, AreaType
      <4> QED
        BY <4>2 DEF AreaOf, Area, w
    <3> SUFFICES ASSUME NEW b \in Nat
                 PROVE  Priced(AreaOf(ask, circ + b) - AreaOf(ask, circ)) \in Int
                        /\ Priced(AreaOf(bid, circ) - AreaOf(bid, circ - b)) \in Int
      OBVIOUS
    <3>2. circ + b \in Int /\ circ - b \in Int /\ circ \in Int
      BY <2>1
    <3>3. AreaOf(ask, circ + b) - AreaOf(ask, circ) \in Int /\ AreaOf(bid, circ) - AreaOf(bid, circ - b) \in Int
      BY <3>1, <3>2
    <3> QED
      BY <3>3, CurveAssumption DEF Priced
  <2> DEFINE q1 == BuyExactIn
             q2 == BuyExactOut
             q3 == SellExactIn
             q4 == SellExactOut
  <2> HIDE DEF q1, q2, q3, q4, circ
  <2>8. /\ q1.ok => /\ q1.base \in Nat /\ q1.quote \in Nat
                    /\ Cost(ask, market, circ, circ + q1.base, "Up") <= q1.quote
        /\ q2.ok => /\ q2.base \in Nat
                    /\ q2.quote = Cost(ask, market, circ, circ + q2.base, "Up")
        /\ q3.ok => /\ q3.base = amount
                    /\ q3.quote = Cost(bid, market, circ - q3.base, circ, "Down")
        /\ q4.ok => /\ q4.base \in Nat /\ q4.quote \in Nat
                    /\ q4.quote <= Cost(bid, market, circ - q4.base, circ, "Down")
    <3>1. Min2(amount, market.base_reserve) \in Nat
      BY <2>1 DEF Min2
    <3> QED
      BY <2>1, <3>1, QuotesSound DEF DecimalsFit, q1, q2, q3, q4, ask, bid
  <2>9. q1.ok => WorthOf(q1.quote) >= Priced(AreaOf(ask, circ + q1.base) - AreaOf(ask, circ))
    <3> SUFFICES ASSUME q1.ok PROVE WorthOf(q1.quote) >= Priced(AreaOf(ask, circ + q1.base) - AreaOf(ask, circ))
      OBVIOUS
    <3> DEFINE c == Cost(ask, market, circ, circ + q1.base, "Up")
               a == Priced(AreaOf(ask, circ + q1.base) - AreaOf(ask, circ))
    <3>1. q1.base \in Nat /\ q1.quote \in Nat /\ c <= q1.quote
      BY <2>8
    <3>2. c \in Nat /\ WorthOf(c) >= a /\ a \in Int
      BY <2>1, <2>5, <2>7, <3>1
    <3> HIDE DEF c, a
    <3>3. WorthOf(c) <= WorthOf(q1.quote) /\ WorthOf(c) \in Int /\ WorthOf(q1.quote) \in Int
      BY <2>2, <3>1, <3>2
    <3>4. WorthOf(q1.quote) >= a
      BY <3>2, <3>3
    <3> QED
      BY <3>4 DEF a
  <2>10. q2.ok => WorthOf(q2.quote) >= Priced(AreaOf(ask, circ + q2.base) - AreaOf(ask, circ))
    BY <2>1, <2>5, <2>8
  <2>11. q3.ok => WorthOf(q3.quote) <= Priced(AreaOf(bid, circ) - AreaOf(bid, circ - q3.base))
    BY <2>1, <2>6, <2>8
  <2>12. q4.ok => WorthOf(q4.quote) <= Priced(AreaOf(bid, circ) - AreaOf(bid, circ - q4.base))
    <3> SUFFICES ASSUME q4.ok PROVE WorthOf(q4.quote) <= Priced(AreaOf(bid, circ) - AreaOf(bid, circ - q4.base))
      OBVIOUS
    <3> DEFINE c == Cost(bid, market, circ - q4.base, circ, "Down")
               a == Priced(AreaOf(bid, circ) - AreaOf(bid, circ - q4.base))
    <3>1. q4.base \in Nat /\ q4.quote \in Nat /\ q4.quote <= c
      BY <2>8
    <3>2. c \in Nat /\ WorthOf(c) <= a /\ a \in Int
      BY <2>6, <2>7, <3>1
    <3> HIDE DEF c, a
    <3>3. WorthOf(q4.quote) <= WorthOf(c) /\ WorthOf(c) \in Int /\ WorthOf(q4.quote) \in Int
      BY <2>2, <3>1, <3>2
    <3>4. WorthOf(q4.quote) <= a
      BY <3>2, <3>3
    <3> QED
      BY <3>4 DEF a
  <2> QED
    BY <2>9, <2>10, <2>11, <2>12 DEF RoundingFavoursMarket, q1, q2, q3, q4, ask, bid
<1> QED
  BY <1>1, AlwaysInv, PTL

\* With such a quote token no sale pays out anything for nothing.
THEOREM SaleAlwaysPaysForSomething ==
  ASSUME DecimalsFit
  PROVE  Spec => []SalePaysForSomething
<1>1. Inv => SalePaysForSomething
  <2> SUFFICES ASSUME Inv, SellExactOut.ok, SellExactOut.quote > 0 PROVE SellExactOut.base > 0
    BY DEF SalePaysForSomething
  <2> DEFINE q == SellExactOut
             bid == market.bid_prices
  <2>1. Sound(market) /\ circ \in Nat /\ bid \in [Index -> Nat] /\ "Down" \in Rounding
    BY SupplyType DEF Inv, Sound, Climbs, Rounding, circ
  <2>2. /\ q.base \in 0..circ /\ q.quote \in Nat
        /\ q.quote <= Cost(bid, market, circ - q.base, circ, "Down")
    BY QuotesSound DEF DecimalsFit
  <2>3. q.quote > 0
    OBVIOUS
  <2> HIDE DEF q, bid, circ
  <2>4. ASSUME q.base = 0 PROVE FALSE
    <3>1. circ - q.base = circ /\ circ \in Int
      BY <2>1, <2>4
    <3>2. Cost(bid, market, circ, circ, "Down") = 0
      BY <2>1, <3>1, CostValue
    <3> QED
      BY <2>2, <2>3, <3>1, <3>2
  <2>5. q.base > 0
    BY <2>1, <2>2, <2>4
  <2> QED
    BY <2>5 DEF q
<1> QED
  BY <1>1, AlwaysInv, PTL

\* The market after some of the reserve was sold, or bought back.
LEMMA AfterSound ==
  ASSUME Inv, NEW part \in Int, market.base_reserve - part \in 0..market.total_supply
  PROVE  /\ Sound(After(part)) /\ circulating_supply(After(part)) = circ + part
         /\ After(part).base_reserve = market.base_reserve - part
         /\ After(part).ask_prices = market.ask_prices /\ After(part).bid_prices = market.bid_prices
         /\ \A p, x, y, r : Cost(p, After(part), x, y, r) = Cost(p, market, x, y, r)
<1>1. /\ After(part).total_supply = market.total_supply /\ After(part).width_scaled = market.width_scaled
      /\ After(part).ask_prices = market.ask_prices /\ After(part).bid_prices = market.bid_prices
      /\ After(part).base_reserve = market.base_reserve - part
  BY DEF After, Inv, Markets
<1>2. Sound(After(part))
  BY <1>1 DEF Inv, Sound
<1>3. circulating_supply(After(part)) = circ + part
  BY <1>1 DEF circulating_supply, circ, Inv, Sound
<1> QED
  BY <1>1, <1>2, <1>3 DEF Cost

\* Splitting a purchase in two never costs less, splitting a sale never pays more: the
\* roundings of the parts add up to at least the rounding of the whole.
THEOREM SplitNeverPays == Spec => []SplitNeverBeatsWhole
<1>1. Inv => SplitNeverBeatsWhole
  <2> SUFFICES ASSUME Inv, NEW part \in 1..(amount - 1)
               PROVE  /\ BuyExactOut.ok /\ amount <= market.base_reserve =>
                           get_quote_amount(market, part, "ExactOutput").quote
                             + get_quote_amount(After(part), amount - part, "ExactOutput").quote
                               >= BuyExactOut.quote
                      /\ SellExactIn.ok =>
                           get_quote_amount(market, part, "ExactInput").quote
                             + get_quote_amount(After(-part), amount - part, "ExactInput").quote
                               <= SellExactIn.quote
    BY DEF SplitNeverBeatsWhole
  <2> DEFINE ask == market.ask_prices
             bid == market.bid_prices
             rest == amount - part
  <2>1. /\ Sound(market) /\ circ \in 0..market.total_supply /\ market.total_supply \in Nat
        /\ market.base_reserve = market.total_supply - circ /\ market.base_reserve \in Nat
        /\ ask \in [Index -> Nat] /\ bid \in [Index -> Nat]
        /\ "Up" \in Rounding /\ "Down" \in Rounding
    <3>1. market.base_reserve = market.total_supply - circ
      BY DEF Inv, Sound, circ, circulating_supply
    <3> QED
      BY <3>1, SupplyType DEF Inv, Sound, Climbs, Rounding, circ
  <2>2. amount \in Nat /\ part \in Nat /\ part \in Int /\ rest \in Nat /\ part + rest = amount /\ part <= amount
    BY DEF Inv
  <2> HIDE DEF rest
  <2>3. ASSUME BuyExactOut.ok, amount <= market.base_reserve
        PROVE  get_quote_amount(market, part, "ExactOutput").quote
                 + get_quote_amount(After(part), rest, "ExactOutput").quote >= BuyExactOut.quote
    <3> DEFINE x == circ
               y == circ + part
               z == circ + amount
               first == Cost(ask, market, x, y, "Up")
               second == Cost(ask, market, y, z, "Up")
               whole == Cost(ask, market, x, z, "Up")
    <3>1. /\ Min2(amount, market.base_reserve) = amount /\ Min2(part, market.base_reserve) = part
          /\ market.base_reserve - part \in 0..market.total_supply
          /\ Min2(rest, market.base_reserve - part) = rest
          /\ y + rest = z
      BY <2>1, <2>2, <2>3 DEF Min2
    <3>2. BuyExactOut.quote = whole /\ whole \in U64
      <4>1. BuyExactOut = Quoted(amount, whole)
        BY <2>1, <2>2, <3>1, BuyExactBase DEF BuyExactOut, circ
      <4> HIDE DEF whole
      <4> QED
        BY <2>3, <4>1, QuotedOk
    <3>3. get_quote_amount(market, part, "ExactOutput") = Quoted(part, first)
      BY <2>1, <2>2, <3>1, BuyExactBase DEF circ
    <3>4. get_quote_amount(After(part), rest, "ExactOutput") = Quoted(rest, second)
      <4>1. /\ Sound(After(part)) /\ circulating_supply(After(part)) = y
            /\ After(part).base_reserve = market.base_reserve - part /\ After(part).ask_prices = ask
        BY <2>2, <3>1, AfterSound
      <4>2. \A a, b : Cost(ask, After(part), a, b, "Up") = Cost(ask, market, a, b, "Up")
        BY <2>2, <3>1, AfterSound
      <4>3. LET given == Min2(rest, After(part).base_reserve)
                at == circulating_supply(After(part))
            IN  get_quote_amount(After(part), rest, "ExactOutput")
                  = Quoted(given, Cost(After(part).ask_prices, After(part), at, at + given, "Up"))
        BY <2>2, <4>1, BuyExactBase
      <4> HIDE DEF y, z
      <4>4. get_quote_amount(After(part), rest, "ExactOutput")
              = Quoted(rest, Cost(ask, After(part), y, y + rest, "Up"))
        BY <3>1, <4>1, <4>3
      <4> QED
        BY <3>1, <4>2, <4>4
    <3>5. x \in Int /\ y \in Int /\ z \in Int /\ x <= y /\ y <= z /\ x <= z
      BY <2>1, <2>2
    <3> HIDE DEF x, y, z
    <3>6. first \in Nat /\ second \in Nat /\ whole \in Nat
      <4>1. first \in Nat
        BY <2>1, <3>5, CostValue
      <4>2. second \in Nat
        BY <2>1, <3>5, CostValue
      <4>3. whole \in Nat
        BY <2>1, <3>5, CostValue
      <4> QED
        BY <4>1, <4>2, <4>3
    <3>7. whole <= first + second /\ first <= whole /\ second <= whole
      BY <2>1, <3>5, CostParts
    <3> HIDE DEF first, second, whole
    <3>8. first \in U64 /\ second \in U64 /\ part \in U64 /\ rest \in U64
      <4>1. amount \in U64
        <5>1. Quoted(amount, whole).ok
          BY <2>1, <2>2, <2>3, <3>1, BuyExactBase DEF BuyExactOut, circ, whole, x, z
        <5> QED
          BY <5>1, QuotedOk
      <4> QED
        BY <2>2, <3>2, <3>6, <3>7, <4>1, CurveAssumption DEF U64
    <3>9. Quoted(part, first).quote = first /\ Quoted(rest, second).quote = second
      BY <3>8 DEF Quoted
    <3> QED
      BY <3>2, <3>3, <3>4, <3>7, <3>9
  <2>4. ASSUME SellExactIn.ok
        PROVE  get_quote_amount(market, part, "ExactInput").quote
                 + get_quote_amount(After(-part), rest, "ExactInput").quote <= SellExactIn.quote
    <3> DEFINE x == circ - amount
               y == circ - part
               z == circ
               first == Cost(bid, market, y, z, "Down")
               second == Cost(bid, market, x, y, "Down")
               whole == Cost(bid, market, x, z, "Down")
    <3>1. SellExactIn.quote = whole /\ amount <= circ
      <4> HIDE DEF SellExactIn, BuyExactIn, BuyExactOut, SellExactOut, circ
      <4>1. /\ amount <= circ
            /\ SellExactIn.quote = Cost(market.bid_prices, market, circ - amount, circ, "Down")
        BY <2>4, QuotesSound
      <4> QED
        BY <4>1
    <3>2. x \in Int /\ y \in Int /\ z \in Int /\ x <= y /\ y <= z /\ x <= z
      BY <2>1, <2>2
    <3>3. get_quote_amount(market, part, "ExactInput") = Quoted(part, first)
      <4>1. part <= circ
        BY <2>1, <2>2, <3>1
      <4> QED
        BY <2>1, <2>2, <4>1, SellExactBase DEF circ
    <3>4. get_quote_amount(After(-part), rest, "ExactInput") = Quoted(rest, second)
      <4>0. -part \in Int /\ market.base_reserve - (-part) \in 0..market.total_supply
            /\ circ + (-part) = y /\ y - rest = x /\ rest <= y
        BY <2>1, <2>2, <3>1
      <4> DEFINE sold == -part
      <4> HIDE DEF sold, x, y, z
      <4>1. /\ Sound(After(sold)) /\ circulating_supply(After(sold)) = y /\ After(sold).bid_prices = bid
        BY <4>0, AfterSound DEF sold
      <4>2. \A a, b : Cost(bid, After(sold), a, b, "Down") = Cost(bid, market, a, b, "Down")
        BY <4>0, AfterSound DEF sold
      <4>3. LET at == circulating_supply(After(sold))
            IN  get_quote_amount(After(sold), rest, "ExactInput")
                  = IF rest <= at THEN Quoted(rest, Cost(After(sold).bid_prices, After(sold), at - rest, at, "Down"))
                    ELSE Fail
        BY <2>2, <4>1, SellExactBase
      <4>4. get_quote_amount(After(sold), rest, "ExactInput")
              = Quoted(rest, Cost(bid, After(sold), y - rest, y, "Down"))
        BY <4>0, <4>1, <4>3
      <4> QED
        BY <4>0, <4>2, <4>4 DEF sold
    <3> HIDE DEF x, y, z
    <3>5. first \in Nat /\ second \in Nat
      <4>1. first \in Nat
        BY <2>1, <3>2, CostValue
      <4>2. second \in Nat
        BY <2>1, <3>2, CostValue
      <4> QED
        BY <4>1, <4>2
    <3>6. whole \in Nat /\ whole >= second + first
      <4>1. whole \in Nat
        BY <2>1, <3>2, CostValue
      <4>2. whole >= second + first
        BY <2>1, <3>2, CostParts
      <4> QED
        BY <4>1, <4>2
    <3> HIDE DEF first, second, whole
    <3>7. Quoted(part, first).quote \in {0, first} /\ Quoted(rest, second).quote \in {0, second}
      BY DEF Quoted, Fail
    <3> QED
      BY <3>1, <3>3, <3>4, <3>5, <3>6, <3>7
  <2> QED
    BY <2>3, <2>4 DEF rest
<1> QED
  BY <1>1, AlwaysInv, PTL

\* The price of one unit of base fits a u64, wherever in the curve it is sold.
UnitsFit ==
  \A c \in Curves, sold \in 0..(TotalSupply - 1) :
    Price(c.ask_prices, Normalized(TotalSupply \div INTERVAL_NUMBER),
          Normalized(sold), Normalized(sold + 1), "Up") <= U64_MAX

\* As long as the price of one unit fits a u64, naming the base amount sells the reserve down
\* to the last unit, also where a whole interval is worth more than a u64.
THEOREM ReserveNeverStuck ==
  ASSUME UnitsFit, U64_MAX > 0
  PROVE  Spec => []ReserveAlwaysForSale
<1>1. Inv => ReserveAlwaysForSale
  <2> SUFFICES ASSUME Inv, market.base_reserve > 0
               PROVE  LET unit == get_quote_amount(market, 1, "ExactOutput")
                          few == get_quote_amount(market, Min2(amount, market.base_reserve), "ExactOutput")
                      IN  /\ unit.ok /\ unit.base = 1
                          /\ BuyExactIn.ok /\ BuyExactIn.base > 0 => unit.quote <= BuyExactIn.quote
                          /\ few.ok => few.quote >= unit.quote /\ few.base = Min2(amount, market.base_reserve)
    BY DEF ReserveAlwaysForSale
  <2> DEFINE ask == market.ask_prices
             reserve == market.base_reserve
             cost(n) == Cost(ask, market, circ, circ + n, "Up")
             some == Min2(amount, reserve)
  <2>1. /\ Sound(market) /\ circ \in Nat /\ reserve \in Nat \ {0} /\ amount \in Nat \ {0}
        /\ reserve = market.total_supply - circ
        /\ ask \in [Index -> Nat] /\ "Up" \in Rounding
    <3>1. market.base_reserve = market.total_supply - circ
      BY DEF Inv, Sound, circ, circulating_supply
    <3> QED
      BY <3>1, SupplyType DEF Inv, Sound, Climbs, Rounding, circ
  <2>2. some \in 1..reserve /\ Min2(1, reserve) = 1 /\ Min2(some, reserve) = some
    BY <2>1 DEF Min2
  <2>3. \A n \in 1..reserve : cost(n) \in Nat /\ cost(1) <= cost(n)
    <3> SUFFICES ASSUME NEW n \in 1..reserve PROVE cost(n) \in Nat /\ cost(1) <= cost(n)
      OBVIOUS
    <3> DEFINE x == circ
               y == circ + 1
               z == circ + n
    <3>1. x \in Int /\ y \in Int /\ z \in Int /\ x <= y /\ y <= z /\ x <= z
      BY <2>1
    <3> HIDE DEF x, y, z
    <3>2. Cost(ask, market, x, z, "Up") \in Nat
      BY <2>1, <3>1, CostValue
    <3>3. Cost(ask, market, x, y, "Up") <= Cost(ask, market, x, z, "Up")
      BY <2>1, <3>1, CostParts
    <3> QED
      BY <3>2, <3>3 DEF x, y, z
  <2>4. cost(1) \in U64 /\ 1 \in U64
    <3>1. PICK r \in 0..TotalSupply, c \in Curves :
            market = [base_reserve |-> r, total_supply |-> TotalSupply,
                      width_scaled |-> Normalized(TotalSupply \div INTERVAL_NUMBER),
                      bid_prices |-> c.bid_prices, ask_prices |-> c.ask_prices]
      BY DEF Inv, Markets
    <3>2. /\ market.width_scaled = Normalized(TotalSupply \div INTERVAL_NUMBER)
          /\ ask = c.ask_prices /\ circ \in 0..(TotalSupply - 1)
      <4>1. /\ market.width_scaled = Normalized(TotalSupply \div INTERVAL_NUMBER)
            /\ ask = c.ask_prices /\ market.total_supply = TotalSupply
        BY <3>1
      <4>2. TotalSupply \in Nat
        BY CheckAssumption
      <4> QED
        BY <2>1, <4>1, <4>2
    <3>3. cost(1) <= U64_MAX
      <4>1. Price(c.ask_prices, Normalized(TotalSupply \div INTERVAL_NUMBER),
                  Normalized(circ), Normalized(circ + 1), "Up") <= U64_MAX
        BY <3>2 DEF UnitsFit
      <4> QED
        BY <3>2, <4>1 DEF Cost
    <3> QED
      BY <2>1, <2>3, <3>3, CurveAssumption DEF U64
  <2>5. get_quote_amount(market, 1, "ExactOutput") = Quoted(1, cost(1))
    BY <2>1, <2>2, BuyExactBase DEF circ
  <2>6. get_quote_amount(market, some, "ExactOutput") = Quoted(some, cost(some))
    <3>1. some \in Nat
      BY <2>1, <2>2
    <3> HIDE DEF some
    <3> QED
      BY <2>1, <2>2, <3>1, BuyExactBase DEF circ
  <2>7. BuyExactIn.ok => BuyExactIn.base \in 0..reserve /\ cost(BuyExactIn.base) <= BuyExactIn.quote
                           /\ BuyExactIn.quote \in Nat
    BY <2>1, QuotesSound
  <2> DEFINE q == BuyExactIn
             one == get_quote_amount(market, 1, "ExactOutput")
             few == get_quote_amount(market, some, "ExactOutput")
  <2>8. one.ok /\ one.base = 1 /\ one.quote = cost(1)
    BY <2>4, <2>5 DEF Quoted
  <2>9. few.ok => few.base = some /\ few.quote = cost(some)
    <3> HIDE DEF cost, some
    <3> QED
      BY <2>6, QuotedOk
  <2> HIDE DEF q, one, few, cost, reserve, some
  <2>10. q.ok /\ q.base > 0 => cost(1) <= q.quote
    <3> SUFFICES ASSUME q.ok, q.base > 0 PROVE cost(1) <= q.quote
      OBVIOUS
    <3>1. q.base \in 1..reserve /\ cost(q.base) <= q.quote /\ q.quote \in Nat
      BY <2>1, <2>7 DEF q
    <3>2. cost(q.base) \in Nat /\ cost(1) <= cost(q.base) /\ cost(1) \in Nat
      BY <2>1, <2>3, <3>1
    <3> QED
      BY <3>1, <3>2
  <2>11. few.ok => few.quote >= one.quote /\ few.base = some
    BY <2>1, <2>2, <2>3, <2>8, <2>9
  <2> QED
    BY <2>8, <2>10, <2>11 DEF q, one, few, some, reserve
<1> QED
  BY <1>1, AlwaysInv, PTL
=============================================================================
