----------------------------- MODULE CurveCheck -----------------------------
(***************************************************************************)
(* Bounded check of the pricing functions against exact integrals of the   *)
(* price curve.  A state is one market and one requested amount; the next  *)
(* state asks for another amount, buys or sells part of the supply.        *)
(***************************************************************************)
EXTENDS CurveValue

CONSTANTS
  Curves,        \* price curves to try, records [bid_prices, ask_prices]
  TotalSupply,   \* supply of the markets tried
  MaxAmount      \* largest amount asked for

\* Supplies that the intervals divide evenly, and curves as the program accepts them.
ASSUME CheckAssumption ==
  /\ TotalSupply \in Nat \ {0} /\ TotalSupply % INTERVAL_NUMBER = 0
  /\ MaxAmount \in Nat \ {0}
  /\ \A c \in Curves : Climbs(c.bid_prices) /\ Climbs(c.ask_prices)

VARIABLES market, amount
vars == <<market, amount>>

Markets == {[base_reserve |-> reserve, total_supply |-> TotalSupply,
             width_scaled |-> Normalized(TotalSupply \div INTERVAL_NUMBER),
             bid_prices |-> c.bid_prices, ask_prices |-> c.ask_prices] :
            reserve \in 0..TotalSupply, c \in Curves}

Init == market \in Markets /\ amount = 1

AskMore == amount < MaxAmount /\ amount' = amount + 1 /\ UNCHANGED market
AskAgain == amount = MaxAmount /\ amount' = 1 /\ UNCHANGED market

Next == AskMore \/ AskAgain
Spec == Init /\ [][Next]_vars

-----------------------------------------------------------------------------
\* Area and worth on this market's scale.
AreaOf(p, n) == Area(p, market.width_scaled, n)
WorthOf(quote) == Worth(market.width_scaled, quote)

circ == circulating_supply(market)
BuyExactIn == get_base_amount_out(market, amount)
BuyExactOut == get_quote_amount(market, amount, "ExactOutput")
SellExactIn == get_quote_amount(market, amount, "ExactInput")
SellExactOut == get_base_amount_in(market, amount)

\* Whatever the form of the swap, the rounding of every interval and of the final
\* conversion goes the market's way: a buyer pays at least the ask area of the tokens,
\* a seller receives at most the bid area (state/market.rs, all four pricing paths).
RoundingFavoursMarket ==
  /\ \A q \in {BuyExactIn, BuyExactOut} :
       q.ok /\ q.base <= market.base_reserve =>
         WorthOf(q.quote) >= Priced(AreaOf(market.ask_prices, circ + q.base) - AreaOf(market.ask_prices, circ))
  /\ \A q \in {SellExactIn, SellExactOut} :
       q.ok /\ q.base <= circ =>
         WorthOf(q.quote) <= Priced(AreaOf(market.bid_prices, circ) - AreaOf(market.bid_prices, circ - q.base))

\* A purchase never takes more than the reserve, a sale never gives back more than is in
\* circulation, and no form of swap spends more than the amount the user named: the
\* checked updates of base_reserve rely on it.
WithinSupply ==
  /\ BuyExactIn.ok => BuyExactIn.base <= market.base_reserve /\ BuyExactIn.quote <= amount
  /\ BuyExactOut.ok => BuyExactOut.base <= Min2(amount, market.base_reserve)
  /\ SellExactOut.ok => SellExactOut.base <= circ /\ SellExactOut.quote <= amount
  /\ SellExactIn.ok => SellExactIn.base = amount

\* The two ways to buy agree: naming the base amount that an exact-input purchase
\* returns costs no more than that purchase did.
ExactFormsAgree ==
  BuyExactIn.ok =>
    LET same == get_quote_amount(market, BuyExactIn.base, "ExactOutput")
    IN  same.ok => same.quote <= BuyExactIn.quote

After(base) == [market EXCEPT !.base_reserve = @ - base]

\* Splitting a swap in two never beats doing it at once.
SplitNeverBeatsWhole ==
  \A part \in 1..(amount - 1) :
    /\ BuyExactOut.ok /\ amount <= market.base_reserve =>
         get_quote_amount(market, part, "ExactOutput").quote
           + get_quote_amount(After(part), amount - part, "ExactOutput").quote >= BuyExactOut.quote
    /\ SellExactIn.ok =>
         get_quote_amount(market, part, "ExactInput").quote
           + get_quote_amount(After(-part), amount - part, "ExactInput").quote <= SellExactIn.quote

\* A quote amount paid out is never free: some base is always taken for it.
SalePaysForSomething ==
  SellExactOut.ok /\ SellExactOut.quote > 0 => SellExactOut.base > 0

\* The reserve never gets stuck: where an exact-input purchase fails because a whole
\* interval is worth more than a u64 (math/mod.rs, get_delta_base_out), naming the base amount
\* still buys, one unit at a time if need be, down to the last unit.
ReserveAlwaysForSale ==
  LET unit == get_quote_amount(market, 1, "ExactOutput")
      few == get_quote_amount(market, Min2(amount, market.base_reserve), "ExactOutput")
  IN  market.base_reserve > 0 =>
        /\ unit.ok /\ unit.base = 1
        /\ BuyExactIn.ok /\ BuyExactIn.base > 0 => unit.quote <= BuyExactIn.quote
        /\ few.ok => few.quote >= unit.quote /\ few.base = Min2(amount, market.base_reserve)
=============================================================================
