------------------------------- MODULE Curve --------------------------------
(***************************************************************************)
(* The bonding curve of a market: the pure functions of math/mod.rs and    *)
(* the pricing functions of state/market.rs.                               *)
(*                                                                         *)
(* A price curve is a function 0..INTERVAL_NUMBER -> Nat: the supply is    *)
(* cut into INTERVAL_NUMBER intervals of equal width and the price is      *)
(* linear inside each of them.  Supplies and widths are "normalised", that *)
(* is multiplied by SCALE and divided by BASE_PRECISION.                   *)
(*                                                                         *)
(* A price is quoted by a record [base, quote, ok].  ok is FALSE when the  *)
(* code stops with an error: a result that does not fit a u64 or a checked *)
(* subtraction that would go below zero.  Intermediate values are u128 or  *)
(* U256 in the code and are unbounded here: with PRICES_LENGTH prices of   *)
(* at most MAX_PRICE they exceed a u128 only where the u64 result would    *)
(* not fit either.                                                         *)
(***************************************************************************)
EXTENDS Integers, Sums

CONSTANTS
  INTERVAL_NUMBER,    \* PRICES_LENGTH - 1
  SCALE,              \* fixed-point scale of prices and normalised amounts
  BASE_PRECISION,     \* units per base token
  QUOTE_PRECISION,    \* units per quote token, 10^quote_token_decimals
  MAX_TOTAL_SUPPLY,
  MAX_PRICE,
  U64_MAX             \* largest value of a u64

\* BASE_PRECISION divides SCALE (10^6 and 10^10), so normalising loses nothing.
ASSUME CurveAssumption ==
  /\ INTERVAL_NUMBER \in Nat \ {0}
  /\ SCALE \in Nat \ {0} /\ BASE_PRECISION \in Nat \ {0} /\ QUOTE_PRECISION \in Nat \ {0}
  /\ SCALE % BASE_PRECISION = 0
  /\ MAX_TOTAL_SUPPLY \in Nat /\ MAX_PRICE \in Nat /\ U64_MAX \in Nat

U64 == 0..U64_MAX
Index == 0..INTERVAL_NUMBER
Min2(a, b) == IF a < b THEN a ELSE b

Rounding == {"Up", "Down"}

\* mul_div and div agree up to the width of their result.
DivRound(a, b, rounding) == IF rounding = "Up" THEN (a + b - 1) \div b ELSE a \div b
\* Mutant: the rounding argument is ignored.
mul_div_truncating(x, y, denominator, rounding) == (x * y) \div denominator

mul_div(x, y, denominator, rounding) == DivRound(x * y, denominator, rounding)

\* U256::root(2), the integer square root.
Root(d) == CHOOSE r \in 0..d : r * r <= d /\ d < (r + 1) * (r + 1)

Normalized(amount) == (amount * SCALE) \div BASE_PRECISION

Fail == [base |-> 0, quote |-> 0, ok |-> FALSE]
Quoted(base, quote) ==
  IF base \in U64 /\ quote \in U64 THEN [base |-> base, quote |-> quote, ok |-> TRUE] ELSE Fail

-----------------------------------------------------------------------------
(* math/mod.rs *)

\* Quote needed to move from empty to `used` inside one interval, rounded down.
current_quote(price_0, price_1, width_scaled, used) ==
  mul_div(used, (price_1 - price_0) * used + 2 * price_0 * width_scaled,
          2 * SCALE * width_scaled, "Down")

get_sqrt_discriminant(price_diff, price_0, width_scaled, quote) ==
  Root(width_scaled * price_diff * quote * 2 * SCALE + (price_0 * width_scaled) * (price_0 * width_scaled))

\* Mutant: the partial interval of a sale is rounded towards the seller.
get_delta_base_in_floor(price_0, price_1, width_scaled, interval_supply_available, remaining_quote) ==
  LET price_diff == price_1 - price_0
      all == current_quote(price_0, price_1, width_scaled, interval_supply_available)
      rl == price_0 * width_scaled + price_diff * interval_supply_available
      root == get_sqrt_discriminant(price_diff, price_0, width_scaled, all - remaining_quote)
  IN  IF remaining_quote >= all
      THEN [base |-> interval_supply_available, quote |-> all, ok |-> TRUE]
      ELSE [base |-> (rl - root) \div price_diff, quote |-> remaining_quote, ok |-> TRUE]

\* One interval of a sale: what of interval_supply_available is sold for remaining_quote.
get_delta_base_in(price_0, price_1, width_scaled, interval_supply_available, remaining_quote) ==
  LET price_diff == price_1 - price_0
      all == current_quote(price_0, price_1, width_scaled, interval_supply_available)
      rl == price_0 * width_scaled + price_diff * interval_supply_available
      root == get_sqrt_discriminant(price_diff, price_0, width_scaled, all - remaining_quote)
      part == DivRound(rl - root, price_diff, "Up")
  IN  IF remaining_quote >= all
      THEN [base |-> interval_supply_available, quote |-> all, ok |-> TRUE]
      ELSE [base |-> part, quote |-> remaining_quote, ok |-> TRUE]

\* Mutant: a full interval is handed out whole even when part of it is already sold.
get_delta_base_out_whole(price_0, price_1, width_scaled, interval_supply_already_used, remaining_quote) ==
  LET used == current_quote(price_0, price_1, width_scaled, interval_supply_already_used)
      next_quote == DivRound((price_0 + price_1) * width_scaled, 2 * SCALE, "Up")
  IN  IF remaining_quote >= next_quote - used
      THEN [base |-> width_scaled, quote |-> next_quote - used, ok |-> TRUE]
      ELSE [base |-> 0, quote |-> remaining_quote, ok |-> TRUE]

\* Mutant: the partial interval of a purchase is rounded towards the buyer.
get_delta_base_out_ceil(price_0, price_1, width_scaled, interval_supply_already_used, remaining_quote) ==
  LET price_diff == price_1 - price_0
      used == current_quote(price_0, price_1, width_scaled, interval_supply_already_used)
      max_quote == DivRound((price_0 + price_1) * width_scaled, 2 * SCALE, "Up") - used
      rr == price_0 * width_scaled + price_diff * interval_supply_already_used
      root == get_sqrt_discriminant(price_diff, price_0, width_scaled, used + remaining_quote)
  IN  IF remaining_quote >= max_quote
      THEN [base |-> width_scaled - interval_supply_already_used, quote |-> max_quote, ok |-> TRUE]
      ELSE [base |-> DivRound(root - rr, price_diff, "Up"), quote |-> remaining_quote, ok |-> TRUE]

\* One interval of a purchase: what is bought above interval_supply_already_used.
get_delta_base_out(price_0, price_1, width_scaled, interval_supply_already_used, remaining_quote) ==
  LET price_diff == price_1 - price_0
      used == current_quote(price_0, price_1, width_scaled, interval_supply_already_used)
      next_quote == DivRound((price_0 + price_1) * width_scaled, 2 * SCALE, "Up")
      max_quote == next_quote - used
      rr == price_0 * width_scaled + price_diff * interval_supply_already_used
      root == get_sqrt_discriminant(price_diff, price_0, width_scaled, used + remaining_quote)
      part == DivRound(root - rr, price_diff, "Down")
  IN  IF next_quote \notin U64 THEN Fail
      ELSE IF remaining_quote >= max_quote
      THEN [base |-> width_scaled - interval_supply_already_used, quote |-> max_quote, ok |-> TRUE]
      ELSE [base |-> part, quote |-> remaining_quote, ok |-> TRUE]

-----------------------------------------------------------------------------
(* Pricing of state/market.rs.  `m` is any record with the fields          *)
(* base_reserve, total_supply, width_scaled, bid_prices and ask_prices.    *)

circulating_supply(m) == m.total_supply - m.base_reserve

\* The part of interval k (counted from 1) that lies between the supplies from and to.
Clamp(x, w) == IF x < 0 THEN 0 ELSE Min2(x, w)
Filled(k, supply, w) == Clamp(supply - (k - 1) * w, w)

\* Price of the base amount above `supply`, one term for each interval it crosses.
get_quote_amount_with_parameters(m, supply, base_amount, swap_amount_type, rounding) ==
  LET p == IF swap_amount_type = "ExactInput" THEN m.bid_prices ELSE m.ask_prices
      w == m.width_scaled
      normalized_supply == Normalized(supply)
      end == normalized_supply + Normalized(base_amount)
      left == IF end > INTERVAL_NUMBER * w THEN end - INTERVAL_NUMBER * w ELSE 0
      delta_quote == [k \in 1..INTERVAL_NUMBER |->
        LET used == Filled(k, normalized_supply, w)
            delta_base == Filled(k, end, w) - used
        IN  mul_div(delta_base, (p[k] - p[k - 1]) * (delta_base + 2 * used) + 2 * p[k - 1] * w,
                    2 * SCALE * w, rounding)]
  IN  Quoted(base_amount - DivRound(left * BASE_PRECISION, SCALE, rounding),
             DivRound(SumTo(delta_quote, INTERVAL_NUMBER) * QUOTE_PRECISION, SCALE, rounding))

\* Mutant: the price of the whole interval is narrowed first, as in get_delta_base_out.
get_quote_amount_by_interval(m, base_amount, swap_amount_type) ==
  LET circulating == circulating_supply(m)
      i == Normalized(circulating) \div m.width_scaled + 1
      fits == DivRound((m.ask_prices[i - 1] + m.ask_prices[i]) * m.width_scaled, 2 * SCALE, "Up") \in U64
  IN  CASE swap_amount_type = "ExactOutput" /\ (i > INTERVAL_NUMBER \/ fits) ->
             get_quote_amount_with_parameters(m, circulating, base_amount, swap_amount_type, "Up")
        [] swap_amount_type = "ExactInput" /\ base_amount <= circulating ->
             get_quote_amount_with_parameters(m, circulating - base_amount, base_amount, swap_amount_type, "Down")
        [] OTHER -> Fail

get_quote_amount(m, base_amount, swap_amount_type) ==
  LET circulating == circulating_supply(m) IN
  CASE swap_amount_type = "ExactOutput" ->
         get_quote_amount_with_parameters(m, circulating, base_amount, swap_amount_type, "Up")
    [] swap_amount_type = "ExactInput" /\ base_amount <= circulating ->
         get_quote_amount_with_parameters(m, circulating - base_amount, base_amount, swap_amount_type, "Down")
    [] OTHER -> Fail

\* A loop over the intervals starts with the whole quote amount left.
WalkStart(normalized_quote) == [base |-> 0, left |-> normalized_quote, ok |-> TRUE]

\* One round of the loop of get_base_amount_in, in interval i: it goes on while quote is left.
SellInterval(m, s, i) ==
  LET w == m.width_scaled
      d == get_delta_base_in(m.bid_prices[i - 1], m.bid_prices[i], w,
                             Filled(i, Normalized(circulating_supply(m)), w), s.left)
  IN  IF i < 1 \/ s.left = 0 THEN s
      ELSE [base |-> s.base + d.base, left |-> s.left - d.quote, ok |-> s.ok /\ d.ok]

\* One round of the loop of get_base_amount_out, which starts in the current interval.
BuyInterval(m, s, i) ==
  LET w == m.width_scaled
      supply == Normalized(circulating_supply(m))
      d == get_delta_base_out(m.ask_prices[i - 1], m.ask_prices[i], w, Filled(i, supply, w), s.left)
  IN  IF i <= supply \div w \/ s.left = 0 THEN s
      ELSE [base |-> s.base + d.base, left |-> s.left - d.quote, ok |-> s.ok /\ d.ok]

\* The interval of the last token sold, where the walk down starts.
TopInterval(m) == (Normalized(circulating_supply(m)) + m.width_scaled - 1) \div m.width_scaled

\* The states of both loops after each round: down from the top interval, and up.
PassesDown(m, normalized_quote) ==
  LET pass[j \in Index] == IF j = 0 THEN WalkStart(normalized_quote)
                           ELSE SellInterval(m, pass[j - 1], TopInterval(m) - j + 1)
  IN  pass

PassesUp(m, normalized_quote) ==
  LET pass[i \in Index] == IF i = 0 THEN WalkStart(normalized_quote)
                           ELSE BuyInterval(m, pass[i - 1], i)
  IN  pass

WalkDown(m, normalized_quote) == PassesDown(m, normalized_quote)[INTERVAL_NUMBER]
WalkUp(m, normalized_quote) == PassesUp(m, normalized_quote)[INTERVAL_NUMBER]

\* Both directions convert the result of their loop back to token units.
SwapForQuote(walk, quote_amount, rounding) ==
  IF walk.ok
  THEN Quoted(DivRound(walk.base * BASE_PRECISION, SCALE, rounding),
              quote_amount - DivRound(walk.left * QUOTE_PRECISION, SCALE, rounding))
  ELSE Fail

NormalizedQuote(quote_amount) == (quote_amount * SCALE) \div QUOTE_PRECISION

\* Mutant: the base taken for a sale is rounded down.
get_base_amount_in_down(m, quote_amount) ==
  SwapForQuote(WalkDown(m, NormalizedQuote(quote_amount)), quote_amount, "Down")

get_base_amount_in(m, quote_amount) ==
  SwapForQuote(WalkDown(m, NormalizedQuote(quote_amount)), quote_amount, "Up")

get_base_amount_out(m, quote_amount) ==
  SwapForQuote(WalkUp(m, NormalizedQuote(quote_amount)), quote_amount, "Down")
=============================================================================
