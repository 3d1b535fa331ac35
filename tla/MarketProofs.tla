---------------------------- MODULE MarketProofs ----------------------------
(***************************************************************************)
(* Proofs about a market: types, the split of its fees, the conservation   *)
(* of both tokens, and the value that backs the circulating tokens, for    *)
(* every price curve, every number of users and every history.  Types and  *)
(* conservation use of the pricing functions only that a successful quote  *)
(* consists of two u64; the backing rests on CurveProofs.                  *)
(***************************************************************************)
EXTENDS Market, CurveProofs

\* The shares stored in a market are part of the whole: they were at its creation, and
\* changing them preserves their sum.
SharesFit == market.creator_fee_share + market.staking_fee_share <= MAX_BPS

TypeInv == TypeOK /\ SharesFit

-----------------------------------------------------------------------------
(* Quotes. *)

IsQuote(q) == q.ok \in BOOLEAN /\ q.base \in U64 /\ q.quote \in U64

LEMMA QuotedType ==
  ASSUME NEW base, NEW quote
  PROVE  IsQuote(Quoted(base, quote)) /\ IsQuote(Fail)
BY CurveAssumption DEF Quoted, IsQuote, Fail, U64

\* Whatever is asked of the four pricing paths, a quote consists of two u64.
LEMMA QuoteType ==
  ASSUME NEW m, NEW amount, NEW type, NEW supply, NEW rounding
  PROVE  /\ IsQuote(get_base_amount_in(m, amount))
         /\ IsQuote(get_base_amount_out(m, amount))
         /\ IsQuote(get_quote_amount_with_parameters(m, supply, amount, type, rounding))
         /\ IsQuote(get_quote_amount(m, amount, type))
<1>1. \A walk, q, r : IsQuote(SwapForQuote(walk, q, r))
  BY QuotedType DEF SwapForQuote
<1>2. IsQuote(get_base_amount_in(m, amount)) /\ IsQuote(get_base_amount_out(m, amount))
  BY <1>1 DEF get_base_amount_in, get_base_amount_out
<1>3. \A s, a, t, r : IsQuote(get_quote_amount_with_parameters(m, s, a, t, r))
  BY QuotedType, Zenon DEF get_quote_amount_with_parameters
<1>4. IsQuote(get_quote_amount(m, amount, type))
  BY <1>3, QuotedType DEF get_quote_amount
<1> QED
  BY <1>2, <1>3, <1>4

\* What a swap does with the amounts: the fee is part of the quote paid, and the reserve
\* changes by the base amount.
LEMMA SwapAmounts ==
  ASSUME NEW m, NEW swap_type \in {"Buy", "Sell"}, NEW swap_amount_type, NEW amount,
         m.base_reserve \in Int
  PROVE  LET s == swap_amounts(m, swap_type, swap_amount_type, amount) IN
         /\ s.base \in U64 /\ s.quote \in U64 /\ s.swap_fee \in 0..s.quote
         /\ swap_type = "Buy" => s.base_reserve = m.base_reserve - s.base
         /\ swap_type = "Sell" => s.base_reserve = m.base_reserve + s.base /\ s.swap_fee = 0
<1> DEFINE q == CASE swap_type = "Buy" /\ swap_amount_type = "ExactInput" -> get_base_amount_out(m, amount)
                  [] swap_type = "Sell" /\ swap_amount_type = "ExactOutput" -> get_base_amount_in(m, amount)
                  [] OTHER -> get_quote_amount(m, amount, swap_amount_type)
           buyback == get_quote_amount_with_parameters(m, circulating_supply(m), q.base, "ExactInput", "Up")
           s == swap_amounts(m, swap_type, swap_amount_type, amount)
<1>1. IsQuote(q)
  BY QuoteType
<1>2. IsQuote(buyback)
  <2> HIDE DEF q
  <2> QED BY QuoteType
<1>3. s = IF swap_type = "Buy"
          THEN [base |-> q.base, quote |-> q.quote, ok |-> q.ok /\ buyback.ok,
                swap_fee |-> IF q.quote > buyback.quote THEN q.quote - buyback.quote ELSE 0,
                base_reserve |-> m.base_reserve - q.base]
          ELSE [base |-> q.base, quote |-> q.quote, ok |-> q.ok,
                swap_fee |-> 0, base_reserve |-> m.base_reserve + q.base]
  BY DEF swap_amounts
<1> HIDE DEF q, buyback, s
<1>4. /\ s.base \in U64 /\ s.quote \in U64 /\ s.swap_fee \in 0..s.quote
      /\ swap_type = "Buy" => s.base_reserve = m.base_reserve - s.base
      /\ swap_type = "Sell" => s.base_reserve = m.base_reserve + s.base /\ s.swap_fee = 0
  BY <1>1, <1>2, <1>3, CurveAssumption DEF IsQuote, U64
<1> QED
  BY <1>4 DEF s

-----------------------------------------------------------------------------
(* The split of a fee. *)

\* A portion of a fee is a part of it, and two portions fit together when their shares do.
LEMMA PortionsFit ==
  ASSUME NEW fee \in Nat, NEW a \in Nat, NEW b \in Nat, a + b <= MAX_BPS
  PROVE  Portion(fee, a) \in Nat /\ Portion(fee, b) \in Nat /\ Portion(fee, a) + Portion(fee, b) <= fee
<1>1. MAX_BPS \in Nat \ {0}
  BY MarketAssumption
<1> DEFINE fa == fee * a
           fb == fee * b
           x == fa \div MAX_BPS
           y == fb \div MAX_BPS
<1>2. fa \in Nat /\ fb \in Nat /\ fa + fb <= fee * MAX_BPS
  <2>1. fa + fb = fee * (a + b)
    OBVIOUS
  <2>2. fee * (a + b) <= fee * MAX_BPS
    <3> DEFINE c == a + b
    <3>1. c \in Nat /\ c <= MAX_BPS
      OBVIOUS
    <3> HIDE DEF c
    <3>2. fee * c <= fee * MAX_BPS
      BY <3>1, <1>1
    <3> QED
      BY <3>2 DEF c
  <2> QED
    BY <2>1, <2>2
<1>3. x \in Nat /\ y \in Nat /\ x * MAX_BPS <= fa /\ y * MAX_BPS <= fb
  <2> HIDE DEF fa, fb
  <2> QED
    BY <1>1, <1>2
<1> HIDE DEF fa, fb
<1>4. Portion(fee, a) = x /\ Portion(fee, b) = y
  BY DEF Portion, fa, fb
<1> HIDE DEF x, y
<1>5. (x + y) * MAX_BPS <= fee * MAX_BPS
  BY <1>1, <1>2, <1>3
<1>6. x + y <= fee
  <2> DEFINE z == x + y
  <2>1. z \in Nat /\ z * MAX_BPS <= fee * MAX_BPS
    BY <1>3, <1>5
  <2> HIDE DEF z
  <2>2. z <= fee
    BY <1>1, <2>1
  <2> QED
    BY <2>2 DEF z
<1> QED
  BY <1>3, <1>4, <1>6

\* The four parts of a fee are natural numbers and add up to it.
LEMMA FeeParts ==
  ASSUME NEW m, m.creator_fee_share \in Nat, m.staking_fee_share \in Nat,
         m.creator_fee_share + m.staking_fee_share <= MAX_BPS,
         NEW swap_fee \in Nat, NEW referral_fee_share \in Shares
  PROVE  LET fee == distribute_fee(m, swap_fee, referral_fee_share) IN
         /\ fee.creator \in Nat /\ fee.staking \in Nat /\ fee.referral \in Nat /\ fee.protocol \in Nat
         /\ fee.creator + fee.staking + fee.referral + fee.protocol = swap_fee
         /\ referral_fee_share = 0 => fee.referral = 0
<1> DEFINE creator_fee == Portion(swap_fee, m.creator_fee_share)
           staking_fee == Portion(swap_fee, m.staking_fee_share)
           remaining_fee == swap_fee - creator_fee - staking_fee
           referral_fee == Portion(remaining_fee, referral_fee_share)
<1>1. creator_fee \in Nat /\ staking_fee \in Nat /\ remaining_fee \in Nat
  <2>1. creator_fee \in Nat /\ staking_fee \in Nat /\ creator_fee + staking_fee <= swap_fee
    BY PortionsFit
  <2> QED
    BY <2>1
<1>2. referral_fee \in Nat /\ referral_fee <= remaining_fee
  <2> HIDE DEF remaining_fee
  <2>1. referral_fee_share \in Nat /\ 0 \in Nat /\ referral_fee_share + 0 <= MAX_BPS
    BY MarketAssumption DEF Shares
  <2>2. /\ Portion(remaining_fee, referral_fee_share) \in Nat /\ Portion(remaining_fee, 0) \in Nat
        /\ Portion(remaining_fee, referral_fee_share) + Portion(remaining_fee, 0) <= remaining_fee
    BY <1>1, <2>1, PortionsFit
  <2> QED
    BY <1>1, <2>2
<1>3. distribute_fee(m, swap_fee, referral_fee_share)
        = [creator |-> creator_fee, staking |-> staking_fee,
           referral |-> referral_fee, protocol |-> remaining_fee - referral_fee]
  BY DEF distribute_fee
<1>4. referral_fee_share = 0 => referral_fee = 0
  <2> HIDE DEF remaining_fee
  <2>1. remaining_fee * 0 = 0 /\ 0 \div MAX_BPS = 0
    BY <1>1, MarketAssumption
  <2> QED
    BY <2>1 DEF Portion
<1> HIDE DEF creator_fee, staking_fee, referral_fee
<1> QED
  BY <1>1, <1>2, <1>3, <1>4

-----------------------------------------------------------------------------
(* Balances. *)

\* Crediting a user changes the sum of all balances by the amount credited.
LEMMA CreditSum ==
  ASSUME NEW balances \in [Users -> Int], NEW user \in Users, NEW amount \in Int
  PROVE  /\ Credit(balances, user, amount) \in [Users -> Int]
         /\ SumTo(Credit(balances, user, amount), N) = SumTo(balances, N) + amount
<1> DEFINE new == Credit(balances, user, amount)
<1>1. N \in Nat
  BY MarketAssumption
<1>2. /\ new \in [Users -> Int] /\ new[user] = balances[user] + amount
      /\ \A u \in Users : u # user => new[u] = balances[u]
  BY DEF Credit
<1> HIDE DEF new
<1>3. SumTo(new, N) = SumTo(balances, N) + (new[user] - balances[user])
  BY <1>1, <1>2, SumUpdate, Zenon DEF Users
<1>4. SumTo(balances, N) \in Int /\ balances[user] \in Int
  BY <1>1, SumInt DEF Users
<1>5. SumTo(new, N) = SumTo(balances, N) + amount
  BY <1>2, <1>3, <1>4
<1> QED
  BY <1>2, <1>5 DEF new

\* A balance that stays above zero stays a natural number.
LEMMA CreditNat ==
  ASSUME NEW balances \in [Users -> Nat], NEW user \in Users, NEW amount \in Int,
         balances[user] + amount >= 0
  PROVE  /\ Credit(balances, user, amount) \in [Users -> Nat]
         /\ SumTo(Credit(balances, user, amount), N) = SumTo(balances, N) + amount
<1>1. balances \in [Users -> Int]
  OBVIOUS
<1>2. Credit(balances, user, amount) \in [Users -> Nat]
  BY DEF Credit
<1> QED
  BY <1>1, <1>2, CreditSum

\* The transfers of a swap hand out the user's leg and the two fees that are paid at once,
\* to whichever accounts these are.
LEMMA SettleSum ==
  ASSUME TypeOK, NEW user \in Users, NEW user_delta \in Int, user_quote[user] + user_delta >= 0,
         NEW referral \in Users \cup {NoReferral}, NEW fee,
         fee.protocol \in Nat, fee.referral \in Nat, referral = NoReferral => fee.referral = 0
  PROVE  /\ Settle(user, user_delta, fee, referral) \in [Users -> Nat]
         /\ SumTo(Settle(user, user_delta, fee, referral), N)
              = SumTo(user_quote, N) + user_delta + fee.protocol + fee.referral
<1> DEFINE traded == Credit(user_quote, user, user_delta)
           recipient == config.protocol_fee_recipient
           settled == Credit(traded, recipient, fee.protocol)
           total == Credit(settled, referral, fee.referral)
<1>1. N \in Nat /\ user_quote \in [Users -> Nat] /\ recipient \in Users
  BY MarketAssumption DEF TypeOK
<1>2. SumTo(user_quote, N) \in Int
  BY <1>1, SumInt DEF Users
<1>3. traded \in [Users -> Nat] /\ SumTo(traded, N) = SumTo(user_quote, N) + user_delta
  BY <1>1, CreditNat
<1> HIDE DEF traded, recipient
<1>4. settled \in [Users -> Nat] /\ SumTo(settled, N) = SumTo(traded, N) + fee.protocol
  <2>1. traded[recipient] + fee.protocol >= 0
    BY <1>1, <1>3
  <2> QED
    BY <1>1, <1>3, <2>1, CreditNat
<1>5. Settle(user, user_delta, fee, referral) = IF referral = NoReferral THEN settled ELSE total
  BY DEF Settle, traded, recipient
<1> HIDE DEF settled
<1>6. CASE referral = NoReferral
  BY <1>2, <1>3, <1>4, <1>5, <1>6
<1>7. CASE referral # NoReferral
  <2>1. settled[referral] + fee.referral >= 0
    BY <1>4, <1>7
  <2>2. total \in [Users -> Nat] /\ SumTo(total, N) = SumTo(settled, N) + fee.referral
    BY <1>4, <1>7, <2>1, CreditNat
  <2> HIDE DEF total
  <2> QED
    BY <1>2, <1>3, <1>4, <1>5, <1>7, <2>2
<1> QED
  BY <1>6, <1>7

-----------------------------------------------------------------------------
(* One swap. *)

\* What a swap changes: tokens only move between the market and the accounts of users, the
\* reserve moves with the market's base balance, and the fee pots grow.
SwapMoves ==
  /\ \E creator_fee, staking_fee \in Nat :
       /\ market.pending_creator_fees + creator_fee \in U64
       /\ market.pending_staking_fees + staking_fee \in U64
       /\ market' = [market EXCEPT !.base_reserve = market.base_reserve + market_base' - market_base,
                                   !.pending_creator_fees = @ + creator_fee,
                                   !.pending_staking_fees = @ + staking_fee]
  /\ market'.base_reserve \in U64
  /\ market_base' \in Nat /\ market_quote' \in Nat
  /\ user_base' \in [Users -> Nat] /\ user_quote' \in [Users -> Nat]
  /\ SumTo(user_base', N) + market_base' = SumTo(user_base, N) + market_base
  /\ SumTo(user_quote', N) + market_quote' = SumTo(user_quote, N) + market_quote
  /\ UNCHANGED <<config, unpriced>>

LEMMA SwapEffect ==
  ASSUME TypeInv, NEW user \in Users, NEW swap_type \in {"Buy", "Sell"}, NEW swap_amount_type,
         NEW amount, NEW threshold, NEW referral \in Users \cup {NoReferral},
         swap(user, swap_type, swap_amount_type,
              swap_amounts(market, swap_type, swap_amount_type, amount), threshold, referral)
  PROVE  SwapMoves
<1> DEFINE s == swap_amounts(market, swap_type, swap_amount_type, amount)
           share == IF referral = NoReferral THEN 0 ELSE config.referral_fee_share
           fee == distribute_fee(market, s.swap_fee, share)
           base_delta == IF swap_type = "Buy" THEN s.base ELSE -s.base
           quote_delta == IF swap_type = "Buy" THEN -s.quote ELSE s.quote
           quote_left == market_quote - quote_delta - fee.protocol - fee.referral
<1>1. /\ market.base_reserve \in Int /\ N \in Nat
      /\ market_base \in Nat /\ market_quote \in Nat
      /\ user_base \in [Users -> Nat] /\ user_quote \in [Users -> Nat]
      /\ market.creator_fee_share \in Nat /\ market.staking_fee_share \in Nat
      /\ market.creator_fee_share + market.staking_fee_share <= MAX_BPS
      /\ market.pending_creator_fees \in U64 /\ market.pending_staking_fees \in U64
  BY MarketAssumption DEF TypeInv, TypeOK, SharesFit, Shares
<1>2. /\ s.base \in U64 /\ s.quote \in U64 /\ s.swap_fee \in 0..s.quote
      /\ swap_type = "Buy" => s.base_reserve = market.base_reserve - s.base
      /\ swap_type = "Sell" => s.base_reserve = market.base_reserve + s.base /\ s.swap_fee = 0
  BY <1>1, SwapAmounts
<1>3. share \in Shares /\ (referral = NoReferral => share = 0)
  BY MarketAssumption DEF TypeInv, TypeOK, Shares
<1>4. /\ s.base_reserve \in U64
      /\ market.pending_creator_fees + fee.creator <= U64_MAX
      /\ market.pending_staking_fees + fee.staking <= U64_MAX
      /\ swap_type = "Buy" => s.quote <= user_quote[user]
      /\ swap_type = "Sell" => s.base <= user_base[user]
      /\ market_base - base_delta >= 0 /\ quote_left >= 0
      /\ market' = [market EXCEPT !.base_reserve = s.base_reserve,
                                  !.pending_creator_fees = @ + fee.creator,
                                  !.pending_staking_fees = @ + fee.staking]
      /\ market_base' = market_base - base_delta
      /\ market_quote' = quote_left
      /\ user_base' = Credit(user_base, user, base_delta)
      /\ user_quote' = Settle(user, quote_delta, fee, referral)
      /\ UNCHANGED <<config, unpriced>>
  BY DEF swap
<1> HIDE DEF s, share
<1>5. /\ fee.creator \in Nat /\ fee.staking \in Nat /\ fee.referral \in Nat /\ fee.protocol \in Nat
      /\ share = 0 => fee.referral = 0
  <2>1. s.swap_fee \in Nat
    BY <1>2, CurveAssumption DEF U64
  <2> QED
    BY <1>1, <1>3, <2>1, FeeParts
<1> HIDE DEF fee
<1>6. /\ base_delta \in Int /\ quote_delta \in Int
      /\ user_base[user] + base_delta >= 0 /\ user_quote[user] + quote_delta >= 0
      /\ s.base_reserve = market.base_reserve - base_delta
  BY <1>1, <1>2, <1>4, CurveAssumption DEF U64
<1> HIDE DEF base_delta, quote_delta
<1>7. user_base' \in [Users -> Nat] /\ SumTo(user_base', N) = SumTo(user_base, N) + base_delta
  BY <1>1, <1>4, <1>6, CreditNat
<1>8. /\ user_quote' \in [Users -> Nat]
      /\ SumTo(user_quote', N) = SumTo(user_quote, N) + quote_delta + fee.protocol + fee.referral
  <2>1. TypeOK /\ (referral = NoReferral => fee.referral = 0)
    BY <1>3, <1>5 DEF TypeInv
  <2>2. /\ Settle(user, quote_delta, fee, referral) \in [Users -> Nat]
        /\ SumTo(Settle(user, quote_delta, fee, referral), N)
             = SumTo(user_quote, N) + quote_delta + fee.protocol + fee.referral
    BY <1>5, <1>6, <2>1, SettleSum
  <2> QED
    BY <1>4, <2>2
<1>9. SumTo(user_base, N) \in Int /\ SumTo(user_quote, N) \in Int
  BY <1>1, SumInt DEF Users
<1>10. /\ market_base' \in Nat /\ market_quote' \in Nat
       /\ SumTo(user_base', N) + market_base' = SumTo(user_base, N) + market_base
       /\ SumTo(user_quote', N) + market_quote' = SumTo(user_quote, N) + market_quote
  BY <1>1, <1>4, <1>5, <1>6, <1>7, <1>8, <1>9
<1>11. /\ market.pending_creator_fees + fee.creator \in U64
       /\ market.pending_staking_fees + fee.staking \in U64
  BY <1>1, <1>4, <1>5, CurveAssumption DEF U64
<1>12. s.base_reserve = market.base_reserve + market_base' - market_base
  BY <1>1, <1>4, <1>6
<1>13. market'.base_reserve \in U64
  BY <1>4 DEF TypeInv, TypeOK
<1> QED
  BY <1>4, <1>5, <1>7, <1>8, <1>10, <1>11, <1>12, <1>13 DEF SwapMoves

\* Every swap of the next-state relation.
LEMMA SwapMovesTokens ==
  ASSUME TypeInv, Swap
  PROVE  SwapMoves /\ Initialized
<1>1. PICK swap_type \in {"Buy", "Sell"}, swap_amount_type \in {"ExactInput", "ExactOutput"},
           amount \in Amounts \ {0}, user \in Traders, threshold \in Thresholds,
           referral \in Users \cup {NoReferral} :
        /\ Initialized
        /\ swap(user, swap_type, swap_amount_type,
                swap_amounts(market, swap_type, swap_amount_type, amount), threshold, referral)
  BY DEF Swap
<1>2. user \in Users
  BY MarketAssumption DEF Users
<1> QED
  BY <1>1, <1>2, SwapEffect

-----------------------------------------------------------------------------
(* Types. *)

\* The type of the remembered supply rests on the conservation of base tokens: the supply
\* outside the reserve is what the users hold.
Inv == TypeInv /\ BaseConserved

LEMMA CirculatingHeld ==
  ASSUME Inv
  PROVE  circulating_supply(market) = SumTo(user_base, N) /\ circulating_supply(market) \in Nat
<1>1. N \in Nat /\ user_base \in [1..N -> Nat] /\ market.total_supply \in Nat /\ market_base \in Nat
  BY MarketAssumption DEF Inv, TypeInv, TypeOK, Users
<1>2. SumTo(user_base, N) \in Nat
  BY <1>1, SumNat
<1> QED
  BY <1>1, <1>2 DEF Inv, BaseConserved, circulating_supply

\* What most steps need of it: the supply covers the reserve.
SupplyInv == TypeInv /\ market.base_reserve <= market.total_supply

LEMMA SupplyHeld == Inv => SupplyInv
BY CirculatingHeld DEF Inv, SupplyInv, TypeInv, TypeOK, circulating_supply

LEMMA SupplyCirculates == SupplyInv => circulating_supply(market) \in 0..market.total_supply
BY DEF SupplyInv, TypeInv, TypeOK, circulating_supply

LEMMA InitType == Init => TypeInv
<1> SUFFICES ASSUME Init PROVE TypeInv
  OBVIOUS
<1>1. Zero \in [Index -> Nat] /\ 1 \in Users /\ 0 \in Shares /\ 0 \in U64
  BY CurveAssumption, MarketAssumption DEF Zero, Users, Shares, U64
<1>2. market \in [creator : Users, base_reserve : Nat, total_supply : Nat, width_scaled : Nat,
                  bid_prices : [Index -> Nat], ask_prices : [Index -> Nat],
                  creator_fee_share : Shares, staking_fee_share : Shares,
                  pending_creator_fees : U64, pending_staking_fees : U64]
  BY <1>1 DEF Init, Uninitialized
<1>3. Recipients \subseteq Users
  BY MarketAssumption DEF Users
<1>4. config \in [default_protocol_fee_share : Shares, referral_fee_share : Shares,
                  protocol_fee_recipient : Users]
  BY <1>3 DEF Init
<1>5. /\ market_base \in Nat /\ market_quote \in Nat /\ unpriced \in Nat
      /\ user_base \in [Users -> Nat] /\ user_quote \in [Users -> Nat]
  BY MarketAssumption DEF Init
<1>6. SharesFit
  BY MarketAssumption DEF Init, Uninitialized, SharesFit
<1> QED
  BY <1>2, <1>4, <1>5, <1>6 DEF TypeInv, TypeOK

LEMMA StepType == SupplyInv /\ [Next]_vars => TypeInv'
<1> SUFFICES ASSUME SupplyInv, [Next]_vars PROVE TypeInv'
  OBVIOUS
<1>1. /\ TypeInv /\ TypeOK /\ SharesFit /\ MAX_BPS \in Nat
      /\ market.creator_fee_share \in Nat /\ market.staking_fee_share \in Nat
  BY MarketAssumption DEF SupplyInv, TypeInv, TypeOK, Shares
<1>2. CASE Creation
  <2>1. PICK creator \in Users, supply \in Supplies, c \in Shares, s \in Shares :
          create_market(creator, supply, c, s)
    BY <1>2 DEF Creation
  <2>2. supply \in Nat
    BY MarketAssumption
  <2>3. Normalized(supply \div INTERVAL_NUMBER) \in Nat
    <3> DEFINE width == supply \div INTERVAL_NUMBER
               scaled == width * SCALE
    <3>1. width \in Nat
      BY <2>2, CurveAssumption
    <3> HIDE DEF width
    <3>2. scaled \in Nat
      BY <3>1, CurveAssumption
    <3> HIDE DEF scaled
    <3>3. scaled \div BASE_PRECISION \in Nat
      BY <3>2, CurveAssumption
    <3> QED
      BY <3>3 DEF Normalized, scaled, width
  <2>4. TypeOK'
    BY <1>1, <2>1, <2>2, <2>3 DEF create_market, TypeOK
  <2>5. SharesFit'
    <3>1. config.default_protocol_fee_share \in Nat
      BY <1>1 DEF TypeOK, Shares
    <3>2. c + s + config.default_protocol_fee_share = MAX_BPS /\ c \in Nat /\ s \in Nat
      BY <2>1 DEF create_market, Shares
    <3>3. market'.creator_fee_share = c /\ market'.staking_fee_share = s
      BY <1>1, <2>1 DEF create_market, TypeOK
    <3> QED
      BY <1>1, <3>1, <3>2, <3>3 DEF SharesFit
  <2> QED
    BY <2>4, <2>5 DEF TypeInv
<1>3. CASE Pricing
  <2>1. PICK user \in Users, c \in PriceCurves : set_market_prices(user, c.bid_prices, c.ask_prices)
    BY <1>3 DEF Pricing
  <2>2. c.bid_prices \in [Index -> Nat] /\ c.ask_prices \in [Index -> Nat]
    BY MarketAssumption
  <2>3. unpriced' \in Nat
    BY <1>1, <2>1, SupplyCirculates DEF set_market_prices, TypeOK
  <2>4. TypeOK' /\ SharesFit'
    BY <1>1, <2>1, <2>2, <2>3 DEF set_market_prices, TypeOK, SharesFit
  <2> QED
    BY <2>4 DEF TypeInv
<1>4. CASE Swap
  <2>1. SwapMoves
    BY <1>1, <1>4, SwapMovesTokens
  <2>2. market'.base_reserve \in Nat
    BY <2>1, CurveAssumption DEF SwapMoves, U64
  <2>3. market' \in [creator : Users, base_reserve : Nat, total_supply : Nat, width_scaled : Nat,
                     bid_prices : [Index -> Nat], ask_prices : [Index -> Nat],
                     creator_fee_share : Shares, staking_fee_share : Shares,
                     pending_creator_fees : U64, pending_staking_fees : U64]
    BY <1>1, <2>1, <2>2 DEF SwapMoves, TypeOK
  <2>4. TypeOK' /\ SharesFit'
    BY <1>1, <2>1, <2>3 DEF SwapMoves, TypeOK, SharesFit
  <2> QED
    BY <2>4 DEF TypeInv
<1>5. CASE Claim
  <2>1. PICK user \in Users : claim_creator_fees(user)
    BY <1>5 DEF Claim
  <2>2. market.pending_creator_fees \in Nat /\ 0 \in U64
    BY <1>1, CurveAssumption DEF TypeOK, U64
  <2>3. user_quote' \in [Users -> Nat] /\ market_quote' \in Nat
    BY <1>1, <2>1, <2>2 DEF claim_creator_fees, Credit, TypeOK
  <2>4. TypeOK' /\ SharesFit'
    BY <1>1, <2>1, <2>2, <2>3 DEF claim_creator_fees, TypeOK, SharesFit
  <2> QED
    BY <2>4 DEF TypeInv
<1>6. CASE Handover
  <2>1. TypeOK' /\ SharesFit'
    BY <1>1, <1>6 DEF Handover, update_creator, TypeOK, SharesFit
  <2> QED
    BY <2>1 DEF TypeInv
<1>7. CASE Reshare
  <2>1. PICK user \in Users, c \in Shares, s \in Shares : update_market_fee_shares(user, c, s)
    BY <1>7 DEF Reshare
  <2>2. market'.creator_fee_share = c /\ market'.staking_fee_share = s
    BY <1>1, <2>1 DEF update_market_fee_shares, TypeOK
  <2>3. TypeOK'
    BY <1>1, <2>1 DEF update_market_fee_shares, TypeOK
  <2>4. SharesFit'
    BY <1>1, <2>1, <2>2 DEF update_market_fee_shares, SharesFit
  <2> QED
    BY <2>3, <2>4 DEF TypeInv
<1>8. CASE Administration
  <2>1. Recipients \subseteq Users /\ FeeShares \subseteq Nat
    BY MarketAssumption DEF Users
  <2>2. TypeOK'
    <3>1. ASSUME NEW p \in FeeShares, NEW r \in FeeShares, update_default_fee_shares(p, r)
          PROVE  TypeOK'
      <4>1. p \in Shares /\ r \in Shares
        BY <1>1, <2>1, <3>1 DEF update_default_fee_shares, Shares
      <4> QED
        BY <1>1, <3>1, <4>1 DEF update_default_fee_shares, TypeOK
    <3>2. ASSUME NEW recipient \in Recipients, update_protocol_fee_recipient(recipient)
          PROVE  TypeOK'
      BY <1>1, <2>1, <3>2 DEF update_protocol_fee_recipient, TypeOK
    <3> QED
      BY <1>8, <3>1, <3>2 DEF Administration
  <2>3. SharesFit'
    BY <1>1, <1>8
       DEF Administration, update_default_fee_shares, update_protocol_fee_recipient, SharesFit
  <2> QED
    BY <2>2, <2>3 DEF TypeInv
<1>9. CASE UNCHANGED vars
  BY <1>1, <1>9 DEF vars, TypeInv, TypeOK, SharesFit
<1> QED
  BY <1>2, <1>3, <1>4, <1>5, <1>6, <1>7, <1>8, <1>9 DEF Next

-----------------------------------------------------------------------------
(* Conservation of base tokens. *)

LEMMA InitBase == Init => BaseConserved
<1> SUFFICES ASSUME Init PROVE BaseConserved
  OBVIOUS
<1>1. N \in Nat /\ user_base \in [1..N -> Int] /\ \A u \in 1..N : user_base[u] = 0
  BY MarketAssumption DEF Init, Users
<1>2. SumTo(user_base, N) = N * 0
  BY <1>1, SumConstant
<1> QED
  BY <1>1, <1>2 DEF Init, Uninitialized, BaseConserved

\* Every token is in some account of a user or of the market.
TokensHeld == SumTo(user_base, N) + market_base = market.total_supply

\* What the market holds besides the reserve; nothing, unless tokens are staked.
Vault == market_base - market.base_reserve

\* The market moves base tokens only between users and reserve.
LEMMA StepTokens ==
  ASSUME SupplyInv, TokensHeld, [Next]_vars
  PROVE  TokensHeld' /\ Vault' = Vault
<1>1. TypeInv /\ TypeOK /\ market.base_reserve \in Nat /\ market_base \in Nat
  BY DEF SupplyInv, TypeInv, TypeOK
<1>2. CASE Creation
  <2>1. PICK creator \in Users, supply \in Supplies, c \in Shares, s \in Shares :
          create_market(creator, supply, c, s)
    BY <1>2 DEF Creation
  <2>2. market.total_supply = 0 /\ supply \in Nat
    BY <1>1, <2>1, MarketAssumption DEF create_market, Initialized, TypeOK
  <2>3. SumTo(user_base, N) = 0 /\ market_base = 0 /\ market.base_reserve = 0
    <3>1. N \in Nat /\ user_base \in [1..N -> Nat]
      BY <1>1, MarketAssumption DEF TypeOK, Users
    <3>2. SumTo(user_base, N) \in Nat
      BY <3>1, SumNat
    <3>3. market.base_reserve <= 0 /\ SumTo(user_base, N) + market_base = 0
      BY <2>2 DEF TokensHeld, SupplyInv
    <3> DEFINE held == SumTo(user_base, N)
               base == market_base
               reserve == market.base_reserve
    <3>4. held \in Nat /\ base \in Nat /\ reserve \in Nat /\ reserve <= 0 /\ held + base = 0
      BY <1>1, <3>2, <3>3
    <3> HIDE DEF held, base, reserve
    <3>5. held = 0 /\ base = 0 /\ reserve = 0
      BY <3>4
    <3> QED
      BY <3>5 DEF held, base, reserve
  <2>4. /\ market'.base_reserve = supply /\ market'.total_supply = supply
        /\ market_base' = supply /\ user_base' = user_base
    BY <1>1, <2>1 DEF create_market, TypeOK
  <2> QED
    BY <2>2, <2>3, <2>4 DEF TokensHeld, Vault
<1>3. CASE Swap
  <2>1. SwapMoves
    BY <1>1, <1>3, SwapMovesTokens
  <2>2. /\ market'.total_supply = market.total_supply
        /\ market'.base_reserve = market.base_reserve + market_base' - market_base
    BY <1>1, <2>1 DEF SwapMoves, TypeOK
  <2>3. market_base' \in Nat
    BY <2>1 DEF SwapMoves
  <2>4. TokensHeld'
    BY <2>1, <2>2 DEF SwapMoves, TokensHeld
  <2> QED
    BY <1>1, <2>2, <2>3, <2>4 DEF Vault
<1>4. CASE Pricing \/ Claim \/ Handover \/ Reshare \/ Administration \/ UNCHANGED vars
  <2>1. /\ user_base' = user_base /\ market_base' = market_base
        /\ market'.base_reserve = market.base_reserve /\ market'.total_supply = market.total_supply
    BY <1>1, <1>4
       DEF Pricing, set_market_prices, Claim, claim_creator_fees, Handover, update_creator,
           Reshare, update_market_fee_shares, Administration, update_default_fee_shares,
           update_protocol_fee_recipient, vars, TypeOK
  <2> QED
    BY <2>1 DEF TokensHeld, Vault
<1> QED
  BY <1>2, <1>3, <1>4 DEF Next

LEMMA StepBase == Inv /\ [Next]_vars => BaseConserved'
<1> SUFFICES ASSUME Inv, [Next]_vars PROVE BaseConserved'
  OBVIOUS
<1>1. SupplyInv /\ TypeOK /\ TypeOK' /\ TokensHeld /\ Vault = 0
  BY SupplyHeld, StepType DEF Inv, TypeInv, TypeOK, BaseConserved, TokensHeld, Vault
<1>2. TokensHeld' /\ market_base' - market'.base_reserve = 0
  BY <1>1, StepTokens DEF Vault
<1> QED
  BY <1>1, <1>2 DEF BaseConserved, TokensHeld, TypeOK

LEMMA AlwaysInv == Spec => []Inv
<1>1. Init => Inv
  BY InitType, InitBase DEF Inv
<1>2. Inv /\ [Next]_vars => Inv'
  BY SupplyHeld, StepType, StepBase DEF Inv
<1> QED
  BY <1>1, <1>2, PTL DEF Spec

\* The accounts of a market keep their types: no reserve, balance or pending fee ever goes
\* below zero, and the stored fee shares stay a part of the whole.
THEOREM TypeCorrect == Spec => []TypeOK
<1>1. Inv => TypeOK
  BY DEF Inv, TypeInv
<1> QED
  BY <1>1, AlwaysInv, PTL

\* The base tokens of users and market always add up to the supply, and the reserve that
\* prices are computed from is the balance that transfers use.
THEOREM BaseAlwaysConserved == Spec => []BaseConserved
<1>1. Inv => BaseConserved
  BY DEF Inv
<1> QED
  BY <1>1, AlwaysInv, PTL

-----------------------------------------------------------------------------
(* Conservation of quote tokens. *)

QuoteInv == Inv /\ QuoteConserved

LEMMA StepQuote == TypeInv /\ QuoteConserved /\ [Next]_vars => QuoteConserved'
<1> SUFFICES ASSUME TypeInv, QuoteConserved, [Next]_vars PROVE QuoteConserved'
  OBVIOUS
<1>1. TypeInv /\ TypeOK /\ QuoteConserved /\ N \in Nat
  BY MarketAssumption DEF TypeInv
<1>2. CASE Swap
  <2>1. SwapMoves
    BY <1>1, <1>2, SwapMovesTokens
  <2> QED
    BY <1>1, <2>1 DEF SwapMoves, QuoteConserved
<1>3. CASE Claim
  <2>1. PICK user \in Users : claim_creator_fees(user)
    BY <1>3 DEF Claim
  <2>2. market.pending_creator_fees \in Nat /\ user_quote \in [Users -> Nat] /\ market_quote \in Nat
    BY <1>1, CurveAssumption DEF TypeOK, U64
  <2>3. /\ user_quote' = Credit(user_quote, user, market.pending_creator_fees)
        /\ market_quote' = market_quote - market.pending_creator_fees
    BY <2>1 DEF claim_creator_fees
  <2>4. SumTo(user_quote', N) = SumTo(user_quote, N) + market.pending_creator_fees
    <3>1. user_quote[user] + market.pending_creator_fees >= 0 /\ market.pending_creator_fees \in Int
      BY <2>2
    <3> QED
      BY <2>2, <2>3, <3>1, CreditNat
  <2>5. SumTo(user_quote, N) \in Nat
    BY <1>1, <2>2, SumNat DEF Users
  <2> QED
    BY <1>1, <2>2, <2>3, <2>4, <2>5 DEF QuoteConserved
<1>4. CASE Creation \/ Pricing \/ Handover \/ Reshare \/ Administration \/ UNCHANGED vars
  <2>1. user_quote' = user_quote /\ market_quote' = market_quote
    BY <1>4
       DEF Creation, create_market, Pricing, set_market_prices, Handover, update_creator,
           Reshare, update_market_fee_shares, Administration, update_default_fee_shares,
           update_protocol_fee_recipient, vars
  <2> QED
    BY <1>1, <2>1 DEF QuoteConserved
<1> QED
  BY <1>2, <1>3, <1>4 DEF Next

LEMMA InitQuote == Init => QuoteConserved
<1> SUFFICES ASSUME Init PROVE QuoteConserved
  OBVIOUS
<1>1. /\ N \in Nat /\ InitialQuote \in Int /\ user_quote \in [1..N -> Int]
      /\ \A u \in 1..N : user_quote[u] = InitialQuote
  BY MarketAssumption DEF Init, Users
<1>2. SumTo(user_quote, N) = N * InitialQuote
  BY <1>1, SumConstant
<1>3. N * InitialQuote \in Int /\ market_quote = 0
  BY <1>1 DEF Init
<1> QED
  BY <1>2, <1>3 DEF QuoteConserved

\* Whoever trades, refers, receives the protocol's fees or claims: no quote token is created
\* or lost, also when these are the same account.
THEOREM QuoteAlwaysConserved == Spec => []QuoteConserved
<1>1. Init => QuoteInv
  BY InitType, InitBase, InitQuote DEF QuoteInv, Inv
<1>2. QuoteInv /\ [Next]_vars => QuoteInv'
  BY SupplyHeld, StepType, StepBase, StepQuote DEF QuoteInv, Inv
<1>3. QuoteInv => QuoteConserved
  BY DEF QuoteInv
<1> QED
  BY <1>1, <1>2, <1>3, PTL DEF Spec

-----------------------------------------------------------------------------
(* The fee split. *)

\* Whatever the fee, and whatever the authority and the creator have made of the shares,
\* splitting it leaves a remainder for the protocol and the referrer.
THEOREM FeesAlwaysSplit == Spec => []FeeSplitFits
<1>1. Inv => FeeSplitFits
  <2> SUFFICES ASSUME Inv, NEW swap_fee \in 0..(N * InitialQuote),
                      NEW referral_fee_share \in {0, config.referral_fee_share}
               PROVE  LET fee == distribute_fee(market, swap_fee, referral_fee_share)
                      IN  fee.protocol >= 0 /\ fee.referral >= 0
    BY DEF FeeSplitFits
  <2>1. /\ market.creator_fee_share \in Nat /\ market.staking_fee_share \in Nat
        /\ market.creator_fee_share + market.staking_fee_share <= MAX_BPS
        /\ referral_fee_share \in Shares
    BY MarketAssumption DEF Inv, TypeInv, TypeOK, SharesFit, Shares
  <2>2. swap_fee \in Nat
    <3>1. N * InitialQuote \in Nat
      BY MarketAssumption
    <3> QED
      BY <3>1
  <2>3. LET fee == distribute_fee(market, swap_fee, referral_fee_share)
        IN  fee.protocol \in Nat /\ fee.referral \in Nat
    BY <2>1, <2>2, FeeParts
  <2> QED
    BY <2>3
<1> QED
  BY <1>1, AlwaysInv, PTL

LEMMA StepShares ==
  Inv /\ [Next]_vars =>
    [Initialized => market'.creator_fee_share + market'.staking_fee_share
                      = market.creator_fee_share + market.staking_fee_share]_vars
<1> SUFFICES ASSUME Inv, Next, Initialized
             PROVE  market'.creator_fee_share + market'.staking_fee_share
                      = market.creator_fee_share + market.staking_fee_share
  OBVIOUS
<1>1. TypeInv /\ TypeOK
  BY DEF Inv, TypeInv
<1>2. ~Creation
  BY DEF Creation, create_market
<1>3. CASE Swap
  <2>1. SwapMoves
    BY <1>1, <1>3, SwapMovesTokens
  <2> QED
    BY <1>1, <2>1 DEF SwapMoves, TypeOK
<1>4. CASE Reshare
  BY <1>1, <1>4 DEF Reshare, update_market_fee_shares, TypeOK
<1>5. CASE Pricing \/ Claim \/ Handover \/ Administration
  <2>1. /\ market'.creator_fee_share = market.creator_fee_share
        /\ market'.staking_fee_share = market.staking_fee_share
    BY <1>1, <1>5
       DEF Pricing, set_market_prices, Claim, claim_creator_fees, Handover, update_creator,
           Administration, update_default_fee_shares, update_protocol_fee_recipient, TypeOK
  <2> QED
    BY <2>1
<1> QED
  BY <1>2, <1>3, <1>4, <1>5 DEF Next

\* The protocol's share of a market's fees is what it was when the market was created.
THEOREM ProtocolShareAlwaysFixed == Spec => ProtocolShareFixed
<1> QED
  BY AlwaysInv, StepShares, PTL DEF Spec, ProtocolShareFixed

LEMMA StepPots ==
  Inv /\ [Next]_vars =>
    [/\ market'.pending_staking_fees >= market.pending_staking_fees
     /\ \/ market'.pending_creator_fees >= market.pending_creator_fees
        \/ market_quote - market_quote' = market.pending_creator_fees]_vars
<1> SUFFICES ASSUME Inv, Next
             PROVE  /\ market'.pending_staking_fees >= market.pending_staking_fees
                    /\ \/ market'.pending_creator_fees >= market.pending_creator_fees
                       \/ market_quote - market_quote' = market.pending_creator_fees
  OBVIOUS
<1>1. /\ TypeInv /\ TypeOK /\ market.pending_staking_fees \in Nat
      /\ market.pending_creator_fees \in Nat /\ market_quote \in Nat
  BY CurveAssumption DEF Inv, TypeInv, TypeOK, U64
<1>2. CASE Swap
  <2>1. SwapMoves
    BY <1>1, <1>2, SwapMovesTokens
  <2>2. PICK creator_fee \in Nat, staking_fee \in Nat :
          market' = [market EXCEPT !.base_reserve = market.base_reserve + market_base' - market_base,
                                   !.pending_creator_fees = @ + creator_fee,
                                   !.pending_staking_fees = @ + staking_fee]
    BY <2>1 DEF SwapMoves
  <2>3. /\ market'.pending_creator_fees = market.pending_creator_fees + creator_fee
        /\ market'.pending_staking_fees = market.pending_staking_fees + staking_fee
    BY <1>1, <2>2 DEF TypeOK
  <2> QED
    BY <1>1, <2>3
<1>3. CASE Claim
  BY <1>1, <1>3 DEF Claim, claim_creator_fees, TypeOK
<1>4. CASE Creation \/ Pricing \/ Handover \/ Reshare \/ Administration
  <2>1. /\ market'.pending_creator_fees = market.pending_creator_fees
        /\ market'.pending_staking_fees = market.pending_staking_fees
    BY <1>1, <1>4
       DEF Creation, create_market, Pricing, set_market_prices, Handover, update_creator,
           Reshare, update_market_fee_shares, Administration, update_default_fee_shares,
           update_protocol_fee_recipient, TypeOK
  <2> QED
    BY <1>1, <2>1
<1> QED
  BY <1>2, <1>3, <1>4 DEF Next

\* Fees that a swap left with the market leave it only by being paid.
THEOREM FeePotsAlwaysKept == Spec => FeePotsOnlyGrow
<1> QED
  BY AlwaysInv, StepPots, PTL DEF Spec, FeePotsOnlyGrow

-----------------------------------------------------------------------------
(* The value of a swap. *)

\* What a buyer leaves behind once the fee is taken out is at least the bid value of the
\* tokens bought, and a seller gets at most the bid value of the tokens sold.
LEMMA SwapValue ==
  ASSUME DecimalsFit, NEW m, Sound(m), \A i \in Index : m.bid_prices[i] <= m.ask_prices[i],
         NEW swap_type \in {"Buy", "Sell"}, NEW swap_amount_type \in {"ExactInput", "ExactOutput"},
         NEW amount \in Nat, swap_amounts(m, swap_type, swap_amount_type, amount).ok
  PROVE  LET s == swap_amounts(m, swap_type, swap_amount_type, amount)
             circ == circulating_supply(m)
             w == m.width_scaled
             bid == m.bid_prices
         IN  /\ swap_type = "Buy" =>
                  /\ s.base \in 0..m.base_reserve
                  /\ Worth(w, s.quote - s.swap_fee) >= Priced(Area(bid, w, circ + s.base) - Area(bid, w, circ))
             /\ swap_type = "Sell" =>
                  /\ s.base \in 0..circ
                  /\ Worth(w, s.quote) <= Priced(Area(bid, w, circ) - Area(bid, w, circ - s.base))
<1> DEFINE q == CASE swap_type = "Buy" /\ swap_amount_type = "ExactInput" -> get_base_amount_out(m, amount)
                  [] swap_type = "Sell" /\ swap_amount_type = "ExactOutput" -> get_base_amount_in(m, amount)
                  [] OTHER -> get_quote_amount(m, amount, swap_amount_type)
           circ == circulating_supply(m)
           buyback == get_quote_amount_with_parameters(m, circ, q.base, "ExactInput", "Up")
           s == swap_amounts(m, swap_type, swap_amount_type, amount)
           w == m.width_scaled
           bid == m.bid_prices
           ask == m.ask_prices
<1>1. s = IF swap_type = "Buy"
          THEN [base |-> q.base, quote |-> q.quote, ok |-> q.ok /\ buyback.ok,
                swap_fee |-> IF q.quote > buyback.quote THEN q.quote - buyback.quote ELSE 0,
                base_reserve |-> m.base_reserve - q.base]
          ELSE [base |-> q.base, quote |-> q.quote, ok |-> q.ok,
                swap_fee |-> 0, base_reserve |-> m.base_reserve + q.base]
  BY DEF swap_amounts
<1>2. /\ circ \in 0..m.total_supply /\ m.total_supply \in Nat /\ m.base_reserve = m.total_supply - circ
      /\ m.base_reserve \in Nat /\ w \in Nat \ {0} /\ bid \in [Index -> Nat] /\ ask \in [Index -> Nat]
      /\ "Up" \in Rounding /\ "Down" \in Rounding
  <2>1. m.base_reserve = m.total_supply - circ
    BY DEF Sound, circulating_supply
  <2> QED
    BY <2>1, SupplyType DEF Sound, Climbs, Rounding
<1>3. s.ok
  OBVIOUS
<1> HIDE DEF s, q, circ, w, bid, ask
<1>4. s.base = q.base /\ s.quote = q.quote /\ q.ok
  BY <1>1, <1>3
<1>5. CASE swap_type = "Buy"
  <2> DEFINE paid == Cost(ask, m, circ, circ + q.base, "Up")
             kept == Cost(bid, m, circ, circ + q.base, "Up")
             area == Area(bid, w, circ + q.base) - Area(bid, w, circ)
  <2>1. q.base \in 0..m.base_reserve /\ q.quote \in Nat /\ paid <= q.quote
    <3>1. CASE swap_amount_type = "ExactInput"
      <4>1. q = get_base_amount_out(m, amount)
        BY <1>5, <3>1 DEF q
      <4>2. get_base_amount_out(m, amount).ok
        BY <1>4, <4>1
      <4>3. LET r == get_base_amount_out(m, amount)
                c == circulating_supply(m)
            IN  /\ r.base \in 0..m.base_reserve /\ r.quote \in 0..amount
                /\ Cost(m.ask_prices, m, c, c + r.base, "Up") <= r.quote
        BY <4>2, BuyExactQuote
      <4> QED
        BY <4>1, <4>3 DEF circ, ask
    <3>2. CASE swap_amount_type = "ExactOutput"
      <4> DEFINE given == Min2(amount, m.base_reserve)
                 cost == Cost(ask, m, circ, circ + given, "Up")
      <4>1. q = get_quote_amount(m, amount, "ExactOutput")
        BY <1>5, <3>2 DEF q
      <4>2. q = Quoted(given, cost)
        BY <4>1, BuyExactBase DEF circ, ask
      <4>3. given \in 0..m.base_reserve
        BY <1>2 DEF Min2
      <4> HIDE DEF given
      <4>4. cost \in Nat
        <5>1. circ \in Int /\ circ + given \in Int /\ circ <= circ + given
          BY <1>2, <4>3
        <5> QED
          BY <1>2, <5>1, CostValue
      <4>5. q.base = given /\ q.quote = cost
        <5> HIDE DEF cost
        <5>1. Quoted(given, cost).ok
          BY <1>4, <4>2
        <5> QED
          BY <4>2, <5>1, QuotedOk
      <4> QED
        BY <4>3, <4>4, <4>5
    <3> QED
      BY <3>1, <3>2
  <2>2. buyback = Quoted(q.base, kept)
    <3> DEFINE b == q.base
    <3>1. b \in Nat /\ Min2(b, m.total_supply - circ) = b
      BY <1>2, <2>1 DEF Min2
    <3> HIDE DEF b
    <3>2. get_quote_amount_with_parameters(m, circ, b, "ExactInput", "Up")
            = Quoted(b, Cost(bid, m, circ, circ + b, "Up"))
      BY <1>2, <3>1, NamedBase DEF PricesOf, bid
    <3> QED
      BY <3>2 DEF b
  <2>3. buyback.quote = kept
    <3>1. buyback.ok
      BY <1>1, <1>3, <1>5
    <3> HIDE DEF buyback, kept
    <3>2. Quoted(q.base, kept).ok
      BY <2>2, <3>1
    <3> QED
      BY <2>2, <3>2, QuotedOk
  <2>4. /\ paid \in Nat /\ kept \in Nat /\ area \in Int
        /\ Worth(w, paid) >= Priced(area) /\ Worth(w, kept) >= Priced(area)
    <3> DEFINE y == circ + q.base
    <3>1. circ \in Int /\ y \in Int /\ circ <= y
      BY <1>2, <2>1
    <3> HIDE DEF y
    <3>2. /\ Cost(ask, m, circ, y, "Up") \in Nat
          /\ Worth(w, Cost(ask, m, circ, y, "Up")) >= Priced(Area(ask, w, y) - Area(ask, w, circ))
      BY <1>2, <3>1, CostValue DEF w
    <3>3. /\ Cost(bid, m, circ, y, "Up") \in Nat
          /\ Worth(w, Cost(bid, m, circ, y, "Up")) >= Priced(Area(bid, w, y) - Area(bid, w, circ))
      BY <1>2, <3>1, CostValue DEF w
    <3>4. /\ Area(bid, w, circ) \in Int /\ Area(bid, w, y) \in Int
          /\ Area(ask, w, circ) \in Int /\ Area(ask, w, y) \in Int
          /\ Area(bid, w, y) - Area(bid, w, circ) <= Area(ask, w, y) - Area(ask, w, circ)
      <4>1. w \in Nat /\ \A i \in Index : bid[i] <= ask[i]
        BY <1>2 DEF bid, ask
      <4> QED
        BY <1>2, <3>1, <4>1, AreaGrows
    <3> DEFINE low == Area(bid, w, y) - Area(bid, w, circ)
               high == Area(ask, w, y) - Area(ask, w, circ)
    <3>5. low \in Int /\ high \in Int /\ low <= high
      BY <3>4
    <3> HIDE DEF low, high
    <3>6. Priced(low) <= Priced(high) /\ Priced(low) \in Int /\ Priced(high) \in Int
      BY <3>5, PricedOrder
    <3>7. Worth(w, Cost(ask, m, circ, y, "Up")) \in Int
      <4>1. w \in Nat /\ Cost(ask, m, circ, y, "Up") \in Int
        BY <1>2, <3>2
      <4> QED
        BY <4>1, WorthOrder
    <3>8. Worth(w, Cost(ask, m, circ, y, "Up")) >= Priced(low)
      BY <3>2, <3>6, <3>7 DEF high
    <3> QED
      BY <3>2, <3>3, <3>5, <3>8 DEF low, y
  <2> DEFINE left == s.quote - s.swap_fee
  <2>5. left \in Int /\ (left = kept \/ left >= paid)
    <3>1. s.swap_fee = IF q.quote > kept THEN q.quote - kept ELSE 0
      BY <1>1, <1>5, <2>3
    <3> HIDE DEF kept, paid
    <3> QED
      BY <1>4, <2>1, <2>4, <3>1
  <2>6. Worth(w, left) >= Priced(area)
    <3> HIDE DEF kept, paid, area, left
    <3>1. CASE left = kept
      BY <2>4, <3>1
    <3>2. CASE left >= paid
      <4>1. w \in Nat /\ paid \in Int
        BY <1>2, <2>4
      <4>2. /\ Worth(w, paid) \in Int /\ Worth(w, left) \in Int
            /\ paid <= left => Worth(w, paid) <= Worth(w, left)
        BY <2>5, <4>1, WorthOrder
      <4>3. Priced(area) \in Int
        BY <2>4, PricedOrder
      <4> QED
        BY <2>4, <2>5, <3>2, <4>1, <4>2, <4>3
    <3> QED
      BY <2>5, <3>1, <3>2
  <2> QED
    BY <1>4, <1>5, <2>1, <2>6 DEF s, circ, w, bid
<1>6. CASE swap_type = "Sell"
  <2> DEFINE cost == Cost(bid, m, circ - q.base, circ, "Down")
             area == Area(bid, w, circ) - Area(bid, w, circ - q.base)
  <2>1. q.base \in 0..circ /\ q.quote \in Nat /\ q.quote <= cost
    <3>1. CASE swap_amount_type = "ExactOutput"
      <4>1. q = get_base_amount_in(m, amount)
        BY <1>6, <3>1 DEF q
      <4>2. get_base_amount_in(m, amount).ok
        BY <1>4, <4>1
      <4>3. LET r == get_base_amount_in(m, amount)
                c == circulating_supply(m)
            IN  /\ r.base \in 0..c /\ r.quote \in 0..amount
                /\ r.quote <= Cost(m.bid_prices, m, c - r.base, c, "Down")
        BY <4>2, SellExactQuote DEF DecimalsFit
      <4> QED
        BY <4>1, <4>3 DEF circ, bid
    <3>2. CASE swap_amount_type = "ExactInput"
      <4> DEFINE price == Cost(bid, m, circ - amount, circ, "Down")
      <4>1. q = get_quote_amount(m, amount, "ExactInput")
        BY <1>6, <3>2 DEF q
      <4>2. q = IF amount <= circ THEN Quoted(amount, price) ELSE Fail
        BY <4>1, SellExactBase DEF circ, bid
      <4>3. amount <= circ
        <5> HIDE DEF price
        <5> QED
          BY <1>4, <4>2 DEF Fail
      <4>4. price \in Nat
        <5>1. circ \in Int /\ circ - amount \in Int /\ circ - amount <= circ
          BY <1>2
        <5> QED
          BY <1>2, <5>1, CostValue
      <4>5. q.base = amount /\ q.quote = price
        <5> HIDE DEF price
        <5>1. Quoted(amount, price).ok /\ q = Quoted(amount, price)
          BY <1>4, <4>2, <4>3
        <5> QED
          BY <5>1, QuotedOk
      <4> QED
        BY <1>2, <4>3, <4>4, <4>5
    <3> QED
      BY <3>1, <3>2
  <2>2. cost \in Nat /\ Worth(w, cost) <= Priced(area) /\ area \in Int
    <3> DEFINE x == circ - q.base
    <3>1. circ \in Int /\ x \in Int /\ x <= circ
      BY <1>2, <2>1
    <3> HIDE DEF x
    <3>2. /\ Cost(bid, m, x, circ, "Down") \in Nat
          /\ Worth(w, Cost(bid, m, x, circ, "Down")) <= Priced(Area(bid, w, circ) - Area(bid, w, x))
      BY <1>2, <3>1, CostValue DEF w
    <3>3. Area(bid, w, circ) \in Int /\ Area(bid, w, x) \in Int
      <4>1. w \in Nat /\ \A i \in Index : bid[i] <= bid[i]
        BY <1>2
      <4> QED
        BY <1>2, <3>1, <4>1, AreaGrows
    <3> QED
      BY <3>2, <3>3 DEF x
  <2>3. Worth(w, q.quote) <= Priced(area)
    <3> HIDE DEF cost, area
    <3>1. w \in Nat /\ q.quote \in Int /\ cost \in Int
      BY <1>2, <2>1, <2>2
    <3>2. Worth(w, q.quote) <= Worth(w, cost) /\ Worth(w, q.quote) \in Int /\ Worth(w, cost) \in Int
      BY <2>1, <3>1, WorthOrder
    <3>3. Priced(area) \in Int
      BY <2>2, PricedOrder
    <3> QED
      BY <2>2, <3>2, <3>3
  <2> QED
    BY <1>4, <1>6, <2>1, <2>3 DEF s, circ, w, bid
<1> QED
  BY <1>5, <1>6

\* A purchase leaves the market what is paid without the fee, a sale takes out what is paid
\* for it; the supply, the intervals and the prices stay.
LEMMA SwapBalances ==
  ASSUME TypeInv, NEW user \in Users, NEW swap_type \in {"Buy", "Sell"}, NEW swap_amount_type,
         NEW amount, NEW threshold, NEW referral \in Users \cup {NoReferral},
         swap(user, swap_type, swap_amount_type,
              swap_amounts(market, swap_type, swap_amount_type, amount), threshold, referral)
  PROVE  LET s == swap_amounts(market, swap_type, swap_amount_type, amount) IN
         /\ s.ok /\ Backing' \in Int /\ Backing \in Int
         /\ swap_type = "Buy" => Backing' = Backing + (s.quote - s.swap_fee)
         /\ swap_type = "Sell" => Backing' = Backing - s.quote
         /\ swap_type = "Buy" => market'.base_reserve = market.base_reserve - s.base
         /\ swap_type = "Sell" => market'.base_reserve = market.base_reserve + s.base
         /\ market'.total_supply = market.total_supply /\ market'.width_scaled = market.width_scaled
         /\ market'.bid_prices = market.bid_prices /\ market'.ask_prices = market.ask_prices
         /\ unpriced' = unpriced
<1> DEFINE s == swap_amounts(market, swap_type, swap_amount_type, amount)
           share == IF referral = NoReferral THEN 0 ELSE config.referral_fee_share
           fee == distribute_fee(market, s.swap_fee, share)
           quote_delta == IF swap_type = "Buy" THEN -s.quote ELSE s.quote
<1>1. /\ market.base_reserve \in Int /\ market_quote \in Nat
      /\ market.creator_fee_share \in Nat /\ market.staking_fee_share \in Nat
      /\ market.creator_fee_share + market.staking_fee_share <= MAX_BPS
      /\ market.pending_creator_fees \in Nat /\ market.pending_staking_fees \in Nat
  BY CurveAssumption DEF TypeInv, TypeOK, SharesFit, Shares, U64
<1>2. /\ s.base \in U64 /\ s.quote \in U64 /\ s.swap_fee \in 0..s.quote
      /\ swap_type = "Buy" => s.base_reserve = market.base_reserve - s.base
      /\ swap_type = "Sell" => s.base_reserve = market.base_reserve + s.base /\ s.swap_fee = 0
  BY <1>1, SwapAmounts
<1>3. share \in Shares
  BY MarketAssumption DEF TypeInv, TypeOK, Shares
<1>4. /\ s.ok
      /\ market' = [market EXCEPT !.base_reserve = s.base_reserve,
                                  !.pending_creator_fees = @ + fee.creator,
                                  !.pending_staking_fees = @ + fee.staking]
      /\ market_quote' = market_quote - quote_delta - fee.protocol - fee.referral
      /\ unpriced' = unpriced
  BY DEF swap
<1> HIDE DEF s, share
<1>5. /\ fee.creator \in Nat /\ fee.staking \in Nat /\ fee.referral \in Nat /\ fee.protocol \in Nat
      /\ fee.creator + fee.staking + fee.referral + fee.protocol = s.swap_fee
  <2>1. s.swap_fee \in Nat
    BY <1>2, CurveAssumption DEF U64
  <2> QED
    BY <1>1, <1>3, <2>1, FeeParts
<1> HIDE DEF fee
<1>6. /\ market'.base_reserve = s.base_reserve
      /\ market'.pending_creator_fees = market.pending_creator_fees + fee.creator
      /\ market'.pending_staking_fees = market.pending_staking_fees + fee.staking
      /\ market'.total_supply = market.total_supply /\ market'.width_scaled = market.width_scaled
      /\ market'.bid_prices = market.bid_prices /\ market'.ask_prices = market.ask_prices
  BY <1>4 DEF TypeInv, TypeOK
<1>7. s.quote \in Nat /\ s.swap_fee \in Nat
  BY <1>2, CurveAssumption DEF U64
<1>8. quote_delta \in Int
  BY <1>7
<1>9. Backing' \in Int /\ Backing \in Int /\ Backing' = Backing - quote_delta - s.swap_fee
  <2> HIDE DEF quote_delta
  <2> QED
    BY <1>1, <1>4, <1>5, <1>6, <1>7, <1>8 DEF Backing
<1> QED
  BY <1>2, <1>4, <1>6, <1>7, <1>9 DEF s

-----------------------------------------------------------------------------
(* What the market keeps for the circulating tokens. *)

Priceless == market.bid_prices = Zero /\ market.ask_prices = Zero

\* A market is empty until it is created, then it is one that the pricing functions may be
\* called with; its prices are set once, all together.
Shape ==
  /\ market.total_supply <= MAX_TOTAL_SUPPLY /\ unpriced <= MAX_TOTAL_SUPPLY
  /\ Initialized => Sound(market)
  /\ ~Initialized => /\ market.width_scaled = 0 /\ market_quote = 0 /\ Priceless
                     /\ market.pending_creator_fees = 0 /\ market.pending_staking_fees = 0
  /\ Priceless \/ ValidPrices(market.bid_prices, market.ask_prices)

ReserveInv == QuoteInv /\ Shape /\ Backed

\* Prices that are accepted climb, and no bid is above its ask.
LEMMA ValidPricesClimb ==
  ASSUME NEW bid \in [Index -> Nat], NEW ask \in [Index -> Nat], ValidPrices(bid, ask)
  PROVE  /\ Climbs(bid) /\ Climbs(ask) /\ \A i \in Index : bid[i] <= ask[i]
         /\ ask[INTERVAL_NUMBER] # 0
<1>1. \A i \in 1..INTERVAL_NUMBER : bid[i - 1] < bid[i] /\ ask[i - 1] < ask[i]
  <2> SUFFICES ASSUME NEW i \in 1..INTERVAL_NUMBER PROVE bid[i - 1] < bid[i] /\ ask[i - 1] < ask[i]
    OBVIOUS
  <2>1. i \in Index /\ i - 1 \in Index
    BY CurveAssumption DEF Index
  <2>2. bid[i] \in Nat /\ bid[i - 1] \in Nat /\ ask[i] \in Nat /\ ask[i - 1] \in Nat
    BY <2>1
  <2>3. bid[i] > bid[i - 1] /\ ask[i] > ask[i - 1]
    BY DEF ValidPrices
  <2> QED
    BY <2>2, <2>3
<1>2. ask[INTERVAL_NUMBER] # 0
  <2>1. INTERVAL_NUMBER \in 1..INTERVAL_NUMBER /\ INTERVAL_NUMBER - 1 \in Index /\ INTERVAL_NUMBER \in Index
    BY CurveAssumption DEF Index
  <2>2. ask[INTERVAL_NUMBER - 1] < ask[INTERVAL_NUMBER] /\ ask[INTERVAL_NUMBER - 1] \in Nat
    BY <1>1, <2>1
  <2>3. ask[INTERVAL_NUMBER] \in Nat
    BY <2>1
  <2> QED
    BY <2>2, <2>3
<1> QED
  BY <1>1, <1>2 DEF Climbs, ValidPrices

\* In every reachable market, priced or not, the curves climb and no bid is above its ask.
LEMMA CurvesOrdered ==
  ASSUME TypeOK, Shape
  PROVE  /\ Climbs(market.bid_prices) /\ Climbs(market.ask_prices)
         /\ \A i \in Index : market.bid_prices[i] <= market.ask_prices[i]
         /\ Priceless <=> ~are_prices_set(market)
<1>1. market.bid_prices \in [Index -> Nat] /\ market.ask_prices \in [Index -> Nat]
  BY DEF TypeOK
<1>2. CASE Priceless
  <2>1. \A i \in Index : Zero[i] = 0
    BY DEF Zero
  <2>2. \A i \in 1..INTERVAL_NUMBER : i \in Index /\ i - 1 \in Index
    BY CurveAssumption DEF Index
  <2>3. INTERVAL_NUMBER \in Index
    BY CurveAssumption DEF Index
  <2> QED
    BY <1>1, <1>2, <2>1, <2>2, <2>3 DEF Priceless, Climbs, are_prices_set
<1>3. CASE ValidPrices(market.bid_prices, market.ask_prices)
  <2>1. INTERVAL_NUMBER \in Index /\ \A i \in Index : Zero[i] = 0
    BY CurveAssumption DEF Index, Zero
  <2>2. market.ask_prices[INTERVAL_NUMBER] # 0
    BY <1>1, <1>3, ValidPricesClimb
  <2> QED
    BY <1>1, <1>3, <2>1, <2>2, ValidPricesClimb DEF Priceless, are_prices_set
<1> QED
  BY <1>2, <1>3 DEF Shape

LEMMA InitShape == Init => Shape
<1> SUFFICES ASSUME Init PROVE Shape
  OBVIOUS
<1>1. /\ market.total_supply = 0 /\ market.width_scaled = 0 /\ Priceless /\ market_quote = 0 /\ unpriced = 0
      /\ market.pending_creator_fees = 0 /\ market.pending_staking_fees = 0
  BY DEF Init, Uninitialized, Priceless
<1> QED
  BY <1>1, CurveAssumption DEF Shape, Initialized

\* A supply that is accepted is cut into intervals of a positive width, without a remainder.
LEMMA ValidSupplyDivides ==
  ASSUME NEW supply \in Nat, ValidSupply(supply)
  PROVE  /\ supply \in Nat \ {0} /\ supply <= MAX_TOTAL_SUPPLY
         /\ Normalized(supply \div INTERVAL_NUMBER) \in Nat \ {0}
         /\ INTERVAL_NUMBER * Normalized(supply \div INTERVAL_NUMBER) = Normalized(supply)
<1> DEFINE each == supply \div INTERVAL_NUMBER
<1>1. each \in Nat \ {0} /\ supply = INTERVAL_NUMBER * each
  BY CurveAssumption DEF ValidSupply
<1> HIDE DEF each
<1>2. Normalized(each) = each * Ratio /\ Normalized(supply) = supply * Ratio /\ Ratio \in Nat \ {0}
  BY <1>1, NormalizedDef
<1>3. Normalized(each) \in Nat \ {0} /\ INTERVAL_NUMBER * Normalized(each) = Normalized(supply)
  BY <1>1, <1>2, CurveAssumption
<1>4. supply \in Nat \ {0}
  BY <1>1, CurveAssumption
<1> QED
  BY <1>3, <1>4 DEF ValidSupply, each

\* The supply and its intervals are fixed at the creation, the prices when they are set.
LEMMA StepShape == SupplyInv /\ SupplyInv' /\ Shape /\ [Next]_vars => Shape'
<1> SUFFICES ASSUME SupplyInv, SupplyInv', Shape, [Next]_vars PROVE Shape'
  OBVIOUS
<1>1. TypeInv /\ TypeOK /\ TypeOK' /\ circulating_supply(market) \in Nat
  BY SupplyCirculates DEF SupplyInv, TypeInv, TypeOK
<1>2. market'.base_reserve \in 0..market'.total_supply /\ market'.total_supply \in Nat
  BY <1>1 DEF SupplyInv, TypeOK
<1>3. CASE Creation
  <2>1. PICK creator \in Users, supply \in Supplies, c \in Shares, s \in Shares :
          create_market(creator, supply, c, s)
    BY <1>3 DEF Creation
  <2>2. supply \in Nat /\ ValidSupply(supply)
    BY <2>1, MarketAssumption DEF create_market
  <2>3. /\ supply \in Nat \ {0} /\ supply <= MAX_TOTAL_SUPPLY
        /\ Normalized(supply \div INTERVAL_NUMBER) \in Nat \ {0}
        /\ INTERVAL_NUMBER * Normalized(supply \div INTERVAL_NUMBER) = Normalized(supply)
    BY <2>2, ValidSupplyDivides
  <2>4. /\ market'.total_supply = supply
        /\ market'.width_scaled = Normalized(supply \div INTERVAL_NUMBER)
        /\ market'.bid_prices = market.bid_prices /\ market'.ask_prices = market.ask_prices
        /\ unpriced' = unpriced /\ ~Initialized
    BY <1>1, <2>1 DEF create_market, TypeOK
  <2>5. Climbs(market.bid_prices) /\ Climbs(market.ask_prices)
    BY <1>1, CurvesOrdered
  <2>6. Sound(market')
    BY <1>2, <2>3, <2>4, <2>5 DEF Sound
  <2>7. Initialized'
    BY <2>3, <2>4 DEF Initialized
  <2>8. Priceless'
    BY <2>4 DEF Shape, Priceless
  <2> QED
    BY <2>3, <2>4, <2>6, <2>7, <2>8 DEF Shape
<1>4. CASE Pricing
  <2>1. PICK user \in Users, c \in PriceCurves : set_market_prices(user, c.bid_prices, c.ask_prices)
    BY <1>4 DEF Pricing
  <2>2. /\ c.bid_prices \in [Index -> Nat] /\ c.ask_prices \in [Index -> Nat]
        /\ ValidPrices(c.bid_prices, c.ask_prices)
    BY <2>1, MarketAssumption DEF set_market_prices
  <2>3. Climbs(c.bid_prices) /\ Climbs(c.ask_prices)
    BY <2>2, ValidPricesClimb
  <2>4. /\ market'.total_supply = market.total_supply /\ market'.width_scaled = market.width_scaled
        /\ market'.bid_prices = c.bid_prices /\ market'.ask_prices = c.ask_prices
        /\ unpriced' = circulating_supply(market) /\ Initialized
    BY <1>1, <2>1 DEF set_market_prices, TypeOK
  <2>5. unpriced' <= MAX_TOTAL_SUPPLY
    <3>1. circulating_supply(market) <= market.total_supply
      BY <1>1 DEF circulating_supply, TypeOK
    <3> QED
      BY <1>1, <2>4, <3>1, CurveAssumption DEF Shape, TypeOK
  <2>6. Sound(market')
    BY <1>2, <2>3, <2>4 DEF Sound, Shape
  <2>7. Initialized'
    BY <2>4 DEF Initialized
  <2> QED
    BY <2>2, <2>4, <2>5, <2>6, <2>7 DEF Shape
<1>5. CASE Swap \/ Claim \/ Handover \/ Reshare \/ Administration \/ UNCHANGED vars
  <2>1. /\ market'.total_supply = market.total_supply /\ market'.width_scaled = market.width_scaled
        /\ market'.bid_prices = market.bid_prices /\ market'.ask_prices = market.ask_prices
        /\ unpriced' = unpriced
    <3>1. CASE Swap
      <4>1. SwapMoves
        BY <1>1, <3>1, SwapMovesTokens
      <4> QED
        BY <1>1, <4>1 DEF SwapMoves, TypeOK
    <3>2. CASE Claim \/ Handover \/ Reshare \/ Administration \/ UNCHANGED vars
      BY <1>1, <3>2
         DEF Claim, claim_creator_fees, Handover, update_creator, Reshare, update_market_fee_shares,
             Administration, update_default_fee_shares, update_protocol_fee_recipient, vars, TypeOK
    <3> QED
      BY <1>5, <3>1, <3>2
  <2>2. (Initialized' <=> Initialized) /\ (Priceless' <=> Priceless)
    BY <2>1 DEF Initialized, Priceless
  <2>3. Initialized => Sound(market')
    BY <1>2, <2>1 DEF Sound, Shape
  <2>4. ~Initialized => /\ market_quote' = 0
                        /\ market'.pending_creator_fees = 0 /\ market'.pending_staking_fees = 0
    <3> SUFFICES ASSUME ~Initialized
                 PROVE  /\ market_quote' = 0
                        /\ market'.pending_creator_fees = 0 /\ market'.pending_staking_fees = 0
      OBVIOUS
    <3>1. Administration \/ UNCHANGED vars
      BY <1>5 DEF Swap, Claim, claim_creator_fees, Handover, update_creator, Reshare, update_market_fee_shares
    <3>2. market' = market /\ market_quote' = market_quote
      BY <3>1 DEF Administration, update_default_fee_shares, update_protocol_fee_recipient, vars
    <3> QED
      BY <3>2 DEF Shape
  <2> QED
    BY <2>1, <2>2, <2>3, <2>4 DEF Shape
<1> QED
  BY <1>3, <1>4, <1>5 DEF Next

Levels == 0..MAX_TOTAL_SUPPLY
Sold == circulating_supply(market)
Pot == Worth(market.width_scaled, Backing)
Value(n) == Priced(BidArea(n))

ReserveType ==
  /\ Sold \in Levels /\ unpriced \in Levels /\ Pot \in Int /\ Backing \in Int
  /\ \A n \in Int : BidArea(n) \in Int /\ Value(n) \in Int

LEMMA ReserveTypes == SupplyInv /\ Shape => ReserveType
<1> SUFFICES ASSUME SupplyInv, Shape PROVE ReserveType
  OBVIOUS
<1>1. /\ TypeOK /\ market.width_scaled \in Nat /\ market.bid_prices \in [Index -> Nat] /\ MAX_TOTAL_SUPPLY \in Nat
      /\ market_quote \in Int /\ market.pending_creator_fees \in Int /\ market.pending_staking_fees \in Int
      /\ unpriced \in Nat
  BY CurveAssumption DEF SupplyInv, TypeInv, TypeOK, U64
<1>2. Sold \in Levels /\ unpriced \in Levels
  <2>1. Sold \in Nat /\ Sold <= market.total_supply /\ market.total_supply \in Nat
    BY <1>1, SupplyCirculates DEF Sold, TypeOK
  <2> QED
    BY <1>1, <2>1 DEF Levels, Shape
<1>3. Backing \in Int
  BY <1>1 DEF Backing
<1>4. Pot \in Int
  <2> DEFINE w == market.width_scaled
  <2> HIDE DEF w
  <2>1. \A b \in Int : w \in Nat => Worth(w, b) \in Int
    BY WorthOrder
  <2> QED
    BY <1>1, <1>3, <2>1 DEF Pot, w
<1>5. ASSUME NEW n \in Int PROVE BidArea(n) \in Int /\ Value(n) \in Int
  <2> DEFINE w == market.width_scaled
             p == market.bid_prices
  <2>1. w \in Nat /\ p \in [Index -> Nat] /\ n <= n /\ \A i \in Index : p[i] <= p[i]
    BY <1>1
  <2> HIDE DEF w, p
  <2>2. Area(p, w, n) \in Int
    BY <2>1, AreaGrows
  <2> DEFINE a == Area(p, w, n)
  <2>3. a \in Int
    BY <2>2
  <2> HIDE DEF a
  <2>4. Priced(a) \in Int
    BY <2>3, PricedOrder
  <2> QED
    BY <2>2, <2>4 DEF Value, BidArea, a, w, p
<1> QED
  BY <1>2, <1>3, <1>4, <1>5 DEF ReserveType

\* A step that the reserve does not notice.
Unnoticed ==
  /\ Sold' = Sold /\ Pot' = Pot /\ unpriced' = unpriced
  /\ \A n \in Levels : Value(n)' = Value(n)

\* Setting the prices.
Appraisal ==
  /\ \A n \in Levels : Value(n) = 0
  /\ unpriced' = Sold /\ Sold' = Sold
  /\ Pot' = Pot

\* A trade at the value of the tokens.
Dealing ==
  /\ Pot' - Pot >= Value(Sold') - Value(Sold)
  /\ unpriced' = unpriced
  /\ \A n \in Levels : Value(n)' = Value(n)

\* A market without prices values every supply at nothing.
LEMMA PricelessFree == SupplyInv /\ Shape /\ Priceless => \A n \in Int : Value(n) = 0
<1> SUFFICES ASSUME SupplyInv, Shape, Priceless, NEW n \in Int PROVE Value(n) = 0
  OBVIOUS
<1>1. market.width_scaled \in Nat /\ market.bid_prices = Zero
  BY DEF SupplyInv, TypeInv, TypeOK, Priceless
<1>2. Zero \in [Index -> Nat] /\ \A i \in Index : Zero[i] = 0
  BY DEF Zero
<1> DEFINE w == market.width_scaled
<1> HIDE DEF w
<1>3. w \in Nat => Area(Zero, w, n) = 0
  BY <1>2, AreaNothing
<1>4. Priced(0) = 0
  BY CurveAssumption DEF Priced
<1> QED
  BY <1>1, <1>3, <1>4 DEF Value, BidArea, w

\* Every swap is a trade.
LEMMA SwapDeals ==
  ASSUME DecimalsFit, SupplyInv, Shape, Shape', ReserveType, ReserveType', Swap
  PROVE  Dealing
<1>1. PICK swap_type \in {"Buy", "Sell"}, swap_amount_type \in {"ExactInput", "ExactOutput"},
           amount \in Amounts \ {0}, user \in Traders, threshold \in Thresholds,
           referral \in Users \cup {NoReferral} :
        /\ Initialized
        /\ swap(user, swap_type, swap_amount_type,
                swap_amounts(market, swap_type, swap_amount_type, amount), threshold, referral)
  BY DEF Swap
<1> DEFINE s == swap_amounts(market, swap_type, swap_amount_type, amount)
           w == market.width_scaled
           bid == market.bid_prices
<1>2. user \in Users /\ amount \in Nat
  BY MarketAssumption, CurveAssumption DEF Users, U64
<1>3. /\ s.ok /\ Backing' \in Int /\ Backing \in Int
      /\ swap_type = "Buy" => Backing' = Backing + (s.quote - s.swap_fee)
      /\ swap_type = "Sell" => Backing' = Backing - s.quote
      /\ swap_type = "Buy" => market'.base_reserve = market.base_reserve - s.base
      /\ swap_type = "Sell" => market'.base_reserve = market.base_reserve + s.base
      /\ market'.total_supply = market.total_supply /\ market'.width_scaled = w
      /\ market'.bid_prices = bid /\ market'.ask_prices = market.ask_prices
      /\ unpriced' = unpriced
  BY <1>1, <1>2, SwapBalances DEF SupplyInv
<1>4. Sound(market) /\ (\A i \in Index : market.bid_prices[i] <= market.ask_prices[i])
  BY <1>1, CurvesOrdered DEF Shape, SupplyInv, TypeInv
<1>5. /\ swap_type = "Buy" =>
           /\ s.base \in 0..market.base_reserve
           /\ Worth(w, s.quote - s.swap_fee) >= Priced(Area(bid, w, Sold + s.base) - Area(bid, w, Sold))
      /\ swap_type = "Sell" =>
           /\ s.base \in 0..Sold
           /\ Worth(w, s.quote) <= Priced(Area(bid, w, Sold) - Area(bid, w, Sold - s.base))
  BY <1>2, <1>3, <1>4, SwapValue DEF Sold
<1>6. /\ \A n \in Levels : Value(n)' = Value(n)
      /\ Pot' = Worth(w, Backing') /\ Pot = Worth(w, Backing)
      /\ Value(Sold') = Priced(Area(bid, w, Sold')) /\ Value(Sold) = Priced(Area(bid, w, Sold))
  BY <1>3 DEF Value, BidArea, Pot
<1>7. /\ Sold \in Int /\ Sold' \in Int /\ w \in Nat /\ market.base_reserve \in Int
      /\ Area(bid, w, Sold) \in Int /\ Area(bid, w, Sold') \in Int
  BY DEF ReserveType, Levels, BidArea, SupplyInv, TypeInv, TypeOK
<1>8. s.quote \in Int /\ s.swap_fee \in Int /\ s.base \in Int
  BY <1>7, SwapAmounts, CurveAssumption DEF U64
<1>9. /\ swap_type = "Buy" => Sold' = Sold + s.base
      /\ swap_type = "Sell" => Sold' = Sold - s.base
  BY <1>3, <1>7, <1>8 DEF Sold, circulating_supply, SupplyInv, TypeInv, TypeOK
<1> HIDE DEF s, w, bid
<1> DEFINE before == Area(bid, w, Sold)
           after == Area(bid, w, Sold')
           old == Backing
           new == Backing'
<1>10. /\ before \in Int /\ after \in Int /\ old \in Int /\ new \in Int
       /\ Value(Sold') = Priced(after) /\ Value(Sold) = Priced(before)
       /\ Pot' = Worth(w, new) /\ Pot = Worth(w, old)
  BY <1>3, <1>6, <1>7
<1>11. CASE swap_type = "Buy"
  <2> DEFINE kept == s.quote - s.swap_fee
  <2>1. kept \in Int /\ new = old + kept /\ Worth(w, kept) >= Priced(after - before)
    BY <1>3, <1>5, <1>8, <1>9, <1>11
  <2> HIDE DEF kept, before, after, old, new
  <2>2. Worth(w, new) = Worth(w, old) + Worth(w, kept) /\ Worth(w, old) \in Int /\ Worth(w, kept) \in Int
    BY <1>7, <1>10, <2>1, WorthOrder
  <2>3. Priced(after - before) = Priced(after) - Priced(before) /\ Priced(after) \in Int /\ Priced(before) \in Int
    BY <1>10, PricedOrder
  <2> QED
    BY <1>3, <1>6, <1>10, <2>1, <2>2, <2>3 DEF Dealing
<1>12. CASE swap_type = "Sell"
  <2> DEFINE given == s.quote
  <2>1. given \in Int /\ old = new + given /\ Worth(w, given) <= Priced(before - after)
    BY <1>3, <1>5, <1>8, <1>9, <1>12
  <2> HIDE DEF given, before, after, old, new
  <2>2. Worth(w, old) = Worth(w, new) + Worth(w, given) /\ Worth(w, new) \in Int /\ Worth(w, given) \in Int
    BY <1>7, <1>10, <2>1, WorthOrder
  <2>3. Priced(before - after) = Priced(before) - Priced(after) /\ Priced(after) \in Int /\ Priced(before) \in Int
    BY <1>10, PricedOrder
  <2> QED
    BY <1>3, <1>6, <1>10, <2>1, <2>2, <2>3 DEF Dealing
<1> QED
  BY <1>11, <1>12

\* Every step is one of the three.
LEMMA StepReserve ==
  ASSUME DecimalsFit, SupplyInv, Shape, Shape', ReserveType, ReserveType', [Next]_vars
  PROVE  Unnoticed \/ Appraisal \/ Dealing
<1>1. TypeInv /\ TypeOK
  BY DEF SupplyInv, TypeInv
<1>2. CASE Creation
  <2>1. PICK creator \in Users, supply \in Supplies, c \in Shares, s \in Shares :
          create_market(creator, supply, c, s)
    BY <1>2 DEF Creation
  <2>2. /\ market'.base_reserve = supply /\ market'.total_supply = supply
        /\ market'.bid_prices = market.bid_prices /\ market'.ask_prices = market.ask_prices
        /\ market'.pending_creator_fees = market.pending_creator_fees
        /\ market'.pending_staking_fees = market.pending_staking_fees
        /\ market_quote' = market_quote /\ unpriced' = unpriced /\ ~Initialized
        /\ market'.width_scaled = Normalized(supply \div INTERVAL_NUMBER)
        /\ supply \in Nat
    BY <1>1, <2>1, MarketAssumption DEF create_market, TypeOK
  <2>3. Backing = 0 /\ Backing' = 0
    BY <2>2 DEF Shape, Backing
  <2>4. Pot = 0 /\ Pot' = 0
    <3>1. \A v \in Nat : Worth(v, 0) = 0
      BY WorthOrder
    <3>2. market.width_scaled \in Nat
      BY <1>1 DEF TypeOK
    <3>3. market'.width_scaled \in Nat
      BY <1>2, <2>2, ValidSupplyDivides, <2>1 DEF create_market
    <3> QED
      BY <2>3, <3>1, <3>2, <3>3 DEF Pot
  <2>5. Sold = 0 /\ Sold' = 0
    <3>1. market.total_supply = 0
      BY <1>1, <2>2 DEF Initialized, TypeOK
    <3>2. Sold \in 0..market.total_supply
      BY <3>1, SupplyCirculates DEF Sold
    <3> QED
      BY <2>2, <3>1, <3>2 DEF Sold, circulating_supply
  <2>6. Priceless
    BY <2>2 DEF Shape
  <2>7. \A n \in Levels : Value(n) = 0 /\ Value(n)' = 0
    <3>1. market'.bid_prices = Zero /\ market.bid_prices = Zero
      BY <2>2, <2>6 DEF Priceless
    <3>2. Zero \in [Index -> Nat] /\ \A i \in Index : Zero[i] = 0
      BY DEF Zero
    <3>3. \A v \in Nat : \A n \in Int : Area(Zero, v, n) = 0
      BY <3>2, AreaNothing
    <3>4. market.width_scaled \in Nat /\ market'.width_scaled \in Nat
      BY <1>1, <2>1, <2>2, ValidSupplyDivides DEF create_market, TypeOK
    <3>5. \A n \in Levels : n \in Int
      BY DEF Levels
    <3>6. Priced(0) = 0
      BY CurveAssumption DEF Priced
    <3> QED
      BY <3>1, <3>3, <3>4, <3>5, <3>6 DEF Value, BidArea
  <2> QED
    BY <2>2, <2>4, <2>5, <2>7 DEF Unnoticed
<1>3. CASE Pricing
  <2>1. PICK user \in Users, c \in PriceCurves : set_market_prices(user, c.bid_prices, c.ask_prices)
    BY <1>3 DEF Pricing
  <2>2. /\ market'.base_reserve = market.base_reserve /\ market'.total_supply = market.total_supply
        /\ market'.width_scaled = market.width_scaled
        /\ market'.pending_creator_fees = market.pending_creator_fees
        /\ market'.pending_staking_fees = market.pending_staking_fees
        /\ market_quote' = market_quote /\ unpriced' = circulating_supply(market)
        /\ ~are_prices_set(market)
    BY <1>1, <2>1 DEF set_market_prices, TypeOK
  <2>3. Priceless
    BY <1>1, <2>2, CurvesOrdered
  <2>4. \A n \in Int : Value(n) = 0
    BY <2>3, PricelessFree
  <2>5. Sold' = Sold /\ Pot' = Pot /\ unpriced' = Sold
    BY <2>2 DEF Sold, circulating_supply, Pot, Backing
  <2>6. \A n \in Levels : Value(n) = 0
    BY <2>4 DEF Levels
  <2> QED
    BY <2>5, <2>6 DEF Appraisal
<1>4. CASE Swap
  BY <1>4, SwapDeals
<1>5. CASE Claim \/ Handover \/ Reshare \/ Administration \/ UNCHANGED vars
  <2>1. /\ market'.base_reserve = market.base_reserve /\ market'.total_supply = market.total_supply
        /\ market'.width_scaled = market.width_scaled
        /\ market'.bid_prices = market.bid_prices /\ unpriced' = unpriced
    BY <1>1, <1>5
       DEF Claim, claim_creator_fees, Handover, update_creator, Reshare, update_market_fee_shares,
           Administration, update_default_fee_shares, update_protocol_fee_recipient, vars, TypeOK
  <2>2. Backing' = Backing
    <3>1. CASE Claim
      <4>1. /\ market_quote \in Int /\ market.pending_creator_fees \in Int /\ market.pending_staking_fees \in Int
        BY <1>1, CurveAssumption DEF TypeOK, U64
      <4>2. /\ market_quote' = market_quote - market.pending_creator_fees
            /\ market'.pending_creator_fees = 0
            /\ market'.pending_staking_fees = market.pending_staking_fees
        BY <1>1, <3>1 DEF Claim, claim_creator_fees, TypeOK
      <4> QED
        BY <4>1, <4>2 DEF Backing
    <3>2. CASE Handover \/ Reshare \/ Administration \/ UNCHANGED vars
      <4>1. /\ market_quote' = market_quote
            /\ market'.pending_creator_fees = market.pending_creator_fees
            /\ market'.pending_staking_fees = market.pending_staking_fees
        BY <1>1, <3>2
           DEF Handover, update_creator, Reshare, update_market_fee_shares,
               Administration, update_default_fee_shares, update_protocol_fee_recipient, vars, TypeOK
      <4> QED
        BY <4>1 DEF Backing
    <3> QED
      BY <1>5, <3>1, <3>2
  <2> QED
    BY <2>1, <2>2 DEF Unnoticed, Sold, circulating_supply, Pot, Value, BidArea
<1> QED
  BY <1>2, <1>3, <1>4, <1>5 DEF Next

\* The abstract reserve, as the three kinds of step see it.
LEMMA AbstractStep ==
  ASSUME Backed, ReserveType, ReserveType', Unnoticed \/ Appraisal \/ Dealing
  PROVE  [Abstract!Next]_(Abstract!vars)
<1> DEFINE value == [n \in 0..MAX_TOTAL_SUPPLY |-> Priced(BidArea(n))]
<1>1. /\ value \in [Levels -> Int] /\ value' \in [Levels -> Int]
      /\ Sold \in Levels /\ Sold' \in Levels /\ unpriced \in Levels /\ unpriced' \in Levels
      /\ Pot \in Int /\ Pot' \in Int
      /\ \A n \in Levels : value[n] = Value(n) /\ value'[n] = Value(n)'
  BY DEF ReserveType, Levels, Value
<1>2. CASE Unnoticed
  <2>1. value' = value /\ Priced(BidArea(unpriced))' = Priced(BidArea(unpriced))
    BY <1>1, <1>2 DEF Unnoticed, Levels, Value
  <2> QED
    BY <1>2, <2>1 DEF Unnoticed, Abstract!vars, Sold, Pot
<1>3. CASE Appraisal
  <2>1. Priced(BidArea(unpriced))' = value'[Sold]
    BY <1>1, <1>3 DEF Appraisal, Value
  <2>2. \A n \in Levels : value[n] = 0
    BY <1>1, <1>3 DEF Appraisal
  <2>3. Pot >= 0
    <3>1. Value(unpriced) = 0 /\ Value(Sold) = 0
      BY <1>1, <1>3 DEF Appraisal
    <3> QED
      BY <1>1, <3>1 DEF Backed, Pot, Value, Sold
  <2> QED
    BY <1>1, <1>3, <2>1, <2>2, <2>3
       DEF Appraisal, Abstract!Next, Abstract!Appraise, Abstract!Unvalued, Sold, Pot, Levels
<1>4. CASE Dealing
  <2>1. value' = value /\ Priced(BidArea(unpriced))' = Priced(BidArea(unpriced))
    BY <1>1, <1>4 DEF Dealing, Levels, Value
  <2>2. Pot' - Pot >= value[Sold'] - value[Sold]
    BY <1>1, <1>4 DEF Dealing
  <2> QED
    BY <1>1, <2>1, <2>2 DEF Abstract!Next, Abstract!Trade, Sold, Pot, Levels
<1> QED
  BY <1>2, <1>3, <1>4

LEMMA AbstractInit == Init => Abstract!Init
<1> SUFFICES ASSUME Init PROVE Abstract!Init
  OBVIOUS
<1>1. Inv /\ Shape
  BY InitType, InitBase, InitShape DEF Inv
<1>2. ReserveType /\ Priceless
  BY <1>1, SupplyHeld, ReserveTypes DEF Init, Uninitialized, Priceless
<1>3. \A n \in Int : Value(n) = 0
  BY <1>1, <1>2, SupplyHeld, PricelessFree
<1>4. Backing = 0 /\ market.width_scaled = 0
  BY DEF Init, Uninitialized, Backing
<1>5. Pot = 0
  <2>1. Worth(0, 0) = 0
    BY WorthOrder
  <2> QED
    BY <1>4, <2>1 DEF Pot
<1>6. \A n \in Levels : n \in Int
  BY DEF Levels
<1> QED
  BY <1>2, <1>3, <1>5, <1>6
     DEF Abstract!Init, Abstract!TypeOK, Abstract!Unvalued, ReserveType, Sold, Pot, Value, Levels

-----------------------------------------------------------------------------
(* A step that keeps the books of one trade keeps the circulating tokens covered. *)

AbstractInv == Abstract!TypeOK /\ Abstract!Covered

LEMMA AbstractKeeps == AbstractInv /\ [Abstract!Next]_(Abstract!vars) => AbstractInv'
<1> SUFFICES ASSUME AbstractInv, [Abstract!Next]_(Abstract!vars) PROVE AbstractInv'
  OBVIOUS
<1> DEFINE sold == circulating_supply(market)
           pot == Worth(market.width_scaled, Backing)
           value == [n \in 0..MAX_TOTAL_SUPPLY |-> Priced(BidArea(n))]
           gap == Priced(BidArea(unpriced))
<1>1. /\ sold \in Levels /\ pot \in Int /\ value \in [Levels -> Int] /\ gap \in Int
      /\ pot + gap >= value[sold]
  BY DEF AbstractInv, Abstract!TypeOK, Abstract!Covered, Levels
<1>2. CASE Abstract!Appraise
  <2>1. /\ \A n \in Levels : value[n] = 0
        /\ value' \in [Levels -> Int] /\ gap' = value'[sold] /\ pot >= 0 /\ sold' = sold /\ pot' = pot
    BY <1>2 DEF Abstract!Appraise, Abstract!Unvalued, Levels
  <2> HIDE DEF sold, pot, value, gap
  <2>2. sold' \in Levels /\ pot' \in Int /\ gap' \in Int /\ pot' + gap' >= value'[sold']
    BY <1>1, <2>1
  <2> QED
    BY <2>1, <2>2 DEF AbstractInv, Abstract!TypeOK, Abstract!Covered, Levels, sold, pot, value, gap
<1>3. CASE Abstract!Trade
  <2>1. /\ sold' \in Levels /\ pot' \in Int /\ pot' - pot >= value[sold'] - value[sold]
        /\ value' = value /\ gap' = gap
    BY <1>3 DEF Abstract!Trade, Levels
  <2> HIDE DEF sold, pot, value, gap
  <2>2. value[sold] \in Int /\ value[sold'] \in Int
    BY <1>1, <2>1
  <2>3. value' \in [Levels -> Int] /\ gap' \in Int /\ pot' + gap' >= value'[sold']
    BY <1>1, <2>1, <2>2
  <2> QED
    BY <2>1, <2>3 DEF AbstractInv, Abstract!TypeOK, Abstract!Covered, Levels, sold, pot, value, gap
<1>4. CASE UNCHANGED Abstract!vars
  BY <1>4 DEF Abstract!vars, AbstractInv, Abstract!TypeOK, Abstract!Covered
<1> QED
  BY <1>2, <1>3, <1>4 DEF Abstract!Next

\* A market is backed exactly when its abstract reserve is covered.
LEMMA BackedCovers == SupplyInv /\ Shape => (Backed <=> Abstract!Covered)
<1> SUFFICES ASSUME SupplyInv, Shape PROVE Backed <=> Abstract!Covered
  OBVIOUS
<1>1. Sold \in Levels
  BY ReserveTypes DEF ReserveType
<1> QED
  BY <1>1 DEF Backed, Abstract!Covered, Sold, Levels

-----------------------------------------------------------------------------
(* The market implements the reserve. *)

LEMMA AbstractTypes == SupplyInv /\ Shape => Abstract!TypeOK
BY ReserveTypes DEF ReserveType, Abstract!TypeOK, Sold, Pot, Value, Levels

LEMMA AlwaysReserveInv ==
  ASSUME DecimalsFit
  PROVE  /\ Spec => []ReserveInv
         /\ Spec => ImplementsReserve
<1>1. Init => ReserveInv
  <2> SUFFICES ASSUME Init PROVE ReserveInv
    OBVIOUS
  <2>1. QuoteInv /\ Inv /\ Shape
    BY InitType, InitBase, InitQuote, InitShape DEF QuoteInv, Inv
  <2>2. Abstract!Covered
    BY AbstractInit DEF Abstract!Init, Abstract!TypeOK, Abstract!Covered, Abstract!Unvalued
  <2> QED
    BY <2>1, <2>2, SupplyHeld, BackedCovers DEF ReserveInv
<1>2. ReserveInv /\ [Next]_vars => Inv' /\ QuoteInv' /\ Shape'
  <2>1. ReserveInv /\ [Next]_vars => SupplyInv /\ Inv' /\ QuoteInv'
    BY SupplyHeld, StepType, StepBase, StepQuote DEF ReserveInv, QuoteInv, Inv
  <2>2. Inv' => SupplyInv'
    BY SupplyHeld, PTL
  <2> QED
    BY <2>1, <2>2, StepShape DEF ReserveInv
<1>3. Inv /\ Shape => ReserveType
  BY SupplyHeld, ReserveTypes
<1>4. Inv' /\ Shape' => ReserveType'
  BY <1>3, PTL
<1>5. ReserveInv /\ [Next]_vars => [Abstract!Next]_(Abstract!vars)
  <2> SUFFICES ASSUME ReserveInv, [Next]_vars PROVE [Abstract!Next]_(Abstract!vars)
    OBVIOUS
  <2>1. SupplyInv /\ Shape /\ Backed /\ Inv' /\ Shape' /\ ReserveType /\ ReserveType'
    BY SupplyHeld, <1>2, <1>3, <1>4 DEF ReserveInv, QuoteInv
  <2>2. Unnoticed \/ Appraisal \/ Dealing
    BY <2>1, StepReserve
  <2> QED
    BY <2>1, <2>2, AbstractStep
<1>6. Inv' /\ Shape' => (Backed' <=> Abstract!Covered')
  BY SupplyHeld, BackedCovers, PTL
<1>7. ReserveInv /\ [Next]_vars => ReserveInv'
  <2> SUFFICES ASSUME ReserveInv, [Next]_vars PROVE ReserveInv'
    OBVIOUS
  <2>1. AbstractInv
    BY SupplyHeld, AbstractTypes, BackedCovers DEF ReserveInv, QuoteInv, AbstractInv
  <2>2. AbstractInv'
    BY <1>5, <2>1, AbstractKeeps
  <2> QED
    BY <1>2, <1>6, <2>2 DEF ReserveInv, AbstractInv
<1>8. Spec => []ReserveInv
  BY <1>1, <1>7, PTL DEF Spec
<1>9. Spec => ImplementsReserve
  BY <1>5, <1>8, AbstractInit, PTL DEF Spec, ImplementsReserve, Abstract!Spec
<1> QED
  BY <1>8, <1>9

\* Every history of a market, with any curve, any users and any order of swaps, claims and
\* changes of the shares, is a history of the abstract reserve.
THEOREM AlwaysImplementsReserve ==
  ASSUME DecimalsFit
  PROVE  Spec => ImplementsReserve
BY AlwaysReserveInv

\* What is left in the market once the fees are paid always covers the bid value of the
\* circulating tokens, up to those that left before the prices were set.
THEOREM AlwaysBacked ==
  ASSUME DecimalsFit
  PROVE  Spec => []Backed
<1>1. ReserveInv => Backed
  BY DEF ReserveInv
<1> QED
  BY <1>1, AlwaysReserveInv, PTL

\* The quote tokens of the market fit a u64.
LEMMA QuoteFits ==
  ASSUME TypeInv, QuoteConserved
  PROVE  market_quote \in Nat /\ market_quote <= U64_MAX
<1>1. N \in Nat /\ user_quote \in [1..N -> Nat] /\ market_quote \in Nat
  BY MarketAssumption DEF TypeInv, TypeOK, Users
<1>2. SumTo(user_quote, N) \in Nat
  BY <1>1, SumNat
<1>3. N * InitialQuote \in Nat /\ N * InitialQuote <= U64_MAX /\ U64_MAX \in Nat
  BY MarketAssumption, CurveAssumption
<1> QED
  BY <1>1, <1>2, <1>3 DEF QuoteConserved

\* What is worth the circulating tokens pays for the sale of any part of them.
LEMMA SaleCovered ==
  ASSUME TypeInv, Shape, ReserveType, are_prices_set(market),
         NEW backing \in Int, backing <= U64_MAX, Worth(market.width_scaled, backing) >= Value(Sold),
         NEW amount \in 1..circulating_supply(market)
  PROVE  LET q == get_quote_amount(market, amount, "ExactInput")
         IN  q.ok /\ q.quote <= backing
<1> DEFINE w == market.width_scaled
           bid == market.bid_prices
           circ == circulating_supply(market)
           cost == Cost(bid, market, circ - amount, circ, "Down")
           q == get_quote_amount(market, amount, "ExactInput")
           left == Area(bid, w, circ - amount)
           all == Area(bid, w, circ)
<1>1. TypeInv /\ TypeOK /\ Shape /\ ReserveType
  BY DEF TypeInv
<1>2. circ \in Levels /\ circ \in Nat /\ amount \in Nat /\ amount <= circ /\ amount > 0
  BY <1>1 DEF ReserveType, Sold, Levels
<1>3. Initialized
  BY <1>1, CurvesOrdered DEF Shape
<1>4. Sound(market) /\ bid \in [Index -> Nat] /\ w \in Nat \ {0} /\ "Down" \in Rounding
  BY <1>1, <1>3 DEF Shape, Sound, Climbs, Rounding
<1>5. q = Quoted(amount, cost)
  BY <1>2, <1>4, SellExactBase
<1>6. cost \in Nat /\ Worth(w, cost) <= Priced(all - left)
  <2> DEFINE x == circ - amount
  <2>1. x \in Int /\ circ \in Int /\ x <= circ
    BY <1>2
  <2> HIDE DEF x
  <2> QED
    BY <1>4, <2>1, CostValue DEF x
<1>7. left \in Int /\ all \in Int /\ left >= 0
  <2> DEFINE x == circ - amount
  <2>1. x \in Int /\ 0 <= x /\ circ \in Int /\ w \in Nat /\ 0 \in Int /\ circ <= circ
    BY <1>2, <1>4
  <2> HIDE DEF x, w, bid, circ
  <2>2. /\ Area(bid, w, 0) <= Area(bid, w, x) /\ Area(bid, w, x) \in Int
        /\ \A n \in Int : Area(bid, w, n) \in Int
    <3>1. \A i \in Index : bid[i] <= bid[i]
      BY <1>4
    <3>2. Area(bid, w, 0) <= Area(bid, w, x) /\ Area(bid, w, x) \in Int
      BY <1>4, <2>1, <3>1, AreaGrows
    <3>3. ASSUME NEW n \in Int PROVE Area(bid, w, n) \in Int
      <4>1. n <= n
        OBVIOUS
      <4> QED
        BY <1>4, <2>1, <3>1, <4>1, AreaGrows
    <3> QED
      BY <3>2, <3>3
  <2>3. Area(bid, w, 0) = 0
    BY <1>4, <2>1, AreaNothing
  <2> QED
    BY <2>1, <2>2, <2>3 DEF x
<1>8. Worth(w, backing) >= Priced(all) /\ Worth(w, backing) \in Int
  <2>1. Value(Sold) = Priced(all)
    BY DEF Value, BidArea, Sold
  <2>2. w \in Nat
    BY <1>4
  <2> HIDE DEF w
  <2> QED
    BY <2>1, <2>2, WorthOrder DEF w
<1> HIDE DEF w, bid, circ, cost, q, left, all
<1>9. cost <= backing
  <2> DEFINE diff == all - left
  <2>1. diff \in Int /\ diff <= all
    BY <1>7
  <2> HIDE DEF diff
  <2>2. Priced(diff) <= Priced(all) /\ Priced(diff) \in Int
    BY <1>7, <2>1, PricedOrder
  <2>3. w \in Nat /\ w > 0 /\ cost \in Int
    BY <1>4, <1>6
  <2>4. Worth(w, cost) \in Int
    BY <2>3, WorthOrder
  <2>5. Priced(all) \in Int
    BY <1>7, PricedOrder
  <2>6. Worth(w, cost) <= Worth(w, backing)
    BY <1>6, <1>8, <2>2, <2>4, <2>5 DEF diff
  <2> QED
    BY <2>3, <2>6, WorthOrder
<1>10. amount \in U64 /\ cost \in U64
  <2>1. MAX_TOTAL_SUPPLY \in Nat /\ MAX_TOTAL_SUPPLY <= U64_MAX /\ U64_MAX \in Nat
    BY MarketAssumption, CurveAssumption
  <2> QED
    BY <1>2, <1>6, <1>9, <2>1 DEF U64, Levels
<1>11. q.ok /\ q.quote = cost
  BY <1>5, <1>10 DEF Quoted
<1> QED
  BY <1>9, <1>11 DEF q

\* Once the prices were set before the first swap, nothing is owed to nobody.
LEMMA PricedAtOnce ==
  ASSUME TypeInv, Shape, unpriced = 0
  PROVE  Value(unpriced) = 0
<1> DEFINE w == market.width_scaled
           bid == market.bid_prices
<1>1. w \in Nat /\ bid \in [Index -> Nat]
  BY DEF TypeInv, TypeOK
<1> HIDE DEF w, bid
<1>2. Area(bid, w, 0) = 0
  BY <1>1, AreaNothing
<1>3. BidArea(0) = 0
  BY <1>2 DEF BidArea, w, bid
<1> QED
  BY <1>3, CurveAssumption DEF Value, Priced

\* Whoever holds tokens can sell them, all or in part, and what they are paid was never owed
\* as a fee: a market whose prices were set before its first swap is always solvent.
THEOREM HoldersAlwaysExit ==
  ASSUME DecimalsFit
  PROVE  Spec => []HoldersCanExit
<1>1. ReserveInv => HoldersCanExit
  <2> SUFFICES ASSUME ReserveInv, are_prices_set(market), unpriced = 0,
                      NEW amount \in 1..circulating_supply(market)
               PROVE  LET q == get_quote_amount(market, amount, "ExactInput")
                      IN  q.ok /\ q.quote <= Backing
    BY DEF HoldersCanExit
  <2>1. TypeInv /\ TypeOK /\ QuoteConserved /\ Shape /\ Backed /\ ReserveType
    BY SupplyHeld, ReserveTypes DEF ReserveInv, QuoteInv, Inv, TypeInv
  <2>2. Backing \in Int /\ Pot = Worth(market.width_scaled, Backing) /\ Pot \in Int
    BY <2>1 DEF ReserveType, Pot
  <2>3. Backing <= U64_MAX
    <3>1. /\ market_quote \in Nat /\ market_quote <= U64_MAX /\ U64_MAX \in Nat
          /\ market.pending_creator_fees \in Nat /\ market.pending_staking_fees \in Nat
      BY <2>1, QuoteFits, CurveAssumption DEF TypeOK, U64
    <3> QED
      BY <3>1 DEF Backing
  <2>4. Pot >= Value(Sold)
    <3>1. Pot + Value(unpriced) >= Value(Sold) /\ Value(unpriced) = 0
      BY <2>1, PricedAtOnce DEF Backed, Pot, Value, Sold
    <3> QED
      BY <2>2, <3>1
  <2> QED
    BY <2>1, <2>2, <2>3, <2>4, SaleCovered
<1> QED
  BY <1>1, AlwaysReserveInv, PTL
=============================================================================
