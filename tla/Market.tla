------------------------------- MODULE Market -------------------------------
(***************************************************************************)
(* One market of the program and the token accounts around it: market      *)
(* creation, price setting, swaps with their fee split, the creator's      *)
(* operations, and the changes of the configuration that swaps read.       *)
(*                                                                         *)
(* An instruction is one atomic action: a transaction that fails anywhere  *)
(* is rolled back by the runtime, so a guard stands for every error return *)
(* and every checked operation (overflow-checks = true) of its handler.    *)
(***************************************************************************)
EXTENDS CurveValue

CONSTANTS
  N,               \* users are 1..N
  MAX_BPS,         \* 100% in basis points
  InitialQuote,    \* quote tokens each user starts with
  Supplies,        \* total supplies a creator asks for
  PriceCurves,     \* price curves a creator asks for, records [bid_prices, ask_prices]
  FeeShares,       \* default_protocol_fee_share and referral_fee_share values
  Traders,         \* users who swap
  Recipients,      \* values of protocol_fee_recipient
  Amounts,         \* amounts named by swaps
  Thresholds       \* other_amount_threshold values

ASSUME MarketAssumption ==
  /\ N \in Nat \ {0} /\ MAX_BPS \in Nat \ {0} /\ InitialQuote \in Nat
  /\ Supplies \subseteq Nat /\ FeeShares \subseteq Nat /\ Recipients \subseteq 1..N /\ Traders \subseteq 1..N
  /\ PriceCurves \subseteq [bid_prices : [Index -> Nat], ask_prices : [Index -> Nat]]
  /\ Amounts \subseteq U64 /\ Thresholds \subseteq U64
  /\ N * InitialQuote <= U64_MAX /\ MAX_TOTAL_SUPPLY <= U64_MAX

VARIABLES
  market,          \* the Market account, Uninitialized before create_market
  config,          \* the TokenMillConfig fields that swaps and market creation read
  market_base,     \* balance of market_base_token_ata
  market_quote,    \* balance of market_quote_token_ata
  user_base,       \* base balance of each user
  user_quote,      \* quote balance of each user
  unpriced         \* auxiliary: tokens already in circulation when the prices were set

vars == <<market, config, market_base, market_quote, user_base, user_quote, unpriced>>

Users == 1..N
NoReferral == 0
Shares == 0..MAX_BPS

Zero == [i \in Index |-> 0]

Uninitialized ==
  [creator |-> 1, base_reserve |-> 0, total_supply |-> 0, width_scaled |-> 0,
   bid_prices |-> Zero, ask_prices |-> Zero, creator_fee_share |-> 0, staking_fee_share |-> 0,
   pending_creator_fees |-> 0, pending_staking_fees |-> 0]

Initialized == market.total_supply > 0
are_prices_set(m) == m.ask_prices[INTERVAL_NUMBER] # 0

Init ==
  /\ market = Uninitialized
  /\ config \in [default_protocol_fee_share : FeeShares \cap Shares,
                 referral_fee_share : FeeShares \cap Shares, protocol_fee_recipient : Recipients]
  /\ market_base = 0 /\ market_quote = 0
  /\ user_base = [u \in Users |-> 0]
  /\ user_quote = [u \in Users |-> InitialQuote]
  /\ unpriced = 0

-----------------------------------------------------------------------------
(* Creation and pricing. *)

\* Market::initialize accepts only supplies that the intervals divide evenly.
ValidSupply(total_supply) ==
  /\ total_supply <= MAX_TOTAL_SUPPLY
  /\ total_supply \div INTERVAL_NUMBER >= BASE_PRECISION
  /\ total_supply % INTERVAL_NUMBER = 0

\* create_market and create_market_with_spl; the whole supply is minted to the market.
create_market(creator, total_supply, creator_fee_share, staking_fee_share) ==
  /\ ~Initialized
  /\ creator_fee_share + staking_fee_share + config.default_protocol_fee_share = MAX_BPS
  /\ ValidSupply(total_supply)
  /\ market' = [market EXCEPT
       !.creator = creator, !.total_supply = total_supply, !.base_reserve = total_supply,
       !.width_scaled = Normalized(total_supply \div INTERVAL_NUMBER),
       !.creator_fee_share = creator_fee_share, !.staking_fee_share = staking_fee_share]
  /\ market_base' = total_supply
  /\ UNCHANGED <<config, market_quote, user_base, user_quote, unpriced>>

\* The requirements of check_and_set_prices on the proposed prices.
ValidPrices(bid_prices, ask_prices) ==
  /\ \A i \in Index : bid_prices[i] <= ask_prices[i]
  /\ \A i \in 1..INTERVAL_NUMBER :
       ask_prices[i] > ask_prices[i - 1] /\ bid_prices[i] > bid_prices[i - 1]
  /\ ask_prices[INTERVAL_NUMBER] <= MAX_PRICE

\* Mutant: prices may be set again.
set_market_prices_again(user, bid_prices, ask_prices) ==
  /\ Initialized /\ user = market.creator
  /\ ValidPrices(bid_prices, ask_prices)
  /\ market' = [market EXCEPT !.bid_prices = bid_prices, !.ask_prices = ask_prices]
  /\ unpriced' = circulating_supply(market)
  /\ UNCHANGED <<config, market_base, market_quote, user_base, user_quote>>

set_market_prices(user, bid_prices, ask_prices) ==
  /\ Initialized /\ user = market.creator
  /\ ~are_prices_set(market)
  /\ ValidPrices(bid_prices, ask_prices)
  /\ market' = [market EXCEPT !.bid_prices = bid_prices, !.ask_prices = ask_prices]
  /\ unpriced' = circulating_supply(market)
  /\ UNCHANGED <<config, market_base, market_quote, user_base, user_quote>>

-----------------------------------------------------------------------------
(* Swaps. *)

\* Mutant: a sale is not put back into the reserve.
swap_amounts_forget_sale(m, swap_type, swap_amount_type, amount) ==
  LET q == CASE swap_type = "Buy" /\ swap_amount_type = "ExactInput" -> get_base_amount_out(m, amount)
             [] swap_type = "Sell" /\ swap_amount_type = "ExactOutput" -> get_base_amount_in(m, amount)
             [] OTHER -> get_quote_amount(m, amount, swap_amount_type)
  IN  [base |-> q.base, quote |-> q.quote, ok |-> q.ok, swap_fee |-> 0,
       base_reserve |-> IF swap_type = "Buy" THEN m.base_reserve - q.base ELSE m.base_reserve]

\* Mutant: the buyback price that is kept out of the fee is rounded down.
swap_amounts_low_buyback(m, swap_type, swap_amount_type, amount) ==
  LET q == CASE swap_type = "Buy" /\ swap_amount_type = "ExactInput" -> get_base_amount_out(m, amount)
             [] swap_type = "Sell" /\ swap_amount_type = "ExactOutput" -> get_base_amount_in(m, amount)
             [] OTHER -> get_quote_amount(m, amount, swap_amount_type)
      buyback == get_quote_amount_with_parameters(m, circulating_supply(m), q.base, "ExactInput", "Down")
      buying == swap_type = "Buy"
  IN  [base |-> q.base, quote |-> q.quote, ok |-> q.ok,
       swap_fee |-> IF buying /\ q.quote > buyback.quote THEN q.quote - buyback.quote ELSE 0,
       base_reserve |-> IF buying THEN m.base_reserve - q.base ELSE m.base_reserve + q.base]

\* Mutant: the new reserve is read off the token account.
swap_amounts_from_balance(m, swap_type, swap_amount_type, amount) ==
  LET q == CASE swap_type = "Buy" /\ swap_amount_type = "ExactInput" -> get_base_amount_out(m, amount)
             [] swap_type = "Sell" /\ swap_amount_type = "ExactOutput" -> get_base_amount_in(m, amount)
             [] OTHER -> get_quote_amount(m, amount, swap_amount_type)
      buyback == get_quote_amount_with_parameters(m, circulating_supply(m), q.base, "ExactInput", "Up")
  IN  IF swap_type = "Buy"
      THEN [base |-> q.base, quote |-> q.quote, ok |-> q.ok /\ buyback.ok,
            swap_fee |-> IF q.quote > buyback.quote THEN q.quote - buyback.quote ELSE 0,
            base_reserve |-> market_base - q.base]
      ELSE [base |-> q.base, quote |-> q.quote, ok |-> q.ok,
            swap_fee |-> 0, base_reserve |-> market_base + q.base]

\* swap_manager::swap: amounts, fee and new reserve.
swap_amounts(m, swap_type, swap_amount_type, amount) ==
  LET q == CASE swap_type = "Buy" /\ swap_amount_type = "ExactInput" -> get_base_amount_out(m, amount)
             [] swap_type = "Sell" /\ swap_amount_type = "ExactOutput" -> get_base_amount_in(m, amount)
             [] OTHER -> get_quote_amount(m, amount, swap_amount_type)
      buyback == get_quote_amount_with_parameters(m, circulating_supply(m), q.base, "ExactInput", "Up")
  IN  IF swap_type = "Buy"
      THEN [base |-> q.base, quote |-> q.quote, ok |-> q.ok /\ buyback.ok,
            swap_fee |-> IF q.quote > buyback.quote THEN q.quote - buyback.quote ELSE 0,
            base_reserve |-> m.base_reserve - q.base]
      ELSE [base |-> q.base, quote |-> q.quote, ok |-> q.ok,
            swap_fee |-> 0, base_reserve |-> m.base_reserve + q.base]

Portion(fee, share) == (fee * share) \div MAX_BPS

\* Mutant: the referral fee is not taken out of the protocol's part.
distribute_fee_twice(m, swap_fee, referral_fee_share) ==
  LET creator_fee == Portion(swap_fee, m.creator_fee_share)
      staking_fee == Portion(swap_fee, m.staking_fee_share)
      remaining_fee == swap_fee - creator_fee - staking_fee
  IN  [creator |-> creator_fee, staking |-> staking_fee,
       referral |-> Portion(remaining_fee, referral_fee_share), protocol |-> remaining_fee]

\* MarketFees::distribute_fee: the protocol gets what the others leave.
distribute_fee(m, swap_fee, referral_fee_share) ==
  LET creator_fee == Portion(swap_fee, m.creator_fee_share)
      staking_fee == Portion(swap_fee, m.staking_fee_share)
      remaining_fee == swap_fee - creator_fee - staking_fee
      referral_fee == Portion(remaining_fee, referral_fee_share)
  IN  [creator |-> creator_fee, staking |-> staking_fee,
       referral |-> referral_fee, protocol |-> remaining_fee - referral_fee]

Credit(balances, user, amount) == [balances EXCEPT ![user] = @ + amount]

\* Mutant: the protocol's transfer is forgotten.
Settle_without_protocol(user, user_delta, fee, referral) ==
  LET traded == Credit(user_quote, user, user_delta)
  IN  IF referral = NoReferral THEN traded ELSE Credit(traded, referral, fee.referral)

\* The quote transfers of a swap, in the handler's order: the user's leg, the protocol's
\* fee, the referrer's fee.
Settle(user, user_delta, fee, referral) ==
  LET traded == Credit(user_quote, user, user_delta)
      protocol == Credit(traded, config.protocol_fee_recipient, fee.protocol)
  IN  IF referral = NoReferral THEN protocol ELSE Credit(protocol, referral, fee.referral)

\* The handler of swap, given what swap_manager::swap returned for the amount named.
swap(user, swap_type, swap_amount_type, s, other_amount_threshold, referral) ==
  LET fee == distribute_fee(market, s.swap_fee,
                            IF referral = NoReferral THEN 0 ELSE config.referral_fee_share)
      amount_in == IF swap_type = "Buy" THEN s.quote ELSE s.base
      amount_out == IF swap_type = "Buy" THEN s.base ELSE s.quote
      balance_in == IF swap_type = "Buy" THEN user_quote[user] ELSE user_base[user]
      base_delta == IF swap_type = "Buy" THEN s.base ELSE -s.base
      quote_delta == IF swap_type = "Buy" THEN -s.quote ELSE s.quote
      quote_left == market_quote - quote_delta - fee.protocol - fee.referral
  IN
  /\ s.ok /\ s.base_reserve \in U64
  /\ fee.protocol \in U64 /\ fee.referral \in U64
  /\ market.pending_creator_fees + fee.creator <= U64_MAX
  /\ market.pending_staking_fees + fee.staking <= U64_MAX
  /\ IF swap_amount_type = "ExactInput" THEN amount_out >= other_amount_threshold
                                        ELSE amount_in <= other_amount_threshold
  /\ amount_in <= balance_in
  /\ market_base - base_delta >= 0 /\ quote_left >= 0
  /\ market' = [market EXCEPT !.base_reserve = s.base_reserve,
                              !.pending_creator_fees = @ + fee.creator,
                              !.pending_staking_fees = @ + fee.staking]
  /\ market_base' = market_base - base_delta
  /\ market_quote' = quote_left
  /\ user_base' = Credit(user_base, user, base_delta)
  /\ user_quote' = Settle(user, quote_delta, fee, referral)
  /\ UNCHANGED <<config, unpriced>>

-----------------------------------------------------------------------------
(* The creator's operations. *)

\* Mutant: the pending fees are reset before they are read.
claim_creator_fees_reset_first(user) ==
  /\ Initialized /\ user = market.creator
  /\ market' = [market EXCEPT !.pending_creator_fees = 0]
  /\ UNCHANGED <<config, market_base, market_quote, user_base, user_quote, unpriced>>

\* Mutant: both pending fees of the market are reset.
claim_creator_fees_reset_both(user) ==
  /\ Initialized /\ user = market.creator
  /\ market.pending_creator_fees <= market_quote
  /\ market' = [market EXCEPT !.pending_creator_fees = 0, !.pending_staking_fees = 0]
  /\ market_quote' = market_quote - market.pending_creator_fees
  /\ user_quote' = Credit(user_quote, user, market.pending_creator_fees)
  /\ UNCHANGED <<config, market_base, user_base, unpriced>>

claim_creator_fees(user) ==
  /\ Initialized /\ user = market.creator
  /\ market.pending_creator_fees <= market_quote
  /\ market' = [market EXCEPT !.pending_creator_fees = 0]
  /\ market_quote' = market_quote - market.pending_creator_fees
  /\ user_quote' = Credit(user_quote, user, market.pending_creator_fees)
  /\ UNCHANGED <<config, market_base, user_base, unpriced>>

update_creator(user, new_creator) ==
  /\ Initialized /\ user = market.creator
  /\ market' = [market EXCEPT !.creator = new_creator]
  /\ UNCHANGED <<config, market_base, market_quote, user_base, user_quote, unpriced>>

\* Mutant: the shares are not compared with the old ones.
update_market_fee_shares_free(user, new_creator_fee_share, new_staking_fee_share) ==
  /\ Initialized /\ user = market.creator
  /\ market' = [market EXCEPT !.creator_fee_share = new_creator_fee_share,
                              !.staking_fee_share = new_staking_fee_share]
  /\ UNCHANGED <<config, market_base, market_quote, user_base, user_quote, unpriced>>

\* Mutant: the total is completed with the configuration's present default.
update_market_fee_shares_live(user, new_creator_fee_share, new_staking_fee_share) ==
  /\ Initialized /\ user = market.creator
  /\ new_creator_fee_share + new_staking_fee_share + config.default_protocol_fee_share = MAX_BPS
  /\ market' = [market EXCEPT !.creator_fee_share = new_creator_fee_share,
                              !.staking_fee_share = new_staking_fee_share]
  /\ UNCHANGED <<config, market_base, market_quote, user_base, user_quote, unpriced>>

update_market_fee_shares(user, new_creator_fee_share, new_staking_fee_share) ==
  /\ Initialized /\ user = market.creator
  /\ new_creator_fee_share + new_staking_fee_share
       = market.creator_fee_share + market.staking_fee_share
  /\ market' = [market EXCEPT !.creator_fee_share = new_creator_fee_share,
                              !.staking_fee_share = new_staking_fee_share]
  /\ UNCHANGED <<config, market_base, market_quote, user_base, user_quote, unpriced>>

-----------------------------------------------------------------------------
(* The authority's operations that a live market feels. *)

\* Mutant: the bounds of the new shares are not checked.
update_default_fee_shares_unbounded(new_default_protocol_fee_share, new_referral_fee_share) ==
  /\ config' = [config EXCEPT !.default_protocol_fee_share = new_default_protocol_fee_share,
                              !.referral_fee_share = new_referral_fee_share]
  /\ UNCHANGED <<market, market_base, market_quote, user_base, user_quote, unpriced>>

update_default_fee_shares(new_default_protocol_fee_share, new_referral_fee_share) ==
  /\ new_default_protocol_fee_share <= MAX_BPS /\ new_referral_fee_share <= MAX_BPS
  /\ config' = [config EXCEPT !.default_protocol_fee_share = new_default_protocol_fee_share,
                              !.referral_fee_share = new_referral_fee_share]
  /\ UNCHANGED <<market, market_base, market_quote, user_base, user_quote, unpriced>>

update_protocol_fee_recipient(new_protocol_fee_recipient) ==
  /\ config' = [config EXCEPT !.protocol_fee_recipient = new_protocol_fee_recipient]
  /\ UNCHANGED <<market, market_base, market_quote, user_base, user_quote, unpriced>>

-----------------------------------------------------------------------------
Creation == \E creator \in Users, supply \in Supplies, c \in Shares, s \in Shares :
              create_market(creator, supply, c, s)
Pricing == \E user \in Users, c \in PriceCurves :
             set_market_prices(user, c.bid_prices, c.ask_prices)
Swap == \E swap_type \in {"Buy", "Sell"}, swap_amount_type \in {"ExactInput", "ExactOutput"},
           amount \in Amounts \ {0} :
          LET s == swap_amounts(market, swap_type, swap_amount_type, amount) IN
          /\ Initialized
          /\ \E user \in Traders, threshold \in Thresholds, referral \in Users \cup {NoReferral} :
               swap(user, swap_type, swap_amount_type, s, threshold, referral)
Claim == \E user \in Users : claim_creator_fees(user)
Handover == \E user, new_creator \in Users : update_creator(user, new_creator)
Reshare == \E user \in Users, c \in Shares, s \in Shares : update_market_fee_shares(user, c, s)
Administration ==
  \/ \E p, r \in FeeShares : update_default_fee_shares(p, r)
  \/ \E recipient \in Recipients : update_protocol_fee_recipient(recipient)

Next == Creation \/ Pricing \/ Swap \/ Claim \/ Handover \/ Reshare \/ Administration

Spec == Init /\ [][Next]_vars
-----------------------------------------------------------------------------
(* Properties. *)

TypeOK ==
  /\ market \in [creator : Users, base_reserve : Nat, total_supply : Nat, width_scaled : Nat,
                 bid_prices : [Index -> Nat], ask_prices : [Index -> Nat],
                 creator_fee_share : Shares, staking_fee_share : Shares,
                 pending_creator_fees : U64, pending_staking_fees : U64]
  /\ config \in [default_protocol_fee_share : Shares, referral_fee_share : Shares,
                 protocol_fee_recipient : Users]
  /\ market_base \in Nat /\ market_quote \in Nat
  /\ user_base \in [Users -> Nat] /\ user_quote \in [Users -> Nat]
  /\ unpriced \in Nat

\* Every base token is in a user's account or behind base_reserve: the reserve the pricing
\* reads is the balance the transfers use (swap_manager.rs against swap.rs's transfers).
BaseConserved ==
  /\ market_base = market.base_reserve
  /\ SumTo(user_base, N) + market_base = market.total_supply

\* No swap, fee split or claim creates or loses quote tokens.
QuoteConserved == SumTo(user_quote, N) + market_quote = N * InitialQuote

\* The quote balance of the market that is not owed as fees.
Backing == market_quote - market.pending_creator_fees - market.pending_staking_fees

BidArea(n) == Area(market.bid_prices, market.width_scaled, n)

\* After any history of swaps, claims and share changes, the quote left in the market once
\* all pending fees are paid covers the bid value of the circulating tokens, except for
\* tokens that left the reserve before the prices were set (swap.rs has no such check).
Backed ==
  Worth(market.width_scaled, Backing) + Priced(BidArea(unpriced))
    >= Priced(BidArea(circulating_supply(market)))

\* A market whose prices were set before its first swap can buy back any part of the
\* circulating supply without touching what it owes as fees.
HoldersCanExit ==
  are_prices_set(market) /\ unpriced = 0 =>
    \A amount \in 1..circulating_supply(market) :
      LET q == get_quote_amount(market, amount, "ExactInput")
      IN  q.ok /\ q.quote <= Backing

\* distribute_fee cannot underflow, for any fee and whatever the authority has since made
\* of the referral share: the market's own shares always leave a remainder.
FeeSplitFits ==
  \A swap_fee \in 0..(N * InitialQuote), referral_fee_share \in {0, config.referral_fee_share} :
    LET fee == distribute_fee(market, swap_fee, referral_fee_share)
    IN  fee.protocol >= 0 /\ fee.referral >= 0

\* The protocol's share is fixed when the market is created: neither the creator's
\* update_market_fee_shares nor the authority's new defaults move it
\* (comment in creator/update_market_fee_shares.rs).
ProtocolShareFixed ==
  [][Initialized => market'.creator_fee_share + market'.staking_fee_share
                      = market.creator_fee_share + market.staking_fee_share]_vars

\* Only whole fees leave the two fee pots: pending_staking_fees is never reduced by a market
\* instruction, and pending_creator_fees only by paying all of it out.
FeePotsOnlyGrow ==
  [][/\ market'.pending_staking_fees >= market.pending_staking_fees
     /\ \/ market'.pending_creator_fees >= market.pending_creator_fees
        \/ market_quote - market_quote' = market.pending_creator_fees]_vars

\* The market as the abstract reserve: claims and share changes stutter, a swap is a trade.
Abstract == INSTANCE Reserve WITH
  Levels <- 0..MAX_TOTAL_SUPPLY,
  sold <- circulating_supply(market),
  pot <- Worth(market.width_scaled, Backing),
  value <- [n \in 0..MAX_TOTAL_SUPPLY |-> Priced(BidArea(n))],
  gap <- Priced(BidArea(unpriced))

\* Every history of the market is a history of the abstract reserve.
ImplementsReserve == Abstract!Spec
=============================================================================
