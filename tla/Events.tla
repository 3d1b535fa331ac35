------------------------------- MODULE Events -------------------------------
(***************************************************************************)
(* The events of the program and what a reader of the log, an indexer,     *)
(* can rebuild from them: a book of one market that is never told the      *)
(* accounts, only the fields that the handlers emit.                       *)
(***************************************************************************)
EXTENDS Integers

\* The book before the market exists; the configuration announced its shares when it was
\* created, and did not say who receives the protocol's fees.
EmptyBook(users, plans, default_protocol_fee_share, referral_fee_share) ==
  [creator |-> 0, base_reserve |-> 0, prices |-> {}, creator_fee_share |-> 0, staking_fee_share |-> 0,
   default_protocol_fee_share |-> default_protocol_fee_share,
   referral_fee_share |-> referral_fee_share, protocol_fee_recipient |-> {},
   base |-> 0, quote |-> 0, creator_fees |-> 0, staking_fees |-> 0,
   staked |-> [u \in users |-> 0],
   plan |-> [p \in plans |-> [user |-> 0, left |-> 0]]]

\* Creation and prices.
BookLaunch(book, e) ==
  CASE e.event = "MarketCreation" ->
         [book EXCEPT !.creator = e.creator, !.base_reserve = e.total_supply, !.base = e.total_supply,
                      !.creator_fee_share = e.creator_fee_share,
                      !.staking_fee_share = e.staking_fee_share]
    [] e.event = "MarketPriceSet" -> [book EXCEPT !.prices = {<<e.bid_prices, e.ask_prices>>}]
    [] OTHER -> book

\* Settings of the market and its configuration.
BookSettings(book, e) ==
  CASE e.event = "DefaultFeeSharesUpdate" ->
         [book EXCEPT !.default_protocol_fee_share = e.new_default_protocol_fee_share,
                      !.referral_fee_share = e.new_referral_fee_share]
    [] e.event = "ProtocolFeeRecipientUpdate" ->
         [book EXCEPT !.protocol_fee_recipient = {e.new_protocol_fee_recipient}]
    [] e.event = "CreatorUpdate" -> [book EXCEPT !.creator = e.new_creator]
    [] e.event = "MarketFeeSharesUpdate" ->
         [book EXCEPT !.creator_fee_share = e.new_creator_fee_share,
                      !.staking_fee_share = e.new_staking_fee_share]
    [] OTHER -> book

\* Swaps, and fees that are paid out.
BookTrade(book, e) ==
  CASE e.event = "Swap" ->
         LET sign == IF e.swap_type = "Buy" THEN 1 ELSE -1 IN
         [book EXCEPT !.base_reserve = @ - sign * e.base_amount, !.base = @ - sign * e.base_amount,
                      !.quote = @ + sign * e.quote_amount - e.protocol_fee - e.referral_fee,
                      !.creator_fees = @ + e.creator_fee, !.staking_fees = @ + e.staking_fee]
    [] e.event = "CreatorFeeClaim" ->
         [book EXCEPT !.quote = @ - e.fees_distributed, !.creator_fees = @ - e.fees_distributed]
    [] e.event = "StakingRewardsClaim" ->
         [book EXCEPT !.quote = @ - e.amount_distributed, !.staking_fees = @ - e.amount_distributed]
    [] OTHER -> book

\* Stakes and vesting plans.
BookStake(book, e) ==
  CASE e.event = "StakingDeposit" ->
         [book EXCEPT !.base = @ + e.amount, !.staked[e.user] = @ + e.amount]
    [] e.event = "StakingWithdrawal" ->
         [book EXCEPT !.base = @ - e.amount, !.staked[e.user] = @ - e.amount]
    [] e.event = "VestingPlanCreation" ->
         [book EXCEPT !.base = @ + e.vesting_amount,
                      !.plan[e.vesting_plan] = [user |-> e.user, left |-> e.vesting_amount]]
    [] e.event = "VestingPlanRelease" ->
         [book EXCEPT !.base = @ - e.amount_released, !.plan[e.vesting_plan].left = @ - e.amount_released]
    [] OTHER -> book

Booked(book, e) == BookStake(BookTrade(BookSettings(BookLaunch(book, e), e), e), e)
=============================================================================
