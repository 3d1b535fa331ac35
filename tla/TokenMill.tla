----------------------------- MODULE TokenMill ------------------------------
(***************************************************************************)
(* The program as one system: a market with its staking and vesting.  The  *)
(* two components share both token accounts of the market and the record   *)
(* of its pending staking fees: a swap writes what the next staking        *)
(* operation spends.  Every instruction also emits its event.              *)
(*                                                                         *)
(* Staking is instantiated on the shared accounts, so that its handlers    *)
(* read and write market_base, market_quote, user_base and the field       *)
(* market.pending_staking_fees.  Its clock is the only thing that moves    *)
(* without an instruction.                                                 *)
(***************************************************************************)
EXTENDS Market, Events

CONSTANTS
  P,               \* vesting plans are 1..P
  STAKING_SCALE,
  StakeAmounts,    \* amounts deposited, withdrawn and vested
  FeeBound,        \* bound on all staking fees together
  Schedules,       \* vesting schedules asked for
  TimeBound        \* bound on the clock

ASSUME MillAssumption ==
  /\ P \in Nat /\ STAKING_SCALE \in Nat \ {0}
  /\ StakeAmounts \subseteq Nat /\ TimeBound \in Nat
  /\ FeeBound \in Nat /\ FeeBound <= U64_MAX
  /\ Schedules \subseteq [start : Int, vesting_duration : Int, cliff_duration : Int]

VARIABLES
  staking, position, plan,   \* the accounts of staking and vesting
  paid,            \* auxiliary: staking rewards paid to each user
  now,             \* Clock::get()?.unix_timestamp
  shared,          \* auxiliary: all staking fees that swaps have left
  book             \* auxiliary: what the events tell (module Events)

S == INSTANCE Staking WITH
  Amounts <- StakeAmounts, Fees <- 1..FeeBound, InitialBase <- 0,
  pending_staking_fees <- market.pending_staking_fees,
  fee_vault <- market_quote, stake_vault <- market_base

stake_vars == <<staking, position, plan, paid, now>>
mill_vars == <<vars, stake_vars, shared, book>>

MillInit ==
  /\ Init
  /\ staking = [open |-> FALSE, amount_staked |-> 0, total_amount_vested |-> 0, acc |-> 0]
  /\ position = [u \in Users |-> [open |-> FALSE, amount_staked |-> 0, total_amount_vested |-> 0,
                                  pending_rewards |-> 0, acc |-> 0]]
  /\ plan = [p \in 1..P |-> [owner |-> S!NoOwner, amount_vested |-> 0, amount_released |-> 0,
                             start |-> 0, vesting_duration |-> 0, cliff_duration |-> 0]]
  /\ paid = [u \in Users |-> 0] /\ now = 1 /\ shared = 0
  /\ book = EmptyBook(Users, 1..P, config.default_protocol_fee_share, config.referral_fee_share)

emit(e) == book' = Booked(book, e)

-----------------------------------------------------------------------------
(* The market's instructions. *)

CreateMarket(creator, supply, c, s) ==
  /\ create_market(creator, supply, c, s)
  /\ emit([event |-> "MarketCreation", creator |-> creator, total_supply |-> supply,
           creator_fee_share |-> c, staking_fee_share |-> s])
  /\ UNCHANGED <<stake_vars, shared>>

SetMarketPrices(user, bid_prices, ask_prices) ==
  /\ set_market_prices(user, bid_prices, ask_prices)
  /\ emit([event |-> "MarketPriceSet", bid_prices |-> bid_prices, ask_prices |-> ask_prices])
  /\ UNCHANGED <<stake_vars, shared>>

\* Mutant: the fees are split again for the event, without the referral.
SwapEvent_unreferred(swap_type, s, fee, referral) ==
  LET split == distribute_fee(market, s.swap_fee, 0) IN
  [event |-> "Swap", swap_type |-> swap_type, base_amount |-> s.base, quote_amount |-> s.quote,
   creator_fee |-> split.creator, staking_fee |-> split.staking,
   protocol_fee |-> fee.protocol + fee.referral, referral_fee |-> fee.referral]

\* TokenMillSwapEvent.
SwapEvent(swap_type, s, fee, referral) ==
  [event |-> "Swap", swap_type |-> swap_type, base_amount |-> s.base, quote_amount |-> s.quote,
   creator_fee |-> fee.creator, staking_fee |-> fee.staking,
   protocol_fee |-> fee.protocol, referral_fee |-> IF referral = NoReferral THEN 0 ELSE fee.referral]

Swapping(user, swap_type, swap_amount_type, s, threshold, referral) ==
  LET fee == distribute_fee(market, s.swap_fee,
                            IF referral = NoReferral THEN 0 ELSE config.referral_fee_share)
  IN
  /\ shared + fee.staking <= FeeBound
  /\ swap(user, swap_type, swap_amount_type, s, threshold, referral)
  /\ shared' = shared + fee.staking
  /\ emit(SwapEvent(swap_type, s, fee, referral))
  /\ UNCHANGED stake_vars

ClaimCreatorFees(user) ==
  /\ claim_creator_fees(user)
  /\ emit([event |-> "CreatorFeeClaim", fees_distributed |-> market.pending_creator_fees])
  /\ UNCHANGED <<stake_vars, shared>>

UpdateCreator(user, new_creator) ==
  /\ update_creator(user, new_creator)
  /\ emit([event |-> "CreatorUpdate", new_creator |-> new_creator])
  /\ UNCHANGED <<stake_vars, shared>>

UpdateMarketFeeShares(user, c, s) ==
  /\ update_market_fee_shares(user, c, s)
  /\ emit([event |-> "MarketFeeSharesUpdate", new_creator_fee_share |-> c, new_staking_fee_share |-> s])
  /\ UNCHANGED <<stake_vars, shared>>

UpdateDefaultFeeShares(p, r) ==
  /\ update_default_fee_shares(p, r)
  /\ emit([event |-> "DefaultFeeSharesUpdate", new_default_protocol_fee_share |-> p,
           new_referral_fee_share |-> r])
  /\ UNCHANGED <<stake_vars, shared>>

UpdateProtocolFeeRecipient(recipient) ==
  /\ update_protocol_fee_recipient(recipient)
  /\ emit([event |-> "ProtocolFeeRecipientUpdate", new_protocol_fee_recipient |-> recipient])
  /\ UNCHANGED <<stake_vars, shared>>

-----------------------------------------------------------------------------
(* The instructions of staking and vesting. *)

\* The pending fees are the only field of the market's record that the staking manager writes.
MarketAccrued ==
  market' = [market EXCEPT !.pending_staking_fees = S!PendingAfter(S!AccruedPerShare)]

StakingOnly == UNCHANGED <<config, user_quote, unpriced, shared>>

CreateStaking ==
  /\ Initialized /\ UNCHANGED market /\ S!create_staking
  /\ StakingOnly /\ UNCHANGED book

CreateStakePosition(user) ==
  /\ Initialized /\ UNCHANGED market /\ S!create_stake_position(user)
  /\ StakingOnly /\ UNCHANGED book

Deposit(user, amount) ==
  /\ MarketAccrued /\ S!deposit(user, amount) /\ StakingOnly
  /\ emit([event |-> "StakingDeposit", user |-> user, amount |-> amount])

Withdraw(user, amount) ==
  /\ MarketAccrued /\ S!withdraw(user, amount) /\ StakingOnly
  /\ emit([event |-> "StakingWithdrawal", user |-> user, amount |-> amount])

\* Mutant: the event is built after the pending rewards were reset.
ClaimStakingRewards_reset_first(user) ==
  /\ MarketAccrued /\ S!claim_staking_rewards(user)
  /\ user_quote' = Credit(user_quote, user, S!Claimable(user))
  /\ UNCHANGED <<config, unpriced, shared>>
  /\ emit([event |-> "StakingRewardsClaim", amount_distributed |-> position'[user].pending_rewards])

ClaimStakingRewards(user) ==
  /\ MarketAccrued /\ S!claim_staking_rewards(user)
  /\ user_quote' = Credit(user_quote, user, S!Claimable(user))
  /\ UNCHANGED <<config, unpriced, shared>>
  /\ emit([event |-> "StakingRewardsClaim", amount_distributed |-> S!Claimable(user)])

CreateVestingPlan(user, p, schedule, amount) ==
  /\ MarketAccrued /\ S!create_vesting_plan(user, p, schedule, amount) /\ StakingOnly
  /\ emit([event |-> "VestingPlanCreation", user |-> user, vesting_plan |-> p, vesting_amount |-> amount])

Release(p) ==
  /\ plan[p].owner # S!NoOwner
  /\ MarketAccrued /\ S!release(p) /\ StakingOnly
  /\ emit([event |-> "VestingPlanRelease", vesting_plan |-> p, amount_released |-> S!Releasable(p)])

Tick == UNCHANGED <<vars, shared, book>> /\ S!Tick

-----------------------------------------------------------------------------
(* The program's instructions, in the order of lib.rs. *)

MarketInstructions ==
  \/ \E creator \in Users, supply \in Supplies, c \in Shares, s \in Shares :
       CreateMarket(creator, supply, c, s)
  \/ \E user \in Users, c \in PriceCurves : SetMarketPrices(user, c.bid_prices, c.ask_prices)
  \/ \E swap_type \in {"Buy", "Sell"}, swap_amount_type \in {"ExactInput", "ExactOutput"},
        amount \in Amounts \ {0} :
       LET s == swap_amounts(market, swap_type, swap_amount_type, amount) IN
       /\ Initialized
       /\ \E user \in Traders, threshold \in Thresholds, referral \in Users \cup {NoReferral} :
            Swapping(user, swap_type, swap_amount_type, s, threshold, referral)

StakingInstructions ==
  \/ CreateStaking
  \/ \E user \in Users :
       \/ CreateStakePosition(user) \/ ClaimStakingRewards(user)
       \/ \E amount \in StakeAmounts : Deposit(user, amount) \/ Withdraw(user, amount)

VestingInstructions ==
  \E p \in 1..P :
    \/ Release(p)
    \/ \E user \in Users, schedule \in Schedules, amount \in StakeAmounts :
         CreateVestingPlan(user, p, schedule, amount)

CreatorInstructions ==
  \E user \in Users :
    \/ ClaimCreatorFees(user)
    \/ \E new_creator \in Users : UpdateCreator(user, new_creator)
    \/ \E c \in Shares, s \in Shares : UpdateMarketFeeShares(user, c, s)

AdminInstructions ==
  \/ \E p, r \in FeeShares : UpdateDefaultFeeShares(p, r)
  \/ \E recipient \in Recipients : UpdateProtocolFeeRecipient(recipient)

MillNext ==
  \/ MarketInstructions \/ StakingInstructions \/ VestingInstructions
  \/ CreatorInstructions \/ AdminInstructions \/ Tick

MillSpec == MillInit /\ [][MillNext]_mill_vars

-----------------------------------------------------------------------------
(* Properties. *)

\* One base token account serves two owners: it holds the reserve that the curve sells
\* from and everything that is staked or vesting, so that neither is ever paid from the
\* other (swap.rs and withdraw.rs transfer from the same market_base_token_ata).
BaseAccountCovered ==
  /\ market_base = market.base_reserve + S!SharesOf(staking)
  /\ SumTo(user_base, N) + market_base = market.total_supply

\* Staking fees that were left by swaps and not yet paid out.
StakingFeesHeld == shared - SumTo(paid, N)

\* One quote token account serves three owners: it covers the bid value of the circulating
\* tokens, the creator's pending fees, and everything owed to stakers, all at once.
MillBacking == market_quote - market.pending_creator_fees - StakingFeesHeld

QuoteAccountCovered ==
  /\ Worth(market.width_scaled, MillBacking) + Priced(BidArea(unpriced))
       >= Priced(BidArea(circulating_supply(market)))
  /\ STAKING_SCALE * StakingFeesHeld
       >= SumTo(S!Owed, N) + STAKING_SCALE * market.pending_staking_fees

\* Everybody can be paid at once: in a market whose prices were set before its first swap the
\* holders can sell every token they have, whatever the sellers get leaves the creator's
\* pending fees and all that is owed to stakers; every staker can claim and take back the
\* stake, and every plan pays what is due of it.
EveryoneCanBePaid ==
  unpriced = 0 =>
    /\ market.pending_creator_fees + StakingFeesHeld <= market_quote
    /\ S!StakersCanLeave /\ \A user \in Users : S!Claimable(user) <= StakingFeesHeld
    /\ are_prices_set(market) =>
         \A amount \in 1..circulating_supply(market) :
           LET q == get_quote_amount(market, amount, "ExactInput")
           IN  q.ok /\ q.quote <= MillBacking

\* The log tells the truth: a reader of the events alone knows the market's settings, the
\* balances of both token accounts, who is owed which fees, every stake and every plan.
BookAgrees ==
  /\ book.creator = (IF Initialized THEN market.creator ELSE 0)
  /\ book.creator_fee_share = market.creator_fee_share
  /\ book.staking_fee_share = market.staking_fee_share
  /\ book.prices = (IF are_prices_set(market) THEN {<<market.bid_prices, market.ask_prices>>} ELSE {})
  /\ book.default_protocol_fee_share = config.default_protocol_fee_share
  /\ book.referral_fee_share = config.referral_fee_share
  /\ book.protocol_fee_recipient \subseteq {config.protocol_fee_recipient}
  /\ book.base_reserve = market.base_reserve
  /\ book.base = market_base /\ book.quote = market_quote
  /\ book.creator_fees = market.pending_creator_fees
  /\ book.staking_fees = StakingFeesHeld
  /\ book.staked = S!StakedOf
  /\ \A p \in 1..P : book.plan[p] = [user |-> plan[p].owner,
                                    left |-> plan[p].amount_vested - plan[p].amount_released]

\* Staking as it is seen without the market: fees arrive out of nowhere and every user owns
\* tokens enough.
Rewards == INSTANCE Staking WITH
  Amounts <- StakeAmounts, Fees <- 1..FeeBound, InitialBase <- MAX_TOTAL_SUPPLY,
  pending_staking_fees <- market.pending_staking_fees,
  fee_vault <- StakingFeesHeld,
  stake_vault <- market_base - market.base_reserve,
  user_base <- [u \in Users |-> MAX_TOTAL_SUPPLY - S!SharesOf(position[u])]

\* In the shared accounts staking behaves as it does alone: swaps are its environment, and
\* nothing the market does disturbs a stake, a plan or a reward.
ImplementsStaking == Rewards!Spec
=============================================================================
