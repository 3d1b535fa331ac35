------------------------------ MODULE Staking -------------------------------
(***************************************************************************)
(* Staking of a market's base tokens and vesting of staked tokens: the     *)
(* accounts MarketStaking, StakePosition and VestingPlan, the functions of *)
(* staking_manager.rs, and the handlers that call them.                    *)
(*                                                                         *)
(* The market is seen only through pending_staking_fees and its two token  *)
(* accounts; a swap that leaves a staking fee is the action FeesArrive.    *)
(* Handlers are atomic, as in Market.                                      *)
(***************************************************************************)
EXTENDS Integers, Sums

CONSTANTS
  N,               \* users, and stake positions, are 1..N
  P,               \* vesting plans are 1..P
  STAKING_SCALE,
  U64_MAX,
  InitialBase,     \* base tokens each user starts with
  Amounts,         \* amounts deposited, withdrawn and vested
  Fees,            \* staking fees left by a swap
  FeeBound,        \* bound on all staking fees together
  Schedules,       \* vesting schedules asked for
  TimeBound        \* bound on the clock

ASSUME StakingAssumption ==
  /\ N \in Nat \ {0} /\ P \in Nat
  /\ STAKING_SCALE \in Nat \ {0} /\ U64_MAX \in Nat
  /\ InitialBase \in Nat
  /\ Amounts \subseteq Nat /\ Fees \subseteq Nat
  /\ FeeBound \in Nat /\ FeeBound <= U64_MAX
  /\ Schedules \subseteq [start : Int, vesting_duration : Int, cliff_duration : Int]
  /\ TimeBound \in Nat

\* The whole supply (at most MAX_TOTAL_SUPPLY, 10^15) is less than STAKING_SCALE (10^18).
SupplyFits == N * InitialBase <= STAKING_SCALE

VARIABLES
  staking,               \* the MarketStaking account
  position,              \* the StakePosition of each user
  plan,                  \* the VestingPlan accounts
  pending_staking_fees,  \* market.fees.pending_staking_fees
  fee_vault,             \* quote tokens in market_quote_token_ata that came as staking fees
  stake_vault,           \* base tokens in market_base_token_ata that came from stakers
  user_base,             \* base balance of each user
  paid,                  \* auxiliary: rewards paid to each user
  now                    \* Clock::get()?.unix_timestamp

vars == <<staking, position, plan, pending_staking_fees, fee_vault, stake_vault, user_base, paid, now>>

Users == 1..N
Plans == 1..P
U64 == 0..U64_MAX
NoOwner == 0

Init ==
  /\ staking = [open |-> FALSE, amount_staked |-> 0, total_amount_vested |-> 0, acc |-> 0]
  /\ position = [u \in Users |-> [open |-> FALSE, amount_staked |-> 0, total_amount_vested |-> 0,
                                  pending_rewards |-> 0, acc |-> 0]]
  /\ plan = [p \in Plans |-> [owner |-> NoOwner, amount_vested |-> 0, amount_released |-> 0,
                              start |-> 0, vesting_duration |-> 0, cliff_duration |-> 0]]
  /\ pending_staking_fees = 0 /\ fee_vault = 0 /\ stake_vault = 0
  /\ user_base = [u \in Users |-> InitialBase]
  /\ paid = [u \in Users |-> 0]
  /\ now = 1

SharesOf(account) == account.amount_staked + account.total_amount_vested

-----------------------------------------------------------------------------
(* Opening the accounts: each is a PDA that can be initialized once. *)

create_staking ==
  /\ ~staking.open
  /\ staking' = [staking EXCEPT !.open = TRUE]
  /\ UNCHANGED <<position, plan, pending_staking_fees, fee_vault, stake_vault, user_base, paid, now>>

create_stake_position(user) ==
  /\ ~position[user].open
  /\ position' = [position EXCEPT ![user].open = TRUE]
  /\ UNCHANGED <<staking, plan, pending_staking_fees, fee_vault, stake_vault, user_base, paid, now>>

-----------------------------------------------------------------------------
(* staking_manager.rs. *)

\* MarketStaking::accrue_rewards.
AccruedPerShare ==
  IF SharesOf(staking) > 0 /\ pending_staking_fees > 0
  THEN staking.acc + (pending_staking_fees * STAKING_SCALE) \div SharesOf(staking)
  ELSE staking.acc

\* StakePosition::accrue_rewards.
Reward(user, acc) == (SharesOf(position[user]) * (acc - position[user].acc)) \div STAKING_SCALE

\* The pending rewards of a user after accrual, which is what claiming now would pay.
Claimable(user) == position[user].pending_rewards + Reward(user, AccruedPerShare)

\* Mutant: the accrued fees are not taken off the pending ones.
PendingAfter_kept(acc) == pending_staking_fees

\* accrue_rewards of the manager resets the pending fees once anything was ever accrued.
PendingAfter(acc) == IF acc > 0 THEN 0 ELSE pending_staking_fees

\* Mutant: the vested total of the market is not moved.
Totals_without_vested(acc, staked, vested) ==
  [staking EXCEPT !.acc = acc, !.amount_staked = @ + staked]

\* The MarketStaking account after an operation.
Totals(acc, staked, vested) ==
  [staking EXCEPT !.acc = acc, !.amount_staked = @ + staked, !.total_amount_vested = @ + vested]

\* Mutant: the position keeps the accumulator from before this accrual.
Stake_stale(user, acc, rewards, staked, vested) ==
  [position[user] EXCEPT !.acc = staking.acc, !.pending_rewards = rewards,
                         !.amount_staked = @ + staked, !.total_amount_vested = @ + vested]

\* Mutant: new rewards replace the pending ones.
Stake_replacing(user, acc, rewards, staked, vested) ==
  [position[user] EXCEPT !.acc = acc, !.pending_rewards = rewards - @,
                         !.amount_staked = @ + staked, !.total_amount_vested = @ + vested]

\* The StakePosition account after an operation.
Stake(user, acc, rewards, staked, vested) ==
  [position[user] EXCEPT !.acc = acc, !.pending_rewards = rewards,
                         !.amount_staked = @ + staked, !.total_amount_vested = @ + vested]

\* The accounts exist, and no checked operation of an accrual and a move of a stake fails.
StakeFits(user, staked, vested) ==
  /\ staking.open /\ position[user].open
  /\ Reward(user, AccruedPerShare) \in U64 /\ Claimable(user) \in U64
  /\ staking.amount_staked + staked \in U64
  /\ staking.total_amount_vested + vested \in U64
  /\ position[user].amount_staked + staked \in U64
  /\ position[user].total_amount_vested + vested \in U64

\* deposit, deposit_vested, withdraw and withdraw_vested of the manager: accrue, then move
\* both totals.  `kept` is what of the position's rewards stays pending.
UpdateStake(user, staked, vested, kept) ==
  LET acc == AccruedPerShare IN
  /\ StakeFits(user, staked, vested)
  /\ staking' = Totals(acc, staked, vested)
  /\ pending_staking_fees' = PendingAfter(acc)
  /\ position' = [position EXCEPT ![user] = Stake(user, acc, kept, staked, vested)]

\* Mutant: a payment to the user is made without looking at the balance it comes from.
TransferStake_unchecked(user, amount) ==
  /\ user_base' = [user_base EXCEPT ![user] = @ - amount]
  /\ stake_vault' = stake_vault + amount

\* The account that pays has the tokens; a negative amount is paid by the market.
TransferFits(user, amount) == user_base[user] - amount >= 0 /\ stake_vault + amount >= 0

\* Base tokens move from the user to the market; a negative amount moves them back.
TransferStake(user, amount) ==
  /\ TransferFits(user, amount)
  /\ user_base' = [user_base EXCEPT ![user] = @ - amount]
  /\ stake_vault' = stake_vault + amount

-----------------------------------------------------------------------------
(* The staking handlers. *)

deposit(user, amount) ==
  /\ UpdateStake(user, amount, 0, Claimable(user))
  /\ TransferStake(user, amount)
  /\ UNCHANGED <<plan, fee_vault, paid, now>>

withdraw(user, amount) ==
  /\ amount <= position[user].amount_staked
  /\ UpdateStake(user, -amount, 0, Claimable(user))
  /\ TransferStake(user, -amount)
  /\ UNCHANGED <<plan, fee_vault, paid, now>>

claim_staking_rewards(user) ==
  /\ UpdateStake(user, 0, 0, 0)
  /\ Claimable(user) <= fee_vault
  /\ fee_vault' = fee_vault - Claimable(user)
  /\ paid' = [paid EXCEPT ![user] = @ + Claimable(user)]
  /\ UNCHANGED <<plan, stake_vault, user_base, now>>

-----------------------------------------------------------------------------
(* The vesting handlers. *)

create_vesting_plan(user, p, schedule, vesting_amount) ==
  /\ plan[p].owner = NoOwner
  /\ schedule.start > 0 /\ schedule.vesting_duration > 0 /\ schedule.cliff_duration > 0
  /\ schedule.vesting_duration > schedule.cliff_duration
  /\ schedule.start + schedule.vesting_duration > now
  /\ plan' = [plan EXCEPT ![p] =
       [owner |-> user, amount_vested |-> vesting_amount, amount_released |-> 0,
        start |-> schedule.start, vesting_duration |-> schedule.vesting_duration,
        cliff_duration |-> schedule.cliff_duration]]
  /\ UpdateStake(user, 0, vesting_amount, Claimable(user))
  /\ TransferStake(user, vesting_amount)
  /\ UNCHANGED <<fee_vault, paid, now>>

Elapsed(p) == now - plan[p].start

\* Mutant: the cliff is not looked at.
Releasable_without_cliff(p) ==
  IF Elapsed(p) >= plan[p].vesting_duration THEN plan[p].amount_vested - plan[p].amount_released
  ELSE (plan[p].amount_vested * Elapsed(p)) \div plan[p].vesting_duration - plan[p].amount_released

\* Mutant: the last second of the schedule never counts.
Releasable_but_last(p) ==
  CASE Elapsed(p) < plan[p].cliff_duration -> 0
    [] Elapsed(p) >= plan[p].vesting_duration ->
         (plan[p].amount_vested * (plan[p].vesting_duration - 1)) \div plan[p].vesting_duration
           - plan[p].amount_released
    [] OTHER -> (plan[p].amount_vested * Elapsed(p)) \div plan[p].vesting_duration
                  - plan[p].amount_released

\* VestingPlan::release: what a release of plan p would pay now.
Releasable(p) ==
  CASE Elapsed(p) < plan[p].cliff_duration -> 0
    [] Elapsed(p) >= plan[p].vesting_duration -> plan[p].amount_vested - plan[p].amount_released
    [] OTHER -> (plan[p].amount_vested * Elapsed(p)) \div plan[p].vesting_duration
                  - plan[p].amount_released

\* The product of amount_vested and the elapsed time is a checked u64 multiplication.
ReleaseFits(p) ==
  Elapsed(p) < plan[p].cliff_duration \/ Elapsed(p) >= plan[p].vesting_duration
    \/ plan[p].amount_vested * Elapsed(p) \in U64

\* Mutant: amount_released is not written back.
release_again(p) ==
  LET user == plan[p].owner
      amount == Releasable(p)
  IN
  /\ user # NoOwner
  /\ ReleaseFits(p) /\ amount >= 0
  /\ UpdateStake(user, 0, -amount, Claimable(user))
  /\ TransferStake(user, -amount)
  /\ UNCHANGED <<plan, fee_vault, paid, now>>

release(p) ==
  LET user == plan[p].owner
      amount == Releasable(p)
  IN
  /\ user # NoOwner
  /\ ReleaseFits(p) /\ amount >= 0
  /\ plan' = [plan EXCEPT ![p].amount_released = @ + amount]
  /\ UpdateStake(user, 0, -amount, Claimable(user))
  /\ TransferStake(user, -amount)
  /\ UNCHANGED <<fee_vault, paid, now>>

-----------------------------------------------------------------------------
(* The environment. *)

\* A swap's distribute_fee leaves a staking fee with the market.
FeesArrive(fee) ==
  /\ fee > 0
  /\ fee_vault + SumTo(paid, N) + fee <= FeeBound
  /\ pending_staking_fees' = pending_staking_fees + fee
  /\ fee_vault' = fee_vault + fee
  /\ UNCHANGED <<staking, position, plan, stake_vault, user_base, paid, now>>

Tick ==
  /\ now < TimeBound
  /\ now' = now + 1
  /\ UNCHANGED <<staking, position, plan, pending_staking_fees, fee_vault, stake_vault, user_base, paid>>

-----------------------------------------------------------------------------
Opening == create_staking \/ \E user \in Users : create_stake_position(user)
Deposit == \E user \in Users, amount \in Amounts : deposit(user, amount)
Withdraw == \E user \in Users, amount \in Amounts : withdraw(user, amount)
Claim == \E user \in Users : claim_staking_rewards(user)
Vest == \E user \in Users, p \in Plans, schedule \in Schedules, amount \in Amounts :
          create_vesting_plan(user, p, schedule, amount)
Release == \E p \in Plans : release(p)
Environment == (\E fee \in Fees : FeesArrive(fee)) \/ Tick

Next == Opening \/ Deposit \/ Withdraw \/ Claim \/ Vest \/ Release \/ Environment

Spec == Init /\ [][Next]_vars

\* Time passes, and the owner of a plan does not stop asking for what it releases.
FairSpec == Spec /\ WF_vars(Tick) /\ \A p \in Plans : WF_vars(release(p))

-----------------------------------------------------------------------------
(* Properties. *)

TypeOK ==
  /\ staking \in [open : BOOLEAN, amount_staked : U64, total_amount_vested : U64, acc : Nat]
  /\ position \in [Users -> [open : BOOLEAN, amount_staked : U64, total_amount_vested : U64,
                             pending_rewards : U64, acc : Nat]]
  /\ plan \in [Plans -> [owner : Users \cup {NoOwner}, amount_vested : Nat, amount_released : Nat,
                         start : Int, vesting_duration : Int, cliff_duration : Int]]
  /\ pending_staking_fees \in Nat /\ fee_vault \in Nat /\ stake_vault \in Nat
  /\ user_base \in [Users -> Nat] /\ paid \in [Users -> Nat]
  /\ now \in Nat

StakedOf == [u \in Users |-> position[u].amount_staked]
VestedOf == [u \in Users |-> position[u].total_amount_vested]

\* The totals that rewards are divided by are the sums of the positions that share them
\* (staking_manager.rs updates the two accounts separately, in four functions).
TotalsMatch ==
  /\ staking.amount_staked = SumTo(StakedOf, N)
  /\ staking.total_amount_vested = SumTo(VestedOf, N)

\* The market holds exactly the staked and vesting tokens of all positions, so that no
\* withdrawal and no release is ever paid from somebody else's stake.
StakesBacked == stake_vault = SharesOf(staking)

UnreleasedOf(user) ==
  [p \in Plans |-> IF plan[p].owner = user THEN plan[p].amount_vested - plan[p].amount_released ELSE 0]

\* A position's vested amount is what its plans have still to release: releases of several
\* plans through one position never run it out (withdraw_vested's checked subtraction).
PlansMatch ==
  \A user \in Users : position[user].total_amount_vested = SumTo(UnreleasedOf(user), P)

\* What is owed to the position of a user, times STAKING_SCALE.
OwedTo(user) ==
  STAKING_SCALE * position[user].pending_rewards
    + SharesOf(position[user]) * (staking.acc - position[user].acc)

Owed == [u \in Users |-> OwedTo(u)]

\* The staking fees held by the market always cover the unassigned fees and everything
\* owed to positions, through any interleaving of accruals, deposits and claims: the last
\* staker to claim is paid in full.
RewardsSolvent ==
  STAKING_SCALE * fee_vault >= SumTo(Owed, N) + STAKING_SCALE * pending_staking_fees

\* Every position can claim at any time: the narrowing to u64 and the sums of
\* StakePosition::accrue_rewards stay in range, and the market has the tokens to pay.
ClaimsPayable ==
  \A user \in Users :
    /\ Reward(user, AccruedPerShare) \in U64
    /\ Claimable(user) \in U64 /\ Claimable(user) <= fee_vault

\* Nobody is locked in: whoever staked can claim and take back any part of the stake, and the
\* owner of a plan gets what is due of it, unless its product overflows (ReleaseAvailable).
\* No checked operation on the way fails, and the tokens are there.
StakersCanLeave ==
  /\ \A user \in Users : staking.open /\ position[user].open =>
       /\ Claimable(user) <= fee_vault
       /\ \A amount \in 0..position[user].amount_staked :
            StakeFits(user, -amount, 0) /\ TransferFits(user, -amount)
  /\ \A p \in Plans : plan[p].owner # NoOwner /\ ReleaseFits(p) =>
       /\ Releasable(p) >= 0
       /\ StakeFits(plan[p].owner, 0, -Releasable(p)) /\ TransferFits(plan[p].owner, -Releasable(p))

\* Nothing is released before its cliff, nor faster than linearly, nor twice.
NeverReleasedEarly ==
  \A p \in Plans :
    /\ plan[p].amount_released <= plan[p].amount_vested
    /\ plan[p].amount_released > 0 =>
         /\ Elapsed(p) >= plan[p].cliff_duration
         /\ \/ Elapsed(p) >= plan[p].vesting_duration
            \/ plan[p].amount_released * plan[p].vesting_duration <= plan[p].amount_vested * Elapsed(p)

\* No operation takes away rewards that a position has earned: neither the deposits,
\* withdrawals and releases of the position itself nor those of others, whatever fees are
\* pending; only its own claim does, by paying them.
RewardsNeverShrink ==
  [][\A user \in Users : Claimable(user)' + paid'[user] >= Claimable(user) + paid[user]]_vars

\* Once somebody holds shares, a deposit earns nothing from the fees that arrived before
\* it, nor does a withdrawal keep a part in them that the deposit did not have.
NoRetroactiveRewards ==
  [][\A user \in Users :
       SharesOf(staking) > 0 /\ SharesOf(position'[user]) # SharesOf(position[user])
         => Claimable(user)' <= Claimable(user)]_vars

\* A release that is due never fails: between cliff and end part of the tokens is released
\* (release_after_cliff in vesting/release.rs).
ReleaseAvailable == \A p \in Plans : plan[p].owner # NoOwner => ReleaseFits(p)

\* Pending staking fees are only taken up when there are shares to receive them (README.md:
\* fees are shared with staking).
FeesReachShares ==
  [][pending_staking_fees' < pending_staking_fees => SharesOf(staking) > 0]_vars

\* Vesting ends: whatever else happens to the staking accounts, an owner who keeps asking
\* gets all of a plan's tokens, also when the releases before its end fail (ReleaseAvailable).
VestingCompletes ==
  \A p \in Plans :
    plan[p].owner # NoOwner ~>
      plan[p].owner # NoOwner /\ plan[p].amount_released = plan[p].amount_vested
=============================================================================
