-------------------------- MODULE TokenMillProofs ---------------------------
(***************************************************************************)
(* Proofs about the program as one system: the two token accounts of a     *)
(* market cover all their owners at once, and staking behaves inside the   *)
(* shared accounts as it does alone.                                       *)
(*                                                                         *)
(* The theorems of StakingProofs are used for the composition: RP is that  *)
(* module on the shared accounts, with the part of them that belongs to    *)
(* the stakers in place of its own token accounts.  Steps of the market    *)
(* are steps of Market, so that the lemmas of MarketProofs apply to them.  *)
(***************************************************************************)
EXTENDS TokenMill, MarketProofs

RP == INSTANCE StakingProofs WITH
  Amounts <- StakeAmounts, Fees <- 1..FeeBound, InitialBase <- MAX_TOTAL_SUPPLY,
  pending_staking_fees <- market.pending_staking_fees,
  fee_vault <- StakingFeesHeld,
  stake_vault <- market_base - market.base_reserve,
  user_base <- [u \in Users |-> MAX_TOTAL_SUPPLY - S!SharesOf(position[u])]

\* What StakingProofs assumes of its constants holds of those it is given.
LEMMA StakingConstants ==
  /\ N \in Nat \ {0} /\ P \in Nat
  /\ STAKING_SCALE \in Nat \ {0} /\ U64_MAX \in Nat
  /\ MAX_TOTAL_SUPPLY \in Nat
  /\ StakeAmounts \subseteq Nat /\ 1..FeeBound \subseteq Nat
  /\ FeeBound \in Nat /\ FeeBound <= U64_MAX
  /\ Schedules \subseteq [start : Int, vesting_duration : Int, cliff_duration : Int]
  /\ TimeBound \in Nat
BY MillAssumption, MarketAssumption, CurveAssumption

-----------------------------------------------------------------------------
(* The staking manager reads and writes the same accounts in both views. *)

LEMMA SameSum ==
  \A f, n : /\ S!SumTo(f, n) = SumTo(f, n) /\ RP!SumTo(f, n) = SumTo(f, n)
            /\ Rewards!SumTo(f, n) = SumTo(f, n)
BY DEF S!SumTo, RP!SumTo, Rewards!SumTo, SumTo,
       S!PartialSums, RP!PartialSums, Rewards!PartialSums, PartialSums

LEMMA SameManager ==
  /\ \A account : S!SharesOf(account) = RP!SharesOf(account)
  /\ \A user : S!Claimable(user) = RP!Claimable(user)
  /\ \A acc : S!PendingAfter(acc) = RP!PendingAfter(acc)
  /\ S!AccruedPerShare = RP!AccruedPerShare
  /\ \A user, staked, vested, kept :
       S!UpdateStake(user, staked, vested, kept) <=> RP!UpdateStake(user, staked, vested, kept)
BY DEF S!UpdateStake, S!StakeFits, RP!UpdateStake, RP!StakeFits, S!AccruedPerShare, RP!AccruedPerShare,
       S!SharesOf, RP!SharesOf, S!Reward, RP!Reward, S!Claimable, RP!Claimable,
       S!Totals, RP!Totals, S!Stake, RP!Stake, S!PendingAfter, RP!PendingAfter, S!U64, RP!U64

LEMMA SameSchedule ==
  \A p : S!Releasable(p) = RP!Releasable(p) /\ (S!ReleaseFits(p) <=> RP!ReleaseFits(p))
BY DEF S!Releasable, RP!Releasable, S!ReleaseFits, RP!ReleaseFits, S!Elapsed, RP!Elapsed, S!U64, RP!U64

-----------------------------------------------------------------------------
(* The invariant. *)

\* Nobody stakes in a market that does not exist, and no fees come from it.
Opened == ~Initialized => ~staking.open /\ shared = 0

MillInv ==
  /\ TypeInv /\ TokensHeld /\ Shape
  /\ RP!PayInv /\ shared \in Nat /\ Opened

\* What the parts of the invariant say about the shared accounts.
LEMMA MillTypes ==
  ASSUME MillInv
  PROVE  /\ RP!TypeOK /\ RP!TypeInv /\ RP!TotalsMatch /\ RP!AccOrdered /\ RP!RewardsSolvent
         /\ Vault = RP!SharesOf(staking) /\ Vault \in Nat
         /\ N \in Nat /\ TypeOK /\ SupplyInv
         /\ paid \in [1..N -> Nat] /\ SumTo(paid, N) \in Nat
         /\ StakingFeesHeld = shared - SumTo(paid, N) /\ StakingFeesHeld \in Nat
         /\ shared <= FeeBound
<1>1. /\ RP!TypeOK /\ RP!TypeInv /\ RP!TotalsMatch /\ RP!AccOrdered /\ RP!RewardsSolvent
      /\ RP!StakesBacked /\ RP!FeesBounded
  BY DEF MillInv, RP!PayInv, RP!RewardsInv, RP!AccountsInv, RP!TypeInv
<1>2. Vault = RP!SharesOf(staking) /\ Vault \in Nat
  BY <1>1 DEF RP!StakesBacked, RP!TypeOK, Vault
<1>3. /\ N \in Nat /\ TypeOK /\ paid \in [1..N -> Nat] /\ StakingFeesHeld \in Nat
      /\ StakingFeesHeld = shared - SumTo(paid, N)
  BY <1>1, MarketAssumption DEF MillInv, TypeInv, RP!TypeOK, RP!Users, StakingFeesHeld
<1>4. SumTo(paid, N) \in Nat
  BY <1>3, SumNat
<1>5. shared <= FeeBound
  <2>1. StakingFeesHeld + SumTo(paid, N) <= FeeBound
    BY <1>1, SameSum DEF RP!FeesBounded
  <2> QED
    BY <1>3, <1>4, <2>1 DEF MillInv
<1>6. SupplyInv
  <2>1. user_base \in [1..N -> Nat] /\ market.base_reserve \in Nat /\ market.total_supply \in Nat
    BY <1>3 DEF TypeOK, Users
  <2>2. SumTo(user_base, N) \in Nat
    BY <1>3, <2>1, SumNat
  <2>3. market_base >= market.base_reserve /\ SumTo(user_base, N) + market_base = market.total_supply
    BY <1>2, <1>3, <2>1 DEF Vault, TypeOK, MillInv, TokensHeld
  <2>4. market.base_reserve <= market.total_supply
    BY <1>3, <2>1, <2>2, <2>3 DEF TypeOK
  <2> QED
    BY <2>4 DEF SupplyInv, MillInv
<1> QED
  BY <1>1, <1>2, <1>3, <1>4, <1>5, <1>6

\* Nobody has more tokens and shares than there are tokens.
LEMMA Room ==
  ASSUME MillInv, NEW user \in Users
  PROVE  /\ user_base[user] \in Nat /\ RP!SharesOf(position[user]) \in Nat
         /\ user_base[user] + RP!SharesOf(position[user]) <= MAX_TOTAL_SUPPLY
         /\ RP!SharesOf(position[user]) <= Vault
<1>1. /\ RP!TypeOK /\ RP!TotalsMatch /\ RP!AccOrdered /\ N \in Nat /\ TypeOK
      /\ Vault = RP!SharesOf(staking)
  BY MillTypes
<1>2. /\ user_base \in [1..N -> Nat] /\ RP!ShareOf \in [1..N -> Nat]
      /\ RP!ShareOf[user] = RP!SharesOf(position[user])
  BY <1>1, RP!RewardTypes, StakingConstants DEF RP!ShareOf, RP!Users, Users, TypeOK
<1>3. Vault = SumTo(RP!ShareOf, N)
  BY <1>1, RP!SharesAddUp, StakingConstants, SameSum
<1> DEFINE f == user_base
           g == RP!ShareOf
           h == [i \in 1..N |-> user_base[i] + RP!ShareOf[i]]
<1>4. f \in [1..N -> Nat] /\ g \in [1..N -> Nat] /\ h \in [1..N -> Nat] /\ user \in 1..N
  BY <1>2 DEF Users
<1>5. \A i \in 1..N : h[i] = f[i] + 1 * g[i]
  BY <1>4
<1> HIDE DEF f, g, h
<1>6. SumTo(h, N) = SumTo(f, N) + 1 * SumTo(g, N)
  <2>1. f \in [1..N -> Int] /\ g \in [1..N -> Int] /\ h \in [1..N -> Int] /\ 1 \in Int
    BY <1>4
  <2> QED
    BY <1>1, <1>5, <2>1, SumLinear
<1>7. h[user] <= SumTo(h, N) /\ g[user] <= SumTo(g, N)
  BY <1>1, <1>4, SumNat
<1>8. SumTo(f, N) \in Nat /\ SumTo(g, N) \in Nat
  BY <1>1, <1>4, SumNat
<1>9. h[user] = f[user] + g[user] /\ f[user] \in Nat /\ g[user] \in Nat
  BY <1>4, <1>5
<1>10. /\ SumTo(f, N) + market_base = market.total_supply
       /\ SumTo(g, N) = market_base - market.base_reserve
       /\ market_base \in Nat /\ market.base_reserve \in Nat
       /\ market.total_supply \in Nat /\ market.total_supply <= MAX_TOTAL_SUPPLY
  BY <1>1, <1>3 DEF f, g, Vault, MillInv, TokensHeld, Shape, TypeOK
<1>11. MAX_TOTAL_SUPPLY \in Nat
  BY CurveAssumption
<1>12. h[user] <= MAX_TOTAL_SUPPLY
  BY <1>6, <1>7, <1>8, <1>9, <1>10, <1>11
<1>13. user_base[user] = f[user] /\ RP!SharesOf(position[user]) = g[user] /\ Vault = SumTo(g, N)
  BY <1>2, <1>3 DEF f, g
<1> QED
  BY <1>7, <1>9, <1>12, <1>13

-----------------------------------------------------------------------------
(* Steps of staking and vesting. *)

\* The staking manager writes one field of the market's record.
FeesTaken ==
  /\ \E pending \in U64 : market' = [market EXCEPT !.pending_staking_fees = pending]
  /\ UNCHANGED <<config, unpriced, shared>>

\* What a step of staking keeps of the invariant without being a step of the market.
Aside ==
  /\ FeesTaken /\ (Initialized \/ UNCHANGED market)
  /\ TypeInv' /\ TokensHeld' /\ Shape' /\ Opened'
  /\ MillBacking' = MillBacking

LEMMA FeesTakenFields ==
  ASSUME TypeInv, FeesTaken
  PROVE  /\ market'.base_reserve = market.base_reserve /\ market'.total_supply = market.total_supply
         /\ market'.width_scaled = market.width_scaled
         /\ market'.bid_prices = market.bid_prices /\ market'.ask_prices = market.ask_prices
         /\ market'.pending_creator_fees = market.pending_creator_fees
         /\ market'.creator_fee_share = market.creator_fee_share
         /\ market'.staking_fee_share = market.staking_fee_share
         /\ market'.creator = market.creator
         /\ market'.pending_staking_fees \in U64
BY DEF FeesTaken, TypeInv, TypeOK

LEMMA AccruedTaken ==
  ASSUME TypeInv, MarketAccrued
  PROVE  \E pending \in U64 : market' = [market EXCEPT !.pending_staking_fees = pending]
<1>1. S!PendingAfter(S!AccruedPerShare) \in U64
  BY CurveAssumption DEF S!PendingAfter, TypeInv, TypeOK, U64
<1> QED
  BY <1>1 DEF MarketAccrued

\* Taking the pending fees keeps the market's shape.
LEMMA TakenShape ==
  ASSUME TypeInv, Shape, FeesTaken, Initialized
  PROVE  Shape' /\ Initialized'
<1>1. /\ market'.base_reserve = market.base_reserve /\ market'.total_supply = market.total_supply
      /\ market'.width_scaled = market.width_scaled
      /\ market'.bid_prices = market.bid_prices /\ market'.ask_prices = market.ask_prices
      /\ unpriced' = unpriced
  BY FeesTakenFields DEF FeesTaken
<1>2. Initialized' /\ (Priceless' <=> Priceless)
  BY <1>1 DEF Initialized, Priceless
<1>3. Sound(market')
  BY <1>1 DEF Sound, Shape
<1> QED
  BY <1>1, <1>2, <1>3 DEF Shape

\* A change of a position comes with the same transfer in both views: the shares of the
\* user and of all users leave room for it.
LEMMA MoveShares ==
  ASSUME MillInv, NEW user \in Users, NEW staked \in Int, NEW vested \in Int, NEW kept \in U64,
         NEW amount \in Int, amount = staked + vested, MarketAccrued,
         S!UpdateStake(user, staked, vested, kept), S!TransferStake(user, amount)
  PROVE  /\ RP!UpdateStake(user, staked, vested, kept) /\ RP!TransferStake(user, amount)
         /\ user_base' \in [Users -> Nat] /\ market_base' \in Nat /\ TokensHeld'
<1>1. /\ TypeOK /\ TypeInv /\ RP!TypeOK /\ N \in Nat
      /\ Vault = RP!SharesOf(staking) /\ Vault \in Nat
  BY MillTypes DEF MillInv
<1>2. RP!UpdateStake(user, staked, vested, kept)
  BY SameManager
<1>3. /\ user_base[user] \in Nat /\ RP!SharesOf(position[user]) \in Nat
      /\ user_base[user] + RP!SharesOf(position[user]) <= MAX_TOTAL_SUPPLY
      /\ RP!SharesOf(position[user]) <= Vault
  BY Room
<1>4. /\ user_base[user] - amount >= 0 /\ market_base + amount >= 0
      /\ user_base' = [user_base EXCEPT ![user] = @ - amount]
      /\ market_base' = market_base + amount
  BY DEF S!TransferStake, S!TransferFits
<1>5. market'.base_reserve = market.base_reserve /\ market'.total_supply = market.total_supply
  BY <1>1, AccruedTaken DEF TypeOK
<1>6. user_base' \in [Users -> Nat] /\ market_base' \in Nat
  BY <1>1, <1>4 DEF TypeOK
<1>7. TokensHeld'
  <2>1. user_base' = Credit(user_base, user, -amount) /\ user_base \in [Users -> Int] /\ -amount \in Int
    <3>1. user_base \in [Users -> Int] /\ -amount \in Int
      BY <1>1 DEF TypeOK
    <3>2. user_base[user] - amount = user_base[user] + (-amount)
      BY <3>1
    <3> QED
      BY <1>4, <3>1, <3>2 DEF Credit
  <2>2. SumTo(user_base', N) = SumTo(user_base, N) + (-amount)
    BY <2>1, CreditSum
  <2>3. SumTo(user_base, N) \in Int /\ market_base \in Int
    BY <1>1, <2>1, SumInt DEF Users, TypeOK
  <2> QED
    BY <1>4, <1>5, <2>2, <2>3 DEF TokensHeld, MillInv
<1>8. /\ RP!SharesOf(position'[user]) = RP!SharesOf(position[user]) + amount
      /\ \A u \in Users : u # user => position'[u] = position[u]
      /\ RP!SharesOf(position'[user]) >= 0
  <2>1. /\ position[user].amount_staked \in Int /\ position[user].total_amount_vested \in Int
        /\ position[user].amount_staked + staked >= 0
        /\ position[user].total_amount_vested + vested >= 0
    <3>1. /\ position[user].amount_staked \in RP!U64 /\ position[user].total_amount_vested \in RP!U64
          /\ position[user].amount_staked + staked \in RP!U64
          /\ position[user].total_amount_vested + vested \in RP!U64
      BY <1>1, <1>2 DEF RP!UpdateStake, RP!StakeFits, RP!TypeOK, RP!Users, Users
    <3> QED
      BY <3>1, CurveAssumption DEF RP!U64
  <2>2. /\ position'[user].amount_staked = position[user].amount_staked + staked
        /\ position'[user].total_amount_vested = position[user].total_amount_vested + vested
        /\ \A u \in Users : u # user => position'[u] = position[u]
    BY <1>1, <1>2 DEF RP!UpdateStake, RP!StakeFits, RP!Stake, RP!TypeOK, RP!Users, Users
  <2> QED
    BY <2>1, <2>2 DEF RP!SharesOf
<1>9. RP!TransferStake(user, amount)
  <2> DEFINE own == [u \in Users |-> MAX_TOTAL_SUPPLY - S!SharesOf(position[u])]
  <2>1. MAX_TOTAL_SUPPLY \in Nat
    BY CurveAssumption
  <2>2. MAX_TOTAL_SUPPLY - RP!SharesOf(position[user]) - amount >= 0 /\ Vault + amount >= 0
    <3> DEFINE held == user_base[user]
               shares == RP!SharesOf(position[user])
               new == RP!SharesOf(position'[user])
               vault == Vault
    <3>1. /\ held \in Nat /\ shares \in Nat /\ held + shares <= MAX_TOTAL_SUPPLY /\ shares <= vault
          /\ vault \in Nat /\ held - amount >= 0 /\ new = shares + amount /\ new >= 0
      BY <1>1, <1>3, <1>4, <1>8
    <3> HIDE DEF held, shares, new, vault
    <3>2. MAX_TOTAL_SUPPLY - shares - amount >= 0 /\ vault + amount >= 0
      BY <2>1, <3>1
    <3> QED
      BY <3>2 DEF shares, vault
  <2>3. own' = [own EXCEPT ![user] = @ - amount] /\ own[user] - amount >= 0
    <3> DEFINE left(p) == MAX_TOTAL_SUPPLY - S!SharesOf(p)
    <3>1. left(position'[user]) = left(position[user]) - amount
      <4> DEFINE shares == RP!SharesOf(position[user])
      <4>1. /\ left(position'[user]) = MAX_TOTAL_SUPPLY - (shares + amount)
            /\ left(position[user]) = MAX_TOTAL_SUPPLY - shares
        BY <1>8, SameManager
      <4>2. shares \in Nat
        BY <1>3
      <4> HIDE DEF shares, left
      <4> QED
        BY <2>1, <4>1, <4>2
    <3>2. own' = [u \in Users |-> left(position'[u])] /\ own = [u \in Users |-> left(position[u])]
      BY DEF Users
    <3>3. left(position[user]) - amount >= 0
      BY <2>2, SameManager
    <3> HIDE DEF own, left
    <3>4. own' = [own EXCEPT ![user] = @ - amount]
      BY <1>8, <3>1, <3>2
    <3> QED
      BY <3>2, <3>3, <3>4
  <2>4. Vault' = Vault + amount
    BY <1>1, <1>4, <1>5 DEF Vault, TypeOK
  <2> QED
    BY <2>2, <2>3, <2>4 DEF RP!TransferStake, RP!TransferFits, Vault
<1> QED
  BY <1>2, <1>6, <1>7, <1>9

\* Whoever has opened the staking account has a market, and taking its fees keeps the
\* invariant when the accounts do.
LEMMA TakenAside ==
  ASSUME MillInv, FeesTaken, staking.open,
         user_base' \in [Users -> Nat], user_quote' \in [Users -> Nat],
         market_base' \in Nat, market_quote' \in Nat, TokensHeld',
         market_quote' - StakingFeesHeld' = market_quote - StakingFeesHeld,
         StakingFeesHeld' \in Int
  PROVE  Aside
<1>1. /\ TypeInv /\ TypeOK /\ SharesFit /\ Shape /\ Initialized /\ StakingFeesHeld \in Nat
      /\ market.pending_creator_fees \in Int /\ market_quote \in Int
  <2>1. TypeInv /\ Shape /\ Initialized /\ StakingFeesHeld \in Nat
    BY MillTypes DEF MillInv, Opened
  <2> QED
    BY <2>1, CurveAssumption DEF TypeInv, TypeOK, U64
<1>2. Shape' /\ Initialized'
  BY <1>1, TakenShape
<1>3. market' \in [creator : Users, base_reserve : Nat, total_supply : Nat, width_scaled : Nat,
                   bid_prices : [Index -> Nat], ask_prices : [Index -> Nat],
                   creator_fee_share : Shares, staking_fee_share : Shares,
                   pending_creator_fees : U64, pending_staking_fees : U64]
  BY <1>1 DEF FeesTaken, TypeOK
<1>4. TypeOK' /\ SharesFit'
  BY <1>1, <1>3, FeesTakenFields DEF TypeOK, SharesFit, FeesTaken
<1>5. MillBacking' = MillBacking
  <2>1. market'.pending_creator_fees = market.pending_creator_fees
    BY <1>1, FeesTakenFields
  <2> DEFINE q == market_quote
             h == StakingFeesHeld
             c == market.pending_creator_fees
             q1 == market_quote'
             h1 == StakingFeesHeld'
  <2>2. /\ q \in Int /\ h \in Int /\ c \in Int /\ q1 \in Int /\ h1 \in Int /\ q1 - h1 = q - h
        /\ MillBacking = q - c - h /\ MillBacking' = q1 - c - h1
    <3>1. q \in Int /\ h \in Int /\ c \in Int /\ q1 \in Int /\ h1 \in Int
      BY <1>1
    <3>2. MillBacking = q - c - h
      BY DEF MillBacking
    <3>3. MillBacking' = q1 - c - h1
      BY <2>1 DEF MillBacking
    <3> HIDE DEF c
    <3> QED
      BY <3>1, <3>2, <3>3
  <2> HIDE DEF q, h, c, q1, h1
  <2> QED
    BY <2>2
<1> QED
  BY <1>1, <1>2, <1>4, <1>5 DEF Aside, TypeInv, Opened

\* The staking fees held are untouched when nothing is paid.
LEMMA SameHeld == UNCHANGED <<shared, paid>> => StakingFeesHeld' = StakingFeesHeld
BY DEF StakingFeesHeld

\* The instructions that open an account, and the clock, write nothing that is shared.
LEMMA QuietAside ==
  ASSUME MillInv, UNCHANGED <<vars, shared, paid>>, Opened'
  PROVE  Aside
<1>1. TypeInv /\ TypeOK /\ Shape /\ TokensHeld
  BY DEF MillInv, TypeInv
<1>2. FeesTaken
  BY <1>1 DEF FeesTaken, vars, TypeOK
<1>3. TypeInv' /\ TokensHeld'
  BY <1>1 DEF vars, TypeInv, TypeOK, SharesFit, TokensHeld
<1>4. Shape'
  BY <1>1 DEF vars, Shape, Priceless, Sound, Initialized
<1>5. MillBacking' = MillBacking
  BY SameHeld DEF vars, MillBacking
<1> QED
  BY <1>2, <1>3, <1>4, <1>5 DEF Aside, vars

LEMMA StepOpening ==
  ASSUME MillInv, CreateStaking \/ (\E user \in Users : CreateStakePosition(user)) \/ Tick
  PROVE  RP!Next /\ Aside
<1>1. StakingFeesHeld' = StakingFeesHeld /\ UNCHANGED <<vars, shared, paid>>
  BY SameHeld
     DEF CreateStaking, CreateStakePosition, Tick, StakingOnly, S!create_staking,
         S!create_stake_position, S!Tick, vars
<1>2. CASE CreateStaking
  <2>1. RP!create_staking
    BY <1>1, <1>2 DEF CreateStaking, S!create_staking, RP!create_staking, vars
  <2>2. Opened'
    BY <1>2 DEF CreateStaking, Opened, Initialized
  <2> QED
    BY <1>1, <2>1, <2>2, QuietAside DEF RP!Next, RP!Opening
<1>3. ASSUME NEW user \in Users, CreateStakePosition(user) PROVE RP!Next /\ Aside
  <2> DEFINE own == [u \in Users |-> MAX_TOTAL_SUPPLY - S!SharesOf(position[u])]
  <2>1. RP!TypeOK
    BY MillTypes
  <2>2. \A u \in Users : /\ position'[u].amount_staked = position[u].amount_staked
                         /\ position'[u].total_amount_vested = position[u].total_amount_vested
    BY <1>3, <2>1 DEF CreateStakePosition, S!create_stake_position, RP!TypeOK, RP!Users, Users
  <2>3. own' = own
    BY <2>2 DEF S!SharesOf
  <2>4. RP!create_stake_position(user)
    BY <1>1, <1>3, <2>3
       DEF CreateStakePosition, S!create_stake_position, RP!create_stake_position, vars
  <2>5. Opened'
    BY <1>3 DEF CreateStakePosition, Opened, Initialized
  <2> QED
    BY <1>1, <2>4, <2>5, QuietAside DEF RP!Next, RP!Opening, RP!Users, Users
<1>4. CASE Tick
  <2>1. RP!Tick
    BY <1>1, <1>4 DEF Tick, S!Tick, RP!Tick, vars
  <2>2. Opened'
    BY <1>4 DEF Tick, S!Tick, Opened, Initialized, MillInv, vars
  <2> QED
    BY <1>1, <2>1, <2>2, QuietAside DEF RP!Next, RP!Environment
<1> QED
  BY <1>2, <1>3, <1>4

\* What deposits, withdrawals, plans and releases have in common.
LEMMA MoveAside ==
  ASSUME MillInv, NEW user \in Users, NEW staked \in Int, NEW vested \in Int,
         NEW amount \in Int, amount = staked + vested,
         S!UpdateStake(user, staked, vested, S!Claimable(user)), S!TransferStake(user, amount),
         MarketAccrued, StakingOnly, UNCHANGED <<market_quote, paid>>
  PROVE  /\ RP!UpdateStake(user, staked, vested, RP!Claimable(user)) /\ RP!TransferStake(user, amount)
         /\ StakingFeesHeld' = StakingFeesHeld /\ Aside
<1>1. TypeInv /\ TypeOK /\ StakingFeesHeld \in Nat
  BY MillTypes DEF MillInv
<1>2. staking.open /\ S!Claimable(user) \in U64 /\ S!Claimable(user) = RP!Claimable(user)
  BY SameManager DEF S!UpdateStake, S!StakeFits, S!U64, U64
<1>3. StakingFeesHeld' = StakingFeesHeld
  BY SameHeld DEF StakingOnly
<1>4. FeesTaken
  BY <1>1, AccruedTaken DEF FeesTaken, StakingOnly
<1>5. /\ RP!UpdateStake(user, staked, vested, S!Claimable(user)) /\ RP!TransferStake(user, amount)
      /\ user_base' \in [Users -> Nat] /\ market_base' \in Nat /\ TokensHeld'
  BY <1>2, MoveShares
<1>6. /\ user_quote' \in [Users -> Nat] /\ market_quote' \in Nat
      /\ market_quote' - StakingFeesHeld' = market_quote - StakingFeesHeld /\ StakingFeesHeld' \in Int
  BY <1>1, <1>3 DEF TypeOK, StakingOnly
<1>7. Aside
  BY <1>2, <1>4, <1>5, <1>6, TakenAside
<1> QED
  BY <1>2, <1>3, <1>5, <1>7

\* The staking fees held fall by what is paid.
LEMMA RewardedHeld ==
  ASSUME MillInv, NEW user \in Users, ClaimStakingRewards(user)
  PROVE  /\ StakingFeesHeld' = StakingFeesHeld - S!Claimable(user)
         /\ S!Claimable(user) \in Nat /\ S!Claimable(user) <= StakingFeesHeld
<1> DEFINE reward == S!Claimable(user)
<1>1. /\ N \in Nat /\ paid \in [1..N -> Nat] /\ SumTo(paid, N) \in Nat /\ shared \in Nat
      /\ StakingFeesHeld = shared - SumTo(paid, N)
  BY MillTypes DEF MillInv
<1>2. paid' = [paid EXCEPT ![user] = @ + reward] /\ shared' = shared
  BY DEF ClaimStakingRewards, S!claim_staking_rewards
<1>3. reward = RP!Claimable(user)
  BY SameManager
<1>4. reward \in Nat /\ reward <= StakingFeesHeld
  <2>1. RP!ClaimsPayable
    BY RP!SolventPays, StakingConstants DEF MillInv
  <2>2. user \in RP!Users
    BY DEF Users, RP!Users
  <2>3. RP!Claimable(user) \in RP!U64 /\ RP!Claimable(user) <= StakingFeesHeld
    BY <2>1, <2>2 DEF RP!ClaimsPayable
  <2> QED
    BY <1>3, <2>3, CurveAssumption DEF RP!U64
<1> HIDE DEF reward
<1>5. SumTo(paid', N) = SumTo(paid, N) + reward
  <2>1. paid \in [Users -> Int] /\ paid' = Credit(paid, user, reward) /\ reward \in Int
    BY <1>1, <1>2, <1>4 DEF Credit, Users
  <2> QED
    BY <2>1, CreditSum
<1>6. StakingFeesHeld' = StakingFeesHeld - reward
  <2>1. StakingFeesHeld' = shared - SumTo(paid', N)
    BY <1>2 DEF StakingFeesHeld
  <2> QED
    BY <1>1, <1>4, <1>5, <2>1
<1> QED
  BY <1>4, <1>6 DEF reward

\* Rewards are paid out of the staking fees held, so that the other owners of the quote
\* account do not pay for them.
LEMMA StepRewarded ==
  ASSUME MillInv, NEW user \in Users, ClaimStakingRewards(user)
  PROVE  RP!claim_staking_rewards(user) /\ Aside
<1> DEFINE reward == S!Claimable(user)
<1>1. /\ TypeInv /\ TypeOK /\ RP!TypeOK /\ N \in Nat /\ MAX_TOTAL_SUPPLY \in Nat
      /\ paid \in [1..N -> Nat] /\ SumTo(paid, N) \in Nat /\ shared \in Nat /\ StakingFeesHeld \in Nat
      /\ StakingFeesHeld = shared - SumTo(paid, N)
  BY MillTypes, CurveAssumption DEF MillInv
<1>2. /\ MarketAccrued /\ S!UpdateStake(user, 0, 0, 0) /\ reward <= market_quote
      /\ market_quote' = market_quote - reward
      /\ paid' = [paid EXCEPT ![user] = @ + reward]
      /\ UNCHANGED <<plan, market_base, user_base, now>>
      /\ user_quote' = Credit(user_quote, user, reward)
      /\ UNCHANGED <<config, unpriced, shared>>
  BY DEF ClaimStakingRewards, S!claim_staking_rewards
<1>3. reward = RP!Claimable(user) /\ RP!UpdateStake(user, 0, 0, 0)
  BY <1>2, SameManager
<1>4. /\ reward \in Nat /\ reward <= StakingFeesHeld
      /\ StakingFeesHeld' = StakingFeesHeld - reward
  BY RewardedHeld
<1>5. staking.open
  BY <1>2 DEF S!UpdateStake, S!StakeFits
<1>6. FeesTaken
  BY <1>1, <1>2, AccruedTaken DEF FeesTaken
<1> HIDE DEF reward
<1>9. market'.base_reserve = market.base_reserve /\ market'.total_supply = market.total_supply
  BY <1>1, <1>6, FeesTakenFields
<1>10. TokensHeld'
  BY <1>2, <1>9 DEF TokensHeld, MillInv
<1>11. user_quote' \in [Users -> Nat] /\ market_quote' \in Nat
  <2>1. reward \in Nat /\ reward <= market_quote /\ market_quote \in Nat /\ user_quote \in [Users -> Nat]
    BY <1>1, <1>2, <1>4 DEF TypeOK
  <2> QED
    BY <1>2, <2>1 DEF Credit
<1>12. /\ market_quote' - StakingFeesHeld' = market_quote - StakingFeesHeld
       /\ StakingFeesHeld' \in Int
  <2> DEFINE q == market_quote
             h == StakingFeesHeld
             q1 == market_quote'
             h1 == StakingFeesHeld'
  <2>1. q \in Int /\ h \in Int /\ reward \in Int /\ q1 = q - reward /\ h1 = h - reward
    BY <1>1, <1>2, <1>4 DEF TypeOK
  <2> HIDE DEF q, h, q1, h1
  <2>2. q1 - h1 = q - h /\ h1 \in Int
    BY <2>1
  <2> QED
    BY <2>2 DEF q, h, q1, h1
<1>13. user_base' \in [Users -> Nat] /\ market_base' \in Nat
  BY <1>1, <1>2 DEF TypeOK
<1>14. Aside
  BY <1>5, <1>6, <1>10, <1>11, <1>12, <1>13, TakenAside
<1>15. UNCHANGED [u \in Users |-> MAX_TOTAL_SUPPLY - S!SharesOf(position[u])]
  <2>1. \A u \in Users : S!SharesOf(position'[u]) = S!SharesOf(position[u])
    <3> SUFFICES ASSUME NEW u \in Users PROVE S!SharesOf(position'[u]) = S!SharesOf(position[u])
      OBVIOUS
    <3>1. position[u].amount_staked \in Nat /\ position[u].total_amount_vested \in Nat
      <4>1. position[u].amount_staked \in RP!U64 /\ position[u].total_amount_vested \in RP!U64
        BY <1>1 DEF RP!TypeOK, RP!Users, Users
      <4> QED
        BY <4>1, CurveAssumption DEF RP!U64
    <3>2. /\ position'[u].amount_staked = position[u].amount_staked
          /\ position'[u].total_amount_vested = position[u].total_amount_vested
      <4>1. /\ position' = [position EXCEPT ![user] = RP!Stake(user, RP!AccruedPerShare, 0, 0, 0)]
            /\ position[user] \in [open : BOOLEAN, amount_staked : RP!U64, total_amount_vested : RP!U64,
                                   pending_rewards : RP!U64, acc : Nat]
            /\ position \in [Users -> [open : BOOLEAN, amount_staked : RP!U64, total_amount_vested : RP!U64,
                                       pending_rewards : RP!U64, acc : Nat]]
        BY <1>1, <1>3 DEF RP!UpdateStake, RP!StakeFits, RP!TypeOK, RP!Users, Users
      <4>2. CASE u = user
        <5>1. position'[u] = RP!Stake(user, RP!AccruedPerShare, 0, 0, 0)
          BY <4>1, <4>2
        <5>2. /\ position'[u].amount_staked = position[u].amount_staked + 0
              /\ position'[u].total_amount_vested = position[u].total_amount_vested + 0
          BY <4>1, <4>2, <5>1 DEF RP!Stake
        <5> QED
          BY <3>1, <5>2
      <4>3. CASE u # user
        BY <4>1, <4>3
      <4> QED
        BY <4>2, <4>3
    <3> QED
      BY <3>2 DEF S!SharesOf
  <2> QED
    BY <2>1
<1>16. Vault' = Vault
  BY <1>2, <1>9 DEF Vault
<1>17. RP!claim_staking_rewards(user)
  BY <1>2, <1>3, <1>4, <1>15, <1>16 DEF RP!claim_staking_rewards, Vault
<1> QED
  BY <1>14, <1>17

\* Every instruction of staking and vesting does in the shared accounts what it does alone.
LEMMA StepStaking ==
  ASSUME MillInv, StakingInstructions \/ VestingInstructions
  PROVE  RP!Next /\ Aside
<1>1. StakeAmounts \subseteq Nat /\ RP!TypeInv /\ RP!TypeOK
  BY MillAssumption, MillTypes
<1>2. CASE CreateStaking \/ (\E user \in Users : CreateStakePosition(user))
  BY <1>2, StepOpening
<1>3. ASSUME NEW user \in Users, ClaimStakingRewards(user) PROVE RP!Next /\ Aside
  <2>1. RP!claim_staking_rewards(user) /\ Aside
    BY <1>3, StepRewarded
  <2> QED
    BY <2>1 DEF RP!Next, RP!Claim, RP!Users, Users
<1>4. ASSUME NEW user \in Users, NEW amount \in StakeAmounts, Deposit(user, amount)
      PROVE  RP!Next /\ Aside
  <2>1. amount \in Int /\ 0 \in Int /\ amount = amount + 0
    BY <1>1
  <2>2. /\ S!UpdateStake(user, amount, 0, S!Claimable(user)) /\ S!TransferStake(user, amount)
        /\ MarketAccrued /\ StakingOnly /\ UNCHANGED <<plan, market_quote, paid, now>>
    BY <1>4 DEF Deposit, S!deposit
  <2>3. /\ RP!UpdateStake(user, amount, 0, RP!Claimable(user)) /\ RP!TransferStake(user, amount)
        /\ StakingFeesHeld' = StakingFeesHeld /\ Aside
    BY <2>1, <2>2, MoveAside
  <2>4. RP!deposit(user, amount)
    BY <2>2, <2>3 DEF RP!deposit
  <2> QED
    BY <2>3, <2>4 DEF RP!Next, RP!Deposit, RP!Users, Users
<1>5. ASSUME NEW user \in Users, NEW amount \in StakeAmounts, Withdraw(user, amount)
      PROVE  RP!Next /\ Aside
  <2>1. -amount \in Int /\ 0 \in Int /\ -amount = -amount + 0
    BY <1>1
  <2>2. /\ S!UpdateStake(user, -amount, 0, S!Claimable(user)) /\ S!TransferStake(user, -amount)
        /\ MarketAccrued /\ StakingOnly /\ UNCHANGED <<plan, market_quote, paid, now>>
        /\ amount <= position[user].amount_staked
    BY <1>5 DEF Withdraw, S!withdraw
  <2>3. /\ RP!UpdateStake(user, -amount, 0, RP!Claimable(user)) /\ RP!TransferStake(user, -amount)
        /\ StakingFeesHeld' = StakingFeesHeld /\ Aside
    BY <2>1, <2>2, MoveAside
  <2>4. RP!withdraw(user, amount)
    BY <2>2, <2>3 DEF RP!withdraw
  <2> QED
    BY <2>3, <2>4 DEF RP!Next, RP!Withdraw, RP!Users, Users
<1>6. ASSUME NEW p \in 1..P, NEW user \in Users, NEW schedule \in Schedules, NEW amount \in StakeAmounts,
             CreateVestingPlan(user, p, schedule, amount)
      PROVE  RP!Next /\ Aside
  <2>1. amount \in Int /\ 0 \in Int /\ amount = 0 + amount
    BY <1>1
  <2>2. /\ S!UpdateStake(user, 0, amount, S!Claimable(user)) /\ S!TransferStake(user, amount)
        /\ MarketAccrued /\ StakingOnly /\ UNCHANGED <<market_quote, paid, now>>
    BY <1>6 DEF CreateVestingPlan, S!create_vesting_plan
  <2>3. /\ RP!UpdateStake(user, 0, amount, RP!Claimable(user)) /\ RP!TransferStake(user, amount)
        /\ StakingFeesHeld' = StakingFeesHeld /\ Aside
    BY <2>1, <2>2, MoveAside
  <2>4. RP!create_vesting_plan(user, p, schedule, amount)
    BY <1>6, <2>2, <2>3
       DEF CreateVestingPlan, S!create_vesting_plan, RP!create_vesting_plan, S!NoOwner, RP!NoOwner
  <2> QED
    BY <2>3, <2>4 DEF RP!Next, RP!Vest, RP!Users, Users, RP!Plans
<1>7. ASSUME NEW p \in 1..P, Release(p) PROVE RP!Next /\ Aside
  <2> DEFINE user == plan[p].owner
             amount == S!Releasable(p)
  <2>1. amount = RP!Releasable(p) /\ (S!ReleaseFits(p) <=> RP!ReleaseFits(p))
    BY SameSchedule
  <2>2. /\ user # S!NoOwner /\ S!ReleaseFits(p) /\ amount >= 0
        /\ plan' = [plan EXCEPT ![p].amount_released = @ + amount]
        /\ S!UpdateStake(user, 0, -amount, S!Claimable(user)) /\ S!TransferStake(user, -amount)
        /\ MarketAccrued /\ StakingOnly /\ UNCHANGED <<market_quote, paid, now>>
    BY <1>7 DEF Release, S!release
  <2>3. user # RP!NoOwner /\ user \in Users /\ p \in RP!Plans
    BY <1>1, <2>2 DEF RP!TypeOK, S!NoOwner, RP!NoOwner, RP!Users, Users, RP!Plans
  <2>4. amount \in Int
    BY <1>1, <2>1, <2>3, RP!ReleasableType, StakingConstants
  <2> HIDE DEF amount
  <2>5. -amount \in Int /\ 0 \in Int /\ -amount = 0 + (-amount)
    BY <2>4
  <2>6. /\ RP!UpdateStake(user, 0, -amount, RP!Claimable(user)) /\ RP!TransferStake(user, -amount)
        /\ StakingFeesHeld' = StakingFeesHeld /\ Aside
    BY <2>2, <2>3, <2>5, MoveAside
  <2>7. RP!release(p)
    BY <2>1, <2>2, <2>3, <2>6 DEF RP!release
  <2> QED
    BY <2>3, <2>6, <2>7 DEF RP!Next, RP!Release
<1> QED
  BY <1>2, <1>3, <1>4, <1>5, <1>6, <1>7 DEF StakingInstructions, VestingInstructions

-----------------------------------------------------------------------------
(* Steps of the market. *)

MarketStep == MarketInstructions \/ CreatorInstructions \/ AdminInstructions

\* What a step of the market leaves for staking.
FeeLeft ==
  \E fee \in Nat :
    /\ market'.pending_staking_fees = market.pending_staking_fees + fee
    /\ shared' = shared + fee
    /\ fee > 0 => shared' <= FeeBound

LEMMA StepMarket ==
  ASSUME MillInv, MarketStep
  PROVE  Next /\ UNCHANGED stake_vars /\ FeeLeft
<1>1. /\ TypeInv /\ TypeOK /\ SharesFit /\ shared \in Nat
      /\ market.pending_staking_fees \in Nat
  BY CurveAssumption DEF MillInv, TypeInv, TypeOK, U64
<1>2. (market'.pending_staking_fees = market.pending_staking_fees /\ shared' = shared) => FeeLeft
  BY <1>1 DEF FeeLeft
<1>3. ASSUME NEW creator \in Users, NEW supply \in Supplies, NEW c \in Shares, NEW s \in Shares,
             CreateMarket(creator, supply, c, s)
      PROVE  Next /\ UNCHANGED stake_vars /\ FeeLeft
  <2>1. create_market(creator, supply, c, s) /\ UNCHANGED stake_vars /\ shared' = shared
    BY <1>3 DEF CreateMarket
  <2>2. market'.pending_staking_fees = market.pending_staking_fees
    BY <1>1, <2>1 DEF create_market, TypeOK
  <2> QED
    BY <1>2, <2>1, <2>2 DEF Next, Creation
<1>4. ASSUME NEW user \in Users, NEW c \in PriceCurves, SetMarketPrices(user, c.bid_prices, c.ask_prices)
      PROVE  Next /\ UNCHANGED stake_vars /\ FeeLeft
  <2>1. set_market_prices(user, c.bid_prices, c.ask_prices) /\ UNCHANGED stake_vars /\ shared' = shared
    BY <1>4 DEF SetMarketPrices
  <2>2. market'.pending_staking_fees = market.pending_staking_fees
    BY <1>1, <2>1 DEF set_market_prices, TypeOK
  <2> QED
    BY <1>2, <2>1, <2>2 DEF Next, Pricing
<1>5. ASSUME NEW swap_type \in {"Buy", "Sell"}, NEW swap_amount_type \in {"ExactInput", "ExactOutput"},
             NEW amount \in Amounts \ {0}, NEW user \in Traders, NEW threshold \in Thresholds,
             NEW referral \in Users \cup {NoReferral}, Initialized,
             Swapping(user, swap_type, swap_amount_type,
                      swap_amounts(market, swap_type, swap_amount_type, amount), threshold, referral)
      PROVE  Next /\ UNCHANGED stake_vars /\ FeeLeft
  <2> DEFINE s == swap_amounts(market, swap_type, swap_amount_type, amount)
             share == IF referral = NoReferral THEN 0 ELSE config.referral_fee_share
             fee == distribute_fee(market, s.swap_fee, share)
  <2>1. /\ swap(user, swap_type, swap_amount_type, s, threshold, referral) /\ UNCHANGED stake_vars
        /\ shared + fee.staking <= FeeBound /\ shared' = shared + fee.staking
    BY <1>5 DEF Swapping
  <2>2. Next
    BY <1>5, <2>1 DEF Next, Swap
  <2>3. market'.pending_staking_fees = market.pending_staking_fees + fee.staking
    BY <1>1, <2>1 DEF swap, TypeOK
  <2>4. fee.staking \in Nat
    <3>1. market.base_reserve \in Int
      BY <1>1 DEF TypeOK
    <3>2. s.quote \in U64 /\ s.swap_fee \in 0..s.quote
      BY <3>1, SwapAmounts
    <3>3. s.swap_fee \in Nat
      BY <3>2, CurveAssumption DEF U64
    <3>4. /\ share \in Shares /\ market.creator_fee_share \in Nat /\ market.staking_fee_share \in Nat
          /\ market.creator_fee_share + market.staking_fee_share <= MAX_BPS
      BY <1>1, MarketAssumption DEF TypeOK, Shares, SharesFit
    <3> HIDE DEF s, share
    <3> QED
      BY <3>3, <3>4, FeeParts
  <2> HIDE DEF s, share, fee
  <2> QED
    BY <2>1, <2>2, <2>3, <2>4 DEF FeeLeft
<1>6. CASE MarketInstructions
  BY <1>3, <1>4, <1>5, <1>6 DEF MarketInstructions
<1>7. ASSUME NEW user \in Users, ClaimCreatorFees(user)
      PROVE  Next /\ UNCHANGED stake_vars /\ FeeLeft
  <2>1. claim_creator_fees(user) /\ UNCHANGED stake_vars /\ shared' = shared
    BY <1>7 DEF ClaimCreatorFees
  <2>2. market'.pending_staking_fees = market.pending_staking_fees
    BY <1>1, <2>1 DEF claim_creator_fees, TypeOK
  <2> QED
    BY <1>2, <2>1, <2>2 DEF Next, Claim
<1>8. ASSUME NEW user \in Users, NEW new_creator \in Users, UpdateCreator(user, new_creator)
      PROVE  Next /\ UNCHANGED stake_vars /\ FeeLeft
  <2>1. update_creator(user, new_creator) /\ UNCHANGED stake_vars /\ shared' = shared
    BY <1>8 DEF UpdateCreator
  <2>2. market'.pending_staking_fees = market.pending_staking_fees
    BY <1>1, <2>1 DEF update_creator, TypeOK
  <2> QED
    BY <1>2, <2>1, <2>2 DEF Next, Handover
<1>9. ASSUME NEW user \in Users, NEW c \in Shares, NEW s \in Shares, UpdateMarketFeeShares(user, c, s)
      PROVE  Next /\ UNCHANGED stake_vars /\ FeeLeft
  <2>1. update_market_fee_shares(user, c, s) /\ UNCHANGED stake_vars /\ shared' = shared
    BY <1>9 DEF UpdateMarketFeeShares
  <2>2. market'.pending_staking_fees = market.pending_staking_fees
    BY <1>1, <2>1 DEF update_market_fee_shares, TypeOK
  <2> QED
    BY <1>2, <2>1, <2>2 DEF Next, Reshare
<1>10. CASE CreatorInstructions
  BY <1>7, <1>8, <1>9, <1>10 DEF CreatorInstructions
<1>11. CASE AdminInstructions
  BY <1>2, <1>11
     DEF AdminInstructions, UpdateDefaultFeeShares, update_default_fee_shares,
         UpdateProtocolFeeRecipient, update_protocol_fee_recipient, Next, Administration
<1> QED
  BY <1>6, <1>10, <1>11 DEF MarketStep

\* To staking, a step of the market brings a fee or is not seen at all.
LEMMA MarketFees ==
  ASSUME MillInv, MarketStep
  PROVE  [RP!Next]_(RP!vars) /\ StakingFeesHeld' - market'.pending_staking_fees
                                  = StakingFeesHeld - market.pending_staking_fees
<1>1. /\ RP!TypeOK /\ SupplyInv /\ TokensHeld /\ TypeOK
      /\ StakingFeesHeld = shared - SumTo(paid, N) /\ SumTo(paid, N) \in Nat
      /\ shared \in Nat /\ StakingFeesHeld \in Nat
  BY MillTypes DEF MillInv
<1>2. Next /\ UNCHANGED stake_vars /\ FeeLeft
  BY StepMarket
<1>3. Vault' = Vault
  BY <1>1, <1>2, StepTokens
<1>4. PICK fee \in Nat :
        /\ market'.pending_staking_fees = market.pending_staking_fees + fee
        /\ shared' = shared + fee
        /\ fee > 0 => shared' <= FeeBound
  BY <1>2 DEF FeeLeft
<1>5. market.pending_staking_fees \in Nat
  BY <1>1, CurveAssumption DEF TypeOK, U64
<1>6. StakingFeesHeld' = StakingFeesHeld + fee
  <2>1. StakingFeesHeld' = (shared + fee) - SumTo(paid, N)
    <3>1. paid' = paid
      BY <1>2 DEF stake_vars
    <3> QED
      <4>1. StakingFeesHeld' = shared' - SumTo(paid', N)
        BY DEF StakingFeesHeld
      <4>2. SumTo(paid', N) = SumTo(paid, N)
        BY <3>1
      <4> QED
        BY <1>4, <4>1, <4>2
  <2> QED
    BY <1>1, <2>1
<1>7. UNCHANGED <<staking, position, plan, paid, now>>
      /\ UNCHANGED [u \in Users |-> MAX_TOTAL_SUPPLY - S!SharesOf(position[u])]
  BY <1>2 DEF stake_vars, S!SharesOf
<1>8. CASE fee = 0
  <2>1. StakingFeesHeld' = StakingFeesHeld /\ market'.pending_staking_fees = market.pending_staking_fees
    BY <1>1, <1>4, <1>5, <1>6, <1>8
  <2> QED
    BY <1>3, <1>7, <2>1 DEF RP!vars, Vault
<1>9. CASE fee # 0
  <2>1. fee \in 1..FeeBound /\ fee > 0 /\ StakingFeesHeld + SumTo(paid, N) + fee <= FeeBound
    BY <1>1, <1>4, <1>9, MillAssumption
  <2>2. RP!FeesArrive(fee)
    BY <1>3, <1>4, <1>6, <1>7, <2>1, SameSum DEF RP!FeesArrive, Vault
  <2>3. RP!Next
    BY <2>1, <2>2 DEF RP!Next, RP!Environment
  <2> QED
    BY <1>1, <1>4, <1>5, <1>6, <2>3
<1> QED
  BY <1>8, <1>9

-----------------------------------------------------------------------------
(* The invariant holds. *)

LEMMA InitStakers == MillInit => RP!Init
<1> SUFFICES ASSUME MillInit PROVE RP!Init
  OBVIOUS
<1>1. market.pending_staking_fees = 0 /\ market_base = 0 /\ market.base_reserve = 0
  BY DEF MillInit, Init, Uninitialized
<1>2. StakingFeesHeld = 0
  <2>1. paid \in [1..N -> Int] /\ (\A u \in 1..N : paid[u] = 0) /\ N \in Nat
    BY MarketAssumption DEF MillInit, Users
  <2>2. SumTo(paid, N) = N * 0
    BY <2>1, SumConstant
  <2>3. N * 0 = 0
    BY <2>1
  <2> QED
    BY <2>2, <2>3 DEF StakingFeesHeld, MillInit
<1>3. [u \in Users |-> MAX_TOTAL_SUPPLY - S!SharesOf(position[u])] = [u \in RP!Users |-> MAX_TOTAL_SUPPLY]
  BY CurveAssumption DEF MillInit, S!SharesOf, Users, RP!Users
<1> QED
  BY <1>1, <1>2, <1>3 DEF RP!Init, MillInit, RP!Users, Users, RP!Plans, S!NoOwner, RP!NoOwner

LEMMA InitMill == MillInit => MillInv
<1> SUFFICES ASSUME MillInit PROVE MillInv
  OBVIOUS
<1>1. Init /\ TypeInv /\ BaseConserved /\ Shape
  BY InitType, InitBase, InitShape DEF MillInit
<1>2. TokensHeld
  BY <1>1 DEF BaseConserved, TokensHeld
<1>3. RP!PayInv
  BY InitStakers, RP!InitPay, StakingConstants
<1> QED
  BY <1>1, <1>2, <1>3 DEF MillInv, MillInit, Opened

\* Every step of the program is a step of staking or one that staking does not see, and
\* keeps the invariant.
LEMMA StepMill == MillInv /\ [MillNext]_mill_vars => MillInv' /\ [RP!Next]_(RP!vars)
<1> SUFFICES ASSUME MillInv, [MillNext]_mill_vars PROVE MillInv' /\ [RP!Next]_(RP!vars)
  OBVIOUS
<1>1. /\ SupplyInv /\ TypeInv /\ TypeOK /\ TokensHeld /\ Shape /\ RP!PayInv /\ shared \in Nat /\ Opened
      /\ RP!TypeOK /\ RP!TypeInv
  BY MillTypes DEF MillInv, TypeInv
<1>2. [RP!Next]_(RP!vars) => RP!PayInv'
  BY <1>1, RP!StepPay, StakingConstants
<1>3. CASE MarketStep
  <2>1. Next /\ UNCHANGED stake_vars /\ FeeLeft /\ [RP!Next]_(RP!vars)
    BY <1>3, StepMarket, MarketFees
  <2>2. RP!PayInv'
    BY <1>2, <2>1
  <2>3. TypeInv' /\ TokensHeld'
    BY <1>1, <2>1, StepType, StepTokens
  <2>4. SupplyInv'
    <3>1. SumTo(user_base', N) \in Nat /\ N \in Nat
      <4>1. N \in Nat /\ user_base' \in [1..N -> Nat]
        BY <2>3, MarketAssumption DEF TypeInv, TypeOK, Users
      <4> QED
        BY <4>1, SumNat
    <3>2. Vault' = Vault /\ Vault \in Nat
      BY <1>1, <2>1, StepTokens, MillTypes
    <3>3. market_base' \in Nat /\ market'.base_reserve \in Nat /\ market'.total_supply \in Nat
      BY <2>3 DEF TypeInv, TypeOK
    <3>4. market_base' >= market'.base_reserve
      BY <3>2, <3>3 DEF Vault
    <3>5. market'.base_reserve <= market'.total_supply
      BY <2>3, <3>1, <3>3, <3>4 DEF TokensHeld
    <3> QED
      BY <2>3, <3>5 DEF SupplyInv
  <2>5. Shape'
    BY <1>1, <2>1, <2>4, StepShape
  <2>6. shared' \in Nat
    BY <1>1, <2>1 DEF FeeLeft
  <2>7. Opened'
    <3>1. CASE ~Initialized
      <4>1. /\ ~staking.open /\ shared = 0
        BY <1>1, <3>1 DEF Opened
      <4>2. ~Swap
        BY <3>1 DEF Swap
      <4>3. market'.pending_staking_fees = market.pending_staking_fees
        BY <1>1, <2>1, <4>2
           DEF Next, Creation, create_market, Pricing, set_market_prices, Claim, claim_creator_fees,
               Handover, update_creator, Reshare, update_market_fee_shares, Administration,
               update_default_fee_shares, update_protocol_fee_recipient, TypeOK
      <4>4. shared' = 0
        <5>1. market.pending_staking_fees \in Nat
          BY <1>1, CurveAssumption DEF TypeOK, U64
        <5> QED
          BY <2>1, <4>1, <4>3, <5>1 DEF FeeLeft
      <4> QED
        BY <2>1, <4>1, <4>4 DEF Opened, stake_vars
    <3>2. CASE Initialized
      <4>1. Initialized'
        <5>1. ~Creation
          BY <3>2 DEF Creation, create_market
        <5>2. market'.total_supply = market.total_supply
          <6>1. CASE Swap
            <7>1. SwapMoves
              BY <1>1, <6>1, SwapMovesTokens
            <7> QED
              BY <1>1, <7>1 DEF SwapMoves, TypeOK
          <6>2. CASE ~Swap
            BY <1>1, <2>1, <5>1, <6>2
               DEF Next, Pricing, set_market_prices, Claim, claim_creator_fees,
                   Handover, update_creator, Reshare, update_market_fee_shares, Administration,
                   update_default_fee_shares, update_protocol_fee_recipient, TypeOK
          <6> QED
            BY <6>1, <6>2
        <5> QED
          BY <3>2, <5>2 DEF Initialized
      <4> QED
        BY <4>1 DEF Opened
    <3> QED
      BY <3>1, <3>2
  <2> QED
    BY <2>1, <2>2, <2>3, <2>5, <2>6, <2>7 DEF MillInv
<1>4. CASE StakingInstructions \/ VestingInstructions \/ Tick
  <2>1. RP!Next /\ Aside
    BY <1>4, StepStaking, StepOpening
  <2>2. RP!PayInv'
    BY <1>2, <2>1
  <2> QED
    BY <1>1, <2>1, <2>2 DEF MillInv, Aside, FeesTaken
<1>5. CASE UNCHANGED mill_vars
  <2>1. UNCHANGED <<vars, stake_vars, shared>>
    BY <1>5 DEF mill_vars
  <2>2. Opened'
    BY <1>1, <2>1 DEF vars, stake_vars, Opened, Initialized
  <2>3. Aside
    BY <2>1, <2>2, QuietAside DEF stake_vars
  <2>4. UNCHANGED RP!vars
    BY <2>1 DEF RP!vars, vars, stake_vars, StakingFeesHeld, S!SharesOf
  <2> QED
    BY <1>1, <1>2, <2>1, <2>3, <2>4 DEF MillInv, Aside
<1> QED
  BY <1>3, <1>4, <1>5 DEF MillNext, MarketStep

-----------------------------------------------------------------------------
(* The value behind the circulating tokens. *)

MillPot == Worth(market.width_scaled, MillBacking)

\* Once stakers and creator are paid, the market still backs the circulating tokens.
MillBacked == MillPot + Value(unpriced) >= Value(Sold)

LEMMA MillPotTypes ==
  ASSUME MillInv
  PROVE  MillBacking \in Int /\ MillPot \in Int /\ ReserveType /\ market.width_scaled \in Nat
<1>1. SupplyInv /\ Shape /\ TypeOK /\ StakingFeesHeld \in Nat
  BY MillTypes DEF MillInv
<1>2. MillBacking \in Int
  <2> DEFINE q == market_quote
             c == market.pending_creator_fees
             h == StakingFeesHeld
  <2>1. q \in Int /\ c \in Int /\ h \in Int /\ MillBacking = q - c - h
    BY <1>1, CurveAssumption DEF TypeOK, U64, MillBacking
  <2> HIDE DEF q, c, h
  <2> QED
    BY <2>1
<1> DEFINE w == market.width_scaled
           b == MillBacking
<1>3. w \in Nat /\ b \in Int
  BY <1>1, <1>2 DEF TypeOK
<1> HIDE DEF w, b
<1>4. Worth(w, b) \in Int
  BY <1>3, WorthOrder
<1> QED
  BY <1>1, <1>2, <1>3, <1>4, ReserveTypes DEF MillPot, w, b

PotTypes ==
  /\ MillBacking \in Int /\ MillPot \in Int /\ ReserveType
  /\ market.width_scaled \in Nat /\ StakingFeesHeld \in Nat

LEMMA MillPotTypesNext ==
  MillInv' => /\ MillBacking' \in Int /\ MillPot' \in Int /\ ReserveType'
              /\ market'.width_scaled \in Nat /\ StakingFeesHeld' \in Nat
<1>1. MillInv => PotTypes
  BY MillPotTypes, MillTypes DEF PotTypes
<1>2. MillInv' => PotTypes'
  BY <1>1, PTL
<1> QED
  BY <1>2 DEF PotTypes

\* A step of the market changes both views of the pot by the same amount: the fees of the
\* stakers enter and leave them together.
LEMMA PotsMove ==
  ASSUME MillInv, MillInv', MarketStep
  PROVE  MillPot' - MillPot = Pot' - Pot
<1>1. /\ TypeOK /\ TypeOK' /\ Shape /\ TypeInv /\ StakingFeesHeld \in Nat
      /\ MillBacking \in Int /\ ReserveType
      /\ StakingFeesHeld = shared - SumTo(paid, N) /\ SumTo(paid, N) \in Nat /\ shared \in Nat
  BY MillTypes, MillPotTypes DEF MillInv, TypeInv
<1>2. MillInv' => MillBacking' \in Int /\ ReserveType' /\ StakingFeesHeld' \in Nat
                  /\ market'.width_scaled \in Nat
  BY MillPotTypesNext
<1>3. /\ Next /\ UNCHANGED stake_vars /\ FeeLeft
      /\ StakingFeesHeld' - market'.pending_staking_fees = StakingFeesHeld - market.pending_staking_fees
  BY StepMarket, MarketFees
<1>p. /\ market.pending_staking_fees \in Int /\ market'.pending_staking_fees \in Int
      /\ market.pending_creator_fees \in Int /\ market'.pending_creator_fees \in Int
      /\ market_quote \in Int /\ market_quote' \in Int
  BY <1>1, CurveAssumption DEF TypeOK, U64
<1>4. CASE Initialized
  <2>1. ~Creation
    BY <1>4 DEF Creation, create_market
  <2>2. market'.width_scaled = market.width_scaled
    <3>1. CASE Swap
      <4>1. SwapMoves
        BY <1>1, <3>1, SwapMovesTokens
      <4> QED
        BY <1>1, <4>1 DEF SwapMoves, TypeOK
    <3>2. CASE ~Swap
      BY <1>1, <1>3, <2>1, <3>2
         DEF Next, Pricing, set_market_prices, Claim, claim_creator_fees,
             Handover, update_creator, Reshare, update_market_fee_shares, Administration,
             update_default_fee_shares, update_protocol_fee_recipient, TypeOK
    <3> QED
      BY <3>1, <3>2
  <2> DEFINE w == market.width_scaled
             d == StakingFeesHeld - market.pending_staking_fees
             h == StakingFeesHeld
             h1 == StakingFeesHeld'
             p == market.pending_staking_fees
             p1 == market'.pending_staking_fees
             c == market.pending_creator_fees
             c1 == market'.pending_creator_fees
             q == market_quote
             q1 == market_quote'
             b == Backing
             b1 == Backing'
             m == MillBacking
             m1 == MillBacking'
  <2>3. /\ h \in Int /\ h1 \in Int /\ p \in Int /\ p1 \in Int /\ c \in Int /\ c1 \in Int
        /\ q \in Int /\ q1 \in Int
    BY <1>1, <1>2, <1>p
  <2>4. /\ h1 - p1 = d /\ h - p = d
        /\ b = q - c - p /\ b1 = q1 - c1 - p1
        /\ m = q - c - h /\ m1 = q1 - c1 - h1
    BY <1>3 DEF Backing, MillBacking
  <2>5. /\ Pot = Worth(w, b) /\ Pot' = Worth(w, b1)
        /\ MillPot = Worth(w, m) /\ MillPot' = Worth(w, m1) /\ w \in Nat
    BY <1>1, <2>2 DEF Pot, MillPot, TypeOK
  <2> HIDE DEF w, d, h, h1, p, p1, c, c1, q, q1, b, b1, m, m1
  <2>6. /\ d \in Int /\ b \in Int /\ b1 \in Int /\ m \in Int /\ m1 \in Int
        /\ b = m + d /\ b1 = m1 + d
    BY <2>3, <2>4
  <2>7. /\ Worth(w, b) = Worth(w, m) + Worth(w, d) /\ Worth(w, b1) = Worth(w, m1) + Worth(w, d)
        /\ Worth(w, d) \in Int /\ Worth(w, m) \in Int /\ Worth(w, m1) \in Int
    BY <2>5, <2>6, WorthOrder
  <2> QED
    BY <2>5, <2>7
<1>5. CASE ~Initialized
  <2>1. /\ market_quote = 0 /\ market.pending_creator_fees = 0 /\ market.pending_staking_fees = 0
    BY <1>1, <1>5 DEF Shape
  <2>2. StakingFeesHeld = 0
    <3>1. shared = 0
      BY <1>5 DEF MillInv, Opened
    <3> QED
      BY <1>1, <3>1
  <2>3. Creation \/ Administration
    BY <1>3, <1>5
       DEF Next, Swap, Pricing, set_market_prices, Claim, claim_creator_fees, Handover, update_creator,
           Reshare, update_market_fee_shares
  <2>4. /\ market_quote' = market_quote
        /\ market'.pending_creator_fees = market.pending_creator_fees
        /\ market'.pending_staking_fees = market.pending_staking_fees
    BY <1>1, <2>3
       DEF Creation, create_market, Administration, update_default_fee_shares,
           update_protocol_fee_recipient, TypeOK
  <2>5. StakingFeesHeld' = 0
    BY <1>1, <1>2, <1>3, <2>1, <2>2, <2>4
  <2>6. Backing = 0 /\ Backing' = 0 /\ MillBacking = 0 /\ MillBacking' = 0
    BY <2>1, <2>2, <2>4, <2>5 DEF Backing, MillBacking
  <2>7. \A v \in Nat : Worth(v, 0) = 0
    BY WorthOrder
  <2>8. market.width_scaled \in Nat /\ market'.width_scaled \in Nat
    BY <1>1, <1>2 DEF TypeOK
  <2>9. Pot = 0 /\ Pot' = 0 /\ MillPot = 0 /\ MillPot' = 0
    BY <2>6, <2>7, <2>8 DEF Pot, MillPot
  <2> QED
    BY <2>9
<1> QED
  BY <1>4, <1>5

\* What is left for the tokens never falls below their value.
LEMMA StepBacked ==
  ASSUME DecimalsFit, MillInv, MillInv', MillBacked, [MillNext]_mill_vars
  PROVE  MillBacked'
<1>1. /\ TypeInv /\ TypeOK /\ SupplyInv /\ Shape /\ Shape' /\ MillPot \in Int /\ ReserveType
  BY MillTypes, MillPotTypes DEF MillInv
<1>2. MillInv' => MillPot' \in Int /\ ReserveType'
  BY MillPotTypesNext
<1>3. CASE MarketStep
  <2>1. Unnoticed \/ Appraisal \/ Dealing
    <3>1. Next
      BY <1>3, StepMarket
    <3> QED
      BY <1>1, <1>2, <3>1, StepReserve
  <2>2. MillPot' - MillPot = Pot' - Pot
    BY <1>3, PotsMove
  <2> DEFINE value == [n \in 0..MAX_TOTAL_SUPPLY |-> Priced(BidArea(n))]
             new == value'
             a == MillPot
             a1 == MillPot'
             b == Pot
             b1 == Pot'
             s == Sold
             s1 == Sold'
             g == unpriced
             g1 == unpriced'
  <2>3. /\ a \in Int /\ a1 \in Int /\ b \in Int /\ b1 \in Int
        /\ s \in Levels /\ s1 \in Levels /\ g \in Levels /\ g1 \in Levels
    BY <1>1, <1>2 DEF ReserveType, Levels
  <2>4. /\ value \in [Levels -> Int] /\ new \in [Levels -> Int]
        /\ \A n \in Levels : value[n] = Value(n) /\ new[n] = Value(n)'
    BY <1>1, <1>2 DEF ReserveType, Levels, Value
  <2>5. \/ s1 = s /\ b1 = b /\ g1 = g /\ \A n \in Levels : new[n] = value[n]
        \/ (\A n \in Levels : value[n] = 0) /\ g1 = s /\ s1 = s /\ b1 = b
        \/ b1 - b >= value[s1] - value[s] /\ g1 = g /\ \A n \in Levels : new[n] = value[n]
    <3>1. CASE Unnoticed
      BY <2>4, <3>1 DEF Unnoticed
    <3>2. CASE Appraisal
      BY <2>4, <3>2 DEF Appraisal
    <3>3. CASE Dealing
      BY <2>3, <2>4, <3>3 DEF Dealing
    <3> QED
      BY <2>1, <3>1, <3>2, <3>3
  <2>6. a + value[g] >= value[s]
    BY <2>3, <2>4 DEF MillBacked
  <2>7. Value(unpriced)' = new[g1] /\ Value(Sold)' = new[s1]
    BY <2>3 DEF Value, Levels, Sold
  <2>8. a1 - a = b1 - b
    BY <2>2
  <2> HIDE DEF value, new, a, a1, b, b1, s, s1, g, g1
  <2>9. a1 + new[g1] >= new[s1]
    BY <2>3, <2>4, <2>5, <2>6, <2>8
  <2> QED
    BY <2>7, <2>9 DEF MillBacked, a1
<1>4. ASSUME Aside PROVE MillBacked'
  <2>1. /\ market'.width_scaled = market.width_scaled /\ market'.bid_prices = market.bid_prices
        /\ market'.base_reserve = market.base_reserve /\ market'.total_supply = market.total_supply
        /\ unpriced' = unpriced /\ MillBacking' = MillBacking
    BY <1>1, <1>4, FeesTakenFields DEF Aside, FeesTaken
  <2> QED
    BY <2>1 DEF MillBacked, MillPot, Value, BidArea, Sold, circulating_supply
<1>5. CASE StakingInstructions \/ VestingInstructions \/ Tick
  BY <1>4, <1>5, StepStaking, StepOpening
<1>6. CASE UNCHANGED mill_vars
  <2>1. MillBacking' = MillBacking /\ market' = market /\ unpriced' = unpriced
    BY <1>6, SameHeld DEF mill_vars, vars, stake_vars, MillBacking
  <2> QED
    BY <2>1 DEF MillBacked, MillPot, Value, BidArea, Sold, circulating_supply
<1> QED
  BY <1>3, <1>5, <1>6 DEF MillNext, MarketStep

-----------------------------------------------------------------------------
(* Theorems about the program. *)

LEMMA AlwaysMillInv == MillSpec => []MillInv
<1>1. MillInv /\ [MillNext]_mill_vars => MillInv'
  BY StepMill
<1> QED
  BY <1>1, InitMill, PTL DEF MillSpec

\* The market's base account always holds the reserve and all that is staked or vesting,
\* exactly: neither owner is ever paid from the other's tokens.
THEOREM BaseAccountAlwaysCovered == MillSpec => []BaseAccountCovered
<1>1. MillInv => BaseAccountCovered
  <2> SUFFICES ASSUME MillInv PROVE BaseAccountCovered
    OBVIOUS
  <2>1. TypeOK /\ Vault = RP!SharesOf(staking) /\ Vault \in Nat /\ TokensHeld
    BY MillTypes DEF MillInv
  <2>2. RP!SharesOf(staking) = S!SharesOf(staking)
    BY SameManager
  <2> DEFINE shares == S!SharesOf(staking)
             base == market_base
             reserve == market.base_reserve
  <2>3. base \in Nat /\ reserve \in Nat /\ base - reserve = shares
    BY <2>1, <2>2 DEF TypeOK, Vault
  <2> HIDE DEF shares, base, reserve
  <2>4. shares \in Int => base = reserve + shares
    BY <2>3
  <2>5. shares \in Int
    BY <2>3
  <2> QED
    BY <2>1, <2>4, <2>5 DEF BaseAccountCovered, TokensHeld, shares, base, reserve
<1> QED
  BY <1>1, AlwaysMillInv, PTL

\* No instruction of the program creates or loses a quote token.
LEMMA StepMillQuote == MillInv /\ QuoteConserved /\ [MillNext]_mill_vars => QuoteConserved'
<1> SUFFICES ASSUME MillInv, QuoteConserved, [MillNext]_mill_vars PROVE QuoteConserved'
  OBVIOUS
<1>1. TypeInv /\ TypeOK /\ N \in Nat
  BY MillTypes DEF MillInv
<1>2. CASE MarketStep
  BY <1>1, <1>2, StepMarket, StepQuote
<1>3. ASSUME NEW user \in Users, ClaimStakingRewards(user) PROVE QuoteConserved'
  <2> DEFINE reward == S!Claimable(user)
  <2>1. /\ user_quote' = Credit(user_quote, user, reward) /\ market_quote' = market_quote - reward
    BY <1>3 DEF ClaimStakingRewards, S!claim_staking_rewards
  <2>2. reward \in Int
    BY <1>3, RewardedHeld
  <2> HIDE DEF reward
  <2>3. user_quote \in [Users -> Int] /\ user_quote \in [1..N -> Int] /\ market_quote \in Int
    BY <1>1 DEF TypeOK, Users
  <2>4. SumTo(user_quote', N) = SumTo(user_quote, N) + reward
    BY <2>1, <2>2, <2>3, CreditSum
  <2>5. SumTo(user_quote, N) \in Int
    BY <1>1, <2>3, SumInt
  <2>6. SumTo(user_quote', N) + market_quote' = SumTo(user_quote, N) + market_quote
    BY <2>1, <2>2, <2>3, <2>4, <2>5
  <2> QED
    BY <2>6 DEF QuoteConserved
<1>4. ASSUME UNCHANGED <<user_quote, market_quote>> PROVE QuoteConserved'
  BY <1>4 DEF QuoteConserved
<1>5. CASE StakingInstructions \/ VestingInstructions
  <2>1. \/ \E user \in Users : ClaimStakingRewards(user)
        \/ UNCHANGED <<user_quote, market_quote>>
    <3>1. ASSUME NEW user \in Users, NEW amount, Deposit(user, amount) \/ Withdraw(user, amount)
          PROVE  UNCHANGED <<user_quote, market_quote>>
      BY <3>1 DEF Deposit, Withdraw, StakingOnly, S!deposit, S!withdraw
    <3>2. ASSUME NEW p, NEW user, NEW schedule, NEW amount,
                 CreateVestingPlan(user, p, schedule, amount) \/ Release(p)
          PROVE  UNCHANGED <<user_quote, market_quote>>
      BY <3>2 DEF CreateVestingPlan, Release, StakingOnly, S!create_vesting_plan, S!release
    <3>3. ASSUME NEW user, CreateStaking \/ CreateStakePosition(user)
          PROVE  UNCHANGED <<user_quote, market_quote>>
      BY <3>3 DEF CreateStaking, CreateStakePosition, StakingOnly, S!create_staking,
                  S!create_stake_position
    <3> QED
      BY <1>5, <3>1, <3>2, <3>3 DEF StakingInstructions, VestingInstructions
  <2> QED
    BY <1>3, <1>4, <2>1
<1>6. CASE Tick \/ UNCHANGED mill_vars
  BY <1>4, <1>6 DEF Tick, mill_vars, vars
<1> QED
  BY <1>2, <1>5, <1>6 DEF MillNext, MarketStep

LEMMA InitBacked == MillInit => MillBacked
<1> SUFFICES ASSUME MillInit PROVE MillBacked
  OBVIOUS
<1>1. Init /\ MillInv
  BY InitMill DEF MillInit
<1>2. Abstract!Init
  BY <1>1, AbstractInit
<1>3. Backed
  <2>1. Abstract!Covered
    BY <1>2 DEF Abstract!Init, Abstract!TypeOK, Abstract!Covered, Abstract!Unvalued
  <2> QED
    BY <1>1, <2>1, BackedCovers, MillTypes DEF MillInv
<1>4. MillBacking = Backing
  <2>1. shared = 0 /\ StakingFeesHeld \in Nat /\ SumTo(paid, N) \in Nat
        /\ StakingFeesHeld = shared - SumTo(paid, N)
    BY <1>1, MillTypes DEF MillInit
  <2>2. StakingFeesHeld = 0
    BY <2>1
  <2> QED
    BY <1>1, <2>2 DEF Init, Uninitialized, MillBacking, Backing
<1> QED
  BY <1>3, <1>4 DEF Backed, MillBacked, MillPot, Value, Sold

LEMMA AlwaysMillBacked ==
  ASSUME DecimalsFit
  PROVE  MillSpec => [](MillInv /\ MillBacked /\ QuoteConserved)
<1>1. MillInit => QuoteConserved
  BY InitQuote DEF MillInit
<1>2. MillInv /\ MillBacked /\ QuoteConserved /\ [MillNext]_mill_vars
        => MillInv' /\ MillBacked' /\ QuoteConserved'
  BY StepMill, StepBacked, StepMillQuote
<1> QED
  BY <1>1, <1>2, InitMill, InitBacked, PTL DEF MillSpec

\* Whatever is traded, staked, vested and claimed in whatever order: the market's quote
\* account covers the bid value of the circulating tokens, the creator's pending fees and
\* everything that is owed to stakers, at the same time.
THEOREM QuoteAccountAlwaysCovered ==
  ASSUME DecimalsFit
  PROVE  MillSpec => []QuoteAccountCovered
<1>1. MillInv /\ MillBacked => QuoteAccountCovered
  <2> SUFFICES ASSUME MillInv, MillBacked PROVE QuoteAccountCovered
    OBVIOUS
  <2>1. RP!RewardsSolvent
    BY MillTypes
  <2>2. S!Owed = RP!Owed
    <3>1. \A u : S!OwedTo(u) = RP!OwedTo(u)
      BY SameManager DEF S!OwedTo, RP!OwedTo
    <3>2. S!Users = Users /\ RP!Users = Users
      BY DEF S!Users, RP!Users, Users
    <3> QED
      BY <3>1, <3>2, Zenon DEF S!Owed, RP!Owed
  <2>3. STAKING_SCALE * StakingFeesHeld
          >= SumTo(S!Owed, N) + STAKING_SCALE * market.pending_staking_fees
    BY <2>1, <2>2, SameSum DEF RP!RewardsSolvent
  <2> QED
    BY <2>3 DEF QuoteAccountCovered, MillBacked, MillPot, Value, Sold
<1> QED
  BY <1>1, AlwaysMillBacked, PTL

\* The circulating tokens are worth something or nothing, never less.
LEMMA SoldValue ==
  ASSUME TypeInv, Shape, ReserveType
  PROVE  Value(Sold) \in Int /\ Value(Sold) >= 0
<1> DEFINE w == market.width_scaled
           bid == market.bid_prices
           x == Sold
<1>1. w \in Nat /\ bid \in [Index -> Nat] /\ x \in Nat
  BY DEF ReserveType, Levels, TypeInv, TypeOK
<1>2. Value(Sold) = Priced(Area(bid, w, x))
  BY DEF Value, BidArea
<1> HIDE DEF w, bid, x
<1>3. /\ Area(bid, w, 0) <= Area(bid, w, x) /\ Area(bid, w, x) \in Int /\ Area(bid, w, 0) = 0
  <2>1. (\A i \in Index : bid[i] <= bid[i]) /\ 0 \in Int /\ x \in Int /\ 0 <= x
    BY <1>1
  <2> QED
    BY <1>1, <2>1, AreaGrows, AreaNothing
<1> DEFINE a == Area(bid, w, x)
<1>4. a \in Int /\ 0 <= a /\ 0 \in Int
  BY <1>3
<1> HIDE DEF a
<1>5. Priced(0) = 0 /\ Priced(0) <= Priced(a) /\ Priced(a) \in Int
  BY <1>4, PricedOrder, CurveAssumption DEF Priced
<1> QED
  BY <1>2, <1>5 DEF a

\* A stake can be taken back, and a plan pays what is due of it, out of the shared account.
StakesReturn ==
  /\ \A user \in Users : staking.open /\ position[user].open =>
       \A amount \in 0..position[user].amount_staked :
         S!StakeFits(user, -amount, 0) /\ S!TransferFits(user, -amount)
  /\ \A p \in S!Plans : plan[p].owner # S!NoOwner /\ S!ReleaseFits(p) =>
       /\ S!Releasable(p) >= 0
       /\ S!StakeFits(plan[p].owner, 0, -S!Releasable(p))
       /\ S!TransferFits(plan[p].owner, -S!Releasable(p))

LEMMA SameFits ==
  \A user, staked, vested : S!StakeFits(user, staked, vested) <=> RP!StakeFits(user, staked, vested)
BY DEF S!StakeFits, RP!StakeFits, S!AccruedPerShare, RP!AccruedPerShare, S!SharesOf, RP!SharesOf,
       S!Reward, RP!Reward, S!Claimable, RP!Claimable, S!PendingAfter, RP!PendingAfter, S!U64, RP!U64

\* What the stakers' part of the base account can pay, the whole of it can.
LEMMA SharedPays ==
  ASSUME MillInv, NEW user \in Users, NEW amount \in Nat, RP!TransferFits(user, -amount)
  PROVE  S!TransferFits(user, -amount)
<1>1. /\ market_base \in Nat /\ market.base_reserve \in Nat /\ user_base[user] \in Nat
  BY MillTypes DEF TypeOK
<1>2. (market_base - market.base_reserve) + (-amount) >= 0
  BY DEF RP!TransferFits
<1> QED
  BY <1>1, <1>2 DEF S!TransferFits

LEMMA StakesLeave == MillInv /\ RP!LeaveInv => StakesReturn
<1> SUFFICES ASSUME MillInv, RP!LeaveInv PROVE StakesReturn
  OBVIOUS
<1>1. RP!StakersCanLeave /\ RP!TypeOK /\ RP!TypeInv
  BY RP!LeaveFits, StakingConstants, MillTypes
<1>2. ASSUME NEW user \in Users, staking.open, position[user].open,
             NEW amount \in 0..position[user].amount_staked
      PROVE  S!StakeFits(user, -amount, 0) /\ S!TransferFits(user, -amount)
  <2>1. RP!StakeFits(user, -amount, 0) /\ RP!TransferFits(user, -amount)
    BY <1>1, <1>2 DEF RP!StakersCanLeave, RP!Users, Users
  <2>2. amount \in Nat
    BY <1>2
  <2> QED
    BY <2>1, <2>2, SameFits, SharedPays
<1>3. ASSUME NEW p \in S!Plans, plan[p].owner # S!NoOwner, S!ReleaseFits(p)
      PROVE  /\ S!Releasable(p) >= 0
             /\ S!StakeFits(plan[p].owner, 0, -S!Releasable(p))
             /\ S!TransferFits(plan[p].owner, -S!Releasable(p))
  <2>1. p \in RP!Plans /\ plan[p].owner # RP!NoOwner /\ RP!ReleaseFits(p)
    BY <1>3, SameSchedule DEF S!Plans, RP!Plans, S!NoOwner, RP!NoOwner
  <2>2. /\ RP!Releasable(p) >= 0
        /\ RP!StakeFits(plan[p].owner, 0, -RP!Releasable(p))
        /\ RP!TransferFits(plan[p].owner, -RP!Releasable(p))
    BY <1>1, <2>1 DEF RP!StakersCanLeave
  <2>3. RP!Releasable(p) \in Int
    BY <1>1, <2>1, RP!ReleasableType, StakingConstants
  <2>4. plan[p].owner \in Users
    BY <1>1, <2>1 DEF RP!TypeOK, RP!Users, Users, RP!NoOwner
  <2>5. S!TransferFits(plan[p].owner, -RP!Releasable(p))
    BY <2>2, <2>3, <2>4, SharedPays
  <2> QED
    BY <2>2, <2>5, SameFits, SameSchedule
<1> QED
  BY <1>2, <1>3 DEF StakesReturn

LEMMA AlwaysLeave == MillSpec => []RP!LeaveInv
<1>1. MillInit => RP!LeaveInv
  BY InitStakers, RP!InitLeave, StakingConstants
<1>2. MillInv /\ RP!LeaveInv /\ [MillNext]_mill_vars => RP!LeaveInv'
  BY StepMill, RP!StepLeave, StakingConstants
<1> QED
  BY <1>1, <1>2, AlwaysMillInv, PTL DEF MillSpec

\* Stakers can leave whatever happened to the curve: what withdrawals and releases pay is in
\* the account that swaps pay out of too (withdraw.rs, release.rs, token_manager.rs:32).
THEOREM StakesAlwaysReturn == MillSpec => []StakesReturn
BY StakesLeave, AlwaysMillInv, AlwaysLeave, PTL

\* Claims of rewards, claims of the creator and sales of all circulating tokens never compete
\* for the one quote account they are paid from.
THEOREM EveryoneAlwaysPaid ==
  ASSUME DecimalsFit
  PROVE  MillSpec => []EveryoneCanBePaid
<1>1. MillInv /\ RP!LeaveInv /\ MillBacked /\ QuoteConserved => EveryoneCanBePaid
  <2> SUFFICES ASSUME MillInv, RP!LeaveInv, MillBacked, QuoteConserved, unpriced = 0 PROVE EveryoneCanBePaid
    BY DEF EveryoneCanBePaid
  <2>1. /\ TypeInv /\ TypeOK /\ Shape /\ StakingFeesHeld \in Nat /\ Opened
        /\ MillBacking \in Int /\ MillPot \in Int /\ ReserveType /\ market.width_scaled \in Nat
    BY MillTypes, MillPotTypes DEF MillInv
  <2>2. /\ market_quote \in Nat /\ market_quote <= U64_MAX /\ U64_MAX \in Nat
        /\ market.pending_creator_fees \in Nat
    BY <2>1, QuoteFits, CurveAssumption DEF TypeOK, U64
  <2>3. MillPot >= Value(Sold) /\ Value(Sold) \in Int
    <3>1. Value(unpriced) = 0
      BY <2>1, PricedAtOnce
    <3>2. MillPot + Value(unpriced) >= Value(Sold) /\ Value(Sold) \in Int
      BY <2>1, SoldValue DEF MillBacked
    <3> QED
      BY <2>1, <3>1, <3>2
  <2> DEFINE m == MillBacking
             q == market_quote
             c == market.pending_creator_fees
             h == StakingFeesHeld
  <2>4. m = q - c - h /\ m \in Int /\ q \in Nat /\ c \in Nat /\ h \in Nat
    BY <2>1, <2>2 DEF MillBacking
  <2>5. m >= 0
    <3>1. CASE Initialized
      <4>1. market.width_scaled > 0
        BY <2>1, <3>1 DEF Shape, Sound
      <4>2. Worth(market.width_scaled, m) >= 0
        <5>1. MillPot >= Value(Sold) /\ Value(Sold) >= 0 /\ Value(Sold) \in Int /\ MillPot \in Int
          BY <2>1, <2>3, SoldValue
        <5>2. MillPot >= 0
          BY <5>1
        <5> QED
          BY <5>2 DEF MillPot
      <4> DEFINE w == market.width_scaled
      <4>3. w \in Nat /\ w > 0 /\ Worth(w, m) >= 0 /\ 0 \in Int
        BY <2>1, <4>1, <4>2
      <4> HIDE DEF m, w
      <4>4. Worth(w, 0) = 0 /\ Worth(w, m) \in Int
        BY <2>4, <4>3, WorthOrder
      <4>5. Worth(w, 0) <= Worth(w, m)
        BY <4>3, <4>4
      <4>6. 0 <= m
        BY <2>4, <4>3, <4>5, WorthOrder
      <4> QED
        BY <2>4, <4>6
    <3>2. CASE ~Initialized
      <4>1. q = 0 /\ c = 0
        BY <2>1, <3>2 DEF Shape
      <4>2. h = 0
        <5>1. shared = 0 /\ StakingFeesHeld = shared - SumTo(paid, N) /\ SumTo(paid, N) \in Nat
          BY <2>1, <3>2, MillTypes DEF Opened
        <5> QED
          BY <2>1, <5>1
      <4> QED
        BY <2>4, <4>1, <4>2
    <3> QED
      BY <3>1, <3>2
  <2>6. c + h <= q /\ h <= q /\ m <= q
    <3> HIDE DEF m, q, c, h
    <3> QED
      BY <2>4, <2>5
  <2>7. S!StakersCanLeave /\ \A user \in Users : S!Claimable(user) <= h
    <3>1. RP!ClaimsPayable
      BY RP!SolventPays, StakingConstants DEF MillInv
    <3>2. ASSUME NEW user \in Users
          PROVE  S!Claimable(user) <= h /\ S!Claimable(user) <= q
      <4>1. RP!Claimable(user) \in RP!U64 /\ RP!Claimable(user) <= h
        BY <3>1 DEF RP!ClaimsPayable, RP!Users, Users
      <4>2. S!Claimable(user) = RP!Claimable(user)
        BY SameManager
      <4>3. RP!Claimable(user) \in Int
        BY <4>1, CurveAssumption DEF RP!U64
      <4> HIDE DEF h, q
      <4>4. RP!Claimable(user) <= q
        BY <2>4, <2>6, <4>1, <4>3
      <4> QED
        BY <4>1, <4>2, <4>4
    <3> QED
      BY <3>2, StakesLeave DEF S!StakersCanLeave, StakesReturn, S!Users, Users
  <2>8. ASSUME are_prices_set(market), NEW amount \in 1..circulating_supply(market)
        PROVE  LET sale == get_quote_amount(market, amount, "ExactInput")
               IN  sale.ok /\ sale.quote <= MillBacking
    <3>1. Worth(market.width_scaled, MillBacking) >= Value(Sold)
      BY <2>3 DEF MillPot
    <3>2. MillBacking <= U64_MAX
      BY <2>2, <2>4, <2>6
    <3> QED
      BY <2>1, <2>8, <3>1, <3>2, SaleCovered
  <2> QED
    BY <2>6, <2>7, <2>8 DEF EveryoneCanBePaid
<1> QED
  BY <1>1, AlwaysMillBacked, AlwaysLeave, PTL

-----------------------------------------------------------------------------
(* Staking in the shared accounts implements staking alone. *)

\* StakingProofs and the refinement of TokenMill speak of the same specification.
LEMMA SameRewards ==
  /\ \A user, staked, vested, kept :
       RP!UpdateStake(user, staked, vested, kept) <=> Rewards!UpdateStake(user, staked, vested, kept)
  /\ \A user, amount : RP!TransferStake(user, amount) <=> Rewards!TransferStake(user, amount)
  /\ \A user : RP!Claimable(user) = Rewards!Claimable(user)
  /\ \A p : /\ RP!Releasable(p) = Rewards!Releasable(p)
            /\ RP!ReleaseFits(p) <=> Rewards!ReleaseFits(p)
<1>1. /\ \A user, staked, vested, kept :
           RP!UpdateStake(user, staked, vested, kept) <=> Rewards!UpdateStake(user, staked, vested, kept)
      /\ \A user : RP!Claimable(user) = Rewards!Claimable(user)
  BY DEF RP!UpdateStake, RP!StakeFits, Rewards!UpdateStake, Rewards!StakeFits, RP!AccruedPerShare, Rewards!AccruedPerShare,
         RP!SharesOf, Rewards!SharesOf, RP!Reward, Rewards!Reward, RP!Claimable, Rewards!Claimable,
         RP!Totals, Rewards!Totals, RP!Stake, Rewards!Stake, RP!PendingAfter, Rewards!PendingAfter,
         RP!U64, Rewards!U64
<1>2. \A user, amount : RP!TransferStake(user, amount) <=> Rewards!TransferStake(user, amount)
  BY DEF RP!TransferStake, RP!TransferFits, Rewards!TransferStake, Rewards!TransferFits
<1>3. \A p : /\ RP!Releasable(p) = Rewards!Releasable(p)
             /\ RP!ReleaseFits(p) <=> Rewards!ReleaseFits(p)
  BY DEF RP!Releasable, Rewards!Releasable, RP!ReleaseFits, Rewards!ReleaseFits,
         RP!Elapsed, Rewards!Elapsed, RP!U64, Rewards!U64
<1> QED
  BY <1>1, <1>2, <1>3

LEMMA SameRewardSteps ==
  /\ RP!Init <=> Rewards!Init
  /\ RP!Next <=> Rewards!Next
  /\ UNCHANGED RP!vars <=> UNCHANGED Rewards!vars
<1>1. RP!Init <=> Rewards!Init
  BY DEF RP!Init, Rewards!Init, RP!Users, Rewards!Users, RP!Plans, Rewards!Plans,
         RP!NoOwner, Rewards!NoOwner
<1>2. UNCHANGED RP!vars <=> UNCHANGED Rewards!vars
  BY DEF RP!vars, Rewards!vars
<1>3. /\ RP!create_staking <=> Rewards!create_staking
      /\ \A user : RP!create_stake_position(user) <=> Rewards!create_stake_position(user)
  BY DEF RP!create_staking, Rewards!create_staking,
         RP!create_stake_position, Rewards!create_stake_position
<1>4. \A user, amount : /\ RP!deposit(user, amount) <=> Rewards!deposit(user, amount)
                        /\ RP!withdraw(user, amount) <=> Rewards!withdraw(user, amount)
  BY SameRewards DEF RP!deposit, Rewards!deposit, RP!withdraw, Rewards!withdraw
<1>5. \A user : RP!claim_staking_rewards(user) <=> Rewards!claim_staking_rewards(user)
  BY SameRewards DEF RP!claim_staking_rewards, Rewards!claim_staking_rewards
<1>6. \A user, p, schedule, amount :
        RP!create_vesting_plan(user, p, schedule, amount)
          <=> Rewards!create_vesting_plan(user, p, schedule, amount)
  BY SameRewards DEF RP!create_vesting_plan, Rewards!create_vesting_plan, RP!NoOwner, Rewards!NoOwner
<1>7. \A p : RP!release(p) <=> Rewards!release(p)
  BY SameRewards DEF RP!release, Rewards!release, RP!NoOwner, Rewards!NoOwner
<1>8. (\A fee : RP!FeesArrive(fee) <=> Rewards!FeesArrive(fee)) /\ (RP!Tick <=> Rewards!Tick)
  BY SameSum DEF RP!FeesArrive, Rewards!FeesArrive, RP!Tick, Rewards!Tick
<1>9. RP!Next <=> Rewards!Next
  BY <1>3, <1>4, <1>5, <1>6, <1>7, <1>8
     DEF RP!Next, Rewards!Next, RP!Opening, Rewards!Opening, RP!Deposit, Rewards!Deposit,
         RP!Withdraw, Rewards!Withdraw, RP!Claim, Rewards!Claim, RP!Vest, Rewards!Vest,
         RP!Release, Rewards!Release, RP!Environment, Rewards!Environment,
         RP!Users, Rewards!Users, RP!Plans, Rewards!Plans
<1> QED
  BY <1>1, <1>2, <1>9

\* Nothing the market does disturbs a stake, a plan or a reward: every history of the
\* program is, seen by the stakers, a history of staking alone whose fees come from swaps.
THEOREM StakingAlwaysImplemented == MillSpec => ImplementsStaking
<1>1. MillInit => Rewards!Init
  <2> SUFFICES ASSUME MillInit PROVE Rewards!Init
    OBVIOUS
  <2> QED
    BY InitStakers, SameRewardSteps
<1>2. MillInv /\ [MillNext]_mill_vars => [Rewards!Next]_(Rewards!vars)
  <2>1. [RP!Next]_(RP!vars) => [Rewards!Next]_(Rewards!vars)
    BY SameRewardSteps
  <2> QED
    BY <2>1, StepMill
<1> QED
  BY <1>1, <1>2, AlwaysMillInv, PTL DEF MillSpec, ImplementsStaking, Rewards!Spec

-----------------------------------------------------------------------------
(* The events. *)

\* The book that says what is the case, given the announced recipients of protocol fees.
TrueBook(recipients) ==
  [creator |-> IF Initialized THEN market.creator ELSE 0,
   base_reserve |-> market.base_reserve,
   prices |-> IF are_prices_set(market) THEN {<<market.bid_prices, market.ask_prices>>} ELSE {},
   creator_fee_share |-> market.creator_fee_share,
   staking_fee_share |-> market.staking_fee_share,
   default_protocol_fee_share |-> config.default_protocol_fee_share,
   referral_fee_share |-> config.referral_fee_share,
   protocol_fee_recipient |-> recipients,
   base |-> market_base, quote |-> market_quote,
   creator_fees |-> market.pending_creator_fees, staking_fees |-> StakingFeesHeld,
   staked |-> [u \in Users |-> position[u].amount_staked],
   plan |-> [p \in 1..P |-> [user |-> plan[p].owner,
                            left |-> plan[p].amount_vested - plan[p].amount_released]]]

BookFields ==
  {"creator", "base_reserve", "prices", "creator_fee_share", "staking_fee_share",
   "default_protocol_fee_share", "referral_fee_share", "protocol_fee_recipient", "base", "quote",
   "creator_fees", "staking_fees", "staked", "plan"}

BookTrue == \E recipients \in SUBSET {config.protocol_fee_recipient} : book = TrueBook(recipients)

LEMMA BookTrueAgrees == BookTrue => BookAgrees
<1> SUFFICES ASSUME BookTrue PROVE BookAgrees
  OBVIOUS
<1>1. PICK recipients \in SUBSET {config.protocol_fee_recipient} : book = TrueBook(recipients)
  BY DEF BookTrue
<1>2. S!StakedOf = [u \in Users |-> position[u].amount_staked]
  BY DEF S!StakedOf, S!Users, Users
<1> QED
  BY <1>1, <1>2 DEF TrueBook, BookAgrees

\* What each event of the market writes into the book.
LEMMA MarketEntries ==
  ASSUME NEW b, NEW e
  PROVE  /\ e.event = "MarketCreation" =>
              Booked(b, e) = [b EXCEPT !.creator = e.creator, !.base_reserve = e.total_supply,
                                       !.base = e.total_supply,
                                       !.creator_fee_share = e.creator_fee_share,
                                       !.staking_fee_share = e.staking_fee_share]
         /\ e.event = "MarketPriceSet" =>
              Booked(b, e) = [b EXCEPT !.prices = {<<e.bid_prices, e.ask_prices>>}]
         /\ e.event = "DefaultFeeSharesUpdate" =>
              Booked(b, e) = [b EXCEPT !.default_protocol_fee_share = e.new_default_protocol_fee_share,
                                       !.referral_fee_share = e.new_referral_fee_share]
         /\ e.event = "ProtocolFeeRecipientUpdate" =>
              Booked(b, e) = [b EXCEPT !.protocol_fee_recipient = {e.new_protocol_fee_recipient}]
         /\ e.event = "CreatorUpdate" => Booked(b, e) = [b EXCEPT !.creator = e.new_creator]
         /\ e.event = "MarketFeeSharesUpdate" =>
              Booked(b, e) = [b EXCEPT !.creator_fee_share = e.new_creator_fee_share,
                                       !.staking_fee_share = e.new_staking_fee_share]
         /\ e.event = "Swap" => Booked(b, e) = BookTrade(b, e)
         /\ e.event = "CreatorFeeClaim" =>
              Booked(b, e) = [b EXCEPT !.quote = @ - e.fees_distributed,
                                       !.creator_fees = @ - e.fees_distributed]
<1>1. ASSUME NEW c, e.event \in {"MarketCreation", "MarketPriceSet"}
      PROVE  BookSettings(c, e) = c /\ BookTrade(c, e) = c /\ BookStake(c, e) = c
  BY <1>1 DEF BookSettings, BookTrade, BookStake
<1>2. ASSUME NEW c, e.event \in {"DefaultFeeSharesUpdate", "ProtocolFeeRecipientUpdate",
                                 "CreatorUpdate", "MarketFeeSharesUpdate"}
      PROVE  BookLaunch(c, e) = c /\ BookTrade(c, e) = c /\ BookStake(c, e) = c
  BY <1>2 DEF BookLaunch, BookTrade, BookStake
<1>3. ASSUME NEW c, e.event \in {"Swap", "CreatorFeeClaim"}
      PROVE  BookLaunch(c, e) = c /\ BookSettings(c, e) = c /\ BookStake(c, e) = c
  BY <1>3 DEF BookLaunch, BookSettings, BookStake
<1>4. e.event \in {"MarketCreation", "MarketPriceSet"} => Booked(b, e) = BookLaunch(b, e)
  BY <1>1 DEF Booked
<1>5. e.event \in {"DefaultFeeSharesUpdate", "ProtocolFeeRecipientUpdate", "CreatorUpdate",
                   "MarketFeeSharesUpdate"} => Booked(b, e) = BookSettings(b, e)
  BY <1>2 DEF Booked
<1>6. e.event \in {"Swap", "CreatorFeeClaim"} => Booked(b, e) = BookTrade(b, e)
  BY <1>3 DEF Booked
<1>7. e.event = "MarketCreation" =>
        BookLaunch(b, e) = [b EXCEPT !.creator = e.creator, !.base_reserve = e.total_supply,
                                     !.base = e.total_supply,
                                     !.creator_fee_share = e.creator_fee_share,
                                     !.staking_fee_share = e.staking_fee_share]
  BY DEF BookLaunch
<1>8. e.event = "MarketPriceSet" =>
        BookLaunch(b, e) = [b EXCEPT !.prices = {<<e.bid_prices, e.ask_prices>>}]
  BY DEF BookLaunch
<1>9. /\ e.event = "DefaultFeeSharesUpdate" =>
           BookSettings(b, e) = [b EXCEPT !.default_protocol_fee_share = e.new_default_protocol_fee_share,
                                          !.referral_fee_share = e.new_referral_fee_share]
      /\ e.event = "ProtocolFeeRecipientUpdate" =>
           BookSettings(b, e) = [b EXCEPT !.protocol_fee_recipient = {e.new_protocol_fee_recipient}]
      /\ e.event = "CreatorUpdate" => BookSettings(b, e) = [b EXCEPT !.creator = e.new_creator]
      /\ e.event = "MarketFeeSharesUpdate" =>
           BookSettings(b, e) = [b EXCEPT !.creator_fee_share = e.new_creator_fee_share,
                                          !.staking_fee_share = e.new_staking_fee_share]
  BY DEF BookSettings
<1>10. e.event = "CreatorFeeClaim" =>
         BookTrade(b, e) = [b EXCEPT !.quote = @ - e.fees_distributed,
                                     !.creator_fees = @ - e.fees_distributed]
  BY DEF BookTrade
<1> QED
  BY <1>4, <1>5, <1>6, <1>7, <1>8, <1>9, <1>10

\* What each event of staking and vesting writes into the book.
LEMMA StakingEntries ==
  ASSUME NEW b, NEW e
  PROVE  /\ e.event = "StakingRewardsClaim" =>
              Booked(b, e) = [b EXCEPT !.quote = @ - e.amount_distributed,
                                       !.staking_fees = @ - e.amount_distributed]
         /\ e.event = "StakingDeposit" =>
              Booked(b, e) = [b EXCEPT !.base = @ + e.amount, !.staked[e.user] = @ + e.amount]
         /\ e.event = "StakingWithdrawal" =>
              Booked(b, e) = [b EXCEPT !.base = @ - e.amount, !.staked[e.user] = @ - e.amount]
         /\ e.event = "VestingPlanCreation" =>
              Booked(b, e) = [b EXCEPT !.base = @ + e.vesting_amount,
                                       !.plan[e.vesting_plan] = [user |-> e.user, left |-> e.vesting_amount]]
         /\ e.event = "VestingPlanRelease" =>
              Booked(b, e) = [b EXCEPT !.base = @ - e.amount_released,
                                       !.plan[e.vesting_plan].left = @ - e.amount_released]
<1>1. ASSUME NEW c, e.event \in {"StakingRewardsClaim"}
      PROVE  BookLaunch(c, e) = c /\ BookSettings(c, e) = c /\ BookStake(c, e) = c
  BY <1>1 DEF BookLaunch, BookSettings, BookStake
<1>2. ASSUME NEW c, e.event \in {"StakingDeposit", "StakingWithdrawal", "VestingPlanCreation",
                                 "VestingPlanRelease"}
      PROVE  BookLaunch(c, e) = c /\ BookSettings(c, e) = c /\ BookTrade(c, e) = c
  BY <1>2 DEF BookLaunch, BookSettings, BookTrade
<1>3. e.event = "StakingRewardsClaim" => Booked(b, e) = BookTrade(b, e)
  BY <1>1 DEF Booked
<1>4. e.event \in {"StakingDeposit", "StakingWithdrawal", "VestingPlanCreation", "VestingPlanRelease"} =>
        Booked(b, e) = BookStake(b, e)
  BY <1>2 DEF Booked
<1>5. e.event = "StakingRewardsClaim" =>
        BookTrade(b, e) = [b EXCEPT !.quote = @ - e.amount_distributed,
                                    !.staking_fees = @ - e.amount_distributed]
  BY DEF BookTrade
<1>6. /\ e.event = "StakingDeposit" =>
           BookStake(b, e) = [b EXCEPT !.base = @ + e.amount, !.staked[e.user] = @ + e.amount]
      /\ e.event = "StakingWithdrawal" =>
           BookStake(b, e) = [b EXCEPT !.base = @ - e.amount, !.staked[e.user] = @ - e.amount]
  BY DEF BookStake
<1>7. /\ e.event = "VestingPlanCreation" =>
           BookStake(b, e) = [b EXCEPT !.base = @ + e.vesting_amount,
                                       !.plan[e.vesting_plan] = [user |-> e.user, left |-> e.vesting_amount]]
      /\ e.event = "VestingPlanRelease" =>
           BookStake(b, e) = [b EXCEPT !.base = @ - e.amount_released,
                                       !.plan[e.vesting_plan].left = @ - e.amount_released]
  BY DEF BookStake
<1> QED
  BY <1>3, <1>4, <1>5, <1>6, <1>7

\* A market has no prices before it exists, and keeps its name once it does.
LEMMA Named ==
  ASSUME TypeOK, Shape
  PROVE  ~Initialized => ~are_prices_set(market)
BY CurvesOrdered DEF Shape

LEMMA BookCreation ==
  ASSUME MillInv, BookTrue, NEW creator \in Users, NEW supply \in Supplies,
         NEW c \in Shares, NEW s \in Shares, CreateMarket(creator, supply, c, s)
  PROVE  BookTrue'
<1>1. TypeOK /\ Shape /\ Initialized = (market.total_supply > 0)
  BY DEF MillInv, TypeInv, Initialized
<1>2. PICK recipients \in SUBSET {config.protocol_fee_recipient} : book = TrueBook(recipients)
  BY DEF BookTrue
<1> DEFINE e == [event |-> "MarketCreation", creator |-> creator, total_supply |-> supply,
                 creator_fee_share |-> c, staking_fee_share |-> s]
<1>3. /\ create_market(creator, supply, c, s) /\ UNCHANGED <<stake_vars, shared>> /\ book' = Booked(book, e)
  BY DEF CreateMarket, emit
<1>4. book' = [book EXCEPT !.creator = creator, !.base_reserve = supply, !.base = supply,
                           !.creator_fee_share = c, !.staking_fee_share = s]
  <2>1. /\ e.event = "MarketCreation" /\ e.creator = creator /\ e.total_supply = supply
        /\ e.creator_fee_share = c /\ e.staking_fee_share = s
    OBVIOUS
  <2> HIDE DEF e
  <2>2. Booked(book, e) = [book EXCEPT !.creator = e.creator, !.base_reserve = e.total_supply,
                                       !.base = e.total_supply,
                                       !.creator_fee_share = e.creator_fee_share,
                                       !.staking_fee_share = e.staking_fee_share]
    BY <2>1, MarketEntries, Zenon
  <2> QED
    BY <1>3, <2>1, <2>2
<1>5. /\ market'.creator = creator /\ market'.base_reserve = supply /\ market'.total_supply = supply
      /\ market'.bid_prices = market.bid_prices /\ market'.ask_prices = market.ask_prices
      /\ market'.creator_fee_share = c /\ market'.staking_fee_share = s
      /\ market'.pending_creator_fees = market.pending_creator_fees
      /\ config' = config /\ market_base' = supply /\ market_quote' = market_quote
      /\ ~Initialized
  BY <1>1, <1>3 DEF create_market, TypeOK
<1>6. Initialized'
  <2>1. supply \in Nat /\ ValidSupply(supply)
    BY <1>3, MarketAssumption DEF create_market
  <2>2. supply \in Nat \ {0}
    BY <2>1, ValidSupplyDivides
  <2> QED
    BY <1>5, <2>2 DEF Initialized
<1>7. ~are_prices_set(market) /\ ~are_prices_set(market')
  BY <1>1, <1>5, Named DEF are_prices_set
<1>8. StakingFeesHeld' = StakingFeesHeld /\ UNCHANGED <<position, plan>>
  BY <1>3, SameHeld DEF stake_vars
<1>9. book' = TrueBook(recipients)'
  <2> DEFINE staked == [u \in Users |-> position[u].amount_staked]
             plans == [p \in 1..P |-> [user |-> plan[p].owner,
                                       left |-> plan[p].amount_vested - plan[p].amount_released]]
             dshare == config.default_protocol_fee_share
             rshare == config.referral_fee_share
             fees == market.pending_creator_fees
             quote == market_quote
             held == StakingFeesHeld
  <2>1. staked' = staked /\ plans' = plans
    BY <1>8
  <2>2. /\ book.prices = {} /\ book.default_protocol_fee_share = dshare
        /\ book.referral_fee_share = rshare /\ book.protocol_fee_recipient = recipients
        /\ book.quote = quote /\ book.creator_fees = fees /\ book.staking_fees = held
        /\ book.staked = staked /\ book.plan = plans
        /\ DOMAIN book = BookFields
    BY <1>2, <1>7 DEF TrueBook, BookFields
  <2>3. TrueBook(recipients)'
          = [creator |-> creator, base_reserve |-> supply, prices |-> {}, creator_fee_share |-> c,
             staking_fee_share |-> s, default_protocol_fee_share |-> dshare,
             referral_fee_share |-> rshare, protocol_fee_recipient |-> recipients,
             base |-> supply, quote |-> quote, creator_fees |-> fees, staking_fees |-> held,
             staked |-> staked, plan |-> plans]
    BY <1>5, <1>6, <1>7, <1>8, <2>1 DEF TrueBook, are_prices_set
  <2> HIDE DEF staked, plans, dshare, rshare, fees, quote, held
  <2>4. book' = [creator |-> creator, base_reserve |-> supply, prices |-> {}, creator_fee_share |-> c,
                 staking_fee_share |-> s, default_protocol_fee_share |-> dshare,
                 referral_fee_share |-> rshare, protocol_fee_recipient |-> recipients,
                 base |-> supply, quote |-> quote, creator_fees |-> fees, staking_fees |-> held,
                 staked |-> staked, plan |-> plans]
    BY <1>4, <2>2 DEF BookFields
  <2> QED
    BY <2>3, <2>4
<1> QED
  BY <1>5, <1>9 DEF BookTrue

LEMMA BookPricing ==
  ASSUME MillInv, BookTrue, NEW user \in Users, NEW c \in PriceCurves,
         SetMarketPrices(user, c.bid_prices, c.ask_prices)
  PROVE  BookTrue'
<1>1. TypeOK /\ Shape
  BY DEF MillInv, TypeInv
<1>2. PICK recipients \in SUBSET {config.protocol_fee_recipient} : book = TrueBook(recipients)
  BY DEF BookTrue
<1> DEFINE e == [event |-> "MarketPriceSet", bid_prices |-> c.bid_prices, ask_prices |-> c.ask_prices]
<1>3. /\ set_market_prices(user, c.bid_prices, c.ask_prices) /\ UNCHANGED <<stake_vars, shared>>
      /\ book' = Booked(book, e)
  BY DEF SetMarketPrices, emit
<1>4. book' = [book EXCEPT !.prices = {<<c.bid_prices, c.ask_prices>>}]
  <2>1. e.event = "MarketPriceSet" /\ e.bid_prices = c.bid_prices /\ e.ask_prices = c.ask_prices
    OBVIOUS
  <2> HIDE DEF e
  <2>2. Booked(book, e) = [book EXCEPT !.prices = {<<e.bid_prices, e.ask_prices>>}]
    BY <2>1, MarketEntries, Zenon
  <2> QED
    BY <1>3, <2>1, <2>2
<1>5. /\ market'.creator = market.creator /\ market'.base_reserve = market.base_reserve
      /\ market'.total_supply = market.total_supply
      /\ market'.bid_prices = c.bid_prices /\ market'.ask_prices = c.ask_prices
      /\ market'.creator_fee_share = market.creator_fee_share
      /\ market'.staking_fee_share = market.staking_fee_share
      /\ market'.pending_creator_fees = market.pending_creator_fees
      /\ config' = config /\ market_base' = market_base /\ market_quote' = market_quote
      /\ ValidPrices(c.bid_prices, c.ask_prices)
  BY <1>1, <1>3 DEF set_market_prices, TypeOK
<1>6. are_prices_set(market')
  <2>1. c.bid_prices \in [Index -> Nat] /\ c.ask_prices \in [Index -> Nat]
    BY MarketAssumption
  <2> QED
    BY <1>5, <2>1, ValidPricesClimb DEF are_prices_set
<1>7. Initialized' = Initialized
  BY <1>5 DEF Initialized
<1>8. StakingFeesHeld' = StakingFeesHeld /\ UNCHANGED <<position, plan>>
  BY <1>3, SameHeld DEF stake_vars
<1>9. book' = TrueBook(recipients)'
  BY <1>2, <1>4, <1>5, <1>6, <1>7, <1>8 DEF TrueBook
<1> QED
  BY <1>5, <1>9 DEF BookTrue

\* The event of a swap carries its amounts and the fee as it was split, so that the book
\* moves by what the token accounts and the pots move by.
LEMMA BookSwap ==
  ASSUME MillInv, BookTrue, NEW user \in Users, NEW swap_type \in {"Buy", "Sell"},
         NEW swap_amount_type, NEW amount, NEW threshold, NEW referral \in Users \cup {NoReferral},
         Initialized,
         Swapping(user, swap_type, swap_amount_type,
                  swap_amounts(market, swap_type, swap_amount_type, amount), threshold, referral)
  PROVE  BookTrue'
<1> DEFINE s == swap_amounts(market, swap_type, swap_amount_type, amount)
           share == IF referral = NoReferral THEN 0 ELSE config.referral_fee_share
           fee == distribute_fee(market, s.swap_fee, share)
           e == SwapEvent(swap_type, s, fee, referral)
           sign == IF swap_type = "Buy" THEN 1 ELSE -1
           base_delta == IF swap_type = "Buy" THEN s.base ELSE -s.base
           quote_delta == IF swap_type = "Buy" THEN -s.quote ELSE s.quote
<1>1. /\ TypeInv /\ TypeOK /\ SharesFit /\ shared \in Nat
      /\ market.base_reserve \in Int /\ market_base \in Int /\ market_quote \in Int
      /\ market.pending_creator_fees \in Int
      /\ SumTo(paid, N) \in Nat /\ StakingFeesHeld = shared - SumTo(paid, N)
  <2>1. TypeInv /\ shared \in Nat /\ SumTo(paid, N) \in Nat /\ StakingFeesHeld = shared - SumTo(paid, N)
    BY MillTypes DEF MillInv
  <2> QED
    BY <2>1, CurveAssumption DEF TypeInv, TypeOK, U64
<1>2. PICK recipients \in SUBSET {config.protocol_fee_recipient} : book = TrueBook(recipients)
  BY DEF BookTrue
<1>3. /\ swap(user, swap_type, swap_amount_type, s, threshold, referral) /\ UNCHANGED stake_vars
      /\ shared' = shared + fee.staking /\ book' = Booked(book, e)
  BY DEF Swapping, emit
<1>4. /\ s.base \in U64 /\ s.quote \in U64 /\ s.swap_fee \in 0..s.quote
      /\ swap_type = "Buy" => s.base_reserve = market.base_reserve - s.base
      /\ swap_type = "Sell" => s.base_reserve = market.base_reserve + s.base
  BY <1>1, SwapAmounts
<1>5. /\ fee.creator \in Nat /\ fee.staking \in Nat /\ fee.referral \in Nat /\ fee.protocol \in Nat
      /\ referral = NoReferral => fee.referral = 0
  <2>1. s.swap_fee \in Nat
    BY <1>4, CurveAssumption DEF U64
  <2>2. /\ share \in Shares /\ market.creator_fee_share \in Nat /\ market.staking_fee_share \in Nat
        /\ market.creator_fee_share + market.staking_fee_share <= MAX_BPS
        /\ referral = NoReferral => share = 0
    BY <1>1, MarketAssumption DEF TypeOK, Shares, SharesFit
  <2> HIDE DEF s, share
  <2> QED
    BY <2>1, <2>2, FeeParts
<1>6. /\ market' = [market EXCEPT !.base_reserve = s.base_reserve,
                                  !.pending_creator_fees = @ + fee.creator,
                                  !.pending_staking_fees = @ + fee.staking]
      /\ market_base' = market_base - base_delta
      /\ market_quote' = market_quote - quote_delta - fee.protocol - fee.referral
      /\ config' = config
  BY <1>3 DEF swap
<1>7. book' = BookTrade(book, e) /\ e.event = "Swap"
  <2>1. e.event = "Swap"
    BY DEF SwapEvent
  <2> HIDE DEF e
  <2>2. Booked(book, e) = BookTrade(book, e)
    BY <2>1, MarketEntries, Zenon
  <2> QED
    BY <1>3, <2>1, <2>2
<1>8. /\ e.swap_type = swap_type /\ e.base_amount = s.base /\ e.quote_amount = s.quote
      /\ e.creator_fee = fee.creator /\ e.staking_fee = fee.staking
      /\ e.protocol_fee = fee.protocol /\ e.referral_fee = fee.referral
  BY <1>5 DEF SwapEvent
<1> HIDE DEF e, s, fee, share
<1>9. book' = [book EXCEPT !.base_reserve = @ - sign * s.base, !.base = @ - sign * s.base,
                           !.quote = @ + sign * s.quote - fee.protocol - fee.referral,
                           !.creator_fees = @ + fee.creator, !.staking_fees = @ + fee.staking]
  BY <1>7, <1>8 DEF BookTrade
<1>10. s.base \in Int /\ s.quote \in Int
  BY <1>4, CurveAssumption DEF U64
<1>11. /\ market'.creator = market.creator /\ market'.base_reserve = s.base_reserve
       /\ market'.total_supply = market.total_supply
       /\ market'.bid_prices = market.bid_prices /\ market'.ask_prices = market.ask_prices
       /\ market'.creator_fee_share = market.creator_fee_share
       /\ market'.staking_fee_share = market.staking_fee_share
       /\ market'.pending_creator_fees = market.pending_creator_fees + fee.creator
  BY <1>1, <1>6 DEF TypeOK
<1>12. /\ s.base_reserve = market.base_reserve - sign * s.base
       /\ market_base' = market_base - sign * s.base
       /\ market_quote' = market_quote + sign * s.quote - fee.protocol - fee.referral
  <2>1. swap_type = "Buy" \/ swap_type = "Sell"
    OBVIOUS
  <2> QED
    BY <1>1, <1>4, <1>5, <1>6, <1>10, <2>1
<1>13. StakingFeesHeld' = StakingFeesHeld + fee.staking
  <2>1. paid' = paid
    BY <1>3 DEF stake_vars
  <2>2. StakingFeesHeld' = shared' - SumTo(paid', N)
    BY DEF StakingFeesHeld
  <2>3. SumTo(paid', N) = SumTo(paid, N)
    BY <2>1
  <2> QED
    BY <1>1, <1>3, <1>5, <2>2, <2>3
<1>14. Initialized' = Initialized /\ are_prices_set(market)' = are_prices_set(market)
  BY <1>11 DEF Initialized, are_prices_set
<1>15. UNCHANGED <<position, plan>>
  BY <1>3 DEF stake_vars
<1>16. book' = TrueBook(recipients)'
  <2> DEFINE db == sign * s.base
             dq == sign * s.quote
  <2>1. /\ book' = [book EXCEPT !.base_reserve = @ - db, !.base = @ - db,
                                !.quote = @ + dq - fee.protocol - fee.referral,
                                !.creator_fees = @ + fee.creator, !.staking_fees = @ + fee.staking]
        /\ market'.base_reserve = market.base_reserve - db /\ market_base' = market_base - db
        /\ market_quote' = market_quote + dq - fee.protocol - fee.referral
    BY <1>9, <1>11, <1>12
  <2> HIDE DEF db, dq
  <2>2. /\ book.base_reserve = market.base_reserve /\ book.base = market_base
        /\ book.quote = market_quote /\ book.creator_fees = market.pending_creator_fees
        /\ book.staking_fees = StakingFeesHeld
    BY <1>2 DEF TrueBook
  <2>3. book' = [book EXCEPT !.base_reserve = book.base_reserve - db, !.base = book.base - db,
                             !.quote = book.quote + dq - fee.protocol - fee.referral,
                             !.creator_fees = book.creator_fees + fee.creator,
                             !.staking_fees = book.staking_fees + fee.staking]
    BY <2>1
  <2>4. book' = [book EXCEPT !.base_reserve = market'.base_reserve, !.base = market_base',
                             !.quote = market_quote', !.creator_fees = market'.pending_creator_fees,
                             !.staking_fees = StakingFeesHeld']
    BY <1>11, <1>13, <2>1, <2>2, <2>3, Zenon
  <2> QED
    <3> DEFINE creator == IF Initialized THEN market.creator ELSE 0
               prices == IF are_prices_set(market) THEN {<<market.bid_prices, market.ask_prices>>} ELSE {}
               staked == [u \in Users |-> position[u].amount_staked]
               plans == [p \in 1..P |-> [user |-> plan[p].owner,
                                         left |-> plan[p].amount_vested - plan[p].amount_released]]
    <3>1. creator' = creator /\ prices' = prices /\ staked' = staked /\ plans' = plans
      BY <1>11, <1>14, <1>15
    <3>2. book = [creator |-> creator, base_reserve |-> market.base_reserve, prices |-> prices,
                  creator_fee_share |-> market.creator_fee_share,
                  staking_fee_share |-> market.staking_fee_share,
                  default_protocol_fee_share |-> config.default_protocol_fee_share,
                  referral_fee_share |-> config.referral_fee_share,
                  protocol_fee_recipient |-> recipients,
                  base |-> market_base, quote |-> market_quote,
                  creator_fees |-> market.pending_creator_fees, staking_fees |-> StakingFeesHeld,
                  staked |-> staked, plan |-> plans]
      BY <1>2 DEF TrueBook
    <3>3. TrueBook(recipients)'
            = [creator |-> creator', base_reserve |-> market'.base_reserve, prices |-> prices',
               creator_fee_share |-> market'.creator_fee_share,
               staking_fee_share |-> market'.staking_fee_share,
               default_protocol_fee_share |-> config'.default_protocol_fee_share,
               referral_fee_share |-> config'.referral_fee_share,
               protocol_fee_recipient |-> recipients,
               base |-> market_base', quote |-> market_quote',
               creator_fees |-> market'.pending_creator_fees, staking_fees |-> StakingFeesHeld',
               staked |-> staked', plan |-> plans']
      BY DEF TrueBook
    <3> HIDE DEF creator, prices, staked, plans
    <3> QED
      <4>1. book' = [creator |-> creator, base_reserve |-> market'.base_reserve, prices |-> prices,
                     creator_fee_share |-> market.creator_fee_share,
                     staking_fee_share |-> market.staking_fee_share,
                     default_protocol_fee_share |-> config.default_protocol_fee_share,
                     referral_fee_share |-> config.referral_fee_share,
                     protocol_fee_recipient |-> recipients,
                     base |-> market_base', quote |-> market_quote',
                     creator_fees |-> market'.pending_creator_fees, staking_fees |-> StakingFeesHeld',
                     staked |-> staked, plan |-> plans]
        BY <2>4, <3>2
      <4>2. /\ market'.creator_fee_share = market.creator_fee_share
            /\ market'.staking_fee_share = market.staking_fee_share /\ config' = config
        BY <1>6, <1>11
      <4> QED
        BY <3>1, <3>3, <4>1, <4>2
<1> QED
  BY <1>6, <1>16 DEF BookTrue

\* The creator's and the authority's events.
LEMMA BookSettled ==
  ASSUME MillInv, BookTrue, CreatorInstructions \/ AdminInstructions
  PROVE  BookTrue'
<1>1. TypeOK /\ market.pending_creator_fees \in Int
  BY CurveAssumption DEF MillInv, TypeInv, TypeOK, U64
<1>2. PICK recipients \in SUBSET {config.protocol_fee_recipient} : book = TrueBook(recipients)
  BY DEF BookTrue
<1>3. ASSUME NEW user \in Users, ClaimCreatorFees(user) PROVE BookTrue'
  <2> DEFINE e == [event |-> "CreatorFeeClaim", fees_distributed |-> market.pending_creator_fees]
             fees == market.pending_creator_fees
  <2>1. /\ claim_creator_fees(user) /\ UNCHANGED <<stake_vars, shared>> /\ book' = Booked(book, e)
    BY <1>3 DEF ClaimCreatorFees, emit
  <2>2. book' = [book EXCEPT !.quote = @ - fees, !.creator_fees = @ - fees]
    <3>1. e.event = "CreatorFeeClaim" /\ e.fees_distributed = fees
      OBVIOUS
    <3> HIDE DEF e, fees
    <3>2. Booked(book, e) = [book EXCEPT !.quote = @ - e.fees_distributed,
                                         !.creator_fees = @ - e.fees_distributed]
      BY <3>1, MarketEntries, Zenon
    <3> QED
      BY <2>1, <3>1, <3>2
  <2>3. /\ market' = [market EXCEPT !.pending_creator_fees = fees - fees]
        /\ market_quote' = market_quote - fees /\ market_base' = market_base /\ config' = config
    BY <1>1, <2>1 DEF claim_creator_fees
  <2>4. StakingFeesHeld' = StakingFeesHeld /\ UNCHANGED <<position, plan>>
    BY <2>1, SameHeld DEF stake_vars
  <2>5. /\ market'.creator = market.creator /\ market'.pending_creator_fees = fees - fees
        /\ market'.creator_fee_share = market.creator_fee_share
        /\ market'.staking_fee_share = market.staking_fee_share
        /\ market'.base_reserve = market.base_reserve
        /\ market'.bid_prices = market.bid_prices /\ market'.ask_prices = market.ask_prices
        /\ Initialized' = Initialized /\ are_prices_set(market)' = are_prices_set(market)
    BY <1>1, <2>3 DEF TypeOK, Initialized, are_prices_set
  <2>6. book' = TrueBook(recipients)'
    BY <1>2, <2>2, <2>3, <2>4, <2>5 DEF TrueBook
  <2> QED
    BY <2>3, <2>6 DEF BookTrue
<1>4. ASSUME NEW user \in Users, NEW new_creator \in Users, UpdateCreator(user, new_creator)
      PROVE  BookTrue'
  <2> DEFINE e == [event |-> "CreatorUpdate", new_creator |-> new_creator]
  <2>1. /\ update_creator(user, new_creator) /\ UNCHANGED <<stake_vars, shared>> /\ book' = Booked(book, e)
    BY <1>4 DEF UpdateCreator, emit
  <2>2. book' = [book EXCEPT !.creator = new_creator]
    <3>1. e.event = "CreatorUpdate" /\ e.new_creator = new_creator
      OBVIOUS
    <3> HIDE DEF e
    <3>2. Booked(book, e) = [book EXCEPT !.creator = e.new_creator]
      BY <3>1, MarketEntries, Zenon
    <3> QED
      BY <2>1, <3>1, <3>2
  <2>3. /\ Initialized /\ market' = [market EXCEPT !.creator = new_creator]
        /\ market_quote' = market_quote /\ market_base' = market_base /\ config' = config
    BY <2>1 DEF update_creator
  <2>4. StakingFeesHeld' = StakingFeesHeld /\ UNCHANGED <<position, plan>>
    BY <2>1, SameHeld DEF stake_vars
  <2>5. /\ market'.creator = new_creator /\ market'.pending_creator_fees = market.pending_creator_fees
        /\ market'.creator_fee_share = market.creator_fee_share
        /\ market'.staking_fee_share = market.staking_fee_share
        /\ market'.base_reserve = market.base_reserve
        /\ market'.bid_prices = market.bid_prices /\ market'.ask_prices = market.ask_prices
        /\ Initialized' = Initialized /\ are_prices_set(market)' = are_prices_set(market)
    BY <1>1, <2>3 DEF TypeOK, Initialized, are_prices_set
  <2>6. book' = TrueBook(recipients)'
    BY <1>2, <2>2, <2>3, <2>4, <2>5 DEF TrueBook
  <2> QED
    BY <2>3, <2>6 DEF BookTrue
<1>5. ASSUME NEW user \in Users, NEW c \in Shares, NEW s \in Shares, UpdateMarketFeeShares(user, c, s)
      PROVE  BookTrue'
  <2> DEFINE e == [event |-> "MarketFeeSharesUpdate", new_creator_fee_share |-> c,
                   new_staking_fee_share |-> s]
  <2>1. /\ update_market_fee_shares(user, c, s) /\ UNCHANGED <<stake_vars, shared>>
        /\ book' = Booked(book, e)
    BY <1>5 DEF UpdateMarketFeeShares, emit
  <2>2. book' = [book EXCEPT !.creator_fee_share = c, !.staking_fee_share = s]
    <3>1. e.event = "MarketFeeSharesUpdate" /\ e.new_creator_fee_share = c /\ e.new_staking_fee_share = s
      OBVIOUS
    <3> HIDE DEF e
    <3>2. Booked(book, e) = [book EXCEPT !.creator_fee_share = e.new_creator_fee_share,
                                         !.staking_fee_share = e.new_staking_fee_share]
      BY <3>1, MarketEntries, Zenon
    <3> QED
      BY <2>1, <3>1, <3>2
  <2>3. /\ market' = [market EXCEPT !.creator_fee_share = c, !.staking_fee_share = s]
        /\ market_quote' = market_quote /\ market_base' = market_base /\ config' = config
    BY <2>1 DEF update_market_fee_shares
  <2>4. StakingFeesHeld' = StakingFeesHeld /\ UNCHANGED <<position, plan>>
    BY <2>1, SameHeld DEF stake_vars
  <2>5. /\ market'.creator = market.creator /\ market'.pending_creator_fees = market.pending_creator_fees
        /\ market'.creator_fee_share = c
        /\ market'.staking_fee_share = s
        /\ market'.base_reserve = market.base_reserve
        /\ market'.bid_prices = market.bid_prices /\ market'.ask_prices = market.ask_prices
        /\ Initialized' = Initialized /\ are_prices_set(market)' = are_prices_set(market)
    BY <1>1, <2>3 DEF TypeOK, Initialized, are_prices_set
  <2>6. book' = TrueBook(recipients)'
    BY <1>2, <2>2, <2>3, <2>4, <2>5 DEF TrueBook
  <2> QED
    BY <2>3, <2>6 DEF BookTrue
<1>6. ASSUME NEW p \in FeeShares, NEW r \in FeeShares, UpdateDefaultFeeShares(p, r)
      PROVE  BookTrue'
  <2> DEFINE e == [event |-> "DefaultFeeSharesUpdate", new_default_protocol_fee_share |-> p,
                   new_referral_fee_share |-> r]
  <2>1. /\ update_default_fee_shares(p, r) /\ UNCHANGED <<stake_vars, shared>> /\ book' = Booked(book, e)
    BY <1>6 DEF UpdateDefaultFeeShares, emit
  <2>2. book' = [book EXCEPT !.default_protocol_fee_share = p, !.referral_fee_share = r]
    <3>1. e.event = "DefaultFeeSharesUpdate" /\ e.new_default_protocol_fee_share = p
          /\ e.new_referral_fee_share = r
      OBVIOUS
    <3> HIDE DEF e
    <3>2. Booked(book, e) = [book EXCEPT !.default_protocol_fee_share = e.new_default_protocol_fee_share,
                                         !.referral_fee_share = e.new_referral_fee_share]
      BY <3>1, MarketEntries, Zenon
    <3> QED
      BY <2>1, <3>1, <3>2
  <2>3. /\ config' = [config EXCEPT !.default_protocol_fee_share = p, !.referral_fee_share = r]
        /\ market' = market /\ market_quote' = market_quote /\ market_base' = market_base
    BY <2>1 DEF update_default_fee_shares
  <2>4. StakingFeesHeld' = StakingFeesHeld /\ UNCHANGED <<position, plan>>
    BY <2>1, SameHeld DEF stake_vars
  <2>5. /\ config'.default_protocol_fee_share = p /\ config'.referral_fee_share = r
        /\ config'.protocol_fee_recipient = config.protocol_fee_recipient
    BY <1>1, <2>3 DEF TypeOK
  <2>6. book' = TrueBook(recipients)'
    BY <1>2, <2>2, <2>3, <2>4, <2>5 DEF TrueBook, Initialized
  <2> QED
    BY <2>5, <2>6 DEF BookTrue
<1>7. ASSUME NEW recipient \in Recipients, UpdateProtocolFeeRecipient(recipient)
      PROVE  BookTrue'
  <2> DEFINE e == [event |-> "ProtocolFeeRecipientUpdate", new_protocol_fee_recipient |-> recipient]
  <2>1. /\ update_protocol_fee_recipient(recipient) /\ UNCHANGED <<stake_vars, shared>>
        /\ book' = Booked(book, e)
    BY <1>7 DEF UpdateProtocolFeeRecipient, emit
  <2>2. book' = [book EXCEPT !.protocol_fee_recipient = {recipient}]
    <3>1. e.event = "ProtocolFeeRecipientUpdate" /\ e.new_protocol_fee_recipient = recipient
      OBVIOUS
    <3> HIDE DEF e
    <3>2. Booked(book, e) = [book EXCEPT !.protocol_fee_recipient = {e.new_protocol_fee_recipient}]
      BY <3>1, MarketEntries, Zenon
    <3> QED
      BY <2>1, <3>1, <3>2
  <2>3. /\ config' = [config EXCEPT !.protocol_fee_recipient = recipient]
        /\ market' = market /\ market_quote' = market_quote /\ market_base' = market_base
    BY <2>1 DEF update_protocol_fee_recipient
  <2>4. StakingFeesHeld' = StakingFeesHeld /\ UNCHANGED <<position, plan>>
    BY <2>1, SameHeld DEF stake_vars
  <2>5. /\ config'.default_protocol_fee_share = config.default_protocol_fee_share
        /\ config'.referral_fee_share = config.referral_fee_share
        /\ config'.protocol_fee_recipient = recipient
    BY <1>1, <2>3 DEF TypeOK
  <2>6. book' = TrueBook({recipient})'
    BY <1>2, <2>2, <2>3, <2>4, <2>5 DEF TrueBook, Initialized
  <2> QED
    BY <2>5, <2>6 DEF BookTrue
<1> QED
  BY <1>3, <1>4, <1>5, <1>6, <1>7 DEF CreatorInstructions, AdminInstructions

Staked == [u \in Users |-> position[u].amount_staked]
Planned == [p \in 1..P |-> [user |-> plan[p].owner,
                            left |-> plan[p].amount_vested - plan[p].amount_released]]

\* The book as the list of its fields.
Listed(creator, base_reserve, prices, creator_fee_share, staking_fee_share, default_protocol_fee_share,
       referral_fee_share, protocol_fee_recipient, base, quote, creator_fees, staking_fees, staked, plans) ==
  [creator |-> creator, base_reserve |-> base_reserve, prices |-> prices,
   creator_fee_share |-> creator_fee_share, staking_fee_share |-> staking_fee_share,
   default_protocol_fee_share |-> default_protocol_fee_share,
   referral_fee_share |-> referral_fee_share, protocol_fee_recipient |-> protocol_fee_recipient,
   base |-> base, quote |-> quote, creator_fees |-> creator_fees, staking_fees |-> staking_fees,
   staked |-> staked, plan |-> plans]

StakeListed(b, base, staked) == [b EXCEPT !.base = base, !.staked = staked]
PlanListed(b, base, plans) == [b EXCEPT !.base = base, !.plan = plans]
PaymentListed(b, quote, staking_fees) == [b EXCEPT !.quote = quote, !.staking_fees = staking_fees]

LEMMA ListedChange ==
  ASSUME NEW b, NEW b1, NEW c, NEW r, NEW p, NEW cs, NEW ss, NEW ps, NEW rs, NEW rcp,
         NEW base, NEW quote, NEW cf, NEW sf, NEW st, NEW pl, NEW x, NEW y,
         b = Listed(c, r, p, cs, ss, ps, rs, rcp, base, quote, cf, sf, st, pl)
  PROVE  /\ b1 = StakeListed(b, x, y)
              => b1 = Listed(c, r, p, cs, ss, ps, rs, rcp, x, quote, cf, sf, y, pl)
         /\ b1 = PlanListed(b, x, y)
              => b1 = Listed(c, r, p, cs, ss, ps, rs, rcp, x, quote, cf, sf, st, y)
         /\ b1 = PaymentListed(b, x, y)
              => b1 = Listed(c, r, p, cs, ss, ps, rs, rcp, base, x, cf, y, st, pl)
<1>1. ASSUME b1 = [b EXCEPT !.base = x, !.staked = y]
      PROVE  b1 = Listed(c, r, p, cs, ss, ps, rs, rcp, x, quote, cf, sf, y, pl)
  BY <1>1 DEF Listed
<1>2. ASSUME b1 = [b EXCEPT !.base = x, !.plan = y]
      PROVE  b1 = Listed(c, r, p, cs, ss, ps, rs, rcp, x, quote, cf, sf, st, y)
  BY <1>2 DEF Listed
<1>3. ASSUME b1 = [b EXCEPT !.quote = x, !.staking_fees = y]
      PROVE  b1 = Listed(c, r, p, cs, ss, ps, rs, rcp, base, x, cf, y, st, pl)
  BY <1>3 DEF Listed
<1> QED
  BY <1>1, <1>2, <1>3 DEF StakeListed, PlanListed, PaymentListed

\* All that staking and vesting change of what the book says.
LEMMA BookTaken ==
  ASSUME TypeInv, FeesTaken, NEW recipients, book = TrueBook(recipients)
  PROVE  /\ /\ UNCHANGED <<market_quote, StakingFeesHeld, Planned>>
            /\ book' = StakeListed(book, market_base', Staked')
            => book' = TrueBook(recipients)'
         /\ /\ UNCHANGED <<market_quote, StakingFeesHeld, Staked>>
            /\ book' = PlanListed(book, market_base', Planned')
            => book' = TrueBook(recipients)'
         /\ /\ UNCHANGED <<market_base, Staked, Planned>>
            /\ book' = PaymentListed(book, market_quote', StakingFeesHeld')
            => book' = TrueBook(recipients)'
         /\ UNCHANGED <<market_base, market_quote, StakingFeesHeld, Staked, Planned>>
            => TrueBook(recipients)' = book
         /\ book.base = market_base /\ book.quote = market_quote /\ book.staking_fees = StakingFeesHeld
         /\ book.staked = Staked /\ book.plan = Planned
<1> DEFINE creator == IF Initialized THEN market.creator ELSE 0
           prices == IF are_prices_set(market) THEN {<<market.bid_prices, market.ask_prices>>} ELSE {}
           reserve == market.base_reserve
           cshare == market.creator_fee_share
           sshare == market.staking_fee_share
           dshare == config.default_protocol_fee_share
           rshare == config.referral_fee_share
           fees == market.pending_creator_fees
<1>1. /\ market'.base_reserve = market.base_reserve /\ market'.total_supply = market.total_supply
      /\ market'.bid_prices = market.bid_prices /\ market'.ask_prices = market.ask_prices
      /\ market'.pending_creator_fees = market.pending_creator_fees
      /\ market'.creator_fee_share = market.creator_fee_share
      /\ market'.staking_fee_share = market.staking_fee_share
      /\ market'.creator = market.creator /\ config' = config
  BY FeesTakenFields DEF FeesTaken
<1>2. creator' = creator /\ prices' = prices
  BY <1>1 DEF Initialized, are_prices_set
<1>3. book = Listed(creator, reserve, prices, cshare, sshare, dshare, rshare, recipients,
                    market_base, market_quote, fees, StakingFeesHeld, Staked, Planned)
  BY DEF TrueBook, Staked, Planned, Listed
<1>4. TrueBook(recipients)'
        = Listed(creator', market'.base_reserve, prices', market'.creator_fee_share,
                 market'.staking_fee_share, config'.default_protocol_fee_share,
                 config'.referral_fee_share, recipients, market_base', market_quote',
                 market'.pending_creator_fees, StakingFeesHeld', Staked', Planned')
  BY DEF TrueBook, Staked, Planned, Listed
<1>5. /\ book.base = market_base /\ book.quote = market_quote /\ book.staking_fees = StakingFeesHeld
      /\ book.staked = Staked /\ book.plan = Planned
  BY <1>3 DEF Listed
<1> HIDE DEF creator, prices, reserve, cshare, sshare, dshare, rshare,
            fees, Staked, Planned, StakingFeesHeld
<1>6. TrueBook(recipients)'
        = Listed(creator, reserve, prices, cshare, sshare, dshare, rshare, recipients,
                 market_base', market_quote', fees, StakingFeesHeld', Staked', Planned')
  BY <1>1, <1>2, <1>4 DEF reserve, cshare, sshare, dshare, rshare, fees
<1>7. ASSUME UNCHANGED <<market_quote, StakingFeesHeld, Planned>>,
             book' = StakeListed(book, market_base', Staked')
      PROVE  book' = TrueBook(recipients)'
  <2>1. book' = Listed(creator, reserve, prices, cshare, sshare, dshare, rshare, recipients,
                       market_base', market_quote, fees, StakingFeesHeld, Staked', Planned)
    BY <1>3, <1>7, ListedChange
  <2> QED
    BY <1>6, <1>7, <2>1
<1>8. ASSUME UNCHANGED <<market_quote, StakingFeesHeld, Staked>>,
             book' = PlanListed(book, market_base', Planned')
      PROVE  book' = TrueBook(recipients)'
  <2>1. book' = Listed(creator, reserve, prices, cshare, sshare, dshare, rshare, recipients,
                       market_base', market_quote, fees, StakingFeesHeld, Staked, Planned')
    BY <1>3, <1>8, ListedChange
  <2> QED
    BY <1>6, <1>8, <2>1
<1>9. ASSUME UNCHANGED <<market_base, Staked, Planned>>,
             book' = PaymentListed(book, market_quote', StakingFeesHeld')
      PROVE  book' = TrueBook(recipients)'
  <2>1. book' = Listed(creator, reserve, prices, cshare, sshare, dshare, rshare, recipients,
                       market_base, market_quote', fees, StakingFeesHeld', Staked, Planned)
    BY <1>3, <1>9, ListedChange
  <2> QED
    BY <1>6, <1>9, <2>1
<1>10. UNCHANGED <<market_base, market_quote, StakingFeesHeld, Staked, Planned>>
         => TrueBook(recipients)' = book
  BY <1>3, <1>6
<1> QED
  BY <1>5, <1>7, <1>8, <1>9, <1>10

\* The staked amount of a position moves by what the event tells.
LEMMA StakedMoves ==
  ASSUME MillInv, NEW user \in Users, NEW staked \in Int, NEW vested, NEW kept,
         S!UpdateStake(user, staked, vested, kept)
  PROVE  /\ Staked' = [Staked EXCEPT ![user] = @ + staked]
         /\ staked = 0 => Staked' = Staked
<1>1. RP!TypeOK /\ RP!UpdateStake(user, staked, vested, kept)
  BY MillTypes, SameManager
<1>2. /\ position'[user].amount_staked = position[user].amount_staked + staked
      /\ \A u \in Users : u # user => position'[u] = position[u]
  BY <1>1 DEF RP!UpdateStake, RP!StakeFits, RP!Stake, RP!TypeOK, RP!Users, Users
<1>3. position[user].amount_staked \in Int
  <2>1. position[user].amount_staked \in RP!U64
    BY <1>1 DEF RP!TypeOK, RP!Users, Users
  <2> QED
    BY <2>1, CurveAssumption DEF RP!U64
<1>4. Staked' = [Staked EXCEPT ![user] = @ + staked]
  BY <1>2 DEF Staked
<1>5. staked = 0 => Staked' = Staked
  BY <1>2, <1>3 DEF Staked
<1> QED
  BY <1>4, <1>5

LEMMA BookNumbers ==
  ASSUME MillInv, BookTrue, NEW user \in Users
  PROVE  book.base \in Int /\ book.staked[user] \in Int
<1>1. TypeOK /\ RP!TypeOK
  BY MillTypes
<1>2. position[user].amount_staked \in Int
  <2>1. position[user].amount_staked \in RP!U64
    BY <1>1 DEF RP!TypeOK, RP!Users, Users
  <2> QED
    BY <2>1, CurveAssumption DEF RP!U64
<1>3. book.base = market_base /\ book.staked = [u \in Users |-> position[u].amount_staked]
  BY DEF BookTrue, TrueBook
<1> QED
  BY <1>1, <1>2, <1>3 DEF TypeOK

\* The book of a step that only moves base tokens of one user into or out of a stake.
LEMMA BookMoved ==
  ASSUME MillInv, BookTrue, NEW user \in Users, NEW amount \in Int, NEW kept,
         S!UpdateStake(user, amount, 0, kept), S!TransferStake(user, amount), MarketAccrued,
         StakingOnly, UNCHANGED <<plan, market_quote, paid>>,
         book' = [book EXCEPT !.base = @ + amount, !.staked[user] = @ + amount]
  PROVE  BookTrue'
<1>1. TypeInv /\ FeesTaken
  BY AccruedTaken DEF MillInv, FeesTaken, StakingOnly
<1>2. PICK recipients \in SUBSET {config.protocol_fee_recipient} : book = TrueBook(recipients)
  BY DEF BookTrue
<1>3. /\ market_base' = market_base + amount /\ market_quote' = market_quote
      /\ StakingFeesHeld' = StakingFeesHeld /\ Planned' = Planned /\ config' = config
  BY SameHeld DEF S!TransferStake, S!TransferFits, StakingOnly, Planned
<1>4. book.base = market_base /\ book.staked = Staked
  BY <1>1, <1>2, BookTaken
<1>5. Staked' = [Staked EXCEPT ![user] = @ + amount]
  BY StakedMoves
<1>6. book' = StakeListed(book, market_base', Staked')
  BY <1>3, <1>4, <1>5 DEF StakeListed
<1>7. book' = TrueBook(recipients)'
  BY <1>1, <1>2, <1>3, <1>6, BookTaken
<1> QED
  BY <1>2, <1>3, <1>7 DEF BookTrue

LEMMA BookDeposited ==
  ASSUME MillInv, BookTrue, NEW user \in Users, NEW amount \in StakeAmounts,
         Deposit(user, amount) \/ Withdraw(user, amount)
  PROVE  BookTrue'
<1>1. amount \in Int /\ -amount \in Int
  BY MillAssumption
<1>2. CASE Deposit(user, amount)
  <2> DEFINE e == [event |-> "StakingDeposit", user |-> user, amount |-> amount]
  <2>1. /\ S!UpdateStake(user, amount, 0, S!Claimable(user)) /\ S!TransferStake(user, amount)
        /\ MarketAccrued /\ StakingOnly /\ UNCHANGED <<plan, market_quote, paid>>
        /\ book' = Booked(book, e)
    BY <1>2 DEF Deposit, S!deposit, emit
  <2>2. book' = [book EXCEPT !.base = @ + amount, !.staked[user] = @ + amount]
    <3>1. e.event = "StakingDeposit" /\ e.user = user /\ e.amount = amount
      OBVIOUS
    <3> HIDE DEF e
    <3>2. Booked(book, e) = [book EXCEPT !.base = @ + e.amount, !.staked[e.user] = @ + e.amount]
      BY <3>1, StakingEntries, Zenon
    <3> QED
      BY <2>1, <3>1, <3>2
  <2> QED
    BY <1>1, <2>1, <2>2, BookMoved
<1>3. CASE Withdraw(user, amount)
  <2> DEFINE e == [event |-> "StakingWithdrawal", user |-> user, amount |-> amount]
             moved == -amount
  <2>1. /\ S!UpdateStake(user, moved, 0, S!Claimable(user)) /\ S!TransferStake(user, moved)
        /\ MarketAccrued /\ StakingOnly /\ UNCHANGED <<plan, market_quote, paid>>
        /\ book' = Booked(book, e)
    BY <1>3 DEF Withdraw, S!withdraw, emit
  <2>2. book' = [book EXCEPT !.base = @ - amount, !.staked[user] = @ - amount]
    <3>1. e.event = "StakingWithdrawal" /\ e.user = user /\ e.amount = amount
      OBVIOUS
    <3> HIDE DEF e
    <3>2. Booked(book, e) = [book EXCEPT !.base = @ - e.amount, !.staked[e.user] = @ - e.amount]
      BY <3>1, StakingEntries, Zenon
    <3> QED
      BY <2>1, <3>1, <3>2
  <2>3. book.base \in Int /\ book.staked[user] \in Int
    BY BookNumbers
  <2>4. book' = [book EXCEPT !.base = @ + moved, !.staked[user] = @ + moved]
    <3>1. book.base - amount = book.base + moved /\ book.staked[user] - amount = book.staked[user] + moved
      BY <1>1, <2>3
    <3> HIDE DEF moved
    <3> QED
      BY <2>2, <3>1
  <2>5. moved \in Int
    BY <1>1
  <2> HIDE DEF moved
  <2> QED
    BY <2>1, <2>4, <2>5, BookMoved
<1> QED
  BY <1>2, <1>3

LEMMA BookRewarded ==
  ASSUME MillInv, BookTrue, NEW user \in Users, ClaimStakingRewards(user)
  PROVE  BookTrue'
<1> DEFINE reward == S!Claimable(user)
           e == [event |-> "StakingRewardsClaim", amount_distributed |-> reward]
<1>1. /\ S!UpdateStake(user, 0, 0, 0) /\ market_quote' = market_quote - reward
      /\ paid' = [paid EXCEPT ![user] = @ + reward]
      /\ UNCHANGED <<plan, market_base, shared, config>> /\ book' = Booked(book, e)
  BY DEF ClaimStakingRewards, S!claim_staking_rewards, emit
<1>2. TypeInv /\ FeesTaken
  BY StepRewarded DEF MillInv, Aside
<1>3. PICK recipients \in SUBSET {config.protocol_fee_recipient} : book = TrueBook(recipients)
  BY DEF BookTrue
<1>4. book.quote = market_quote /\ book.staking_fees = StakingFeesHeld
  BY <1>2, <1>3, BookTaken
<1>5. Staked' = Staked
  BY <1>1, StakedMoves
<1>6. Planned' = Planned
  BY <1>1 DEF Planned
<1>7. book' = [book EXCEPT !.quote = @ - reward, !.staking_fees = @ - reward]
  <2>1. e.event = "StakingRewardsClaim" /\ e.amount_distributed = reward
    OBVIOUS
  <2> HIDE DEF e, reward
  <2>2. Booked(book, e) = [book EXCEPT !.quote = @ - e.amount_distributed,
                                       !.staking_fees = @ - e.amount_distributed]
    BY <2>1, StakingEntries, Zenon
  <2> QED
    BY <1>1, <2>1, <2>2
<1>8. StakingFeesHeld' = StakingFeesHeld - reward
  BY RewardedHeld
<1>9. book' = PaymentListed(book, market_quote', StakingFeesHeld')
  <2> HIDE DEF reward
  <2> QED
    BY <1>1, <1>4, <1>7, <1>8 DEF PaymentListed
<1>10. book' = TrueBook(recipients)'
  BY <1>1, <1>2, <1>3, <1>5, <1>6, <1>9, BookTaken
<1> QED
  BY <1>1, <1>3, <1>10 DEF BookTrue

LEMMA BookPlanned ==
  ASSUME MillInv, BookTrue, NEW p \in 1..P, NEW user \in Users, NEW schedule \in Schedules,
         NEW amount \in StakeAmounts, CreateVestingPlan(user, p, schedule, amount)
  PROVE  BookTrue'
<1> DEFINE e == [event |-> "VestingPlanCreation", user |-> user, vesting_plan |-> p,
                 vesting_amount |-> amount]
<1>1. /\ S!UpdateStake(user, 0, amount, S!Claimable(user)) /\ S!TransferStake(user, amount)
      /\ MarketAccrued /\ StakingOnly /\ UNCHANGED <<market_quote, paid>>
      /\ plan' = [plan EXCEPT ![p] =
           [owner |-> user, amount_vested |-> amount, amount_released |-> 0,
            start |-> schedule.start, vesting_duration |-> schedule.vesting_duration,
            cliff_duration |-> schedule.cliff_duration]]
      /\ book' = Booked(book, e)
  BY DEF CreateVestingPlan, S!create_vesting_plan, emit
<1>2. TypeInv /\ FeesTaken /\ RP!TypeOK /\ amount \in Nat
  BY <1>1, AccruedTaken, MillTypes, MillAssumption DEF MillInv, FeesTaken, StakingOnly
<1>3. PICK recipients \in SUBSET {config.protocol_fee_recipient} : book = TrueBook(recipients)
  BY DEF BookTrue
<1>4. book.base = market_base /\ book.plan = Planned
  BY <1>2, <1>3, BookTaken
<1>5. Staked' = Staked
  BY <1>1, StakedMoves
<1>6. /\ market_base' = market_base + amount /\ StakingFeesHeld' = StakingFeesHeld /\ config' = config
  BY <1>1, SameHeld DEF S!TransferStake, S!TransferFits, StakingOnly
<1>7. Planned' = [Planned EXCEPT ![p] = [user |-> user, left |-> amount]]
  <2>1. /\ plan'[p].owner = user /\ plan'[p].amount_vested = amount /\ plan'[p].amount_released = 0
        /\ \A q \in 1..P : q # p => plan'[q] = plan[q]
    BY <1>1, <1>2 DEF RP!TypeOK, RP!Plans
  <2>2. plan'[p].amount_vested - plan'[p].amount_released = amount
    BY <1>2, <2>1
  <2> QED
    BY <2>1, <2>2 DEF Planned
<1>8. book' = [book EXCEPT !.base = @ + amount, !.plan[p] = [user |-> user, left |-> amount]]
  <2>1. e.event = "VestingPlanCreation" /\ e.user = user /\ e.vesting_plan = p /\ e.vesting_amount = amount
    OBVIOUS
  <2> HIDE DEF e
  <2>2. Booked(book, e) = [book EXCEPT !.base = @ + e.vesting_amount,
                                       !.plan[e.vesting_plan] = [user |-> e.user,
                                                                 left |-> e.vesting_amount]]
    BY <2>1, StakingEntries, Zenon
  <2> QED
    BY <1>1, <2>1, <2>2
<1>9. book' = PlanListed(book, market_base', Planned')
  BY <1>4, <1>6, <1>7, <1>8 DEF PlanListed
<1>10. book' = TrueBook(recipients)'
  BY <1>1, <1>2, <1>3, <1>5, <1>6, <1>9, BookTaken
<1> QED
  BY <1>3, <1>6, <1>10 DEF BookTrue

LEMMA BookReleased ==
  ASSUME MillInv, BookTrue, NEW p \in 1..P, Release(p)
  PROVE  BookTrue'
<1> DEFINE user == plan[p].owner
           amount == S!Releasable(p)
           e == [event |-> "VestingPlanRelease", vesting_plan |-> p, amount_released |-> amount]
<1>1. /\ user # S!NoOwner /\ plan' = [plan EXCEPT ![p].amount_released = @ + amount]
      /\ S!UpdateStake(user, 0, -amount, S!Claimable(user)) /\ S!TransferStake(user, -amount)
      /\ MarketAccrued /\ StakingOnly /\ UNCHANGED <<market_quote, paid>>
      /\ book' = Booked(book, e)
  BY DEF Release, S!release, emit
<1>2. TypeInv /\ TypeOK /\ FeesTaken /\ RP!TypeInv /\ RP!TypeOK
  BY <1>1, AccruedTaken, MillTypes DEF MillInv, FeesTaken, StakingOnly
<1>3. PICK recipients \in SUBSET {config.protocol_fee_recipient} : book = TrueBook(recipients)
  BY DEF BookTrue
<1>4. book.base = market_base /\ book.plan = Planned
  BY <1>2, <1>3, BookTaken
<1>5. user \in Users /\ p \in RP!Plans
  BY <1>1, <1>2 DEF RP!TypeOK, S!NoOwner, RP!NoOwner, RP!Users, Users, RP!Plans
<1>6. amount \in Int
  BY <1>1, <1>2, <1>5, SameSchedule, RP!ReleasableType, StakingConstants DEF S!NoOwner, RP!NoOwner
<1>7. book' = [book EXCEPT !.base = @ - amount, !.plan[p].left = @ - amount]
  <2>1. e.event = "VestingPlanRelease" /\ e.vesting_plan = p /\ e.amount_released = amount
    OBVIOUS
  <2> HIDE DEF e, amount
  <2>2. Booked(book, e) = [book EXCEPT !.base = @ - e.amount_released,
                                       !.plan[e.vesting_plan].left = @ - e.amount_released]
    BY <2>1, StakingEntries, Zenon
  <2> QED
    BY <1>1, <2>1, <2>2
<1> HIDE DEF amount
<1>8. Staked' = Staked
  <2> DEFINE vested == -amount
             kept == S!Claimable(user)
  <2>1. S!UpdateStake(user, 0, vested, kept) /\ 0 \in Int
    BY <1>1
  <2> HIDE DEF vested, kept, user
  <2> QED
    BY <1>5, <2>1, StakedMoves
<1>9. /\ market_base' = market_base - amount /\ StakingFeesHeld' = StakingFeesHeld /\ config' = config
  <2>1. market_base' = market_base + (-amount) /\ market_base \in Int
    BY <1>1, <1>2 DEF S!TransferStake, S!TransferFits, TypeOK
  <2> QED
    BY <1>1, <1>6, <2>1, SameHeld DEF StakingOnly
<1>10. Planned' = [Planned EXCEPT ![p].left = @ - amount]
  <2>1. /\ plan[p].amount_vested \in Int /\ plan[p].amount_released \in Int
        /\ plan'[p].owner = plan[p].owner /\ plan'[p].amount_vested = plan[p].amount_vested
        /\ plan'[p].amount_released = plan[p].amount_released + amount
        /\ \A q \in 1..P : q # p => plan'[q] = plan[q]
    BY <1>1, <1>2, <1>5 DEF RP!TypeOK, RP!Plans
  <2> DEFINE left == plan[p].amount_vested - plan[p].amount_released
  <2>2. plan'[p].amount_vested - plan'[p].amount_released = left - amount
    BY <1>6, <2>1
  <2>3. Planned[p] = [user |-> plan[p].owner, left |-> left]
    BY DEF Planned
  <2>4. Planned'[p] = [user |-> plan[p].owner, left |-> left - amount]
    BY <2>1, <2>2 DEF Planned
  <2> HIDE DEF left
  <2>5. Planned'[p] = [Planned[p] EXCEPT !.left = @ - amount]
    BY <2>3, <2>4
  <2>6. \A q \in 1..P : q # p => Planned'[q] = Planned[q]
    BY <2>1 DEF Planned
  <2>7. Planned' = [q \in 1..P |-> Planned'[q]] /\ Planned = [q \in 1..P |-> Planned[q]]
    BY DEF Planned
  <2> QED
    BY <2>5, <2>6, <2>7
<1>11. book' = PlanListed(book, market_base', Planned')
  BY <1>4, <1>7, <1>9, <1>10 DEF PlanListed
<1>12. book' = TrueBook(recipients)'
  BY <1>1, <1>2, <1>3, <1>8, <1>9, <1>11, BookTaken
<1> QED
  BY <1>3, <1>9, <1>12 DEF BookTrue

\* Opening an account of staking is not announced and changes nothing that is.
LEMMA BookQuiet ==
  ASSUME MillInv, BookTrue,
         CreateStaking \/ (\E user \in Users : CreateStakePosition(user)) \/ Tick \/ UNCHANGED mill_vars
  PROVE  BookTrue'
<1>1. UNCHANGED <<vars, plan, paid, shared, book>>
  BY DEF CreateStaking, CreateStakePosition, Tick, StakingOnly, S!create_staking,
         S!create_stake_position, S!Tick, vars, stake_vars, mill_vars
<1>2. TypeInv /\ TypeOK /\ RP!TypeOK
  BY MillTypes DEF MillInv
<1>3. FeesTaken
  BY <1>1, <1>2 DEF FeesTaken, vars, TypeOK
<1>4. Staked' = Staked
  <2>1. position' = position
          \/ \E user \in Users : position' = [position EXCEPT ![user].open = TRUE]
    BY DEF CreateStaking, CreateStakePosition, Tick, S!create_staking, S!create_stake_position,
           S!Tick, stake_vars, mill_vars
  <2>2. \A u \in Users : position'[u].amount_staked = position[u].amount_staked
    <3>1. CASE position' = position
      BY <3>1
    <3>2. ASSUME NEW user \in Users, position' = [position EXCEPT ![user].open = TRUE],
                 NEW u \in Users
          PROVE  position'[u].amount_staked = position[u].amount_staked
      BY <1>2, <3>2 DEF RP!TypeOK, RP!Users, Users
    <3> QED
      BY <2>1, <3>1, <3>2
  <2> QED
    BY <2>2 DEF Staked
<1>5. /\ StakingFeesHeld' = StakingFeesHeld /\ Planned' = Planned /\ config' = config
      /\ market_base' = market_base /\ market_quote' = market_quote /\ book' = book
  BY <1>1, SameHeld DEF vars, Planned
<1>6. PICK recipients \in SUBSET {config.protocol_fee_recipient} : book = TrueBook(recipients)
  BY DEF BookTrue
<1>7. book' = TrueBook(recipients)'
  BY <1>2, <1>3, <1>4, <1>5, <1>6, BookTaken
<1> QED
  BY <1>5, <1>6, <1>7 DEF BookTrue

LEMMA StepBook == MillInv /\ BookTrue /\ [MillNext]_mill_vars => BookTrue'
<1> SUFFICES ASSUME MillInv, BookTrue, [MillNext]_mill_vars PROVE BookTrue'
  OBVIOUS
<1>1. CASE MarketInstructions
  <2>1. ASSUME NEW creator \in Users, NEW supply \in Supplies, NEW c \in Shares, NEW s \in Shares,
               CreateMarket(creator, supply, c, s)
        PROVE  BookTrue'
    BY <2>1, BookCreation
  <2>2. ASSUME NEW user \in Users, NEW c \in PriceCurves,
               SetMarketPrices(user, c.bid_prices, c.ask_prices)
        PROVE  BookTrue'
    BY <2>2, BookPricing
  <2>3. ASSUME NEW swap_type \in {"Buy", "Sell"}, NEW swap_amount_type \in {"ExactInput", "ExactOutput"},
               NEW amount \in Amounts \ {0}, Initialized,
               NEW user \in Traders, NEW threshold \in Thresholds, NEW referral \in Users \cup {NoReferral},
               Swapping(user, swap_type, swap_amount_type,
                        swap_amounts(market, swap_type, swap_amount_type, amount), threshold, referral)
        PROVE  BookTrue'
    <3>1. user \in Users
      BY MarketAssumption DEF Users
    <3> QED
      BY <2>3, <3>1, BookSwap
  <2> QED
    BY <1>1, <2>1, <2>2, <2>3 DEF MarketInstructions
<1>2. CASE StakingInstructions
  BY <1>2, BookQuiet, BookDeposited, BookRewarded DEF StakingInstructions
<1>3. CASE VestingInstructions
  BY <1>3, BookPlanned, BookReleased DEF VestingInstructions
<1>4. CASE CreatorInstructions \/ AdminInstructions
  BY <1>4, BookSettled
<1>5. CASE Tick \/ UNCHANGED mill_vars
  BY <1>5, BookQuiet
<1> QED
  BY <1>1, <1>2, <1>3, <1>4, <1>5 DEF MillNext

LEMMA InitBook == MillInit => BookTrue
<1> SUFFICES ASSUME MillInit PROVE BookTrue
  OBVIOUS
<1>1. /\ market = Uninitialized /\ market_base = 0 /\ market_quote = 0
      /\ book = EmptyBook(Users, 1..P, config.default_protocol_fee_share, config.referral_fee_share)
      /\ MillInv
  BY InitMill DEF MillInit, Init
<1>2. ~Initialized
  BY <1>1 DEF Initialized, Uninitialized
<1>3. ~are_prices_set(market)
  BY <1>1, <1>2, Named DEF MillInv, TypeInv
<1>4. StakingFeesHeld = 0
  <2>1. /\ StakingFeesHeld = shared - SumTo(paid, N) /\ SumTo(paid, N) \in Nat
        /\ StakingFeesHeld \in Nat /\ shared = 0
    BY <1>1, MillTypes DEF MillInit
  <2> QED
    BY <2>1
<1>5. /\ [u \in Users |-> position[u].amount_staked] = [u \in Users |-> 0]
      /\ [p \in 1..P |-> [user |-> plan[p].owner, left |-> plan[p].amount_vested - plan[p].amount_released]]
           = [p \in 1..P |-> [user |-> 0, left |-> 0]]
  BY DEF MillInit, S!NoOwner
<1>6. book = TrueBook({})
  BY <1>1, <1>2, <1>3, <1>4, <1>5 DEF TrueBook, EmptyBook, Uninitialized
<1> QED
  BY <1>6 DEF BookTrue

\* The log tells the truth: whoever reads only the events knows the market's settings, both
\* token balances, who is owed which fees, every stake and every plan, at any time.
THEOREM BookAlwaysAgrees == MillSpec => []BookAgrees
<1>1. MillInv /\ BookTrue /\ [MillNext]_mill_vars => MillInv' /\ BookTrue'
  BY StepMill, StepBook
<1> QED
  BY <1>1, InitMill, InitBook, BookTrueAgrees, PTL DEF MillSpec
=============================================================================
