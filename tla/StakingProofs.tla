--------------------------- MODULE StakingProofs ----------------------------
(***************************************************************************)
(* Proofs about the accounts of staking and vesting: their types, the      *)
(* totals, the tokens behind them, the vesting schedule, and the rewards   *)
(* of stakers, for which the market always holds what it owes, whatever    *)
(* the order of accruals, deposits and claims.                             *)
(*                                                                         *)
(* All rewards are compared after multiplication by STAKING_SCALE, where   *)
(* the debt to a position is an integer (OwedTo).  An accrual raises the   *)
(* accumulator by d; that adds d * SharesOf(position[u]) to the debt to    *)
(* every position u, together d times the total shares (TotalsMatch), and  *)
(* the division rounds d down, so the pending fees pay for it.  Settling a *)
(* position rounds its debt down.                                          *)
(***************************************************************************)
EXTENDS Staking, SumsProofs

\* The schedules create_vesting_plan lets through (its require! conditions).
PlansLegal ==
  \A p \in Plans : plan[p].owner # NoOwner =>
    /\ plan[p].start > 0 /\ plan[p].cliff_duration > 0
    /\ plan[p].vesting_duration > plan[p].cliff_duration

\* The types are inductive only with the schedules: what a release pays is a number
\* because its schedule has a positive length.
TypeInv == TypeOK /\ PlansLegal

-----------------------------------------------------------------------------
(* What the parts of an action do to the types. *)

\* Accrual yields a number and never lowers the accumulator.
LEMMA AccruedType ==
  ASSUME TypeOK
  PROVE  AccruedPerShare \in Nat /\ AccruedPerShare >= staking.acc
<1>1. STAKING_SCALE \in Nat
  BY StakingAssumption
<1>2. SharesOf(staking) \in Nat /\ staking.acc \in Nat /\ pending_staking_fees \in Nat
  BY DEF TypeOK, SharesOf, U64
<1>3. pending_staking_fees * STAKING_SCALE \in Nat
  BY <1>1, <1>2
<1> DEFINE fees == pending_staking_fees * STAKING_SCALE
           shares == SharesOf(staking)
           part == fees \div shares
<1>4. shares > 0 => part \in Nat
  <2> HIDE DEF fees, shares
  <2>1. fees \in Nat /\ shares \in Nat
    BY <1>2, <1>3 DEF fees, shares
  <2> QED
    BY <2>1
<1>5. AccruedPerShare = IF shares > 0 /\ pending_staking_fees > 0 THEN staking.acc + part ELSE staking.acc
  BY DEF AccruedPerShare
<1> HIDE DEF part, shares
<1> QED
  BY <1>2, <1>4, <1>5

\* UpdateStake keeps the types of the accounts it writes.
LEMMA UpdateStakeType ==
  ASSUME TypeOK, NEW user \in Users, NEW staked \in Int, NEW vested \in Int, NEW kept \in U64,
         UpdateStake(user, staked, vested, kept)
  PROVE  /\ staking' \in [open : BOOLEAN, amount_staked : U64, total_amount_vested : U64, acc : Nat]
         /\ position' \in [Users -> [open : BOOLEAN, amount_staked : U64, total_amount_vested : U64,
                                     pending_rewards : U64, acc : Nat]]
         /\ pending_staking_fees' \in Nat
<1>1. AccruedPerShare \in Nat
  BY AccruedType
<1> DEFINE acc == AccruedPerShare
<1> HIDE DEF acc
<1>2. acc \in Nat
  BY <1>1 DEF acc
<1>3. /\ staking.amount_staked + staked \in U64
      /\ staking.total_amount_vested + vested \in U64
      /\ position[user].amount_staked + staked \in U64
      /\ position[user].total_amount_vested + vested \in U64
      /\ staking' = Totals(acc, staked, vested)
      /\ pending_staking_fees' = PendingAfter(acc)
      /\ position' = [position EXCEPT ![user] = Stake(user, acc, kept, staked, vested)]
  BY DEF UpdateStake, StakeFits, acc
<1>4. staking' \in [open : BOOLEAN, amount_staked : U64, total_amount_vested : U64, acc : Nat]
  BY <1>2, <1>3 DEF Totals, TypeOK
<1>5. Stake(user, acc, kept, staked, vested)
        \in [open : BOOLEAN, amount_staked : U64, total_amount_vested : U64, pending_rewards : U64, acc : Nat]
  BY <1>2, <1>3 DEF Stake, TypeOK
<1>6. position' \in [Users -> [open : BOOLEAN, amount_staked : U64, total_amount_vested : U64,
                               pending_rewards : U64, acc : Nat]]
  BY <1>3, <1>5 DEF TypeOK
<1>7. pending_staking_fees' \in Nat
  BY <1>2, <1>3 DEF PendingAfter, TypeOK
<1> QED
  BY <1>4, <1>6, <1>7

\* TransferStake keeps the balances natural numbers, because it fails otherwise.
LEMMA TransferStakeType ==
  ASSUME TypeOK, NEW user \in Users, NEW amount \in Int, TransferStake(user, amount)
  PROVE  user_base' \in [Users -> Nat] /\ stake_vault' \in Nat
BY DEF TransferStake, TransferFits, TypeOK

\* What a plan can pay now is a whole number.
LEMMA ReleasableType ==
  ASSUME TypeInv, NEW p \in Plans, plan[p].owner # NoOwner
  PROVE  Releasable(p) \in Int
<1>1. /\ plan[p].amount_vested \in Nat /\ plan[p].amount_released \in Nat
      /\ plan[p].vesting_duration \in Nat \ {0} /\ plan[p].cliff_duration \in Int
      /\ Elapsed(p) \in Int
  BY DEF TypeInv, TypeOK, PlansLegal, Elapsed
<1> DEFINE product == plan[p].amount_vested * Elapsed(p)
           duration == plan[p].vesting_duration
           share == product \div duration
<1>2. share \in Int
  <2>1. product \in Int /\ duration \in Nat \ {0}
    BY <1>1
  <2> HIDE DEF product, duration
  <2> QED
    BY <2>1
<1> HIDE DEF share
<1> QED
  BY <1>1, <1>2 DEF Releasable, share, product, duration

-----------------------------------------------------------------------------
(* Type correctness. *)

\* The initial accounts are well typed.
LEMMA InitType == Init => TypeInv
<1> SUFFICES ASSUME Init PROVE TypeInv
  OBVIOUS
<1> USE StakingAssumption
<1>1. 0 \in U64 /\ N \in Nat /\ P \in Nat
  BY DEF U64
<1>2. TypeOK
  BY <1>1 DEF Init, TypeOK, Users, Plans, NoOwner
<1>3. PlansLegal
  BY DEF Init, PlansLegal
<1> QED
  BY <1>2, <1>3 DEF TypeInv

\* Every action keeps the types and the schedules.
LEMMA StepType == TypeInv /\ [Next]_vars => TypeInv'
<1> SUFFICES ASSUME TypeInv, [Next]_vars PROVE TypeInv'
  OBVIOUS
<1> USE StakingAssumption
<1>t. TypeOK /\ PlansLegal
  BY DEF TypeInv
<1>a. \A user \in Users : Claimable(user) \in U64 => Claimable(user) \in Nat
  BY DEF U64
<1>1. CASE create_staking
  BY <1>t, <1>1 DEF TypeInv, TypeOK, PlansLegal, create_staking
<1>2. ASSUME NEW user \in Users, create_stake_position(user)
      PROVE  TypeInv'
  BY <1>t, <1>2 DEF TypeInv, TypeOK, PlansLegal, create_stake_position
<1>3. ASSUME NEW user \in Users, NEW amount \in Amounts, deposit(user, amount)
      PROVE  TypeInv'
  <2>1. amount \in Int /\ 0 \in Int /\ Claimable(user) \in U64
    BY <1>3 DEF deposit, UpdateStake, StakeFits
  <2>2. UpdateStake(user, amount, 0, Claimable(user)) /\ TransferStake(user, amount)
        /\ UNCHANGED <<plan, fee_vault, paid, now>>
    BY <1>3 DEF deposit
  <2>3. TypeOK'
    BY <1>t, <2>1, <2>2, UpdateStakeType, TransferStakeType DEF TypeOK
  <2> QED
    BY <1>t, <2>2, <2>3 DEF TypeInv, PlansLegal
<1>4. ASSUME NEW user \in Users, NEW amount \in Amounts, withdraw(user, amount)
      PROVE  TypeInv'
  <2>1. -amount \in Int /\ 0 \in Int /\ Claimable(user) \in U64
    BY <1>4 DEF withdraw, UpdateStake, StakeFits
  <2>2. UpdateStake(user, -amount, 0, Claimable(user)) /\ TransferStake(user, -amount)
        /\ UNCHANGED <<plan, fee_vault, paid, now>>
    BY <1>4 DEF withdraw
  <2>3. TypeOK'
    BY <1>t, <2>1, <2>2, UpdateStakeType, TransferStakeType DEF TypeOK
  <2> QED
    BY <1>t, <2>2, <2>3 DEF TypeInv, PlansLegal
<1>5. ASSUME NEW user \in Users, claim_staking_rewards(user)
      PROVE  TypeInv'
  <2>1. 0 \in Int /\ 0 \in U64 /\ Claimable(user) \in Nat
    BY <1>5 DEF claim_staking_rewards, UpdateStake, StakeFits, U64
  <2>2. UpdateStake(user, 0, 0, 0) /\ UNCHANGED <<plan, stake_vault, user_base, now>>
    BY <1>5 DEF claim_staking_rewards
  <2>3. fee_vault' \in Nat /\ paid' \in [Users -> Nat]
    BY <1>t, <1>5, <2>1 DEF claim_staking_rewards, TypeOK
  <2>4. TypeOK'
    BY <1>t, <2>1, <2>2, <2>3, UpdateStakeType DEF TypeOK
  <2> QED
    BY <1>t, <2>2, <2>4 DEF TypeInv, PlansLegal
<1>6. ASSUME NEW user \in Users, NEW p \in Plans, NEW schedule \in Schedules, NEW amount \in Amounts,
             create_vesting_plan(user, p, schedule, amount)
      PROVE  TypeInv'
  <2>1. amount \in Int /\ amount \in Nat /\ 0 \in Int /\ Claimable(user) \in U64
        /\ schedule \in [start : Int, vesting_duration : Int, cliff_duration : Int]
    BY <1>6 DEF create_vesting_plan, UpdateStake, StakeFits
  <2>2. UpdateStake(user, 0, amount, Claimable(user)) /\ TransferStake(user, amount)
        /\ UNCHANGED <<fee_vault, paid, now>>
    BY <1>6 DEF create_vesting_plan
  <2>3. plan' \in [Plans -> [owner : Users \cup {NoOwner}, amount_vested : Nat, amount_released : Nat,
                              start : Int, vesting_duration : Int, cliff_duration : Int]]
    BY <1>t, <1>6, <2>1 DEF create_vesting_plan, TypeOK
  <2>4. TypeOK'
    BY <1>t, <2>1, <2>2, <2>3, UpdateStakeType, TransferStakeType DEF TypeOK
  <2>5. PlansLegal'
    BY <1>t, <1>6, <2>1 DEF PlansLegal, create_vesting_plan, TypeOK
  <2> QED
    BY <2>4, <2>5 DEF TypeInv
<1>7. ASSUME NEW p \in Plans, release(p)
      PROVE  TypeInv'
  <2> DEFINE user == plan[p].owner
             amount == Releasable(p)
  <2>1. user \in Users /\ user # NoOwner
    BY <1>t, <1>7 DEF release, TypeOK
  <2>2. amount \in Int /\ amount >= 0
    BY <1>7, <2>1, ReleasableType DEF release
  <2>3. UpdateStake(user, 0, -amount, Claimable(user)) /\ TransferStake(user, -amount)
        /\ UNCHANGED <<fee_vault, paid, now>>
        /\ plan' = [plan EXCEPT ![p].amount_released = @ + amount]
    BY <1>7 DEF release
  <2> HIDE DEF user, amount
  <2>4. -amount \in Int /\ 0 \in Int /\ Claimable(user) \in U64
    BY <2>2, <2>3 DEF UpdateStake, StakeFits
  <2>5. plan' \in [Plans -> [owner : Users \cup {NoOwner}, amount_vested : Nat, amount_released : Nat,
                              start : Int, vesting_duration : Int, cliff_duration : Int]]
    BY <1>t, <2>2, <2>3 DEF TypeOK
  <2>6. TypeOK'
    BY <1>t, <2>1, <2>3, <2>4, <2>5, UpdateStakeType, TransferStakeType DEF TypeOK
  <2>7. PlansLegal'
    BY <1>t, <2>3 DEF PlansLegal, TypeOK
  <2> QED
    BY <2>6, <2>7 DEF TypeInv
<1>8. ASSUME NEW fee \in Fees, FeesArrive(fee)
      PROVE  TypeInv'
  BY <1>t, <1>8 DEF TypeInv, TypeOK, PlansLegal, FeesArrive
<1>9. CASE Tick
  BY <1>t, <1>9 DEF TypeInv, TypeOK, PlansLegal, Tick
<1>10. CASE UNCHANGED vars
  BY <1>t, <1>10 DEF vars, TypeInv, TypeOK, PlansLegal
<1> QED
  BY <1>1, <1>2, <1>3, <1>4, <1>5, <1>6, <1>7, <1>8, <1>9, <1>10
     DEF Next, Opening, Deposit, Withdraw, Claim, Vest, Release, Environment

\* The accounts keep their types through every history, for any number of users and plans,
\* and every plan that exists has a schedule create_vesting_plan accepts.
THEOREM TypeCorrect == Spec => [](TypeOK /\ PlansLegal)
<1>1. Init => TypeInv
  BY InitType
<1>2. TypeInv /\ [Next]_vars => TypeInv'
  BY StepType
<1> QED
  BY <1>1, <1>2, PTL DEF Spec, TypeInv

-----------------------------------------------------------------------------
(* Totals and the tokens behind them. *)

AccountsInv == TypeInv /\ TotalsMatch /\ StakesBacked

\* UpdateStake moves one position and the totals by the same amounts.
LEMMA UpdateStakeTotals ==
  ASSUME TypeOK, TotalsMatch, NEW user \in Users, NEW staked \in Int, NEW vested \in Int,
         NEW kept \in U64, UpdateStake(user, staked, vested, kept)
  PROVE  TotalsMatch' /\ SharesOf(staking)' = SharesOf(staking) + staked + vested
<1>1. N \in Nat /\ user \in 1..N
  BY StakingAssumption DEF Users
<1>2. /\ staking' = Totals(AccruedPerShare, staked, vested)
      /\ position' = [position EXCEPT ![user] = Stake(user, AccruedPerShare, kept, staked, vested)]
  BY DEF UpdateStake, StakeFits
<1>3. /\ staking'.amount_staked = staking.amount_staked + staked
      /\ staking'.total_amount_vested = staking.total_amount_vested + vested
  BY <1>2 DEF Totals, TypeOK
<1>4. /\ \A u \in Users : u # user => position'[u] = position[u]
      /\ position'[user].amount_staked = position[user].amount_staked + staked
      /\ position'[user].total_amount_vested = position[user].total_amount_vested + vested
  BY <1>2 DEF Stake, TypeOK
<1>t. position \in [Users -> [open : BOOLEAN, amount_staked : U64, total_amount_vested : U64,
                             pending_rewards : U64, acc : Nat]]
  BY DEF TypeOK
<1>u. position' \in [Users -> [open : BOOLEAN, amount_staked : U64, total_amount_vested : U64,
                              pending_rewards : U64, acc : Nat]]
  BY UpdateStakeType
<1>n. \A u \in Users : /\ position[u].amount_staked \in Int /\ position[u].total_amount_vested \in Int
                       /\ position'[u].amount_staked \in Int /\ position'[u].total_amount_vested \in Int
  BY <1>t, <1>u DEF U64
<1>5. /\ StakedOf \in [1..N -> Int] /\ StakedOf' \in [1..N -> Int]
      /\ VestedOf \in [1..N -> Int] /\ VestedOf' \in [1..N -> Int]
  BY <1>n DEF StakedOf, VestedOf, Users
<1>6. /\ \A u \in 1..N : u # user => StakedOf'[u] = StakedOf[u]
      /\ StakedOf'[user] - StakedOf[user] = staked
  BY <1>1, <1>4, <1>n DEF StakedOf, Users
<1>7. /\ \A u \in 1..N : u # user => VestedOf'[u] = VestedOf[u]
      /\ VestedOf'[user] - VestedOf[user] = vested
  BY <1>1, <1>4, <1>n DEF VestedOf, Users
<1>8. SumTo(StakedOf', N) = SumTo(StakedOf, N) + staked
  BY <1>1, <1>5, <1>6, SumUpdate
<1>9. SumTo(VestedOf', N) = SumTo(VestedOf, N) + vested
  BY <1>1, <1>5, <1>7, SumUpdate
<1>10. TotalsMatch'
  BY <1>3, <1>8, <1>9 DEF TotalsMatch
<1>11. staking.amount_staked \in Int /\ staking.total_amount_vested \in Int
  BY DEF TypeOK, U64
<1>12. SharesOf(staking)' = SharesOf(staking) + staked + vested
  BY <1>3, <1>11 DEF SharesOf
<1> QED
  BY <1>10, <1>12

\* A change of the shares that comes with the same transfer of tokens keeps both facts.
LEMMA MoveStake ==
  ASSUME AccountsInv, NEW user \in Users, NEW staked \in Int, NEW vested \in Int, NEW kept \in U64,
         NEW amount \in Int, amount = staked + vested,
         UpdateStake(user, staked, vested, kept), TransferStake(user, amount)
  PROVE  TotalsMatch' /\ StakesBacked'
<1>1. TypeOK /\ TotalsMatch /\ StakesBacked
  BY DEF AccountsInv, TypeInv
<1>2. TotalsMatch' /\ SharesOf(staking)' = SharesOf(staking) + staked + vested
  BY <1>1, UpdateStakeTotals
<1>3. stake_vault' = stake_vault + amount
  BY DEF TransferStake, TransferFits
<1>4. SharesOf(staking) \in Int
  BY <1>1 DEF TypeOK, SharesOf, U64
<1>5. StakesBacked'
  BY <1>1, <1>2, <1>3, <1>4 DEF StakesBacked
<1> QED
  BY <1>2, <1>5

\* Every action keeps the totals and their backing.
LEMMA StepAccounts == AccountsInv /\ [Next]_vars => AccountsInv'
<1> SUFFICES ASSUME AccountsInv, [Next]_vars PROVE AccountsInv'
  OBVIOUS
<1>i. TypeInv /\ TypeOK /\ TotalsMatch /\ StakesBacked
  BY DEF AccountsInv, TypeInv
<1>t. TypeInv'
  BY <1>i, StepType
<1> SUFFICES TotalsMatch' /\ StakesBacked'
  BY <1>t DEF AccountsInv
<1> USE StakingAssumption
<1>1. CASE create_staking
  BY <1>i, <1>1 DEF create_staking, TypeOK, TotalsMatch, StakesBacked, StakedOf, VestedOf, SharesOf
<1>2. ASSUME NEW user \in Users, create_stake_position(user)
      PROVE  TotalsMatch' /\ StakesBacked'
  <2>1. \A u \in Users : /\ position'[u].amount_staked = position[u].amount_staked
                         /\ position'[u].total_amount_vested = position[u].total_amount_vested
    BY <1>i, <1>2 DEF create_stake_position, TypeOK
  <2>2. StakedOf' = StakedOf /\ VestedOf' = VestedOf
    BY <2>1 DEF StakedOf, VestedOf
  <2> QED
    BY <1>i, <1>2, <2>2 DEF create_stake_position, TotalsMatch, StakesBacked
<1>3. ASSUME NEW user \in Users, NEW amount \in Amounts, deposit(user, amount)
      PROVE  TotalsMatch' /\ StakesBacked'
  <2>1. amount \in Int /\ 0 \in Int /\ amount = amount + 0 /\ Claimable(user) \in U64
    BY <1>3 DEF deposit, UpdateStake, StakeFits
  <2> QED
    BY <1>3, <2>1, MoveStake DEF deposit
<1>4. ASSUME NEW user \in Users, NEW amount \in Amounts, withdraw(user, amount)
      PROVE  TotalsMatch' /\ StakesBacked'
  <2>1. -amount \in Int /\ 0 \in Int /\ -amount = -amount + 0 /\ Claimable(user) \in U64
    BY <1>4 DEF withdraw, UpdateStake, StakeFits
  <2> QED
    BY <1>4, <2>1, MoveStake DEF withdraw
<1>5. ASSUME NEW user \in Users, claim_staking_rewards(user)
      PROVE  TotalsMatch' /\ StakesBacked'
  <2>1. 0 \in Int /\ 0 \in U64 /\ SharesOf(staking) \in Int
    BY <1>i DEF U64, TypeOK, SharesOf
  <2>2. UpdateStake(user, 0, 0, 0) /\ stake_vault' = stake_vault
    BY <1>5 DEF claim_staking_rewards
  <2>3. TotalsMatch' /\ SharesOf(staking)' = SharesOf(staking) + 0 + 0
    BY <1>i, <2>1, <2>2, UpdateStakeTotals
  <2> QED
    BY <1>i, <2>1, <2>2, <2>3 DEF StakesBacked
<1>6. ASSUME NEW user \in Users, NEW p \in Plans, NEW schedule \in Schedules, NEW amount \in Amounts,
             create_vesting_plan(user, p, schedule, amount)
      PROVE  TotalsMatch' /\ StakesBacked'
  <2>1. amount \in Int /\ 0 \in Int /\ amount = 0 + amount /\ Claimable(user) \in U64
    BY <1>6 DEF create_vesting_plan, UpdateStake, StakeFits
  <2> QED
    BY <1>6, <2>1, MoveStake DEF create_vesting_plan
<1>7. ASSUME NEW p \in Plans, release(p)
      PROVE  TotalsMatch' /\ StakesBacked'
  <2> DEFINE user == plan[p].owner
             amount == Releasable(p)
  <2>1. user \in Users /\ user # NoOwner
    BY <1>i, <1>7 DEF release, TypeOK
  <2>2. amount \in Int
    BY <1>i, <2>1, ReleasableType
  <2>3. UpdateStake(user, 0, -amount, Claimable(user)) /\ TransferStake(user, -amount)
    BY <1>7 DEF release
  <2> HIDE DEF user, amount
  <2>4. -amount \in Int /\ 0 \in Int /\ -amount = 0 + (-amount) /\ Claimable(user) \in U64
    BY <2>2, <2>3 DEF UpdateStake, StakeFits
  <2> QED
    BY <2>1, <2>3, <2>4, MoveStake
<1>8. ASSUME NEW fee \in Fees, FeesArrive(fee)
      PROVE  TotalsMatch' /\ StakesBacked'
  BY <1>i, <1>8 DEF FeesArrive, TotalsMatch, StakesBacked, StakedOf, VestedOf, SharesOf
<1>9. CASE Tick
  BY <1>i, <1>9 DEF Tick, TotalsMatch, StakesBacked, StakedOf, VestedOf, SharesOf
<1>10. CASE UNCHANGED vars
  BY <1>i, <1>10 DEF vars, TotalsMatch, StakesBacked, StakedOf, VestedOf, SharesOf
<1> QED
  BY <1>1, <1>2, <1>3, <1>4, <1>5, <1>6, <1>7, <1>8, <1>9, <1>10
     DEF Next, Opening, Deposit, Withdraw, Claim, Vest, Release, Environment

\* A sum of zeroes is zero.
LEMMA SumOfZeroes ==
  ASSUME NEW n \in Nat, NEW f \in [1..n -> Int], \A i \in 1..n : f[i] = 0
  PROVE  SumTo(f, n) = 0
<1>1. f \in [1..n -> Nat] /\ 1 \in Int
  OBVIOUS
<1>2. SumTo(f, n) \in Nat
  BY <1>1, SumNat
<1>3. \A i \in 1..n : f[i] = f[i] + 1 * f[i]
  OBVIOUS
<1>4. SumTo(f, n) = SumTo(f, n) + 1 * SumTo(f, n)
  BY <1>1, <1>3, SumLinear, Zenon
<1> QED
  BY <1>2, <1>4

\* Initially nothing is staked.
LEMMA InitAccounts == Init => AccountsInv
<1> SUFFICES ASSUME Init PROVE AccountsInv
  OBVIOUS
<1>1. TypeInv
  BY InitType
<1>2. N \in Nat /\ StakedOf \in [1..N -> Int] /\ VestedOf \in [1..N -> Int]
  BY StakingAssumption DEF Init, StakedOf, VestedOf, Users
<1>3. \A u \in 1..N : StakedOf[u] = 0 /\ VestedOf[u] = 0
  BY DEF Init, StakedOf, VestedOf, Users
<1>4. SumTo(StakedOf, N) = 0 /\ SumTo(VestedOf, N) = 0
  BY <1>2, <1>3, SumOfZeroes
<1> QED
  BY <1>1, <1>4 DEF AccountsInv, Init, TotalsMatch, StakesBacked, SharesOf

\* The totals that rewards are divided by are always the sums of the positions.
THEOREM TotalsAlwaysMatch == Spec => []TotalsMatch
<1>1. Init => AccountsInv
  BY InitAccounts
<1>2. AccountsInv /\ [Next]_vars => AccountsInv'
  BY StepAccounts
<1>3. AccountsInv => TotalsMatch
  BY DEF AccountsInv
<1> QED
  BY <1>1, <1>2, <1>3, PTL DEF Spec

\* The market always holds the staked and vesting tokens of all positions.
THEOREM StakesAlwaysBacked == Spec => []StakesBacked
<1>1. Init => AccountsInv
  BY InitAccounts
<1>2. AccountsInv /\ [Next]_vars => AccountsInv'
  BY StepAccounts
<1>3. AccountsInv => StakesBacked
  BY DEF AccountsInv
<1> QED
  BY <1>1, <1>2, <1>3, PTL DEF Spec

-----------------------------------------------------------------------------
(* Plans and the vested amounts of positions. *)

PlansInv == TypeInv /\ PlansMatch

\* What plan p has still to release to a user.
LEMMA UnreleasedType ==
  ASSUME TypeOK, NEW user \in Users
  PROVE  UnreleasedOf(user) \in [1..P -> Int]
BY DEF TypeOK, UnreleasedOf, Plans

\* When the plans stay as they are and so do the vested amounts, PlansMatch stays.
LEMMA SamePlans ==
  ASSUME PlansMatch, plan' = plan,
         \A u \in Users : position'[u].total_amount_vested = position[u].total_amount_vested
  PROVE  PlansMatch'
BY DEF PlansMatch, UnreleasedOf

\* UpdateStake adds to the vested amount of one position only.
LEMMA UpdateStakeVested ==
  ASSUME TypeOK, NEW user \in Users, NEW staked \in Int, NEW vested \in Int, NEW kept \in U64,
         UpdateStake(user, staked, vested, kept)
  PROVE  \A u \in Users : position'[u].total_amount_vested
           = IF u = user THEN position[u].total_amount_vested + vested ELSE position[u].total_amount_vested
<1>1. position' = [position EXCEPT ![user] = Stake(user, AccruedPerShare, kept, staked, vested)]
  BY DEF UpdateStake, StakeFits
<1>2. \A u \in Users : u # user => position'[u] = position[u]
  BY <1>1 DEF TypeOK
<1>3. position'[user].total_amount_vested = position[user].total_amount_vested + vested
  BY <1>1 DEF Stake, TypeOK
<1> QED
  BY <1>2, <1>3

\* One plan and the position of its owner move by the same amount.
LEMMA MovePlan ==
  ASSUME PlansInv, TypeOK', NEW user \in Users, NEW p \in Plans, NEW vested \in Int,
         \A u \in Users : position'[u].total_amount_vested
           = IF u = user THEN position[u].total_amount_vested + vested ELSE position[u].total_amount_vested,
         \A u \in Users : \A q \in Plans : q # p => UnreleasedOf(u)'[q] = UnreleasedOf(u)[q],
         \A u \in Users : UnreleasedOf(u)'[p]
           = IF u = user THEN UnreleasedOf(u)[p] + vested ELSE UnreleasedOf(u)[p]
  PROVE  PlansMatch'
<1> SUFFICES ASSUME NEW u \in Users
             PROVE  position'[u].total_amount_vested = SumTo(UnreleasedOf(u)', P)
  BY DEF PlansMatch
<1>1. TypeOK /\ PlansMatch
  BY DEF PlansInv, TypeInv
<1> DEFINE f == UnreleasedOf(u)
           g == UnreleasedOf(u)'
<1>2. P \in Nat /\ p \in 1..P
  BY StakingAssumption DEF Plans
<1>3. f \in [1..P -> Int]
  BY <1>1, UnreleasedType
<1>4. g \in [1..P -> Int]
  <2>1. \A q \in Plans : plan'[q].amount_vested \in Int /\ plan'[q].amount_released \in Int
    BY DEF TypeOK
  <2> QED
    BY <2>1 DEF UnreleasedOf, Plans
<1>5. \A q \in 1..P : q # p => g[q] = f[q]
  BY DEF Plans
<1>6. g[p] = IF u = user THEN f[p] + vested ELSE f[p]
  OBVIOUS
<1>7. position[u].total_amount_vested = SumTo(f, P)
  BY <1>1 DEF PlansMatch
<1> HIDE DEF f, g
<1>8. SumTo(g, P) = SumTo(f, P) + (g[p] - f[p])
  BY <1>2, <1>3, <1>4, <1>5, SumUpdate
<1>9. f[p] \in Int /\ SumTo(f, P) \in Int
  BY <1>2, <1>3, SumInt
<1>10. position'[u].total_amount_vested = SumTo(g, P)
  BY <1>6, <1>7, <1>8, <1>9
<1> QED
  BY <1>10 DEF g

\* Every action keeps the plans and the positions together.
LEMMA StepPlans == PlansInv /\ [Next]_vars => PlansInv'
<1> SUFFICES ASSUME PlansInv, [Next]_vars PROVE PlansInv'
  OBVIOUS
<1>i. TypeInv /\ TypeOK /\ PlansMatch
  BY DEF PlansInv, TypeInv
<1>t. TypeInv' /\ TypeOK'
  BY <1>i, StepType DEF TypeInv
<1> SUFFICES PlansMatch'
  BY <1>t DEF PlansInv
<1> USE StakingAssumption
<1>v. ASSUME NEW user \in Users, NEW staked \in Int, NEW kept \in U64, UpdateStake(user, staked, 0, kept)
      PROVE  \A u \in Users : position'[u].total_amount_vested = position[u].total_amount_vested
  <2>1. 0 \in Int /\ \A u \in Users : position[u].total_amount_vested \in Int
    BY <1>i DEF TypeOK, U64
  <2> QED
    BY <1>i, <1>v, <2>1, UpdateStakeVested
<1>1. CASE create_staking
  BY <1>i, <1>1, SamePlans DEF create_staking
<1>2. ASSUME NEW user \in Users, create_stake_position(user)
      PROVE  PlansMatch'
  BY <1>i, <1>2, SamePlans DEF create_stake_position, TypeOK
<1>3. ASSUME NEW user \in Users, NEW amount \in Amounts, deposit(user, amount)
      PROVE  PlansMatch'
  <2>1. amount \in Int /\ Claimable(user) \in U64
    BY <1>3 DEF deposit, UpdateStake, StakeFits
  <2> QED
    BY <1>i, <1>v, <1>3, <2>1, SamePlans DEF deposit
<1>4. ASSUME NEW user \in Users, NEW amount \in Amounts, withdraw(user, amount)
      PROVE  PlansMatch'
  <2>1. -amount \in Int /\ Claimable(user) \in U64
    BY <1>4 DEF withdraw, UpdateStake, StakeFits
  <2> QED
    BY <1>i, <1>v, <1>4, <2>1, SamePlans DEF withdraw
<1>5. ASSUME NEW user \in Users, claim_staking_rewards(user)
      PROVE  PlansMatch'
  <2>1. 0 \in Int /\ 0 \in U64
    BY DEF U64
  <2> QED
    BY <1>i, <1>v, <1>5, <2>1, SamePlans DEF claim_staking_rewards
<1>6. ASSUME NEW user \in Users, NEW p \in Plans, NEW schedule \in Schedules, NEW amount \in Amounts,
             create_vesting_plan(user, p, schedule, amount)
      PROVE  PlansMatch'
  <2>1. amount \in Int /\ 0 \in Int /\ Claimable(user) \in U64
    BY <1>6 DEF create_vesting_plan, UpdateStake, StakeFits
  <2>2. UpdateStake(user, 0, amount, Claimable(user)) /\ plan[p].owner = NoOwner
    BY <1>6 DEF create_vesting_plan
  <2>3. /\ \A q \in Plans : q # p => plan'[q] = plan[q]
        /\ plan'[p].owner = user /\ plan'[p].amount_vested = amount /\ plan'[p].amount_released = 0
    BY <1>i, <1>6 DEF create_vesting_plan, TypeOK
  <2>4. \A u \in Users : \A q \in Plans : q # p => UnreleasedOf(u)'[q] = UnreleasedOf(u)[q]
    BY <2>3 DEF UnreleasedOf
  <2>5. \A u \in Users : UnreleasedOf(u)[p] = 0
    BY <2>2 DEF UnreleasedOf, Users, NoOwner
  <2>6. \A u \in Users : UnreleasedOf(u)'[p] = IF u = user THEN amount ELSE 0
    BY <2>1, <2>3 DEF UnreleasedOf
  <2>7. \A u \in Users : UnreleasedOf(u)'[p]
          = IF u = user THEN UnreleasedOf(u)[p] + amount ELSE UnreleasedOf(u)[p]
    BY <2>1, <2>5, <2>6
  <2>8. \A u \in Users : position'[u].total_amount_vested
          = IF u = user THEN position[u].total_amount_vested + amount ELSE position[u].total_amount_vested
    BY <1>i, <2>1, <2>2, UpdateStakeVested
  <2> QED
    BY <1>t, <2>1, <2>4, <2>7, <2>8, MovePlan
<1>7. ASSUME NEW p \in Plans, release(p)
      PROVE  PlansMatch'
  <2> DEFINE user == plan[p].owner
             amount == Releasable(p)
  <2>1. user \in Users /\ user # NoOwner
    BY <1>i, <1>7 DEF release, TypeOK
  <2>2. amount \in Int
    BY <1>i, <2>1, ReleasableType
  <2>3. /\ UpdateStake(user, 0, -amount, Claimable(user))
        /\ plan' = [plan EXCEPT ![p].amount_released = @ + amount]
    BY <1>7 DEF release
  <2> HIDE DEF amount
  <2>4. -amount \in Int /\ 0 \in Int /\ Claimable(user) \in U64
    BY <2>2, <2>3 DEF UpdateStake, StakeFits
  <2>5. /\ \A q \in Plans : q # p => plan'[q] = plan[q]
        /\ plan'[p].owner = plan[p].owner /\ plan'[p].amount_vested = plan[p].amount_vested
        /\ plan'[p].amount_released = plan[p].amount_released + amount
    BY <1>i, <2>3 DEF TypeOK
  <2>6. \A u \in Users : \A q \in Plans : q # p => UnreleasedOf(u)'[q] = UnreleasedOf(u)[q]
    BY <2>5 DEF UnreleasedOf
  <2>7. plan[p].amount_vested \in Int /\ plan[p].amount_released \in Int
    BY <1>i DEF TypeOK
  <2>8. \A u \in Users : UnreleasedOf(u)'[p]
          = IF u = user THEN UnreleasedOf(u)[p] + (-amount) ELSE UnreleasedOf(u)[p]
    BY <2>2, <2>5, <2>7 DEF UnreleasedOf
  <2> HIDE DEF user
  <2>9. \A u \in Users : position'[u].total_amount_vested
          = IF u = user THEN position[u].total_amount_vested + (-amount) ELSE position[u].total_amount_vested
    BY <1>i, <2>1, <2>3, <2>4, UpdateStakeVested
  <2> QED
    BY <1>t, <2>1, <2>4, <2>6, <2>8, <2>9, MovePlan
<1>8. ASSUME NEW fee \in Fees, FeesArrive(fee)
      PROVE  PlansMatch'
  BY <1>i, <1>8, SamePlans DEF FeesArrive
<1>9. CASE Tick
  BY <1>i, <1>9, SamePlans DEF Tick
<1>10. CASE UNCHANGED vars
  BY <1>i, <1>10, SamePlans DEF vars
<1> QED
  BY <1>1, <1>2, <1>3, <1>4, <1>5, <1>6, <1>7, <1>8, <1>9, <1>10
     DEF Next, Opening, Deposit, Withdraw, Claim, Vest, Release, Environment

\* Initially there are no plans.
LEMMA InitPlans == Init => PlansInv
<1> SUFFICES ASSUME Init PROVE PlansInv
  OBVIOUS
<1>1. TypeInv /\ TypeOK
  BY InitType DEF TypeInv
<1>2. ASSUME NEW user \in Users
      PROVE  position[user].total_amount_vested = SumTo(UnreleasedOf(user), P)
  <2>1. P \in Nat /\ UnreleasedOf(user) \in [1..P -> Int]
    BY <1>1, StakingAssumption, UnreleasedType
  <2>2. \A p \in 1..P : UnreleasedOf(user)[p] = 0
    BY DEF Init, UnreleasedOf, Plans, Users, NoOwner
  <2>3. SumTo(UnreleasedOf(user), P) = 0
    BY <2>1, <2>2, SumOfZeroes
  <2> QED
    BY <2>3 DEF Init
<1> QED
  BY <1>1, <1>2 DEF PlansInv, PlansMatch

\* The vested amount of a position is always exactly what its plans have still to release,
\* for any number of plans per position.
THEOREM PlansAlwaysMatch == Spec => []PlansMatch
<1>1. Init => PlansInv
  BY InitPlans
<1>2. PlansInv /\ [Next]_vars => PlansInv'
  BY StepPlans
<1>3. PlansInv => PlansMatch
  BY DEF PlansInv
<1> QED
  BY <1>1, <1>2, <1>3, PTL DEF Spec

-----------------------------------------------------------------------------
(* The schedule of releases. *)

VestingInv == TypeInv /\ NeverReleasedEarly

\* The linear part of a schedule: rounding down keeps it below the line and below the whole.
LEMMA LinearShare ==
  ASSUME NEW vested \in Nat, NEW duration \in Nat \ {0}, NEW elapsed \in Nat, elapsed < duration
  PROVE  LET share == (vested * elapsed) \div duration
         IN  share \in Nat /\ share * duration <= vested * elapsed /\ share <= vested
<1> DEFINE product == vested * elapsed
           share == product \div duration
<1>1. product \in Nat
  OBVIOUS
<1>2. product <= vested * duration
  OBVIOUS
<1> HIDE DEF product
<1>3. share \in Nat /\ share * duration <= product
  BY <1>1
<1>4. share <= vested
  BY <1>1, <1>2, <1>3
<1> QED
  BY <1>3, <1>4 DEF product

\* A plan that does not change stays on schedule while time passes.
LEMMA TimePasses ==
  ASSUME VestingInv, TypeOK', now' \in {now, now + 1}, NEW p \in Plans, plan'[p] = plan[p]
  PROVE  /\ plan'[p].amount_released <= plan'[p].amount_vested
         /\ plan'[p].amount_released > 0 =>
              /\ Elapsed(p)' >= plan'[p].cliff_duration
              /\ \/ Elapsed(p)' >= plan'[p].vesting_duration
                 \/ plan'[p].amount_released * plan'[p].vesting_duration <= plan'[p].amount_vested * Elapsed(p)'
<1> DEFINE pl == plan[p]
           e == Elapsed(p)
           f == Elapsed(p)'
<1>1. /\ pl.amount_vested \in Nat /\ pl.amount_released \in Nat /\ pl.start \in Int
      /\ pl.vesting_duration \in Int /\ pl.cliff_duration \in Int /\ now \in Nat
  BY DEF VestingInv, TypeInv, TypeOK
<1>2. e \in Int /\ f \in {e, e + 1}
  BY <1>1 DEF Elapsed
<1>3. /\ pl.amount_released <= pl.amount_vested
      /\ pl.amount_released > 0 =>
           /\ e >= pl.cliff_duration
           /\ \/ e >= pl.vesting_duration
              \/ pl.amount_released * pl.vesting_duration <= pl.amount_vested * e
  BY DEF VestingInv, NeverReleasedEarly
<1>4. pl.amount_vested * e <= pl.amount_vested * f
  <2> DEFINE v == pl.amount_vested
  <2>1. v \in Nat
    BY <1>1
  <2> HIDE DEF v, e, f
  <2>2. v * (e + 1) = v * e + v /\ v * e \in Int
    BY <1>2, <2>1
  <2> QED
    BY <1>2, <2>1, <2>2 DEF v
<1> DEFINE need == pl.amount_released * pl.vesting_duration
           before == pl.amount_vested * e
           after == pl.amount_vested * f
<1>5. need \in Int /\ before \in Int /\ after \in Int
  <2> HIDE DEF e, f
  <2> QED
    BY <1>1, <1>2
<1>6. before <= after
  BY <1>4
<1>7. /\ pl.amount_released <= pl.amount_vested
      /\ pl.amount_released > 0 =>
           e >= pl.cliff_duration /\ (e >= pl.vesting_duration \/ need <= before)
  BY <1>3
<1> HIDE DEF need, before, after, e, f
<1>8. /\ pl.amount_released <= pl.amount_vested
      /\ pl.amount_released > 0 =>
           f >= pl.cliff_duration /\ (f >= pl.vesting_duration \/ need <= after)
  BY <1>1, <1>2, <1>5, <1>6, <1>7
<1> QED
  BY <1>8 DEF need, after, f

\* Every action keeps all plans on schedule.
LEMMA StepVesting == VestingInv /\ [Next]_vars => VestingInv'
<1> SUFFICES ASSUME VestingInv, [Next]_vars PROVE VestingInv'
  OBVIOUS
<1>i. TypeInv /\ TypeOK /\ PlansLegal /\ NeverReleasedEarly
  BY DEF VestingInv, TypeInv
<1>t. TypeInv' /\ TypeOK'
  BY <1>i, StepType DEF TypeInv
<1> SUFFICES NeverReleasedEarly'
  BY <1>t DEF VestingInv
<1>1. ASSUME plan' = plan, now' \in {now, now + 1} PROVE NeverReleasedEarly'
  BY <1>t, <1>1, TimePasses DEF NeverReleasedEarly
<1>2. ASSUME NEW user \in Users, NEW p \in Plans, NEW schedule \in Schedules, NEW amount \in Amounts,
             create_vesting_plan(user, p, schedule, amount)
      PROVE  NeverReleasedEarly'
  <2>1. now' = now /\ (\A q \in Plans : q # p => plan'[q] = plan[q])
        /\ plan'[p].amount_vested = amount /\ plan'[p].amount_released = 0
    BY <1>i, <1>2 DEF create_vesting_plan, TypeOK
  <2>2. amount \in Nat
    BY StakingAssumption
  <2> SUFFICES ASSUME NEW q \in Plans
               PROVE  /\ plan'[q].amount_released <= plan'[q].amount_vested
                      /\ plan'[q].amount_released > 0 =>
                           /\ Elapsed(q)' >= plan'[q].cliff_duration
                           /\ \/ Elapsed(q)' >= plan'[q].vesting_duration
                              \/ plan'[q].amount_released * plan'[q].vesting_duration
                                   <= plan'[q].amount_vested * Elapsed(q)'
    BY DEF NeverReleasedEarly
  <2>3. CASE q = p
    BY <2>1, <2>2, <2>3
  <2>4. CASE q # p
    BY <1>t, <2>1, <2>4, TimePasses
  <2> QED
    BY <2>3, <2>4
<1>3. ASSUME NEW p \in Plans, release(p)
      PROVE  NeverReleasedEarly'
  <2> DEFINE amount == Releasable(p)
             pl == plan[p]
             e == Elapsed(p)
  <2>1. plan[p].owner # NoOwner /\ amount >= 0
        /\ plan' = [plan EXCEPT ![p].amount_released = @ + amount] /\ now' = now
    BY <1>3 DEF release
  <2>2. /\ pl.amount_vested \in Nat /\ pl.amount_released \in Nat /\ pl.start \in Int
        /\ pl.vesting_duration \in Nat \ {0} /\ pl.cliff_duration \in Nat \ {0} /\ e \in Int
        /\ pl.vesting_duration > pl.cliff_duration
    BY <1>i, <2>1 DEF TypeOK, PlansLegal, Elapsed
  <2>3. amount \in Int
    BY <1>i, <2>1, ReleasableType
  <2>4. /\ \A q \in Plans : q # p => plan'[q] = plan[q]
        /\ plan'[p].amount_released = pl.amount_released + amount
        /\ plan'[p].amount_vested = pl.amount_vested
        /\ plan'[p].vesting_duration = pl.vesting_duration
        /\ plan'[p].cliff_duration = pl.cliff_duration
        /\ plan'[p].start = pl.start
    <3> HIDE DEF amount
    <3> QED
      BY <1>i, <2>1 DEF TypeOK
  <2>5. Elapsed(p)' = e
    BY <2>1, <2>4 DEF Elapsed
  <2>6. /\ plan'[p].amount_released <= plan'[p].amount_vested
        /\ plan'[p].amount_released > 0 =>
             /\ Elapsed(p)' >= plan'[p].cliff_duration
             /\ \/ Elapsed(p)' >= plan'[p].vesting_duration
                \/ plan'[p].amount_released * plan'[p].vesting_duration
                     <= plan'[p].amount_vested * Elapsed(p)'
    <3>1. CASE e < pl.cliff_duration
      <4>1. amount = 0
        BY <2>2, <3>1 DEF Releasable
      <4>2. /\ pl.amount_released <= pl.amount_vested
            /\ pl.amount_released > 0 => e >= pl.cliff_duration
        BY <1>i DEF NeverReleasedEarly
      <4> HIDE DEF amount
      <4> QED
        BY <2>2, <2>4, <2>5, <3>1, <4>1, <4>2
    <3>2. CASE e >= pl.vesting_duration
      <4>1. amount = pl.amount_vested - pl.amount_released
        BY <2>2, <3>2 DEF Releasable
      <4> HIDE DEF amount, e
      <4>2. plan'[p].amount_released = pl.amount_vested
        BY <2>2, <2>4, <4>1
      <4> QED
        BY <2>2, <2>4, <2>5, <3>2, <4>2
    <3>3. CASE e >= pl.cliff_duration /\ e < pl.vesting_duration
      <4> DEFINE share == (pl.amount_vested * e) \div pl.vesting_duration
      <4>1. amount = share - pl.amount_released
        BY <2>2, <3>3 DEF Releasable
      <4>2. e \in Nat
        BY <2>2, <3>3
      <4>3. /\ share \in Nat /\ share <= pl.amount_vested
            /\ share * pl.vesting_duration <= pl.amount_vested * e
        <5> HIDE DEF e, pl
        <5> QED
          BY <2>2, <3>3, <4>2, LinearShare
      <4> HIDE DEF amount, e, share
      <4>4. plan'[p].amount_released = share
        BY <2>2, <2>4, <4>1, <4>3
      <4> QED
        BY <2>4, <2>5, <3>3, <4>3, <4>4
    <3> QED
      BY <2>2, <3>1, <3>2, <3>3
  <2> QED
    BY <1>t, <2>1, <2>4, <2>6, TimePasses DEF NeverReleasedEarly
<1>4. CASE Tick
  BY <1>1, <1>4 DEF Tick
<1>5. ASSUME UNCHANGED <<plan, now>> PROVE NeverReleasedEarly'
  BY <1>1, <1>5
<1> QED
  BY <1>2, <1>3, <1>4, <1>5
     DEF Next, Opening, Deposit, Withdraw, Claim, Vest, Release, Environment, vars, create_staking,
         create_stake_position, deposit, withdraw, claim_staking_rewards, FeesArrive

\* Whatever the order of releases, deposits and clock ticks, no plan has released anything
\* before its cliff, more than its linear share, or more than was vested.
THEOREM NothingReleasedEarly == Spec => []NeverReleasedEarly
<1>1. Init => VestingInv
  <2> SUFFICES ASSUME Init PROVE NeverReleasedEarly
    BY InitType DEF VestingInv
  <2> QED
    BY DEF Init, NeverReleasedEarly
<1>2. VestingInv /\ [Next]_vars => VestingInv'
  BY StepVesting
<1>3. VestingInv => NeverReleasedEarly
  BY DEF VestingInv
<1> QED
  BY <1>1, <1>2, <1>3, PTL DEF Spec

-----------------------------------------------------------------------------
(* Rewards. *)

\* No position has seen an accumulator that the market has not reached.
AccOrdered == \A u \in Users : position[u].acc <= staking.acc

RewardsInv == AccountsInv /\ AccOrdered /\ RewardsSolvent

ShareOf == [u \in Users |-> SharesOf(position[u])]

\* What an accrual adds to the accumulator, and the debts after it.
Growth == AccruedPerShare - staking.acc
AccruedOwed == [u \in Users |-> OwedTo(u) + Growth * SharesOf(position[u])]

-----------------------------------------------------------------------------
\* The types that the other lemmas need.
LEMMA RewardTypes ==
  ASSUME TypeOK, AccOrdered
  PROVE  /\ N \in Nat /\ STAKING_SCALE \in Nat \ {0}
         /\ AccruedPerShare \in Nat /\ Growth \in Nat /\ pending_staking_fees \in Nat /\ fee_vault \in Nat
         /\ staking.acc \in Nat /\ SharesOf(staking) \in Nat
         /\ \A u \in Users : /\ SharesOf(position[u]) \in Nat /\ position[u].pending_rewards \in Nat
                             /\ position[u].acc \in Nat /\ OwedTo(u) \in Nat /\ AccruedOwed[u] \in Nat
         /\ ShareOf \in [1..N -> Int] /\ Owed \in [1..N -> Int] /\ AccruedOwed \in [1..N -> Nat]
<1>1. N \in Nat /\ STAKING_SCALE \in Nat \ {0}
  BY StakingAssumption
<1>2. AccruedPerShare \in Nat /\ AccruedPerShare >= staking.acc
  BY AccruedType
<1>3. /\ pending_staking_fees \in Nat /\ fee_vault \in Nat /\ staking.acc \in Nat
      /\ SharesOf(staking) \in Nat
  BY DEF TypeOK, SharesOf, U64
<1>4. Growth \in Nat
  BY <1>2, <1>3 DEF Growth
<1>5. \A u \in Users : /\ SharesOf(position[u]) \in Nat /\ position[u].pending_rewards \in Nat
                       /\ position[u].acc \in Nat /\ staking.acc - position[u].acc \in Nat
  BY <1>3 DEF TypeOK, SharesOf, U64, AccOrdered
<1>6. ASSUME NEW u \in Users
      PROVE  OwedTo(u) \in Nat /\ OwedTo(u) + Growth * SharesOf(position[u]) \in Nat
  <2> DEFINE shares == SharesOf(position[u])
             behind == staking.acc - position[u].acc
             pending == position[u].pending_rewards
  <2>1. shares \in Nat /\ behind \in Nat /\ pending \in Nat
    BY <1>5
  <2>2. OwedTo(u) = STAKING_SCALE * pending + shares * behind
    BY DEF OwedTo
  <2> HIDE DEF shares, behind, pending
  <2>3. OwedTo(u) \in Nat
    BY <1>1, <2>1, <2>2
  <2>4. Growth * shares \in Nat
    BY <1>4, <2>1
  <2> QED
    BY <2>3, <2>4 DEF shares
<1>7. /\ ShareOf \in [1..N -> Int] /\ Owed \in [1..N -> Int] /\ AccruedOwed \in [1..N -> Nat]
      /\ \A u \in Users : AccruedOwed[u] \in Nat
  BY <1>5, <1>6 DEF ShareOf, Owed, AccruedOwed, Users
<1> QED
  BY <1>1, <1>2, <1>3, <1>4, <1>5, <1>6, <1>7

\* The total that rewards are divided by is the sum of the shares of the positions.
LEMMA SharesAddUp ==
  ASSUME TypeOK, TotalsMatch
  PROVE  SharesOf(staking) = SumTo(ShareOf, N)
<1>1. N \in Nat /\ 1 \in Int
  BY StakingAssumption
<1>2. \A u \in Users : position[u].amount_staked \in Int /\ position[u].total_amount_vested \in Int
  BY DEF TypeOK, U64
<1>3. StakedOf \in [1..N -> Int] /\ VestedOf \in [1..N -> Int] /\ ShareOf \in [1..N -> Int]
  BY <1>2 DEF StakedOf, VestedOf, ShareOf, SharesOf, Users
<1>4. \A u \in 1..N : ShareOf[u] = StakedOf[u] + 1 * VestedOf[u]
  BY <1>2 DEF StakedOf, VestedOf, ShareOf, SharesOf, Users
<1>5. SumTo(ShareOf, N) = SumTo(StakedOf, N) + 1 * SumTo(VestedOf, N)
  BY <1>1, <1>3, <1>4, SumLinear, Zenon
<1>6. SumTo(StakedOf, N) \in Int /\ SumTo(VestedOf, N) \in Int
  BY <1>1, <1>3, SumInt
<1> QED
  BY <1>5, <1>6 DEF TotalsMatch, SharesOf

\* The pending fees pay for what an accrual adds to all debts.
LEMMA AccrualBudget ==
  ASSUME TypeOK, AccOrdered
  PROVE  /\ Growth * SharesOf(staking) + STAKING_SCALE * PendingAfter(AccruedPerShare)
              <= STAKING_SCALE * pending_staking_fees
         /\ PendingAfter(AccruedPerShare) \in Nat
<1> DEFINE scale == STAKING_SCALE
           shares == SharesOf(staking)
           fees == pending_staking_fees
           fund == fees * scale
           part == fund \div shares
<1>1. scale \in Nat \ {0} /\ shares \in Nat /\ fees \in Nat /\ staking.acc \in Nat
  BY RewardTypes
<1>2. fund \in Nat /\ (fees > 0 => fund > 0) /\ scale * fees = fund /\ scale * 0 = 0
  BY <1>1
<1>3. CASE shares > 0 /\ fees > 0
  <2>1. part \in Nat /\ part * shares <= fund
    <3> HIDE DEF fund, shares
    <3> QED
      BY <1>1, <1>2, <1>3
  <2>2. AccruedPerShare = staking.acc + part
    BY <1>3 DEF AccruedPerShare
  <2> HIDE DEF part
  <2>3. Growth = part
    BY <1>1, <2>1, <2>2 DEF Growth
  <2>4. CASE AccruedPerShare > 0
    <3>1. PendingAfter(AccruedPerShare) = 0
      BY <2>4 DEF PendingAfter
    <3> HIDE DEF fund, shares, scale, fees
    <3>2. Growth * shares + scale * PendingAfter(AccruedPerShare) <= scale * fees
      BY <1>1, <1>2, <2>1, <2>3, <3>1
    <3> QED
      BY <3>1, <3>2 DEF shares, scale, fees
  <2>5. CASE ~(AccruedPerShare > 0)
    <3>1. PendingAfter(AccruedPerShare) = fees /\ part = 0
      BY <1>1, <2>1, <2>2, <2>5 DEF PendingAfter
    <3> HIDE DEF fund, shares, scale, fees
    <3>2. Growth * shares + scale * PendingAfter(AccruedPerShare) <= scale * fees
      BY <1>1, <1>2, <2>3, <3>1
    <3> QED
      BY <1>1, <3>1, <3>2 DEF shares, scale, fees
  <2> QED
    BY <2>4, <2>5
<1>4. CASE ~(shares > 0 /\ fees > 0)
  <2>1. AccruedPerShare = staking.acc
    BY <1>4 DEF AccruedPerShare
  <2>2. Growth = 0
    BY <1>1, <2>1 DEF Growth
  <2>3. PendingAfter(AccruedPerShare) \in {0, fees}
    BY DEF PendingAfter
  <2> HIDE DEF fund, shares, scale, fees
  <2>4. Growth * shares + scale * PendingAfter(AccruedPerShare) <= scale * fees
    BY <1>1, <1>2, <2>2, <2>3
  <2> QED
    BY <1>1, <2>3, <2>4 DEF shares, scale, fees
<1> QED
  BY <1>3, <1>4

\* After an accrual the market still covers all debts and the fees still pending.
LEMMA AccruedSolvent ==
  ASSUME RewardsInv
  PROVE  STAKING_SCALE * fee_vault >= SumTo(AccruedOwed, N) + STAKING_SCALE * PendingAfter(AccruedPerShare)
<1>1. TypeOK /\ TotalsMatch /\ AccOrdered /\ RewardsSolvent
  BY DEF RewardsInv, AccountsInv, TypeInv
<1>2. /\ N \in Nat /\ STAKING_SCALE \in Nat \ {0} /\ Growth \in Nat /\ fee_vault \in Nat
      /\ pending_staking_fees \in Nat /\ SharesOf(staking) \in Nat
      /\ ShareOf \in [1..N -> Int] /\ Owed \in [1..N -> Int] /\ AccruedOwed \in [1..N -> Int]
  BY <1>1, RewardTypes
<1>3. \A u \in 1..N : AccruedOwed[u] = Owed[u] + Growth * ShareOf[u]
  BY DEF AccruedOwed, Owed, ShareOf, Users
<1>4. Growth \in Int
  BY <1>2
<1>5. SumTo(AccruedOwed, N) = SumTo(Owed, N) + Growth * SumTo(ShareOf, N)
  BY <1>2, <1>3, <1>4, SumLinear, Zenon
<1>6. SumTo(ShareOf, N) = SharesOf(staking)
  BY <1>1, SharesAddUp
<1>7. SumTo(Owed, N) \in Int
  BY <1>2, SumInt
<1> DEFINE owed == SumTo(Owed, N)
           after == SumTo(AccruedOwed, N)
           added == Growth * SharesOf(staking)
           left == STAKING_SCALE * PendingAfter(AccruedPerShare)
           before == STAKING_SCALE * pending_staking_fees
           held == STAKING_SCALE * fee_vault
<1>8. /\ added \in Int /\ left \in Int /\ before \in Int /\ held \in Int
  BY <1>1, <1>2, AccrualBudget
<1>9. after = owed + added /\ added + left <= before /\ held >= owed + before
  BY <1>1, <1>5, <1>6, AccrualBudget DEF RewardsSolvent
<1> HIDE DEF owed, after, added, left, before, held
<1>10. held >= after + left
  BY <1>7, <1>8, <1>9 DEF owed
<1> QED
  BY <1>10 DEF held, after, left

\* A position is credited at most its debt: the division rounds down.
LEMMA ClaimableBound ==
  ASSUME TypeOK, AccOrdered, NEW u \in Users
  PROVE  /\ Reward(u, AccruedPerShare) \in Nat /\ Claimable(u) \in Nat
         /\ STAKING_SCALE * Claimable(u) <= AccruedOwed[u]
<1> DEFINE scale == STAKING_SCALE
           shares == SharesOf(position[u])
           seen == position[u].acc
           old == staking.acc
           new == AccruedPerShare
           pending == position[u].pending_rewards
           earned == shares * (new - seen)
           reward == earned \div scale
<1>1. /\ scale \in Nat \ {0} /\ shares \in Nat /\ seen \in Nat /\ old \in Nat /\ new \in Nat
      /\ pending \in Nat
  BY RewardTypes
<1>2. new >= old /\ old >= seen
  BY AccruedType DEF AccOrdered
<1>3. Reward(u, AccruedPerShare) = reward /\ Claimable(u) = pending + reward
  BY DEF Reward, Claimable
<1>4. AccruedOwed[u] = (scale * pending + shares * (old - seen)) + (new - old) * shares
  BY DEF AccruedOwed, OwedTo, Growth
<1> HIDE DEF scale, shares, seen, old, new, pending
<1>5. earned \in Nat
  <2>1. new - seen \in Nat
    BY <1>1, <1>2
  <2> QED
    BY <1>1, <2>1
<1>6. shares * (old - seen) + (new - old) * shares = earned
  BY <1>1
<1>7. AccruedOwed[u] = scale * pending + earned
  <2> DEFINE a == shares * (old - seen)
             b == (new - old) * shares
             c == scale * pending
  <2>1. a \in Int /\ b \in Int /\ c \in Int /\ a + b = earned
    BY <1>1, <1>6
  <2>2. AccruedOwed[u] = (c + a) + b
    BY <1>4
  <2> HIDE DEF a, b, c, earned
  <2>3. AccruedOwed[u] = c + earned
    BY <2>1, <2>2, <1>5
  <2> QED
    BY <2>3 DEF c
<1> HIDE DEF earned
<1>8. reward \in Nat /\ scale * reward <= earned
  BY <1>1, <1>5
<1> HIDE DEF reward
<1>9. scale * (pending + reward) = scale * pending + scale * reward
  BY <1>1, <1>8
<1>10. scale * pending \in Int /\ scale * reward \in Int
  BY <1>1, <1>8
<1>11. scale * (pending + reward) <= AccruedOwed[u]
  BY <1>5, <1>7, <1>8, <1>9, <1>10
<1> QED
  BY <1>1, <1>3, <1>8, <1>11 DEF scale

-----------------------------------------------------------------------------
(* Solvency. *)

\* What UpdateStake leaves of the debts: the user's is settled, the others have grown.
LEMMA SettledDebts ==
  ASSUME TypeOK, AccOrdered, NEW user \in Users, NEW staked \in Int, NEW vested \in Int,
         NEW kept \in U64, UpdateStake(user, staked, vested, kept)
  PROVE  /\ AccOrdered'
         /\ pending_staking_fees' = PendingAfter(AccruedPerShare)
         /\ Owed' \in [1..N -> Int]
         /\ Owed'[user] = STAKING_SCALE * kept
         /\ \A u \in Users : u # user => Owed'[u] = AccruedOwed[u]
<1> DEFINE new == AccruedPerShare
           scale == STAKING_SCALE
<1>1. /\ scale \in Nat /\ new \in Nat /\ new >= staking.acc /\ staking.acc \in Nat
      /\ kept \in Nat
  BY RewardTypes, AccruedType DEF U64
<1>2. /\ staking' = Totals(new, staked, vested)
      /\ position' = [position EXCEPT ![user] = Stake(user, new, kept, staked, vested)]
      /\ pending_staking_fees' = PendingAfter(new)
      /\ position[user].amount_staked + staked \in U64
      /\ position[user].total_amount_vested + vested \in U64
  BY DEF UpdateStake, StakeFits
<1> HIDE DEF new, scale
<1>3. staking'.acc = new
  BY <1>2 DEF Totals, TypeOK
<1>4. /\ \A u \in Users : u # user => position'[u] = position[u]
      /\ position'[user].acc = new /\ position'[user].pending_rewards = kept
      /\ position'[user].amount_staked = position[user].amount_staked + staked
      /\ position'[user].total_amount_vested = position[user].total_amount_vested + vested
  BY <1>2 DEF Stake, TypeOK
<1>5. AccOrdered'
  <2>1. \A u \in Users : u # user => position'[u].acc <= new
    <3>1. \A u \in Users : position[u].acc \in Nat /\ position[u].acc <= staking.acc
      BY RewardTypes DEF AccOrdered
    <3> QED
      BY <1>1, <1>4, <3>1
  <2> QED
    BY <1>1, <1>3, <1>4, <2>1 DEF AccOrdered
<1>6. ASSUME NEW u \in Users, u # user
      PROVE  OwedTo(u)' = AccruedOwed[u]
  <2> DEFINE shares == SharesOf(position[u])
             seen == position[u].acc
             old == staking.acc
             pending == position[u].pending_rewards
  <2>1. shares \in Nat /\ seen \in Nat /\ old \in Nat /\ pending \in Nat
    BY RewardTypes
  <2>2. OwedTo(u)' = scale * pending + shares * (new - seen)
    BY <1>3, <1>4, <1>6 DEF OwedTo, SharesOf, scale
  <2>3. AccruedOwed[u] = (scale * pending + shares * (old - seen)) + (new - old) * shares
    BY DEF AccruedOwed, OwedTo, Growth, new, scale
  <2> HIDE DEF shares, seen, old, pending
  <2>4. shares * (new - seen) = shares * (old - seen) + (new - old) * shares
    BY <1>1, <2>1
  <2> DEFINE a == shares * (old - seen)
             b == (new - old) * shares
             c == scale * pending
             d == shares * (new - seen)
  <2>5. a \in Int /\ b \in Int /\ c \in Int /\ d = a + b
    BY <1>1, <2>1, <2>4
  <2>6. OwedTo(u)' = c + d /\ AccruedOwed[u] = (c + a) + b
    BY <2>2, <2>3
  <2> HIDE DEF a, b, c, d
  <2> QED
    BY <2>5, <2>6
<1>7. OwedTo(user)' = scale * kept
  <2> DEFINE shares == SharesOf(position'[user])
  <2>1. shares \in Int
    BY <1>2, <1>4 DEF SharesOf, U64
  <2>2. OwedTo(user)' = scale * kept + shares * (new - new)
    BY <1>3, <1>4 DEF OwedTo, SharesOf, scale
  <2> HIDE DEF shares
  <2>3. shares * (new - new) = 0 /\ scale * kept \in Int
    BY <1>1, <2>1
  <2> QED
    BY <2>2, <2>3
<1>8. scale * kept \in Int
  BY <1>1
<1>9. \A u \in Users : OwedTo(u)' \in Int
  BY <1>6, <1>7, <1>8, RewardTypes
<1>10. Owed' = [u \in Users |-> OwedTo(u)']
  BY DEF Owed
<1>11. Owed' \in [1..N -> Int]
  BY <1>9, <1>10 DEF Users
<1> QED
  BY <1>2, <1>5, <1>6, <1>7, <1>10, <1>11 DEF new, scale

\* UpdateStake keeps the market solvent when what leaves the fee vault was credited.
LEMMA SettleRewards ==
  ASSUME RewardsInv, NEW user \in Users, NEW staked \in Int, NEW vested \in Int,
         NEW kept \in U64, NEW payout \in Nat, kept + payout = Claimable(user),
         UpdateStake(user, staked, vested, kept), fee_vault' = fee_vault - payout
  PROVE  AccOrdered' /\ RewardsSolvent'
<1>1. TypeOK /\ AccOrdered
  BY DEF RewardsInv, AccountsInv, TypeInv
<1>2. /\ N \in Nat /\ user \in 1..N /\ STAKING_SCALE \in Nat /\ kept \in Nat /\ fee_vault \in Nat
      /\ AccruedOwed \in [1..N -> Int]
  BY <1>1, RewardTypes DEF Users, U64
<1>3. /\ AccOrdered' /\ pending_staking_fees' = PendingAfter(AccruedPerShare)
      /\ Owed' \in [1..N -> Int] /\ Owed'[user] = STAKING_SCALE * kept
      /\ \A u \in 1..N : u # user => Owed'[u] = AccruedOwed[u]
  BY <1>1, SettledDebts DEF Users
<1>4. SumTo(Owed', N) = SumTo(AccruedOwed, N) + (Owed'[user] - AccruedOwed[user])
  BY <1>2, <1>3, SumUpdate
<1>5. STAKING_SCALE * (kept + payout) <= AccruedOwed[user]
  BY <1>1, ClaimableBound
<1>6. STAKING_SCALE * fee_vault >= SumTo(AccruedOwed, N) + STAKING_SCALE * PendingAfter(AccruedPerShare)
  BY AccruedSolvent
<1>7. PendingAfter(AccruedPerShare) \in Nat /\ SumTo(AccruedOwed, N) \in Int /\ AccruedOwed[user] \in Int
  BY <1>1, <1>2, AccrualBudget, SumInt
<1> DEFINE scale == STAKING_SCALE
           total == SumTo(AccruedOwed, N)
           debt == AccruedOwed[user]
           left == PendingAfter(AccruedPerShare)
           a == scale * kept
           b == scale * payout
           c == scale * left
           h == scale * fee_vault
<1>8. /\ a \in Int /\ b \in Int /\ c \in Int /\ h \in Int
      /\ scale * (kept + payout) = a + b
      /\ scale * (fee_vault - payout) = h - b
  BY <1>2, <1>7
<1>9. a + b <= debt /\ h >= total + c /\ SumTo(Owed', N) = total + (a - debt)
  BY <1>3, <1>4, <1>5, <1>6, <1>8
<1>10. total \in Int /\ debt \in Int
  BY <1>7
<1> HIDE DEF a, b, c, h, total, debt
<1>11. h - b >= SumTo(Owed', N) + c
  BY <1>8, <1>9, <1>10
<1>12. scale * fee_vault' >= SumTo(Owed', N) + scale * pending_staking_fees'
  BY <1>3, <1>8, <1>11 DEF c
<1> QED
  BY <1>3, <1>12 DEF RewardsSolvent

\* When no debt changes, solvency depends only on the fees that came in.
LEMMA SameDebts ==
  ASSUME RewardsInv, NEW fee \in Nat,
         \A u \in Users : /\ position'[u].acc = position[u].acc
                          /\ position'[u].pending_rewards = position[u].pending_rewards
                          /\ position'[u].amount_staked = position[u].amount_staked
                          /\ position'[u].total_amount_vested = position[u].total_amount_vested,
         staking'.acc = staking.acc,
         fee_vault' = fee_vault + fee, pending_staking_fees' = pending_staking_fees + fee
  PROVE  AccOrdered' /\ RewardsSolvent'
<1>1. TypeOK /\ AccOrdered /\ RewardsSolvent
  BY DEF RewardsInv, AccountsInv, TypeInv
<1>2. AccOrdered'
  BY <1>1 DEF AccOrdered
<1>3. \A u \in Users : OwedTo(u)' = OwedTo(u)
  BY DEF OwedTo, SharesOf
<1>4. Owed' = Owed
  BY <1>3 DEF Owed
<1>5. /\ STAKING_SCALE \in Nat /\ fee_vault \in Nat /\ pending_staking_fees \in Nat /\ N \in Nat
      /\ Owed \in [1..N -> Int]
  BY <1>1, RewardTypes
<1>6. SumTo(Owed, N) \in Int
  BY <1>5, SumInt
<1>7. /\ STAKING_SCALE * (fee_vault + fee) = STAKING_SCALE * fee_vault + STAKING_SCALE * fee
      /\ STAKING_SCALE * (pending_staking_fees + fee)
           = STAKING_SCALE * pending_staking_fees + STAKING_SCALE * fee
  BY <1>5
<1> DEFINE a == STAKING_SCALE * fee_vault
           b == STAKING_SCALE * pending_staking_fees
           c == STAKING_SCALE * fee
           owed == SumTo(Owed, N)
<1>8. a \in Int /\ b \in Int /\ c \in Int /\ owed \in Int
  BY <1>5, <1>6
<1>9. a >= owed + b
  BY <1>1 DEF RewardsSolvent
<1>10. STAKING_SCALE * fee_vault' = a + c /\ STAKING_SCALE * pending_staking_fees' = b + c
  BY <1>7
<1> HIDE DEF a, b, c, owed
<1>11. a + c >= owed + (b + c)
  BY <1>8, <1>9
<1> QED
  BY <1>2, <1>4, <1>10, <1>11 DEF RewardsSolvent, owed

\* Every action keeps the market solvent.
LEMMA StepRewards == RewardsInv /\ [Next]_vars => RewardsInv'
<1> SUFFICES ASSUME RewardsInv, [Next]_vars PROVE RewardsInv'
  OBVIOUS
<1>i. AccountsInv /\ TypeInv /\ TypeOK /\ AccOrdered
  BY DEF RewardsInv, AccountsInv, TypeInv
<1>t. AccountsInv'
  BY <1>i, StepAccounts
<1> SUFFICES AccOrdered' /\ RewardsSolvent'
  BY <1>t DEF RewardsInv
<1>a. fee_vault \in Nat /\ pending_staking_fees \in Nat /\ 0 \in Nat /\ 0 \in Int /\ 0 \in U64
  BY <1>i, StakingAssumption DEF TypeOK, U64
<1>s. ASSUME position' = position, staking'.acc = staking.acc,
             fee_vault' = fee_vault, pending_staking_fees' = pending_staking_fees
      PROVE  AccOrdered' /\ RewardsSolvent'
  BY <1>a, <1>s, SameDebts
<1>u. ASSUME NEW user \in Users, NEW staked \in Int, NEW vested \in Int,
             UpdateStake(user, staked, vested, Claimable(user)), fee_vault' = fee_vault
      PROVE  AccOrdered' /\ RewardsSolvent'
  <2>1. Claimable(user) \in U64 /\ Claimable(user) + 0 = Claimable(user) /\ fee_vault' = fee_vault - 0
    BY <1>a, <1>u DEF UpdateStake, StakeFits, U64
  <2> QED
    BY <1>a, <1>u, <2>1, SettleRewards
<1>1. CASE create_staking
  <2>1. staking'.acc = staking.acc
    BY <1>i, <1>1 DEF create_staking, TypeOK
  <2> QED
    BY <1>s, <1>1, <2>1 DEF create_staking
<1>2. ASSUME NEW user \in Users, create_stake_position(user)
      PROVE  AccOrdered' /\ RewardsSolvent'
  <2>1. \A u \in Users : /\ position'[u].acc = position[u].acc
                         /\ position'[u].pending_rewards = position[u].pending_rewards
                         /\ position'[u].amount_staked = position[u].amount_staked
                         /\ position'[u].total_amount_vested = position[u].total_amount_vested
    BY <1>i, <1>2 DEF create_stake_position, TypeOK
  <2>2. /\ staking'.acc = staking.acc /\ fee_vault' = fee_vault + 0
        /\ pending_staking_fees' = pending_staking_fees + 0
    BY <1>a, <1>2 DEF create_stake_position
  <2> QED
    BY <1>a, <2>1, <2>2, SameDebts
<1>3. ASSUME NEW user \in Users, NEW amount \in Amounts, deposit(user, amount)
      PROVE  AccOrdered' /\ RewardsSolvent'
  <2>1. amount \in Int
    BY StakingAssumption
  <2> QED
    BY <1>a, <1>u, <1>3, <2>1 DEF deposit
<1>4. ASSUME NEW user \in Users, NEW amount \in Amounts, withdraw(user, amount)
      PROVE  AccOrdered' /\ RewardsSolvent'
  <2>1. -amount \in Int
    BY StakingAssumption
  <2> QED
    BY <1>a, <1>u, <1>4, <2>1 DEF withdraw
<1>5. ASSUME NEW user \in Users, claim_staking_rewards(user)
      PROVE  AccOrdered' /\ RewardsSolvent'
  <2>1. UpdateStake(user, 0, 0, 0) /\ fee_vault' = fee_vault - Claimable(user)
    BY <1>5 DEF claim_staking_rewards
  <2>2. Claimable(user) \in Nat /\ 0 + Claimable(user) = Claimable(user)
    BY <2>1 DEF UpdateStake, StakeFits, U64
  <2> QED
    BY <1>a, <2>1, <2>2, SettleRewards
<1>6. ASSUME NEW user \in Users, NEW p \in Plans, NEW schedule \in Schedules, NEW amount \in Amounts,
             create_vesting_plan(user, p, schedule, amount)
      PROVE  AccOrdered' /\ RewardsSolvent'
  <2>1. amount \in Int
    BY StakingAssumption
  <2> QED
    BY <1>a, <1>u, <1>6, <2>1 DEF create_vesting_plan
<1>7. ASSUME NEW p \in Plans, release(p)
      PROVE  AccOrdered' /\ RewardsSolvent'
  <2>1. plan[p].owner \in Users /\ plan[p].owner # NoOwner
    BY <1>i, <1>7 DEF release, TypeOK
  <2>2. Releasable(p) \in Int
    BY <1>i, <2>1, ReleasableType
  <2>3. -Releasable(p) \in Int
    BY <2>2
  <2> QED
    BY <1>a, <1>u, <1>7, <2>1, <2>3 DEF release
<1>8. ASSUME NEW fee \in Fees, FeesArrive(fee)
      PROVE  AccOrdered' /\ RewardsSolvent'
  <2>1. fee \in Nat
    BY StakingAssumption
  <2> QED
    BY <1>8, <2>1, SameDebts DEF FeesArrive
<1>9. CASE Tick
  BY <1>s, <1>9 DEF Tick
<1>10. CASE UNCHANGED vars
  BY <1>s, <1>10 DEF vars
<1> QED
  BY <1>1, <1>2, <1>3, <1>4, <1>5, <1>6, <1>7, <1>8, <1>9, <1>10
     DEF Next, Opening, Deposit, Withdraw, Claim, Vest, Release, Environment

\* Initially nothing is owed.
LEMMA InitRewards == Init => RewardsInv
<1> SUFFICES ASSUME Init PROVE RewardsInv
  OBVIOUS
<1>1. AccountsInv /\ TypeOK
  BY InitAccounts DEF AccountsInv, TypeInv
<1>2. AccOrdered
  BY DEF Init, AccOrdered
<1>3. N \in Nat /\ Owed \in [1..N -> Int] /\ STAKING_SCALE \in Nat
  BY <1>1, <1>2, RewardTypes
<1>4. \A u \in 1..N : Owed[u] = 0
  BY <1>3 DEF Init, Owed, OwedTo, SharesOf, Users
<1>5. SumTo(Owed, N) = 0
  BY <1>3, <1>4, SumOfZeroes
<1>6. RewardsSolvent
  BY <1>3, <1>5 DEF RewardsSolvent, Init
<1> QED
  BY <1>1, <1>2, <1>6 DEF RewardsInv

\* Whatever the order of fees, deposits, withdrawals, releases and claims, the market holds
\* enough quote tokens for everything it owes to stakers and for the unassigned fees.
THEOREM RewardsAlwaysSolvent == Spec => []RewardsSolvent
<1>1. Init => RewardsInv
  BY InitRewards
<1>2. RewardsInv /\ [Next]_vars => RewardsInv'
  BY StepRewards
<1>3. RewardsInv => RewardsSolvent
  BY DEF RewardsInv
<1> QED
  BY <1>1, <1>2, <1>3, PTL DEF Spec

-----------------------------------------------------------------------------
(* Claims can be paid. *)

\* All fees that ever came in are still in the vault or have been paid.
FeesBounded == fee_vault + SumTo(paid, N) <= FeeBound

PayInv == RewardsInv /\ FeesBounded

\* Every action keeps the fees bounded.
LEMMA StepPay == PayInv /\ [Next]_vars => PayInv'
<1> SUFFICES ASSUME PayInv, [Next]_vars PROVE PayInv'
  OBVIOUS
<1>i. RewardsInv /\ TypeOK /\ FeesBounded
  BY DEF PayInv, RewardsInv, AccountsInv, TypeInv
<1>t. RewardsInv' /\ TypeOK'
  BY <1>i, StepRewards DEF RewardsInv, AccountsInv, TypeInv
<1> SUFFICES FeesBounded'
  BY <1>t DEF PayInv
<1>1. ASSUME NEW user \in Users, claim_staking_rewards(user)
      PROVE  FeesBounded'
  <2> DEFINE amount == Claimable(user)
  <2>1. amount \in Nat
    BY <1>1 DEF claim_staking_rewards, UpdateStake, StakeFits, U64
  <2>2. fee_vault' = fee_vault - amount /\ paid' = [paid EXCEPT ![user] = @ + amount]
    BY <1>1 DEF claim_staking_rewards
  <2> HIDE DEF amount
  <2>3. /\ N \in Nat /\ user \in 1..N /\ fee_vault \in Int /\ FeeBound \in Int
        /\ paid \in [1..N -> Int] /\ paid' \in [1..N -> Int]
    <3>1. N \in Nat /\ user \in 1..N /\ FeeBound \in Int
      BY StakingAssumption DEF Users
    <3>2. fee_vault \in Int /\ paid \in [1..N -> Int]
      BY <1>i DEF TypeOK, Users
    <3>3. paid' \in [1..N -> Int]
      BY <1>t DEF TypeOK, Users
    <3> QED
      BY <3>1, <3>2, <3>3
  <2>4. (\A u \in 1..N : u # user => paid'[u] = paid[u]) /\ paid'[user] - paid[user] = amount
    BY <2>1, <2>2, <2>3
  <2>5. SumTo(paid', N) = SumTo(paid, N) + amount
    BY <2>3, <2>4, SumUpdate
  <2>6. SumTo(paid, N) \in Int
    BY <2>3, SumInt
  <2> QED
    BY <1>i, <2>1, <2>2, <2>3, <2>5, <2>6 DEF FeesBounded
<1>2. ASSUME NEW fee \in Fees, FeesArrive(fee)
      PROVE  FeesBounded'
  <2>1. /\ fee \in Nat /\ fee_vault \in Int /\ FeeBound \in Int /\ SumTo(paid, N) \in Int
    <3>1. N \in Nat /\ paid \in [1..N -> Int]
      BY <1>i, StakingAssumption DEF TypeOK, Users
    <3> QED
      BY <1>i, <3>1, SumInt, StakingAssumption DEF TypeOK
  <2>2. fee_vault + SumTo(paid, N) + fee <= FeeBound /\ fee_vault' = fee_vault + fee /\ paid' = paid
    BY <1>2 DEF FeesArrive
  <2> QED
    BY <2>1, <2>2 DEF FeesBounded
<1>3. ASSUME UNCHANGED <<fee_vault, paid>> PROVE FeesBounded'
  BY <1>i, <1>3 DEF FeesBounded
<1> QED
  BY <1>1, <1>2, <1>3
     DEF Next, Opening, Deposit, Withdraw, Claim, Vest, Release, Environment, vars, create_staking,
         create_stake_position, deposit, withdraw, create_vesting_plan, release, Tick

\* Initially there are no fees.
LEMMA InitPay == Init => PayInv
<1> SUFFICES ASSUME Init PROVE PayInv
  OBVIOUS
<1>1. N \in Nat /\ paid \in [1..N -> Int] /\ \A u \in 1..N : paid[u] = 0
  BY StakingAssumption DEF Init, Users
<1>2. SumTo(paid, N) = 0
  BY <1>1, SumOfZeroes
<1> QED
  BY <1>2, InitRewards, StakingAssumption DEF PayInv, FeesBounded, Init

\* A solvent market can pay every claim, and every claim fits a u64.
LEMMA SolventPays == PayInv => ClaimsPayable
<1> SUFFICES ASSUME PayInv, NEW u \in Users
             PROVE  /\ Reward(u, AccruedPerShare) \in U64
                    /\ Claimable(u) \in U64 /\ Claimable(u) <= fee_vault
  BY DEF ClaimsPayable
<1>1. TypeOK /\ AccOrdered /\ RewardsInv /\ FeesBounded
  BY DEF PayInv, RewardsInv, AccountsInv, TypeInv
<1>2. /\ N \in Nat /\ u \in 1..N /\ STAKING_SCALE \in Nat \ {0} /\ fee_vault \in Nat
      /\ AccruedOwed \in [1..N -> Nat] /\ position[u].pending_rewards \in Nat
  BY <1>1, RewardTypes DEF Users
<1>3. /\ Reward(u, AccruedPerShare) \in Nat /\ Claimable(u) \in Nat
      /\ STAKING_SCALE * Claimable(u) <= AccruedOwed[u]
  BY <1>1, ClaimableBound
<1>4. AccruedOwed[u] <= SumTo(AccruedOwed, N) /\ SumTo(AccruedOwed, N) \in Nat /\ AccruedOwed[u] \in Nat
  BY <1>2, SumNat
<1>5. STAKING_SCALE * fee_vault >= SumTo(AccruedOwed, N)
  <2>1. PendingAfter(AccruedPerShare) \in Nat
    BY <1>1, AccrualBudget
  <2> DEFINE left == STAKING_SCALE * PendingAfter(AccruedPerShare)
             held == STAKING_SCALE * fee_vault
  <2>2. left \in Nat /\ held \in Nat
    BY <1>2, <2>1
  <2>3. held >= SumTo(AccruedOwed, N) + left
    BY <1>1, AccruedSolvent
  <2> HIDE DEF left, held
  <2>4. held >= SumTo(AccruedOwed, N)
    BY <1>4, <2>2, <2>3
  <2> QED
    BY <2>4 DEF held
<1>6. Claimable(u) <= fee_vault
  <2> DEFINE claim == Claimable(u)
             scale == STAKING_SCALE
  <2>1. claim \in Nat /\ scale \in Nat \ {0}
    BY <1>2, <1>3
  <2>2. scale * claim <= scale * fee_vault
    <3> DEFINE a == scale * claim
               b == scale * fee_vault
    <3>1. a \in Nat /\ b \in Nat
      BY <1>2, <2>1
    <3>2. a <= AccruedOwed[u] /\ b >= SumTo(AccruedOwed, N)
      BY <1>3, <1>5
    <3> HIDE DEF a, b
    <3>3. a <= b
      BY <1>4, <3>1, <3>2
    <3> QED
      BY <3>3 DEF a, b
  <2> HIDE DEF claim, scale
  <2>3. claim <= fee_vault
    BY <1>2, <2>1, <2>2
  <2> QED
    BY <2>3 DEF claim
<1>7. fee_vault <= U64_MAX
  <2>1. paid \in [1..N -> Nat] /\ FeeBound \in Nat /\ FeeBound <= U64_MAX /\ U64_MAX \in Nat
    BY <1>1, StakingAssumption DEF TypeOK, Users
  <2>2. SumTo(paid, N) \in Nat
    BY <1>2, <2>1, SumNat
  <2> QED
    BY <1>1, <1>2, <2>1, <2>2 DEF FeesBounded
<1>8. Reward(u, AccruedPerShare) <= Claimable(u)
  BY <1>2, <1>3 DEF Claimable
<1>9. U64_MAX \in Nat
  BY StakingAssumption
<1> QED
  BY <1>2, <1>3, <1>6, <1>7, <1>8, <1>9 DEF U64

\* Every position can claim at any time: accrual never overflows, and the last staker to
\* claim still finds the quote tokens.
THEOREM ClaimsAlwaysPayable == Spec => []ClaimsPayable
<1>1. Init => PayInv
  BY InitPay
<1>2. PayInv /\ [Next]_vars => PayInv'
  BY StepPay
<1>3. PayInv => ClaimsPayable
  BY SolventPays
<1> QED
  BY <1>1, <1>2, <1>3, PTL DEF Spec

-----------------------------------------------------------------------------
(* No operation takes rewards away. *)

\* Division by a positive number is monotone.
LEMMA DivisionMonotone ==
  ASSUME NEW a \in Nat, NEW b \in Nat, NEW c \in Nat \ {0}, a <= b
  PROVE  a \div c <= b \div c /\ a \div c \in Nat /\ b \div c \in Nat
OBVIOUS

\* A higher accumulator earns a position at least as much.
LEMMA RewardMonotone ==
  ASSUME NEW shares \in Nat, NEW seen \in Nat, NEW low \in Nat, NEW high \in Nat,
         seen <= low, low <= high
  PROVE  (shares * (low - seen)) \div STAKING_SCALE <= (shares * (high - seen)) \div STAKING_SCALE
<1>1. STAKING_SCALE \in Nat \ {0}
  BY StakingAssumption
<1>2. low - seen \in Nat /\ high - seen \in Nat /\ low - seen <= high - seen
  OBVIOUS
<1>3. shares * (low - seen) \in Nat /\ shares * (high - seen) \in Nat
      /\ shares * (low - seen) <= shares * (high - seen)
  BY <1>2
<1> QED
  BY <1>1, <1>3, DivisionMonotone

\* What an accrual would make of an accumulator; AccruedPerShare is this of the present state.
Accrued(acc, fees, shares) ==
  IF shares > 0 /\ fees > 0 THEN acc + (fees * STAKING_SCALE) \div shares ELSE acc

\* An accrual never lowers the accumulator, and more fees never yield less.
LEMMA AccruedMonotone ==
  ASSUME NEW acc \in Nat, NEW few \in Nat, NEW many \in Nat, few <= many, NEW shares \in Nat
  PROVE  /\ Accrued(acc, few, shares) \in Nat /\ acc <= Accrued(acc, few, shares)
         /\ Accrued(acc, few, shares) <= Accrued(acc, many, shares)
<1>1. STAKING_SCALE \in Nat
  BY StakingAssumption
<1>2. /\ few * STAKING_SCALE \in Nat /\ many * STAKING_SCALE \in Nat
      /\ few * STAKING_SCALE <= many * STAKING_SCALE
  BY <1>1
<1> DEFINE low == (few * STAKING_SCALE) \div shares
           high == (many * STAKING_SCALE) \div shares
<1>3. shares > 0 => low <= high /\ low \in Nat /\ high \in Nat
  BY <1>2, DivisionMonotone
<1>4. /\ Accrued(acc, few, shares) = IF shares > 0 /\ few > 0 THEN acc + low ELSE acc
      /\ Accrued(acc, many, shares) = IF shares > 0 /\ many > 0 THEN acc + high ELSE acc
  BY DEF Accrued
<1> HIDE DEF low, high
<1> QED
  BY <1>3, <1>4

\* The accumulator that an accrual would reach never falls from one state to the next.
LEMMA StepAccrual ==
  ASSUME TypeInv, [Next]_vars
  PROVE  AccruedPerShare \in Nat /\ AccruedPerShare' \in Nat /\ AccruedPerShare' >= AccruedPerShare
<1>i. TypeOK /\ TypeOK'
  BY StepType DEF TypeInv
<1>n. /\ staking.acc \in Nat /\ pending_staking_fees \in Nat /\ SharesOf(staking) \in Nat
      /\ staking'.acc \in Nat /\ pending_staking_fees' \in Nat /\ SharesOf(staking') \in Nat
  BY <1>i DEF TypeOK, SharesOf, U64
<1>a. /\ AccruedPerShare = Accrued(staking.acc, pending_staking_fees, SharesOf(staking))
      /\ AccruedPerShare' = Accrued(staking'.acc, pending_staking_fees', SharesOf(staking'))
  BY DEF AccruedPerShare, Accrued, SharesOf
<1>b. AccruedPerShare \in Nat /\ AccruedPerShare' \in Nat /\ AccruedPerShare' >= staking'.acc
  <2>1. /\ Accrued(staking.acc, pending_staking_fees, SharesOf(staking)) \in Nat
        /\ Accrued(staking'.acc, pending_staking_fees', SharesOf(staking')) \in Nat
        /\ Accrued(staking'.acc, pending_staking_fees', SharesOf(staking')) >= staking'.acc
    <3>1. ASSUME NEW acc \in Nat, NEW fees \in Nat, NEW shares \in Nat
          PROVE  Accrued(acc, fees, shares) \in Nat /\ Accrued(acc, fees, shares) >= acc
      <4>1. fees <= fees
        OBVIOUS
      <4> QED
        BY <4>1, AccruedMonotone
    <3> QED
      BY <1>n, <3>1
  <2> QED
    BY <1>a, <2>1
<1>1. ASSUME NEW user \in Users, NEW staked, NEW vested, NEW kept, UpdateStake(user, staked, vested, kept)
      PROVE  AccruedPerShare' >= AccruedPerShare
  <2>1. staking' = Totals(AccruedPerShare, staked, vested)
    BY <1>1 DEF UpdateStake, StakeFits
  <2>2. staking'.acc = AccruedPerShare
    BY <1>i, <2>1 DEF Totals, TypeOK
  <2> QED
    BY <1>b, <2>2
<1>2. ASSUME staking'.acc = staking.acc, SharesOf(staking') = SharesOf(staking),
             pending_staking_fees' >= pending_staking_fees
      PROVE  AccruedPerShare' >= AccruedPerShare
  <2>1. Accrued(staking.acc, pending_staking_fees, SharesOf(staking))
          <= Accrued(staking.acc, pending_staking_fees', SharesOf(staking))
    BY <1>n, <1>2, AccruedMonotone
  <2> QED
    BY <1>a, <1>b, <1>2, <2>1
<1>3. ASSUME create_staking PROVE AccruedPerShare' >= AccruedPerShare
  <2>1. /\ staking'.acc = staking.acc /\ pending_staking_fees' = pending_staking_fees
        /\ SharesOf(staking') = SharesOf(staking)
    BY <1>i, <1>3 DEF create_staking, SharesOf, TypeOK
  <2>2. pending_staking_fees' >= pending_staking_fees
    BY <1>n, <2>1
  <2> QED
    BY <1>2, <2>1, <2>2
<1>4. ASSUME NEW fee \in Fees, FeesArrive(fee) PROVE AccruedPerShare' >= AccruedPerShare
  <2>1. pending_staking_fees' >= pending_staking_fees
    BY <1>4, <1>n, StakingAssumption DEF FeesArrive
  <2> QED
    BY <1>2, <1>4, <2>1 DEF FeesArrive
<1>5. ASSUME UNCHANGED <<staking, pending_staking_fees>> PROVE AccruedPerShare' >= AccruedPerShare
  BY <1>n, <1>2, <1>5
<1>6. ASSUME NEW p \in Plans, release(p) PROVE AccruedPerShare' >= AccruedPerShare
  <2>1. plan[p].owner \in Users
    BY <1>i, <1>6 DEF release, TypeOK
  <2> QED
    BY <1>1, <1>6, <2>1 DEF release
<1>7. AccruedPerShare' >= AccruedPerShare
  BY <1>1, <1>3, <1>4, <1>5, <1>6
     DEF Next, Opening, Deposit, Withdraw, Claim, Vest, Release, Environment, vars,
         create_stake_position, deposit, withdraw, claim_staking_rewards, create_vesting_plan, Tick
<1> QED
  BY <1>b, <1>7

\* A position that is not touched can claim at least as much afterwards.
LEMMA UntouchedKeeps ==
  ASSUME TypeInv, AccOrdered, [Next]_vars, NEW u \in Users,
         /\ position'[u].acc = position[u].acc /\ position'[u].pending_rewards = position[u].pending_rewards
         /\ SharesOf(position'[u]) = SharesOf(position[u])
  PROVE  Claimable(u)' >= Claimable(u)
<1>1. TypeOK
  BY DEF TypeInv
<1>2. /\ SharesOf(position[u]) \in Nat /\ position[u].acc \in Nat /\ position[u].pending_rewards \in Nat
      /\ staking.acc \in Nat /\ STAKING_SCALE \in Nat \ {0}
  BY <1>1, RewardTypes
<1>3. AccruedPerShare \in Nat /\ AccruedPerShare' \in Nat /\ AccruedPerShare' >= AccruedPerShare
  BY StepAccrual
<1>4. AccruedPerShare >= staking.acc /\ staking.acc >= position[u].acc
  BY <1>1, AccruedType DEF AccOrdered
<1> DEFINE shares == SharesOf(position[u])
           seen == position[u].acc
           low == AccruedPerShare
           high == AccruedPerShare'
           before == (shares * (low - seen)) \div STAKING_SCALE
           after == (shares * (high - seen)) \div STAKING_SCALE
<1>5. Claimable(u) = position[u].pending_rewards + before
  BY DEF Claimable, Reward
<1>6. Claimable(u)' = position[u].pending_rewards + after
  BY DEF Claimable, Reward, SharesOf
<1> HIDE DEF low, high, shares, seen
<1>7. seen <= low /\ low <= high /\ shares \in Nat /\ seen \in Nat /\ low \in Nat /\ high \in Nat
  BY <1>2, <1>3, <1>4 DEF low, high, seen, shares
<1>8. before <= after
  BY <1>7, RewardMonotone
<1>9. before \in Int /\ after \in Int
  <2>1. shares * (low - seen) \in Int /\ shares * (high - seen) \in Int
    BY <1>7
  <2> QED
    BY <1>2, <2>1
<1> HIDE DEF before, after
<1> QED
  BY <1>2, <1>5, <1>6, <1>8, <1>9

\* A position whose operation credits its rewards, or pays them out, loses nothing.
LEMMA TouchedKeeps ==
  ASSUME TypeInv, AccOrdered, [Next]_vars, NEW user \in Users, NEW staked \in Int, NEW vested \in Int,
         NEW kept \in U64, NEW payout \in Nat, kept + payout = Claimable(user),
         UpdateStake(user, staked, vested, kept)
  PROVE  /\ Claimable(user)' + payout >= Claimable(user)
         /\ \A u \in Users : u # user => Claimable(u)' >= Claimable(u)
<1>1. TypeOK
  BY DEF TypeInv
<1>2. /\ staking' = Totals(AccruedPerShare, staked, vested)
      /\ position' = [position EXCEPT ![user] = Stake(user, AccruedPerShare, kept, staked, vested)]
      /\ position[user].amount_staked + staked \in U64
      /\ position[user].total_amount_vested + vested \in U64
  BY DEF UpdateStake, StakeFits
<1>3. /\ \A u \in Users : u # user => position'[u] = position[u]
      /\ position'[user].acc = AccruedPerShare /\ position'[user].pending_rewards = kept
      /\ position'[user].amount_staked = position[user].amount_staked + staked
      /\ position'[user].total_amount_vested = position[user].total_amount_vested + vested
  BY <1>1, <1>2 DEF Stake, TypeOK
<1>4. \A u \in Users : u # user => Claimable(u)' >= Claimable(u)
  BY <1>3, UntouchedKeeps
<1>5. Claimable(user)' >= kept
  <2> DEFINE shares == SharesOf(position'[user])
             low == AccruedPerShare
             high == AccruedPerShare'
             more == shares * (high - low)
             reward == more \div STAKING_SCALE
  <2>1. /\ low \in Nat /\ high \in Nat /\ high >= low /\ shares \in Nat /\ kept \in Nat
        /\ STAKING_SCALE \in Nat \ {0}
    <3>1. shares \in Nat /\ kept \in Nat
      BY <1>2, <1>3 DEF SharesOf, U64
    <3> QED
      BY <3>1, StepAccrual, StakingAssumption
  <2>2. Claimable(user)' = kept + reward
    BY <1>3 DEF Claimable, Reward, SharesOf
  <2> HIDE DEF shares, low, high
  <2>3. high - low \in Nat
    BY <2>1
  <2>4. more \in Nat
    BY <2>1, <2>3
  <2> HIDE DEF more
  <2>5. reward \in Nat
    BY <2>1, <2>4
  <2> HIDE DEF reward
  <2> QED
    BY <2>1, <2>2, <2>5
<1>6. kept \in Nat /\ Claimable(user)' \in Int
  <2> DEFINE shares == SharesOf(position'[user])
             more == shares * (AccruedPerShare' - AccruedPerShare)
  <2>1. kept \in Nat /\ shares \in Nat
    BY <1>2, <1>3 DEF SharesOf, U64
  <2>2. Claimable(user)' = kept + more \div STAKING_SCALE
    BY <1>3 DEF Claimable, Reward, SharesOf
  <2>3. more \in Int
    BY <2>1, StepAccrual
  <2> HIDE DEF more
  <2>4. more \div STAKING_SCALE \in Int
    BY <2>3, StakingAssumption
  <2> QED
    BY <2>1, <2>2, <2>4
<1> QED
  BY <1>4, <1>5, <1>6

\* No step takes away rewards a position has earned.
LEMMA StepKeepsRewards ==
  RewardsInv /\ [Next]_vars
    => [\A user \in Users : Claimable(user)' + paid'[user] >= Claimable(user) + paid[user]]_vars
<1> SUFFICES ASSUME RewardsInv, [Next]_vars, NEW w \in Users
             PROVE  Claimable(w)' + paid'[w] >= Claimable(w) + paid[w]
  OBVIOUS
<1>i. TypeInv /\ TypeOK /\ AccOrdered /\ TypeOK' /\ AccOrdered'
  BY StepType, StepRewards DEF RewardsInv, AccountsInv, TypeInv
<1>n. paid[w] \in Nat /\ Claimable(w) \in Nat
  BY <1>i, ClaimableBound DEF TypeOK
<1>c. Claimable(w)' \in Int
  <2>1. /\ position'[w].pending_rewards \in Nat /\ position'[w].acc \in Nat
        /\ SharesOf(position'[w]) \in Nat
    BY <1>i DEF TypeOK, SharesOf, U64
  <2> DEFINE more == SharesOf(position'[w]) * (AccruedPerShare' - position'[w].acc)
  <2>2. more \in Int
    BY <1>i, <2>1, StepAccrual
  <2>3. Claimable(w)' = position'[w].pending_rewards + more \div STAKING_SCALE
    BY DEF Claimable, Reward, SharesOf
  <2> HIDE DEF more
  <2>4. more \div STAKING_SCALE \in Int
    BY <2>2, StakingAssumption
  <2> QED
    BY <2>1, <2>3, <2>4
<1>k. ASSUME Claimable(w)' >= Claimable(w), paid'[w] = paid[w]
      PROVE  Claimable(w)' + paid'[w] >= Claimable(w) + paid[w]
  BY <1>k, <1>n, <1>c
<1>u. ASSUME NEW user \in Users, NEW staked \in Int, NEW vested \in Int,
             UpdateStake(user, staked, vested, Claimable(user)), paid' = paid
      PROVE  Claimable(w)' + paid'[w] >= Claimable(w) + paid[w]
  <2>1. Claimable(user) \in U64 /\ Claimable(user) \in Nat /\ 0 \in Nat /\ Claimable(user) + 0 = Claimable(user)
    BY <1>u DEF UpdateStake, StakeFits, U64
  <2>2. /\ Claimable(user)' + 0 >= Claimable(user)
        /\ \A u \in Users : u # user => Claimable(u)' >= Claimable(u)
    BY <1>i, <1>u, <2>1, TouchedKeeps
  <2>3. CASE w = user
    BY <1>c, <1>k, <1>u, <2>2, <2>3
  <2>4. CASE w # user
    BY <1>k, <1>u, <2>2, <2>4
  <2> QED
    BY <2>3, <2>4
<1>s. ASSUME \A u \in Users : /\ position'[u].acc = position[u].acc
                              /\ position'[u].pending_rewards = position[u].pending_rewards
                              /\ SharesOf(position'[u]) = SharesOf(position[u]),
             paid' = paid
      PROVE  Claimable(w)' + paid'[w] >= Claimable(w) + paid[w]
  BY <1>i, <1>k, <1>s, UntouchedKeeps
<1>1. ASSUME NEW user \in Users, create_stake_position(user)
      PROVE  Claimable(w)' + paid'[w] >= Claimable(w) + paid[w]
  BY <1>i, <1>s, <1>1 DEF create_stake_position, TypeOK, SharesOf
<1>2. ASSUME NEW user \in Users, claim_staking_rewards(user)
      PROVE  Claimable(w)' + paid'[w] >= Claimable(w) + paid[w]
  <2> DEFINE amount == Claimable(user)
  <2>1. UpdateStake(user, 0, 0, 0) /\ paid' = [paid EXCEPT ![user] = @ + amount]
    BY <1>2 DEF claim_staking_rewards
  <2>2. amount \in Nat /\ 0 + amount = amount /\ 0 \in U64 /\ 0 \in Int
    BY <2>1, StakingAssumption DEF UpdateStake, StakeFits, U64
  <2>3. /\ Claimable(user)' + amount >= amount
        /\ \A u \in Users : u # user => Claimable(u)' >= Claimable(u)
    BY <1>i, <2>1, <2>2, TouchedKeeps
  <2>4. CASE w = user
    <3>1. paid'[w] = paid[w] + amount /\ Claimable(w)' + amount >= amount /\ Claimable(w) = amount
      <4> HIDE DEF amount
      <4>1. paid'[w] = paid[w] + amount
        BY <1>i, <2>1, <2>4 DEF TypeOK
      <4> QED
        BY <2>3, <2>4, <4>1 DEF amount
    <3> HIDE DEF amount
    <3> QED
      BY <1>c, <1>n, <2>2, <3>1
  <2>5. CASE w # user
    <3>1. paid'[w] = paid[w]
      <4> HIDE DEF amount
      <4> QED
        BY <1>i, <2>1, <2>5 DEF TypeOK
    <3> QED
      BY <1>k, <2>3, <2>5, <3>1
  <2> QED
    BY <2>4, <2>5
<1>3. ASSUME NEW p \in Plans, release(p)
      PROVE  Claimable(w)' + paid'[w] >= Claimable(w) + paid[w]
  <2>1. plan[p].owner \in Users /\ plan[p].owner # NoOwner
    BY <1>i, <1>3 DEF release, TypeOK
  <2>2. -Releasable(p) \in Int /\ 0 \in Int
    BY <1>i, <2>1, ReleasableType
  <2> QED
    BY <1>u, <1>3, <2>1, <2>2 DEF release
<1>4. ASSUME NEW user \in Users, NEW amount \in Amounts,
             \/ deposit(user, amount) \/ withdraw(user, amount)
             \/ \E p \in Plans, schedule \in Schedules : create_vesting_plan(user, p, schedule, amount)
      PROVE  Claimable(w)' + paid'[w] >= Claimable(w) + paid[w]
  <2>1. amount \in Int /\ -amount \in Int /\ 0 \in Int
    BY StakingAssumption
  <2> QED
    BY <1>u, <1>4, <2>1 DEF deposit, withdraw, create_vesting_plan
<1>5. ASSUME UNCHANGED <<position, paid>>
      PROVE  Claimable(w)' + paid'[w] >= Claimable(w) + paid[w]
  BY <1>s, <1>5
<1> QED
  BY <1>1, <1>2, <1>3, <1>4, <1>5
     DEF Next, Opening, Deposit, Withdraw, Claim, Vest, Release, Environment, vars,
         create_staking, FeesArrive, Tick

\* No operation of anybody ever reduces what a position has earned, except its own claim,
\* which pays it.
THEOREM RewardsOnlyGrow == Spec => RewardsNeverShrink
<1>1. Init => RewardsInv
  BY InitRewards
<1>2. RewardsInv /\ [Next]_vars => RewardsInv'
  BY StepRewards
<1>3. RewardsInv /\ [Next]_vars
        => [\A user \in Users : Claimable(user)' + paid'[user] >= Claimable(user) + paid[user]]_vars
  BY StepKeepsRewards
<1> QED
  BY <1>1, <1>2, <1>3, PTL DEF Spec, RewardsNeverShrink
-----------------------------------------------------------------------------
(* Deposits earn nothing from the past. *)

\* The tokens of users and stakers are those the users started with: they bound the shares,
\* so that an accrual of any fee raises the accumulator.
TokensConserved == SumTo(user_base, N) + stake_vault = N * InitialBase

TokensInv == AccountsInv /\ TokensConserved

\* A transfer between a user and the market conserves their tokens.
LEMMA TransferConserves ==
  ASSUME TypeOK, TokensConserved, NEW user \in Users, NEW amount \in Int, TransferStake(user, amount)
  PROVE  TokensConserved'
<1>1. N \in Nat /\ user \in 1..N
  BY StakingAssumption DEF Users
<1>2. user_base \in [Users -> Nat] /\ user_base' \in [Users -> Nat] /\ stake_vault \in Nat
  BY TransferStakeType DEF TypeOK
<1>3. user_base \in [1..N -> Int] /\ user_base' \in [1..N -> Int]
  BY <1>2 DEF Users
<1>4. /\ \A i \in 1..N : i # user => user_base'[i] = user_base[i]
      /\ user_base'[user] - user_base[user] = -amount
      /\ stake_vault' = stake_vault + amount
  BY <1>1, <1>3 DEF TransferStake, TransferFits
<1>5. SumTo(user_base', N) = SumTo(user_base, N) + (user_base'[user] - user_base[user])
  BY <1>1, <1>3, <1>4, SumUpdate
<1>6. SumTo(user_base, N) \in Int
  BY <1>1, <1>3, SumInt
<1> QED
  BY <1>2, <1>4, <1>5, <1>6 DEF TokensConserved

\* Initially every token is with its user.
LEMMA InitTokens == Init => TokensInv
<1> SUFFICES ASSUME Init PROVE TokensInv
  OBVIOUS
<1>1. N \in Nat /\ InitialBase \in Int /\ N * InitialBase \in Int
  BY StakingAssumption
<1>2. user_base \in [1..N -> Int] /\ \A i \in 1..N : user_base[i] = InitialBase
  BY <1>1 DEF Init, Users
<1>3. SumTo(user_base, N) = N * InitialBase
  BY <1>1, <1>2, SumConstant
<1>4. TokensConserved
  BY <1>1, <1>3 DEF Init, TokensConserved
<1> QED
  BY <1>4, InitAccounts DEF TokensInv

\* Every action conserves the tokens.
LEMMA StepTokens == TokensInv /\ [Next]_vars => TokensInv'
<1> SUFFICES ASSUME TokensInv, [Next]_vars PROVE TokensConserved'
  BY StepAccounts DEF TokensInv
<1>i. TypeInv /\ TypeOK /\ TokensConserved
  BY DEF TokensInv, AccountsInv, TypeInv
<1>1. ASSUME NEW user \in Users, NEW amount \in Amounts,
             \/ deposit(user, amount) \/ withdraw(user, amount)
             \/ \E p \in Plans, schedule \in Schedules : create_vesting_plan(user, p, schedule, amount)
      PROVE  TokensConserved'
  <2>1. amount \in Int /\ -amount \in Int
    BY StakingAssumption
  <2>2. TransferStake(user, amount) \/ TransferStake(user, -amount)
    BY <1>1 DEF deposit, withdraw, create_vesting_plan
  <2> QED
    BY <1>i, <2>1, <2>2, TransferConserves
<1>2. ASSUME NEW p \in Plans, release(p)
      PROVE  TokensConserved'
  <2>1. plan[p].owner \in Users /\ plan[p].owner # NoOwner
    BY <1>i, <1>2 DEF release, TypeOK
  <2>2. -Releasable(p) \in Int
    BY <1>i, <2>1, ReleasableType
  <2> QED
    BY <1>i, <1>2, <2>1, <2>2, TransferConserves DEF release
<1>3. ASSUME UNCHANGED <<user_base, stake_vault>>
      PROVE  TokensConserved'
  BY <1>i, <1>3 DEF TokensConserved
<1> QED
  BY <1>1, <1>2, <1>3
     DEF Next, Opening, Deposit, Withdraw, Claim, Vest, Release, Environment, vars,
         create_staking, create_stake_position, claim_staking_rewards, FeesArrive, Tick

\* There are no more shares than STAKING_SCALE.
LEMMA SharesBounded ==
  ASSUME SupplyFits, TokensInv
  PROVE  SharesOf(staking) \in Nat /\ SharesOf(staking) <= STAKING_SCALE
<1>1. TypeOK /\ StakesBacked /\ TokensConserved
  BY DEF TokensInv, AccountsInv, TypeInv
<1>2. N \in Nat /\ N * InitialBase <= STAKING_SCALE /\ N * InitialBase \in Nat /\ STAKING_SCALE \in Nat
  BY StakingAssumption DEF SupplyFits
<1>3. user_base \in [1..N -> Nat] /\ stake_vault \in Nat
  BY <1>1 DEF TypeOK, Users
<1>4. SumTo(user_base, N) \in Nat
  BY <1>2, <1>3, SumNat
<1> QED
  BY <1>1, <1>2, <1>3, <1>4 DEF StakesBacked, TokensConserved

\* While there are shares an accrual takes up all pending fees: none stay to be credited
\* again, also not when the accumulator starts at 0.
LEMMA AccrualComplete ==
  ASSUME SupplyFits, TokensInv, SharesOf(staking) > 0
  PROVE  PendingAfter(AccruedPerShare) = 0
<1> DEFINE shares == SharesOf(staking)
           fees == pending_staking_fees
           fund == fees * STAKING_SCALE
           part == fund \div shares
<1>1. shares \in Nat /\ shares <= STAKING_SCALE /\ shares > 0
  BY SharesBounded
<1>2. fees \in Nat /\ staking.acc \in Nat /\ STAKING_SCALE \in Nat \ {0}
  BY StakingAssumption DEF TokensInv, AccountsInv, TypeInv, TypeOK
<1>3. CASE fees > 0
  <2>1. fund \in Nat /\ fund >= shares
    <3> HIDE DEF shares
    <3> QED
      BY <1>1, <1>2, <1>3
  <2>2. part \in Nat /\ part > 0
    <3> HIDE DEF fund, shares
    <3> QED
      BY <1>1, <2>1
  <2>3. AccruedPerShare = staking.acc + part
    BY <1>1, <1>3 DEF AccruedPerShare
  <2> HIDE DEF part
  <2> QED
    BY <1>2, <2>2, <2>3 DEF PendingAfter
<1>4. CASE ~(fees > 0)
  BY <1>2, <1>4 DEF PendingAfter
<1> QED
  BY <1>3, <1>4

\* What a position can claim after its own operation is what the operation left pending.
LEMMA TouchedClaims ==
  ASSUME SupplyFits, TokensInv, SharesOf(staking) > 0, NEW user \in Users, NEW staked \in Int, NEW vested \in Int,
         NEW kept \in U64, UpdateStake(user, staked, vested, kept)
  PROVE  /\ Claimable(user)' = kept
         /\ \A u \in Users : u # user => SharesOf(position'[u]) = SharesOf(position[u])
<1>1. TypeOK
  BY DEF TokensInv, AccountsInv, TypeInv
<1>2. /\ staking' = Totals(AccruedPerShare, staked, vested)
      /\ pending_staking_fees' = PendingAfter(AccruedPerShare)
      /\ position' = [position EXCEPT ![user] = Stake(user, AccruedPerShare, kept, staked, vested)]
      /\ position[user].amount_staked + staked \in U64
      /\ position[user].total_amount_vested + vested \in U64
  BY DEF UpdateStake, StakeFits
<1>3. /\ \A u \in Users : u # user => position'[u] = position[u]
      /\ position'[user].acc = AccruedPerShare /\ position'[user].pending_rewards = kept
      /\ position'[user].amount_staked = position[user].amount_staked + staked
      /\ position'[user].total_amount_vested = position[user].total_amount_vested + vested
      /\ staking'.acc = AccruedPerShare
  BY <1>1, <1>2 DEF Stake, Totals, TypeOK
<1>4. pending_staking_fees' = 0
  BY <1>2, AccrualComplete
<1>5. AccruedPerShare' = AccruedPerShare
  BY <1>3, <1>4 DEF AccruedPerShare
<1> DEFINE shares == SharesOf(position'[user])
           low == AccruedPerShare
<1>6. low \in Nat /\ shares \in Nat /\ kept \in Nat /\ STAKING_SCALE \in Nat \ {0}
  BY <1>1, <1>2, <1>3, AccruedType, StakingAssumption DEF SharesOf, U64
<1>7. Claimable(user)' = kept + (shares * (low - low)) \div STAKING_SCALE
  BY <1>3, <1>5 DEF Claimable, Reward, SharesOf
<1> HIDE DEF shares, low
<1>8. shares * (low - low) = 0
  BY <1>6
<1>9. 0 \div STAKING_SCALE = 0
  BY <1>6
<1> QED
  BY <1>3, <1>6, <1>7, <1>8, <1>9

\* No step that changes the shares of a position raises what it can claim.
LEMMA StepNotRetroactive ==
  SupplyFits /\ TokensInv /\ AccOrdered /\ [Next]_vars
    => [\A user \in Users :
          SharesOf(staking) > 0 /\ SharesOf(position'[user]) # SharesOf(position[user])
            => Claimable(user)' <= Claimable(user)]_vars
<1> SUFFICES ASSUME SupplyFits, TokensInv, AccOrdered, [Next]_vars, NEW w \in Users, SharesOf(staking) > 0,
                    SharesOf(position'[w]) # SharesOf(position[w])
             PROVE  Claimable(w)' <= Claimable(w)
  OBVIOUS
<1>i. TypeInv /\ TypeOK
  BY DEF TokensInv, AccountsInv, TypeInv
<1>n. Claimable(w) \in Nat
  BY <1>i, ClaimableBound
<1>u. ASSUME NEW user \in Users, NEW staked \in Int, NEW vested \in Int,
             UpdateStake(user, staked, vested, Claimable(user))
      PROVE  Claimable(w)' <= Claimable(w)
  <2>1. Claimable(user) \in U64
    BY <1>u DEF UpdateStake, StakeFits
  <2>2. /\ Claimable(user)' = Claimable(user)
        /\ \A u \in Users : u # user => SharesOf(position'[u]) = SharesOf(position[u])
    BY <1>u, <2>1, TouchedClaims
  <2> QED
    BY <1>n, <2>2
<1>s. ASSUME \A u \in Users : SharesOf(position'[u]) = SharesOf(position[u])
      PROVE  FALSE
  BY <1>s
<1>1. ASSUME NEW user \in Users, create_stake_position(user)
      PROVE  Claimable(w)' <= Claimable(w)
  BY <1>i, <1>s, <1>1 DEF create_stake_position, TypeOK, SharesOf
<1>2. ASSUME NEW user \in Users, claim_staking_rewards(user)
      PROVE  Claimable(w)' <= Claimable(w)
  <2>1. UpdateStake(user, 0, 0, 0) /\ 0 \in U64 /\ 0 \in Int
    BY <1>2, StakingAssumption DEF claim_staking_rewards, U64
  <2>2. /\ Claimable(user)' = 0
        /\ \A u \in Users : u # user => SharesOf(position'[u]) = SharesOf(position[u])
    BY <2>1, TouchedClaims
  <2> QED
    BY <1>n, <2>2
<1>3. ASSUME NEW p \in Plans, release(p)
      PROVE  Claimable(w)' <= Claimable(w)
  <2>1. plan[p].owner \in Users /\ plan[p].owner # NoOwner
    BY <1>i, <1>3 DEF release, TypeOK
  <2>2. -Releasable(p) \in Int /\ 0 \in Int
    BY <1>i, <2>1, ReleasableType
  <2> QED
    BY <1>u, <1>3, <2>1, <2>2 DEF release
<1>4. ASSUME NEW user \in Users, NEW amount \in Amounts,
             \/ deposit(user, amount) \/ withdraw(user, amount)
             \/ \E p \in Plans, schedule \in Schedules : create_vesting_plan(user, p, schedule, amount)
      PROVE  Claimable(w)' <= Claimable(w)
  <2>1. amount \in Int /\ -amount \in Int /\ 0 \in Int
    BY StakingAssumption
  <2> QED
    BY <1>u, <1>4, <2>1 DEF deposit, withdraw, create_vesting_plan
<1>5. ASSUME UNCHANGED position
      PROVE  Claimable(w)' <= Claimable(w)
  BY <1>s, <1>5
<1> QED
  BY <1>1, <1>2, <1>3, <1>4, <1>5
     DEF Next, Opening, Deposit, Withdraw, Claim, Vest, Release, Environment, vars,
         create_staking, FeesArrive, Tick

\* Once there are shares, neither a deposit nor a withdrawal nor a vesting operation earns
\* anything from fees that arrived before it, for any number of users, fees and amounts.
THEOREM NothingRetroactive ==
  ASSUME SupplyFits
  PROVE  Spec => NoRetroactiveRewards
<1>1. Init => TokensInv /\ RewardsInv
  BY InitTokens, InitRewards
<1>2. TokensInv /\ RewardsInv /\ [Next]_vars => TokensInv' /\ RewardsInv'
  BY StepTokens, StepRewards
<1>3. TokensInv /\ RewardsInv /\ [Next]_vars
        => [\A user \in Users :
              SharesOf(staking) > 0 /\ SharesOf(position'[user]) # SharesOf(position[user])
                => Claimable(user)' <= Claimable(user)]_vars
  BY StepNotRetroactive DEF RewardsInv
<1> QED
  BY <1>1, <1>2, <1>3, PTL DEF Spec, NoRetroactiveRewards

-----------------------------------------------------------------------------
(* Stakers can leave. *)

\* An account that was opened stays open, and every plan has open accounts to release through.
PlansOpen == \A p \in Plans : plan[p].owner # NoOwner => staking.open /\ position[plan[p].owner].open

LeaveInv == PayInv /\ PlansMatch /\ NeverReleasedEarly /\ PlansOpen

\* No operation closes an account.
LEMMA StaysOpen ==
  TypeOK /\ [Next]_vars
    => /\ staking.open => staking'.open
       /\ \A u \in Users : position[u].open => position'[u].open
<1> SUFFICES ASSUME TypeOK, [Next]_vars
             PROVE  /\ staking.open => staking'.open
                    /\ \A u \in Users : position[u].open => position'[u].open
  OBVIOUS
<1>1. ASSUME NEW user, NEW staked, NEW vested, NEW kept, UpdateStake(user, staked, vested, kept)
      PROVE  staking'.open = staking.open /\ \A u \in Users : position'[u].open = position[u].open
  BY <1>1 DEF UpdateStake, Totals, Stake, TypeOK
<1>2. CASE Opening
  BY <1>2 DEF Opening, create_staking, create_stake_position, TypeOK
<1>3. CASE Deposit \/ Withdraw \/ Claim \/ Vest
  BY <1>1, <1>3 DEF Deposit, Withdraw, Claim, Vest, deposit, withdraw, claim_staking_rewards, create_vesting_plan
<1>4. CASE Release
  BY <1>1, <1>4 DEF Release, release
<1>5. CASE Environment \/ UNCHANGED vars
  BY <1>5 DEF Environment, FeesArrive, Tick, vars
<1> QED
  BY <1>2, <1>3, <1>4, <1>5 DEF Next

\* A plan is made for a position that is open, and both stay.
LEMMA StepOpen == TypeOK /\ TypeOK' /\ PlansOpen /\ [Next]_vars => PlansOpen'
<1> SUFFICES ASSUME TypeOK, TypeOK', PlansOpen, [Next]_vars, NEW p \in Plans, plan'[p].owner # NoOwner
             PROVE  staking'.open /\ position'[plan'[p].owner].open
  BY DEF PlansOpen
<1>1. /\ staking.open => staking'.open
      /\ \A u \in Users : position[u].open => position'[u].open
  BY StaysOpen
<1>2. CASE plan'[p].owner = plan[p].owner
  <2>1. plan[p].owner \in Users /\ staking.open /\ position[plan[p].owner].open
    BY <1>2 DEF PlansOpen, TypeOK
  <2> QED
    BY <1>1, <1>2, <2>1
<1>3. CASE plan'[p].owner # plan[p].owner
  <2>1. ASSUME NEW q \in Plans, release(q) PROVE plan'[p].owner = plan[p].owner
    BY <2>1 DEF release, TypeOK
  <2>2. PICK user \in Users, q \in Plans, schedule \in Schedules, amount \in Amounts :
          create_vesting_plan(user, q, schedule, amount)
    BY <1>3, <2>1
       DEF Next, Opening, Deposit, Withdraw, Claim, Vest, Release, Environment, vars, create_staking,
           create_stake_position, deposit, withdraw, claim_staking_rewards, FeesArrive, Tick
  <2>3. staking.open /\ position[user].open
    BY <2>2 DEF create_vesting_plan, UpdateStake, StakeFits
  <2>4. plan'[p].owner = user
    BY <1>3, <2>2 DEF create_vesting_plan, TypeOK
  <2> QED
    BY <1>1, <2>3, <2>4
<1> QED
  BY <1>2, <1>3

\* The linear share of a plan never falls behind what was released of it.
LEMMA DueWhole ==
  ASSUME TypeInv, NeverReleasedEarly, NEW p \in Plans, plan[p].owner # NoOwner
  PROVE  /\ Releasable(p) \in Nat
         /\ Releasable(p) <= plan[p].amount_vested - plan[p].amount_released
<1> DEFINE vested == plan[p].amount_vested
           released == plan[p].amount_released
           duration == plan[p].vesting_duration
           cliff == plan[p].cliff_duration
           elapsed == Elapsed(p)
           share == (vested * elapsed) \div duration
<1>1. /\ vested \in Nat /\ released \in Nat /\ released <= vested
      /\ duration \in Nat \ {0} /\ cliff \in Nat \ {0} /\ elapsed \in Int /\ cliff < duration
      /\ released > 0 => elapsed >= cliff /\ (elapsed >= duration \/ released * duration <= vested * elapsed)
  BY DEF TypeInv, TypeOK, PlansLegal, NeverReleasedEarly, Elapsed
<1>2. Releasable(p) = CASE elapsed < cliff -> 0
                        [] elapsed >= duration -> vested - released
                        [] OTHER -> share - released
  BY DEF Releasable
<1>3. CASE elapsed < cliff
  <2>1. Releasable(p) = 0
    BY <1>1, <1>2, <1>3
  <2> HIDE DEF vested, released
  <2> QED
    BY <1>1, <2>1 DEF vested, released
<1>4. CASE elapsed >= cliff /\ elapsed >= duration
  <2>1. Releasable(p) = vested - released
    BY <1>1, <1>2, <1>4
  <2> QED
    BY <1>1, <2>1
<1>5. CASE elapsed >= cliff /\ elapsed < duration
  <2>1. Releasable(p) = share - released
    BY <1>1, <1>2, <1>5
  <2>2. elapsed \in Nat
    BY <1>1, <1>5
  <2> DEFINE product == vested * elapsed
  <2>3. share \in Nat /\ share <= vested
    BY <1>1, <1>5, <2>2, LinearShare
  <2>4. released <= share
    <3>1. product \in Nat /\ released * duration \in Nat
      BY <1>1, <2>2
    <3>2. CASE released = 0
      <4> HIDE DEF share
      <4> QED
        BY <2>3, <3>2
    <3>3. CASE released > 0
      <4>1. released * duration <= product
        BY <1>1, <1>5, <3>3
      <4> HIDE DEF product, released, duration
      <4>2. released <= product \div duration
        BY <1>1, <3>1, <4>1
      <4> QED
        BY <4>2 DEF product
    <3> QED
      BY <1>1, <3>2, <3>3
  <2> HIDE DEF share, vested, released
  <2> QED
    BY <1>1, <2>1, <2>3, <2>4 DEF vested, released
<1> QED
  BY <1>1, <1>3, <1>4, <1>5

\* Any part of what a position has staked, and of what it has vested, can be taken back.
LEMMA TakingFits ==
  ASSUME PayInv, NEW user \in Users, staking.open, position[user].open
  PROVE  /\ \A amount \in 0..position[user].amount_staked :
              StakeFits(user, -amount, 0) /\ TransferFits(user, -amount)
         /\ \A amount \in 0..position[user].total_amount_vested :
              StakeFits(user, 0, -amount) /\ TransferFits(user, -amount)
<1>1. TypeOK /\ TotalsMatch /\ StakesBacked /\ ClaimsPayable /\ N \in Nat /\ U64_MAX \in Nat
  BY SolventPays, StakingAssumption DEF PayInv, RewardsInv, AccountsInv, TypeInv
<1>2. StakedOf \in [1..N -> Nat] /\ VestedOf \in [1..N -> Nat]
  BY <1>1 DEF StakedOf, VestedOf, TypeOK, U64, Users
<1>3. /\ position[user].amount_staked <= staking.amount_staked
      /\ position[user].total_amount_vested <= staking.total_amount_vested
  <2>1. StakedOf[user] <= SumTo(StakedOf, N) /\ VestedOf[user] <= SumTo(VestedOf, N) /\ user \in 1..N
    BY <1>1, <1>2, SumNat DEF Users
  <2> QED
    BY <1>1, <2>1 DEF StakedOf, VestedOf, TotalsMatch
<1>4. /\ position[user].amount_staked \in U64 /\ position[user].total_amount_vested \in U64
      /\ staking.amount_staked \in U64 /\ staking.total_amount_vested \in U64
      /\ user_base[user] \in Nat
      /\ stake_vault = staking.amount_staked + staking.total_amount_vested
      /\ Reward(user, AccruedPerShare) \in U64 /\ Claimable(user) \in U64
  BY <1>1 DEF TypeOK, StakesBacked, SharesOf, ClaimsPayable
<1> QED
  BY <1>1, <1>3, <1>4 DEF StakeFits, TransferFits, U64

\* What makes leaving possible.
LEMMA LeaveFits == LeaveInv => StakersCanLeave
<1> SUFFICES ASSUME LeaveInv PROVE StakersCanLeave
  OBVIOUS
<1>1. /\ PayInv /\ TypeInv /\ TypeOK /\ PlansMatch /\ NeverReleasedEarly /\ PlansOpen
      /\ ClaimsPayable /\ P \in Nat
  BY SolventPays, StakingAssumption DEF LeaveInv, PayInv, RewardsInv, AccountsInv, TypeInv
<1>2. ASSUME NEW user \in Users, staking.open, position[user].open
      PROVE  /\ Claimable(user) <= fee_vault
             /\ \A amount \in 0..position[user].amount_staked :
                  StakeFits(user, -amount, 0) /\ TransferFits(user, -amount)
  BY <1>1, <1>2, TakingFits DEF ClaimsPayable
<1>3. ASSUME NEW p \in Plans, plan[p].owner # NoOwner
      PROVE  /\ Releasable(p) >= 0
             /\ StakeFits(plan[p].owner, 0, -Releasable(p)) /\ TransferFits(plan[p].owner, -Releasable(p))
  <2> DEFINE user == plan[p].owner
             left == UnreleasedOf(user)
  <2>1. user \in Users /\ staking.open /\ position[user].open
    BY <1>1, <1>3 DEF TypeOK, PlansOpen
  <2>2. Releasable(p) \in Nat /\ Releasable(p) <= plan[p].amount_vested - plan[p].amount_released
    BY <1>1, <1>3, DueWhole
  <2>3. left \in [1..P -> Nat] /\ left[p] = plan[p].amount_vested - plan[p].amount_released /\ p \in 1..P
    <3>1. \A q \in Plans : plan[q].amount_vested - plan[q].amount_released \in Nat
      BY <1>1 DEF TypeOK, NeverReleasedEarly
    <3> QED
      BY <3>1 DEF UnreleasedOf, Plans
  <2>4. left[p] <= SumTo(left, P) /\ SumTo(left, P) = position[user].total_amount_vested
    BY <1>1, <2>1, <2>3, SumNat DEF PlansMatch
  <2>5. position[user].total_amount_vested \in Nat
    BY <1>1, <2>1, StakingAssumption DEF TypeOK, U64
  <2> HIDE DEF left, user
  <2>6. Releasable(p) \in 0..position[user].total_amount_vested
    BY <2>2, <2>3, <2>4, <2>5
  <2>7. StakeFits(user, 0, -Releasable(p)) /\ TransferFits(user, -Releasable(p))
    BY <1>1, <2>1, <2>6, TakingFits
  <2> QED
    BY <2>2, <2>7 DEF user
<1> QED
  BY <1>2, <1>3 DEF StakersCanLeave

LEMMA InitLeave == Init => LeaveInv
<1> SUFFICES ASSUME Init PROVE LeaveInv
  OBVIOUS
<1>1. PayInv /\ PlansMatch
  BY InitPay, InitPlans DEF PlansInv
<1>2. NeverReleasedEarly /\ PlansOpen
  BY DEF Init, NeverReleasedEarly, PlansOpen
<1> QED
  BY <1>1, <1>2 DEF LeaveInv

LEMMA StepLeave == LeaveInv /\ [Next]_vars => LeaveInv'
<1> SUFFICES ASSUME LeaveInv, [Next]_vars PROVE LeaveInv'
  OBVIOUS
<1>1. PayInv /\ TypeInv /\ TypeOK /\ PlansMatch /\ NeverReleasedEarly /\ PlansOpen
  BY DEF LeaveInv, PayInv, RewardsInv, AccountsInv, TypeInv
<1>2. PayInv' /\ PlansMatch' /\ NeverReleasedEarly'
  BY <1>1, StepPay, StepPlans, StepVesting DEF PlansInv, VestingInv
<1>3. TypeOK'
  BY <1>1, StepType DEF TypeInv
<1> QED
  BY <1>1, <1>2, <1>3, StepOpen DEF LeaveInv

\* Nobody is locked in: claims, withdrawals of any part of a stake and releases of what is due
\* never fail for a checked operation or for lack of tokens, for any number of users and plans
\* (staking_manager.rs, state/staking.rs, state/vesting.rs; the product in vesting.rs:47 apart).
THEOREM StakersAlwaysLeave == Spec => []StakersCanLeave
<1> QED
  BY InitLeave, StepLeave, LeaveFits, PTL DEF Spec

\* The end of a schedule brings all the rest, whatever was released before or failed to be.
THEOREM LastReleasePaysAll ==
  Spec => [](\A p \in Plans : plan[p].owner # NoOwner /\ Elapsed(p) >= plan[p].vesting_duration =>
               /\ ReleaseFits(p) /\ Releasable(p) = plan[p].amount_vested - plan[p].amount_released
               /\ StakeFits(plan[p].owner, 0, -Releasable(p)) /\ TransferFits(plan[p].owner, -Releasable(p)))
<1> DEFINE Paid == \A p \in Plans : plan[p].owner # NoOwner /\ Elapsed(p) >= plan[p].vesting_duration =>
               /\ ReleaseFits(p) /\ Releasable(p) = plan[p].amount_vested - plan[p].amount_released
               /\ StakeFits(plan[p].owner, 0, -Releasable(p)) /\ TransferFits(plan[p].owner, -Releasable(p))
<1>1. LeaveInv => Paid
  <2> SUFFICES ASSUME LeaveInv, NEW p \in Plans, plan[p].owner # NoOwner, Elapsed(p) >= plan[p].vesting_duration
               PROVE  /\ ReleaseFits(p) /\ Releasable(p) = plan[p].amount_vested - plan[p].amount_released
                      /\ StakeFits(plan[p].owner, 0, -Releasable(p)) /\ TransferFits(plan[p].owner, -Releasable(p))
    OBVIOUS
  <2>1. ReleaseFits(p)
    BY DEF ReleaseFits
  <2>2. Releasable(p) = plan[p].amount_vested - plan[p].amount_released
    <3>1. /\ Elapsed(p) \in Int /\ plan[p].cliff_duration \in Int /\ plan[p].vesting_duration \in Int
          /\ plan[p].vesting_duration > plan[p].cliff_duration
      BY DEF LeaveInv, PayInv, RewardsInv, AccountsInv, TypeInv, TypeOK, PlansLegal, Elapsed
    <3>2. ~(Elapsed(p) < plan[p].cliff_duration)
      BY <3>1
    <3> QED
      BY <3>2 DEF Releasable
  <2> QED
    BY <2>1, <2>2, LeaveFits DEF StakersCanLeave
<1> QED
  BY <1>1, InitLeave, StepLeave, PTL DEF Spec
=============================================================================
