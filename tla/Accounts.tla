------------------------------ MODULE Accounts ------------------------------
(***************************************************************************)
(* Which accounts an instruction may bring together.  A Solana instruction *)
(* names every account it works on; the #[account(...)] constraints are    *)
(* what ties them to each other.  Here the accounts are free parameters,   *)
(* the constraints are guards, and the amounts, which Market and Staking   *)
(* compute, are any amounts those modules allow: a sale and a claim take   *)
(* what their pot holds at most (Backed, RewardsSolvent).                  *)
(*                                                                         *)
(* A market is a PDA of its base mint: the mint is named like its market,  *)
(* and the base token of one market may be the quote token of another.     *)
(* The staking account of a market and the position of a market and user   *)
(* can be opened by anybody at any time and are taken to be open.          *)
(***************************************************************************)
EXTENDS Integers, FiniteSets, Sums

CONSTANTS
  Users,
  Markets,
  QuoteMints,       \* mints that are not the base token of a market
  Taxed,            \* those of them whose transfers lose a unit on the way
  Plans,            \* VestingPlan accounts
  Supply,           \* supply of a market
  InitialQuote,     \* balance of each user in each of QuoteMints
  Amounts,          \* amounts that move
  None

\* Addresses of different kinds differ: a user is not a market's PDA, nor a referral account.
ASSUME AccountsAssumption ==
  /\ IsFiniteSet(Users) /\ IsFiniteSet(Plans) /\ None \notin Markets \X Users
  /\ Taxed \subseteq QuoteMints /\ QuoteMints \cap Markets = {} /\ Users \cap Markets = {}
  /\ \A user \in Users : <<"referral", user>> \notin Users \cup Markets
  /\ Supply \in Nat /\ InitialQuote \in Nat /\ Amounts \subseteq Nat \ {0}

VARIABLES
  market,           \* the Market accounts and the amounts they account for
  staking,          \* shares in each MarketStaking account
  position,         \* amount_staked and total_amount_vested of the StakePosition accounts
  plan,             \* the VestingPlan accounts: their position and what is left to release
  referral_account, \* the users who have a ReferralAccount
  balance           \* balance[mint][owner]: the token accounts

vars == <<market, staking, position, plan, referral_account, balance>>

Mints == QuoteMints \cup Markets
Positions == Markets \X Users
ReferralAccount(user) == <<"referral", user>>
Owners == Users \cup Markets \cup {ReferralAccount(user) : user \in Users}

NoMarket == [open |-> FALSE, creator |-> None, quote_token_mint |-> None, base_reserve |-> 0,
             backing |-> 0, pending_creator_fees |-> 0, staking_fees |-> 0]

Init ==
  /\ market = [m \in Markets |-> NoMarket]
  /\ staking = [m \in Markets |-> 0]
  /\ position = [pos \in Positions |-> [amount_staked |-> 0, total_amount_vested |-> 0]]
  /\ plan = [p \in Plans |-> [stake_position |-> None, left |-> 0]]
  /\ referral_account = {}
  /\ balance = [mint \in Mints |-> [owner \in Owners |->
                  IF mint \in QuoteMints /\ owner \in Users THEN InitialQuote ELSE 0]]

-----------------------------------------------------------------------------
(* Transfers. *)

Received(mint, amount) == IF mint \in Taxed /\ amount > 0 THEN amount - 1 ELSE amount

\* transfer_checked: the balances after a transfer of a mint between two of its accounts.
Move(balances, mint, from, to, amount) ==
  LET paid == [balances EXCEPT ![mint][from] = @ - amount]
  IN  [paid EXCEPT ![mint][to] = @ + Received(mint, amount)]

CanPay(mint, from, amount) == balance[mint][from] >= amount

-----------------------------------------------------------------------------
(* Markets and swaps. *)

\* Mutant: any mint may be the quote token.
check_mint_extensions_any(mint) == TRUE

check_mint_extensions(mint) == mint \notin Taxed

\* The mint exists when it is not the base token of a market to come.
create_market(creator, m, quote_token_mint) ==
  /\ ~market[m].open
  /\ quote_token_mint \in Markets => market[quote_token_mint].open
  /\ check_mint_extensions(quote_token_mint)
  /\ market' = [market EXCEPT ![m] =
       [open |-> TRUE, creator |-> creator, quote_token_mint |-> quote_token_mint,
        base_reserve |-> Supply, backing |-> 0, pending_creator_fees |-> 0, staking_fees |-> 0]]
  /\ balance' = [balance EXCEPT ![m][m] = Supply]
  /\ UNCHANGED <<staking, position, plan, referral_account>>

\* Mutant: the quote mint is not compared with the market's.
HasMints_loose(m, base_token_mint, quote_token_mint) ==
  market[m].open /\ base_token_mint = m

\* has_one = base_token_mint and has_one = quote_token_mint of a market.
HasMints(m, base_token_mint, quote_token_mint) ==
  /\ market[m].open
  /\ base_token_mint = m /\ quote_token_mint = market[m].quote_token_mint

\* A purchase.  The user pays from an own account and names any account of the base mint to
\* receive; `kept` stays with the market as fees, `shared` goes to the referral account,
\* which may be any token account: a transfer of a fee to another mint's would fail.  What the
\* protocol gets goes the same way, to one of these accounts, and is left out.
swap_buy(user, m, base_token_mint, quote_token_mint, receiver, referral, base_amount, quote_amount, fee) ==
  /\ HasMints(m, base_token_mint, quote_token_mint)
  /\ base_amount <= market[m].base_reserve
  /\ fee.creator + fee.staking + fee.referral <= quote_amount
  /\ fee.referral > 0 => referral.mint = quote_token_mint
  /\ CanPay(quote_token_mint, user, quote_amount) /\ CanPay(base_token_mint, m, base_amount)
  /\ fee.referral <= balance[quote_token_mint][m] + Received(quote_token_mint, quote_amount)
  /\ market' = [market EXCEPT
       ![m].base_reserve = @ - base_amount,
       ![m].backing = @ + quote_amount - fee.creator - fee.staking - fee.referral,
       ![m].pending_creator_fees = @ + fee.creator, ![m].staking_fees = @ + fee.staking]
  /\ LET paid == Move(balance, quote_token_mint, user, m, quote_amount)
         bought == Move(paid, base_token_mint, m, receiver, base_amount)
     IN  balance' = IF fee.referral > 0
                    THEN Move(bought, quote_token_mint, m, referral.owner, fee.referral)
                    ELSE bought
  /\ UNCHANGED <<staking, position, plan, referral_account>>

\* A sale: what it pays is backed, and there is no fee on it.
swap_sell(user, m, base_token_mint, quote_token_mint, receiver, base_amount, quote_amount) ==
  /\ HasMints(m, base_token_mint, quote_token_mint)
  /\ quote_amount <= market[m].backing
  /\ CanPay(base_token_mint, user, base_amount) /\ CanPay(quote_token_mint, m, quote_amount)
  /\ market' = [market EXCEPT ![m].base_reserve = @ + base_amount, ![m].backing = @ - quote_amount]
  /\ balance' = Move(Move(balance, base_token_mint, user, m, base_amount),
                     quote_token_mint, m, receiver, quote_amount)
  /\ UNCHANGED <<staking, position, plan, referral_account>>

claim_creator_fees(creator, m, quote_token_mint) ==
  LET amount == market[m].pending_creator_fees IN
  /\ HasMints(m, m, quote_token_mint) /\ creator = market[m].creator
  /\ CanPay(quote_token_mint, m, amount)
  /\ market' = [market EXCEPT ![m].pending_creator_fees = 0]
  /\ balance' = Move(balance, quote_token_mint, m, creator, amount)
  /\ UNCHANGED <<staking, position, plan, referral_account>>

update_creator(creator, m, new_creator) ==
  /\ market[m].open /\ creator = market[m].creator
  /\ market' = [market EXCEPT ![m].creator = new_creator]
  /\ UNCHANGED <<staking, position, plan, referral_account, balance>>

-----------------------------------------------------------------------------
(* Staking: s is the staking account, pos the stake position that is passed. *)

\* Mutant: any staking account will do.
StakeAccounts_any_staking(user, m, s, pos) ==
  market[m].open /\ pos = <<m, user>>

\* Mutant: the position may be somebody else's.
StakeAccounts_any_user(user, m, s, pos) ==
  market[m].open /\ s = m /\ pos[1] = m

\* has_one = market on staking and position, has_one = user on the position.
StakeAccounts(user, m, s, pos) ==
  /\ market[m].open
  /\ s = m /\ pos[1] = m /\ pos[2] = user

\* has_one = base_token_mint on the market.
\* Mutant: the mint may be another one.
BaseMint_any(m, base_token_mint) == TRUE

BaseMint(m, base_token_mint) == base_token_mint = m

\* Mutant: nothing compares what is taken back with what is there.
UpdateStake_unchecked(user, m, s, pos, staked, vested) ==
  /\ StakeAccounts(user, m, s, pos)
  /\ staking' = [staking EXCEPT ![s] = @ + staked + vested]
  /\ position' = [position EXCEPT ![pos] = [amount_staked |-> @.amount_staked + staked,
                                           total_amount_vested |-> @.total_amount_vested + vested]]

\* The user stakes (a negative amount takes back), directly or under a plan.
UpdateStake(user, m, s, pos, staked, vested) ==
  /\ StakeAccounts(user, m, s, pos)
  /\ position[pos].amount_staked + staked >= 0 /\ position[pos].total_amount_vested + vested >= 0
  /\ staking[s] + staked + vested >= 0
  /\ staking' = [staking EXCEPT ![s] = @ + staked + vested]
  /\ position' = [position EXCEPT ![pos] = [amount_staked |-> @.amount_staked + staked,
                                           total_amount_vested |-> @.total_amount_vested + vested]]

deposit(user, m, s, pos, base_token_mint, amount) ==
  /\ BaseMint(m, base_token_mint) /\ CanPay(base_token_mint, user, amount)
  /\ UpdateStake(user, m, s, pos, amount, 0)
  /\ balance' = Move(balance, base_token_mint, user, m, amount)
  /\ UNCHANGED <<market, plan, referral_account>>

withdraw(user, m, s, pos, base_token_mint, amount) ==
  /\ BaseMint(m, base_token_mint) /\ CanPay(base_token_mint, m, amount)
  /\ UpdateStake(user, m, s, pos, -amount, 0)
  /\ balance' = Move(balance, base_token_mint, m, user, amount)
  /\ UNCHANGED <<market, plan, referral_account>>

claim_staking_rewards(user, m, s, pos, quote_token_mint, amount) ==
  /\ StakeAccounts(user, m, s, pos) /\ HasMints(m, m, quote_token_mint)
  /\ amount <= market[m].staking_fees /\ CanPay(quote_token_mint, m, amount)
  /\ market' = [market EXCEPT ![m].staking_fees = @ - amount]
  /\ balance' = Move(balance, quote_token_mint, m, user, amount)
  /\ UNCHANGED <<staking, position, plan, referral_account>>

create_vesting_plan(user, m, s, pos, p, base_token_mint, amount) ==
  /\ BaseMint(m, base_token_mint) /\ CanPay(base_token_mint, user, amount)
  /\ plan[p].stake_position = None
  /\ plan' = [plan EXCEPT ![p] = [stake_position |-> pos, left |-> amount]]
  /\ UpdateStake(user, m, s, pos, 0, amount)
  /\ balance' = Move(balance, base_token_mint, user, m, amount)
  /\ UNCHANGED <<market, referral_account>>

\* Mutant: the plan may belong to another position.
PlanOf_any(p, pos) == plan[p].stake_position # None

\* has_one = stake_position on the vesting plan.
PlanOf(p, pos) == plan[p].stake_position = pos

release(user, m, s, pos, p, base_token_mint, amount) ==
  /\ PlanOf(p, pos) /\ amount <= plan[p].left
  /\ BaseMint(m, base_token_mint) /\ CanPay(base_token_mint, m, amount)
  /\ plan' = [plan EXCEPT ![p].left = @ - amount]
  /\ UpdateStake(user, m, s, pos, 0, -amount)
  /\ balance' = Move(balance, base_token_mint, m, user, amount)
  /\ UNCHANGED <<market, referral_account>>

-----------------------------------------------------------------------------
(* Referrals. *)

create_referral_account(user, referrer) ==
  /\ referrer \notin referral_account
  /\ referral_account' = referral_account \cup {referrer}
  /\ UNCHANGED <<market, staking, position, plan, balance>>

\* Mutant: the signer is not compared with the account's referrer.
claim_referral_fees_any(user, referrer, quote_token_mint) ==
  LET from == ReferralAccount(referrer) IN
  /\ referrer \in referral_account
  /\ balance' = Move(balance, quote_token_mint, from, user, balance[quote_token_mint][from])
  /\ UNCHANGED <<market, staking, position, plan, referral_account>>

\* The whole balance of the referral account in the mint that is named goes to its referrer.
claim_referral_fees(user, referrer, quote_token_mint) ==
  LET from == ReferralAccount(referrer) IN
  /\ referrer \in referral_account /\ user = referrer
  /\ balance' = Move(balance, quote_token_mint, from, user, balance[quote_token_mint][from])
  /\ UNCHANGED <<market, staking, position, plan, referral_account>>

-----------------------------------------------------------------------------
\* A purchase's fee goes to at most one of the parties here: it is small.
Fees == [creator : {0, 1}, staking : {0}, referral : {0}]
          \cup [creator : {0}, staking : {0, 1}, referral : {0}]
          \cup [creator : {0}, staking : {0}, referral : {0, 1}]

TokenAccounts == [mint : Mints, owner : Owners]

\* Bounds: who receives what a swap pays out, and whose accounts referral fees go to.
Receivers(m) == Users \cup {m}
ReferralOwners == Markets \cup {ReferralAccount(user) : user \in Users}

Launch(user) == \E m \in Markets, mint \in Mints : create_market(user, m, mint)
Buy(user) ==
  \E m \in Markets, base_mint, quote_mint \in Mints :
    /\ HasMints(m, base_mint, quote_mint)
    /\ \E base_amount, quote_amount \in Amounts, fee \in Fees, receiver \in Receivers(m) :
         IF fee.referral = 0
         THEN swap_buy(user, m, base_mint, quote_mint, receiver, None, base_amount, quote_amount, fee)
         ELSE \E referral \in [mint : Mints, owner : ReferralOwners] :
                swap_buy(user, m, base_mint, quote_mint, receiver, referral, base_amount, quote_amount, fee)
Sell(user) ==
  \E m \in Markets, base_mint, quote_mint \in Mints :
    /\ HasMints(m, base_mint, quote_mint)
    /\ \E base_amount, quote_amount \in Amounts, receiver \in Receivers(m) :
         swap_sell(user, m, base_mint, quote_mint, receiver, base_amount, quote_amount)
Create(user) ==
  \E m \in Markets : \/ \E new_creator \in Users : update_creator(user, m, new_creator)
                     \/ \E mint \in Mints : claim_creator_fees(user, m, mint)
Stake(user) ==
  \E m, s \in Markets, pos \in Positions :
    /\ StakeAccounts(user, m, s, pos)
    /\ \E mint \in Mints, amount \in Amounts :
         \/ deposit(user, m, s, pos, mint, amount)
         \/ withdraw(user, m, s, pos, mint, amount)
         \/ claim_staking_rewards(user, m, s, pos, mint, amount)
         \/ \E p \in Plans : \/ create_vesting_plan(user, m, s, pos, p, mint, amount)
                             \/ release(user, m, s, pos, p, mint, amount)
Refer(user) ==
  \E referrer \in Users : \/ create_referral_account(user, referrer)
                          \/ \E mint \in Mints : claim_referral_fees(user, referrer, mint)

\* An instruction signed by a user.
Signed(user) == Launch(user) \/ Buy(user) \/ Sell(user) \/ Create(user) \/ Stake(user) \/ Refer(user)

Next == \E user \in Users : Signed(user)

Spec == Init /\ [][Next]_vars

-----------------------------------------------------------------------------
(* Properties. *)

TypeOK ==
  /\ market \in [Markets -> [open : BOOLEAN, creator : Users \cup {None},
                             quote_token_mint : Mints \cup {None}, base_reserve : Nat,
                             backing : Nat, pending_creator_fees : Nat, staking_fees : Nat]]
  /\ staking \in [Markets -> Nat]
  /\ position \in [Positions -> [amount_staked : Nat, total_amount_vested : Nat]]
  /\ plan \in [Plans -> [stake_position : Positions \cup {None}, left : Nat]]
  /\ referral_account \subseteq Users
  /\ balance \in [Mints -> [Owners -> Nat]]

SharesOf(pos) == position[pos].amount_staked + position[pos].total_amount_vested

\* What a plan has still to release through a position.
LeftFor(pos, p) == IF plan[p].stake_position = pos THEN plan[p].left ELSE 0

\* Every share of a market's staking account is in a position of the same market, and every
\* vested share in a plan of the same position, whatever accounts instructions combine.
SharesLinked ==
  /\ \A m \in Markets : staking[m] = SumOver([u \in Users |-> SharesOf(<<m, u>>)], Users)
  /\ \A pos \in Positions :
       position[pos].total_amount_vested = SumOver([p \in Plans |-> LeftFor(pos, p)], Plans)

\* The base token account of a market holds its reserve and all its shares.  More may be
\* there: anybody may name it as receiver, and as another market's referral account.
BaseCovered ==
  \A m \in Markets : balance[m][m] >= market[m].base_reserve + staking[m]

\* The quote token account of a market holds backing, creator fees and staking fees
\* together, because a quote token that taxes transfers is refused (token_manager.rs:
\* "Tax-transfer quote tokens for example would cause some issues").
QuoteCovered ==
  \A m \in Markets : market[m].open =>
    balance[market[m].quote_token_mint][m]
      >= market[m].backing + market[m].pending_creator_fees + market[m].staking_fees

\* What a user has of a mint: own tokens, stakes and vesting tokens, referral fees.
Holdings(user, mint) ==
  balance[mint][user] + balance[mint][ReferralAccount(user)]
    + (IF mint \in Markets THEN SharesOf(<<mint, user>>) ELSE 0)

\* Nothing a user holds anywhere gets less but by an instruction of this user.
OnlySignersPay ==
  [][\A user \in Users, mint \in Mints :
       Holdings(user, mint)' < Holdings(user, mint) => Signed(user)]_vars
=============================================================================
