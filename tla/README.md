# Token Mill in TLA+

Token Mill (`programs/token-mill`, an Anchor program on Solana) launches tokens on a bonding
curve: a creator opens a *market*, the market mints the whole supply of a base token to itself
and sells it for a quote token along an ask curve and buys it back along a lower bid curve.
The spread is the fee, shared by the creator, the stakers of the base token, the protocol and
a referrer. Base tokens can be staked, also through vesting plans.

This directory holds the TLA+ modules of that program, the TLC configurations that check them on
small instances, and the theorems about them that TLAPS proves for all instances. Source paths
below are relative to `src/programs/token-mill/src/`.

    tlc -config MCStaking.cfg MCStaking.tla     # model-check a run
    tlapm StakingProofs.tla                     # check proofs

## 1. The system

### Components, their state and operations

| Component | State | Operations |
|---|---|---|
| Bonding curve (`math/mod.rs`, pricing half of `state/market.rs`) | none; reads supply, reserve and two arrays of 11 prices | four ways to price a swap: buy or sell, naming the input or the output |
| Market (`state/market.rs`, `manager/swap_manager.rs`, `instructions/swap.rs`, `create_market*.rs`) | `Market`: creator, reserve, supply, prices, `MarketFees`; the market's base and quote token accounts | `create_market`, `create_market_with_spl`, `swap` |
| Creator operations (`instructions/creator/`) | fields of `Market` | `set_market_prices`, `claim_creator_fees`, `update_creator`, `update_market_fee_shares` |
| Staking (`state/staking.rs`, `manager/staking_manager.rs`, `instructions/staking/`) | `MarketStaking` (totals, accumulator per share), one `StakePosition` per user; takes from `MarketFees.pending_staking_fees` | `create_staking`, `create_stake_position`, `deposit`, `withdraw`, `claim_staking_rewards` |
| Vesting (`state/vesting.rs`, `instructions/vesting/`) | `VestingPlan` accounts, each releasing through its owner's stake position | `create_vesting_plan`, `release` |
| Configuration (`state/config.rs`, `instructions/admin/`) | `TokenMillConfig`: authority, pending authority, fee recipient, default shares | `create_config`, the updates, the two-step handover of the authority |
| Quote token badges (`state/quote_token_badge.rs`) | one approval per quote mint | create, update; read by market creation |
| Referrals (`state/referral.rs`, `instructions/referrals/`) | an account owning a quote token account that swaps pay into | create, claim |
| Token transfers (`manager/token_manager.rs`) | token balances | transfers signed by a user or by the market's PDA |
| Program interface and events (`lib.rs`, `events.rs`) | none | dispatches the instructions; one event per instruction |
| Errors (`errors.rs`) | none | texts |

Code outside the program: test environments (`crates/test-utils`, `programs/token-mill/tests`)
and TypeScript scripts. They were read for what they expect of the program and are not modelled.

### How they interact

All components of one market meet in two token accounts and one account record:

* The **base token account** of a market holds the unsold reserve *and* everything that is staked
  or vesting. The curve never looks at the balance; it uses `base_reserve`.
* The **quote token account** holds what backs the circulating tokens, the creator's pending fees
  and all unpaid staking fees.
* `market.fees.pending_staking_fees` is written by swaps and consumed by the next staking
  operation, which spreads it over the current shares.
* Every instruction **names the accounts it works on**. What ties a staking account, a position, a plan
  and a mint to each other are `has_one` and seed constraints only. A quote token may be the
  base token of another market, and fees may be sent to any account of the mint.
* A swap reads `referral_fee_share` and `protocol_fee_recipient` from the configuration *now*,
  while its other shares were fixed when the market was created.

### What is hard here

Solana runs an instruction atomically and rolls it back when it fails, so there are no
half-executed handlers and no waiting. Nothing is scheduled: everything happens when somebody sends
an instruction. The hazards are therefore of five kinds (each is listed in `PROJECT.json` with
its line and the properties aimed at it):

* **Arithmetic**: four pricing paths that must agree with each other and round the market's way,
  two truncating divisions in a reward accumulator, narrowing to `u64` that aborts a handler.
* **Long sequences of legal calls by several users**: deposits between fees, several plans on
  one position, prices set after the first swap, shares changed by the creator while the
  authority changes the defaults.
* **One pot, several owners**: reserve and stakes in one account, backing and fees in another.
* **Mixed accounts**: an instruction on one market or position given the accounts of another.
* **Time and turns**: nominations of an authority that are replaced before they are accepted; plans
  whose releases fail in between and must be paid in the end.

### What makes each component correct

* Curve: rounding always favours the market; a swap stays within the supply; exact-input and
  exact-output forms agree; splitting a swap gains nothing.
* Market: base and quote tokens are conserved; the quote left after all fees covers the bid value
  of the circulating tokens; holders can always sell; fee shares always add up to the whole.
* Staking: totals equal the sums of positions; the tokens are there; accrued rewards never
  exceed the fees held, never shrink, and never reach back before a deposit; a claim or a withdrawal never fails.
* Vesting: a position holds what its plans still have to release; nothing is released early; an
  owner who keeps asking gets everything in the end.
* Configuration: authority passes only by agreement of both sides; nobody else changes settings or
  badges; a badge that a market names covers that market's quote token and configuration.
* Accounts: shares, plans and positions stay linked per market and user whatever is passed; the
  pots of every market stay covered; nobody pays without signing.
* The whole: the shared accounts cover all owners at once, staking behaves beside the market as it does
  alone, and the events tell the state.

## 2. Modules

| Module | Models |
|---|---|
| `Sums` | sums of a function over `1..n`, as a recursive function, and over a finite set |
| `Curve` | `math/mod.rs` and the pricing functions of `state/market.rs` |
| `CurveValue` | the reference: exact areas under a price curve, scaled to integers |
| `CurveCheck`, `MCCurve` | states are (market, amount); invariants compare `Curve` with `CurveValue` |
| `Market`, `MCMarket` | one market, its token accounts, users' balances, creator and authority |
| `Reserve` | abstract specification: a pot that covers what circulates |
| `Staking`, `MCStaking` | staking and vesting of one market |
| `Config`, `MCConfig` | several configurations, their badges, and the permission to open a market |
| `Accounts`, `MCAccounts` | several markets whose accounts instructions may mix, and the referral accounts |
| `Events` | the book that a reader of the events keeps of a market |
| `TokenMill`, `MCTokenMill` | the instructions of one market composed: `Market` with `Staking` on the same accounts, emitting `Events` |
| `SumsProofs`, `CurveProofs`, `CurveCheckProofs`, `MarketProofs`, `StakingProofs`, `ConfigProofs`, `AccountsProofs`, `TokenMillProofs` | theorems (section 5) |

**Curve.** Operators carry the names of the Rust functions. The loops over the intervals are
recursive functions whose value is the state of the loop after `j` rounds (`PassesDown`, `PassesUp`, one
round being `SellInterval` or `BuyInterval`);
the loop of `get_quote_amount_with_parameters`, whose rounds do not depend on each other, is a sum
of one term per interval. `u128` and 256-bit intermediates are unbounded integers: within
the limits the program enforces (supply 10^15, price 10^18) they do not overflow. Results narrowed
to `u64` are checked and yield `Fail`, also the narrowing in the middle of
`get_delta_base_out` (`math/mod.rs:63`). Every operator takes its scales from constants, so
that small numbers show every rounding.

**Market.** One action per handler; its guard holds every `require!`, every account constraint that
depends on the state and every checked operation. A transfer changes two balances and fails when
the source is too small; coinciding accounts (a user who is also the referrer or the
recipient) are handled by applying the credits one after the other. Names of users are
`1..N`. `unpriced` is an auxiliary variable: it remembers how many tokens were already in
circulation when `set_market_prices` ran, because `swap` does not require prices to be set.
Staking fees are collected here and never spent: what they are spent on is `Staking`'s side.

**Staking.** The four functions of `staking_manager.rs` are one operator, `UpdateStake`, with signed
changes of the staked and the vested amount. A swap is seen only as `FeesArrive`. `paid` is
auxiliary: what each user has claimed so far. `now` is the runtime's clock, advanced by `Tick`.

**Config.** One action per handler of `instructions/admin`, over a set of configurations, because
`create_config` is open to everybody. `create_market` is here only what market creation asks of badges,
fee shares and mints; the badge is an optional argument, as the account is in the code. `nomination`
and `signer` are auxiliary: who said last who shall follow, and who signed the last instruction.

**Accounts.** The complement of the modules above: those compute amounts for accounts that fit
together, this one takes *which accounts are passed* as free parameters and the `has_one` and
token constraints as guards, and leaves the amounts open within what `Market` and `Staking` allow (a
sale takes at most the backing, a claim at most the staking fees). Several markets exist, base tokens serve
as quote tokens of other markets, receivers and referral accounts are any accounts, some mints tax
their transfers. A purchase pays the protocol's fee to one account of the quote mint; the models leave this payment out here
because the referral fee, which may go to any account, is a payment of the same kind. `Market` has both. Staking accounts and positions can be opened by anybody at any time and count as open.
The accounts a market PDA has one of by its seeds (its associated token accounts) are not free.

**TokenMill and Events.** `TokenMill` extends `Market` and instantiates `Staking` on its variables:
`market_base`, `market_quote`, `user_base` and `market.pending_staking_fees` are one account each, written
by both. A swap's staking fee is what `FeesArrive` is in `Staking`. Each instruction emits
its event (a record with the fields of `events.rs` that say something about the state); `book` is rebuilt
from these records only. The instructions are grouped as in `lib.rs`. `shared` is auxiliary: all
staking fees that swaps have left so far.

Operators commented *Mutant* change a definition the way a plausible bug would. No action
uses them; `PROJECT.json` pairs each with the property that fails when it is put in.

## 3. Runs

| Run | Checks | Instance |
|---|---|---|
| `curve` | `RoundingFavoursMarket`, `WithinSupply`, `ExactFormsAgree`, `SplitNeverBeatsWhole`, `SalePaysForSomething`, `ReserveAlwaysForSale` | 2 intervals, supply 12, all reserves 0..12, all amounts 1..14, five curves: with and without spread, starting at 0, steep, and not yet priced |
| `market` | `BaseConserved`, `QuoteConserved`, `Backed`, `HoldersCanExit`, refinement `ImplementsReserve` | 2 users, one of whom trades; supply 4, two accepted and three refused curves; all referral choices |
| `market_fees` | `TypeOK`, `FeeSplitFits`, `ProtocolShareFixed`, `FeePotsOnlyGrow` | shares in quarters, one wide curve, three values for the authority's defaults (one above 100%) |
| `staking` | `TypeOK`, `TotalsMatch`, `RewardsSolvent`, `StakersCanLeave`, `RewardsNeverShrink`, `NoRetroactiveRewards` | 2 users, 1 plan, fees of 2 and 3 up to 5 in all, the schedules of `vesting`, clock up to 5, where both end |
| `vesting` | `PlansMatch`, `NeverReleasedEarly`, liveness `VestingCompletes` | 2 users, 2 plans, schedules 2..5 with cliff 1 and 1..5 with cliff 2 and two refused ones, clock up to 6, no fees, `U64_MAX` small enough that releases overflow |
| `config` | `TypeOK`, `PendingNamedByAuthority`, `HandoverAgreed`, `AuthorityRules`, `BadgeCoversMarket` | 3 interchangeable keys, 2 interchangeable configurations, 1 quote mint, 1 market, whole of 2, shares 1 and 3 (above the whole) |
| `accounts` | `TypeOK`, `SharesLinked`, `BaseCovered`, `QuoteCovered`, `OnlySignersPay` | 2 interchangeable users and markets, 1 plan, a plain and a taxed quote mint besides the base tokens, supply 1 |
| `accounts_plans` | `SharesLinked` | 1 market, 2 users, 2 plans, supply 2, amounts 1 and 2 |
| `token_mill` | `BaseAccountCovered`, `QuoteAccountCovered`, `EveryoneCanBePaid`, `BookAgrees`, refinement `ImplementsStaking` | 1 interval, supply 2, 2 users, one of whom trades and one of whom receives the protocol's fees, 1 plan, fees up to 3 in all, clock up to 3 |
| `curve_dust`, `staking_emptied`, `vesting_overflow` | one property each, violated | section 4 |

Why these bounds are enough to be interesting:

* Two intervals give a first, a last and a crossing between them, supplies at, before and after a
  boundary, and a partial interval on both sides. The quote of an amount is seldom a whole number
  at `SCALE = 6` and `QUOTE_PRECISION = 3`, so that roundings lose something: every mutant that turns
  one of them the other way is caught. `BASE_PRECISION` divides `SCALE`, as in the code (10^6 and 10^10).
* `U64_MAX` is small enough that narrowing happens: one curve's last interval is worth more than it.
  In `staking` it equals the sum of all fees, so that a claim would fail if a reward were counted twice.
* `STAKING_SCALE = 5` with at most four shares makes both truncating divisions lose something. It
  is not below the supply, as in the code (10^18 against 10^15): the proofs use that.
* Fees of 2 and 3 among up to 4 shares give fees that do not divide, fees that arrive together
  before one accrual and fees that arrive without shares.
* The vesting clock runs from before the start to after the end of the schedule.
* Three keys let a nomination be replaced by another one before it is accepted, and a third key
  appear in a second configuration; every longer chain repeats these steps.
* With two users, two markets and one token of each supply, every wrong account that an instruction
  could be given exists, and a token that is counted twice is missed at once. Two plans are needed for a
  plan and a position to be mixed up; `accounts_plans` has them on one market.
* In `token_mill` the fees left by swaps (1 to 3) are divided among 1 or 2 shares, and the whole supply
  can be in circulation, staked or vesting. Each user's six quote tokens buy a unit after prices are
  set, so that circulating tokens, creator's fees and unpaid rewards have a claim on the quote account
  at the same time; `market` and `staking` have the larger instances.

Named bounds of the models: `FeeBound` (all fees together), `TimeBound` (the clock), the sets
`Amounts`, `StakeAmounts`, `Fees`, `FeeShares`, `Thresholds`, `Supplies`, `Schedules`, `PriceCurves`,
`Traders` and `Recipients` (who swaps, and who may be made recipient), `Receivers` and `ReferralOwners` (whose
accounts a swap of `Accounts` may name). The size of token supplies bounds the rest. The code has no
counterpart of `FeeBound`: what is lost with it is a market that earns more than `u64::MAX` in staking fees over its
lifetime, each fee paid again out of rewards that were claimed.

**Fairness.** The program runs only when somebody sends an instruction, and nothing in the code makes
anybody do so. Safety runs therefore assume none, and what a user needs, that an operation *would
succeed* when tried, is an invariant (`HoldersCanExit`, `StakersCanLeave`, `EveryoneCanBePaid`,
`ReserveAlwaysForSale`; `ReleaseAvailable` says it of releases and is refuted, finding 2). The one liveness property, `VestingCompletes`, is about `FairSpec` of `Staking`: weak
fairness of `Tick` (the runtime's clock advances by itself) and of `release(p)` (an assumption about the
owner, who keeps sending the instruction while it would succeed). It says that the failures in between
(finding 2) delay a plan and never lock its last tokens. Deadlock is checked except in the two
violation runs of staking, whose clock and fees stop.

## 4. Findings

1. **Fees that arrive when nobody stakes are cleared** (`manager/staking_manager.rs:68`). The manager
   resets `pending_staking_fees` whenever the accumulator is above 0, also when there are no shares
   and nothing was accrued. After everybody has left, the next deposit clears the fees that arrived
   meanwhile; the tokens stay in the account and belong to nobody (run `staking_emptied`). While
   the accumulator is still 0 the same fees go to the first staker, which is why
   `NoRetroactiveRewards` speaks of times when somebody holds shares.
2. **A release can overflow** (`state/vesting.rs:47`). `amount_vested * elapsed` is a checked `u64`
   product: for a plan over the whole supply of 10^15 units it overflows after about five hours, and
   releases fail until the end of the plan (run `vesting_overflow`).
3. **Quote tokens of more than ten decimals** (`state/market.rs:249`). A quote amount is
   brought to ten decimals rounding down, so the last units of the amount are paid for
   nothing when a sale names them. Nothing restricts the decimals of a quote token (run `curve_dust`). With
   ten or fewer decimals `RoundingFavoursMarket` holds, and the market properties assume that.

Behaviour that is kept in the models and that no document speaks about: a swap before the prices are
set trades at price 0 (`unpriced`); pending creator fees go to the creator of the day; an exact-input
purchase fails in a price range where an interval is worth more than a `u64`, while an exact-output purchase
of the same tokens still goes through (`ReserveAlwaysForSale`); without the optional badge account the
approval of a quote token is not looked at (`instructions/create_market.rs:56-65`); the referral account
of a swap may be any account of the quote mint, the market's own included (`instructions/swap.rs:64`);
nominations are not announced by an event.

## 5. Proofs

All theorems hold for every value of the constants that the named assumptions allow
(`CurveAssumption`, `CheckAssumption`, `MarketAssumption`, `StakingAssumption`, `ConfigAssumption`,
`AccountsAssumption`, `MillAssumption`):
any number of users, keys, configurations, markets, mints, plans and intervals, any curves, amounts, fees
and schedules. The assumptions are facts of the program or of token
mints: precisions are positive, the supply fits a `u64`, all quote tokens together fit a `u64`,
addresses of different kinds differ, there are finitely many accounts. TLC evaluates them in every run.

Three conditions are no assumptions but hypotheses of the theorems that need them. `DecimalsFit`: the quote
token has at most as many decimals as `SCALE`, ten; without it `RoundingFavoursMarket` is false (finding 3), and
with it `Backed` and what follows from it, `QuoteAccountCovered` and `EveryoneCanBePaid` included. `UnitsFit`: the
ask price of a single unit fits a `u64` everywhere on the curve; where it does not, that unit cannot be bought by
anybody. `SupplyFits`: the supply is at most `STAKING_SCALE` (10^15 against 10^18 in the code); only
`NothingRetroactive` needs it, and TLC evaluates it in the runs of staking.

| Theorem | Module | Argument |
|---|---|---|
| `RoundingAlwaysFavoursMarket`, `AlwaysWithinSupply` | `CurveCheckProofs` | each form of swap against exact areas, from the lemmas of `CurveProofs`, below |
| `ExactFormsAlwaysAgree` | `CurveCheckProofs` | the area bought is at most what was paid; the exact-output price rounds that area up interval by interval, and so did the walk |
| `SplitNeverPays` | `CurveCheckProofs` | roundings up of two parts are at least the rounding up of the whole, in every interval and again in the conversion to units (`SumDivides`, `PriceDivides`) |
| `SaleAlwaysPaysForSomething` | `CurveCheckProofs` | tokens worth nothing have no area |
| `ReserveNeverStuck` | `CurveCheckProofs` | a price grows with the amount (`SumWidens`, `PriceWidens`), so one unit costs at most what any purchase did |
| `TypeCorrect` (market) | `MarketProofs` | `Inv`: types, the stored fee shares are at most the whole (`SharesFit`), and `BaseConserved`, which makes the circulating supply non-negative |
| `BaseAlwaysConserved` | `MarketProofs` | the same `Inv`; a swap moves the same base amount between `base_reserve`, the token account and one user (`SwapEffect`, `CreditSum`) |
| `QuoteAlwaysConserved` | `MarketProofs` | `QuoteInv`; the four transfers of a swap add up to nothing, whichever accounts coincide (`SettleSum`) |
| `FeesAlwaysSplit` | `MarketProofs` | two truncated portions of a fee fit into it when their shares do (`PortionsFit`, `FeeParts`) |
| `ProtocolShareAlwaysFixed`, `FeePotsAlwaysKept` | `MarketProofs` | one case per action, from `Inv` |
| `AlwaysBacked`, `HoldersAlwaysExit`, `AlwaysImplementsReserve` | `MarketProofs` | `ReserveInv`, below |
| `TypeCorrect` (staking) | `StakingProofs` | `TypeInv`: types, and every plan has an accepted schedule (without it a release could divide by 0) |
| `TotalsAlwaysMatch`, `StakesAlwaysBacked` | `StakingProofs` | `AccountsInv`; both are needed together: that a withdrawal leaves the vault non-negative follows from the totals |
| `PlansAlwaysMatch` | `StakingProofs` | `PlansInv`; a release moves the same amount off its plan and off its owner's position, and no other user's sum contains that plan |
| `NothingReleasedEarly` | `StakingProofs` | `VestingInv`; the linear share is truncated down and only grows as time passes |
| `RewardsAlwaysSolvent` | `StakingProofs` | `RewardsInv`, below |
| `ClaimsAlwaysPayable` | `StakingProofs` | from `RewardsInv`, and the bound on all fees |
| `StakersAlwaysLeave`, `LastReleasePaysAll` | `StakingProofs` | `LeaveInv`, below |
| `RewardsOnlyGrow` | `StakingProofs` | the accumulator grows, truncated division is monotone, and settling moves exactly `Reward` from one term of `Claimable` to the other |
| `NothingRetroactive` | `StakingProofs` | `TokensInv`, below |
| `TypeCorrect`, `NominationsAreLive`, `HandoverAlwaysAgreed` | `ConfigProofs` | types and `PendingIsNominee`: whoever is pending is whom the present authority named last; it holds because accepting clears the nomination in the same step that changes the authority |
| `OnlyAuthorityRules`, `BadgesAlwaysCover` | `ConfigProofs` | one case per action, for two configurations that may or may not be the same |
| `TypeCorrect`, `BaseAlwaysCovered`, `QuoteAlwaysCovered` | `AccountsProofs` | `CoverInv`: types, both coverings, and `MarketsSound`: a market's quote token is not its own base token and not taxed, and nobody stakes before the market exists |
| `SharesAlwaysLinked` | `AccountsProofs` | `LinkInv`, below |
| `OnlySignersEverPay` | `AccountsProofs` | from `CoverInv`: every instruction leaves the balances, referral accounts and positions of everybody but the signer as large as they were (`OthersKeep`) |
| `BaseAccountAlwaysCovered` | `TokenMillProofs` | `MillInv`, below |
| `StakingAlwaysImplemented` | `TokenMillProofs` | `MillInv`: every instruction is one of `Staking`, the arrival of a fee, or leaves staking alone (`StepMill`) |
| `QuoteAccountAlwaysCovered` | `TokenMillProofs` | `MillInv` and `MillBacked`, the backing left once creator and stakers are paid |
| `EveryoneAlwaysPaid` | `TokenMillProofs` | `MillBacked` with nothing sold before the prices, `QuoteConserved`, and the market's `SaleCovered` |
| `StakesAlwaysReturn` | `TokenMillProofs` | `LeaveInv` of staking inside the program; what the stakers' part of the account can pay, the account can |
| `BookAlwaysAgrees` | `TokenMillProofs` | `BookTrue`: one entry per instruction changes the book as the instruction changes the state |

The argument about the curve goes interval by interval. `Area` is the exact integral of the price, scaled to
integers, and every part of an interval has its own term in it (`IntervalArea`). One round of a loop either takes
the whole rest of the interval, at a price rounded the market's way (`CurrentQuote`), or solves a quadratic
equation for the part that the remaining quote pays for. The root is truncated, so `BuyPart` and `SellPart` say
what is left of the equation: a buyer gets no more than the quote pays for, a seller gives no less. The loops carry an
invariant over their rounds (`BuyRound`, `SellRound`): the base so far is what lies between the start and some supply, and
the quote so far is on the market's side of the area between them. The library's induction cannot be used on
it (see `SumsProofs`), so the rounds are a recursive function and `SegmentInduction` runs over their numbers. The two
forms that name a base amount have one rounded term per interval; `SumRounds` adds their roundings up.
`BuyExactBase`, `SellExactBase`, `BuyExactQuote` and `SellExactQuote` are the results in units of tokens, for any
market that is `Sound`; the market's proofs cite them.

`Backed` compares the quote tokens left after all fees with the bid area below the circulating supply. It is
inductive only together with `Shape`: the market is one the curve may be asked about, its prices are all zero or all
accepted, and while they are zero all supplies are worth nothing (`PricelessFree`). Each step is of one of three
kinds: it leaves reserve, prices and backing alone (`Unnoticed`), it sets the prices when the backing is not yet asked
for, and `unpriced` remembers what circulated then (`Appraisal`), or it is a swap (`Dealing`). A purchase brings in at least the ask area, a
sale takes out at most the bid area (`SwapValue`), no bid is above its ask (`CurvesOrdered`), and the
fee comes off what the buyer pays or the seller gets, so that the quote left after the swap is exactly the backing
plus the price (`SwapBalances`). The same three kinds are the actions of the abstract `Reserve`, hence the refinement; `HoldersCanExit`
follows with `SellExactBase`, because selling is priced by the same area.

The central argument of staking is solvency of rewards. The code truncates twice, so what it owes is compared
after multiplication with `STAKING_SCALE`, where the debt to a position (`OwedTo`) is an integer. An
accrual that raises the accumulator by *d* adds *d* times the shares of each position to the debts,
by `TotalsMatch` together *d* times the total, and *d* was rounded down, so the pending fees pay for it
(`AccrualBudget`). Settling a position replaces its debt by the pending rewards, rounded down
(`SettledDebts`). `RewardsSolvent` alone is not inductive: it needs `AccountsInv` for the sum of the
shares and `AccOrdered` (no position is ahead of the market), without which a debt could be negative.

`StakersCanLeave` asks that no checked operation on the way out fails: the accrual, the subtractions from the
totals and from the position, the transfer. `LeaveInv` joins what they need: claims that fit and can be paid,
`PlansMatch`, `NeverReleasedEarly`, and `PlansOpen`, that the accounts a release goes through exist, which holds
because nothing closes an account (`StaysOpen`). A position is at most the total it is summed in, and what is due of a plan at
most what its position holds for it (`TakingFits`). What is due is not negative (`DueWhole`): a plan never
released more than its linear share, and that share only grows, which is `NeverReleasedEarly` read the other way
round. From the end of the schedule on no product is formed, so the last release cannot overflow (`LastReleasePaysAll`).

`NoRetroactiveRewards` needs that an accrual takes up *all* pending fees when there are shares
(`AccrualComplete`): the code resets them only when the accumulator is above 0, so a first fee must
raise it. It does because a single unit of fees times `STAKING_SCALE` is at least the number of shares, and
the shares are bounded by the supply; that is a fact about tokens, not about shares, so the invariant
adds the conservation of base tokens (`TokensConserved`) to `AccountsInv`.

In `AccountsProofs` a transfer is described balance by balance (`Moved`), also when its two accounts are one.
`PotsKept` then reduces the coverings of *all* markets to those of the market an instruction names: the
accounts of other markets only receive. This is where the two facts of `MarketsSound` are used, and
where the constraints on the mints are.

`SharesLinked` has one sum per market and one per position, and an instruction on a stake changes one term of
each: the constraints make the position that of the signer in the market of the staking account (`StakeEffect`), so
that the market's sum changes by what the staking account does, and the plan that changes is one of this position or of
none, so that no other position's sum contains it (`StakeLinks`).

`SumsProofs` proves what is used of sums from their recursive definition (`SumUpdate`, `SumLinear`,
`SumMonotone`, `SumConstant`). The library's induction theorems take an operator as parameter, which
the provers at hand cannot instantiate, so `SegmentInduction` argues with the least counterexample,
about a set of indices. A sum over a finite set is a sum over a listing of its members (`ListingOnce`, `SumOverUpdate`).

The composition is proved by giving each half the other as its environment. `TokenMillProofs` instantiates
`StakingProofs` (`RP`) on the shared accounts: what staking calls its vault is the base account less the
reserve of the curve, and its fees are `StakingFeesHeld`, which is what swaps have left and nobody has been paid.
`MillInv` joins the types and the `Shape` of the market to the invariant of staking, and adds `TokensHeld`, that base tokens of all
users and of the account make up the supply; the invariant of the market alone, which has reserve and balance
equal, is false here. From `TokensHeld` follows that no user can stake beyond the supply, which is what `Staking`'s
own bound on balances says (`Room`). Every instruction of staking and vesting is a step of
`RP` and leaves reserve, settings, supply and the backing as they are (`StepStaking`, `Aside`); every other
instruction is a step of `Market` and, for staking, the arrival of a fee or nothing (`StepMarket`, `MarketFees`). So the
theorems of both halves hold of the whole, and `StakingAlwaysImplemented` says so of staking.

The backing is not a variable of either half. `MillBacking` takes off the quote account what creator and
stakers are owed; `Market`'s own pot counts every staking fee ever left, paid or not. The two differ, but every step of the
market moves both by the same amount (`PotsMove`), and a claim of staking rewards lowers account and debt
together. `MillBacked` is therefore inductive for the same reason as `Backed`. `EveryoneCanBePaid` also needs that the
debts do not exceed the account: the bid value of what circulates is not negative (`SoldValue`), so
`MillBacked` leaves them covered, and stakers leave as they do alone (`StakesLeave`); a sale is then paid from the backing alone (`SaleCovered`), at a quote that
fits a `u64` because all quote tokens do (`QuoteFits`).

`BookAgrees` compares the book field by field. Its invariant `BookTrue` says that the book *is* a record
computed from the state (`TrueBook`), but for the first fee recipient, which no event of a market announces: the
book knows none until the recipient is changed. `MarketEntries` and `StakingEntries` say what each kind of entry
does to a book; one lemma per instruction compares this with what the instruction did.

Only model-checked: `VestingCompletes`. It is liveness under fairness, which is out of the prover's reach. What it rests
on is proved: `LastReleasePaysAll` says that the release an owner keeps asking for succeeds in the end and leaves nothing.

## 6. Not modelled

* The derivation of addresses from seeds, rent, mint metadata and extensions other than a tax, and the ids
  of the two token programs: the runtime and the Anchor framework check them and no arithmetic depends
  on them. That a PDA exists once is part of the guards (`~market[m].open`).
* Signatures are part of the guards (`user = market.creator`).
* Error codes and return data; the events of handovers, badges, referral accounts and referral claims, which
  no account of a market depends on.
* The associated token accounts of the recipient and of users are taken to exist. A swap fails while the
  recipient's does not; anybody may create it.
* Referral accounts belong to a configuration; `Accounts` has one configuration, so they are told apart by
  their referrer only.
* `Market`, `Staking` and `TokenMill` are about one market each; what markets share is in `Config` and
  `Accounts`, where the amounts are abstract.
* `u128` and 256-bit overflow of intermediates (section 2).
* The upgrade tests compare two builds of the program; only the present one is modelled.
* The test environments and the scripts send instructions and hold no state of the program.

## 7. Plan

Done: the models and runs of all components of the program, and theorems for every invariant and action
property the runs check. Still to come:

1. A bound on what rounding leaves behind in staking: `RewardsSolvent` says that the fees held are at least what is
   owed; how far they can exceed it depends on the number of accruals and of positions, and is worth a theorem.
2. The area of a market's curve as seen by `Accounts`, whose amounts are abstract, so that several markets with
   curves of their own are covered by one specification.
