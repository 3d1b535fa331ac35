--------------------------- MODULE AccountsProofs ---------------------------
(***************************************************************************)
(* Proofs about the accounts that instructions bring together: whatever    *)
(* combination is passed, shares, positions and plans stay linked, the     *)
(* pots of every market stay covered and only the signer pays, for any     *)
(* number of users, markets, mints and plans.                              *)
(***************************************************************************)
EXTENDS Accounts, SumsProofs, FiniteSetTheorems

\* What market creation guarantees about quote tokens, and that nobody stakes before it:
\* a market's quote token is another token than its own and is not taxed.
MarketsSound ==
  \A m \in Markets :
    /\ market[m].open => market[m].quote_token_mint \in Mints \ (Taxed \cup {m})
    /\ ~market[m].open => staking[m] = 0

CoverInv == TypeOK /\ MarketsSound /\ BaseCovered /\ QuoteCovered

-----------------------------------------------------------------------------
(* Transfers. *)

\* A transfer brings at most what it takes, and all of it when the mint is not taxed.
LEMMA ReceivedType ==
  ASSUME NEW mint, NEW amount \in Nat
  PROVE  /\ Received(mint, amount) \in Nat /\ Received(mint, amount) <= amount
         /\ mint \notin Taxed => Received(mint, amount) = amount
BY DEF Received

\* A change of balances: `out` leaves one account of a mint and `in` reaches another one, or
\* the same.
Moved(old, new, mint, from, to, out, in) ==
  /\ new \in [Mints -> [Owners -> Int]]
  /\ \A k \in Mints, o \in Owners :
       new[k][o] = old[k][o] - (IF k = mint /\ o = from THEN out ELSE 0)
                             + (IF k = mint /\ o = to THEN in ELSE 0)

\* What a transfer does to each balance.
LEMMA MoveAt ==
  ASSUME NEW balances \in [Mints -> [Owners -> Int]], NEW mint \in Mints,
         NEW from \in Owners, NEW to \in Owners, NEW amount \in Nat
  PROVE  Moved(balances, Move(balances, mint, from, to, amount), mint, from, to,
               amount, Received(mint, amount))
<1> DEFINE got == Received(mint, amount)
<1>1. got \in Nat
  BY ReceivedType
<1>2. Move(balances, mint, from, to, amount)
        = [[balances EXCEPT ![mint][from] = @ - amount] EXCEPT ![mint][to] = @ + got]
  BY DEF Move
<1> HIDE DEF got
<1> QED
  BY <1>1, <1>2 DEF got, Moved

\* A transfer of a mint without tax.
LEMMA MoveWhole ==
  ASSUME NEW balances \in [Mints -> [Owners -> Int]], NEW mint \in Mints, mint \notin Taxed,
         NEW from \in Owners, NEW to \in Owners, NEW amount \in Nat
  PROVE  Moved(balances, Move(balances, mint, from, to, amount), mint, from, to, amount, amount)
<1>1. Received(mint, amount) = amount
  BY ReceivedType
<1> QED
  BY <1>1, MoveAt

\* Users, markets and referral accounts have token accounts, and they are different ones.
LEMMA OwnersDiffer ==
  /\ Users \subseteq Owners /\ Markets \subseteq Owners /\ Markets \subseteq Mints
  /\ \A user \in Users : ReferralAccount(user) \in Owners
  /\ \A user \in Users, m \in Markets : user # m
  /\ \A user \in Users : ReferralAccount(user) \notin Users \cup Markets
  /\ \A u, v \in Users : ReferralAccount(u) = ReferralAccount(v) => u = v
  /\ \A m \in Markets : m \notin Taxed
<1>1. \A user \in Users, m \in Markets : user # m
  BY AccountsAssumption
<1>2. \A m \in Markets : m \notin Taxed
  BY AccountsAssumption
<1>3. \A user \in Users : ReferralAccount(user) \notin Users \cup Markets
  BY AccountsAssumption DEF ReferralAccount
<1>4. \A u, v \in Users : ReferralAccount(u) = ReferralAccount(v) => u = v
  BY DEF ReferralAccount
<1> QED
  BY <1>1, <1>2, <1>3, <1>4 DEF Owners, Mints

-----------------------------------------------------------------------------
(* Swaps. *)

\* The facts about a market that an instruction names with its two mints.
LEMMA NamedMarket ==
  ASSUME CoverInv, NEW m \in Markets, NEW base_mint \in Mints, NEW quote_mint \in Mints,
         HasMints(m, base_mint, quote_mint)
  PROVE  /\ base_mint = m /\ quote_mint = market[m].quote_token_mint /\ quote_mint # m
         /\ quote_mint \notin Taxed /\ m \notin Taxed /\ market[m].open
         /\ m \in Mints /\ m \in Owners
BY OwnersDiffer DEF HasMints, CoverInv, MarketsSound

\* A purchase balance by balance, and a sale.
Bought(user, m, quote_mint, receiver, referral, base_amount, quote_amount, fee) ==
  /\ balance' \in [Mints -> [Owners -> Int]]
  /\ \A k \in Mints, o \in Owners :
       balance'[k][o] = balance[k][o]
         - (IF k = quote_mint /\ o = user THEN quote_amount ELSE 0)
         + (IF k = quote_mint /\ o = m THEN quote_amount - fee.referral ELSE 0)
         - (IF k = m /\ o = m THEN base_amount ELSE 0)
         + (IF k = m /\ o = receiver THEN base_amount ELSE 0)
         + (IF fee.referral > 0 /\ k = quote_mint /\ o = referral.owner THEN fee.referral ELSE 0)

Sold(user, m, quote_mint, receiver, base_amount, quote_amount) ==
  /\ balance' \in [Mints -> [Owners -> Int]]
  /\ \A k \in Mints, o \in Owners :
       balance'[k][o] = balance[k][o]
         - (IF k = m /\ o = user THEN base_amount ELSE 0)
         + (IF k = m /\ o = m THEN base_amount ELSE 0)
         - (IF k = quote_mint /\ o = m THEN quote_amount ELSE 0)
         + (IF k = quote_mint /\ o = receiver THEN quote_amount ELSE 0)

\* What a purchase does to each balance.
LEMMA BuyBalances ==
  ASSUME CoverInv, NEW user \in Users, NEW m \in Markets, NEW base_mint \in Mints, NEW quote_mint \in Mints,
         NEW receiver \in Owners, NEW referral, NEW base_amount \in Nat, NEW quote_amount \in Nat,
         NEW fee \in [creator : Nat, staking : Nat, referral : Nat],
         fee.referral > 0 => referral.owner \in Owners,
         swap_buy(user, m, base_mint, quote_mint, receiver, referral, base_amount, quote_amount, fee)
  PROVE  Bought(user, m, quote_mint, receiver, referral, base_amount, quote_amount, fee)
<1> DEFINE paid == Move(balance, quote_mint, user, m, quote_amount)
           bought == Move(paid, m, m, receiver, base_amount)
           shared == Move(bought, quote_mint, m, referral.owner, fee.referral)
<1>1. /\ base_mint = m /\ quote_mint # m /\ quote_mint \notin Taxed /\ m \notin Taxed
      /\ m \in Mints /\ m \in Owners /\ user \in Owners
  BY NamedMarket, OwnersDiffer DEF swap_buy
<1>2. fee.referral \in Nat
  OBVIOUS
<1>3. balance \in [Mints -> [Owners -> Int]]
  BY DEF CoverInv, TypeOK
<1>4. Moved(balance, paid, quote_mint, user, m, quote_amount, quote_amount)
  BY <1>1, <1>3, MoveWhole
<1> HIDE DEF paid
<1>5. Moved(paid, bought, m, m, receiver, base_amount, base_amount)
  <2>1. paid \in [Mints -> [Owners -> Int]]
    BY <1>4 DEF Moved
  <2> QED
    BY <1>1, <2>1, MoveWhole
<1> HIDE DEF bought
<1>6. balance' = IF fee.referral > 0 THEN shared ELSE bought
  BY <1>1 DEF swap_buy, paid, bought
<1>7. CASE fee.referral > 0
  <2>1. Moved(bought, shared, quote_mint, m, referral.owner, fee.referral, fee.referral)
    <3>1. bought \in [Mints -> [Owners -> Int]]
      BY <1>5 DEF Moved
    <3> QED
      BY <1>1, <1>2, <1>7, <3>1, MoveWhole
  <2> HIDE DEF shared
  <2> QED
    BY <1>1, <1>2, <1>3, <1>4, <1>5, <1>6, <1>7, <2>1 DEF Moved, Bought
<1>8. CASE ~(fee.referral > 0)
  BY <1>1, <1>2, <1>3, <1>4, <1>5, <1>6, <1>8 DEF Moved, Bought
<1> QED
  BY <1>7, <1>8

\* What a sale does to each balance.
LEMMA SellBalances ==
  ASSUME CoverInv, NEW user \in Users, NEW m \in Markets, NEW base_mint \in Mints, NEW quote_mint \in Mints,
         NEW receiver \in Owners, NEW base_amount \in Nat, NEW quote_amount \in Nat,
         swap_sell(user, m, base_mint, quote_mint, receiver, base_amount, quote_amount)
  PROVE  Sold(user, m, quote_mint, receiver, base_amount, quote_amount)
<1> DEFINE sold == Move(balance, m, user, m, base_amount)
<1>1. /\ base_mint = m /\ quote_mint # m /\ quote_mint \notin Taxed /\ m \notin Taxed
      /\ m \in Mints /\ m \in Owners /\ user \in Owners
  BY NamedMarket, OwnersDiffer DEF swap_sell
<1>2. balance \in [Mints -> [Owners -> Int]]
  BY DEF CoverInv, TypeOK
<1>3. Moved(balance, sold, m, user, m, base_amount, base_amount)
  BY <1>1, <1>2, MoveWhole
<1>4. balance' = Move(sold, quote_mint, m, receiver, quote_amount)
  BY <1>1 DEF swap_sell
<1> HIDE DEF sold
<1>5. Moved(sold, balance', quote_mint, m, receiver, quote_amount, quote_amount)
  <2>1. sold \in [Mints -> [Owners -> Int]]
    BY <1>3 DEF Moved
  <2> QED
    BY <1>1, <1>4, <2>1, MoveWhole
<1>6. balance' \in [Mints -> [Owners -> Int]]
  BY <1>5 DEF Moved
<1>7. ASSUME NEW k \in Mints, NEW o \in Owners
      PROVE  balance'[k][o] = balance[k][o]
                - (IF k = m /\ o = user THEN base_amount ELSE 0)
                + (IF k = m /\ o = m THEN base_amount ELSE 0)
                - (IF k = quote_mint /\ o = m THEN quote_amount ELSE 0)
                + (IF k = quote_mint /\ o = receiver THEN quote_amount ELSE 0)
  BY <1>1, <1>2, <1>3, <1>5 DEF Moved
<1> QED
  BY <1>6, <1>7 DEF Sold

\* The type of Market accounts in TypeOK.
MarketType == [Markets -> [open : BOOLEAN, creator : Users \cup {None},
                           quote_token_mint : Mints \cup {None}, base_reserve : Nat,
                           backing : Nat, pending_creator_fees : Nat, staking_fees : Nat]]

\* Setting a field of one market keeps the type.
LEMMA MarketFields ==
  ASSUME NEW M \in MarketType, NEW m \in Markets, NEW n \in Nat
  PROVE  /\ [M EXCEPT ![m].base_reserve = n] \in MarketType
         /\ [M EXCEPT ![m].backing = n] \in MarketType
         /\ [M EXCEPT ![m].pending_creator_fees = n] \in MarketType
         /\ [M EXCEPT ![m].staking_fees = n] \in MarketType
BY DEF MarketType

\* Nobody but the signer of an instruction loses a balance or a share; markets aside.
OthersKeep(user) ==
  /\ \A k \in Mints, o \in Owners :
       o \notin Markets \cup {user, ReferralAccount(user)} => balance'[k][o] >= balance[k][o]
  /\ \A pos \in Positions : pos[2] # user => position'[pos] = position[pos]

\* A step on one market that keeps its quote token keeps everything, if the two pots of that
\* market change as much as the books say and no other market's pot loses anything.
LEMMA PotsKept ==
  ASSUME CoverInv, NEW m \in Markets, market[m].open,
         market' \in MarketType, balance' \in [Mints -> [Owners -> Nat]],
         staking' \in [Markets -> Nat],
         \A m2 \in Markets : m2 # m => market'[m2] = market[m2] /\ staking'[m2] = staking[m2],
         market'[m].open, market'[m].quote_token_mint = market[m].quote_token_mint,
         \A k \in Mints, m2 \in Markets : m2 # m => balance'[k][m2] >= balance[k][m2],
         balance'[m][m] - balance[m][m]
           >= (market'[m].base_reserve - market[m].base_reserve) + (staking'[m] - staking[m]),
         LET q == market[m].quote_token_mint IN
         balance'[q][m] - balance[q][m]
           >= (market'[m].backing - market[m].backing)
                + (market'[m].pending_creator_fees - market[m].pending_creator_fees)
                + (market'[m].staking_fees - market[m].staking_fees)
  PROVE  MarketsSound' /\ BaseCovered' /\ QuoteCovered'
<1>1. /\ \A m2 \in Markets : m2 \in Mints /\ m2 \in Owners
      /\ \A m2 \in Markets : market[m2].open => market[m2].quote_token_mint \in Mints \ (Taxed \cup {m2})
  BY OwnersDiffer DEF CoverInv, MarketsSound
<1>2. /\ balance \in [Mints -> [Owners -> Nat]] /\ staking \in [Markets -> Nat] /\ market \in MarketType
  BY DEF CoverInv, TypeOK, MarketType
<1>3. MarketsSound'
  BY DEF CoverInv, MarketsSound
<1>4. ASSUME NEW m2 \in Markets
      PROVE  balance'[m2][m2] >= market'[m2].base_reserve + staking'[m2]
  <2>1. /\ balance[m2][m2] \in Nat /\ balance'[m2][m2] \in Nat /\ staking[m2] \in Nat /\ staking'[m2] \in Nat
        /\ market[m2].base_reserve \in Nat /\ market'[m2].base_reserve \in Nat
    BY <1>1, <1>2 DEF MarketType
  <2>2. balance[m2][m2] >= market[m2].base_reserve + staking[m2]
    BY DEF CoverInv, BaseCovered
  <2>3. CASE m2 = m
    BY <2>1, <2>2, <2>3
  <2>4. CASE m2 # m
    BY <1>1, <2>1, <2>2, <2>4
  <2> QED
    BY <2>3, <2>4
<1>5. ASSUME NEW m2 \in Markets, market'[m2].open
      PROVE  balance'[market'[m2].quote_token_mint][m2]
               >= market'[m2].backing + market'[m2].pending_creator_fees + market'[m2].staking_fees
  <2> DEFINE q == market[m2].quote_token_mint
  <2>1. market[m2].open /\ market'[m2].quote_token_mint = q /\ q \in Mints
    BY <1>1, <1>5
  <2> HIDE DEF q
  <2>2. /\ balance[q][m2] \in Nat /\ balance'[q][m2] \in Nat
        /\ market[m2].backing \in Nat /\ market[m2].pending_creator_fees \in Nat
        /\ market[m2].staking_fees \in Nat
        /\ market'[m2].backing \in Nat /\ market'[m2].pending_creator_fees \in Nat
        /\ market'[m2].staking_fees \in Nat
    BY <1>1, <1>2, <2>1 DEF MarketType
  <2>3. balance[q][m2] >= market[m2].backing + market[m2].pending_creator_fees + market[m2].staking_fees
    BY <2>1 DEF CoverInv, QuoteCovered, q
  <2>4. CASE m2 = m
    <3>1. balance'[q][m] - balance[q][m]
            >= (market'[m].backing - market[m].backing)
                + (market'[m].pending_creator_fees - market[m].pending_creator_fees)
                + (market'[m].staking_fees - market[m].staking_fees)
      BY <2>4 DEF q
    <3> QED
      BY <2>1, <2>2, <2>3, <2>4, <3>1
  <2>5. CASE m2 # m
    BY <2>1, <2>2, <2>3, <2>5
  <2> QED
    BY <2>4, <2>5
<1> QED
  BY <1>3, <1>4, <1>5 DEF BaseCovered, QuoteCovered

\* A purchase keeps the invariant.
LEMMA BuyKeeps ==
  ASSUME CoverInv, NEW user \in Users, NEW m \in Markets, NEW base_mint \in Mints, NEW quote_mint \in Mints,
         NEW receiver \in Owners, NEW referral, NEW base_amount \in Nat, NEW quote_amount \in Nat,
         NEW fee \in [creator : Nat, staking : Nat, referral : Nat],
         fee.referral > 0 => referral.owner \in Owners,
         swap_buy(user, m, base_mint, quote_mint, receiver, referral, base_amount, quote_amount, fee)
  PROVE  CoverInv' /\ OthersKeep(user)
<1>1. /\ base_mint = m /\ quote_mint = market[m].quote_token_mint /\ quote_mint # m /\ market[m].open
      /\ m \in Mints /\ m \in Owners /\ user \in Owners
      /\ \A m2 \in Markets : m2 \in Owners /\ user # m2
  BY NamedMarket, OwnersDiffer DEF swap_buy
<1>2. /\ base_amount <= market[m].base_reserve
      /\ fee.creator + fee.staking + fee.referral <= quote_amount
      /\ balance[quote_mint][user] >= quote_amount /\ balance[m][m] >= base_amount
      /\ UNCHANGED <<staking, position, plan, referral_account>>
  BY <1>1 DEF swap_buy, CanPay
<1>t. /\ market \in MarketType /\ balance \in [Mints -> [Owners -> Nat]] /\ staking \in [Markets -> Nat]
  BY DEF CoverInv, TypeOK, MarketType
<1>f. fee.creator \in Nat /\ fee.staking \in Nat /\ fee.referral \in Nat
  OBVIOUS
<1>3. market' = [market EXCEPT
       ![m].base_reserve = @ - base_amount,
       ![m].backing = @ + quote_amount - fee.creator - fee.staking - fee.referral,
       ![m].pending_creator_fees = @ + fee.creator, ![m].staking_fees = @ + fee.staking]
  BY DEF swap_buy
<1>4. /\ \A m2 \in Markets : m2 # m => market'[m2] = market[m2]
      /\ market'[m].open = market[m].open /\ market'[m].quote_token_mint = market[m].quote_token_mint
      /\ market'[m].base_reserve = market[m].base_reserve - base_amount
      /\ market'[m].backing = market[m].backing + quote_amount - fee.creator - fee.staking - fee.referral
      /\ market'[m].pending_creator_fees = market[m].pending_creator_fees + fee.creator
      /\ market'[m].staking_fees = market[m].staking_fees + fee.staking
  BY <1>3, <1>t DEF MarketType
<1>5. market' \in MarketType
  <2> DEFINE reserve == market[m].base_reserve - base_amount
             backing == market[m].backing + quote_amount - fee.creator - fee.staking - fee.referral
             creator == market[m].pending_creator_fees + fee.creator
             stakers == market[m].staking_fees + fee.staking
  <2>1. reserve \in Nat /\ backing \in Nat /\ creator \in Nat /\ stakers \in Nat
    BY <1>2, <1>t, <1>f DEF MarketType
  <2> DEFINE m1 == [market EXCEPT ![m].base_reserve = reserve]
             m2 == [m1 EXCEPT ![m].backing = backing]
             m3 == [m2 EXCEPT ![m].pending_creator_fees = creator]
             m4 == [m3 EXCEPT ![m].staking_fees = stakers]
  <2>2. market' = m4
    BY <1>3, <1>t DEF MarketType
  <2> HIDE DEF reserve, backing, creator, stakers
  <2>3. m1 \in MarketType
    BY <1>t, <2>1, MarketFields
  <2> HIDE DEF m1
  <2>4. m2 \in MarketType
    BY <2>1, <2>3, MarketFields
  <2> HIDE DEF m2
  <2>5. m3 \in MarketType
    BY <2>1, <2>4, MarketFields
  <2> HIDE DEF m3
  <2>6. m4 \in MarketType
    BY <2>1, <2>5, MarketFields
  <2> QED
    BY <2>2, <2>6
<1>6. Bought(user, m, quote_mint, receiver, referral, base_amount, quote_amount, fee)
  BY BuyBalances
<1>7. ASSUME NEW k \in Mints, NEW o \in Owners
      PROVE  balance'[k][o] >= 0 /\ (o # user /\ o # m => balance'[k][o] >= balance[k][o])
  <2>1. balance[k][o] \in Nat
    BY <1>t
  <2> QED
    BY <1>1, <1>2, <1>6, <1>f, <2>1 DEF Bought
<1>8. balance' \in [Mints -> [Owners -> Nat]]
  BY <1>6, <1>7 DEF Bought
<1>9. /\ balance'[m][m] >= balance[m][m] - base_amount
      /\ balance'[quote_mint][m] >= balance[quote_mint][m] + quote_amount - fee.referral
  <2>1. balance[m][m] \in Nat /\ balance[quote_mint][m] \in Nat
    BY <1>1, <1>t
  <2> QED
    BY <1>1, <1>6, <1>f, <2>1 DEF Bought
<1>10. TypeOK'
  BY <1>2, <1>5, <1>8 DEF CoverInv, TypeOK, MarketType
<1>11. MarketsSound' /\ BaseCovered' /\ QuoteCovered'
  <2>1. /\ balance[m][m] \in Nat /\ balance[quote_mint][m] \in Nat /\ staking[m] \in Nat
        /\ balance'[m][m] \in Nat /\ balance'[quote_mint][m] \in Nat
        /\ market[m].base_reserve \in Nat /\ market[m].backing \in Nat
        /\ market[m].pending_creator_fees \in Nat /\ market[m].staking_fees \in Nat
    BY <1>1, <1>8, <1>t DEF MarketType
  <2>2. balance'[m][m] - balance[m][m]
          >= (market'[m].base_reserve - market[m].base_reserve) + (staking'[m] - staking[m])
    BY <1>2, <1>4, <1>9, <2>1
  <2>3. balance'[quote_mint][m] - balance[quote_mint][m]
          >= (market'[m].backing - market[m].backing)
                + (market'[m].pending_creator_fees - market[m].pending_creator_fees)
                + (market'[m].staking_fees - market[m].staking_fees)
    BY <1>4, <1>9, <1>f, <2>1
  <2>4. \A k \in Mints, m2 \in Markets : m2 # m => balance'[k][m2] >= balance[k][m2]
    BY <1>1, <1>7
  <2> QED
    BY <1>1, <1>2, <1>4, <1>5, <1>8, <1>t, <2>2, <2>3, <2>4, PotsKept
<1>o. OthersKeep(user)
  BY <1>1, <1>2, <1>7 DEF OthersKeep
<1> QED
  BY <1>10, <1>11, <1>o DEF CoverInv

\* A sale keeps the invariant.
LEMMA SellKeeps ==
  ASSUME CoverInv, NEW user \in Users, NEW m \in Markets, NEW base_mint \in Mints, NEW quote_mint \in Mints,
         NEW receiver \in Owners, NEW base_amount \in Nat, NEW quote_amount \in Nat,
         swap_sell(user, m, base_mint, quote_mint, receiver, base_amount, quote_amount)
  PROVE  CoverInv' /\ OthersKeep(user)
<1>1. /\ base_mint = m /\ quote_mint = market[m].quote_token_mint /\ quote_mint # m /\ market[m].open
      /\ m \in Mints /\ m \in Owners /\ user \in Owners
      /\ \A m2 \in Markets : m2 \in Owners /\ user # m2
  BY NamedMarket, OwnersDiffer DEF swap_sell
<1>2. /\ quote_amount <= market[m].backing
      /\ balance[m][user] >= base_amount /\ balance[quote_mint][m] >= quote_amount
      /\ UNCHANGED <<staking, position, plan, referral_account>>
  BY <1>1 DEF swap_sell, CanPay
<1>t. /\ market \in MarketType /\ balance \in [Mints -> [Owners -> Nat]] /\ staking \in [Markets -> Nat]
  BY DEF CoverInv, TypeOK, MarketType
<1>3. market' = [market EXCEPT ![m].base_reserve = @ + base_amount, ![m].backing = @ - quote_amount]
  BY DEF swap_sell
<1>4. /\ \A m2 \in Markets : m2 # m => market'[m2] = market[m2]
      /\ market'[m].open = market[m].open /\ market'[m].quote_token_mint = market[m].quote_token_mint
      /\ market'[m].base_reserve = market[m].base_reserve + base_amount
      /\ market'[m].backing = market[m].backing - quote_amount
      /\ market'[m].pending_creator_fees = market[m].pending_creator_fees
      /\ market'[m].staking_fees = market[m].staking_fees
  BY <1>3, <1>t DEF MarketType
<1>5. market' \in MarketType
  <2> DEFINE reserve == market[m].base_reserve + base_amount
             backing == market[m].backing - quote_amount
             m1 == [market EXCEPT ![m].base_reserve = reserve]
             m2 == [m1 EXCEPT ![m].backing = backing]
  <2>1. reserve \in Nat /\ backing \in Nat
    BY <1>2, <1>t DEF MarketType
  <2>2. market' = m2
    BY <1>3, <1>t DEF MarketType
  <2> HIDE DEF reserve, backing
  <2>3. m1 \in MarketType
    BY <1>t, <2>1, MarketFields
  <2> HIDE DEF m1
  <2> QED
    BY <2>1, <2>2, <2>3, MarketFields
<1>6. Sold(user, m, quote_mint, receiver, base_amount, quote_amount)
  BY SellBalances
<1>7. ASSUME NEW k \in Mints, NEW o \in Owners
      PROVE  balance'[k][o] >= 0 /\ (o # user /\ o # m => balance'[k][o] >= balance[k][o])
  <2>1. balance[k][o] \in Nat
    BY <1>t
  <2> QED
    BY <1>1, <1>2, <1>6, <2>1 DEF Sold
<1>8. balance' \in [Mints -> [Owners -> Nat]]
  BY <1>6, <1>7 DEF Sold
<1>9. /\ balance[m][m] \in Nat /\ balance[quote_mint][m] \in Nat
      /\ balance'[m][m] >= balance[m][m] + base_amount
      /\ balance'[quote_mint][m] >= balance[quote_mint][m] - quote_amount
  <2>1. balance[m][m] \in Nat /\ balance[quote_mint][m] \in Nat
    BY <1>1, <1>t
  <2> QED
    BY <1>1, <1>6, <2>1 DEF Sold
<1>10. TypeOK'
  BY <1>2, <1>5, <1>8 DEF CoverInv, TypeOK, MarketType
<1>11. MarketsSound' /\ BaseCovered' /\ QuoteCovered'
  <2>1. /\ staking[m] \in Nat /\ balance'[m][m] \in Nat /\ balance'[quote_mint][m] \in Nat
        /\ market[m].base_reserve \in Nat /\ market[m].backing \in Nat
        /\ market[m].pending_creator_fees \in Nat /\ market[m].staking_fees \in Nat
    BY <1>1, <1>8, <1>t DEF MarketType
  <2>2. balance'[m][m] - balance[m][m]
          >= (market'[m].base_reserve - market[m].base_reserve) + (staking'[m] - staking[m])
    BY <1>2, <1>4, <1>9, <2>1
  <2>3. balance'[quote_mint][m] - balance[quote_mint][m]
          >= (market'[m].backing - market[m].backing)
                + (market'[m].pending_creator_fees - market[m].pending_creator_fees)
                + (market'[m].staking_fees - market[m].staking_fees)
    BY <1>4, <1>9, <2>1
  <2>4. \A k \in Mints, m2 \in Markets : m2 # m => balance'[k][m2] >= balance[k][m2]
    BY <1>1, <1>7
  <2> QED
    BY <1>1, <1>2, <1>4, <1>5, <1>8, <1>t, <2>2, <2>3, <2>4, PotsKept
<1>o. OthersKeep(user)
  BY <1>1, <1>2, <1>7 DEF OthersKeep
<1> QED
  BY <1>10, <1>11, <1>o DEF CoverInv

-----------------------------------------------------------------------------
(* Creation and the creator. *)

\* A new market starts with its whole supply in its account and owes nothing else.
LEMMA CreateKeeps ==
  ASSUME CoverInv, NEW creator \in Users, NEW m \in Markets, NEW mint \in Mints,
         create_market(creator, m, mint)
  PROVE  CoverInv' /\ OthersKeep(creator)
<1>1. /\ ~market[m].open /\ mint \notin Taxed /\ mint # m
      /\ UNCHANGED <<staking, position, plan, referral_account>>
      /\ Supply \in Nat
  BY AccountsAssumption DEF create_market, check_mint_extensions
<1>2. /\ \A m2 \in Markets : m2 \in Owners /\ m2 \in Mints
  BY OwnersDiffer
<1>t. /\ market \in MarketType /\ balance \in [Mints -> [Owners -> Nat]] /\ staking \in [Markets -> Nat]
  BY DEF CoverInv, TypeOK, MarketType
<1>3. market' = [market EXCEPT ![m] =
       [open |-> TRUE, creator |-> creator, quote_token_mint |-> mint, base_reserve |-> Supply,
        backing |-> 0, pending_creator_fees |-> 0, staking_fees |-> 0]]
  BY DEF create_market
<1>4. market' \in MarketType
  BY <1>1, <1>3, <1>t DEF MarketType
<1>5. balance' \in [Mints -> [Owners -> Nat]] /\ balance' = [balance EXCEPT ![m][m] = Supply]
  BY <1>1, <1>2, <1>t DEF create_market
<1>6. TypeOK'
  BY <1>1, <1>4, <1>5 DEF CoverInv, TypeOK, MarketType
<1>7. /\ \A m2 \in Markets : m2 # m => market'[m2] = market[m2]
      /\ market'[m].open /\ market'[m].quote_token_mint = mint /\ market'[m].base_reserve = Supply
      /\ market'[m].backing = 0 /\ market'[m].pending_creator_fees = 0 /\ market'[m].staking_fees = 0
  BY <1>3, <1>t DEF MarketType
<1>8. /\ balance'[m][m] = Supply
      /\ \A k \in Mints, o \in Owners : k # m \/ o # m => balance'[k][o] = balance[k][o]
  BY <1>2, <1>5, <1>t
<1>9. MarketsSound'
  BY <1>1, <1>7 DEF CoverInv, MarketsSound
<1>10. BaseCovered'
  <2>1. staking'[m] = 0
    BY <1>1 DEF CoverInv, MarketsSound
  <2> QED
    BY <1>1, <1>2, <1>7, <1>8, <2>1 DEF CoverInv, BaseCovered
<1>11. QuoteCovered'
  <2> SUFFICES ASSUME NEW m2 \in Markets, market'[m2].open
               PROVE  balance'[market'[m2].quote_token_mint][m2]
                        >= market'[m2].backing + market'[m2].pending_creator_fees + market'[m2].staking_fees
    BY DEF QuoteCovered
  <2>1. CASE m2 = m
    <3>1. balance'[mint][m] \in Nat
      BY <1>2, <1>5
    <3> QED
      BY <1>7, <2>1, <3>1
  <2>2. CASE m2 # m
    <3>1. market[m2].open /\ market'[m2] = market[m2] /\ market[m2].quote_token_mint \in Mints
      BY <1>7, <2>2 DEF CoverInv, MarketsSound
    <3>2. balance'[market[m2].quote_token_mint][m2] = balance[market[m2].quote_token_mint][m2]
      BY <1>2, <1>8, <2>2, <3>1
    <3> QED
      BY <3>1, <3>2 DEF CoverInv, QuoteCovered
  <2> QED
    BY <2>1, <2>2
<1>o. OthersKeep(creator)
  BY <1>1, <1>8, <1>t DEF OthersKeep
<1> QED
  BY <1>6, <1>9, <1>10, <1>11, <1>o DEF CoverInv

\* A payment of pending fees or rewards out of the quote pot, booked in one field.
LEMMA PayoutKeeps ==
  ASSUME CoverInv, NEW user \in Users, NEW m \in Markets, NEW quote_mint \in Mints, NEW amount \in Nat,
         HasMints(m, m, quote_mint), CanPay(quote_mint, m, amount),
         \/ /\ amount <= market[m].pending_creator_fees
            /\ market' = [market EXCEPT ![m].pending_creator_fees = market[m].pending_creator_fees - amount]
         \/ /\ amount <= market[m].staking_fees
            /\ market' = [market EXCEPT ![m].staking_fees = market[m].staking_fees - amount],
         balance' = Move(balance, quote_mint, m, user, amount),
         UNCHANGED <<staking, position, plan, referral_account>>
  PROVE  CoverInv' /\ OthersKeep(user)
<1>1. /\ quote_mint = market[m].quote_token_mint /\ quote_mint # m /\ market[m].open
      /\ m \in Mints /\ m \in Owners /\ user \in Owners /\ quote_mint \notin Taxed
      /\ \A m2 \in Markets : m2 \in Owners /\ user # m2
  BY NamedMarket, OwnersDiffer
<1>t. /\ market \in MarketType /\ balance \in [Mints -> [Owners -> Nat]] /\ staking \in [Markets -> Nat]
      /\ balance \in [Mints -> [Owners -> Int]]
  BY DEF CoverInv, TypeOK, MarketType
<1>2. Moved(balance, balance', quote_mint, m, user, amount, amount)
  BY <1>1, <1>t, MoveWhole
<1>3. ASSUME NEW k \in Mints, NEW o \in Owners
      PROVE  balance'[k][o] >= 0 /\ (o # m => balance'[k][o] >= balance[k][o])
  <2>1. balance[k][o] \in Nat /\ balance[quote_mint][m] >= amount
    BY <1>t DEF CanPay
  <2> QED
    BY <1>1, <1>2, <2>1 DEF Moved
<1>4. balance' \in [Mints -> [Owners -> Nat]]
  BY <1>2, <1>3 DEF Moved
<1>5. /\ balance[m][m] \in Nat /\ balance[quote_mint][m] \in Nat
      /\ balance'[m][m] = balance[m][m]
      /\ balance'[quote_mint][m] = balance[quote_mint][m] - amount
  <2>1. balance[m][m] \in Nat /\ balance[quote_mint][m] \in Nat
    BY <1>1, <1>t
  <2> QED
    BY <1>1, <1>2, <2>1 DEF Moved
<1>6. /\ market[m].base_reserve \in Nat /\ market[m].backing \in Nat
      /\ market[m].pending_creator_fees \in Nat /\ market[m].staking_fees \in Nat
  BY <1>t DEF MarketType
<1>7. market' \in MarketType
  <2>1. amount <= market[m].pending_creator_fees => market[m].pending_creator_fees - amount \in Nat
    BY <1>6
  <2>2. amount <= market[m].staking_fees => market[m].staking_fees - amount \in Nat
    BY <1>6
  <2>3. amount <= market[m].pending_creator_fees
          => [market EXCEPT ![m].pending_creator_fees = market[m].pending_creator_fees - amount] \in MarketType
    BY <1>t, <2>1, MarketFields
  <2>4. amount <= market[m].staking_fees
          => [market EXCEPT ![m].staking_fees = market[m].staking_fees - amount] \in MarketType
    BY <1>t, <2>2, MarketFields
  <2> QED
    BY <2>3, <2>4, Zenon
<1>8. /\ \A m2 \in Markets : m2 # m => market'[m2] = market[m2]
      /\ market'[m].open /\ market'[m].quote_token_mint = market[m].quote_token_mint
      /\ market'[m].base_reserve = market[m].base_reserve /\ market'[m].backing = market[m].backing
      /\ \/ /\ market'[m].pending_creator_fees = market[m].pending_creator_fees - amount
            /\ market'[m].staking_fees = market[m].staking_fees
         \/ /\ market'[m].pending_creator_fees = market[m].pending_creator_fees
            /\ market'[m].staking_fees = market[m].staking_fees - amount
  BY <1>1, <1>t DEF MarketType
<1>9. TypeOK'
  BY <1>4, <1>7 DEF CoverInv, TypeOK, MarketType
<1>10. MarketsSound' /\ BaseCovered' /\ QuoteCovered'
  <2>1. staking'[m] = staking[m] /\ staking[m] \in Nat /\ staking' \in [Markets -> Nat]
    BY <1>t
  <2>2. balance'[m][m] - balance[m][m]
          >= (market'[m].base_reserve - market[m].base_reserve) + (staking'[m] - staking[m])
    BY <1>5, <1>6, <1>8, <2>1
  <2>3. balance'[quote_mint][m] - balance[quote_mint][m]
          >= (market'[m].backing - market[m].backing)
                + (market'[m].pending_creator_fees - market[m].pending_creator_fees)
                + (market'[m].staking_fees - market[m].staking_fees)
    BY <1>5, <1>6, <1>8
  <2>4. \A k \in Mints, m2 \in Markets : m2 # m => balance'[k][m2] >= balance[k][m2]
    BY <1>1, <1>3
  <2> QED
    BY <1>1, <1>4, <1>7, <1>8, <2>1, <2>2, <2>3, <2>4, PotsKept
<1>o. OthersKeep(user)
  BY <1>1, <1>3 DEF OthersKeep
<1> QED
  BY <1>9, <1>10, <1>o DEF CoverInv

\* A new creator changes no amount.
LEMMA UpdateCreatorKeeps ==
  ASSUME CoverInv, NEW creator \in Users, NEW m \in Markets, NEW new_creator \in Users,
         update_creator(creator, m, new_creator)
  PROVE  CoverInv' /\ OthersKeep(creator)
<1>1. /\ market' = [market EXCEPT ![m].creator = new_creator]
      /\ UNCHANGED <<staking, position, plan, referral_account, balance>>
  BY DEF update_creator
<1>t. market \in MarketType
  BY DEF CoverInv, TypeOK, MarketType
<1>2. /\ market' \in MarketType
      /\ \A m2 \in Markets :
           /\ market'[m2].open = market[m2].open
           /\ market'[m2].quote_token_mint = market[m2].quote_token_mint
           /\ market'[m2].base_reserve = market[m2].base_reserve
           /\ market'[m2].backing = market[m2].backing
           /\ market'[m2].pending_creator_fees = market[m2].pending_creator_fees
           /\ market'[m2].staking_fees = market[m2].staking_fees
  BY <1>1, <1>t DEF MarketType
<1>3. TypeOK'
  BY <1>1, <1>2 DEF CoverInv, TypeOK, MarketType
<1>4. MarketsSound' /\ BaseCovered' /\ QuoteCovered'
  BY <1>1, <1>2 DEF CoverInv, MarketsSound, BaseCovered, QuoteCovered
<1>5. balance \in [Mints -> [Owners -> Nat]]
  BY DEF CoverInv, TypeOK
<1>o. OthersKeep(creator)
  BY <1>1, <1>5 DEF OthersKeep
<1> QED
  BY <1>3, <1>4, <1>o DEF CoverInv

-----------------------------------------------------------------------------
(* Staking. *)

\* What an operation on a stake does to the shares: one position and one total change.
LEMMA StakeEffect ==
  ASSUME TypeOK, NEW user \in Users, NEW m \in Markets, NEW s \in Markets, NEW pos \in Positions,
         NEW staked \in Int, NEW vested \in Int, UpdateStake(user, m, s, pos, staked, vested)
  PROVE  /\ market[m].open /\ s = m /\ pos = <<m, user>>
         /\ staking' \in [Markets -> Nat]
         /\ position' \in [Positions -> [amount_staked : Nat, total_amount_vested : Nat]]
         /\ staking'[m] = staking[m] + staked + vested
         /\ \A m2 \in Markets : m2 # m => staking'[m2] = staking[m2]
         /\ \A pos2 \in Positions : pos2 # pos => position'[pos2] = position[pos2]
<1>1. /\ market[m].open /\ s = m /\ pos[1] = m /\ pos[2] = user
      /\ position[pos].amount_staked + staked >= 0 /\ position[pos].total_amount_vested + vested >= 0
      /\ staking[m] + staked + vested >= 0
      /\ staking' = [staking EXCEPT ![m] = @ + staked + vested]
      /\ position' = [position EXCEPT ![pos] = [amount_staked |-> @.amount_staked + staked,
                                               total_amount_vested |-> @.total_amount_vested + vested]]
  BY DEF UpdateStake, StakeAccounts
<1>2. /\ staking \in [Markets -> Nat]
      /\ position \in [Positions -> [amount_staked : Nat, total_amount_vested : Nat]]
  BY DEF TypeOK
<1>3. pos = <<m, user>>
  BY <1>1 DEF Positions
<1>4. /\ position[pos].amount_staked + staked \in Nat
      /\ position[pos].total_amount_vested + vested \in Nat
  BY <1>1, <1>2
<1>5. position' \in [Positions -> [amount_staked : Nat, total_amount_vested : Nat]]
  BY <1>1, <1>2, <1>4
<1> QED
  BY <1>1, <1>2, <1>3, <1>5

\* Tokens that a user stakes or gets back move with the shares of the same market.
LEMMA StakeKeeps ==
  ASSUME CoverInv, NEW user \in Users, NEW m \in Markets, NEW s \in Markets, NEW pos \in Positions,
         NEW staked \in Int, NEW vested \in Int, UpdateStake(user, m, s, pos, staked, vested),
         NEW amount \in Nat,
         \/ /\ amount = staked + vested /\ CanPay(m, user, amount)
            /\ balance' = Move(balance, m, user, m, amount)
         \/ /\ amount = -(staked + vested) /\ CanPay(m, m, amount)
            /\ balance' = Move(balance, m, m, user, amount),
         plan' \in [Plans -> [stake_position : Positions \cup {None}, left : Nat]],
         UNCHANGED <<market, referral_account>>
  PROVE  CoverInv' /\ OthersKeep(user)
<1>1. /\ market[m].open /\ staking' \in [Markets -> Nat]
      /\ position' \in [Positions -> [amount_staked : Nat, total_amount_vested : Nat]]
      /\ staking'[m] = staking[m] + staked + vested
      /\ \A m2 \in Markets : m2 # m => staking'[m2] = staking[m2]
      /\ pos = <<m, user>> /\ \A pos2 \in Positions : pos2 # pos => position'[pos2] = position[pos2]
  BY StakeEffect DEF CoverInv
<1>2. /\ m \in Mints /\ m \in Owners /\ user \in Owners /\ m \notin Taxed
      /\ \A m2 \in Markets : m2 \in Owners /\ user # m2
  BY OwnersDiffer
<1>t. /\ market \in MarketType /\ balance \in [Mints -> [Owners -> Nat]] /\ staking \in [Markets -> Nat]
      /\ balance \in [Mints -> [Owners -> Int]]
  BY DEF CoverInv, TypeOK, MarketType
<1>3. \/ amount = staked + vested /\ CanPay(m, user, amount)
         /\ Moved(balance, balance', m, user, m, amount, amount)
      \/ amount = -(staked + vested) /\ CanPay(m, m, amount)
         /\ Moved(balance, balance', m, m, user, amount, amount)
  BY <1>2, <1>t, MoveWhole
<1>4. ASSUME NEW k \in Mints, NEW o \in Owners
      PROVE  /\ balance'[k][o] >= 0
             /\ o # user /\ o # m => balance'[k][o] >= balance[k][o]
             /\ k # m => balance'[k][o] = balance[k][o]
  <2>1. balance[k][o] \in Nat
    BY <1>t
  <2> QED
    BY <1>2, <1>3, <2>1 DEF Moved, CanPay
<1>5. balance' \in [Mints -> [Owners -> Nat]]
  BY <1>3, <1>4 DEF Moved
<1>6. balance'[m][m] = balance[m][m] + staked + vested /\ balance[m][m] \in Nat
  <2>1. balance[m][m] \in Nat /\ user # m /\ m \in Mints /\ m \in Owners
    BY <1>2, <1>t
  <2>2. CASE amount = staked + vested /\ Moved(balance, balance', m, user, m, amount, amount)
    <3>1. balance'[m][m] = balance[m][m] - 0 + amount
      BY <2>1, <2>2 DEF Moved
    <3> QED
      BY <2>1, <2>2, <3>1
  <2>3. CASE amount = -(staked + vested) /\ Moved(balance, balance', m, m, user, amount, amount)
    <3>1. balance'[m][m] = balance[m][m] - amount + 0
      BY <2>1, <2>3 DEF Moved
    <3> QED
      BY <2>1, <2>3, <3>1
  <2> QED
    BY <1>3, <2>2, <2>3
<1>7. TypeOK'
  BY <1>1, <1>5 DEF CoverInv, TypeOK
<1>8. MarketsSound' /\ BaseCovered' /\ QuoteCovered'
  <2> DEFINE q == market[m].quote_token_mint
  <2>1. q \in Mints /\ q # m
    BY <1>1 DEF CoverInv, MarketsSound
  <2> HIDE DEF q
  <2>2. /\ staking[m] \in Nat /\ market[m].base_reserve \in Nat /\ market[m].backing \in Nat
        /\ market[m].pending_creator_fees \in Nat /\ market[m].staking_fees \in Nat
        /\ balance[q][m] \in Nat
    BY <1>2, <1>t, <2>1 DEF MarketType
  <2>3. balance'[m][m] - balance[m][m]
          >= (market'[m].base_reserve - market[m].base_reserve) + (staking'[m] - staking[m])
    BY <1>1, <1>6, <2>2
  <2>4. balance'[q][m] - balance[q][m]
          >= (market'[m].backing - market[m].backing)
                + (market'[m].pending_creator_fees - market[m].pending_creator_fees)
                + (market'[m].staking_fees - market[m].staking_fees)
    BY <1>2, <1>4, <2>1, <2>2
  <2>5. \A k \in Mints, m2 \in Markets : m2 # m => balance'[k][m2] >= balance[k][m2]
    BY <1>2, <1>4
  <2>6. market' = market
    OBVIOUS
  <2> QED
    BY <1>1, <1>5, <1>t, <2>3, <2>4, <2>5, <2>6, PotsKept DEF q
<1>o. OthersKeep(user)
  BY <1>1, <1>2, <1>4 DEF OthersKeep, Positions
<1> QED
  BY <1>7, <1>8, <1>o DEF CoverInv

\* A claim of referral fees moves them between two accounts of the same referrer.
LEMMA ReferralKeeps ==
  ASSUME CoverInv, NEW user \in Users, NEW mint \in Mints, claim_referral_fees(user, user, mint)
  PROVE  CoverInv' /\ OthersKeep(user)
<1> DEFINE from == ReferralAccount(user)
           amount == balance[mint][from]
           got == Received(mint, amount)
<1>1. /\ from \in Owners /\ user \in Owners /\ from # user
      /\ \A m \in Markets : m \in Owners /\ m \in Mints /\ m # from
  BY OwnersDiffer
<1>t. balance \in [Mints -> [Owners -> Nat]] /\ balance \in [Mints -> [Owners -> Int]]
  BY DEF CoverInv, TypeOK
<1>2. balance' = Move(balance, mint, from, user, amount)
      /\ UNCHANGED <<market, staking, position, plan, referral_account>>
  BY DEF claim_referral_fees
<1>3. amount \in Nat
  BY <1>1, <1>t
<1>4. got \in Nat
  BY <1>3, ReceivedType
<1>5. Moved(balance, balance', mint, from, user, amount, got)
  BY <1>1, <1>2, <1>3, <1>t, MoveAt
<1>6. ASSUME NEW k \in Mints, NEW o \in Owners
      PROVE  balance'[k][o] >= 0 /\ (o # from => balance'[k][o] >= balance[k][o])
  <2>1. balance[k][o] \in Nat
    BY <1>t
  <2>2. balance'[k][o] = balance[k][o] - (IF k = mint /\ o = from THEN amount ELSE 0)
                           + (IF k = mint /\ o = user THEN got ELSE 0)
    BY <1>5 DEF Moved
  <2>3. k = mint /\ o = from => balance[k][o] = amount
    OBVIOUS
  <2> HIDE DEF amount, got, from
  <2> QED
    BY <1>1, <1>3, <1>4, <2>1, <2>2, <2>3
<1>7. balance' \in [Mints -> [Owners -> Nat]]
  BY <1>5, <1>6 DEF Moved
<1>8. TypeOK' /\ MarketsSound'
  BY <1>2, <1>7 DEF CoverInv, TypeOK, MarketsSound
<1>9. BaseCovered' /\ QuoteCovered'
  <2>1. ASSUME NEW k \in Mints, NEW m \in Markets
        PROVE  balance'[k][m] >= balance[k][m] /\ balance[k][m] \in Nat /\ balance'[k][m] \in Nat
    BY <1>1, <1>6, <1>7, <1>t
  <2>2. /\ market \in MarketType /\ staking \in [Markets -> Nat]
        /\ \A m \in Markets : market[m].open => market[m].quote_token_mint \in Mints
    BY DEF CoverInv, TypeOK, MarketType, MarketsSound
  <2>3. ASSUME NEW m \in Markets
        PROVE  balance'[m][m] >= market[m].base_reserve + staking[m]
    <3>1. balance[m][m] >= market[m].base_reserve + staking[m] /\ m \in Mints
      BY <1>1 DEF CoverInv, BaseCovered
    <3> QED
      BY <2>1, <2>2, <3>1 DEF MarketType
  <2>4. ASSUME NEW m \in Markets, market[m].open
        PROVE  balance'[market[m].quote_token_mint][m]
                 >= market[m].backing + market[m].pending_creator_fees + market[m].staking_fees
    <3>1. /\ balance[market[m].quote_token_mint][m]
               >= market[m].backing + market[m].pending_creator_fees + market[m].staking_fees
          /\ market[m].quote_token_mint \in Mints
      BY <2>2, <2>4 DEF CoverInv, QuoteCovered
    <3> QED
      BY <2>1, <2>2, <3>1 DEF MarketType
  <2> QED
    BY <1>2, <2>3, <2>4 DEF BaseCovered, QuoteCovered
<1>o. OthersKeep(user)
  BY <1>2, <1>6 DEF OthersKeep
<1> QED
  BY <1>8, <1>9, <1>o DEF CoverInv
-----------------------------------------------------------------------------
(* The program. *)

\* Initially there are no markets and the balances are what users own.
LEMMA InitCover == Init => CoverInv
<1> SUFFICES ASSUME Init PROVE CoverInv
  OBVIOUS
<1>1. InitialQuote \in Nat
  BY AccountsAssumption
<1>2. market \in MarketType
  BY DEF Init, NoMarket, MarketType
<1>3. balance \in [Mints -> [Owners -> Nat]]
  BY <1>1 DEF Init
<1>4. TypeOK
  BY <1>2, <1>3 DEF Init, TypeOK, MarketType
<1>5. \A m \in Markets : /\ ~market[m].open /\ market[m].base_reserve = 0 /\ staking[m] = 0
                         /\ m \in Mints /\ m \in Owners
  BY OwnersDiffer DEF Init, NoMarket
<1>6. MarketsSound /\ BaseCovered /\ QuoteCovered
  BY <1>3, <1>5 DEF MarketsSound, BaseCovered, QuoteCovered
<1> QED
  BY <1>4, <1>6 DEF CoverInv

\* Instructions on the stakes of a user.
LEMMA StakeSigned ==
  ASSUME CoverInv, NEW user \in Users, Stake(user)
  PROVE  CoverInv' /\ OthersKeep(user)
<1>1. PICK m \in Markets, s \in Markets, pos \in Positions, mint \in Mints, amount \in Amounts :
        \/ deposit(user, m, s, pos, mint, amount)
        \/ withdraw(user, m, s, pos, mint, amount)
        \/ claim_staking_rewards(user, m, s, pos, mint, amount)
        \/ \E p \in Plans : \/ create_vesting_plan(user, m, s, pos, p, mint, amount)
                            \/ release(user, m, s, pos, p, mint, amount)
  BY DEF Stake
<1>2. /\ amount \in Nat /\ amount \in Int /\ -amount \in Int /\ 0 \in Int
      /\ amount = amount + 0 /\ amount = 0 + amount
      /\ amount = -(-amount + 0) /\ amount = -(0 + (-amount))
  BY AccountsAssumption
<1>p. plan \in [Plans -> [stake_position : Positions \cup {None}, left : Nat]]
  BY DEF CoverInv, TypeOK
<1>3. CASE deposit(user, m, s, pos, mint, amount)
  <2>1. /\ UpdateStake(user, m, s, pos, amount, 0) /\ CanPay(m, user, amount)
        /\ balance' = Move(balance, m, user, m, amount) /\ UNCHANGED <<market, plan, referral_account>>
    BY <1>3 DEF deposit, BaseMint
  <2> QED
    BY <1>2, <1>p, <2>1, StakeKeeps
<1>4. CASE withdraw(user, m, s, pos, mint, amount)
  <2>1. /\ UpdateStake(user, m, s, pos, -amount, 0) /\ CanPay(m, m, amount)
        /\ balance' = Move(balance, m, m, user, amount) /\ UNCHANGED <<market, plan, referral_account>>
    BY <1>4 DEF withdraw, BaseMint
  <2> QED
    BY <1>2, <1>p, <2>1, StakeKeeps
<1>5. CASE claim_staking_rewards(user, m, s, pos, mint, amount)
  <2>1. /\ HasMints(m, m, mint) /\ amount <= market[m].staking_fees /\ CanPay(mint, m, amount)
        /\ market' = [market EXCEPT ![m].staking_fees = market[m].staking_fees - amount]
        /\ balance' = Move(balance, mint, m, user, amount)
        /\ UNCHANGED <<staking, position, plan, referral_account>>
    BY <1>5 DEF claim_staking_rewards
  <2> QED
    BY <1>2, <2>1, PayoutKeeps
<1>6. ASSUME NEW p \in Plans, create_vesting_plan(user, m, s, pos, p, mint, amount)
      PROVE  CoverInv' /\ OthersKeep(user)
  <2>1. /\ UpdateStake(user, m, s, pos, 0, amount) /\ CanPay(m, user, amount)
        /\ balance' = Move(balance, m, user, m, amount) /\ UNCHANGED <<market, referral_account>>
        /\ plan' = [plan EXCEPT ![p] = [stake_position |-> pos, left |-> amount]]
    BY <1>6 DEF create_vesting_plan, BaseMint
  <2>2. plan' \in [Plans -> [stake_position : Positions \cup {None}, left : Nat]]
    BY <1>2, <1>p, <2>1
  <2> QED
    BY <1>2, <2>1, <2>2, StakeKeeps
<1>7. ASSUME NEW p \in Plans, release(user, m, s, pos, p, mint, amount)
      PROVE  CoverInv' /\ OthersKeep(user)
  <2>1. /\ UpdateStake(user, m, s, pos, 0, -amount) /\ CanPay(m, m, amount)
        /\ balance' = Move(balance, m, m, user, amount) /\ UNCHANGED <<market, referral_account>>
        /\ plan' = [plan EXCEPT ![p].left = @ - amount] /\ amount <= plan[p].left
    BY <1>7 DEF release, BaseMint
  <2>2. plan' \in [Plans -> [stake_position : Positions \cup {None}, left : Nat]]
    <3>1. plan[p].left - amount \in Nat
      BY <1>2, <1>p, <2>1
    <3> QED
      BY <1>p, <2>1, <3>1
  <2> QED
    BY <1>2, <2>1, <2>2, StakeKeeps
<1> QED
  BY <1>1, <1>3, <1>4, <1>5, <1>6, <1>7

\* Whatever a user signs keeps the invariant and takes from nobody else.
LEMMA SignedKeeps ==
  ASSUME CoverInv, NEW user \in Users, Signed(user)
  PROVE  CoverInv' /\ OthersKeep(user)
<1>a. \A amount \in Amounts : amount \in Nat
  BY AccountsAssumption
<1>f. \A fee \in Fees : fee \in [creator : Nat, staking : Nat, referral : Nat]
  BY DEF Fees
<1>o. /\ \A m \in Markets : \A receiver \in Receivers(m) : receiver \in Owners
      /\ \A owner \in ReferralOwners : owner \in Owners
  <2>1. /\ Users \subseteq Owners /\ Markets \subseteq Owners
        /\ \A u \in Users : ReferralAccount(u) \in Owners
    BY OwnersDiffer
  <2>2. \A m \in Markets : \A receiver \in Receivers(m) : receiver \in Owners
    BY <2>1 DEF Receivers
  <2>3. \A owner \in ReferralOwners : owner \in Owners
    BY <2>1 DEF ReferralOwners
  <2> QED
    BY <2>2, <2>3
<1>1. CASE Launch(user)
  BY <1>1, CreateKeeps DEF Launch
<1>2. CASE Buy(user)
  <2>1. PICK m \in Markets, base_mint \in Mints, quote_mint \in Mints, base_amount \in Amounts,
             quote_amount \in Amounts, fee \in Fees, receiver \in Owners :
          IF fee.referral = 0
          THEN swap_buy(user, m, base_mint, quote_mint, receiver, None, base_amount, quote_amount, fee)
          ELSE \E referral \in [mint : Mints, owner : ReferralOwners] :
                 swap_buy(user, m, base_mint, quote_mint, receiver, referral, base_amount, quote_amount, fee)
    BY <1>2, <1>o DEF Buy
  <2>2. /\ base_amount \in Nat /\ quote_amount \in Nat /\ receiver \in Owners
        /\ fee \in [creator : Nat, staking : Nat, referral : Nat]
    BY <1>a, <1>f, <1>o
  <2>3. CASE fee.referral = 0
    <3>1. swap_buy(user, m, base_mint, quote_mint, receiver, None, base_amount, quote_amount, fee)
      BY <2>1, <2>3
    <3>2. fee.referral > 0 => None.owner \in Owners
      BY <2>3
    <3> QED
      BY <2>2, <3>1, <3>2, BuyKeeps
  <2>4. CASE fee.referral # 0
    <3>1. PICK referral \in [mint : Mints, owner : ReferralOwners] :
            swap_buy(user, m, base_mint, quote_mint, receiver, referral, base_amount, quote_amount, fee)
      BY <2>1, <2>4
    <3>2. fee.referral > 0 => referral.owner \in Owners
      BY <1>o
    <3> QED
      BY <2>2, <3>1, <3>2, BuyKeeps
  <2> QED
    BY <2>3, <2>4
<1>3. CASE Sell(user)
  <2>1. PICK m \in Markets, base_mint \in Mints, quote_mint \in Mints,
             base_amount \in Amounts, quote_amount \in Amounts, receiver \in Owners :
          swap_sell(user, m, base_mint, quote_mint, receiver, base_amount, quote_amount)
    BY <1>3, <1>o DEF Sell
  <2>2. base_amount \in Nat /\ quote_amount \in Nat /\ receiver \in Owners
    BY <1>a, <1>o
  <2> QED
    BY <2>1, <2>2, SellKeeps
<1>4. CASE Create(user)
  <2>1. ASSUME NEW m \in Markets, NEW new_creator \in Users, update_creator(user, m, new_creator)
        PROVE  CoverInv' /\ OthersKeep(user)
    BY <2>1, UpdateCreatorKeeps
  <2>2. ASSUME NEW m \in Markets, NEW mint \in Mints, claim_creator_fees(user, m, mint)
        PROVE  CoverInv' /\ OthersKeep(user)
    <3> DEFINE amount == market[m].pending_creator_fees
    <3>1. amount \in Nat /\ amount <= amount /\ amount - amount = 0
      BY DEF CoverInv, TypeOK
    <3>2. /\ HasMints(m, m, mint) /\ CanPay(mint, m, amount)
          /\ market' = [market EXCEPT ![m].pending_creator_fees = 0]
          /\ balance' = Move(balance, mint, m, user, amount)
          /\ user = market[m].creator
          /\ UNCHANGED <<staking, position, plan, referral_account>>
      BY <2>2 DEF claim_creator_fees
    <3>3. market' = [market EXCEPT ![m].pending_creator_fees = market[m].pending_creator_fees - amount]
      BY <3>1, <3>2
    <3> QED
      BY <3>1, <3>2, <3>3, PayoutKeeps
  <2> QED
    BY <1>4, <2>1, <2>2 DEF Create
<1>5. CASE Stake(user)
  BY <1>5, StakeSigned
<1>6. CASE Refer(user)
  <2>1. ASSUME NEW referrer \in Users, create_referral_account(user, referrer)
        PROVE  CoverInv' /\ OthersKeep(user)
    <3>1. /\ referral_account' = referral_account \cup {referrer}
          /\ UNCHANGED <<market, staking, position, plan, balance>>
      BY <2>1 DEF create_referral_account
    <3>2. CoverInv'
      BY <3>1 DEF CoverInv, TypeOK, MarketsSound, BaseCovered, QuoteCovered
    <3>3. balance \in [Mints -> [Owners -> Nat]]
      BY DEF CoverInv, TypeOK
    <3> QED
      BY <3>1, <3>2, <3>3 DEF OthersKeep
  <2>2. ASSUME NEW referrer \in Users, NEW mint \in Mints, claim_referral_fees(user, referrer, mint)
        PROVE  CoverInv' /\ OthersKeep(user)
    <3>1. referrer = user
      BY <2>2 DEF claim_referral_fees
    <3> QED
      BY <2>2, <3>1, ReferralKeeps
  <2> QED
    BY <1>6, <2>1, <2>2 DEF Refer
<1> QED
  BY <1>1, <1>2, <1>3, <1>4, <1>5, <1>6 DEF Signed

\* Every step keeps the invariant.
LEMMA StepCover == CoverInv /\ [Next]_vars => CoverInv'
<1> SUFFICES ASSUME CoverInv, [Next]_vars PROVE CoverInv'
  OBVIOUS
<1>1. CASE UNCHANGED vars
  BY <1>1 DEF vars, CoverInv, TypeOK, MarketsSound, BaseCovered, QuoteCovered
<1>2. CASE Next
  BY <1>2, SignedKeeps DEF Next
<1> QED
  BY <1>1, <1>2

\* The holdings of a user get less in no step that somebody else signs.
LEMMA StepSigned ==
  CoverInv /\ [Next]_vars
    => [\A user \in Users, mint \in Mints :
          Holdings(user, mint)' < Holdings(user, mint) => Signed(user)]_vars
<1> SUFFICES ASSUME CoverInv, [Next]_vars, NEW w \in Users, NEW mint \in Mints,
                    vars' # vars, ~Signed(w)
             PROVE  ~(Holdings(w, mint)' < Holdings(w, mint))
  OBVIOUS
<1>1. PICK user \in Users : Signed(user)
  BY DEF Next
<1>2. user # w /\ OthersKeep(user) /\ CoverInv'
  BY <1>1, SignedKeeps
<1>3. /\ w \in Owners /\ ReferralAccount(w) \in Owners
      /\ w \notin Markets \cup {user, ReferralAccount(user)}
      /\ ReferralAccount(w) \notin Markets \cup {user, ReferralAccount(user)}
  BY <1>2, OwnersDiffer
<1>4. /\ balance'[mint][w] >= balance[mint][w]
      /\ balance'[mint][ReferralAccount(w)] >= balance[mint][ReferralAccount(w)]
  BY <1>2, <1>3 DEF OthersKeep
<1>5. \A m \in Markets : <<m, w>> \in Positions /\ position'[<<m, w>>] = position[<<m, w>>]
  BY <1>2 DEF OthersKeep, Positions
<1>6. /\ balance[mint][w] \in Nat /\ balance'[mint][w] \in Nat
      /\ balance[mint][ReferralAccount(w)] \in Nat /\ balance'[mint][ReferralAccount(w)] \in Nat
      /\ \A m \in Markets : SharesOf(<<m, w>>) \in Nat
  BY <1>2, <1>3, <1>5 DEF CoverInv, TypeOK, SharesOf
<1> DEFINE shares == IF mint \in Markets THEN SharesOf(<<mint, w>>) ELSE 0
<1>7. /\ Holdings(w, mint) = balance[mint][w] + balance[mint][ReferralAccount(w)] + shares
      /\ Holdings(w, mint)' = balance'[mint][w] + balance'[mint][ReferralAccount(w)] + shares
      /\ shares \in Nat
  BY <1>5, <1>6 DEF Holdings, SharesOf, ReferralAccount
<1> HIDE DEF shares
<1> QED
  BY <1>4, <1>6, <1>7

\* Balances, shares, pots and plans stay whole numbers: no combination of accounts takes back
\* more than was there.
THEOREM TypeCorrect == Spec => []TypeOK
<1>1. Init => CoverInv
  BY InitCover
<1>2. CoverInv /\ [Next]_vars => CoverInv'
  BY StepCover
<1>3. CoverInv => TypeOK
  BY DEF CoverInv
<1> QED
  BY <1>1, <1>2, <1>3, PTL DEF Spec

\* The base account of every market covers its reserve and its stakes, whatever accounts are
\* passed to whatever instruction.
THEOREM BaseAlwaysCovered == Spec => []BaseCovered
<1>1. Init => CoverInv
  BY InitCover
<1>2. CoverInv /\ [Next]_vars => CoverInv'
  BY StepCover
<1>3. CoverInv => BaseCovered
  BY DEF CoverInv
<1> QED
  BY <1>1, <1>2, <1>3, PTL DEF Spec

\* The quote account of every market covers its backing and both kinds of fees, also when the
\* quote token is another market's base token.
THEOREM QuoteAlwaysCovered == Spec => []QuoteCovered
<1>1. Init => CoverInv
  BY InitCover
<1>2. CoverInv /\ [Next]_vars => CoverInv'
  BY StepCover
<1>3. CoverInv => QuoteCovered
  BY DEF CoverInv
<1> QED
  BY <1>1, <1>2, <1>3, PTL DEF Spec

\* Nobody loses tokens, stakes or referral fees by an instruction that somebody else signed.
THEOREM OnlySignersEverPay == Spec => OnlySignersPay
<1>1. Init => CoverInv
  BY InitCover
<1>2. CoverInv /\ [Next]_vars => CoverInv'
  BY StepCover
<1>3. CoverInv /\ [Next]_vars
        => [\A user \in Users, mint \in Mints :
              Holdings(user, mint)' < Holdings(user, mint) => Signed(user)]_vars
  BY StepSigned
<1> QED
  BY <1>1, <1>2, <1>3, PTL DEF Spec, OnlySignersPay

-----------------------------------------------------------------------------
(* Sums over a finite set. *)

\* The listing of a finite set has each member of the set once.
LEMMA ListingOnce ==
  ASSUME NEW S, IsFiniteSet(S)
  PROVE  /\ Cardinality(S) \in Nat
         /\ Listing(S) \in [1..Cardinality(S) -> S]
         /\ \A i, j \in 1..Cardinality(S) : Listing(S)[i] = Listing(S)[j] => i = j
         /\ \A x \in S : \E i \in 1..Cardinality(S) : Listing(S)[i] = x
<1> DEFINE n == Cardinality(S)
<1>1. n \in Nat /\ ExistsBijection(1..n, S)
  BY FS_CardinalityType
<1> HIDE DEF n
<1>2. PICK l \in [1..n -> S] : /\ \A i, j \in 1..n : l[i] = l[j] => i = j
                               /\ \A x \in S : \E i \in 1..n : l[i] = x
  BY <1>1 DEF ExistsBijection, Bijection, Injection, Surjection, IsInjective
<1>3. /\ Listing(S) \in [1..n -> S]
      /\ \A i, j \in 1..n : Listing(S)[i] = Listing(S)[j] => i = j
      /\ \A x \in S : \E i \in 1..n : Listing(S)[i] = x
  BY <1>2 DEF Listing, n
<1> QED
  BY <1>1, <1>3 DEF n

\* A change of one value changes the sum by as much.
LEMMA SumOverUpdate ==
  ASSUME NEW S, IsFiniteSet(S), NEW f \in [S -> Int], NEW g \in [S -> Int],
         NEW x \in S, \A y \in S : y # x => g[y] = f[y]
  PROVE  SumOver(f, S) \in Int /\ SumOver(g, S) = SumOver(f, S) + (g[x] - f[x])
<1> DEFINE n == Cardinality(S)
           l == Listing(S)
           lf == [i \in 1..n |-> f[l[i]]]
           lg == [i \in 1..n |-> g[l[i]]]
<1>1. /\ n \in Nat /\ l \in [1..n -> S]
      /\ \A i, j \in 1..n : l[i] = l[j] => i = j
      /\ \A y \in S : \E i \in 1..n : l[i] = y
  BY ListingOnce
<1>2. SumOver(f, S) = SumTo(lf, n) /\ SumOver(g, S) = SumTo(lg, n)
  BY DEF SumOver
<1> HIDE DEF n, l
<1>3. lf \in [1..n -> Int] /\ lg \in [1..n -> Int]
  BY <1>1
<1>4. PICK k \in 1..n : l[k] = x
  BY <1>1
<1>5. \A i \in 1..n : i # k => lg[i] = lf[i]
  BY <1>1, <1>4
<1>6. lf[k] = f[x] /\ lg[k] = g[x]
  BY <1>4
<1> HIDE DEF lf, lg
<1>7. SumTo(lg, n) = SumTo(lf, n) + (lg[k] - lf[k]) /\ SumTo(lf, n) \in Int
  BY <1>1, <1>3, <1>5, SumUpdate, SumInt
<1> QED
  BY <1>2, <1>6, <1>7

\* A sum of zeros is 0.
LEMMA SumOverZero ==
  ASSUME NEW S, IsFiniteSet(S), NEW f \in [S -> Int], \A x \in S : f[x] = 0
  PROVE  SumOver(f, S) = 0
<1> DEFINE n == Cardinality(S)
           l == Listing(S)
           lf == [i \in 1..n |-> f[l[i]]]
<1>1. n \in Nat /\ l \in [1..n -> S]
  BY ListingOnce
<1>2. SumOver(f, S) = SumTo(lf, n)
  BY DEF SumOver
<1> HIDE DEF n, l
<1>3. lf \in [1..n -> Int] /\ \A i \in 1..n : lf[i] = 0
  BY <1>1
<1> HIDE DEF lf
<1>4. SumTo(lf, n) = n * 0
  BY <1>1, <1>3, SumConstant
<1> QED
  BY <1>1, <1>2, <1>4

-----------------------------------------------------------------------------
(* Shares, positions and plans. *)

\* The shares of a market's positions, and what plans have still to release through a position.
SharesIn(m) == [u \in Users |-> SharesOf(<<m, u>>)]
LeftIn(pos) == [p \in Plans |-> LeftFor(pos, p)]

LinkInv ==
  /\ TypeOK
  /\ \A m \in Markets : staking[m] = SumOver(SharesIn(m), Users)
  /\ \A pos \in Positions : position[pos].total_amount_vested = SumOver(LeftIn(pos), Plans)

\* The terms of both sums are numbers.
Summable ==
  /\ \A m \in Markets : SharesIn(m) \in [Users -> Int]
  /\ \A pos \in Positions : LeftIn(pos) \in [Plans -> Int]

LEMMA LinkTypes == TypeOK => Summable
<1> SUFFICES ASSUME TypeOK PROVE Summable
  OBVIOUS
<1>1. \A pos \in Positions : SharesOf(pos) \in Int
  BY DEF TypeOK, SharesOf
<1>2. \A pos \in Positions, p \in Plans : LeftFor(pos, p) \in Int
  BY DEF TypeOK, LeftFor
<1>3. \A m \in Markets, u \in Users : <<m, u>> \in Positions
  BY DEF Positions
<1> QED
  BY <1>1, <1>2, <1>3 DEF SharesIn, LeftIn, Summable

\* An operation on a stake whose plan, if it names one, changes by what is vested.
LEMMA StakeLinks ==
  ASSUME LinkInv, TypeOK', NEW user \in Users, NEW m \in Markets, NEW s \in Markets, NEW pos \in Positions,
         NEW staked \in Int, NEW vested \in Int, UpdateStake(user, m, s, pos, staked, vested),
         \/ vested = 0 /\ plan' = plan
         \/ \E p \in Plans : /\ LeftFor(pos, p)' = LeftFor(pos, p) + vested
                             /\ \A q \in Plans : q # p => plan'[q] = plan[q]
                             /\ \A pos2 \in Positions :
                                  pos2 # pos => LeftFor(pos2, p)' = 0 /\ LeftFor(pos2, p) = 0
  PROVE  LinkInv'
<1>1. /\ pos = <<m, user>> /\ IsFiniteSet(Users) /\ IsFiniteSet(Plans)
      /\ staking'[m] = staking[m] + staked + vested
      /\ \A m2 \in Markets : m2 # m => staking'[m2] = staking[m2]
      /\ \A pos2 \in Positions : pos2 # pos => position'[pos2] = position[pos2]
  BY StakeEffect, AccountsAssumption DEF LinkInv
<1>2. /\ \A m2 \in Markets : SharesIn(m2) \in [Users -> Int] /\ SharesIn(m2)' \in [Users -> Int]
      /\ \A pos2 \in Positions : LeftIn(pos2) \in [Plans -> Int] /\ LeftIn(pos2)' \in [Plans -> Int]
  <2>1. Summable
    BY LinkTypes DEF LinkInv
  <2>2. Summable'
    BY LinkTypes, PTL
  <2> QED
    BY <2>1, <2>2 DEF Summable
<1>3. /\ position'[pos].amount_staked = position[pos].amount_staked + staked
      /\ position'[pos].total_amount_vested = position[pos].total_amount_vested + vested
      /\ position[pos].amount_staked \in Nat /\ position[pos].total_amount_vested \in Nat
      /\ staking[m] \in Nat
  BY DEF UpdateStake, LinkInv, TypeOK
<1>4. ASSUME NEW m2 \in Markets PROVE staking'[m2] = SumOver(SharesIn(m2)', Users)
  <2>1. /\ \A u \in Users : SharesIn(m2)[u] = SharesOf(<<m2, u>>)
        /\ \A u \in Users : SharesIn(m2)'[u] = SharesOf(<<m2, u>>)'
        /\ \A u \in Users : <<m2, u>> \in Positions
        /\ staking[m2] = SumOver(SharesIn(m2), Users)
    BY DEF SharesIn, Positions, LinkInv
  <2>2. CASE m2 = m
    <3>1. \A u \in Users : u # user => SharesIn(m)'[u] = SharesIn(m)[u]
      <4>1. \A u \in Users : u # user => <<m, u>> \in Positions /\ <<m, u>> # pos
        BY <1>1, <2>1, <2>2
      <4>2. \A u \in Users : u # user => SharesOf(<<m, u>>)' = SharesOf(<<m, u>>)
        BY <1>1, <4>1 DEF SharesOf
      <4> QED
        BY <2>1, <2>2, <4>2
    <3>2. SharesIn(m)'[user] = SharesIn(m)[user] + staked + vested /\ SharesIn(m)[user] \in Int
      BY <1>1, <1>3, <2>1, <2>2 DEF SharesOf
    <3>3. /\ SumOver(SharesIn(m)', Users)
               = SumOver(SharesIn(m), Users) + (SharesIn(m)'[user] - SharesIn(m)[user])
          /\ SumOver(SharesIn(m), Users) \in Int
      BY <1>1, <1>2, <3>1, SumOverUpdate
    <3> QED
      BY <1>1, <2>1, <2>2, <3>2, <3>3
  <2>3. CASE m2 # m
    <3>1. \A u \in Users : SharesOf(<<m2, u>>)' = SharesOf(<<m2, u>>)
      BY <1>1, <2>1, <2>3 DEF SharesOf
    <3>2. SharesIn(m2)' = SharesIn(m2)
      BY <3>1 DEF SharesIn
    <3> QED
      BY <1>1, <2>1, <2>3, <3>2
  <2> QED
    BY <2>2, <2>3
<1>5. ASSUME NEW pos2 \in Positions
      PROVE  position'[pos2].total_amount_vested = SumOver(LeftIn(pos2)', Plans)
  <2>1. /\ position[pos2].total_amount_vested = SumOver(LeftIn(pos2), Plans)
        /\ \A q \in Plans : LeftIn(pos2)[q] = LeftFor(pos2, q) /\ LeftIn(pos2)'[q] = LeftFor(pos2, q)'
    BY DEF LinkInv, LeftIn
  <2>2. CASE vested = 0 /\ plan' = plan
    <3>1. LeftIn(pos2)' = LeftIn(pos2)
      BY <2>2 DEF LeftIn, LeftFor
    <3>2. position'[pos2].total_amount_vested = position[pos2].total_amount_vested
      BY <1>1, <1>3, <2>2
    <3> QED
      BY <2>1, <3>1, <3>2
  <2>3. ASSUME NEW p \in Plans, LeftFor(pos, p)' = LeftFor(pos, p) + vested,
               \A q \in Plans : q # p => plan'[q] = plan[q],
               \A pos3 \in Positions : pos3 # pos => LeftFor(pos3, p)' = 0 /\ LeftFor(pos3, p) = 0
        PROVE  position'[pos2].total_amount_vested = SumOver(LeftIn(pos2)', Plans)
    <3>1. \A q \in Plans : q # p => LeftIn(pos2)'[q] = LeftIn(pos2)[q]
      BY <2>1, <2>3 DEF LeftFor
    <3>2. /\ SumOver(LeftIn(pos2)', Plans)
               = SumOver(LeftIn(pos2), Plans) + (LeftIn(pos2)'[p] - LeftIn(pos2)[p])
          /\ SumOver(LeftIn(pos2), Plans) \in Int
      <4>1. LeftIn(pos2) \in [Plans -> Int] /\ LeftIn(pos2)' \in [Plans -> Int] /\ p \in Plans
        BY <1>2, <2>3
      <4> QED
        BY <1>1, <3>1, <4>1, SumOverUpdate
    <3>3. LeftIn(pos2)'[p] = LeftFor(pos2, p)' /\ LeftIn(pos2)[p] = LeftFor(pos2, p)
          /\ LeftIn(pos2)[p] \in Int
      BY <1>2, <2>1
    <3>4. CASE pos2 = pos
      BY <1>3, <2>1, <2>3, <3>2, <3>3, <3>4
    <3>5. CASE pos2 # pos
      BY <1>1, <2>1, <2>3, <3>2, <3>3, <3>5
    <3> QED
      BY <3>4, <3>5
  <2> QED
    BY <2>2, <2>3
<1> QED
  BY <1>4, <1>5 DEF LinkInv

\* Instructions that leave stakes and plans alone leave the sums alone.
LEMMA AsideLinks ==
  ASSUME LinkInv, TypeOK', UNCHANGED <<staking, position, plan>>
  PROVE  LinkInv'
<1>1. /\ \A m \in Markets : SharesIn(m)' = SharesIn(m)
      /\ \A pos \in Positions : LeftIn(pos)' = LeftIn(pos)
  BY DEF SharesIn, LeftIn, SharesOf, LeftFor
<1> QED
  BY <1>1 DEF LinkInv

\* Every step keeps the links.
LEMMA StepLinks == LinkInv /\ TypeOK' /\ [Next]_vars => LinkInv'
<1> SUFFICES ASSUME LinkInv, TypeOK', [Next]_vars PROVE LinkInv'
  OBVIOUS
<1>1. /\ \A amount \in Amounts : amount \in Nat /\ -amount \in Int /\ 0 \in Int
      /\ None \notin Positions /\ TypeOK
  BY AccountsAssumption DEF Positions, LinkInv
<1>2. CASE UNCHANGED vars
  BY <1>2, AsideLinks DEF vars
<1>3. ASSUME NEW user \in Users, Launch(user) \/ Buy(user) \/ Sell(user) \/ Create(user) \/ Refer(user)
      PROVE  LinkInv'
  <2>1. UNCHANGED <<staking, position, plan>>
    <3>1. CASE Launch(user)
      BY <3>1 DEF Launch, create_market
    <3>2. CASE Buy(user)
      <4>1. ASSUME NEW m, NEW b, NEW q, NEW receiver, NEW referral, NEW x, NEW y, NEW fee,
                   swap_buy(user, m, b, q, receiver, referral, x, y, fee)
            PROVE  UNCHANGED <<staking, position, plan>>
        BY <4>1 DEF swap_buy
      <4> QED
        BY <3>2, <4>1 DEF Buy
    <3>3. CASE Sell(user)
      <4>1. ASSUME NEW m, NEW b, NEW q, NEW receiver, NEW x, NEW y, swap_sell(user, m, b, q, receiver, x, y)
            PROVE  UNCHANGED <<staking, position, plan>>
        BY <4>1 DEF swap_sell
      <4> QED
        BY <3>3, <4>1 DEF Sell
    <3>4. CASE Create(user)
      BY <3>4 DEF Create, update_creator, claim_creator_fees
    <3>5. CASE Refer(user)
      BY <3>5 DEF Refer, create_referral_account, claim_referral_fees
    <3> QED
      BY <1>3, <3>1, <3>2, <3>3, <3>4, <3>5
  <2> QED
    BY <2>1, AsideLinks
<1>4. ASSUME NEW user \in Users, Stake(user) PROVE LinkInv'
  <2>1. PICK m \in Markets, s \in Markets, pos \in Positions, mint \in Mints, amount \in Amounts :
          \/ deposit(user, m, s, pos, mint, amount)
          \/ withdraw(user, m, s, pos, mint, amount)
          \/ claim_staking_rewards(user, m, s, pos, mint, amount)
          \/ \E p \in Plans : \/ create_vesting_plan(user, m, s, pos, p, mint, amount)
                              \/ release(user, m, s, pos, p, mint, amount)
    BY <1>4 DEF Stake
  <2>2. amount \in Nat /\ amount \in Int /\ -amount \in Int /\ 0 \in Int
    BY <1>1
  <2>3. CASE deposit(user, m, s, pos, mint, amount)
    <3>1. UpdateStake(user, m, s, pos, amount, 0) /\ plan' = plan
      BY <2>3 DEF deposit
    <3> QED
      BY <2>2, <3>1, StakeLinks
  <2>4. CASE withdraw(user, m, s, pos, mint, amount)
    <3>1. UpdateStake(user, m, s, pos, -amount, 0) /\ plan' = plan
      BY <2>4 DEF withdraw
    <3> QED
      BY <2>2, <3>1, StakeLinks
  <2>5. CASE claim_staking_rewards(user, m, s, pos, mint, amount)
    <3>1. UNCHANGED <<staking, position, plan>>
      BY <2>5 DEF claim_staking_rewards
    <3> QED
      BY <3>1, AsideLinks
  <2>6. ASSUME NEW p \in Plans, create_vesting_plan(user, m, s, pos, p, mint, amount) PROVE LinkInv'
    <3>1. /\ UpdateStake(user, m, s, pos, 0, amount) /\ plan[p].stake_position = None
          /\ plan' = [plan EXCEPT ![p] = [stake_position |-> pos, left |-> amount]]
      BY <2>6 DEF create_vesting_plan
    <3>2. plan'[p] = [stake_position |-> pos, left |-> amount] /\ \A q \in Plans : q # p => plan'[q] = plan[q]
      BY <1>1, <3>1 DEF TypeOK
    <3>3. \A pos2 \in Positions : LeftFor(pos2, p) = 0
      BY <1>1, <3>1 DEF LeftFor
    <3>4. LeftFor(pos, p)' = LeftFor(pos, p) + amount
      BY <2>2, <3>2, <3>3 DEF LeftFor
    <3>5. \A pos2 \in Positions : pos2 # pos => LeftFor(pos2, p)' = 0
      BY <3>2 DEF LeftFor
    <3> QED
      BY <2>2, <3>1, <3>2, <3>3, <3>4, <3>5, StakeLinks
  <2>7. ASSUME NEW p \in Plans, release(user, m, s, pos, p, mint, amount) PROVE LinkInv'
    <3>1. /\ UpdateStake(user, m, s, pos, 0, -amount) /\ plan[p].stake_position = pos
          /\ plan' = [plan EXCEPT ![p].left = @ - amount]
      BY <2>7 DEF release, PlanOf
    <3>2. /\ plan'[p].stake_position = pos /\ plan'[p].left = plan[p].left - amount
          /\ plan[p].left \in Nat /\ \A q \in Plans : q # p => plan'[q] = plan[q]
      BY <1>1, <3>1 DEF TypeOK
    <3>3. \A pos2 \in Positions : pos2 # pos => LeftFor(pos2, p) = 0 /\ LeftFor(pos2, p)' = 0
      BY <3>1, <3>2 DEF LeftFor
    <3>4. LeftFor(pos, p)' = LeftFor(pos, p) + (-amount)
      BY <2>2, <3>1, <3>2 DEF LeftFor
    <3> QED
      BY <2>2, <3>1, <3>2, <3>3, <3>4, StakeLinks
  <2> QED
    BY <2>1, <2>3, <2>4, <2>5, <2>6, <2>7
<1> QED
  BY <1>2, <1>3, <1>4 DEF Next, Signed

\* No stakes and no plans are linked.
LEMMA InitLinks == Init => LinkInv
<1> SUFFICES ASSUME Init PROVE LinkInv
  OBVIOUS
<1>1. TypeOK /\ IsFiniteSet(Users) /\ IsFiniteSet(Plans)
  BY InitCover, AccountsAssumption DEF CoverInv
<1>2. ASSUME NEW m \in Markets PROVE staking[m] = SumOver(SharesIn(m), Users)
  <2>1. \A u \in Users : SharesIn(m)[u] = 0
    BY DEF Init, SharesIn, SharesOf, Positions
  <2> QED
    BY <1>1, <2>1, LinkTypes, SumOverZero DEF Init, Summable
<1>3. ASSUME NEW pos \in Positions
      PROVE  position[pos].total_amount_vested = SumOver(LeftIn(pos), Plans)
  <2>1. \A p \in Plans : LeftIn(pos)[p] = 0
    BY DEF Init, LeftIn, LeftFor
  <2> QED
    BY <1>1, <2>1, LinkTypes, SumOverZero DEF Init, Summable
<1> QED
  BY <1>1, <1>2, <1>3 DEF LinkInv

\* Whatever staking account, position, plan and mint an instruction is given, the shares of a
\* market are those of its positions and vested shares are those of their plans (has_one and
\* seeds of instructions/staking/deposit.rs and instructions/vesting/release.rs).
THEOREM SharesAlwaysLinked == Spec => []SharesLinked
<1>1. LinkInv => SharesLinked
  BY DEF LinkInv, SharesLinked, SharesIn, LeftIn
<1> QED
  BY <1>1, InitLinks, StepLinks, TypeCorrect, PTL DEF Spec
=============================================================================
