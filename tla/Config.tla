------------------------------- MODULE Config -------------------------------
(***************************************************************************)
(* The TokenMillConfig accounts with the two-step handover of their        *)
(* authority, the QuoteTokenBadge accounts, and what market creation asks  *)
(* of both.  Several configurations exist side by side: create_config is   *)
(* open to everybody.  Handlers are atomic, as in Market.                  *)
(***************************************************************************)
EXTENDS Integers, FiniteSets

CONSTANTS
  Configs,         \* TokenMillConfig accounts
  Keys,            \* who may sign, be named authority or receive protocol fees
  Mints,           \* quote token mints
  Supported,       \* the mints that check_mint_extensions accepts
  Markets,         \* market accounts
  MAX_BPS,         \* 100% in basis points
  FeeShares,       \* fee shares that are asked for
  None             \* Option::None

ASSUME ConfigAssumption ==
  /\ Supported \subseteq Mints
  /\ MAX_BPS \in Nat /\ FeeShares \subseteq Nat
  /\ None \notin Keys

VARIABLES
  config,          \* the configurations
  badge,           \* badge[c][mint]: status of the badge of a mint under a configuration
  market,          \* the Market accounts, as far as permissions go
  nomination,      \* auxiliary: who said last who shall follow as authority, and whom
  signer           \* auxiliary: who signed the last instruction

vars == <<config, badge, market, nomination, signer>>

Shares == 0..MAX_BPS
Statuses == {"Absent", "Disabled", "Enabled"}
Badges == Configs \X Mints

NoConfig == [open |-> FALSE, authority |-> None, pending_authority |-> None,
             protocol_fee_recipient |-> None, default_protocol_fee_share |-> 0,
             referral_fee_share |-> 0]
NoMarket == [open |-> FALSE, config |-> None, quote_token_mint |-> None, creator |-> None,
             badge |-> None]

Init ==
  /\ config = [c \in Configs |-> NoConfig]
  /\ badge = [c \in Configs |-> [mint \in Mints |-> "Absent"]]
  /\ market = [m \in Markets |-> NoMarket]
  /\ nomination = [c \in Configs |-> [by |-> None, whom |-> None]]
  /\ signer = None

-----------------------------------------------------------------------------
(* The configuration. *)

\* Mutant: the bounds of the shares are not checked.
create_config_unbounded(payer, c, authority, recipient, protocol_fee_share, referral_fee_share) ==
  /\ ~config[c].open
  /\ config' = [config EXCEPT ![c] =
       [open |-> TRUE, authority |-> authority, pending_authority |-> None,
        protocol_fee_recipient |-> recipient, default_protocol_fee_share |-> protocol_fee_share,
        referral_fee_share |-> referral_fee_share]]
  /\ signer' = payer
  /\ UNCHANGED <<badge, market, nomination>>

create_config(payer, c, authority, recipient, protocol_fee_share, referral_fee_share) ==
  /\ ~config[c].open
  /\ protocol_fee_share <= MAX_BPS /\ referral_fee_share <= MAX_BPS
  /\ config' = [config EXCEPT ![c] =
       [open |-> TRUE, authority |-> authority, pending_authority |-> None,
        protocol_fee_recipient |-> recipient, default_protocol_fee_share |-> protocol_fee_share,
        referral_fee_share |-> referral_fee_share]]
  /\ signer' = payer
  /\ UNCHANGED <<badge, market, nomination>>

\* has_one = authority of the account structs ConfigUpdate, Create- and UpdateQuoteAssetBadge.
SignedByAuthority(c, authority) ==
  /\ config[c].open /\ config[c].authority = authority
  /\ signer' = authority

\* Mutant: withdrawing a nomination has no effect.
transfer_config_ownership_sticky(authority, c, new_authority) ==
  /\ SignedByAuthority(c, authority)
  /\ config' = [config EXCEPT ![c].pending_authority =
                  IF new_authority = None THEN @ ELSE new_authority]
  /\ nomination' = [nomination EXCEPT ![c] = [by |-> authority, whom |-> new_authority]]
  /\ UNCHANGED <<badge, market>>

transfer_config_ownership(authority, c, new_authority) ==
  /\ SignedByAuthority(c, authority)
  /\ config' = [config EXCEPT ![c].pending_authority = new_authority]
  /\ nomination' = [nomination EXCEPT ![c] = [by |-> authority, whom |-> new_authority]]
  /\ UNCHANGED <<badge, market>>

\* Mutant: the nomination stays after it was used.
accept_config_ownership_kept(pending_authority, c) ==
  /\ config[c].open /\ config[c].pending_authority = pending_authority
  /\ config' = [config EXCEPT ![c].authority = pending_authority]
  /\ signer' = pending_authority
  /\ UNCHANGED <<badge, market, nomination>>

accept_config_ownership(pending_authority, c) ==
  /\ config[c].open /\ config[c].pending_authority = pending_authority
  /\ config' = [config EXCEPT ![c].authority = pending_authority, ![c].pending_authority = None]
  /\ signer' = pending_authority
  /\ UNCHANGED <<badge, market, nomination>>

update_default_fee_shares(authority, c, new_default_protocol_fee_share, new_referral_fee_share) ==
  /\ SignedByAuthority(c, authority)
  /\ new_default_protocol_fee_share <= MAX_BPS /\ new_referral_fee_share <= MAX_BPS
  /\ config' = [config EXCEPT ![c].default_protocol_fee_share = new_default_protocol_fee_share,
                              ![c].referral_fee_share = new_referral_fee_share]
  /\ UNCHANGED <<badge, market, nomination>>

update_protocol_fee_recipient(authority, c, new_protocol_fee_recipient) ==
  /\ SignedByAuthority(c, authority)
  /\ config' = [config EXCEPT ![c].protocol_fee_recipient = new_protocol_fee_recipient]
  /\ UNCHANGED <<badge, market, nomination>>

-----------------------------------------------------------------------------
(* Badges: one PDA per configuration and mint. *)

create_quote_asset_badge(authority, c, mint) ==
  /\ SignedByAuthority(c, authority)
  /\ badge[c][mint] = "Absent"
  /\ badge' = [badge EXCEPT ![c][mint] = "Enabled"]
  /\ UNCHANGED <<config, market, nomination>>

\* Mutant: the authority of any configuration may change a badge.
update_quote_asset_badge_any(authority, c, mint, status) ==
  /\ \E other \in Configs : SignedByAuthority(other, authority)
  /\ badge[c][mint] # "Absent"
  /\ badge' = [badge EXCEPT ![c][mint] = status]
  /\ UNCHANGED <<config, market, nomination>>

update_quote_asset_badge(authority, c, mint, status) ==
  /\ SignedByAuthority(c, authority)
  /\ badge[c][mint] # "Absent"
  /\ badge' = [badge EXCEPT ![c][mint] = status]
  /\ UNCHANGED <<config, market, nomination>>

-----------------------------------------------------------------------------
(* Market creation. *)

\* Mutant: the badge is looked up by its mint only.
BadgeAccepted_by_mint(creator, c, mint, b) ==
  b # None =>
    /\ b[2] = mint
    /\ badge[b[1]][b[2]] # "Absent"
    /\ badge[b[1]][b[2]] = "Enabled" \/ creator = config[c].authority

\* The optional account quote_token_badge: when it is there it must be the PDA of this
\* configuration and mint, and enabled unless the authority is the creator.
BadgeAccepted(creator, c, mint, b) ==
  b # None =>
    /\ b = <<c, mint>>
    /\ badge[c][mint] # "Absent"
    /\ badge[c][mint] = "Enabled" \/ creator = config[c].authority

\* The part of create_market and create_market_with_spl that is about permission.  The two
\* differ in the token program of the base mint and in who may update its metadata.
create_market(creator, c, m, mint, b, creator_fee_share, staking_fee_share) ==
  /\ ~market[m].open /\ config[c].open
  /\ BadgeAccepted(creator, c, mint, b)
  /\ creator_fee_share + staking_fee_share + config[c].default_protocol_fee_share = MAX_BPS
  /\ mint \in Supported
  /\ market' = [market EXCEPT ![m] =
       [open |-> TRUE, config |-> c, quote_token_mint |-> mint, creator |-> creator, badge |-> b]]
  /\ signer' = creator
  /\ UNCHANGED <<config, badge, nomination>>

-----------------------------------------------------------------------------
Creation == \E payer, authority, recipient \in Keys, c \in Configs, p, r \in FeeShares :
              create_config(payer, c, authority, recipient, p, r)
Handover == \E key \in Keys, c \in Configs :
              \/ \E new_authority \in Keys \cup {None} : transfer_config_ownership(key, c, new_authority)
              \/ accept_config_ownership(key, c)
Settings == \E key \in Keys, c \in Configs :
              \/ \E p, r \in FeeShares : update_default_fee_shares(key, c, p, r)
              \/ \E recipient \in Keys : update_protocol_fee_recipient(key, c, recipient)
Approval == \E key \in Keys, c \in Configs, mint \in Mints :
              \/ create_quote_asset_badge(key, c, mint)
              \/ \E status \in {"Disabled", "Enabled"} : update_quote_asset_badge(key, c, mint, status)
Launch == \E creator \in Keys, c \in Configs, m \in Markets, mint \in Mints,
             b \in Badges \cup {None}, x \in Shares, y \in Shares :
            create_market(creator, c, m, mint, b, x, y)

Next == Creation \/ Handover \/ Settings \/ Approval \/ Launch

Spec == Init /\ [][Next]_vars

-----------------------------------------------------------------------------
(* Properties. *)

TypeOK ==
  /\ config \in [Configs -> [open : BOOLEAN, authority : Keys \cup {None},
                             pending_authority : Keys \cup {None},
                             protocol_fee_recipient : Keys \cup {None},
                             default_protocol_fee_share : Shares, referral_fee_share : Shares]]
  /\ badge \in [Configs -> [Mints -> Statuses]]
  /\ market \in [Markets -> [open : BOOLEAN, config : Configs \cup {None},
                             quote_token_mint : Mints \cup {None}, creator : Keys \cup {None},
                             badge : Badges \cup {None}]]
  /\ nomination \in [Configs -> [by : Keys \cup {None}, whom : Keys \cup {None}]]
  /\ signer \in Keys \cup {None}

\* A nomination dies with the authority that made it: whoever is pending was named by the
\* authority of today, not by one of its predecessors.
PendingNamedByAuthority ==
  \A c \in Configs :
    config[c].pending_authority # None => nomination[c].by = config[c].authority

\* The authority changes hands only when both sides agree: it goes to the key that the
\* authority named last, if it did not withdraw or replace the name, and that key signs
\* (transfer_config_ownership.rs and accept_config_ownership.rs).
HandoverAgreed ==
  [][\A c \in Configs :
       config[c].open /\ config'[c].authority # config[c].authority =>
         /\ nomination[c] = [by |-> config[c].authority, whom |-> config'[c].authority]
         /\ signer' = config'[c].authority]_vars

\* Nobody but the authority of a configuration changes its settings or the badges of its
\* quote tokens, and the key it named changes the authority and nothing else.
AuthorityRules ==
  [][\A c \in Configs :
       config[c].open /\ signer' # config[c].authority =>
         /\ badge'[c] = badge[c]
         /\ config'[c] = [config[c] EXCEPT !.authority = config'[c].authority,
                                           !.pending_authority = config'[c].pending_authority]]_vars

\* A market that names a badge is opened under the approval of its own quote token by its
\* own configuration, valid at that moment, unless the authority opens it.
BadgeCoversMarket ==
  [][\A m \in Markets :
       ~market[m].open /\ market'[m].open /\ market'[m].badge # None =>
         LET c == market'[m].config
             status == badge[c][market'[m].quote_token_mint]
         IN  /\ status # "Absent"
             /\ status = "Enabled" \/ market'[m].creator = config[c].authority]_vars
=============================================================================
