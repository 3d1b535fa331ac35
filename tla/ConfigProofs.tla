---------------------------- MODULE ConfigProofs ----------------------------
(***************************************************************************)
(* Proofs about the configurations: who becomes authority, who may change  *)
(* what, and which badge covers a market, for any number of                *)
(* configurations, keys, mints and markets.                                *)
(***************************************************************************)
EXTENDS Config, TLAPS

\* Whoever is pending is the one whom the present authority named last.  More than
\* PendingNamedByAuthority says: what an acceptance relies on.
PendingIsNominee ==
  \A c \in Configs : config[c].pending_authority # None =>
    nomination[c] = [by |-> config[c].authority, whom |-> config[c].pending_authority]

Inv == TypeOK /\ PendingIsNominee

\* The accounts of a configuration after any action on it.
ConfigRecord == [open : BOOLEAN, authority : Keys \cup {None}, pending_authority : Keys \cup {None},
                 protocol_fee_recipient : Keys \cup {None},
                 default_protocol_fee_share : Shares, referral_fee_share : Shares]

LEMMA InitInv == Init => Inv
<1> SUFFICES ASSUME Init PROVE Inv
  OBVIOUS
<1>1. NoConfig \in ConfigRecord
  BY ConfigAssumption DEF NoConfig, ConfigRecord, Shares
<1>2. TypeOK
  BY <1>1 DEF Init, TypeOK, NoMarket, ConfigRecord, Statuses
<1>3. PendingIsNominee
  BY DEF Init, PendingIsNominee, NoConfig
<1> QED
  BY <1>2, <1>3 DEF Inv

-----------------------------------------------------------------------------
(* One lemma per instruction that writes a configuration. *)

\* A configuration that is written with a proper record keeps all types.
LEMMA WriteType ==
  ASSUME Inv, NEW c \in Configs, DOMAIN config' = Configs,
         config'[c] \in ConfigRecord, \A d \in Configs \ {c} : config'[d] = config[d],
         config' = [d \in Configs |-> config'[d]],
         nomination' \in [Configs -> [by : Keys \cup {None}, whom : Keys \cup {None}]],
         signer' \in Keys, UNCHANGED <<badge, market>>
  PROVE  TypeOK'
<1>1. \A d \in Configs : config[d] \in ConfigRecord
  BY DEF Inv, TypeOK, ConfigRecord
<1>2. \A d \in Configs : config'[d] \in ConfigRecord
  BY <1>1
<1>3. config' \in [Configs -> ConfigRecord]
  BY <1>2
<1> QED
  BY <1>3 DEF Inv, TypeOK, ConfigRecord

LEMMA CreateStep ==
  ASSUME Inv, NEW payer \in Keys, NEW authority \in Keys, NEW recipient \in Keys, NEW c \in Configs,
         NEW p \in FeeShares, NEW r \in FeeShares,
         create_config(payer, c, authority, recipient, p, r)
  PROVE  Inv'
<1>1. p \in Shares /\ r \in Shares
  BY ConfigAssumption DEF create_config, Shares
<1>2. config'[c] \in ConfigRecord
  BY <1>1 DEF create_config, Inv, TypeOK, ConfigRecord
<1>3. config' \in [Configs -> ConfigRecord]
  BY <1>2 DEF create_config, Inv, TypeOK, ConfigRecord
<1>4. TypeOK'
  BY <1>3 DEF create_config, Inv, TypeOK, ConfigRecord
<1>5. PendingIsNominee'
  BY DEF create_config, Inv, TypeOK, PendingIsNominee
<1> QED
  BY <1>4, <1>5 DEF Inv

LEMMA TransferStep ==
  ASSUME Inv, NEW key \in Keys, NEW c \in Configs, NEW new_authority \in Keys \cup {None},
         transfer_config_ownership(key, c, new_authority)
  PROVE  Inv'
<1>1. config \in [Configs -> ConfigRecord]
  BY DEF Inv, TypeOK, ConfigRecord
<1>2. config'[c] \in ConfigRecord
  BY <1>1 DEF transfer_config_ownership, ConfigRecord
<1>3. nomination' \in [Configs -> [by : Keys \cup {None}, whom : Keys \cup {None}]]
  BY DEF transfer_config_ownership, Inv, TypeOK
<1>4. TypeOK'
  BY <1>1, <1>2, <1>3, WriteType DEF transfer_config_ownership, SignedByAuthority
<1>5. PendingIsNominee'
  BY DEF transfer_config_ownership, SignedByAuthority, Inv, TypeOK, PendingIsNominee
<1> QED
  BY <1>4, <1>5 DEF Inv

LEMMA AcceptStep ==
  ASSUME Inv, NEW key \in Keys, NEW c \in Configs, accept_config_ownership(key, c)
  PROVE  Inv'
<1>1. config \in [Configs -> ConfigRecord]
  BY DEF Inv, TypeOK, ConfigRecord
<1>2. config'[c] \in ConfigRecord
  BY <1>1 DEF accept_config_ownership, ConfigRecord
<1>3. nomination' \in [Configs -> [by : Keys \cup {None}, whom : Keys \cup {None}]]
  BY DEF accept_config_ownership, Inv, TypeOK
<1>4. TypeOK'
  BY <1>1, <1>2, <1>3, WriteType DEF accept_config_ownership
<1>5. PendingIsNominee'
  BY DEF accept_config_ownership, Inv, TypeOK, PendingIsNominee
<1> QED
  BY <1>4, <1>5 DEF Inv

LEMMA SettingsStep ==
  ASSUME Inv, NEW key \in Keys, NEW c \in Configs,
         \/ \E p, r \in FeeShares : update_default_fee_shares(key, c, p, r)
         \/ \E recipient \in Keys : update_protocol_fee_recipient(key, c, recipient)
  PROVE  Inv'
<1>1. config \in [Configs -> ConfigRecord]
  BY DEF Inv, TypeOK, ConfigRecord
<1>2. /\ config'[c] \in ConfigRecord
      /\ config'[c].authority = config[c].authority
      /\ config'[c].pending_authority = config[c].pending_authority
      /\ config' = [config EXCEPT ![c] = config'[c]]
      /\ UNCHANGED <<badge, market, nomination>> /\ signer' = key
  <2>1. CASE \E p, r \in FeeShares : update_default_fee_shares(key, c, p, r)
    <3> PICK p \in FeeShares, r \in FeeShares : update_default_fee_shares(key, c, p, r)
      BY <2>1
    <3>1. p \in Shares /\ r \in Shares
      BY ConfigAssumption DEF update_default_fee_shares, Shares
    <3> QED
      BY <1>1, <3>1 DEF update_default_fee_shares, SignedByAuthority, ConfigRecord
  <2>2. CASE \E recipient \in Keys : update_protocol_fee_recipient(key, c, recipient)
    BY <1>1, <2>2 DEF update_protocol_fee_recipient, SignedByAuthority, ConfigRecord
  <2> QED
    BY <2>1, <2>2
<1>3. TypeOK'
  <2>1. nomination' \in [Configs -> [by : Keys \cup {None}, whom : Keys \cup {None}]]
    BY <1>2 DEF Inv, TypeOK
  <2> QED
    BY <1>1, <1>2, <2>1, WriteType
<1>4. PendingIsNominee'
  BY <1>1, <1>2 DEF Inv, PendingIsNominee
<1> QED
  BY <1>3, <1>4 DEF Inv

LEMMA ApprovalStep == Inv /\ Approval => Inv'
<1> SUFFICES ASSUME Inv, Approval PROVE Inv'
  OBVIOUS
<1> PICK key \in Keys, c \in Configs, mint \in Mints :
           \/ create_quote_asset_badge(key, c, mint)
           \/ \E status \in {"Disabled", "Enabled"} : update_quote_asset_badge(key, c, mint, status)
  BY DEF Approval
<1>1. PICK status \in Statuses : badge' = [badge EXCEPT ![c][mint] = status]
  BY DEF create_quote_asset_badge, update_quote_asset_badge, Statuses
<1>2. badge' \in [Configs -> [Mints -> Statuses]]
  BY <1>1 DEF Inv, TypeOK
<1>3. UNCHANGED <<config, market, nomination>> /\ signer' \in Keys
  BY DEF create_quote_asset_badge, update_quote_asset_badge, SignedByAuthority
<1>4. TypeOK'
  BY <1>2, <1>3 DEF Inv, TypeOK
<1>5. PendingIsNominee'
  BY <1>3 DEF Inv, PendingIsNominee
<1> QED
  BY <1>4, <1>5 DEF Inv

LEMMA LaunchStep == Inv /\ Launch => Inv'
<1> SUFFICES ASSUME Inv, Launch PROVE Inv'
  OBVIOUS
<1> PICK creator \in Keys, c \in Configs, m \in Markets, mint \in Mints, b \in Badges \cup {None},
         x \in Shares, y \in Shares : create_market(creator, c, m, mint, b, x, y)
  BY DEF Launch
<1>1. TypeOK'
  BY DEF create_market, Inv, TypeOK
<1>2. PendingIsNominee'
  BY DEF create_market, Inv, PendingIsNominee
<1> QED
  BY <1>1, <1>2 DEF Inv

LEMMA StepInv == Inv /\ [Next]_vars => Inv'
<1> SUFFICES ASSUME Inv, [Next]_vars PROVE Inv'
  OBVIOUS
<1>1. CASE Creation
  BY <1>1, CreateStep DEF Creation
<1>2. CASE Handover
  BY <1>2, TransferStep, AcceptStep DEF Handover
<1>3. CASE Settings
  BY <1>3, SettingsStep DEF Settings
<1>4. CASE Approval
  BY <1>4, ApprovalStep
<1>5. CASE Launch
  BY <1>5, LaunchStep
<1>6. CASE UNCHANGED vars
  BY <1>6 DEF vars, Inv, TypeOK, PendingIsNominee
<1> QED
  BY <1>1, <1>2, <1>3, <1>4, <1>5, <1>6 DEF Next

LEMMA AlwaysInv == Spec => []Inv
BY InitInv, StepInv, PTL DEF Spec

\* All accounts keep their types: no share above 100%, no key out of nowhere.
THEOREM TypeCorrect == Spec => []TypeOK
<1>1. Inv => TypeOK
  BY DEF Inv
<1> QED
  BY <1>1, AlwaysInv, PTL

\* A nomination dies with the authority that made it.
THEOREM NominationsAreLive == Spec => []PendingNamedByAuthority
<1>1. Inv => PendingNamedByAuthority
  <2> SUFFICES ASSUME Inv, NEW c \in Configs, config[c].pending_authority # None
               PROVE  nomination[c].by = config[c].authority
    BY DEF PendingNamedByAuthority
  <2>1. nomination[c] = [by |-> config[c].authority, whom |-> config[c].pending_authority]
    BY DEF Inv, PendingIsNominee
  <2> QED
    BY <2>1
<1> QED
  BY <1>1, AlwaysInv, PTL

-----------------------------------------------------------------------------
(* Action properties. *)

\* Authority passes only to the key named last by the authority, and that key signs.
LEMMA HandoverStep ==
  ASSUME Inv, [Next]_vars, NEW c \in Configs,
         config[c].open, config'[c].authority # config[c].authority
  PROVE  /\ nomination[c] = [by |-> config[c].authority, whom |-> config'[c].authority]
         /\ signer' = config'[c].authority
<1>1. CASE Creation
  BY <1>1 DEF Creation, create_config, Inv, TypeOK
<1>2. CASE Handover
  <2> PICK key \in Keys, d \in Configs :
             \/ \E new_authority \in Keys \cup {None} : transfer_config_ownership(key, d, new_authority)
             \/ accept_config_ownership(key, d)
    BY <1>2 DEF Handover
  <2>1. CASE \E new_authority \in Keys \cup {None} : transfer_config_ownership(key, d, new_authority)
    BY <2>1 DEF transfer_config_ownership, Inv, TypeOK
  <2>2. CASE accept_config_ownership(key, d)
    <3>1. c = d
      BY <2>2 DEF accept_config_ownership, Inv, TypeOK
    <3>2. config'[c].authority = key /\ config[c].pending_authority = key /\ signer' = key
      BY <2>2, <3>1 DEF accept_config_ownership, Inv, TypeOK
    <3>3. key # None
      BY ConfigAssumption
    <3> QED
      BY <3>2, <3>3 DEF Inv, PendingIsNominee
  <2> QED
    BY <2>1, <2>2
<1>3. CASE Settings
  <2>0. config \in [Configs -> ConfigRecord]
    BY DEF Inv, TypeOK, ConfigRecord
  <2> PICK key \in Keys, d \in Configs :
             \/ \E p, r \in FeeShares : update_default_fee_shares(key, d, p, r)
             \/ \E recipient \in Keys : update_protocol_fee_recipient(key, d, recipient)
    BY <1>3 DEF Settings
  <2>1. CASE \E p, r \in FeeShares : update_default_fee_shares(key, d, p, r)
    <3> PICK p \in FeeShares, r \in FeeShares : update_default_fee_shares(key, d, p, r)
      BY <2>1
    <3>1. config' = [config EXCEPT ![d].default_protocol_fee_share = p, ![d].referral_fee_share = r]
      BY DEF update_default_fee_shares
    <3>2. config'[c].authority = config[c].authority
      <4>1. config[d] \in ConfigRecord /\ config[c] \in ConfigRecord
        BY <2>0
      <4>2. CASE c = d
        BY <3>1, <4>1, <4>2, <2>0 DEF ConfigRecord
      <4>3. CASE c # d
        BY <3>1, <4>3, <2>0
      <4> QED
        BY <4>2, <4>3
    <3> QED
      BY <3>2
  <2>2. CASE \E recipient \in Keys : update_protocol_fee_recipient(key, d, recipient)
    BY <2>0, <2>2 DEF update_protocol_fee_recipient, ConfigRecord
  <2> QED
    BY <2>1, <2>2
<1>4. CASE Approval
  BY <1>4 DEF Approval, create_quote_asset_badge, update_quote_asset_badge
<1>5. CASE Launch
  BY <1>5 DEF Launch, create_market
<1>6. CASE UNCHANGED vars
  BY <1>6 DEF vars
<1> QED
  BY <1>1, <1>2, <1>3, <1>4, <1>5, <1>6 DEF Next

\* The authority changes hands only when both sides agree.
THEOREM HandoverAlwaysAgreed == Spec => HandoverAgreed
<1> DEFINE Agreed == \A c \in Configs :
             config[c].open /\ config'[c].authority # config[c].authority =>
               /\ nomination[c] = [by |-> config[c].authority, whom |-> config'[c].authority]
               /\ signer' = config'[c].authority
<1>1. Inv /\ [Next]_vars => Agreed
  BY HandoverStep
<1>2. Spec => [][Agreed]_vars
  BY <1>1, AlwaysInv, PTL DEF Spec
<1> QED
  BY <1>2 DEF HandoverAgreed

\* Without the authority's signature nothing happens to its badges, and to its configuration
\* no more than a handover.
LEMMA RulesStep ==
  ASSUME Inv, [Next]_vars, NEW c \in Configs,
         config[c].open, signer' # config[c].authority
  PROVE  /\ badge'[c] = badge[c]
         /\ config'[c] = [config[c] EXCEPT !.authority = config'[c].authority,
                                           !.pending_authority = config'[c].pending_authority]
<1> DEFINE Kept == badge'[c] = badge[c] /\ config'[c] = config[c]
<1>0. config[c] \in ConfigRecord /\ c \in DOMAIN config /\ c \in DOMAIN badge
  BY DEF Inv, TypeOK, ConfigRecord
<1>1. Kept => /\ badge'[c] = badge[c]
              /\ config'[c] = [config[c] EXCEPT !.authority = config'[c].authority,
                                                !.pending_authority = config'[c].pending_authority]
  BY <1>0 DEF ConfigRecord
<1>2. CASE Creation
  <2>1. Kept
    BY <1>2, <1>0 DEF Creation, create_config
  <2> QED
    BY <2>1, <1>1
<1>3. CASE Handover
  <2> PICK key \in Keys, d \in Configs :
             \/ \E new_authority \in Keys \cup {None} : transfer_config_ownership(key, d, new_authority)
             \/ accept_config_ownership(key, d)
    BY <1>3 DEF Handover
  <2>1. CASE \E new_authority \in Keys \cup {None} : transfer_config_ownership(key, d, new_authority)
    <3>1. c # d
      BY <2>1 DEF transfer_config_ownership, SignedByAuthority
    <3>2. Kept
      BY <2>1, <3>1, <1>0 DEF transfer_config_ownership
    <3> QED
      BY <3>2, <1>1
  <2>2. CASE accept_config_ownership(key, d)
    BY <2>2, <1>0 DEF accept_config_ownership, ConfigRecord
  <2> QED
    BY <2>1, <2>2
<1>4. CASE Settings
  <2>1. Kept
    BY <1>4, <1>0 DEF Settings, update_default_fee_shares, update_protocol_fee_recipient, SignedByAuthority
  <2> QED
    BY <2>1, <1>1
<1>5. CASE Approval
  <2>1. Kept
    BY <1>5, <1>0 DEF Approval, create_quote_asset_badge, update_quote_asset_badge, SignedByAuthority
  <2> QED
    BY <2>1, <1>1
<1>6. CASE Launch
  <2>1. Kept
    BY <1>6 DEF Launch, create_market
  <2> QED
    BY <2>1, <1>1
<1>7. CASE UNCHANGED vars
  BY <1>7, <1>1 DEF vars
<1> QED
  BY <1>2, <1>3, <1>4, <1>5, <1>6, <1>7 DEF Next

\* Nobody but the authority changes the settings of a configuration or its badges.
THEOREM OnlyAuthorityRules == Spec => AuthorityRules
<1> DEFINE Rules == \A c \in Configs :
             config[c].open /\ signer' # config[c].authority =>
               /\ badge'[c] = badge[c]
               /\ config'[c] = [config[c] EXCEPT !.authority = config'[c].authority,
                                                 !.pending_authority = config'[c].pending_authority]
<1>1. Inv /\ [Next]_vars => Rules
  BY RulesStep
<1>2. Spec => [][Rules]_vars
  BY <1>1, AlwaysInv, PTL DEF Spec
<1> QED
  BY <1>2 DEF AuthorityRules

\* A market that names a badge is opened under an approval that is valid at that moment.
LEMMA BadgeStep ==
  ASSUME Inv, [Next]_vars, NEW m \in Markets,
         ~market[m].open, market'[m].open, market'[m].badge # None
  PROVE  LET c == market'[m].config
             status == badge[c][market'[m].quote_token_mint]
         IN  /\ status # "Absent"
             /\ status = "Enabled" \/ market'[m].creator = config[c].authority
<1>1. Launch
  BY DEF Next, vars, Creation, create_config, Handover, transfer_config_ownership,
         accept_config_ownership, Settings, update_default_fee_shares, update_protocol_fee_recipient,
         Approval, create_quote_asset_badge, update_quote_asset_badge
<1> PICK creator \in Keys, c \in Configs, n \in Markets, mint \in Mints, b \in Badges \cup {None},
         x \in Shares, y \in Shares : create_market(creator, c, n, mint, b, x, y)
  BY <1>1 DEF Launch
<1>2. m = n
  BY DEF create_market, Inv, TypeOK
<1>3. /\ market'[m].config = c /\ market'[m].quote_token_mint = mint
      /\ market'[m].creator = creator /\ market'[m].badge = b
  BY <1>2 DEF create_market, Inv, TypeOK
<1>4. badge[c][mint] # "Absent" /\ (badge[c][mint] = "Enabled" \/ creator = config[c].authority)
  BY <1>3 DEF create_market, BadgeAccepted
<1> QED
  BY <1>3, <1>4

\* The badge a market names is the approval of its own quote token by its own configuration.
THEOREM BadgesAlwaysCover == Spec => BadgeCoversMarket
<1> DEFINE Covers == \A m \in Markets :
             ~market[m].open /\ market'[m].open /\ market'[m].badge # None =>
               LET c == market'[m].config
                   status == badge[c][market'[m].quote_token_mint]
               IN  /\ status # "Absent"
                   /\ status = "Enabled" \/ market'[m].creator = config[c].authority
<1>1. Inv /\ [Next]_vars => Covers
  BY BadgeStep
<1>2. Spec => [][Covers]_vars
  BY <1>1, AlwaysInv, PTL DEF Spec
<1> QED
  BY <1>2 DEF BadgeCoversMarket
=============================================================================
