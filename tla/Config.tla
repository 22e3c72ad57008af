------------------------------- MODULE Config -------------------------------
(***************************************************************************)
(* The configuration accounts: BridgeConfig (one per Solana chain id),     *)
(* SupportedChainConfig (one per chain) and TokenConfig (one per chain and *)
(* token), and the three admin instructions that write them.  The chain    *)
(* and token accounts are not keyed by the Solana chain id: every bridge   *)
(* configuration of the program shares them.                               *)
(*                                                                         *)
(* An address that is only sent lamports has `lamports` but is not         *)
(* initialized; the create instructions look at lamports, the              *)
(* add_or_update instructions at is_initialized.                           *)
(***************************************************************************)
EXTENDS Integers, Sequences, Functions, FiniteSetsExt

CONSTANTS
  Pubkeys,        \* every account key
  DefaultKey,     \* Pubkey::default()
  SuperAdmin,     \* the program's supper_admin key
  ChainIds,       \* chain ids, of Solana bridges and of source chains
  TokenIds,
  SupportedIds,   \* chains tried as add_or_update_chain arguments
  Payers,         \* keys that call admin instructions
  ConfigRequests, \* argument lists tried for create_bridge_config
  Fees,           \* fee percentages tried, in units of 1/FEE_DENOMINATOR
  MinAmounts,     \* minimum amounts tried
  GiftedRoutes    \* routes whose token and chain addresses are sent lamports

Routes == ChainIds \X TokenIds

FEE_DENOMINATOR == 1000000

Entries == [chain : ChainIds, token : TokenIds, fee : Nat, min : Nat]

ASSUME ConfigAssumption ==
  /\ IsFiniteSet(Pubkeys) /\ IsFiniteSet(ChainIds) /\ IsFiniteSet(TokenIds)
  /\ {DefaultKey, SuperAdmin} \subseteq Pubkeys
  /\ Payers \subseteq Pubkeys
  /\ SupportedIds \subseteq ChainIds
  /\ Fees \subseteq Nat
  /\ MinAmounts \subseteq Nat
  /\ GiftedRoutes \subseteq Routes
  /\ \A q \in ConfigRequests :
       /\ q.chain_id \in ChainIds
       /\ q.administrator \in Pubkeys
       /\ q.fee_recipient \in Pubkeys
       /\ q.entries \in Seq(Entries)

VARIABLES
  bridge_config, supported_chain_config, token_config

configVars == <<bridge_config, supported_chain_config, token_config>>

BridgeConfigs ==
  [is_initialized : BOOLEAN, withdraw_paused : BOOLEAN,
   admin : Pubkeys, fee_recipient : Pubkeys]

SupportedChainConfigs ==
  [lamports : BOOLEAN, is_initialized : BOOLEAN, supported : BOOLEAN,
   mint_total : Nat]

TokenConfigs ==
  [lamports : BOOLEAN, is_initialized : BOOLEAN, withdraw_paused : BOOLEAN,
   token_fee_percentage : 0 .. FEE_DENOMINATOR - 1, token_min_amount : Nat,
   mint_total : Nat]

ConfigInit ==
  /\ bridge_config =
       [b \in ChainIds |-> [is_initialized |-> FALSE, withdraw_paused |-> FALSE,
                            admin |-> DefaultKey, fee_recipient |-> DefaultKey]]
  /\ supported_chain_config =
       [c \in ChainIds |-> [lamports |-> FALSE, is_initialized |-> FALSE,
                            supported |-> FALSE, mint_total |-> 0]]
  /\ token_config =
       [r \in Routes |-> [lamports |-> FALSE, is_initialized |-> FALSE,
                          withdraw_paused |-> FALSE, token_fee_percentage |-> 0,
                          token_min_amount |-> 0, mint_total |-> 0]]

(* `bridge_config.admin == payer`, on an account that exists. *)
IsAdmin(payer, chain_id) ==
  /\ bridge_config[chain_id].is_initialized
  /\ bridge_config[chain_id].admin = payer

-----------------------------------------------------------------------------
(* create_bridge_config.  An entry whose account already has lamports is   *)
(* skipped, and so is a repeated one: the first entry for a route counts.  *)
EntryChains(entries) == {e.chain : e \in Range(entries)}

EntryRoutes(entries) == {<<e.chain, e.token>> : e \in Range(entries)}

EntryOf(entries, r) ==
  entries[Min({i \in DOMAIN entries : <<entries[i].chain, entries[i].token>> = r})]

(* A defect the checks must notice: existing tokens are created again.     *)
CreatedTokensAgain(entries) == EntryRoutes(entries)

CreatedTokens(entries) ==
  {r \in EntryRoutes(entries) : ~token_config[r].lamports}

CreatedChains(entries) ==
  {c \in EntryChains(entries) : ~supported_chain_config[c].lamports}

(* A defect the checks must notice: the fee bound is off by one.           *)
FeeAtMostDenominator(fee) == fee <= FEE_DENOMINATOR

FeeAllowed(fee) == fee < FEE_DENOMINATOR

TokenTerms(fee, min, paused, mint_total) ==
  [lamports |-> TRUE, is_initialized |-> TRUE, withdraw_paused |-> paused,
   token_fee_percentage |-> fee, token_min_amount |-> min,
   mint_total |-> mint_total]

NewTokenConfig(fee, min, paused) == TokenTerms(fee, min, paused, 0)

NewChainConfig(supported) ==
  [lamports |-> TRUE, is_initialized |-> TRUE, supported |-> supported,
   mint_total |-> 0]

(* Only the super admin, and each bridge and its sBTC mint only once. *)
NewBridgeAccounts(payer, chain_id) ==
  /\ payer = SuperAdmin
  /\ ~bridge_config[chain_id].is_initialized

CreateBridgeConfig(payer, q) ==
  /\ NewBridgeAccounts(payer, q.chain_id)
  /\ q.fee_recipient # DefaultKey
  /\ q.administrator # DefaultKey
  /\ q.chain_id \notin EntryChains(q.entries)
  /\ \A r \in CreatedTokens(q.entries) :
       FeeAllowed(EntryOf(q.entries, r).fee)
  /\ bridge_config' =
       [bridge_config EXCEPT ![q.chain_id] =
          [is_initialized |-> TRUE, withdraw_paused |-> FALSE,
           admin |-> q.administrator, fee_recipient |-> q.fee_recipient]]
  /\ token_config' =
       [r \in Routes |->
          IF r \in CreatedTokens(q.entries)
          THEN NewTokenConfig(EntryOf(q.entries, r).fee,
                              EntryOf(q.entries, r).min, FALSE)
          ELSE token_config[r]]
  /\ supported_chain_config' =
       [c \in ChainIds |->
          IF c \in CreatedChains(q.entries)
          THEN NewChainConfig(TRUE)
          ELSE supported_chain_config[c]]

(* Defects the checks must notice: an existing chain starts over, an       *)
(* existing token starts over.                                             *)
UpdatedChainAfresh(account, supported) == NewChainConfig(supported)

UpdatedChain(account, supported) ==
  IF account.is_initialized
  THEN [account EXCEPT !.supported = supported]
  ELSE NewChainConfig(supported)

UpdatedTokenAfresh(account, fee, min, paused) == NewTokenConfig(fee, min, paused)

UpdatedToken(account, fee, min, paused) ==
  IF account.is_initialized
  THEN TokenTerms(fee, min, paused, account.mint_total)
  ELSE NewTokenConfig(fee, min, paused)

AddOrUpdateChain(payer, chain_id, supported_chain_id, supported) ==
  /\ IsAdmin(payer, chain_id)
  /\ chain_id # supported_chain_id
  /\ supported_chain_config' =
       [supported_chain_config EXCEPT
          ![supported_chain_id] = UpdatedChain(@, supported)]
  /\ UNCHANGED <<bridge_config, token_config>>

AddOrUpdateChainToken(payer, chain_id, r, fee, min, paused) ==
  /\ IsAdmin(payer, chain_id)
  /\ supported_chain_config[r[1]].is_initialized
  /\ chain_id # r[1]
  /\ FeeAllowed(fee)
  /\ token_config' =
       [token_config EXCEPT ![r] = UpdatedToken(@, fee, min, paused)]
  /\ UNCHANGED <<bridge_config, supported_chain_config>>

(* Anyone may send lamports to an address before its account exists. *)
SendLamportsToToken(r) ==
  /\ token_config' = [token_config EXCEPT ![r].lamports = TRUE]
  /\ UNCHANGED <<bridge_config, supported_chain_config>>

SendLamportsToChain(c) ==
  /\ supported_chain_config' = [supported_chain_config EXCEPT ![c].lamports = TRUE]
  /\ UNCHANGED <<bridge_config, token_config>>

ConfigNext ==
  \/ \E payer \in Payers, q \in ConfigRequests : CreateBridgeConfig(payer, q)
  \/ \E payer \in Payers, b \in ChainIds, c \in SupportedIds,
        supported \in BOOLEAN :
       AddOrUpdateChain(payer, b, c, supported)
  \/ \E payer \in Payers, b \in ChainIds, r \in SupportedIds \X TokenIds,
        fee \in Fees, min \in MinAmounts, paused \in BOOLEAN :
       AddOrUpdateChainToken(payer, b, r, fee, min, paused)
  \/ \E r \in GiftedRoutes : SendLamportsToToken(r) \/ SendLamportsToChain(r[1])

ConfigSpec == ConfigInit /\ [][ConfigNext]_configVars

-----------------------------------------------------------------------------
ConfigTypeOK ==
  /\ bridge_config \in [ChainIds -> BridgeConfigs]
  /\ supported_chain_config \in [ChainIds -> SupportedChainConfigs]
  /\ token_config \in [Routes -> TokenConfigs]

(* lib.rs:31 "A vector of chain IDs that will be supported by the bridge": *)
(* a successful create_bridge_config leaves every chain it lists supported. *)
ListedChainsSupported ==
  [][\A payer \in Payers, q \in ConfigRequests :
       CreateBridgeConfig(payer, q) =>
         \A c \in EntryChains(q.entries) :
           /\ supported_chain_config'[c].is_initialized
           /\ supported_chain_config'[c].supported]_configVars

TermsKeptUnlessUpdated ==
  \A r \in Routes :
    token_config[r].is_initialized /\ token_config'[r] # token_config[r] =>
      \E payer \in Payers, b \in ChainIds :
        AddOrUpdateChainToken(payer, b, r,
          token_config'[r].token_fee_percentage,
          token_config'[r].token_min_amount,
          token_config'[r].withdraw_paused)

(* The fee, minimum and pause of a token that exists change only by        *)
(* add_or_update_chain_token: a bridge configuration created later and     *)
(* listing the same token leaves the terms of the earlier one alone.       *)
TermsChangeOnlyByUpdate == [][TermsKeptUnlessUpdated]_configVars
=============================================================================
