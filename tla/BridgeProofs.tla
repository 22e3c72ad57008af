---------------------------- MODULE BridgeProofs -----------------------------
(***************************************************************************)
(* Theorems about Bridge, among them that it implements Ledger, for every  *)
(* set of keys, chains, tokens, amounts and limits, and every ring size.   *)
(***************************************************************************)
EXTENDS BridgeLedger, CommitteeProofs, HourRingProofs

(* Every mint in the log consumed its nonce account.                       *)
NoncesConsumed ==
  \A i \in DOMAIN mint_events :
    <<mint_events[i].route[1], mint_events[i].nonce>> \in mint_nonces

(* The inductive invariant.                                                *)
BridgeInv ==
  /\ TypeOK
  /\ ChainsFunded
  /\ TokensFunded
  /\ TokenWithinChain
  /\ NoncesConsumed
  /\ MintedOncePerNonce
  /\ LimitsInOrder
  /\ WithdrawalReleases
  /\ WithdrawalsNumbered
  /\ MintTotalsCount
  /\ SupplyBacked

-----------------------------------------------------------------------------
(* What a longer log contains.                                             *)
LEMMA AppendEvent ==
  ASSUME NEW S, NEW s \in Seq(S), NEW e \in S
  PROVE  /\ Append(s, e) \in Seq(S)
         /\ Len(Append(s, e)) = Len(s) + 1
         /\ DOMAIN Append(s, e) = 1 .. Len(s) + 1
         /\ DOMAIN s = 1 .. Len(s)
         /\ Len(s) \in Nat
         /\ \A i \in DOMAIN s : Append(s, e)[i] = s[i]
         /\ Append(s, e)[Len(s) + 1] = e
OBVIOUS

(* A longer log adds up to what it did before and the last event.          *)
LEMMA SumAppended ==
  ASSUME NEW n \in Nat, NEW f, NEW g,
         DOMAIN f = 1 .. n, DOMAIN g = 1 .. n + 1,
         \A i \in 1 .. n : f[i] \in Nat /\ g[i] = f[i],
         g[n + 1] \in Nat
  PROVE  /\ SumFunction(f) \in Nat
         /\ SumFunction(g) = SumFunction(f) + g[n + 1]
<1>1. IsFiniteSet(DOMAIN f)
  BY FS_Interval
<1>2. n + 1 \notin DOMAIN f /\ DOMAIN g = DOMAIN f \cup {n + 1}
  OBVIOUS
<1>3. \A i \in DOMAIN g : g[i] \in Nat
  OBVIOUS
<1>4. SumFunction(g) = SumFunction(f) + g[n + 1]
  BY <1>1, <1>2, <1>3, SumExtend
<1> QED BY <1>1, <1>4, SumType

(* Balances of which one changes add up to a sum changed as much.          *)
LEMMA BalanceChanged ==
  ASSUME NEW f \in [Pubkeys -> Nat], NEW k \in Pubkeys, NEW v \in Nat
  PROVE  /\ SumFunction(f) \in Nat
         /\ SumFunction([f EXCEPT ![k] = v]) = SumFunction(f) - f[k] + v
BY ConfigAssumption, SumExcept

(* One balance loses, another gains: the sum changes by the difference.    *)
LEMMA BalanceMoved ==
  ASSUME NEW f \in [Pubkeys -> Nat], NEW i \in Pubkeys, NEW j \in Pubkeys, i # j,
         NEW lost \in Nat, lost <= f[i], NEW gained \in Nat
  PROVE  SumFunction([f EXCEPT ![i] = @ - lost, ![j] = @ + gained])
           = SumFunction(f) - lost + gained
<1> DEFINE v == f[i] - lost
           w == f[j] + gained
           g == [f EXCEPT ![i] = v]
           h == [g EXCEPT ![j] = w]
<1>1. v \in Nat /\ w \in Nat /\ f[i] \in Nat /\ f[j] \in Nat
  OBVIOUS
<1>2. g \in [Pubkeys -> Nat] /\ g[j] = f[j]
  BY <1>1
<1>3. [f EXCEPT ![i] = @ - lost, ![j] = @ + gained] = h
  OBVIOUS
<1>4. SumFunction(f) \in Nat /\ SumFunction(g) = SumFunction(f) - f[i] + v
  <2> HIDE DEF v
  <2> QED BY <1>1, BalanceChanged
<1>5. SumFunction(g) \in Nat /\ SumFunction(h) = SumFunction(g) - g[j] + w
  <2> HIDE DEF v, w, g
  <2> QED BY <1>1, <1>2, BalanceChanged
<1>6. v = f[i] - lost /\ w = f[j] + gained
  OBVIOUS
<1> HIDE DEF v, w, g, h
<1>7. SumFunction(h) = SumFunction(f) - lost + gained
  BY <1>1, <1>2, <1>4, <1>5, <1>6
<1> QED BY <1>3, <1>7

(* A fee below the denominator is less than the amount: the u64            *)
(* subtraction of withdraw_btc.rs:68 cannot underflow, and what is         *)
(* released is positive when the amount is.                                *)
LEMMA FeeBelowAmount ==
  ASSUME NEW amount \in Nat, NEW percentage \in 0 .. FEE_DENOMINATOR - 1
  PROVE  /\ Fee(amount, percentage) \in 0 .. amount
         /\ amount > 0 => Fee(amount, percentage) < amount
<1> DEFINE D == FEE_DENOMINATOR
           n == amount * percentage
<1>1. D \in Nat \ {0}
  BY Bounds
<1>2. n \in Nat /\ n <= amount * D /\ (amount > 0 => n < amount * D)
  BY <1>1
<1> HIDE DEF D, n
<1>3. n \div D \in Nat /\ D * (n \div D) <= n
  BY <1>1, <1>2
<1>4. D * (n \div D) <= D * amount /\ (amount > 0 => D * (n \div D) < D * amount)
  BY <1>1, <1>2, <1>3
<1>5. n \div D <= amount /\ (amount > 0 => n \div D < amount)
  BY <1>1, <1>3, <1>4
<1> QED BY <1>3, <1>5 DEF Fee, D, n

(* The empty program satisfies the invariant.                              *)
LEMMA BridgeInvInit == Init => BridgeInv
<1> SUFFICES ASSUME Init PROVE BridgeInv
  OBVIOUS
<1>1. ConfigTypeOK /\ CommitteeTypeOK /\ ChainsFunded /\ TokensFunded
  BY ConfigInitType, CommitteeInitType, FundedInit DEF Init
<1>2. TypeOK
  BY <1>1, NoLimiterType, BridgeAssumption DEF Init, TypeOK, CommitteeTypeOK
<1>3. TokenWithinChain
  BY DEF Init, ConfigInit, TokenWithinChain, Routes
<1>4. /\ NoncesConsumed /\ MintedOncePerNonce /\ LimitsInOrder
      /\ WithdrawalReleases /\ WithdrawalsNumbered
  BY DEF Init, NoncesConsumed, MintedOncePerNonce, LimitsInOrder,
         WithdrawalReleases, WithdrawalsNumbered
<1>5. \A f : DOMAIN f = {} => SumFunction(f) = 0
  BY SumOfZeros, FS_EmptySet
<1>6. mint_events = <<>> /\ withdraw_events = <<>>
  BY DEF Init
<1>7. MintTotalsCount
  <2>1. /\ \A c \in ChainIds : supported_chain_config[c].mint_total = 0
        /\ \A r \in Routes : token_config[r].mint_total = 0
    BY DEF Init, ConfigInit
  <2> QED BY <1>5, <1>6, <2>1 DEF MintTotalsCount, SumEvents
<1>8. SupplyBacked
  <2> SUFFICES ASSUME NEW b \in ChainIds
               PROVE  /\ sbtc_supply[b] = 0
                      /\ SumFunction(sbtc_balance[b]) = 0
    BY <1>5, <1>6 DEF SupplyBacked, SumEvents
  <2>1. sbtc_balance[b] = [k \in Pubkeys |-> 0] /\ sbtc_supply[b] = 0
    BY DEF Init
  <2>2. IsFiniteSet(DOMAIN sbtc_balance[b])
    BY <2>1, ConfigAssumption
  <2> QED BY <2>1, <2>2, SumOfZeros
<1> QED BY <1>1, <1>2, <1>3, <1>4, <1>7, <1>8 DEF BridgeInv

-----------------------------------------------------------------------------
(* Creating or updating the configuration of a chain or token keeps what   *)
(* was minted from it.                                                     *)
LEMMA ConfigKeepsTotals ==
  ASSUME ConfigTypeOK, ChainsFunded, TokensFunded, ConfigNext
  PROVE  /\ \A c \in ChainIds : supported_chain_config'[c].mint_total
                                  = supported_chain_config[c].mint_total
         /\ \A r \in Routes : token_config'[r].mint_total
                                = token_config[r].mint_total
<1> DEFINE Kept ==
      /\ \A c \in ChainIds : supported_chain_config'[c].mint_total
                               = supported_chain_config[c].mint_total
      /\ \A r \in Routes : token_config'[r].mint_total
                             = token_config[r].mint_total
<1> USE DEF ConfigTypeOK, SupportedChainConfigs, TokenConfigs, ChainsFunded,
            TokensFunded
<1>1. ASSUME NEW payer \in Payers, NEW q \in ConfigRequests,
             CreateBridgeConfig(payer, q)
      PROVE  Kept
  BY <1>1 DEF CreateBridgeConfig, CreatedChains, NewChainConfig, CreatedTokens,
              NewTokenConfig, TokenTerms
<1>2. ASSUME NEW payer \in Payers, NEW b \in ChainIds, NEW c \in SupportedIds,
             NEW supported \in BOOLEAN,
             AddOrUpdateChain(payer, b, c, supported)
      PROVE  Kept
  BY <1>2 DEF AddOrUpdateChain, UpdatedChain, NewChainConfig
<1>3. ASSUME NEW payer \in Payers, NEW b \in ChainIds,
             NEW r \in SupportedIds \X TokenIds,
             NEW fee \in Fees, NEW min \in MinAmounts, NEW paused \in BOOLEAN,
             AddOrUpdateChainToken(payer, b, r, fee, min, paused)
      PROVE  Kept
  BY <1>3 DEF AddOrUpdateChainToken, UpdatedToken, NewTokenConfig, TokenTerms
<1>4. ASSUME NEW r \in GiftedRoutes, SendLamportsToToken(r) PROVE Kept
  BY <1>4 DEF SendLamportsToToken
<1>5. ASSUME NEW r \in GiftedRoutes, SendLamportsToChain(r[1]) PROVE Kept
  BY <1>5 DEF SendLamportsToChain
<1> QED BY <1>1, <1>2, <1>3, <1>4, <1>5 DEF ConfigNext

(* The admin instructions keep the invariant.                              *)
LEMMA AdminStep ==
  ASSUME BridgeInv, AdminNext
  PROVE  BridgeInv'
<1>0. /\ ConfigTypeOK /\ CommitteeTypeOK
      /\ ChainsFunded /\ TokensFunded /\ TokenWithinChain
  BY DEF BridgeInv, TypeOK, CommitteeTypeOK
<1>1. /\ ConfigTypeOK' /\ ChainsFunded' /\ TokensFunded'
      /\ \A c \in ChainIds : supported_chain_config'[c].mint_total
                               = supported_chain_config[c].mint_total
      /\ \A r \in Routes : token_config'[r].mint_total
                             = token_config[r].mint_total
      /\ CommitteeTypeOK'
  <2>1. CASE ConfigNext /\ UNCHANGED committeeVars
    BY <1>0, <2>1, ConfigTypeStep, ConfigFundedStep, ConfigKeepsTotals
      DEF committeeVars, CommitteeTypeOK
  <2>2. CASE CommitteeNext
    BY <1>0, <2>2, CommitteeTypeStep, CommitteeKeepsConfig
      DEF configVars, ConfigTypeOK, ChainsFunded, TokensFunded
  <2> QED BY <2>1, <2>2 DEF AdminNext
<1>2. UNCHANGED <<limiter, update_nonce, withdraw_nonce, mint_nonces,
                  tokenVars, unix_timestamp, eventVars>>
  BY DEF AdminNext
<1>3. TypeOK'
  BY <1>1, <1>2 DEF BridgeInv, TypeOK, CommitteeTypeOK, tokenVars, eventVars
<1>4. /\ NoncesConsumed' /\ MintedOncePerNonce' /\ LimitsInOrder'
      /\ WithdrawalReleases' /\ WithdrawalsNumbered'
  BY <1>2 DEF BridgeInv, NoncesConsumed, MintedOncePerNonce, LimitsInOrder,
    WithdrawalReleases, WithdrawalsNumbered, tokenVars, eventVars
<1>5. TokenWithinChain' /\ MintTotalsCount'
  <2>1. TokenWithinChain'
    BY <1>0, <1>1 DEF TokenWithinChain, Routes
  <2>2. mint_events' = mint_events
    BY <1>2 DEF eventVars
  <2>3. MintTotalsCount
    BY DEF BridgeInv
  <2> QED BY <1>1, <2>1, <2>2, <2>3 DEF MintTotalsCount, SumEvents
<1>6. SupplyBacked'
  BY <1>2 DEF BridgeInv, SupplyBacked, SumEvents, tokenVars, eventVars
<1> QED BY <1>1, <1>3, <1>4, <1>5, <1>6 DEF BridgeInv

-----------------------------------------------------------------------------
(* The values a mint message carries.                                      *)
LEMMA MintMessageType ==
  ASSUME NEW msg \in MintMessages
  PROVE  /\ msg.to_chain_id \in ChainIds
         /\ msg.source_chain_id \in ChainIds
         /\ msg.source_token_id \in TokenIds
         /\ <<msg.source_chain_id, msg.source_token_id>> \in Routes
         /\ msg.nonce \in Nat
         /\ msg.amount \in Nat
         /\ msg.to_address \in Pubkeys
<1>1. msg.nonce \in MintNonces /\ msg.amount \in Amounts /\ msg.to_address \in Users
  BY DEF MintMessages
<1>2. MintNonces \subseteq Nat /\ Amounts \subseteq Nat /\ Users \subseteq Pubkeys
  BY BridgeAssumption
<1>3. /\ msg.to_chain_id \in ChainIds /\ msg.source_chain_id \in ChainIds
      /\ msg.source_token_id \in TokenIds
  BY DEF MintMessages
<1> QED BY <1>1, <1>2, <1>3 DEF Routes

(* Raising a total leaves a well-formed account.                           *)
LEMMA ChainTotalType ==
  ASSUME NEW f \in [ChainIds -> SupportedChainConfigs], NEW c \in ChainIds,
         NEW a \in Nat
  PROVE  [f EXCEPT ![c].mint_total = @ + a] \in [ChainIds -> SupportedChainConfigs]
<1>1. [f[c] EXCEPT !.mint_total = @ + a] \in SupportedChainConfigs
  BY DEF SupportedChainConfigs
<1> QED BY <1>1

(* Raising a token's total leaves a well-formed account.                    *)
LEMMA TokenTotalType ==
  ASSUME NEW f \in [Routes -> TokenConfigs], NEW r \in Routes, NEW a \in Nat
  PROVE  [f EXCEPT ![r].mint_total = @ + a] \in [Routes -> TokenConfigs]
<1>1. [f[r] EXCEPT !.mint_total = @ + a] \in TokenConfigs
  BY DEF TokenConfigs
<1> QED BY <1>1

(* A mint leaves every account and the log well formed.                    *)
LEMMA MintType ==
  ASSUME TypeOK, NEW submitter, NEW sigs, NEW msg \in MintMessages,
         MintSbtcWithSignatures(submitter, sigs, msg)
  PROVE  TypeOK'
<1> DEFINE b == msg.to_chain_id
           c == msg.source_chain_id
           r == <<c, msg.source_token_id>>
           h == CurrentHour(unix_timestamp)
           u == msg.to_address
           a == msg.amount
           e == [nonce |-> msg.nonce, route |-> r, to_chain_id |-> b,
                 to_address |-> u, amount |-> a, hour |-> h,
                 chain_mint_total |-> supported_chain_config'[c].mint_total,
                 token_mint_total |-> token_config'[r].mint_total]
<1>1. /\ b \in ChainIds /\ c \in ChainIds /\ r \in Routes
      /\ msg.nonce \in Nat /\ a \in Nat /\ u \in Pubkeys
  BY MintMessageType
<1>2. h \in 0 .. U32 - 1 /\ h \in Nat
  <2>1. unix_timestamp \in Nat
    BY DEF TypeOK
  <2>2. h \in 0 .. U32 - 1
    BY <2>1, CurrentHourType
  <2> HIDE DEF h
  <2> QED BY <2>2, HourRingAssumption
<1>3. /\ sbtc_supply[b] + a <= U64_MAX
      /\ mint_nonces' = mint_nonces \cup {<<c, msg.nonce>>}
      /\ sbtc_ata' = sbtc_ata \cup {<<b, u>>}
      /\ sbtc_supply' = [sbtc_supply EXCEPT ![b] = @ + a]
      /\ sbtc_balance' = [sbtc_balance EXCEPT ![b][u] = @ + a]
      /\ supported_chain_config' =
           [supported_chain_config EXCEPT ![c].mint_total = @ + a]
      /\ token_config' = [token_config EXCEPT ![r].mint_total = @ + a]
      /\ limiter' = [limiter EXCEPT ![r] = Recorded(@, h, a)]
      /\ mint_events' = Append(mint_events, e)
      /\ UNCHANGED <<bridge_config, committeeVars, update_nonce, withdraw_nonce,
                     unix_timestamp, limit_events, withdraw_events>>
  BY DEF MintSbtcWithSignatures, MintAccounts, WithAta, ConsumedNonce
<1>4. U64_MAX \in Nat
  BY BridgeAssumption
<1> HIDE DEF b, c, r, h, u, a
<1>5. mint_nonces' \in SUBSET (ChainIds \X Nat)
  BY <1>1, <1>3 DEF TypeOK, b, c, r
<1>6. sbtc_ata' \in SUBSET (ChainIds \X Pubkeys)
  BY <1>1, <1>3 DEF TypeOK
<1>7. sbtc_supply' \in [ChainIds -> 0 .. U64_MAX]
  BY <1>1, <1>3, <1>4 DEF TypeOK
<1>8. sbtc_balance' \in [ChainIds -> [Pubkeys -> Nat]]
  BY <1>1, <1>3 DEF TypeOK
<1>9. /\ supported_chain_config' \in [ChainIds -> SupportedChainConfigs]
      /\ token_config' \in [Routes -> TokenConfigs]
      /\ bridge_config' = bridge_config
  <2> HIDE DEF e
  <2>1. supported_chain_config' \in [ChainIds -> SupportedChainConfigs]
    BY <1>1, <1>3, ChainTotalType DEF TypeOK, ConfigTypeOK
  <2>2. token_config' \in [Routes -> TokenConfigs]
    BY <1>1, <1>3, TokenTotalType DEF TypeOK, ConfigTypeOK
  <2> QED BY <1>3, <2>1, <2>2
<1>10. limiter' \in [Routes -> LimiterAccounts]
  <2>1. Recorded(limiter[r], h, a) \in LimiterAccounts
    BY <1>1, <1>2, RecordedType DEF TypeOK
  <2> QED BY <1>1, <1>3, <2>1 DEF TypeOK
<1>11. mint_events' \in Seq(MintEvents)
  <2>1. e \in MintEvents
    BY <1>1, <1>2, <1>9 DEF MintEvents, SupportedChainConfigs, TokenConfigs
  <2> HIDE DEF e
  <2> QED BY <1>3, <2>1, AppendEvent DEF TypeOK
<1> QED BY <1>3, <1>5, <1>6, <1>7, <1>8, <1>9, <1>10, <1>11
     DEF TypeOK, ConfigTypeOK, committeeVars

(* What was minted to and withdrawn from a Solana chain, as SupplyBacked   *)
(* adds it up.                                                             *)
MintedOn(b) == SumEvents(mint_events,
                         LAMBDA e : IF e.to_chain_id = b THEN e.amount ELSE 0)

WithdrawnFrom(b) == SumEvents(withdraw_events,
                              LAMBDA e : IF e.chain_id = b THEN e.amount ELSE 0)

(* These sums are naturals, and SupplyBacked says of each chain:           *)
LEMMA SumsOnChain ==
  ASSUME TypeOK, NEW b \in ChainIds
  PROVE  MintedOn(b) \in Nat /\ WithdrawnFrom(b) \in Nat
<1>1. /\ DOMAIN mint_events = 1 .. Len(mint_events) /\ Len(mint_events) \in Nat
      /\ \A i \in DOMAIN mint_events : mint_events[i] \in MintEvents
  BY DEF TypeOK
<1>2. /\ DOMAIN withdraw_events = 1 .. Len(withdraw_events)
      /\ Len(withdraw_events) \in Nat
      /\ \A i \in DOMAIN withdraw_events : withdraw_events[i] \in WithdrawEvents
  BY DEF TypeOK
<1>3. MintedOn(b) \in Nat
  <2> DEFINE f == [i \in DOMAIN mint_events |->
               IF mint_events[i].to_chain_id = b THEN mint_events[i].amount ELSE 0]
  <2>1. IsFiniteSet(DOMAIN f) /\ \A i \in DOMAIN f : f[i] \in Nat
    BY <1>1, FS_Interval DEF MintEvents
  <2> HIDE DEF f
  <2>2. SumFunction(f) \in Nat
    BY <2>1, SumType
  <2> QED BY <2>2 DEF f, MintedOn, SumEvents
<1>4. WithdrawnFrom(b) \in Nat
  <2> DEFINE f == [i \in DOMAIN withdraw_events |->
               IF withdraw_events[i].chain_id = b THEN withdraw_events[i].amount ELSE 0]
  <2>1. IsFiniteSet(DOMAIN f) /\ \A i \in DOMAIN f : f[i] \in Nat
    BY <1>2, FS_Interval DEF WithdrawEvents
  <2> HIDE DEF f
  <2>2. SumFunction(f) \in Nat
    BY <2>1, SumType
  <2> QED BY <2>2 DEF f, WithdrawnFrom, SumEvents
<1> QED BY <1>3, <1>4

(* A mint adds its amount to the supply, to one balance and to what was    *)
(* minted.                                                                 *)
LEMMA MintBacked ==
  ASSUME TypeOK, TypeOK', SupplyBacked, NEW submitter, NEW sigs,
         NEW msg \in MintMessages, MintSbtcWithSignatures(submitter, sigs, msg)
  PROVE  SupplyBacked'
<1> DEFINE b == msg.to_chain_id
           u == msg.to_address
           a == msg.amount
           n == Len(mint_events)
<1>1. b \in ChainIds /\ u \in Pubkeys /\ a \in Nat
  BY MintMessageType
<1>2. /\ sbtc_supply' = [sbtc_supply EXCEPT ![b] = @ + a]
      /\ sbtc_balance' = [sbtc_balance EXCEPT ![b][u] = @ + a]
      /\ withdraw_events' = withdraw_events
  BY DEF MintSbtcWithSignatures
<1>3. /\ DOMAIN mint_events' = 1 .. n + 1
      /\ DOMAIN mint_events = 1 .. n
      /\ n \in Nat
      /\ \A i \in 1 .. n : mint_events'[i] = mint_events[i]
      /\ \A i \in 1 .. n : mint_events[i].amount \in Nat
      /\ mint_events'[n + 1].to_chain_id = b
      /\ mint_events'[n + 1].amount = a
  <2> DEFINE c == msg.source_chain_id
             r == <<c, msg.source_token_id>>
             e == [nonce |-> msg.nonce, route |-> r, to_chain_id |-> b,
                   to_address |-> u, amount |-> a,
                   hour |-> CurrentHour(unix_timestamp),
                   chain_mint_total |-> supported_chain_config'[c].mint_total,
                   token_mint_total |-> token_config'[r].mint_total]
  <2>1. mint_events' = Append(mint_events, e)
    BY DEF MintSbtcWithSignatures
  <2>2. e.to_chain_id = b /\ e.amount = a
    OBVIOUS
  <2>3. mint_events \in Seq(MintEvents)
    BY DEF TypeOK
  <2>4. \A i \in 1 .. n : mint_events[i] \in MintEvents
    BY <2>3
  <2>5. \A i \in 1 .. n : mint_events[i].amount \in Nat
    BY <2>4 DEF MintEvents
  <2> HIDE DEF e
  <2> QED BY <2>1, <2>2, <2>3, <2>5
<1> HIDE DEF b, u, a, n
<1>4. \A d \in ChainIds :
        /\ sbtc_supply[d] \in Nat /\ MintedOn(d) \in Nat /\ WithdrawnFrom(d) \in Nat
        /\ sbtc_supply[d] + WithdrawnFrom(d) <= MintedOn(d)
        /\ sbtc_supply[d] = SumFunction(sbtc_balance[d])
        /\ sbtc_balance[d] \in [Pubkeys -> Nat]
        /\ sbtc_supply'[d] = IF d = b THEN sbtc_supply[d] + a ELSE sbtc_supply[d]
  <2> TAKE d \in ChainIds
  <2>1. /\ sbtc_supply \in [ChainIds -> 0 .. U64_MAX] /\ U64_MAX \in Nat
        /\ sbtc_balance \in [ChainIds -> [Pubkeys -> Nat]]
    BY BridgeAssumption DEF TypeOK
  <2>2. /\ sbtc_supply[d] + WithdrawnFrom(d) <= MintedOn(d)
        /\ sbtc_supply[d] = SumFunction(sbtc_balance[d])
    BY DEF SupplyBacked, MintedOn, WithdrawnFrom
  <2>3. MintedOn(d) \in Nat /\ WithdrawnFrom(d) \in Nat
    BY SumsOnChain
  <2> QED BY <1>1, <1>2, <2>1, <2>2, <2>3
<1>5. ASSUME NEW d \in ChainIds
      PROVE  /\ MintedOn(d)' = MintedOn(d) + IF d = b THEN a ELSE 0
             /\ WithdrawnFrom(d)' = WithdrawnFrom(d)
  <2> DEFINE f == [i \in 1 .. n |->
               IF mint_events[i].to_chain_id = d THEN mint_events[i].amount ELSE 0]
             g == [i \in 1 .. n + 1 |->
               IF mint_events'[i].to_chain_id = d THEN mint_events'[i].amount ELSE 0]
  <2>1. g[n + 1] = IF d = b THEN a ELSE 0
    BY <1>3
  <2>2. \A i \in 1 .. n : f[i] \in Nat /\ g[i] = f[i]
    BY <1>3
  <2>3. DOMAIN f = 1 .. n /\ DOMAIN g = 1 .. n + 1
    OBVIOUS
  <2>4. MintedOn(d) = SumFunction(f) /\ MintedOn(d)' = SumFunction(g)
    BY <1>3 DEF MintedOn, SumEvents
  <2> HIDE DEF f, g
  <2>5. SumFunction(g) = SumFunction(f) + g[n + 1]
    BY <1>1, <1>3, <2>1, <2>2, <2>3, SumAppended
  <2>6. WithdrawnFrom(d)' = WithdrawnFrom(d)
    BY <1>2 DEF WithdrawnFrom, SumEvents
  <2> QED BY <2>1, <2>4, <2>5, <2>6
<1>6. ASSUME NEW d \in ChainIds
      PROVE  SumFunction(sbtc_balance'[d])
               = SumFunction(sbtc_balance[d]) + IF d = b THEN a ELSE 0
  <2>1. CASE d = b
    <3>1. sbtc_balance[b][u] \in Nat
      BY <1>1, <1>4
    <3> DEFINE v == sbtc_balance[b][u] + a
    <3>2. v \in Nat
      BY <1>1, <3>1
    <3>3. sbtc_balance'[b] = [sbtc_balance[b] EXCEPT ![u] = v]
      BY <1>1, <1>2, <1>4 DEF TypeOK
    <3>4. v = sbtc_balance[b][u] + a
      OBVIOUS
    <3> HIDE DEF v
    <3>5. /\ SumFunction(sbtc_balance[b]) \in Nat
          /\ SumFunction([sbtc_balance[b] EXCEPT ![u] = v])
               = SumFunction(sbtc_balance[b]) - sbtc_balance[b][u] + v
      BY <1>1, <1>4, <3>2, BalanceChanged
    <3> QED BY <1>1, <2>1, <3>1, <3>3, <3>4, <3>5
  <2>2. CASE d # b
    BY <1>2, <1>4, <2>2
  <2> QED BY <2>1, <2>2
<1>7. ASSUME NEW d \in ChainIds
      PROVE  /\ sbtc_supply'[d] + WithdrawnFrom(d)' <= MintedOn(d)'
             /\ sbtc_supply'[d] = SumFunction(sbtc_balance'[d])
  BY <1>1, <1>4, <1>5, <1>6
<1> QED BY <1>7 DEF SupplyBacked, MintedOn, WithdrawnFrom

(* A mint keeps the invariant: the nonce it appends to the log had no      *)
(* account before, and both totals grow by the same amount.                *)
LEMMA MintStep ==
  ASSUME BridgeInv, NEW submitter, NEW sigs, NEW msg \in MintMessages,
         MintSbtcWithSignatures(submitter, sigs, msg)
  PROVE  BridgeInv'
<1> DEFINE c == msg.source_chain_id
           r == <<c, msg.source_token_id>>
           h == CurrentHour(unix_timestamp)
           a == msg.amount
           n == Len(mint_events)
<1>1. TypeOK /\ TypeOK'
  BY MintType DEF BridgeInv
<1>2. c \in ChainIds /\ r \in Routes /\ r[1] = c /\ a \in Nat
  BY MintMessageType
<1>3. /\ supported_chain_config[c].is_initialized
      /\ token_config[r].is_initialized
      /\ <<c, msg.nonce>> \notin mint_nonces
      /\ mint_nonces' = mint_nonces \cup {<<c, msg.nonce>>}
      /\ supported_chain_config' =
           [supported_chain_config EXCEPT ![c].mint_total = @ + a]
      /\ token_config' = [token_config EXCEPT ![r].mint_total = @ + a]
      /\ limiter' = [limiter EXCEPT ![r] = Recorded(@, h, a)]
      /\ UNCHANGED <<update_nonce, withdraw_nonce, limit_events, withdraw_events>>
  BY DEF MintSbtcWithSignatures, MintAccounts, ConsumedNonce, ChainOpen, TokenOpen
<1>4. /\ DOMAIN mint_events' = 1 .. n + 1
      /\ DOMAIN mint_events = 1 .. n
      /\ n \in Nat
      /\ \A i \in DOMAIN mint_events : mint_events'[i] = mint_events[i]
      /\ mint_events'[n + 1].route = r
      /\ mint_events'[n + 1].route[1] = c
      /\ mint_events'[n + 1].nonce = msg.nonce
      /\ mint_events'[n + 1].amount = a
  <2> DEFINE e == [nonce |-> msg.nonce, route |-> r, to_chain_id |-> msg.to_chain_id,
                   to_address |-> msg.to_address, amount |-> a, hour |-> h,
                   chain_mint_total |-> supported_chain_config'[c].mint_total,
                   token_mint_total |-> token_config'[r].mint_total]
  <2>1. mint_events' = Append(mint_events, e)
    BY DEF MintSbtcWithSignatures
  <2>2. e.route = r /\ e.route[1] = c /\ e.nonce = msg.nonce /\ e.amount = a
    OBVIOUS
  <2>3. mint_events \in Seq(MintEvents)
    BY <1>1 DEF TypeOK
  <2> HIDE DEF e
  <2> QED BY <2>1, <2>2, <2>3
<1> HIDE DEF c, r, h, a, n
<1>5. \A d \in ChainIds :
        /\ supported_chain_config'[d].mint_total =
             IF d = c THEN supported_chain_config[d].mint_total + a
                      ELSE supported_chain_config[d].mint_total
        /\ supported_chain_config'[d].is_initialized =
             supported_chain_config[d].is_initialized
        /\ supported_chain_config'[d].lamports = supported_chain_config[d].lamports
        /\ supported_chain_config[d].mint_total \in Nat
  <2>1. supported_chain_config \in [ChainIds -> SupportedChainConfigs]
    BY <1>1 DEF TypeOK, ConfigTypeOK
  <2>2. supported_chain_config' =
          [supported_chain_config EXCEPT ![c].mint_total = @ + a]
    BY <1>3
  <2> QED BY <1>2, <2>1, <2>2 DEF SupportedChainConfigs
<1>6. \A s \in Routes :
        /\ token_config'[s].mint_total =
             IF s = r THEN token_config[s].mint_total + a
                      ELSE token_config[s].mint_total
        /\ token_config'[s].is_initialized = token_config[s].is_initialized
        /\ token_config'[s].lamports = token_config[s].lamports
        /\ token_config[s].mint_total \in Nat
  <2>1. token_config \in [Routes -> TokenConfigs]
    BY <1>1 DEF TypeOK, ConfigTypeOK
  <2>2. token_config' = [token_config EXCEPT ![r].mint_total = @ + a]
    BY <1>3
  <2> QED BY <1>2, <2>1, <2>2 DEF TokenConfigs
<1>7. ChainsFunded' /\ TokensFunded'
  BY <1>3, <1>5, <1>6 DEF BridgeInv, ChainsFunded, TokensFunded
<1>8. TokenWithinChain'
  <2>1. \A s \in Routes : s[1] \in ChainIds
    BY DEF Routes
  <2> QED BY <1>2, <1>5, <1>6, <2>1 DEF BridgeInv, TokenWithinChain
<1>9. NoncesConsumed' /\ MintedOncePerNonce'
  <2>1. \A i \in 1 .. n + 1 : i \in 1 .. n \/ i = n + 1
    BY <1>4
  <2>2. NoncesConsumed /\ MintedOncePerNonce
    BY DEF BridgeInv
  <2>3. NoncesConsumed'
    BY <1>3, <1>4, <2>1, <2>2 DEF NoncesConsumed
  <2>4. \A i \in 1 .. n : <<mint_events[i].route[1], mint_events[i].nonce>>
                             # <<c, msg.nonce>>
    BY <1>3, <1>4, <2>2 DEF NoncesConsumed
  <2>5. MintedOncePerNonce'
    BY <1>4, <2>1, <2>2, <2>4 DEF MintedOncePerNonce
  <2> QED BY <2>3, <2>5
<1>10. LimitsInOrder'
  <2>1. \A s \in Routes : limiter'[s].total_limit = limiter[s].total_limit
    <3>1. limiter \in [Routes -> LimiterAccounts]
      BY <1>1 DEF TypeOK
    <3>2. Recorded(limiter[r], h, a).total_limit = limiter[r].total_limit
      BY <1>2, <3>1, RecordedKeepsLimit
    <3> QED BY <1>2, <1>3, <3>1, <3>2
  <2>2. \A i \in DOMAIN limit_events : limit_events[i].route \in Routes
    <3>1. \A i \in DOMAIN limit_events : limit_events[i] \in LimitEvents
      BY <1>1 DEF TypeOK
    <3> QED BY <3>1 DEF LimitEvents
  <2> QED BY <1>3, <2>1, <2>2 DEF BridgeInv, LimitsInOrder
<1>11. WithdrawalReleases' /\ WithdrawalsNumbered'
  BY <1>3 DEF BridgeInv, WithdrawalReleases, WithdrawalsNumbered
<1>12. MintTotalsCount'
  <2>1. \A i \in 1 .. n : mint_events[i].amount \in Nat
    <3>1. \A i \in 1 .. n : mint_events[i] \in MintEvents
      BY <1>1, <1>4 DEF TypeOK
    <3> QED BY <3>1 DEF MintEvents
  <2>2. ASSUME NEW s \in Routes
        PROVE  token_config'[s].mint_total =
                 SumFunction([i \in DOMAIN mint_events' |->
                   IF mint_events'[i].route = s THEN mint_events'[i].amount ELSE 0])
    <3> DEFINE f == [i \in DOMAIN mint_events |->
                 IF mint_events[i].route = s THEN mint_events[i].amount ELSE 0]
               g == [i \in DOMAIN mint_events' |->
                 IF mint_events'[i].route = s THEN mint_events'[i].amount ELSE 0]
    <3>1. g[n + 1] = IF r = s THEN a ELSE 0
      BY <1>4
    <3>2. \A i \in 1 .. n : f[i] \in Nat /\ g[i] = f[i]
      BY <1>4, <2>1
    <3>3. DOMAIN f = 1 .. n /\ DOMAIN g = 1 .. n + 1
      BY <1>4
    <3>4. token_config[s].mint_total = SumFunction(f)
      BY Zenon DEF BridgeInv, MintTotalsCount, SumEvents
    <3> HIDE DEF f, g
    <3>5. SumFunction(g) = SumFunction(f) + g[n + 1] /\ SumFunction(f) \in Nat
      <4>1. g[n + 1] \in Nat
        BY <1>2, <3>1
      <4>2. n \in Nat
        BY <1>4
      <4> QED BY <3>2, <3>3, <4>1, <4>2, SumAppended
    <3>6. token_config'[s].mint_total = SumFunction(g)
      BY <1>2, <1>6, <3>1, <3>4, <3>5
    <3> QED BY <3>6 DEF g
  <2>3. ASSUME NEW d \in ChainIds
        PROVE  supported_chain_config'[d].mint_total =
                 SumFunction([i \in DOMAIN mint_events' |->
                   IF mint_events'[i].route[1] = d THEN mint_events'[i].amount ELSE 0])
    <3> DEFINE f == [i \in DOMAIN mint_events |->
                 IF mint_events[i].route[1] = d THEN mint_events[i].amount ELSE 0]
               g == [i \in DOMAIN mint_events' |->
                 IF mint_events'[i].route[1] = d THEN mint_events'[i].amount ELSE 0]
    <3>1. g[n + 1] = IF c = d THEN a ELSE 0
      BY <1>4
    <3>2. \A i \in 1 .. n : f[i] \in Nat /\ g[i] = f[i]
      BY <1>4, <2>1
    <3>3. DOMAIN f = 1 .. n /\ DOMAIN g = 1 .. n + 1
      BY <1>4
    <3>4. supported_chain_config[d].mint_total = SumFunction(f)
      BY Zenon DEF BridgeInv, MintTotalsCount, SumEvents
    <3> HIDE DEF f, g
    <3>5. SumFunction(g) = SumFunction(f) + g[n + 1] /\ SumFunction(f) \in Nat
      <4>1. g[n + 1] \in Nat
        BY <1>2, <3>1
      <4>2. n \in Nat
        BY <1>4
      <4> QED BY <3>2, <3>3, <4>1, <4>2, SumAppended
    <3>6. supported_chain_config'[d].mint_total = SumFunction(g)
      BY <1>2, <1>5, <3>1, <3>4, <3>5
    <3> QED BY <3>6 DEF g
  <2> QED BY <2>2, <2>3 DEF MintTotalsCount, SumEvents
<1>13. SupplyBacked'
  BY <1>1, MintBacked DEF BridgeInv
<1> QED BY <1>1, <1>7, <1>8, <1>9, <1>10, <1>11, <1>12, <1>13 DEF BridgeInv

-----------------------------------------------------------------------------
(* The values a withdrawal message carries.                                *)
LEMMA WithdrawMessageType ==
  ASSUME NEW msg \in WithdrawMessages
  PROVE  /\ msg.chain_id \in ChainIds
         /\ <<msg.to_chain_id, msg.to_token_id>> \in Routes
         /\ msg.to_chain_id \in ChainIds
         /\ msg.amount \in Nat
         /\ msg.from_address \in Pubkeys
<1>1. msg.amount \in Amounts /\ msg.from_address \in Users
  BY DEF WithdrawMessages
<1>2. Amounts \subseteq Nat /\ Users \subseteq Pubkeys
  BY BridgeAssumption
<1>3. /\ msg.chain_id \in ChainIds /\ msg.to_chain_id \in ChainIds
      /\ msg.to_token_id \in TokenIds
  BY DEF WithdrawMessages
<1> QED BY <1>1, <1>2, <1>3 DEF Routes

(* A withdrawal takes from the supply what its event announces, and from   *)
(* the balances what it takes from the supply.                             *)
LEMMA WithdrawBacked ==
  ASSUME TypeOK, SupplyBacked, NEW user, NEW msg \in WithdrawMessages,
         WithdrawBtc(user, msg)
  PROVE  SupplyBacked'
<1> DEFINE b == msg.chain_id
           r == <<msg.to_chain_id, msg.to_token_id>>
           a == msg.amount
           to == bridge_config[b].fee_recipient
           fee == Fee(a, token_config[r].token_fee_percentage)
           n == Len(withdraw_events)
<1>1. b \in ChainIds /\ r \in Routes /\ a \in Nat /\ msg.from_address \in Pubkeys
  BY WithdrawMessageType
<1>2. /\ user = msg.from_address
      /\ a <= sbtc_balance[b][user]
      /\ user # to
      /\ a - fee <= sbtc_supply[b]
      /\ sbtc_balance' = [sbtc_balance EXCEPT ![b][user] = @ - a,
                                              ![b][to] = @ + fee]
      /\ sbtc_supply' = [sbtc_supply EXCEPT ![b] = @ - (a - fee)]
      /\ mint_events' = mint_events
  BY DEF WithdrawBtc, WithdrawAccounts, RolesFound, Released
<1>3. to \in Pubkeys /\ fee \in 0 .. a
  <2>1. bridge_config \in [ChainIds -> BridgeConfigs]
    BY DEF TypeOK, ConfigTypeOK
  <2>2. token_config[r].token_fee_percentage \in 0 .. FEE_DENOMINATOR - 1
    BY <1>1 DEF TypeOK, ConfigTypeOK, TokenConfigs
  <2>3. fee \in 0 .. a
    BY <1>1, <2>2, FeeBelowAmount
  <2>4. to \in Pubkeys
    BY <1>1, <2>1 DEF BridgeConfigs
  <2> QED BY <2>3, <2>4
<1>4. /\ DOMAIN withdraw_events' = 1 .. n + 1
      /\ DOMAIN withdraw_events = 1 .. n
      /\ n \in Nat
      /\ \A i \in 1 .. n : withdraw_events'[i] = withdraw_events[i]
      /\ \A i \in 1 .. n : withdraw_events[i].amount \in Nat
      /\ withdraw_events'[n + 1].chain_id = b
      /\ withdraw_events'[n + 1].amount = a - fee
  <2> DEFINE c == msg.to_chain_id
             e == [nonce |-> withdraw_nonce', route |-> r, chain_id |-> b,
                   from_address |-> user, amount |-> a - fee,
                   original_amount |-> a,
                   chain_mint_total |-> supported_chain_config[c].mint_total - a,
                   token_mint_total |-> token_config[r].mint_total - a]
  <2>1. withdraw_events' = Append(withdraw_events, e)
    BY DEF WithdrawBtc, Released
  <2>2. e.chain_id = b /\ e.amount = a - fee
    OBVIOUS
  <2>3. withdraw_events \in Seq(WithdrawEvents)
    BY DEF TypeOK
  <2>4. \A i \in 1 .. n : withdraw_events[i] \in WithdrawEvents
    BY <2>3
  <2>5. \A i \in 1 .. n : withdraw_events[i].amount \in Nat
    BY <2>4 DEF WithdrawEvents
  <2> HIDE DEF e, fee, a, b
  <2> QED BY <2>1, <2>2, <2>3, <2>5
<1> HIDE DEF b, r, a, to, fee, n
<1>5. \A d \in ChainIds :
        /\ sbtc_supply[d] \in Nat /\ MintedOn(d) \in Nat /\ WithdrawnFrom(d) \in Nat
        /\ sbtc_supply[d] + WithdrawnFrom(d) <= MintedOn(d)
        /\ sbtc_supply[d] = SumFunction(sbtc_balance[d])
        /\ sbtc_supply'[d] =
             IF d = b THEN sbtc_supply[d] - (a - fee) ELSE sbtc_supply[d]
  <2> TAKE d \in ChainIds
  <2>1. sbtc_supply \in [ChainIds -> 0 .. U64_MAX] /\ U64_MAX \in Nat
    BY BridgeAssumption DEF TypeOK
  <2>2. /\ sbtc_supply[d] + WithdrawnFrom(d) <= MintedOn(d)
        /\ sbtc_supply[d] = SumFunction(sbtc_balance[d])
    BY DEF SupplyBacked, MintedOn, WithdrawnFrom
  <2>3. MintedOn(d) \in Nat /\ WithdrawnFrom(d) \in Nat
    BY SumsOnChain
  <2> QED BY <1>1, <1>2, <2>1, <2>2, <2>3
<1>6. ASSUME NEW d \in ChainIds
      PROVE  /\ WithdrawnFrom(d)' = WithdrawnFrom(d) + IF d = b THEN a - fee ELSE 0
             /\ MintedOn(d)' = MintedOn(d)
  <2> DEFINE f == [i \in 1 .. n |->
               IF withdraw_events[i].chain_id = d THEN withdraw_events[i].amount ELSE 0]
             g == [i \in 1 .. n + 1 |->
               IF withdraw_events'[i].chain_id = d THEN withdraw_events'[i].amount ELSE 0]
  <2>1. g[n + 1] = (IF d = b THEN a - fee ELSE 0) /\ g[n + 1] \in Nat
    BY <1>1, <1>3, <1>4
  <2>2. \A i \in 1 .. n : f[i] \in Nat /\ g[i] = f[i]
    BY <1>4
  <2>3. DOMAIN f = 1 .. n /\ DOMAIN g = 1 .. n + 1
    OBVIOUS
  <2>4. WithdrawnFrom(d) = SumFunction(f) /\ WithdrawnFrom(d)' = SumFunction(g)
    BY <1>4 DEF WithdrawnFrom, SumEvents
  <2> HIDE DEF f, g
  <2>5. SumFunction(g) = SumFunction(f) + g[n + 1]
    BY <1>4, <2>1, <2>2, <2>3, SumAppended
  <2>6. MintedOn(d)' = MintedOn(d)
    BY <1>2 DEF MintedOn, SumEvents
  <2> QED BY <2>1, <2>4, <2>5, <2>6
<1>7. ASSUME NEW d \in ChainIds
      PROVE  SumFunction(sbtc_balance'[d]) =
               IF d = b THEN SumFunction(sbtc_balance[d]) - a + fee
                        ELSE SumFunction(sbtc_balance[d])
  <2>1. sbtc_balance \in [ChainIds -> [Pubkeys -> Nat]]
    BY DEF TypeOK
  <2>2. CASE d = b
    <3>1. sbtc_balance'[b] = [sbtc_balance[b] EXCEPT ![user] = @ - a, ![to] = @ + fee]
      BY <1>1, <1>2, <1>3, <2>1
    <3>2. sbtc_balance[b] \in [Pubkeys -> Nat]
      BY <1>1, <2>1
    <3>3. SumFunction(sbtc_balance'[b]) = SumFunction(sbtc_balance[b]) - a + fee
      BY <1>1, <1>2, <1>3, <3>1, <3>2, BalanceMoved
    <3> QED BY <2>2, <3>3
  <2>3. CASE d # b
    BY <1>2, <2>1, <2>3
  <2> QED BY <2>2, <2>3
<1>8. ASSUME NEW d \in ChainIds
      PROVE  /\ sbtc_supply'[d] + WithdrawnFrom(d)' <= MintedOn(d)'
             /\ sbtc_supply'[d] = SumFunction(sbtc_balance'[d])
  BY <1>1, <1>3, <1>5, <1>6, <1>7
<1> QED BY <1>8 DEF SupplyBacked, MintedOn, WithdrawnFrom

(* A withdrawal keeps the invariant: its fee is below its amount, and its  *)
(* number is the next one.                                                 *)
LEMMA WithdrawStep ==
  ASSUME BridgeInv, NEW user, NEW msg \in WithdrawMessages, WithdrawBtc(user, msg)
  PROVE  BridgeInv'
<1> DEFINE b == msg.chain_id
           c == msg.to_chain_id
           r == <<c, msg.to_token_id>>
           a == msg.amount
           to == bridge_config[b].fee_recipient
           fee == Fee(a, token_config[r].token_fee_percentage)
           n == Len(withdraw_events)
           e == [nonce |-> withdraw_nonce', route |-> r, chain_id |-> b,
                 from_address |-> user, amount |-> a - fee,
                 original_amount |-> a,
                 chain_mint_total |-> supported_chain_config[c].mint_total - a,
                 token_mint_total |-> token_config[r].mint_total - a]
<1>1. /\ TypeOK /\ ConfigTypeOK
      /\ withdraw_events \in Seq(WithdrawEvents)
      /\ withdraw_nonce \in Nat
  BY DEF BridgeInv, TypeOK
<1>2. /\ b \in ChainIds /\ c \in ChainIds /\ r \in Routes
      /\ a \in Nat /\ msg.from_address \in Pubkeys
  BY WithdrawMessageType
<1>3. /\ user = msg.from_address
      /\ a <= supported_chain_config[c].mint_total
      /\ a <= token_config[r].mint_total
      /\ a <= sbtc_balance[b][user]
      /\ user # to
      /\ a - fee <= sbtc_supply[b]
      /\ withdraw_nonce' = withdraw_nonce + 1
      /\ sbtc_ata' = sbtc_ata \cup {<<b, to>>}
      /\ sbtc_balance' = [sbtc_balance EXCEPT ![b][user] = @ - a,
                                              ![b][to] = @ + fee]
      /\ sbtc_supply' = [sbtc_supply EXCEPT ![b] = @ - (a - fee)]
      /\ withdraw_events' = Append(withdraw_events, e)
      /\ UNCHANGED <<configVars, committeeVars, limiter, update_nonce, mint_nonces,
                     unix_timestamp, limit_events, mint_events>>
  BY DEF WithdrawBtc, WithdrawAccounts, RolesFound, WithAta, Released, NextWithdrawNonce
<1>4. /\ token_config[r].token_fee_percentage \in 0 .. FEE_DENOMINATOR - 1
      /\ token_config[r].mint_total \in Nat
  BY <1>1, <1>2 DEF ConfigTypeOK, TokenConfigs
<1>5. supported_chain_config[c].mint_total \in Nat
  BY <1>1, <1>2 DEF ConfigTypeOK, SupportedChainConfigs
<1>6. to \in Pubkeys
  BY <1>1, <1>2 DEF ConfigTypeOK, BridgeConfigs
<1>7. fee \in 0 .. a /\ (a > 0 => fee < a)
  BY <1>2, <1>4, FeeBelowAmount
<1>8. /\ e.nonce = withdraw_nonce + 1 /\ e.amount = a - fee
      /\ e.original_amount = a
  BY <1>3
<1> HIDE DEF b, c, r, a, to, fee, n
<1>9. e \in WithdrawEvents
  <2> HIDE DEF e
  <2>1. withdraw_nonce' \in Nat /\ user \in Pubkeys
    BY <1>1, <1>2, <1>3
  <2>2. a - fee \in Nat
    BY <1>2, <1>7
  <2>3. supported_chain_config[c].mint_total - a \in Nat
    BY <1>2, <1>3, <1>5
  <2>4. token_config[r].mint_total - a \in Nat
    BY <1>2, <1>3, <1>4
  <2> QED BY <1>2, <2>1, <2>2, <2>3, <2>4 DEF WithdrawEvents, e
<1> HIDE DEF e
<1>10. /\ withdraw_events' \in Seq(WithdrawEvents)
       /\ n \in Nat
       /\ Len(withdraw_events') = n + 1
       /\ DOMAIN withdraw_events' = 1 .. n + 1
       /\ DOMAIN withdraw_events = 1 .. n
       /\ \A i \in 1 .. n : withdraw_events'[i] = withdraw_events[i]
       /\ withdraw_events'[n + 1] = e
  BY <1>1, <1>3, <1>9, AppendEvent DEF n
<1>11. TypeOK'
  <2>1. sbtc_supply' \in [ChainIds -> 0 .. U64_MAX]
    <3>1. sbtc_supply \in [ChainIds -> 0 .. U64_MAX] /\ U64_MAX \in Nat
      BY <1>1, BridgeAssumption DEF TypeOK
    <3> QED BY <1>2, <1>3, <1>7, <3>1
  <2>2. sbtc_balance' \in [ChainIds -> [Pubkeys -> Nat]]
    <3>1. sbtc_balance \in [ChainIds -> [Pubkeys -> Nat]]
      BY <1>1 DEF TypeOK
    <3> QED BY <1>2, <1>3, <1>6, <1>7, <3>1
  <2>3. sbtc_ata' \in SUBSET (ChainIds \X Pubkeys)
    BY <1>1, <1>2, <1>3, <1>6 DEF TypeOK
  <2>4. withdraw_nonce' \in Nat
    BY <1>1, <1>3
  <2> QED BY <1>1, <1>3, <1>10, <2>1, <2>2, <2>3, <2>4
       DEF TypeOK, ConfigTypeOK, configVars, committeeVars
<1>12. ChainsFunded' /\ TokensFunded' /\ TokenWithinChain'
  BY <1>3 DEF configVars, BridgeInv, ChainsFunded, TokensFunded, TokenWithinChain
<1>13. NoncesConsumed' /\ MintedOncePerNonce' /\ LimitsInOrder'
  BY <1>3 DEF BridgeInv, NoncesConsumed, MintedOncePerNonce, LimitsInOrder
<1>14. \A i \in 1 .. n + 1 : i \in 1 .. n \/ i = n + 1
  BY <1>10
<1>15. WithdrawalReleases'
  <2>1. WithdrawalReleases
    BY DEF BridgeInv
  <2>2. e.amount <= e.original_amount /\ (e.original_amount > 0 => e.amount > 0)
    BY <1>2, <1>7, <1>8
  <2> QED BY <1>10, <1>14, <2>1, <2>2 DEF WithdrawalReleases
<1>16. WithdrawalsNumbered'
  <2>1. /\ withdraw_nonce = n
        /\ \A i \in 1 .. n : withdraw_events[i].nonce = i
    BY <1>10 DEF BridgeInv, WithdrawalsNumbered, n
  <2> QED BY <1>3, <1>8, <1>10, <1>14, <2>1 DEF WithdrawalsNumbered
<1>17. MintTotalsCount' /\ SupplyBacked'
  <2>1. MintTotalsCount'
    BY <1>3 DEF configVars, BridgeInv, MintTotalsCount, SumEvents
  <2> QED BY <2>1, WithdrawBacked DEF BridgeInv
<1> QED BY <1>11, <1>12, <1>13, <1>15, <1>16, <1>17 DEF BridgeInv

-----------------------------------------------------------------------------
(* A limiter update keeps the invariant: it carries the number the program *)
(* expects and its limit is the one now in force.                          *)
LEMMA LimitStep ==
  ASSUME BridgeInv, NEW submitter, NEW sigs, NEW msg \in LimitMessages,
         AddOrUpdateLimiterWithSignatures(submitter, sigs, msg)
  PROVE  BridgeInv'
<1> DEFINE r == <<msg.target_chain_id, msg.token_id>>
           h == CurrentHour(unix_timestamp)
           limit == msg.total_limit
           n == Len(limit_events)
           e == [nonce |-> update_nonce', approved |-> msg.nonce, route |-> r,
                 total_limit |-> limit]
<1>1. /\ TypeOK
      /\ limit_events \in Seq(LimitEvents)
      /\ limiter \in [Routes -> LimiterAccounts]
      /\ update_nonce \in Nat
      /\ unix_timestamp \in Nat
  BY DEF BridgeInv, TypeOK
<1>2. r \in Routes /\ limit \in Nat /\ msg.nonce \in Nat
  <2>1. limit \in Limits /\ r \in Routes /\ msg.nonce \in 0 .. MaxLimitUpdates
    BY DEF LimitMessages, Routes
  <2>2. Limits \subseteq Nat
    BY BridgeAssumption
  <2>3. MaxLimitUpdates \in Nat
    BY BridgeAssumption
  <2> HIDE DEF r, limit
  <2>4. msg.nonce \in Nat
    BY <2>1, <2>3
  <2> QED BY <2>1, <2>2, <2>4
<1>3. h \in 0 .. U32 - 1
  BY <1>1, CurrentHourType
<1>4. /\ msg.nonce = update_nonce
      /\ update_nonce' = update_nonce + 1
      /\ limiter' = [limiter EXCEPT ![r] = LimitSet(@, h, limit)]
      /\ limit_events' = Append(limit_events, e)
      /\ UNCHANGED <<configVars, committeeVars, withdraw_nonce, mint_nonces,
                     tokenVars, unix_timestamp, mint_events, withdraw_events>>
  BY DEF AddOrUpdateLimiterWithSignatures, NonceEqual
<1>5. e.approved = msg.nonce /\ e.route = r /\ e.total_limit = limit
  OBVIOUS
<1> HIDE DEF r, h, limit, n, e
<1>6. e \in LimitEvents
  BY <1>1, <1>2, <1>4 DEF LimitEvents, e
<1>7. /\ limit_events' \in Seq(LimitEvents)
      /\ n \in Nat
      /\ Len(limit_events') = n + 1
      /\ DOMAIN limit_events' = 1 .. n + 1
      /\ DOMAIN limit_events = 1 .. n
      /\ \A i \in 1 .. n : limit_events'[i] = limit_events[i]
      /\ limit_events'[n + 1] = e
  BY <1>1, <1>4, <1>6, AppendEvent DEF n
<1>8. TypeOK'
  <2>1. LimitSet(limiter[r], h, limit) \in LimiterAccounts
    BY <1>1, <1>2, <1>3, LimitSetType
  <2>2. limiter' \in [Routes -> LimiterAccounts]
    BY <1>1, <1>4, <2>1
  <2>3. update_nonce' \in Nat
    BY <1>1, <1>4
  <2> QED BY <1>1, <1>4, <1>7, <2>2, <2>3
       DEF TypeOK, ConfigTypeOK, configVars, committeeVars, tokenVars
<1>9. ChainsFunded' /\ TokensFunded' /\ TokenWithinChain'
  BY <1>4 DEF configVars, BridgeInv, ChainsFunded, TokensFunded, TokenWithinChain
<1>10. /\ NoncesConsumed' /\ MintedOncePerNonce'
       /\ WithdrawalReleases' /\ WithdrawalsNumbered'
  BY <1>4 DEF BridgeInv, NoncesConsumed, MintedOncePerNonce, WithdrawalReleases,
    WithdrawalsNumbered
<1>11. LimitsInOrder'
  <2>1. limiter'[r].total_limit = limit
    <3>1. limiter'[r] = LimitSet(limiter[r], h, limit)
      BY <1>1, <1>2, <1>4
    <3>2. limiter[r] \in LimiterAccounts
      BY <1>1, <1>2
    <3> QED BY <3>1, <3>2 DEF LimitSet, LimiterAccounts
  <2>2. \A s \in Routes \ {r} : limiter'[s] = limiter[s]
    BY <1>1, <1>4
  <2>3. \A i \in 1 .. n : limit_events[i].route \in Routes
    <3>1. \A i \in 1 .. n : limit_events[i] \in LimitEvents
      BY <1>1, <1>7
    <3> QED BY <3>1 DEF LimitEvents
  <2>4. LimitsInOrder /\ update_nonce = n
    BY DEF BridgeInv, LimitsInOrder, n
  <2>5. update_nonce' = Len(limit_events')
    BY <1>4, <1>7, <2>4
  <2>6. ASSUME NEW i \in 1 .. n + 1
        PROVE  /\ limit_events'[i].approved = i - 1
               /\ \/ limiter'[limit_events'[i].route].total_limit
                        = limit_events'[i].total_limit
                  \/ \E j \in 1 .. n + 1 :
                       j > i /\ limit_events'[j].route = limit_events'[i].route
    <3>1. CASE i = n + 1
      BY <1>4, <1>5, <1>7, <2>1, <2>4, <3>1
    <3>2. CASE i \in 1 .. n /\ limit_events[i].route = r
      <4>1. limit_events'[i].approved = i - 1
        BY <1>7, <2>4, <3>2 DEF LimitsInOrder
      <4>2. n + 1 > i /\ limit_events'[n + 1].route = limit_events'[i].route
        BY <1>5, <1>7, <3>2
      <4> QED BY <1>7, <4>1, <4>2
    <3>3. CASE i \in 1 .. n /\ limit_events[i].route # r
      <4>1. limiter'[limit_events[i].route] = limiter[limit_events[i].route]
        BY <2>2, <2>3, <3>3
      <4>2. limit_events'[i] = limit_events[i]
        BY <1>7, <3>3
      <4>3. /\ limit_events[i].approved = i - 1
            /\ \/ limiter[limit_events[i].route].total_limit
                     = limit_events[i].total_limit
               \/ \E j \in 1 .. n :
                    j > i /\ limit_events[j].route = limit_events[i].route
        BY <1>7, <2>4, <3>3 DEF LimitsInOrder
      <4>4. \A j \in 1 .. n : j \in 1 .. n + 1 /\ limit_events'[j] = limit_events[j]
        BY <1>7
      <4> QED BY <4>1, <4>2, <4>3, <4>4
    <3> QED BY <1>7, <3>1, <3>2, <3>3
  <2> QED BY <1>7, <2>5, <2>6 DEF LimitsInOrder
<1>12. MintTotalsCount' /\ SupplyBacked'
  BY <1>4 DEF configVars, tokenVars, BridgeInv, MintTotalsCount, SupplyBacked, SumEvents
<1> QED BY <1>8, <1>9, <1>10, <1>11, <1>12 DEF BridgeInv

(* Sending sBTC between holders keeps the invariant.                       *)
LEMMA TransferStep ==
  ASSUME BridgeInv, NEW b \in ChainIds, NEW from \in Users, NEW to \in Users,
         NEW amount \in Amounts, SplTransfer(b, from, to, amount)
  PROVE  BridgeInv'
<1>1. from \in Pubkeys /\ to \in Pubkeys /\ amount \in Nat
  <2>1. Users \subseteq Pubkeys /\ Amounts \subseteq Nat
    BY BridgeAssumption
  <2> QED BY <2>1
<1>2. /\ from # to /\ amount <= sbtc_balance[b][from]
      /\ sbtc_ata' = sbtc_ata \cup {<<b, to>>}
      /\ sbtc_balance' = [sbtc_balance EXCEPT ![b][from] = @ - amount,
                                              ![b][to] = @ + amount]
      /\ UNCHANGED <<configVars, committeeVars, limiter, update_nonce,
                     withdraw_nonce, mint_nonces, sbtc_supply, unix_timestamp,
                     eventVars>>
  BY DEF SplTransfer, WithAta
<1>3. TypeOK'
  <2>1. sbtc_balance' \in [ChainIds -> [Pubkeys -> Nat]]
    <3>1. sbtc_balance \in [ChainIds -> [Pubkeys -> Nat]]
      BY DEF BridgeInv, TypeOK
    <3> QED BY <1>1, <1>2, <3>1
  <2>2. sbtc_ata' \in SUBSET (ChainIds \X Pubkeys)
    BY <1>1, <1>2 DEF BridgeInv, TypeOK
  <2> QED BY <1>2, <2>1, <2>2
       DEF BridgeInv, TypeOK, ConfigTypeOK, configVars, committeeVars, eventVars
<1>4. MintTotalsCount'
  BY <1>2 DEF configVars, eventVars, BridgeInv, MintTotalsCount, SumEvents
<1>5. ASSUME NEW d \in ChainIds
      PROVE  SumFunction(sbtc_balance'[d]) = SumFunction(sbtc_balance[d])
  <2>1. sbtc_balance \in [ChainIds -> [Pubkeys -> Nat]]
    BY DEF BridgeInv, TypeOK
  <2>2. CASE d = b
    <3>1. sbtc_balance'[b]
            = [sbtc_balance[b] EXCEPT ![from] = @ - amount, ![to] = @ + amount]
      BY <1>1, <1>2, <2>1
    <3>2. sbtc_balance[b] \in [Pubkeys -> Nat] /\ SumFunction(sbtc_balance[b]) \in Nat
      BY <1>1, <2>1, BalanceChanged
    <3>3. SumFunction(sbtc_balance'[b])
            = SumFunction(sbtc_balance[b]) - amount + amount
      BY <1>1, <1>2, <3>1, <3>2, BalanceMoved
    <3> QED BY <1>1, <2>2, <3>2, <3>3
  <2>3. CASE d # b
    BY <1>2, <2>1, <2>3
  <2> QED BY <2>2, <2>3
<1>6. SupplyBacked'
  BY <1>2, <1>5 DEF eventVars, BridgeInv, SupplyBacked, SumEvents
<1> QED BY <1>2, <1>3, <1>4, <1>6
     DEF BridgeInv, configVars, eventVars, ChainsFunded, TokensFunded,
         TokenWithinChain, NoncesConsumed, MintedOncePerNonce, LimitsInOrder,
         WithdrawalReleases, WithdrawalsNumbered

(* Destroying sBTC keeps the invariant.                                    *)
LEMMA BurnStep ==
  ASSUME BridgeInv, NEW b \in ChainIds, NEW from \in Users, NEW amount \in Amounts,
         SplBurn(b, from, amount)
  PROVE  BridgeInv'
<1>1. from \in Pubkeys /\ amount \in Nat /\ U64_MAX \in Nat
  <2>1. Users \subseteq Pubkeys /\ Amounts \subseteq Nat /\ U64_MAX \in Nat
    BY BridgeAssumption
  <2> QED BY <2>1
<1>2. /\ amount <= sbtc_balance[b][from] /\ amount <= sbtc_supply[b]
      /\ sbtc_balance' = [sbtc_balance EXCEPT ![b][from] = @ - amount]
      /\ sbtc_supply' = [sbtc_supply EXCEPT ![b] = @ - amount]
      /\ UNCHANGED <<configVars, committeeVars, limiter, update_nonce,
                     withdraw_nonce, mint_nonces, sbtc_ata, unix_timestamp,
                     eventVars>>
  BY DEF SplBurn
<1>3. TypeOK'
  <2>1. sbtc_balance' \in [ChainIds -> [Pubkeys -> Nat]]
    <3>1. sbtc_balance \in [ChainIds -> [Pubkeys -> Nat]]
      BY DEF BridgeInv, TypeOK
    <3> QED BY <1>1, <1>2, <3>1
  <2>2. sbtc_supply' \in [ChainIds -> 0 .. U64_MAX]
    <3>1. sbtc_supply \in [ChainIds -> 0 .. U64_MAX]
      BY DEF BridgeInv, TypeOK
    <3> QED BY <1>1, <1>2, <3>1
  <2> QED BY <1>2, <2>1, <2>2
       DEF BridgeInv, TypeOK, ConfigTypeOK, configVars, committeeVars, eventVars
<1>4. MintTotalsCount'
  BY <1>2 DEF configVars, eventVars, BridgeInv, MintTotalsCount, SumEvents
<1>5. ASSUME NEW d \in ChainIds
      PROVE  /\ sbtc_supply'[d] =
                  IF d = b THEN sbtc_supply[d] - amount ELSE sbtc_supply[d]
             /\ SumFunction(sbtc_balance'[d]) =
                  IF d = b THEN SumFunction(sbtc_balance[d]) - amount
                           ELSE SumFunction(sbtc_balance[d])
  <2>1. /\ sbtc_balance \in [ChainIds -> [Pubkeys -> Nat]]
        /\ sbtc_supply \in [ChainIds -> 0 .. U64_MAX]
    BY DEF BridgeInv, TypeOK
  <2>2. CASE d = b
    <3> DEFINE v == sbtc_balance[b][from] - amount
    <3>1. sbtc_balance'[b] = [sbtc_balance[b] EXCEPT ![from] = v]
      BY <1>1, <1>2, <2>1
    <3>2. sbtc_balance[b] \in [Pubkeys -> Nat] /\ sbtc_balance[b][from] \in Nat
      BY <1>1, <2>1
    <3>3. v \in Nat /\ v = sbtc_balance[b][from] - amount
      BY <1>1, <1>2, <3>2
    <3> HIDE DEF v
    <3>4. /\ SumFunction(sbtc_balance[b]) \in Nat
          /\ SumFunction(sbtc_balance'[b])
               = SumFunction(sbtc_balance[b]) - sbtc_balance[b][from] + v
      BY <1>1, <3>1, <3>2, <3>3, BalanceChanged
    <3>5. SumFunction(sbtc_balance'[b]) = SumFunction(sbtc_balance[b]) - amount
      BY <1>1, <3>2, <3>3, <3>4
    <3> QED BY <1>2, <2>1, <2>2, <3>5
  <2>3. CASE d # b
    BY <1>2, <2>1, <2>3
  <2> QED BY <2>2, <2>3
<1>6. ASSUME NEW d \in ChainIds
      PROVE  /\ sbtc_supply'[d] + WithdrawnFrom(d) <= MintedOn(d)
             /\ sbtc_supply'[d] = SumFunction(sbtc_balance'[d])
  <2>1. /\ sbtc_supply[d] + WithdrawnFrom(d) <= MintedOn(d)
        /\ sbtc_supply[d] = SumFunction(sbtc_balance[d])
    BY DEF BridgeInv, SupplyBacked, MintedOn, WithdrawnFrom
  <2>2. MintedOn(d) \in Nat /\ WithdrawnFrom(d) \in Nat
    BY SumsOnChain DEF BridgeInv
  <2>3. sbtc_supply[d] \in Nat
    BY <1>1 DEF BridgeInv, TypeOK
  <2> QED BY <1>1, <1>5, <2>1, <2>2, <2>3
<1>7. SupplyBacked'
  BY <1>2, <1>6 DEF eventVars, SupplyBacked, SumEvents, MintedOn, WithdrawnFrom
<1> QED BY <1>2, <1>3, <1>4, <1>7
     DEF BridgeInv, configVars, eventVars, ChainsFunded, TokensFunded,
         TokenWithinChain, NoncesConsumed, MintedOncePerNonce, LimitsInOrder,
         WithdrawalReleases, WithdrawalsNumbered

(* The passing of time and stuttering keep the invariant.                  *)
LEMMA ClockStep ==
  ASSUME BridgeInv, unix_timestamp' \in Nat,
         UNCHANGED <<configVars, committeeVars, limiter, update_nonce,
                     withdraw_nonce, mint_nonces, tokenVars, eventVars>>
  PROVE  BridgeInv'
<1>1. unix_timestamp' \in Nat
  OBVIOUS
<1>2. UNCHANGED <<configVars, committeeVars, limiter, update_nonce,
                  withdraw_nonce, mint_nonces, tokenVars, eventVars>>
  OBVIOUS
<1>3. MintTotalsCount' /\ SupplyBacked'
  BY <1>2 DEF configVars, tokenVars, eventVars, BridgeInv, MintTotalsCount,
              SupplyBacked, SumEvents
<1> QED BY <1>1, <1>2, <1>3
     DEF BridgeInv, TypeOK, ConfigTypeOK, configVars, committeeVars, tokenVars,
         eventVars, ChainsFunded, TokensFunded, TokenWithinChain, NoncesConsumed,
         MintedOncePerNonce, LimitsInOrder, WithdrawalReleases,
         WithdrawalsNumbered

-----------------------------------------------------------------------------
(* A mint of Next carries a mint message.                                  *)
LEMMA MintNextMessage ==
  ASSUME MintNext
  PROVE  \E msg \in MintMessages : \E submitter, sigs :
           MintSbtcWithSignatures(submitter, sigs, msg)
<1>1. PICK submitter \in Submitters, nonce \in MintNonces, r \in MintRoutes,
           b \in ChainIds, u \in Users, amount \in Amounts :
        LET msg == [message_type |-> TokenTransfer, nonce |-> nonce,
                    source_chain_id |-> r[1], source_token_id |-> r[2],
                    to_chain_id |-> b, to_address |-> u, amount |-> amount]
        IN \E sigs \in SignatureLists(msg) :
             MintSbtcWithSignatures(submitter, sigs, msg)
  BY DEF MintNext
<1> DEFINE msg == [message_type |-> TokenTransfer, nonce |-> nonce,
                   source_chain_id |-> r[1], source_token_id |-> r[2],
                   to_chain_id |-> b, to_address |-> u, amount |-> amount]
<1>2. r[1] \in ChainIds /\ r[2] \in TokenIds
  BY BridgeAssumption DEF Routes
<1>3. msg \in MintMessages
  BY <1>2 DEF MintMessages
<1> HIDE DEF msg
<1> QED BY <1>1, <1>3 DEF msg

(* A limiter update of Next carries a limit message.                       *)
LEMMA LimitNextMessage ==
  ASSUME LimitNext
  PROVE  \E msg \in LimitMessages : \E submitter, sigs :
           AddOrUpdateLimiterWithSignatures(submitter, sigs, msg)
<1>1. PICK submitter \in Submitters, nonce \in 0 .. MaxLimitUpdates,
           b \in ChainIds, r \in MintRoutes, limit \in Limits :
        LET msg == [message_type |-> UpdateBridgeLimit, nonce |-> nonce,
                    chain_id |-> b, target_chain_id |-> r[1],
                    token_id |-> r[2], total_limit |-> limit]
        IN \E sigs \in SignatureLists(msg) :
             AddOrUpdateLimiterWithSignatures(submitter, sigs, msg)
  BY DEF LimitNext
<1> DEFINE msg == [message_type |-> UpdateBridgeLimit, nonce |-> nonce,
                   chain_id |-> b, target_chain_id |-> r[1],
                   token_id |-> r[2], total_limit |-> limit]
<1>2. r[1] \in ChainIds /\ r[2] \in TokenIds
  BY BridgeAssumption DEF Routes
<1>3. msg \in LimitMessages
  BY <1>2 DEF LimitMessages
<1> HIDE DEF msg
<1> QED BY <1>1, <1>3 DEF msg

(* Every step of the program keeps the invariant.                          *)
LEMMA BridgeInvStep == BridgeInv /\ [Next]_vars => BridgeInv'
<1> SUFFICES ASSUME BridgeInv, [Next]_vars PROVE BridgeInv'
  OBVIOUS
<1>1. CASE AdminNext
  BY <1>1, AdminStep
<1>2. CASE MintNext
  BY <1>2, MintNextMessage, MintStep
<1>3. CASE LimitNext
  BY <1>3, LimitNextMessage, LimitStep
<1>4. CASE WithdrawNext
  BY <1>4, WithdrawStep DEF WithdrawNext
<1>5. ASSUME NEW b \in ChainIds, NEW from \in Users, NEW to \in Users,
             NEW amount \in Amounts, SplTransfer(b, from, to, amount)
      PROVE  BridgeInv'
  BY <1>5, TransferStep
<1>6. ASSUME NEW b \in ChainIds, NEW from \in Users, NEW amount \in Amounts,
             SplBurn(b, from, amount)
      PROVE  BridgeInv'
  BY <1>6, BurnStep
<1>7. CASE Tick \/ UNCHANGED vars
  <2>1. unix_timestamp' \in Nat
    BY <1>7 DEF BridgeInv, TypeOK, Tick, vars
  <2> QED BY <1>7, <2>1, ClockStep DEF Tick, vars
<1> QED BY <1>1, <1>2, <1>3, <1>4, <1>5, <1>6, <1>7 DEF Next

(* However instructions, transfers and time interleave, the accounts, the   *)
(* nonces and the log of the program stay related as BridgeInv says.        *)
THEOREM BridgeInvariant == Spec => []BridgeInv
BY BridgeInvInit, BridgeInvStep, PTL DEF Spec

(* Every account, balance and event of the program stays well formed; in   *)
(* particular no supply leaves the u64 and no balance goes negative.       *)
THEOREM BridgeTypeCorrect == Spec => []TypeOK
<1>1. BridgeInv => TypeOK
  BY DEF BridgeInv
<1> QED BY <1>1, BridgeInvariant, PTL

(* No deposit is minted twice, however its message is signed, relayed and  *)
(* relayed again.                                                          *)
THEOREM NoDoubleMint == Spec => []MintedOncePerNonce
<1>1. BridgeInv => MintedOncePerNonce
  BY DEF BridgeInv
<1> QED BY <1>1, BridgeInvariant, PTL

(* The mints counted for a token are counted for its chain.                *)
THEOREM TokensWithinChains == Spec => []TokenWithinChain
<1>1. BridgeInv => TokenWithinChain
  BY DEF BridgeInv
<1> QED BY <1>1, BridgeInvariant, PTL

(* Limiter updates are applied in the order they are numbered, none twice, *)
(* and the last one for a route is in force.                               *)
THEOREM LimitUpdatesInOrder == Spec => []LimitsInOrder
<1>1. BridgeInv => LimitsInOrder
  BY DEF BridgeInv
<1> QED BY <1>1, BridgeInvariant, PTL

(* Whatever fee is in force, a withdrawal of a positive amount releases a  *)
(* positive amount.                                                        *)
THEOREM WithdrawalsRelease == Spec => []WithdrawalReleases
<1>1. BridgeInv => WithdrawalReleases
  BY DEF BridgeInv
<1> QED BY <1>1, BridgeInvariant, PTL

(* The withdrawals of the log are numbered 1, 2, 3, ...                    *)
THEOREM WithdrawalsInOrder == Spec => []WithdrawalsNumbered
<1>1. BridgeInv => WithdrawalsNumbered
  BY DEF BridgeInv
<1> QED BY <1>1, BridgeInvariant, PTL

(* The sum of the mints a token's and a chain's total stand for survives   *)
(* every reconfiguration: no instruction restarts the count.               *)
THEOREM TotalsCountMints == Spec => []MintTotalsCount
<1>1. BridgeInv => MintTotalsCount
  BY DEF BridgeInv
<1> QED BY <1>1, BridgeInvariant, PTL

(* Whatever is minted, sent, burned and withdrawn under whatever fees, the *)
(* supply is covered by mints not yet released and is what the holders     *)
(* have.                                                                   *)
THEOREM SupplyIsBacked == Spec => []SupplyBacked
<1>1. BridgeInv => SupplyBacked
  BY DEF BridgeInv
<1> QED BY <1>1, BridgeInvariant, PTL

-----------------------------------------------------------------------------
(* The limits and releases the ledger sees.                                *)
LimitsSeen == [r \in Routes |-> limiter[r].total_limit]

ReleaseSeen(e) ==
  [number |-> e.nonce, from |-> e.chain_id, route |-> e.route, amount |-> e.amount]

ReleasesSeen == [i \in DOMAIN withdraw_events |-> ReleaseSeen(withdraw_events[i])]

(* The ledger step of each instruction is stated over the program's state. *)
LedgerMint(c, n, t, b, amount) ==
  /\ <<c, n>> \notin mint_nonces
  /\ amount <= LimitsSeen[<<c, t>>]
  /\ sbtc_supply[b] + amount <= U64_MAX
  /\ mint_nonces' = mint_nonces \cup {<<c, n>>}
  /\ sbtc_supply' = [sbtc_supply EXCEPT ![b] = @ + amount]
  /\ LimitsSeen' = LimitsSeen
  /\ update_nonce' = update_nonce
  /\ ReleasesSeen' = ReleasesSeen

LedgerWithdraw(b, c, t, amount) ==
  /\ amount <= sbtc_supply[b]
  /\ sbtc_supply' = [sbtc_supply EXCEPT ![b] = @ - amount]
  /\ ReleasesSeen' =
       Append(ReleasesSeen, [number |-> Len(ReleasesSeen) + 1, from |-> b,
                             route |-> <<c, t>>, amount |-> amount])
  /\ mint_nonces' = mint_nonces
  /\ LimitsSeen' = LimitsSeen
  /\ update_nonce' = update_nonce

LedgerSetLimit(c, t, total) ==
  /\ LimitsSeen' = [LimitsSeen EXCEPT ![<<c, t>>] = total]
  /\ update_nonce' = update_nonce + 1
  /\ mint_nonces' = mint_nonces
  /\ sbtc_supply' = sbtc_supply
  /\ ReleasesSeen' = ReleasesSeen

LedgerUnchanged ==
  UNCHANGED <<mint_nonces, sbtc_supply, LimitsSeen, update_nonce, ReleasesSeen>>

-----------------------------------------------------------------------------
(* The empty program is the empty ledger.                                  *)
LEMMA LedgerInitially == Init => L!LedgerInit
<1> SUFFICES ASSUME Init PROVE L!LedgerInit
  OBVIOUS
<1>1. LimitsSeen = [r \in ChainIds \X TokenIds |-> 0]
  BY DEF Init, LimitsSeen, NoLimiter, Routes
<1>2. ReleasesSeen = <<>>
  BY DEF Init, ReleasesSeen
<1>3. mint_nonces = {} /\ sbtc_supply = [b \in ChainIds |-> 0] /\ update_nonce = 0
  BY DEF Init
<1> QED BY <1>1, <1>2, <1>3
     DEF L!LedgerInit, LimitsSeen, ReleasesSeen, ReleaseSeen

(* A transfer the limiter admits is within the limit, whatever the ring    *)
(* has recorded.                                                           *)
LEMMA AdmitsWithinLimit ==
  ASSUME NEW l \in LimiterAccounts, NEW h \in 0 .. U32 - 1, NEW amount \in Nat,
         Admits(l, h, amount)
  PROVE  amount <= l.total_limit
<1>1. Rolled(l, h).hourly_transfers \in [Slot -> Nat]
  BY RolledType DEF LimiterAccounts
<1>2. IsFiniteSet(Slot)
  BY HourRingAssumption, FS_Interval DEF Slot
<1>3. RecordedTotal(l, h) \in Nat
  BY <1>1, <1>2, SumType DEF RecordedTotal
<1>4. l.total_limit \in Nat /\ RecordedTotal(l, h) + amount <= l.total_limit
  BY DEF LimiterAccounts, Admits
<1> QED BY <1>3, <1>4

(* A mint spends a fresh deposit within the limit.                         *)
LEMMA MintIsLedgerMint ==
  ASSUME BridgeInv, NEW submitter, NEW sigs, NEW msg \in MintMessages,
         MintSbtcWithSignatures(submitter, sigs, msg)
  PROVE  LedgerMint(msg.source_chain_id, msg.nonce, msg.source_token_id,
                    msg.to_chain_id, msg.amount)
<1> DEFINE c == msg.source_chain_id
           r == <<c, msg.source_token_id>>
           h == CurrentHour(unix_timestamp)
           a == msg.amount
           b == msg.to_chain_id
<1>1. /\ r \in Routes /\ a \in Nat
      /\ limiter \in [Routes -> LimiterAccounts]
      /\ h \in 0 .. U32 - 1
  BY MintMessageType, CurrentHourType DEF BridgeInv, TypeOK
<1>2. /\ <<c, msg.nonce>> \notin mint_nonces
      /\ sbtc_supply[b] + a <= U64_MAX
      /\ Admits(limiter[r], h, a)
      /\ mint_nonces' = mint_nonces \cup {<<c, msg.nonce>>}
      /\ sbtc_supply' = [sbtc_supply EXCEPT ![b] = @ + a]
      /\ limiter' = [limiter EXCEPT ![r] = Recorded(@, h, a)]
      /\ update_nonce' = update_nonce
      /\ withdraw_events' = withdraw_events
  BY DEF MintSbtcWithSignatures, MintAccounts, ConsumedNonce
<1> HIDE DEF r, h
<1>3. a <= LimitsSeen[r]
  BY <1>1, <1>2, AdmitsWithinLimit DEF LimitsSeen
<1>4. LimitsSeen' = LimitsSeen
  <2>1. Recorded(limiter[r], h, a).total_limit = limiter[r].total_limit
    BY <1>1, RecordedKeepsLimit
  <2>2. \A s \in Routes : limiter'[s].total_limit = limiter[s].total_limit
    BY <1>1, <1>2, <2>1
  <2> QED BY <2>2 DEF LimitsSeen
<1>5. ReleasesSeen' = ReleasesSeen
  BY <1>2 DEF ReleasesSeen
<1> QED BY <1>2, <1>3, <1>4, <1>5 DEF LedgerMint, r

(* A withdrawal announces what it takes out of circulation, under the next *)
(* number.                                                                 *)
LEMMA WithdrawIsLedgerWithdraw ==
  ASSUME BridgeInv, NEW user, NEW msg \in WithdrawMessages, WithdrawBtc(user, msg)
  PROVE  \E amount \in 0 .. U64_MAX :
           LedgerWithdraw(msg.chain_id, msg.to_chain_id, msg.to_token_id, amount)
<1> DEFINE b == msg.chain_id
           c == msg.to_chain_id
           t == msg.to_token_id
           r == <<c, t>>
           a == msg.amount
           fee == Fee(a, token_config[r].token_fee_percentage)
           n == Len(withdraw_events)
           e == [nonce |-> withdraw_nonce', route |-> r, chain_id |-> b,
                 from_address |-> user, amount |-> a - fee,
                 original_amount |-> a,
                 chain_mint_total |-> supported_chain_config[c].mint_total - a,
                 token_mint_total |-> token_config[r].mint_total - a]
           next == [number |-> n + 1, from |-> b, route |-> r, amount |-> a - fee]
<1>1. /\ r \in Routes /\ a \in Nat /\ b \in ChainIds
      /\ withdraw_events \in Seq(WithdrawEvents)
      /\ sbtc_supply \in [ChainIds -> 0 .. U64_MAX] /\ U64_MAX \in Nat
  BY WithdrawMessageType, BridgeAssumption DEF BridgeInv, TypeOK
<1>2. /\ a - fee <= sbtc_supply[b]
      /\ withdraw_nonce' = withdraw_nonce + 1
      /\ sbtc_supply' = [sbtc_supply EXCEPT ![b] = @ - (a - fee)]
      /\ withdraw_events' = Append(withdraw_events, e)
      /\ UNCHANGED <<limiter, update_nonce, mint_nonces>>
  BY DEF WithdrawBtc, Released, NextWithdrawNonce
<1>3. fee \in 0 .. a
  <2>1. token_config[r].token_fee_percentage \in 0 .. FEE_DENOMINATOR - 1
    BY <1>1 DEF BridgeInv, TypeOK, ConfigTypeOK, TokenConfigs
  <2> QED BY <1>1, <2>1, FeeBelowAmount
<1>4. ReleaseSeen(e) = next
  <2>1. withdraw_nonce = n
    BY DEF BridgeInv, WithdrawalsNumbered
  <2> QED BY <1>2, <2>1 DEF ReleaseSeen
<1> HIDE DEF b, r, a, fee, n, e, next
<1>5. /\ n \in Nat /\ DOMAIN withdraw_events = 1 .. n
      /\ DOMAIN withdraw_events' = 1 .. n + 1
      /\ \A i \in 1 .. n : withdraw_events'[i] = withdraw_events[i]
      /\ withdraw_events'[n + 1] = e
  BY <1>1, <1>2 DEF n
<1>6. /\ ReleasesSeen' = Append(ReleasesSeen, next)
      /\ Len(ReleasesSeen) = n
  <2>1. ReleasesSeen = [i \in 1 .. n |-> ReleaseSeen(withdraw_events[i])]
    BY <1>5 DEF ReleasesSeen
  <2>2. ReleasesSeen' = [i \in 1 .. n + 1 |-> ReleaseSeen(withdraw_events'[i])]
    BY <1>5 DEF ReleasesSeen
  <2>3. Len(ReleasesSeen) = n
    BY <1>5, <2>1
  <2>4. Append(ReleasesSeen, next)
          = [i \in 1 .. n + 1 |-> IF i \in 1 .. n THEN ReleaseSeen(withdraw_events[i])
                                                  ELSE next]
    <3>1. Append(ReleasesSeen, next)
            = [i \in 1 .. Len(ReleasesSeen) + 1 |->
                 IF i = Len(ReleasesSeen) + 1 THEN next ELSE ReleasesSeen[i]]
      BY <1>5, <2>1
    <3>2. \A i \in 1 .. n + 1 : (i = n + 1) <=> ~(i \in 1 .. n)
      BY <1>5
    <3> QED BY <2>1, <2>3, <3>1, <3>2
  <2>5. \A i \in 1 .. n + 1 : ReleaseSeen(withdraw_events'[i])
          = IF i \in 1 .. n THEN ReleaseSeen(withdraw_events[i]) ELSE next
    <3> TAKE i \in 1 .. n + 1
    <3>1. CASE i \in 1 .. n
      BY <1>5, <3>1
    <3>2. CASE i \notin 1 .. n
      <4>1. i = n + 1
        BY <1>5, <3>2
      <4> QED BY <1>4, <1>5, <3>2, <4>1
    <3> QED BY <3>1, <3>2
  <2> QED BY <2>2, <2>3, <2>4, <2>5
<1>7. a - fee \in 0 .. U64_MAX
  <2>1. sbtc_supply[b] \in 0 .. U64_MAX
    BY <1>1
  <2> QED BY <1>1, <1>2, <1>3, <2>1
<1>8. LimitsSeen' = LimitsSeen
  BY <1>2 DEF LimitsSeen
<1>9. LedgerWithdraw(b, c, t, a - fee)
  BY <1>2, <1>6, <1>8 DEF LedgerWithdraw, next, r
<1> QED BY <1>7, <1>9 DEF b

(* A limiter update sets one limit.                                        *)
LEMMA UpdateIsLedgerSetLimit ==
  ASSUME BridgeInv, NEW submitter, NEW sigs, NEW msg \in LimitMessages,
         AddOrUpdateLimiterWithSignatures(submitter, sigs, msg)
  PROVE  LedgerSetLimit(msg.target_chain_id, msg.token_id, msg.total_limit)
<1> DEFINE r == <<msg.target_chain_id, msg.token_id>>
           h == CurrentHour(unix_timestamp)
           limit == msg.total_limit
<1>1. r \in Routes /\ limiter \in [Routes -> LimiterAccounts]
  BY DEF BridgeInv, TypeOK, LimitMessages, Routes
<1>2. /\ update_nonce' = update_nonce + 1
      /\ limiter' = [limiter EXCEPT ![r] = LimitSet(@, h, limit)]
      /\ UNCHANGED <<mint_nonces, tokenVars, withdraw_events>>
  BY DEF AddOrUpdateLimiterWithSignatures
<1> HIDE DEF r, h, limit
<1>3. LimitSet(limiter[r], h, limit).total_limit = limit
  <2>1. limiter[r] \in LimiterAccounts
    BY <1>1
  <2> QED BY <2>1 DEF LimitSet, LimiterAccounts
<1>4. LimitsSeen' = [LimitsSeen EXCEPT ![r] = limit]
  BY <1>1, <1>2, <1>3 DEF LimitsSeen
<1>5. ReleasesSeen' = ReleasesSeen /\ sbtc_supply' = sbtc_supply
  BY <1>2 DEF ReleasesSeen, tokenVars
<1> QED BY <1>2, <1>4, <1>5 DEF LedgerSetLimit, r, limit

-----------------------------------------------------------------------------
(* An operation on the mints or limits is a step of the ledger, and what   *)
(* leaves them alone changes nothing in it.                                *)
LEMMA OperationIsLedgerStep ==
  ASSUME BridgeInv,
         \/ \E msg \in MintMessages : \E submitter, sigs :
              MintSbtcWithSignatures(submitter, sigs, msg)
         \/ \E msg \in LimitMessages : \E submitter, sigs :
              AddOrUpdateLimiterWithSignatures(submitter, sigs, msg)
         \/ \E msg \in WithdrawMessages : \E user : WithdrawBtc(user, msg)
         \/ \E b \in ChainIds, from \in Users, amount \in Amounts :
              SplBurn(b, from, amount)
         \/ UNCHANGED <<mint_nonces, sbtc_supply, limiter, update_nonce,
                        withdraw_events>>
  PROVE  [L!LedgerNext]_L!ledgerVars
<1> DEFINE Step == [L!LedgerNext]_L!ledgerVars
<1>0. Amounts \subseteq 0 .. U64_MAX
  BY BridgeAssumption
<1>1. LedgerUnchanged => Step
  BY DEF LedgerUnchanged, L!ledgerVars, LimitsSeen, ReleasesSeen, ReleaseSeen
<1>2. ASSUME NEW c \in ChainIds, NEW n \in MintNonces, NEW t \in TokenIds,
             NEW b \in ChainIds, NEW amount \in 0 .. U64_MAX,
             LedgerMint(c, n, t, b, amount)
      PROVE  Step
  <2>1. L!Mint(c, n, t, b, amount)
    BY <1>2 DEF LedgerMint, L!Mint, LimitsSeen, ReleasesSeen, ReleaseSeen
  <2> QED BY <2>1 DEF L!LedgerNext
<1>3. ASSUME NEW b \in ChainIds, NEW c \in ChainIds, NEW t \in TokenIds,
             NEW amount \in 0 .. U64_MAX, LedgerWithdraw(b, c, t, amount)
      PROVE  Step
  <2>1. L!Withdraw(b, c, t, amount)
    BY <1>3 DEF LedgerWithdraw, L!Withdraw, LimitsSeen, ReleasesSeen, ReleaseSeen
  <2> QED BY <2>1 DEF L!LedgerNext
<1>4. ASSUME NEW c \in ChainIds, NEW t \in TokenIds, NEW total \in Limits,
             LedgerSetLimit(c, t, total)
      PROVE  Step
  <2>1. L!SetLimit(c, t, total)
    BY <1>4 DEF LedgerSetLimit, L!SetLimit, LimitsSeen, ReleasesSeen, ReleaseSeen
  <2> QED BY <2>1 DEF L!LedgerNext
<1>5. ASSUME NEW msg \in MintMessages, NEW submitter, NEW sigs,
             MintSbtcWithSignatures(submitter, sigs, msg)
      PROVE  Step
  <2>1. /\ msg.source_chain_id \in ChainIds /\ msg.nonce \in MintNonces
        /\ msg.source_token_id \in TokenIds /\ msg.to_chain_id \in ChainIds
        /\ msg.amount \in Amounts
    BY DEF MintMessages
  <2>2. msg.amount \in 0 .. U64_MAX
    BY <1>0, <2>1
  <2>3. LedgerMint(msg.source_chain_id, msg.nonce, msg.source_token_id,
                   msg.to_chain_id, msg.amount)
    BY <1>5, MintIsLedgerMint
  <2> QED BY <1>2, <2>1, <2>2, <2>3
<1>6. ASSUME NEW msg \in LimitMessages, NEW submitter, NEW sigs,
             AddOrUpdateLimiterWithSignatures(submitter, sigs, msg)
      PROVE  Step
  <2>1. /\ msg.target_chain_id \in ChainIds /\ msg.token_id \in TokenIds
        /\ msg.total_limit \in Limits
    BY DEF LimitMessages
  <2>2. LedgerSetLimit(msg.target_chain_id, msg.token_id, msg.total_limit)
    BY <1>6, UpdateIsLedgerSetLimit
  <2> QED BY <1>4, <2>1, <2>2
<1>7. ASSUME NEW msg \in WithdrawMessages, NEW user, WithdrawBtc(user, msg)
      PROVE  Step
  <2>1. /\ msg.chain_id \in ChainIds /\ msg.to_chain_id \in ChainIds
        /\ msg.to_token_id \in TokenIds
    BY DEF WithdrawMessages
  <2>2. PICK amount \in 0 .. U64_MAX :
          LedgerWithdraw(msg.chain_id, msg.to_chain_id, msg.to_token_id, amount)
    BY <1>7, WithdrawIsLedgerWithdraw
  <2> QED BY <1>3, <2>1, <2>2
<1>8. ASSUME NEW b \in ChainIds, NEW from \in Users, NEW amount \in Amounts,
             SplBurn(b, from, amount)
      PROVE  Step
  <2>1. amount \in 0 .. U64_MAX
    BY <1>0
  <2>2. /\ amount <= sbtc_supply[b]
        /\ sbtc_supply' = [sbtc_supply EXCEPT ![b] = @ - amount]
        /\ UNCHANGED <<mint_nonces, limiter, update_nonce, withdraw_events>>
    BY <1>8 DEF SplBurn, eventVars
  <2>3. L!Burn(b, amount)
    BY <2>2 DEF L!Burn
  <2> QED BY <2>1, <2>3 DEF L!LedgerNext
<1>9. ASSUME UNCHANGED <<mint_nonces, sbtc_supply, limiter, update_nonce,
                         withdraw_events>>
      PROVE  Step
  <2>1. LedgerUnchanged
    BY <1>9 DEF LedgerUnchanged, LimitsSeen, ReleasesSeen
  <2> QED BY <1>1, <2>1
<1> HIDE DEF Step
<1>10. Step
  BY <1>5, <1>6, <1>7, <1>8, <1>9
<1> QED BY <1>10 DEF Step

(* A step of the program is a step of the ledger or changes nothing in it. *)
LEMMA LedgerStep ==
  ASSUME BridgeInv, [Next]_vars
  PROVE  [L!LedgerNext]_L!ledgerVars
<1>1. CASE MintNext
  <2>1. \E msg \in MintMessages : \E submitter, sigs :
          MintSbtcWithSignatures(submitter, sigs, msg)
    BY <1>1, MintNextMessage
  <2> QED BY <2>1, OperationIsLedgerStep
<1>2. CASE LimitNext
  <2>1. \E msg \in LimitMessages : \E submitter, sigs :
          AddOrUpdateLimiterWithSignatures(submitter, sigs, msg)
    BY <1>2, LimitNextMessage
  <2> QED BY <2>1, OperationIsLedgerStep
<1>3. CASE WithdrawNext
  BY <1>3, OperationIsLedgerStep DEF WithdrawNext
<1>4. CASE \E b \in ChainIds, from \in Users, amount \in Amounts :
             SplBurn(b, from, amount)
  BY <1>4, OperationIsLedgerStep
<1>5. CASE \/ AdminNext
           \/ \E b \in ChainIds, from, to \in Users, amount \in Amounts :
                SplTransfer(b, from, to, amount)
           \/ Tick
           \/ UNCHANGED vars
  <2>1. UNCHANGED <<mint_nonces, sbtc_supply, limiter, update_nonce, withdraw_events>>
    BY <1>5 DEF AdminNext, SplTransfer, Tick, vars, tokenVars, eventVars
  <2> QED BY <2>1, OperationIsLedgerStep
<1> QED BY <1>1, <1>2, <1>3, <1>4, <1>5 DEF Next

(* The program, with every configuration change, signature, fee and hour   *)
(* in it, behaves as the ledger: sBTC is minted once per deposit and       *)
(* within the limit, and leaves only by burns and numbered withdrawals.    *)
THEOREM BridgeImplementsLedger == Spec => ImplementsLedger
<1>1. BridgeInv /\ [Next]_vars => [L!LedgerNext]_L!ledgerVars
  BY LedgerStep
<1> QED BY <1>1, LedgerInitially, BridgeInvariant, PTL
     DEF Spec, ImplementsLedger, L!LedgerSpec
=============================================================================
