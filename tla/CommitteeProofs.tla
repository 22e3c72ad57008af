--------------------------- MODULE CommitteeProofs ---------------------------
(***************************************************************************)
(* Lemmas about the instructions of Config and Committee that hold for     *)
(* every set of keys, chains, tokens and arguments; the theorems about     *)
(* Governance and Bridge rest on them.                                     *)
(***************************************************************************)
EXTENDS Committee, SumProofs

CommitteeTypeOK ==
  /\ committee \in [Pubkeys -> CommitteeAccounts]
  /\ submitter_pda \in [Pubkeys -> SubmitterAccounts]

(* The bounds of a fee and of a stake are positive.                        *)
LEMMA Bounds == FEE_DENOMINATOR \in Nat \ {0} /\ U16_MAX \in Nat
BY SMT DEF FEE_DENOMINATOR, U16_MAX

(* A non-empty set of naturals contains its minimum.                       *)
LEMMA MinInSet ==
  ASSUME NEW S, S \subseteq Nat, S # {}
  PROVE  Min(S) \in S
<1>1. PICK x \in S : \A y \in S : ~(<<y, x>> \in OpToRel(<, Nat))
  BY WFMin, NatLessThanWellFounded
<1>2. \A y \in S : x <= y
  <2> TAKE y \in S
  <2>1. ~(y < x)
    BY <1>1 DEF OpToRel
  <2> QED BY <2>1
<1> QED BY <1>2 DEF Min

(* The elements of a sequence over a set are in the set.                   *)
LEMMA SeqElement ==
  ASSUME NEW S, NEW s \in Seq(S), NEW i \in DOMAIN s
  PROVE  s[i] \in S
OBVIOUS

(* The entry that counts for a listed route is one of the arguments.       *)
LEMMA EntryOfType ==
  ASSUME NEW entries \in Seq(Entries), NEW r \in EntryRoutes(entries)
  PROVE  EntryOf(entries, r) \in Entries /\ r \in Routes
<1> DEFINE S == {i \in DOMAIN entries :
                   <<entries[i].chain, entries[i].token>> = r}
<1>1. S \subseteq Nat /\ S \subseteq DOMAIN entries
  OBVIOUS
<1>2. PICK e \in Range(entries) : r = <<e.chain, e.token>>
  BY DEF EntryRoutes
<1>3. S # {}
  BY <1>2 DEF Range
<1>4. Min(S) \in S
  BY <1>1, <1>3, MinInSet
<1>5. \A i \in DOMAIN entries : entries[i] \in Entries
  OBVIOUS
<1>6. r \in Routes
  BY <1>2, <1>5 DEF Range, Entries, Routes
<1> HIDE DEF S
<1>7. entries[Min(S)] \in Entries
  BY <1>1, <1>4, <1>5
<1> QED BY <1>6, <1>7 DEF EntryOf, S

(* The stake that counts for a listed member is one of the arguments.      *)
LEMMA StakeOfType ==
  ASSUME NEW q \in CommitteeRequests, Len(q.committee) = Len(q.stake),
         NEW k \in Range(q.committee)
  PROVE  StakeOf(q, k) \in 0 .. U16_MAX
<1> DEFINE S == {i \in DOMAIN q.committee : q.committee[i] = k}
<1>0. q.committee \in Seq(Pubkeys) /\ q.stake \in Seq(0 .. U16_MAX)
  BY CommitteeAssumption
<1>1. S \subseteq Nat /\ S \subseteq DOMAIN q.committee
  BY <1>0
<1>2. S # {}
  BY DEF Range
<1>3. Min(S) \in S
  BY <1>1, <1>2, MinInSet
<1>4. DOMAIN q.committee = DOMAIN q.stake
  BY <1>0
<1>5. \A i \in DOMAIN q.stake : q.stake[i] \in 0 .. U16_MAX
  BY <1>0, SeqElement
<1> HIDE DEF S
<1>6. q.stake[Min(S)] \in 0 .. U16_MAX
  BY <1>1, <1>3, <1>4, <1>5
<1> QED BY <1>6 DEF StakeOf, S

-----------------------------------------------------------------------------
(* create_bridge_config writes well-formed accounts.                       *)
LEMMA CreateBridgeConfigType ==
  ASSUME ConfigTypeOK, NEW payer \in Payers, NEW q \in ConfigRequests,
         CreateBridgeConfig(payer, q)
  PROVE  ConfigTypeOK'
<1>0. /\ q.chain_id \in ChainIds
      /\ q.administrator \in Pubkeys
      /\ q.fee_recipient \in Pubkeys
      /\ q.entries \in Seq(Entries)
  BY ConfigAssumption
<1>1. bridge_config' \in [ChainIds -> BridgeConfigs]
  BY <1>0 DEF CreateBridgeConfig, ConfigTypeOK, BridgeConfigs
<1>2. supported_chain_config' \in [ChainIds -> SupportedChainConfigs]
  BY DEF CreateBridgeConfig, ConfigTypeOK, NewChainConfig, SupportedChainConfigs
<1>3. token_config' \in [Routes -> TokenConfigs]
  <2>1. ASSUME NEW r \in CreatedTokens(q.entries)
        PROVE  NewTokenConfig(EntryOf(q.entries, r).fee,
                              EntryOf(q.entries, r).min, FALSE) \in TokenConfigs
    <3>1. EntryOf(q.entries, r) \in Entries
      BY <1>0, EntryOfType DEF CreatedTokens
    <3>2. EntryOf(q.entries, r).fee < FEE_DENOMINATOR
      BY DEF CreateBridgeConfig, FeeAllowed
    <3> QED BY <3>1, <3>2, Bounds DEF Entries, NewTokenConfig, TokenTerms, TokenConfigs
  <2> QED BY <2>1 DEF CreateBridgeConfig, ConfigTypeOK
<1> QED BY <1>1, <1>2, <1>3 DEF ConfigTypeOK

(* The configuration instructions keep the configuration well formed.      *)
LEMMA ConfigTypeStep ==
  ASSUME ConfigTypeOK, ConfigNext
  PROVE  ConfigTypeOK'
<1>1. ASSUME NEW payer \in Payers, NEW q \in ConfigRequests,
             CreateBridgeConfig(payer, q)
      PROVE  ConfigTypeOK'
  BY <1>1, CreateBridgeConfigType
<1>2. ASSUME NEW payer \in Payers, NEW b \in ChainIds, NEW c \in SupportedIds,
             NEW supported \in BOOLEAN,
             AddOrUpdateChain(payer, b, c, supported)
      PROVE  ConfigTypeOK'
  <2>1. c \in ChainIds
    BY ConfigAssumption
  <2> QED BY <1>2, <2>1
    DEF AddOrUpdateChain, UpdatedChain, ConfigTypeOK, NewChainConfig, SupportedChainConfigs
<1>3. ASSUME NEW payer \in Payers, NEW b \in ChainIds,
             NEW r \in SupportedIds \X TokenIds,
             NEW fee \in Fees, NEW min \in MinAmounts, NEW paused \in BOOLEAN,
             AddOrUpdateChainToken(payer, b, r, fee, min, paused)
      PROVE  ConfigTypeOK'
  <2>1. r \in Routes /\ fee \in 0 .. FEE_DENOMINATOR - 1 /\ min \in Nat
    BY <1>3, ConfigAssumption, Bounds DEF Routes, AddOrUpdateChainToken, FeeAllowed
  <2> QED BY <1>3, <2>1
    DEF AddOrUpdateChainToken, UpdatedToken, ConfigTypeOK, NewTokenConfig, TokenTerms, TokenConfigs
<1>4. ASSUME NEW r \in GiftedRoutes, SendLamportsToToken(r) PROVE ConfigTypeOK'
  BY <1>4, ConfigAssumption DEF SendLamportsToToken, ConfigTypeOK, TokenConfigs
<1>5. ASSUME NEW r \in GiftedRoutes, SendLamportsToChain(r[1]) PROVE ConfigTypeOK'
  BY <1>5, ConfigAssumption
    DEF SendLamportsToChain, ConfigTypeOK, SupportedChainConfigs
<1> QED BY <1>1, <1>2, <1>3, <1>4, <1>5 DEF ConfigNext

(* The committee instructions keep members and submitters well formed.     *)
LEMMA CommitteeTypeStep ==
  ASSUME CommitteeTypeOK, CommitteeNext
  PROVE  CommitteeTypeOK'
<1>1. ASSUME NEW payer \in Payers, NEW b \in ChainIds,
             NEW q \in CommitteeRequests, NEW submitter \in Submitters,
             CreateBridgeCommittee(payer, b, q, submitter)
      PROVE  CommitteeTypeOK'
  <2>1. \A k \in Range(q.committee) : StakeOf(q, k) \in 0 .. U16_MAX
    BY <1>1, StakeOfType DEF CreateBridgeCommittee, CreatedMembers, MemberTerms
  <2>2. committee' \in [Pubkeys -> CommitteeAccounts]
    BY <1>1, <2>1 DEF CreateBridgeCommittee, CreatedMembers, MemberTerms, CommitteeTypeOK, CommitteeAccounts
  <2> QED BY <1>1, <2>2
    DEF CreateBridgeCommittee, SubmitterTerms, CommitteeTypeOK, SubmitterAccounts
<1>2. ASSUME NEW payer \in Payers, NEW b \in ChainIds, NEW key \in Members,
             NEW stake \in Stakes, NEW is_blocklisted \in BOOLEAN,
             AddOrUpdateCommittee(payer, b, key, stake, is_blocklisted)
      PROVE  CommitteeTypeOK'
  <2>1. key \in Pubkeys /\ stake \in 0 .. U16_MAX
    BY CommitteeAssumption
  <2> QED BY <1>2, <2>1
    DEF AddOrUpdateCommittee, MemberTerms, CommitteeTypeOK, CommitteeAccounts
<1>3. ASSUME NEW payer \in Payers, NEW b \in ChainIds,
             NEW submitter \in Submitters, NEW is_submitter \in BOOLEAN,
             AddOrUpdateSubmitter(payer, b, submitter, is_submitter)
      PROVE  CommitteeTypeOK'
  BY <1>3 DEF AddOrUpdateSubmitter, SubmitterTerms, CommitteeTypeOK, SubmitterAccounts
<1>4. ASSUME NEW key \in GiftedMembers, SendLamportsToMember(key)
      PROVE  CommitteeTypeOK'
  BY <1>4 DEF SendLamportsToMember, CommitteeTypeOK, CommitteeAccounts
<1> QED BY <1>1, <1>2, <1>3, <1>4 DEF CommitteeNext

(* A committee instruction leaves the configuration alone.                 *)
LEMMA CommitteeKeepsConfig == CommitteeNext => UNCHANGED configVars
BY DEF CommitteeNext, CreateBridgeCommittee, AddOrUpdateCommittee,
       AddOrUpdateSubmitter, SendLamportsToMember

(* The empty program is well formed.                                       *)
LEMMA ConfigInitType == ConfigInit => ConfigTypeOK
BY ConfigAssumption, Bounds
  DEF ConfigInit, ConfigTypeOK, BridgeConfigs, SupportedChainConfigs, TokenConfigs

(* Before any committee is created, members and submitters are well formed. *)
LEMMA CommitteeInitType == CommitteeInit => CommitteeTypeOK
BY ConfigAssumption, Bounds
  DEF CommitteeInit, CommitteeTypeOK, CommitteeAccounts, SubmitterAccounts

-----------------------------------------------------------------------------
(* An account that exists holds lamports, and one that does not holds      *)
(* nothing: what the create instructions, which look at lamports, need to  *)
(* leave existing accounts alone.                                          *)
ChainsFunded ==
  \A c \in ChainIds :
    /\ supported_chain_config[c].is_initialized => supported_chain_config[c].lamports
    /\ ~supported_chain_config[c].is_initialized =>
         supported_chain_config[c].mint_total = 0

TokensFunded ==
  \A r \in Routes :
    /\ token_config[r].is_initialized => token_config[r].lamports
    /\ ~token_config[r].is_initialized => token_config[r].mint_total = 0

MembersFunded ==
  \A k \in Pubkeys :
    IF committee[k].is_initialized
    THEN committee[k].lamports /\ committee[k].index = k
    ELSE committee[k].stake_amount = 0 /\ ~committee[k].is_blocklisted

(* In the empty program no account exists, so every existing one is funded. *)
LEMMA FundedInit ==
  /\ ConfigInit => ChainsFunded /\ TokensFunded
  /\ CommitteeInit => MembersFunded
BY DEF ConfigInit, CommitteeInit, ChainsFunded, TokensFunded, MembersFunded

(* The configuration instructions keep existing accounts funded.           *)
LEMMA ConfigFundedStep ==
  ASSUME ConfigTypeOK, ChainsFunded, TokensFunded, ConfigNext
  PROVE  ChainsFunded' /\ TokensFunded'
<1> USE DEF ConfigTypeOK, SupportedChainConfigs, TokenConfigs, ChainsFunded,
            TokensFunded
<1>1. ASSUME NEW payer \in Payers, NEW q \in ConfigRequests,
             CreateBridgeConfig(payer, q)
      PROVE  ChainsFunded' /\ TokensFunded'
  BY <1>1 DEF CreateBridgeConfig, NewChainConfig, NewTokenConfig, TokenTerms
<1>2. ASSUME NEW payer \in Payers, NEW b \in ChainIds, NEW c \in SupportedIds,
             NEW supported \in BOOLEAN,
             AddOrUpdateChain(payer, b, c, supported)
      PROVE  ChainsFunded' /\ TokensFunded'
  BY <1>2 DEF AddOrUpdateChain, UpdatedChain, NewChainConfig
<1>3. ASSUME NEW payer \in Payers, NEW b \in ChainIds,
             NEW r \in SupportedIds \X TokenIds,
             NEW fee \in Fees, NEW min \in MinAmounts, NEW paused \in BOOLEAN,
             AddOrUpdateChainToken(payer, b, r, fee, min, paused)
      PROVE  ChainsFunded' /\ TokensFunded'
  BY <1>3 DEF AddOrUpdateChainToken, UpdatedToken, NewTokenConfig, TokenTerms
<1>4. ASSUME NEW r \in GiftedRoutes, SendLamportsToToken(r)
      PROVE  ChainsFunded' /\ TokensFunded'
  BY <1>4 DEF SendLamportsToToken
<1>5. ASSUME NEW r \in GiftedRoutes, SendLamportsToChain(r[1])
      PROVE  ChainsFunded' /\ TokensFunded'
  BY <1>5 DEF SendLamportsToChain
<1> QED BY <1>1, <1>2, <1>3, <1>4, <1>5 DEF ConfigNext

(* The committee instructions keep existing members funded and indexed by  *)
(* their key.                                                              *)
LEMMA CommitteeFundedStep ==
  ASSUME CommitteeTypeOK, MembersFunded, CommitteeNext
  PROVE  MembersFunded'
<1> USE DEF CommitteeTypeOK, CommitteeAccounts, MembersFunded
<1>1. ASSUME NEW payer \in Payers, NEW b \in ChainIds,
             NEW q \in CommitteeRequests, NEW submitter \in Submitters,
             CreateBridgeCommittee(payer, b, q, submitter)
      PROVE  MembersFunded'
  BY <1>1 DEF CreateBridgeCommittee, CreatedMembers, MemberTerms
<1>2. ASSUME NEW payer \in Payers, NEW b \in ChainIds, NEW key \in Members,
             NEW stake \in Stakes, NEW is_blocklisted \in BOOLEAN,
             AddOrUpdateCommittee(payer, b, key, stake, is_blocklisted)
      PROVE  MembersFunded'
  BY <1>2 DEF AddOrUpdateCommittee, MemberTerms
<1>3. ASSUME NEW payer \in Payers, NEW b \in ChainIds,
             NEW submitter \in Submitters, NEW is_submitter \in BOOLEAN,
             AddOrUpdateSubmitter(payer, b, submitter, is_submitter)
      PROVE  MembersFunded'
  BY <1>3 DEF AddOrUpdateSubmitter
<1>4. ASSUME NEW key \in GiftedMembers, SendLamportsToMember(key)
      PROVE  MembersFunded'
  BY <1>4 DEF SendLamportsToMember
<1> QED BY <1>1, <1>2, <1>3, <1>4 DEF CommitteeNext

-----------------------------------------------------------------------------
(* The eligible stake of a member is its stake or nothing.                 *)
LEMMA EligibleStakeType ==
  ASSUME CommitteeTypeOK, NEW k \in Pubkeys
  PROVE  EligibleStake(k) \in Nat
BY Bounds DEF EligibleStake, CommitteeTypeOK, CommitteeAccounts

(* Signers that verify lets through are distinct members, so the stake it  *)
(* adds up is at most what any set of keys holds that contains them all.   *)
LEMMA ApprovalWithinSigners ==
  ASSUME CommitteeTypeOK, NEW K, K \subseteq Pubkeys, IsFiniteSet(K),
         NEW sigs, IsFiniteSet(DOMAIN sigs),
         \A i \in DOMAIN sigs : sigs[i].key \in K,
         EligibleSigners(sigs), DistinctSigners(sigs)
  PROVE  /\ ApprovalStake(sigs) \in Nat
         /\ StakeOfMembers(K) \in Nat
         /\ ApprovalStake(sigs) <= StakeOfMembers(K)
<1> DEFINE f == [i \in DOMAIN sigs |-> SignerAccount(sigs, i).stake_amount]
           g == [k \in K |-> EligibleStake(k)]
           h == [i \in DOMAIN sigs |-> sigs[i].key]
<1>1. h \in [DOMAIN f -> DOMAIN g]
  OBVIOUS
<1>2. ASSUME NEW i \in DOMAIN f, NEW j \in DOMAIN f, h[i] = h[j] PROVE i = j
  BY <1>2 DEF DistinctSigners, IsInjective, SignerAccount
<1>3. \A i \in DOMAIN f : f[i] \in Nat /\ f[i] <= g[h[i]]
  <2> TAKE i \in DOMAIN f
  <2>1. ~committee[h[i]].is_blocklisted
    BY DEF EligibleSigners, SignerAccount
  <2>2. f[i] = EligibleStake(h[i]) /\ g[h[i]] = EligibleStake(h[i])
    BY <2>1 DEF EligibleStake, SignerAccount
  <2>3. EligibleStake(h[i]) \in Nat
    BY EligibleStakeType
  <2> QED BY <2>2, <2>3
<1>4. \A k \in DOMAIN g : g[k] \in Nat
  BY EligibleStakeType
<1>5. IsFiniteSet(DOMAIN f) /\ IsFiniteSet(DOMAIN g)
  OBVIOUS
<1> HIDE DEF f, g, h
<1>6. SumFunction(f) <= SumFunction(g)
  BY <1>1, <1>2, <1>3, <1>4, <1>5, SumEmbedded
<1>7. SumFunction(f) \in Nat /\ SumFunction(g) \in Nat
  BY <1>3, <1>4, <1>5, SumType
<1> QED BY <1>6, <1>7 DEF f, g, ApprovalStake, StakeOfMembers

(* Taking a member out of a finite set takes its stake out of the sum.     *)
LEMMA StakeWithout ==
  ASSUME CommitteeTypeOK, NEW T, T \subseteq Pubkeys, IsFiniteSet(T), NEW k \in T
  PROVE  /\ StakeOfMembers(T) \in Nat
         /\ StakeOfMembers(T \ {k}) \in Nat
         /\ StakeOfMembers(T) = StakeOfMembers(T \ {k}) + EligibleStake(k)
<1> DEFINE f == [j \in T \ {k} |-> EligibleStake(j)]
           g == [j \in T |-> EligibleStake(j)]
<1>1. /\ DOMAIN f = T \ {k} /\ DOMAIN g = T
      /\ g[k] = EligibleStake(k)
      /\ \A j \in T \ {k} : g[j] = f[j]
  OBVIOUS
<1>2. \A j \in T : g[j] \in Nat
  BY EligibleStakeType
<1>3. IsFiniteSet(T \ {k})
  BY FS_RemoveElement
<1> HIDE DEF f, g
<1>4. DOMAIN g = DOMAIN f \cup {k} /\ k \notin DOMAIN f
  BY <1>1
<1>5. SumFunction(g) = SumFunction(f) + g[k]
  BY <1>1, <1>2, <1>3, <1>4, SumExtend
<1>6. SumFunction(f) \in Nat /\ SumFunction(g) \in Nat
  BY <1>1, <1>2, <1>3, SumType
<1> QED BY <1>1, <1>5, <1>6 DEF f, g, StakeOfMembers

(* The stake of a single member is the sum over its singleton, and the     *)
(* empty set has none.                                                     *)
LEMMA StakeOfOne ==
  ASSUME CommitteeTypeOK, NEW k \in Pubkeys
  PROVE  StakeOfMembers({k}) = EligibleStake(k) /\ StakeOfMembers({}) = 0
<1> DEFINE f == [j \in {} |-> EligibleStake(j)]
<1>1. DOMAIN f = {} /\ \A j \in DOMAIN f : f[j] = 0
  OBVIOUS
<1>2. IsFiniteSet({})
  BY FS_EmptySet
<1> HIDE DEF f
<1>3. SumFunction(f) = 0
  BY <1>1, <1>2, SumOfZeros
<1>4. StakeOfMembers({}) = 0
  BY <1>3 DEF f, StakeOfMembers
<1>5. StakeOfMembers({k}) = StakeOfMembers({k} \ {k}) + EligibleStake(k)
  BY FS_Singleton, StakeWithout
<1>6. {k} \ {k} = {}
  OBVIOUS
<1>7. EligibleStake(k) \in Nat
  BY EligibleStakeType
<1> QED BY <1>4, <1>5, <1>6, <1>7

(* Of the sets that hold a required stake a smallest one spares nobody.    *)
LEMMA SmallestApproval ==
  ASSUME NEW S, IsFiniteSet(S), NEW q, StakeOfMembers(S) >= q
  PROVE  \E T \in SUBSET S :
           /\ IsFiniteSet(T) /\ Cardinality(T) <= Cardinality(S)
           /\ StakeOfMembers(T) >= q
           /\ \A k \in T : ~(StakeOfMembers(T \ {k}) >= q)
<1> DEFINE Enough == {T \in SUBSET S : StakeOfMembers(T) >= q}
           Sizes == {Cardinality(T) : T \in Enough}
<1>1. \A T \in SUBSET S :
        /\ IsFiniteSet(T) /\ Cardinality(T) \in Nat
        /\ Cardinality(T) <= Cardinality(S)
  BY FS_Subset, FS_CardinalityType
<1>2. Sizes \subseteq Nat /\ Sizes # {}
  BY <1>1
<1>3. PICK n \in Sizes : \A m \in Sizes : ~(<<m, n>> \in OpToRel(<, Nat))
  BY <1>2, WFMin, NatLessThanWellFounded
<1>4. PICK T \in Enough : Cardinality(T) = n
  OBVIOUS
<1>5. ASSUME NEW k \in T, StakeOfMembers(T \ {k}) >= q PROVE FALSE
  <2>1. T \ {k} \in Enough
    BY <1>5
  <2>2. Cardinality(T \ {k}) \in Sizes
    BY <2>1
  <2>3. Cardinality(T \ {k}) = n - 1
    BY <1>1, <1>4, FS_RemoveElement
  <2>4. n \in Nat /\ n - 1 \in Nat
    BY <1>2, <2>2, <2>3
  <2>5. n - 1 < n
    BY <2>4
  <2> QED BY <1>3, <2>2, <2>3, <2>4, <2>5 DEF OpToRel
<1> QED BY <1>1, <1>4, <1>5

(* So its stake stays below twice what is required, unless a single member *)
(* makes it up: no sum of theirs leaves the u16.                           *)
LEMMA SmallestApprovalFits ==
  ASSUME CommitteeTypeOK, NEW T, T \subseteq Pubkeys, IsFiniteSet(T),
         NEW q \in Nat, 0 < q, 2 * q <= U16_MAX,
         StakeOfMembers(T) >= q,
         \A k \in T : ~(StakeOfMembers(T \ {k}) >= q)
  PROVE  /\ T # {}
         /\ StakeOfMembers(T) \in Nat
         /\ StakeOfMembers(T) <= U16_MAX
         /\ \A k \in T : 0 < EligibleStake(k)
<1>0. U16_MAX \in Nat
  BY Bounds
<1>1. \A k \in T :
        /\ StakeOfMembers(T) \in Nat /\ StakeOfMembers(T \ {k}) \in Nat
        /\ StakeOfMembers(T) = StakeOfMembers(T \ {k}) + EligibleStake(k)
        /\ EligibleStake(k) \in Nat
  BY StakeWithout, EligibleStakeType
<1>2. T # {}
  <2> SUFFICES ASSUME T = {} PROVE FALSE
    OBVIOUS
  <2>1. StakeOfMembers(T) = 0
    BY StakeOfOne, ConfigAssumption
  <2> QED BY <2>1
<1>3. PICK k \in T : TRUE
  BY <1>2
<1>4. \A j \in T : 0 < EligibleStake(j)
  <2> TAKE j \in T
  <2>1. ~(StakeOfMembers(T \ {j}) >= q)
    OBVIOUS
  <2> QED BY <1>1, <2>1
<1>5. StakeOfMembers(T) <= U16_MAX
  <2>1. CASE EligibleStake(k) >= q
    <3>1. T = {k}
      <4> SUFFICES ASSUME NEW j \in T, j # k PROVE FALSE
        OBVIOUS
      <4> DEFINE R == T \ {j}
      <4>1. IsFiniteSet(R) /\ R \subseteq Pubkeys /\ k \in R
        BY FS_RemoveElement
      <4> HIDE DEF R
      <4>2. /\ StakeOfMembers(R) = StakeOfMembers(R \ {k}) + EligibleStake(k)
            /\ StakeOfMembers(R \ {k}) \in Nat
        BY <4>1, StakeWithout
      <4>3. EligibleStake(k) \in Nat
        BY <1>1
      <4>4. StakeOfMembers(R) >= q
        BY <2>1, <4>2, <4>3
      <4> QED BY <4>4 DEF R
    <3>2. StakeOfMembers(T) = EligibleStake(k)
      BY <3>1, StakeOfOne
    <3>3. EligibleStake(k) <= U16_MAX
      BY <1>0 DEF EligibleStake, CommitteeTypeOK, CommitteeAccounts
    <3> QED BY <3>2, <3>3
  <2>2. CASE ~(EligibleStake(k) >= q)
    <3>1. ~(StakeOfMembers(T \ {k}) >= q)
      OBVIOUS
    <3> QED BY <1>0, <1>1, <2>2, <3>1
  <2> QED BY <2>1, <2>2
<1> QED BY <1>1, <1>2, <1>3, <1>4, <1>5

(* Members that exist, are not blocklisted and have stake can be listed    *)
(* once each, and verify then adds up exactly their stake.                 *)
LEMMA MembersListed ==
  ASSUME CommitteeTypeOK, MembersFunded,
         NEW T, T \subseteq Pubkeys, IsFiniteSet(T),
         \A k \in T : 0 < EligibleStake(k),
         NEW sigs, IsFiniteSet(DOMAIN sigs),
         \A i \in DOMAIN sigs : sigs[i].key \in T,
         \A i, j \in DOMAIN sigs : sigs[i].key = sigs[j].key => i = j,
         \A k \in T : \E i \in DOMAIN sigs : sigs[i].key = k
  PROVE  /\ EligibleSigners(sigs) /\ DistinctSigners(sigs)
         /\ ApprovalStake(sigs) = StakeOfMembers(T)
<1>1. \A k \in T :
        /\ committee[k].is_initialized /\ ~committee[k].is_blocklisted
        /\ committee[k].index = k
        /\ committee[k].stake_amount = EligibleStake(k)
  <2> TAKE k \in T
  <2>1. 0 < EligibleStake(k) /\ k \in Pubkeys
    OBVIOUS
  <2>2. ~committee[k].is_blocklisted
    BY <2>1 DEF EligibleStake
  <2>3. EligibleStake(k) = committee[k].stake_amount
    BY <2>2 DEF EligibleStake
  <2>4. committee[k].is_initialized
    BY <2>1, <2>3 DEF MembersFunded
  <2> QED BY <2>1, <2>2, <2>3, <2>4 DEF MembersFunded
<1>2. EligibleSigners(sigs)
  BY <1>1 DEF EligibleSigners, SignerAccount
<1>3. DistinctSigners(sigs)
  BY <1>1 DEF DistinctSigners, IsInjective, SignerAccount
<1> DEFINE f == [i \in DOMAIN sigs |-> SignerAccount(sigs, i).stake_amount]
           g == [k \in T |-> EligibleStake(k)]
           h == [k \in T |-> CHOOSE i \in DOMAIN sigs : sigs[i].key = k]
<1>4. ApprovalStake(sigs) \in Nat /\ StakeOfMembers(T) \in Nat
      /\ ApprovalStake(sigs) <= StakeOfMembers(T)
  BY <1>2, <1>3, ApprovalWithinSigners
<1>5. \A k \in T : h[k] \in DOMAIN sigs /\ sigs[h[k]].key = k
  OBVIOUS
<1>6. /\ DOMAIN f = DOMAIN sigs /\ DOMAIN g = T /\ h \in [T -> DOMAIN sigs]
      /\ \A i, j \in T : h[i] = h[j] => i = j
  BY <1>5
<1>7. \A k \in T : g[k] \in Nat /\ g[k] = f[h[k]]
  BY <1>1, <1>5, EligibleStakeType DEF SignerAccount
<1>8. \A i \in DOMAIN sigs : f[i] \in Nat
  BY <1>1, EligibleStakeType DEF SignerAccount
<1> HIDE DEF f, g, h
<1>9. \A k \in T : g[k] \in Nat /\ g[k] <= f[h[k]]
  BY <1>7
<1>10. SumFunction(g) <= SumFunction(f)
  BY <1>6, <1>8, <1>9, SumEmbedded
<1>11. StakeOfMembers(T) <= ApprovalStake(sigs)
  BY <1>10 DEF f, g, ApprovalStake, StakeOfMembers
<1> QED BY <1>2, <1>3, <1>4, <1>11

(* Whatever the committee, members that hold a required stake which fits   *)
(* the u16 twice include some whose signatures verify adds up to no less   *)
(* than that stake and no more than the u16.                               *)
LEMMA ApprovalExists ==
  ASSUME CommitteeTypeOK, MembersFunded,
         NEW S, S \subseteq Pubkeys, IsFiniteSet(S),
         NEW q \in Nat, 0 < q, 2 * q <= U16_MAX, StakeOfMembers(S) >= q,
         NEW msg
  PROVE  \E n \in 1 .. Cardinality(S) :
           \E sigs \in [1 .. n -> [key : S, msg : {msg}]] :
             /\ EligibleSigners(sigs) /\ DistinctSigners(sigs)
             /\ ApprovalStake(sigs) \in q .. U16_MAX
<1>1. PICK T \in SUBSET S :
        /\ IsFiniteSet(T) /\ Cardinality(T) <= Cardinality(S)
        /\ StakeOfMembers(T) >= q
        /\ \A k \in T : ~(StakeOfMembers(T \ {k}) >= q)
  BY SmallestApproval
<1>2. /\ T # {} /\ T \subseteq Pubkeys
      /\ StakeOfMembers(T) \in Nat /\ StakeOfMembers(T) <= U16_MAX
      /\ \A k \in T : 0 < EligibleStake(k)
  <2>1. T \subseteq Pubkeys
    OBVIOUS
  <2> QED BY <1>1, <2>1, SmallestApprovalFits
<1> DEFINE n == Cardinality(T)
<1>3. n \in Nat /\ n # 0 /\ Cardinality(S) \in Nat
  BY <1>1, <1>2, FS_CardinalityType, FS_EmptySet
<1>4. PICK e \in Bijection(1 .. n, T) : TRUE
  <2>1. ExistsBijection(1 .. n, T)
    BY <1>1, FS_CardinalityType
  <2> QED BY Zenon, <2>1 DEF ExistsBijection
<1>5. /\ e \in [1 .. n -> T]
      /\ \A i, j \in 1 .. n : e[i] = e[j] => i = j
      /\ \A k \in T : \E i \in 1 .. n : e[i] = k
  BY <1>4 DEF Bijection, Injection, Surjection, IsInjective
<1> DEFINE sigs == [i \in 1 .. n |-> [key |-> e[i], msg |-> msg]]
<1> HIDE DEF n
<1>6. /\ DOMAIN sigs = 1 .. n
      /\ \A i \in DOMAIN sigs : sigs[i].key \in T
      /\ \A i, j \in DOMAIN sigs : sigs[i].key = sigs[j].key => i = j
      /\ \A k \in T : \E i \in DOMAIN sigs : sigs[i].key = k
  BY <1>5
<1>7. sigs \in [1 .. n -> [key : S, msg : {msg}]]
  BY <1>5
<1>8. IsFiniteSet(1 .. n)
  BY <1>3, FS_Interval
<1> HIDE DEF sigs
<1>9. /\ EligibleSigners(sigs) /\ DistinctSigners(sigs)
      /\ ApprovalStake(sigs) = StakeOfMembers(T)
  BY <1>1, <1>2, <1>6, <1>8, MembersListed
<1>10. ApprovalStake(sigs) \in q .. U16_MAX
  BY <1>1, <1>2, <1>9, Bounds
<1>11. n \in 1 .. Cardinality(S)
  BY <1>1, <1>3 DEF n
<1> QED BY <1>7, <1>9, <1>10, <1>11

(* So verify accepts a list of signatures by some of them, whichever       *)
(* operation they approve.                                                 *)
LEMMA SignersApprove ==
  ASSUME CommitteeTypeOK, MembersFunded,
         NEW S, S \subseteq Pubkeys, IsFiniteSet(S),
         Cardinality(S) <= MAX_SIGNATURES,
         NEW op \in {TokenTransfer, UpdateBridgeLimit},
         StakeOfMembers(S) >= RequiredStake(op),
         NEW msg, msg.message_type = op
  PROVE  \E n \in 1 .. Cardinality(S) :
           \E sigs \in [1 .. n -> [key : S, msg : {msg}]] : Verify(sigs, msg, op)
<1>1. /\ RequiredStake(op) \in Nat /\ 0 < RequiredStake(op)
      /\ 2 * RequiredStake(op) <= U16_MAX
  BY SMT DEF RequiredStake, TokenTransfer, UpdateBridgeLimit,
             TRANSFER_STAKE_REQUIRED, BRIDGE_LIMIT_STAKE_REQUIRED, U16_MAX
<1>2. PICK n \in 1 .. Cardinality(S) :
        \E sigs \in [1 .. n -> [key : S, msg : {msg}]] :
          /\ EligibleSigners(sigs) /\ DistinctSigners(sigs)
          /\ ApprovalStake(sigs) \in RequiredStake(op) .. U16_MAX
  BY <1>1, ApprovalExists
<1>3. PICK sigs \in [1 .. n -> [key : S, msg : {msg}]] :
        /\ EligibleSigners(sigs) /\ DistinctSigners(sigs)
        /\ ApprovalStake(sigs) \in RequiredStake(op) .. U16_MAX
  BY <1>2
<1>4. Len(sigs) \in 1 .. MAX_SIGNATURES
  <2>1. Cardinality(S) \in Nat
    BY FS_CardinalityType
  <2>2. n \in Nat /\ Len(sigs) = n
    BY <1>3
  <2> QED BY <2>1, <2>2 DEF MAX_SIGNATURES
<1>5. \A i \in DOMAIN sigs : sigs[i].msg = msg
  BY <1>3
<1>6. ApprovalStake(sigs) <= U16_MAX /\ ApprovalStake(sigs) >= RequiredStake(op)
  BY <1>1, <1>3, Bounds
<1>7. Verify(sigs, msg, op)
  BY <1>3, <1>4, <1>5, <1>6 DEF Verify
<1> QED BY <1>3, <1>7
=============================================================================
