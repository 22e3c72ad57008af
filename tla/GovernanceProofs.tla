-------------------------- MODULE GovernanceProofs ---------------------------
(***************************************************************************)
(* Theorems about Governance, for every set of keys, chains and tokens and *)
(* every argument of the admin instructions.                               *)
(***************************************************************************)
EXTENDS Governance, CommitteeProofs

(* The inductive invariant: well-formed accounts of which those that exist *)
(* hold lamports.                                                          *)
GovernanceInv == TypeOK /\ ChainsFunded /\ TokensFunded /\ MembersFunded

(* The empty program satisfies the invariant of the administration.         *)
LEMMA GovernanceInvInit == Init => GovernanceInv
BY ConfigInitType, CommitteeInitType, FundedInit
  DEF Init, GovernanceInv, TypeOK, CommitteeTypeOK

(* Every admin instruction, in any state, keeps the invariant.              *)
LEMMA GovernanceInvStep == GovernanceInv /\ [Next]_vars => GovernanceInv'
<1> SUFFICES ASSUME GovernanceInv, [Next]_vars PROVE GovernanceInv'
  OBVIOUS
<1>0. ConfigTypeOK /\ CommitteeTypeOK
  BY DEF GovernanceInv, TypeOK, CommitteeTypeOK
<1>1. CASE ConfigNext /\ UNCHANGED committeeVars
  <2>1. ConfigTypeOK' /\ ChainsFunded' /\ TokensFunded'
    BY <1>0, <1>1, ConfigTypeStep, ConfigFundedStep DEF GovernanceInv
  <2>2. CommitteeTypeOK' /\ MembersFunded'
    BY <1>0, <1>1 DEF committeeVars, CommitteeTypeOK, GovernanceInv, MembersFunded
  <2> QED BY <2>1, <2>2 DEF GovernanceInv, TypeOK, CommitteeTypeOK
<1>2. CASE CommitteeNext
  <2>1. CommitteeTypeOK' /\ MembersFunded'
    BY <1>0, <1>2, CommitteeTypeStep, CommitteeFundedStep DEF GovernanceInv
  <2>2. UNCHANGED configVars
    BY <1>2, CommitteeKeepsConfig
  <2>3. ConfigTypeOK' /\ ChainsFunded' /\ TokensFunded'
    BY <1>0, <2>2
      DEF configVars, ConfigTypeOK, GovernanceInv, ChainsFunded, TokensFunded
  <2> QED BY <2>1, <2>3 DEF GovernanceInv, TypeOK, CommitteeTypeOK
<1>3. CASE UNCHANGED vars
  BY <1>3 DEF vars, configVars, committeeVars, GovernanceInv, TypeOK,
    ConfigTypeOK, ChainsFunded, TokensFunded, MembersFunded
<1> QED BY <1>1, <1>2, <1>3 DEF Next

(* However the admin instructions interleave, the accounts stay well        *)
(* formed, funded once they exist, and indexed by their own key.            *)
THEOREM GovernanceInvariant == Spec => []GovernanceInv
BY GovernanceInvInit, GovernanceInvStep, PTL DEF Spec

(* Every reachable configuration, member and submitter account is well     *)
(* formed; in particular no token has a fee of the whole amount.           *)
THEOREM GovernanceTypeCorrect == Spec => []TypeOK
<1>1. GovernanceInv => TypeOK
  BY DEF GovernanceInv
<1> QED BY <1>1, GovernanceInvariant, PTL

(* The duplicate check of verify compares signers, and only members have   *)
(* stake.                                                                  *)
THEOREM IndicesAreKeys == Spec => []IndexIsKey
<1>1. GovernanceInv => IndexIsKey
  BY DEF GovernanceInv, MembersFunded, IndexIsKey
<1> QED BY <1>1, GovernanceInvariant, PTL

(* Whatever list of signatures verify accepts, the distinct members behind *)
(* it hold the required stake between them: no repetition, no blocklisted  *)
(* member and no key that is not a member counts.                          *)
THEOREM ApprovalsHaveStake == Spec => []ApprovalNeedsDistinctStake
<1>1. GovernanceInv => ApprovalNeedsDistinctStake
  <2> SUFFICES ASSUME GovernanceInv, NEW op \in Operations,
                      NEW sigs \in SignatureLists(Message(op)),
                      Verify(sigs, Message(op), op)
               PROVE  StakeOfMembers({sigs[i].key : i \in DOMAIN sigs})
                        >= RequiredStake(op)
    BY DEF ApprovalNeedsDistinctStake
  <2> DEFINE K == {sigs[i].key : i \in DOMAIN sigs}
             key == [i \in DOMAIN sigs |-> sigs[i].key]
  <2>1. CommitteeTypeOK
    BY DEF GovernanceInv, TypeOK, CommitteeTypeOK
  <2>2. PICK n \in 0 .. MaxSignatures :
          sigs \in [1 .. n -> [key : Members, msg : {Message(op)}]]
    BY DEF SignatureLists
  <2>3. IsFiniteSet(DOMAIN sigs)
    BY <2>2, FS_Interval
  <2>4. K \subseteq Pubkeys
    BY <2>2, CommitteeAssumption
  <2>5. IsFiniteSet(K)
    <3>1. key \in Surjection(DOMAIN sigs, K)
      BY DEF Surjection
    <3> QED BY <2>3, <3>1, FS_Surjection
  <2>6. /\ ApprovalStake(sigs) \in Nat /\ StakeOfMembers(K) \in Nat
        /\ ApprovalStake(sigs) <= StakeOfMembers(K)
    BY <2>1, <2>3, <2>4, <2>5, ApprovalWithinSigners DEF Verify
  <2>7. ApprovalStake(sigs) >= RequiredStake(op)
    BY DEF Verify
  <2>8. RequiredStake(op) \in Nat
    BY DEF Operations, RequiredStake, TokenTransfer, UpdateBridgeLimit,
           TRANSFER_STAKE_REQUIRED, BRIDGE_LIMIT_STAKE_REQUIRED
  <2> QED BY <2>6, <2>7, <2>8
<1> QED BY <1>1, GovernanceInvariant, PTL

(* Members that hold the required stake between them can always get an     *)
(* approval through: a smallest set of them with that stake either is a    *)
(* single member or holds less than twice as much, so its sum stays within *)
(* the u16, and its members are eligible and have indices of their own.    *)
THEOREM EligibleStakeSuffices == Spec => []EligibleStakeApproves
<1>1. GovernanceInv => EligibleStakeApproves
  <2> SUFFICES ASSUME GovernanceInv, NEW op \in Operations,
                      NEW S \in SUBSET Members, IsFiniteSet(S),
                      Cardinality(S) <= MAX_SIGNATURES,
                      StakeOfMembers(S) >= RequiredStake(op)
               PROVE  \E n \in 1 .. Cardinality(S) :
                        \E sigs \in [1 .. n -> [key : S, msg : {Message(op)}]] :
                          Verify(sigs, Message(op), op)
    BY DEF EligibleStakeApproves
  <2>1. CommitteeTypeOK /\ MembersFunded
    BY DEF GovernanceInv, TypeOK, CommitteeTypeOK
  <2>2. S \subseteq Pubkeys /\ Message(op).message_type = op
    BY CommitteeAssumption DEF Message
  <2> QED BY <2>1, <2>2, SignersApprove DEF Operations
<1> QED BY <1>1, GovernanceInvariant, PTL

-----------------------------------------------------------------------------
(* A committee instruction lifts a blocklisting only when it is an update  *)
(* of that member.                                                         *)
LEMMA BlocklistStep ==
  ASSUME GovernanceInv, [Next]_vars
  PROVE  BlocklistKeptUnlessUpdated
<1> SUFFICES ASSUME NEW k \in Pubkeys,
                    committee[k].is_blocklisted, ~committee'[k].is_blocklisted
             PROVE  \E payer \in Payers, b \in ChainIds :
                      AddOrUpdateCommittee(payer, b, k,
                                           committee'[k].stake_amount, FALSE)
  BY DEF BlocklistKeptUnlessUpdated
<1>0. /\ committee \in [Pubkeys -> CommitteeAccounts]
      /\ committee[k].lamports
  BY DEF GovernanceInv, TypeOK, MembersFunded
<1>1. committee' # committee
  OBVIOUS
<1>2. ASSUME NEW payer \in Payers, NEW b \in ChainIds,
             NEW q \in CommitteeRequests, NEW submitter \in Submitters,
             CreateBridgeCommittee(payer, b, q, submitter)
      PROVE  FALSE
  BY <1>0, <1>2 DEF CreateBridgeCommittee, CreatedMembers, MemberTerms
<1>3. ASSUME NEW payer \in Payers, NEW b \in ChainIds, NEW key \in Members,
             NEW stake \in Stakes, NEW is_blocklisted \in BOOLEAN,
             AddOrUpdateCommittee(payer, b, key, stake, is_blocklisted)
      PROVE  AddOrUpdateCommittee(payer, b, k, committee'[k].stake_amount, FALSE)
  <2>1. key = k
    BY <1>0, <1>3 DEF AddOrUpdateCommittee, MemberTerms
  <2>2. committee'[k].stake_amount = stake /\ is_blocklisted = FALSE
    BY <1>0, <1>3, <2>1 DEF AddOrUpdateCommittee, MemberTerms
  <2> QED BY <1>3, <2>1, <2>2
<1>4. ASSUME NEW key \in GiftedMembers, SendLamportsToMember(key) PROVE FALSE
  BY <1>0, <1>4 DEF SendLamportsToMember, CommitteeAccounts
<1>5. CommitteeNext
  BY <1>1 DEF Next, vars, committeeVars
<1> QED BY <1>1, <1>2, <1>3, <1>4, <1>5 DEF CommitteeNext, AddOrUpdateSubmitter

(* A blocklisted member is back only when the admin lifts it explicitly,   *)
(* whatever committees are created, and created again, in between.         *)
THEOREM BlocklistHolds == Spec => BlocklistLiftedOnlyByUpdate
<1>1. GovernanceInv /\ [Next]_vars => [BlocklistKeptUnlessUpdated]_vars
  BY BlocklistStep
<1> QED BY <1>1, GovernanceInvariant, PTL DEF Spec, BlocklistLiftedOnlyByUpdate

(* A step changes the terms of a token that exists only by updating it.    *)
LEMMA TermsStep ==
  ASSUME GovernanceInv, [Next]_vars, ~UNCHANGED configVars
  PROVE  TermsKeptUnlessUpdated
<1> SUFFICES ASSUME NEW r \in Routes, token_config[r].is_initialized,
                    token_config'[r] # token_config[r]
             PROVE  \E payer \in Payers, b \in ChainIds :
                      AddOrUpdateChainToken(payer, b, r,
                        token_config'[r].token_fee_percentage,
                        token_config'[r].token_min_amount,
                        token_config'[r].withdraw_paused)
  BY DEF TermsKeptUnlessUpdated
<1>0. /\ token_config \in [Routes -> TokenConfigs]
      /\ token_config[r].lamports
  BY DEF GovernanceInv, TypeOK, ConfigTypeOK, TokensFunded
<1>1. ASSUME NEW payer \in Payers, NEW q \in ConfigRequests,
             CreateBridgeConfig(payer, q)
      PROVE  FALSE
  BY <1>0, <1>1 DEF CreateBridgeConfig, CreatedTokens
<1>2. ASSUME NEW payer \in Payers, NEW b \in ChainIds,
             NEW s \in SupportedIds \X TokenIds,
             NEW fee \in Fees, NEW min \in MinAmounts, NEW paused \in BOOLEAN,
             AddOrUpdateChainToken(payer, b, s, fee, min, paused)
      PROVE  AddOrUpdateChainToken(payer, b, r,
               token_config'[r].token_fee_percentage,
               token_config'[r].token_min_amount,
               token_config'[r].withdraw_paused)
  <2>1. s = r
    BY <1>0, <1>2 DEF AddOrUpdateChainToken
  <2>2. token_config'[r] = TokenTerms(fee, min, paused, token_config[r].mint_total)
    BY <1>0, <1>2, <2>1 DEF AddOrUpdateChainToken, UpdatedToken
  <2>3. /\ token_config'[r].token_fee_percentage = fee
        /\ token_config'[r].token_min_amount = min
        /\ token_config'[r].withdraw_paused = paused
    BY <2>2 DEF TokenTerms
  <2> QED BY <1>2, <2>1, <2>3
<1>3. ASSUME NEW s \in GiftedRoutes, SendLamportsToToken(s) PROVE FALSE
  BY <1>0, <1>3 DEF SendLamportsToToken, TokenConfigs
<1>4. ConfigNext
  BY CommitteeKeepsConfig DEF Next, vars
<1> QED BY <1>1, <1>2, <1>3, <1>4
     DEF ConfigNext, AddOrUpdateChain, SendLamportsToChain

(* The fee, minimum and pause of a token hold until its own update,        *)
(* whatever bridge configurations list the token again.                    *)
THEOREM TermsHold == Spec => TermsChangeOnlyByUpdate
<1>1. GovernanceInv /\ [Next]_vars => [TermsKeptUnlessUpdated]_configVars
  BY TermsStep
<1> QED BY <1>1, GovernanceInvariant, PTL DEF Spec, TermsChangeOnlyByUpdate
=============================================================================
