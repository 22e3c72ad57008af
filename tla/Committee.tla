------------------------------ MODULE Committee -----------------------------
(***************************************************************************)
(* Committee members, submitters, the admin instructions that write them,  *)
(* and verify: the check that a message carries enough committee stake.    *)
(* A signature is an Ed25519 pre-instruction of the transaction, reduced   *)
(* to the key that signed and the message that was signed.                 *)
(***************************************************************************)
EXTENDS Config

CONSTANTS
  Members,            \* keys that appear as committee members
  Submitters,         \* keys that appear as submitters
  CommitteeRequests,  \* argument lists tried for create_bridge_committee
  Stakes,             \* stakes tried for add_or_update_committee
  GiftedMembers       \* keys whose committee address is sent lamports

U16_MAX == 65535

ASSUME CommitteeAssumption ==
  /\ Members \subseteq Pubkeys
  /\ Submitters \subseteq Pubkeys
  /\ Stakes \subseteq 0 .. U16_MAX
  /\ GiftedMembers \subseteq Pubkeys
  /\ \A q \in CommitteeRequests :
       /\ q.committee \in Seq(Pubkeys)
       /\ q.stake \in Seq(0 .. U16_MAX)

VARIABLES committee, submitter_pda

committeeVars == <<committee, submitter_pda>>

CommitteeAccounts ==
  [lamports : BOOLEAN, is_initialized : BOOLEAN, index : Pubkeys,
   stake_amount : 0 .. U16_MAX, is_blocklisted : BOOLEAN]

(* `created` stands for the account's existence: is_initialized is a field *)
(* no instruction ever sets.                                               *)
SubmitterAccounts ==
  [created : BOOLEAN, is_initialized : BOOLEAN, is_submitter : BOOLEAN]

CommitteeInit ==
  /\ committee =
       [k \in Pubkeys |-> [lamports |-> FALSE, is_initialized |-> FALSE,
                           index |-> DefaultKey, stake_amount |-> 0,
                           is_blocklisted |-> FALSE]]
  /\ submitter_pda =
       [k \in Pubkeys |-> [created |-> FALSE, is_initialized |-> FALSE,
                           is_submitter |-> FALSE]]

-----------------------------------------------------------------------------
(* create_bridge_committee: members whose account has lamports are         *)
(* skipped, the first of two equal keys counts.                            *)
StakeOf(q, k) == q.stake[Min({i \in DOMAIN q.committee : q.committee[i] = k})]

SubmitterTerms(account, is_submitter) ==
  [created |-> TRUE, is_initialized |-> account.is_initialized,
   is_submitter |-> is_submitter]

(* A defect the checks must notice: the index of a new account stays zero. *)
MemberTermsUnindexed(key, stake, is_blocklisted) ==
  [lamports |-> TRUE, is_initialized |-> TRUE, index |-> DefaultKey,
   stake_amount |-> stake, is_blocklisted |-> is_blocklisted]

MemberTerms(key, stake, is_blocklisted) ==
  [lamports |-> TRUE, is_initialized |-> TRUE, index |-> key,
   stake_amount |-> stake, is_blocklisted |-> is_blocklisted]

(* A defect the checks must notice: existing members are written again.    *)
CreatedMembersAgain(q) == Range(q.committee)

CreatedMembers(q) == {k \in Range(q.committee) : ~committee[k].lamports}

CreateBridgeCommittee(payer, chain_id, q, submitter) ==
  /\ IsAdmin(payer, chain_id)
  /\ Len(q.committee) < 256
  /\ Len(q.committee) = Len(q.stake)
  /\ committee' =
       [k \in Pubkeys |->
          IF k \in CreatedMembers(q)
          THEN MemberTerms(k, StakeOf(q, k), FALSE)
          ELSE committee[k]]
  /\ submitter_pda' =
       [submitter_pda EXCEPT ![submitter] =
          IF @.is_initialized THEN @ ELSE SubmitterTerms(@, TRUE)]
  /\ UNCHANGED configVars

AddOrUpdateCommittee(payer, chain_id, key, stake, is_blocklisted) ==
  /\ IsAdmin(payer, chain_id)
  /\ committee' =
       [committee EXCEPT ![key] = MemberTerms(key, stake, is_blocklisted)]
  /\ UNCHANGED <<configVars, submitter_pda>>

AddOrUpdateSubmitter(payer, chain_id, submitter, is_submitter) ==
  /\ IsAdmin(payer, chain_id)
  /\ submitter_pda' =
       [submitter_pda EXCEPT ![submitter] = SubmitterTerms(@, is_submitter)]
  /\ UNCHANGED <<configVars, committee>>

SendLamportsToMember(key) ==
  /\ committee' = [committee EXCEPT ![key].lamports = TRUE]
  /\ UNCHANGED <<configVars, submitter_pda>>

CommitteeNext ==
  \/ \E payer \in Payers, b \in ChainIds, q \in CommitteeRequests,
        submitter \in Submitters :
       CreateBridgeCommittee(payer, b, q, submitter)
  \/ \E payer \in Payers, b \in ChainIds, key \in Members, stake \in Stakes,
        is_blocklisted \in BOOLEAN :
       AddOrUpdateCommittee(payer, b, key, stake, is_blocklisted)
  \/ \E payer \in Payers, b \in ChainIds, submitter \in Submitters,
        is_submitter \in BOOLEAN :
       AddOrUpdateSubmitter(payer, b, submitter, is_submitter)
  \/ \E key \in GiftedMembers : SendLamportsToMember(key)

-----------------------------------------------------------------------------
(* verify.  The `u8` loop bound `number_of_signatures + 1` overflows at    *)
(* 255 signatures and the `u16` stake sum beyond U16_MAX: both abort the   *)
(* transaction.                                                            *)
TRANSFER_STAKE_REQUIRED == 6666

BRIDGE_LIMIT_STAKE_REQUIRED == 5001

MAX_SIGNATURES == 254

TokenTransfer == 0

UpdateBridgeLimit == 3

RequiredStake(op) ==
  CASE op = TokenTransfer -> TRANSFER_STAKE_REQUIRED
    [] op = UpdateBridgeLimit -> BRIDGE_LIMIT_STAKE_REQUIRED

SignerAccount(sigs, i) == committee[sigs[i].key]

ApprovalStake(sigs) ==
  SumFunction([i \in DOMAIN sigs |-> SignerAccount(sigs, i).stake_amount])

(* A defect the checks must notice: a repeated signer counts again.        *)
DistinctSignersUnchecked(sigs) == TRUE

DistinctSigners(sigs) ==
  IsInjective([i \in DOMAIN sigs |-> SignerAccount(sigs, i).index])

EligibleSigners(sigs) ==
  \A i \in DOMAIN sigs :
    /\ SignerAccount(sigs, i).is_initialized
    /\ ~SignerAccount(sigs, i).is_blocklisted

Verify(sigs, msg, op) ==
  /\ Len(sigs) \in 1 .. MAX_SIGNATURES
  /\ \A i \in DOMAIN sigs : sigs[i].msg = msg
  /\ msg.message_type = op
  /\ EligibleSigners(sigs)
  /\ DistinctSigners(sigs)
  /\ ApprovalStake(sigs) <= U16_MAX
  /\ ApprovalStake(sigs) >= RequiredStake(op)

-----------------------------------------------------------------------------
(* What members can contribute to an approval, and a set of them together. *)
EligibleStake(k) ==
  IF committee[k].is_blocklisted THEN 0 ELSE committee[k].stake_amount

StakeOfMembers(S) == SumFunction([k \in S |-> EligibleStake(k)])
=============================================================================
