----------------------------- MODULE Governance -----------------------------
(***************************************************************************)
(* The administration of the bridge: the configuration and the committee   *)
(* instructions interleaved, in any order and repeated, starting from an   *)
(* empty program.  What the resulting committee can approve is asked of    *)
(* every reachable state.                                                  *)
(***************************************************************************)
EXTENDS Committee

CONSTANT MaxSignatures  \* longest signature list tried against verify

ASSUME GovernanceAssumption == MaxSignatures \in Nat

vars == <<configVars, committeeVars>>

Init == ConfigInit /\ CommitteeInit

Next ==
  \/ ConfigNext /\ UNCHANGED committeeVars
  \/ CommitteeNext

Spec == Init /\ [][Next]_vars

-----------------------------------------------------------------------------
Operations == {TokenTransfer, UpdateBridgeLimit}

(* All signature lists over one message, signed by anyone.                 *)
SignatureLists(msg) ==
  UNION {[1 .. n -> [key : Members, msg : {msg}]] : n \in 0 .. MaxSignatures}

Message(op) == [message_type |-> op]

TypeOK ==
  /\ ConfigTypeOK
  /\ committee \in [Pubkeys -> CommitteeAccounts]
  /\ submitter_pda \in [Pubkeys -> SubmitterAccounts]

(* A member's account names the key its address is derived from, so the    *)
(* duplicate check of verify, which compares the accounts' indices, really *)
(* compares signers; and a key that was never made a member has no stake.  *)
IndexIsKey ==
  \A k \in Pubkeys :
    IF committee[k].is_initialized
    THEN committee[k].index = k
    ELSE committee[k].stake_amount = 0

(* README.md:62-72: whatever list of signatures verify accepts, the        *)
(* distinct members behind it that are not blocklisted hold the required   *)
(* stake between them.                                                     *)
ApprovalNeedsDistinctStake ==
  \A op \in Operations : \A sigs \in SignatureLists(Message(op)) :
    Verify(sigs, Message(op), op) =>
      StakeOfMembers({sigs[i].key : i \in DOMAIN sigs}) >= RequiredStake(op)

(* The other half of README.md:62: members that hold the required stake    *)
(* between them can always get an approval through.  Not necessarily with  *)
(* the signatures of all of them, whose stakes may exceed the u16 and      *)
(* abort verify; but some of them make up a list that it accepts.          *)
EligibleStakeApproves ==
  \A op \in Operations : \A S \in SUBSET Members :
    /\ IsFiniteSet(S)
    /\ Cardinality(S) <= MAX_SIGNATURES
    /\ StakeOfMembers(S) >= RequiredStake(op)
    => \E n \in 1 .. Cardinality(S) :
         \E sigs \in [1 .. n -> [key : S, msg : {Message(op)}]] :
           Verify(sigs, Message(op), op)

BlocklistKeptUnlessUpdated ==
  \A k \in Pubkeys :
    committee[k].is_blocklisted /\ ~committee'[k].is_blocklisted =>
      \E payer \in Payers, b \in ChainIds :
        AddOrUpdateCommittee(payer, b, k, committee'[k].stake_amount, FALSE)

(* A blocklisted member stays so until add_or_update_committee lifts it:   *)
(* running create_bridge_committee again with the old list does not.       *)
BlocklistLiftedOnlyByUpdate == [][BlocklistKeptUnlessUpdated]_vars

(* docs/development.md:44 "Some helpers are create-only ... Updates go     *)
(* through add_or_update_*": a revoked submitter is allowed again only by  *)
(* add_or_update_submitter.                                                *)
SubmitterRestoredOnlyByUpdate ==
  [][\A k \in Pubkeys :
       /\ submitter_pda[k].created /\ ~submitter_pda[k].is_submitter
       /\ submitter_pda'[k].is_submitter
       => \E payer \in Payers, b \in ChainIds :
            AddOrUpdateSubmitter(payer, b, k, TRUE)]_vars

(* README.md:62 "Approvals must reach required_stake": a further signature *)
(* of another eligible member never turns an accepted list into a          *)
(* rejected one.                                                           *)
MoreStakeStillApproved ==
  \A op \in Operations : \A sigs \in SignatureLists(Message(op)) :
    \A k \in Members :
      LET more == Append(sigs, [key |-> k, msg |-> Message(op)]) IN
      /\ Verify(sigs, Message(op), op)
      /\ EligibleSigners(more)
      /\ DistinctSigners(more)
      => Verify(more, Message(op), op)
=============================================================================
