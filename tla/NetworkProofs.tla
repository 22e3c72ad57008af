---------------------------- MODULE NetworkProofs ----------------------------
(***************************************************************************)
(* Theorems about Network: what a dishonest minority of the committee      *)
(* cannot do, whatever is deposited, signed, relayed, administered and     *)
(* withdrawn, in any order.  None of them needs the fairness.              *)
(***************************************************************************)
EXTENDS NetworkPeg, BridgeProofs

(* The inductive invariant: that of the program, and honest members have   *)
(* signed only deposits made and updates decided.                          *)
NetworkInv ==
  /\ BridgeInv
  /\ NetworkTypeOK
  /\ IsFiniteSet(dishonest)
  /\ IsFiniteSet(deposits)

(* The amounts and members of the bounded inputs are of their kind.        *)
LEMMA NetworkInputs ==
  /\ DepositMessages \subseteq MintMessages
  /\ \A d \in DepositMessages :
       d.message_type = TokenTransfer /\ RouteOf(d) \in Routes /\ d.amount \in Nat
  /\ UpdateMessages \subseteq LimitMessages
  /\ \A u \in UpdateMessages : u.message_type = UpdateBridgeLimit
  /\ Corruptible \subseteq Members /\ Members \subseteq Pubkeys
<1>1. DepositMessages \subseteq MintMessages
  BY NetworkAssumption
<1>2. ASSUME NEW d \in DepositMessages
      PROVE  d.message_type = TokenTransfer /\ RouteOf(d) \in Routes /\ d.amount \in Nat
  <2>1. d.message_type = TokenTransfer
    BY NetworkAssumption
  <2> QED BY <1>1, <2>1, MintMessageType DEF RouteOf
<1> QED BY <1>1, <1>2, NetworkAssumption, CommitteeAssumption

-----------------------------------------------------------------------------
(* Whatever the actors do, the program takes a step of its own, lets time  *)
(* pass or does nothing, and so keeps its invariant.                       *)
LEMMA ProgramStep ==
  ASSUME BridgeInv, [NetworkNext]_networkVars
  PROVE  BridgeInv'
<1>1. CASE UNCHANGED vars
  <2>1. unix_timestamp' \in Nat
    BY <1>1 DEF BridgeInv, TypeOK, vars
  <2> QED BY <1>1, <2>1, ClockStep DEF vars
<1>2. ASSUME NEW d \in DepositMessages, RelayMint(d) PROVE BridgeInv'
  BY <1>2, NetworkInputs, MintStep DEF RelayMint
<1>3. ASSUME NEW u \in UpdateMessages, RelayUpdate(u) PROVE BridgeInv'
  BY <1>3, NetworkInputs, LimitStep DEF RelayUpdate
<1>4. CASE UsersNext
  <2>1. CASE AdminNext
    BY <2>1, AdminStep
  <2>2. CASE WithdrawNext
    BY <2>2, WithdrawStep DEF WithdrawNext
  <2>3. ASSUME NEW b \in ChainIds, NEW from \in Users, NEW to \in Users,
               NEW amount \in Amounts, SplTransfer(b, from, to, amount)
        PROVE  BridgeInv'
    BY <2>3, TransferStep
  <2>4. ASSUME NEW b \in ChainIds, NEW from \in Users, NEW amount \in Amounts,
               SplBurn(b, from, amount)
        PROVE  BridgeInv'
    BY <2>4, BurnStep
  <2> QED BY <1>4, <2>1, <2>2, <2>3, <2>4 DEF UsersNext
<1>5. CASE HourPasses
  <2>1. unix_timestamp' \in Nat
    <3>1. U32 \in Nat \ {0} /\ unix_timestamp \in Nat
      BY HourRingAssumption DEF BridgeInv, TypeOK
    <3>2. unix_timestamp' = (unix_timestamp + 1) % U32
      BY <1>5 DEF HourPasses
    <3> QED BY <3>1, <3>2, DivMod
  <2> QED BY <1>5, <2>1, ClockStep DEF HourPasses
<1>6. CASE \/ \E d \in DepositMessages : Deposit(d)
           \/ \E i \in DOMAIN withdraw_events : Release(i)
           \/ \E u \in UpdateMessages : Decide(u)
           \/ \E k \in Members, msg \in deposits \cup Range(decided) : Attest(k, msg)
           \/ \E k \in Corruptible : Compromise(k)
           \/ UNCHANGED networkVars
  <2>1. UNCHANGED vars
    BY <1>6 DEF Deposit, Release, Decide, Attest, Compromise, bridgeVars, networkVars
  <2> QED BY <1>1, <2>1
<1> QED BY <1>2, <1>3, <1>4, <1>5, <1>6 DEF NetworkNext

(* Withdrawals stay in the log.                                            *)
LEMMA LogsGrow ==
  ASSUME BridgeInv, [NetworkNext]_networkVars
  PROVE  DOMAIN withdraw_events \subseteq DOMAIN withdraw_events'
<1>1. withdraw_events \in Seq(WithdrawEvents)
  BY DEF BridgeInv, TypeOK
<1>2. ASSUME NEW user, NEW msg, WithdrawBtc(user, msg)
      PROVE  DOMAIN withdraw_events \subseteq DOMAIN withdraw_events'
  <2>1. \E e : withdraw_events' = Append(withdraw_events, e)
    BY <1>2 DEF WithdrawBtc
  <2> QED BY <1>1, <2>1
<1>3. CASE withdraw_events' = withdraw_events
  BY <1>3
<1>4. ~(\E user, msg : WithdrawBtc(user, msg)) => withdraw_events' = withdraw_events
  BY DEF NetworkNext, Deposit, Release, Decide, Attest, Compromise, RelayMint,
         RelayUpdate, MintSbtcWithSignatures, AddOrUpdateLimiterWithSignatures,
         UsersNext, AdminNext, WithdrawNext, SplTransfer, SplBurn, HourPasses,
         bridgeVars, networkVars, vars, eventVars
<1> QED BY <1>2, <1>3, <1>4

(* The empty network satisfies the invariant.                              *)
LEMMA NetworkInvInit == NetworkInit => NetworkInv
<1> SUFFICES ASSUME NetworkInit PROVE NetworkInv
  OBVIOUS
<1>1. BridgeInv
  BY BridgeInvInit DEF NetworkInit
<1>2. NetworkTypeOK
  BY <1>1 DEF NetworkInit, NetworkTypeOK, BridgeInv
<1>3. IsFiniteSet(dishonest) /\ IsFiniteSet(deposits)
  BY FS_EmptySet DEF NetworkInit
<1> QED BY <1>1, <1>2, <1>3 DEF NetworkInv

(* Every step of the network keeps the invariant.                          *)
LEMMA NetworkInvStep ==
  ASSUME NetworkInv, [NetworkNext]_networkVars
  PROVE  NetworkInv'
<1>0. BridgeInv /\ BridgeInv' /\ DOMAIN withdraw_events \subseteq DOMAIN withdraw_events'
  BY ProgramStep, LogsGrow DEF NetworkInv
<1>1. TypeOK' /\ TypeOK
  BY <1>0 DEF BridgeInv
<1> USE DEF NetworkInv, NetworkTypeOK
<1>2. ASSUME NEW d \in DepositMessages, Deposit(d) PROVE NetworkInv'
  <2>1. RouteOf(d) \in Routes /\ d.amount \in Nat
    BY NetworkInputs
  <2>2. custody' \in [Routes -> Nat]
    BY <1>2, <2>1 DEF Deposit
  <2>3. IsFiniteSet(deposits')
    BY <1>2, FS_AddElement DEF Deposit
  <2>4. /\ deposits' = deposits \cup {d}
        /\ UNCHANGED <<released, decided, signatures, dishonest, withdraw_events>>
    BY <1>2 DEF Deposit, bridgeVars, vars, eventVars, validatorVars
  <2>5. signatures' \subseteq [key : Members, msg : deposits' \cup Range(decided')]
    BY <2>4
  <2> QED BY <1>0, <1>1, <2>2, <2>3, <2>4, <2>5
<1>3. ASSUME NEW i \in DOMAIN withdraw_events, Release(i) PROVE NetworkInv'
  <2> DEFINE e == withdraw_events[i]
  <2>1. e \in WithdrawEvents
    BY <1>1 DEF TypeOK
  <2>2. e.route \in Routes /\ e.amount \in Nat
    BY <2>1 DEF WithdrawEvents
  <2> HIDE DEF e
  <2>3. e.amount <= custody[e.route] /\ custody' = [custody EXCEPT ![e.route] = @ - e.amount]
    BY <1>3 DEF Release, e
  <2>4. custody' \in [Routes -> Nat]
    BY <2>2, <2>3
  <2>5. /\ released' = released \cup {i}
        /\ UNCHANGED <<deposits, decided, signatures, dishonest, withdraw_events>>
    BY <1>3 DEF Release, bridgeVars, vars, eventVars, validatorVars
  <2> QED BY <1>0, <1>1, <2>4, <2>5
<1>4. ASSUME NEW u \in UpdateMessages, Decide(u) PROVE NetworkInv'
  <2>1. /\ decided' = Append(decided, u)
        /\ UNCHANGED <<deposits, custody, released, signatures, dishonest>>
    BY <1>4 DEF Decide, sourceVars
  <2>2. decided' \in Seq(UpdateMessages) /\ Range(decided) \subseteq Range(decided')
    BY <2>1 DEF Range
  <2> QED BY <1>0, <1>1, <2>1, <2>2
<1>5. ASSUME NEW k \in Members, NEW msg \in deposits \cup Range(decided), Attest(k, msg)
      PROVE  NetworkInv'
  <2>1. /\ signatures' = signatures \cup {[key |-> k, msg |-> msg]}
        /\ UNCHANGED <<deposits, custody, released, decided, dishonest>>
    BY <1>5 DEF Attest, Signature, sourceVars
  <2> QED BY <1>0, <1>1, <2>1
<1>6. ASSUME NEW k \in Corruptible, Compromise(k) PROVE NetworkInv'
  <2>1. /\ dishonest' = dishonest \cup {k}
        /\ signatures' \subseteq signatures
        /\ UNCHANGED <<deposits, custody, released, decided>>
    BY <1>6 DEF Compromise, sourceVars
  <2>2. IsFiniteSet(dishonest')
    BY <2>1, FS_AddElement
  <2> QED BY <1>0, <1>1, <2>1, <2>2
<1>7. CASE UNCHANGED <<sourceVars, validatorVars>>
  BY <1>0, <1>1, <1>7 DEF sourceVars, validatorVars
<1>8. CASE \/ \E d \in DepositMessages : RelayMint(d)
           \/ \E u \in UpdateMessages : RelayUpdate(u)
           \/ UsersNext
           \/ HourPasses
           \/ UNCHANGED networkVars
  <2>1. UNCHANGED <<sourceVars, validatorVars>>
    BY <1>8 DEF RelayMint, RelayUpdate, UsersNext, HourPasses, networkVars
  <2> QED BY <1>7, <2>1
<1> QED BY <1>2, <1>3, <1>4, <1>5, <1>6, <1>8 DEF NetworkNext

(* Whatever source chains, members, submitters, users and administrators   *)
(* do, the program's state stays as BridgeInv says and honest members have *)
(* signed only what happened.                                              *)
THEOREM NetworkInvariant == NetworkSpec => []NetworkInv
<1>1. NetworkInv /\ [NetworkNext]_networkVars => NetworkInv'
  BY NetworkInvStep
<1> QED BY <1>1, NetworkInvInit, PTL DEF NetworkSpec

(* What the network keeps is well formed; in particular no source chain    *)
(* pays out more than it holds.                                            *)
THEOREM NetworkTypeCorrect == NetworkSpec => []NetworkTypeOK
<1>1. NetworkInv => NetworkTypeOK
  BY DEF NetworkInv
<1> QED BY <1>1, NetworkInvariant, PTL

-----------------------------------------------------------------------------
(* A message approved with more stake than the dishonest members hold was  *)
(* signed by an honest one, and so it is a deposit made or an update       *)
(* decided.                                                                *)
LEMMA HonestSigner ==
  ASSUME NetworkInv, NEW msg, NEW sigs \in AvailableLists(msg), NEW op,
         RequiredStake(op) \in Nat, Verify(sigs, msg, op),
         StakeOfMembers(dishonest) < RequiredStake(op)
  PROVE  msg \in deposits \cup Range(decided)
<1>1. PICK n \in 1 .. MaxSignatures : sigs \in [1 .. n -> Available(msg)]
  BY DEF AvailableLists
<1>2. IsFiniteSet(DOMAIN sigs)
  BY <1>1, FS_Interval
<1>3. dishonest \subseteq Pubkeys /\ IsFiniteSet(dishonest) /\ CommitteeTypeOK
  BY NetworkInputs DEF NetworkInv, NetworkTypeOK, BridgeInv, TypeOK, CommitteeTypeOK
<1>4. ~(\A i \in DOMAIN sigs : sigs[i].key \in dishonest)
  <2> SUFFICES ASSUME \A i \in DOMAIN sigs : sigs[i].key \in dishonest PROVE FALSE
    OBVIOUS
  <2>1. /\ ApprovalStake(sigs) \in Nat /\ StakeOfMembers(dishonest) \in Nat
        /\ ApprovalStake(sigs) <= StakeOfMembers(dishonest)
    BY <1>2, <1>3, ApprovalWithinSigners DEF Verify
  <2>2. ApprovalStake(sigs) >= RequiredStake(op)
    BY DEF Verify
  <2> QED BY <2>1, <2>2
<1>5. PICK i \in DOMAIN sigs : sigs[i].key \notin dishonest
  BY <1>4
<1>6. sigs[i] \in Available(msg)
  BY <1>1
<1>7. PICK k \in Members :
        /\ sigs[i] = Signature(k, msg)
        /\ k \in dishonest \/ Signature(k, msg) \in signatures
  BY <1>6 DEF Available
<1>8. Signature(k, msg) \in [key : Members, msg : deposits \cup Range(decided)]
  BY <1>5, <1>7 DEF Signature, NetworkInv, NetworkTypeOK
<1> QED BY <1>8 DEF Signature

(* The stakes required are numbers.                                        *)
LEMMA StakesRequired ==
  /\ RequiredStake(TokenTransfer) = TRANSFER_STAKE_REQUIRED
  /\ RequiredStake(UpdateBridgeLimit) = BRIDGE_LIMIT_STAKE_REQUIRED
  /\ TRANSFER_STAKE_REQUIRED \in Nat /\ BRIDGE_LIMIT_STAKE_REQUIRED \in Nat
  /\ TokenTransfer # UpdateBridgeLimit
BY DEF RequiredStake, TokenTransfer, UpdateBridgeLimit, TRANSFER_STAKE_REQUIRED,
       BRIDGE_LIMIT_STAKE_REQUIRED

(* The event of a mint matches the message relayed.                        *)
LEMMA MintEventAsked ==
  ASSUME BridgeInv, NEW submitter, NEW sigs, NEW msg \in MintMessages,
         MintSbtcWithSignatures(submitter, sigs, msg)
  PROVE  LET n == Len(mint_events) IN
         /\ n \in Nat
         /\ DOMAIN mint_events = 1 .. n /\ DOMAIN mint_events' = 1 .. n + 1
         /\ \A i \in 1 .. n : mint_events'[i] = mint_events[i]
         /\ Asks(msg, mint_events'[n + 1])
<1> DEFINE n == Len(mint_events)
           c == msg.source_chain_id
           r == RouteOf(msg)
           e == [nonce |-> msg.nonce, route |-> r, to_chain_id |-> msg.to_chain_id,
                 to_address |-> msg.to_address, amount |-> msg.amount,
                 hour |-> CurrentHour(unix_timestamp),
                 chain_mint_total |-> supported_chain_config'[c].mint_total,
                 token_mint_total |-> token_config'[r].mint_total]
<1>1. mint_events' = Append(mint_events, e)
  BY DEF MintSbtcWithSignatures, RouteOf
<1>2. mint_events \in Seq(MintEvents)
  BY DEF BridgeInv, TypeOK
<1>3. Asks(msg, e)
  BY DEF Asks
<1> HIDE DEF e
<1> QED BY <1>1, <1>2, <1>3

(* While the dishonest hold too little stake, what is minted was deposited.*)
LEMMA MintedWasDeposited ==
  ASSUME NetworkInv, HonestMajority, NEW d \in DepositMessages, RelayMint(d)
  PROVE  d \in deposits
<1>1. PICK submitter \in Submitters, sigs \in AvailableLists(d) :
        MintSbtcWithSignatures(submitter, sigs, d)
  BY DEF RelayMint
<1>2. Verify(sigs, d, TokenTransfer)
  BY <1>1 DEF MintSbtcWithSignatures
<1>3. d \in deposits \cup Range(decided)
  BY <1>2, StakesRequired, HonestSigner DEF HonestMajority
<1>4. \A u \in Range(decided) : u \in UpdateMessages
  BY DEF NetworkInv, NetworkTypeOK, Range
<1> QED BY <1>3, <1>4, NetworkInputs, StakesRequired

(* So no step forges a mint.                                               *)
LEMMA NoForgery ==
  ASSUME NetworkInv, [NetworkNext]_networkVars, HonestMajority
  PROVE  Forged' \subseteq Forged
<1>1. CASE mint_events' = mint_events /\ deposits \subseteq deposits'
  BY <1>1 DEF Forged
<1>2. ASSUME NEW d \in DepositMessages, RelayMint(d) PROVE Forged' \subseteq Forged
  <2>1. PICK submitter \in Submitters, sigs \in AvailableLists(d) :
          MintSbtcWithSignatures(submitter, sigs, d)
    BY <1>2 DEF RelayMint
  <2>2. d \in deposits /\ deposits' = deposits
    BY <1>2, MintedWasDeposited DEF RelayMint, sourceVars
  <2> DEFINE n == Len(mint_events)
  <2>3. /\ n \in Nat
        /\ DOMAIN mint_events = 1 .. n /\ DOMAIN mint_events' = 1 .. n + 1
        /\ \A i \in 1 .. n : mint_events'[i] = mint_events[i]
        /\ Asks(d, mint_events'[n + 1])
    BY <2>1, NetworkInputs, MintEventAsked DEF NetworkInv
  <2> HIDE DEF n
  <2>4. \A i \in 1 .. n + 1 : i \in 1 .. n \/ i = n + 1
    BY <2>3
  <2> QED BY <2>2, <2>3, <2>4 DEF Forged
<1>3. ~(\E d \in DepositMessages : RelayMint(d))
        => mint_events' = mint_events /\ deposits \subseteq deposits'
  BY DEF NetworkNext, Deposit, Release, Decide, Attest, Compromise,
         RelayUpdate, AddOrUpdateLimiterWithSignatures, UsersNext, AdminNext,
         WithdrawNext, WithdrawBtc, SplTransfer, SplBurn, HourPasses,
         bridgeVars, networkVars, vars, eventVars, sourceVars
<1> QED BY <1>1, <1>2, <1>3

(* For every committee and every history of stakes, blocklistings and      *)
(* signatures: as long as the dishonest members that may still sign hold   *)
(* less than the required stake, sBTC is minted only for deposits, to whom *)
(* and in what amount they ask.                                            *)
THEOREM OnlyDepositsAreMinted == NetworkSpec => MintsAreDeposits
<1>1. NetworkInv /\ [NetworkNext]_networkVars
        => [StakeOfMembers(dishonest) < TRANSFER_STAKE_REQUIRED
              => Forged' \subseteq Forged]_networkVars
  BY NoForgery DEF HonestMajority
<1> QED BY <1>1, NetworkInvariant, PTL DEF NetworkSpec, MintsAreDeposits

(* Nor does it change a limit the committee has not decided.               *)
LEMMA NoForgedLimit ==
  ASSUME NetworkInv, [NetworkNext]_networkVars,
         StakeOfMembers(dishonest) < BRIDGE_LIMIT_STAKE_REQUIRED,
         limit_events' # limit_events
  PROVE  \E u \in Range(decided) :
           /\ u.nonce = update_nonce
           /\ limit_events'[Len(limit_events')].route = <<u.target_chain_id, u.token_id>>
           /\ limit_events'[Len(limit_events')].total_limit = u.total_limit
<1>1. PICK u \in UpdateMessages : RelayUpdate(u)
  BY DEF NetworkNext, Deposit, Release, Decide, Attest, Compromise,
         RelayMint, MintSbtcWithSignatures, UsersNext, AdminNext,
         WithdrawNext, WithdrawBtc, SplTransfer, SplBurn, HourPasses,
         bridgeVars, networkVars, vars, eventVars
<1>2. PICK submitter \in Submitters, sigs \in AvailableLists(u) :
        AddOrUpdateLimiterWithSignatures(submitter, sigs, u)
  BY <1>1 DEF RelayUpdate
<1>3. Verify(sigs, u, UpdateBridgeLimit) /\ u.nonce = update_nonce
  BY <1>2 DEF AddOrUpdateLimiterWithSignatures, NonceEqual
<1>4. u \in deposits \cup Range(decided)
  BY <1>3, StakesRequired, HonestSigner
<1>5. u \notin deposits
  BY NetworkInputs, StakesRequired DEF NetworkInv, NetworkTypeOK
<1> DEFINE e == [nonce |-> update_nonce', approved |-> u.nonce,
                 route |-> <<u.target_chain_id, u.token_id>>,
                 total_limit |-> u.total_limit]
<1>6. limit_events' = Append(limit_events, e)
  BY <1>2 DEF AddOrUpdateLimiterWithSignatures
<1>7. e.route = <<u.target_chain_id, u.token_id>> /\ e.total_limit = u.total_limit
  OBVIOUS
<1>8. limit_events \in Seq(LimitEvents)
  BY DEF NetworkInv, BridgeInv, TypeOK
<1> HIDE DEF e
<1>9. limit_events'[Len(limit_events')] = e
  BY <1>6, <1>8
<1> QED BY <1>3, <1>4, <1>5, <1>7, <1>9

(* Limits are the committee's: the update applied is the one it decided    *)
(* under that number, whatever else was signed and relayed.                *)
THEOREM OnlyDecidedLimitsApply == NetworkSpec => LimitsAreDecided
<1>1. NetworkInv /\ [NetworkNext]_networkVars
        => [/\ StakeOfMembers(dishonest) < BRIDGE_LIMIT_STAKE_REQUIRED
            /\ limit_events' # limit_events
            => \E u \in Range(decided) :
                 /\ u.nonce = update_nonce
                 /\ limit_events'[Len(limit_events')].route
                      = <<u.target_chain_id, u.token_id>>
                 /\ limit_events'[Len(limit_events')].total_limit
                      = u.total_limit]_networkVars
  BY NoForgedLimit
<1> QED BY <1>1, NetworkInvariant, PTL DEF NetworkSpec, LimitsAreDecided

-----------------------------------------------------------------------------
(* The sums of CustodyCoversSupply, and the deposits not minted yet.       *)
Circulating == SumFunction(sbtc_supply)

Unpaid ==
  SumFunction([i \in DOMAIN withdraw_events \ released |-> withdraw_events[i].amount])

Locked == SumFunction(custody)

ForgedTotal == SumFunction([i \in Forged |-> mint_events[i].amount])

Unminted == {d \in deposits : \A i \in DOMAIN mint_events : ~Asks(d, mint_events[i])}

Awaited == SumFunction([d \in Unminted |-> d.amount])

(* The strengthening of CustodyCoversSupply that steps keep: what is       *)
(* locked for deposits still to be minted is not yet in circulation.       *)
CustodyCoversDeposits ==
  Circulating + Unpaid + Awaited <= Locked + ForgedTotal

(* The domains of the sums are finite and their terms natural.             *)
LEMMA SumsFinite ==
  ASSUME NetworkInv
  PROVE  /\ IsFiniteSet(ChainIds) /\ sbtc_supply \in [ChainIds -> Nat]
         /\ IsFiniteSet(Routes) /\ custody \in [Routes -> Nat]
         /\ IsFiniteSet(DOMAIN withdraw_events)
         /\ \A i \in DOMAIN withdraw_events : withdraw_events[i].amount \in Nat
         /\ IsFiniteSet(DOMAIN mint_events)
         /\ \A i \in DOMAIN mint_events : mint_events[i].amount \in Nat
         /\ IsFiniteSet(deposits)
         /\ \A d \in deposits : d.amount \in Nat
<1>1. TypeOK /\ NetworkTypeOK
  BY DEF NetworkInv, BridgeInv
<1>2. IsFiniteSet(Routes) /\ IsFiniteSet(ChainIds)
  BY ConfigAssumption, FS_Product DEF Routes
<1>3. sbtc_supply \in [ChainIds -> Nat]
  BY <1>1, BridgeAssumption DEF TypeOK
<1>4. /\ IsFiniteSet(DOMAIN withdraw_events)
      /\ \A i \in DOMAIN withdraw_events : withdraw_events[i].amount \in Nat
  <2>1. /\ DOMAIN withdraw_events = 1 .. Len(withdraw_events)
        /\ Len(withdraw_events) \in Nat
        /\ \A i \in DOMAIN withdraw_events : withdraw_events[i] \in WithdrawEvents
    BY <1>1 DEF TypeOK
  <2>2. IsFiniteSet(DOMAIN withdraw_events)
    BY <2>1, FS_Interval
  <2>3. \A e \in WithdrawEvents : e.amount \in Nat
    BY DEF WithdrawEvents
  <2> QED BY <2>1, <2>2, <2>3
<1>5. /\ IsFiniteSet(DOMAIN mint_events)
      /\ \A i \in DOMAIN mint_events : mint_events[i].amount \in Nat
  <2>1. /\ DOMAIN mint_events = 1 .. Len(mint_events)
        /\ Len(mint_events) \in Nat
        /\ \A i \in DOMAIN mint_events : mint_events[i] \in MintEvents
    BY <1>1 DEF TypeOK
  <2> QED BY <2>1, FS_Interval DEF MintEvents
<1>6. \A d \in deposits : d.amount \in Nat
  BY <1>1, NetworkInputs DEF NetworkTypeOK
<1> QED BY <1>1, <1>2, <1>3, <1>4, <1>5, <1>6 DEF NetworkTypeOK, NetworkInv

(* So the sums are naturals.                                               *)
LEMMA SumsNatural ==
  ASSUME NetworkInv
  PROVE  /\ Circulating \in Nat /\ Unpaid \in Nat /\ Locked \in Nat
         /\ ForgedTotal \in Nat /\ Awaited \in Nat
<1>1. Circulating \in Nat /\ Locked \in Nat
  BY SumsFinite, SumType DEF Circulating, Locked
<1>2. Unpaid \in Nat
  <2> DEFINE f == [i \in DOMAIN withdraw_events \ released |-> withdraw_events[i].amount]
  <2>1. IsFiniteSet(DOMAIN f)
    BY SumsFinite, FS_Subset
  <2>2. \A i \in DOMAIN f : f[i] \in Nat
    BY SumsFinite
  <2> HIDE DEF f
  <2>3. SumFunction(f) \in Nat
    BY <2>1, <2>2, SumType
  <2> QED BY <2>3 DEF f, Unpaid
<1>3. ForgedTotal \in Nat
  <2> DEFINE f == [i \in Forged |-> mint_events[i].amount]
  <2>1. IsFiniteSet(DOMAIN f)
    BY SumsFinite, FS_Subset DEF Forged
  <2>2. \A i \in DOMAIN f : f[i] \in Nat
    BY SumsFinite DEF Forged
  <2> HIDE DEF f
  <2>3. SumFunction(f) \in Nat
    BY <2>1, <2>2, SumType
  <2> QED BY <2>3 DEF f, ForgedTotal
<1>4. Awaited \in Nat
  <2> DEFINE f == [d \in Unminted |-> d.amount]
  <2>1. IsFiniteSet(DOMAIN f)
    BY SumsFinite, FS_Subset DEF Unminted
  <2>2. \A i \in DOMAIN f : f[i] \in Nat
    BY SumsFinite DEF Unminted
  <2> HIDE DEF f
  <2>3. SumFunction(f) \in Nat
    BY <2>1, <2>2, SumType
  <2> QED BY <2>3 DEF f, Awaited
<1> QED BY <1>1, <1>2, <1>3, <1>4

SumsInNat ==
  /\ Circulating \in Nat /\ Unpaid \in Nat /\ Locked \in Nat
  /\ ForgedTotal \in Nat /\ Awaited \in Nat

(* After a step as well.                                                   *)
LEMMA SumsNaturalNext == NetworkInv' => SumsInNat'
<1>1. NetworkInv => SumsInNat
  BY SumsNatural DEF SumsInNat
<1> QED BY <1>1, PTL

(* A deposit adds to what is locked; it is awaited unless it was minted    *)
(* ahead of time, and then that mint is forged no longer.                  *)
LEMMA DepositCovered ==
  ASSUME NetworkInv, NetworkInv', CustodyCoversDeposits,
         NEW d \in DepositMessages, Deposit(d)
  PROVE  CustodyCoversDeposits'
<1>1. /\ deposits' = deposits \cup {d}
      /\ custody' = [custody EXCEPT ![RouteOf(d)] = @ + d.amount]
      /\ UNCHANGED <<sbtc_supply, mint_events, withdraw_events, released>>
  BY DEF Deposit, bridgeVars, vars, tokenVars, eventVars
<1>2. RouteOf(d) \in Routes /\ d.amount \in Nat
  BY NetworkInputs
<1>3. /\ Circulating \in Nat /\ Unpaid \in Nat /\ Locked \in Nat
      /\ ForgedTotal \in Nat /\ Awaited \in Nat
      /\ ForgedTotal' \in Nat /\ Awaited' \in Nat
  BY SumsNatural, SumsNaturalNext DEF SumsInNat
<1>4. Circulating' = Circulating /\ Unpaid' = Unpaid
  BY <1>1 DEF Circulating, Unpaid
<1>5. Locked' = Locked + d.amount
  <2> DEFINE v == custody[RouteOf(d)] + d.amount
  <2>1. /\ custody \in [Routes -> Nat] /\ IsFiniteSet(Routes)
        /\ v \in Nat /\ custody[RouteOf(d)] \in Nat
    BY <1>2, SumsFinite
  <2>2. custody' = [custody EXCEPT ![RouteOf(d)] = v]
    BY <1>1
  <2>3. v = custody[RouteOf(d)] + d.amount
    OBVIOUS
  <2> HIDE DEF v
  <2>4. /\ SumFunction(custody) \in Nat
        /\ SumFunction(custody') = SumFunction(custody) - custody[RouteOf(d)] + v
    BY <1>2, <2>1, <2>2, SumExcept
  <2> QED BY <1>2, <2>1, <2>3, <2>4 DEF Locked
<1>6. Awaited' - ForgedTotal' <= Awaited - ForgedTotal + d.amount
  <2>1. CASE d \in deposits
    <3>1. deposits' = deposits
      BY <1>1, <2>1
    <3>2. Forged' = Forged /\ Unminted' = Unminted
      BY <1>1, <3>1 DEF Forged, Unminted
    <3>3. ForgedTotal' = ForgedTotal /\ Awaited' = Awaited
      BY <1>1, <3>2 DEF ForgedTotal, Awaited
    <3> QED BY <1>2, <1>3, <3>3
  <2>2. CASE d \notin deposits /\ \A i \in DOMAIN mint_events : ~Asks(d, mint_events[i])
    <3>1. Forged' = Forged
      BY <1>1, <2>2 DEF Forged
    <3>2. Unminted' = Unminted \cup {d} /\ d \notin Unminted
      BY <1>1, <2>2 DEF Unminted
    <3>3. ForgedTotal' = ForgedTotal
      BY <1>1, <3>1 DEF ForgedTotal
    <3> DEFINE f == [c \in Unminted |-> c.amount]
               g == [c \in Unminted' |-> c.amount]
    <3>4. /\ d \notin DOMAIN f /\ DOMAIN g = DOMAIN f \cup {d} /\ g[d] = d.amount
          /\ \A c \in DOMAIN f : g[c] = f[c]
      BY <3>2
    <3>5. IsFiniteSet(DOMAIN f) /\ \A c \in DOMAIN g : g[c] \in Nat
      <4>1. IsFiniteSet(Unminted)
        BY SumsFinite, FS_Subset DEF Unminted
      <4>2. \A c \in Unminted : c.amount \in Nat
        BY SumsFinite DEF Unminted
      <4> QED BY <1>2, <3>2, <4>1, <4>2
    <3> HIDE DEF f, g
    <3>6. SumFunction(g) = SumFunction(f) + d.amount
      BY <3>4, <3>5, SumExtend
    <3>7. Awaited' = Awaited + d.amount
      BY <3>6 DEF Awaited, f, g
    <3> QED BY <1>2, <1>3, <3>3, <3>7
  <2>3. ASSUME NEW i \in DOMAIN mint_events, d \notin deposits, Asks(d, mint_events[i])
        PROVE  Awaited' - ForgedTotal' <= Awaited - ForgedTotal + d.amount
    <3>1. Unminted' = Unminted
      BY <1>1, <2>3 DEF Unminted
    <3>2. Awaited' = Awaited
      BY <3>1 DEF Awaited
    <3>3. mint_events[i].amount = d.amount
      BY <2>3 DEF Asks
    <3>4. \A j \in DOMAIN mint_events : Asks(d, mint_events[j]) => j = i
      <4>1. MintedOncePerNonce
        BY DEF NetworkInv, BridgeInv
      <4> QED BY <2>3, <4>1 DEF Asks, MintedOncePerNonce
    <3>5. Forged' = Forged \ {i}
      BY <1>1, <2>3, <3>4 DEF Forged
    <3>6. ForgedTotal <= ForgedTotal' + d.amount
      <4>1. CASE i \notin Forged
        <5>1. ForgedTotal' = ForgedTotal
          BY <1>1, <3>5, <4>1 DEF ForgedTotal
        <5> QED BY <1>2, <1>3, <5>1
      <4>2. CASE i \in Forged
        <5> DEFINE f == [j \in Forged' |-> mint_events[j].amount]
                   g == [j \in Forged |-> mint_events[j].amount]
        <5>1. /\ i \notin DOMAIN f /\ DOMAIN g = DOMAIN f \cup {i}
              /\ g[i] = d.amount
              /\ \A j \in DOMAIN f : g[j] = f[j]
          BY <3>3, <3>5, <4>2
        <5>2. IsFiniteSet(DOMAIN f) /\ \A j \in DOMAIN g : g[j] \in Nat
          <6>1. IsFiniteSet(Forged')
            BY <3>5, SumsFinite, FS_Subset DEF Forged
          <6>2. \A j \in Forged : mint_events[j].amount \in Nat
            BY SumsFinite DEF Forged
          <6> QED BY <6>1, <6>2
        <5> HIDE DEF f, g
        <5>3. SumFunction(g) = SumFunction(f) + d.amount
          BY <5>1, <5>2, SumExtend
        <5>4. ForgedTotal = SumFunction(g) /\ ForgedTotal' = SumFunction(f)
          BY <1>1 DEF ForgedTotal, f, g
        <5> QED BY <1>2, <1>3, <5>3, <5>4
      <4> QED BY <4>1, <4>2
    <3> QED BY <1>2, <1>3, <3>2, <3>6
  <2> QED BY <2>1, <2>2, <2>3
<1> QED BY <1>2, <1>3, <1>4, <1>5, <1>6 DEF CustodyCoversDeposits

(* A payment takes from what is locked what was unpaid.                    *)
LEMMA ReleaseCovered ==
  ASSUME NetworkInv, NetworkInv', CustodyCoversDeposits,
         NEW i \in DOMAIN withdraw_events, Release(i)
  PROVE  CustodyCoversDeposits'
<1> DEFINE a == withdraw_events[i].amount
           r == withdraw_events[i].route
<1>1. /\ i \notin released
      /\ released' = released \cup {i}
      /\ a <= custody[r]
      /\ custody' = [custody EXCEPT ![r] = @ - a]
      /\ UNCHANGED <<sbtc_supply, mint_events, withdraw_events, deposits>>
  BY DEF Release, bridgeVars, vars, tokenVars, eventVars
<1>2. r \in Routes /\ a \in Nat
  <2>1. withdraw_events[i] \in WithdrawEvents
    BY DEF NetworkInv, BridgeInv, TypeOK
  <2> QED BY <2>1 DEF WithdrawEvents
<1>3. /\ Circulating \in Nat /\ Unpaid \in Nat /\ Locked \in Nat
      /\ ForgedTotal \in Nat /\ Awaited \in Nat /\ Unpaid' \in Nat
  BY SumsNatural, SumsNaturalNext DEF SumsInNat
<1>4. Circulating' = Circulating /\ Awaited' = Awaited /\ ForgedTotal' = ForgedTotal
  <2>1. Unminted' = Unminted /\ Forged' = Forged
    BY <1>1 DEF Unminted, Forged
  <2> QED BY <1>1, <2>1 DEF Circulating, Awaited, ForgedTotal
<1> HIDE DEF a, r
<1>5. Locked' = Locked - a
  <2> DEFINE v == custody[r] - a
  <2>1. /\ custody \in [Routes -> Nat] /\ IsFiniteSet(Routes)
        /\ custody[r] \in Nat
    BY <1>2, SumsFinite
  <2>2. v \in Nat /\ v = custody[r] - a
    BY <1>1, <1>2, <2>1
  <2>3. custody' = [custody EXCEPT ![r] = v]
    BY <1>1
  <2> HIDE DEF v
  <2>4. /\ SumFunction(custody) \in Nat
        /\ SumFunction(custody') = SumFunction(custody) - custody[r] + v
    BY <1>2, <2>1, <2>2, <2>3, SumExcept
  <2> QED BY <1>2, <2>1, <2>2, <2>4 DEF Locked
<1>6. Unpaid = Unpaid' + a
  <2> DEFINE f == [j \in DOMAIN withdraw_events' \ released' |-> withdraw_events'[j].amount]
             g == [j \in DOMAIN withdraw_events \ released |-> withdraw_events[j].amount]
  <2>1. /\ i \notin DOMAIN f /\ DOMAIN g = DOMAIN f \cup {i} /\ g[i] = a
        /\ \A j \in DOMAIN f : g[j] = f[j]
    BY <1>1 DEF a
  <2>2. IsFiniteSet(DOMAIN f) /\ \A j \in DOMAIN g : g[j] \in Nat
    <3>1. IsFiniteSet(DOMAIN withdraw_events \ released')
      BY SumsFinite, FS_Subset
    <3>2. \A j \in DOMAIN withdraw_events : withdraw_events[j].amount \in Nat
      BY SumsFinite
    <3> QED BY <1>1, <3>1, <3>2
  <2> HIDE DEF f, g
  <2>3. SumFunction(g) = SumFunction(f) + a
    BY <2>1, <2>2, SumExtend
  <2> QED BY <2>3 DEF Unpaid, f, g
<1>7. Circulating + Unpaid + Awaited <= Locked + ForgedTotal
  BY DEF CustodyCoversDeposits
<1>8. a \in Nat
  BY <1>2
<1>9. Circulating + Unpaid' + Awaited <= Locked - a + ForgedTotal
  <2>1. \A c, u, v, w, l, g, x \in Nat :
          u = v + x /\ c + u + w <= l + g => c + v + w <= l - x + g
    OBVIOUS
  <2> QED BY Zenon, <1>3, <1>6, <1>7, <1>8, <2>1
<1> QED BY <1>4, <1>5, <1>9 DEF CustodyCoversDeposits

(* A mint puts into circulation what was awaited, or what is forged.       *)
LEMMA MintCovered ==
  ASSUME NetworkInv, NetworkInv', CustodyCoversDeposits,
         NEW d \in DepositMessages, RelayMint(d)
  PROVE  CustodyCoversDeposits'
<1> DEFINE n == Len(mint_events)
           a == d.amount
           b == d.to_chain_id
<1>1. PICK submitter \in Submitters, sigs \in AvailableLists(d) :
        MintSbtcWithSignatures(submitter, sigs, d)
  BY DEF RelayMint
<1>2. /\ sbtc_supply' = [sbtc_supply EXCEPT ![b] = @ + a]
      /\ UNCHANGED <<deposits, custody, released, withdraw_events>>
  BY <1>1 DEF RelayMint, sourceVars, MintSbtcWithSignatures
<1>3. /\ n \in Nat
      /\ DOMAIN mint_events = 1 .. n /\ DOMAIN mint_events' = 1 .. n + 1
      /\ \A i \in 1 .. n : mint_events'[i] = mint_events[i]
      /\ Asks(d, mint_events'[n + 1])
  BY <1>1, NetworkInputs, MintEventAsked DEF NetworkInv
<1>4. b \in ChainIds /\ a \in Nat /\ mint_events'[n + 1].amount = a
  BY <1>3, NetworkInputs, MintMessageType DEF Asks
<1>5. /\ Circulating \in Nat /\ Unpaid \in Nat /\ Locked \in Nat
      /\ ForgedTotal \in Nat /\ Awaited \in Nat
      /\ ForgedTotal' \in Nat /\ Awaited' \in Nat
  BY SumsNatural, SumsNaturalNext DEF SumsInNat
<1>6. Unpaid' = Unpaid /\ Locked' = Locked
  BY <1>2 DEF Unpaid, Locked
<1> HIDE DEF n, a, b
<1>7. Circulating' = Circulating + a
  <2> DEFINE v == sbtc_supply[b] + a
  <2>1. /\ sbtc_supply \in [ChainIds -> Nat] /\ IsFiniteSet(ChainIds)
        /\ sbtc_supply[b] \in Nat
    BY <1>4, SumsFinite
  <2>2. v \in Nat /\ v = sbtc_supply[b] + a
    BY <1>4, <2>1
  <2>3. sbtc_supply' = [sbtc_supply EXCEPT ![b] = v]
    BY <1>2
  <2> HIDE DEF v
  <2>4. /\ SumFunction(sbtc_supply) \in Nat
        /\ SumFunction(sbtc_supply') = SumFunction(sbtc_supply) - sbtc_supply[b] + v
    BY <1>4, <2>1, <2>2, <2>3, SumExcept
  <2> QED BY <1>4, <2>1, <2>2, <2>4 DEF Circulating
<1>8. \A i \in 1 .. n + 1 : i \in 1 .. n \/ i = n + 1
  BY <1>3
<1>9. n + 1 \notin 1 .. n /\ n + 1 \in 1 .. n + 1 /\ 1 .. n \subseteq 1 .. n + 1
  BY <1>3
<1>10. Awaited' - ForgedTotal' <= Awaited - ForgedTotal - a
  <2>1. ASSUME NEW c \in deposits, Asks(c, mint_events'[n + 1])
        PROVE  Awaited' - ForgedTotal' <= Awaited - ForgedTotal - a
    <3>1. Forged' = Forged
      BY <1>2, <1>3, <1>8, <1>9, <2>1 DEF Forged
    <3>2. ForgedTotal' = ForgedTotal
      <4>1. \A i \in Forged : mint_events'[i] = mint_events[i]
        BY <1>3 DEF Forged
      <4> QED BY <3>1, <4>1 DEF ForgedTotal
    <3>3. c \in Unminted
      <4> SUFFICES ASSUME NEW i \in 1 .. n, Asks(c, mint_events[i]) PROVE FALSE
        BY <1>3 DEF Unminted
      <4>1. MintedOncePerNonce'
        BY DEF NetworkInv, BridgeInv
      <4>2. i \in DOMAIN mint_events' /\ n + 1 \in DOMAIN mint_events'
        BY <1>3, <1>9
      <4>3. /\ mint_events'[i].route[1] = mint_events'[n + 1].route[1]
            /\ mint_events'[i].nonce = mint_events'[n + 1].nonce
        BY <1>3, <2>1 DEF Asks
      <4>4. i = n + 1
        BY <4>1, <4>2, <4>3 DEF MintedOncePerNonce
      <4> QED BY <1>9, <4>4
    <3>4. Unminted' \subseteq Unminted \ {c}
      BY <1>2, <1>3, <1>9, <2>1 DEF Unminted
    <3>5. c.amount = a
      BY <1>4, <2>1 DEF Asks
    <3> DEFINE f == [e \in Unminted' |-> e.amount]
               g == [e \in Unminted \ {c} |-> e.amount]
               h == [e \in Unminted |-> e.amount]
    <3>6. /\ IsFiniteSet(Unminted) /\ IsFiniteSet(Unminted \ {c})
          /\ \A e \in Unminted : e.amount \in Nat
      <4>1. IsFiniteSet(Unminted)
        BY SumsFinite, FS_Subset DEF Unminted
      <4>2. \A e \in Unminted : e.amount \in Nat
        BY SumsFinite DEF Unminted
      <4> QED BY <4>1, <4>2, FS_RemoveElement
    <3>7. SumFunction(f) <= SumFunction(g)
      <4>1. DOMAIN f \subseteq DOMAIN g /\ IsFiniteSet(DOMAIN g)
        BY <3>4, <3>6
      <4>2. \A e \in DOMAIN f : f[e] \in Nat /\ f[e] <= g[e]
        BY <3>4, <3>6
      <4>3. \A e \in DOMAIN g : g[e] \in Nat
        BY <3>6
      <4> HIDE DEF f, g
      <4> QED BY <4>1, <4>2, <4>3, SumMonotone
    <3>8. SumFunction(h) = SumFunction(g) + a /\ SumFunction(g) \in Nat
      <4>1. /\ c \notin DOMAIN g /\ DOMAIN h = DOMAIN g \cup {c}
            /\ h[c] = a /\ \A e \in DOMAIN g : h[e] = g[e]
        BY <3>3, <3>5
      <4>2. /\ IsFiniteSet(DOMAIN g) /\ \A e \in DOMAIN h : h[e] \in Nat
            /\ \A e \in DOMAIN g : g[e] \in Nat
        BY <3>6
      <4> HIDE DEF g, h
      <4> QED BY <4>1, <4>2, SumExtend, SumType
    <3>9. Awaited' = SumFunction(f) /\ Awaited = SumFunction(h)
      BY DEF Awaited
    <3> HIDE DEF f, g, h
    <3> QED BY <1>4, <1>5, <3>2, <3>7, <3>8, <3>9
  <2>2. CASE \A c \in deposits : ~Asks(c, mint_events'[n + 1])
    <3>1. Unminted' = Unminted
      BY <1>2, <1>3, <1>8, <1>9, <2>2 DEF Unminted
    <3>2. Awaited' = Awaited
      BY <3>1 DEF Awaited
    <3>3. Forged' = Forged \cup {n + 1} /\ n + 1 \notin Forged
      BY <1>2, <1>3, <1>8, <1>9, <2>2 DEF Forged
    <3> DEFINE f == [i \in Forged |-> mint_events[i].amount]
               g == [i \in Forged' |-> mint_events'[i].amount]
    <3>4. /\ n + 1 \notin DOMAIN f /\ DOMAIN g = DOMAIN f \cup {n + 1}
          /\ g[n + 1] = a
          /\ \A i \in DOMAIN f : g[i] = f[i]
      <4>1. \A i \in Forged : mint_events'[i] = mint_events[i]
        BY <1>3 DEF Forged
      <4> QED BY <1>4, <3>3, <4>1
    <3>5. IsFiniteSet(DOMAIN f) /\ \A i \in DOMAIN g : g[i] \in Nat
      <4>1. IsFiniteSet(Forged)
        BY SumsFinite, FS_Subset DEF Forged
      <4>2. \A i \in Forged : f[i] \in Nat
        BY SumsFinite DEF Forged
      <4> QED BY <1>4, <3>3, <3>4, <4>1, <4>2
    <3> HIDE DEF f, g
    <3>6. SumFunction(g) = SumFunction(f) + a
      BY <3>4, <3>5, SumExtend
    <3>7. ForgedTotal' = ForgedTotal + a
      BY <3>6 DEF ForgedTotal, f, g
    <3> QED BY <1>4, <1>5, <3>2, <3>7
  <2> QED BY <2>1, <2>2
<1>11. Circulating + Unpaid + Awaited <= Locked + ForgedTotal
  BY DEF CustodyCoversDeposits
<1>12. a \in Nat
  BY <1>4
<1>13. Circulating + a + Unpaid + Awaited' <= Locked + ForgedTotal'
  <2>1. \A c, u, v, w, l, f, g, x \in Nat :
          /\ v - g <= w - f - x
          /\ c + u + w <= l + f
          => c + x + u + v <= l + g
    OBVIOUS
  <2> QED BY Zenon, <1>5, <1>10, <1>11, <1>12, <2>1
<1> QED BY <1>6, <1>7, <1>13 DEF CustodyCoversDeposits

(* What a withdrawal takes from the supply is what it announces.           *)
LEMMA WithdrawEffect ==
  ASSUME TypeOK, NEW user, NEW msg \in WithdrawMessages, WithdrawBtc(user, msg)
  PROVE  \E a \in Nat :
           /\ a <= sbtc_supply[msg.chain_id]
           /\ sbtc_supply' = [sbtc_supply EXCEPT ![msg.chain_id] = @ - a]
           /\ DOMAIN withdraw_events' = DOMAIN withdraw_events \cup {Len(withdraw_events) + 1}
           /\ Len(withdraw_events) + 1 \notin DOMAIN withdraw_events
           /\ \A i \in DOMAIN withdraw_events : withdraw_events'[i] = withdraw_events[i]
           /\ withdraw_events'[Len(withdraw_events) + 1].amount = a
<1> DEFINE r == <<msg.to_chain_id, msg.to_token_id>>
           fee == Fee(msg.amount, token_config[r].token_fee_percentage)
           a == msg.amount - fee
           n == Len(withdraw_events)
           e == [nonce |-> withdraw_nonce', route |-> r, chain_id |-> msg.chain_id,
                 from_address |-> user, amount |-> a,
                 original_amount |-> msg.amount,
                 chain_mint_total |->
                   supported_chain_config[msg.to_chain_id].mint_total - msg.amount,
                 token_mint_total |-> token_config[r].mint_total - msg.amount]
<1>1. /\ a <= sbtc_supply[msg.chain_id]
      /\ sbtc_supply' = [sbtc_supply EXCEPT ![msg.chain_id] = @ - a]
      /\ withdraw_events' = Append(withdraw_events, e)
  BY DEF WithdrawBtc, Released
<1>2. e.amount = a
  OBVIOUS
<1>3. a \in Nat
  <2>1. r \in Routes /\ msg.amount \in Nat
    BY WithdrawMessageType
  <2>2. token_config[r].token_fee_percentage \in 0 .. FEE_DENOMINATOR - 1
    BY <2>1 DEF TypeOK, ConfigTypeOK, TokenConfigs
  <2>3. fee \in 0 .. msg.amount
    BY <2>1, <2>2, FeeBelowAmount
  <2> HIDE DEF fee
  <2> QED BY <2>1, <2>3
<1>4. withdraw_events \in Seq(WithdrawEvents)
  BY DEF TypeOK
<1> HIDE DEF e, a
<1>5. /\ DOMAIN withdraw_events' = DOMAIN withdraw_events \cup {n + 1}
      /\ n + 1 \notin DOMAIN withdraw_events
      /\ \A i \in DOMAIN withdraw_events : withdraw_events'[i] = withdraw_events[i]
      /\ withdraw_events'[n + 1] = e
  BY <1>1, <1>4
<1> QED BY <1>1, <1>2, <1>3, <1>5

(* Taking an amount from one supply takes it from their sum.               *)
LEMMA SupplyTaken ==
  ASSUME NetworkInv, NEW b \in ChainIds, NEW a \in Nat, a <= sbtc_supply[b],
         sbtc_supply' = [sbtc_supply EXCEPT ![b] = @ - a]
  PROVE  Circulating' = Circulating - a
<1> DEFINE v == sbtc_supply[b] - a
<1>1. /\ sbtc_supply \in [ChainIds -> Nat] /\ IsFiniteSet(ChainIds)
      /\ sbtc_supply[b] \in Nat
  BY SumsFinite
<1>2. v \in Nat /\ v = sbtc_supply[b] - a
  BY <1>1
<1>3. sbtc_supply' = [sbtc_supply EXCEPT ![b] = v]
  OBVIOUS
<1> HIDE DEF v
<1>4. /\ SumFunction(sbtc_supply) \in Nat
      /\ SumFunction([sbtc_supply EXCEPT ![b] = v])
           = SumFunction(sbtc_supply) - sbtc_supply[b] + v
  <2>1. v \in Nat
    BY <1>2
  <2> QED BY Zenon, <1>1, <2>1, SumExcept
<1> QED BY <1>1, <1>2, <1>3, <1>4 DEF Circulating

(* A withdrawal moves an amount from circulation to what is unpaid.        *)
LEMMA WithdrawCovered ==
  ASSUME NetworkInv, NetworkInv', CustodyCoversDeposits,
         UNCHANGED <<sourceVars, validatorVars>>,
         NEW user, NEW msg \in WithdrawMessages, WithdrawBtc(user, msg)
  PROVE  CustodyCoversDeposits'
<1>1. PICK a \in Nat :
        /\ a <= sbtc_supply[msg.chain_id]
        /\ sbtc_supply' = [sbtc_supply EXCEPT ![msg.chain_id] = @ - a]
        /\ DOMAIN withdraw_events' = DOMAIN withdraw_events \cup {Len(withdraw_events) + 1}
        /\ Len(withdraw_events) + 1 \notin DOMAIN withdraw_events
        /\ \A i \in DOMAIN withdraw_events : withdraw_events'[i] = withdraw_events[i]
        /\ withdraw_events'[Len(withdraw_events) + 1].amount = a
  BY WithdrawEffect DEF NetworkInv, BridgeInv
<1> DEFINE b == msg.chain_id
           n == Len(withdraw_events)
<1>2. b \in ChainIds
  BY WithdrawMessageType
<1>3. UNCHANGED <<mint_events, deposits, custody, released>>
  BY DEF WithdrawBtc, sourceVars
<1>4. /\ Circulating \in Nat /\ Unpaid \in Nat /\ Locked \in Nat
      /\ ForgedTotal \in Nat /\ Awaited \in Nat
  BY SumsNatural
<1>5. Locked' = Locked /\ ForgedTotal' = ForgedTotal /\ Awaited' = Awaited
  <2>1. Unminted' = Unminted /\ Forged' = Forged
    BY <1>3 DEF Unminted, Forged
  <2> QED BY <1>3, <2>1 DEF Locked, Awaited, ForgedTotal
<1>6. Circulating' = Circulating - a
  BY <1>1, <1>2, SupplyTaken
<1> HIDE DEF b, n
<1>7. Unpaid' = Unpaid + a
  <2> DEFINE f == [j \in DOMAIN withdraw_events \ released |-> withdraw_events[j].amount]
             g == [j \in DOMAIN withdraw_events' \ released' |-> withdraw_events'[j].amount]
  <2>1. released \subseteq DOMAIN withdraw_events
    BY DEF NetworkInv, NetworkTypeOK
  <2>2. /\ n + 1 \notin DOMAIN f /\ DOMAIN g = DOMAIN f \cup {n + 1}
        /\ g[n + 1] = a
        /\ \A j \in DOMAIN f : g[j] = f[j]
    BY <1>1, <1>3, <2>1 DEF n
  <2>3. IsFiniteSet(DOMAIN f) /\ \A j \in DOMAIN g : g[j] \in Nat
    <3>1. IsFiniteSet(DOMAIN f)
      BY SumsFinite, FS_Subset
    <3>2. \A j \in DOMAIN f : f[j] \in Nat
      BY SumsFinite
    <3> QED BY <2>2, <3>1, <3>2
  <2> HIDE DEF f, g
  <2>4. SumFunction(g) = SumFunction(f) + a
    BY <2>2, <2>3, SumExtend
  <2> QED BY <2>4 DEF Unpaid, f, g
<1> QED BY <1>4, <1>5, <1>6, <1>7 DEF CustodyCoversDeposits

(* A burn takes from circulation.                                          *)
LEMMA BurnCovered ==
  ASSUME NetworkInv, NetworkInv', CustodyCoversDeposits,
         UNCHANGED <<sourceVars, validatorVars>>,
         NEW b \in ChainIds, NEW from \in Users, NEW amount \in Amounts,
         SplBurn(b, from, amount)
  PROVE  CustodyCoversDeposits'
<1>1. amount \in Nat
  BY BridgeAssumption
<1>2. /\ amount <= sbtc_supply[b]
      /\ sbtc_supply' = [sbtc_supply EXCEPT ![b] = @ - amount]
      /\ UNCHANGED <<mint_events, withdraw_events, deposits, custody, released>>
  BY DEF SplBurn, eventVars, sourceVars
<1>3. /\ Circulating \in Nat /\ Unpaid \in Nat /\ Locked \in Nat
      /\ ForgedTotal \in Nat /\ Awaited \in Nat
  BY SumsNatural
<1>4. /\ Locked' = Locked /\ ForgedTotal' = ForgedTotal /\ Awaited' = Awaited
      /\ Unpaid' = Unpaid
  <2>1. Unminted' = Unminted /\ Forged' = Forged
    BY <1>2 DEF Unminted, Forged
  <2> QED BY <1>2, <2>1 DEF Locked, Awaited, ForgedTotal, Unpaid
<1>5. Circulating' = Circulating - amount
  BY <1>1, <1>2, SupplyTaken
<1> QED BY <1>1, <1>3, <1>4, <1>5 DEF CustodyCoversDeposits

(* Every step keeps deposits, circulation and unpaid withdrawals covered.  *)
LEMMA CoveredStep ==
  ASSUME NetworkInv, CustodyCoversDeposits, [NetworkNext]_networkVars
  PROVE  CustodyCoversDeposits'
<1>0. NetworkInv'
  BY NetworkInvStep
<1>1. ASSUME UNCHANGED <<sbtc_supply, mint_events, withdraw_events, deposits,
                         custody, released>>
      PROVE  CustodyCoversDeposits'
  <2>1. Unminted' = Unminted /\ Forged' = Forged
    BY <1>1 DEF Unminted, Forged
  <2> QED BY <1>1, <2>1
       DEF CustodyCoversDeposits, Circulating, Locked, Awaited, ForgedTotal, Unpaid
<1>2. ASSUME NEW d \in DepositMessages, Deposit(d) PROVE CustodyCoversDeposits'
  BY <1>0, <1>2, DepositCovered
<1>3. ASSUME NEW i \in DOMAIN withdraw_events, Release(i) PROVE CustodyCoversDeposits'
  BY <1>0, <1>3, ReleaseCovered
<1>4. ASSUME NEW d \in DepositMessages, RelayMint(d) PROVE CustodyCoversDeposits'
  BY <1>0, <1>4, MintCovered
<1>5. CASE UsersNext
  <2>1. UNCHANGED <<sourceVars, validatorVars>>
    BY <1>5 DEF UsersNext
  <2>2. CASE WithdrawNext
    BY <1>0, <2>1, <2>2, WithdrawCovered DEF WithdrawNext
  <2>3. ASSUME NEW b \in ChainIds, NEW from \in Users, NEW amount \in Amounts,
               SplBurn(b, from, amount)
        PROVE  CustodyCoversDeposits'
    BY <1>0, <2>1, <2>3, BurnCovered
  <2>4. CASE AdminNext
    BY <1>1, <2>1, <2>4 DEF AdminNext, tokenVars, eventVars, sourceVars
  <2>5. ASSUME NEW b \in ChainIds, NEW from \in Users, NEW to \in Users,
               NEW amount \in Amounts, SplTransfer(b, from, to, amount)
        PROVE  CustodyCoversDeposits'
    BY <1>1, <2>1, <2>5 DEF SplTransfer, eventVars, sourceVars
  <2> QED BY <1>5, <2>2, <2>3, <2>4, <2>5 DEF UsersNext
<1>6. CASE \/ \E u \in UpdateMessages : Decide(u)
           \/ \E k \in Members, msg \in deposits \cup Range(decided) : Attest(k, msg)
           \/ \E k \in Corruptible : Compromise(k)
           \/ \E u \in UpdateMessages : RelayUpdate(u)
           \/ HourPasses
           \/ UNCHANGED networkVars
  <2>1. UNCHANGED <<sbtc_supply, mint_events, withdraw_events, deposits, custody,
                    released>>
    BY <1>6 DEF Decide, Attest, Compromise, RelayUpdate, HourPasses,
      AddOrUpdateLimiterWithSignatures, bridgeVars, networkVars, vars, tokenVars,
      eventVars, sourceVars
  <2> QED BY <1>1, <2>1
<1> QED BY <1>2, <1>3, <1>4, <1>5, <1>6 DEF NetworkNext

(* In the empty network nothing circulates and nothing is awaited.         *)
LEMMA CoveredInit == NetworkInit => CustodyCoversDeposits
<1> SUFFICES ASSUME NetworkInit PROVE CustodyCoversDeposits
  OBVIOUS
<1>1. NetworkInv
  BY NetworkInvInit
<1>2. Circulating = 0
  <2>1. sbtc_supply = [b \in ChainIds |-> 0]
    BY DEF NetworkInit, Init
  <2> QED BY <1>1, <2>1, SumsFinite, SumOfZeros DEF Circulating
<1>3. \A f : DOMAIN f = {} => SumFunction(f) = 0
  BY SumOfZeros, FS_EmptySet
<1>4. Unpaid = 0
  <2>1. DOMAIN withdraw_events \ released = {}
    BY DEF NetworkInit, Init
  <2> QED BY <1>3, <2>1 DEF Unpaid
<1>5. Awaited = 0
  <2>1. Unminted = {}
    BY DEF NetworkInit, Unminted
  <2> QED BY <1>3, <2>1 DEF Awaited
<1>6. Locked \in Nat /\ ForgedTotal \in Nat
  BY <1>1, SumsNatural
<1> QED BY <1>2, <1>4, <1>5, <1>6 DEF CustodyCoversDeposits

(* The bridge is solvent: for every number of chains, tokens, holders and  *)
(* deposits, and however mints, withdrawals, payments and deposits         *)
(* overtake one another, what the source chains hold covers the sBTC in    *)
(* circulation and the withdrawals still to be paid, forged mints aside.   *)
THEOREM BridgeIsSolvent == NetworkSpec => []CustodyCoversSupply
<1>1. NetworkInv /\ CustodyCoversDeposits => CustodyCoversSupply
  BY SumsNatural
    DEF CustodyCoversDeposits, CustodyCoversSupply, Circulating, Unpaid, Locked, ForgedTotal
<1>2. NetworkInv /\ CustodyCoversDeposits /\ [NetworkNext]_networkVars
        => CustodyCoversDeposits'
  BY CoveredStep
<1> QED BY <1>1, <1>2, CoveredInit, NetworkInvariant, PTL DEF NetworkSpec

-----------------------------------------------------------------------------
(* What is locked on a route was deposited there.                          *)
LockedByDeposits ==
  \A r \in Routes : custody[r] > 0 => \E d \in deposits : RouteOf(d) = r

(* Withdrawals name routes that were minted through.                       *)
WithdrawnWasMinted ==
  \A i \in DOMAIN withdraw_events :
    withdraw_events[i].original_amount > 0 =>
      \E j \in DOMAIN mint_events : mint_events[j].route = withdraw_events[i].route

(* Deposits add to their route and payments only take from it.             *)
LEMMA LockedStep ==
  ASSUME NetworkInv, LockedByDeposits, [NetworkNext]_networkVars
  PROVE  LockedByDeposits'
<1>1. ASSUME NEW d \in DepositMessages, Deposit(d) PROVE LockedByDeposits'
  <2>1. /\ deposits' = deposits \cup {d}
        /\ custody' = [custody EXCEPT ![RouteOf(d)] = @ + d.amount]
    BY <1>1 DEF Deposit
  <2>2. custody \in [Routes -> Nat]
    BY DEF NetworkInv, NetworkTypeOK
  <2>3. ASSUME NEW r \in Routes, custody'[r] > 0, r # RouteOf(d)
        PROVE  \E c \in deposits' : RouteOf(c) = r
    <3>1. custody'[r] = custody[r]
      BY <2>1, <2>2, <2>3
    <3> QED BY <2>1, <2>3, <3>1 DEF LockedByDeposits
  <2>4. \A c : RouteOf(c)' = RouteOf(c)
    BY DEF RouteOf
  <2> QED BY <2>1, <2>3, <2>4 DEF LockedByDeposits
<1>2. ASSUME NEW i \in DOMAIN withdraw_events, Release(i) PROVE LockedByDeposits'
  <2> DEFINE a == withdraw_events[i].amount
             s == withdraw_events[i].route
  <2>1. deposits' = deposits /\ custody' = [custody EXCEPT ![s] = @ - a]
    BY <1>2 DEF Release
  <2>2. custody \in [Routes -> Nat] /\ a \in Nat
    BY SumsFinite
  <2> HIDE DEF a, s
  <2>3. ASSUME NEW r \in Routes, custody'[r] > 0 PROVE custody[r] > 0
    <3>1. CASE r = s
      <4>1. custody'[r] = custody[r] - a /\ custody[r] \in Nat
        BY <2>1, <2>2, <3>1
      <4> QED BY <2>2, <2>3, <4>1
    <3>2. CASE r # s
      BY <2>1, <2>2, <2>3, <3>2
    <3> QED BY <3>1, <3>2
  <2> QED BY <2>1, <2>3 DEF LockedByDeposits, RouteOf
<1>3. CASE UNCHANGED sourceVars
  BY <1>3 DEF LockedByDeposits, RouteOf, sourceVars
<1>4. CASE \/ \E u \in UpdateMessages : Decide(u)
           \/ \E k \in Members, msg \in deposits \cup Range(decided) : Attest(k, msg)
           \/ \E k \in Corruptible : Compromise(k)
           \/ \E d \in DepositMessages : RelayMint(d)
           \/ \E u \in UpdateMessages : RelayUpdate(u)
           \/ UsersNext
           \/ HourPasses
           \/ UNCHANGED networkVars
  <2>1. UNCHANGED sourceVars
    BY <1>4 DEF Decide, Attest, Compromise, RelayMint, RelayUpdate, UsersNext,
                HourPasses, networkVars
  <2> QED BY <1>3, <2>1
<1> QED BY <1>1, <1>2, <1>4 DEF NetworkNext

(* A withdrawal is within what was minted through its route.               *)
LEMMA WithdrawnMinted ==
  ASSUME BridgeInv, WithdrawnWasMinted,
         NEW user, NEW msg \in WithdrawMessages, WithdrawBtc(user, msg)
  PROVE  WithdrawnWasMinted'
<1> DEFINE r == <<msg.to_chain_id, msg.to_token_id>>
           n == Len(withdraw_events)
           fee == Fee(msg.amount, token_config[r].token_fee_percentage)
           e == [nonce |-> withdraw_nonce', route |-> r, chain_id |-> msg.chain_id,
                 from_address |-> user, amount |-> Released(msg.amount, fee),
                 original_amount |-> msg.amount,
                 chain_mint_total |->
                   supported_chain_config[msg.to_chain_id].mint_total - msg.amount,
                 token_mint_total |-> token_config[r].mint_total - msg.amount]
<1>1. /\ msg.amount <= token_config[r].mint_total
      /\ withdraw_events' = Append(withdraw_events, e)
      /\ mint_events' = mint_events
  BY DEF WithdrawBtc, WithdrawAccounts
<1>2. e.route = r /\ e.original_amount = msg.amount
  OBVIOUS
<1>3. r \in Routes /\ msg.amount \in Nat
  BY WithdrawMessageType
<1>4. withdraw_events \in Seq(WithdrawEvents) /\ mint_events \in Seq(MintEvents)
  BY DEF BridgeInv, TypeOK
<1> HIDE DEF e, r
<1>5. /\ DOMAIN withdraw_events' = DOMAIN withdraw_events \cup {n + 1}
      /\ \A i \in DOMAIN withdraw_events : withdraw_events'[i] = withdraw_events[i]
      /\ withdraw_events'[n + 1] = e
  BY <1>1, <1>4
<1>6. ASSUME msg.amount > 0
      PROVE  \E j \in DOMAIN mint_events : mint_events[j].route = r
  <2> SUFFICES ASSUME \A j \in DOMAIN mint_events : mint_events[j].route # r
               PROVE  FALSE
    OBVIOUS
  <2> DEFINE f == [j \in DOMAIN mint_events |->
                     IF mint_events[j].route = r THEN mint_events[j].amount ELSE 0]
  <2>1. DOMAIN f = DOMAIN mint_events /\ \A j \in DOMAIN f : f[j] = 0
    OBVIOUS
  <2>2. IsFiniteSet(DOMAIN mint_events)
    BY <1>4, FS_Interval
  <2>3. token_config[r].mint_total = SumFunction(f)
    BY Zenon, <1>3 DEF BridgeInv, MintTotalsCount, SumEvents
  <2> HIDE DEF f
  <2>4. SumFunction(f) = 0
    BY <2>1, <2>2, SumOfZeros
  <2> QED BY <1>1, <1>3, <1>6, <2>3, <2>4
<1> QED BY <1>1, <1>2, <1>5, <1>6 DEF WithdrawnWasMinted

(* No other step announces a withdrawal, and mints stay in the log.        *)
LEMMA WithdrawnStep ==
  ASSUME NetworkInv, WithdrawnWasMinted, [NetworkNext]_networkVars
  PROVE  WithdrawnWasMinted'
<1>1. CASE UNCHANGED <<mint_events, withdraw_events>>
  BY <1>1 DEF WithdrawnWasMinted
<1>2. ASSUME NEW d \in DepositMessages, RelayMint(d) PROVE WithdrawnWasMinted'
  <2>1. PICK submitter \in Submitters, sigs \in AvailableLists(d) :
          MintSbtcWithSignatures(submitter, sigs, d)
    BY <1>2 DEF RelayMint
  <2> DEFINE n == Len(mint_events)
  <2>2. /\ n \in Nat
        /\ DOMAIN mint_events = 1 .. n /\ DOMAIN mint_events' = 1 .. n + 1
        /\ \A i \in 1 .. n : mint_events'[i] = mint_events[i]
    BY <2>1, NetworkInputs, MintEventAsked DEF NetworkInv
  <2>3. withdraw_events' = withdraw_events
    BY <2>1 DEF MintSbtcWithSignatures
  <2> HIDE DEF n
  <2>4. \A j \in DOMAIN mint_events :
          j \in DOMAIN mint_events' /\ mint_events'[j] = mint_events[j]
    BY <2>2
  <2> QED BY <2>3, <2>4 DEF WithdrawnWasMinted
<1>3. ASSUME NEW user \in Users, NEW msg \in WithdrawMessages, WithdrawBtc(user, msg)
      PROVE  WithdrawnWasMinted'
  BY <1>3, WithdrawnMinted DEF NetworkInv
<1>4. \/ \E d \in DepositMessages : RelayMint(d)
      \/ \E user \in Users, msg \in WithdrawMessages : WithdrawBtc(user, msg)
      \/ UNCHANGED <<mint_events, withdraw_events>>
  BY DEF NetworkNext, Deposit, Release, Decide, Attest, Compromise, RelayUpdate,
         AddOrUpdateLimiterWithSignatures, UsersNext, AdminNext, WithdrawNext,
         SplTransfer, SplBurn, HourPasses, bridgeVars, networkVars, vars, eventVars
<1> QED BY <1>1, <1>2, <1>3, <1>4

(* With every mint asked for, all that is locked is on the route of any    *)
(* withdrawal, and there it covers what is unpaid.                         *)
LEMMA PayableFromOneRoute ==
  ASSUME NetworkInv, CustodyCoversDeposits, LockedByDeposits, WithdrawnWasMinted
  PROVE  WithdrawalsPayable
<1> SUFFICES ASSUME Forged = {},
                    \A c, d \in deposits : RouteOf(c) = RouteOf(d),
                    NEW i \in DOMAIN withdraw_events \ released
             PROVE  /\ \A j \in released : withdraw_events[j].nonce # withdraw_events[i].nonce
                    /\ withdraw_events[i].amount <= custody[withdraw_events[i].route]
  BY DEF WithdrawalsPayable
<1> DEFINE e == withdraw_events[i]
           f == [j \in DOMAIN withdraw_events \ released |-> withdraw_events[j].amount]
<1>1. \A j \in released : withdraw_events[j].nonce # e.nonce
  <2>1. released \subseteq DOMAIN withdraw_events
    BY DEF NetworkInv, NetworkTypeOK
  <2> QED BY <2>1 DEF NetworkInv, BridgeInv, WithdrawalsNumbered
<1>2. /\ custody \in [Routes -> Nat] /\ IsFiniteSet(Routes)
      /\ e.amount \in Nat /\ e.route \in Routes /\ e.original_amount \in Nat
      /\ e.amount <= e.original_amount
  <2>1. e \in WithdrawEvents /\ WithdrawalReleases
    BY DEF NetworkInv, BridgeInv, TypeOK
  <2> QED BY <2>1, SumsFinite DEF WithdrawEvents, WithdrawalReleases
<1>3. e.amount <= Unpaid
  <2>1. DOMAIN f = DOMAIN withdraw_events \ released /\ f[i] = e.amount
    OBVIOUS
  <2>2. IsFiniteSet(DOMAIN f) /\ \A j \in DOMAIN f : f[j] \in Nat
    <3>1. IsFiniteSet(DOMAIN f)
      BY SumsFinite, FS_Subset
    <3>2. \A j \in DOMAIN f : f[j] \in Nat
      BY SumsFinite
    <3> QED BY <3>1, <3>2
  <2>3. Unpaid = SumFunction(f)
    BY DEF Unpaid
  <2> HIDE DEF f, e
  <2>4. f[i] <= SumFunction(f)
    BY <2>1, <2>2, SumAtLeastTerm
  <2> QED BY <2>1, <2>3, <2>4
<1>4. Unpaid <= Locked
  <2>1. ForgedTotal = 0
    <3>1. \A g : DOMAIN g = {} => SumFunction(g) = 0
      BY SumOfZeros, FS_EmptySet
    <3> QED BY <3>1 DEF ForgedTotal
  <2> QED BY <2>1, SumsNatural DEF CustodyCoversDeposits
<1> HIDE DEF f, e
<1>5. ASSUME e.amount > 0 PROVE Locked = custody[e.route]
  <2>1. PICK j \in DOMAIN mint_events : mint_events[j].route = e.route
    BY <1>2, <1>5 DEF WithdrawnWasMinted, e
  <2>2. PICK d \in deposits : RouteOf(d) = e.route
    BY <2>1 DEF Forged, Asks
  <2>3. \A r \in Routes \ {e.route} : custody[r] = 0
    BY <1>2, <2>2 DEF LockedByDeposits
  <2>4. DOMAIN custody = Routes
    BY <1>2
  <2> QED BY <1>2, <2>3, <2>4, SumOneTerm DEF Locked
<1>6. e.amount <= custody[e.route]
  <2>1. custody[e.route] \in Nat /\ Unpaid \in Nat /\ Locked \in Nat
    BY <1>2, SumsNatural
  <2> QED BY <1>2, <1>3, <1>4, <1>5, <2>1
<1> QED BY <1>1, <1>6 DEF e

(* Payments may be made in any order: whatever is deposited, minted, sent, *)
(* withdrawn and paid before, the source chain of an announced withdrawal  *)
(* holds what it takes, as long as every mint was a deposit's and one      *)
(* token takes the deposits.                                               *)
THEOREM EveryWithdrawalPayable == NetworkSpec => []WithdrawalsPayable
<1>1. NetworkInit => LockedByDeposits /\ WithdrawnWasMinted
  BY DEF NetworkInit, Init, LockedByDeposits, WithdrawnWasMinted
<1>2. NetworkInv /\ LockedByDeposits /\ [NetworkNext]_networkVars => LockedByDeposits'
  BY LockedStep
<1>3. NetworkInv /\ WithdrawnWasMinted /\ [NetworkNext]_networkVars => WithdrawnWasMinted'
  BY WithdrawnStep
<1>4. NetworkInv /\ CustodyCoversDeposits /\ [NetworkNext]_networkVars
        => CustodyCoversDeposits'
  BY CoveredStep
<1>5. NetworkInv /\ CustodyCoversDeposits /\ LockedByDeposits /\ WithdrawnWasMinted
        => WithdrawalsPayable
  BY PayableFromOneRoute
<1> QED BY <1>1, <1>2, <1>3, <1>4, <1>5, CoveredInit, NetworkInvariant, PTL
     DEF NetworkSpec

-----------------------------------------------------------------------------
(* All sBTC in circulation or on its way out is locked.                    *)
FullyBacked == Circulating + Unpaid <= Locked

(* While the members that deviate never hold the stake a mint requires, no *)
(* mint is without its deposit, and the source chains hold all that        *)
(* circulates and all that is announced.                                   *)
THEOREM BackedWhileHonest ==
  NetworkSpec => ([]HonestMajority => [](Forged = {} /\ FullyBacked))
<1>1. NetworkInit => Forged = {}
  BY DEF NetworkInit, Init, Forged
<1>2. NetworkInv /\ HonestMajority /\ Forged = {} /\ [NetworkNext]_networkVars
        => (Forged = {})'
  BY NoForgery
<1>3. NetworkInv /\ CustodyCoversDeposits /\ [NetworkNext]_networkVars
        => CustodyCoversDeposits'
  BY CoveredStep
<1>4. NetworkInv /\ CustodyCoversDeposits /\ Forged = {} => FullyBacked
  <2> SUFFICES ASSUME NetworkInv, CustodyCoversDeposits, Forged = {}
               PROVE  FullyBacked
    OBVIOUS
  <2>1. \A g : DOMAIN g = {} => SumFunction(g) = 0
    BY SumOfZeros, FS_EmptySet
  <2>2. ForgedTotal = 0
    BY <2>1 DEF ForgedTotal
  <2> QED BY <2>2, SumsNatural DEF CustodyCoversDeposits, FullyBacked
<1> QED BY <1>1, <1>2, <1>3, <1>4, CoveredInit, NetworkInvariant, PTL DEF NetworkSpec

-----------------------------------------------------------------------------
(* What the network does to the program is a step of the ledger, or does   *)
(* not concern it.                                                         *)
LEMMA NetworkLedgerStep ==
  ASSUME BridgeInv, [NetworkNext]_networkVars
  PROVE  [L!LedgerNext]_L!ledgerVars
<1>1. ASSUME NEW d \in DepositMessages, RelayMint(d)
      PROVE  [L!LedgerNext]_L!ledgerVars
  <2>1. \E msg \in MintMessages : \E submitter, sigs :
          MintSbtcWithSignatures(submitter, sigs, msg)
    BY <1>1, NetworkInputs DEF RelayMint
  <2> QED BY <2>1, OperationIsLedgerStep
<1>2. ASSUME NEW u \in UpdateMessages, RelayUpdate(u)
      PROVE  [L!LedgerNext]_L!ledgerVars
  <2>1. \E msg \in LimitMessages : \E submitter, sigs :
          AddOrUpdateLimiterWithSignatures(submitter, sigs, msg)
    BY <1>2, NetworkInputs DEF RelayUpdate
  <2> QED BY <2>1, OperationIsLedgerStep
<1>3. CASE WithdrawNext
  BY <1>3, OperationIsLedgerStep DEF WithdrawNext
<1>4. CASE \E b \in ChainIds, from \in Users, amount \in Amounts :
             SplBurn(b, from, amount)
  BY <1>4, OperationIsLedgerStep
<1>5. CASE UNCHANGED <<mint_nonces, sbtc_supply, limiter, update_nonce, withdraw_events>>
  BY <1>5, OperationIsLedgerStep
<1>6. CASE \/ \E d \in DepositMessages : Deposit(d)
           \/ \E i \in DOMAIN withdraw_events : Release(i)
           \/ \E u \in UpdateMessages : Decide(u)
           \/ \E k \in Members, msg \in deposits \cup Range(decided) : Attest(k, msg)
           \/ \E k \in Corruptible : Compromise(k)
           \/ HourPasses
           \/ UNCHANGED networkVars
  <2>1. UNCHANGED <<mint_nonces, sbtc_supply, limiter, update_nonce, withdraw_events>>
    BY <1>6 DEF Deposit, Release, Decide, Attest, Compromise, HourPasses,
                bridgeVars, networkVars, vars, tokenVars, eventVars
  <2> QED BY <1>5, <2>1
<1>7. CASE \/ AdminNext
           \/ \E b \in ChainIds, from \in Users, to \in Users, amount \in Amounts :
                SplTransfer(b, from, to, amount)
  <2>1. UNCHANGED <<mint_nonces, sbtc_supply, limiter, update_nonce, withdraw_events>>
    BY <1>7 DEF AdminNext, SplTransfer, tokenVars, eventVars
  <2> QED BY <1>5, <2>1
<1> QED BY <1>1, <1>2, <1>3, <1>4, <1>6, <1>7 DEF NetworkNext, UsersNext

(* Between source chains, a committee that may deviate and submitters that *)
(* relay in any order, with a clock that wraps, the program still behaves  *)
(* as the ledger.                                                          *)
THEOREM NetworkImplementsLedger == NetworkSpec => ImplementsLedger
<1>1. NetworkInit => L!LedgerInit
  BY LedgerInitially DEF NetworkInit
<1>2. NetworkInv /\ [NetworkNext]_networkVars => [L!LedgerNext]_L!ledgerVars
  BY NetworkLedgerStep DEF NetworkInv
<1> QED BY <1>1, <1>2, NetworkInvariant, PTL
     DEF NetworkSpec, ImplementsLedger, L!LedgerSpec

-----------------------------------------------------------------------------
(* The members that deviate are too few to approve a limit.                *)
HonestOnLimits == StakeOfMembers(dishonest) < BRIDGE_LIMIT_STAKE_REQUIRED

DecisionsNumbered == \A i \in DOMAIN decided : decided[i].nonce = i - 1

(* The updates applied are the first ones decided, one by one.             *)
AppliedAsDecided ==
  \A i \in DOMAIN limit_events :
    /\ i \in DOMAIN decided
    /\ limit_events[i].route = <<decided[i].target_chain_id, decided[i].token_id>>
    /\ limit_events[i].total_limit = decided[i].total_limit

(* Decisions stay, and the next one takes the next number.                 *)
LEMMA DecisionsStep ==
  ASSUME NetworkInv, DecisionsNumbered, [NetworkNext]_networkVars
  PROVE  /\ DecisionsNumbered'
         /\ \A i \in DOMAIN decided : i \in DOMAIN decided' /\ decided'[i] = decided[i]
<1>1. decided \in Seq(UpdateMessages)
  BY DEF NetworkInv, NetworkTypeOK
<1>2. ASSUME NEW u \in UpdateMessages, Decide(u)
      PROVE  /\ DecisionsNumbered'
             /\ \A i \in DOMAIN decided : i \in DOMAIN decided' /\ decided'[i] = decided[i]
  <2> DEFINE n == Len(decided)
  <2>1. u.nonce = n /\ decided' = Append(decided, u)
    BY <1>2 DEF Decide
  <2>2. /\ n \in Nat /\ DOMAIN decided = 1 .. n /\ DOMAIN decided' = 1 .. n + 1
        /\ \A i \in 1 .. n : decided'[i] = decided[i]
        /\ decided'[n + 1] = u
    BY <1>1, <2>1
  <2> HIDE DEF n
  <2>3. \A i \in 1 .. n + 1 : i \in 1 .. n \/ i = n + 1
    BY <2>2
  <2>4. u.nonce = (n + 1) - 1
    BY <2>1, <2>2
  <2> QED BY <2>2, <2>3, <2>4 DEF DecisionsNumbered
<1>3. CASE decided' = decided
  BY <1>3 DEF DecisionsNumbered
<1>4. ~(\E u \in UpdateMessages : Decide(u)) => decided' = decided
  BY DEF NetworkNext, Deposit, Release, Attest, Compromise, RelayMint, RelayUpdate,
         UsersNext, HourPasses, networkVars, validatorVars
<1> QED BY <1>2, <1>3, <1>4

(* An honest committee's updates are applied in the order it decided them. *)
LEMMA AppliedStep ==
  ASSUME NetworkInv, DecisionsNumbered, HonestOnLimits, AppliedAsDecided,
         [NetworkNext]_networkVars
  PROVE  AppliedAsDecided'
<1>1. \A i \in DOMAIN decided : i \in DOMAIN decided' /\ decided'[i] = decided[i]
  BY DecisionsStep
<1>2. CASE limit_events' = limit_events
  BY <1>1, <1>2 DEF AppliedAsDecided
<1>3. CASE limit_events' # limit_events
  <2> DEFINE n == Len(limit_events)
  <2>1. PICK u \in Range(decided) :
          /\ u.nonce = update_nonce
          /\ limit_events'[Len(limit_events')].route = <<u.target_chain_id, u.token_id>>
          /\ limit_events'[Len(limit_events')].total_limit = u.total_limit
    BY <1>3, NoForgedLimit DEF HonestOnLimits
  <2>2. PICK e : limit_events' = Append(limit_events, e)
    BY <1>3 DEF NetworkNext, Deposit, Release, Decide, Attest, Compromise,
       RelayMint, MintSbtcWithSignatures, RelayUpdate,
       AddOrUpdateLimiterWithSignatures, UsersNext, AdminNext,
       WithdrawNext, WithdrawBtc, SplTransfer, SplBurn, HourPasses,
       bridgeVars, networkVars, vars, eventVars
  <2>3. limit_events \in Seq(LimitEvents) /\ update_nonce = n
    BY DEF NetworkInv, BridgeInv, TypeOK, LimitsInOrder
  <2>4. /\ n \in Nat /\ DOMAIN limit_events = 1 .. n
        /\ DOMAIN limit_events' = 1 .. n + 1 /\ Len(limit_events') = n + 1
        /\ \A i \in 1 .. n : limit_events'[i] = limit_events[i]
    BY <2>2, <2>3
  <2> HIDE DEF n
  <2>5. PICK k \in DOMAIN decided : decided[k] = u
    BY <2>1 DEF Range
  <2>6. k \in Nat
    BY DEF NetworkInv, NetworkTypeOK
  <2>7. k - 1 = n
    BY <2>1, <2>3, <2>5 DEF DecisionsNumbered
  <2>8. k = n + 1
    BY <2>4, <2>6, <2>7
  <2>9. \A i \in 1 .. n + 1 : i \in 1 .. n \/ i = n + 1
    BY <2>4
  <2> QED BY <1>1, <2>1, <2>4, <2>5, <2>8, <2>9 DEF AppliedAsDecided
<1> QED BY <1>2, <1>3

(* While the members that deviate never hold the stake a limit requires,   *)
(* the log of limits is the committee's decisions, from the first on,      *)
(* however many updates were signed at once and in whichever order they    *)
(* were relayed.                                                           *)
THEOREM LimitsFollowDecisions ==
  NetworkSpec => ([]HonestOnLimits => []AppliedAsDecided)
<1>1. NetworkInit => DecisionsNumbered /\ AppliedAsDecided
  BY DEF NetworkInit, Init, DecisionsNumbered, AppliedAsDecided
<1>2. NetworkInv /\ DecisionsNumbered /\ [NetworkNext]_networkVars => DecisionsNumbered'
  BY DecisionsStep
<1>3. NetworkInv /\ DecisionsNumbered /\ HonestOnLimits /\ AppliedAsDecided
        /\ [NetworkNext]_networkVars => AppliedAsDecided'
  BY AppliedStep
<1> QED BY <1>1, <1>2, <1>3, NetworkInvariant, PTL DEF NetworkSpec

-----------------------------------------------------------------------------
(* The withdrawals the peg owes.                                           *)
OwedFor(i) ==
  [number |-> withdraw_events[i].nonce, route |-> withdraw_events[i].route,
   amount |-> withdraw_events[i].amount]

Owed == {OwedFor(i) : i \in DOMAIN withdraw_events \ released}

(* A source chain numbers its deposits one after another.                  *)
DepositsNumbered ==
  \A d \in deposits : d.nonce < Cardinality(DepositsFrom(d.source_chain_id))

(* So the next deposit has a number of its own.                            *)
LEMMA NextDepositFresh ==
  ASSUME NetworkInv, DepositsNumbered, NEW d \in DepositMessages, Deposit(d)
  PROVE  \A c \in deposits : P!Name(c) # P!Name(d)
<1> SUFFICES ASSUME NEW c \in deposits, P!Name(c) = P!Name(d) PROVE FALSE
  OBVIOUS
<1> DEFINE n == Cardinality(DepositsFrom(d.source_chain_id))
<1>1. d.nonce = n
  BY DEF Deposit
<1>2. c.source_chain_id = d.source_chain_id /\ c.nonce = d.nonce
  BY DEF P!Name
<1>3. c.nonce < n
  BY <1>2 DEF DepositsNumbered
<1>4. c.nonce \in Nat
  <2>1. c \in MintMessages
    BY NetworkInputs DEF NetworkInv, NetworkTypeOK
  <2> QED BY <2>1, MintMessageType
<1> HIDE DEF n
<1> QED BY <1>1, <1>2, <1>3, <1>4

(* The numbering goes on.                                                  *)
LEMMA DepositsNumberedStep ==
  ASSUME NetworkInv, DepositsNumbered, [NetworkNext]_networkVars
  PROVE  DepositsNumbered'
<1>1. ASSUME NEW d \in DepositMessages, Deposit(d) PROVE DepositsNumbered'
  <2> DEFINE From(c) == DepositsFrom(c)
             n == Cardinality(DepositsFrom(d.source_chain_id))
             m == Cardinality(DepositsFrom(d.source_chain_id)')
  <2>1. d.nonce = n /\ deposits' = deposits \cup {d}
    BY <1>1 DEF Deposit
  <2>2. d \notin deposits
    BY <1>1, NextDepositFresh
  <2>3. /\ IsFiniteSet(DepositsFrom(d.source_chain_id))
        /\ d \notin DepositsFrom(d.source_chain_id)
        /\ DepositsFrom(d.source_chain_id)' = DepositsFrom(d.source_chain_id) \cup {d}
    <3>1. IsFiniteSet(DepositsFrom(d.source_chain_id))
      BY FS_Subset DEF NetworkInv, DepositsFrom
    <3> QED BY <2>1, <2>2, <3>1 DEF DepositsFrom
  <2>4. n \in Nat /\ m = n + 1
    BY <2>2, <2>3, FS_CardinalityType, FS_AddElement
  <2>5. ASSUME NEW c \in deposits'
        PROVE  c.nonce < Cardinality(DepositsFrom(c.source_chain_id)')
    <3>1. CASE c = d
      <4> HIDE DEF n, m
      <4>1. d.nonce < m
        BY <2>1, <2>4
      <4> QED BY <3>1, <4>1 DEF m
    <3>2. CASE c # d /\ c.source_chain_id # d.source_chain_id
      <4>1. DepositsFrom(c.source_chain_id)' = DepositsFrom(c.source_chain_id)
        BY <2>1, <3>2 DEF DepositsFrom
      <4> QED BY <2>1, <2>5, <3>2, <4>1 DEF DepositsNumbered
    <3>3. CASE c # d /\ c.source_chain_id = d.source_chain_id
      <4>1. c \in deposits
        BY <2>1, <2>5, <3>3
      <4>2. c.nonce < n
        BY <3>3, <4>1 DEF DepositsNumbered
      <4>3. c.nonce \in Nat
        <5>1. c \in MintMessages
          BY <4>1, NetworkInputs DEF NetworkInv, NetworkTypeOK
        <5> QED BY <5>1, MintMessageType
      <4> HIDE DEF n, m
      <4>4. c.nonce < m
        BY <2>4, <4>2, <4>3
      <4> QED BY <3>3, <4>4 DEF m
    <3> QED BY <3>1, <3>2, <3>3
  <2> QED BY <2>5 DEF DepositsNumbered
<1>2. CASE deposits' = deposits
  BY <1>2 DEF DepositsNumbered, DepositsFrom
<1>3. ~(\E d \in DepositMessages : Deposit(d)) => deposits' = deposits
  BY DEF NetworkNext, Release, Decide, Attest, Compromise, RelayMint, RelayUpdate,
         UsersNext, HourPasses, networkVars, sourceVars
<1> QED BY <1>1, <1>2, <1>3

(* What is owed changes only with the log of withdrawals and with payments.*)
LEMMA OwedUnchanged ==
  ASSUME UNCHANGED <<withdraw_events, released>>
  PROVE  Owed' = Owed
BY DEF Owed, OwedFor

(* A withdrawal is owed under the next number.                             *)
LEMMA WithdrawalOwed ==
  ASSUME NetworkInv, UNCHANGED released,
         NEW user, NEW msg \in WithdrawMessages, WithdrawBtc(user, msg)
  PROVE  \E b \in ChainIds, r \in Routes : \E amount \in 0 .. sbtc_supply[b] :
           /\ withdraw_nonce' = withdraw_nonce + 1
           /\ sbtc_supply' = [sbtc_supply EXCEPT ![b] = @ - amount]
           /\ Owed' = Owed \cup {[number |-> withdraw_nonce + 1, route |-> r,
                                  amount |-> amount]}
<1> DEFINE b == msg.chain_id
           r == <<msg.to_chain_id, msg.to_token_id>>
           fee == Fee(msg.amount, token_config[r].token_fee_percentage)
           a == msg.amount - fee
           e == [nonce |-> withdraw_nonce', route |-> r, chain_id |-> b,
                 from_address |-> user, amount |-> a,
                 original_amount |-> msg.amount,
                 chain_mint_total |->
                   supported_chain_config[msg.to_chain_id].mint_total - msg.amount,
                 token_mint_total |-> token_config[r].mint_total - msg.amount]
           w == [number |-> withdraw_nonce + 1, route |-> r, amount |-> a]
<1>1. /\ a <= sbtc_supply[b]
      /\ withdraw_nonce' = withdraw_nonce + 1
      /\ sbtc_supply' = [sbtc_supply EXCEPT ![b] = @ - a]
      /\ withdraw_events' = Append(withdraw_events, e)
  BY DEF WithdrawBtc, Released, NextWithdrawNonce
<1>2. r \in Routes /\ b \in ChainIds /\ msg.amount \in Nat
  BY WithdrawMessageType
<1>3. fee \in 0 .. msg.amount
  <2>1. token_config[r].token_fee_percentage \in 0 .. FEE_DENOMINATOR - 1
    BY <1>2 DEF NetworkInv, BridgeInv, TypeOK, ConfigTypeOK, TokenConfigs
  <2> QED BY <1>2, <2>1, FeeBelowAmount
<1>4. /\ withdraw_events \in Seq(WithdrawEvents) /\ released \subseteq DOMAIN withdraw_events
      /\ sbtc_supply \in [ChainIds -> Nat]
  BY SumsFinite DEF NetworkInv, NetworkTypeOK, BridgeInv, TypeOK
<1>5. w = [number |-> e.nonce, route |-> e.route, amount |-> e.amount]
  BY <1>1
<1> HIDE DEF b, r, fee, e, w
<1>6. a \in 0 .. sbtc_supply[b]
  BY <1>1, <1>2, <1>3, <1>4
<1> HIDE DEF a
<1>7. PICK k :
      /\ DOMAIN withdraw_events' = DOMAIN withdraw_events \cup {k}
      /\ k \notin DOMAIN withdraw_events
      /\ \A i \in DOMAIN withdraw_events : withdraw_events'[i] = withdraw_events[i]
      /\ withdraw_events'[k] = e
  <2> DEFINE n == Len(withdraw_events) + 1
  <2>1. /\ DOMAIN withdraw_events' = DOMAIN withdraw_events \cup {n}
        /\ n \notin DOMAIN withdraw_events
        /\ \A i \in DOMAIN withdraw_events : withdraw_events'[i] = withdraw_events[i]
        /\ withdraw_events'[n] = e
    BY <1>1, <1>4
  <2> HIDE DEF n
  <2> QED BY <2>1
<1>8. Owed' = Owed \cup {w}
  <2>1. DOMAIN withdraw_events' \ released' = (DOMAIN withdraw_events \ released) \cup {k}
    BY <1>4, <1>7
  <2>2. \A i \in DOMAIN withdraw_events : OwedFor(i)' = OwedFor(i)
    BY <1>7 DEF OwedFor
  <2>3. OwedFor(k)' = w
    BY <1>5, <1>7 DEF OwedFor
  <2>4. Owed' = {OwedFor(i)' : i \in DOMAIN withdraw_events' \ released'}
    BY Zenon DEF Owed
  <2> QED BY <2>1, <2>2, <2>3, <2>4 DEF Owed
<1> QED BY <1>1, <1>2, <1>6, <1>8 DEF w

(* A payment settles one withdrawal, as each has a number of its own.      *)
LEMMA PaymentSettles ==
  ASSUME NetworkInv, NEW i \in DOMAIN withdraw_events, Release(i)
  PROVE  OwedFor(i) \in Owed /\ Owed' = Owed \ {OwedFor(i)}
<1>1. /\ i \notin released /\ released' = released \cup {i}
      /\ withdraw_events' = withdraw_events
  BY DEF Release, bridgeVars, vars, eventVars
<1>2. \A j \in DOMAIN withdraw_events : OwedFor(j).number = j /\ OwedFor(j)' = OwedFor(j)
  <2>1. \A j \in DOMAIN withdraw_events : withdraw_events[j].nonce = j
    BY DEF NetworkInv, BridgeInv, WithdrawalsNumbered
  <2> QED BY <1>1, <2>1 DEF OwedFor
<1>3. Owed' = {OwedFor(j) : j \in (DOMAIN withdraw_events \ released) \ {i}}
  <2>1. Owed' = {OwedFor(j)' : j \in DOMAIN withdraw_events' \ released'}
    BY Zenon DEF Owed
  <2> QED BY <1>1, <1>2, <2>1
<1>4. \A j \in DOMAIN withdraw_events : OwedFor(j) = OwedFor(i) => j = i
  BY <1>2
<1> QED BY <1>1, <1>3, <1>4 DEF Owed

(* While the dishonest hold too little stake, a step of the network is one *)
(* of the peg or leaves it alone.                                          *)
LEMMA PegStep ==
  ASSUME NetworkInv, DepositsNumbered, [NetworkNext]_networkVars
  PROVE  [HonestMajority => P!PegNext]_P!pegVars
<1> DEFINE Step == [HonestMajority => P!PegNext]_P!pegVars
<1>1. ASSUME UNCHANGED <<deposits, mint_nonces, sbtc_supply, withdraw_nonce, custody>>,
             Owed' = Owed
      PROVE  Step
  BY <1>1 DEF P!pegVars, Owed, OwedFor
<1>2. ASSUME NEW d \in DepositMessages, Deposit(d) PROVE Step
  <2>1. /\ deposits' = deposits \cup {d}
        /\ custody' = [custody EXCEPT ![RouteOf(d)] = @ + d.amount]
        /\ UNCHANGED <<mint_nonces, sbtc_supply, withdraw_nonce, withdraw_events, released>>
    BY <1>2 DEF Deposit, bridgeVars, vars, tokenVars, eventVars
  <2>2. \A c \in deposits : P!Name(c) # P!Name(d)
    BY <1>2, NextDepositFresh
  <2>3. Owed' = Owed
    BY <2>1, OwedUnchanged
  <2>4. P!Lock(d)
    BY <2>1, <2>2, <2>3 DEF P!Lock, P!Route, RouteOf, Owed, OwedFor
  <2> QED BY <2>4 DEF P!PegNext
<1>3. ASSUME NEW d \in DepositMessages, RelayMint(d) PROVE Step
  <2>1. PICK submitter \in Submitters, sigs \in AvailableLists(d) :
          MintSbtcWithSignatures(submitter, sigs, d)
    BY <1>3 DEF RelayMint
  <2>2. /\ <<d.source_chain_id, d.nonce>> \notin mint_nonces
        /\ sbtc_supply[d.to_chain_id] + d.amount <= U64_MAX
        /\ mint_nonces' = mint_nonces \cup {<<d.source_chain_id, d.nonce>>}
        /\ sbtc_supply' = [sbtc_supply EXCEPT ![d.to_chain_id] = @ + d.amount]
        /\ UNCHANGED <<withdraw_nonce, withdraw_events, deposits, custody, released>>
    BY <1>3, <2>1 DEF MintSbtcWithSignatures, MintAccounts, ConsumedNonce, RelayMint,
                      sourceVars
  <2>3. Owed' = Owed
    BY <2>2, OwedUnchanged
  <2>4. P!Mint(d)
    BY <2>2, <2>3 DEF P!Mint, P!Name, Owed, OwedFor
  <2>5. HonestMajority => d \in deposits
    BY <1>3, MintedWasDeposited
  <2> QED BY <2>4, <2>5 DEF P!PegNext
<1>4. ASSUME NEW i \in DOMAIN withdraw_events, Release(i) PROVE Step
  <2>1. PICK w \in Owed : w = OwedFor(i) /\ Owed' = Owed \ {w}
    BY <1>4, PaymentSettles
  <2>2. /\ w.amount <= custody[w.route]
        /\ custody' = [custody EXCEPT ![w.route] = @ - w.amount]
        /\ UNCHANGED <<deposits, mint_nonces, sbtc_supply, withdraw_nonce>>
    BY <1>4, <2>1 DEF Release, OwedFor, bridgeVars, vars, tokenVars
  <2>3. P!Pay(w)
    BY <2>1, <2>2 DEF P!Pay, Owed, OwedFor
  <2>4. \E x \in Owed : P!Pay(x)
    BY <2>3
  <2>5. P!PegNext
    BY Zenon, <2>4 DEF P!PegNext, Owed, OwedFor
  <2> QED BY <2>5
<1>5. ASSUME NEW user, NEW msg \in WithdrawMessages, WithdrawBtc(user, msg),
             UNCHANGED <<sourceVars, validatorVars>>
      PROVE  Step
  <2>1. PICK b \in ChainIds, r \in Routes : \E amount \in 0 .. sbtc_supply[b] :
          /\ withdraw_nonce' = withdraw_nonce + 1
          /\ sbtc_supply' = [sbtc_supply EXCEPT ![b] = @ - amount]
          /\ Owed' = Owed \cup {[number |-> withdraw_nonce + 1, route |-> r,
                                 amount |-> amount]}
    BY <1>5, WithdrawalOwed DEF sourceVars
  <2>2. PICK amount \in 0 .. sbtc_supply[b] :
          /\ withdraw_nonce' = withdraw_nonce + 1
          /\ sbtc_supply' = [sbtc_supply EXCEPT ![b] = @ - amount]
          /\ Owed' = Owed \cup {[number |-> withdraw_nonce + 1, route |-> r,
                                 amount |-> amount]}
    BY <2>1
  <2>3. UNCHANGED <<mint_nonces, deposits, custody>>
    BY <1>5 DEF WithdrawBtc, sourceVars
  <2>4. P!Announce(b, r, amount)
    BY <2>2, <2>3 DEF P!Announce, Owed, OwedFor
  <2> QED BY <2>4 DEF P!PegNext, Routes
<1>6. ASSUME NEW b \in ChainIds, NEW from \in Users, NEW amount \in Amounts,
             SplBurn(b, from, amount), UNCHANGED <<sourceVars, validatorVars>>
      PROVE  Step
  <2>1. /\ amount <= sbtc_supply[b]
        /\ sbtc_supply' = [sbtc_supply EXCEPT ![b] = @ - amount]
        /\ UNCHANGED <<mint_nonces, withdraw_nonce, withdraw_events, deposits, custody,
                       released>>
    BY <1>6 DEF SplBurn, eventVars, sourceVars
  <2>2. amount \in 0 .. sbtc_supply[b]
    BY <2>1, SumsFinite, BridgeAssumption
  <2>3. Owed' = Owed
    BY <2>1, OwedUnchanged
  <2>4. P!Burn(b, amount)
    BY <2>1, <2>3 DEF P!Burn, Owed, OwedFor
  <2> QED BY <2>2, <2>4 DEF P!PegNext
<1>7. ASSUME \/ \E u \in UpdateMessages : Decide(u)
             \/ \E k \in Members, msg \in deposits \cup Range(decided) : Attest(k, msg)
             \/ \E k \in Corruptible : Compromise(k)
             \/ \E u \in UpdateMessages : RelayUpdate(u)
             \/ HourPasses
             \/ UNCHANGED networkVars
      PROVE  Step
  <2>1. UNCHANGED <<deposits, mint_nonces, sbtc_supply, withdraw_nonce, custody,
                    withdraw_events, released>>
    BY <1>7 DEF Decide, Attest, Compromise, RelayUpdate, HourPasses,
      AddOrUpdateLimiterWithSignatures, bridgeVars, networkVars, vars, tokenVars,
      eventVars, sourceVars
  <2> QED BY <1>1, <2>1, OwedUnchanged
<1>8. ASSUME \/ AdminNext
             \/ \E b \in ChainIds, from \in Users, to \in Users, amount \in Amounts :
                  SplTransfer(b, from, to, amount),
             UNCHANGED <<sourceVars, validatorVars>>
      PROVE  Step
  <2>1. UNCHANGED <<deposits, mint_nonces, sbtc_supply, withdraw_nonce, custody,
                    withdraw_events, released>>
    BY <1>8 DEF AdminNext, SplTransfer, tokenVars, eventVars, sourceVars
  <2> QED BY <1>1, <2>1, OwedUnchanged
<1> HIDE DEF Step
<1>9. ASSUME UsersNext PROVE Step
  BY <1>5, <1>6, <1>8, <1>9 DEF UsersNext, WithdrawNext
<1>10. Step
  BY <1>2, <1>3, <1>4, <1>7, <1>9 DEF NetworkNext
<1> QED BY <1>10 DEF Step

(* End to end: whichever members are dishonest, whatever they sign and     *)
(* whatever is relayed, lost, repeated, administered or paid, every step   *)
(* taken while the dishonest hold less than the required stake is one the  *)
(* peg allows.                                                             *)
THEOREM NetworkImplementsPeg == NetworkSpec => ImplementsPeg
<1>1. NetworkInit => P!PegInit /\ DepositsNumbered
  <2> SUFFICES ASSUME NetworkInit PROVE P!PegInit /\ DepositsNumbered
    OBVIOUS
  <2>1. Owed = {}
    BY DEF NetworkInit, Init, Owed
  <2>2. P!PegInit
    BY <2>1 DEF NetworkInit, Init, P!PegInit, Owed, OwedFor, Routes
  <2> QED BY <2>2 DEF NetworkInit, DepositsNumbered
<1>2. NetworkInv /\ DepositsNumbered /\ [NetworkNext]_networkVars => DepositsNumbered'
  BY DepositsNumberedStep
<1>3. NetworkInv /\ DepositsNumbered /\ [NetworkNext]_networkVars
        => [HonestMajority => P!PegNext]_P!pegVars
  BY PegStep
<1> QED BY <1>1, <1>2, <1>3, NetworkInvariant, PTL DEF NetworkSpec, ImplementsPeg

-----------------------------------------------------------------------------
(* A nonce is used up only by a mint that carries it.                      *)
NoncesMinted ==
  \A n \in mint_nonces :
    \E i \in DOMAIN mint_events : n = <<mint_events[i].route[1], mint_events[i].nonce>>

DepositsDistinct == \A c, d \in deposits : P!Name(c) = P!Name(d) => c = d

(* Mints use up one nonce each, and log it.                                *)
LEMMA NoncesMintedStep ==
  ASSUME NetworkInv, NoncesMinted, [NetworkNext]_networkVars
  PROVE  NoncesMinted'
<1>1. CASE UNCHANGED <<mint_nonces, mint_events>>
  BY <1>1 DEF NoncesMinted
<1>2. ASSUME NEW d \in DepositMessages, RelayMint(d) PROVE NoncesMinted'
  <2>1. PICK submitter \in Submitters, sigs \in AvailableLists(d) :
          MintSbtcWithSignatures(submitter, sigs, d)
    BY <1>2 DEF RelayMint
  <2>2. mint_nonces' = mint_nonces \cup {<<d.source_chain_id, d.nonce>>}
    BY <2>1 DEF MintSbtcWithSignatures, ConsumedNonce
  <2> DEFINE n == Len(mint_events)
  <2>3. /\ n \in Nat
        /\ DOMAIN mint_events = 1 .. n /\ DOMAIN mint_events' = 1 .. n + 1
        /\ \A i \in 1 .. n : mint_events'[i] = mint_events[i]
        /\ Asks(d, mint_events'[n + 1])
    BY <2>1, NetworkInputs, MintEventAsked DEF NetworkInv
  <2> HIDE DEF n
  <2>4. /\ \A i \in DOMAIN mint_events :
             i \in DOMAIN mint_events' /\ mint_events'[i] = mint_events[i]
        /\ n + 1 \in DOMAIN mint_events'
    BY <2>3
  <2>5. <<mint_events'[n + 1].route[1], mint_events'[n + 1].nonce>>
          = <<d.source_chain_id, d.nonce>>
    BY <2>3 DEF Asks, RouteOf
  <2> QED BY <2>2, <2>4, <2>5 DEF NoncesMinted
<1>3. ~(\E d \in DepositMessages : RelayMint(d))
        => UNCHANGED <<mint_nonces, mint_events>>
  BY DEF NetworkNext, Deposit, Release, Decide, Attest, Compromise, RelayUpdate,
         AddOrUpdateLimiterWithSignatures, UsersNext, AdminNext, WithdrawNext,
         WithdrawBtc, SplTransfer, SplBurn, HourPasses, bridgeVars, networkVars,
         vars, eventVars
<1> QED BY <1>1, <1>2, <1>3

(* Deposits keep names of their own.                                       *)
LEMMA DepositsDistinctStep ==
  ASSUME NetworkInv, DepositsNumbered, DepositsDistinct, [NetworkNext]_networkVars
  PROVE  DepositsDistinct'
<1>1. ASSUME NEW d \in DepositMessages, Deposit(d) PROVE DepositsDistinct'
  <2>1. deposits' = deposits \cup {d}
    BY <1>1 DEF Deposit
  <2>2. \A c \in deposits : P!Name(c) # P!Name(d)
    BY <1>1, NextDepositFresh
  <2>3. \A c : P!Name(c)' = P!Name(c)
    BY DEF P!Name
  <2> QED BY <2>1, <2>2, <2>3 DEF DepositsDistinct
<1>2. CASE deposits' = deposits
  <2>1. \A c : P!Name(c)' = P!Name(c)
    BY DEF P!Name
  <2> QED BY <1>2, <2>1 DEF DepositsDistinct
<1>3. ~(\E d \in DepositMessages : Deposit(d)) => deposits' = deposits
  BY DEF NetworkNext, Release, Decide, Attest, Compromise, RelayMint, RelayUpdate,
         UsersNext, HourPasses, networkVars, sourceVars
<1> QED BY <1>1, <1>2, <1>3

(* The member accounts stay as the committee instructions make them.       *)
LEMMA MembersFundedStep ==
  ASSUME BridgeInv, MembersFunded, [NetworkNext]_networkVars
  PROVE  MembersFunded'
<1>1. CASE CommitteeNext
  BY <1>1, CommitteeFundedStep DEF BridgeInv, TypeOK, CommitteeTypeOK
<1>2. CASE UNCHANGED committee
  BY <1>2 DEF MembersFunded
<1>3. ~CommitteeNext => UNCHANGED committee
  BY DEF NetworkNext, Deposit, Release, Decide, Attest, Compromise, RelayMint,
         MintSbtcWithSignatures, RelayUpdate, AddOrUpdateLimiterWithSignatures,
         UsersNext, AdminNext, WithdrawNext, WithdrawBtc, SplTransfer, SplBurn,
         HourPasses, bridgeVars, networkVars, vars, committeeVars
<1> QED BY <1>1, <1>2, <1>3

(* With every mint asked for, the nonce of a deposit is used up only by    *)
(* the mint of that deposit.                                               *)
LEMMA ConsumedIsMinted ==
  ASSUME NetworkInv, NoncesMinted, DepositsDistinct, Forged = {},
         NEW d \in deposits, <<d.source_chain_id, d.nonce>> \in mint_nonces
  PROVE  Minted(d)
<1>1. PICK i \in DOMAIN mint_events :
        <<d.source_chain_id, d.nonce>> = <<mint_events[i].route[1], mint_events[i].nonce>>
  BY DEF NoncesMinted
<1>2. PICK c \in deposits : Asks(c, mint_events[i])
  BY DEF Forged
<1>3. P!Name(c) = P!Name(d)
  BY <1>1, <1>2 DEF P!Name, Asks, RouteOf
<1>4. c = d
  BY <1>3 DEF DepositsDistinct
<1> QED BY <1>2, <1>4 DEF Minted

(* So nothing but the limiter and the largest supply is in the way of a    *)
(* deposit that enough stake vouches for.                                  *)
LEMMA SignedIsAcceptable ==
  ASSUME NetworkInv, MembersFunded, NoncesMinted, DepositsDistinct
  PROVE  DepositsAcceptable
<1> SUFFICES ASSUME Forged = {}, NEW d \in deposits,
                    ~Minted(d), Mintable(d),
                    IsFiniteSet(Signers(d)),
                    Cardinality(Signers(d)) <= MaxSignatures,
                    Cardinality(Signers(d)) <= MAX_SIGNATURES,
                    StakeOfMembers(Signers(d)) >= TRANSFER_STAKE_REQUIRED
             PROVE  Acceptable(d)
  BY DEF DepositsAcceptable
<1>1. PICK submitter \in Submitters : submitter_pda[submitter].is_submitter
  BY DEF Mintable
<1>2. MintAccounts(submitter, d)
  <2>1. <<d.source_chain_id, d.nonce>> \notin mint_nonces
    BY ConsumedIsMinted
  <2> QED BY <1>1, <2>1 DEF Mintable, MintAccounts, RouteOf
<1>3. PICK n \in 1 .. Cardinality(Signers(d)) :
        \E sigs \in [1 .. n -> [key : Signers(d), msg : {d}]] :
          Verify(sigs, d, TokenTransfer)
  <2>1. d.message_type = TokenTransfer
    BY NetworkInputs DEF NetworkInv, NetworkTypeOK
  <2>2. Signers(d) \subseteq Pubkeys
    BY NetworkInputs DEF Signers
  <2>3. CommitteeTypeOK
    BY DEF NetworkInv, BridgeInv, TypeOK, CommitteeTypeOK
  <2>4. StakeOfMembers(Signers(d)) >= RequiredStake(TokenTransfer)
    BY StakesRequired
  <2> QED BY <2>1, <2>2, <2>3, <2>4, SignersApprove
<1>4. PICK sigs \in [1 .. n -> [key : Signers(d), msg : {d}]] :
        Verify(sigs, d, TokenTransfer)
  BY <1>3
<1>5. \A i \in 1 .. n : sigs[i] \in Available(d)
  <2> SUFFICES ASSUME NEW i \in 1 .. n PROVE sigs[i] \in Available(d)
    OBVIOUS
  <2>1. sigs[i] \in [key : Signers(d), msg : {d}]
    BY <1>4
  <2>2. PICK k \in Signers(d) : sigs[i] = [key |-> k, msg |-> d]
    BY <2>1
  <2> QED BY <2>2 DEF Available, Signers, Signature
<1>6. sigs \in AvailableLists(d)
  <2>1. sigs \in [1 .. n -> Available(d)]
    BY <1>4, <1>5
  <2>2. n \in 1 .. MaxSignatures
    BY FS_CardinalityType, BridgeAssumption
  <2> QED BY <2>1, <2>2 DEF AvailableLists
<1> QED BY <1>2, <1>4, <1>6 DEF Acceptable

(* For every committee and every order of deposits, attestations and       *)
(* relays: signatures of enough stake open the bridge to their deposit.    *)
THEOREM NoDepositLockedOut == NetworkSpec => []DepositsAcceptable
<1>1. NetworkInit => /\ DepositsNumbered /\ DepositsDistinct /\ NoncesMinted
                     /\ MembersFunded
  BY FundedInit DEF NetworkInit, Init, DepositsNumbered, DepositsDistinct, NoncesMinted
<1>2. NetworkInv /\ DepositsNumbered /\ [NetworkNext]_networkVars => DepositsNumbered'
  BY DepositsNumberedStep
<1>3. NetworkInv /\ DepositsNumbered /\ DepositsDistinct /\ [NetworkNext]_networkVars
        => DepositsDistinct'
  BY DepositsDistinctStep
<1>4. NetworkInv /\ NoncesMinted /\ [NetworkNext]_networkVars => NoncesMinted'
  BY NoncesMintedStep
<1>5. NetworkInv /\ MembersFunded /\ [NetworkNext]_networkVars => MembersFunded'
  BY MembersFundedStep DEF NetworkInv
<1>6. NetworkInv /\ MembersFunded /\ NoncesMinted /\ DepositsDistinct
        => DepositsAcceptable
  BY SignedIsAcceptable
<1> QED BY <1>1, <1>2, <1>3, <1>4, <1>5, <1>6, NetworkInvariant, PTL DEF NetworkSpec
=============================================================================
