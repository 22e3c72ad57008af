------------------------------ MODULE Network -------------------------------
(***************************************************************************)
(* The bridge program between its users: source chains that take deposits  *)
(* and pay withdrawals, committee members that sign what happened,         *)
(* submitters that relay it.  Only the program is in this repository; the  *)
(* others follow README.md:18-37.                                          *)
(*                                                                         *)
(* Signatures are published in a set and stay there: a relay that is lost, *)
(* repeated, late or out of order is a relay that happens never, again,    *)
(* later or in another order.  A dishonest member signs anything.          *)
(*                                                                         *)
(* The clock counts hours, modulo U32 as the code does.                    *)
(***************************************************************************)
EXTENDS Bridge

CONSTANTS
  Corruptible,     \* members that may become dishonest
  DepositMessages, \* mint messages that deposits may ask for
  UpdateMessages   \* limiter updates the committee may decide

ASSUME NetworkAssumption ==
  /\ Corruptible \subseteq Members
  /\ DepositMessages \subseteq
       {d \in MintMessages : d.message_type = TokenTransfer}
  /\ UpdateMessages \subseteq
       {u \in LimitMessages : u.message_type = UpdateBridgeLimit}
  /\ SECONDS_PER_HOUR = 1

VARIABLES
  deposits,    \* deposits made, as the mint messages they ask for
  custody,     \* custody[r]: amount locked on the source chain
  released,    \* withdrawals paid on the source chain, by place in the log
  decided,     \* limiter updates the committee decided, in order
  signatures,  \* signatures of honest members
  dishonest    \* members that sign anything

sourceVars == <<deposits, custody, released>>

validatorVars == <<decided, signatures, dishonest>>

bridgeVars == vars

networkVars == <<vars, sourceVars, validatorVars>>

NetworkInit ==
  /\ Init
  /\ deposits = {}
  /\ custody = [r \in Routes |-> 0]
  /\ released = {}
  /\ decided = <<>>
  /\ signatures = {}
  /\ dishonest = {}

-----------------------------------------------------------------------------
RouteOf(d) == <<d.source_chain_id, d.source_token_id>>

DepositsFrom(c) == {d \in deposits : d.source_chain_id = c}

(* A source chain locks the amount and numbers the deposit. *)
Deposit(d) ==
  /\ d.nonce = Cardinality(DepositsFrom(d.source_chain_id))
  /\ deposits' = deposits \cup {d}
  /\ custody' = [custody EXCEPT ![RouteOf(d)] = @ + d.amount]
  /\ UNCHANGED <<bridgeVars, released, validatorVars>>

(* Withdrawals are told apart by their nonce, and paid out of what is      *)
(* locked for their route.                                                 *)
Release(i) ==
  LET e == withdraw_events[i] IN
  /\ \A j \in released : withdraw_events[j].nonce # e.nonce
  /\ e.amount <= custody[e.route]
  /\ released' = released \cup {i}
  /\ custody' = [custody EXCEPT ![e.route] = @ - e.amount]
  /\ UNCHANGED <<bridgeVars, deposits, validatorVars>>

(* The committee agrees on the next limiter update and numbers it. *)
Decide(u) ==
  /\ u.nonce = Len(decided)
  /\ decided' = Append(decided, u)
  /\ UNCHANGED <<bridgeVars, sourceVars, signatures, dishonest>>

Signature(k, msg) == [key |-> k, msg |-> msg]

(* An honest member signs what it saw on the source chain or decided. *)
Attest(k, msg) ==
  /\ k \notin dishonest
  /\ Signature(k, msg) \notin signatures
  /\ signatures' = signatures \cup {Signature(k, msg)}
  /\ UNCHANGED <<bridgeVars, sourceVars, decided, dishonest>>

(* From now on every signature of k can be had, so none is kept. *)
Compromise(k) ==
  /\ k \notin dishonest
  /\ dishonest' = dishonest \cup {k}
  /\ signatures' = {s \in signatures : s.key # k}
  /\ UNCHANGED <<bridgeVars, sourceVars, decided>>

(* The signatures over a message that can be had now. *)
Available(msg) ==
  {Signature(k, msg) : k \in
     {k \in Members : k \in dishonest \/ Signature(k, msg) \in signatures}}

AvailableLists(msg) ==
  UNION {[1 .. n -> Available(msg)] : n \in 1 .. MaxSignatures}

RelayMint(msg) ==
  /\ \E submitter \in Submitters, sigs \in AvailableLists(msg) :
       MintSbtcWithSignatures(submitter, sigs, msg)
  /\ UNCHANGED <<sourceVars, validatorVars>>

RelayUpdate(msg) ==
  /\ \E submitter \in Submitters, sigs \in AvailableLists(msg) :
       AddOrUpdateLimiterWithSignatures(submitter, sigs, msg)
  /\ UNCHANGED <<sourceVars, validatorVars>>

(* No ring that takes deposits falls a whole U32 of hours behind, which    *)
(* would take the program hundreds of thousands of years: at the bound the *)
(* ring is idle, holds nothing that counts and turns no deposit down.      *)
RingsRecent ==
  \A d \in DepositMessages :
    limiter[RouteOf(d)].is_initialized =>
      HoursPassed(limiter[RouteOf(d)], CurrentHour(unix_timestamp)) < U32 - 1

HourPasses ==
  /\ RingsRecent
  /\ unix_timestamp' = (unix_timestamp + 1) % U32
  /\ UNCHANGED <<configVars, committeeVars, limiter, update_nonce,
                 withdraw_nonce, mint_nonces, tokenVars, eventVars,
                 sourceVars, validatorVars>>

(* What the administrator and the holders do. *)
UsersNext ==
  /\ \/ AdminNext
     \/ WithdrawNext
     \/ \E b \in ChainIds, from \in Users, to \in Users, amount \in Amounts :
          SplTransfer(b, from, to, amount)
     \/ \E b \in ChainIds, from \in Users, amount \in Amounts :
          SplBurn(b, from, amount)
  /\ UNCHANGED <<sourceVars, validatorVars>>

NetworkNext ==
  \/ \E d \in DepositMessages : Deposit(d)
  \/ \E i \in DOMAIN withdraw_events : Release(i)
  \/ \E u \in UpdateMessages : Decide(u)
  \/ \E k \in Members, msg \in deposits \cup Range(decided) : Attest(k, msg)
  \/ \E k \in Corruptible : Compromise(k)
  \/ \E d \in DepositMessages : RelayMint(d)
  \/ \E u \in UpdateMessages : RelayUpdate(u)
  \/ UsersNext
  \/ HourPasses

(* Members sign what they see, submitters relay what is signed, the source *)
(* chains pay what the log announces, and time passes.  The administrator, *)
(* the users and whoever makes members dishonest need never act.           *)
Fairness ==
  /\ \A k \in Members :
       WF_networkVars(\E msg \in deposits \cup Range(decided) : Attest(k, msg))
  /\ \A d \in DepositMessages : WF_networkVars(d \in deposits /\ RelayMint(d))
  /\ WF_networkVars(\E u \in Range(decided) : RelayUpdate(u))
  /\ WF_networkVars(\E i \in DOMAIN withdraw_events : Release(i))
  /\ WF_networkVars(HourPasses)

NetworkSpec == NetworkInit /\ [][NetworkNext]_networkVars /\ Fairness

-----------------------------------------------------------------------------
Asks(d, e) ==
  /\ e.nonce = d.nonce /\ e.route = RouteOf(d) /\ e.amount = d.amount
  /\ e.to_chain_id = d.to_chain_id /\ e.to_address = d.to_address

Forged == {i \in DOMAIN mint_events : \A d \in deposits : ~Asks(d, mint_events[i])}

NetworkTypeOK ==
  /\ TypeOK
  /\ deposits \subseteq DepositMessages
  /\ custody \in [Routes -> Nat]
  /\ released \subseteq DOMAIN withdraw_events
  /\ decided \in Seq(UpdateMessages)
  /\ signatures \subseteq
       [key : Members, msg : deposits \cup Range(decided)]
  /\ dishonest \subseteq Corruptible

(* README.md:36 "mint only with enough committee stake": as long as the    *)
(* dishonest members that are not blocklisted hold less than the required  *)
(* stake, a mint matches a deposit made on the source chain, to the        *)
(* recipient, amount, token and Solana chain it was made for, whichever    *)
(* signatures were collected before members were blocklisted, re-weighted  *)
(* or became dishonest.                                                    *)
MintsAreDeposits ==
  [][StakeOfMembers(dishonest) < TRANSFER_STAKE_REQUIRED
       => Forged' \subseteq Forged]_networkVars

(* Likewise, a minority of dishonest members changes no limit: the update  *)
(* applied next is the one the committee decided next.                     *)
LimitsAreDecided ==
  [][/\ StakeOfMembers(dishonest) < BRIDGE_LIMIT_STAKE_REQUIRED
     /\ limit_events' # limit_events
     => \E u \in Range(decided) :
          /\ u.nonce = update_nonce
          /\ limit_events'[Len(limit_events')].route = <<u.target_chain_id, u.token_id>>
          /\ limit_events'[Len(limit_events')].total_limit = u.total_limit]_networkVars

(* What the source chains hold covers the sBTC in circulation and the      *)
(* withdrawals announced but not yet paid, up to what was minted without a *)
(* deposit; payments may arrive in any order.                              *)
CustodyCoversSupply ==
  SumFunction(sbtc_supply)
    + SumFunction([i \in DOMAIN withdraw_events \ released |-> withdraw_events[i].amount])
    <= SumFunction(custody)
         + SumFunction([i \in Forged |-> mint_events[i].amount])

(* README.md:33: no order of payments leaves a withdrawal that its source  *)
(* chain cannot pay: as long as nothing was minted without a deposit and   *)
(* one token takes all deposits, each announced withdrawal that is unpaid  *)
(* has a nonce of its own and its amount is locked for the token it names. *)
WithdrawalsPayable ==
  /\ Forged = {}
  /\ \A c, d \in deposits : RouteOf(c) = RouteOf(d)
  => \A i \in DOMAIN withdraw_events \ released :
       LET e == withdraw_events[i] IN
       /\ \A j \in released : withdraw_events[j].nonce # e.nonce
       /\ e.amount <= custody[e.route]

(* A deposit the program can mint: the bridge, chain, token and a          *)
(* submitter are in use, its amount is between the minimum and the limit,  *)
(* and honest members hold the required stake.                             *)
Mintable(d) ==
  /\ \E submitter \in Submitters : submitter_pda[submitter].is_submitter
  /\ BridgeOpen(d.to_chain_id)
  /\ d.to_chain_id # d.source_chain_id
  /\ ChainOpen(d.source_chain_id)
  /\ TokenOpen(RouteOf(d))
  /\ d.amount >= token_config[RouteOf(d)].token_min_amount
  /\ limiter[RouteOf(d)].is_initialized
  /\ d.amount <= limiter[RouteOf(d)].total_limit
  /\ StakeOfMembers(Members \ dishonest) >= TRANSFER_STAKE_REQUIRED

(* Members that vouch for a deposit. *)
Signers(d) == {k \in Members : Signature(k, d) \in signatures}

Minted(d) == \E i \in DOMAIN mint_events : Asks(d, mint_events[i])

(* Some submitter can relay signatures that pass every check but those of  *)
(* the limiter and the largest supply. *)
Acceptable(d) ==
  \E submitter \in Submitters, sigs \in AvailableLists(d) :
    MintAccounts(submitter, d) /\ Verify(sigs, d, TokenTransfer)

(* What DepositsMinted rests on: no deposit is locked out.  As long as     *)
(* nothing was minted without a deposit, a mintable deposit that was not   *)
(* minted, and that signers with the required stake vouch for, can be      *)
(* relayed: nobody else has used up its nonce, and some of the signatures  *)
(* make up a list that verify accepts, whatever became of the committee    *)
(* since they were made.                                                   *)
DepositsAcceptable ==
  Forged = {} =>
    \A d \in deposits :
      /\ ~Minted(d)
      /\ Mintable(d)
      /\ IsFiniteSet(Signers(d))
      /\ Cardinality(Signers(d)) <= MaxSignatures
      /\ Cardinality(Signers(d)) <= MAX_SIGNATURES
      /\ StakeOfMembers(Signers(d)) >= TRANSFER_STAKE_REQUIRED
      => Acceptable(d)

(* README.md:20-29: every deposit that stays mintable is minted in the     *)
(* end, though the limiter turns it down while the hours before it are     *)
(* full, and though other deposits compete for the same limit.             *)
DepositsMinted ==
  \A d \in DepositMessages :
    <>[]Mintable(d) =>
      (d \in deposits ~> <<d.source_chain_id, d.nonce>> \in mint_nonces)

Applicable(u) ==
  /\ \E submitter \in Submitters : submitter_pda[submitter].is_submitter
  /\ bridge_config[u.chain_id].is_initialized
  /\ ChainOpen(u.target_chain_id)
  /\ TokenOpen(<<u.target_chain_id, u.token_id>>)
  /\ StakeOfMembers(Members \ dishonest) >= BRIDGE_LIMIT_STAKE_REQUIRED

(* The limiter updates share one nonce, so an update waits for those       *)
(* before it, and these for their own routes to be open: it is applied in  *)
(* the end if it and all those before it stay applicable.                  *)
UpdatesApplied ==
  \A k \in 1 .. MaxLimitUpdates :
    <>[](\A j \in DOMAIN decided : j <= k => Applicable(decided[j])) =>
      (k \in DOMAIN decided ~> update_nonce >= k)

(* README.md:33: every withdrawal in the log is paid on the source chain,  *)
(* once, as long as nothing was minted without a deposit and one token     *)
(* takes all deposits: with two, more can be withdrawn to one of them than *)
(* it has locked (RouteNotOverdrawn).                                      *)
WithdrawalsReleased ==
  \A i \in 1 .. MaxWithdrawals :
    i \in DOMAIN withdraw_events ~> (i \in released \/ Forged # {})
=============================================================================
