------------------------------- MODULE Bridge -------------------------------
(***************************************************************************)
(* The whole program: the configuration and committee accounts, the        *)
(* limiters, the nonces and the sBTC mints, and every instruction as one   *)
(* action.  A transaction is atomic and an error reverts it, so an action  *)
(* is an instruction that succeeds; a rejected one changes nothing.        *)
(*                                                                         *)
(* sbtc_supply, sbtc_balance and sbtc_ata stand for the SPL token program  *)
(* and the associated token program.  The three event sequences are the    *)
(* program's log.                                                          *)
(***************************************************************************)
EXTENDS Committee, HourRing

CONSTANTS
  Users,              \* keys that hold, send and withdraw sBTC
  Amounts,            \* amounts tried
  AddressLengths,     \* lengths tried for the address on the source chain
  MintNonces,         \* nonces the source chains give their deposits
  MintRoutes,         \* routes that are minted through and limited
  Limits,             \* limits tried
  U64_MAX,            \* 2^64 - 1, the largest supply of an SPL mint
  MAX_TIME,           \* bound on the clock, in seconds
  MaxLimitUpdates,    \* bound on accepted limiter updates
  MaxWithdrawals,     \* bound on accepted withdrawals
  MaxSignatures       \* bound on the signatures of a transaction

MAX_STRING_LENGTH == 255

ASSUME BridgeAssumption ==
  /\ Users \subseteq Pubkeys \ {DefaultKey}
  /\ Amounts \subseteq 0 .. U64_MAX
  /\ AddressLengths \subseteq Nat
  /\ MintNonces \subseteq Nat
  /\ MintRoutes \subseteq Routes
  /\ Limits \subseteq 0 .. U64_MAX
  /\ {U64_MAX, MAX_TIME, MaxLimitUpdates, MaxWithdrawals, MaxSignatures} \subseteq Nat

VARIABLES
  limiter,          \* ChainTokenLimiter accounts
  update_nonce,     \* Nonces account of limiter updates
  withdraw_nonce,   \* Nonces account of withdrawals
  mint_nonces,      \* NoncesDummy accounts that exist
  sbtc_supply, sbtc_balance, sbtc_ata,
  unix_timestamp,
  limit_events, mint_events, withdraw_events

tokenVars == <<sbtc_supply, sbtc_balance, sbtc_ata>>

eventVars == <<limit_events, mint_events, withdraw_events>>

vars == <<configVars, committeeVars, limiter, update_nonce, withdraw_nonce,
          mint_nonces, tokenVars, unix_timestamp, eventVars>>

MintMessages ==
  [message_type : {TokenTransfer, UpdateBridgeLimit}, nonce : MintNonces,
   source_chain_id : ChainIds, source_token_id : TokenIds,
   to_chain_id : ChainIds, to_address : Users, amount : Amounts]

LimitMessages ==
  [message_type : {TokenTransfer, UpdateBridgeLimit},
   nonce : 0 .. MaxLimitUpdates, chain_id : ChainIds,
   target_chain_id : ChainIds, token_id : TokenIds, total_limit : Limits]

WithdrawMessages ==
  [to_chain_id : ChainIds, to_token_id : TokenIds, to_address_len : AddressLengths,
   chain_id : ChainIds, from_address : Users, amount : Amounts]

Init ==
  /\ ConfigInit
  /\ CommitteeInit
  /\ limiter = [r \in Routes |-> NoLimiter]
  /\ update_nonce = 0
  /\ withdraw_nonce = 0
  /\ mint_nonces = {}
  /\ sbtc_supply = [b \in ChainIds |-> 0]
  /\ sbtc_balance = [b \in ChainIds |-> [k \in Pubkeys |-> 0]]
  /\ sbtc_ata = {}
  /\ unix_timestamp = 0
  /\ limit_events = <<>>
  /\ mint_events = <<>>
  /\ withdraw_events = <<>>

-----------------------------------------------------------------------------
BridgeOpen(b) ==
  bridge_config[b].is_initialized /\ ~bridge_config[b].withdraw_paused

ChainOpen(c) ==
  supported_chain_config[c].is_initialized /\ supported_chain_config[c].supported

TokenOpen(r) == token_config[r].is_initialized /\ ~token_config[r].withdraw_paused

(* Defects the checks must notice: the nonce account is not created, the   *)
(* nonces are a counter that leaves those before it behind.                *)
ConsumedNoNonce(msg) == mint_nonces

ConsumedUpToNonce(msg) ==
  mint_nonces \cup ({msg.source_chain_id} \X (0 .. msg.nonce))

ConsumedNonce(msg) == mint_nonces \cup {<<msg.source_chain_id, msg.nonce>>}

(* The token accounts once owner has one on bridge b. *)
WithAta(b, owner) == sbtc_ata \cup {<<b, owner>>}

(* What the instruction demands of the accounts it names. *)
MintAccounts(submitter, msg) ==
  LET c == msg.source_chain_id
      r == <<c, msg.source_token_id>>
  IN
  /\ submitter_pda[submitter].is_submitter
  /\ BridgeOpen(msg.to_chain_id)
  /\ msg.to_chain_id # c
  /\ ChainOpen(c)
  /\ TokenOpen(r)
  /\ msg.amount >= token_config[r].token_min_amount
  /\ <<c, msg.nonce>> \notin mint_nonces
  /\ limiter[r].is_initialized

MintSbtcWithSignatures(submitter, sigs, msg) ==
  LET b == msg.to_chain_id
      c == msg.source_chain_id
      r == <<c, msg.source_token_id>>
      h == CurrentHour(unix_timestamp)
  IN
  /\ MintAccounts(submitter, msg)
  /\ Verify(sigs, msg, TokenTransfer)
  /\ sbtc_supply[b] + msg.amount <= U64_MAX
  /\ Admits(limiter[r], h, msg.amount)
  /\ mint_nonces' = ConsumedNonce(msg)
  /\ sbtc_ata' = WithAta(b, msg.to_address)
  /\ sbtc_supply' = [sbtc_supply EXCEPT ![b] = @ + msg.amount]
  /\ sbtc_balance' = [sbtc_balance EXCEPT ![b][msg.to_address] = @ + msg.amount]
  /\ supported_chain_config' =
       [supported_chain_config EXCEPT ![c].mint_total = @ + msg.amount]
  /\ token_config' = [token_config EXCEPT ![r].mint_total = @ + msg.amount]
  /\ limiter' = [limiter EXCEPT ![r] = Recorded(@, h, msg.amount)]
  /\ mint_events' =
       Append(mint_events,
              [nonce |-> msg.nonce, route |-> r, to_chain_id |-> b,
               to_address |-> msg.to_address, amount |-> msg.amount, hour |-> h,
               chain_mint_total |-> supported_chain_config'[c].mint_total,
               token_mint_total |-> token_config'[r].mint_total])
  /\ UNCHANGED <<bridge_config, committeeVars, update_nonce, withdraw_nonce,
                 unix_timestamp, limit_events, withdraw_events>>

(* Defects the checks must notice: the fee is taken for basis points, the  *)
(* released amount still includes the fee, the nonce is not incremented.   *)
FeeInBasisPoints(amount, percentage) == (amount * percentage) \div 10000

Fee(amount, percentage) == (amount * percentage) \div FEE_DENOMINATOR

ReleasedWithFee(amount, fee) == amount

(* What is burned here and released on the source chain. *)
Released(amount, fee) == amount - fee

RepeatedWithdrawNonce == withdraw_nonce

NextWithdrawNonce == withdraw_nonce + 1

WithdrawAccounts(user, msg) ==
  LET c == msg.to_chain_id
      r == <<c, msg.to_token_id>>
  IN
  /\ user = msg.from_address
  /\ BridgeOpen(msg.chain_id)
  /\ msg.chain_id # c
  /\ ChainOpen(c)
  /\ msg.amount <= supported_chain_config[c].mint_total
  /\ TokenOpen(r)
  /\ msg.amount >= token_config[r].token_min_amount
  /\ msg.amount <= token_config[r].mint_total

(* The search for the token accounts gives each address to the first role  *)
(* it fits, so one address cannot fill two.                                *)
RolesFound(user, fee_recipient) == user # fee_recipient

(* The two mint_total accounts are not writable in this instruction: the   *)
(* subtraction reaches the event and is not stored.                        *)
WithdrawBtc(user, msg) ==
  LET b == msg.chain_id
      c == msg.to_chain_id
      r == <<c, msg.to_token_id>>
      fee_recipient == bridge_config[b].fee_recipient
      fee == Fee(msg.amount, token_config[r].token_fee_percentage)
  IN
  /\ WithdrawAccounts(user, msg)
  /\ msg.to_address_len <= MAX_STRING_LENGTH
  /\ RolesFound(user, fee_recipient)
  /\ <<b, user>> \in sbtc_ata
  /\ msg.amount <= sbtc_balance[b][user]
  /\ Released(msg.amount, fee) <= sbtc_supply[b]  \* checked by burn
  /\ withdraw_nonce' = NextWithdrawNonce
  /\ sbtc_ata' = WithAta(b, fee_recipient)
  /\ sbtc_balance' = [sbtc_balance EXCEPT ![b][user] = @ - msg.amount,
                                          ![b][fee_recipient] = @ + fee]
  /\ sbtc_supply' = [sbtc_supply EXCEPT ![b] = @ - Released(msg.amount, fee)]
  /\ withdraw_events' =
       Append(withdraw_events,
              [nonce |-> withdraw_nonce', route |-> r, chain_id |-> b,
               from_address |-> user, amount |-> Released(msg.amount, fee),
               original_amount |-> msg.amount,
               chain_mint_total |-> supported_chain_config[c].mint_total - msg.amount,
               token_mint_total |-> token_config[r].mint_total - msg.amount])
  /\ UNCHANGED <<configVars, committeeVars, limiter, update_nonce, mint_nonces,
                 unix_timestamp, limit_events, mint_events>>

(* Defects the checks must notice: any nonce is accepted, the nonce of the *)
(* update before is awaited.                                               *)
NonceIgnored(msg) == TRUE

NonceAhead(msg) == update_nonce + 1 = msg.nonce

NonceEqual(msg) == update_nonce = msg.nonce

LimitAccounts(submitter, msg) ==
  /\ submitter_pda[submitter].is_submitter
  /\ bridge_config[msg.chain_id].is_initialized
  /\ ChainOpen(msg.target_chain_id)
  /\ TokenOpen(<<msg.target_chain_id, msg.token_id>>)

AddOrUpdateLimiterWithSignatures(submitter, sigs, msg) ==
  LET r == <<msg.target_chain_id, msg.token_id>> IN
  /\ LimitAccounts(submitter, msg)
  /\ Verify(sigs, msg, UpdateBridgeLimit)
  /\ NonceEqual(msg)
  /\ update_nonce' = update_nonce + 1
  /\ limiter' = [limiter EXCEPT ![r] =
                   LimitSet(@, CurrentHour(unix_timestamp), msg.total_limit)]
  /\ limit_events' =
       Append(limit_events,
              [nonce |-> update_nonce', approved |-> msg.nonce, route |-> r,
               total_limit |-> msg.total_limit])
  /\ UNCHANGED <<configVars, committeeVars, withdraw_nonce, mint_nonces,
                 tokenVars, unix_timestamp, mint_events, withdraw_events>>

(* A holder sends sBTC through the SPL token program.                      *)
SplTransfer(b, from, to, amount) ==
  /\ from # to
  /\ <<b, from>> \in sbtc_ata
  /\ amount <= sbtc_balance[b][from]
  /\ sbtc_ata' = WithAta(b, to)
  /\ sbtc_balance' = [sbtc_balance EXCEPT ![b][from] = @ - amount,
                                          ![b][to] = @ + amount]
  /\ UNCHANGED <<configVars, committeeVars, limiter, update_nonce,
                 withdraw_nonce, mint_nonces, sbtc_supply, unix_timestamp,
                 eventVars>>

(* A holder destroys sBTC through the SPL token program. *)
SplBurn(b, from, amount) ==
  /\ <<b, from>> \in sbtc_ata
  /\ amount <= sbtc_balance[b][from]
  /\ amount <= sbtc_supply[b]  \* checked by burn
  /\ sbtc_balance' = [sbtc_balance EXCEPT ![b][from] = @ - amount]
  /\ sbtc_supply' = [sbtc_supply EXCEPT ![b] = @ - amount]
  /\ UNCHANGED <<configVars, committeeVars, limiter, update_nonce,
                 withdraw_nonce, mint_nonces, sbtc_ata, unix_timestamp,
                 eventVars>>

Tick ==
  /\ unix_timestamp < MAX_TIME
  /\ unix_timestamp' = unix_timestamp + 1
  /\ UNCHANGED <<configVars, committeeVars, limiter, update_nonce,
                 withdraw_nonce, mint_nonces, tokenVars, eventVars>>

AdminNext ==
  /\ \/ ConfigNext /\ UNCHANGED committeeVars
     \/ CommitteeNext
  /\ UNCHANGED <<limiter, update_nonce, withdraw_nonce, mint_nonces, tokenVars,
                 unix_timestamp, eventVars>>

(* All signature lists over one message.                                   *)
SignatureLists(msg) ==
  UNION {[1 .. n -> [key : Members, msg : {msg}]] : n \in 1 .. MaxSignatures}

MintNext ==
  \E submitter \in Submitters, nonce \in MintNonces, r \in MintRoutes,
     b \in ChainIds, u \in Users, amount \in Amounts :
    LET msg == [message_type |-> TokenTransfer, nonce |-> nonce,
                source_chain_id |-> r[1], source_token_id |-> r[2],
                to_chain_id |-> b, to_address |-> u, amount |-> amount]
    IN \E sigs \in SignatureLists(msg) :
         MintSbtcWithSignatures(submitter, sigs, msg)

LimitNext ==
  /\ Len(limit_events) < MaxLimitUpdates
  /\ \E submitter \in Submitters, nonce \in 0 .. MaxLimitUpdates,
        b \in ChainIds, r \in MintRoutes, limit \in Limits :
       LET msg == [message_type |-> UpdateBridgeLimit, nonce |-> nonce,
                   chain_id |-> b, target_chain_id |-> r[1], token_id |-> r[2],
                   total_limit |-> limit]
       IN \E sigs \in SignatureLists(msg) :
            AddOrUpdateLimiterWithSignatures(submitter, sigs, msg)

WithdrawNext ==
  /\ Len(withdraw_events) < MaxWithdrawals
  /\ \E user \in Users, msg \in WithdrawMessages : WithdrawBtc(user, msg)

Next ==
  \/ AdminNext
  \/ MintNext
  \/ LimitNext
  \/ WithdrawNext
  \/ \E b \in ChainIds, from, to \in Users, amount \in Amounts :
       SplTransfer(b, from, to, amount)
  \/ \E b \in ChainIds, from \in Users, amount \in Amounts :
       SplBurn(b, from, amount)
  \/ Tick

Spec == Init /\ [][Next]_vars

-----------------------------------------------------------------------------
LimitEvents ==
  [nonce : Nat, approved : Nat, route : Routes, total_limit : Nat]

MintEvents ==
  [nonce : Nat, route : Routes, to_chain_id : ChainIds, to_address : Pubkeys,
   amount : Nat, hour : Nat, chain_mint_total : Nat, token_mint_total : Nat]

WithdrawEvents ==
  [nonce : Nat, route : Routes, chain_id : ChainIds, from_address : Pubkeys,
   amount : Nat, original_amount : Nat, chain_mint_total : Nat,
   token_mint_total : Nat]

TypeOK ==
  /\ ConfigTypeOK
  /\ committee \in [Pubkeys -> CommitteeAccounts]
  /\ submitter_pda \in [Pubkeys -> SubmitterAccounts]
  /\ limiter \in [Routes -> LimiterAccounts]
  /\ update_nonce \in Nat
  /\ withdraw_nonce \in Nat
  /\ mint_nonces \in SUBSET (ChainIds \X Nat)
  /\ sbtc_supply \in [ChainIds -> 0 .. U64_MAX]
  /\ sbtc_balance \in [ChainIds -> [Pubkeys -> Nat]]
  /\ sbtc_ata \in SUBSET (ChainIds \X Pubkeys)
  /\ unix_timestamp \in Nat
  /\ limit_events \in Seq(LimitEvents)
  /\ mint_events \in Seq(MintEvents)
  /\ withdraw_events \in Seq(WithdrawEvents)

SumEvents(events, Value(_)) ==
  SumFunction([i \in DOMAIN events |-> Value(events[i])])

(* README.md:32 "Nonce is consumed": a deposit, named by its source chain  *)
(* and nonce, is minted at most once, whatever signatures, limits and      *)
(* configuration changes come between two attempts.                        *)
MintedOncePerNonce ==
  \A i, j \in DOMAIN mint_events :
    /\ mint_events[i].route[1] = mint_events[j].route[1]
    /\ mint_events[i].nonce = mint_events[j].nonce
    => i = j

(* The supply of each sBTC mint is never more than what was minted less    *)
(* what was announced for release on the source chain, so the deposits not *)
(* yet released cover it; and the holders' balances add up to it, fees     *)
(* included.                                                               *)
SupplyBacked ==
  \A b \in ChainIds :
    /\ sbtc_supply[b]
         + SumEvents(withdraw_events,
                     LAMBDA e : IF e.chain_id = b THEN e.amount ELSE 0)
         <= SumEvents(mint_events,
                      LAMBDA e : IF e.to_chain_id = b THEN e.amount ELSE 0)
    /\ sbtc_supply[b] = SumFunction(sbtc_balance[b])

(* The mint_total of a token, and that of its chain, is the sum of the     *)
(* mints that named them: re-creating, re-adding, disabling or pausing a   *)
(* chain or token never restarts the count withdrawals are checked against. *)
MintTotalsCount ==
  /\ \A r \in Routes :
       token_config[r].mint_total =
         SumEvents(mint_events, LAMBDA e : IF e.route = r THEN e.amount ELSE 0)
  /\ \A c \in ChainIds :
       supported_chain_config[c].mint_total =
         SumEvents(mint_events, LAMBDA e : IF e.route[1] = c THEN e.amount ELSE 0)

(* A token's mint_total never exceeds its chain's, so the chain check of   *)
(* withdraw_btc (line 140) never rejects what the token check allows.      *)
TokenWithinChain ==
  \A r \in Routes :
    token_config[r].mint_total <= supported_chain_config[r[1]].mint_total

(* Limiter updates take effect in the order the committee numbered them,   *)
(* each at most once and without gaps, across all routes; the limit in     *)
(* force on a route is that of the latest update that names it.            *)
LimitsInOrder ==
  /\ update_nonce = Len(limit_events)
  /\ \A i \in DOMAIN limit_events :
       /\ limit_events[i].approved = i - 1
       /\ \/ limiter[limit_events[i].route].total_limit = limit_events[i].total_limit
          \/ \E j \in DOMAIN limit_events :
               j > i /\ limit_events[j].route = limit_events[i].route

(* A withdrawal of a positive amount always releases something on the      *)
(* source chain, whatever fee was configured when it executed, and the fee *)
(* is never larger than the amount (no u64 underflow at line 68).          *)
WithdrawalReleases ==
  \A i \in DOMAIN withdraw_events :
    LET e == withdraw_events[i] IN
    /\ e.amount <= e.original_amount
    /\ e.original_amount > 0 => e.amount > 0

(* Validators on the source chain can tell withdrawals apart and order     *)
(* them: the nonces in the log are 1, 2, 3, ... without gap or repeat.     *)
WithdrawalsNumbered ==
  /\ withdraw_nonce = Len(withdraw_events)
  /\ \A i \in DOMAIN withdraw_events : withdraw_events[i].nonce = i

(* withdraw_btc.rs:154 `amount <= token_config.mint_total @ LackTargetMint`, *)
(* with the subtraction of lines 92-93: what is withdrawn to a token of a  *)
(* source chain stays within what was minted from it.                      *)
RouteNotOverdrawn ==
  \A r \in Routes :
    SumEvents(withdraw_events,
              LAMBDA e : IF e.route = r THEN e.original_amount ELSE 0)
      <= SumEvents(mint_events, LAMBDA e : IF e.route = r THEN e.amount ELSE 0)
=============================================================================
