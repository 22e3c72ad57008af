# A TLA+ model of the sol-btc-bridge program

The program mints sBTC on Solana for deposits that a committee attests, burns it
for withdrawals that validators complete on the source chain, and limits how
much comes in. This directory holds TLA+ modules translated from the Rust source
under `programs/bridge/src`, the TLC configurations that check them on small
instances, and theorems about them that TLAPS checks.

In what follows a *bridge* is one `BridgeConfig` (a Solana chain id with its own
sBTC mint), a *route* is a source chain and one of its tokens.

## Inventory

| Part | State | Operations | Correct when |
|---|---|---|---|
| `config` | `BridgeConfig` per bridge; `SupportedChainConfig` per chain and `TokenConfig` per route, **shared by all bridges** | `create_bridge_config` (super admin), `add_or_update_chain`, `add_or_update_chain_token` (admin) | no fee of the whole amount; terms of a token change only by its update; totals are never restarted |
| `committee` | `Committee` per member key, `Submitter` per submitter key, shared by all bridges | `create_bridge_committee`, `add_or_update_committee`, `add_or_update_submitter` (admin) | a member's account names its own key; revocations last until an update lifts them |
| `verify` (`utils`) | none; reads the committee, the transaction's Ed25519 pre-instructions, a nonce | `verify`, `required_stake` | an approval has the required stake behind distinct, eligible members |
| `limiter` | `ChainTokenLimiter` per route: a limit and a ring of 24 hours | `check_transfer` (in a mint), `add_or_update_limiter_with_signatures` | inflow is capped; old transfers are forgotten in time; updates take effect in order |
| `echo_bridge` mint | nonce accounts, totals of chain and token, supply and balances | `mint_sbtc_with_signatures` | a deposit is minted at most once; supply and totals count the mints |
| `echo_bridge` withdraw | withdrawal counter, supply and balances, log | `withdraw_btc` | supply minus burns; something is released; withdrawals are numbered |
| nonces | one counter of limiter updates, one of withdrawals (both global), one account per minted deposit | within the above | no reuse, no gap |
| SPL token, associated token, clock, lamports | external | transfers, account creation, time | - |
| source chains, validators, submitter processes (external: not in the repository) | deposits and custody per route, decided limiter updates, signatures, dishonest members | deposit, decide, attest, relay, release | what is minted was deposited; custody covers what circulates; what is signed and relayed is carried out |
| `sdk/`, `tests/`, `target/` | none | build transactions, drive the program | not modelled |

**How the parts interact.** Everything happens inside transactions. A
transaction names its accounts; the program derives the address each account
must have, loads it and checks the constraints of the handler's `Accounts`
struct; then the handler runs and calls the token program. A transaction is
atomic: an error anywhere, arithmetic overflow included (the release profile has
`overflow-checks = true`), leaves no trace. Transactions of admins, submitters,
users and strangers interleave arbitrarily at that grain. There are no
callbacks, no partial commits and no crash states within the program. Between
transactions the rest of the system works: a user locks an asset on a source
chain, each committee member that sees the deposit signs the mint message, a
submitter collects signatures and relays them in one transaction; a withdrawal
ends as an event in the log, which the source chain's side answers with a payment
(repository README, lines 18-37).

**What is hard.** So the difficulty is not in the interleaving of small steps
but in long sequences of legal transactions by different parties: accounts
created twice, under another bridge, or at addresses that already hold lamports
(creation looks at lamports, updates at `is_initialized`); the relay of old or
repeated approvals; limits that change within an hour; a ring that lags behind
after idle time; fees, pauses and chains that change between a mint and the
withdrawals it backs; and the edges of u16, u32 and u64. `PROJECT.json` lists
these hazards at their lines with the properties aimed at each.

## Modules

| Module | Models | Code |
|---|---|---|
| `HourRing` | the limiter account and its arithmetic, as operators | `limiter/` |
| `Limiter` | one limiter account over time, with the true elapsed time as history | `limiter/` |
| `Config` | the configuration accounts and their three instructions | `config/` |
| `Committee` (extends `Config`) | members, submitters, their three instructions, `verify` | `committee/`, `utils/msgs/common.rs`, `utils/ed25519.rs` |
| `Governance` (extends `Committee`) | all admin instructions interleaved from the empty program | `config/`, `committee/` |
| `Bridge` (extends `Committee`, `HourRing`) | the whole program: admin instructions, mints, withdrawals, limiter updates, holders' token transfers and burns, time | all |
| `Ledger` | the abstract specification: deposits spent once within limits, supply, numbered releases, limits | what `echo_bridge/` and `limiter/` promise |
| `BridgeLedger` (extends `Bridge`) | the refinement mapping from `Bridge` to `Ledger` | |
| `BridgeLimiter` (extends `BridgeLedger`) | the refinement mapping from `Bridge` to `Limiter`, for any one route | |
| `Network` (extends `Bridge`) | the program between source chains, committee members, submitters and the clock, with fairness | external, from README.md:18-37; the relays are the program's instructions |
| `Peg` | the abstract specification of the whole bridge, from deposit to payment | what README.md:18-37 promises |
| `NetworkPeg` (extends `Network`) | the refinement mapping from `Network` to `Peg` | |
| `MCGovernance`, `MCBridge`, `MCNetwork` | argument lists for TLC | |
| `SumProofs`, `HourRingProofs`, `LimiterProofs`, `CommitteeProofs`, `GovernanceProofs`, `BridgeProofs`, `BridgeLimiterProofs`, `NetworkProofs` | theorems | |

**Correspondence.** Each account type is a function from the seeds of its
address to its fields: `token_config[<<chain, token>>]`,
`committee[key]`, `submitter_pda[key]`, `limiter[<<chain, token>>]`. The seeds
decide what is shared: chain, token, member and limiter accounts do not carry
the bridge's chain id, so two bridges share them; `update_nonce` and
`withdraw_nonce` are one account each. An account that does not exist is a
record of zeroes. Where the code looks at lamports, the record has a field
`lamports`, which a stranger may set (`SendLamportsTo...`).

One instruction is one action, named after its handler. Its conjuncts are, in
order, the account constraints, the checks of the handler, then the writes.
An action is the instruction that succeeds; a rejected one is a stuttering step.
The constraints of a larger `Accounts` struct are an operator of their own
(`MintAccounts`, `WithdrawAccounts`, `LimitAccounts`, `NewBridgeAccounts`), as
are the helpers of `utils.rs` with an effect (`WithAta`: create the token account
if it is missing; `RolesFound`: the account search of a withdrawal).
`MintSbtcWithSignatures` includes the token account it may create, the totals,
`check_transfer` with its clearing of the ring, and the event;
`WithdrawBtc` includes the creation of the fee recipient's token account, the fee
transfer, the burn and the event. The three event sequences of `Bridge` are the
program's log, the only thing the source chain's validators see, and most
properties of `Bridge` relate the log to the accounts.

Details of the code that the model keeps because properties depend on them:

- `create_bridge_config` and `create_bridge_committee` skip entries whose account
  has lamports, and the first of two equal entries counts. The fee bound is only
  checked for tokens it creates.
- `Submitter.is_initialized` is never set by any instruction.
- `BridgeConfig.withdraw_paused` is never set either; its guards are kept.
- The pause of a token stops mints and limiter updates as well as withdrawals.
- A mint accepts any nonce whose account does not exist; a limiter update only
  the next one; a withdrawal takes none and numbers itself.
- `withdraw_btc` does not declare the chain and token accounts `mut`: the
  subtraction from `mint_total` is in the event and nowhere else.
- A user who is the fee recipient cannot withdraw (`get_accounts` fills one role
  only).
- `check_transfer` clears the slots from `oldest_hour` up to the hour before the
  current one, at most 24, and advances `oldest_hour` by as many hours.
- A `total + amount` beyond the u64 aborts like an exceeded limit, so a sum in
  the naturals has the same outcome. The sums that can abort on their own, the
  u16 stake sum and the u8 loop bound of `verify`, are guards.

Data that is abstracted: a signature is the signing key and the signed message;
messages are records of the fields the handlers read; addresses on the source
chain are reduced to their length; token names, metadata, versions and padding
are left out. A limiter's `chain_id` and `token_id` are only echoed in its event
and left out.

`Bridge` puts no restriction on what the committee signs: in every state, every
list of members' signatures over every message of the instance can be relayed.
This includes repeated, reordered, stale and lost relays of approvals, with any
submitter. It also includes messages no honest committee signs; the properties
of `Bridge` hold regardless.

`Network` adds who signs what. Its program is `Bridge` unchanged: `RelayMint` and
`RelayUpdate` take the program's step with signatures that can be had, and
`UsersNext` is everything else the program does. Around it:

- `Deposit` locks an amount on a source chain and numbers the deposit; the
  numbers are per chain. `Decide` appends to the committee's list of limiter
  updates. `Attest` is one honest member signing one deposit or decision, at its
  own time. Signatures are published in a set and never leave it, so a relay
  that is lost, repeated, late or out of order is a relay that happens never,
  again, later or in another order, and no queue of messages is needed.
- `Compromise` makes a member dishonest for good: from then on every signature of
  it can be had. Stakes and the blocklist are read when the approval is relayed,
  and an admin changes them between signing and relaying.
- `Release` pays a logged withdrawal on its source chain, in any order, told
  apart from the others by its nonce only, and only out of what its route has
  locked.
- `HourPasses` replaces `Tick`: hours modulo `U32`, so that the clock runs for
  ever in a finite model. `RingsRecent` keeps it from lapping a ring that takes
  deposits (a real one would need 2^32 hours); at that bound time stops while the
  ring is empty and admits every mint.

`Ledger` has no accounts, signatures, fees or hours. `BridgeLedger` maps the
nonce accounts to `spent`, the sBTC supplies to `supply`, the limiters'
`total_limit` to `limit`, the update counter to `updates` and the withdrawal log
to `releases`; every other change of the program is a stuttering step.

`BridgeLimiter` maps the program to `Limiter` on one route, `Watched`, which is any
route. The limiter's account is the route's; the inflow that `Limiter` keeps as
history is what the log says was minted through the route in each of the last
hours, and `behind` is the distance from the ring's oldest hour to the clock. The
two history variables that cannot be read off a state, the lag at the start of
the hour and the highest limit in force in it, are added to the program
(`History`) and constrain none of its steps.

`Peg` is the view of somebody outside: deposits that are locked, deposits that
were minted, supply per Solana chain, withdrawals announced and not paid. A mint
uses up one locked deposit, in its amount and on the chain it asks for; a payment
settles one announced withdrawal out of what is locked. `NetworkPeg` maps `deposits`,
`mint_nonces`, `sbtc_supply`, `withdraw_nonce`, the unpaid events of the log and
`custody` to it. Steps taken while the dishonest members have the required stake
(not `HonestMajority`) are unconstrained, since such a committee can mint what it
likes; the steps after it has lost the stake again are constrained as before.

## Runs

Passing runs:

| Run | Module | Asks | Distinct states |
|---|---|---|---|
| `limiter` | `Limiter` | what the limiter really caps and when it recovers | 10362 |
| `governance` | `MCGovernance` | what repeated, overlapping admin instructions can do to members and terms, and what the committee can and must be able to approve in every reachable state | 3256 |
| `bridge` | `MCBridge` | mints, withdrawals, limits, holders' transfers and burns, time, two tokens of one chain; each step a step of the ledger, and on a route a step of the limiter | 234616 |
| `network` | `MCNetwork` | two bridges over one route, two members of whom one may turn dishonest and both may be blocklisted, while the chain, fee and pause change; each step a step of the peg | 532864 |
| `network_live` | `MCNetwork` | whether deposits that compete for a limit, updates that queue behind one nonce, and withdrawals are carried out in the end | 53547 |

Properties:

- `HourlyInflowBound` is the cap the limiter enforces: the limit in force per
  hour, times the whole ring turns of idle time before that hour if there were
  two or more. `NoStaleRejection` and `RoomNextHour` are its other side: nothing
  expired counts, and a full limiter admits again within an hour.
  `HourlyMintCapped` states the same exact cap of a route in the whole program,
  idle turns included, for what the *log* says was minted; `RouteRecovers` that the
  route takes its whole limit again an hour later.
- `ImplementsLimiter`: on each route the program takes the steps of `Limiter` or
  none. No mint escapes `check_transfer`, and nothing but mints through the route
  and updates of its limit touches the ring.
- `HoursPassedIsElapsed`: the wrapping subtraction yields the true hours.
- `IndexIsKey`, `ApprovalNeedsDistinctStake`: an accepted list of signatures has
  the required stake behind distinct members that are not blocklisted. It is
  checked for every list up to three signatures in every state.
  `EligibleStakeApproves` is the converse: members that have the required stake
  together always have some list that `verify` accepts, although the u16 sum of
  others aborts.
- `BlocklistLiftedOnlyByUpdate`, `TermsChangeOnlyByUpdate` are action properties:
  creating committees and bridges again changes no existing member or token.
- `MintedOncePerNonce`, `SupplyBacked`, `MintTotalsCount`, `TokenWithinChain`,
  `LimitsInOrder`, `WithdrawalReleases`, `WithdrawalsNumbered` relate the log to
  the accounts. `SupplyBacked` is an inequality, because a holder may burn tokens
  through the token program without a withdrawal (`SplBurn`, external): a
  bridge's supply plus what it announced for release never exceeds what it
  minted, and the balances always add up to the supply. `MintTotalsCount`,
  `TokenWithinChain` and `WithdrawalReleases` are checked in `network`, where
  chains, tokens and fees change between mints.
- `ImplementsLedger` is the ledger's specification as a property of `Bridge`:
  whatever the instruction, it mints a fresh deposit within its limit, or burns,
  or withdraws under the next number exactly what it burns, or sets a limit, or
  leaves all of these alone.
- `MintsAreDeposits` and `LimitsAreDecided` are action properties: while the
  dishonest members that are not blocklisted hold less than the required stake
  *at that step*, a mint matches a deposit in recipient, amount, route, nonce and
  bridge, and a limiter update is the committee's next decision. They would fail
  if a list could repeat a signer, or if stale signatures counted with the stake
  of the time they were made.
- `CustodyCoversSupply`: what source chains hold covers all sBTC in circulation
  and all withdrawals not paid yet, over all routes together, up to what was
  minted without a deposit. Per route it does not hold: sBTC is fungible, and
  `route_overdrawn` shows a withdrawal to another token than was deposited.
- `WithdrawalsPayable`: when one token takes all deposits and nothing is forged,
  each unpaid withdrawal is told apart from the paid ones by its nonce and can be
  paid out of what its own route has locked, in whatever order the source chain
  pays.
- `DepositsAcceptable`: a mintable deposit that is not minted and has signatures
  with the required stake can be relayed at once. It fails if any
  instruction could use up the nonce of another deposit.
- `ImplementsPeg`: the network implements `Peg`, see above.
- `DepositsMinted`, `UpdatesApplied`, `WithdrawalsReleased` are liveness, see
  Fairness. `DepositsMinted` and `UpdatesApplied` are conditional on the deposit or
  the updates staying admissible, since an admin may pause a token for ever; an
  update needs all those numbered before it to stay admissible too, because all
  routes share one nonce.
  `WithdrawalsReleased` is checked where one token takes all
  deposits; with two it fails for the reason `route_overdrawn` shows.

Runs that expect a violation. Each checks one statement of the repository's docs,
comments or tests against the code and finds the code doing otherwise:

| Run | Statement | What the code does |
|---|---|---|
| `limiter_rolling` | README "24-hour rolling limiter" | the limit is per hour: a new hour erases the earlier ones |
| `limiter_idle` | test 3, "limit exceed" | after two idle ring turns the same hour lets the limit through more than once |
| `limiter_wrap` | comment on the u32 overflow | after the timestamp wraps the elapsed hours are wrong |
| `stake_overflow` | README "Approvals must reach `required_stake`" | a stake sum beyond 65535 aborts |
| `submitter_revival` | development.md "Updates go through `add_or_update_*`" | repeating `create_bridge_committee` restores a revoked submitter |
| `listed_chains` | lib.rs "chain IDs that will be supported" | a listed chain that exists and is disabled stays disabled |
| `route_overdrawn` | test 4, "token exceed", `LackTargetMint` | withdrawals to a token can exceed the mints from it |

(The tests quoted pass even when the program does not reject: they assert only
inside `catch`.)

**Bounds and why they are enough.** `MAX_TIME`, `MaxLimitUpdates`,
`MaxWithdrawals`, `MaxSignatures`, `U64_MAX` and the argument sets are the bounds.

- `limiter`: 3 slots, hours of 2 seconds, 11 hours. The behaviour of the ring
  depends on the idle time compared with one and two turns, and 11 hours hold
  three turns; two limits cover raising and lowering. `limiter_wrap` uses a
  modulus of 9, no multiple of the hour, as 2^32 is none of 3600.
- `governance`: two bridges that share a chain and token, two members and three
  signatures, so that lists repeat a signer; stakes below, at and above both
  thresholds; an entry listed twice; a fee of the denominator. One stake is 65000, so that
  sums of stakes pass the u16.
- `bridge`: two tokens of one chain, two nonces, two holders of whom one is the
  fee recipient, limits and a largest supply that the amounts reach.
  The committee is fixed here (two members who need each other for a mint); its
  changes are the subject of `governance` and `network`. A ring of one
  slot and three hours: a ring can be two turns idle, from where on one hour lets
  through more than one limit. Longer rings are the subject of `limiter`.
- `network`: two bridges over one route, fees of zero and of the denominator
  (which must be rejected), one chain to disable and enable again, two deposits
  to different bridges with different amounts, one limiter update, two
  withdrawals. Each of two members has half of the required stake of a mint, so
  a mint needs both and one dishonest member is a minority; both can be
  blocklisted and reinstated after they signed. The one corruptible member never
  has the stake of a mint, so nothing is forged in the instance and
  `HonestMajority` holds throughout; the proofs also cover committees that do
  forge. A ring of one slot and a clock modulo 2: the hours only decide when the
  limit is free again.
- `network_live`: a ring of two slots and a clock modulo 3, which wraps, so runs
  are infinite; a limit that holds one of the two deposits per hour, so that they
  compete; two updates, for two routes, that share the nonce; tokens that an admin
  pauses and reopens at will; one member.

CHECK_DEADLOCK is off in the runs of `Bridge` and `Network` that pass, where the
bounded clock, nonces and counters use up every action. The bounds are guards of
`MintNext`, `LimitNext`, `WithdrawNext` and `Tick`, so the proofs below hold for any
value of them.

**Fairness.** `Limiter`, `Governance` and `Bridge` assume none: within one transaction
nothing waits and no party is obliged to submit one; `RoomNextHour` states the
recovery of a full limiter without it. `Network` assumes weak fairness of what
the repository's README makes somebody's duty: each member attests what it saw
(lines 21-24), a submitter relays each deposit and the next decided update
(lines 23 and 32), the source chain pays logged withdrawals (lines 25-29 and 33), and
hours pass. Weak fairness is enough and is all that holds: a relay is owed only
while it would succeed without interruption, and a deposit that a full limiter
turns down becomes admissible at the next hour and stays so unless another
deposit takes its place. Nothing is assumed of admins, users, holders, of those
who make deposits or decisions, or of members turning dishonest. A condition
that has to hold from some time on (`<>[]Mintable(d)`) is a premise of the
property, not of the specification.

## Proofs

All theorems hold for every value of the constants that satisfies the modules'
assumptions: any number of bridges, chains, tokens, keys and members, any
arguments, any ring size, hour length and modulus.

- `SumProofs`: facts about `SumFunction`, which the library defines by a fold and
  about which no induction is available. They are won by counting: a sum of
  naturals is the cardinality of a set of pairs, one for each unit of each term
  (`SumIsTotal`), and the library's theorems on finite sets then give what a sum
  does when a term changes, is added, is zero or grows (`SumExcept`, `SumExtend`,
  `SumOfZeros`, `SumMonotone`, ...).
- `HourRingProofs`: the current hour, the clearing and the recording keep a
  limiter account well formed; division facts about hours. The central fact is
  that a ring only ever counts the running hour (`OnlyThisHour`): the next hour
  clears the rest (`NextHourEmpty`), and a transfer at hour h moves the ring on by
  at most a turn and counts itself unless the ring still lags (`TransferInHour`).
- `LimiterProofs`: `LimiterTypeCorrect`, and, as long as `MAX_TIME < U32`:
  `LimiterMeasuresTime` (`HoursPassedIsElapsed`), with the strengthening `RingOnTime`:
  `oldest_hour + behind = the true hour`; clearing n slots moves both by n, the
  clock moves one of them and the hour. `LimiterForgetsInTime` and
  `RoomAgainNextHour` follow from `OnlyThisHour`. `HourIsCapped`, the exact cap, needs
  the invariant `InflowInTurns`: each transfer that finds the ring a turn or more
  behind uses up one such turn and lets through at most the peak limit, and what
  came in after the last is still held by the ring; hence no more than
  `hour_behind \div SLOTS` limits, and at least one. The assumption on the clock is
  necessary: `limiter_wrap` is its counterexample.
- `CommitteeProofs`: what the admin instructions preserve. The first entry for a
  key is an element of the argument list (`MinInSet`, by well-foundedness of <),
  so written accounts have well-formed fields; existing accounts hold lamports,
  and addresses that hold nothing initialized have no stake, no total, no
  blocklist flag (`ChainsFunded`, `TokensFunded`, `MembersFunded`). This last part
  is what makes the create instructions, which look at lamports, leave existing
  accounts alone.
- `GovernanceProofs`: the inductive invariant `GovernanceInv` (types and the
  three "funded" conditions), and from it `GovernanceTypeCorrect`,
  `IndicesAreKeys`, and the action properties `BlocklistHolds` and `TermsHold`.
- `GovernanceProofs` also proves `ApprovalsHaveStake`: the sum of the stakes of an
  accepted list is at most that of the set of eligible signers
  (`ApprovalWithinSigners`), because an injective list embeds in the set. And
  `EligibleStakeSuffices`: among the sets of eligible members that reach the required
  stake there is a smallest (`SmallestApproval`). It is a single member, or every member
  holds less than the required stake and the rest falls short of it; either way the
  sum fits the u16 (`SmallestApprovalFits`), and listing the members gives the
  signatures (`SignersApprove`).
- `BridgeProofs`: the inductive invariant `BridgeInv`: types, "funded" chains and
  tokens, each mint of the log has its nonce account, a token's total is within
  its chain's, and the properties themselves. `TokenWithinChain` needs
  `ChainsFunded`: a chain that is created starts at zero, which is safe only
  because a chain that does not exist cannot have tokens with mints; likewise
  `TotalsCountMints`. `NoDoubleMint` needs the nonce accounts, not only the log.
  Each instruction has a lemma (`AdminStep`, `MintStep`, `WithdrawStep`, `LimitStep`,
  `TransferStep`, `BurnStep`, `ClockStep`). `WithdrawalsRelease` rests on `FeeBelowAmount`:
  with a fee below the denominator the rounded fee is less than a positive
  amount.
  `BridgeImplementsLedger` has a lemma for each instruction (`OperationIsLedgerStep`
  combines them); `BridgeInv` supplies that a withdrawal never burns more than the
  supply and that its number is the length of the log.
- `BridgeLimiterProofs`: `BridgeImplementsLimiter`, as long as `MAX_TIME < U32`. The
  invariant `WatchedInv` relates log, ring and clock: no mint of a future hour, no
  ring ahead of the clock, a peak not below the limit in force. A mint through the
  route is `CheckTransfer` (`WatchedMint`), a limit update is `SetTotalLimit`
  (`WatchedLimit`), the clock is `Tick` (`WatchedTick`), anything else a stutter
  (`ElsewhereStep`). So whatever is proved of `Limiter` holds of each route:
  `HourlyMintsCapped` is `HourIsCapped` under the mapping, and `RoutesRecover` is
  `RoomAgainNextHour` (the latter for `MAX_TIME + SECONDS_PER_HOUR < U32`, because it
  speaks of the hour to come).
- `NetworkProofs`: the program's invariant survives in the network (`ProgramStep`),
  and signatures of honest members are over deposits and decisions
  (`NetworkInvariant`). If an accepted list has no honest signer, its stake is
  within that of the dishonest members (`HonestSigner`, from `ApprovalWithinSigners`);
  so a list that reaches the required stake has one, and what it signed was
  deposited (`OnlyDepositsAreMinted`) or decided (`OnlyDecidedLimitsApply`).
  `BridgeIsSolvent` strengthens `CustodyCoversSupply` with the deposits that are not
  minted yet (`CustodyCoversDeposits`): a mint then moves an amount from one side
  of the inequality to the other, and a deposit is spent once because its nonce
  is. `BackedWhileHonest` is its corollary for a committee that never has a
  dishonest majority: nothing is forged, and custody covers everything.
- `EveryWithdrawalPayable` needs two more balances: what is locked is what was
  deposited less what was paid (`LockedByDeposits`), and what was withdrawn or
  still circulates was minted (`WithdrawnWasMinted`). With one route for all
  deposits the two meet (`PayableFromOneRoute`).
- `NetworkImplementsPeg` maps each step. Deposits of a chain are numbered without
  gaps, so a new one has a fresh name (`DepositsNumbered`, `NextDepositFresh`); a
  mint with an honest signer has its deposit (`MintedWasDeposited`); a payment
  removes exactly one withdrawal from those owed, because their numbers differ
  (`PaymentSettles`). `NetworkImplementsLedger` is the refinement of `BridgeLedger` with
  everything around the program, the wrapping clock included.
- `LimitsFollowDecisions`: while dishonest members lack the stake of a limit update,
  the log of limits is a prefix of the committee's decisions: the nonce makes the
  order of relays irrelevant.
- `NoDepositLockedOut`: each used nonce was minted (`NoncesMinted`), and deposits
  differ in their nonce (`DepositsDistinct`), so an unminted deposit's nonce is
  free unless something was forged; the list to relay comes from `SignersApprove`.

**Only model-checked.** The liveness properties `DepositsMinted`, `UpdatesApplied` and
`WithdrawalsReleased`: fairness and ENABLED are out of reach of the installed
provers. Every other property of a passing run is also a theorem. The
theorems about hours (`HourlyMintsCapped`, `RoutesRecover`, `BridgeImplementsLimiter`) are
about `Bridge` with `MAX_TIME < U32` and not about `Network`, whose clock wraps; there the
code does not keep them, see `limiter_wrap`.

## Not modelled

- Source chains, validators and submitters beyond what README.md:18-37 says of them:
  confirmations and reorganisations of a source chain, the validators' network,
  the submitters' queues. `Network` has only what reaches the program or follows
  from its log.
- A member of the committee that is honest again after it was dishonest, and
  signatures withdrawn; the program has no such notion.
- A reference to missing accounts: a transaction whose account list lacks one the
  handler looks for is rejected, so it has no action.
- The byte layout of Ed25519 pre-instructions and Borsh messages: library code;
  a signature either covers exactly the message of the instruction or not.
- Token metadata, rent, compute and transaction-size limits.
- `sdk/`, tests, scripts and the generated interface.
- Operations named in `Operation` without an instruction (blocklist, emergency,
  upgrade, prices, tokens, chain id).

## Plan

1. Done: `HourRing`, `Limiter`, `Config`, `Committee`, `Governance`, `Bridge` and its
   refinements of `Ledger` and, on each route, of `Limiter`, `Network` with faults and
   fairness and its refinement of `Peg`, their runs, and a theorem for every safety
   property.
2. The safety parts that the liveness properties rest on, beyond
   `DepositsAcceptable` and `RoutesRecover`: that the next decided update can always be
   relayed once its route is open.
3. If instructions for the remaining members of `Operation` (blocklist, emergency,
   upgrade, prices) are added to the program: their `required_stake` and nonces.
