----------------------------- MODULE MCNetwork ------------------------------
(* Constants for checking Network: one source chain, chain 2. *)
EXTENDS NetworkPeg

CONSTANTS root, admin, m1, m2, relay, alice, bob, none

MCPubkeys == {root, admin, m1, m2, relay, alice, bob, none}

Entry(token, fee) == [chain |-> 2, token |-> token, fee |-> fee, min |-> 1]

Request(b, entries) ==
  [chain_id |-> b, administrator |-> admin, fee_recipient |-> bob,
   entries |-> entries]

(* Two bridges that share one token. *)
MCTwoBridges == {Request(1, <<Entry(1, 500000)>>), Request(3, <<>>)}

(* One bridge, two tokens. *)
MCTwoTokens == {Request(1, <<Entry(1, 0), Entry(2, 0)>>)}

(* Two members that only together approve a mint or a limit. *)
MCPair == {[committee |-> <<m1, m2>>, stake |-> <<3333, 3333>>]}

(* One member that approves alone. *)
MCSingle == {[committee |-> <<m1>>, stake |-> <<6666>>]}

MCRoute == {<<2, 1>>}

MCTokens == {<<2, 1>>, <<2, 2>>}

MCNone == {}

DepositOf(nonce, b, amount) ==
  [message_type |-> TokenTransfer, nonce |-> nonce, source_chain_id |-> 2,
   source_token_id |-> 1, to_chain_id |-> b, to_address |-> alice,
   amount |-> amount]

MCDepositsToTwo == {DepositOf(0, 1, 1), DepositOf(1, 3, 2)}

MCDepositsToOne == {DepositOf(0, 1, 2), DepositOf(1, 1, 2)}

Update(nonce, token, limit) ==
  [message_type |-> UpdateBridgeLimit, nonce |-> nonce, chain_id |-> 1,
   target_chain_id |-> 2, token_id |-> token, total_limit |-> limit]

MCOneUpdate == {Update(0, 1, 3), Update(0, 1, 2)}

MCTwoUpdates == {Update(0, 2, 2), Update(1, 1, 2)}
=============================================================================
