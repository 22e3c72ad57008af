------------------------------ MODULE MCBridge ------------------------------
(* Constants for checking Bridge. *)
EXTENDS BridgeLimiter

CONSTANTS root, admin, m1, m2, relay, alice, bob, none

MCPubkeys == {root, admin, m1, m2, relay, alice, bob, none}

Entry(chain, token, fee, min) ==
  [chain |-> chain, token |-> token, fee |-> fee, min |-> min]

Request(b, entries) ==
  [chain_id |-> b, administrator |-> admin, fee_recipient |-> bob,
   entries |-> entries]

(* One bridge, two tokens of one source chain. *)
MCTwoTokens == {Request(1, <<Entry(2, 1, 500000, 1), Entry(2, 2, 0, 0)>>)}

MCCommitteeRequests ==
  {[committee |-> <<m1, m2>>, stake |-> <<3333, 5001>>]}

MCTokens == {<<2, 1>>, <<2, 2>>}

MCWatched == <<2, 1>>

MCNone == {}
=============================================================================
