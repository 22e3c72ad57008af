---------------------------- MODULE MCGovernance ----------------------------
(* Constants for checking Governance: two Solana bridges that share the    *)
(* configuration of one source chain, two or three committee members.      *)
EXTENDS Governance

CONSTANTS root, admin, m1, m2, m3, none

MCPubkeys == {root, admin, m1, m2, none}

MCPubkeys3 == MCPubkeys \cup {m3}

Entry(chain, fee) == [chain |-> chain, token |-> 1, fee |-> fee, min |-> 1]

Request(b, entries) ==
  [chain_id |-> b, administrator |-> admin, fee_recipient |-> root,
   entries |-> entries]

MCConfigRequests ==
  {Request(1, <<Entry(3, 10), Entry(3, 20)>>),
   Request(2, <<Entry(3, 20)>>),
   Request(2, <<Entry(3, FEE_DENOMINATOR)>>)}

MCOneBridge == {Request(1, <<Entry(3, 10)>>)}

MCCommitteeRequests ==
  {[committee |-> <<m1, m2>>, stake |-> <<3333, 5001>>],
   [committee |-> <<m1>>, stake |-> <<65000>>]}

MCHeavyCommittee ==
  {[committee |-> <<m1, m2, m3>>, stake |-> <<30000, 30000, 6000>>]}

MCRoutes == {<<3, 1>>}

MCNone == {}
=============================================================================
