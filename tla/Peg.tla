-------------------------------- MODULE Peg ---------------------------------
(***************************************************************************)
(* What the bridge as a whole promises while its committee is honest,      *)
(* without accounts, signatures, limits and hours: sBTC comes into being   *)
(* only for a deposit that is locked on its source chain, once, in its     *)
(* amount and on the Solana chain it asks for; and a source chain pays     *)
(* only what was taken out of circulation for it, once, out of what is     *)
(* locked.                                                                 *)
(***************************************************************************)
EXTENDS Integers

CONSTANTS
  Chains,     \* chain ids
  Tokens,     \* token ids
  Deposits,   \* deposits that may be made
  MAX_SUPPLY  \* largest supply of a mint

VARIABLES
  made,       \* deposits made
  spent,      \* deposits minted, as <<chain, number>>
  supply,     \* supply[b]: sBTC in circulation on Solana chain b
  announced,  \* withdrawals announced so far
  owed,       \* withdrawals announced and not yet paid
  locked      \* locked[r]: amount locked for route r

pegVars == <<made, spent, supply, announced, owed, locked>>

Name(d) == <<d.source_chain_id, d.nonce>>

Route(d) == <<d.source_chain_id, d.source_token_id>>

PegInit ==
  /\ made = {}
  /\ spent = {}
  /\ supply = [b \in Chains |-> 0]
  /\ announced = 0
  /\ owed = {}
  /\ locked = [r \in Chains \X Tokens |-> 0]

Lock(d) ==
  /\ \A c \in made : Name(c) # Name(d)
  /\ made' = made \cup {d}
  /\ locked' = [locked EXCEPT ![Route(d)] = @ + d.amount]
  /\ UNCHANGED <<spent, supply, announced, owed>>

Mint(d) ==
  /\ Name(d) \notin spent
  /\ supply[d.to_chain_id] + d.amount <= MAX_SUPPLY
  /\ spent' = spent \cup {Name(d)}
  /\ supply' = [supply EXCEPT ![d.to_chain_id] = @ + d.amount]
  /\ UNCHANGED <<made, announced, owed, locked>>

Announce(b, r, amount) ==
  /\ announced' = announced + 1
  /\ supply' = [supply EXCEPT ![b] = @ - amount]
  /\ owed' = owed \cup {[number |-> announced + 1, route |-> r, amount |-> amount]}
  /\ UNCHANGED <<made, spent, locked>>

Pay(w) ==
  /\ w.amount <= locked[w.route]
  /\ owed' = owed \ {w}
  /\ locked' = [locked EXCEPT ![w.route] = @ - w.amount]
  /\ UNCHANGED <<made, spent, supply, announced>>

Burn(b, amount) ==
  /\ supply' = [supply EXCEPT ![b] = @ - amount]
  /\ UNCHANGED <<made, spent, announced, owed, locked>>

PegNext ==
  \/ \E d \in Deposits : Lock(d)
  \/ \E d \in made : Mint(d)
  \/ \E b \in Chains : \E amount \in 0 .. supply[b] :
       \/ Burn(b, amount)
       \/ \E r \in Chains \X Tokens : Announce(b, r, amount)
  \/ \E w \in owed : Pay(w)
=============================================================================
