------------------------------- MODULE Ledger -------------------------------
(***************************************************************************)
(* What the program promises its users, without accounts, signatures,      *)
(* fees and hours: sBTC comes into being only against a deposit that was   *)
(* not minted before and within the limit of its route, and goes only by a *)
(* holder's burn or by a withdrawal, which is numbered and announces what  *)
(* was taken out of circulation.  Limits change one update at a time.      *)
(***************************************************************************)
EXTENDS Integers, Sequences

CONSTANTS
  Chains,     \* chain ids
  Tokens,     \* token ids
  DepositIds, \* numbers source chains give their deposits
  TotalLimits, \* limits that may be set
  MAX_SUPPLY  \* largest supply of a mint

VARIABLES
  spent,    \* deposits minted, as <<chain, number>>
  supply,   \* supply[b]: sBTC in circulation on Solana chain b
  limit,    \* limit[r]: limit of route r
  updates,  \* limit updates so far
  releases  \* withdrawals announced to the source chains

ledgerVars == <<spent, supply, limit, updates, releases>>

LedgerInit ==
  /\ spent = {}
  /\ supply = [b \in Chains |-> 0]
  /\ limit = [r \in Chains \X Tokens |-> 0]
  /\ updates = 0
  /\ releases = <<>>

Mint(c, n, t, b, amount) ==
  /\ <<c, n>> \notin spent
  /\ amount <= limit[<<c, t>>]
  /\ supply[b] + amount <= MAX_SUPPLY
  /\ spent' = spent \cup {<<c, n>>}
  /\ supply' = [supply EXCEPT ![b] = @ + amount]
  /\ UNCHANGED <<limit, updates, releases>>

Withdraw(b, c, t, amount) ==
  /\ amount <= supply[b]
  /\ supply' = [supply EXCEPT ![b] = @ - amount]
  /\ releases' =
       Append(releases, [number |-> Len(releases) + 1, from |-> b,
                         route |-> <<c, t>>, amount |-> amount])
  /\ UNCHANGED <<spent, limit, updates>>

Burn(b, amount) ==
  /\ amount <= supply[b]
  /\ supply' = [supply EXCEPT ![b] = @ - amount]
  /\ UNCHANGED <<spent, limit, updates, releases>>

SetLimit(c, t, total) ==
  /\ limit' = [limit EXCEPT ![<<c, t>>] = total]
  /\ updates' = updates + 1
  /\ UNCHANGED <<spent, supply, releases>>

LedgerNext ==
  \/ \E c \in Chains, n \in DepositIds, t \in Tokens, b \in Chains,
        amount \in 0 .. MAX_SUPPLY : Mint(c, n, t, b, amount)
  \/ \E b \in Chains, c \in Chains, t \in Tokens, amount \in 0 .. MAX_SUPPLY :
       Withdraw(b, c, t, amount)
  \/ \E b \in Chains, amount \in 0 .. MAX_SUPPLY : Burn(b, amount)
  \/ \E c \in Chains, t \in Tokens, total \in TotalLimits : SetLimit(c, t, total)

LedgerSpec == LedgerInit /\ [][LedgerNext]_ledgerVars
=============================================================================
