---------------------------- MODULE BridgeLedger ----------------------------
(* The program implements the ledger. *)
EXTENDS Bridge

L == INSTANCE Ledger WITH
       Chains <- ChainIds,
       Tokens <- TokenIds,
       DepositIds <- MintNonces,
       TotalLimits <- Limits,
       MAX_SUPPLY <- U64_MAX,
       spent <- mint_nonces,
       supply <- sbtc_supply,
       limit <- [r \in Routes |-> limiter[r].total_limit],
       updates <- update_nonce,
       releases <- [i \in DOMAIN withdraw_events |->
                      [number |-> withdraw_events[i].nonce,
                       from |-> withdraw_events[i].chain_id,
                       route |-> withdraw_events[i].route,
                       amount |-> withdraw_events[i].amount]]

(* Every instruction, in any order and with any configuration change in    *)
(* between, is a step of the ledger or none: mints spend fresh deposits    *)
(* within their limit, withdrawals announce exactly what they burn under   *)
(* the next number, and nothing else moves the supply or a limit.          *)
ImplementsLedger == L!LedgerSpec
=============================================================================
