----------------------------- MODULE NetworkPeg -----------------------------
(* The network implements the peg while its committee is honest. *)
EXTENDS Network

P == INSTANCE Peg WITH
       Chains <- ChainIds,
       Tokens <- TokenIds,
       Deposits <- DepositMessages,
       MAX_SUPPLY <- U64_MAX,
       made <- deposits,
       spent <- mint_nonces,
       supply <- sbtc_supply,
       announced <- withdraw_nonce,
       owed <- {[number |-> withdraw_events[i].nonce,
                 route |-> withdraw_events[i].route,
                 amount |-> withdraw_events[i].amount] :
                  i \in DOMAIN withdraw_events \ released},
       locked <- custody

(* The dishonest members that may sign are too few to approve a mint.      *)
HonestMajority == StakeOfMembers(dishonest) < TRANSFER_STAKE_REQUIRED

(* README.md:18-37: as long as the dishonest members hold less than the    *)
(* required stake, whatever anyone signs, relays, administers and sends    *)
(* moves deposits, supply and withdrawals as the peg does or leaves them:  *)
(* each mint uses up one deposit that is locked, each payment one          *)
(* withdrawal that was burned.                                             *)
ImplementsPeg ==
  P!PegInit /\ [][HonestMajority => P!PegNext]_(P!pegVars)
=============================================================================
