------------------------------ MODULE Limiter -------------------------------
(***************************************************************************)
(* One ChainTokenLimiter account over time: the clock, the approved limit  *)
(* changes and the transfers check_transfer lets through.  A rejected      *)
(* transfer reverts its whole transaction, so it changes nothing.          *)
(*                                                                         *)
(* `inflow`, `behind`, `hour_behind` and `peak` are history variables: they *)
(* measure by true elapsed hours what the code measures by its ring.       *)
(***************************************************************************)
EXTENDS HourRing, FiniteSetsExt

CONSTANTS
  Amounts,   \* amounts a transfer may carry
  Limits,    \* limits the committee may approve
  MAX_TIME   \* bound on the clock, in seconds

ASSUME LimiterAssumption ==
  Amounts \subseteq Nat /\ Limits \subseteq Nat /\ MAX_TIME \in Nat

VARIABLES
  unix_timestamp, \* Clock::get().unix_timestamp
  limiter,        \* the account
  inflow,         \* inflow[a]: amount let through in the hour a hours ago
  behind,         \* hours from the ring's oldest hour to the current one
  hour_behind,    \* `behind` when the current hour began
  peak            \* highest limit in force during the current hour

vars == <<unix_timestamp, limiter, inflow, behind, hour_behind, peak>>

TrueHour(t) == t \div SECONDS_PER_HOUR

Init ==
  /\ unix_timestamp = 0
  /\ limiter = NoLimiter
  /\ inflow = EmptyRing
  /\ behind = 0
  /\ hour_behind = 0
  /\ peak = 0

(* A second passes; the next hour shifts the history. *)
Tick ==
  /\ unix_timestamp < MAX_TIME
  /\ unix_timestamp' = unix_timestamp + 1
  /\ UNCHANGED limiter
  /\ IF TrueHour(unix_timestamp') = TrueHour(unix_timestamp)
     THEN UNCHANGED <<inflow, behind, hour_behind, peak>>
     ELSE /\ inflow' = [a \in Slot |-> IF a = 0 THEN 0 ELSE inflow[a - 1]]
          /\ behind' = IF limiter.is_initialized THEN behind + 1 ELSE 0
          /\ hour_behind' = behind'
          /\ peak' = limiter.total_limit

(* The account write of add_or_update_limiter_with_signatures. *)
SetTotalLimit(limit) ==
  /\ limiter' = LimitSet(limiter, CurrentHour(unix_timestamp), limit)
  /\ peak' = IF limit > peak THEN limit ELSE peak
  /\ UNCHANGED <<unix_timestamp, inflow, behind, hour_behind>>

(* check_transfer on an existing account, when it succeeds. *)
CheckTransfer(amount) ==
  LET h == CurrentHour(unix_timestamp) IN
  /\ limiter.is_initialized
  /\ Admits(limiter, h, amount)
  /\ limiter' = Recorded(limiter, h, amount)
  /\ inflow' = [inflow EXCEPT ![0] = @ + amount]
  /\ behind' = IF behind < SLOTS THEN 0 ELSE behind - SLOTS
  /\ UNCHANGED <<unix_timestamp, hour_behind, peak>>

Next ==
  \/ Tick
  \/ \E limit \in Limits : SetTotalLimit(limit)
  \/ \E amount \in Amounts : CheckTransfer(amount)

Spec == Init /\ [][Next]_vars

-----------------------------------------------------------------------------
TypeOK ==
  /\ unix_timestamp \in 0 .. MAX_TIME
  /\ limiter \in LimiterAccounts
  /\ inflow \in [Slot -> Nat]
  /\ behind \in Nat
  /\ hour_behind \in Nat
  /\ peak \in Nat

(* The wrapping subtraction of check_transfer yields the hours that really *)
(* passed since the ring's oldest hour ("handle u32 overflow", line 158).  *)
HoursPassedIsElapsed ==
  limiter.is_initialized =>
    HoursPassed(limiter, CurrentHour(unix_timestamp)) = behind

(* What the ring remembers is never more than what really came in over the *)
(* last SLOTS hours: no transfer is rejected on account of expired data.   *)
NoStaleRejection ==
  RecordedTotal(limiter, CurrentHour(unix_timestamp)) <= SumFunction(inflow)

(* The exact hourly cap check_transfer enforces: within one hour at most   *)
(* the limit, times the number of whole ring turns the limiter was idle    *)
(* before that hour when it was idle for two turns or more.                *)
HourlyInflowBound ==
  inflow[0] <= Max({1, hour_behind \div SLOTS}) * peak

(* A full limiter never blocks for longer than the running hour: at the    *)
(* next hour any amount within the limit is admitted again.                *)
RoomNextHour ==
  Admits(limiter, CurrentHour(unix_timestamp + SECONDS_PER_HOUR),
         limiter.total_limit)

(* README.md:32 "A 24-hour rolling limiter caps inflow per (chain, token)" *)
(* and limiter/state.rs:9: the inflow of any SLOTS consecutive hours stays *)
(* within the highest limit ever approved.                                 *)
RollingWindowCapped == SumFunction(inflow) <= Max(Limits)

(* tests/3.mint-sbtc-with-committee.spec.ts:104-116: once the total limit  *)
(* is used up, another mint in the same hour is rejected.                  *)
SameHourCapped == inflow[0] <= Max(Limits)
=============================================================================
