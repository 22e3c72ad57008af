------------------------------ MODULE HourRing ------------------------------
(***************************************************************************)
(* The hour ring of a ChainTokenLimiter account as pure operators:         *)
(* current_hour, check_transfer and the account write of                   *)
(* add_or_update_limiter_with_signatures.  `l` is the account, `h` the     *)
(* current hour.  chain_id and token_id of the account are only echoed in  *)
(* an event and are left out.                                              *)
(***************************************************************************)
EXTENDS Integers, Functions

CONSTANTS
  SLOTS,            \* slots of the ring; 24 in the code
  SECONDS_PER_HOUR, \* 3600 in the code
  U32               \* modulus of the code's u32; 2^32

ASSUME HourRingAssumption ==
  /\ SLOTS \in Nat \ {0}
  /\ SECONDS_PER_HOUR \in Nat \ {0}
  /\ U32 \in Nat
  /\ SLOTS < U32

Slot == 0 .. SLOTS - 1

EmptyRing == [s \in Slot |-> 0]

LimiterAccounts ==
  [is_initialized : BOOLEAN, total_limit : Nat, oldest_hour : 0 .. U32 - 1,
   hourly_transfers : [Slot -> Nat]]

(* The account before its creation: all bytes zero. *)
NoLimiter ==
  [is_initialized |-> FALSE, total_limit |-> 0, oldest_hour |-> 0,
   hourly_transfers |-> EmptyRing]

(* `(unix_timestamp as u32) / 3600`: the cast truncates. *)
CurrentHour(unix_timestamp) == (unix_timestamp % U32) \div SECONDS_PER_HOUR

(* `current_h.wrapping_sub(oldest_hour)`. *)
HoursPassed(l, h) == (h - l.oldest_hour) % U32

(* A defect the checks must notice: a full turn clears one slot too few.   *)
SlotsToClearShort(l, h) ==
  IF HoursPassed(l, h) < SLOTS THEN HoursPassed(l, h) ELSE SLOTS - 1

SlotsToClear(l, h) ==
  IF HoursPassed(l, h) < SLOTS THEN HoursPassed(l, h) ELSE SLOTS

(* The slots the clearing loop zeroes, from that of oldest_hour upwards. *)
ClearedSlots(l, h) ==
  {((l.oldest_hour % SLOTS) + i) % SLOTS : i \in 0 .. SlotsToClear(l, h) - 1}

(* A defect the checks must notice: only the start of the ring advances.   *)
RolledKeepingSlots(l, h) ==
  [l EXCEPT !.oldest_hour = (@ + SlotsToClear(l, h)) % U32]

(* The account after the clearing step at hour h. *)
Rolled(l, h) ==
  [l EXCEPT !.oldest_hour = (@ + SlotsToClear(l, h)) % U32,
            !.hourly_transfers =
              [s \in Slot |-> IF s \in ClearedSlots(l, h) THEN 0 ELSE @[s]]]

(* What the ring sums to when a transfer is checked at hour h. *)
RecordedTotal(l, h) == SumFunction(Rolled(l, h).hourly_transfers)

(* A defect the checks must notice: only the transfer itself is compared.   *)
AdmitsWithoutRing(l, h, amount) == amount <= l.total_limit

(* `require!(total + amount <= total_limit)`. *)
Admits(l, h, amount) == RecordedTotal(l, h) + amount <= l.total_limit

(* The account check_transfer leaves behind. *)
Recorded(l, h, amount) ==
  [Rolled(l, h) EXCEPT !.hourly_transfers[h % SLOTS] = @ + amount]

(* A defect the checks must notice: the ring starts one hour early.        *)
LimitSetEarly(l, h, limit) ==
  IF l.is_initialized
  THEN [l EXCEPT !.total_limit = limit]
  ELSE [is_initialized |-> TRUE, total_limit |-> limit, oldest_hour |-> h - 1,
        hourly_transfers |-> EmptyRing]

(* A committee-approved limit: the first creates the account, later ones   *)
(* change only the limit.                                                  *)
LimitSet(l, h, limit) ==
  IF l.is_initialized
  THEN [l EXCEPT !.total_limit = limit]
  ELSE [is_initialized |-> TRUE, total_limit |-> limit, oldest_hour |-> h,
        hourly_transfers |-> EmptyRing]
=============================================================================
