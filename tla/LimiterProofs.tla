---------------------------- MODULE LimiterProofs ----------------------------
(***************************************************************************)
(* Theorems about Limiter, for every ring size, hour length, amount, limit *)
(* and bound of the clock.                                                 *)
(***************************************************************************)
EXTENDS Limiter, HourRingProofs

(* Every reachable limiter account is well formed.                         *)
THEOREM LimiterTypeCorrect == Spec => []TypeOK
<1>1. Init => TypeOK
  BY NoLimiterType, EmptyRingType, LimiterAssumption DEF Init, TypeOK
<1>2. TypeOK /\ [Next]_vars => TypeOK'
  <2> SUFFICES ASSUME TypeOK, [Next]_vars PROVE TypeOK'
    OBVIOUS
  <2> USE DEF TypeOK
  <2>0. unix_timestamp \in Nat /\ CurrentHour(unix_timestamp) \in 0 .. U32 - 1
    BY LimiterAssumption, CurrentHourType
  <2>1. CASE Tick
    <3>1. unix_timestamp' \in 0 .. MAX_TIME
      BY <2>1, LimiterAssumption DEF Tick
    <3>2. inflow' \in [Slot -> Nat]
      <4>1. \A a \in Slot : a # 0 => a - 1 \in Slot
        BY HourRingAssumption DEF Slot
      <4> QED BY <2>1, <4>1 DEF Tick
    <3>3. peak' \in Nat
      BY <2>1 DEF Tick, LimiterAccounts
    <3> QED BY <2>1, <3>1, <3>2, <3>3 DEF Tick
  <2>2. ASSUME NEW limit \in Limits, SetTotalLimit(limit) PROVE TypeOK'
    BY <2>0, <2>2, LimitSetType, LimiterAssumption DEF SetTotalLimit
  <2>3. ASSUME NEW amount \in Amounts, CheckTransfer(amount) PROVE TypeOK'
    <3>1. amount \in Nat
      BY LimiterAssumption
    <3>2. limiter' \in LimiterAccounts
      BY <2>0, <2>3, <3>1, RecordedType DEF CheckTransfer
    <3>3. inflow' \in [Slot -> Nat]
      <4>1. 0 \in Slot
        BY HourRingAssumption DEF Slot
      <4> QED BY <2>3, <3>1, <4>1 DEF CheckTransfer
    <3>4. behind' \in Nat
      BY <2>3, HourRingAssumption DEF CheckTransfer
    <3> QED BY <2>3, <3>2, <3>3, <3>4 DEF CheckTransfer
  <2>4. CASE UNCHANGED vars
    BY <2>4 DEF vars
  <2> QED BY <2>1, <2>2, <2>3, <2>4 DEF Next
<1> QED BY <1>1, <1>2, PTL DEF Spec

-----------------------------------------------------------------------------
(* The ring's oldest hour and the hours it lags behind add up to the       *)
(* current hour: the ring never runs ahead of the clock.                   *)
RingOnTime ==
  IF limiter.is_initialized
  THEN limiter.oldest_hour + behind = TrueHour(unix_timestamp)
  ELSE behind = 0

(* While the u32 does not wrap, the program's hour is the true hour.       *)
LEMMA HourUnwrapped ==
  ASSUME MAX_TIME < U32, NEW t \in 0 .. MAX_TIME
  PROVE  /\ CurrentHour(t) = TrueHour(t)
         /\ TrueHour(t) \in 0 .. U32 - 1
<1>1. U32 \in Nat /\ SECONDS_PER_HOUR \in Nat \ {0} /\ MAX_TIME \in Nat
  BY HourRingAssumption, LimiterAssumption
<1>2. t % U32 = t
  BY <1>1
<1>3. TrueHour(t) \in Nat /\ TrueHour(t) <= t
  BY <1>1, DivMod, DivAtMost DEF TrueHour
<1> QED BY <1>1, <1>2, <1>3 DEF CurrentHour, TrueHour

(* A ring on time measures the elapsed hours by its wrapping subtraction.  *)
LEMMA OnTimeMeasures ==
  ASSUME MAX_TIME < U32, TypeOK, RingOnTime, limiter.is_initialized
  PROVE  HoursPassed(limiter, CurrentHour(unix_timestamp)) = behind
<1>1. /\ CurrentHour(unix_timestamp) = TrueHour(unix_timestamp)
      /\ TrueHour(unix_timestamp) \in 0 .. U32 - 1
  BY HourUnwrapped DEF TypeOK
<1>2. /\ limiter.oldest_hour \in Nat
      /\ behind \in Nat
      /\ limiter.oldest_hour + behind = TrueHour(unix_timestamp)
  BY HourRingAssumption DEF TypeOK, LimiterAccounts, RingOnTime
<1>3. behind % U32 = behind
  BY <1>1, <1>2, HourRingAssumption
<1> QED BY <1>1, <1>2, <1>3 DEF HoursPassed

(* A step of the limiter keeps the ring on time.                           *)
LEMMA RingStaysOnTime ==
  ASSUME MAX_TIME < U32, TypeOK, TypeOK', RingOnTime, [Next]_vars
  PROVE  RingOnTime'
<1>0. /\ CurrentHour(unix_timestamp) = TrueHour(unix_timestamp)
      /\ TrueHour(unix_timestamp) \in 0 .. U32 - 1
      /\ limiter.oldest_hour \in Nat
      /\ behind \in Nat
  BY HourUnwrapped, HourRingAssumption DEF TypeOK, LimiterAccounts
<1>1. CASE Tick
  <2>1. TrueHour(unix_timestamp')
          \in {TrueHour(unix_timestamp), TrueHour(unix_timestamp) + 1}
    <3>1. unix_timestamp \in Nat /\ unix_timestamp' = unix_timestamp + 1
      BY <1>1, LimiterAssumption DEF Tick, TypeOK
    <3>2. (unix_timestamp + 1) \div SECONDS_PER_HOUR
            \in {unix_timestamp \div SECONDS_PER_HOUR,
                 (unix_timestamp \div SECONDS_PER_HOUR) + 1}
      BY <3>1, DivStep, HourRingAssumption
    <3> QED BY <3>1, <3>2 DEF TrueHour
  <2> QED BY <1>0, <1>1, <2>1 DEF Tick, RingOnTime
<1>2. ASSUME NEW limit \in Limits, SetTotalLimit(limit) PROVE RingOnTime'
  <2>1. CASE limiter.is_initialized
    BY <1>2, <2>1 DEF SetTotalLimit, LimitSet, RingOnTime, TypeOK, LimiterAccounts
  <2>2. CASE ~limiter.is_initialized
    BY <1>0, <1>2, <2>2 DEF SetTotalLimit, LimitSet, RingOnTime
  <2> QED BY <2>1, <2>2
<1>3. ASSUME NEW amount \in Amounts, CheckTransfer(amount) PROVE RingOnTime'
  <2> DEFINE n == SlotsToClear(limiter, CurrentHour(unix_timestamp))
  <2>1. limiter.is_initialized
    BY <1>3 DEF CheckTransfer
  <2>2. n = IF behind < SLOTS THEN behind ELSE SLOTS
    BY <2>1, OnTimeMeasures DEF SlotsToClear
  <2>3. n \in Nat /\ n <= behind /\ behind' = behind - n
    BY <1>0, <1>3, <2>2, HourRingAssumption DEF CheckTransfer
  <2>4. /\ limiter'.is_initialized
        /\ limiter'.oldest_hour = (limiter.oldest_hour + n) % U32
    BY <1>3, <2>1 DEF CheckTransfer, Recorded, Rolled, TypeOK, LimiterAccounts
  <2> HIDE DEF n
  <2>5. limiter.oldest_hour + n \in 0 .. U32 - 1
    <3>1. limiter.oldest_hour + behind = TrueHour(unix_timestamp)
      BY <2>1 DEF RingOnTime
    <3> QED BY <1>0, <2>3, <3>1, HourRingAssumption
  <2>6. limiter'.oldest_hour = limiter.oldest_hour + n
    BY <1>0, <2>3, <2>4, <2>5, HourRingAssumption
  <2> QED BY <1>0, <1>3, <2>1, <2>3, <2>4, <2>6 DEF CheckTransfer, RingOnTime
<1>4. CASE UNCHANGED vars
  BY <1>4 DEF vars, RingOnTime
<1> QED BY <1>1, <1>2, <1>3, <1>4 DEF Next

(* As long as the clock fits the u32, the hours the program believes have  *)
(* passed since the ring's oldest hour are the hours that have.            *)
THEOREM LimiterMeasuresTime ==
  ASSUME MAX_TIME < U32
  PROVE  Spec => []HoursPassedIsElapsed
<1>1. Init => RingOnTime
  BY DEF Init, RingOnTime, NoLimiter
<1>2. TypeOK /\ RingOnTime => HoursPassedIsElapsed
  BY OnTimeMeasures DEF HoursPassedIsElapsed
<1>3. TypeOK /\ TypeOK' /\ RingOnTime /\ [Next]_vars => RingOnTime'
  BY RingStaysOnTime
<1> QED BY <1>1, <1>2, <1>3, LimiterTypeCorrect, PTL DEF Spec

(* A second later it is the same true hour or the next.                    *)
LEMMA HourAdvances ==
  ASSUME NEW t \in Nat
  PROVE  TrueHour(t + 1) \in {TrueHour(t), TrueHour(t) + 1}
BY DivStep, HourRingAssumption DEF TrueHour

(* An hour of seconds later it is the next hour.                           *)
LEMMA NextHour ==
  ASSUME NEW t \in Nat, t + SECONDS_PER_HOUR < U32
  PROVE  /\ CurrentHour(t + SECONDS_PER_HOUR) = CurrentHour(t) + 1
         /\ CurrentHour(t) + 1 < U32
<1> DEFINE d == SECONDS_PER_HOUR
           q == t \div d
           r == t % d
<1>1. d \in Nat \ {0} /\ U32 \in Nat
  BY HourRingAssumption
<1>2. q \in Nat /\ r \in 0 .. d - 1 /\ t = d * q + r
  BY <1>1, DivMod
<1>3. t % U32 = t /\ (t + d) % U32 = t + d
  BY <1>1
<1>4. (t + d) \div d = q + 1
  <2>1. t + d \in Nat
    BY <1>1
  <2>2. (t + d) \div d \in Nat /\ t + d = d * ((t + d) \div d) + ((t + d) % d)
    BY <1>1, <2>1, DivMod
  <2>3. (t + d) % d = r
    <3>1. t + d = d * (q + 1) + r /\ q + 1 \in Nat
      BY <1>1, <1>2
    <3> QED BY <1>1, <1>2, <3>1, ModUnique
  <2> QED BY <1>1, <1>2, <2>2, <2>3
<1>5. (t + d) \div d <= t + d
  BY <1>1, DivAtMost
<1> QED BY <1>1, <1>3, <1>4, <1>5 DEF CurrentHour

-----------------------------------------------------------------------------
(* What the ring will count at the current hour is what came in during it, *)
(* or less; an account that does not exist holds nothing.                  *)
RingHoldsThisHour ==
  /\ OnlyThisHour(limiter, CurrentHour(unix_timestamp))
  /\ Rolled(limiter, CurrentHour(unix_timestamp)).hourly_transfers[
       CurrentHour(unix_timestamp) % SLOTS] <= inflow[0]
  /\ ~limiter.is_initialized => limiter = NoLimiter

(* A ring of zeroes stays one, whatever is cleared.                        *)
LEMMA NothingHeld ==
  ASSUME NEW l \in LimiterAccounts, NEW h \in 0 .. U32 - 1,
         l.hourly_transfers = EmptyRing, TypeOK
  PROVE  /\ OnlyThisHour(l, h)
         /\ Rolled(l, h).hourly_transfers[h % SLOTS] <= inflow[0]
<1>1. \A s \in Slot : Rolled(l, h).hourly_transfers[s] = 0
  BY RolledSlots DEF EmptyRing
<1>2. h % SLOTS \in Slot /\ 0 \in Slot
  BY HourSlot, HourRingAssumption DEF Slot
<1>3. inflow[0] \in Nat
  BY <1>2 DEF TypeOK
<1> QED BY <1>1, <1>2, <1>3 DEF OnlyThisHour

(* When the hour turns, nothing the ring holds counts any more.            *)
LEMMA EmptyNextHour ==
  ASSUME MAX_TIME < U32, TypeOK, RingOnTime, RingHoldsThisHour,
         CurrentHour(unix_timestamp) + 1 < U32
  PROVE  \A s \in Slot :
           Rolled(limiter, CurrentHour(unix_timestamp) + 1).hourly_transfers[s] = 0
<1> DEFINE h == CurrentHour(unix_timestamp)
<1>1. /\ h = TrueHour(unix_timestamp) /\ h \in Nat /\ U32 \in Nat
      /\ limiter \in LimiterAccounts /\ limiter.oldest_hour \in Nat
      /\ behind \in Nat
  BY HourUnwrapped, HourRingAssumption DEF TypeOK, LimiterAccounts
<1>2. CASE limiter.is_initialized
  <2>1. limiter.oldest_hour <= h
    BY <1>1, <1>2 DEF RingOnTime
  <2>2. OnlyThisHour(limiter, h)
    BY DEF RingHoldsThisHour
  <2> HIDE DEF h
  <2>3. h + 1 < U32
    BY DEF h
  <2>4. \A s \in Slot : Rolled(limiter, h + 1).hourly_transfers[s] = 0
    BY <1>1, <2>1, <2>2, <2>3, NextHourEmpty
  <2> QED BY <2>4 DEF h
<1>3. CASE ~limiter.is_initialized
  <2>1. limiter.hourly_transfers = EmptyRing
    BY <1>3 DEF RingHoldsThisHour, NoLimiter
  <2>2. h + 1 \in 0 .. U32 - 1
    BY <1>1
  <2> QED BY <1>1, <2>1, <2>2, RolledSlots DEF EmptyRing
<1> QED BY <1>2, <1>3

(* A step of the limiter leaves the ring holding only the running hour.    *)
LEMMA RingKeepsThisHour ==
  ASSUME MAX_TIME < U32, TypeOK, TypeOK', RingOnTime, RingHoldsThisHour,
         [Next]_vars
  PROVE  RingHoldsThisHour'
<1> DEFINE h == CurrentHour(unix_timestamp)
<1>1. /\ h = TrueHour(unix_timestamp) /\ h \in 0 .. U32 - 1 /\ h \in Nat
      /\ limiter \in LimiterAccounts /\ limiter' \in LimiterAccounts
      /\ h % SLOTS \in Slot /\ 0 \in Slot
      /\ inflow \in [Slot -> Nat] /\ inflow[0] \in Nat
  <2>1. h = TrueHour(unix_timestamp) /\ h \in 0 .. U32 - 1 /\ h \in Nat
    BY HourUnwrapped, HourRingAssumption DEF TypeOK
  <2>2. h % SLOTS \in Slot /\ 0 \in Slot
    BY <2>1, HourSlot, HourRingAssumption DEF Slot
  <2> QED BY <2>1, <2>2 DEF TypeOK
<1>2. CASE Tick
  <2>1. TrueHour(unix_timestamp') = CurrentHour(unix_timestamp')
        /\ TrueHour(unix_timestamp') \in 0 .. U32 - 1
    BY HourUnwrapped DEF TypeOK
  <2>2. CASE TrueHour(unix_timestamp') = TrueHour(unix_timestamp)
    BY <1>1, <1>2, <2>1, <2>2 DEF Tick, RingHoldsThisHour
  <2>3. CASE TrueHour(unix_timestamp') # TrueHour(unix_timestamp)
    <3>1. CurrentHour(unix_timestamp') = h + 1
      BY <1>1, <1>2, <2>1, <2>3, HourAdvances DEF Tick, TypeOK
    <3>2. h + 1 \in 0 .. U32 - 1
      BY <2>1, <3>1
    <3>3. \A s \in Slot : Rolled(limiter, h + 1).hourly_transfers[s] = 0
      <4>1. h + 1 < U32
        BY <1>1, <3>2, HourRingAssumption
      <4> QED BY <4>1, EmptyNextHour
    <3>4. limiter' = limiter /\ inflow'[0] = 0
      BY <1>1, <1>2, <2>3 DEF Tick
    <3>5. (h + 1) % SLOTS \in Slot
      BY <1>1, HourSlot
    <3>6. ~limiter.is_initialized => limiter = NoLimiter
      BY DEF RingHoldsThisHour
    <3> HIDE DEF h
    <3> QED BY <3>1, <3>3, <3>4, <3>5, <3>6 DEF RingHoldsThisHour, OnlyThisHour
  <2> QED BY <2>2, <2>3
<1>3. ASSUME NEW limit \in Limits, SetTotalLimit(limit) PROVE RingHoldsThisHour'
  <2>1. /\ limiter' = LimitSet(limiter, h, limit)
        /\ UNCHANGED <<unix_timestamp, inflow>>
    BY <1>3 DEF SetTotalLimit
  <2>2. limiter'.is_initialized
    BY <1>1, <2>1 DEF LimitSet, LimiterAccounts
  <2>3. CASE limiter.is_initialized
    <3>1. \A s \in Slot : Rolled(limiter', h).hourly_transfers[s]
                            = Rolled(limiter, h).hourly_transfers[s]
      BY <1>1, <2>1, <2>3, LimitKeepsRing, LimiterAssumption
    <3>2. OnlyThisHour(limiter, h) /\ OnlyThisHour(limiter', h)
      BY <3>1 DEF RingHoldsThisHour, OnlyThisHour
    <3>3. Rolled(limiter', h).hourly_transfers[h % SLOTS] <= inflow[0]
      BY <1>1, <3>1 DEF RingHoldsThisHour
    <3> QED BY <2>1, <2>2, <3>2, <3>3 DEF RingHoldsThisHour
  <2>4. CASE ~limiter.is_initialized
    <3>1. limiter'.hourly_transfers = EmptyRing
      BY <2>1, <2>4 DEF LimitSet
    <3>2. /\ OnlyThisHour(limiter', h)
          /\ Rolled(limiter', h).hourly_transfers[h % SLOTS] <= inflow[0]
      BY <1>1, <3>1, NothingHeld
    <3> QED BY <2>1, <2>2, <3>2 DEF RingHoldsThisHour
  <2> QED BY <2>3, <2>4
<1>4. ASSUME NEW amount \in Amounts, CheckTransfer(amount) PROVE RingHoldsThisHour'
  <2>1. /\ limiter' = Recorded(limiter, h, amount)
        /\ inflow' = [inflow EXCEPT ![0] = @ + amount]
        /\ UNCHANGED unix_timestamp
        /\ limiter.is_initialized /\ amount \in Nat
    BY <1>4, LimiterAssumption DEF CheckTransfer
  <2>2. inflow'[0] = inflow[0] + amount
    BY <1>1, <2>1
  <2>3. limiter'.is_initialized
    BY <1>1, <2>1 DEF Recorded, Rolled, LimiterAccounts
  <2> DEFINE f == Rolled(limiter, h).hourly_transfers
             k == Rolled(limiter', h).hourly_transfers
  <2>4. \A s \in Slot : /\ f[s] \in Nat /\ k[s] \in Nat
                         /\ k[s] <= IF s = h % SLOTS THEN f[s] + amount ELSE f[s]
    BY <1>1, <2>1, RecordedSlots
  <2>5. (\A s \in Slot : s # h % SLOTS => f[s] = 0) /\ f[h % SLOTS] <= inflow[0]
    BY DEF RingHoldsThisHour, OnlyThisHour
  <2> HIDE DEF f, k
  <2>6. (\A s \in Slot : s # h % SLOTS => k[s] = 0) /\ k[h % SLOTS] <= inflow'[0]
    BY <1>1, <2>1, <2>2, <2>4, <2>5
  <2> QED BY <2>1, <2>3, <2>6 DEF RingHoldsThisHour, OnlyThisHour, k
<1>5. CASE UNCHANGED vars
  BY <1>5 DEF vars, RingHoldsThisHour
<1> QED BY <1>2, <1>3, <1>4, <1>5 DEF Next

(* In the empty limiter there is nothing to hold.                          *)
LEMMA RingHoldsInit ==
  ASSUME Init, TypeOK
  PROVE  RingHoldsThisHour
<1>1. limiter = NoLimiter /\ limiter.hourly_transfers = EmptyRing
  BY DEF Init, NoLimiter
<1>2. CurrentHour(unix_timestamp) \in 0 .. U32 - 1 /\ limiter \in LimiterAccounts
  BY CurrentHourType, LimiterAssumption DEF TypeOK
<1> QED BY <1>1, <1>2, NothingHeld DEF RingHoldsThisHour

(* So the three invariants hold together, while the clock fits the u32.    *)
LEMMA LimiterInvariants ==
  ASSUME MAX_TIME < U32
  PROVE  Spec => [](TypeOK /\ RingOnTime /\ RingHoldsThisHour)
<1>1. Init /\ TypeOK => RingOnTime /\ RingHoldsThisHour
  BY RingHoldsInit DEF Init, RingOnTime, NoLimiter
<1>2. /\ TypeOK /\ TypeOK' /\ RingOnTime /\ RingHoldsThisHour
      /\ [Next]_vars
      => RingOnTime' /\ RingHoldsThisHour'
  BY RingStaysOnTime, RingKeepsThisHour
<1> QED BY <1>1, <1>2, LimiterTypeCorrect, PTL DEF Spec

(* No transfer is turned down on account of expired ones: what the ring    *)
(* counts came in during the running hour, and so within the last turn.    *)
THEOREM LimiterForgetsInTime ==
  ASSUME MAX_TIME < U32
  PROVE  Spec => []NoStaleRejection
<1>1. TypeOK /\ RingHoldsThisHour => NoStaleRejection
  <2> SUFFICES ASSUME TypeOK, RingHoldsThisHour PROVE NoStaleRejection
    OBVIOUS
  <2> DEFINE h == CurrentHour(unix_timestamp)
  <2>1. h \in 0 .. U32 - 1 /\ limiter \in LimiterAccounts
    BY CurrentHourType, LimiterAssumption DEF TypeOK
  <2>2. /\ RecordedTotal(limiter, h) \in Nat
        /\ RecordedTotal(limiter, h) <= inflow[0]
    <3>1. /\ OnlyThisHour(limiter, h)
          /\ Rolled(limiter, h).hourly_transfers[h % SLOTS] <= inflow[0]
      BY DEF RingHoldsThisHour
    <3> HIDE DEF h
    <3> QED BY <2>1, <3>1, TotalOfThisHour
  <2>3. inflow \in [Slot -> Nat] /\ 0 \in Slot /\ IsFiniteSet(Slot)
    <3>1. IsFiniteSet(Slot)
      BY HourRingAssumption, FS_Interval DEF Slot
    <3> QED BY <3>1, HourRingAssumption DEF TypeOK, Slot
  <2>4. SumFunction(inflow) \in Nat /\ inflow[0] <= SumFunction(inflow)
    <3>1. /\ DOMAIN inflow = Slot
          /\ \A a \in Slot : inflow[a] \in Nat
      BY <2>3
    <3>2. SumFunction(inflow) \in Nat
      BY <2>3, <3>1, SumType
    <3> QED BY <2>3, <3>1, <3>2, SumAtLeastTerm
  <2>5. inflow[0] \in Nat
    BY <2>3
  <2> HIDE DEF h
  <2>6. RecordedTotal(limiter, h) <= SumFunction(inflow)
    BY <2>2, <2>4, <2>5
  <2> QED BY <2>6 DEF NoStaleRejection, h
<1> QED BY <1>1, LimiterInvariants, PTL

(* A full limiter blocks no longer than the running hour: in the next one  *)
(* everything recorded has expired, however long the limiter was idle.     *)
THEOREM RoomAgainNextHour ==
  ASSUME MAX_TIME + SECONDS_PER_HOUR < U32
  PROVE  Spec => []RoomNextHour
<1>0. MAX_TIME < U32
  BY HourRingAssumption, LimiterAssumption
<1>1. TypeOK /\ RingOnTime /\ RingHoldsThisHour => RoomNextHour
  <2> SUFFICES ASSUME TypeOK, RingOnTime, RingHoldsThisHour PROVE RoomNextHour
    OBVIOUS
  <2> DEFINE h == CurrentHour(unix_timestamp)
  <2>1. /\ h = TrueHour(unix_timestamp) /\ h \in Nat
        /\ limiter \in LimiterAccounts /\ limiter.oldest_hour \in Nat
        /\ behind \in Nat
    BY <1>0, HourUnwrapped, HourRingAssumption DEF TypeOK, LimiterAccounts
  <2>2. CurrentHour(unix_timestamp + SECONDS_PER_HOUR) = h + 1 /\ h + 1 < U32
    BY <1>0, <2>1, NextHour, HourRingAssumption, LimiterAssumption DEF TypeOK
  <2>3. \A s \in Slot : Rolled(limiter, h + 1).hourly_transfers[s] = 0
    BY <1>0, <2>2, EmptyNextHour
  <2>4. RecordedTotal(limiter, h + 1) = 0
    <3> DEFINE f == Rolled(limiter, h + 1).hourly_transfers
    <3>1. DOMAIN f = Slot
      BY DEF Rolled, LimiterAccounts
    <3>2. IsFiniteSet(Slot)
      BY HourRingAssumption, FS_Interval DEF Slot
    <3>3. \A s \in DOMAIN f : f[s] = 0
      BY <2>3, <3>1
    <3> HIDE DEF f
    <3>4. SumFunction(f) = 0
      BY <3>1, <3>2, <3>3, SumOfZeros
    <3> QED BY <3>4 DEF f, RecordedTotal
  <2>5. limiter.total_limit \in Nat
    BY <2>1 DEF LimiterAccounts
  <2> HIDE DEF h
  <2> QED BY <2>2, <2>4, <2>5 DEF RoomNextHour, Admits
<1> QED BY <1>0, <1>1, LimiterInvariants, PTL

-----------------------------------------------------------------------------
(* What the ring still counts of the running hour.                         *)
Held == HeldAt(limiter, CurrentHour(unix_timestamp))

(* j whole turns of the ring were left behind in the running hour, each    *)
(* after letting through no more than the limit; what came in beyond that  *)
(* is still held.                                                          *)
TurnsLeft(j) ==
  IF behind >= SLOTS
  THEN /\ behind + j * SLOTS <= hour_behind
       /\ inflow[0] <= j * peak
  ELSE /\ j = 0 \/ (j + 1) * SLOTS <= hour_behind
       /\ inflow[0] <= j * peak + Held
       /\ Held <= peak

InflowInTurns ==
  /\ limiter.total_limit <= peak
  /\ ~limiter.is_initialized => inflow[0] = 0
  /\ \E j \in Nat : TurnsLeft(j)

(* Products of naturals: what the bounds below need of them.               *)
LEMMA Products ==
  ASSUME NEW j \in Nat, NEW p \in Nat
  PROVE  /\ j * p \in Nat
         /\ (j + 1) * p = j * p + p
         /\ \A q \in Nat : p <= q => j * p <= j * q
<1>1. j * p \in Nat /\ (j + 1) * p = j * p + p
  OBVIOUS
<1>2. ASSUME NEW q \in Nat, p <= q PROVE j * p <= j * q
  <2>1. j * (q - p) >= 0
    BY <1>2
  <2>2. j * q = j * p + j * (q - p)
    BY <1>2
  <2>3. j * p \in Nat /\ j * q \in Nat /\ j * (q - p) \in Int
    BY <1>2
  <2> QED BY <2>1, <2>2, <2>3
<1> QED BY <1>1, <1>2

(* The larger of two naturals is no smaller than either.                   *)
LEMMA MaxOfTwo ==
  ASSUME NEW a \in Nat, NEW b \in Nat
  PROVE  Max({a, b}) \in Nat /\ a <= Max({a, b}) /\ b <= Max({a, b})
<1>1. \E x \in {a, b} : \A y \in {a, b} : x >= y
  <2>1. CASE a >= b
    BY <2>1
  <2>2. CASE b >= a
    BY <2>2
  <2> QED BY <2>1, <2>2
<1>2. Max({a, b}) \in {a, b} /\ \A y \in {a, b} : Max({a, b}) >= y
  BY <1>1 DEF Max
<1> QED BY <1>2

(* A quotient is at least any number of divisors that fit.                 *)
LEMMA DivAtLeast ==
  ASSUME NEW t \in Nat, NEW d \in Nat \ {0}, NEW j \in Nat, j * d <= t
  PROVE  j <= t \div d
<1> DEFINE q == t \div d
           r == t % d
<1>1. q \in Nat /\ r \in 0 .. d - 1 /\ t = d * q + r
  BY DivMod
<1> HIDE DEF q, r
<1>2. ASSUME j >= q + 1 PROVE FALSE
  <2>1. d * (j - q) >= d
    BY <1>1, <1>2
  <2>2. j * d = d * q + d * (j - q)
    BY <1>1
  <2> QED BY <1>1, <2>1, <2>2
<1>3. j <= q
  BY <1>1, <1>2
<1> QED BY <1>3 DEF q

(* In turns, the inflow of an hour is within its bound.                    *)
LEMMA TurnsWithinBound ==
  ASSUME TypeOK, InflowInTurns, Held \in Nat
  PROVE  HourlyInflowBound
<1> DEFINE n == hour_behind \div SLOTS
           m == Max({1, n})
<1>1. /\ SLOTS \in Nat \ {0} /\ hour_behind \in Nat /\ behind \in Nat
      /\ peak \in Nat /\ inflow[0] \in Nat
  BY HourRingAssumption DEF TypeOK, Slot
<1>2. n \in Nat
  BY <1>1, DivMod
<1>3. m \in Nat /\ 1 <= m /\ n <= m
  BY <1>2, MaxOfTwo
<1>4. PICK j \in Nat : TurnsLeft(j)
  BY DEF InflowInTurns
<1> HIDE DEF m
<1>5. \E k \in Nat : k <= m /\ inflow[0] <= k * peak
  <2>1. j * peak \in Nat /\ (j + 1) * peak = j * peak + peak /\ j * SLOTS \in Nat
    BY <1>1, Products
  <2>2. CASE behind >= SLOTS
    <3>1. j * SLOTS <= hour_behind /\ inflow[0] <= j * peak
      BY <1>1, <1>4, <2>1, <2>2 DEF TurnsLeft
    <3>2. j <= n
      BY <1>1, <3>1, DivAtLeast
    <3> HIDE DEF n
    <3>3. j <= m
      BY <1>2, <1>3, <3>2
    <3> QED BY <3>1, <3>3
  <2>3. CASE ~(behind >= SLOTS)
    <3>1. /\ j = 0 \/ (j + 1) * SLOTS <= hour_behind
          /\ inflow[0] <= j * peak + Held
          /\ Held <= peak
      BY <1>4, <2>3 DEF TurnsLeft
    <3>2. inflow[0] <= (j + 1) * peak
      BY <1>1, <2>1, <3>1
    <3>3. j + 1 <= m
      <4>1. CASE j = 0
        BY <1>3, <4>1
      <4>2. CASE (j + 1) * SLOTS <= hour_behind
        <5>1. j + 1 <= n
          BY <1>1, <4>2, DivAtLeast
        <5> HIDE DEF n
        <5> QED BY <1>2, <1>3, <5>1
      <4> QED BY <3>1, <4>1, <4>2
    <3> QED BY <3>2, <3>3
  <2> QED BY <2>2, <2>3
<1>6. PICK k \in Nat : k <= m /\ inflow[0] <= k * peak
  BY <1>5
<1>7. k * peak <= m * peak
  BY <1>1, <1>3, <1>6, Products
<1>8. k * peak \in Nat /\ m * peak \in Nat
  BY <1>1, <1>3, Products
<1> QED BY <1>1, <1>6, <1>7, <1>8 DEF HourlyInflowBound, m

(* What is held is a natural number.                                       *)
LEMMA HeldType ==
  ASSUME TypeOK
  PROVE  Held \in Nat
<1> DEFINE h == CurrentHour(unix_timestamp)
<1>1. h \in 0 .. U32 - 1 /\ h \in Nat /\ limiter \in LimiterAccounts
  BY CurrentHourType, LimiterAssumption, HourRingAssumption DEF TypeOK
<1>2. h % SLOTS \in Slot
  BY <1>1, HourSlot
<1>3. Rolled(limiter, h) \in LimiterAccounts
  BY <1>1, RolledType
<1> QED BY <1>2, <1>3 DEF Held, HeldAt, LimiterAccounts

(* A step that leaves the inflow, the ring and the time behind as they are *)
(* keeps the turns, whatever the peak rises to.                            *)
LEMMA TurnsKept ==
  ASSUME TypeOK, TypeOK', Held \in Nat,
         UNCHANGED <<inflow, behind, hour_behind, Held>>, peak <= peak',
         \E j \in Nat : TurnsLeft(j)
  PROVE  \E j \in Nat : TurnsLeft(j)'
<1>1. PICK j \in Nat : TurnsLeft(j)
  OBVIOUS
<1>2. peak \in Nat /\ peak' \in Nat /\ inflow[0] \in Nat
  BY HourRingAssumption DEF TypeOK, Slot
<1>3. j * peak \in Nat /\ j * peak' \in Nat /\ j * peak <= j * peak'
  BY <1>2, Products
<1>4. inflow'[0] = inflow[0] /\ Held' = Held /\ behind' = behind /\ hour_behind' = hour_behind
  OBVIOUS
<1>5. inflow'[0] \in Nat /\ Held' \in Nat
  BY <1>2, <1>4
<1>6. CASE behind >= SLOTS
  <2>1. behind + j * SLOTS <= hour_behind /\ inflow[0] <= j * peak
    BY <1>1, <1>6 DEF TurnsLeft
  <2>2. inflow'[0] <= j * peak'
    BY <1>2, <1>3, <1>4, <2>1
  <2> QED BY <1>4, <1>6, <2>1, <2>2 DEF TurnsLeft
<1>7. CASE ~(behind >= SLOTS)
  <2>1. /\ j = 0 \/ (j + 1) * SLOTS <= hour_behind
        /\ inflow[0] <= j * peak + Held
        /\ Held <= peak
    BY <1>1, <1>7 DEF TurnsLeft
  <2>2. inflow[0] <= j * peak' + Held /\ Held <= peak'
    <3> DEFINE a == j * peak
               b == j * peak'
    <3>1. /\ a \in Nat /\ b \in Nat /\ a <= b
          /\ inflow[0] <= a + Held /\ Held <= peak
      BY <1>3, <2>1
    <3> HIDE DEF a, b
    <3>2. inflow[0] <= b + Held
      BY <1>2, <3>1
    <3>3. Held <= peak'
      BY <1>2, <3>1
    <3> QED BY <3>2, <3>3 DEF b
  <2>3. inflow'[0] <= j * peak' + Held' /\ Held' <= peak'
    BY Zenon, <1>4, <2>2
  <2> QED BY <1>4, <1>7, <2>1, <2>3 DEF TurnsLeft
<1> QED BY <1>6, <1>7

(* A transfer uses up a turn, or what is held.                             *)
LEMMA TurnsAfterTransfer ==
  ASSUME MAX_TIME < U32, TypeOK, TypeOK', RingOnTime, RingHoldsThisHour,
         InflowInTurns, NEW amount \in Amounts, CheckTransfer(amount)
  PROVE  InflowInTurns'
<1> DEFINE h == CurrentHour(unix_timestamp)
<1>1. /\ h = TrueHour(unix_timestamp) /\ h \in 0 .. U32 - 1 /\ h \in Nat
      /\ limiter \in LimiterAccounts
      /\ inflow \in [Slot -> Nat] /\ 0 \in Slot /\ inflow[0] \in Nat
      /\ SLOTS \in Nat \ {0} /\ behind \in Nat /\ hour_behind \in Nat
      /\ peak \in Nat /\ amount \in Nat
  <2>1. h = TrueHour(unix_timestamp) /\ h \in 0 .. U32 - 1 /\ h \in Nat
    BY HourUnwrapped, HourRingAssumption DEF TypeOK
  <2>2. 0 \in Slot
    BY HourRingAssumption DEF Slot
  <2> QED BY <2>1, <2>2, HourRingAssumption, LimiterAssumption DEF TypeOK
<1>2. /\ limiter' = Recorded(limiter, h, amount)
      /\ inflow' = [inflow EXCEPT ![0] = @ + amount]
      /\ behind' = IF behind < SLOTS THEN 0 ELSE behind - SLOTS
      /\ UNCHANGED <<unix_timestamp, hour_behind, peak>>
      /\ limiter.is_initialized
      /\ Admits(limiter, h, amount)
  BY DEF CheckTransfer
<1>3. inflow'[0] = inflow[0] + amount
  BY <1>1, <1>2
<1>4. /\ limiter.oldest_hour + behind = h
      /\ limiter.oldest_hour \in Nat
      /\ limiter.oldest_hour <= h
      /\ h - limiter.oldest_hour = behind
  <2>1. limiter.oldest_hour + behind = h
    BY <1>1, <1>2 DEF RingOnTime
  <2>2. limiter.oldest_hour \in Nat
    BY <1>1, HourRingAssumption DEF LimiterAccounts
  <2> HIDE DEF h
  <2> QED BY <1>1, <2>1, <2>2
<1>5. Held = HeldAt(limiter, h) /\ Held \in Nat
  BY HeldType DEF Held, HeldAt
<1>6. /\ limiter'.is_initialized = limiter.is_initialized
      /\ limiter'.total_limit = limiter.total_limit
      /\ h - limiter'.oldest_hour = IF behind < SLOTS THEN 0 ELSE behind - SLOTS
      /\ Held + amount <= limiter.total_limit
      /\ behind >= SLOTS => Held = 0
      /\ h - limiter'.oldest_hour < SLOTS
           => HeldAt(limiter', h) = Held + amount
  <2>1. OnlyThisHour(limiter, h)
    BY DEF RingHoldsThisHour
  <2> HIDE DEF h
  <2> QED BY <1>1, <1>2, <1>4, <1>5, <2>1, TransferInHour
<1>7. behind' < SLOTS => Held' = Held + amount
  BY <1>2, <1>6 DEF Held
<1>8. Held + amount <= peak
  <2>1. limiter.total_limit <= peak /\ limiter.total_limit \in Nat
    BY <1>1 DEF InflowInTurns, LimiterAccounts
  <2> HIDE DEF h
  <2> QED BY <1>1, <1>5, <1>6, <2>1
<1> HIDE DEF h
<1>9. PICK j \in Nat : TurnsLeft(j)
  BY DEF InflowInTurns
<1>10. /\ j * peak \in Nat /\ (j + 1) * peak = j * peak + peak
       /\ j * SLOTS \in Nat /\ (j + 1) * SLOTS = j * SLOTS + SLOTS
  BY <1>1, Products
<1>11. \E k \in Nat : TurnsLeft(k)'
  <2>1. CASE behind >= SLOTS /\ behind' >= SLOTS
    <3>1. behind + j * SLOTS <= hour_behind /\ inflow[0] <= j * peak
      BY <1>9, <2>1 DEF TurnsLeft
    <3>2. behind' = behind - SLOTS
      BY <1>1, <1>2, <2>1
    <3>3. behind' + (j + 1) * SLOTS <= hour_behind'
      BY <1>1, <1>2, <1>10, <3>1, <3>2
    <3>4. inflow'[0] <= (j + 1) * peak'
      BY <1>1, <1>2, <1>3, <1>5, <1>8, <1>10, <3>1
    <3>5. TurnsLeft(j + 1)'
      BY <2>1, <3>3, <3>4 DEF TurnsLeft
    <3> QED BY <3>5
  <2>2. CASE behind >= SLOTS /\ ~(behind' >= SLOTS)
    <3>1. behind + j * SLOTS <= hour_behind /\ inflow[0] <= j * peak
      BY <1>9, <2>2 DEF TurnsLeft
    <3>2. behind' < SLOTS
      BY <1>1, <1>2, <2>2
    <3>3. Held' = amount
      BY <1>1, <1>6, <1>7, <2>2, <3>2
    <3>4. (j + 1) * SLOTS <= hour_behind'
      BY <1>1, <1>2, <1>10, <2>2, <3>1
    <3>5. inflow'[0] <= j * peak' + Held' /\ Held' <= peak'
      BY <1>1, <1>2, <1>3, <1>5, <1>8, <1>10, <3>1, <3>3
    <3>6. TurnsLeft(j)'
      BY <2>2, <3>4, <3>5 DEF TurnsLeft
    <3> QED BY <3>6
  <2>3. CASE ~(behind >= SLOTS)
    <3>1. /\ j = 0 \/ (j + 1) * SLOTS <= hour_behind
          /\ inflow[0] <= j * peak + Held
      BY <1>9, <2>3 DEF TurnsLeft
    <3>2. behind' = 0 /\ behind' < SLOTS /\ ~(behind' >= SLOTS)
      BY <1>1, <1>2, <2>3
    <3>3. Held' = Held + amount
      BY <1>7, <3>2
    <3>4. inflow'[0] <= j * peak' + Held' /\ Held' <= peak'
      BY <1>1, <1>2, <1>3, <1>5, <1>8, <1>10, <3>1, <3>3
    <3>5. j = 0 \/ (j + 1) * SLOTS <= hour_behind'
      BY <1>2, <3>1
    <3>6. TurnsLeft(j)'
      BY <3>2, <3>4, <3>5 DEF TurnsLeft
    <3> QED BY <3>6
  <2> QED BY <2>1, <2>2, <2>3
<1> QED BY <1>2, <1>6, <1>11 DEF InflowInTurns

(* Nothing let through and nothing held is no turn left behind.            *)
LEMMA ZeroTurns ==
  ASSUME NEW b \in Nat, NEW hb \in Nat, b <= hb, NEW p \in Nat,
         NEW i, i = 0, NEW held, held = 0
  PROVE  /\ b + 0 * SLOTS <= hb
         /\ i <= 0 * p /\ i <= 0 * p + held /\ held <= p
BY HourRingAssumption

(* The clock and new limits keep the inflow in turns.                      *)
LEMMA TurnsStep ==
  ASSUME MAX_TIME < U32, TypeOK, TypeOK', RingOnTime,
         RingHoldsThisHour, InflowInTurns, [Next]_vars
  PROVE  InflowInTurns'
<1>0. /\ SLOTS \in Nat \ {0} /\ peak' \in Nat
      /\ behind' \in Nat /\ hour_behind' \in Nat
  BY HourRingAssumption DEF TypeOK
<1> DEFINE h == CurrentHour(unix_timestamp)
<1>1. /\ h = TrueHour(unix_timestamp) /\ h \in 0 .. U32 - 1 /\ h \in Nat
      /\ limiter \in LimiterAccounts /\ limiter' \in LimiterAccounts
      /\ h % SLOTS \in Slot /\ 0 \in Slot
      /\ inflow[0] \in Nat /\ peak \in Nat /\ peak' \in Nat
      /\ SLOTS \in Nat \ {0} /\ behind \in Nat /\ hour_behind \in Nat
  <2>1. h = TrueHour(unix_timestamp) /\ h \in 0 .. U32 - 1 /\ h \in Nat
    BY HourUnwrapped, HourRingAssumption DEF TypeOK
  <2>2. h % SLOTS \in Slot /\ 0 \in Slot
    BY <2>1, HourSlot, HourRingAssumption DEF Slot
  <2> QED BY <2>1, <2>2, HourRingAssumption DEF TypeOK
<1>2. limiter.total_limit \in Nat /\ limiter'.total_limit \in Nat
  BY <1>1 DEF LimiterAccounts
<1>3. CASE Tick
  <2>1. TrueHour(unix_timestamp') = CurrentHour(unix_timestamp')
        /\ TrueHour(unix_timestamp') \in 0 .. U32 - 1
    BY HourUnwrapped DEF TypeOK
  <2>2. CASE TrueHour(unix_timestamp') = TrueHour(unix_timestamp)
    BY <1>1, <1>3, <2>1, <2>2 DEF Tick, InflowInTurns, TurnsLeft, Held
  <2>3. CASE TrueHour(unix_timestamp') # TrueHour(unix_timestamp)
    <3>1. CurrentHour(unix_timestamp') = h + 1
      BY <1>1, <1>3, <2>1, <2>3, HourAdvances DEF Tick, TypeOK
    <3>2. h + 1 \in 0 .. U32 - 1
      BY <2>1, <3>1
    <3>3. \A s \in Slot : Rolled(limiter, h + 1).hourly_transfers[s] = 0
      <4>1. h + 1 < U32
        BY <1>1, <3>2, HourRingAssumption
      <4> QED BY <4>1, EmptyNextHour
    <3>4. /\ limiter' = limiter /\ inflow'[0] = 0 /\ behind' \in Nat
          /\ hour_behind' = behind' /\ peak' = limiter.total_limit
      BY <1>1, <1>3, <2>3 DEF Tick, TypeOK
    <3>5. (h + 1) % SLOTS \in Slot
      BY <1>1, HourSlot
    <3>6. Held' = 0
      <4> HIDE DEF h
      <4> QED BY <3>1, <3>3, <3>4, <3>5 DEF Held, HeldAt
    <3>7. TurnsLeft(0)'
      <4>1. behind' <= hour_behind'
        BY <1>0, <3>4
      <4>2. /\ behind' + 0 * SLOTS <= hour_behind' /\ inflow'[0] <= 0 * peak'
            /\ inflow'[0] <= 0 * peak' + Held' /\ Held' <= peak'
        BY <1>0, <3>4, <3>6, <4>1, ZeroTurns
      <4> QED BY Zenon, <4>2 DEF TurnsLeft
    <3> QED BY <1>2, <3>4, <3>7 DEF InflowInTurns
  <2> QED BY <2>2, <2>3
<1>4. ASSUME NEW limit \in Limits, SetTotalLimit(limit) PROVE InflowInTurns'
  <2>1. /\ limiter' = LimitSet(limiter, h, limit)
        /\ peak' = IF limit > peak THEN limit ELSE peak
        /\ UNCHANGED <<unix_timestamp, inflow, behind, hour_behind>>
        /\ limit \in Nat
    BY <1>4, LimiterAssumption DEF SetTotalLimit
  <2>2. /\ limiter'.is_initialized /\ limiter'.total_limit = limit
        /\ limit <= peak' /\ peak <= peak'
    <3>1. limiter'.is_initialized /\ limiter'.total_limit = limit
      BY <1>1, <2>1 DEF LimitSet, LimiterAccounts
    <3> QED BY <1>1, <2>1, <3>1
  <2>3. \E j \in Nat : TurnsLeft(j)'
    <3>1. CASE limiter.is_initialized
      <4>1. Rolled(limiter', h).hourly_transfers[h % SLOTS]
              = Rolled(limiter, h).hourly_transfers[h % SLOTS]
        BY <1>1, <2>1, <3>1, LimitKeepsRing
      <4>2. Held' = Held /\ Held \in Nat
        BY <2>1, <4>1, HeldType DEF Held, HeldAt
      <4>3. \E j \in Nat : TurnsLeft(j)
        BY DEF InflowInTurns
      <4> QED BY <2>1, <2>2, <4>2, <4>3, TurnsKept
    <3>2. CASE ~limiter.is_initialized
      <4>1. limiter'.hourly_transfers = EmptyRing
        BY <2>1, <3>2 DEF LimitSet
      <4>2. \A s \in Slot : Rolled(limiter', h).hourly_transfers[s] = 0
        BY <1>1, <4>1, RolledSlots DEF EmptyRing
      <4>3. Held' = 0
        BY <1>1, <2>1, <4>2 DEF Held, HeldAt
      <4>4. inflow'[0] = 0 /\ behind' = 0
        BY <2>1, <3>2 DEF InflowInTurns, RingOnTime
      <4>5. behind' <= hour_behind'
        BY <1>0, <4>4
      <4>6. /\ behind' + 0 * SLOTS <= hour_behind' /\ inflow'[0] <= 0 * peak'
            /\ inflow'[0] <= 0 * peak' + Held' /\ Held' <= peak'
        BY <1>0, <4>3, <4>4, <4>5, ZeroTurns
      <4>7. TurnsLeft(0)'
        BY Zenon, <4>6 DEF TurnsLeft
      <4> QED BY <4>7
    <3> QED BY <3>1, <3>2
  <2> QED BY <2>2, <2>3 DEF InflowInTurns
<1>5. ASSUME NEW amount \in Amounts, CheckTransfer(amount) PROVE InflowInTurns'
  BY <1>5, TurnsAfterTransfer
<1>6. CASE UNCHANGED vars
  BY <1>6 DEF vars, InflowInTurns, TurnsLeft, Held
<1> QED BY <1>3, <1>4, <1>5, <1>6 DEF Next

(* Within one hour the program lets through at most the limit in force,    *)
(* once, or once per whole turn its ring was behind when the hour began.   *)
THEOREM HourIsCapped ==
  ASSUME MAX_TIME < U32
  PROVE  Spec => []HourlyInflowBound
<1>1. Init /\ TypeOK => InflowInTurns
  <2> SUFFICES ASSUME Init, TypeOK PROVE InflowInTurns
    OBVIOUS
  <2>1. /\ limiter.total_limit = 0 /\ peak = 0 /\ behind = 0
        /\ limiter.hourly_transfers = EmptyRing
    BY DEF Init, NoLimiter
  <2>2. inflow[0] = 0 /\ SLOTS \in Nat \ {0}
    BY HourRingAssumption DEF Init, EmptyRing, Slot
  <2>3. Held \in Nat /\ Held <= 0
    <3>1. CurrentHour(unix_timestamp) \in 0 .. U32 - 1 /\ limiter \in LimiterAccounts
      BY CurrentHourType, LimiterAssumption DEF TypeOK
    <3> QED BY <2>1, <2>2, <3>1, NothingHeld, HeldType DEF Held, HeldAt
  <2>4. 0 * SLOTS = 0 /\ 0 * peak = 0
    BY <2>1, <2>2
  <2>5. TurnsLeft(0)
    BY <2>1, <2>2, <2>3, <2>4 DEF TurnsLeft
  <2> QED BY <2>1, <2>2, <2>5 DEF InflowInTurns
<1>2. /\ TypeOK /\ TypeOK' /\ RingOnTime /\ RingHoldsThisHour
      /\ InflowInTurns /\ [Next]_vars
      => InflowInTurns'
  BY TurnsStep
<1>3. TypeOK /\ InflowInTurns => HourlyInflowBound
  BY TurnsWithinBound, HeldType
<1> QED BY <1>1, <1>2, <1>3, LimiterInvariants, PTL DEF Spec
=============================================================================
