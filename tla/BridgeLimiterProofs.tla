------------------------- MODULE BridgeLimiterProofs -------------------------
(***************************************************************************)
(* The program implements Limiter on every route, so what is proved of one *)
(* limiter alone holds of each limiter of the program, for every set of    *)
(* keys, chains, tokens, amounts and limits and every ring size.           *)
(***************************************************************************)
EXTENDS BridgeLimiter, BridgeProofs

(* The theorems about one limiter, under the refinement mapping.           *)
RouteP == INSTANCE LimiterProofs WITH
            limiter <- WatchedLimiter,
            inflow <- [a \in Slot |-> MintedIn(Hour - a)],
            behind <- Behind

(* What the mapping needs: time is within its bound, nothing was minted in *)
(* the future, the ring is not ahead of the clock and the peak is a peak.  *)
WatchedInv ==
  /\ unix_timestamp <= MAX_TIME
  /\ \A i \in DOMAIN mint_events : mint_events[i].hour <= Hour
  /\ WatchedLimiter.is_initialized => WatchedLimiter.oldest_hour <= Hour
  /\ peak \in Nat
  /\ WatchedLimiter.total_limit <= peak

-----------------------------------------------------------------------------
(* The instances' sums are the sums of the library.                        *)
LEMMA SameSum ==
  \A f : /\ RouteP!SumFunction(f) = SumFunction(f)
         /\ Route!SumFunction(f) = SumFunction(f)
BY Zenon
   DEF SumFunction, SumFunctionOnSet, FoldFunctionOnSet, MapThenFoldSet,
       RouteP!SumFunction, RouteP!SumFunctionOnSet, RouteP!FoldFunctionOnSet,
       RouteP!MapThenFoldSet, Route!SumFunction, Route!SumFunctionOnSet,
       Route!FoldFunctionOnSet, Route!MapThenFoldSet

(* The instances' operators on a ring are those of HourRing.               *)
LEMMA SameRing ==
  \A l, h, n :
    /\ RouteP!Recorded(l, h, n) = Recorded(l, h, n)
    /\ Route!Recorded(l, h, n) = Recorded(l, h, n)
    /\ RouteP!LimitSet(l, h, n) = LimitSet(l, h, n)
    /\ Route!LimitSet(l, h, n) = LimitSet(l, h, n)
    /\ RouteP!CurrentHour(n) = CurrentHour(n)
    /\ Route!CurrentHour(n) = CurrentHour(n)
    /\ RouteP!Admits(l, h, n) = Admits(l, h, n)
    /\ Route!Admits(l, h, n) = Admits(l, h, n)
<1> TAKE l, h, n
<1>1. RouteP!Slot = Slot /\ Route!Slot = Slot
  BY Zenon DEF Slot, RouteP!Slot, Route!Slot
<1>2. RouteP!Rolled(l, h) = Rolled(l, h) /\ Route!Rolled(l, h) = Rolled(l, h)
  BY Zenon
     DEF Rolled, ClearedSlots, SlotsToClear, HoursPassed, Slot,
         RouteP!Rolled, RouteP!ClearedSlots, RouteP!SlotsToClear,
         RouteP!HoursPassed, RouteP!Slot,
         Route!Rolled, Route!ClearedSlots, Route!SlotsToClear,
         Route!HoursPassed, Route!Slot
<1>3. /\ RouteP!Recorded(l, h, n) = Recorded(l, h, n)
      /\ Route!Recorded(l, h, n) = Recorded(l, h, n)
  BY <1>2, Zenon DEF Recorded, RouteP!Recorded, Route!Recorded
<1>4. /\ RouteP!LimitSet(l, h, n) = LimitSet(l, h, n)
      /\ Route!LimitSet(l, h, n) = LimitSet(l, h, n)
  BY <1>1, Zenon
     DEF LimitSet, EmptyRing, RouteP!LimitSet, RouteP!EmptyRing,
         Route!LimitSet, Route!EmptyRing
<1>5. RouteP!CurrentHour(n) = CurrentHour(n) /\ Route!CurrentHour(n) = CurrentHour(n)
  BY Zenon DEF CurrentHour, RouteP!CurrentHour, Route!CurrentHour
<1>6. /\ RouteP!Admits(l, h, n) = Admits(l, h, n)
      /\ Route!Admits(l, h, n) = Admits(l, h, n)
  BY <1>2, SameSum, Zenon
     DEF Admits, RecordedTotal, RouteP!Admits, RouteP!RecordedTotal,
         Route!Admits, Route!RecordedTotal
<1> QED BY <1>3, <1>4, <1>5, <1>6, Zenon

(* The instance that carries the theorems starts where the mapping starts, *)
(* and takes the same steps over the same state.                           *)
LEMMA SameInit == RouteP!Init <=> Route!Init
BY Zenon
   DEF RouteP!Init, Route!Init, RouteP!NoLimiter, Route!NoLimiter,
       RouteP!EmptyRing, Route!EmptyRing, RouteP!Slot, Route!Slot

(* Its steps are the same.                                                 *)
LEMMA SameNext == RouteP!Next <=> Route!Next
<1>1. RouteP!Tick <=> Route!Tick
  BY Zenon
     DEF RouteP!Tick, Route!Tick, RouteP!TrueHour, Route!TrueHour,
         RouteP!Slot, Route!Slot
<1>2. \A n : RouteP!SetTotalLimit(n) <=> Route!SetTotalLimit(n)
  BY SameRing, Zenon DEF RouteP!SetTotalLimit, Route!SetTotalLimit
<1>3. \A n : RouteP!CheckTransfer(n) <=> Route!CheckTransfer(n)
  BY SameRing, Zenon DEF RouteP!CheckTransfer, Route!CheckTransfer
<1> QED BY <1>1, <1>2, <1>3, Zenon DEF RouteP!Next, Route!Next

-----------------------------------------------------------------------------
(* While the clock has not wrapped, a second later it is the same hour or  *)
(* the next, and the next still fits the hour counter.                     *)
LEMMA HourOfTick ==
  ASSUME MAX_TIME < U32, NEW t \in Nat, t < MAX_TIME
  PROVE  /\ CurrentHour(t) \in Nat
         /\ CurrentHour(t + 1) \in {CurrentHour(t), CurrentHour(t) + 1}
         /\ CurrentHour(t + 1) < U32
<1>1. U32 \in Nat /\ SECONDS_PER_HOUR \in Nat \ {0} /\ MAX_TIME \in Nat
  BY HourRingAssumption, BridgeAssumption
<1>2. t % U32 = t /\ (t + 1) % U32 = t + 1
  BY <1>1
<1>3. /\ CurrentHour(t) = t \div SECONDS_PER_HOUR
      /\ CurrentHour(t + 1) = (t + 1) \div SECONDS_PER_HOUR
  BY <1>2 DEF CurrentHour
<1>4. t \div SECONDS_PER_HOUR \in Nat
  BY <1>1, DivMod
<1>5. (t + 1) \div SECONDS_PER_HOUR
        \in {t \div SECONDS_PER_HOUR, (t \div SECONDS_PER_HOUR) + 1}
  BY <1>1, DivStep
<1>6. CurrentHour(t + 1) \in 0 .. U32 - 1
  BY CurrentHourType
<1> QED BY <1>1, <1>3, <1>4, <1>5, <1>6

(* What a log says was minted through the route in hour h.                 *)
MintedOf(events, h) ==
  SumEvents(events,
            LAMBDA e : IF e.route = Watched /\ e.hour = h THEN e.amount ELSE 0)

(* Nothing was minted in an hour no event carries.                         *)
LEMMA NoneMinted ==
  ASSUME NEW s \in Seq(MintEvents), NEW h,
         \A i \in DOMAIN s : s[i].hour # h
  PROVE  MintedOf(s, h) = 0
<1> DEFINE f == [i \in DOMAIN s |-> IF s[i].route = Watched /\ s[i].hour = h
                                    THEN s[i].amount ELSE 0]
<1>1. DOMAIN s = 1 .. Len(s) /\ Len(s) \in Nat
  OBVIOUS
<1>2. DOMAIN f = DOMAIN s /\ \A i \in DOMAIN f : f[i] = 0
  OBVIOUS
<1>3. MintedOf(s, h) = SumFunction(f)
  BY DEF MintedOf, SumEvents
<1>4. IsFiniteSet(DOMAIN f)
  BY <1>1, <1>2, FS_Interval
<1> HIDE DEF f
<1> QED BY <1>2, <1>3, <1>4, SumOfZeros

(* What was minted is a natural number.                                    *)
LEMMA MintedOfType ==
  ASSUME NEW s \in Seq(MintEvents), NEW h
  PROVE  MintedOf(s, h) \in Nat
<1> DEFINE f == [i \in DOMAIN s |-> IF s[i].route = Watched /\ s[i].hour = h
                                    THEN s[i].amount ELSE 0]
<1>1. /\ DOMAIN s = 1 .. Len(s) /\ Len(s) \in Nat
      /\ \A i \in DOMAIN s : s[i] \in MintEvents
  OBVIOUS
<1>2. \A i \in DOMAIN s : s[i].amount \in Nat
  BY <1>1 DEF MintEvents
<1>3. DOMAIN f = DOMAIN s /\ \A i \in DOMAIN f : f[i] \in Nat
  BY <1>2
<1>4. MintedOf(s, h) = SumFunction(f)
  BY DEF MintedOf, SumEvents
<1> HIDE DEF f
<1>5. IsFiniteSet(DOMAIN f)
  BY <1>1, <1>3, FS_Interval
<1> QED BY <1>3, <1>4, <1>5, SumType

(* A mint is added to what its route minted in its hour, to nothing else.  *)
LEMMA MintedAppended ==
  ASSUME NEW s \in Seq(MintEvents), NEW e \in MintEvents, NEW h
  PROVE  MintedOf(Append(s, e), h)
           = MintedOf(s, h)
               + (IF e.route = Watched /\ e.hour = h THEN e.amount ELSE 0)
<1> DEFINE n == Len(s)
           t == Append(s, e)
           V(d) == IF d.route = Watched /\ d.hour = h THEN d.amount ELSE 0
           f == [i \in DOMAIN s |-> V(s[i])]
           g == [i \in DOMAIN t |-> V(t[i])]
<1>1. /\ n \in Nat /\ DOMAIN s = 1 .. n /\ DOMAIN t = 1 .. n + 1
      /\ \A i \in 1 .. n : t[i] = s[i] /\ s[i] \in MintEvents
      /\ t[n + 1] = e
  OBVIOUS
<1>2. \A d \in MintEvents : V(d) \in Nat
  BY DEF MintEvents
<1>3. MintedOf(s, h) = SumFunction(f) /\ MintedOf(t, h) = SumFunction(g)
  BY DEF MintedOf, SumEvents
<1>4. V(e) = IF e.route = Watched /\ e.hour = h THEN e.amount ELSE 0
  OBVIOUS
<1> HIDE DEF V, n, t
<1>5. /\ DOMAIN f = 1 .. n /\ DOMAIN g = 1 .. n + 1
      /\ \A i \in 1 .. n : f[i] \in Nat /\ g[i] = f[i]
      /\ g[n + 1] = V(e) /\ g[n + 1] \in Nat
  BY <1>1, <1>2
<1> HIDE DEF f, g
<1>6. SumFunction(g) = SumFunction(f) + g[n + 1]
  BY <1>1, <1>5, SumAppended
<1> QED BY <1>3, <1>4, <1>5, <1>6 DEF t

(* The larger of the peak and a limit.                                     *)
LEMMA LargerOfTwo ==
  ASSUME NEW p \in Nat, NEW q \in Nat
  PROVE  Max({p, q}) = IF q > p THEN q ELSE p
<1>1. CASE q > p
  BY <1>1 DEF Max
<1>2. CASE ~(q > p)
  BY <1>2 DEF Max
<1> QED BY <1>1, <1>2

(* A transfer moves the ring on by a turn at most, and not past the clock. *)
LEMMA TransferAdvances ==
  ASSUME NEW l \in LimiterAccounts, NEW h \in 0 .. U32 - 1, NEW amount \in Nat,
         l.oldest_hour <= h
  PROVE  LET m == Recorded(l, h, amount) IN
         /\ m.is_initialized = l.is_initialized
         /\ m.oldest_hour <= h
         /\ h - m.oldest_hour = IF h - l.oldest_hour < SLOTS THEN 0
                                ELSE h - l.oldest_hour - SLOTS
<1> DEFINE m == Recorded(l, h, amount)
           o == l.oldest_hour
           b == h - o
           n == SlotsToClear(l, h)
<1>1. /\ SLOTS \in Nat /\ U32 \in Nat /\ h \in Nat /\ h < U32
      /\ o \in Nat /\ b \in Nat /\ b < U32 /\ o + b = h
  BY HourRingAssumption DEF LimiterAccounts
<1>2. b % U32 = b
  <2> HIDE DEF b, o
  <2> QED BY <1>1
<1>3. n = IF b < SLOTS THEN b ELSE SLOTS
  BY <1>2 DEF SlotsToClear, HoursPassed
<1>4. m.is_initialized = l.is_initialized /\ m.oldest_hour = (o + n) % U32
  BY DEF Recorded, Rolled, LimiterAccounts
<1> HIDE DEF m, o, b, n
<1>5. n \in Nat /\ n <= b
  BY <1>1, <1>3
<1>6. (o + n) % U32 = o + n
  <2>1. o + n \in 0 .. U32 - 1
    BY <1>1, <1>5
  <2> HIDE DEF o, n
  <2> QED BY <1>1, <2>1
<1>7. m.oldest_hour <= h
  BY <1>1, <1>4, <1>5, <1>6
<1>8. h - m.oldest_hour = IF b < SLOTS THEN 0 ELSE b - SLOTS
  BY <1>1, <1>3, <1>4, <1>6
<1> QED BY <1>4, <1>7, <1>8 DEF m, o, b

-----------------------------------------------------------------------------
(* The current hour and the account watched, wherever they are used below. *)
LEMMA WatchedType ==
  ASSUME TypeOK
  PROVE  /\ Hour \in 0 .. U32 - 1 /\ Hour \in Nat
         /\ WatchedLimiter \in LimiterAccounts
         /\ WatchedLimiter.oldest_hour \in Nat
         /\ WatchedLimiter.total_limit \in Nat
<1>1. Hour \in 0 .. U32 - 1
  BY CurrentHourType DEF TypeOK, Hour
<1>2. WatchedLimiter \in LimiterAccounts
  BY WatchedAssumption DEF TypeOK, WatchedLimiter
<1> QED BY <1>1, <1>2, HourRingAssumption DEF LimiterAccounts

(* The invariant of the first state.                                       *)
LEMMA WatchedInitially == WatchedInit => WatchedInv
<1> SUFFICES ASSUME WatchedInit PROVE WatchedInv
  OBVIOUS
<1>1. /\ unix_timestamp = 0 /\ mint_events = <<>> /\ peak = 0
      /\ WatchedLimiter = NoLimiter
  BY WatchedAssumption DEF WatchedInit, Init, WatchedLimiter
<1>2. 0 <= MAX_TIME
  BY BridgeAssumption
<1>3. ~WatchedLimiter.is_initialized /\ WatchedLimiter.total_limit = 0
  BY <1>1 DEF NoLimiter
<1> QED BY <1>1, <1>2, <1>3 DEF WatchedInv

(* A step within the hour that leaves the ring alone is no step of it.     *)
LEMMA ElsewhereStep ==
  ASSUME TypeOK, WatchedInv, History \/ UNCHANGED watchedVars,
         UNCHANGED <<unix_timestamp, WatchedLimiter>>,
         \A a \in Slot : MintedIn(Hour - a)' = MintedIn(Hour - a)
  PROVE  UNCHANGED Route!vars /\ UNCHANGED peak
<1>1. Hour' = Hour
  BY DEF Hour
<1>2. UNCHANGED <<hour_behind, peak>>
  <2>1. CASE History
    <3>1. peak' = Max({peak, WatchedLimiter.total_limit}) /\ hour_behind' = hour_behind
      BY <1>1, <2>1 DEF History
    <3>2. ~(WatchedLimiter.total_limit > peak)
      BY WatchedType DEF WatchedInv
    <3>3. Max({peak, WatchedLimiter.total_limit}) = peak
      BY <3>2, LargerOfTwo, WatchedType DEF WatchedInv
    <3> QED BY <3>1, <3>3
  <2>2. CASE UNCHANGED watchedVars
    BY <2>2 DEF watchedVars
  <2> QED BY <2>1, <2>2
<1>3. Behind' = Behind
  BY <1>1 DEF Behind
<1> QED BY <1>2, <1>3 DEF Route!vars

(* A mint through the route is a transfer its limiter checked.             *)
LEMMA WatchedMint ==
  ASSUME TypeOK, TypeOK', WatchedInv, History, NEW submitter, NEW sigs,
         NEW msg \in MintMessages, MintSbtcWithSignatures(submitter, sigs, msg)
  PROVE  [Route!Next]_Route!vars /\ WatchedInv'
<1> DEFINE r == <<msg.source_chain_id, msg.source_token_id>>
           l == limiter[r]
           n == Len(mint_events)
           e == [nonce |-> msg.nonce, route |-> r, to_chain_id |-> msg.to_chain_id,
                 to_address |-> msg.to_address, amount |-> msg.amount, hour |-> Hour,
                 chain_mint_total |->
                   supported_chain_config'[msg.source_chain_id].mint_total,
                 token_mint_total |-> token_config'[r].mint_total]
<1>1. /\ l.is_initialized /\ Admits(l, Hour, msg.amount)
      /\ limiter' = [limiter EXCEPT ![r] = Recorded(@, Hour, msg.amount)]
      /\ mint_events' = Append(mint_events, e)
      /\ UNCHANGED unix_timestamp
  BY DEF MintSbtcWithSignatures, MintAccounts, Hour
<1>2. r \in Routes /\ msg.amount \in Nat /\ msg.amount \in Amounts
  BY MintMessageType DEF MintMessages
<1>3. e.route = r /\ e.hour = Hour /\ e.amount = msg.amount
  OBVIOUS
<1>4. /\ limiter \in [Routes -> LimiterAccounts]
      /\ mint_events \in Seq(MintEvents) /\ mint_events' \in Seq(MintEvents)
  BY DEF TypeOK
<1> HIDE DEF r, e
<1>5. e \in MintEvents
  <2>1. n + 1 \in DOMAIN mint_events' /\ mint_events'[n + 1] = e
    BY <1>1, <1>4
  <2> QED BY <1>4, <2>1
<1>6. Hour' = Hour
  BY <1>1 DEF Hour
<1>7. \A h : MintedOf(mint_events', h)
               = MintedOf(mint_events, h)
                   + (IF r = Watched /\ h = Hour THEN msg.amount ELSE 0)
  BY <1>1, <1>3, <1>4, <1>5, MintedAppended
<1>8. \A a \in Slot : /\ MintedIn(Hour - a)' = MintedOf(mint_events', Hour - a)
                     /\ MintedIn(Hour - a) = MintedOf(mint_events, Hour - a)
                     /\ MintedIn(Hour - a) \in Nat
  <2> TAKE a \in Slot
  <2>1. MintedIn(Hour - a) = MintedOf(mint_events, Hour - a)
    BY DEF MintedIn, MintedOf
  <2>2. MintedIn(Hour - a)' = MintedOf(mint_events', Hour - a)
    <3>1. MintedIn(Hour - a)' = MintedOf(mint_events', Hour' - a)
      BY DEF MintedIn, MintedOf, SumEvents
    <3> QED BY <1>6, <3>1
  <2>3. MintedOf(mint_events, Hour - a) \in Nat
    BY <1>4, MintedOfType
  <2> QED BY <2>1, <2>2, <2>3
<1>9. /\ Hour \in 0 .. U32 - 1 /\ Hour \in Nat /\ peak \in Nat
      /\ WatchedLimiter \in LimiterAccounts
      /\ WatchedLimiter.total_limit <= peak
  BY WatchedType DEF WatchedInv
<1>10. \A i \in DOMAIN mint_events' : mint_events'[i].hour <= Hour
  <2> SUFFICES ASSUME NEW i \in DOMAIN mint_events'
               PROVE  mint_events'[i].hour <= Hour
    OBVIOUS
  <2>1. /\ i \in DOMAIN mint_events => mint_events'[i] = mint_events[i]
        /\ i \notin DOMAIN mint_events => mint_events'[i] = e
    BY <1>1, <1>4, <1>5, AppendEvent
  <2>2. i \in DOMAIN mint_events => mint_events[i].hour <= Hour
    BY DEF WatchedInv
  <2>3. Hour <= Hour
    BY <1>9
  <2> QED BY <1>3, <2>1, <2>2, <2>3
<1>11. ASSUME r # Watched PROVE [Route!Next]_Route!vars /\ WatchedInv'
  <2>1. WatchedLimiter' = WatchedLimiter
    BY <1>1, <1>4, <1>11, WatchedAssumption DEF WatchedLimiter
  <2>2. \A a \in Slot : MintedIn(Hour - a)' = MintedIn(Hour - a)
    BY <1>7, <1>8, <1>11
  <2>3. UNCHANGED Route!vars /\ UNCHANGED peak
    BY <1>1, <2>1, <2>2, ElsewhereStep
  <2>4. WatchedInv'
    BY <1>1, <1>6, <1>10, <2>1, <2>3 DEF WatchedInv
  <2> QED BY <2>3, <2>4
<1>12. ASSUME r = Watched PROVE [Route!Next]_Route!vars /\ WatchedInv'
  <2> DEFINE m == WatchedLimiter'
  <2>1. /\ l = WatchedLimiter
        /\ m = Recorded(WatchedLimiter, Hour, msg.amount)
    BY <1>1, <1>2, <1>4, <1>12 DEF WatchedLimiter
  <2>2. /\ WatchedLimiter.is_initialized
        /\ WatchedLimiter.oldest_hour <= Hour
        /\ Admits(WatchedLimiter, Hour, msg.amount)
    BY <1>1, <2>1 DEF WatchedInv
  <2>3. m.total_limit = WatchedLimiter.total_limit
    BY <1>9, <2>1, RecordedKeepsLimit
  <2>4. /\ m.is_initialized /\ m.oldest_hour <= Hour
        /\ Hour - m.oldest_hour = IF Behind < SLOTS THEN 0 ELSE Behind - SLOTS
    BY <1>2, <1>9, <2>1, <2>2, TransferAdvances DEF Behind
  <2>5. Behind' = IF Behind < SLOTS THEN 0 ELSE Behind - SLOTS
    BY <1>6, <2>4 DEF Behind
  <2>6. UNCHANGED <<hour_behind, peak>>
    <3>1. peak' = Max({peak, m.total_limit}) /\ hour_behind' = hour_behind
      BY <1>6 DEF History
    <3>2. ~(m.total_limit > peak) /\ m.total_limit \in Nat
      BY <1>9, <2>3, WatchedType
    <3> HIDE DEF m
    <3>3. Max({peak, m.total_limit}) = peak
      BY <1>9, <3>2, LargerOfTwo
    <3> QED BY <3>1, <3>3
  <2>7. [a \in Slot |-> MintedIn(Hour - a)]'
          = [[a \in Slot |-> MintedIn(Hour - a)] EXCEPT ![0] = @ + msg.amount]
    <3>1. \A a \in Slot : MintedIn(Hour - a)'
                          = IF a = 0 THEN MintedIn(Hour - a) + msg.amount
                                     ELSE MintedIn(Hour - a)
      <4> TAKE a \in Slot
      <4>1. Hour - a = Hour <=> a = 0
        BY <1>9, HourRingAssumption DEF Slot
      <4>2. MintedIn(Hour - a) + 0 = MintedIn(Hour - a)
        BY <1>8
      <4> QED BY <1>7, <1>8, <1>12, <4>1, <4>2
    <3> QED BY <3>1
  <2>8. Route!CheckTransfer(msg.amount)
    BY <1>1, <1>6, <2>1, <2>2, <2>5, <2>6, <2>7, SameRing
       DEF Route!CheckTransfer, Hour
  <2>9. WatchedInv'
    BY <1>1, <1>6, <1>9, <1>10, <2>3, <2>4, <2>6 DEF WatchedInv
  <2> QED BY <1>2, <2>8, <2>9 DEF Route!Next
<1> QED BY <1>11, <1>12

(* What the log says of each hour stays while log and hour stay.           *)
LEMMA InflowKept ==
  ASSUME UNCHANGED <<unix_timestamp, mint_events>>
  PROVE  \A a \in Slot : MintedIn(Hour - a)' = MintedIn(Hour - a)
BY DEF MintedIn, SumEvents, Hour

(* A limit update for the route sets the limit of its ring.                *)
LEMMA WatchedLimit ==
  ASSUME TypeOK, TypeOK', WatchedInv, History, NEW submitter, NEW sigs,
         NEW msg \in LimitMessages,
         AddOrUpdateLimiterWithSignatures(submitter, sigs, msg)
  PROVE  [Route!Next]_Route!vars /\ WatchedInv'
<1> DEFINE r == <<msg.target_chain_id, msg.token_id>>
           l == limiter[r]
           limit == msg.total_limit
<1>1. /\ limiter' = [limiter EXCEPT ![r] = LimitSet(@, Hour, limit)]
      /\ UNCHANGED <<unix_timestamp, mint_events>>
  BY DEF AddOrUpdateLimiterWithSignatures, Hour
<1>2. r \in Routes /\ limit \in Limits
  BY DEF LimitMessages, Routes
<1> HIDE DEF r, limit
<1>3. limit \in Nat
  BY <1>2, BridgeAssumption
<1>4. /\ limiter \in [Routes -> LimiterAccounts]
      /\ Hour \in 0 .. U32 - 1 /\ Hour \in Nat /\ peak \in Nat
      /\ WatchedLimiter \in LimiterAccounts
      /\ WatchedLimiter.total_limit <= peak
  BY WatchedType DEF WatchedInv, TypeOK
<1>5. Hour' = Hour
  BY <1>1 DEF Hour
<1>6. \A a \in Slot : MintedIn(Hour - a)' = MintedIn(Hour - a)
  BY <1>1, InflowKept
<1>7. ASSUME r # Watched PROVE [Route!Next]_Route!vars /\ WatchedInv'
  <2>1. WatchedLimiter' = WatchedLimiter
    BY <1>1, <1>4, <1>7, WatchedAssumption DEF WatchedLimiter
  <2>2. UNCHANGED Route!vars /\ UNCHANGED peak
    BY <1>1, <1>6, <2>1, ElsewhereStep
  <2>3. WatchedInv'
    BY <1>1, <1>5, <2>1, <2>2 DEF WatchedInv
  <2> QED BY <2>2, <2>3
<1>8. ASSUME r = Watched PROVE [Route!Next]_Route!vars /\ WatchedInv'
  <2> DEFINE m == WatchedLimiter'
  <2>1. m = LimitSet(WatchedLimiter, Hour, limit)
    BY <1>1, <1>2, <1>4, <1>8 DEF WatchedLimiter
  <2>2. /\ m.is_initialized /\ m.total_limit = limit
        /\ m.oldest_hour = IF WatchedLimiter.is_initialized
                           THEN WatchedLimiter.oldest_hour ELSE Hour
    BY <1>4, <2>1 DEF LimitSet, LimiterAccounts
  <2>3. m.oldest_hour <= Hour
    BY <1>4, <2>2 DEF WatchedInv
  <2>4. Behind' = Behind
    BY <1>4, <1>5, <2>2 DEF Behind
  <2>5. /\ hour_behind' = hour_behind
        /\ peak' = IF limit > peak THEN limit ELSE peak
    <3>1. peak' = Max({peak, m.total_limit}) /\ hour_behind' = hour_behind
      BY <1>5 DEF History
    <3> HIDE DEF m
    <3> QED BY <1>3, <1>4, <2>2, <3>1, LargerOfTwo
  <2>6. [a \in Slot |-> MintedIn(Hour - a)]' = [a \in Slot |-> MintedIn(Hour - a)]
    BY <1>6
  <2>7. Route!SetTotalLimit(limit)
    BY <1>1, <2>1, <2>4, <2>5, <2>6, SameRing DEF Route!SetTotalLimit, Hour
  <2>8. peak' \in Nat /\ m.total_limit <= peak'
    <3> HIDE DEF m
    <3> QED BY <1>3, <1>4, <2>2, <2>5
  <2>9. WatchedInv'
    BY <1>1, <1>5, <2>3, <2>8 DEF WatchedInv
  <2> QED BY <1>2, <2>7, <2>9 DEF Route!Next
<1> QED BY <1>7, <1>8

(* A second passes for the program as for the limiter: in a new hour the   *)
(* inflow of each hour is one hour older.                                  *)
LEMMA WatchedTick ==
  ASSUME MAX_TIME < U32, TypeOK, TypeOK', WatchedInv, History, Tick
  PROVE  [Route!Next]_Route!vars /\ WatchedInv'
<1> DEFINE l == WatchedLimiter
<1>1. /\ unix_timestamp \in Nat /\ unix_timestamp < MAX_TIME
      /\ unix_timestamp' = unix_timestamp + 1
      /\ UNCHANGED <<limiter, mint_events>> /\ UNCHANGED WatchedLimiter
  BY DEF Tick, TypeOK, eventVars, WatchedLimiter
<1>2. Hour \in Nat /\ Hour' \in {Hour, Hour + 1}
  BY <1>1, HourOfTick DEF Hour
<1>3. unix_timestamp' <= MAX_TIME
  BY <1>1, BridgeAssumption
<1>4. /\ Route!TrueHour(unix_timestamp) = Hour
      /\ Route!TrueHour(unix_timestamp + 1) = Hour'
  <2>1. unix_timestamp % U32 = unix_timestamp
        /\ (unix_timestamp + 1) % U32 = unix_timestamp + 1
    BY <1>1, HourRingAssumption, BridgeAssumption
  <2> QED BY <1>1, <2>1 DEF Route!TrueHour, Hour, CurrentHour
<1>5. /\ l \in LimiterAccounts /\ l.oldest_hour \in Nat
      /\ l.total_limit \in Nat
      /\ l.is_initialized => l.oldest_hour <= Hour
      /\ peak \in Nat /\ l.total_limit <= peak
  BY WatchedType DEF WatchedInv
<1>6. CASE Hour' = Hour
  <2>1. \A a \in Slot : MintedIn(Hour - a)' = MintedIn(Hour - a)
    BY <1>1, <1>6 DEF MintedIn, SumEvents
  <2>2. Behind' = Behind
    BY <1>1, <1>6 DEF Behind
  <2>3. UNCHANGED <<hour_behind, peak>>
    <3>1. peak' = Max({peak, l.total_limit}) /\ hour_behind' = hour_behind
      BY <1>1, <1>6 DEF History
    <3>2. ~(l.total_limit > peak)
      BY <1>5
    <3> HIDE DEF l
    <3> QED BY <1>5, <3>1, <3>2, LargerOfTwo
  <2>4. [a \in Slot |-> MintedIn(Hour - a)]' = [a \in Slot |-> MintedIn(Hour - a)]
    BY <2>1
  <2>5. Route!Tick
    BY <1>1, <1>4, <1>6, <2>2, <2>3, <2>4 DEF Route!Tick
  <2>6. WatchedInv'
    BY <1>1, <1>3, <1>6, <2>3 DEF WatchedInv
  <2> QED BY <2>5, <2>6 DEF Route!Next
<1>7. CASE Hour' = Hour + 1
  <2>1. \A i \in DOMAIN mint_events : mint_events[i].hour # Hour + 1
                                      /\ mint_events[i].hour <= Hour + 1
    <3> SUFFICES ASSUME NEW i \in DOMAIN mint_events
                 PROVE  mint_events[i].hour # Hour + 1
                        /\ mint_events[i].hour <= Hour + 1
      OBVIOUS
    <3>1. mint_events[i].hour <= Hour
      BY DEF WatchedInv
    <3>2. mint_events[i] \in MintEvents
      BY DEF TypeOK
    <3>3. mint_events[i].hour \in Nat
      BY <3>2 DEF MintEvents
    <3> QED BY <1>2, <3>1, <3>3
  <2>2. [a \in Slot |-> MintedIn(Hour - a)]'
          = [a \in Slot |-> IF a = 0 THEN 0
                            ELSE [b \in Slot |-> MintedIn(Hour - b)][a - 1]]
    <3>1. \A a \in Slot : MintedIn(Hour - a)' = MintedOf(mint_events, (Hour + 1) - a)
      <4> TAKE a \in Slot
      <4>1. MintedIn(Hour - a)' = MintedOf(mint_events', Hour' - a)
        BY DEF MintedIn, MintedOf, SumEvents
      <4>2. mint_events' = mint_events
        BY <1>1
      <4> QED BY <1>7, <4>1, <4>2, Zenon
    <3>2. MintedOf(mint_events, Hour + 1) = 0
      BY <2>1, NoneMinted DEF TypeOK
    <3>3. ASSUME NEW a \in Slot
          PROVE  MintedIn(Hour - a)'
                   = IF a = 0 THEN 0 ELSE [b \in Slot |-> MintedIn(Hour - b)][a - 1]
      <4>1. CASE a = 0
        <5>1. (Hour + 1) - a = Hour + 1
          BY <1>2, <4>1
        <5> QED BY <3>1, <3>2, <4>1, <5>1
      <4>2. CASE a # 0
        <5>1. a - 1 \in Slot /\ Hour - (a - 1) = (Hour + 1) - a
          BY <1>2, <4>2, HourRingAssumption DEF Slot
        <5>2. MintedIn(Hour - (a - 1)) = MintedOf(mint_events, Hour - (a - 1))
          BY DEF MintedIn, MintedOf
        <5>3. [b \in Slot |-> MintedIn(Hour - b)][a - 1] = MintedIn(Hour - (a - 1))
          BY <5>1
        <5> QED BY <3>1, <4>2, <5>1, <5>2, <5>3
      <4> QED BY <4>1, <4>2
    <3> QED BY <3>3
  <2>3. Behind' = IF l.is_initialized THEN Behind + 1 ELSE 0
    <3>1. l.is_initialized => (Hour + 1) - l.oldest_hour = Hour - l.oldest_hour + 1
      BY <1>2, <1>5
    <3>2. Behind' = IF l.is_initialized THEN (Hour + 1) - l.oldest_hour ELSE 0
      BY <1>1, <1>7, Zenon DEF Behind
    <3> QED BY <3>1, <3>2, Zenon DEF Behind
  <2>4. hour_behind' = Behind' /\ peak' = l.total_limit
    BY <1>2, <1>7 DEF History
  <2>5. Hour + 1 # Hour
    BY <1>2
  <2>6. Route!Tick
    <3>1. Route!Slot = Slot
      BY Zenon DEF Route!Slot, Slot
    <3> QED BY <1>1, <1>4, <1>7, <2>2, <2>3, <2>4, <2>5, <3>1 DEF Route!Tick
  <2>7. WatchedInv'
    <3>1. l.is_initialized => l.oldest_hour <= Hour + 1
      BY <1>2, <1>5
    <3>2. l.total_limit <= l.total_limit
      BY <1>5
    <3> QED BY <1>1, <1>3, <1>5, <1>7, <2>1, <2>4, <3>1, <3>2 DEF WatchedInv
  <2> QED BY <2>6, <2>7 DEF Route!Next
<1> QED BY <1>2, <1>6, <1>7

-----------------------------------------------------------------------------
(* Of all instructions only mints, limit updates and time touch the ring.  *)
LEMMA WatchedStep ==
  ASSUME MAX_TIME < U32
  PROVE  /\ TypeOK /\ TypeOK' /\ WatchedInv /\ [WatchedNext]_watchedVars
         => [Route!Next]_Route!vars /\ WatchedInv'
<1> DEFINE Goal == [Route!Next]_Route!vars /\ WatchedInv'
<1> SUFFICES ASSUME TypeOK, TypeOK', WatchedInv, [WatchedNext]_watchedVars
             PROVE  Goal
  OBVIOUS
<1>1. ASSUME History \/ UNCHANGED watchedVars,
             UNCHANGED <<unix_timestamp, limiter, mint_events>>
      PROVE  Goal
  <2>1. UNCHANGED <<unix_timestamp, WatchedLimiter>> /\ Hour' = Hour
    BY <1>1 DEF WatchedLimiter, Hour
  <2>2. UNCHANGED Route!vars /\ UNCHANGED peak
    BY <1>1, <2>1, InflowKept, ElsewhereStep
  <2> QED BY <1>1, <2>1, <2>2 DEF WatchedInv
<1> HIDE DEF Goal
<1>2. ASSUME History, Next PROVE Goal
  <2>1. CASE MintNext
    BY <1>2, <2>1, MintNextMessage, WatchedMint DEF Goal
  <2>2. CASE LimitNext
    BY <1>2, <2>2, LimitNextMessage, WatchedLimit DEF Goal
  <2>3. CASE Tick
    BY <1>2, <2>3, WatchedTick DEF Goal
  <2>4. CASE AdminNext
    BY <1>1, <1>2, <2>4 DEF AdminNext, eventVars
  <2>5. CASE WithdrawNext
    BY <1>1, <1>2, <2>5 DEF WithdrawNext, WithdrawBtc
  <2>6. ASSUME NEW b \in ChainIds, NEW from \in Users, NEW to \in Users,
               NEW amount \in Amounts, SplTransfer(b, from, to, amount)
        PROVE  Goal
    BY <1>1, <1>2, <2>6 DEF SplTransfer, eventVars
  <2>7. ASSUME NEW b \in ChainIds, NEW from \in Users, NEW amount \in Amounts,
               SplBurn(b, from, amount)
        PROVE  Goal
    BY <1>1, <1>2, <2>7 DEF SplBurn, eventVars
  <2> QED BY <1>2, <2>1, <2>2, <2>3, <2>4, <2>5, <2>6, <2>7 DEF Next
<1>3. ASSUME UNCHANGED watchedVars PROVE Goal
  BY <1>1, <1>3 DEF watchedVars, vars, eventVars
<1>4. Goal
  BY <1>2, <1>3 DEF WatchedNext
<1> QED BY <1>4

(* The watched program is the program.                                     *)
LEMMA WatchedIsBridge == WatchedSpec => Spec
<1>1. WatchedInit => Init
  BY DEF WatchedInit
<1>2. [WatchedNext]_watchedVars => [Next]_vars
  BY DEF WatchedNext, watchedVars
<1> QED BY <1>1, <1>2, PTL DEF WatchedSpec, Spec

(* The first state of the program is that of an idle limiter.              *)
LEMMA WatchedInitIsLimiterInit == WatchedInit => Route!Init
<1> SUFFICES ASSUME WatchedInit PROVE Route!Init
  OBVIOUS
<1>1. /\ unix_timestamp = 0 /\ mint_events = <<>> /\ peak = 0 /\ hour_behind = 0
      /\ WatchedLimiter = NoLimiter
  BY WatchedAssumption DEF WatchedInit, Init, WatchedLimiter
<1>2. Route!NoLimiter = NoLimiter /\ Route!EmptyRing = EmptyRing
  BY Zenon DEF NoLimiter, EmptyRing, Slot, Route!NoLimiter, Route!EmptyRing,
               Route!Slot
<1>3. Behind = 0
  BY <1>1 DEF Behind, NoLimiter
<1>4. \A a \in Slot : MintedIn(Hour - a) = 0
  <2> TAKE a \in Slot
  <2>1. MintedIn(Hour - a) = MintedOf(mint_events, Hour - a)
    BY DEF MintedIn, MintedOf
  <2>2. <<>> \in Seq(MintEvents) /\ DOMAIN <<>> = {}
    OBVIOUS
  <2>3. MintedOf(<<>>, Hour - a) = 0
    BY <2>2, NoneMinted
  <2> QED BY <1>1, <2>1, <2>3
<1>5. [a \in Slot |-> MintedIn(Hour - a)] = EmptyRing
  BY <1>4 DEF EmptyRing
<1> QED BY <1>1, <1>2, <1>3, <1>5 DEF Route!Init

(* Until the u32 clock wraps, the program implements Limiter on every      *)
(* route, whatever else it does and however its instructions interleave.   *)
THEOREM BridgeImplementsLimiter ==
  ASSUME MAX_TIME < U32
  PROVE  WatchedSpec => ImplementsLimiter
<1>1. WatchedSpec => []TypeOK
  BY WatchedIsBridge, BridgeTypeCorrect, PTL
<1>2. TypeOK /\ TypeOK' /\ WatchedInv /\ [WatchedNext]_watchedVars
        => [Route!Next]_Route!vars /\ WatchedInv'
  BY WatchedStep
<1> QED BY <1>1, <1>2, WatchedInitially, WatchedInitIsLimiterInit, PTL
     DEF WatchedSpec, ImplementsLimiter, Route!Spec

(* What is proved of Limiter applies to the limiter of the route.          *)
LEMMA WatchedLimiterSpec ==
  ASSUME MAX_TIME < U32
  PROVE  WatchedSpec => RouteP!Spec
<1>1. [Route!Next]_Route!vars => [RouteP!Next]_RouteP!vars
  BY SameNext, Zenon DEF RouteP!vars, Route!vars
<1> QED BY <1>1, SameInit, BridgeImplementsLimiter, PTL
     DEF ImplementsLimiter, Route!Spec, RouteP!Spec

(* The constants of the program are constants of a limiter.                *)
LEMMA LimiterConstants == RouteP!LimiterAssumption /\ RouteP!HourRingAssumption
BY BridgeAssumption, HourRingAssumption
   DEF RouteP!LimiterAssumption, RouteP!HourRingAssumption

(* What the log says was minted through any route in the running hour is   *)
(* within the highest limit in force in it, times the whole ring turns the *)
(* route had been idle for when the hour began if there were several.      *)
THEOREM HourlyMintsCapped ==
  ASSUME MAX_TIME < U32
  PROVE  WatchedSpec => []HourlyMintCapped
<1>1. RouteP!Spec => []RouteP!HourlyInflowBound
  BY RouteP!HourIsCapped, LimiterConstants
<1>2. TypeOK /\ RouteP!HourlyInflowBound => HourlyMintCapped
  <2> SUFFICES ASSUME TypeOK, RouteP!HourlyInflowBound PROVE HourlyMintCapped
    OBVIOUS
  <2>1. 0 \in Slot /\ Hour - 0 = Hour
    BY WatchedType, HourRingAssumption DEF Slot
  <2>2. [a \in Slot |-> MintedIn(Hour - a)][0] = MintedIn(Hour)
    BY <2>1
  <2>3. \A S : RouteP!Max(S) = Max(S)
    BY Zenon DEF Max, RouteP!Max
  <2> QED BY <2>2, <2>3 DEF RouteP!HourlyInflowBound, HourlyMintCapped
<1>3. WatchedSpec => []TypeOK
  BY WatchedIsBridge, BridgeTypeCorrect, PTL
<1> QED BY <1>1, <1>2, <1>3, WatchedLimiterSpec, PTL

(* However an hour of a route was used up, an hour later the route takes   *)
(* any amount up to its limit again.                                       *)
THEOREM RoutesRecover ==
  ASSUME MAX_TIME + SECONDS_PER_HOUR < U32
  PROVE  WatchedSpec => []RouteRecovers
<1>1. MAX_TIME < U32
  BY HourRingAssumption, BridgeAssumption
<1>2. RouteP!Spec => []RouteP!RoomNextHour
  BY RouteP!RoomAgainNextHour, LimiterConstants
<1>3. RouteP!RoomNextHour => RouteRecovers
  BY SameRing, Zenon DEF RouteP!RoomNextHour, RouteRecovers
<1>4. WatchedSpec => RouteP!Spec
  BY <1>1, WatchedLimiterSpec
<1> QED BY <1>2, <1>3, <1>4, PTL
=============================================================================
