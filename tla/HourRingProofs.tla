--------------------------- MODULE HourRingProofs ---------------------------
(***************************************************************************)
(* Lemmas about the operators of HourRing, for every ring size, hour       *)
(* length and width of the hour counter.                                   *)
(***************************************************************************)
EXTENDS HourRing, SumProofs

(* A timestamp is its hour times the length of an hour plus a rest.        *)
LEMMA DivMod ==
  ASSUME NEW t \in Nat, NEW d \in Nat \ {0}
  PROVE  /\ t \div d \in Nat
         /\ t % d \in 0 .. d - 1
         /\ t = d * (t \div d) + (t % d)
OBVIOUS

(* An hour number is never larger than the timestamp it comes from.        *)
LEMMA DivAtMost ==
  ASSUME NEW t \in Nat, NEW d \in Nat \ {0}
  PROVE  t \div d <= t
<1> DEFINE q == t \div d
<1>1. q \in Nat /\ t % d \in Nat /\ t = d * q + (t % d)
  BY DivMod
<1>2. d * q >= q
  BY <1>1
<1> QED BY <1>1, <1>2

(* A second later it is the same hour or the next.                         *)
LEMMA DivStep ==
  ASSUME NEW t \in Nat, NEW d \in Nat \ {0}
  PROVE  (t + 1) \div d \in {t \div d, (t \div d) + 1}
OBVIOUS

(* The rest of a division is the only one below the divisor.               *)
LEMMA ModUnique ==
  ASSUME NEW d \in Nat \ {0}, NEW q \in Nat, NEW r \in 0 .. d - 1
  PROVE  (d * q + r) % d = r
<1> DEFINE t == d * q + r
           p == t \div d
           s == t % d
<1>1. t \in Nat
  OBVIOUS
<1>2. p \in Nat /\ s \in 0 .. d - 1 /\ t = d * p + s
  BY <1>1, DivMod
<1> HIDE DEF p, s
<1>3. d * (p - q) = r - s
  BY <1>2
<1>4. p - q \in Int /\ r - s < d /\ r - s > -d
  BY <1>2
<1>5. p - q = 0
  <2>1. CASE p - q >= 1
    <3>1. d * (p - q) >= d
      BY <1>4, <2>1
    <3> QED BY <1>3, <1>4, <3>1
  <2>2. CASE p - q <= -1
    <3>1. d * (p - q) <= -d
      BY <1>4, <2>2
    <3> QED BY <1>3, <1>4, <3>1
  <2> QED BY <1>4, <2>1, <2>2
<1>6. r = s
  BY <1>2, <1>3, <1>5
<1> QED BY <1>6 DEF s

(* Counting on from the slot of an hour gives the slots of later hours.    *)
LEMMA ModAdd ==
  ASSUME NEW d \in Nat \ {0}, NEW o \in Nat, NEW b \in Nat
  PROVE  ((o % d) + b) % d = (o + b) % d
<1> DEFINE q == o \div d
           r == o % d
           p == (r + b) \div d
           s == (r + b) % d
<1>1. q \in Nat /\ r \in 0 .. d - 1 /\ o = d * q + r
  BY DivMod
<1> HIDE DEF q, r
<1>2. r + b \in Nat
  BY <1>1
<1>3. p \in Nat /\ s \in 0 .. d - 1 /\ r + b = d * p + s
  BY <1>2, DivMod
<1> HIDE DEF p, s
<1>4. o + b = d * (q + p) + s
  BY <1>1, <1>3
<1>5. q + p \in Nat
  BY <1>1, <1>3
<1>6. (o + b) % d = s
  BY <1>3, <1>4, <1>5, ModUnique
<1> QED BY <1>6 DEF s, r

(* The current hour fits the hour counter, whatever the clock shows.       *)
LEMMA CurrentHourType ==
  ASSUME NEW t \in Nat
  PROVE  CurrentHour(t) \in 0 .. U32 - 1
<1>1. U32 \in Nat \ {0} /\ SECONDS_PER_HOUR \in Nat \ {0}
  BY HourRingAssumption
<1>2. t % U32 \in 0 .. U32 - 1
  BY <1>1, DivMod
<1>3. (t % U32) \div SECONDS_PER_HOUR \in Nat
  BY <1>1, <1>2
<1>4. (t % U32) \div SECONDS_PER_HOUR <= t % U32
  BY <1>1, <1>2, DivAtMost
<1> QED BY <1>2, <1>3, <1>4, <1>1 DEF CurrentHour

(* The wrapping subtraction yields a number the hour counter can hold.     *)
LEMMA SlotsToClearType ==
  ASSUME NEW l \in LimiterAccounts, NEW h \in 0 .. U32 - 1
  PROVE  SlotsToClear(l, h) \in 0 .. SLOTS
<1>1. U32 \in Nat \ {0} /\ SLOTS \in Nat
  BY HourRingAssumption
<1>2. l.oldest_hour \in Int /\ h \in Int
  BY <1>1 DEF LimiterAccounts
<1>3. HoursPassed(l, h) \in Nat
  BY <1>1, <1>2 DEF HoursPassed
<1> QED BY <1>1, <1>3 DEF SlotsToClear

(* An empty ring has a slot for each hour of a turn.                       *)
LEMMA EmptyRingType == EmptyRing \in [Slot -> Nat]
BY DEF EmptyRing

(* An address without a limiter reads as a well-formed account of zeroes.   *)
LEMMA NoLimiterType == NoLimiter \in LimiterAccounts
<1>1. 0 \in 0 .. U32 - 1
  BY HourRingAssumption
<1> QED BY <1>1, EmptyRingType DEF NoLimiter, LimiterAccounts

(* Clearing expired slots leaves a well-formed account.                    *)
LEMMA RolledType ==
  ASSUME NEW l \in LimiterAccounts, NEW h \in 0 .. U32 - 1
  PROVE  Rolled(l, h) \in LimiterAccounts
<1>1. U32 \in Nat \ {0} /\ SLOTS \in Nat
  BY HourRingAssumption
<1>2. SlotsToClear(l, h) \in 0 .. SLOTS
  BY SlotsToClearType
<1>3. l.oldest_hour \in Nat
  BY <1>1 DEF LimiterAccounts
<1>4. (l.oldest_hour + SlotsToClear(l, h)) % U32 \in 0 .. U32 - 1
  BY <1>1, <1>2, <1>3
<1>5. [s \in Slot |-> IF s \in ClearedSlots(l, h)
                      THEN 0 ELSE l.hourly_transfers[s]] \in [Slot -> Nat]
  BY DEF LimiterAccounts
<1> QED BY <1>4, <1>5 DEF Rolled, LimiterAccounts

(* The current hour has a slot of the ring.                                *)
LEMMA HourSlot ==
  ASSUME NEW h \in Nat
  PROVE  h % SLOTS \in Slot
BY HourRingAssumption, DivMod DEF Slot

(* Recording a transfer leaves a well-formed account.                      *)
LEMMA RecordedType ==
  ASSUME NEW l \in LimiterAccounts, NEW h \in 0 .. U32 - 1, NEW amount \in Nat
  PROVE  Recorded(l, h, amount) \in LimiterAccounts
<1>1. Rolled(l, h) \in LimiterAccounts
  BY RolledType
<1>2. h % SLOTS \in Slot
  BY HourSlot, HourRingAssumption
<1>3. Rolled(l, h).hourly_transfers \in [Slot -> Nat]
  BY <1>1 DEF LimiterAccounts
<1>4. [Rolled(l, h).hourly_transfers EXCEPT ![h % SLOTS] = @ + amount]
        \in [Slot -> Nat]
  BY <1>2, <1>3
<1> QED BY <1>1, <1>4 DEF Recorded, LimiterAccounts

(* Recording a transfer leaves the limit alone.                            *)
LEMMA RecordedKeepsLimit ==
  ASSUME NEW l \in LimiterAccounts, NEW h, NEW amount
  PROVE  Recorded(l, h, amount).total_limit = l.total_limit
<1>1. Rolled(l, h).total_limit = l.total_limit
  BY DEF Rolled, LimiterAccounts
<1>2. Recorded(l, h, amount).total_limit = Rolled(l, h).total_limit
  BY DEF Recorded, Rolled, LimiterAccounts
<1> QED BY <1>1, <1>2

(* An approved limit leaves a well-formed account.                         *)
LEMMA LimitSetType ==
  ASSUME NEW l \in LimiterAccounts, NEW h \in 0 .. U32 - 1, NEW limit \in Nat
  PROVE  LimitSet(l, h, limit) \in LimiterAccounts
BY EmptyRingType DEF LimitSet, LimiterAccounts

-----------------------------------------------------------------------------
(* Clearing empties the slots of the hours that passed and keeps the rest. *)
LEMMA RolledSlots ==
  ASSUME NEW l \in LimiterAccounts, NEW h, NEW s \in Slot
  PROVE  Rolled(l, h).hourly_transfers[s]
           = IF s \in ClearedSlots(l, h) THEN 0 ELSE l.hourly_transfers[s]
BY DEF Rolled, LimiterAccounts

(* When a whole turn has passed every slot is cleared.                     *)
LEMMA FullTurn ==
  ASSUME NEW l \in LimiterAccounts, NEW h \in 0 .. U32 - 1,
         HoursPassed(l, h) >= SLOTS
  PROVE  Slot \subseteq ClearedSlots(l, h)
<1> SUFFICES ASSUME NEW s \in Slot PROVE s \in ClearedSlots(l, h)
  OBVIOUS
<1> DEFINE o == l.oldest_hour % SLOTS
<1>1. SLOTS \in Nat \ {0} /\ s \in 0 .. SLOTS - 1
  BY HourRingAssumption DEF Slot
<1>2. o \in 0 .. SLOTS - 1
  <2>1. l.oldest_hour \in Nat
    BY HourRingAssumption DEF LimiterAccounts
  <2> QED BY <1>1, <2>1, DivMod
<1>3. SlotsToClear(l, h) = SLOTS
  <2>1. HoursPassed(l, h) \in Nat
    BY HourRingAssumption DEF HoursPassed, LimiterAccounts
  <2> QED BY <1>1, <2>1 DEF SlotsToClear
<1>4. ClearedSlots(l, h) = {(o + i) % SLOTS : i \in 0 .. SLOTS - 1}
  BY <1>3 DEF ClearedSlots
<1> HIDE DEF o
<1>5. CASE s >= o
  <2>1. s - o \in 0 .. SLOTS - 1 /\ o + (s - o) = SLOTS * 0 + s
    BY <1>1, <1>2, <1>5
  <2>2. (o + (s - o)) % SLOTS = s
    BY <1>1, <2>1, ModUnique
  <2> QED BY <1>4, <2>1, <2>2
<1>6. CASE s < o
  <2>1. s - o + SLOTS \in 0 .. SLOTS - 1 /\ o + (s - o + SLOTS) = SLOTS * 1 + s
    BY <1>1, <1>2, <1>6
  <2>2. (o + (s - o + SLOTS)) % SLOTS = s
    BY <1>1, <2>1, ModUnique
  <2> QED BY <1>4, <2>1, <2>2
<1> QED BY <1>1, <1>2, <1>5, <1>6

(* At hour h the ring, once cleared, remembers no hour but this one.       *)
OnlyThisHour(l, h) ==
  \A s \in Slot : s # h % SLOTS => Rolled(l, h).hourly_transfers[s] = 0

(* Then what a transfer is added to is what this hour has recorded.        *)
LEMMA TotalOfThisHour ==
  ASSUME NEW l \in LimiterAccounts, NEW h \in 0 .. U32 - 1, OnlyThisHour(l, h)
  PROVE  /\ h % SLOTS \in Slot
         /\ Rolled(l, h).hourly_transfers[h % SLOTS] \in Nat
         /\ RecordedTotal(l, h) = Rolled(l, h).hourly_transfers[h % SLOTS]
<1> DEFINE f == Rolled(l, h).hourly_transfers
<1>1. f \in [Slot -> Nat]
  BY RolledType DEF LimiterAccounts
<1>2. IsFiniteSet(Slot)
  BY HourRingAssumption, FS_Interval DEF Slot
<1>3. h % SLOTS \in Slot
  BY HourSlot, HourRingAssumption
<1>4. \A s \in Slot \ {h % SLOTS} : f[s] = 0
  BY DEF OnlyThisHour
<1>5. RecordedTotal(l, h) = SumFunction(f)
  BY DEF RecordedTotal
<1> HIDE DEF f
<1>6. SumFunction(f) = f[h % SLOTS]
  BY <1>1, <1>2, <1>3, <1>4, SumOneTerm
<1> QED BY <1>1, <1>3, <1>5, <1>6 DEF f

(* In the hour after, everything recorded has expired.                     *)
LEMMA NextHourEmpty ==
  ASSUME NEW l \in LimiterAccounts, NEW h \in Nat, h + 1 < U32,
         l.oldest_hour <= h, OnlyThisHour(l, h)
  PROVE  \A s \in Slot : Rolled(l, h + 1).hourly_transfers[s] = 0
<1> DEFINE o == l.oldest_hour
           b == h - o
<1>1. /\ SLOTS \in Nat \ {0} /\ U32 \in Nat /\ o \in Nat /\ b \in Nat
      /\ b < U32 /\ b + 1 < U32
  BY HourRingAssumption DEF LimiterAccounts
<1>2. HoursPassed(l, h) = b /\ HoursPassed(l, h + 1) = b + 1
  <2>1. b % U32 = b /\ (b + 1) % U32 = b + 1
    BY <1>1
  <2>2. (h + 1) - o = b + 1
    BY <1>1
  <2> QED BY <2>1, <2>2 DEF HoursPassed
<1>3. h \in 0 .. U32 - 1 /\ h + 1 \in 0 .. U32 - 1
  BY <1>1
<1> SUFFICES ASSUME NEW s \in Slot PROVE Rolled(l, h + 1).hourly_transfers[s] = 0
  OBVIOUS
<1>4. CASE b + 1 >= SLOTS
  BY <1>2, <1>3, <1>4, FullTurn, RolledSlots
<1>5. CASE b + 1 < SLOTS
  <2>1. SlotsToClear(l, h) = b /\ SlotsToClear(l, h + 1) = b + 1
    BY <1>1, <1>2, <1>5 DEF SlotsToClear
  <2>2. /\ ClearedSlots(l, h) = {((o % SLOTS) + i) % SLOTS : i \in 0 .. b - 1}
        /\ ClearedSlots(l, h + 1) = {((o % SLOTS) + i) % SLOTS : i \in 0 .. b}
    BY <1>1, <2>1 DEF ClearedSlots
  <2>3. ((o % SLOTS) + b) % SLOTS = h % SLOTS
    <3>1. o + b = h
      BY <1>1
    <3> HIDE DEF o, b
    <3>2. ((o % SLOTS) + b) % SLOTS = (o + b) % SLOTS
      BY <1>1, ModAdd
    <3> QED BY <3>1, <3>2
  <2>4. CASE s = h % SLOTS
    <3>1. b \in 0 .. b
      BY <1>1
    <3>2. ((o % SLOTS) + b) % SLOTS
            \in {((o % SLOTS) + i) % SLOTS : i \in 0 .. b}
      BY Zenon, <3>1
    <3>3. s \in ClearedSlots(l, h + 1)
      BY Zenon, <2>2, <2>3, <2>4, <3>2
    <3> QED BY <3>3, RolledSlots
  <2>5. CASE s # h % SLOTS
    <3>1. Rolled(l, h).hourly_transfers[s] = 0
      BY <2>5 DEF OnlyThisHour
    <3>2. ClearedSlots(l, h) \subseteq ClearedSlots(l, h + 1)
      BY <1>1, <2>2
    <3> QED BY <3>1, <3>2, RolledSlots
  <2> QED BY <2>4, <2>5
<1> QED BY <1>1, <1>4, <1>5

(* A transfer adds its amount to this hour's slot and to no other.         *)
LEMMA RecordedSlots ==
  ASSUME NEW l \in LimiterAccounts, NEW h \in 0 .. U32 - 1, NEW amount \in Nat,
         NEW s \in Slot
  PROVE  LET f == Rolled(l, h).hourly_transfers
             k == Rolled(Recorded(l, h, amount), h).hourly_transfers
         IN
         /\ f[s] \in Nat /\ k[s] \in Nat
         /\ k[s] <= IF s = h % SLOTS THEN f[s] + amount ELSE f[s]
<1> DEFINE f == Rolled(l, h).hourly_transfers
           m == Recorded(l, h, amount)
           k == Rolled(m, h).hourly_transfers
<1>1. f \in [Slot -> Nat]
  BY RolledType DEF LimiterAccounts
<1>2. m \in LimiterAccounts
  BY RecordedType
<1>3. m.hourly_transfers[s] = IF s = h % SLOTS THEN f[s] + amount ELSE f[s]
  <2>1. m.hourly_transfers = [f EXCEPT ![h % SLOTS] = @ + amount]
    BY DEF Recorded, Rolled
  <2> HIDE DEF f
  <2> QED BY <1>1, <2>1
<1>4. m.hourly_transfers[s] \in Nat
  BY <1>2 DEF LimiterAccounts
<1> HIDE DEF m
<1>5. k[s] = 0 \/ k[s] = m.hourly_transfers[s]
  BY <1>2, RolledSlots
<1> HIDE DEF f, k
<1> QED BY <1>1, <1>3, <1>4, <1>5 DEF f, k, m

(* A new limit for an existing account leaves what the ring holds.         *)
LEMMA LimitKeepsRing ==
  ASSUME NEW l \in LimiterAccounts, NEW h, NEW limit \in Nat, l.is_initialized,
         NEW s \in Slot
  PROVE  Rolled(LimitSet(l, h, limit), h).hourly_transfers[s]
           = Rolled(l, h).hourly_transfers[s]
<1> DEFINE m == LimitSet(l, h, limit)
<1>1. m = [l EXCEPT !.total_limit = limit]
  BY DEF LimitSet
<1>2. /\ m.oldest_hour = l.oldest_hour
      /\ m.hourly_transfers = l.hourly_transfers
      /\ m \in LimiterAccounts
  BY <1>1 DEF LimiterAccounts
<1>3. ClearedSlots(m, h) = ClearedSlots(l, h)
  BY <1>2 DEF ClearedSlots, SlotsToClear, HoursPassed
<1> HIDE DEF m
<1> QED BY <1>2, <1>3, RolledSlots DEF m

(* Less than a turn behind, clearing spares the slot of the current hour.  *)
LEMMA ThisHourKept ==
  ASSUME NEW l \in LimiterAccounts, NEW h \in 0 .. U32 - 1,
         l.oldest_hour <= h, h - l.oldest_hour < SLOTS
  PROVE  Rolled(l, h).hourly_transfers[h % SLOTS]
           = l.hourly_transfers[h % SLOTS]
<1> DEFINE o == l.oldest_hour
           b == h - o
<1>1. /\ SLOTS \in Nat \ {0} /\ U32 \in Nat /\ SLOTS < U32
      /\ o \in Nat /\ b \in Nat /\ b < SLOTS /\ h \in Nat
  BY HourRingAssumption DEF LimiterAccounts
<1>2. SlotsToClear(l, h) = b
  <2>1. b % U32 = b
    BY <1>1
  <2> QED BY <1>1, <2>1 DEF SlotsToClear, HoursPassed
<1>3. ASSUME NEW i \in 0 .. b - 1, ((o % SLOTS) + i) % SLOTS = h % SLOTS
      PROVE  FALSE
  <2>1. i \in Nat /\ i < b
    BY <1>1
  <2>2. o + b = h
    BY <1>1
  <2> HIDE DEF o, b
  <2>3. (o + i) % SLOTS = (o + b) % SLOTS
    <3>1. ((o % SLOTS) + i) % SLOTS = (o + i) % SLOTS
      BY <1>1, <2>1, ModAdd
    <3> QED BY <1>3, <2>2, <3>1
  <2> DEFINE u == o + i
             v == o + b
             p == u \div SLOTS
             q == v \div SLOTS
  <2>4. u \in Nat /\ v \in Nat /\ v - u = b - i
    BY <1>1, <2>1
  <2> HIDE DEF u, v
  <2>5. /\ p \in Nat /\ u % SLOTS \in Nat /\ u = SLOTS * p + (u % SLOTS)
        /\ q \in Nat /\ v % SLOTS \in Nat /\ v = SLOTS * q + (v % SLOTS)
    <3>1. p \in Nat /\ u % SLOTS \in 0 .. SLOTS - 1 /\ u = SLOTS * p + (u % SLOTS)
      BY <1>1, <2>4, DivMod
    <3>2. q \in Nat /\ v % SLOTS \in 0 .. SLOTS - 1 /\ v = SLOTS * q + (v % SLOTS)
      BY <1>1, <2>4, DivMod
    <3> QED BY <1>1, <3>1, <3>2
  <2>9. u % SLOTS = v % SLOTS
    BY <2>3 DEF u, v
  <2> HIDE DEF p, q
  <2>6. SLOTS * (q - p) = b - i /\ b - i > 0 /\ b - i < SLOTS
    BY <1>1, <2>1, <2>4, <2>5, <2>9
  <2>7. CASE q - p >= 1
    <3>1. SLOTS * (q - p) >= SLOTS
      BY <1>1, <2>5, <2>7
    <3> QED BY <1>1, <2>1, <2>6, <3>1
  <2>8. CASE q - p <= 0
    <3>1. SLOTS * (q - p) <= 0
      BY <1>1, <2>5, <2>8
    <3> QED BY <1>1, <2>1, <2>6, <3>1
  <2> QED BY <2>5, <2>7, <2>8
<1>4. h % SLOTS \notin ClearedSlots(l, h)
  <2>1. ClearedSlots(l, h) = {((o % SLOTS) + i) % SLOTS : i \in 0 .. b - 1}
    BY <1>2 DEF ClearedSlots
  <2> HIDE DEF o, b
  <2> QED BY Zenon, <1>3, <2>1
<1>5. h % SLOTS \in Slot
  BY <1>1, HourSlot
<1> QED BY <1>4, <1>5, RolledSlots

(* What the ring counts of hour h itself.                                  *)
HeldAt(l, h) == Rolled(l, h).hourly_transfers[h % SLOTS]

(* A transfer at hour h, when the ring counts that hour alone: the ring    *)
(* moves on by at most a turn, what it counts stays within the limit, and  *)
(* it forgets this hour only while it lags a turn or more behind.          *)
LEMMA TransferInHour ==
  ASSUME NEW l \in LimiterAccounts, NEW h \in 0 .. U32 - 1, NEW amount \in Nat,
         l.oldest_hour <= h, OnlyThisHour(l, h), Admits(l, h, amount)
  PROVE  LET m == Recorded(l, h, amount) IN
         /\ m.is_initialized = l.is_initialized
         /\ m.total_limit = l.total_limit
         /\ m.oldest_hour <= h
         /\ h - m.oldest_hour = IF h - l.oldest_hour < SLOTS THEN 0
                                ELSE h - l.oldest_hour - SLOTS
         /\ OnlyThisHour(m, h)
         /\ HeldAt(l, h) \in Nat
         /\ HeldAt(l, h) + amount <= l.total_limit
         /\ h - l.oldest_hour >= SLOTS => HeldAt(l, h) = 0
         /\ h - m.oldest_hour < SLOTS => HeldAt(m, h) = HeldAt(l, h) + amount
<1> DEFINE m == Recorded(l, h, amount)
           f == Rolled(l, h).hourly_transfers
           o == l.oldest_hour
           b == h - o
           n == SlotsToClear(l, h)
<1>1. /\ SLOTS \in Nat \ {0} /\ U32 \in Nat /\ SLOTS < U32
      /\ h \in Nat /\ h < U32 /\ o \in Nat /\ b \in Nat /\ b < U32 /\ o + b = h
      /\ h % SLOTS \in Slot
  <2>1. h \in Nat /\ h < U32 /\ o \in Nat
    BY HourRingAssumption DEF LimiterAccounts
  <2>2. h % SLOTS \in Slot
    BY <2>1, HourSlot
  <2> QED BY <2>1, <2>2, HourRingAssumption
<1>2. m \in LimiterAccounts /\ f \in [Slot -> Nat]
  BY RecordedType, RolledType DEF LimiterAccounts
<1>3. HoursPassed(l, h) = b
  <2>1. HoursPassed(l, h) = b % U32
    BY DEF HoursPassed
  <2> HIDE DEF b
  <2>2. b % U32 = b
    BY <1>1
  <2> QED BY <2>1, <2>2
<1>4. n = IF b < SLOTS THEN b ELSE SLOTS
  BY <1>3 DEF SlotsToClear
<1>5. /\ m.is_initialized = l.is_initialized
      /\ m.total_limit = l.total_limit
      /\ m.oldest_hour = (o + n) % U32
      /\ m.hourly_transfers = [f EXCEPT ![h % SLOTS] = @ + amount]
  BY DEF Recorded, Rolled, LimiterAccounts
<1> HIDE DEF m, f, o, b, n
<1>6. n \in Nat /\ n <= b
  BY <1>1, <1>4
<1>7. m.oldest_hour = o + n
  <2>1. (o + n) % U32 = o + n
    BY <1>1, <1>6
  <2> QED BY <1>5, <2>1
<1>8. /\ m.oldest_hour <= h /\ m.oldest_hour \in Nat
      /\ h - m.oldest_hour = IF b < SLOTS THEN 0 ELSE b - SLOTS
  BY <1>1, <1>4, <1>6, <1>7
<1>9. OnlyThisHour(m, h)
  <2> SUFFICES ASSUME NEW s \in Slot, s # h % SLOTS
               PROVE  Rolled(m, h).hourly_transfers[s] = 0
    BY DEF OnlyThisHour
  <2>1. f[s] = 0
    BY DEF OnlyThisHour, f
  <2>2. Rolled(m, h).hourly_transfers[s] \in Nat
        /\ Rolled(m, h).hourly_transfers[s] <= f[s]
    BY RecordedSlots DEF f, m
  <2> QED BY <2>1, <2>2
<1>10. HeldAt(l, h) = f[h % SLOTS] /\ f[h % SLOTS] \in Nat
  BY <1>1, <1>2 DEF HeldAt, f
<1>11. HeldAt(l, h) + amount <= l.total_limit
  <2>1. RecordedTotal(l, h) = HeldAt(l, h)
    BY TotalOfThisHour DEF HeldAt
  <2> QED BY <2>1 DEF Admits
<1>12. b >= SLOTS => HeldAt(l, h) = 0
  <2> SUFFICES ASSUME b >= SLOTS PROVE f[h % SLOTS] = 0
    BY <1>10
  <2> QED BY <1>1, <1>3, FullTurn, RolledSlots DEF f
<1>13. h - m.oldest_hour < SLOTS => HeldAt(m, h) = HeldAt(l, h) + amount
  <2> SUFFICES ASSUME h - m.oldest_hour < SLOTS
               PROVE  HeldAt(m, h) = HeldAt(l, h) + amount
    OBVIOUS
  <2>1. HeldAt(m, h) = m.hourly_transfers[h % SLOTS]
    BY <1>2, <1>8, ThisHourKept DEF HeldAt
  <2>2. m.hourly_transfers[h % SLOTS] = f[h % SLOTS] + amount
    BY <1>1, <1>2, <1>5
  <2> QED BY <1>10, <2>1, <2>2
<1> QED BY <1>5, <1>8, <1>9, <1>10, <1>11, <1>12, <1>13 DEF m, b, o
=============================================================================
