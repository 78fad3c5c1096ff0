-------------------------- MODULE RateLimiterProofs --------------------------
(* Proofs about RateLimiter and RateLimiterWindow, for every set of clients, limit,     *)
(* period and bound.                                                                    *)
EXTENDS RateLimiterWindow, SumTheorems

\* Per call: its clock reading was at most MaxDelay ago, on a clock of Offsets.
CallsAreRecent ==
    \A c \in Client : pc[c] # "idle" =>
        /\ readAt[c] <= now /\ now <= readAt[c] + MaxDelay
        /\ \E o \in Offsets : stamp[c] = readAt[c] + o

\* The bucket's ts is a clock reading taken before its last use, Expiry's base.
StampBeforeUse ==
    expireAt # None =>
        /\ expireAt - 2 * Per <= now
        /\ \E o \in Offsets : ts <= expireAt - 2 * Per + o

\* Nothing is counted before the bucket exists.
NothingBefore == expireAt = None => admitted = 0 /\ regress = 0 /\ start = 0

\* The inductive strengthening of RateBoundUpToRegress.
BucketInv ==
    TypeOK /\ CallsAreRecent /\ StampBeforeUse /\ NothingBefore /\ RateBoundUpToRegress

-----------------------------------------------------------------------------
(* The operators. *)

\* Multiplication by the limit distributes over a difference.
LEMMA Spread ==
    ASSUME NEW a \in Int, NEW b \in Int
    PROVE  Limit * (a + b) = Limit * a + Limit * b
BY RateAssumption

\* The capacity and the costs are naturals.
LEMMA Amounts ==
    /\ Capacity \in Nat
    /\ Limit \in Nat /\ Per \in Nat /\ Per > 0
    /\ \A n \in Nat : Cost(n) \in Nat
<1>1. Limit \in Nat /\ Per \in Nat /\ Per > 0
  BY RateAssumption
<1>2. Capacity \in Nat
  BY <1>1 DEF Capacity
<1>3. ASSUME NEW n \in Nat
      PROVE  Cost(n) \in Nat
  BY <1>1 DEF Cost
<1> QED
  BY <1>1, <1>2, <1>3

\* The limit times a natural is a natural.
LEMMA Refill ==
    ASSUME NEW d \in Nat
    PROVE  Limit * d \in Nat
BY RateAssumption

\* The refilled bucket holds between nothing and its capacity.
LEMMA FilledType ==
    ASSUME TypeOK, NEW s \in Int
    PROVE  Filled(s) \in 0..Capacity
<1> DEFINE gap == IF s > ts THEN s - ts ELSE 0
<1>1. gap \in Nat
  BY DEF TypeOK
<1>2. Limit * gap \in Nat
  BY <1>1, Refill
<1>3. tokens \in 0..Capacity /\ Capacity \in Nat
  BY Amounts DEF TypeOK
<1> HIDE DEF gap
<1>4. Filled(s) = IF Alive THEN Lesser(tokens + Limit * gap, Capacity) ELSE Capacity
  BY DEF Filled, gap
<1> QED
  BY <1>2, <1>3, <1>4 DEF Lesser

\* A live bucket gains at most what the interval between the readings refills.
LEMMA FilledGain ==
    ASSUME TypeOK, Alive, NEW s \in Int
    PROVE  Filled(s) <= tokens + Limit * (IF s > ts THEN s - ts ELSE 0)
<1> DEFINE gap == IF s > ts THEN s - ts ELSE 0
<1>1. gap \in Nat
  BY DEF TypeOK
<1>2. Limit * gap \in Nat /\ tokens \in Nat /\ Capacity \in Nat
  BY <1>1, Refill, Amounts DEF TypeOK
<1> HIDE DEF gap
<1>3. Filled(s) = Lesser(tokens + Limit * gap, Capacity)
  BY DEF Filled, gap
<1>4. Filled(s) <= tokens + Limit * gap
  BY <1>2, <1>3 DEF Lesser
<1> QED
  BY <1>4 DEF gap

-----------------------------------------------------------------------------
(* Types. *)

\* The initial state has the types.
LEMMA InitType == Init => TypeOK
BY Amounts, RateAssumption DEF Init, TypeOK, None

\* A script keeps the types: it never takes more than the bucket holds.
LEMMA ServeType ==
    ASSUME TypeOK, NEW c \in Client, Serve(c)
    PROVE  TypeOK'
<1> DEFINE filled == Filled(stamp[c])
           cost == Cost(asked[c])
           charge == IF filled >= cost THEN cost ELSE 0
<1>1. stamp[c] \in Int /\ asked[c] \in Nat
  BY DEF TypeOK
<1>2. filled \in 0..Capacity /\ cost \in Nat /\ Capacity \in Nat
  BY <1>1, FilledType, Amounts
<1> HIDE DEF filled, cost
<1>3. /\ tokens' = filled - charge
      /\ answer' = [answer EXCEPT ![c] = IF filled >= cost THEN 1 ELSE 0]
      /\ taken' = [taken EXCEPT ![c] = @ + charge]
      /\ admitted' = admitted + charge
  BY <1>2 DEF Serve, filled, cost
<1>4. charge \in Nat /\ filled - charge \in 0..Capacity
  BY <1>2
<1> HIDE DEF charge
<1>5. tokens' \in 0..Capacity /\ admitted' \in Nat
  BY <1>3, <1>4 DEF TypeOK
<1>6. taken' \in [Client -> Nat]
  BY <1>3, <1>4 DEF TypeOK
<1>7. answer' \in [Client -> {0, 1}]
  BY <1>3 DEF TypeOK
<1>8. ts' \in Int /\ start' \in Int
  BY <1>1 DEF TypeOK, Serve, Stamped
<1>9. expireAt' \in Nat \cup {None}
  BY Amounts DEF TypeOK, Serve, Expiry
<1>10. regress' \in Nat
  BY <1>1 DEF TypeOK, Serve
<1>11. pc' \in [Client -> {"idle", "sent", "answered"}]
  BY DEF TypeOK, Serve
<1> QED
  BY <1>5, <1>6, <1>7, <1>8, <1>9, <1>10, <1>11 DEF TypeOK, Serve, Capacity

\* Every step keeps the types.
LEMMA StepType == TypeOK /\ [Next]_vars => TypeOK'
<1> SUFFICES ASSUME TypeOK, [Next]_vars PROVE TypeOK'
  OBVIOUS
<1>1. CASE Tick
  BY <1>1 DEF TypeOK, Tick, bucket, call, counted, Capacity
<1>2. ASSUME NEW c \in Client, AllowN(c) PROVE TypeOK'
  <2>1. PICK o \in Offsets, n \in Ns :
          stamp' = [stamp EXCEPT ![c] = now + o] /\ asked' = [asked EXCEPT ![c] = n]
    BY <1>2 DEF AllowN
  <2>2. o \in Int /\ n \in Nat
    BY RateAssumption
  <2> QED
    BY <1>2, <2>1, <2>2, RateAssumption
    DEF TypeOK, AllowN, bucket, counted, Capacity
<1>3. ASSUME NEW c \in Client, Serve(c) PROVE TypeOK'
  BY <1>3, ServeType
<1>4. ASSUME NEW c \in Client, Retry(c) PROVE TypeOK'
  BY <1>4, RateAssumption DEF TypeOK, Retry, bucket, counted, Capacity
<1>5. ASSUME NEW c \in Client, Return(c) PROVE TypeOK'
  BY <1>5, RateAssumption DEF TypeOK, Return, bucket, counted, Capacity
<1>6. CASE UNCHANGED vars
  BY <1>6 DEF TypeOK, vars, bucket, call, counted, Capacity
<1> QED
  BY <1>1, <1>2, <1>3, <1>4, <1>5, <1>6 DEF Next

\* The types hold in every behaviour, and with them 0 <= tokens <= Capacity: the
\* script neither overdraws the bucket nor fills it past its capacity.
THEOREM TypeCorrect == Spec => []TypeOK
BY InitType, StepType, PTL DEF Spec

-----------------------------------------------------------------------------
(* The bound. *)

\* Every step keeps the calls within MaxDelay of their clock readings: Tick waits
\* for them.
LEMMA StepRecent ==
    ASSUME TypeOK, CallsAreRecent, [Next]_vars
    PROVE  CallsAreRecent'
<1>1. CASE Tick
  BY <1>1, RateAssumption DEF TypeOK, CallsAreRecent, Tick, call
<1>2. ASSUME NEW c \in Client, AllowN(c) PROVE CallsAreRecent'
  <2>1. PICK o \in Offsets : stamp' = [stamp EXCEPT ![c] = now + o]
    BY <1>2 DEF AllowN
  <2>2. /\ now' = now
        /\ readAt' = [readAt EXCEPT ![c] = now]
        /\ pc' = [pc EXCEPT ![c] = "sent"]
    BY <1>2 DEF AllowN
  <2>3. SUFFICES ASSUME NEW d \in Client, pc'[d] # "idle"
                 PROVE  /\ readAt'[d] <= now' /\ now' <= readAt'[d] + MaxDelay
                        /\ \E q \in Offsets : stamp'[d] = readAt'[d] + q
    BY DEF CallsAreRecent
  <2>4. CASE d = c
    BY <2>1, <2>2, <2>4, RateAssumption DEF TypeOK
  <2>5. CASE d # c
    BY <2>1, <2>2, <2>3, <2>5 DEF TypeOK, CallsAreRecent
  <2> QED
    BY <2>4, <2>5
<1>3. ASSUME NEW c \in Client, Serve(c) PROVE CallsAreRecent'
  <2>1. /\ pc[c] # "idle" /\ pc' = [pc EXCEPT ![c] = "answered"]
        /\ UNCHANGED <<now, stamp, readAt>>
    BY <1>3 DEF Serve
  <2> QED
    BY <2>1 DEF TypeOK, CallsAreRecent
<1>4. ASSUME NEW c \in Client, Retry(c) PROVE CallsAreRecent'
  BY <1>4 DEF TypeOK, CallsAreRecent, Retry
<1>5. ASSUME NEW c \in Client, Return(c) PROVE CallsAreRecent'
  BY <1>5 DEF TypeOK, CallsAreRecent, Return
<1>6. CASE UNCHANGED vars
  BY <1>6 DEF CallsAreRecent, vars, call
<1> QED
  BY <1>1, <1>2, <1>3, <1>4, <1>5, <1>6 DEF Next

\* A script leaves ts at a clock reading taken before the expiry's base.
LEMMA ServeStamp ==
    ASSUME TypeOK, CallsAreRecent, NEW c \in Client, Serve(c)
    PROVE  StampBeforeUse'
<1>1. /\ pc[c] # "idle" /\ ts' = stamp[c] /\ expireAt' = now + 2 * Per /\ now' = now
  BY DEF Serve, Stamped, Expiry
<1>2. PICK o \in Offsets : stamp[c] = readAt[c] + o
  BY <1>1 DEF CallsAreRecent
<1>3. readAt[c] <= now /\ readAt[c] \in Nat /\ now \in Nat /\ o \in Int /\ Per \in Nat
  BY <1>1, RateAssumption DEF CallsAreRecent, TypeOK
<1>4. ts' <= expireAt' - 2 * Per + o /\ expireAt' - 2 * Per <= now'
  BY <1>1, <1>2, <1>3
<1> QED
  BY <1>4 DEF StampBeforeUse

\* A bucket that expired had a full period to refill: the next clock reading is at
\* least Per after its ts, whatever clocks the two calls used.
LEMMA ExpiredFull ==
    ASSUME TypeOK, CallsAreRecent, StampBeforeUse,
           NEW c \in Client, pc[c] # "idle", expireAt # None, ~ Alive
    PROVE  stamp[c] - ts >= Per
<1>1. PICK o \in Offsets : stamp[c] = readAt[c] + o
  BY DEF CallsAreRecent
<1>2. PICK q \in Offsets : ts <= expireAt - 2 * Per + q
  BY DEF StampBeforeUse
<1>3. now > expireAt /\ now <= readAt[c] + MaxDelay
  BY DEF Alive, CallsAreRecent, TypeOK, None
<1>4. MaxDelay + q - o <= Per
  BY RateAssumption
<1> QED
  BY <1>1, <1>2, <1>3, <1>4, RateAssumption DEF TypeOK, None

\* A script keeps the bound.
LEMMA ServeBound ==
    ASSUME BucketInv, NEW c \in Client, Serve(c)
    PROVE  RateBoundUpToRegress'
<1> DEFINE s == stamp[c]
           filled == Filled(s)
           cost == Cost(asked[c])
           charge == IF filled >= cost THEN cost ELSE 0
<1>1. /\ TypeOK /\ pc[c] # "idle"
      /\ s \in Int /\ asked[c] \in Nat /\ ts \in Int /\ start \in Int /\ regress \in Nat
      /\ tokens \in Nat /\ tokens <= Capacity /\ admitted \in Nat
  BY Amounts DEF BucketInv, TypeOK, Serve
<1>2. filled \in Nat /\ filled <= Capacity /\ cost \in Nat
      /\ Capacity \in Nat /\ Limit \in Nat
  BY <1>1, FilledType, Amounts
<1> HIDE DEF filled, cost
<1>3. /\ tokens' = filled - charge /\ admitted' = admitted + charge /\ ts' = s
      /\ expireAt' # None
      /\ start' = IF expireAt = None THEN s ELSE start
      /\ regress' = regress + (IF Alive /\ s < ts THEN ts - s ELSE 0)
  BY <1>2, Amounts DEF Serve, filled, cost, Stamped, Expiry, BucketInv, TypeOK, None
<1>4. charge \in Nat
  BY <1>2
<1> HIDE DEF charge
<1>5. admitted' + tokens' = admitted + filled
  BY <1>1, <1>2, <1>3, <1>4
<1>6. CASE expireAt = None
  <2>1. admitted = 0 /\ regress' = 0 /\ start' = s /\ filled = Capacity
    BY <1>1, <1>3, <1>6 DEF BucketInv, NothingBefore, Alive, Filled, filled
  <2>2. Limit * (ts' - start' + regress') = 0
    BY <1>1, <1>2, <1>3, <2>1
  <2> QED
    BY <1>2, <1>5, <2>1, <2>2 DEF RateBoundUpToRegress
<1>7. CASE expireAt # None
  <2> DEFINE old == ts - start + regress
             gap == IF s > ts THEN s - ts ELSE 0
             back == IF s < ts THEN ts - s ELSE 0
  <2>1. admitted + tokens <= Capacity + Limit * old
    BY <1>7 DEF BucketInv, RateBoundUpToRegress
  <2>2. start' = start /\ old \in Int
    BY <1>1, <1>3, <1>7
  <2>3. CASE Alive
    <3>1. filled <= tokens + Limit * gap
      BY <1>1, <2>3, FilledGain DEF filled
    <3>2. ts' - start' + regress' = old + gap
      BY <1>1, <1>3, <2>2, <2>3
    <3>3. gap \in Int /\ Limit * gap \in Int /\ Limit * old \in Int
      BY <1>1, <1>2, <2>2
    <3> HIDE DEF old, gap
    <3>4. Limit * (old + gap) = Limit * old + Limit * gap
      BY <2>2, <3>3, Spread
    <3>5. admitted' + tokens' <= Capacity + Limit * (old + gap)
      BY <1>1, <1>2, <1>5, <2>1, <3>1, <3>3, <3>4
    <3> QED
      BY <3>2, <3>5 DEF RateBoundUpToRegress
  <2>4. CASE ~ Alive
    <3> DEFINE spare == s - ts - Per
    <3>1. s - ts >= Per /\ Per \in Nat
      BY <1>1, <1>7, <2>4, ExpiredFull, Amounts DEF BucketInv
    <3>2. ts' - start' + regress' = old + (Per + spare) /\ spare \in Nat
      BY <1>1, <1>3, <2>2, <2>4, <3>1
    <3>3. Limit * old \in Int /\ Limit * Per = Capacity /\ Limit * spare \in Nat
      BY <1>2, <2>2, <3>1, <3>2, Refill DEF Capacity
    <3> HIDE DEF old, spare
    <3>4. Limit * (old + (Per + spare)) = Limit * old + (Limit * Per + Limit * spare)
      <4>1. Limit * (old + (Per + spare)) = Limit * old + Limit * (Per + spare)
        BY <2>2, <3>1, <3>2, Spread
      <4>2. Limit * (Per + spare) = Limit * Per + Limit * spare
        BY <3>1, <3>2, Spread
      <4> QED
        BY <4>1, <4>2
    <3>5. admitted' + tokens' <= Capacity + Limit * (old + (Per + spare))
      BY <1>1, <1>2, <1>5, <2>1, <3>3, <3>4
    <3> QED
      BY <3>2, <3>5 DEF RateBoundUpToRegress
  <2> QED
    BY <2>3, <2>4
<1> QED
  BY <1>6, <1>7

\* The strengthened invariant is inductive: only a script changes the bucket.
LEMMA StepBucket == BucketInv /\ [Next]_vars => BucketInv'
<1> SUFFICES ASSUME BucketInv, [Next]_vars PROVE BucketInv'
  OBVIOUS
<1>1. TypeOK' /\ CallsAreRecent'
  BY StepType, StepRecent DEF BucketInv
<1>2. ASSUME NEW c \in Client, Serve(c)
      PROVE  StampBeforeUse' /\ NothingBefore' /\ RateBoundUpToRegress'
  <2>1. StampBeforeUse'
    BY <1>2, ServeStamp DEF BucketInv
  <2>2. RateBoundUpToRegress'
    BY <1>2, ServeBound
  <2>3. expireAt' # None
    BY <1>2, Amounts DEF Serve, Expiry, BucketInv, TypeOK, None
  <2> QED
    BY <2>1, <2>2, <2>3 DEF NothingBefore
<1>3. ASSUME UNCHANGED <<bucket, counted>>, now' >= now
      PROVE  StampBeforeUse' /\ NothingBefore' /\ RateBoundUpToRegress'
  <2>1. StampBeforeUse'
    <3>1. /\ expireAt' = expireAt /\ ts' = ts
          /\ now \in Nat /\ now' >= now /\ Per \in Nat
      BY <1>3, RateAssumption DEF BucketInv, TypeOK, bucket
    <3>2. now' \in Nat
      BY <1>1 DEF TypeOK
    <3>3. CASE expireAt # None
      <4>1. /\ expireAt \in Nat /\ expireAt - 2 * Per <= now
            /\ \E o \in Offsets : ts <= expireAt - 2 * Per + o
        BY <3>3 DEF BucketInv, TypeOK, StampBeforeUse
      <4>2. expireAt - 2 * Per <= now'
        BY <3>1, <3>2, <4>1
      <4> QED
        BY <3>1, <4>1, <4>2 DEF StampBeforeUse
    <3> QED
      BY <3>1, <3>3 DEF StampBeforeUse
  <2> QED
    BY <1>3, <2>1 DEF BucketInv, NothingBefore, RateBoundUpToRegress, bucket, counted
<1>4. (\E c \in Client : Serve(c)) \/ (UNCHANGED <<bucket, counted>> /\ now' >= now)
  BY DEF Next, Tick, AllowN, Retry, Return, vars, BucketInv, TypeOK
<1> QED
  BY <1>1, <1>2, <1>3, <1>4 DEF BucketInv

\* The inductive invariant holds in every behaviour.
THEOREM BucketInvariant == Spec => []BucketInv
<1>1. Init => BucketInv
  BY InitType
  DEF Init, BucketInv, CallsAreRecent, StampBeforeUse, NothingBefore, RateBoundUpToRegress
<1> QED
  BY <1>1, StepBucket, PTL DEF Spec

\* Whatever the clocks, the delays, the retries and the order of arrival, the
\* bucket of script.go 44-74 admits its capacity, the refill of the time between
\* the first and the last clock reading, and the refill of the intervals by which
\* HSET ts moved back; its expiry after 2 * Per adds nothing.
THEOREM RateBoundUpToRegressHolds == Spec => []RateBoundUpToRegress
BY BucketInvariant, PTL DEF BucketInv

\* While every script found ts at or before its own clock reading, and no clock runs
\* ahead of Redis's, the rate that ratelimit.go 8-9 documents is kept.
THEOREM OrderedRateBound ==
    ASSUME \A o \in Offsets : o <= 0
    PROVE  Spec => [](regress = 0 => RateBound)
<1>1. ASSUME BucketInv, regress = 0 PROVE RateBound
  <2>1. /\ tokens \in Nat /\ admitted \in Nat /\ ts \in Int /\ start \in Int /\ now \in Nat
        /\ Capacity \in Nat /\ Limit \in Nat /\ Per \in Nat
    BY <1>1, Amounts DEF BucketInv, TypeOK
  <2>2. CASE expireAt = None
    <3>1. admitted = 0 /\ start = 0
      BY <1>1, <2>2 DEF BucketInv, NothingBefore
    <3>2. Limit * (now - start) \in Nat
      BY <2>1, <3>1, Refill
    <3> QED
      BY <2>1, <3>1, <3>2 DEF RateBound
  <2>3. CASE expireAt # None
    <3>1. PICK o \in Offsets : ts <= expireAt - 2 * Per + o
      BY <1>1, <2>3 DEF BucketInv, StampBeforeUse
    <3>2. expireAt - 2 * Per <= now /\ expireAt \in Nat /\ o \in Int /\ o <= 0
      BY <1>1, <2>3, RateAssumption DEF BucketInv, StampBeforeUse, TypeOK
    <3>3. ts <= now
      BY <2>1, <3>1, <3>2
    <3> DEFINE spare == now - ts
               old == ts - start
    <3>4. spare \in Nat /\ old \in Int /\ now - start = old + spare
      BY <2>1, <3>3
    <3>5. admitted + tokens <= Capacity + Limit * old
      <4>1. ts - start + regress = old
        BY <1>1, <2>1
      <4> QED
        BY <1>1, <2>3, <4>1 DEF BucketInv, RateBoundUpToRegress
    <3>6. Limit * spare \in Nat /\ Limit * old \in Int
      BY <2>1, <3>4, Refill
    <3> HIDE DEF spare, old
    <3>7. Limit * (old + spare) = Limit * old + Limit * spare
      BY <3>4, Spread
    <3> QED
      BY <2>1, <3>4, <3>5, <3>6, <3>7 DEF RateBound
  <2> QED
    BY <2>2, <2>3
<1>2. BucketInv => (regress = 0 => RateBound)
  BY <1>1
<1> QED
  BY <1>2, BucketInvariant, PTL

-----------------------------------------------------------------------------
(* No refusal too early: RateLimiterWindow, which records what was admitted under which *)
(* clock reading.                                                                       *)

\* The readings after x, and the cost admitted under them.
After(x) == {s \in Readings : s > x}
Paid(x) == SumFunctionOnSet(spentAt, After(x))

\* What a bucket lacks was admitted since x, or the capacity was, and what the time from x
\* to ts refilled is missing from it no more.
Backed(x) ==
    expireAt # None /\ ts > x =>
        \/ Capacity - tokens <= Paid(x)
        \/ Capacity - tokens + Limit * (ts - x) <= Paid(x) + Capacity

WindowInv ==
    /\ BucketInv
    /\ now \in 0..MaxTime /\ spentAt \in [Readings -> Nat]
    /\ denied.cost \in Nat
    /\ \A x \in Int : Backed(x)
    /\ DenialJustified

\* The readings lie within one period and the bound of time: they are finitely many.
LEMMA ReadingsFinite == IsFiniteSet(Readings) /\ Readings \subseteq Int
<1>1. /\ Offsets \subseteq Int /\ Per \in Nat /\ MaxDelay \in Nat /\ MaxTime \in Nat
      /\ \A a, b \in Offsets : MaxDelay + a - b <= Per
  BY RateAssumption
<1>2. Readings \subseteq Int
  BY <1>1 DEF Readings
<1>3. CASE Offsets = {}
  <2>1. Readings = {}
    BY <1>3 DEF Readings
  <2> QED
    BY <2>1, FS_EmptySet
<1>4. CASE Offsets # {}
  <2>1. PICK b \in Offsets : TRUE
    BY <1>4
  <2>2. b \in Int /\ \A a \in Offsets : a \in Int /\ b - Per <= a /\ a <= b + Per
    BY <1>1
  <2> DEFINE I == (b - Per)..(b + Per + MaxTime)
  <2>3. \A t \in 0..MaxTime, o \in Offsets : t + o \in I
    BY <1>1, <2>2
  <2>4. IsFiniteSet(I)
    BY <1>1, <2>2, FS_Interval
  <2>5. Readings \in SUBSET I
    BY <2>3 DEF Readings
  <2> HIDE DEF I
  <2> QED
    BY <1>2, <2>4, <2>5, FS_Subset
<1> QED
  BY <1>2, <1>3, <1>4

\* What was paid is a natural, whatever window is looked at.
LEMMA PaidType ==
    ASSUME spentAt \in [Readings -> Nat], NEW x \in Int
    PROVE  IsFiniteSet(After(x)) /\ Paid(x) \in Nat
<1>1. After(x) \in SUBSET Readings
  BY DEF After
<1>2. IsFiniteSet(After(x))
  BY <1>1, ReadingsFinite, FS_Subset
<1>3. \A s \in After(x) : spentAt[s] \in Nat
  BY <1>1
<1>4. SumFunctionOnSet(spentAt, After(x)) \in Nat
  BY <1>2, <1>3, SumOfNaturals
<1> QED
  BY <1>2, <1>4 DEF Paid

\* What is paid under a reading counts for the windows that begin before it.
LEMMA PaidMore ==
    ASSUME spentAt \in [Readings -> Nat], NEW x \in Int, NEW s \in Readings, NEW n \in Nat,
           spentAt' = [spentAt EXCEPT ![s] = @ + n]
    PROVE  /\ spentAt' \in [Readings -> Nat]
           /\ Paid(x)' = Paid(x) + (IF s > x THEN n ELSE 0)
<1> DEFINE f == spentAt
           k == spentAt'
           S == After(x)
<1>1. /\ k \in [Readings -> Nat] /\ k[s] = f[s] + n /\ f[s] \in Nat
      /\ \A r \in Readings \ {s} : k[r] = f[r]
  OBVIOUS
<1>2. IsFiniteSet(S) /\ S \subseteq Readings /\ Paid(x) \in Nat
  BY PaidType DEF After
<1>3. s \in S <=> s > x
  BY DEF After
<1>4. Paid(x) = SumFunctionOnSet(f, S) /\ Paid(x)' = SumFunctionOnSet(k, S)
  BY DEF Paid, After
<1>5. \A r \in S : f[r] \in Int /\ k[r] \in Int
  BY <1>1, <1>2
<1>6. \A r \in S \ {s} : k[r] = f[r]
  BY <1>1, <1>2
<1> HIDE DEF f, k, S
<1>7. SumFunctionOnSet(k, S) = SumFunctionOnSet(f, S) + (IF s \in S THEN k[s] - f[s] ELSE 0)
  BY <1>2, <1>5, <1>6, SumChanges
<1>8. Paid(x)' = Paid(x) + (IF s > x THEN n ELSE 0)
  BY <1>1, <1>2, <1>3, <1>4, <1>7
<1> QED
  BY <1>1, <1>8 DEF k

\* The limit times a distance, on the scale of the limit times a reading.
LEMMA Distances ==
    ASSUME NEW a \in Int, NEW b \in Int
    PROVE  /\ Limit * (a - b) = Limit * a - Limit * b
           /\ Limit * a \in Int /\ Limit * b \in Int
           /\ a <= b => Limit * a <= Limit * b
<1>1. Limit \in Nat
  BY RateAssumption
<1>2. Limit * (a - b) = Limit * a - Limit * b /\ Limit * a \in Int /\ Limit * b \in Int
  BY <1>1
<1>3. ASSUME a <= b PROVE Limit * a <= Limit * b
  <2>1. b - a \in Nat
    BY <1>3
  <2>2. Limit * (b - a) \in Nat
    BY <2>1, Refill
  <2>3. Limit * (b - a) = Limit * b - Limit * a
    BY <1>1
  <2> QED
    BY <1>2, <2>2, <2>3
<1> QED
  BY <1>2, <1>3

\* What a script finds lacking in the bucket was paid under the readings after x, or the
\* capacity was and the refill since x; for a window of one period that is the former.
LEMMA LackIsPaid ==
    ASSUME WindowInv, NEW s \in Int, NEW x \in Int, s > x
    PROVE  /\ \/ Capacity - Filled(s) <= Paid(x)
              \/ Capacity - Filled(s) + Limit * (s - x) <= Paid(x) + Capacity
           /\ x = s - Per => Capacity - Filled(s) <= Paid(x)
<1> DEFINE gap == IF s > ts THEN s - ts ELSE 0
<1>1. /\ tokens \in 0..Capacity /\ Capacity \in Nat /\ ts \in Int /\ Per \in Nat
      /\ Paid(x) \in Nat /\ Filled(s) \in 0..Capacity
  BY Amounts, PaidType, FilledType DEF WindowInv, BucketInv, TypeOK
<1>2. CASE Filled(s) = Capacity
  BY <1>1, <1>2
<1>3. CASE Filled(s) # Capacity
  <2>1. Alive /\ Filled(s) = Lesser(tokens + Limit * gap, Capacity)
    BY <1>3 DEF Filled
  <2>2. gap \in Nat
    BY <1>1
  <2>3. Limit * gap \in Nat
    BY <2>2, Refill
  <2> HIDE DEF gap
  <2>4. Filled(s) = tokens + Limit * gap
    BY <1>1, <1>3, <2>1, <2>3 DEF Lesser
  <2> DEFINE ls == Limit * s
             lx == Limit * x
             lt == Limit * ts
             d == Capacity - tokens
             W == Paid(x)
  <2>5. /\ ls \in Int /\ lx \in Int /\ lt \in Int /\ d \in Int /\ W \in Nat /\ d <= Capacity
        /\ Limit * (s - x) = ls - lx /\ Limit * (ts - x) = lt - lx
        /\ lx <= ls /\ (s <= ts => ls <= lt) /\ (ts <= s => lt <= ls) /\ (ts <= x => lt <= lx)
    <3>1. /\ ls \in Int /\ lx \in Int /\ lt \in Int
          /\ Limit * (s - x) = ls - lx /\ Limit * (ts - x) = lt - lx
      BY <1>1, Distances
    <3>2. x <= s
      OBVIOUS
    <3>3. /\ lx <= ls /\ (s <= ts => ls <= lt) /\ (ts <= s => lt <= ls)
          /\ (ts <= x => lt <= lx)
      BY <1>1, <3>2, Distances
    <3> QED
      BY <1>1, <3>1, <3>3
  <2>6. Limit * gap = IF s > ts THEN ls - lt ELSE 0
    <3>1. Limit * (s - ts) = ls - lt
      BY <1>1, Distances
    <3>2. Limit * 0 = 0
      BY RateAssumption
    <3> QED
      BY <3>1, <3>2 DEF gap
  <2>7. x = s - Per => lx = ls - Capacity
    <3> SUFFICES ASSUME x = s - Per PROVE lx = ls - Capacity
      OBVIOUS
    <3>1. Limit * (s - Per) = Limit * s - Limit * Per
      BY <1>1, Distances
    <3> QED
      BY <3>1 DEF Capacity
  <2>8. expireAt # None
    BY <2>1 DEF Alive
  <2>9. ts > x => d <= W \/ d + Limit * (ts - x) <= W + Capacity
    BY <2>8 DEF WindowInv, Backed
  <2>10. ts > x => d <= W \/ d + (lt - lx) <= W + Capacity
    BY <2>5, <2>9
  <2>11. Capacity - Filled(s) = d - Limit * gap
    BY <1>1, <2>3, <2>4
  <2>12. Capacity - Filled(s) = d - (IF s > ts THEN ls - lt ELSE 0)
    BY <2>6, <2>11
  <2> HIDE DEF ls, lx, lt, d, W
  <2>13. \/ Capacity - Filled(s) <= W
         \/ Capacity - Filled(s) + (ls - lx) <= W + Capacity
    <3>1. CASE ts > x
      <4>1. CASE s > ts
        BY <1>1, <2>5, <2>10, <2>12, <3>1, <4>1
      <4>2. CASE ~(s > ts)
        BY <1>1, <2>5, <2>10, <2>12, <3>1, <4>2
      <4> QED
        BY <4>1, <4>2
    <3>2. CASE ~(ts > x)
      <4>1. s > ts /\ lt <= lx
        BY <1>1, <2>5, <3>2
      <4> QED
        BY <1>1, <2>5, <2>12, <4>1
    <3> QED
      BY <3>1, <3>2
  <2>14. x = s - Per => Capacity - Filled(s) <= W
    BY <1>1, <2>5, <2>7, <2>13
  <2> QED
    BY <2>5, <2>13, <2>14 DEF W
<1> QED
  BY <1>2, <1>3

\* A script, and what is recorded of it.
LEMMA ServeWindow ==
    ASSUME WindowInv, NEW c \in Client, Serve(c), Record(c)
    PROVE  /\ spentAt' \in [Readings -> Nat] /\ denied'.cost \in Nat
           /\ \A x \in Int : Backed(x)'
           /\ DenialJustified'
<1> DEFINE s == stamp[c]
           cost == Cost(asked[c])
           ok == Filled(s) >= cost
           charge == IF ok THEN cost ELSE 0
<1>1. /\ pc[c] # "idle" /\ s \in Int /\ asked[c] \in Nat /\ answer \in [Client -> {0, 1}]
      /\ Capacity \in Nat /\ ts' = s /\ now' = now
      /\ spentAt \in [Readings -> Nat] /\ Per \in Nat /\ Per > 0
  BY Amounts DEF Serve, Stamped, WindowInv, BucketInv, TypeOK
<1>2. cost \in Nat /\ Filled(s) \in 0..Capacity
  BY <1>1, Amounts, FilledType DEF WindowInv, BucketInv
<1>3. s \in Readings
  <2>1. PICK o \in Offsets : s = readAt[c] + o
    BY <1>1 DEF WindowInv, BucketInv, CallsAreRecent
  <2>2. readAt[c] \in 0..MaxTime
    BY <1>1, RateAssumption DEF WindowInv, BucketInv, CallsAreRecent, TypeOK
  <2> QED
    BY <2>1, <2>2 DEF Readings
<1>4. tokens' = Filled(s) - charge /\ answer'[c] = IF ok THEN 1 ELSE 0
  BY <1>1, <1>2 DEF Serve
<1>5. /\ ok => spentAt' = [spentAt EXCEPT ![s] = @ + cost] /\ denied' = NotDenied
      /\ ~ok => denied' = [at |-> s, cost |-> cost] /\ spentAt' = spentAt
  BY <1>4 DEF Record
<1> HIDE DEF cost
<1>6. denied'.cost \in Nat
  BY <1>2, <1>5 DEF NotDenied
<1>7. spentAt' \in [Readings -> Nat]
  BY <1>1, <1>2, <1>3, <1>5
<1>8. ASSUME NEW x \in Int, s > x
      PROVE  Paid(x) \in Nat /\ Paid(x)' = Paid(x) + charge
  <2>1. Paid(x) \in Nat
    BY <1>1, PaidType
  <2>2. CASE ok
    <3>1. Paid(x)' = Paid(x) + (IF s > x THEN cost ELSE 0)
      BY <1>1, <1>2, <1>3, <1>5, <2>2, PaidMore
    <3> QED
      BY <1>8, <2>1, <2>2, <3>1
  <2>3. CASE ~ok
    <3>1. Paid(x)' = Paid(x)
      BY <1>5, <2>3 DEF Paid, After
    <3> QED
      BY <2>1, <2>3, <3>1
  <2> QED
    BY <2>1, <2>2, <2>3
<1>9. charge \in Nat
  BY <1>2
<1>10. ASSUME NEW x \in Int PROVE Backed(x)'
  <2> SUFFICES ASSUME s > x
               PROVE  \/ Capacity - tokens' <= Paid(x)'
                      \/ Capacity - tokens' + Limit * (s - x) <= Paid(x)' + Capacity
    BY <1>1 DEF Backed
  <2> DEFINE W == Paid(x)
             F == Filled(s)
             L == Limit * (s - x)
  <2>1. \/ Capacity - F <= W
        \/ Capacity - F + L <= W + Capacity
    BY <1>1, LackIsPaid
  <2>2. W \in Nat /\ F \in Int /\ L \in Int /\ Paid(x)' = W + charge /\ tokens' = F - charge
    BY <1>1, <1>2, <1>4, <1>8, RateAssumption
  <2> HIDE DEF W, F, L, charge
  <2>3. \/ Capacity - tokens' <= Paid(x)'
        \/ Capacity - tokens' + L <= Paid(x)' + Capacity
    BY <1>1, <1>9, <2>1, <2>2
  <2> QED
    BY <2>3 DEF L
<1>11. DenialJustified'
  <2>1. CASE ok
    BY <1>5, <2>1 DEF DenialJustified, NotDenied
  <2>2. CASE ~ok
    <3> DEFINE x == s - Per
    <3>1. x \in Int /\ s > x
      BY <1>1
    <3>2. Capacity - Filled(s) <= Paid(x) /\ Paid(x) \in Nat
      BY <1>1, <1>8, <3>1, LackIsPaid
    <3>3. Paid(x) + cost > Capacity
      BY <1>1, <1>2, <2>2, <3>2
    <3>4. denied'.at = s /\ denied'.cost = cost /\ spentAt' = spentAt
      BY <1>5, <2>2
    <3> QED
      BY <3>3, <3>4 DEF DenialJustified, Admitted, Paid, After
  <2> QED
    BY <2>1, <2>2
<1> QED
  BY <1>6, <1>7, <1>10, <1>11

\* Nothing is paid yet.
LEMMA WindowStarts == WindowInit => WindowInv
<1> SUFFICES ASSUME WindowInit PROVE WindowInv
  OBVIOUS
<1>1. Init /\ spentAt = [r \in Readings |-> 0] /\ denied.cost = 0
  BY DEF WindowInit, NotDenied
<1>2. BucketInv
  BY <1>1, InitType
  DEF Init, BucketInv, CallsAreRecent, StampBeforeUse, NothingBefore, RateBoundUpToRegress
<1>3. now \in 0..MaxTime /\ expireAt = None
  BY <1>1, RateAssumption DEF Init
<1> QED
  BY <1>1, <1>2, <1>3 DEF WindowInv, Backed, DenialJustified

\* Only a script changes what the windows are about.
LEMMA WindowSteps == WindowInv /\ [WindowNext]_windowVars => WindowInv'
<1> SUFFICES ASSUME WindowInv, [WindowNext]_windowVars PROVE WindowInv'
  OBVIOUS
<1>1. BucketInv'
  <2>1. [Next]_vars
    BY DEF WindowNext, Next, windowVars
  <2> QED
    BY <2>1, StepBucket DEF WindowInv
<1>2. now' \in 0..MaxTime
  BY RateAssumption
  DEF WindowInv, WindowNext, windowVars, vars, Serve, Tick, AllowN, Retry, Return
<1>3. ASSUME NEW c \in Client, Serve(c), Record(c) PROVE WindowInv'
  BY <1>1, <1>2, <1>3, ServeWindow DEF WindowInv
<1>4. ASSUME UNCHANGED <<tokens, ts, expireAt, spentAt, denied>> PROVE WindowInv'
  <2>1. \A x \in Int : Backed(x)'
    BY <1>4 DEF WindowInv, Backed, Paid, After
  <2> QED
    BY <1>1, <1>2, <1>4, <2>1 DEF WindowInv, DenialJustified, Admitted
<1>5. \/ \E c \in Client : Serve(c) /\ Record(c)
      \/ UNCHANGED <<tokens, ts, expireAt, spentAt, denied>>
  BY DEF WindowNext, windowVars, vars, bucket, Tick, AllowN, Retry, Return
<1> QED
  BY <1>3, <1>4, <1>5

\* The inductive invariant of the recorded window.
THEOREM WindowInvariant == WindowSpec => []WindowInv
BY WindowStarts, WindowSteps, PTL DEF WindowSpec

\* Nobody is refused too early, whatever the clocks, the order of arrival, the expiry and
\* the retries: the cost admitted since a period before the call's reading, with the
\* call's, exceeds the capacity (ratelimit.go 8-9, 24).
THEOREM DenialJustifiedHolds == WindowSpec => []DenialJustified
BY WindowInvariant, PTL DEF WindowInv

=============================================================================
