---------------------------- MODULE UploaderProofs ----------------------------
(***************************************************************************)
(* Proofs about the uploader: its settings (Settings), its time            *)
(* (UploadTiming) and its chunks (ChunkBuilder), for any configuration,    *)
(* interval, timeout, backoff, number of retries and chunks, batch, order  *)
(* and compressor.                                                         *)
(***************************************************************************)
EXTENDS UploadTiming, Settings, ChunkBuilder, FiniteSetTheorems, TLAPS

-----------------------------------------------------------------------------
(* Arithmetic *)

\* Arithmetic that the solver needs as a fact.
LEMMA Distribute ==
  ASSUME NEW a \in Int, NEW b \in Int, NEW c \in Int
  PROVE  a * (b + c) = a * b + a * c /\ (a + b) * c = a * c + b * c
OBVIOUS

\* Arithmetic that the solver needs as a fact.
LEMMA ProductIsNat == ASSUME NEW a \in Nat, NEW b \in Nat PROVE a * b \in Nat
OBVIOUS

\* Arithmetic that the solver needs as a fact.
LEMMA Monotone ==
  ASSUME NEW a \in Nat, NEW b \in Nat, NEW c \in Nat, a <= b
  PROVE  a * c <= b * c
OBVIOUS

-----------------------------------------------------------------------------
(* Induction and powers *)

\* A set of naturals that is not empty has a smallest member.
LEMMA SmallestExists ==
  ASSUME NEW S, S \subseteq Nat, S # {}
  PROVE  \E m \in S : \A s \in S : m <= s
<1>1. PICK m \in S : \A s \in S : ~ (<<s, m>> \in OpToRel(<, Nat))
  BY NatLessThanWellFounded, WFMin, Zenon
<1>2. \A s \in S : ~ (s < m)
  BY <1>1 DEF OpToRel
<1>3. QED
  BY <1>2

\* Induction, for the numbers of a set.
LEMMA AllNumbers ==
  ASSUME NEW S, 0 \in S, \A n \in Nat : n \in S => n + 1 \in S
  PROVE  Nat \subseteq S
<1> SUFFICES ASSUME Nat \ S # {} PROVE FALSE
  OBVIOUS
<1>1. PICK m \in Nat \ S : \A s \in Nat \ S : m <= s
  BY SmallestExists, Nat \ S \subseteq Nat, Zenon
<1>2. m - 1 \in Nat /\ (m - 1) + 1 = m /\ ~ (m <= m - 1)
  BY <1>1
<1>3. QED
  BY <1>1, <1>2, Zenon

\* The first powers of a base, as a function.
Steps(base, n) == {h \in [0..n -> Int] : h[0] = 1 /\ \A k \in 1..n : h[k] = base * h[k - 1]}

\* Powers are well defined: each is the last of the first so many.
LEMMA PowerDef ==
  ASSUME NEW base \in Int
  PROVE  Power(base) = [k \in Nat |-> IF k = 0 THEN 1 ELSE base * Power(base)[k - 1]]
<1>1. \A n \in Nat : Steps(base, n) # {}
  <2> DEFINE S == {n \in Nat : Steps(base, n) # {}}
  <2>1. 0 \in S
    <3>1. [k \in 0..0 |-> 1] \in Steps(base, 0)
      BY DEF Steps
    <3>2. QED
      BY <3>1
  <2>2. ASSUME NEW n \in Nat, n \in S PROVE n + 1 \in S
    <3>1. PICK h : h \in Steps(base, n)
      BY <2>2
    <3> DEFINE g == [k \in 0..(n + 1) |-> IF k = n + 1 THEN base * h[n] ELSE h[k]]
    <3>2. g \in [0..(n + 1) -> Int]
      BY <3>1 DEF Steps
    <3>3. g[0] = 1 /\ \A k \in 1..(n + 1) : g[k] = base * g[k - 1]
      BY <3>1 DEF Steps
    <3>4. g \in Steps(base, n + 1)
      BY <3>2, <3>3, Zenon DEF Steps
    <3>5. QED
      BY <3>4
  <2>3. Nat \subseteq S
    BY <2>1, <2>2, AllNumbers
  <2>4. QED
    BY <2>3
<1> DEFINE H(n) == CHOOSE h : h \in Steps(base, n)
           power == [n \in Nat |-> H(n)[n]]
<1>2. \A n \in Nat : H(n) \in Steps(base, n)
  BY <1>1, Zenon
<1>3. \A k \in Nat : \A m, n \in Nat : k <= m /\ k <= n => H(m)[k] = H(n)[k]
  <2> DEFINE S == {k \in Nat : \A m, n \in Nat : k <= m /\ k <= n => H(m)[k] = H(n)[k]}
  <2>0. \A m \in Nat : H(m)[0] = 1 /\ \A k \in 1..m : H(m)[k] = base * H(m)[k - 1]
    BY <1>2, Zenon DEF Steps
  <2> HIDE DEF H
  <2>1. 0 \in S
    BY <2>0
  <2>2. ASSUME NEW k \in Nat, k \in S PROVE k + 1 \in S
    <3>1. ASSUME NEW m \in Nat, NEW n \in Nat, k + 1 <= m, k + 1 <= n
          PROVE  H(m)[k + 1] = H(n)[k + 1]
      <4>1. k <= m /\ k <= n /\ k + 1 \in 1..m /\ k + 1 \in 1..n /\ (k + 1) - 1 = k
        BY <3>1
      <4>2. H(m)[k] = H(n)[k]
        BY <2>2, <4>1
      <4>3. QED
        BY <2>0, <4>1, <4>2
    <3>2. QED
      BY <3>1
  <2>3. Nat \subseteq S
    BY <2>1, <2>2, AllNumbers, Zenon
  <2>4. QED
    BY <2>3
<1>4. \A k \in Nat : power[k] = IF k = 0 THEN 1 ELSE base * power[k - 1]
  <2> SUFFICES ASSUME NEW k \in Nat
               PROVE  power[k] = IF k = 0 THEN 1 ELSE base * power[k - 1]
    OBVIOUS
  <2> HIDE DEF H
  <2>1. CASE k = 0
    BY <1>2, <2>1 DEF Steps
  <2>2. CASE k # 0
    <3>1. k - 1 \in Nat /\ k - 1 <= k /\ k \in 1..k
      BY <2>2
    <3>2. H(k)[k] = base * H(k)[k - 1]
      BY <1>2, <3>1, Zenon DEF Steps
    <3>3. H(k)[k - 1] = H(k - 1)[k - 1]
      BY <1>3, <3>1, k - 1 <= k - 1
    <3>4. QED
      BY <2>2, <3>1, <3>2, <3>3
  <2>3. QED
    BY <2>1, <2>2
<1> HIDE DEF H
<1>5. power = [k \in Nat |-> IF k = 0 THEN 1 ELSE base * power[k - 1]]
  BY <1>4
<1> HIDE DEF power
<1>6. \E f : f = [k \in Nat |-> IF k = 0 THEN 1 ELSE base * f[k - 1]]
  BY <1>5, Zenon
<1>7. QED
  BY <1>6, Zenon DEF Power

\* math.Pow, step by step.
LEMMA PowerSteps ==
  ASSUME NEW base \in Int
  PROVE  /\ Power(base)[0] = 1
         /\ \A k \in Nat : Power(base)[k + 1] = base * Power(base)[k]
<1> DEFINE P == Power(base)
<1>1. P = [k \in Nat |-> IF k = 0 THEN 1 ELSE base * P[k - 1]]
  BY PowerDef
<1> HIDE DEF P
<1>2. P[0] = 1 /\ \A k \in Nat : P[k + 1] = base * P[k]
  BY <1>1
<1>3. QED
  BY <1>2 DEF P

\* Powers of a natural number are natural numbers, those of a positive one
\* are positive.
LEMMA PowerPositive ==
  ASSUME NEW base \in Nat \ {0}
  PROVE  \A k \in Nat : Power(base)[k] \in Nat \ {0}
<1> DEFINE S == {k \in Nat : Power(base)[k] \in Nat \ {0}}
<1>1. 0 \in S
  BY PowerSteps
<1>2. ASSUME NEW k \in Nat, k \in S PROVE k + 1 \in S
  <2>1. Power(base)[k] \in Nat \ {0}
    BY <1>2
  <2>2. \A a \in Nat \ {0}, b \in Nat \ {0} : a * b \in Nat \ {0}
    OBVIOUS
  <2>3. base * Power(base)[k] \in Nat \ {0}
    BY <2>1, <2>2, Zenon
  <2>4. Power(base)[k + 1] \in Nat \ {0}
    BY <2>3, PowerSteps
  <2>5. QED
    BY <2>4
<1>3. Nat \subseteq S
  BY <1>1, <1>2, AllNumbers, Zenon
<1>4. QED
  BY <1>3

\* The larger the base, the larger the power.
LEMMA PowerMonotone ==
  ASSUME NEW a \in Nat \ {0}, NEW b \in Nat \ {0}, a <= b
  PROVE  \A k \in Nat : Power(a)[k] <= Power(b)[k]
<1> DEFINE S == {k \in Nat : Power(a)[k] <= Power(b)[k]}
<1>1. 0 \in S
  BY PowerSteps
<1>2. ASSUME NEW k \in Nat, k \in S PROVE k + 1 \in S
  <2>1. Power(a)[k] \in Nat /\ Power(b)[k] \in Nat /\ Power(a)[k] <= Power(b)[k]
    BY <1>2, PowerPositive
  <2>2. \A x, y \in Nat : x <= y => a * x <= a * y /\ a * y <= b * y
    OBVIOUS
  <2>3. a * Power(a)[k] <= a * Power(b)[k] /\ a * Power(b)[k] <= b * Power(b)[k]
    BY <2>1, <2>2, Zenon
  <2>4. a * Power(a)[k] \in Nat /\ a * Power(b)[k] \in Nat /\ b * Power(b)[k] \in Nat
    BY <2>1, ProductIsNat
  <2>5. Power(a)[k + 1] <= Power(b)[k + 1]
    BY <2>3, <2>4, PowerSteps
  <2>6. QED
    BY <2>5
<1>3. Nat \subseteq S
  BY <1>1, <1>2, AllNumbers, Zenon
<1>4. QED
  BY <1>3

\* The delay is within the cap, and from a multiplier of 1.0 on no shorter
\* than the first one, or the cap if that is less.
LEMMA BackoffRange ==
  ASSUME NEW first \in Nat \ {0}, NEW multiplier \in Nat \ {0}, NEW cap \in Nat \ {0},
         NEW k \in Nat
  PROVE  /\ ExponentialBackoff(first, multiplier, cap, k) \in 0..cap
         /\ multiplier >= 2 => \/ first <= ExponentialBackoff(first, multiplier, cap, k)
                               \/ ExponentialBackoff(first, multiplier, cap, k) = cap
<1> DEFINE p == Power(multiplier)[k]
           q == Power(2)[k]
<1>1. p \in Nat \ {0} /\ q \in Nat \ {0}
  BY PowerPositive
<1>2. multiplier >= 2 => q <= p
  BY PowerMonotone
<1> HIDE DEF p, q
<1>3. first * p \in Nat
  BY <1>1, ProductIsNat
<1>4. (first * p) \div q \in Nat
  <2>1. \A a \in Nat, b \in Nat \ {0} : a \div b \in Nat
    OBVIOUS
  <2>2. QED
    BY <1>1, <1>3, <2>1, Zenon
<1>5. ASSUME multiplier >= 2
      PROVE  first <= (first * p) \div q
  <2>1. first * q <= first * p /\ first * q \in Nat
    BY <1>1, <1>2, <1>5, Monotone, ProductIsNat
  <2>2. \A a \in Nat, b \in Nat, c \in Nat \ {0} : a * c <= b => a <= b \div c
    OBVIOUS
  <2>3. QED
    BY <1>1, <1>3, <2>1, <2>2
<1>6. QED
  BY <1>4, <1>5 DEF ExponentialBackoff, p, q

-----------------------------------------------------------------------------
(* What is left of a tick at its worst *)

\* One more attempt, and one more chunk.
Retry == LongestDelay + Timeout
PerChunk == (MaxRetries + 1) * Timeout + MaxRetries * LongestDelay

\* The attempts after attempt k, and the chunks after the current one when c
\* are to be accepted.
AttemptsAfter(k) == (MaxRetries - k) * Retry
ChunksAfter(c) == (c - 1) * PerChunk

\* The delays are naturals, and the longest tick is a sum of chunks.
LEMMA DelayTypes ==
  /\ LongestDelay \in Nat /\ Retry \in Nat /\ PerChunk \in Nat
  /\ LongestTick = MaxChunks * PerChunk /\ LongestTick \in Nat
  /\ PerChunk = Timeout + MaxRetries * Retry
  /\ AgeBound \in Nat /\ AgeBound >= UploadInterval + LongestTick
<1> USE TimingAssumption, LimitAssumption
<1>1. (MaxBackoff * (100 + JitterPercent)) \div 100 \in Nat
  <2>1. MaxBackoff * (100 + JitterPercent) \in Nat
    BY ProductIsNat
  <2>2. \A n \in Nat : n \div 100 \in Nat
    OBVIOUS
  <2>3. QED
    BY <2>1, <2>2, Zenon
<1>2. LongestDelay \in Nat
  BY <1>1 DEF LongestDelay, Max
<1>3. Retry \in Nat
  BY <1>2 DEF Retry
<1>4. (MaxRetries + 1) * Timeout \in Nat /\ MaxRetries * LongestDelay \in Nat /\ MaxRetries * Timeout \in Nat
  BY <1>2, ProductIsNat
<1>5. PerChunk \in Nat
  BY <1>4 DEF PerChunk
<1>6. LongestTick = MaxChunks * PerChunk
  BY DEF LongestTick, PerChunk
<1>7. LongestTick \in Nat
  BY <1>5, <1>6, ProductIsNat
<1>8. PerChunk = Timeout + MaxRetries * Retry
  <2>1. (MaxRetries + 1) * Timeout = MaxRetries * Timeout + Timeout
    BY Distribute
  <2>2. MaxRetries * Retry = MaxRetries * LongestDelay + MaxRetries * Timeout
    BY <1>2, Distribute DEF Retry
  <2>3. QED
    BY <1>4, <2>1, <2>2 DEF PerChunk
<1>9. AgeBound \in Nat /\ AgeBound >= UploadInterval + LongestTick
  BY <1>7 DEF AgeBound
<1>10. QED
  BY <1>2, <1>3, <1>5, <1>6, <1>7, <1>8, <1>9

\* One attempt more or less, in time.
LEMMA AttemptsStep ==
  ASSUME NEW k \in 0..MaxRetries
  PROVE  /\ AttemptsAfter(k) \in Nat
         /\ AttemptsAfter(0) = PerChunk - Timeout
         /\ k < MaxRetries => AttemptsAfter(k) = AttemptsAfter(k + 1) + Retry
<1> USE TimingAssumption, DelayTypes
<1>1. AttemptsAfter(k) \in Nat
  BY ProductIsNat DEF AttemptsAfter
<1>2. AttemptsAfter(0) = PerChunk - Timeout
  <2>1. MaxRetries * Retry \in Nat
    BY ProductIsNat
  <2>2. QED
    BY <2>1 DEF AttemptsAfter
<1>3. ASSUME k < MaxRetries
      PROVE  AttemptsAfter(k) = AttemptsAfter(k + 1) + Retry
  <2>1. (MaxRetries - (k + 1)) + 1 = MaxRetries - k
    OBVIOUS
  <2>2. ((MaxRetries - (k + 1)) + 1) * Retry = (MaxRetries - (k + 1)) * Retry + 1 * Retry
    BY Distribute
  <2>3. QED
    BY <2>1, <2>2 DEF AttemptsAfter
<1>4. QED
  BY <1>1, <1>2, <1>3

\* One chunk more or less, in time.
LEMMA ChunksStep ==
  ASSUME NEW c \in 1..MaxChunks
  PROVE  /\ ChunksAfter(c) \in Nat
         /\ ChunksAfter(c) + PerChunk <= LongestTick
         /\ c > 1 => ChunksAfter(c) = ChunksAfter(c - 1) + PerChunk
<1> USE TimingAssumption, DelayTypes
<1>1. ChunksAfter(c) \in Nat
  BY ProductIsNat DEF ChunksAfter
<1>2. ((c - 1) + 1) * PerChunk = (c - 1) * PerChunk + 1 * PerChunk
  BY Distribute
<1>3. c * PerChunk <= MaxChunks * PerChunk
  BY Monotone
<1>4. ChunksAfter(c) + PerChunk <= LongestTick
  BY <1>1, <1>2, <1>3 DEF ChunksAfter
<1>5. ASSUME c > 1 PROVE ChunksAfter(c) = ChunksAfter(c - 1) + PerChunk
  <2>1. (((c - 1) - 1) + 1) * PerChunk = ((c - 1) - 1) * PerChunk + 1 * PerChunk
    BY Distribute
  <2>2. QED
    BY <2>1 DEF ChunksAfter
<1>6. QED
  BY <1>1, <1>4, <1>5

\* No delay is longer than LongestDelay.
LEMMA DelayBounded ==
  ASSUME NEW k \in 0..MaxRetries, NEW d \in Jittered(k) \union AfterRateLimit
  PROVE  d \in 0..LongestDelay
<1> USE TimingAssumption, DelayTypes
<1>1. CASE d \in AfterRateLimit
  <2>1. PICK r \in 1..MaxRetryAfter : d \in {r, r + 1}
    BY <1>1, Zenon DEF AfterRateLimit
  <2>2. d \in Nat /\ d <= MaxRetryAfter + 1
    BY <2>1
  <2>3. MaxRetryAfter + 1 <= LongestDelay
    BY ProductIsNat DEF LongestDelay, Max
  <2>4. QED
    BY <2>2, <2>3
<1>2. CASE d \in Jittered(k)
  <2>1. Exponential(k) \in Nat /\ Exponential(k) <= MaxBackoff
    BY BackoffRange DEF Exponential
  <2>2. d \in 0..(2 * Exponential(k)) /\ 100 * d <= Exponential(k) * (100 + JitterPercent)
    BY <1>2, Zenon DEF Jittered
  <2>3. Exponential(k) * (100 + JitterPercent) <= MaxBackoff * (100 + JitterPercent)
    BY <2>1, Monotone
  <2>4. MaxBackoff * (100 + JitterPercent) \in Nat /\ Exponential(k) * (100 + JitterPercent) \in Nat
    BY <2>1, ProductIsNat
  <2>5. d <= (MaxBackoff * (100 + JitterPercent)) \div 100
    <3>1. \A n \in Nat, m \in Nat : 100 * n <= m => n <= m \div 100
      OBVIOUS
    <3>2. d \in Nat /\ 100 * d <= MaxBackoff * (100 + JitterPercent)
      BY <2>1, <2>2, <2>3, <2>4
    <3>3. QED
      BY <2>4, <3>1, <3>2
  <2>6. (MaxBackoff * (100 + JitterPercent)) \div 100 \in Nat
    <3>1. \A n \in Nat : n \div 100 \in Nat
      OBVIOUS
    <3>2. QED
      BY <2>4, <3>1, Zenon
  <2>7. QED
    BY <2>1, <2>2, <2>5, <2>6 DEF LongestDelay, Max
<1>3. QED
  BY <1>1, <1>2

-----------------------------------------------------------------------------
(* The inductive invariant *)

Numbers ==
  /\ phase \in {"waiting", "request", "backoff", "report"}
  /\ left \in 0..Max(Timeout, LongestDelay)
  /\ ticker \in 1..UploadInterval
  /\ chunks \in 0..MaxChunks /\ attempt \in 0..MaxRetries
  /\ age \in 0..AgeBound
  /\ status \in Status \union {Absent}

Shape ==
  /\ Numbers
  /\ phase \in {"request", "backoff"} => chunks >= 1
  /\ phase = "backoff" => attempt < MaxRetries /\ left <= LongestDelay
  /\ phase = "request" => left <= Timeout

\* While the last report was ok, the age and what may still come before the
\* next report add up to no more than the bound.
Budget ==
  status = "ok" =>
    /\ phase = "waiting" /\ ~due => age + ticker <= UploadInterval
    /\ phase = "waiting" /\ due => age <= UploadInterval
    /\ phase = "request" =>
         age + left + AttemptsAfter(attempt) + ChunksAfter(chunks) <= UploadInterval + LongestTick
    /\ phase = "backoff" =>
         age + left + Timeout + AttemptsAfter(attempt + 1) + ChunksAfter(chunks)
           <= UploadInterval + LongestTick
    /\ phase = "report" => age <= UploadInterval + LongestTick

\* The start satisfies the invariant.
LEMMA InitHolds == Init => Shape /\ Budget
BY TimingAssumption, LimitAssumption, DelayTypes
   DEF Init, Shape, Budget, Numbers, Max, Status, Absent

\* Time passing uses up what is left of the tick.
LEMMA ElapseStep == Shape /\ Budget /\ Elapse => Shape' /\ Budget'
<1> SUFFICES ASSUME Shape, Budget, Elapse PROVE Shape' /\ Budget'
  OBVIOUS
<1> USE LimitAssumption
<1>1. Shape'
  BY TimingAssumption, DelayTypes DEF Shape, Numbers, Elapse, tick, Max
<1>2. /\ AttemptsAfter(attempt) \in Nat /\ AttemptsAfter(attempt + 1) \in Int
      /\ ChunksAfter(chunks) \in Int
  BY TimingAssumption, DelayTypes DEF Shape, Numbers, AttemptsAfter, ChunksAfter
<1>3. (age' = age \/ age' = age + 1) /\ age \in Nat /\ left \in Nat /\ ticker \in Nat
  BY DelayTypes DEF Shape, Numbers, Elapse
<1>4. /\ phase' = phase /\ status' = status /\ attempt' = attempt /\ chunks' = chunks
      /\ phase # "report"
  BY DEF Elapse, tick
<1>5. ASSUME phase = "waiting", ticker = 1 PROVE Budget'
  <2>1. ~due /\ due'
    BY <1>5, Zenon DEF Elapse
  <2>2. status = "ok" => age + ticker <= UploadInterval
    BY <1>5, <2>1, Zenon DEF Budget
  <2>3. status = "ok" => age' <= UploadInterval
    BY <1>3, <1>5, <2>2
  <2>4. phase' = "waiting" /\ (status' = "ok" => status = "ok")
    BY <1>4, <1>5
  <2>5. QED
    BY <2>1, <2>3, <2>4, Zenon DEF Budget
<1>6. ASSUME phase = "waiting", ticker # 1 PROVE Budget'
  <2>1. ~due /\ ~due' /\ ticker' = ticker - 1
    BY <1>6, Zenon DEF Elapse
  <2>2. status = "ok" => age + ticker <= UploadInterval
    BY <1>6, <2>1, Zenon DEF Budget
  <2>3. status = "ok" => age' + ticker' <= UploadInterval
    BY <1>3, <2>1, <2>2
  <2>4. phase' = "waiting" /\ (status' = "ok" => status = "ok")
    BY <1>4, <1>6
  <2>5. QED
    BY <2>1, <2>3, <2>4, Zenon DEF Budget
<1>7. ASSUME phase \in {"request", "backoff"} PROVE Budget'
  <2>1. left > 0 /\ left' = left - 1
    BY <1>7 DEF Elapse
  <2>2. CASE phase = "request"
    <3>1. ASSUME status = "ok"
          PROVE  age' + left' + AttemptsAfter(attempt) + ChunksAfter(chunks) <= UploadInterval + LongestTick
      <4>1. age + left + AttemptsAfter(attempt) + ChunksAfter(chunks) <= UploadInterval + LongestTick
        BY <2>2, <3>1, Zenon DEF Budget
      <4>2. QED
        BY <1>2, <1>3, <2>1, <4>1, DelayTypes
    <3>2. phase' = "request" /\ (status' = "ok" => status = "ok")
      BY <1>4, <2>2
    <3>3. QED
      BY <1>4, <3>1, <3>2, Zenon DEF Budget
  <2>3. CASE phase = "backoff"
    <3>1. ASSUME status = "ok"
          PROVE  age' + left' + Timeout + AttemptsAfter(attempt + 1) + ChunksAfter(chunks)
                   <= UploadInterval + LongestTick
      <4>1. age + left + Timeout + AttemptsAfter(attempt + 1) + ChunksAfter(chunks)
              <= UploadInterval + LongestTick
        BY <2>3, <3>1, Zenon DEF Budget
      <4>2. QED
        BY <1>2, <1>3, <2>1, <4>1, DelayTypes, TimingAssumption
    <3>2. phase' = "backoff" /\ (status' = "ok" => status = "ok")
      BY <1>4, <2>3
    <3>3. QED
      BY <1>4, <3>1, <3>2, Zenon DEF Budget
  <2>4. QED
    BY <1>7, <2>2, <2>3
<1>8. QED
  BY <1>1, <1>4, <1>5, <1>6, <1>7 DEF Shape, Numbers

\* A tick starts with all of its budget.
LEMMA StartStep == Shape /\ Budget /\ StartTick => Shape' /\ Budget'
<1> SUFFICES ASSUME Shape, Budget, StartTick PROVE Shape' /\ Budget'
  OBVIOUS
<1> USE TimingAssumption, LimitAssumption, DelayTypes
<1>1. Shape'
  BY DEF Shape, Numbers, StartTick, Finish, Send, tick, Max
<1>2. ASSUME phase' = "request"
      PROVE  chunks' \in 1..MaxChunks /\ attempt' = 0 /\ left' = Timeout
  BY <1>2 DEF StartTick, Finish, Send
<1>3. phase = "waiting" /\ due /\ phase' \in {"request", "report"} /\ UNCHANGED <<age, status>>
  BY DEF StartTick, Finish, Send
<1>4. age \in Nat
  BY DEF Shape, Numbers
<1>5. QED
  BY <1>1, <1>2, <1>3, <1>4, AttemptsStep, ChunksStep DEF Budget

\* A chunk accepted leaves the time of the chunks after it.
LEMMA AcceptStep == Shape /\ Budget /\ ChunkAccepted => Shape' /\ Budget'
<1> SUFFICES ASSUME Shape, Budget, ChunkAccepted PROVE Shape' /\ Budget'
  OBVIOUS
<1> USE TimingAssumption, LimitAssumption, DelayTypes
<1>1. Shape'
  BY DEF Shape, Numbers, ChunkAccepted, Finish, Send, tick, Max
<1>2. /\ phase = "request" /\ UNCHANGED <<age, status>>
      /\ \/ phase' = "report"
         \/ /\ phase' = "request" /\ chunks > 1 /\ chunks' = chunks - 1
            /\ attempt' = 0 /\ left' = Timeout
  BY DEF ChunkAccepted, Finish, Send
<1>3. age \in Nat /\ left \in Nat /\ chunks \in 1..MaxChunks /\ attempt \in 0..MaxRetries
  BY <1>2 DEF Shape, Numbers
<1>4. /\ AttemptsAfter(attempt) \in Nat /\ AttemptsAfter(0) = PerChunk - Timeout
      /\ ChunksAfter(chunks) \in Nat
      /\ chunks > 1 => ChunksAfter(chunks) = ChunksAfter(chunks - 1) + PerChunk
                       /\ ChunksAfter(chunks - 1) \in Nat
  BY <1>3, AttemptsStep, ChunksStep
<1>5. Budget'
  BY <1>2, <1>3, <1>4 DEF Budget
<1>6. QED
  BY <1>1, <1>5

\* An attempt that fails leaves the time of the attempts after it.
LEMMA FailStep == Shape /\ Budget /\ AttemptFails => Shape' /\ Budget'
<1> SUFFICES ASSUME Shape, Budget, AttemptFails PROVE Shape' /\ Budget'
  OBVIOUS
<1> USE TimingAssumption, LimitAssumption, DelayTypes
<1>1. age \in Nat /\ left \in Nat /\ chunks \in 1..MaxChunks /\ attempt \in 0..MaxRetries
  BY DEF Shape, Numbers, AttemptFails
<1>2. /\ phase = "request" /\ UNCHANGED <<age, status, ticker, due>>
      /\ \/ phase' = "report" /\ left' = 0 /\ chunks' = 0 /\ attempt' = 0 /\ failed' = TRUE
         \/ /\ phase' = "backoff" /\ attempt < MaxRetries /\ left' \in 0..LongestDelay
            /\ UNCHANGED <<chunks, attempt, failed>>
  BY <1>1, DelayBounded DEF AttemptFails, Finish, tick
<1>3. Shape'
  BY <1>1, <1>2 DEF Shape, Numbers, Max
<1>4. /\ AttemptsAfter(attempt) \in Nat /\ ChunksAfter(chunks) \in Nat
      /\ attempt < MaxRetries =>
           AttemptsAfter(attempt) = AttemptsAfter(attempt + 1) + LongestDelay + Timeout
           /\ AttemptsAfter(attempt + 1) \in Nat
  BY <1>1, AttemptsStep, ChunksStep DEF Retry
<1>5. Budget'
  BY <1>1, <1>2, <1>4 DEF Budget
<1>6. QED
  BY <1>3, <1>5

\* The attempt after the backoff fits in what is left.
LEMMA BackoffStep == Shape /\ Budget /\ BackoffElapsed => Shape' /\ Budget'
<1> SUFFICES ASSUME Shape, Budget, BackoffElapsed PROVE Shape' /\ Budget'
  OBVIOUS
<1> USE TimingAssumption, LimitAssumption, DelayTypes
<1>1. Shape'
  BY DEF Shape, Numbers, BackoffElapsed, Send, Max
<1>2. /\ phase = "backoff" /\ left = 0 /\ phase' = "request"
      /\ left' = Timeout /\ attempt' = attempt + 1 /\ UNCHANGED <<age, status, chunks>>
  BY DEF BackoffElapsed, Send
<1>3. /\ age \in Nat
      /\ AttemptsAfter(attempt + 1) \in Int /\ ChunksAfter(chunks) \in Int
  BY DEF Shape, Numbers, AttemptsAfter, ChunksAfter
<1>4. Budget'
  BY <1>2, <1>3 DEF Budget
<1>5. QED
  BY <1>1, <1>4

\* The report at the end of a tick keeps the budget.
LEMMA ReportStep == Shape /\ Budget /\ Report => Shape' /\ Budget'
<1> SUFFICES ASSUME Shape, Budget, Report PROVE Shape' /\ Budget'
  OBVIOUS
<1> USE LimitAssumption
<1> PICK pending \in Bands :
        phase' = "waiting" /\ status' = UploaderStatus(failed, age', pending)
  BY DEF Report
<1>1. UploaderStatus(failed, age', pending) \in Status
  BY Zenon DEF UploaderStatus, Status
<1>2. phase' = "waiting" /\ status' = UploaderStatus(failed, age', pending)
  OBVIOUS
<1>3. Shape'
  BY <1>1, TimingAssumption, DelayTypes DEF Shape, Numbers, Report, tick, Bands
<1>4. status' = "ok" => ~failed
  BY <1>2 DEF UploaderStatus
<1>5. ~failed => age' = 0
  BY DEF Report
<1>6. ticker' = ticker /\ ticker \in 1..UploadInterval
  BY DEF Report, Shape, Numbers
<1>7. age' = 0 => age' + ticker' <= UploadInterval /\ age' <= UploadInterval
  BY <1>6
<1>8. Budget'
  BY <1>2, <1>4, <1>5, <1>7, Zenon DEF Budget
<1>9. QED
  BY <1>3, <1>8

-----------------------------------------------------------------------------
(* The theorems *)

Flags == due \in BOOLEAN /\ failed \in BOOLEAN

\* The flags of the tick keep their types.
LEMMA FlagsStep == Flags /\ Next => Flags'
<1> SUFFICES ASSUME Flags, Next PROVE Flags'
  OBVIOUS
<1>1. CASE Elapse \/ BackoffElapsed \/ Report
  BY <1>1, Zenon DEF Elapse, BackoffElapsed, Report, Flags, tick
<1>2. CASE StartTick \/ ChunkAccepted \/ AttemptFails
  BY <1>2, Zenon DEF StartTick, ChunkAccepted, AttemptFails, Finish, Flags, tick
<1>3. QED
  BY <1>1, <1>2, Zenon DEF Next

IInv == Shape /\ Flags /\ Budget

\* The inductive invariant holds in every reachable state.
THEOREM Invariance == Spec => []IInv
<1>1. Init => IInv
  <2>1. Init => Flags
    BY Zenon DEF Init, Flags
  <2>2. QED
    BY <2>1, InitHolds, Zenon DEF IInv
<1>2. IInv /\ [Next]_vars => IInv'
  <2> SUFFICES ASSUME IInv, [Next]_vars PROVE IInv'
    OBVIOUS
  <2>1. CASE Next
    <3>1. Shape' /\ Budget'
      BY <2>1, ElapseStep, StartStep, AcceptStep, FailStep, BackoffStep, ReportStep, Zenon DEF IInv, Next
    <3>2. QED
      BY <2>1, <3>1, FlagsStep, Zenon DEF IInv
  <2>2. CASE UNCHANGED vars
    BY <2>2, Zenon DEF vars, tick, IInv, Shape, Numbers, Flags, Budget
  <2>3. QED
    BY <2>1, <2>2
<1>3. QED
  BY <1>1, <1>2, PTL DEF Spec

\* Every variable keeps its type; no delay is longer than LongestDelay.
THEOREM TypeCorrect == Spec => []TypeOK
<1>1. IInv => TypeOK
  BY Zenon DEF IInv, Shape, Numbers, Flags, TypeOK
<1>2. QED
  BY <1>1, Invariance, PTL

\* An ok is never older than an interval and the longest tick, whatever the
\* timeouts, backoffs, retries and chunks.
THEOREM StaleOkIsBounded == Spec => []OkIsBounded
<1>1. IInv => OkIsBounded
  <2> SUFFICES ASSUME Shape, Budget PROVE OkIsBounded
    BY DEF IInv
  <2>1. /\ age \in Nat /\ left \in Nat /\ ticker \in Nat
        /\ phase \in {"request", "backoff"} => chunks \in 1..MaxChunks
        /\ attempt \in 0..MaxRetries
        /\ phase = "backoff" => attempt + 1 \in 0..MaxRetries
    BY TimingAssumption DEF Shape, Numbers
  <2>2. /\ AttemptsAfter(attempt) \in Nat
        /\ phase = "backoff" => AttemptsAfter(attempt + 1) \in Nat
        /\ phase \in {"request", "backoff"} => ChunksAfter(chunks) \in Nat
    BY <2>1, AttemptsStep, ChunksStep
  <2>3. QED
    BY <2>1, <2>2, DelayTypes, TimingAssumption, LimitAssumption
       DEF Shape, Numbers, Budget, OkIsBounded
<1>2. QED
  BY <1>1, Invariance, PTL

-----------------------------------------------------------------------------
(* Settings: what Validate lets through *)

\* What the fields of an accepted file can be.
Accepted(c) ==
  /\ c \in Configs
  /\ Valid(c)

\* A duration that Validate accepts is absent or a positive number.
LEMMA PositiveDuration ==
  ASSUME NEW d \in Duration, Positive(d), NEW default \in Nat \ {0}
  PROVE  OrDefault(d, default) \in Nat \ {0}
BY ConfigAssumption DEF Duration, Positive, Parses, OrDefault

\* Every interval of an accepted file, or its default, suits time.NewTicker.
LEMMA TickersPositive ==
  ASSUME NEW c, Accepted(c)
  PROVE  Tickers(c) \subseteq Nat \ {0}
<1>1. /\ c.walInterval \in Duration /\ c.uploadInterval \in Duration /\ c.skewInterval \in Duration
      /\ c.metricInterval \in Duration \ {Unset}
      /\ c.metricEnabled \in BOOLEAN
  BY ConfigAssumption DEF Accepted
<1>2. /\ Positive(c.walInterval) /\ Positive(c.uploadInterval)
      /\ c.metricEnabled => Positive(c.metricInterval)
  BY DEF Accepted, Valid
<1>3. SkewInterval(c) \in Nat \ {0}
  BY <1>1, PositiveDuration DEF SkewInterval
<1>4. OrDefault(c.walInterval, 3600) \in Nat \ {0} /\ OrDefault(c.uploadInterval, 30) \in Nat \ {0}
  BY <1>1, <1>2, PositiveDuration
<1>5. c.metricEnabled => c.metricInterval \in Nat \ {0}
  <2>1. OrDefault(c.metricInterval, 1) = c.metricInterval
    BY <1>1, Zenon DEF OrDefault
  <2>2. QED
    BY <1>1, <1>2, <2>1, PositiveDuration
<1>6. QED
  BY <1>3, <1>4, <1>5 DEF Tickers

\* What UploadTiming assumes of its constants is what main wires.
SoundUploader(u) ==
  /\ u.maxRetries \in Nat
  /\ u.retryDelay \in Nat \ {0} /\ u.maxBackoff \in Nat \ {0}
  /\ u.multiplier \in Nat \ {0, 1}
  /\ u.jitter \in 0..100

\* The retries of an accepted file, as main asks for them.
LEMMA RetriesType ==
  ASSUME NEW c, Accepted(c)
  PROVE  /\ RetriesAsked(c) \in Nat
         /\ c.maxAttempts > 0 => RetriesAsked(c) + 1 = c.maxAttempts
<1>1. c.maxAttempts \in Int
  BY ConfigAssumption DEF Accepted
<1>2. QED
  BY <1>1 DEF RetriesAsked

\* Three sets of defaults and one validation leave nothing out.
LEMMA UploaderIsSound ==
  ASSUME NEW c, Accepted(c)
  PROVE  SoundUploader(Uploader(UploaderConfig(c)))
<1>1. /\ c.initialBackoff \in Duration /\ c.maxBackoff \in Duration
      /\ c.multiplier \in Int /\ c.jitter \in Int \union {Unset}
  BY ConfigAssumption DEF Accepted
<1>2. /\ Positive(c.initialBackoff) /\ Positive(c.maxBackoff)
      /\ c.multiplier # 0 => c.multiplier >= 2
      /\ OrDefault(c.jitter, 20) \in 0..100
  BY DEF Accepted, Valid
<1>3. OrDefault(c.initialBackoff, 1) \in Nat \ {0} /\ OrDefault(c.maxBackoff, 30) \in Nat \ {0}
  BY <1>1, <1>2, PositiveDuration
<1>4. RetriesAsked(c) \in Nat
  BY RetriesType
<1>5. OrDefault(Unset, 3) = 3 /\ OrDefault(Unset, 20) = 20
  BY DEF OrDefault
<1>6. \A n \in Int : \A default : OrDefault(n, default) = n
  BY ConfigAssumption DEF OrDefault
<1>7. CASE ~RetryConfigured(c)
  BY <1>5, <1>7 DEF UploaderConfig, Uploader, SoundUploader
<1>8. CASE RetryConfigured(c) /\ c.retryEnabled = FALSE
  BY <1>6, <1>8 DEF UploaderConfig, Uploader, SoundUploader
<1>9. CASE RetryConfigured(c) /\ c.retryEnabled # FALSE
  <2>1. UploaderConfig(c) = [maxRetries |-> RetriesAsked(c),
                             retryDelay |-> OrDefault(c.initialBackoff, 1),
                             maxBackoff |-> OrDefault(c.maxBackoff, 30),
                             multiplier |-> c.multiplier,
                             jitter |-> OrDefault(c.jitter, 20)]
    BY <1>9, Zenon DEF UploaderConfig
  <2>2. OrDefault(RetriesAsked(c), 3) = RetriesAsked(c)
    BY <1>4, <1>6
  <2>3. OrDefault(OrDefault(c.jitter, 20), 20) = OrDefault(c.jitter, 20)
    BY <1>2, <1>6
  <2> DEFINE jitter == OrDefault(c.jitter, 20)
             first == OrDefault(c.initialBackoff, 1)
             cap == OrDefault(c.maxBackoff, 30)
             retries == RetriesAsked(c)
  <2> HIDE DEF jitter, first, cap, retries
  <2>4. Uploader(UploaderConfig(c)) =
          [maxRetries |-> retries,
           retryDelay |-> IF first <= 0 THEN 1 ELSE first,
           maxBackoff |-> IF cap <= 0 THEN 30 ELSE cap,
           multiplier |-> IF c.multiplier = 0 THEN 4 ELSE c.multiplier,
           jitter |-> jitter]
    BY <2>1, <2>2, <2>3 DEF Uploader, jitter, first, cap, retries
  <2>5. /\ retries \in Nat /\ first \in Nat \ {0} /\ cap \in Nat \ {0} /\ jitter \in 0..100
    BY <1>2, <1>3, <1>4 DEF jitter, first, cap, retries
  <2>6. QED
    BY <1>1, <1>2, <2>4, <2>5 DEF SoundUploader
<1>10. QED
  BY <1>7, <1>8, <1>9

\* The retries that reach the uploader are those of the file.
LEMMA RetriesArrive ==
  ASSUME NEW c, Accepted(c)
  PROVE  /\ c.retryEnabled = FALSE => Uploader(UploaderConfig(c)).maxRetries = 0
         /\ c.retryEnabled # FALSE /\ c.maxAttempts > 0 =>
              Uploader(UploaderConfig(c)).maxRetries + 1 = c.maxAttempts
<1>1. \A n \in Int : \A default : OrDefault(n, default) = n
  BY ConfigAssumption DEF OrDefault
<1>2. Uploader(UploaderConfig(c)).maxRetries = OrDefault(UploaderConfig(c).maxRetries, 3)
  BY DEF Uploader
<1>3. ASSUME c.retryEnabled = FALSE
      PROVE  Uploader(UploaderConfig(c)).maxRetries = 0
  <2>1. RetryConfigured(c)
    BY <1>3, ConfigAssumption, Zenon DEF RetryConfigured
  <2>2. UploaderConfig(c).maxRetries = 0
    BY <1>3, <2>1 DEF UploaderConfig
  <2>3. QED
    BY <1>1, <1>2, <2>2
<1>4. ASSUME c.retryEnabled # FALSE, c.maxAttempts > 0
      PROVE  Uploader(UploaderConfig(c)).maxRetries + 1 = c.maxAttempts
  <2>1. RetryConfigured(c)
    BY <1>4, Zenon DEF RetryConfigured
  <2>2. UploaderConfig(c).maxRetries = RetriesAsked(c)
    BY <1>4, <2>1 DEF UploaderConfig
  <2>3. QED
    BY <1>1, <1>2, <1>4, <2>2, RetriesType
<1>5. QED
  BY <1>3, <1>4

-----------------------------------------------------------------------------
(* Settings: the invariant *)

SettingsInv ==
  /\ config \in Configs
  /\ stage \in {"start", "rejected", "wired", "backoff", "gaveUp"}
  /\ stage \in {"start", "rejected"} => tickers = {} /\ uploader = Unset
  /\ stage \in {"wired", "backoff", "gaveUp"} =>
       /\ Valid(config)
       /\ tickers = Tickers(config)
       /\ uploader # Unset => uploader = Uploader(UploaderConfig(config))
  /\ stage \in {"start", "rejected", "wired"} => attempts = 0
  /\ stage = "backoff" =>
       /\ uploader # Unset
       /\ attempts \in 1..uploader.maxRetries
       /\ delay \in Delays(attempts - 1)
  /\ stage = "gaveUp" => uploader # Unset /\ attempts = uploader.maxRetries + 1

\* A file just read satisfies the invariant, and every step keeps it.
LEMMA SettingsInductive ==
  /\ SettingsInit => SettingsInv
  /\ SettingsInv /\ [SettingsNext]_settingsVars => SettingsInv'
<1>1. SettingsInit => SettingsInv
  BY DEF SettingsInit, SettingsInv
<1>2. ASSUME SettingsInv, [SettingsNext]_settingsVars PROVE SettingsInv'
  <2>1. CASE Reject
    BY <1>2, <2>1 DEF Reject, SettingsInv
  <2>2. CASE Wire
    BY <1>2, <2>2, Zenon DEF Wire, SettingsInv
  <2>3. CASE AttemptRefused
    <3>1. /\ stage \in {"wired", "backoff"} /\ uploader # Unset
          /\ attempts' = attempts + 1
          /\ config' = config /\ tickers' = tickers /\ uploader' = uploader
      BY <2>3 DEF AttemptRefused
    <3>2. /\ config \in Configs /\ Valid(config) /\ tickers = Tickers(config)
          /\ uploader = Uploader(UploaderConfig(config))
      BY <1>2, <3>1 DEF SettingsInv
    <3>3. uploader.maxRetries \in Nat
      BY <3>2, UploaderIsSound DEF Accepted, SoundUploader
    <3>4. attempts \in 0..uploader.maxRetries
      BY <1>2, <3>1, <3>3 DEF SettingsInv
    <3>5. CASE attempts < uploader.maxRetries /\ stage' = "backoff" /\ delay' \in Delays(attempts)
      <4>1. Delays(attempts)' = Delays(attempts + 1)
        BY <3>1 DEF Delays, Capped
      <4>2. delay' \in (Delays(attempts - 1))'
        <5>1. (attempts + 1) - 1 = attempts
          BY <3>4
        <5>2. QED
          BY <3>1, <3>5, <5>1 DEF Delays, Capped
      <4>3. QED
        BY <3>1, <3>2, <3>3, <3>4, <3>5, <4>2 DEF SettingsInv
    <3>6. CASE attempts >= uploader.maxRetries /\ stage' = "gaveUp" /\ delay' = 0
      BY <3>1, <3>2, <3>3, <3>4, <3>6 DEF SettingsInv
    <3>7. QED
      BY <2>3, <3>5, <3>6 DEF AttemptRefused
  <2>4. CASE UNCHANGED settingsVars
    BY <1>2, <2>4, Zenon DEF settingsVars, SettingsInv, Delays, Capped
  <2>5. QED
    BY <1>2, <2>1, <2>2, <2>3, <2>4 DEF SettingsNext
<1>3. QED
  BY <1>1, <1>2

\* The wiring holds in every reachable state, for any set of files.
THEOREM SettingsInvariance == SettingsSpec => []SettingsInv
BY SettingsInductive, PTL DEF SettingsSpec

\* Whatever file passes Validate, the uploader gets what the timing of the
\* uploads rests on: positive delays, a multiplier of at least 1.0 (two halves)
\* and a jitter within 0 and 100 percent.
THEOREM WiringIsSound == SettingsSpec => [](uploader # Unset => SoundUploader(uploader))
<1>1. SettingsInv => (uploader # Unset => SoundUploader(uploader))
  BY UploaderIsSound DEF SettingsInv, Accepted
<1>2. QED
  BY <1>1, SettingsInvariance, PTL

\* No ticker of a running agent panics, for any file.
THEOREM EveryTickerRuns == SettingsSpec => []TickersRun
<1>1. SettingsInv => TickersRun
  BY TickersPositive DEF SettingsInv, TickersRun, Accepted
<1>2. QED
  BY <1>1, SettingsInvariance, PTL

\* A chunk is tried as often as the file says, for any file.
THEOREM AttemptsAreConfigured == SettingsSpec => []AttemptsAsConfigured
<1>1. ASSUME SettingsInv PROVE AttemptsAsConfigured
  <2> SUFFICES ASSUME stage = "gaveUp"
               PROVE  /\ config.retryEnabled = FALSE => attempts = 1
                      /\ config.retryEnabled # FALSE /\ config.maxAttempts > 0
                           => attempts = config.maxAttempts
                      /\ attempts >= 1
    BY DEF AttemptsAsConfigured
  <2>1. Accepted(config) /\ uploader = Uploader(UploaderConfig(config))
    BY <1>1 DEF SettingsInv, Accepted
  <2>2. attempts = uploader.maxRetries + 1 /\ uploader.maxRetries \in Nat
    BY <1>1, <2>1, UploaderIsSound DEF SettingsInv, SoundUploader
  <2>3. /\ config.retryEnabled = FALSE => uploader.maxRetries = 0
        /\ config.retryEnabled # FALSE /\ config.maxAttempts > 0 =>
             uploader.maxRetries + 1 = config.maxAttempts
    BY <2>1, RetriesArrive, Zenon
  <2>4. attempts >= 1 /\ (uploader.maxRetries = 0 => attempts = 1)
    BY <2>2
  <2>5. \A n \in Int : uploader.maxRetries + 1 = n => attempts = n
    BY <2>2
  <2>6. config.maxAttempts \in Int
    BY <2>1, ConfigAssumption DEF Accepted
  <2>7. QED
    BY <2>3, <2>4, <2>5, <2>6, Zenon
<1>2. QED
  BY <1>1, SettingsInvariance, PTL

\* No file makes the agent hammer the remote, however many attempts it allows.
THEOREM NobodyHammers == SettingsSpec => []NoHammering
<1>1. ASSUME SettingsInv PROVE NoHammering
  <2> SUFFICES ASSUME stage = "backoff"
               PROVE  LET least == IF uploader.retryDelay < uploader.maxBackoff
                                   THEN uploader.retryDelay ELSE uploader.maxBackoff
                      IN  /\ least > 0
                          /\ delay >= (least * (100 - uploader.jitter)) \div 100
                          /\ delay * 100 <= uploader.maxBackoff * (100 + uploader.jitter) + 99
    BY DEF NoHammering
  <2> DEFINE first == uploader.retryDelay
             cap == uploader.maxBackoff
             jitter == uploader.jitter
             capped == Capped(attempts - 1)
             least == IF first < cap THEN first ELSE cap
  <2>1. SoundUploader(uploader)
    BY <1>1, UploaderIsSound DEF SettingsInv, Accepted
  <2>2. first \in Nat \ {0} /\ cap \in Nat \ {0} /\ jitter \in 0..100
    BY <2>1 DEF SoundUploader
  <2>3. attempts - 1 \in Nat
    BY <1>1, <2>1 DEF SettingsInv, SoundUploader
  <2> HIDE DEF first, cap, jitter, capped
  <2>4. capped \in 0..cap /\ (first <= capped \/ capped = cap)
    <3>1. uploader.multiplier \in Nat \ {0} /\ uploader.multiplier >= 2
      BY <2>1 DEF SoundUploader
    <3>2. capped = ExponentialBackoff(first, uploader.multiplier, cap, attempts - 1)
      BY DEF Capped, capped, first, cap
    <3> DEFINE e == ExponentialBackoff(first, uploader.multiplier, cap, attempts - 1)
    <3>3. e \in 0..cap
      BY <2>2, <2>3, <3>1, BackoffRange
    <3>4. uploader.multiplier >= 2 => first <= e \/ e = cap
      BY <2>2, <2>3, <3>1, BackoffRange
    <3>5. QED
      BY <3>1, <3>2, <3>3, <3>4
  <2>5. delay \in {(capped * (100 - jitter)) \div 100, (capped * (100 + jitter) + 99) \div 100}
    BY <1>1, Zenon DEF SettingsInv, Delays, capped, jitter
  <2>6. least \in Nat \ {0} /\ least <= capped
    BY <2>2, <2>4
  <2> HIDE DEF least
  <2> DEFINE a == least * (100 - jitter)
             b == capped * (100 - jitter)
             c == capped * (100 + jitter)
             d == cap * (100 + jitter)
  <2>7. a \in Nat /\ b \in Nat /\ c \in Nat /\ d \in Nat /\ a <= b /\ b <= c /\ c <= d
    <3>1. 100 - jitter \in Nat /\ 100 + jitter \in Nat /\ 100 - jitter <= 100 + jitter
      BY <2>2
    <3>2. capped \in Nat /\ cap \in Nat /\ least \in Nat /\ capped <= cap
      BY <2>2, <2>4, <2>6
    <3>3. a <= b /\ c <= d
      BY <2>6, <3>1, <3>2, Monotone
    <3>4. b <= c
      <4>1. (100 - jitter) * capped <= (100 + jitter) * capped
        BY <3>1, <3>2, Monotone
      <4>2. \A x, y \in Nat : x * y = y * x
        OBVIOUS
      <4>3. QED
        BY <3>1, <3>2, <4>1, <4>2
    <3>5. QED
      BY <3>1, <3>2, <3>3, <3>4, ProductIsNat
  <2> HIDE DEF a, b, c, d
  <2>8. delay \in {b \div 100, (c + 99) \div 100}
    BY <2>5 DEF b, c
  <2>9. delay >= a \div 100 /\ delay * 100 <= d + 99
    BY <2>7, <2>8
  <2>10. QED
    BY <2>6, <2>9 DEF a, d, least, first, cap, jitter
<1>2. QED
  BY <1>1, SettingsInvariance, PTL

-----------------------------------------------------------------------------
(* Chunks *)

\* IncludedIDs of a batch b that is sorted as s says, and whether there are
\* any and they fit.
Included(b, s, run) == {s[p] : p \in {q \in run : b[s[q]].numeric}}

Sendable(b, s, run) ==
  Included(b, s, run) # {} /\ CompressedSize(b, Included(b, s, run)) <= Limit

\* The runs that the outermost loop makes of n positions at size e.
GridStart(k, e) == k * e + 1
GridEnd(k, n, e) == End(Loop(GridStart(k, e), n, e))
GridRun(k, n, e) == GridStart(k, e)..GridEnd(k, n, e)

Outermost == loops[Len(loops)]

\* The positions before Front have been dealt with, those before Passed by the
\* outermost loop or in a call of it.
Front == IF outcome = "ok" THEN Len(batch) + 1 ELSE loops[1].next
Passed == IF outcome = "ok" THEN Len(batch) + 1 ELSE Outermost.next

ChunkTypes ==
  /\ batch \in Batches /\ asked \in Nat
  /\ outcome \in {"called", "running", "ok", "failed"}
  /\ loops \in Seq([next : Nat, last : Nat, size : Nat])
  /\ built \in Seq(SUBSET Nat)
  /\ outcome \in {"called", "failed"} => built = <<>>
  /\ outcome \in {"running", "ok"} => sorted \in Sortings
  /\ outcome = "running" => Len(loops) > 0

\* Each loop stands where the one inside it ends.
LoopsNested ==
  outcome = "running" =>
    /\ \A k \in 1..Len(loops) :
         /\ loops[k].next \in 1..(loops[k].last + 1)
         /\ loops[k].size \in 1..EffectiveSize(asked)
         /\ k < Len(loops) => /\ loops[k].last + 1 = loops[k + 1].next
                              /\ loops[k].last < Outermost.next
    /\ Outermost.last = Len(batch) /\ Outermost.size = EffectiveSize(asked)

\* The chunks are intervals of what has been dealt with, one after the other,
\* and leave out string metrics only.
ChunksInPlace ==
  outcome \in {"running", "ok"} =>
    /\ \A i \in 1..Len(built) :
         /\ \E a, b \in 1..(Front - 1) :
              a <= b /\ b < a + EffectiveSize(asked) /\ built[i] = a..b
         /\ Sendable(batch, sorted, built[i])
    /\ \A i, j \in 1..Len(built) : i < j => \A p \in built[i], q \in built[j] : p < q
    /\ \A p \in 1..(Front - 1) :
         batch[sorted[p]].numeric => \E i \in 1..Len(built) : p \in built[i]

FailedOnGiant == outcome = "failed" => \E m \in DOMAIN batch : Giant(m)

\* The outermost loop is at the start of a run of the size asked for, or the
\* loops inside it are within one.
OnGrid ==
  outcome = "running" =>
    \E k \in Nat :
      \/ Len(loops) = 1 /\ Outermost.next \in {GridStart(k, EffectiveSize(asked)), Len(batch) + 1}
      \/ /\ GridStart(k, EffectiveSize(asked)) <= Len(batch)
         /\ GridStart(k, EffectiveSize(asked)) <= loops[1].next
         /\ Len(loops) > 1
         /\ Outermost.next = GridEnd(k, Len(batch), EffectiveSize(asked)) + 1

\* What it has left behind is sent whole if it can be.
SentWhole ==
  outcome \in {"running", "ok"} =>
    \A k \in Nat :
      LET run == GridRun(k, Len(batch), EffectiveSize(asked))
      IN  GridStart(k, EffectiveSize(asked)) < Passed /\ Sendable(batch, sorted, run)
            => \E i \in 1..Len(built) : built[i] = run

ChunkInv ==
  /\ ChunkTypes /\ LoopsNested /\ ChunksInPlace
  /\ FailedOnGiant /\ OnGrid /\ SentWhole

\* The operators of the model are these, for the batch at hand.
LEMMA Operators ==
  /\ \A run : IncludedIDs(run) = Included(batch, sorted, run)
  /\ \A run : IncludedIDs(run) # {} /\ Fits(run) <=> Sendable(batch, sorted, run)
  /\ \A k : FirstRun(k) = GridRun(k, Len(batch), EffectiveSize(asked))
BY DEF IncludedIDs, Included, Sendable, Fits, FirstRun, GridRun, GridStart, GridEnd, Run, Loop

\* A batch is a sequence, and the size is positive.
LEMMA BatchTypes ==
  ASSUME ChunkTypes
  PROVE  /\ Len(batch) \in Nat /\ DOMAIN batch = 1..Len(batch)
         /\ \A m \in DOMAIN batch : batch[m] \in Sample
         /\ EffectiveSize(asked) \in Nat \ {0}
<1>1. PICK n \in 0..MaxLength : batch \in [1..n -> Sample]
  BY DEF ChunkTypes, Batches
<1>2. n \in Nat /\ DOMAIN batch = 1..n /\ batch \in Seq(Sample)
  BY <1>1, ChunkAssumption
<1>3. Len(batch) = n
  BY <1>1, <1>2
<1>4. EffectiveSize(asked) \in Nat \ {0}
  BY ChunkAssumption DEF ChunkTypes, EffectiveSize
<1>5. QED
  BY <1>1, <1>2, <1>3, <1>4

\* An order of the positions that repeats none leaves none out.
LEMMA Onto ==
  ASSUME NEW n \in Nat, NEW s \in [1..n -> 1..n], IsInjective(s)
  PROVE  \A m \in 1..n : \E p \in 1..n : s[p] = m
<1>1. IsFiniteSet(1..n)
  BY FS_Interval
<1>2. s \in Injection(1..n, 1..n)
  BY DEF Injection
<1>3. s \in Surjection(1..n, 1..n)
  BY <1>1, <1>2, FS_Injection
<1>4. QED
  BY <1>3 DEF Surjection

\* The sorted batch is a reordering.
LEMMA SortedIsOrder ==
  ASSUME ChunkTypes, NEW s \in Sortings
  PROVE  /\ s \in [1..Len(batch) -> 1..Len(batch)] /\ IsInjective(s)
         /\ \A m \in 1..Len(batch) : \E p \in 1..Len(batch) : s[p] = m
<1>1. s \in [1..Len(batch) -> 1..Len(batch)] /\ IsInjective(s)
  BY BatchTypes DEF Sortings
<1>2. QED
  BY <1>1, Onto, BatchTypes

\* The ids of a run, one by one.
LEMMA IDs ==
  ASSUME NEW b, NEW s, NEW run, NEW m
  PROVE  m \in Included(b, s, run) <=> \E p \in run : m = s[p] /\ b[s[p]].numeric
BY DEF Included

\* Sorting a slice again moves no id out of a set of positions that holds the
\* slice, or none of it.
LEMMA SameIDs ==
  ASSUME ChunkTypes, outcome = "running", batch' = batch,
         NEW run \in SUBSET (1..Len(batch)), sorted' \in SliceSortings(run),
         NEW Q \in SUBSET (1..Len(batch)), run \subseteq Q \/ run \cap Q = {}
  PROVE  Included(batch, sorted', Q) = Included(batch, sorted, Q)
<1> DEFINE D == 1..Len(batch)
           t == sorted'
<1>1. /\ sorted \in [D -> D] /\ IsInjective(sorted)
      /\ \A m \in D : \E p \in D : sorted[p] = m
  BY SortedIsOrder DEF ChunkTypes
<1>2. t \in Sortings /\ \A p \in D \ run : t[p] = sorted[p]
  BY BatchTypes DEF SliceSortings
<1>3. /\ t \in [D -> D] /\ IsInjective(t)
      /\ \A m \in D : \E p \in D : t[p] = m
  BY <1>2, SortedIsOrder
<1> HIDE DEF t, D
<1>4. Q \subseteq D /\ run \subseteq D
  BY DEF D
<1>5. CASE run \cap Q = {}
  BY <1>2, <1>4, <1>5, Zenon DEF Included, t
<1>6. CASE run \subseteq Q
  <2>1. \A p \in Q : \E q \in Q : t[q] = sorted[p]
    <3> SUFFICES ASSUME NEW p \in Q PROVE \E q \in Q : t[q] = sorted[p]
      OBVIOUS
    <3>1. PICK q \in D : t[q] = sorted[p]
      BY <1>1, <1>3, <1>4
    <3>2. ASSUME q \notin Q PROVE FALSE
      <4>1. t[q] = sorted[q]
        BY <1>2, <1>6, <3>1, <3>2
      <4>2. q = p
        BY <1>1, <1>4, <3>1, <4>1 DEF IsInjective
      <4>3. QED
        BY <3>2, <4>2
    <3>3. QED
      BY <3>1, <3>2
  <2>2. \A q \in Q : \E p \in Q : sorted[p] = t[q]
    <3> SUFFICES ASSUME NEW q \in Q PROVE \E p \in Q : sorted[p] = t[q]
      OBVIOUS
    <3>1. PICK p \in D : sorted[p] = t[q]
      BY <1>1, <1>3, <1>4
    <3>2. ASSUME p \notin Q PROVE FALSE
      <4>1. t[p] = sorted[p]
        BY <1>2, <1>6, <3>1, <3>2
      <4>2. q = p
        BY <1>3, <1>4, <3>1, <4>1 DEF IsInjective
      <4>3. QED
        BY <3>2, <4>2
    <3>3. QED
      BY <3>1, <3>2
  <2>3. ASSUME NEW m \in Included(batch, t, Q) PROVE m \in Included(batch, sorted, Q)
    <3>1. PICK q \in Q : m = t[q] /\ batch[t[q]].numeric
      BY DEF Included
    <3>2. PICK p \in Q : sorted[p] = t[q]
      BY <2>2
    <3>3. QED
      BY <3>1, <3>2, IDs
  <2>4. ASSUME NEW m \in Included(batch, sorted, Q) PROVE m \in Included(batch, t, Q)
    <3>1. PICK p \in Q : m = sorted[p] /\ batch[sorted[p]].numeric
      BY DEF Included
    <3>2. PICK q \in Q : t[q] = sorted[p]
      BY <2>1
    <3>3. QED
      BY <3>1, <3>2, IDs
  <2>5. QED
    BY <2>3, <2>4 DEF t
<1>7. QED
  BY <1>5, <1>6

\* The elements of a sequence that is not empty.
LEMMA ElementsOf ==
  ASSUME NEW S, NEW s \in Seq(S), Len(s) > 0
  PROVE  Len(s) \in Nat \ {0} /\ s[1] \in S /\ \A k \in 1..Len(s) : s[k] \in S
OBVIOUS

\* Where the innermost loop is, and the loops after its run.
LEMMA AtRunFacts ==
  ASSUME ChunkTypes, LoopsNested, AtRun
  PROVE  /\ Len(loops) \in Nat \ {0} /\ loops[1] \in [next : Nat, last : Nat, size : Nat]
         /\ loops[1].next \in 1..loops[1].last 
         /\ loops[1].last \in 1..Len(batch) /\ loops[1].size \in 1..EffectiveSize(asked)
         /\ End(loops[1]) \in loops[1].next..loops[1].last /\ End(loops[1]) <= loops[1].next + loops[1].size - 1
         /\ End(loops[1]) < loops[1].last => End(loops[1]) = loops[1].next + loops[1].size - 1
         /\ Run(loops[1]) \in SUBSET (1..Len(batch)) /\ Run(loops[1]) \in SUBSET Nat
         /\ Advanced \in Seq([next : Nat, last : Nat, size : Nat])
         /\ Len(Advanced) = Len(loops)
         /\ Advanced[1] = Loop(End(loops[1]) + 1, loops[1].last, loops[1].size)
         /\ \A k \in 2..Len(loops) : Advanced[k] = loops[k]
<1> DEFINE l == loops[1]
           L == [next : Nat, last : Nat, size : Nat]
<1>0. Len(batch) \in Nat /\ EffectiveSize(asked) \in Nat \ {0}
  BY BatchTypes
<1>1. Len(loops) \in Nat \ {0} /\ l \in L /\ l.next <= l.last
  <2>1. loops \in Seq(L) /\ Len(loops) > 0
    BY DEF ChunkTypes, AtRun
  <2>2. Len(loops) \in Nat \ {0} /\ l \in L
    BY <2>1, ElementsOf
  <2>3. QED
    BY <2>2 DEF AtRun
<1>2. l.next \in 1..l.last /\ l.size \in 1..EffectiveSize(asked)
  BY <1>0, <1>1 DEF LoopsNested, AtRun
<1>3. l.last <= Len(batch)
  <2>1. CASE Len(loops) = 1
    BY <1>0, <1>1, <2>1 DEF LoopsNested, AtRun, Outermost
  <2>2. CASE Len(loops) # 1
    <3>1. l.last < Outermost.next
      <4>1. 1 \in 1..Len(loops) /\ 1 < Len(loops)
        BY <1>1, <2>2
      <4>2. QED
        BY <4>1 DEF LoopsNested, AtRun
    <3>2. Outermost.next \in 1..(Len(batch) + 1)
      BY <1>0, <1>1 DEF LoopsNested, AtRun, Outermost
    <3>3. QED
      BY <1>0, <1>1, <3>1, <3>2
  <2>3. QED
    BY <2>1, <2>2
<1>4. /\ End(l) \in l.next..l.last /\ End(l) <= l.next + l.size - 1
      /\ End(l) < l.last => End(l) = l.next + l.size - 1
  BY <1>0, <1>1, <1>2 DEF End
<1>5. Run(l) \in SUBSET (1..Len(batch)) /\ Run(l) \in SUBSET Nat
  BY <1>0, <1>1, <1>2, <1>3, <1>4 DEF Run
<1>6. Loop(End(l) + 1, l.last, l.size) \in L
  BY <1>1, <1>4 DEF Loop
<1>7. Tail(loops) \in Seq(L) /\ Len(Tail(loops)) = Len(loops) - 1
      /\ \A k \in 1..(Len(loops) - 1) : Tail(loops)[k] = loops[k + 1]
  BY <1>1 DEF ChunkTypes
<1>8. /\ Advanced \in Seq(L) /\ Len(Advanced) = Len(loops)
      /\ Advanced[1] = Loop(End(l) + 1, l.last, l.size)
      /\ \A k \in 2..Len(loops) : Advanced[k] = loops[k]
  <2> DEFINE first == Loop(End(l) + 1, l.last, l.size)
             T == Tail(loops)
  <2> HIDE DEF first, T, l, L
  <2>1. /\ <<first>> \o T \in Seq(L) /\ Len(<<first>> \o T) = Len(loops)
        /\ (<<first>> \o T)[1] = first
        /\ \A k \in 2..Len(loops) : (<<first>> \o T)[k] = T[k - 1]
    BY <1>1, <1>6, <1>7 DEF first, T
  <2>2. \A k \in 2..Len(loops) : T[k - 1] = loops[k]
    BY <1>1, <1>7 DEF T
  <2>3. QED
    BY <2>1, <2>2, Zenon DEF Advanced, first, T, l
<1>9. l.last \in 1..Len(batch)
  BY <1>0, <1>1, <1>2, <1>3
<1> HIDE DEF L
<1>10. QED
  BY <1>1, <1>2, <1>4, <1>5, <1>8, <1>9, Zenon DEF L

\* Runs of the same size come one after the other.
LEMMA GridOrder ==
  ASSUME NEW e \in Nat \ {0}, NEW j \in Nat, NEW k \in Nat
  PROVE  /\ GridStart(j, e) \in Nat \ {0}
         /\ j < k => GridStart(j, e) + e <= GridStart(k, e)
         /\ GridStart(j + 1, e) = GridStart(j, e) + e
<1>1. j * e \in Nat /\ k * e \in Nat
  BY ProductIsNat
<1>2. (j + 1) * e = j * e + e
  BY Distribute
<1>3. j < k => (j + 1) * e <= k * e
  BY Monotone
<1>4. QED
  BY <1>1, <1>2, <1>3 DEF GridStart

\* Where a run of the outermost loop ends, and that no two of them meet.
LEMMA Grid ==
  ASSUME NEW e \in Nat \ {0}, NEW n \in Nat, NEW k \in Nat, GridStart(k, e) <= n
  PROVE  /\ GridEnd(k, n, e) \in GridStart(k, e)..n
         /\ GridRun(k, n, e) \in SUBSET (1..n)
         /\ GridEnd(k, n, e) + 1 \in {GridStart(k + 1, e), n + 1}
         /\ \A j \in Nat : j # k => GridRun(j, n, e) \cap GridRun(k, n, e) = {}
         /\ \A j \in Nat : GridStart(j, e) <= GridEnd(k, n, e) =>
              j = k \/ GridStart(j, e) < GridStart(k, e)
<1> DEFINE g(j) == GridStart(j, e)
           h(j) == GridEnd(j, n, e)
<1>1. \A j \in Nat : g(j) \in Nat \ {0} /\ g(j + 1) = g(j) + e
  BY GridOrder
<1>2. \A i, j \in Nat : i < j => g(i) + e <= g(j)
  BY GridOrder
<1>3. \A j \in Nat : h(j) = IF g(j) + e - 1 > n THEN n ELSE g(j) + e - 1
  BY DEF GridEnd, End, Loop
<1>4. \A j \in Nat : GridRun(j, n, e) = g(j)..h(j)
  BY DEF GridRun
<1> HIDE DEF g, h
<1>5. h(k) \in g(k)..n /\ h(k) + 1 \in {g(k + 1), n + 1}
  BY <1>1, <1>3 DEF g
<1>6. GridRun(k, n, e) \in SUBSET (1..n)
  <2>1. g(k) \in Nat \ {0} /\ h(k) \in g(k)..n
    BY <1>1, <1>5
  <2>2. g(k)..h(k) \subseteq 1..n
    BY <2>1
  <2>3. QED
    BY <1>4, <2>2
<1>7. ASSUME NEW j \in Nat, j # k PROVE GridRun(j, n, e) \cap GridRun(k, n, e) = {}
  <2>1. g(j) + e <= g(k) \/ g(k) + e <= g(j)
    BY <1>2, <1>7
  <2>2. /\ h(j) \in Int /\ h(k) \in Int /\ h(j) < g(j) + e /\ h(k) < g(k) + e
        /\ g(j) \in Nat /\ g(k) \in Nat
    BY <1>1, <1>3
  <2>3. h(j) < g(k) \/ h(k) < g(j)
    BY <2>1, <2>2
  <2>4. (g(j)..h(j)) \cap (g(k)..h(k)) = {}
    BY <2>2, <2>3
  <2>5. QED
    BY <1>4, <2>4
<1>8. ASSUME NEW j \in Nat, g(j) <= h(k) PROVE j = k \/ g(j) < g(k)
  <2>1. h(k) < g(k) + e /\ h(k) \in Int /\ g(j) \in Nat /\ g(k) \in Nat
    BY <1>1, <1>3
  <2>2. CASE k < j
    BY <1>2, <1>8, <2>1, <2>2
  <2>3. CASE j < k
    BY <1>2, <2>1, <2>3
  <2>4. QED
    BY <2>2, <2>3
<1>9. QED
  BY <1>5, <1>6, <1>7, <1>8 DEF g, h

\* The run at hand lies in one run of the size asked for, and is all of it in
\* the outermost loop.
LEMMA RunInGrid ==
  ASSUME ChunkInv, AtRun
  PROVE  \E k \in Nat :
           /\ GridStart(k, EffectiveSize(asked)) <= Len(batch)
           /\ GridStart(k, EffectiveSize(asked)) <= loops[1].next
           /\ Run(loops[1]) \subseteq GridRun(k, Len(batch), EffectiveSize(asked))
           /\ Len(loops) = 1 =>
                /\ GridStart(k, EffectiveSize(asked)) = loops[1].next
                /\ Run(loops[1]) = GridRun(k, Len(batch), EffectiveSize(asked))
                /\ End(loops[1]) = GridEnd(k, Len(batch), EffectiveSize(asked))
           /\ Len(loops) > 1 =>
                Outermost.next = GridEnd(k, Len(batch), EffectiveSize(asked)) + 1
<1> DEFINE l == loops[1]
           n == Len(batch)
           e == EffectiveSize(asked)
<1>1. /\ Len(loops) \in Nat \ {0} /\ l \in [next : Nat, last : Nat, size : Nat]
      /\ l.next \in 1..l.last /\ l.last \in 1..n /\ End(l) \in l.next..l.last
  BY AtRunFacts DEF ChunkInv
<1>0. (Len(loops) = 1 \/ Len(loops) > 1) /\ ~ (Len(loops) = 1 /\ Len(loops) > 1)
  <2>1. Len(loops) \in Nat \ {0}
    BY AtRunFacts, Zenon DEF ChunkInv
  <2>2. \A x \in Nat \ {0} : (x = 1 \/ x > 1) /\ ~ (x = 1 /\ x > 1)
    OBVIOUS
  <2>3. QED
    BY <2>1, <2>2, Zenon
<1>2. n \in Nat /\ e \in Nat \ {0}
  BY BatchTypes DEF ChunkInv
<1>3. PICK k \in Nat :
        \/ Len(loops) = 1 /\ Outermost.next \in {GridStart(k, e), n + 1}
        \/ /\ GridStart(k, e) <= n /\ GridStart(k, e) <= l.next
           /\ Len(loops) > 1 /\ Outermost.next = GridEnd(k, n, e) + 1
  BY DEF ChunkInv, OnGrid, AtRun
<1>4. GridStart(k, e) \in Nat
  BY <1>2, GridOrder
<1>5. CASE Len(loops) = 1
  <2>1. l = Outermost
    BY <1>5 DEF Outermost
  <2>2. l.last = n /\ l.size = e
    BY <2>1 DEF ChunkInv, LoopsNested, AtRun
  <2>3. l.next = GridStart(k, e)
    BY <1>1, <1>2, <1>3, <1>5, <2>1, <2>2
  <2>4. l = Loop(GridStart(k, e), n, e)
    BY <1>1, <2>2, <2>3 DEF Loop
  <2>5. End(l) = GridEnd(k, n, e)
    BY <2>4 DEF GridEnd
  <2>6. Run(l) = GridRun(k, n, e)
    BY <2>3, <2>5 DEF Run, GridRun
  <2>7. GridStart(k, e) <= n
    BY <1>1, <1>2, <2>3
  <2>8. QED
    <3>1. GridStart(k, e) <= l.next /\ ~ (Len(loops) > 1)
      BY <1>1, <1>4, <1>5, <2>3
    <3>2. Run(l) \subseteq GridRun(k, n, e)
      BY <2>6
    <3>3. QED
      BY <2>3, <2>5, <2>6, <2>7, <3>1, <3>2, Zenon
<1>6. CASE Len(loops) > 1
  <2>1. GridStart(k, e) <= n /\ GridStart(k, e) <= l.next /\ Outermost.next = GridEnd(k, n, e) + 1
    <3>1. Len(loops) # 1
      BY <1>0, <1>6, Zenon
    <3>2. QED
      BY <1>3, <3>1, Zenon
  <2>2. GridEnd(k, n, e) \in GridStart(k, e)..n
    BY <1>2, <2>1, Grid
  <2>3. l.last < Outermost.next
    <3>1. 1 \in 1..Len(loops) /\ 1 < Len(loops)
      BY <1>1, <1>6
    <3>2. QED
      BY <3>1 DEF ChunkInv, LoopsNested, AtRun
  <2>4. l.next..End(l) \subseteq GridStart(k, e)..GridEnd(k, n, e)
    BY <1>1, <1>4, <2>1, <2>2, <2>3
  <2>5. QED
    <3>1. Run(l) \subseteq GridRun(k, n, e)
      BY <2>4, Zenon DEF Run, GridRun
    <3>2. Len(loops) # 1
      BY <1>0, <1>6, Zenon
    <3>3. QED
      BY <2>1, <3>1, <3>2, Zenon
<1>7. QED
  BY <1>0, <1>5, <1>6, Zenon

\* A stack of loops is empty, has one loop or more.
LEMMA Depth ==
  ASSUME ChunkInv, outcome = "running"
  PROVE  /\ Len(loops) \in Nat \ {0} /\ \A k \in 1..Len(loops) : loops[k] \in [next : Nat, last : Nat, size : Nat]
         /\ Len(loops) = 1 \/ Len(loops) > 1
<1>1. loops \in Seq([next : Nat, last : Nat, size : Nat]) /\ Len(loops) > 0
  BY DEF ChunkInv, ChunkTypes
<1>2. Len(loops) \in Nat \ {0} /\ \A k \in 1..Len(loops) : loops[k] \in [next : Nat, last : Nat, size : Nat]
  BY <1>1, ElementsOf
<1>3. \A x \in Nat \ {0} : x = 1 \/ x > 1
  OBVIOUS
<1>4. QED
  BY <1>2, <1>3, Zenon

\* The loops when the innermost one goes on to its next run.
LEMMA AdvanceLoops ==
  ASSUME ChunkInv, AtRun, loops' = Advanced,
         outcome' = outcome, batch' = batch, asked' = asked
  PROVE  /\ loops' \in Seq([next : Nat, last : Nat, size : Nat]) /\ Len(loops') > 0
         /\ LoopsNested' /\ OnGrid'
         /\ Front' = End(loops[1]) + 1
         /\ Len(loops) = 1 => Passed' = End(loops[1]) + 1
         /\ Len(loops) > 1 => Passed' = Passed
<1> DEFINE l == loops[1]
           n == Len(batch)
           e == EffectiveSize(asked)
           L == [next : Nat, last : Nat, size : Nat]
<1>1. Len(loops) \in Nat \ {0} /\ (Len(loops) = 1 \/ Len(loops) > 1)
      /\ \A k \in 1..Len(loops) : loops[k] \in L
  BY Depth DEF AtRun
<1>2. /\ l \in L /\ l.next \in 1..l.last /\ l.last \in 1..n /\ l.size \in 1..e
      /\ End(l) \in l.next..l.last
  BY AtRunFacts DEF ChunkInv
<1>3. /\ loops' \in Seq(L) /\ Len(loops') = Len(loops)
      /\ loops'[1] = Loop(End(l) + 1, l.last, l.size)
      /\ \A k \in 2..Len(loops) : loops'[k] = loops[k]
  BY AtRunFacts DEF ChunkInv
<1>4. loops'[1].next = End(l) + 1 /\ loops'[1].last = l.last /\ loops'[1].size = l.size
  BY <1>3 DEF Loop
<1>5. /\ \A k \in 1..Len(loops) :
           /\ loops[k].next \in 1..(loops[k].last + 1) /\ loops[k].size \in 1..e
           /\ k < Len(loops) => /\ loops[k].last + 1 = loops[k + 1].next
                                /\ loops[k].last < loops[Len(loops)].next
      /\ loops[Len(loops)].last = n /\ loops[Len(loops)].size = e
  BY DEF ChunkInv, LoopsNested, AtRun, Outermost
<1>6. Len(loops) > 1 => loops'[Len(loops)] = loops[Len(loops)]
  BY <1>1, <1>3
<1>7. /\ Front' = End(l) + 1
      /\ Len(loops) = 1 => Passed' = End(l) + 1
      /\ Len(loops) > 1 => Passed' = Passed
  BY <1>3, <1>4, <1>6 DEF Front, Passed, Outermost, AtRun
<1>8. LoopsNested'
  <2> DEFINE d == Len(loops)
  <2>0. d \in Nat \ {0}
    BY <1>1
  <2> HIDE DEF d, n, e
  <2>1. ASSUME NEW k \in 1..d
        PROVE  /\ loops'[k].next \in 1..(loops'[k].last + 1) /\ loops'[k].size \in 1..e
               /\ k < d => /\ loops'[k].last + 1 = loops'[k + 1].next
                           /\ loops'[k].last < loops'[d].next
    <3>1. CASE k = 1
      <4>1. d > 1 => 2 \in 2..d /\ loops'[2] = loops[2] /\ loops'[d] = loops[d]
        BY <1>3, <2>0 DEF d
      <4>2. d > 1 => l.last + 1 = loops[2].next /\ l.last < loops[d].next
        BY <1>5, <2>0 DEF d
      <4>3. QED
        BY <1>2, <1>4, <2>0, <3>1, <4>1, <4>2
    <3>2. CASE k # 1
      <4>1. k \in 2..d /\ (k < d => k + 1 \in 2..d /\ d \in 2..d)
        BY <2>0, <3>2
      <4>2. /\ loops'[k] = loops[k]
            /\ k < d => loops'[k + 1] = loops[k + 1] /\ loops'[d] = loops[d]
        BY <1>3, <4>1 DEF d
      <4>3. /\ loops[k].next \in 1..(loops[k].last + 1) /\ loops[k].size \in 1..e
            /\ k < d => /\ loops[k].last + 1 = loops[k + 1].next
                        /\ loops[k].last < loops[d].next
        BY <1>5 DEF d
      <4>4. QED
        BY <4>2, <4>3
    <3>3. QED
      BY <3>1, <3>2
  <2>2. loops'[d].last = n /\ loops'[d].size = e
    BY <1>1, <1>4, <1>5, <1>6 DEF d
  <2>3. QED
    BY <1>3, <2>1, <2>2 DEF LoopsNested, Outermost, d, n, e
<1>9. OnGrid'
  <2>1. PICK k \in Nat :
           /\ GridStart(k, e) <= n /\ GridStart(k, e) <= l.next
           /\ Len(loops) = 1 => End(l) = GridEnd(k, n, e)
           /\ Len(loops) > 1 => Outermost.next = GridEnd(k, n, e) + 1
    BY RunInGrid
  <2>2. n \in Nat /\ e \in Nat \ {0}
    BY BatchTypes DEF ChunkInv
  <2>3. GridEnd(k, n, e) + 1 \in {GridStart(k + 1, e), n + 1} /\ GridStart(k, e) \in Nat
    BY <2>1, <2>2, Grid, GridOrder
  <2>4. CASE Len(loops) = 1
    <3>1. loops'[Len(loops')].next \in {GridStart(k + 1, e), n + 1} /\ Len(loops') = 1
      BY <1>3, <1>4, <2>1, <2>3, <2>4
    <3>2. k + 1 \in Nat
      OBVIOUS
    <3>3. QED
      BY <3>1, <3>2 DEF OnGrid, Outermost
  <2>5. CASE Len(loops) > 1
    <3>1. loops'[Len(loops')].next = GridEnd(k, n, e) + 1 /\ Len(loops') > 1
      BY <1>3, <1>6, <2>1, <2>5 DEF Outermost
    <3>2. GridStart(k, e) <= loops'[1].next
      BY <1>2, <1>4, <2>1, <2>3
    <3>3. QED
      BY <2>1, <3>1, <3>2 DEF OnGrid, Outermost
  <2>6. QED
    BY <1>1, <2>4, <2>5
<1>10. Len(loops') > 0
  BY <1>1, <1>3
<1>11. QED
  BY <1>3, <1>7, <1>8, <1>9, <1>10

\* The bytes of a set of metrics of the batch are a number.
LEMMA Bytes ==
  ASSUME ChunkTypes, NEW ids \in SUBSET (1..Len(batch))
  PROVE  CompressedSize(batch, ids) \in Nat /\ Limit \in Nat
BY BatchTypes, ChunkAssumption DEF ChunkTypes

\* The ids of positions of the batch are metrics of the batch.
LEMMA IncludedInBatch ==
  ASSUME ChunkTypes, NEW s \in Sortings, NEW run \in SUBSET (1..Len(batch))
  PROVE  Included(batch, s, run) \in SUBSET (1..Len(batch))
<1>1. s \in [1..Len(batch) -> 1..Len(batch)]
  BY SortedIsOrder
<1>2. QED
  BY <1>1 DEF Included

\* What is where at the start.
LEMMA ChunkStart == BuildInit => ChunkInv
<1> SUFFICES ASSUME BuildInit PROVE ChunkInv
  OBVIOUS
<1>1. ChunkTypes
  BY ChunkAssumption DEF BuildInit, ChunkTypes
<1>2. QED
  BY <1>1 DEF BuildInit, ChunkInv, LoopsNested, ChunksInPlace, FailedOnGiant, OnGrid, SentWhole

\* The call begins with one loop and no chunk.
LEMMA CallStep == ASSUME ChunkInv, Call PROVE ChunkInv'
<1> DEFINE n == Len(batch)
           e == EffectiveSize(asked)
           L == [next : Nat, last : Nat, size : Nat]
           l == Loop(1, n, e)
<1>1. n \in Nat /\ e \in Nat \ {0} /\ built = <<>>
  BY BatchTypes DEF ChunkInv, ChunkTypes, Call
<1>2. l \in L /\ l.next = 1 /\ l.last = n /\ l.size = e
  BY <1>1 DEF Loop
<1>3. loops' = <<l>>
  BY DEF Call
<1> HIDE DEF l
<1>4. loops' \in Seq(L) /\ Len(loops') = 1 /\ loops'[1] = l
  BY <1>2, <1>3
<1>5. sorted' \in Sortings'
  BY DEF Call, Sortings, InOrder
<1>6. ChunkTypes'
  BY <1>1, <1>4, <1>5 DEF Call, ChunkInv, ChunkTypes
<1>7. LoopsNested'
  BY <1>1, <1>2, <1>4 DEF Call, LoopsNested, Outermost
<1>8. Front' = 1 /\ Passed' = 1 /\ Outermost' = l
  BY <1>2, <1>4 DEF Call, Front, Passed, Outermost
<1>9. ChunksInPlace'
  BY <1>1, <1>8 DEF Call, ChunksInPlace
<1>10. OnGrid'
  <2>1. GridStart(0, e) = 1
    BY <1>1 DEF GridStart
  <2>2. QED
    BY <1>2, <1>4, <1>8, <2>1 DEF OnGrid, Call
<1>11. SentWhole'
  <2>1. \A k \in Nat : ~ (GridStart(k, e) < 1)
    <3>1. \A k \in Nat : GridStart(k, e) \in Nat \ {0}
      BY <1>1, GridOrder
    <3>2. QED
      BY <3>1
  <2>2. QED
    BY <1>8, <2>1 DEF SentWhole, Call
<1>12. FailedOnGiant'
  BY DEF Call, FailedOnGiant
<1>13. QED
  BY <1>6, <1>7, <1>9, <1>10, <1>11, <1>12 DEF ChunkInv

\* The positions up to the end of a run are those before it and its own.
LEMMA UpTo ==
  ASSUME NEW a \in Nat \ {0}, NEW b \in Nat, a <= b
  PROVE  /\ 1..(a - 1) \subseteq 1..((b + 1) - 1)
         /\ \A p \in 1..((b + 1) - 1) : p \in 1..(a - 1) \/ p \in a..b
         /\ \A p \in 1..(a - 1) : p \notin a..b
         /\ a..b \subseteq 1..((b + 1) - 1)
OBVIOUS

\* An interval of these positions has no others.
LEMMA Within ==
  ASSUME NEW x \in Nat, NEW a \in 1..(x - 1), NEW b \in 1..(x - 1), NEW p \in a..b
  PROVE  p \in 1..(x - 1)
OBVIOUS

\* What AtRunFacts says of a loop, without the loops.
LEMMA Positions ==
  ASSUME ChunkInv, AtRun
  PROVE  /\ Len(batch) \in Nat /\ EffectiveSize(asked) \in Nat \ {0}
         /\ loops[1].next \in Nat \ {0} /\ End(loops[1]) \in Nat
         /\ loops[1].next <= End(loops[1]) /\ End(loops[1]) <= Len(batch)
         /\ End(loops[1]) < loops[1].next + EffectiveSize(asked)
         /\ Run(loops[1]) = loops[1].next..End(loops[1])
         /\ Run(loops[1]) \in SUBSET (1..Len(batch)) /\ Run(loops[1]) \in SUBSET Nat
         /\ Front = loops[1].next /\ (Len(loops) = 1 => Passed = loops[1].next)
<1>1. Len(batch) \in Nat /\ EffectiveSize(asked) \in Nat \ {0}
  BY BatchTypes DEF ChunkInv
<1>2. /\ loops[1].next \in 1..loops[1].last /\ loops[1].last \in 1..Len(batch)
      /\ End(loops[1]) \in loops[1].next..loops[1].last
      /\ End(loops[1]) <= loops[1].next + loops[1].size - 1
      /\ loops[1].size \in 1..EffectiveSize(asked)
      /\ Run(loops[1]) \in SUBSET (1..Len(batch)) /\ Run(loops[1]) \in SUBSET Nat
  BY AtRunFacts DEF ChunkInv
<1>3. Front = loops[1].next /\ (Len(loops) = 1 => Passed = loops[1].next)
  BY DEF AtRun, Front, Passed, Outermost
<1>4. QED
  BY <1>1, <1>2, <1>3 DEF Run

\* When the innermost loop goes on, the outermost leaves at most this run behind.
LEMMA LeftBehind ==
  ASSUME ChunkInv, AtRun, NEW k \in Nat, NEW passed,
         IF Len(loops) = 1 THEN passed = End(loops[1]) + 1 ELSE passed = Passed,
         GridStart(k, EffectiveSize(asked)) < passed
  PROVE  \/ GridStart(k, EffectiveSize(asked)) < Passed
         \/ GridRun(k, Len(batch), EffectiveSize(asked)) = Run(loops[1])
<1> DEFINE l == loops[1]
           n == Len(batch)
           e == EffectiveSize(asked)
<1> SUFFICES ASSUME ~ (GridStart(k, e) < Passed)
             PROVE  GridRun(k, n, e) = Run(l)
  OBVIOUS
<1>1. Len(loops) = 1 /\ passed = End(l) + 1 /\ Passed = l.next
  BY Positions
<1>2. n \in Nat /\ e \in Nat \ {0} /\ End(l) \in Nat /\ l.next \in Nat
  BY Positions
<1>3. GridStart(k, e) \in Nat
  BY <1>2, GridOrder
<1>4. PICK j \in Nat :
         /\ GridStart(j, e) <= n /\ GridStart(j, e) = l.next
         /\ Run(l) = GridRun(j, n, e) /\ End(l) = GridEnd(j, n, e)
  BY <1>1, RunInGrid
<1>5. GridStart(k, e) <= GridEnd(j, n, e)
  BY <1>1, <1>2, <1>3, <1>4
<1>6. k = j \/ GridStart(k, e) < GridStart(j, e)
  BY <1>2, <1>4, <1>5, Grid
<1>7. k = j
  BY <1>1, <1>4, <1>6
<1>8. QED
  BY <1>4, <1>7

\* A run without numeric metrics is left out.
LEMMA SkipStep == ASSUME ChunkInv, SkipRun PROVE ChunkInv'
<1> DEFINE l == loops[1]
           n == Len(batch)
           e == EffectiveSize(asked)
<1> USE DEF SkipRun
<1>1. AtRun /\ outcome = "running" /\ Front = l.next
  BY Positions DEF AtRun
<1>2. /\ loops' \in Seq([next : Nat, last : Nat, size : Nat]) /\ Len(loops') > 0
      /\ LoopsNested' /\ OnGrid'
      /\ Front' = End(l) + 1
      /\ IF Len(loops) = 1 THEN Passed' = End(l) + 1 ELSE Passed' = Passed
  BY <1>1, AdvanceLoops, Depth
<1>3. ChunkTypes'
  BY <1>1, <1>2 DEF ChunkInv, ChunkTypes, Sortings, InOrder
<1>4. Included(batch, sorted, Run(l)) = {}
  BY Operators
<1>5. \A p \in Run(l) : ~ batch[sorted[p]].numeric
  BY <1>4, IDs
<1>6. /\ 1..(l.next - 1) \subseteq 1..((End(l) + 1) - 1)
      /\ \A p \in 1..((End(l) + 1) - 1) : p \in 1..(l.next - 1) \/ p \in Run(l)
  BY <1>1, Positions, UpTo
<1>7. ChunksInPlace'
  <2>1. /\ \A i \in 1..Len(built) :
              /\ \E a, b \in 1..(l.next - 1) : a <= b /\ b < a + e /\ built[i] = a..b
              /\ Sendable(batch, sorted, built[i])
        /\ \A i, j \in 1..Len(built) : i < j => \A p \in built[i], q \in built[j] : p < q
        /\ \A p \in 1..(l.next - 1) :
             batch[sorted[p]].numeric => \E i \in 1..Len(built) : p \in built[i]
    BY <1>1 DEF ChunkInv, ChunksInPlace
  <2>2. /\ \A i \in 1..Len(built) :
              /\ \E a, b \in 1..((End(l) + 1) - 1) : a <= b /\ b < a + e /\ built[i] = a..b
              /\ Sendable(batch, sorted, built[i])
        /\ \A p \in 1..((End(l) + 1) - 1) :
             batch[sorted[p]].numeric => \E i \in 1..Len(built) : p \in built[i]
    BY <1>5, <1>6, <2>1, Zenon
  <2>3. QED
    BY <1>2, <2>1, <2>2 DEF ChunksInPlace
<1>8. SentWhole'
  <2>1. ASSUME NEW k \in Nat, GridStart(k, e) < Passed', Sendable(batch, sorted, GridRun(k, n, e))
        PROVE  \E i \in 1..Len(built) : built[i] = GridRun(k, n, e)
    <3>1. GridRun(k, n, e) # Run(l)
      BY <1>4, <2>1 DEF Sendable
    <3>2. GridStart(k, e) < Passed
      BY <1>1, <1>2, <2>1, <3>1, LeftBehind
    <3>3. QED
      BY <1>1, <2>1, <3>2 DEF ChunkInv, SentWhole
  <2>2. QED
    BY <2>1 DEF SentWhole
<1>9. FailedOnGiant'
  BY <1>1 DEF FailedOnGiant
<1>10. QED
  BY <1>2, <1>3, <1>7, <1>8, <1>9 DEF ChunkInv

\* A run that fits becomes the next chunk.
LEMMA AddStep == ASSUME ChunkInv, AddChunk PROVE ChunkInv'
<1> DEFINE l == loops[1]
           n == Len(batch)
           e == EffectiveSize(asked)
           d == Len(built)
<1> USE DEF AddChunk
<1>1. AtRun /\ outcome = "running" /\ Front = l.next
  BY Positions DEF AtRun
<1>2. /\ loops' \in Seq([next : Nat, last : Nat, size : Nat]) /\ Len(loops') > 0
      /\ LoopsNested' /\ OnGrid'
      /\ Front' = End(l) + 1
      /\ IF Len(loops) = 1 THEN Passed' = End(l) + 1 ELSE Passed' = Passed
  BY <1>1, AdvanceLoops, Depth
<1>3. Sendable(batch, sorted, Run(l))
  BY Operators
<1>4. /\ built' \in Seq(SUBSET Nat) /\ d \in Nat /\ Len(built') = d + 1
      /\ built'[d + 1] = Run(l) /\ \A i \in 1..d : built'[i] = built[i]
  <2>1. Run(l) \in SUBSET Nat /\ built \in Seq(SUBSET Nat)
    BY <1>1, Positions DEF ChunkInv, ChunkTypes
  <2>2. QED
    BY <2>1
<1>5. ChunkTypes'
  BY <1>1, <1>2, <1>4 DEF ChunkInv, ChunkTypes, Sortings, InOrder
<1>6. /\ 1..(l.next - 1) \subseteq 1..((End(l) + 1) - 1)
      /\ \A p \in 1..((End(l) + 1) - 1) : p \in 1..(l.next - 1) \/ p \in Run(l)
      /\ l.next \in 1..((End(l) + 1) - 1) /\ End(l) \in 1..((End(l) + 1) - 1)
      /\ l.next <= End(l) /\ End(l) < l.next + e /\ Run(l) = l.next..End(l)
  BY <1>1, Positions, UpTo
<1>7. /\ \A i \in 1..d :
            /\ \E a, b \in 1..(l.next - 1) : a <= b /\ b < a + e /\ built[i] = a..b
            /\ Sendable(batch, sorted, built[i])
      /\ \A i, j \in 1..d : i < j => \A p \in built[i], q \in built[j] : p < q
      /\ \A p \in 1..(l.next - 1) :
           batch[sorted[p]].numeric => \E i \in 1..d : p \in built[i]
  BY <1>1 DEF ChunkInv, ChunksInPlace
<1>8. ChunksInPlace'
  <2>1. ASSUME NEW i \in 1..(d + 1)
        PROVE  /\ \E a, b \in 1..((End(l) + 1) - 1) : a <= b /\ b < a + e /\ built'[i] = a..b
               /\ Sendable(batch, sorted, built'[i])
    <3>1. CASE i = d + 1
      BY <1>3, <1>4, <1>6, <3>1, Zenon
    <3>2. CASE i # d + 1
      <4>1. i \in 1..d
        BY <1>4, <3>2
      <4>2. built'[i] = built[i]
        BY <1>4, <4>1
      <4>3. \E a, b \in 1..(l.next - 1) : a <= b /\ b < a + e /\ built[i] = a..b
        BY <1>7, <4>1
      <4>4. Sendable(batch, sorted, built[i])
        BY <1>7, <4>1
      <4>5. QED
        BY <1>6, <4>2, <4>3, <4>4, Zenon
    <3>3. QED
      BY <3>1, <3>2
  <2>2. ASSUME NEW i \in 1..(d + 1), NEW j \in 1..(d + 1), i < j,
               NEW p \in built'[i], NEW q \in built'[j]
        PROVE  p < q
    <3>1. i \in 1..d
      BY <1>4, <2>2
    <3>2. CASE j = d + 1
      <4>1. p \in 1..(l.next - 1) /\ q \in l.next..End(l)
        <5>1. PICK a \in 1..(l.next - 1), b \in 1..(l.next - 1) : built[i] = a..b
          BY <1>7, <3>1
        <5>2. p \in a..b /\ q \in l.next..End(l)
          BY <1>4, <1>6, <2>2, <3>1, <3>2, <5>1
        <5>3. l.next \in Nat
          BY <1>1, Positions
        <5>4. QED
          BY <5>2, <5>3, Within, Zenon
      <4>2. l.next \in Nat /\ End(l) \in Nat
        BY <1>1, Positions
      <4>3. QED
        BY <4>1, <4>2
    <3>3. CASE j # d + 1
      <4>1. j \in 1..d
        BY <1>4, <3>3
      <4>2. p \in built[i] /\ q \in built[j]
        BY <1>4, <2>2, <3>1, <4>1
      <4>3. QED
        BY <1>7, <2>2, <3>1, <4>1, <4>2
    <3>4. QED
      BY <3>2, <3>3
  <2>3. ASSUME NEW p \in 1..((End(l) + 1) - 1), batch[sorted[p]].numeric
        PROVE  \E i \in 1..(d + 1) : p \in built'[i]
    <3>1. CASE p \in Run(l)
      <4>1. d + 1 \in 1..(d + 1)
        BY <1>4
      <4>2. QED
        BY <1>4, <3>1, <4>1
    <3>2. CASE p \in 1..(l.next - 1)
      <4>1. PICK i \in 1..d : p \in built[i]
        BY <1>7, <2>3, <3>2
      <4>2. i \in 1..(d + 1)
        BY <1>4
      <4>3. QED
        BY <1>4, <4>1, <4>2
    <3>3. QED
      BY <1>6, <3>1, <3>2, Zenon
  <2>4. QED
    <3>1. /\ batch' = batch /\ sorted' = sorted /\ EffectiveSize(asked)' = e
          /\ Front' = End(l) + 1 /\ Len(built') = d + 1
      BY <1>2, <1>4
    <3> HIDE DEF AddChunk, d, e, l
    <3>2. QED
      BY <2>1, <2>2, <2>3, <3>1 DEF ChunksInPlace
<1>9. SentWhole'
  <2>1. ASSUME NEW k \in Nat, GridStart(k, e) < Passed', Sendable(batch, sorted, GridRun(k, n, e))
        PROVE  \E i \in 1..(d + 1) : built'[i] = GridRun(k, n, e)
    <3>1. CASE GridRun(k, n, e) = Run(l)
      <4>1. d + 1 \in 1..(d + 1)
        BY <1>4
      <4>2. QED
        BY <1>4, <3>1, <4>1
    <3>2. CASE GridRun(k, n, e) # Run(l)
      <4>1. GridStart(k, e) < Passed
        BY <1>1, <1>2, <2>1, <3>2, LeftBehind
      <4>2. PICK i \in 1..d : built[i] = GridRun(k, n, e)
        BY <1>1, <2>1, <4>1 DEF ChunkInv, SentWhole
      <4>3. i \in 1..(d + 1)
        BY <1>4
      <4>4. QED
        BY <1>4, <4>2, <4>3
    <3>3. QED
      BY <3>1, <3>2
  <2>2. QED
    BY <1>4, <2>1 DEF SentWhole
<1>10. FailedOnGiant'
  BY <1>1 DEF FailedOnGiant
<1>11. QED
  BY <1>2, <1>5, <1>8, <1>9, <1>10 DEF ChunkInv

\* The call fails on a run of one metric, and that one is over the limit.
LEMMA GiveUpStep == ASSUME ChunkInv, GiveUp PROVE ChunkInv'
<1> DEFINE l == loops[1]
<1> USE DEF GiveUp
<1>1. AtRun /\ ChunkTypes /\ sorted \in Sortings
  BY DEF AtRun, ChunkInv, ChunkTypes
<1>2. /\ l.next \in Nat \ {0} /\ End(l) \in Nat /\ l.next <= End(l)
      /\ Run(l) = l.next..End(l) /\ Run(l) \in SUBSET (1..Len(batch))
  BY <1>1, Positions
<1>3. Run(l) = {l.next}
  BY <1>2 DEF Unsplittable
<1>4. PICK m : m \in Included(batch, sorted, Run(l))
  BY Operators
<1>5. m = sorted[l.next] /\ batch[m].numeric
  BY <1>3, <1>4, IDs
<1>6. Included(batch, sorted, Run(l)) = {m}
  BY <1>3, <1>5 DEF Included
<1>7. m \in 1..Len(batch) /\ m \in DOMAIN batch
  BY <1>1, <1>2, <1>4, IncludedInBatch, BatchTypes
<1>8. ~ (CompressedSize(batch, {m}) <= Limit)
  BY <1>6, Operators DEF Fits
<1>9. CompressedSize(batch, {m}) \in Nat /\ Limit \in Nat
  BY <1>1, <1>7, Bytes
<1>10. CompressedSize(batch, {m}) > Limit
  BY <1>8, <1>9
<1>11. FailedOnGiant'
  <2>1. batch[m].numeric /\ CompressedSize(batch', {m}) > Limit /\ m \in DOMAIN batch'
    BY <1>5, <1>7, <1>10
  <2>2. QED
    BY <1>5, <2>1 DEF FailedOnGiant, Giant
<1>12. ChunkTypes'
  BY <1>1 DEF ChunkTypes
<1>13. outcome' = "failed"
  OBVIOUS
<1>14. QED
  BY <1>11, <1>12, <1>13 DEF ChunkInv, LoopsNested, ChunksInPlace, OnGrid, SentWhole

\* The rest of a sequence.
LEMMA TailOf ==
  ASSUME NEW S, NEW s \in Seq(S), Len(s) > 1
  PROVE  /\ Tail(s) \in Seq(S) /\ Len(Tail(s)) = Len(s) - 1 /\ Len(Tail(s)) > 0
         /\ \A k \in 1..(Len(s) - 1) : Tail(s)[k] = s[k + 1]
         /\ Tail(s)[Len(Tail(s))] = s[Len(s)]
<1>1. Len(s) \in Nat /\ Len(s) - 1 \in 1..(Len(s) - 1) /\ (Len(s) - 1) + 1 = Len(s)
  OBVIOUS
<1>2. /\ Tail(s) \in Seq(S) /\ Len(Tail(s)) = Len(s) - 1 /\ Len(Tail(s)) > 0
      /\ \A k \in 1..(Len(s) - 1) : Tail(s)[k] = s[k + 1]
  OBVIOUS
<1>3. QED
  BY <1>1, <1>2

\* The outermost loop has come to the end: all positions have been dealt with.
LEMMA LastReturn == ASSUME ChunkInv, Return, Len(loops) = 1 PROVE ChunkInv'
<1> DEFINE l == loops[1]
           n == Len(batch)
           e == EffectiveSize(asked)
<1> USE DEF Return
<1>1. outcome = "running" /\ outcome' = "ok" /\ n \in Nat
  BY BatchTypes DEF ChunkInv
<1>2. /\ l \in [next : Nat, last : Nat, size : Nat] /\ l.next \in 1..(l.last + 1)
      /\ l.last = n /\ Outermost = l
  <2>1. 1 \in 1..Len(loops)
    OBVIOUS
  <2>2. l \in [next : Nat, last : Nat, size : Nat]
    BY <1>1, <2>1, Depth
  <2>3. Outermost = l
    BY DEF Outermost
  <2>4. l.next \in 1..(l.last + 1) /\ Outermost.last = n
    BY <1>1, <2>1 DEF ChunkInv, LoopsNested
  <2>5. QED
    BY <2>2, <2>3, <2>4
<1>3. l.next = n + 1
  BY <1>1, <1>2
<1>4. Front = n + 1 /\ Passed = n + 1
  BY <1>1, <1>2, <1>3 DEF Front, Passed
<1>5. Front' = n + 1 /\ Passed' = n + 1
  BY <1>1 DEF Front, Passed
<1>6. ChunkTypes'
  <2>1. loops \in Seq([next : Nat, last : Nat, size : Nat])
    BY DEF ChunkInv, ChunkTypes
  <2>2. loops' \in Seq([next : Nat, last : Nat, size : Nat])
    BY <2>1
  <2>3. QED
    BY <1>1, <2>2 DEF ChunkInv, ChunkTypes, Sortings, InOrder
<1>7. ChunksInPlace'
  <2>1. /\ batch' = batch /\ sorted' = sorted /\ asked' = asked /\ built' = built
        /\ Front' = Front /\ outcome = "running"
    BY <1>1, <1>4, <1>5
  <2> HIDE DEF Return
  <2>2. QED
    BY <2>1 DEF ChunkInv, ChunksInPlace
<1>8. SentWhole'
  BY <1>1, <1>4, <1>5 DEF ChunkInv, SentWhole
<1>9. QED
  BY <1>1, <1>6, <1>7, <1>8 DEF ChunkInv, LoopsNested, OnGrid, FailedOnGiant

\* A loop inside another has come to the end: the other goes on from there.
LEMMA InnerReturn == ASSUME ChunkInv, Return, Len(loops) > 1 PROVE ChunkInv'
<1> DEFINE l == loops[1]
           n == Len(batch)
           e == EffectiveSize(asked)
           d == Len(loops)
           L == [next : Nat, last : Nat, size : Nat]
<1>1. /\ outcome = "running" /\ loops' = Tail(loops) /\ l.next > l.last
      /\ UNCHANGED <<batch, asked, sorted, built>>
  BY DEF Return
<1>2. outcome' = "running"
  <2>1. d # 1
    <3>1. d \in Nat /\ \A x \in Nat : x > 1 => x # 1
      BY <1>1, Depth
    <3>2. QED
      BY <3>1, Zenon
  <2>2. QED
    BY <2>1 DEF Return
<1>3. n \in Nat /\ e \in Nat \ {0}
  BY BatchTypes DEF ChunkInv
<1>4. /\ loops' \in Seq(L) /\ Len(loops') = d - 1 /\ Len(loops') > 0
      /\ \A k \in 1..(d - 1) : loops'[k] = loops[k + 1]
      /\ loops'[Len(loops')] = loops[d]
  <2>1. loops \in Seq(L)
    BY DEF ChunkInv, ChunkTypes
  <2>2. QED
    BY <1>1, <2>1, TailOf
<1>5. d \in Nat /\ d > 1 /\ d - 1 >= 1
  BY <1>1, <1>4, Depth
<1>6. /\ \A k \in 1..d :
           /\ loops[k].next \in 1..(loops[k].last + 1) /\ loops[k].size \in 1..e
           /\ k < d => /\ loops[k].last + 1 = loops[k + 1].next
                       /\ loops[k].last < loops[d].next
      /\ loops[d].last = n /\ loops[d].size = e
  BY <1>1 DEF ChunkInv, LoopsNested, Outermost
<1> HIDE DEF d, n, e, L
<1>7. loops'[1] = loops[2] /\ loops[2].next = l.next
  <2>1. 1 \in 1..d /\ 1 < d /\ 1 \in 1..(d - 1)
    BY <1>5
  <2>2. l.last + 1 = loops[2].next /\ l.next \in 1..(l.last + 1) /\ l \in [next : Nat, last : Nat, size : Nat]
    BY <1>1, <1>6, <2>1, Depth DEF d
  <2>3. loops'[1] = loops[2]
    BY <1>4, <2>1
  <2>4. QED
    BY <1>1, <2>2, <2>3
<1>8. Outermost' = Outermost /\ Front' = Front /\ Passed' = Passed
  BY <1>1, <1>2, <1>4, <1>7 DEF Outermost, Front, Passed, d
<1>9. ChunkTypes'
  BY <1>1, <1>2, <1>4 DEF ChunkInv, ChunkTypes, Sortings, InOrder, L
<1>10. LoopsNested'
  <2>1. ASSUME NEW k \in 1..(d - 1)
        PROVE  /\ loops'[k].next \in 1..(loops'[k].last + 1) /\ loops'[k].size \in 1..e
               /\ k < d - 1 => /\ loops'[k].last + 1 = loops'[k + 1].next
                               /\ loops'[k].last < loops[d].next
    <3>1. k + 1 \in 1..d /\ (k < d - 1 => k + 1 < d /\ k + 1 \in 1..(d - 1))
      BY <1>5
    <3>2. loops'[k] = loops[k + 1] /\ (k < d - 1 => loops'[k + 1] = loops[(k + 1) + 1])
      BY <1>4, <3>1
    <3>3. QED
      BY <1>6, <3>1, <3>2
  <2>2. loops'[Len(loops')].last = n /\ loops'[Len(loops')].size = e
    BY <1>4, <1>6
  <2>3. QED
    BY <1>1, <1>4, <2>1, <2>2 DEF LoopsNested, Outermost, n, e
<1>11. OnGrid'
  <2>1. PICK k \in Nat :
          \/ Len(loops) = 1 /\ Outermost.next \in {GridStart(k, e), n + 1}
          \/ /\ GridStart(k, e) <= n /\ GridStart(k, e) <= l.next
             /\ Len(loops) > 1 /\ Outermost.next = GridEnd(k, n, e) + 1
    BY <1>1 DEF ChunkInv, OnGrid, n, e
  <2>2. /\ GridStart(k, e) <= n /\ GridStart(k, e) <= l.next
        /\ Outermost.next = GridEnd(k, n, e) + 1
    <3>1. d # 1
      BY <1>5
    <3>2. QED
      BY <2>1, <3>1, Zenon DEF d
  <2>3. GridEnd(k, n, e) + 1 \in {GridStart(k + 1, e), n + 1}
    BY <1>3, <2>2, Grid
  <2>4. k + 1 \in Nat
    OBVIOUS
  <2>5. d - 1 = 1 \/ d - 1 > 1
    BY <1>5
  <2>6. CASE d - 1 = 1
    <3>1. Outermost'.next \in {GridStart(k + 1, e), n + 1} /\ Len(loops') = 1
      BY <1>4, <1>8, <2>2, <2>3, <2>6
    <3>2. QED
      BY <1>1, <2>4, <3>1 DEF OnGrid, n, e
  <2>7. CASE d - 1 > 1
    <3>1. /\ GridStart(k, e) <= loops'[1].next /\ Len(loops') > 1
          /\ Outermost'.next = GridEnd(k, n, e) + 1
      BY <1>4, <1>7, <1>8, <2>2, <2>7
    <3>2. QED
      BY <1>1, <2>2, <3>1 DEF OnGrid, n, e
  <2>8. QED
    BY <2>5, <2>6, <2>7
<1>12. ChunksInPlace'
  BY <1>1, <1>2, <1>8 DEF ChunkInv, ChunksInPlace
<1>13. SentWhole'
  BY <1>1, <1>2, <1>8 DEF ChunkInv, SentWhole
<1>14. QED
  BY <1>2, <1>9, <1>10, <1>11, <1>12, <1>13 DEF ChunkInv, FailedOnGiant

\* Half of a size is at least 1 and not more.
LEMMA HalfSize ==
  ASSUME NEW e \in Nat, NEW size \in 1..e
  PROVE  Half(size) \in 1..e
BY DEF Half

\* A sequence with one element more in front.
LEMMA Pushed ==
  ASSUME NEW S, NEW s \in Seq(S), NEW x \in S, Len(s) > 0
  PROVE  /\ <<x>> \o s \in Seq(S) /\ Len(<<x>> \o s) = Len(s) + 1 /\ Len(<<x>> \o s) > 1
         /\ (<<x>> \o s)[1] = x
         /\ \A k \in 1..Len(s) : (<<x>> \o s)[k + 1] = s[k]
         /\ (<<x>> \o s)[Len(<<x>> \o s)] = s[Len(s)]
<1>1. Len(s) \in Nat /\ Len(s) \in 1..Len(s)
  OBVIOUS
<1>2. /\ <<x>> \o s \in Seq(S) /\ Len(<<x>> \o s) = Len(s) + 1 /\ Len(<<x>> \o s) > 1
      /\ (<<x>> \o s)[1] = x
      /\ \A k \in 1..Len(s) : (<<x>> \o s)[k + 1] = s[k]
  OBVIOUS
<1>3. QED
  BY <1>1, <1>2

\* A run that does not fit is sorted and cut again, by a loop of its own.
LEMMA BisectStep == ASSUME ChunkInv, Bisect PROVE ChunkInv'
<1> DEFINE l == loops[1]
           n == Len(batch)
           e == EffectiveSize(asked)
           d == Len(loops)
           L == [next : Nat, last : Nat, size : Nat]
           inner == Loop(l.next, End(l), Half(l.size))
<1>1. /\ AtRun /\ outcome = "running" /\ Front = l.next
      /\ batch' = batch /\ asked' = asked /\ built' = built /\ outcome' = outcome
      /\ loops' = <<inner>> \o Advanced
      /\ sorted' \in SliceSortings(Run(l))
  BY Positions DEF Bisect, AtRun
<1>2. /\ n \in Nat /\ e \in Nat \ {0} /\ Run(l) = l.next..End(l)
      /\ l.next \in Nat \ {0} /\ End(l) \in Nat /\ l.next <= End(l) /\ End(l) <= n
      /\ Run(l) \in SUBSET (1..n)
  BY <1>1, Positions
<1>3. /\ l \in L /\ l.size \in 1..e /\ l.last \in Nat /\ End(l) <= l.last
      /\ Advanced \in Seq(L) /\ Len(Advanced) = d /\ Advanced[1] = Loop(End(l) + 1, l.last, l.size)
      /\ \A k \in 2..d : Advanced[k] = loops[k]
  BY <1>1, AtRunFacts DEF ChunkInv
<1>4. d \in Nat \ {0} /\ (d = 1 \/ d > 1)
  BY <1>1, Depth
<1>5. /\ inner \in L /\ inner.next = l.next /\ inner.last = End(l) /\ inner.size \in 1..e
      /\ Advanced[1].next = End(l) + 1 /\ Advanced[1].last = l.last /\ Advanced[1].size = l.size
  <2>1. Half(l.size) \in 1..e /\ Half(l.size) \in Nat
    BY <1>2, <1>3, HalfSize
  <2>2. QED
    BY <1>2, <1>3, <2>1 DEF Loop
<1>6. /\ loops' \in Seq(L) /\ Len(loops') = d + 1 /\ Len(loops') > 1
      /\ loops'[1] = inner
      /\ \A k \in 1..d : loops'[k + 1] = Advanced[k]
      /\ loops'[Len(loops')] = Advanced[d]
  <2> HIDE DEF inner, L, d
  <2>1. Len(Advanced) > 0
    BY <1>3, <1>4
  <2>2. QED
    BY <1>1, <1>3, <1>5, <2>1, Pushed
<1>7. /\ \A k \in 1..d :
           /\ loops[k].next \in 1..(loops[k].last + 1) /\ loops[k].size \in 1..e
           /\ k < d => /\ loops[k].last + 1 = loops[k + 1].next
                       /\ loops[k].last < loops[d].next
      /\ loops[d].last = n /\ loops[d].size = e
  BY <1>1 DEF ChunkInv, LoopsNested, Outermost
<1>8. d > 1 => Advanced[d] = loops[d] /\ Advanced[2] = loops[2]
               /\ l.last + 1 = loops[2].next /\ l.last < loops[d].next
  <2>1. d > 1 => d \in 2..d /\ 2 \in 2..d /\ 1 \in 1..d /\ 1 < d
    BY <1>4
  <2> HIDE DEF d, l
  <2>2. ASSUME d > 1 PROVE Advanced[d] = loops[d] /\ Advanced[2] = loops[2]
    BY <1>3, <2>1, <2>2
  <2>3. ASSUME d > 1 PROVE l.last + 1 = loops[2].next /\ l.last < loops[d].next
    BY <1>7, <2>1, <2>3 DEF l
  <2>4. QED
    BY <2>2, <2>3
<1>9. sorted' \in Sortings /\ \A p \in (1..n) \ Run(l) : sorted'[p] = sorted[p]
  BY <1>1, BatchTypes DEF SliceSortings, ChunkInv
<1>10. \A Q \in SUBSET (1..n) : Run(l) \subseteq Q \/ Run(l) \cap Q = {} =>
          (Sendable(batch, sorted', Q) <=> Sendable(batch, sorted, Q))
  <2> SUFFICES ASSUME NEW Q \in SUBSET (1..n), Run(l) \subseteq Q \/ Run(l) \cap Q = {}
               PROVE  Sendable(batch, sorted', Q) <=> Sendable(batch, sorted, Q)
    OBVIOUS
  <2>1. Included(batch, sorted', Q) = Included(batch, sorted, Q)
    BY <1>1, <1>2, SameIDs DEF ChunkInv
  <2>2. QED
    BY <2>1 DEF Sendable
<1>11. PICK k \in Nat :
         /\ GridStart(k, e) <= n /\ GridStart(k, e) <= l.next
         /\ Run(l) \subseteq GridRun(k, n, e)
         /\ d = 1 => /\ GridStart(k, e) = l.next /\ Run(l) = GridRun(k, n, e)
                     /\ End(l) = GridEnd(k, n, e)
         /\ d > 1 => Outermost.next = GridEnd(k, n, e) + 1
  BY <1>1, RunInGrid
<1> HIDE DEF inner
<1>12. ChunkTypes'
  <2>1. sorted' \in Sortings'
    BY <1>1, <1>9 DEF Sortings, InOrder
  <2>2. Len(loops') > 0
    BY <1>4, <1>6
  <2>3. QED
    BY <1>1, <1>6, <2>1, <2>2 DEF ChunkInv, ChunkTypes
<1>13. Front' = Front /\ Passed' = Advanced[d].next /\ Outermost' = Advanced[d]
  BY <1>1, <1>5, <1>6 DEF Front, Passed, Outermost
<1>14. LoopsNested'
  <2>1. l.last \in Nat /\ End(l) \in Nat /\ End(l) <= l.last
    BY <1>2, <1>3
  <2>2. End(l) + 1 \in 1..(l.last + 1)
    BY <2>1
  <2>3. \A x \in 1..d : Advanced[x] \in L
    <3> HIDE DEF L, d
    <3>1. Len(Advanced) > 0
      BY <1>3, <1>4
    <3>2. QED
      BY <1>3, <3>1, ElementsOf
  <2>4. d \in 1..d /\ Advanced[d].next \in Nat
    BY <1>4, <2>3
  <2> HIDE DEF d, n, e, l
  <2>5. Advanced[d].last = n /\ Advanced[d].size = e
    BY <1>4, <1>5, <1>7, <1>8 DEF l
  <2>6. ASSUME NEW i \in 1..(d + 1)
        PROVE  /\ loops'[i].next \in 1..(loops'[i].last + 1) /\ loops'[i].size \in 1..e
               /\ i < d + 1 => /\ loops'[i].last + 1 = loops'[i + 1].next
                               /\ loops'[i].last < Advanced[d].next
    <3>1. CASE i = 1
      <4>1. 1 \in 1..d
        BY <1>4
      <4>2. loops'[1] = inner /\ loops'[1 + 1] = Advanced[1]
        BY <1>6, <4>1
      <4>3. End(l) < Advanced[d].next
        <5>1. CASE d = 1
          BY <1>2, <1>5, <5>1
        <5>2. CASE d > 1
          <6>1. l.last < Advanced[d].next
            BY <1>8, <5>2
          <6>2. QED
            BY <2>1, <2>4, <6>1
        <5>3. QED
          BY <1>4, <5>1, <5>2
      <4>4. QED
        BY <1>2, <1>5, <3>1, <4>2, <4>3
    <3>2. CASE i = 2
      <4>1. 1 \in 1..d /\ (d > 1 => 2 \in 1..d)
        BY <1>4
      <4>2. loops'[1 + 1] = Advanced[1] /\ (d > 1 => loops'[2 + 1] = Advanced[2])
        BY <1>6, <4>1
      <4>3. i < d + 1 => d > 1
        BY <1>4, <3>2
      <4>4. loops'[i] = Advanced[1] /\ (i < d + 1 => loops'[i + 1] = Advanced[2])
        BY <3>2, <4>2, <4>3
      <4>5. /\ Advanced[1].next \in 1..(Advanced[1].last + 1) /\ Advanced[1].size \in 1..e
            /\ d > 1 => /\ Advanced[1].last + 1 = Advanced[2].next
                        /\ Advanced[1].last < Advanced[d].next
        <5>1. l.size \in 1..e
          BY <1>3
        <5>2. QED
          BY <1>5, <1>8, <2>2, <5>1
      <4>6. QED
        BY <4>3, <4>4, <4>5
    <3>3. CASE i # 1 /\ i # 2
      <4>1. /\ i - 1 \in 2..d /\ i - 1 \in 1..d /\ (i - 1) + 1 = i /\ d > 1
            /\ i < d + 1 => i \in 2..d /\ i \in 1..d /\ i - 1 < d
        BY <1>4, <3>3
      <4>2. /\ loops'[i] = loops[i - 1]
            /\ i < d + 1 => loops'[i + 1] = loops[i]
        BY <1>3, <1>6, <4>1
      <4>3. /\ loops[i - 1].next \in 1..(loops[i - 1].last + 1) /\ loops[i - 1].size \in 1..e
            /\ i < d + 1 => /\ loops[i - 1].last + 1 = loops[i].next
                            /\ loops[i - 1].last < loops[d].next
        BY <1>7, <4>1
      <4>4. QED
        BY <1>8, <4>1, <4>2, <4>3
    <3>4. QED
      BY <3>1, <3>2, <3>3
  <2>7. QED
    BY <1>1, <1>6, <1>13, <2>5, <2>6 DEF LoopsNested, n, e
<1>15. OnGrid'
  <2>1. Outermost'.next = GridEnd(k, n, e) + 1
    <3>1. CASE d = 1
      BY <1>5, <1>11, <1>13, <3>1
    <3>2. CASE d > 1
      BY <1>8, <1>11, <1>13, <3>2 DEF Outermost
    <3>3. QED
      BY <1>4, <3>1, <3>2
  <2>2. GridStart(k, e) <= loops'[1].next
    BY <1>5, <1>6, <1>11
  <2>3. QED
    BY <1>1, <1>6, <1>11, <2>1, <2>2 DEF OnGrid
<1>16. ChunksInPlace'
  <2>1. /\ \A i \in 1..Len(built) :
              /\ \E a, b \in 1..(l.next - 1) : a <= b /\ b < a + e /\ built[i] = a..b
              /\ Sendable(batch, sorted, built[i])
        /\ \A i, j \in 1..Len(built) : i < j => \A p \in built[i], q \in built[j] : p < q
        /\ \A p \in 1..(l.next - 1) :
             batch[sorted[p]].numeric => \E i \in 1..Len(built) : p \in built[i]
    BY <1>1 DEF ChunkInv, ChunksInPlace
  <2>2. \A p \in 1..(l.next - 1) : p \in (1..n) \ Run(l)
    BY <1>2
  <2>3. ASSUME NEW i \in 1..Len(built) PROVE Sendable(batch, sorted', built[i])
    <3>1. PICK a \in 1..(l.next - 1), b \in 1..(l.next - 1) : built[i] = a..b
      BY <2>1
    <3>2. \A p \in a..b : p \in 1..(l.next - 1)
      BY <1>2, Within
    <3>3. built[i] \in SUBSET (1..n) /\ Run(l) \cap built[i] = {}
      BY <2>2, <3>1, <3>2
    <3>4. QED
      BY <1>10, <2>1, <3>3
  <2>4. ASSUME NEW p \in 1..(l.next - 1), batch[sorted'[p]].numeric
        PROVE  \E i \in 1..Len(built) : p \in built[i]
    <3>1. sorted'[p] = sorted[p]
      BY <1>9, <2>2
    <3>2. QED
      BY <2>1, <2>4, <3>1
  <2>5. QED
    BY <1>1, <1>13, <2>1, <2>3, <2>4 DEF ChunksInPlace
<1>17. SentWhole'
  <2>1. IF d = 1 THEN Passed' = End(l) + 1 ELSE Passed' = Passed
    BY <1>1, <1>4, <1>5, <1>8, <1>13 DEF Passed, Outermost
  <2>2. ASSUME NEW j \in Nat, GridStart(j, e) < Passed', Sendable(batch, sorted', GridRun(j, n, e))
        PROVE  \E i \in 1..Len(built) : built[i] = GridRun(j, n, e)
    <3>1. Sendable(batch, sorted, GridRun(j, n, e))
      <4>1. Run(l) \subseteq GridRun(j, n, e) \/ Run(l) \cap GridRun(j, n, e) = {}
        BY <1>2, <1>11, Grid
      <4>2. GridRun(j, n, e) \in SUBSET (1..n)
        <5>1. GridStart(j, e) \in Nat \ {0}
          BY <1>2, GridOrder
        <5>2. GridEnd(j, n, e) \in Int /\ GridEnd(j, n, e) <= n
          BY <1>2, <5>1 DEF GridEnd, End, Loop
        <5>3. QED
          BY <1>2, <5>1, <5>2 DEF GridRun
      <4>3. QED
        BY <1>10, <2>2, <4>1, <4>2
    <3>2. GridStart(j, e) < Passed
      <4>1. ~ Sendable(batch, sorted, Run(l))
        BY Operators DEF Bisect
      <4>2. GridRun(j, n, e) # Run(l)
        BY <3>1, <4>1
      <4>3. QED
        BY <1>1, <2>1, <2>2, <4>2, LeftBehind
    <3>3. QED
      BY <1>1, <3>1, <3>2 DEF ChunkInv, SentWhole
  <2>3. QED
    BY <1>1, <2>2 DEF SentWhole
<1>18. QED
  BY <1>1, <1>12, <1>14, <1>15, <1>16, <1>17 DEF ChunkInv, FailedOnGiant

\* Every step of BuildChunks keeps the loops nested, the chunks in place, and
\* what is sent whole.
LEMMA ChunkStep == ChunkInv /\ [BuildNext]_buildVars => ChunkInv'
<1> SUFFICES ASSUME ChunkInv, [BuildNext]_buildVars PROVE ChunkInv'
  OBVIOUS
<1>1. CASE Call
  BY <1>1, CallStep
<1>2. CASE SkipRun
  BY <1>2, SkipStep
<1>3. CASE AddChunk
  BY <1>3, AddStep
<1>4. CASE Bisect
  BY <1>4, BisectStep
<1>5. CASE GiveUp
  BY <1>5, GiveUpStep
<1>6. CASE Return
  <2>1. Len(loops) = 1 \/ Len(loops) > 1
    BY <1>6, Depth DEF Return
  <2>2. QED
    BY <1>6, <2>1, LastReturn, InnerReturn
<1>7. CASE UNCHANGED buildVars
  <2>1. /\ batch' = batch /\ asked' = asked /\ sorted' = sorted
        /\ loops' = loops /\ built' = built /\ outcome' = outcome
    BY <1>7 DEF buildVars
  <2>2. Front' = Front /\ Passed' = Passed /\ Outermost' = Outermost
    BY <2>1 DEF Front, Passed, Outermost
  <2>3. ChunkTypes'
    BY <2>1 DEF ChunkInv, ChunkTypes, Sortings, InOrder
  <2>4. LoopsNested' /\ OnGrid'
    BY <2>1, <2>2 DEF ChunkInv, LoopsNested, OnGrid
  <2>5. ChunksInPlace' /\ SentWhole'
    BY <2>1, <2>2 DEF ChunkInv, ChunksInPlace, SentWhole
  <2>6. FailedOnGiant'
    BY <2>1 DEF ChunkInv, FailedOnGiant, Giant
  <2>7. QED
    BY <2>3, <2>4, <2>5, <2>6 DEF ChunkInv
<1>8. QED
  BY <1>1, <1>2, <1>3, <1>4, <1>5, <1>6, <1>7 DEF BuildNext

\* BuildChunks keeps its loops nested and its chunks in place, whatever the
\* batch, the order of equal timestamps, the size and the compressor.
THEOREM ChunkInvariance == BuildSpec => []ChunkInv
<1>1. QED
  BY ChunkStart, ChunkStep, PTL DEF BuildSpec

\* The ids of a chunk are numeric metrics of the batch, some, and they fit.
LEMMA OfAChunk ==
  ASSUME ChunkInv, NEW i \in DOMAIN built
  PROVE  /\ outcome \in {"running", "ok"} /\ DOMAIN built = 1..Len(built)
         /\ sorted \in Sortings /\ built[i] \in SUBSET (1..Len(batch))
         /\ Sendable(batch, sorted, built[i])
         /\ \E a, b \in 1..Len(batch) :
              a <= b /\ b < a + EffectiveSize(asked) /\ built[i] = a..b
<1>1. built \in Seq(SUBSET Nat)
  BY DEF ChunkInv, ChunkTypes
<1>2. DOMAIN built = 1..Len(built)
  BY <1>1
<1>3. outcome \in {"running", "ok"} /\ sorted \in Sortings
  BY DEF ChunkInv, ChunkTypes
<1>4. Front - 1 \in Nat /\ Front - 1 <= Len(batch) /\ Len(batch) \in Nat
  <2>1. Len(batch) \in Nat /\ EffectiveSize(asked) \in Nat \ {0}
    BY BatchTypes DEF ChunkInv
  <2>2. CASE outcome = "ok"
    BY <2>1, <2>2 DEF Front
  <2>3. CASE outcome = "running"
    <3>1. Len(loops) \in Nat \ {0} /\ (Len(loops) = 1 \/ Len(loops) > 1)
          /\ loops[1] \in [next : Nat, last : Nat, size : Nat]
      <4>1. Len(loops) \in Nat \ {0}
        BY <2>3, Depth
      <4>2. 1 \in 1..Len(loops)
        BY <4>1
      <4>3. QED
        BY <2>3, <4>2, Depth
    <3>2. loops[1].next \in 1..(Len(batch) + 1)
      <4>1. CASE Len(loops) = 1
        <5>1. 1 \in 1..Len(loops) /\ Outermost = loops[1]
          BY <4>1 DEF Outermost
        <5>2. loops[1].next \in 1..(loops[1].last + 1) /\ loops[1].last = Len(batch)
          BY <2>3, <5>1 DEF ChunkInv, LoopsNested
        <5>3. QED
          BY <5>2
      <4>2. CASE Len(loops) > 1
        <5>1. 1 \in 1..Len(loops) /\ 1 < Len(loops) /\ Len(loops) \in 1..Len(loops)
          BY <3>1, <4>2
        <5>2. /\ loops[1].next \in 1..(loops[1].last + 1)
              /\ loops[1].last < Outermost.next
              /\ Outermost.next \in 1..(Len(batch) + 1)
          BY <2>3, <5>1 DEF ChunkInv, LoopsNested, Outermost
        <5>3. loops[1].last \in Nat
          BY <3>1
        <5>4. QED
          BY <2>1, <5>2, <5>3
      <4>3. QED
        BY <3>1, <4>1, <4>2
    <3>3. QED
      BY <2>1, <2>3, <3>2 DEF Front
  <2>4. QED
    BY <1>3, <2>2, <2>3
<1>5. \E a, b \in 1..(Front - 1) : a <= b /\ b < a + EffectiveSize(asked) /\ built[i] = a..b
  BY <1>2, <1>3 DEF ChunkInv, ChunksInPlace
<1>6. Sendable(batch, sorted, built[i])
  BY <1>2, <1>3 DEF ChunkInv, ChunksInPlace
<1>7. 1..(Front - 1) \subseteq 1..Len(batch)
  BY <1>4
<1>8. PICK a \in 1..Len(batch), b \in 1..Len(batch) :
        a <= b /\ b < a + EffectiveSize(asked) /\ built[i] = a..b
  BY <1>5, <1>7, Zenon
<1>9. built[i] \in SUBSET (1..Len(batch))
  BY <1>4, <1>8
<1>10. QED
  BY <1>2, <1>3, <1>6, <1>8, <1>9

\* The chunks hold every numeric metric once, no other, and go up in time.
LEMMA CompleteHolds == ChunkInv => Complete
<1> SUFFICES ASSUME ChunkInv, outcome = "ok" PROVE Complete
  BY DEF Complete
<1> DEFINE n == Len(batch)
           ids(i) == Included(batch, sorted, built[i])
<1>1. n \in Nat /\ DOMAIN batch = 1..n /\ ChunkTypes
  BY BatchTypes DEF ChunkInv
<1>2. sorted \in Sortings
  BY DEF ChunkInv, ChunkTypes
<1>3. /\ sorted \in [1..n -> 1..n] /\ IsInjective(sorted)
      /\ \A m \in 1..n : \E p \in 1..n : sorted[p] = m
  BY <1>1, <1>2, SortedIsOrder
<1>4. Front - 1 = n
  BY <1>1 DEF Front
<1>5. DOMAIN built = 1..Len(built)
  <2>1. built \in Seq(SUBSET Nat)
    BY <1>1 DEF ChunkTypes
  <2>2. QED
    BY <2>1
<1>6. UNION {ids(i) : i \in DOMAIN built} = {m \in DOMAIN batch : batch[m].numeric}
  <2>1. ASSUME NEW i \in DOMAIN built, NEW m \in ids(i)
        PROVE  m \in DOMAIN batch /\ batch[m].numeric
    <3>1. built[i] \in SUBSET (1..n)
      BY OfAChunk
    <3>2. PICK p \in built[i] : m = sorted[p] /\ batch[sorted[p]].numeric
      BY <2>1, IDs
    <3>3. QED
      BY <1>1, <1>3, <3>1, <3>2
  <2>2. ASSUME NEW m \in DOMAIN batch, batch[m].numeric
        PROVE  \E i \in DOMAIN built : m \in ids(i)
    <3>1. PICK p \in 1..n : sorted[p] = m
      BY <1>1, <1>3
    <3>2. PICK i \in 1..Len(built) : p \in built[i]
      BY <1>4, <2>2, <3>1 DEF ChunkInv, ChunksInPlace
    <3>3. m \in ids(i)
      BY <2>2, <3>1, <3>2, IDs
    <3>4. QED
      BY <1>5, <3>3
  <2> HIDE DEF ids
  <2>3. QED
    BY <2>1, <2>2
<1>7. ASSUME NEW i \in DOMAIN built, NEW j \in DOMAIN built, i < j,
             NEW x \in ids(i), NEW y \in ids(j)
      PROVE  x # y /\ batch[x].time <= batch[y].time
  <2>1. built[i] \in SUBSET (1..n) /\ built[j] \in SUBSET (1..n)
    BY OfAChunk
  <2>2. PICK p \in built[i] : x = sorted[p]
    BY <1>7, IDs
  <2>3. PICK q \in built[j] : y = sorted[q]
    BY <1>7, IDs
  <2>4. p < q
    BY <1>5, <1>7 DEF ChunkInv, ChunksInPlace
  <2>5. p \in DOMAIN sorted /\ q \in DOMAIN sorted /\ p # q
    BY <1>3, <2>1, <2>4
  <2>6. x # y
    BY <1>3, <2>2, <2>3, <2>5 DEF IsInjective
  <2>7. batch[sorted[p]].time <= batch[sorted[q]].time
    BY <1>2, <2>4, <2>5 DEF Sortings, InOrder
  <2>8. QED
    BY <2>2, <2>3, <2>6, <2>7
<1>8. \A i \in DOMAIN built : IncludedIDs(built[i]) = ids(i)
  BY Operators
<1> HIDE DEF ids
<1>9. UNION {IncludedIDs(built[i]) : i \in DOMAIN built} = {m \in DOMAIN batch : batch[m].numeric}
  BY <1>6, <1>8
<1>10. QED
  BY <1>7, <1>8, <1>9 DEF Complete

\* No chunk is empty, over the size asked for or over the limit.
LEMMA LimitsHold == ChunkInv => WithinLimits
<1> SUFFICES ASSUME ChunkInv, NEW i \in DOMAIN built
             PROVE  /\ Cardinality(IncludedIDs(built[i])) \in 1..EffectiveSize(asked)
                    /\ CompressedSize(batch, IncludedIDs(built[i])) <= Limit
  BY DEF WithinLimits
<1>1. IncludedIDs(built[i]) = Included(batch, sorted, built[i])
  BY Operators
<1>2. Included(batch, sorted, built[i]) # {}
      /\ CompressedSize(batch, Included(batch, sorted, built[i])) <= Limit
  BY OfAChunk DEF Sendable
<1>3. EffectiveSize(asked) \in Nat
  BY BatchTypes DEF ChunkInv
<1>4. PICK a \in 1..Len(batch), b \in 1..Len(batch) :
        a <= b /\ b < a + EffectiveSize(asked) /\ built[i] = a..b
  BY OfAChunk
<1>5. IsFiniteSet(built[i]) /\ Cardinality(built[i]) = b - a + 1
  BY <1>4, FS_Interval
<1> DEFINE numeric == {q \in built[i] : batch[sorted[q]].numeric}
           ids == {sorted[p] : p \in numeric}
<1>6. IsFiniteSet(numeric) /\ Cardinality(numeric) <= Cardinality(built[i])
  BY <1>5, FS_Subset, numeric \in SUBSET built[i], Zenon
<1>7. IsFiniteSet(ids) /\ Cardinality(ids) <= Cardinality(numeric)
  <2> DEFINE f == [p \in numeric |-> sorted[p]]
  <2>1. f \in Surjection(numeric, ids)
    BY DEF Surjection
  <2>2. QED
    BY <1>6, <2>1, FS_Surjection
<1>8. Cardinality(ids) \in Nat /\ Cardinality(numeric) \in Nat /\ Cardinality(ids) # 0
  <2>1. ids # {}
    BY <1>2 DEF Included
  <2> HIDE DEF ids, numeric
  <2>2. QED
    BY <1>6, <1>7, <2>1, FS_CardinalityType, FS_EmptySet
<1>9. ids = Included(batch, sorted, built[i])
  BY DEF Included
<1> HIDE DEF ids, numeric
<1>10. Cardinality(ids) \in 1..EffectiveSize(asked)
  BY <1>3, <1>4, <1>5, <1>6, <1>7, <1>8
<1>11. QED
  BY <1>1, <1>2, <1>9, <1>10

\* The call fails for a metric over the limit, and only then.
LEMMA FailureHolds == ChunkInv => FailsOnlyForGiant
<1> SUFFICES ASSUME ChunkInv PROVE FailsOnlyForGiant
  OBVIOUS
<1>1. ASSUME outcome = "ok", PartsFit, NEW m \in DOMAIN batch, Giant(m)
      PROVE  FALSE
  <2>1. DOMAIN batch = 1..Len(batch) /\ Len(batch) \in Nat /\ ChunkTypes
    BY BatchTypes DEF ChunkInv
  <2>2. sorted \in Sortings
    BY <1>1 DEF ChunkInv, ChunkTypes
  <2>3. PICK p \in 1..Len(batch) : sorted[p] = m
    BY <2>1, <2>2, SortedIsOrder
  <2>4. Front - 1 = Len(batch)
    BY <1>1, <2>1 DEF Front
  <2>5. PICK i \in 1..Len(built) : p \in built[i]
    BY <1>1, <2>3, <2>4 DEF ChunkInv, ChunksInPlace, Giant
  <2>6. DOMAIN built = 1..Len(built)
    <3>1. built \in Seq(SUBSET Nat)
      BY <2>1 DEF ChunkTypes
    <3>2. QED
      BY <3>1
  <2>7. /\ built[i] \in SUBSET (1..Len(batch))
        /\ CompressedSize(batch, Included(batch, sorted, built[i])) <= Limit
    BY <2>6, OfAChunk DEF Sendable
  <2>8. Included(batch, sorted, built[i]) \in SUBSET DOMAIN batch
    BY <2>1, <2>2, <2>7, IncludedInBatch
  <2>9. {m} \in SUBSET Included(batch, sorted, built[i])
    BY <1>1, <2>3, <2>5, IDs DEF Giant
  <2>10. CompressedSize(batch, {m}) <= Limit
    BY <1>1, <2>7, <2>8, <2>9 DEF PartsFit
  <2>11. CompressedSize(batch, {m}) \in Nat /\ Limit \in Nat
    BY <1>1, <2>1, Bytes
  <2>12. QED
    BY <1>1, <2>10, <2>11 DEF Giant
<1>2. QED
  BY <1>1 DEF FailsOnlyForGiant, ChunkInv, FailedOnGiant

\* A run of the size asked for that fits is a chunk.
LEMMA WholeHolds == ChunkInv => WholeRuns
<1> SUFFICES ASSUME ChunkInv, outcome = "ok", NEW k \in 0..Len(batch),
                    IncludedIDs(FirstRun(k)) # {},
                    CompressedSize(batch, IncludedIDs(FirstRun(k))) <= Limit
             PROVE  FirstRun(k) \in Range(built)
  BY DEF WholeRuns
<1> DEFINE n == Len(batch)
           e == EffectiveSize(asked)
           run == GridRun(k, n, e)
<1>1. n \in Nat /\ e \in Nat \ {0} /\ k \in Nat
  BY BatchTypes DEF ChunkInv
<1>2. FirstRun(k) = run /\ Sendable(batch, sorted, run)
  BY Operators DEF Fits
<1>3. GridStart(k, e) < n + 1
  <2> SUFFICES ASSUME ~ (GridStart(k, e) < n + 1) PROVE FALSE
    OBVIOUS
  <2>1. GridStart(k, e) \in Nat \ {0}
    BY <1>1, GridOrder
  <2>2. GridEnd(k, n, e) = n
    BY <1>1, <2>1 DEF GridEnd, End, Loop
  <2>3. run = {}
    BY <1>1, <2>1, <2>2 DEF GridRun
  <2>4. Included(batch, sorted, {}) = {}
    BY DEF Included
  <2>5. QED
    BY <1>2, <2>3, <2>4 DEF Sendable
<1>4. Passed = n + 1
  BY DEF Passed
<1>5. PICK i \in 1..Len(built) : built[i] = run
  BY <1>1, <1>2, <1>3, <1>4 DEF ChunkInv, SentWhole
<1>6. DOMAIN built = 1..Len(built)
  <2>1. built \in Seq(SUBSET Nat)
    BY DEF ChunkInv, ChunkTypes
  <2>2. QED
    BY <2>1
<1>7. QED
  BY <1>2, <1>5, <1>6 DEF Range

\* However often runs are cut again, the chunks of a batch hold each of its
\* numeric metrics once and no string metric, and go up in time.
THEOREM ChunksAreComplete == BuildSpec => []Complete
<1>1. QED
  BY ChunkInvariance, CompleteHolds, PTL

\* No chunk is empty, over the number of metrics asked for or over the byte
\* limit, for any compressor.
THEOREM ChunksAreWithinLimits == BuildSpec => []WithinLimits
<1>1. QED
  BY ChunkInvariance, LimitsHold, PTL

\* BuildChunks fails exactly for a metric that alone is over the limit, if more
\* input never compresses to less; and it fails for nothing else in any case.
THEOREM FailureMeansGiant == BuildSpec => []FailsOnlyForGiant
<1>1. QED
  BY ChunkInvariance, FailureHolds, PTL

\* A run of the size asked for that fits is sent as it is, whatever the runs
\* around it need.
THEOREM FittingRunsStayWhole == BuildSpec => []WholeRuns
<1>1. QED
  BY ChunkInvariance, WholeHolds, PTL
=============================================================================
