-------------------------- MODULE RateLimiterProofs --------------------------
(***************************************************************************)
(* The limiter keeps its bounds for every window, limit, set of requests   *)
(* and phase of the garbage collection.                                    *)
(*                                                                         *)
(* SlidingBound is not inductive: that 2*limit + 1 admissions in a row     *)
(* span a window follows from what each window holds.  WindowInv says that *)
(* of the log of a bucket: limit + 1 admissions in a row belong to two     *)
(* windows, and the bucket counts the last ones of the log, which all      *)
(* belong to its window, while the others belong to windows that were over *)
(* before it began.  A bucket that is gone, or replaced, is over itself:   *)
(* that makes the garbage collection invisible.                            *)
(***************************************************************************)
EXTENDS RateLimiter, TLAPS

Entry == [at : Nat, start : Int]

Bucket == [count : Nat, resetAt : Nat]

(* The entries of log l: in their windows, which do not overlap, at most
   limit to a window. *)
LogInv(l, limit) ==
    /\ \A k \in 1 .. Len(l) :
          /\ l[k].start <= l[k].at /\ l[k].at < l[k].start + Window
          /\ l[k].at <= now
    /\ \A k \in 1 .. Len(l) :
          k + limit <= Len(l) => l[k + limit].start >= l[k].start + Window

(* The bucket k, as the log l has it. *)
BucketInv(k, l, limit) ==
    /\ k.count <= limit /\ k.count <= Len(l)
    /\ k.resetAt <= now + Window
    /\ gcAt <= k.resetAt + GcPeriod
    /\ \A j \in 1 .. Len(l) :
          IF j > Len(l) - k.count
          THEN l[j].start = k.resetAt - Window
          ELSE l[j].start + Window <= k.resetAt - Window

(* All windows of the log l are over. *)
Over(l) == \A j \in 1 .. Len(l) : l[j].start + Window <= now

WindowInv(b) ==
    LimitOf(b) > 0 =>
        /\ LogInv(log[b], LimitOf(b))
        /\ IF bucket[b] = None THEN Over(log[b])
           ELSE BucketInv(bucket[b], log[b], LimitOf(b))

(* Where there is no limit nothing is booked. *)
Unlimited(b) == LimitOf(b) <= 0 => log[b] = <<>> /\ bucket[b] = None

IInv ==
    /\ TypeOK
    /\ now <= gcAt /\ gcAt <= now + GcPeriod
    /\ \A b \in Buckets : WindowInv(b) /\ Unlimited(b)
    /\ DenialJustified

-----------------------------------------------------------------------------
(* Every bucket has a name that has a limit. *)
LEMMA BucketLimit ==
  ASSUME NEW b \in Buckets
  PROVE  b[1] \in Kinds /\ LimitOf(b) \in Int
  BY LimiterAssumption DEF Buckets, ChooseRateLimit, Kinds, LimitOf

LEMMA AuthStatus ==
  ASSUME NEW q \in Requests
  PROVE  Auth(q) \in {200, 401, 503}
  BY DEF Auth

(* The bucket that check() works with has a window that is not over, and the
   log as BucketInv says, be it the stored one or a new one. *)
LEMMA CurrentBucket ==
  ASSUME IInv, NEW b \in Buckets, LimitOf(b) > 0
  PROVE  /\ Current(b) \in Bucket
         /\ Current(b).resetAt > now
         /\ BucketInv(Current(b), log[b], LimitOf(b))
         /\ LogInv(log[b], LimitOf(b))
<1> DEFINE l == log[b]
<1>1. now \in Nat /\ gcAt \in Nat /\ Window \in Nat \ {0} /\ GcPeriod \in Nat \ {0}
  BY LimiterAssumption DEF IInv, TypeOK
<1>2. l \in Seq(Entry) /\ Len(l) \in Nat
  BY DEF IInv, TypeOK, Entry
<1>3. \A j \in 1 .. Len(l) : l[j] \in Entry
  BY <1>2
<1>4. bucket[b] \in Bucket \union {None} /\ LimitOf(b) \in Int
  BY BucketLimit DEF IInv, TypeOK, Bucket
<1>5. WindowInv(b) /\ gcAt <= now + GcPeriod
  BY DEF IInv
<1>6. LogInv(l, LimitOf(b))
  BY <1>5 DEF WindowInv
<1>7. CASE bucket[b] # None /\ ~Expired(bucket[b])
  <2>1. Current(b) = bucket[b] /\ bucket[b].resetAt > now
    BY <1>1, <1>4, <1>7 DEF Current, Expired, Bucket
  <2>2. QED
    BY <2>1, <1>4, <1>5, <1>6, <1>7 DEF WindowInv
<1>8. CASE ~(bucket[b] # None /\ ~Expired(bucket[b]))
  <2>1. Current(b) = [count |-> 0, resetAt |-> now + Window]
    BY <1>8 DEF Current
  <2>2. Over(l)
    <3>1. CASE bucket[b] = None
      BY <3>1, <1>5 DEF WindowInv
    <3>2. CASE bucket[b] # None
      <4>1. BucketInv(bucket[b], l, LimitOf(b)) /\ bucket[b] \in Bucket
        BY <3>2, <1>4, <1>5 DEF WindowInv
      <4>2. bucket[b].resetAt <= now
        BY <3>2, <1>8 DEF Expired
      <4>3. ASSUME NEW j \in 1 .. Len(l)
            PROVE  l[j].start + Window <= now
        <5>1. l[j].start \in Int
          BY <1>3 DEF Entry
        <5>2. \/ l[j].start = bucket[b].resetAt - Window
              \/ l[j].start + Window <= bucket[b].resetAt - Window
          BY <4>1 DEF BucketInv
        <5>3. QED
          BY <5>1, <5>2, <4>1, <4>2, <1>1 DEF Bucket
      <4>4. QED
        BY <4>3 DEF Over
    <3>3. QED
      BY <3>1, <3>2
  <2>3. BucketInv([count |-> 0, resetAt |-> now + Window], l, LimitOf(b))
    <3>1. ASSUME NEW j \in 1 .. Len(l)
          PROVE  l[j].start + Window <= now + Window - Window /\ ~(j > Len(l) - 0)
      BY <2>2, <1>1, <1>2 DEF Over
    <3>2. QED
      BY <3>1, <1>1, <1>2, <1>4, <1>5 DEF BucketInv
  <2>4. QED
    BY <2>1, <2>3, <1>1, <1>6 DEF Bucket
<1>9. QED
  BY <1>7, <1>8

(* One more admission, in the window of bucket k. *)
LEMMA AppendLog ==
  ASSUME NEW l \in Seq(Entry), NEW limit \in Nat \ {0}, NEW k \in Bucket,
         now \in Nat, gcAt \in Nat, LogInv(l, limit), BucketInv(k, l, limit),
         k.resetAt > now, k.count < limit,
         NEW m, m = Append(l, [at |-> now, start |-> k.resetAt - Window])
  PROVE  /\ m \in Seq(Entry)
         /\ LogInv(m, limit)
         /\ BucketInv([count |-> k.count + 1, resetAt |-> k.resetAt], m, limit)
<1> DEFINE e == [at |-> now, start |-> k.resetAt - Window]
<1>1. Window \in Nat \ {0} /\ k.count \in Nat /\ k.resetAt \in Nat /\ GcPeriod \in Nat
  BY LimiterAssumption DEF Bucket
<1>2. e \in Entry
  BY <1>1 DEF Entry
<1>3. /\ Len(l) \in Nat /\ Len(m) = Len(l) + 1 /\ m[Len(l) + 1] = e /\ m \in Seq(Entry)
      /\ \A j \in 1 .. Len(l) : m[j] = l[j] /\ l[j] \in Entry
  BY <1>2
<1>4. k.count <= Len(l) /\ k.resetAt <= now + Window /\ gcAt <= k.resetAt + GcPeriod
  BY DEF BucketInv
<1>5. ASSUME NEW j \in 1 .. Len(l)
      PROVE  /\ m[j].start \in Int /\ m[j].at \in Nat
             /\ m[j].start <= m[j].at /\ m[j].at < m[j].start + Window /\ m[j].at <= now
             /\ j + limit <= Len(l) => m[j + limit].start >= m[j].start + Window
             /\ IF j > Len(l) - k.count
                THEN m[j].start = k.resetAt - Window
                ELSE m[j].start + Window <= k.resetAt - Window
  <2>1. m[j] = l[j] /\ l[j] \in Entry
    BY <1>3
  <2>2. j + limit <= Len(l) => m[j + limit] = l[j + limit]
    BY <1>3
  <2>3. QED
    BY <2>1, <2>2 DEF LogInv, BucketInv, Entry
<1>6. m[Len(l) + 1].at = now /\ m[Len(l) + 1].start = k.resetAt - Window
  BY <1>3
<1>7. LogInv(m, limit)
  <2>1. ASSUME NEW j \in 1 .. Len(m)
        PROVE  m[j].start <= m[j].at /\ m[j].at < m[j].start + Window /\ m[j].at <= now
    <3>1. CASE j \in 1 .. Len(l)
      BY <3>1, <1>5
    <3>2. CASE j = Len(l) + 1
      BY <3>2, <1>1, <1>4, <1>6
    <3>3. QED
      BY <3>1, <3>2, <1>3
  <2>2. ASSUME NEW j \in 1 .. Len(m), j + limit <= Len(m)
        PROVE  m[j + limit].start >= m[j].start + Window
    <3>1. j \in 1 .. Len(l)
      BY <2>2, <1>3
    <3>2. CASE j + limit <= Len(l)
      BY <3>1, <3>2, <1>5
    <3>3. CASE j + limit = Len(l) + 1
      <4>1. ~(j > Len(l) - k.count)
        BY <3>1, <3>3, <1>1, <1>3
      <4>2. m[j].start + Window <= k.resetAt - Window
        BY <3>1, <4>1, <1>5
      <4>3. m[j + limit].start = k.resetAt - Window
        BY <3>3, <1>6
      <4>4. QED
        BY <3>1, <4>2, <4>3, <1>1, <1>5
    <3>4. j + limit <= Len(l) \/ j + limit = Len(l) + 1
      <4>1. Len(l) \in Nat /\ Len(m) = Len(l) + 1 /\ j \in Nat
        BY <1>3, <3>1
      <4>2. j + limit <= Len(l) + 1
        BY <4>1, <2>2
      <4>3. QED
        BY <4>1, <4>2
    <3>5. QED
      BY <3>2, <3>3, <3>4
  <2>3. QED
    BY <2>1, <2>2 DEF LogInv
<1>8. ASSUME NEW j \in 1 .. Len(m)
      PROVE  IF j > Len(m) - (k.count + 1)
             THEN m[j].start = k.resetAt - Window
             ELSE m[j].start + Window <= k.resetAt - Window
  <2>1. CASE j \in 1 .. Len(l)
    BY <2>1, <1>1, <1>3, <1>5
  <2>2. CASE j = Len(l) + 1
    BY <2>2, <1>1, <1>3, <1>6
  <2>3. QED
    BY <2>1, <2>2, <1>3
<1>9. BucketInv([count |-> k.count + 1, resetAt |-> k.resetAt], m, limit)
  BY <1>1, <1>3, <1>4, <1>8 DEF BucketInv
<1>10. QED
  BY <1>3, <1>7, <1>9

-----------------------------------------------------------------------------
(* A bucket that a step leaves alone. *)
LEMMA KeepsBucket ==
  ASSUME NEW b \in Buckets, WindowInv(b) /\ Unlimited(b),
         bucket'[b] = bucket[b], log'[b] = log[b], now' = now, gcAt' = gcAt
  PROVE  WindowInv(b)' /\ Unlimited(b)'
  BY DEF WindowInv, Unlimited, LogInv, BucketInv, Over, LimitOf

LEMMA InitInv == Init => IInv
<1> SUFFICES ASSUME Init PROVE IInv
  OBVIOUS
<1>1. TypeOK
  BY LimiterAssumption DEF Init, TypeOK, NoAnswer
<1>2. now <= gcAt /\ gcAt <= now + GcPeriod
  BY LimiterAssumption DEF Init
<1>3. ASSUME NEW b \in Buckets PROVE WindowInv(b) /\ Unlimited(b)
  BY DEF Init, WindowInv, Unlimited, LogInv, Over
<1>4. DenialJustified
  BY DEF Init, DenialJustified, NoAnswer
<1>5. QED
  BY <1>1, <1>2, <1>3, <1>4 DEF IInv

(* A request that books nothing. *)
LEMMA PassStep ==
  ASSUME IInv, NEW st \in {200, 401, 503}, Pass(st), now' = now, gcAt' = gcAt
  PROVE  IInv'
<1>1. TypeOK'
  BY DEF IInv, TypeOK, Pass
<1>2. ASSUME NEW b \in Buckets PROVE WindowInv(b)' /\ Unlimited(b)'
  BY KeepsBucket DEF IInv, Pass
<1>3. DenialJustified'
  BY DEF Pass, DenialJustified
<1>4. QED
  BY <1>1, <1>2, <1>3 DEF IInv

LEMMA AdmitStep ==
  ASSUME IInv, NEW b \in Buckets, LimitOf(b) > 0, Admit(b), now' = now, gcAt' = gcAt
  PROVE  IInv'
<1> DEFINE k == Current(b)
           e == [at |-> now, start |-> k.resetAt - Window]
           n == [count |-> k.count + 1, resetAt |-> k.resetAt]
<1>1. /\ k \in Bucket /\ k.resetAt > now
      /\ BucketInv(k, log[b], LimitOf(b)) /\ LogInv(log[b], LimitOf(b))
  BY CurrentBucket
<1>2. LimitOf(b) \in Nat \ {0} /\ k.count < LimitOf(b)
  BY <1>1, BucketLimit DEF Admit, Full, Bucket
<1>3. /\ log[b] \in Seq(Entry) /\ log \in [Buckets -> Seq(Entry)]
      /\ now \in Nat /\ gcAt \in Nat
      /\ bucket \in [Buckets -> Bucket \union {None}]
  BY DEF IInv, TypeOK, Entry, Bucket
<1>4. /\ bucket' = [bucket EXCEPT ![b] = n]
      /\ log' = [log EXCEPT ![b] = Append(log[b], e)]
      /\ answer' = [status |-> 200, to |-> b] /\ drops' = drops
  BY DEF Admit
<1> HIDE DEF k
<1>5. log'[b] = Append(log[b], e) /\ bucket'[b] = n
  BY <1>3, <1>4
<1>6. /\ log'[b] \in Seq(Entry)
      /\ LogInv(log'[b], LimitOf(b)) /\ BucketInv(n, log'[b], LimitOf(b))
  BY <1>1, <1>2, <1>3, <1>5, AppendLog
<1>7. n \in Bucket /\ n # None
  BY <1>1, LimiterAssumption DEF Bucket
<1>8. bucket' \in [Buckets -> Bucket \union {None}]
  BY <1>3, <1>4, <1>7
<1>9. log' \in [Buckets -> Seq(Entry)]
  BY <1>3, <1>4, <1>5, <1>6
<1>10. TypeOK'
  <2>1. answer' \in [status : {0, 200, 401, 429, 503}, to : Buckets \union {None}]
    BY <1>4
  <2>2. QED
    BY <1>4, <1>8, <1>9, <2>1 DEF IInv, TypeOK, Entry, Bucket
<1>11. ASSUME NEW c \in Buckets PROVE WindowInv(c)' /\ Unlimited(c)'
  <2>1. CASE c = b
    <3>1. Unlimited(b)'
      BY <1>2 DEF Unlimited, LimitOf
    <3>2. LogInv(log[b], LimitOf(b))'
      BY <1>6 DEF LogInv, LimitOf
    <3>3. BucketInv(n, log'[b], LimitOf(b)) => BucketInv(bucket[b], log[b], LimitOf(b))'
      BY <1>5 DEF BucketInv, LimitOf
    <3>4. bucket'[b] # None
      BY <1>5, <1>7
    <3>5. WindowInv(b)'
      BY <3>2, <3>3, <3>4, <1>6 DEF WindowInv
    <3>6. QED
      BY <2>1, <3>1, <3>5
  <2>2. CASE c # b
    <3>1. bucket'[c] = bucket[c] /\ log'[c] = log[c]
      BY <2>2, <1>3, <1>4
    <3>2. QED
      BY <3>1, KeepsBucket DEF IInv
  <2>3. QED
    BY <2>1, <2>2
<1>12. DenialJustified'
  BY <1>4 DEF DenialJustified
<1>13. QED
  BY <1>10, <1>11, <1>12 DEF IInv

LEMMA DenyStep ==
  ASSUME IInv, NEW b \in Buckets, LimitOf(b) > 0, Deny(b), now' = now, gcAt' = gcAt
  PROVE  IInv'
<1> DEFINE k == Current(b)
           limit == LimitOf(b)
<1>1. /\ k \in Bucket /\ k.resetAt > now
      /\ BucketInv(k, log[b], limit) /\ LogInv(log[b], limit)
  BY CurrentBucket
<1>2. limit \in Nat \ {0} /\ k.count >= limit /\ b[1] \in Kinds
  BY BucketLimit DEF Deny, Full
<1>3. /\ log[b] \in Seq(Entry) /\ log \in [Buckets -> Seq(Entry)]
      /\ now \in Nat /\ gcAt \in Nat /\ Window \in Nat
      /\ bucket \in [Buckets -> Bucket \union {None}]
  BY LimiterAssumption DEF IInv, TypeOK, Entry, Bucket
<1>4. /\ bucket' = [bucket EXCEPT ![b] = k] /\ log' = log
      /\ answer' = [status |-> 429, to |-> b]
      /\ drops' = [drops EXCEPT ![b[1]] = drops[b[1]] + 1]
  BY DEF Deny
<1> HIDE DEF k
<1>5. k # None
  BY <1>1, LimiterAssumption DEF Bucket
<1>6. TypeOK'
  <2>1. bucket' \in [Buckets -> Bucket \union {None}]
    BY <1>1, <1>3, <1>4
  <2>2. drops' \in [Kinds -> Nat]
    BY <1>2, <1>4 DEF IInv, TypeOK
  <2>3. answer' \in [status : {0, 200, 401, 429, 503}, to : Buckets \union {None}]
    BY <1>4
  <2>4. QED
    BY <1>4, <2>1, <2>2, <2>3 DEF IInv, TypeOK, Bucket
<1>7. ASSUME NEW c \in Buckets PROVE WindowInv(c)' /\ Unlimited(c)'
  <2>1. CASE c = b
    <3>1. bucket'[b] = k /\ log'[b] = log[b]
      BY <1>3, <1>4
    <3>2. LogInv(log[b], limit)' /\ BucketInv(bucket[b], log[b], limit)'
      BY <3>1, <1>1 DEF LogInv, BucketInv, LimitOf
    <3>3. Unlimited(b)'
      BY <1>2 DEF Unlimited, LimitOf
    <3>4. QED
      BY <2>1, <3>1, <3>2, <3>3, <1>5 DEF WindowInv
  <2>2. CASE c # b
    <3>1. bucket'[c] = bucket[c] /\ log'[c] = log[c]
      BY <2>2, <1>3, <1>4
    <3>2. QED
      BY <3>1, KeepsBucket DEF IInv
  <2>3. QED
    BY <2>1, <2>2
<1>8. DenialJustified'
  <2> DEFINE l == log[b]
             first == Len(l) - limit + 1
  <2>1. answer'.to = b /\ log'[b] = l
    BY <1>4
  <2>2. Len(l) \in Nat /\ \A j \in 1 .. Len(l) : l[j] \in Entry
    BY <1>3
  <2>3. k.count = limit /\ limit <= Len(l)
    BY <1>1, <1>2 DEF BucketInv, Bucket
  <2>4. ASSUME NEW j \in first .. Len(l) PROVE l[j].at > now - Window
    <3>1. j \in 1 .. Len(l) /\ j > Len(l) - k.count
      BY <2>2, <2>3, <1>2
    <3>2. l[j].start = k.resetAt - Window /\ l[j].start <= l[j].at
      BY <3>1, <1>1 DEF BucketInv, LogInv
    <3>3. l[j] \in Entry
      BY <3>1, <2>2
    <3>4. QED
      BY <3>2, <3>3, <1>1, <1>3 DEF Entry, Bucket
  <2>5. first >= 1
    BY <2>2, <2>3, <1>2
  <2>6. LimitOf(b)' = limit
    BY DEF LimitOf
  <2>7. QED
    BY <2>1, <2>4, <2>5, <2>6 DEF DenialJustified
<1>9. QED
  BY <1>6, <1>7, <1>8 DEF IInv

(* Only buckets whose window is over are forgotten. *)
LEMMA GcStep ==
  ASSUME IInv, Gc
  PROVE  IInv'
<1>1. /\ now \in Nat /\ now' = now /\ gcAt' = now + GcPeriod /\ gcAt = now
      /\ GcPeriod \in Nat /\ Window \in Nat
      /\ log' = log /\ drops' = drops /\ answer' = answer
      /\ log \in [Buckets -> Seq(Entry)]
      /\ bucket \in [Buckets -> Bucket \union {None}]
  BY LimiterAssumption DEF Gc, IInv, TypeOK, Bucket, Entry
<1>2. bucket' = [b \in Buckets |->
          IF bucket[b] # None /\ Stale(bucket[b]) THEN None ELSE bucket[b]]
  BY DEF Gc
<1>3. TypeOK'
  <2>1. bucket' \in [Buckets -> Bucket \union {None}]
    BY <1>1, <1>2
  <2>2. QED
    BY <1>1, <2>1 DEF IInv, TypeOK, Bucket
<1>4. ASSUME NEW b \in Buckets PROVE WindowInv(b)' /\ Unlimited(b)'
  <2> DEFINE l == log[b]
  <2>1. WindowInv(b) /\ Unlimited(b) /\ bucket[b] \in Bucket \union {None}
    BY <1>1 DEF IInv
  <2>2. Unlimited(b)' /\ LimitOf(b)' = LimitOf(b) /\ log'[b] = l
    BY <1>1, <1>2, <2>1 DEF Unlimited, LimitOf
  <2>3. LimitOf(b) > 0 => LogInv(l, LimitOf(b))'
    BY <1>1, <2>1, <2>2 DEF WindowInv, LogInv
  <2>4. CASE bucket[b] = None
    <3>1. bucket'[b] = None
      BY <1>2, <2>4
    <3>2. QED
      BY <1>1, <2>1, <2>2, <2>3, <2>4, <3>1 DEF WindowInv, Over
  <2>5. CASE bucket[b] # None /\ Stale(bucket[b])
    <3>1. bucket'[b] = None
      BY <1>2, <2>5
    <3>2. LimitOf(b) > 0 => Over(l)
      <4>1. SUFFICES ASSUME LimitOf(b) > 0, NEW j \in 1 .. Len(l)
                     PROVE  l[j].start + Window <= now
        BY DEF Over
      <4>2. BucketInv(bucket[b], l, LimitOf(b)) /\ bucket[b].resetAt <= now
        BY <4>1, <2>1, <2>5 DEF WindowInv, Stale
      <4>3. l[j] \in Entry
        BY <1>1
      <4>4. bucket[b] \in Bucket
        BY <2>1, <2>5
      <4>5. \/ l[j].start = bucket[b].resetAt - Window
            \/ l[j].start + Window <= bucket[b].resetAt - Window
        BY <4>2 DEF BucketInv
      <4>6. QED
        BY <1>1, <4>2, <4>3, <4>4, <4>5 DEF Entry, Bucket
    <3>3. QED
      BY <1>1, <2>2, <2>3, <3>1, <3>2 DEF WindowInv, Over
  <2>6. CASE bucket[b] # None /\ ~Stale(bucket[b])
    <3>1. bucket'[b] = bucket[b] /\ bucket[b] \in Bucket /\ bucket[b].resetAt > now
      BY <1>1, <1>2, <2>1, <2>6 DEF Stale, Bucket
    <3>2. LimitOf(b) > 0 => BucketInv(bucket[b], l, LimitOf(b))
      BY <2>1, <2>6 DEF WindowInv
    <3>3. LimitOf(b) > 0 => BucketInv(bucket[b], l, LimitOf(b))'
      BY <1>1, <2>2, <3>1, <3>2 DEF BucketInv, Bucket
    <3>4. QED
      BY <2>2, <2>3, <2>6, <3>1, <3>3 DEF WindowInv
  <2>7. QED
    BY <2>4, <2>5, <2>6
<1>5. DenialJustified'
  BY <1>1 DEF IInv, DenialJustified, LimitOf
<1>6. QED
  BY <1>1, <1>3, <1>4, <1>5 DEF IInv

LEMMA TickStep ==
  ASSUME IInv, Tick
  PROVE  IInv'
<1>1. /\ now \in Nat /\ now' = now + 1 /\ now < gcAt /\ gcAt' = gcAt /\ gcAt \in Nat
      /\ GcPeriod \in Nat /\ Window \in Nat
      /\ bucket' = bucket /\ log' = log /\ drops' = drops /\ answer' = NoAnswer
      /\ log \in [Buckets -> Seq(Entry)]
      /\ bucket \in [Buckets -> Bucket \union {None}]
  BY LimiterAssumption DEF Tick, IInv, TypeOK, Bucket, Entry
<1>2. TypeOK'
  <2>1. now' \in 0 .. MaxTime
    BY <1>1, LimiterAssumption DEF Tick, IInv, TypeOK
  <2>2. QED
    BY <1>1, <2>1 DEF IInv, TypeOK, NoAnswer
<1>3. ASSUME NEW b \in Buckets PROVE WindowInv(b)' /\ Unlimited(b)'
  <2> DEFINE l == log[b]
  <2>1. WindowInv(b) /\ Unlimited(b)
    BY DEF IInv
  <2>2. \A j \in 1 .. Len(l) : l[j] \in Entry
    BY <1>1
  <2>3. LogInv(l, LimitOf(b)) => LogInv(l, LimitOf(b))'
    <3>1. \A j \in 1 .. Len(l) : l[j].at <= now => l[j].at <= now'
      BY <1>1, <2>2 DEF Entry
    <3>2. l' = l /\ LimitOf(b)' = LimitOf(b)
      BY <1>1 DEF LimitOf
    <3>3. QED
      BY <3>1, <3>2 DEF LogInv
  <2>4. Over(l) => Over(l)'
    BY <1>1, <2>2 DEF Over, Entry
  <2>5. bucket[b] \in Bucket /\ BucketInv(bucket[b], l, LimitOf(b))
          => BucketInv(bucket[b], l, LimitOf(b))'
    BY <1>1 DEF BucketInv, LimitOf, Bucket
  <2>6. bucket[b] # None => bucket[b] \in Bucket
    BY <1>1
  <2>7. LimitOf(b)' = LimitOf(b)
    BY DEF LimitOf
  <2>8. QED
    BY <1>1, <2>1, <2>3, <2>4, <2>5, <2>6, <2>7 DEF WindowInv, Unlimited
<1>4. DenialJustified'
  BY <1>1 DEF DenialJustified, NoAnswer
<1>5. now' <= gcAt' /\ gcAt' <= now' + GcPeriod
  BY <1>1 DEF IInv
<1>6. QED
  BY <1>2, <1>3, <1>4, <1>5 DEF IInv

LEMMA StepInv == IInv /\ [Next]_vars => IInv'
<1> SUFFICES ASSUME IInv, [Next]_vars PROVE IInv'
  OBVIOUS
<1>1. ASSUME NEW q \in Requests, Middleware(q) PROVE IInv'
  <2> DEFINE b == ChooseRateLimit(q)
  <2>1. b \in Buckets /\ now' = now /\ gcAt' = gcAt
    BY <1>1 DEF Buckets, Middleware
  <2>2. CASE \E st \in {200, 401, 503} : Pass(st)
    BY <2>1, <2>2, PassStep
  <2>3. CASE LimitOf(b) > 0 /\ Admit(b)
    BY <2>1, <2>3, AdmitStep
  <2>4. CASE LimitOf(b) > 0 /\ Deny(b)
    BY <2>1, <2>4, DenyStep
  <2>5. QED
    BY <1>1, <2>2, <2>3, <2>4, AuthStatus DEF Middleware
<1>2. CASE Gc
  BY <1>2, GcStep
<1>3. CASE Tick
  BY <1>3, TickStep
<1>4. CASE UNCHANGED vars
  <2>1. ASSUME NEW b \in Buckets PROVE WindowInv(b)' /\ Unlimited(b)'
    BY <1>4, KeepsBucket DEF IInv, vars
  <2>2. TypeOK' /\ DenialJustified' /\ now' <= gcAt' /\ gcAt' <= now' + GcPeriod
    BY <1>4 DEF IInv, TypeOK, DenialJustified, LimitOf, vars
  <2>3. QED
    BY <2>1, <2>2 DEF IInv
<1>5. QED
  BY <1>1, <1>2, <1>3, <1>4 DEF Next

LEMMA Invariant == Spec => []IInv
  BY InitInv, StepInv, PTL DEF Spec

-----------------------------------------------------------------------------
(* The limiter never admits more than twice the limit in the time of a window,
   for whatever callers, windows and phases of the garbage collection. *)
THEOREM NeverTwiceTheLimit == Spec => []SlidingBound
<1>1. IInv => SlidingBound
  <2> SUFFICES ASSUME IInv, NEW b \in Buckets, NEW k \in 1 .. Len(log[b]),
                      k + 2 * LimitOf(b) <= Len(log[b])
               PROVE  log[b][k + 2 * LimitOf(b)].at > log[b][k].at + Window
    BY DEF SlidingBound
  <2> DEFINE l == log[b]
             limit == LimitOf(b)
  <2>1. l \in Seq(Entry) /\ Len(l) \in Nat /\ limit \in Int
    BY BucketLimit DEF IInv, TypeOK, Entry
  <2>2. limit > 0
    <3>1. Unlimited(b)
      BY DEF IInv
    <3>2. l = <<>> => Len(l) = 0
      OBVIOUS
    <3>3. QED
      BY <2>1, <3>1, <3>2 DEF Unlimited
  <2>3. LogInv(l, limit)
    BY <2>2 DEF IInv, WindowInv
  <2>4. k + limit \in 1 .. Len(l) /\ (k + limit) + limit \in 1 .. Len(l) /\ k \in 1 .. Len(l)
    BY <2>1, <2>2
  <2>5. /\ l[k].at < l[k].start + Window
        /\ l[k + limit].start >= l[k].start + Window
        /\ l[(k + limit) + limit].start >= l[k + limit].start + Window
        /\ l[(k + limit) + limit].start <= l[(k + limit) + limit].at
    BY <2>3, <2>4 DEF LogInv
  <2>6. l[k] \in Entry /\ l[k + limit] \in Entry /\ l[(k + limit) + limit] \in Entry
    BY <2>1, <2>4
  <2>7. \A x, y, z \in Entry :
             /\ x.at < x.start + Window /\ y.start >= x.start + Window
             /\ z.start >= y.start + Window /\ z.start <= z.at
             => z.at > x.at + Window
    <3>1. Window \in Nat
      BY LimiterAssumption
    <3>2. QED
      BY <3>1 DEF Entry
  <2>8. (k + limit) + limit = k + 2 * limit
    BY <2>1
  <2>9. l[(k + limit) + limit].at > l[k].at + Window
    BY <2>5, <2>6, <2>7
  <2>10. QED
    BY <2>8, <2>9
<1>2. QED
  BY <1>1, Invariant, PTL

(* Whoever is turned away has as many requests before him, younger than the
   window, as the limit says. *)
THEOREM DenialsAreJustified == Spec => []DenialJustified
<1>1. IInv => DenialJustified
  BY DEF IInv
<1>2. QED
  BY <1>1, Invariant, PTL

(* No bucket outlives its window by more than one period of the collection. *)
THEOREM StaleBucketsGo == Spec => []StaleBounded
<1>1. IInv => StaleBounded
  <2> SUFFICES ASSUME IInv, NEW b \in Buckets, bucket[b] # None
               PROVE  now <= bucket[b].resetAt + GcPeriod
    BY DEF StaleBounded
  <2>1. BucketInv(bucket[b], log[b], LimitOf(b))
    BY BucketLimit DEF IInv, WindowInv, Unlimited
  <2>2. bucket[b] \in Bucket /\ now \in Nat /\ gcAt \in Nat /\ now <= gcAt
    BY DEF IInv, TypeOK, Bucket
  <2>3. QED
    BY <2>1, <2>2, LimiterAssumption DEF BucketInv, Bucket
<1>2. QED
  BY <1>1, Invariant, PTL

(* The variables keep their types. *)
THEOREM TypeCorrect == Spec => []TypeOK
<1>1. IInv => TypeOK
  BY DEF IInv
<1>2. QED
  BY <1>1, Invariant, PTL
=============================================================================
