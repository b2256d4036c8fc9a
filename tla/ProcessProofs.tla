---------------------------- MODULE ProcessProofs ----------------------------
(***************************************************************************)
(* Proofs about what a control-plane process keeps to itself and what it   *)
(* shares: its open streams, how many they are and what they were sent,    *)
(* for any number of connections, any limits and any ring; and the         *)
(* retention sweeps of all processes, for any number of processes, sweeps  *)
(* and rows.                                                               *)
(***************************************************************************)
EXTENDS EventStream, ServiceProcess, FiniteSetTheorems, SequenceTheorems,
        WellFoundedInduction, TLAPS

-----------------------------------------------------------------------------
(* Streams *)

(* All the types that the count depends on: a connection is a record with the
   fields of Conn, whatever was sent on it. *)
Fields == {"pc", "filter", "aborted", "broken", "sent", "start"}

Shape ==
    /\ DOMAIN conn = Conns
    /\ \A c \in Conns : DOMAIN conn[c] = Fields

(* The connections that a step changes leave Live, or one of them enters. *)
Counted == openCount = Cardinality(Live) /\ openCount <= MaxStreams

IInv == Shape /\ conn = [c \in Conns |-> conn[c]] /\ Counted

LEMMA LiveFinite == IsFiniteSet(Live) /\ Cardinality(Live) \in Nat
<1>1. Live \in SUBSET Conns
  BY DEF Live
<1> QED
  BY <1>1, StreamAssumption, FS_Subset, FS_CardinalityType

(* Released takes off exactly the streams whose cleanup runs for the first time. *)
LEMMA ReleasedCounts ==
  ASSUME openCount = Cardinality(Live), NEW S
  PROVE  Released(S) = Cardinality(Live \ S) /\ Released(S) <= openCount
<1>1. Cardinality(Live \ S) = Cardinality(Live) - Cardinality(Live \intersect S)
  BY LiveFinite, FS_Difference
<1>2. IsFiniteSet(Live \intersect S) /\ Cardinality(Live \intersect S) <= Cardinality(Live)
  BY LiveFinite, FS_Intersection
<1>3. Cardinality(Live \intersect S) \in Nat
  BY <1>2, FS_CardinalityType
<1>4. S \intersect Live = Live \intersect S
  OBVIOUS
<1> QED
  BY <1>1, <1>2, <1>3, <1>4, LiveFinite DEF Released

(* A step that ends the streams of S, and no other. *)
LEMMA EndsCounted ==
  ASSUME IInv, NEW S, Shape', conn' = [c \in Conns |-> conn'[c]],
         Live' = Live \ S, openCount' = Released(S)
  PROVE  IInv'
<1>1. openCount' = Cardinality(Live') /\ openCount' <= openCount
  BY ReleasedCounts DEF IInv, Counted
<1>2. openCount \in Nat /\ openCount' \in Nat
  BY <1>1, LiveFinite, FS_Difference, FS_CardinalityType DEF IInv, Counted
<1> QED
  BY <1>1, <1>2, StreamAssumption DEF IInv, Counted

LEMMA InitIInv == Init => IInv
<1> SUFFICES ASSUME Init PROVE IInv
  OBVIOUS
<1>1. Live = {}
  BY DEF Init, Live, NoConn
<1>2. Shape /\ conn = [c \in Conns |-> conn[c]]
  BY DEF Init, Shape, NoConn, Fields
<1> QED
  BY <1>1, <1>2, FS_EmptySet, StreamAssumption DEF Init, IInv, Counted

LEMMA NextIInv == IInv /\ [Next]_vars => IInv'
<1> SUFFICES ASSUME IInv, [Next]_vars PROVE IInv'
  OBVIOUS
<1> USE DEF IInv, Shape
<1>1. ASSUME NEW t \in Types, Publish(t) PROVE IInv'
  <2> DEFINE hit == {c \in Live : Matches(conn[c].filter, t)}
             dead == {c \in hit : conn[c].broken}
             e == Len(log) + 1
  <2>1. /\ conn' = [c \in Conns |->
                       IF c \in dead THEN Closed(c)
                       ELSE IF c \in hit THEN [conn[c] EXCEPT !.sent = Append(conn[c].sent, e)]
                       ELSE conn[c]]
        /\ openCount' = Released(dead)
    BY <1>1 DEF Publish
  <2>2. dead \subseteq Live
    OBVIOUS
  <2> HIDE DEF hit, dead, e
  <2>3. Live' = Live \ dead
    <3>1. ASSUME NEW c \in Conns PROVE conn'[c].pc = IF c \in dead THEN "closed" ELSE conn[c].pc
      <4>1. CASE c \in dead
        BY <2>1, <4>1 DEF Closed, NoConn
      <4>2. CASE c \notin dead /\ c \in hit
        BY <2>1, <4>2 DEF Fields
      <4>3. CASE c \notin dead /\ c \notin hit
        BY <2>1, <4>3
      <4> QED
        BY <4>1, <4>2, <4>3
    <3> QED
      BY <3>1, <2>2 DEF Live
  <2>4. Shape' /\ conn' = [c \in Conns |-> conn'[c]]
    BY <2>1 DEF Closed, NoConn, Fields
  <2> QED
    BY <2>1, <2>3, <2>4, EndsCounted
<1>2. ASSUME NEW c \in Conns, Refuse(c) PROVE IInv'
  <2>1. Live' = Live \ {}
    BY <1>2 DEF Refuse, Live, Fields
  <2>2. Shape' /\ conn' = [d \in Conns |-> conn'[d]]
    BY <1>2 DEF Refuse, Fields
  <2> QED
    BY <1>2, <2>1, <2>2 DEF Refuse, Counted
<1>3. ASSUME NEW c \in Conns, NEW f \in Types \union {NoFilter}, NEW a \in BOOLEAN,
             Connect(c, f, a)
      PROVE  IInv'
  <2>1. Live' = Live \union {c} /\ c \notin Live
    BY <1>3 DEF Connect, Live
  <2>2. Shape' /\ conn' = [d \in Conns |-> conn'[d]]
    BY <1>3 DEF Connect, Fields
  <2>3. Cardinality(Live') = openCount + 1
    BY <2>1, LiveFinite, FS_AddElement DEF Counted
  <2> QED
    BY <1>3, <2>2, <2>3, LiveFinite, StreamAssumption DEF Connect, Counted
<1>4. ASSUME NEW c \in Conns, Abort(c) PROVE IInv'
  <2>1. Live' = Live \ {c} /\ openCount' = Released({c})
    BY <1>4 DEF Abort, Live, Closed, NoConn
  <2>2. Shape' /\ conn' = [d \in Conns |-> conn'[d]]
    BY <1>4 DEF Abort, Closed, NoConn, Fields
  <2> QED
    BY <2>1, <2>2, EndsCounted
<1>5. ASSUME NEW c \in Conns, Cleanup(c) PROVE IInv'
  <2>1. Live' = Live \ {c} /\ openCount' = Released({c})
    BY <1>5 DEF Cleanup, Live, Closed, NoConn
  <2>2. Shape' /\ conn' = [d \in Conns |-> conn'[d]]
    BY <1>5 DEF Cleanup, Closed, NoConn, Fields
  <2> QED
    BY <2>1, <2>2, EndsCounted
<1>6. ASSUME NEW c \in Conns, Break(c) PROVE IInv'
  <2>1. Live' = Live
    BY <1>6 DEF Break, Live, Fields
  <2>2. Shape' /\ conn' = [d \in Conns |-> conn'[d]]
    BY <1>6 DEF Break, Fields
  <2> QED
    BY <1>6, <2>1, <2>2 DEF Break, Counted
<1>7. CASE UNCHANGED vars
  BY <1>7 DEF vars, Counted, Live
<1> QED
  BY <1>1, <1>2, <1>3, <1>4, <1>5, <1>6, <1>7 DEF Next, Cancel, Heartbeat

(* For any number of connections, events and publishes, the count that guards
   MAX_SSE_CONNECTIONS is the number of live streams, and within the limit
   (route.ts:27, 67-80). *)
THEOREM CountIsExact == Spec => []SlotsExact
<1>1. IInv => SlotsExact
  BY DEF IInv, Counted, SlotsExact
<1> QED
  BY InitIInv, NextIInv, <1>1, PTL DEF Spec

(* Induction over the numbers up to a bound, as a fact about sets. *)
LEMMA UpTo ==
  ASSUME NEW N \in Nat, NEW T, 0 \in T,
         \A n \in Nat : n < N /\ n \in T => n + 1 \in T
  PROVE  \A n \in 0 .. N : n \in T
<1> DEFINE Bad == {n \in Nat : n <= N /\ n \notin T}
<1>1. CASE Bad = {}
  BY <1>1
<1>2. CASE Bad # {}
  <2> DEFINE Less == {p \in Nat \X Nat : p[1] < p[2]}
  <2>0. IsWellFoundedOn(Less, Nat)
    BY NatLessThanWellFounded DEF OpToRel
  <2>1. PICK m \in Bad : \A n \in Bad : <<n, m>> \notin Less
    <3>1. Bad \subseteq Nat
      OBVIOUS
    <3> HIDE DEF Bad, Less
    <3> QED
      BY <1>2, <2>0, <3>1, WFMin
  <2>2. m # 0 /\ m - 1 \in Nat /\ m - 1 \notin Bad
    <3>1. m \in Nat /\ m # 0
      BY <2>1
    <3>2. <<m - 1, m>> \in Less
      BY <3>1
    <3> QED
      BY <2>1, <3>1, <3>2
  <2>3. m - 1 \in T /\ m - 1 < N
    BY <2>1, <2>2
  <2>4. (m - 1) + 1 \in T
    BY <2>2, <2>3
  <2> QED
    BY <2>1, <2>4
<1> QED
  BY <1>1, <1>2

(* A listener is sent numbers that go up; the replay picks them from numbers
   that go up. *)
Ascending(q) == \A i, j \in DOMAIN q : i < j => q[i] < q[j]

LEMMA AppendAscends ==
  ASSUME NEW q \in Seq(Nat), NEW e \in Nat, Ascending(q), \A x \in Range(q) : x < e
  PROVE  /\ Append(q, e) \in Seq(Nat)
         /\ Ascending(Append(q, e))
         /\ Range(Append(q, e)) = Range(q) \union {e}
<1>1. PICK a \in Seq(Nat) : a = Append(q, e)
  BY AppendProperties
<1>2. /\ Len(q) \in Nat /\ Len(a) = Len(q) + 1 /\ DOMAIN q = 1 .. Len(q)
      /\ DOMAIN a = 1 .. Len(q) + 1
      /\ \A i \in 1 .. Len(q) : a[i] = q[i]
      /\ a[Len(q) + 1] = e
  BY <1>1, AppendProperties, LenProperties
<1>3. Range(a) = Range(q) \union {e}
  <2>1. ASSUME NEW i \in DOMAIN a PROVE a[i] \in Range(q) \union {e}
    BY <1>2 DEF Range
  <2>2. ASSUME NEW x \in Range(q) PROVE x \in Range(a)
    BY <1>2 DEF Range
  <2>3. e \in Range(a)
    BY <1>2 DEF Range
  <2> QED
    BY <2>1, <2>2, <2>3 DEF Range
<1>4. ASSUME NEW i \in DOMAIN a, NEW j \in DOMAIN a, i < j PROVE a[i] < a[j]
  <2>1. i \in 1 .. Len(q) /\ a[i] = q[i] /\ q[i] \in Range(q)
    BY <1>2, <1>4 DEF Range
  <2>2. CASE j = Len(q) + 1
    BY <1>2, <2>1, <2>2
  <2>3. CASE j # Len(q) + 1
    <3>1. j \in 1 .. Len(q) /\ a[j] = q[j]
      BY <1>2, <2>3
    <3> QED
      BY <1>2, <1>4, <2>1, <3>1 DEF Ascending
  <2> QED
    BY <2>2, <2>3
<1> QED
  BY <1>1, <1>3, <1>4 DEF Ascending

(* filter() goes through the ring once: what it keeps of the first n events
   is a sequence that exists, and grows with n as its definition says. *)
LEMMA FilteringGrows ==
  ASSUME NEW s \in Seq(Nat), NEW K
  PROVE  /\ Filtering(s, K)[0] = <<>>
         /\ \A n \in Nat : n < Len(s) =>
               Filtering(s, K)[n + 1] = IF s[n + 1] \in K
                                        THEN Append(Filtering(s, K)[n], s[n + 1])
                                        ELSE Filtering(s, K)[n]
<1> DEFINE N == Len(s)
           Next1(q, n) == IF s[n] \in K THEN Append(q, s[n]) ELSE q
           Solved(g, n) == g[0] = <<>> /\ \A m \in 1 .. n : g[m] = Next1(g[m - 1], m)
           T == {n \in Nat : \E g : g = [m \in 0 .. n |-> g[m]] /\ Solved(g, n)}
<1>1. N \in Nat
  BY LenProperties
<1>2. 0 \in T
  <2> DEFINE h == [m \in 0 .. 0 |-> <<>>]
  <2>1. h = [m \in 0 .. 0 |-> h[m]] /\ Solved(h, 0)
    OBVIOUS
  <2> HIDE DEF h, Solved
  <2> QED
    BY <2>1
<1>3. ASSUME NEW n \in Nat, n \in T PROVE n + 1 \in T
  <2>1. PICK g : g = [m \in 0 .. n |-> g[m]] /\ Solved(g, n)
    BY <1>3
  <2> DEFINE h == [m \in 0 .. n + 1 |-> IF m = n + 1 THEN Next1(g[n], n + 1) ELSE g[m]]
  <2> HIDE DEF Next1
  <2>2. h = [m \in 0 .. n + 1 |-> h[m]]
    OBVIOUS
  <2>3. h[0] = <<>>
    BY <2>1
  <2>4. ASSUME NEW m \in 1 .. n + 1 PROVE h[m] = Next1(h[m - 1], m)
    <3>1. CASE m = n + 1
      BY <3>1
    <3>2. CASE m # n + 1
      <4>1. m \in 1 .. n /\ m - 1 \in 0 .. n
        BY <3>2
      <4>2. h[m] = g[m] /\ h[m - 1] = g[m - 1]
        BY <4>1
      <4> QED
        BY <2>1, <4>1, <4>2
    <3> QED
      BY <3>1, <3>2
  <2> HIDE DEF h
  <2>5. Solved(h, n + 1)
    BY <2>3, <2>4
  <2> HIDE DEF Solved
  <2> QED
    BY <2>2, <2>5
<1>4. N \in T
  <2>1. N \in 0 .. N
    BY <1>1
  <2> HIDE DEF T, N
  <2> QED
    BY <1>1, <1>2, <1>3, <2>1, UpTo
<1>5. PICK g : g = [m \in 0 .. N |-> g[m]] /\ Solved(g, N)
  BY <1>4
<1> DEFINE Fits(f) == f = [n \in 0 .. N |-> IF n = 0 THEN <<>>
                             ELSE IF s[n] \in K THEN Append(f[n - 1], s[n]) ELSE f[n - 1]]
<1>6. Fits(g)
  <2>1. \A n \in 0 .. N : g[n] = IF n = 0 THEN <<>>
                                 ELSE IF s[n] \in K THEN Append(g[n - 1], s[n]) ELSE g[n - 1]
    <3>1. ASSUME NEW n \in 0 .. N
          PROVE  g[n] = IF n = 0 THEN <<>>
                        ELSE IF s[n] \in K THEN Append(g[n - 1], s[n]) ELSE g[n - 1]
      <4>1. CASE n = 0
        BY <1>5, <4>1
      <4>2. CASE n # 0
        <5>1. n \in 1 .. N
          BY <1>1, <4>2
        <5> QED
          BY <1>5, <4>2, <5>1
      <4> QED
        BY <4>1, <4>2
    <3> QED
      BY <3>1
  <2> HIDE DEF N
  <2> QED
    BY <1>5, <2>1
<1>7. Filtering(s, K) = CHOOSE f : Fits(f)
  BY DEF Filtering
<1>8. Fits(Filtering(s, K))
  <2> HIDE DEF Fits
  <2> QED
    BY <1>6, <1>7
<1> DEFINE F == Filtering(s, K)
<1>9. \A n \in 0 .. N : F[n] = IF n = 0 THEN <<>>
                               ELSE IF s[n] \in K THEN Append(F[n - 1], s[n]) ELSE F[n - 1]
  <2>1. Fits(F)
    BY <1>8
  <2> HIDE DEF F
  <2> QED
    BY <2>1
<1> HIDE DEF F, N
<1>10. F[0] = <<>>
  BY <1>1, <1>9
<1>11. ASSUME NEW n \in Nat, n < N
       PROVE  F[n + 1] = IF s[n + 1] \in K THEN Append(F[n], s[n + 1]) ELSE F[n]
  <2>1. n + 1 \in 0 .. N /\ n + 1 # 0 /\ (n + 1) - 1 = n
    BY <1>1, <1>11
  <2> QED
    BY <1>9, <2>1
<1> QED
  BY <1>10, <1>11 DEF F, N

(* filter() keeps the order and takes what is wanted. *)
LEMMA FilteredPicks ==
  ASSUME NEW s \in Seq(Nat), NEW K, Ascending(s)
  PROVE  /\ Filtered(s, K) \in Seq(Nat)
         /\ Ascending(Filtered(s, K))
         /\ Range(Filtered(s, K)) = Range(s) \intersect K
<1> DEFINE N == Len(s)
           F(n) == Filtering(s, K)[n]
           Picked(q, n) == /\ q \in Seq(Nat) /\ Ascending(q)
                           /\ Range(q) = {s[i] : i \in 1 .. n} \intersect K
           T == {n \in Nat : n <= N => Picked(F(n), n)}
<1>1. N \in Nat /\ DOMAIN s = 1 .. N /\ \A i \in 1 .. N : s[i] \in Nat
  BY LenProperties, ElementOfSeq
<1>2. 0 \in T
  <2>1. F(0) = <<>>
    BY FilteringGrows
  <2>2. <<>> \in Seq(Nat) /\ DOMAIN <<>> = {}
    BY EmptySeq
  <2>3. Picked(<<>>, 0)
    BY <2>2 DEF Ascending, Range
  <2> HIDE DEF F, Picked
  <2> QED
    BY <2>1, <2>3
<1>3. ASSUME NEW n \in Nat, n < N, n \in T PROVE n + 1 \in T
  <2>1. PICK q : q = F(n) /\ Picked(q, n)
    BY <1>1, <1>3
  <2>2. F(n + 1) = IF s[n + 1] \in K THEN Append(q, s[n + 1]) ELSE q
    BY <1>3, <2>1, FilteringGrows
  <2>3. n + 1 \in 1 .. N /\ s[n + 1] \in Nat
    BY <1>1, <1>3
  <2>4. {s[i] : i \in 1 .. n + 1} = {s[i] : i \in 1 .. n} \union {s[n + 1]}
    <3>1. 1 .. n + 1 = (1 .. n) \union {n + 1}
      OBVIOUS
    <3> QED
      BY <3>1
  <2>5. CASE s[n + 1] \in K
    <3>1. ASSUME NEW x \in Range(q) PROVE x < s[n + 1]
      <4>1. PICK i \in 1 .. n : x = s[i]
        BY <2>1
      <4>2. i \in DOMAIN s /\ n + 1 \in DOMAIN s /\ i < n + 1
        BY <1>1, <1>3
      <4> QED
        BY <4>1, <4>2 DEF Ascending
    <3>2. Picked(Append(q, s[n + 1]), n + 1)
      BY <2>1, <2>3, <2>4, <2>5, <3>1, AppendAscends
    <3>3. PICK r : r = Append(q, s[n + 1]) /\ Picked(r, n + 1)
      BY <3>2
    <3>4. F(n + 1) = r
      BY <2>2, <2>5, <3>3
    <3> HIDE DEF Picked
    <3>5. Picked(F(n + 1), n + 1)
      BY <3>3, <3>4
    <3> QED
      BY <3>5
  <2>6. CASE s[n + 1] \notin K
    <3>1. Picked(q, n + 1)
      BY <2>1, <2>4, <2>6
    <3> HIDE DEF Picked, F
    <3> QED
      BY <2>2, <2>6, <3>1
  <2> QED
    BY <2>5, <2>6
<1>4. N \in T
  <2>1. N \in 0 .. N
    BY <1>1
  <2> HIDE DEF T, N
  <2> QED
    BY <1>1, <1>2, <1>3, <2>1, UpTo
<1>5. Picked(F(N), N)
  <2> HIDE DEF Picked, F
  <2> QED
    BY <1>1, <1>4
<1>6. {s[i] : i \in 1 .. N} = Range(s)
  BY <1>1 DEF Range
<1> QED
  BY <1>5, <1>6 DEF Filtered

(* What the ring and the streams hold.  The ring is the end of the log: without
   that, nothing says that what a connection is replayed has no gap.  A live
   stream was sent what is recorded of the log for it, and connected on a log
   that has only grown. *)
Replayable == IF MaxBacklog < ReplayLimit THEN MaxBacklog ELSE ReplayLimit

RingOf(b, l) ==
    /\ l \in Seq(Types) /\ b \in Seq(Nat)
    /\ Len(b) = IF Len(l) < MaxBacklog THEN Len(l) ELSE MaxBacklog
    /\ \A i \in 1 .. Len(b) : b[i] = Len(l) - Len(b) + i

Recorded(filter, start, l) ==
    {e \in 1 .. Len(l) : e > start - Replayable /\ Matches(filter, l[e])}

SentWell(r, l) ==
    /\ r.sent \in Seq(Nat) /\ r.start \in 0 .. Len(l)
    /\ Ascending(r.sent)
    /\ Range(r.sent) = Recorded(r.filter, r.start, l)

StreamInv ==
    /\ IInv
    /\ RingOf(backlog, log)
    /\ \A c \in Live : SentWell(conn[c], log)

LEMMA LogGrows ==
  ASSUME NEW l \in Seq(Types), NEW t \in Types
  PROVE  /\ Append(l, t) \in Seq(Types)
         /\ Len(l) \in Nat /\ Len(Append(l, t)) = Len(l) + 1
         /\ \A e \in 1 .. Len(l) : Append(l, t)[e] = l[e]
         /\ Append(l, t)[Len(l) + 1] = t
  BY AppendProperties, LenProperties

(* publish() keeps the ring at the end of the log: the oldest event goes. *)
LEMMA RingMoves ==
  ASSUME NEW b, NEW l, RingOf(b, l), NEW t \in Types
  PROVE  RingOf(Pushed(b, Len(l) + 1), Append(l, t))
<1>1. PICK k : k = Append(l, t) /\ k \in Seq(Types) /\ Len(k) = Len(l) + 1 /\ Len(l) \in Nat
  BY LogGrows DEF RingOf
<1> DEFINE M == Len(l)
           N == Len(b)
<1>2. /\ M \in Nat /\ N \in Nat /\ b \in Seq(Nat)
      /\ N = IF M < MaxBacklog THEN M ELSE MaxBacklog
      /\ \A i \in 1 .. N : b[i] = M - N + i
  BY <1>1, LenProperties DEF RingOf
<1>3. PICK e \in Nat : e = M + 1
  BY <1>2
<1>4. PICK a \in Seq(Nat) : a = Append(b, e)
  BY <1>2, <1>3, AppendProperties
<1>5. /\ Len(a) = N + 1
      /\ \A i \in 1 .. N : a[i] = b[i]
      /\ a[N + 1] = e
  BY <1>2, <1>3, <1>4, AppendProperties
<1>6. Len(k) = M + 1
  BY <1>1
<1>7. Pushed(b, Len(l) + 1) = IF N + 1 > MaxBacklog THEN Tail(a) ELSE a
  BY <1>3, <1>4, <1>5 DEF Pushed
<1> HIDE DEF M, N
<1>8. ASSUME NEW i \in 1 .. N + 1 PROVE a[i] = M - N + i
  <2>1. CASE i = N + 1
    BY <1>2, <1>3, <1>5, <2>1
  <2>2. CASE i # N + 1
    <3>1. i \in 1 .. N
      BY <1>2, <2>2
    <3> QED
      BY <1>2, <1>5, <3>1
  <2> QED
    BY <2>1, <2>2
<1>9. CASE N + 1 > MaxBacklog
  <2>1. a # <<>>
    BY <1>2, <1>5, EmptySeq
  <2>2. PICK d \in Seq(Nat) : d = Tail(a)
    BY <2>1, HeadTailProperties
  <2>3. Len(d) = N /\ \A i \in 1 .. N : d[i] = a[i + 1]
    <3>1. Len(d) = Len(a) - 1 /\ \A i \in 1 .. Len(d) : d[i] = a[i + 1]
      BY <2>1, <2>2, HeadTailProperties
    <3> QED
      BY <1>2, <1>5, <3>1
  <2>4. N = MaxBacklog /\ M + 1 >= MaxBacklog
    BY <1>2, <1>9, StreamAssumption
  <2>5. ASSUME NEW i \in 1 .. N PROVE d[i] = (M + 1) - N + i
    <3>1. i + 1 \in 1 .. N + 1
      BY <1>2
    <3>2. a[i + 1] = M - N + (i + 1)
      BY <1>8, <3>1
    <3>3. d[i] = a[i + 1]
      BY <2>3
    <3>4. M \in Int /\ N \in Int /\ i \in Int
      BY <1>2
    <3>5. M - N + (i + 1) = (M + 1) - N + i
      BY <3>4
    <3> QED
      BY <3>2, <3>3, <3>5
  <2>6. Len(d) = IF Len(k) < MaxBacklog THEN Len(k) ELSE MaxBacklog
    BY <1>2, <1>6, <2>3, <2>4, StreamAssumption
  <2>7. \A i \in 1 .. Len(d) : d[i] = Len(k) - Len(d) + i
    BY <1>6, <2>3, <2>5
  <2>8. RingOf(d, k)
    BY <1>1, <2>2, <2>6, <2>7 DEF RingOf
  <2> QED
    BY <1>1, <1>7, <1>9, <2>2, <2>8
<1>10. CASE ~(N + 1 > MaxBacklog)
  <2>1. N = M /\ M + 1 <= MaxBacklog
    BY <1>2, <1>10, StreamAssumption
  <2>2. Len(a) = IF Len(k) < MaxBacklog THEN Len(k) ELSE MaxBacklog
    BY <1>2, <1>5, <1>6, <2>1, StreamAssumption
  <2>3. ASSUME NEW i \in 1 .. Len(a) PROVE a[i] = Len(k) - Len(a) + i
    BY <1>2, <1>5, <1>6, <1>8, <2>1
  <2>4. RingOf(a, k)
    BY <1>1, <1>4, <2>2, <2>3 DEF RingOf
  <2> QED
    BY <1>1, <1>7, <1>10, <2>4
<1> QED
  BY <1>9, <1>10

(* getBacklog(100) returns the last of the log, as many as are replayable. *)
LEMMA RecentIsLast ==
  ASSUME NEW b, NEW l, RingOf(b, l)
  PROVE  /\ Recent(b) \in Seq(Nat)
         /\ Ascending(Recent(b))
         /\ Range(Recent(b)) = {e \in 1 .. Len(l) : e > Len(l) - Replayable}
<1> DEFINE N == Len(b)
           M == Len(l)
           m == IF N > ReplayLimit THEN N - ReplayLimit + 1 ELSE 1
           gap == M - N + m - 1
<1>1. /\ b \in Seq(Nat) /\ N \in Nat /\ M \in Nat
      /\ N = IF M < MaxBacklog THEN M ELSE MaxBacklog
      /\ \A i \in 1 .. N : b[i] = M - N + i
  BY LenProperties DEF RingOf
<1>2. m \in 1 .. N + 1
  BY <1>1, StreamAssumption
<1>3. Recent(b) = SubSeq(b, m, N)
  BY DEF Recent
<1>4. /\ gap = M - N + m - 1
      /\ m = IF N > ReplayLimit THEN N - ReplayLimit + 1 ELSE 1
      /\ N <= M
  BY <1>1, StreamAssumption
<1> HIDE DEF m, N, M, gap
<1>5. gap \in Nat /\ gap <= M /\ M - gap = N - m + 1
  <2>1. M \in Int /\ N \in Int /\ m \in Int /\ N <= M /\ 1 <= m /\ m <= N + 1
    BY <1>1, <1>2, <1>4
  <2>2. gap = M - N + m - 1
    BY <1>4
  <2> QED
    BY <2>1, <2>2
<1>6. ASSUME NEW e \in 1 .. M PROVE (e > gap) <=> (e > M - Replayable)
  <2>1. MaxBacklog \in Nat /\ MaxBacklog > 0 /\ ReplayLimit \in Nat /\ ReplayLimit > 0
    BY StreamAssumption
  <2>2. CASE N > ReplayLimit
    BY <1>1, <1>4, <2>1, <2>2 DEF Replayable
  <2>3. CASE ~(N > ReplayLimit)
    <3>1. gap = M - N
      BY <1>1, <1>4, <2>3
    <3> QED
      BY <1>1, <2>1, <2>3, <3>1 DEF Replayable
  <2> QED
    BY <2>2, <2>3
<1>7. \A i \in m .. N : b[i] \in Nat
  <2>1. ASSUME NEW i \in m .. N PROVE b[i] \in Nat
    <3>1. i \in 1 .. N
      BY <1>1, <1>2
    <3> QED
      BY <1>1, <3>1, ElementOfSeq DEF N
  <2> QED
    BY <2>1
<1>8. m \in Int /\ N \in Int
  BY <1>1, <1>2
<1>9. /\ SubSeq(b, m, N) \in Seq(Nat)
      /\ Len(SubSeq(b, m, N)) = IF m <= N THEN N - m + 1 ELSE 0
      /\ \A i \in 1 .. N - m + 1 : SubSeq(b, m, N)[i] = b[m + i - 1]
  BY <1>7, <1>8, SubSeqProperties
<1>10. PICK r \in Seq(Nat) : r = SubSeq(b, m, N)
  BY <1>9
<1>11. Len(r) = N - m + 1 /\ DOMAIN r = 1 .. N - m + 1
  <2>1. Len(r) = N - m + 1
    BY <1>1, <1>2, <1>9, <1>10
  <2> QED
    BY <1>10, <2>1, LenProperties
<1>12. ASSUME NEW i \in DOMAIN r PROVE r[i] = gap + i
  <2>1. i \in 1 .. N - m + 1 /\ m + i - 1 \in 1 .. N
    BY <1>1, <1>2, <1>11
  <2>2. r[i] = b[m + i - 1]
    BY <1>9, <1>10, <2>1
  <2>3. b[m + i - 1] = M - N + (m + i - 1)
    BY <1>1, <2>1
  <2>4. M \in Int /\ N \in Int /\ m \in Int /\ i \in Int
    BY <1>1, <1>2, <2>1
  <2>5. gap = M - N + m - 1
    BY <1>4
  <2>6. M - N + (m + i - 1) = gap + i
    BY <2>4, <2>5
  <2> QED
    BY <2>2, <2>3, <2>6
<1>13. DOMAIN r = 1 .. M - gap
  BY <1>5, <1>11
<1>14. Ascending(r)
  <2>1. ASSUME NEW i \in DOMAIN r, NEW j \in DOMAIN r, i < j PROVE r[i] < r[j]
    BY <1>1, <1>5, <1>12, <1>13, <2>1
  <2> QED
    BY <2>1 DEF Ascending
<1>15. Range(r) = {e \in 1 .. M : e > gap}
  <2>1. ASSUME NEW i \in DOMAIN r PROVE r[i] \in 1 .. M /\ r[i] > gap
    BY <1>1, <1>5, <1>12, <1>13
  <2>2. ASSUME NEW e \in 1 .. M, e > gap PROVE \E i \in DOMAIN r : e = r[i]
    <3>1. e - gap \in DOMAIN r
      BY <1>1, <1>5, <1>13, <2>2
    <3>2. r[e - gap] = gap + (e - gap)
      BY <1>12, <3>1
    <3> QED
      BY <1>1, <1>5, <3>1, <3>2
  <2> QED
    BY <2>1, <2>2 DEF Range
<1>16. {e \in 1 .. M : e > gap} = {e \in 1 .. M : e > M - Replayable}
  BY <1>6
<1> QED
  BY <1>3, <1>10, <1>14, <1>15, <1>16 DEF M

(* The replay of a connection is what is recorded for it at that moment. *)
LEMMA ReplayIsRecorded ==
  ASSUME RingOf(backlog, log), NEW filter
  PROVE  LET q == Filtered(Recent(backlog), Wanted(filter))
         IN  q \in Seq(Nat) /\ Ascending(q) /\ Range(q) = Recorded(filter, Len(log), log)
<1>1. /\ Recent(backlog) \in Seq(Nat)
      /\ Ascending(Recent(backlog))
      /\ Range(Recent(backlog)) = {e \in 1 .. Len(log) : e > Len(log) - Replayable}
  BY RecentIsLast
<1>2. PICK q : /\ q = Filtered(Recent(backlog), Wanted(filter))
               /\ q \in Seq(Nat) /\ Ascending(q)
               /\ Range(q) = Range(Recent(backlog)) \intersect Wanted(filter)
  BY <1>1, FilteredPicks
<1>3. Range(q) = Recorded(filter, Len(log), log)
  BY <1>1, <1>2 DEF Wanted, Recorded
<1> QED
  BY <1>2, <1>3

(* A step of the connection c alone that leaves the log and the ring, and after
   which c is live only if it was, with what it was sent. *)
Lasts(c) ==
    /\ UNCHANGED <<log, backlog>>
    /\ \A d \in Conns \ {c} : conn'[d] = conn[d]
    /\ conn'[c].pc = "live" =>
          /\ conn[c].pc = "live"
          /\ conn'[c].sent = conn[c].sent
          /\ conn'[c].start = conn[c].start
          /\ conn'[c].filter = conn[c].filter

LEMMA LastsKeeps ==
  ASSUME StreamInv, IInv', NEW c \in Conns, Lasts(c)
  PROVE  StreamInv'
<1>1. RingOf(backlog, log)'
  BY DEF StreamInv, Lasts
<1>2. ASSUME NEW d \in Live' PROVE SentWell(conn'[d], log')
  <2>1. d \in Conns /\ conn'[d].pc = "live" /\ log' = log
    BY DEF Live, Lasts
  <2>2. CASE d = c
    <3>1. SentWell(conn[c], log)
      BY <2>1, <2>2 DEF StreamInv, Lasts, Live
    <3>2. /\ conn'[c].sent = conn[c].sent
          /\ conn'[c].start = conn[c].start
          /\ conn'[c].filter = conn[c].filter
      BY <2>1, <2>2 DEF Lasts
    <3> QED
      BY <2>1, <2>2, <3>1, <3>2 DEF SentWell
  <2>3. CASE d # c
    <3>1. conn'[d] = conn[d]
      BY <2>1, <2>3 DEF Lasts
    <3>2. SentWell(conn[d], log)
      BY <2>1, <3>1 DEF StreamInv, Live
    <3> QED
      BY <2>1, <3>1, <3>2
  <2> QED
    BY <2>2, <2>3
<1> QED
  BY <1>1, <1>2 DEF StreamInv

(* A stream that an event is published to: it gets the event if its filter
   matches, and otherwise what is recorded for it does not change. *)
LEMMA PublishRecords ==
  ASSUME NEW l \in Seq(Types), NEW t \in Types, NEW filter, NEW start \in 0 .. Len(l)
  PROVE  /\ Matches(filter, t) =>
                Recorded(filter, start, Append(l, t)) =
                    Recorded(filter, start, l) \union {Len(l) + 1}
         /\ ~Matches(filter, t) =>
                Recorded(filter, start, Append(l, t)) = Recorded(filter, start, l)
<1>1. PICK k : k = Append(l, t)
  OBVIOUS
<1>2. /\ Len(l) \in Nat /\ Len(k) = Len(l) + 1
      /\ \A e \in 1 .. Len(l) : k[e] = l[e]
      /\ k[Len(l) + 1] = t
  BY <1>1, LogGrows
<1>3. Len(l) + 1 > start - Replayable
  BY <1>2, StreamAssumption DEF Replayable
<1>4. ASSUME NEW e \in 1 .. Len(k)
      PROVE  (e > start - Replayable /\ Matches(filter, k[e]))
                <=> \/ e \in Recorded(filter, start, l)
                    \/ e = Len(l) + 1 /\ Matches(filter, t)
  <2>1. CASE e = Len(l) + 1
    <3>1. e \notin 1 .. Len(l)
      BY <1>2, <2>1
    <3> QED
      BY <1>2, <1>3, <2>1, <3>1 DEF Recorded
  <2>2. CASE e # Len(l) + 1
    <3>1. e \in 1 .. Len(l)
      BY <1>2, <2>2
    <3>2. k[e] = l[e]
      BY <1>2, <3>1
    <3> QED
      BY <2>2, <3>1, <3>2 DEF Recorded
  <2> QED
    BY <2>1, <2>2
<1>5. Recorded(filter, start, l) \subseteq 1 .. Len(k) /\ Len(l) + 1 \in 1 .. Len(k)
  BY <1>2 DEF Recorded
<1>6. Recorded(filter, start, k) =
         {e \in 1 .. Len(k) : e > start - Replayable /\ Matches(filter, k[e])}
  BY DEF Recorded
<1>7. CASE Matches(filter, t)
  BY <1>1, <1>4, <1>5, <1>6, <1>7
<1>8. CASE ~Matches(filter, t)
  BY <1>1, <1>4, <1>5, <1>6, <1>8
<1> QED
  BY <1>7, <1>8

LEMMA InitStream == Init => StreamInv
<1> SUFFICES ASSUME Init PROVE StreamInv
  OBVIOUS
<1>1. Live = {}
  BY DEF Init, Live, NoConn
<1>2. <<>> \in Seq(Types) /\ <<>> \in Seq(Nat) /\ Len(<<>>) = 0
  BY EmptySeq
<1>3. RingOf(<<>>, <<>>)
  BY <1>2, StreamAssumption DEF RingOf
<1>4. RingOf(backlog, log)
  BY <1>3 DEF Init
<1> QED
  BY <1>1, <1>4, InitIInv DEF StreamInv

LEMMA NextStream == StreamInv /\ [Next]_vars => StreamInv'
<1> SUFFICES ASSUME StreamInv, [Next]_vars PROVE StreamInv'
  OBVIOUS
<1>0. IInv /\ IInv'
  BY NextIInv DEF StreamInv
<1>1. ASSUME NEW t \in Types, Publish(t) PROVE StreamInv'
  <2>1. log \in Seq(Types) /\ log' = Append(log, t) /\ Len(log) \in Nat
    BY <1>1, LenProperties DEF StreamInv, RingOf, Publish
  <2>2. RingOf(backlog, log)'
    BY <1>1, <2>1, RingMoves DEF StreamInv, Publish
  <2>3. ASSUME NEW c \in Live' PROVE SentWell(conn'[c], log')
    <3>1. c \in Conns /\ conn'[c].pc = "live"
      BY DEF Live
    <3> DEFINE hit == {d \in Live : Matches(conn[d].filter, t)}
               dead == {d \in hit : conn[d].broken}
    <3>2. conn'[c] = IF c \in dead THEN Closed(c)
                     ELSE IF c \in hit
                     THEN [conn[c] EXCEPT !.sent = Append(conn[c].sent, Len(log) + 1)]
                     ELSE conn[c]
      BY <1>1, <3>1 DEF Publish
    <3>3. c \notin dead
      BY <3>1, <3>2 DEF Closed, NoConn
    <3>4. DOMAIN conn[c] = Fields
      BY <1>0, <3>1 DEF IInv, Shape
    <3>5. c \in Live
      BY <3>1, <3>2, <3>3, <3>4 DEF Live, Fields
    <3>6. SentWell(conn[c], log)
      BY <3>5 DEF StreamInv
    <3>7. CASE Matches(conn[c].filter, t)
      <4>1. /\ conn'[c].sent = Append(conn[c].sent, Len(log) + 1)
            /\ conn'[c].start = conn[c].start /\ conn'[c].filter = conn[c].filter
        BY <3>2, <3>3, <3>4, <3>5, <3>7 DEF Fields
      <4>2. \A x \in Range(conn[c].sent) : x < Len(log) + 1
        BY <2>1, <3>6 DEF SentWell, Recorded
      <4>3. PICK q : q = conn[c].sent /\ q \in Seq(Nat) /\ Ascending(q)
        BY <3>6 DEF SentWell
      <4>4. /\ Append(q, Len(log) + 1) \in Seq(Nat)
            /\ Ascending(Append(q, Len(log) + 1))
            /\ Range(Append(q, Len(log) + 1)) = Range(q) \union {Len(log) + 1}
        BY <2>1, <4>2, <4>3, AppendAscends
      <4>5. Recorded(conn[c].filter, conn[c].start, log') =
               Recorded(conn[c].filter, conn[c].start, log) \union {Len(log) + 1}
        BY <2>1, <3>6, <3>7, PublishRecords DEF SentWell
      <4>6. conn[c].start \in 0 .. Len(log')
        BY <2>1, <3>6, LogGrows DEF SentWell
      <4>7. PICK a : a = Append(q, Len(log) + 1)
        OBVIOUS
      <4>8. conn'[c].sent = a /\ a \in Seq(Nat) /\ Ascending(a)
        BY <4>1, <4>3, <4>4, <4>7
      <4>9. Range(a) = Recorded(conn[c].filter, conn[c].start, log')
        BY <3>6, <4>3, <4>4, <4>5, <4>7 DEF SentWell
      <4>10. Range(conn'[c].sent) = Recorded(conn'[c].filter, conn'[c].start, log')
        BY ONLY <4>1, <4>8, <4>9
      <4>11. conn'[c].start \in 0 .. Len(log')
        BY ONLY <4>1, <4>6
      <4>12. conn'[c].sent \in Seq(Nat) /\ Ascending(conn'[c].sent)
        BY ONLY <4>8
      <4> QED
        BY <4>10, <4>11, <4>12 DEF SentWell
    <3>8. CASE ~Matches(conn[c].filter, t)
      <4>1. conn'[c] = conn[c]
        BY <3>2, <3>8
      <4>2. Recorded(conn[c].filter, conn[c].start, log') =
               Recorded(conn[c].filter, conn[c].start, log)
        BY <2>1, <3>6, <3>8, PublishRecords DEF SentWell
      <4>3. conn[c].start \in 0 .. Len(log')
        BY <2>1, <3>6, LogGrows DEF SentWell
      <4> QED
        BY <3>6, <4>1, <4>2, <4>3 DEF SentWell
    <3> QED
      BY <3>7, <3>8
  <2> QED
    BY <1>0, <2>2, <2>3 DEF StreamInv
<1>2. ASSUME NEW c \in Conns, NEW f \in Types \union {NoFilter}, NEW a \in BOOLEAN,
             Connect(c, f, a)
      PROVE  StreamInv'
  <2>1. UNCHANGED <<log, backlog>>
    BY <1>2 DEF Connect
  <2>2. RingOf(backlog, log)'
    BY <2>1 DEF StreamInv
  <2>3. ASSUME NEW d \in Live' PROVE SentWell(conn'[d], log')
    <3>1. d \in Conns /\ conn'[d].pc = "live"
      BY DEF Live
    <3>2. CASE d = c
      <4>1. PICK q : q = Filtered(Recent(backlog), Wanted(f))
        OBVIOUS
      <4>2. q \in Seq(Nat) /\ Ascending(q) /\ Range(q) = Recorded(f, Len(log), log)
        BY <4>1, ReplayIsRecorded DEF StreamInv
      <4>3. conn'[d].sent = q /\ conn'[d].start = Len(log) /\ conn'[d].filter = f
        BY <1>0, <1>2, <3>2, <4>1 DEF Connect, IInv, Shape
      <4>4. Len(log) \in 0 .. Len(log)
        BY LenProperties DEF StreamInv, RingOf
      <4> QED
        BY <2>1, <4>2, <4>3, <4>4 DEF SentWell
    <3>3. CASE d # c
      <4>1. conn'[d] = conn[d]
        BY <1>2, <3>1, <3>3 DEF Connect
      <4>2. SentWell(conn[d], log)
        BY <3>1, <4>1 DEF StreamInv, Live
      <4> QED
        BY <2>1, <4>1, <4>2
    <3> QED
      BY <3>2, <3>3
  <2> QED
    BY <1>0, <2>2, <2>3 DEF StreamInv
<1>3. ASSUME NEW c \in Conns, Refuse(c) PROVE StreamInv'
  <2>1. Lasts(c)
    BY <1>0, <1>3 DEF Refuse, Lasts, IInv, Shape, Fields
  <2> QED
    BY <1>0, <2>1, LastsKeeps
<1>4. ASSUME NEW c \in Conns, Abort(c) PROVE StreamInv'
  <2>1. Lasts(c)
    BY <1>0, <1>4 DEF Abort, Lasts, IInv, Shape, Closed, NoConn
  <2> QED
    BY <1>0, <2>1, LastsKeeps
<1>5. ASSUME NEW c \in Conns, Cleanup(c) PROVE StreamInv'
  <2>1. Lasts(c)
    BY <1>0, <1>5 DEF Cleanup, Lasts, IInv, Shape, Closed, NoConn
  <2> QED
    BY <1>0, <2>1, LastsKeeps
<1>6. ASSUME NEW c \in Conns, Break(c) PROVE StreamInv'
  <2>1. Lasts(c)
    BY <1>0, <1>6 DEF Break, Lasts, IInv, Shape, Fields
  <2> QED
    BY <1>0, <2>1, LastsKeeps
<1>7. CASE UNCHANGED vars
  BY <1>0, <1>7 DEF vars, StreamInv, Live
<1> QED
  BY <1>1, <1>2, <1>3, <1>4, <1>5, <1>6, <1>7 DEF Next, Cancel, Heartbeat

(* For any number of connections, any ring and any replay limit, a live stream
   was sent exactly the events of its filter that the ring could replay when it
   connected and all that were published since, each once and in order
   (route.ts:104-131, stream.ts:29-53). *)
THEOREM StreamsAreGapless == Spec => []Gapless
<1>1. StreamInv => Gapless
  BY DEF StreamInv, SentWell, Recorded, Ascending, Replayable, Gapless
<1> QED
  BY InitStream, NextStream, <1>1, PTL DEF Spec

(* Types.  That what is kept and sent are places in a log of bounded length
   follows from what they hold (StreamInv); the rest is a type of connections
   that leaves the places open. *)
LooseConn ==
    [ pc : {"none", "refused", "live", "closed"},
      filter : Types \union {NoFilter},
      aborted : BOOLEAN,
      broken : BOOLEAN,
      sent : Seq(Nat),
      start : Nat ]

LooseType ==
    /\ conn \in [Conns -> LooseConn]
    /\ \A c \in Conns : conn[c].pc # "live" => conn[c].sent = <<>>
    /\ Len(log) <= MaxPublishes

LEMMA ClosedIsLoose ==
  ASSUME NEW c \in Conns, conn[c] \in LooseConn, NEW a \in BOOLEAN
  PROVE  LET w == [Closed(c) EXCEPT !.aborted = a]
         IN  /\ Closed(c) \in LooseConn /\ Closed(c).sent = <<>> /\ Closed(c).pc = "closed"
             /\ w \in LooseConn /\ w.sent = <<>> /\ w.pc = "closed"
<1>1. PICK f \in BOOLEAN : f = FALSE
  OBVIOUS
<1>2. PICK b \in BOOLEAN : b = conn[c].aborted
  BY DEF LooseConn
<1> DEFINE Shut(x) == [pc |-> "closed", filter |-> NoFilter, aborted |-> x, broken |-> f,
                       sent |-> <<>>, start |-> 0]
<1>3. ASSUME NEW x \in BOOLEAN
      PROVE  Shut(x) \in LooseConn /\ Shut(x).sent = <<>> /\ Shut(x).pc = "closed"
  BY EmptySeq DEF LooseConn
<1>4. NoConn = [pc |-> "none", filter |-> NoFilter, aborted |-> f, broken |-> f,
                sent |-> <<>>, start |-> 0]
  BY <1>1 DEF NoConn
<1>5. Closed(c) = [NoConn EXCEPT !.pc = "closed", !.aborted = b]
  BY <1>2 DEF Closed
<1>6. Closed(c) = Shut(b)
  BY <1>4, <1>5
<1>7. [Closed(c) EXCEPT !.aborted = a] = Shut(a)
  BY <1>6
<1> HIDE DEF Shut
<1> QED
  BY <1>3, <1>6, <1>7

LEMMA InitLoose == Init => LooseType
<1>1. <<>> \in Seq(Nat)
  BY EmptySeq
<1>2. NoConn \in LooseConn /\ NoConn.sent = <<>>
  BY <1>1 DEF NoConn, LooseConn
<1>3. Len(<<>>) = 0
  BY EmptySeq
<1> QED
  BY <1>2, <1>3, StreamAssumption DEF Init, LooseType

LEMMA NextLoose == StreamInv /\ LooseType /\ [Next]_vars => LooseType'
<1> SUFFICES ASSUME StreamInv, LooseType, [Next]_vars PROVE LooseType'
  OBVIOUS
<1>0. /\ log \in Seq(Types) /\ Len(log) \in Nat
      /\ \A c \in Conns : conn[c] \in LooseConn
  BY LenProperties DEF StreamInv, RingOf, LooseType
<1>1. ASSUME NEW t \in Types, Publish(t) PROVE LooseType'
  <2> DEFINE hit == {c \in Live : Matches(conn[c].filter, t)}
             dead == {c \in hit : conn[c].broken}
             e == Len(log) + 1
             Heard(c) == [conn[c] EXCEPT !.sent = Append(conn[c].sent, e)]
  <2>1. /\ conn' = [c \in Conns |-> IF c \in dead THEN Closed(c)
                                    ELSE IF c \in hit THEN Heard(c) ELSE conn[c]]
        /\ log' = Append(log, t) /\ Len(log) < MaxPublishes
    BY <1>1 DEF Publish
  <2>2. Len(log') = Len(log) + 1
    BY <1>0, <2>1, LogGrows
  <2>3. ASSUME NEW c \in Conns PROVE Heard(c) \in LooseConn /\ Heard(c).pc = conn[c].pc
    <3>1. conn[c] \in LooseConn /\ conn[c].sent \in Seq(Nat) /\ e \in Nat
      BY <1>0 DEF LooseConn
    <3>2. PICK q \in Seq(Nat) : q = Append(conn[c].sent, e)
      BY <3>1, AppendProperties
    <3>3. [conn[c] EXCEPT !.sent = q] \in LooseConn /\ [conn[c] EXCEPT !.sent = q].pc = conn[c].pc
      BY <3>1, <3>2 DEF LooseConn
    <3> QED
      BY <3>2, <3>3
  <2>4. ASSUME NEW c \in hit PROVE conn[c].pc = "live"
    BY DEF Live
  <2>5. ASSUME NEW c \in Conns
        PROVE  /\ Closed(c) \in LooseConn /\ Closed(c).sent = <<>>
    BY <1>0, ClosedIsLoose
  <2> HIDE DEF Heard, dead, hit, e
  <2>6. ASSUME NEW c \in Conns
        PROVE  /\ conn'[c] \in LooseConn
               /\ conn'[c].pc # "live" => conn'[c].sent = <<>>
    BY <1>0, <2>1, <2>3, <2>4, <2>5 DEF LooseType
  <2>7. conn' \in [Conns -> LooseConn]
    BY <2>1, <2>6
  <2> QED
    BY <1>0, <2>1, <2>2, <2>6, <2>7, StreamAssumption DEF LooseType
<1>2. ASSUME NEW c \in Conns, NEW w \in LooseConn, w.pc # "live" => w.sent = <<>>,
             conn' = [conn EXCEPT ![c] = w], log' = log
      PROVE  LooseType'
  BY <1>2 DEF LooseType
<1>3. ASSUME NEW c \in Conns, Refuse(c) PROVE LooseType'
  <2>1. /\ [conn[c] EXCEPT !.pc = "refused"] \in LooseConn
        /\ [conn[c] EXCEPT !.pc = "refused"].sent = conn[c].sent
        /\ conn[c].sent = <<>>
    BY <1>0, <1>3 DEF Refuse, LooseConn, LooseType
  <2> QED
    BY <1>2, <1>3, <2>1 DEF Refuse
<1>4. ASSUME NEW c \in Conns, NEW f \in Types \union {NoFilter}, NEW a \in BOOLEAN,
             Connect(c, f, a)
      PROVE  LooseType'
  <2>1. PICK q \in Seq(Nat) : q = Filtered(Recent(backlog), Wanted(f))
    BY ReplayIsRecorded DEF StreamInv
  <2> DEFINE w == [ pc |-> "live", filter |-> f, aborted |-> a, broken |-> FALSE,
                    sent |-> q, start |-> Len(log) ]
  <2>2. w \in LooseConn /\ w.pc = "live"
    BY <1>0 DEF LooseConn
  <2>3. conn' = [conn EXCEPT ![c] = w] /\ log' = log
    BY <1>4, <2>1 DEF Connect
  <2> HIDE DEF w
  <2> QED
    BY <1>2, <2>2, <2>3
<1>5. ASSUME NEW c \in Conns, Abort(c) PROVE LooseType'
  <2>1. PICK a \in BOOLEAN : a = TRUE
    OBVIOUS
  <2>2. PICK w : w = [Closed(c) EXCEPT !.aborted = a]
    OBVIOUS
  <2>3. w \in LooseConn /\ w.sent = <<>>
    BY <1>0, <2>2, ClosedIsLoose
  <2>4. conn' = [conn EXCEPT ![c] = w] /\ log' = log
    BY <1>5, <2>1, <2>2 DEF Abort
  <2> QED
    BY <1>2, <2>3, <2>4
<1>6. ASSUME NEW c \in Conns, Cleanup(c) PROVE LooseType'
  <2>1. Closed(c) \in LooseConn /\ Closed(c).sent = <<>>
    BY <1>0, ClosedIsLoose
  <2> QED
    BY <1>2, <1>6, <2>1 DEF Cleanup
<1>7. ASSUME NEW c \in Conns, Break(c) PROVE LooseType'
  <2>1. /\ [conn[c] EXCEPT !.broken = TRUE] \in LooseConn
        /\ [conn[c] EXCEPT !.broken = TRUE].pc = "live"
    BY <1>0, <1>7 DEF Break, LooseConn
  <2> QED
    BY <1>2, <1>7, <2>1 DEF Break
<1>8. CASE UNCHANGED vars
  BY <1>8 DEF vars, LooseType
<1> QED
  BY <1>1, <1>3, <1>4, <1>5, <1>6, <1>7, <1>8 DEF Next, Cancel, Heartbeat

LEMMA PlacesInLog ==
  ASSUME NEW q \in Seq(Nat), Range(q) \subseteq Events
  PROVE  q \in Seq(Events)
<1>1. q \in [1 .. Len(q) -> Nat] /\ Len(q) \in Nat
  BY LenProperties
<1>2. \A i \in 1 .. Len(q) : q[i] \in Events
  BY <1>1 DEF Range
<1>3. q \in [1 .. Len(q) -> Events]
  BY <1>1, <1>2
<1> QED
  BY <1>1, <1>3, SeqDef

(* The log, the ring, the connections and the count stay in their types. *)
THEOREM StreamTypeCorrect == Spec => []TypeOK
<1>1. ASSUME StreamInv, LooseType PROVE TypeOK
  <2>1. /\ log \in Seq(Types) /\ backlog \in Seq(Nat)
        /\ Len(log) \in Nat /\ Len(backlog) \in Nat
    BY <1>1, LenProperties DEF StreamInv, RingOf
  <2>2. 1 .. Len(log) \subseteq Events
    BY <1>1, <2>1, StreamAssumption DEF LooseType, Events
  <2>3. backlog \in Seq(Events)
    <3>1. ASSUME NEW i \in 1 .. Len(backlog) PROVE backlog[i] \in 1 .. Len(log)
      <4>1. /\ backlog[i] = Len(log) - Len(backlog) + i
            /\ Len(backlog) = IF Len(log) < MaxBacklog THEN Len(log) ELSE MaxBacklog
        BY <1>1 DEF StreamInv, RingOf
      <4>2. Len(backlog) <= Len(log)
        BY <2>1, <4>1, StreamAssumption
      <4> QED
        BY <2>1, <4>1, <4>2
    <3>2. DOMAIN backlog = 1 .. Len(backlog)
      BY <2>1, LenProperties
    <3>3. Range(backlog) \subseteq Events
      BY <2>2, <3>1, <3>2 DEF Range
    <3> QED
      BY <2>1, <3>3, PlacesInLog
  <2>4. ASSUME NEW c \in Conns PROVE conn[c] \in Conn
    <3>1. conn[c] \in LooseConn
      BY <1>1 DEF LooseType
    <3>2. conn[c].sent \in Seq(Events)
      <4>1. CASE conn[c].pc = "live"
        <5>1. SentWell(conn[c], log)
          BY <1>1, <4>1 DEF StreamInv, Live
        <5>2. Range(conn[c].sent) \subseteq Events
          BY <2>2, <5>1 DEF SentWell, Recorded
        <5> QED
          BY <5>1, <5>2, PlacesInLog DEF SentWell
      <4>2. CASE conn[c].pc # "live"
        BY <1>1, <4>2, EmptySeq DEF LooseType
      <4> QED
        BY <4>1, <4>2
    <3> QED
      BY <3>1, <3>2 DEF LooseConn, Conn
  <2>5. conn \in [Conns -> Conn]
    BY <1>1, <2>4 DEF LooseType
  <2>6. openCount \in Nat
    BY <1>1, LiveFinite DEF StreamInv, IInv, Counted
  <2> QED
    BY <2>1, <2>3, <2>5, <2>6 DEF TypeOK
<1> QED
  BY InitStream, NextStream, InitLoose, NextLoose, <1>1, PTL DEF Spec

-----------------------------------------------------------------------------
(* Retention.  A transaction that deletes has the lock, which it got while
   nobody had it.  What it has deleted stays as it was, because the writers of
   a deleted row wait; what it has found, and will not look at again, may only
   have come alive in sight of it. *)

Deleting(t) == sweep[t].pc \in {"find", "purge", "commit"}

Ripe(r) ==
    /\ row[r].aged
    /\ \/ row[r].status = "dead"
       \/ /\ row[r].status = "live"
          /\ TableOf[r] = "webhook_deliveries"
          /\ r \in overtaken

SweepsInv ==
    /\ RetentionTypeOK
    /\ \A t \in Sweeps :
          /\ Deleting(t) => holder = t
          /\ ~Deleting(t) => sweep[t].doomed = {}
          /\ sweep[t].pc # "purge" => sweep[t].found = {}
          /\ \A r \in sweep[t].doomed : Ripe(r)
          /\ \A r \in sweep[t].found : TableOf[r] # "agents" => Ripe(r)

ProcessInv ==
    /\ SweepsInv
    /\ proc \in [Instances -> Processes]
    /\ left \in [fault : Nat, write : Nat]

LEMMA InitProcess == ProcessInit => ProcessInv
<1> SUFFICES ASSUME ProcessInit PROVE ProcessInv
  OBVIOUS
<1>1. RetentionTypeOK
  BY DEF ProcessInit, RetentionInit, RetentionTypeOK, RowStates, NoRow, SweepStates, NoSweep
<1>2. \A t \in Sweeps : ~Deleting(t) /\ sweep[t].doomed = {} /\ sweep[t].found = {}
  BY DEF ProcessInit, RetentionInit, Deleting, NoSweep
<1>3. Booted \in Processes
  BY DEF Booted, Processes, Timers
<1>4. proc \in [Instances -> Processes] /\ left \in [fault : Nat, write : Nat]
  BY <1>3, ProcessAssumption DEF ProcessInit
<1> QED
  BY <1>1, <1>2, <1>4 DEF ProcessInv, SweepsInv

(* The next table of a sweep is one of the five. *)
LEMMA OnwardsType ==
  ASSUME NEW w \in SweepStates, NEW D \in SUBSET Rows
  PROVE  /\ Onwards(w, D) \in SweepStates
         /\ Onwards(w, D).doomed = D
         /\ Onwards(w, D).found = {}
         /\ Onwards(w, D).pc \in {"find", "commit"}
<1> DEFINE Left == {j \in w.k + 1 .. 5 : Purges[j] \notin Kept}
           next == IF Left = {} THEN 0 ELSE CHOOSE j \in Left : \A l \in Left : j <= l
<1>1. w.k \in 0 .. 5 /\ w.inst \in Instances \union {None}
  BY DEF SweepStates
<1>2. Left \subseteq 1 .. 5
  BY <1>1
<1>3. next \in 0 .. 5
  <2> HIDE DEF Left
  <2>1. CASE Left = {}
    BY <2>1
  <2>2. CASE Left # {}
    <3>1. 1 \in Left \/ 2 \in Left \/ 3 \in Left \/ 4 \in Left \/ 5 \in Left
      <4>1. PICK j : j \in Left
        BY <2>2
      <4>2. j \in 1 .. 5
        BY <1>2, <4>1
      <4>3. j = 1 \/ j = 2 \/ j = 3 \/ j = 4 \/ j = 5
        BY <4>2
      <4> QED
        BY <4>1, <4>3
    <3>2. \E j \in Left : \A l \in Left : j <= l
      BY <1>2, <3>1
    <3>3. next \in Left
      BY <2>2, <3>2
    <3> HIDE DEF next
    <3>4. next \in 1 .. 5
      BY <1>2, <3>3
    <3> QED
      BY <3>4
  <2> QED
    BY <2>1, <2>2
<1>4. Onwards(w, D) = [ pc |-> IF Left = {} THEN "commit" ELSE "find",
                        inst |-> w.inst, k |-> next, found |-> {}, doomed |-> D ]
  BY DEF Onwards
<1> HIDE DEF Left, next
<1> QED
  BY <1>1, <1>3, <1>4 DEF SweepStates

LEMMA SweepBegins ==
  ASSUME SweepsInv, NEW t \in Sweeps, NEW i \in Instances, BeginSweep(t, i)
  PROVE  SweepsInv'
<1>1. PICK w : w = [NoSweep EXCEPT !.pc = "lock", !.inst = i]
  OBVIOUS
<1>2. w \in SweepStates /\ w.pc = "lock" /\ w.doomed = {} /\ w.found = {}
  <2>1. w = [pc |-> "lock", inst |-> i, k |-> 0, found |-> {}, doomed |-> {}]
    BY <1>1 DEF NoSweep
  <2> QED
    BY <2>1 DEF SweepStates
<1>3. sweep' = [sweep EXCEPT ![t] = w] /\ UNCHANGED <<row, holder, overtaken>>
  BY <1>1 DEF BeginSweep
<1>4. RetentionTypeOK'
  BY <1>2, <1>3 DEF SweepsInv, RetentionTypeOK
<1> QED
  BY <1>2, <1>3, <1>4 DEF SweepsInv, RetentionTypeOK, Deleting, Ripe

(* The lock is taken while nobody deletes, and deletions go into one pair of
   hands; what is deleted without another look is what the DELETE found. *)
LEMMA SweepStepKeeps ==
  ASSUME SweepsInv, NEW t \in Sweeps, SweepStep(t)
  PROVE  SweepsInv'
<1>0. /\ sweep \in [Sweeps -> SweepStates] /\ row \in [Rows -> RowStates]
      /\ holder \in Sweeps \union {None} /\ sweep[t] \in SweepStates
      /\ sweep[t].doomed \in SUBSET Rows /\ sweep[t].found \in SUBSET Rows
      /\ overtaken \in SUBSET Rows
  BY DEF SweepsInv, RetentionTypeOK, SweepStates
<1>1. /\ NoSweep \in SweepStates /\ NoSweep.pc = "idle"
      /\ NoSweep.doomed = {} /\ NoSweep.found = {}
  BY DEF NoSweep, SweepStates
<1>2. CASE TryLock(t) /\ holder = None /\ holder' = t
           /\ sweep' = [sweep EXCEPT ![t] = Onwards(sweep[t], {})]
  <2>1. PICK w \in SweepStates : /\ w = Onwards(sweep[t], {}) /\ w.doomed = {}
                                 /\ w.found = {} /\ w.pc \in {"find", "commit"}
    BY <1>0, OnwardsType
  <2>2. sweep' = [sweep EXCEPT ![t] = w] /\ UNCHANGED <<row, overtaken>>
    BY <1>2, <2>1 DEF TryLock
  <2>3. \A u \in Sweeps : ~Deleting(u)
    BY <1>2, RetentionAssumption DEF SweepsInv
  <2>4. RetentionTypeOK'
    BY <1>0, <1>2, <2>2 DEF RetentionTypeOK
  <2> QED
    BY <1>0, <1>2, <2>1, <2>2, <2>3, <2>4 DEF SweepsInv, Deleting, Ripe
<1>3. CASE sweep[t].pc = "lock" /\ sweep' = [sweep EXCEPT ![t] = NoSweep]
           /\ UNCHANGED <<row, holder, overtaken>>
  <2>1. RetentionTypeOK'
    BY <1>0, <1>1, <1>3 DEF RetentionTypeOK
  <2> QED
    BY <1>0, <1>1, <1>3, <2>1 DEF SweepsInv, Deleting, Ripe
<1>4. CASE Find(t)
  <2>1. PICK V \in Candidates(Purges[sweep[t].k]) :
          sweep' = [sweep EXCEPT ![t] = [sweep[t] EXCEPT !.pc = "purge", !.found = V]]
    BY <1>4 DEF Find
  <2>2. V \in SUBSET Rows /\ \A r \in V : row[r].status = "dead" /\ row[r].aged
    BY <2>1 DEF Candidates, Purgeable
  <2>3. PICK w : w = [sweep[t] EXCEPT !.pc = "purge", !.found = V]
    OBVIOUS
  <2>4. w \in SweepStates /\ w.pc = "purge" /\ w.found = V /\ w.doomed = sweep[t].doomed
    BY <1>0, <2>2, <2>3 DEF SweepStates
  <2>5. sweep' = [sweep EXCEPT ![t] = w] /\ UNCHANGED <<row, holder, overtaken>> /\ Deleting(t)
    BY <1>4, <2>1, <2>3 DEF Find, Deleting
  <2>6. RetentionTypeOK'
    BY <1>0, <2>4, <2>5 DEF RetentionTypeOK
  <2> QED
    BY <1>0, <2>2, <2>4, <2>5, <2>6 DEF SweepsInv, Deleting, Ripe
<1>5. CASE Purge(t)
  <2>1. PICK V \in SUBSET Rows : V = {r \in sweep[t].found : Rechecked(r)}
    BY <1>0
  <2>2. \A r \in V : Ripe(r)
    BY <2>1 DEF SweepsInv, Rechecked, Purgeable, Ripe
  <2>3. PICK D \in SUBSET Rows : D = sweep[t].doomed \union V
    BY <1>0, <2>1
  <2>4. PICK w \in SweepStates : /\ w = Onwards(sweep[t], D) /\ w.doomed = D
                                 /\ w.found = {} /\ w.pc \in {"find", "commit"}
    BY <1>0, OnwardsType
  <2>5. /\ sweep' = [sweep EXCEPT ![t] = w] /\ overtaken' = overtaken \intersect D
        /\ UNCHANGED <<row, holder>> /\ Deleting(t)
    BY <1>5, <2>1, <2>3, <2>4 DEF Purge, Deleting
  <2>6. \A r \in D : Ripe(r)'
    <3>1. \A r \in D : Ripe(r)
      BY <2>2, <2>3 DEF SweepsInv
    <3> QED
      BY <2>5, <3>1 DEF Ripe
  <2>7. RetentionTypeOK'
    BY <1>0, <2>4, <2>5 DEF RetentionTypeOK
  <2>8. \A u \in Sweeps \ {t} : ~Deleting(u) /\ sweep[u].doomed = {} /\ sweep[u].found = {}
    BY <2>5 DEF SweepsInv, Deleting
  <2> QED
    BY <1>0, <2>4, <2>5, <2>6, <2>7, <2>8 DEF SweepsInv, Deleting
<1>6. CASE Commit(t)
  <2>1. /\ row' = [r \in Rows |-> IF r \in sweep[t].doomed THEN NoRow ELSE row[r]]
        /\ holder' = LockReleased({t}) /\ sweep' = [sweep EXCEPT ![t] = NoSweep]
        /\ overtaken' = {} /\ Deleting(t)
    BY <1>6 DEF Commit, Deleting
  <2>2. \A u \in Sweeps \ {t} : ~Deleting(u) /\ sweep[u].doomed = {} /\ sweep[u].found = {}
    BY <2>1 DEF SweepsInv, Deleting
  <2>3. NoRow \in RowStates
    BY DEF NoRow, RowStates
  <2>4. RetentionTypeOK'
    BY <1>0, <1>1, <2>1, <2>3 DEF RetentionTypeOK, LockReleased
  <2> QED
    BY <1>0, <1>1, <2>1, <2>2, <2>4 DEF SweepsInv, Deleting
<1> QED
  BY <1>2, <1>3, <1>4, <1>5, <1>6 DEF SweepStep, TryLock, LockFree

(* The lock goes only with its holder, and with it what happened meanwhile. *)
LEMMA RollbackKeeps ==
  ASSUME SweepsInv, NEW S, Rollback(S)
  PROVE  SweepsInv'
<1>1. /\ NoSweep \in SweepStates /\ NoSweep.pc = "idle"
      /\ NoSweep.doomed = {} /\ NoSweep.found = {}
  BY DEF NoSweep, SweepStates
<1>2. /\ holder' = LockReleased(S) /\ UNCHANGED row
      /\ sweep' = [t \in Sweeps |-> IF t \in S THEN NoSweep ELSE sweep[t]]
      /\ overtaken' = IF holder \in S THEN {} ELSE overtaken
  BY DEF Rollback
<1>3. RetentionTypeOK'
  BY <1>1, <1>2 DEF SweepsInv, RetentionTypeOK, LockReleased
<1>4. ASSUME NEW t \in Sweeps
      PROVE  /\ Deleting(t)' => holder' = t
             /\ ~Deleting(t)' => sweep'[t].doomed = {}
             /\ sweep'[t].pc # "purge" => sweep'[t].found = {}
             /\ \A r \in sweep'[t].doomed : Ripe(r)'
             /\ \A r \in sweep'[t].found : TableOf[r] # "agents" => Ripe(r)'
  <2>1. CASE t \in S
    BY <1>1, <1>2, <2>1 DEF Deleting
  <2>2. CASE t \notin S /\ Deleting(t)
    BY <1>2, <2>2 DEF SweepsInv, Deleting, LockReleased, Ripe
  <2>3. CASE t \notin S /\ ~Deleting(t)
    BY <1>2, <2>3 DEF SweepsInv, Deleting, LockReleased
  <2> QED
    BY <2>1, <2>2, <2>3
<1> QED
  BY <1>3, <1>4 DEF SweepsInv, Deleting

(* What a writer may make of a row: never an absent one of one that is there. *)
LEMMA WritersWrite ==
  ASSUME RetentionTypeOK, NEW r \in Rows, Insert(r) \/ End(r) \/ Revive(r) \/ Seen(r)
  PROVE  \E new \in RowStates : Write(r, new) /\ new.status # "absent"
<1>1. PICK old \in RowStates : old = row[r]
  BY DEF RetentionTypeOK
<1>2. CASE Insert(r)
  <2>1. PICK x \in BOOLEAN, status \in {"live", "dead"} :
          Write(r, [status |-> status, aged |-> x])
    BY <1>2 DEF Insert
  <2>2. [status |-> status, aged |-> x] \in RowStates
    BY DEF RowStates
  <2> QED
    BY <2>1, <2>2
<1>3. CASE End(r) \/ Revive(r)
  <2>1. PICK status \in {"live", "dead"} : Write(r, [old EXCEPT !.status = status])
    BY <1>1, <1>3 DEF End, Revive
  <2>2. [old EXCEPT !.status = status] \in RowStates
        /\ [old EXCEPT !.status = status].status = status
    BY DEF RowStates
  <2> QED
    BY <2>1, <2>2
<1>4. CASE Seen(r)
  <2>1. PICK x \in BOOLEAN : x = FALSE
    OBVIOUS
  <2>2. Write(r, [old EXCEPT !.aged = x]) /\ old.status # "absent"
    BY <1>1, <1>4, <2>1 DEF Seen
  <2>3. [old EXCEPT !.aged = x] \in RowStates /\ [old EXCEPT !.aged = x].status = old.status
    BY DEF RowStates
  <2> QED
    BY <2>2, <2>3
<1> QED
  BY <1>2, <1>3, <1>4

(* A row that a DELETE has found and only its id decides: it may die, or come
   alive in sight of the DELETE, and that is all. *)
LEMMA FoundStaysRipe ==
  ASSUME SweepsInv, NEW r \in Rows, Ripe(r), Found(r), TableOf[r] # "agents",
         Insert(r) \/ End(r) \/ Revive(r) \/ Seen(r)
  PROVE  Ripe(r)'
<1>1. row \in [Rows -> RowStates]
  BY DEF SweepsInv, RetentionTypeOK
<1>2. PICK old \in RowStates : old = row[r]
  BY <1>1
<1>3. old.status # "absent" /\ old.aged
  BY <1>2 DEF Ripe
<1>4. ASSUME NEW s \in {"live", "dead"}, row' = [row EXCEPT ![r] = [row[r] EXCEPT !.status = s]]
      PROVE  row'[r].status = s /\ row'[r].aged
  <2>1. row'[r] = [old EXCEPT !.status = s]
    BY <1>1, <1>2, <1>4
  <2> QED
    BY <1>3, <2>1 DEF RowStates
<1>5. CASE End(r)
  <2>1. row' = [row EXCEPT ![r] = [row[r] EXCEPT !.status = "dead"]]
    BY <1>5 DEF End, Write
  <2> QED
    BY <1>4, <2>1 DEF Ripe
<1>6. CASE Revive(r)
  <2>1. row' = [row EXCEPT ![r] = [row[r] EXCEPT !.status = "live"]]
    BY <1>6 DEF Revive, Write
  <2>2. TableOf[r] = "webhook_deliveries" /\ r \in overtaken'
    BY <1>6 DEF Revive, HasStatus
  <2> QED
    BY <1>4, <2>1, <2>2 DEF Ripe
<1> QED
  BY <1>2, <1>3, <1>5, <1>6 DEF Insert, Seen

(* A writer does not touch what an open transaction has deleted. *)
LEMMA WritersKeep ==
  ASSUME SweepsInv, NEW r \in Rows, Insert(r) \/ End(r) \/ Revive(r) \/ Seen(r)
  PROVE  SweepsInv'
<1>0. RetentionTypeOK
  BY DEF SweepsInv
<1>1. PICK new \in RowStates : Write(r, new)
  BY <1>0, WritersWrite
<1>2. row' = [row EXCEPT ![r] = new] /\ UNCHANGED <<sweep, holder>> /\ ~Locked(r)
  BY <1>1 DEF Write
<1>3. overtaken \subseteq overtaken' /\ overtaken' \subseteq Rows
  BY <1>0 DEF RetentionTypeOK, Insert, End, Revive, Seen
<1>4. RetentionTypeOK'
  BY <1>0, <1>2, <1>3 DEF RetentionTypeOK
<1>5. \A x \in Rows : x # r /\ Ripe(x) => Ripe(x)'
  <2>1. \A x \in Rows : x # r => row'[x] = row[x]
    BY <1>0, <1>2 DEF RetentionTypeOK
  <2> QED
    BY <1>3, <2>1 DEF Ripe
<1>6. ASSUME NEW t \in Sweeps
      PROVE  /\ \A x \in sweep[t].doomed : Ripe(x)'
             /\ \A x \in sweep[t].found : TableOf[x] # "agents" => Ripe(x)'
  <2>1. sweep[t].doomed \subseteq Rows /\ sweep[t].found \subseteq Rows
    BY <1>0 DEF RetentionTypeOK, SweepStates
  <2>2. r \notin sweep[t].doomed
    BY <1>2 DEF Locked
  <2>3. ASSUME NEW x \in sweep[t].found, TableOf[x] # "agents" PROVE Ripe(x)'
    <3>1. x \in Rows /\ Ripe(x) /\ Found(x)
      BY <2>1, <2>3 DEF SweepsInv, Found
    <3>2. CASE x = r
      BY <2>3, <3>1, <3>2, FoundStaysRipe
    <3>3. CASE x # r
      BY <1>5, <3>1, <3>3
    <3> QED
      BY <3>2, <3>3
  <2>4. ASSUME NEW x \in sweep[t].doomed PROVE Ripe(x)'
    BY <1>5, <2>1, <2>2 DEF SweepsInv
  <2> QED
    BY <2>3, <2>4
<1> QED
  BY <1>2, <1>4, <1>6 DEF SweepsInv, Deleting

LEMMA AgeKeeps ==
  ASSUME SweepsInv, NEW r \in Rows, Age(r)
  PROVE  SweepsInv' /\ \A x \in Rows : row'[x].status = row[x].status
<1>1. PICK x \in BOOLEAN : x = TRUE
  OBVIOUS
<1>2. row \in [Rows -> RowStates]
  BY DEF SweepsInv, RetentionTypeOK
<1>3. PICK old \in RowStates : old = row[r]
  BY <1>2
<1>4. PICK new : new = [old EXCEPT !.aged = x]
  OBVIOUS
<1>5. new \in RowStates /\ new.status = old.status /\ new.aged
  BY <1>1, <1>4 DEF RowStates
<1>6. row' = [row EXCEPT ![r] = new] /\ UNCHANGED <<sweep, holder, overtaken>>
  BY <1>1, <1>3, <1>4 DEF Age
<1>7. \A y \in Rows : row'[y] = IF y = r THEN new ELSE row[y]
  BY <1>2, <1>6
<1>8. RetentionTypeOK'
  BY <1>2, <1>5, <1>6 DEF SweepsInv, RetentionTypeOK
<1>9. \A y \in Rows : Ripe(y) => Ripe(y)'
  <2> SUFFICES ASSUME NEW y \in Rows, Ripe(y) PROVE Ripe(y)'
    OBVIOUS
  <2>1. row'[y].status = row[y].status /\ row'[y].aged
    BY <1>3, <1>5, <1>7 DEF Ripe
  <2> QED
    BY <1>6, <2>1 DEF Ripe
<1>10. \A t \in Sweeps : sweep[t].doomed \subseteq Rows /\ sweep[t].found \subseteq Rows
  BY DEF SweepsInv, RetentionTypeOK, SweepStates
<1>11. SweepsInv'
  BY <1>6, <1>8, <1>9, <1>10 DEF SweepsInv, Deleting
<1> QED
  BY <1>3, <1>5, <1>7, <1>11

(* Every step leaves the sweeps alone, or is one of these. *)
LEMMA StepSweeps ==
  ASSUME SweepsInv, ProcessNext
  PROVE  \/ UNCHANGED retention
         \/ \E t \in Sweeps, i \in Instances : BeginSweep(t, i)
         \/ \E t \in Sweeps : SweepStep(t)
         \/ \E S : Rollback(S)
         \/ \E r \in Rows : Age(r)
         \/ \E r \in Rows : Insert(r) \/ End(r) \/ Revive(r) \/ Seen(r)
<1>1. ASSUME NEW i \in Instances,
             \/ PostEvents(i) \/ RetentionTick(i) \/ Probe(i) \/ ProbeReady(i) \/ ProbeFails(i)
             \/ Boot(i)
      PROVE  \/ UNCHANGED retention
             \/ \E t \in Sweeps, j \in Instances : BeginSweep(t, j)
  BY <1>1 DEF PostEvents, RetentionTick, Probe, ProbeReady, ProbeFails, Boot
<1>2. ASSUME NEW i \in Instances,
             Signal(i) \/ HooksSettle(i) \/ Deadline(i) \/ Crash(i)
      PROVE  UNCHANGED retention \/ \E S : Rollback(S)
  BY <1>2 DEF Signal, HooksSettle, Deadline, Crash, Ends
<1>3. ASSUME NEW t \in Sweeps, Sweeping(t) \/ SweepFails(t)
      PROVE  SweepStep(t) \/ \E S : Rollback(S)
  BY <1>3 DEF Sweeping, SweepFails
<1>4. ASSUME NEW r \in Rows, Writes(r) \/ TimePasses(r)
      PROVE  Age(r) \/ Insert(r) \/ End(r) \/ Revive(r) \/ Seen(r)
  BY <1>4 DEF Writes, TimePasses
<1> QED
  BY <1>1, <1>2, <1>3, <1>4 DEF ProcessNext

LEMMA StepProcs ==
  ASSUME ProcessInv, ProcessNext
  PROVE  proc' \in [Instances -> Processes] /\ left' \in [fault : Nat, write : Nat]
<1>0. proc \in [Instances -> Processes] /\ left \in [fault : Nat, write : Nat]
  BY DEF ProcessInv
<1>1. left' \in [fault : Nat, write : Nat]
  <2>1. UNCHANGED left \/ Spend("fault") \/ Spend("write")
    BY DEF ProcessNext, PostEvents, RetentionTick, Probe, ProbeReady, ProbeFails, Signal,
           HooksSettle, Deadline, Crash, Boot, Sweeping, SweepFails, Writes, TimePasses
  <2> QED
    BY <1>0, <2>1 DEF Spend
<1>2. \/ UNCHANGED proc
      \/ \E i \in Instances, p \in Processes : proc' = [proc EXCEPT ![i] = p]
  <2>1. PICK yes, no \in BOOLEAN : yes = TRUE /\ no = FALSE
    OBVIOUS
  <2>2. Booted \in Processes /\ Down \in Processes
    BY DEF Booted, Down, Processes, Timers
  <2>3. ASSUME NEW i \in Instances,
               \/ PostEvents(i) \/ RetentionTick(i) \/ Probe(i) \/ ProbeReady(i)
               \/ ProbeFails(i) \/ Signal(i) \/ HooksSettle(i) \/ Deadline(i)
               \/ Crash(i) \/ Boot(i)
        PROVE  UNCHANGED proc \/ \E p \in Processes : proc' = [proc EXCEPT ![i] = p]
    <3>1. PICK q \in Processes : q = proc[i]
      BY <1>0
    <3>2. CASE PostEvents(i)
      <4>1. [q EXCEPT !.timers = q.timers \union Jobs] \in Processes
        BY DEF Processes, Timers, Jobs
      <4> QED
        BY <3>1, <3>2, <4>1 DEF PostEvents
    <3>3. CASE RetentionTick(i)
      BY <3>3 DEF RetentionTick
    <3>4. CASE Probe(i)
      <4>1. [q EXCEPT !.probe = yes] \in Processes /\ [q EXCEPT !.rotation = no] \in Processes
        BY DEF Processes
      <4> QED
        BY <2>1, <3>1, <3>4, <4>1 DEF Probe
    <3>5. CASE ProbeReady(i) \/ ProbeFails(i)
      <4>1. PICK a \in Processes : a = [q EXCEPT !.probe = no]
        <5>1. [q EXCEPT !.probe = no] \in Processes
          BY DEF Processes
        <5> QED
          BY <5>1
      <4>2. [a EXCEPT !.rotation = yes] \in Processes /\ [a EXCEPT !.rotation = no] \in Processes
        BY DEF Processes
      <4> QED
        BY <2>1, <3>1, <3>5, <4>1, <4>2 DEF ProbeReady, ProbeFails
    <3>6. CASE Signal(i)
      <4>1. PICK a \in Processes : a = [q EXCEPT !.mode = "draining"]
        <5>1. [q EXCEPT !.mode = "draining"] \in Processes
          BY DEF Processes
        <5> QED
          BY <5>1
      <4>2. [a EXCEPT !.timers = q.timers \ Timers] \in Processes
        BY DEF Processes
      <4> QED
        BY <2>2, <3>1, <3>6, <4>1, <4>2 DEF Signal, Ends
    <3>7. CASE HooksSettle(i) \/ Deadline(i) \/ Crash(i) \/ Boot(i)
      BY <2>2, <3>7 DEF HooksSettle, Deadline, Crash, Boot, Ends
    <3> QED
      BY <2>3, <3>2, <3>3, <3>4, <3>5, <3>6, <3>7
  <2>4. ASSUME NEW t \in Sweeps, Sweeping(t) \/ SweepFails(t) PROVE UNCHANGED proc
    BY <2>4 DEF Sweeping, SweepFails
  <2>5. ASSUME NEW r \in Rows, Writes(r) \/ TimePasses(r) PROVE UNCHANGED proc
    BY <2>5 DEF Writes, TimePasses
  <2> QED
    BY <2>3, <2>4, <2>5 DEF ProcessNext
<1> QED
  BY <1>0, <1>1, <1>2

LEMMA StepProcess == ProcessInv /\ [ProcessNext]_processVars => ProcessInv'
<1> SUFFICES ASSUME ProcessInv, [ProcessNext]_processVars PROVE ProcessInv'
  OBVIOUS
<1>1. CASE ProcessNext
  <2>1. SweepsInv
    BY DEF ProcessInv
  <2>2. SweepsInv'
    <3>1. CASE UNCHANGED retention
      BY <2>1, <3>1 DEF retention, SweepsInv, RetentionTypeOK, Deleting, Ripe
    <3> QED
      BY <1>1, <2>1, <3>1, StepSweeps, SweepBegins, SweepStepKeeps, RollbackKeeps, AgeKeeps,
         WritersKeep
  <2> QED
    BY <1>1, <2>2, StepProcs DEF ProcessInv
<1>2. CASE UNCHANGED processVars
  BY <1>2 DEF processVars, ProcessInv, SweepsInv, RetentionTypeOK, Deleting, Ripe
<1> QED
  BY <1>1, <1>2

LEMMA ProcessInvariant == ProcessSpec => []ProcessInv
BY InitProcess, StepProcess, PTL DEF ProcessSpec

(* Rows, sweeps, the lock and the processes stay in their types. *)
THEOREM ProcessTypeCorrect == ProcessSpec => []ProcessTypeOK
<1>1. ProcessInv => ProcessTypeOK
  BY DEF ProcessInv, SweepsInv, ProcessTypeOK
<1> QED
  BY <1>1, ProcessInvariant, PTL

(* Whatever processes sweep, fail, end and start again: at most one sweep
   deletes (retention.ts:172-178). *)
THEOREM SweepsAreAlone == ProcessSpec => []OneSweeper
<1>1. ProcessInv => OneSweeper
  BY DEF ProcessInv, SweepsInv, OneSweeper, Deleting
<1> QED
  BY <1>1, ProcessInvariant, PTL

(* No step deletes a row that an enrollment, an event or a delivery has
   brought back to life, but for a delivery that came alive in the middle of
   the DELETE that had found it (retention.ts:84-144). *)
THEOREM OnlyDeadRowsGo == ProcessSpec => LiveRowsStay
<1> DEFINE Stay == \A r \in Rows :
                      row[r].status # "absent" /\ row'[r].status = "absent"
                        => /\ row[r].aged
                           /\ \/ row[r].status = "dead"
                              \/ TableOf[r] = "webhook_deliveries" /\ r \in overtaken
<1>1. ProcessInv /\ [ProcessNext]_processVars => [Stay]_processVars
  <2> SUFFICES ASSUME ProcessInv, ProcessNext PROVE Stay
    OBVIOUS
  <2>1. SweepsInv /\ RetentionTypeOK /\ row \in [Rows -> RowStates]
    BY DEF ProcessInv, SweepsInv, RetentionTypeOK
  <2>2. CASE UNCHANGED row
    BY <2>2
  <2>3. CASE \E r \in Rows : Age(r)
    BY <2>1, <2>3, AgeKeeps
  <2>4. CASE \E r \in Rows : Insert(r) \/ End(r) \/ Revive(r) \/ Seen(r)
    <3>1. PICK r \in Rows, new \in RowStates : Write(r, new) /\ new.status # "absent"
      BY <2>1, <2>4, WritersWrite
    <3> QED
      BY <2>1, <3>1 DEF Write
  <2>5. CASE \E t \in Sweeps : Commit(t)
    BY <2>1, <2>5 DEF Commit, SweepsInv, Ripe
  <2>6. \/ UNCHANGED row
        \/ \E t \in Sweeps : Commit(t)
        \/ \E r \in Rows : Age(r)
        \/ \E r \in Rows : Insert(r) \/ End(r) \/ Revive(r) \/ Seen(r)
    BY <2>1, StepSweeps DEF retention, BeginSweep, SweepStep, TryLock, Find, Purge, Rollback
  <2> HIDE DEF Stay
  <2> QED
    BY <2>2, <2>3, <2>4, <2>5, <2>6
<1> QED
  BY <1>1, ProcessInvariant, PTL DEF ProcessSpec, LiveRowsStay

=============================================================================
