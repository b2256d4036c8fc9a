----------------------------- MODULE TrustProofs -----------------------------
(***************************************************************************)
(* Proofs about the records of issued tokens and delegations, for any      *)
(* forest of delegations, set of revocations and number of handlers, and   *)
(* about trust anchors and pinned keys, for any number of requests.        *)
(***************************************************************************)
EXTENDS TrustRecords, TrustStore, FiniteSetTheorems, WellFoundedInduction, TLAPS

-----------------------------------------------------------------------------
(* Induction over the numbers up to a bound, as a fact about sets. *)
LEMMA UpTo ==
  ASSUME NEW N \in Nat, NEW T, 0 \in T,
         \A n \in Nat : n < N /\ n \in T => n + 1 \in T
  PROVE  \A n \in 0 .. N : n \in T
<1> DEFINE Bad == {n \in Nat : n <= N /\ n \notin T}
<1>1. CASE Bad = {}
  BY <1>1
<1>2. CASE Bad # {}
  <2> DEFINE Less == {p \in Nat \X Nat : p[1] < p[2]}
  <2>0. IsWellFoundedOn(Less, Nat)
    BY NatLessThanWellFounded DEF OpToRel
  <2>1. PICK m \in Bad : \A n \in Bad : <<n, m>> \notin Less
    <3>1. Bad \subseteq Nat
      OBVIOUS
    <3> HIDE DEF Bad, Less
    <3> QED
      BY <1>2, <2>0, <3>1, WFMin
  <2>2. m # 0 /\ m - 1 \in Nat /\ m - 1 \notin Bad
    <3>1. m \in Nat /\ m # 0
      BY <2>1
    <3>2. <<m - 1, m>> \in Less
      BY <3>1
    <3> QED
      BY <2>1, <3>1, <3>2
  <2>3. m - 1 \in T /\ m - 1 < N
    BY <2>1, <2>2
  <2>4. (m - 1) + 1 \in T
    BY <2>2, <2>3
  <2> QED
    BY <2>1, <2>4
<1> QED
  BY <1>1, <1>2

-----------------------------------------------------------------------------
(* The recursive query of the cascade finds what is below the token: what its
   levels add up to is the least set that has j and is closed. *)

Grown(S) == S \union {d \in Children : deleg[d].status # "absent" /\ Parent[d] \in S}

LEMMA ChildrenFinite == IsFiniteSet(Children) /\ Cardinality(Children) \in Nat
  BY RecordsAssumption, FS_Subset, FS_CardinalityType

LEMMA LevelsGrow ==
  ASSUME NEW j \in Jtis
  PROVE  /\ Levels(j) \in [0 .. Cardinality(Children) -> SUBSET Jtis]
         /\ Levels(j)[0] = {j}
         /\ \A n \in Nat : n < Cardinality(Children) =>
               Levels(j)[n + 1] = Grown(Levels(j)[n])
<1> DEFINE N == Cardinality(Children)
           Starts(g) == g[0] = {j}
           GrowsTo(g, n) == \A m \in 1 .. n : g[m] = Grown(g[m - 1])
           T == {n \in Nat : \E g \in [0 .. n -> SUBSET Jtis] : Starts(g) /\ GrowsTo(g, n)}
<1>1. N \in Nat
  BY ChildrenFinite
<1>2. 0 \in T
  <2> DEFINE h == [m \in 0 .. 0 |-> {j}]
  <2>1. h \in [0 .. 0 -> SUBSET Jtis] /\ Starts(h)
    OBVIOUS
  <2>2. GrowsTo(h, 0)
    OBVIOUS
  <2> HIDE DEF h, Starts, GrowsTo
  <2> QED
    BY <2>1, <2>2
<1>3. ASSUME NEW n \in Nat, n \in T PROVE n + 1 \in T
  <2>1. PICK g \in [0 .. n -> SUBSET Jtis] : Starts(g) /\ GrowsTo(g, n)
    BY <1>3
  <2> DEFINE h == [m \in 0 .. n + 1 |-> IF m = n + 1 THEN Grown(g[n]) ELSE g[m]]
  <2>2. Grown(g[n]) \in SUBSET Jtis
    BY RecordsAssumption DEF Grown
  <2>3. h \in [0 .. n + 1 -> SUBSET Jtis]
    BY <2>2
  <2>4. Starts(h)
    BY <2>1
  <2>5. ASSUME NEW m \in 1 .. n + 1 PROVE h[m] = Grown(h[m - 1])
    <3>1. CASE m = n + 1
      BY <3>1
    <3>2. CASE m # n + 1
      <4>1. m \in 1 .. n /\ m - 1 \in 0 .. n
        BY <3>2
      <4>2. h[m] = g[m] /\ h[m - 1] = g[m - 1]
        BY <4>1
      <4> QED
        BY <2>1, <4>1, <4>2
    <3> QED
      BY <3>1, <3>2
  <2> HIDE DEF h
  <2> QED
    BY <2>3, <2>4, <2>5
<1>4. N \in T
  <2> HIDE DEF T
  <2> QED
    BY <1>1, <1>2, <1>3, UpTo
<1>5. PICK g \in [0 .. N -> SUBSET Jtis] : Starts(g) /\ GrowsTo(g, N)
  BY <1>4
<1> DEFINE Solves(f) == f = [n \in 0 .. N |-> IF n = 0 THEN {j}
                                ELSE f[n - 1] \union
                                  { d \in Children : /\ deleg[d].status # "absent"
                                                     /\ Parent[d] \in f[n - 1] }]
<1>6. Solves(g)
  <2>1. \A n \in 0 .. N :
          g[n] = IF n = 0 THEN {j}
                 ELSE g[n - 1] \union { d \in Children : /\ deleg[d].status # "absent"
                                                         /\ Parent[d] \in g[n - 1] }
    BY <1>1, <1>5 DEF Grown
  <2> HIDE DEF N
  <2> QED
    BY <2>1
<1>7. Levels(j) = CHOOSE f : Solves(f)
  BY DEF Levels
<1>8. Solves(Levels(j))
  <2> HIDE DEF Solves
  <2> QED
    BY <1>6, <1>7
<1>9. \A n \in 0 .. N : Levels(j)[n] = IF n = 0 THEN {j} ELSE Grown(Levels(j)[n - 1])
  <2> DEFINE L == Levels(j)
  <2>1. Solves(L)
    BY <1>8
  <2> HIDE DEF L
  <2>2. \A n \in 0 .. N : L[n] = IF n = 0 THEN {j} ELSE Grown(L[n - 1])
    BY <2>1 DEF Grown
  <2> QED
    BY <2>2 DEF L
<1>10. \A n \in 0 .. N : Levels(j)[n] \in SUBSET Jtis
  <2> DEFINE U == {n \in Nat : n <= N => Levels(j)[n] \in SUBSET Jtis}
  <2>1. 0 \in U
    BY <1>1, <1>9
  <2>2. ASSUME NEW n \in Nat, n < N, n \in U PROVE n + 1 \in U
    <3>1. Levels(j)[n + 1] = Grown(Levels(j)[n])
      BY <1>1, <1>9, <2>2
    <3> QED
      BY <1>1, <2>2, <3>1, RecordsAssumption DEF Grown
  <2> HIDE DEF U
  <2>3. \A n \in 0 .. N : n \in U
    BY <1>1, <2>1, <2>2, UpTo
  <2> QED
    BY <1>1, <2>3 DEF U
<1>11. Levels(j) = [n \in 0 .. N |-> Levels(j)[n]]
  <2> DEFINE L == Levels(j)
  <2>1. Solves(L)
    BY <1>8
  <2> HIDE DEF L
  <2>2. L = [n \in 0 .. N |-> L[n]]
    BY <2>1
  <2> QED
    BY <2>2 DEF L
<1> HIDE DEF N
<1>12. Levels(j) \in [0 .. N -> SUBSET Jtis]
  BY <1>10, <1>11
<1>13. Levels(j)[0] = {j}
  BY <1>1, <1>9
<1>14. \A n \in Nat : n < N => Levels(j)[n + 1] = Grown(Levels(j)[n])
  BY <1>1, <1>9
<1> QED
  BY <1>12, <1>13, <1>14 DEF N

(* A set that has j and takes the recorded children of its members... *)
Closed(S) ==
    \A k \in Children : deleg[k].status # "absent" /\ Parent[k] \in S => k \in S

(* ...has all levels... *)
LEMMA LevelsWithin ==
  ASSUME NEW j \in Jtis, NEW S, j \in S, Closed(S)
  PROVE  Levels(j)[Cardinality(Children)] \subseteq S
<1> DEFINE N == Cardinality(Children)
           T == {n \in Nat : n <= N => Levels(j)[n] \subseteq S}
<1>1. 0 \in T
  BY LevelsGrow
<1>2. ASSUME NEW n \in Nat, n < N, n \in T PROVE n + 1 \in T
  <2>1. Levels(j)[n + 1] = Grown(Levels(j)[n]) /\ Levels(j)[n] \subseteq S
    BY <1>2, LevelsGrow, ChildrenFinite
  <2>2. Levels(j)[n + 1] \subseteq S
    BY <2>1 DEF Grown, Closed
  <2> QED
    BY <2>2
<1>3. N \in Nat /\ N \in 0 .. N
  BY ChildrenFinite
<1>4. N \in T
  <2> HIDE DEF T, N
  <2> QED
    BY <1>1, <1>2, <1>3, UpTo
<1> QED
  BY <1>3, <1>4

(* ...and the last level is one: as long as a level is not, the next one has a
   child more, and there are only so many. *)
LEMMA LastLevelClosed ==
  ASSUME NEW j \in Jtis
  PROVE  /\ j \in Levels(j)[Cardinality(Children)]
         /\ Levels(j)[Cardinality(Children)] \in SUBSET Jtis
         /\ Closed(Levels(j)[Cardinality(Children)])
<1> DEFINE N == Cardinality(Children)
           L(n) == Levels(j)[n]
           Found(n) == L(n) \ {j}
           T == {n \in Nat : n <= N =>
                   /\ j \in L(n) /\ Found(n) \subseteq Children
                   /\ Closed(L(n)) \/ Cardinality(Found(n)) >= n}
<1>1. N \in Nat /\ N \in 0 .. N
  BY ChildrenFinite
<1>2. 0 \in T
  <2>1. L(0) = {j}
    BY LevelsGrow
  <2>2. Found(0) = {}
    BY <2>1
  <2> HIDE DEF L, Found
  <2> QED
    BY <2>1, <2>2, FS_EmptySet, L(0) \ {j} = Found(0)
<1>3. ASSUME NEW n \in Nat, n < N, n \in T PROVE n + 1 \in T
  <2>1. L(n + 1) = Grown(L(n))
    BY <1>3, LevelsGrow
  <2>2. /\ j \in L(n) /\ Found(n) \subseteq Children
        /\ Closed(L(n)) \/ Cardinality(Found(n)) >= n
    BY <1>1, <1>3
  <2>3. j \in L(n + 1) /\ Found(n + 1) \subseteq Children
    BY <2>1, <2>2 DEF Grown
  <2>4. CASE Closed(L(n))
    <3>1. L(n + 1) = L(n)
      BY <2>1, <2>4 DEF Grown, Closed
    <3> HIDE DEF L
    <3>2. Closed(L(n + 1))
      BY <2>4, <3>1
    <3> QED
      BY <2>3, <3>2
  <2>5. CASE ~Closed(L(n))
    <3>1. PICK k \in Children : k \notin L(n) /\ k \in L(n + 1)
      BY <2>1, <2>5 DEF Grown, Closed
    <3>2. IsFiniteSet(Found(n)) /\ IsFiniteSet(Found(n + 1))
      BY <2>2, <2>3, ChildrenFinite, FS_Subset
    <3>3. Found(n) \union {k} \subseteq Found(n + 1) /\ k \notin Found(n)
      BY <2>1, <2>2, <3>1 DEF Grown
    <3> HIDE DEF Found
    <3>4. /\ IsFiniteSet(Found(n) \union {k})
          /\ Cardinality(Found(n) \union {k}) = Cardinality(Found(n)) + 1
      BY <3>2, <3>3, FS_AddElement
    <3>5. Cardinality(Found(n) \union {k}) <= Cardinality(Found(n + 1))
      BY <3>2, <3>3, FS_Subset
    <3>6. Cardinality(Found(n)) \in Nat /\ Cardinality(Found(n + 1)) \in Nat
      BY <3>2, FS_CardinalityType
    <3>7. Cardinality(Found(n + 1)) >= n + 1
      BY <2>2, <2>5, <3>4, <3>5, <3>6
    <3> QED
      BY <2>3, <3>7
  <2> QED
    BY <2>4, <2>5
<1>4. N \in T
  <2> HIDE DEF T, N
  <2> QED
    BY <1>1, <1>2, <1>3, UpTo
<1>5. /\ j \in L(N) /\ Found(N) \subseteq Children
      /\ Closed(L(N)) \/ Cardinality(Found(N)) >= N
  <2> HIDE DEF L, Found, N
  <2> QED
    BY <1>1, <1>4
<1>6. Closed(L(N))
  <2>1. CASE Cardinality(Found(N)) >= N
    <3>1. Found(N) = Children
      <4> HIDE DEF Found
      <4>1. Cardinality(Found(N)) <= N /\ Cardinality(Found(N)) \in Nat
        BY <1>5, ChildrenFinite, FS_Subset, FS_CardinalityType
      <4> QED
        BY <1>1, <1>5, <2>1, <4>1, ChildrenFinite, FS_Subset
    <3> QED
      BY <3>1 DEF Closed
  <2> QED
    BY <1>5, <2>1
<1>7. L(N) \in SUBSET Jtis
  BY <1>1, LevelsGrow
<1> QED
  BY <1>5, <1>6, <1>7

(* The cascade's query is reachability, in whatever forest and however deep:
   Below is what the properties say, Descendants what the handler runs. *)
THEOREM DescendantsAreBelow ==
  ASSUME NEW j \in Jtis
  PROVE  Descendants(j) = {d \in Children : Below(d, j)}
<1> DEFINE Last == Levels(j)[Cardinality(Children)]
<1>1. Descendants(j) = {d \in Children : deleg[d].status # "absent" /\ Parent[d] \in Last}
  BY DEF Descendants, ChildrenOf
<1>2. j \in Last /\ Last \in SUBSET Jtis /\ Closed(Last)
  BY LastLevelClosed
<1>3. \A S : j \in S /\ Closed(S) => Last \subseteq S
  BY LevelsWithin
<1> HIDE DEF Last
<1>4. ASSUME NEW d \in Children, Below(d, j)
      PROVE  deleg[d].status # "absent" /\ Parent[d] \in Last
  BY <1>2, <1>4 DEF Below, Closed
<1>5. ASSUME NEW d \in Children, deleg[d].status # "absent", Parent[d] \in Last
      PROVE  Below(d, j)
  <2>1. ASSUME NEW S \in SUBSET Jtis, j \in S, Closed(S) PROVE Parent[d] \in S
    BY <1>3, <1>5, <2>1
  <2> QED
    BY <1>5, <2>1 DEF Below, Closed
<1> QED
  BY <1>1, <1>4, <1>5

-----------------------------------------------------------------------------
(* The inductive invariant of TrustRecords.  A row is held by one transaction,
   and only while it is not revoked (LocksExclusive); what a transaction holds
   or still has to lock lies below the token, or is the reported delegation
   itself, and with what is revoked already it covers what the report owes;
   that was below the token when the report came, and so it still is. *)

HandlerInv(p) ==
    /\ p.pc = "idle" => p = NoHandler
    /\ p.pc # "idle" => p.ev \in Revocations
    /\ p.pc \in {"first", "cascade", "lock"} => p.ev \in handled
    /\ p.pc \in {"emit", "first"} => ~p.hit /\ p.mine = {}
    /\ p.pc # "lock" => p.todo = {} /\ p.next = None
    /\ p.next # None => p.next \in p.todo
    /\ p.hit => p.ev.kind = "tct" /\ p.ev.jti \in Tokens
    /\ p.todo \subseteq Children
    /\ \A d \in p.mine \union p.todo :
          /\ d \in Children
          /\ Below(d, p.ev.jti) \/ (p.ev.kind = "delegation" /\ d = p.ev.jti)
    /\ p.pc = "lock" => \A d \in under[p.ev] :
          d \in p.mine \union p.todo \/ deleg[d].status = "revoked"

OwedBelow == \A e \in handled : \A d \in under[e] : Below(d, e.jti)

RecordsInv ==
    /\ TypeOK
    /\ LocksExclusive
    /\ \A w \in Workers : HandlerInv(proj[w])
    /\ OwedBelow
    /\ CascadeComplete
    /\ RevocationsAttributed

(* Records are only added, so that what is below a token stays below it. *)
LEMMA BelowStays ==
  ASSUME \A k \in Children : deleg[k].status # "absent" => deleg'[k].status # "absent"
  PROVE  \A j : \A d \in Children : Below(d, j) => Below(d, j)'
<1> SUFFICES ASSUME NEW j, NEW d \in Children, Below(d, j) PROVE Below(d, j)'
  OBVIOUS
<1>1. ASSUME NEW S \in SUBSET Jtis, j \in S,
             \A k \in Children : deleg'[k].status # "absent" /\ Parent[k] \in S => k \in S
      PROVE  Parent[d] \in S
  BY <1>1 DEF Below
<1> QED
  BY <1>1 DEF Below

LEMMA InitRecords == Init => RecordsInv
<1> SUFFICES ASSUME Init PROVE RecordsInv
  OBVIOUS
<1>1. TypeOK
  BY RecordsAssumption DEF Init, TypeOK, Live, NoRecord, Handlers, NoHandler
<1>2. LocksExclusive
  BY DEF Init, LocksExclusive, NoHandler
<1>3. \A w \in Workers : HandlerInv(proj[w])
  BY DEF Init, HandlerInv, NoHandler
<1>4. CascadeComplete
  BY RecordsAssumption DEF Init, CascadeComplete, NoRecord
<1>5. RevocationsAttributed /\ OwedBelow
  BY RecordsAssumption DEF Init, RevocationsAttributed, OwedBelow, NoRecord
<1> QED
  BY <1>1, <1>2, <1>3, <1>4, <1>5 DEF RecordsInv

(* A step of one handler that touches nothing but the handler. *)
LEMMA HandlerMoves ==
  ASSUME RecordsInv, NEW w \in Workers, NEW p \in Handlers,
         proj' = [proj EXCEPT ![w] = p],
         entries' \in SUBSET Jtis, faults' \in Nat,
         UNCHANGED <<tct, deleg, handled, under>>,
         HandlerInv(p),
         \A v \in Workers \ {w} :
             /\ proj[v].mine \intersect p.mine = {}
             /\ proj[v].hit /\ p.hit => Jti(v) # p.ev.jti,
         p.hit => tct[p.ev.jti].status = "active",
         \A d \in p.mine : deleg[d].status = "active"
  PROVE  RecordsInv'
<1>1. /\ proj \in [Workers -> Handlers] /\ proj'[w] = p
      /\ \A v \in Workers \ {w} : proj'[v] = proj[v]
  BY DEF RecordsInv, TypeOK
<1>2. TypeOK'
  BY DEF RecordsInv, TypeOK, Stamps, Live
<1>3. LocksExclusive'
  BY <1>1 DEF RecordsInv, LocksExclusive, Jti
<1>4. ASSUME NEW v \in Workers PROVE HandlerInv(proj[v])'
  <2>1. \A d, j : Below(d, j)' <=> Below(d, j)
    BY DEF Below
  <2>2. PICK q : q = proj'[v] /\ HandlerInv(q)
    BY <1>1 DEF RecordsInv
  <2>3. HandlerInv(q)'
    BY <2>1, <2>2 DEF HandlerInv
  <2> QED
    BY <2>2, <2>3 DEF HandlerInv
<1>5. OwedBelow' /\ CascadeComplete' /\ RevocationsAttributed'
  BY DEF RecordsInv, OwedBelow, CascadeComplete, RevocationsAttributed, Below
<1> QED
  BY <1>2, <1>3, <1>4, <1>5 DEF RecordsInv

(* A handler that ends without having changed anything. *)
LEMMA HandlerReturns ==
  ASSUME RecordsInv, NEW w \in Workers, Return(w), faults' \in Nat,
         UNCHANGED <<entries, tct, deleg, handled, under>>
  PROVE  RecordsInv'
<1>1. NoHandler \in Handlers
  BY DEF NoHandler, Handlers
<1>2. HandlerInv(NoHandler)
  BY DEF HandlerInv, NoHandler
<1>3. entries' \in SUBSET Jtis /\ ~NoHandler.hit /\ NoHandler.mine = {}
  BY DEF RecordsInv, TypeOK, NoHandler
<1> QED
  BY <1>1, <1>2, <1>3, HandlerMoves DEF Return

(* The steps of a transaction, one by one: what it takes is free, and covers
   what is owed. *)
LEMMA FirstKeeps ==
  ASSUME RecordsInv, NEW w \in Workers, First(w)
  PROVE  RecordsInv'
<1> DEFINE j == proj[w].ev.jti
<1>0. /\ proj[w] \in Handlers /\ HandlerInv(proj[w]) /\ proj[w].pc = "first"
      /\ UNCHANGED <<entries, tct, deleg, handled, under, faults>>
      /\ entries \in SUBSET Jtis /\ faults \in Nat
  BY DEF RecordsInv, TypeOK, First, At
<1>1. /\ proj[w].ev \in Revocations /\ proj[w].ev \in handled /\ j \in Jtis
      /\ ~proj[w].hit /\ proj[w].mine = {} /\ proj[w].todo = {} /\ proj[w].next = None
  BY <1>0, RecordsAssumption DEF HandlerInv, Handlers
<1>2. CASE /\ proj[w].ev.kind = "tct"
           /\ ~TctHeld(Jti(w), w)
           /\ proj' = [proj EXCEPT ![w] =
                [proj[w] EXCEPT !.pc = "cascade", !.hit = (j \in Tokens /\ tct[j].status = "active")]]
  <2> DEFINE p == [proj[w] EXCEPT !.pc = "cascade",
                                  !.hit = (j \in Tokens /\ tct[j].status = "active")]
  <2>1. p \in Handlers /\ p.ev = proj[w].ev /\ p.mine = {} /\ p.todo = {} /\ p.next = None
        /\ p.pc = "cascade" /\ p.hit = (j \in Tokens /\ tct[j].status = "active")
    BY <1>0, <1>1 DEF Handlers
  <2>2. proj' = [proj EXCEPT ![w] = p]
    BY <1>2
  <2> HIDE DEF p
  <2>3. HandlerInv(p)
    BY <1>1, <1>2, <2>1 DEF HandlerInv
  <2>4. \A v \in Workers \ {w} : proj[v].hit => Jti(v) # j
    BY <1>2 DEF TctHeld, Jti
  <2> QED
    BY <1>0, <2>1, <2>2, <2>3, <2>4, HandlerMoves
<1>3. CASE /\ proj[w].ev.kind = "delegation"
           /\ ~Held(Jti(w), w)
           /\ proj' = [proj EXCEPT ![w] =
                [proj[w] EXCEPT !.pc = "cascade", !.mine = {d \in {j} \cap Children : Matches(d)}]]
  <2> DEFINE M == {d \in {j} \cap Children : Matches(d)}
             p == [proj[w] EXCEPT !.pc = "cascade", !.mine = M]
  <2>1. p \in Handlers /\ p.ev = proj[w].ev /\ p.mine = M /\ p.todo = {} /\ p.next = None
        /\ p.pc = "cascade" /\ ~p.hit
    BY <1>0, <1>1 DEF Handlers
  <2>2. proj' = [proj EXCEPT ![w] = p]
    BY <1>3
  <2>3. M \subseteq {j} \intersect Children /\ \A d \in M : deleg[d].status = "active"
    BY DEF Matches
  <2>4. \A v \in Workers \ {w} : proj[v].mine \intersect M = {}
    BY <1>3, <2>3 DEF Held, Jti
  <2> HIDE DEF p, M
  <2>5. HandlerInv(p)
    BY <1>1, <1>3, <2>1, <2>3 DEF HandlerInv
  <2> QED
    BY <1>0, <2>1, <2>2, <2>3, <2>4, <2>5, HandlerMoves
<1> QED
  BY <1>2, <1>3 DEF First, Jti

LEMMA CascadeKeeps ==
  ASSUME RecordsInv, NEW w \in Workers, Cascade(w)
  PROVE  RecordsInv'
<1> DEFINE j == proj[w].ev.jti
           R == {d \in Descendants(j) : Matches(d)} \ proj[w].mine
           p == [proj[w] EXCEPT !.pc = "lock", !.todo = R]
<1>0. /\ proj[w] \in Handlers /\ HandlerInv(proj[w]) /\ proj[w].pc = "cascade"
      /\ UNCHANGED <<entries, tct, deleg, handled, under, faults>>
      /\ entries \in SUBSET Jtis /\ faults \in Nat
      /\ deleg \in [Children -> Live({"explicit", "parent_revoked"})]
      /\ under \in [Revocations -> SUBSET Children]
  BY DEF RecordsInv, TypeOK, Cascade, At
<1>1. /\ proj[w].ev \in Revocations /\ proj[w].ev \in handled /\ j \in Jtis
      /\ proj[w].todo = {} /\ proj[w].next = None
  BY <1>0, RecordsAssumption DEF HandlerInv, Handlers
<1>2. Descendants(j) = {d \in Children : Below(d, j)}
  BY <1>1, DescendantsAreBelow
<1>3. /\ R \subseteq Children /\ R \subseteq Jtis
      /\ \A d \in R : Below(d, j)
      /\ \A d \in Children : Below(d, j) /\ deleg[d].status = "active"
            => d \in proj[w].mine \union R
  BY <1>2, RecordsAssumption DEF Matches
<1>4. \A d \in under[proj[w].ev] : Below(d, j) /\ d \in Children
  BY <1>0, <1>1 DEF RecordsInv, OwedBelow
<1>5. \A d \in under[proj[w].ev] : d \in proj[w].mine \union R \/ deleg[d].status = "revoked"
  <2> SUFFICES ASSUME NEW d \in under[proj[w].ev]
               PROVE  d \in proj[w].mine \union R \/ deleg[d].status = "revoked"
    OBVIOUS
  <2>1. deleg[d].status \in {"active", "revoked"}
    BY <1>0, <1>4 DEF Below, Live
  <2> HIDE DEF R
  <2> QED
    BY <1>3, <1>4, <2>1
<1>6. proj' = [proj EXCEPT ![w] = p]
  BY DEF Cascade, Jti
<1> HIDE DEF R
<1>7. /\ p \in Handlers /\ p.ev = proj[w].ev /\ p.mine = proj[w].mine /\ p.todo = R
      /\ p.next = None /\ p.pc = "lock" /\ p.hit = proj[w].hit
  BY <1>0, <1>1, <1>3 DEF Handlers
<1> HIDE DEF p
<1>8. HandlerInv(p)
  BY <1>0, <1>1, <1>3, <1>5, <1>7 DEF HandlerInv
<1>9. /\ \A v \in Workers \ {w} :
             /\ proj[v].mine \intersect p.mine = {}
             /\ proj[v].hit /\ p.hit => Jti(v) # p.ev.jti
      /\ p.hit => tct[p.ev.jti].status = "active"
      /\ \A d \in p.mine : deleg[d].status = "active"
  BY <1>7 DEF RecordsInv, LocksExclusive, Jti
<1> QED
  BY <1>0, <1>6, <1>7, <1>8, <1>9, HandlerMoves

LEMMA NextRowKeeps ==
  ASSUME RecordsInv, NEW w \in Workers, NextRow(w)
  PROVE  RecordsInv'
<1>0. /\ proj[w] \in Handlers /\ HandlerInv(proj[w]) /\ proj[w].pc = "lock"
      /\ UNCHANGED <<entries, tct, deleg, handled, under, faults>>
      /\ entries \in SUBSET Jtis /\ faults \in Nat
  BY DEF RecordsInv, TypeOK, NextRow, At
<1>1. PICK d \in proj[w].todo : proj' = [proj EXCEPT ![w] = [proj[w] EXCEPT !.next = d]]
  BY DEF NextRow
<1> DEFINE p == [proj[w] EXCEPT !.next = d]
<1>2. d \in Jtis
  BY <1>0, <1>1 DEF Handlers
<1>3. /\ p \in Handlers /\ p.ev = proj[w].ev /\ p.mine = proj[w].mine /\ p.todo = proj[w].todo
      /\ p.next = d /\ p.pc = "lock" /\ p.hit = proj[w].hit
  BY <1>0, <1>2 DEF Handlers
<1>4. proj' = [proj EXCEPT ![w] = p]
  BY <1>1
<1> HIDE DEF p
<1>5. HandlerInv(p)
  BY <1>0, <1>1, <1>3 DEF HandlerInv
<1>6. /\ \A v \in Workers \ {w} :
             /\ proj[v].mine \intersect p.mine = {}
             /\ proj[v].hit /\ p.hit => Jti(v) # p.ev.jti
      /\ p.hit => tct[p.ev.jti].status = "active"
      /\ \A c \in p.mine : deleg[c].status = "active"
  BY <1>3 DEF RecordsInv, LocksExclusive, Jti
<1> QED
  BY <1>0, <1>3, <1>4, <1>5, <1>6, HandlerMoves

LEMMA LockRowKeeps ==
  ASSUME RecordsInv, NEW w \in Workers, LockRow(w)
  PROVE  RecordsInv'
<1> DEFINE d == proj[w].next
           R == proj[w].todo \ {d}
           M == proj[w].mine \union {x \in {d} : Matches(x)}
           p == [proj[w] EXCEPT !.next = None, !.todo = R, !.mine = M]
<1>0. /\ proj[w] \in Handlers /\ HandlerInv(proj[w]) /\ proj[w].pc = "lock"
      /\ UNCHANGED <<entries, tct, deleg, handled, under, faults>>
      /\ entries \in SUBSET Jtis /\ faults \in Nat
      /\ deleg \in [Children -> Live({"explicit", "parent_revoked"})]
      /\ d # None /\ ~Held(d, w)
  BY DEF RecordsInv, TypeOK, LockRow, At
<1>1. d \in proj[w].todo /\ d \in Jtis /\ d \in Children /\ proj[w].ev \in handled
  BY <1>0 DEF HandlerInv, Handlers
<1>2. proj' = [proj EXCEPT ![w] = p]
  BY DEF LockRow
<1>3. /\ p \in Handlers /\ p.ev = proj[w].ev /\ p.mine = M /\ p.todo = R
      /\ p.next = None /\ p.pc = "lock" /\ p.hit = proj[w].hit
  BY <1>0, <1>1 DEF Handlers
<1>4. M \subseteq proj[w].mine \union {d} /\ \A c \in M : deleg[c].status = "active"
  BY DEF Matches, RecordsInv, LocksExclusive
<1>5. \A v \in Workers \ {w} : proj[v].mine \intersect M = {}
  BY <1>0, <1>4 DEF Held, RecordsInv, LocksExclusive
<1>6. M \union R \subseteq proj[w].mine \union proj[w].todo
  BY <1>1
<1>7. \A c \in under[proj[w].ev] : c \in M \union R \/ deleg[c].status = "revoked"
  <2> SUFFICES ASSUME NEW c \in under[proj[w].ev], c = d, ~Matches(d)
               PROVE  deleg[c].status = "revoked"
    BY <1>0 DEF HandlerInv
  <2>1. Below(d, proj[w].ev.jti)
    BY <1>1 DEF RecordsInv, OwedBelow
  <2>2. deleg[d].status # "absent" /\ deleg[d].status # "active"
    BY <2>1 DEF Below, Matches
  <2> QED
    BY <1>0, <1>1, <2>2 DEF Live
<1> HIDE DEF p, M, R
<1>8. R \subseteq proj[w].todo /\ (p.next # None => p.next \in p.todo)
  BY <1>3 DEF R
<1>9. HandlerInv(p)
  BY <1>0, <1>3, <1>6, <1>7, <1>8 DEF HandlerInv
<1>10. /\ \A v \in Workers \ {w} : proj[v].hit /\ p.hit => Jti(v) # p.ev.jti
       /\ p.hit => tct[p.ev.jti].status = "active"
  BY <1>3 DEF RecordsInv, LocksExclusive, Jti
<1> QED
  BY <1>0, <1>2, <1>3, <1>4, <1>5, <1>9, <1>10, HandlerMoves

LEMMA AddEntryKeeps ==
  ASSUME RecordsInv, NEW w \in Workers, NEW e \in Revocations, AddEntry(w, e)
  PROVE  RecordsInv'
<1> DEFINE p == [NoHandler EXCEPT !.pc = "emit", !.ev = e]
<1>1. /\ p \in Handlers /\ p.pc = "emit" /\ p.ev = e
      /\ ~p.hit /\ p.mine = {} /\ p.todo = {} /\ p.next = None
  BY DEF NoHandler, Handlers
<1>2. proj' = [proj EXCEPT ![w] = p] /\ UNCHANGED <<tct, deleg, handled, under>>
  BY DEF AddEntry
<1>3. entries' \in SUBSET Jtis /\ faults' \in Nat
  BY RecordsAssumption DEF AddEntry, RecordsInv, TypeOK
<1> HIDE DEF p
<1>4. HandlerInv(p)
  BY <1>1 DEF HandlerInv
<1> QED
  BY <1>1, <1>2, <1>3, <1>4, HandlerMoves

(* The handler of e begins: what e owes is cut down to what is below the token
   now, and is owed to e alone. *)
LEMMA BeginKeeps ==
  ASSUME RecordsInv, NEW w \in Workers, NEW e \in Revocations, Begin(w, e),
         UNCHANGED <<entries, tct, deleg, faults>>
  PROVE  RecordsInv'
<1> DEFINE p == [NoHandler EXCEPT !.pc = "first", !.ev = e]
<1>1. /\ p \in Handlers /\ p.pc = "first" /\ p.ev = e
      /\ ~p.hit /\ p.mine = {} /\ p.todo = {} /\ p.next = None
  BY DEF NoHandler, Handlers
<1>2. /\ proj' = [proj EXCEPT ![w] = p]
      /\ handled' = handled \union {e}
      /\ under' = [under EXCEPT ![e] = {d \in under[e] : Below(d, e.jti)}]
  BY DEF Begin
<1>3. /\ proj \in [Workers -> Handlers] /\ under \in [Revocations -> SUBSET Children]
      /\ handled \subseteq Revocations
  BY DEF RecordsInv, TypeOK
<1> HIDE DEF p
<1>4. /\ \A f \in Revocations : under'[f] \subseteq under[f]
      /\ \A d \in under'[e] : Below(d, e.jti)
  BY <1>2, <1>3
<1>5. \A d, j : Below(d, j)' <=> Below(d, j)
  BY DEF Below
<1>6. TypeOK'
  BY <1>1, <1>2, <1>3 DEF RecordsInv, TypeOK, Stamps, Live
<1>7. LocksExclusive'
  BY <1>1, <1>2, <1>3 DEF RecordsInv, LocksExclusive, Jti
<1>8. ASSUME NEW v \in Workers PROVE HandlerInv(proj[v])'
  <2>1. CASE v = w
    <3>1. proj'[v] = p
      BY <1>2, <1>3, <2>1
    <3> QED
      BY <1>1, <1>2, <3>1 DEF HandlerInv
  <2>2. CASE v # w
    <3>1. PICK q \in Handlers : q = proj[v] /\ q = proj'[v] /\ HandlerInv(q)
      BY <1>2, <1>3, <2>2 DEF RecordsInv
    <3>2. HandlerInv(q)'
      BY <1>2, <1>4, <1>5, <3>1 DEF HandlerInv
    <3> QED
      BY <3>1, <3>2 DEF HandlerInv
  <2> QED
    BY <2>1, <2>2
<1>9. OwedBelow'
  BY <1>2, <1>3, <1>4, <1>5 DEF RecordsInv, OwedBelow
<1>10. CascadeComplete'
  BY <1>4 DEF RecordsInv, CascadeComplete
<1>11. RevocationsAttributed'
  BY <1>2, <1>5 DEF RecordsInv, RevocationsAttributed
<1> QED
  BY <1>6, <1>7, <1>8, <1>9, <1>10, <1>11 DEF RecordsInv

(* A new record is below what it is below of; it changes no other record, and
   nobody holds it. *)
LEMMA InsertsKeep ==
  ASSUME RecordsInv,
         \/ \E j \in Tokens : RecordIssued(j)
         \/ \E d \in Children : RecordDelegation(d)
  PROVE  RecordsInv'
<1>1. /\ tct \in [Tokens -> Live({None})]
      /\ deleg \in [Children -> Live({"explicit", "parent_revoked"})]
      /\ proj \in [Workers -> Handlers] /\ under \in [Revocations -> SUBSET Children]
      /\ UNCHANGED <<entries, proj, handled, under, faults>>
  BY DEF RecordsInv, TypeOK, RecordIssued, RecordDelegation
<1>2. Recorded \in Live({None}) /\ Recorded \in Live({"explicit", "parent_revoked"})
      /\ Recorded.status = "active" /\ Recorded.revokedAt = None /\ Recorded.reason = None
  BY DEF Recorded, NoRecord, Live
<1>3. /\ tct' \in [Tokens -> Live({None})]
      /\ \A j \in Tokens : tct'[j] = tct[j] \/ (tct[j].status = "absent" /\ tct'[j] = Recorded)
  BY <1>1, <1>2 DEF RecordIssued, RecordDelegation
<1>4. /\ deleg' \in [Children -> Live({"explicit", "parent_revoked"})]
      /\ \A d \in Children :
            deleg'[d] = deleg[d] \/ (deleg[d].status = "absent" /\ deleg'[d] = Recorded)
  BY <1>1, <1>2 DEF RecordIssued, RecordDelegation
<1>5. \A j : \A d \in Children : Below(d, j) => Below(d, j)'
  BY <1>2, <1>4, BelowStays
<1>6. TypeOK'
  BY <1>1, <1>3, <1>4 DEF RecordsInv, TypeOK, Stamps, Live
<1>7. LocksExclusive'
  <2>1. \A w \in Workers : proj[w].hit => Jti(w) \in Tokens
    BY DEF RecordsInv, HandlerInv, Jti
  <2>2. \A w \in Workers : proj[w].mine \subseteq Children
    BY DEF RecordsInv, HandlerInv
  <2> QED
    BY <1>1, <1>2, <1>3, <1>4, <2>1, <2>2 DEF RecordsInv, LocksExclusive, Jti
<1>8. ASSUME NEW w \in Workers PROVE HandlerInv(proj[w])'
  <2>1. PICK q \in Handlers : q = proj[w] /\ q = proj'[w] /\ HandlerInv(q)
    BY <1>1 DEF RecordsInv
  <2>2. \A d \in Children : deleg[d].status = "revoked" => deleg'[d].status = "revoked"
    BY <1>4
  <2>3. q.pc = "lock" => under[q.ev] \subseteq Children
    BY <1>1, <2>1 DEF HandlerInv
  <2>4. HandlerInv(q)'
    BY <1>1, <1>5, <2>1, <2>2, <2>3 DEF HandlerInv
  <2> QED
    BY <2>1, <2>4 DEF HandlerInv
<1>9. OwedBelow'
  BY <1>1, <1>5 DEF RecordsInv, TypeOK, OwedBelow
<1>10. CascadeComplete'
  BY <1>1, <1>2, <1>3, <1>4, RecordsAssumption DEF RecordsInv, CascadeComplete
<1>11. RevocationsAttributed'
  BY <1>1, <1>2, <1>4, <1>5, RecordsAssumption DEF RecordsInv, RevocationsAttributed
<1> QED
  BY <1>6, <1>7, <1>8, <1>9, <1>10, <1>11 DEF RecordsInv

(* The COMMIT: what the transaction holds is revoked by its event, which is
   then complete, and what others hold is not among it. *)
LEMMA CommitKeeps ==
  ASSUME RecordsInv, NEW w \in Workers, Commit(w)
  PROVE  /\ RecordsInv'
         /\ \A j \in Tokens : tct[j].status = "revoked" => tct'[j] = tct[j]
         /\ \A d \in Children : deleg[d].status = "revoked" => deleg'[d] = deleg[d]
<1> DEFINE M == proj[w].mine
           hit == proj[w].hit
<1>0. /\ proj \in [Workers -> Handlers] /\ under \in [Revocations -> SUBSET Children]
      /\ tct \in [Tokens -> Live({None})]
      /\ deleg \in [Children -> Live({"explicit", "parent_revoked"})]
      /\ HandlerInv(proj[w]) /\ proj[w].pc = "lock" /\ proj[w].todo = {}
      /\ handled \subseteq Revocations
      /\ UNCHANGED <<entries, handled, under, faults>>
  BY DEF RecordsInv, TypeOK, Commit, At
<1>1. PICK e \in handled : e = proj[w].ev
  BY <1>0 DEF HandlerInv
<1>2. /\ e \in Revocations /\ e.jti \in Jtis /\ e.ts \in Stamps
      /\ e.kind \in {"tct", "delegation"} /\ e.ts # None
  BY <1>0, <1>1, RecordsAssumption DEF Stamps
<1>3. /\ M \subseteq Children
      /\ hit => e.kind = "tct" /\ e.jti \in Tokens
      /\ \A d \in M : Below(d, e.jti) \/ (e.kind = "delegation" /\ d = e.jti)
      /\ \A d \in under[e] : d \in M \/ deleg[d].status = "revoked"
  BY <1>0, <1>1 DEF HandlerInv
<1>4. /\ tct' = IF hit THEN [tct EXCEPT ![e.jti] = RevokedBy(e, None)] ELSE tct
      /\ deleg' = [d \in Children |-> IF d \in M THEN RevokedBy(e, Reason(e, d)) ELSE deleg[d]]
      /\ proj' = [proj EXCEPT ![w] = NoHandler]
  BY <1>1 DEF Commit, Return
<1>5. \A r : RevokedBy(e, r) = [status |-> "revoked", revokedAt |-> e.ts, reason |-> r]
  BY DEF RevokedBy
<1>6. \A d : Reason(e, d) \in {"explicit", "parent_revoked"}
  BY DEF Reason
<1>7. /\ hit => tct[e.jti].status = "active"
      /\ \A d \in M : deleg[d].status = "active"
      /\ \A v \in Workers \ {w} :
            /\ proj[v].mine \intersect M = {}
            /\ proj[v].hit /\ hit => proj[v].ev.jti # e.jti
  BY <1>1 DEF RecordsInv, LocksExclusive, Jti
<1> HIDE DEF M, hit
<1>8. /\ tct' \in [Tokens -> Live({None})]
      /\ \A j \in Tokens : tct'[j] = IF hit /\ j = e.jti THEN RevokedBy(e, None) ELSE tct[j]
  <2>1. RevokedBy(e, None) \in Live({None})
    BY <1>2, <1>5 DEF Live
  <2> QED
    BY <1>0, <1>4, <2>1
<1>9. /\ deleg' \in [Children -> Live({"explicit", "parent_revoked"})]
      /\ \A d \in Children :
            deleg'[d] = IF d \in M THEN RevokedBy(e, Reason(e, d)) ELSE deleg[d]
  <2>1. \A d : RevokedBy(e, Reason(e, d)) \in Live({"explicit", "parent_revoked"})
    BY <1>2, <1>5, <1>6 DEF Live
  <2> QED
    BY <1>0, <1>4, <2>1
<1>10. \A j : \A d \in Children : Below(d, j) => Below(d, j)'
  <2>1. \A k \in Children : deleg[k].status # "absent" => deleg'[k].status # "absent"
    BY <1>5, <1>9
  <2> QED
    BY <2>1, BelowStays
<1>11. /\ \A j \in Tokens : tct[j].status = "revoked" => tct'[j] = tct[j]
       /\ \A d \in Children : deleg[d].status = "revoked" => deleg'[d] = deleg[d]
  BY <1>7, <1>8, <1>9
<1>12. NoHandler \in Handlers /\ ~NoHandler.hit /\ NoHandler.mine = {}
  BY DEF NoHandler, Handlers
<1>13. TypeOK'
  BY <1>0, <1>4, <1>8, <1>9, <1>12 DEF RecordsInv, TypeOK, Stamps, Live
<1>14. LocksExclusive'
  <2>1. \A v \in Workers : proj[v].mine \subseteq Children
                           /\ (proj[v].hit => proj[v].ev.jti \in Tokens)
    BY DEF RecordsInv, HandlerInv
  <2>2. \A v \in Workers \ {w} : proj'[v] = proj[v]
    BY <1>0, <1>4
  <2>3. proj'[w] = NoHandler
    BY <1>0, <1>4
  <2>4. ASSUME NEW v \in Workers
        PROVE  /\ proj'[v].hit => tct'[proj'[v].ev.jti].status = "active"
               /\ \A d \in proj'[v].mine : deleg'[d].status = "active"
    <3>1. CASE v = w
      BY <1>12, <2>3, <3>1
    <3>2. CASE v # w
      BY <1>7, <1>8, <1>9, <2>1, <2>2, <3>2 DEF RecordsInv, LocksExclusive, Jti
    <3> QED
      BY <3>1, <3>2
  <2> QED
    BY <1>12, <2>2, <2>3, <2>4 DEF RecordsInv, LocksExclusive, Jti
<1>15. ASSUME NEW v \in Workers PROVE HandlerInv(proj[v])'
  <2>1. CASE v = w
    <3>1. proj'[v] = NoHandler
      BY <1>0, <1>4, <2>1
    <3> QED
      BY <3>1 DEF HandlerInv, NoHandler
  <2>2. CASE v # w
    <3>1. PICK q \in Handlers : q = proj[v] /\ q = proj'[v] /\ HandlerInv(q)
      BY <1>0, <1>4, <2>2 DEF RecordsInv
    <3>2. q.pc = "lock" => under[q.ev] \subseteq Children
      BY <1>0, <3>1 DEF HandlerInv
    <3>3. HandlerInv(q)'
      BY <1>0, <1>10, <1>11, <3>1, <3>2 DEF HandlerInv
    <3> QED
      BY <3>1, <3>3 DEF HandlerInv
  <2> QED
    BY <2>1, <2>2
<1>16. OwedBelow'
  BY <1>0, <1>10 DEF RecordsInv, OwedBelow
<1>17. \A d \in under[e] : deleg'[d].status = "revoked"
  BY <1>0, <1>2, <1>3, <1>5, <1>9, <1>11
<1>18. CascadeComplete'
  <2> SUFFICES ASSUME NEW f \in Revocations,
                      \/ f.kind = "tct" /\ f.jti \in Tokens /\ tct'[f.jti].revokedAt = f.ts
                      \/ /\ f.kind = "delegation" /\ f.jti \in Children
                         /\ deleg'[f.jti].revokedAt = f.ts
                         /\ deleg'[f.jti].reason = "explicit"
               PROVE  \A d \in under[f] : deleg'[d].status = "revoked"
    BY <1>0 DEF CascadeComplete
  <2>1. CASE f = e
    BY <1>17, <2>1
  <2>2. CASE f # e
    <3>1. \/ f.kind = "tct" /\ f.jti \in Tokens /\ tct[f.jti].revokedAt = f.ts
          \/ /\ f.kind = "delegation" /\ f.jti \in Children
             /\ deleg[f.jti].revokedAt = f.ts /\ deleg[f.jti].reason = "explicit"
      <4>1. CASE f.kind = "tct" /\ f.jti \in Tokens /\ tct'[f.jti].revokedAt = f.ts
        BY <1>2, <1>3, <1>5, <1>8, <2>2, <4>1, RecordsAssumption
      <4>2. CASE /\ f.kind = "delegation" /\ f.jti \in Children
                 /\ deleg'[f.jti].revokedAt = f.ts /\ deleg'[f.jti].reason = "explicit"
        BY <1>2, <1>3, <1>5, <1>9, <2>2, <4>2, RecordsAssumption DEF Reason
      <4> QED
        BY <4>1, <4>2
    <3>2. \A d \in under[f] : deleg[d].status = "revoked"
      BY <3>1 DEF RecordsInv, CascadeComplete
    <3> QED
      BY <1>0, <1>11, <3>2
  <2> QED
    BY <2>1, <2>2
<1>19. RevocationsAttributed'
  <2> SUFFICES ASSUME NEW d \in Children
               PROVE  /\ deleg'[d].reason = "explicit" =>
                            \E f \in handled : /\ f.kind = "delegation" /\ f.jti = d
                                               /\ f.ts = deleg'[d].revokedAt
                      /\ deleg'[d].reason = "parent_revoked" =>
                            \E f \in handled : Below(d, f.jti)' /\ f.ts = deleg'[d].revokedAt
    BY <1>0 DEF RevocationsAttributed
  <2>1. CASE d \in M
    <3>1. deleg'[d].revokedAt = e.ts /\ deleg'[d].reason = Reason(e, d)
      BY <1>5, <1>9, <2>1
    <3>2. CASE e.kind = "delegation" /\ d = e.jti
      BY <1>1, <3>1, <3>2 DEF Reason
    <3>3. CASE ~(e.kind = "delegation" /\ d = e.jti)
      <4>1. deleg'[d].reason = "parent_revoked"
        BY <3>1, <3>3 DEF Reason
      <4>2. Below(d, e.jti)'
        BY <1>3, <1>10, <2>1, <3>3
      <4> QED
        BY <1>1, <3>1, <4>1, <4>2
    <3> QED
      BY <3>2, <3>3
  <2>2. CASE d \notin M
    BY <1>9, <1>10, <2>2 DEF RecordsInv, RevocationsAttributed
  <2> QED
    BY <2>1, <2>2
<1> QED
  BY <1>11, <1>13, <1>14, <1>15, <1>16, <1>18, <1>19 DEF RecordsInv

LEMMA StepRecords == RecordsInv /\ [Next]_vars => RecordsInv'
<1> SUFFICES ASSUME RecordsInv, [Next]_vars PROVE RecordsInv'
  OBVIOUS
<1>1. CASE \E j \in Tokens : RecordIssued(j)
  BY <1>1, InsertsKeep
<1>2. CASE \E d \in Children : RecordDelegation(d)
  BY <1>2, InsertsKeep
<1>3. ASSUME NEW w \in Workers, NEW e \in Revocations, Report(w, e)
      PROVE  RecordsInv'
  BY <1>3, BeginKeeps DEF Report
<1>4. ASSUME NEW w \in Workers, NEW e \in Revocations, AddEntry(w, e)
      PROVE  RecordsInv'
  BY <1>4, AddEntryKeeps
<1>5. ASSUME NEW w \in Workers, Emit(w) PROVE RecordsInv'
  <2>1. PICK e \in Revocations : e = proj[w].ev
    BY <1>5 DEF Emit, At, RecordsInv, HandlerInv
  <2>2. Begin(w, e) /\ UNCHANGED <<entries, tct, deleg, faults>>
    BY <1>5, <2>1 DEF Emit
  <2> QED
    BY <2>2, BeginKeeps
<1>6. ASSUME NEW w \in Workers, First(w) \/ Cascade(w) \/ NextRow(w) \/ LockRow(w) \/ Commit(w)
      PROVE  RecordsInv'
  BY <1>6, FirstKeeps, CascadeKeeps, NextRowKeeps, LockRowKeeps, CommitKeeps
<1>7. ASSUME NEW w \in Workers, Deadlock(w) \/ Fail(w) PROVE RecordsInv'
  <2>1. faults' \in Nat
    BY <1>7 DEF Deadlock, Fail, RecordsInv, TypeOK
  <2>2. Return(w) /\ UNCHANGED <<entries, tct, deleg, handled, under>>
    BY <1>7 DEF Deadlock, Fail
  <2> QED
    BY <2>1, <2>2, HandlerReturns
<1>8. CASE UNCHANGED vars
  BY <1>8 DEF vars, RecordsInv, TypeOK, Stamps, Live, LocksExclusive, Jti, HandlerInv,
              OwedBelow, CascadeComplete, RevocationsAttributed, Below
<1> QED
  BY <1>1, <1>2, <1>3, <1>4, <1>5, <1>6, <1>7, <1>8 DEF Next

LEMMA RecordsInvariant == Spec => []RecordsInv
<1>1. Init => RecordsInv
  BY InitRecords
<1>2. RecordsInv /\ [Next]_vars => RecordsInv'
  BY StepRecords
<1> QED
  BY <1>1, <1>2, PTL DEF Spec

(* Every record, handler and event stays in its type. *)
THEOREM RecordsTypeCorrect == Spec => []TypeOK
<1>1. RecordsInv => TypeOK
  BY DEF RecordsInv
<1> QED
  BY <1>1, RecordsInvariant, PTL

(* When a token is revoked, so is everything that was recorded below it when
   the revocation was reported, however deep, and whatever other cascades run,
   wait, fail or deadlock at the same time (monitor.ts:124-147, 183-205). *)
THEOREM CascadesAreComplete == Spec => []CascadeComplete
<1>1. RecordsInv => CascadeComplete
  BY DEF RecordsInv
<1> QED
  BY <1>1, RecordsInvariant, PTL

(* Every revoked delegation is owed to a report about itself or about
   something above it (monitor.ts:128-147, 186-205). *)
THEOREM RevocationsAreAttributed == Spec => []RevocationsAttributed
<1>1. RecordsInv => RevocationsAttributed
  BY DEF RecordsInv
<1> QED
  BY <1>1, RecordsInvariant, PTL

(* A row is held by one transaction and only while it is not revoked: this is
   what makes the first revocation the last. *)
THEOREM RowsHeldOnce == Spec => []LocksExclusive
<1>1. RecordsInv => LocksExclusive
  BY DEF RecordsInv
<1> QED
  BY <1>1, RecordsInvariant, PTL

(* Time stamp and reason of a revoked record never change
   (monitor.ts:130-134, 136-139, 186-192). *)
THEOREM FirstRevocationIsFinal == Spec => FirstRevocationWins
<1> DEFINE Kept == /\ \A j \in Tokens : tct[j].status = "revoked" => tct'[j] = tct[j]
                   /\ \A d \in Children : deleg[d].status = "revoked" => deleg'[d] = deleg[d]
<1>1. RecordsInv /\ [Next]_vars => [Kept]_vars
  <2> SUFFICES ASSUME RecordsInv, Next PROVE Kept
    OBVIOUS
  <2>1. CASE \E w \in Workers : Commit(w)
    BY <2>1, CommitKeeps
  <2>2. CASE \E j \in Tokens : RecordIssued(j)
    BY <2>2 DEF RecordIssued, RecordsInv, TypeOK
  <2>3. CASE \E d \in Children : RecordDelegation(d)
    BY <2>3 DEF RecordDelegation, RecordsInv, TypeOK
  <2>4. CASE \E w \in Workers :
               \/ \E e \in Revocations : Report(w, e) \/ AddEntry(w, e)
               \/ Emit(w) \/ First(w) \/ Cascade(w) \/ NextRow(w) \/ LockRow(w)
               \/ Deadlock(w) \/ Fail(w)
    <3>1. UNCHANGED <<tct, deleg>>
      BY <2>4 DEF Report, AddEntry, Emit, First, Cascade, NextRow, LockRow, Deadlock, Fail
    <3> QED
      BY <3>1
  <2> HIDE DEF Kept
  <2> QED
    BY <2>1, <2>2, <2>3, <2>4 DEF Next
<1> QED
  BY <1>1, RecordsInvariant, PTL DEF Spec, FirstRevocationWins

-----------------------------------------------------------------------------
(* The inductive invariant of TrustStore.  An entry of the trail follows the
   change it is about, so that the trail explains the store only together with
   the entries that are still to be written: what has been made is what
   was ever written into the trail and what waits for its entry.  An id is drawn once, so that an
   anchor is created at most once; a request that finds something odd has been
   crossed by another. *)

Pending(a, t) ==
    {c \in Calls : call[c].pc = "audit" /\ call[c].op = a /\ call[c].target = t}

Made(a, t) == Written(a, t) + Cardinality(Pending(a, t))

Accepted(w) ==
    /\ w.op \in Actions /\ w.target \in Targets
    /\ w.op \in {"create", "patch", "remove"} => w.target \in issued
    /\ w.op = "create" => w.value \in Issuers
    /\ w.op = "patch" => w.value \in Issuers \union {Nil}
    /\ w.op \in {"pin", "unpin"} => w.target \in Pins
    /\ w.op = "pin" => w.value \in PubKeys

Unmade(i) == Made("create", i) = 0 /\ Made("remove", i) = 0

CallInv(w) ==
    /\ w.pc # "idle" => Accepted(w)
    /\ w.pc = "idle" => w = NoCall
    /\ w.pc # "answered" => w.status = 0 /\ w.why = Nil
    /\ w.op = "create" /\ w.pc \in {"write", "lookup"} =>
          anchor[w.target] = Nil /\ Unmade(w.target)
    /\ w.pc = "lookup" => w.op = "create" /\ (Taken(w.value, w.target) \/ w.crossed)
    /\ w.pc = "reread" => w.op \in {"create", "pin"}
    /\ w.pc \in {"audit", "reread"} /\ w.op = "create" => anchor[w.target] # Nil \/ w.crossed
    /\ w.pc \in {"audit", "reread"} /\ w.op = "pin" => pin[w.target] # Nil \/ w.crossed
    /\ w.status = 409 => w.shown # w.target /\ (w.shown = Nil => w.crossed)
    /\ w.why = "gone" => w.crossed

AnchorInv(i) ==
    /\ Made("create", i) <= 1 /\ Made("remove", i) <= 1
    /\ anchor[i] # Nil => Made("remove", i) = 0
    /\ i \notin lost =>
        /\ Made("remove", i) <= Made("create", i)
        /\ anchor[i] # Nil <=> Made("remove", i) < Made("create", i)
    /\ i \notin issued => anchor[i] = Nil /\ i \notin lost /\ Unmade(i)

PinInv(p) ==
    p \notin lost =>
        /\ Made("unpin", p) <= Made("pin", p)
        /\ pin[p] # Nil => Made("unpin", p) < Made("pin", p)
        /\ pin[p] = Nil /\ Made("pin", p) > 0 => Made("unpin", p) > 0

CreatesApart ==
    \A c, d \in Calls :
        c # d /\ call[c].op = "create" /\ call[d].op = "create" => call[c].target # call[d].target

StoreInv ==
    /\ StoreTypeOK
    /\ \A c \in Calls : CallInv(call[c])
    /\ \A i \in Ids : AnchorInv(i)
    /\ \A p \in Pins : PinInv(p)
    /\ CreatesApart

LEMMA MadeType ==
  ASSUME StoreTypeOK, NEW a \in Actions, NEW t \in Targets
  PROVE  /\ IsFiniteSet(Pending(a, t)) /\ Cardinality(Pending(a, t)) \in Nat
         /\ Made(a, t) \in Nat /\ Written(a, t) \in Nat
         /\ trail[a][t] \in Nat /\ purged[a][t] \in Nat
<1>1. IsFiniteSet(Pending(a, t)) /\ Cardinality(Pending(a, t)) \in Nat
  BY StoreAssumption, FS_Subset, FS_CardinalityType DEF Pending
<1>2. trail[a][t] \in Nat /\ purged[a][t] \in Nat
  BY DEF StoreTypeOK
<1> QED
  BY <1>1, <1>2 DEF Made, Written

LEMMA InitStore == StoreInit => StoreInv
<1> SUFFICES ASSUME StoreInit PROVE StoreInv
  OBVIOUS
<1>1. StoreTypeOK
  BY StoreAssumption DEF StoreInit, StoreTypeOK, NoCall, CallStates, Reasons
<1>2. CreatesApart
  BY StoreAssumption DEF StoreInit, CreatesApart, NoCall, Actions
<1>3. \A c \in Calls : CallInv(call[c])
  BY StoreAssumption DEF StoreInit, CallInv, NoCall, Actions, Reasons
<1>4. \A a \in Actions, t \in Targets : Made(a, t) = 0
  <2> TAKE a \in Actions, t \in Targets
  <2>1. Pending(a, t) = {}
    BY DEF StoreInit, Pending, NoCall
  <2>2. Cardinality(Pending(a, t)) = 0
    BY <2>1, FS_EmptySet
  <2>3. Written(a, t) = 0
    BY DEF StoreInit, Written
  <2> QED
    BY <2>2, <2>3 DEF Made
<1>5. \A i \in Ids : AnchorInv(i)
  BY <1>4 DEF StoreInit, AnchorInv, Unmade, Actions, Targets
<1>6. \A p \in Pins : PinInv(p)
  BY <1>4 DEF StoreInit, PinInv, Actions, Targets
<1> QED
  BY <1>1, <1>2, <1>3, <1>5, <1>6 DEF StoreInv

(* What waits for its entry counts as made. *)
LEMMA MadeStays ==
  ASSUME NEW a, NEW t, Written(a, t)' = Written(a, t),
         \A d \in Calls : (call'[d].pc = "audit") <=> (call[d].pc = "audit"),
         \A d \in Calls : call[d].pc = "audit" =>
            call'[d].op = call[d].op /\ call'[d].target = call[d].target
  PROVE  Made(a, t)' = Made(a, t)
<1>1. Pending(a, t)' = Pending(a, t)
  BY DEF Pending
<1> QED
  BY <1>1 DEF Made

(* A request moves on and leaves the rows as they are.  What has been made is
   forgotten only together with its entry. *)
MadeKept ==
    \A a \in Actions, t \in Targets :
        /\ Made(a, t) \in Nat /\ Made(a, t)' \in Nat
        /\ Made(a, t)' <= Made(a, t)
        /\ t \notin lost' => Made(a, t)' = Made(a, t)

LEMMA MadeIsKept ==
  ASSUME StoreTypeOK, \A a \in Actions, t \in Targets : Made(a, t)' = Made(a, t)
  PROVE  MadeKept
BY MadeType DEF MadeKept

LostIssued == \A i \in Ids : i \in lost => i \in issued

Apart(c, w) ==
    w.op = "create" => \A d \in Calls \ {c} :
                          call[d].op = "create" => call[d].target # w.target

LEMMA CallMoves ==
  ASSUME StoreInv, NEW c \in Calls, NEW w \in CallStates,
         call' = [call EXCEPT ![c] = w],
         UNCHANGED <<anchor, pin>>, StoreTypeOK',
         issued \subseteq issued', lost \subseteq lost',
         LostIssued', MadeKept, CallInv(w)', Apart(c, w)
  PROVE  StoreInv'
<1>1. /\ call'[c] = w /\ \A d \in Calls \ {c} : call'[d] = call[d]
  BY DEF StoreInv, StoreTypeOK
<1>2. CreatesApart'
  BY <1>1 DEF StoreInv, CreatesApart, Apart
<1>3. {"create", "remove", "pin", "unpin"} \subseteq Actions /\ Ids \subseteq Targets
      /\ Pins \subseteq Targets /\ issued \subseteq Ids
  BY DEF Actions, Targets, StoreInv, StoreTypeOK
<1>4. ASSUME NEW d \in Calls PROVE CallInv(call[d])'
  <2>1. CASE d = c
    <3>1. PICK q : q = call'[d] /\ q = w
      BY <1>1, <2>1
    <3> QED
      BY <3>1 DEF CallInv
  <2>2. CASE d # c
    <3>1. PICK q : q = call[d] /\ q = call'[d] /\ CallInv(q)
      BY <1>1, <2>2 DEF StoreInv
    <3>2. q.op = "create" /\ q.pc \in {"write", "lookup"} => Unmade(q.target)'
      BY <1>3, <3>1 DEF CallInv, Accepted, MadeKept, Unmade
    <3>3. CallInv(q)'
      <4>1. Accepted(q) => Accepted(q)'
        BY DEF Accepted
      <4>2. \A x, y : Taken(x, y)' <=> Taken(x, y)
        BY DEF Taken
      <4> QED
        BY <3>1, <3>2, <4>1, <4>2 DEF CallInv
    <3> QED
      BY <3>1, <3>3 DEF CallInv
  <2> QED
    BY <2>1, <2>2
<1>5. ASSUME NEW i \in Ids PROVE AnchorInv(i)'
  BY <1>3 DEF AnchorInv, Unmade, StoreInv, MadeKept, LostIssued
<1>6. ASSUME NEW p \in Pins PROVE PinInv(p)'
  BY <1>3 DEF PinInv, StoreInv, MadeKept
<1> QED
  BY <1>2, <1>4, <1>5, <1>6 DEF StoreInv

(* An answered request has its fields still. *)
AnsweredAs(w, q, status, shown, why) ==
    /\ w \in CallStates /\ w.pc = "answered" /\ w.status = status /\ w.shown = shown
    /\ w.why = why /\ w.op = q.op /\ w.target = q.target
    /\ w.value = q.value /\ w.crossed = q.crossed

LEMMA AnsweredType ==
  ASSUME NEW q \in CallStates, NEW status \in {200, 201, 204, 404, 409, 500},
         NEW shown \in Ids \union {Nil}, NEW why \in Reasons \union {Nil},
         NEW w, w = Answered(q, status, shown, why)
  PROVE  AnsweredAs(w, q, status, shown, why)
<1>1. PICK a \in CallStates : a = [q EXCEPT !.pc = "answered"]
  <2>1. [q EXCEPT !.pc = "answered"] \in CallStates
    BY DEF CallStates
  <2> QED
    BY <2>1
<1>2. PICK b \in CallStates : b = [a EXCEPT !.status = status]
  <2>1. [a EXCEPT !.status = status] \in CallStates
    BY DEF CallStates
  <2> QED
    BY <2>1
<1>3. PICK c \in CallStates : c = [b EXCEPT !.shown = shown]
  <2>1. [b EXCEPT !.shown = shown] \in CallStates
    BY DEF CallStates
  <2> QED
    BY <2>1
<1>4. PICK d \in CallStates : d = [c EXCEPT !.why = why]
  <2>1. [c EXCEPT !.why = why] \in CallStates
    BY DEF CallStates
  <2> QED
    BY <2>1
<1>5. d = w
  BY <1>1, <1>2, <1>3, <1>4 DEF Answered
<1>6. /\ d.pc = "answered" /\ d.status = status /\ d.shown = shown /\ d.why = why
      /\ d.op = q.op /\ d.target = q.target /\ d.value = q.value /\ d.crossed = q.crossed
  BY <1>1, <1>2, <1>3, <1>4 DEF CallStates
<1> QED
  BY <1>5, <1>6 DEF AnsweredAs

(* An answer that is odd only where the request has been crossed. *)
Explained(q, status, shown, why) ==
    /\ status = 409 => shown # q.target /\ (shown = Nil => q.crossed)
    /\ why = "gone" => q.crossed

LEMMA AnswerKeeps ==
  ASSUME StoreInv, NEW c \in Calls, call[c].pc \in {"write", "lookup", "reread"},
         NEW status \in {200, 201, 204, 404, 409, 500}, NEW shown \in Ids \union {Nil},
         NEW why \in Reasons \union {Nil},
         Answer(c, status, shown, why),
         UNCHANGED <<issued, lost, purged>>, left' \in [call : Nat, fault : Nat],
         Explained(call[c], status, shown, why)
  PROVE  StoreInv'
<1>1. PICK w : w = Answered(call[c], status, shown, why)
  OBVIOUS
<1>2. call \in [Calls -> CallStates] /\ call[c] \in CallStates
  BY DEF StoreInv, StoreTypeOK
<1>3. /\ w \in CallStates /\ w.pc = "answered" /\ w.status = status /\ w.shown = shown
      /\ w.why = why /\ w.op = call[c].op /\ w.target = call[c].target
      /\ w.value = call[c].value /\ w.crossed = call[c].crossed
  <2>1. PICK q \in CallStates : q = call[c]
    BY <1>2
  <2>2. w = Answered(q, status, shown, why)
    BY <1>1, <2>1
  <2>3. AnsweredAs(w, q, status, shown, why)
    BY <2>2, AnsweredType
  <2> QED
    BY <2>1, <2>3 DEF AnsweredAs
<1>4. /\ call' = [call EXCEPT ![c] = w]
      /\ UNCHANGED <<anchor, pin, trail, purged>>
  BY <1>1 DEF Answer
<1>5. StoreTypeOK'
  BY <1>2, <1>3, <1>4 DEF StoreInv, StoreTypeOK
<1>6. \A a \in Actions, t \in Targets : Made(a, t)' = Made(a, t)
  <2> TAKE a \in Actions, t \in Targets
  <2>1. \A d \in Calls : call'[d] = IF d = c THEN w ELSE call[d]
    BY <1>2, <1>4
  <2>2. /\ \A d \in Calls : (call'[d].pc = "audit") <=> (call[d].pc = "audit")
        /\ \A d \in Calls : call[d].pc = "audit" =>
              call'[d].op = call[d].op /\ call'[d].target = call[d].target
    BY <1>3, <2>1
  <2>3. Written(a, t)' = Written(a, t)
    BY <1>4 DEF Written
  <2> QED
    BY <2>2, <2>3, MadeStays
<1>7. CallInv(w)'
  <2>1. Accepted(w)'
    BY <1>3 DEF StoreInv, CallInv, Accepted
  <2> QED
    BY <1>3, <2>1 DEF CallInv, Explained
<1>8. issued \subseteq issued' /\ lost \subseteq lost' /\ LostIssued'
  BY DEF StoreInv, AnchorInv, LostIssued
<1>9. Apart(c, w)
  <2> SUFFICES ASSUME w.op = "create", NEW d \in Calls, d # c, call[d].op = "create"
               PROVE  call[d].target # w.target
    BY DEF Apart
  <2>1. CreatesApart /\ call[c].op = "create"
    BY <1>3 DEF StoreInv
  <2>2. call[c].target # call[d].target
    BY <2>1 DEF CreatesApart
  <2> QED
    BY <1>3, <2>2
<1>10. UNCHANGED <<anchor, pin>> /\ w \in CallStates
  BY <1>3, <1>4
<1>11. call' = [call EXCEPT ![c] = w]
  BY <1>4
<1>12. MadeKept
  BY <1>6, MadeIsKept DEF StoreInv
<1> QED
  BY <1>5, <1>7, <1>8, <1>9, <1>10, <1>11, <1>12, CallMoves

(* The other requests that are under way notice a change, and what the change
   has touched is theirs to explain. *)
LEMMA ChangeKeeps ==
  ASSUME StoreInv, NEW c \in Calls, call[c].pc = "write",
         NEW rows, NEW keys, Changed(c, rows, keys), UNCHANGED <<issued, lost, purged, left>>,
         rows \in [Ids -> Issuers \union {Nil}], keys \in [Pins -> PubKeys \union {Nil}],
         \A i \in Ids \ {call[c].target} : rows[i] = anchor[i],
         \A p \in Pins \ {call[c].target} : keys[p] = pin[p],
         call[c].op \in {"pin", "unpin"} => rows = anchor,
         call[c].op \in {"create", "patch", "remove"} => keys = pin,
         call[c].op = "create" => rows[call[c].target] # Nil,
         call[c].op = "patch" => anchor[call[c].target] # Nil /\ rows[call[c].target] # Nil,
         call[c].op = "remove" => anchor[call[c].target] # Nil /\ rows[call[c].target] = Nil,
         call[c].op = "pin" => keys[call[c].target] # Nil,
         call[c].op = "unpin" => pin[call[c].target] # Nil /\ keys[call[c].target] = Nil
  PROVE  StoreInv'
<1>1. PICK op \in Actions, t \in Targets : op = call[c].op /\ t = call[c].target
  BY DEF StoreInv, CallInv, Accepted
<1>2. /\ call \in [Calls -> CallStates] /\ trail \in [Actions -> [Targets -> Nat]]
      /\ anchor' = rows /\ pin' = keys /\ UNCHANGED <<trail, purged>>
      /\ StoreTypeOK
  BY DEF StoreInv, StoreTypeOK, Changed
<1>3. \A d \in Calls :
        /\ call'[d] \in CallStates
        /\ call'[d].op = call[d].op /\ call'[d].target = call[d].target
        /\ call'[d].value = call[d].value /\ call'[d].status = call[d].status
        /\ call'[d].shown = call[d].shown /\ call'[d].why = call[d].why
        /\ call'[d].pc = IF d = c THEN "audit" ELSE call[d].pc
        /\ call[d].crossed => call'[d].crossed
        /\ d # c => IF call[d].pc \in {"idle", "answered"} THEN call'[d] = call[d]
                    ELSE call'[d].crossed
  <2> TAKE d \in Calls
  <2>1. PICK q \in CallStates : q = call[d]
    BY <1>2
  <2>2. call'[d] = IF d = c THEN [q EXCEPT !.pc = "audit"]
                   ELSE IF q.pc \in {"idle", "answered"} THEN q
                   ELSE [q EXCEPT !.crossed = TRUE]
    BY <2>1 DEF Changed
  <2>3. CASE d = c
    <3>1. PICK r : r = call'[d] /\ r = [q EXCEPT !.pc = "audit"]
      BY <2>2, <2>3
    <3>2. r \in CallStates
      BY <2>1, <3>1 DEF CallStates
    <3>3. /\ r.op = q.op /\ r.target = q.target /\ r.value = q.value /\ r.status = q.status
          /\ r.shown = q.shown /\ r.why = q.why /\ r.pc = "audit" /\ r.crossed = q.crossed
      BY <2>1, <3>1 DEF CallStates
    <3> QED
      BY <2>1, <2>3, <3>1, <3>2, <3>3
  <2>4. CASE d # c /\ q.pc \in {"idle", "answered"}
    BY <2>1, <2>2, <2>4
  <2>5. CASE d # c /\ q.pc \notin {"idle", "answered"}
    <3>1. PICK r : r = call'[d] /\ r = [q EXCEPT !.crossed = TRUE]
      BY <2>2, <2>5
    <3>2. r \in CallStates
      <4>1. PICK x \in BOOLEAN : x = TRUE
        OBVIOUS
      <4>2. [q EXCEPT !.crossed = x] \in CallStates
        BY DEF CallStates
      <4> QED
        BY <3>1, <4>1, <4>2
    <3>3. /\ r.op = q.op /\ r.target = q.target /\ r.value = q.value /\ r.status = q.status
          /\ r.shown = q.shown /\ r.why = q.why /\ r.pc = q.pc /\ r.crossed
      BY <2>1, <3>1 DEF CallStates
    <3> QED
      BY <2>1, <2>5, <3>1, <3>2, <3>3
  <2> QED
    BY <2>3, <2>4, <2>5
<1>4. \A a \in Actions, u \in Targets :
        Made(a, u)' = IF a = op /\ u = t THEN Made(a, u) + 1 ELSE Made(a, u)
  <2> TAKE a \in Actions, u \in Targets
  <2>1. CASE a = op /\ u = t
    <3>1. Pending(a, u)' = Pending(a, u) \union {c} /\ c \notin Pending(a, u)
      BY <1>1, <1>3, <2>1 DEF Pending
    <3>2. Cardinality(Pending(a, u) \union {c}) = Cardinality(Pending(a, u)) + 1
      <4>1. IsFiniteSet(Pending(a, u))
        BY <1>2, MadeType
      <4> QED
        BY <3>1, <4>1, FS_AddElement
    <3>3. Cardinality(Pending(a, u)) \in Nat /\ Written(a, u) \in Nat
      BY <1>2, MadeType
    <3> QED
      BY <1>2, <2>1, <3>1, <3>2, <3>3 DEF Made, Written
  <2>2. CASE ~(a = op /\ u = t)
    <3>1. Pending(a, u)' = Pending(a, u)
      BY <1>1, <1>3, <2>2 DEF Pending
    <3> QED
      BY <1>2, <2>2, <3>1 DEF Made, Written
  <2> QED
    BY <2>1, <2>2
<1>5. \A a \in Actions, u \in Targets : Made(a, u) \in Nat
  BY <1>2, MadeType
<1>6. {"create", "remove", "pin", "unpin"} \subseteq Actions /\ Ids \subseteq Targets
      /\ Pins \subseteq Targets /\ issued \subseteq Ids
  BY <1>2 DEF Actions, Targets, StoreTypeOK
<1>7. /\ op \in {"create", "patch", "remove"} => t \in issued
      /\ op \in {"pin", "unpin"} => t \in Pins
  BY <1>1 DEF StoreInv, CallInv, Accepted
<1>8. StoreTypeOK'
  <2>1. call' \in [Calls -> CallStates]
    BY <1>3 DEF Changed
  <2> QED
    BY <1>2, <2>1 DEF StoreTypeOK
<1>9. CreatesApart'
  BY <1>2, <1>3 DEF StoreInv, CreatesApart
<1>10. op = "create" => anchor[t] = Nil /\ Unmade(t)
  BY <1>1 DEF StoreInv, CallInv
<1>11. ASSUME NEW i \in Ids PROVE AnchorInv(i)'
  <2>1. AnchorInv(i) /\ Made("create", i) \in Nat /\ Made("remove", i) \in Nat
    BY <1>5, <1>6 DEF StoreInv
  <2>2. CASE i = t
    <3>1. op \in {"create", "patch", "remove"}
      BY <1>1, <1>7, <2>2, StoreAssumption DEF Actions
    <3> QED
      BY <1>1, <1>2, <1>4, <1>6, <1>7, <1>10, <2>1, <2>2, <3>1
      DEF AnchorInv, Unmade
  <2>3. CASE i # t
    BY <1>1, <1>2, <1>4, <1>6, <2>1, <2>3 DEF AnchorInv, Unmade
  <2> QED
    BY <2>2, <2>3
<1>12. ASSUME NEW p \in Pins PROVE PinInv(p)'
  <2>1. PinInv(p) /\ Made("pin", p) \in Nat /\ Made("unpin", p) \in Nat
    BY <1>5, <1>6 DEF StoreInv
  <2>2. CASE p = t
    <3>1. op \in {"pin", "unpin"}
      BY <1>1, <1>6, <1>7, <2>2, StoreAssumption DEF Actions
    <3> QED
      BY <1>1, <1>2, <1>4, <1>6, <2>1, <2>2, <3>1 DEF PinInv
  <2>3. CASE p # t
    BY <1>1, <1>2, <1>4, <1>6, <2>1, <2>3 DEF PinInv
  <2> QED
    BY <2>2, <2>3
<1>13. ASSUME NEW d \in Calls PROVE CallInv(call[d])'
  <2>1. PICK q, r : q = call[d] /\ r = call'[d] /\ CallInv(q)
    BY DEF StoreInv
  <2>2. Accepted(q) => Accepted(r)'
    BY <1>3, <2>1 DEF Accepted
  <2>3. CallInv(r)'
    <3>1. CASE d = c
      BY <1>1, <1>2, <1>3, <2>1, <2>2, <3>1 DEF CallInv
    <3>2. CASE d # c /\ r = q /\ q.pc \in {"idle", "answered"}
      <4>1. q.pc = "idle" => q.op # "create"
        BY StoreAssumption, <2>1 DEF CallInv, NoCall, Actions
      <4> QED
        BY <2>1, <2>2, <3>2, <4>1 DEF CallInv
    <3>3. CASE d # c /\ r.crossed /\ ~(r = q /\ q.pc \in {"idle", "answered"})
      <4>1. /\ r.op = q.op /\ r.target = q.target /\ r.value = q.value /\ r.status = q.status
            /\ r.shown = q.shown /\ r.why = q.why /\ r.pc = q.pc /\ r.crossed
            /\ q.pc \notin {"idle", "answered"}
        BY <1>3, <2>1, <3>3
      <4>2. r.op = "create" /\ r.pc \in {"write", "lookup"} =>
              anchor'[r.target] = Nil /\ Unmade(r.target)'
        <5> SUFFICES ASSUME r.op = "create", r.pc \in {"write", "lookup"}
                     PROVE  anchor'[r.target] = Nil /\ Unmade(r.target)'
          OBVIOUS
        <5>1. r.target \in issued /\ anchor[r.target] = Nil
              /\ Unmade(r.target)
          BY <2>1, <4>1 DEF CallInv, Accepted
        <5>2. ~(op = "create" /\ r.target = t)
          BY <1>1, <2>1, <3>3, <4>1 DEF StoreInv, CreatesApart
        <5>3. op \in {"patch", "remove"} => r.target # t
          BY <1>1, <5>1
        <5>4. op \in {"pin", "unpin"} => r.target # t
          BY <1>6, <1>7, <5>1, StoreAssumption
        <5>5. r.target # t
          BY <5>2, <5>3, <5>4 DEF Actions
        <5> QED
          BY <1>1, <1>2, <1>4, <1>6, <5>1, <5>5 DEF Unmade
      <4> QED
        BY <2>1, <2>2, <4>1, <4>2 DEF CallInv
    <3> QED
      BY <1>3, <2>1, <3>1, <3>2, <3>3
  <2> QED
    BY <2>1, <2>3 DEF CallInv
<1> QED
  BY <1>8, <1>9, <1>11, <1>12, <1>13 DEF StoreInv

(* An id that is drawn has no anchor and no entries yet, and nobody else has
   drawn it. *)
LEMMA ReceiveKeeps ==
  ASSUME StoreInv, NEW c \in Calls, Receive(c)
  PROVE  StoreInv'
<1>1. PICK op \in Actions, t \in Targets, v \in Issuers \union PubKeys \union {Nil} :
        /\ op = "create" => t \in Ids \ issued /\ v \in Issuers
        /\ op = "patch" => t \in issued /\ v \in Issuers \union {Nil}
        /\ op = "remove" => t \in issued /\ v = Nil
        /\ op = "pin" => t \in Pins /\ v \in PubKeys
        /\ op = "unpin" => t \in Pins /\ v = Nil
        /\ issued' = IF op = "create" THEN issued \union {t} ELSE issued
        /\ call' = [call EXCEPT ![c] =
              [NoCall EXCEPT !.pc = "write", !.op = op, !.target = t, !.value = v]]
  BY Zenon DEF Receive
<1>2. PICK w : w = [NoCall EXCEPT !.pc = "write", !.op = op, !.target = t, !.value = v]
  OBVIOUS
<1>3. /\ w.pc = "write" /\ w.op = op /\ w.target = t /\ w.value = v
      /\ w.status = 0 /\ w.shown = Nil /\ w.why = Nil
  BY <1>2 DEF NoCall
<1>4. w \in CallStates
  <2>1. PICK x \in BOOLEAN : x = FALSE
    OBVIOUS
  <2>2. w = [pc |-> "write", op |-> op, target |-> t, value |-> v, status |-> 0,
             shown |-> Nil, why |-> Nil, crossed |-> x]
    BY <1>2, <2>1 DEF NoCall
  <2> QED
    BY <2>2 DEF CallStates
<1>5. /\ call' = [call EXCEPT ![c] = w] /\ UNCHANGED <<anchor, pin, trail, lost, purged>>
      /\ call[c].pc \in {"idle", "answered"} /\ call \in [Calls -> CallStates]
      /\ StoreTypeOK
  BY <1>1, <1>2 DEF Receive, StoreInv, StoreTypeOK
<1>6. StoreTypeOK'
  <2>1. left' \in [call : Nat, fault : Nat]
    BY DEF Receive, Spend, StoreInv, StoreTypeOK
  <2>2. issued' \subseteq Ids
    BY <1>1, <1>5 DEF StoreTypeOK
  <2> QED
    BY <1>4, <1>5, <2>1, <2>2 DEF StoreTypeOK
<1>7. \A a \in Actions, u \in Targets : Made(a, u)' = Made(a, u)
  <2> TAKE a \in Actions, u \in Targets
  <2>1. \A d \in Calls : call'[d] = IF d = c THEN w ELSE call[d]
    BY <1>5
  <2>2. /\ \A d \in Calls : (call'[d].pc = "audit") <=> (call[d].pc = "audit")
        /\ \A d \in Calls : call[d].pc = "audit" =>
              call'[d].op = call[d].op /\ call'[d].target = call[d].target
    BY <1>3, <1>5, <2>1
  <2>3. Written(a, u)' = Written(a, u)
    BY <1>5 DEF Written
  <2> QED
    BY <2>2, <2>3, MadeStays
<1>8. MadeKept
  BY <1>5, <1>7, MadeIsKept
<1>9. issued \subseteq issued' /\ lost \subseteq lost'
  BY <1>1, <1>5
<1>10. LostIssued'
  BY <1>5, <1>9 DEF StoreInv, AnchorInv, LostIssued
<1>11. /\ op = "create" => anchor[t] = Nil /\ Unmade(t)
       /\ "create" \in Actions /\ "remove" \in Actions
  BY <1>1 DEF StoreInv, AnchorInv, Actions
<1>12. CallInv(w)'
  <2>1. Accepted(w)'
    BY <1>1, <1>3 DEF Accepted
  <2>2. w.op = "create" => anchor'[w.target] = Nil /\ Unmade(w.target)'
    BY <1>1, <1>3, <1>5, <1>7, <1>11 DEF Unmade
  <2>3. w.why # "gone"
    BY <1>3, StoreAssumption DEF Reasons
  <2> QED
    BY <1>3, <2>1, <2>2, <2>3 DEF CallInv
<1>13. Apart(c, w)
  <2> SUFFICES ASSUME op = "create", NEW d \in Calls, d # c, call[d].op = "create"
               PROVE  call[d].target # t
    BY <1>3 DEF Apart
  <2>1. CallInv(call[d])
    BY DEF StoreInv
  <2>2. call[d].pc # "idle"
    BY <2>1, StoreAssumption DEF CallInv, NoCall, Actions
  <2>3. call[d].target \in issued
    BY <2>1, <2>2 DEF CallInv, Accepted
  <2> QED
    BY <1>1, <2>3
<1>14. UNCHANGED <<anchor, pin>> /\ call' = [call EXCEPT ![c] = w]
  BY <1>5
<1> QED
  BY ONLY StoreInv, c \in Calls, <1>4, <1>6, <1>8, <1>9, <1>10, <1>12, <1>13, <1>14, CallMoves

(* The entry is written, or its loss is on record; the request goes on. *)
LEMMA AuditedType ==
  ASSUME NEW q \in CallStates, NEW w, w = Audited(q)
  PROVE  /\ w \in CallStates /\ w.op = q.op /\ w.target = q.target /\ w.value = q.value
         /\ w.crossed = q.crossed
         /\ \/ w.pc = "reread" /\ q.op \in {"create", "pin"}
               /\ w.status = q.status /\ w.why = q.why
            \/ w.pc = "answered" /\ w.status # 409 /\ w.why = Nil
<1>1. CASE q.op \in {"create", "pin"}
  <2>1. w = [q EXCEPT !.pc = "reread"]
    BY <1>1 DEF Audited
  <2>2. [q EXCEPT !.pc = "reread"] \in CallStates
    BY DEF CallStates
  <2>3. /\ w.op = q.op /\ w.target = q.target /\ w.value = q.value /\ w.crossed = q.crossed
        /\ w.pc = "reread" /\ w.status = q.status /\ w.why = q.why
    BY <2>1 DEF CallStates
  <2> QED
    BY <1>1, <2>1, <2>2, <2>3
<1>2. CASE q.op \notin {"create", "pin"}
  <2>1. PICK status \in {200, 204} : w = Answered(q, status, Nil, Nil)
    BY <1>2 DEF Audited
  <2>2. AnsweredAs(w, q, status, Nil, Nil)
    BY <2>1, AnsweredType
  <2> QED
    BY <2>2 DEF AnsweredAs
<1> QED
  BY <1>1, <1>2

LEMMA AuditsKeep ==
  ASSUME StoreInv, NEW c \in Calls, Audit(c) \/ AuditFails(c)
  PROVE  StoreInv'
<1>1. PICK w : w = Audited(call[c])
  OBVIOUS
<1>2. PICK q \in CallStates : q = call[c] /\ q.pc = "audit" /\ CallInv(q)
  BY DEF StoreInv, StoreTypeOK, Audit, AuditFails
<1>3. /\ w \in CallStates /\ w.op = q.op /\ w.target = q.target /\ w.value = q.value
      /\ w.crossed = q.crossed
      /\ \/ w.pc = "reread" /\ q.op \in {"create", "pin"}
            /\ w.status = q.status /\ w.why = q.why
         \/ w.pc = "answered" /\ w.status # 409 /\ w.why = Nil
  BY <1>1, <1>2, AuditedType
<1>4. /\ call' = [call EXCEPT ![c] = w] /\ UNCHANGED <<anchor, issued, pin, purged>>
      /\ call \in [Calls -> CallStates] /\ StoreTypeOK
  BY <1>1 DEF Audit, AuditFails, StoreInv, StoreTypeOK
<1>5. PICK op \in Actions, t \in Targets : op = q.op /\ t = q.target
  BY <1>2 DEF CallInv, Accepted
<1>6. StoreTypeOK'
  <2>1. left' \in [call : Nat, fault : Nat]
    BY <1>4 DEF Audit, AuditFails, Spend, StoreTypeOK
  <2>2. lost' \subseteq Targets
    BY <1>2, <1>4, <1>5 DEF Audit, AuditFails, StoreTypeOK
  <2>3. trail' \in [Actions -> [Targets -> Nat]]
    <3>1. CASE Audit(c)
      <4>1. trail' = [trail EXCEPT ![op][t] = trail[op][t] + 1]
        BY <1>2, <1>5, <3>1 DEF Audit
      <4> QED
        BY <1>4, <4>1 DEF StoreTypeOK
    <3>2. CASE AuditFails(c)
      BY <1>4, <3>2 DEF AuditFails, StoreTypeOK
    <3> QED
      BY <3>1, <3>2
  <2> QED
    BY <1>3, <1>4, <2>1, <2>2, <2>3 DEF StoreTypeOK
<1>7. ASSUME NEW a \in Actions, NEW u \in Targets
      PROVE  /\ Made(a, u) \in Nat /\ Made(a, u)' \in Nat /\ Made(a, u)' <= Made(a, u)
             /\ u \notin lost' => Made(a, u)' = Made(a, u)
  <2>0. \A d \in Calls : call'[d] = IF d = c THEN w ELSE call[d]
    BY <1>4
  <2>1. /\ IsFiniteSet(Pending(a, u)) /\ Cardinality(Pending(a, u)) \in Nat
        /\ trail[a][u] \in Nat /\ purged[a][u] \in Nat
    BY <1>4, MadeType
  <2>2. CASE a = op /\ u = t
    <3>1. Pending(a, u)' = Pending(a, u) \ {c} /\ c \in Pending(a, u)
      BY <1>2, <1>3, <1>5, <2>0, <2>2 DEF Pending
    <3>2. Cardinality(Pending(a, u) \ {c}) = Cardinality(Pending(a, u)) - 1
      BY <2>1, <3>1, FS_RemoveElement
    <3>3. Cardinality(Pending(a, u)') \in Nat
      BY <2>1, <3>1, FS_RemoveElement, FS_CardinalityType
    <3>4. CASE Audit(c)
      <4>1. trail'[a][u] = trail[a][u] + 1
        BY <1>2, <1>4, <1>5, <2>2, <3>4 DEF Audit, StoreTypeOK
      <4> QED
        BY <1>4, <2>1, <3>1, <3>2, <3>3, <4>1 DEF Made, Written
    <3>5. CASE AuditFails(c)
      <4>1. trail' = trail /\ u \in lost'
        BY <1>2, <1>5, <2>2, <3>5 DEF AuditFails
      <4> QED
        BY <1>4, <2>1, <3>1, <3>2, <3>3, <4>1 DEF Made, Written
    <3> QED
      BY <3>4, <3>5
  <2>3. CASE ~(a = op /\ u = t)
    <3>1. Pending(a, u)' = Pending(a, u)
      BY <1>2, <1>3, <1>5, <2>0, <2>3 DEF Pending
    <3>2. trail'[a][u] = trail[a][u]
      BY <1>2, <1>4, <1>5, <2>3 DEF Audit, AuditFails, StoreTypeOK
    <3> QED
      BY <1>4, <2>1, <3>1, <3>2 DEF Made, Written
  <2> QED
    BY <2>2, <2>3
<1>8. MadeKept
  BY <1>7 DEF MadeKept
<1>9. issued \subseteq issued' /\ lost \subseteq lost'
  BY <1>4 DEF Audit, AuditFails
<1>10. LostIssued'
  <2>1. LostIssued
    BY DEF StoreInv, AnchorInv, LostIssued
  <2>2. t \in Ids => t \in issued
    BY <1>2, <1>5, StoreAssumption DEF CallInv, Accepted, Actions
  <2> QED
    BY <1>2, <1>4, <1>5, <2>1, <2>2 DEF LostIssued, Audit, AuditFails
<1>11. CallInv(w)'
  <2>1. Accepted(w)'
    BY <1>2, <1>3, <1>4 DEF CallInv, Accepted
  <2>2. w.why # "gone" /\ w.status # 409
    BY <1>2, <1>3, StoreAssumption DEF Reasons, CallInv
  <2> QED
    BY <1>2, <1>3, <1>4, <2>1, <2>2 DEF CallInv
<1>12. Apart(c, w)
  <2> SUFFICES ASSUME w.op = "create", NEW d \in Calls, d # c, call[d].op = "create"
               PROVE  call[d].target # w.target
    BY DEF Apart
  <2>1. CreatesApart /\ call[c].op = "create"
    BY <1>2, <1>3 DEF StoreInv
  <2>2. call[c].target # call[d].target
    BY <2>1 DEF CreatesApart
  <2> QED
    BY <1>2, <1>3, <2>2
<1>13. UNCHANGED <<anchor, pin>> /\ call' = [call EXCEPT ![c] = w] /\ w \in CallStates
  BY <1>3, <1>4
<1> QED
  BY ONLY StoreInv, c \in Calls, <1>6, <1>8, <1>9, <1>10, <1>11, <1>12, <1>13, CallMoves

(* A statement that answers at once, or leads to the look for the holder. *)
LEMMA WriteAnswers ==
  ASSUME StoreInv, NEW c \in Calls, call[c].pc = "write",
         NEW status \in {404, 500}, NEW why \in {"constraint", Nil},
         Answer(c, status, Nil, why), UNCHANGED <<issued, lost, purged, left>>
  PROVE  StoreInv'
<1>1. Explained(call[c], status, Nil, why)
  BY StoreAssumption DEF Explained, Reasons
<1>2. left' \in [call : Nat, fault : Nat]
  BY DEF StoreInv, StoreTypeOK
<1>3. Nil \in Ids \union {Nil} /\ why \in Reasons \union {Nil}
  BY DEF Reasons
<1> QED
  BY <1>1, <1>2, <1>3, AnswerKeeps

LEMMA CreateKeeps ==
  ASSUME StoreInv, NEW c \in Calls, call[c].pc = "write", call[c].op = "create",
         Create(c), UNCHANGED <<issued, lost, purged, left>>
  PROVE  StoreInv'
<1>1. PICK q \in CallStates : q = call[c] /\ CallInv(q)
  BY DEF StoreInv, StoreTypeOK
<1>2. /\ q.pc = "write" /\ q.op = "create" /\ q.target \in Ids /\ q.value \in Issuers
      /\ q.value # Nil /\ Accepted(q)
  BY <1>1, StoreAssumption DEF CallInv, Accepted, StoreInv, StoreTypeOK
<1>3. anchor \in [Ids -> Issuers \union {Nil}] /\ pin \in [Pins -> PubKeys \union {Nil}]
  BY DEF StoreInv, StoreTypeOK
<1>4. CASE ~Taken(q.value, q.target) /\ Changed(c, [anchor EXCEPT ![q.target] = q.value], pin)
  <2>1. PICK rows : rows = [anchor EXCEPT ![q.target] = q.value]
    OBVIOUS
  <2>2. /\ rows \in [Ids -> Issuers \union {Nil}]
        /\ rows[q.target] = q.value
        /\ \A i \in Ids \ {q.target} : rows[i] = anchor[i]
    BY <1>2, <1>3, <2>1
  <2>3. Changed(c, rows, pin)
    BY <1>4, <2>1
  <2> QED
    BY <1>1, <1>2, <1>3, <2>2, <2>3, ChangeKeeps
<1>5. CASE Taken(q.value, q.target) /\ call' = [call EXCEPT ![c].pc = "lookup"]
           /\ UNCHANGED <<anchor, pin, trail, purged>>
  <2>1. PICK w : w = [q EXCEPT !.pc = "lookup"]
    OBVIOUS
  <2>2. w \in CallStates
    BY <2>1 DEF CallStates
  <2>3. /\ w.pc = "lookup" /\ w.op = "create" /\ w.target = q.target /\ w.value = q.value
        /\ w.status = q.status /\ w.why = q.why
    BY <1>2, <2>1 DEF CallStates
  <2>4. call' = [call EXCEPT ![c] = w] /\ call \in [Calls -> CallStates] /\ StoreTypeOK
    BY <1>1, <1>5, <2>1 DEF StoreInv, StoreTypeOK
  <2>5. StoreTypeOK'
    BY <1>5, <2>2, <2>4 DEF StoreTypeOK
  <2>6. MadeKept
    <3> SUFFICES ASSUME NEW a \in Actions, NEW t \in Targets PROVE Made(a, t)' = Made(a, t)
      BY <2>4, MadeIsKept
    <3>1. \A d \in Calls : call'[d] = IF d = c THEN w ELSE call[d]
      BY <2>4
    <3>2. /\ \A d \in Calls : (call'[d].pc = "audit") <=> (call[d].pc = "audit")
          /\ \A d \in Calls : call[d].pc = "audit" =>
                call'[d].op = call[d].op /\ call'[d].target = call[d].target
      BY <1>1, <1>2, <2>3, <3>1
    <3>3. Written(a, t)' = Written(a, t)
      BY <1>5 DEF Written
    <3> QED
      BY <3>2, <3>3, MadeStays
  <2>7. LostIssued' /\ issued \subseteq issued' /\ lost \subseteq lost'
    BY DEF StoreInv, AnchorInv, LostIssued
  <2>8. CallInv(w)'
    <3>1. Accepted(w)' /\ Taken(w.value, w.target)'
      BY <1>2, <1>5, <2>3 DEF Accepted, Taken
    <3>2. "create" \in Actions /\ "remove" \in Actions /\ w.target \in Targets
      BY <1>2, <2>3 DEF Actions, Targets
    <3>3. Unmade(w.target)'
      BY <1>1, <1>2, <2>3, <2>6, <3>2 DEF CallInv, MadeKept, Unmade
    <3>4. w.why # "gone" /\ w.status # 409
      BY <1>1, <1>2, <2>3, StoreAssumption DEF CallInv, Reasons
    <3> QED
      BY <1>1, <1>2, <1>5, <2>3, <3>1, <3>3, <3>4 DEF CallInv
  <2>9. Apart(c, w)
    <3> SUFFICES ASSUME NEW d \in Calls, d # c, call[d].op = "create"
                 PROVE  call[d].target # w.target
      BY DEF Apart
    <3>1. CreatesApart
      BY DEF StoreInv
    <3>2. call[c].target # call[d].target
      BY <3>1 DEF CreatesApart
    <3> QED
      BY <1>1, <2>3, <3>2
  <2>10. UNCHANGED <<anchor, pin>>
    BY <1>5
  <2> QED
    BY ONLY StoreInv, c \in Calls, <2>2, <2>4, <2>5, <2>6, <2>7, <2>8, <2>9, <2>10, CallMoves
<1>6. CASE Answer(c, 500, Nil, "constraint")
  BY <1>6, WriteAnswers
<1> QED
  BY <1>1, <1>4, <1>5, <1>6 DEF Create

LEMMA PatchKeeps ==
  ASSUME StoreInv, NEW c \in Calls, call[c].pc = "write", call[c].op = "patch",
         Patch(c), UNCHANGED <<issued, lost, purged, left>>
  PROVE  StoreInv'
<1>1. PICK q \in CallStates : q = call[c] /\ CallInv(q)
  BY DEF StoreInv, StoreTypeOK
<1>2. /\ q.pc = "write" /\ q.op = "patch" /\ q.target \in Ids
      /\ q.value \in Issuers \union {Nil}
  BY <1>1 DEF CallInv, Accepted, StoreInv, StoreTypeOK
<1>3. anchor \in [Ids -> Issuers \union {Nil}] /\ pin \in [Pins -> PubKeys \union {Nil}]
  BY DEF StoreInv, StoreTypeOK
<1>4. CASE Answer(c, 404, Nil, Nil) \/ Answer(c, 500, Nil, "constraint")
  BY <1>4, WriteAnswers
<1>5. CASE /\ anchor[q.target] # Nil
           /\ q.value = Nil \/ ~Taken(q.value, q.target)
           /\ Changed(c, IF q.value = Nil THEN anchor
                         ELSE [anchor EXCEPT ![q.target] = q.value], pin)
  <2>1. PICK rows : rows = IF q.value = Nil THEN anchor
                           ELSE [anchor EXCEPT ![q.target] = q.value]
    OBVIOUS
  <2>2. /\ rows \in [Ids -> Issuers \union {Nil}]
        /\ rows[q.target] # Nil
        /\ \A i \in Ids \ {q.target} : rows[i] = anchor[i]
    BY <1>2, <1>3, <1>5, <2>1
  <2>3. Changed(c, rows, pin)
    BY <1>5, <2>1
  <2> QED
    BY <1>1, <1>2, <1>3, <1>5, <2>2, <2>3, ChangeKeeps
<1> QED
  BY <1>1, <1>4, <1>5 DEF Patch

LEMMA RemoveKeeps ==
  ASSUME StoreInv, NEW c \in Calls, call[c].pc = "write", call[c].op = "remove",
         Remove(c), UNCHANGED <<issued, lost, purged, left>>
  PROVE  StoreInv'
<1>1. PICK t \in Ids : t = call[c].target
  BY DEF StoreInv, StoreTypeOK, CallInv, Accepted
<1>2. anchor \in [Ids -> Issuers \union {Nil}] /\ pin \in [Pins -> PubKeys \union {Nil}]
  BY DEF StoreInv, StoreTypeOK
<1>3. CASE Answer(c, 404, Nil, Nil)
  BY <1>3, WriteAnswers
<1>4. CASE anchor[t] # Nil /\ Changed(c, [anchor EXCEPT ![t] = Nil], pin)
  <2>1. PICK rows : rows = [anchor EXCEPT ![t] = Nil]
    OBVIOUS
  <2>2. /\ rows \in [Ids -> Issuers \union {Nil}] /\ rows[t] = Nil
        /\ \A i \in Ids \ {t} : rows[i] = anchor[i]
    BY <1>2, <2>1
  <2>3. Changed(c, rows, pin)
    BY <1>4, <2>1
  <2> QED
    BY <1>1, <1>2, <1>4, <2>2, <2>3, ChangeKeeps
<1> QED
  BY <1>1, <1>3, <1>4 DEF Remove, Deleted

LEMMA PinsKeep ==
  ASSUME StoreInv, NEW c \in Calls, call[c].pc = "write", UNCHANGED <<issued, lost, purged, left>>,
         \/ call[c].op = "pin" /\ Pin(c)
         \/ call[c].op = "unpin" /\ Unpin(c)
  PROVE  StoreInv'
<1>1. PICK t \in Pins : t = call[c].target
  BY DEF StoreInv, StoreTypeOK, CallInv, Accepted
<1>2. anchor \in [Ids -> Issuers \union {Nil}] /\ pin \in [Pins -> PubKeys \union {Nil}]
  BY DEF StoreInv, StoreTypeOK
<1>3. CASE Answer(c, 404, Nil, Nil)
  BY <1>3, WriteAnswers
<1>4. ASSUME NEW v \in PubKeys \union {Nil},
             Changed(c, anchor, [pin EXCEPT ![t] = v]),
             \/ call[c].op = "pin" /\ v # Nil
             \/ call[c].op = "unpin" /\ pin[t] # Nil /\ v = Nil
      PROVE  StoreInv'
  <2>1. PICK keys : keys = [pin EXCEPT ![t] = v]
    OBVIOUS
  <2>2. /\ keys \in [Pins -> PubKeys \union {Nil}] /\ keys[t] = v
        /\ \A p \in Pins \ {t} : keys[p] = pin[p]
    BY <1>2, <2>1
  <2>3. Changed(c, anchor, keys)
    BY <1>4, <2>1
  <2> QED
    BY <1>1, <1>2, <1>4, <2>2, <2>3, ChangeKeeps
<1>5. CASE call[c].op = "pin" /\ Pin(c)
  <2>1. PICK v \in PubKeys : v = call[c].value
    BY <1>5 DEF StoreInv, CallInv, Accepted
  <2>2. v # Nil /\ Changed(c, anchor, [pin EXCEPT ![t] = v])
    BY <1>1, <1>5, <2>1, StoreAssumption DEF Pin
  <2> QED
    BY <1>4, <1>5, <2>2
<1>6. CASE call[c].op = "unpin" /\ Unpin(c)
  BY <1>1, <1>3, <1>4, <1>6 DEF Unpin, Deleted
<1> QED
  BY <1>5, <1>6

LEMMA WriteKeeps ==
  ASSUME StoreInv, NEW c \in Calls, Write(c)
  PROVE  StoreInv'
<1>1. call[c].pc = "write" /\ UNCHANGED <<issued, lost, purged, left>>
  BY DEF Write
<1>2. call[c].op \in Actions
  BY <1>1 DEF StoreInv, CallInv, Accepted
<1>3. CASE call[c].op = "create"
  BY <1>1, <1>3, CreateKeeps DEF Write
<1>4. CASE call[c].op = "patch"
  BY <1>1, <1>4, PatchKeeps DEF Write
<1>5. CASE call[c].op = "remove"
  BY <1>1, <1>5, RemoveKeeps DEF Write
<1>6. CASE call[c].op = "pin"
  BY <1>1, <1>6, PinsKeep DEF Write
<1>7. CASE call[c].op = "unpin"
  BY <1>1, <1>7, PinsKeep DEF Write
<1> QED
  BY <1>2, <1>3, <1>4, <1>5, <1>6, <1>7 DEF Actions

(* The holder is another anchor than the one that was to be created; that
   nobody is left, or that the row is gone, is a trace of a crossing. *)
LEMMA LooksKeep ==
  ASSUME StoreInv, NEW c \in Calls, Lookup(c) \/ Reread(c) \/ StatementFails(c)
  PROVE  StoreInv'
<1>1. PICK q \in CallStates : q = call[c] /\ CallInv(q)
  BY DEF StoreInv, StoreTypeOK
<1>2. left \in [call : Nat, fault : Nat]
  BY DEF StoreInv, StoreTypeOK
<1>3. CASE Lookup(c)
  <2>1. PICK h : h = Holder(q.value)
    OBVIOUS
  <2>2. h \in Ids \union {Nil}
    BY <2>1 DEF Holder
  <2>3. Answer(c, 409, h, "constraint") /\ q.pc = "lookup"
        /\ UNCHANGED <<issued, lost, purged, left>>
    BY <1>1, <1>3, <2>1 DEF Lookup
  <2>4. q.op = "create" /\ q.target \in Ids /\ q.value \in Issuers /\ q.value # Nil
        /\ anchor[q.target] = Nil /\ (Taken(q.value, q.target) \/ q.crossed)
    BY <1>1, <2>3, StoreAssumption DEF CallInv, Accepted, StoreInv, StoreTypeOK
  <2>5. h # q.target
    <3>1. CASE \E i \in Ids : anchor[i] = q.value
      BY <2>1, <2>4, <3>1 DEF Holder
    <3>2. CASE ~\E i \in Ids : anchor[i] = q.value
      BY <2>1, <2>4, <3>2, StoreAssumption DEF Holder
    <3> QED
      BY <3>1, <3>2
  <2>6. h = Nil => q.crossed
    <3>1. Nil \notin Ids
      BY StoreAssumption
    <3> QED
      BY <2>1, <2>4, <3>1 DEF Holder, Taken
  <2>7. Explained(call[c], 409, h, "constraint")
    BY <1>1, <2>5, <2>6 DEF Explained
  <2>8. "constraint" \in Reasons \union {Nil} /\ left' \in [call : Nat, fault : Nat]
    BY <1>2, <2>3 DEF Reasons
  <2> QED
    BY <1>1, <2>2, <2>3, <2>7, <2>8, AnswerKeeps
<1>4. CASE Reread(c)
  <2>1. q.pc = "reread" /\ UNCHANGED <<issued, lost, purged, left>> /\ q.op \in {"create", "pin"}
    BY <1>1, <1>4 DEF Reread, CallInv
  <2>2. left' \in [call : Nat, fault : Nat] /\ "gone" \in Reasons \union {Nil}
        /\ Nil \in Reasons \union {Nil} /\ Nil \in Ids \union {Nil}
    BY <1>2, <2>1 DEF Reasons
  <2>3. CASE Answer(c, 500, Nil, "gone") /\ q.crossed
    <3>1. Explained(call[c], 500, Nil, "gone")
      BY <1>1, <2>3 DEF Explained
    <3> QED
      BY <1>1, <2>1, <2>2, <2>3, <3>1, AnswerKeeps
  <2>4. CASE Answer(c, 201, Nil, Nil)
    <3>1. Explained(call[c], 201, Nil, Nil)
      BY StoreAssumption DEF Explained, Reasons
    <3> QED
      BY <1>1, <2>1, <2>2, <2>4, <3>1, AnswerKeeps
  <2>5. (IF q.op = "create" THEN anchor[q.target] ELSE pin[q.target]) = Nil => q.crossed
    BY <1>1, <2>1 DEF CallInv
  <2> QED
    BY <1>1, <1>4, <2>3, <2>4, <2>5 DEF Reread
<1>5. CASE StatementFails(c)
  <2>1. /\ Answer(c, 500, Nil, "fault") /\ q.pc \in {"write", "lookup", "reread"}
        /\ UNCHANGED <<issued, lost, purged>>
    BY <1>1, <1>5 DEF StatementFails
  <2>2. left' \in [call : Nat, fault : Nat] /\ "fault" \in Reasons \union {Nil}
        /\ Nil \in Ids \union {Nil}
    BY <1>2, <1>5 DEF StatementFails, Spend, Reasons
  <2>3. Explained(call[c], 500, Nil, "fault")
    BY DEF Explained
  <2> QED
    BY <1>1, <2>1, <2>2, <2>3, AnswerKeeps
<1> QED
  BY <1>3, <1>4, <1>5

(* A crash forgets the entries that were to be written, and so do its
   targets. *)
LEMMA CrashKeeps ==
  ASSUME StoreInv, Crash
  PROVE  StoreInv'
<1>1. /\ UNCHANGED <<anchor, issued, pin, trail, purged>> /\ call' = [c \in Calls |-> NoCall]
      /\ lost' = lost \union {call[c].target : c \in {d \in Calls : call[d].pc = "audit"}}
      /\ StoreTypeOK
  BY DEF Crash, StoreInv
<1>2. \A c \in Calls : call[c].pc = "audit" =>
         call[c].target \in Targets /\ (call[c].target \in Ids => call[c].target \in issued)
  <2> SUFFICES ASSUME NEW c \in Calls, call[c].pc = "audit"
               PROVE  call[c].target \in Targets
                      /\ (call[c].target \in Ids => call[c].target \in issued)
    OBVIOUS
  <2>1. Accepted(call[c])
    BY DEF StoreInv, CallInv
  <2> QED
    BY <2>1, StoreAssumption DEF Accepted, Actions
<1>3. StoreTypeOK'
  <2>1. NoCall \in CallStates
    BY DEF NoCall, CallStates
  <2>2. left' \in [call : Nat, fault : Nat]
    BY <1>1 DEF Crash, Spend, StoreTypeOK
  <2>3. lost' \subseteq Targets
    BY <1>1, <1>2 DEF StoreTypeOK
  <2> QED
    BY <1>1, <2>1, <2>2, <2>3 DEF StoreTypeOK
<1>4. CreatesApart'
  BY <1>1, StoreAssumption DEF StoreInv, CreatesApart, NoCall, Actions
<1>5. \A c \in Calls : CallInv(call[c])'
  BY <1>1, StoreAssumption DEF CallInv, NoCall, Actions, Reasons
<1>6. ASSUME NEW a \in Actions, NEW t \in Targets
      PROVE  /\ Made(a, t) \in Nat /\ Made(a, t)' \in Nat /\ Made(a, t)' <= Made(a, t)
             /\ t \notin lost' => Made(a, t)' = Made(a, t)
  <2>1. Pending(a, t)' = {} /\ Cardinality({}) = 0
    BY <1>1, FS_EmptySet DEF Pending, NoCall
  <2>2. Cardinality(Pending(a, t)) \in Nat /\ Written(a, t) \in Nat
    BY <1>1, MadeType
  <2>3. t \notin lost' => Pending(a, t) = {}
    BY <1>1 DEF Pending
  <2>4. Written(a, t)' = Written(a, t)
    BY <1>1 DEF Written
  <2> QED
    BY <2>1, <2>2, <2>3, <2>4 DEF Made
<1>7. {"create", "remove", "pin", "unpin"} \subseteq Actions /\ Ids \subseteq Targets
      /\ Pins \subseteq Targets
  BY DEF Actions, Targets
<1>8. ASSUME NEW i \in Ids PROVE AnchorInv(i)'
  <2>1. AnchorInv(i)
    BY DEF StoreInv
  <2>2. i \notin issued => i \notin lost'
    BY <1>1, <1>2, <2>1 DEF AnchorInv
  <2> QED
    BY <1>1, <1>6, <1>7, <2>1, <2>2 DEF AnchorInv, Unmade
<1>9. ASSUME NEW p \in Pins PROVE PinInv(p)'
  BY <1>1, <1>6, <1>7 DEF PinInv, StoreInv
<1> QED
  BY <1>3, <1>4, <1>5, <1>8, <1>9 DEF StoreInv

(* Requests, rows and all that was ever written stay as they are. *)
LEMMA SameKeeps ==
  ASSUME StoreInv, UNCHANGED <<anchor, issued, pin, call, lost>>, StoreTypeOK',
         \A a \in Actions, t \in Targets : Written(a, t)' = Written(a, t)
  PROVE  StoreInv'
<1>1. \A a \in Actions, t \in Targets : Made(a, t)' = Made(a, t)
  BY DEF Made, Pending
<1>2. {"create", "remove", "pin", "unpin"} \subseteq Actions /\ Ids \subseteq Targets
      /\ Pins \subseteq Targets /\ issued \subseteq Ids
  BY DEF Actions, Targets, StoreInv, StoreTypeOK
<1>3. \A i \in Ids : Unmade(i) => Unmade(i)'
  BY <1>1, <1>2 DEF Unmade
<1>4. ASSUME NEW c \in Calls PROVE CallInv(call[c])'
  <2>1. PICK q : q = call[c] /\ q = call'[c] /\ CallInv(q)
    BY DEF StoreInv
  <2>2. q.op = "create" /\ q.pc \in {"write", "lookup"} => Unmade(q.target)'
    BY <1>2, <1>3, <2>1 DEF CallInv, Accepted
  <2>3. CallInv(q)'
    BY <2>1, <2>2 DEF CallInv, Accepted, Taken
  <2> QED
    BY <2>1, <2>3 DEF CallInv
<1>5. \A i \in Ids : AnchorInv(i)'
  BY <1>1, <1>2 DEF StoreInv, AnchorInv, Unmade
<1>6. \A p \in Pins : PinInv(p)'
  BY <1>1, <1>2 DEF StoreInv, PinInv
<1>7. CreatesApart'
  BY DEF StoreInv, CreatesApart
<1> QED
  BY <1>4, <1>5, <1>6, <1>7 DEF StoreInv

(* An entry that is purged has been written. *)
LEMMA PurgeKeeps ==
  ASSUME StoreInv, NEW a \in Actions, NEW t \in Targets, PurgeAdminAudit(a, t)
  PROVE  StoreInv'
<1>1. /\ trail \in [Actions -> [Targets -> Nat]] /\ purged \in [Actions -> [Targets -> Nat]]
      /\ StoreTypeOK /\ trail[a][t] > 0
  BY DEF StoreInv, StoreTypeOK, PurgeAdminAudit
<1>2. PICK m \in Nat, n \in Nat : m = trail[a][t] - 1 /\ n = purged[a][t] + 1
  BY <1>1
<1>3. /\ trail' = [trail EXCEPT ![a][t] = m] /\ purged' = [purged EXCEPT ![a][t] = n]
      /\ UNCHANGED <<anchor, issued, pin, call, lost, left>>
  BY <1>2 DEF PurgeAdminAudit
<1>4. StoreTypeOK'
  BY <1>1, <1>2, <1>3 DEF StoreTypeOK
<1>5. ASSUME NEW b \in Actions, NEW u \in Targets PROVE Written(b, u)' = Written(b, u)
  <2>1. CASE b = a /\ u = t
    BY <1>1, <1>2, <1>3, <2>1 DEF Written
  <2>2. CASE ~(b = a /\ u = t)
    BY <1>1, <1>3, <2>2 DEF Written
  <2> QED
    BY <2>1, <2>2
<1> QED
  BY <1>3, <1>4, <1>5, SameKeeps

LEMMA StepStore == StoreInv /\ [StoreNext]_storeVars => StoreInv'
<1> SUFFICES ASSUME StoreInv, [StoreNext]_storeVars PROVE StoreInv'
  OBVIOUS
<1>1. ASSUME NEW c \in Calls, Receive(c) \/ Write(c) PROVE StoreInv'
  BY <1>1, ReceiveKeeps, WriteKeeps
<1>2. ASSUME NEW c \in Calls, Lookup(c) \/ Reread(c) \/ StatementFails(c) PROVE StoreInv'
  BY <1>2, LooksKeep
<1>3. ASSUME NEW c \in Calls, Audit(c) \/ AuditFails(c) PROVE StoreInv'
  BY <1>3, AuditsKeep
<1>4. CASE Crash
  BY <1>4, CrashKeeps
<1>5. ASSUME NEW a \in Actions, NEW t \in Targets, PurgeAdminAudit(a, t) PROVE StoreInv'
  BY <1>5, PurgeKeeps
<1>6. CASE UNCHANGED storeVars
  <2>1. UNCHANGED <<anchor, issued, pin, trail, call, lost, purged, left>>
    BY <1>6 DEF storeVars
  <2>2. \A a \in Actions, t \in Targets : Written(a, t)' = Written(a, t)
    BY <2>1 DEF Written
  <2>3. StoreTypeOK'
    BY <2>1 DEF StoreInv, StoreTypeOK
  <2> QED
    BY <2>1, <2>2, <2>3, SameKeeps
<1> QED
  BY <1>1, <1>2, <1>3, <1>4, <1>5, <1>6 DEF StoreNext

LEMMA StoreInvariant == StoreSpec => []StoreInv
<1>1. StoreInit => StoreInv
  BY InitStore
<1>2. StoreInv /\ [StoreNext]_storeVars => StoreInv'
  BY StepStore
<1> QED
  BY <1>1, <1>2, PTL DEF StoreSpec

(* Rows, requests and the trail stay in their types. *)
THEOREM StoreTypeCorrect == StoreSpec => []StoreTypeOK
<1>1. StoreInv => StoreTypeOK
  BY DEF StoreInv
<1> QED
  BY <1>1, StoreInvariant, PTL

(* What the trail says of the store is right although entries are lost and
   purged, and all that was written tells what the store holds, of every target
   that no entry was lost about (trust-anchors/route.ts:121-126,
   [id]/route.ts:84-98, pinned-keys/route.ts:131-173, retention.ts:96-108). *)
THEOREM TrailIsSufficient == StoreSpec => []TrailExplainsStore
<1>1. StoreInv => TrailExplainsStore
  <2> SUFFICES ASSUME StoreInv PROVE TrailExplainsStore
    OBVIOUS
  <2>1. ASSUME NEW a \in Actions, NEW t \in Targets
        PROVE  /\ Written(a, t) \in Nat /\ Made(a, t) \in Nat
               /\ Written(a, t) <= Made(a, t) /\ trail[a][t] <= Written(a, t)
               /\ trail[a][t] \in Nat
               /\ Settled(t) => Made(a, t) = Written(a, t)
    <3>1. /\ Cardinality(Pending(a, t)) \in Nat /\ Written(a, t) \in Nat /\ Made(a, t) \in Nat
          /\ trail[a][t] \in Nat /\ purged[a][t] \in Nat
      BY MadeType DEF StoreInv
    <3>2. Settled(t) => Cardinality(Pending(a, t)) = 0
      <4>1. Settled(t) => Pending(a, t) = {}
        BY DEF Pending, Settled
      <4> QED
        BY <4>1, FS_EmptySet
    <3>3. trail[a][t] <= Written(a, t)
      BY <3>1 DEF Written
    <3> QED
      BY <3>1, <3>2, <3>3 DEF Made
  <2>2. {"create", "remove", "pin", "unpin"} \subseteq Actions /\ Ids \subseteq Targets
        /\ Pins \subseteq Targets
    BY DEF Actions, Targets
  <2>3. ASSUME NEW i \in Ids
        PROVE  /\ Written("create", i) <= 1 /\ Written("remove", i) <= 1
               /\ trail["remove"][i] > 0 => anchor[i] = Nil
               /\ Settled(i) =>
                    /\ Written("remove", i) <= Written("create", i)
                    /\ anchor[i] # Nil <=> Written("create", i) > Written("remove", i)
    <3>1. AnchorInv(i) /\ (Settled(i) => i \notin lost)
      BY DEF StoreInv, Settled
    <3> QED
      BY <2>1, <2>2, <3>1 DEF AnchorInv
  <2>4. ASSUME NEW p \in Pins, Settled(p)
        PROVE  /\ Written("unpin", p) <= Written("pin", p)
               /\ pin[p] # Nil => Written("unpin", p) < Written("pin", p)
               /\ pin[p] = Nil /\ Written("pin", p) > 0 => Written("unpin", p) > 0
    <3>1. PinInv(p) /\ p \notin lost
      BY <2>4 DEF StoreInv, Settled
    <3> QED
      BY <2>1, <2>2, <2>4, <3>1 DEF PinInv
  <2> QED
    BY <2>3, <2>4 DEF TrailExplainsStore
<1> QED
  BY <1>1, StoreInvariant, PTL

(* A conflict with nobody, or a row that is gone before it is shown, is always
   the trace of another request (trust-anchors/route.ts:104-137,
   pinned-keys/route.ts:137-142). *)
THEOREM OddAnswersExplained == StoreSpec => []OddAnswersAreRaces
<1>1. StoreInv => OddAnswersAreRaces
  BY DEF StoreInv, CallInv, OddAnswersAreRaces
<1> QED
  BY <1>1, StoreInvariant, PTL

=============================================================================
