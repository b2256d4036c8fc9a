------------------------- MODULE RevocationListProofs -------------------------
(***************************************************************************)
(* Proof of what a served list of RevocationList can miss, and for how     *)
(* long, for any numbers of instances, requests and tokens, any lifetime   *)
(* of the cache and queries that take any time.                            *)
(***************************************************************************)
EXTENDS RevocationList, TLAPS

(* What the age of an entry and a token's membership need of their types. *)
Typed ==
    /\ entries \subseteq Jtis
    /\ since \in [Jtis -> 0 .. Lifetime]
    /\ cache \in [Instances -> Caches]
    /\ fetch \in [Fetches -> FetchStates]
    /\ post \in [Posts -> Instances \union {None}]

ListInv ==
    /\ Typed /\ OmissionsInv
    /\ \A f \in Fetches : fetch[f].pc # "idle" => fetch[f].inst \in Instances

LEMMA InitList == Init => ListInv
  BY ListAssumption DEF Init, ListInv, Typed, OmissionsInv, Caches, NoCache,
     FetchStates, NoFetch, Usable

(* A request goes on: the entries it works with are those of its snapshot. *)
LEMMA FetchList ==
  ASSUME ListInv, NEW f \in Fetches, FetchStep(f)
  PROVE  ListInv'
<1> USE ListAssumption DEF ListInv
<1>1. fetch[f] \in FetchStates /\ fetch[f].inst \in Instances
  BY DEF Typed, FetchStep, Select, SelectFails, Sign
<1>2. CASE Select(f)
  <2> DEFINE s == [fetch[f] EXCEPT !.pc = "sign", !.list = entries]
  <2>1. s \in FetchStates
    BY <1>1 DEF Typed, FetchStates
  <2>2. s.inst = fetch[f].inst /\ s.list = entries
    BY <1>1 DEF FetchStates
  <2> HIDE DEF s
  <2>3. fetch' = [fetch EXCEPT ![f] = s] /\ UNCHANGED <<entries, since, cache, post>>
    BY <1>2 DEF Select, s
  <2>4. Typed'
    BY <2>1, <2>3 DEF Typed
  <2>5. OmissionsInv'
    BY <2>2, <2>3 DEF Typed, OmissionsInv, Usable
  <2>6. QED
    BY <1>1, <2>2, <2>3, <2>4, <2>5 DEF Typed
<1>3. CASE SelectFails(f)
  <2> DEFINE s == [fetch[f] EXCEPT !.pc = "sign", !.failed = TRUE]
  <2>1. s \in FetchStates
    BY <1>1 DEF FetchStates
  <2>2. s.inst = fetch[f].inst /\ s.failed
    BY <1>1 DEF FetchStates
  <2> HIDE DEF s
  <2>3. fetch' = [fetch EXCEPT ![f] = s] /\ UNCHANGED <<entries, since, cache, post>>
    BY <1>3 DEF SelectFails, s
  <2>4. Typed'
    BY <2>1, <2>3 DEF Typed
  <2>5. OmissionsInv'
    BY <2>2, <2>3 DEF Typed, OmissionsInv, Usable
  <2>6. QED
    BY <1>1, <2>2, <2>3, <2>4, <2>5 DEF Typed
<1>4. CASE Sign(f)
  <2> DEFINE i == fetch[f].inst
  <2>1. /\ cache' = [cache EXCEPT ![i] = Signed(f)]
        /\ fetch' = [fetch EXCEPT ![f] = NoFetch]
        /\ UNCHANGED <<entries, since, post>>
        /\ fetch[f].pc = "sign"
    BY <1>4 DEF Sign
  <2>2. Signed(f) \in Caches /\ NoFetch \in FetchStates
    BY <1>1 DEF Signed, Caches, FetchStates, NoFetch
  <2>3. Typed'
    BY <1>1, <2>1, <2>2 DEF Typed
  <2>4. /\ Signed(f).signed + Signed(f).left <= Lifetime
        /\ ~Signed(f).failed => entries \subseteq Signed(f).list \union Signed(f).during
    BY <1>1, <2>1 DEF Signed, OmissionsInv, FetchStates
  <2>5. OmissionsInv'
    BY <1>1, <2>1, <2>4 DEF Typed, OmissionsInv, Usable, NoFetch
  <2>6. QED
    BY <1>1, <2>1, <2>3, <2>5 DEF Typed, NoFetch
<1>5. QED
  BY <1>2, <1>3, <1>4 DEF FetchStep

LEMMA OlderCacheType ==
  ASSUME NEW c \in Caches
  PROVE  /\ OlderCache(c) \in Caches
         /\ OlderCache(c).left > 0 =>
               /\ c.left > 0
               /\ OlderCache(c).left = c.left - 1
               /\ OlderCache(c).signed = c.signed + 1
               /\ OlderCache(c).list = c.list
               /\ OlderCache(c).during = c.during
               /\ OlderCache(c).failed = c.failed
<1> USE ListAssumption
<1>1. CASE c.left > 1
  <2> DEFINE l == c.left - 1
             a == c.signed + 1
  <2>1. l \in 0 .. Lifetime /\ a \in Nat
    BY <1>1 DEF Caches
  <2>2. OlderCache(c) = [c EXCEPT !.left = l, !.signed = a]
    BY <1>1 DEF OlderCache
  <2> HIDE DEF l, a
  <2>3. [c EXCEPT !.left = l, !.signed = a] \in Caches
    BY <2>1 DEF Caches
  <2>4. QED
    BY <1>1, <2>2, <2>3 DEF Caches, l, a
<1>2. CASE ~(c.left > 1)
  BY <1>2 DEF OlderCache, NoCache, Caches
<1>3. QED
  BY <1>1, <1>2

(* A tick makes entries and lists older together. *)
LEMMA TickList ==
  ASSUME ListInv, Tick
  PROVE  ListInv'
<1> USE ListAssumption DEF ListInv
<1>1. /\ \A j \in Jtis : since[j] \in Nat /\ since'[j] \in Nat /\ since'[j] <= since[j] + 1
      /\ since' \in [Jtis -> 0 .. Lifetime]
      /\ UNCHANGED <<entries, fetch, post>>
  BY DEF Tick, Typed
<1>2. ASSUME NEW i \in Instances
      PROVE  /\ cache'[i] \in Caches
             /\ cache'[i].left > 0 =>
                   /\ cache[i].left > 0
                   /\ cache'[i].left = cache[i].left - 1
                   /\ cache'[i].signed = cache[i].signed + 1
                   /\ cache'[i].list = cache[i].list
                   /\ cache'[i].during = cache[i].during
                   /\ cache'[i].failed = cache[i].failed
  <2>1. cache[i] \in Caches /\ cache'[i] = OlderCache(cache[i])
    BY DEF Typed, Tick
  <2>2. QED
    BY <2>1, OlderCacheType
<1>3. Typed'
  BY <1>1, <1>2 DEF Typed, Tick
<1>4. ASSUME NEW i \in Instances, cache'[i].left > 0
      PROVE  /\ cache'[i].signed + cache'[i].left <= Lifetime
             /\ ~cache'[i].failed => \A j \in entries :
                   j \notin cache'[i].list \union cache'[i].during
                      => since'[j] <= cache'[i].signed
  <2>1. cache[i].signed \in Nat /\ cache[i].left \in Nat
    BY DEF Typed, Caches
  <2>2. cache'[i].signed + cache'[i].left <= Lifetime
    BY <1>2, <1>4, <2>1 DEF OmissionsInv, Usable
  <2>3. ASSUME ~cache'[i].failed, NEW j \in entries,
               j \notin cache'[i].list \union cache'[i].during
        PROVE  since'[j] <= cache'[i].signed
    <3>1. since[j] <= cache[i].signed
      BY <1>2, <1>4, <2>3 DEF OmissionsInv, Usable
    <3>2. since'[j] <= since[j] + 1 /\ since[j] \in Nat /\ since'[j] \in Nat
      BY <1>1 DEF Typed
    <3>3. cache'[i].signed = cache[i].signed + 1
      BY <1>2, <1>4
    <3>4. QED
      BY <2>1, <3>1, <3>2, <3>3
  <2>4. QED
    BY <2>2, <2>3
<1>5. QED
  BY <1>1, <1>3, <1>4 DEF OmissionsInv, Usable

(* An insertion is remembered by the queries that it overtakes. *)
LEMMA OvertakenType ==
  ASSUME NEW s \in FetchStates, NEW new \in SUBSET Jtis
  PROVE  /\ Overtaken(s, new) \in FetchStates
         /\ Overtaken(s, new).pc = s.pc /\ Overtaken(s, new).inst = s.inst
         /\ Overtaken(s, new).list = s.list /\ Overtaken(s, new).failed = s.failed
         /\ s.pc = "sign" => Overtaken(s, new).during = s.during \union new
<1> DEFINE d == s.during \union new
<1>1. d \in SUBSET Jtis
  BY DEF FetchStates
<1>2. Overtaken(s, new) = IF s.pc = "sign" THEN [s EXCEPT !.during = d] ELSE s
  BY DEF Overtaken
<1> HIDE DEF d
<1>3. QED
  BY <1>1, <1>2 DEF FetchStates, d

(* Requests that only look, insertions, invalidations and crashes: lists are
   dropped but never changed, and a new entry is younger than every list. *)
LEMMA OtherList ==
  ASSUME ListInv,
         \/ \E i \in Instances :
               \/ Hit(i) \/ Crash(i)
               \/ \E f \in Fetches : Miss(f, i)
               \/ \E p \in Posts, j \in Jtis : InsertEntry(p, i, j)
         \/ \E p \in Posts : Invalidate(p)
         \/ UNCHANGED vars
  PROVE  ListInv'
<1> USE ListAssumption DEF ListInv
<1>1. NoCache \in Caches /\ ~Usable(NoCache)
  BY DEF NoCache, Caches, Usable
<1>2. NoFetch \in FetchStates /\ NoFetch.pc = "idle"
  BY DEF NoFetch, FetchStates
<1>3. ASSUME NEW i \in Instances, Hit(i)
      PROVE  ListInv'
  <2>1. cache' = cache /\ UNCHANGED <<entries, since, fetch, post>>
    BY <1>3 DEF Hit, AfterHit, Typed
  <2>2. QED
    BY <2>1 DEF Typed, OmissionsInv, Usable
<1>4. ASSUME NEW i \in Instances, Crash(i)
      PROVE  ListInv'
  <2>1. Typed'
    BY <1>1, <1>2, <1>4 DEF Crash, Typed
  <2>2. OmissionsInv'
    BY <1>1, <1>2, <1>4 DEF Crash, Typed, OmissionsInv, Usable
  <2>3. QED
    BY <1>2, <1>4, <2>1, <2>2 DEF Crash
<1>5. ASSUME NEW i \in Instances, NEW f \in Fetches, Miss(f, i)
      PROVE  ListInv'
  <2> DEFINE s == [pc |-> "select", inst |-> i, list |-> {}, failed |-> FALSE, during |-> {}]
  <2>1. s \in FetchStates
    BY DEF FetchStates
  <2>2. s.pc = "select" /\ s.inst = i
    OBVIOUS
  <2> HIDE DEF s
  <2>3. fetch' = [fetch EXCEPT ![f] = s] /\ UNCHANGED <<entries, since, cache, post>>
    BY <1>5 DEF Miss, s
  <2>4. QED
    BY <2>1, <2>2, <2>3 DEF Typed, OmissionsInv, Usable
<1>6. ASSUME NEW i \in Instances, NEW p \in Posts, NEW j \in Jtis, InsertEntry(p, i, j)
      PROVE  ListInv'
  <2>1. /\ entries' = entries \union {j} /\ UNCHANGED cache
        /\ post' = [post EXCEPT ![p] = i]
        /\ since' \in [Jtis -> 0 .. Lifetime]
        /\ \A k \in entries : since'[k] = since[k]
        /\ j \notin entries => since'[j] = 0
    BY <1>6 DEF InsertEntry, Typed
  <2>2. ASSUME NEW f \in Fetches
        PROVE  /\ fetch'[f] \in FetchStates
               /\ fetch'[f].pc = fetch[f].pc /\ fetch'[f].inst = fetch[f].inst
               /\ fetch'[f].list = fetch[f].list /\ fetch'[f].failed = fetch[f].failed
               /\ fetch[f].pc = "sign" =>
                     fetch'[f].during = fetch[f].during \union ({j} \ entries)
    <3>1. fetch[f] \in FetchStates /\ fetch'[f] = Overtaken(fetch[f], {j} \ entries)
      BY <1>6 DEF InsertEntry, Typed
    <3>2. QED
      BY <3>1, OvertakenType
  <2>3. Typed'
    <3>1. fetch' = [f \in Fetches |-> fetch'[f]]
      BY <1>6 DEF InsertEntry
    <3>2. fetch' \in [Fetches -> FetchStates]
      BY <2>2, <3>1
    <3>3. QED
      BY <2>1, <3>2 DEF Typed
  <2>4. ASSUME NEW f \in Fetches, fetch'[f].pc = "sign", ~fetch'[f].failed
        PROVE  entries' \subseteq fetch'[f].list \union fetch'[f].during
    BY <2>1, <2>2, <2>4 DEF OmissionsInv
  <2>5. ASSUME NEW k \in Instances, cache[k].left > 0
        PROVE  /\ cache[k].signed + cache[k].left <= Lifetime
               /\ ~cache[k].failed => \A m \in entries' :
                     m \notin cache[k].list \union cache[k].during
                        => since'[m] <= cache[k].signed
    <3>1. cache[k].signed \in Nat
      BY DEF Typed, Caches
    <3>2. QED
      BY <2>1, <2>5, <3>1 DEF OmissionsInv, Usable
  <2>6. QED
    BY <2>1, <2>2, <2>3, <2>4, <2>5 DEF OmissionsInv, Usable
<1>7. ASSUME NEW p \in Posts, Invalidate(p)
      PROVE  ListInv'
  <2>1. /\ cache' = [cache EXCEPT ![post[p]] = NoCache]
        /\ post' = [post EXCEPT ![p] = None]
        /\ UNCHANGED <<entries, since, fetch>>
    BY <1>7 DEF Invalidate
  <2>2. QED
    BY <1>1, <2>1 DEF Typed, OmissionsInv, Usable
<1>8. CASE UNCHANGED vars
  BY <1>8 DEF vars, Typed, OmissionsInv, Usable
<1>9. QED
  BY <1>3, <1>4, <1>5, <1>6, <1>7, <1>8

LEMMA StepList == ListInv /\ [Next]_vars => ListInv'
  BY FetchList, TickList, OtherList DEF Next

(* Entries, caches, requests and histories stay in their types. *)
THEOREM TypeCorrect == Spec => []TypeOK
<1> DEFINE Rest == /\ previous \in [Instances -> SUBSET Jtis]
                   /\ faults \in [db : Nat, crash : Nat]
<1>1. Init => Rest
  BY ListAssumption DEF Init
<1>2. ListInv /\ Rest /\ [Next]_vars => Rest'
  <2> SUFFICES ASSUME ListInv, Rest, [Next]_vars PROVE Rest'
    OBVIOUS
  <2>1. ASSUME NEW f \in Fetches, Select(f) PROVE Rest'
    BY <2>1 DEF Select
  <2>2. ASSUME NEW f \in Fetches, SelectFails(f) PROVE Rest'
    BY <2>2 DEF SelectFails
  <2>3. ASSUME NEW f \in Fetches, Sign(f) PROVE Rest'
    BY <2>3 DEF Sign, ListInv, Typed, FetchStates
  <2>4. ASSUME NEW i \in Instances, Crash(i) PROVE Rest'
    BY <2>4 DEF Crash
  <2>5. CASE \/ \E i \in Instances :
                   \/ Hit(i)
                   \/ \E f \in Fetches : Miss(f, i)
                   \/ \E p \in Posts, j \in Jtis : InsertEntry(p, i, j)
             \/ \E p \in Posts : Invalidate(p)
             \/ Tick
    BY <2>5 DEF Hit, Miss, InsertEntry, Invalidate, Tick
  <2>6. CASE UNCHANGED vars
    BY <2>6 DEF vars
  <2> QED
    BY <2>1, <2>2, <2>3, <2>4, <2>5, <2>6 DEF Next, FetchStep
<1>3. ListInv /\ Rest => TypeOK
  BY DEF ListInv, Typed, TypeOK
<1> QED
  BY InitList, StepList, <1>1, <1>2, <1>3, PTL DEF Spec

(* No list is served for longer than the lifetime of the cache after its
   signature; and what was committed that long ago is missing from a list only
   if its read failed, or was under way at the commit. *)
THEOREM OmissionsAreBounded == Spec => []OmissionsBounded
<1>1. ListInv => OmissionsBounded
  <2> SUFFICES ASSUME ListInv, NEW i \in Instances, Usable(cache[i])
               PROVE  /\ cache[i].signed < Lifetime
                      /\ \A j \in entries \ cache[i].list :
                            since[j] >= Lifetime => cache[i].failed \/ j \in cache[i].during
    BY DEF OmissionsBounded
  <2>1. cache[i].signed \in Nat /\ cache[i].left \in Nat /\ cache[i].left > 0
    BY DEF ListInv, Typed, Caches, Usable
  <2>2. cache[i].signed < Lifetime
    BY <2>1, ListAssumption DEF ListInv, OmissionsInv
  <2>3. ASSUME NEW j \in entries \ cache[i].list, since[j] >= Lifetime, ~cache[i].failed,
               j \notin cache[i].during
        PROVE  FALSE
    <3>1. since[j] \in Nat
      BY DEF ListInv, Typed
    <3>2. since[j] <= cache[i].signed
      BY <2>3 DEF ListInv, OmissionsInv
    <3>3. QED
      BY <2>1, <2>2, <2>3, <3>1, <3>2, ListAssumption
  <2>4. QED
    BY <2>2, <2>3
<1>2. QED
  BY InitList, StepList, <1>1, PTL DEF Spec
==============================================================================
