---------------------------- MODULE RevocationList ----------------------------
(***************************************************************************)
(* The signed revocation list: entries in Postgres, and on every instance  *)
(* the envelope that RevocationProducer caches for 60 seconds              *)
(* (src/src/lib/revocation/producer.ts) and that a new entry invalidates   *)
(* on its own instance only (app/api/revocation/entries/route.ts).         *)
(*                                                                         *)
(* An action ends where the code awaits.  Time advances in ticks; the      *)
(* cache lives Lifetime ticks, and a query takes as long as it likes.      *)
(***************************************************************************)
EXTENDS Integers

CONSTANTS
    Jtis,         \* tokens that can be revoked
    Instances,    \* control-plane processes
    Fetches,      \* bound: GET requests under way at once
    Posts,        \* bound: POST requests under way at once
    Lifetime,     \* the 60 s an envelope is cached
    Ttl,          \* config.revocationListTtlSecs
    MaxDbErrors,  \* bound on failing SELECTs
    MaxCrashes,   \* bound on crashes
    None

ASSUME ListAssumption ==
    /\ Lifetime \in Nat \ {0} /\ Ttl \in Nat
    /\ MaxDbErrors \in Nat /\ MaxCrashes \in Nat
    /\ None \notin Instances

VARIABLES
    entries,  \* revocation_entries: the revoked tokens
    since,    \* ticks since a token's entry was committed, up to Lifetime
    cache,    \* cache[i]: cachedEnvelope and cachedUntil
    fetch,    \* getEnvelopeJson invocations under way
    post,     \* POST requests between their insert and their invalidate()
    previous, \* history: the list that each instance signed last
    faults

vars == <<entries, since, cache, fetch, post, previous, faults>>

-----------------------------------------------------------------------------

(* left: ticks until cachedUntil; 0 when there is no usable envelope.
   History: whether the read failed; entries that were committed between the
   SELECT and the signature; ticks since the signature. *)
Caches ==
    [ list : SUBSET Jtis,
      left : 0 .. Lifetime,
      failed : BOOLEAN,
      during : SUBSET Jtis,
      signed : Nat ]

NoCache == [list |-> {}, left |-> 0, failed |-> FALSE, during |-> {}, signed |-> 0]

FetchStates ==
    [ pc : {"idle", "select", "sign"},
      inst : Instances \union {None},
      list : SUBSET Jtis,       \* what the SELECT returned
      failed : BOOLEAN,         \* whether it failed
      during : SUBSET Jtis ]    \* history: entries committed since

NoFetch == [pc |-> "idle", inst |-> None, list |-> {}, failed |-> FALSE, during |-> {}]

TypeOK ==
    /\ entries \subseteq Jtis
    /\ since \in [Jtis -> 0 .. Lifetime]
    /\ cache \in [Instances -> Caches]
    /\ fetch \in [Fetches -> FetchStates]
    /\ post \in [Posts -> Instances \union {None}]
    /\ previous \in [Instances -> SUBSET Jtis]
    /\ faults \in [db : Nat, crash : Nat]

Init ==
    /\ entries = {}
    /\ since = [j \in Jtis |-> 0]
    /\ cache = [i \in Instances |-> NoCache]
    /\ fetch = [f \in Fetches |-> NoFetch]
    /\ post = [p \in Posts |-> None]
    /\ previous = [i \in Instances |-> {}]
    /\ faults = [db |-> MaxDbErrors, crash |-> MaxCrashes]

-----------------------------------------------------------------------------
(* GET: getEnvelopeJson *)

(* The cached envelope answers while Date.now() < cachedUntil. *)
Usable(c) == c.left > 0

(* Mutant of AfterHit: a hit prolongs the cache. *)
AfterHitSliding(c) == [c EXCEPT !.left = Lifetime]

AfterHit(c) == c

Hit(i) ==
    /\ Usable(cache[i])
    /\ cache' = [cache EXCEPT ![i] = AfterHit(cache[i])]
    /\ UNCHANGED <<entries, since, fetch, post, previous, faults>>

(* A miss sends the SELECT; nothing keeps a second request from missing too. *)
Miss(f, i) ==
    /\ fetch[f].pc = "idle"
    /\ ~Usable(cache[i])
    /\ fetch' = [fetch EXCEPT ![f] = [pc |-> "select", inst |-> i, list |-> {},
                                      failed |-> FALSE, during |-> {}]]
    /\ UNCHANGED <<entries, since, cache, post, previous, faults>>

Select(f) ==
    /\ fetch[f].pc = "select"
    /\ fetch' = [fetch EXCEPT ![f] = [@ EXCEPT !.pc = "sign", !.list = entries]]
    /\ UNCHANGED <<entries, since, cache, post, previous, faults>>

(* The SELECT fails: the list will be empty. *)
SelectFails(f) ==
    /\ fetch[f].pc = "select"
    /\ faults.db > 0
    /\ faults' = [faults EXCEPT !.db = @ - 1]
    /\ fetch' = [fetch EXCEPT ![f] = [@ EXCEPT !.pc = "sign", !.failed = TRUE]]
    /\ UNCHANGED <<entries, since, cache, post, previous>>

(* The envelope that is signed from the result and cached, whatever has been
   cached or invalidated since the SELECT was sent. *)
Signed(f) ==
    [ list |-> fetch[f].list, left |-> Lifetime, failed |-> fetch[f].failed,
      during |-> fetch[f].during, signed |-> 0 ]

Sign(f) ==
    LET i == fetch[f].inst IN
    /\ fetch[f].pc = "sign"
    /\ cache' = [cache EXCEPT ![i] = Signed(f)]
    /\ previous' = [previous EXCEPT ![i] = fetch[f].list]
    /\ fetch' = [fetch EXCEPT ![f] = NoFetch]
    /\ UNCHANGED <<entries, since, post, faults>>

-----------------------------------------------------------------------------
(* POST /api/revocation/entries *)

(* History: a query whose snapshot is taken has not seen the new entries. *)
Overtaken(s, new) ==
    IF s.pc = "sign" THEN [s EXCEPT !.during = @ \union new] ELSE s

(* INSERT ... ON CONFLICT DO NOTHING *)
InsertEntry(p, i, j) ==
    /\ post[p] = None
    /\ entries' = entries \union {j}
    /\ since' = IF j \in entries THEN since ELSE [since EXCEPT ![j] = 0]
    /\ fetch' = [f \in Fetches |-> Overtaken(fetch[f], {j} \ entries)]
    /\ post' = [post EXCEPT ![p] = i]
    /\ UNCHANGED <<cache, previous, faults>>

Invalidate(p) ==
    /\ post[p] # None
    /\ cache' = [cache EXCEPT ![post[p]] = NoCache]
    /\ post' = [post EXCEPT ![p] = None]
    /\ UNCHANGED <<entries, since, fetch, previous, faults>>

-----------------------------------------------------------------------------

OlderCache(c) ==
    IF c.left > 1 THEN [c EXCEPT !.left = @ - 1, !.signed = @ + 1] ELSE NoCache

Tick ==
    /\ since' = [j \in Jtis |->
          IF j \in entries /\ since[j] < Lifetime THEN since[j] + 1 ELSE since[j]]
    /\ cache' = [i \in Instances |-> OlderCache(cache[i])]
    /\ UNCHANGED <<entries, fetch, post, previous, faults>>

(* The process dies and starts again with an empty cache; a POST may have
   inserted its entry and never invalidate. *)
Crash(i) ==
    /\ faults.crash > 0
    /\ faults' = [faults EXCEPT !.crash = @ - 1]
    /\ cache' = [cache EXCEPT ![i] = NoCache]
    /\ fetch' = [f \in Fetches |-> IF fetch[f].inst = i THEN NoFetch ELSE fetch[f]]
    /\ post' = [p \in Posts |-> IF post[p] = i THEN None ELSE post[p]]
    /\ UNCHANGED <<entries, since, previous>>

FetchStep(f) == Select(f) \/ SelectFails(f) \/ Sign(f)

Next ==
    \/ \E i \in Instances :
          \/ Hit(i)
          \/ \E f \in Fetches : Miss(f, i)
          \/ \E p \in Posts, j \in Jtis : InsertEntry(p, i, j)
          \/ Crash(i)
    \/ \E f \in Fetches : FetchStep(f)
    \/ \E p \in Posts : Invalidate(p)
    \/ Tick

Spec == Init /\ [][Next]_vars

-----------------------------------------------------------------------------
(* Properties *)

(* However requests overlap with insertions, invalidations and failures, on
   this instance or another (producer.ts:14-50): no list is served for longer
   than the cache lifetime after its signature, the empty list of a failed
   read included; and an entry that was committed at least that long ago is
   missing only if this very read failed or was under way at the commit. *)
OmissionsBounded ==
    \A i \in Instances : Usable(cache[i]) =>
        /\ cache[i].signed < Lifetime
        /\ \A j \in entries \ cache[i].list :
              since[j] >= Lifetime => cache[i].failed \/ j \in cache[i].during

(* The inductive strengthening of OmissionsBounded: a query under way has seen
   or been overtaken by every entry; a cached list has, but for those that
   were committed after its signature; and what has passed since the
   signature and what is left make up no more than the lifetime. *)
OmissionsInv ==
    /\ \A f \in Fetches : fetch[f].pc = "sign" /\ ~fetch[f].failed =>
          entries \subseteq fetch[f].list \union fetch[f].during
    /\ \A i \in Instances : Usable(cache[i]) =>
          /\ cache[i].signed + cache[i].left <= Lifetime
          /\ ~cache[i].failed => \A j \in entries :
                j \notin cache[i].list \union cache[i].during => since[j] <= cache[i].signed

-----------------------------------------------------------------------------
(* Claims of comments and documents that the code does not keep. *)

(* "an empty entries array as a meaningful assertion that nothing has been
   revoked since the previous snapshot" (producer.ts:29-31): when an empty
   list is signed, the instance had every entry that was there at the query
   on the list it signed before. *)
EmptyMeansNothingRevoked ==
    [][ \A f \in Fetches :
          Sign(f) /\ fetch[f].list = {}
              => entries \ fetch[f].during \subseteq previous[fetch[f].inst] ]_vars

(* "refreshes every REVOCATION_LIST_TTL_SECS seconds" (docs/api.md:131): no
   list is served once its signature is that old. *)
RefreshedByTtl ==
    \A i \in Instances : Usable(cache[i]) => Lifetime - cache[i].left < Ttl
==============================================================================
