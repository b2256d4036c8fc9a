----------------------------- MODULE RateLimiter -----------------------------
(***************************************************************************)
(* What happens to a request before its handler sees it: the middleware    *)
(* (src/src/middleware.ts) and the limiter with its fixed windows          *)
(* (src/src/lib/rate-limit.ts), of one process.  The middleware has no     *)
(* await, so a request is one step.                                        *)
(***************************************************************************)
EXTENDS Integers, Sequences

CONSTANTS
    Requests,       \* the requests that may come: path, method, token, ip
    ApiKeys,        \* config.apiKeys
    IsProduction,
    Prefix,         \* token.slice(0, 24), for every token
    Limit,          \* the limit of each kind of bucket; 0 is no limit, for
                    \* every kind if RATE_LIMIT_ENABLED is false
    Window,         \* WINDOW_MS
    GcPeriod,       \* the five minutes of the garbage collection
    MaxTime,        \* bound: the clock
    MaxDrops,       \* bound: the drops of one kind of bucket
    None

(* Paths by what the middleware tells apart.  agent: the two path shapes
   below /api/registry/agents that are public for GET. *)
Paths == {"probe", "enroll", "public", "agent", "admin"}

Kinds == {"enroll-ip", "public-ip", "api-key"}

ASSUME LimiterAssumption ==
    /\ \A q \in Requests : q.path \in Paths /\ q.method \in {"GET", "POST", "OPTIONS"}
    /\ IsProduction \in BOOLEAN
    /\ Limit \in [Kinds -> Int]
    /\ Window \in Nat \ {0} /\ GcPeriod \in Nat \ {0}
    /\ MaxTime \in Nat /\ MaxDrops \in Nat
    /\ None \notin [count : Nat, resetAt : Nat]

-----------------------------------------------------------------------------
(* The middleware's view of a request *)

IsPublic(q) ==
    \/ q.path \in {"probe", "enroll", "public"}
    \/ q.path = "agent" /\ q.method = "GET"

(* Mutant of Auth: a wrong key is forbidden, not unauthorized. *)
AuthForbidden(q) ==
    CASE IsPublic(q) -> 200
      [] ~IsPublic(q) /\ ApiKeys = {} -> IF IsProduction THEN 503 ELSE 200
      [] OTHER -> IF q.token \in ApiKeys THEN 200 ELSE 403

(* Without keys, everybody is let in, except in production. *)
Auth(q) ==
    CASE IsPublic(q) -> 200
      [] ~IsPublic(q) /\ ApiKeys = {} -> IF IsProduction THEN 503 ELSE 200
      [] OTHER -> IF q.token \in ApiKeys THEN 200 ELSE 401

Exempt(q) == q.path = "probe"

(* Callers behind one address, and keys with one prefix, share a bucket. *)
ChooseRateLimit(q) ==
    IF q.path = "enroll" THEN <<"enroll-ip", q.ip>>
    ELSE IF IsPublic(q) \/ q.token = None THEN <<"public-ip", q.ip>>
    ELSE <<"api-key", Prefix[q.token]>>

Buckets == {ChooseRateLimit(q) : q \in Requests}

LimitOf(b) == Limit[b[1]]

-----------------------------------------------------------------------------

VARIABLES
    now,       \* Date.now()
    gcAt,      \* when the interval fires next
    bucket,    \* the map: count and resetAt, or None
    drops,
    answer,    \* history: the status of the last request, and its bucket
    log        \* history: of each bucket, when a request was admitted, and
               \* when the window had begun that it was counted in

vars == <<now, gcAt, bucket, drops, answer, log>>

NoAnswer == [status |-> 0, to |-> None]

TypeOK ==
    /\ now \in 0 .. MaxTime
    /\ gcAt \in Nat
    /\ bucket \in [Buckets -> [count : Nat, resetAt : Nat] \union {None}]
    /\ drops \in [Kinds -> Nat]
    /\ answer \in [status : {0, 200, 401, 429, 503}, to : Buckets \union {None}]
    /\ log \in [Buckets -> Seq([at : Nat, start : Int])]

Init ==
    /\ now = 0
    /\ gcAt \in 1 .. GcPeriod
    /\ bucket = [b \in Buckets |-> None]
    /\ drops = [n \in Kinds |-> 0]
    /\ answer = NoAnswer
    /\ log = [b \in Buckets |-> <<>>]

-----------------------------------------------------------------------------
(* check() *)

(* Mutant of Expired: the window has to be over for some time. *)
ExpiredStrictly(k) == k.resetAt < now

Expired(k) == k.resetAt <= now

(* Mutant of Full: one too many. *)
FullLate(k, limit) == k.count > limit

Full(k, limit) == k.count >= limit

(* A window begins with the first request after the end of the last. *)
Current(b) ==
    IF bucket[b] # None /\ ~Expired(bucket[b]) THEN bucket[b]
    ELSE [count |-> 0, resetAt |-> now + Window]

Admit(b) ==
    LET k == Current(b) IN
    /\ ~Full(k, LimitOf(b))
    /\ bucket' = [bucket EXCEPT ![b] = [count |-> k.count + 1, resetAt |-> k.resetAt]]
    /\ log' = [log EXCEPT ![b] = Append(log[b], [at |-> now, start |-> k.resetAt - Window])]
    /\ answer' = [status |-> 200, to |-> b]
    /\ UNCHANGED drops

Deny(b) ==
    LET k == Current(b) IN
    /\ Full(k, LimitOf(b))
    /\ drops[b[1]] < MaxDrops
    /\ drops' = [drops EXCEPT ![b[1]] = drops[b[1]] + 1]
    /\ bucket' = [bucket EXCEPT ![b] = k]
    /\ answer' = [status |-> 429, to |-> b]
    /\ UNCHANGED log

-----------------------------------------------------------------------------
(* middleware() *)

Pass(status) ==
    /\ answer' = [status |-> status, to |-> None]
    /\ UNCHANGED <<bucket, drops, log>>

Middleware(q) ==
    LET b == ChooseRateLimit(q) IN
    /\ \/ q.method = "OPTIONS" /\ Pass(200)
       \/ q.method # "OPTIONS" /\ Auth(q) # 200 /\ Pass(Auth(q))
       \/ /\ q.method # "OPTIONS" /\ Auth(q) = 200
          /\ Exempt(q) \/ LimitOf(b) <= 0
          /\ Pass(200)
       \/ /\ q.method # "OPTIONS" /\ Auth(q) = 200
          /\ ~Exempt(q) /\ LimitOf(b) > 0
          /\ Admit(b) \/ Deny(b)
    /\ UNCHANGED <<now, gcAt>>

-----------------------------------------------------------------------------

(* Mutant of Stale: a bucket is kept for another window. *)
StaleLate(k) == k.resetAt + Window <= now

Stale(k) == k.resetAt <= now

(* gc(), when its interval fires. *)
Gc ==
    /\ now = gcAt
    /\ gcAt' = now + GcPeriod
    /\ bucket' = [b \in Buckets |->
          IF bucket[b] # None /\ Stale(bucket[b]) THEN None ELSE bucket[b]]
    /\ UNCHANGED <<now, drops, answer, log>>

(* The interval is on time. *)
Tick ==
    /\ now < MaxTime
    /\ now < gcAt
    /\ now' = now + 1
    /\ answer' = NoAnswer
    /\ UNCHANGED <<gcAt, bucket, drops, log>>

Next ==
    \/ \E q \in Requests : Middleware(q)
    \/ Gc
    \/ Tick

Spec == Init /\ [][Next]_vars

-----------------------------------------------------------------------------
(* Properties *)

(* Two windows may touch, but no more than twice the limit is ever admitted in
   a time as long as the window, however buckets come, go and come again
   (rate-limit.ts:49-66, 75-80). *)
SlidingBound ==
    \A b \in Buckets :
        \A k \in 1 .. Len(log[b]) :
            LET far == k + 2 * LimitOf(b) IN
            far <= Len(log[b]) => log[b][far].at > log[b][k].at + Window

(* Whoever is turned away, with the moment at which the window ends for an
   answer, really has as many requests before him as the limit says, and all
   of them younger than the window: no old request and no denial counts
   (rate-limit.ts:52-60). *)
DenialJustified ==
    answer.status = 429 =>
        LET seen == log[answer.to]
            first == Len(seen) - LimitOf(answer.to) + 1 IN
        first >= 1 /\ \A k \in first .. Len(seen) : seen[k].at > now - Window

(* A bucket is remembered for at most one period of the garbage collection
   after its window, so the map holds no more than the callers of that time:
   "GC'd every 5 minutes to keep memory bounded" (rate-limit.ts:6-7, 75-80, 99-105). *)
StaleBounded ==
    \A b \in Buckets : bucket[b] # None => now <= bucket[b].resetAt + GcPeriod

-----------------------------------------------------------------------------
(* A sentence of middleware.ts that the code does not keep. *)

(* "authenticated routes use per-API-key" (middleware.ts:106-109): keys that
   begin with the same 24 characters use up each other's limit. *)
KeysApart ==
    \A p, q \in Requests :
        p.token \in ApiKeys /\ q.token \in ApiKeys /\ p.token # q.token
            => \/ ChooseRateLimit(p) # ChooseRateLimit(q)
               \/ ChooseRateLimit(p)[1] # "api-key"

=============================================================================
