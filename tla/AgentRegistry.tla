---------------------------- MODULE AgentRegistry ----------------------------
(***************************************************************************)
(* The agent registry: enrollment tokens, the agents table, and the job    *)
(* that expires lapsed manifests and announces it                          *)
(* (src/src/lib/registry/{enrollment,store,expiry-job}.ts and the routes   *)
(* under src/src/app/api/registry).                                        *)
(*                                                                         *)
(* An action is one statement sent to Postgres with the code that runs up  *)
(* to the next await.  Requests and sweeps, on any instance, interleave    *)
(* there; a crash ends those of one instance.                              *)
(***************************************************************************)
EXTENDS Integers, FiniteSets

CONSTANTS
    Agents,       \* agent identifiers
    Instances,    \* control-plane processes
    Tokens,       \* bound: enrollment tokens issued
    Requests,     \* bound: register and deregister requests under way at once
    Sweeps,       \* bound: enforceManifestExpiry calls under way at once
    Lifetimes,    \* lifetimes of the manifests that agents present
    Guard,        \* REGISTRATION_EXPIRY_GUARD_MS
    TokenLife,    \* TOKEN_LIFETIME_SECS
    MaxTime, MaxRequests, MaxDbErrors, MaxCrashes,  \* bounds
    None

ASSUME RegistryAssumption ==
    /\ Lifetimes \subseteq Nat \ {0} /\ Guard \in Nat \ {0} /\ TokenLife \in Nat
    /\ MaxTime \in Nat /\ MaxRequests \in Nat
    /\ MaxDbErrors \in Nat /\ MaxCrashes \in Nat
    /\ IsFiniteSet(Sweeps)
    /\ None \notin Agents \union Instances

VARIABLES
    now,
    token,     \* the tokens issued
    agent,     \* rows of agents
    req,       \* register and deregister requests under way
    started,   \* processes that run the expiry job
    sweep,     \* enforceManifestExpiry calls under way
    history,   \* what happened to each agent, and how often a token was used
    faults

vars == <<now, token, agent, req, started, sweep, history, faults>>

-----------------------------------------------------------------------------

Never == 0                    \* manifest_expires_at IS NULL

Token == [aid : Agents \union {None}, exp : Nat]

Agent == [status : {"absent", "active", "expired", "deregistered"}, expires : Nat]

Request ==
    [ pc : {"idle", "upsert", "deactivate", "audit"},
      inst : Instances \union {None},
      aid : Agents \union {None},
      expires : Nat ]

NoRequest == [pc |-> "idle", inst |-> None, aid |-> None, expires |-> Never]

(* at: the `now` of the call.  claimed: agents it expired and has not
   announced yet. *)
Sweep ==
    [ pc : {"idle", "update", "emit"},
      inst : Instances \union {None},
      at : Nat,
      claimed : SUBSET Agents ]

NoSweep == [pc |-> "idle", inst |-> None, at |-> 0, claimed |-> {}]

TypeOK ==
    /\ now \in Nat
    /\ token \in [Tokens -> Token]
    /\ agent \in [Agents -> Agent]
    /\ req \in [Requests -> Request]
    /\ started \subseteq Instances
    /\ sweep \in [Sweeps -> Sweep]
    /\ history \in [ enrolled : [Agents -> Nat], expired : [Agents -> Nat],
                     announced : [Agents -> Nat], used : [Tokens -> Nat] ]
    /\ faults \in [request : Nat, db : Nat, crash : Nat]

Init ==
    /\ now = 1
    /\ token = [k \in Tokens |-> [aid |-> None, exp |-> 0]]
    /\ agent = [a \in Agents |-> [status |-> "absent", expires |-> Never]]
    /\ req = [r \in Requests |-> NoRequest]
    /\ started = {}
    /\ sweep = [s \in Sweeps |-> NoSweep]
    /\ history = [ enrolled |-> [a \in Agents |-> 0], expired |-> [a \in Agents |-> 0],
                   announced |-> [a \in Agents |-> 0], used |-> [k \in Tokens |-> 0] ]
    /\ faults = [request |-> MaxRequests, db |-> MaxDbErrors, crash |-> MaxCrashes]

Tick ==
    /\ now < MaxTime
    /\ now' = now + 1
    /\ UNCHANGED <<token, agent, req, started, sweep, history, faults>>

(* The expiry of a manifest issued now, and the guard that it has to pass when
   it is enrolled and again when it is registered. *)
Manifests == {Never} \union {now + l : l \in Lifetimes}

LongEnough(expires) == expires = Never \/ expires >= now + Guard

-----------------------------------------------------------------------------
(* Requests *)

(* POST enroll: verifyAndIssueToken. *)
Enroll(k, a, expires) ==
    /\ token[k].aid = None
    /\ LongEnough(expires)
    /\ token' = [token EXCEPT ![k] = [aid |-> a, exp |-> now + TokenLife]]
    /\ UNCHANGED <<now, agent, req, started, sweep, history, faults>>

(* validateToken: the token was issued for the manifest's agent and has not
   expired. *)
Valid(k) == token[k].aid # None /\ now <= token[k].exp

BeginRequest(r, i, pc, a, expires) ==
    /\ req[r].pc = "idle"
    /\ faults.request > 0
    /\ faults' = [faults EXCEPT !.request = @ - 1]
    /\ req' = [req EXCEPT ![r] = [pc |-> pc, inst |-> i, aid |-> a, expires |-> expires]]

(* POST agents: the token is validated, then the manifest's expiry.  Nothing
   is recorded about the token. *)
Register(r, i, k, expires) ==
    /\ Valid(k)
    /\ LongEnough(expires)
    /\ BeginRequest(r, i, "upsert", token[k].aid, expires)
    /\ history' = [history EXCEPT !.used = [@ EXCEPT ![k] = history.used[k] + 1]]
    /\ UNCHANGED <<now, token, agent, started, sweep>>

(* Mutant of Upserted: an enrollment does not re-activate. *)
UpsertedStale(row, expires) ==
    [status |-> IF row.status = "absent" THEN "active" ELSE row.status, expires |-> expires]

(* upsertAgent: a fresh enrollment re-activates whatever was there. *)
Upserted(row, expires) == [status |-> "active", expires |-> expires]

Upsert(r) ==
    LET a == req[r].aid
    IN  /\ req[r].pc = "upsert"
        /\ agent' = [agent EXCEPT ![a] = Upserted(agent[a], req[r].expires)]
        /\ req' = [req EXCEPT ![r].pc = "audit"]
        /\ history' = [history EXCEPT !.enrolled = [@ EXCEPT ![a] = history.enrolled[a] + 1]]
        /\ UNCHANGED <<now, token, started, sweep, faults>>

(* DELETE agents/[aid] *)
Deregister(r, i, a) ==
    /\ BeginRequest(r, i, "deactivate", a, Never)
    /\ UNCHANGED <<now, token, agent, started, sweep, history>>

Deactivated(row) == [row EXCEPT !.status = "deregistered"]

(* deactivateAgent matches on the aid alone; without a row the answer is 404. *)
Deactivate(r) ==
    LET a == req[r].aid
    IN  /\ req[r].pc = "deactivate"
        /\ IF agent[a].status = "absent"
           THEN req' = [req EXCEPT ![r] = NoRequest] /\ UNCHANGED agent
           ELSE /\ agent' = [agent EXCEPT ![a] = Deactivated(agent[a])]
                /\ req' = [req EXCEPT ![r].pc = "audit"]
        /\ UNCHANGED <<now, token, started, sweep, history, faults>>

(* The event is stored, published and dispatched, and the request answered. *)
Audit(r) ==
    /\ req[r].pc = "audit"
    /\ req' = [req EXCEPT ![r] = NoRequest]
    /\ UNCHANGED <<now, token, agent, started, sweep, history, faults>>

(* A statement fails: the handler throws, whatever it has done before. *)
RequestFails(r) ==
    /\ req[r].pc # "idle"
    /\ faults.db > 0
    /\ faults' = [faults EXCEPT !.db = @ - 1]
    /\ req' = [req EXCEPT ![r] = NoRequest]
    /\ UNCHANGED <<now, token, agent, started, sweep, history>>

-----------------------------------------------------------------------------
(* The expiry job *)

(* The first POST /api/events of a process starts the interval. *)
StartExpiryJob(i) ==
    /\ i \notin started
    /\ started' = started \union {i}
    /\ UNCHANGED <<now, token, agent, req, sweep, history, faults>>

(* A tick of the interval does not wait for the previous one to end. *)
BeginSweep(s, i) ==
    /\ sweep[s].pc = "idle"
    /\ i \in started
    /\ sweep' = [sweep EXCEPT ![s] = [pc |-> "update", inst |-> i, at |-> now, claimed |-> {}]]
    /\ UNCHANGED <<now, token, agent, req, started, history, faults>>

(* Mutants of Lapsed: any status but deregistered; only what has lapsed since
   the tick before, so that one that is missed is not made up for. *)
LapsedAgain(row, at) ==
    row.status \in {"active", "expired"} /\ row.expires # Never /\ row.expires < at

LapsedLately(row, at) ==
    row.status = "active" /\ row.expires # Never /\ row.expires = at - 1

Lapsed(row, at) ==
    row.status = "active" /\ row.expires # Never /\ row.expires < at

(* UPDATE ... RETURNING: expires the rows as they are now, with the time of
   the call, and claims them for this sweep. *)
Expire(s) ==
    LET claimed == {a \in Agents : Lapsed(agent[a], sweep[s].at)}
    IN  /\ sweep[s].pc = "update"
        /\ agent' = [a \in Agents |->
                        IF a \in claimed THEN [agent[a] EXCEPT !.status = "expired"]
                        ELSE agent[a]]
        /\ sweep' = [sweep EXCEPT ![s] =
                        IF claimed = {} THEN NoSweep
                        ELSE [pc |-> "emit", inst |-> sweep[s].inst,
                              at |-> sweep[s].at, claimed |-> claimed]]
        /\ history' = [history EXCEPT !.expired =
              [a \in Agents |-> history.expired[a] + (IF a \in claimed THEN 1 ELSE 0)]]
        /\ UNCHANGED <<now, token, req, started, faults>>

ExpireFails(s) ==
    /\ sweep[s].pc = "update"
    /\ faults.db > 0
    /\ faults' = [faults EXCEPT !.db = @ - 1]
    /\ sweep' = [sweep EXCEPT ![s] = NoSweep]
    /\ UNCHANGED <<now, token, agent, req, started, history>>

(* The claimed agents one by one: the event is stored (a failure is caught),
   published and dispatched. *)
Emit(s, a) ==
    LET left == sweep[s].claimed \ {a}
    IN  /\ sweep[s].pc = "emit"
        /\ a \in sweep[s].claimed
        /\ sweep' = [sweep EXCEPT ![s] =
                        IF left = {} THEN NoSweep
                        ELSE [pc |-> "emit", inst |-> sweep[s].inst,
                              at |-> sweep[s].at, claimed |-> left]]
        /\ history' = [history EXCEPT !.announced = [@ EXCEPT ![a] = history.announced[a] + 1]]
        /\ UNCHANGED <<now, token, agent, req, started, faults>>

(* The process dies and starts again. *)
Crash(i) ==
    /\ faults.crash > 0
    /\ faults' = [faults EXCEPT !.crash = @ - 1]
    /\ started' = started \ {i}
    /\ req' = [r \in Requests |-> IF req[r].inst = i THEN NoRequest ELSE req[r]]
    /\ sweep' = [s \in Sweeps |-> IF sweep[s].inst = i THEN NoSweep ELSE sweep[s]]
    /\ UNCHANGED <<now, token, agent, history>>

-----------------------------------------------------------------------------

Next ==
    \/ Tick
    \/ \E k \in Tokens, a \in Agents, e \in Manifests : Enroll(k, a, e)
    \/ \E r \in Requests :
        \/ \E i \in Instances :
            \/ \E k \in Tokens, e \in Manifests : Register(r, i, k, e)
            \/ \E a \in Agents : Deregister(r, i, a)
        \/ Upsert(r) \/ Deactivate(r) \/ Audit(r) \/ RequestFails(r)
    \/ \E i \in Instances : StartExpiryJob(i) \/ Crash(i)
    \/ \E s \in Sweeps :
        \/ \E i \in Instances : BeginSweep(s, i)
        \/ Expire(s) \/ ExpireFails(s)
        \/ \E a \in Agents : Emit(s, a)

Spec == Init /\ [][Next]_vars

(* Processes are sent events, the interval keeps firing, statements return,
   and time passes. *)
FairSpec ==
    /\ Spec
    /\ WF_vars(Tick)
    /\ \A i \in Instances :
        /\ WF_vars(StartExpiryJob(i))
        /\ SF_vars(\E s \in Sweeps : BeginSweep(s, i))
    /\ \A s \in Sweeps : WF_vars(Expire(s)) /\ WF_vars(\E a \in Agents : Emit(s, a))

-----------------------------------------------------------------------------
(* Properties *)

(* However registrations, deregistrations and sweeps race, on whatever
   instance and however late an UPDATE runs, an agent shown as expired is one
   whose current manifest has lapsed: a new enrollment un-stales it, and a
   sweep that began before does not expire it again
   (store.ts:83-89, expiry-job.ts:22-31). *)
ExpiredIsLapsed ==
    \A a \in Agents : agent[a].status = "expired" =>
        agent[a].expires # Never /\ agent[a].expires < now

(* A lapse is announced at most once: the announcements made and still to be
   made by any sweep never exceed the transitions to expired, of which there
   is at most one per enrollment (expiry-job.ts:14-20). *)
AnnouncedAtMostOnce ==
    \A a \in Agents :
        /\ history.announced[a] + Cardinality({s \in Sweeps : a \in sweep[s].claimed})
              <= history.expired[a]
        /\ history.expired[a] <= history.enrolled[a]

(* An agent whose manifest has lapsed does not stay active, unless it enrolls
   with a new one (expiry-job.ts:22-31). *)
Overdue(a) ==
    agent[a].status = "active" /\ agent[a].expires \in 1 .. now - 1

LapsedExpires == \A a \in Agents : Overdue(a) ~> ~Overdue(a)

(* expiry-job.ts:14-18: each agent.expired event fires exactly once across the
   cluster; so a transition was announced, or a sweep is about to do it. *)
AnnouncedExactlyOnce ==
    \A a \in Agents :
        history.announced[a] + Cardinality({s \in Sweeps : a \in sweep[s].claimed})
            = history.expired[a]

(* openapi.yaml:55: an enrollment token is a one-time bearer. *)
TokenUsedOnce == \A k \in Tokens : history.used[k] <= 1

=============================================================================
