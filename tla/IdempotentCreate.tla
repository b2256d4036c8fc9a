--------------------------- MODULE IdempotentCreate ---------------------------
(***************************************************************************)
(* The Idempotency-Key wrapper (src/src/lib/idempotency.ts) around the     *)
(* handler whose effect tells two executions apart: POST /api/webhooks,    *)
(* which inserts a webhook under a random id                               *)
(* (src/src/app/api/webhooks/route.ts, createWebhook in                    *)
(* src/src/lib/webhooks/service.ts).                                       *)
(*                                                                         *)
(* One action per statement sent to Postgres: requests interleave there,   *)
(* within a process and between instances, which share nothing else.  A    *)
(* client sends a key again whenever it likes: after an answer, after a    *)
(* 500, after a crash, or while an earlier request is still at work.       *)
(***************************************************************************)
EXTENDS Integers, FiniteSets

CONSTANTS
    Keys,         \* (scope, Idempotency-Key) pairs
    Requests,     \* bound: requests under way at once
    MaxCreates,   \* bound on the webhooks created
    MaxDbErrors,  \* bound on failing statements
    MaxCrashes,   \* bound on requests lost with their process
    MaxPurges,    \* bound on rows removed by the retention sweep
    None

ASSUME CreateAssumption ==
    /\ MaxCreates \in Nat /\ MaxDbErrors \in Nat
    /\ MaxCrashes \in Nat /\ MaxPurges \in Nat
    /\ None \notin Keys /\ None \notin Nat

VARIABLES
    row,       \* idempotency_keys: the answer pinned for a key, or None
    created,   \* webhooks: the ids created under each key
    req,       \* requests under way
    answers,   \* history: 201 answers given for a key while its row lives
    unpinned,  \* history: keys whose row could not be written
    faults

vars == <<row, created, req, answers, unpinned, faults>>

-----------------------------------------------------------------------------

Ids == 1 .. MaxCreates

(* pc: the statement that is sent next.  id: the webhook of its own.
   late: history: it began after an answer had been given for its key. *)
Request ==
    [ pc : {"idle", "lookup", "insert", "select", "pin", "reread"},
      key : Keys \union {None},
      id : Ids \union {None},
      late : BOOLEAN ]

NoRequest == [pc |-> "idle", key |-> None, id |-> None, late |-> FALSE]

TypeOK ==
    /\ row \in [Keys -> Ids \union {None}]
    /\ created \in [Keys -> SUBSET Ids]
    /\ req \in [Requests -> Request]
    /\ answers \in [Keys -> SUBSET Ids]
    /\ unpinned \subseteq Keys
    /\ faults \in [db : Nat, crash : Nat, purge : Nat]

Init ==
    /\ row = [k \in Keys |-> None]
    /\ created = [k \in Keys |-> {}]
    /\ req = [r \in Requests |-> NoRequest]
    /\ answers = [k \in Keys |-> {}]
    /\ unpinned = {}
    /\ faults = [db |-> MaxDbErrors, crash |-> MaxCrashes, purge |-> MaxPurges]

At(r, pc) == req[r].pc = pc

Goto(r, pc) == req' = [req EXCEPT ![r].pc = pc]

(* The 201 that names webhook id, as the request's answer. *)
Answer(r, id) ==
    /\ req' = [req EXCEPT ![r] = NoRequest]
    /\ answers' = [answers EXCEPT ![req[r].key] = @ \union {id}]

-----------------------------------------------------------------------------

Begin(r, k) ==
    /\ At(r, "idle")
    /\ req' = [req EXCEPT ![r] = [pc |-> "lookup", key |-> k, id |-> None,
                                  late |-> answers[k] # {} /\ k \notin unpinned]]
    /\ UNCHANGED <<row, created, answers, unpinned, faults>>

Cached(k) == row[k] # None

(* The fast path: a pinned answer is returned, and the handler does not run. *)
Lookup(r) ==
    LET k == req[r].key
    IN  /\ At(r, "lookup")
        /\ IF Cached(k)
           THEN Answer(r, row[k])
           ELSE Goto(r, "insert") /\ UNCHANGED answers
        /\ UNCHANGED <<row, created, unpinned, faults>>

(* exec(): createWebhook inserts under a fresh id ... *)
Insert(r) ==
    /\ At(r, "insert")
    /\ \E id \in Ids :
        /\ id = Cardinality(UNION {created[k] : k \in Keys}) + 1
        /\ created' = [created EXCEPT ![req[r].key] = @ \union {id}]
        /\ req' = [req EXCEPT ![r] = [pc |-> "select", key |-> req[r].key, id |-> id,
                                      late |-> req[r].late]]
    /\ UNCHANGED <<row, answers, unpinned, faults>>

(* ... and reads the row back. *)
Select(r) ==
    /\ At(r, "select")
    /\ Goto(r, "pin")
    /\ UNCHANGED <<row, created, answers, unpinned, faults>>

(* Mutant of Pinned: 201 is missing from CACHEABLE_STATUSES. *)
PinnedNever(k, id) == row[k]

(* Mutant of Pinned: the later response replaces the earlier one. *)
PinnedLast(k, id) == id

(* INSERT ... ON CONFLICT DO NOTHING *)
Pinned(k, id) == IF row[k] = None THEN id ELSE row[k]

Pin(r) ==
    /\ At(r, "pin")
    /\ row' = [row EXCEPT ![req[r].key] = Pinned(req[r].key, req[r].id)]
    /\ Goto(r, "reread")
    /\ UNCHANGED <<created, answers, unpinned, faults>>

(* Mutant of Winner: the request returns its own response. *)
WinnerOwn(r) == req[r].id

(* The pinned answer, or its own if the row is gone already. *)
Winner(r) == IF row[req[r].key] = None THEN req[r].id ELSE row[req[r].key]

Reread(r) ==
    /\ At(r, "reread")
    /\ Answer(r, Winner(r))
    /\ UNCHANGED <<row, created, unpinned, faults>>

-----------------------------------------------------------------------------
(* Failures *)

(* A statement fails before it takes effect: the handler throws, and a 500 is
   the answer, which is not pinned. *)
Fails(r) ==
    /\ req[r].pc \in {"lookup", "insert", "select", "reread"}
    /\ faults.db > 0
    /\ faults' = [faults EXCEPT !.db = @ - 1]
    /\ req' = [req EXCEPT ![r] = NoRequest]
    /\ UNCHANGED <<row, created, answers, unpinned>>

(* Only the failure to persist is caught: the client gets its own response. *)
PinFails(r) ==
    /\ At(r, "pin")
    /\ faults.db > 0
    /\ faults' = [faults EXCEPT !.db = @ - 1]
    /\ Answer(r, req[r].id)
    /\ unpinned' = unpinned \union {req[r].key}
    /\ UNCHANGED <<row, created>>

(* The process dies, and the request with it. *)
Crash(r) ==
    /\ ~At(r, "idle")
    /\ faults.crash > 0
    /\ faults' = [faults EXCEPT !.crash = @ - 1]
    /\ req' = [req EXCEPT ![r] = NoRequest]
    /\ UNCHANGED <<row, created, answers, unpinned>>

(* The retention sweep ages a row out, days after the last request that could
   have written it; a new request may just be looking it up. *)
Purge(k) ==
    /\ row[k] # None
    /\ \A r \in Requests : req[r].key = k => At(r, "lookup")
    /\ faults.purge > 0
    /\ faults' = [faults EXCEPT !.purge = @ - 1]
    /\ row' = [row EXCEPT ![k] = None]
    /\ answers' = [answers EXCEPT ![k] = {}]
    /\ unpinned' = unpinned \ {k}
    /\ req' = [r \in Requests |->
                  IF req[r].key = k THEN [req[r] EXCEPT !.late = FALSE] ELSE req[r]]
    /\ UNCHANGED created

-----------------------------------------------------------------------------

Next ==
    \/ \E r \in Requests :
        \/ \E k \in Keys : Begin(r, k)
        \/ Lookup(r) \/ Insert(r) \/ Select(r) \/ Pin(r) \/ Reread(r)
        \/ Fails(r) \/ PinFails(r) \/ Crash(r)
    \/ \E k \in Keys : Purge(k)

Spec == Init /\ [][Next]_vars

-----------------------------------------------------------------------------
(* Properties *)

(* However requests with one key interleave, crash or fail, all of them that
   are answered 201 while the key's row lives name the same webhook, unless
   the row could not be written (idempotency.ts:22-24, 167-186). *)
OneAnswer ==
    \A k \in Keys \ unpinned : \A a, b \in answers[k] : a = b

(* A request that begins after an answer was given does not run the handler
   again: the row is there before the first answer leaves
   (idempotency.ts:116-129). *)
AnsweredNotRerun ==
    \A r \in Requests : req[r].late => req[r].pc \in {"lookup", "idle"}

(* What idempotency.ts:22-26 says of overlapping requests: that they both run
   the handler is acceptable, since webhook create is itself idempotent. *)
OneWebhookPerKey ==
    \A k \in Keys : Cardinality(created[k]) <= 1

=============================================================================
