------------------------------ MODULE TrustStore ------------------------------
(***************************************************************************)
(* Trust anchors and pinned keys (src/src/app/api/trust-anchors,           *)
(* src/src/app/api/pinned-keys), and the trail of administrative changes   *)
(* that they leave (src/src/lib/audit-log/service.ts).  A handler is a     *)
(* chain of statements without a transaction: the change, its entry in the *)
(* trail, and for POST a last look at the row that is answered.  Calls are *)
(* without an Idempotency-Key: IdempotentCreate has what it adds.          *)
(***************************************************************************)
EXTENDS Integers, FiniteSets

CONSTANTS
    Calls,       \* requests under way at once
    Ids,         \* what randomUUID may give
    Issuers,     \* pairs (namespace, issuerUrl)
    Pins,        \* pairs (namespace, aid)
    PubKeys,
    ErrorForms,  \* how the database error arrives: "driver": with its code,
                 \* "wrapped": as the cause of an error of drizzle-orm
    MaxCalls,    \* bound: requests
    MaxFailures, \* bound: failed statements and crashes
    Nil

Actions == {"create", "patch", "remove", "pin", "unpin"}

Reasons == {"fault", "constraint", "gone"}

ASSUME StoreAssumption ==
    /\ IsFiniteSet(Calls)
    /\ ErrorForms \subseteq {"driver", "wrapped"}
    /\ MaxCalls \in Nat /\ MaxFailures \in Nat
    /\ Ids \intersect Pins = {}
    /\ Nil \notin Ids \union Issuers \union Pins \union PubKeys \union Actions \union Reasons

VARIABLES
    anchor,   \* trust_anchors: the issuer of each row
    issued,   \* the ids that have been drawn
    pin,      \* pinned_keys
    trail,    \* admin_audit_log: entries of each action about each target
    call,     \* requests
    lost,     \* history: targets with a change whose entry was not written
    purged,   \* history: entries that the retention sweep has deleted
    left      \* what the bounds leave

storeVars == <<anchor, issued, pin, trail, call, lost, purged, left>>

-----------------------------------------------------------------------------

Targets == Ids \union Pins

(* why: history: the reason of a 409 or 500.  crossed: history: another
   request has changed something meanwhile. *)
CallStates ==
    [ pc : {"idle", "write", "lookup", "audit", "reread", "answered"},
      op : Actions \union {Nil},
      target : Targets \union {Nil},
      value : Issuers \union PubKeys \union {Nil},
      status : {0, 200, 201, 204, 404, 409, 500},
      shown : Ids \union {Nil},
      why : Reasons \union {Nil},
      crossed : BOOLEAN ]

NoCall == [pc |-> "idle", op |-> Nil, target |-> Nil, value |-> Nil,
           status |-> 0, shown |-> Nil, why |-> Nil, crossed |-> FALSE]

StoreTypeOK ==
    /\ anchor \in [Ids -> Issuers \union {Nil}]
    /\ issued \subseteq Ids
    /\ pin \in [Pins -> PubKeys \union {Nil}]
    /\ trail \in [Actions -> [Targets -> Nat]]
    /\ call \in [Calls -> CallStates]
    /\ lost \subseteq Targets
    /\ purged \in [Actions -> [Targets -> Nat]]
    /\ left \in [call : Nat, fault : Nat]

StoreInit ==
    /\ anchor = [i \in Ids |-> Nil]
    /\ issued = {}
    /\ pin = [p \in Pins |-> Nil]
    /\ trail = [a \in Actions |-> [t \in Targets |-> 0]]
    /\ call = [c \in Calls |-> NoCall]
    /\ lost = {}
    /\ purged = [a \in Actions |-> [t \in Targets |-> 0]]
    /\ left = [call |-> MaxCalls, fault |-> MaxFailures]

Spend(f) ==
    /\ left[f] > 0
    /\ left' = [left EXCEPT ![f] = left[f] - 1]

-----------------------------------------------------------------------------

(* A request with a body that is accepted. *)
Receive(c) ==
    /\ call[c].pc \in {"idle", "answered"}
    /\ Spend("call")
    /\ \E op \in Actions, t \in Targets, v \in Issuers \union PubKeys \union {Nil} :
        /\ op = "create" => t \in Ids \ issued /\ v \in Issuers
        /\ op = "patch" => t \in issued /\ v \in Issuers \union {Nil}
        /\ op = "remove" => t \in issued /\ v = Nil
        /\ op = "pin" => t \in Pins /\ v \in PubKeys
        /\ op = "unpin" => t \in Pins /\ v = Nil
        /\ issued' = IF op = "create" THEN issued \union {t} ELSE issued
        /\ call' = [call EXCEPT ![c] =
              [NoCall EXCEPT !.pc = "write", !.op = op, !.target = t, !.value = v]]
    /\ UNCHANGED <<anchor, pin, trail, lost, purged>>

Answered(w, status, shown, why) ==
    [w EXCEPT !.pc = "answered", !.status = status, !.shown = shown, !.why = why]

Answer(c, status, shown, why) ==
    /\ call' = [call EXCEPT ![c] = Answered(call[c], status, shown, why)]
    /\ UNCHANGED <<anchor, pin, trail>>

(* The unique index on (namespace, issuer_url). *)
Taken(issuer, id) == \E i \in Ids \ {id} : anchor[i] = issuer

(* The statement has changed a row: everybody else may notice. *)
Changed(c, newAnchor, newPin) ==
    /\ anchor' = newAnchor
    /\ pin' = newPin
    /\ call' = [d \in Calls |->
          IF d = c THEN [call[d] EXCEPT !.pc = "audit"]
          ELSE IF call[d].pc \in {"idle", "answered"} THEN call[d]
          ELSE [call[d] EXCEPT !.crossed = TRUE]]
    /\ UNCHANGED trail

(* INSERT: a violation of the index is a 409 only if its code is seen. *)
Create(c) ==
    LET w == call[c] IN
    \/ /\ ~Taken(w.value, w.target)
       /\ Changed(c, [anchor EXCEPT ![w.target] = w.value], pin)
    \/ /\ Taken(w.value, w.target)
       /\ "driver" \in ErrorForms
       /\ call' = [call EXCEPT ![c].pc = "lookup"]
       /\ UNCHANGED <<anchor, pin, trail>>
    \/ /\ Taken(w.value, w.target)
       /\ "wrapped" \in ErrorForms
       /\ Answer(c, 500, Nil, "constraint")

(* UPDATE ... RETURNING: nothing translates a violation. *)
Patch(c) ==
    LET w == call[c] IN
    \/ anchor[w.target] = Nil /\ Answer(c, 404, Nil, Nil)
    \/ /\ anchor[w.target] # Nil
       /\ w.value # Nil /\ Taken(w.value, w.target)
       /\ Answer(c, 500, Nil, "constraint")
    \/ /\ anchor[w.target] # Nil
       /\ w.value = Nil \/ ~Taken(w.value, w.target)
       /\ Changed(c, IF w.value = Nil THEN anchor
                     ELSE [anchor EXCEPT ![w.target] = w.value], pin)

(* Mutant of Deleted: what the DELETE returns is not looked at. *)
DeletedAlways(row) == TRUE

(* DELETE ... RETURNING has returned the row. *)
Deleted(row) == row # Nil

Remove(c) ==
    LET t == call[c].target IN
    \/ ~Deleted(anchor[t]) /\ Answer(c, 404, Nil, Nil)
    \/ Deleted(anchor[t]) /\ Changed(c, [anchor EXCEPT ![t] = Nil], pin)

(* INSERT ... ON CONFLICT DO UPDATE *)
Pin(c) == Changed(c, anchor, [pin EXCEPT ![call[c].target] = call[c].value])

Unpin(c) ==
    LET t == call[c].target IN
    \/ ~Deleted(pin[t]) /\ Answer(c, 404, Nil, Nil)
    \/ Deleted(pin[t]) /\ Changed(c, anchor, [pin EXCEPT ![t] = Nil])

Write(c) ==
    /\ call[c].pc = "write"
    /\ CASE call[c].op = "create" -> Create(c)
         [] call[c].op = "patch" -> Patch(c)
         [] call[c].op = "remove" -> Remove(c)
         [] call[c].op = "pin" -> Pin(c)
         [] call[c].op = "unpin" -> Unpin(c)
    /\ UNCHANGED <<issued, lost, purged, left>>

-----------------------------------------------------------------------------

(* Mutant of Holder: it is sought in the namespace as the caller wrote it,
   also where he left it out. *)
HolderAsWritten(issuer) == Nil

(* Mutant of Holder: the answer has the issuer where the id belongs. *)
HolderIssuer(issuer) == issuer

Holder(issuer) ==
    IF \E i \in Ids : anchor[i] = issuer
    THEN CHOOSE i \in Ids : anchor[i] = issuer
    ELSE Nil

(* Who has the pair now: perhaps nobody any more. *)
Lookup(c) ==
    /\ call[c].pc = "lookup"
    /\ Answer(c, 409, Holder(call[c].value), "constraint")
    /\ UNCHANGED <<issued, lost, purged, left>>

(* What follows on writeAdminAudit, whether it has succeeded or not. *)
Audited(w) ==
    CASE w.op \in {"create", "pin"} -> [w EXCEPT !.pc = "reread"]
      [] w.op = "patch" -> Answered(w, 200, Nil, Nil)
      [] OTHER -> Answered(w, 204, Nil, Nil)

Audit(c) ==
    LET w == call[c] IN
    /\ w.pc = "audit"
    /\ trail' = [trail EXCEPT ![w.op][w.target] = trail[w.op][w.target] + 1]
    /\ call' = [call EXCEPT ![c] = Audited(w)]
    /\ UNCHANGED <<anchor, issued, pin, lost, purged, left>>

(* The failure is counted and logged; the request goes on. *)
AuditFails(c) ==
    LET w == call[c] IN
    /\ w.pc = "audit"
    /\ Spend("fault")
    /\ lost' = lost \union {w.target}
    /\ call' = [call EXCEPT ![c] = Audited(w)]
    /\ UNCHANGED <<anchor, issued, pin, trail, purged>>

(* The row may be gone by now (rows[0]! is undefined, and rowOut throws), or
   show what somebody else has written. *)
Reread(c) ==
    LET w == call[c]
        row == IF w.op = "create" THEN anchor[w.target] ELSE pin[w.target] IN
    /\ w.pc = "reread"
    /\ IF row = Nil THEN Answer(c, 500, Nil, "gone") ELSE Answer(c, 201, Nil, Nil)
    /\ UNCHANGED <<issued, lost, purged, left>>

StatementFails(c) ==
    /\ call[c].pc \in {"write", "lookup", "reread"}
    /\ Spend("fault")
    /\ Answer(c, 500, Nil, "fault")
    /\ UNCHANGED <<issued, lost, purged>>

(* The process ends: what has been changed stays, what was to be written into
   the trail about it is forgotten. *)
Crash ==
    /\ Spend("fault")
    /\ lost' = lost \union {call[c].target : c \in {d \in Calls : call[d].pc = "audit"}}
    /\ call' = [c \in Calls |-> NoCall]
    /\ UNCHANGED <<anchor, issued, pin, trail, purged>>

(* The retention sweep deletes an entry that is old enough, as any may be by
   now, whatever else the trail has about its target.  A sweep deletes a batch
   at once, in no stated order: here entry by entry. *)
PurgeAdminAudit(a, t) ==
    /\ trail[a][t] > 0
    /\ trail' = [trail EXCEPT ![a][t] = trail[a][t] - 1]
    /\ purged' = [purged EXCEPT ![a][t] = purged[a][t] + 1]
    /\ UNCHANGED <<anchor, issued, pin, call, lost, left>>

StoreNext ==
    \/ \E c \in Calls :
        \/ Receive(c) \/ Write(c) \/ Lookup(c)
        \/ Audit(c) \/ AuditFails(c) \/ Reread(c) \/ StatementFails(c)
    \/ Crash
    \/ \E a \in Actions, t \in Targets : PurgeAdminAudit(a, t)

StoreSpec == StoreInit /\ [][StoreNext]_storeVars

-----------------------------------------------------------------------------
(* Properties *)

Settled(t) == t \notin lost /\ \A c \in Calls : call[c].pc = "audit" => call[c].target # t

Written(a, t) == trail[a][t] + purged[a][t]

(* What the trail says of the store is right, whatever was lost or purged of
   it: an anchor is created once and deleted once, although two deletions race,
   and one whose deletion is on record is not there.  And it is enough for
   whoever keeps what the sweep purges, unless an entry was lost: an anchor
   that is there has been created and not deleted, and a pinned key has at
   least one entry for every time it came and went
   (trust-anchors/route.ts:121-126, [id]/route.ts:84-98,
   pinned-keys/route.ts:131-173, retention.ts:96-108). *)
TrailExplainsStore ==
    /\ \A i \in Ids :
        /\ Written("create", i) <= 1 /\ Written("remove", i) <= 1
        /\ trail["remove"][i] > 0 => anchor[i] = Nil
        /\ Settled(i) =>
            /\ Written("remove", i) <= Written("create", i)
            /\ anchor[i] # Nil <=> Written("create", i) > Written("remove", i)
    /\ \A p \in Pins : Settled(p) =>
        /\ Written("unpin", p) <= Written("pin", p)
        /\ pin[p] # Nil => Written("unpin", p) < Written("pin", p)
        /\ pin[p] = Nil /\ Written("pin", p) > 0 => Written("unpin", p) > 0

(* A conflict names the anchor it is about, and a created row can be shown,
   unless another request has got between two of the statements
   (trust-anchors/route.ts:104-137, pinned-keys/route.ts:137-142). *)
OddAnswersAreRaces ==
    \A c \in Calls :
        LET w == call[c] IN
        /\ w.status = 409 => w.shown # w.target /\ (w.shown = Nil => w.crossed)
        /\ w.why = "gone" => w.crossed

-----------------------------------------------------------------------------
(* Sentences of the documentation that the code does not keep. *)

(* "Returns 409 if (namespace, issuerUrl) already exists" (docs/api.md:171):
   drizzle-orm 0.45 wraps the error, and the code is not on the wrapper. *)
DuplicateIsConflict ==
    \A c \in Calls :
        call[c].op = "create" /\ call[c].why = "constraint" => call[c].status = 409

=============================================================================
