----------------------------- MODULE TrustRecords -----------------------------
(***************************************************************************)
(* The records of issued tokens and delegations that TctMonitorService     *)
(* projects from reported events (src/src/lib/tcts/monitor.ts), and the    *)
(* route that adds a token to the revocation list and then reports it      *)
(* itself (app/api/revocation/entries/route.ts).                           *)
(*                                                                         *)
(* Handlers of different requests and instances run at the same time.  An  *)
(* insert is one statement.  A revocation is a transaction of two updates, *)
(* read committed: each sees what is committed when it starts, locks the   *)
(* rows it matches one by one, waits for a row another transaction holds   *)
(* and then looks at its WHERE clause again.                               *)
(***************************************************************************)
EXTENDS Integers, FiniteSets

CONSTANTS
    Jtis,         \* token identifiers
    Tokens,       \* those that a tct.issued event is about
    Children,     \* those that a delegation.issued event is about
    Parent,       \* the parent_jti it names
    Revocations,  \* revocation events: kind, jti, ts; each may come repeatedly
    Workers,      \* bound: handlers under way at once
    MaxFaults,    \* bound on failing handlers
    None

ASSUME RecordsAssumption ==
    /\ IsFiniteSet(Jtis) /\ Tokens \subseteq Jtis /\ Children \subseteq Jtis
    /\ Parent \in [Children -> Jtis]
    /\ \A e \in Revocations :
          e.kind \in {"tct", "delegation"} /\ e.jti \in Jtis /\ e.ts # None
    /\ \A e, f \in Revocations :
          e.kind = f.kind /\ e.jti = f.jti /\ e.ts = f.ts => e = f
    /\ MaxFaults \in Nat
    /\ None \notin Jtis /\ None \notin Revocations
    /\ None \notin {"explicit", "parent_revoked"}

VARIABLES
    entries,  \* revocation_entries
    tct,      \* issued_tcts
    deleg,    \* delegations
    proj,     \* the handlers
    handled,  \* history: revocation events whose handler has begun
    under,    \* history: what a revocation owes, see Begin
    faults

vars == <<entries, tct, deleg, proj, handled, under, faults>>

-----------------------------------------------------------------------------

Stamps == { e.ts : e \in Revocations }

Live(reasons) ==
    [status : {"absent", "active"}, revokedAt : {None}, reason : {None}]
        \union [status : {"revoked"}, revokedAt : Stamps, reason : reasons]

NoRecord == [status |-> "absent", revokedAt |-> None, reason |-> None]

Recorded == [NoRecord EXCEPT !.status = "active"]

Handlers ==
    [ pc : {"idle", "emit", "first", "cascade", "lock"},
      ev : Revocations \union {None},
      hit : BOOLEAN,                \* the first update holds the row in issued_tcts
      mine : SUBSET Jtis,           \* the rows it holds in delegations
      todo : SUBSET Jtis,           \* rows the second update still has to lock
      next : Jtis \union {None} ]   \* the one it is locking

NoHandler == [pc |-> "idle", ev |-> None, hit |-> FALSE, mine |-> {}, todo |-> {},
              next |-> None]

TypeOK ==
    /\ entries \subseteq Jtis
    /\ tct \in [Tokens -> Live({None})]
    /\ deleg \in [Children -> Live({"explicit", "parent_revoked"})]
    /\ proj \in [Workers -> Handlers]
    /\ handled \subseteq Revocations
    /\ under \in [Revocations -> SUBSET Children]
    /\ faults \in Nat

Init ==
    /\ entries = {}
    /\ tct = [j \in Tokens |-> NoRecord]
    /\ deleg = [d \in Children |-> NoRecord]
    /\ proj = [w \in Workers |-> NoHandler]
    /\ handled = {}
    /\ under = [e \in Revocations |-> Children]
    /\ faults = MaxFaults

-----------------------------------------------------------------------------
(* Helpers *)

(* Mutant of Descendants: the query does not recurse. *)
ChildrenOf(j) == { d \in Children : deleg[d].status # "absent" /\ Parent[d] = j }

(* The recursive query: j with the recorded delegations below it, to a depth
   of n... *)
Levels(j) ==
    LET level[n \in 0 .. Cardinality(Children)] ==
            IF n = 0
            THEN {j}
            ELSE level[n - 1] \union
                    { d \in Children : /\ deleg[d].status # "absent"
                                       /\ Parent[d] \in level[n - 1] }
    IN  level

(* ...and the recorded delegations below j at any depth. *)
Descendants(j) == UNION { ChildrenOf(k) : k \in Levels(j)[Cardinality(Children)] }

(* The same for the properties: d is recorded, and its parent is in every set
   that has j and is closed under recorded delegations. *)
Below(d, j) ==
    /\ deleg[d].status # "absent"
    /\ \A S \in SUBSET Jtis :
          /\ j \in S
          /\ \A k \in Children : deleg[k].status # "absent" /\ Parent[k] \in S => k \in S
          => Parent[d] \in S

Jti(w) == proj[w].ev.jti

At(w, pc) == proj[w].pc = pc

Return(w) == proj' = [proj EXCEPT ![w] = NoHandler]

TctHeld(j, w) == \E v \in Workers \ {w} : proj[v].hit /\ Jti(v) = j

Held(d, w) == \E v \in Workers \ {w} : d \in proj[v].mine

(* Mutant of Matches: the update also takes rows that are already revoked. *)
MatchesAny(d) == deleg[d].status # "absent"

(* WHERE revoked = false, also after a wait. *)
Matches(d) == deleg[d].status = "active"

-----------------------------------------------------------------------------
(* Events that insert: ON CONFLICT DO NOTHING *)

RecordIssued(j) ==
    /\ tct[j].status = "absent"
    /\ tct' = [tct EXCEPT ![j] = Recorded]
    /\ UNCHANGED <<entries, deleg, proj, handled, under, faults>>

RecordDelegation(d) ==
    /\ deleg[d].status = "absent"
    /\ deleg' = [deleg EXCEPT ![d] = Recorded]
    /\ UNCHANGED <<entries, tct, proj, handled, under, faults>>

-----------------------------------------------------------------------------
(* Revocations *)

(* The handler of event e begins.  It owes the revocation of whatever is
   recorded below e.jti by now. *)
Begin(w, e) ==
    /\ proj' = [proj EXCEPT ![w] = [NoHandler EXCEPT !.pc = "first", !.ev = e]]
    /\ handled' = handled \union {e}
    /\ under' = [under EXCEPT ![e] = {d \in @ : Below(d, e.jti)}]

(* An agent's report arrives. *)
Report(w, e) ==
    /\ At(w, "idle")
    /\ Begin(w, e)
    /\ UNCHANGED <<entries, tct, deleg, faults>>

(* An operator adds a token to the list; the event follows. *)
AddEntry(w, e) ==
    /\ At(w, "idle")
    /\ e.kind = "tct"
    /\ entries' = entries \union {e.jti}
    /\ proj' = [proj EXCEPT ![w] = [NoHandler EXCEPT !.pc = "emit", !.ev = e]]
    /\ UNCHANGED <<tct, deleg, handled, under, faults>>

Emit(w) ==
    /\ At(w, "emit")
    /\ Begin(w, proj[w].ev)
    /\ UNCHANGED <<entries, tct, deleg, faults>>

(* The first update: the row of the token or of the delegation itself. *)
First(w) ==
    LET j == Jti(w) IN
    /\ At(w, "first")
    /\ \/ /\ proj[w].ev.kind = "tct"
          /\ ~TctHeld(j, w)
          /\ proj' = [proj EXCEPT ![w] =
                [@ EXCEPT !.pc = "cascade", !.hit = (j \in Tokens /\ tct[j].status = "active")]]
       \/ /\ proj[w].ev.kind = "delegation"
          /\ ~Held(j, w)
          /\ proj' = [proj EXCEPT ![w] =
                [@ EXCEPT !.pc = "cascade", !.mine = {d \in {j} \cap Children : Matches(d)}]]
    /\ UNCHANGED <<entries, tct, deleg, handled, under, faults>>

(* The second update selects the descendants that are not revoked... *)
Cascade(w) ==
    /\ At(w, "cascade")
    /\ proj' = [proj EXCEPT ![w] =
          [@ EXCEPT !.pc = "lock",
                    !.todo = {d \in Descendants(Jti(w)) : Matches(d)} \ proj[w].mine]]
    /\ UNCHANGED <<entries, tct, deleg, handled, under, faults>>

(* ...and locks them in an order that is not stated. *)
NextRow(w) ==
    /\ At(w, "lock")
    /\ proj[w].next = None
    /\ \E d \in proj[w].todo : proj' = [proj EXCEPT ![w] = [@ EXCEPT !.next = d]]
    /\ UNCHANGED <<entries, tct, deleg, handled, under, faults>>

LockRow(w) ==
    LET d == proj[w].next IN
    /\ At(w, "lock")
    /\ d # None
    /\ ~Held(d, w)
    /\ proj' = [proj EXCEPT ![w] =
          [@ EXCEPT !.next = None,
                    !.todo = proj[w].todo \ {d},
                    !.mine = proj[w].mine \union {x \in {d} : Matches(x)}]]
    /\ UNCHANGED <<entries, tct, deleg, handled, under, faults>>

(* Mutant of Reason: whatever an explicit revocation touches is explicit. *)
ReasonOfEvent(e, d) == IF e.kind = "delegation" THEN "explicit" ELSE "parent_revoked"

Reason(e, d) ==
    IF e.kind = "delegation" /\ d = e.jti THEN "explicit" ELSE "parent_revoked"

(* Mutant of RevokedBy: the time stamp is left out. *)
RevokedUnstamped(e, reason) ==
    [status |-> "revoked", revokedAt |-> None, reason |-> reason]

RevokedBy(e, reason) == [status |-> "revoked", revokedAt |-> e.ts, reason |-> reason]

Commit(w) ==
    LET e == proj[w].ev IN
    /\ At(w, "lock")
    /\ proj[w].todo = {}
    /\ tct' = IF proj[w].hit THEN [tct EXCEPT ![e.jti] = RevokedBy(e, None)] ELSE tct
    /\ deleg' = [d \in Children |-> IF d \in proj[w].mine
                                    THEN RevokedBy(e, Reason(e, d)) ELSE deleg[d]]
    /\ Return(w)
    /\ UNCHANGED <<entries, handled, under, faults>>

(* Postgres ends a cycle of waits by failing one of the transactions; onEvent
   logs the error and the handler goes on as if it had succeeded. *)
WaitsFor(w, v) == proj[w].next \in proj[v].mine

InDeadlock(w) ==
    \E S \in SUBSET Workers :
        w \in S /\ \A u \in S : \E v \in S \ {u} : WaitsFor(u, v)

Deadlock(w) ==
    /\ InDeadlock(w)
    /\ Return(w)
    /\ UNCHANGED <<entries, tct, deleg, handled, under, faults>>

(* A statement fails or the process dies: the transaction is rolled back. *)
Fail(w) ==
    /\ ~At(w, "idle")
    /\ faults > 0
    /\ faults' = faults - 1
    /\ Return(w)
    /\ UNCHANGED <<entries, tct, deleg, handled, under>>

Next ==
    \/ \E j \in Tokens : RecordIssued(j)
    \/ \E d \in Children : RecordDelegation(d)
    \/ \E w \in Workers :
          \/ \E e \in Revocations : Report(w, e) \/ AddEntry(w, e)
          \/ Emit(w) \/ First(w) \/ Cascade(w) \/ NextRow(w) \/ LockRow(w)
          \/ Commit(w) \/ Deadlock(w) \/ Fail(w)

Spec == Init /\ [][Next]_vars

-----------------------------------------------------------------------------
(* Properties *)

(* A revocation is final and the first one wins: time stamp and reason of a
   revoked record never change, although cascades overlap and wait for each
   other's rows (monitor.ts:130-134, 136-139, 186-192). *)
FirstRevocationWins ==
    [][ /\ \A j \in Tokens : tct[j].status = "revoked" => tct'[j] = tct[j]
        /\ \A d \in Children : deleg[d].status = "revoked" => deleg'[d] = deleg[d] ]_vars

(* When the record of e's token is revoked by e, everything that was recorded
   below it when e was first reported is revoked too: a cascade is never seen
   half applied (monitor.ts:124-147, 183-205). *)
CascadeComplete ==
    \A e \in Revocations :
        \/ e.kind = "tct" /\ e.jti \in Tokens /\ tct[e.jti].revokedAt = e.ts
        \/ /\ e.kind = "delegation" /\ e.jti \in Children
           /\ deleg[e.jti].revokedAt = e.ts /\ deleg[e.jti].reason = "explicit"
        => \A d \in under[e] : deleg[d].status = "revoked"

(* Every revoked record is accounted for by an event: an explicit one by a
   report about that delegation, an inherited one by a report about something
   above it (monitor.ts:128-147, 186-205). *)
RevocationsAttributed ==
    \A d \in Children :
        /\ deleg[d].reason = "explicit" =>
              \E e \in handled : e.kind = "delegation" /\ e.jti = d /\ e.ts = deleg[d].revokedAt
        /\ deleg[d].reason = "parent_revoked" =>
              \E e \in handled : Below(d, e.jti) /\ e.ts = deleg[d].revokedAt

(* Inductive invariant behind FirstRevocationWins: a row is held by one
   transaction, and only while it is not revoked. *)
LocksExclusive ==
    \A v, w \in Workers :
        /\ v # w => proj[v].mine \intersect proj[w].mine = {}
        /\ v # w /\ proj[v].hit /\ proj[w].hit => Jti(v) # Jti(w)
        /\ proj[w].hit => tct[Jti(w)].status = "active"
        /\ \A d \in proj[w].mine : deleg[d].status = "active"

-----------------------------------------------------------------------------
(* Claims of comments that the code does not keep. *)

(* "active-chain queries never observe a half-applied revocation"
   (monitor.ts:124-125): no active delegation hangs below a revoked token. *)
ActiveChainsWhole ==
    \A j \in Tokens :
        tct[j].status = "revoked" =>
            \A d \in Children : Below(d, j) => deleg[d].status = "revoked"

(* "`revoked` is mirrored from `revocation_entries` whenever a JTI is added
   there" (schema.ts:241-242): once nobody works on it, no listed token has an
   active record. *)
Mirrored ==
    (\A w \in Workers : At(w, "idle"))
        => \A j \in entries \intersect Tokens : tct[j].status # "active"

(* "The CP's job is to record what's reported" (monitor.ts:10-11): a handler
   that has found the delegations a report revokes ends up revoking them. *)
RecordsReports ==
    [][ \A w \in Workers :
          Return(w) => \A d \in proj[w].mine : deleg'[d].status = "revoked" ]_vars
==============================================================================
