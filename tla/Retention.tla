------------------------------ MODULE Retention ------------------------------
(***************************************************************************)
(* The retention sweep (src/src/lib/retention.ts): one transaction that    *)
(* tries an advisory lock and then deletes what is too old, table by       *)
(* table.  Sweeps of several processes, and of one process whose interval  *)
(* is shorter than its sweep, run beside the statements that write the     *)
(* same tables.  ServiceProcess says when sweeps begin and when they die.  *)
(*                                                                         *)
(* A DELETE is two steps: it finds rows in its snapshot, and then takes    *)
(* and deletes them, however they have changed in between.  A row deleted  *)
(* by an open transaction is still there for everybody else, but a         *)
(* statement that wants to write it waits for the outcome.                 *)
(***************************************************************************)
EXTENDS Integers, FiniteSets

CONSTANTS
    Rows,        \* places for rows
    TableOf,     \* the table of each
    Kept,        \* tables whose TTL is 0: never purged
    BatchLimit,  \* config.retentionBatchLimit
    Sweeps,      \* bound: runRetentionSweep calls under way at once
    Instances,   \* control-plane processes
    None

(* In the order of the sweep. *)
Purges == <<"audit_events", "webhook_deliveries", "admin_audit_log", "agents",
            "idempotency_keys">>

Tables == {Purges[k] : k \in 1 .. 5}

ASSUME RetentionAssumption ==
    /\ IsFiniteSet(Rows)
    /\ TableOf \in [Rows -> Tables]
    /\ Kept \subseteq Tables
    /\ BatchLimit \in Nat \ {0}
    /\ None \notin Instances \union Sweeps

VARIABLES
    row,       \* the tables
    sweep,     \* sweeps under way
    holder,    \* the transaction that has the advisory lock
    overtaken  \* history: rows that came alive between the two steps of the
               \* DELETE that deletes them, until its transaction ends

retention == <<row, sweep, holder, overtaken>>

-----------------------------------------------------------------------------

(* live: a pending delivery, or an agent that is not deregistered.  aged: the
   column that the sweep compares lies before the cutoff. *)
RowStates == [status : {"absent", "live", "dead"}, aged : BOOLEAN]

NoRow == [status |-> "absent", aged |-> FALSE]

(* pc: what is done next.  k: the table it is about.  found: what the DELETE
   under way has found.  doomed: what the transaction has deleted so far. *)
SweepStates ==
    [ pc : {"idle", "lock", "find", "purge", "commit"},
      inst : Instances \union {None},
      k : 0 .. 5,
      found : SUBSET Rows,
      doomed : SUBSET Rows ]

NoSweep == [pc |-> "idle", inst |-> None, k |-> 0, found |-> {}, doomed |-> {}]

RetentionTypeOK ==
    /\ row \in [Rows -> RowStates]
    /\ sweep \in [Sweeps -> SweepStates]
    /\ holder \in Sweeps \union {None}
    /\ overtaken \subseteq Rows

RetentionInit ==
    /\ row = [r \in Rows |-> NoRow]
    /\ sweep = [t \in Sweeps |-> NoSweep]
    /\ holder = None
    /\ overtaken = {}

-----------------------------------------------------------------------------
(* The sweep *)

BeginSweep(t, i) ==
    /\ sweep[t].pc = "idle"
    /\ sweep' = [sweep EXCEPT ![t] = [NoSweep EXCEPT !.pc = "lock", !.inst = i]]
    /\ UNCHANGED <<row, holder, overtaken>>

(* Mutant of LockFree: the result of the SELECT is not looked at. *)
LockFreeAlways == TRUE

LockFree == holder = None

(* The sweep goes on to the next table that has a TTL, or to the COMMIT. *)
Onwards(w, doomed) ==
    LET Left == {j \in w.k + 1 .. 5 : Purges[j] \notin Kept} IN
    [ pc |-> IF Left = {} THEN "commit" ELSE "find",
      inst |-> w.inst,
      k |-> IF Left = {} THEN 0 ELSE CHOOSE j \in Left : \A l \in Left : j <= l,
      found |-> {},
      doomed |-> doomed ]

(* pg_try_advisory_xact_lock: whoever does not get it is done. *)
TryLock(t) ==
    /\ sweep[t].pc = "lock"
    /\ \/ /\ LockFree
          /\ holder' = t
          /\ sweep' = [sweep EXCEPT ![t] = Onwards(sweep[t], {})]
       \/ /\ ~LockFree
          /\ sweep' = [sweep EXCEPT ![t] = NoSweep]
          /\ UNCHANGED holder
    /\ UNCHANGED <<row, overtaken>>

Purgeable(r) == row[r].status = "dead" /\ row[r].aged

(* The rows that a DELETE finds: those that its condition holds of, or of
   these as many as the subquery's LIMIT lets through, in no stated order;
   agents are deleted without a limit. *)
Candidates(table) ==
    LET D == {r \in Rows : TableOf[r] = table /\ Purgeable(r)} IN
    IF table = "agents" \/ Cardinality(D) <= BatchLimit
    THEN {D}
    ELSE {V \in SUBSET D : Cardinality(V) = BatchLimit}

Find(t) ==
    /\ sweep[t].pc = "find"
    /\ \E V \in Candidates(Purges[sweep[t].k]) :
          sweep' = [sweep EXCEPT ![t] = [@ EXCEPT !.pc = "purge", !.found = V]]
    /\ UNCHANGED <<row, holder, overtaken>>

(* Mutant of Rechecked: agents are deleted like the rest, by a subquery. *)
RecheckedById(r) == TRUE

(* What Postgres asks again of a row that was written since it was found: the
   WHERE clause.  For agents that is the whole condition; everywhere else it
   is "id IN (SELECT ...)", whose result stands. *)
Rechecked(r) == TableOf[r] = "agents" => Purgeable(r)

Purge(t) ==
    LET V == {r \in sweep[t].found : Rechecked(r)} IN
    /\ sweep[t].pc = "purge"
    /\ sweep' = [sweep EXCEPT ![t] = Onwards(sweep[t], sweep[t].doomed \union V)]
    /\ overtaken' = overtaken \intersect (sweep[t].doomed \union V)
    /\ UNCHANGED <<row, holder>>

(* Mutant of LockReleased: a lock of the session, which outlives a rollback. *)
LockReleasedOnCommit(ended) ==
    IF holder \in {t \in ended : sweep[t].pc = "commit"} THEN None ELSE holder

(* The lock goes with its transaction, however that ends. *)
LockReleased(ended) == IF holder \in ended THEN None ELSE holder

Commit(t) ==
    /\ sweep[t].pc = "commit"
    /\ row' = [r \in Rows |-> IF r \in sweep[t].doomed THEN NoRow ELSE row[r]]
    /\ holder' = LockReleased({t})
    /\ sweep' = [sweep EXCEPT ![t] = NoSweep]
    /\ overtaken' = {}

(* A statement fails, or the connection is lost: nothing was deleted. *)
Rollback(ended) ==
    /\ holder' = LockReleased(ended)
    /\ sweep' = [t \in Sweeps |-> IF t \in ended THEN NoSweep ELSE sweep[t]]
    /\ overtaken' = IF holder \in ended THEN {} ELSE overtaken
    /\ UNCHANGED row

SweepStep(t) == TryLock(t) \/ Find(t) \/ Purge(t) \/ Commit(t)

-----------------------------------------------------------------------------
(* The writers of the tables *)

(* A row that an open transaction has deleted makes its writers wait. *)
Locked(r) == \E t \in Sweeps : r \in sweep[t].doomed

Write(r, new) ==
    /\ ~Locked(r)
    /\ row' = [row EXCEPT ![r] = new]
    /\ UNCHANGED <<sweep, holder>>

HasStatus(r) == TableOf[r] \in {"webhook_deliveries", "agents"}

(* A new row.  An audit event is as old as the time stamp its sender gave it;
   every other row begins young. *)
Insert(r) ==
    \E old \in BOOLEAN :
        /\ row[r].status = "absent"
        /\ old => TableOf[r] = "audit_events"
        /\ Write(r, [status |-> IF HasStatus(r) THEN "live" ELSE "dead", aged |-> old])
        /\ UNCHANGED overtaken

(* The delivery comes to an end, or the agent is deregistered. *)
End(r) ==
    /\ HasStatus(r)
    /\ row[r].status = "live"
    /\ Write(r, [row[r] EXCEPT !.status = "dead"])
    /\ UNCHANGED overtaken

(* A DELETE under way has found the row, and not yet taken it. *)
Found(r) == \E t \in Sweeps : r \in sweep[t].found

(* The agent enrolls again, or a slower attempt reschedules the delivery:
   neither touches the column that the sweep compares. *)
Revive(r) ==
    /\ HasStatus(r)
    /\ row[r].status = "dead"
    /\ Write(r, [row[r] EXCEPT !.status = "live"])
    /\ overtaken' = IF Found(r) THEN overtaken \union {r} ELSE overtaken

(* touchLastSeenBatch: the agent is named in an event. *)
Seen(r) ==
    /\ TableOf[r] = "agents"
    /\ row[r].status # "absent"
    /\ row[r].aged
    /\ Write(r, [row[r] EXCEPT !.aged = FALSE])
    /\ UNCHANGED overtaken

(* Time passes: no statement, and no lock. *)
Age(r) ==
    /\ row[r].status # "absent"
    /\ ~row[r].aged
    /\ row' = [row EXCEPT ![r] = [@ EXCEPT !.aged = TRUE]]
    /\ UNCHANGED <<sweep, holder, overtaken>>

=============================================================================
