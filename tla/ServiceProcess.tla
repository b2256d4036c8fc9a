---------------------------- MODULE ServiceProcess ----------------------------
(***************************************************************************)
(* The life of a control-plane process: the timers that POST /api/events   *)
(* starts (src/src/app/api/events/route.ts), the signal handler that       *)
(* clears them and exits (src/src/lib/shutdown.ts), and the readiness      *)
(* probe by which the load balancer decides who gets requests              *)
(* (src/src/app/api/readyz/route.ts).  The retention timer begins the      *)
(* sweeps of Retention, which end with their process.                      *)
(*                                                                         *)
(* The load balancer is not part of the code: it sends requests to a       *)
(* process whose last probe said ready, and sends one probe at a time.     *)
(***************************************************************************)
EXTENDS Retention

CONSTANTS
    Hooked,       \* processes with an extra shutdown hook (OTEL_ENABLED)
    MaxFaults,    \* bound: signals, crashes and failed statements
    MaxWrites     \* bound: statements of the writers

ASSUME ProcessAssumption ==
    /\ Hooked \subseteq Instances
    /\ MaxFaults \in Nat /\ MaxWrites \in Nat

VARIABLES
    proc,     \* the processes
    left      \* what the bounds leave

processVars == <<row, sweep, holder, overtaken, proc, left>>

-----------------------------------------------------------------------------

(* Those that clearBackgroundTimers knows.  "gc" (__rateLimiterGcInterval) is
   set when its module is loaded. *)
Timers == {"expiry", "reaper", "retention", "gc"}

(* Mutant of Jobs: another job is started that the shutdown does not know. *)
JobsUnlisted == {"expiry", "reaper", "retention", "snapshot"}

(* The jobs that POST /api/events starts. *)
Jobs == {"expiry", "reaper", "retention"}

(* probe: GET /api/readyz waits for the database.  rotation: the load balancer
   sends requests. *)
Processes ==
    [ mode : {"up", "draining", "down"},
      timers : SUBSET Timers,
      probe : BOOLEAN,
      rotation : BOOLEAN ]

Booted == [mode |-> "up", timers |-> {"gc"}, probe |-> FALSE, rotation |-> FALSE]

Down == [mode |-> "down", timers |-> {}, probe |-> FALSE, rotation |-> FALSE]

ProcessTypeOK ==
    /\ RetentionTypeOK
    /\ proc \in [Instances -> Processes]
    /\ left \in [fault : Nat, write : Nat]

ProcessInit ==
    /\ RetentionInit
    /\ proc = [i \in Instances |-> Booted]
    /\ left = [fault |-> MaxFaults, write |-> MaxWrites]

Spend(f) ==
    /\ left[f] > 0
    /\ left' = [left EXCEPT ![f] = @ - 1]

-----------------------------------------------------------------------------
(* Timers *)

(* POST /api/events, on whatever the handler does afterwards: timers that are
   not set are set, also after the shutdown has cleared them, and a retention
   timer that is set sweeps at once. *)
PostEvents(i) ==
    /\ proc[i].rotation
    /\ ~(Jobs \subseteq proc[i].timers)
    /\ proc' = [proc EXCEPT ![i] = [@ EXCEPT !.timers = proc[i].timers \union Jobs]]
    /\ IF "retention" \in proc[i].timers
       THEN UNCHANGED retention
       ELSE \E t \in Sweeps : BeginSweep(t, i)
    /\ UNCHANGED left

(* The interval fires, whether or not the last sweep has ended. *)
RetentionTick(i) ==
    /\ "retention" \in proc[i].timers
    /\ \E t \in Sweeps : BeginSweep(t, i)
    /\ UNCHANGED <<proc, left>>

-----------------------------------------------------------------------------
(* Probes *)

(* ! isShuttingDown() *)
Ready(i) == proc[i].mode # "draining"

Probe(i) ==
    /\ proc[i].mode # "down"
    /\ ~proc[i].probe
    /\ proc' = [proc EXCEPT ![i] =
          IF Ready(i) THEN [@ EXCEPT !.probe = TRUE]
          ELSE [@ EXCEPT !.rotation = FALSE]]
    /\ UNCHANGED <<retention, left>>

(* SELECT 1 has returned: 200, even if a signal has come meanwhile... *)
ProbeReady(i) ==
    /\ proc[i].probe
    /\ proc' = [proc EXCEPT ![i] = [@ EXCEPT !.probe = FALSE, !.rotation = TRUE]]
    /\ UNCHANGED <<retention, left>>

(* ...or it has failed: 503. *)
ProbeFails(i) ==
    /\ proc[i].probe
    /\ Spend("fault")
    /\ proc' = [proc EXCEPT ![i] = [@ EXCEPT !.probe = FALSE, !.rotation = FALSE]]
    /\ UNCHANGED retention

-----------------------------------------------------------------------------
(* The end of a process *)

(* The memory is gone, and the connections with their transactions. *)
Ends(i) ==
    /\ proc' = [proc EXCEPT ![i] = Down]
    /\ Rollback({t \in Sweeps : sweep[t].inst = i})

(* SIGTERM or SIGINT: the flag is set and all timers are cleared; without
   hooks the race is decided at once.  A second signal changes nothing. *)
Signal(i) ==
    /\ proc[i].mode = "up"
    /\ Spend("fault")
    /\ IF i \in Hooked
       THEN /\ proc' = [proc EXCEPT ![i] = [@ EXCEPT !.mode = "draining",
                                                      !.timers = proc[i].timers \ Timers]]
            /\ UNCHANGED retention
       ELSE Ends(i)

(* The hooks have settled, well or badly. *)
HooksSettle(i) ==
    /\ proc[i].mode = "draining"
    /\ Ends(i)
    /\ UNCHANGED left

(* Mutant of Overdue: the deadline is not part of the race. *)
OverdueNever(i) == FALSE

(* The grace period is over. *)
Overdue(i) == proc[i].mode = "draining"

Deadline(i) ==
    /\ Overdue(i)
    /\ Ends(i)
    /\ UNCHANGED left

Crash(i) ==
    /\ proc[i].mode # "down"
    /\ Spend("fault")
    /\ Ends(i)

(* The orchestrator starts it again. *)
Boot(i) ==
    /\ proc[i].mode = "down"
    /\ proc' = [proc EXCEPT ![i] = Booted]
    /\ UNCHANGED <<retention, left>>

-----------------------------------------------------------------------------

SweepFails(t) ==
    /\ sweep[t].pc # "idle"
    /\ Spend("fault")
    /\ Rollback({t})
    /\ UNCHANGED proc

Sweeping(t) == SweepStep(t) /\ UNCHANGED <<proc, left>>

Writes(r) ==
    /\ Insert(r) \/ End(r) \/ Revive(r) \/ Seen(r)
    /\ Spend("write")
    /\ UNCHANGED proc

TimePasses(r) == Age(r) /\ UNCHANGED <<proc, left>>

ProcessNext ==
    \/ \E i \in Instances :
        \/ PostEvents(i) \/ RetentionTick(i)
        \/ Probe(i) \/ ProbeReady(i) \/ ProbeFails(i)
        \/ Signal(i) \/ HooksSettle(i) \/ Deadline(i) \/ Crash(i) \/ Boot(i)
    \/ \E t \in Sweeps : Sweeping(t) \/ SweepFails(t)
    \/ \E r \in Rows : Writes(r) \/ TimePasses(r)

ProcessSpec == ProcessInit /\ [][ProcessNext]_processVars

(* Statements return, deadlines fire, probes keep coming, processes are
   restarted, and events are sent to the cluster and its intervals fire: no
   process need be the one.  Hooks need not settle.  Beginning a sweep needs
   strong fairness because Sweeps bounds it and because the first event waits
   for a probe. *)
FairSpec ==
    /\ ProcessSpec
    /\ \A t \in Sweeps : WF_processVars(Sweeping(t))
    /\ SF_processVars(\E i \in Instances : PostEvents(i) \/ RetentionTick(i))
    /\ \A i \in Instances :
        /\ WF_processVars(Probe(i) \/ ProbeReady(i))
        /\ WF_processVars(Deadline(i) \/ Boot(i))

-----------------------------------------------------------------------------
(* Properties *)

(* Only one sweep deletes at a time, in the whole cluster
   (retention.ts:172-178). *)
OneSweeper ==
    \A t, u \in Sweeps :
        /\ sweep[t].pc \in {"find", "purge", "commit"}
        /\ sweep[u].pc \in {"find", "purge", "commit"}
        => t = u

(* What a sweep deletes is dead and aged when it goes, although enrollments,
   events and deliveries come between its statements and within them; but
   for a delivery that came alive while the very DELETE that had found it was
   under way, which looks at its id alone by then (retention.ts:84-144). *)
LiveRowsStay ==
    [][ \A r \in Rows :
          row[r].status # "absent" /\ row'[r].status = "absent"
            => /\ row[r].aged
               /\ \/ row[r].status = "dead"
                  \/ TableOf[r] = "webhook_deliveries" /\ r \in overtaken ]_processVars

(* Whichever sweeps fail, skip or die with the lock, what is too old is
   deleted at last, once nobody adds to it: with a batch limit and no order
   that is all the sweep can promise (retention.ts:161-187, 225-233). *)
AgedRowsGo ==
    \A r \in Rows :
        row[r].status = "dead" /\ row[r].aged /\ TableOf[r] \notin Kept
            ~> ~(row[r].status = "dead" /\ row[r].aged)

(* A process that was told to stop does, although a hook may hang
   (shutdown.ts:87-98). *)
SignalledExits ==
    \A i \in Instances : proc[i].mode = "draining" ~> proc[i].mode = "down"

-----------------------------------------------------------------------------
(* Sentences of shutdown.ts and retention.ts that the code does not keep. *)

(* "deletes ... webhook_deliveries in terminal states" (retention.ts:4-6). *)
TerminalRowsGo ==
    [][ \A r \in Rows :
          row[r].status # "absent" /\ row'[r].status = "absent"
            => row[r].status = "dead" ]_processVars

(* "Stop the background timers ... prevents a tick firing during shutdown"
   (shutdown.ts:8-11): an event that is ingested late sets them again. *)
DrainingIsQuiet ==
    \A i \in Instances : proc[i].mode = "draining" => proc[i].timers = {}

(* "Wait up to GRACE_PERIOD_MS for the LB readiness probe to notice"
   (shutdown.ts:12-13): a process without hooks, and one whose hooks are
   quick, is gone while requests are still sent to it. *)
ExitIsNoticed ==
    [][ \A i \in Instances :
          proc[i].mode # "down" /\ proc'[i].mode = "down"
            => ~proc[i].rotation ]_processVars

=============================================================================
