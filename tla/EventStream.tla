------------------------------ MODULE EventStream ------------------------------
(***************************************************************************)
(* The live event stream of one process: the EventBus and its ring of      *)
(* recent events (src/src/lib/audit/stream.ts), and the SSE connections    *)
(* with their share of the connection limit                                *)
(* (src/src/app/api/events/stream/route.ts).                               *)
(*                                                                         *)
(* Nothing in this code awaits, so every callback is one action: GET with  *)
(* the stream's start(), publish() with the listeners it calls, the abort  *)
(* listener, cancel(), a heartbeat tick.  The ids of events are random     *)
(* UUIDs: an event is published once, and is here its place in the log.    *)
(***************************************************************************)
EXTENDS Integers, Sequences, FiniteSets, Functions

CONSTANTS
    Conns,         \* GET requests
    Types,         \* event types, the filter that stands for all three
    MaxBacklog,    \* config.maxAuditEventsInMemory
    ReplayLimit,   \* the 100 of getBacklog(100)
    MaxStreams,    \* config.maxSseConnections
    MaxPublishes,  \* bound on the events published
    NoFilter

ASSUME StreamAssumption ==
    /\ IsFiniteSet(Conns)
    /\ MaxBacklog \in Nat \ {0} /\ ReplayLimit \in Nat \ {0}
    /\ MaxStreams \in Nat /\ MaxPublishes \in Nat
    /\ NoFilter \notin Types

VARIABLES
    log,        \* history: the types of the events published so far
    backlog,    \* EventBus.backlog: places in the log
    conn,       \* the connections
    openCount   \* globalThis.__sseOpenCount

vars == <<log, backlog, conn, openCount>>

Events == 1 .. MaxPublishes

-----------------------------------------------------------------------------

(* Connection states.  live: cleanup has not run.  aborted: req.signal.aborted.
   broken: the controller no longer takes chunks.  sent: what was enqueued. *)
Conn ==
    [ pc : {"none", "refused", "live", "closed"},
      filter : Types \union {NoFilter},
      aborted : BOOLEAN,
      broken : BOOLEAN,
      sent : Seq(Events),
      start : Nat ]      \* history: the length of the log when it connected

NoConn == [pc |-> "none", filter |-> NoFilter, aborted |-> FALSE, broken |-> FALSE,
           sent |-> <<>>, start |-> 0]

TypeOK ==
    /\ log \in Seq(Types)
    /\ backlog \in Seq(Events)
    /\ conn \in [Conns -> Conn]
    /\ openCount \in Nat

Live == {c \in Conns : conn[c].pc = "live"}

Init ==
    /\ log = <<>>
    /\ backlog = <<>>
    /\ conn = [c \in Conns |-> NoConn]
    /\ openCount = 0

Matches(filter, type) == filter \in {NoFilter, type}

-----------------------------------------------------------------------------
(* cleanup *)

(* Mutant of Released: a slot is given back on every signal. *)
ReleasedTwice(S) == IF Cardinality(S) > openCount THEN 0 ELSE openCount - Cardinality(S)

(* decrementSseCount for the connections of S whose cleanup runs now: `closed`
   makes a second call do nothing. *)
Released(S) == LET n == Cardinality(S \intersect Live)
               IN IF n > openCount THEN 0 ELSE openCount - n

(* Unsubscribed, the heartbeat stopped; what was sent is forgotten. *)
Closed(c) == [NoConn EXCEPT !.pc = "closed", !.aborted = conn[c].aborted]

Cleanup(c) ==
    /\ conn' = [conn EXCEPT ![c] = Closed(c)]
    /\ openCount' = Released({c})
    /\ UNCHANGED <<log, backlog>>

-----------------------------------------------------------------------------
(* EventBus.publish *)

(* Mutant of Pushed: the newest event makes room, not the oldest. *)
PushedPop(b, e) == IF Len(b) >= MaxBacklog THEN b ELSE Append(b, e)

Pushed(b, e) == LET longer == Append(b, e)
                IN IF Len(longer) > MaxBacklog THEN Tail(longer) ELSE longer

(* Every listener gets the event; the one whose controller throws cleans up,
   and the others are still called. *)
Publish(t) ==
    LET e == Len(log) + 1
        hit == {c \in Live : Matches(conn[c].filter, t)}
        dead == {c \in hit : conn[c].broken}
    IN  /\ Len(log) < MaxPublishes
        /\ log' = Append(log, t)
        /\ backlog' = Pushed(backlog, e)
        /\ conn' = [c \in Conns |->
                       IF c \in dead THEN Closed(c)
                       ELSE IF c \in hit THEN [conn[c] EXCEPT !.sent = Append(conn[c].sent, e)]
                       ELSE conn[c]]
        /\ openCount' = Released(dead)

-----------------------------------------------------------------------------
(* GET *)

Refuse(c) ==
    /\ conn[c].pc = "none"
    /\ openCount >= MaxStreams
    /\ conn' = [conn EXCEPT ![c].pc = "refused"]
    /\ UNCHANGED <<log, backlog, openCount>>

(* getBacklog(100): the last events of the ring, before the filter. *)
Recent(b) == SubSeq(b, IF Len(b) > ReplayLimit THEN Len(b) - ReplayLimit + 1 ELSE 1, Len(b))

(* filter(matches): what is kept of the first n of s. *)
Filtering(s, wanted) ==
    LET first[n \in 0 .. Len(s)] ==
            IF n = 0 THEN <<>>
            ELSE IF s[n] \in wanted THEN Append(first[n - 1], s[n])
            ELSE first[n - 1]
    IN  first

Filtered(s, wanted) == Filtering(s, wanted)[Len(s)]

Wanted(filter) == {e \in 1 .. Len(log) : Matches(filter, log[e])}

(* A slot is taken and start() runs: subscribe, replay, start the heartbeat.
   The request may be aborted already: the abort listener, added afterwards,
   is then never called. *)
Connect(c, filter, aborted) ==
    /\ conn[c].pc = "none"
    /\ openCount < MaxStreams
    /\ openCount' = openCount + 1
    /\ conn' = [conn EXCEPT ![c] =
                   [ pc |-> "live", filter |-> filter, aborted |-> aborted, broken |-> FALSE,
                     sent |-> Filtered(Recent(backlog), Wanted(filter)),
                     start |-> Len(log) ]]
    /\ UNCHANGED <<log, backlog>>

-----------------------------------------------------------------------------
(* The end of a connection *)

(* The client goes away: onAbort. *)
Abort(c) ==
    /\ conn[c].pc \in {"live", "closed"}
    /\ ~conn[c].aborted
    /\ conn' = [conn EXCEPT ![c] = [Closed(c) EXCEPT !.aborted = TRUE]]
    /\ openCount' = Released({c})
    /\ UNCHANGED <<log, backlog>>

(* The consumer cancels the stream, before or after another signal. *)
Cancel(c) ==
    /\ conn[c].pc \in {"live", "closed"}
    /\ Cleanup(c)

(* The controller fails and no callback says so: the next enqueue throws. *)
Break(c) ==
    /\ conn[c].pc = "live"
    /\ ~conn[c].broken
    /\ conn' = [conn EXCEPT ![c].broken = TRUE]
    /\ UNCHANGED <<log, backlog, openCount>>

(* Mutant of Dead: the heartbeat does not look at req.signal.aborted. *)
DeadIfThrows(c) == conn[c].broken

(* What a heartbeat tick finds: an aborted request, or an enqueue that throws. *)
Dead(c) == conn[c].aborted \/ conn[c].broken

Heartbeat(c) ==
    /\ conn[c].pc = "live"
    /\ Dead(c)
    /\ Cleanup(c)

-----------------------------------------------------------------------------

Next ==
    \/ \E t \in Types : Publish(t)
    \/ \E c \in Conns :
        \/ Refuse(c)
        \/ \E f \in Types \union {NoFilter}, a \in BOOLEAN : Connect(c, f, a)
        \/ Abort(c)
        \/ Cancel(c)
        \/ Break(c)
        \/ Heartbeat(c)

(* The interval fires for as long as it is not cleared. *)
Spec == Init /\ [][Next]_vars /\ \A c \in Conns : WF_vars(Heartbeat(c))

-----------------------------------------------------------------------------
(* Properties *)

(* The count that guards the limit is the number of streams that have not been
   cleaned up, whichever of the four ends reached cleanup first and however
   often it was called; and it stays within the limit (route.ts:27, 67-80). *)
SlotsExact ==
    /\ openCount = Cardinality(Live)
    /\ openCount <= MaxStreams

(* What a live stream was sent is exactly, in order, the events of its filter
   from the last 100 (or as many as the ring keeps) before it connected on:
   between the replay and the subscription nothing is lost or sent twice
   (route.ts:104-131, stream.ts:29-53). *)
Gapless ==
    LET kept == IF MaxBacklog < ReplayLimit THEN MaxBacklog ELSE ReplayLimit
    IN  \A c \in Live :
            /\ \A i, j \in DOMAIN conn[c].sent : i < j => conn[c].sent[i] < conn[c].sent[j]
            /\ Range(conn[c].sent) =
                  {e \in 1 .. Len(log) : /\ e > conn[c].start - kept
                                         /\ Matches(conn[c].filter, log[e])}

(* A stream whose client is gone does not keep its slot, even when no abort
   event, cancel or publish tells (route.ts:133-149). *)
SlotsReturned ==
    \A c \in Conns :
        (conn[c].pc = "live" /\ (conn[c].aborted \/ conn[c].broken)) ~> (conn[c].pc = "closed")

=============================================================================
