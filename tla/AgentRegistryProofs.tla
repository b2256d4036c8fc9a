------------------------- MODULE AgentRegistryProofs -------------------------
(***************************************************************************)
(* Proofs about AgentRegistry: for any agents, instances, requests and     *)
(* overlapping sweeps, an expired agent is one whose manifest has lapsed,  *)
(* and no lapse is announced twice.                                        *)
(***************************************************************************)
EXTENDS AgentRegistry, FiniteSetTheorems, TLAPS

(* A request under way is about an agent. *)
RequestsRefer == \A r \in Requests : req[r].pc # "idle" => req[r].aid \in Agents

(* A sweep works with a time that has come, and has claimed nothing before its
   UPDATE. *)
SweepsSound ==
    \A s \in Sweeps :
        /\ sweep[s].at <= now
        /\ sweep[s].pc # "emit" => sweep[s].claimed = {}

(* The sweeps that have yet to announce the expiry of a. *)
Pending(a) == {s \in Sweeps : a \in sweep[s].claimed}

AnnouncementsCovered ==
    \A a \in Agents : history.announced[a] + Cardinality(Pending(a)) <= history.expired[a]

(* Each transition to expired uses up an enrollment, and an active agent has
   one in hand. *)
EnrollmentsCover ==
    \A a \in Agents :
        history.expired[a] + (IF agent[a].status = "active" THEN 1 ELSE 0)
            <= history.enrolled[a]

RegistryInv ==
    /\ TypeOK /\ RequestsRefer /\ SweepsSound
    /\ ExpiredIsLapsed /\ AnnouncementsCovered /\ EnrollmentsCover

-----------------------------------------------------------------------------
(* Facts about Pending, Sweeps being finite *)

LEMMA PendingFinite ==
  ASSUME NEW a PROVE IsFiniteSet(Pending(a)) /\ Cardinality(Pending(a)) \in Nat
  BY RegistryAssumption, FS_Subset, FS_CardinalityType DEF Pending

(* Sweeps that leave or forget announce no more. *)
LEMMA PendingShrinks ==
  ASSUME NEW a, \A s \in Sweeps : sweep'[s].claimed \subseteq sweep[s].claimed
  PROVE  Cardinality(Pending(a)') <= Cardinality(Pending(a)) /\ Cardinality(Pending(a)') \in Nat
<1>1. Pending(a)' \subseteq Pending(a)
  BY DEF Pending
<1> QED
  BY <1>1, PendingFinite, FS_Subset, FS_CardinalityType

LEMMA PendingGrows ==
  ASSUME NEW a, NEW s \in Sweeps, a \notin sweep[s].claimed,
         \A q \in Sweeps \ {s} : sweep'[q].claimed = sweep[q].claimed
  PROVE  /\ a \in sweep'[s].claimed => Cardinality(Pending(a)') = Cardinality(Pending(a)) + 1
         /\ a \notin sweep'[s].claimed => Cardinality(Pending(a)') = Cardinality(Pending(a))
<1>1. a \in sweep'[s].claimed => Pending(a)' = Pending(a) \union {s}
  BY DEF Pending
<1>2. a \notin sweep'[s].claimed => Pending(a)' = Pending(a)
  BY DEF Pending
<1>3. s \notin Pending(a)
  BY DEF Pending
<1> QED
  BY <1>1, <1>2, <1>3, PendingFinite, FS_AddElement

LEMMA PendingLoses ==
  ASSUME NEW a, NEW s \in Sweeps, a \in sweep[s].claimed, a \notin sweep'[s].claimed,
         \A q \in Sweeps \ {s} : sweep'[q].claimed = sweep[q].claimed
  PROVE  Cardinality(Pending(a)) = Cardinality(Pending(a)') + 1 /\ Cardinality(Pending(a)') \in Nat
<1>1. Pending(a)' = Pending(a) \ {s} /\ s \in Pending(a)
  BY DEF Pending
<1>2. /\ IsFiniteSet(Pending(a)) /\ Cardinality(Pending(a)) \in Nat
      /\ Cardinality(Pending(a) \ {s}) = Cardinality(Pending(a)) - 1
      /\ Cardinality(Pending(a) \ {s}) \in Nat
  BY <1>1, PendingFinite, FS_RemoveElement, FS_CardinalityType
<1> QED
  BY <1>1, <1>2

-----------------------------------------------------------------------------

LEMMA InitRegistry == Init => RegistryInv
<1> SUFFICES ASSUME Init PROVE RegistryInv
  OBVIOUS
<1>1. TypeOK
  BY RegistryAssumption
     DEF Init, TypeOK, Token, Agent, Request, NoRequest, Sweep, NoSweep, Never
<1>2. RequestsRefer /\ SweepsSound /\ ExpiredIsLapsed
  BY DEF Init, RequestsRefer, SweepsSound, ExpiredIsLapsed, NoRequest, NoSweep
<1>3. AnnouncementsCovered
  <2>1. \A a \in Agents : Pending(a) = {}
    BY DEF Init, Pending, NoSweep
  <2>2. \A a \in Agents : history.announced[a] = 0 /\ history.expired[a] = 0
    BY DEF Init
  <2>3. \A a \in Agents : Cardinality(Pending(a)) = 0
    BY <2>1, FS_EmptySet
  <2> QED
    BY <2>2, <2>3 DEF AnnouncementsCovered
<1>4. EnrollmentsCover
  BY DEF Init, EnrollmentsCover
<1> QED
  BY <1>1, <1>2, <1>3, <1>4 DEF RegistryInv

(* What AnnouncementsCovered speaks of is left alone by a step that announces
   and expires nothing, while sweeps may only forget. *)
LEMMA SilentAnnouncements ==
  ASSUME RegistryInv, \A s \in Sweeps : sweep'[s].claimed \subseteq sweep[s].claimed,
         history'.announced = history.announced, history'.expired = history.expired
  PROVE  AnnouncementsCovered'
<1> SUFFICES ASSUME NEW a \in Agents
             PROVE  history'.announced[a] + Cardinality(Pending(a)') <= history'.expired[a]
  BY DEF AnnouncementsCovered
<1>1. history.announced[a] + Cardinality(Pending(a)) <= history.expired[a]
  BY DEF RegistryInv, AnnouncementsCovered
<1>2. history.announced[a] \in Nat /\ history.expired[a] \in Nat
  BY DEF RegistryInv, TypeOK
<1> QED
  BY <1>1, <1>2, PendingShrinks, PendingFinite

LEMMA RecordFacts ==
  /\ \A f \in [request : Nat, db : Nat, crash : Nat] :
        /\ f.request > 0 => [f EXCEPT !.request = f.request - 1] \in [request : Nat, db : Nat, crash : Nat]
        /\ f.db > 0 => [f EXCEPT !.db = f.db - 1] \in [request : Nat, db : Nat, crash : Nat]
        /\ f.crash > 0 => [f EXCEPT !.crash = f.crash - 1] \in [request : Nat, db : Nat, crash : Nat]
  /\ NoRequest \in Request /\ NoSweep \in Sweep
  BY DEF Request, NoRequest, Sweep, NoSweep, Never

LEMMA TickInv == ASSUME RegistryInv, Tick PROVE RegistryInv'
<1> USE DEF RegistryInv
<1>1. TypeOK' /\ RequestsRefer'
  BY DEF Tick, TypeOK, RequestsRefer
<1>2. SweepsSound'
  BY DEF Tick, TypeOK, SweepsSound, Sweep
<1>3. ExpiredIsLapsed'
  BY DEF Tick, TypeOK, ExpiredIsLapsed, Agent
<1>4. AnnouncementsCovered' /\ EnrollmentsCover'
  BY SilentAnnouncements DEF Tick, EnrollmentsCover
<1> QED
  BY <1>1, <1>2, <1>3, <1>4

(* Steps that touch neither the agents nor the sweeps nor what is counted of
   them. *)
LEMMA AsideInv ==
  ASSUME RegistryInv, TypeOK', RequestsRefer', UNCHANGED <<now, agent, sweep>>,
         history'.announced = history.announced, history'.expired = history.expired,
         history'.enrolled = history.enrolled
  PROVE  RegistryInv'
<1>1. SweepsSound' /\ ExpiredIsLapsed'
  BY DEF RegistryInv, SweepsSound, ExpiredIsLapsed
<1>2. AnnouncementsCovered'
  BY SilentAnnouncements
<1>3. EnrollmentsCover'
  BY DEF RegistryInv, EnrollmentsCover
<1> QED
  BY <1>1, <1>2, <1>3 DEF RegistryInv

LEMMA EnrollInv ==
  ASSUME RegistryInv, NEW k \in Tokens, NEW a \in Agents, NEW e \in Manifests, Enroll(k, a, e)
  PROVE  RegistryInv'
<1>1. now + TokenLife \in Nat
  BY RegistryAssumption DEF RegistryInv, TypeOK
<1>2. TypeOK' /\ RequestsRefer'
  BY <1>1 DEF RegistryInv, Enroll, TypeOK, Token, RequestsRefer
<1> QED
  BY <1>2, AsideInv DEF Enroll

LEMMA BeginRequestType ==
  ASSUME RegistryInv, NEW r \in Requests, NEW i \in Instances, NEW a \in Agents,
         NEW pc \in {"upsert", "deactivate"}, NEW e \in Nat, BeginRequest(r, i, pc, a, e)
  PROVE  /\ req' \in [Requests -> Request]
         /\ faults' \in [request : Nat, db : Nat, crash : Nat]
         /\ RequestsRefer'
<1> DEFINE x == [pc |-> pc, inst |-> i, aid |-> a, expires |-> e]
<1>1. x \in Request
  BY DEF Request
<1>2. req' = [req EXCEPT ![r] = x]
  BY DEF BeginRequest
<1>3. faults' \in [request : Nat, db : Nat, crash : Nat]
  BY RecordFacts DEF BeginRequest, RegistryInv, TypeOK
<1>4. RequestsRefer'
  BY <1>2 DEF RegistryInv, TypeOK, RequestsRefer
<1> HIDE DEF x
<1> QED
  BY <1>1, <1>2, <1>3, <1>4 DEF RegistryInv, TypeOK

LEMMA RegisterInv ==
  ASSUME RegistryInv, NEW r \in Requests, NEW i \in Instances, NEW k \in Tokens,
         NEW e \in Manifests, Register(r, i, k, e)
  PROVE  RegistryInv'
<1>1. e \in Nat
  BY RegistryAssumption DEF Manifests, Never, RegistryInv, TypeOK
<1>2. token[k].aid \in Agents
  BY DEF Register, Valid, RegistryInv, TypeOK, Token
<1>3. /\ req' \in [Requests -> Request] /\ RequestsRefer'
      /\ faults' \in [request : Nat, db : Nat, crash : Nat]
  BY <1>1, <1>2, BeginRequestType DEF Register
<1>4. history' = [history EXCEPT !.used = [history.used EXCEPT ![k] = history.used[k] + 1]]
  BY DEF Register
<1>5. TypeOK'
  BY <1>3, <1>4 DEF Register, RegistryInv, TypeOK
<1>6. /\ history'.announced = history.announced /\ history'.expired = history.expired
      /\ history'.enrolled = history.enrolled
  BY <1>4 DEF RegistryInv, TypeOK
<1> QED
  BY <1>3, <1>5, <1>6, AsideInv DEF Register

LEMMA DeregisterInv ==
  ASSUME RegistryInv, NEW r \in Requests, NEW i \in Instances, NEW a \in Agents,
         Deregister(r, i, a)
  PROVE  RegistryInv'
<1>1. /\ req' \in [Requests -> Request] /\ RequestsRefer'
      /\ faults' \in [request : Nat, db : Nat, crash : Nat]
  BY BeginRequestType DEF Deregister, Never
<1>2. TypeOK'
  BY <1>1 DEF Deregister, RegistryInv, TypeOK
<1> QED
  BY <1>1, <1>2, AsideInv DEF Deregister

LEMMA UpsertInv ==
  ASSUME RegistryInv, NEW r \in Requests, Upsert(r) PROVE RegistryInv'
<1> USE DEF RegistryInv
<1>1. PICK a \in Agents : a = req[r].aid
  BY DEF Upsert, RequestsRefer
<1>2. /\ agent' = [agent EXCEPT ![a] = [status |-> "active", expires |-> req[r].expires]]
      /\ req' = [req EXCEPT ![r].pc = "audit"]
      /\ history' = [history EXCEPT !.enrolled =
                        [history.enrolled EXCEPT ![a] = history.enrolled[a] + 1]]
  BY <1>1 DEF Upsert, Upserted
<1>3. req' \in [Requests -> Request] /\ RequestsRefer'
  BY <1>1, <1>2 DEF TypeOK, Request, RequestsRefer, Upsert
<1>4. agent' \in [Agents -> Agent]
  BY <1>1, <1>2 DEF TypeOK, Agent, Request
<1>5. history' \in [ enrolled : [Agents -> Nat], expired : [Agents -> Nat],
                     announced : [Agents -> Nat], used : [Tokens -> Nat] ]
  BY <1>1, <1>2 DEF TypeOK
<1>6. TypeOK'
  BY <1>3, <1>4, <1>5 DEF TypeOK, Upsert
<1>7. SweepsSound' /\ ExpiredIsLapsed'
  BY <1>1, <1>2 DEF SweepsSound, ExpiredIsLapsed, Upsert, TypeOK
<1>8. /\ history'.announced = history.announced /\ history'.expired = history.expired
      /\ history'.enrolled = [history.enrolled EXCEPT ![a] = history.enrolled[a] + 1]
  BY <1>2 DEF TypeOK
<1>9. AnnouncementsCovered'
  BY <1>8, SilentAnnouncements DEF Upsert
<1>10. EnrollmentsCover'
  <2> SUFFICES ASSUME NEW b \in Agents
               PROVE  history'.expired[b] + (IF agent'[b].status = "active" THEN 1 ELSE 0)
                         <= history'.enrolled[b]
    BY DEF EnrollmentsCover
  <2>1. history.expired[b] \in Nat /\ history.enrolled[b] \in Nat
    BY DEF TypeOK
  <2>2. history.expired[b] + (IF agent[b].status = "active" THEN 1 ELSE 0)
           <= history.enrolled[b]
    BY DEF EnrollmentsCover
  <2>3. CASE b = a
    BY <1>8, <2>1, <2>2, <2>3 DEF TypeOK
  <2>4. CASE b # a
    <3>1. agent'[b] = agent[b] /\ history'.enrolled[b] = history.enrolled[b]
      BY <1>1, <1>2, <1>8, <2>4 DEF TypeOK
    <3> QED
      BY <1>8, <2>2, <3>1
  <2> QED
    BY <2>3, <2>4
<1> QED
  BY <1>3, <1>6, <1>7, <1>9, <1>10

LEMMA DeactivateInv ==
  ASSUME RegistryInv, NEW r \in Requests, Deactivate(r) PROVE RegistryInv'
<1> USE DEF RegistryInv
<1>1. PICK a \in Agents : a = req[r].aid
  BY DEF Deactivate, RequestsRefer
<1>2. /\ agent' = agent \/ agent' = [agent EXCEPT ![a].status = "deregistered"]
      /\ req' = [req EXCEPT ![r] = NoRequest] \/ req' = [req EXCEPT ![r].pc = "audit"]
      /\ UNCHANGED <<now, token, started, sweep, history, faults>>
  BY <1>1 DEF Deactivate, Deactivated
<1>3. req' \in [Requests -> Request] /\ RequestsRefer'
  BY <1>1, <1>2 DEF TypeOK, Request, NoRequest, RequestsRefer, Never
<1>4. agent' \in [Agents -> Agent]
  BY <1>1, <1>2 DEF TypeOK, Agent
<1>5. TypeOK'
  BY <1>2, <1>3, <1>4 DEF TypeOK
<1>6. \A b \in Agents : agent'[b] = agent[b] \/ agent'[b].status = "deregistered"
  BY <1>2 DEF TypeOK, Agent
<1>7. SweepsSound' /\ ExpiredIsLapsed'
  BY <1>2, <1>6 DEF SweepsSound, ExpiredIsLapsed
<1>8. AnnouncementsCovered'
  BY <1>2, SilentAnnouncements
<1>9. EnrollmentsCover'
  <2> SUFFICES ASSUME NEW b \in Agents
               PROVE  history.expired[b] + (IF agent'[b].status = "active" THEN 1 ELSE 0)
                         <= history.enrolled[b]
    BY <1>2 DEF EnrollmentsCover
  <2>1. history.expired[b] \in Nat /\ history.enrolled[b] \in Nat
    BY DEF TypeOK
  <2>2. history.expired[b] + (IF agent[b].status = "active" THEN 1 ELSE 0)
           <= history.enrolled[b]
    BY DEF EnrollmentsCover
  <2> QED
    BY <1>6, <2>1, <2>2
<1> QED
  BY <1>3, <1>5, <1>7, <1>8, <1>9

LEMMA RequestEndsInv ==
  ASSUME RegistryInv, NEW r \in Requests, Audit(r) \/ RequestFails(r) PROVE RegistryInv'
<1>1. /\ req' = [req EXCEPT ![r] = NoRequest]
      /\ UNCHANGED <<now, token, agent, started, sweep, history>>
  BY DEF Audit, RequestFails
<1>2. faults' \in [request : Nat, db : Nat, crash : Nat]
  BY RecordFacts DEF Audit, RequestFails, RegistryInv, TypeOK
<1>3. TypeOK'
  BY <1>1, <1>2, RecordFacts DEF RegistryInv, TypeOK
<1>4. RequestsRefer'
  BY <1>1 DEF RegistryInv, TypeOK, RequestsRefer, NoRequest
<1> QED
  BY <1>1, <1>3, <1>4, AsideInv

-----------------------------------------------------------------------------
(* Sweeps *)

LEMMA StartExpiryJobInv ==
  ASSUME RegistryInv, NEW i \in Instances, StartExpiryJob(i) PROVE RegistryInv'
<1>1. TypeOK' /\ RequestsRefer'
  BY DEF RegistryInv, StartExpiryJob, TypeOK, RequestsRefer
<1> QED
  BY <1>1, AsideInv DEF StartExpiryJob

(* Steps that change neither agents nor counts, while sweeps only forget. *)
LEMMA ForgettingInv ==
  ASSUME RegistryInv, UNCHANGED <<now, agent, history>>, TypeOK', RequestsRefer',
         SweepsSound', \A s \in Sweeps : sweep'[s].claimed \subseteq sweep[s].claimed
  PROVE  RegistryInv'
<1>1. ExpiredIsLapsed' /\ EnrollmentsCover'
  BY DEF RegistryInv, ExpiredIsLapsed, EnrollmentsCover
<1> QED
  BY <1>1, SilentAnnouncements DEF RegistryInv

LEMMA BeginSweepInv ==
  ASSUME RegistryInv, NEW s \in Sweeps, NEW i \in Instances, BeginSweep(s, i)
  PROVE  RegistryInv'
<1> DEFINE x == [pc |-> "update", inst |-> i, at |-> now, claimed |-> {}]
<1>1. sweep' = [sweep EXCEPT ![s] = x] /\ x \in Sweep
  BY DEF BeginSweep, Sweep, RegistryInv, TypeOK
<1>2. /\ sweep' \in [Sweeps -> Sweep] /\ sweep'[s] = x
      /\ \A q \in Sweeps \ {s} : sweep'[q] = sweep[q]
  BY <1>1 DEF RegistryInv, TypeOK
<1>3. TypeOK' /\ RequestsRefer'
  BY <1>2 DEF BeginSweep, RegistryInv, TypeOK, RequestsRefer
<1>4. SweepsSound'
  BY <1>2 DEF BeginSweep, RegistryInv, SweepsSound, TypeOK
<1>5. \A q \in Sweeps : sweep'[q].claimed \subseteq sweep[q].claimed
  BY <1>2
<1> QED
  BY <1>3, <1>4, <1>5, ForgettingInv DEF BeginSweep

LEMMA ExpireFailsInv ==
  ASSUME RegistryInv, NEW s \in Sweeps, ExpireFails(s) PROVE RegistryInv'
<1>1. sweep' = [sweep EXCEPT ![s] = NoSweep]
  BY DEF ExpireFails
<1>2. \A q \in Sweeps : sweep'[q] = sweep[q] \/ sweep'[q] = NoSweep
  BY <1>1 DEF RegistryInv, TypeOK
<1>3. TypeOK' /\ RequestsRefer'
  BY <1>1, RecordFacts DEF ExpireFails, RegistryInv, TypeOK, RequestsRefer
<1>4. SweepsSound'
  BY <1>2 DEF ExpireFails, RegistryInv, SweepsSound, TypeOK, NoSweep
<1>5. \A q \in Sweeps : sweep'[q].claimed \subseteq sweep[q].claimed
  BY <1>2 DEF NoSweep
<1> QED
  BY <1>3, <1>4, <1>5, ForgettingInv DEF ExpireFails

LEMMA CrashInv ==
  ASSUME RegistryInv, NEW i \in Instances, Crash(i) PROVE RegistryInv'
<1>1. \A q \in Sweeps : sweep'[q] = sweep[q] \/ sweep'[q] = NoSweep
  BY DEF Crash
<1>2. sweep' \in [Sweeps -> Sweep] /\ req' \in [Requests -> Request]
  BY RecordFacts DEF Crash, RegistryInv, TypeOK
<1>3. faults' \in [request : Nat, db : Nat, crash : Nat]
  BY RecordFacts DEF Crash, RegistryInv, TypeOK
<1>4. TypeOK'
  BY <1>2, <1>3 DEF Crash, RegistryInv, TypeOK
<1>5. RequestsRefer'
  BY DEF Crash, RegistryInv, RequestsRefer, NoRequest
<1>6. SweepsSound'
  BY <1>1 DEF Crash, RegistryInv, SweepsSound, TypeOK, NoSweep
<1>7. \A q \in Sweeps : sweep'[q].claimed \subseteq sweep[q].claimed
  BY <1>1 DEF NoSweep
<1> QED
  BY <1>4, <1>5, <1>6, <1>7, ForgettingInv DEF Crash

(* The UPDATE: only active agents whose manifest has lapsed expire, and each
   is claimed by this sweep. *)
LEMMA ExpireInv ==
  ASSUME RegistryInv, NEW s \in Sweeps, Expire(s) PROVE RegistryInv'
<1> USE DEF RegistryInv
<1> DEFINE lapsed == {a \in Agents : Lapsed(agent[a], sweep[s].at)}
<1>1. PICK claimed \in SUBSET Agents : claimed = lapsed
  OBVIOUS
<1>2. \A a \in claimed : /\ agent[a].status = "active" /\ agent[a].expires # Never
                         /\ agent[a].expires < now
  BY <1>1 DEF Lapsed, SweepsSound, TypeOK, Agent, Sweep
<1>3. /\ sweep[s].pc = "update" /\ sweep[s].claimed = {}
      /\ sweep' = [sweep EXCEPT ![s] =
                      IF claimed = {} THEN NoSweep
                      ELSE [pc |-> "emit", inst |-> sweep[s].inst,
                            at |-> sweep[s].at, claimed |-> claimed]]
      /\ history' = [history EXCEPT !.expired =
            [a \in Agents |-> history.expired[a] + (IF a \in claimed THEN 1 ELSE 0)]]
      /\ agent' = [a \in Agents |-> IF a \in claimed
                                    THEN [agent[a] EXCEPT !.status = "expired"] ELSE agent[a]]
      /\ UNCHANGED <<now, token, req, started, faults>>
  BY <1>1 DEF Expire, SweepsSound
<1>4. \A q \in Sweeps \ {s} : sweep'[q] = sweep[q]
  BY <1>3 DEF TypeOK
<1>5. /\ sweep'[s] \in Sweep /\ sweep'[s].claimed = claimed
      /\ sweep'[s].at <= now /\ (sweep'[s].pc # "emit" => claimed = {})
  <2>1. CASE claimed = {}
    BY <1>3, <2>1, RecordFacts DEF TypeOK, NoSweep
  <2>2. CASE claimed # {}
    BY <1>3, <2>2 DEF TypeOK, Sweep, SweepsSound
  <2> QED
    BY <2>1, <2>2
<1>6. sweep' \in [Sweeps -> Sweep]
  BY <1>3, <1>5 DEF TypeOK
<1>7. /\ history'.announced = history.announced /\ history'.enrolled = history.enrolled
      /\ \A a \in Agents :
            history'.expired[a] = history.expired[a] + (IF a \in claimed THEN 1 ELSE 0)
      /\ history' \in [ enrolled : [Agents -> Nat], expired : [Agents -> Nat],
                        announced : [Agents -> Nat], used : [Tokens -> Nat] ]
  BY <1>3 DEF TypeOK
<1>8. agent' \in [Agents -> Agent]
  BY <1>3 DEF TypeOK, Agent
<1>9. TypeOK'
  BY <1>3, <1>6, <1>7, <1>8 DEF TypeOK
<1>10. RequestsRefer' /\ SweepsSound'
  BY <1>3, <1>4, <1>5 DEF RequestsRefer, SweepsSound
<1>11. ExpiredIsLapsed'
  <2> SUFFICES ASSUME NEW a \in Agents, agent'[a].status = "expired"
               PROVE  agent'[a].expires # Never /\ agent'[a].expires < now
    BY <1>3 DEF ExpiredIsLapsed
  <2>1. CASE a \in claimed
    BY <1>2, <1>3, <2>1 DEF TypeOK, Agent
  <2>2. CASE a \notin claimed
    BY <1>3, <2>2 DEF ExpiredIsLapsed
  <2> QED
    BY <2>1, <2>2
<1>12. AnnouncementsCovered'
  <2> SUFFICES ASSUME NEW a \in Agents
               PROVE  history'.announced[a] + Cardinality(Pending(a)') <= history'.expired[a]
    BY DEF AnnouncementsCovered
  <2>1. history.announced[a] + Cardinality(Pending(a)) <= history.expired[a]
    BY DEF AnnouncementsCovered
  <2>2. history.announced[a] \in Nat /\ history.expired[a] \in Nat
    BY DEF TypeOK
  <2>3. Cardinality(Pending(a)') = Cardinality(Pending(a)) + (IF a \in claimed THEN 1 ELSE 0)
    <3>1. a \notin sweep[s].claimed /\ (a \in sweep'[s].claimed <=> a \in claimed)
      BY <1>3, <1>5
    <3>2. \A q \in Sweeps \ {s} : sweep'[q].claimed = sweep[q].claimed
      BY <1>4
    <3> QED
      BY <3>1, <3>2, PendingGrows, PendingFinite
  <2> QED
    BY <1>7, <2>1, <2>2, <2>3, PendingFinite
<1>13. EnrollmentsCover'
  <2> SUFFICES ASSUME NEW a \in Agents
               PROVE  history'.expired[a] + (IF agent'[a].status = "active" THEN 1 ELSE 0)
                         <= history'.enrolled[a]
    BY DEF EnrollmentsCover
  <2>1. history.expired[a] + (IF agent[a].status = "active" THEN 1 ELSE 0)
           <= history.enrolled[a]
    BY DEF EnrollmentsCover
  <2>2. history.expired[a] \in Nat /\ history.enrolled[a] \in Nat
    BY DEF TypeOK
  <2>3. CASE a \in claimed
    <3>1. agent[a].status = "active" /\ agent'[a].status = "expired"
      BY <1>2, <1>3, <2>3 DEF TypeOK, Agent
    <3> QED
      BY <1>7, <2>1, <2>2, <2>3, <3>1
  <2>4. CASE a \notin claimed
    BY <1>3, <1>7, <2>1, <2>2, <2>4
  <2> QED
    BY <2>3, <2>4
<1> QED
  BY <1>9, <1>10, <1>11, <1>12, <1>13

(* An announcement pays for one claim. *)
LEMMA EmitInv ==
  ASSUME RegistryInv, NEW s \in Sweeps, NEW a \in Agents, Emit(s, a) PROVE RegistryInv'
<1> USE DEF RegistryInv
<1>1. PICK left \in SUBSET Agents : left = sweep[s].claimed \ {a}
  BY DEF TypeOK, Sweep
<1>2. /\ sweep[s].pc = "emit" /\ a \in sweep[s].claimed
      /\ sweep' = [sweep EXCEPT ![s] =
                      IF left = {} THEN NoSweep
                      ELSE [pc |-> "emit", inst |-> sweep[s].inst,
                            at |-> sweep[s].at, claimed |-> left]]
      /\ history' = [history EXCEPT !.announced =
                        [history.announced EXCEPT ![a] = history.announced[a] + 1]]
      /\ UNCHANGED <<now, token, agent, req, started, faults>>
  BY <1>1 DEF Emit
<1>3. \A q \in Sweeps \ {s} : sweep'[q] = sweep[q]
  BY <1>2 DEF TypeOK
<1>4. /\ sweep'[s] \in Sweep /\ sweep'[s].claimed = left
      /\ sweep'[s].at <= now /\ (sweep'[s].pc # "emit" => left = {})
  <2>1. CASE left = {}
    BY <1>2, <2>1, RecordFacts DEF TypeOK, NoSweep
  <2>2. CASE left # {}
    BY <1>2, <2>2 DEF TypeOK, Sweep, SweepsSound
  <2> QED
    BY <2>1, <2>2
<1>5. sweep' \in [Sweeps -> Sweep]
  BY <1>2, <1>4 DEF TypeOK
<1>6. /\ history'.expired = history.expired /\ history'.enrolled = history.enrolled
      /\ history'.announced[a] = history.announced[a] + 1
      /\ \A b \in Agents \ {a} : history'.announced[b] = history.announced[b]
      /\ history' \in [ enrolled : [Agents -> Nat], expired : [Agents -> Nat],
                        announced : [Agents -> Nat], used : [Tokens -> Nat] ]
  BY <1>2 DEF TypeOK
<1>7. TypeOK'
  BY <1>2, <1>5, <1>6 DEF TypeOK
<1>8. RequestsRefer' /\ SweepsSound'
  BY <1>2, <1>3, <1>4 DEF RequestsRefer, SweepsSound
<1>9. ExpiredIsLapsed' /\ EnrollmentsCover'
  BY <1>2, <1>6 DEF ExpiredIsLapsed, EnrollmentsCover
<1>10. AnnouncementsCovered'
  <2> SUFFICES ASSUME NEW b \in Agents
               PROVE  history'.announced[b] + Cardinality(Pending(b)') <= history'.expired[b]
    BY DEF AnnouncementsCovered
  <2>1. history.announced[b] + Cardinality(Pending(b)) <= history.expired[b]
    BY DEF AnnouncementsCovered
  <2>2. history.announced[b] \in Nat /\ history.expired[b] \in Nat
    BY DEF TypeOK
  <2>3. CASE b = a
    <3>1. Cardinality(Pending(b)) = Cardinality(Pending(b)') + 1 /\ Cardinality(Pending(b)') \in Nat
      BY <1>1, <1>2, <1>3, <1>4, <2>3, PendingLoses
    <3> QED
      BY <1>6, <2>1, <2>2, <2>3, <3>1
  <2>4. CASE b # a
    <3>1. Cardinality(Pending(b)') <= Cardinality(Pending(b)) /\ Cardinality(Pending(b)') \in Nat
      BY <1>1, <1>3, <1>4, PendingShrinks
    <3> QED
      BY <1>6, <2>1, <2>2, <2>4, <3>1, PendingFinite
  <2> QED
    BY <2>3, <2>4
<1> QED
  BY <1>7, <1>8, <1>9, <1>10

-----------------------------------------------------------------------------

LEMMA StepRegistry == RegistryInv /\ [Next]_vars => RegistryInv'
<1> SUFFICES ASSUME RegistryInv, [Next]_vars PROVE RegistryInv'
  OBVIOUS
<1>1. CASE Tick
  BY <1>1, TickInv
<1>2. CASE \E k \in Tokens, a \in Agents, e \in Manifests : Enroll(k, a, e)
  BY <1>2, EnrollInv
<1>3. CASE \E r \in Requests :
              \/ \E i \in Instances :
                    \/ \E k \in Tokens, e \in Manifests : Register(r, i, k, e)
                    \/ \E a \in Agents : Deregister(r, i, a)
              \/ Upsert(r) \/ Deactivate(r) \/ Audit(r) \/ RequestFails(r)
  BY <1>3, RegisterInv, DeregisterInv, UpsertInv, DeactivateInv, RequestEndsInv
<1>4. CASE \E i \in Instances : StartExpiryJob(i) \/ Crash(i)
  BY <1>4, StartExpiryJobInv, CrashInv
<1>5. CASE \E s \in Sweeps :
              \/ \E i \in Instances : BeginSweep(s, i)
              \/ Expire(s) \/ ExpireFails(s)
              \/ \E a \in Agents : Emit(s, a)
  BY <1>5, BeginSweepInv, ExpireInv, ExpireFailsInv, EmitInv
<1>6. CASE UNCHANGED vars
  <2>1. TypeOK' /\ RequestsRefer'
    BY <1>6 DEF vars, RegistryInv, TypeOK, RequestsRefer
  <2> QED
    BY <1>6, <2>1, AsideInv DEF vars
<1> QED
  BY <1>1, <1>2, <1>3, <1>4, <1>5, <1>6 DEF Next

LEMMA Invariance == Spec => []RegistryInv
  BY InitRegistry, StepRegistry, PTL DEF Spec

(* The registry's variables always have their types. *)
THEOREM TypeCorrect == Spec => []TypeOK
<1>1. RegistryInv => TypeOK
  BY DEF RegistryInv
<1> QED
  BY <1>1, Invariance, PTL

(* However registrations, deregistrations, sweeps and crashes interleave, an
   agent shown as expired is one whose current manifest has lapsed
   (store.ts:83-89, expiry-job.ts:22-31). *)
THEOREM ExpiryIsDue == Spec => []ExpiredIsLapsed
<1>1. RegistryInv => ExpiredIsLapsed
  BY DEF RegistryInv
<1> QED
  BY <1>1, Invariance, PTL

(* The atomic UPDATE ... RETURNING is enough to announce no lapse twice, for
   any number of instances and of sweeps under way at once
   (expiry-job.ts:14-20). *)
THEOREM LapsesAnnouncedOnce == Spec => []AnnouncedAtMostOnce
<1>1. RegistryInv => AnnouncedAtMostOnce
  <2> SUFFICES ASSUME RegistryInv, NEW a \in Agents
               PROVE  /\ history.announced[a] + Cardinality(Pending(a)) <= history.expired[a]
                      /\ history.expired[a] <= history.enrolled[a]
    BY DEF AnnouncedAtMostOnce, Pending
  <2>1. history.expired[a] \in Nat /\ history.enrolled[a] \in Nat
    BY DEF RegistryInv, TypeOK
  <2> QED
    BY <2>1 DEF RegistryInv, AnnouncementsCovered, EnrollmentsCover
<1> QED
  BY <1>1, Invariance, PTL

==============================================================================
