------------------------ MODULE IdempotentCreateProofs ------------------------
(***************************************************************************)
(* Proofs about IdempotentCreate: for any keys, requests and bounds, a key *)
(* has one answer, and no request runs the handler after it was given.     *)
(***************************************************************************)
EXTENDS IdempotentCreate, TLAPS

(* What holds of the pinned rows between any two statements: the answers of a
   key are its row; a request that began after an answer finds the row; and
   whoever is past the INSERT of the row finds one too. *)
AnswersAreTheRow ==
    \A k \in Keys \ unpinned :
        answers[k] # {} => row[k] # None /\ answers[k] = {row[k]}

LateFindsRow ==
    \A r \in Requests :
        req[r].late => req[r].pc \in {"idle", "lookup"} /\ (req[r].pc = "lookup" => row[req[r].key] # None)

PinnedFindsRow ==
    \A r \in Requests :
        /\ req[r].pc # "idle" => req[r].key \in Keys
        /\ req[r].pc \in {"select", "pin", "reread"} => req[r].id \in Ids
        /\ req[r].pc = "reread" => row[req[r].key] # None

IInv == TypeOK /\ AnswersAreTheRow /\ LateFindsRow /\ PinnedFindsRow

LEMMA IdIsNotNone == \A id \in Ids : id # None
  BY CreateAssumption DEF Ids

LEMMA InitIInv == Init => IInv
  BY CreateAssumption
  DEF Init, IInv, TypeOK, AnswersAreTheRow, LateFindsRow, PinnedFindsRow, NoRequest, Request, Ids

LEMMA NextIInv == IInv /\ [Next]_vars => IInv'
<1> SUFFICES ASSUME IInv, [Next]_vars PROVE IInv'
  OBVIOUS
<1> USE CreateAssumption, IdIsNotNone
<1> USE DEF IInv, TypeOK, AnswersAreTheRow, LateFindsRow, PinnedFindsRow, Request, NoRequest, At, Goto
<1>1. ASSUME NEW r \in Requests, NEW k \in Keys, Begin(r, k) PROVE IInv'
  BY <1>1 DEF Begin
<1>2. ASSUME NEW r \in Requests, Lookup(r) PROVE IInv'
  <2>1. CASE row[req[r].key] # None
    <3> DEFINE k == req[r].key
    <3>1. k \in Keys /\ row[k] \in Ids
      BY <1>2, <2>1 DEF Lookup
    <3>2. /\ req' = [req EXCEPT ![r] = NoRequest]
          /\ answers' = [answers EXCEPT ![k] = answers[k] \union {row[k]}]
          /\ UNCHANGED <<row, created, unpinned, faults>>
      BY <1>2, <2>1 DEF Lookup, Cached, Answer
    <3> HIDE DEF k
    <3>3. TypeOK'
      BY <3>1, <3>2
    <3>4. AnswersAreTheRow'
      BY <3>1, <3>2
    <3>5. LateFindsRow' /\ PinnedFindsRow'
      BY <3>1, <3>2
    <3> QED
      BY <3>3, <3>4, <3>5
  <2>2. CASE row[req[r].key] = None
    BY <1>2, <2>2 DEF Lookup, Cached
  <2> QED
    BY <2>1, <2>2
<1>3. ASSUME NEW r \in Requests, Insert(r) PROVE IInv'
  <2>1. PICK id \in Ids :
          /\ created' = [created EXCEPT ![req[r].key] = @ \union {id}]
          /\ req' = [req EXCEPT ![r] = [pc |-> "select", key |-> req[r].key, id |-> id,
                                        late |-> req[r].late]]
    BY <1>3 DEF Insert
  <2> QED
    BY <1>3, <2>1 DEF Insert
<1>4. ASSUME NEW r \in Requests, Select(r) PROVE IInv'
  BY <1>4 DEF Select
<1>5. ASSUME NEW r \in Requests, Pin(r) PROVE IInv'
  BY <1>5 DEF Pin, Pinned
<1>6. ASSUME NEW r \in Requests, Reread(r) PROVE IInv'
  BY <1>6 DEF Reread, Winner, Answer
<1>7. ASSUME NEW r \in Requests, Fails(r) PROVE IInv'
  BY <1>7 DEF Fails
<1>8. ASSUME NEW r \in Requests, PinFails(r) PROVE IInv'
  BY <1>8 DEF PinFails, Answer
<1>9. ASSUME NEW r \in Requests, Crash(r) PROVE IInv'
  BY <1>9 DEF Crash
<1>10. ASSUME NEW k \in Keys, Purge(k) PROVE IInv'
  <2>1. req' \in [Requests -> Request]
    <3>1. \A q \in Request : [q EXCEPT !.late = FALSE] \in Request
      OBVIOUS
    <3> QED
      BY <1>10, <3>1 DEF Purge
  <2>2. \A r \in Requests :
          /\ req'[r].pc = req[r].pc /\ req'[r].key = req[r].key /\ req'[r].id = req[r].id
          /\ req[r].key = k => ~req'[r].late /\ req[r].pc = "lookup"
          /\ req[r].key # k => req'[r] = req[r]
    BY <1>10 DEF Purge
  <2>3. TypeOK' /\ AnswersAreTheRow'
    BY <1>10, <2>1 DEF Purge
  <2>4. LateFindsRow' /\ PinnedFindsRow'
    BY <1>10, <2>2 DEF Purge
  <2> QED
    BY <2>3, <2>4
<1>11. CASE UNCHANGED vars
  BY <1>11 DEF vars
<1> QED
  BY <1>1, <1>2, <1>3, <1>4, <1>5, <1>6, <1>7, <1>8, <1>9, <1>10, <1>11 DEF Next

(* Keys, requests and answers stay in their types. *)
THEOREM TypeCorrect == Spec => []TypeOK
<1>1. IInv => TypeOK
  BY DEF IInv
<1> QED
  BY InitIInv, NextIInv, <1>1, PTL DEF Spec

(* For any number of keys, requests, failures and crashes, all requests with
   one key that are answered 201 while its row lives name the same webhook
   (idempotency.ts:22-24, 167-186). *)
THEOREM KeysHaveOneAnswer == Spec => []OneAnswer
<1>1. IInv => OneAnswer
  BY DEF IInv, AnswersAreTheRow, OneAnswer
<1> QED
  BY InitIInv, NextIInv, <1>1, PTL DEF Spec

(* ... and a request that begins after such an answer never runs the handler
   (idempotency.ts:116-129). *)
THEOREM AnswersEndTheHandler == Spec => []AnsweredNotRerun
<1>1. IInv => AnsweredNotRerun
  BY DEF IInv, LateFindsRow, AnsweredNotRerun
<1> QED
  BY InitIInv, NextIInv, <1>1, PTL DEF Spec

=============================================================================
