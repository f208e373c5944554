-------------------------- MODULE Requests_proofs --------------------------
(***************************************************************************)
(* Retried requests keep the promise of OneEffect, for any keys, customers,  *)
(* versions and handlers: each step of Requests is a step of Lifecycle, so   *)
(* its inductive invariant holds, and KeyInv is inductive on top of it.      *)
(***************************************************************************)
EXTENDS Requests, Lifecycle_proofs

-----------------------------------------------------------------------------
(* What a step does to the calls *)

OtherCalls(p) == \A q \in Handler : q # p => calls'[q] = calls[q]

LEMMA CallInFlight ==
  ASSUME CallTypeOK, NEW p \in Handler, calling(p)
  PROVE  /\ calls[p] \in Call
         /\ idemOf(p) \in IdemKey
         /\ customerOf(p) \in Customer
         /\ versionOf(p) \in Version
<1>1. calls[p] \in Call /\ idemOf(p) \in IdemKey
  BY DEF CallTypeOK, calling, Call, idemOf
<1>2. QED
  BY <1>1, RequestAssumption DEF IdemKey, idemOf, customerOf, versionOf

LEMMA StepCalls ==
  ASSUME NEW p \in Handler, NEW s, inCall(p, s), s # "none"
  PROVE  calling(p)
BY DEF inCall, calling, NoCall

LEMMA HangUpEffect ==
  ASSUME CallTypeOK, NEW p \in Handler, hangUp(p)
  PROVE  OtherCalls(p) /\ calls'[p] = NoCall
BY DEF CallTypeOK, hangUp, OtherCalls

LEMMA ProceedEffect ==
  ASSUME CallTypeOK, NEW p \in Handler, calls[p] \in Call, NEW s, proceed(p, s)
  PROVE  /\ OtherCalls(p)
         /\ calls'[p].step = s
         /\ calls'[p].idem = calls[p].idem
         /\ calls'[p].polls = calls[p].polls
         /\ s \in {"reserve", "begin", "process", "put", "release", "wait"} => calls'[p] \in Call
BY DEF CallTypeOK, proceed, OtherCalls, Call

(* Who refuses a call leaves it, or goes on to give its reservation back. *)
LEMMA RefuseEffect ==
  ASSUME CallTypeOK, NEW p \in Handler, calls[p] \in Call, refuse(p)
  PROVE  /\ OtherCalls(p)
         /\ \/ calls'[p] = NoCall
            \/ /\ consents(p) /\ calls'[p] \in Call
               /\ calls'[p].step = "release" /\ calls'[p].idem = calls[p].idem
BY HangUpEffect, ProceedEffect DEF refuse

-----------------------------------------------------------------------------
(* Type correctness of the calls, and with it the step to Lifecycle. *)

LEMMA HangUpType ==
  ASSUME CallTypeOK, NEW p \in Handler, hangUp(p)
  PROVE  calls' \in [Handler -> Call \cup {NoCall}]
BY DEF CallTypeOK, hangUp

LEMMA ProceedType ==
  ASSUME CallTypeOK, NEW p \in Handler, calls[p] \in Call,
         NEW s \in {"reserve", "begin", "process", "put", "release", "wait"}, proceed(p, s)
  PROVE  calls' \in [Handler -> Call \cup {NoCall}]
<1>1. [calls[p] EXCEPT !.step = s] \in Call
  BY DEF Call
<1>2. QED
  BY <1>1 DEF CallTypeOK, proceed

LEMMA RefuseType ==
  ASSUME CallTypeOK, NEW p \in Handler, calls[p] \in Call, refuse(p)
  PROVE  calls' \in [Handler -> Call \cup {NoCall}]
BY HangUpType, ProceedType DEF refuse

LEMMA CallStepType ==
  ASSUME CallTypeOK, NEW p \in Handler, CallStep(p)
  PROVE  CallTypeOK'
<1> USE DEF CallTypeOK
<1>1. ASSUME NEW i \in IdemKey, CallArrives(p, i) PROVE CallTypeOK'
  <2>1. [step |-> IF i[1] = "acceptance" THEN "reserve" ELSE "begin",
         idem |-> i, polls |-> 0] \in Call
    BY DEF Call
  <2>2. QED
    BY <1>1, <2>1 DEF CallArrives, reply
<1>2. CASE CallReserve(p)
  BY <1>2, StepCalls, CallInFlight, ProceedType DEF CallReserve
<1>3. CASE CallBegin(p)
  BY <1>3, StepCalls, CallInFlight, ProceedType DEF CallBegin
<1>4. CASE CallRefused(p)
  BY <1>4, StepCalls, CallInFlight, RefuseType DEF CallRefused
<1>5. CASE CallProcess(p)
  <2>1. calls[p] \in Call /\ idemOf(p) \in IdemKey
    BY <1>5, StepCalls, CallInFlight DEF CallProcess
  <2>2. effects' \in [IdemKey -> Nat]
    BY <1>5, <2>1 DEF CallProcess
  <2>3. calls' \in [Handler -> Call \cup {NoCall}]
    BY <1>5, <2>1, ProceedType, RefuseType DEF CallProcess
  <2>4. QED
    BY <1>5, <2>2, <2>3 DEF CallProcess
<1>6. CASE CallPut(p)
  BY <1>6, StepCalls, CallInFlight, HangUpType DEF CallPut, reply
<1>7. CASE CallRelease(p)
  BY <1>7, StepCalls, CallInFlight, HangUpType DEF CallRelease
<1>8. CASE CallPoll(p)
  <2>1. calls[p] \in Call /\ idemOf(p) \in IdemKey
    BY <1>8, StepCalls, CallInFlight DEF CallPoll
  <2>2. [calls[p] EXCEPT !.polls = @ + 1] \in Call
    BY <2>1 DEF Call
  <2>3. QED
    BY <1>8, <2>1, <2>2, HangUpType DEF CallPoll, reply
<1>9. CASE ProcessFails(p)
  BY <1>9, StepCalls, CallInFlight, RefuseType DEF ProcessFails
<1>10. CASE ProcessDies(p)
  BY <1>10, HangUpType DEF ProcessDies
<1>11. CASE PutFails(p)
  BY <1>11, StepCalls, CallInFlight, RefuseType DEF PutFails, CallFault
<1>12. CASE CallDies(p)
  BY <1>12, HangUpType DEF CallDies, CallFault
<1>13. QED
  BY <1>1, <1>2, <1>3, <1>4, <1>5, <1>6, <1>7, <1>8, <1>9, <1>10, <1>11, <1>12
  DEF CallStep, CallProgress

LEMMA NextCallType == CallTypeOK /\ [RequestNext]_requestVars => CallTypeOK'
<1> SUFFICES ASSUME CallTypeOK, [RequestNext]_requestVars PROVE CallTypeOK'
  OBVIOUS
<1>1. CASE UNCHANGED callVars
  BY <1>1 DEF callVars, CallTypeOK
<1>2. QED
  BY <1>1, CallStepType DEF RequestNext, OtherSteps, Unkeyed, requestVars

(* What a call does to the tables it does as a handler of Lifecycle. *)
LEMMA CallStepIsApi ==
  ASSUME CallTypeOK, NEW p \in Handler, CallStep(p)
  PROVE  Api(p) \/ UNCHANGED vars
<1>1. CASE CallBegin(p)
  <2>1. customerOf(p) \in Customer /\ versionOf(p) \in Version
    BY <1>1, StepCalls, CallInFlight DEF CallBegin
  <2>2. QED
    BY <1>1, <2>1 DEF CallBegin, Api, ApiStep, ApiStart
<1>2. CASE CallProcess(p)
  BY <1>2 DEF CallProcess, Api, ApiStep
<1>3. CASE ProcessFails(p) \/ ProcessDies(p)
  BY <1>3 DEF ProcessFails, ProcessDies, Api, ApiStep
<1>4. QED
  BY <1>1, <1>2, <1>3
  DEF CallStep, CallProgress, CallArrives, CallReserve, CallRefused, CallPut, CallRelease,
      CallPoll, PutFails, CallDies

LEMMA RequestStepIsLifecycle ==
  CallTypeOK /\ [RequestNext]_requestVars => [Next]_vars
<1> SUFFICES ASSUME CallTypeOK, [RequestNext]_requestVars PROVE [Next]_vars
  OBVIOUS
<1>1. CASE OtherSteps
  BY <1>1 DEF OtherSteps, Next
<1>2. ASSUME NEW p \in Handler, Unkeyed(p) PROVE Next
  <2>1. Api(p)
    BY <1>2 DEF Unkeyed, Api, ApiStep, ApiStart
  <2>2. QED
    BY <2>1 DEF Next
<1>3. ASSUME NEW p \in Handler, CallStep(p) PROVE [Next]_vars
  BY <1>3, CallStepIsApi DEF Next
<1>4. CASE UNCHANGED requestVars
  BY <1>4 DEF requestVars
<1>5. QED
  BY <1>1, <1>2, <1>3, <1>4 DEF RequestNext

LEMMA InitCallType == RequestInit => CallTypeOK
BY DEF RequestInit, CallInit, CallTypeOK

(* Wrapping the requests in keys adds nothing to what they do to the consents:
   Requests implements Lifecycle. *)
THEOREM RequestsImplementLifecycle == RequestSpec => Spec
<1>1. RequestInit => Init
  BY DEF RequestInit
<1>2. QED
  BY <1>1, InitCallType, NextCallType, RequestStepIsLifecycle, PTL DEF RequestSpec, Spec

(* Each table, row, handler and call keeps its type. *)
THEOREM RequestTypeCorrect == RequestSpec => []RequestTypeOK
<1>1. RequestSpec => []CallTypeOK
  BY InitCallType, NextCallType, PTL DEF RequestSpec
<1>2. QED
  BY <1>1, RequestsImplementLifecycle, TypeCorrect, PTL DEF RequestTypeOK

-----------------------------------------------------------------------------
(* Reservations: holds(p) and the row of the key move together. *)

Reserved == ReservationExclusive /\ ReservationPending

LEMMA SameKeys ==
  ASSUME Reserved, NEW p \in Handler, OtherCalls(p), UNCHANGED keys,
         holds(p)' => holds(p) /\ calls'[p].idem = calls[p].idem
  PROVE  Reserved'
BY DEF Reserved, ReservationExclusive, ReservationPending, OtherCalls, holds, consents, idemOf

LEMMA ReleasedKey ==
  ASSUME CallTypeOK, Reserved, NEW p \in Handler, OtherCalls(p), ~holds(p)',
         calls[p].step \in {"put", "release"}, NEW to,
         keys' = [keys EXCEPT ![idemOf(p)] = to]
  PROVE  Reserved'
<1>1. ASSUME NEW q \in Handler, q # p, holds(q)
      PROVE  idemOf(q) # idemOf(p)
  BY <1>1 DEF Reserved, ReservationExclusive, holds, consents, idemOf
<1>2. ASSUME NEW q \in Handler, holds(q)'
      PROVE  q # p /\ holds(q) /\ idemOf(q)' = idemOf(q)
  BY <1>2 DEF OtherCalls, holds, consents, idemOf
<1>3. ReservationExclusive'
  BY <1>2 DEF Reserved, ReservationExclusive
<1>4. ASSUME NEW q \in Handler, holds(q)' PROVE keys'[idemOf(q)'] = "pending"
  <2>1. q # p /\ holds(q) /\ idemOf(q)' = idemOf(q) /\ idemOf(q) # idemOf(p)
    BY <1>1, <1>2, <1>4
  <2>2. keys[idemOf(q)] = "pending" /\ idemOf(q) \in IdemKey
    BY <2>1, CallInFlight DEF Reserved, ReservationPending, holds, calling, NoCall
  <2>3. QED
    BY <2>1, <2>2 DEF CallTypeOK
<1>5. QED
  BY <1>3, <1>4 DEF Reserved, ReservationPending

LEMMA NewKey ==
  ASSUME CallTypeOK, Reserved, NEW p \in Handler, calls[p] \in Call, proceed(p, "begin"),
         keys[idemOf(p)] = "unused", keys' = [keys EXCEPT ![idemOf(p)] = "pending"]
  PROVE  Reserved'
<1>0. OtherCalls(p) /\ idemOf(p)' = idemOf(p) /\ idemOf(p) \in IdemKey
  BY ProceedEffect DEF idemOf, Call
<1>1. ASSUME NEW q \in Handler, q # p, holds(q)'
      PROVE  /\ holds(q) /\ idemOf(q)' = idemOf(q) /\ idemOf(q) # idemOf(p)
             /\ keys[idemOf(q)] = "pending" /\ idemOf(q) \in IdemKey
  <2>1. holds(q) /\ idemOf(q)' = idemOf(q)
    BY <1>0, <1>1 DEF OtherCalls, holds, consents, idemOf
  <2>2. keys[idemOf(q)] = "pending" /\ idemOf(q) \in IdemKey
    BY <2>1, CallInFlight DEF Reserved, ReservationPending, holds, calling, NoCall
  <2>3. QED
    BY <2>1, <2>2
<1>2. ReservationExclusive'
  BY <1>0, <1>1 DEF Reserved, ReservationExclusive
<1>3. ReservationPending'
  BY <1>0, <1>1 DEF ReservationPending, CallTypeOK
<1>4. QED
  BY <1>2, <1>3 DEF Reserved

LEMMA CallStepReserves ==
  ASSUME CallTypeOK, Reserved, NEW p \in Handler, CallStep(p)
  PROVE  Reserved'
<1> USE DEF NoCall
<1>1. ASSUME NEW i \in IdemKey, CallArrives(p, i) PROVE Reserved'
  <2>1. (OtherCalls(p) /\ ~holds(p)') \/ UNCHANGED calls
    BY <1>1 DEF CallArrives, OtherCalls, CallTypeOK, holds, consents
  <2>2. QED
    BY <1>1, <2>1, SameKeys DEF CallArrives, OtherCalls, holds, consents
<1>2. CASE CallReserve(p)
  <2>0. calls[p] \in Call
    BY <1>2, StepCalls, CallInFlight DEF CallReserve
  <2>1. CASE proceed(p, "wait") /\ UNCHANGED keys
    BY <2>0, <2>1, ProceedEffect, SameKeys DEF holds
  <2>2. QED
    BY <1>2, <2>0, <2>1, NewKey DEF CallReserve
<1>3. CASE CallBegin(p)
  <2>0. calls[p] \in Call
    BY <1>3, StepCalls, CallInFlight DEF CallBegin
  <2>1. QED
    BY <1>3, <2>0, ProceedEffect, SameKeys DEF CallBegin, inCall, holds, consents
<1>4. ASSUME calling(p), refuse(p), UNCHANGED keys,
             calls[p].step \in {"begin", "process", "put"}
      PROVE  Reserved'
  BY <1>4, CallInFlight, RefuseEffect, SameKeys DEF holds, consents
<1>5. CASE CallProcess(p)
  <2>0. calling(p) /\ calls[p] \in Call /\ calls[p].step = "process"
    BY <1>5, StepCalls, CallInFlight DEF CallProcess, inCall
  <2>1. CASE UNCHANGED calls
    BY <1>5, <2>1, SameKeys DEF CallProcess, OtherCalls, holds, consents
  <2>2. CASE proceed(p, "put")
    BY <1>5, <2>0, <2>2, ProceedEffect, SameKeys DEF CallProcess, holds, consents
  <2>3. QED
    BY <1>4, <1>5, <2>0, <2>1, <2>2 DEF CallProcess
<1>6. ASSUME hangUp(p), calls[p].step \in {"put", "release"}, NEW to,
             keys' = [keys EXCEPT ![idemOf(p)] = to]
      PROVE  Reserved'
  <2>1. OtherCalls(p) /\ ~holds(p)'
    BY <1>6, HangUpEffect DEF holds
  <2>2. QED
    BY <1>6, <2>1, ReleasedKey
<1>7. CASE CallPut(p) \/ CallRelease(p)
  BY <1>6, <1>7 DEF CallPut, CallRelease, inCall
<1>8. CASE CallPoll(p)
  <2>0. calls[p].step = "wait"
    BY <1>8 DEF CallPoll, inCall
  <2>1. OtherCalls(p) /\ (calls'[p] = NoCall \/ calls'[p].step = "wait")
    BY <1>8, <2>0, StepCalls, CallInFlight, HangUpEffect
    DEF CallPoll, CallTypeOK, OtherCalls, Call
  <2>2. QED
    BY <1>8, <2>1, SameKeys DEF CallPoll, holds
<1>9. CASE CallRefused(p) \/ ProcessFails(p) \/ PutFails(p)
  BY <1>4, <1>9, StepCalls DEF CallRefused, ProcessFails, PutFails, inCall
<1>10. CASE ProcessDies(p) \/ CallDies(p)
  BY <1>10, HangUpEffect, SameKeys DEF ProcessDies, CallDies, holds
<1>11. QED
  BY <1>1, <1>2, <1>3, <1>5, <1>7, <1>8, <1>9, <1>10 DEF CallStep, CallProgress

LEMMA NextReserves == CallTypeOK /\ Reserved /\ [RequestNext]_requestVars => Reserved'
<1> SUFFICES ASSUME CallTypeOK, Reserved, [RequestNext]_requestVars PROVE Reserved'
  OBVIOUS
<1>1. CASE UNCHANGED callVars
  BY <1>1
  DEF callVars, Reserved, ReservationExclusive, ReservationPending, holds, consents, idemOf
<1>2. QED
  BY <1>1, CallStepReserves DEF RequestNext, OtherSteps, Unkeyed, requestVars

LEMMA InitReserves == RequestInit => Reserved
BY DEF RequestInit, CallInit, NoCall, Reserved, ReservationExclusive, ReservationPending, holds

(* No two requests ever process the same Idempotency-Key of a consent. *)
THEOREM OneHolder == RequestSpec => []ReservationExclusive
<1>1. RequestSpec => []CallTypeOK
  BY RequestTypeCorrect, PTL DEF RequestTypeOK
<1>2. QED
  BY <1>1, InitReserves, NextReserves, PTL DEF RequestSpec, Reserved

-----------------------------------------------------------------------------
(* Evidence grows, and of the objections racing for a row one is recorded. *)

LEMMA EvidenceGrows ==
  [Next]_vars => acceptances \subseteq acceptances' /\ objections \subseteq objections'
<1> USE DEF storeVars, contextVars, recordVars, sweepContext, evidenceVars,
            appendAcceptance, appendObjection
<1> SUFFICES ASSUME [Next]_vars
             PROVE  acceptances \subseteq acceptances' /\ objections \subseteq objections'
  OBVIOUS
<1>1. ASSUME NEW p \in Handler, Api(p)
      PROVE  acceptances \subseteq acceptances' /\ objections \subseteq objections'
  BY <1>1 DEF Api, ApiStep, ApiStart, ApiProgress, AcceptStart, AcceptRead, AcceptWrite,
    RecordRead, RecordCreate, RecordWrite, AcceptanceAppend, ObjectRead, ObjectWrite,
    ObjectionAppend, NotifyRead, NotifyWrite, HandlerDies
<1>2. ASSUME NEW s \in Sweeper, Sweep(s)
      PROVE  acceptances \subseteq acceptances' /\ objections \subseteq objections'
  BY <1>2 DEF Sweep, SweepStep, SweepProgress, SweepHandle, SweepFind, SweepSkip, SweepExpire,
    SweepTacit, SweepAppend, SweepEntryFails, SweepDies
<1>3. ASSUME NEW a \in Publisher, Publish(a)
      PROVE  acceptances \subseteq acceptances' /\ objections \subseteq objections'
  BY <1>3 DEF Publish, PublishStep, PublishProgress, PublishRead, PublishSave, PublishSiblings,
    PublishRetire, PublishFindOpen, PublishSupersede, PublishTargets, PublishRollout,
    PublishRefused, PublishReturn, PublishDies
<1>4. CASE Clock \/ UNCHANGED vars
  BY <1>4 DEF Clock, Tick, vars
<1>5. QED
  BY <1>1, <1>2, <1>3, <1>4 DEF Next

LEMMA StaysEvident ==
  ASSUME [Next]_vars, NEW i, evident(i)
  PROVE  evident(i)'
BY EvidenceGrows DEF evident, accepted, objected

LEMMA ApiRequests ==
  ASSUME ApiTypeOK, NEW p \in Handler, ApiStep(p)
  PROVE  OtherRequests(p)
<1> USE DEF ApiTypeOK, OtherRequests, finish, goto, start
<1>1. CASE ApiStart(p)
  BY <1>1 DEF ApiStart, AcceptStart, ObjectRead, NotifyRead, RecordRead
<1>2. CASE AcceptRead(p) \/ AcceptWrite(p) \/ AcceptanceAppend(p)
  BY <1>2 DEF AcceptRead, AcceptWrite, AcceptanceAppend
<1>3. CASE RecordCreate(p) \/ RecordWrite(p)
  BY <1>3 DEF RecordCreate, RecordWrite
<1>4. CASE ObjectWrite(p) \/ ObjectionAppend(p) \/ NotifyWrite(p) \/ HandlerDies(p)
  BY <1>4 DEF ObjectWrite, ObjectionAppend, NotifyWrite, HandlerDies
<1>5. QED
  BY <1>1, <1>2, <1>3, <1>4 DEF ApiStep, ApiProgress

(* But for ObjectWrite no step leaves an objection to be recorded. *)
LEMMA NoObjectionBegun ==
  ASSUME ApiTypeOK, NEW p \in Handler, ApiStep(p), ~ObjectWrite(p)
  PROVE  requests'[p].step # "appendObjection"
<1>1. CASE finish(p)
  BY <1>1, FinishEffect DEF Idle
<1>2. CASE ApiStart(p)
  <2>1. ASSUME NEW s, s # "appendObjection",
               \E c, v, r, m : start(p, s, c, v, r, m)
        PROVE  requests'[p].step # "appendObjection"
    BY <2>1, StartEffect
  <2>2. ASSUME NEW c \in Customer, NEW v \in Version, NEW m \in GivenMethod,
               RecordRead(p, c, v, m)
        PROVE  requests'[p].step # "appendObjection"
    BY <2>1, <2>2 DEF RecordRead
  <2>3. ASSUME NEW c \in Customer, NEW v \in Version,
               AcceptStart(p, c, v) \/ ObjectRead(p, c, v) \/ NotifyRead(p, c, v)
        PROVE  requests'[p].step # "appendObjection"
    BY <2>1, <2>3 DEF AcceptStart, ObjectRead, NotifyRead
  <2>4. QED
    BY <1>2, <2>2, <2>3 DEF ApiStart
<1>3. CASE AcceptRead(p)
  <2>1. requests[p] \in Request
    BY <1>3, RequestInFlight DEF AcceptRead, Step
  <2>2. QED
    BY <1>1, <1>3, <2>1, GotoWithRowEffect DEF AcceptRead
<1>4. CASE RecordCreate(p)
  <2>1. requests[p] \in Request
    BY <1>4, RequestInFlight DEF RecordCreate, Step
  <2>2. QED
    BY <1>1, <1>4, <2>1 DEF RecordCreate, ApiTypeOK, Request
<1>5. CASE AcceptWrite(p) \/ RecordWrite(p)
  <2>1. requests[p] \in Request
    BY <1>5, RequestInFlight DEF AcceptWrite, RecordWrite, Step
  <2>2. CASE goto(p, "appendAcceptance")
    BY <2>1, <2>2, GotoEffect
  <2>3. QED
    BY <1>1, <1>5, <2>2 DEF AcceptWrite, RecordWrite
<1>6. QED
  BY <1>1, <1>2, <1>3, <1>4, <1>5
  DEF ApiStep, ApiProgress, AcceptanceAppend, ObjectionAppend, NotifyWrite, HandlerDies

LEMMA NextOneObjection == IInv /\ OneObjectionWins /\ [Next]_vars => OneObjectionWins'
<1> SUFFICES ASSUME IInv, OneObjectionWins, [Next]_vars PROVE OneObjectionWins'
  OBVIOUS
<1> USE DEF storeVars, contextVars, recordVars, sweepContext, evidenceVars
<1>0. ApiTypeOK /\ ObjectionHoldsRow
  BY DEF IInv, TypeOK
<1>1. CASE UNCHANGED <<requests, objections>>
  BY <1>1 DEF OneObjectionWins, at, objected
<1>2. ASSUME NEW p \in Handler, ApiStep(p), ~ObjectWrite(p), ~ObjectionAppend(p)
      PROVE  OneObjectionWins'
  <2>1. OtherRequests(p) /\ requests'[p].step # "appendObjection"
    BY <1>0, <1>2, ApiRequests, NoObjectionBegun
  <2>2. UNCHANGED objections
    BY <1>2 DEF ApiStep, ApiStart, ApiProgress, AcceptStart, AcceptRead, AcceptWrite,
      RecordRead, RecordCreate, RecordWrite, AcceptanceAppend, ObjectRead, NotifyRead,
      NotifyWrite, HandlerDies
  <2>3. QED
    BY <2>1, <2>2 DEF OneObjectionWins, OtherRequests, at, objected
<1>3. ASSUME NEW p \in Handler, ObjectWrite(p) PROVE OneObjectionWins'
  <2> DEFINE c == requests[p].customer
             v == requests[p].version
  <2>0. requests[p] \in Request /\ c \in Customer /\ v \in Version
    BY <1>0, <1>3, RequestInFlight DEF ObjectWrite, Step, Request
  <2>1. UNCHANGED objections
    BY <1>3 DEF ObjectWrite
  <2>2. CASE finish(p)
    <3>1. OtherRequests(p) /\ requests'[p].step # "appendObjection"
      BY <1>0, <2>2, FinishEffect DEF Idle
    <3>2. QED
      BY <2>1, <3>1 DEF OneObjectionWins, OtherRequests, at, objected
  <2>3. CASE inState(c, v, "NOTIFIED") /\ goto(p, "appendObjection")
    <3>1. ~objected(c, v) /\ ~objectionPending(c, v)
      BY <1>0, <2>0, <2>3 DEF ObjectionHoldsRow, inState, Settled
    <3>2. /\ OtherRequests(p)
          /\ requests'[p].customer = c /\ requests'[p].version = v
      BY <1>0, <2>0, <2>3, GotoEffect
    <3>3. QED
      BY <2>1, <3>1, <3>2 DEF OneObjectionWins, OtherRequests, at, objected, objectionPending
  <2>4. QED
    BY <1>3, <2>2, <2>3 DEF ObjectWrite
<1>4. ASSUME NEW p \in Handler, ObjectionAppend(p) PROVE OneObjectionWins'
  <2> DEFINE c == requests[p].customer
             v == requests[p].version
  <2>1. OtherRequests(p) /\ requests'[p].step # "appendObjection"
    BY <1>0, <1>4, FinishEffect DEF ObjectionAppend, Idle
  <2>2. objections' = objections \cup {[customer |-> c, version |-> v, objectedAt |-> now]}
    BY <1>4 DEF ObjectionAppend, appendObjection
  <2>3. ASSUME NEW q \in Handler, at(q, "appendObjection")'
        PROVE  /\ q # p /\ requests'[q] = requests[q]
               /\ at(q, "appendObjection")
               /\ ~(requests[q].customer = c /\ requests[q].version = v)
    BY <1>4, <2>1, <2>3 DEF OtherRequests, at, OneObjectionWins, ObjectionAppend
  <2>4. ASSUME NEW q \in Handler, at(q, "appendObjection")'
        PROVE  ~objected(requests[q].customer, requests[q].version)'
    <3>1. ~objected(requests[q].customer, requests[q].version)
      BY <2>3, <2>4 DEF OneObjectionWins
    <3>2. QED
      BY <2>2, <2>3, <2>4, <3>1 DEF objected
  <2>5. QED
    BY <2>3, <2>4 DEF OneObjectionWins, at
<1>5. ASSUME NEW p \in Handler, Api(p) PROVE OneObjectionWins'
  BY <1>2, <1>3, <1>4, <1>5 DEF Api
<1>6. ASSUME NEW s \in Sweeper, Sweep(s) PROVE UNCHANGED <<requests, objections>>
  BY <1>6 DEF Sweep, SweepStep, SweepProgress, SweepHandle, SweepFind, SweepSkip, SweepExpire,
    SweepTacit, SweepAppend, SweepEntryFails, SweepDies
<1>7. ASSUME NEW a \in Publisher, Publish(a) PROVE UNCHANGED <<requests, objections>>
  BY <1>7 DEF Publish, PublishStep, PublishProgress, PublishRead, PublishSave, PublishSiblings,
    PublishRetire, PublishFindOpen, PublishSupersede, PublishTargets, PublishRollout,
    PublishRefused, PublishReturn, PublishDies
<1>8. CASE Clock \/ UNCHANGED vars
  BY <1>1, <1>8 DEF Clock, Tick, vars
<1>9. QED
  BY <1>1, <1>5, <1>6, <1>7, <1>8 DEF Next

-----------------------------------------------------------------------------
(* Effects: what the processing of a call comes to. *)

Steps(p) == IF consents(p) THEN {"acceptRead", "acceptWrite", "appendAcceptance"}
                           ELSE {"objectWrite", "appendObjection"}

Matches(p) ==
  /\ requests[p] # Idle
  /\ requests[p].customer = customerOf(p)
  /\ requests[p].version = versionOf(p)
  /\ requests[p].step \in Steps(p)

CallFits(p) == /\ inCall(p, "put") => effects[idemOf(p)] = 1
               /\ inCall(p, "process") => Matches(p)

LEMMA MatchesParts ==
  /\ CallMatches <=> \A p \in Handler : CallFits(p)
  /\ CallMatches' <=> \A p \in Handler : CallFits(p)'
BY DEF CallMatches, CallFits, Matches, Steps

LEMMA ProcessGoesOn ==
  ASSUME ApiTypeOK, NEW p \in Handler, ApiProgress(p), requests[p].step \in Steps(p)
  PROVE  \/ requests'[p] = Idle
         \/ /\ requests'[p] # Idle
            /\ requests'[p].customer = requests[p].customer
            /\ requests'[p].version = requests[p].version
            /\ requests'[p].step \in Steps(p)
            /\ ~records(p)
<1>0. requests[p] \in Request
  BY DEF ApiTypeOK, Steps, Idle
<1> DEFINE Moved(s) == /\ requests'[p] # Idle
                       /\ requests'[p].customer = requests[p].customer
                       /\ requests'[p].version = requests[p].version
                       /\ requests'[p].step = s
<1>1. ASSUME NEW s, s # "idle", goto(p, s) PROVE Moved(s)
  BY <1>0, <1>1, GotoEffect DEF Idle
<1>2. CASE finish(p)
  BY <1>2, FinishEffect
<1>3. CASE AcceptRead(p)
  <2>1. CASE requests' = [requests EXCEPT ![p].step = "acceptWrite",
               ![p].row = states[requests[p].customer][requests[p].version]]
    BY <1>0, <1>3, <2>1 DEF AcceptRead, ApiTypeOK, Request, Idle, at, records, Steps
  <2>2. QED
    BY <1>2, <1>3, <2>1 DEF AcceptRead
<1>4. CASE AcceptWrite(p)
  <2>1. CASE goto(p, "appendAcceptance")
    <3>1. Moved("appendAcceptance")
      BY <1>1, <2>1
    <3>2. QED
      BY <1>4, <3>1 DEF AcceptWrite, at, records, Steps
  <2>2. QED
    BY <1>2, <1>4, <2>1 DEF AcceptWrite
<1>5. CASE ObjectWrite(p)
  <2>1. CASE goto(p, "appendObjection")
    <3>1. Moved("appendObjection")
      BY <1>1, <2>1
    <3>2. QED
      BY <1>5, <3>1 DEF ObjectWrite, at, records, Steps
  <2>2. QED
    BY <1>2, <1>5, <2>1 DEF ObjectWrite
<1>6. CASE AcceptanceAppend(p) \/ ObjectionAppend(p)
  BY <1>2, <1>6 DEF AcceptanceAppend, ObjectionAppend
<1>7. QED
  BY <1>3, <1>4, <1>5, <1>6
  DEF ApiProgress, RecordCreate, RecordWrite, NotifyWrite, at, Steps

LEMMA AppendAccepts ==
  ASSUME NEW c, NEW v, NEW m, ~accepted(c, v), appendAcceptance(c, v, m)
  PROVE  accepted(c, v)'
<1> DEFINE new == [customer |-> c, version |-> v, method |-> m, acceptedAt |-> now]
<1>1. acceptances' = acceptances \cup {new} /\ new.customer = c /\ new.version = v
  BY DEF appendAcceptance
<1> HIDE DEF new
<1>2. QED
  BY <1>1 DEF accepted

LEMMA AppendObjects ==
  ASSUME NEW c, NEW v, appendObjection(c, v)
  PROVE  objected(c, v)'
<1> DEFINE new == [customer |-> c, version |-> v, objectedAt |-> now]
<1>1. objections' = objections \cup {new} /\ new.customer = c /\ new.version = v
  BY DEF appendObjection
<1> HIDE DEF new
<1>2. QED
  BY <1>1 DEF objected

(* A call writes a record for its key only while there is none, and then there
   is one. *)
LEMMA FirstRecord ==
  ASSUME CallTypeOK, EffectEvident, CallMatches, OneObjectionWins, NEW p \in Handler,
         inCall(p, "process"), ApiProgress(p), records(p),
         NEW i \in IdemKey, i = idemOf(p)
  PROVE  effects[i] = 0 /\ evident(i)'
<1> DEFINE c == i[2]
           v == KeyVersion[i[3]]
<1>2. /\ requests[p].customer = c /\ requests[p].version = v
      /\ requests[p].step \in Steps(p)
      /\ consents(p) <=> i[1] = "acceptance"
  BY MatchesParts DEF CallFits, Matches, customerOf, versionOf, idemOf, consents
<1>3. CASE consents(p)
  <2>1. at(p, "appendAcceptance") /\ ~accepted(c, v)
    BY <1>2, <1>3 DEF records, at, Steps
  <2>2. AcceptanceAppend(p)
    BY <2>1 DEF ApiProgress, AcceptRead, AcceptWrite, RecordCreate, RecordWrite, ObjectWrite,
      ObjectionAppend, NotifyWrite, at
  <2>3. accepted(c, v)'
    <3>1. appendAcceptance(c, v, requests[p].method)
      BY <1>2, <2>2 DEF AcceptanceAppend
    <3>2. QED
      BY <2>1, <3>1, AppendAccepts
  <2>4. evident(i) = accepted(c, v) /\ evident(i)' = accepted(c, v)'
    BY <1>2, <1>3 DEF evident
  <2>5. QED
    BY <2>1, <2>3, <2>4 DEF EffectEvident
<1>4. CASE ~consents(p)
  <2>1. at(p, "appendObjection")
    BY <1>2, <1>4 DEF records, at, Steps
  <2>2. ObjectionAppend(p) /\ ~objected(c, v)
    BY <1>2, <2>1 DEF ApiProgress, AcceptRead, AcceptWrite, RecordCreate, RecordWrite, ObjectWrite,
      AcceptanceAppend, NotifyWrite, at, OneObjectionWins
  <2>3. objected(c, v)'
    <3>1. appendObjection(c, v)
      BY <1>2, <2>2 DEF ObjectionAppend
    <3>2. QED
      BY <3>1, AppendObjects
  <2>4. evident(i) = objected(c, v) /\ evident(i)' = objected(c, v)'
    BY <1>2, <1>4 DEF evident
  <2>5. QED
    BY <2>2, <2>3, <2>4 DEF EffectEvident
<1>5. QED
  BY <1>3, <1>4

(* A step that leaves the effects, the keys and the replies alone. *)
LEMMA SameEffects ==
  ASSUME EffectEvident, [Next]_vars, UNCHANGED <<effects, keys, replies>>
  PROVE  EffectEvident'
BY StaysEvident DEF EffectEvident

(* The other calls are not disturbed by a step of p's that takes back no
   effect. *)
LEMMA OthersFit ==
  ASSUME CallTypeOK, CallMatches, NEW p \in Handler, OtherCalls(p), OtherRequests(p),
         \A i \in IdemKey : effects[i] = 1 => effects'[i] = 1, CallFits(p)'
  PROVE  CallMatches'
<1>1. ASSUME NEW q \in Handler, q # p PROVE CallFits(q)'
  <2>1. CallFits(q) /\ calls'[q] = calls[q] /\ requests'[q] = requests[q]
    BY <1>1, MatchesParts DEF OtherCalls, OtherRequests
  <2>2. inCall(q, "put") => idemOf(q) \in IdemKey
    BY StepCalls, CallInFlight
  <2>3. QED
    BY <2>1, <2>2
    DEF CallFits, Matches, Steps, inCall, idemOf, customerOf, versionOf, consents
<1>2. QED
  BY <1>1, MatchesParts

(* A call that is neither processed nor to be answered fits. *)
LEMMA ElsewhereFits ==
  ASSUME NEW p \in Handler, calls'[p].step \notin {"process", "put"}
  PROVE  CallFits(p)'
BY DEF CallFits, inCall

LEMMA CallStepKeeps ==
  ASSUME IInv, KeyInv, NEW p \in Handler, CallStep(p), [Next]_vars
  PROVE  EffectEvident' /\ CallMatches'
<1> USE DEF NoCall
<1>0. /\ ApiTypeOK /\ CallTypeOK /\ EffectEvident /\ CallMatches /\ OneObjectionWins
      /\ CallFits(p)
  BY MatchesParts DEF IInv, TypeOK, KeyInv
<1>1. ASSUME UNCHANGED <<effects, keys, replies>>, OtherCalls(p), OtherRequests(p), CallFits(p)'
      PROVE  EffectEvident' /\ CallMatches'
  BY <1>0, <1>1, SameEffects, OthersFit
<1>2. ASSUME UNCHANGED requests PROVE OtherRequests(p)
  BY <1>2 DEF OtherRequests
<1>3. ASSUME NEW i \in IdemKey, CallArrives(p, i) PROVE EffectEvident' /\ CallMatches'
  <2>1. UNCHANGED <<vars, effects, keys>> /\ UNCHANGED requests
    BY <1>3 DEF CallArrives, vars
  <2>2. EffectEvident'
    BY <1>0, <1>3, <2>1, StaysEvident DEF EffectEvident, CallArrives, reply
  <2>3. UNCHANGED calls \/ (OtherCalls(p) /\ calls'[p].step \notin {"process", "put"})
    BY <1>0, <1>3 DEF CallArrives, CallTypeOK, OtherCalls
  <2>4. CallFits(p)' /\ OtherCalls(p)
    BY <1>0, <2>1, <2>3, ElsewhereFits DEF OtherCalls, CallFits, Matches, Steps, inCall, idemOf,
      customerOf, versionOf, consents
  <2>5. QED
    BY <1>0, <1>2, <2>1, <2>2, <2>4, OthersFit
<1>4. CASE CallReserve(p)
  <2>1. calls[p] \in Call /\ UNCHANGED <<vars, effects, replies>> /\ UNCHANGED requests
    BY <1>0, <1>4, StepCalls, CallInFlight DEF CallReserve, vars
  <2>2. OtherCalls(p) /\ CallFits(p)'
    BY <1>0, <1>4, <2>1, ProceedEffect, ElsewhereFits DEF CallReserve
  <2>3. \A i \in IdemKey : keys'[i] = "answered" => keys[i] = "answered"
    BY <1>0, <1>4 DEF CallReserve, CallTypeOK
  <2>4. EffectEvident'
    BY <1>0, <2>1, <2>3, StaysEvident DEF EffectEvident
  <2>5. QED
    BY <1>0, <1>2, <2>1, <2>2, <2>4, OthersFit
<1>5. CASE CallBegin(p)
  <2> DEFINE c == customerOf(p)
             v == versionOf(p)
  <2>1. calls[p] \in Call /\ proceed(p, "process")
    BY <1>0, <1>5, StepCalls, CallInFlight DEF CallBegin
  <2>2. OtherCalls(p) /\ calls'[p].step = "process" /\ calls'[p].idem = calls[p].idem
    BY <1>0, <2>1, ProceedEffect
  <2>3. /\ OtherRequests(p) /\ requests'[p].customer = c /\ requests'[p].version = v
        /\ requests'[p].step = IF consents(p) THEN "acceptRead" ELSE "objectWrite"
    BY <1>0, <1>5, StartEffect DEF CallBegin, AcceptStart, ObjectRead
  <2>4. Matches(p)'
    BY <2>2, <2>3 DEF Matches, Steps, customerOf, versionOf, consents, Idle
  <2>5. CallFits(p)'
    BY <2>2, <2>4 DEF CallFits, inCall
  <2>6. QED
    BY <1>1, <1>5, <2>2, <2>3, <2>5 DEF CallBegin
<1>6. CASE CallProcess(p)
  <2> DEFINE i == idemOf(p)
  <2>1. /\ calls[p] \in Call /\ i \in IdemKey /\ inCall(p, "process") /\ Matches(p)
        /\ UNCHANGED <<keys, replies>> /\ ApiProgress(p)
    BY <1>0, <1>6, StepCalls, CallInFlight DEF CallProcess, CallFits
  <2>2. OtherRequests(p)
    BY <1>0, <2>1, ApiRequests DEF ApiStep
  <2>3. CASE records(p)
    <3>1. PICK j \in IdemKey : j = i
      BY <2>1
    <3>2. effects[j] = 0 /\ evident(j)'
      BY <1>0, <2>1, <2>3, <3>1, FirstRecord
    <3>3. effects' = [effects EXCEPT ![j] = 1]
      BY <1>6, <2>3, <3>1, <3>2 DEF CallProcess
    <3>4. effects'[j] = 1 /\ \A k \in IdemKey : k # j => effects'[k] = effects[k]
      BY <1>0, <3>3 DEF CallTypeOK
    <3>5. EffectEvident'
      BY <1>0, <2>1, <3>2, <3>4, StaysEvident DEF EffectEvident
    <3>6. requests'[p] = Idle
      BY <1>0, <2>1, <2>3, ProcessGoesOn DEF Matches
    <3>7. OtherCalls(p) /\ calls'[p].step = "put" /\ calls'[p].idem = calls[p].idem
      BY <1>0, <1>6, <2>1, <2>3, <3>6, ProceedEffect DEF CallProcess
    <3>8. CallFits(p)'
      BY <3>1, <3>4, <3>7 DEF CallFits, inCall, idemOf
    <3>9. QED
      BY <1>0, <2>2, <3>4, <3>5, <3>7, <3>8, OthersFit
  <2>4. CASE ~records(p)
    <3>1. UNCHANGED effects
      BY <1>6, <2>4 DEF CallProcess
    <3>2. CASE requests'[p] = Idle
      <4>1. OtherCalls(p) /\ calls'[p].step \notin {"process", "put"}
        BY <1>0, <1>6, <2>1, <2>4, <3>2, RefuseEffect DEF CallProcess
      <4>2. QED
        BY <1>1, <2>1, <2>2, <3>1, <4>1, ElsewhereFits
    <3>3. CASE requests'[p] # Idle
      <4>1. UNCHANGED calls
        BY <1>6, <3>3 DEF CallProcess
      <4>2. Matches(p)'
        BY <1>0, <2>1, <3>3, <4>1, ProcessGoesOn
        DEF Matches, Steps, customerOf, versionOf, consents
      <4>3. CallFits(p)' /\ OtherCalls(p)
        BY <2>1, <4>1, <4>2 DEF CallFits, inCall, OtherCalls
      <4>4. QED
        BY <1>1, <2>1, <2>2, <3>1, <4>3
    <3>4. QED
      BY <3>2, <3>3
  <2>5. QED
    BY <2>3, <2>4
<1>7. CASE CallPut(p)
  <2>1. idemOf(p) \in IdemKey /\ effects[idemOf(p)] = 1
    BY <1>0, <1>7, StepCalls, CallInFlight DEF CallPut, CallFits
  <2>2. /\ UNCHANGED <<vars, effects>> /\ UNCHANGED requests
        /\ OtherCalls(p) /\ calls'[p] = NoCall
    BY <1>0, <1>7, HangUpEffect DEF CallPut, vars
  <2>3. \A i \in IdemKey :
          keys'[i] = "answered" \/ i \in replies' => effects[i] = 1
    BY <1>0, <1>7, <2>1 DEF CallPut, reply, EffectEvident, CallTypeOK
  <2>4. EffectEvident'
    BY <1>0, <2>2, <2>3, StaysEvident DEF EffectEvident
  <2>5. QED
    BY <1>0, <1>2, <2>2, <2>4, ElsewhereFits, OthersFit
<1>8. CASE CallRelease(p)
  <2>1. /\ UNCHANGED <<vars, effects, replies>> /\ UNCHANGED requests
        /\ OtherCalls(p) /\ calls'[p] = NoCall
    BY <1>0, <1>8, HangUpEffect DEF CallRelease, vars
  <2>2. \A i \in IdemKey : keys'[i] = "answered" => keys[i] = "answered"
    BY <1>0, <1>8 DEF CallRelease, CallTypeOK
  <2>3. EffectEvident'
    BY <1>0, <2>1, <2>2, StaysEvident DEF EffectEvident
  <2>4. QED
    BY <1>0, <1>2, <2>1, <2>3, ElsewhereFits, OthersFit
<1>9. CASE CallPoll(p)
  <2>1. /\ calls[p] \in Call /\ calls[p].step = "wait"
        /\ UNCHANGED <<vars, keys, effects>> /\ UNCHANGED requests
    BY <1>0, <1>9, StepCalls, CallInFlight DEF CallPoll, vars, inCall
  <2>2. OtherCalls(p) /\ (calls'[p] = NoCall \/ calls'[p].step = "wait")
    BY <1>0, <1>9, <2>1, HangUpEffect DEF CallPoll, CallTypeOK, OtherCalls, Call
  <2>3. EffectEvident'
    BY <1>0, <1>9, <2>1, StaysEvident DEF CallPoll, reply, EffectEvident
  <2>4. CallFits(p)'
    BY <2>2, ElsewhereFits
  <2>5. QED
    BY <1>0, <1>2, <2>1, <2>2, <2>3, <2>4, OthersFit
<1>10. ASSUME calling(p), refuse(p)
       PROVE  OtherCalls(p) /\ CallFits(p)'
  <2>1. OtherCalls(p) /\ calls'[p].step \notin {"process", "put"}
    BY <1>0, <1>10, CallInFlight, RefuseEffect
  <2>2. QED
    BY <2>1, ElsewhereFits
<1>11. CASE CallRefused(p) \/ PutFails(p)
  <2>1. UNCHANGED <<effects, keys, replies>> /\ UNCHANGED requests
    BY <1>11 DEF CallRefused, PutFails, vars
  <2>2. QED
    BY <1>1, <1>2, <1>10, <1>11, <2>1, StepCalls DEF CallRefused, PutFails
<1>12. CASE ProcessFails(p)
  <2>1. OtherRequests(p)
    BY <1>0, <1>12, ApiRequests DEF ProcessFails, ApiStep
  <2>2. QED
    BY <1>1, <1>10, <1>12, <2>1, StepCalls DEF ProcessFails
<1>13. CASE ProcessDies(p) \/ CallDies(p)
  <2>1. OtherCalls(p) /\ CallFits(p)'
    BY <1>0, <1>13, HangUpEffect, ElsewhereFits DEF ProcessDies, CallDies
  <2>2. OtherRequests(p)
    BY <1>0, <1>2, <1>13, ApiRequests DEF ProcessDies, CallDies, ApiStep, vars
  <2>3. QED
    BY <1>1, <1>13, <2>1, <2>2 DEF ProcessDies, CallDies
<1>14. QED
  BY <1>3, <1>4, <1>5, <1>6, <1>7, <1>8, <1>9, <1>11, <1>12, <1>13 DEF CallStep, CallProgress

LEMMA UnkeyedKeeps ==
  ASSUME IInv, KeyInv, NEW p \in Handler, Unkeyed(p), [Next]_vars
  PROVE  EffectEvident' /\ CallMatches'
<1>1. /\ ApiTypeOK /\ CallTypeOK /\ EffectEvident /\ CallMatches
      /\ UNCHANGED <<calls, effects, keys, replies>>
  BY DEF IInv, TypeOK, KeyInv, Unkeyed, callVars
<1>2. OtherRequests(p)
  BY <1>1, ApiRequests DEF Unkeyed, ApiStep, ApiStart
<1>3. CallFits(p)' /\ OtherCalls(p)
  BY <1>1, ElsewhereFits DEF OtherCalls, Unkeyed, calling, NoCall
<1>4. QED
  BY <1>1, <1>2, <1>3, SameEffects, OthersFit

LEMMA NextKeyInv == IInv /\ KeyInv /\ [RequestNext]_requestVars => KeyInv'
<1> SUFFICES ASSUME IInv, KeyInv, [RequestNext]_requestVars PROVE KeyInv'
  OBVIOUS
<1>0. CallTypeOK /\ Reserved /\ EffectEvident /\ CallMatches /\ OneObjectionWins
  BY DEF KeyInv, Reserved
<1>1. [Next]_vars
  BY <1>0, RequestStepIsLifecycle
<1>2. CallTypeOK' /\ Reserved' /\ OneObjectionWins'
  BY <1>0, <1>1, NextCallType, NextReserves, NextOneObjection
<1>3. CASE UNCHANGED requests /\ UNCHANGED callVars
  <2>1. CallMatches'
    BY <1>0, <1>3
    DEF callVars, CallMatches, inCall, idemOf, consents, customerOf, versionOf
  <2>2. QED
    BY <1>0, <1>1, <1>2, <1>3, <2>1, SameEffects DEF callVars, KeyInv, Reserved
<1>4. CASE OtherSteps \/ UNCHANGED requestVars
  BY <1>3, <1>4 DEF OtherSteps, Clock, Sweep, Publish, requestVars, vars
<1>5. ASSUME NEW p \in Handler, Unkeyed(p) \/ CallStep(p) PROVE KeyInv'
  BY <1>1, <1>2, <1>5, UnkeyedKeeps, CallStepKeeps DEF KeyInv, Reserved
<1>6. QED
  BY <1>4, <1>5 DEF RequestNext

LEMMA InitKeyInv == RequestInit => KeyInv
<1> SUFFICES ASSUME RequestInit PROVE KeyInv
  OBVIOUS
<1>1. EffectEvident /\ CallMatches /\ OneObjectionWins
  BY DEF RequestInit, CallInit, Init, ApiInit, Idle, EffectEvident, CallMatches,
    OneObjectionWins, inCall, at, NoCall
<1>2. QED
  BY <1>1, InitCallType, InitReserves DEF KeyInv, Reserved

(* What the reservations, the evidence and the calls in flight have to do with
   one another. *)
THEOREM KeyInvariance == RequestSpec => []KeyInv
BY InitKeyInv, NextKeyInv, RequestsImplementLifecycle, Invariance, PTL DEF RequestSpec

-----------------------------------------------------------------------------
(* However often and however concurrently a request is retried under its key,
   and wherever its processing fails, its effect is recorded once at the most,
   and a 201 is sent only when it is. *)
THEOREM PromiseKept == RequestSpec => KeepsPromise
<1>1. RequestInit => Promise!PromiseInit
  BY DEF RequestInit, CallInit, Promise!PromiseInit
<1>2. KeyInv /\ KeyInv' /\ [RequestNext]_requestVars => [Promise!PromiseNext]_(Promise!promise)
  <2> SUFFICES ASSUME KeyInv, KeyInv', [RequestNext]_requestVars
               PROVE  [Promise!PromiseNext]_(Promise!promise)
    OBVIOUS
  <2>0. CallTypeOK /\ EffectEvident /\ EffectEvident' /\ CallTypeOK'
    BY DEF KeyInv
  <2>1. CASE UNCHANGED <<effects, replies>>
    BY <2>1 DEF Promise!promise
  <2>2. ASSUME NEW i \in IdemKey, reply(i), UNCHANGED effects
        PROVE  Promise!PromiseNext
    <3>1. effects[i] = 1
      BY <2>0, <2>2 DEF reply, EffectEvident
    <3>2. QED
      BY <2>2, <3>1 DEF reply, Promise!PromiseNext, Promise!Confirm
  <2>3. ASSUME NEW p \in Handler, CallProcess(p), records(p)
        PROVE  Promise!PromiseNext
    <3> DEFINE i == idemOf(p)
    <3>1. i \in IdemKey /\ effects' = [effects EXCEPT ![i] = @ + 1] /\ UNCHANGED replies
      BY <2>0, <2>3, StepCalls, CallInFlight DEF CallProcess
    <3> HIDE DEF i
    <3>2. effects'[i] = effects[i] + 1 /\ effects[i] \in Nat
      BY <2>0, <3>1 DEF CallTypeOK
    <3>3. effects[i] = 0
      BY <2>0, <3>1, <3>2 DEF EffectEvident
    <3>4. Promise!Do(i)
      BY <3>1, <3>3 DEF Promise!Do
    <3>5. QED
      BY <3>1, <3>4 DEF Promise!PromiseNext
  <2>4. ASSUME NEW p \in Handler, CallProcess(p), ~records(p)
        PROVE  UNCHANGED <<effects, replies>>
    BY <2>4 DEF CallProcess
  <2>5. ASSUME NEW p \in Handler, CallPut(p) \/ CallPoll(p)
        PROVE  Promise!PromiseNext \/ UNCHANGED <<effects, replies>>
    <3>1. idemOf(p) \in IdemKey
      BY <2>0, <2>5, StepCalls, CallInFlight DEF CallPut, CallPoll
    <3>2. QED
      BY <2>2, <2>5, <3>1 DEF CallPut, CallPoll
  <2>6. ASSUME NEW p \in Handler, CallStep(p), ~CallProcess(p), ~CallPut(p), ~CallPoll(p)
        PROVE  Promise!PromiseNext \/ UNCHANGED <<effects, replies>>
    BY <2>2, <2>6 DEF CallStep, CallProgress, CallArrives, CallReserve, CallBegin, CallRefused,
      CallRelease, ProcessFails, ProcessDies, PutFails, CallDies
  <2>7. CASE OtherSteps \/ UNCHANGED requestVars \/ \E p \in Handler : Unkeyed(p)
    BY <2>1, <2>7 DEF OtherSteps, Unkeyed, requestVars, callVars
  <2>8. QED
    BY <2>1, <2>3, <2>4, <2>5, <2>6, <2>7 DEF RequestNext
<1>3. QED
  BY <1>1, <1>2, KeyInvariance, PTL DEF RequestSpec, KeepsPromise, Promise!PromiseSpec

-----------------------------------------------------------------------------
(* A consent is not refused for its own effect. *)

(* A step that adds no effect, takes no response back and takes nobody off
   the way to its response. *)
LEMMA StaysFollowedUp ==
  ASSUME EffectFollowedUp, NEW p \in Handler, OtherCalls(p), callFaults' = 0 => callFaults = 0,
         inCall(p, "put") => calls'[p] = calls[p],
         \A i \in IdemKey : /\ effects'[i] = effects[i]
                            /\ keys[i] = "answered" => keys'[i] = "answered"
  PROVE  EffectFollowedUp'
<1>1. \A q \in Handler : inCall(q, "put") => inCall(q, "put")' /\ idemOf(q)' = idemOf(q)
  BY DEF OtherCalls, inCall, idemOf
<1>2. QED
  BY <1>1 DEF EffectFollowedUp

LEMMA CallStepFollowsUp ==
  ASSUME ApiTypeOK, CallTypeOK, EffectFollowedUp, NEW p \in Handler, CallStep(p)
  PROVE  EffectFollowedUp'
<1> USE DEF NoCall
<1>0. ASSUME NEW s \in {"reserve", "begin", "process", "put", "release", "wait"}, inCall(p, s)
      PROVE  calls[p] \in Call /\ idemOf(p) \in IdemKey
  BY <1>0, StepCalls, CallInFlight
<1>1. ASSUME NEW i \in IdemKey, CallArrives(p, i) PROVE EffectFollowedUp'
  <2>1. OtherCalls(p) /\ ~inCall(p, "put")
    BY <1>1 DEF CallArrives, OtherCalls, CallTypeOK, calling, inCall
  <2>2. QED
    BY <1>1, <2>1, StaysFollowedUp DEF CallArrives
<1>2. CASE CallReserve(p)
  <2>1. OtherCalls(p) /\ ~inCall(p, "put") /\ idemOf(p) \in IdemKey
    BY <1>0, <1>2, ProceedEffect DEF CallReserve, inCall
  <2>2. \A i \in IdemKey : keys[i] = "answered" => keys'[i] = "answered"
    BY <1>2, <2>1 DEF CallReserve, CallTypeOK
  <2>3. QED
    BY <1>2, <2>1, <2>2, StaysFollowedUp DEF CallReserve
<1>3. CASE CallBegin(p) \/ CallRefused(p) \/ CallPoll(p)
  <2>1. calls[p] \in Call /\ ~inCall(p, "put")
    BY <1>0, <1>3 DEF CallBegin, CallRefused, CallPoll, inCall
  <2>2. OtherCalls(p)
    BY <1>3, <2>1, ProceedEffect, RefuseEffect, HangUpEffect
    DEF CallBegin, CallRefused, CallPoll, CallTypeOK, OtherCalls
  <2>3. QED
    BY <1>3, <2>1, <2>2, StaysFollowedUp DEF CallBegin, CallRefused, CallPoll
<1>4. CASE CallProcess(p)
  <2>1. calls[p] \in Call /\ ~inCall(p, "put")
    BY <1>0, <1>4 DEF CallProcess, inCall
  <2>2. OtherCalls(p)
    BY <1>4, <2>1, ProceedEffect, RefuseEffect DEF CallProcess, OtherCalls
  <2>3. CASE ~records(p)
    BY <1>4, <2>1, <2>2, <2>3, StaysFollowedUp DEF CallProcess
  <2>4. CASE records(p)
    <3>1. finish(p)
      BY <1>4, <2>4 DEF CallProcess, records, ApiProgress, at, AcceptRead, AcceptWrite, RecordCreate,
        RecordWrite, AcceptanceAppend, ObjectWrite, ObjectionAppend, NotifyWrite
    <3>2. requests'[p] = Idle
      BY <3>1, FinishEffect
    <3>3. inCall(p, "put")' /\ idemOf(p)' = idemOf(p)
      BY <1>4, <2>1, <2>4, <3>2, ProceedEffect DEF CallProcess, inCall, idemOf
    <3>4. \A q \in Handler : inCall(q, "put") => inCall(q, "put")' /\ idemOf(q)' = idemOf(q)
      BY <2>1, <2>2 DEF OtherCalls, inCall, idemOf
    <3>5. \A i \in IdemKey : i # idemOf(p) => effects'[i] = effects[i]
      BY <1>4, <2>4 DEF CallProcess, CallTypeOK
    <3>6. QED
      BY <1>4, <3>3, <3>4, <3>5 DEF EffectFollowedUp, CallProcess
  <2>5. QED
    BY <2>3, <2>4
<1>5. CASE CallPut(p)
  <2> DEFINE i == idemOf(p)
  <2>1. i \in IdemKey /\ OtherCalls(p)
    BY <1>0, <1>5, HangUpEffect DEF CallPut
  <2>2. keys' = [keys EXCEPT ![i] = "answered"] /\ UNCHANGED <<effects, callFaults>>
    BY <1>5 DEF CallPut
  <2>3. \A q \in Handler : inCall(q, "put") /\ idemOf(q) # i =>
          inCall(q, "put")' /\ idemOf(q)' = idemOf(q)
    BY <2>1 DEF OtherCalls, inCall, idemOf
  <2>4. ASSUME NEW k \in IdemKey, callFaults' = 0, effects'[k] = 1
        PROVE  \/ keys'[k] = "answered"
               \/ \E q \in Handler : inCall(q, "put")' /\ idemOf(q)' = k
    <3>1. keys[k] = "answered" \/ \E q \in Handler : inCall(q, "put") /\ idemOf(q) = k
      BY <2>2, <2>4 DEF EffectFollowedUp
    <3>2. QED
      BY <2>1, <2>2, <2>3, <3>1 DEF CallTypeOK
  <2>5. QED
    BY <2>4 DEF EffectFollowedUp
<1>6. CASE CallRelease(p)
  <2>1. OtherCalls(p) /\ ~inCall(p, "put") /\ idemOf(p) \in IdemKey
    BY <1>0, <1>6, HangUpEffect DEF CallRelease, inCall
  <2>2. \A i \in IdemKey : keys[i] = "answered" => keys'[i] = "answered"
    BY <1>6, <2>1 DEF CallRelease, CallTypeOK
  <2>3. QED
    BY <1>6, <2>1, <2>2, StaysFollowedUp DEF CallRelease
<1>7. CASE ProcessFails(p) \/ ProcessDies(p)
  <2>1. calls[p] \in Call /\ ~inCall(p, "put")
    BY <1>0, <1>7 DEF ProcessFails, ProcessDies, inCall
  <2>2. OtherCalls(p)
    BY <1>7, <2>1, RefuseEffect, HangUpEffect DEF ProcessFails, ProcessDies
  <2>3. QED
    BY <1>7, <2>1, <2>2, StaysFollowedUp DEF ProcessFails, ProcessDies
<1>8. CASE PutFails(p) \/ CallDies(p)
  BY <1>8 DEF PutFails, CallDies, CallFault, CallTypeOK, EffectFollowedUp
<1>9. QED
  BY <1>1, <1>2, <1>3, <1>4, <1>5, <1>6, <1>7, <1>8 DEF CallStep, CallProgress

LEMMA NextFollowsUp ==
  RequestTypeOK /\ EffectFollowedUp /\ [RequestNext]_requestVars => EffectFollowedUp'
<1> SUFFICES ASSUME RequestTypeOK, EffectFollowedUp, [RequestNext]_requestVars
             PROVE  EffectFollowedUp'
  OBVIOUS
<1>1. CASE UNCHANGED callVars
  BY <1>1 DEF callVars, EffectFollowedUp, inCall, idemOf
<1>2. QED
  BY <1>1, CallStepFollowsUp
  DEF RequestTypeOK, TypeOK, RequestNext, OtherSteps, Unkeyed, requestVars

LEMMA ReleaseOfConsent ==
  ASSUME NEW p \in Handler, OtherCalls(p), OnlyConsentsRelease,
         \/ calls'[p].step # "release"
         \/ consents(p) /\ calls'[p].idem = calls[p].idem
  PROVE  OnlyConsentsRelease'
BY DEF OnlyConsentsRelease, OtherCalls, inCall, consents

LEMMA NextReleases ==
  CallTypeOK /\ OnlyConsentsRelease /\ [RequestNext]_requestVars => OnlyConsentsRelease'
<1> USE DEF NoCall
<1> SUFFICES ASSUME CallTypeOK, OnlyConsentsRelease, [RequestNext]_requestVars
             PROVE  OnlyConsentsRelease'
  OBVIOUS
<1>1. CASE UNCHANGED calls
  BY <1>1 DEF OnlyConsentsRelease, inCall, consents
<1>2. ASSUME NEW p \in Handler, CallStep(p), ~UNCHANGED calls PROVE OnlyConsentsRelease'
  <2>1. ASSUME calls[p] \in Call, refuse(p) PROVE OnlyConsentsRelease'
    BY <2>1, RefuseEffect, ReleaseOfConsent
  <2>2. ASSUME calls[p] \in Call, NEW s \in {"begin", "process", "put", "wait"}, proceed(p, s)
        PROVE  OnlyConsentsRelease'
    BY <2>2, ProceedEffect, ReleaseOfConsent
  <2>3. ASSUME hangUp(p) PROVE OnlyConsentsRelease'
    BY <2>3, HangUpEffect, ReleaseOfConsent
  <2>4. ASSUME NEW i \in IdemKey, CallArrives(p, i) PROVE OnlyConsentsRelease'
    <3>1. OtherCalls(p) /\ calls'[p].step # "release"
      BY <1>2, <2>4 DEF CallArrives, OtherCalls, CallTypeOK
    <3>2. QED
      BY <3>1, ReleaseOfConsent
  <2>5. CASE CallPoll(p)
    <3>1. OtherCalls(p) /\ calls'[p].step # "release"
      BY <1>2, <2>5, StepCalls, CallInFlight DEF CallPoll, hangUp, inCall, OtherCalls, CallTypeOK, Call
    <3>2. QED
      BY <3>1, ReleaseOfConsent
  <2>6. ASSUME calling(p) PROVE calls[p] \in Call
    BY <2>6, CallInFlight
  <2>7. CASE CallReserve(p) \/ CallBegin(p) \/ CallRefused(p) \/ CallPut(p) \/ CallRelease(p)
    <3>1. calls[p] \in Call
      BY <2>6, <2>7, StepCalls DEF CallReserve, CallBegin, CallRefused, CallPut, CallRelease
    <3>2. QED
      BY <2>1, <2>2, <2>3, <2>7, <3>1 DEF CallReserve, CallBegin, CallRefused, CallPut, CallRelease
  <2>8. CASE CallProcess(p) \/ ProcessFails(p) \/ ProcessDies(p) \/ PutFails(p) \/ CallDies(p)
    <3>1. calls[p] \in Call
      BY <2>6, <2>8, StepCalls DEF CallProcess, ProcessFails, ProcessDies, PutFails, CallDies
    <3>2. QED
      BY <1>2, <2>1, <2>2, <2>3, <2>8, <3>1
      DEF CallProcess, ProcessFails, ProcessDies, PutFails, CallDies
  <2>9. QED
    BY <1>2, <2>4, <2>5, <2>7, <2>8 DEF CallStep, CallProgress
<1>3. QED
  BY <1>1, <1>2 DEF RequestNext, OtherSteps, Unkeyed, requestVars, callVars

(* As long as no call itself fails, a consent that is refused has brought about
   nothing under its key, so a retry never learns ALREADY_ACCEPTED of its own
   effect: the holder of the key would find its response there. *)
THEOREM RefusalIsEffectless == RequestSpec => []RefusedWithoutEffect
<1>1. RequestInit => EffectFollowedUp /\ OnlyConsentsRelease
  BY DEF RequestInit, CallInit, EffectFollowedUp, OnlyConsentsRelease, inCall, NoCall
<1>2. KeyInv /\ EffectFollowedUp /\ OnlyConsentsRelease => RefusedWithoutEffect
  <2> SUFFICES ASSUME KeyInv, EffectFollowedUp, OnlyConsentsRelease,
                      NEW p \in Handler, inCall(p, "release"),
                      effects[idemOf(p)] # 0, ~(callFaults > 0)
               PROVE  FALSE
    BY DEF RefusedWithoutEffect
  <2>1. calls[p] \in Call /\ idemOf(p) \in IdemKey /\ consents(p)
    BY StepCalls, CallInFlight DEF KeyInv, OnlyConsentsRelease
  <2>2. callFaults = 0 /\ effects[idemOf(p)] = 1
    BY <2>1 DEF KeyInv, CallTypeOK, EffectEvident
  <2>3. holds(p) /\ keys[idemOf(p)] = "pending"
    BY <2>1 DEF holds, inCall, KeyInv, ReservationPending
  <2>4. PICK q \in Handler : inCall(q, "put") /\ idemOf(q) = idemOf(p)
    BY <2>1, <2>2, <2>3 DEF EffectFollowedUp
  <2>5. holds(q)
    BY <2>1, <2>4 DEF holds, inCall, consents, idemOf
  <2>6. p = q
    BY <2>3, <2>4, <2>5 DEF KeyInv, ReservationExclusive
  <2>7. QED
    BY <2>4, <2>6 DEF inCall
<1>3. RequestTypeOK => CallTypeOK
  BY DEF RequestTypeOK
<1>4. QED
  BY <1>1, <1>2, <1>3, NextFollowsUp, NextReleases, RequestTypeCorrect, KeyInvariance, PTL
  DEF RequestSpec
=============================================================================
