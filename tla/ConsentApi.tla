----------------------------- MODULE ConsentApi -----------------------------
(***************************************************************************)
(* The request handlers that write one customer's row: AcceptanceService    *)
(* (portal and hosted page), ObjectionService, NotificationService and      *)
(* ManualAcceptanceService.  A handler runs from one await to the next;     *)
(* requests[p] holds what handler p read before the await it waits in.      *)
(***************************************************************************)
EXTENDS ConsentStore

CONSTANT Handler   \* request handlers that may be in flight at once

VARIABLE requests

(* Where a handler waits: before reading the row, before the write it has
   decided on, or between its write and the record that is to prove it. *)
Step == {"acceptRead", "acceptWrite", "recordCreate", "recordWrite",
         "appendAcceptance", "objectWrite", "appendObjection", "notifyWrite"}

(* A customer consents or an admin imports; silence is the sweep's alone. *)
GivenMethod == {"ACTIVE_CONSENT", "IMPORT"}

Idle == [step |-> "idle"]
Request == [step : Step, customer : Customer, version : Version,
            row : CustomerVersionState \cup {NoRow}, method : GivenMethod]

ApiTypeOK == requests \in [Handler -> Request \cup {Idle}]
ApiInit == requests = [p \in Handler |-> Idle]

apiVars == <<requests>>
recordVars == <<acceptances, objections>>
contextVars == <<now, versions, faults, orphans>>

idle(p) == requests[p] = Idle
at(p, step) == requests[p].step = step
finish(p) == requests' = [requests EXCEPT ![p] = Idle]
goto(p, step) == requests' = [requests EXCEPT ![p].step = step]
start(p, step, c, v, row, method) ==
  requests' = [requests EXCEPT ![p] =
    [step |-> step, customer |-> c, version |-> v, row |-> row, method |-> method]]

-----------------------------------------------------------------------------
(* AcceptanceService.process *)

(* The checks before the row is read.  A refused request writes nothing. *)
AcceptStart(p, c, v) ==
  /\ idle(p)
  /\ assertVersionCurrent(v)
  /\ c \in Holder
  /\ start(p, "acceptRead", c, v, NoRow, "ACTIVE_CONSENT")
  /\ UNCHANGED storeVars

AcceptRead(p) ==
  /\ at(p, "acceptRead")
  /\ LET q == requests[p]
         row == states[q.customer][q.version]
     IN IF row = NoRow \/ acceptable(row)
        THEN requests' = [requests EXCEPT ![p].step = "acceptWrite", ![p].row = row]
        ELSE finish(p)
  /\ UNCHANGED storeVars

(* A row that was there is moved on conditionally; without one a new ACCEPTED
   row is saved, which the unique index refuses if another writer was first. *)
AcceptWrite(p) ==
  /\ at(p, "acceptWrite")
  /\ LET q == requests[p]
         c == q.customer
         v == q.version
     IN IF q.row = NoRow
        THEN IF exists(c, v) THEN finish(p) /\ UNCHANGED states
             ELSE goto(p, "appendAcceptance")
                  /\ save(c, v, [PendingRow(None) EXCEPT !.state = "ACCEPTED"])
        ELSE IF inState(c, v, q.row.state)
             THEN goto(p, "appendAcceptance") /\ setState(c, v, "ACCEPTED")
             ELSE finish(p) /\ UNCHANGED states
  /\ UNCHANGED <<contextVars, recordVars>>

-----------------------------------------------------------------------------
(* ManualAcceptanceService.record: no version check; a missing row is first
   created as PENDING_NOTIFICATION without a deadline. *)

RecordRead(p, c, v, method) ==
  /\ idle(p)
  /\ c \in Holder
  /\ LET row == states[c][v]
     IN /\ row = NoRow \/ acceptable(row)
        /\ start(p, IF row = NoRow THEN "recordCreate" ELSE "recordWrite",
                 c, v, row, method)
  /\ UNCHANGED storeVars

RecordCreate(p) ==
  /\ at(p, "recordCreate")
  /\ LET q == requests[p]
     IN IF exists(q.customer, q.version) THEN finish(p) /\ UNCHANGED states
        ELSE /\ save(q.customer, q.version, PendingRow(None))
             /\ requests' = [requests EXCEPT ![p].step = "recordWrite",
                                             ![p].row = PendingRow(None)]
  /\ UNCHANGED <<contextVars, recordVars>>

RecordWrite(p) ==
  /\ at(p, "recordWrite")
  /\ LET q == requests[p]
     IN IF inState(q.customer, q.version, q.row.state)
        THEN /\ setState(q.customer, q.version, "ACCEPTED")
             /\ goto(p, "appendAcceptance")
        ELSE finish(p) /\ UNCHANGED states
  /\ UNCHANGED <<contextVars, recordVars>>

(* The second, separate write of both consent paths. *)
AcceptanceAppend(p) ==
  /\ at(p, "appendAcceptance")
  /\ appendAcceptance(requests[p].customer, requests[p].version, requests[p].method)
  /\ finish(p)
  /\ UNCHANGED <<contextVars, states, objections>>

-----------------------------------------------------------------------------
(* ObjectionService.object *)

ObjectRead(p, c, v) ==
  /\ idle(p)
  /\ exists(c, v)
  /\ objectable(states[c][v], v, now)
  /\ start(p, "objectWrite", c, v, states[c][v], "ACTIVE_CONSENT")
  /\ UNCHANGED storeVars

(* A slip: the objection written whatever has become of the row. *)
ObjectOverwrite(p) ==
  /\ at(p, "objectWrite")
  /\ setState(requests[p].customer, requests[p].version, "OBJECTED")
  /\ goto(p, "appendObjection")
  /\ UNCHANGED <<contextVars, recordVars>>

ObjectWrite(p) ==
  /\ at(p, "objectWrite")
  /\ LET q == requests[p]
     IN IF inState(q.customer, q.version, "NOTIFIED")
        THEN setState(q.customer, q.version, "OBJECTED") /\ goto(p, "appendObjection")
        ELSE finish(p) /\ UNCHANGED states
  /\ UNCHANGED <<contextVars, recordVars>>

ObjectionAppend(p) ==
  /\ at(p, "appendObjection")
  /\ appendObjection(requests[p].customer, requests[p].version)
  /\ finish(p)
  /\ UNCHANGED <<contextVars, states, acceptances>>

-----------------------------------------------------------------------------
(* NotificationService.notify, and the row write of a delivery webhook: the
   access is computed from the row as read and written only if still first. *)

NotifyRead(p, c, v) ==
  /\ idle(p)
  /\ exists(c, v)
  /\ LET row == states[c][v]
     IN start(p, "notifyWrite", c, v,
              recordAccess(row, v, now, row.carryOverBlocking), "ACTIVE_CONSENT")
  /\ UNCHANGED storeVars

NotifyWrite(p) ==
  /\ at(p, "notifyWrite")
  /\ setNotifiedAtomically(requests[p].customer, requests[p].version, requests[p].row)
  /\ finish(p)
  /\ UNCHANGED <<contextVars, recordVars>>

-----------------------------------------------------------------------------
(* The handler dies where it waits; what it has written stays written. *)
HandlerDies(p) ==
  /\ ~idle(p)
  /\ Fault
  /\ orphans' = IF at(p, "appendAcceptance")
                THEN orphans \cup {<<requests[p].customer, requests[p].version>>}
                ELSE orphans
  /\ finish(p)
  /\ UNCHANGED <<now, versions, states, acceptances, objections>>

(* What a handler in flight goes on to do. *)
ApiProgress(p) ==
  \/ AcceptRead(p)
  \/ AcceptWrite(p)
  \/ RecordCreate(p)
  \/ RecordWrite(p)
  \/ AcceptanceAppend(p)
  \/ ObjectWrite(p)
  \/ ObjectionAppend(p)
  \/ NotifyWrite(p)

ApiStart(p) ==
  \E c \in Customer, v \in Version :
    \/ AcceptStart(p, c, v)
    \/ ObjectRead(p, c, v)
    \/ NotifyRead(p, c, v)
    \/ \E method \in GivenMethod : RecordRead(p, c, v, method)

ApiStep(p) == ApiStart(p) \/ ApiProgress(p) \/ HandlerDies(p)
=============================================================================
