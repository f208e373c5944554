----------------------------- MODULE Lifecycle -----------------------------
(***************************************************************************)
(* The consent lifecycle of one agreement document: customers and admins    *)
(* answering (ConsentApi), the hourly deadline sweep (DeadlineSweep) and    *)
(* publishes (Publishing) working on the same tables, interleaved at every  *)
(* await, each able to die part-way.                                        *)
(***************************************************************************)
EXTENDS ConsentApi, DeadlineSweep, Publishing

vars == <<storeVars, requests, sweeps, publications>>

Init == StoreInit /\ ApiInit /\ SweepInit /\ PublishInit

Clock == Tick /\ UNCHANGED <<requests, sweeps, publications>>
Api(p) == ApiStep(p) /\ UNCHANGED <<sweeps, publications>>
Sweep(s) == SweepStep(s) /\ UNCHANGED <<requests, publications>>
Publish(a) == PublishStep(a) /\ UNCHANGED <<requests, sweeps>>

Next ==
  \/ Clock
  \/ \E p \in Handler : Api(p)
  \/ \E s \in Sweeper : Sweep(s)
  \/ \E a \in Publisher : Publish(a)

Spec == Init /\ [][Next]_vars

TypeOK == StoreTypeOK /\ ApiTypeOK /\ SweepTypeOK /\ PublishTypeOK

-----------------------------------------------------------------------------
(* Who is between accepting a row and recording the acceptance. *)

acceptingRequest(p, c, v) ==
  at(p, "appendAcceptance") /\ requests[p].customer = c /\ requests[p].version = v
acceptingSweep(s, c, v) == <<c, v>> \in sweeps[s].tacit

evidencePending(c, v) ==
  \/ \E p \in Handler : acceptingRequest(p, c, v)
  \/ \E s \in Sweeper : acceptingSweep(s, c, v)

objectionPending(c, v) ==
  \E p \in Handler :
    at(p, "appendObjection") /\ requests[p].customer = c /\ requests[p].version = v

-----------------------------------------------------------------------------
(* Safety *)

(* No row is ACCEPTED on nobody's word: an Acceptance is recorded for it, or
   the operation that accepted it is still going to record it, or that
   operation is known to have died between its two writes. *)
AcceptedRowHasEvidence ==
  \A c \in Customer, v \in Version :
    states[c][v].state = "ACCEPTED" =>
      accepted(c, v) \/ evidencePending(c, v) \/ <<c, v>> \in orphans

(* Evidence never contradicts the row: once an Acceptance is recorded the row
   never again counts as unanswered, objected to or expired, whatever stale
   snapshot a publish, a sweep or a second request still holds. *)
EvidenceSettlesRow ==
  \A c \in Customer, v \in Version :
    accepted(c, v) => states[c][v].state \in {"ACCEPTED", "SUPERSEDED"}

(* The acceptance append is never refused: of all the requests and sweeps
   racing for a row, one alone gets past the conditional transition. *)
OneWriterWins ==
  /\ \A c \in Customer, v \in Version : evidencePending(c, v) => ~accepted(c, v)
  /\ \A p, q \in Handler, c \in Customer, v \in Version :
       acceptingRequest(p, c, v) /\ acceptingRequest(q, c, v) => p = q
  /\ \A p \in Handler, s \in Sweeper, c \in Customer, v \in Version :
       ~(acceptingRequest(p, c, v) /\ acceptingSweep(s, c, v))
  /\ \A s, t \in Sweeper, c \in Customer, v \in Version :
       acceptingSweep(s, c, v) /\ acceptingSweep(t, c, v) => s = t

(* Silence is never booked as consent over an objection, not even one whose
   record is still being written when the sweep comes by. *)
ObjectionStopsTacit ==
  \A c \in Customer, v \in Version :
    objected(c, v) \/ objectionPending(c, v) =>
      /\ ~tacitlyAccepted(c, v)
      /\ \A s \in Sweeper : ~acceptingSweep(s, c, v)

(* A row is only ever accepted by silence for a PASSIVE version already in
   force, by a customer with proven access, once that customer's own window
   has passed. *)
TacitAfterFullWindow ==
  \A a \in acceptances :
    LET row == states[a.customer][a.version]
    IN a.method = "TACIT" /\ row.state = "ACCEPTED" =>
         /\ AcceptanceMode[a.version] = "PASSIVE"
         /\ row.notifiedAt # None /\ row.deadlineAt # None
         /\ row.deadlineAt <= a.acceptedAt
         /\ ValidFrom[a.version] <= row.deadlineAt
         /\ row.carryOverBlocking
              \/ row.notifiedAt + ObjectionPeriod[a.version] <= row.deadlineAt

(* The hard deadline of an ACTIVE version bites everybody alike: no access, of
   the many that can race, ever moves the deadline a rollout stamped. *)
HardDeadlineNeverMoves ==
  \A c \in Customer, v \in Version :
    AcceptanceMode[v] = "ACTIVE" /\ states[c][v].notificationDue =>
      states[c][v].deadlineAt = HardDeadline[v]

(* Nobody is kept out before a deadline of their own has passed: an expired
   row is past its hard deadline, and a carried-over block comes from an
   earlier row of the same customer that is. *)
BlockedOnlyAfterLapse ==
  \A c \in Customer, v \in Version :
    /\ states[c][v].state = "EXPIRED_BLOCKING" =>
         AcceptanceMode[v] = "ACTIVE" /\ isDue(states[c][v], now)
    /\ states[c][v].carryOverBlocking =>
         \E w \in Version \ {v} :
           states[c][w].state = "SUPERSEDED" /\ isDue(states[c][w], now)

(* SUPERSEDED is terminal: no access, consent, objection or sweep that read
   the row earlier ever brings it back. *)
SupersededIsFinal ==
  [][\A c \in Customer, v \in Version :
       states[c][v].state = "SUPERSEDED" => states'[c][v].state = "SUPERSEDED"]_vars

(* A published version never becomes a draft again and a retired one never
   comes back into force. *)
StatusOnlyAdvances ==
  [][\A v \in Version :
       /\ versions[v].status = "PUBLISHED" => versions'[v].status # "DRAFT"
       /\ versions[v].status = "RETIRED" => versions'[v].status = "RETIRED"]_vars

-----------------------------------------------------------------------------
(* Why those hold: the inductive invariant.  A row with evidence recorded or
   on its way is settled, so the guard of every conditional write fails on it;
   a row under objection is out of the sweep's reach. *)

Settled == {"ACCEPTED", "SUPERSEDED"}

PendingSettlesRow ==
  \A c \in Customer, v \in Version :
    evidencePending(c, v) => states[c][v].state \in Settled

ObjectionHoldsRow ==
  \A c \in Customer, v \in Version :
    objected(c, v) \/ objectionPending(c, v) =>
      states[c][v].state \in Settled \cup {"OBJECTED"}

(* What a handler has read entitles it to the write it waits for. *)
entitled(p) ==
  LET q == requests[p]
      row == states[q.customer][q.version]
  IN /\ at(p, "acceptWrite") => q.row = NoRow \/ acceptable(q.row)
     /\ at(p, "recordWrite") => acceptable(q.row)
     /\ at(p, "notifyWrite") =>
          /\ row # NoRow
          /\ row.state = "PENDING_NOTIFICATION" =>
               q.row.state \in {"PENDING_NOTIFICATION", "NOTIFIED"}

(* In any case a handler about to write what it computed from a row has read one. *)
HandlersReadRows ==
  \A p \in Handler : at(p, "recordWrite") \/ at(p, "notifyWrite") => requests[p].row # NoRow

(* One about to accept a row has read it in a state to accept it from. *)
mayAccept(p) ==
  /\ at(p, "acceptWrite") => requests[p].row = NoRow \/ acceptable(requests[p].row)
  /\ at(p, "recordWrite") => acceptable(requests[p].row)

ReadEntitlesWrite == \A p \in Handler : entitled(p)

IInv ==
  /\ TypeOK
  /\ AcceptedRowHasEvidence
  /\ EvidenceSettlesRow
  /\ OneWriterWins
  /\ ObjectionStopsTacit
  /\ PendingSettlesRow
  /\ ObjectionHoldsRow
  /\ ReadEntitlesWrite

-----------------------------------------------------------------------------
(* Why nobody's deadline bites early: what a row promises its customer never
   changes under it, so a snapshot of the row still tells it; and each actor
   in between two writes holds what its next write has to establish. *)

(* Rolled out or not, carrying a block or not, and the day an ACTIVE version
   has to be answered by: columns no write of a stored row changes. *)
sameTerms(r, t, v) ==
  /\ r.carryOverBlocking = t.carryOverBlocking
  /\ r.notificationDue = t.notificationDue
  /\ AcceptanceMode[v] = "ACTIVE" => r.deadlineAt = t.deadlineAt

onStoredTerms(d) ==
  /\ exists(d.customer, d.version)
  /\ sameTerms(d.row, states[d.customer][d.version], d.version)

(* A proven access and the whole window it opened. *)
windowGranted(r, v) ==
  /\ r.notifiedAt # None /\ r.deadlineAt # None
  /\ ValidFrom[v] <= r.deadlineAt
  /\ r.carryOverBlocking \/ r.notifiedAt + ObjectionPeriod[v] <= r.deadlineAt

noticeOpensWindow(r, v) ==
  AcceptanceMode[v] = "PASSIVE" /\ r.state = "NOTIFIED" => windowGranted(r, v)

expiryIsDue(r, v) ==
  r.state = "EXPIRED_BLOCKING" => AcceptanceMode[v] = "ACTIVE" /\ isDue(r, now)

(* The customer let the deadline of an ACTIVE version pass that another
   version has replaced since. *)
lapsed(c, w) ==
  /\ AcceptanceMode[w] = "ACTIVE"
  /\ states[c][w].state = "SUPERSEDED" /\ isDue(states[c][w], now)
lapsedElsewhere(c, v) == \E w \in Version \ {v} : lapsed(c, w)

RowsKeepPromise ==
  \A c \in Customer, v \in Version :
    /\ noticeOpensWindow(states[c][v], v)
    /\ expiryIsDue(states[c][v], v)
    /\ states[c][v].carryOverBlocking => lapsedElsewhere(c, v)

NotifierHoldsTerms ==
  \A p \in Handler :
    at(p, "notifyWrite") =>
      onStoredTerms(requests[p]) /\ noticeOpensWindow(requests[p].row, requests[p].version)

(* A row notified when the sweep read it has not been notified again. *)
noticeStands(d) ==
  LET row == states[d.customer][d.version]
  IN d.row.state = "NOTIFIED" =>
       /\ row.state # "PENDING_NOTIFICATION"
       /\ row.state = "NOTIFIED" => row.deadlineAt = d.row.deadlineAt

SweepHoldsTerms ==
  \A s \in Sweeper : \A d \in sweeps[s].due : onStoredTerms(d) /\ noticeStands(d)

silenceWasFull(c, v, day) ==
  LET row == states[c][v]
  IN row.state = "ACCEPTED" =>
       AcceptanceMode[v] = "PASSIVE" /\ windowGranted(row, v) /\ row.deadlineAt <= day

SilenceWasFull == \A s \in Sweeper : \A k \in sweeps[s].tacit : silenceWasFull(k[1], k[2], now)

PublisherHoldsTerms ==
  \A a \in Publisher : publishing(a) =>
    LET b == publications[a]
    IN /\ \A r \in b.predecessors : r.version # b.version
       /\ b.version \notin b.draining
       /\ \A d \in b.open :
            d.version # b.version /\ onStoredTerms(d) /\ expiryIsDue(d.row, d.version)
       /\ \A c \in b.blocking : lapsedElsewhere(c, b.version)

DeadlineInv ==
  /\ HardDeadlineNeverMoves
  /\ RowsKeepPromise
  /\ NotifierHoldsTerms
  /\ SweepHoldsTerms
  /\ SilenceWasFull
  /\ PublisherHoldsTerms
  /\ TacitAfterFullWindow

LifecycleInv == IInv /\ DeadlineInv

-----------------------------------------------------------------------------
(* The evidence tables as the ledger of ConsentLedger. *)

booked(methods) == {<<a.customer, a.version>> : a \in {b \in acceptances : b.method \in methods}}

Ledger == INSTANCE ConsentLedger
  WITH Passive <- {v \in Version : AcceptanceMode[v] = "PASSIVE"},
       given <- booked(GivenMethod),
       tacit <- booked({"TACIT"}),
       refused <- {<<o.customer, o.version>> : o \in objections}

(* Every step of the requests, the sweeps and the publishes, interleaved and
   failing as they may, appends to the evidence what the ledger allows. *)
ImplementsLedger == Ledger!LedgerSpec

(* Silence is booked and objections are taken for PASSIVE versions alone. *)
PassiveOnly ==
  /\ \A s \in Sweeper : \A k \in sweeps[s].tacit : AcceptanceMode[k[2]] = "PASSIVE"
  /\ \A p \in Handler :
       at(p, "objectWrite") \/ at(p, "appendObjection") =>
         AcceptanceMode[requests[p].version] = "PASSIVE"

-----------------------------------------------------------------------------
(* Liveness.  The deadline job is scheduled every hour and each of its awaits
   comes back; so does each await of a request.  Publishing is left to the
   admin and the clock may stop. *)
Fairness ==
  /\ \A s \in Sweeper : WF_vars(SweepProgress(s) /\ UNCHANGED <<requests, publications>>)
  /\ \A p \in Handler : WF_vars(ApiProgress(p) /\ UNCHANGED <<sweeps, publications>>)

(* A passed deadline always takes effect, however often the row's sweep was
   lost to a concurrent write or to a crash of the run. *)
DueIsSettled ==
  \A c \in Customer, v \in Version :
    sweepOutcome(states[c][v], v, now) # "NOOP" ~>
      sweepOutcome(states[c][v], v, now) = "NOOP"

(* Every consent and every silence that moved a row ends up on record, unless
   its operation died between its two writes. *)
AcceptanceIsRecorded ==
  \A c \in Customer, v \in Version :
    states[c][v].state = "ACCEPTED" ~> accepted(c, v) \/ <<c, v>> \in orphans
=============================================================================
