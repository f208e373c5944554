-------------------------- MODULE Deadlines_proofs --------------------------
(***************************************************************************)
(* Nobody is held to a deadline that is not theirs: the part DeadlineInv of *)
(* the inductive invariant of Lifecycle, for any customers, versions,       *)
(* handlers, sweepers and publishers, and the three properties of the       *)
(* deadlines that follow from it.                                           *)
(***************************************************************************)
EXTENDS Lifecycle_proofs

-----------------------------------------------------------------------------
(* One row, before and after a step. *)

(* What a step may do to one row: its terms stay, it never goes back to an
   earlier state, and once notified or accepted it is not notified or accepted
   again. *)
RowStep(r, t, v) ==
  /\ r # NoRow => t # NoRow /\ sameTerms(t, r, v)
  /\ r.state = "SUPERSEDED" => t.state = "SUPERSEDED"
  /\ t.state = "PENDING_NOTIFICATION" => r = NoRow \/ r.state = "PENDING_NOTIFICATION"
  /\ t.state = "NOTIFIED" => \/ r.state = "PENDING_NOTIFICATION"
                             \/ r.state = "NOTIFIED" /\ t.deadlineAt = r.deadlineAt
  /\ t.state = "ACCEPTED" => r = NoRow \/ r.state \in ACCEPTABLE_FROM \/ t = r

(* What one row promises on a day. *)
Sound(r, v, day) ==
  /\ AcceptanceMode[v] = "ACTIVE" /\ r.notificationDue => r.deadlineAt = HardDeadline[v]
  /\ noticeOpensWindow(r, v)
  /\ r.state = "EXPIRED_BLOCKING" => AcceptanceMode[v] = "ACTIVE" /\ isDue(r, day)

LEMMA SameRow ==
  ASSUME NEW r, NEW v \in Version
  PROVE  RowStep(r, r, v)
BY DEF RowStep, sameTerms

(* A passed day stays passed. *)
LEMMA DueStaysDue ==
  ASSUME NEW r \in MaybeRow, NEW day \in Nat, NEW later \in Nat, day <= later, isDue(r, day)
  PROVE  isDue(r, later)
BY VersionAssumption DEF isDue, MaybeRow, NoRow, CustomerVersionState, MaybeTime

LEMMA SoundStays ==
  ASSUME NEW r \in MaybeRow, NEW v \in Version, NEW day \in Nat, NEW later \in Nat, day <= later,
         Sound(r, v, day)
  PROVE  Sound(r, v, later)
BY DueStaysDue DEF Sound

(* The conditional update of the state alone. *)
LEMMA StateChange ==
  ASSUME NEW r \in CustomerVersionState, NEW v \in Version, NEW day \in Nat, Sound(r, v, day),
         r.state \in ACCEPTABLE_FROM, NEW to \in {"ACCEPTED", "OBJECTED", "EXPIRED_BLOCKING"},
         to = "EXPIRED_BLOCKING" => AcceptanceMode[v] = "ACTIVE" /\ isDue(r, day)
  PROVE  LET t == [r EXCEPT !.state = to]
         IN /\ RowStep(r, t, v) /\ Sound(t, v, day)
            /\ t.carryOverBlocking = r.carryOverBlocking
<1> DEFINE t == [r EXCEPT !.state = to]
<1>1. /\ t.state = to /\ t.notifiedAt = r.notifiedAt /\ t.deadlineAt = r.deadlineAt
      /\ t.carryOverBlocking = r.carryOverBlocking /\ t.notificationDue = r.notificationDue
  BY DEF CustomerVersionState
<1>2. t # NoRow
  BY <1>1 DEF NoRow
<1> HIDE DEF t
<1>3. RowStep(r, t, v)
  BY <1>1, <1>2 DEF RowStep, sameTerms, ACCEPTABLE_FROM
<1>4. Sound(t, v, day)
  BY <1>1 DEF Sound, noticeOpensWindow, isDue
<1>5. QED
  BY <1>1, <1>3, <1>4 DEF t

(* The write of an access computed from the row's own terms. *)
LEMMA NoticeChange ==
  ASSUME NEW r \in CustomerVersionState, NEW v \in Version, NEW day \in Nat, Sound(r, v, day),
         r.state = "PENDING_NOTIFICATION",
         NEW u \in CustomerVersionState, sameTerms(u, r, v), noticeOpensWindow(u, v),
         u.state \in {"PENDING_NOTIFICATION", "NOTIFIED"}
  PROVE  LET t == [r EXCEPT !.state = u.state, !.notifiedAt = u.notifiedAt,
                            !.deadlineAt = u.deadlineAt]
         IN /\ RowStep(r, t, v) /\ Sound(t, v, day)
            /\ t.carryOverBlocking = r.carryOverBlocking
<1> DEFINE t == [r EXCEPT !.state = u.state, !.notifiedAt = u.notifiedAt,
                          !.deadlineAt = u.deadlineAt]
<1>1. /\ t.state = u.state /\ t.notifiedAt = u.notifiedAt /\ t.deadlineAt = u.deadlineAt
      /\ t.carryOverBlocking = r.carryOverBlocking /\ t.notificationDue = r.notificationDue
  BY DEF CustomerVersionState
<1>2. t # NoRow
  BY <1>1 DEF NoRow
<1> HIDE DEF t
<1>3. RowStep(r, t, v)
  BY <1>1, <1>2 DEF RowStep, sameTerms
<1>4. Sound(t, v, day)
  BY <1>1 DEF Sound, noticeOpensWindow, windowGranted, sameTerms
<1>5. QED
  BY <1>1, <1>3, <1>4 DEF t

(* The whole row written back as it was read, but for its state. *)
LEMMA SupersedeChange ==
  ASSUME NEW r \in CustomerVersionState, NEW v \in Version, NEW day \in Nat, Sound(r, v, day),
         NEW u \in CustomerVersionState, sameTerms(u, r, v)
  PROVE  /\ RowStep(r, supersede(u), v) /\ Sound(supersede(u), v, day)
         /\ supersede(u).carryOverBlocking = r.carryOverBlocking
         /\ supersede(u).state = "SUPERSEDED"
         /\ supersede(u).deadlineAt = u.deadlineAt
<1> DEFINE t == supersede(u)
<1>1. /\ t.state = "SUPERSEDED" /\ t.deadlineAt = u.deadlineAt
      /\ t.carryOverBlocking = u.carryOverBlocking /\ t.notificationDue = u.notificationDue
  BY DEF supersede, CustomerVersionState
<1>2. t # NoRow
  BY <1>1 DEF NoRow
<1> HIDE DEF t
<1>3. RowStep(r, t, v)
  BY <1>1, <1>2 DEF RowStep, sameTerms
<1>4. Sound(t, v, day)
  BY <1>1 DEF Sound, noticeOpensWindow, sameTerms
<1>5. QED
  BY <1>1, <1>3, <1>4 DEF t, sameTerms

(* The row of a consent or an import that finds none. *)
LEMMA FreshRow ==
  ASSUME NEW v \in Version, NEW day \in Nat
  PROVE  /\ RowStep(NoRow, PendingRow(None), v) /\ Sound(PendingRow(None), v, day)
         /\ ~PendingRow(None).carryOverBlocking
         /\ LET t == [PendingRow(None) EXCEPT !.state = "ACCEPTED"]
            IN RowStep(NoRow, t, v) /\ Sound(t, v, day) /\ ~t.carryOverBlocking
BY DEF RowStep, Sound, PendingRow, NoRow, noticeOpensWindow

(* The row a publish rolls out. *)
LEMMA RolloutRow ==
  ASSUME NEW v \in Version, NEW day \in Nat, NEW carried \in BOOLEAN
  PROVE  LET t == [PendingRow(rolloutDeadlineFor(v)) EXCEPT
                     !.carryOverBlocking = carried, !.notificationDue = TRUE]
         IN RowStep(NoRow, t, v) /\ Sound(t, v, day) /\ t.carryOverBlocking = carried
BY DEF RowStep, Sound, PendingRow, NoRow, noticeOpensWindow, rolloutDeadlineFor

-----------------------------------------------------------------------------
(* All rows, and what others hold of them. *)

(* A step that does to every row what it may, and leaves every row sound. *)
GoodRows ==
  /\ now' \in Nat /\ now <= now'
  /\ \A c \in Customer, v \in Version :
       /\ RowStep(states[c][v], states'[c][v], v)
       /\ Sound(states'[c][v], v, now')
       /\ states'[c][v].carryOverBlocking => lapsedElsewhere(c, v)

LEMMA RowsAreSound ==
  ASSUME HardDeadlineNeverMoves, RowsKeepPromise, NEW c \in Customer, NEW v \in Version
  PROVE  /\ Sound(states[c][v], v, now)
         /\ states[c][v].carryOverBlocking => lapsedElsewhere(c, v)
BY DEF HardDeadlineNeverMoves, RowsKeepPromise, Sound, expiryIsDue

LEMMA RowsUntouched ==
  ASSUME StoreTypeOK, HardDeadlineNeverMoves, RowsKeepPromise,
         UNCHANGED states, now' \in Nat, now <= now'
  PROVE  GoodRows
<1>1. ASSUME NEW c \in Customer, NEW v \in Version
      PROVE  /\ RowStep(states[c][v], states[c][v], v)
             /\ Sound(states[c][v], v, now')
             /\ states[c][v].carryOverBlocking => lapsedElsewhere(c, v)
  <2>1. states[c][v] \in MaybeRow /\ now \in Nat
    BY StoreTypeParts DEF States
  <2>2. QED
    BY <2>1, SameRow, RowsAreSound, SoundStays
<1>2. QED
  BY <1>1 DEF GoodRows

LEMMA OneRowWritten ==
  ASSUME StoreTypeOK, HardDeadlineNeverMoves, RowsKeepPromise, UNCHANGED now,
         NEW c \in Customer, NEW v \in Version, Others(c, v),
         RowStep(states[c][v], states'[c][v], v), Sound(states'[c][v], v, now),
         states'[c][v].carryOverBlocking => lapsedElsewhere(c, v)
  PROVE  GoodRows
<1>0. now \in Nat
  BY StoreTypeParts
<1>1. ASSUME NEW d \in Customer, NEW w \in Version
      PROVE  /\ RowStep(states[d][w], states'[d][w], w)
             /\ Sound(states'[d][w], w, now)
             /\ states'[d][w].carryOverBlocking => lapsedElsewhere(d, w)
  <2>1. CASE d = c /\ w = v
    BY <2>1
  <2>2. CASE d # c \/ w # v
    BY <2>2, SameRow, RowsAreSound DEF Others
  <2>3. QED
    BY <2>1, <2>2
<1>2. QED
  BY <1>0, <1>1 DEF GoodRows

LEMMA LapsedStays ==
  ASSUME StoreTypeOK, GoodRows, NEW c \in Customer, NEW w \in Version, lapsed(c, w)
  PROVE  lapsed(c, w)'
<1>1. states[c][w] \in MaybeRow /\ now \in Nat /\ states[c][w].state = "SUPERSEDED"
  BY StoreTypeParts DEF States, lapsed
<1>2. isDue(states[c][w], now')
  BY <1>1, DueStaysDue DEF GoodRows, lapsed
<1>3. states[c][w] # NoRow
  BY <1>1 DEF NoRow
<1>4. states'[c][w].deadlineAt = states[c][w].deadlineAt /\ states'[c][w].state = "SUPERSEDED"
  BY <1>1, <1>3 DEF GoodRows, RowStep, sameTerms, lapsed
<1>5. QED
  BY <1>2, <1>4 DEF lapsed, isDue

LEMMA LapsedElsewhereStays ==
  ASSUME StoreTypeOK, GoodRows, NEW c \in Customer, NEW v \in Version, lapsedElsewhere(c, v)
  PROVE  lapsedElsewhere(c, v)'
BY LapsedStays DEF lapsedElsewhere

LEMMA GoodRowsKeepPromise ==
  ASSUME StoreTypeOK, GoodRows
  PROVE  HardDeadlineNeverMoves' /\ RowsKeepPromise'
<1>1. HardDeadlineNeverMoves'
  BY DEF GoodRows, Sound, HardDeadlineNeverMoves
<1>2. ASSUME NEW c \in Customer, NEW v \in Version
      PROVE  /\ noticeOpensWindow(states[c][v], v)'
             /\ expiryIsDue(states[c][v], v)'
             /\ states'[c][v].carryOverBlocking => lapsedElsewhere(c, v)'
  <2>1. noticeOpensWindow(states[c][v], v)'
    BY DEF GoodRows, Sound, noticeOpensWindow, windowGranted
  <2>2. expiryIsDue(states[c][v], v)'
    BY DEF GoodRows, Sound, expiryIsDue, isDue
  <2>3. QED
    BY <2>1, <2>2, LapsedElsewhereStays DEF GoodRows
<1>3. QED
  BY <1>1, <1>2 DEF RowsKeepPromise

LEMMA TermsStay ==
  ASSUME GoodRows, NEW d, d.customer \in Customer, d.version \in Version, onStoredTerms(d)
  PROVE  /\ states'[d.customer][d.version] # NoRow
         /\ sameTerms(d.row, states'[d.customer][d.version], d.version)
BY DEF GoodRows, RowStep, onStoredTerms, exists, sameTerms

LEMMA NoticeStays ==
  ASSUME GoodRows, NEW d, d.customer \in Customer, d.version \in Version,
         onStoredTerms(d), noticeStands(d)
  PROVE  noticeStands(d)'
BY DEF GoodRows, RowStep, onStoredTerms, exists, noticeStands

(* A settled row keeps what it says about the silence that accepted it. *)
LEMMA SilenceStaysFull ==
  ASSUME StoreTypeOK, GoodRows, NEW c \in Customer, NEW v \in Version, NEW day \in Nat,
         NEW later \in Nat, day <= later,
         states[c][v].state \in Settled, silenceWasFull(c, v, day)
  PROVE  silenceWasFull(c, v, later)'
<1>1. CASE states'[c][v].state = "ACCEPTED"
  <2>1. states[c][v] # NoRow /\ states[c][v].state \notin ACCEPTABLE_FROM
    BY DEF Settled, ACCEPTABLE_FROM, NoRow
  <2>2. states'[c][v] = states[c][v]
    BY <1>1, <2>1 DEF GoodRows, RowStep
  <2>3. states[c][v] \in MaybeRow
    BY StoreTypeParts DEF States
  <2>4. QED
    BY <1>1, <2>2, <2>3, VersionAssumption
    DEF silenceWasFull, windowGranted, MaybeRow, NoRow, CustomerVersionState, MaybeTime
<1>2. QED
  BY <1>1 DEF silenceWasFull

-----------------------------------------------------------------------------
(* What each actor holds, and that a good step of another leaves it so. *)

NotifierHolds(p) ==
  at(p, "notifyWrite") =>
    onStoredTerms(requests[p]) /\ noticeOpensWindow(requests[p].row, requests[p].version)

DueHeld(d) == onStoredTerms(d) /\ noticeStands(d)
SweepHolds(s) ==
  /\ \A d \in sweeps[s].due : DueHeld(d)
  /\ \A k \in sweeps[s].tacit : silenceWasFull(k[1], k[2], now)

OpenHeld(d, v) == d.version # v /\ onStoredTerms(d) /\ expiryIsDue(d.row, d.version)
PublisherHolds(a) ==
  publishing(a) =>
    LET b == publications[a]
    IN /\ \A r \in b.predecessors : r.version # b.version
       /\ b.version \notin b.draining
       /\ \A d \in b.open : OpenHeld(d, b.version)
       /\ \A c \in b.blocking : lapsedElsewhere(c, b.version)

LEMMA DeadlineParts ==
  DeadlineInv <=>
    /\ HardDeadlineNeverMoves /\ RowsKeepPromise
    /\ \A p \in Handler : NotifierHolds(p)
    /\ \A s \in Sweeper : SweepHolds(s)
    /\ \A a \in Publisher : PublisherHolds(a)
    /\ TacitAfterFullWindow
BY DEF DeadlineInv, NotifierHoldsTerms, NotifierHolds, SweepHoldsTerms, SilenceWasFull,
       SweepHolds, DueHeld, PublisherHoldsTerms, PublisherHolds, OpenHeld

LEMMA DeadlinePartsNext ==
  DeadlineInv' <=>
    /\ HardDeadlineNeverMoves' /\ RowsKeepPromise'
    /\ \A p \in Handler : NotifierHolds(p)'
    /\ \A s \in Sweeper : SweepHolds(s)'
    /\ \A a \in Publisher : PublisherHolds(a)'
    /\ TacitAfterFullWindow'
BY DEF DeadlineInv, NotifierHoldsTerms, NotifierHolds, SweepHoldsTerms, SilenceWasFull,
       SweepHolds, DueHeld, PublisherHoldsTerms, PublisherHolds, OpenHeld

LEMMA NotifierStays ==
  ASSUME ApiTypeOK, GoodRows, NEW p \in Handler, NotifierHolds(p), requests'[p] = requests[p]
  PROVE  NotifierHolds(p)'
<1>1. CASE at(p, "notifyWrite")
  <2> DEFINE q == requests[p]
  <2>1. q.customer \in Customer /\ q.version \in Version
    BY <1>1, RequestInFlight DEF Step, Request
  <2>2. onStoredTerms(q) /\ noticeOpensWindow(q.row, q.version)
    BY <1>1 DEF NotifierHolds
  <2>3. /\ states'[q.customer][q.version] # NoRow
        /\ sameTerms(q.row, states'[q.customer][q.version], q.version)
    BY <2>1, <2>2 DEF GoodRows, RowStep, onStoredTerms, exists, sameTerms
  <2>4. QED
    BY <2>2, <2>3
    DEF NotifierHolds, onStoredTerms, exists, sameTerms, noticeOpensWindow, windowGranted
<1>2. QED
  BY <1>1 DEF NotifierHolds, at

LEMMA DueStaysHeld ==
  ASSUME GoodRows, NEW d, d.customer \in Customer, d.version \in Version, DueHeld(d)
  PROVE  DueHeld(d)'
<1>1. onStoredTerms(d)'
  BY TermsStay DEF DueHeld, onStoredTerms, exists, sameTerms
<1>2. noticeStands(d)'
  BY NoticeStays DEF DueHeld
<1>3. QED
  BY <1>1, <1>2 DEF DueHeld

LEMMA OpenStaysHeld ==
  ASSUME StoreTypeOK, GoodRows, NEW d, d.customer \in Customer, d.version \in Version,
         d.row \in MaybeRow, NEW v, OpenHeld(d, v)
  PROVE  OpenHeld(d, v)'
<1>1. onStoredTerms(d)'
  BY TermsStay DEF OpenHeld, onStoredTerms, exists, sameTerms
<1>2. expiryIsDue(d.row, d.version)'
  <2>1. now \in Nat /\ now' \in Nat /\ now <= now'
    BY StoreTypeParts DEF GoodRows
  <2>2. isDue(d.row, now) => isDue(d.row, now')
    BY <2>1, DueStaysDue
  <2>3. QED
    BY <2>2 DEF OpenHeld, expiryIsDue, isDue
<1>3. QED
  BY <1>1, <1>2 DEF OpenHeld

LEMMA SilenceStays ==
  ASSUME StoreTypeOK, PendingSettlesRow, GoodRows, NEW s \in Sweeper,
         NEW c \in Customer, NEW v \in Version, <<c, v>> \in sweeps[s].tacit,
         silenceWasFull(c, v, now)
  PROVE  silenceWasFull(c, v, now)'
<1>1. now \in Nat /\ now' \in Nat /\ now <= now'
  BY StoreTypeParts DEF GoodRows
<1>2. states[c][v].state \in Settled
  BY DEF PendingSettlesRow, evidencePending, acceptingSweep
<1>3. PICK later \in Nat : later = now'
  BY <1>1
<1>4. silenceWasFull(c, v, later)'
  BY <1>1, <1>2, <1>3, SilenceStaysFull
<1>5. QED
  BY <1>3, <1>4 DEF silenceWasFull

LEMMA SweepStays ==
  ASSUME StoreTypeOK, SweepTypeOK, PendingSettlesRow, GoodRows, NEW s \in Sweeper, SweepHolds(s),
         sweeps'[s].due \subseteq sweeps[s].due, sweeps'[s].tacit \subseteq sweeps[s].tacit
  PROVE  SweepHolds(s)'
<1>0. sweeps[s].due \subseteq Snapshot /\ sweeps[s].tacit \subseteq Customer \X Version
  BY DEF SweepTypeOK
<1>1. ASSUME NEW d \in sweeps'[s].due PROVE DueHeld(d)'
  BY <1>0, DueStaysHeld DEF SweepHolds, Snapshot
<1>2. ASSUME NEW k \in sweeps'[s].tacit PROVE silenceWasFull(k[1], k[2], now)'
  <2>1. k[1] \in Customer /\ k[2] \in Version /\ k = <<k[1], k[2]>> /\ k \in sweeps[s].tacit
    BY <1>0
  <2>2. silenceWasFull(k[1], k[2], now)
    BY <2>1 DEF SweepHolds
  <2>3. QED
    BY <2>1, <2>2, SilenceStays
<1>3. QED
  BY <1>1, <1>2 DEF SweepHolds

LEMMA PublisherStays ==
  ASSUME StoreTypeOK, PublishTypeOK, GoodRows, NEW a \in Publisher, PublisherHolds(a),
         publications'[a] = publications[a]
  PROVE  PublisherHolds(a)'
<1>1. CASE publishing(a)
  <2> DEFINE b == publications[a]
  <2>1. /\ b.version \in Version /\ b.open \subseteq Snapshot /\ b.blocking \subseteq Customer
    BY <1>1, PublicationInFlight DEF Publication
  <2>2. \A d \in b.open : OpenHeld(d, b.version)'
    BY <1>1, <2>1, OpenStaysHeld DEF PublisherHolds, Snapshot, MaybeRow
  <2>3. \A c \in b.blocking : lapsedElsewhere(c, b.version)'
    BY <1>1, <2>1, LapsedElsewhereStays DEF PublisherHolds
  <2>4. QED
    BY <1>1, <2>2, <2>3 DEF PublisherHolds
<1>2. QED
  BY <1>1 DEF PublisherHolds, publishing

LEMMA TacitForm ==
  TacitAfterFullWindow <=>
    \A a \in acceptances : a.method = "TACIT" =>
      silenceWasFull(a.customer, a.version, a.acceptedAt)
BY DEF TacitAfterFullWindow, silenceWasFull, windowGranted

LEMMA TacitFormNext ==
  TacitAfterFullWindow' <=>
    \A a \in acceptances' : a.method = "TACIT" =>
      silenceWasFull(a.customer, a.version, a.acceptedAt)'
BY DEF TacitAfterFullWindow, silenceWasFull, windowGranted

(* Every acceptance recorded before the step still stands as it did. *)
LEMMA BookedSilenceStays ==
  ASSUME StoreTypeOK, EvidenceSettlesRow, GoodRows, TacitAfterFullWindow,
         NEW a \in acceptances, a.method = "TACIT"
  PROVE  silenceWasFull(a.customer, a.version, a.acceptedAt)'
<1>1. /\ a.customer \in Customer /\ a.version \in Version /\ a.acceptedAt \in Nat
  BY StoreTypeParts DEF Acceptance
<1>2. states[a.customer][a.version].state \in Settled
  BY <1>1 DEF EvidenceSettlesRow, accepted, Settled
<1>3. silenceWasFull(a.customer, a.version, a.acceptedAt)
  BY TacitForm
<1>4. QED
  BY <1>1, <1>2, <1>3, SilenceStaysFull

LEMMA TacitStays ==
  ASSUME StoreTypeOK, EvidenceSettlesRow, GoodRows, TacitAfterFullWindow, UNCHANGED acceptances
  PROVE  TacitAfterFullWindow'
BY BookedSilenceStays, TacitFormNext

(* The append of a record of another kind than silence's. *)
LEMMA GivenAppendStays ==
  ASSUME StoreTypeOK, EvidenceSettlesRow, GoodRows, TacitAfterFullWindow,
         NEW c \in Customer, NEW v \in Version, NEW m \in GivenMethod, appendAcceptance(c, v, m)
  PROVE  TacitAfterFullWindow'
<1>1. ASSUME NEW a \in acceptances', a.method = "TACIT"
      PROVE  a \in acceptances
  BY <1>1 DEF appendAcceptance, GivenMethod
<1>2. QED
  BY <1>1, BookedSilenceStays, TacitFormNext

-----------------------------------------------------------------------------
(* Requests. *)

(* An access is computed on the row's terms, and opens the whole window. *)
LEMMA AccessOpensWindow ==
  ASSUME NEW r \in CustomerVersionState, NEW v \in Version, NEW day \in Nat,
         noticeOpensWindow(r, v)
  PROVE  /\ sameTerms(recordAccess(r, v, day, r.carryOverBlocking), r, v)
         /\ noticeOpensWindow(recordAccess(r, v, day, r.carryOverBlocking), v)
<1> DEFINE u == recordAccess(r, v, day, r.carryOverBlocking)
           deadline == objectionDeadline(v, day, r.carryOverBlocking)
<1>1. CASE u = r
  BY <1>1 DEF sameTerms
<1>2. CASE AcceptanceMode[v] = "ACTIVE" /\ u # r
  BY <1>2 DEF recordAccess, sameTerms, noticeOpensWindow, CustomerVersionState
<1>3. CASE AcceptanceMode[v] # "ACTIVE" /\ u # r
  <2>1. /\ u.notifiedAt = day /\ u.deadlineAt = deadline
        /\ u.carryOverBlocking = r.carryOverBlocking
        /\ u.notificationDue = r.notificationDue
    BY <1>3 DEF recordAccess, CustomerVersionState
  <2>2. /\ deadline \in Nat /\ ValidFrom[v] <= deadline
        /\ r.carryOverBlocking \/ day + ObjectionPeriod[v] <= deadline
    BY VersionAssumption DEF objectionDeadline, laterOf
  <2> HIDE DEF u, deadline
  <2>3. QED
    BY <1>3, <2>1, <2>2, VersionAssumption DEF sameTerms, noticeOpensWindow, windowGranted, u
<1>4. QED
  BY <1>1, <1>2, <1>3

LEMMA ElsewhereNotifier ==
  ASSUME NEW p \in Handler, requests'[p].step # "notifyWrite"
  PROVE  NotifierHolds(p)'
BY DEF NotifierHolds, at

LEMMA FinishNotifier ==
  ASSUME ApiTypeOK, NEW p \in Handler, finish(p)
  PROVE  OtherRequests(p) /\ NotifierHolds(p)'
BY FinishEffect, ElsewhereNotifier DEF Idle

LEMMA GotoNotifier ==
  ASSUME ApiTypeOK, NEW p \in Handler, NEW from \in Step, at(p, from), NEW s, goto(p, s),
         s # "notifyWrite"
  PROVE  OtherRequests(p) /\ NotifierHolds(p)'
BY RequestInFlight, GotoEffect, ElsewhereNotifier

LEMMA GotoWithRowNotifier ==
  ASSUME ApiTypeOK, NEW p \in Handler, NEW from \in Step, at(p, from), NEW s, NEW r,
         requests' = [requests EXCEPT ![p].step = s, ![p].row = r], s # "notifyWrite"
  PROVE  OtherRequests(p) /\ NotifierHolds(p)'
BY RequestInFlight, GotoWithRowEffect, ElsewhereNotifier

LEMMA StartNotifier ==
  ASSUME ApiTypeOK, NEW p \in Handler, NEW s, NEW c, NEW v, NEW r, NEW m,
         start(p, s, c, v, r, m), s # "notifyWrite"
  PROVE  OtherRequests(p) /\ NotifierHolds(p)'
BY StartEffect, ElsewhereNotifier

(* What the handler itself goes on to hold. *)
LEMMA ApiKeepsNotifier ==
  ASSUME TypeOK, HardDeadlineNeverMoves, RowsKeepPromise, NEW p \in Handler, ApiStep(p)
  PROVE  OtherRequests(p) /\ NotifierHolds(p)'
<1> DEFINE Kept == OtherRequests(p) /\ NotifierHolds(p)'
<1>0. ApiTypeOK /\ StoreTypeOK /\ states \in States /\ now \in Nat
  BY StoreTypeParts DEF TypeOK
<1>1. ASSUME NEW c \in Customer, NEW v \in Version, AcceptStart(p, c, v) PROVE Kept
  BY <1>0, <1>1, StartNotifier DEF AcceptStart
<1>2. ASSUME NEW c \in Customer, NEW v \in Version, ObjectRead(p, c, v) PROVE Kept
  BY <1>0, <1>2, StartNotifier DEF ObjectRead
<1>3. ASSUME NEW c \in Customer, NEW v \in Version, NotifyRead(p, c, v) PROVE Kept
  <2> DEFINE row == states[c][v]
             new == recordAccess(row, v, now, row.carryOverBlocking)
  <2>1. /\ OtherRequests(p)
        /\ requests'[p].customer = c /\ requests'[p].version = v
        /\ requests'[p].row = new
    BY <1>0, <1>3, StartEffect DEF NotifyRead
  <2>2. row # NoRow /\ row \in CustomerVersionState
    BY <1>0, <1>3, RowState DEF NotifyRead, exists, States
  <2>3. noticeOpensWindow(row, v)
    BY DEF RowsKeepPromise
  <2>4. sameTerms(new, row, v) /\ noticeOpensWindow(new, v)
    BY <1>0, <2>2, <2>3, AccessOpensWindow
  <2>5. states' = states
    BY <1>3 DEF NotifyRead, storeVars
  <2> HIDE DEF new
  <2>6. QED
    BY <2>1, <2>2, <2>4, <2>5
    DEF NotifierHolds, onStoredTerms, exists, sameTerms, noticeOpensWindow, windowGranted
<1>4. ASSUME NEW c \in Customer, NEW v \in Version, NEW m \in GivenMethod, RecordRead(p, c, v, m)
      PROVE  Kept
  BY <1>0, <1>4, StartNotifier DEF RecordRead
<1>5. CASE AcceptRead(p)
  BY <1>0, <1>5, FinishNotifier, GotoWithRowNotifier DEF AcceptRead, Step
<1>6. CASE AcceptWrite(p)
  BY <1>0, <1>6, FinishNotifier, GotoNotifier DEF AcceptWrite, Step
<1>7. CASE RecordCreate(p)
  BY <1>0, <1>7, FinishNotifier, GotoWithRowNotifier DEF RecordCreate, Step
<1>8. CASE RecordWrite(p)
  BY <1>0, <1>8, FinishNotifier, GotoNotifier DEF RecordWrite, Step
<1>9. CASE ObjectWrite(p)
  BY <1>0, <1>9, FinishNotifier, GotoNotifier DEF ObjectWrite, Step
<1>10. CASE AcceptanceAppend(p) \/ ObjectionAppend(p) \/ NotifyWrite(p) \/ HandlerDies(p)
  BY <1>0, <1>10, FinishNotifier DEF AcceptanceAppend, ObjectionAppend, NotifyWrite, HandlerDies
<1>11. QED
  BY <1>1, <1>2, <1>3, <1>4, <1>5, <1>6, <1>7, <1>8, <1>9, <1>10
  DEF ApiStep, ApiStart, ApiProgress

LEMMA StateWritten ==
  ASSUME StoreTypeOK, HardDeadlineNeverMoves, RowsKeepPromise, UNCHANGED now,
         NEW c \in Customer, NEW v \in Version, NEW to \in {"ACCEPTED", "OBJECTED", "EXPIRED_BLOCKING"},
         setState(c, v, to), states[c][v].state \in ACCEPTABLE_FROM,
         to = "EXPIRED_BLOCKING" => AcceptanceMode[v] = "ACTIVE" /\ isDue(states[c][v], now)
  PROVE  /\ GoodRows
         /\ states'[c][v] = [states[c][v] EXCEPT !.state = to]
<1> DEFINE r == states[c][v]
           t == [r EXCEPT !.state = to]
<1>1. states \in States /\ now \in Nat
  BY StoreTypeParts
<1>2. r \in CustomerVersionState
  BY <1>1, StateOfRow DEF States, ACCEPTABLE_FROM, CvsState
<1>3. states'[c][v] = t /\ Others(c, v)
  BY <1>1 DEF setState, States, Others
<1>4. Sound(r, v, now) /\ (r.carryOverBlocking => lapsedElsewhere(c, v))
  BY RowsAreSound
<1>5. RowStep(r, t, v) /\ Sound(t, v, now) /\ t.carryOverBlocking = r.carryOverBlocking
  BY <1>1, <1>2, <1>4, StateChange
<1> HIDE DEF t
<1>6. GoodRows
  BY <1>3, <1>4, <1>5, OneRowWritten
<1>7. QED
  BY <1>3, <1>6 DEF t

(* A row written where there was none. *)
LEMMA RowCreated ==
  ASSUME StoreTypeOK, HardDeadlineNeverMoves, RowsKeepPromise, UNCHANGED now,
         NEW c \in Customer, NEW v \in Version, NEW t, save(c, v, t), states[c][v] = NoRow,
         RowStep(NoRow, t, v), Sound(t, v, now), t.carryOverBlocking => lapsedElsewhere(c, v)
  PROVE  GoodRows
<1>1. states'[c][v] = t /\ Others(c, v)
  BY StoreTypeParts, SaveEffect
<1>2. QED
  BY <1>1, OneRowWritten

LEMMA ApiKeepsRows ==
  ASSUME TypeOK, ReadEntitlesWrite, DeadlineInv, NEW p \in Handler, ApiStep(p)
  PROVE  GoodRows
<1> USE DEF storeVars, contextVars, recordVars
<1> DEFINE q == requests[p]
           c == q.customer
           v == q.version
<1>0. /\ ApiTypeOK /\ StoreTypeOK /\ states \in States /\ entitled(p) /\ now \in Nat
      /\ HardDeadlineNeverMoves /\ RowsKeepPromise /\ NotifierHolds(p)
  BY StoreTypeParts, DeadlineParts DEF TypeOK, ReadEntitlesWrite
<1>1. UNCHANGED now
  BY DEF ApiStep, ApiStart, ApiProgress, AcceptStart, ObjectRead, NotifyRead, RecordRead,
         AcceptRead, AcceptWrite, RecordCreate, RecordWrite, AcceptanceAppend, ObjectWrite,
         ObjectionAppend, NotifyWrite, HandlerDies
<1>2. CASE UNCHANGED states
  BY <1>0, <1>1, <1>2, RowsUntouched
<1>3. CASE AcceptWrite(p) /\ ~UNCHANGED states
  <2>1. c \in Customer /\ v \in Version
    BY <1>0, <1>3, RequestInFlight DEF AcceptWrite, Step, Request
  <2>2. CASE q.row = NoRow
    <3> DEFINE new == [PendingRow(None) EXCEPT !.state = "ACCEPTED"]
    <3>1. states[c][v] = NoRow /\ save(c, v, new)
      BY <1>3, <2>2 DEF AcceptWrite, exists
    <3>2. RowStep(NoRow, new, v) /\ Sound(new, v, now) /\ ~new.carryOverBlocking
      BY <1>0, <2>1, FreshRow
    <3> HIDE DEF new
    <3>3. QED
      BY <1>0, <1>1, <2>1, <3>1, <3>2, RowCreated
  <2>3. CASE q.row # NoRow
    <3>1. states[c][v].state \in ACCEPTABLE_FROM /\ setState(c, v, "ACCEPTED")
      BY <1>0, <1>3, <2>3 DEF AcceptWrite, entitled, acceptable, inState
    <3>2. QED
      BY <1>0, <1>1, <2>1, <3>1, StateWritten
  <2>4. QED
    BY <2>2, <2>3
<1>4. CASE RecordCreate(p) /\ ~UNCHANGED states
  <2> DEFINE new == PendingRow(None)
  <2>1. c \in Customer /\ v \in Version
    BY <1>0, <1>4, RequestInFlight DEF RecordCreate, Step, Request
  <2>2. states[c][v] = NoRow /\ save(c, v, new)
    BY <1>4 DEF RecordCreate, exists
  <2>3. RowStep(NoRow, new, v) /\ Sound(new, v, now) /\ ~new.carryOverBlocking
    BY <1>0, <2>1, FreshRow
  <2> HIDE DEF new
  <2>4. QED
    BY <1>0, <1>1, <2>1, <2>2, <2>3, RowCreated
<1>5. CASE RecordWrite(p) /\ ~UNCHANGED states
  <2>1. c \in Customer /\ v \in Version
    BY <1>0, <1>5, RequestInFlight DEF RecordWrite, Step, Request
  <2>2. states[c][v].state \in ACCEPTABLE_FROM /\ setState(c, v, "ACCEPTED")
    BY <1>0, <1>5 DEF RecordWrite, entitled, acceptable, inState
  <2>3. QED
    BY <1>0, <1>1, <2>1, <2>2, StateWritten
<1>6. CASE ObjectWrite(p) /\ ~UNCHANGED states
  <2>1. c \in Customer /\ v \in Version
    BY <1>0, <1>6, RequestInFlight DEF ObjectWrite, Step, Request
  <2>2. states[c][v].state \in ACCEPTABLE_FROM /\ setState(c, v, "OBJECTED")
    BY <1>6 DEF ObjectWrite, inState, ACCEPTABLE_FROM
  <2>3. QED
    BY <1>0, <1>1, <2>1, <2>2, StateWritten
<1>7. CASE NotifyWrite(p) /\ ~UNCHANGED states
  <2> DEFINE r == states[c][v]
             u == q.row
             t == [r EXCEPT !.state = u.state, !.notifiedAt = u.notifiedAt,
                            !.deadlineAt = u.deadlineAt]
  <2>1. c \in Customer /\ v \in Version /\ u \in MaybeRow
    BY <1>0, <1>7, RequestInFlight DEF NotifyWrite, Step, Request, MaybeRow
  <2>2. r.state = "PENDING_NOTIFICATION" /\ states' = [states EXCEPT ![c][v] = t]
    BY <1>0, <1>7, <2>1 DEF NotifyWrite, setNotifiedAtomically, inState, States
  <2>3. u.state \in {"PENDING_NOTIFICATION", "NOTIFIED"}
    BY <1>0, <1>7, <2>2 DEF NotifyWrite, entitled
  <2>4. r \in CustomerVersionState /\ u \in CustomerVersionState
    BY <1>0, <2>1, <2>2, <2>3, StateOfRow DEF States, CvsState
  <2>5. sameTerms(u, r, v) /\ noticeOpensWindow(u, v)
    BY <1>0, <1>7 DEF NotifyWrite, NotifierHolds, onStoredTerms
  <2>6. Sound(r, v, now) /\ (r.carryOverBlocking => lapsedElsewhere(c, v))
    BY <1>0, <2>1, RowsAreSound
  <2>7. RowStep(r, t, v) /\ Sound(t, v, now) /\ t.carryOverBlocking = r.carryOverBlocking
    BY <1>0, <2>1, <2>2, <2>3, <2>4, <2>5, <2>6, NoticeChange
  <2>8. states'[c][v] = t /\ Others(c, v)
    BY <1>0, <2>1, <2>2 DEF States, Others
  <2> HIDE DEF t
  <2>9. QED
    BY <1>0, <1>1, <2>1, <2>6, <2>7, <2>8, OneRowWritten
<1>8. QED
  BY <1>2, <1>3, <1>4, <1>5, <1>6, <1>7
  DEF ApiStep, ApiStart, ApiProgress, AcceptStart, ObjectRead, NotifyRead, RecordRead,
      AcceptRead, AcceptanceAppend, ObjectionAppend, HandlerDies

LEMMA ApiKeepsDeadlines ==
  ASSUME TypeOK, EvidenceInv, ReadEntitlesWrite, DeadlineInv, NEW p \in Handler, Api(p)
  PROVE  DeadlineInv'
<1> USE DEF storeVars, contextVars, recordVars
<1>0. /\ ApiTypeOK /\ StoreTypeOK /\ SweepTypeOK /\ PublishTypeOK
      /\ EvidenceSettlesRow /\ PendingSettlesRow /\ ApiStep(p)
  BY DEF TypeOK, EvidenceInv, Api
<1>1. /\ HardDeadlineNeverMoves /\ RowsKeepPromise /\ TacitAfterFullWindow
      /\ \A r \in Handler : NotifierHolds(r)
      /\ \A s \in Sweeper : SweepHolds(s)
      /\ \A a \in Publisher : PublisherHolds(a)
  BY DeadlineParts
<1>2. GoodRows
  BY <1>0, ApiKeepsRows
<1>3. HardDeadlineNeverMoves' /\ RowsKeepPromise'
  BY <1>0, <1>2, GoodRowsKeepPromise
<1>4. \A r \in Handler : NotifierHolds(r)'
  <2>1. OtherRequests(p) /\ NotifierHolds(p)'
    BY <1>0, <1>1, ApiKeepsNotifier
  <2>2. QED
    BY <1>0, <1>1, <1>2, <2>1, NotifierStays DEF OtherRequests
<1>5. \A s \in Sweeper : SweepHolds(s)'
  BY <1>0, <1>1, <1>2, SweepStays DEF Api
<1>6. \A a \in Publisher : PublisherHolds(a)'
  BY <1>0, <1>1, <1>2, PublisherStays DEF Api
<1>7. TacitAfterFullWindow'
  <2>1. CASE AcceptanceAppend(p)
    <3>1. /\ requests[p].customer \in Customer /\ requests[p].version \in Version
          /\ requests[p].method \in GivenMethod
      BY <1>0, <2>1, RequestInFlight DEF AcceptanceAppend, Step, Request
    <3>2. QED
      BY <1>0, <1>1, <1>2, <2>1, <3>1, GivenAppendStays DEF AcceptanceAppend
  <2>2. CASE UNCHANGED acceptances
    BY <1>0, <1>1, <1>2, <2>2, TacitStays
  <2>3. QED
    BY <1>0, <2>1, <2>2
    DEF ApiStep, ApiStart, ApiProgress, AcceptStart, ObjectRead, NotifyRead, RecordRead,
        AcceptRead, AcceptWrite, RecordCreate, RecordWrite, ObjectWrite,
        ObjectionAppend, NotifyWrite, HandlerDies
<1>8. QED
  BY <1>3, <1>4, <1>5, <1>6, <1>7, DeadlinePartsNext

-----------------------------------------------------------------------------
(* The sweep. *)

(* A snapshot taken now holds. *)
LEMMA SnapshotHolds ==
  ASSUME NEW c \in Customer, NEW v \in Version, states[c][v].state \in CvsState
  PROVE  /\ onStoredTerms(snapshot(c, v)) /\ noticeStands(snapshot(c, v))
         /\ snapshot(c, v).customer = c /\ snapshot(c, v).version = v
         /\ snapshot(c, v).row = states[c][v]
BY DEF snapshot, onStoredTerms, exists, sameTerms, noticeStands, NoRow, CvsState

LEMMA DueRowsHeld ==
  ASSUME NEW d \in findDueForSweep
  PROVE  DueHeld(d)
<1>1. PICK c \in Customer, v \in Version : d = snapshot(c, v) /\ states[c][v].state \in SWEEPABLE_STATES
  BY DEF findDueForSweep
<1>2. QED
  BY <1>1, SnapshotHolds DEF DueHeld, SWEEPABLE_STATES, CvsState

LEMMA SweepKeepsDeadlines ==
  ASSUME TypeOK, EvidenceInv, DeadlineInv, NEW s \in Sweeper, Sweep(s)
  PROVE  DeadlineInv'
<1> USE DEF storeVars, sweepContext
<1>0. /\ ApiTypeOK /\ StoreTypeOK /\ SweepTypeOK /\ PublishTypeOK /\ states \in States /\ now \in Nat
      /\ EvidenceSettlesRow /\ PendingSettlesRow /\ SweepStep(s)
      /\ sweeps[s].due \subseteq Snapshot /\ sweeps[s].tacit \subseteq Customer \X Version
  BY StoreTypeParts DEF TypeOK, EvidenceInv, Sweep, SweepTypeOK
<1>1. /\ HardDeadlineNeverMoves /\ RowsKeepPromise /\ TacitAfterFullWindow
      /\ \A r \in Handler : NotifierHolds(r)
      /\ \A t \in Sweeper : SweepHolds(t)
      /\ \A a \in Publisher : PublisherHolds(a)
  BY DeadlineParts
<1>2. OtherSweeps(s) /\ UNCHANGED now
  BY <1>0 DEF SweepTypeOK, OtherSweeps, SweepStep, SweepProgress, SweepHandle, SweepFind, SweepSkip,
              SweepExpire, SweepTacit, SweepAppend, SweepEntryFails, SweepDies
<1>3. ASSUME GoodRows, TacitAfterFullWindow', SweepHolds(s)'
      PROVE  DeadlineInv'
  <2>1. HardDeadlineNeverMoves' /\ RowsKeepPromise'
    BY <1>0, <1>3, GoodRowsKeepPromise
  <2>2. \A r \in Handler : NotifierHolds(r)'
    BY <1>0, <1>1, <1>3, NotifierStays DEF Sweep
  <2>3. \A t \in Sweeper : SweepHolds(t)'
    BY <1>0, <1>1, <1>2, <1>3, SweepStays DEF OtherSweeps
  <2>4. \A a \in Publisher : PublisherHolds(a)'
    BY <1>0, <1>1, <1>3, PublisherStays DEF Sweep
  <2>5. QED
    BY <1>3, <2>1, <2>2, <2>3, <2>4, DeadlinePartsNext
<1>4. UNCHANGED states => GoodRows
  BY <1>0, <1>1, <1>2, RowsUntouched
<1>5. CASE SweepFind(s)
  <2>1. GoodRows /\ TacitAfterFullWindow'
    BY <1>0, <1>1, <1>4, <1>5, TacitStays DEF SweepFind
  <2>2. /\ sweeps'[s].due = findDueForSweep /\ sweeps'[s].tacit = {}
        /\ UNCHANGED states
    BY <1>0, <1>5 DEF SweepFind, SweepTypeOK
  <2>3. \A d \in findDueForSweep : onStoredTerms(d)' /\ noticeStands(d)'
    BY <2>2, DueRowsHeld DEF DueHeld, onStoredTerms, exists, noticeStands
  <2>4. SweepHolds(s)'
    BY <2>2, <2>3 DEF SweepHolds, DueHeld
  <2>5. QED
    BY <1>3, <2>1, <2>4
<1>6. ASSUME \/ \E d \in sweeps[s].due : SweepSkip(s, d)
             \/ SweepEntryFails(s) \/ SweepDies(s)
      PROVE  DeadlineInv'
  <2>1. GoodRows /\ TacitAfterFullWindow'
    BY <1>0, <1>1, <1>4, <1>6, TacitStays DEF SweepSkip, SweepEntryFails, SweepDies
  <2>2. sweeps'[s].due \subseteq sweeps[s].due /\ sweeps'[s].tacit \subseteq sweeps[s].tacit
    BY <1>0, <1>6 DEF SweepSkip, SweepEntryFails, SweepDies, handled, SweepTypeOK
  <2>3. QED
    BY <1>0, <1>1, <1>3, <2>1, <2>2, SweepStays
<1>7. CASE SweepAppend(s)
  <2>1. PICK k \in sweeps[s].tacit :
          /\ appendAcceptance(k[1], k[2], "TACIT")
          /\ sweeps' = [sweeps EXCEPT ![s].tacit = {}]
          /\ UNCHANGED states
    BY <1>7 DEF SweepAppend
  <2>2. GoodRows
    BY <1>4, <2>1
  <2>3. sweeps'[s].due \subseteq sweeps[s].due /\ sweeps'[s].tacit \subseteq sweeps[s].tacit
    BY <1>0, <2>1 DEF SweepTypeOK
  <2>4. silenceWasFull(k[1], k[2], now)
    BY <1>1 DEF SweepHolds
  <2>5. ASSUME NEW a \in acceptances', a.method = "TACIT"
        PROVE  silenceWasFull(a.customer, a.version, a.acceptedAt)'
    <3>1. CASE a \in acceptances
      BY <1>0, <1>1, <2>2, <2>5, <3>1, BookedSilenceStays
    <3>2. CASE a \notin acceptances
      <4>1. a.customer = k[1] /\ a.version = k[2] /\ a.acceptedAt = now
        BY <2>1, <3>2 DEF appendAcceptance
      <4>2. QED
        BY <2>1, <2>4, <4>1 DEF silenceWasFull, windowGranted
    <3>3. QED
      BY <3>1, <3>2
  <2>6. TacitAfterFullWindow'
    BY <2>5, TacitFormNext
  <2>7. SweepHolds(s)'
    BY <1>0, <1>1, <2>2, <2>3, SweepStays
  <2>8. QED
    BY <1>3, <2>2, <2>6, <2>7
<1>8. ASSUME NEW d \in sweeps[s].due, SweepExpire(s, d)
      PROVE  DeadlineInv'
  <2> DEFINE c == d.customer
             v == d.version
  <2>1. c \in Customer /\ v \in Version /\ d.row \in CustomerVersionState
    BY <1>0 DEF Snapshot
  <2>2. /\ setState(c, v, "EXPIRED_BLOCKING") /\ states[c][v].state = d.row.state
        /\ AcceptanceMode[v] = "ACTIVE" /\ isDue(d.row, now)
        /\ d.row.state \in ACTIVE_SWEEPABLE_STATES
    BY <1>8 DEF SweepExpire, applies, inState, outcome, sweepOutcome
  <2>3. isDue(states[c][v], now)
    BY <1>1, <2>2 DEF SweepHolds, DueHeld, onStoredTerms, sameTerms, isDue
  <2>4. GoodRows
    BY <1>0, <1>1, <1>2, <2>1, <2>2, <2>3, StateWritten DEF ACTIVE_SWEEPABLE_STATES, ACCEPTABLE_FROM
  <2>5. sweeps'[s].due \subseteq sweeps[s].due /\ sweeps'[s].tacit \subseteq sweeps[s].tacit
    BY <1>0, <1>8 DEF SweepExpire, handled, SweepTypeOK
  <2>6. TacitAfterFullWindow' /\ SweepHolds(s)'
    BY <1>0, <1>1, <1>8, <2>4, <2>5, TacitStays, SweepStays DEF SweepExpire
  <2>7. QED
    BY <1>3, <2>4, <2>6
<1>9. ASSUME NEW d \in sweeps[s].due, SweepTacit(s, d)
      PROVE  DeadlineInv'
  <2> DEFINE c == d.customer
             v == d.version
             r == states[c][v]
  <2>1. c \in Customer /\ v \in Version /\ d.row \in CustomerVersionState
    BY <1>0 DEF Snapshot
  <2>2. /\ setState(c, v, "ACCEPTED") /\ r.state = "NOTIFIED" /\ d.row.state = "NOTIFIED"
        /\ AcceptanceMode[v] = "PASSIVE" /\ isDue(d.row, now)
    BY <1>9 DEF SweepTacit, applies, inState, outcome, sweepOutcome
  <2>3. GoodRows /\ states'[c][v] = [r EXCEPT !.state = "ACCEPTED"]
    BY <1>0, <1>1, <1>2, <2>1, <2>2, StateWritten DEF ACCEPTABLE_FROM
  <2>4. windowGranted(r, v) /\ r.deadlineAt <= now
    <3>1. windowGranted(r, v)
      BY <1>1, <2>1, <2>2 DEF RowsKeepPromise, noticeOpensWindow
    <3>2. r.deadlineAt = d.row.deadlineAt
      BY <1>1, <2>2 DEF SweepHolds, DueHeld, noticeStands
    <3>3. QED
      BY <2>2, <3>1, <3>2 DEF isDue
  <2>5. r \in CustomerVersionState
    BY <1>0, <2>1, <2>2, StateOfRow DEF States, CvsState
  <2>6. silenceWasFull(c, v, now)'
    BY <1>2, <2>2, <2>3, <2>4, <2>5 DEF silenceWasFull, windowGranted, CustomerVersionState
  <2>7. /\ sweeps'[s].due \subseteq sweeps[s].due /\ sweeps'[s].tacit = {<<c, v>>}
    BY <1>0, <1>9 DEF SweepTacit, handled, SweepTypeOK
  <2>8. \A e \in sweeps'[s].due : DueHeld(e)'
    BY <1>0, <1>1, <2>3, <2>7, DueStaysHeld DEF SweepHolds, Snapshot
  <2>9. SweepHolds(s)'
    BY <2>6, <2>7, <2>8 DEF SweepHolds
  <2>10. TacitAfterFullWindow'
    BY <1>0, <1>1, <1>9, <2>3, TacitStays DEF SweepTacit
  <2>11. QED
    BY <1>3, <2>3, <2>9, <2>10
<1>10. QED
  BY <1>0, <1>5, <1>6, <1>7, <1>8, <1>9 DEF SweepStep, SweepProgress, SweepHandle

-----------------------------------------------------------------------------
(* A publish. *)

LEMMA OpenRowsHeld ==
  ASSUME StoreTypeOK, RowsKeepPromise, NEW w \in Version, NEW v, w # v, NEW d \in findOpenByVersion(w)
  PROVE  OpenHeld(d, v)
<1>1. PICK c \in Customer : d = snapshot(c, w) /\ states[c][w].state \in OPEN_STATES
  BY DEF findOpenByVersion
<1>2. onStoredTerms(d) /\ d.version = w /\ d.row = states[c][w]
  BY <1>1, SnapshotHolds DEF OPEN_STATES, CvsState
<1>3. expiryIsDue(states[c][w], w)
  BY DEF RowsKeepPromise
<1>4. QED
  BY <1>2, <1>3 DEF OpenHeld

(* What the publish itself goes on to hold, step by step. *)
LEMMA PublishKeepsHeld ==
  ASSUME TypeOK, RowsKeepPromise, GoodRows, NEW a \in Publisher, PublisherHolds(a),
         PublishStep(a), ~\E d \in publications[a].open : PublishSupersede(a, d)
  PROVE  PublisherHolds(a)'
<1> USE DEF storeVars, evidenceVars
<1> DEFINE b == publications[a]
<1>0. PublishTypeOK /\ StoreTypeOK
  BY DEF TypeOK
<1>1. ASSUME NEW v \in Version, PublishRead(a, v) PROVE PublisherHolds(a)'
  BY <1>0, <1>1 DEF PublishRead, PublisherHolds, PublishTypeOK
<1>2. ASSUME endPublish(a) PROVE PublisherHolds(a)'
  BY <1>0, <1>2 DEF endPublish, PublisherHolds, publishing, PublishTypeOK
<1>3. CASE publishing(a) /\ PublishProgress(a)
  <2>1. /\ b \in Publication /\ b.version \in Version
        /\ b.open \subseteq Snapshot /\ b.blocking \subseteq Customer
        /\ b.draining \subseteq Version /\ b.predecessors \subseteq VersionRow
    BY <1>0, <1>3, PublicationInFlight DEF Publication
  <2>a. PICK own \in Version : own = b.version
    BY <2>1
  <2>2. /\ \A r \in b.predecessors : r.version # b.version
        /\ b.version \notin b.draining
        /\ \A d \in b.open : OpenHeld(d, b.version)
        /\ \A c \in b.blocking : lapsedElsewhere(c, b.version)
    BY <1>3 DEF PublisherHolds
  <2>3. \A d \in b.open : OpenHeld(d, own)'
    BY <1>0, <2>1, <2>2, <2>a, OpenStaysHeld DEF Snapshot, MaybeRow
  <2>4. \A c \in b.blocking : lapsedElsewhere(c, own)'
    BY <1>0, <2>1, <2>2, <2>a, LapsedElsewhereStays
  <2>5. ASSUME b.version = publications'[a].version,
               publications'[a].predecessors \subseteq b.predecessors,
               publications'[a].draining \subseteq b.draining,
               publications'[a].open \subseteq b.open,
               publications'[a].blocking \subseteq b.blocking
        PROVE  PublisherHolds(a)'
    BY <2>2, <2>a, <2>3, <2>4, <2>5 DEF PublisherHolds
  <2>6. ASSUME \/ PublishSave(a) \/ PublishTargets(a) \/ \E c \in Customer : PublishRollout(a, c)
        PROVE  PublisherHolds(a)'
    <3>1. /\ b.version = publications'[a].version
          /\ publications'[a].predecessors = b.predecessors
          /\ publications'[a].draining = b.draining
          /\ publications'[a].open = b.open
          /\ publications'[a].blocking = b.blocking
      <4>1. CASE PublishSave(a)
        BY <1>0, <2>1, <4>1 DEF PublishSave, PublishTypeOK, Publication
      <4>2. CASE PublishTargets(a)
        BY <1>0, <2>1, <4>2 DEF PublishTargets, PublishTypeOK, Publication
      <4>3. ASSUME NEW c \in Customer, PublishRollout(a, c)
            PROVE  /\ b.version = publications'[a].version
                   /\ publications'[a].predecessors = b.predecessors
                   /\ publications'[a].draining = b.draining
                   /\ publications'[a].open = b.open
                   /\ publications'[a].blocking = b.blocking
        BY <1>0, <2>1, <4>3 DEF PublishRollout, PublishTypeOK, Publication
      <4>4. QED
        BY <2>6, <4>1, <4>2, <4>3
    <3>2. QED
      BY <2>5, <3>1
  <2>7. CASE PublishSiblings(a)
    <3>1. /\ b.version = publications'[a].version
          /\ publications'[a].draining = b.draining
          /\ publications'[a].open = b.open
          /\ publications'[a].blocking = b.blocking
          /\ \A r \in publications'[a].predecessors : r.version # b.version
      BY <1>0, <2>1, <2>7 DEF PublishSiblings, PublishTypeOK, Publication, versionRow
    <3>2. QED
      BY <2>2, <2>a, <2>3, <2>4, <3>1 DEF PublisherHolds
  <2>8. ASSUME NEW w \in b.predecessors, PublishRetire(a, w) PROVE PublisherHolds(a)'
    <3>1. /\ b.version = publications'[a].version
          /\ publications'[a].draining = {w.version}
          /\ publications'[a].open = b.open
          /\ publications'[a].blocking = b.blocking
          /\ publications'[a].predecessors \subseteq b.predecessors
      BY <1>0, <2>1, <2>8 DEF PublishRetire, PublishTypeOK, Publication
    <3>2. QED
      BY <2>2, <2>a, <2>3, <2>4, <3>1 DEF PublisherHolds
  <2>9. CASE PublishFindOpen(a)
    <3>1. /\ b.version = publications'[a].version
          /\ publications'[a].draining = {}
          /\ publications'[a].open = UNION {findOpenByVersion(w) : w \in b.draining}
          /\ publications'[a].blocking = b.blocking
          /\ publications'[a].predecessors = b.predecessors
          /\ UNCHANGED <<states, now>>
      BY <1>0, <2>1, <2>9 DEF PublishFindOpen, PublishTypeOK, Publication
    <3>2. \A d \in publications'[a].open : OpenHeld(d, b.version)
      BY <1>0, <2>1, <2>2, <3>1, OpenRowsHeld
    <3>3. \A d \in publications'[a].open : OpenHeld(d, own)'
      BY <2>a, <3>1, <3>2 DEF OpenHeld, onStoredTerms, exists, sameTerms, expiryIsDue, isDue
    <3>4. QED
      BY <2>2, <2>a, <2>4, <3>1, <3>3 DEF PublisherHolds
  <2>10. ASSUME NEW c \in Customer, PublishRefused(a, c) PROVE PublisherHolds(a)'
    BY <1>2, <2>10 DEF PublishRefused
  <2>11. CASE PublishReturn(a)
    BY <1>2, <2>11 DEF PublishReturn
  <2>12. QED
    BY <1>3, <2>6, <2>7, <2>8, <2>9, <2>10, <2>11 DEF PublishProgress
<1>4. QED
  BY <1>1, <1>2, <1>3 DEF PublishStep, PublishDies

LEMMA PublishKeepsDeadlines ==
  ASSUME TypeOK, EvidenceInv, DeadlineInv, NEW a \in Publisher, Publish(a)
  PROVE  DeadlineInv'
<1> USE DEF storeVars, evidenceVars
<1> DEFINE b == publications[a]
<1>0. /\ ApiTypeOK /\ StoreTypeOK /\ SweepTypeOK /\ PublishTypeOK /\ states \in States /\ now \in Nat
      /\ EvidenceSettlesRow /\ PendingSettlesRow /\ PublishStep(a)
  BY StoreTypeParts DEF TypeOK, EvidenceInv, Publish
<1>1. /\ HardDeadlineNeverMoves /\ RowsKeepPromise /\ TacitAfterFullWindow
      /\ \A r \in Handler : NotifierHolds(r)
      /\ \A s \in Sweeper : SweepHolds(s)
      /\ \A e \in Publisher : PublisherHolds(e)
  BY DeadlineParts
<1>2. /\ UNCHANGED <<now, acceptances>>
      /\ \A e \in Publisher : e # a => publications'[e] = publications[e]
  BY <1>0 DEF PublishTypeOK, PublishStep, PublishProgress, PublishRead, PublishSave, PublishSiblings,
           PublishRetire, PublishFindOpen, PublishSupersede, PublishTargets, endPublish,
           PublishRollout, PublishRefused, PublishReturn, PublishDies
<1>3. ASSUME GoodRows, PublisherHolds(a)'
      PROVE  DeadlineInv'
  <2>1. HardDeadlineNeverMoves' /\ RowsKeepPromise' /\ TacitAfterFullWindow'
    BY <1>0, <1>1, <1>2, <1>3, GoodRowsKeepPromise, TacitStays
  <2>2. \A r \in Handler : NotifierHolds(r)'
    BY <1>0, <1>1, <1>3, NotifierStays DEF Publish
  <2>3. \A s \in Sweeper : SweepHolds(s)'
    BY <1>0, <1>1, <1>3, SweepStays DEF Publish
  <2>4. \A e \in Publisher : PublisherHolds(e)'
    BY <1>0, <1>1, <1>2, <1>3, PublisherStays
  <2>5. QED
    BY <2>1, <2>2, <2>3, <2>4, DeadlinePartsNext
<1>4. ASSUME publishing(a), NEW d \in b.open, PublishSupersede(a, d)
      PROVE  DeadlineInv'
  <2> DEFINE c == d.customer
             w == d.version
             r == states[c][w]
             t == supersede(d.row)
  <2>1. /\ c \in Customer /\ w \in Version /\ d.row \in CustomerVersionState
        /\ b \in Publication /\ b.version \in Version
        /\ b.open \subseteq Snapshot /\ b.blocking \subseteq Customer
    BY <1>0, <1>4, PublicationInFlight DEF Publication, Snapshot
  <2>a. PICK own \in Version : own = b.version
    BY <2>1
  <2>2. /\ \A r2 \in b.predecessors : r2.version # b.version
        /\ b.version \notin b.draining
        /\ \A e \in b.open : OpenHeld(e, b.version)
        /\ \A e \in b.blocking : lapsedElsewhere(e, b.version)
    BY <1>1, <1>4 DEF PublisherHolds
  <2>3. w # b.version /\ onStoredTerms(d) /\ expiryIsDue(d.row, w)
    BY <2>2 DEF OpenHeld
  <2>4. r \in CustomerVersionState /\ sameTerms(d.row, r, w)
    BY <1>0, <2>1, <2>3, RowState DEF onStoredTerms, exists, States
  <2>5. Sound(r, w, now) /\ (r.carryOverBlocking => lapsedElsewhere(c, w))
    BY <1>1, <2>1, RowsAreSound
  <2>6. /\ RowStep(r, t, w) /\ Sound(t, w, now) /\ t.carryOverBlocking = r.carryOverBlocking
        /\ t.state = "SUPERSEDED" /\ t.deadlineAt = d.row.deadlineAt
    BY <1>0, <2>1, <2>4, <2>5, SupersedeChange
  <2>7. save(c, w, t)
    BY <1>4 DEF PublishSupersede
  <2>8. /\ publications'[a].version = b.version
        /\ publications'[a].predecessors = b.predecessors
        /\ publications'[a].draining = b.draining
        /\ publications'[a].open \subseteq b.open
        /\ publications'[a].blocking = IF wasBlocking(d.row) THEN b.blocking \cup {c} ELSE b.blocking
    BY <1>0, <1>4, <2>1 DEF PublishSupersede, PublishTypeOK, Publication
  <2> HIDE DEF t
  <2>9. states'[c][w] = t /\ Others(c, w)
    BY <1>0, <2>1, <2>7, SaveEffect
  <2>10. GoodRows
    BY <1>0, <1>1, <1>2, <2>1, <2>5, <2>6, <2>9, OneRowWritten
  <2>11. ASSUME wasBlocking(d.row) PROVE lapsedElsewhere(c, own)'
    <3>1. AcceptanceMode[w] = "ACTIVE" /\ isDue(d.row, now)
      BY <2>3, <2>11 DEF wasBlocking, expiryIsDue
    <3>2. lapsed(c, w)'
      BY <1>2, <2>6, <2>9, <3>1 DEF lapsed, isDue
    <3>3. QED
      BY <2>1, <2>a, <2>3, <3>2 DEF lapsedElsewhere
  <2>12. \A e \in publications'[a].blocking : lapsedElsewhere(e, own)'
    BY <1>0, <2>1, <2>a, <2>2, <2>8, <2>10, <2>11, LapsedElsewhereStays
  <2>13. \A e \in publications'[a].open : OpenHeld(e, own)'
    BY <1>0, <2>1, <2>a, <2>2, <2>8, <2>10, OpenStaysHeld DEF Snapshot, MaybeRow
  <2>14. PublisherHolds(a)'
    BY <2>2, <2>a, <2>8, <2>12, <2>13 DEF PublisherHolds
  <2>15. QED
    BY <1>3, <2>10, <2>14
<1>5. ASSUME GoodRows, ~\E d \in b.open : PublishSupersede(a, d)
      PROVE  DeadlineInv'
  BY <1>0, <1>1, <1>3, <1>5, PublishKeepsHeld
<1>6. ASSUME publishing(a), NEW c \in Customer, PublishRollout(a, c)
      PROVE  GoodRows
  <2> DEFINE v == b.version
             carried == c \in b.blocking
             t == [PendingRow(rolloutDeadlineFor(v)) EXCEPT
                     !.carryOverBlocking = carried, !.notificationDue = TRUE]
  <2>1. v \in Version
    BY <1>0, <1>6, PublicationInFlight DEF Publication
  <2>2. save(c, v, t) /\ states[c][v] = NoRow
    BY <1>6 DEF PublishRollout, exists, rolloutRow
  <2>3. carried \in BOOLEAN /\ (carried => lapsedElsewhere(c, v))
    BY <1>1, <1>6 DEF PublisherHolds
  <2> HIDE DEF carried
  <2>4. RowStep(NoRow, t, v) /\ Sound(t, v, now) /\ t.carryOverBlocking = carried
    BY <1>0, <2>1, <2>3, RolloutRow
  <2> HIDE DEF t
  <2>5. QED
    BY <1>0, <1>1, <1>2, <2>1, <2>2, <2>3, <2>4, RowCreated
<1>7. UNCHANGED states => GoodRows
  BY <1>0, <1>1, <1>2, RowsUntouched
<1>8. CASE publishing(a) /\ \E d \in b.open : PublishSupersede(a, d)
  BY <1>4, <1>8
<1>9. CASE ~\E d \in b.open : PublishSupersede(a, d)
  <2>1. GoodRows
    BY <1>0, <1>6, <1>7, <1>9
    DEF PublishStep, PublishProgress, PublishRead, PublishSave, PublishSiblings,
        PublishRetire, PublishFindOpen, PublishTargets, PublishRefused, PublishReturn, PublishDies
  <2>2. QED
    BY <1>5, <1>9, <2>1
<1>10. CASE ~publishing(a) /\ \E d \in b.open : PublishSupersede(a, d)
  BY <1>10 DEF PublishSupersede, in, publishing, NoPublication
<1>11. QED
  BY <1>8, <1>9, <1>10

-----------------------------------------------------------------------------
(* The theorems. *)

LEMMA InitDeadlines == Init => DeadlineInv
<1> SUFFICES ASSUME Init PROVE DeadlineInv
  OBVIOUS
<1>1. \A c \in Customer, v \in Version : states[c][v] = NoRow
  BY DEF Init, StoreInit
<1>2. HardDeadlineNeverMoves /\ RowsKeepPromise
  BY <1>1 DEF HardDeadlineNeverMoves, RowsKeepPromise, noticeOpensWindow, expiryIsDue, NoRow
<1>3. QED
  BY <1>2, DeadlineParts
  DEF Init, StoreInit, ApiInit, SweepInit, PublishInit, NotifierHolds, SweepHolds, PublisherHolds,
      TacitAfterFullWindow, at, Idle, publishing

LEMMA NextDeadlines == IInv /\ DeadlineInv /\ [Next]_vars => DeadlineInv'
<1> SUFFICES ASSUME IInv, DeadlineInv, [Next]_vars PROVE DeadlineInv'
  OBVIOUS
<1>0. TypeOK /\ EvidenceInv /\ ReadEntitlesWrite
  BY IInvParts
<1>1. CASE Clock \/ UNCHANGED vars
  <2>0. /\ ApiTypeOK /\ StoreTypeOK /\ SweepTypeOK /\ PublishTypeOK
        /\ EvidenceSettlesRow /\ PendingSettlesRow /\ now \in Nat
    BY <1>0, StoreTypeParts DEF TypeOK, EvidenceInv
  <2>1. /\ HardDeadlineNeverMoves /\ RowsKeepPromise /\ TacitAfterFullWindow
        /\ \A r \in Handler : NotifierHolds(r)
        /\ \A s \in Sweeper : SweepHolds(s)
        /\ \A e \in Publisher : PublisherHolds(e)
    BY DeadlineParts
  <2>2. /\ UNCHANGED <<states, acceptances, requests, sweeps, publications>>
        /\ now' \in Nat /\ now <= now'
    BY <1>1, <2>0 DEF Clock, Tick, vars, storeVars
  <2>3. GoodRows
    BY <2>0, <2>1, <2>2, RowsUntouched
  <2>4. HardDeadlineNeverMoves' /\ RowsKeepPromise' /\ TacitAfterFullWindow'
    BY <2>0, <2>1, <2>2, <2>3, GoodRowsKeepPromise, TacitStays
  <2>5. \A r \in Handler : NotifierHolds(r)'
    BY <2>0, <2>1, <2>2, <2>3, NotifierStays
  <2>6. \A s \in Sweeper : SweepHolds(s)'
    BY <2>0, <2>1, <2>2, <2>3, SweepStays
  <2>7. \A e \in Publisher : PublisherHolds(e)'
    BY <2>0, <2>1, <2>2, <2>3, PublisherStays
  <2>8. QED
    BY <2>4, <2>5, <2>6, <2>7, DeadlinePartsNext
<1>2. ASSUME NEW p \in Handler, Api(p) PROVE DeadlineInv'
  BY <1>0, <1>2, ApiKeepsDeadlines
<1>3. ASSUME NEW s \in Sweeper, Sweep(s) PROVE DeadlineInv'
  BY <1>0, <1>3, SweepKeepsDeadlines
<1>4. ASSUME NEW a \in Publisher, Publish(a) PROVE DeadlineInv'
  BY <1>0, <1>4, PublishKeepsDeadlines
<1>5. QED
  BY <1>1, <1>2, <1>3, <1>4 DEF Next

(* The whole inductive invariant of the consent lifecycle, evidence and
   deadlines, holds in every reachable state. *)
THEOREM LifecycleInvariance == Spec => []LifecycleInv
<1>1. Init => LifecycleInv
  BY InitIInv, InitDeadlines DEF LifecycleInv
<1>2. LifecycleInv /\ [Next]_vars => LifecycleInv'
  BY NextIInv, NextDeadlines DEF LifecycleInv
<1>3. QED
  BY <1>1, <1>2, PTL DEF Spec

(* Silence is booked as consent only for a PASSIVE version in force, by a
   customer with proven access whose own window had passed on that day. *)
THEOREM TacitIsAfterFullWindow == Spec => []TacitAfterFullWindow
<1>1. LifecycleInv => TacitAfterFullWindow
  BY DEF LifecycleInv, DeadlineInv
<1>2. QED
  BY <1>1, LifecycleInvariance, PTL

(* No access, of the many that can race, moves the hard deadline a rollout
   stamped on a row of an ACTIVE version. *)
THEOREM HardDeadlineStands == Spec => []HardDeadlineNeverMoves
<1>1. LifecycleInv => HardDeadlineNeverMoves
  BY DEF LifecycleInv, DeadlineInv
<1>2. QED
  BY <1>1, LifecycleInvariance, PTL

(* Nobody is kept out before a deadline of their own has passed, whichever
   sweep expired the row and whichever publish carried the block over. *)
THEOREM BlockedAfterLapse == Spec => []BlockedOnlyAfterLapse
<1>1. LifecycleInv => BlockedOnlyAfterLapse
  BY DEF LifecycleInv, DeadlineInv, RowsKeepPromise, expiryIsDue, lapsedElsewhere, lapsed,
         BlockedOnlyAfterLapse
<1>2. QED
  BY <1>1, LifecycleInvariance, PTL
=============================================================================
