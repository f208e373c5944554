------------------------- MODULE Lifecycle_proofs -------------------------
(***************************************************************************)
(* Proofs about Lifecycle, for any customers, versions, handlers, sweepers, *)
(* publishers and any bounds on the clock and on the number of faults.      *)
(***************************************************************************)
EXTENDS Lifecycle, TLAPS

MaybeRow == CustomerVersionState \cup {NoRow}

-----------------------------------------------------------------------------
(* Rows *)

(* Only the absence of a row has the state "ABSENT". *)
LEMMA RowState ==
  ASSUME NEW r \in MaybeRow, r # NoRow
  PROVE  r \in CustomerVersionState /\ r.state \in CvsState
BY DEF MaybeRow, CustomerVersionState

LEMMA StateOfRow ==
  ASSUME NEW r \in MaybeRow, r.state \in CvsState
  PROVE  r # NoRow /\ r \in CustomerVersionState
BY DEF MaybeRow, NoRow, CvsState

(* A changed state leaves a row a row. *)
LEMMA ChangedStateType ==
  ASSUME NEW r \in CustomerVersionState, NEW to \in CvsState
  PROVE  /\ [r EXCEPT !.state = to] \in CustomerVersionState
         /\ [r EXCEPT !.state = to].state = to
BY DEF CustomerVersionState

LEMMA PendingRowType ==
  ASSUME NEW deadline \in MaybeTime
  PROVE  PendingRow(deadline) \in CustomerVersionState
BY DEF PendingRow, NoRow, CustomerVersionState, CvsState, MaybeTime

LEMMA AcceptedRowType ==
  /\ [PendingRow(None) EXCEPT !.state = "ACCEPTED"] \in CustomerVersionState
  /\ [PendingRow(None) EXCEPT !.state = "ACCEPTED"].state = "ACCEPTED"
<1> DEFINE r == PendingRow(None)
<1>1. r \in CustomerVersionState
  BY PendingRowType DEF MaybeTime
<1> HIDE DEF r
<1>2. /\ [r EXCEPT !.state = "ACCEPTED"] \in CustomerVersionState
      /\ [r EXCEPT !.state = "ACCEPTED"].state = "ACCEPTED"
  BY <1>1, ChangedStateType DEF CvsState
<1>3. QED
  BY <1>2 DEF r

(* The access of a row at a day is a row with a deadline on a day. *)
LEMMA RecordAccessType ==
  ASSUME NEW r \in CustomerVersionState, NEW v \in Version, NEW t \in Nat,
         NEW b \in BOOLEAN
  PROVE  recordAccess(r, v, t, b) \in CustomerVersionState
<1>1. objectionDeadline(v, t, b) \in Nat
  BY VersionAssumption DEF objectionDeadline, laterOf
<1>2. QED
  BY <1>1 DEF recordAccess, CustomerVersionState, CvsState, MaybeTime

(* The row a publish or a carry-over creates. *)
LEMMA CarriedRowType ==
  ASSUME NEW r \in CustomerVersionState, NEW b \in BOOLEAN
  PROVE  [r EXCEPT !.carryOverBlocking = b, !.notificationDue = TRUE] \in CustomerVersionState
BY DEF CustomerVersionState

LEMMA RolloutDeadlineType ==
  ASSUME NEW v \in Version
  PROVE  rolloutDeadlineFor(v) \in MaybeTime
BY VersionAssumption DEF rolloutDeadlineFor, MaybeTime

-----------------------------------------------------------------------------
(* Tables *)

States == [Customer -> [Version -> MaybeRow]]

LEMMA SaveType ==
  ASSUME states \in States, NEW c \in Customer, NEW v \in Version, NEW r \in MaybeRow,
         save(c, v, r)
  PROVE  states' \in States
BY DEF save, States

LEMMA SetStateType ==
  ASSUME states \in States, NEW c \in Customer, NEW v \in Version,
         states[c][v].state \in CvsState, NEW to \in CvsState, setState(c, v, to)
  PROVE  states' \in States
<1>1. states[c][v] \in CustomerVersionState
  BY StateOfRow DEF States
<1>2. [states[c][v] EXCEPT !.state = to] \in MaybeRow
  BY <1>1, ChangedStateType DEF MaybeRow
<1>3. states' = [states EXCEPT ![c][v] = [states[c][v] EXCEPT !.state = to]]
  BY DEF setState, States
<1>4. QED
  BY <1>2, <1>3 DEF States

LEMMA NotifyType ==
  ASSUME states \in States, NEW c \in Customer, NEW v \in Version,
         NEW r \in MaybeRow, setNotifiedAtomically(c, v, r),
         states[c][v].state = "PENDING_NOTIFICATION" => r.state \in CvsState
  PROVE  states' \in States
<1>1. CASE states' = states
  BY <1>1
<1>2. CASE states' # states
  <2> DEFINE old == states[c][v]
             new == [old EXCEPT !.state = r.state, !.notifiedAt = r.notifiedAt,
                                !.deadlineAt = r.deadlineAt]
  <2>1. old.state = "PENDING_NOTIFICATION" /\ states' = [states EXCEPT ![c][v] = new]
    BY <1>2 DEF setNotifiedAtomically, inState, States
  <2>2. old \in CustomerVersionState
    BY <2>1, StateOfRow DEF States, CvsState
  <2>3. new \in CustomerVersionState
    BY <2>1, <2>2, StateOfRow DEF CustomerVersionState
  <2>4. new \in MaybeRow
    BY <2>3 DEF MaybeRow
  <2>5. QED
    BY <2>1, <2>4 DEF States
<1>3. QED
  BY <1>1, <1>2

LEMMA AppendAcceptanceType ==
  ASSUME acceptances \subseteq Acceptance, now \in Nat, NEW c \in Customer,
         NEW v \in Version, NEW m \in AcceptanceMethod, appendAcceptance(c, v, m)
  PROVE  acceptances' \subseteq Acceptance
BY DEF appendAcceptance, Acceptance

LEMMA AppendObjectionType ==
  ASSUME objections \subseteq Objection, now \in Nat, NEW c \in Customer,
         NEW v \in Version, appendObjection(c, v)
  PROVE  objections' \subseteq Objection
BY DEF appendObjection, Objection

(* Every snapshot a query returns is one of a stored row. *)
LEMMA SnapshotType ==
  ASSUME states \in States, NEW c \in Customer, NEW v \in Version,
         states[c][v].state \in CvsState
  PROVE  snapshot(c, v) \in Snapshot
BY StateOfRow DEF snapshot, Snapshot, States

LEMMA OpenType ==
  ASSUME states \in States, NEW v \in Version
  PROVE  findOpenByVersion(v) \subseteq Snapshot
BY SnapshotType DEF findOpenByVersion, OPEN_STATES, CvsState

LEMMA DueType ==
  ASSUME states \in States
  PROVE  findDueForSweep \subseteq Snapshot
BY SnapshotType DEF findDueForSweep, SWEEPABLE_STATES, CvsState

-----------------------------------------------------------------------------
(* Requests *)

LEMMA RequestInFlight ==
  ASSUME ApiTypeOK, NEW p \in Handler, NEW s \in Step, at(p, s)
  PROVE  requests[p] \in Request
BY DEF ApiTypeOK, at, Idle, Step

LEMMA FinishType ==
  ASSUME ApiTypeOK, NEW p \in Handler, finish(p)
  PROVE  ApiTypeOK'
BY DEF ApiTypeOK, finish

LEMMA GotoType ==
  ASSUME ApiTypeOK, NEW p \in Handler, requests[p] \in Request, NEW s \in Step, goto(p, s)
  PROVE  ApiTypeOK'
<1>1. [requests[p] EXCEPT !.step = s] \in Request
  BY DEF Request
<1>2. QED
  BY <1>1 DEF ApiTypeOK, goto

LEMMA GotoWithRowType ==
  ASSUME ApiTypeOK, NEW p \in Handler, requests[p] \in Request, NEW s \in Step,
         NEW r \in MaybeRow,
         requests' = [requests EXCEPT ![p].step = s, ![p].row = r]
  PROVE  ApiTypeOK'
<1>1. [requests[p] EXCEPT !.step = s, !.row = r] \in Request
  BY DEF Request, MaybeRow
<1>2. QED
  BY <1>1 DEF ApiTypeOK

LEMMA StartType ==
  ASSUME ApiTypeOK, NEW p \in Handler, NEW s \in Step, NEW c \in Customer,
         NEW v \in Version, NEW r \in MaybeRow, NEW m \in GivenMethod,
         start(p, s, c, v, r, m)
  PROVE  ApiTypeOK'
BY DEF ApiTypeOK, start, Request, MaybeRow

(* The store's type, split into the table that rows live in and the rest. *)
LEMMA StoreTypeParts ==
  StoreTypeOK <=>
    /\ states \in States
    /\ now \in Nat
    /\ versions \in [Version -> [status : VersionStatus, publishedAt : MaybeTime]]
    /\ acceptances \subseteq Acceptance
    /\ objections \subseteq Objection
    /\ faults \in Nat
    /\ orphans \subseteq Customer \X Version
BY DEF StoreTypeOK, States, MaybeRow

LEMMA StoreTypePartsNext ==
  StoreTypeOK' <=>
    /\ states' \in States
    /\ now' \in Nat
    /\ versions' \in [Version -> [status : VersionStatus, publishedAt : MaybeTime]]
    /\ acceptances' \subseteq Acceptance
    /\ objections' \subseteq Objection
    /\ faults' \in Nat
    /\ orphans' \subseteq Customer \X Version
BY DEF StoreTypeOK, States, MaybeRow

(* What a handler is about to write over a stored row was one. *)
HoldsRow(p) ==
  LET q == requests[p]
      row == states[q.customer][q.version]
  IN at(p, "recordWrite") \/ (at(p, "notifyWrite") /\ row.state = "PENDING_NOTIFICATION") =>
       q.row.state \in CvsState

LEMMA EntitledHoldsRow ==
  ASSUME NEW p \in Handler, entitled(p)
  PROVE  HoldsRow(p)
BY DEF entitled, HoldsRow, at, acceptable, ACCEPTABLE_FROM, CvsState

LEMMA ApiKeepsType ==
  ASSUME StoreTypeOK, ApiTypeOK, NEW p \in Handler, HoldsRow(p), ApiStep(p)
  PROVE  StoreTypeOK' /\ ApiTypeOK'
<1> USE DEF storeVars, contextVars, recordVars
<1>0. /\ states \in States /\ NoRow \in MaybeRow
      /\ \A c \in Customer, v \in Version : states[c][v] \in MaybeRow
  BY StoreTypeParts DEF States, MaybeRow
<1>1. ASSUME NEW c \in Customer, NEW v \in Version, AcceptStart(p, c, v)
      PROVE  StoreTypeOK' /\ ApiTypeOK'
  BY <1>0, <1>1, StartType DEF AcceptStart, StoreTypeOK, Step, GivenMethod
<1>2. ASSUME NEW c \in Customer, NEW v \in Version, ObjectRead(p, c, v)
      PROVE  StoreTypeOK' /\ ApiTypeOK'
  BY <1>0, <1>2, StartType DEF ObjectRead, StoreTypeOK, Step, GivenMethod
<1>3. ASSUME NEW c \in Customer, NEW v \in Version, NotifyRead(p, c, v)
      PROVE  StoreTypeOK' /\ ApiTypeOK'
  <2> DEFINE row == states[c][v]
  <2>1. row \in CustomerVersionState
    BY <1>0, <1>3, RowState DEF NotifyRead, exists
  <2>2. row.carryOverBlocking \in BOOLEAN
    BY <2>1 DEF CustomerVersionState
  <2>3. now \in Nat
    BY DEF StoreTypeOK
  <2>4. recordAccess(row, v, now, row.carryOverBlocking) \in MaybeRow
    BY <2>1, <2>2, <2>3, RecordAccessType DEF MaybeRow
  <2>5. QED
    BY <1>3, <2>4, StartType DEF NotifyRead, StoreTypeOK, Step, GivenMethod
<1>4. ASSUME NEW c \in Customer, NEW v \in Version, NEW m \in GivenMethod,
             RecordRead(p, c, v, m)
      PROVE  StoreTypeOK' /\ ApiTypeOK'
  BY <1>0, <1>4, StartType DEF RecordRead, StoreTypeOK, Step
<1>5. CASE AcceptRead(p)
  <2>1. requests[p] \in Request
    BY <1>5, RequestInFlight DEF AcceptRead, Step
  <2>2. states[requests[p].customer][requests[p].version] \in MaybeRow
    BY <1>0, <2>1 DEF Request
  <2>3. QED
    BY <1>5, <2>1, <2>2, FinishType, GotoWithRowType DEF AcceptRead, StoreTypeOK, Step
<1>6. CASE AcceptWrite(p)
  <2> DEFINE q == requests[p]
  <2>1. q \in Request /\ q.customer \in Customer /\ q.version \in Version /\ q.row \in MaybeRow
    BY <1>6, RequestInFlight DEF AcceptWrite, Step, Request, MaybeRow
  <2>2. ApiTypeOK'
    BY <1>6, <2>1, FinishType, GotoType DEF AcceptWrite, Step
  <2>3. [PendingRow(None) EXCEPT !.state = "ACCEPTED"] \in MaybeRow
    BY AcceptedRowType DEF MaybeRow
  <2>4. CASE q.row = NoRow
    <3>1. states' \in States
      BY <1>0, <1>6, <2>1, <2>3, <2>4, SaveType DEF AcceptWrite
    <3>2. QED
      BY <1>6, <2>2, <3>1, StoreTypeParts, StoreTypePartsNext DEF AcceptWrite
  <2>5. CASE q.row # NoRow
    <3>1. q.row.state \in CvsState
      BY <2>1, <2>5, RowState
    <3>2. states' \in States
      BY <1>0, <1>6, <2>1, <2>5, <3>1, SetStateType DEF AcceptWrite, inState, CvsState
    <3>3. QED
      BY <1>6, <2>2, <3>2, StoreTypeParts, StoreTypePartsNext DEF AcceptWrite
  <2>6. QED
    BY <2>4, <2>5
<1>7. CASE RecordCreate(p)
  <2> DEFINE q == requests[p]
  <2>1. q \in Request /\ q.customer \in Customer /\ q.version \in Version
    BY <1>7, RequestInFlight DEF RecordCreate, Step, Request
  <2>2. PendingRow(None) \in MaybeRow
    BY PendingRowType DEF MaybeTime, MaybeRow
  <2>3. ApiTypeOK'
    BY <1>7, <2>1, <2>2, FinishType, GotoWithRowType DEF RecordCreate, Step
  <2>4. states' \in States
    BY <1>0, <1>7, <2>1, <2>2, SaveType DEF RecordCreate
  <2>5. QED
    BY <1>7, <2>3, <2>4, StoreTypeParts, StoreTypePartsNext DEF RecordCreate
<1>8. CASE RecordWrite(p)
  <2> DEFINE q == requests[p]
  <2>1. q \in Request /\ q.customer \in Customer /\ q.version \in Version /\ q.row \in MaybeRow
    BY <1>8, RequestInFlight DEF RecordWrite, Step, Request, MaybeRow
  <2>2. ApiTypeOK'
    BY <1>8, <2>1, FinishType, GotoType DEF RecordWrite, Step
  <2>3. q.row.state \in CvsState
    BY <1>8 DEF RecordWrite, HoldsRow
  <2>4. states' \in States
    BY <1>0, <1>8, <2>1, <2>3, SetStateType DEF RecordWrite, inState, CvsState
  <2>5. QED
    BY <1>8, <2>2, <2>4, StoreTypeParts, StoreTypePartsNext DEF RecordWrite
<1>9. CASE AcceptanceAppend(p)
  <2> DEFINE q == requests[p]
  <2>1. q.customer \in Customer /\ q.version \in Version /\ q.method \in AcceptanceMethod
    BY <1>9, RequestInFlight
    DEF AcceptanceAppend, Step, Request, GivenMethod, AcceptanceMethod
  <2>2. acceptances' \subseteq Acceptance
    BY <1>9, <2>1, AppendAcceptanceType DEF AcceptanceAppend, StoreTypeOK
  <2>3. QED
    BY <1>9, <2>2, FinishType DEF AcceptanceAppend, StoreTypeOK
<1>10. CASE ObjectWrite(p)
  <2> DEFINE q == requests[p]
  <2>1. q \in Request /\ q.customer \in Customer /\ q.version \in Version
    BY <1>10, RequestInFlight DEF ObjectWrite, Step, Request
  <2>2. ApiTypeOK'
    BY <1>10, <2>1, FinishType, GotoType DEF ObjectWrite, Step
  <2>3. states' \in States
    BY <1>0, <1>10, <2>1, SetStateType DEF ObjectWrite, inState, CvsState
  <2>4. QED
    BY <1>10, <2>2, <2>3, StoreTypeParts, StoreTypePartsNext DEF ObjectWrite
<1>11. CASE ObjectionAppend(p)
  <2> DEFINE q == requests[p]
  <2>1. q.customer \in Customer /\ q.version \in Version
    BY <1>11, RequestInFlight DEF ObjectionAppend, Step, Request
  <2>2. objections' \subseteq Objection
    BY <1>11, <2>1, AppendObjectionType DEF ObjectionAppend, StoreTypeOK
  <2>3. QED
    BY <1>11, <2>2, FinishType DEF ObjectionAppend, StoreTypeOK
<1>12. CASE NotifyWrite(p)
  <2> DEFINE q == requests[p]
  <2>1. q.customer \in Customer /\ q.version \in Version /\ q.row \in MaybeRow
    BY <1>12, RequestInFlight DEF NotifyWrite, Step, Request, MaybeRow
  <2>2. states[q.customer][q.version].state = "PENDING_NOTIFICATION" =>
          q.row.state \in CvsState
    BY <1>12 DEF NotifyWrite, HoldsRow
  <2>3. states' \in States
    BY <1>0, <1>12, <2>1, <2>2, NotifyType DEF NotifyWrite
  <2>4. QED
    BY <1>12, <2>3, FinishType, StoreTypeParts, StoreTypePartsNext DEF NotifyWrite
<1>13. CASE HandlerDies(p)
  <2>1. CASE at(p, "appendAcceptance")
    <3>1. requests[p].customer \in Customer /\ requests[p].version \in Version
      BY <2>1, RequestInFlight DEF Step, Request
    <3>2. QED
      BY <1>13, <2>1, <3>1, FinishType DEF HandlerDies, Fault, StoreTypeOK
  <2>2. CASE ~at(p, "appendAcceptance")
    BY <1>13, <2>2, FinishType DEF HandlerDies, Fault, StoreTypeOK
  <2>3. QED
    BY <2>1, <2>2
<1>14. QED
  BY <1>1, <1>2, <1>3, <1>4, <1>5, <1>6, <1>7, <1>8, <1>9, <1>10, <1>11, <1>12, <1>13
  DEF ApiStep, ApiStart, ApiProgress

-----------------------------------------------------------------------------
(* Sweeps *)

LEMMA SweepKeepsType ==
  ASSUME StoreTypeOK, SweepTypeOK, NEW s \in Sweeper, SweepStep(s)
  PROVE  StoreTypeOK' /\ SweepTypeOK'
<1> USE DEF storeVars, sweepContext
<1> DEFINE Run == [due : SUBSET Snapshot, tacit : SUBSET (Customer \X Version)]
<1>0. /\ states \in States
      /\ sweeps[s] \in Run
      /\ sweeps[s].due \subseteq Snapshot /\ sweeps[s].tacit \subseteq Customer \X Version
  BY StoreTypeParts DEF SweepTypeOK
<1>1. CASE SweepFind(s)
  BY <1>0, <1>1, DueType DEF SweepFind, SweepTypeOK, StoreTypeOK
<1>2. ASSUME NEW d \in sweeps[s].due, SweepSkip(s, d)
      PROVE  StoreTypeOK' /\ SweepTypeOK'
  BY <1>0, <1>2 DEF SweepSkip, handled, SweepTypeOK, StoreTypeOK
<1>3. ASSUME NEW d \in sweeps[s].due,
             SweepExpire(s, d) \/ SweepTacit(s, d)
      PROVE  StoreTypeOK' /\ SweepTypeOK'
  <2>1. d.customer \in Customer /\ d.version \in Version /\ d.row.state \in CvsState
    BY <1>0 DEF Snapshot, CustomerVersionState
  <2>2. states[d.customer][d.version].state \in CvsState
    BY <1>3, <2>1 DEF SweepExpire, SweepTacit, applies, inState
  <2>3. states' \in States
    BY <1>0, <1>3, <2>1, <2>2, SetStateType DEF SweepExpire, SweepTacit, CvsState
  <2>4. StoreTypeOK'
    BY <1>3, <2>3, StoreTypeParts, StoreTypePartsNext DEF SweepExpire, SweepTacit
  <2>5. CASE SweepExpire(s, d)
    BY <1>0, <2>4, <2>5 DEF SweepExpire, handled, SweepTypeOK
  <2>6. CASE SweepTacit(s, d)
    BY <1>0, <2>1, <2>4, <2>6 DEF SweepTacit, handled, SweepTypeOK
  <2>7. QED
    BY <1>3, <2>5, <2>6
<1>4. CASE SweepAppend(s)
  <2>1. PICK k \in sweeps[s].tacit :
          /\ appendAcceptance(k[1], k[2], "TACIT")
          /\ sweeps' = [sweeps EXCEPT ![s].tacit = {}]
          /\ UNCHANGED <<sweepContext, states, faults, orphans>>
    BY <1>4 DEF SweepAppend
  <2>2. k[1] \in Customer /\ k[2] \in Version
    BY <1>0
  <2>3. acceptances' \subseteq Acceptance
    BY <2>1, <2>2, AppendAcceptanceType DEF StoreTypeOK, AcceptanceMethod
  <2>4. StoreTypeOK'
    BY <2>1, <2>3 DEF StoreTypeOK
  <2>5. SweepTypeOK'
    BY <1>0, <2>1 DEF SweepTypeOK
  <2>6. QED
    BY <2>4, <2>5
<1>5. CASE SweepEntryFails(s) \/ SweepDies(s)
  <2>1. StoreTypeOK'
    BY <1>0, <1>5 DEF SweepEntryFails, SweepDies, Fault, StoreTypeOK
  <2>2. CASE SweepEntryFails(s)
    BY <1>0, <2>1, <2>2 DEF SweepEntryFails, SweepTypeOK
  <2>3. CASE SweepDies(s)
    BY <1>0, <2>1, <2>3 DEF SweepDies, SweepTypeOK
  <2>4. QED
    BY <1>5, <2>2, <2>3
<1>6. QED
  BY <1>1, <1>2, <1>3, <1>4, <1>5 DEF SweepStep, SweepProgress, SweepHandle

-----------------------------------------------------------------------------
(* Publishes *)

LEMMA PublicationInFlight ==
  ASSUME PublishTypeOK, NEW a \in Publisher, publishing(a)
  PROVE  publications[a] \in Publication
BY DEF PublishTypeOK, publishing

LEMMA EndPublishType ==
  ASSUME PublishTypeOK, NEW a \in Publisher, endPublish(a)
  PROVE  PublishTypeOK'
BY DEF PublishTypeOK, endPublish

LEMMA PublishKeepsType ==
  ASSUME StoreTypeOK, PublishTypeOK, NEW a \in Publisher, PublishStep(a)
  PROVE  StoreTypeOK' /\ PublishTypeOK'
<1> USE DEF storeVars, evidenceVars
<1>0. states \in States /\ now \in Nat
  BY StoreTypeParts
<1>1. ASSUME NEW v \in Version, PublishRead(a, v)
      PROVE  StoreTypeOK' /\ PublishTypeOK'
  BY <1>1 DEF PublishRead, PublishTypeOK, StoreTypeOK, Publication
<1>2. CASE PublishDies(a)
  BY <1>2, EndPublishType DEF PublishDies, Fault, StoreTypeOK
<1>3. CASE publishing(a) /\ PublishProgress(a)
  <2> DEFINE b == publications[a]
  <2>0. /\ b \in Publication
        /\ b.version \in Version /\ b.predecessors \subseteq VersionRow
        /\ b.draining \subseteq Version /\ b.open \subseteq Snapshot
    BY <1>3, PublicationInFlight DEF Publication
  <2>1. CASE PublishSave(a)
    BY <1>0, <2>0, <2>1
    DEF PublishSave, PublishTypeOK, Publication, StoreTypeOK, VersionStatus, MaybeTime
  <2>2. CASE PublishSiblings(a)
    <3> DEFINE read == {versionRow(w) : w \in {x \in Version : Published(x) /\ x # b.version}}
    <3>1. read \subseteq VersionRow
      BY DEF StoreTypeOK, VersionRow, versionRow
    <3>2. publications' = [publications EXCEPT ![a].step = "predecessors",
                                               ![a].predecessors = read]
      BY <2>2 DEF PublishSiblings
    <3> HIDE DEF read
    <3>3. PublishTypeOK'
      BY <2>0, <3>1, <3>2 DEF PublishTypeOK, Publication
    <3>4. QED
      BY <2>2, <3>3 DEF PublishSiblings, StoreTypeOK
  <2>3. ASSUME NEW w \in b.predecessors, PublishRetire(a, w)
        PROVE  StoreTypeOK' /\ PublishTypeOK'
    <3>1. w.version \in Version /\ w.publishedAt \in MaybeTime
      BY <2>0 DEF VersionRow
    <3>2. PublishTypeOK'
      BY <2>0, <2>3, <3>1 DEF PublishRetire, PublishTypeOK, Publication
    <3>3. QED
      BY <2>3, <3>1, <3>2 DEF PublishRetire, saveRetired, StoreTypeOK, VersionStatus
  <2>4. CASE PublishFindOpen(a)
    <3>1. UNION {findOpenByVersion(w) : w \in b.draining} \subseteq Snapshot
      BY <1>0, <2>0, OpenType
    <3>2. QED
      BY <2>0, <2>4, <3>1 DEF PublishFindOpen, PublishTypeOK, Publication, StoreTypeOK
  <2>5. ASSUME NEW d \in b.open, PublishSupersede(a, d)
        PROVE  StoreTypeOK' /\ PublishTypeOK'
    <3>1. d.customer \in Customer /\ d.version \in Version /\ d.row \in CustomerVersionState
      BY <2>0 DEF Snapshot
    <3>2. supersede(d.row) \in MaybeRow
      BY <3>1, ChangedStateType DEF supersede, CvsState, MaybeRow
    <3>3. states' \in States
      BY <1>0, <2>5, <3>1, <3>2, SaveType DEF PublishSupersede
    <3>4. PublishTypeOK'
      BY <2>0, <2>5, <3>1 DEF PublishSupersede, PublishTypeOK, Publication
    <3>5. QED
      BY <2>5, <3>3, <3>4, StoreTypeParts, StoreTypePartsNext DEF PublishSupersede
  <2>6. CASE PublishTargets(a)
    BY <2>0, <2>6, StoreAssumption
    DEF PublishTargets, PublishTypeOK, Publication, StoreTypeOK
  <2>7. ASSUME NEW c \in Customer, PublishRollout(a, c)
        PROVE  StoreTypeOK' /\ PublishTypeOK'
    <3>1. PendingRow(rolloutDeadlineFor(b.version)) \in CustomerVersionState
      BY <2>0, PendingRowType, RolloutDeadlineType
    <3>2. rolloutRow(a, c) \in MaybeRow
      <4> DEFINE carried == c \in publications[a].blocking
      <4>1. carried \in BOOLEAN
        OBVIOUS
      <4>2. [PendingRow(rolloutDeadlineFor(b.version)) EXCEPT
               !.carryOverBlocking = carried, !.notificationDue = TRUE]
              \in CustomerVersionState
        <5> HIDE DEF carried
        <5>1. QED
          BY <3>1, <4>1, CarriedRowType
      <4>3. QED
        BY <4>2 DEF rolloutRow, MaybeRow
    <3>3. states' \in States
      BY <1>0, <2>0, <2>7, <3>2, SaveType DEF PublishRollout
    <3>4. PublishTypeOK'
      BY <2>0, <2>7 DEF PublishRollout, PublishTypeOK, Publication
    <3>5. QED
      BY <2>7, <3>3, <3>4, StoreTypeParts, StoreTypePartsNext DEF PublishRollout
  <2>8. ASSUME NEW c \in Customer, PublishRefused(a, c)
        PROVE  StoreTypeOK' /\ PublishTypeOK'
    BY <2>8, EndPublishType DEF PublishRefused, StoreTypeOK
  <2>9. CASE PublishReturn(a)
    BY <2>9, EndPublishType DEF PublishReturn, StoreTypeOK
  <2>10. QED
    BY <1>3, <2>1, <2>2, <2>3, <2>4, <2>5, <2>6, <2>7, <2>8, <2>9 DEF PublishProgress
<1>4. QED
  BY <1>1, <1>2, <1>3 DEF PublishStep

-----------------------------------------------------------------------------
(* What a write does to the table, row by row. *)

Others(c, v) ==
  \A d \in Customer, w \in Version : d # c \/ w # v => states'[d][w] = states[d][w]

LEMMA SaveEffect ==
  ASSUME states \in States, NEW c \in Customer, NEW v \in Version, NEW r, save(c, v, r)
  PROVE  states'[c][v] = r /\ Others(c, v)
BY DEF save, States, Others

LEMMA SetStateEffect ==
  ASSUME states \in States, NEW c \in Customer, NEW v \in Version,
         states[c][v].state \in CvsState, NEW to, setState(c, v, to)
  PROVE  states'[c][v].state = to /\ Others(c, v)
<1>1. states[c][v] \in CustomerVersionState
  BY StateOfRow DEF States
<1>2. states' = [states EXCEPT ![c][v] = [states[c][v] EXCEPT !.state = to]]
  BY DEF setState, States
<1>3. [states[c][v] EXCEPT !.state = to].state = to
  BY <1>1 DEF CustomerVersionState
<1>4. QED
  BY <1>2, <1>3 DEF States, Others

LEMMA NotifyEffect ==
  ASSUME states \in States, NEW c \in Customer, NEW v \in Version, NEW r,
         setNotifiedAtomically(c, v, r), states' # states
  PROVE  /\ states[c][v].state = "PENDING_NOTIFICATION"
         /\ states'[c][v].state = r.state
         /\ Others(c, v)
<1> DEFINE old == states[c][v]
           new == [old EXCEPT !.state = r.state, !.notifiedAt = r.notifiedAt,
                              !.deadlineAt = r.deadlineAt]
<1>1. old.state = "PENDING_NOTIFICATION" /\ states' = [states EXCEPT ![c][v] = new]
  BY DEF setNotifiedAtomically, inState, States
<1>2. old \in CustomerVersionState
  BY <1>1, StateOfRow DEF States, CvsState
<1>3. new.state = r.state
  BY <1>2 DEF CustomerVersionState
<1>4. QED
  BY <1>1, <1>3 DEF States, Others

-----------------------------------------------------------------------------
(* Steps that neither settle a row nor touch the evidence. *)

appending(p) == requests[p].step \in {"appendAcceptance", "appendObjection"}

(* No row is accepted, and none that is settled or objected to is reopened. *)
RowsStayAnswered ==
  \A c \in Customer, v \in Version :
    \/ states'[c][v].state \in {states[c][v].state, "SUPERSEDED"}
    \/ /\ states[c][v].state \notin Settled \cup {"OBJECTED"}
       /\ states'[c][v].state # "ACCEPTED"

NoNewAppend ==
  \A p \in Handler : requests'[p] = requests[p] \/ (~appending(p) /\ ~appending(p)')

EvidenceInv ==
  /\ AcceptedRowHasEvidence
  /\ EvidenceSettlesRow
  /\ OneWriterWins
  /\ ObjectionStopsTacit
  /\ PendingSettlesRow
  /\ ObjectionHoldsRow

(* Such a step keeps the whole evidence invariant. *)
LEMMA QuietStep ==
  ASSUME EvidenceInv, RowsStayAnswered, NoNewAppend,
         UNCHANGED <<acceptances, objections, orphans>>,
         \A s \in Sweeper : sweeps'[s].tacit = sweeps[s].tacit
  PROVE  EvidenceInv'
<1>1. \A p \in Handler : \A c, v : acceptingRequest(p, c, v)' <=> acceptingRequest(p, c, v)
  BY DEF NoNewAppend, appending, acceptingRequest, at
<1>2. \A s \in Sweeper : \A c, v : acceptingSweep(s, c, v)' <=> acceptingSweep(s, c, v)
  BY DEF acceptingSweep
<1>3. \A c, v : evidencePending(c, v)' <=> evidencePending(c, v)
  BY <1>1, <1>2 DEF evidencePending
<1>4. \A c, v : objectionPending(c, v)' <=> objectionPending(c, v)
  BY DEF NoNewAppend, appending, objectionPending, at
<1>5. \A c, v : /\ accepted(c, v)' <=> accepted(c, v)
                /\ tacitlyAccepted(c, v)' <=> tacitlyAccepted(c, v)
                /\ objected(c, v)' <=> objected(c, v)
  BY DEF accepted, tacitlyAccepted, objected
<1>6. AcceptedRowHasEvidence'
  BY <1>3, <1>5 DEF EvidenceInv, AcceptedRowHasEvidence, RowsStayAnswered
<1>7. EvidenceSettlesRow'
  BY <1>5 DEF EvidenceInv, EvidenceSettlesRow, RowsStayAnswered, Settled
<1>8. OneWriterWins'
  BY <1>1, <1>2, <1>3, <1>5 DEF EvidenceInv, OneWriterWins
<1>9. ObjectionStopsTacit'
  BY <1>2, <1>4, <1>5 DEF EvidenceInv, ObjectionStopsTacit
<1>10. PendingSettlesRow'
  BY <1>3 DEF EvidenceInv, PendingSettlesRow, RowsStayAnswered, Settled
<1>11. ObjectionHoldsRow'
  BY <1>4, <1>5 DEF EvidenceInv, ObjectionHoldsRow, RowsStayAnswered, Settled
<1>12. QED
  BY <1>6, <1>7, <1>8, <1>9, <1>10, <1>11 DEF EvidenceInv

-----------------------------------------------------------------------------
(* Steps that settle a row or move evidence. *)

OtherRequests(p) == \A r \in Handler : r # p => requests'[r] = requests[r]
OtherSweeps(s) == \A t \in Sweeper : t # s => sweeps'[t] = sweeps[t]

(* A request accepts the row it names: the guard of the write held, so nobody
   else had settled the row and no evidence for it exists or is on its way. *)
LEMMA AcceptingStep ==
  ASSUME EvidenceInv, NEW p \in Handler, NEW c \in Customer, NEW v \in Version,
         ~appending(p),
         requests'[p].step = "appendAcceptance",
         requests'[p].customer = c, requests'[p].version = v, OtherRequests(p),
         states[c][v].state \notin Settled,
         states'[c][v].state = "ACCEPTED", Others(c, v),
         UNCHANGED <<acceptances, objections, orphans, sweeps>>
  PROVE  EvidenceInv'
<1>1. \A r \in Handler : \A d, w : acceptingRequest(r, d, w)' <=>
        acceptingRequest(r, d, w) \/ (r = p /\ d = c /\ w = v)
  BY DEF appending, acceptingRequest, at, OtherRequests
<1>2. \A s \in Sweeper : \A d, w : acceptingSweep(s, d, w)' <=> acceptingSweep(s, d, w)
  BY DEF acceptingSweep
<1>3. \A d, w : evidencePending(d, w)' <=> evidencePending(d, w) \/ (d = c /\ w = v)
  BY <1>1, <1>2 DEF evidencePending
<1>4. \A d, w : objectionPending(d, w)' <=> objectionPending(d, w)
  BY DEF appending, objectionPending, at, OtherRequests
<1>5. \A d, w : /\ accepted(d, w)' <=> accepted(d, w)
                /\ tacitlyAccepted(d, w)' <=> tacitlyAccepted(d, w)
                /\ objected(d, w)' <=> objected(d, w)
  BY DEF accepted, tacitlyAccepted, objected
<1>6. ~accepted(c, v) /\ ~evidencePending(c, v)
  BY DEF EvidenceInv, EvidenceSettlesRow, PendingSettlesRow, Settled
<1>7. /\ \A r \in Handler : ~acceptingRequest(r, c, v)
      /\ \A s \in Sweeper : ~acceptingSweep(s, c, v)
  BY <1>6 DEF evidencePending
<1>8. AcceptedRowHasEvidence'
  BY <1>3, <1>5 DEF EvidenceInv, AcceptedRowHasEvidence, Others
<1>9. EvidenceSettlesRow'
  BY <1>5, <1>6 DEF EvidenceInv, EvidenceSettlesRow, Others
<1>10. OneWriterWins'
  BY <1>1, <1>2, <1>3, <1>5, <1>6, <1>7 DEF EvidenceInv, OneWriterWins
<1>11. ObjectionStopsTacit'
  BY <1>2, <1>4, <1>5 DEF EvidenceInv, ObjectionStopsTacit
<1>12. PendingSettlesRow'
  BY <1>3 DEF EvidenceInv, PendingSettlesRow, Others, Settled
<1>13. ObjectionHoldsRow'
  BY <1>4, <1>5 DEF EvidenceInv, ObjectionHoldsRow, Others, Settled
<1>14. QED
  BY <1>8, <1>9, <1>10, <1>11, <1>12, <1>13 DEF EvidenceInv

(* The same for the sweep, which takes only rows in state NOTIFIED: no
   objection stands against those. *)
LEMMA TacitStep ==
  ASSUME EvidenceInv, NEW s \in Sweeper, NEW c \in Customer, NEW v \in Version,
         sweeps[s].tacit = {}, sweeps'[s].tacit = {<<c, v>>}, OtherSweeps(s),
         states[c][v].state = "NOTIFIED",
         states'[c][v].state = "ACCEPTED", Others(c, v),
         UNCHANGED <<acceptances, objections, orphans, requests>>
  PROVE  EvidenceInv'
<1>1. \A r \in Handler : \A d, w : acceptingRequest(r, d, w)' <=> acceptingRequest(r, d, w)
  BY DEF acceptingRequest, at
<1>2. \A t \in Sweeper : \A d, w : acceptingSweep(t, d, w)' <=>
        acceptingSweep(t, d, w) \/ (t = s /\ d = c /\ w = v)
  BY DEF acceptingSweep, OtherSweeps
<1>3. \A d, w : evidencePending(d, w)' <=> evidencePending(d, w) \/ (d = c /\ w = v)
  BY <1>1, <1>2 DEF evidencePending
<1>4. \A d, w : objectionPending(d, w)' <=> objectionPending(d, w)
  BY DEF objectionPending, at
<1>5. \A d, w : /\ accepted(d, w)' <=> accepted(d, w)
                /\ tacitlyAccepted(d, w)' <=> tacitlyAccepted(d, w)
                /\ objected(d, w)' <=> objected(d, w)
  BY DEF accepted, tacitlyAccepted, objected
<1>6. ~accepted(c, v) /\ ~evidencePending(c, v)
  BY DEF EvidenceInv, EvidenceSettlesRow, PendingSettlesRow, Settled
<1>7. /\ \A r \in Handler : ~acceptingRequest(r, c, v)
      /\ \A t \in Sweeper : ~acceptingSweep(t, c, v)
  BY <1>6 DEF evidencePending
<1>8. ~tacitlyAccepted(c, v) /\ ~objected(c, v) /\ ~objectionPending(c, v)
  BY <1>6 DEF EvidenceInv, ObjectionHoldsRow, Settled, accepted, tacitlyAccepted
<1>9. AcceptedRowHasEvidence'
  BY <1>3, <1>5 DEF EvidenceInv, AcceptedRowHasEvidence, Others
<1>10. EvidenceSettlesRow'
  BY <1>5, <1>6 DEF EvidenceInv, EvidenceSettlesRow, Others
<1>11. OneWriterWins'
  BY <1>1, <1>2, <1>3, <1>5, <1>6, <1>7 DEF EvidenceInv, OneWriterWins
<1>12. ObjectionStopsTacit'
  BY <1>2, <1>4, <1>5, <1>8 DEF EvidenceInv, ObjectionStopsTacit
<1>13. PendingSettlesRow'
  BY <1>3 DEF EvidenceInv, PendingSettlesRow, Others, Settled
<1>14. ObjectionHoldsRow'
  BY <1>4, <1>5 DEF EvidenceInv, ObjectionHoldsRow, Others, Settled
<1>15. QED
  BY <1>9, <1>10, <1>11, <1>12, <1>13, <1>14 DEF EvidenceInv

(* A customer objects: the row was NOTIFIED, so it is under no acceptance. *)
LEMMA ObjectingStep ==
  ASSUME EvidenceInv, NEW p \in Handler, NEW c \in Customer, NEW v \in Version,
         ~appending(p),
         requests'[p].step = "appendObjection",
         requests'[p].customer = c, requests'[p].version = v, OtherRequests(p),
         states[c][v].state = "NOTIFIED",
         states'[c][v].state = "OBJECTED", Others(c, v),
         UNCHANGED <<acceptances, objections, orphans, sweeps>>
  PROVE  EvidenceInv'
<1>1. \A r \in Handler : \A d, w : acceptingRequest(r, d, w)' <=> acceptingRequest(r, d, w)
  BY DEF appending, acceptingRequest, at, OtherRequests
<1>2. \A t \in Sweeper : \A d, w : acceptingSweep(t, d, w)' <=> acceptingSweep(t, d, w)
  BY DEF acceptingSweep
<1>3. \A d, w : evidencePending(d, w)' <=> evidencePending(d, w)
  BY <1>1, <1>2 DEF evidencePending
<1>4. \A d, w : objectionPending(d, w)' => objectionPending(d, w) \/ (d = c /\ w = v)
  BY DEF appending, objectionPending, at, OtherRequests
<1>5. \A d, w : /\ accepted(d, w)' <=> accepted(d, w)
                /\ tacitlyAccepted(d, w)' <=> tacitlyAccepted(d, w)
                /\ objected(d, w)' <=> objected(d, w)
  BY DEF accepted, tacitlyAccepted, objected
<1>6. ~accepted(c, v) /\ ~evidencePending(c, v)
  BY DEF EvidenceInv, EvidenceSettlesRow, PendingSettlesRow, Settled
<1>7. ~tacitlyAccepted(c, v) /\ \A t \in Sweeper : ~acceptingSweep(t, c, v)
  BY <1>6 DEF evidencePending, accepted, tacitlyAccepted
<1>8. AcceptedRowHasEvidence'
  BY <1>3, <1>5 DEF EvidenceInv, AcceptedRowHasEvidence, Others
<1>9. EvidenceSettlesRow'
  BY <1>5, <1>6 DEF EvidenceInv, EvidenceSettlesRow, Others
<1>10. OneWriterWins'
  BY <1>1, <1>2, <1>3, <1>5 DEF EvidenceInv, OneWriterWins
<1>11. ObjectionStopsTacit'
  BY <1>2, <1>4, <1>5, <1>7 DEF EvidenceInv, ObjectionStopsTacit
<1>12. PendingSettlesRow'
  BY <1>3, <1>6 DEF EvidenceInv, PendingSettlesRow, Others
<1>13. ObjectionHoldsRow'
  BY <1>4, <1>5 DEF EvidenceInv, ObjectionHoldsRow, Others, Settled
<1>14. QED
  BY <1>8, <1>9, <1>10, <1>11, <1>12, <1>13 DEF EvidenceInv

(* An acceptance is appended for a row whose acceptance was pending with
   request p (then the method is a given one) or with sweep s (then it is
   TACIT).  The writer was the only one, so nothing is pending any more. *)
LEMMA RecordingStep ==
  ASSUME EvidenceInv, NEW c \in Customer, NEW v \in Version, NEW m,
         evidencePending(c, v), appendAcceptance(c, v, m),
         m = "TACIT" => \E s \in Sweeper : acceptingSweep(s, c, v),
         \A r \in Handler : \A d, w : acceptingRequest(r, d, w)' <=>
            acceptingRequest(r, d, w) /\ ~(d = c /\ w = v),
         \A t \in Sweeper : \A d, w : acceptingSweep(t, d, w)' <=>
            acceptingSweep(t, d, w) /\ ~(d = c /\ w = v),
         \A d, w : objectionPending(d, w)' => objectionPending(d, w),
         UNCHANGED <<states, objections, orphans>>
  PROVE  EvidenceInv'
<1>1. ~accepted(c, v)
  BY DEF EvidenceInv, OneWriterWins
<1>2. PICK a : /\ acceptances' = acceptances \cup {a}
               /\ a.customer = c /\ a.version = v /\ a.method = m
  <2> DEFINE new == [customer |-> c, version |-> v, method |-> m, acceptedAt |-> now]
  <2>1. acceptances' = acceptances \cup {new}
    BY <1>1 DEF appendAcceptance
  <2>2. new.customer = c /\ new.version = v /\ new.method = m
    OBVIOUS
  <2>3. QED
    BY <2>1, <2>2
<1>3. \A d, w : accepted(d, w)' <=> accepted(d, w) \/ (d = c /\ w = v)
  BY <1>2 DEF accepted
<1>4. \A d, w : tacitlyAccepted(d, w)' <=>
                  tacitlyAccepted(d, w) \/ (d = c /\ w = v /\ m = "TACIT")
  BY <1>2 DEF tacitlyAccepted
<1>5. \A d, w : objected(d, w)' <=> objected(d, w)
  BY DEF objected
<1>6. \A d, w : evidencePending(d, w)' <=> evidencePending(d, w) /\ ~(d = c /\ w = v)
  BY DEF evidencePending
<1>7. AcceptedRowHasEvidence'
  BY <1>3, <1>6 DEF EvidenceInv, AcceptedRowHasEvidence
<1>8. EvidenceSettlesRow'
  BY <1>3 DEF EvidenceInv, EvidenceSettlesRow, PendingSettlesRow, Settled
<1>9. OneWriterWins'
  BY <1>3, <1>6 DEF EvidenceInv, OneWriterWins
<1>10. ObjectionStopsTacit'
  BY <1>4, <1>5 DEF EvidenceInv, ObjectionStopsTacit
<1>11. PendingSettlesRow'
  BY <1>6 DEF EvidenceInv, PendingSettlesRow
<1>12. ObjectionHoldsRow'
  BY <1>5 DEF EvidenceInv, ObjectionHoldsRow
<1>13. QED
  BY <1>7, <1>8, <1>9, <1>10, <1>11, <1>12 DEF EvidenceInv

(* An objection whose request was about to record it is recorded. *)
LEMMA ObjectionStep ==
  ASSUME EvidenceInv, NEW c \in Customer, NEW v \in Version,
         objectionPending(c, v), appendObjection(c, v),
         \A r \in Handler : \A d, w : acceptingRequest(r, d, w)' <=> acceptingRequest(r, d, w),
         \A d, w : objectionPending(d, w)' => objectionPending(d, w),
         UNCHANGED <<states, acceptances, orphans, sweeps>>
  PROVE  EvidenceInv'
<1>1. \A d, w : objected(d, w)' <=> objected(d, w) \/ (d = c /\ w = v)
  <2>1. PICK o : /\ objections' = objections \cup {o}
                 /\ o.customer = c /\ o.version = v
    <3> DEFINE new == [customer |-> c, version |-> v, objectedAt |-> now]
    <3>1. objections' = objections \cup {new}
      BY DEF appendObjection
    <3>2. new.customer = c /\ new.version = v
      OBVIOUS
    <3>3. QED
      BY <3>1, <3>2
  <2>2. QED
    BY <2>1 DEF objected
<1>2. \A d, w : /\ accepted(d, w)' <=> accepted(d, w)
                /\ tacitlyAccepted(d, w)' <=> tacitlyAccepted(d, w)
                /\ evidencePending(d, w)' <=> evidencePending(d, w)
  BY DEF accepted, tacitlyAccepted, evidencePending, acceptingSweep
<1>3. \A t \in Sweeper : \A d, w : acceptingSweep(t, d, w)' <=> acceptingSweep(t, d, w)
  BY DEF acceptingSweep
<1>4. AcceptedRowHasEvidence' /\ EvidenceSettlesRow' /\ PendingSettlesRow'
  BY <1>2 DEF EvidenceInv, AcceptedRowHasEvidence, EvidenceSettlesRow, PendingSettlesRow
<1>5. OneWriterWins'
  BY <1>2, <1>3 DEF EvidenceInv, OneWriterWins
<1>6. ObjectionStopsTacit' /\ ObjectionHoldsRow'
  BY <1>1, <1>2, <1>3 DEF EvidenceInv, ObjectionStopsTacit, ObjectionHoldsRow
<1>7. QED
  BY <1>4, <1>5, <1>6 DEF EvidenceInv

(* An operation dies: what was pending with it is no longer, and a row it had
   accepted joins the orphans. *)
LEMMA LosingStep ==
  ASSUME EvidenceInv,
         \A c, v : evidencePending(c, v) => evidencePending(c, v)' \/ <<c, v>> \in orphans',
         \A r \in Handler : \A c, v : acceptingRequest(r, c, v)' => acceptingRequest(r, c, v),
         \A t \in Sweeper : \A c, v : acceptingSweep(t, c, v)' => acceptingSweep(t, c, v),
         \A c, v : objectionPending(c, v)' => objectionPending(c, v),
         orphans \subseteq orphans',
         UNCHANGED <<states, acceptances, objections>>
  PROVE  EvidenceInv'
<1>1. \A c, v : evidencePending(c, v)' => evidencePending(c, v)
  BY DEF evidencePending
<1>2. \A c, v : /\ accepted(c, v)' <=> accepted(c, v)
                /\ tacitlyAccepted(c, v)' <=> tacitlyAccepted(c, v)
                /\ objected(c, v)' <=> objected(c, v)
  BY DEF accepted, tacitlyAccepted, objected
<1>3. AcceptedRowHasEvidence'
  BY <1>2 DEF EvidenceInv, AcceptedRowHasEvidence
<1>4. EvidenceSettlesRow' /\ PendingSettlesRow' /\ ObjectionHoldsRow'
  BY <1>1, <1>2 DEF EvidenceInv, EvidenceSettlesRow, PendingSettlesRow, ObjectionHoldsRow
<1>5. OneWriterWins'
  BY <1>1, <1>2 DEF EvidenceInv, OneWriterWins
<1>6. ObjectionStopsTacit'
  BY <1>2 DEF EvidenceInv, ObjectionStopsTacit
<1>7. QED
  BY <1>3, <1>4, <1>5, <1>6 DEF EvidenceInv

-----------------------------------------------------------------------------
(* What handlers have read stays good. *)

(* No row vanishes and none goes back to waiting for its first access. *)
RowsPersist ==
  \A c \in Customer, v \in Version :
    states[c][v] # NoRow =>
      /\ states'[c][v] # NoRow
      /\ states'[c][v].state = "PENDING_NOTIFICATION" =>
           states[c][v].state = "PENDING_NOTIFICATION"

LEMMA StaysEntitled ==
  ASSUME ApiTypeOK, RowsPersist, NEW p \in Handler, entitled(p),
         requests'[p] = requests[p]
  PROVE  entitled(p)'
<1>1. CASE at(p, "notifyWrite")
  <2>1. requests[p].customer \in Customer /\ requests[p].version \in Version
    BY <1>1, RequestInFlight DEF Step, Request
  <2>2. QED
    BY <1>1, <2>1 DEF entitled, at, RowsPersist
<1>2. CASE ~at(p, "notifyWrite")
  BY <1>2 DEF entitled, at
<1>3. QED
  BY <1>1, <1>2

(* Where a request may wait without having to be entitled to anything. *)
LEMMA NothingToEntitle ==
  ASSUME NEW p \in Handler,
         requests'[p].step \notin {"acceptWrite", "recordWrite", "notifyWrite"}
  PROVE  entitled(p)'
BY DEF entitled, at

LEMMA FinishEffect ==
  ASSUME ApiTypeOK, NEW p \in Handler, finish(p)
  PROVE  OtherRequests(p) /\ requests'[p] = Idle /\ ~appending(p)' /\ entitled(p)'
<1>1. OtherRequests(p) /\ requests'[p] = Idle
  BY DEF ApiTypeOK, finish, OtherRequests
<1>2. QED
  BY <1>1, NothingToEntitle DEF Idle, appending

LEMMA GotoEffect ==
  ASSUME ApiTypeOK, NEW p \in Handler, requests[p] \in Request, NEW s, goto(p, s)
  PROVE  /\ OtherRequests(p)
         /\ requests'[p].step = s
         /\ requests'[p].customer = requests[p].customer
         /\ requests'[p].version = requests[p].version
BY DEF ApiTypeOK, goto, OtherRequests, Request

LEMMA GotoWithRowEffect ==
  ASSUME ApiTypeOK, NEW p \in Handler, requests[p] \in Request, NEW s, NEW r,
         requests' = [requests EXCEPT ![p].step = s, ![p].row = r]
  PROVE  /\ OtherRequests(p)
         /\ requests'[p].step = s
         /\ requests'[p].row = r
BY DEF ApiTypeOK, OtherRequests, Request

LEMMA StartEffect ==
  ASSUME ApiTypeOK, NEW p \in Handler, NEW s, NEW c, NEW v, NEW r, NEW m,
         start(p, s, c, v, r, m)
  PROVE  /\ OtherRequests(p)
         /\ requests'[p].step = s /\ requests'[p].row = r
         /\ requests'[p].customer = c /\ requests'[p].version = v
BY DEF ApiTypeOK, start, OtherRequests

(* A write to one row that accepts nothing and reopens nothing. *)
LEMMA PlainWrite ==
  ASSUME states \in States, NEW c \in Customer, NEW v \in Version, Others(c, v),
         states'[c][v].state \in CvsState,
         \/ states'[c][v].state = "SUPERSEDED"
         \/ /\ states[c][v].state \notin Settled \cup {"OBJECTED"}
            /\ states'[c][v].state # "ACCEPTED"
            /\ \/ states'[c][v].state # "PENDING_NOTIFICATION"
               \/ states[c][v].state = "PENDING_NOTIFICATION"
               \/ states[c][v] = NoRow
  PROVE  RowsStayAnswered /\ RowsPersist
BY DEF Others, RowsStayAnswered, RowsPersist, NoRow, CvsState

LEMMA UnchangedRows ==
  ASSUME UNCHANGED states
  PROVE  RowsStayAnswered /\ RowsPersist
BY DEF RowsStayAnswered, RowsPersist

(* A handler's step that settles no row and moves no evidence. *)
LEMMA QuietRequest ==
  ASSUME ApiTypeOK, EvidenceInv, ReadEntitlesWrite, NEW p \in Handler, OtherRequests(p),
         ~appending(p), ~appending(p)', entitled(p)', RowsStayAnswered, RowsPersist,
         UNCHANGED <<acceptances, objections, orphans, sweeps>>
  PROVE  EvidenceInv' /\ ReadEntitlesWrite'
<1>1. NoNewAppend
  BY DEF NoNewAppend, OtherRequests
<1>2. EvidenceInv'
  BY <1>1, QuietStep
<1>3. ReadEntitlesWrite'
  BY StaysEntitled DEF ReadEntitlesWrite, OtherRequests
<1>4. QED
  BY <1>2, <1>3

-----------------------------------------------------------------------------
(* Every step of a handler keeps the invariant. *)

LEMMA ApiKeepsEvidence ==
  ASSUME TypeOK, EvidenceInv, ReadEntitlesWrite, NEW p \in Handler,
         ApiStep(p), UNCHANGED sweeps
  PROVE  EvidenceInv' /\ ReadEntitlesWrite'
<1> USE DEF storeVars, contextVars, recordVars
<1> DEFINE q == requests[p]
           c == q.customer
           v == q.version
<1>0. /\ ApiTypeOK /\ states \in States /\ NoRow.state \notin CvsState
      /\ entitled(p)
  BY StoreTypeParts DEF TypeOK, NoRow, CvsState, ReadEntitlesWrite
<1>a. ASSUME NEW s \in Step, at(p, s)
      PROVE  q \in Request /\ c \in Customer /\ v \in Version /\ q.row \in MaybeRow
  BY <1>0, <1>a, RequestInFlight DEF Request, MaybeRow
<1>b. ASSUME NEW s, at(p, s), s \notin {"appendAcceptance", "appendObjection"}
      PROVE  ~appending(p)
  BY <1>b DEF at, appending
<1>c. ASSUME idle(p)
      PROVE  ~appending(p)
  BY <1>c DEF idle, Idle, appending
<1>1. ASSUME NEW d \in Customer, NEW w \in Version, AcceptStart(p, d, w)
      PROVE  EvidenceInv' /\ ReadEntitlesWrite'
  <2>1. OtherRequests(p) /\ requests'[p].step = "acceptRead"
    BY <1>0, <1>1, StartEffect DEF AcceptStart
  <2>2. entitled(p)' /\ ~appending(p)' /\ ~appending(p)
    BY <1>1, <1>c, <2>1, NothingToEntitle DEF AcceptStart, appending
  <2>3. QED
    BY <1>0, <1>1, <2>1, <2>2, UnchangedRows, QuietRequest DEF AcceptStart
<1>2. ASSUME NEW d \in Customer, NEW w \in Version, ObjectRead(p, d, w)
      PROVE  EvidenceInv' /\ ReadEntitlesWrite'
  <2>1. OtherRequests(p) /\ requests'[p].step = "objectWrite"
    BY <1>0, <1>2, StartEffect DEF ObjectRead
  <2>2. entitled(p)' /\ ~appending(p)' /\ ~appending(p)
    BY <1>2, <1>c, <2>1, NothingToEntitle DEF ObjectRead, appending
  <2>3. QED
    BY <1>0, <1>2, <2>1, <2>2, UnchangedRows, QuietRequest DEF ObjectRead
<1>3. ASSUME NEW d \in Customer, NEW w \in Version, NotifyRead(p, d, w)
      PROVE  EvidenceInv' /\ ReadEntitlesWrite'
  <2> DEFINE row == states[d][w]
             new == recordAccess(row, w, now, row.carryOverBlocking)
  <2>1. /\ OtherRequests(p) /\ requests'[p].step = "notifyWrite"
        /\ requests'[p].customer = d /\ requests'[p].version = w
        /\ requests'[p].row = new
    BY <1>0, <1>3, StartEffect DEF NotifyRead
  <2>2. row # NoRow /\ row \in CustomerVersionState
    BY <1>0, <1>3, RowState DEF NotifyRead, exists, States
  <2>3. row.state = "PENDING_NOTIFICATION" =>
          new.state \in {"PENDING_NOTIFICATION", "NOTIFIED"}
    BY <2>2 DEF recordAccess, CustomerVersionState
  <2>4. entitled(p)'
    BY <1>3, <2>1, <2>2, <2>3 DEF NotifyRead, entitled, at
  <2>5. ~appending(p)' /\ ~appending(p)
    BY <1>3, <1>c, <2>1 DEF NotifyRead, appending
  <2>6. QED
    BY <1>0, <1>3, <2>1, <2>4, <2>5, UnchangedRows, QuietRequest DEF NotifyRead
<1>4. ASSUME NEW d \in Customer, NEW w \in Version, NEW m \in GivenMethod,
             RecordRead(p, d, w, m)
      PROVE  EvidenceInv' /\ ReadEntitlesWrite'
  <2> DEFINE row == states[d][w]
             step == IF row = NoRow THEN "recordCreate" ELSE "recordWrite"
  <2>1. /\ OtherRequests(p) /\ requests'[p].step = step /\ requests'[p].row = row
        /\ row = NoRow \/ acceptable(row)
    BY <1>0, <1>4, StartEffect DEF RecordRead
  <2>2. entitled(p)'
    BY <2>1 DEF entitled, at
  <2>3. ~appending(p)' /\ ~appending(p)
    BY <1>4, <1>c, <2>1 DEF RecordRead, appending
  <2>4. QED
    BY <1>0, <1>4, <2>1, <2>2, <2>3, UnchangedRows, QuietRequest DEF RecordRead
<1>5. CASE AcceptRead(p)
  <2>1. q \in Request /\ ~appending(p)
    BY <1>5, <1>a, <1>b DEF AcceptRead, Step
  <2>2. CASE finish(p)
    BY <1>0, <1>5, <2>1, <2>2, FinishEffect, UnchangedRows, QuietRequest DEF AcceptRead
  <2>3. CASE ~finish(p)
    <3> DEFINE row == states[c][v]
    <3>1. /\ row = NoRow \/ acceptable(row)
          /\ requests' = [requests EXCEPT ![p].step = "acceptWrite", ![p].row = row]
      BY <1>5, <2>3 DEF AcceptRead
    <3>2. /\ OtherRequests(p) /\ requests'[p].step = "acceptWrite"
          /\ requests'[p].row = row
      <4> HIDE DEF row
      <4>1. QED
        BY <1>0, <2>1, <3>1, GotoWithRowEffect
    <3>3. entitled(p)' /\ ~appending(p)'
      BY <3>1, <3>2 DEF entitled, at, appending
    <3>4. UNCHANGED <<storeVars, sweeps>> /\ RowsStayAnswered /\ RowsPersist
      BY <1>5, UnchangedRows DEF AcceptRead
    <3>5. QED
      BY <1>0, <2>1, <3>2, <3>3, <3>4, QuietRequest
  <2>4. QED
    BY <2>2, <2>3
<1>6. CASE AcceptWrite(p)
  <2>1. q \in Request /\ c \in Customer /\ v \in Version /\ q.row \in MaybeRow /\ ~appending(p)
    BY <1>6, <1>a, <1>b DEF AcceptWrite, Step
  <2>2. CASE finish(p) /\ UNCHANGED states
    BY <1>0, <1>6, <2>1, <2>2, FinishEffect, UnchangedRows, QuietRequest DEF AcceptWrite
  <2>3. CASE ~(finish(p) /\ UNCHANGED states)
    <3>1. goto(p, "appendAcceptance")
      BY <1>6, <2>3 DEF AcceptWrite
    <3>2. /\ OtherRequests(p) /\ requests'[p].step = "appendAcceptance"
          /\ requests'[p].customer = c /\ requests'[p].version = v
      BY <1>0, <2>1, <3>1, GotoEffect
    <3>3. /\ states[c][v].state \notin Settled
          /\ states'[c][v].state = "ACCEPTED" /\ Others(c, v)
      <4>1. CASE q.row = NoRow
        <5>1. states[c][v] = NoRow
          BY <1>6, <2>3, <4>1 DEF AcceptWrite, exists
        <5> DEFINE new == [PendingRow(None) EXCEPT !.state = "ACCEPTED"]
        <5>2. save(c, v, new)
          BY <1>6, <2>3, <4>1 DEF AcceptWrite
        <5>3. new.state = "ACCEPTED"
          BY AcceptedRowType
        <5> HIDE DEF new
        <5>4. QED
          BY <1>0, <2>1, <5>1, <5>2, <5>3, SaveEffect DEF NoRow, Settled
      <4>2. CASE q.row # NoRow
        <5>1. q.row.state \in ACCEPTABLE_FROM
          BY <1>0, <1>6, <4>2 DEF AcceptWrite, entitled, acceptable
        <5>2. states[c][v].state = q.row.state /\ setState(c, v, "ACCEPTED")
          BY <1>6, <2>3, <4>2 DEF AcceptWrite, inState
        <5>3. QED
          BY <1>0, <2>1, <5>1, <5>2, SetStateEffect DEF ACCEPTABLE_FROM, CvsState, Settled
      <4>3. QED
        BY <4>1, <4>2
    <3>4. EvidenceInv'
      BY <1>6, <2>1, <3>2, <3>3, AcceptingStep DEF AcceptWrite
    <3>5. RowsPersist
      BY <3>3 DEF RowsPersist, Others, NoRow
    <3>6. QED
      BY <1>0, <3>2, <3>4, <3>5, StaysEntitled, NothingToEntitle
      DEF ReadEntitlesWrite, OtherRequests
  <2>4. QED
    BY <2>2, <2>3
<1>7. CASE RecordCreate(p)
  <2>1. q \in Request /\ c \in Customer /\ v \in Version /\ ~appending(p)
    BY <1>7, <1>a, <1>b DEF RecordCreate, Step
  <2>2. CASE finish(p) /\ UNCHANGED states
    BY <1>0, <1>7, <2>1, <2>2, FinishEffect, UnchangedRows, QuietRequest DEF RecordCreate
  <2>3. CASE ~(finish(p) /\ UNCHANGED states)
    <3> DEFINE new == PendingRow(None)
    <3>1. /\ states[c][v] = NoRow
          /\ save(c, v, new)
          /\ requests' = [requests EXCEPT ![p].step = "recordWrite", ![p].row = new]
      BY <1>7, <2>3 DEF RecordCreate, exists
    <3>2. new \in CustomerVersionState /\ new.state = "PENDING_NOTIFICATION"
      BY PendingRowType DEF MaybeTime, PendingRow, NoRow
    <3> HIDE DEF new
    <3>3. /\ OtherRequests(p) /\ requests'[p].step = "recordWrite"
          /\ requests'[p].row = new
      BY <1>0, <2>1, <3>1, GotoWithRowEffect
    <3>4. entitled(p)' /\ ~appending(p)'
      BY <3>2, <3>3 DEF entitled, at, appending, acceptable, ACCEPTABLE_FROM
    <3>5. RowsStayAnswered /\ RowsPersist
      <4>1. states'[c][v] = new /\ Others(c, v)
        BY <1>0, <2>1, <3>1, SaveEffect
      <4>2. states[c][v].state = "ABSENT"
        BY <3>1 DEF NoRow
      <4>3. QED
        BY <1>0, <2>1, <3>1, <3>2, <4>1, <4>2, PlainWrite DEF Settled, CvsState
    <3>6. QED
      BY <1>0, <1>7, <2>1, <3>3, <3>4, <3>5, QuietRequest DEF RecordCreate
  <2>4. QED
    BY <2>2, <2>3
<1>8. CASE RecordWrite(p)
  <2>1. q \in Request /\ c \in Customer /\ v \in Version /\ ~appending(p)
    BY <1>8, <1>a, <1>b DEF RecordWrite, Step
  <2>2. CASE finish(p) /\ UNCHANGED states
    BY <1>0, <1>8, <2>1, <2>2, FinishEffect, UnchangedRows, QuietRequest DEF RecordWrite
  <2>3. CASE ~(finish(p) /\ UNCHANGED states)
    <3>1. /\ goto(p, "appendAcceptance")
          /\ states[c][v].state = q.row.state /\ setState(c, v, "ACCEPTED")
      BY <1>8, <2>3 DEF RecordWrite, inState
    <3>2. /\ OtherRequests(p) /\ requests'[p].step = "appendAcceptance"
          /\ requests'[p].customer = c /\ requests'[p].version = v
      BY <1>0, <2>1, <3>1, GotoEffect
    <3>3. q.row.state \in ACCEPTABLE_FROM
      BY <1>0, <1>8 DEF RecordWrite, entitled, acceptable
    <3>4. /\ states[c][v].state \notin Settled
          /\ states'[c][v].state = "ACCEPTED" /\ Others(c, v)
      BY <1>0, <2>1, <3>1, <3>3, SetStateEffect DEF ACCEPTABLE_FROM, CvsState, Settled
    <3>5. EvidenceInv'
      BY <1>8, <2>1, <3>2, <3>4, AcceptingStep DEF RecordWrite
    <3>6. RowsPersist
      BY <3>4 DEF RowsPersist, Others, NoRow
    <3>7. QED
      BY <1>0, <3>2, <3>5, <3>6, StaysEntitled, NothingToEntitle
      DEF ReadEntitlesWrite, OtherRequests
  <2>4. QED
    BY <2>2, <2>3
<1>9. CASE AcceptanceAppend(p)
  <2>1. c \in Customer /\ v \in Version /\ q.method # "TACIT"
    BY <1>9, <1>a DEF AcceptanceAppend, Step, Request, GivenMethod
  <2>2. OtherRequests(p) /\ requests'[p] = Idle /\ entitled(p)'
    BY <1>0, <1>9, FinishEffect DEF AcceptanceAppend
  <2>3. acceptingRequest(p, c, v)
    BY <1>9 DEF AcceptanceAppend, acceptingRequest
  <2>4. \A r \in Handler : \A d, w : acceptingRequest(r, d, w)' <=>
           acceptingRequest(r, d, w) /\ ~(d = c /\ w = v)
    <3>1. \A r \in Handler : r # p => ~acceptingRequest(r, c, v)
      BY <2>1, <2>3 DEF EvidenceInv, OneWriterWins
    <3>2. QED
      BY <2>2, <2>3, <3>1 DEF acceptingRequest, at, OtherRequests, Idle
  <2>5. \A t \in Sweeper : \A d, w : acceptingSweep(t, d, w)' <=>
           acceptingSweep(t, d, w) /\ ~(d = c /\ w = v)
    <3>1. \A t \in Sweeper : ~acceptingSweep(t, c, v)
      BY <2>1, <2>3 DEF EvidenceInv, OneWriterWins
    <3>2. QED
      BY <3>1 DEF acceptingSweep
  <2>6. \A d, w : objectionPending(d, w)' => objectionPending(d, w)
    BY <2>2 DEF objectionPending, at, OtherRequests, Idle
  <2>7. evidencePending(c, v)
    BY <2>3 DEF evidencePending
  <2>8. EvidenceInv'
    BY <1>9, <2>1, <2>4, <2>5, <2>6, <2>7, RecordingStep DEF AcceptanceAppend
  <2>9. QED
    BY <1>0, <1>9, <2>2, <2>8, UnchangedRows, StaysEntitled
    DEF AcceptanceAppend, ReadEntitlesWrite, OtherRequests
<1>10. CASE ObjectWrite(p)
  <2>1. q \in Request /\ c \in Customer /\ v \in Version /\ ~appending(p)
    BY <1>10, <1>a, <1>b DEF ObjectWrite, Step
  <2>2. CASE finish(p) /\ UNCHANGED states
    BY <1>0, <1>10, <2>1, <2>2, FinishEffect, UnchangedRows, QuietRequest DEF ObjectWrite
  <2>3. CASE ~(finish(p) /\ UNCHANGED states)
    <3>1. /\ goto(p, "appendObjection")
          /\ states[c][v].state = "NOTIFIED" /\ setState(c, v, "OBJECTED")
      BY <1>10, <2>3 DEF ObjectWrite, inState
    <3>2. /\ OtherRequests(p) /\ requests'[p].step = "appendObjection"
          /\ requests'[p].customer = c /\ requests'[p].version = v
      BY <1>0, <2>1, <3>1, GotoEffect
    <3>3. states'[c][v].state = "OBJECTED" /\ Others(c, v)
      BY <1>0, <2>1, <3>1, SetStateEffect DEF CvsState
    <3>4. EvidenceInv'
      BY <1>10, <2>1, <3>1, <3>2, <3>3, ObjectingStep DEF ObjectWrite
    <3>5. RowsPersist
      BY <3>3 DEF RowsPersist, Others, NoRow
    <3>6. QED
      BY <1>0, <3>2, <3>4, <3>5, StaysEntitled, NothingToEntitle
      DEF ReadEntitlesWrite, OtherRequests
  <2>4. QED
    BY <2>2, <2>3
<1>11. CASE ObjectionAppend(p)
  <2>1. c \in Customer /\ v \in Version
    BY <1>11, <1>a DEF ObjectionAppend, Step
  <2>2. OtherRequests(p) /\ requests'[p] = Idle /\ entitled(p)'
    BY <1>0, <1>11, FinishEffect DEF ObjectionAppend
  <2>3. objectionPending(c, v)
    BY <1>11 DEF ObjectionAppend, objectionPending
  <2>4. \A r \in Handler : \A d, w : acceptingRequest(r, d, w)' <=> acceptingRequest(r, d, w)
    BY <1>11, <2>2 DEF ObjectionAppend, acceptingRequest, at, OtherRequests, Idle
  <2>5. \A d, w : objectionPending(d, w)' => objectionPending(d, w)
    BY <2>2 DEF objectionPending, at, OtherRequests, Idle
  <2>6. EvidenceInv'
    BY <1>11, <2>1, <2>3, <2>4, <2>5, ObjectionStep DEF ObjectionAppend
  <2>7. QED
    BY <1>0, <1>11, <2>2, <2>6, UnchangedRows, StaysEntitled
    DEF ObjectionAppend, ReadEntitlesWrite, OtherRequests
<1>12. CASE NotifyWrite(p)
  <2>1. c \in Customer /\ v \in Version /\ q.row \in MaybeRow /\ ~appending(p)
    BY <1>12, <1>a, <1>b DEF NotifyWrite, Step
  <2>2. OtherRequests(p) /\ entitled(p)' /\ ~appending(p)'
    BY <1>0, <1>12, FinishEffect DEF NotifyWrite
  <2>3. RowsStayAnswered /\ RowsPersist
    <3>1. CASE UNCHANGED states
      BY <3>1, UnchangedRows
    <3>2. CASE ~UNCHANGED states
      <4>1. /\ states[c][v].state = "PENDING_NOTIFICATION"
            /\ states'[c][v].state = q.row.state /\ Others(c, v)
        BY <1>0, <1>12, <2>1, <3>2, NotifyEffect DEF NotifyWrite
      <4>2. q.row.state \in {"PENDING_NOTIFICATION", "NOTIFIED"}
        BY <1>0, <1>12, <4>1 DEF NotifyWrite, entitled
      <4>3. QED
        BY <1>0, <2>1, <4>1, <4>2, PlainWrite DEF Settled, CvsState
    <3>3. QED
      BY <3>1, <3>2
  <2>4. QED
    BY <1>0, <1>12, <2>1, <2>2, <2>3, QuietRequest DEF NotifyWrite
<1>13. CASE HandlerDies(p)
  <2>1. OtherRequests(p) /\ requests'[p] = Idle /\ entitled(p)'
    BY <1>0, <1>13, FinishEffect DEF HandlerDies
  <2>2. \A r \in Handler : \A d, w : acceptingRequest(r, d, w)' => acceptingRequest(r, d, w)
    BY <2>1 DEF acceptingRequest, at, OtherRequests, Idle
  <2>3. \A t \in Sweeper : \A d, w : acceptingSweep(t, d, w)' <=> acceptingSweep(t, d, w)
    BY DEF acceptingSweep
  <2>4. \A d, w : objectionPending(d, w)' => objectionPending(d, w)
    BY <2>1 DEF objectionPending, at, OtherRequests, Idle
  <2>5. \A d, w : acceptingRequest(p, d, w) => <<d, w>> \in orphans'
    BY <1>13 DEF HandlerDies, acceptingRequest
  <2>6. \A d, w : evidencePending(d, w) => evidencePending(d, w)' \/ <<d, w>> \in orphans'
    BY <2>1, <2>3, <2>5 DEF evidencePending, acceptingRequest, at, OtherRequests
  <2>7. orphans \subseteq orphans' /\ UNCHANGED <<states, acceptances, objections>>
    BY <1>13 DEF HandlerDies
  <2>8. EvidenceInv'
    BY <2>2, <2>3, <2>4, <2>6, <2>7, LosingStep
  <2>9. QED
    BY <1>0, <2>1, <2>7, <2>8, UnchangedRows, StaysEntitled
    DEF ReadEntitlesWrite, OtherRequests
<1>14. QED
  BY <1>1, <1>2, <1>3, <1>4, <1>5, <1>6, <1>7, <1>8, <1>9, <1>10, <1>11, <1>12, <1>13
  DEF ApiStep, ApiStart, ApiProgress

-----------------------------------------------------------------------------
(* Every step of a sweep does. *)

(* A step of anybody but a handler entitles and disentitles no handler. *)
LEMMA RequestsUntouched ==
  ASSUME ApiTypeOK, ReadEntitlesWrite, RowsPersist, UNCHANGED requests
  PROVE  ReadEntitlesWrite' /\ NoNewAppend
<1>1. ReadEntitlesWrite'
  BY StaysEntitled DEF ReadEntitlesWrite
<1>2. NoNewAppend
  BY DEF NoNewAppend
<1>3. QED
  BY <1>1, <1>2

LEMMA SweepKeepsEvidence ==
  ASSUME TypeOK, EvidenceInv, ReadEntitlesWrite, NEW s \in Sweeper,
         SweepStep(s), UNCHANGED requests
  PROVE  EvidenceInv' /\ ReadEntitlesWrite'
<1> USE DEF storeVars, sweepContext
<1>0. /\ ApiTypeOK /\ states \in States
      /\ DOMAIN sweeps = Sweeper
      /\ sweeps[s] \in [due : SUBSET Snapshot, tacit : SUBSET (Customer \X Version)]
      /\ sweeps[s].due \subseteq Snapshot /\ sweeps[s].tacit \subseteq Customer \X Version
      /\ \A k, l \in sweeps[s].tacit : k = l
  BY StoreTypeParts DEF TypeOK, SweepTypeOK
<1>1. ASSUME SweepFind(s) \/ \E d \in sweeps[s].due : SweepSkip(s, d)
      PROVE  EvidenceInv' /\ ReadEntitlesWrite'
  <2>1. \A t \in Sweeper : sweeps'[t].tacit = sweeps[t].tacit
    BY <1>0, <1>1 DEF SweepFind, SweepSkip, SweepTypeOK, TypeOK
  <2>2. UNCHANGED <<states, acceptances, objections, orphans>>
    BY <1>1 DEF SweepFind, SweepSkip
  <2>3. QED
    BY <1>0, <2>1, <2>2, UnchangedRows, RequestsUntouched, QuietStep
<1>2. ASSUME NEW d \in sweeps[s].due, SweepExpire(s, d)
      PROVE  EvidenceInv' /\ ReadEntitlesWrite'
  <2>1. d.customer \in Customer /\ d.version \in Version
    BY <1>0 DEF Snapshot
  <2>2. d.row.state \in ACTIVE_SWEEPABLE_STATES
    BY <1>2 DEF SweepExpire, outcome, sweepOutcome
  <2>3. states[d.customer][d.version].state = d.row.state
    BY <1>2 DEF SweepExpire, applies, inState
  <2>4. states'[d.customer][d.version].state = "EXPIRED_BLOCKING" /\ Others(d.customer, d.version)
    BY <1>0, <1>2, <2>1, <2>2, <2>3, SetStateEffect
    DEF SweepExpire, ACTIVE_SWEEPABLE_STATES, CvsState
  <2>5. RowsStayAnswered /\ RowsPersist
    BY <1>0, <2>1, <2>2, <2>3, <2>4, PlainWrite DEF ACTIVE_SWEEPABLE_STATES, Settled, CvsState
  <2>6. \A t \in Sweeper : sweeps'[t].tacit = sweeps[t].tacit
    BY <1>0, <1>2 DEF SweepExpire, SweepTypeOK, TypeOK
  <2>7. QED
    BY <1>0, <1>2, <2>5, <2>6, RequestsUntouched, QuietStep DEF SweepExpire
<1>3. ASSUME NEW d \in sweeps[s].due, SweepTacit(s, d)
      PROVE  EvidenceInv' /\ ReadEntitlesWrite'
  <2>1. d.customer \in Customer /\ d.version \in Version
    BY <1>0 DEF Snapshot
  <2>2. states[d.customer][d.version].state = "NOTIFIED"
    BY <1>3 DEF SweepTacit, outcome, sweepOutcome, applies, inState
  <2>3. /\ states'[d.customer][d.version].state = "ACCEPTED"
        /\ Others(d.customer, d.version)
    BY <1>0, <1>3, <2>1, <2>2, SetStateEffect DEF SweepTacit, CvsState
  <2>4. /\ sweeps[s].tacit = {} /\ OtherSweeps(s)
        /\ sweeps'[s].tacit = {<<d.customer, d.version>>}
    BY <1>0, <1>3 DEF SweepTacit, takes, OtherSweeps, SweepTypeOK, TypeOK
  <2>5. EvidenceInv'
    BY <1>3, <2>1, <2>2, <2>3, <2>4, TacitStep DEF SweepTacit
  <2>6. RowsPersist
    BY <2>2, <2>3 DEF RowsPersist, Others, NoRow
  <2>7. QED
    BY <1>0, <2>5, <2>6, RequestsUntouched
<1>4. CASE SweepAppend(s)
  <2>1. PICK k \in sweeps[s].tacit :
          /\ appendAcceptance(k[1], k[2], "TACIT")
          /\ sweeps' = [sweeps EXCEPT ![s].tacit = {}]
          /\ UNCHANGED <<sweepContext, states, faults, orphans>>
    BY <1>4 DEF SweepAppend
  <2> DEFINE c == k[1]
             v == k[2]
  <2>2. c \in Customer /\ v \in Version /\ k = <<c, v>>
    BY <1>0, <2>1
  <2> HIDE DEF c, v
  <2>3. acceptingSweep(s, c, v) /\ evidencePending(c, v)
    BY <2>2 DEF acceptingSweep, evidencePending
  <2>4. sweeps'[s].tacit = {} /\ OtherSweeps(s)
    BY <1>0, <2>1 DEF OtherSweeps
  <2>5. \A t \in Sweeper : \A d, w : acceptingSweep(t, d, w)' <=>
           acceptingSweep(t, d, w) /\ ~(d = c /\ w = v)
    <3>1. \A d, w : acceptingSweep(s, d, w) => d = c /\ w = v
      BY <1>0, <2>1, <2>2 DEF acceptingSweep
    <3>2. \A t \in Sweeper : t # s => ~acceptingSweep(t, c, v)
      BY <2>2, <2>3 DEF EvidenceInv, OneWriterWins
    <3>3. QED
      BY <2>4, <3>1, <3>2 DEF acceptingSweep, OtherSweeps
  <2>6. \A r \in Handler : \A d, w : acceptingRequest(r, d, w)' <=>
           acceptingRequest(r, d, w) /\ ~(d = c /\ w = v)
    <3>1. \A r \in Handler : ~acceptingRequest(r, c, v)
      BY <2>2, <2>3 DEF EvidenceInv, OneWriterWins
    <3>2. QED
      BY <3>1 DEF acceptingRequest, at
  <2>7. \A d, w : objectionPending(d, w)' => objectionPending(d, w)
    BY DEF objectionPending, at
  <2>8. appendAcceptance(c, v, "TACIT")
    BY <2>1 DEF c, v
  <2>9. EvidenceInv'
    BY <2>1, <2>2, <2>3, <2>5, <2>6, <2>7, <2>8, RecordingStep
  <2>10. QED
    BY <1>0, <2>1, <2>9, UnchangedRows, RequestsUntouched
<1>5. CASE SweepEntryFails(s) \/ SweepDies(s)
  <2>1. /\ orphans' = orphans \cup sweeps[s].tacit
        /\ sweeps'[s].tacit = {} /\ OtherSweeps(s)
        /\ UNCHANGED <<states, acceptances, objections>>
    BY <1>0, <1>5 DEF SweepEntryFails, SweepDies, OtherSweeps
  <2>2. \A r \in Handler : \A d, w : acceptingRequest(r, d, w)' <=> acceptingRequest(r, d, w)
    BY DEF acceptingRequest, at
  <2>3. \A t \in Sweeper : \A d, w : acceptingSweep(t, d, w)' => acceptingSweep(t, d, w)
    BY <2>1 DEF acceptingSweep, OtherSweeps
  <2>4. \A d, w : acceptingSweep(s, d, w) => <<d, w>> \in orphans'
    BY <2>1 DEF acceptingSweep
  <2>5. \A d, w : evidencePending(d, w) => evidencePending(d, w)' \/ <<d, w>> \in orphans'
    BY <2>1, <2>2, <2>4 DEF evidencePending, acceptingSweep, OtherSweeps
  <2>6. \A d, w : objectionPending(d, w)' => objectionPending(d, w)
    BY DEF objectionPending, at
  <2>7. EvidenceInv'
    BY <2>1, <2>2, <2>3, <2>5, <2>6, LosingStep
  <2>8. QED
    BY <1>0, <2>1, <2>7, UnchangedRows, RequestsUntouched
<1>6. QED
  BY <1>1, <1>2, <1>3, <1>4, <1>5 DEF SweepStep, SweepProgress, SweepHandle

-----------------------------------------------------------------------------
(* And so does every step of a publish. *)

LEMMA PublishKeepsEvidence ==
  ASSUME TypeOK, EvidenceInv, ReadEntitlesWrite, NEW a \in Publisher,
         PublishStep(a), UNCHANGED <<requests, sweeps>>
  PROVE  EvidenceInv' /\ ReadEntitlesWrite'
<1> USE DEF storeVars, evidenceVars
<1>0. ApiTypeOK /\ PublishTypeOK /\ states \in States
  BY StoreTypeParts DEF TypeOK
<1>1. SUFFICES UNCHANGED <<acceptances, objections, orphans>> /\ RowsStayAnswered /\ RowsPersist
  BY <1>0, <1>1, RequestsUntouched, QuietStep
<1>2. CASE UNCHANGED states
  <2>1. UNCHANGED <<acceptances, objections, orphans>>
    BY DEF PublishStep, PublishProgress, PublishRead, PublishSave, PublishSiblings,
           PublishRetire, PublishFindOpen, PublishSupersede, PublishTargets,
           PublishRollout, PublishRefused, PublishReturn, PublishDies
  <2>2. QED
    BY <1>2, <2>1, UnchangedRows
<1>3. ASSUME publishing(a), NEW d \in publications[a].open, PublishSupersede(a, d)
      PROVE  UNCHANGED <<acceptances, objections, orphans>> /\ RowsStayAnswered /\ RowsPersist
  <2> DEFINE new == supersede(d.row)
  <2>1. d.customer \in Customer /\ d.version \in Version /\ d.row \in CustomerVersionState
    BY <1>0, <1>3, PublicationInFlight DEF Publication, Snapshot
  <2>2. new.state = "SUPERSEDED"
    BY <2>1, ChangedStateType DEF supersede, CvsState
  <2>3. save(d.customer, d.version, new)
    BY <1>3 DEF PublishSupersede
  <2> HIDE DEF new
  <2>4. states'[d.customer][d.version] = new /\ Others(d.customer, d.version)
    BY <1>0, <2>1, <2>3, SaveEffect
  <2>5. RowsStayAnswered /\ RowsPersist
    BY <1>0, <2>1, <2>2, <2>4, PlainWrite DEF CvsState
  <2>6. QED
    BY <1>3, <2>5 DEF PublishSupersede
<1>4. ASSUME publishing(a), NEW c \in Customer, PublishRollout(a, c)
      PROVE  UNCHANGED <<acceptances, objections, orphans>> /\ RowsStayAnswered /\ RowsPersist
  <2> DEFINE v == publications[a].version
             new == rolloutRow(a, c)
  <2>1. v \in Version
    BY <1>0, <1>4, PublicationInFlight DEF Publication
  <2>2. new.state = "PENDING_NOTIFICATION"
    BY DEF rolloutRow, PendingRow, NoRow
  <2>3. save(c, v, new) /\ states[c][v] = NoRow
    BY <1>4 DEF PublishRollout, exists
  <2> HIDE DEF new
  <2>4. states'[c][v] = new /\ Others(c, v)
    BY <1>0, <2>1, <2>3, SaveEffect
  <2>5. states[c][v].state = "ABSENT"
    BY <2>3 DEF NoRow
  <2>6. RowsStayAnswered /\ RowsPersist
    BY <1>0, <2>1, <2>2, <2>3, <2>4, <2>5, PlainWrite DEF Settled, CvsState
  <2>7. QED
    BY <1>4, <2>6 DEF PublishRollout
<1>5. QED
  BY <1>2, <1>3, <1>4
  DEF PublishStep, PublishProgress, PublishRead, PublishSave, PublishSiblings,
      PublishRetire, PublishFindOpen, PublishTargets, PublishRefused, PublishReturn, PublishDies

-----------------------------------------------------------------------------
(* The theorems *)

LEMMA InitIInv == Init => IInv
<1> SUFFICES ASSUME Init PROVE IInv
  OBVIOUS
<1>1. TypeOK
  <2>1. StoreTypeOK
    BY DEF Init, StoreInit, StoreTypeOK, VersionStatus, MaybeTime
  <2>2. ApiTypeOK /\ SweepTypeOK /\ PublishTypeOK
    BY DEF Init, ApiInit, SweepInit, PublishInit, ApiTypeOK, SweepTypeOK, PublishTypeOK
  <2>3. QED
    BY <2>1, <2>2 DEF TypeOK
<1>2. \A c \in Customer, v \in Version : states[c][v].state = "ABSENT"
  BY DEF Init, StoreInit, NoRow
<1>3. \A c, v : ~accepted(c, v) /\ ~tacitlyAccepted(c, v) /\ ~objected(c, v)
  BY DEF Init, StoreInit, accepted, tacitlyAccepted, objected
<1>4. \A p \in Handler : requests[p] = Idle
  BY DEF Init, ApiInit
<1>5. \A c, v : ~evidencePending(c, v) /\ ~objectionPending(c, v)
  BY <1>4 DEF Init, SweepInit, evidencePending, acceptingRequest, acceptingSweep,
              objectionPending, at, Idle
<1>6. /\ \A p \in Handler : \A c, v : ~acceptingRequest(p, c, v)
      /\ \A s \in Sweeper : \A c, v : ~acceptingSweep(s, c, v)
  BY <1>5 DEF evidencePending
<1>7. AcceptedRowHasEvidence /\ EvidenceSettlesRow /\ PendingSettlesRow /\ ObjectionHoldsRow
  BY <1>2, <1>3, <1>5
  DEF AcceptedRowHasEvidence, EvidenceSettlesRow, PendingSettlesRow, ObjectionHoldsRow
<1>8. OneWriterWins /\ ObjectionStopsTacit
  BY <1>3, <1>5, <1>6 DEF OneWriterWins, ObjectionStopsTacit
<1>9. ReadEntitlesWrite
  BY <1>4 DEF ReadEntitlesWrite, entitled, at, Idle
<1>10. QED
  BY <1>1, <1>7, <1>8, <1>9 DEF IInv

LEMMA IInvParts == IInv <=> TypeOK /\ EvidenceInv /\ ReadEntitlesWrite
BY DEF IInv, EvidenceInv

LEMMA IInvPartsNext == IInv' <=> TypeOK' /\ EvidenceInv' /\ ReadEntitlesWrite'
BY DEF IInv, EvidenceInv

LEMMA NextIInv == IInv /\ [Next]_vars => IInv'
<1> SUFFICES ASSUME IInv, [Next]_vars PROVE IInv'
  OBVIOUS
<1>0. TypeOK /\ EvidenceInv /\ ReadEntitlesWrite
  BY IInvParts
<1>1. CASE UNCHANGED <<versions, states, acceptances, objections, faults, orphans,
                       requests, sweeps, publications>> /\ now' \in Nat
  <2>1. TypeOK'
    BY <1>0, <1>1
    DEF TypeOK, StoreTypeOK, ApiTypeOK, SweepTypeOK, PublishTypeOK
  <2>2. EvidenceInv' /\ ReadEntitlesWrite'
    BY <1>0, <1>1, UnchangedRows, RequestsUntouched, QuietStep DEF TypeOK
  <2>3. QED
    BY <2>1, <2>2, IInvPartsNext
<1>2. CASE Clock \/ UNCHANGED vars
  <2>1. now' \in Nat
    BY <1>0, <1>2 DEF TypeOK, StoreTypeOK, Clock, Tick, vars, storeVars
  <2>2. QED
    BY <1>1, <1>2, <2>1 DEF Clock, Tick, vars, storeVars
<1>3. ASSUME NEW p \in Handler, Api(p) PROVE IInv'
  <2>1. StoreTypeOK' /\ ApiTypeOK'
    BY <1>0, <1>3, ApiKeepsType, EntitledHoldsRow DEF Api, TypeOK, ReadEntitlesWrite
  <2>2. SweepTypeOK' /\ PublishTypeOK'
    BY <1>0, <1>3 DEF Api, TypeOK, SweepTypeOK, PublishTypeOK
  <2>3. EvidenceInv' /\ ReadEntitlesWrite'
    BY <1>0, <1>3, ApiKeepsEvidence DEF Api
  <2>4. QED
    BY <2>1, <2>2, <2>3, IInvPartsNext DEF TypeOK
<1>4. ASSUME NEW s \in Sweeper, Sweep(s) PROVE IInv'
  <2>1. StoreTypeOK' /\ SweepTypeOK'
    BY <1>0, <1>4, SweepKeepsType DEF Sweep, TypeOK
  <2>2. ApiTypeOK' /\ PublishTypeOK'
    BY <1>0, <1>4 DEF Sweep, TypeOK, ApiTypeOK, PublishTypeOK
  <2>3. EvidenceInv' /\ ReadEntitlesWrite'
    BY <1>0, <1>4, SweepKeepsEvidence DEF Sweep
  <2>4. QED
    BY <2>1, <2>2, <2>3, IInvPartsNext DEF TypeOK
<1>5. ASSUME NEW a \in Publisher, Publish(a) PROVE IInv'
  <2>1. StoreTypeOK' /\ PublishTypeOK'
    BY <1>0, <1>5, PublishKeepsType DEF Publish, TypeOK
  <2>2. ApiTypeOK' /\ SweepTypeOK'
    BY <1>0, <1>5 DEF Publish, TypeOK, ApiTypeOK, SweepTypeOK
  <2>3. EvidenceInv' /\ ReadEntitlesWrite'
    BY <1>0, <1>5, PublishKeepsEvidence DEF Publish
  <2>4. QED
    BY <2>1, <2>2, <2>3, IInvPartsNext DEF TypeOK
<1>6. QED
  BY <1>2, <1>3, <1>4, <1>5 DEF Next

(* The inductive invariant holds in every reachable state. *)
THEOREM Invariance == Spec => []IInv
BY InitIInv, NextIInv, PTL DEF Spec

(* Every variable keeps its type: no row is ever half-written. *)
THEOREM TypeCorrect == Spec => []TypeOK
<1>1. IInv => TypeOK
  BY DEF IInv
<1>2. QED
  BY <1>1, Invariance, PTL

(* No row is ACCEPTED on nobody's word. *)
THEOREM AcceptedHasEvidence == Spec => []AcceptedRowHasEvidence
<1>1. IInv => AcceptedRowHasEvidence
  BY DEF IInv
<1>2. QED
  BY <1>1, Invariance, PTL

(* Recorded evidence is never contradicted by the row. *)
THEOREM EvidenceSettles == Spec => []EvidenceSettlesRow
<1>1. IInv => EvidenceSettlesRow
  BY DEF IInv
<1>2. QED
  BY <1>1, Invariance, PTL

(* Of all that race to settle a row one alone comes to record it. *)
THEOREM SingleWriter == Spec => []OneWriterWins
<1>1. IInv => OneWriterWins
  BY DEF IInv
<1>2. QED
  BY <1>1, Invariance, PTL

(* Silence is never booked as consent over an objection. *)
THEOREM ObjectionHolds == Spec => []ObjectionStopsTacit
<1>1. IInv => ObjectionStopsTacit
  BY DEF IInv
<1>2. QED
  BY <1>1, Invariance, PTL

-----------------------------------------------------------------------------
(* SUPERSEDED is terminal. *)

StaySuperseded ==
  \A c \in Customer, v \in Version :
    states[c][v].state = "SUPERSEDED" => states'[c][v].state = "SUPERSEDED"

(* One row is written, and it was not SUPERSEDED or becomes so. *)
LEMMA RowWrite ==
  ASSUME NEW c \in Customer, NEW v \in Version, Others(c, v),
         states[c][v].state # "SUPERSEDED" \/ states'[c][v].state = "SUPERSEDED"
  PROVE  StaySuperseded
BY DEF StaySuperseded, Others

LEMMA ApiStaysSuperseded ==
  ASSUME ApiTypeOK, states \in States, NEW p \in Handler, mayAccept(p), ApiStep(p)
  PROVE  StaySuperseded
<1> DEFINE q == requests[p]
           c == q.customer
           v == q.version
<1>0. ApiTypeOK /\ states \in States /\ mayAccept(p)
  OBVIOUS
<1>1. CASE UNCHANGED states
  BY <1>1 DEF StaySuperseded
<1>2. CASE AcceptWrite(p) /\ ~UNCHANGED states
  <2>1. c \in Customer /\ v \in Version
    BY <1>0, <1>2, RequestInFlight DEF AcceptWrite, Step, Request
  <2>2. CASE q.row = NoRow
    <3> DEFINE new == [PendingRow(None) EXCEPT !.state = "ACCEPTED"]
    <3>1. states[c][v] = NoRow /\ save(c, v, new)
      BY <1>2, <2>2 DEF AcceptWrite, exists
    <3> HIDE DEF new
    <3>2. QED
      BY <1>0, <2>1, <3>1, SaveEffect, RowWrite DEF NoRow
  <2>3. CASE q.row # NoRow
    <3>1. states[c][v].state \in ACCEPTABLE_FROM /\ setState(c, v, "ACCEPTED")
      BY <1>0, <1>2, <2>3 DEF AcceptWrite, mayAccept, acceptable, inState
    <3>2. QED
      BY <1>0, <2>1, <3>1, SetStateEffect, RowWrite DEF ACCEPTABLE_FROM, CvsState
  <2>4. QED
    BY <2>2, <2>3
<1>3. CASE RecordCreate(p) /\ ~UNCHANGED states
  <2> DEFINE new == PendingRow(None)
  <2>1. c \in Customer /\ v \in Version
    BY <1>0, <1>3, RequestInFlight DEF RecordCreate, Step, Request
  <2>2. states[c][v] = NoRow /\ save(c, v, new)
    BY <1>3 DEF RecordCreate, exists
  <2> HIDE DEF new
  <2>3. QED
    BY <1>0, <2>1, <2>2, SaveEffect, RowWrite DEF NoRow
<1>4. CASE RecordWrite(p) /\ ~UNCHANGED states
  <2>1. c \in Customer /\ v \in Version
    BY <1>0, <1>4, RequestInFlight DEF RecordWrite, Step, Request
  <2>2. states[c][v].state \in ACCEPTABLE_FROM /\ setState(c, v, "ACCEPTED")
    BY <1>0, <1>4 DEF RecordWrite, mayAccept, acceptable, inState
  <2>3. QED
    BY <1>0, <2>1, <2>2, SetStateEffect, RowWrite DEF ACCEPTABLE_FROM, CvsState
<1>5. CASE ObjectWrite(p) /\ ~UNCHANGED states
  <2>1. c \in Customer /\ v \in Version
    BY <1>0, <1>5, RequestInFlight DEF ObjectWrite, Step, Request
  <2>2. states[c][v].state = "NOTIFIED" /\ setState(c, v, "OBJECTED")
    BY <1>5 DEF ObjectWrite, inState
  <2>3. QED
    BY <1>0, <2>1, <2>2, SetStateEffect, RowWrite DEF CvsState
<1>6. CASE NotifyWrite(p) /\ ~UNCHANGED states
  <2>1. c \in Customer /\ v \in Version
    BY <1>0, <1>6, RequestInFlight DEF NotifyWrite, Step, Request
  <2>2. QED
    BY <1>0, <1>6, <2>1, NotifyEffect, RowWrite DEF NotifyWrite
<1>7. QED
  BY <1>1, <1>2, <1>3, <1>4, <1>5, <1>6
  DEF ApiStep, ApiStart, ApiProgress, AcceptStart, ObjectRead, NotifyRead, RecordRead,
      AcceptRead, AcceptanceAppend, ObjectionAppend, HandlerDies, storeVars

LEMMA SweepStaysSuperseded ==
  ASSUME TypeOK, NEW s \in Sweeper, SweepStep(s)
  PROVE  StaySuperseded
<1>0. states \in States /\ sweeps[s].due \subseteq Snapshot
  BY StoreTypeParts DEF TypeOK, SweepTypeOK
<1>1. CASE UNCHANGED states
  BY <1>1 DEF StaySuperseded
<1>2. ASSUME NEW d \in sweeps[s].due, SweepExpire(s, d) \/ SweepTacit(s, d)
      PROVE  StaySuperseded
  <2>1. d.customer \in Customer /\ d.version \in Version
    BY <1>0 DEF Snapshot
  <2>2. /\ states[d.customer][d.version].state \in ACTIVE_SWEEPABLE_STATES
        /\ \E to \in CvsState : setState(d.customer, d.version, to)
    BY <1>2 DEF SweepExpire, SweepTacit, outcome, sweepOutcome, applies, inState,
                ACTIVE_SWEEPABLE_STATES, CvsState
  <2>3. QED
    BY <1>0, <2>1, <2>2, SetStateEffect, RowWrite DEF ACTIVE_SWEEPABLE_STATES, CvsState
<1>3. QED
  BY <1>1, <1>2
  DEF SweepStep, SweepProgress, SweepHandle, SweepFind, SweepSkip, SweepAppend, SweepEntryFails,
      SweepDies, storeVars

LEMMA PublishStaysSuperseded ==
  ASSUME TypeOK, NEW a \in Publisher, PublishStep(a)
  PROVE  StaySuperseded
<1>0. PublishTypeOK /\ states \in States
  BY StoreTypeParts DEF TypeOK
<1>1. CASE UNCHANGED states
  BY <1>1 DEF StaySuperseded
<1>2. ASSUME publishing(a), NEW d \in publications[a].open, PublishSupersede(a, d)
      PROVE  StaySuperseded
  <2> DEFINE new == supersede(d.row)
  <2>1. d.customer \in Customer /\ d.version \in Version /\ d.row \in CustomerVersionState
    BY <1>0, <1>2, PublicationInFlight DEF Publication, Snapshot
  <2>2. new.state = "SUPERSEDED"
    BY <2>1, ChangedStateType DEF supersede, CvsState
  <2>3. save(d.customer, d.version, new)
    BY <1>2 DEF PublishSupersede
  <2> HIDE DEF new
  <2>4. QED
    BY <1>0, <2>1, <2>2, <2>3, SaveEffect, RowWrite
<1>3. ASSUME publishing(a), NEW c \in Customer, PublishRollout(a, c)
      PROVE  StaySuperseded
  <2> DEFINE v == publications[a].version
             new == rolloutRow(a, c)
  <2>1. v \in Version
    BY <1>0, <1>3, PublicationInFlight DEF Publication
  <2>2. save(c, v, new) /\ states[c][v] = NoRow
    BY <1>3 DEF PublishRollout, exists
  <2> HIDE DEF new
  <2>3. QED
    BY <1>0, <2>1, <2>2, SaveEffect, RowWrite DEF NoRow
<1>4. QED
  BY <1>1, <1>2, <1>3
  DEF PublishStep, PublishProgress, PublishRead, PublishSave, PublishSiblings,
      PublishRetire, PublishFindOpen, PublishTargets, PublishRefused, PublishReturn,
      PublishDies, storeVars, evidenceVars

(* No step of anybody brings a superseded row back, whatever it had read. *)
THEOREM SupersededFinal == Spec => SupersededIsFinal
<1>1. IInv /\ [Next]_vars => [StaySuperseded]_vars
  <2> SUFFICES ASSUME IInv, Next PROVE StaySuperseded
    OBVIOUS
  <2>0. TypeOK /\ ApiTypeOK /\ states \in States /\ \A p \in Handler : mayAccept(p)
    BY IInvParts, StoreTypeParts DEF TypeOK, ReadEntitlesWrite, entitled, mayAccept
  <2>1. CASE Clock
    BY <2>1 DEF Clock, Tick, StaySuperseded
  <2>2. ASSUME NEW p \in Handler, Api(p) PROVE StaySuperseded
    BY <2>0, <2>2, ApiStaysSuperseded DEF Api
  <2>3. ASSUME NEW s \in Sweeper, Sweep(s) PROVE StaySuperseded
    BY <2>0, <2>3, SweepStaysSuperseded DEF Sweep
  <2>4. ASSUME NEW a \in Publisher, Publish(a) PROVE StaySuperseded
    BY <2>0, <2>4, PublishStaysSuperseded DEF Publish
  <2>5. QED
    BY <2>1, <2>2, <2>3, <2>4 DEF Next
<1>2. QED
  BY <1>1, Invariance, PTL DEF Spec, SupersededIsFinal, StaySuperseded

-----------------------------------------------------------------------------
(* What a step of each actor does to one row, whatever else runs beside it. *)

madeState(r, to) == [r EXCEPT !.state = to]
madeNotified(r, u) ==
  [r EXCEPT !.state = u.state, !.notifiedAt = u.notifiedAt, !.deadlineAt = u.deadlineAt]

(* A handler accepts, creates, refuses or notifies the row. *)
ApiMove(p, c, v) ==
  LET r == states[c][v]
      t == states'[c][v]
      q == requests[p]
  IN \/ t = r
     \/ /\ t = madeState(IF r = NoRow THEN PendingRow(None) ELSE r, "ACCEPTED")
        /\ acceptingRequest(p, c, v)'
     \/ r = NoRow /\ t = PendingRow(None)
     \/ r.state = "NOTIFIED" /\ t = madeState(r, "OBJECTED")
     \/ /\ at(p, "notifyWrite") /\ q.customer = c /\ q.version = v
        /\ r.state = "PENDING_NOTIFICATION" /\ r.notifiedAt = None
        /\ t = madeNotified(r, q.row)

(* A sweep expires the row or takes its silence as consent. *)
SweepMove(s, c, v) ==
  LET r == states[c][v]
      t == states'[c][v]
  IN \/ t = r
     \/ r.state \in ACTIVE_SWEEPABLE_STATES /\ t = madeState(r, "EXPIRED_BLOCKING")
     \/ r.state = "NOTIFIED" /\ t = madeState(r, "ACCEPTED") /\ acceptingSweep(s, c, v)'

(* A publish supersedes a row as read or rolls out a new one. *)
PublishMove(a, c, v) ==
  LET r == states[c][v]
      t == states'[c][v]
  IN \/ t = r
     \/ \E d \in publications[a].open :
          /\ in(a, "predecessors") /\ d.customer = c /\ d.version = v
          /\ t = supersede(d.row)
     \/ r = NoRow /\ v = publications[a].version /\ t = rolloutRow(a, c)

LEMMA SavedRow ==
  ASSUME states \in States, NEW c \in Customer, NEW v \in Version, NEW r, save(c, v, r),
         NEW d \in Customer, NEW w \in Version
  PROVE  states'[d][w] = IF d = c /\ w = v THEN r ELSE states[d][w]
BY DEF save, States

LEMMA RowGivenState ==
  ASSUME states \in States, NEW c \in Customer, NEW v \in Version, NEW to, setState(c, v, to),
         NEW d \in Customer, NEW w \in Version
  PROVE  states'[d][w] = IF d = c /\ w = v THEN madeState(states[c][v], to) ELSE states[d][w]
BY DEF setState, madeState, States

LEMMA RowNotified ==
  ASSUME states \in States, NEW c \in Customer, NEW v \in Version, NEW u,
         setNotifiedAtomically(c, v, u), NEW d \in Customer, NEW w \in Version
  PROVE  \/ states'[d][w] = states[d][w]
         \/ /\ d = c /\ w = v
            /\ states[c][v].state = "PENDING_NOTIFICATION" /\ states[c][v].notifiedAt = None
            /\ states'[c][v] = madeNotified(states[c][v], u)
BY DEF setNotifiedAtomically, inState, madeNotified, States

LEMMA ApiMoves ==
  ASSUME StoreTypeOK, ApiTypeOK, NEW p \in Handler, HoldsRow(p), ApiStep(p),
         NEW c \in Customer, NEW v \in Version
  PROVE  ApiMove(p, c, v)
<1> USE DEF storeVars, contextVars, recordVars
<1> DEFINE q == requests[p]
<1>0. states \in States
  BY StoreTypeParts
<1>1. ASSUME UNCHANGED states PROVE ApiMove(p, c, v)
  BY <1>1 DEF ApiMove
<1>2. CASE AcceptWrite(p)
  <2>1. q \in Request /\ q.customer \in Customer /\ q.version \in Version /\ q.row \in MaybeRow
    BY <1>2, RequestInFlight DEF AcceptWrite, Step, Request, MaybeRow
  <2>2. CASE UNCHANGED states
    BY <1>1, <2>2
  <2>3. CASE states' # states
    <3>1. c = q.customer /\ v = q.version => acceptingRequest(p, c, v)'
      BY <1>2, <2>1, <2>3, GotoEffect DEF AcceptWrite, acceptingRequest, at
    <3>2. CASE q.row = NoRow
      <4>1. /\ states[q.customer][q.version] = NoRow
            /\ save(q.customer, q.version, madeState(PendingRow(None), "ACCEPTED"))
        BY <1>2, <2>3, <3>2 DEF AcceptWrite, exists, madeState
      <4>2. states'[c][v] = IF c = q.customer /\ v = q.version
                            THEN madeState(PendingRow(None), "ACCEPTED") ELSE states[c][v]
        BY <1>0, <2>1, <4>1, SavedRow
      <4>3. QED
        BY <3>1, <4>1, <4>2 DEF ApiMove
    <3>3. CASE q.row # NoRow
      <4>0. states[q.customer][q.version].state = q.row.state
        BY <1>2, <2>3, <3>3 DEF AcceptWrite, inState
      <4>1. states[q.customer][q.version] # NoRow
        <5>1. q.row.state \in CvsState
          BY <2>1, <3>3, RowState
        <5>2. QED
          BY <4>0, <5>1 DEF NoRow, CvsState
      <4>2. states'[c][v] = IF c = q.customer /\ v = q.version
                            THEN madeState(states[c][v], "ACCEPTED") ELSE states[c][v]
        BY <1>0, <1>2, <2>1, <2>3, <3>3, RowGivenState DEF AcceptWrite
      <4>3. QED
        BY <3>1, <4>1, <4>2 DEF ApiMove
    <3>4. QED
      BY <3>2, <3>3
  <2>4. QED
    BY <2>2, <2>3
<1>3. CASE RecordCreate(p)
  <2>1. q.customer \in Customer /\ q.version \in Version
    BY <1>3, RequestInFlight DEF RecordCreate, Step, Request
  <2>2. CASE exists(q.customer, q.version)
    BY <1>1, <1>3, <2>2 DEF RecordCreate
  <2>3. CASE ~exists(q.customer, q.version)
    <3>1. states'[c][v] = IF c = q.customer /\ v = q.version THEN PendingRow(None) ELSE states[c][v]
      BY <1>0, <1>3, <2>1, <2>3, SavedRow DEF RecordCreate
    <3>2. QED
      BY <2>3, <3>1 DEF exists, ApiMove
  <2>4. QED
    BY <2>2, <2>3
<1>4. CASE RecordWrite(p)
  <2>1. q \in Request /\ q.customer \in Customer /\ q.version \in Version
    BY <1>4, RequestInFlight DEF RecordWrite, Step, Request
  <2>2. CASE UNCHANGED states
    BY <1>1, <2>2
  <2>3. CASE states' # states
    <3>1. c = q.customer /\ v = q.version => acceptingRequest(p, c, v)'
      BY <1>4, <2>1, <2>3, GotoEffect DEF RecordWrite, acceptingRequest, at
    <3>2. states'[c][v] = IF c = q.customer /\ v = q.version
                          THEN madeState(states[c][v], "ACCEPTED") ELSE states[c][v]
      BY <1>0, <1>4, <2>1, <2>3, RowGivenState DEF RecordWrite
    <3>3. states[q.customer][q.version].state \in CvsState
      BY <1>4, <2>3 DEF RecordWrite, inState, HoldsRow
    <3>4. states[q.customer][q.version] # NoRow
      BY <3>3 DEF NoRow, CvsState
    <3>5. QED
      BY <3>1, <3>2, <3>4 DEF ApiMove
  <2>4. QED
    BY <2>2, <2>3
<1>5. CASE ObjectWrite(p)
  <2>1. q.customer \in Customer /\ q.version \in Version
    BY <1>5, RequestInFlight DEF ObjectWrite, Step, Request
  <2>2. CASE UNCHANGED states
    BY <1>1, <2>2
  <2>3. CASE states' # states
    <3>1. states[q.customer][q.version].state = "NOTIFIED"
      BY <1>5, <2>3 DEF ObjectWrite, inState
    <3>2. states'[c][v] = IF c = q.customer /\ v = q.version
                          THEN madeState(states[c][v], "OBJECTED") ELSE states[c][v]
      BY <1>0, <1>5, <2>1, <2>3, RowGivenState DEF ObjectWrite
    <3>3. QED
      BY <3>1, <3>2 DEF ApiMove
  <2>4. QED
    BY <2>2, <2>3
<1>6. CASE NotifyWrite(p)
  <2>1. q.customer \in Customer /\ q.version \in Version
    BY <1>6, RequestInFlight DEF NotifyWrite, Step, Request
  <2>2. \/ states'[c][v] = states[c][v]
        \/ /\ c = q.customer /\ v = q.version
           /\ states[c][v].state = "PENDING_NOTIFICATION" /\ states[c][v].notifiedAt = None
           /\ states'[c][v] = madeNotified(states[c][v], q.row)
    BY <1>0, <1>6, <2>1, RowNotified DEF NotifyWrite
  <2>3. QED
    BY <1>6, <2>2 DEF NotifyWrite, ApiMove
<1>7. CASE \/ \E d \in Customer, w \in Version :
                \/ AcceptStart(p, d, w) \/ ObjectRead(p, d, w) \/ NotifyRead(p, d, w)
                \/ \E m \in GivenMethod : RecordRead(p, d, w, m)
           \/ AcceptRead(p) \/ AcceptanceAppend(p) \/ ObjectionAppend(p) \/ HandlerDies(p)
  BY <1>1, <1>7
  DEF AcceptStart, ObjectRead, NotifyRead, RecordRead, AcceptRead, AcceptanceAppend,
      ObjectionAppend, HandlerDies
<1>8. QED
  BY <1>2, <1>3, <1>4, <1>5, <1>6, <1>7 DEF ApiStep, ApiStart, ApiProgress

(* No handler is ever about to write over a row what it computed from none. *)
LEMMA ApiKeepsReads ==
  ASSUME StoreTypeOK, ApiTypeOK, HandlersReadRows, NEW p \in Handler, ApiStep(p)
  PROVE  HandlersReadRows'
<1> USE DEF storeVars, contextVars, recordVars
<1>1. ASSUME requests'[p].step \in {"recordWrite", "notifyWrite"} => requests'[p].row # NoRow,
             OtherRequests(p)
      PROVE  HandlersReadRows'
  BY <1>1 DEF HandlersReadRows, OtherRequests, at
<1>2. CASE finish(p)
  BY <1>1, <1>2, FinishEffect DEF Idle
<1>3. ASSUME NEW to \in Step \ {"recordWrite", "notifyWrite"}, goto(p, to),
             requests[p] \in Request
      PROVE  HandlersReadRows'
  BY <1>1, <1>3, GotoEffect
<1>4. ASSUME NEW c \in Customer, NEW v \in Version, NEW m,
             AcceptStart(p, c, v) \/ ObjectRead(p, c, v) \/ NotifyRead(p, c, v)
               \/ RecordRead(p, c, v, m)
      PROVE  HandlersReadRows'
  <2> DEFINE row == states[c][v]
  <2>1. CASE AcceptStart(p, c, v)
    BY <1>1, <2>1, StartEffect DEF AcceptStart
  <2>2. CASE ObjectRead(p, c, v)
    BY <1>1, <2>2, StartEffect DEF ObjectRead
  <2>3. CASE NotifyRead(p, c, v)
    <3>1. row \in CustomerVersionState /\ row.carryOverBlocking \in BOOLEAN /\ now \in Nat
      BY <2>3, StoreTypeParts, RowState DEF NotifyRead, exists, States, MaybeRow, CustomerVersionState
    <3>2. recordAccess(row, v, now, row.carryOverBlocking) # NoRow
      BY <3>1, RecordAccessType DEF NoRow, CustomerVersionState, CvsState
    <3>3. QED
      BY <1>1, <2>3, <3>2, StartEffect DEF NotifyRead
  <2>4. CASE RecordRead(p, c, v, m)
    BY <1>1, <2>4, StartEffect DEF RecordRead
  <2>5. QED
    BY <1>4, <2>1, <2>2, <2>3, <2>4
<1>5. CASE AcceptRead(p)
  <2>1. requests[p] \in Request
    BY <1>5, RequestInFlight DEF AcceptRead, Step
  <2>2. QED
    BY <1>1, <1>2, <1>5, <2>1, GotoWithRowEffect DEF AcceptRead
<1>6. CASE RecordCreate(p)
  <2>1. requests[p] \in Request
    BY <1>6, RequestInFlight DEF RecordCreate, Step
  <2>2. PendingRow(None) # NoRow
    BY DEF PendingRow, NoRow
  <2>3. QED
    BY <1>1, <1>2, <1>6, <2>1, <2>2, GotoWithRowEffect DEF RecordCreate
<1>7. CASE AcceptWrite(p) \/ RecordWrite(p) \/ ObjectWrite(p)
  <2>1. requests[p] \in Request
    BY <1>7, RequestInFlight DEF AcceptWrite, RecordWrite, ObjectWrite, Step
  <2>2. QED
    BY <1>2, <1>3, <1>7, <2>1 DEF AcceptWrite, RecordWrite, ObjectWrite, Step
<1>8. CASE AcceptanceAppend(p) \/ ObjectionAppend(p) \/ NotifyWrite(p) \/ HandlerDies(p)
  BY <1>2, <1>8 DEF AcceptanceAppend, ObjectionAppend, NotifyWrite, HandlerDies
<1>9. QED
  BY <1>4, <1>5, <1>6, <1>7, <1>8 DEF ApiStep, ApiStart, ApiProgress

LEMMA ReaderHoldsRow ==
  ASSUME ApiTypeOK, HandlersReadRows, NEW p \in Handler
  PROVE  HoldsRow(p)
<1>1. ASSUME at(p, "recordWrite") \/ at(p, "notifyWrite") PROVE requests[p].row.state \in CvsState
  <2>1. requests[p] \in Request /\ requests[p].row # NoRow
    BY <1>1, RequestInFlight DEF HandlersReadRows, Step
  <2>2. requests[p].row \in MaybeRow
    BY <2>1 DEF Request, MaybeRow
  <2>3. QED
    BY <2>1, <2>2, RowState
<1>2. QED
  BY <1>1 DEF HoldsRow

LEMMA SweepMoves ==
  ASSUME StoreTypeOK, SweepTypeOK, NEW s \in Sweeper, SweepStep(s),
         NEW c \in Customer, NEW v \in Version
  PROVE  SweepMove(s, c, v)
<1> USE DEF storeVars, sweepContext
<1>0. /\ states \in States /\ DOMAIN sweeps = Sweeper
      /\ sweeps[s] \in [due : SUBSET Snapshot, tacit : SUBSET (Customer \X Version)]
  BY StoreTypeParts DEF SweepTypeOK
<1>1. ASSUME UNCHANGED states PROVE SweepMove(s, c, v)
  BY <1>1 DEF SweepMove
<1>2. ASSUME NEW d \in sweeps[s].due, SweepExpire(s, d) \/ SweepTacit(s, d)
      PROVE  SweepMove(s, c, v)
  <2>1. d.customer \in Customer /\ d.version \in Version
    BY <1>0 DEF Snapshot
  <2>2. CASE SweepExpire(s, d)
    <3>1. states[d.customer][d.version].state \in ACTIVE_SWEEPABLE_STATES
      BY <2>2 DEF SweepExpire, applies, inState, outcome, sweepOutcome
    <3>2. states'[c][v] = IF c = d.customer /\ v = d.version
                          THEN madeState(states[c][v], "EXPIRED_BLOCKING") ELSE states[c][v]
      BY <1>0, <2>1, <2>2, RowGivenState DEF SweepExpire
    <3>3. QED
      BY <3>1, <3>2 DEF SweepMove
  <2>3. CASE SweepTacit(s, d)
    <3>1. states[d.customer][d.version].state = "NOTIFIED"
      BY <2>3 DEF SweepTacit, applies, inState, outcome, sweepOutcome
    <3>2. states'[c][v] = IF c = d.customer /\ v = d.version
                          THEN madeState(states[c][v], "ACCEPTED") ELSE states[c][v]
      BY <1>0, <2>1, <2>3, RowGivenState DEF SweepTacit
    <3>3. acceptingSweep(s, d.customer, d.version)'
      BY <1>0, <2>3 DEF SweepTacit, acceptingSweep
    <3>4. QED
      BY <3>1, <3>2, <3>3 DEF SweepMove
  <2>4. QED
    BY <1>2, <2>2, <2>3
<1>3. CASE \/ SweepFind(s) \/ SweepAppend(s) \/ SweepEntryFails(s) \/ SweepDies(s)
           \/ \E d \in sweeps[s].due : SweepSkip(s, d)
  BY <1>1, <1>3 DEF SweepFind, SweepAppend, SweepEntryFails, SweepDies, SweepSkip
<1>4. QED
  BY <1>2, <1>3 DEF SweepStep, SweepProgress, SweepHandle

LEMMA PublishMoves ==
  ASSUME StoreTypeOK, PublishTypeOK, NEW a \in Publisher, PublishStep(a),
         NEW c \in Customer, NEW v \in Version
  PROVE  PublishMove(a, c, v)
<1> USE DEF storeVars, evidenceVars
<1> DEFINE b == publications[a]
<1>0. states \in States
  BY StoreTypeParts
<1>1. ASSUME UNCHANGED states PROVE PublishMove(a, c, v)
  BY <1>1 DEF PublishMove
<1>2. ASSUME publishing(a), NEW d \in b.open, PublishSupersede(a, d) PROVE PublishMove(a, c, v)
  <2>1. d.customer \in Customer /\ d.version \in Version
    BY <1>2, PublicationInFlight DEF Publication, Snapshot
  <2>2. states'[c][v] = IF c = d.customer /\ v = d.version
                        THEN supersede(d.row) ELSE states[c][v]
    BY <1>0, <1>2, <2>1, SavedRow DEF PublishSupersede
  <2>3. QED
    BY <1>2, <2>2 DEF PublishSupersede, PublishMove
<1>3. ASSUME publishing(a), NEW e \in Customer, PublishRollout(a, e) PROVE PublishMove(a, c, v)
  <2>1. b.version \in Version /\ states[e][b.version] = NoRow
    BY <1>3, PublicationInFlight DEF Publication, PublishRollout, exists
  <2>2. states'[c][v] = IF c = e /\ v = b.version THEN rolloutRow(a, e) ELSE states[c][v]
    BY <1>0, <1>3, <2>1, SavedRow DEF PublishRollout
  <2>3. QED
    BY <2>1, <2>2 DEF PublishMove
<1>4. CASE \/ \E w \in Version : PublishRead(a, w)
           \/ PublishSave(a) \/ PublishSiblings(a) \/ PublishFindOpen(a) \/ PublishTargets(a)
           \/ PublishReturn(a) \/ PublishDies(a)
           \/ \E w \in b.predecessors : PublishRetire(a, w)
           \/ \E e \in Customer : PublishRefused(a, e)
  BY <1>1, <1>4
  DEF PublishRead, PublishSave, PublishSiblings, PublishFindOpen, PublishTargets,
      PublishReturn, PublishDies, PublishRetire, PublishRefused
<1>5. QED
  BY <1>2, <1>3, <1>4 DEF PublishStep, PublishProgress

-----------------------------------------------------------------------------
(* A version's status, where publishes do not overlap. *)

SavesDraft ==
  \A a \in Publisher : in(a, "save") => versions[publications[a].version].status = "DRAFT"

StatusAdvances ==
  \A v \in Version :
    /\ versions[v].status = "PUBLISHED" => versions'[v].status # "DRAFT"
    /\ versions[v].status = "RETIRED" => versions'[v].status = "RETIRED"

LEMMA PublishAdvances ==
  ASSUME TypeOK, SavesDraft, NEW a \in Publisher, \A b \in Publisher : a = b, PublishStep(a)
  PROVE  SavesDraft' /\ StatusAdvances
<1> USE DEF storeVars, evidenceVars
<1>0. PublishTypeOK /\ versions \in [Version -> [status : VersionStatus, publishedAt : MaybeTime]]
  BY StoreTypeParts DEF TypeOK
<1>1. ASSUME UNCHANGED versions PROVE StatusAdvances
  BY <1>1 DEF StatusAdvances
<1>2. ASSUME NEW v \in Version, PublishRead(a, v) PROVE SavesDraft' /\ StatusAdvances
  BY <1>0, <1>1, <1>2 DEF PublishRead, SavesDraft, PublishTypeOK
<1>3. CASE PublishDies(a)
  BY <1>0, <1>1, <1>3 DEF PublishDies, endPublish, SavesDraft, in, NoPublication, PublishTypeOK
<1>4. CASE publishing(a) /\ PublishProgress(a)
  <2> DEFINE b == publications[a]
  <2>0. b \in Publication /\ b.version \in Version /\ b.predecessors \subseteq VersionRow
    BY <1>0, <1>4, PublicationInFlight DEF Publication
  <2>1. ASSUME publications'[a].step # "save", StatusAdvances PROVE SavesDraft' /\ StatusAdvances
    BY <2>1 DEF SavesDraft, in
  <2>2. CASE PublishSave(a)
    <3>1. publications'[a].step # "save"
      BY <1>0, <2>0, <2>2 DEF PublishSave, PublishTypeOK, Publication
    <3>2. StatusAdvances
      BY <1>0, <2>0, <2>2 DEF PublishSave, SavesDraft, StatusAdvances
    <3>3. QED
      BY <2>1, <3>1, <3>2
  <2>3. ASSUME NEW w \in b.predecessors, PublishRetire(a, w) PROVE SavesDraft' /\ StatusAdvances
    <3>1. publications'[a].step # "save"
      BY <1>0, <2>0, <2>3 DEF PublishRetire, drained, in, PublishTypeOK, Publication
    <3>2. StatusAdvances
      BY <1>0, <2>0, <2>3 DEF PublishRetire, saveRetired, StatusAdvances, VersionRow
    <3>3. QED
      BY <2>1, <3>1, <3>2
  <2>4. CASE PublishSiblings(a) \/ PublishFindOpen(a) \/ PublishTargets(a)
    <3>1. CASE PublishSiblings(a)
      BY <1>0, <1>1, <2>0, <2>1, <3>1 DEF PublishSiblings, PublishTypeOK, Publication
    <3>2. CASE PublishFindOpen(a)
      <4>1. in(a, "predecessors") /\ UNCHANGED versions
        BY <3>2 DEF PublishFindOpen
      <4>2. publications'[a].step = publications[a].step
        BY <1>0, <2>0, <3>2 DEF PublishFindOpen, PublishTypeOK, Publication
      <4>3. QED
        BY <1>1, <2>1, <4>1, <4>2 DEF in
    <3>3. CASE PublishTargets(a)
      BY <1>0, <1>1, <2>0, <2>1, <3>3 DEF PublishTargets, PublishTypeOK, Publication
    <3>4. QED
      BY <2>4, <3>1, <3>2, <3>3
  <2>5. ASSUME NEW d \in b.open, PublishSupersede(a, d) PROVE SavesDraft' /\ StatusAdvances
    BY <1>0, <1>1, <2>0, <2>1, <2>5 DEF PublishSupersede, in, PublishTypeOK, Publication
  <2>6. ASSUME NEW c \in Customer, PublishRollout(a, c) PROVE SavesDraft' /\ StatusAdvances
    BY <1>0, <1>1, <2>0, <2>1, <2>6 DEF PublishRollout, in, PublishTypeOK, Publication
  <2>7. ASSUME NEW c \in Customer, PublishRefused(a, c) PROVE SavesDraft' /\ StatusAdvances
    BY <1>0, <1>1, <2>1, <2>7 DEF PublishRefused, endPublish, NoPublication, PublishTypeOK
  <2>8. CASE PublishReturn(a)
    BY <1>0, <1>1, <2>1, <2>8 DEF PublishReturn, endPublish, NoPublication, PublishTypeOK
  <2>9. QED
    BY <1>4, <2>2, <2>3, <2>4, <2>5, <2>6, <2>7, <2>8 DEF PublishProgress
<1>5. QED
  BY <1>2, <1>3, <1>4 DEF PublishStep

LEMMA OthersAdvance ==
  ASSUME SavesDraft, UNCHANGED <<versions, publications>>
  PROVE  SavesDraft' /\ StatusAdvances
BY DEF SavesDraft, StatusAdvances, in
=============================================================================
