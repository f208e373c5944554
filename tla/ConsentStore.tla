---------------------------- MODULE ConsentStore ----------------------------
(***************************************************************************)
(* The tables the consent services share, and the writes the repositories   *)
(* offer on them, as src/persistence/prisma implements them: one document   *)
(* with its versions, one row per customer and version (the unique index),  *)
(* the append-only acceptances and objections, and the server clock.        *)
(* Every repository call is one atomic statement; nothing spans two calls.  *)
(***************************************************************************)
EXTENDS StateMachine

CONSTANTS
  Customer,   \* the customers
  Holder,     \* the customers holding the document's audience role
  MaxTime,    \* the last day of the model: bounds the clock
  MaxFaults   \* how many operations may die part-way: bounds Fault

ASSUME StoreAssumption ==
  /\ Holder \subseteq Customer
  /\ MaxTime \in Nat
  /\ MaxFaults \in Nat

VARIABLES
  now,          \* Clock.now()
  versions,     \* versions[v].status and .publishedAt
  states,       \* states[c][v]: the CustomerVersionState, or NoRow
  acceptances,  \* the effective Acceptance records
  objections,   \* the Objection records
  faults,       \* operations that died part-way so far
  orphans       \* history: <<c, v>> accepted by an operation that died before
                \* it appended the Acceptance

storeVars == <<now, versions, states, acceptances, objections, faults, orphans>>

VersionStatus == {"DRAFT", "PUBLISHED", "RETIRED"}
AcceptanceMethod == {"ACTIVE_CONSENT", "IMPORT", "TACIT"}
Acceptance ==
  [customer : Customer, version : Version, method : AcceptanceMethod, acceptedAt : Nat]
Objection == [customer : Customer, version : Version, objectedAt : Nat]

StoreTypeOK ==
  /\ now \in Nat
  /\ versions \in [Version -> [status : VersionStatus, publishedAt : MaybeTime]]
  /\ states \in [Customer -> [Version -> CustomerVersionState \cup {NoRow}]]
  /\ acceptances \subseteq Acceptance
  /\ objections \subseteq Objection
  /\ faults \in Nat
  /\ orphans \subseteq Customer \X Version

StoreInit ==
  /\ now = 0
  /\ versions = [v \in Version |-> [status |-> "DRAFT", publishedAt |-> None]]
  /\ states = [c \in Customer |-> [v \in Version |-> NoRow]]
  /\ acceptances = {}
  /\ objections = {}
  /\ faults = 0
  /\ orphans = {}

-----------------------------------------------------------------------------
(* Versions *)

Published(v) == versions[v].status = "PUBLISHED"
InEffect(v) == Published(v) /\ ValidFrom[v] <= now

(* findCurrentPublished: the newest validFrom in effect, a tie going to the
   newest publishedAt, and a tie of both to either. *)
isCurrent(v) ==
  /\ InEffect(v)
  /\ \A w \in Version :
       InEffect(w) => \/ ValidFrom[w] < ValidFrom[v]
                      \/ /\ ValidFrom[w] = ValidFrom[v]
                         /\ versions[w].publishedAt <= versions[v].publishedAt

(* assertVersionCurrent: the current version or any upcoming one. *)
assertVersionCurrent(v) == isCurrent(v) \/ (Published(v) /\ ValidFrom[v] > now)

(* A PUBLISHED version as read, to be written back whole later. *)
VersionRow == [version : Version, publishedAt : MaybeTime]
versionRow(v) == [version |-> v, publishedAt |-> versions[v].publishedAt]
saveRetired(r) ==
  versions' = [versions EXCEPT ![r.version] = [status |-> "RETIRED", publishedAt |-> r.publishedAt]]

-----------------------------------------------------------------------------
(* Rows *)

exists(c, v) == states[c][v] # NoRow

(* save with the id of a stored row: every column is overwritten. *)
save(c, v, r) == states' = [states EXCEPT ![c][v] = r]

OPEN_STATES == {"PENDING_NOTIFICATION", "NOTIFIED", "OBJECTED", "EXPIRED_BLOCKING"}

(* A slip: NOTIFIED left out. *)
UNNOTIFIED_STATES == {"PENDING_NOTIFICATION"}

SWEEPABLE_STATES == {"PENDING_NOTIFICATION", "NOTIFIED"}

(* A row read at one moment and used at a later one. *)
Snapshot == [customer : Customer, version : Version, row : CustomerVersionState]
snapshot(c, v) == [customer |-> c, version |-> v, row |-> states[c][v]]

findOpenByVersion(v) ==
  {snapshot(c, v) : c \in {d \in Customer : states[d][v].state \in OPEN_STATES}}

findDueForSweep ==
  UNION {{snapshot(c, v) : c \in {d \in Customer :
            /\ states[d][v].state \in SWEEPABLE_STATES
            /\ isDue(states[d][v], now)}} : v \in Version}

(* A slip: an update of the row whatever its state. *)
rowFound(c, v, expected) == exists(c, v) /\ expected \in CvsState

(* The conditional update: WHERE state = expected, only the state changes. *)
inState(c, v, expected) == states[c][v].state = expected
setState(c, v, to) == states' = [states EXCEPT ![c][v].state = to]

(* A slip: every column of the row as it was read. *)
saveNotified(c, v, update) ==
  states' = IF inState(c, v, "PENDING_NOTIFICATION") /\ states[c][v].notifiedAt = None
            THEN [states EXCEPT ![c][v] = update]
            ELSE states

(* A slip: the update without its WHERE. *)
setNotified(c, v, update) ==
  states' = [states EXCEPT ![c][v].state = update.state,
                           ![c][v].notifiedAt = update.notifiedAt,
                           ![c][v].deadlineAt = update.deadlineAt]

(* SET state, notifiedAt, deadlineAt WHERE notifiedAt IS NULL AND state is
   PENDING_NOTIFICATION, from the values the caller computed. *)
setNotifiedAtomically(c, v, update) ==
  states' = IF inState(c, v, "PENDING_NOTIFICATION") /\ states[c][v].notifiedAt = None
            THEN [states EXCEPT ![c][v].state = update.state,
                                ![c][v].notifiedAt = update.notifiedAt,
                                ![c][v].deadlineAt = update.deadlineAt]
            ELSE states

-----------------------------------------------------------------------------
(* Evidence *)

accepted(c, v) == \E a \in acceptances : a.customer = c /\ a.version = v
tacitlyAccepted(c, v) ==
  \E a \in acceptances : a.customer = c /\ a.version = v /\ a.method = "TACIT"
objected(c, v) == \E o \in objections : o.customer = c /\ o.version = v

(* append: the partial unique index refuses a second effective acceptance. *)
appendAcceptance(c, v, method) ==
  acceptances' =
    IF accepted(c, v) THEN acceptances
    ELSE acceptances \cup
           {[customer |-> c, version |-> v, method |-> method, acceptedAt |-> now]}

appendObjection(c, v) ==
  objections' = objections \cup {[customer |-> c, version |-> v, objectedAt |-> now]}

-----------------------------------------------------------------------------
(* An operation dies part-way: the process crashes or a statement fails. *)
Fault == faults < MaxFaults /\ faults' = faults + 1

Tick ==
  /\ now < MaxTime
  /\ now' = now + 1
  /\ UNCHANGED <<versions, states, acceptances, objections, faults, orphans>>
=============================================================================
