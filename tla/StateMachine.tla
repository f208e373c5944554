---------------------------- MODULE StateMachine ----------------------------
(***************************************************************************)
(* The pure transition functions of src/domain/state-machine.ts: what an    *)
(* access, a consent, an objection, a due deadline and a superseding        *)
(* publish do to one CustomerVersionState, and whether that state blocks.   *)
(* Time is a natural number of days; an undefined date is None.             *)
(***************************************************************************)
EXTENDS Naturals

CONSTANTS
  Version,          \* the versions of one agreement document
  AcceptanceMode,   \* AcceptanceMode[v] is "ACTIVE" or "PASSIVE"
  ValidFrom,        \* ValidFrom[v]: the day v takes effect
  HardDeadline,     \* HardDeadline[v]: absolute deadline of an ACTIVE version
  ObjectionPeriod,  \* ObjectionPeriod[v]: days to object to a PASSIVE version
  None              \* an undefined date

ASSUME VersionAssumption ==
  /\ AcceptanceMode \in [Version -> {"ACTIVE", "PASSIVE"}]
  /\ ValidFrom \in [Version -> Nat]
  /\ HardDeadline \in [Version -> Nat]
  /\ ObjectionPeriod \in [Version -> Nat]
  /\ None \notin Nat

MaybeTime == Nat \cup {None}

CvsState == {"PENDING_NOTIFICATION", "NOTIFIED", "ACCEPTED", "OBJECTED",
             "EXPIRED_BLOCKING", "SUPERSEDED"}

CustomerVersionState ==
  [state : CvsState, notifiedAt : MaybeTime, deadlineAt : MaybeTime,
   remindersSent : Nat, carryOverBlocking : BOOLEAN, notificationDue : BOOLEAN]

(* What findByCustomerAndVersion finds where no row exists. *)
NoRow ==
  [state |-> "ABSENT", notifiedAt |-> None, deadlineAt |-> None,
   remindersSent |-> 0, carryOverBlocking |-> FALSE, notificationDue |-> FALSE]

(* A slip: the fresh row is given no state. *)
StatelessRow(deadline) == [NoRow EXCEPT !.deadlineAt = deadline]

PendingRow(deadline) ==
  [NoRow EXCEPT !.state = "PENDING_NOTIFICATION", !.deadlineAt = deadline]

-----------------------------------------------------------------------------
(* The deadline a fresh row carries before any access. *)
rolloutDeadlineFor(v) ==
  IF AcceptanceMode[v] = "ACTIVE" THEN HardDeadline[v] ELSE None

(* A slip: the wrong one of the two deadlines. *)
earlierOf(a, b) == IF a >= b THEN b ELSE a

laterOf(a, b) == IF a >= b THEN a ELSE b

(* The objection deadline of an access at t, never before the version is in
   effect; a carried-over block leaves no window. *)
objectionDeadline(v, t, predecessorWasBlocking) ==
  laterOf(IF predecessorWasBlocking THEN t ELSE t + ObjectionPeriod[v], ValidFrom[v])

(* A slip: an access gives an ACTIVE version a window too. *)
recordAccessWithWindow(r, v, t, predecessorWasBlocking) ==
  IF r.state # "PENDING_NOTIFICATION" \/ r.notifiedAt # None THEN r
  ELSE [r EXCEPT !.state = "NOTIFIED", !.notifiedAt = t,
                 !.deadlineAt = objectionDeadline(v, t, predecessorWasBlocking)]

recordAccess(r, v, t, predecessorWasBlocking) ==
  IF r.state # "PENDING_NOTIFICATION" \/ r.notifiedAt # None THEN r
  ELSE [r EXCEPT !.state = "NOTIFIED", !.notifiedAt = t,
                 !.deadlineAt = IF AcceptanceMode[v] = "ACTIVE" THEN @
                                ELSE objectionDeadline(v, t, predecessorWasBlocking)]

ACCEPTABLE_FROM == {"PENDING_NOTIFICATION", "NOTIFIED", "EXPIRED_BLOCKING", "OBJECTED"}

(* accept returns instead of throwing ALREADY_ACCEPTED or INVALID_STATE. *)
acceptable(r) == r.state \in ACCEPTABLE_FROM

(* object returns instead of throwing. *)
objectable(r, v, t) ==
  /\ AcceptanceMode[v] = "PASSIVE"
  /\ r.state = "NOTIFIED"
  /\ r.deadlineAt # None
  /\ t < r.deadlineAt

ACTIVE_SWEEPABLE_STATES == {"PENDING_NOTIFICATION", "NOTIFIED"}

isDue(r, t) == r.deadlineAt # None /\ r.deadlineAt <= t

sweepOutcome(r, v, t) ==
  CASE isDue(r, t) /\ AcceptanceMode[v] = "ACTIVE" /\ r.state \in ACTIVE_SWEEPABLE_STATES
         -> "EXPIRED_BLOCKING"
    [] isDue(r, t) /\ AcceptanceMode[v] = "PASSIVE" /\ r.state = "NOTIFIED"
         -> "TACIT_ACCEPTED"
    [] OTHER -> "NOOP"

(* A slip: a notified predecessor row counts as a block. *)
wasUnanswered(r) == r.state \in {"NOTIFIED", "EXPIRED_BLOCKING"}

(* supersede and its wasBlocking result, for the open rows it is called on. *)
supersede(r) == [r EXCEPT !.state = "SUPERSEDED"]
wasBlocking(r) == r.state = "EXPIRED_BLOCKING"

CARRY_OVER_BLOCKING_STATES == {"PENDING_NOTIFICATION", "NOTIFIED"}

isBlocking(r) ==
  \/ r.state = "EXPIRED_BLOCKING"
  \/ r.carryOverBlocking /\ r.state \in CARRY_OVER_BLOCKING_STATES

(* The field checks of validateForPublish that decide a deadline. *)
publishable(v) == AcceptanceMode[v] = "ACTIVE" => HardDeadline[v] >= ValidFrom[v]
=============================================================================
