----------------------------- MODULE AdminDesk -----------------------------
(***************************************************************************)
(* CustomerVersionStateAdminService: an admin extends a deadline, suspends  *)
(* a block, reopens an objection or sends a reminder.  Each reads the row   *)
(* by its id and later saves every column of it as read.                    *)
(***************************************************************************)
EXTENDS Outreach

CONSTANTS
  Admin,       \* the requests admins make: bounds the model
  NewDeadline  \* the deadlines they give

ASSUME DeskAssumption == NewDeadline \subseteq Nat

VARIABLES
  desk,      \* desk[a]: the row admin a is about to save, and the mails before
  remarked   \* history: rows whose spent rollout marker a save brought back

DeskIdle == [step |-> "idle", customer |-> None, version |-> None, row |-> NoRow,
             to |-> {}, ref |-> None]

DeskDone == [DeskIdle EXCEPT !.step = "done"]

DeskRun ==
  [step : {"save", "mail"}, customer : Customer, version : Version,
   row : CustomerVersionState, to : SUBSET Address, ref : MaybeRef]

DeskTypeOK ==
  /\ desk \in [Admin -> DeskRun \cup {DeskIdle, DeskDone}]
  /\ remarked \subseteq Row

DeskInit == desk = [a \in Admin |-> DeskIdle] /\ remarked = {}

inFlight(a) == desk[a].step \in {"save", "mail"}
deskStart(a, c, v, step, row, to) ==
  /\ desk[a] = DeskIdle
  /\ desk' = [desk EXCEPT ![a] = [step |-> step, customer |-> c, version |-> v,
                                  row |-> row, to |-> to, ref |-> None]]

(* patch: the three changes, and no other state is refused an extension. *)
patched(row) ==
  (IF row.state = "OBJECTED" THEN {[row EXCEPT !.state = "NOTIFIED"]} ELSE {})
  \cup (IF row.state = "EXPIRED_BLOCKING"
        THEN {[row EXCEPT !.state = "NOTIFIED", !.deadlineAt = d] : d \in NewDeadline}
        ELSE {})
  \cup {[row EXCEPT !.deadlineAt = d] : d \in NewDeadline}

PatchRead(a, c, v) ==
  /\ exists(c, v)
  /\ \E row \in patched(states[c][v]) : deskStart(a, c, v, "save", row, {})
  /\ UNCHANGED <<storeVars, outreachVars, remarked>>

(* remind: the mails to all contacts go out between the read and the save. *)
RemindRead(a, c, v) ==
  /\ exists(c, v)
  /\ deskStart(a, c, v, "mail", [states[c][v] EXCEPT !.remindersSent = @ + 1], Contact[c])
  /\ UNCHANGED <<storeVars, outreachVars, remarked>>

DeskMail(a) ==
  \E to \in desk[a].to :
    /\ desk[a].ref = None
    /\ post(desk[a].customer, desk[a].version, to,
            IF desk[a].row.deadlineAt # None THEN "REMINDER" ELSE "RENOTICE")
    /\ desk' = [desk EXCEPT ![a].to = @ \ {to}, ![a].ref = Len(sent')]
    /\ UNCHANGED <<storeVars, outbound, delivered, received, answered, events, cutShort,
                   mailers, reminders, calls, remarked>>

DeskRecord(a) ==
  /\ desk[a].ref # None
  /\ record(desk[a].ref)
  /\ desk' = [desk EXCEPT ![a].ref = None]
  /\ UNCHANGED <<storeVars, sent, delivered, received, answered, events, cutShort,
                 mailers, reminders, calls, remarked>>

DeskSave(a) ==
  /\ inFlight(a) /\ desk[a].to = {} /\ desk[a].ref = None
  /\ LET c == desk[a].customer
         v == desk[a].version
     IN /\ save(c, v, desk[a].row)
        /\ remarked' = IF desk[a].row.notificationDue /\ markerSpent(c, v)
                       THEN remarked \cup {<<c, v>>} ELSE remarked
  /\ desk' = [desk EXCEPT ![a] = DeskDone]
  /\ UNCHANGED <<now, versions, acceptances, objections, faults, orphans, outreachVars>>

DeskDies(a) ==
  /\ inFlight(a)
  /\ Fault
  /\ desk' = [desk EXCEPT ![a] = DeskDone]
  /\ UNCHANGED <<now, versions, states, acceptances, objections, orphans,
                 outreachVars, remarked>>

DeskProgress(a) == DeskMail(a) \/ DeskRecord(a) \/ DeskSave(a)

DeskStep(a) ==
  \/ \E c \in Customer, v \in Version : PatchRead(a, c, v) \/ RemindRead(a, c, v)
  \/ DeskProgress(a)
  \/ DeskDies(a)
=============================================================================
