------------------------------ MODULE Outreach ------------------------------
(***************************************************************************)
(* The mails about a version and what comes back of them: the rollout       *)
(* notification job, the reminder job, the delivery webhook with its        *)
(* fallback polling, and the tables they share.  The mail provider is       *)
(* outside: it takes a mail, may deliver it, and reports when it pleases,   *)
(* twice if it pleases, and again if a call was not answered.               *)
(***************************************************************************)
EXTENDS ConsentStore, FiniteSets, Sequences

CONSTANTS
  Contact,     \* Contact[c]: the stored contactEmails of c
  UserId,      \* what a display is recorded under: the actor's userId
  Deleted,     \* the customers that are soft-deleted
  REMINDER_THRESHOLDS_DAYS,  \* days before the deadline, descending
  Batch,       \* rows one rollout run takes
  Mailer,      \* processes with a rollout job, each one run at a time
  Reminder,    \* reminder runs that may overlap
  Webhook,     \* webhook calls that may be in flight
  Poller,      \* fallback polls that may be in flight
  MaxMails,    \* how many mails the provider takes: bounds the model
  Reported     \* the refs it delivers and reports on: bounds the model

ASSUME OutreachAssumption ==
  /\ Deleted \subseteq Customer
  /\ REMINDER_THRESHOLDS_DAYS \in Seq(Nat)
  /\ Batch \in Nat /\ MaxMails \in Nat

VARIABLES
  sent,       \* the mails the provider has taken; a position is a providerRef
  outbound,   \* the refs with an OutboundEmail
  delivered,  \* those with a deliveredAt
  received,   \* the refs the provider has delivered
  answered,   \* the refs whose latest webhook call was answered 200
  events,     \* the NotificationEvents
  mailers, reminders, calls,
  cutShort    \* history: refs marked delivered by a poll that then died

mailTables == <<sent, outbound, delivered, received, answered, events, cutShort>>
outreachVars == <<mailTables, mailers, reminders, calls>>

Address == {UserId} \cup UNION {Contact[c] : c \in Customer}
Row == Customer \X Version
Ref == 1..MaxMails
Candidate == [customer : Customer, version : Version, row : CustomerVersionState, to : Address]
Mail == [row : Row, to : Address, kind : {"ROLLOUT", "REMINDER", "RENOTICE"}]

(* The ref of a mail the provider has taken, if any. *)
MaybeRef == DOMAIN sent \cup {None}
Event == [row : Row, ref : MaybeRef, recipient : Address, id : Nat]

MailerIdle == [due |-> {}, to |-> {}, ref |-> None]
ReminderIdle == [at |-> 0, due |-> {}, cur |-> {}, count |-> 0, ref |-> None]
CallIdle == [step |-> "idle", ref |-> None, row |-> NoRow]

MailerRun == [due : SUBSET Row, to : SUBSET (Row \X Address), ref : MaybeRef]
ReminderRun ==
  [at : Nat, due : SUBSET Candidate, cur : SUBSET Candidate, count : Nat, ref : MaybeRef]
Call ==
  {CallIdle} \cup [step : {"read"}, ref : received, row : {NoRow}]
    \cup [step : {"check", "append", "write"}, ref : received, row : CustomerVersionState]

OutreachTypeOK ==
  /\ sent \in Seq(Mail)
  /\ delivered \subseteq outbound /\ answered \subseteq received
  /\ outbound \cup received \cup cutShort \subseteq DOMAIN sent
  /\ events \subseteq Event /\ IsFiniteSet(events)
  /\ mailers \in [Mailer -> MailerRun]
  /\ reminders \in [Reminder -> ReminderRun]
  /\ calls \in [Webhook \cup Poller -> Call]

OutreachInit ==
  /\ sent = <<>> /\ outbound = {} /\ delivered = {} /\ received = {}
  /\ answered = {} /\ events = {} /\ cutShort = {}
  /\ mailers = [m \in Mailer |-> MailerIdle]
  /\ reminders = [r \in Reminder |-> ReminderIdle]
  /\ calls = [w \in Webhook \cup Poller |-> CallIdle]

(* sendAndRecord: the provider takes the mail, then the send is recorded. *)
post(c, v, a, kind) ==
  /\ Len(sent) < MaxMails
  /\ sent' = Append(sent, [row |-> <<c, v>>, to |-> a, kind |-> kind])
record(ref) == outbound' = outbound \cup {ref}

clearNotificationDue(c, v) == states' = [states EXCEPT ![c][v].notificationDue = FALSE]

(* The rollout job will not take the row again. *)
markerSpent(c, v) ==
  exists(c, v) /\ (~states[c][v].notificationDue \/ states[c][v].state = "SUPERSEDED")

appendEvent(c, v, ref, recipient) ==
  events' = events \cup {[row |-> <<c, v>>, ref |-> ref, recipient |-> recipient,
                           id |-> Cardinality(events)]}

-----------------------------------------------------------------------------
(* RolloutNotificationService.run *)

findDueForNotification ==
  {k \in Row : /\ states[k[1]][k[2]].state = "PENDING_NOTIFICATION"
               /\ states[k[1]][k[2]].notificationDue}

MailerFind(m) ==
  /\ mailers[m] = MailerIdle
  /\ \E due \in SUBSET findDueForNotification :
       /\ due = findDueForNotification \/ Cardinality(due) = Batch
       /\ Cardinality(due) \in 1..Batch
       /\ mailers' = [mailers EXCEPT ![m].due = due]
  /\ UNCHANGED <<storeVars, mailTables>>

(* A slip: the marker is left for the next run to clear. *)
MailerClaimNothing(m) ==
  \E k \in mailers[m].due :
    /\ mailers[m].to = {} /\ mailers[m].ref = None
    /\ mailers' = [mailers EXCEPT ![m] =
         [due |-> @.due \ {k}, to |-> {k} \X Contact[k[1]], ref |-> None]]
    /\ UNCHANGED <<storeVars, mailTables>>

(* The marker is cleared before anything is sent. *)
MailerClaim(m) ==
  \E k \in mailers[m].due :
    /\ mailers[m].to = {} /\ mailers[m].ref = None
    /\ clearNotificationDue(k[1], k[2])
    /\ mailers' = [mailers EXCEPT ![m] =
         [due |-> @.due \ {k}, ref |-> None,
          to |-> {k} \X IF k[1] \in Deleted THEN {} ELSE Contact[k[1]]]]
    /\ UNCHANGED <<now, versions, acceptances, objections, faults, orphans, mailTables>>

MailerSend(m) ==
  \E t \in mailers[m].to :
    /\ mailers[m].ref = None
    /\ post(t[1][1], t[1][2], t[2], "ROLLOUT")
    /\ mailers' = [mailers EXCEPT ![m].to = @ \ {t}, ![m].ref = Len(sent')]
    /\ UNCHANGED <<storeVars, outbound, delivered, received, answered, events, cutShort>>

MailerRecord(m) ==
  /\ mailers[m].ref # None
  /\ record(mailers[m].ref)
  /\ mailers' = [mailers EXCEPT ![m].ref = None]
  /\ UNCHANGED <<storeVars, sent, delivered, received, answered, events, cutShort>>

(* A send or its record fails: the other contacts are skipped and the run
   goes on; or the process dies with the whole run. *)
MailerFails(m) ==
  /\ mailers[m].to # {} \/ mailers[m].ref # None
  /\ Fault
  /\ \E due \in {mailers[m].due, {}} :
       mailers' = [mailers EXCEPT ![m] = [MailerIdle EXCEPT !.due = due]]
  /\ UNCHANGED <<now, versions, states, acceptances, objections, orphans, mailTables>>

MailerProgress(m) ==
  MailerFind(m) \/ MailerClaim(m) \/ MailerSend(m) \/ MailerRecord(m)

-----------------------------------------------------------------------------
(* ReminderService.run *)

(* The row's latest NotificationEvent tells the recipient. *)
recipientIs(c, v, a) ==
  \E e \in events :
    /\ e.row = <<c, v>> /\ e.recipient = a
    /\ \A f \in events : f.row = e.row => f.id <= e.id

(* findDue: a row without a NotificationEvent is no candidate. *)
findDue(before) ==
  {d \in {[customer |-> k[1], version |-> k[2], row |-> states[k[1]][k[2]], to |-> a] :
           k \in Row, a \in Address} :
     /\ d.row.state \in SWEEPABLE_STATES
     /\ isDue(d.row, before)
     /\ recipientIs(d.customer, d.version, d.to)}

thresholdDue(row, index, t) ==
  /\ index < Len(REMINDER_THRESHOLDS_DAYS)
  /\ row.deadlineAt <= t + REMINDER_THRESHOLDS_DAYS[index + 1]

RemindFind(r) ==
  /\ reminders[r] = ReminderIdle
  /\ LET due == findDue(now + REMINDER_THRESHOLDS_DAYS[1])
     IN due # {} /\ reminders' = [reminders EXCEPT ![r].at = now, ![r].due = due]
  /\ UNCHANGED <<storeVars, mailTables>>

(* A slip: the reminder is counted before it is sent. *)
RemindTakeCounted(r) ==
  /\ reminders[r].cur = {}
  /\ \E d \in reminders[r].due :
       /\ reminders' = [reminders EXCEPT ![r].due = @ \ {d}, ![r].cur = {d},
                                        ![r].count = d.row.remindersSent]
       /\ thresholdDue(d.row, d.row.remindersSent, reminders[r].at)
       /\ states' = [states EXCEPT ![d.customer][d.version].remindersSent = @ + 1]
  /\ UNCHANGED <<now, versions, acceptances, objections, faults, orphans, mailTables>>

(* remindOne: PASSIVE candidates are passed over. *)
RemindTake(r) ==
  /\ reminders[r].cur = {}
  /\ \E d \in reminders[r].due :
       reminders' = [reminders EXCEPT
         ![r].due = @ \ {d},
         ![r].cur = IF AcceptanceMode[d.version] = "PASSIVE" THEN {} ELSE {d},
         ![r].count = IF AcceptanceMode[d.version] = "PASSIVE" THEN 0
                      ELSE d.row.remindersSent]
  /\ UNCHANGED <<storeVars, mailTables>>

RemindSend(r) ==
  \E d \in reminders[r].cur :
    /\ reminders[r].ref = None
    /\ thresholdDue(d.row, reminders[r].count, reminders[r].at)
    /\ post(d.customer, d.version, d.to, "REMINDER")
    /\ reminders' = [reminders EXCEPT ![r].count = @ + 1, ![r].ref = Len(sent')]
    /\ UNCHANGED <<storeVars, outbound, delivered, received, answered, events, cutShort>>

RemindRecord(r) ==
  /\ reminders[r].ref # None
  /\ record(reminders[r].ref)
  /\ reminders' = [reminders EXCEPT ![r].ref = None]
  /\ UNCHANGED <<storeVars, sent, delivered, received, answered, events, cutShort>>

(* The counter is written where the state is still as read. *)
RemindWrite(r) ==
  \E d \in reminders[r].cur :
    /\ reminders[r].ref = None
    /\ ~thresholdDue(d.row, reminders[r].count, reminders[r].at)
    /\ states' = IF /\ reminders[r].count # d.row.remindersSent
                    /\ inState(d.customer, d.version, d.row.state)
                 THEN [states EXCEPT ![d.customer][d.version].remindersSent =
                                       reminders[r].count]
                 ELSE states
    /\ reminders' = [reminders EXCEPT ![r].cur = {}, ![r].count = 0]
    /\ UNCHANGED <<now, versions, acceptances, objections, faults, orphans, mailTables>>

(* Nothing is caught: a failing send ends the run like a crash. *)
RemindDies(r) ==
  /\ reminders[r].due # {} \/ reminders[r].cur # {}
  /\ Fault
  /\ reminders' = [reminders EXCEPT ![r] = ReminderIdle]
  /\ UNCHANGED <<now, versions, states, acceptances, objections, orphans, mailTables>>

RemindEnd(r) ==
  /\ reminders[r] # ReminderIdle /\ reminders[r].due = {} /\ reminders[r].cur = {}
  /\ reminders' = [reminders EXCEPT ![r] = ReminderIdle]
  /\ UNCHANGED <<storeVars, mailTables>>

RemindProgress(r) ==
  \/ RemindFind(r) \/ RemindTake(r) \/ RemindSend(r)
  \/ RemindRecord(r) \/ RemindWrite(r) \/ RemindEnd(r)

-----------------------------------------------------------------------------
(* DeliveryEventService.recordDelivery.  A bounce writes an escalation note
   and none of these tables. *)

ProviderDelivers(ref) ==
  /\ ref \in (DOMAIN sent \cap Reported) \ received
  /\ received' = received \cup {ref}
  /\ UNCHANGED <<storeVars, sent, outbound, delivered, answered, events, cutShort>>

callAt(w, step) == calls[w].step = step
rowOf(w) == sent[calls[w].ref].row
callTo(w, step) == calls' = [calls EXCEPT ![w].step = step]
endCall(w) ==
  /\ calls' = [calls EXCEPT ![w] = CallIdle]
  /\ answered' = IF w \in Webhook THEN answered \cup {calls[w].ref} ELSE answered

(* handle: a ref that is not on record is answered and forgotten. *)
WebhookCall(w, ref) ==
  /\ callAt(w, "idle") /\ ref \in received
  /\ IF ref \in outbound
     THEN /\ delivered' = delivered \cup {ref}
          /\ calls' = [calls EXCEPT ![w].step = "read", ![w].ref = ref]
          /\ answered' = answered \ {ref}
     ELSE answered' = answered \cup {ref} /\ UNCHANGED <<calls, delivered>>
  /\ UNCHANGED <<storeVars, sent, outbound, received, events, cutShort>>

(* pollPendingDeliveries *)
PollCall(w, ref) ==
  /\ callAt(w, "idle") /\ ref \in (received \cap outbound) \ delivered
  /\ delivered' = delivered \cup {ref}
  /\ calls' = [calls EXCEPT ![w].step = "read", ![w].ref = ref]
  /\ UNCHANGED <<storeVars, sent, outbound, received, answered, events, cutShort>>

DeliveryRead(w) ==
  /\ callAt(w, "read")
  /\ LET row == states[rowOf(w)[1]][rowOf(w)[2]]
     IN IF row.state \in {NoRow.state, "SUPERSEDED"} THEN endCall(w)
        ELSE /\ calls' = [calls EXCEPT ![w].step = "check", ![w].row = row]
             /\ UNCHANGED answered
  /\ UNCHANGED <<storeVars, sent, outbound, delivered, received, events, cutShort>>

(* A slip: a delivery that has its event is taken for done. *)
DeliveryCheckDone(w) ==
  /\ callAt(w, "check")
  /\ IF \E e \in events : e.ref = calls[w].ref THEN endCall(w)
     ELSE callTo(w, "append") /\ UNCHANGED answered
  /\ UNCHANGED <<storeVars, sent, outbound, delivered, received, events, cutShort>>

DeliveryCheck(w) ==
  /\ callAt(w, "check")
  /\ callTo(w, IF \E e \in events : e.ref = calls[w].ref THEN "write" ELSE "append")
  /\ UNCHANGED <<storeVars, mailTables>>

DeliveryAppend(w) ==
  /\ callAt(w, "append")
  /\ appendEvent(rowOf(w)[1], rowOf(w)[2], calls[w].ref, sent[calls[w].ref].to)
  /\ callTo(w, "write")
  /\ UNCHANGED <<storeVars, sent, outbound, delivered, received, answered, cutShort>>

DeliveryWrite(w) ==
  /\ callAt(w, "write")
  /\ LET row == calls[w].row
     IN setNotifiedAtomically(rowOf(w)[1], rowOf(w)[2],
          recordAccess(row, rowOf(w)[2], now, row.carryOverBlocking))
  /\ endCall(w)
  /\ UNCHANGED <<now, versions, acceptances, objections, faults, orphans,
                 sent, outbound, delivered, received, events, cutShort>>

DeliveryDies(w) ==
  /\ ~callAt(w, "idle")
  /\ Fault
  /\ cutShort' = IF w \in Poller THEN cutShort \cup {calls[w].ref} ELSE cutShort
  /\ calls' = [calls EXCEPT ![w] = CallIdle]
  /\ UNCHANGED <<now, versions, states, acceptances, objections, orphans,
                 sent, outbound, delivered, received, answered, events>>

DeliveryProgress(w) ==
  DeliveryRead(w) \/ DeliveryCheck(w) \/ DeliveryAppend(w) \/ DeliveryWrite(w)

-----------------------------------------------------------------------------
MailerStep(m) == (MailerProgress(m) \/ MailerFails(m)) /\ UNCHANGED <<reminders, calls>>
RemindStep(r) == (RemindProgress(r) \/ RemindDies(r)) /\ UNCHANGED <<mailers, calls>>
CallsStep ==
  /\ \/ \E ref \in DOMAIN sent : ProviderDelivers(ref) /\ UNCHANGED calls
     \/ \E w \in Webhook, ref \in received : WebhookCall(w, ref)
     \/ \E w \in Poller, ref \in received : PollCall(w, ref)
     \/ \E w \in Webhook \cup Poller : DeliveryProgress(w) \/ DeliveryDies(w)
  /\ UNCHANGED <<mailers, reminders>>

OutreachStep ==
  \/ \E m \in Mailer : MailerStep(m)
  \/ \E r \in Reminder : RemindStep(r)
  \/ CallsStep
=============================================================================
