--------------------------- MODULE Correspondence ---------------------------
(***************************************************************************)
(* The consent lifecycle with everything that writes to or about its rows   *)
(* besides: the mail jobs and the delivery reports (Outreach), the admin    *)
(* desk (AdminDesk), and the delivery evidence of a display, which          *)
(* NotificationService appends after the write Lifecycle has of it.         *)
(***************************************************************************)
EXTENDS Lifecycle, AdminDesk

VARIABLES
  displays,  \* displays[p]: was the row unnotified when read; the event to come
  unproven   \* history: rows whose first display died before its event

displayVars == <<displays, unproven>>
allVars == <<vars, outreachVars, desk, remarked, displayVars>>
NoDisplay == [first |-> FALSE, due |-> {}]

DisplayTypeOK ==
  /\ displays \in [Handler -> [first : BOOLEAN, due : SUBSET Row]]
  /\ unproven \subseteq Row

CorrespondenceTypeOK == TypeOK /\ OutreachTypeOK /\ DeskTypeOK /\ DisplayTypeOK

DisplayInit == displays = [p \in Handler |-> NoDisplay] /\ unproven = {}

-----------------------------------------------------------------------------
(* NotificationService.notify, with its append. *)

DisplayRead(p, c, v) ==
  /\ displays[p].due = {}
  /\ NotifyRead(p, c, v)
  /\ displays' = [displays EXCEPT ![p].first = states[c][v].notifiedAt = None]
  /\ UNCHANGED <<mailTables, unproven>>

(* A slip: nobody appends the event of a first display. *)
DisplayWriteSilent(p) ==
  /\ NotifyWrite(p)
  /\ displays' = [displays EXCEPT ![p] = NoDisplay]
  /\ UNCHANGED <<mailTables, unproven>>

DisplayWrite(p) ==
  /\ NotifyWrite(p)
  /\ LET c == requests[p].customer
         v == requests[p].version
     IN displays' = [displays EXCEPT ![p] =
          [first |-> FALSE,
           due |-> IF @.first /\ states'[c][v].notifiedAt # None THEN {<<c, v>>} ELSE {}]]
  /\ UNCHANGED <<mailTables, unproven>>

DisplayAppend(p) ==
  /\ \E k \in displays[p].due : appendEvent(k[1], k[2], None, UserId)
  /\ displays' = [displays EXCEPT ![p] = NoDisplay]
  /\ UNCHANGED <<storeVars, requests, sent, outbound, delivered, received, answered,
                 cutShort, unproven>>

DisplayDies(p) ==
  /\ displays[p].due # {}
  /\ Fault
  /\ unproven' = unproven \cup displays[p].due
  /\ displays' = [displays EXCEPT ![p] = NoDisplay]
  /\ UNCHANGED <<now, versions, states, acceptances, objections, orphans, requests,
                 mailTables>>

(* Every other step of the handlers. *)
Answer(p) ==
  /\ displays[p].due = {}
  /\ ApiStep(p)
  /\ ~at(p, "notifyWrite") \/ faults' # faults
  /\ requests'[p].step # "notifyWrite"
  /\ UNCHANGED <<mailTables, displayVars>>

DisplayProgress(p) == DisplayWrite(p) \/ DisplayAppend(p)

Serve(p) ==
  /\ \/ \E c \in Customer, v \in Version : DisplayRead(p, c, v)
     \/ DisplayProgress(p)
     \/ DisplayDies(p)
     \/ Answer(p)
  /\ UNCHANGED <<sweeps, publications, mailers, reminders, calls, desk, remarked>>

-----------------------------------------------------------------------------
CorrespondenceInit == Init /\ OutreachInit /\ DeskInit /\ DisplayInit

CorrespondenceNext ==
  \/ /\ Clock \/ (\E s \in Sweeper : Sweep(s)) \/ (\E a \in Publisher : Publish(a))
     /\ UNCHANGED <<outreachVars, desk, remarked, displayVars>>
  \/ \E p \in Handler : Serve(p)
  \/ OutreachStep /\ UNCHANGED <<requests, sweeps, publications, desk, remarked, displayVars>>
  \/ /\ \E a \in Admin : DeskStep(a)
     /\ UNCHANGED <<requests, sweeps, publications, displayVars>>

CorrespondenceSpec == CorrespondenceInit /\ [][CorrespondenceNext]_allVars

-----------------------------------------------------------------------------
(* A rollout mail goes to an address once, wherever its job or a send of it
   dies and however often the job comes back, unless an admin request that
   read the row before the job claimed it has saved the marker back. *)
RolloutMailOnce ==
  \A i, j \in DOMAIN sent :
    sent[i] = sent[j] /\ sent[i].kind = "ROLLOUT" /\ i # j => sent[i].row \in remarked

(* A running window can be proved: for every row with an access there is a
   NotificationEvent, or the request that wrote the access is still to append
   it, or is known to have died before. *)
AccessIsEvidenced ==
  \A k \in Row :
    states[k[1]][k[2]].notifiedAt # None =>
      \/ \E e \in events : e.row = k
      \/ \E p \in Handler : k \in displays[p].due
      \/ k \in unproven

(* Why those hold: nobody is notified but by an actor who holds the evidence
   or appends it, and a row as read is no better notified than the row was. *)
hasEvent(k) == \E e \in events : e.row = k
evidenced(k) == hasEvent(k) \/ (\E p \in Handler : k \in displays[p].due) \/ k \in unproven

readEvidenced(d) == d.row.notifiedAt # None => evidenced(<<d.customer, d.version>>)

EventTellsMail == \A e \in events : e.ref # None => e.row = sent[e.ref].row

DisplayHoldsEvidence ==
  \A p \in Handler :
    /\ \A k, l \in displays[p].due : k = l
    /\ at(p, "notifyWrite") =>
         /\ displays[p].due = {}
         /\ displays[p].first \/ evidenced(<<requests[p].customer, requests[p].version>>)

ReadingsEvidenced ==
  /\ \A a \in Publisher : publishing(a) => \A d \in publications[a].open : readEvidenced(d)
  /\ \A a \in Admin : inFlight(a) => readEvidenced(desk[a])
  /\ \A w \in Webhook \cup Poller : callAt(w, "write") => hasEvent(rowOf(w))

EvidencedInv ==
  /\ CorrespondenceTypeOK /\ HandlersReadRows
  /\ AccessIsEvidenced
  /\ EventTellsMail
  /\ DisplayHoldsEvidence
  /\ ReadingsEvidenced

(* A row that is mailed, or about to be, has spent its marker; one still to be
   claimed has not been mailed. *)
mailedOut(k) == \E i \in DOMAIN sent : sent[i].row = k /\ sent[i].kind = "ROLLOUT"
mailedTo(t) ==
  \E i \in DOMAIN sent : sent[i] = [row |-> t[1], to |-> t[2], kind |-> "ROLLOUT"]

MailedOnceInv ==
  /\ RolloutMailOnce
  /\ \A p \in Handler : mayAccept(p)
  /\ \A k \in Row : mailedOut(k) => k \in remarked \/ markerSpent(k[1], k[2])
  /\ \A m \in Mailer :
       /\ \A k \in mailers[m].due :
            /\ exists(k[1], k[2])
            /\ mailedOut(k) => k \in remarked
            /\ \A t \in mailers[m].to : t[1] # k
       /\ \A t \in mailers[m].to :
            t[1] \in remarked \/ (markerSpent(t[1][1], t[1][2]) /\ ~mailedTo(t))

(* What a customer has given or refused on record is taken from the row by an
   admin's save of an older reading alone: no request, sweep, mail job or
   delivery report ever reopens a settled row. *)
OnlyDeskReopens ==
  [][\A c \in Customer, v \in Version :
       states[c][v].state \in Settled /\ states'[c][v].state \notin Settled =>
         \E a \in Admin :
           /\ inFlight(a) /\ desk'[a] = DeskDone
           /\ desk[a].customer = c /\ desk[a].version = v
           /\ states'[c][v] = desk[a].row]_allVars

-----------------------------------------------------------------------------
(* Liveness.  The cron jobs come back, an await comes back, and a delivery
   call that was not answered is made again. *)
untouched == <<requests, sweeps, publications, desk, remarked, displayVars>>

OutreachFairness ==
  /\ \A m \in Mailer : WF_allVars(MailerProgress(m) /\ UNCHANGED <<reminders, calls, untouched>>)
  /\ \A r \in Reminder : WF_allVars(RemindProgress(r) /\ UNCHANGED <<mailers, calls, untouched>>)
  /\ \A w \in Webhook \cup Poller :
       WF_allVars(DeliveryProgress(w) /\ UNCHANGED <<mailers, reminders, untouched>>)
  /\ \A w \in Webhook, ref \in Ref :
       SF_allVars(ref \notin answered /\ WebhookCall(w, ref)
                  /\ UNCHANGED <<mailers, reminders, untouched>>)
  /\ \A w \in Poller, ref \in Ref :
       SF_allVars(PollCall(w, ref) /\ UNCHANGED <<mailers, reminders, untouched>>)

deliveryIgnored(ref) ==
  /\ ref \in (received \cap outbound) \ cutShort
  /\ states[sent[ref].row[1]][sent[ref].row[2]].state = "PENDING_NOTIFICATION"

(* A delivered mail that is on record counts as the customer's access, though
   its report came before the record, twice, or to a call that died; but for
   a poll that dies after it has marked the mail, which no later one repeats. *)
DeliveryTakesEffect == \A ref \in Ref : deliveryIgnored(ref) ~> ~deliveryIgnored(ref)

remindersOf(c, v) ==
  Cardinality({i \in DOMAIN sent : sent[i].row = <<c, v>> /\ sent[i].kind = "REMINDER"})

reminderMissing(c, v) ==
  /\ AcceptanceMode[v] = "ACTIVE"
  /\ states[c][v].state = "NOTIFIED"
  /\ \E e \in events : e.row = <<c, v>>
  /\ thresholdDue(states[c][v], remindersOf(c, v), now)

(* A notified customer is reminded of every threshold that passes, whatever
   run was missed or failed or counted a mail that it then did not send. *)
DueReminderIsSent ==
  \A c \in Customer, v \in Version : reminderMissing(c, v) ~> ~reminderMissing(c, v)

-----------------------------------------------------------------------------
(* The comments of the mail services, as they read. *)

(* reminder.service.ts: a customer who was never accessed is reminded toward
   the hard deadline too. *)
unreached(c, v) ==
  /\ AcceptanceMode[v] = "ACTIVE"
  /\ states[c][v].state = "PENDING_NOTIFICATION"
  /\ thresholdDue(states[c][v], states[c][v].remindersSent, now)

UnreachedAreReminded ==
  \A c \in Customer, v \in Version : unreached(c, v) ~> ~unreached(c, v)

(* delivery-event.service.ts: one NotificationEvent for one delivered mail. *)
DeliveryRecordedOnce ==
  \A e, f \in events : e.ref = f.ref /\ e.ref # None => e = f

(* customer-version-state-admin.service.ts: whose objection is reopened can
   accept or object anew: the row is not saved past its own deadline. *)
ReopenedIsAnswerable ==
  [][\A c \in Customer, v \in Version :
       states[c][v].state = "OBJECTED" /\ states'[c][v].state = "NOTIFIED" =>
         objectable(states'[c][v], v, now)]_allVars

(* No row is blocked ahead of the deadline it carries, an extended one
   included. *)
ExtensionHolds ==
  [][\A c \in Customer, v \in Version :
       states[c][v].state # "EXPIRED_BLOCKING" /\ states'[c][v].state = "EXPIRED_BLOCKING" =>
         isDue(states'[c][v], now)]_allVars
=============================================================================
