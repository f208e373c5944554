----------------------- MODULE Correspondence_proofs -----------------------
(***************************************************************************)
(* Proofs about Correspondence: the mail jobs, the delivery reports, the    *)
(* admin desk and the evidence of a display beside the consent lifecycle,   *)
(* for any customers, versions, addresses and thresholds, and any number of *)
(* everything that runs.                                                    *)
(***************************************************************************)
EXTENDS Correspondence, Lifecycle_proofs, FiniteSetTheorems

-----------------------------------------------------------------------------
(* The refs *)

Kind == {"ROLLOUT", "REMINDER", "RENOTICE"}

(* A ref given out stays given out, and what holds one keeps its type. *)
LEMMA RefsGrow ==
  ASSUME DOMAIN sent \subseteq (DOMAIN sent)'
  PROVE  /\ MaybeRef \subseteq MaybeRef' /\ Event \subseteq Event'
         /\ MailerRun \subseteq MailerRun' /\ ReminderRun \subseteq ReminderRun'
         /\ DeskRun \subseteq DeskRun'
<1>1. MaybeRef \subseteq MaybeRef'
  BY DEF MaybeRef
<1>2. Event \subseteq Event'
  BY <1>1 DEF Event
<1>3. MailerRun \subseteq MailerRun'
  BY <1>1 DEF MailerRun
<1>4. ReminderRun \subseteq ReminderRun'
  BY <1>1 DEF ReminderRun
<1>5. DeskRun \subseteq DeskRun'
  BY <1>1 DEF DeskRun
<1>6. QED
  BY <1>1, <1>2, <1>3, <1>4, <1>5

LEMMA CallsGrow ==
  ASSUME received \subseteq received'
  PROVE  Call \subseteq Call'
BY DEF Call

(* The provider takes a mail under a fresh ref. *)
LEMMA PostEffect ==
  ASSUME sent \in Seq(Mail), NEW c \in Customer, NEW v \in Version, NEW to \in Address,
         NEW kind \in Kind, post(c, v, to, kind)
  PROVE  /\ sent' \in Seq(Mail)
         /\ DOMAIN sent \subseteq DOMAIN sent'
         /\ Len(sent') \in DOMAIN sent' /\ Len(sent') \notin DOMAIN sent
         /\ DOMAIN sent' = DOMAIN sent \cup {Len(sent')}
         /\ \A i \in DOMAIN sent : sent'[i] = sent[i]
         /\ sent'[Len(sent')] = [row |-> <<c, v>>, to |-> to, kind |-> kind]
<1>1. [row |-> <<c, v>>, to |-> to, kind |-> kind] \in Mail
  BY DEF Mail, Row, Kind
<1>2. QED
  BY <1>1 DEF post

LEMMA ContactsAreAddresses ==
  ASSUME NEW c \in Customer
  PROVE  Contact[c] \subseteq Address
BY DEF Address

LEMMA UserIsAddress == UserId \in Address
BY DEF Address

LEMMA RefIsSome ==
  ASSUME sent \in Seq(Mail)
  PROVE  None \notin DOMAIN sent
BY VersionAssumption

-----------------------------------------------------------------------------
(* The tables of the mails *)

MailTablesOK ==
  /\ sent \in Seq(Mail)
  /\ delivered \subseteq outbound /\ answered \subseteq received
  /\ outbound \cup received \cup cutShort \subseteq DOMAIN sent
  /\ events \subseteq Event /\ IsFiniteSet(events)

RunsOK ==
  /\ mailers \in [Mailer -> MailerRun]
  /\ reminders \in [Reminder -> ReminderRun]
  /\ calls \in [Webhook \cup Poller -> Call]

LEMMA OutreachParts == OutreachTypeOK <=> MailTablesOK /\ RunsOK
BY DEF OutreachTypeOK, MailTablesOK, RunsOK

LEMMA OutreachPartsNext == OutreachTypeOK' <=> MailTablesOK' /\ RunsOK'
BY DEF OutreachTypeOK, MailTablesOK, RunsOK

LEMMA PostType ==
  ASSUME MailTablesOK, NEW c \in Customer, NEW v \in Version, NEW to \in Address,
         NEW kind \in Kind, post(c, v, to, kind),
         UNCHANGED <<outbound, delivered, received, answered, events, cutShort>>
  PROVE  MailTablesOK'
<1>1. sent' \in Seq(Mail) /\ DOMAIN sent \subseteq DOMAIN sent'
  BY PostEffect DEF MailTablesOK
<1>2. Event \subseteq Event'
  BY <1>1, RefsGrow
<1>3. QED
  BY <1>1, <1>2 DEF MailTablesOK

LEMMA RecordType ==
  ASSUME MailTablesOK, NEW ref \in DOMAIN sent, record(ref),
         UNCHANGED <<sent, delivered, received, answered, events, cutShort>>
  PROVE  MailTablesOK'
BY DEF MailTablesOK, record, Event, MaybeRef

LEMMA AppendEventType ==
  ASSUME MailTablesOK, NEW c \in Customer, NEW v \in Version, NEW ref \in MaybeRef,
         NEW to \in Address, appendEvent(c, v, ref, to),
         UNCHANGED <<sent, outbound, delivered, received, answered, cutShort>>
  PROVE  MailTablesOK'
<1> DEFINE e == [row |-> <<c, v>>, ref |-> ref, recipient |-> to, id |-> Cardinality(events)]
<1>1. Cardinality(events) \in Nat
  BY FS_CardinalityType DEF MailTablesOK
<1>2. e \in Event
  BY <1>1 DEF Event, Row
<1>3. events' = events \cup {e}
  BY DEF appendEvent
<1> HIDE DEF e
<1>4. IsFiniteSet(events')
  BY <1>3, FS_AddElement DEF MailTablesOK
<1>5. events' \subseteq Event'
  BY <1>2, <1>3 DEF MailTablesOK, Event, MaybeRef
<1>6. QED
  BY <1>4, <1>5 DEF MailTablesOK

LEMMA TablesUntouched ==
  ASSUME MailTablesOK, UNCHANGED mailTables
  PROVE  MailTablesOK'
BY DEF MailTablesOK, mailTables, Event, MaybeRef

LEMMA MailRefs ==
  ASSUME UNCHANGED sent
  PROVE  /\ MaybeRef' = MaybeRef /\ Event' = Event /\ MailerRun' = MailerRun
         /\ ReminderRun' = ReminderRun /\ DeskRun' = DeskRun
BY DEF MaybeRef, Event, MailerRun, ReminderRun, DeskRun

-----------------------------------------------------------------------------
(* The rollout job *)

cleared(r) == [r EXCEPT !.notificationDue = FALSE]

(* The claim of a row clears its marker and changes nothing else. *)
LEMMA ClearedRow ==
  ASSUME NEW r \in MaybeRow
  PROVE  /\ cleared(r) \in MaybeRow /\ ~cleared(r).notificationDue
         /\ cleared(r).state = r.state /\ cleared(r).notifiedAt = r.notifiedAt
         /\ r # NoRow => cleared(r) # NoRow
<1>1. CASE r = NoRow
  <2> DEFINE Absent == [state : {"ABSENT"}, notifiedAt : {None}, deadlineAt : {None},
                        remindersSent : {0}, carryOverBlocking : {FALSE},
                        notificationDue : {FALSE}]
  <2>1. r \in Absent
    BY <1>1 DEF NoRow
  <2>2. cleared(r) \in Absent
    BY <2>1 DEF cleared
  <2>3. cleared(r) = NoRow
    BY <2>2 DEF NoRow
  <2>4. QED
    BY <1>1, <2>3 DEF MaybeRow, NoRow
<1>2. CASE r \in CustomerVersionState
  BY <1>2 DEF cleared, MaybeRow, CustomerVersionState, NoRow, CvsState
<1>3. QED
  BY <1>1, <1>2 DEF MaybeRow

LEMMA MailerKeepsType ==
  ASSUME StoreTypeOK, MailTablesOK, mailers \in [Mailer -> MailerRun], NEW m \in Mailer,
         MailerProgress(m) \/ MailerFails(m)
  PROVE  /\ StoreTypeOK' /\ MailTablesOK' /\ mailers' \in [Mailer -> MailerRun']
         /\ DOMAIN sent \subseteq DOMAIN sent'
<1> USE DEF storeVars, mailTables
<1>0. mailers[m] \in MailerRun /\ states \in States /\ None \in MaybeRef
  BY StoreTypeParts DEF MaybeRef
<1>1. CASE MailerFind(m)
  <2>1. PICK due \in SUBSET findDueForNotification : mailers' = [mailers EXCEPT ![m].due = due]
    BY <1>1 DEF MailerFind
  <2>2. due \in SUBSET Row
    BY DEF findDueForNotification
  <2>3. [mailers[m] EXCEPT !.due = due] \in MailerRun
    BY <1>0, <2>2 DEF MailerRun
  <2>4. StoreTypeOK' /\ MailTablesOK' /\ UNCHANGED sent
    BY <1>1, TablesUntouched DEF MailerFind, StoreTypeOK
  <2>5. QED
    BY <2>1, <2>3, <2>4, MailRefs
<1>2. CASE MailerClaim(m)
  <2>1. PICK k \in mailers[m].due :
          /\ clearNotificationDue(k[1], k[2])
          /\ mailers' = [mailers EXCEPT ![m] =
               [due |-> @.due \ {k}, ref |-> None,
                to |-> {k} \X IF k[1] \in Deleted THEN {} ELSE Contact[k[1]]]]
          /\ UNCHANGED <<now, versions, acceptances, objections, faults, orphans, mailTables>>
    BY <1>2 DEF MailerClaim
  <2>2. k \in Row /\ k[1] \in Customer /\ k[2] \in Version
    BY <1>0, <2>1 DEF MailerRun, Row
  <2> DEFINE contacts == IF k[1] \in Deleted THEN {} ELSE Contact[k[1]]
             run == [due |-> mailers[m].due \ {k}, ref |-> None, to |-> {k} \X contacts]
  <2>3. contacts \subseteq Address
    BY <2>2, ContactsAreAddresses
  <2>4. run \in MailerRun
    BY <1>0, <2>2, <2>3 DEF MailerRun
  <2>5. mailers' = [mailers EXCEPT ![m] = run]
    BY <2>1
  <2>6. MailTablesOK' /\ UNCHANGED sent
    BY <2>1, TablesUntouched
  <2> DEFINE r == states[k[1]][k[2]]
             t == cleared(r)
  <2>7. r \in MaybeRow
    BY <1>0, <2>2 DEF States
  <2>8. t \in MaybeRow
    BY <2>7, ClearedRow
  <2>9. states' = [states EXCEPT ![k[1]][k[2]] = t]
    BY <1>0, <2>1, <2>2 DEF clearNotificationDue, cleared, States
  <2>10. states' \in States
    BY <1>0, <2>2, <2>8, <2>9 DEF States
  <2>11. StoreTypeOK'
    BY <2>1, <2>10, StoreTypeParts, StoreTypePartsNext
  <2>12. QED
    BY <2>4, <2>5, <2>6, <2>11, MailRefs
<1>3. CASE MailerSend(m)
  <2>1. PICK t \in mailers[m].to :
          /\ post(t[1][1], t[1][2], t[2], "ROLLOUT")
          /\ mailers' = [mailers EXCEPT ![m].to = @ \ {t}, ![m].ref = Len(sent')]
    BY <1>3 DEF MailerSend
  <2>2. t[1][1] \in Customer /\ t[1][2] \in Version /\ t[2] \in Address
    BY <1>0, <2>1 DEF MailerRun, Row
  <2>3. /\ DOMAIN sent \subseteq DOMAIN sent' /\ Len(sent') \in DOMAIN sent'
    BY <2>1, <2>2, PostEffect DEF MailTablesOK, Kind
  <2>4. MailTablesOK'
    BY <1>3, <2>1, <2>2, PostType DEF MailerSend, Kind
  <2>5. StoreTypeOK'
    BY <1>3 DEF MailerSend, StoreTypeOK
  <2>6. [mailers[m] EXCEPT !.to = @ \ {t}, !.ref = Len(sent')] \in MailerRun'
    BY <1>0, <2>3, RefsGrow DEF MailerRun, MaybeRef
  <2>7. mailers' \in [Mailer -> MailerRun']
    BY <2>1, <2>3, <2>6, RefsGrow
  <2>8. QED
    BY <2>3, <2>4, <2>5, <2>7
<1>4. CASE MailerRecord(m)
  <2>1. mailers[m].ref \in DOMAIN sent
    BY <1>0, <1>4 DEF MailerRecord, MailerRun, MaybeRef
  <2>2. MailTablesOK' /\ UNCHANGED sent
    BY <1>4, <2>1, RecordType DEF MailerRecord
  <2>3. [mailers[m] EXCEPT !.ref = None] \in MailerRun
    BY <1>0 DEF MailerRun
  <2>4. QED
    BY <1>4, <2>2, <2>3, MailRefs DEF MailerRecord, StoreTypeOK
<1>5. CASE MailerFails(m)
  <2>1. PICK due \in {mailers[m].due, {}} :
          mailers' = [mailers EXCEPT ![m] = [MailerIdle EXCEPT !.due = due]]
    BY <1>5 DEF MailerFails
  <2>2. [MailerIdle EXCEPT !.due = due] \in MailerRun
    BY <1>0 DEF MailerRun, MailerIdle
  <2>3. MailTablesOK' /\ UNCHANGED sent
    BY <1>5, TablesUntouched DEF MailerFails
  <2>4. StoreTypeOK'
    BY <1>5 DEF MailerFails, Fault, StoreTypeOK
  <2>5. QED
    BY <2>1, <2>2, <2>3, <2>4, MailRefs
<1>6. QED
  BY <1>1, <1>2, <1>3, <1>4, <1>5 DEF MailerProgress

-----------------------------------------------------------------------------
(* The reminder job *)

LEMMA CandidatesType ==
  ASSUME states \in States, NEW before
  PROVE  findDue(before) \subseteq Candidate
<1>1. SUFFICES ASSUME NEW d \in findDue(before) PROVE d \in Candidate
  OBVIOUS
<1>2. PICK k \in Row, a \in Address :
        d = [customer |-> k[1], version |-> k[2], row |-> states[k[1]][k[2]], to |-> a]
  BY <1>1 DEF findDue
<1>3. d.row \in MaybeRow /\ d.row.state \in CvsState
  BY <1>1, <1>2 DEF findDue, States, Row, SWEEPABLE_STATES, CvsState
<1>4. d.row \in CustomerVersionState
  BY <1>3, StateOfRow
<1>5. QED
  BY <1>2, <1>4 DEF Candidate, Row

LEMMA RemindKeepsType ==
  ASSUME StoreTypeOK, MailTablesOK, reminders \in [Reminder -> ReminderRun], NEW r \in Reminder,
         RemindProgress(r) \/ RemindDies(r)
  PROVE  /\ StoreTypeOK' /\ MailTablesOK' /\ reminders' \in [Reminder -> ReminderRun']
         /\ DOMAIN sent \subseteq DOMAIN sent'
<1> USE DEF storeVars, mailTables
<1> DEFINE run == reminders[r]
<1>0. run \in ReminderRun /\ states \in States /\ now \in Nat /\ None \in MaybeRef
  BY StoreTypeParts DEF MaybeRef
<1>1. CASE RemindFind(r)
  <2>1. PICK due \in SUBSET Candidate : reminders' = [reminders EXCEPT ![r].at = now, ![r].due = due]
    BY <1>0, <1>1, CandidatesType DEF RemindFind
  <2>2. [run EXCEPT !.at = now, !.due = due] \in ReminderRun
    BY <1>0, <2>1 DEF ReminderRun
  <2>3. StoreTypeOK' /\ MailTablesOK' /\ UNCHANGED sent
    BY <1>1, TablesUntouched DEF RemindFind, StoreTypeOK
  <2>4. QED
    BY <2>1, <2>2, <2>3, MailRefs
<1>2. CASE RemindTake(r)
  <2>1. PICK d \in run.due :
          reminders' = [reminders EXCEPT
            ![r].due = @ \ {d},
            ![r].cur = IF AcceptanceMode[d.version] = "PASSIVE" THEN {} ELSE {d},
            ![r].count = IF AcceptanceMode[d.version] = "PASSIVE" THEN 0 ELSE d.row.remindersSent]
    BY <1>2 DEF RemindTake
  <2>2. d \in Candidate /\ d.row.remindersSent \in Nat
    BY <1>0, <2>1 DEF ReminderRun, Candidate, CustomerVersionState
  <2> DEFINE cur == IF AcceptanceMode[d.version] = "PASSIVE" THEN {} ELSE {d}
             count == IF AcceptanceMode[d.version] = "PASSIVE" THEN 0 ELSE d.row.remindersSent
  <2>3. cur \subseteq Candidate /\ count \in Nat
    BY <2>2
  <2>4. reminders' = [reminders EXCEPT ![r].due = @ \ {d}, ![r].cur = cur, ![r].count = count]
    BY <2>1
  <2> HIDE DEF cur, count
  <2>5. [run EXCEPT !.due = @ \ {d}, !.cur = cur, !.count = count] \in ReminderRun
    BY <1>0, <2>3 DEF ReminderRun
  <2>6. StoreTypeOK' /\ MailTablesOK' /\ UNCHANGED sent
    BY <1>2, TablesUntouched DEF RemindTake, StoreTypeOK
  <2>7. QED
    BY <2>4, <2>5, <2>6, MailRefs
<1>3. CASE RemindSend(r)
  <2>1. PICK d \in run.cur :
          /\ post(d.customer, d.version, d.to, "REMINDER")
          /\ reminders' = [reminders EXCEPT ![r].count = @ + 1, ![r].ref = Len(sent')]
    BY <1>3 DEF RemindSend
  <2>2. d.customer \in Customer /\ d.version \in Version /\ d.to \in Address
    BY <1>0, <2>1 DEF ReminderRun, Candidate
  <2>3. DOMAIN sent \subseteq DOMAIN sent' /\ Len(sent') \in DOMAIN sent'
    BY <2>1, <2>2, PostEffect DEF MailTablesOK, Kind
  <2>4. MailTablesOK'
    BY <1>3, <2>1, <2>2, PostType DEF RemindSend, Kind
  <2>5. StoreTypeOK'
    BY <1>3 DEF RemindSend, StoreTypeOK
  <2> DEFINE n == run.count + 1
  <2>6. [run EXCEPT !.count = n, !.ref = Len(sent')] \in ReminderRun'
    <3>1. run.count \in Nat
      BY <1>0 DEF ReminderRun
    <3>2. n \in Nat
      BY <3>1
    <3> HIDE DEF n
    <3>3. QED
      BY <1>0, <2>3, <3>2, RefsGrow DEF ReminderRun, MaybeRef
  <2>7. reminders' \in [Reminder -> ReminderRun']
    BY <2>1, <2>3, <2>6, RefsGrow
  <2>8. QED
    BY <2>3, <2>4, <2>5, <2>7
<1>4. CASE RemindRecord(r)
  <2>1. run.ref \in DOMAIN sent
    BY <1>0, <1>4 DEF RemindRecord, ReminderRun, MaybeRef
  <2>2. MailTablesOK' /\ UNCHANGED sent
    BY <1>4, <2>1, RecordType DEF RemindRecord
  <2>3. [run EXCEPT !.ref = None] \in ReminderRun
    BY <1>0 DEF ReminderRun
  <2>4. QED
    BY <1>4, <2>2, <2>3, MailRefs DEF RemindRecord, StoreTypeOK
<1>5. CASE RemindWrite(r)
  <2>1. PICK d \in run.cur :
          /\ states' = IF /\ run.count # d.row.remindersSent
                          /\ inState(d.customer, d.version, d.row.state)
                       THEN [states EXCEPT ![d.customer][d.version].remindersSent = run.count]
                       ELSE states
          /\ reminders' = [reminders EXCEPT ![r].cur = {}, ![r].count = 0]
          /\ UNCHANGED <<now, versions, acceptances, objections, faults, orphans, mailTables>>
    BY <1>5 DEF RemindWrite
  <2>2. /\ d.customer \in Customer /\ d.version \in Version
        /\ d.row.state \in CvsState /\ run.count \in Nat
    BY <1>0, <2>1 DEF ReminderRun, Candidate, CustomerVersionState
  <2>3. states' \in States
    <3> DEFINE old == states[d.customer][d.version]
               new == [old EXCEPT !.remindersSent = run.count]
    <3>1. CASE inState(d.customer, d.version, d.row.state)
      <4>1. old \in CustomerVersionState
        BY <1>0, <2>2, <3>1, StateOfRow DEF States, inState
      <4>2. new \in MaybeRow
        BY <2>2, <4>1 DEF MaybeRow, CustomerVersionState
      <4>3. states' \in {states, [states EXCEPT ![d.customer][d.version] = new]}
        BY <1>0, <2>1, <2>2 DEF States
      <4>4. QED
        BY <1>0, <2>2, <4>2, <4>3 DEF States
    <3>2. QED
      BY <1>0, <2>1, <3>1
  <2>4. StoreTypeOK'
    BY <2>1, <2>3, StoreTypeParts, StoreTypePartsNext
  <2>5. [run EXCEPT !.cur = {}, !.count = 0] \in ReminderRun
    BY <1>0 DEF ReminderRun
  <2>6. MailTablesOK' /\ UNCHANGED sent
    BY <2>1, TablesUntouched
  <2>7. QED
    BY <2>1, <2>4, <2>5, <2>6, MailRefs
<1>6. CASE RemindEnd(r) \/ RemindDies(r)
  <2>1. ReminderIdle \in ReminderRun
    BY <1>0 DEF ReminderIdle, ReminderRun
  <2>2. MailTablesOK' /\ UNCHANGED sent
    BY <1>6, TablesUntouched DEF RemindEnd, RemindDies
  <2>3. StoreTypeOK'
    BY <1>6 DEF RemindEnd, RemindDies, Fault, StoreTypeOK
  <2>4. QED
    BY <1>6, <2>1, <2>2, <2>3, MailRefs DEF RemindEnd, RemindDies
<1>7. QED
  BY <1>1, <1>2, <1>3, <1>4, <1>5, <1>6 DEF RemindProgress

-----------------------------------------------------------------------------
(* The delivery reports *)

AnyCall == [step : {"idle", "read", "check", "append", "write"},
            ref : received \cup {None}, row : MaybeRow]

LEMMA AnyCallAtAll == Call \subseteq AnyCall
BY DEF Call, CallIdle, AnyCall, MaybeRow

(* A call waits for its first read, or has a row of its mail's customer. *)
LEMMA CallCases ==
  ASSUME calls \in [Webhook \cup Poller -> Call], NEW w \in Webhook \cup Poller
  PROVE  /\ callAt(w, "check") \/ callAt(w, "append") \/ callAt(w, "write") =>
              calls[w].row \in CustomerVersionState
         /\ ~callAt(w, "idle") => calls[w].ref \in received
         /\ callAt(w, "idle") => calls[w].row = NoRow
         /\ calls[w] \in AnyCall
<1>1. calls[w] \in Call
  OBVIOUS
<1>2. QED
  BY <1>1, AnyCallAtAll DEF Call, CallIdle, callAt

LEMMA CallToType ==
  ASSUME calls \in [Webhook \cup Poller -> Call], NEW w \in Webhook \cup Poller,
         calls[w].ref \in received, NEW row \in CustomerVersionState,
         NEW step \in {"check", "append", "write"},
         calls' = [calls EXCEPT ![w].step = step, ![w].row = row], received \subseteq received'
  PROVE  calls' \in [Webhook \cup Poller -> Call']
<1>1. calls[w] \in AnyCall
  BY CallCases
<1>2. [calls[w] EXCEPT !.step = step, !.row = row] \in
        [step : {"check", "append", "write"}, ref : received, row : CustomerVersionState]
  BY <1>1 DEF AnyCall
<1>3. [calls[w] EXCEPT !.step = step, !.row = row] \in Call
  BY <1>2 DEF Call
<1>4. QED
  BY <1>3, CallsGrow

LEMMA CallStartType ==
  ASSUME calls \in [Webhook \cup Poller -> Call], NEW w \in Webhook \cup Poller,
         NEW ref \in received, callAt(w, "idle"),
         calls' = [calls EXCEPT ![w].step = "read", ![w].ref = ref], received \subseteq received'
  PROVE  calls' \in [Webhook \cup Poller -> Call']
<1>1. calls[w].row = NoRow /\ calls[w] \in AnyCall
  BY CallCases
<1>2. [calls[w] EXCEPT !.step = "read", !.ref = ref] \in
        [step : {"read"}, ref : received, row : {NoRow}]
  BY <1>1 DEF AnyCall
<1>3. [calls[w] EXCEPT !.step = "read", !.ref = ref] \in Call
  BY <1>2 DEF Call
<1>4. QED
  BY <1>3, CallsGrow

LEMMA EndCallType ==
  ASSUME calls \in [Webhook \cup Poller -> Call], NEW w \in Webhook \cup Poller,
         calls' = [calls EXCEPT ![w] = CallIdle], received \subseteq received'
  PROVE  calls' \in [Webhook \cup Poller -> Call']
<1>1. CallIdle \in Call
  BY DEF Call
<1>2. QED
  BY <1>1, CallsGrow

(* What a delivery writes to a row that is still unnotified. *)
LEMMA AccessType ==
  ASSUME NEW row \in CustomerVersionState, NEW v \in Version, NEW t \in Nat
  PROVE  /\ recordAccess(row, v, t, row.carryOverBlocking) \in CustomerVersionState
         /\ recordAccess(row, v, t, row.carryOverBlocking) \in MaybeRow
         /\ recordAccess(row, v, t, row.carryOverBlocking).state \in CvsState
<1>1. row.carryOverBlocking \in BOOLEAN
  BY DEF CustomerVersionState
<1>2. recordAccess(row, v, t, row.carryOverBlocking) \in CustomerVersionState
  BY <1>1, RecordAccessType
<1>3. QED
  BY <1>2 DEF CustomerVersionState, MaybeRow

LEMMA CallsKeepType ==
  ASSUME StoreTypeOK, MailTablesOK, calls \in [Webhook \cup Poller -> Call], CallsStep
  PROVE  /\ StoreTypeOK' /\ MailTablesOK' /\ calls' \in [Webhook \cup Poller -> Call']
         /\ UNCHANGED sent
<1> USE DEF storeVars, mailTables
<1>0. states \in States /\ now \in Nat
  BY StoreTypeParts
<1>1. ASSUME NEW ref \in DOMAIN sent, ProviderDelivers(ref), UNCHANGED calls
      PROVE  StoreTypeOK' /\ MailTablesOK' /\ calls' \in [Webhook \cup Poller -> Call'] /\ UNCHANGED sent
  <2>1. UNCHANGED sent /\ StoreTypeOK'
    BY <1>1 DEF ProviderDelivers, StoreTypeOK
  <2>2. calls' \in [Webhook \cup Poller -> Call']
    BY <1>1, CallsGrow DEF ProviderDelivers
  <2>3. QED
    BY <1>1, <2>1, <2>2, MailRefs DEF ProviderDelivers, MailTablesOK
<1>2. ASSUME NEW w \in Webhook, NEW ref \in received, WebhookCall(w, ref)
      PROVE  StoreTypeOK' /\ MailTablesOK' /\ calls' \in [Webhook \cup Poller -> Call'] /\ UNCHANGED sent
  <2>1. UNCHANGED sent /\ StoreTypeOK' /\ ref \in DOMAIN sent
    BY <1>2 DEF WebhookCall, StoreTypeOK, MailTablesOK
  <2>2. calls' \in [Webhook \cup Poller -> Call']
    <3>1. CASE ref \in outbound
      BY <1>2, <3>1, CallStartType DEF WebhookCall
    <3>2. CASE ref \notin outbound
      BY <1>2, <3>2, CallsGrow DEF WebhookCall
    <3>3. QED
      BY <3>1, <3>2
  <2>3. MailTablesOK'
    BY <1>2, <2>1, MailRefs DEF WebhookCall, MailTablesOK
  <2>4. QED
    BY <2>1, <2>2, <2>3
<1>3. ASSUME NEW w \in Poller, NEW ref \in received, PollCall(w, ref)
      PROVE  StoreTypeOK' /\ MailTablesOK' /\ calls' \in [Webhook \cup Poller -> Call'] /\ UNCHANGED sent
  <2>1. UNCHANGED sent /\ StoreTypeOK' /\ ref \in DOMAIN sent
    BY <1>3 DEF PollCall, StoreTypeOK, MailTablesOK
  <2>2. calls' \in [Webhook \cup Poller -> Call']
    BY <1>3, <2>1, CallStartType DEF PollCall
  <2>3. MailTablesOK'
    BY <1>3, <2>1, MailRefs DEF PollCall, MailTablesOK
  <2>4. QED
    BY <2>1, <2>2, <2>3
<1>4. ASSUME NEW w \in Webhook \cup Poller, DeliveryProgress(w) \/ DeliveryDies(w)
      PROVE  StoreTypeOK' /\ MailTablesOK' /\ calls' \in [Webhook \cup Poller -> Call'] /\ UNCHANGED sent
  <2> DEFINE ref == calls[w].ref
  <2>0. /\ ~callAt(w, "idle") /\ ref \in received /\ ref \in DOMAIN sent
        /\ rowOf(w) \in Row /\ rowOf(w)[1] \in Customer /\ rowOf(w)[2] \in Version
    <3>1. ~callAt(w, "idle")
      BY <1>4 DEF DeliveryProgress, DeliveryRead, DeliveryCheck, DeliveryAppend, DeliveryWrite,
                  DeliveryDies, callAt
    <3>2. ref \in received /\ ref \in DOMAIN sent
      BY <3>1, CallCases DEF MailTablesOK
    <3>3. sent[ref] \in Mail
      BY <3>2 DEF MailTablesOK
    <3>4. QED
      BY <3>1, <3>2, <3>3 DEF rowOf, Mail, Row
  <2>1. CASE DeliveryRead(w)
    <3>1. UNCHANGED sent /\ StoreTypeOK'
      BY <2>1 DEF DeliveryRead, StoreTypeOK
    <3> DEFINE row == states[rowOf(w)[1]][rowOf(w)[2]]
    <3>2. CASE endCall(w)
      <4>1. calls' \in [Webhook \cup Poller -> Call']
        BY <2>1, <3>2, EndCallType DEF DeliveryRead, endCall
      <4>2. QED
        BY <2>0, <2>1, <3>1, <3>2, <4>1, MailRefs DEF DeliveryRead, endCall, MailTablesOK
    <3>3. CASE /\ row.state \notin {NoRow.state, "SUPERSEDED"}
               /\ calls' = [calls EXCEPT ![w].step = "check", ![w].row = row] /\ UNCHANGED answered
      <4>1. row \in MaybeRow /\ row # NoRow
        BY <1>0, <2>0, <3>3 DEF States
      <4>2. row \in CustomerVersionState
        BY <4>1, RowState
      <4>3. calls' \in [Webhook \cup Poller -> Call']
        BY <2>0, <2>1, <3>3, <4>2, CallToType DEF DeliveryRead
      <4>4. QED
        BY <2>1, <3>1, <3>3, <4>3, MailRefs DEF DeliveryRead, MailTablesOK
    <3>4. QED
      BY <2>1, <3>2, <3>3 DEF DeliveryRead
  <2>2. CASE DeliveryCheck(w)
    <3>1. UNCHANGED sent /\ StoreTypeOK' /\ MailTablesOK'
      BY <2>2, TablesUntouched DEF DeliveryCheck, StoreTypeOK
    <3>2. PICK step \in {"append", "write"} : calls' = [calls EXCEPT ![w].step = step]
      BY <2>2 DEF DeliveryCheck, callTo
    <3>3. calls[w].row \in CustomerVersionState
      BY <2>2, CallCases DEF DeliveryCheck
    <3>4. calls' = [calls EXCEPT ![w].step = step, ![w].row = calls[w].row]
      BY <3>2, CallCases DEF AnyCall
    <3>5. QED
      BY <2>0, <2>2, <3>1, <3>3, <3>4, CallToType DEF DeliveryCheck
  <2>3. CASE DeliveryAppend(w)
    <3>1. UNCHANGED sent /\ StoreTypeOK'
      BY <2>3 DEF DeliveryAppend, StoreTypeOK
    <3>2. calls[w].row \in CustomerVersionState
      BY <2>3, CallCases DEF DeliveryAppend
    <3>3. calls' = [calls EXCEPT ![w].step = "write", ![w].row = calls[w].row]
      BY <2>3, CallCases DEF DeliveryAppend, callTo, AnyCall
    <3>4. calls' \in [Webhook \cup Poller -> Call']
      BY <2>0, <2>3, <3>2, <3>3, CallToType DEF DeliveryAppend
    <3>a. sent[ref] \in Mail
      BY <2>0 DEF MailTablesOK
    <3>5. ref \in MaybeRef /\ sent[ref].to \in Address
      BY <2>0, <3>a DEF MaybeRef, Mail
    <3>6. MailTablesOK'
      BY <2>0, <2>3, <3>5, AppendEventType DEF DeliveryAppend
    <3>7. QED
      BY <3>1, <3>4, <3>6
  <2>4. CASE DeliveryWrite(w)
    <3> DEFINE row == calls[w].row
               u == recordAccess(row, rowOf(w)[2], now, row.carryOverBlocking)
    <3>1. UNCHANGED sent /\ calls' \in [Webhook \cup Poller -> Call']
      BY <2>4, EndCallType DEF DeliveryWrite, endCall
    <3>2. MailTablesOK'
      BY <2>0, <2>4, <3>1, MailRefs DEF DeliveryWrite, endCall, MailTablesOK
    <3>3. row \in CustomerVersionState
      BY <2>4, CallCases DEF DeliveryWrite
    <3>4. u \in MaybeRow /\ u.state \in CvsState
      BY <1>0, <2>0, <3>3, AccessType
    <3>5. setNotifiedAtomically(rowOf(w)[1], rowOf(w)[2], u)
      BY <2>4 DEF DeliveryWrite
    <3>6. states' \in States
      BY <1>0, <2>0, <3>4, <3>5, NotifyType
    <3>7. StoreTypeOK'
      BY <2>4, <3>6, StoreTypeParts, StoreTypePartsNext DEF DeliveryWrite
    <3>8. QED
      BY <3>1, <3>2, <3>7
  <2>5. CASE DeliveryDies(w)
    <3>1. UNCHANGED sent /\ calls' \in [Webhook \cup Poller -> Call']
      BY <2>5, EndCallType DEF DeliveryDies
    <3>2. MailTablesOK'
      BY <2>0, <2>5, <3>1, MailRefs DEF DeliveryDies, MailTablesOK
    <3>3. StoreTypeOK'
      BY <2>5 DEF DeliveryDies, Fault, StoreTypeOK
    <3>4. QED
      BY <3>1, <3>2, <3>3
  <2>6. QED
    BY <1>4, <2>1, <2>2, <2>3, <2>4, <2>5 DEF DeliveryProgress
<1>5. QED
  BY <1>1, <1>2, <1>3, <1>4 DEF CallsStep

-----------------------------------------------------------------------------
(* All of the mails, the desk and the displays *)

LEMMA OutreachKeepsType ==
  ASSUME StoreTypeOK, OutreachTypeOK, OutreachStep
  PROVE  StoreTypeOK' /\ OutreachTypeOK' /\ DOMAIN sent \subseteq DOMAIN sent'
<1>0. MailTablesOK /\ RunsOK
  BY OutreachParts
<1>1. ASSUME NEW m \in Mailer, MailerStep(m)
      PROVE  StoreTypeOK' /\ OutreachTypeOK' /\ DOMAIN sent \subseteq DOMAIN sent'
  <2>1. /\ StoreTypeOK' /\ MailTablesOK' /\ mailers' \in [Mailer -> MailerRun']
        /\ DOMAIN sent \subseteq DOMAIN sent'
    BY <1>0, <1>1, MailerKeepsType DEF RunsOK, MailerStep
  <2>2. received' = received /\ UNCHANGED <<reminders, calls>>
    BY <1>1 DEF MailerStep, MailerProgress, MailerFails, MailerFind, MailerClaim, MailerSend,
                MailerRecord, mailTables
  <2>3. RunsOK'
    BY <1>0, <2>1, <2>2, RefsGrow, CallsGrow DEF RunsOK
  <2>4. QED
    BY <2>1, <2>3, OutreachPartsNext
<1>2. ASSUME NEW r \in Reminder, RemindStep(r)
      PROVE  StoreTypeOK' /\ OutreachTypeOK' /\ DOMAIN sent \subseteq DOMAIN sent'
  <2>1. /\ StoreTypeOK' /\ MailTablesOK' /\ reminders' \in [Reminder -> ReminderRun']
        /\ DOMAIN sent \subseteq DOMAIN sent'
    BY <1>0, <1>2, RemindKeepsType DEF RunsOK, RemindStep
  <2>2. received' = received /\ UNCHANGED <<mailers, calls>>
    BY <1>2 DEF RemindStep, RemindProgress, RemindDies, RemindFind, RemindTake, RemindSend,
                RemindRecord, RemindWrite, RemindEnd, mailTables
  <2>3. RunsOK'
    BY <1>0, <2>1, <2>2, RefsGrow, CallsGrow DEF RunsOK
  <2>4. QED
    BY <2>1, <2>3, OutreachPartsNext
<1>3. ASSUME CallsStep
      PROVE  StoreTypeOK' /\ OutreachTypeOK' /\ DOMAIN sent \subseteq DOMAIN sent'
  <2>1. /\ StoreTypeOK' /\ MailTablesOK' /\ calls' \in [Webhook \cup Poller -> Call']
        /\ UNCHANGED sent
    BY <1>0, <1>3, CallsKeepType DEF RunsOK
  <2>2. RunsOK'
    BY <1>0, <1>3, <2>1, MailRefs DEF RunsOK, CallsStep
  <2>3. QED
    BY <2>1, <2>2, OutreachPartsNext
<1>4. QED
  BY <1>1, <1>2, <1>3 DEF OutreachStep

LEMMA OutreachUntouched ==
  ASSUME OutreachTypeOK, UNCHANGED outreachVars
  PROVE  OutreachTypeOK'
<1>1. MailTablesOK /\ RunsOK /\ UNCHANGED <<sent, received, mailers, reminders, calls>>
  BY OutreachParts DEF outreachVars, mailTables
<1>2. MailTablesOK'
  BY <1>1, TablesUntouched DEF outreachVars
<1>3. RunsOK'
  BY <1>1, MailRefs, CallsGrow DEF RunsOK
<1>4. QED
  BY <1>2, <1>3, OutreachPartsNext

LEMMA DeskInFlight ==
  ASSUME DeskTypeOK, NEW a \in Admin, inFlight(a)
  PROVE  desk[a] \in DeskRun
BY DEF DeskTypeOK, inFlight, DeskIdle, DeskDone

(* Each change an admin can make leaves a row a row, and no earlier noticed. *)
LEMMA PatchedRow ==
  ASSUME NEW r \in CustomerVersionState, NEW t \in patched(r)
  PROVE  /\ t \in CustomerVersionState /\ t.notifiedAt = r.notifiedAt
         /\ t.notificationDue = r.notificationDue
<1> USE DeskAssumption DEF CustomerVersionState, MaybeTime, CvsState
<1>1. CASE r.state = "OBJECTED" /\ t = [r EXCEPT !.state = "NOTIFIED"]
  BY <1>1
<1>2. CASE \E d \in NewDeadline : t = [r EXCEPT !.state = "NOTIFIED", !.deadlineAt = d]
  BY <1>2
<1>3. CASE \E d \in NewDeadline : t = [r EXCEPT !.deadlineAt = d]
  BY <1>3
<1>4. QED
  BY <1>1, <1>2, <1>3 DEF patched

LEMMA RemindedRow ==
  ASSUME NEW r \in CustomerVersionState
  PROVE  /\ [r EXCEPT !.remindersSent = @ + 1] \in CustomerVersionState
         /\ [r EXCEPT !.remindersSent = @ + 1].notifiedAt = r.notifiedAt
         /\ [r EXCEPT !.remindersSent = @ + 1].notificationDue = r.notificationDue
BY DEF CustomerVersionState

LEMMA DeskKeepsType ==
  ASSUME StoreTypeOK, OutreachTypeOK, DeskTypeOK, NEW a \in Admin, DeskStep(a)
  PROVE  /\ StoreTypeOK' /\ OutreachTypeOK' /\ DeskTypeOK'
         /\ DOMAIN sent \subseteq DOMAIN sent'
<1> USE DEF storeVars
<1>0. /\ states \in States /\ MailTablesOK /\ RunsOK
      /\ desk \in [Admin -> DeskRun \cup {DeskIdle, DeskDone}] /\ remarked \subseteq Row
  BY StoreTypeParts, OutreachParts DEF DeskTypeOK
<1>1. ASSUME NEW c \in Customer, NEW v \in Version, PatchRead(a, c, v)
      PROVE  StoreTypeOK' /\ OutreachTypeOK' /\ DeskTypeOK' /\ UNCHANGED sent
  <2>1. states[c][v] \in CustomerVersionState
    BY <1>0, <1>1, RowState DEF PatchRead, exists, States
  <2>2. PICK row \in CustomerVersionState : deskStart(a, c, v, "save", row, {})
    BY <1>1, <2>1, PatchedRow DEF PatchRead
  <2>3. [step |-> "save", customer |-> c, version |-> v, row |-> row, to |-> {}, ref |-> None]
          \in DeskRun
    BY DEF DeskRun, MaybeRef
  <2>4. UNCHANGED sent /\ StoreTypeOK' /\ OutreachTypeOK'
    BY <1>1, OutreachUntouched DEF PatchRead, StoreTypeOK, outreachVars, mailTables
  <2>5. desk' \in [Admin -> DeskRun' \cup {DeskIdle, DeskDone}]
    BY <1>0, <2>2, <2>3, <2>4, MailRefs DEF deskStart
  <2>6. QED
    BY <1>0, <1>1, <2>4, <2>5 DEF PatchRead, DeskTypeOK
<1>2. ASSUME NEW c \in Customer, NEW v \in Version, RemindRead(a, c, v)
      PROVE  StoreTypeOK' /\ OutreachTypeOK' /\ DeskTypeOK' /\ UNCHANGED sent
  <2>1. states[c][v] \in CustomerVersionState
    BY <1>0, <1>2, RowState DEF RemindRead, exists, States
  <2>2. PICK row \in CustomerVersionState : deskStart(a, c, v, "mail", row, Contact[c])
    BY <1>2, <2>1, RemindedRow DEF RemindRead
  <2>3. [step |-> "mail", customer |-> c, version |-> v, row |-> row, to |-> Contact[c],
         ref |-> None] \in DeskRun
    BY ContactsAreAddresses DEF DeskRun, MaybeRef
  <2>4. UNCHANGED sent /\ StoreTypeOK' /\ OutreachTypeOK'
    BY <1>2, OutreachUntouched DEF RemindRead, StoreTypeOK, outreachVars, mailTables
  <2>5. desk' \in [Admin -> DeskRun' \cup {DeskIdle, DeskDone}]
    BY <1>0, <2>2, <2>3, <2>4, MailRefs DEF deskStart
  <2>6. QED
    BY <1>0, <1>2, <2>4, <2>5 DEF RemindRead, DeskTypeOK
<1>3. CASE DeskMail(a)
  <2>1. PICK to \in desk[a].to :
          /\ post(desk[a].customer, desk[a].version, to,
                  IF desk[a].row.deadlineAt # None THEN "REMINDER" ELSE "RENOTICE")
          /\ desk' = [desk EXCEPT ![a].to = @ \ {to}, ![a].ref = Len(sent')]
    BY <1>3 DEF DeskMail
  <2>2. desk[a] \in DeskRun
    BY <1>0, <2>1 DEF DeskIdle, DeskDone
  <2>3. desk[a].customer \in Customer /\ desk[a].version \in Version /\ to \in Address
    BY <2>1, <2>2 DEF DeskRun
  <2>4. PICK kind \in Kind : post(desk[a].customer, desk[a].version, to, kind)
    BY <2>1 DEF Kind
  <2>5. DOMAIN sent \subseteq DOMAIN sent' /\ Len(sent') \in DOMAIN sent'
    BY <1>0, <2>3, <2>4, PostEffect DEF MailTablesOK
  <2>6. MailTablesOK'
    BY <1>0, <1>3, <2>3, <2>4, PostType DEF DeskMail
  <2>7. RunsOK'
    BY <1>0, <1>3, <2>5, RefsGrow, CallsGrow DEF RunsOK, DeskMail
  <2>8. [desk[a] EXCEPT !.to = @ \ {to}, !.ref = Len(sent')] \in DeskRun'
    BY <2>2, <2>5, RefsGrow DEF DeskRun, MaybeRef
  <2>9. desk' \in [Admin -> DeskRun' \cup {DeskIdle, DeskDone}]
    BY <1>0, <2>1, <2>5, <2>8, RefsGrow
  <2>10. QED
    BY <1>0, <1>3, <2>5, <2>6, <2>7, <2>9, OutreachPartsNext
    DEF DeskMail, DeskTypeOK, StoreTypeOK
<1>4. CASE DeskRecord(a)
  <2>1. desk[a] \in DeskRun
    BY <1>0, <1>4 DEF DeskRecord, DeskIdle, DeskDone
  <2>2. desk[a].ref \in DOMAIN sent
    BY <1>4, <2>1 DEF DeskRecord, DeskRun, MaybeRef
  <2>3. MailTablesOK'
    BY <1>0, <1>4, <2>2, RecordType DEF DeskRecord
  <2>4. RunsOK'
    BY <1>0, <1>4, MailRefs, CallsGrow DEF RunsOK, DeskRecord
  <2>5. [desk[a] EXCEPT !.ref = None] \in DeskRun
    BY <2>1 DEF DeskRun, MaybeRef
  <2>6. desk' \in [Admin -> DeskRun' \cup {DeskIdle, DeskDone}]
    BY <1>0, <1>4, <2>5, MailRefs DEF DeskRecord
  <2>7. QED
    BY <1>0, <1>4, <2>3, <2>4, <2>6, OutreachPartsNext DEF DeskRecord, DeskTypeOK, StoreTypeOK
<1>5. CASE DeskSave(a)
  <2>1. /\ desk[a].customer \in Customer /\ desk[a].version \in Version
        /\ desk[a].row \in MaybeRow
    BY <1>5, DeskInFlight DEF DeskSave, DeskRun, MaybeRow
  <2>2. states' \in States
    BY <1>0, <1>5, <2>1, SaveType DEF DeskSave
  <2>3. OutreachTypeOK' /\ UNCHANGED sent
    BY <1>5, OutreachUntouched DEF DeskSave, outreachVars, mailTables
  <2>4. remarked' \subseteq Row
    BY <1>0, <1>5, <2>1 DEF DeskSave, Row
  <2>5. desk' \in [Admin -> DeskRun' \cup {DeskIdle, DeskDone}]
    BY <1>0, <1>5, <2>3, MailRefs DEF DeskSave
  <2>6. StoreTypeOK'
    BY <1>5, <2>2, StoreTypeParts, StoreTypePartsNext DEF DeskSave
  <2>7. QED
    BY <2>3, <2>4, <2>5, <2>6 DEF DeskTypeOK
<1>6. CASE DeskDies(a)
  <2>1. OutreachTypeOK' /\ UNCHANGED sent
    BY <1>6, OutreachUntouched DEF DeskDies, outreachVars, mailTables
  <2>2. StoreTypeOK'
    BY <1>6 DEF DeskDies, Fault, StoreTypeOK
  <2>3. desk' \in [Admin -> DeskRun' \cup {DeskIdle, DeskDone}]
    BY <1>0, <1>6, <2>1, MailRefs DEF DeskDies
  <2>4. QED
    BY <1>0, <1>6, <2>1, <2>2, <2>3 DEF DeskDies, DeskTypeOK
<1>7. QED
  BY <1>1, <1>2, <1>3, <1>4, <1>5, <1>6 DEF DeskStep, DeskProgress

Typed == CorrespondenceTypeOK /\ HandlersReadRows

LEMMA TypedParts ==
  Typed <=> /\ StoreTypeOK /\ ApiTypeOK /\ SweepTypeOK /\ PublishTypeOK
            /\ OutreachTypeOK /\ DeskTypeOK /\ DisplayTypeOK /\ HandlersReadRows
BY DEF Typed, CorrespondenceTypeOK, TypeOK

LEMMA TypedPartsNext ==
  Typed' <=> /\ StoreTypeOK' /\ ApiTypeOK' /\ SweepTypeOK' /\ PublishTypeOK'
             /\ OutreachTypeOK' /\ DeskTypeOK' /\ DisplayTypeOK' /\ HandlersReadRows'
BY DEF Typed, CorrespondenceTypeOK, TypeOK

LEMMA DisplayKeepsType ==
  ASSUME ApiTypeOK, DisplayTypeOK, NEW p \in Handler,
         \/ \E c \in Customer, v \in Version : DisplayRead(p, c, v)
         \/ DisplayProgress(p) \/ DisplayDies(p) \/ Answer(p)
  PROVE  DisplayTypeOK'
<1> DEFINE Display == [first : BOOLEAN, due : SUBSET Row]
<1>0. displays \in [Handler -> Display] /\ unproven \subseteq Row /\ NoDisplay \in Display
  BY DEF DisplayTypeOK, NoDisplay
<1>1. ASSUME NEW c \in Customer, NEW v \in Version, DisplayRead(p, c, v) PROVE DisplayTypeOK'
  <2> DEFINE first == states[c][v].notifiedAt = None
  <2>1. displays' = [displays EXCEPT ![p].first = first] /\ first \in BOOLEAN
    BY <1>1 DEF DisplayRead
  <2> HIDE DEF first
  <2>2. [displays[p] EXCEPT !.first = first] \in Display
    BY <1>0, <2>1
  <2>3. QED
    BY <1>0, <1>1, <2>1, <2>2 DEF DisplayRead, DisplayTypeOK
<1>2. CASE DisplayWrite(p)
  <2> DEFINE c == requests[p].customer
             v == requests[p].version
             due == IF displays[p].first /\ states'[c][v].notifiedAt # None
                    THEN {<<c, v>>} ELSE {}
  <2>1. c \in Customer /\ v \in Version
    BY <1>2, RequestInFlight DEF DisplayWrite, NotifyWrite, Step, Request
  <2>2. displays' = [displays EXCEPT ![p] = [first |-> FALSE, due |-> due]]
    BY <1>0, <1>2 DEF DisplayWrite
  <2>3. due \subseteq Row
    BY <2>1 DEF Row
  <2> HIDE DEF due
  <2>4. [first |-> FALSE, due |-> due] \in Display
    BY <2>3
  <2>5. QED
    BY <1>0, <1>2, <2>2, <2>4 DEF DisplayWrite, DisplayTypeOK
<1>3. CASE DisplayAppend(p)
  BY <1>0, <1>3 DEF DisplayAppend, DisplayTypeOK
<1>4. CASE DisplayDies(p)
  BY <1>0, <1>4 DEF DisplayDies, DisplayTypeOK
<1>5. CASE Answer(p)
  BY <1>0, <1>5 DEF Answer, displayVars, DisplayTypeOK
<1>6. QED
  BY <1>1, <1>2, <1>3, <1>4, <1>5 DEF DisplayProgress

(* What a handler does with a display is one of its steps in Lifecycle, or
   concerns the event alone. *)
LEMMA ServeCases ==
  ASSUME NEW p \in Handler, Serve(p)
  PROVE  /\ (ApiStep(p) /\ UNCHANGED mailTables) \/ DisplayAppend(p) \/ DisplayDies(p)
         /\ UNCHANGED <<sweeps, publications, mailers, reminders, calls, desk, remarked>>
<1>1. ASSUME NEW c \in Customer, NEW v \in Version, DisplayRead(p, c, v)
      PROVE  ApiStep(p) /\ UNCHANGED mailTables
  BY <1>1 DEF DisplayRead, ApiStep, ApiStart
<1>2. CASE DisplayWrite(p)
  BY <1>2 DEF Serve, DisplayWrite, ApiStep, ApiProgress
<1>3. CASE Answer(p)
  BY <1>3 DEF Serve, Answer
<1>4. QED
  BY <1>1, <1>2, <1>3 DEF Serve, DisplayProgress

LEMMA ServeKeepsType ==
  ASSUME Typed, NEW p \in Handler, Serve(p)
  PROVE  Typed' /\ UNCHANGED sent
<1>0. /\ StoreTypeOK /\ ApiTypeOK /\ SweepTypeOK /\ PublishTypeOK
      /\ OutreachTypeOK /\ DeskTypeOK /\ DisplayTypeOK /\ HandlersReadRows
  BY TypedParts
<1>1. /\ UNCHANGED <<sweeps, publications, mailers, reminders, calls, desk, remarked>>
      /\ (ApiStep(p) /\ UNCHANGED mailTables) \/ DisplayAppend(p) \/ DisplayDies(p)
  BY ServeCases
<1>2. DisplayTypeOK'
  BY <1>0, DisplayKeepsType DEF Serve
<1>3. UNCHANGED sent
  BY <1>1 DEF DisplayAppend, DisplayDies, mailTables
<1>4. DeskTypeOK' /\ SweepTypeOK' /\ PublishTypeOK'
  BY <1>0, <1>1, <1>3, MailRefs DEF DeskTypeOK, SweepTypeOK, PublishTypeOK
<1>5. CASE ApiStep(p) /\ UNCHANGED mailTables
  <2>1. StoreTypeOK' /\ ApiTypeOK' /\ HandlersReadRows'
    BY <1>0, <1>5, ReaderHoldsRow, ApiKeepsType, ApiKeepsReads
  <2>2. OutreachTypeOK'
    BY <1>0, <1>1, <1>5, OutreachUntouched DEF outreachVars
  <2>3. QED
    BY <1>2, <1>3, <1>4, <2>1, <2>2, TypedPartsNext
<1>6. CASE DisplayAppend(p)
  <2>1. PICK k \in displays[p].due : appendEvent(k[1], k[2], None, UserId)
    BY <1>6 DEF DisplayAppend
  <2>a. displays[p].due \subseteq Row
    BY <1>0 DEF DisplayTypeOK
  <2>2. k[1] \in Customer /\ k[2] \in Version /\ None \in MaybeRef /\ UserId \in Address
    BY <2>1, <2>a, UserIsAddress DEF Row, MaybeRef
  <2>3. MailTablesOK /\ RunsOK
    BY <1>0, OutreachParts
  <2>4. MailTablesOK'
    BY <1>6, <2>1, <2>2, <2>3, AppendEventType DEF DisplayAppend
  <2>5. RunsOK'
    BY <1>1, <1>3, <1>6, <2>3, MailRefs, CallsGrow DEF RunsOK, DisplayAppend
  <2>6. StoreTypeOK' /\ ApiTypeOK' /\ HandlersReadRows'
    BY <1>0, <1>6 DEF DisplayAppend, storeVars, StoreTypeOK, ApiTypeOK, HandlersReadRows, at
  <2>7. QED
    BY <1>2, <1>4, <1>3, <2>4, <2>5, <2>6, OutreachPartsNext, TypedPartsNext
<1>7. CASE DisplayDies(p)
  <2>1. StoreTypeOK' /\ ApiTypeOK' /\ HandlersReadRows'
    BY <1>0, <1>7 DEF DisplayDies, Fault, StoreTypeOK, ApiTypeOK, HandlersReadRows, at
  <2>2. OutreachTypeOK'
    BY <1>0, <1>1, <1>7, OutreachUntouched DEF DisplayDies, outreachVars
  <2>3. QED
    BY <1>2, <1>3, <1>4, <2>1, <2>2, TypedPartsNext
<1>8. QED
  BY <1>1, <1>5, <1>6, <1>7

LEMMA InitTyped == CorrespondenceInit => Typed
<1> SUFFICES ASSUME CorrespondenceInit PROVE Typed
  OBVIOUS
<1> USE DEF CorrespondenceInit
<1>1. TypeOK
  BY InitIInv DEF IInv
<1>2. HandlersReadRows
  BY DEF Init, ApiInit, Idle, HandlersReadRows, at
<1>3. sent = <<>> /\ DOMAIN sent = {} /\ events = {}
  BY DEF OutreachInit
<1>4. MailTablesOK
  BY <1>3, FS_EmptySet DEF OutreachInit, MailTablesOK
<1>5. RunsOK
  BY <1>3 DEF OutreachInit, RunsOK, MailerIdle, MailerRun, ReminderIdle, ReminderRun, Call,
              MaybeRef
<1>6. DeskTypeOK /\ DisplayTypeOK
  BY DEF DeskInit, DeskTypeOK, DisplayInit, DisplayTypeOK, NoDisplay
<1>7. QED
  BY <1>1, <1>2, <1>4, <1>5, <1>6, OutreachParts DEF Typed, CorrespondenceTypeOK

LEMMA NextTyped == Typed /\ [CorrespondenceNext]_allVars => Typed' /\ DOMAIN sent \subseteq DOMAIN sent'
<1> SUFFICES ASSUME Typed, [CorrespondenceNext]_allVars
             PROVE  Typed' /\ DOMAIN sent \subseteq DOMAIN sent'
  OBVIOUS
<1>0. /\ StoreTypeOK /\ ApiTypeOK /\ SweepTypeOK /\ PublishTypeOK
      /\ OutreachTypeOK /\ DeskTypeOK /\ DisplayTypeOK /\ HandlersReadRows
  BY TypedParts
<1>1. ASSUME UNCHANGED <<outreachVars, desk, remarked, displayVars>>
      PROVE  OutreachTypeOK' /\ DeskTypeOK' /\ DisplayTypeOK' /\ UNCHANGED sent
  <2>1. OutreachTypeOK' /\ UNCHANGED sent
    BY <1>0, <1>1, OutreachUntouched DEF outreachVars, mailTables
  <2>2. QED
    BY <1>0, <1>1, <2>1, MailRefs DEF DeskTypeOK, DisplayTypeOK, displayVars
<1>2. ASSUME UNCHANGED requests PROVE ApiTypeOK' /\ HandlersReadRows'
  BY <1>0, <1>2 DEF ApiTypeOK, HandlersReadRows, at
<1>3. ASSUME Clock, UNCHANGED <<outreachVars, desk, remarked, displayVars>>
      PROVE  Typed' /\ DOMAIN sent \subseteq DOMAIN sent'
  <2>1. StoreTypeOK' /\ SweepTypeOK' /\ PublishTypeOK' /\ UNCHANGED requests
    BY <1>0, <1>3 DEF Clock, Tick, StoreTypeOK, SweepTypeOK, PublishTypeOK
  <2>2. QED
    BY <1>1, <1>2, <1>3, <2>1, TypedPartsNext
<1>4. ASSUME NEW s \in Sweeper, Sweep(s), UNCHANGED <<outreachVars, desk, remarked, displayVars>>
      PROVE  Typed' /\ DOMAIN sent \subseteq DOMAIN sent'
  <2>1. StoreTypeOK' /\ SweepTypeOK' /\ UNCHANGED <<requests, publications>>
    BY <1>0, <1>4, SweepKeepsType DEF Sweep
  <2>2. PublishTypeOK'
    BY <1>0, <2>1 DEF PublishTypeOK
  <2>3. QED
    BY <1>1, <1>2, <1>4, <2>1, <2>2, TypedPartsNext
<1>5. ASSUME NEW a \in Publisher, Publish(a), UNCHANGED <<outreachVars, desk, remarked, displayVars>>
      PROVE  Typed' /\ DOMAIN sent \subseteq DOMAIN sent'
  <2>1. StoreTypeOK' /\ PublishTypeOK' /\ UNCHANGED <<requests, sweeps>>
    BY <1>0, <1>5, PublishKeepsType DEF Publish
  <2>2. SweepTypeOK'
    BY <1>0, <2>1 DEF SweepTypeOK
  <2>3. QED
    BY <1>1, <1>2, <1>5, <2>1, <2>2, TypedPartsNext
<1>6. ASSUME NEW p \in Handler, Serve(p) PROVE Typed' /\ DOMAIN sent \subseteq DOMAIN sent'
  BY <1>6, ServeKeepsType
<1>7. ASSUME OutreachStep, UNCHANGED <<requests, sweeps, publications, desk, remarked, displayVars>>
      PROVE  Typed' /\ DOMAIN sent \subseteq DOMAIN sent'
  <2>1. StoreTypeOK' /\ OutreachTypeOK' /\ DOMAIN sent \subseteq DOMAIN sent'
    BY <1>0, <1>7, OutreachKeepsType
  <2>2. DeskTypeOK'
    BY <1>0, <1>7, <2>1, RefsGrow DEF DeskTypeOK
  <2>3. SweepTypeOK' /\ PublishTypeOK' /\ DisplayTypeOK'
    BY <1>0, <1>7 DEF SweepTypeOK, PublishTypeOK, DisplayTypeOK, displayVars
  <2>4. QED
    BY <1>2, <1>7, <2>1, <2>2, <2>3, TypedPartsNext
<1>8. ASSUME NEW a \in Admin, DeskStep(a), UNCHANGED <<requests, sweeps, publications, displayVars>>
      PROVE  Typed' /\ DOMAIN sent \subseteq DOMAIN sent'
  <2>1. /\ StoreTypeOK' /\ OutreachTypeOK' /\ DeskTypeOK'
        /\ DOMAIN sent \subseteq DOMAIN sent'
    BY <1>0, <1>8, DeskKeepsType
  <2>2. SweepTypeOK' /\ PublishTypeOK' /\ DisplayTypeOK'
    BY <1>0, <1>8 DEF SweepTypeOK, PublishTypeOK, DisplayTypeOK, displayVars
  <2>3. QED
    BY <1>2, <1>8, <2>1, <2>2, TypedPartsNext
<1>9. CASE UNCHANGED allVars
  <2>1. StoreTypeOK' /\ SweepTypeOK' /\ PublishTypeOK'
    BY <1>0, <1>9 DEF allVars, vars, storeVars, StoreTypeOK, SweepTypeOK, PublishTypeOK
  <2>2. QED
    BY <1>1, <1>2, <1>9, <2>1, TypedPartsNext DEF allVars, vars
<1>10. QED
  BY <1>3, <1>4, <1>5, <1>6, <1>7, <1>8, <1>9 DEF CorrespondenceNext

LEMMA AlwaysTyped == CorrespondenceSpec => []Typed
<1>1. CorrespondenceInit => Typed
  BY InitTyped
<1>2. Typed /\ [CorrespondenceNext]_allVars => Typed'
  BY NextTyped
<1>3. QED
  BY <1>1, <1>2, PTL DEF CorrespondenceSpec

(* Every table and everything in flight keeps its type: the mails, the jobs,
   the reports and the admins among them. *)
THEOREM CorrespondenceTypeCorrect == CorrespondenceSpec => []CorrespondenceTypeOK
<1>1. Typed => CorrespondenceTypeOK
  BY DEF Typed
<1>2. QED
  BY <1>1, AlwaysTyped, PTL

-----------------------------------------------------------------------------
(* What the mails and the desk do to one row. *)

reminded(r, n) == [r EXCEPT !.remindersSent = n]
accessOf(w, v) == recordAccess(calls[w].row, v, now, calls[w].row.carryOverBlocking)

(* The row is claimed, its reminders are counted, or a delivery notifies it. *)
OutreachMove(c, v) ==
  LET r == states[c][v]
      t == states'[c][v]
  IN \/ t = r
     \/ t = cleared(r)
     \/ r # NoRow /\ \E n \in Nat : t = reminded(r, n)
     \/ \E w \in Webhook \cup Poller :
          /\ callAt(w, "write") /\ rowOf(w) = <<c, v>>
          /\ r.state = "PENDING_NOTIFICATION" /\ r.notifiedAt = None
          /\ t = madeNotified(r, accessOf(w, v))

DeskMove(a, c, v) ==
  \/ states'[c][v] = states[c][v]
  \/ /\ inFlight(a) /\ desk'[a] = DeskDone
     /\ desk[a].customer = c /\ desk[a].version = v
     /\ states'[c][v] = desk[a].row

LEMMA OutreachMoves ==
  ASSUME StoreTypeOK, OutreachTypeOK, OutreachStep, NEW c \in Customer, NEW v \in Version
  PROVE  OutreachMove(c, v)
<1> USE DEF storeVars, mailTables
<1>0. /\ states \in States /\ sent \in Seq(Mail) /\ MailTablesOK
      /\ mailers \in [Mailer -> MailerRun] /\ reminders \in [Reminder -> ReminderRun]
      /\ calls \in [Webhook \cup Poller -> Call]
  BY StoreTypeParts, OutreachParts DEF MailTablesOK, RunsOK
<1>1. ASSUME UNCHANGED states PROVE OutreachMove(c, v)
  BY <1>1 DEF OutreachMove
<1>2. ASSUME NEW m \in Mailer, MailerClaim(m) PROVE OutreachMove(c, v)
  <2>1. PICK k \in mailers[m].due : clearNotificationDue(k[1], k[2])
    BY <1>2 DEF MailerClaim
  <2>2. mailers[m] \in MailerRun
    BY <1>0
  <2>3. k[1] \in Customer /\ k[2] \in Version
    BY <2>1, <2>2 DEF MailerRun, Row
  <2>4. states'[c][v] = IF c = k[1] /\ v = k[2] THEN cleared(states[c][v]) ELSE states[c][v]
    BY <1>0, <2>1, <2>3 DEF clearNotificationDue, cleared, States
  <2>5. QED
    BY <2>4 DEF OutreachMove
<1>3. ASSUME NEW r \in Reminder, RemindWrite(r) PROVE OutreachMove(c, v)
  <2>1. PICK d \in reminders[r].cur :
          states' = IF /\ reminders[r].count # d.row.remindersSent
                       /\ inState(d.customer, d.version, d.row.state)
                    THEN [states EXCEPT ![d.customer][d.version].remindersSent =
                                          reminders[r].count]
                    ELSE states
    BY <1>3 DEF RemindWrite
  <2>2. reminders[r] \in ReminderRun
    BY <1>0
  <2>3. d \in Candidate /\ reminders[r].count \in Nat
    BY <2>1, <2>2 DEF ReminderRun
  <2>4. d.customer \in Customer /\ d.version \in Version /\ d.row.state \in CvsState
    BY <2>3 DEF Candidate, CustomerVersionState
  <2>5. CASE inState(d.customer, d.version, d.row.state) /\ states' # states
    <3>1. states[d.customer][d.version] # NoRow
      BY <2>4, <2>5 DEF inState, NoRow, CvsState
    <3>2. states'[c][v] = IF c = d.customer /\ v = d.version
                          THEN reminded(states[c][v], reminders[r].count) ELSE states[c][v]
      BY <1>0, <2>1, <2>4, <2>5 DEF reminded, States
    <3>3. QED
      BY <2>3, <3>1, <3>2 DEF OutreachMove
  <2>6. QED
    BY <1>1, <2>1, <2>5
<1>4. ASSUME NEW w \in Webhook \cup Poller, DeliveryWrite(w) PROVE OutreachMove(c, v)
  <2>1. calls[w].ref \in DOMAIN sent /\ callAt(w, "write")
    BY <1>0, <1>4, CallCases DEF DeliveryWrite, callAt, MailTablesOK
  <2>2. sent[calls[w].ref] \in Mail
    BY <1>0, <2>1
  <2>3. rowOf(w) \in Row
    BY <2>2 DEF rowOf, Mail
  <2>4. rowOf(w)[1] \in Customer /\ rowOf(w)[2] \in Version
    BY <2>3 DEF Row
  <2>5. setNotifiedAtomically(rowOf(w)[1], rowOf(w)[2], accessOf(w, rowOf(w)[2]))
    BY <1>4 DEF DeliveryWrite, accessOf
  <2>6. CASE states'[c][v] = states[c][v]
    BY <2>6 DEF OutreachMove
  <2>7. CASE states'[c][v] # states[c][v]
    <3>1. /\ c = rowOf(w)[1] /\ v = rowOf(w)[2]
          /\ states[c][v].state = "PENDING_NOTIFICATION" /\ states[c][v].notifiedAt = None
          /\ states'[c][v] = madeNotified(states[c][v], accessOf(w, rowOf(w)[2]))
      BY <1>0, <2>4, <2>5, <2>7, RowNotified
    <3>2. rowOf(w) = <<c, v>>
      BY <2>3, <3>1 DEF Row
    <3>3. QED
      BY <2>1, <3>1, <3>2 DEF OutreachMove
  <2>8. QED
    BY <2>6, <2>7
<1>5. ASSUME NEW m \in Mailer, MailerStep(m) PROVE OutreachMove(c, v)
  <2>1. CASE MailerFind(m) \/ MailerSend(m) \/ MailerRecord(m) \/ MailerFails(m)
    BY <1>1, <2>1 DEF MailerFind, MailerSend, MailerRecord, MailerFails
  <2>2. QED
    BY <1>2, <1>5, <2>1 DEF MailerStep, MailerProgress
<1>6. ASSUME NEW r \in Reminder, RemindStep(r) PROVE OutreachMove(c, v)
  <2>1. CASE RemindFind(r) \/ RemindTake(r) \/ RemindSend(r) \/ RemindRecord(r) \/ RemindEnd(r)
               \/ RemindDies(r)
    BY <1>1, <2>1 DEF RemindFind, RemindTake, RemindSend, RemindRecord, RemindEnd, RemindDies
  <2>2. QED
    BY <1>3, <1>6, <2>1 DEF RemindStep, RemindProgress
<1>7. CASE CallsStep
  <2>1. ASSUME NEW w \in Webhook \cup Poller,
               DeliveryRead(w) \/ DeliveryCheck(w) \/ DeliveryAppend(w) \/ DeliveryDies(w)
        PROVE  UNCHANGED states
    BY <2>1 DEF DeliveryRead, DeliveryCheck, DeliveryAppend, DeliveryDies
  <2>2. CASE \/ \E ref \in DOMAIN sent : ProviderDelivers(ref) /\ UNCHANGED calls
             \/ \E w \in Webhook, ref \in received : WebhookCall(w, ref)
             \/ \E w \in Poller, ref \in received : PollCall(w, ref)
    BY <1>1, <2>2 DEF ProviderDelivers, WebhookCall, PollCall
  <2>3. QED
    BY <1>1, <1>4, <1>7, <2>1, <2>2 DEF CallsStep, DeliveryProgress
<1>8. QED
  BY <1>5, <1>6, <1>7 DEF OutreachStep

LEMMA DeskMoves ==
  ASSUME StoreTypeOK, DeskTypeOK, NEW a \in Admin, DeskStep(a),
         NEW c \in Customer, NEW v \in Version
  PROVE  DeskMove(a, c, v)
<1> USE DEF storeVars
<1>0. states \in States
  BY StoreTypeParts
<1>1. CASE DeskSave(a)
  <2>1. desk[a].customer \in Customer /\ desk[a].version \in Version /\ inFlight(a)
    BY <1>1, DeskInFlight DEF DeskSave, DeskRun
  <2>2. states'[c][v] = IF c = desk[a].customer /\ v = desk[a].version
                        THEN desk[a].row ELSE states[c][v]
    BY <1>0, <1>1, <2>1, SavedRow DEF DeskSave
  <2>3. desk'[a] = DeskDone
    BY <1>1 DEF DeskSave, DeskTypeOK
  <2>4. QED
    BY <2>1, <2>2, <2>3 DEF DeskMove
<1>2. CASE \/ \E e \in Customer, w \in Version : PatchRead(a, e, w) \/ RemindRead(a, e, w)
           \/ DeskMail(a) \/ DeskRecord(a) \/ DeskDies(a)
  BY <1>2 DEF PatchRead, RemindRead, DeskMail, DeskRecord, DeskDies, DeskMove
<1>3. QED
  BY <1>1, <1>2 DEF DeskStep, DeskProgress

LEMMA ClaimedOrReminded ==
  ASSUME NEW r \in MaybeRow, NEW t, t = cleared(r) \/ (r # NoRow /\ \E n \in Nat : t = reminded(r, n))
  PROVE  /\ t.state = r.state /\ t.notifiedAt = r.notifiedAt
         /\ t.notificationDue => r.notificationDue
         /\ r # NoRow => t # NoRow
<1>1. CASE t = cleared(r)
  BY <1>1, ClearedRow
<1>2. CASE r # NoRow /\ \E n \in Nat : t = reminded(r, n)
  <2>1. r \in CustomerVersionState
    BY <1>2, RowState
  <2>2. QED
    BY <1>2, <2>1 DEF reminded, CustomerVersionState, NoRow, CvsState
<1>3. QED
  BY <1>1, <1>2

-----------------------------------------------------------------------------
(* Settled rows stay settled, but for the desk. *)

LEMMA SettledStay ==
  ASSUME Typed, [CorrespondenceNext]_allVars, NEW c \in Customer, NEW v \in Version,
         states[c][v].state \in Settled, states'[c][v].state \notin Settled
  PROVE  \E a \in Admin : DeskMove(a, c, v) /\ states'[c][v] # states[c][v]
<1> DEFINE r == states[c][v]
           t == states'[c][v]
<1>0. /\ StoreTypeOK /\ ApiTypeOK /\ SweepTypeOK /\ PublishTypeOK
      /\ OutreachTypeOK /\ DeskTypeOK /\ DisplayTypeOK /\ HandlersReadRows
  BY TypedParts
<1>1. r \in MaybeRow /\ r.state \in CvsState /\ t # r
  BY <1>0, StoreTypeParts DEF States, Settled, CvsState
<1>2. r \in CustomerVersionState /\ r # NoRow
  BY <1>1, StateOfRow
<1>3. ASSUME NEW p \in Handler, ApiMove(p, c, v) PROVE FALSE
  <2>1. t # madeState(r, "ACCEPTED")
    BY <1>2 DEF madeState, CustomerVersionState, Settled
  <2>2. QED
    BY <1>1, <1>2, <1>3, <2>1 DEF ApiMove, Settled
<1>4. ASSUME NEW s \in Sweeper, SweepMove(s, c, v) PROVE FALSE
  BY <1>1, <1>4 DEF SweepMove, Settled, ACTIVE_SWEEPABLE_STATES
<1>5. ASSUME NEW a \in Publisher, publications[a] \in Publication, PublishMove(a, c, v) PROVE FALSE
  <2>1. ASSUME NEW d \in publications[a].open, t = supersede(d.row) PROVE FALSE
    <3>1. d.row \in CustomerVersionState
      BY <1>5 DEF Publication, Snapshot
    <3>2. t.state = "SUPERSEDED"
      BY <2>1, <3>1 DEF supersede, CustomerVersionState
    <3>3. QED
      BY <3>2 DEF Settled
  <2>2. QED
    BY <1>1, <1>2, <1>5, <2>1 DEF PublishMove
<1>6. ASSUME OutreachMove(c, v) PROVE FALSE
  <2>1. ~(t = cleared(r) \/ (r # NoRow /\ \E n \in Nat : t = reminded(r, n)))
    <3>1. ASSUME t = cleared(r) \/ (r # NoRow /\ \E n \in Nat : t = reminded(r, n)) PROVE FALSE
      <4>1. t.state = r.state
        BY <1>1, <3>1, ClaimedOrReminded
      <4>2. QED
        BY <4>1
    <3>2. QED
      BY <3>1
  <2>2. r.state # "PENDING_NOTIFICATION"
    BY DEF Settled
  <2>3. \/ t = r
        \/ t = cleared(r) \/ (r # NoRow /\ \E n \in Nat : t = reminded(r, n))
        \/ r.state = "PENDING_NOTIFICATION"
    BY <1>6 DEF OutreachMove
  <2>4. QED
    BY <1>1, <2>1, <2>2, <2>3
<1>7. ~UNCHANGED states
  BY <1>1
<1>8. ASSUME NEW p \in Handler, Serve(p) PROVE FALSE
  <2>1. ApiStep(p)
    BY <1>7, <1>8, ServeCases DEF DisplayAppend, DisplayDies, storeVars
  <2>2. QED
    BY <1>0, <1>3, <2>1, ReaderHoldsRow, ApiMoves
<1>9. ASSUME NEW s \in Sweeper, Sweep(s) PROVE FALSE
  BY <1>0, <1>4, <1>9, SweepMoves DEF Sweep
<1>10. ASSUME NEW a \in Publisher, Publish(a) PROVE FALSE
  <2>1. publishing(a)
    BY <1>7, <1>10 DEF Publish, PublishStep, PublishRead, PublishDies, storeVars
  <2>2. QED
    BY <1>0, <1>5, <1>10, <2>1, PublicationInFlight, PublishMoves DEF Publish
<1>11. ~Clock /\ ~UNCHANGED allVars
  BY <1>7 DEF Clock, Tick, allVars, vars, storeVars
<1>12. ~OutreachStep
  BY <1>0, <1>6, OutreachMoves
<1>13. PICK a \in Admin : DeskStep(a)
  BY <1>8, <1>9, <1>10, <1>11, <1>12 DEF CorrespondenceNext
<1>14. QED
  BY <1>0, <1>1, <1>13, DeskMoves

(* A settled row is reopened by an admin's save of an older reading alone: no
   request, sweep, publish, mail job or delivery report does it. *)
THEOREM DeskAloneReopens == CorrespondenceSpec => OnlyDeskReopens
<1> DEFINE Reopens ==
      \A c \in Customer, v \in Version :
        states[c][v].state \in Settled /\ states'[c][v].state \notin Settled =>
          \E a \in Admin :
            /\ inFlight(a) /\ desk'[a] = DeskDone
            /\ desk[a].customer = c /\ desk[a].version = v
            /\ states'[c][v] = desk[a].row
<1>1. Typed /\ [CorrespondenceNext]_allVars => [Reopens]_allVars
  <2>1. ASSUME Typed, [CorrespondenceNext]_allVars PROVE Reopens
    BY <2>1, SettledStay DEF DeskMove
  <2>2. QED
    BY <2>1
<1>2. QED
  BY <1>1, AlwaysTyped, PTL DEF CorrespondenceSpec, OnlyDeskReopens

-----------------------------------------------------------------------------
(* Every access on record can be proved. *)

LEMMA EvidenceUntouched ==
  ASSUME events \subseteq events', UNCHANGED displayVars, NEW k \in Row, evidenced(k)
  PROVE  evidenced(k)'
BY DEF evidenced, hasEvent, displayVars

LEMMA EventsKept ==
  ASSUME events \subseteq events', NEW k \in Row, hasEvent(k)
  PROVE  hasEvent(k)'
BY DEF hasEvent

(* The row of a call stays the row of its mail. *)
LEMMA RowOfType ==
  ASSUME OutreachTypeOK, NEW w \in Webhook \cup Poller, ~callAt(w, "idle")
  PROVE  calls[w].ref \in DOMAIN sent /\ rowOf(w) \in Row /\ rowOf(w) = sent[calls[w].ref].row
<1>0. MailTablesOK /\ RunsOK
  BY OutreachParts
<1>1. calls[w].ref \in DOMAIN sent
  BY <1>0, CallCases DEF RunsOK, MailTablesOK
<1>2. sent[calls[w].ref] \in Mail
  BY <1>0, <1>1 DEF MailTablesOK
<1>3. QED
  BY <1>1, <1>2 DEF rowOf, Mail

(* What one row's notice has to rest on after the step. *)
NoticesKept ==
  \A c \in Customer, v \in Version :
    states'[c][v].notifiedAt # None =>
      states[c][v].notifiedAt # None \/ evidenced(<<c, v>>)'

LEMMA AccessKept ==
  ASSUME AccessIsEvidenced, NoticesKept, \A k \in Row : evidenced(k) => evidenced(k)'
  PROVE  AccessIsEvidenced'
<1>1. AccessIsEvidenced <=>
        \A k \in Row : states[k[1]][k[2]].notifiedAt # None => evidenced(k)
  BY DEF AccessIsEvidenced, evidenced, hasEvent
<1>2. AccessIsEvidenced' <=>
        \A k \in Row : states'[k[1]][k[2]].notifiedAt # None => evidenced(k)'
  BY DEF AccessIsEvidenced, evidenced, hasEvent
<1>3. ASSUME NEW k \in Row, states'[k[1]][k[2]].notifiedAt # None PROVE evidenced(k)'
  <2>1. k[1] \in Customer /\ k[2] \in Version /\ k = <<k[1], k[2]>>
    BY DEF Row
  <2>2. states[k[1]][k[2]].notifiedAt # None \/ evidenced(k)'
    BY <1>3, <2>1 DEF NoticesKept
  <2>3. QED
    BY <1>1, <2>2
<1>4. QED
  BY <1>2, <1>3

LEMMA AccessHolds ==
  ASSUME AccessIsEvidenced, NEW c \in Customer, NEW v \in Version,
         states[c][v].notifiedAt # None
  PROVE  evidenced(<<c, v>>)
<1>1. <<c, v>> \in Row
  BY DEF Row
<1>2. QED
  BY <1>1 DEF AccessIsEvidenced, evidenced, hasEvent

(* Readings of rows keep the evidence they had. *)
LEMMA ReadingKept ==
  ASSUME \A k \in Row : evidenced(k) => evidenced(k)', NEW c \in Customer, NEW v \in Version,
         NEW at0, at0 # None => evidenced(<<c, v>>)
  PROVE  at0 # None => evidenced(<<c, v>>)'
<1>1. <<c, v>> \in Row
  BY DEF Row
<1>2. QED
  BY <1>1

PublishersEvidenced ==
  \A a \in Publisher : publishing(a) => \A d \in publications[a].open : readEvidenced(d)
DesksEvidenced == \A a \in Admin : inFlight(a) => readEvidenced(desk[a])
CallsEvidenced == \A w \in Webhook \cup Poller : callAt(w, "write") => hasEvent(rowOf(w))

LEMMA EvidencedParts ==
  EvidencedInv <=>
    /\ Typed /\ AccessIsEvidenced /\ EventTellsMail /\ DisplayHoldsEvidence
    /\ PublishersEvidenced /\ DesksEvidenced /\ CallsEvidenced
BY DEF EvidencedInv, Typed, ReadingsEvidenced, PublishersEvidenced, DesksEvidenced, CallsEvidenced

LEMMA EvidencedPartsNext ==
  EvidencedInv' <=>
    /\ Typed' /\ AccessIsEvidenced' /\ EventTellsMail' /\ DisplayHoldsEvidence'
    /\ PublishersEvidenced' /\ DesksEvidenced' /\ CallsEvidenced'
BY DEF EvidencedInv, Typed, ReadingsEvidenced, PublishersEvidenced, DesksEvidenced, CallsEvidenced

LEMMA PublishersKept ==
  ASSUME Typed, PublishersEvidenced, UNCHANGED publications,
         \A k \in Row : evidenced(k) => evidenced(k)'
  PROVE  PublishersEvidenced'
<1>1. SUFFICES ASSUME NEW a \in Publisher, publishing(a), NEW d \in publications[a].open
               PROVE  d.row.notifiedAt # None => evidenced(<<d.customer, d.version>>)'
  BY DEF PublishersEvidenced, publishing, readEvidenced
<1>2. d.customer \in Customer /\ d.version \in Version
  BY <1>1, TypedParts, PublicationInFlight DEF Publication, Snapshot
<1>3. QED
  BY <1>1, <1>2, ReadingKept DEF PublishersEvidenced, readEvidenced

LEMMA DesksKept ==
  ASSUME Typed, DesksEvidenced, UNCHANGED desk, \A k \in Row : evidenced(k) => evidenced(k)'
  PROVE  DesksEvidenced'
<1>1. SUFFICES ASSUME NEW a \in Admin, inFlight(a)
               PROVE  desk[a].row.notifiedAt # None =>
                        evidenced(<<desk[a].customer, desk[a].version>>)'
  BY DEF DesksEvidenced, inFlight, readEvidenced
<1>2. desk[a].customer \in Customer /\ desk[a].version \in Version
  BY <1>1, TypedParts, DeskInFlight DEF DeskRun
<1>3. QED
  BY <1>1, <1>2, ReadingKept DEF DesksEvidenced, readEvidenced

LEMMA CallsKept ==
  ASSUME Typed, CallsEvidenced, UNCHANGED calls, events \subseteq events',
         \A i \in DOMAIN sent : sent'[i] = sent[i]
  PROVE  CallsEvidenced'
<1>1. SUFFICES ASSUME NEW w \in Webhook \cup Poller, callAt(w, "write")
               PROVE  hasEvent(rowOf(w))'
  BY DEF CallsEvidenced, callAt
<1>2. calls[w].ref \in DOMAIN sent /\ rowOf(w) \in Row
  BY <1>1, TypedParts, RowOfType DEF callAt
<1>3. rowOf(w)' = rowOf(w)
  BY <1>2 DEF rowOf
<1>4. hasEvent(rowOf(w))
  BY <1>1 DEF CallsEvidenced
<1>5. QED
  BY <1>2, <1>3, <1>4 DEF hasEvent

LEMMA EventsTellKept ==
  ASSUME Typed, EventTellsMail, UNCHANGED events, \A i \in DOMAIN sent : sent'[i] = sent[i]
  PROVE  EventTellsMail'
<1>1. events \subseteq Event
  BY TypedParts, OutreachParts DEF MailTablesOK
<1>2. QED
  BY <1>1 DEF EventTellsMail, Event, MaybeRef

LEMMA DisplaysKept ==
  ASSUME Typed, DisplayHoldsEvidence, UNCHANGED <<requests, displays>>,
         \A k \in Row : evidenced(k) => evidenced(k)'
  PROVE  DisplayHoldsEvidence'
<1>1. SUFFICES ASSUME NEW p \in Handler, at(p, "notifyWrite")
               PROVE  /\ displays[p].due = {}
                      /\ \/ displays[p].first
                         \/ evidenced(<<requests[p].customer, requests[p].version>>)'
  BY DEF DisplayHoldsEvidence, at
<1>2. <<requests[p].customer, requests[p].version>> \in Row
  BY <1>1, TypedParts, RequestInFlight DEF Step, Request, Row
<1>3. QED
  BY <1>1, <1>2 DEF DisplayHoldsEvidence

(* One handler steps, and one that is about to notify does that or dies. *)
LEMMA OneHandlerSteps ==
  ASSUME StoreTypeOK, ApiTypeOK, NEW p \in Handler, ApiStep(p)
  PROVE  /\ OtherRequests(p)
         /\ at(p, "notifyWrite") => NotifyWrite(p) \/ (HandlerDies(p) /\ faults' # faults)
<1>1. OtherRequests(p)
  BY DEF ApiTypeOK, OtherRequests, ApiStep, ApiStart, ApiProgress, AcceptStart, ObjectRead,
         NotifyRead, RecordRead, AcceptRead, AcceptWrite, RecordCreate, RecordWrite,
         AcceptanceAppend, ObjectWrite, ObjectionAppend, NotifyWrite, HandlerDies,
         start, goto, finish
<1>2. ASSUME at(p, "notifyWrite") PROVE NotifyWrite(p) \/ HandlerDies(p)
  <2>1. ~idle(p)
    BY <1>2 DEF at, idle, Idle
  <2>2. ~ApiStart(p)
    BY <2>1 DEF ApiStart, AcceptStart, ObjectRead, NotifyRead, RecordRead
  <2>3. ApiProgress(p) => NotifyWrite(p)
    BY <1>2 DEF at, ApiProgress, AcceptRead, AcceptWrite, RecordCreate, RecordWrite,
                AcceptanceAppend, ObjectWrite, ObjectionAppend
  <2>4. QED
    BY <2>2, <2>3 DEF ApiStep
<1>3. HandlerDies(p) => faults' # faults
  BY DEF HandlerDies, Fault, StoreTypeOK
<1>4. QED
  BY <1>1, <1>2, <1>3

(* A publish gives its open rows up one by one or takes them as they are. *)
LEMMA PublishOpens ==
  ASSUME StoreTypeOK, PublishTypeOK, NEW a \in Publisher, PublishStep(a)
  PROVE  /\ \A b \in Publisher : b # a => publications'[b] = publications[b]
         /\ publications'[a] # NoPublication =>
              \A d \in publications'[a].open :
                \/ publishing(a) /\ d \in publications[a].open
                \/ \E c \in Customer, v \in Version : d = snapshot(c, v)
<1> USE DEF PublishTypeOK
<1>1. ASSUME NEW v \in Version, PublishRead(a, v)
      PROVE  publications'[a].open = {}
  BY <1>1 DEF PublishRead
<1>2. CASE PublishDies(a) \/ PublishReturn(a) \/ \E c \in Customer : PublishRefused(a, c)
  BY <1>2 DEF PublishDies, PublishReturn, PublishRefused, endPublish
<1>3. CASE publishing(a) /\ PublishFindOpen(a)
  <2>1. publications[a] \in Publication
    BY <1>3, PublicationInFlight
  <2>2. publications'[a].open = UNION {findOpenByVersion(w) : w \in publications[a].draining}
    BY <1>3, <2>1 DEF PublishFindOpen, Publication
  <2>3. publications[a].draining \subseteq Version
    BY <2>1 DEF Publication
  <2>4. \A d \in publications'[a].open : \E c \in Customer, v \in Version : d = snapshot(c, v)
    BY <2>2, <2>3 DEF findOpenByVersion
  <2>5. QED
    BY <1>3, <2>4 DEF PublishFindOpen
<1>4. CASE publishing(a) /\ \E d \in publications[a].open : PublishSupersede(a, d)
  <2>1. publications[a] \in Publication
    BY <1>4, PublicationInFlight
  <2>2. publications'[a].open \subseteq publications[a].open
    BY <1>4, <2>1 DEF PublishSupersede, Publication
  <2>3. QED
    BY <1>4, <2>2 DEF PublishSupersede
<1>5. CASE /\ publishing(a)
           /\ \/ PublishSave(a) \/ PublishSiblings(a) \/ PublishTargets(a)
              \/ \E w \in publications[a].predecessors : PublishRetire(a, w)
              \/ \E c \in Customer : PublishRollout(a, c)
  <2>1. publications[a] \in Publication
    BY <1>5, PublicationInFlight
  <2>2. publications'[a].open = publications[a].open
    <3>1. CASE PublishSave(a) \/ PublishSiblings(a) \/ PublishTargets(a)
      BY <2>1, <3>1 DEF PublishSave, PublishSiblings, PublishTargets, Publication
    <3>2. CASE \E w \in publications[a].predecessors : PublishRetire(a, w)
      BY <2>1, <3>2 DEF PublishRetire, Publication
    <3>3. CASE \E c \in Customer : PublishRollout(a, c)
      BY <2>1, <3>3 DEF PublishRollout, Publication
    <3>4. QED
      BY <1>5, <3>1, <3>2, <3>3
  <2>3. \A b \in Publisher : b # a => publications'[b] = publications[b]
    BY <1>5 DEF PublishSave, PublishSiblings, PublishTargets, PublishRetire, PublishRollout
  <2>4. QED
    BY <1>5, <2>2, <2>3
<1>6. ASSUME NEW v \in Version, PublishRead(a, v)
      PROVE  \A b \in Publisher : b # a => publications'[b] = publications[b]
  BY <1>6 DEF PublishRead
<1>7. QED
  BY <1>1, <1>2, <1>3, <1>4, <1>5, <1>6 DEF PublishStep, PublishProgress

EvidenceHeld ==
  /\ AccessIsEvidenced /\ EventTellsMail /\ DisplayHoldsEvidence
  /\ PublishersEvidenced /\ DesksEvidenced /\ CallsEvidenced

(* Neither a changed state nor a new row changes what is known of an access. *)
LEMMA MadeStateNotice ==
  ASSUME NEW r \in MaybeRow, NEW to
  PROVE  madeState(r, to).notifiedAt = r.notifiedAt
<1>1. CASE r \in CustomerVersionState
  BY <1>1 DEF madeState, CustomerVersionState
<1>2. CASE r = NoRow
  BY <1>2 DEF madeState, NoRow
<1>3. QED
  BY <1>1, <1>2 DEF MaybeRow

LEMMA PendingNotice ==
  ASSUME NEW deadline
  PROVE  PendingRow(deadline).notifiedAt = None
BY DEF PendingRow, NoRow

LEMMA RolloutNotice ==
  ASSUME NEW a, NEW c
  PROVE  rolloutRow(a, c).notifiedAt = None
BY DEF rolloutRow, PendingRow, NoRow

LEMMA SupersedeNotice ==
  ASSUME NEW r \in CustomerVersionState
  PROVE  supersede(r).notifiedAt = r.notifiedAt
BY DEF supersede, CustomerVersionState

LEMMA ApiMoveNotice ==
  ASSUME states \in States, NEW p \in Handler, ~at(p, "notifyWrite"),
         NEW c \in Customer, NEW v \in Version, ApiMove(p, c, v)
  PROVE  states'[c][v].notifiedAt = states[c][v].notifiedAt
<1>1. states[c][v] \in MaybeRow /\ PendingRow(None) \in MaybeRow
  BY PendingRowType DEF States, MaybeRow, MaybeTime
<1>2. QED
  BY <1>1, MadeStateNotice, PendingNotice DEF ApiMove, NoRow

LEMMA SweepMoveNotice ==
  ASSUME states \in States, NEW s \in Sweeper, NEW c \in Customer, NEW v \in Version,
         SweepMove(s, c, v)
  PROVE  states'[c][v].notifiedAt = states[c][v].notifiedAt
<1>1. states[c][v] \in MaybeRow
  BY DEF States
<1>2. QED
  BY <1>1, MadeStateNotice DEF SweepMove

(* The clock and the sweep leave all evidence alone. *)
LEMMA EvidenceLeftAlone ==
  ASSUME Typed, EvidenceHeld, NoticesKept,
         UNCHANGED <<requests, publications, outreachVars, desk, displayVars>>
  PROVE  EvidenceHeld'
<1>1. /\ UNCHANGED <<events, sent, calls, displays>> /\ events \subseteq events'
      /\ UNCHANGED displayVars /\ UNCHANGED <<requests, displays>>
  BY DEF outreachVars, mailTables, displayVars
<1>2. \A k \in Row : evidenced(k) => evidenced(k)'
  BY <1>1, EvidenceUntouched
<1>3. AccessIsEvidenced' /\ PublishersEvidenced' /\ DesksEvidenced' /\ DisplayHoldsEvidence'
  BY <1>1, <1>2, AccessKept, PublishersKept, DesksKept, DisplaysKept DEF EvidenceHeld
<1>4. CallsEvidenced' /\ EventTellsMail'
  BY <1>1, CallsKept, EventsTellKept DEF EvidenceHeld
<1>5. QED
  BY <1>3, <1>4 DEF EvidenceHeld

LEMMA PublishKeepsAccess ==
  ASSUME Typed, EvidenceHeld, NEW a \in Publisher, Publish(a),
         UNCHANGED <<outreachVars, desk, displayVars>>
  PROVE  EvidenceHeld'
<1>0. StoreTypeOK /\ PublishTypeOK /\ states \in States
  BY TypedParts, StoreTypeParts
<1>1. /\ UNCHANGED <<events, sent, calls, displays, requests>> /\ events \subseteq events'
      /\ UNCHANGED displayVars /\ UNCHANGED <<requests, displays>> /\ PublishStep(a)
  BY DEF outreachVars, mailTables, displayVars, Publish
<1>2. \A k \in Row : evidenced(k) => evidenced(k)'
  BY <1>1, EvidenceUntouched
<1>3. ASSUME publishing(a), NEW d \in publications[a].open
      PROVE  /\ d.customer \in Customer /\ d.version \in Version
             /\ d.row \in CustomerVersionState
             /\ d.row.notifiedAt # None => evidenced(<<d.customer, d.version>>)'
  <2>1. /\ d.customer \in Customer /\ d.version \in Version
        /\ d.row \in CustomerVersionState
    BY <1>0, <1>3, PublicationInFlight DEF Publication, Snapshot
  <2>2. readEvidenced(d)
    BY <1>3 DEF EvidenceHeld, PublishersEvidenced
  <2>3. QED
    BY <1>2, <2>1, <2>2, ReadingKept DEF readEvidenced
<1>4. NoticesKept
  <2>1. SUFFICES ASSUME NEW c \in Customer, NEW v \in Version, states'[c][v].notifiedAt # None
                 PROVE  states[c][v].notifiedAt # None \/ evidenced(<<c, v>>)'
    BY DEF NoticesKept
  <2>2. PublishMove(a, c, v)
    BY <1>0, <1>1, PublishMoves
  <2>3. ASSUME NEW d \in publications[a].open, in(a, "predecessors"),
               d.customer = c, d.version = v, states'[c][v] = supersede(d.row)
        PROVE  evidenced(<<c, v>>)'
    <3>1. publishing(a)
      BY <2>3 DEF in, publishing, NoPublication
    <3>2. QED
      BY <1>3, <2>1, <2>3, <3>1, SupersedeNotice
  <2>4. states'[c][v] # rolloutRow(a, c)
    BY <2>1, RolloutNotice
  <2>5. QED
    BY <2>2, <2>3, <2>4, <2>1 DEF PublishMove
<1>5. AccessIsEvidenced' /\ DesksEvidenced' /\ DisplayHoldsEvidence'
  BY <1>1, <1>2, <1>4, AccessKept, DesksKept, DisplaysKept DEF EvidenceHeld
<1>6. CallsEvidenced' /\ EventTellsMail'
  BY <1>1, CallsKept, EventsTellKept DEF EvidenceHeld
<1>7. PublishersEvidenced'
  <2>1. SUFFICES ASSUME NEW b \in Publisher, publishing(b)', NEW d \in publications'[b].open
                 PROVE  d.row.notifiedAt # None => evidenced(<<d.customer, d.version>>)'
    BY DEF PublishersEvidenced, readEvidenced
  <2>2. CASE b # a
    <3>1. publications'[b] = publications[b]
      BY <1>0, <1>1, <2>2, PublishOpens
    <3>2. publishing(b) /\ d \in publications[b].open
      BY <2>1, <3>1 DEF publishing
    <3>3. d.customer \in Customer /\ d.version \in Version
      BY <1>0, <3>2, PublicationInFlight DEF Publication, Snapshot
    <3>4. readEvidenced(d)
      BY <3>2 DEF EvidenceHeld, PublishersEvidenced
    <3>5. QED
      BY <1>2, <3>3, <3>4, ReadingKept DEF readEvidenced
  <2>3. CASE b = a /\ publishing(a) /\ d \in publications[a].open
    BY <1>3, <2>3
  <2>4. CASE \E c \in Customer, v \in Version : d = snapshot(c, v)
    <3>1. PICK c \in Customer, v \in Version : d = snapshot(c, v)
      BY <2>4
    <3>2. d.customer = c /\ d.version = v /\ d.row = states[c][v]
      BY <3>1 DEF snapshot
    <3>3. states[c][v].notifiedAt # None => evidenced(<<c, v>>)
      BY AccessHolds DEF EvidenceHeld
    <3>4. QED
      BY <1>2, <3>2, <3>3, ReadingKept
  <2>5. b = a => publications'[a] # NoPublication
    BY <2>1 DEF publishing
  <2>6. QED
    BY <1>0, <1>1, <2>1, <2>2, <2>3, <2>4, <2>5, PublishOpens
<1>8. QED
  BY <1>5, <1>6, <1>7 DEF EvidenceHeld

(* One handler's display moves on: the evidence of the rest stands. *)
OtherDisplays(p) == \A q \in Handler : q # p => displays'[q] = displays[q]

LEMMA EvidenceMovesOn ==
  ASSUME NEW p \in Handler, OtherDisplays(p), events \subseteq events',
         unproven \subseteq unproven', \A k \in displays[p].due : evidenced(k)'
  PROVE  \A k \in Row : evidenced(k) => evidenced(k)'
BY DEF evidenced, hasEvent, OtherDisplays

LEMMA DisplaysMoveOn ==
  ASSUME Typed, DisplayHoldsEvidence, NEW p \in Handler, OtherRequests(p), OtherDisplays(p),
         \A k \in Row : evidenced(k) => evidenced(k)',
         \A k, l \in displays'[p].due : k = l,
         at(p, "notifyWrite")' =>
           /\ displays'[p].due = {}
           /\ displays'[p].first
                \/ evidenced(<<requests[p].customer, requests[p].version>>)'
  PROVE  DisplayHoldsEvidence'
<1>1. ASSUME NEW q \in Handler
      PROVE  /\ \A k, l \in displays'[q].due : k = l
             /\ at(q, "notifyWrite")' =>
                  /\ displays'[q].due = {}
                  /\ displays'[q].first
                       \/ evidenced(<<requests[q].customer, requests[q].version>>)'
  <2>1. CASE q = p
    BY <2>1
  <2>2. CASE q # p
    <3>1. requests'[q] = requests[q] /\ displays'[q] = displays[q]
      BY <2>2 DEF OtherRequests, OtherDisplays
    <3>2. \A k, l \in displays[q].due : k = l
      BY DEF DisplayHoldsEvidence
    <3>3. ASSUME at(q, "notifyWrite")'
          PROVE  /\ displays'[q].due = {}
                 /\ displays'[q].first
                      \/ evidenced(<<requests[q].customer, requests[q].version>>)'
      <4>1. at(q, "notifyWrite")
        BY <3>1, <3>3 DEF at
      <4>2. <<requests[q].customer, requests[q].version>> \in Row
        BY <4>1, TypedParts, RequestInFlight DEF Step, Request, Row
      <4>3. CASE displays[q].first
        BY <3>1, <4>1, <4>3 DEF DisplayHoldsEvidence
      <4>4. CASE evidenced(<<requests[q].customer, requests[q].version>>)
        <5>1. evidenced(<<requests[q].customer, requests[q].version>>)'
          BY <3>1, <4>2, <4>4
        <5>2. QED
          BY <3>1, <4>1, <5>1 DEF DisplayHoldsEvidence
      <4>5. QED
        BY <4>1, <4>3, <4>4 DEF DisplayHoldsEvidence
    <3>4. QED
      BY <3>1, <3>2, <3>3
  <2>3. QED
    BY <2>1, <2>2
<1>2. QED
  BY <1>1 DEF DisplayHoldsEvidence, at, evidenced, hasEvent

(* An appended event is evidence of its row. *)
LEMMA AppendedEvent ==
  ASSUME NEW k \in Row, NEW ref, NEW to, appendEvent(k[1], k[2], ref, to)
  PROVE  \E e : e.row = k /\ e.ref = ref /\ events' = events \cup {e}
<1> DEFINE e == [row |-> <<k[1], k[2]>>, ref |-> ref, recipient |-> to, id |-> Cardinality(events)]
<1>1. <<k[1], k[2]>> = k
  BY DEF Row
<1>2. e.row = k /\ e.ref = ref
  BY <1>1
<1>3. events' = events \cup {e}
  BY DEF appendEvent
<1> HIDE DEF e
<1>4. QED
  BY <1>2, <1>3

(* What a display does to the evidence of the rows, and what its write does
   to the row it was read for. *)
LEMMA ServeKeepsHeld ==
  ASSUME Typed, EvidenceHeld, NEW p \in Handler, Serve(p)
  PROVE  /\ \A k \in Row : evidenced(k) => evidenced(k)'
         /\ NoticesKept /\ DisplayHoldsEvidence'
<1> USE DEF storeVars, mailTables, contextVars, recordVars
<1>0. /\ StoreTypeOK /\ ApiTypeOK /\ states \in States
      /\ displays \in [Handler -> [first : BOOLEAN, due : SUBSET Row]]
      /\ AccessIsEvidenced /\ DisplayHoldsEvidence
  BY TypedParts, StoreTypeParts DEF DisplayTypeOK, EvidenceHeld
<1>1. ASSUME UNCHANGED states PROVE NoticesKept
  BY <1>1 DEF NoticesKept
<1>2. ASSUME displays'[p] = NoDisplay
      PROVE  /\ \A k, l \in displays'[p].due : k = l
             /\ displays'[p].due = {}
  BY <1>2 DEF NoDisplay
<1>3. ASSUME NEW c \in Customer, NEW v \in Version, DisplayRead(p, c, v)
      PROVE  /\ \A k \in Row : evidenced(k) => evidenced(k)'
             /\ NoticesKept /\ DisplayHoldsEvidence'
  <2> DEFINE first == states[c][v].notifiedAt = None
  <2>1. /\ OtherRequests(p)
        /\ requests'[p].customer = c /\ requests'[p].version = v
    BY <1>0, <1>3, StartEffect DEF DisplayRead, NotifyRead
  <2>2. displays' = [displays EXCEPT ![p].first = first]
    BY <1>3 DEF DisplayRead
  <2> HIDE DEF first
  <2>3. /\ OtherDisplays(p) /\ displays[p].due = {}
        /\ displays'[p].due = {} /\ displays'[p].first = first
    BY <1>0, <1>3, <2>2 DEF DisplayRead, OtherDisplays
  <2>4. \A k \in Row : evidenced(k) => evidenced(k)'
    BY <1>3, <2>3, EvidenceMovesOn DEF DisplayRead
  <2>5. states[c][v].notifiedAt # None => evidenced(<<c, v>>)'
    BY <1>0, <2>4, AccessHolds, ReadingKept
  <2>6. <<requests'[p].customer, requests'[p].version>> = <<c, v>>
    BY <2>1
  <2>7. first \/ evidenced(<<requests[p].customer, requests[p].version>>)'
    BY <2>5, <2>6 DEF first, evidenced, hasEvent
  <2>8. DisplayHoldsEvidence'
    BY <1>0, <2>1, <2>3, <2>4, <2>7, DisplaysMoveOn
  <2>9. QED
    BY <1>1, <1>3, <2>4, <2>8 DEF DisplayRead, NotifyRead
<1>4. CASE DisplayWrite(p)
  <2> DEFINE c == requests[p].customer
             v == requests[p].version
             due == IF displays[p].first /\ states'[c][v].notifiedAt # None
                    THEN {<<c, v>>} ELSE {}
  <2>1. c \in Customer /\ v \in Version /\ at(p, "notifyWrite")
    BY <1>0, <1>4, RequestInFlight DEF DisplayWrite, NotifyWrite, Step, Request
  <2>2. displays[p].due = {} /\ (displays[p].first \/ evidenced(<<c, v>>))
    BY <1>0, <2>1 DEF DisplayHoldsEvidence
  <2>3. displays' = [displays EXCEPT ![p] = [first |-> FALSE, due |-> due]]
    BY <1>0, <1>4 DEF DisplayWrite
  <2>4. \A k, l \in due : k = l
    OBVIOUS
  <2>5. states'[c][v].notifiedAt # None /\ displays[p].first => <<c, v>> \in due
    OBVIOUS
  <2> HIDE DEF due
  <2>6. OtherDisplays(p) /\ displays'[p].due = due
    BY <1>0, <2>3 DEF OtherDisplays
  <2>7. \A k \in Row : evidenced(k) => evidenced(k)'
    BY <1>4, <2>2, <2>6, EvidenceMovesOn DEF DisplayWrite, NotifyWrite
  <2>8. NoticesKept
    <3>1. SUFFICES ASSUME NEW d \in Customer, NEW w \in Version,
                          states'[d][w].notifiedAt # None
                   PROVE  states[d][w].notifiedAt # None \/ evidenced(<<d, w>>)'
      BY DEF NoticesKept
    <3>2. states'[d][w] = states[d][w] \/ (d = c /\ w = v)
      BY <1>0, <1>4, <2>1, RowNotified DEF DisplayWrite, NotifyWrite
    <3>3. ASSUME d = c, w = v PROVE evidenced(<<d, w>>)'
      <4>1. <<d, w>> \in Row
        BY DEF Row
      <4>2. CASE evidenced(<<d, w>>)
        BY <2>7, <4>1, <4>2
      <4>3. CASE displays[p].first
        <5>1. <<d, w>> \in displays'[p].due
          BY <2>5, <2>6, <3>1, <3>3, <4>3
        <5>2. QED
          BY <5>1 DEF evidenced
      <4>4. QED
        BY <2>2, <3>3, <4>2, <4>3
    <3>4. QED
      BY <3>1, <3>2, <3>3
  <2>9. OtherRequests(p) /\ ~at(p, "notifyWrite")'
    BY <1>0, <1>4, FinishEffect DEF DisplayWrite, NotifyWrite, Idle, at
  <2>10. DisplayHoldsEvidence'
    BY <1>0, <2>4, <2>6, <2>7, <2>9, DisplaysMoveOn
  <2>11. QED
    BY <2>7, <2>8, <2>10
<1>5. CASE DisplayAppend(p)
  <2>1. PICK k \in displays[p].due : appendEvent(k[1], k[2], None, UserId)
    BY <1>5 DEF DisplayAppend
  <2>2. k \in Row /\ \A l \in displays[p].due : l = k
    BY <1>0, <2>1 DEF DisplayHoldsEvidence
  <2>4. events \subseteq events' /\ hasEvent(k)'
    BY <2>1, <2>2, AppendedEvent DEF hasEvent
  <2>5. OtherDisplays(p) /\ displays'[p] = NoDisplay /\ ~at(p, "notifyWrite")
    BY <1>0, <1>5, <2>1 DEF DisplayAppend, OtherDisplays, DisplayHoldsEvidence
  <2>6. \A l \in Row : evidenced(l) => evidenced(l)'
    BY <1>5, <2>2, <2>4, <2>5, EvidenceMovesOn DEF DisplayAppend, evidenced
  <2>7. OtherRequests(p) /\ ~at(p, "notifyWrite")'
    BY <1>5, <2>5 DEF DisplayAppend, OtherRequests, at
  <2>8. DisplayHoldsEvidence'
    BY <1>0, <1>2, <2>5, <2>6, <2>7, DisplaysMoveOn
  <2>9. QED
    BY <1>1, <1>5, <2>6, <2>8 DEF DisplayAppend
<1>6. CASE DisplayDies(p)
  <2>1. /\ OtherDisplays(p) /\ displays'[p] = NoDisplay /\ events \subseteq events'
        /\ ~at(p, "notifyWrite") /\ unproven \subseteq unproven'
    BY <1>0, <1>6 DEF DisplayDies, OtherDisplays, DisplayHoldsEvidence
  <2>2. \A l \in Row : evidenced(l) => evidenced(l)'
    BY <1>6, <2>1, EvidenceMovesOn DEF DisplayDies, evidenced
  <2>3. OtherRequests(p) /\ ~at(p, "notifyWrite")'
    BY <1>6, <2>1 DEF DisplayDies, OtherRequests, at
  <2>4. DisplayHoldsEvidence'
    BY <1>0, <1>2, <2>1, <2>2, <2>3, DisplaysMoveOn
  <2>5. QED
    BY <1>1, <1>6, <2>2, <2>4 DEF DisplayDies
<1>7. CASE Answer(p)
  <2>1. /\ ApiStep(p) /\ ~at(p, "notifyWrite")' /\ displays[p].due = {}
        /\ UNCHANGED <<events, displays, unproven>> /\ HoldsRow(p)
    BY <1>7, TypedParts, ReaderHoldsRow DEF Answer, displayVars, at
  <2>2. OtherDisplays(p) /\ OtherRequests(p)
    BY <1>0, <2>1, OneHandlerSteps DEF OtherDisplays
  <2>3. \A l \in Row : evidenced(l) => evidenced(l)'
    BY <2>1, <2>2, EvidenceMovesOn
  <2>4. \A k, l \in displays'[p].due : k = l
    BY <2>1
  <2>5. DisplayHoldsEvidence'
    BY <1>0, <2>1, <2>2, <2>3, <2>4, DisplaysMoveOn
  <2>6. CASE at(p, "notifyWrite")
    <3>1. HandlerDies(p)
      <4>1. faults' # faults
        BY <1>7, <2>6 DEF Answer
      <4>2. ~NotifyWrite(p)
        BY <4>1 DEF NotifyWrite
      <4>3. QED
        BY <1>0, <2>1, <2>6, <4>2, OneHandlerSteps
    <3>2. QED
      BY <1>1, <2>3, <2>5, <3>1 DEF HandlerDies
  <2>7. CASE ~at(p, "notifyWrite")
    <3>1. \A c \in Customer, v \in Version :
            states'[c][v].notifiedAt = states[c][v].notifiedAt
      BY <1>0, <2>1, <2>7, ApiMoves, ApiMoveNotice
    <3>2. QED
      BY <2>3, <2>5, <3>1 DEF NoticesKept
  <2>8. QED
    BY <2>6, <2>7
<1>8. QED
  BY <1>3, <1>4, <1>5, <1>6, <1>7 DEF Serve, DisplayProgress

LEMMA ServeKeepsAccess ==
  ASSUME Typed, EvidenceHeld, NEW p \in Handler, Serve(p)
  PROVE  EvidenceHeld'
<1>1. /\ \A k \in Row : evidenced(k) => evidenced(k)'
      /\ NoticesKept /\ DisplayHoldsEvidence'
  BY ServeKeepsHeld
<1>2. /\ UNCHANGED <<publications, calls, desk, sent>> /\ events \subseteq events'
      /\ \A e \in events' : e.ref # None => e \in events
  <2>1. CASE DisplayAppend(p)
    BY <2>1 DEF Serve, DisplayAppend, appendEvent
  <2>2. CASE DisplayDies(p)
    BY <2>2 DEF Serve, DisplayDies, mailTables
  <2>3. CASE UNCHANGED mailTables
    BY <2>3, ServeCases DEF mailTables
  <2>4. QED
    BY <2>1, <2>2, <2>3, ServeCases
<1>3. AccessIsEvidenced' /\ PublishersEvidenced' /\ DesksEvidenced' /\ CallsEvidenced'
  BY <1>1, <1>2, AccessKept, PublishersKept, DesksKept, CallsKept DEF EvidenceHeld
<1>4. EventTellsMail'
  BY <1>2 DEF EvidenceHeld, EventTellsMail
<1>5. QED
  BY <1>1, <1>3, <1>4 DEF EvidenceHeld

OtherCalls(w) == \A u \in Webhook \cup Poller : u # w => calls'[u] = calls[u]

LEMMA CallsMoveOn ==
  ASSUME Typed, CallsEvidenced, NEW w \in Webhook \cup Poller, OtherCalls(w),
         events \subseteq events', UNCHANGED sent,
         calls'[w].step = "write" => \E e \in events' : e.row = sent[calls'[w].ref].row
  PROVE  CallsEvidenced'
<1>1. SUFFICES ASSUME NEW u \in Webhook \cup Poller, calls'[u].step = "write"
               PROVE  hasEvent(rowOf(u))'
  BY DEF CallsEvidenced, callAt
<1>2. CASE u = w
  BY <1>1, <1>2 DEF rowOf, hasEvent
<1>3. CASE u # w
  <2>1. calls'[u] = calls[u]
    BY <1>3 DEF OtherCalls
  <2>2. hasEvent(rowOf(u)) /\ rowOf(u)' = rowOf(u)
    BY <1>1, <2>1 DEF CallsEvidenced, callAt, rowOf
  <2>3. QED
    BY <2>2 DEF hasEvent
<1>4. QED
  BY <1>2, <1>3

(* A report goes on to the row with the event found or appended. *)
LEMMA CallsKeepEvidence ==
  ASSUME Typed, EventTellsMail, CallsEvidenced, CallsStep
  PROVE  /\ events \subseteq events' /\ UNCHANGED sent
         /\ EventTellsMail' /\ CallsEvidenced'
<1> USE DEF storeVars, mailTables
<1>0. /\ OutreachTypeOK /\ MailTablesOK /\ sent \in Seq(Mail)
      /\ calls \in [Webhook \cup Poller -> Call]
  BY TypedParts, OutreachParts DEF MailTablesOK, RunsOK
<1>1. ASSUME UNCHANGED <<events, sent>> PROVE EventTellsMail'
  BY <1>1 DEF EventTellsMail
<1>2. ASSUME NEW w \in Webhook \cup Poller, calls' = [calls EXCEPT ![w] = CallIdle],
             UNCHANGED <<events, sent>>
      PROVE  CallsEvidenced'
  <2>1. OtherCalls(w) /\ calls'[w].step # "write"
    BY <1>0, <1>2 DEF OtherCalls, CallIdle
  <2>2. QED
    BY <1>2, <2>1, CallsMoveOn
<1>3. ASSUME NEW w \in Webhook \cup Poller, NEW ref,
             calls' = [calls EXCEPT ![w].step = "read", ![w].ref = ref],
             UNCHANGED <<events, sent>>
      PROVE  CallsEvidenced'
  <2>1. calls[w] \in AnyCall
    BY <1>0, CallCases
  <2>2. OtherCalls(w) /\ calls'[w].step # "write"
    BY <1>0, <1>3, <2>1 DEF OtherCalls, AnyCall
  <2>3. QED
    BY <1>3, <2>2, CallsMoveOn
<1>4. ASSUME UNCHANGED <<calls, events, sent>> PROVE CallsEvidenced'
  BY <1>4 DEF CallsEvidenced, callAt, rowOf, hasEvent
<1>5. CASE \/ \E ref \in DOMAIN sent : ProviderDelivers(ref) /\ UNCHANGED calls
           \/ \E w \in Webhook, ref \in received : WebhookCall(w, ref)
           \/ \E w \in Poller, ref \in received : PollCall(w, ref)
  <2>1. UNCHANGED <<events, sent>>
    BY <1>5 DEF ProviderDelivers, WebhookCall, PollCall
  <2>2. CallsEvidenced'
    <3>1. CASE \E ref \in DOMAIN sent : ProviderDelivers(ref) /\ UNCHANGED calls
      BY <1>4, <2>1, <3>1
    <3>2. ASSUME NEW w \in Webhook, NEW ref \in received, WebhookCall(w, ref)
          PROVE  CallsEvidenced'
      BY <1>3, <1>4, <2>1, <3>2 DEF WebhookCall
    <3>3. ASSUME NEW w \in Poller, NEW ref \in received, PollCall(w, ref) PROVE CallsEvidenced'
      BY <1>3, <2>1, <3>3 DEF PollCall
    <3>4. QED
      BY <1>5, <3>1, <3>2, <3>3
  <2>3. QED
    BY <1>1, <2>1, <2>2
<1>6. ASSUME NEW w \in Webhook \cup Poller, DeliveryRead(w) \/ DeliveryWrite(w) \/ DeliveryDies(w)
      PROVE  UNCHANGED <<events, sent>> /\ CallsEvidenced'
  <2>1. UNCHANGED <<events, sent>>
    BY <1>6 DEF DeliveryRead, DeliveryWrite, DeliveryDies
  <2>2. CASE calls' = [calls EXCEPT ![w] = CallIdle]
    BY <1>2, <2>1, <2>2
  <2>3. CASE DeliveryRead(w) /\ calls' # [calls EXCEPT ![w] = CallIdle]
    <3> DEFINE row == states[rowOf(w)[1]][rowOf(w)[2]]
    <3>1. calls' = [calls EXCEPT ![w].step = "check", ![w].row = row] /\ calls[w] \in AnyCall
      BY <1>0, <2>3, CallCases DEF DeliveryRead, endCall
    <3> HIDE DEF row
    <3>2. OtherCalls(w) /\ calls'[w].step # "write"
      BY <1>0, <3>1 DEF OtherCalls, AnyCall
    <3>3. QED
      BY <2>1, <3>2, CallsMoveOn
  <2>4. QED
    BY <1>6, <2>1, <2>2, <2>3 DEF DeliveryWrite, DeliveryDies, endCall
<1>7. ASSUME NEW w \in Webhook \cup Poller, DeliveryCheck(w)
      PROVE  UNCHANGED <<events, sent>> /\ CallsEvidenced'
  <2> DEFINE done == \E e \in events : e.ref = calls[w].ref
  <2>1. /\ UNCHANGED <<events, sent>> /\ calls[w] \in AnyCall /\ ~callAt(w, "idle")
        /\ calls' = [calls EXCEPT ![w].step = IF done THEN "write" ELSE "append"]
    BY <1>0, <1>7, CallCases DEF DeliveryCheck, callTo, callAt
  <2> HIDE DEF done
  <2>2. /\ OtherCalls(w) /\ calls'[w].ref = calls[w].ref
        /\ calls'[w].step = IF done THEN "write" ELSE "append"
    BY <1>0, <2>1 DEF OtherCalls, AnyCall
  <2>3. calls[w].ref # None /\ rowOf(w) = sent[calls[w].ref].row
    BY <1>0, <2>1, RowOfType, RefIsSome
  <2>4. done => hasEvent(sent[calls[w].ref].row)
    BY <2>3 DEF done, EventTellsMail, hasEvent
  <2>5. calls'[w].step = "write" => \E e \in events' : e.row = sent[calls'[w].ref].row
    BY <2>1, <2>2, <2>4 DEF hasEvent
  <2>6. QED
    BY <2>1, <2>2, <2>5, CallsMoveOn
<1>8. ASSUME NEW w \in Webhook \cup Poller, DeliveryAppend(w)
      PROVE  /\ events \subseteq events' /\ UNCHANGED sent
             /\ EventTellsMail' /\ CallsEvidenced'
  <2>1. /\ UNCHANGED sent /\ calls[w] \in AnyCall /\ ~callAt(w, "idle")
        /\ calls' = [calls EXCEPT ![w].step = "write"]
        /\ appendEvent(rowOf(w)[1], rowOf(w)[2], calls[w].ref, sent[calls[w].ref].to)
    BY <1>0, <1>8, CallCases DEF DeliveryAppend, callTo, callAt
  <2>2. OtherCalls(w) /\ calls'[w].ref = calls[w].ref
    BY <1>0, <2>1 DEF OtherCalls, AnyCall
  <2>3. rowOf(w) \in Row /\ rowOf(w) = sent[calls[w].ref].row
    BY <1>0, <2>1, RowOfType
  <2>4. PICK e : e.row = rowOf(w) /\ e.ref = calls[w].ref /\ events' = events \cup {e}
    BY <2>1, <2>3, AppendedEvent
  <2>5. EventTellsMail'
    BY <2>1, <2>3, <2>4 DEF EventTellsMail
  <2>6. calls'[w].step = "write" => \E f \in events' : f.row = sent[calls'[w].ref].row
    BY <2>2, <2>3, <2>4
  <2>7. QED
    BY <2>1, <2>2, <2>4, <2>5, <2>6, CallsMoveOn
<1>9. QED
  BY <1>1, <1>5, <1>6, <1>7, <1>8 DEF CallsStep, DeliveryProgress

(* One more mail, under a ref of its own. *)
posted(k, to, kind) ==
  /\ DOMAIN sent' = DOMAIN sent \cup {Len(sent')} /\ Len(sent') \notin DOMAIN sent
  /\ \A i \in DOMAIN sent : sent'[i] = sent[i]
  /\ sent'[Len(sent')] = [row |-> k, to |-> to, kind |-> kind]

LEMMA PostPosts ==
  ASSUME sent \in Seq(Mail), NEW c \in Customer, NEW v \in Version, NEW to \in Address,
         NEW kind \in Kind, post(c, v, to, kind)
  PROVE  posted(<<c, v>>, to, kind)
BY PostEffect DEF posted

LEMMA MailerPosts ==
  ASSUME Typed, NEW m \in Mailer, MailerStep(m), ~MailerSend(m)
  PROVE  UNCHANGED <<events, sent>>
BY DEF MailerStep, MailerProgress, MailerFind, MailerClaim, MailerRecord, MailerFails, mailTables

LEMMA MailerSendPosts ==
  ASSUME Typed, NEW m \in Mailer, NEW t \in mailers[m].to,
         post(t[1][1], t[1][2], t[2], "ROLLOUT")
  PROVE  t \in Row \X Address /\ posted(t[1], t[2], "ROLLOUT")
<1>1. /\ sent \in Seq(Mail) /\ mailers[m] \in MailerRun
  BY TypedParts, OutreachParts DEF MailTablesOK, RunsOK
<1>2. /\ t \in Row \X Address /\ t[1][1] \in Customer /\ t[1][2] \in Version
      /\ t[2] \in Address /\ <<t[1][1], t[1][2]>> = t[1]
  BY <1>1 DEF MailerRun, Row
<1>3. "ROLLOUT" \in Kind
  BY DEF Kind
<1>4. posted(<<t[1][1], t[1][2]>>, t[2], "ROLLOUT")
  BY <1>1, <1>2, <1>3, PostPosts
<1>5. QED
  BY <1>2, <1>4

LEMMA ReminderPosts ==
  ASSUME Typed, NEW r \in Reminder, RemindStep(r)
  PROVE  /\ UNCHANGED events
         /\ UNCHANGED sent \/ \E k \in Row, to \in Address : posted(k, to, "REMINDER")
<1>1. CASE RemindSend(r)
  <2>1. PICK d \in reminders[r].cur : post(d.customer, d.version, d.to, "REMINDER")
    BY <1>1 DEF RemindSend
  <2>2. sent \in Seq(Mail) /\ reminders[r] \in ReminderRun
    BY TypedParts, OutreachParts DEF MailTablesOK, RunsOK
  <2>3. d.customer \in Customer /\ d.version \in Version /\ d.to \in Address
    BY <2>2 DEF ReminderRun, Candidate
  <2>4. posted(<<d.customer, d.version>>, d.to, "REMINDER")
    BY <2>1, <2>2, <2>3, PostEffect DEF posted, Kind
  <2>5. QED
    BY <1>1, <2>3, <2>4 DEF RemindSend, Row
<1>2. CASE RemindFind(r) \/ RemindTake(r) \/ RemindRecord(r) \/ RemindWrite(r)
             \/ RemindDies(r) \/ RemindEnd(r)
  <2>1. RemindWrite(r) => UNCHANGED <<sent, events>>
    BY DEF RemindWrite, mailTables
  <2>2. RemindFind(r) \/ RemindRecord(r) => UNCHANGED <<sent, events>>
    BY DEF RemindFind, RemindRecord, mailTables
  <2>3. RemindTake(r) => UNCHANGED <<sent, events>>
    BY DEF RemindTake, mailTables
  <2>4. RemindDies(r) \/ RemindEnd(r) => UNCHANGED <<sent, events>>
    BY DEF RemindDies, RemindEnd, mailTables
  <2>5. QED
    BY <1>2, <2>1, <2>2, <2>3, <2>4
<1>3. QED
  BY <1>1, <1>2 DEF RemindStep, RemindProgress

LEMMA DeskPosts ==
  ASSUME Typed, NEW a \in Admin, DeskStep(a)
  PROVE  /\ UNCHANGED events
         /\ \/ UNCHANGED sent
            \/ \E k \in Row, to \in Address, kind \in {"REMINDER", "RENOTICE"} :
                 posted(k, to, kind)
<1> USE DEF storeVars, outreachVars, mailTables
<1>1. CASE DeskMail(a)
  <2> DEFINE kind == IF desk[a].row.deadlineAt # None THEN "REMINDER" ELSE "RENOTICE"
  <2>1. PICK to \in desk[a].to : post(desk[a].customer, desk[a].version, to, kind)
    BY <1>1 DEF DeskMail
  <2>2. kind \in {"REMINDER", "RENOTICE"} /\ kind \in Kind
    BY DEF Kind
  <2> HIDE DEF kind
  <2>3. inFlight(a)
    <3>1. desk[a] # DeskIdle /\ desk[a] # DeskDone
      BY <2>1 DEF DeskIdle, DeskDone
    <3>2. QED
      BY <3>1, TypedParts DEF DeskTypeOK, DeskRun, inFlight
  <2>4. sent \in Seq(Mail) /\ desk[a] \in DeskRun
    BY <2>3, TypedParts, OutreachParts, DeskInFlight DEF MailTablesOK
  <2>5. desk[a].customer \in Customer /\ desk[a].version \in Version /\ to \in Address
    BY <2>1, <2>4 DEF DeskRun
  <2>6. posted(<<desk[a].customer, desk[a].version>>, to, kind)
    BY <2>1, <2>2, <2>4, <2>5, PostEffect DEF posted
  <2>7. QED
    BY <1>1, <2>2, <2>5, <2>6 DEF DeskMail, Row
<1>2. CASE ~DeskMail(a)
  BY <1>2 DEF DeskStep, DeskProgress, PatchRead, RemindRead, DeskRecord, DeskSave, DeskDies
<1>3. QED
  BY <1>1, <1>2

LEMMA OutreachPosts ==
  ASSUME Typed, OutreachStep, ~CallsStep
  PROVE  UNCHANGED events /\ \A i \in DOMAIN sent : sent'[i] = sent[i]
<1>1. ASSUME NEW m \in Mailer, MailerStep(m)
      PROVE  UNCHANGED events /\ \A i \in DOMAIN sent : sent'[i] = sent[i]
  <2>1. CASE MailerSend(m)
    BY <2>1, MailerSendPosts DEF MailerSend, posted
  <2>2. CASE ~MailerSend(m)
    BY <1>1, <2>2, MailerPosts
  <2>3. QED
    BY <2>1, <2>2
<1>2. ASSUME NEW r \in Reminder, RemindStep(r)
      PROVE  UNCHANGED events /\ \A i \in DOMAIN sent : sent'[i] = sent[i]
  BY <1>2, ReminderPosts DEF posted
<1>3. QED
  BY <1>1, <1>2 DEF OutreachStep

LEMMA OutreachKeepsAccess ==
  ASSUME Typed, EvidenceHeld, OutreachStep,
         UNCHANGED <<requests, publications, desk, displayVars>>
  PROVE  EvidenceHeld'
<1>0. StoreTypeOK /\ OutreachTypeOK /\ states \in States
  BY TypedParts, StoreTypeParts
<1>1. /\ events \subseteq events' /\ \A i \in DOMAIN sent : sent'[i] = sent[i]
      /\ EventTellsMail' /\ CallsEvidenced'
  <2>1. CASE CallsStep
    BY <2>1, CallsKeepEvidence DEF EvidenceHeld
  <2>2. CASE ~CallsStep
    <3>1. UNCHANGED events /\ \A i \in DOMAIN sent : sent'[i] = sent[i]
      BY <2>2, OutreachPosts
    <3>2. UNCHANGED calls
      BY <2>2 DEF OutreachStep, MailerStep, RemindStep
    <3>3. QED
      BY <3>1, <3>2, CallsKept, EventsTellKept DEF EvidenceHeld
  <2>3. QED
    BY <2>1, <2>2
<1>2. \A k \in Row : evidenced(k) => evidenced(k)'
  BY <1>1, EvidenceUntouched
<1>3. ASSUME NEW c \in Customer, NEW v \in Version, states'[c][v].notifiedAt # None
      PROVE  states[c][v].notifiedAt # None \/ evidenced(<<c, v>>)'
  <2>1. states[c][v] \in MaybeRow /\ <<c, v>> \in Row /\ OutreachMove(c, v)
    BY <1>0, OutreachMoves DEF States, Row
  <2>2. ASSUME NEW w \in Webhook \cup Poller, callAt(w, "write"), rowOf(w) = <<c, v>>
        PROVE  evidenced(<<c, v>>)'
    <3>1. hasEvent(<<c, v>>)
      BY <2>2 DEF EvidenceHeld, CallsEvidenced
    <3>2. QED
      BY <1>2, <2>1, <3>1 DEF evidenced
  <2>3. CASE \/ states'[c][v] = cleared(states[c][v])
             \/ states[c][v] # NoRow /\ \E n \in Nat : states'[c][v] = reminded(states[c][v], n)
    BY <1>3, <2>1, <2>3, ClaimedOrReminded
  <2>4. QED
    BY <1>3, <2>1, <2>2, <2>3 DEF OutreachMove
<1>4. NoticesKept
  BY <1>3 DEF NoticesKept
<1>5. AccessIsEvidenced' /\ PublishersEvidenced' /\ DesksEvidenced' /\ DisplayHoldsEvidence'
  BY <1>2, <1>4, AccessKept, PublishersKept, DesksKept, DisplaysKept
  DEF EvidenceHeld, displayVars
<1>6. QED
  BY <1>1, <1>5 DEF EvidenceHeld

LEMMA DeskMailing ==
  ASSUME Typed, NEW a \in Admin, DeskMail(a) \/ DeskRecord(a)
  PROVE  inFlight(a) /\ desk[a] \in DeskRun
<1>1. desk[a].to # {} \/ desk[a].ref # None
  BY DEF DeskMail, DeskRecord
<1>2. desk[a] # DeskIdle /\ desk[a] # DeskDone
  BY <1>1 DEF DeskIdle, DeskDone
<1>3. QED
  BY <1>2, TypedParts DEF DeskTypeOK, DeskRun, inFlight

(* An admin goes on with the row as read, or reads one: what the save is to
   write back is no better noticed, and no less due, than the row was. *)
LEMMA DeskReads ==
  ASSUME Typed, NEW a \in Admin, DeskStep(a)
  PROVE  /\ \A b \in Admin : b # a => desk'[b] = desk[b]
         /\ inFlight(a)' =>
              \/ /\ inFlight(a)
                 /\ desk'[a].customer = desk[a].customer /\ desk'[a].version = desk[a].version
                 /\ desk'[a].row = desk[a].row
              \/ \E c \in Customer, v \in Version :
                   /\ exists(c, v) /\ desk'[a].customer = c /\ desk'[a].version = v
                   /\ desk'[a].row.notifiedAt = states[c][v].notifiedAt
                   /\ desk'[a].row.notificationDue = states[c][v].notificationDue
<1>0. /\ DeskTypeOK /\ desk \in [Admin -> DeskRun \cup {DeskIdle, DeskDone}]
      /\ states \in States
  BY TypedParts, StoreTypeParts DEF DeskTypeOK
<1>1. ASSUME NEW c \in Customer, NEW v \in Version, PatchRead(a, c, v) \/ RemindRead(a, c, v)
      PROVE  /\ \A b \in Admin : b # a => desk'[b] = desk[b]
             /\ exists(c, v) /\ desk'[a].customer = c /\ desk'[a].version = v
             /\ desk'[a].row.notifiedAt = states[c][v].notifiedAt
             /\ desk'[a].row.notificationDue = states[c][v].notificationDue
  <2>1. exists(c, v) /\ states[c][v] \in CustomerVersionState
    BY <1>0, <1>1, RowState DEF PatchRead, RemindRead, exists, States
  <2>2. ASSUME NEW row, NEW step, NEW to, deskStart(a, c, v, step, row, to)
        PROVE  /\ \A b \in Admin : b # a => desk'[b] = desk[b]
               /\ desk'[a].customer = c /\ desk'[a].version = v /\ desk'[a].row = row
    BY <1>0, <2>2 DEF deskStart
  <2>3. CASE PatchRead(a, c, v)
    BY <2>1, <2>2, <2>3, PatchedRow DEF PatchRead
  <2>4. CASE RemindRead(a, c, v)
    <3> DEFINE row == [states[c][v] EXCEPT !.remindersSent = @ + 1]
    <3>1. /\ row.notifiedAt = states[c][v].notifiedAt
          /\ row.notificationDue = states[c][v].notificationDue
      BY <2>1, RemindedRow
    <3>2. deskStart(a, c, v, "mail", row, Contact[c])
      BY <2>4 DEF RemindRead
    <3> HIDE DEF row
    <3>3. QED
      BY <2>1, <2>2, <3>1, <3>2
  <2>5. QED
    BY <1>1, <2>3, <2>4
<1>2. CASE DeskMail(a) \/ DeskRecord(a)
  <2>1. inFlight(a) /\ desk[a] \in DeskRun
    BY <1>2, DeskMailing
  <2>2. CASE DeskMail(a)
    <3>1. PICK to \in desk[a].to :
            desk' = [desk EXCEPT ![a].to = @ \ {to}, ![a].ref = Len(sent')]
      BY <2>2 DEF DeskMail
    <3>2. QED
      BY <1>0, <2>1, <3>1 DEF DeskRun
  <2>3. CASE DeskRecord(a)
    <3>1. desk' = [desk EXCEPT ![a].ref = None]
      BY <2>3 DEF DeskRecord
    <3>2. QED
      BY <1>0, <2>1, <3>1 DEF DeskRun
  <2>4. QED
    BY <1>2, <2>2, <2>3
<1>3. CASE DeskSave(a) \/ DeskDies(a)
  <2>1. desk' = [desk EXCEPT ![a] = DeskDone]
    BY <1>3 DEF DeskSave, DeskDies
  <2>2. ~inFlight(a)'
    BY <1>0, <2>1 DEF inFlight, DeskDone, DeskIdle
  <2>3. QED
    BY <1>0, <2>1, <2>2
<1>4. QED
  BY <1>1, <1>2, <1>3 DEF DeskStep, DeskProgress

LEMMA DeskKeepsAccess ==
  ASSUME Typed, EvidenceHeld, NEW a \in Admin, DeskStep(a),
         UNCHANGED <<requests, publications, displayVars>>
  PROVE  EvidenceHeld'
<1>0. StoreTypeOK /\ DeskTypeOK
  BY TypedParts
<1>1. UNCHANGED <<events, calls>> /\ \A i \in DOMAIN sent : sent'[i] = sent[i]
  <2>1. UNCHANGED events /\ \A i \in DOMAIN sent : sent'[i] = sent[i]
    BY DeskPosts DEF posted
  <2>2. UNCHANGED calls
    BY DEF DeskStep, DeskProgress, PatchRead, RemindRead, DeskMail, DeskRecord, DeskSave,
           DeskDies, outreachVars
  <2>3. QED
    BY <2>1, <2>2
<1>2. \A k \in Row : evidenced(k) => evidenced(k)'
  BY <1>1, EvidenceUntouched
<1>3. ASSUME NEW c \in Customer, NEW v \in Version, states'[c][v].notifiedAt # None
      PROVE  states[c][v].notifiedAt # None \/ evidenced(<<c, v>>)'
  <2>1. DeskMove(a, c, v) /\ <<c, v>> \in Row
    BY <1>0, DeskMoves DEF Row
  <2>2. ASSUME inFlight(a), desk[a].customer = c, desk[a].version = v,
               states'[c][v] = desk[a].row
        PROVE  evidenced(<<c, v>>)'
    <3>1. evidenced(<<c, v>>)
      BY <1>3, <2>2 DEF EvidenceHeld, DesksEvidenced, readEvidenced
    <3>2. QED
      BY <1>2, <2>1, <3>1
  <2>3. QED
    BY <1>3, <2>1, <2>2 DEF DeskMove
<1>4. NoticesKept
  BY <1>3 DEF NoticesKept
<1>5. /\ AccessIsEvidenced' /\ PublishersEvidenced' /\ DisplayHoldsEvidence'
      /\ CallsEvidenced' /\ EventTellsMail'
  BY <1>1, <1>2, <1>4, AccessKept, PublishersKept, DisplaysKept, CallsKept, EventsTellKept
  DEF EvidenceHeld, displayVars
<1>6. DesksEvidenced'
  <2>1. SUFFICES ASSUME NEW b \in Admin, inFlight(b)'
                 PROVE  readEvidenced(desk[b])'
    BY DEF DesksEvidenced
  <2>2. ASSUME NEW c \in Customer, NEW v \in Version,
               desk'[b].customer = c, desk'[b].version = v,
               desk'[b].row.notifiedAt # None => evidenced(<<c, v>>)
        PROVE  readEvidenced(desk[b])'
    <3>1. desk'[b].row.notifiedAt # None => evidenced(<<c, v>>)'
      BY <1>2, <2>2 DEF Row
    <3>2. QED
      BY <2>2, <3>1 DEF readEvidenced, evidenced, hasEvent
  <2>3. CASE /\ inFlight(b)
             /\ desk'[b].customer = desk[b].customer /\ desk'[b].version = desk[b].version
             /\ desk'[b].row = desk[b].row
    <3>1. desk[b].customer \in Customer /\ desk[b].version \in Version
      BY <1>0, <2>3, DeskInFlight DEF DeskRun
    <3>2. desk[b].row.notifiedAt # None => evidenced(<<desk[b].customer, desk[b].version>>)
      BY <2>3 DEF EvidenceHeld, DesksEvidenced, readEvidenced
    <3>3. QED
      BY <2>2, <2>3, <3>1, <3>2
  <2>4. ASSUME b = a, NEW c \in Customer, NEW v \in Version,
               desk'[a].customer = c, desk'[a].version = v,
               desk'[a].row.notifiedAt = states[c][v].notifiedAt
        PROVE  readEvidenced(desk[b])'
    <3>1. states[c][v].notifiedAt # None => evidenced(<<c, v>>)
      BY AccessHolds DEF EvidenceHeld
    <3>2. QED
      BY <2>2, <2>4, <3>1
  <2>5. b # a => inFlight(b) /\ desk'[b] = desk[b]
    BY <2>1, DeskReads DEF inFlight
  <2>6. QED
    BY <2>1, <2>3, <2>4, <2>5, DeskReads
<1>7. QED
  BY <1>5, <1>6 DEF EvidenceHeld

LEMMA InitEvidence == CorrespondenceInit => EvidenceHeld
<1> SUFFICES ASSUME CorrespondenceInit PROVE EvidenceHeld
  OBVIOUS
<1>1. \A k \in Row : states[k[1]][k[2]].notifiedAt = None
  BY DEF CorrespondenceInit, Init, StoreInit, Row, NoRow
<1>2. AccessIsEvidenced /\ EventTellsMail
  BY <1>1 DEF AccessIsEvidenced, EventTellsMail, CorrespondenceInit, OutreachInit
<1>3. DisplayHoldsEvidence
  BY DEF CorrespondenceInit, Init, ApiInit, Idle, at, DisplayInit, NoDisplay,
         DisplayHoldsEvidence
<1>4. PublishersEvidenced /\ DesksEvidenced /\ CallsEvidenced
  BY DEF CorrespondenceInit, Init, PublishInit, publishing, DeskInit, DeskIdle, inFlight,
         OutreachInit, CallIdle, callAt, PublishersEvidenced, DesksEvidenced, CallsEvidenced
<1>5. QED
  BY <1>2, <1>3, <1>4 DEF EvidenceHeld

LEMMA NextEvidence ==
  Typed /\ EvidenceHeld /\ [CorrespondenceNext]_allVars => EvidenceHeld'
<1> SUFFICES ASSUME Typed, EvidenceHeld, [CorrespondenceNext]_allVars PROVE EvidenceHeld'
  OBVIOUS
<1>0. StoreTypeOK /\ SweepTypeOK /\ states \in States
  BY TypedParts, StoreTypeParts
<1>1. CASE UNCHANGED allVars \/ (Clock /\ UNCHANGED <<outreachVars, desk, remarked, displayVars>>)
  <2>1. UNCHANGED <<states, requests, publications, outreachVars, desk, displayVars>>
    BY <1>1 DEF allVars, vars, storeVars, Clock, Tick
  <2>2. QED
    BY <2>1, EvidenceLeftAlone DEF NoticesKept
<1>2. ASSUME NEW s \in Sweeper, Sweep(s), UNCHANGED <<outreachVars, desk, remarked, displayVars>>
      PROVE  EvidenceHeld'
  <2>1. NoticesKept
    BY <1>0, <1>2, SweepMoves, SweepMoveNotice DEF Sweep, NoticesKept
  <2>2. QED
    BY <1>2, <2>1, EvidenceLeftAlone DEF Sweep
<1>3. ASSUME NEW a \in Publisher, Publish(a),
             UNCHANGED <<outreachVars, desk, remarked, displayVars>>
      PROVE  EvidenceHeld'
  BY <1>3, PublishKeepsAccess
<1>4. ASSUME NEW p \in Handler, Serve(p) PROVE EvidenceHeld'
  BY <1>4, ServeKeepsAccess
<1>5. ASSUME OutreachStep, UNCHANGED <<requests, sweeps, publications, desk, remarked, displayVars>>
      PROVE  EvidenceHeld'
  BY <1>5, OutreachKeepsAccess
<1>6. ASSUME NEW a \in Admin, DeskStep(a), UNCHANGED <<requests, sweeps, publications, displayVars>>
      PROVE  EvidenceHeld'
  BY <1>6, DeskKeepsAccess
<1>7. QED
  BY <1>1, <1>2, <1>3, <1>4, <1>5, <1>6 DEF CorrespondenceNext

(* The inductive invariant of the evidence: the rows, and everything that has
   read a row and is still to write it, hold no access without its event. *)
THEOREM EvidenceInvariance == CorrespondenceSpec => []EvidencedInv
<1>1. CorrespondenceInit => EvidenceHeld
  BY InitEvidence
<1>2. Typed /\ EvidenceHeld /\ [CorrespondenceNext]_allVars => EvidenceHeld'
  BY NextEvidence
<1>3. Typed /\ EvidenceHeld => EvidencedInv
  BY EvidencedParts DEF EvidenceHeld
<1>4. QED
  BY <1>1, <1>2, <1>3, AlwaysTyped, PTL DEF CorrespondenceSpec

(* Every access on record can be proved by a NotificationEvent, or its event
   is still to come, or its request is known to have died before. *)
THEOREM AccessProved == CorrespondenceSpec => []AccessIsEvidenced
<1>1. EvidencedInv => AccessIsEvidenced
  BY DEF EvidencedInv
<1>2. QED
  BY <1>1, EvidenceInvariance, PTL

-----------------------------------------------------------------------------
(* A rollout mail goes out once. *)

(* A handler keeps to what it read until it has written. *)
LEMMA AccepterStays ==
  ASSUME StoreTypeOK, ApiTypeOK, \A q \in Handler : mayAccept(q), NEW p \in Handler, ApiStep(p)
  PROVE  \A q \in Handler : mayAccept(q)'
<1>0. OtherRequests(p) /\ states \in States
  BY OneHandlerSteps, StoreTypeParts
<1>1. ASSUME mayAccept(p)' PROVE \A q \in Handler : mayAccept(q)'
  BY <1>0, <1>1 DEF OtherRequests, mayAccept, at
<1>2. ASSUME requests'[p].step \notin {"acceptWrite", "recordWrite"}
      PROVE  \A q \in Handler : mayAccept(q)'
  BY <1>1, <1>2 DEF mayAccept, at
<1>3. CASE finish(p)
  BY <1>2, <1>3, FinishEffect DEF Idle
<1>4. ASSUME NEW c \in Customer, NEW v \in Version, NEW m,
             AcceptStart(p, c, v) \/ ObjectRead(p, c, v) \/ NotifyRead(p, c, v)
      PROVE  \A q \in Handler : mayAccept(q)'
  <2>1. CASE AcceptStart(p, c, v)
    BY <1>2, <2>1, StartEffect DEF AcceptStart
  <2>2. CASE ObjectRead(p, c, v)
    BY <1>2, <2>2, StartEffect DEF ObjectRead
  <2>3. CASE NotifyRead(p, c, v)
    BY <1>2, <2>3, StartEffect DEF NotifyRead
  <2>4. QED
    BY <1>4, <2>1, <2>2, <2>3
<1>5. ASSUME NEW c \in Customer, NEW v \in Version, NEW m, RecordRead(p, c, v, m)
      PROVE  \A q \in Handler : mayAccept(q)'
  <2> DEFINE row == states[c][v]
             step == IF row = NoRow THEN "recordCreate" ELSE "recordWrite"
  <2>1. (row = NoRow \/ acceptable(row)) /\ start(p, step, c, v, row, m)
    BY <1>5 DEF RecordRead
  <2> HIDE DEF row
  <2>2. requests'[p].step = step /\ requests'[p].row = row
    BY <2>1, StartEffect
  <2>3. mayAccept(p)'
    BY <2>1, <2>2 DEF mayAccept, at
  <2>4. QED
    BY <1>1, <2>3
<1>6. CASE AcceptRead(p)
  <2>1. requests[p] \in Request
    BY <1>6, RequestInFlight DEF AcceptRead, Step
  <2> DEFINE row == states[requests[p].customer][requests[p].version]
  <2>2. \/ finish(p)
        \/ /\ row = NoRow \/ acceptable(row)
           /\ requests' = [requests EXCEPT ![p].step = "acceptWrite", ![p].row = row]
    BY <1>6 DEF AcceptRead
  <2> HIDE DEF row
  <2>3. ASSUME row = NoRow \/ acceptable(row),
               requests' = [requests EXCEPT ![p].step = "acceptWrite", ![p].row = row]
        PROVE  \A q \in Handler : mayAccept(q)'
    <3>1. requests'[p].step = "acceptWrite" /\ requests'[p].row = row
      BY <2>1, <2>3, GotoWithRowEffect
    <3>2. mayAccept(p)'
      BY <2>3, <3>1 DEF mayAccept, at
    <3>3. QED
      BY <1>1, <3>2
  <2>4. QED
    BY <1>3, <2>2, <2>3
<1>7. CASE RecordCreate(p)
  <2>1. requests[p] \in Request
    BY <1>7, RequestInFlight DEF RecordCreate, Step
  <2>2. CASE finish(p)
    BY <1>3, <2>2
  <2>3. CASE requests' = [requests EXCEPT ![p].step = "recordWrite", ![p].row = PendingRow(None)]
    <3>1. requests'[p].step = "recordWrite" /\ requests'[p].row = PendingRow(None)
      BY <2>1, <2>3, GotoWithRowEffect
    <3>2. acceptable(PendingRow(None))
      BY DEF acceptable, ACCEPTABLE_FROM, PendingRow, NoRow
    <3>3. mayAccept(p)'
      BY <3>1, <3>2 DEF mayAccept, at
    <3>4. QED
      BY <1>1, <3>3
  <2>4. QED
    BY <1>7, <2>2, <2>3 DEF RecordCreate
<1>8. CASE AcceptWrite(p) \/ RecordWrite(p) \/ ObjectWrite(p)
  <2>1. requests[p] \in Request
    BY <1>8, RequestInFlight DEF AcceptWrite, RecordWrite, ObjectWrite, Step
  <2>2. finish(p) \/ goto(p, "appendAcceptance") \/ goto(p, "appendObjection")
    BY <1>8 DEF AcceptWrite, RecordWrite, ObjectWrite
  <2>3. QED
    BY <1>2, <1>3, <2>1, <2>2, GotoEffect
<1>9. CASE AcceptanceAppend(p) \/ ObjectionAppend(p) \/ NotifyWrite(p) \/ HandlerDies(p)
  BY <1>3, <1>9 DEF AcceptanceAppend, ObjectionAppend, NotifyWrite, HandlerDies
<1>10. QED
  BY <1>4, <1>5, <1>6, <1>7, <1>8, <1>9 DEF ApiStep, ApiStart, ApiProgress

(* A row stays, and a spent marker stays spent but for an admin's save. *)
MarkerStands(c, v) ==
  LET r == states[c][v]
      t == states'[c][v]
  IN /\ r # NoRow => t # NoRow
     /\ r # NoRow /\ (~r.notificationDue \/ r.state = "SUPERSEDED") =>
          \/ t # NoRow /\ (~t.notificationDue \/ t.state = "SUPERSEDED")
          \/ <<c, v>> \in remarked'

LEMMA SameMarker ==
  ASSUME NEW c, NEW v, states'[c][v].notificationDue => states[c][v].notificationDue,
         states[c][v] # NoRow => states'[c][v] # NoRow,
         states[c][v].state = "SUPERSEDED" => states'[c][v].state = "SUPERSEDED"
  PROVE  MarkerStands(c, v)
BY DEF MarkerStands

LEMMA MadeStateMarker ==
  ASSUME NEW r \in CustomerVersionState, NEW to \in CvsState
  PROVE  /\ madeState(r, to).notificationDue = r.notificationDue
         /\ madeState(r, to).state = to /\ madeState(r, to) # NoRow
BY DEF madeState, CustomerVersionState, CvsState, NoRow

LEMMA MadeNotifiedMarker ==
  ASSUME NEW r \in CustomerVersionState, NEW u, u.state \in CvsState
  PROVE  /\ madeNotified(r, u).notificationDue = r.notificationDue
         /\ madeNotified(r, u) # NoRow
BY DEF madeNotified, CustomerVersionState, CvsState, NoRow

LEMMA ApiMoveMarker ==
  ASSUME states \in States, StaySuperseded, NEW p \in Handler, HoldsRow(p),
         NEW c \in Customer, NEW v \in Version, ApiMove(p, c, v)
  PROVE  MarkerStands(c, v)
<1> DEFINE r == states[c][v]
           t == states'[c][v]
<1>1. r \in MaybeRow /\ (r.state = "SUPERSEDED" => t.state = "SUPERSEDED")
  BY DEF States, StaySuperseded
<1>2. CASE r = NoRow
  BY <1>2 DEF MarkerStands
<1>3. CASE r # NoRow
  <2>1. r \in CustomerVersionState
    BY <1>1, <1>3, RowState
  <2>2. ASSUME at(p, "notifyWrite"), requests[p].customer = c, requests[p].version = v,
               r.state = "PENDING_NOTIFICATION", t = madeNotified(r, requests[p].row)
        PROVE  t.notificationDue = r.notificationDue /\ t # NoRow
    <3>1. requests[p].row.state \in CvsState
      BY <2>2 DEF HoldsRow
    <3>2. QED
      BY <2>1, <2>2, <3>1, MadeNotifiedMarker
  <2>3. t.notificationDue = r.notificationDue /\ t # NoRow
    BY <1>3, <2>1, <2>2, MadeStateMarker DEF ApiMove, CvsState
  <2>4. QED
    BY <1>1, <2>3, SameMarker
<1>4. QED
  BY <1>2, <1>3

LEMMA SweepMoveMarker ==
  ASSUME states \in States, StaySuperseded, NEW s \in Sweeper,
         NEW c \in Customer, NEW v \in Version, SweepMove(s, c, v)
  PROVE  MarkerStands(c, v)
<1> DEFINE r == states[c][v]
           t == states'[c][v]
<1>1. r \in MaybeRow /\ (r.state = "SUPERSEDED" => t.state = "SUPERSEDED")
  BY DEF States, StaySuperseded
<1>2. CASE r = NoRow
  BY <1>2 DEF MarkerStands
<1>3. CASE r # NoRow
  <2>1. r \in CustomerVersionState
    BY <1>1, <1>3, RowState
  <2>2. t.notificationDue = r.notificationDue /\ t # NoRow
    BY <1>3, <2>1, MadeStateMarker DEF SweepMove, CvsState
  <2>3. QED
    BY <1>1, <2>2, SameMarker
<1>4. QED
  BY <1>2, <1>3

LEMMA PublishMoveMarker ==
  ASSUME states \in States, NEW a \in Publisher, publications[a] \in Publication,
         NEW c \in Customer, NEW v \in Version, PublishMove(a, c, v)
  PROVE  MarkerStands(c, v)
<1>1. ASSUME NEW d \in publications[a].open, states'[c][v] = supersede(d.row)
      PROVE  states'[c][v] # NoRow /\ states'[c][v].state = "SUPERSEDED"
  <2>1. d.row \in CustomerVersionState
    BY DEF Publication, Snapshot
  <2>2. supersede(d.row).state = "SUPERSEDED"
    BY <2>1 DEF supersede, CustomerVersionState
  <2>3. QED
    BY <1>1, <2>2 DEF NoRow
<1>2. QED
  BY <1>1 DEF PublishMove, MarkerStands

LEMMA OutreachMoveMarker ==
  ASSUME Typed, NEW c \in Customer, NEW v \in Version, OutreachMove(c, v)
  PROVE  MarkerStands(c, v)
<1> DEFINE r == states[c][v]
           t == states'[c][v]
<1>1. r \in MaybeRow /\ now \in Nat /\ calls \in [Webhook \cup Poller -> Call]
  BY TypedParts, StoreTypeParts, OutreachParts DEF States, RunsOK
<1>2. CASE t = cleared(r) \/ (r # NoRow /\ \E n \in Nat : t = reminded(r, n))
  BY <1>1, <1>2, ClaimedOrReminded, SameMarker
<1>3. ASSUME NEW w \in Webhook \cup Poller, callAt(w, "write"),
             r.state = "PENDING_NOTIFICATION", t = madeNotified(r, accessOf(w, v))
      PROVE  MarkerStands(c, v)
  <2>1. calls[w].row \in CustomerVersionState
    BY <1>1, <1>3, CallCases
  <2>2. accessOf(w, v).state \in CvsState
    BY <1>1, <2>1, AccessType DEF accessOf
  <2>3. r \in CustomerVersionState
    BY <1>1, <1>3, StateOfRow DEF CvsState
  <2>4. t.notificationDue = r.notificationDue /\ t # NoRow
    BY <1>3, <2>2, <2>3, MadeNotifiedMarker
  <2>5. QED
    BY <1>3, <2>4, SameMarker
<1>4. QED
  BY <1>2, <1>3 DEF OutreachMove, MarkerStands

LEMMA DeskMarker ==
  ASSUME Typed, NEW a \in Admin, DeskStep(a), NEW c \in Customer, NEW v \in Version
  PROVE  MarkerStands(c, v)
<1>0. StoreTypeOK /\ DeskTypeOK
  BY TypedParts
<1>1. CASE states'[c][v] = states[c][v]
  BY <1>1 DEF MarkerStands
<1>2. CASE states'[c][v] # states[c][v]
  <2>1. /\ inFlight(a) /\ desk[a].customer = c /\ desk[a].version = v
        /\ states'[c][v] = desk[a].row
    BY <1>0, <1>2, DeskMoves DEF DeskMove
  <2>2. DeskSave(a)
    BY <1>2 DEF DeskStep, DeskProgress, PatchRead, RemindRead, DeskMail, DeskRecord, DeskDies,
                storeVars
  <2>3. desk[a].row \in CustomerVersionState
    BY <1>0, <2>1, DeskInFlight DEF DeskRun
  <2>4. desk[a].row # NoRow
    BY <2>3 DEF CustomerVersionState, NoRow, CvsState
  <2>5. desk[a].row.notificationDue /\ markerSpent(c, v) => <<c, v>> \in remarked'
    BY <2>1, <2>2 DEF DeskSave
  <2>6. QED
    BY <2>1, <2>4, <2>5 DEF MarkerStands, markerSpent, exists
<1>3. QED
  BY <1>1, <1>2

(* The parts of the invariant: who has been mailed, and what the job holds. *)
MailedAreSpent == \A k \in Row : mailedOut(k) => k \in remarked \/ markerSpent(k[1], k[2])
dueUnmailed(due, to) ==
  \A k \in due :
    /\ exists(k[1], k[2])
    /\ mailedOut(k) => k \in remarked
    /\ \A t \in to : t[1] # k
toUnmailed(to) ==
  \A t \in to : t[1] \in remarked \/ (markerSpent(t[1][1], t[1][2]) /\ ~mailedTo(t))
JobsHold ==
  \A m \in Mailer : dueUnmailed(mailers[m].due, mailers[m].to) /\ toUnmailed(mailers[m].to)
Accepters == \A p \in Handler : mayAccept(p)

LEMMA MailedOnceParts ==
  MailedOnceInv <=> RolloutMailOnce /\ Accepters /\ MailedAreSpent /\ JobsHold
BY DEF MailedOnceInv, Accepters, MailedAreSpent, JobsHold, dueUnmailed, toUnmailed

MarkersStand ==
  /\ remarked \subseteq remarked'
  /\ \A c \in Customer, v \in Version : MarkerStands(c, v)
NoRolloutMore ==
  \A i \in DOMAIN sent' :
    sent'[i].kind = "ROLLOUT" => i \in DOMAIN sent /\ sent'[i] = sent[i]

LEMMA MarkersOfRows ==
  ASSUME MarkersStand, NEW k \in Row
  PROVE  /\ exists(k[1], k[2]) => exists(k[1], k[2])'
         /\ markerSpent(k[1], k[2]) => markerSpent(k[1], k[2])' \/ k \in remarked'
<1>1. k[1] \in Customer /\ k[2] \in Version /\ k = <<k[1], k[2]>>
  BY DEF Row
<1>2. MarkerStands(k[1], k[2])
  BY <1>1 DEF MarkersStand
<1>3. QED
  BY <1>1, <1>2 DEF MarkerStands, markerSpent, exists

LEMMA NothingMailed ==
  ASSUME NoRolloutMore
  PROVE  /\ \A k : mailedOut(k)' => mailedOut(k)
         /\ \A t : mailedTo(t)' => mailedTo(t)
BY DEF NoRolloutMore, mailedOut, mailedTo

LEMMA OnceStands ==
  ASSUME RolloutMailOnce, MailedAreSpent, MarkersStand, NoRolloutMore
  PROVE  RolloutMailOnce' /\ MailedAreSpent'
<1>1. RolloutMailOnce'
  BY DEF RolloutMailOnce, NoRolloutMore, MarkersStand
<1>2. ASSUME NEW k \in Row, mailedOut(k)' PROVE k \in remarked' \/ markerSpent(k[1], k[2])'
  <2>1. k \in remarked \/ markerSpent(k[1], k[2])
    BY <1>2, NothingMailed DEF MailedAreSpent
  <2>2. QED
    BY <2>1, MarkersOfRows DEF MarkersStand
<1>3. QED
  BY <1>1, <1>2 DEF MailedAreSpent

LEMMA DueStands ==
  ASSUME MarkersStand, NoRolloutMore, NEW due \in SUBSET Row, NEW to, dueUnmailed(due, to)
  PROVE  dueUnmailed(due, to)'
<1>1. ASSUME NEW k \in due
      PROVE  exists(k[1], k[2])' /\ (mailedOut(k)' => k \in remarked')
  BY MarkersOfRows, NothingMailed DEF dueUnmailed, MarkersStand
<1>2. QED
  BY <1>1 DEF dueUnmailed

LEMMA ToStands ==
  ASSUME MarkersStand, NoRolloutMore, NEW to \in SUBSET (Row \X Address), toUnmailed(to)
  PROVE  toUnmailed(to)'
<1>1. ASSUME NEW t \in to
      PROVE  t[1] \in remarked' \/ (markerSpent(t[1][1], t[1][2])' /\ ~mailedTo(t)')
  <2>1. t[1] \in Row
    OBVIOUS
  <2>2. QED
    BY <2>1, MarkersOfRows, NothingMailed DEF toUnmailed, MarkersStand
<1>2. QED
  BY <1>1 DEF toUnmailed

LEMMA JobsStand ==
  ASSUME Typed, JobsHold, MarkersStand, NoRolloutMore, UNCHANGED mailers
  PROVE  JobsHold'
<1>1. \A m \in Mailer : mailers[m] \in MailerRun
  BY TypedParts, OutreachParts DEF RunsOK
<1>2. ASSUME NEW m \in Mailer
      PROVE  dueUnmailed(mailers[m].due, mailers[m].to)' /\ toUnmailed(mailers[m].to)'
  <2> DEFINE due == mailers[m].due
             to == mailers[m].to
  <2>1. due \in SUBSET Row /\ to \in SUBSET (Row \X Address)
    BY <1>1 DEF MailerRun
  <2>2. dueUnmailed(due, to) /\ toUnmailed(to) /\ UNCHANGED <<due, to>>
    BY DEF JobsHold
  <2>3. QED
    BY <2>1, <2>2, DueStands, ToStands
<1>3. QED
  BY <1>2 DEF JobsHold

LEMMA OneJob ==
  ASSUME NEW m \in Mailer, \A n \in Mailer : n = m, NEW due, NEW to,
         mailers'[m].due = due, mailers'[m].to = to, dueUnmailed(due, to)', toUnmailed(to)'
  PROVE  JobsHold'
BY DEF JobsHold, dueUnmailed, toUnmailed

LEMMA NoMail ==
  ASSUME UNCHANGED sent
  PROVE  NoRolloutMore
BY DEF NoRolloutMore

LEMMA NobodyToMail ==
  /\ toUnmailed({})
  /\ \A due : dueUnmailed({}, due)
BY DEF toUnmailed, dueUnmailed

(* The mail of t is the one that goes out. *)
LEMMA RolloutPosted ==
  ASSUME NEW t \in Row \X Address, posted(t[1], t[2], "ROLLOUT")
  PROVE  /\ \A k : mailedOut(k)' => mailedOut(k) \/ k = t[1]
         /\ \A u \in Row \X Address : mailedTo(u)' => mailedTo(u) \/ u = t
<1>1. ASSUME NEW k, mailedOut(k)' PROVE mailedOut(k) \/ k = t[1]
  <2>1. PICK i \in DOMAIN sent' : sent'[i].row = k /\ sent'[i].kind = "ROLLOUT"
    BY <1>1 DEF mailedOut
  <2>2. CASE i \in DOMAIN sent
    BY <2>1, <2>2 DEF posted, mailedOut
  <2>3. CASE i = Len(sent')
    BY <2>1, <2>3 DEF posted
  <2>4. QED
    BY <2>2, <2>3 DEF posted
<1>2. ASSUME NEW u \in Row \X Address, mailedTo(u)' PROVE mailedTo(u) \/ u = t
  <2>1. PICK i \in DOMAIN sent' : sent'[i] = [row |-> u[1], to |-> u[2], kind |-> "ROLLOUT"]
    BY <1>2 DEF mailedTo
  <2>2. CASE i \in DOMAIN sent
    BY <2>1, <2>2 DEF posted, mailedTo
  <2>3. CASE i = Len(sent')
    <3>1. u[1] = t[1] /\ u[2] = t[2]
      BY <2>1, <2>3 DEF posted
    <3>2. QED
      BY <3>1
  <2>4. QED
    BY <2>2, <2>3 DEF posted
<1>3. QED
  BY <1>1, <1>2

LEMMA MailerFindsUnmailed ==
  ASSUME Typed, MailedAreSpent, NEW due \in SUBSET findDueForNotification
  PROVE  due \subseteq Row /\ dueUnmailed(due, {})
<1>1. ASSUME NEW k \in due
      PROVE  k \in Row /\ exists(k[1], k[2]) /\ (mailedOut(k) => k \in remarked)
  <2>1. /\ k \in Row /\ states[k[1]][k[2]].state = "PENDING_NOTIFICATION"
        /\ states[k[1]][k[2]].notificationDue
    BY <1>1 DEF findDueForNotification
  <2>2. exists(k[1], k[2])
    BY <2>1 DEF exists, NoRow
  <2>3. ~markerSpent(k[1], k[2])
    BY <2>1 DEF markerSpent
  <2>4. QED
    BY <2>1, <2>2, <2>3 DEF MailedAreSpent
<1>2. QED
  BY <1>1 DEF dueUnmailed

(* The one rollout job claims a row before it mails anybody about it. *)
LEMMA MailerKeepsOnce ==
  ASSUME Typed, RolloutMailOnce, MailedAreSpent, JobsHold, MarkersStand,
         NEW m \in Mailer, \A n \in Mailer : n = m, MailerStep(m)
  PROVE  RolloutMailOnce' /\ MailedAreSpent' /\ JobsHold'
<1> DEFINE due == mailers[m].due
           to == mailers[m].to
<1>0. /\ states \in States /\ sent \in Seq(Mail) /\ mailers \in [Mailer -> MailerRun]
      /\ due \in SUBSET Row /\ to \in SUBSET (Row \X Address)
      /\ dueUnmailed(due, to) /\ toUnmailed(to)
  BY TypedParts, StoreTypeParts, OutreachParts DEF RunsOK, MailTablesOK, MailerRun, JobsHold
<1>1. ASSUME UNCHANGED sent PROVE RolloutMailOnce' /\ MailedAreSpent' /\ NoRolloutMore
  BY <1>1, NoMail, OnceStands
<1>2. ASSUME UNCHANGED sent, NEW d \in SUBSET Row, NEW t \in SUBSET (Row \X Address),
             mailers'[m].due = d, mailers'[m].to = t, dueUnmailed(d, t), toUnmailed(t)
      PROVE  RolloutMailOnce' /\ MailedAreSpent' /\ JobsHold'
  BY <1>1, <1>2, DueStands, ToStands, OneJob
<1>3. CASE MailerFind(m)
  <2>1. PICK d \in SUBSET findDueForNotification : mailers' = [mailers EXCEPT ![m].due = d]
    BY <1>3 DEF MailerFind
  <2>2. d \in SUBSET Row /\ dueUnmailed(d, {})
    BY MailerFindsUnmailed
  <2>3. mailers[m].to = {}
    BY <1>3 DEF MailerFind, MailerIdle
  <2>4. mailers[m] \in MailerRun
    BY <1>0
  <2>5. mailers'[m].due = d /\ mailers'[m].to = {}
    BY <1>0, <2>1, <2>3, <2>4 DEF MailerRun
  <2>6. QED
    BY <1>2, <1>3, <2>2, <2>5, NobodyToMail DEF MailerFind, mailTables
<1>4. CASE MailerClaim(m)
  <2>1. PICK k \in due :
          /\ to = {} /\ clearNotificationDue(k[1], k[2])
          /\ mailers' = [mailers EXCEPT ![m] =
               [due |-> @.due \ {k}, ref |-> None,
                to |-> {k} \X IF k[1] \in Deleted THEN {} ELSE Contact[k[1]]]]
    BY <1>4 DEF MailerClaim
  <2> DEFINE some == IF k[1] \in Deleted THEN {} ELSE Contact[k[1]]
  <2>a. PICK d, ts : d = due \ {k} /\ ts = {k} \X some
    OBVIOUS
  <2>2. k \in Row /\ k[1] \in Customer /\ k[2] \in Version
    BY <1>0 DEF Row
  <2>3. some \subseteq Address
    BY <2>2, ContactsAreAddresses
  <2>4. mailers'[m].due = d /\ mailers'[m].to = ts
    BY <1>0, <2>1, <2>a
  <2> HIDE DEF some
  <2>5. d \in SUBSET Row /\ ts \in SUBSET (Row \X Address) /\ \A t \in ts : t[1] = k
    BY <1>0, <2>2, <2>3, <2>a
  <2>6. dueUnmailed(d, ts)
    BY <1>0, <2>5, <2>a DEF dueUnmailed
  <2>7. UNCHANGED sent
    BY <1>4 DEF MailerClaim, mailTables
  <2>8. dueUnmailed(d, ts)'
    BY <1>1, <2>5, <2>6, <2>7, DueStands
  <2>9. toUnmailed(ts)'
    <3>1. exists(k[1], k[2]) /\ (mailedOut(k) => k \in remarked)
      BY <1>0 DEF dueUnmailed
    <3>2. markerSpent(k[1], k[2])'
      <4>1. states[k[1]][k[2]] \in MaybeRow /\ states[k[1]][k[2]] # NoRow
        BY <1>0, <2>2, <3>1 DEF States, exists
      <4>2. states'[k[1]][k[2]] = cleared(states[k[1]][k[2]])
        BY <1>0, <2>1, <2>2 DEF clearNotificationDue, cleared, States
      <4>3. ~states'[k[1]][k[2]].notificationDue /\ states'[k[1]][k[2]] # NoRow
        BY <4>1, <4>2, ClearedRow
      <4>4. QED
        BY <4>3 DEF markerSpent, exists
    <3>3. \A t \in ts : mailedTo(t)' => mailedOut(k)
      BY <2>5, <2>7 DEF mailedTo, mailedOut
    <3>4. k \in remarked => k \in remarked'
      BY DEF MarkersStand
    <3>5. \A t \in ts :
            t[1] \in remarked' \/ (markerSpent(t[1][1], t[1][2])' /\ ~mailedTo(t)')
      BY <2>5, <3>1, <3>2, <3>3, <3>4
    <3>6. QED
      BY <3>5 DEF toUnmailed
  <2>10. JobsHold'
    BY <2>4, <2>8, <2>9, OneJob
  <2>11. QED
    BY <1>1, <2>7, <2>10
<1>5. CASE MailerSend(m)
  <2>1. PICK t \in to :
          /\ post(t[1][1], t[1][2], t[2], "ROLLOUT")
          /\ mailers' = [mailers EXCEPT ![m].to = @ \ {t}, ![m].ref = Len(sent')]
    BY <1>5 DEF MailerSend
  <2>2. t \in Row \X Address /\ posted(t[1], t[2], "ROLLOUT")
    BY <2>1, MailerSendPosts
  <2>3. mailers[m] \in MailerRun
    BY <1>0
  <2>4. mailers'[m].due = due /\ mailers'[m].to = to \ {t}
    BY <1>0, <2>1, <2>3 DEF MailerRun
  <2>5. t[1] \in remarked \/ (markerSpent(t[1][1], t[1][2]) /\ ~mailedTo(t))
    BY <1>0 DEF toUnmailed
  <2>6. UNCHANGED states
    BY <1>5 DEF MailerSend, storeVars
  <2>7. RolloutMailOnce'
    <3>1. SUFFICES ASSUME NEW i \in DOMAIN sent', NEW j \in DOMAIN sent', i # j,
                          sent'[i] = sent'[j], sent'[i].kind = "ROLLOUT"
                   PROVE  sent'[i].row \in remarked'
      BY DEF RolloutMailOnce
    <3>2. CASE i \in DOMAIN sent /\ j \in DOMAIN sent
      BY <2>2, <3>1, <3>2 DEF posted, RolloutMailOnce, MarkersStand
    <3>3. ASSUME NEW n \in DOMAIN sent, sent[n] = sent'[Len(sent')]
          PROVE  sent'[Len(sent')].row \in remarked'
      <4>1. sent'[Len(sent')] = [row |-> t[1], to |-> t[2], kind |-> "ROLLOUT"]
        BY ONLY <2>2, Zenon DEF posted
      <4>2. mailedTo(t)
        BY <3>3, <4>1 DEF mailedTo
      <4>3. QED
        BY <2>5, <4>1, <4>2 DEF MarkersStand
    <3>4. QED
      BY <2>2, <3>1, <3>2, <3>3 DEF posted
  <2>8. MailedAreSpent'
    <3>1. SUFFICES ASSUME NEW k \in Row, mailedOut(k)'
                   PROVE  k \in remarked' \/ markerSpent(k[1], k[2])'
      BY DEF MailedAreSpent
    <3>2. k \in remarked \/ markerSpent(k[1], k[2])
      BY <2>2, <2>5, <3>1, RolloutPosted DEF MailedAreSpent
    <3>3. QED
      BY <3>2, MarkersOfRows DEF MarkersStand
  <2>9. JobsHold'
    <3>b. PICK d, ts : d = due /\ ts = to \ {t}
      OBVIOUS
    <3>0. /\ d \in SUBSET Row /\ ts \in SUBSET (Row \X Address) /\ ts \subseteq to
          /\ \A u \in ts : u # t
          /\ dueUnmailed(d, to) /\ toUnmailed(ts)
      BY <1>0, <3>b DEF toUnmailed
    <3>a. mailers'[m].due = d /\ mailers'[m].to = ts
      BY <2>4, <3>b
    <3>1. \A k \in d :
            /\ exists(k[1], k[2])' /\ (mailedOut(k)' => k \in remarked')
            /\ \A u \in ts : u[1] # k
      BY <2>2, <2>6, <3>0, RolloutPosted DEF dueUnmailed, exists, MarkersStand
    <3>2. \A u \in ts :
            u[1] \in remarked' \/ (markerSpent(u[1][1], u[1][2])' /\ ~mailedTo(u)')
      BY <2>2, <2>6, <3>0, RolloutPosted DEF toUnmailed, markerSpent, exists, MarkersStand
    <3>3. dueUnmailed(d, ts)' /\ toUnmailed(ts)'
      BY <3>1, <3>2 DEF dueUnmailed, toUnmailed
    <3>4. QED
      BY <3>a, <3>3, OneJob
  <2>10. QED
    BY <2>7, <2>8, <2>9
<1>6. CASE MailerRecord(m)
  <2>1. mailers' = [mailers EXCEPT ![m].ref = None] /\ UNCHANGED sent
    BY <1>6 DEF MailerRecord
  <2>2. mailers[m] \in MailerRun
    BY <1>0
  <2>3. mailers'[m].due = due /\ mailers'[m].to = to
    BY <1>0, <2>1, <2>2 DEF MailerRun
  <2>4. QED
    BY <1>0, <1>2, <2>1, <2>3
<1>7. CASE MailerFails(m)
  <2>1. PICK d \in {due, {}} : mailers' = [mailers EXCEPT ![m] = [MailerIdle EXCEPT !.due = d]]
    BY <1>7 DEF MailerFails
  <2>2. mailers'[m].due = d /\ mailers'[m].to = {}
    BY <1>0, <2>1 DEF MailerIdle
  <2>3. d \in SUBSET Row /\ dueUnmailed(d, {})
    BY <1>0, <2>1 DEF dueUnmailed
  <2>4. QED
    BY <1>2, <1>7, <2>2, <2>3, NobodyToMail DEF MailerFails, mailTables
<1>8. QED
  BY <1>3, <1>4, <1>5, <1>6, <1>7 DEF MailerStep, MailerProgress

LEMMA RolloutMailedByJob ==
  ASSUME NEW k, NEW to, NEW kind \in {"REMINDER", "RENOTICE"}, posted(k, to, kind)
  PROVE  NoRolloutMore
<1>1. /\ DOMAIN sent' = DOMAIN sent \cup {Len(sent')}
      /\ \A i \in DOMAIN sent : sent'[i] = sent[i]
      /\ sent'[Len(sent')] = [row |-> k, to |-> to, kind |-> kind]
  BY ONLY posted(k, to, kind), Zenon DEF posted
<1>2. ASSUME NEW i \in DOMAIN sent', sent'[i].kind = "ROLLOUT"
      PROVE  i \in DOMAIN sent /\ sent'[i] = sent[i]
  <2>1. CASE i \in DOMAIN sent
    BY <1>1, <2>1, Zenon
  <2>2. CASE i = Len(sent')
    BY <1>1, <1>2, <2>2
  <2>3. QED
    BY <1>1, <2>1, <2>2, Zenon
<1>3. QED
  BY <1>2 DEF NoRolloutMore

LEMMA CallsPosts ==
  ASSUME CallsStep
  PROVE  UNCHANGED <<sent, mailers>>
BY DEF CallsStep, ProviderDelivers, WebhookCall, PollCall, DeliveryProgress, DeliveryRead,
       DeliveryCheck, DeliveryAppend, DeliveryWrite, DeliveryDies, mailTables

(* Who leaves the mails, the jobs and the requests alone. *)
LEMMA NoMoreMail ==
  ASSUME Typed, RolloutMailOnce, MailedAreSpent, JobsHold, MarkersStand, NoRolloutMore,
         UNCHANGED mailers
  PROVE  RolloutMailOnce' /\ MailedAreSpent' /\ JobsHold'
BY OnceStands, JobsStand

LEMMA AcceptersIdle ==
  ASSUME Accepters, UNCHANGED requests
  PROVE  Accepters'
BY DEF Accepters, mayAccept, at

OnceHeld == RolloutMailOnce /\ Accepters /\ MailedAreSpent /\ JobsHold

(* The marker of no row is set again but by the desk. *)
LEMMA ServeKeepsMarkers ==
  ASSUME Typed, Accepters, NEW p \in Handler, Serve(p)
  PROVE  MarkersStand /\ Accepters' /\ UNCHANGED <<sent, mailers>>
<1>0. /\ StoreTypeOK /\ ApiTypeOK /\ HandlersReadRows /\ states \in States
      /\ UNCHANGED <<sent, mailers, remarked>>
  BY TypedParts, StoreTypeParts, ServeKeepsType, ServeCases
<1>1. CASE ApiStep(p) /\ UNCHANGED mailTables
  <2>1. StaySuperseded /\ Accepters'
    BY <1>0, <1>1, ApiStaysSuperseded, AccepterStays DEF Accepters
  <2>2. HoldsRow(p)
    BY <1>0, ReaderHoldsRow
  <2>3. ASSUME NEW c \in Customer, NEW v \in Version PROVE MarkerStands(c, v)
    BY <1>0, <1>1, <2>1, <2>2, ApiMoves, ApiMoveMarker
  <2>4. QED
    BY <1>0, <2>1, <2>3 DEF MarkersStand
<1>2. CASE DisplayAppend(p) \/ DisplayDies(p)
  <2>1. UNCHANGED <<states, requests>>
    BY <1>2 DEF DisplayAppend, DisplayDies, storeVars
  <2>2. QED
    BY <1>0, <2>1, AcceptersIdle, SameMarker DEF MarkersStand
<1>3. QED
  BY <1>1, <1>2, ServeCases

LEMMA OutreachKeepsMarkers ==
  ASSUME Typed, OutreachStep, UNCHANGED remarked
  PROVE  MarkersStand
<1>1. StoreTypeOK /\ OutreachTypeOK
  BY TypedParts
<1>2. ASSUME NEW c \in Customer, NEW v \in Version PROVE MarkerStands(c, v)
  BY <1>1, OutreachMoves, OutreachMoveMarker
<1>3. QED
  BY <1>2 DEF MarkersStand

LEMMA DeskKeepsMarkers ==
  ASSUME Typed, NEW a \in Admin, DeskStep(a)
  PROVE  MarkersStand /\ NoRolloutMore /\ UNCHANGED mailers
<1>1. remarked \subseteq remarked' /\ UNCHANGED mailers
  BY DEF DeskStep, DeskProgress, PatchRead, RemindRead, DeskMail, DeskRecord, DeskSave,
         DeskDies, outreachVars
<1>2. NoRolloutMore
  BY DeskPosts, RolloutMailedByJob, NoMail
<1>3. QED
  BY <1>1, <1>2, DeskMarker DEF MarkersStand

LEMMA OutreachKeepsOnce ==
  ASSUME Typed, OnceHeld, \A m, n \in Mailer : m = n, OutreachStep,
         UNCHANGED <<requests, remarked>>
  PROVE  OnceHeld'
<1>1. MarkersStand /\ Accepters'
  BY OutreachKeepsMarkers, AcceptersIdle DEF OnceHeld
<1>2. ASSUME NEW m \in Mailer, MailerStep(m) PROVE OnceHeld'
  BY <1>1, <1>2, MailerKeepsOnce DEF OnceHeld
<1>3. ASSUME NEW r \in Reminder, RemindStep(r) PROVE OnceHeld'
  <2>1. NoRolloutMore
    BY <1>3, ReminderPosts, RolloutMailedByJob, NoMail
  <2>2. QED
    BY <1>1, <1>3, <2>1, NoMoreMail DEF OnceHeld, RemindStep
<1>4. CASE CallsStep
  BY <1>1, <1>4, CallsPosts, NoMail, NoMoreMail DEF OnceHeld
<1>5. QED
  BY <1>2, <1>3, <1>4 DEF OutreachStep

LEMMA NextOnce ==
  ASSUME \A m, n \in Mailer : m = n
  PROVE  Typed /\ OnceHeld /\ [CorrespondenceNext]_allVars => OnceHeld'
<1> SUFFICES ASSUME Typed, OnceHeld, [CorrespondenceNext]_allVars PROVE OnceHeld'
  OBVIOUS
<1>0. /\ StoreTypeOK /\ SweepTypeOK /\ PublishTypeOK /\ TypeOK /\ states \in States
      /\ RolloutMailOnce /\ Accepters /\ MailedAreSpent /\ JobsHold
  BY TypedParts, StoreTypeParts DEF OnceHeld, TypeOK
<1>1. ASSUME MarkersStand, UNCHANGED <<requests, sent, mailers>> PROVE OnceHeld'
  BY <1>0, <1>1, AcceptersIdle, NoMail, NoMoreMail DEF OnceHeld
<1>2. CASE UNCHANGED allVars \/ (Clock /\ UNCHANGED <<outreachVars, desk, remarked, displayVars>>)
  <2>1. UNCHANGED <<states, requests, sent, mailers, remarked>>
    BY <1>2 DEF allVars, vars, storeVars, Clock, Tick, outreachVars, mailTables
  <2>2. MarkersStand
    BY <2>1, SameMarker DEF MarkersStand
  <2>3. QED
    BY <1>1, <2>1, <2>2
<1>3. ASSUME NEW s \in Sweeper, Sweep(s), UNCHANGED <<outreachVars, desk, remarked, displayVars>>
      PROVE  OnceHeld'
  <2>1. StaySuperseded
    BY <1>0, <1>3, SweepStaysSuperseded DEF Sweep
  <2>2. ASSUME NEW c \in Customer, NEW v \in Version PROVE MarkerStands(c, v)
    BY <1>0, <1>3, <2>1, SweepMoves, SweepMoveMarker DEF Sweep
  <2>3. QED
    BY <1>1, <1>3, <2>2 DEF MarkersStand, Sweep, outreachVars, mailTables
<1>4. ASSUME NEW a \in Publisher, Publish(a),
             UNCHANGED <<outreachVars, desk, remarked, displayVars>>
      PROVE  OnceHeld'
  <2>1. ASSUME NEW c \in Customer, NEW v \in Version PROVE MarkerStands(c, v)
    <3>1. PublishMove(a, c, v)
      BY <1>0, <1>4, PublishMoves DEF Publish
    <3>2. CASE publishing(a)
      BY <1>0, <3>1, <3>2, PublicationInFlight, PublishMoveMarker
    <3>3. CASE ~publishing(a)
      <4>1. ~in(a, "predecessors")
        BY <3>3 DEF in, publishing, NoPublication
      <4>2. states'[c][v] = states[c][v] \/ states[c][v] = NoRow
        BY <3>1, <4>1 DEF PublishMove
      <4>3. QED
        BY <4>2 DEF MarkerStands
    <3>4. QED
      BY <3>2, <3>3
  <2>2. QED
    BY <1>1, <1>4, <2>1 DEF MarkersStand, Publish, outreachVars, mailTables
<1>5. ASSUME NEW p \in Handler, Serve(p) PROVE OnceHeld'
  BY <1>0, <1>5, ServeKeepsMarkers, NoMail, NoMoreMail DEF OnceHeld
<1>6. ASSUME OutreachStep, UNCHANGED <<requests, sweeps, publications, desk, remarked, displayVars>>
      PROVE  OnceHeld'
  BY <1>6, OutreachKeepsOnce
<1>7. ASSUME NEW a \in Admin, DeskStep(a), UNCHANGED <<requests, sweeps, publications, displayVars>>
      PROVE  OnceHeld'
  BY <1>0, <1>7, DeskKeepsMarkers, AcceptersIdle, NoMoreMail DEF OnceHeld
<1>8. QED
  BY <1>2, <1>3, <1>4, <1>5, <1>6, <1>7 DEF CorrespondenceNext

LEMMA InitOnce == CorrespondenceInit => OnceHeld
<1> SUFFICES ASSUME CorrespondenceInit PROVE OnceHeld
  OBVIOUS
<1>1. sent = << >> /\ \A m \in Mailer : mailers[m].due = {} /\ mailers[m].to = {}
  BY DEF CorrespondenceInit, OutreachInit, MailerIdle
<1>2. RolloutMailOnce /\ MailedAreSpent
  BY <1>1 DEF RolloutMailOnce, MailedAreSpent, mailedOut
<1>3. JobsHold
  BY <1>1 DEF JobsHold, dueUnmailed, toUnmailed
<1>4. Accepters
  BY DEF CorrespondenceInit, Init, ApiInit, Idle, Accepters, mayAccept, at
<1>5. QED
  BY <1>2, <1>3, <1>4 DEF OnceHeld

(* Where no two rollout jobs run at once, the inductive invariant of the
   rollout mails: a row is claimed before it is mailed, and its marker comes
   back by an admin's save alone. *)
THEOREM MailedOnceInvariance ==
  ASSUME \A m, n \in Mailer : m = n
  PROVE  CorrespondenceSpec => []MailedOnceInv
<1>1. CorrespondenceInit => OnceHeld
  BY InitOnce
<1>2. Typed /\ OnceHeld /\ [CorrespondenceNext]_allVars => OnceHeld'
  BY NextOnce
<1>3. OnceHeld => MailedOnceInv
  BY MailedOnceParts DEF OnceHeld
<1>4. QED
  BY <1>1, <1>2, <1>3, AlwaysTyped, PTL DEF CorrespondenceSpec

(* Where no two rollout jobs run at once, a rollout mail goes to an address
   once, unless an admin's save gave the marker back. *)
THEOREM MailedOnce ==
  ASSUME \A m, n \in Mailer : m = n
  PROVE  CorrespondenceSpec => []RolloutMailOnce
<1>1. MailedOnceInv => RolloutMailOnce
  BY DEF MailedOnceInv
<1>2. CorrespondenceSpec => []MailedOnceInv
  BY MailedOnceInvariance
<1>3. QED
  BY <1>1, <1>2, PTL

=============================================================================
