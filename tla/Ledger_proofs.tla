--------------------------- MODULE Ledger_proofs ---------------------------
(***************************************************************************)
(* Lifecycle implements ConsentLedger, for any customers, versions,         *)
(* handlers, sweepers and publishers: the inductive invariant of            *)
(* Lifecycle_proofs, with PassiveOnly, tells that each append finds the     *)
(* ledger as its action requires it.                                        *)
(***************************************************************************)
EXTENDS Lifecycle_proofs

-----------------------------------------------------------------------------
(* Silence and objections concern PASSIVE versions alone. *)

ObjectingPassive(p) ==
  at(p, "objectWrite") \/ at(p, "appendObjection") =>
    AcceptanceMode[requests[p].version] = "PASSIVE"

BookingPassive(s) == \A k \in sweeps[s].tacit : AcceptanceMode[k[2]] = "PASSIVE"

LEMMA ElsewherePassive ==
  ASSUME NEW p \in Handler,
         requests'[p].step \notin {"objectWrite", "appendObjection"}
  PROVE  ObjectingPassive(p)'
BY DEF ObjectingPassive, at

LEMMA FinishPassive ==
  ASSUME ApiTypeOK, NEW p \in Handler, finish(p)
  PROVE  OtherRequests(p) /\ ObjectingPassive(p)'
BY FinishEffect, ElsewherePassive DEF Idle

LEMMA GotoPassive ==
  ASSUME ApiTypeOK, NEW p \in Handler, NEW from \in Step, at(p, from), NEW s, goto(p, s),
         s \notin {"objectWrite", "appendObjection"}
  PROVE  OtherRequests(p) /\ ObjectingPassive(p)'
BY RequestInFlight, GotoEffect, ElsewherePassive

LEMMA StartPassive ==
  ASSUME ApiTypeOK, NEW p \in Handler, NEW s, NEW c, NEW v, NEW r, NEW m,
         start(p, s, c, v, r, m), s \notin {"objectWrite", "appendObjection"}
  PROVE  OtherRequests(p) /\ ObjectingPassive(p)'
BY StartEffect, ElsewherePassive

LEMMA ApiKeepsPassive ==
  ASSUME ApiTypeOK, NEW p \in Handler, ApiStep(p), ObjectingPassive(p)
  PROVE  OtherRequests(p) /\ ObjectingPassive(p)'
<1> DEFINE Kept == OtherRequests(p) /\ ObjectingPassive(p)'
<1>1. ASSUME NEW c \in Customer, NEW v \in Version, AcceptStart(p, c, v) PROVE Kept
  BY <1>1, StartPassive DEF AcceptStart
<1>2. ASSUME NEW c \in Customer, NEW v \in Version, ObjectRead(p, c, v) PROVE Kept
  <2>1. AcceptanceMode[v] = "PASSIVE"
    BY <1>2 DEF ObjectRead, objectable
  <2>2. OtherRequests(p) /\ requests'[p].version = v
    BY <1>2, StartEffect DEF ObjectRead
  <2>3. QED
    BY <2>1, <2>2 DEF ObjectingPassive
<1>3. ASSUME NEW c \in Customer, NEW v \in Version, NotifyRead(p, c, v) PROVE Kept
  BY <1>3, StartPassive DEF NotifyRead
<1>4. ASSUME NEW c \in Customer, NEW v \in Version, NEW m \in GivenMethod, RecordRead(p, c, v, m)
      PROVE  Kept
  BY <1>4, StartPassive DEF RecordRead
<1>5. CASE AcceptRead(p)
  <2>1. requests[p] \in Request
    BY <1>5, RequestInFlight DEF AcceptRead, Step
  <2>2. CASE finish(p)
    BY <2>2, FinishPassive
  <2>3. CASE requests' = [requests EXCEPT ![p].step = "acceptWrite",
                ![p].row = states[requests[p].customer][requests[p].version]]
    <3>1. OtherRequests(p) /\ requests'[p].step = "acceptWrite"
      BY <2>1, <2>3 DEF ApiTypeOK, OtherRequests, Request
    <3>2. QED
      BY <3>1, ElsewherePassive
  <2>4. QED
    BY <1>5, <2>2, <2>3 DEF AcceptRead
<1>6. CASE AcceptWrite(p)
  BY <1>6, FinishPassive, GotoPassive DEF AcceptWrite, Step
<1>7. CASE RecordCreate(p)
  <2>1. requests[p] \in Request
    BY <1>7, RequestInFlight DEF RecordCreate, Step
  <2>2. CASE finish(p)
    BY <2>2, FinishPassive
  <2>3. CASE requests' = [requests EXCEPT ![p].step = "recordWrite", ![p].row = PendingRow(None)]
    <3>1. OtherRequests(p) /\ requests'[p].step = "recordWrite"
      BY <2>1, <2>3 DEF ApiTypeOK, OtherRequests, Request
    <3>2. QED
      BY <3>1, ElsewherePassive
  <2>4. QED
    BY <1>7, <2>2, <2>3 DEF RecordCreate
<1>8. CASE RecordWrite(p)
  BY <1>8, FinishPassive, GotoPassive DEF RecordWrite, Step
<1>9. CASE AcceptanceAppend(p) \/ ObjectionAppend(p) \/ NotifyWrite(p) \/ HandlerDies(p)
  BY <1>9, FinishPassive DEF AcceptanceAppend, ObjectionAppend, NotifyWrite, HandlerDies
<1>10. CASE ObjectWrite(p)
  <2>1. requests[p] \in Request /\ AcceptanceMode[requests[p].version] = "PASSIVE"
    BY <1>10, RequestInFlight DEF ObjectWrite, ObjectingPassive, Step
  <2>2. CASE finish(p)
    BY <2>2, FinishPassive
  <2>3. CASE goto(p, "appendObjection")
    BY <2>1, <2>3, GotoEffect DEF ObjectingPassive
  <2>4. QED
    BY <1>10, <2>2, <2>3 DEF ObjectWrite
<1>11. QED
  BY <1>1, <1>2, <1>3, <1>4, <1>5, <1>6, <1>7, <1>8, <1>9, <1>10
  DEF ApiStep, ApiStart, ApiProgress

LEMMA SweepKeepsPassive ==
  ASSUME SweepTypeOK, NEW s \in Sweeper, NEW t \in Sweeper, SweepStep(s), BookingPassive(t)
  PROVE  BookingPassive(t)'
<1>1. ASSUME NEW d \in sweeps[s].due, SweepTacit(s, d)
      PROVE  BookingPassive(t)'
  <2>1. AcceptanceMode[d.version] = "PASSIVE"
    BY <1>1 DEF SweepTacit, outcome, sweepOutcome
  <2>2. QED
    BY <1>1, <2>1 DEF SweepTacit, SweepTypeOK, BookingPassive
<1>2. CASE sweeps'[t].tacit \subseteq sweeps[t].tacit
  BY <1>2 DEF BookingPassive
<1>3. ASSUME \/ SweepFind(s) \/ SweepAppend(s) \/ SweepEntryFails(s) \/ SweepDies(s)
             \/ \E d \in sweeps[s].due : SweepSkip(s, d) \/ SweepExpire(s, d)
      PROVE  sweeps'[t].tacit \subseteq sweeps[t].tacit
  BY <1>3 DEF SweepTypeOK, SweepFind, SweepAppend, SweepEntryFails, SweepDies, SweepSkip, SweepExpire
<1>4. QED
  BY <1>1, <1>2, <1>3 DEF SweepStep, SweepProgress, SweepHandle

LEMMA PassiveParts ==
  PassiveOnly <=> (\A s \in Sweeper : BookingPassive(s)) /\ (\A p \in Handler : ObjectingPassive(p))
BY DEF PassiveOnly, BookingPassive, ObjectingPassive

LEMMA PassivePartsNext ==
  PassiveOnly' <=> (\A s \in Sweeper : BookingPassive(s)') /\ (\A p \in Handler : ObjectingPassive(p)')
BY DEF PassiveOnly, BookingPassive, ObjectingPassive

LEMMA NextPassive == TypeOK /\ PassiveOnly /\ [Next]_vars => PassiveOnly'
<1> SUFFICES ASSUME TypeOK, PassiveOnly, [Next]_vars PROVE PassiveOnly'
  OBVIOUS
<1> USE PassiveParts, PassivePartsNext
<1>0. ApiTypeOK /\ SweepTypeOK
  BY DEF TypeOK
<1>1. ASSUME UNCHANGED requests PROVE \A p \in Handler : ObjectingPassive(p)'
  BY <1>1 DEF ObjectingPassive, at
<1>2. ASSUME UNCHANGED sweeps PROVE \A s \in Sweeper : BookingPassive(s)'
  BY <1>2 DEF BookingPassive
<1>3. CASE Clock
  BY <1>1, <1>2, <1>3 DEF Clock
<1>4. ASSUME NEW p \in Handler, Api(p) PROVE PassiveOnly'
  <2>1. OtherRequests(p) /\ ObjectingPassive(p)'
    BY <1>0, <1>4, ApiKeepsPassive DEF Api
  <2>2. ASSUME NEW q \in Handler PROVE ObjectingPassive(q)'
    BY <2>1 DEF OtherRequests, ObjectingPassive, at
  <2>3. QED
    BY <1>2, <1>4, <2>2 DEF Api
<1>5. ASSUME NEW s \in Sweeper, Sweep(s) PROVE PassiveOnly'
  BY <1>0, <1>1, <1>5, SweepKeepsPassive DEF Sweep
<1>6. ASSUME NEW a \in Publisher, Publish(a) PROVE PassiveOnly'
  BY <1>1, <1>2, <1>6 DEF Publish
<1>7. CASE UNCHANGED vars
  BY <1>1, <1>2, <1>7 DEF vars
<1>8. QED
  BY <1>3, <1>4, <1>5, <1>6, <1>7 DEF Next

(* Nothing but a PASSIVE version is ever accepted by silence or objected to. *)
THEOREM OnlyPassive == Spec => []PassiveOnly
<1>1. Init => PassiveOnly
  BY DEF Init, SweepInit, ApiInit, Idle, PassiveOnly, at
<1>2. QED
  BY <1>1, NextPassive, TypeCorrect, PTL DEF Spec

-----------------------------------------------------------------------------
(* The three appends, as steps of the ledger. *)

refusals == {<<o.customer, o.version>> : o \in objections}
ledgerVars == <<booked(GivenMethod), booked({"TACIT"}), refusals>>

Unbooked(c, v) == <<c, v>> \notin booked(GivenMethod) \cup booked({"TACIT"})

LEMMA BookedPair ==
  ASSUME NEW c \in Customer, NEW v \in Version, ~accepted(c, v), acceptances \subseteq Acceptance
  PROVE  Unbooked(c, v)
<1>1. ASSUME NEW M, <<c, v>> \in booked(M) PROVE FALSE
  <2>1. PICK a \in acceptances : <<c, v>> = <<a.customer, a.version>>
    BY <1>1 DEF booked
  <2>2. QED
    BY <2>1 DEF accepted
<1>2. QED
  BY <1>1 DEF Unbooked

(* An append of a first acceptance adds its pair to the ledger of its method. *)
LEMMA AppendBooks ==
  ASSUME NEW c, NEW v, NEW m, NEW M, ~accepted(c, v), appendAcceptance(c, v, m)
  PROVE  {<<a.customer, a.version>> : a \in {b \in acceptances' : b.method \in M}} =
           IF m \in M THEN booked(M) \cup {<<c, v>>} ELSE booked(M)
<1> DEFINE new == [customer |-> c, version |-> v, method |-> m, acceptedAt |-> now]
<1>1. acceptances' = acceptances \cup {new}
  BY DEF appendAcceptance
<1>2. new.customer = c /\ new.version = v /\ new.method = m
  OBVIOUS
<1> HIDE DEF new
<1>3. {b \in acceptances' : b.method \in M} =
        {b \in acceptances : b.method \in M} \cup (IF m \in M THEN {new} ELSE {})
  BY <1>1, <1>2
<1>4. QED
  BY <1>2, <1>3 DEF booked

LEMMA AcceptStep ==
  ASSUME TypeOK, NEW c \in Customer, NEW v \in Version, ~accepted(c, v),
         NEW m \in GivenMethod, appendAcceptance(c, v, m), UNCHANGED objections
  PROVE  Ledger!LedgerNext
<1>1. /\ booked(GivenMethod)' = booked(GivenMethod) \cup {<<c, v>>}
      /\ booked({"TACIT"})' = booked({"TACIT"})
  <2>1. m \notin {"TACIT"} /\ m \in GivenMethod
    BY DEF GivenMethod
  <2>2. {<<a.customer, a.version>> : a \in {b \in acceptances' : b.method \in GivenMethod}} =
          booked(GivenMethod) \cup {<<c, v>>}
    BY <2>1, AppendBooks
  <2>3. {<<a.customer, a.version>> : a \in {b \in acceptances' : b.method \in {"TACIT"}}} =
          booked({"TACIT"})
    BY <2>1, AppendBooks
  <2>4. QED
    BY <2>2, <2>3 DEF booked, GivenMethod
<1>2. Unbooked(c, v)
  BY BookedPair DEF TypeOK, StoreTypeOK
<1>3. Ledger!Give(<<c, v>>)
  BY <1>1, <1>2 DEF Ledger!Give, Unbooked
<1>4. QED
  BY <1>3 DEF Ledger!LedgerNext

LEMMA SilenceStep ==
  ASSUME TypeOK, NEW c \in Customer, NEW v \in Version, ~accepted(c, v), ~objected(c, v),
         AcceptanceMode[v] = "PASSIVE", appendAcceptance(c, v, "TACIT"), UNCHANGED objections
  PROVE  Ledger!LedgerNext
<1>1. /\ booked(GivenMethod)' = booked(GivenMethod)
      /\ booked({"TACIT"})' = booked({"TACIT"}) \cup {<<c, v>>}
  <2>1. "TACIT" \in {"TACIT"} /\ "TACIT" \notin GivenMethod
    BY DEF GivenMethod
  <2>2. {<<a.customer, a.version>> : a \in {b \in acceptances' : b.method \in GivenMethod}} =
          booked(GivenMethod)
    BY <2>1, AppendBooks
  <2>3. {<<a.customer, a.version>> : a \in {b \in acceptances' : b.method \in {"TACIT"}}} =
          booked({"TACIT"}) \cup {<<c, v>>}
    BY <2>1, AppendBooks
  <2>4. QED
    BY <2>2, <2>3 DEF booked, GivenMethod
<1>2. Unbooked(c, v)
  BY BookedPair DEF TypeOK, StoreTypeOK
<1>3. <<c, v>> \notin refusals
  BY DEF refusals, objected
<1>4. Ledger!StaySilent(<<c, v>>)
  BY <1>1, <1>2, <1>3 DEF Ledger!StaySilent, Unbooked, refusals
<1>5. QED
  BY <1>4 DEF Ledger!LedgerNext

LEMMA RefusalStep ==
  ASSUME NEW c \in Customer, NEW v \in Version, ~tacitlyAccepted(c, v),
         AcceptanceMode[v] = "PASSIVE", appendObjection(c, v), UNCHANGED acceptances
  PROVE  Ledger!LedgerNext
<1> DEFINE new == [customer |-> c, version |-> v, objectedAt |-> now]
<1>1. objections' = objections \cup {new}
  BY DEF appendObjection
<1>2. new.customer = c /\ new.version = v
  OBVIOUS
<1> HIDE DEF new
<1>3. refusals' = refusals \cup {<<c, v>>}
  BY <1>1, <1>2 DEF refusals
<1>4. <<c, v>> \notin booked({"TACIT"})
  BY DEF booked, tacitlyAccepted
<1>5. UNCHANGED <<booked(GivenMethod), booked({"TACIT"})>>
  BY DEF booked
<1>6. Ledger!Refuse(<<c, v>>)
  BY <1>3, <1>4, <1>5 DEF Ledger!Refuse, refusals
<1>7. QED
  BY <1>6 DEF Ledger!LedgerNext

LEMMA NoAppend ==
  ASSUME UNCHANGED <<acceptances, objections>>
  PROVE  UNCHANGED Ledger!ledger
BY DEF Ledger!ledger, booked

(* Each step of Lifecycle is a step of the ledger or leaves it alone. *)
LEMMA StepImplements ==
  ASSUME IInv, PassiveOnly, [Next]_vars
  PROVE  [Ledger!LedgerNext]_(Ledger!ledger)
<1> USE DEF storeVars, contextVars, recordVars, sweepContext, evidenceVars
<1>0. TypeOK /\ ApiTypeOK /\ OneWriterWins /\ ObjectionStopsTacit
  BY DEF IInv, TypeOK
<1>1. ASSUME NEW p \in Handler, AcceptanceAppend(p)
      PROVE  Ledger!LedgerNext
  <2> DEFINE c == requests[p].customer
             v == requests[p].version
             m == requests[p].method
  <2>1. c \in Customer /\ v \in Version /\ m \in GivenMethod
    BY <1>0, <1>1, RequestInFlight DEF AcceptanceAppend, Step, Request
  <2>2. ~accepted(c, v)
    BY <1>0, <1>1, <2>1 DEF AcceptanceAppend, OneWriterWins, evidencePending, acceptingRequest
  <2>3. appendAcceptance(c, v, m) /\ UNCHANGED objections
    BY <1>1 DEF AcceptanceAppend
  <2> HIDE DEF c, v, m
  <2>4. QED
    BY <1>0, <2>1, <2>2, <2>3, AcceptStep
<1>2. ASSUME NEW p \in Handler, ObjectionAppend(p)
      PROVE  Ledger!LedgerNext
  <2> DEFINE c == requests[p].customer
             v == requests[p].version
  <2>1. c \in Customer /\ v \in Version
    BY <1>0, <1>2, RequestInFlight DEF ObjectionAppend, Step, Request
  <2>2. ~tacitlyAccepted(c, v)
    BY <1>0, <1>2, <2>1 DEF ObjectionAppend, ObjectionStopsTacit, objectionPending
  <2>3. AcceptanceMode[v] = "PASSIVE"
    BY <1>2 DEF ObjectionAppend, PassiveOnly
  <2>4. appendObjection(c, v) /\ UNCHANGED acceptances
    BY <1>2 DEF ObjectionAppend
  <2> HIDE DEF c, v
  <2>5. QED
    BY <2>1, <2>2, <2>3, <2>4, RefusalStep
<1>3. ASSUME NEW s \in Sweeper, SweepAppend(s)
      PROVE  Ledger!LedgerNext
  <2>1. PICK k \in sweeps[s].tacit :
          appendAcceptance(k[1], k[2], "TACIT") /\ UNCHANGED objections
    BY <1>3 DEF SweepAppend
  <2> DEFINE c == k[1]
             v == k[2]
  <2>2. c \in Customer /\ v \in Version /\ k = <<c, v>>
    BY <1>0 DEF TypeOK, SweepTypeOK
  <2>3. acceptingSweep(s, c, v)
    BY <2>2 DEF acceptingSweep
  <2>4. ~accepted(c, v)
    BY <1>0, <2>2, <2>3 DEF OneWriterWins, evidencePending
  <2>5. ~objected(c, v)
    BY <1>0, <2>2, <2>3 DEF ObjectionStopsTacit
  <2>6. AcceptanceMode[v] = "PASSIVE"
    BY DEF PassiveOnly
  <2> HIDE DEF c, v
  <2>7. QED
    BY <1>0, <2>1, <2>2, <2>4, <2>5, <2>6, SilenceStep DEF c, v
<1>4. ASSUME NEW p \in Handler, Api(p), ~AcceptanceAppend(p), ~ObjectionAppend(p)
      PROVE  UNCHANGED <<acceptances, objections>>
  BY <1>4 DEF Api, ApiStep, ApiStart, ApiProgress, AcceptStart, AcceptRead, AcceptWrite,
    RecordRead, RecordCreate, RecordWrite, ObjectRead, ObjectWrite, NotifyRead, NotifyWrite,
    HandlerDies
<1>5. ASSUME NEW s \in Sweeper, Sweep(s), ~SweepAppend(s)
      PROVE  UNCHANGED <<acceptances, objections>>
  BY <1>5 DEF Sweep, SweepStep, SweepProgress, SweepHandle, SweepFind, SweepSkip, SweepExpire,
    SweepTacit, SweepEntryFails, SweepDies
<1>6. ASSUME NEW a \in Publisher, Publish(a)
      PROVE  UNCHANGED <<acceptances, objections>>
  BY <1>6 DEF Publish, PublishStep, PublishProgress, PublishRead, PublishSave, PublishSiblings,
    PublishRetire, PublishFindOpen, PublishSupersede, PublishTargets, PublishRollout,
    PublishRefused, PublishReturn, PublishDies
<1>7. ASSUME Clock \/ UNCHANGED vars
      PROVE  UNCHANGED <<acceptances, objections>>
  BY <1>7 DEF Clock, Tick, vars
<1>8. QED
  BY <1>1, <1>2, <1>3, <1>4, <1>5, <1>6, <1>7, NoAppend DEF Next

(* Lifecycle implements the ledger: the evidence is append-only, each version
   is accepted once, and silence never counts against an objection. *)
THEOREM LedgerImplemented == Spec => ImplementsLedger
<1>1. Init => Ledger!LedgerInit
  BY DEF Init, StoreInit, Ledger!LedgerInit, booked
<1>2. QED
  BY <1>1, StepImplements, Invariance, OnlyPassive, PTL
  DEF Spec, ImplementsLedger, Ledger!LedgerSpec
=============================================================================
