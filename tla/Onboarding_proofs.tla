------------------------- MODULE Onboarding_proofs -------------------------
(***************************************************************************)
(* Proofs about Onboarding: whatever overtakes whatever, nobody slips       *)
(* through between an onboarding and a publish, nobody is written to twice, *)
(* and references stay unique but where an operation was overtaken.         *)
(***************************************************************************)
EXTENDS Onboarding, TLAPS

Rows == [Customer -> [Version -> {"none", "PENDING_NOTIFICATION", "ACCEPTED", "SUPERSEDED"}]]
Pairs == Customer \X Version

LEMMA TypeParts ==
  ASSUME OnboardingTypeOK
  PROVE  /\ customers \in [Customer -> CustomerRow \cup {NoCustomer}]
         /\ versions \in [Version -> [status : Status, publishedAt : 0..Today]]
         /\ rows \in Rows
         /\ due \subseteq Pairs /\ mailed \subseteq Pairs /\ acceptances \subseteq Pairs
         /\ excused \subseteq Pairs
         /\ ops \in [Operator -> Op \cup {NoOp}]
         /\ publication \in Publication \cup {NoPublication}
BY DEF OnboardingTypeOK, Rows, Pairs

LEMMA Typed ==
  ASSUME /\ customers' \in [Customer -> CustomerRow \cup {NoCustomer}]
         /\ versions' \in [Version -> [status : Status, publishedAt : 0..Today]]
         /\ rows' \in Rows
         /\ due' \subseteq Pairs /\ mailed' \subseteq Pairs /\ acceptances' \subseteq Pairs
         /\ excused' \subseteq Pairs
         /\ ops' \in [Operator -> Op \cup {NoOp}]
         /\ publication' \in Publication \cup {NoPublication}
  PROVE  OnboardingTypeOK'
BY DEF OnboardingTypeOK, Rows, Pairs

(* An operation in some await is in flight, and has its type. *)
LEMMA AtIsBusy ==
  ASSUME NEW p \in Operator, NEW step \in STRING, step # "idle", at(p, step)
  PROVE  busy(p)
BY DEF at, busy, NoOp

LEMMA BusyOp ==
  ASSUME OnboardingTypeOK, NEW p \in Operator, busy(p)
  PROVE  /\ ops[p] \in Op
         /\ ops[p].customer \in Customer /\ ops[p].saved \in CustomerRow
         /\ ops[p].imports \subseteq Version /\ ops[p].documents \subseteq Role
         /\ ops[p].rolloutVersions \subseteq Version /\ ops[p].rolledOut \subseteq Version
BY TypeParts DEF busy, Op

LEMMA KnownRow ==
  ASSUME OnboardingTypeOK, NEW c \in Customer, known(c)
  PROVE  customers[c] \in CustomerRow
BY TypeParts DEF known

(* What an operation goes on with is all that it changes. *)
OthersKept(p) == \A q \in Operator : q # p => ops'[q] = ops[q]

LEMMA Continued ==
  ASSUME OnboardingTypeOK, NEW p \in Operator, NEW op \in Op \cup {NoOp}, continue(p, op)
  PROVE  /\ ops' \in [Operator -> Op \cup {NoOp}]
         /\ ops'[p] = op /\ OthersKept(p)
BY TypeParts DEF continue, OthersKept

LEMMA OperationType ==
  ASSUME NEW kind \in {"create", "update", "reactivate", "deactivate"},
         NEW step \in {"save", "delete"}, NEW c \in Customer,
         NEW existing \in CustomerRow \cup {NoCustomer}, NEW saved \in CustomerRow
  PROVE  /\ operation(kind, step, c, existing, saved) \in Op
         /\ operation(kind, step, c, existing, saved).step = step
         /\ operation(kind, step, c, existing, saved).kind = kind
         /\ operation(kind, step, c, existing, saved).documents = {}
         /\ operation(kind, step, c, existing, saved).customer = c
         /\ operation(kind, step, c, existing, saved).saved = saved
         /\ operation(kind, step, c, existing, saved).rolledOut = {}
BY DEF operation, Op

LEMMA InsertedRow ==
  ASSUME OnboardingTypeOK, NEW c \in Customer, NEW v \in Version,
         NEW state \in {"PENDING_NOTIFICATION", "ACCEPTED"}, insertRow(c, v, state)
  PROVE  /\ rows' \in Rows
         /\ rows[c][v] = "none" /\ rows'[c][v] = state
         /\ \A d \in Customer, w \in Version :
              d # c \/ w # v => rows'[d][w] = rows[d][w]
BY TypeParts DEF insertRow, Rows

(* Whoever has been created stays. *)
LEMMA SavedCustomer ==
  ASSUME OnboardingTypeOK, NEW p \in Operator, busy(p), NEW row \in CustomerRow,
         NEW next \in Op \cup {NoOp}, writeCustomer(p, row, next)
  PROVE  /\ customers' \in [Customer -> CustomerRow \cup {NoCustomer}]
         /\ customers'[ops[p].customer] = row
         /\ \A c \in Customer : c # ops[p].customer => customers'[c] = customers[c]
         /\ \A c \in Customer : known(c) => known(c)'
         /\ excused \subseteq excused' /\ excused' \subseteq Pairs
         /\ ops' \in [Operator -> Op \cup {NoOp}] /\ ops'[p] = next
         /\ raced \subseteq raced'
<1>1. /\ ops[p].customer \in Customer
      /\ customers' = [customers EXCEPT ![ops[p].customer] = row]
  BY BusyOp DEF writeCustomer
<1>2. /\ customers' \in [Customer -> CustomerRow \cup {NoCustomer}]
      /\ customers'[ops[p].customer] = row
      /\ \A c \in Customer : c # ops[p].customer => customers'[c] = customers[c]
  BY <1>1, TypeParts
<1>3. \A c \in Customer : known(c) => known(c)'
  BY <1>2 DEF known, CustomerRow, NoCustomer
<1>4. excused \subseteq excused' /\ excused' \subseteq Pairs
  BY <1>1, TypeParts DEF writeCustomer, publishedOf, Pairs
<1>5. \A q \in Operator : busy(q) => [ops[q] EXCEPT !.overtaken = TRUE] \in Op
  BY BusyOp DEF Op
<1>6. ops' \in [Operator -> Op \cup {NoOp}] /\ ops'[p] = next
  BY <1>5, TypeParts DEF writeCustomer
<1>7. raced \subseteq raced'
  BY DEF writeCustomer
<1>8. QED
  BY <1>2, <1>3, <1>4, <1>6, <1>7

(* Nothing but the mark of having been overtaken changes in another operation. *)
OthersStay(p) ==
  \A q \in Operator : q # p =>
    ops'[q] = ops[q] \/ (busy(q) /\ ops'[q] = [ops[q] EXCEPT !.overtaken = TRUE])

LEMMA OthersAsBefore ==
  ASSUME OnboardingTypeOK, NEW p \in Operator, OthersStay(p), NEW q \in Operator, q # p
  PROVE  /\ busy(q)' <=> busy(q)
         /\ busy(q) => /\ ops'[q].step = ops[q].step /\ ops'[q].kind = ops[q].kind
                       /\ ops'[q].customer = ops[q].customer /\ ops'[q].saved = ops[q].saved
                       /\ ops'[q].documents = ops[q].documents
                       /\ ops'[q].document = ops[q].document
                       /\ ops'[q].rolloutVersions = ops[q].rolloutVersions
                       /\ ops'[q].version = ops[q].version
                       /\ ops'[q].rolledOut = ops[q].rolledOut
                       /\ ops'[q].overtaken \in {ops[q].overtaken, TRUE}
<1>1. CASE ops'[q] = ops[q]
  BY <1>1 DEF busy
<1>2. CASE busy(q) /\ ops'[q] = [ops[q] EXCEPT !.overtaken = TRUE]
  <2>1. ops[q] \in Op
    BY <1>2, BusyOp
  <2>2. ops'[q].step = ops[q].step /\ ops[q].step # "idle"
    BY <1>2, <2>1 DEF Op
  <2>3. busy(q)'
    BY <2>2 DEF busy, NoOp
  <2>4. QED
    BY <1>2, <2>1, <2>3 DEF Op
<1>3. QED
  BY <1>1, <1>2 DEF OthersStay

LEMMA KeptStays == \A p \in Operator : OthersKept(p) => OthersStay(p)
BY DEF OthersKept, OthersStay

LEMMA SaverOvertakes ==
  ASSUME OnboardingTypeOK, NEW p \in Operator, NEW row, NEW next, writeCustomer(p, row, next)
  PROVE  OthersStay(p)
BY TypeParts DEF writeCustomer, OthersStay

(* Of an operation that begins: what it has checked. *)
beginsSound(op) ==
  /\ op.documents = {} /\ op.rolledOut = {} /\ op.step \in {"save", "delete"}
  /\ op.step = "delete" => known(op.customer)
  /\ op.step = "save" =>
       \/ overlapping(op.saved.ref, op.saved.roles) \subseteq {op.customer}
       \/ op.saved.ref \in raced
  /\ op.step = "save" => op.kind # "deactivate"

LEMMA MatchesAreKnown ==
  ASSUME OnboardingTypeOK, NEW ref \in Ref, NEW c \in findAllByExternalRef(ref)
  PROVE  c \in Customer /\ known(c) /\ customers[c] \in CustomerRow
<1>1. c \in Customer /\ customers[c].ref = ref
  BY DEF findAllByExternalRef
<1>2. known(c)
  BY <1>1, OnboardingAssumption DEF known, NoCustomer
<1>3. QED
  BY <1>1, <1>2, KnownRow

LEMMA Begins ==
  ASSUME OnboardingTypeOK, NoDuplicateInAudience, NEW p \in Operator,
         OpBegin(p) \/ \E c \in Customer, roles \in (SUBSET Role) \cup {None} : UpdateBegin(p, c, roles)
  PROVE  \E op \in Op : begin(p, op) /\ beginsSound(op)
<1>1. ASSUME NEW ref \in Ref, NEW roles \in SUBSET Role, NEW accepted \in SUBSET Version,
             NEW signedAt, CreateBegin(p, ref, roles, accepted, signedAt)
      PROVE  \E op \in Op : begin(p, op) /\ beginsSound(op)
  <2> DEFINE signed == IF signedAt = None THEN {} ELSE resolveSignedDocuments(roles, signedAt)
             saved == [ref |-> ref, roles |-> roles, deleted |-> FALSE]
  <2>1. signed \subseteq Version
    BY DEF resolveSignedDocuments, resolveEffectiveVersionAt, newest, validImports
  <2>2. PICK c \in Customer :
          begin(p, [operation("create", "save", c, NoCustomer, saved)
                    EXCEPT !.imports = accepted \cup signed])
    BY <1>1 DEF CreateBegin
  <2>3. overlapping(ref, roles) = {}
    BY <1>1 DEF CreateBegin, assertExternalRefUniqueForRoles
  <2> HIDE DEF signed
  <2>4. saved \in CustomerRow /\ NoCustomer \in CustomerRow \cup {NoCustomer}
    BY DEF CustomerRow
  <2> DEFINE new == operation("create", "save", c, NoCustomer, saved)
             op == [new EXCEPT !.imports = accepted \cup signed]
  <2>5. /\ new \in Op /\ new.step = "save" /\ new.kind = "create" /\ new.documents = {} /\ new.rolledOut = {}
        /\ new.customer = c /\ new.saved = saved
    <3> HIDE DEF saved
    <3>1. QED
      BY <2>4, OperationType
  <2> HIDE DEF new
  <2>6. /\ op \in Op /\ op.step = "save" /\ op.kind = "create" /\ op.documents = {} /\ op.rolledOut = {}
        /\ op.customer = c /\ op.saved = saved
    BY <2>1, <2>5 DEF Op
  <2>7. beginsSound(op)
    BY <2>3, <2>6 DEF beginsSound
  <2>8. begin(p, op)
    BY <2>2 DEF new
  <2>9. QED
    BY <2>6, <2>7, <2>8
<1>2. ASSUME NEW c \in Customer, NEW roles \in (SUBSET Role) \cup {None}, UpdateBegin(p, c, roles)
      PROVE  \E op \in Op : begin(p, op) /\ beginsSound(op)
  <2> DEFINE saved == IF roles = None THEN customers[c] ELSE [customers[c] EXCEPT !.roles = roles]
             op == operation("update", "save", c, customers[c], saved)
  <2>1. known(c) /\ customers[c] \in CustomerRow /\ begin(p, op)
    BY <1>2, KnownRow DEF UpdateBegin
  <2>2. saved \in CustomerRow
    <3>1. CASE roles = None
      BY <2>1, <3>1
    <3>2. CASE roles # None
      <4>1. roles \in SUBSET Role
        BY <3>2
      <4>2. [customers[c] EXCEPT !.roles = roles] \in CustomerRow
        BY <2>1, <4>1 DEF CustomerRow
      <4>3. QED
        BY <3>2, <4>2
    <3>3. QED
      BY <3>1, <3>2
  <2>3. overlapping(saved.ref, saved.roles) \subseteq {c} \/ saved.ref \in raced
    <3>1. CASE roles = None
      BY <2>1, <3>1 DEF NoDuplicateInAudience
    <3>2. CASE roles # None
      <4>1. saved.ref = customers[c].ref /\ saved.roles = roles
        BY <2>1, <3>2 DEF CustomerRow
      <4>2. QED
        BY <1>2, <3>2, <4>1 DEF UpdateBegin, assertExternalRefUniqueForRoles
    <3>3. QED
      BY <3>1, <3>2
  <2> HIDE DEF saved
  <2>4. /\ op \in Op /\ op.step = "save" /\ op.kind = "update" /\ op.documents = {} /\ op.rolledOut = {}
        /\ op.customer = c /\ op.saved = saved
    BY <2>1, <2>2, OperationType
  <2>5. QED
    BY <2>1, <2>3, <2>4 DEF beginsSound
<1>3. ASSUME NEW ref \in Ref, NEW roles \in SUBSET Role, ReactivateBegin(p, ref, roles)
      PROVE  \E op \in Op : begin(p, op) /\ beginsSound(op)
  <2>1. PICK c \in overlapping(ref, roles) :
          /\ assertExternalRefUniqueForRoles(ref, roles, {c})
          /\ begin(p, operation("reactivate", "save", c, customers[c],
                        [ref |-> ref, roles |-> roles, deleted |-> FALSE]))
    BY <1>3 DEF ReactivateBegin
  <2> DEFINE saved == [ref |-> ref, roles |-> roles, deleted |-> FALSE]
             op == operation("reactivate", "save", c, customers[c], saved)
  <2>2. c \in Customer /\ customers[c] \in CustomerRow
    BY <2>1, MatchesAreKnown DEF overlapping
  <2>3. saved \in CustomerRow /\ overlapping(saved.ref, saved.roles) \subseteq {c}
    BY <2>1 DEF CustomerRow, assertExternalRefUniqueForRoles
  <2>a. begin(p, op)
    BY <2>1
  <2> HIDE DEF saved
  <2>4. /\ op \in Op /\ op.step = "save" /\ op.kind = "reactivate" /\ op.documents = {} /\ op.rolledOut = {}
        /\ op.customer = c /\ op.saved = saved
    BY <2>2, <2>3, OperationType
  <2>5. QED
    BY <2>a, <2>3, <2>4 DEF beginsSound
<1>4. ASSUME NEW ref \in Ref, NEW r \in Role, DeactivateBegin(p, ref, r)
      PROVE  \E op \in Op : begin(p, op) /\ beginsSound(op)
  <2>1. PICK c \in findAllByExternalRef(ref) :
          begin(p, operation("deactivate", "delete", c, customers[c], customers[c]))
    BY <1>4 DEF DeactivateBegin
  <2> DEFINE op == operation("deactivate", "delete", c, customers[c], customers[c])
  <2>2. c \in Customer /\ known(c) /\ customers[c] \in CustomerRow
    BY <2>1, MatchesAreKnown
  <2>3. /\ op \in Op /\ op.step = "delete" /\ op.documents = {} /\ op.rolledOut = {}
        /\ op.customer = c
    BY <2>2, OperationType
  <2>4. QED
    BY <2>1, <2>2, <2>3 DEF beginsSound
<1>5. QED
  BY <1>1, <1>2, <1>3, <1>4 DEF OpBegin

-----------------------------------------------------------------------------
(* Types, and what an operation has at hand. *)

LEMMA SoundNext ==
  ASSUME NEW p \in Operator, NEW op, ops'[p] = op,
         op.step \in {"save", "delete", "notify"} => op.documents = {},
         op.step \in {"upcoming", "check", "row"} => op.document \in op.documents,
         op.step \in {"append", "row"} => op.version \in Version,
         op.step = "delete" => customers'[op.customer] # NoCustomer,
         op.step = "save" => op.kind # "deactivate"
  PROVE  OpSound(p)'
BY DEF OpSound, at, known

StepDone(p) ==
  OnboardingTypeOK' /\ (busy(p)' => OpSound(p)') /\ OthersStay(p)

LEMMA ReadOnlyType ==
  ASSUME OnboardingTypeOK, readOnly, ops' \in [Operator -> Op \cup {NoOp}]
  PROVE  OnboardingTypeOK'
BY TypeParts, Typed DEF readOnly, tables, histories

LEMMA SaveDone ==
  ASSUME OnboardingTypeOK, NEW p \in Operator, busy(p), OpSound(p), CustomerSave(p)
  PROVE  StepDone(p)
<1> DEFINE op == ops[p]
           step == IF op.imports = {} THEN "rollout" ELSE "import"
           next == [op EXCEPT !.documents = addedRoles(op), !.step = step]
<1>1. op \in Op /\ op.saved \in CustomerRow /\ addedRoles(op) \subseteq Role
  BY BusyOp DEF addedRoles, CustomerRow
<1>2. step \in {"rollout", "import"}
  OBVIOUS
<1> HIDE DEF step
<1>3. next \in Op /\ next.step = step
  BY <1>1, <1>2 DEF Op
<1> DEFINE then == IF addedRoles(op) = {} THEN NoOp ELSE next
<1>4. writeCustomer(p, op.saved, then)
  BY DEF CustomerSave, step
<1> HIDE DEF next
<1>5. then \in Op \cup {NoOp}
  BY <1>3
<1>a. then = NoOp \/ (then.step \in {"rollout", "import"})
  BY <1>2, <1>3
<1> HIDE DEF then
<1>6. /\ customers' \in [Customer -> CustomerRow \cup {NoCustomer}]
      /\ excused' \subseteq Pairs /\ ops' \in [Operator -> Op \cup {NoOp}] /\ ops'[p] = then
  BY <1>1, <1>4, <1>5, SavedCustomer
<1>7. OnboardingTypeOK'
  BY <1>6, TypeParts, Typed DEF CustomerSave
<1>8. busy(p)' => OpSound(p)'
  BY <1>a, <1>6, SoundNext DEF busy
<1>9. QED
  BY <1>4, <1>7, <1>8, SaverOvertakes DEF StepDone

LEMMA DeleteDone ==
  ASSUME OnboardingTypeOK, NEW p \in Operator, busy(p), OpSound(p), SoftDelete(p)
  PROVE  StepDone(p)
<1> DEFINE c == ops[p].customer
           row == [customers[c] EXCEPT !.deleted = TRUE]
<1>1. c \in Customer /\ known(c)
  BY BusyOp DEF SoftDelete, OpSound, at
<1>2. customers[c] \in CustomerRow
  BY <1>1, KnownRow
<1>3. row \in CustomerRow
  BY <1>2 DEF CustomerRow
<1>4. writeCustomer(p, row, NoOp)
  BY DEF SoftDelete
<1> HIDE DEF row
<1>5. /\ customers' \in [Customer -> CustomerRow \cup {NoCustomer}]
      /\ excused' \subseteq Pairs /\ ops' \in [Operator -> Op \cup {NoOp}] /\ ops'[p] = NoOp
  BY <1>3, <1>4, SavedCustomer
<1>6. OnboardingTypeOK'
  BY <1>5, TypeParts, Typed DEF SoftDelete
<1>7. QED
  BY <1>4, <1>5, <1>6, SaverOvertakes DEF StepDone, busy

(* The awaits of an operation that writes no customer. *)
LEMMA ContinueDone ==
  ASSUME OnboardingTypeOK, NEW p \in Operator, NEW op \in Op \cup {NoOp}, continue(p, op),
         UNCHANGED <<customers, versions, publication>>,
         rows' \in Rows, due' \subseteq Pairs, mailed' \subseteq Pairs,
         acceptances' \subseteq Pairs, excused' \subseteq Pairs,
         op = NoOp \/
           /\ op.step = "notify" => op.documents = {}
           /\ op.step \in {"upcoming", "check", "row"} => op.document \in op.documents
           /\ op.step \in {"append", "row"} => op.version \in Version
           /\ op.step \notin {"save", "delete"}
  PROVE  StepDone(p) /\ ops'[p] = op /\ OthersKept(p)
<1>1. ops' \in [Operator -> Op \cup {NoOp}] /\ ops'[p] = op /\ OthersKept(p)
  BY Continued
<1>2. OnboardingTypeOK'
  BY <1>1, TypeParts, Typed
<1>3. busy(p)' => OpSound(p)'
  BY <1>1, SoundNext DEF busy
<1>4. QED
  BY <1>1, <1>2, <1>3, KeptStays DEF StepDone

LEMMA StopDone ==
  ASSUME OnboardingTypeOK, NEW p \in Operator, busy(p), leaveUnasked(p), UNCHANGED tables,
         UNCHANGED publication
  PROVE  StepDone(p) /\ ops'[p] = NoOp /\ OthersKept(p)
<1>1. publishedOf(ops[p].documents) \subseteq Version /\ ops[p].customer \in Customer
  BY BusyOp DEF publishedOf
<1>2. excused' \subseteq Pairs
  BY <1>1, TypeParts DEF leaveUnasked, Pairs
<1>3. QED
  BY <1>2, TypeParts, ContinueDone DEF leaveUnasked, tables

(* What one await makes of an operation. *)
sameCustomer(p) == ops'[p].customer = ops[p].customer

LEMMA ImportRowDone ==
  ASSUME OnboardingTypeOK, NEW p \in Operator, busy(p), OpSound(p), NEW v \in Version,
         ImportRow(p, v)
  PROVE  /\ StepDone(p) /\ OthersKept(p) /\ sameCustomer(p)
         /\ ops'[p].step = "append" /\ ops'[p].documents = ops[p].documents
         /\ ops'[p].rolledOut = ops[p].rolledOut
<1> DEFINE op == [ops[p] EXCEPT !.step = "append", !.version = v]
<1>1. ops[p] \in Op /\ ops[p].customer \in Customer
  BY BusyOp
<1>2. /\ op \in Op /\ op.step = "append" /\ op.version = v /\ op.customer = ops[p].customer
      /\ op.documents = ops[p].documents /\ op.rolledOut = ops[p].rolledOut
  BY <1>1 DEF Op
<1>3. continue(p, op) /\ insertRow(ops[p].customer, v, "ACCEPTED")
  BY DEF ImportRow
<1> HIDE DEF op
<1>4. rows' \in Rows
  BY <1>1, <1>3, InsertedRow
<1>5. QED
  BY <1>2, <1>3, <1>4, TypeParts, ContinueDone DEF ImportRow, histories, sameCustomer

LEMMA ImportAppendDone ==
  ASSUME OnboardingTypeOK, NEW p \in Operator, busy(p), OpSound(p), ImportAppend(p)
  PROVE  /\ StepDone(p) /\ OthersKept(p) /\ sameCustomer(p)
         /\ ops'[p].step \in {"rollout", "import"} /\ ops'[p].documents = ops[p].documents
         /\ ops'[p].rolledOut = ops[p].rolledOut
<1> DEFINE left == ops[p].imports \ {ops[p].version}
           step == IF left = {} THEN "rollout" ELSE "import"
           op == [ops[p] EXCEPT !.imports = left, !.version = None, !.step = step]
<1>1. /\ ops[p] \in Op /\ ops[p].customer \in Customer /\ left \subseteq Version
      /\ ops[p].version \in Version
  BY BusyOp DEF ImportAppend, OpSound, at
<1>2. continue(p, op)
  BY DEF ImportAppend
<1>3. step \in {"rollout", "import"}
  OBVIOUS
<1> HIDE DEF left, step
<1>4. /\ op \in Op /\ op.step = step /\ op.customer = ops[p].customer
      /\ op.documents = ops[p].documents /\ op.rolledOut = ops[p].rolledOut
  BY <1>1, <1>3 DEF Op
<1> HIDE DEF op
<1>5. acceptances' \subseteq Pairs
  BY <1>1, TypeParts DEF ImportAppend, Pairs
<1>6. QED
  BY <1>2, <1>3, <1>4, <1>5, TypeParts, ContinueDone DEF ImportAppend, histories, sameCustomer

LEMMA RolloutDocumentDone ==
  ASSUME OnboardingTypeOK, NEW p \in Operator, busy(p), OpSound(p), NEW r \in Role,
         RolloutDocument(p, r)
  PROVE  /\ StepDone(p) /\ OthersKept(p) /\ sameCustomer(p)
         /\ ops'[p].step = "upcoming" /\ ops'[p].documents = ops[p].documents
         /\ ops'[p].document = r /\ ops'[p].rolloutVersions = current(r)
         /\ ops'[p].rolledOut = ops[p].rolledOut
<1> DEFINE op == [ops[p] EXCEPT !.step = "upcoming", !.document = r,
                                !.rolloutVersions = current(r)]
<1>1. ops[p] \in Op /\ current(r) \subseteq Version
  BY BusyOp DEF current, newest, versionsOf
<1>2. continue(p, op) /\ r \in ops[p].documents
  BY DEF RolloutDocument
<1>3. /\ op \in Op /\ op.step = "upcoming" /\ op.customer = ops[p].customer
      /\ op.document = r /\ op.rolloutVersions = current(r)
      /\ op.documents = ops[p].documents /\ op.rolledOut = ops[p].rolledOut
  BY <1>1 DEF Op
<1> HIDE DEF op
<1>4. QED
  BY <1>2, <1>3, TypeParts, ContinueDone
  DEF RolloutDocument, readOnly, tables, histories, sameCustomer

LEMMA RolloutUpcomingDone ==
  ASSUME OnboardingTypeOK, NEW p \in Operator, busy(p), OpSound(p), RolloutUpcoming(p)
  PROVE  /\ StepDone(p) /\ OthersKept(p) /\ sameCustomer(p)
         /\ ops'[p].step = "check" /\ ops'[p].documents = ops[p].documents
         /\ ops'[p].document = ops[p].document
         /\ ops'[p].rolloutVersions = ops[p].rolloutVersions \cup upcoming(ops[p].document)
         /\ ops'[p].rolledOut = ops[p].rolledOut
<1> DEFINE vs == ops[p].rolloutVersions \cup upcoming(ops[p].document)
           op == [ops[p] EXCEPT !.step = "check", !.rolloutVersions = vs]
<1>1. /\ ops[p] \in Op /\ vs \subseteq Version /\ ops[p].document \in ops[p].documents
  BY BusyOp DEF upcoming, versionsOf, RolloutUpcoming, OpSound, at
<1>2. continue(p, op)
  BY <1>1 DEF RolloutUpcoming, Op
<1> HIDE DEF vs
<1>3. /\ op \in Op /\ op.step = "check" /\ op.customer = ops[p].customer
      /\ op.document = ops[p].document /\ op.rolloutVersions = vs
      /\ op.documents = ops[p].documents /\ op.rolledOut = ops[p].rolledOut
  BY <1>1 DEF Op
<1> HIDE DEF op
<1>4. QED
  BY <1>1, <1>2, <1>3, TypeParts, ContinueDone
  DEF RolloutUpcoming, readOnly, tables, histories, sameCustomer, vs

LEMMA RolloutCheckDone ==
  ASSUME OnboardingTypeOK, NEW p \in Operator, busy(p), OpSound(p), NEW v \in Version,
         RolloutCheck(p, v)
  PROVE  /\ StepDone(p) /\ OthersKept(p) /\ sameCustomer(p)
         /\ ops'[p].documents = ops[p].documents /\ ops'[p].document = ops[p].document
         /\ ops'[p].rolloutVersions = ops[p].rolloutVersions \ {v}
         /\ rows[ops[p].customer][v] = "none" => ops'[p].step = "row" /\ ops'[p].version = v
         /\ rows[ops[p].customer][v] # "none" => ops'[p].step = "check"
         /\ ops'[p].rolledOut = ops[p].rolledOut
<1> DEFINE none == rows[ops[p].customer][v] = "none"
           vs == ops[p].rolloutVersions \ {v}
           step == IF none THEN "row" ELSE "check"
           version == IF none THEN v ELSE None
           op == [ops[p] EXCEPT !.rolloutVersions = vs, !.version = version, !.step = step]
<1>1. /\ ops[p] \in Op /\ vs \subseteq Version /\ ops[p].document \in ops[p].documents
      /\ version \in Version \cup {None}
  BY BusyOp DEF RolloutCheck, OpSound, at
<1>2. continue(p, op)
  BY <1>1 DEF RolloutCheck, Op
<1>3. /\ step \in {"row", "check"} /\ (step = "row" => version \in Version)
      /\ none => step = "row" /\ version = v
      /\ ~none => step = "check"
  OBVIOUS
<1> HIDE DEF none, vs, step, version
<1>4. /\ op \in Op /\ op.step = step /\ op.customer = ops[p].customer /\ op.version = version
      /\ op.document = ops[p].document /\ op.rolloutVersions = vs
      /\ op.documents = ops[p].documents /\ op.rolledOut = ops[p].rolledOut
  BY <1>1, <1>3 DEF Op
<1> HIDE DEF op
<1>5. StepDone(p) /\ ops'[p] = op /\ OthersKept(p)
  BY <1>1, <1>2, <1>3, <1>4, TypeParts, ContinueDone
  DEF RolloutCheck, readOnly, tables, histories
<1>6. QED
  BY <1>3, <1>4, <1>5 DEF sameCustomer, none, vs

LEMMA RolloutRowDone ==
  ASSUME OnboardingTypeOK, NEW p \in Operator, busy(p), OpSound(p), RolloutRow(p)
  PROVE  /\ StepDone(p) /\ OthersKept(p) /\ sameCustomer(p) /\ ops[p].version \in Version
         /\ ops'[p].step = "check" /\ ops'[p].documents = ops[p].documents
         /\ ops'[p].document = ops[p].document
         /\ ops'[p].rolloutVersions = ops[p].rolloutVersions
         /\ ops'[p].rolledOut = ops[p].rolledOut \cup {ops[p].version}
<1> DEFINE out == ops[p].rolledOut \cup {ops[p].version}
           op == [ops[p] EXCEPT !.step = "check", !.version = None, !.rolledOut = out]
<1>1. /\ ops[p] \in Op /\ ops[p].customer \in Customer /\ ops[p].version \in Version
      /\ out \subseteq Version /\ ops[p].document \in ops[p].documents
  BY BusyOp DEF RolloutRow, OpSound, at
<1>2. continue(p, op)
  BY <1>1 DEF RolloutRow, Op
<1> HIDE DEF out
<1>3. /\ op \in Op /\ op.step = "check" /\ op.customer = ops[p].customer
      /\ op.document = ops[p].document /\ op.rolloutVersions = ops[p].rolloutVersions
      /\ op.documents = ops[p].documents /\ op.rolledOut = out
  BY <1>1 DEF Op
<1> HIDE DEF op
<1>4. rows' \in Rows
  BY <1>1, InsertedRow DEF RolloutRow
<1>5. QED
  BY <1>1, <1>2, <1>3, <1>4, TypeParts, ContinueDone DEF RolloutRow, histories, sameCustomer, out

LEMMA RolloutNextDocumentDone ==
  ASSUME OnboardingTypeOK, NEW p \in Operator, busy(p), OpSound(p), RolloutNextDocument(p)
  PROVE  /\ StepDone(p) /\ OthersKept(p) /\ sameCustomer(p)
         /\ ops'[p].step = "rollout"
         /\ ops'[p].documents = ops[p].documents \ {ops[p].document}
         /\ ops'[p].rolledOut = ops[p].rolledOut
<1> DEFINE left == ops[p].documents \ {ops[p].document}
           op == [ops[p] EXCEPT !.step = "rollout", !.documents = left, !.document = None]
<1>1. ops[p] \in Op /\ left \subseteq Role
  BY BusyOp
<1>2. continue(p, op)
  BY <1>1 DEF RolloutNextDocument, Op
<1> HIDE DEF left
<1>3. /\ op \in Op /\ op.step = "rollout" /\ op.customer = ops[p].customer
      /\ op.documents = left /\ op.rolledOut = ops[p].rolledOut
  BY <1>1 DEF Op
<1> HIDE DEF op
<1>4. QED
  BY <1>2, <1>3, TypeParts, ContinueDone
  DEF RolloutNextDocument, readOnly, tables, histories, sameCustomer, left

LEMMA RolloutEndDone ==
  ASSUME OnboardingTypeOK, NEW p \in Operator, busy(p), OpSound(p), RolloutEnd(p)
  PROVE  /\ StepDone(p) /\ OthersKept(p)
         /\ busy(p)' => /\ sameCustomer(p) /\ ops'[p].rolledOut = ops[p].rolledOut
                        /\ ops'[p].documents = {} /\ ops'[p].step = "notify"
<1> DEFINE op == [ops[p] EXCEPT !.step = "notify"]
           next == IF ops[p].customer \in Reachable /\ ops[p].rolledOut # {} THEN op ELSE NoOp
<1>1. ops[p] \in Op /\ ops[p].documents = {} /\ continue(p, next)
  BY BusyOp DEF RolloutEnd
<1>2. /\ op \in Op /\ op.step = "notify" /\ op.customer = ops[p].customer
      /\ op.documents = {} /\ op.rolledOut = ops[p].rolledOut
  BY <1>1 DEF Op
<1>3. next \in {op, NoOp}
  OBVIOUS
<1> HIDE DEF op, next
<1>4. StepDone(p) /\ ops'[p] = next /\ OthersKept(p)
  BY <1>1, <1>2, <1>3, TypeParts, ContinueDone
  DEF RolloutEnd, readOnly, tables, histories
<1>5. QED
  BY <1>2, <1>3, <1>4 DEF busy, sameCustomer

LEMMA NotifyDone ==
  ASSUME OnboardingTypeOK, NEW p \in Operator, busy(p), OpSound(p), NEW v \in Version,
         Notify(p, v) \/ NotifyFails(p, v)
  PROVE  /\ StepDone(p) /\ OthersKept(p)
         /\ busy(p)' => /\ sameCustomer(p) /\ ops'[p].rolledOut \subseteq ops[p].rolledOut
                        /\ ops'[p].documents = {} /\ ops'[p].step = "notify"
<1> DEFINE left == ops[p].rolledOut \ {v}
           op == [ops[p] EXCEPT !.rolledOut = left]
           next == IF left = {} THEN NoOp ELSE op
<1>1. /\ ops[p] \in Op /\ ops[p].customer \in Customer /\ ops[p].step = "notify"
      /\ ops[p].documents = {} /\ left \subseteq Version /\ left \subseteq ops[p].rolledOut
  BY BusyOp DEF Notify, NotifyFails, OpSound, at
<1>2. continue(p, next)
  BY DEF Notify, NotifyFails, notified
<1> HIDE DEF left
<1>3. /\ op \in Op /\ op.step = "notify" /\ op.customer = ops[p].customer
      /\ op.documents = {} /\ op.rolledOut = left
  BY <1>1 DEF Op
<1>4. next \in {op, NoOp}
  OBVIOUS
<1>5. mailed' \subseteq Pairs
  BY <1>1, TypeParts DEF Notify, NotifyFails, tables, Pairs
<1> HIDE DEF op, next
<1>6. StepDone(p) /\ ops'[p] = next /\ OthersKept(p)
  BY <1>2, <1>3, <1>4, <1>5, TypeParts, ContinueDone
  DEF Notify, NotifyFails, tables, histories
<1>7. QED
  BY <1>1, <1>3, <1>4, <1>6 DEF busy, sameCustomer

-----------------------------------------------------------------------------
(* Nobody slips through. *)

RowsStay ==
  \A c \in Customer, v \in Version : rows[c][v] # "none" => rows'[c][v] # "none"

LEMMA InsertedStays ==
  ASSUME OnboardingTypeOK, NEW c \in Customer, NEW v \in Version,
         NEW state \in {"PENDING_NOTIFICATION", "ACCEPTED"}, insertRow(c, v, state)
  PROVE  RowsStay
BY InsertedRow DEF RowsStay

LEMMA HolderTypes ==
  ASSUME OnboardingTypeOK, NEW c \in Customer, NEW r \in rolesOf(c),
         NEW v \in current(r) \cup upcoming(r)
  PROVE  r \in Role /\ v \in Version /\ AudienceOf[v] = r /\ Published(v)
<1>1. r \in Role
  BY KnownRow DEF rolesOf, CustomerRow
<1>2. QED
  BY <1>1 DEF current, upcoming, newest, versionsOf

LEMMA OwedByOthers ==
  ASSUME OnboardingTypeOK, NEW p \in Operator, OthersStay(p), UNCHANGED versions,
         NEW q \in Operator, q # p, NEW c, NEW r, NEW v, owedBy(q, c, r, v)
  PROVE  owedBy(q, c, r, v)'
<1>1. busy(q)
  BY DEF owedBy
<1>2. /\ busy(q)'
      /\ ops'[q].step = ops[q].step /\ ops'[q].customer = ops[q].customer
      /\ ops'[q].documents = ops[q].documents /\ ops'[q].document = ops[q].document
      /\ ops'[q].rolloutVersions = ops[q].rolloutVersions /\ ops'[q].version = ops[q].version
  BY <1>1, OthersAsBefore
<1>3. upcoming(r)' = upcoming(r)
  BY DEF upcoming, versionsOf, Published
<1>4. QED
  BY <1>2, <1>3 DEF owedBy, at

LEMMA AskedNow ==
  ASSUME OnboardingTypeOK, NEW p \in Operator, OthersStay(p), UNCHANGED <<versions, publication>>,
         excused \subseteq excused', RowsStay,
         NEW c \in Customer, NEW r, NEW v \in Version, asked(c, r, v),
         owedBy(p, c, r, v) => asked(c, r, v)'
  PROVE  asked(c, r, v)'
<1>1. CASE rows[c][v] # "none"
  BY <1>1 DEF RowsStay, asked
<1>2. CASE owedByPublish(c, v)
  BY <1>2 DEF owedByPublish, asked
<1>3. CASE <<c, v>> \in excused
  BY <1>3 DEF asked
<1>4. ASSUME NEW q \in Operator, owedBy(q, c, r, v) PROVE asked(c, r, v)'
  <2>1. CASE q = p
    BY <1>4, <2>1
  <2>2. CASE q # p
    <3>1. owedBy(q, c, r, v)'
      BY <1>4, <2>2, OwedByOthers
    <3>2. QED
      BY <3>1 DEF asked
  <2>3. QED
    BY <2>1, <2>2
<1>5. QED
  BY <1>1, <1>2, <1>3, <1>4 DEF asked

LEMMA StopExcuses ==
  ASSUME OnboardingTypeOK, NEW p \in Operator, leaveUnasked(p),
         NEW c \in Customer, NEW r \in Role, NEW v \in Version, AudienceOf[v] = r, Published(v),
         owedBy(p, c, r, v)
  PROVE  <<c, v>> \in excused'
BY DEF leaveUnasked, owedBy, publishedOf

(* The awaits that write no customer. *)
LEMMA AwaitAsks ==
  ASSUME OnboardingTypeOK, NEW p \in Operator, busy(p), OpSound(p),
         OpProgress(p) \/ OpDies(p), ~CustomerSave(p), ~SoftDelete(p),
         NEW c \in Customer, NEW r \in Role, NEW v \in Version, AudienceOf[v] = r, Published(v),
         v \in current(r) \cup upcoming(r), UNCHANGED versions,
         owedBy(p, c, r, v)
  PROVE  asked(c, r, v)'
<1>0. /\ ops[p].customer = c /\ r \in ops[p].documents /\ busy(p)
      /\ ops[p].step \notin {"save", "delete", "notify"}
  BY DEF owedBy, OpSound
<1>a. ASSUME owedBy(p, c, r, v)' PROVE asked(c, r, v)'
  BY <1>a DEF asked
<1>b. ASSUME rows'[c][v] # "none" PROVE asked(c, r, v)'
  BY <1>b DEF asked
<1>c. upcoming(r)' = upcoming(r)
  BY DEF upcoming, versionsOf, Published
<1>1. ASSUME NEW w \in Version, ImportRow(p, w) PROVE asked(c, r, v)'
  <2>1. ops'[p].step = "append" /\ ops'[p].documents = ops[p].documents /\ sameCustomer(p)
    BY <1>1, ImportRowDone
  <2>2. owedBy(p, c, r, v)'
    BY <1>0, <2>1 DEF owedBy, at, sameCustomer, busy, NoOp
  <2>3. QED
    BY <1>a, <2>2
<1>2. CASE ImportAppend(p)
  <2>1. /\ ops'[p].step \in {"rollout", "import"} /\ ops'[p].documents = ops[p].documents
        /\ sameCustomer(p)
    BY <1>2, ImportAppendDone
  <2>2. owedBy(p, c, r, v)'
    BY <1>0, <2>1 DEF owedBy, at, sameCustomer, busy, NoOp
  <2>3. QED
    BY <1>a, <2>2
<1>3. ASSUME NEW d \in Role, RolloutDocument(p, d) PROVE asked(c, r, v)'
  <2>1. /\ ops'[p].step = "upcoming" /\ ops'[p].documents = ops[p].documents /\ sameCustomer(p)
        /\ ops'[p].document = d /\ ops'[p].rolloutVersions = current(d)
    BY <1>3, RolloutDocumentDone
  <2>2. owedBy(p, c, r, v)'
    BY <1>0, <1>c, <2>1 DEF owedBy, at, sameCustomer, busy, NoOp
  <2>3. QED
    BY <1>a, <2>2
<1>4. CASE RolloutUpcoming(p)
  <2>1. /\ ops'[p].step = "check" /\ ops'[p].documents = ops[p].documents /\ sameCustomer(p)
        /\ ops'[p].document = ops[p].document
        /\ ops'[p].rolloutVersions = ops[p].rolloutVersions \cup upcoming(ops[p].document)
    BY <1>4, RolloutUpcomingDone
  <2>2. at(p, "upcoming")
    BY <1>4 DEF RolloutUpcoming
  <2>3. owedBy(p, c, r, v)'
    BY <1>0, <2>1, <2>2 DEF owedBy, at, sameCustomer, busy, NoOp
  <2>4. QED
    BY <1>a, <2>3
<1>5. ASSUME NEW w \in Version, RolloutCheck(p, w) PROVE asked(c, r, v)'
  <2>1. /\ ops'[p].documents = ops[p].documents /\ ops'[p].document = ops[p].document
        /\ ops'[p].rolloutVersions = ops[p].rolloutVersions \ {w} /\ sameCustomer(p)
        /\ rows[ops[p].customer][w] = "none" => ops'[p].step = "row" /\ ops'[p].version = w
        /\ rows[ops[p].customer][w] # "none" => ops'[p].step = "check"
    BY <1>5, RolloutCheckDone
  <2>2. at(p, "check") /\ UNCHANGED rows
    BY <1>5 DEF RolloutCheck, readOnly, tables
  <2>3. CASE rows[c][w] # "none"
    <3>1. CASE v = w
      BY <1>b, <2>2, <2>3, <3>1
    <3>2. CASE v # w
      <4>1. owedBy(p, c, r, v)'
        BY <1>0, <2>1, <2>2, <2>3, <3>2 DEF owedBy, at, sameCustomer, busy, NoOp
      <4>2. QED
        BY <1>a, <4>1
    <3>3. QED
      BY <3>1, <3>2
  <2>4. CASE rows[c][w] = "none"
    <3>1. owedBy(p, c, r, v)'
      BY <1>0, <2>1, <2>2, <2>4 DEF owedBy, at, sameCustomer, busy, NoOp
    <3>2. QED
      BY <1>a, <3>1
  <2>5. QED
    BY <2>3, <2>4
<1>6. CASE RolloutRow(p)
  <2>1. /\ ops'[p].step = "check" /\ ops'[p].documents = ops[p].documents /\ sameCustomer(p)
        /\ ops'[p].document = ops[p].document /\ ops[p].version \in Version
        /\ ops'[p].rolloutVersions = ops[p].rolloutVersions
    BY <1>6, RolloutRowDone
  <2>2. at(p, "row") /\ rows'[c][ops[p].version] = "PENDING_NOTIFICATION"
    BY <1>0, <1>6, <2>1, InsertedRow DEF RolloutRow
  <2>3. CASE v = ops[p].version
    BY <1>b, <2>2, <2>3
  <2>4. CASE v # ops[p].version
    <3>1. owedBy(p, c, r, v)'
      BY <1>0, <2>1, <2>2, <2>4 DEF owedBy, at, sameCustomer, busy, NoOp
    <3>2. QED
      BY <1>a, <3>1
  <2>5. QED
    BY <2>3, <2>4
<1>7. CASE RolloutNextDocument(p)
  <2>1. /\ ops'[p].step = "rollout" /\ sameCustomer(p)
        /\ ops'[p].documents = ops[p].documents \ {ops[p].document}
    BY <1>7, RolloutNextDocumentDone
  <2>2. ops[p].document # r
    BY <1>7 DEF RolloutNextDocument, owedBy
  <2>3. owedBy(p, c, r, v)'
    BY <1>0, <2>1, <2>2 DEF owedBy, at, sameCustomer, busy, NoOp
  <2>4. QED
    BY <1>a, <2>3
<1>8. CASE RolloutEnd(p)
  BY <1>0, <1>8 DEF RolloutEnd
<1>9. ASSUME NEW w \in Version, Notify(p, w) \/ NotifyFails(p, w) PROVE asked(c, r, v)'
  BY <1>0, <1>9 DEF Notify, NotifyFails, at
<1>10. CASE OpDies(p) \/ RolloutRefused(p) \/ \E w \in Version : ImportRefused(p, w)
  <2>1. leaveUnasked(p)
    BY <1>10 DEF OpDies, RolloutRefused, ImportRefused, refused
  <2>2. <<c, v>> \in excused'
    BY <2>1, StopExcuses
  <2>3. QED
    BY <2>2 DEF asked
<1>11. QED
  BY <1>1, <1>2, <1>3, <1>4, <1>5, <1>6, <1>7, <1>8, <1>9, <1>10 DEF OpProgress

LEMMA AwaitDone ==
  ASSUME OnboardingTypeOK, NEW p \in Operator, busy(p), OpSound(p),
         OpProgress(p) \/ OpDies(p), ~CustomerSave(p), ~SoftDelete(p)
  PROVE  /\ StepDone(p) /\ OthersKept(p) /\ RowsStay
         /\ UNCHANGED <<customers, versions, publication, due, raced>> /\ excused \subseteq excused'
<1>0. ops[p].customer \in Customer
  BY BusyOp
<1>1. ASSUME UNCHANGED rows PROVE RowsStay
  BY <1>1 DEF RowsStay
<1>2. ASSUME NEW v \in Version, ImportRow(p, v)
      PROVE  /\ StepDone(p) /\ OthersKept(p) /\ RowsStay
             /\ UNCHANGED <<customers, versions, publication, due, raced, excused>>
  BY <1>0, <1>2, ImportRowDone, InsertedStays DEF ImportRow, histories
<1>3. CASE ImportAppend(p)
  BY <1>1, <1>3, ImportAppendDone DEF ImportAppend, histories
<1>4. ASSUME NEW r \in Role, RolloutDocument(p, r)
      PROVE  /\ StepDone(p) /\ OthersKept(p) /\ RowsStay
             /\ UNCHANGED <<customers, versions, publication, due, raced, excused>>
  BY <1>1, <1>4, RolloutDocumentDone DEF RolloutDocument, readOnly, tables, histories
<1>5. CASE RolloutUpcoming(p)
  BY <1>1, <1>5, RolloutUpcomingDone DEF RolloutUpcoming, readOnly, tables, histories
<1>6. ASSUME NEW v \in Version, RolloutCheck(p, v)
      PROVE  /\ StepDone(p) /\ OthersKept(p) /\ RowsStay
             /\ UNCHANGED <<customers, versions, publication, due, raced, excused>>
  BY <1>1, <1>6, RolloutCheckDone DEF RolloutCheck, readOnly, tables, histories
<1>7. CASE RolloutRow(p)
  BY <1>0, <1>7, RolloutRowDone, InsertedStays DEF RolloutRow, histories
<1>8. CASE RolloutNextDocument(p)
  BY <1>1, <1>8, RolloutNextDocumentDone DEF RolloutNextDocument, readOnly, tables, histories
<1>9. CASE RolloutEnd(p)
  BY <1>1, <1>9, RolloutEndDone DEF RolloutEnd, readOnly, tables, histories
<1>10. ASSUME NEW v \in Version, Notify(p, v) \/ NotifyFails(p, v)
       PROVE  /\ StepDone(p) /\ OthersKept(p) /\ RowsStay
              /\ UNCHANGED <<customers, versions, publication, due, raced, excused>>
  BY <1>1, <1>10, NotifyDone DEF Notify, NotifyFails, tables, histories
<1>11. CASE OpDies(p) \/ RolloutRefused(p) \/ \E w \in Version : ImportRefused(p, w)
  <2>1. leaveUnasked(p) /\ UNCHANGED <<tables, publication, raced>>
    BY <1>11 DEF OpDies, RolloutRefused, ImportRefused, refused
  <2>2. excused \subseteq excused'
    BY <2>1 DEF leaveUnasked
  <2>3. QED
    BY <1>1, <2>1, <2>2, StopDone DEF tables
<1>12. QED
  BY <1>2, <1>3, <1>4, <1>5, <1>6, <1>7, <1>8, <1>9, <1>10, <1>11 DEF OpProgress

LEMMA SameReadings ==
  ASSUME UNCHANGED <<customers, versions>>
  PROVE  /\ \A c : rolesOf(c)' = rolesOf(c)
         /\ \A r : current(r)' = current(r) /\ upcoming(r)' = upcoming(r)
BY DEF rolesOf, known, current, upcoming, newest, versionsOf, Published

LEMMA AwaitKeepsAsked ==
  ASSUME OnboardingTypeOK, HoldersAreAsked, NEW p \in Operator, busy(p), OpSound(p),
         OpProgress(p) \/ OpDies(p), ~CustomerSave(p), ~SoftDelete(p)
  PROVE  HoldersAreAsked'
<1>1. /\ OthersStay(p) /\ RowsStay /\ excused \subseteq excused'
      /\ UNCHANGED <<customers, versions, publication>>
  BY AwaitDone DEF StepDone
<1>2. SUFFICES ASSUME NEW c \in Customer, NEW r \in rolesOf(c)',
                      NEW v \in current(r)' \cup upcoming(r)'
               PROVE  asked(c, r, v)'
  BY DEF HoldersAreAsked
<1>3. r \in rolesOf(c) /\ v \in current(r) \cup upcoming(r)
  BY <1>1, <1>2, SameReadings
<1>4. /\ r \in Role /\ v \in Version /\ AudienceOf[v] = r /\ Published(v) /\ asked(c, r, v)
  BY <1>3, HolderTypes DEF HoldersAreAsked
<1>5. owedBy(p, c, r, v) => asked(c, r, v)'
  BY <1>1, <1>3, <1>4, AwaitAsks
<1>6. QED
  BY <1>1, <1>4, <1>5, AskedNow

LEMMA BeginKeepsAsked ==
  ASSUME OnboardingTypeOK, HoldersAreAsked, NEW p \in Operator, NEW op \in Op, begin(p, op)
  PROVE  HoldersAreAsked'
<1>1. /\ OthersStay(p) /\ ~busy(p) /\ excused \subseteq excused'
      /\ UNCHANGED <<customers, versions, publication, rows>>
  BY Continued, KeptStays DEF begin, tables, histories
<1>2. RowsStay
  BY <1>1 DEF RowsStay
<1>3. SUFFICES ASSUME NEW c \in Customer, NEW r \in rolesOf(c)',
                      NEW v \in current(r)' \cup upcoming(r)'
               PROVE  asked(c, r, v)'
  BY DEF HoldersAreAsked
<1>4. r \in rolesOf(c) /\ v \in current(r) \cup upcoming(r)
  BY <1>1, <1>3, SameReadings
<1>5. v \in Version /\ asked(c, r, v)
  BY <1>4, HolderTypes DEF HoldersAreAsked
<1>6. ~owedBy(p, c, r, v)
  BY <1>1 DEF owedBy
<1>7. QED
  BY <1>1, <1>2, <1>5, <1>6, AskedNow

(* A role that comes with a save is rolled out, or was there, or is excused. *)
LEMMA SaveKeepsAsked ==
  ASSUME OnboardingTypeOK, HoldersAreAsked, NEW p \in Operator, busy(p), OpSound(p),
         CustomerSave(p)
  PROVE  HoldersAreAsked'
<1> DEFINE op == ops[p]
<1>1. /\ op \in Op /\ op.customer \in Customer /\ op.saved \in CustomerRow
      /\ op.documents = {} /\ at(p, "save")
  BY BusyOp DEF CustomerSave, OpSound, at
<1> DEFINE next == [op EXCEPT !.documents = addedRoles(op),
                              !.step = IF op.imports = {} THEN "rollout" ELSE "import"]
           then == IF addedRoles(op) = {} THEN NoOp ELSE next
<1>2. writeCustomer(p, op.saved, then)
  BY DEF CustomerSave
<1>3. StepDone(p)
  BY SaveDone
<1>4. addedRoles(op) \subseteq Role
  BY <1>1 DEF addedRoles, CustomerRow
<1>5. /\ next \in Op /\ next.documents = addedRoles(op) /\ next.customer = op.customer
      /\ next.step \in {"rollout", "import"}
  BY <1>1, <1>4 DEF Op
<1> HIDE DEF next
<1>6. then \in Op \cup {NoOp}
  BY <1>5
<1>7. /\ customers'[op.customer] = op.saved
      /\ \A c \in Customer : c # op.customer => customers'[c] = customers[c]
      /\ excused \subseteq excused' /\ ops'[p] = then
  BY <1>1, <1>2, <1>6, SavedCustomer
<1>8. /\ UNCHANGED <<versions, rows, publication>> /\ OthersStay(p)
      /\ excused' = excused \cup ({op.customer} \X publishedOf(unannouncedRoles(op)))
  BY <1>2, <1>3 DEF CustomerSave, writeCustomer, StepDone
<1>9. RowsStay
  BY <1>8 DEF RowsStay
<1>10. SUFFICES ASSUME NEW c \in Customer, NEW r \in rolesOf(c)',
                       NEW v \in current(r)' \cup upcoming(r)'
                PROVE  asked(c, r, v)'
  BY DEF HoldersAreAsked
<1>11. v \in current(r) \cup upcoming(r)
  BY <1>8, <1>10 DEF current, upcoming, newest, versionsOf, Published
<1>12. CASE r \in rolesOf(c)
  <2>1. v \in Version /\ asked(c, r, v)
    BY <1>11, <1>12, HolderTypes DEF HoldersAreAsked
  <2>2. ~owedBy(p, c, r, v)
    BY <1>1 DEF owedBy
  <2>3. QED
    BY <1>8, <1>9, <2>1, <2>2, AskedNow
<1>13. CASE r \notin rolesOf(c)
  <2>1. c = op.customer
    BY <1>7, <1>10, <1>13 DEF rolesOf, known
  <2>2. r \in op.saved.roles
    BY <1>7, <1>10, <2>1 DEF rolesOf
  <2>3. v \in Version /\ AudienceOf[v] = r /\ Published(v)
    <3>1. r \in Role
      BY <1>1, <2>2 DEF CustomerRow
    <3>2. QED
      BY <1>11, <3>1 DEF current, upcoming, newest, versionsOf
  <2>4. CASE r \in addedRoles(op)
    <3>1. ops'[p] = next
      BY <1>7, <2>4
    <3>2. owedBy(p, c, r, v)'
      BY <1>5, <2>1, <2>4, <3>1 DEF owedBy, at, busy, NoOp
    <3>3. QED
      BY <3>2 DEF asked
  <2>5. CASE r \notin addedRoles(op)
    <3>a. op.kind \in {"create", "update", "reactivate"}
      BY <1>1 DEF OpSound, Op
    <3>1. r \in unannouncedRoles(op)
      <4>1. CASE op.kind = "reactivate"
        BY <1>13, <2>1, <2>2, <4>1 DEF unannouncedRoles
      <4>2. CASE op.kind = "update"
        BY <1>13, <2>1, <2>2, <2>5, <4>2 DEF addedRoles, unannouncedRoles
      <4>3. QED
        BY <2>2, <2>5, <3>a, <4>1, <4>2 DEF addedRoles
    <3>2. <<c, v>> \in excused'
      BY <1>8, <2>1, <2>3, <3>1 DEF publishedOf
    <3>3. QED
      BY <3>2 DEF asked
  <2>6. QED
    BY <2>4, <2>5
<1>14. QED
  BY <1>12, <1>13

LEMMA DeleteKeepsAsked ==
  ASSUME OnboardingTypeOK, HoldersAreAsked, NEW p \in Operator, busy(p), OpSound(p),
         SoftDelete(p)
  PROVE  HoldersAreAsked'
<1> DEFINE d == ops[p].customer
           row == [customers[d] EXCEPT !.deleted = TRUE]
<1>1. d \in Customer /\ known(d) /\ ops[p].documents = {}
  BY BusyOp DEF SoftDelete, OpSound, at
<1>2. row \in CustomerRow /\ row.roles = customers[d].roles
  BY <1>1, KnownRow DEF CustomerRow
<1>3. writeCustomer(p, row, NoOp)
  BY DEF SoftDelete
<1> HIDE DEF row
<1>4. /\ customers'[d] = row /\ \A c \in Customer : c # d => customers'[c] = customers[c]
      /\ \A c \in Customer : known(c) => known(c)'
      /\ excused \subseteq excused' /\ OthersStay(p)
  BY <1>2, <1>3, SavedCustomer, SaverOvertakes
<1>5. UNCHANGED <<versions, rows, publication>>
  BY DEF SoftDelete
<1>6. RowsStay
  BY <1>5 DEF RowsStay
<1>7. SUFFICES ASSUME NEW c \in Customer, NEW r \in rolesOf(c)',
                      NEW v \in current(r)' \cup upcoming(r)'
               PROVE  asked(c, r, v)'
  BY DEF HoldersAreAsked
<1>8. v \in current(r) \cup upcoming(r)
  BY <1>5, <1>7 DEF current, upcoming, newest, versionsOf, Published
<1>9. r \in rolesOf(c)
  BY <1>1, <1>2, <1>4, <1>7 DEF rolesOf, known
<1>10. v \in Version /\ asked(c, r, v)
  BY <1>8, <1>9, HolderTypes DEF HoldersAreAsked
<1>11. ~owedBy(p, c, r, v)
  BY <1>1 DEF owedBy
<1>12. QED
  BY <1>4, <1>5, <1>6, <1>10, <1>11, AskedNow

-----------------------------------------------------------------------------
(* The publish. *)

LEMMA Publishes ==
  ASSUME OnboardingTypeOK, publication # NoPublication
  PROVE  /\ publication \in Publication /\ publication.version \in Version
         /\ publication.targets \subseteq Customer
BY TypeParts DEF Publication

PublishSteps ==
  \/ PublishSave \/ PublishRetire \/ PublishTargets \/ PublishReturn \/ PublishDies
  \/ \E c \in Customer : PublishRollout(c) \/ PublishRefused(c)

LEMMA PublishRunning ==
  ASSUME OnboardingTypeOK, PublishSteps
  PROVE  /\ publication # NoPublication
         /\ publication \in Publication /\ publication.version \in Version
         /\ publication.targets \subseteq Customer
<1>1. CASE PublishDies
  BY <1>1, Publishes DEF PublishDies
<1>2. CASE ~PublishDies
  <2>1. publication.step \in {"save", "retire", "targets", "rollout"}
    BY <1>2 DEF PublishSteps, PublishSave, PublishRetire, PublishTargets, PublishReturn,
                PublishRollout, PublishRefused
  <2>2. publication # NoPublication
    BY <2>1 DEF NoPublication
  <2>3. QED
    BY <2>2, Publishes
<1>3. QED
  BY <1>1, <1>2

LEMMA EndsPublish ==
  ASSUME OnboardingTypeOK, publication \in Publication, endPublish
  PROVE  /\ publication' = NoPublication /\ excused' \subseteq Pairs /\ excused \subseteq excused'
         /\ \A c \in Customer :
              owedByPublish(c, publication.version) => <<c, publication.version>> \in excused'
<1>1. publication.version \in Version /\ publication.targets \subseteq Customer
  BY DEF Publication
<1>2. QED
  BY <1>1, TypeParts DEF endPublish, owedByPublish, Pairs

LEMMA PublishDone ==
  ASSUME OnboardingTypeOK, PublishStep
  PROVE  OnboardingTypeOK' /\ RowsStay /\ excused \subseteq excused' /\ duringPublish
<1> USE DEF duringPublish
<1> DEFINE v == publication.version
<1>0. UNCHANGED rows => RowsStay
  BY DEF RowsStay
<1>1. ASSUME NEW w \in Version, PublishRead(w)
      PROVE  OnboardingTypeOK' /\ RowsStay /\ excused \subseteq excused' /\ duringPublish
  <2>1. [step |-> "save", version |-> w, targets |-> {}] \in Publication
    BY DEF Publication
  <2>2. QED
    BY <1>0, <1>1, <2>1, TypeParts, Typed DEF PublishRead
<1>2. CASE PublishSave
  <2>1. publication \in Publication /\ v \in Version
    BY <1>2, PublishRunning DEF PublishSteps
  <2>2. versions' \in [Version -> [status : Status, publishedAt : 0..Today]]
    <3>1. [status |-> "PUBLISHED", publishedAt |-> Today] \in [status : Status, publishedAt : 0..Today]
      BY OnboardingAssumption DEF Status
    <3>2. QED
      BY <1>2, <2>1, <3>1, TypeParts DEF PublishSave
  <2>3. publication' \in Publication
    BY <1>2, <2>1 DEF PublishSave, to, Publication
  <2>4. QED
    BY <1>0, <1>2, <2>2, <2>3, TypeParts, Typed DEF PublishSave
<1>3. CASE PublishRetire
  <2>1. publication \in Publication /\ v \in Version
    BY <1>3, PublishRunning DEF PublishSteps
  <2>2. versions' \in [Version -> [status : Status, publishedAt : 0..Today]]
    <3>1. \A w \in Version : [versions[w] EXCEPT !.status = "RETIRED"]
                             \in [status : Status, publishedAt : 0..Today]
      BY TypeParts DEF Status
    <3>2. QED
      BY <1>3, <3>1, TypeParts DEF PublishRetire
  <2>3. publication' \in Publication
    BY <1>3, <2>1 DEF PublishRetire, to, Publication
  <2>4. rows' \in Rows /\ RowsStay
    BY <1>3, TypeParts DEF PublishRetire, Rows, RowsStay
  <2>5. QED
    BY <1>3, <2>2, <2>3, <2>4, TypeParts, Typed DEF PublishRetire
<1>4. CASE PublishTargets
  <2>1. publication \in Publication
    BY <1>4, PublishRunning DEF PublishSteps
  <2>2. findByRole(AudienceOf[v]) \subseteq Customer
    BY DEF findByRole
  <2>3. publication' \in Publication
    BY <1>4, <2>1, <2>2 DEF PublishTargets, Publication
  <2>4. QED
    BY <1>0, <1>4, <2>3, TypeParts, Typed DEF PublishTargets
<1>5. ASSUME NEW c \in Customer, PublishRollout(c)
      PROVE  OnboardingTypeOK' /\ RowsStay /\ excused \subseteq excused' /\ duringPublish
  <2>1. publication \in Publication /\ v \in Version
    BY <1>5, PublishRunning DEF PublishSteps
  <2>2. rows' \in Rows /\ RowsStay
    BY <1>5, <2>1, InsertedRow, InsertedStays DEF PublishRollout
  <2>3. publication' \in Publication
    BY <1>5, <2>1 DEF PublishRollout, Publication
  <2>4. due' \subseteq Pairs
    BY <1>5, <2>1, TypeParts DEF PublishRollout, Pairs
  <2>5. QED
    BY <1>5, <2>2, <2>3, <2>4, TypeParts, Typed DEF PublishRollout
<1>6. CASE PublishReturn
  BY <1>0, <1>6, TypeParts, Typed DEF PublishReturn
<1>7. CASE PublishDies \/ \E c \in Customer : PublishRefused(c)
  <2>1. publication \in Publication
    BY <1>7, PublishRunning DEF PublishSteps
  <2>2. endPublish /\ duringPublish /\ UNCHANGED <<versions, rows, due>>
    BY <1>7 DEF PublishDies, PublishRefused
  <2>3. /\ publication' = NoPublication /\ excused' \subseteq Pairs
        /\ excused \subseteq excused'
    BY <2>1, <2>2, EndsPublish
  <2>4. QED
    BY <1>0, <2>2, <2>3, TypeParts, Typed
<1>8. QED
  BY <1>1, <1>2, <1>3, <1>4, <1>5, <1>6, <1>7 DEF PublishStep

LEMMA OwedDuringPublish ==
  ASSUME duringPublish, NEW c, NEW r, NEW v,
         v \in upcoming(r) => v \in upcoming(r)',
         NEW q \in Operator, owedBy(q, c, r, v)
  PROVE  owedBy(q, c, r, v)'
BY DEF owedBy, at, busy, duringPublish

LEMMA AskedDuringPublish ==
  ASSUME OnboardingTypeOK, duringPublish, RowsStay, excused \subseteq excused',
         NEW c \in Customer, NEW r, NEW v \in Version, asked(c, r, v),
         v \in upcoming(r) => v \in upcoming(r)',
         owedByPublish(c, v) => asked(c, r, v)'
  PROVE  asked(c, r, v)'
<1>1. CASE rows[c][v] # "none"
  BY <1>1 DEF RowsStay, asked
<1>2. CASE owedByPublish(c, v)
  BY <1>2
<1>3. CASE <<c, v>> \in excused
  BY <1>3 DEF asked
<1>4. ASSUME NEW q \in Operator, owedBy(q, c, r, v) PROVE asked(c, r, v)'
  BY <1>4, OwedDuringPublish DEF asked
<1>5. QED
  BY <1>1, <1>2, <1>3, <1>4 DEF asked

LEMMA SavedReadings ==
  ASSUME OnboardingTypeOK, PublishSave, NEW r, NEW v, v # publication.version
  PROVE  /\ v \in current(r)' => v \in current(r)
         /\ v \in upcoming(r)' <=> v \in upcoming(r)
<1> DEFINE pv == publication.version
<1>1. /\ versions' = [versions EXCEPT ![pv] = [status |-> "PUBLISHED", publishedAt |-> Today]]
  BY DEF PublishSave
<1>2. \A w \in Version : w # pv => versions'[w] = versions[w]
  BY <1>1, TypeParts
<1>3. \A w \in Version : versions[w].publishedAt \in 0..Today
  BY TypeParts
<1>4. pv \in Version => versions'[pv].status = "PUBLISHED" /\ versions'[pv].publishedAt = Today
  BY <1>1, TypeParts
<1>5. v \in upcoming(r)' <=> v \in upcoming(r)
  BY <1>2 DEF upcoming, versionsOf, Published
<1>6. ASSUME v \in current(r)' PROVE v \in current(r)
  <2>1. /\ v \in Version /\ AudienceOf[v] = r /\ versions'[v].status = "PUBLISHED"
        /\ ValidFrom[v] <= Today
        /\ \A w \in Version :
             AudienceOf[w] = r /\ versions'[w].status = "PUBLISHED" /\ ValidFrom[w] <= Today =>
               \/ ValidFrom[w] < ValidFrom[v]
               \/ /\ ValidFrom[w] = ValidFrom[v]
                  /\ versions'[w].publishedAt <= versions'[v].publishedAt
    BY <1>6 DEF current, newest, versionsOf, Published
  <2>2. \A w \in Version :
          AudienceOf[w] = r /\ versions[w].status = "PUBLISHED" /\ ValidFrom[w] <= Today =>
            \/ ValidFrom[w] < ValidFrom[v]
            \/ /\ ValidFrom[w] = ValidFrom[v]
               /\ versions[w].publishedAt <= versions[v].publishedAt
    <3>1. SUFFICES ASSUME NEW w \in Version, AudienceOf[w] = r,
                          versions[w].status = "PUBLISHED", ValidFrom[w] <= Today
                   PROVE  \/ ValidFrom[w] < ValidFrom[v]
                          \/ /\ ValidFrom[w] = ValidFrom[v]
                             /\ versions[w].publishedAt <= versions[v].publishedAt
      OBVIOUS
    <3>2. CASE w # pv
      BY <1>2, <2>1, <3>1, <3>2
    <3>3. CASE w = pv
      <4>1. /\ versions'[w].status = "PUBLISHED" /\ versions'[w].publishedAt = Today
            /\ versions'[v] = versions[v] /\ v \in Version
        BY <1>2, <1>4, <2>1, <3>3
      <4>2. \/ ValidFrom[w] < ValidFrom[v]
            \/ ValidFrom[w] = ValidFrom[v] /\ Today <= versions[v].publishedAt
        BY <2>1, <3>1, <4>1
      <4>3. versions[w].publishedAt \in 0..Today /\ versions[v].publishedAt \in 0..Today
        BY <1>3, <4>1
      <4>4. QED
        BY <4>2, <4>3, OnboardingAssumption
    <3>4. QED
      BY <3>2, <3>3
  <2>3. QED
    BY <1>2, <2>1, <2>2 DEF current, newest, versionsOf, Published
<1>7. QED
  BY <1>5, <1>6

LEMMA RetiredReadings ==
  ASSUME OnboardingTypeOK, PublishRetire, NEW r \in Role, NEW v \in Version,
         v \in current(r)' \cup upcoming(r)', v # publication.version
  PROVE  /\ v \in current(r) \cup upcoming(r)
         /\ v \in upcoming(r) => v \in upcoming(r)'
<1> DEFINE pv == publication.version
           predecessors == publishedOf({AudienceOf[pv]}) \ {pv}
<1>1. versions' = [w \in Version |->
        IF w \in predecessors THEN [versions[w] EXCEPT !.status = "RETIRED"] ELSE versions[w]]
  BY DEF PublishRetire
<1>2. AudienceOf[v] = r /\ versions'[v].status = "PUBLISHED"
  BY DEF current, upcoming, newest, versionsOf, Published
<1>3. \A w \in Version : w \in predecessors => versions'[w].status = "RETIRED"
  BY <1>1, TypeParts
<1>4. v \notin predecessors
  BY <1>2, <1>3
<1>5. versions[v].status = "PUBLISHED"
  BY <1>1, <1>2, <1>4
<1>6. r # AudienceOf[pv]
  BY <1>2, <1>4, <1>5 DEF publishedOf, Published
<1>7. \A w \in versionsOf(r) : versions'[w] = versions[w]
  BY <1>1, <1>6 DEF versionsOf, publishedOf
<1>8. upcoming(r)' = upcoming(r)
  BY <1>7 DEF upcoming, versionsOf, Published
<1>9. v \in current(r)' => v \in current(r)
  BY <1>7 DEF current, newest, versionsOf, Published
<1>10. QED
  BY <1>8, <1>9

LEMMA PublishKeepsAsked ==
  ASSUME OnboardingTypeOK, HoldersAreAsked, PublishStep
  PROVE  HoldersAreAsked'
<1> DEFINE pv == publication.version
<1>1. duringPublish /\ RowsStay /\ excused \subseteq excused'
  BY PublishDone
<1>2. SUFFICES ASSUME NEW c \in Customer, NEW r \in rolesOf(c)',
                      NEW v \in current(r)' \cup upcoming(r)'
               PROVE  asked(c, r, v)'
  BY DEF HoldersAreAsked
<1>3. r \in rolesOf(c) /\ r \in Role /\ v \in Version /\ AudienceOf[v] = r
  <2>1. rolesOf(c)' = rolesOf(c)
    BY <1>1 DEF duringPublish, rolesOf, known
  <2>2. r \in Role
    BY <1>2, <2>1, KnownRow DEF rolesOf, CustomerRow
  <2>3. QED
    BY <1>2, <2>1, <2>2 DEF current, upcoming, newest, versionsOf
<1>a. ASSUME UNCHANGED versions PROVE v \in current(r) \cup upcoming(r) /\ upcoming(r)' = upcoming(r)
  BY <1>a, <1>2 DEF current, upcoming, newest, versionsOf, Published
<1>b. ASSUME v \in current(r) \cup upcoming(r) PROVE asked(c, r, v)
  BY <1>3, <1>b DEF HoldersAreAsked
<1>c. ASSUME owedByPublish(c, v)' PROVE asked(c, r, v)'
  BY <1>c DEF asked
<1>4. ASSUME NEW w \in Version, PublishRead(w) PROVE asked(c, r, v)'
  <2>1. ~owedByPublish(c, v) /\ UNCHANGED versions
    BY <1>4 DEF PublishRead, owedByPublish
  <2>2. QED
    BY <1>1, <1>3, <1>a, <1>b, <2>1, AskedDuringPublish
<1>5. CASE PublishSave
  <2>1. publication \in Publication /\ publication # NoPublication
    BY <1>5, PublishRunning DEF PublishSteps
  <2>2. CASE v = pv
    <3>1. publication'.version = pv /\ publication'.step \in {"retire", "targets"}
      BY <1>5, <2>1 DEF PublishSave, to, Publication
    <3>2. owedByPublish(c, v)'
      BY <2>2, <3>1 DEF owedByPublish, NoPublication
    <3>3. QED
      BY <1>c, <3>2
  <2>3. CASE v # pv
    <3>1. /\ v \in current(r) \cup upcoming(r)
          /\ v \in upcoming(r) => v \in upcoming(r)'
      BY <1>2, <1>5, <2>3, SavedReadings
    <3>2. ~owedByPublish(c, v)
      BY <2>3 DEF owedByPublish
    <3>3. QED
      BY <1>1, <1>3, <1>b, <3>1, <3>2, AskedDuringPublish
  <2>4. QED
    BY <2>2, <2>3
<1>6. CASE PublishRetire
  <2>1. publication \in Publication /\ publication # NoPublication
    BY <1>6, PublishRunning DEF PublishSteps
  <2>2. CASE v = pv
    <3>1. publication'.version = pv /\ publication'.step = "targets"
      BY <1>6, <2>1 DEF PublishRetire, to, Publication
    <3>2. owedByPublish(c, v)'
      BY <2>2, <3>1 DEF owedByPublish, NoPublication
    <3>3. QED
      BY <1>c, <3>2
  <2>3. CASE v # pv
    <3>1. /\ v \in current(r) \cup upcoming(r)
          /\ v \in upcoming(r) => v \in upcoming(r)'
      BY <1>2, <1>3, <1>6, <2>3, RetiredReadings
    <3>2. ~owedByPublish(c, v)
      BY <2>3 DEF owedByPublish
    <3>3. QED
      BY <1>1, <1>3, <1>b, <3>1, <3>2, AskedDuringPublish
  <2>4. QED
    BY <2>2, <2>3
<1>7. CASE PublishTargets
  <2>1. publication \in Publication /\ publication # NoPublication /\ UNCHANGED versions
    BY <1>7, PublishRunning DEF PublishSteps, PublishTargets
  <2>2. ASSUME owedByPublish(c, v) PROVE asked(c, r, v)'
    <3>1. v = pv
      BY <2>2 DEF owedByPublish
    <3>2. publication'.version = pv /\ publication'.targets = findByRole(r)
      BY <1>3, <1>7, <2>1, <3>1 DEF PublishTargets, Publication
    <3>3. c \in findByRole(r)
      BY <1>3 DEF findByRole
    <3>4. publication' # NoPublication
      BY <1>7, <2>1 DEF PublishTargets, Publication, NoPublication
    <3>5. owedByPublish(c, v)'
      BY <3>1, <3>2, <3>3, <3>4 DEF owedByPublish
    <3>6. QED
      BY <1>c, <3>5
  <2>3. QED
    BY <1>1, <1>3, <1>a, <1>b, <2>1, <2>2, AskedDuringPublish
<1>8. ASSUME NEW d \in Customer, PublishRollout(d) PROVE asked(c, r, v)'
  <2>1. /\ publication \in Publication /\ publication # NoPublication /\ pv \in Version
        /\ UNCHANGED versions
    BY <1>8, PublishRunning DEF PublishSteps, PublishRollout
  <2>2. ASSUME owedByPublish(c, v) PROVE asked(c, r, v)'
    <3>1. v = pv /\ c \in publication.targets
      BY <1>8, <2>2 DEF owedByPublish, PublishRollout
    <3>2. CASE c = d
      <4>1. rows'[c][v] = "PENDING_NOTIFICATION"
        BY <1>8, <2>1, <3>1, <3>2, InsertedRow DEF PublishRollout
      <4>2. QED
        BY <4>1 DEF asked
    <3>3. CASE c # d
      <4>1. /\ publication'.version = pv /\ c \in publication'.targets
            /\ publication'.step = "rollout"
        BY <1>8, <2>1, <3>1, <3>3 DEF PublishRollout, Publication
      <4>2. owedByPublish(c, v)'
        BY <3>1, <4>1 DEF owedByPublish, NoPublication
      <4>3. QED
        BY <1>c, <4>2
    <3>4. QED
      BY <3>2, <3>3
  <2>3. QED
    BY <1>1, <1>3, <1>a, <1>b, <2>1, <2>2, AskedDuringPublish
<1>9. CASE PublishReturn
  <2>1. ~owedByPublish(c, v) /\ UNCHANGED versions
    BY <1>9 DEF PublishReturn, owedByPublish
  <2>2. QED
    BY <1>1, <1>3, <1>a, <1>b, <2>1, AskedDuringPublish
<1>10. CASE PublishDies \/ \E d \in Customer : PublishRefused(d)
  <2>1. publication \in Publication /\ endPublish /\ UNCHANGED versions
    BY <1>10, PublishRunning DEF PublishSteps, PublishDies, PublishRefused
  <2>2. ASSUME owedByPublish(c, v) PROVE asked(c, r, v)'
    <3>1. v = pv
      BY <2>2 DEF owedByPublish
    <3>2. <<c, v>> \in excused'
      BY <2>1, <2>2, <3>1, EndsPublish
    <3>3. QED
      BY <3>2 DEF asked
  <2>3. QED
    BY <1>1, <1>3, <1>a, <1>b, <2>1, <2>2, AskedDuringPublish
<1>11. QED
  BY <1>4, <1>5, <1>6, <1>7, <1>8, <1>9, <1>10 DEF PublishStep

-----------------------------------------------------------------------------
(* What the other requests have at hand stays what it was. *)

LEMMA BeginDone ==
  ASSUME OnboardingTypeOK, NEW p \in Operator, NEW op \in Op, begin(p, op), beginsSound(op)
  PROVE  /\ StepDone(p) /\ OthersKept(p) /\ ops'[p] = op /\ ~busy(p)
         /\ UNCHANGED <<tables, publication, histories>>
<1>1. /\ ops' \in [Operator -> Op \cup {NoOp}] /\ ops'[p] = op /\ OthersKept(p)
      /\ UNCHANGED <<tables, publication, histories>> /\ ~busy(p)
  BY Continued DEF begin
<1>2. OnboardingTypeOK'
  BY <1>1, TypeParts, Typed DEF tables, histories
<1>3. OpSound(p)'
  BY <1>1, SoundNext DEF beginsSound, known, tables
<1>4. QED
  BY <1>1, <1>2, <1>3, KeptStays DEF StepDone

OpsSound == \A p \in Operator : busy(p) => OpSound(p)

LEMMA OthersSound ==
  ASSUME OnboardingTypeOK, OpsSound, NEW p \in Operator, StepDone(p),
         \A c \in Customer : known(c) => known(c)'
  PROVE  OpsSound'
<1>1. SUFFICES ASSUME NEW q \in Operator, busy(q)' PROVE OpSound(q)'
  BY DEF OpsSound
<1>2. CASE q = p
  BY <1>1, <1>2 DEF StepDone
<1>3. CASE q # p
  <2>1. busy(q) /\ OpSound(q)
    BY <1>1, <1>3, OthersAsBefore DEF StepDone, OpsSound
  <2>2. /\ ops'[q].step = ops[q].step /\ ops'[q].kind = ops[q].kind
        /\ ops'[q].customer = ops[q].customer /\ ops'[q].documents = ops[q].documents
        /\ ops'[q].document = ops[q].document /\ ops'[q].version = ops[q].version
        /\ ops[q].customer \in Customer
    BY <1>3, <2>1, OthersAsBefore, BusyOp DEF StepDone
  <2>3. QED
    BY <2>1, <2>2, SoundNext DEF OpSound, at, known
<1>4. QED
  BY <1>2, <1>3

LEMMA SoundDuringPublish ==
  ASSUME OpsSound, duringPublish
  PROVE  OpsSound'
BY DEF OpsSound, OpSound, at, known, busy, duringPublish

(* The steps of a request, by what they write. *)
LEMMA OpSteps ==
  ASSUME OnboardingTypeOK, NoDuplicateInAudience, NEW p \in Operator, OpStep(p)
  PROVE  \/ \E op \in Op : begin(p, op) /\ beginsSound(op)
         \/ busy(p) /\ CustomerSave(p)
         \/ busy(p) /\ SoftDelete(p)
         \/ busy(p) /\ (OpProgress(p) \/ OpDies(p)) /\ ~CustomerSave(p) /\ ~SoftDelete(p)
<1>1. CASE OpBegin(p) \/ \E c \in Customer, roles \in (SUBSET Role) \cup {None} : UpdateBegin(p, c, roles)
  BY <1>1, Begins
<1>2. CASE busy(p) /\ OpProgress(p)
  BY <1>2
<1>3. CASE OpDies(p)
  BY <1>3 DEF OpDies
<1>4. QED
  BY <1>1, <1>2, <1>3 DEF OpStep

LEMMA OpStepDone ==
  ASSUME OnboardingTypeOK, OpsSound, HoldersAreAsked, NoDuplicateInAudience,
         NEW p \in Operator, OpStep(p)
  PROVE  StepDone(p) /\ OpsSound' /\ HoldersAreAsked'
<1>1. ASSUME NEW op \in Op, begin(p, op), beginsSound(op)
      PROVE  StepDone(p) /\ OpsSound' /\ HoldersAreAsked'
  <2>1. StepDone(p) /\ UNCHANGED customers
    BY <1>1, BeginDone DEF tables
  <2>2. QED
    BY <1>1, <2>1, OthersSound, BeginKeepsAsked DEF known
<1>2. CASE busy(p) /\ CustomerSave(p)
  <2>1. OpSound(p) /\ OnboardingTypeOK' /\ StepDone(p)
    BY <1>2, SaveDone DEF OpsSound, StepDone
  <2>2. \A c \in Customer : known(c) => known(c)'
    <3>1. ops[p].customer \in Customer /\ ops[p].saved \in CustomerRow
      BY <1>2, BusyOp
    <3>a. PICK next : writeCustomer(p, ops[p].saved, next)
      BY <1>2 DEF CustomerSave
    <3>2. customers' = [customers EXCEPT ![ops[p].customer] = ops[p].saved]
      BY <3>a DEF writeCustomer
    <3>3. ops[p].saved # NoCustomer
      BY <3>1 DEF CustomerRow, NoCustomer
    <3>4. QED
      BY <3>1, <3>2, <3>3, TypeParts DEF known
  <2>3. QED
    BY <1>2, <2>1, <2>2, OthersSound, SaveKeepsAsked
<1>3. CASE busy(p) /\ SoftDelete(p)
  <2>1. OpSound(p) /\ OnboardingTypeOK' /\ StepDone(p)
    BY <1>3, DeleteDone DEF OpsSound, StepDone
  <2>2. \A c \in Customer : known(c) => known(c)'
    <3>1. /\ ops[p].customer \in Customer /\ known(ops[p].customer)
          /\ customers[ops[p].customer] \in CustomerRow
      BY <1>3, <2>1, BusyOp, KnownRow DEF OpSound, SoftDelete
    <3>2. [customers[ops[p].customer] EXCEPT !.deleted = TRUE] \in CustomerRow
      BY <3>1 DEF CustomerRow
    <3>3. NoOp \in Op \cup {NoOp}
      OBVIOUS
    <3>4. QED
      BY <1>3, <3>2, <3>3, SavedCustomer DEF SoftDelete
  <2>3. QED
    BY <1>3, <2>1, <2>2, OthersSound, DeleteKeepsAsked
<1>4. CASE busy(p) /\ (OpProgress(p) \/ OpDies(p)) /\ ~CustomerSave(p) /\ ~SoftDelete(p)
  <2>1. OpSound(p)
    BY <1>4 DEF OpsSound
  <2>2. StepDone(p) /\ UNCHANGED customers
    BY <1>4, <2>1, AwaitDone
  <2>3. QED
    BY <1>4, <2>1, <2>2, OthersSound, AwaitKeepsAsked DEF known
<1>5. QED
  BY <1>1, <1>2, <1>3, <1>4, OpSteps

-----------------------------------------------------------------------------
(* Nobody is written to twice. *)

ToldStays == \A c \in Customer, v \in Version : told(c, v) => told(c, v)'

LEMMA InsertedTold ==
  ASSUME OnboardingTypeOK, NEW c \in Customer, NEW v \in Version,
         NEW state \in {"PENDING_NOTIFICATION", "ACCEPTED"}, insertRow(c, v, state)
  PROVE  ToldStays
<1>1. /\ rows[c][v] = "none"
      /\ \A d \in Customer, w \in Version : d # c \/ w # v => rows'[d][w] = rows[d][w]
  BY InsertedRow
<1>2. QED
  BY <1>1 DEF ToldStays, told

(* What p may mail, and is left to mail, it may mail. *)
mailable(p) ==
  \A v \in ops[p].rolledOut : told(ops[p].customer, v) /\ <<ops[p].customer, v>> \notin due

LEMMA OthersMailable ==
  ASSUME OnboardingTypeOK, MailsSound, NEW p \in Operator, StepDone(p), ToldStays, UNCHANGED due,
         \A c \in Customer, v \in Version : <<c, v>> \in mailed' =>
           <<c, v>> \in mailed \/ (busy(p) /\ c = ops[p].customer /\ v \in ops[p].rolledOut),
         busy(p)' => mailable(p)'
  PROVE  MailsSound'
<1>1. OnboardingTypeOK' /\ OthersStay(p)
  BY DEF StepDone
<1>2. due' \subseteq Pairs
  BY <1>1 DEF OnboardingTypeOK, Pairs
<1>3. ASSUME NEW c \in Customer, NEW v \in Version, busy(p), c = ops[p].customer,
             v \in ops[p].rolledOut
      PROVE  told(c, v) /\ <<c, v>> \notin due
  BY <1>3 DEF MailsSound
<1>4. due' \cap mailed' = {}
  BY <1>2, <1>3 DEF MailsSound, Pairs
<1>5. ASSUME NEW c \in Customer, NEW v \in Version, <<c, v>> \in due' \cup mailed'
      PROVE  told(c, v)'
  <2>1. told(c, v)
    BY <1>3, <1>5 DEF MailsSound
  <2>2. QED
    BY <2>1 DEF ToldStays
<1>6. ASSUME NEW q \in Operator, busy(q)'
      PROVE  mailable(q)'
  <2>1. CASE q = p
    BY <1>6, <2>1
  <2>2. CASE q # p
    <3>1. /\ busy(q) /\ ops'[q].customer = ops[q].customer /\ ops'[q].rolledOut = ops[q].rolledOut
          /\ ops[q].customer \in Customer /\ ops[q].rolledOut \subseteq Version
      BY <1>1, <1>6, <2>2, OthersAsBefore, BusyOp
    <3>2. ASSUME NEW v \in ops[q].rolledOut
          PROVE  told(ops[q].customer, v)' /\ <<ops[q].customer, v>> \notin due'
      BY <3>1, <3>2 DEF MailsSound, ToldStays
    <3>3. QED
      BY <3>1, <3>2 DEF mailable, told
  <2>3. QED
    BY <2>1, <2>2
<1>7. QED
  BY <1>4, <1>5, <1>6 DEF MailsSound, mailable

LEMMA SameRowsTold ==
  ASSUME UNCHANGED rows
  PROVE  ToldStays
BY DEF ToldStays, told

(* Of a step that writes no mail, and leaves p fewer rows to mail, if any. *)
LEMMA QuietStep ==
  ASSUME OnboardingTypeOK, MailsSound, NEW p \in Operator, StepDone(p), ToldStays,
         UNCHANGED <<due, mailed>>,
         busy(p)' => /\ ops'[p].rolledOut \subseteq ops[p].rolledOut
                     /\ busy(p) /\ sameCustomer(p)
  PROVE  MailsSound'
<1>1. ASSUME busy(p)' PROVE mailable(p)'
  <2>1. /\ busy(p) /\ ops'[p].customer = ops[p].customer
        /\ ops'[p].rolledOut \subseteq ops[p].rolledOut
        /\ ops[p].customer \in Customer /\ ops[p].rolledOut \subseteq Version
    BY <1>1, BusyOp DEF sameCustomer
  <2>2. ASSUME NEW v \in ops'[p].rolledOut
        PROVE  told(ops[p].customer, v)' /\ <<ops[p].customer, v>> \notin due'
    BY <2>1, <2>2 DEF MailsSound, ToldStays
  <2>3. QED
    BY <2>1, <2>2 DEF mailable, told
<1>2. QED
  BY <1>1, OthersMailable

LEMMA RolloutRowMails ==
  ASSUME OnboardingTypeOK, MailsSound, NEW p \in Operator, busy(p), OpSound(p), RolloutRow(p)
  PROVE  MailsSound'
<1> DEFINE c == ops[p].customer
           v == ops[p].version
<1>1. /\ StepDone(p) /\ ops'[p].customer = c /\ v \in Version
      /\ ops'[p].rolledOut = ops[p].rolledOut \cup {v}
      /\ c \in Customer /\ ops[p].rolledOut \subseteq Version
  BY RolloutRowDone, BusyOp DEF sameCustomer
<1>2. insertRow(c, v, "PENDING_NOTIFICATION") /\ UNCHANGED <<due, mailed>>
  BY DEF RolloutRow
<1>3. rows[c][v] = "none" /\ rows'[c][v] = "PENDING_NOTIFICATION" /\ ToldStays
  BY <1>1, <1>2, InsertedRow, InsertedTold
<1>4. <<c, v>> \notin due
  BY <1>1, <1>3 DEF MailsSound, told
<1>5. ASSUME NEW w \in ops'[p].rolledOut PROVE told(c, w)' /\ <<c, w>> \notin due'
  BY <1>1, <1>2, <1>3, <1>4, <1>5 DEF MailsSound, ToldStays, told
<1>6. mailable(p)'
  BY <1>1, <1>5 DEF mailable, told
<1>7. QED
  BY <1>1, <1>2, <1>3, <1>6, OthersMailable

LEMMA NotifyMails ==
  ASSUME OnboardingTypeOK, MailsSound, NEW p \in Operator, busy(p), OpSound(p), NEW v \in Version,
         Notify(p, v)
  PROVE  MailsSound'
<1>1. /\ StepDone(p) /\ ops[p].customer \in Customer /\ ops[p].rolledOut \subseteq Version
      /\ busy(p)' => /\ ops'[p].customer = ops[p].customer
                     /\ ops'[p].rolledOut \subseteq ops[p].rolledOut
  BY NotifyDone, BusyOp DEF sameCustomer
<1>2. /\ v \in ops[p].rolledOut /\ UNCHANGED <<rows, due>>
      /\ mailed' = mailed \cup {<<ops[p].customer, v>>}
  BY DEF Notify
<1>a. PICK c \in Customer : c = ops[p].customer
  BY <1>1
<1>3. ASSUME NEW w \in ops[p].rolledOut PROVE told(c, w)' /\ <<c, w>> \notin due'
  BY <1>2, <1>3, <1>a DEF MailsSound, told
<1>4. busy(p)' => mailable(p)'
  BY <1>1, <1>3, <1>a DEF mailable, told
<1>5. QED
  BY <1>1, <1>2, <1>4, SameRowsTold, OthersMailable

LEMMA AwaitKeepsMails ==
  ASSUME OnboardingTypeOK, MailsSound, NEW p \in Operator, busy(p), OpSound(p),
         OpProgress(p) \/ OpDies(p), ~CustomerSave(p), ~SoftDelete(p)
  PROVE  MailsSound'
<1>0. ops[p].customer \in Customer
  BY BusyOp
<1>1. ASSUME NEW v \in Version, ImportRow(p, v) PROVE MailsSound'
  <2>1. StepDone(p) /\ sameCustomer(p) /\ ops'[p].rolledOut = ops[p].rolledOut
    BY <1>1, ImportRowDone
  <2>2. UNCHANGED <<due, mailed>> /\ insertRow(ops[p].customer, v, "ACCEPTED")
    BY <1>1 DEF ImportRow
  <2>3. QED
    BY <1>0, <2>1, <2>2, InsertedTold, QuietStep
<1>2. CASE ImportAppend(p)
  <2>1. UNCHANGED <<rows, due, mailed>>
    BY <1>2 DEF ImportAppend
  <2>2. QED
    BY <1>2, <2>1, ImportAppendDone, SameRowsTold, QuietStep
<1>3. ASSUME NEW r \in Role, RolloutDocument(p, r) PROVE MailsSound'
  <2>1. UNCHANGED <<rows, due, mailed>>
    BY <1>3 DEF RolloutDocument, readOnly, tables
  <2>2. QED
    BY <1>3, <2>1, RolloutDocumentDone, SameRowsTold, QuietStep
<1>4. CASE RolloutUpcoming(p)
  <2>1. UNCHANGED <<rows, due, mailed>>
    BY <1>4 DEF RolloutUpcoming, readOnly, tables
  <2>2. QED
    BY <1>4, <2>1, RolloutUpcomingDone, SameRowsTold, QuietStep
<1>5. ASSUME NEW v \in Version, RolloutCheck(p, v) PROVE MailsSound'
  <2>1. UNCHANGED <<rows, due, mailed>>
    BY <1>5 DEF RolloutCheck, readOnly, tables
  <2>2. QED
    BY <1>5, <2>1, RolloutCheckDone, SameRowsTold, QuietStep
<1>6. CASE RolloutRow(p)
  BY <1>6, RolloutRowMails
<1>7. CASE RolloutNextDocument(p)
  <2>1. UNCHANGED <<rows, due, mailed>>
    BY <1>7 DEF RolloutNextDocument, readOnly, tables
  <2>2. QED
    BY <1>7, <2>1, RolloutNextDocumentDone, SameRowsTold, QuietStep
<1>8. CASE RolloutEnd(p)
  <2>1. UNCHANGED <<rows, due, mailed>>
    BY <1>8 DEF RolloutEnd, readOnly, tables
  <2>2. QED
    BY <1>8, <2>1, RolloutEndDone, SameRowsTold, QuietStep
<1>9. ASSUME NEW v \in Version, Notify(p, v) PROVE MailsSound'
  BY <1>9, NotifyMails
<1>10. ASSUME NEW v \in Version, NotifyFails(p, v) PROVE MailsSound'
  BY <1>10, NotifyDone, SameRowsTold, QuietStep DEF NotifyFails, tables
<1>11. CASE OpDies(p) \/ RolloutRefused(p) \/ \E w \in Version : ImportRefused(p, w)
  <2>1. leaveUnasked(p) /\ UNCHANGED <<tables, publication>>
    BY <1>11 DEF OpDies, RolloutRefused, ImportRefused, refused
  <2>2. StepDone(p) /\ ~busy(p)' /\ UNCHANGED <<rows, due, mailed>>
    BY <2>1, StopDone DEF busy, tables
  <2>3. QED
    BY <2>2, SameRowsTold, QuietStep
<1>12. QED
  BY <1>1, <1>2, <1>3, <1>4, <1>5, <1>6, <1>7, <1>8, <1>9, <1>10, <1>11 DEF OpProgress

LEMMA OpKeepsMails ==
  ASSUME OnboardingTypeOK, OpsSound, MailsSound, NoDuplicateInAudience,
         NEW p \in Operator, OpStep(p)
  PROVE  MailsSound'
<1>1. ASSUME NEW op \in Op, begin(p, op), beginsSound(op) PROVE MailsSound'
  <2>1. StepDone(p) /\ ops'[p].rolledOut = {} /\ UNCHANGED <<rows, due, mailed>>
    BY <1>1, BeginDone DEF beginsSound, tables
  <2>2. mailable(p)'
    BY <2>1 DEF mailable
  <2>3. QED
    BY <2>1, <2>2, SameRowsTold, OthersMailable
<1>2. CASE busy(p) /\ CustomerSave(p)
  <2> DEFINE op == ops[p]
             step == IF op.imports = {} THEN "rollout" ELSE "import"
             next == [op EXCEPT !.documents = addedRoles(op), !.step = step]
             then == IF addedRoles(op) = {} THEN NoOp ELSE next
  <2>1. /\ op \in Op /\ OpSound(p) /\ op.saved \in CustomerRow /\ addedRoles(op) \subseteq Role
    BY <1>2, BusyOp DEF OpsSound, addedRoles, CustomerRow
  <2>2. writeCustomer(p, op.saved, then)
    BY <1>2 DEF CustomerSave
  <2>a. step \in {"rollout", "import"}
    OBVIOUS
  <2> HIDE DEF step
  <2>3. next \in Op /\ next.customer = op.customer /\ next.rolledOut = op.rolledOut
    BY <2>1, <2>a DEF Op
  <2> HIDE DEF next
  <2>4. then \in Op \cup {NoOp}
    BY <2>3
  <2>5. ops'[p] = then
    BY <1>2, <2>1, <2>2, <2>4, SavedCustomer
  <2>6. busy(p)' => ops'[p] = next
    BY <2>5 DEF busy
  <2>b. UNCHANGED <<rows, due, mailed>>
    BY <1>2 DEF CustomerSave
  <2>7. StepDone(p) /\ UNCHANGED <<rows, due, mailed>>
    BY <1>2, <2>1, <2>b, SaveDone
  <2>8. QED
    BY <1>2, <2>3, <2>6, <2>7, SameRowsTold, QuietStep DEF sameCustomer
<1>3. CASE busy(p) /\ SoftDelete(p)
  <2>1. StepDone(p) /\ UNCHANGED <<rows, due, mailed>>
    BY <1>3, DeleteDone DEF SoftDelete, OpsSound
  <2>2. ops'[p] = NoOp
    BY <1>3, TypeParts DEF SoftDelete, writeCustomer
  <2>3. QED
    BY <2>1, <2>2, SameRowsTold, QuietStep DEF busy
<1>4. CASE busy(p) /\ (OpProgress(p) \/ OpDies(p)) /\ ~CustomerSave(p) /\ ~SoftDelete(p)
  BY <1>4, AwaitKeepsMails DEF OpsSound
<1>5. QED
  BY <1>1, <1>2, <1>3, <1>4, OpSteps

LEMMA PublishKeepsMails ==
  ASSUME OnboardingTypeOK, MailsSound, PublishStep
  PROVE  MailsSound'
<1>1. OnboardingTypeOK' /\ duringPublish
  BY PublishDone
<1>2. ASSUME ToldStays, UNCHANGED due PROVE MailsSound'
  <2>1. \A p \in Operator : busy(p) => /\ ops[p].customer \in Customer
                                       /\ ops[p].rolledOut \subseteq Version
    BY BusyOp
  <2>2. /\ UNCHANGED <<due, mailed, ops>>
        /\ \A c \in Customer, v \in Version : told(c, v) => told(c, v)'
    BY <1>1, <1>2 DEF duringPublish, ToldStays
  <2>3. due' \cap mailed' = {}
    BY <2>2 DEF MailsSound
  <2>4. \A c \in Customer, v \in Version : <<c, v>> \in due' \cup mailed' => told(c, v)'
    BY <2>2 DEF MailsSound
  <2>5. ASSUME NEW p \in Operator, busy(p), NEW v \in ops[p].rolledOut
        PROVE  told(ops[p].customer, v)' /\ <<ops[p].customer, v>> \notin due'
    BY <2>1, <2>2, <2>5 DEF MailsSound
  <2>6. QED
    BY <2>2, <2>3, <2>4, <2>5 DEF MailsSound, busy, told
<1>3. CASE PublishRetire
  <2>1. ToldStays
    BY <1>3, TypeParts DEF PublishRetire, ToldStays, told, Rows
  <2>2. QED
    BY <1>2, <1>3, <2>1 DEF PublishRetire
<1>4. ASSUME NEW d \in Customer, PublishRollout(d) PROVE MailsSound'
  <2>1. PICK w \in Version : w = publication.version
    BY <1>4, PublishRunning DEF PublishSteps
  <2>2. insertRow(d, w, "PENDING_NOTIFICATION") /\ due' = due \cup {<<d, w>>}
    BY <1>4, <2>1 DEF PublishRollout
  <2>3. rows[d][w] = "none" /\ rows'[d][w] = "PENDING_NOTIFICATION" /\ ToldStays
    BY <2>1, <2>2, InsertedRow, InsertedTold
  <2>4. /\ <<d, w>> \notin mailed
        /\ \A p \in Operator : busy(p) => ops[p].customer # d \/ w \notin ops[p].rolledOut
    BY <2>3 DEF MailsSound, told
  <2>5. due' \cap mailed' = {}
    BY <1>1, <2>2, <2>4 DEF MailsSound, duringPublish
  <2>6. \A c \in Customer, v \in Version : <<c, v>> \in due' \cup mailed' => told(c, v)'
    <3>1. told(d, w)'
      BY <2>3 DEF told
    <3>2. QED
      BY <1>1, <2>2, <2>3, <3>1 DEF MailsSound, duringPublish, ToldStays
  <2>7. \A p \in Operator : busy(p)' => mailable(p)'
    <3>1. SUFFICES ASSUME NEW p \in Operator, busy(p) PROVE mailable(p)'
      BY <1>1 DEF duringPublish, busy
    <3>2. PICK c \in Customer : c = ops[p].customer
      BY <3>1, BusyOp
    <3>3. ops'[p] = ops[p] /\ ops[p].rolledOut \subseteq Version
      BY <1>1, <3>1, BusyOp DEF duringPublish
    <3>4. ASSUME NEW v \in ops[p].rolledOut PROVE told(c, v)' /\ <<c, v>> \notin due'
      BY <2>2, <2>3, <2>4, <3>1, <3>2, <3>3, <3>4 DEF MailsSound, ToldStays
    <3>5. QED
      BY <3>2, <3>3, <3>4 DEF mailable, told
  <2>8. QED
    BY <2>5, <2>6, <2>7 DEF MailsSound, mailable
<1>5. CASE PublishSave \/ PublishTargets \/ PublishReturn \/ PublishDies
           \/ (\E v \in Version : PublishRead(v)) \/ \E c \in Customer : PublishRefused(c)
  <2>1. UNCHANGED <<rows, due>>
    BY <1>5 DEF PublishSave, PublishTargets, PublishReturn, PublishDies, PublishRead, PublishRefused
  <2>2. QED
    BY <1>2, <2>1, SameRowsTold
<1>6. QED
  BY <1>3, <1>4, <1>5 DEF PublishStep

-----------------------------------------------------------------------------
(* References stay unique. *)

References == NoDuplicateInAudience /\ ChecksHold

SameMatches == \A ref, roles : overlapping(ref, roles)' = overlapping(ref, roles)

LEMMA SameCustomersMatch ==
  ASSUME UNCHANGED customers
  PROVE  SameMatches
BY DEF SameMatches, overlapping, findAllByExternalRef

(* Of a request that wrote nobody: the others were checked against the same. *)
LEMMA OthersChecked ==
  ASSUME OnboardingTypeOK, References, NEW p \in Operator, OthersStay(p), SameMatches,
         raced \subseteq raced',
         NEW q \in Operator, q # p, at(q, "save")', ~ops'[q].overtaken
  PROVE  \/ overlapping(ops[q].saved.ref, ops[q].saved.roles) \subseteq {ops[q].customer}
         \/ ops[q].saved.ref \in raced
<1>1. busy(q)'
  BY DEF at, busy, NoOp
<1>2. busy(q) /\ at(q, "save") /\ ~ops[q].overtaken
  BY <1>1, OthersAsBefore DEF at
<1>3. QED
  BY <1>2 DEF References, ChecksHold

LEMMA UniqueAsBefore ==
  ASSUME NoDuplicateInAudience, UNCHANGED customers, raced \subseteq raced'
  PROVE  NoDuplicateInAudience'
BY DEF NoDuplicateInAudience, known, overlapping, findAllByExternalRef

LEMMA UnwrittenReferences ==
  ASSUME OnboardingTypeOK, References, NEW p \in Operator, OthersStay(p),
         UNCHANGED customers, raced \subseteq raced',
         at(p, "save")' =>
           \/ overlapping(ops'[p].saved.ref, ops'[p].saved.roles) \subseteq {ops'[p].customer}
           \/ ops'[p].saved.ref \in raced
  PROVE  References'
<1>1. NoDuplicateInAudience'
  BY UniqueAsBefore DEF References
<1>2. SameMatches
  BY SameCustomersMatch
<1>3. SUFFICES ASSUME NEW q \in Operator, at(q, "save")', ~ops'[q].overtaken
               PROVE  \/ overlapping(ops[q].saved.ref, ops[q].saved.roles)' \subseteq {ops'[q].customer}
                      \/ ops'[q].saved.ref \in raced'
  BY <1>1 DEF References, ChecksHold
<1>4. /\ overlapping(ops[q].saved.ref, ops[q].saved.roles)'
           = overlapping(ops'[q].saved.ref, ops'[q].saved.roles)
  BY DEF overlapping, findAllByExternalRef
<1>5. CASE q = p
  BY <1>3, <1>4, <1>5
<1>6. CASE q # p
  <2>1. /\ ops'[q].saved = ops[q].saved /\ ops'[q].customer = ops[q].customer
    BY <1>3, <1>6, OthersAsBefore DEF at, busy, NoOp
  <2>2. QED
    BY <1>2, <1>3, <1>4, <1>6, <2>1, OthersChecked
<1>7. QED
  BY <1>5, <1>6

LEMMA AwaitLeavesSave ==
  ASSUME OnboardingTypeOK, NEW p \in Operator, busy(p), OpSound(p),
         OpProgress(p) \/ OpDies(p), ~CustomerSave(p), ~SoftDelete(p)
  PROVE  ops'[p].step # "save"
<1>1. ASSUME NEW v \in Version, ImportRow(p, v) PROVE ops'[p].step # "save"
  BY <1>1, ImportRowDone
<1>2. CASE ImportAppend(p)
  BY <1>2, ImportAppendDone
<1>3. ASSUME NEW r \in Role, RolloutDocument(p, r) PROVE ops'[p].step # "save"
  BY <1>3, RolloutDocumentDone
<1>4. CASE RolloutUpcoming(p)
  BY <1>4, RolloutUpcomingDone
<1>5. ASSUME NEW v \in Version, RolloutCheck(p, v) PROVE ops'[p].step # "save"
  BY <1>5, RolloutCheckDone
<1>6. CASE RolloutRow(p)
  BY <1>6, RolloutRowDone
<1>7. CASE RolloutNextDocument(p)
  BY <1>7, RolloutNextDocumentDone
<1>8. CASE RolloutEnd(p)
  BY <1>8, RolloutEndDone DEF busy, NoOp
<1>9. ASSUME NEW v \in Version, Notify(p, v) \/ NotifyFails(p, v) PROVE ops'[p].step # "save"
  BY <1>9, NotifyDone DEF busy, NoOp
<1>10. CASE OpDies(p) \/ RolloutRefused(p) \/ \E w \in Version : ImportRefused(p, w)
  <2>1. leaveUnasked(p)
    BY <1>10 DEF OpDies, RolloutRefused, ImportRefused, refused
  <2>2. ops'[p] = NoOp
    BY <2>1, TypeParts DEF leaveUnasked, continue
  <2>3. QED
    BY <2>2 DEF NoOp
<1>11. QED
  BY <1>1, <1>2, <1>3, <1>4, <1>5, <1>6, <1>7, <1>8, <1>9, <1>10 DEF OpProgress

(* A save of what was checked, or of what another write has overtaken. *)
LEMMA SaveKeepsReferences ==
  ASSUME OnboardingTypeOK, References, NEW p \in Operator, busy(p), OpSound(p), CustomerSave(p)
  PROVE  References'
<1>1. PICK c \in Customer, row \in CustomerRow : c = ops[p].customer /\ row = ops[p].saved
  BY BusyOp
<1>2. PICK next : writeCustomer(p, row, next) /\ next.step # "save"
  <2> DEFINE op == ops[p]
             step == IF op.imports = {} THEN "rollout" ELSE "import"
             later == [op EXCEPT !.documents = addedRoles(op), !.step = step]
             then == IF addedRoles(op) = {} THEN NoOp ELSE later
  <2>1. step # "save"
    OBVIOUS
  <2>2. op \in Op
    BY BusyOp
  <2>3. writeCustomer(p, row, then)
    BY <1>1 DEF CustomerSave
  <2> HIDE DEF step
  <2>4. later.step = step
    BY <2>2 DEF Op
  <2> HIDE DEF later
  <2>5. then.step # "save"
    BY <2>1, <2>4 DEF NoOp
  <2>6. QED
    BY <2>3, <2>5
<1>3. /\ customers' = [customers EXCEPT ![c] = row] /\ raced \subseteq raced'
      /\ ops[p].overtaken => row.ref \in raced'
      /\ ops'[p] = next
      /\ \A q \in Operator : q # p /\ busy(q) /\ ops[q].saved.ref = row.ref => ops'[q].overtaken
  <2>1. /\ customers' = [customers EXCEPT ![c] = row] /\ raced \subseteq raced'
        /\ ops[p].overtaken => row.ref \in raced'
    BY <1>1, <1>2 DEF writeCustomer
  <2>2. \A q \in Operator : busy(q) => [ops[q] EXCEPT !.overtaken = TRUE].overtaken
    BY BusyOp DEF Op
  <2>3. /\ ops'[p] = next
        /\ \A q \in Operator : q # p /\ busy(q) /\ ops[q].saved.ref = row.ref => ops'[q].overtaken
    BY <1>2, <2>2 DEF writeCustomer
  <2>4. QED
    BY <2>1, <2>3
<1>4. customers'[c] = row /\ \A d \in Customer : d # c => customers'[d] = customers[d]
  BY <1>3, TypeParts
<1>5. OthersStay(p)
  BY <1>2, SaverOvertakes
<1>6. \/ row.ref \in raced'
      \/ overlapping(row.ref, row.roles) \subseteq {c}
  BY <1>1, <1>3 DEF References, ChecksHold, CustomerSave
<1>7. NoDuplicateInAudience'
  <2>1. SUFFICES ASSUME NEW d \in Customer, known(d)', NEW ref, NEW roles,
                        ref = customers'[d].ref, roles = customers'[d].roles, ref \notin raced'
                 PROVE  overlapping(ref, roles)' \subseteq {d}
    BY DEF NoDuplicateInAudience, overlapping, findAllByExternalRef
  <2>2. /\ overlapping(ref, roles)' \subseteq overlapping(ref, roles) \cup {c}
        /\ c \in overlapping(ref, roles)' => row.ref = ref /\ row.roles \cap roles # {}
    BY <1>4 DEF overlapping, findAllByExternalRef
  <2>3. CASE d = c
    BY <1>3, <1>4, <1>6, <2>1, <2>2, <2>3
  <2>4. CASE d # c
    <3>1. known(d) /\ ref = customers[d].ref /\ roles = customers[d].roles
      BY <1>4, <2>1, <2>4 DEF known
    <3>2. overlapping(ref, roles) \subseteq {d}
      BY <1>3, <2>1, <3>1 DEF References, NoDuplicateInAudience
    <3>3. c \notin overlapping(ref, roles)'
      <4>1. SUFFICES ASSUME row.ref = ref, row.roles \cap roles # {} PROVE FALSE
        BY <2>2
      <4>2. d \in overlapping(row.ref, row.roles)
        BY <3>1, <4>1 DEF overlapping, findAllByExternalRef
      <4>3. QED
        BY <1>6, <2>1, <2>4, <4>1, <4>2
    <3>4. QED
      BY <2>2, <3>2, <3>3
  <2>5. QED
    BY <2>3, <2>4
<1>8. ChecksHold'
  <2>1. SUFFICES ASSUME NEW q \in Operator, at(q, "save")', ~ops'[q].overtaken, NEW ref, NEW roles,
                        ref = ops'[q].saved.ref, roles = ops'[q].saved.roles, ref \notin raced'
                 PROVE  overlapping(ref, roles)' \subseteq {ops'[q].customer}
    BY DEF ChecksHold, overlapping, findAllByExternalRef
  <2>2. q # p
    BY <1>2, <1>3, <2>1 DEF at
  <2>3. /\ busy(q) /\ at(q, "save") /\ ~ops[q].overtaken
        /\ ops'[q].saved = ops[q].saved /\ ops'[q].customer = ops[q].customer
    <3>1. busy(q)'
      BY <2>1 DEF at, busy, NoOp
    <3>2. QED
      BY <1>5, <2>1, <2>2, <3>1, OthersAsBefore DEF at
  <2>4. ref # row.ref
    BY <1>3, <2>1, <2>2, <2>3
  <2>5. overlapping(ref, roles) \subseteq {ops[q].customer}
    BY <1>3, <2>1, <2>3 DEF References, ChecksHold
  <2>6. overlapping(ref, roles)' \subseteq overlapping(ref, roles)
    BY <1>4, <2>4 DEF overlapping, findAllByExternalRef
  <2>7. QED
    BY <2>3, <2>5, <2>6
<1>9. QED
  BY <1>7, <1>8 DEF References

(* A deactivation leaves references and roles. *)
LEMMA DeleteKeepsReferences ==
  ASSUME OnboardingTypeOK, References, NEW p \in Operator, busy(p), OpSound(p), SoftDelete(p)
  PROVE  References'
<1>1. PICK c \in Customer : c = ops[p].customer
  BY BusyOp
<1>2. known(c) /\ customers[c] \in CustomerRow
  BY <1>1, KnownRow DEF SoftDelete, OpSound
<1>3. PICK row \in CustomerRow :
        /\ row = [customers[c] EXCEPT !.deleted = TRUE]
        /\ row.ref = customers[c].ref /\ row.roles = customers[c].roles
  <2> DEFINE deleted == [customers[c] EXCEPT !.deleted = TRUE]
  <2>1. /\ deleted \in CustomerRow
        /\ deleted.ref = customers[c].ref /\ deleted.roles = customers[c].roles
    BY <1>2 DEF CustomerRow
  <2>2. QED
    BY <2>1
<1>4. writeCustomer(p, row, NoOp)
  BY <1>1, <1>3 DEF SoftDelete
<1>5. /\ customers' = [customers EXCEPT ![c] = row] /\ raced \subseteq raced'
      /\ ops'[p] = NoOp /\ OthersStay(p)
  BY <1>1, <1>4, SaverOvertakes, TypeParts DEF writeCustomer
<1>6. customers'[c] = row /\ \A d \in Customer : d # c => customers'[d] = customers[d]
  BY <1>5, TypeParts
<1>7. \A d \in Customer : customers'[d].ref = customers[d].ref
                          /\ customers'[d].roles = customers[d].roles
                          /\ (known(d)' => known(d))
  BY <1>2, <1>3, <1>6 DEF known
<1>8. NoDuplicateInAudience'
  BY <1>5, <1>7 DEF References, NoDuplicateInAudience, overlapping, findAllByExternalRef
<1>9. SameMatches
  BY <1>7 DEF SameMatches, overlapping, findAllByExternalRef
<1>10. ChecksHold'
  <2>1. SUFFICES ASSUME NEW q \in Operator, at(q, "save")', ~ops'[q].overtaken, NEW ref, NEW roles,
                        ref = ops'[q].saved.ref, roles = ops'[q].saved.roles
                 PROVE  overlapping(ref, roles)' \subseteq {ops'[q].customer} \/ ref \in raced'
    BY DEF ChecksHold, overlapping, findAllByExternalRef
  <2>2. q # p
    BY <1>5, <2>1 DEF at, NoOp
  <2>3. ops'[q].saved = ops[q].saved /\ ops'[q].customer = ops[q].customer
    BY <1>5, <2>1, <2>2, OthersAsBefore DEF at, busy, NoOp
  <2>4. overlapping(ref, roles) \subseteq {ops[q].customer} \/ ref \in raced
    BY <1>5, <1>9, <2>1, <2>2, <2>3, OthersChecked
  <2>5. overlapping(ref, roles)' = overlapping(ref, roles)
    BY <1>7 DEF overlapping, findAllByExternalRef
  <2>6. QED
    BY <1>5, <2>3, <2>4, <2>5
<1>11. QED
  BY <1>8, <1>10 DEF References

LEMMA OpKeepsReferences ==
  ASSUME OnboardingTypeOK, OpsSound, References, NEW p \in Operator, OpStep(p)
  PROVE  References'
<1>1. ASSUME NEW op \in Op, begin(p, op), beginsSound(op) PROVE References'
  <2>1. OthersStay(p) /\ ops'[p] = op /\ UNCHANGED <<customers, raced>>
    BY <1>1, BeginDone, KeptStays DEF tables, histories
  <2>2. op.step = "save" =>
          \/ overlapping(op.saved.ref, op.saved.roles) \subseteq {op.customer}
          \/ op.saved.ref \in raced
    BY <1>1 DEF beginsSound
  <2>3. QED
    BY <2>1, <2>2, UnwrittenReferences DEF at
<1>2. CASE busy(p) /\ CustomerSave(p)
  BY <1>2, SaveKeepsReferences DEF OpsSound
<1>3. CASE busy(p) /\ SoftDelete(p)
  BY <1>3, DeleteKeepsReferences DEF OpsSound
<1>4. CASE busy(p) /\ (OpProgress(p) \/ OpDies(p)) /\ ~CustomerSave(p) /\ ~SoftDelete(p)
  <2>1. OpSound(p)
    BY <1>4 DEF OpsSound
  <2>2. OthersStay(p) /\ UNCHANGED <<customers, raced>>
    BY <1>4, <2>1, AwaitDone, KeptStays
  <2>3. ops'[p].step # "save"
    BY <1>4, <2>1, AwaitLeavesSave
  <2>4. QED
    BY <2>2, <2>3, UnwrittenReferences DEF at
<1>5. NoDuplicateInAudience
  BY DEF References
<1>6. QED
  BY <1>1, <1>2, <1>3, <1>4, <1>5, OpSteps

LEMMA PublishKeepsReferences ==
  ASSUME References, duringPublish
  PROVE  References'
BY DEF References, NoDuplicateInAudience, ChecksHold, known, at, overlapping,
       findAllByExternalRef, duringPublish

-----------------------------------------------------------------------------
LEMMA InvParts ==
  OnboardingInv <=> /\ OnboardingTypeOK /\ OpsSound /\ HoldersAreAsked /\ MailsSound
                    /\ References
BY DEF OnboardingInv, OpsSound, References

LEMMA InitInv == OnboardingInit => OnboardingInv
<1> SUFFICES ASSUME OnboardingInit PROVE OnboardingInv
  OBVIOUS
<1>1. OnboardingTypeOK
  BY OnboardingAssumption DEF OnboardingInit, OnboardingTypeOK, Status
<1>2. \A p \in Operator : ops[p] = NoOp
  BY DEF OnboardingInit
<1>3. \A p \in Operator : ~busy(p) /\ ~at(p, "save")
  BY <1>2 DEF busy, at, NoOp
<1>4. \A c \in Customer : ~known(c)
  BY DEF OnboardingInit, known
<1>5. HoldersAreAsked
  BY <1>4 DEF HoldersAreAsked, rolesOf
<1>6. MailsSound
  BY <1>3 DEF OnboardingInit, MailsSound
<1>7. NoDuplicateInAudience /\ ChecksHold
  BY <1>3, <1>4 DEF NoDuplicateInAudience, ChecksHold
<1>8. QED
  BY <1>1, <1>3, <1>5, <1>6, <1>7 DEF OnboardingInv

LEMMA NextInv == OnboardingInv /\ [OnboardingNext]_onboardingVars => OnboardingInv'
<1> SUFFICES ASSUME OnboardingInv, [OnboardingNext]_onboardingVars PROVE OnboardingInv'
  OBVIOUS
<1>1. OnboardingTypeOK /\ OpsSound /\ HoldersAreAsked /\ MailsSound /\ References
  BY InvParts
<1>2. CASE PublishStep
  <2>1. OnboardingTypeOK' /\ duringPublish
    BY <1>1, <1>2, PublishDone
  <2>2. OpsSound' /\ HoldersAreAsked' /\ MailsSound' /\ References'
    BY <1>1, <1>2, <2>1, SoundDuringPublish, PublishKeepsAsked, PublishKeepsMails,
       PublishKeepsReferences
  <2>3. QED
    BY <2>1, <2>2 DEF OnboardingInv, OpsSound, References
<1>3. ASSUME NEW p \in Operator, OpStep(p) PROVE OnboardingInv'
  <2>1. NoDuplicateInAudience
    BY <1>1 DEF References
  <2>2. OnboardingTypeOK' /\ OpsSound' /\ HoldersAreAsked'
    BY <1>1, <1>3, <2>1, OpStepDone DEF StepDone
  <2>3. MailsSound' /\ References'
    BY <1>1, <1>3, <2>1, OpKeepsMails, OpKeepsReferences
  <2>4. QED
    BY <2>2, <2>3 DEF OnboardingInv, OpsSound, References
<1>4. CASE UNCHANGED onboardingVars
  BY <1>4 DEF onboardingVars, tables, histories, OnboardingInv, OnboardingTypeOK, OpSound,
              HoldersAreAsked, MailsSound, NoDuplicateInAudience, ChecksHold, at, busy, known,
              rolesOf, current, upcoming, newest, versionsOf, Published, asked, owedByPublish,
              owedBy, told, overlapping, findAllByExternalRef
<1>5. QED
  BY <1>2, <1>3, <1>4 DEF OnboardingNext

(* Whatever overtakes whatever: tables and requests are sound, holders are
   asked or owed, mails are for rows, and references were checked. *)
THEOREM OnboardingInvariance == OnboardingSpec => []OnboardingInv
BY InitInv, NextInv, PTL DEF OnboardingSpec

(* Tables, requests in flight and the publish in flight keep their types. *)
THEOREM OnboardingTypeCorrect == OnboardingSpec => []OnboardingTypeOK
<1>1. OnboardingInv => OnboardingTypeOK
  BY DEF OnboardingInv
<1>2. QED
  BY <1>1, OnboardingInvariance, PTL

(* Whoever holds a role has a row of its versions, or somebody at work owes it,
   or a failure or a stale save is on record: nobody slips through. *)
THEOREM HoldersAsked == OnboardingSpec => []HolderIsAsked
<1>1. OnboardingInv => HolderIsAsked
  <2>1. ASSUME NEW c, NEW r, NEW v, asked(c, r, v)
        PROVE  \/ rows[c][v] # "none"
               \/ publication # NoPublication /\ publication.version = v
               \/ \E p \in Operator : busy(p) /\ ops[p].customer = c /\ r \in ops[p].documents
               \/ <<c, v>> \in excused
    BY <2>1 DEF asked, owedByPublish, owedBy
  <2>2. QED
    BY <2>1, Zenon DEF OnboardingInv, HoldersAreAsked, HolderIsAsked
<1>2. QED
  BY <1>1, OnboardingInvariance, PTL

(* No customer hears of a version from both, nor of one accepted on arrival. *)
THEOREM HeardOnceOnly == OnboardingSpec => []HeardOnce
<1>1. OnboardingInv => HeardOnce
  BY DEF OnboardingInv, MailsSound, HeardOnce, told
<1>2. QED
  BY <1>1, OnboardingInvariance, PTL

(* Two customers of an audience share a reference only where one operation on
   it overtook another. *)
THEOREM ReferencesUnique == OnboardingSpec => []NoDuplicateInAudience
<1>1. OnboardingInv => NoDuplicateInAudience
  BY DEF OnboardingInv
<1>2. QED
  BY <1>1, OnboardingInvariance, PTL

=============================================================================
