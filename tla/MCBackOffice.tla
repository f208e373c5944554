---------------------------- MODULE MCBackOffice ----------------------------
(***************************************************************************)
(* Small instances of BackOffice for TLC: one audience and one type that a  *)
(* replica's older configuration still has and a newer one drops or         *)
(* redefines, a customer, a document with a version in force and a draft.   *)
(***************************************************************************)
EXTENDS BackOffice, TLC

CONSTANTS customer, terms, v1, v2, v3, custom, notification, reminder, confirmation

MCDefaults ==
  ("VERSION_NOTIFICATION" :> notification) @@ ("REMINDER" :> reminder)
    @@ ("ACCEPTANCE_CONFIRMATION" :> confirmation)

settings(external, kinds) ==
  [external |-> external, assigned |-> [kind \in Kind |-> IF kind \in kinds THEN custom ELSE None]]

Older == (customer :> "Customers") @@ (terms :> settings(FALSE, {}))
Newer == terms :> settings(FALSE, {"REMINDER"})
OtherWorld == (customer :> "Clients") @@ (terms :> settings(TRUE, {"ACCEPTANCE_CONFIRMATION"}))
MCConfig == {Older, Newer, OtherWorld}

MCDocumentOf == [v \in Version |-> <<terms, customer>>]

Seeded == notification :> "VERSION_NOTIFICATION"
Nobody == [c \in Customer |-> {}]
Everybody == [c \in Customer |-> {customer}]

Established(first, held, kinds, rows) ==
  /\ entries = [k \in Key |-> IF k \in DOMAIN first THEN [id |-> 0, value |-> first[k]] ELSE NoEntry]
  /\ documents = {DocumentOf[v] : v \in DOMAIN rows}
  /\ roles = held
  /\ uploads = {}
  /\ templates = [t \in Template |-> IF t \in DOMAIN kinds THEN kinds[t] ELSE "none"]
  /\ ops = [p \in Operator |-> NoOp]
  /\ started = 0 /\ faults = 0 /\ raced = {}
  /\ versions = [v \in Version |-> IF v \in DOMAIN rows THEN rows[v] ELSE Unused]
  /\ asked = {}

(* Nothing refers to the catalogue yet and no template has been written, *)
Bare == Established(Older, Nobody, Seeded, << >>)
(* or the document has a draft and a version in force. *)
Working ==
  Established(Older, Everybody, (custom :> "REMINDER") @@ Seeded,
    (v1 :> [status |-> "PUBLISHED", text |-> "now"]) @@ (v2 :> [status |-> "DRAFT", text |-> "now"]))

MCBackOfficeInit == (Bare \/ Working) /\ BackOfficeInit
MCBackOfficeSpec == MCBackOfficeInit /\ [][BackOfficeNext]_backOfficeVars

-----------------------------------------------------------------------------
(* What the repository's documents and comments say of the back office and the
   code does not keep: each is the one property of a run that ends in a
   counterexample. *)

published(v) == versions[v].status \in {"PUBLISHED", "RETIRED"}

(* "Only DRAFTs are mutable/deletable; PUBLISHED/RETIRED are immutable",
   consent-rules.ts:87.  Broken by PatchSave: the status is checked on the row
   read and every column of that row is saved, so an edit that overlaps a
   publish turns the version back into a draft, its text and all, while its
   customers are asked and its predecessor is retired. *)
PublishedIsImmutable ==
  [][\A v \in Version :
       published(v) => published(v)' /\ versions'[v].text = versions[v].text]_backOfficeVars

(* "the document's DocumentTypeDef assignment (... by kind)", API.md:139.
   Broken by assignedTemplateId, which knows two kinds only: a confirmation of
   an acceptance is made from the template for reminders, or from the built-in
   one, whatever is assigned for confirmations. *)
AssignedTemplateIsUsed ==
  \A k \in {l \in DocType : known(l)} : \A kind \in Kind :
    LET assigned == entries[k].value.assigned[kind]
    IN assigned # None /\ found(assigned) => resolveTemplate(kind, k) = assigned

(* "documentTypeKey references a DocumentTypeDef with external=true",
   schema.prisma:452.  Broken by BootDelete and BootSave: a boot counts no
   signed documents, and it changes external. *)
SignedTypeStands ==
  \A u \in uploads : (known(u[2]) /\ entries[u[2]].value.external) \/ u[2] \in raced
=============================================================================
