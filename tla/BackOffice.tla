----------------------------- MODULE BackOffice -----------------------------
(***************************************************************************)
(* The back office as a whole: replicas boot, admins and integrations work  *)
(* on the catalogue, the documents and their versions, and any two of them  *)
(* at once.                                                                 *)
(***************************************************************************)
EXTENDS Drafts

backOfficeVars == <<catalogueVars, draftVars>>

BackOfficeNext ==
  \E p \in Operator :
    \/ CatalogueBegin(p) /\ UNCHANGED draftVars
    \/ CatalogueStep(p) /\ UNCHANGED draftVars
    \/ OpDies(p) /\ UNCHANGED draftVars
    \/ DraftBegin(p)
    \/ DraftStep(p)

OpTypeOK(op) ==
  \/ op = NoOp
  \/ op \in DocumentOp \cup UploadOp \cup RolesOp \cup TemplateOp \cup SeedOp \cup DraftOp
  \/ isBoot(op)

BackOfficeTypeOK ==
  /\ CatalogueTypeOK
  /\ DraftTypeOK
  /\ DOMAIN ops = Operator /\ \A p \in Operator : OpTypeOK(ops[p])

-----------------------------------------------------------------------------
(* Safety *)

(* The references nothing but the code keeps: the type and the audience of a
   document, the roles of a customer and the templates assigned for
   notifications and reminders all exist, however many replicas boot with
   other configurations, unless a deletion and a write that relied on its
   target ran at once, or a configuration names a template nobody has. *)
ReferencesStand ==
  /\ \A d \in documents : \A k \in {d[1], d[2]} : known(k) \/ k \in raced
  /\ \A c \in Customer : \A a \in roles[c] : known(a) \/ a \in raced
  /\ \A k \in {l \in DocType : known(l)} : \A kind \in {"VERSION_NOTIFICATION", "REMINDER"} :
       LET t == entries[k].value.assigned[kind] IN t = None \/ found(t) \/ t \in raced

(* A version somebody has been asked about stays, and says what they have been
   asked about unless an edit, a deletion or a second publish had read it
   before it was published. *)
AskedTextStands ==
  \A r \in asked :
    /\ present(r.version)
    /\ versions[r.version].text = r.text \/ r.version \in raced
    /\ versions[r.version].status # "DRAFT" \/ r.version \in raced

-----------------------------------------------------------------------------
(* What the operations in flight know, which both rest on. *)

(* Each tells what it relies on and what it is about to delete. *)
Declared(op) ==
  /\ op.kind \in {"document", "upload"} =>
       /\ op.type \in op.refs
       /\ op.step = "write" /\ op.audience # None => op.audience \in op.refs
  /\ op.kind = "roles" => op.refs = op.roles
  /\ op.kind = "boot" /\ op.step \in {"customers", "delete"} => op.doomed = {op.key}
  /\ op.kind = "template" /\ op.step = "delete" => op.doomed = {op.template}
  /\ unsaved(op) => op.version \in op.refs

(* What it relies on is still there. *)
ReliedOn(op) ==
  /\ op.kind \in {"document", "upload", "roles"} => \A k \in op.refs : known(k) \/ k \in raced
  /\ unsaved(op) => versions[op.version].status = "DRAFT" \/ op.version \in raced
  /\ saved(op) => versions[op.version].status # "DRAFT" \/ op.version \in raced
  /\ unsaved(op) \/ saved(op) => versions[op.version] # Unused

(* What it is about to delete is still unused. *)
Doomed(op) ==
  /\ op.kind = "boot" /\ op.step \in {"customers", "delete"} =>
       referencingDocuments(op.key) = {} \/ op.key \in raced
  /\ op.kind = "boot" /\ op.step = "delete" =>
       referencingCustomers(op.key) = {} \/ op.key \in raced
  /\ op.kind = "template" /\ op.step = "delete" =>
       assignedTypes(op.template) = {} \/ op.template \in raced

(* Every table and every operation in flight has its type, and whatever another
   operation does in between, what one has checked holds when it writes. *)
BackOfficeInv ==
  /\ BackOfficeTypeOK
  /\ ReferencesStand
  /\ AskedTextStands
  /\ \A p \in Operator : Declared(ops[p]) /\ ReliedOn(ops[p]) /\ Doomed(ops[p])

-----------------------------------------------------------------------------
(* What earlier operations may have left: nobody is at work, what there is
   finds what it refers to, and nobody has been asked yet. *)
BackOfficeInit ==
  /\ BackOfficeTypeOK /\ ReferencesStand
  /\ \A p \in Operator : ops[p] = NoOp
  /\ raced = {} /\ asked = {}

BackOfficeSpec == BackOfficeInit /\ [][BackOfficeNext]_backOfficeVars
=============================================================================
