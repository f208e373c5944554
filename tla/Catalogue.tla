----------------------------- MODULE Catalogue -----------------------------
(***************************************************************************)
(* The catalogue: audiences and document types, kept in step with the       *)
(* configuration file by LegalEntitiesReconciler at every boot of every     *)
(* replica, and the e-mail templates, edited by admins and seeded at boot;  *)
(* with the operations that refer to them by key: a document is created, a  *)
(* customer's roles are saved, a signed document is uploaded.  No reference *)
(* is a foreign key: each is checked before it is written, and counted      *)
(* before its target is deleted, in statements of their own.                *)
(***************************************************************************)
EXTENDS Naturals, FiniteSets

CONSTANTS
  Audience, DocType,   \* keys
  Name,                \* names an audience may have in a configuration
  Config,              \* the configurations replicas boot with: functions of
                       \* the configured keys to their names or type settings
  Template,            \* ids of e-mail templates, of those created later too
  DefaultTemplate,     \* the built-in template of each kind
  Customer, Version,   \* Version belongs to Drafts; here it is only an id
  Operator,            \* requests and boots in flight at once
  MaxOps,              \* how many of them are started: bounds the runs
  MaxFaults,           \* how many of them may die
  None

VARIABLES
  entries,    \* entries[k]: audience or document type of key k, or NoEntry
  documents,  \* <<type, audience>> of each AgreementDocument
  roles,      \* roles[c]: the roles of customer c
  uploads,    \* signed documents: <<customer, type, audience or None>>
  templates,  \* templates[t]: the kind of template t, "none" or "gone"
  ops,        \* ops[p]: what operation p has read and the await it is in
  started, faults,
  raced       \* history: what one operation deleted or overwrote while another
              \* relied on an earlier reading of it

tables == <<entries, documents, roles, uploads, templates>>
catalogueVars == <<tables, ops, started, faults, raced>>

Key == Audience \cup DocType
Kind == {"VERSION_NOTIFICATION", "REMINDER", "ACCEPTANCE_CONFIRMATION"}
TypeDef == [external : BOOLEAN, assigned : [Kind -> Template \cup {None}]]

ValueOf(k) == IF k \in Audience THEN Name ELSE TypeDef

(* The keys of audiences and types are those of two tables; what a replica
   boots with has been parsed by the schema of the configuration. *)
ASSUME CatalogueAssumption ==
  /\ MaxOps \in Nat /\ MaxFaults \in Nat
  /\ Audience \cap DocType = {}
  /\ None \notin Key \cup Template \cup Kind
  /\ DefaultTemplate \in [Kind -> Template]
  /\ \A config \in Config :
       DOMAIN config \subseteq Key /\ \A k \in DOMAIN config : config[k] \in ValueOf(k)

NoEntry == [id |-> None]
Entry(k) == {NoEntry} \cup (IF k \in Key THEN [id : 0 .. MaxOps, value : ValueOf(k)] ELSE {})
known(k) == entries[k] # NoEntry
found(t) == templates[t] \in Kind

NoOp == [kind |-> "none", refs |-> {}, doomed |-> {}]
busy(p) == ops[p] # NoOp
at(p, kind, step) == ops[p].kind = kind /\ ops[p].step = step
continue(p, update) == ops' = [ops EXCEPT ![p] = update]
finish(p) == continue(p, NoOp)

begin(p, op) ==
  /\ ~busy(p) /\ started < MaxOps
  /\ started' = started + 1
  /\ continue(p, op)
  /\ UNCHANGED <<tables, faults, raced>>

(* refs: what the operation has checked and relies on; doomed: what it has
   found unused and is about to delete. *)
reliedOn(p) == UNION {ops[q].refs : q \in Operator \ {p}}
doomedBy(p) == UNION {ops[q].doomed : q \in Operator \ {p}}
deletes(p, x) == raced' = raced \cup ({x} \cap reliedOn(p))
refersTo(p, xs) == raced' = raced \cup (xs \cap doomedBy(p))

-----------------------------------------------------------------------------
(* LegalEntitiesReconciler *)

BootOp(k) ==
  [kind : {"boot"}, step : {"find", "save", "count", "customers", "delete"},
   config : Config, keys : {Audience, DocType}, id : 1 .. MaxOps,
   todo : SUBSET Key, key : {k}, existing : Entry(k), refs : {{}}, doomed : SUBSET Key]

(* The entry it is at: one of its configuration to be saved, one of the stored
   ones to be counted and deleted, or none between two. *)
isBoot(op) ==
  /\ op.kind = "boot" /\ op \in BootOp(op.key)
  /\ IF op.step \in {"find", "count"} THEN op.key = None ELSE op.key \in Key
  /\ op.step \in {"find", "save"} => op.todo \subseteq DOMAIN op.config
  /\ op.step = "save" => op.key \in DOMAIN op.config

configured(op) == DOMAIN op.config \cap op.keys

(* reconcile: the audiences first. *)
BootBegin(p, config) ==
  begin(p, [kind |-> "boot", step |-> "find", config |-> config, keys |-> Audience,
            id |-> started + 1, todo |-> DOMAIN config \cap Audience, key |-> None,
            existing |-> NoEntry, refs |-> {}, doomed |-> {}])

handled(op, step) ==
  [op EXCEPT !.step = step, !.todo = @ \ {op.key}, !.key = None, !.existing = NoEntry, !.doomed = {}]

(* One configured entry: missing, changed, or as configured. *)
BootFind(p) ==
  /\ at(p, "boot", "find")
  /\ \E k \in ops[p].todo :
       continue(p,
         IF known(k) /\ entries[k].value = ops[p].config[k]
         THEN [ops[p] EXCEPT !.todo = @ \ {k}]
         ELSE [ops[p] EXCEPT !.step = "save", !.key = k, !.existing = entries[k]])
  /\ UNCHANGED <<tables, raced>>

(* The template ids of a type are written unchecked. *)
assignedBy(value) == {value.assigned[kind] : kind \in Kind} \ {None}
templatesOf(k, config) == IF k \in DocType THEN assignedBy(config[k]) ELSE {}

(* save: an upsert by id, under a unique key.  A row another boot has put
   under the key since it was found missing ends the boot with an error. *)
BootSave(p) ==
  LET k == ops[p].key
      id == IF ops[p].existing = NoEntry THEN ops[p].id ELSE ops[p].existing.id
      given == templatesOf(k, ops[p].config)
  IN /\ at(p, "boot", "save")
     /\ IF known(k) /\ entries[k].id # id
        THEN finish(p) /\ UNCHANGED <<entries, raced>>
        ELSE /\ entries' = [entries EXCEPT ![k] = [id |-> id, value |-> ops[p].config[k]]]
             /\ continue(p, handled(ops[p], "find"))
             /\ raced' = raced \cup (given \cap doomedBy(p)) \cup {t \in given : ~found(t)}
     /\ UNCHANGED <<documents, roles, uploads, templates>>

(* findAll, for the stored entries the configuration no longer has. *)
BootList(p) ==
  /\ at(p, "boot", "find") /\ ops[p].todo = {}
  /\ continue(p, [ops[p] EXCEPT !.step = "count",
                    !.todo = {k \in ops[p].keys \ configured(ops[p]) : known(k)}])
  /\ UNCHANGED <<tables, raced>>

(* deleteIfUnused *)
referencingDocuments(k) == {d \in documents : k \in {d[1], d[2]}}

(* A slip: the roles of customers are not counted. *)
uncounted(k) == {}

referencingCustomers(k) == {c \in Customer : k \in roles[c]}

BootCount(p) ==
  /\ at(p, "boot", "count")
  /\ \E k \in ops[p].todo :
       continue(p,
         IF ~known(k) \/ referencingDocuments(k) # {}
         THEN [ops[p] EXCEPT !.todo = @ \ {k}]
         ELSE [ops[p] EXCEPT !.step = IF k \in Audience THEN "customers" ELSE "delete",
                             !.key = k, !.doomed = {k}])
  /\ UNCHANGED <<tables, raced>>

BootCountCustomers(p) ==
  /\ at(p, "boot", "customers")
  /\ continue(p, IF referencingCustomers(ops[p].key) = {}
                 THEN [ops[p] EXCEPT !.step = "delete"] ELSE handled(ops[p], "count"))
  /\ UNCHANGED <<tables, raced>>

(* Deleting what another boot has deleted ends the boot with an error. *)
BootDelete(p) ==
  /\ at(p, "boot", "delete")
  /\ IF known(ops[p].key)
     THEN /\ entries' = [entries EXCEPT ![ops[p].key] = NoEntry]
          /\ deletes(p, ops[p].key)
          /\ continue(p, handled(ops[p], "count"))
     ELSE finish(p) /\ UNCHANGED <<entries, raced>>
  /\ UNCHANGED <<documents, roles, uploads, templates>>

(* Then the document types, then the server is up. *)
BootNext(p) ==
  /\ at(p, "boot", "count") /\ ops[p].todo = {}
  /\ IF ops[p].keys = Audience
     THEN continue(p, [ops[p] EXCEPT !.step = "find", !.keys = DocType,
                                     !.todo = DOMAIN ops[p].config \cap DocType])
     ELSE finish(p)
  /\ UNCHANGED <<tables, raced>>

Boot(p) ==
  \/ BootFind(p) \/ BootSave(p) \/ BootList(p) \/ BootCount(p)
  \/ BootCountCustomers(p) \/ BootDelete(p) \/ BootNext(p)
-----------------------------------------------------------------------------
(* What refers to the catalogue *)

DocumentOp ==
  [kind : {"document"}, step : {"audience", "write"}, customer : {None},
   type : DocType, audience : Audience, refs : SUBSET Key, doomed : {{}}]
UploadOp ==
  [kind : {"upload"}, step : {"audience", "write"}, customer : Customer,
   type : DocType, audience : Audience, refs : SUBSET Key, doomed : {{}}]
  \cup [kind : {"upload"}, step : {"write"}, customer : Customer,
        type : DocType, audience : {None}, refs : SUBSET Key, doomed : {{}}]
RolesOp ==
  [kind : {"roles"}, step : {"write"}, customer : Customer, roles : SUBSET Audience,
   refs : SUBSET Audience, doomed : {{}}]

reference(kind, c, t, a) ==
  [kind |-> kind, step |-> IF a = None THEN "write" ELSE "audience", customer |-> c,
   type |-> t, audience |-> a, refs |-> {t}, doomed |-> {}]

(* DocumentService.create: no documents of an external type. *)
DocumentBegin(p, t, a) ==
  /\ known(t) /\ ~entries[t].value.external
  /\ begin(p, reference("document", None, t, a))

(* SignedDocumentService.upload: of an external type only, the audience as the
   caller likes. *)
UploadBegin(p, c, t, a) ==
  /\ known(t) /\ entries[t].value.external
  /\ begin(p, reference("upload", c, t, a))

ReferenceAudience(p) ==
  /\ ops[p].kind \in {"document", "upload"} /\ ops[p].step = "audience"
  /\ IF known(ops[p].audience)
     THEN continue(p, [ops[p] EXCEPT !.step = "write", !.refs = @ \cup {ops[p].audience}])
     ELSE finish(p)
  /\ UNCHANGED <<tables, raced>>

(* A document that exists already, found before or refused by its unique index
   now, stays as it is. *)
DocumentSave(p) ==
  /\ at(p, "document", "write")
  /\ documents' = documents \cup {<<ops[p].type, ops[p].audience>>}
  /\ refersTo(p, ops[p].refs)
  /\ finish(p)
  /\ UNCHANGED <<entries, roles, uploads, templates>>

UploadAppend(p) ==
  /\ at(p, "upload", "write")
  /\ uploads' = uploads \cup {<<ops[p].customer, ops[p].type, ops[p].audience>>}
  /\ refersTo(p, ops[p].refs)
  /\ finish(p)
  /\ UNCHANGED <<entries, documents, roles, templates>>

rolesOp(c, rs) ==
  [kind |-> "roles", step |-> "write", customer |-> c, roles |-> rs, refs |-> rs, doomed |-> {}]

(* update with roles: each has to be known. *)
RolesBegin(p, c, rs) == (\A a \in rs : known(a)) /\ begin(p, rolesOp(c, rs))

(* update without roles: those read are saved again, with the rest of the row. *)
RenameBegin(p, c) == begin(p, rolesOp(c, roles[c]))

RolesSave(p) ==
  /\ at(p, "roles", "write")
  /\ roles' = [roles EXCEPT ![ops[p].customer] = ops[p].roles]
  /\ refersTo(p, ops[p].refs)
  /\ finish(p)
  /\ UNCHANGED <<entries, documents, uploads, templates>>
-----------------------------------------------------------------------------
(* E-mail templates *)

isDefaultEmailTemplateId(t) == t \in {DefaultTemplate[kind] : kind \in Kind}

TemplateOp ==
  [kind : {"template"}, step : {"save"}, template : Template, saved : Kind,
   refs : {{}}, doomed : {{}}]
  \cup [kind : {"template"}, step : {"count", "delete"}, template : Template, saved : {None},
        refs : {{}}, doomed : SUBSET Template]
SeedOp ==
  [kind : {"seed"}, step : {"find"}, todo : SUBSET Kind, saved : {None}, refs : {{}}, doomed : {{}}]
  \cup [kind : {"seed"}, step : {"save"}, todo : SUBSET Kind, saved : Kind,
        refs : {{}}, doomed : {{}}]

templateOp(step, t, kind) ==
  [kind |-> "template", step |-> step, template |-> t, saved |-> kind, refs |-> {}, doomed |-> {}]

TemplateCreate(p, kind) ==
  \E t \in Template :
    /\ templates[t] = "none" /\ ~isDefaultEmailTemplateId(t)
    /\ ~busy(p) /\ started < MaxOps
    /\ started' = started + 1
    /\ templates' = [templates EXCEPT ![t] = kind]
    /\ UNCHANGED <<entries, documents, roles, uploads, ops, faults, raced>>

(* A slip: a kind left out of the request is saved as none. *)
kindAsGiven(t, input) == input

(* update: the kind may change, too. *)
kindOf(t, input) == IF input = None THEN templates[t] ELSE input

TemplateUpdate(p, t, input) == found(t) /\ begin(p, templateOp("save", t, kindOf(t, input)))

(* An upsert: a template deleted meanwhile is back. *)
TemplateSave(p) ==
  /\ at(p, "template", "save")
  /\ templates' = [templates EXCEPT ![ops[p].template] = ops[p].saved]
  /\ finish(p)
  /\ UNCHANGED <<entries, documents, roles, uploads, raced>>

TemplateRemove(p, t) ==
  /\ found(t) /\ ~isDefaultEmailTemplateId(t)
  /\ begin(p, templateOp("count", t, None))

(* deleteIfUnused: the types that have it for their notifications or reminders. *)
assignedTypes(t) ==
  {k \in DocType : known(k) /\ \E kind \in {"VERSION_NOTIFICATION", "REMINDER"} :
                                 entries[k].value.assigned[kind] = t}

TemplateCount(p) ==
  LET t == ops[p].template
  IN /\ at(p, "template", "count")
     /\ IF found(t) /\ assignedTypes(t) = {}
        THEN continue(p, [ops[p] EXCEPT !.step = "delete", !.doomed = {t}])
        ELSE finish(p)
     /\ UNCHANGED <<tables, raced>>

(* A second deletion fails, and leaves it gone. *)
TemplateDelete(p) ==
  /\ at(p, "template", "delete")
  /\ templates' = [templates EXCEPT ![ops[p].template] = "gone"]
  /\ finish(p)
  /\ UNCHANGED <<entries, documents, roles, uploads, raced>>

(* DefaultEmailTemplateSeeder.ensureDefaults *)
SeedBegin(p) ==
  begin(p, [kind |-> "seed", step |-> "find", todo |-> Kind, saved |-> None, refs |-> {}, doomed |-> {}])

missingDefaults(p) == {kind \in ops[p].todo : ~found(DefaultTemplate[kind])}

SeedFind(p) ==
  /\ at(p, "seed", "find")
  /\ IF missingDefaults(p) = {} THEN finish(p)
     ELSE \E kind \in missingDefaults(p) :
            continue(p, [ops[p] EXCEPT !.step = "save", !.todo = @ \ {kind}, !.saved = kind])
  /\ UNCHANGED <<tables, raced>>

SeedSave(p) ==
  /\ at(p, "seed", "save")
  /\ templates' = [templates EXCEPT ![DefaultTemplate[ops[p].saved]] = ops[p].saved]
  /\ continue(p, [ops[p] EXCEPT !.step = "find", !.saved = None])
  /\ UNCHANGED <<entries, documents, roles, uploads, raced>>
-----------------------------------------------------------------------------
(* EmailContentService.resolveTemplate: the template a mail of this kind about
   a document of this type is made from. *)
assignedTemplateId(kind, k) ==
  IF ~known(k) THEN None
  ELSE entries[k].value.assigned[IF kind = "VERSION_NOTIFICATION" THEN kind ELSE "REMINDER"]

resolveTemplate(kind, k) ==
  LET assigned == assignedTemplateId(kind, k)
  IN IF assigned # None /\ found(assigned) THEN assigned ELSE DefaultTemplate[kind]

(* The process dies, at any await. *)
OpDies(p) ==
  /\ busy(p)
  /\ faults < MaxFaults /\ faults' = faults + 1
  /\ finish(p)
  /\ UNCHANGED <<tables, started, raced>>

CatalogueBegin(p) ==
  \/ \E config \in Config : BootBegin(p, config)
  \/ \E t \in DocType, a \in Audience : DocumentBegin(p, t, a)
  \/ \E c \in Customer, t \in DocType, a \in Audience \cup {None} : UploadBegin(p, c, t, a)
  \/ \E c \in Customer : RenameBegin(p, c) \/ \E rs \in SUBSET Audience : RolesBegin(p, c, rs)
  \/ \E kind \in Kind : TemplateCreate(p, kind)
  \/ \E t \in Template : \/ TemplateRemove(p, t)
                         \/ \E input \in Kind \cup {None} : TemplateUpdate(p, t, input)
  \/ SeedBegin(p)

CatalogueStep(p) ==
  /\ \/ Boot(p)
     \/ ReferenceAudience(p) \/ DocumentSave(p) \/ UploadAppend(p) \/ RolesSave(p)
     \/ TemplateSave(p) \/ TemplateCount(p) \/ TemplateDelete(p)
     \/ SeedFind(p) \/ SeedSave(p)
  /\ UNCHANGED <<started, faults>>

CatalogueTypeOK ==
  /\ DOMAIN entries = Key /\ \A k \in Key : entries[k] \in Entry(k)
  /\ documents \subseteq DocType \X Audience
  /\ roles \in [Customer -> SUBSET Audience]
  /\ uploads \subseteq Customer \X DocType \X (Audience \cup {None})
  /\ templates \in [Template -> Kind \cup {"none", "gone"}]
  /\ started \in 0 .. MaxOps /\ faults \in 0 .. MaxFaults
  /\ raced \subseteq Key \cup Template \cup Version
=============================================================================
