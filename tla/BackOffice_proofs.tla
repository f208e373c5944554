-------------------------- MODULE BackOffice_proofs --------------------------
(***************************************************************************)
(* BackOfficeSpec => []BackOfficeInv, for any sets of keys, configurations, *)
(* templates, versions and operators.                                       *)
(***************************************************************************)
EXTENDS BackOffice, TLAPS

(* The kind of an operation tells its shape. *)
LEMMA OpKinds ==
  ASSUME NEW op, OpTypeOK(op)
  PROVE  /\ op.kind = "document" => op \in DocumentOp
         /\ op.kind = "upload" => op \in UploadOp
         /\ op.kind = "roles" => op \in RolesOp
         /\ op.kind = "template" => op \in TemplateOp
         /\ op.kind = "seed" => op \in SeedOp
         /\ op.kind \in {"patch", "delete", "publish"} => op \in DraftOp
         /\ op.kind = "boot" => isBoot(op)
BY DEF OpTypeOK, NoOp, DocumentOp, UploadOp, RolesOp, TemplateOp, SeedOp, DraftOp, isBoot

(* An operation that moves on leaves the others where they are. *)
LEMMA OpsTyped ==
  ASSUME BackOfficeTypeOK, NEW p \in Operator, NEW u, OpTypeOK(u), continue(p, u)
  PROVE  DOMAIN ops' = Operator /\ \A q \in Operator : OpTypeOK(ops'[q])
BY DEF BackOfficeTypeOK, continue

LEMMA NoOpTyped == OpTypeOK(NoOp)
BY DEF OpTypeOK

(* The steps of a boot keep the types. *)
LEMMA BootTypes ==
  ASSUME BackOfficeTypeOK, NEW p \in Operator, Boot(p), UNCHANGED <<started, faults, draftVars>>
  PROVE  BackOfficeTypeOK'
<1>. USE CatalogueAssumption
<1>1. ASSUME isBoot(ops[p]), NEW step \in {"find", "count"},
             step = "find" => ops[p].todo \subseteq DOMAIN ops[p].config
      PROVE  isBoot(handled(ops[p], step))
  BY <1>1 DEF isBoot, BootOp, handled, Entry, NoEntry
<1>2. CASE BootFind(p)
  <2>1. isBoot(ops[p]) /\ ops[p].step = "find"
    BY <1>2, OpKinds DEF BootFind, at, BackOfficeTypeOK
  <2>2. PICK k \in ops[p].todo :
          continue(p,
            IF known(k) /\ entries[k].value = ops[p].config[k]
            THEN [ops[p] EXCEPT !.todo = @ \ {k}]
            ELSE [ops[p] EXCEPT !.step = "save", !.key = k, !.existing = entries[k]])
    BY <1>2 DEF BootFind
  <2>3. k \in Key /\ k \in DOMAIN ops[p].config /\ entries[k] \in Entry(k)
    BY <2>1 DEF isBoot, BootOp, BackOfficeTypeOK, CatalogueTypeOK
  <2>4. isBoot([ops[p] EXCEPT !.todo = @ \ {k}])
    BY <2>1 DEF isBoot, BootOp
  <2>5. isBoot([ops[p] EXCEPT !.step = "save", !.key = k, !.existing = entries[k]])
    BY <2>1, <2>3 DEF isBoot, BootOp
  <2>. QED BY <1>2, <2>2, <2>4, <2>5, OpsTyped
       DEF BootFind, BackOfficeTypeOK, CatalogueTypeOK, DraftTypeOK, OpTypeOK, tables, draftVars
<1>3. CASE BootSave(p)
  <2> DEFINE id == IF ops[p].existing = NoEntry THEN ops[p].id ELSE ops[p].existing.id
             row == [id |-> id, value |-> ops[p].config[ops[p].key]]
  <2>1. isBoot(ops[p]) /\ ops[p].step = "save"
    BY <1>3, OpKinds DEF BootSave, at, BackOfficeTypeOK
  <2>2. ops[p].key \in Key /\ row \in Entry(ops[p].key)
    <3>1. ops[p].key \in Key /\ ops[p].config \in Config /\ ops[p].key \in DOMAIN ops[p].config
      BY <2>1 DEF isBoot, BootOp
    <3>2. ops[p].existing \in Entry(ops[p].key) /\ ops[p].id \in 1 .. MaxOps
      BY <2>1 DEF isBoot, BootOp
    <3>3. id \in 0 .. MaxOps
      BY <3>1, <3>2 DEF Entry
    <3>4. ops[p].config[ops[p].key] \in ValueOf(ops[p].key)
      BY <3>1
    <3>. QED BY <3>1, <3>3, <3>4 DEF Entry
  <2>3. isBoot(handled(ops[p], "find"))
    BY <2>1, <1>1 DEF isBoot
  <2>4. \A t \in templatesOf(ops[p].key, ops[p].config) : t \in Template
    BY <2>1, <2>2 DEF isBoot, BootOp, templatesOf, assignedBy, ValueOf, TypeDef
  <2>5. CASE known(ops[p].key) /\ entries[ops[p].key].id # id
    BY <1>3, <2>5, NoOpTyped, OpsTyped
    DEF BootSave, finish, BackOfficeTypeOK, CatalogueTypeOK, DraftTypeOK, draftVars
  <2>6. CASE ~(known(ops[p].key) /\ entries[ops[p].key].id # id)
    <3>1. /\ entries' = [entries EXCEPT ![ops[p].key] = row]
          /\ continue(p, handled(ops[p], "find"))
          /\ raced' \subseteq raced \cup templatesOf(ops[p].key, ops[p].config)
          /\ UNCHANGED <<documents, roles, uploads, templates, started, faults, draftVars>>
      BY <1>3, <2>6 DEF BootSave
    <3>. HIDE DEF row
    <3>2. DOMAIN entries' = Key /\ \A k \in Key : entries'[k] \in Entry(k)
      BY <3>1, <2>2 DEF BackOfficeTypeOK, CatalogueTypeOK
    <3>3. raced' \subseteq Key \cup Template \cup Version
      BY <3>1, <2>4 DEF BackOfficeTypeOK, CatalogueTypeOK
    <3>. QED BY <3>1, <3>2, <3>3, <2>3, OpsTyped
         DEF BackOfficeTypeOK, CatalogueTypeOK, DraftTypeOK, OpTypeOK, draftVars
  <2>. QED BY <2>5, <2>6
<1>4. CASE BootList(p)
  <2>1. isBoot(ops[p]) /\ ops[p].step = "find"
    BY <1>4, OpKinds DEF BootList, at, BackOfficeTypeOK
  <2>2. isBoot([ops[p] EXCEPT !.step = "count",
                  !.todo = {k \in ops[p].keys \ configured(ops[p]) : known(k)}])
    BY <2>1 DEF isBoot, BootOp, Key
  <2>. QED BY <1>4, <2>2, OpsTyped
       DEF BootList, BackOfficeTypeOK, CatalogueTypeOK, DraftTypeOK, OpTypeOK, tables, draftVars
<1>5. CASE BootCount(p)
  <2>1. isBoot(ops[p]) /\ ops[p].step = "count"
    BY <1>5, OpKinds DEF BootCount, at, BackOfficeTypeOK
  <2>2. PICK k \in ops[p].todo :
          continue(p,
            IF ~known(k) \/ referencingDocuments(k) # {}
            THEN [ops[p] EXCEPT !.todo = @ \ {k}]
            ELSE [ops[p] EXCEPT !.step = IF k \in Audience THEN "customers" ELSE "delete",
                                !.key = k, !.doomed = {k}])
    BY <1>5 DEF BootCount
  <2>3. k \in Key
    BY <2>1 DEF isBoot, BootOp
  <2>4. isBoot([ops[p] EXCEPT !.todo = @ \ {k}])
    BY <2>1 DEF isBoot, BootOp
  <2>5. isBoot([ops[p] EXCEPT !.step = IF k \in Audience THEN "customers" ELSE "delete",
                              !.key = k, !.doomed = {k}])
    BY <2>1, <2>3 DEF isBoot, BootOp, Entry
  <2>. QED BY <1>5, <2>2, <2>4, <2>5, OpsTyped
       DEF BootCount, BackOfficeTypeOK, CatalogueTypeOK, DraftTypeOK, OpTypeOK, tables, draftVars
<1>6. CASE BootCountCustomers(p)
  <2>1. isBoot(ops[p]) /\ ops[p].step = "customers"
    BY <1>6, OpKinds DEF BootCountCustomers, at, BackOfficeTypeOK
  <2>2. isBoot([ops[p] EXCEPT !.step = "delete"])
    BY <2>1 DEF isBoot, BootOp
  <2>3. isBoot(handled(ops[p], "count"))
    BY <2>1, <1>1
  <2>. QED BY <1>6, <2>2, <2>3, OpsTyped
       DEF BootCountCustomers, BackOfficeTypeOK, CatalogueTypeOK, DraftTypeOK, OpTypeOK, tables, draftVars
<1>7. CASE BootDelete(p)
  <2>1. isBoot(ops[p]) /\ ops[p].step = "delete"
    BY <1>7, OpKinds DEF BootDelete, at, BackOfficeTypeOK
  <2>2. isBoot(handled(ops[p], "count")) /\ ops[p].key \in Key
    BY <2>1, <1>1 DEF isBoot
  <2>3. CASE known(ops[p].key)
    <3>1. /\ entries' = [entries EXCEPT ![ops[p].key] = NoEntry]
          /\ continue(p, handled(ops[p], "count"))
          /\ raced' \subseteq raced \cup {ops[p].key}
          /\ UNCHANGED <<documents, roles, uploads, templates, started, faults, draftVars>>
      BY <1>7, <2>3 DEF BootDelete, deletes
    <3>2. DOMAIN entries' = Key /\ \A k \in Key : entries'[k] \in Entry(k)
      BY <3>1, <2>2 DEF BackOfficeTypeOK, CatalogueTypeOK, Entry
    <3>. QED BY <3>1, <3>2, <2>2, OpsTyped
         DEF BackOfficeTypeOK, CatalogueTypeOK, DraftTypeOK, OpTypeOK, draftVars
  <2>4. CASE ~known(ops[p].key)
    BY <1>7, <2>4, NoOpTyped, OpsTyped
    DEF BootDelete, finish, BackOfficeTypeOK, CatalogueTypeOK, DraftTypeOK, draftVars
  <2>. QED BY <2>3, <2>4
<1>8. CASE BootNext(p)
  <2>1. isBoot(ops[p]) /\ ops[p].step = "count"
    BY <1>8, OpKinds DEF BootNext, at, BackOfficeTypeOK
  <2>2. isBoot([ops[p] EXCEPT !.step = "find", !.keys = DocType,
                              !.todo = DOMAIN ops[p].config \cap DocType])
    BY <2>1 DEF isBoot, BootOp, Key
  <2>. QED BY <1>8, <2>2, NoOpTyped, OpsTyped
       DEF BootNext, finish, BackOfficeTypeOK, CatalogueTypeOK, DraftTypeOK, OpTypeOK, tables, draftVars
<1>. QED BY <1>2, <1>3, <1>4, <1>5, <1>6, <1>7, <1>8 DEF Boot

LEMMA BeginTypes ==
  ASSUME BackOfficeTypeOK, NEW p \in Operator, NEW u, OpTypeOK(u), begin(p, u), UNCHANGED draftVars
  PROVE  BackOfficeTypeOK'
BY OpsTyped, CatalogueAssumption
DEF begin, BackOfficeTypeOK, CatalogueTypeOK, DraftTypeOK, tables, draftVars

(* So does everything else that begins in the catalogue, *)
LEMMA CatalogueBeginTypes ==
  ASSUME BackOfficeTypeOK, NEW p \in Operator, CatalogueBegin(p), UNCHANGED draftVars
  PROVE  BackOfficeTypeOK'
<1>. USE CatalogueAssumption
<1>1. ASSUME NEW config \in Config, BootBegin(p, config)
      PROVE  BackOfficeTypeOK'
  <2>1. started + 1 \in 1 .. MaxOps
    BY <1>1 DEF BootBegin, begin, BackOfficeTypeOK, CatalogueTypeOK
  <2> DEFINE op == [kind |-> "boot", step |-> "find", config |-> config, keys |-> Audience,
                    id |-> started + 1, todo |-> DOMAIN config \cap Audience, key |-> None,
                    existing |-> NoEntry, refs |-> {}, doomed |-> {}]
  <2>2. isBoot(op)
    BY <2>1 DEF isBoot, BootOp, Entry, Key
  <2>. QED BY <1>1, <2>2, BeginTypes DEF BootBegin, OpTypeOK
<1>2. ASSUME NEW t \in DocType, NEW a \in Audience, DocumentBegin(p, t, a)
      PROVE  BackOfficeTypeOK'
  <2>1. reference("document", None, t, a) \in DocumentOp
    BY DEF reference, DocumentOp, Key
  <2>. QED BY <1>2, <2>1, BeginTypes DEF DocumentBegin, OpTypeOK
<1>3. ASSUME NEW c \in Customer, NEW t \in DocType, NEW a \in Audience \cup {None},
             UploadBegin(p, c, t, a)
      PROVE  BackOfficeTypeOK'
  <2>1. reference("upload", c, t, a) \in UploadOp
    BY DEF reference, UploadOp, Key
  <2>. QED BY <1>3, <2>1, BeginTypes DEF UploadBegin, OpTypeOK
<1>4. ASSUME NEW c \in Customer, NEW rs \in SUBSET Audience, begin(p, rolesOp(c, rs))
      PROVE  BackOfficeTypeOK'
  <2>1. rolesOp(c, rs) \in RolesOp
    BY DEF rolesOp, RolesOp
  <2>. QED BY <1>4, <2>1, BeginTypes DEF OpTypeOK
<1>5. ASSUME NEW kind \in Kind, TemplateCreate(p, kind)
      PROVE  BackOfficeTypeOK'
  BY <1>5 DEF TemplateCreate, BackOfficeTypeOK, CatalogueTypeOK, DraftTypeOK, draftVars
<1>6. ASSUME NEW t \in Template, TemplateRemove(p, t)
      PROVE  BackOfficeTypeOK'
  <2>1. templateOp("count", t, None) \in TemplateOp
    BY DEF templateOp, TemplateOp
  <2>. QED BY <1>6, <2>1, BeginTypes DEF TemplateRemove, OpTypeOK
<1>7. ASSUME NEW t \in Template, NEW input \in Kind \cup {None}, TemplateUpdate(p, t, input)
      PROVE  BackOfficeTypeOK'
  <2>1. kindOf(t, input) \in Kind
    BY <1>7 DEF TemplateUpdate, found, kindOf
  <2>2. templateOp("save", t, kindOf(t, input)) \in TemplateOp
    BY <2>1 DEF templateOp, TemplateOp
  <2>. QED BY <1>7, <2>2, BeginTypes DEF TemplateUpdate, OpTypeOK
<1>8. CASE SeedBegin(p)
  <2> DEFINE op == [kind |-> "seed", step |-> "find", todo |-> Kind, saved |-> None,
                    refs |-> {}, doomed |-> {}]
  <2>1. op \in SeedOp
    BY DEF SeedOp
  <2>. QED BY <1>8, <2>1, BeginTypes DEF SeedBegin, OpTypeOK
<1>9. \A c \in Customer : roles[c] \in SUBSET Audience
  BY DEF BackOfficeTypeOK, CatalogueTypeOK
<1>. QED BY <1>1, <1>2, <1>3, <1>4, <1>5, <1>6, <1>7, <1>8, <1>9
     DEF CatalogueBegin, RenameBegin, RolesBegin

(* or goes on there. *)
LEMMA CatalogueStepTypes ==
  ASSUME BackOfficeTypeOK, NEW p \in Operator, CatalogueStep(p), UNCHANGED draftVars
  PROVE  BackOfficeTypeOK'
<1>. USE CatalogueAssumption DEF BackOfficeTypeOK, CatalogueTypeOK, DraftTypeOK, draftVars
<1>1. UNCHANGED <<started, faults>>
  BY DEF CatalogueStep
<1>2. CASE ReferenceAudience(p)
  <2>1. ops[p] \in DocumentOp \cup UploadOp /\ ops[p].step = "audience"
    BY <1>2, OpKinds DEF ReferenceAudience
  <2>2. [ops[p] EXCEPT !.step = "write", !.refs = @ \cup {ops[p].audience}]
          \in DocumentOp \cup UploadOp
    BY <2>1 DEF DocumentOp, UploadOp, Key
  <2>. QED BY <1>1, <1>2, <2>2, NoOpTyped, OpsTyped DEF ReferenceAudience, finish, tables, OpTypeOK
<1>3. CASE DocumentSave(p)
  <2>1. ops[p] \in DocumentOp
    BY <1>3, OpKinds DEF DocumentSave, at
  <2>2. /\ ops[p].refs \subseteq Key
        /\ <<ops[p].type, ops[p].audience>> \in DocType \X Audience
    BY <2>1 DEF DocumentOp
  <2>. QED BY <1>1, <1>3, <2>2, NoOpTyped, OpsTyped DEF DocumentSave, refersTo, finish
<1>4. CASE UploadAppend(p)
  <2>1. ops[p] \in UploadOp
    BY <1>4, OpKinds DEF UploadAppend, at
  <2>2. /\ ops[p].refs \subseteq Key
        /\ <<ops[p].customer, ops[p].type, ops[p].audience>>
             \in Customer \X DocType \X (Audience \cup {None})
    BY <2>1 DEF UploadOp
  <2>. QED BY <1>1, <1>4, <2>2, NoOpTyped, OpsTyped DEF UploadAppend, refersTo, finish
<1>5. CASE RolesSave(p)
  <2>1. ops[p] \in RolesOp
    BY <1>5, OpKinds DEF RolesSave, at
  <2>2. ops[p].roles \in SUBSET Audience /\ ops[p].refs \subseteq Key
    BY <2>1 DEF RolesOp, Key
  <2>. QED BY <1>1, <1>5, <2>2, NoOpTyped, OpsTyped DEF RolesSave, refersTo, finish
<1>6. CASE TemplateSave(p)
  <2>1. ops[p] \in TemplateOp /\ ops[p].step = "save"
    BY <1>6, OpKinds DEF TemplateSave, at
  <2>2. ops[p].saved \in Kind
    BY <2>1 DEF TemplateOp
  <2>. QED BY <1>1, <1>6, <2>2, NoOpTyped, OpsTyped DEF TemplateSave, finish
<1>7. CASE TemplateCount(p)
  <2>1. ops[p] \in TemplateOp /\ ops[p].step = "count"
    BY <1>7, OpKinds DEF TemplateCount, at
  <2>2. [ops[p] EXCEPT !.step = "delete", !.doomed = {ops[p].template}] \in TemplateOp
    BY <2>1 DEF TemplateOp
  <2>. QED BY <1>1, <1>7, <2>2, NoOpTyped, OpsTyped DEF TemplateCount, finish, tables, OpTypeOK
<1>8. CASE TemplateDelete(p)
  BY <1>1, <1>8, NoOpTyped, OpsTyped DEF TemplateDelete, finish
<1>9. CASE SeedFind(p)
  <2>1. ops[p] \in SeedOp /\ ops[p].step = "find"
    BY <1>9, OpKinds DEF SeedFind, at
  <2>2. \A kind \in missingDefaults(p) :
          [ops[p] EXCEPT !.step = "save", !.todo = @ \ {kind}, !.saved = kind] \in SeedOp
    BY <2>1 DEF SeedOp, missingDefaults
  <2>. QED BY <1>1, <1>9, <2>2, NoOpTyped, OpsTyped DEF SeedFind, finish, tables, OpTypeOK
<1>10. CASE SeedSave(p)
  <2>1. ops[p] \in SeedOp /\ ops[p].step = "save"
    BY <1>10, OpKinds DEF SeedSave, at
  <2>2. ops[p].saved \in Kind /\ [ops[p] EXCEPT !.step = "find", !.saved = None] \in SeedOp
    BY <2>1 DEF SeedOp
  <2>. QED BY <1>1, <1>10, <2>2, OpsTyped DEF SeedSave, OpTypeOK
<1>. QED BY <1>1, <1>2, <1>3, <1>4, <1>5, <1>6, <1>7, <1>8, <1>9, <1>10, BootTypes DEF CatalogueStep

LEMMA DraftTypes ==
  ASSUME BackOfficeTypeOK, NEW p \in Operator, DraftBegin(p) \/ DraftStep(p)
  PROVE  BackOfficeTypeOK'
<1>. USE CatalogueAssumption DEF BackOfficeTypeOK, CatalogueTypeOK, DraftTypeOK
<1>1. ASSUME NEW v \in Version, assertDraftMutable(v)
      PROVE  versions[v] \in VersionRow
  BY <1>1 DEF assertDraftMutable, Unused, Deleted
<1>2. ASSUME NEW v \in Version, NEW text \in Text, DraftCreate(p, v, text)
      PROVE  BackOfficeTypeOK'
  BY <1>2 DEF DraftCreate, tables, VersionRow
<1>3. ASSUME NEW v \in Version, NEW text \in Text, PatchBegin(p, v, text)
      PROVE  BackOfficeTypeOK'
  <2> DEFINE op == [kind |-> "patch", step |-> "save", version |-> v,
                    row |-> [versions[v] EXCEPT !.text = text], targets |-> {},
                    refs |-> {v}, doomed |-> {}]
  <2>1. op.row \in VersionRow
    BY <1>1, <1>3 DEF PatchBegin, VersionRow
  <2>2. op \in DraftOp
    BY <2>1 DEF DraftOp
  <2>. QED BY <1>3, <2>2, BeginTypes DEF PatchBegin, OpTypeOK
<1>4. ASSUME NEW v \in Version, NEW kind \in {"delete", "publish"}, NEW step \in {"find", "save"},
             assertDraftMutable(v), read(p, kind, step, v), UNCHANGED draftVars
      PROVE  BackOfficeTypeOK'
  <2> DEFINE op == [kind |-> kind, step |-> step, version |-> v, row |-> versions[v], targets |-> {},
                    refs |-> {v}, doomed |-> {}]
  <2>1. op \in DraftOp
    BY <1>1, <1>4 DEF DraftOp
  <2>. QED BY <1>4, <2>1, BeginTypes DEF read, OpTypeOK
<1>5. CASE DraftBegin(p)
  BY <1>2, <1>3, <1>4, <1>5 DEF DraftBegin, DeleteBegin, PublishRead
<1>6. CASE DraftStep(p)
  <2>1. ops[p] \in DraftOp /\ ops[p].version \in Version /\ ops[p].row \in VersionRow
    <3>1. ops[p] \in DraftOp
      BY <1>6, OpKinds DEF DraftStep, PatchSave, DeleteFind, DeleteVersion, PublishSave, PublishRetire,
         PublishTargets, PublishRollout, PublishReturn, at
    <3>. QED BY <3>1 DEF DraftOp
  <2>2. UNCHANGED <<tables, started, faults>>
    BY <1>6 DEF DraftStep
  <2>3. CASE PatchSave(p)
    BY <2>1, <2>2, <2>3, NoOpTyped, OpsTyped DEF PatchSave, saveVersion, deletes, finish, tables
  <2>4. CASE DeleteFind(p)
    <3>1. [ops[p] EXCEPT !.step = "delete"] \in DraftOp
      BY <2>1 DEF DraftOp
    <3>. QED BY <2>2, <2>4, <3>1, NoOpTyped, OpsTyped DEF DeleteFind, finish, tables, draftVars, OpTypeOK
  <2>5. CASE DeleteVersion(p)
    BY <2>1, <2>2, <2>5, NoOpTyped, OpsTyped DEF DeleteVersion, saveVersion, deletes, finish, tables
  <2>6. CASE PublishSave(p)
    <3>1. [ops[p].row EXCEPT !.status = "PUBLISHED"] \in VersionRow
      BY <2>1 DEF VersionRow
    <3>2. \A step \in {"targets", "retire"} : [ops[p] EXCEPT !.step = step] \in DraftOp
      BY <2>1 DEF DraftOp
    <3>. QED BY <2>1, <2>2, <2>6, <3>1, <3>2, OpsTyped
         DEF PublishSave, saveVersion, deletes, tables, OpTypeOK
  <2>7. CASE PublishRetire(p)
    <3>1. \A w \in Version : versions[w].status = "PUBLISHED" =>
            [versions[w] EXCEPT !.status = "RETIRED"] \in VersionRow
      BY DEF VersionRow, Unused, Deleted
    <3>2. [ops[p] EXCEPT !.step = "targets"] \in DraftOp
      BY <2>1 DEF DraftOp
    <3>. QED BY <2>2, <2>7, <3>1, <3>2, OpsTyped DEF PublishRetire, tables, OpTypeOK
  <2>8. CASE PublishTargets(p)
    <3>1. [ops[p] EXCEPT !.step = "rollout", !.refs = {},
             !.targets = {c \in Customer : DocumentOf[ops[p].version][2] \in roles[c]}] \in DraftOp
      BY <2>1 DEF DraftOp
    <3>. QED BY <2>2, <2>8, <3>1, OpsTyped DEF PublishTargets, tables, draftVars, OpTypeOK
  <2>9. CASE PublishRollout(p)
    <3>1. PICK c \in ops[p].targets :
            IF ~present(ops[p].version) \/ \E r \in rowsOf(ops[p].version) : r.customer = c
            THEN finish(p) /\ UNCHANGED asked
            ELSE /\ asked' = asked \cup {[customer |-> c, version |-> ops[p].version,
                                         text |-> versions[ops[p].version].text]}
                 /\ continue(p, [ops[p] EXCEPT !.targets = @ \ {c}])
      BY <2>9 DEF PublishRollout
    <3>2. c \in Customer /\ [ops[p] EXCEPT !.targets = @ \ {c}] \in DraftOp
      BY <2>1 DEF DraftOp
    <3>3. present(ops[p].version) => versions[ops[p].version].text \in Text
      BY <2>1 DEF present, VersionRow
    <3>4. DOMAIN ops' = Operator /\ \A q \in Operator : OpTypeOK(ops'[q])
      BY <3>1, <3>2, NoOpTyped, OpsTyped DEF finish, OpTypeOK
    <3>5. asked' \subseteq [customer : Customer, version : Version, text : Text]
      BY <2>1, <3>1, <3>2, <3>3
    <3>. QED BY <2>2, <2>9, <3>4, <3>5 DEF PublishRollout, tables
  <2>10. CASE PublishReturn(p)
    BY <2>2, <2>10, NoOpTyped, OpsTyped DEF PublishReturn, finish, tables, draftVars
  <2>. QED BY <1>6, <2>3, <2>4, <2>5, <2>6, <2>7, <2>8, <2>9, <2>10 DEF DraftStep
<1>. QED BY <1>5, <1>6

LEMMA TypeStep ==
  ASSUME BackOfficeTypeOK, [BackOfficeNext]_backOfficeVars
  PROVE  BackOfficeTypeOK'
<1>1. CASE UNCHANGED backOfficeVars
  BY <1>1 DEF backOfficeVars, catalogueVars, draftVars, tables,
              BackOfficeTypeOK, CatalogueTypeOK, DraftTypeOK
<1>2. ASSUME NEW p \in Operator, OpDies(p), UNCHANGED draftVars
      PROVE  BackOfficeTypeOK'
  BY <1>2, NoOpTyped, OpsTyped, CatalogueAssumption
  DEF OpDies, finish, tables, draftVars, BackOfficeTypeOK, CatalogueTypeOK, DraftTypeOK
<1>. QED BY <1>1, <1>2, CatalogueBeginTypes, CatalogueStepTypes, DraftTypes DEF BackOfficeNext

-----------------------------------------------------------------------------
(* What an operation in flight knows *)

Fit(p) == Declared(ops[p]) /\ ReliedOn(ops[p]) /\ Doomed(ops[p])

LEMMA Idle ==
  ASSUME NEW p \in Operator, ops'[p] = NoOp
  PROVE  Fit(p)'
BY DEF Fit, Declared, ReliedOn, Doomed, NoOp, unsaved, saved

(* Another operation's knowledge outlives what leaves the tables it has read. *)
LEMMA Untouched ==
  ASSUME NEW q \in Operator, Fit(q), ops'[q] = ops[q], raced \subseteq raced',
         UNCHANGED <<entries, documents, roles, versions>>
  PROVE  Fit(q)'
BY DEF Fit, Declared, ReliedOn, Doomed, known, referencingDocuments, referencingCustomers, assignedTypes

LEMMA QuietStep ==
  ASSUME BackOfficeInv, BackOfficeTypeOK', NEW p \in Operator, Fit(p)',
         \A q \in Operator : q # p => ops'[q] = ops[q],
         raced \subseteq raced', UNCHANGED <<entries, documents, roles, templates, versions, asked>>
  PROVE  BackOfficeInv'
<1>2. \A q \in Operator : Fit(q)'
  BY Untouched DEF BackOfficeInv, Fit
<1>3. ReferencesStand'
  BY DEF BackOfficeInv, ReferencesStand, known, found
<1>4. AskedTextStands'
  BY DEF BackOfficeInv, AskedTextStands, present
<1>. QED BY <1>2, <1>3, <1>4 DEF BackOfficeInv, Fit

LEMMA OwnOp ==
  ASSUME BackOfficeTypeOK, NEW p \in Operator, NEW u, continue(p, u)
  PROVE  ops'[p] = u /\ \A q \in Operator : q # p => ops'[q] = ops[q]
BY DEF continue, BackOfficeTypeOK

(* A template is written, or one deleted that no type has assigned. *)
LEMMA TemplateStep ==
  ASSUME BackOfficeInv, BackOfficeTypeOK', NEW p \in Operator, Fit(p)',
         \A q \in Operator : q # p => ops'[q] = ops[q],
         NEW t \in Template, NEW x, templates' = [templates EXCEPT ![t] = x],
         x \in Kind \/ assignedTypes(t) = {} \/ t \in raced,
         UNCHANGED <<entries, documents, roles, versions, asked, raced>>
  PROVE  BackOfficeInv'
<1>1. \A q \in Operator : Fit(q)'
  BY Untouched DEF BackOfficeInv, Fit
<1>2. ReferencesStand'
  <2>1. ASSUME NEW k \in DocType, known(k), NEW kind \in {"VERSION_NOTIFICATION", "REMINDER"},
               entries[k].value.assigned[kind] = t
        PROVE  k \in assignedTypes(t)
    BY <2>1 DEF assignedTypes
  <2>2. \A k \in DocType, kind \in {"VERSION_NOTIFICATION", "REMINDER"} :
          known(k) => entries[k].value.assigned[kind] \in Template \cup {None}
    BY CatalogueAssumption DEF BackOfficeInv, BackOfficeTypeOK, CatalogueTypeOK, Entry, known, Key,
       ValueOf, TypeDef, Kind
  <2>3. \A u \in Template : found(u) /\ u # t => found(u)'
    BY DEF found, BackOfficeInv, BackOfficeTypeOK, CatalogueTypeOK
  <2>4. x \in Kind => found(t)'
    BY DEF found, BackOfficeInv, BackOfficeTypeOK, CatalogueTypeOK
  <2>. QED BY <2>1, <2>2, <2>3, <2>4 DEF BackOfficeInv, ReferencesStand, known
<1>3. AskedTextStands'
  BY DEF BackOfficeInv, AskedTextStands, present
<1>. QED BY <1>1, <1>2, <1>3 DEF BackOfficeInv, Fit

LEMMA CatalogueBeginFits ==
  ASSUME BackOfficeInv, BackOfficeTypeOK', NEW p \in Operator, CatalogueBegin(p), UNCHANGED draftVars
  PROVE  BackOfficeInv'
<1>1. ASSUME NEW u, begin(p, u), Fit(p)'
      PROVE  BackOfficeInv'
  BY <1>1, OwnOp, QuietStep DEF begin, tables, draftVars, BackOfficeInv
<1>2. ASSUME NEW u, begin(p, u)
      PROVE  ops'[p] = u /\ UNCHANGED <<entries, raced>>
  BY <1>2, OwnOp DEF begin, BackOfficeInv, tables
<1>3. ASSUME NEW config \in Config, BootBegin(p, config)
      PROVE  BackOfficeInv'
  <2> DEFINE op == [kind |-> "boot", step |-> "find", config |-> config, keys |-> Audience,
                    id |-> started + 1, todo |-> DOMAIN config \cap Audience, key |-> None,
                    existing |-> NoEntry, refs |-> {}, doomed |-> {}]
  <2>1. ops'[p] = op
    BY <1>2, <1>3 DEF BootBegin
  <2>2. Fit(p)'
    BY <2>1 DEF Fit, Declared, ReliedOn, Doomed, unsaved, saved
  <2>. QED BY <1>1, <1>3, <2>2 DEF BootBegin
<1>4. ASSUME NEW t \in DocType, NEW a \in Audience, DocumentBegin(p, t, a)
      PROVE  BackOfficeInv'
  <2>1. ops'[p] = reference("document", None, t, a) /\ UNCHANGED <<entries, raced>> /\ known(t)
    BY <1>2, <1>4 DEF DocumentBegin
  <2>2. Fit(p)'
    BY <2>1, CatalogueAssumption DEF Fit, Declared, ReliedOn, Doomed, unsaved, saved, reference, known, Key
  <2>. QED BY <1>1, <1>4, <2>2 DEF DocumentBegin
<1>5. ASSUME NEW c \in Customer, NEW t \in DocType, NEW a \in Audience \cup {None},
             UploadBegin(p, c, t, a)
      PROVE  BackOfficeInv'
  <2>1. ops'[p] = reference("upload", c, t, a) /\ UNCHANGED <<entries, raced>> /\ known(t)
    BY <1>2, <1>5 DEF UploadBegin
  <2>2. Fit(p)'
    BY <2>1 DEF Fit, Declared, ReliedOn, Doomed, unsaved, saved, reference, known
  <2>. QED BY <1>1, <1>5, <2>2 DEF UploadBegin
<1>6. ASSUME NEW c \in Customer, NEW rs \in SUBSET Audience, begin(p, rolesOp(c, rs)),
             \A a \in rs : known(a) \/ a \in raced
      PROVE  BackOfficeInv'
  <2>1. ops'[p] = rolesOp(c, rs) /\ UNCHANGED <<entries, raced>>
    BY <1>2, <1>6
  <2>2. Fit(p)'
    BY <1>6, <2>1 DEF Fit, Declared, ReliedOn, Doomed, unsaved, saved, rolesOp, known
  <2>. QED BY <1>1, <1>6, <2>2
<1>7. ASSUME NEW step \in {"save", "count"}, NEW t, NEW kind, begin(p, templateOp(step, t, kind))
      PROVE  BackOfficeInv'
  <2>1. Fit(p)'
    BY <1>2, <1>7 DEF Fit, Declared, ReliedOn, Doomed, unsaved, saved, templateOp
  <2>. QED BY <1>1, <1>7, <2>1
<1>8. CASE SeedBegin(p)
  <2> DEFINE op == [kind |-> "seed", step |-> "find", todo |-> Kind, saved |-> None,
                    refs |-> {}, doomed |-> {}]
  <2>1. ops'[p] = op
    BY <1>2, <1>8 DEF SeedBegin
  <2>2. Fit(p)'
    BY <2>1 DEF Fit, Declared, ReliedOn, Doomed, unsaved, saved
  <2>. QED BY <1>1, <1>8, <2>2 DEF SeedBegin
<1>9. ASSUME NEW kind \in Kind, TemplateCreate(p, kind)
      PROVE  BackOfficeInv'
  <2>1. Fit(p)'
    BY <1>9, Idle DEF TemplateCreate, busy
  <2>. QED BY <1>9, <2>1, TemplateStep DEF TemplateCreate, draftVars
<1>10. \A c \in Customer : roles[c] \in SUBSET Audience /\ \A a \in roles[c] : known(a) \/ a \in raced
  BY DEF BackOfficeInv, BackOfficeTypeOK, CatalogueTypeOK, ReferencesStand
<1>. QED BY <1>3, <1>4, <1>5, <1>6, <1>7, <1>8, <1>9, <1>10
     DEF CatalogueBegin, RenameBegin, RolesBegin, TemplateRemove, TemplateUpdate

LEMMA BootFits ==
  ASSUME BackOfficeInv, BackOfficeTypeOK', NEW p \in Operator, Boot(p), UNCHANGED draftVars
  PROVE  BackOfficeInv'
<1>1. BackOfficeTypeOK /\ Fit(p)
  BY DEF BackOfficeInv, Fit
<1>2. isBoot(ops[p])
  BY <1>1, OpKinds DEF Boot, BootFind, BootSave, BootList, BootCount, BootCountCustomers, BootDelete,
     BootNext, at, BackOfficeTypeOK
<1>3. ASSUME NEW u, continue(p, u), UNCHANGED <<tables, raced>>,
             u.kind = "boot", u.step \in {"find", "save", "count"}
      PROVE  BackOfficeInv'
  <2>1. ops'[p] = u /\ \A q \in Operator : q # p => ops'[q] = ops[q]
    BY <1>1, <1>3, OwnOp
  <2>2. Fit(p)'
    BY <1>3, <2>1 DEF Fit, Declared, ReliedOn, Doomed, unsaved, saved
  <2>. QED BY <1>3, <2>1, <2>2, QuietStep DEF tables, draftVars
<1>4. ASSUME continue(p, NoOp), UNCHANGED <<tables, raced>>
      PROVE  BackOfficeInv'
  BY <1>1, <1>4, OwnOp, Idle, QuietStep DEF tables, draftVars
<1>5. CASE BootFind(p)
  <2>1. \A k : LET u == [ops[p] EXCEPT !.todo = @ \ {k}]
               IN ops[p].step = "find" => u.kind = "boot" /\ u.step = "find"
    BY <1>2 DEF isBoot, BootOp
  <2>2. \A k : LET u == [ops[p] EXCEPT !.step = "save", !.key = k, !.existing = entries[k]]
               IN u.kind = "boot" /\ u.step = "save"
    BY <1>2 DEF isBoot, BootOp
  <2>. QED BY <1>3, <1>5, <2>1, <2>2 DEF BootFind, at
<1>6. CASE BootList(p)
  <2>1. \A x : LET u == [ops[p] EXCEPT !.step = "count", !.todo = x]
               IN u.kind = "boot" /\ u.step = "count"
    BY <1>2 DEF isBoot, BootOp
  <2>. QED BY <1>3, <1>6, <2>1 DEF BootList
<1>7. CASE BootNext(p)
  <2>1. LET u == [ops[p] EXCEPT !.step = "find", !.keys = DocType,
                                !.todo = DOMAIN ops[p].config \cap DocType]
        IN u.kind = "boot" /\ u.step = "find"
    BY <1>2 DEF isBoot, BootOp
  <2>. QED BY <1>3, <1>4, <1>7, <2>1 DEF BootNext, finish
<1>8. CASE BootCount(p)
  <2>1. PICK k \in ops[p].todo :
          continue(p,
            IF ~known(k) \/ referencingDocuments(k) # {}
            THEN [ops[p] EXCEPT !.todo = @ \ {k}]
            ELSE [ops[p] EXCEPT !.step = IF k \in Audience THEN "customers" ELSE "delete",
                                !.key = k, !.doomed = {k}])
    BY <1>8 DEF BootCount
  <2>2. CASE ~known(k) \/ referencingDocuments(k) # {}
    <3>1. LET u == [ops[p] EXCEPT !.todo = @ \ {k}]
          IN ops[p].step = "count" => u.kind = "boot" /\ u.step = "count"
      BY <1>2 DEF isBoot, BootOp
    <3>. QED BY <1>3, <1>8, <2>1, <2>2, <3>1 DEF BootCount, at
  <2>3. CASE ~(~known(k) \/ referencingDocuments(k) # {})
    <3> DEFINE u == [ops[p] EXCEPT !.step = IF k \in Audience THEN "customers" ELSE "delete",
                                   !.key = k, !.doomed = {k}]
    <3>1. /\ u.kind = "boot" /\ u.key = k /\ u.doomed = {k}
          /\ u.step = IF k \in Audience THEN "customers" ELSE "delete"
      BY <1>2 DEF isBoot, BootOp
    <3>2. ops'[p] = u /\ \A q \in Operator : q # p => ops'[q] = ops[q]
      BY <1>1, <2>1, <2>3, OwnOp
    <3>. HIDE DEF u
    <3>3. k \notin Audience => referencingCustomers(k) = {}
      BY <1>1 DEF referencingCustomers, BackOfficeTypeOK, CatalogueTypeOK
    <3>4. Fit(p)'
      BY <1>8, <2>3, <3>1, <3>2, <3>3
      DEF BootCount, Fit, Declared, ReliedOn, Doomed, unsaved, saved, tables,
          referencingDocuments, referencingCustomers
    <3>. QED BY <1>8, <3>2, <3>4, QuietStep DEF BootCount, tables, draftVars
  <2>. QED BY <2>2, <2>3
<1>9. CASE BootCountCustomers(p)
  <2>1. CASE referencingCustomers(ops[p].key) = {}
    <3> DEFINE u == [ops[p] EXCEPT !.step = "delete"]
    <3>1. u.kind = "boot" /\ u.step = "delete" /\ u.key = ops[p].key /\ u.doomed = ops[p].doomed
      BY <1>2 DEF isBoot, BootOp
    <3>2. ops'[p] = u /\ \A q \in Operator : q # p => ops'[q] = ops[q]
      BY <1>1, <1>9, <2>1, OwnOp DEF BootCountCustomers
    <3>. HIDE DEF u
    <3>3. Fit(p)'
      BY <1>1, <1>2, <1>9, <2>1, <3>1, <3>2
      DEF BootCountCustomers, at, isBoot, Fit, Declared, ReliedOn, Doomed, unsaved, saved, tables,
          referencingDocuments, referencingCustomers
    <3>. QED BY <1>9, <3>2, <3>3, QuietStep DEF BootCountCustomers, tables, draftVars
  <2>2. CASE referencingCustomers(ops[p].key) # {}
    <3>1. handled(ops[p], "count").kind = "boot" /\ handled(ops[p], "count").step = "count"
      BY <1>2 DEF isBoot, BootOp, handled
    <3>. QED BY <1>3, <1>9, <2>2, <3>1 DEF BootCountCustomers
  <2>. QED BY <2>1, <2>2
<1>10. CASE BootSave(p)
  <2> DEFINE k == ops[p].key
             value == ops[p].config[k]
             given == templatesOf(k, ops[p].config)
  <2>1. CASE finish(p) /\ UNCHANGED <<entries, raced>>
    BY <1>4, <1>10, <2>1 DEF BootSave, finish, tables
  <2>2. ASSUME NEW id, entries' = [entries EXCEPT ![k] = [id |-> id, value |-> value]],
               continue(p, handled(ops[p], "find")),
               raced' = raced \cup (given \cap doomedBy(p)) \cup {t \in given : ~found(t)}
        PROVE  BackOfficeInv'
    <3>1. k \in Key /\ DOMAIN entries = Key
      BY <1>1, <1>2, <1>10 DEF BootSave, at, isBoot, BackOfficeTypeOK, CatalogueTypeOK
    <3>2. entries'[k].value = value /\ entries'[k] # NoEntry
      BY <2>2, <3>1 DEF NoEntry
    <3>3. \A l \in Key : l # k => entries'[l] = entries[l]
      BY <2>2, <3>1
    <3>. HIDE DEF value, given
    <3>4. \A l \in Key : known(l) => known(l)'
      BY <3>2, <3>3 DEF known
    <3>5. UNCHANGED <<documents, roles, uploads, templates, versions, asked>> /\ raced \subseteq raced'
      BY <1>10, <2>2 DEF BootSave, draftVars
    <3>6. Fit(p)'
      <4>1. handled(ops[p], "find").kind = "boot" /\ handled(ops[p], "find").step = "find"
        BY <1>2 DEF isBoot, BootOp, handled
      <4>2. ops'[p] = handled(ops[p], "find")
        BY <1>1, <2>2, OwnOp
      <4>. QED BY <4>1, <4>2 DEF Fit, Declared, ReliedOn, Doomed, unsaved, saved
    (* What the entry has assigned, no other operation deletes unnoticed. *)
    <3>7. ASSUME k \in DocType, NEW kind \in Kind, value.assigned[kind] # None
          PROVE  value.assigned[kind] \in given
      BY <3>7 DEF value, given, templatesOf, assignedBy
    <3>8. ASSUME NEW q \in Operator, q # p
          PROVE  Fit(q)'
      <4>1. Fit(q) /\ ops'[q] = ops[q] /\ OpTypeOK(ops[q])
        BY <1>1, <2>2, <3>8, OwnOp DEF BackOfficeInv, Fit, BackOfficeTypeOK
      <4>2. Declared(ops[q])'
        BY <4>1 DEF Fit, Declared, unsaved
      <4>3. ReliedOn(ops[q])'
        <5>1. ops[q].kind \in {"document", "upload", "roles"} => ops[q].refs \subseteq Key
          BY <4>1, OpKinds DEF DocumentOp, UploadOp, RolesOp, Key
        <5>. QED BY <3>4, <3>5, <4>1, <5>1 DEF Fit, ReliedOn, unsaved, saved
      <4>4. Doomed(ops[q])'
        <5>1. ASSUME ops[q].kind = "template", ops[q].step = "delete",
                     assignedTypes(ops[q].template) = {}, ops[q].template \notin raced'
              PROVE  assignedTypes(ops[q].template)' = {}
          <6>1. ops[q].template \in Template /\ ops[q].doomed = {ops[q].template}
            BY <4>1, <5>1, OpKinds DEF Fit, Declared, TemplateOp
          <6>2. ops[q].template \notin given
            BY <2>2, <3>8, <5>1, <6>1 DEF doomedBy
          <6>3. ops[q].template # None
            BY <6>1, CatalogueAssumption
          <6>4. \A kind \in {"VERSION_NOTIFICATION", "REMINDER"} :
                  k \in DocType => value.assigned[kind] # ops[q].template
            BY <3>7, <6>2, <6>3 DEF Kind
          <6>. QED BY <4>1, <5>1, <6>4, <3>2, <3>3 DEF assignedTypes, known, Key
        <5>2. ASSUME ops[q].kind = "template", ops[q].step = "delete"
              PROVE  assignedTypes(ops[q].template)' = {} \/ ops[q].template \in raced'
          BY <3>5, <4>1, <5>1, <5>2 DEF Fit, Doomed
        <5>3. (ops[q].kind = "boot" /\ ops[q].step \in {"customers", "delete"} =>
                 referencingDocuments(ops[q].key) = {} \/ ops[q].key \in raced)'
          BY <3>5, <4>1 DEF Fit, Doomed, referencingDocuments
        <5>4. (ops[q].kind = "boot" /\ ops[q].step = "delete" =>
                 referencingCustomers(ops[q].key) = {} \/ ops[q].key \in raced)'
          BY <3>5, <4>1 DEF Fit, Doomed, referencingCustomers
        <5>. QED BY <4>1, <5>2, <5>3, <5>4 DEF Doomed
      <4>. QED BY <4>2, <4>3, <4>4 DEF Fit
    <3>9. ReferencesStand'
      <4>1. \A d \in documents : d[1] \in Key /\ d[2] \in Key
        BY <1>1 DEF BackOfficeTypeOK, CatalogueTypeOK, Key
      <4>2. \A c \in Customer : \A a \in roles[c] : a \in Key
        BY <1>1 DEF BackOfficeTypeOK, CatalogueTypeOK, Key
      <4>3. ASSUME NEW l \in DocType, known(l)', NEW kind \in {"VERSION_NOTIFICATION", "REMINDER"}
            PROVE  (LET t == entries[l].value.assigned[kind]
                    IN t = None \/ found(t) \/ t \in raced)'
        <5>1. CASE l = k
          <6>1. value.assigned[kind] # None => value.assigned[kind] \in given
            BY <3>7, <4>3, <5>1 DEF Kind
          <6>. QED BY <2>2, <3>2, <3>5, <5>1, <6>1 DEF found
        <5>2. CASE l # k
          BY <3>3, <3>5, <4>3, <5>2 DEF BackOfficeInv, ReferencesStand, known, found, Key
        <5>. QED BY <5>1, <5>2
      <4>. QED BY <3>4, <3>5, <4>1, <4>2, <4>3 DEF BackOfficeInv, ReferencesStand
    <3>10. AskedTextStands'
      BY <3>5 DEF BackOfficeInv, AskedTextStands, present
    <3>. QED BY <3>6, <3>8, <3>9, <3>10 DEF BackOfficeInv, Fit
  <2>. QED BY <1>10, <2>1, <2>2 DEF BootSave
<1>11. CASE BootDelete(p)
  <2> DEFINE k == ops[p].key
  <2>1. CASE ~known(k)
    BY <1>4, <1>11, <2>1 DEF BootDelete, finish, tables
  <2>2. CASE known(k)
    <3>1. /\ entries' = [entries EXCEPT ![k] = NoEntry]
          /\ raced' = raced \cup ({k} \cap reliedOn(p))
          /\ continue(p, handled(ops[p], "count"))
          /\ UNCHANGED <<documents, roles, uploads, templates, versions, asked>>
      BY <1>11, <2>2 DEF BootDelete, deletes, draftVars
    <3>2. k \in Key /\ DOMAIN entries = Key
      BY <1>1, <1>2, <1>11 DEF BootDelete, at, isBoot, BackOfficeTypeOK, CatalogueTypeOK
    <3>3. \A l \in Key : known(l)' <=> known(l) /\ l # k
      BY <3>1, <3>2 DEF known
    <3>4. \A l \in Key : l # k => entries'[l] = entries[l]
      BY <3>1, <3>2
    <3>5. referencingDocuments(k) = {} \/ k \in raced
      BY <1>1, <1>11 DEF BootDelete, at, Fit, Doomed
    <3>6. referencingCustomers(k) = {} \/ k \in raced
      BY <1>1, <1>11 DEF BootDelete, at, Fit, Doomed
    <3>7. Fit(p)'
      <4>1. handled(ops[p], "count").kind = "boot" /\ handled(ops[p], "count").step = "count"
        BY <1>2 DEF isBoot, BootOp, handled
      <4>2. ops'[p] = handled(ops[p], "count")
        BY <1>1, <3>1, OwnOp
      <4>. QED BY <4>1, <4>2 DEF Fit, Declared, ReliedOn, Doomed, unsaved, saved
    <3>8. ASSUME NEW q \in Operator, q # p
          PROVE  Fit(q)'
      <4>1. Fit(q) /\ ops'[q] = ops[q] /\ OpTypeOK(ops[q])
        BY <1>1, <3>1, <3>8, OwnOp DEF BackOfficeInv, Fit, BackOfficeTypeOK
      <4>2. Declared(ops[q])'
        BY <4>1 DEF Fit, Declared, unsaved
      <4>3. ReliedOn(ops[q])'
        <5>1. ops[q].kind \in {"document", "upload", "roles"} => ops[q].refs \subseteq Key
          BY <4>1, OpKinds DEF DocumentOp, UploadOp, RolesOp, Key
        <5>2. k \in ops[q].refs => k \in raced'
          BY <3>1, <3>8 DEF reliedOn
        <5>. QED BY <3>1, <3>3, <4>1, <5>1, <5>2 DEF Fit, ReliedOn, unsaved, saved
      <4>4. Doomed(ops[q])'
        <5>1. assignedTypes(ops[q].template)' \subseteq assignedTypes(ops[q].template)
          BY <3>3, <3>4, <4>1 DEF assignedTypes, Key
        <5>. QED BY <3>1, <4>1, <5>1 DEF Fit, Doomed, referencingDocuments, referencingCustomers
      <4>. QED BY <4>2, <4>3, <4>4 DEF Fit
    <3>9. ReferencesStand'
      <4>1. \A d \in documents : \A l \in {d[1], d[2]} :
              l \in Key /\ (known(l) \/ l \in raced) /\ (l = k => k \in raced)
        BY <1>1, <3>5 DEF BackOfficeTypeOK, CatalogueTypeOK, Key, BackOfficeInv, ReferencesStand,
           referencingDocuments
      <4>2. \A c \in Customer : \A a \in roles[c] :
              a \in Key /\ (known(a) \/ a \in raced) /\ (a = k => k \in raced)
        BY <1>1, <3>6 DEF BackOfficeTypeOK, CatalogueTypeOK, Key, BackOfficeInv, ReferencesStand,
           referencingCustomers
      <4>3. ASSUME NEW l \in DocType, known(l)', NEW kind \in {"VERSION_NOTIFICATION", "REMINDER"}
            PROVE  (LET t == entries[l].value.assigned[kind]
                    IN t = None \/ found(t) \/ t \in raced)'
        BY <3>1, <3>3, <3>4, <4>3 DEF BackOfficeInv, ReferencesStand, found, Key
      <4>. QED BY <3>1, <3>3, <4>1, <4>2, <4>3 DEF ReferencesStand
    <3>10. AskedTextStands'
      BY <3>1 DEF BackOfficeInv, AskedTextStands, present
    <3>. QED BY <3>7, <3>8, <3>9, <3>10 DEF BackOfficeInv, Fit
  <2>. QED BY <2>1, <2>2
<1>. QED BY <1>5, <1>6, <1>7, <1>8, <1>9, <1>10, <1>11 DEF Boot

LEMMA CatalogueStepFits ==
  ASSUME BackOfficeInv, BackOfficeTypeOK', NEW p \in Operator, CatalogueStep(p), UNCHANGED draftVars
  PROVE  BackOfficeInv'
<1>1. BackOfficeTypeOK /\ Fit(p) /\ OpTypeOK(ops[p])
  BY DEF BackOfficeInv, Fit, BackOfficeTypeOK
<1>2. ASSUME continue(p, NoOp)
      PROVE  Fit(p)' /\ \A q \in Operator : q # p => ops'[q] = ops[q]
  BY <1>1, <1>2, OwnOp, Idle
<1>3. CASE ReferenceAudience(p)
  <2> DEFINE u == [ops[p] EXCEPT !.step = "write", !.refs = @ \cup {ops[p].audience}]
  <2>1. CASE known(ops[p].audience)
    <3>1. /\ u.kind = ops[p].kind /\ u.step = "write" /\ u.type = ops[p].type
          /\ u.audience = ops[p].audience /\ u.refs = ops[p].refs \cup {ops[p].audience}
      BY <1>1, <1>3, OpKinds DEF ReferenceAudience, DocumentOp, UploadOp
    <3>2. ops'[p] = u /\ \A q \in Operator : q # p => ops'[q] = ops[q]
      BY <1>1, <1>3, <2>1, OwnOp DEF ReferenceAudience
    <3>. HIDE DEF u
    <3>3. Fit(p)'
      BY <1>1, <1>3, <2>1, <3>1, <3>2
      DEF ReferenceAudience, tables, Fit, Declared, ReliedOn, Doomed, unsaved, saved, known
    <3>. QED BY <1>3, <3>2, <3>3, QuietStep DEF ReferenceAudience, tables, draftVars
  <2>2. CASE ~known(ops[p].audience)
    BY <1>2, <1>3, <2>2, QuietStep DEF ReferenceAudience, finish, tables, draftVars
  <2>. QED BY <2>1, <2>2
<1>4. CASE DocumentSave(p)
  <2> DEFINE new == <<ops[p].type, ops[p].audience>>
  <2>1. /\ documents' = documents \cup {new}
        /\ raced' = raced \cup (ops[p].refs \cap doomedBy(p))
        /\ UNCHANGED <<entries, roles, templates, versions, asked>>
    BY <1>4 DEF DocumentSave, refersTo, draftVars
  <2>2. Fit(p)' /\ \A q \in Operator : q # p => ops'[q] = ops[q]
    BY <1>2, <1>4 DEF DocumentSave, finish
  <2>3. new[1] \in ops[p].refs /\ new[2] \in ops[p].refs
    BY <1>1, <1>4, OpKinds, CatalogueAssumption
    DEF DocumentSave, at, Fit, Declared, DocumentOp, Key
  <2>4. \A k \in ops[p].refs : known(k) \/ k \in raced
    BY <1>1, <1>4 DEF DocumentSave, at, Fit, ReliedOn
  <2>. HIDE DEF new
  <2>5. ASSUME NEW q \in Operator, q # p
        PROVE  Fit(q)'
    <3>1. Fit(q) /\ ops'[q] = ops[q]
      BY <2>2, <2>5 DEF BackOfficeInv, Fit
    <3>2. \A k : k \in ops[q].doomed /\ k \notin raced' => k \notin {new[1], new[2]}
      BY <2>1, <2>3, <2>5 DEF doomedBy
    <3>3. \A k : k \in ops[q].doomed /\ k \notin raced' =>
            referencingDocuments(k)' = referencingDocuments(k)
      BY <2>1, <3>2 DEF referencingDocuments
    <3>. QED BY <2>1, <3>1, <3>3
         DEF Fit, Declared, ReliedOn, Doomed, unsaved, saved, known, referencingCustomers, assignedTypes
  <2>6. ReferencesStand'
    BY <2>1, <2>3, <2>4 DEF BackOfficeInv, ReferencesStand, known, found
  <2>7. AskedTextStands'
    BY <2>1 DEF BackOfficeInv, AskedTextStands, present
  <2>. QED BY <2>2, <2>5, <2>6, <2>7 DEF BackOfficeInv, Fit
<1>5. CASE UploadAppend(p)
  BY <1>2, <1>5, QuietStep DEF UploadAppend, refersTo, finish, draftVars
<1>6. CASE RolesSave(p)
  <2>1. /\ roles' = [roles EXCEPT ![ops[p].customer] = ops[p].roles]
        /\ raced' = raced \cup (ops[p].refs \cap doomedBy(p))
        /\ UNCHANGED <<entries, documents, templates, versions, asked>>
    BY <1>6 DEF RolesSave, refersTo, draftVars
  <2>2. Fit(p)' /\ \A q \in Operator : q # p => ops'[q] = ops[q]
    BY <1>2, <1>6 DEF RolesSave, finish
  <2>3. ops[p].refs = ops[p].roles /\ \A k \in ops[p].refs : known(k) \/ k \in raced
    BY <1>1, <1>6 DEF RolesSave, at, Fit, Declared, ReliedOn
  <2>4. \A c \in Customer : roles'[c] \subseteq roles[c] \cup ops[p].refs
    BY <1>1, <2>1, <2>3 DEF BackOfficeTypeOK, CatalogueTypeOK
  <2>5. ASSUME NEW q \in Operator, q # p
        PROVE  Fit(q)'
    <3>1. Fit(q) /\ ops'[q] = ops[q]
      BY <2>2, <2>5 DEF BackOfficeInv, Fit
    <3>2. \A k : k \in ops[q].doomed /\ k \notin raced' => k \notin ops[p].refs
      BY <2>1, <2>5 DEF doomedBy
    <3>3. \A k : k \in ops[q].doomed /\ k \notin raced' =>
            referencingCustomers(k)' \subseteq referencingCustomers(k)
      BY <2>4, <3>2 DEF referencingCustomers
    <3>. QED BY <2>1, <3>1, <3>3
         DEF Fit, Declared, ReliedOn, Doomed, unsaved, saved, known, referencingDocuments, assignedTypes
  <2>6. ReferencesStand'
    BY <2>1, <2>3, <2>4 DEF BackOfficeInv, ReferencesStand, known, found
  <2>7. AskedTextStands'
    BY <2>1 DEF BackOfficeInv, AskedTextStands, present
  <2>. QED BY <2>2, <2>5, <2>6, <2>7 DEF BackOfficeInv, Fit
<1>7. CASE TemplateSave(p)
  <2>1. ops[p].template \in Template /\ ops[p].saved \in Kind
    BY <1>1, <1>7, OpKinds DEF TemplateSave, at, TemplateOp
  <2>. QED BY <1>2, <1>7, <2>1, TemplateStep DEF TemplateSave, finish, draftVars
<1>8. CASE TemplateCount(p)
  <2> DEFINE u == [ops[p] EXCEPT !.step = "delete", !.doomed = {ops[p].template}]
  <2>1. CASE found(ops[p].template) /\ assignedTypes(ops[p].template) = {}
    <3>1. /\ u.kind = "template" /\ u.step = "delete" /\ u.template = ops[p].template
          /\ u.doomed = {ops[p].template}
      BY <1>1, <1>8, OpKinds DEF TemplateCount, at, TemplateOp
    <3>2. ops'[p] = u /\ \A q \in Operator : q # p => ops'[q] = ops[q]
      BY <1>1, <1>8, <2>1, OwnOp DEF TemplateCount
    <3>. HIDE DEF u
    <3>3. Fit(p)'
      BY <1>8, <2>1, <3>1, <3>2
      DEF TemplateCount, tables, Fit, Declared, ReliedOn, Doomed, unsaved, saved, assignedTypes, known
    <3>. QED BY <1>8, <3>2, <3>3, QuietStep DEF TemplateCount, tables, draftVars
  <2>2. CASE ~(found(ops[p].template) /\ assignedTypes(ops[p].template) = {})
    BY <1>2, <1>8, <2>2, QuietStep DEF TemplateCount, finish, tables, draftVars
  <2>. QED BY <2>1, <2>2
<1>9. CASE TemplateDelete(p)
  <2>1. ops[p].template \in Template
    BY <1>1, <1>9, OpKinds DEF TemplateDelete, at, TemplateOp
  <2>2. assignedTypes(ops[p].template) = {} \/ ops[p].template \in raced
    BY <1>1, <1>9 DEF TemplateDelete, at, Fit, Doomed
  <2>. QED BY <1>2, <1>9, <2>1, <2>2, TemplateStep DEF TemplateDelete, finish, draftVars
<1>10. CASE SeedFind(p)
  <2>1. ops[p] \in SeedOp
    BY <1>1, <1>10, OpKinds DEF SeedFind, at
  <2>2. CASE missingDefaults(p) = {}
    BY <1>2, <1>10, <2>2, QuietStep DEF SeedFind, finish, tables, draftVars
  <2>3. CASE missingDefaults(p) # {}
    <3>1. PICK kind \in missingDefaults(p) :
            continue(p, [ops[p] EXCEPT !.step = "save", !.todo = @ \ {kind}, !.saved = kind])
      BY <1>10, <2>3 DEF SeedFind
    <3>2. [ops[p] EXCEPT !.step = "save", !.todo = @ \ {kind}, !.saved = kind].kind = "seed"
      BY <2>1 DEF SeedOp
    <3>3. ops'[p].kind = "seed" /\ \A q \in Operator : q # p => ops'[q] = ops[q]
      BY <1>1, <3>1, <3>2, OwnOp
    <3>4. Fit(p)'
      BY <3>3 DEF Fit, Declared, ReliedOn, Doomed, unsaved, saved
    <3>. QED BY <1>10, <3>3, <3>4, QuietStep DEF SeedFind, tables, draftVars
  <2>. QED BY <2>2, <2>3
<1>11. CASE SeedSave(p)
  <2>1. ops[p] \in SeedOp /\ ops[p].saved \in Kind
    BY <1>1, <1>11, OpKinds DEF SeedSave, at, SeedOp
  <2>2. [ops[p] EXCEPT !.step = "find", !.saved = None].kind = "seed"
    BY <2>1 DEF SeedOp
  <2>3. ops'[p].kind = "seed" /\ \A q \in Operator : q # p => ops'[q] = ops[q]
    BY <1>1, <1>11, <2>2, OwnOp DEF SeedSave
  <2>4. Fit(p)'
    BY <2>3 DEF Fit, Declared, ReliedOn, Doomed, unsaved, saved
  <2>5. DefaultTemplate[ops[p].saved] \in Template
    BY <2>1, CatalogueAssumption
  <2>. QED BY <1>11, <2>1, <2>3, <2>4, <2>5, TemplateStep DEF SeedSave, draftVars
<1>. QED BY <1>3, <1>4, <1>5, <1>6, <1>7, <1>8, <1>9, <1>10, <1>11, BootFits DEF CatalogueStep

(* A version read as a draft is written, or deleted unasked about: whoever else
   has read it is told by raced. *)
LEMMA SaveStep ==
  ASSUME BackOfficeInv, BackOfficeTypeOK', NEW p \in Operator, Fit(p)',
         \A q \in Operator : q # p => ops'[q] = ops[q],
         NEW v \in Version, \A w \in Version : w # v => versions'[w] = versions[w],
         versions'[v] # Unused, versions'[v] = Deleted => rowsOf(v) = {},
         versions[v].status = "DRAFT" \/ v \in raced,
         raced' = raced \cup ({v} \cap reliedOn(p)),
         UNCHANGED <<entries, documents, roles, templates, asked>>
  PROVE  BackOfficeInv'
<1>1. ASSUME NEW q \in Operator, q # p
      PROVE  Fit(q)'
  <2>1. Fit(q) /\ ops'[q] = ops[q] /\ OpTypeOK(ops[q])
    BY <1>1 DEF BackOfficeInv, Fit, BackOfficeTypeOK
  <2>2. Declared(ops[q])' /\ Doomed(ops[q])'
    BY <2>1 DEF Fit, Declared, Doomed, unsaved, known, referencingDocuments, referencingCustomers, assignedTypes
  <2>3. unsaved(ops[q]) \/ saved(ops[q]) => ops[q].version \in Version
    BY <2>1, OpKinds DEF unsaved, saved, DraftOp
  <2>4. unsaved(ops[q]) /\ ops[q].version = v => v \in raced'
    BY <1>1, <2>1 DEF Fit, Declared, reliedOn
  <2>5. saved(ops[q]) /\ ops[q].version = v => v \in raced'
    BY <2>1 DEF Fit, ReliedOn
  <2>6. ReliedOn(ops[q])'
    BY <2>1, <2>3, <2>4, <2>5 DEF Fit, ReliedOn, unsaved, saved, known
  <2>. QED BY <2>2, <2>6 DEF Fit
<1>2. ReferencesStand'
  BY DEF BackOfficeInv, ReferencesStand, known, found
<1>3. AskedTextStands'
  <2>1. ASSUME NEW r \in asked, r.version # v
        PROVE  (present(r.version) /\ (versions[r.version].text = r.text \/ r.version \in raced)
                /\ (versions[r.version].status # "DRAFT" \/ r.version \in raced))'
    BY <2>1 DEF BackOfficeInv, BackOfficeTypeOK, DraftTypeOK, AskedTextStands, present
  <2>2. ASSUME NEW r \in asked, r.version = v
        PROVE  v \in raced /\ versions'[v] # Deleted
    BY <2>2 DEF BackOfficeInv, AskedTextStands, rowsOf
  <2>. QED BY <2>1, <2>2 DEF AskedTextStands, present
<1>. QED BY <1>1, <1>2, <1>3 DEF BackOfficeInv, Fit

LEMMA DraftBeginFits ==
  ASSUME BackOfficeInv, BackOfficeTypeOK', NEW p \in Operator, DraftBegin(p)
  PROVE  BackOfficeInv'
<1>1. ASSUME NEW u, begin(p, u), UNCHANGED draftVars, u.kind \in {"patch", "delete", "publish"},
             u.kind = "publish" => u.step = "save",
             u.version \in u.refs, versions[u.version].status = "DRAFT"
      PROVE  BackOfficeInv'
  <2>1. ops'[p] = u /\ \A q \in Operator : q # p => ops'[q] = ops[q]
    BY <1>1, OwnOp DEF begin, BackOfficeInv
  <2>2. Fit(p)'
    BY <1>1, <2>1 DEF Fit, Declared, ReliedOn, Doomed, unsaved, saved, draftVars, Unused
  <2>. QED BY <1>1, <2>1, <2>2, QuietStep DEF begin, tables, draftVars
<1>2. ASSUME NEW v \in Version, NEW text \in Text, PatchBegin(p, v, text)
      PROVE  BackOfficeInv'
  BY <1>1, <1>2 DEF PatchBegin, assertDraftMutable
<1>3. ASSUME NEW v \in Version, DeleteBegin(p, v) \/ PublishRead(p, v)
      PROVE  BackOfficeInv'
  BY <1>1, <1>3 DEF DeleteBegin, PublishRead, read, assertDraftMutable
<1>4. ASSUME NEW v \in Version, NEW text \in Text, DraftCreate(p, v, text)
      PROVE  BackOfficeInv'
  <2>1. /\ versions[v] = Unused /\ UNCHANGED <<tables, ops, raced, asked>>
        /\ versions' = [versions EXCEPT ![v] = [status |-> "DRAFT", text |-> text]]
    BY <1>4 DEF DraftCreate
  <2>2. \A w \in Version : w # v => versions'[w] = versions[w]
    BY <2>1 DEF BackOfficeInv, BackOfficeTypeOK, DraftTypeOK
  <2>3. ASSUME NEW q \in Operator
        PROVE  Fit(q)'
    <3>1. Fit(q) /\ OpTypeOK(ops[q])
      BY DEF BackOfficeInv, Fit, BackOfficeTypeOK
    <3>2. unsaved(ops[q]) \/ saved(ops[q]) => ops[q].version \in Version \ {v}
      BY <2>1, <3>1, OpKinds DEF Fit, ReliedOn, unsaved, saved, DraftOp
    <3>3. Declared(ops[q])' /\ Doomed(ops[q])'
      BY <2>1, <3>1 DEF Fit, Declared, Doomed, unsaved, known, tables,
         referencingDocuments, referencingCustomers, assignedTypes
    <3>4. ReliedOn(ops[q])'
      BY <2>1, <2>2, <3>1, <3>2 DEF Fit, ReliedOn, unsaved, saved, known, tables
    <3>. QED BY <3>3, <3>4 DEF Fit
  <2>4. ReferencesStand'
    BY <2>1 DEF BackOfficeInv, ReferencesStand, known, found, tables
  <2>5. \A r \in asked : r.version \in Version \ {v}
    BY <2>1 DEF BackOfficeInv, BackOfficeTypeOK, DraftTypeOK, AskedTextStands, present
  <2>6. AskedTextStands'
    BY <2>1, <2>2, <2>5 DEF BackOfficeInv, AskedTextStands, present
  <2>. QED BY <2>3, <2>4, <2>6 DEF BackOfficeInv, Fit
<1>. QED BY <1>2, <1>3, <1>4 DEF DraftBegin

LEMMA DraftStepFits ==
  ASSUME BackOfficeInv, BackOfficeTypeOK', NEW p \in Operator, DraftStep(p)
  PROVE  BackOfficeInv'
<1>1. BackOfficeTypeOK /\ Fit(p) /\ UNCHANGED tables
  BY DEF BackOfficeInv, Fit, DraftStep
<1>2. ops[p] \in DraftOp
  BY <1>1, OpKinds DEF DraftStep, PatchSave, DeleteFind, DeleteVersion, PublishSave, PublishRetire,
     PublishTargets, PublishRollout, PublishReturn, at, BackOfficeTypeOK
<1>3. ops[p].version \in Version /\ ops[p].row \in VersionRow
  BY <1>2 DEF DraftOp
<1>4. ASSUME continue(p, NoOp)
      PROVE  Fit(p)' /\ \A q \in Operator : q # p => ops'[q] = ops[q]
  BY <1>1, <1>4, OwnOp, Idle
<1>5. CASE PatchSave(p)
  <2>1. versions[ops[p].version].status = "DRAFT" \/ ops[p].version \in raced
    BY <1>1, <1>5 DEF PatchSave, at, Fit, ReliedOn, unsaved
  <2>2. /\ versions'[ops[p].version] = ops[p].row
        /\ \A w \in Version : w # ops[p].version => versions'[w] = versions[w]
        /\ raced' = raced \cup ({ops[p].version} \cap reliedOn(p))
        /\ UNCHANGED <<entries, documents, roles, templates, asked>>
    BY <1>1, <1>3, <1>5 DEF PatchSave, saveVersion, deletes, tables, BackOfficeTypeOK, DraftTypeOK
  <2>3. Fit(p)' /\ \A q \in Operator : q # p => ops'[q] = ops[q]
    BY <1>4, <1>5 DEF PatchSave, finish
  <2>4. versions'[ops[p].version] \notin {Unused, Deleted}
    BY <1>3, <2>2 DEF VersionRow, Unused, Deleted
  <2>. QED BY <1>3, <2>1, <2>2, <2>3, <2>4, SaveStep
<1>6. CASE DeleteFind(p)
  <2> DEFINE u == [ops[p] EXCEPT !.step = "delete"]
  <2>1. CASE assertDraftMutable(ops[p].version)
    <3>1. u.kind = ops[p].kind /\ u.step = "delete" /\ u.version = ops[p].version /\ u.refs = ops[p].refs
      BY <1>2 DEF DraftOp
    <3>2. ops'[p] = u /\ \A q \in Operator : q # p => ops'[q] = ops[q]
      BY <1>1, <1>6, <2>1, OwnOp DEF DeleteFind
    <3>. HIDE DEF u
    <3>3. Fit(p)'
      BY <1>1, <1>6, <3>1, <3>2
      DEF DeleteFind, at, Fit, Declared, ReliedOn, Doomed, unsaved, saved, draftVars
    <3>. QED BY <1>1, <1>6, <3>2, <3>3, QuietStep DEF DeleteFind, tables, draftVars
  <2>2. CASE ~assertDraftMutable(ops[p].version)
    BY <1>1, <1>4, <1>6, <2>2, QuietStep DEF DeleteFind, finish, tables, draftVars
  <2>. QED BY <2>1, <2>2
<1>7. CASE DeleteVersion(p)
  <2>1. versions[ops[p].version].status = "DRAFT" \/ ops[p].version \in raced
    BY <1>1, <1>7 DEF DeleteVersion, at, Fit, ReliedOn, unsaved
  <2>2. CASE rowsOf(ops[p].version) = {} /\ present(ops[p].version)
    <3>1. /\ versions'[ops[p].version] = Deleted
          /\ \A w \in Version : w # ops[p].version => versions'[w] = versions[w]
          /\ raced' = raced \cup ({ops[p].version} \cap reliedOn(p))
          /\ UNCHANGED <<entries, documents, roles, templates, asked>>
      BY <1>1, <1>3, <1>7, <2>2 DEF DeleteVersion, saveVersion, deletes, tables, BackOfficeTypeOK, DraftTypeOK
    <3>2. Fit(p)' /\ \A q \in Operator : q # p => ops'[q] = ops[q]
      BY <1>4, <1>7 DEF DeleteVersion, finish
    <3>3. versions'[ops[p].version] # Unused
      BY <3>1 DEF Unused, Deleted
    <3>. QED BY <1>3, <2>1, <2>2, <3>1, <3>2, <3>3, SaveStep
  <2>3. CASE ~(rowsOf(ops[p].version) = {} /\ present(ops[p].version))
    BY <1>1, <1>4, <1>7, <2>3, QuietStep DEF DeleteVersion, finish, tables
  <2>. QED BY <2>2, <2>3
<1>8. CASE PublishSave(p)
  <2> DEFINE row == [ops[p].row EXCEPT !.status = "PUBLISHED"]
             u == [ops[p] EXCEPT !.step = IF ops[p].row.text \in Scheduled THEN "targets" ELSE "retire"]
             v == ops[p].version
  <2>1. row \in VersionRow /\ row.status = "PUBLISHED" /\ row # Unused
    BY <1>3 DEF VersionRow, Unused
  <2>2. versions[v].status = "DRAFT" \/ v \in raced
    BY <1>1, <1>8 DEF PublishSave, at, Fit, ReliedOn, unsaved
  <2>3. u.kind = "publish" /\ u.step \in {"targets", "retire"} /\ u.version = v
    BY <1>2, <1>8 DEF DraftOp, PublishSave, at
  <2>4. ops'[p] = u /\ \A q \in Operator : q # p => ops'[q] = ops[q]
    BY <1>1, <1>8, OwnOp DEF PublishSave
  <2>5. /\ versions' = [versions EXCEPT ![v] = row] /\ UNCHANGED asked
        /\ raced' = raced \cup ({v} \cap reliedOn(p))
    BY <1>8 DEF PublishSave, saveVersion, deletes
  <2>. HIDE DEF row, u
  <2>6. versions'[v] = row /\ \A w \in Version : w # v => versions'[w] = versions[w]
    BY <1>1, <1>3, <2>5 DEF BackOfficeTypeOK, DraftTypeOK
  <2>7. Fit(p)'
    BY <2>1, <2>3, <2>4, <2>6 DEF Fit, Declared, ReliedOn, Doomed, unsaved, saved
  <2>8. UNCHANGED <<entries, documents, roles, templates, asked>>
    BY <1>1, <2>5 DEF tables
  <2>. HIDE DEF v
  <2>9. v \in Version
    BY <1>3 DEF v
  <2>10. versions'[v] \notin {Unused, Deleted}
    BY <2>1, <2>6 DEF VersionRow, Unused, Deleted
  <2>. QED BY <2>2, <2>4, <2>5, <2>6, <2>7, <2>8, <2>9, <2>10, SaveStep
<1>9. CASE PublishRetire(p)
  <2> DEFINE u == [ops[p] EXCEPT !.step = "targets"]
  <2>1. \A w \in Version : versions'[w] # versions[w] =>
          /\ versions[w].status = "PUBLISHED"
          /\ versions'[w] = [versions[w] EXCEPT !.status = "RETIRED"]
    BY <1>9 DEF PublishRetire
  <2>2. ASSUME NEW w \in Version
        PROVE  \/ versions'[w] = versions[w]
               \/ /\ versions[w].status # "DRAFT" /\ versions'[w].status # "DRAFT"
                  /\ versions'[w].text = versions[w].text /\ versions'[w] \notin {Unused, Deleted}
    <3>1. versions[w].status = "PUBLISHED" => versions[w] \in VersionRow
      BY <1>1 DEF BackOfficeTypeOK, DraftTypeOK, Unused, Deleted
    <3>. QED BY <2>1, <3>1 DEF VersionRow, Unused, Deleted
  <2>3. u.kind = "publish" /\ u.step = "targets" /\ u.version = ops[p].version
    BY <1>2, <1>9 DEF DraftOp, PublishRetire, at
  <2>4. ops'[p] = u /\ \A q \in Operator : q # p => ops'[q] = ops[q]
    BY <1>1, <1>9, OwnOp DEF PublishRetire
  <2>5. UNCHANGED <<raced, asked>>
    BY <1>9 DEF PublishRetire
  <2>. HIDE DEF u
  <2>6. saved(ops[p])
    BY <1>9 DEF PublishRetire, at, saved
  <2>7. Fit(p)'
    BY <1>1, <1>3, <2>2, <2>3, <2>4, <2>5, <2>6
    DEF Fit, Declared, ReliedOn, Doomed, unsaved, saved
  <2>8. ASSUME NEW q \in Operator, q # p
        PROVE  Fit(q)'
    <3>1. Fit(q) /\ ops'[q] = ops[q] /\ OpTypeOK(ops[q])
      BY <2>4, <2>8 DEF BackOfficeInv, Fit, BackOfficeTypeOK
    <3>2. unsaved(ops[q]) \/ saved(ops[q]) => ops[q].version \in Version
      BY <3>1, OpKinds DEF unsaved, saved, DraftOp
    <3>3. Declared(ops[q])' /\ Doomed(ops[q])'
      BY <1>1, <2>5, <3>1 DEF Fit, Declared, Doomed, unsaved, known, tables,
         referencingDocuments, referencingCustomers, assignedTypes
    <3>4. ReliedOn(ops[q])'
      BY <1>1, <2>2, <2>5, <3>1, <3>2 DEF Fit, ReliedOn, unsaved, saved, known, tables
    <3>. QED BY <3>3, <3>4 DEF Fit
  <2>9. ReferencesStand'
    BY <1>1, <2>5 DEF BackOfficeInv, ReferencesStand, known, found, tables
  <2>10. AskedTextStands'
    BY <1>1, <2>2, <2>5 DEF BackOfficeInv, AskedTextStands, present, BackOfficeTypeOK, DraftTypeOK
  <2>. QED BY <2>7, <2>8, <2>9, <2>10 DEF BackOfficeInv, Fit
<1>10. ASSUME NEW u, continue(p, u), u.kind = "publish", u.step # "save", u.version = ops[p].version,
              UNCHANGED <<raced, versions>>, saved(ops[p])
       PROVE  Fit(p)' /\ \A q \in Operator : q # p => ops'[q] = ops[q]
  <2>1. ops'[p] = u /\ \A q \in Operator : q # p => ops'[q] = ops[q]
    BY <1>1, <1>10, OwnOp
  <2>. QED BY <1>1, <1>10, <2>1 DEF Fit, Declared, ReliedOn, Doomed, unsaved, saved
<1>11. CASE PublishTargets(p)
  <2> DEFINE u == [ops[p] EXCEPT !.step = "rollout", !.refs = {},
                     !.targets = {c \in Customer : DocumentOf[ops[p].version][2] \in roles[c]}]
  <2>1. u.kind = "publish" /\ u.step = "rollout" /\ u.version = ops[p].version /\ saved(ops[p])
    BY <1>2, <1>11 DEF DraftOp, PublishTargets, at, saved
  <2>2. continue(p, u) /\ UNCHANGED <<raced, draftVars>>
    BY <1>11 DEF PublishTargets
  <2>. HIDE DEF u
  <2>3. Fit(p)' /\ \A q \in Operator : q # p => ops'[q] = ops[q]
    BY <1>10, <2>1, <2>2 DEF draftVars
  <2>. QED BY <1>1, <2>2, <2>3, QuietStep DEF tables, draftVars
<1>12. CASE PublishRollout(p)
  <2> DEFINE v == ops[p].version
  <2>1. PICK c \in ops[p].targets :
          IF ~present(v) \/ \E r \in rowsOf(v) : r.customer = c
          THEN finish(p) /\ UNCHANGED asked
          ELSE /\ asked' = asked \cup {[customer |-> c, version |-> v, text |-> versions[v].text]}
               /\ continue(p, [ops[p] EXCEPT !.targets = @ \ {c}])
    BY <1>12 DEF PublishRollout
  <2>2. UNCHANGED <<raced, versions>> /\ saved(ops[p])
    BY <1>12 DEF PublishRollout, at, saved
  <2>3. CASE finish(p) /\ UNCHANGED asked
    BY <1>1, <1>4, <2>2, <2>3, QuietStep DEF finish, tables
  <2>4. CASE /\ present(v)
             /\ asked' = asked \cup {[customer |-> c, version |-> v, text |-> versions[v].text]}
             /\ continue(p, [ops[p] EXCEPT !.targets = @ \ {c}])
    <3> DEFINE u == [ops[p] EXCEPT !.targets = @ \ {c}]
    <3>1. u.kind = "publish" /\ u.step # "save" /\ u.version = v
      BY <1>2, <2>2 DEF DraftOp, saved
    <3>2. continue(p, u)
      BY <2>4
    <3>. HIDE DEF u
    <3>3. Fit(p)' /\ \A q \in Operator : q # p => ops'[q] = ops[q]
      BY <1>10, <2>2, <3>1, <3>2
    <3>4. \A q \in Operator : Fit(q)'
      BY <1>1, <2>2, <3>3, Untouched DEF BackOfficeInv, Fit, tables
    <3>5. ReferencesStand'
      BY <1>1, <2>2 DEF BackOfficeInv, ReferencesStand, known, found, tables
    <3>6. versions[v].status # "DRAFT" \/ v \in raced
      BY <1>1, <2>2 DEF Fit, ReliedOn
    <3>7. AskedTextStands'
      BY <2>2, <2>4, <3>6 DEF BackOfficeInv, AskedTextStands, present
    <3>. QED BY <3>4, <3>5, <3>7 DEF BackOfficeInv, Fit
  <2>. QED BY <2>1, <2>3, <2>4
<1>13. CASE PublishReturn(p)
  BY <1>1, <1>4, <1>13, QuietStep DEF PublishReturn, finish, tables, draftVars
<1>. QED BY <1>5, <1>6, <1>7, <1>8, <1>9, <1>11, <1>12, <1>13 DEF DraftStep

LEMMA InvStep ==
  ASSUME BackOfficeInv, [BackOfficeNext]_backOfficeVars
  PROVE  BackOfficeInv'
<1>1. BackOfficeTypeOK'
  BY TypeStep DEF BackOfficeInv
<1>2. CASE UNCHANGED backOfficeVars
  <2>1. UNCHANGED <<entries, documents, roles, templates, versions, asked, ops, raced>>
    BY <1>2 DEF backOfficeVars, catalogueVars, draftVars, tables
  <2>2. \A q \in Operator : Fit(q)'
    BY <2>1, Untouched DEF BackOfficeInv, Fit
  <2>3. ReferencesStand' /\ AskedTextStands'
    BY <2>1 DEF BackOfficeInv, ReferencesStand, AskedTextStands, known, found, present
  <2>. QED BY <1>1, <2>2, <2>3 DEF BackOfficeInv, Fit
<1>3. ASSUME NEW p \in Operator, OpDies(p), UNCHANGED draftVars
      PROVE  BackOfficeInv'
  <2>1. Fit(p)' /\ \A q \in Operator : q # p => ops'[q] = ops[q]
    BY <1>3, OwnOp, Idle DEF OpDies, finish, BackOfficeInv
  <2>. QED BY <1>1, <1>3, <2>1, QuietStep DEF OpDies, tables, draftVars
<1>. QED BY <1>1, <1>2, <1>3, CatalogueBeginFits, CatalogueStepFits, DraftBeginFits, DraftStepFits
     DEF BackOfficeNext

-----------------------------------------------------------------------------
(* Whatever two boots, admins and integrations do at once, every row keeps its
   shape and what one of them has checked still holds when it writes, or the
   race is recorded: LegalEntitiesReconciler, DocumentService, VersionService,
   PublishService, EmailTemplateAdminService and CustomerService together. *)
THEOREM BackOfficeInvariance == BackOfficeSpec => []BackOfficeInv
<1>1. BackOfficeInit => BackOfficeInv
  BY DEF BackOfficeInit, BackOfficeInv, AskedTextStands, Declared, ReliedOn, Doomed, NoOp, unsaved, saved
<1>2. BackOfficeInv /\ [BackOfficeNext]_backOfficeVars => BackOfficeInv'
  BY InvStep
<1>. QED BY <1>1, <1>2, PTL DEF BackOfficeSpec

(* Documents, roles and assigned templates keep naming entries and templates
   that exist although no foreign key says so: every check before a write and
   every count before a deletion holds up, but for deletions that ran into a
   write, and configured template ids nobody checks. *)
THEOREM ReferencesStanding == BackOfficeSpec => []ReferencesStand
<1>1. BackOfficeInv => ReferencesStand
  BY DEF BackOfficeInv
<1>. QED BY <1>1, BackOfficeInvariance, PTL

(* Nobody is ever asked about a version that is gone, and what a version says
   is what customers have been asked about, unless an edit, a deletion or a
   second publish had read the draft before it was published. *)
THEOREM AskedStanding == BackOfficeSpec => []AskedTextStands
<1>1. BackOfficeInv => AskedTextStands
  BY DEF BackOfficeInv
<1>. QED BY <1>1, BackOfficeInvariance, PTL
=============================================================================
