----------------------------- MODULE Onboarding -----------------------------
(***************************************************************************)
(* CustomerAdminService: customers are created with the acceptances they    *)
(* bring along, gain and lose roles, are deactivated and reactivated by the *)
(* integration, and are asked for the current and upcoming versions of each *)
(* role they gain, while PublishService.publish asks everybody holding the  *)
(* role of its version.  There is one document per role, and no             *)
(* transaction: an operation may be overtaken at every await.               *)
(***************************************************************************)
EXTENDS Naturals, FiniteSets

CONSTANTS
  Customer,    \* ids of customers, of those created later too
  Role,        \* the audiences, each with one document
  Version, AudienceOf, ValidFrom,   \* the versions of the documents
  Today,       \* Clock.now()
  Ref,         \* external references
  Reachable,   \* the customers with a contact e-mail
  Operator,    \* requests of admins and integrations in flight at once
  MaxOps,      \* how many of them are started: bounds the runs
  MaxFaults,   \* how many operations may die or mails fail: bounds Fault
  None

ASSUME OnboardingAssumption ==
  /\ AudienceOf \in [Version -> Role] /\ ValidFrom \in [Version -> Nat]
  /\ Today \in Nat /\ None \notin Ref

VARIABLES
  customers,    \* customers[c]: [ref, roles, deleted], or NoCustomer
  versions,     \* versions[v]: [status, publishedAt]
  rows,         \* rows[c][v]: state of the CustomerVersionState, or "none"
  due,          \* rows whose mail is left to the rollout job (notificationDueAt)
  mailed,       \* rows the onboarding itself has sent the mail for
  acceptances,  \* IMPORT acceptances: <<customer, version>>
  ops,          \* ops[p]: what request p has read and the await it is in
  publication,  \* the publish in flight
  started, faults,
  excused,      \* history: <<c, v>> left unasked by an operation that failed, or
                \* by a role that came with no rollout
  raced,        \* history: refs written to by an operation overtaken by another
  halfDone      \* history: customers whose creation was refused part-way

tables == <<customers, versions, rows, due, mailed, acceptances>>
histories == <<excused, raced, halfDone>>
onboardingVars == <<tables, ops, publication, started, faults, histories>>

NoCustomer == [ref |-> None]
CustomerRow == [ref : Ref, roles : SUBSET Role, deleted : BOOLEAN]
Status == {"DRAFT", "PUBLISHED", "RETIRED"}

NoOp == [step |-> "idle"]
Op ==
  [step : {"save", "import", "append", "rollout", "upcoming", "check", "row", "notify", "delete"},
   kind : {"create", "update", "reactivate", "deactivate"},
   customer : Customer, existing : CustomerRow \cup {NoCustomer}, saved : CustomerRow,
   imports : SUBSET Version,      \* validated, still to be imported
   documents : SUBSET Role,       \* still to be rolled out
   document : Role \cup {None},   \* the one at hand
   rolloutVersions : SUBSET Version, \* of one document, still to be checked
   version : Version \cup {None}, \* the one being imported or rolled out
   rolledOut : SUBSET Version,    \* rows created, still to be mailed
   overtaken : BOOLEAN]           \* history: a customer was written meanwhile

NoPublication == [step |-> "idle"]
Publication ==
  [step : {"save", "retire", "targets", "rollout"}, version : Version, targets : SUBSET Customer]

known(c) == customers[c] # NoCustomer
versionsOf(r) == {v \in Version : AudienceOf[v] = r}
Published(v) == versions[v].status = "PUBLISHED"

(* findCurrentPublished and findUpcomingPublishedList of the role's document. *)
newest(vs) ==
  {v \in vs : \A w \in vs : \/ ValidFrom[w] < ValidFrom[v]
                            \/ /\ ValidFrom[w] = ValidFrom[v]
                               /\ versions[w].publishedAt <= versions[v].publishedAt}
current(r) == newest({v \in versionsOf(r) : Published(v) /\ ValidFrom[v] <= Today})
upcoming(r) == {v \in versionsOf(r) : Published(v) /\ ValidFrom[v] > Today}

busy(p) == ops[p] # NoOp
at(p, step) == ops[p].step = step
continue(p, update) == ops' = [ops EXCEPT ![p] = update]
Fault == faults < MaxFaults /\ faults' = faults + 1

begin(p, op) ==
  /\ ~busy(p) /\ started < MaxOps
  /\ started' = started + 1
  /\ continue(p, op)
  /\ UNCHANGED <<tables, publication, faults, histories>>

operation(kind, step, c, existing, saved) ==
  [kind |-> kind, step |-> step, customer |-> c, existing |-> existing, saved |-> saved,
   imports |-> {}, documents |-> {}, document |-> None, rolloutVersions |-> {}, version |-> None,
   rolledOut |-> {}, overtaken |-> FALSE]

-----------------------------------------------------------------------------
(* The checks before the first write *)

findAllByExternalRef(ref) == {c \in Customer : customers[c].ref = ref}
overlapping(ref, roles) ==
  {c \in findAllByExternalRef(ref) : customers[c].roles \cap roles # {}}

(* A slip: a soft-deleted customer does not count. *)
uniqueAmongActive(ref, roles, excluded) ==
  \A c \in overlapping(ref, roles) \ excluded : customers[c].deleted

assertExternalRefUniqueForRoles(ref, roles, excluded) == overlapping(ref, roles) \subseteq excluded

(* validateImports: any version that has been published, of one of the roles. *)
validImports(roles) ==
  {v \in Version : versions[v].status \in {"PUBLISHED", "RETIRED"} /\ AudienceOf[v] \in roles}

(* resolveEffectiveVersionAt: the version in force at a past date, one retired
   since included. *)
resolveEffectiveVersionAt(r, date) ==
  newest({v \in validImports({r}) : versions[v].publishedAt <= date /\ ValidFrom[v] <= date})

(* resolveSignedDocuments: one for some of the roles at least. *)
resolveSignedDocuments(roles, date) ==
  UNION {resolveEffectiveVersionAt(r, date) : r \in roles}

(* create; an upsert that matches nobody comes here too. *)
CreateBegin(p, ref, roles, accepted, signedAt) ==
  LET signed == IF signedAt = None THEN {} ELSE resolveSignedDocuments(roles, signedAt)
  IN /\ assertExternalRefUniqueForRoles(ref, roles, {})
     /\ accepted \subseteq validImports(roles)
     /\ signedAt # None => signed # {}
     /\ \E c \in Customer :
          /\ ~known(c) /\ \A q \in Operator : busy(q) => ops[q].customer # c
          /\ begin(p, [operation("create", "save", c, NoCustomer,
                         [ref |-> ref, roles |-> roles, deleted |-> FALSE])
                       EXCEPT !.imports = accepted \cup signed])

(* update of names (roles = None) or of roles; an upsert of a customer who is
   active and has changed comes here too. *)
UpdateBegin(p, c, roles) ==
  /\ known(c) /\ ~customers[c].deleted
  /\ roles # None => assertExternalRefUniqueForRoles(customers[c].ref, roles, {c})
  /\ begin(p, operation("update", "save", c, customers[c],
                IF roles = None THEN customers[c] ELSE [customers[c] EXCEPT !.roles = roles]))

(* upsertByExternalRef of a customer who has been deactivated. *)
ReactivateBegin(p, ref, roles) ==
  \E c \in overlapping(ref, roles) :
    /\ customers[c].deleted
    /\ assertExternalRefUniqueForRoles(ref, roles, {c})
    /\ begin(p, operation("reactivate", "save", c, customers[c],
                  [ref |-> ref, roles |-> roles, deleted |-> FALSE]))

(* deactivateByExternalRef: the active one holding the audience. *)
DeactivateBegin(p, ref, audience) ==
  \E c \in findAllByExternalRef(ref) :
    /\ ~customers[c].deleted /\ audience \in customers[c].roles
    /\ begin(p, operation("deactivate", "delete", c, customers[c], customers[c]))

-----------------------------------------------------------------------------
(* The writes, and the rollout *)

publishedOf(roles) == {v \in Version : Published(v) /\ AudienceOf[v] \in roles}
rolesOf(c) == IF known(c) THEN customers[c].roles ELSE {}

(* A slip: roles gained by an update are left to the next publish. *)
rolesOfNew(op) == IF op.kind = "create" THEN op.saved.roles ELSE {}

(* The roles an operation rolls out once it has saved its customer: what it
   adds to its own reading, and nothing in a reactivation. *)
addedRoles(op) ==
  IF op.kind = "reactivate" THEN {}
  ELSE op.saved.roles \ (IF op.kind = "create" THEN {} ELSE op.existing.roles)

(* History: the roles a save brings that no rollout is meant for. *)
unannouncedRoles(op) ==
  CASE op.kind = "reactivate" -> op.saved.roles \ rolesOf(op.customer)
    [] op.kind = "update" -> (op.saved.roles \cap op.existing.roles) \ rolesOf(op.customer)
    [] OTHER -> {}

(* customers.save: every column, as read and changed. *)
writeCustomer(p, row, next) ==
  LET op == ops[p]
  IN /\ customers' = [customers EXCEPT ![op.customer] = row]
     /\ ops' = [q \in Operator |->
          IF q = p THEN next
          ELSE IF busy(q) /\ ops[q].saved.ref = row.ref THEN [ops[q] EXCEPT !.overtaken = TRUE]
          ELSE ops[q]]
     /\ excused' = excused \cup ({op.customer} \X publishedOf(unannouncedRoles(op)))
     /\ raced' = IF op.overtaken THEN raced \cup {row.ref} ELSE raced
     /\ UNCHANGED halfDone

CustomerSave(p) ==
  /\ at(p, "save")
  /\ LET op == ops[p]
         next == [op EXCEPT !.documents = addedRoles(op),
                            !.step = IF op.imports = {} THEN "rollout" ELSE "import"]
     IN writeCustomer(p, op.saved, IF addedRoles(op) = {} THEN NoOp ELSE next)
  /\ UNCHANGED <<versions, rows, due, mailed, acceptances, publication, started, faults>>

(* softDelete sets deletedAt alone. *)
SoftDelete(p) ==
  /\ at(p, "delete")
  /\ writeCustomer(p, [customers[ops[p].customer] EXCEPT !.deleted = TRUE], NoOp)
  /\ UNCHANGED <<versions, rows, due, mailed, acceptances, publication, started, faults>>

(* What an operation that stops here leaves unasked. *)
leaveUnasked(p) ==
  /\ continue(p, NoOp)
  /\ excused' = excused \cup ({ops[p].customer} \X publishedOf(ops[p].documents))

(* states.save under a new id: the unique index refuses a second row, and the
   refusal ends the operation. *)
refused(p, v) ==
  /\ rows[ops[p].customer][v] # "none"
  /\ leaveUnasked(p)
  /\ halfDone' = IF ops[p].kind = "create" THEN halfDone \cup {ops[p].customer} ELSE halfDone
  /\ UNCHANGED <<tables, publication, started, faults, raced>>

(* A slip: the row is created as one whose customer has been notified. *)
insertNotified(c, v, state) ==
  /\ rows[c][v] = "none"
  /\ rows' = [rows EXCEPT ![c][v] = IF state = "ACCEPTED" THEN state ELSE "NOTIFIED"]

insertRow(c, v, state) ==
  /\ rows[c][v] = "none"
  /\ rows' = [rows EXCEPT ![c][v] = state]

ImportRow(p, v) ==
  /\ at(p, "import")
  /\ v \in ops[p].imports
  /\ insertRow(ops[p].customer, v, "ACCEPTED")
  /\ continue(p, [ops[p] EXCEPT !.step = "append", !.version = v])
  /\ UNCHANGED <<customers, versions, due, mailed, acceptances, publication, started, faults,
                 histories>>

ImportRefused(p, v) == at(p, "import") /\ v \in ops[p].imports /\ refused(p, v)

ImportAppend(p) ==
  /\ at(p, "append")
  /\ LET op == ops[p]
         left == op.imports \ {op.version}
     IN /\ acceptances' = acceptances \cup {<<op.customer, op.version>>}
        /\ continue(p, [op EXCEPT !.imports = left, !.version = None,
                                  !.step = IF left = {} THEN "rollout" ELSE "import"])
  /\ UNCHANGED <<customers, versions, rows, due, mailed, publication, started, faults, histories>>

readOnly == UNCHANGED <<tables, publication, started, faults, histories>>

RolloutDocument(p, r) ==
  /\ at(p, "rollout")
  /\ r \in ops[p].documents
  /\ continue(p, [ops[p] EXCEPT !.step = "upcoming", !.document = r,
                                !.rolloutVersions = current(r)])
  /\ readOnly

RolloutUpcoming(p) ==
  /\ at(p, "upcoming")
  /\ continue(p, [ops[p] EXCEPT !.step = "check",
                                !.rolloutVersions = @ \cup upcoming(ops[p].document)])
  /\ readOnly

RolloutCheck(p, v) ==
  /\ at(p, "check")
  /\ v \in ops[p].rolloutVersions
  /\ continue(p, [ops[p] EXCEPT !.rolloutVersions = @ \ {v},
       !.version = IF rows[ops[p].customer][v] = "none" THEN v ELSE None,
       !.step = IF rows[ops[p].customer][v] = "none" THEN "row" ELSE "check"])
  /\ readOnly

(* A slip: the row is found by its customer and version, and overwritten. *)
RolloutRowAnyway(p) ==
  /\ at(p, "row")
  /\ rows' = [rows EXCEPT ![ops[p].customer][ops[p].version] = "PENDING_NOTIFICATION"]
  /\ continue(p, [ops[p] EXCEPT !.step = "check", !.version = None,
                                !.rolledOut = @ \cup {ops[p].version}])
  /\ UNCHANGED <<customers, versions, due, mailed, acceptances, publication, started, faults,
                 histories>>

RolloutRow(p) ==
  /\ at(p, "row")
  /\ insertRow(ops[p].customer, ops[p].version, "PENDING_NOTIFICATION")
  /\ continue(p, [ops[p] EXCEPT !.step = "check", !.version = None,
                                !.rolledOut = @ \cup {ops[p].version}])
  /\ UNCHANGED <<customers, versions, due, mailed, acceptances, publication, started, faults,
                 histories>>

RolloutRefused(p) == at(p, "row") /\ refused(p, ops[p].version)

RolloutNextDocument(p) ==
  /\ at(p, "check")
  /\ ops[p].rolloutVersions = {}
  /\ continue(p, [ops[p] EXCEPT !.step = "rollout", !.documents = @ \ {ops[p].document},
                                !.document = None])
  /\ readOnly

RolloutEnd(p) ==
  /\ at(p, "rollout")
  /\ ops[p].documents = {}
  /\ continue(p, IF ops[p].customer \in Reachable /\ ops[p].rolledOut # {}
                 THEN [ops[p] EXCEPT !.step = "notify"] ELSE NoOp)
  /\ readOnly

(* notifyRolledOut: one mail per row; a failing one is logged and passed over. *)
notified(p, v) ==
  LET left == ops[p].rolledOut \ {v}
  IN continue(p, IF left = {} THEN NoOp ELSE [ops[p] EXCEPT !.rolledOut = left])

Notify(p, v) ==
  /\ at(p, "notify")
  /\ v \in ops[p].rolledOut
  /\ notified(p, v)
  /\ mailed' = mailed \cup {<<ops[p].customer, v>>}
  /\ UNCHANGED <<customers, versions, rows, due, acceptances, publication, started, faults,
                 histories>>

NotifyFails(p, v) ==
  /\ at(p, "notify")
  /\ v \in ops[p].rolledOut
  /\ notified(p, v)
  /\ Fault
  /\ UNCHANGED <<tables, publication, started, histories>>

OpDies(p) ==
  /\ busy(p)
  /\ Fault
  /\ leaveUnasked(p)
  /\ UNCHANGED <<tables, publication, started, raced, halfDone>>

OpProgress(p) ==
  \/ CustomerSave(p) \/ SoftDelete(p) \/ ImportAppend(p)
  \/ RolloutUpcoming(p) \/ RolloutRow(p) \/ RolloutRefused(p)
  \/ RolloutNextDocument(p) \/ RolloutEnd(p)
  \/ \E r \in Role : RolloutDocument(p, r)
  \/ \E v \in Version : \/ ImportRow(p, v) \/ ImportRefused(p, v) \/ RolloutCheck(p, v)
                        \/ Notify(p, v) \/ NotifyFails(p, v)

OpBegin(p) ==
  \E ref \in Ref :
    \/ \E roles \in SUBSET Role :
         \/ \E accepted \in SUBSET Version, date \in 0..Today \cup {None} :
              CreateBegin(p, ref, roles, accepted, date)
         \/ ReactivateBegin(p, ref, roles)
    \/ \E r \in Role : DeactivateBegin(p, ref, r)

OpStep(p) ==
  \/ OpBegin(p)
  \/ \E c \in Customer, roles \in (SUBSET Role) \cup {None} : UpdateBegin(p, c, roles)
  \/ busy(p) /\ OpProgress(p)
  \/ OpDies(p)

-----------------------------------------------------------------------------
(* PublishService.publish, as far as it meets a customer being onboarded; the
   module Publishing has it statement by statement. *)

duringPublish == UNCHANGED <<customers, mailed, acceptances, ops, started, raced, halfDone>>
to(step) == publication' = [publication EXCEPT !.step = step]

PublishRead(v) ==
  /\ publication = NoPublication
  /\ versions[v].status = "DRAFT"
  /\ publication' = [step |-> "save", version |-> v, targets |-> {}]
  /\ duringPublish /\ UNCHANGED <<versions, rows, due, faults, excused>>

PublishSave ==
  /\ publication.step = "save"
  /\ LET v == publication.version
     IN /\ versions' = [versions EXCEPT ![v] = [status |-> "PUBLISHED", publishedAt |-> Today]]
        /\ to(IF ValidFrom[v] <= Today THEN "retire" ELSE "targets")
  /\ duringPublish /\ UNCHANGED <<rows, due, faults, excused>>

(* Predecessors retired and their open rows superseded, here in one step. *)
PublishRetire ==
  /\ publication.step = "retire"
  /\ LET predecessors == publishedOf({AudienceOf[publication.version]}) \ {publication.version}
     IN /\ versions' = [v \in Version |->
             IF v \in predecessors THEN [versions[v] EXCEPT !.status = "RETIRED"] ELSE versions[v]]
        /\ rows' = [c \in Customer |-> [v \in Version |->
             IF v \in predecessors /\ rows[c][v] = "PENDING_NOTIFICATION"
             THEN "SUPERSEDED" ELSE rows[c][v]]]
  /\ to("targets")
  /\ duringPublish /\ UNCHANGED <<due, faults, excused>>

(* findByRole: the soft-deleted ones too. *)
findByRole(r) == {c \in Customer : r \in rolesOf(c)}

PublishTargets ==
  /\ publication.step = "targets"
  /\ publication' = [publication EXCEPT !.step = "rollout",
                                        !.targets = findByRole(AudienceOf[publication.version])]
  /\ duringPublish /\ UNCHANGED <<versions, rows, due, faults, excused>>

PublishRollout(c) ==
  /\ publication.step = "rollout"
  /\ c \in publication.targets
  /\ insertRow(c, publication.version, "PENDING_NOTIFICATION")
  /\ due' = due \cup {<<c, publication.version>>}
  /\ publication' = [publication EXCEPT !.targets = @ \ {c}]
  /\ duringPublish /\ UNCHANGED <<versions, faults, excused>>

(* Ended part-way, by a row that exists or by a crash. *)
endPublish ==
  /\ publication' = NoPublication
  /\ excused' = excused \cup
       ((IF publication.step = "rollout" THEN publication.targets ELSE Customer)
          \X {publication.version})

PublishRefused(c) ==
  /\ publication.step = "rollout"
  /\ c \in publication.targets
  /\ rows[c][publication.version] # "none"
  /\ endPublish
  /\ duringPublish /\ UNCHANGED <<versions, rows, due, faults>>

PublishReturn ==
  /\ publication.step = "rollout" /\ publication.targets = {}
  /\ publication' = NoPublication
  /\ duringPublish /\ UNCHANGED <<versions, rows, due, faults, excused>>

PublishDies ==
  /\ publication # NoPublication
  /\ Fault
  /\ endPublish
  /\ duringPublish /\ UNCHANGED <<versions, rows, due>>

PublishStep ==
  \/ \E v \in Version : PublishRead(v)
  \/ PublishSave \/ PublishRetire \/ PublishTargets \/ PublishReturn \/ PublishDies
  \/ \E c \in Customer : PublishRollout(c) \/ PublishRefused(c)

-----------------------------------------------------------------------------
OnboardingInit ==
  /\ customers = [c \in Customer |-> NoCustomer]
  /\ versions = [v \in Version |-> [status |-> "DRAFT", publishedAt |-> Today]]
  /\ rows = [c \in Customer |-> [v \in Version |-> "none"]]
  /\ due = {} /\ mailed = {} /\ acceptances = {}
  /\ ops = [p \in Operator |-> NoOp]
  /\ publication = NoPublication
  /\ started = 0 /\ faults = 0
  /\ excused = {} /\ raced = {} /\ halfDone = {}

OnboardingNext == PublishStep \/ \E p \in Operator : OpStep(p)

OnboardingSpec == OnboardingInit /\ [][OnboardingNext]_onboardingVars

-----------------------------------------------------------------------------
(* Every table and every operation in flight has its type. *)
OnboardingTypeOK ==
  /\ customers \in [Customer -> CustomerRow \cup {NoCustomer}]
  /\ versions \in [Version -> [status : Status, publishedAt : 0..Today]]
  /\ rows \in [Customer -> [Version -> {"none", "PENDING_NOTIFICATION", "ACCEPTED", "SUPERSEDED"}]]
  /\ due \cup mailed \cup acceptances \cup excused \subseteq Customer \X Version
  /\ ops \in [Operator -> Op \cup {NoOp}]
  /\ publication \in Publication \cup {NoPublication}

(* Nobody slips through between an onboarding and a publish: who holds the role
   of a version in force or upcoming has a row of it, unless the onboarding or
   the publish that owes it is still at work, or one of them failed, or the
   role came back with a save of an older reading or with a reactivation,
   which rolls nothing out. *)
HolderIsAsked ==
  \A c \in Customer : \A r \in rolesOf(c) : \A v \in current(r) \cup upcoming(r) :
    \/ rows[c][v] # "none"
    \/ publication # NoPublication /\ publication.version = v
    \/ \E p \in Operator : busy(p) /\ ops[p].customer = c /\ r \in ops[p].documents
    \/ <<c, v>> \in excused

(* A customer hears of a version once: by the mail of the onboarding or by that
   of the rollout job, and by neither when they brought the acceptance along. *)
HeardOnce ==
  /\ due \cap mailed = {}
  /\ \A c \in Customer, v \in Version :
       rows[c][v] = "ACCEPTED" => <<c, v>> \notin due \cup mailed

(* No two customers of one audience share an externalRef, deactivated ones
   included, as long as no operation on that ref overtakes another. *)
NoDuplicateInAudience ==
  \A c \in Customer : known(c) =>
    overlapping(customers[c].ref, customers[c].roles) \subseteq {c} \/ customers[c].ref \in raced

-----------------------------------------------------------------------------
(* Why those hold. *)

(* The publish in flight is still to read who holds the role, or to reach c. *)
owedByPublish(c, v) ==
  /\ publication # NoPublication /\ publication.version = v
  /\ publication.step = "rollout" => c \in publication.targets

(* Request p is still to look at v, for a role its customer c has gained. *)
owedBy(p, c, r, v) ==
  /\ busy(p) /\ ops[p].customer = c /\ r \in ops[p].documents
  /\ at(p, "upcoming") /\ ops[p].document = r => v \in ops[p].rolloutVersions \cup upcoming(r)
  /\ at(p, "check") /\ ops[p].document = r => v \in ops[p].rolloutVersions
  /\ at(p, "row") /\ ops[p].document = r => v \in ops[p].rolloutVersions \cup {ops[p].version}

asked(c, r, v) ==
  \/ rows[c][v] # "none"
  \/ owedByPublish(c, v)
  \/ \E p \in Operator : owedBy(p, c, r, v)
  \/ <<c, v>> \in excused

HoldersAreAsked ==
  \A c \in Customer : \A r \in rolesOf(c) : \A v \in current(r) \cup upcoming(r) : asked(c, r, v)

(* What a request has at hand when it comes to the await it is in. *)
OpSound(p) ==
  /\ ops[p].step \in {"save", "delete", "notify"} => ops[p].documents = {}
  /\ ops[p].step \in {"upcoming", "check", "row"} => ops[p].document \in ops[p].documents
  /\ ops[p].step \in {"append", "row"} => ops[p].version \in Version
  /\ at(p, "delete") => known(ops[p].customer)
  /\ at(p, "save") => ops[p].kind # "deactivate"

(* Mail is for rows that wait for an answer or did, and of a row the rollout
   job has been told of no onboarding sends it. *)
told(c, v) == rows[c][v] \in {"PENDING_NOTIFICATION", "SUPERSEDED"}

MailsSound ==
  /\ due \cap mailed = {}
  /\ \A c \in Customer, v \in Version : <<c, v>> \in due \cup mailed => told(c, v)
  /\ \A p \in Operator : busy(p) =>
       \A v \in ops[p].rolledOut :
         told(ops[p].customer, v) /\ <<ops[p].customer, v>> \notin due

(* What was checked before a save still holds at the save, or it is marked. *)
ChecksHold ==
  \A p \in Operator : at(p, "save") /\ ~ops[p].overtaken =>
    \/ overlapping(ops[p].saved.ref, ops[p].saved.roles) \subseteq {ops[p].customer}
    \/ ops[p].saved.ref \in raced

OnboardingInv ==
  /\ OnboardingTypeOK
  /\ \A p \in Operator : busy(p) => OpSound(p)
  /\ HoldersAreAsked
  /\ MailsSound
  /\ NoDuplicateInAudience /\ ChecksHold

-----------------------------------------------------------------------------
(* What comments say and the code does not keep. *)

(* customer-admin.service.ts:408: a soft-deleted customer reappears in the
   active list by a reactivation and by no normal edit. *)
DeletedStaysDeleted ==
  [][\A c \in Customer :
       (known(c) /\ customers[c].deleted /\ ~customers'[c].deleted)
         => \E p \in Operator : busy(p) /\ ops[p].kind = "reactivate" /\ ops[p].customer = c
    ]_onboardingVars

(* customer-admin.service.ts:329: a create that is refused leaves nothing. *)
NoHalfCreated == \A c \in halfDone : ~known(c)
=============================================================================
