# Verification of clickwrap

clickwrap keeps agreement documents (terms, contracts) in versions, rolls a published version
out to the customers holding the document's audience role, collects each customer's consent,
objection or silence, and answers whether a customer may go on. This directory holds TLA+ models
of its code, the TLC configurations that check them, and TLAPS proofs about them. Paths below are
those of the repository (`src/...`); line numbers are in `PROJECT.json`, under `map`.

## 1. The system

State lives in PostgreSQL behind Prisma repositories (`src/persistence/prisma`). Request
handlers and cron jobs are `async` functions of one or more NestJS processes. Each repository call
is one atomic statement and **no transaction spans two of them**
(`docs/PERSISTENCE.md`, "Open items: transactionality"), so two operations interleave at every
`await`, and one that fails leaves what it has written. Three kinds of write guard that differently:

* the conditional ones: `transition` (`WHERE state = expected`), `setNotifiedAtomically`
  (`WHERE notifiedAt IS NULL AND state = 'PENDING_NOTIFICATION'`) and the update of the reminder
  counter;
* the unique indexes and the foreign keys: one row per customer and version, one effective
  acceptance per customer and version, no row without its version. Roles, types, audiences and
  templates are referred to by key or id and have no foreign key;
* nothing: `save` upserts **every** column of a row read earlier.

| Component | State | Operations | Hard part | What makes it correct |
|---|---|---|---|---|
| State machine (`domain/state-machine.ts`, `consent-rules.ts`) | none | recordAccess, accept, object, sweep, supersede, isBlocking | instants, carried-over blocks | deadlines and blocks end where they should |
| Repositories (`persistence/prisma`) | versions, rows (`CustomerVersionState`), acceptances, objections | as below | what each statement is conditional on | one row, one effective acceptance |
| Consent requests (`consent/*.service.ts`, `admin/manual-acceptance.service.ts`) | what a handler has read | accept, object, notify, record | races on one row, crash between transition and append | evidence agrees with the row |
| Idempotency (`idempotency-store.repo.ts`) | keys | get, reserve, put, release | crash with a reservation held | one effect per key |
| Deadline sweep (`sweeper/deadline-sweeper*.ts`) | the due rows read at the start of a run | run | old snapshots, overlapping runs, a failing entry | due rows settle, silence never beats an answer |
| Publishing (`agreements/publish.service.ts`) | siblings, open rows, blocks read so far | publish | no atomicity, stale full-row saves | everybody has a row, one version in force |
| Activation sweep (`sweeper/activation-sweeper.service.ts`) | as publishing | run | failure part-way, stale successor row | the flip completes, blocks carry over |
| Outreach (`rollout-notification`, `reminder`, `plugins/email/core`) | marks, counters, OutboundEmails, NotificationEvents | cron runs, webhook, polling | lost, repeated and early reports | a rollout mail once, a delivery counts, every threshold is reminded of |
| Admin desk (`admin/customer-version-state-admin.service.ts`) | the row read | patch, remind | stale full-row saves | no answer undone by anybody else |
| Compliance gate, pending agreements, dashboard (`compliance/`, `domain/compliance.ts`, `dashboard.service.ts`) | none | evaluate, list, count | the gap before the hourly flip, four readings of one row | whoever is kept out can answer; the readings agree |
| Onboarding (`customers/customer-admin.service.ts`) | customers, rows | create, import, update, upsert, deactivate | racing a publish, externalRef check then write | a customer is asked for each version once, and hears of it once |
| Versions (`agreements/version.service.ts`, `document.service.ts`) | versions, documents | create, patch, delete | an edit that overlaps a publish | what somebody is asked about stays |
| Legal entities, signed documents, templates (`legal-entities/`, `signed-documents/`, `admin/email-template-admin.service.ts`) | audiences, types, uploads, templates | reconcile at boot, upload, create, update, remove, seed | several replicas with different configurations; count, then delete | references stay valid |
| Acceptance links (`accept/`) | links | issue, open, consent | none once issued | as the consent requests |
| Events, audit, plugins, auth, UI, wording | logs, configuration | | | read by no decision modelled |

The components meet in the tables alone: a request, a publish and a sweep know nothing of each
other and communicate through the row of a customer and version. `PROJECT.json` lists every
component with its status and, under `hazards`, the line where each difficulty bites.

## 2. The modules

```
StateMachine                        pure transitions ------ Readings  pure answers
  ConsentStore                      the tables and their statements, clock, faults
    ConsentApi   DeadlineSweep   Publishing      Outreach
         \        /    \          /                  |
          \      /   ActivationSweep             AdminDesk
         Lifecycle --------- Flip                    |
           | |  \              \                     |
           | |   \--- Correspondence ----------------/
           | |         \        Gate (with Readings)
           | Requests   \          \
           |    \        MCCorrespondence   MCFlip
           |     MCRequests
         MCLifecycle -- LifecycleClaims

  Onboarding -- MCOnboarding        Catalogue -- Drafts -- BackOffice -- MCBackOffice

  Lifecycle_proofs            Spec => []IInv, evidence agrees with the row
    Deadlines_proofs          Spec => []LifecycleInv, nobody's deadline bites early
    Ledger_proofs             Lifecycle implements ConsentLedger
    Requests_proofs           Requests implements Lifecycle, and OneEffect
    Flip_proofs               flips keep blocks, gate and readings right
    Correspondence_proofs     mails go out once, accesses have their event
  BackOffice_proofs           what customers are asked about stays
  Onboarding_proofs           everybody is asked, hears once and is there once
```

The consent of a customer to a version:

* **StateMachine** translates `domain/state-machine.ts`. Days are naturals, an undefined date is
  `None`; `NoRow` is what `findByCustomerAndVersion` returns where there is no row. The functions
  that throw appear as the predicate under which they return (`acceptable`, `objectable`).
* **ConsentStore** holds the shared tables: `versions`, `states[c][v]`, `acceptances`,
  `objections`, `now`. Ids are abstracted: the unique index makes customer and version the key of a
  row. `Fault` is an operation that stops part-way, by a crash or a failing statement, at most
  `MaxFaults` times. `orphans` is a history variable: pairs accepted by an operation that died
  before its append.
* **ConsentApi**: `requests[p]` is what handler `p` has read and the `await` it waits in.
  AcceptStart, AcceptRead, AcceptWrite, AcceptanceAppend are `AcceptanceService.process`;
  RecordRead, RecordCreate, RecordWrite, AcceptanceAppend the manual recording; ObjectRead,
  ObjectWrite, ObjectionAppend the objection; NotifyRead, NotifyWrite an access. HandlerDies may
  come at any of them. A request refused before its first write changes nothing and has no action.
* **DeadlineSweep**: `sweeps[s]` are the snapshots run `s` still has to handle. The outcome is
  decided on the snapshot and the write is conditional on the snapshot's state, as in `sweepOne`.
  Several sweepers stand for overlapping runs: the cron job has no guard against them.
* **Publishing**: `publications[a]` is what publish request `a` has read: the predecessors, the
  open rows of the one retired last, the blocks found, the customers still to be rolled out to.
  Predecessors and open rows are taken in any order, as the database returns them.
* **Lifecycle** composes those and states the properties; each component's step leaves the others'
  local state alone.
* **ActivationSweep** is the deferred half of a scheduled publish, `activateOne` and
  `carryBlockOver`, and **Flip** the hourly job that runs it before the deadline sweep.
* **Requests** wraps consents and objections in their Idempotency-Keys. `calls[p]` is what handler
  `p` is doing about its key, `keys` the idempotency table. CallArrives is the first look-up,
  CallReserve, CallPut and CallRelease the statements of `idempotency-store.repo.ts`, CallBegin and
  CallProcess the steps of ConsentApi run under the key, CallPoll one turn of `awaitReplay`, whose 50
  turns are `MaxPolls`. A consent reserves its key; an objection only looks it up and stores its
  answer. ProcessFails and PutFails are caught, so that the reservation is given back; ProcessDies
  and CallDies are not. `effects` and `replies` count what was recorded and confirmed under a key.
  A key is used for one version here; nothing in the code compares a replay with what is asked.
* **OneEffect** is what a key promises: an effect at the most, confirmed only once it is there.
* **ConsentLedger** is the abstract specification of the evidence: a customer accepts a version
  once, by an answer or by silence; silence counts for PASSIVE versions alone and never against an
  objection; nobody objects to what their silence has accepted. `Lifecycle` instantiates it with
  the acceptance and objection tables (`Ledger`, `ImplementsLedger`).

What is sent, shown and corrected about it:

* **Outreach** has the rollout job (`mailers[m]`; one run at a time in a process, so that two
  mailers are two processes), the reminder runs (`reminders[r]`), the webhook calls and the polls of
  pending deliveries (`calls[w]`). `sent` is the provider: the position of a mail is its
  providerRef. It delivers what it will, reports early, late and twice, and calls again after an
  answer that is not 2xx (`postmark-webhook.guard.ts`). `outbound`, `delivered` and `events` are the
  OutboundEmail rows, their `deliveredAt` and the NotificationEvents. A bounce writes the escalation
  log alone and has no action. The switch that turns the mail jobs off is a job that takes no step.
* **AdminDesk**: `desk[a]` is the row an admin's request has read and changed, with the mails a
  manual reminder sends before it saves that row whole.
* **Correspondence** composes both with Lifecycle, and adds the delivery evidence that
  `NotificationService` appends after the write `NotifyWrite` has of it (`displays[p]`).
* **Readings** are the answers computed from the tables: `computeCompliance`, the pending
  agreements, the filter and the chip of the customer list, the counts of the dashboard. **Gate**
  evaluates them in every state of Flip.

Around it:

* **Onboarding** is `CustomerAdminService` with the integration's upsert and deactivate: `ops[p]` is
  what a request has read and checked and where it stands among its imports and rollouts,
  `publication` a publish that runs meanwhile. A row is its state alone here.
* **Catalogue** is what documents, customers and mails refer to: LegalEntitiesReconciler at the boot
  of each replica, with the configuration it boots with, the e-mail templates with their seeder, and
  the operations that write references (documents, roles, signed documents). `refs` and `doomed` of
  an operation are what it has checked and relies on, and what it has found unused and is about to
  delete.
* **Drafts** has the versions as such: created, edited and deleted while drafts, published.
  **BackOffice** composes it with Catalogue: a document's type, audience and versions are theirs.
* Publish appears three times. Publishing has every statement; Onboarding and Drafts take the
  retirement of predecessors in one step, for what it meets there: customers being onboarded,
  drafts being edited.

**MCLifecycle**, **MCFlip**, **MCRequests**, **MCCorrespondence**, **MCOnboarding** and
**MCBackOffice** give the constants small values and the initial states that earlier operations
leave behind to the runs that start after them. **LifecycleClaims**, and the last parts of MCFlip,
Correspondence, Onboarding and MCBackOffice, state what comments, documents and tests say and the
code does not keep.

*History variables* are written and never read by the actions: `orphans` (accepted, evidence lost to
a crash), `unproven` (first display, evidence lost to a crash), `cutShort` (marked delivered by a poll
that died), `remarked` (rollout marker brought back by an admin's save), `excused`, `halfDone`
(customers an operation failed on), `raced` (what two overlapping operations were each about to
write and to rely on). They let a property say when exactly the code keeps its promise: each names
a failure or an overlap the code does not guard against, and outside of it the property is absolute.

Some modules hold definitions introduced as *a slip*: a plausible bug of the definition that
follows (a dropped WHERE, a comparison turned round, a missing record). No specification uses
them. Put in the place of that definition, each makes the property named in `PROJECT.json`
("mutants") fail: that is how each property is known to depend on the code it is about.

## 3. The runs

All runs allow deadlock (`CHECK_DEADLOCK FALSE`): the clock, the faults, the mails, the operations
and the publishes are bounded, and a system in which everybody has answered and no version is left
to publish stops.

| Run | Instance | Question |
|---|---|---|
| lifecycle | 1 customer, 2 versions (ACTIVE then PASSIVE), 1 handler, 1 sweeper, 1 publisher, 2 days, 1 fault; v1 rolled out | the inductive invariant; where windows, deadlines, blocks and statuses may go |
| races | 1 row, PASSIVE; 2 handlers, 2 sweepers, 2 days, 1 fault | single writer, objections against silence, implementation of the ledger |
| flip | 1 customer, both versions published, the second for day 1; 1 handler, 1 job, 1 fault | the flip completes, every block is accounted for and carried over, what is due settles; the readings of every state |
| requests | 1 row, PASSIVE; 2 handlers, a consent key and an objection key, 1 sweeper, 2 polls, 1 fault in the processing and 1 outside of it | one effect per key, reservations, every request answered |
| outreach | 1 ACTIVE row, rolled out; 1 rollout job, 1 reminder run, 1 webhook call, 1 poll, 4 mails of which 1 is reported on, 1 fault | a delivered mail takes effect, every threshold is reminded of |
| desk | 1 PASSIVE row, rolled out; 1 handler, 1 admin request, 1 rollout job, 1 sweeper, 3 mails, 1 fault | mails once, accesses proved, who may reopen an answer |
| onboarding | 2 customers, 2 roles, 3 versions, 1 externalRef; 2 requests, 1 publish, 1 fault | nobody slips through, hears twice or is doubled |
| backoffice | 1 audience, 1 type, 4 templates, 2 customers, 3 versions of 1 document, 3 configurations; 3 operations, 2 at once, 1 fault | references stand, what was asked about stands |
| claim_... | the smallest instance of each | see below |

Why these bounds are enough for what they ask. Every race in the code is about one row: two
actors on it, or an actor and a publish. Rows of different customers meet only in the sets a
publish, a sweep or an activation iterates over, and those treat each member alike; the claim about
the rollout, where one customer's row decides about the next one's, has two customers. Two versions
give one predecessor and one successor; the claim about repeated updates has three. Days 0 to 2
cover before, at and after each of the instants that are compared (`validFrom` 1, hard deadline 0,
1 or 2, period 1). One fault already separates any two consecutive writes; more would only repeat it.
The runs that start from a rolled-out v1 lose no kind of behaviour by it: what can happen to a draft
and during a rollout happens to v2.

In outreach and desk, `MaxMails` counts what the provider takes in all and `Reported` the mails it
reports on: the reports of two mails meet only in the row, which the first report settles. `Admin`
members make one request each, so that a run sees a save of every age against everything else. In
onboarding, `Reachable` has a contact e-mail and the other customer none; two operations and a
publish are every pair of requests there is, and each ref that is contended for is the same one. In
backoffice a third operation is the one that refers again to what one of the two before deleted.
Both initial states meet `BackOfficeInit`; they are a catalogue
nobody refers to, and a document with a version in force and a draft;
its configurations differ in each of the ways `reconcile` tells apart (an entry more, one less, one
changed). `Races.cfg` takes the two handlers as symmetric and `Onboarding.cfg` the two operators;
neither checks liveness.

What the properties say is above each of them. In short:

* evidence and row agree through every race and crash: AcceptedRowHasEvidence, EvidenceSettlesRow,
  OneWriterWins, ObjectionStopsTacit, ImplementsLedger, AccessIsEvidenced, BreakdownSums;
* time is respected: TacitAfterFullWindow, HardDeadlineNeverMoves, BlockedOnlyAfterLapse;
* nothing comes back: SupersededIsFinal, StatusOnlyAdvances, InForceNeverRetired, OnlyDeskReopens,
  AskedTextStands;
* no block gets lost: BlockIsAccountedFor, GateOpensForCause;
* the readings agree: BlockedCanAnswer, ChipMatchesFilter;
* once and to everybody: RolloutMailOnce, HolderIsAsked, HeardOnce, NoDuplicateInAudience;
* no reference dangles: ReferencesStand;
* a retried request is one request: KeepsPromise, ReservationExclusive, RefusedWithoutEffect;
* what is due happens: DueIsSettled, AcceptanceIsRecorded, OlderIsRetired, BlockReachesSuccessor,
  DeliveryTakesEffect, DueReminderIsSent, CallEnds.

StatusOnlyAdvances is checked with one publish at a time and InForceNeverRetired without one: with
two the code can write a stale status back, and with one between the two reads of the activation
sweep the latter fails, as ClaimInForce shows. The former is not proved: it is false as soon as two
publishes overlap.

Blocks end in more ways than the customer's answer, and BlockIsAccountedFor and GateOpensForCause
name each of them. Silence is one (`endsSilently`): a block carried to a PASSIVE version is lifted
by the deadline sweep once the customer has opened that version, which `state-machine.spec.ts:344`
rules out (ClaimSilence). The other is the next update, which supersedes an EXPIRED_BLOCKING row: the
run that retires it has to be holding its block, and to hold it until the successor's row has it, is
settled, or has come into being meanwhile, or the run fails. A block that had been carried already is
not carried again (ClaimBlock). An answer overwritten by a carry-over ends the block no less
(ClaimCarry): the property asks that it was recorded, or that it was read before it was undone. The
gate, besides, opens by the clock alone (`overtaken`) between the `validFrom` of a version and the
hourly job that brings the block to it. The flip run has no publisher, so that what a publish does to
a block is shown by the proof alone.

Fairness. Weak fairness on the progress of each job run and of each request: `@Cron` keeps starting
runs (every hour, 30 seconds or 10 minutes) and every `await` returns. In outreach the provider
repeats a call that was not answered with a 2xx, and the poll comes back for what is not marked
delivered, which is strong fairness on WebhookCall and PollCall of one ref: another call of the
same process may keep each of them waiting for a while. No fairness on the clock, on faults, on
customers, on admins, on the provider's delivery or on publishing: nobody has to act, and time may
stop at the instant that makes a row due.

### Disagreements with comments, documents and tests

Each of these configurations ends with a counterexample. The first four are runs of `PROJECT.json`,
whose findings quote the line contradicted; the comment above each property quotes it for the others,
which are kept for reference and run as `tlc -config <file> <module>`.

| Configuration | Module | What the counterexample does |
|---|---|---|
| ClaimAccepted | LifecycleClaims | a consent commits between a publish's read of the open rows and its save of that row; the accepted row ends SUPERSEDED |
| ClaimRollout | LifecycleClaims | a manual recording on a draft leaves a row; the rollout runs into the unique index and the remaining customers get no row, which the gate counts as compliant |
| ClaimPatch | MCBackOffice | an edit that has read the draft saves it after its publish: the version is a draft again, with another text, its customers asked and its predecessor retired |
| ClaimSilence | LifecycleClaims | a blocked customer opens a PASSIVE successor, whose window is over at once; the sweep books their silence as consent |
| ClaimSigned | MCBackOffice | a boot deletes the type of a signed document, or makes it internal |
| ClaimBlock | LifecycleClaims | an expired customer is carried over to v2 and, at the next update, not to v3 |
| ClaimTemplate | MCBackOffice | the template assigned for acceptance confirmations is never used: that mail is made from the one for reminders |
| ClaimFlipTacit | MCFlip | an activation fails after it has retired the predecessor; the deadline half of the same job books silence on the rows it left open |
| ClaimCarry | MCFlip | a consent between the activation sweep's read and save of the successor row is undone |
| ClaimInForce | MCFlip | a publish lands between the activation sweep's two reads; the sweep retires the version that has just taken effect |
| ClaimRemind | MCCorrespondence | a customer of an ACTIVE version who has never opened it and has no delivered mail is not a candidate and gets no reminder |
| ClaimReopen | MCCorrespondence | an objection is reopened past its deadline: neither an answer nor an objection is possible |
| ClaimDelivered | MCCorrespondence | two webhook calls of one delivery both find no event and both append theirs |
| ClaimExtension | MCCorrespondence | a sweep that has read the old deadline blocks the row an admin has extended meanwhile |
| ClaimOnboarding | MCOnboarding | an edit that has read the customer before its deactivation saves it active again (DeletedStaysDeleted); with that property left out, a create is answered with an error after the customer has been saved (NoHalfCreated) |

## 4. The proofs

For any sets of customers, versions, roles, handlers, sweepers, publishers, mailers, admins, keys,
templates, references and configurations, any deadlines and any bounds. What is assumed of the
constants: `VersionAssumption`, `StoreAssumption`, `RequestAssumption`, `OutreachAssumption`,
`DeskAssumption`, `CatalogueAssumption`, `DraftAssumption` and `OnboardingAssumption`: their types;
holders are customers; `None` is no time, key, reference or id; audiences and types have different
keys; a configuration has passed its schema. The instances of the runs meet them, as TLC evaluates
them in each run. Four theorems add a hypothesis, in bold below.

Every safety property the passing runs check but StatusOnlyAdvances is the statement of a theorem.
Few of those properties are inductive. Each module states, under "Why those hold", the stronger invariant that is; TLC has
checked that one on the instances of the runs before it was proved.

**Lifecycle_proofs**

* `Invariance`: `Spec => []IInv`. Evidence, once written *or on its way*, settles the row, so that
  the guard of every conditional write fails on it (`PendingSettlesRow`, `EvidenceSettlesRow`); a row
  under objection is out of the sweep's reach (`ObjectionHoldsRow`); and what a handler has read
  entitles it to the write it waits for, even where the row has moved on since
  (`ReadEntitlesWrite`). `IInv` is their conjunction with the types. The stale full-row saves of a
  publish are harmless to it since they only ever write SUPERSEDED.
* `TypeCorrect`, `AcceptedHasEvidence`, `EvidenceSettles`, `SingleWriter`, `ObjectionHolds`: its parts.
* `SupersededFinal`: the action property, from the invariant, actor by actor.
* `SavesDraft`, where no two publishes overlap: what validateForPublish saw is still a draft when it
  is saved. `SerialChip` below rests on it.

**Deadlines_proofs**: `LifecycleInvariance`, `Spec => []LifecycleInv`, which is `IInv` with
`DeadlineInv`, and its parts TacitAfterFullWindow, HardDeadlineNeverMoves, BlockedOnlyAfterLapse.
They need what every actor between two writes *holds*: no write of a stored row changes its terms
(`sameTerms`: the deadline of an ACTIVE version, whether it was rolled out, whether it carries a
block), so a snapshot a sweep, a notice or a publish has taken is still on them; a row notified when
the sweep read it has not been notified again, so that its window is the one the sweep saw
(`SweepHoldsTerms`); a carried block comes from an earlier row of that customer that lapsed
(`PublisherHoldsTerms`, `RowsKeepPromise`).

**Ledger_proofs**: `OnlyPassive` and `LedgerImplemented`, `Spec => ImplementsLedger`. The three kinds
of append are the ledger's three actions (`AcceptStep`, `SilenceStep`, `RefusalStep`); the invariant
supplies their guards, and every other step leaves both tables alone.

**Requests_proofs**

* `RequestsImplementLifecycle`: `RequestSpec => Spec`. Each step of a call is a step of its handler
  or leaves the consents alone, so that `IInv` holds of Requests as well.
* `OneHolder` and `PromiseKept`, from `KeyInv`: whoever holds a reservation has its key pending
  (`ReservationPending`); an effect is on record (`EffectEvident`), so that no further consent under
  the key gets past the ACCEPTED row after its reservation is given back; the request processed under
  a key is that of the key (`CallMatches`); and of the objections racing for a row, which reserve
  nothing, one alone gets past the conditional transition (`OneObjectionWins`, from
  `ObjectionHoldsRow`). `PromiseKept` is `RequestSpec => KeepsPromise`: the processing that records is
  the promise's `Do`, each 201 its `Confirm`.
* `RefusalIsEffectless`, from two more: until a call fails, an effect under a key is its response
  already or is about to become it (`EffectFollowedUp`), and only a consent gives a reservation back
  (`OnlyConsentsRelease`).

**Flip_proofs**, of the lifecycle with the activation sweeps beside it and of the readings of Gate

* `FlipInvariance`: `FlipSpec => []FlipInv`. `IInv` itself does not survive here: the carry-over saves
  a whole row, which may undo an answer given meanwhile. What survives is that a block is carried only
  to a row that was missing or open *when read* (`CarryHoldsOpenRow`), and that whoever notifies from
  a reading of an accepted row has its evidence to show (`NotifierKnowsEvidence`).
* `BlocksAreAccountedFor`, one lemma per actor that ends a block (`HandlerEndsBlock`, `SweepEndsBlock`,
  `PublishEndsBlock`, `JobEndsBlock`) and one on what a run lets go of (`RunLetsGo`), from `CarriesOne`:
  a run carries the block of one customer at a time, and of none before it has found the rows.
* `KeptOutCanAnswer`, and `BreakdownAccountsForAll` **for finitely many customers** (the counts are
  cardinalities).
* `SerialChip`: list and filter agree **where no two publishes overlap**
  (`\A a, b \in Publisher : a = b`), from `SupersededIsRetired`: a
  superseded row, in the table or in anybody's hands, is of a version retired for good.
* `ScheduledInvariance`, `InForceStands`, `GateOpensOnlyForCause`, of `QuietSpec`: from any moment at which
  neither a publish nor a run is under way, as long as nothing is published. Versions are in order of
  day and time of publication, and what a run is going to retire is older than one still in effect
  (`RetiresOlder`). With a publish between the two reads of a run InForceNeverRetired is false
  (ClaimInForce).

**Correspondence_proofs**

* `CorrespondenceTypeCorrect` and `DeskAloneReopens`, the action property, actor by actor: everybody
  but the desk writes under a condition on the stored state, or writes SUPERSEDED.
* `EvidenceInvariance` and `AccessProved`: that each access has its event is not inductive since an
  older reading of a row is saved whole by the desk and by a publish. `EvidencedInv` says it of the
  readings too (`ReadingsEvidenced`), and of who is about to notify (`DisplayHoldsEvidence`).
* `MailedOnceInvariance` and `MailedOnce`, **where no two rollout jobs run at once**
  (`\A m, n \in Mailer : m = n`, which the running flag of a process gives, two processes do not): a
  row mailed has spent its marker or is on record in `remarked`; what the job holds has been claimed
  and not yet been mailed to that address (`MailedOnceInv`).

**BackOffice_proofs**

* `BackOfficeInvariance`: `BackOfficeSpec => []BackOfficeInv`, from any catalogue in which everything
  referred to exists. `ReferencesStand` and `AskedTextStands` are not inductive: a step between a
  check and its write has to leave the check good. `Declared` says what an operation in flight relies
  on and what it is about to delete, `ReliedOn` and `Doomed` that both still are as it has found them
  unless `raced` has recorded the overlap; `BackOfficeInv` is the four with the types.
* `ReferencesStanding`, `AskedStanding`: its parts. With `raced` empty they are absolute, so that an
  overlap is the only way to a dangling reference, or to a customer asked about another text.

**Onboarding_proofs**

* `OnboardingInvariance`: `OnboardingSpec => []OnboardingInv`, from an empty database; the run starts
  where earlier operations have left one.
* `HoldersAsked`: HolderIsAsked says that a publish or a request is at work; the invariant
  (`HoldersAreAsked`) says that it *will still look*: the publish has yet to read who holds the role,
  or has the customer among its targets (`owedByPublish`); the request has not come to that document,
  or has the version before it, or is yet to read the upcoming ones (`owedBy`). So a version published
  between the two reads of a rollout is owed by its own publish, and a role saved after a publish has
  read its targets by the request that saved it.
* `HeardOnceOnly`: an onboarding holds, unsent, only rows it has inserted itself, and of those the
  rollout job knows nothing (`MailsSound`): the unique index is what tells the two mails apart.
* `ReferencesUnique`: between the look-up and the save nobody else has written that reference, or the
  request is marked as overtaken (`ChecksHold`).

The argument for a step has one lemma per component (its writes seen from one row, its effect on
the other operations in flight), then one case per action.

Model-checked only: all liveness (DueIsSettled, AcceptanceIsRecorded, OlderIsRetired,
BlockReachesSuccessor, DeliveryTakesEffect, DueReminderIsSent, CallEnds), since TLAPS does not prove
properties under fairness here; StatusOnlyAdvances; and that the claims of section 3 fail.

## 5. Not modelled, and the plan

* **Audience and document type administration** (`admin/audience-admin.service.ts`,
  `document-type-admin.service.ts`): no route reaches their write methods any more, the
  configuration file is their only source (`docs/PERSISTENCE.md`). What remains are listings.
* **Acceptance links and the hosted page** (`accept/`): a link is looked up and then handed to the
  consent requests modelled; nothing in `src` revokes one.
* **Event log and audit**: append-only and read by no decision.
* **Plugins, authentication, HTTP, e-mail and file storage adapters**: calls out of the process. The
  mail provider is modelled as far as its answers come back (Outreach).
* **In-memory repositories**: for tests and the demo; the Prisma ones are modelled.
* **Histories, listings, the admin UI, i18n, wording, hashes, PDFs**: they read, or lay out.
* **Bounces and complaints**: they write the escalation log alone.
* **Deletion of customers**: there is none, a customer is deactivated (Onboarding).

What could follow, in order: proofs that the three publishes implement one another (Onboarding's and
Drafts' are Publishing with its inner awaits hidden), so that what is proved of each holds of all;
`RolloutMailOnce` under two mailers with the overlap on record, as `raced` has it elsewhere;
OnboardingInv from any database that satisfies it.
