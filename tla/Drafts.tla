------------------------------- MODULE Drafts -------------------------------
(***************************************************************************)
(* VersionService and PublishService on the versions themselves: drafts are *)
(* created, edited and deleted while others are published, each operation   *)
(* saving the whole version as it has read it.  Publishing is told one      *)
(* statement at a time where it meets a draft or a customer; what it does   *)
(* to the rows of a predecessor is in Publishing.                           *)
(***************************************************************************)
EXTENDS Catalogue

CONSTANTS
  DocumentOf,  \* the document of each version: <<type, audience>>
  Text,        \* what a version may say: its file, wording, mode and dates
  Scheduled    \* the texts whose validFrom is ahead

ASSUME DraftAssumption == DocumentOf \in [Version -> DocType \X Audience]

VARIABLES
  versions,  \* versions[v]: [status, text], or Unused (no such id yet) or Deleted
  asked      \* rows: [customer, version, text], with the text asked about

draftVars == <<versions, asked>>

Unused == [status |-> "unused"]
Deleted == [status |-> "deleted"]
VersionRow == [status : {"DRAFT", "PUBLISHED", "RETIRED"}, text : Text]
present(v) == versions[v] \notin {Unused, Deleted}

DraftOp ==
  [kind : {"patch", "delete", "publish"},
   step : {"save", "find", "delete", "retire", "targets", "rollout"},
   version : Version, row : VersionRow, targets : SUBSET Customer,
   refs : SUBSET Version, doomed : {{}}]

(* What an operation has read and not written yet, and a publish that has. *)
unsaved(op) == op.kind \in {"patch", "delete"} \/ (op.kind = "publish" /\ op.step = "save")
saved(op) == op.kind = "publish" /\ op.step # "save"

(* A slip: any version that exists. *)
assertExists(v) == present(v)

assertDraftMutable(v) == versions[v].status = "DRAFT"

read(p, kind, step, v) ==
  begin(p, [kind |-> kind, step |-> step, version |-> v, row |-> versions[v], targets |-> {},
            refs |-> {v}, doomed |-> {}])

(* save: an upsert of every column. *)
saveVersion(p, v, row) ==
  /\ versions' = [versions EXCEPT ![v] = row]
  /\ deletes(p, v)

(* createDraft, for a document that exists. *)
DraftCreate(p, v, text) ==
  /\ versions[v] = Unused /\ DocumentOf[v] \in documents
  /\ ~busy(p) /\ started < MaxOps
  /\ started' = started + 1
  /\ versions' = [versions EXCEPT ![v] = [status |-> "DRAFT", text |-> text]]
  /\ UNCHANGED <<tables, ops, faults, raced, asked>>

(* patchDraft: what the version is to say is put into the row as read. *)
PatchBegin(p, v, text) ==
  /\ assertDraftMutable(v)
  /\ begin(p, [kind |-> "patch", step |-> "save", version |-> v,
               row |-> [versions[v] EXCEPT !.text = text], targets |-> {},
               refs |-> {v}, doomed |-> {}])
  /\ UNCHANGED draftVars

PatchSave(p) ==
  /\ at(p, "patch", "save")
  /\ saveVersion(p, ops[p].version, ops[p].row)
  /\ finish(p)
  /\ UNCHANGED asked

(* deleteDraft, and the look the repository takes at the version itself. *)
DeleteBegin(p, v) ==
  /\ assertDraftMutable(v)
  /\ read(p, "delete", "find", v)
  /\ UNCHANGED draftVars

DeleteFind(p) ==
  /\ at(p, "delete", "find")
  /\ IF assertDraftMutable(ops[p].version)
     THEN continue(p, [ops[p] EXCEPT !.step = "delete"]) ELSE finish(p)
  /\ UNCHANGED <<raced, draftVars>>

(* CustomerVersionState.versionId is a foreign key: a version somebody has been
   asked about is not deleted, nor anybody asked about one that is gone. *)
rowsOf(v) == {r \in asked : r.version = v}

DeleteVersion(p) ==
  LET v == ops[p].version
  IN /\ at(p, "delete", "delete")
     /\ IF rowsOf(v) = {} /\ present(v) THEN saveVersion(p, v, Deleted)
        ELSE UNCHANGED <<versions, raced>>
     /\ finish(p)
     /\ UNCHANGED asked

(* publish *)
PublishRead(p, v) ==
  /\ assertDraftMutable(v)
  /\ read(p, "publish", "save", v)
  /\ UNCHANGED draftVars

PublishSave(p) ==
  LET row == ops[p].row
  IN /\ at(p, "publish", "save")
     /\ saveVersion(p, ops[p].version, [row EXCEPT !.status = "PUBLISHED"])
     /\ continue(p, [ops[p] EXCEPT !.step = IF row.text \in Scheduled THEN "targets" ELSE "retire"])
     /\ UNCHANGED asked

PublishRetire(p) ==
  /\ at(p, "publish", "retire")
  /\ versions' = [w \in Version |->
       IF w # ops[p].version /\ DocumentOf[w] = DocumentOf[ops[p].version]
          /\ versions[w].status = "PUBLISHED"
       THEN [versions[w] EXCEPT !.status = "RETIRED"] ELSE versions[w]]
  /\ continue(p, [ops[p] EXCEPT !.step = "targets"])
  /\ UNCHANGED <<raced, asked>>

(* findByRole *)
PublishTargets(p) ==
  /\ at(p, "publish", "targets")
  /\ continue(p, [ops[p] EXCEPT !.step = "rollout", !.refs = {},
                    !.targets = {c \in Customer : DocumentOf[ops[p].version][2] \in roles[c]}])
  /\ UNCHANGED <<raced, draftVars>>

(* One row under its unique index and its foreign key: a refusal ends the
   publish with an error. *)
PublishRollout(p) ==
  LET v == ops[p].version
  IN /\ at(p, "publish", "rollout")
     /\ \E c \in ops[p].targets :
          IF ~present(v) \/ \E r \in rowsOf(v) : r.customer = c
          THEN finish(p) /\ UNCHANGED asked
          ELSE /\ asked' = asked \cup {[customer |-> c, version |-> v, text |-> versions[v].text]}
               /\ continue(p, [ops[p] EXCEPT !.targets = @ \ {c}])
     /\ UNCHANGED <<raced, versions>>

PublishReturn(p) ==
  /\ at(p, "publish", "rollout") /\ ops[p].targets = {}
  /\ finish(p)
  /\ UNCHANGED <<raced, draftVars>>

DraftBegin(p) ==
  \E v \in Version :
    \/ DeleteBegin(p, v) \/ PublishRead(p, v)
    \/ \E text \in Text : DraftCreate(p, v, text) \/ PatchBegin(p, v, text)

DraftStep(p) ==
  /\ \/ PatchSave(p) \/ DeleteFind(p) \/ DeleteVersion(p) \/ PublishSave(p) \/ PublishRetire(p)
     \/ PublishTargets(p) \/ PublishRollout(p) \/ PublishReturn(p)
  /\ UNCHANGED <<tables, started, faults>>

DraftTypeOK ==
  /\ versions \in [Version -> VersionRow \cup {Unused, Deleted}]
  /\ asked \subseteq [customer : Customer, version : Version, text : Text]
=============================================================================
