----------------------------- MODULE Publishing -----------------------------
(***************************************************************************)
(* PublishService.publish: a draft becomes PUBLISHED; when it takes effect  *)
(* at once, every other published version is retired and its open rows are  *)
(* superseded; then every holder of the role gets a row.  One statement     *)
(* after the other, in no transaction.  publications[a] is what the publish *)
(* request a has read so far.                                               *)
(***************************************************************************)
EXTENDS ConsentStore

CONSTANT Publisher   \* publish requests that may be in flight at once

VARIABLE publications

NoPublication == [step |-> "idle"]
Publication ==
  [step : {"save", "siblings", "predecessors", "targets", "rollout"},
   version : Version,
   predecessors : SUBSET VersionRow,   \* still to be retired, as read
   draining : SUBSET Version,          \* retired last, its open rows not yet read
   open : SUBSET Snapshot,             \* open rows read, still to be superseded
   blocking : SUBSET Customer,         \* blockingByCustomer
   targets : SUBSET Customer]          \* still to be rolled out to

PublishTypeOK == publications \in [Publisher -> Publication \cup {NoPublication}]
PublishInit == publications = [a \in Publisher |-> NoPublication]

publishing(a) == publications[a] # NoPublication
in(a, step) == publications[a].step = step
endPublish(a) == publications' = [publications EXCEPT ![a] = NoPublication]
evidenceVars == <<now, acceptances, objections, faults, orphans>>

(* A slip: published again, whatever its status. *)
PublishReadAny(a, v) ==
  /\ ~publishing(a)
  /\ publishable(v)
  /\ publications' = [publications EXCEPT ![a] =
       [step |-> "save", version |-> v, predecessors |-> {}, draining |-> {},
        open |-> {}, blocking |-> {}, targets |-> {}]]
  /\ UNCHANGED storeVars

(* findById and validateForPublish. *)
PublishRead(a, v) ==
  /\ ~publishing(a)
  /\ versions[v].status = "DRAFT"
  /\ publishable(v)
  /\ publications' = [publications EXCEPT ![a] =
       [step |-> "save", version |-> v, predecessors |-> {}, draining |-> {},
        open |-> {}, blocking |-> {}, targets |-> {}]]
  /\ UNCHANGED storeVars

PublishSave(a) ==
  /\ in(a, "save")
  /\ LET v == publications[a].version
     IN /\ versions' = [versions EXCEPT ![v] = [status |-> "PUBLISHED", publishedAt |-> now]]
        /\ publications' = [publications EXCEPT ![a].step =
             IF ValidFrom[v] <= now THEN "siblings" ELSE "targets"]
  /\ UNCHANGED <<evidenceVars, states>>

(* Every other PUBLISHED version counts as a predecessor, an upcoming one too. *)
PublishSiblings(a) ==
  /\ in(a, "siblings")
  /\ publications' = [publications EXCEPT ![a].step = "predecessors",
       ![a].predecessors =
         {versionRow(w) : w \in {x \in Version : Published(x) /\ x # publications[a].version}}]
  /\ UNCHANGED storeVars

(* The predecessor retired last is done with: its open rows are superseded. *)
drained(a) ==
  in(a, "predecessors") /\ publications[a].draining = {} /\ publications[a].open = {}

(* The predecessor's row is written back as read, but for its status. *)
PublishRetire(a, w) ==
  /\ drained(a)
  /\ w \in publications[a].predecessors
  /\ saveRetired(w)
  /\ publications' = [publications EXCEPT ![a].draining = {w.version},
                                         ![a].predecessors = @ \ {w}]
  /\ UNCHANGED <<evidenceVars, states>>

PublishFindOpen(a) ==
  /\ in(a, "predecessors")
  /\ publications[a].draining # {}
  /\ publications' = [publications EXCEPT ![a].draining = {},
       ![a].open = UNION {findOpenByVersion(w) : w \in publications[a].draining}]
  /\ UNCHANGED storeVars

(* The whole row is written back as read, but for its state. *)
PublishSupersede(a, d) ==
  /\ in(a, "predecessors")
  /\ d \in publications[a].open
  /\ save(d.customer, d.version, supersede(d.row))
  /\ publications' = [publications EXCEPT ![a].open = @ \ {d},
       ![a].blocking = IF wasBlocking(d.row) THEN @ \cup {d.customer} ELSE @]
  /\ UNCHANGED <<evidenceVars, versions>>

PublishTargets(a) ==
  /\ \/ in(a, "targets")
     \/ drained(a) /\ publications[a].predecessors = {}
  /\ publications' = [publications EXCEPT ![a].step = "rollout", ![a].targets = Holder]
  /\ UNCHANGED storeVars

(* A new row per target; the unique index refuses a second one, and the
   refusal ends the request with the version already published. *)
rolloutRow(a, c) ==
  [PendingRow(rolloutDeadlineFor(publications[a].version)) EXCEPT
     !.carryOverBlocking = c \in publications[a].blocking,
     !.notificationDue = TRUE]

PublishRollout(a, c) ==
  /\ in(a, "rollout")
  /\ c \in publications[a].targets
  /\ ~exists(c, publications[a].version)
  /\ save(c, publications[a].version, rolloutRow(a, c))
  /\ publications' = [publications EXCEPT ![a].targets = @ \ {c}]
  /\ UNCHANGED <<evidenceVars, versions>>

PublishRefused(a, c) ==
  /\ in(a, "rollout")
  /\ c \in publications[a].targets
  /\ exists(c, publications[a].version)
  /\ endPublish(a)
  /\ UNCHANGED storeVars

PublishReturn(a) ==
  /\ in(a, "rollout")
  /\ publications[a].targets = {}
  /\ endPublish(a)
  /\ UNCHANGED storeVars

PublishDies(a) ==
  /\ publishing(a)
  /\ Fault
  /\ endPublish(a)
  /\ UNCHANGED <<now, versions, states, acceptances, objections, orphans>>

PublishProgress(a) ==
  \/ PublishSave(a)
  \/ PublishSiblings(a)
  \/ \E w \in publications[a].predecessors : PublishRetire(a, w)
  \/ PublishFindOpen(a)
  \/ \E d \in publications[a].open : PublishSupersede(a, d)
  \/ PublishTargets(a)
  \/ \E c \in Customer : PublishRollout(a, c) \/ PublishRefused(a, c)
  \/ PublishReturn(a)

PublishStep(a) ==
  \/ \E v \in Version : PublishRead(a, v)
  \/ publishing(a) /\ PublishProgress(a)
  \/ PublishDies(a)
=============================================================================
