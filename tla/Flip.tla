-------------------------------- MODULE Flip --------------------------------
(***************************************************************************)
(* The flip from one version to a scheduled one.  DeadlineSweeperJob runs   *)
(* the activation sweep and then the deadline sweep, every hour, while      *)
(* requests, a publish and the clock go on as in Lifecycle.  jobs[s] tells  *)
(* which half run s of the job is in.                                       *)
(***************************************************************************)
EXTENDS Lifecycle, ActivationSweep

VARIABLE jobs

flipVars == <<vars, activations, jobs>>

JobTypeOK == jobs \in [Sweeper -> {"idle", "activating", "sweeping"}]
JobInit == jobs = [s \in Sweeper |-> "idle"]

enter(s, half) == jobs' = [jobs EXCEPT ![s] = half]
outsideJob == <<requests, publications>>

(* run: a document without a version in force has nothing to activate. *)
JobStart(s) ==
  /\ jobs[s] = "idle"
  /\ enter(s, "activating")
  /\ \/ ActivateCurrent(s)
     \/ (\A v \in Version : ~isCurrent(v)) /\ UNCHANGED <<storeVars, sweeps, activations>>

JobActivate(s) ==
  /\ jobs[s] = "activating"
  /\ activating(s)
  /\ ActivateProgress(s)
  /\ UNCHANGED jobs

JobActivateFails(s) ==
  /\ jobs[s] = "activating"
  /\ ActivateFails(s)
  /\ UNCHANGED jobs

JobDeadlines(s) ==
  /\ jobs[s] = "activating"
  /\ ~activating(s)
  /\ SweepFind(s)
  /\ enter(s, "sweeping")
  /\ UNCHANGED activations

JobSweep(s) ==
  /\ jobs[s] = "sweeping"
  /\ SweepHandle(s)
  /\ UNCHANGED <<jobs, activations>>

JobEntryFails(s) ==
  /\ jobs[s] = "sweeping"
  /\ SweepEntryFails(s)
  /\ UNCHANGED <<jobs, activations>>

JobEnd(s) ==
  /\ jobs[s] = "sweeping"
  /\ sweeps[s] = [due |-> {}, tacit |-> {}]
  /\ enter(s, "idle")
  /\ UNCHANGED <<storeVars, sweeps, activations>>

JobDies(s) ==
  /\ jobs[s] # "idle"
  /\ Fault
  /\ orphans' = orphans \cup sweeps[s].tacit
  /\ sweeps' = [sweeps EXCEPT ![s] = [due |-> {}, tacit |-> {}]]
  /\ activations' = [activations EXCEPT ![s] = NoActivation]
  /\ enter(s, "idle")
  /\ UNCHANGED <<now, versions, states, acceptances, objections>>

JobProgress(s) ==
  JobStart(s) \/ JobActivate(s) \/ JobDeadlines(s) \/ JobSweep(s) \/ JobEnd(s)

Job(s) ==
  /\ JobProgress(s) \/ JobActivateFails(s) \/ JobEntryFails(s) \/ JobDies(s)
  /\ UNCHANGED outsideJob

FlipInit == Init /\ ActivateInit /\ JobInit

FlipNext ==
  \/ (Clock \/ (\E p \in Handler : Api(p)) \/ (\E a \in Publisher : Publish(a)))
       /\ UNCHANGED <<activations, jobs>>
  \/ \E s \in Sweeper : Job(s)

FlipSpec == FlipInit /\ [][FlipNext]_flipVars

FlipTypeOK == TypeOK /\ ActivateTypeOK /\ JobTypeOK

(* The job is scheduled every hour; each of its awaits comes back, and so does
   each await of a request. *)
FlipFairness ==
  /\ \A s \in Sweeper : WF_flipVars(JobProgress(s) /\ UNCHANGED outsideJob)
  /\ \A p \in Handler :
       WF_flipVars(ApiProgress(p) /\ UNCHANGED <<sweeps, publications, activations, jobs>>)

-----------------------------------------------------------------------------
(* Safety *)

(* The activation sweep never retires the version in force, even when another
   one takes effect while it runs. *)
InForceNeverRetired ==
  [][\A v \in Version, s \in Sweeper :
       isCurrent(v) /\ activations[s] # activations'[s] => versions'[v] = versions[v]]_flipVars

(* How a block on c's row of v may end in a step.  By an answer: a handler has
   taken it and goes on to record it, or has read it before a carry-over undid
   it and writes it back with the access it notices. *)
recording(p, c, v) ==
  /\ at(p, "appendAcceptance") \/ at(p, "appendObjection")
  /\ requests[p].customer = c /\ requests[p].version = v

readBefore(p, c, v) ==
  /\ at(p, "notifyWrite") /\ requests[p].customer = c /\ requests[p].version = v
  /\ requests[p].row.state = states'[c][v].state

endsAnswered(c, v) ==
  /\ states'[c][v].state \in {"ACCEPTED", "OBJECTED"}
  /\ \E p \in Handler : readBefore(p, c, v) \/ (~recording(p, c, v) /\ recording(p, c, v)')

(* By silence, though no answer was given: a row of a PASSIVE version, opened
   and over its deadline when a run of the job has read it, which goes on to
   book it. *)
endsSilently(c, v) ==
  /\ AcceptanceMode[v] = "PASSIVE"
  /\ states[c][v].state = "NOTIFIED" /\ states'[c][v].state = "ACCEPTED"
  /\ \E s \in Sweeper : \E d \in sweeps[s].due :
       /\ d.customer = c /\ d.version = v /\ isDue(d.row, now)
       /\ acceptingSweep(s, c, v)'

(* By supersession: whoever supersedes the row holds the block from then on, if
   the row was EXPIRED_BLOCKING when read.  A block carried over to the row, or
   one younger than the reading, is not held. *)
carrying(s, c) == activating(s) /\ c \in activations[s].carry
stamping(a, c) == publishing(a) /\ c \in publications[a].blocking
holdsBlock(d, c, v, held) ==
  d.customer = c /\ d.version = v /\ (wasBlocking(d.row) => held)

endsSuperseded(c, v) ==
  /\ states'[c][v].state = "SUPERSEDED"
  /\ \/ \E s \in Sweeper : activating(s) /\ \E d \in activations[s].open :
          holdsBlock(d, c, v, carrying(s, c)')
     \/ \E a \in Publisher : publishing(a) /\ \E d \in publications[a].open :
          holdsBlock(d, c, v, stamping(a, c)')
     \/ \E p \in Handler : readBefore(p, c, v)

(* A run lets go of a block it holds once it is on the successor's row, or that
   row has been answered or superseded, or has come into being meanwhile, or
   the run fails. *)
letsGo(s, c) ==
  LET v == activations[s].current
  IN \/ isBlocking(states'[c][v])
     \/ states[c][v].state \in {"ACCEPTED", "OBJECTED", "SUPERSEDED"}
     \/ atStep(s, "carryWrite") /\ activations[s].successor = NoRow /\ exists(c, v)
     \/ faults' # faults

(* No block gets lost: it ends by an answer, by silence or with its row, and
   what a run has taken from a row it brings to the next, whatever accesses,
   sweeps and runs computed from an older reading are still to be written. *)
BlockIsAccountedFor ==
  [][\A c \in Customer :
       /\ \A v \in Version :
            isBlocking(states[c][v]) /\ ~isBlocking(states'[c][v]) =>
              endsAnswered(c, v) \/ endsSilently(c, v) \/ endsSuperseded(c, v)
       /\ \A s \in Sweeper :
            carrying(s, c) /\ ~carrying(s, c)' => letsGo(s, c)]_flipVars

-----------------------------------------------------------------------------
(* Why those hold: the inductive invariants. *)

(* A block is only carried to a row that was missing or open when read. *)
CarryHoldsOpenRow ==
  \A s \in Sweeper : atStep(s, "carryWrite") => carries(activations[s].successor)

(* One effective acceptance per customer and version: the partial index. *)
OneAcceptanceEach ==
  \A a, b \in acceptances : a.customer = b.customer /\ a.version = b.version => a = b

(* Nor does an access computed from an accepted row, should the row have been
   reopened since, accept it again on nobody's word. *)
hasEvidence(c, v) == accepted(c, v) \/ evidencePending(c, v) \/ <<c, v>> \in orphans

NotifierKnowsEvidence ==
  \A p \in Handler :
    at(p, "notifyWrite") /\ requests[p].row.state = "ACCEPTED" =>
      hasEvidence(requests[p].customer, requests[p].version)

FlipInv ==
  /\ FlipTypeOK
  /\ HandlersReadRows
  /\ CarryHoldsOpenRow
  /\ AcceptedRowHasEvidence
  /\ NotifierKnowsEvidence
  /\ OneAcceptanceEach

(* Where publishes do not overlap, a superseded row is one of a version
   retired for good: whoever supersedes rows, or has read a superseded one to
   write it back, holds a retired version's. *)
isRetired(v) == versions[v].status = "RETIRED"
drainsRetired(b) == (\A v \in b.draining : isRetired(v)) /\ (\A d \in b.open : isRetired(d.version))

SupersededIsRetired ==
  /\ \A c \in Customer, v \in Version : states[c][v].state = "SUPERSEDED" => isRetired(v)
  /\ \A p \in Handler :
       at(p, "notifyWrite") /\ requests[p].row.state = "SUPERSEDED" => isRetired(requests[p].version)
  /\ \A s \in Sweeper : activating(s) =>
       /\ drainsRetired(activations[s])
       /\ \A r \in activations[s].predecessors : versions[r.version].status # "DRAFT"
  /\ \A a \in Publisher : publishing(a) => drainsRetired(publications[a])

(* Which of two versions findCurrentPublished puts behind the other. *)
older(w, v) ==
  \/ ValidFrom[w] < ValidFrom[v]
  \/ ValidFrom[w] = ValidFrom[v] /\ versions[w].publishedAt < versions[v].publishedAt

(* Published at some time, and no two versions of one day at the same time. *)
PublishedInOrder ==
  /\ \A v \in Version : versions[v].status # "DRAFT" => versions[v].publishedAt # None
  /\ \A v, w \in Version :
       Published(v) /\ Published(w) /\ v # w => older(v, w) \/ older(w, v)

(* Where nothing is published meanwhile, what a run is going to retire is
   older than a version that is still in effect. *)
retiresOlder(b) ==
  /\ versions[b.current].status # "DRAFT"
  /\ \E v \in Version : InEffect(v) /\ (v = b.current \/ older(b.current, v))
  /\ \A w \in Version \ {b.current} :
       Published(w) /\ ValidFrom[w] <= b.at => older(w, b.current)
  /\ \A r \in b.predecessors :
       older(r.version, b.current) /\ r.publishedAt = versions[r.version].publishedAt

RetiresOlder == \A s \in Sweeper : activating(s) => retiresOlder(activations[s])

ScheduledInv == FlipInv /\ SupersededIsRetired /\ PublishedInOrder /\ RetiresOlder

(* From any moment at which neither a publish nor a run of the job is under
   way, for as long as nothing is published. *)
QuietInit == FlipInv /\ SupersededIsRetired /\ PublishedInOrder /\ ActivateInit /\ PublishInit
QuietSpec == QuietInit /\ [][FlipNext /\ UNCHANGED publications]_flipVars

-----------------------------------------------------------------------------
(* Liveness *)

(* A flip is always completed: of two versions in effect the older one ends
   up retired, whatever run of the job fails before it has done so. *)
OlderIsRetired ==
  \A v, w \in Version :
    InEffect(v) /\ InEffect(w) /\ ValidFrom[v] < ValidFrom[w] ~>
      versions[v].status = "RETIRED"

answered(c, v) == states[c][v].state \in {"ACCEPTED", "OBJECTED"}

(* A customer blocked under the version before is blocked under the version
   now in force as well, or has answered one of the two, unless a run of the
   job has died on the way. *)
BlockReachesSuccessor ==
  \A c \in Customer : \A v, w \in Version :
    states[c][v].state = "EXPIRED_BLOCKING" /\ ValidFrom[v] < ValidFrom[w] /\ InEffect(w) ~>
      isBlocking(states[c][w]) \/ answered(c, v) \/ answered(c, w) \/ faults > 0
=============================================================================
