--------------------------- MODULE ActivationSweep ---------------------------
(***************************************************************************)
(* ActivationSweeperService.activateOne: the deferred half of a scheduled   *)
(* publish.  Once a newer version is in force, the versions before it are   *)
(* retired, their open rows superseded, and a block on such a row carried   *)
(* over to the customer's row of the version now in force.  Run s of the    *)
(* hourly job keeps what it has read in activations[s].                     *)
(***************************************************************************)
EXTENDS DeadlineSweep

VARIABLE activations

NoActivation == [step |-> "idle"]
Activation ==
  [step : {"siblings", "predecessors", "carryRead", "carryWrite"},
   current : Version,               \* the version in force, as read
   at : Nat,                        \* when it was read
   predecessors : SUBSET VersionRow,
   draining : SUBSET Version,       \* retired last, its open rows not yet read
   open : SUBSET Snapshot,
   carry : SUBSET Customer,         \* whose block is being carried over
   successor : CustomerVersionState \cup {NoRow}]

ActivateTypeOK == activations \in [Sweeper -> Activation \cup {NoActivation}]
ActivateInit == activations = [s \in Sweeper |-> NoActivation]

activating(s) == activations[s] # NoActivation
atStep(s, step) == activations[s].step = step
endActivation(s) == activations' = [activations EXCEPT ![s] = NoActivation]
nothingElse == <<now, acceptances, objections, faults, orphans, sweeps>>

ActivateCurrent(s) ==
  /\ ~activating(s)
  /\ \E v \in Version :
       /\ isCurrent(v)
       /\ activations' = [activations EXCEPT ![s] =
            [step |-> "siblings", current |-> v, at |-> now, predecessors |-> {},
             draining |-> {}, open |-> {}, carry |-> {}, successor |-> NoRow]]
  /\ UNCHANGED <<storeVars, sweeps>>

(* A slip: the clock looked at again instead of the time of the first read. *)
supplantedNow(s) ==
  {w \in Version : w # activations[s].current /\ InEffect(w)}

(* A slip: the comparison turned round. *)
supplantedLater(s) ==
  {w \in Version : w # activations[s].current /\ Published(w) /\ ValidFrom[w] > activations[s].at}

(* The other published versions in effect when the current one was read. *)
supplanted(s) ==
  {w \in Version : w # activations[s].current /\ Published(w) /\ ValidFrom[w] <= activations[s].at}

ActivateSiblings(s) ==
  /\ atStep(s, "siblings")
  /\ IF supplanted(s) = {} THEN endActivation(s)
     ELSE activations' = [activations EXCEPT ![s].step = "predecessors",
            ![s].predecessors = {versionRow(w) : w \in supplanted(s)}]
  /\ UNCHANGED <<storeVars, sweeps>>

flushed(s) ==
  atStep(s, "predecessors") /\ activations[s].draining = {} /\ activations[s].open = {}

(* A slip: the rows first, the version's own status never saved. *)
ActivateRetireUnsaved(s, w) ==
  /\ flushed(s)
  /\ w \in activations[s].predecessors
  /\ activations' = [activations EXCEPT ![s].draining = {w.version},
                                        ![s].predecessors = @ \ {w}]
  /\ UNCHANGED <<nothingElse, states, versions>>

ActivateRetire(s, w) ==
  /\ flushed(s)
  /\ w \in activations[s].predecessors
  /\ saveRetired(w)
  /\ activations' = [activations EXCEPT ![s].draining = {w.version},
                                        ![s].predecessors = @ \ {w}]
  /\ UNCHANGED <<nothingElse, states>>

ActivateFindOpen(s) ==
  /\ atStep(s, "predecessors")
  /\ activations[s].draining # {}
  /\ activations' = [activations EXCEPT ![s].draining = {},
       ![s].open = UNION {findOpenByVersion(w) : w \in activations[s].draining}]
  /\ UNCHANGED <<storeVars, sweeps>>

(* A slip: the predecessor's block is let go. *)
ActivateSupersedeOnly(s, d) ==
  /\ atStep(s, "predecessors")
  /\ d \in activations[s].open
  /\ save(d.customer, d.version, supersede(d.row))
  /\ activations' = [activations EXCEPT ![s].open = @ \ {d}]
  /\ UNCHANGED <<nothingElse, versions>>

ActivateSupersede(s, d) ==
  /\ atStep(s, "predecessors")
  /\ d \in activations[s].open
  /\ save(d.customer, d.version, supersede(d.row))
  /\ activations' = [activations EXCEPT ![s].open = @ \ {d},
       ![s].step = IF wasBlocking(d.row) THEN "carryRead" ELSE @,
       ![s].carry = IF wasBlocking(d.row) THEN {d.customer} ELSE @]
  /\ UNCHANGED <<nothingElse, versions>>

ActivateReturn(s) ==
  /\ flushed(s)
  /\ activations[s].predecessors = {}
  /\ endActivation(s)
  /\ UNCHANGED <<storeVars, sweeps>>

-----------------------------------------------------------------------------
(* carryBlockOver: a missing row is created, an open one without the mark is
   written back whole with it, any other is left alone. *)

(* A slip: a row that has not been opened yet is taken for none. *)
carriesOpened(row) ==
  row = NoRow \/ (row.state = "NOTIFIED" /\ ~row.carryOverBlocking)

carries(row) ==
  row = NoRow \/ (row.state \in CARRY_OVER_BLOCKING_STATES /\ ~row.carryOverBlocking)

CarryRead(s) ==
  /\ atStep(s, "carryRead")
  /\ \E c \in activations[s].carry :
       LET row == states[c][activations[s].current]
       IN activations' = IF carries(row)
            THEN [activations EXCEPT ![s].step = "carryWrite", ![s].successor = row]
            ELSE [activations EXCEPT ![s].step = "predecessors", ![s].carry = {}]
  /\ UNCHANGED <<storeVars, sweeps>>

carried(s) ==
  IF activations[s].successor = NoRow
  THEN [PendingRow(rolloutDeadlineFor(activations[s].current)) EXCEPT !.carryOverBlocking = TRUE]
  ELSE [activations[s].successor EXCEPT !.carryOverBlocking = TRUE]

(* The unique index refuses a row that has come into being meanwhile. *)
CarryWrite(s) ==
  /\ atStep(s, "carryWrite")
  /\ \E c \in activations[s].carry :
       IF activations[s].successor = NoRow /\ exists(c, activations[s].current)
       THEN endActivation(s) /\ UNCHANGED states
       ELSE /\ save(c, activations[s].current, carried(s))
            /\ activations' = [activations EXCEPT ![s].step = "predecessors",
                 ![s].carry = {}, ![s].successor = NoRow]
  /\ UNCHANGED <<nothingElse, versions>>

(* A statement fails: the error is logged and the job goes on to the deadlines. *)
ActivateFails(s) ==
  /\ activating(s)
  /\ Fault
  /\ endActivation(s)
  /\ UNCHANGED <<now, versions, states, acceptances, objections, orphans, sweeps>>

ActivateProgress(s) ==
  \/ ActivateSiblings(s)
  \/ \E w \in activations[s].predecessors : ActivateRetire(s, w)
  \/ ActivateFindOpen(s)
  \/ \E d \in activations[s].open : ActivateSupersede(s, d)
  \/ ActivateReturn(s)
  \/ CarryRead(s)
  \/ CarryWrite(s)
=============================================================================
