--------------------------- MODULE DeadlineSweep ---------------------------
(***************************************************************************)
(* DeadlineSweeperService: one run takes the rows due now, then handles     *)
(* them one by one from those snapshots.  sweeps[s].due are the snapshots   *)
(* run s still has to handle, sweeps[s].tacit the row (at most one) it has  *)
(* set to ACCEPTED and not yet recorded.                                    *)
(***************************************************************************)
EXTENDS ConsentStore

CONSTANT Sweeper   \* sweeper runs that may overlap (the cron job has no guard)

VARIABLE sweeps

SweepTypeOK ==
  /\ sweeps \in [Sweeper -> [due : SUBSET Snapshot, tacit : SUBSET (Customer \X Version)]]
  /\ \A s \in Sweeper : \A k, l \in sweeps[s].tacit : k = l
SweepInit == sweeps = [s \in Sweeper |-> [due |-> {}, tacit |-> {}]]

sweepContext == <<now, versions, objections>>

(* run: findDueForSweep. *)
SweepFind(s) ==
  /\ sweeps[s] = [due |-> {}, tacit |-> {}]
  /\ sweeps' = [sweeps EXCEPT ![s].due = findDueForSweep]
  /\ UNCHANGED storeVars

(* A slip: the write no longer conditional. *)
appliesAlways(d) == d \in Snapshot

(* sweepOne: the outcome is decided on the snapshot, the write is conditional
   on the snapshot's state. *)
applies(d) == inState(d.customer, d.version, d.row.state)
outcome(d) == sweepOutcome(d.row, d.version, now)

takes(s, d) == d \in sweeps[s].due /\ sweeps[s].tacit = {}
handled(s, d) == sweeps[s].due \ {d}

SweepSkip(s, d) ==
  /\ takes(s, d)
  /\ ~applies(d) \/ outcome(d) = "NOOP"
  /\ sweeps' = [sweeps EXCEPT ![s].due = handled(s, d)]
  /\ UNCHANGED storeVars

SweepExpire(s, d) ==
  /\ takes(s, d)
  /\ applies(d) /\ outcome(d) = "EXPIRED_BLOCKING"
  /\ setState(d.customer, d.version, "EXPIRED_BLOCKING")
  /\ sweeps' = [sweeps EXCEPT ![s].due = handled(s, d)]
  /\ UNCHANGED <<sweepContext, acceptances, faults, orphans>>

(* A slip: the row is accepted and no record follows. *)
SweepTacitUnrecorded(s, d) ==
  /\ takes(s, d)
  /\ applies(d) /\ outcome(d) = "TACIT_ACCEPTED"
  /\ setState(d.customer, d.version, "ACCEPTED")
  /\ sweeps' = [sweeps EXCEPT ![s].due = handled(s, d)]
  /\ UNCHANGED <<sweepContext, acceptances, faults, orphans>>

SweepTacit(s, d) ==
  /\ takes(s, d)
  /\ applies(d) /\ outcome(d) = "TACIT_ACCEPTED"
  /\ setState(d.customer, d.version, "ACCEPTED")
  /\ sweeps' = [sweeps EXCEPT ![s] = [due |-> handled(s, d),
                                      tacit |-> {<<d.customer, d.version>>}]]
  /\ UNCHANGED <<sweepContext, acceptances, faults, orphans>>

SweepAppend(s) ==
  \E k \in sweeps[s].tacit :
    /\ appendAcceptance(k[1], k[2], "TACIT")
    /\ sweeps' = [sweeps EXCEPT ![s].tacit = {}]
    /\ UNCHANGED <<sweepContext, states, faults, orphans>>

(* One entry fails at its append: the error is logged, the run goes on. *)
SweepEntryFails(s) ==
  /\ sweeps[s].tacit # {}
  /\ Fault
  /\ orphans' = orphans \cup sweeps[s].tacit
  /\ sweeps' = [sweeps EXCEPT ![s].tacit = {}]
  /\ UNCHANGED <<sweepContext, states, acceptances>>

(* The process dies during the run. *)
SweepDies(s) ==
  /\ sweeps[s].due # {} \/ sweeps[s].tacit # {}
  /\ Fault
  /\ orphans' = orphans \cup sweeps[s].tacit
  /\ sweeps' = [sweeps EXCEPT ![s] = [due |-> {}, tacit |-> {}]]
  /\ UNCHANGED <<sweepContext, states, acceptances>>

SweepHandle(s) ==
  \/ \E d \in sweeps[s].due : SweepSkip(s, d) \/ SweepExpire(s, d) \/ SweepTacit(s, d)
  \/ SweepAppend(s)

SweepProgress(s) == SweepFind(s) \/ SweepHandle(s)

SweepStep(s) == SweepProgress(s) \/ SweepEntryFails(s) \/ SweepDies(s)
=============================================================================
