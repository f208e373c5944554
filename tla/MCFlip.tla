------------------------------- MODULE MCFlip -------------------------------
(***************************************************************************)
(* Small instances of Flip for TLC: v1 in force since day 0, v2 published   *)
(* ahead for day 1, both rolled out.                                        *)
(***************************************************************************)
EXTENDS Gate, TLC

CONSTANTS v1, v2

MCVersion == {v1, v2}
MCValidFrom == (v1 :> 0) @@ (v2 :> 1)
MCPeriod == (v1 :> 1) @@ (v2 :> 1)

(* v1 needs a consent by day 0, v2 lets silence consent after a day. *)
ActiveFirst == (v1 :> "ACTIVE") @@ (v2 :> "PASSIVE")
(* v1 lets silence consent, v2 needs a consent by day 1. *)
PassiveFirst == (v1 :> "PASSIVE") @@ (v2 :> "ACTIVE")
MCDeadline == (v1 :> 0) @@ (v2 :> 1)

AllAtOnce == (v1 :> 0) @@ (v2 :> 0)

rolledOut(v) == [PendingRow(rolloutDeadlineFor(v)) EXCEPT !.notificationDue = TRUE]

FirstPublished(published) ==
  /\ now = 0
  /\ versions = [v \in Version |->
       IF v \in published THEN [status |-> "PUBLISHED", publishedAt |-> 0]
       ELSE [status |-> "DRAFT", publishedAt |-> None]]
  /\ states = [c \in Customer |-> [v \in Version |->
       IF v \in published /\ c \in Holder THEN rolledOut(v) ELSE NoRow]]
  /\ acceptances = {} /\ objections = {} /\ faults = 0 /\ orphans = {}
  /\ ApiInit /\ SweepInit /\ PublishInit /\ ActivateInit /\ JobInit

ScheduledSpec == FirstPublished({v1, v2}) /\ [][FlipNext]_flipVars
ScheduledFair == ScheduledSpec /\ FlipFairness
FirstSpec == FirstPublished({v1}) /\ [][FlipNext]_flipVars

-----------------------------------------------------------------------------
(* What the repository's comments and tests say of the flip and the code does
   not keep: each is the one property of a run that ends in a counterexample. *)

(* "the predecessor's open states are SUPERSEDED before the deadline pass could
   TACIT-book them", deadline-sweeper.job.ts:9.  Broken by a run that fails
   after it has retired the predecessor: its open rows are never superseded, no
   later run looks at them again, and the deadline half of the same run books
   the customer's silence for the retired version. *)
NoTacitAcrossFlip ==
  [][\A s \in Sweeper : \A d \in sweeps[s].due :
       SweepTacit(s, d) => versions[d.version].status # "RETIRED"]_flipVars

(* "Terminal successor states (ACCEPTED in advance / OBJECTED / SUPERSEDED) are
   never touched", activation-sweeper.service.ts:117.  Broken by a consent that
   lands between the read of the successor row and the save of all its columns:
   the row goes back to unanswered. *)
TerminalSuccessorUntouched ==
  [][\A c \in Customer, v \in Version :
       states[c][v].state \in {"ACCEPTED", "OBJECTED", "SUPERSEDED"}
         /\ (\E s \in Sweeper : CarryWrite(s)) =>
           states'[c][v] = states[c][v]]_flipVars
=============================================================================
