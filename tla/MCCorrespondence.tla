-------------------------- MODULE MCCorrespondence --------------------------
(***************************************************************************)
(* Small instances of Correspondence: one version that has been rolled out. *)
(***************************************************************************)
EXTENDS Correspondence, TLC

CONSTANTS v1, c1, mail1, mail2

MCVersion == {v1}
Active == v1 :> "ACTIVE"
Passive == v1 :> "PASSIVE"
DayZero == v1 :> 0
DayOne == v1 :> 1
DayTwo == v1 :> 2
OneContact == c1 :> {mail1}
TwoContacts == c1 :> {mail1, mail2}
OneThreshold == <<1>>
TwoThresholds == <<2, 1>>

(* What a publish of v1 on day 0 leaves behind. *)
RolledOut ==
  /\ now = 0 /\ acceptances = {} /\ objections = {} /\ faults = 0 /\ orphans = {}
  /\ versions = [v \in Version |-> [status |-> "PUBLISHED", publishedAt |-> 0]]
  /\ states = [c \in Customer |-> [v \in Version |->
       IF c \in Holder
       THEN [PendingRow(rolloutDeadlineFor(v)) EXCEPT !.notificationDue = TRUE]
       ELSE NoRow]]
  /\ ApiInit /\ SweepInit /\ PublishInit /\ OutreachInit /\ DeskInit /\ DisplayInit

OutreachSpec == RolledOut /\ [][CorrespondenceNext]_allVars
OutreachFair == OutreachSpec /\ OutreachFairness
=============================================================================
