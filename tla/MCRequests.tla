----------------------------- MODULE MCRequests -----------------------------
(***************************************************************************)
(* A small instance of Requests for TLC: one PASSIVE version, in force and   *)
(* rolled out, so that its customer can consent, object and stay silent.     *)
(***************************************************************************)
EXTENDS Requests, TLC

CONSTANT v1

OnlyV1 == {v1}
AllPassive == [v \in OnlyV1 |-> "PASSIVE"]
DayZero == [v \in OnlyV1 |-> 0]
OneDay == [v \in OnlyV1 |-> 1]
ForV1 == [k \in Key |-> v1]

(* The state the publish of v1 on day 0 leaves behind. *)
V1RolledOut ==
  /\ now = 0
  /\ versions = [v \in Version |-> [status |-> "PUBLISHED", publishedAt |-> 0]]
  /\ states = [c \in Customer |-> [v \in Version |->
       IF c \in Holder
       THEN [PendingRow(rolloutDeadlineFor(v)) EXCEPT !.notificationDue = TRUE]
       ELSE NoRow]]
  /\ acceptances = {} /\ objections = {} /\ faults = 0 /\ orphans = {}
  /\ ApiInit /\ SweepInit /\ PublishInit /\ CallInit

RetriedSpec == V1RolledOut /\ [][RequestNext]_requestVars /\ RequestFairness
=============================================================================
