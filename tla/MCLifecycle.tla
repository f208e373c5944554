---------------------------- MODULE MCLifecycle ----------------------------
(***************************************************************************)
(* Small instances of Lifecycle for TLC: two versions of one document.      *)
(***************************************************************************)
EXTENDS Lifecycle, TLC

CONSTANTS v1, v2

MCVersion == {v1, v2}

(* v1 lets silence consent after a one-day window, v2 needs a consent by the
   end of day 1, the day it takes effect. *)
PassiveFirst == (v1 :> "PASSIVE") @@ (v2 :> "ACTIVE")
PassiveFirstDeadline == (v1 :> 0) @@ (v2 :> 1)

(* v1 needs a consent by day 2, v2 lets silence consent. *)
ActiveFirst == (v1 :> "ACTIVE") @@ (v2 :> "PASSIVE")
ActiveFirstDeadline == (v1 :> 2) @@ (v2 :> 0)

MCValidFrom == (v1 :> 0) @@ (v2 :> 1)
MCPeriod == (v1 :> 1) @@ (v2 :> 1)

Handlers == Permutations(Handler)

(* The state a first publish of v1 on day 0 leaves behind. *)
RolledOut ==
  /\ now = 0
  /\ versions = [v \in Version |->
       IF v = v1 THEN [status |-> "PUBLISHED", publishedAt |-> 0]
       ELSE [status |-> "DRAFT", publishedAt |-> None]]
  /\ states = [c \in Customer |-> [v \in Version |->
       IF v = v1 /\ c \in Holder
       THEN [PendingRow(rolloutDeadlineFor(v1)) EXCEPT !.notificationDue = TRUE]
       ELSE NoRow]]
  /\ acceptances = {} /\ objections = {} /\ faults = 0 /\ orphans = {}
  /\ ApiInit /\ SweepInit /\ PublishInit

RolledOutSpec == RolledOut /\ [][Next]_vars

RolledOutFair == RolledOutSpec /\ Fairness
=============================================================================
