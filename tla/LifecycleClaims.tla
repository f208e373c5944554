-------------------------- MODULE LifecycleClaims --------------------------
(***************************************************************************)
(* What the repository's comments and documents say of the lifecycle and    *)
(* the code does not keep: each is the one property of a run that TLC ends  *)
(* with a counterexample.                                                   *)
(***************************************************************************)
EXTENDS MCLifecycle

CONSTANT v3

ThreeVersions == {v1, v2, v3}
AllActive == [v \in ThreeVersions |-> "ACTIVE"]
AllAtOnce == [v \in ThreeVersions |-> 0]
Deadlines == [v \in ThreeVersions |-> IF v = v1 THEN 1 ELSE 2]

(* "ACCEPTED is not an open state and is never superseded (the evidence record
   remains)", state-machine.ts:158.  Broken by PublishSupersede: the rows read
   by findOpenByVersion are written back whole, so a consent that lands between
   the read and the save of its row is overwritten. *)
AcceptedNeverSuperseded ==
  [][\A c \in Customer, v \in Version :
       states[c][v].state = "ACCEPTED" => states'[c][v].state = "ACCEPTED"]_vars

(* "rollout to all customers with a matching role", API.md:232.  Broken by
   PublishRefused: a manual acceptance recorded on the draft leaves a row that
   the rollout runs into, and the customers after it get none. *)
RolloutReachesEveryHolder ==
  \A v \in Version :
    Published(v) /\ (\A a \in Publisher : ~publishing(a)) =>
      \A c \in Holder : exists(c, v)

(* "a document update does not lift existing blocks", state-machine.ts:177.
   Broken by the second update after a block: supersede reports wasBlocking for
   EXPIRED_BLOCKING alone, not for the row the block was carried over to. *)
BlockingRowCarriesOver ==
  [][\A a \in {b \in Publisher : publishing(b)} : \A d \in publications[a].open :
       PublishSupersede(a, d) /\ isBlocking(d.row) =>
         d.customer \in publications'[a].blocking]_vars

(* "the block remains until consent is given", state-machine.spec.ts:344.
   Broken by a PASSIVE successor: opening the page starts a window that is over
   at once, and the next sweep books the blocked customer's silence as consent. *)
SilenceNeverLiftsBlock ==
  [][\A s \in Sweeper : \A d \in sweeps[s].due :
       SweepTacit(s, d) => ~isBlocking(states[d.customer][d.version])]_vars
=============================================================================
