---------------------------- MODULE MCOnboarding ----------------------------
(***************************************************************************)
(* Small instances of Onboarding: an audience with a version in force and   *)
(* its successor in draft, one with an upcoming version, and a customer who *)
(* is there already.                                                        *)
(***************************************************************************)
EXTENDS Onboarding, TLC

CONSTANTS c1, c2, A, B, a1, a2, b1

audienceOf == a1 :> A @@ a2 :> A @@ b1 :> B
(* a2 takes effect at once, b1 is scheduled. *)
validFrom == a1 :> 0 @@ a2 :> 1 @@ b1 :> 2

(* a1 has been published and rolled out to c1, who may have been deactivated
   since; b1 may have been. *)
Started ==
  /\ \E r \in Ref, deleted \in BOOLEAN :
       customers = (c1 :> [ref |-> r, roles |-> {A}, deleted |-> deleted]
                      @@ [c \in Customer \ {c1} |-> NoCustomer])
  /\ \E published \in {{a1}, {a1, b1}} :
       versions = [v \in Version |->
         [status |-> IF v \in published THEN "PUBLISHED" ELSE "DRAFT", publishedAt |-> 0]]
  /\ rows = [c \in Customer |-> [v \in Version |->
       IF c = c1 /\ v = a1 THEN "PENDING_NOTIFICATION" ELSE "none"]]
  /\ due = {<<c1, a1>>} /\ mailed = {} /\ acceptances = {}
  /\ ops = [p \in Operator |-> NoOp]
  /\ publication = NoPublication
  /\ started = 0 /\ faults = 0
  /\ excused = {} /\ raced = {} /\ halfDone = {}

MCOnboardingSpec == Started /\ [][OnboardingNext]_onboardingVars

Operators == Permutations(Operator)
=============================================================================
