-------------------------------- MODULE Gate --------------------------------
(***************************************************************************)
(* The answers of Readings over the tables of Flip, for one document.       *)
(***************************************************************************)
EXTENDS Flip, Readings

CONSTANT Audience   \* the audience of the document

entriesOf(vs) == {[audience |-> Audience, version |-> v] : v \in vs}

(* loadCurrentVersions, findUpcomingPublishedList *)
currentVersions == entriesOf({v \in Version : isCurrent(v)})
upcomingVersions == entriesOf({v \in Version : Published(v) /\ ValidFrom[v] > now})

customerOf(c) == [roles |-> IF c \in Holder THEN {Audience} ELSE {}, deleted |-> FALSE]

compliant(c) == computeCompliance(customerOf(c), currentVersions, states[c], None)
asked(c) == pendingAgreements(customerOf(c), currentVersions, upcomingVersions, states[c], None)
shown(c) == details(customerOf(c), currentVersions, states[c], None)

statsOf(v) == computeStats([c \in Customer |-> states[c][v]],
                           {a \in acceptances : a.version = v}, {})

-----------------------------------------------------------------------------
(* Whoever is kept out is asked for what would let them in: a blocking item is
   among the pending ones, and a consent to it would be taken. *)
BlockedCanAnswer ==
  \A c \in Customer :
    ~compliant(c) =>
      \E item \in asked(c) :
        /\ item.blocking
        /\ acceptable(states[c][item.version]) /\ assertVersionCurrent(item.version)

(* The clock puts a newer version in force: c's row of v and v itself stay as
   they are until the hourly job takes them up, and the gate no longer looks. *)
overtaken(c, v) ==
  /\ states'[c][v] = states[c][v] /\ versions' = versions
  /\ \E w \in Version : Published(w) /\ now < ValidFrom[w] /\ ValidFrom[w] <= now'

(* A closed gate is opened by nothing but an answer to the version in force, by
   silence over a deadline that has passed, or by the clock putting a newer
   version in force before the job has brought the block to it: by no access,
   no flip and no carry. *)
GateOpensForCause ==
  [][\A c \in Customer :
       ~compliant(c) /\ compliant(c)' =>
         \E v \in Version :
           /\ isCurrent(v) /\ isBlocking(states[c][v])
           /\ endsAnswered(c, v) \/ endsSilently(c, v) \/ overtaken(c, v)]_flipVars

(* The admin list is of one mind: who is shown as compliant is found by the
   filter for compliant customers, whatever a flip has done to their rows. *)
ChipMatchesFilter ==
  \A c \in Customer :
    (summarizeCompliance(shown(c)) = "compliant") <=> matchesCompliance("compliant", shown(c))

(* The dashboard's breakdown by method accounts for every accepted customer
   but those whose evidence is on its way or was lost to a crash. *)
BreakdownSums ==
  \A v \in Version :
    LET unproven == {c \in Customer :
          /\ states[c][v].state = "ACCEPTED" /\ ~accepted(c, v)
          /\ evidencePending(c, v) \/ <<c, v>> \in orphans}
    IN statsOf(v).accepted = statsOf(v).evidenced + Cardinality(unproven)
=============================================================================
