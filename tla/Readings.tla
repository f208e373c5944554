------------------------------ MODULE Readings ------------------------------
(***************************************************************************)
(* What the program answers from its tables: whether a customer may go on   *)
(* (computeCompliance), what they are asked (PendingAgreementsService), how *)
(* the admin list shows them (CustomerAdminService.list) and what the       *)
(* dashboard counts.  Each answer reads the tables and writes nothing.      *)
(* A customer is [roles, deleted]; rows[v] is their row of version v, NoRow *)
(* where there is none; an entry is a document's audience with a version.   *)
(***************************************************************************)
EXTENDS StateMachine, FiniteSets

relevantAudiences(customer, audience) ==
  IF audience = None THEN customer.roles ELSE customer.roles \cap {audience}

(* The rows computeCompliance makes its details from. *)
details(customer, entries, rows, audience) ==
  IF customer.deleted THEN {}
  ELSE {rows[e.version] :
          e \in {f \in entries : f.audience \in relevantAudiences(customer, audience)}}

computeCompliance(customer, entries, rows, audience) ==
  \A d \in details(customer, entries, rows, audience) : ~isBlocking(d)

-----------------------------------------------------------------------------
(* A slip: only what has been opened is asked again. *)
OPENED_STATES == {"NOTIFIED", "EXPIRED_BLOCKING"}

PENDING_OPEN_STATES == {"PENDING_NOTIFICATION", "NOTIFIED", "EXPIRED_BLOCKING"}

open(r) == r.state \in PENDING_OPEN_STATES

(* getPendingAgreements: a soft-deleted customer is asked like any other. *)
pendingAgreements(customer, current, upcoming, rows, audience) ==
  {[version |-> e.version, upcoming |-> e \in upcoming,
    blocking |-> isBlocking(rows[e.version]),
    canObject |-> AcceptanceMode[e.version] = "PASSIVE" /\ e \notin upcoming] :
     e \in {f \in current \cup upcoming :
              /\ f.audience \in relevantAudiences(customer, audience)
              /\ open(rows[f.version])}}

-----------------------------------------------------------------------------
(* A slip: who has opened the page counts as done. *)
UNOPENED == {"PENDING_NOTIFICATION"}

OUTSTANDING_PENDING == {"PENDING_NOTIFICATION", "NOTIFIED"}

inSome(ds, states) == \E d \in ds : d.state \in states

(* The rows of the list that pass the compliance filter. *)
matchesCompliance(filter, ds) ==
  LET gateOpen == \A d \in ds : ~isBlocking(d)
  IN \/ filter = "non_compliant" /\ ~gateOpen
     \/ filter = "blocked" /\ inSome(ds, {"EXPIRED_BLOCKING"})
     \/ filter = "objected" /\ inSome(ds, {"OBJECTED"})
     \/ filter = "pending" /\ inSome(ds, OUTSTANDING_PENDING)
     \/ /\ filter = "compliant"
        /\ gateOpen /\ \A d \in ds : d = NoRow \/ d.state = "ACCEPTED"

(* The chip of a row of the list: the worst outstanding status wins. *)
summarizeCompliance(ds) ==
  CASE \E d \in ds : isBlocking(d) -> "blocked"
    [] (\A d \in ds : ~isBlocking(d)) /\ inSome(ds, {"OBJECTED"}) -> "objected"
    [] (\A d \in ds : ~isBlocking(d)) /\ ~inSome(ds, {"OBJECTED"})
         /\ inSome(ds, OUTSTANDING_PENDING) -> "pending"
    [] OTHER -> "compliant"

-----------------------------------------------------------------------------
(* computeStats: states[c] is the row of c for the version counted. *)
relevantStates(states, deleted) ==
  {c \in DOMAIN states \ deleted : states[c].state \notin {NoRow.state, "SUPERSEDED"}}

(* A slip: the evidence of customers since superseded is counted too. *)
computeStatsOfAll(states, effective, deleted) ==
  [totalCustomers |-> Cardinality(relevantStates(states, deleted)),
   accepted |-> Cardinality({c \in relevantStates(states, deleted) :
                               states[c].state = "ACCEPTED"}),
   evidenced |-> Cardinality(effective)]

computeStats(states, effective, deleted) ==
  LET among(set) == {c \in relevantStates(states, deleted) : states[c].state \in set}
  IN [totalCustomers |-> Cardinality(relevantStates(states, deleted)),
      accepted |-> Cardinality(among({"ACCEPTED"})),
      evidenced |-> Cardinality({a \in effective : a.customer \in among({"ACCEPTED"})}),
      pending |-> Cardinality(among(OUTSTANDING_PENDING)),
      blocked |-> Cardinality(among({"EXPIRED_BLOCKING"})),
      objected |-> Cardinality(among({"OBJECTED"}))]
=============================================================================
