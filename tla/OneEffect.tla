----------------------------- MODULE OneEffect -----------------------------
(***************************************************************************)
(* What an idempotency key promises: the request it names takes effect once *)
(* at the most, however often it is sent, and is confirmed only after it    *)
(* has.  done[r] counts the effects of request r.                           *)
(***************************************************************************)
CONSTANT Request

VARIABLES done, confirmed

promise == <<done, confirmed>>

PromiseInit == done = [r \in Request |-> 0] /\ confirmed = {}

Do(r) == done[r] = 0 /\ done' = [done EXCEPT ![r] = 1] /\ UNCHANGED confirmed
Confirm(r) == done[r] = 1 /\ confirmed' = confirmed \cup {r} /\ UNCHANGED done

PromiseNext == \E r \in Request : Do(r) \/ Confirm(r)

PromiseSpec == PromiseInit /\ [][PromiseNext]_promise
=============================================================================
