------------------------------ MODULE Requests ------------------------------
(***************************************************************************)
(* Consents and objections under an Idempotency-Key, as                     *)
(* AcceptanceService.accept and ObjectionService.object wrap the processing *)
(* of ConsentApi: a consent reserves its key, stores its response under it  *)
(* or releases it, and a second request with the key polls for the          *)
(* response; an objection only looks its key up and stores its response.    *)
(* calls[p] is what handler p is doing about its key.                       *)
(***************************************************************************)
EXTENDS Lifecycle

CONSTANTS
  Key,          \* the Idempotency-Keys clients choose
  KeyVersion,   \* KeyVersion[k]: the version key k is used for, one attempt a key
  MaxPolls      \* how often a waiting request looks for the response

ASSUME RequestAssumption ==
  /\ KeyVersion \in [Key -> Version]
  /\ MaxPolls \in Nat \ {0}

VARIABLES
  calls,
  keys,         \* the idempotency table
  callFaults,   \* calls whose wrapper died or had a statement fail
  effects,      \* history: how many records were written under a key
  replies       \* history: the keys for which a 201 was sent

Kind == {"acceptance", "objection"}
IdemKey == Kind \X Customer \X Key

NoCall == [step |-> "none"]
Call == [step : {"reserve", "begin", "process", "put", "release", "wait"},
         idem : IdemKey, polls : Nat]

callVars == <<calls, keys, callFaults, effects, replies>>
requestVars == <<vars, callVars>>

CallTypeOK ==
  /\ calls \in [Handler -> Call \cup {NoCall}]
  /\ keys \in [IdemKey -> {"unused", "pending", "answered"}]
  /\ callFaults \in Nat
  /\ effects \in [IdemKey -> Nat]
  /\ replies \subseteq IdemKey

CallInit ==
  /\ calls = [p \in Handler |-> NoCall]
  /\ keys = [i \in IdemKey |-> "unused"]
  /\ callFaults = 0
  /\ effects = [i \in IdemKey |-> 0]
  /\ replies = {}

calling(p) == calls[p] # NoCall
inCall(p, step) == calls[p].step = step
idemOf(p) == calls[p].idem
consents(p) == calls[p].idem[1] = "acceptance"
customerOf(p) == calls[p].idem[2]
versionOf(p) == KeyVersion[calls[p].idem[3]]

hangUp(p) == calls' = [calls EXCEPT ![p] = NoCall]
proceed(p, step) == calls' = [calls EXCEPT ![p].step = step]
reply(i) == replies' = replies \cup {i}

(* The error path: a consent gives its reservation back before it is refused. *)
refuse(p) == IF consents(p) THEN proceed(p, "release") ELSE hangUp(p)

-----------------------------------------------------------------------------
(* A key that has its response is answered at once. *)
CallArrives(p, i) ==
  /\ ~calling(p) /\ idle(p)
  /\ IF keys[i] = "answered"
     THEN reply(i) /\ UNCHANGED calls
     ELSE /\ calls' = [calls EXCEPT ![p] =
               [step |-> IF i[1] = "acceptance" THEN "reserve" ELSE "begin",
                idem |-> i, polls |-> 0]]
          /\ UNCHANGED replies
  /\ UNCHANGED <<vars, keys, callFaults, effects>>

(* A slip: the key taken whether or not somebody has it. *)
CallReserveAnyway(p) ==
  /\ inCall(p, "reserve")
  /\ keys' = [keys EXCEPT ![idemOf(p)] = "pending"]
  /\ proceed(p, "begin")
  /\ UNCHANGED <<vars, callFaults, effects, replies>>

(* reserve: one insert, refused for a key reserved or answered. *)
CallReserve(p) ==
  /\ inCall(p, "reserve")
  /\ IF keys[idemOf(p)] = "unused"
     THEN /\ keys' = [keys EXCEPT ![idemOf(p)] = "pending"]
          /\ proceed(p, "begin")
     ELSE proceed(p, "wait") /\ UNCHANGED keys
  /\ UNCHANGED <<vars, callFaults, effects, replies>>

CallBegin(p) ==
  /\ inCall(p, "begin")
  /\ IF consents(p) THEN AcceptStart(p, customerOf(p), versionOf(p))
                    ELSE ObjectRead(p, customerOf(p), versionOf(p))
  /\ proceed(p, "process")
  /\ UNCHANGED <<sweeps, publications, keys, callFaults, effects, replies>>

(* The checks before the first write refuse the call. *)
admissible(p) ==
  IF consents(p) THEN assertVersionCurrent(versionOf(p)) /\ customerOf(p) \in Holder
  ELSE /\ exists(customerOf(p), versionOf(p))
       /\ objectable(states[customerOf(p)][versionOf(p)], versionOf(p), now)

(* A consent to an ACTIVE version may come without its text or with another. *)
wrongText(p) == consents(p) /\ AcceptanceMode[versionOf(p)] = "ACTIVE"

CallRefused(p) ==
  /\ inCall(p, "begin")
  /\ ~admissible(p) \/ wrongText(p)
  /\ refuse(p)
  /\ UNCHANGED <<vars, keys, callFaults, effects, replies>>

(* What the next step of the processing does to the record. *)
records(p) ==
  \/ at(p, "appendAcceptance") /\ ~accepted(requests[p].customer, requests[p].version)
  \/ at(p, "appendObjection")

CallProcess(p) ==
  /\ inCall(p, "process")
  /\ ApiProgress(p)
  /\ effects' = IF records(p) THEN [effects EXCEPT ![idemOf(p)] = @ + 1] ELSE effects
  /\ IF requests'[p] # Idle THEN UNCHANGED calls
     ELSE IF records(p) THEN proceed(p, "put") ELSE refuse(p)
  /\ UNCHANGED <<sweeps, publications, keys, callFaults, replies>>

CallPut(p) ==
  /\ inCall(p, "put")
  /\ keys' = [keys EXCEPT ![idemOf(p)] = "answered"]
  /\ reply(idemOf(p))
  /\ hangUp(p)
  /\ UNCHANGED <<vars, callFaults, effects>>

(* release: deletes an open reservation, never a response. *)
CallRelease(p) ==
  /\ inCall(p, "release")
  /\ keys' = [keys EXCEPT ![idemOf(p)] = IF @ = "pending" THEN "unused" ELSE @]
  /\ hangUp(p)
  /\ UNCHANGED <<vars, callFaults, effects, replies>>

(* A slip: the number of polls not counted. *)
CallPollForever(p) ==
  /\ inCall(p, "wait")
  /\ IF keys[idemOf(p)] = "answered" THEN reply(idemOf(p)) /\ hangUp(p)
     ELSE UNCHANGED <<calls, replies>>
  /\ UNCHANGED <<vars, keys, callFaults, effects>>

(* awaitReplay: after MaxPolls looks in vain the call is refused. *)
CallPoll(p) ==
  /\ inCall(p, "wait")
  /\ IF keys[idemOf(p)] = "answered" THEN reply(idemOf(p)) /\ hangUp(p)
     ELSE /\ IF calls[p].polls + 1 < MaxPolls
             THEN calls' = [calls EXCEPT ![p].polls = @ + 1]
             ELSE hangUp(p)
          /\ UNCHANGED replies
  /\ UNCHANGED <<vars, keys, callFaults, effects>>

-----------------------------------------------------------------------------
(* A statement of the processing fails: the catch releases the reservation. *)
ProcessFails(p) ==
  /\ inCall(p, "process")
  /\ HandlerDies(p)
  /\ refuse(p)
  /\ UNCHANGED <<sweeps, publications, keys, callFaults, effects, replies>>

(* The process dies in the middle of it: nobody releases anything. *)
ProcessDies(p) ==
  /\ inCall(p, "process")
  /\ HandlerDies(p)
  /\ hangUp(p)
  /\ UNCHANGED <<sweeps, publications, keys, callFaults, effects, replies>>

CallFault == callFaults < MaxFaults /\ callFaults' = callFaults + 1

(* What follows the record, the put included, fails: the catch releases the
   key of a consent that has been recorded. *)
PutFails(p) ==
  /\ inCall(p, "put")
  /\ CallFault
  /\ refuse(p)
  /\ UNCHANGED <<vars, keys, effects, replies>>

(* The wrapper dies, or the statement that fails is outside of the try. *)
CallDies(p) ==
  /\ calling(p) /\ ~inCall(p, "process")
  /\ CallFault
  /\ hangUp(p)
  /\ UNCHANGED <<vars, keys, effects, replies>>

-----------------------------------------------------------------------------
(* Accesses and the recordings of admins carry no key. *)
Unkeyed(p) ==
  /\ ~calling(p)
  /\ \/ \E c \in Customer, v \in Version :
          NotifyRead(p, c, v) \/ \E m \in GivenMethod : RecordRead(p, c, v, m)
     \/ ApiProgress(p)
     \/ HandlerDies(p)
  /\ UNCHANGED <<sweeps, publications, callVars>>

CallProgress(p) ==
  \/ CallReserve(p) \/ CallBegin(p) \/ CallRefused(p) \/ CallProcess(p)
  \/ CallPut(p) \/ CallRelease(p) \/ CallPoll(p)

CallStep(p) ==
  \/ \E i \in IdemKey : CallArrives(p, i)
  \/ CallProgress(p)
  \/ ProcessFails(p) \/ ProcessDies(p) \/ PutFails(p) \/ CallDies(p)

OtherSteps ==
  /\ Clock \/ (\E s \in Sweeper : Sweep(s)) \/ (\E a \in Publisher : Publish(a))
  /\ UNCHANGED callVars

RequestNext == OtherSteps \/ \E p \in Handler : Unkeyed(p) \/ CallStep(p)

RequestInit == Init /\ CallInit
RequestSpec == RequestInit /\ [][RequestNext]_requestVars

RequestTypeOK == TypeOK /\ CallTypeOK

-----------------------------------------------------------------------------
(* Safety *)

(* What a client is promised for a key: one effect at the most, however often
   and however concurrently the request is retried, and a 201 for no other. *)
Promise == INSTANCE OneEffect
  WITH Request <- IdemKey, done <- effects, confirmed <- replies
KeepsPromise == Promise!PromiseSpec

(* Who has reserved the key it is working on. *)
holds(p) == /\ calls[p].step \in {"begin", "process", "put", "release"}
            /\ consents(p)

(* A reservation has one owner: no two requests process the same key. *)
ReservationExclusive ==
  \A p, q \in Handler : holds(p) /\ holds(q) /\ idemOf(p) = idemOf(q) => p = q

(* A consent is refused for no effect of its own: without a failure a retry
   never learns that the version is ALREADY_ACCEPTED by its own key. *)
RefusedWithoutEffect ==
  \A p \in Handler :
    inCall(p, "release") => effects[idemOf(p)] = 0 \/ callFaults > 0

-----------------------------------------------------------------------------
(* Why those hold: the inductive invariant, on top of IInv. *)

evident(i) == IF i[1] = "acceptance" THEN accepted(i[2], KeyVersion[i[3]])
                                     ELSE objected(i[2], KeyVersion[i[3]])

ReservationPending == \A p \in Handler : holds(p) => keys[idemOf(p)] = "pending"

(* An effect is on record, and a key is answered or confirmed for an effect. *)
EffectEvident ==
  \A i \in IdemKey :
    /\ effects[i] \in {0, 1}
    /\ effects[i] = 1 => evident(i)
    /\ keys[i] = "answered" \/ i \in replies => effects[i] = 1

(* The processing under a key is for the customer, the version and the kind of
   that key. *)
CallMatches ==
  \A p \in Handler :
    /\ inCall(p, "put") => effects[idemOf(p)] = 1
    /\ inCall(p, "process") =>
         /\ requests[p] # Idle
         /\ requests[p].customer = customerOf(p)
         /\ requests[p].version = versionOf(p)
         /\ requests[p].step \in
              IF consents(p) THEN {"acceptRead", "acceptWrite", "appendAcceptance"}
                             ELSE {"objectWrite", "appendObjection"}

(* Of the objections racing for a row, one alone is going to be recorded. *)
OneObjectionWins ==
  \A p \in Handler : at(p, "appendObjection") =>
    /\ ~objected(requests[p].customer, requests[p].version)
    /\ \A q \in Handler :
         /\ at(q, "appendObjection")
         /\ requests[q].customer = requests[p].customer
         /\ requests[q].version = requests[p].version
         => p = q

(* Until a call fails, what a key has brought about is its response already or
   is about to become it. *)
EffectFollowedUp ==
  callFaults = 0 =>
    \A i \in IdemKey : effects[i] = 1 =>
      \/ keys[i] = "answered"
      \/ \E p \in Handler : inCall(p, "put") /\ idemOf(p) = i

(* An objection reserves nothing it would have to give back. *)
OnlyConsentsRelease == \A p \in Handler : inCall(p, "release") => consents(p)

KeyInv ==
  /\ CallTypeOK
  /\ ReservationExclusive
  /\ ReservationPending
  /\ EffectEvident
  /\ CallMatches
  /\ OneObjectionWins

-----------------------------------------------------------------------------
(* Liveness: each await of a call comes back. *)
RequestFairness == \A p \in Handler : WF_requestVars(CallProgress(p))

(* No request waits for ever, not even on a reservation whose owner died. *)
CallEnds == \A p \in Handler : calling(p) ~> ~calling(p)
=============================================================================
