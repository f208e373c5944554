----------------------------- MODULE Flip_proofs -----------------------------
(***************************************************************************)
(* Proofs about Flip and Gate: the flip from one version to a scheduled one *)
(* beside requests, publishes and the clock, for any customers, versions,   *)
(* handlers, publishers and overlapping runs of the job.                    *)
(***************************************************************************)
EXTENDS Gate, Lifecycle_proofs, FiniteSetTheorems

-----------------------------------------------------------------------------
(* The activation half of the job *)

LEMMA ActivationInFlight ==
  ASSUME ActivateTypeOK, NEW s \in Sweeper, activating(s)
  PROVE  activations[s] \in Activation
BY DEF ActivateTypeOK, activating

LEMMA EndActivationType ==
  ASSUME ActivateTypeOK, CarryHoldsOpenRow, NEW s \in Sweeper, endActivation(s)
  PROVE  ActivateTypeOK' /\ CarryHoldsOpenRow'
BY DEF ActivateTypeOK, CarryHoldsOpenRow, endActivation, NoActivation, atStep, carries

(* What a row read before the write of a block becomes. *)
LEMMA CarriedType ==
  ASSUME ActivateTypeOK, NEW s \in Sweeper, activating(s)
  PROVE  carried(s) \in CustomerVersionState
<1> DEFINE b == activations[s]
<1>1. b.current \in Version /\ b.successor \in MaybeRow
  BY ActivationInFlight DEF Activation, MaybeRow
<1>2. CASE b.successor = NoRow
  <2> DEFINE fresh == PendingRow(rolloutDeadlineFor(b.current))
  <2>1. fresh \in CustomerVersionState
    BY <1>1, RolloutDeadlineType, PendingRowType
  <2>2. carried(s) = [fresh EXCEPT !.carryOverBlocking = TRUE]
    BY <1>2 DEF carried
  <2> HIDE DEF fresh
  <2>3. QED
    BY <2>1, <2>2 DEF CustomerVersionState
<1>3. CASE b.successor # NoRow
  <2>1. b.successor \in CustomerVersionState
    BY <1>1, <1>3, RowState
  <2>2. QED
    BY <1>3, <2>1 DEF carried, CustomerVersionState
<1>4. QED
  BY <1>2, <1>3

(* A step of the job's first half supersedes a row as read, or carries a block
   over to the row of the version in force. *)
ActivateMove(s, c, v) ==
  LET r == states[c][v]
      t == states'[c][v]
      b == activations[s]
  IN \/ t = r
     \/ \E d \in b.open : d.customer = c /\ d.version = v /\ t = supersede(d.row)
     \/ /\ atStep(s, "carryWrite") /\ t = carried(s)
        /\ b.successor = NoRow => r = NoRow

LEMMA ActivateMoves ==
  ASSUME StoreTypeOK, ActivateTypeOK, NEW s \in Sweeper, activating(s), ActivateProgress(s),
         NEW c \in Customer, NEW v \in Version
  PROVE  ActivateMove(s, c, v)
<1> USE DEF storeVars, nothingElse
<1> DEFINE b == activations[s]
<1>0. states \in States /\ b \in Activation
  BY StoreTypeParts, ActivationInFlight
<1>1. ASSUME UNCHANGED states PROVE ActivateMove(s, c, v)
  BY <1>1 DEF ActivateMove
<1>2. ASSUME NEW d \in b.open, ActivateSupersede(s, d) PROVE ActivateMove(s, c, v)
  <2>1. d.customer \in Customer /\ d.version \in Version
    BY <1>0 DEF Activation, Snapshot
  <2>2. states'[c][v] = IF c = d.customer /\ v = d.version
                        THEN supersede(d.row) ELSE states[c][v]
    BY <1>0, <1>2, <2>1, SavedRow DEF ActivateSupersede
  <2>3. QED
    BY <2>2 DEF ActivateMove
<1>3. CASE CarryWrite(s)
  <2>1. PICK e \in b.carry :
          IF b.successor = NoRow /\ exists(e, b.current)
          THEN UNCHANGED states
          ELSE save(e, b.current, carried(s))
    BY <1>3 DEF CarryWrite
  <2>2. e \in Customer /\ b.current \in Version
    BY <1>0 DEF Activation
  <2>3. CASE b.successor = NoRow /\ exists(e, b.current)
    BY <1>1, <2>1, <2>3
  <2>4. CASE ~(b.successor = NoRow /\ exists(e, b.current))
    <3>1. states'[c][v] = IF c = e /\ v = b.current THEN carried(s) ELSE states[c][v]
      <4>1. save(e, b.current, carried(s))
        BY <2>1, <2>4
      <4> HIDE DEF b
      <4>2. QED
        BY <1>0, <2>2, <4>1, SavedRow
    <3>2. QED
      BY <1>3, <2>4, <3>1 DEF CarryWrite, exists, ActivateMove
  <2>5. QED
    BY <2>3, <2>4
<1>4. CASE \/ ActivateSiblings(s) \/ ActivateFindOpen(s) \/ ActivateReturn(s) \/ CarryRead(s)
           \/ \E w \in b.predecessors : ActivateRetire(s, w)
  BY <1>1, <1>4
  DEF ActivateSiblings, ActivateFindOpen, ActivateReturn, CarryRead, ActivateRetire
<1>5. QED
  BY <1>2, <1>3, <1>4 DEF ActivateProgress

(* One step of a run's own state. *)
LEMMA ActivationStep ==
  ASSUME ActivateTypeOK, CarryHoldsOpenRow, NEW s \in Sweeper, NEW b,
         activations' = [activations EXCEPT ![s] = b], b \in Activation,
         b.step = "carryWrite" => carries(b.successor)
  PROVE  ActivateTypeOK' /\ CarryHoldsOpenRow'
BY DEF ActivateTypeOK, CarryHoldsOpenRow, atStep

LEMMA ActivateKeepsType ==
  ASSUME StoreTypeOK, ActivateTypeOK, CarryHoldsOpenRow, NEW s \in Sweeper,
         activating(s), ActivateProgress(s)
  PROVE  StoreTypeOK' /\ ActivateTypeOK' /\ CarryHoldsOpenRow'
<1> USE DEF storeVars, nothingElse
<1> DEFINE b == activations[s]
<1>0. /\ states \in States /\ now \in Nat
      /\ versions \in [Version -> [status : VersionStatus, publishedAt : MaybeTime]]
      /\ b \in Activation /\ DOMAIN activations = Sweeper
  BY StoreTypeParts, ActivationInFlight DEF ActivateTypeOK
<1>1. CASE ActivateSiblings(s)
  <2>1. StoreTypeOK'
    BY <1>1 DEF ActivateSiblings, StoreTypeOK
  <2>2. CASE supplanted(s) = {}
    BY <1>1, <2>1, <2>2, EndActivationType DEF ActivateSiblings
  <2>3. CASE supplanted(s) # {}
    <3>1. {versionRow(w) : w \in supplanted(s)} \subseteq VersionRow
      BY <1>0 DEF supplanted, versionRow, VersionRow
    <3>2. activations' = [activations EXCEPT ![s] =
            [b EXCEPT !.step = "predecessors",
                      !.predecessors = {versionRow(w) : w \in supplanted(s)}]]
      BY <1>0, <1>1, <2>3 DEF ActivateSiblings
    <3>3. QED
      BY <1>0, <2>1, <3>1, <3>2, ActivationStep DEF Activation
  <2>4. QED
    BY <2>2, <2>3
<1>2. ASSUME NEW w \in b.predecessors, ActivateRetire(s, w)
      PROVE  StoreTypeOK' /\ ActivateTypeOK' /\ CarryHoldsOpenRow'
  <2>1. w \in VersionRow /\ w.version \in Version /\ w.publishedAt \in MaybeTime
    BY <1>0 DEF Activation, VersionRow
  <2>2. versions' \in [Version -> [status : VersionStatus, publishedAt : MaybeTime]]
    BY <1>0, <1>2, <2>1 DEF ActivateRetire, saveRetired, VersionStatus
  <2>3. StoreTypeOK'
    BY <1>2, <2>2 DEF ActivateRetire, StoreTypeOK
  <2>4. activations' = [activations EXCEPT ![s] =
          [b EXCEPT !.draining = {w.version}, !.predecessors = b.predecessors \ {w}]]
    BY <1>0, <1>2 DEF ActivateRetire
  <2>5. b.step = "predecessors"
    BY <1>2 DEF ActivateRetire, flushed, atStep
  <2>6. QED
    BY <1>0, <2>1, <2>3, <2>4, <2>5, ActivationStep DEF Activation
<1>3. CASE ActivateFindOpen(s)
  <2>1. UNION {findOpenByVersion(w) : w \in b.draining} \subseteq Snapshot
    BY <1>0, OpenType DEF Activation
  <2>2. activations' = [activations EXCEPT ![s] =
          [b EXCEPT !.draining = {}, !.open = UNION {findOpenByVersion(w) : w \in b.draining}]]
    BY <1>0, <1>3 DEF ActivateFindOpen
  <2>3. b.step = "predecessors" /\ StoreTypeOK'
    BY <1>3 DEF ActivateFindOpen, atStep, StoreTypeOK
  <2>4. QED
    BY <1>0, <2>1, <2>2, <2>3, ActivationStep DEF Activation
<1>4. ASSUME NEW d \in b.open, ActivateSupersede(s, d)
      PROVE  StoreTypeOK' /\ ActivateTypeOK' /\ CarryHoldsOpenRow'
  <2>1. d.customer \in Customer /\ d.version \in Version /\ d.row \in CustomerVersionState
    BY <1>0 DEF Activation, Snapshot
  <2>2. supersede(d.row) \in MaybeRow
    BY <2>1, ChangedStateType DEF supersede, CvsState, MaybeRow
  <2>3. StoreTypeOK'
    BY <1>0, <1>4, <2>1, <2>2, SaveType, StoreTypeParts, StoreTypePartsNext DEF ActivateSupersede
  <2>4. activations' = [activations EXCEPT ![s] =
          [b EXCEPT !.open = b.open \ {d},
                    !.step = IF wasBlocking(d.row) THEN "carryRead" ELSE b.step,
                    !.carry = IF wasBlocking(d.row) THEN {d.customer} ELSE b.carry]]
    BY <1>0, <1>4 DEF ActivateSupersede
  <2>5. b.step = "predecessors"
    BY <1>4 DEF ActivateSupersede, atStep
  <2>6. QED
    BY <1>0, <2>1, <2>3, <2>4, <2>5, ActivationStep DEF Activation
<1>5. CASE ActivateReturn(s)
  BY <1>5, EndActivationType DEF ActivateReturn, StoreTypeOK
<1>6. CASE CarryRead(s)
  <2>1. PICK c \in b.carry :
          LET row == states[c][b.current]
          IN activations' = IF carries(row)
               THEN [activations EXCEPT ![s].step = "carryWrite", ![s].successor = row]
               ELSE [activations EXCEPT ![s].step = "predecessors", ![s].carry = {}]
    BY <1>6 DEF CarryRead
  <2>2. StoreTypeOK'
    BY <1>6 DEF CarryRead, StoreTypeOK
  <2> DEFINE row == states[c][b.current]
  <2>3. row \in MaybeRow
    BY <1>0 DEF Activation, States
  <2>4. CASE carries(row)
    <3>1. activations' = [activations EXCEPT ![s] =
            [b EXCEPT !.step = "carryWrite", !.successor = row]]
      BY <1>0, <2>1, <2>4
    <3>2. QED
      BY <1>0, <2>2, <2>3, <2>4, <3>1, ActivationStep DEF Activation, MaybeRow
  <2>5. CASE ~carries(row)
    <3>1. activations' = [activations EXCEPT ![s] =
            [b EXCEPT !.step = "predecessors", !.carry = {}]]
      BY <1>0, <2>1, <2>5
    <3>2. QED
      BY <1>0, <2>2, <3>1, ActivationStep DEF Activation
  <2>6. QED
    BY <2>4, <2>5
<1>7. CASE CarryWrite(s)
  <2>1. PICK c \in b.carry :
          IF b.successor = NoRow /\ exists(c, b.current)
          THEN endActivation(s) /\ UNCHANGED states
          ELSE /\ save(c, b.current, carried(s))
               /\ activations' = [activations EXCEPT ![s].step = "predecessors",
                    ![s].carry = {}, ![s].successor = NoRow]
    BY <1>7 DEF CarryWrite
  <2>2. c \in Customer /\ b.current \in Version /\ carried(s) \in MaybeRow
    BY <1>0, CarriedType DEF Activation, MaybeRow
  <2>3. CASE b.successor = NoRow /\ exists(c, b.current)
    BY <1>7, <2>1, <2>3, EndActivationType DEF CarryWrite, StoreTypeOK
  <2>4. CASE ~(b.successor = NoRow /\ exists(c, b.current))
    <3>1. StoreTypeOK'
      BY <1>0, <1>7, <2>1, <2>2, <2>4, SaveType, StoreTypeParts, StoreTypePartsNext DEF CarryWrite
    <3>2. activations' = [activations EXCEPT ![s] =
            [b EXCEPT !.step = "predecessors", !.carry = {}, !.successor = NoRow]]
      BY <1>0, <2>1, <2>4
    <3>3. QED
      BY <1>0, <3>1, <3>2, ActivationStep DEF Activation
  <2>5. QED
    BY <2>3, <2>4
<1>8. QED
  BY <1>1, <1>2, <1>3, <1>4, <1>5, <1>6, <1>7 DEF ActivateProgress

-----------------------------------------------------------------------------
(* The whole job: either half, its end, or its death. *)

LEMMA JobCases ==
  ASSUME JobTypeOK, NEW s \in Sweeper, Job(s)
  PROVE  /\ JobTypeOK' /\ UNCHANGED outsideJob
         /\ \/ UNCHANGED <<storeVars, sweeps, activations>>
            \/ ActivateCurrent(s)
            \/ activating(s) /\ ActivateProgress(s)
            \/ ActivateFails(s)
            \/ SweepStep(s) /\ UNCHANGED activations
            \/ JobDies(s)
<1> USE DEF JobTypeOK, enter
<1>1. CASE JobStart(s)
  BY <1>1 DEF Job, JobStart
<1>2. CASE JobActivate(s)
  BY <1>2 DEF Job, JobActivate
<1>3. CASE JobDeadlines(s)
  BY <1>3 DEF Job, JobDeadlines, SweepStep, SweepProgress
<1>4. CASE JobSweep(s)
  BY <1>4 DEF Job, JobSweep, SweepStep, SweepProgress
<1>5. CASE JobEnd(s)
  BY <1>5 DEF Job, JobEnd
<1>6. CASE JobActivateFails(s)
  BY <1>6 DEF Job, JobActivateFails
<1>7. CASE JobEntryFails(s)
  BY <1>7 DEF Job, JobEntryFails, SweepStep
<1>8. CASE JobDies(s)
  BY <1>8 DEF Job, JobDies
<1>9. QED
  BY <1>1, <1>2, <1>3, <1>4, <1>5, <1>6, <1>7, <1>8 DEF Job, JobProgress

LEMMA JobDiesType ==
  ASSUME StoreTypeOK, SweepTypeOK, ActivateTypeOK, CarryHoldsOpenRow, NEW s \in Sweeper, JobDies(s)
  PROVE  StoreTypeOK' /\ SweepTypeOK' /\ ActivateTypeOK' /\ CarryHoldsOpenRow'
<1>1. endActivation(s)
  BY DEF JobDies, endActivation
<1>2. StoreTypeOK' /\ SweepTypeOK'
  BY DEF JobDies, Fault, StoreTypeOK, SweepTypeOK
<1>3. QED
  BY <1>1, <1>2, EndActivationType

LEMMA ActivateCurrentType ==
  ASSUME StoreTypeOK, ActivateTypeOK, CarryHoldsOpenRow, NEW s \in Sweeper, ActivateCurrent(s)
  PROVE  ActivateTypeOK' /\ CarryHoldsOpenRow'
<1>1. PICK v \in Version :
        activations' = [activations EXCEPT ![s] =
          [step |-> "siblings", current |-> v, at |-> now, predecessors |-> {},
           draining |-> {}, open |-> {}, carry |-> {}, successor |-> NoRow]]
  BY DEF ActivateCurrent
<1>2. now \in Nat
  BY DEF StoreTypeOK
<1>3. QED
  BY <1>1, <1>2, ActivationStep DEF Activation

(* Types, and what handlers and runs of the job hold of rows. *)
TypedInv == FlipTypeOK /\ HandlersReadRows /\ CarryHoldsOpenRow

LEMMA NextTyped ==
  ASSUME TypedInv, [FlipNext]_flipVars
  PROVE  TypedInv'
<1>0. /\ StoreTypeOK /\ ApiTypeOK /\ SweepTypeOK /\ PublishTypeOK /\ ActivateTypeOK /\ JobTypeOK
      /\ HandlersReadRows /\ CarryHoldsOpenRow
  BY DEF TypedInv, FlipTypeOK, TypeOK
<1>1. SUFFICES /\ StoreTypeOK' /\ ApiTypeOK' /\ SweepTypeOK' /\ PublishTypeOK'
               /\ ActivateTypeOK' /\ JobTypeOK'
               /\ HandlersReadRows' /\ CarryHoldsOpenRow'
  BY DEF TypedInv, FlipTypeOK, TypeOK
<1>2. ASSUME UNCHANGED requests PROVE ApiTypeOK' /\ HandlersReadRows'
  BY <1>0, <1>2 DEF ApiTypeOK, HandlersReadRows, at
<1>3. ASSUME UNCHANGED sweeps PROVE SweepTypeOK'
  BY <1>0, <1>3 DEF SweepTypeOK
<1>4. ASSUME UNCHANGED publications PROVE PublishTypeOK'
  BY <1>0, <1>4 DEF PublishTypeOK
<1>5. ASSUME UNCHANGED activations PROVE ActivateTypeOK' /\ CarryHoldsOpenRow'
  BY <1>0, <1>5 DEF ActivateTypeOK, CarryHoldsOpenRow, atStep
<1>6. ASSUME UNCHANGED jobs PROVE JobTypeOK'
  BY <1>0, <1>6 DEF JobTypeOK
<1>7. ASSUME UNCHANGED storeVars PROVE StoreTypeOK'
  BY <1>0, <1>7 DEF StoreTypeOK, storeVars
<1>8. CASE UNCHANGED flipVars
  BY <1>2, <1>3, <1>4, <1>5, <1>6, <1>7, <1>8 DEF flipVars, vars
<1>9. CASE Clock /\ UNCHANGED <<activations, jobs>>
  <2>1. StoreTypeOK'
    BY <1>0, <1>9 DEF Clock, Tick, StoreTypeOK
  <2>2. QED
    BY <1>2, <1>3, <1>4, <1>5, <1>6, <1>9, <2>1 DEF Clock
<1>10. ASSUME NEW p \in Handler, Api(p), UNCHANGED <<activations, jobs>> PROVE TypedInv'
  <2>1. StoreTypeOK' /\ ApiTypeOK' /\ HandlersReadRows'
    BY <1>0, <1>10, ApiKeepsType, ApiKeepsReads, ReaderHoldsRow DEF Api
  <2>2. QED
    BY <1>3, <1>4, <1>5, <1>6, <1>10, <2>1 DEF Api, TypedInv, FlipTypeOK, TypeOK
<1>11. ASSUME NEW a \in Publisher, Publish(a), UNCHANGED <<activations, jobs>> PROVE TypedInv'
  <2>1. StoreTypeOK' /\ PublishTypeOK'
    BY <1>0, <1>11, PublishKeepsType DEF Publish
  <2>2. QED
    BY <1>2, <1>3, <1>5, <1>6, <1>11, <2>1 DEF Publish, TypedInv, FlipTypeOK, TypeOK
<1>12. ASSUME NEW s \in Sweeper, Job(s) PROVE TypedInv'
  <2>1. JobTypeOK' /\ ApiTypeOK' /\ HandlersReadRows' /\ PublishTypeOK'
    BY <1>0, <1>2, <1>4, <1>12, JobCases DEF outsideJob
  <2>2. StoreTypeOK' /\ SweepTypeOK' /\ ActivateTypeOK' /\ CarryHoldsOpenRow'
    <3>1. CASE UNCHANGED <<storeVars, sweeps, activations>>
      BY <1>3, <1>5, <1>7, <3>1
    <3>2. CASE ActivateCurrent(s)
      BY <1>0, <1>3, <1>7, <3>2, ActivateCurrentType DEF ActivateCurrent
    <3>3. CASE activating(s) /\ ActivateProgress(s)
      <4>1. UNCHANGED sweeps
        BY <3>3
        DEF ActivateProgress, ActivateSiblings, ActivateRetire, ActivateFindOpen,
            ActivateSupersede, ActivateReturn, CarryRead, CarryWrite, nothingElse
      <4>2. QED
        BY <1>0, <1>3, <3>3, <4>1, ActivateKeepsType
    <3>4. CASE ActivateFails(s)
      <4>1. StoreTypeOK'
        BY <1>0, <3>4 DEF ActivateFails, Fault, StoreTypeOK
      <4>2. QED
        BY <1>0, <1>3, <3>4, <4>1, EndActivationType DEF ActivateFails
    <3>5. CASE SweepStep(s) /\ UNCHANGED activations
      BY <1>0, <1>5, <3>5, SweepKeepsType
    <3>6. CASE JobDies(s)
      BY <1>0, <3>6, JobDiesType
    <3>7. QED
      BY <1>0, <1>12, <3>1, <3>2, <3>3, <3>4, <3>5, <3>6, JobCases
  <2>3. QED
    BY <2>1, <2>2 DEF TypedInv, FlipTypeOK, TypeOK
<1>13. QED
  BY <1>8, <1>9, <1>10, <1>11, <1>12 DEF FlipNext, TypedInv, FlipTypeOK, TypeOK

-----------------------------------------------------------------------------
(* One row under one step of anybody. *)

FlipMove(c, v) ==
  \/ states'[c][v] = states[c][v]
  \/ \E p \in Handler : ApiMove(p, c, v)
  \/ \E s \in Sweeper : SweepMove(s, c, v)
  \/ \E a \in Publisher : PublishMove(a, c, v)
  \/ \E s \in Sweeper : activating(s) /\ ActivateMove(s, c, v)

LEMMA FlipMoves ==
  ASSUME TypedInv, [FlipNext]_flipVars, NEW c \in Customer, NEW v \in Version
  PROVE  FlipMove(c, v)
<1>0. /\ StoreTypeOK /\ ApiTypeOK /\ SweepTypeOK /\ PublishTypeOK /\ ActivateTypeOK /\ JobTypeOK
      /\ HandlersReadRows
  BY DEF TypedInv, FlipTypeOK, TypeOK
<1>1. ASSUME UNCHANGED states PROVE FlipMove(c, v)
  BY <1>1 DEF FlipMove
<1>2. CASE UNCHANGED flipVars \/ Clock
  BY <1>1, <1>2 DEF flipVars, vars, storeVars, Clock, Tick
<1>3. ASSUME NEW p \in Handler, Api(p) PROVE FlipMove(c, v)
  BY <1>0, <1>3, ApiMoves, ReaderHoldsRow DEF Api, FlipMove
<1>4. ASSUME NEW a \in Publisher, Publish(a) PROVE FlipMove(c, v)
  BY <1>0, <1>4, PublishMoves DEF Publish, FlipMove
<1>5. ASSUME NEW s \in Sweeper, Job(s) PROVE FlipMove(c, v)
  <2>1. CASE \/ UNCHANGED <<storeVars, sweeps, activations>>
             \/ ActivateCurrent(s) \/ ActivateFails(s) \/ JobDies(s)
    BY <1>1, <2>1 DEF storeVars, ActivateCurrent, ActivateFails, JobDies
  <2>2. CASE activating(s) /\ ActivateProgress(s)
    BY <1>0, <2>2, ActivateMoves DEF FlipMove
  <2>3. CASE SweepStep(s)
    BY <1>0, <2>3, SweepMoves DEF FlipMove
  <2>4. QED
    BY <1>0, <1>5, <2>1, <2>2, <2>3, JobCases
<1>6. QED
  BY <1>2, <1>3, <1>4, <1>5 DEF FlipNext

LEMMA MadeStateFields ==
  ASSUME NEW r \in CustomerVersionState, NEW to
  PROVE  /\ madeState(r, to).state = to
         /\ madeState(r, to).carryOverBlocking = r.carryOverBlocking
BY DEF madeState, CustomerVersionState

LEMMA MadeNotifiedFields ==
  ASSUME NEW r \in CustomerVersionState, NEW u
  PROVE  /\ madeNotified(r, u).state = u.state
         /\ madeNotified(r, u).carryOverBlocking = r.carryOverBlocking
BY DEF madeNotified, CustomerVersionState

LEMMA PresentRow ==
  ASSUME StoreTypeOK, NEW c \in Customer, NEW v \in Version, states[c][v].state \in CvsState
  PROVE  states[c][v] \in CustomerVersionState /\ states[c][v] # NoRow
BY StoreTypeParts, StateOfRow DEF States

(* What a handler's notice makes of the state of the row. *)
LEMMA NotifierState ==
  ASSUME ApiTypeOK, HandlersReadRows, NEW p \in Handler, at(p, "notifyWrite")
  PROVE  requests[p].row \in CustomerVersionState /\ requests[p].row.state \in CvsState
<1>1. requests[p] \in Request /\ requests[p].row # NoRow
  BY RequestInFlight DEF HandlersReadRows, Step
<1>2. requests[p].row \in MaybeRow
  BY <1>1 DEF Request, MaybeRow
<1>3. QED
  BY <1>1, <1>2, RowState

LEMMA SupersededRow ==
  ASSUME PublishTypeOK, NEW a \in Publisher, in(a, "predecessors"), NEW d \in publications[a].open
  PROVE  /\ publishing(a) /\ d.customer \in Customer /\ d.version \in Version
         /\ supersede(d.row).state = "SUPERSEDED"
<1>1. publications[a] \in Publication /\ publishing(a)
  BY DEF PublishTypeOK, publishing, in, NoPublication
<1>2. d \in Snapshot
  BY <1>1 DEF Publication
<1>3. QED
  BY <1>1, <1>2, ChangedStateType DEF Snapshot, supersede, CvsState

LEMMA FlushedRow ==
  ASSUME ActivateTypeOK, NEW s \in Sweeper, activating(s), NEW d \in activations[s].open
  PROVE  /\ d.customer \in Customer /\ d.version \in Version
         /\ supersede(d.row).state = "SUPERSEDED"
<1>1. d \in Snapshot
  BY ActivationInFlight DEF Activation
<1>2. QED
  BY <1>1, ChangedStateType DEF Snapshot, supersede, CvsState

(* The row a block has been put on. *)
LEMMA CarriedRow ==
  ASSUME ActivateTypeOK, CarryHoldsOpenRow, NEW s \in Sweeper, activating(s),
         atStep(s, "carryWrite")
  PROVE  /\ carried(s).carryOverBlocking
         /\ carried(s).state \in CARRY_OVER_BLOCKING_STATES
<1> DEFINE u == activations[s].successor
<1>1. u \in MaybeRow /\ carries(u)
  BY ActivationInFlight DEF Activation, MaybeRow, CarryHoldsOpenRow
<1>2. CASE u = NoRow
  BY <1>2 DEF carried, PendingRow, NoRow, CARRY_OVER_BLOCKING_STATES
<1>3. CASE u # NoRow
  <2>1. u \in CustomerVersionState /\ u.state \in CARRY_OVER_BLOCKING_STATES
    BY <1>1, <1>3, RowState DEF carries
  <2>2. QED
    BY <1>3, <2>1 DEF carried, CustomerVersionState
<1>4. QED
  BY <1>2, <1>3

Answer == {"ACCEPTED", "OBJECTED", "SUPERSEDED"}

(* A block on an open row stays until the row is answered or superseded. *)
LEMMA MoveHoldsBlock ==
  ASSUME TypedInv, NEW c \in Customer, NEW v \in Version, FlipMove(c, v),
         isBlocking(states[c][v])
  PROVE  isBlocking(states'[c][v]) \/ states'[c][v].state \in Answer
<1> DEFINE r == states[c][v]
           t == states'[c][v]
<1>0. /\ StoreTypeOK /\ ApiTypeOK /\ PublishTypeOK /\ ActivateTypeOK
      /\ HandlersReadRows /\ CarryHoldsOpenRow
  BY DEF TypedInv, FlipTypeOK, TypeOK
<1>1. r.state \in {"EXPIRED_BLOCKING", "PENDING_NOTIFICATION", "NOTIFIED"}
  BY DEF isBlocking, CARRY_OVER_BLOCKING_STATES
<1>2. r \in CustomerVersionState /\ r # NoRow
  BY <1>0, <1>1, PresentRow DEF CvsState
<1>3. CASE t = r
  BY <1>3
<1>4. ASSUME NEW p \in Handler, ApiMove(p, c, v) PROVE isBlocking(t) \/ t.state \in Answer
  <2> DEFINE u == requests[p].row
  <2>1. CASE t = madeState(r, "ACCEPTED") \/ t = madeState(r, "OBJECTED")
    BY <1>2, <2>1, MadeStateFields DEF Answer
  <2>2. CASE at(p, "notifyWrite") /\ r.state = "PENDING_NOTIFICATION" /\ t = madeNotified(r, u)
    <3>1. u.state \in CvsState
      BY <1>0, <2>2, NotifierState
    <3>2. t.state = u.state /\ t.carryOverBlocking = r.carryOverBlocking
      BY <1>2, <2>2, MadeNotifiedFields
    <3>3. r.carryOverBlocking
      BY <2>2 DEF isBlocking
    <3>4. QED
      BY <3>1, <3>2, <3>3 DEF isBlocking, CvsState, Answer, CARRY_OVER_BLOCKING_STATES
  <2>3. QED
    BY <1>2, <1>3, <1>4, <2>1, <2>2 DEF ApiMove
<1>5. ASSUME NEW s \in Sweeper, SweepMove(s, c, v) PROVE isBlocking(t) \/ t.state \in Answer
  BY <1>2, <1>3, <1>5, MadeStateFields DEF SweepMove, isBlocking, Answer
<1>6. ASSUME NEW a \in Publisher, PublishMove(a, c, v) PROVE isBlocking(t) \/ t.state \in Answer
  BY <1>0, <1>2, <1>3, <1>6, SupersededRow DEF PublishMove, Answer
<1>7. ASSUME NEW s \in Sweeper, activating(s), ActivateMove(s, c, v)
      PROVE  isBlocking(t) \/ t.state \in Answer
  BY <1>0, <1>2, <1>3, <1>7, FlushedRow, CarriedRow DEF ActivateMove, isBlocking, Answer
<1>8. QED
  BY <1>3, <1>4, <1>5, <1>6, <1>7 DEF FlipMove

(* No row is accepted but by an operation that is going to record it, or by the
   notice of a handler that read an accepted row. *)
LEMMA MoveAcceptsKnown ==
  ASSUME TypedInv, NotifierKnowsEvidence, NEW c \in Customer, NEW v \in Version, FlipMove(c, v),
         states'[c][v].state = "ACCEPTED"
  PROVE  states[c][v].state = "ACCEPTED" \/ hasEvidence(c, v) \/ hasEvidence(c, v)'
<1> DEFINE r == states[c][v]
           t == states'[c][v]
<1>0. /\ StoreTypeOK /\ ApiTypeOK /\ PublishTypeOK /\ ActivateTypeOK
      /\ HandlersReadRows /\ CarryHoldsOpenRow
  BY DEF TypedInv, FlipTypeOK, TypeOK
<1>1. ASSUME NEW x \in CvsState PROVE r.state = x => r \in CustomerVersionState
  BY <1>0, <1>1, PresentRow
<1>2. ASSUME NEW p \in Handler, ApiMove(p, c, v), t # r PROVE hasEvidence(c, v) \/ hasEvidence(c, v)'
  <2>1. CASE acceptingRequest(p, c, v)'
    BY <2>1 DEF hasEvidence, evidencePending
  <2>2. CASE t = PendingRow(None)
    BY <2>2 DEF PendingRow, NoRow
  <2>3. CASE r.state = "NOTIFIED" /\ t = madeState(r, "OBJECTED")
    BY <1>1, <2>3, MadeStateFields DEF CvsState
  <2>4. CASE /\ at(p, "notifyWrite") /\ requests[p].customer = c /\ requests[p].version = v
             /\ r.state = "PENDING_NOTIFICATION" /\ t = madeNotified(r, requests[p].row)
    <3>1. t.state = requests[p].row.state
      BY <1>1, <2>4, MadeNotifiedFields DEF CvsState
    <3>2. QED
      BY <2>4, <3>1 DEF NotifierKnowsEvidence
  <2>5. QED
    BY <1>2, <2>1, <2>2, <2>3, <2>4 DEF ApiMove
<1>3. ASSUME NEW s \in Sweeper, SweepMove(s, c, v), t # r PROVE hasEvidence(c, v)'
  <2>1. CASE r.state \in ACTIVE_SWEEPABLE_STATES /\ t = madeState(r, "EXPIRED_BLOCKING")
    BY <1>1, <2>1, MadeStateFields DEF CvsState, ACTIVE_SWEEPABLE_STATES
  <2>2. CASE acceptingSweep(s, c, v)'
    BY <2>2 DEF hasEvidence, evidencePending
  <2>3. QED
    BY <1>3, <2>1, <2>2 DEF SweepMove
<1>4. ASSUME NEW a \in Publisher, PublishMove(a, c, v), t # r PROVE FALSE
  <2>1. rolloutRow(a, c).state = "PENDING_NOTIFICATION"
    BY DEF rolloutRow, PendingRow, NoRow
  <2>2. QED
    BY <1>0, <1>4, <2>1, SupersededRow DEF PublishMove
<1>5. ASSUME NEW s \in Sweeper, activating(s), ActivateMove(s, c, v), t # r PROVE FALSE
  BY <1>0, <1>5, FlushedRow, CarriedRow DEF ActivateMove, CARRY_OVER_BLOCKING_STATES
<1>6. QED
  BY <1>2, <1>3, <1>4, <1>5 DEF FlipMove

(* Only a row of a retired version is superseded. *)
LEMMA MoveSupersedesRetired ==
  ASSUME TypedInv, SupersededIsRetired, NEW c \in Customer, NEW v \in Version, FlipMove(c, v),
         states'[c][v].state = "SUPERSEDED"
  PROVE  isRetired(v)
<1> DEFINE r == states[c][v]
           t == states'[c][v]
<1>0. /\ StoreTypeOK /\ ApiTypeOK /\ PublishTypeOK /\ ActivateTypeOK
      /\ HandlersReadRows /\ CarryHoldsOpenRow
  BY DEF TypedInv, FlipTypeOK, TypeOK
<1>1. ASSUME NEW x \in CvsState PROVE r.state = x => r \in CustomerVersionState
  BY <1>0, <1>1, PresentRow
<1>2. CASE t = r
  BY <1>2 DEF SupersededIsRetired
<1>3. ASSUME NEW p \in Handler, ApiMove(p, c, v), t # r PROVE isRetired(v)
  <2>1. CASE t = madeState(IF r = NoRow THEN PendingRow(None) ELSE r, "ACCEPTED")
    <3>1. (IF r = NoRow THEN PendingRow(None) ELSE r) \in CustomerVersionState
      BY <1>0, PendingRowType, StoreTypeParts, RowState DEF States, MaybeRow, MaybeTime
    <3>2. QED
      BY <2>1, <3>1, MadeStateFields
  <2>2. CASE t = PendingRow(None)
    BY <2>2 DEF PendingRow, NoRow
  <2>3. CASE r.state = "NOTIFIED" /\ t = madeState(r, "OBJECTED")
    BY <1>1, <2>3, MadeStateFields DEF CvsState
  <2>4. CASE /\ at(p, "notifyWrite") /\ requests[p].customer = c /\ requests[p].version = v
             /\ r.state = "PENDING_NOTIFICATION" /\ t = madeNotified(r, requests[p].row)
    <3>1. t.state = requests[p].row.state
      BY <1>1, <2>4, MadeNotifiedFields DEF CvsState
    <3>2. QED
      BY <2>4, <3>1 DEF SupersededIsRetired
  <2>5. QED
    BY <1>3, <2>1, <2>2, <2>3, <2>4 DEF ApiMove
<1>4. ASSUME NEW s \in Sweeper, SweepMove(s, c, v), t # r PROVE FALSE
  BY <1>1, <1>4, MadeStateFields DEF SweepMove, CvsState, ACTIVE_SWEEPABLE_STATES
<1>5. ASSUME NEW a \in Publisher, PublishMove(a, c, v), t # r PROVE isRetired(v)
  <2>1. rolloutRow(a, c).state = "PENDING_NOTIFICATION"
    BY DEF rolloutRow, PendingRow, NoRow
  <2>2. PICK d \in publications[a].open : in(a, "predecessors") /\ d.version = v
    BY <1>5, <2>1 DEF PublishMove
  <2>3. publishing(a)
    BY <1>0, <2>2, SupersededRow
  <2>4. QED
    BY <2>2, <2>3 DEF SupersededIsRetired, drainsRetired
<1>6. ASSUME NEW s \in Sweeper, activating(s), ActivateMove(s, c, v), t # r PROVE isRetired(v)
  BY <1>0, <1>6, CarriedRow
  DEF ActivateMove, CARRY_OVER_BLOCKING_STATES, SupersededIsRetired, drainsRetired
<1>7. QED
  BY <1>2, <1>3, <1>4, <1>5, <1>6 DEF FlipMove

-----------------------------------------------------------------------------
(* Evidence *)

(* The evidence tables grow, one append at a time. *)
EvidenceGrows ==
  /\ \/ UNCHANGED acceptances
     \/ \E c \in Customer, v \in Version, m \in AcceptanceMethod : appendAcceptance(c, v, m)
  /\ orphans \subseteq orphans'

LEMMA GrowingEvidence ==
  ASSUME EvidenceGrows
  PROVE  /\ acceptances \subseteq acceptances'
         /\ OneAcceptanceEach => OneAcceptanceEach'
<1>1. CASE UNCHANGED acceptances
  BY <1>1 DEF OneAcceptanceEach
<1>2. ASSUME NEW c \in Customer, NEW v \in Version, NEW m \in AcceptanceMethod,
             appendAcceptance(c, v, m)
      PROVE  /\ acceptances \subseteq acceptances'
             /\ OneAcceptanceEach => OneAcceptanceEach'
  <2>1. CASE accepted(c, v)
    BY <1>2, <2>1 DEF appendAcceptance, OneAcceptanceEach
  <2>2. CASE ~accepted(c, v)
    BY <1>2, <2>2 DEF appendAcceptance, accepted, OneAcceptanceEach
  <2>3. QED
    BY <2>1, <2>2
<1>3. QED
  BY <1>1, <1>2 DEF EvidenceGrows

LEMMA ApiTouchesOwn ==
  ASSUME ApiTypeOK, NEW p \in Handler, ApiStep(p)
  PROVE  OtherRequests(p)
<1> USE DEF ApiTypeOK, OtherRequests, start, finish, goto
<1>1. ASSUME NEW c \in Customer, NEW v \in Version, NEW m,
             AcceptStart(p, c, v) \/ ObjectRead(p, c, v) \/ NotifyRead(p, c, v)
               \/ RecordRead(p, c, v, m)
      PROVE  OtherRequests(p)
  BY <1>1 DEF AcceptStart, ObjectRead, NotifyRead, RecordRead
<1>2. CASE AcceptRead(p)
  BY <1>2 DEF AcceptRead
<1>3. CASE AcceptWrite(p)
  BY <1>3 DEF AcceptWrite
<1>4. CASE RecordCreate(p)
  BY <1>4 DEF RecordCreate
<1>5. CASE RecordWrite(p) \/ ObjectWrite(p)
  BY <1>5 DEF RecordWrite, ObjectWrite
<1>6. CASE AcceptanceAppend(p) \/ ObjectionAppend(p) \/ NotifyWrite(p) \/ HandlerDies(p)
  BY <1>6 DEF AcceptanceAppend, ObjectionAppend, NotifyWrite, HandlerDies
<1>7. QED
  BY <1>1, <1>2, <1>3, <1>4, <1>5, <1>6 DEF ApiStep, ApiStart, ApiProgress

LEMMA AppendAccepts ==
  ASSUME NEW c \in Customer, NEW v \in Version, NEW m, appendAcceptance(c, v, m)
  PROVE  accepted(c, v)'
<1> DEFINE new == [customer |-> c, version |-> v, method |-> m, acceptedAt |-> now]
<1>1. CASE accepted(c, v)
  BY <1>1 DEF appendAcceptance, accepted
<1>2. CASE ~accepted(c, v)
  <2>1. new \in acceptances' /\ new.customer = c /\ new.version = v
    BY <1>2 DEF appendAcceptance
  <2>2. QED
    BY <2>1 DEF accepted
<1>3. QED
  BY <1>1, <1>2

LEMMA ApiEvidence ==
  ASSUME ApiTypeOK, NEW p \in Handler, ApiStep(p), UNCHANGED sweeps
  PROVE  /\ EvidenceGrows
         /\ \A c \in Customer, v \in Version : hasEvidence(c, v) => hasEvidence(c, v)'
<1> USE DEF storeVars, contextVars, recordVars
<1> DEFINE q == requests[p]
<1>0. OtherRequests(p)
  BY ApiTouchesOwn
<1>1. CASE AcceptanceAppend(p)
  <2>1. q.customer \in Customer /\ q.version \in Version /\ q.method \in AcceptanceMethod
    BY <1>1, RequestInFlight DEF AcceptanceAppend, Step, Request, GivenMethod, AcceptanceMethod
  <2>2. EvidenceGrows
    BY <1>1, <2>1 DEF AcceptanceAppend, EvidenceGrows
  <2>3. ASSUME NEW c \in Customer, NEW v \in Version, hasEvidence(c, v) PROVE hasEvidence(c, v)'
    <3>1. CASE acceptingRequest(p, c, v)
      <4>1. appendAcceptance(c, v, q.method)
        BY <1>1, <3>1 DEF AcceptanceAppend, acceptingRequest
      <4>2. QED
        BY <4>1, AppendAccepts DEF hasEvidence
    <3>2. CASE ~acceptingRequest(p, c, v)
      BY <1>0, <1>1, <2>2, <2>3, <3>2, GrowingEvidence
      DEF AcceptanceAppend, hasEvidence, evidencePending, acceptingRequest, acceptingSweep, at,
          OtherRequests, accepted
    <3>3. QED
      BY <3>1, <3>2
  <2>4. QED
    BY <2>2, <2>3
<1>2. CASE HandlerDies(p)
  <2>1. EvidenceGrows
    BY <1>2 DEF HandlerDies, EvidenceGrows
  <2>2. ASSUME NEW c \in Customer, NEW v \in Version, hasEvidence(c, v) PROVE hasEvidence(c, v)'
    BY <1>0, <1>2, <2>2
    DEF HandlerDies, hasEvidence, evidencePending, acceptingRequest, acceptingSweep, at,
        OtherRequests, accepted
  <2>3. QED
    BY <2>1, <2>2
<1>3. ASSUME ~at(p, "appendAcceptance"), UNCHANGED <<acceptances, orphans>>
      PROVE  /\ EvidenceGrows
             /\ \A c \in Customer, v \in Version : hasEvidence(c, v) => hasEvidence(c, v)'
  BY <1>0, <1>3
  DEF EvidenceGrows, hasEvidence, evidencePending, acceptingRequest, acceptingSweep, at,
      OtherRequests, accepted
<1>4. CASE ApiStart(p)
  <2>1. ~at(p, "appendAcceptance")
    <3>1. idle(p)
      BY <1>4 DEF ApiStart, AcceptStart, ObjectRead, NotifyRead, RecordRead
    <3>2. QED
      BY <3>1 DEF idle, Idle, at
  <2>2. UNCHANGED <<acceptances, orphans>>
    BY <1>4 DEF ApiStart, AcceptStart, ObjectRead, NotifyRead, RecordRead
  <2>3. QED
    BY <1>3, <2>1, <2>2
<1>5. CASE \/ AcceptRead(p) \/ AcceptWrite(p) \/ RecordCreate(p) \/ RecordWrite(p)
           \/ ObjectWrite(p) \/ ObjectionAppend(p) \/ NotifyWrite(p)
  BY <1>3, <1>5
  DEF AcceptRead, AcceptWrite, RecordCreate, RecordWrite, ObjectWrite, ObjectionAppend,
      NotifyWrite, at
<1>6. QED
  BY <1>1, <1>2, <1>4, <1>5 DEF ApiStep, ApiProgress

(* A run's steps, and its death: what it was going to record is recorded, or
   remembered as lost. *)
LEMMA SweepEvidence ==
  ASSUME SweepTypeOK, NEW s \in Sweeper, SweepStep(s) \/ JobDies(s), UNCHANGED requests
  PROVE  /\ EvidenceGrows
         /\ \A c \in Customer, v \in Version : hasEvidence(c, v) => hasEvidence(c, v)'
<1> USE DEF storeVars, sweepContext
<1> DEFINE run == sweeps[s]
<1>0. /\ DOMAIN sweeps = Sweeper
      /\ sweeps[s] \in [due : SUBSET Snapshot, tacit : SUBSET (Customer \X Version)]
      /\ \A k, l \in sweeps[s].tacit : k = l
  BY DEF SweepTypeOK
<1>1. CASE SweepAppend(s)
  <2>1. PICK k \in run.tacit :
          /\ appendAcceptance(k[1], k[2], "TACIT")
          /\ sweeps' = [sweeps EXCEPT ![s].tacit = {}]
          /\ UNCHANGED <<sweepContext, states, faults, orphans>>
    BY <1>1 DEF SweepAppend
  <2>2. k[1] \in Customer /\ k[2] \in Version /\ k = <<k[1], k[2]>>
    BY <1>0
  <2>3. EvidenceGrows
    BY <2>1, <2>2 DEF EvidenceGrows, AcceptanceMethod
  <2>4. ASSUME NEW c \in Customer, NEW v \in Version, hasEvidence(c, v) PROVE hasEvidence(c, v)'
    <3>1. CASE acceptingSweep(s, c, v)
      <4>1. appendAcceptance(c, v, "TACIT")
        BY <1>0, <2>1, <2>2, <3>1 DEF acceptingSweep
      <4>2. QED
        BY <4>1, AppendAccepts DEF hasEvidence
    <3>2. CASE ~acceptingSweep(s, c, v)
      <4>1. \A t \in Sweeper : acceptingSweep(t, c, v) => acceptingSweep(t, c, v)'
        BY <1>0, <2>1, <3>2 DEF acceptingSweep
      <4>2. acceptances \subseteq acceptances'
        BY <2>3, GrowingEvidence
      <4>3. QED
        BY <2>1, <2>4, <4>1, <4>2
        DEF hasEvidence, evidencePending, acceptingRequest, at, accepted
    <3>3. QED
      BY <3>1, <3>2
  <2>5. QED
    BY <2>3, <2>4
<1>2. CASE SweepEntryFails(s) \/ SweepDies(s) \/ JobDies(s)
  <2>1. UNCHANGED acceptances /\ orphans' = orphans \cup run.tacit
    BY <1>2 DEF SweepEntryFails, SweepDies, JobDies
  <2>2. \A t \in Sweeper : t # s => sweeps'[t] = sweeps[t]
    BY <1>0, <1>2 DEF SweepEntryFails, SweepDies, JobDies
  <2>3. QED
    BY <2>1, <2>2
    DEF EvidenceGrows, hasEvidence, evidencePending, acceptingRequest, acceptingSweep, at, accepted
<1>3. ASSUME \A t \in Sweeper : sweeps[t].tacit \subseteq sweeps'[t].tacit,
             UNCHANGED <<acceptances, orphans>>
      PROVE  /\ EvidenceGrows
             /\ \A c \in Customer, v \in Version : hasEvidence(c, v) => hasEvidence(c, v)'
  BY <1>3
  DEF EvidenceGrows, hasEvidence, evidencePending, acceptingRequest, acceptingSweep, at, accepted
<1>4. CASE SweepFind(s)
  BY <1>0, <1>3, <1>4 DEF SweepFind
<1>5. ASSUME NEW d \in run.due, SweepSkip(s, d) \/ SweepExpire(s, d)
      PROVE  /\ EvidenceGrows
             /\ \A c \in Customer, v \in Version : hasEvidence(c, v) => hasEvidence(c, v)'
  BY <1>0, <1>3, <1>5 DEF SweepSkip, SweepExpire
<1>6. ASSUME NEW d \in run.due, SweepTacit(s, d)
      PROVE  /\ EvidenceGrows
             /\ \A c \in Customer, v \in Version : hasEvidence(c, v) => hasEvidence(c, v)'
  <2>1. run.tacit = {} /\ UNCHANGED <<acceptances, orphans>>
    BY <1>6 DEF SweepTacit, takes
  <2>2. \A t \in Sweeper : sweeps[t].tacit \subseteq sweeps'[t].tacit
    BY <1>0, <1>6, <2>1 DEF SweepTacit
  <2>3. QED
    BY <1>3, <2>1, <2>2
<1>7. QED
  BY <1>1, <1>2, <1>4, <1>5, <1>6 DEF SweepStep, SweepProgress, SweepHandle

LEMMA FlipEvidence ==
  ASSUME TypedInv, [FlipNext]_flipVars
  PROVE  /\ EvidenceGrows
         /\ \A c \in Customer, v \in Version : hasEvidence(c, v) => hasEvidence(c, v)'
<1>0. ApiTypeOK /\ SweepTypeOK /\ JobTypeOK
  BY DEF TypedInv, FlipTypeOK, TypeOK
<1>1. ASSUME UNCHANGED <<acceptances, orphans, requests, sweeps>>
      PROVE  /\ EvidenceGrows
             /\ \A c \in Customer, v \in Version : hasEvidence(c, v) => hasEvidence(c, v)'
  BY <1>1
  DEF EvidenceGrows, hasEvidence, evidencePending, acceptingRequest, acceptingSweep, at, accepted
<1>2. CASE UNCHANGED flipVars \/ Clock
  BY <1>1, <1>2 DEF flipVars, vars, storeVars, Clock, Tick
<1>3. ASSUME NEW a \in Publisher, Publish(a) PROVE UNCHANGED <<acceptances, orphans, requests, sweeps>>
  BY <1>3
  DEF Publish, PublishStep, PublishProgress, PublishRead, PublishSave, PublishSiblings,
      PublishRetire, PublishFindOpen, PublishSupersede, PublishTargets, PublishRollout,
      PublishRefused, PublishReturn, PublishDies, storeVars, evidenceVars
<1>4. ASSUME NEW s \in Sweeper, Job(s)
      PROVE  /\ EvidenceGrows
             /\ \A c \in Customer, v \in Version : hasEvidence(c, v) => hasEvidence(c, v)'
  <2>1. UNCHANGED requests
    BY <1>0, <1>4, JobCases DEF outsideJob
  <2>2. CASE SweepStep(s) \/ JobDies(s)
    BY <1>0, <2>1, <2>2, SweepEvidence
  <2>3. CASE \/ UNCHANGED <<storeVars, sweeps, activations>>
             \/ ActivateCurrent(s) \/ ActivateFails(s)
    BY <1>1, <2>1, <2>3 DEF storeVars, ActivateCurrent, ActivateFails
  <2>4. CASE ActivateProgress(s)
    BY <1>1, <2>1, <2>4
    DEF ActivateProgress, ActivateSiblings, ActivateRetire, ActivateFindOpen, ActivateSupersede,
        ActivateReturn, CarryRead, CarryWrite, nothingElse, storeVars
  <2>5. QED
    BY <1>0, <1>4, <2>2, <2>3, <2>4, JobCases
<1>5. QED
  BY <1>0, <1>1, <1>2, <1>3, <1>4, ApiEvidence DEF FlipNext, Api

(* A notice about to be written is as it was, or its handler has just read the
   row it is about. *)
LEMMA ApiNotices ==
  ASSUME StoreTypeOK, ApiTypeOK, NEW p \in Handler, ApiStep(p), NEW o \in Handler,
         requests'[o].step = "notifyWrite", requests'[o] # requests[o]
  PROVE  \E c \in Customer, v \in Version :
           LET row == states[c][v]
           IN /\ row # NoRow
              /\ requests'[o].customer = c /\ requests'[o].version = v
              /\ requests'[o].row = recordAccess(row, v, now, row.carryOverBlocking)
<1>0. o = p
  BY ApiTouchesOwn DEF OtherRequests
<1>1. CASE \E c \in Customer, v \in Version :
             \/ AcceptStart(p, c, v) \/ ObjectRead(p, c, v)
             \/ \E m \in GivenMethod : RecordRead(p, c, v, m)
  BY <1>0, <1>1, StartEffect DEF AcceptStart, ObjectRead, RecordRead
<1>2. ASSUME NEW c \in Customer, NEW v \in Version, NotifyRead(p, c, v)
      PROVE  LET row == states[c][v]
             IN /\ row # NoRow
                /\ requests'[o].customer = c /\ requests'[o].version = v
                /\ requests'[o].row = recordAccess(row, v, now, row.carryOverBlocking)
  BY <1>0, <1>2, StartEffect DEF NotifyRead, exists
<1>3. CASE AcceptRead(p) \/ RecordCreate(p)
  <2>1. requests[p] \in Request
    BY <1>3, RequestInFlight DEF AcceptRead, RecordCreate, Step
  <2>2. finish(p) \/ requests'[p].step \in {"acceptWrite", "recordWrite"}
    BY <1>3, <2>1 DEF AcceptRead, RecordCreate, ApiTypeOK, Request
  <2>3. requests'[p].step # "notifyWrite"
    BY <2>2 DEF finish, ApiTypeOK, Idle
  <2>4. QED
    BY <1>0, <2>3
<1>4. CASE AcceptWrite(p) \/ RecordWrite(p) \/ ObjectWrite(p)
  <2>1. requests[p] \in Request
    BY <1>4, RequestInFlight DEF AcceptWrite, RecordWrite, ObjectWrite, Step
  <2>2. finish(p) \/ goto(p, "appendAcceptance") \/ goto(p, "appendObjection")
    BY <1>4 DEF AcceptWrite, RecordWrite, ObjectWrite
  <2>3. requests'[p].step # "notifyWrite"
    BY <2>1, <2>2 DEF finish, goto, ApiTypeOK, Idle, Request
  <2>4. QED
    BY <1>0, <2>3
<1>5. CASE AcceptanceAppend(p) \/ ObjectionAppend(p) \/ NotifyWrite(p) \/ HandlerDies(p)
  BY <1>0, <1>5, FinishEffect DEF AcceptanceAppend, ObjectionAppend, NotifyWrite, HandlerDies, Idle
<1>6. QED
  BY <1>1, <1>2, <1>3, <1>4, <1>5 DEF ApiStep, ApiStart, ApiProgress

-----------------------------------------------------------------------------
(* The invariant *)

LEMMA FlipInvParts ==
  FlipInv <=> TypedInv /\ AcceptedRowHasEvidence /\ NotifierKnowsEvidence /\ OneAcceptanceEach
BY DEF FlipInv, TypedInv

LEMMA FlipInvPartsNext ==
  FlipInv' <=>
    TypedInv' /\ AcceptedRowHasEvidence' /\ NotifierKnowsEvidence' /\ OneAcceptanceEach'
BY DEF FlipInv, TypedInv

LEMMA RequestsStep ==
  ASSUME JobTypeOK, [FlipNext]_flipVars
  PROVE  UNCHANGED requests \/ \E p \in Handler : ApiStep(p)
BY JobCases DEF FlipNext, flipVars, vars, Clock, Api, Publish, outsideJob

LEMMA AccessState ==
  ASSUME NEW r \in CustomerVersionState, NEW v, NEW t, NEW b
  PROVE  recordAccess(r, v, t, b).state \in {r.state, "NOTIFIED"}
BY DEF recordAccess, CustomerVersionState

LEMMA NextFlipInv ==
  ASSUME FlipInv, [FlipNext]_flipVars
  PROVE  FlipInv'
<1>0. /\ TypedInv /\ AcceptedRowHasEvidence /\ NotifierKnowsEvidence /\ OneAcceptanceEach
      /\ StoreTypeOK /\ ApiTypeOK /\ JobTypeOK
  BY FlipInvParts DEF TypedInv, FlipTypeOK, TypeOK
<1>1. TypedInv'
  BY <1>0, NextTyped
<1>2. /\ EvidenceGrows
      /\ \A c \in Customer, v \in Version : hasEvidence(c, v) => hasEvidence(c, v)'
  BY <1>0, FlipEvidence
<1>3. ASSUME NEW c \in Customer, NEW v \in Version, states[c][v].state = "ACCEPTED"
      PROVE  hasEvidence(c, v)'
  BY <1>0, <1>2, <1>3 DEF AcceptedRowHasEvidence, hasEvidence
<1>4. AcceptedRowHasEvidence'
  <2>1. ASSUME NEW c \in Customer, NEW v \in Version, states'[c][v].state = "ACCEPTED"
        PROVE  hasEvidence(c, v)'
    <3>1. FlipMove(c, v)
      BY <1>0, FlipMoves
    <3>2. QED
      BY <1>0, <1>2, <1>3, <2>1, <3>1, MoveAcceptsKnown
  <2>2. QED
    BY <2>1 DEF AcceptedRowHasEvidence, hasEvidence
<1>5. NotifierKnowsEvidence'
  <2>1. SUFFICES ASSUME NEW o \in Handler, requests'[o].step = "notifyWrite",
                        requests'[o].row.state = "ACCEPTED"
                 PROVE  hasEvidence(requests[o].customer, requests[o].version)'
    BY DEF NotifierKnowsEvidence, at
  <2>2. CASE requests'[o] = requests[o]
    <3>1. at(o, "notifyWrite") /\ requests[o].row.state = "ACCEPTED"
      BY <2>1, <2>2 DEF at
    <3>2. PICK c \in Customer, v \in Version :
            requests[o].customer = c /\ requests[o].version = v
      BY <1>0, <3>1, RequestInFlight DEF Request, Step
    <3>3. hasEvidence(c, v)'
      BY <1>0, <1>2, <3>1, <3>2 DEF NotifierKnowsEvidence
    <3>4. QED
      BY <2>2, <3>2, <3>3
  <2>3. CASE requests'[o] # requests[o]
    <3>1. PICK p \in Handler : ApiStep(p)
      BY <1>0, <2>3, RequestsStep
    <3>2. PICK c \in Customer, v \in Version :
            /\ states[c][v] # NoRow
            /\ requests'[o].customer = c /\ requests'[o].version = v
            /\ requests'[o].row =
                 recordAccess(states[c][v], v, now, states[c][v].carryOverBlocking)
      BY <1>0, <2>1, <2>3, <3>1, ApiNotices
    <3>3. states[c][v] \in CustomerVersionState
      BY <1>0, <3>2, StoreTypeParts, RowState DEF States, MaybeRow
    <3>4. states[c][v].state = "ACCEPTED"
      BY <2>1, <3>2, <3>3, AccessState
    <3>5. QED
      BY <1>3, <3>2, <3>4
  <2>4. QED
    BY <2>2, <2>3
<1>6. OneAcceptanceEach'
  BY <1>0, <1>2, GrowingEvidence
<1>7. QED
  BY <1>1, <1>4, <1>5, <1>6, FlipInvPartsNext

LEMMA InitFlipInv ==
  ASSUME FlipInit
  PROVE  FlipInv
<1>1. TypeOK /\ AcceptedRowHasEvidence
  BY InitIInv DEF FlipInit, IInv
<1>2. ActivateTypeOK /\ JobTypeOK /\ CarryHoldsOpenRow
  BY DEF FlipInit, ActivateInit, JobInit, ActivateTypeOK, JobTypeOK, CarryHoldsOpenRow, atStep,
         NoActivation
<1>3. HandlersReadRows /\ NotifierKnowsEvidence
  BY DEF FlipInit, Init, ApiInit, HandlersReadRows, NotifierKnowsEvidence, at, Idle
<1>4. OneAcceptanceEach
  BY DEF FlipInit, Init, StoreInit, OneAcceptanceEach
<1>5. QED
  BY <1>1, <1>2, <1>3, <1>4 DEF FlipInv, FlipTypeOK

(* The inductive invariant holds in every reachable state: the tables keep
   their types though a run of the job may die in either half, and whoever is
   on record as having accepted is so once, or is known to have been lost. *)
THEOREM FlipInvariance == FlipSpec => []FlipInv
BY InitFlipInv, NextFlipInv, PTL DEF FlipSpec

-----------------------------------------------------------------------------
(* What a step does to the blocks. *)

(* A handler that answers a row was not recording an answer before, and is now. *)
LEMMA AnswerWritten ==
  ASSUME StoreTypeOK, ApiTypeOK, NEW p \in Handler, HoldsRow(p),
         AcceptWrite(p) \/ RecordWrite(p) \/ ObjectWrite(p),
         NEW c \in Customer, NEW v \in Version, states'[c][v] # states[c][v]
  PROVE  ~recording(p, c, v) /\ recording(p, c, v)'
<1> DEFINE q == requests[p]
<1>0. states \in States
  BY StoreTypeParts
<1>1. /\ at(p, "acceptWrite") \/ at(p, "recordWrite") \/ at(p, "objectWrite")
      /\ q \in Request /\ q.customer \in Customer /\ q.version \in Version
  BY RequestInFlight DEF AcceptWrite, RecordWrite, ObjectWrite, Step, Request
<1>2. goto(p, "appendAcceptance") \/ goto(p, "appendObjection")
  BY DEF AcceptWrite, RecordWrite, ObjectWrite
<1>3. \/ \E to : setState(q.customer, q.version, to)
      \/ \E r : save(q.customer, q.version, r)
  BY <1>2 DEF AcceptWrite, RecordWrite, ObjectWrite
<1>4. q.customer = c /\ q.version = v
  BY <1>0, <1>1, <1>3, RowGivenState, SavedRow
<1>5. ~recording(p, c, v)
  BY <1>1 DEF recording, at
<1>6. recording(p, c, v)'
  BY <1>1, <1>2, <1>4, GotoEffect DEF recording, at
<1>7. QED
  BY <1>5, <1>6

LEMMA HandlerEndsBlock ==
  ASSUME StoreTypeOK, ApiTypeOK, NEW p \in Handler, HoldsRow(p), ApiStep(p),
         NEW c \in Customer, NEW v \in Version, states[c][v] # NoRow,
         states'[c][v] # states[c][v], states'[c][v].state \in Answer
  PROVE  endsAnswered(c, v) \/ endsSuperseded(c, v)
<1> DEFINE q == requests[p]
           r == states[c][v]
           t == states'[c][v]
<1>0. states \in States /\ r \in CustomerVersionState
  BY StoreTypeParts, RowState DEF States
<1>1. CASE AcceptWrite(p) \/ RecordWrite(p) \/ ObjectWrite(p)
  <2>1. ~recording(p, c, v) /\ recording(p, c, v)'
    BY <1>1, AnswerWritten
  <2>2. ~at(p, "notifyWrite")
    BY <1>1 DEF AcceptWrite, RecordWrite, ObjectWrite, at
  <2>3. t = madeState(r, "ACCEPTED") \/ t = madeState(r, "OBJECTED")
    BY <2>2, ApiMoves DEF ApiMove
  <2>4. t.state \in {"ACCEPTED", "OBJECTED"}
    BY <1>0, <2>3, MadeStateFields
  <2>5. QED
    BY <2>1, <2>4 DEF endsAnswered
<1>2. CASE NotifyWrite(p)
  <2>1. at(p, "notifyWrite") /\ q.customer \in Customer /\ q.version \in Version
    BY <1>2, RequestInFlight DEF NotifyWrite, Step, Request
  <2>2. setNotifiedAtomically(q.customer, q.version, q.row)
    BY <1>2 DEF NotifyWrite
  <2>3. q.customer = c /\ q.version = v /\ t = madeNotified(r, q.row)
    BY <1>0, <2>1, <2>2, RowNotified
  <2>4. t.state = q.row.state
    BY <1>0, <2>3, MadeNotifiedFields
  <2>5. readBefore(p, c, v)
    BY <2>1, <2>3, <2>4 DEF readBefore
  <2>6. QED
    BY <2>5 DEF Answer, endsAnswered, endsSuperseded
<1>3. CASE RecordCreate(p)
  <2>1. q.customer \in Customer /\ q.version \in Version
    BY <1>3, RequestInFlight DEF RecordCreate, Step, Request
  <2>2. states' = states
        \/ (~exists(q.customer, q.version) /\ save(q.customer, q.version, PendingRow(None)))
    BY <1>3 DEF RecordCreate
  <2>3. QED
    BY <1>0, <2>1, <2>2, SavedRow DEF exists
<1>4. CASE \/ ApiStart(p) \/ AcceptRead(p) \/ AcceptanceAppend(p) \/ ObjectionAppend(p)
           \/ HandlerDies(p)
  BY <1>4
  DEF ApiStart, AcceptStart, ObjectRead, NotifyRead, RecordRead, AcceptRead, AcceptanceAppend,
      ObjectionAppend, HandlerDies, storeVars
<1>5. QED
  BY <1>1, <1>2, <1>3, <1>4 DEF ApiStep, ApiProgress

LEMMA SweepEndsBlock ==
  ASSUME StoreTypeOK, SweepTypeOK, NEW s \in Sweeper, SweepStep(s),
         NEW c \in Customer, NEW v \in Version,
         states'[c][v] # states[c][v], states'[c][v].state \in Answer
  PROVE  endsSilently(c, v)
<1> USE DEF storeVars, sweepContext
<1>0. /\ states \in States /\ DOMAIN sweeps = Sweeper
      /\ sweeps[s] \in [due : SUBSET Snapshot, tacit : SUBSET (Customer \X Version)]
  BY StoreTypeParts DEF SweepTypeOK
<1>1. ASSUME NEW d \in sweeps[s].due, SweepExpire(s, d) PROVE FALSE
  <2>1. d.customer \in Customer /\ d.version \in Version
    BY <1>0 DEF Snapshot
  <2>2. setState(d.customer, d.version, "EXPIRED_BLOCKING")
    BY <1>1 DEF SweepExpire
  <2>3. c = d.customer /\ v = d.version /\ states'[c][v] = madeState(states[c][v], "EXPIRED_BLOCKING")
    BY <1>0, <2>1, <2>2, RowGivenState
  <2>4. states[c][v].state \in ACTIVE_SWEEPABLE_STATES
    BY <1>1, <2>3 DEF SweepExpire, applies, inState, outcome, sweepOutcome
  <2>5. states[c][v] \in CustomerVersionState
    BY <2>4, PresentRow DEF ACTIVE_SWEEPABLE_STATES, CvsState
  <2>6. QED
    BY <2>3, <2>5, MadeStateFields DEF Answer
<1>2. ASSUME NEW d \in sweeps[s].due, SweepTacit(s, d) PROVE endsSilently(c, v)
  <2>1. d.customer \in Customer /\ d.version \in Version
    BY <1>0 DEF Snapshot
  <2>2. setState(d.customer, d.version, "ACCEPTED")
    BY <1>2 DEF SweepTacit
  <2>3. c = d.customer /\ v = d.version /\ states'[c][v] = madeState(states[c][v], "ACCEPTED")
    BY <1>0, <2>1, <2>2, RowGivenState
  <2>4. /\ AcceptanceMode[v] = "PASSIVE" /\ states[c][v].state = "NOTIFIED"
        /\ isDue(d.row, now)
    BY <1>2, <2>3 DEF SweepTacit, applies, inState, outcome, sweepOutcome
  <2>5. states[c][v] \in CustomerVersionState
    BY <2>4, PresentRow DEF CvsState
  <2>6. states'[c][v].state = "ACCEPTED"
    BY <2>3, <2>5, MadeStateFields
  <2>7. acceptingSweep(s, c, v)'
    BY <1>0, <1>2, <2>3 DEF SweepTacit, acceptingSweep
  <2>8. QED
    BY <2>3, <2>4, <2>6, <2>7 DEF endsSilently
<1>3. CASE \/ SweepFind(s) \/ SweepAppend(s) \/ SweepEntryFails(s) \/ SweepDies(s)
           \/ \E d \in sweeps[s].due : SweepSkip(s, d)
  BY <1>3 DEF SweepFind, SweepAppend, SweepEntryFails, SweepDies, SweepSkip
<1>4. QED
  BY <1>1, <1>2, <1>3 DEF SweepStep, SweepProgress, SweepHandle

LEMMA PublishEndsBlock ==
  ASSUME StoreTypeOK, PublishTypeOK, NEW a \in Publisher, PublishStep(a),
         NEW c \in Customer, NEW v \in Version, states[c][v] # NoRow,
         states'[c][v] # states[c][v], states'[c][v].state \in Answer
  PROVE  endsSuperseded(c, v)
<1> USE DEF storeVars, evidenceVars
<1> DEFINE b == publications[a]
<1>0. states \in States /\ DOMAIN publications = Publisher
  BY StoreTypeParts DEF PublishTypeOK
<1>1. ASSUME publishing(a), NEW d \in b.open, PublishSupersede(a, d) PROVE endsSuperseded(c, v)
  <2>1. /\ b \in Publication /\ d.customer \in Customer /\ d.version \in Version
        /\ supersede(d.row).state = "SUPERSEDED"
    BY <1>1, PublicationInFlight, SupersededRow DEF PublishSupersede
  <2>2. save(d.customer, d.version, supersede(d.row))
    BY <1>1 DEF PublishSupersede
  <2>3. d.customer = c /\ d.version = v /\ states'[c][v].state = "SUPERSEDED"
    BY <1>0, <2>1, <2>2, SavedRow
  <2>4. publications' = [publications EXCEPT ![a] =
          [b EXCEPT !.open = b.open \ {d},
                    !.blocking = IF wasBlocking(d.row) THEN b.blocking \cup {d.customer}
                                 ELSE b.blocking]]
    BY <1>0, <1>1 DEF PublishSupersede
  <2>5. publications'[a].step = b.step
        /\ (wasBlocking(d.row) => c \in publications'[a].blocking)
    BY <1>0, <2>1, <2>3, <2>4 DEF Publication
  <2>6. publishing(a)'
    BY <1>1, <2>1, <2>5 DEF publishing, NoPublication, Publication
  <2>7. QED
    BY <1>1, <2>3, <2>5, <2>6 DEF endsSuperseded, holdsBlock, stamping
<1>2. ASSUME publishing(a), NEW e \in Customer, PublishRollout(a, e) PROVE FALSE
  <2>1. b.version \in Version /\ states[e][b.version] = NoRow
    BY <1>2, PublicationInFlight DEF Publication, PublishRollout, exists
  <2>2. save(e, b.version, rolloutRow(a, e))
    BY <1>2 DEF PublishRollout
  <2>3. QED
    BY <1>0, <2>1, <2>2, SavedRow
<1>3. CASE \/ \E w \in Version : PublishRead(a, w)
           \/ PublishSave(a) \/ PublishSiblings(a) \/ PublishFindOpen(a) \/ PublishTargets(a)
           \/ PublishReturn(a) \/ PublishDies(a)
           \/ \E w \in b.predecessors : PublishRetire(a, w)
           \/ \E e \in Customer : PublishRefused(a, e)
  BY <1>3
  DEF PublishRead, PublishSave, PublishSiblings, PublishFindOpen, PublishTargets,
      PublishReturn, PublishDies, PublishRetire, PublishRefused
<1>4. QED
  BY <1>1, <1>2, <1>3 DEF PublishStep, PublishProgress

LEMMA JobEndsBlock ==
  ASSUME StoreTypeOK, ActivateTypeOK, CarryHoldsOpenRow, NEW s \in Sweeper, activating(s),
         ActivateProgress(s), NEW c \in Customer, NEW v \in Version,
         states'[c][v] # states[c][v], states'[c][v].state \in Answer
  PROVE  endsSuperseded(c, v)
<1> USE DEF storeVars, nothingElse
<1> DEFINE b == activations[s]
<1>0. states \in States /\ b \in Activation /\ DOMAIN activations = Sweeper
  BY StoreTypeParts, ActivationInFlight DEF ActivateTypeOK
<1>1. ASSUME NEW d \in b.open, ActivateSupersede(s, d) PROVE endsSuperseded(c, v)
  <2>1. d.customer \in Customer /\ d.version \in Version /\ supersede(d.row).state = "SUPERSEDED"
    BY <1>1, FlushedRow
  <2>2. save(d.customer, d.version, supersede(d.row))
    BY <1>1 DEF ActivateSupersede
  <2>3. d.customer = c /\ d.version = v /\ states'[c][v].state = "SUPERSEDED"
    BY <1>0, <2>1, <2>2, SavedRow
  <2>4. activations' = [activations EXCEPT ![s] =
          [b EXCEPT !.open = b.open \ {d},
                    !.step = IF wasBlocking(d.row) THEN "carryRead" ELSE b.step,
                    !.carry = IF wasBlocking(d.row) THEN {d.customer} ELSE b.carry]]
    BY <1>0, <1>1 DEF ActivateSupersede
  <2>5. /\ activations'[s].current = b.current
        /\ wasBlocking(d.row) => c \in activations'[s].carry
    BY <1>0, <2>3, <2>4 DEF Activation
  <2>6. activations'[s].step \in {"carryRead", b.step}
    BY <1>0, <2>4 DEF Activation
  <2>7. activating(s)'
    BY <1>0, <2>6 DEF activating, NoActivation, Activation
  <2>8. QED
    BY <1>1, <2>3, <2>5, <2>7 DEF endsSuperseded, holdsBlock, carrying
<1>2. CASE CarryWrite(s)
  <2>1. atStep(s, "carryWrite")
    BY <1>2 DEF CarryWrite
  <2>2. PICK e \in b.carry : save(e, b.current, carried(s)) \/ UNCHANGED states
    BY <1>2 DEF CarryWrite
  <2>3. e \in Customer /\ b.current \in Version
    BY <1>0 DEF Activation
  <2> HIDE DEF b
  <2>4. states'[c][v] = carried(s)
    BY <1>0, <2>2, <2>3, SavedRow
  <2>5. QED
    BY <2>1, <2>4, CarriedRow DEF Answer, CARRY_OVER_BLOCKING_STATES
<1>3. CASE \/ ActivateSiblings(s) \/ ActivateFindOpen(s) \/ ActivateReturn(s) \/ CarryRead(s)
           \/ \E w \in b.predecessors : ActivateRetire(s, w)
  BY <1>3 DEF ActivateSiblings, ActivateFindOpen, ActivateReturn, CarryRead, ActivateRetire
<1>4. QED
  BY <1>1, <1>2, <1>3 DEF ActivateProgress

(* A block ends by an answer, by silence or with its row. *)
LEMMA BlockEnds ==
  ASSUME TypedInv, [FlipNext]_flipVars, NEW c \in Customer, NEW v \in Version,
         isBlocking(states[c][v]), ~isBlocking(states'[c][v])
  PROVE  endsAnswered(c, v) \/ endsSilently(c, v) \/ endsSuperseded(c, v)
<1>0. /\ StoreTypeOK /\ ApiTypeOK /\ SweepTypeOK /\ PublishTypeOK /\ ActivateTypeOK /\ JobTypeOK
      /\ HandlersReadRows /\ CarryHoldsOpenRow
  BY DEF TypedInv, FlipTypeOK, TypeOK
<1>1. states'[c][v].state \in Answer
  BY FlipMoves, MoveHoldsBlock
<1>2. states'[c][v] # states[c][v]
  OBVIOUS
<1>3. states[c][v] # NoRow
  BY DEF isBlocking, NoRow, CARRY_OVER_BLOCKING_STATES
<1>4. CASE UNCHANGED flipVars \/ Clock
  BY <1>2, <1>4 DEF flipVars, vars, storeVars, Clock, Tick
<1>5. ASSUME NEW p \in Handler, Api(p) PROVE endsAnswered(c, v) \/ endsSuperseded(c, v)
  BY <1>0, <1>1, <1>2, <1>3, <1>5, HandlerEndsBlock, ReaderHoldsRow DEF Api
<1>6. ASSUME NEW a \in Publisher, Publish(a) PROVE endsSuperseded(c, v)
  BY <1>0, <1>1, <1>2, <1>3, <1>6, PublishEndsBlock DEF Publish
<1>7. ASSUME NEW s \in Sweeper, Job(s) PROVE endsSilently(c, v) \/ endsSuperseded(c, v)
  <2>1. CASE \/ UNCHANGED <<storeVars, sweeps, activations>>
             \/ ActivateCurrent(s) \/ ActivateFails(s) \/ JobDies(s)
    BY <1>2, <2>1 DEF storeVars, ActivateCurrent, ActivateFails, JobDies
  <2>2. CASE activating(s) /\ ActivateProgress(s)
    BY <1>0, <1>1, <1>2, <2>2, JobEndsBlock
  <2>3. CASE SweepStep(s)
    BY <1>0, <1>1, <1>2, <2>3, SweepEndsBlock
  <2>4. QED
    BY <1>0, <1>7, <2>1, <2>2, <2>3, JobCases
<1>8. QED
  BY <1>4, <1>5, <1>6, <1>7 DEF FlipNext

-----------------------------------------------------------------------------
(* The gate *)

(* The rows shown for a customer: those of the version in force, for whoever
   holds the role. *)
LEMMA RowsShown ==
  \A c : shown(c) = IF c \in Holder THEN {states[c][v] : v \in {w \in Version : isCurrent(w)}}
                    ELSE {}
<1> TAKE c
<1> DEFINE roles == IF c \in Holder THEN {Audience} ELSE {}
           inForce == {w \in Version : isCurrent(w)}
<1>1. shown(c) = {states[c][e.version] : e \in {f \in entriesOf(inForce) : f.audience \in roles}}
  BY DEF shown, details, relevantAudiences, customerOf, currentVersions
<1> HIDE DEF inForce
<1>2. CASE c \in Holder
  <2>1. {f \in entriesOf(inForce) : f.audience \in roles} = entriesOf(inForce)
    BY <1>2 DEF entriesOf
  <2>2. {states[c][e.version] : e \in entriesOf(inForce)} = {states[c][v] : v \in inForce}
    <3>1. \A e \in entriesOf(inForce) : e.version \in inForce
      BY DEF entriesOf
    <3>2. ASSUME NEW v \in inForce PROVE \E e \in entriesOf(inForce) : e.version = v
      <4>1. [audience |-> Audience, version |-> v] \in entriesOf(inForce)
        BY DEF entriesOf
      <4>2. QED
        BY <4>1
    <3>3. QED
      BY <3>1, <3>2
  <2>3. QED
    BY <1>1, <1>2, <2>1, <2>2 DEF inForce
<1>3. CASE c \notin Holder
  BY <1>1, <1>3
<1>4. QED
  BY <1>2, <1>3

(* Who is let through: anybody outside the audience, and whoever is blocked by
   no row of a version in force. *)
LEMMA GateIsOpen ==
  \A c : compliant(c) <=>
    (c \in Holder => \A v \in Version : isCurrent(v) => ~isBlocking(states[c][v]))
<1>1. \A c : compliant(c) <=> \A d \in shown(c) : ~isBlocking(d)
  BY DEF compliant, computeCompliance, shown
<1>2. QED
  BY <1>1, RowsShown

(* Whoever is kept out is asked, in every reachable state, for a consent that
   would be taken. *)
THEOREM KeptOutCanAnswer == FlipSpec => []BlockedCanAnswer
<1>1. BlockedCanAnswer
  <2>1. SUFFICES ASSUME NEW c \in Customer, ~compliant(c)
                 PROVE  \E item \in asked(c) :
                          /\ item.blocking
                          /\ acceptable(states[c][item.version])
                          /\ assertVersionCurrent(item.version)
    BY DEF BlockedCanAnswer
  <2>2. PICK v \in Version : isCurrent(v) /\ isBlocking(states[c][v]) /\ c \in Holder
    BY <2>1, GateIsOpen
  <2> DEFINE e == [audience |-> Audience, version |-> v]
             item == [version |-> v, upcoming |-> e \in upcomingVersions,
                      blocking |-> isBlocking(states[c][v]),
                      canObject |-> AcceptanceMode[v] = "PASSIVE" /\ e \notin upcomingVersions]
  <2>3. open(states[c][v]) /\ acceptable(states[c][v])
    BY <2>2
    DEF open, acceptable, isBlocking, PENDING_OPEN_STATES, ACCEPTABLE_FROM,
        CARRY_OVER_BLOCKING_STATES
  <2>4. e \in currentVersions /\ e.audience \in relevantAudiences(customerOf(c), None)
    BY <2>2 DEF currentVersions, entriesOf, relevantAudiences, customerOf
  <2>5. item \in asked(c)
    BY <2>3, <2>4 DEF asked, pendingAgreements
  <2>6. QED
    BY <2>2, <2>3, <2>5 DEF assertVersionCurrent
<1>2. QED
  BY <1>1, PTL

-----------------------------------------------------------------------------
(* The admin list *)

(* Chip and filter agree on any rows, none of which is superseded. *)
LEMMA ChipAgrees ==
  ASSUME NEW ds, \A d \in ds : d \in MaybeRow /\ d.state # "SUPERSEDED"
  PROVE  (summarizeCompliance(ds) = "compliant") <=> matchesCompliance("compliant", ds)
<1>1. \A d \in ds : d.state = "ABSENT" <=> d = NoRow
  BY DEF MaybeRow, NoRow, CustomerVersionState, CvsState
<1>2. ASSUME NEW d \in ds
      PROVE  d.state \in {"ABSENT", "PENDING_NOTIFICATION", "NOTIFIED", "ACCEPTED", "OBJECTED",
                          "EXPIRED_BLOCKING"}
  BY DEF MaybeRow, NoRow, CustomerVersionState, CvsState
<1>3. summarizeCompliance(ds) = "compliant" <=>
        \A d \in ds : ~isBlocking(d) /\ d.state \notin {"OBJECTED"} /\ d.state \notin OUTSTANDING_PENDING
  BY DEF summarizeCompliance, inSome
<1>4. matchesCompliance("compliant", ds) <=>
        \A d \in ds : ~isBlocking(d) /\ (d = NoRow \/ d.state = "ACCEPTED")
  BY DEF matchesCompliance
<1>5. QED
  BY <1>1, <1>2, <1>3, <1>4
  DEF OUTSTANDING_PENDING, isBlocking, CARRY_OVER_BLOCKING_STATES, NoRow

-----------------------------------------------------------------------------
(* Where publishes do not overlap: a retired version stays retired, and rows
   are superseded of retired versions alone. *)

Serial == \A a, b \in Publisher : a = b

(* What is drained after a step was being drained before it, or has just been
   retired. *)
DrainsOn(b, later) ==
  /\ \A v \in later.draining : v \in b.draining \/ isRetired(v)'
  /\ \A d \in later.open : d \in b.open \/ d.version \in b.draining

(* Nor does a run change its mind about what is in force. *)
RunsOn(s, later) ==
  LET b == activations[s]
  IN /\ DrainsOn(b, later)
     /\ later.current = b.current /\ later.at = b.at
     /\ \A r \in later.predecessors :
          r \in b.predecessors \/ \E w \in supplanted(s) : r = versionRow(w)

LEMMA ActivationDrains ==
  ASSUME StoreTypeOK, ActivateTypeOK, NEW s \in Sweeper, activating(s), ActivateProgress(s)
  PROVE  /\ \A t \in Sweeper : t # s => activations'[t] = activations[t]
         /\ activations'[s] = NoActivation \/ RunsOn(s, activations'[s])
<1> USE DEF DrainsOn, RunsOn
<1> DEFINE b == activations[s]
<1>0. b \in Activation /\ DOMAIN activations = Sweeper
  BY ActivationInFlight DEF ActivateTypeOK
<1>1. CASE ActivateSiblings(s)
  <2> DEFINE found == {versionRow(w) : w \in supplanted(s)}
  <2>1. CASE endActivation(s)
    BY <1>0, <2>1 DEF endActivation
  <2>2. CASE activations' = [activations EXCEPT ![s] =
               [b EXCEPT !.step = "predecessors", !.predecessors = found]]
    <3>1. \A r \in found : \E w \in supplanted(s) : r = versionRow(w)
      OBVIOUS
    <3> HIDE DEF found
    <3>2. QED
      BY <1>0, <2>2, <3>1 DEF Activation
  <2>3. QED
    BY <1>0, <1>1, <2>1, <2>2 DEF ActivateSiblings
<1>2. ASSUME NEW w \in b.predecessors, ActivateRetire(s, w) PROVE
        /\ \A t \in Sweeper : t # s => activations'[t] = activations[t]
        /\ RunsOn(s, activations'[s])
  <2>1. isRetired(w.version)'
    BY <1>0, <1>2, StoreTypeParts DEF ActivateRetire, saveRetired, isRetired, Activation, VersionRow
  <2>2. activations' = [activations EXCEPT ![s] =
          [b EXCEPT !.draining = {w.version}, !.predecessors = b.predecessors \ {w}]]
    BY <1>0, <1>2 DEF ActivateRetire
  <2>3. QED
    BY <1>0, <2>1, <2>2 DEF Activation
<1>3. CASE ActivateFindOpen(s)
  <2> DEFINE found == UNION {findOpenByVersion(w) : w \in b.draining}
  <2>1. \A d \in found : d.version \in b.draining
    BY DEF findOpenByVersion, snapshot
  <2>2. activations' = [activations EXCEPT ![s] = [b EXCEPT !.draining = {}, !.open = found]]
    BY <1>0, <1>3 DEF ActivateFindOpen
  <2> HIDE DEF found
  <2>3. QED
    BY <1>0, <2>1, <2>2 DEF Activation
<1>4. ASSUME NEW d \in b.open, ActivateSupersede(s, d) PROVE
        /\ \A t \in Sweeper : t # s => activations'[t] = activations[t]
        /\ RunsOn(s, activations'[s])
  <2>1. activations' = [activations EXCEPT ![s] =
          [b EXCEPT !.open = b.open \ {d},
                    !.step = IF wasBlocking(d.row) THEN "carryRead" ELSE b.step,
                    !.carry = IF wasBlocking(d.row) THEN {d.customer} ELSE b.carry]]
    BY <1>0, <1>4 DEF ActivateSupersede
  <2>2. QED
    BY <1>0, <2>1 DEF Activation
<1>5. CASE ActivateReturn(s)
  BY <1>0, <1>5 DEF ActivateReturn, endActivation
<1>6. CASE CarryRead(s) \/ CarryWrite(s)
  <2>1. \/ endActivation(s)
        \/ \E step, carry, successor : activations' = [activations EXCEPT ![s] =
             [b EXCEPT !.step = step, !.carry = carry, !.successor = successor]]
    <3>1. CASE CarryRead(s)
      <4>1. PICK c \in b.carry :
          LET row == states[c][b.current]
          IN activations' = IF carries(row)
               THEN [activations EXCEPT ![s].step = "carryWrite", ![s].successor = row]
               ELSE [activations EXCEPT ![s].step = "predecessors", ![s].carry = {}]
        BY <3>1 DEF CarryRead
      <4>2. \/ activations' = [activations EXCEPT ![s] =
                 [b EXCEPT !.step = "carryWrite", !.carry = b.carry,
                           !.successor = states[c][b.current]]]
            \/ activations' = [activations EXCEPT ![s] =
                 [b EXCEPT !.step = "predecessors", !.carry = {}, !.successor = b.successor]]
        BY <1>0, <4>1 DEF Activation
      <4>3. QED
        BY <4>2
    <3>2. CASE CarryWrite(s)
      <4>1. \/ endActivation(s)
            \/ activations' = [activations EXCEPT ![s] =
                 [b EXCEPT !.step = "predecessors", !.carry = {}, !.successor = NoRow]]
        BY <1>0, <3>2 DEF CarryWrite
      <4>2. QED
        BY <4>1
    <3>3. QED
      BY <1>6, <3>1, <3>2
  <2>2. QED
    BY <1>0, <2>1 DEF endActivation, Activation
<1>7. QED
  BY <1>1, <1>2, <1>3, <1>4, <1>5, <1>6 DEF ActivateProgress

LEMMA PublicationDrains ==
  ASSUME StoreTypeOK, PublishTypeOK, NEW a \in Publisher, PublishStep(a)
  PROVE  /\ \A o \in Publisher : o # a => publications'[o] = publications[o]
         /\ \/ publications'[a] = NoPublication
            \/ publications'[a].draining = {} /\ publications'[a].open = {}
            \/ publishing(a) /\ DrainsOn(publications[a], publications'[a])
<1> USE DEF DrainsOn
<1> DEFINE b == publications[a]
<1>0. DOMAIN publications = Publisher
  BY DEF PublishTypeOK
<1>1. ASSUME NEW v \in Version, PublishRead(a, v) PROVE
        /\ \A o \in Publisher : o # a => publications'[o] = publications[o]
        /\ publications'[a].draining = {} /\ publications'[a].open = {}
  BY <1>0, <1>1 DEF PublishRead
<1>2. CASE PublishDies(a)
  BY <1>0, <1>2 DEF PublishDies, endPublish
<1>3. CASE publishing(a) /\ PublishProgress(a)
  <2>0. b \in Publication
    BY <1>3, PublicationInFlight
  <2>1. CASE PublishSave(a) \/ PublishSiblings(a) \/ PublishTargets(a)
    <3>1. \E step, predecessors, targets : publications' = [publications EXCEPT ![a] =
            [b EXCEPT !.step = step, !.predecessors = predecessors, !.targets = targets]]
      <4>1. CASE PublishSave(a)
        <5>1. publications' = [publications EXCEPT ![a] =
                [b EXCEPT !.step = IF ValidFrom[b.version] <= now THEN "siblings" ELSE "targets",
                          !.predecessors = b.predecessors, !.targets = b.targets]]
          BY <1>0, <2>0, <4>1 DEF PublishSave, Publication
        <5>2. QED
          BY <5>1
      <4>2. CASE PublishSiblings(a)
        <5> DEFINE read == {versionRow(w) : w \in {x \in Version : Published(x) /\ x # b.version}}
        <5>1. publications' = [publications EXCEPT ![a].step = "predecessors",
                                                   ![a].predecessors = read]
          BY <4>2 DEF PublishSiblings
        <5> HIDE DEF read
        <5>2. publications' = [publications EXCEPT ![a] =
                [b EXCEPT !.step = "predecessors", !.predecessors = read, !.targets = b.targets]]
          BY <1>0, <2>0, <5>1 DEF Publication
        <5>3. QED
          BY <5>2
      <4>3. CASE PublishTargets(a)
        <5>1. publications' = [publications EXCEPT ![a] =
                [b EXCEPT !.step = "rollout", !.predecessors = b.predecessors, !.targets = Holder]]
          BY <1>0, <2>0, <4>3 DEF PublishTargets, Publication
        <5>2. QED
          BY <5>1
      <4>4. QED
        BY <2>1, <4>1, <4>2, <4>3
    <3>2. QED
      BY <1>0, <1>3, <2>0, <3>1 DEF Publication
  <2>2. ASSUME NEW w \in b.predecessors, PublishRetire(a, w) PROVE
          /\ \A o \in Publisher : o # a => publications'[o] = publications[o]
          /\ DrainsOn(b, publications'[a])
    <3>1. isRetired(w.version)'
      BY <2>0, <2>2, StoreTypeParts DEF PublishRetire, saveRetired, isRetired, Publication, VersionRow
    <3>2. publications' = [publications EXCEPT ![a] =
            [b EXCEPT !.draining = {w.version}, !.predecessors = b.predecessors \ {w}]]
      BY <1>0, <2>2 DEF PublishRetire
    <3>3. QED
      BY <1>0, <2>0, <3>1, <3>2 DEF Publication
  <2>3. CASE PublishFindOpen(a)
    <3> DEFINE found == UNION {findOpenByVersion(w) : w \in b.draining}
    <3>1. \A d \in found : d.version \in b.draining
      BY DEF findOpenByVersion, snapshot
    <3>2. publications' = [publications EXCEPT ![a] = [b EXCEPT !.draining = {}, !.open = found]]
      BY <1>0, <2>3 DEF PublishFindOpen
    <3> HIDE DEF found
    <3>3. QED
      BY <1>0, <1>3, <2>0, <3>1, <3>2 DEF Publication
  <2>4. ASSUME NEW d \in b.open, PublishSupersede(a, d) PROVE
          /\ \A o \in Publisher : o # a => publications'[o] = publications[o]
          /\ DrainsOn(b, publications'[a])
    <3>1. publications' = [publications EXCEPT ![a] =
            [b EXCEPT !.open = b.open \ {d},
                      !.blocking = IF wasBlocking(d.row) THEN b.blocking \cup {d.customer}
                                   ELSE b.blocking]]
      BY <1>0, <2>4 DEF PublishSupersede
    <3>2. QED
      BY <1>0, <2>0, <3>1 DEF Publication
  <2>5. ASSUME NEW c \in Customer, PublishRollout(a, c) PROVE
          /\ \A o \in Publisher : o # a => publications'[o] = publications[o]
          /\ DrainsOn(b, publications'[a])
    <3>1. publications' = [publications EXCEPT ![a] = [b EXCEPT !.targets = b.targets \ {c}]]
      BY <1>0, <2>5 DEF PublishRollout
    <3>2. QED
      BY <1>0, <2>0, <3>1 DEF Publication
  <2>6. CASE PublishReturn(a) \/ \E c \in Customer : PublishRefused(a, c)
    BY <1>0, <2>6 DEF PublishReturn, PublishRefused, endPublish
  <2>7. QED
    BY <1>3, <2>1, <2>2, <2>3, <2>4, <2>5, <2>6 DEF PublishProgress
<1>4. QED
  BY <1>1, <1>2, <1>3 DEF PublishStep

(* The predecessors of a run of the job are none of a draft being published. *)
RetiresNoDraft ==
  \A s \in Sweeper : activating(s) =>
    \A r \in activations[s].predecessors : versions[r.version].status # "DRAFT"

LEMMA JobAdvances ==
  ASSUME TypedInv, SavesDraft, RetiresNoDraft, NEW s \in Sweeper, Job(s)
  PROVE  SavesDraft' /\ StatusAdvances
<1> USE DEF storeVars
<1>0. StoreTypeOK /\ ActivateTypeOK /\ JobTypeOK /\ UNCHANGED publications
  BY JobCases DEF TypedInv, FlipTypeOK, TypeOK, outsideJob
<1>1. CASE UNCHANGED versions
  BY <1>0, <1>1, OthersAdvance
<1>2. ASSUME activating(s), NEW w \in activations[s].predecessors, ActivateRetire(s, w)
      PROVE  SavesDraft' /\ StatusAdvances
  <2>1. w.version \in Version /\ versions[w.version].status # "DRAFT"
    BY <1>0, <1>2, ActivationInFlight DEF Activation, VersionRow, RetiresNoDraft
  <2>2. \A v \in Version : versions'[v] = IF v = w.version
          THEN [status |-> "RETIRED", publishedAt |-> w.publishedAt] ELSE versions[v]
    BY <1>0, <1>2, <2>1, StoreTypeParts DEF ActivateRetire, saveRetired
  <2>3. StatusAdvances
    BY <2>2 DEF StatusAdvances
  <2>4. ASSUME NEW a \in Publisher, in(a, "save")
        PROVE  versions'[publications[a].version].status = "DRAFT"
    <3>1. publications[a].version \in Version
      BY <2>4 DEF TypedInv, FlipTypeOK, TypeOK, PublishTypeOK, in, NoPublication, Publication
    <3>2. versions[publications[a].version].status = "DRAFT"
      BY <2>4 DEF SavesDraft
    <3>3. QED
      BY <2>1, <2>2, <3>1, <3>2
  <2>5. QED
    BY <1>0, <2>3, <2>4 DEF SavesDraft, in
<1>3. CASE activating(s) /\ ActivateProgress(s)
  <2>1. CASE \/ ActivateSiblings(s) \/ ActivateFindOpen(s) \/ ActivateReturn(s) \/ CarryRead(s)
             \/ CarryWrite(s) \/ \E d \in activations[s].open : ActivateSupersede(s, d)
    BY <1>1, <2>1
    DEF ActivateSiblings, ActivateFindOpen, ActivateReturn, CarryRead, CarryWrite,
        ActivateSupersede
  <2>2. QED
    BY <1>2, <1>3, <2>1 DEF ActivateProgress
<1>4. CASE \/ UNCHANGED <<storeVars, sweeps, activations>>
           \/ ActivateCurrent(s) \/ ActivateFails(s) \/ JobDies(s)
  BY <1>1, <1>4 DEF ActivateCurrent, ActivateFails, JobDies
<1>5. CASE SweepStep(s)
  BY <1>1, <1>5
  DEF SweepStep, SweepProgress, SweepHandle, SweepFind, SweepSkip, SweepExpire, SweepTacit,
      SweepAppend, SweepEntryFails, SweepDies, sweepContext
<1>6. QED
  BY <1>0, <1>3, <1>4, <1>5, JobCases

LEMMA FlipAdvances ==
  ASSUME Serial, TypedInv, SavesDraft, RetiresNoDraft, [FlipNext]_flipVars
  PROVE  SavesDraft' /\ StatusAdvances
<1>0. TypeOK
  BY DEF TypedInv, FlipTypeOK
<1>1. CASE UNCHANGED flipVars \/ Clock
  BY <1>1, OthersAdvance DEF flipVars, vars, storeVars, Clock, Tick
<1>2. ASSUME NEW p \in Handler, Api(p) PROVE SavesDraft' /\ StatusAdvances
  <2>1. UNCHANGED <<versions, publications>>
    BY <1>2
    DEF Api, ApiStep, ApiStart, ApiProgress, AcceptStart, ObjectRead, NotifyRead, RecordRead,
        AcceptRead, AcceptWrite, RecordCreate, RecordWrite, AcceptanceAppend, ObjectWrite,
        ObjectionAppend, NotifyWrite, HandlerDies, storeVars, contextVars, recordVars
  <2>2. QED
    BY <2>1, OthersAdvance
<1>3. ASSUME NEW a \in Publisher, Publish(a) PROVE SavesDraft' /\ StatusAdvances
  BY <1>0, <1>3, PublishAdvances DEF Publish, Serial
<1>4. ASSUME NEW s \in Sweeper, Job(s) PROVE SavesDraft' /\ StatusAdvances
  BY <1>4, JobAdvances
<1>5. QED
  BY <1>1, <1>2, <1>3, <1>4 DEF FlipNext

(* Who is draining what goes on draining retired versions. *)
LEMMA DrainsStayRetired ==
  ASSUME StatusAdvances, NEW b, NEW later, drainsRetired(b), DrainsOn(b, later),
         b.draining \subseteq Version, \A d \in b.open : d.version \in Version
  PROVE  /\ \A v \in later.draining : isRetired(v)'
         /\ \A d \in later.open : isRetired(d.version)'
BY DEF StatusAdvances, drainsRetired, DrainsOn, isRetired

SerialInv == SavesDraft /\ SupersededIsRetired

LEMMA RunsHoldRetired ==
  ASSUME TypedInv, SupersededIsRetired, StatusAdvances, StoreTypeOK', [FlipNext]_flipVars,
         NEW t \in Sweeper, activating(t)'
  PROVE  /\ drainsRetired(activations[t])'
         /\ \A r \in activations'[t].predecessors : versions'[r.version].status # "DRAFT"
<1> DEFINE b == activations'[t]
<1>0. StoreTypeOK /\ ActivateTypeOK /\ JobTypeOK
  BY DEF TypedInv, FlipTypeOK, TypeOK
<1>1. SUFFICES /\ \A v \in b.draining : isRetired(v)'
               /\ \A d \in b.open : isRetired(d.version)'
               /\ \A r \in b.predecessors : versions'[r.version].status # "DRAFT"
  BY DEF drainsRetired, isRetired
<1>2. ASSUME NEW v \in Version, versions[v].status # "DRAFT" PROVE versions'[v].status # "DRAFT"
  BY <1>0, <1>2, StoreTypeParts DEF StatusAdvances, VersionStatus
<1>3. ASSUME activating(t) PROVE
        /\ activations[t].draining \subseteq Version
        /\ \A d \in activations[t].open : d.version \in Version
        /\ \A r \in activations[t].predecessors :
             r.version \in Version /\ versions'[r.version].status # "DRAFT"
        /\ drainsRetired(activations[t])
  BY <1>0, <1>2, <1>3, ActivationInFlight
  DEF Activation, Snapshot, VersionRow, SupersededIsRetired
<1>4. CASE activations'[t] = activations[t]
  BY <1>3, <1>4, DrainsStayRetired DEF activating, DrainsOn
<1>5. ASSUME NEW s \in Sweeper, Job(s), activations'[t] # activations[t]
      PROVE  /\ \A v \in b.draining : isRetired(v)'
             /\ \A d \in b.open : isRetired(d.version)'
             /\ \A r \in b.predecessors : versions'[r.version].status # "DRAFT"
  <2>1. CASE ActivateCurrent(s)
    BY <1>0, <1>5, <2>1 DEF ActivateCurrent, ActivateTypeOK
  <2>2. CASE activating(s) /\ ActivateProgress(s)
    <3>1. t = s /\ activating(t)
      BY <1>0, <1>5, <2>2, ActivationDrains
    <3>2. /\ DrainsOn(activations[t], b)
          /\ \A r \in b.predecessors :
               r \in activations[t].predecessors \/ versions[r.version].status # "DRAFT"
      BY <1>0, <2>2, <3>1, ActivationDrains
      DEF activating, RunsOn, supplanted, versionRow, Published
    <3>3. \A r \in b.predecessors : r.version \in Version
      <4>1. ActivateTypeOK'
        BY <1>0, <2>2, ActivateKeepsType DEF TypedInv
      <4>2. b \in Activation
        BY <4>1 DEF ActivateTypeOK, activating
      <4>3. QED
        BY <4>2 DEF Activation, VersionRow
    <3>4. QED
      BY <1>2, <1>3, <3>1, <3>2, <3>3, DrainsStayRetired
  <2>3. CASE ActivateFails(s) \/ JobDies(s)
    BY <1>0, <1>5, <2>3
    DEF ActivateFails, JobDies, endActivation, activating, ActivateTypeOK
  <2>4. QED
    BY <1>0, <1>5, <2>1, <2>2, <2>3, JobCases
<1>6. QED
  BY <1>4, <1>5 DEF FlipNext, flipVars

LEMMA PublishesHoldRetired ==
  ASSUME TypedInv, SupersededIsRetired, StatusAdvances, [FlipNext]_flipVars,
         NEW o \in Publisher, publishing(o)'
  PROVE  drainsRetired(publications[o])'
<1> DEFINE b == publications'[o]
<1>0. StoreTypeOK /\ PublishTypeOK /\ JobTypeOK
  BY DEF TypedInv, FlipTypeOK, TypeOK
<1>1. SUFFICES /\ \A v \in b.draining : isRetired(v)'
               /\ \A d \in b.open : isRetired(d.version)'
  BY DEF drainsRetired, isRetired
<1>2. ASSUME publishing(o) PROVE
        /\ publications[o].draining \subseteq Version
        /\ \A d \in publications[o].open : d.version \in Version
        /\ drainsRetired(publications[o])
  BY <1>0, <1>2, PublicationInFlight DEF Publication, Snapshot, SupersededIsRetired
<1>3. CASE publications'[o] = publications[o]
  BY <1>2, <1>3, DrainsStayRetired DEF publishing, DrainsOn
<1>4. ASSUME NEW a \in Publisher, PublishStep(a), publications'[o] # publications[o]
      PROVE  /\ \A v \in b.draining : isRetired(v)'
             /\ \A d \in b.open : isRetired(d.version)'
  <2>1. o = a
    BY <1>0, <1>4, PublicationDrains
  <2>2. \/ b.draining = {} /\ b.open = {}
        \/ publishing(o) /\ DrainsOn(publications[o], b)
    BY <1>0, <1>4, <2>1, PublicationDrains DEF publishing
  <2>3. QED
    BY <1>2, <2>2, DrainsStayRetired
<1>5. QED
  BY <1>0, <1>3, <1>4, JobCases DEF FlipNext, flipVars, vars, Clock, Api, Publish, outsideJob

LEMMA SupersededStaysRetired ==
  ASSUME TypedInv, SupersededIsRetired, StatusAdvances, [FlipNext]_flipVars
  PROVE  SupersededIsRetired'
<1>0. StoreTypeOK /\ ApiTypeOK /\ JobTypeOK
  BY DEF TypedInv, FlipTypeOK, TypeOK
<1>1. StoreTypeOK'
  BY NextTyped DEF TypedInv, FlipTypeOK, TypeOK
<1>2. \A v \in Version : isRetired(v) => isRetired(v)'
  BY DEF StatusAdvances, isRetired
<1>3. ASSUME NEW c \in Customer, NEW v \in Version, states'[c][v].state = "SUPERSEDED"
      PROVE  isRetired(v)'
  BY <1>0, <1>2, <1>3, FlipMoves, MoveSupersedesRetired
<1>4. ASSUME NEW o \in Handler, requests'[o].step = "notifyWrite",
             requests'[o].row.state = "SUPERSEDED"
      PROVE  versions'[requests'[o].version].status = "RETIRED"
  <2>1. CASE requests'[o] = requests[o]
    <3>1. isRetired(requests[o].version) /\ requests[o].version \in Version
      BY <1>0, <1>4, <2>1, RequestInFlight DEF SupersededIsRetired, at, Step, Request
    <3>2. QED
      BY <1>2, <2>1, <3>1 DEF isRetired
  <2>2. CASE requests'[o] # requests[o]
    <3>1. PICK p \in Handler : ApiStep(p)
      BY <1>0, <2>2, RequestsStep
    <3>2. PICK c \in Customer, v \in Version :
            /\ states[c][v] # NoRow
            /\ requests'[o].customer = c /\ requests'[o].version = v
            /\ requests'[o].row =
                 recordAccess(states[c][v], v, now, states[c][v].carryOverBlocking)
      BY <1>0, <1>4, <2>2, <3>1, ApiNotices
    <3>3. states[c][v] \in CustomerVersionState
      BY <1>0, <3>2, StoreTypeParts, RowState DEF States, MaybeRow
    <3>4. states[c][v].state = "SUPERSEDED"
      BY <1>4, <3>2, <3>3, AccessState
    <3>5. isRetired(v)'
      BY <1>0, <1>2, <3>4 DEF SupersededIsRetired
    <3>6. QED
      BY <3>2, <3>5 DEF isRetired
  <2>3. QED
    BY <2>1, <2>2
<1>5. QED
  BY <1>0, <1>1, <1>3, <1>4, RunsHoldRetired, PublishesHoldRetired
  DEF SupersededIsRetired, at, isRetired

LEMMA NextSerialInv ==
  ASSUME Serial, TypedInv, SerialInv, [FlipNext]_flipVars
  PROVE  SerialInv'
<1>1. SavesDraft' /\ StatusAdvances
  BY FlipAdvances DEF SerialInv, SupersededIsRetired, RetiresNoDraft
<1>2. QED
  BY <1>1, SupersededStaysRetired DEF SerialInv

LEMMA InitSerialInv ==
  ASSUME FlipInit
  PROVE  SerialInv
<1>1. SavesDraft
  BY DEF FlipInit, Init, PublishInit, NoPublication, SavesDraft, in
<1>2. SupersededIsRetired
  BY DEF FlipInit, Init, StoreInit, ApiInit, PublishInit, ActivateInit, SupersededIsRetired, NoRow,
         Idle, at, activating, publishing
<1>3. QED
  BY <1>1, <1>2 DEF SerialInv

(* Where no two publish requests overlap, the admin list is of one mind:
   whoever it shows as compliant is found by the filter for compliant
   customers, whatever a flip has done to their rows. *)
THEOREM SerialChip ==
  ASSUME Serial
  PROVE  FlipSpec => []ChipMatchesFilter
<1>1. TypedInv /\ SerialInv => ChipMatchesFilter
  <2> SUFFICES ASSUME TypedInv, SerialInv, NEW c \in Customer
               PROVE  (summarizeCompliance(shown(c)) = "compliant")
                        <=> matchesCompliance("compliant", shown(c))
    BY DEF ChipMatchesFilter
  <2>1. states \in States
    BY StoreTypeParts DEF TypedInv, FlipTypeOK, TypeOK
  <2>2. ASSUME NEW v \in Version, isCurrent(v)
        PROVE  states[c][v] \in MaybeRow /\ states[c][v].state # "SUPERSEDED"
    BY <2>1, <2>2
    DEF States, SerialInv, SupersededIsRetired, isRetired, isCurrent, InEffect, Published
  <2>3. \A d \in shown(c) : d \in MaybeRow /\ d.state # "SUPERSEDED"
    BY <2>2, RowsShown
  <2>4. QED
    BY <2>3, ChipAgrees
<1>2. FlipInv => TypedInv
  BY FlipInvParts
<1>3. FlipInv /\ SerialInv /\ [FlipNext]_flipVars => SerialInv'
  BY <1>2, NextSerialInv
<1>4. FlipInit => SerialInv
  BY InitSerialInv
<1>5. QED
  BY <1>1, <1>2, <1>3, <1>4, FlipInvariance, PTL DEF FlipSpec

-----------------------------------------------------------------------------
(* The dashboard *)

(* What a version's statistics count. *)
acceptedCustomers(v) == {c \in Customer : states[c][v].state = "ACCEPTED"}
evidenceOf(v) == {a \in acceptances : a.version = v /\ a.customer \in acceptedCustomers(v)}

LEMMA Counted ==
  ASSUME states \in States, NEW v \in Version
  PROVE  /\ statsOf(v).accepted = Cardinality(acceptedCustomers(v))
         /\ statsOf(v).evidenced = Cardinality(evidenceOf(v))
<1> DEFINE rows == [c \in Customer |-> states[c][v]]
           evidence == {a \in acceptances : a.version = v}
           among == {c \in relevantStates(rows, {}) : rows[c].state \in {"ACCEPTED"}}
<1>1. /\ statsOf(v).accepted = Cardinality(among)
      /\ statsOf(v).evidenced = Cardinality({a \in evidence : a.customer \in among})
  BY DEF statsOf, computeStats
<1>2. among = acceptedCustomers(v)
  BY DEF relevantStates, acceptedCustomers, NoRow
<1> HIDE DEF among
<1>3. {a \in evidence : a.customer \in among} = evidenceOf(v)
  BY <1>2 DEF evidenceOf
<1>4. QED
  BY <1>1, <1>2, <1>3

(* With one acceptance per customer the customers on record are as many as
   their records. *)
LEMMA OneRecordEach ==
  ASSUME OneAcceptanceEach, IsFiniteSet(Customer), NEW v \in Version,
         NEW proven, proven = {c \in acceptedCustomers(v) : accepted(c, v)}
  PROVE  Cardinality(evidenceOf(v)) = Cardinality(proven)
<1> DEFINE record == [c \in proven |-> CHOOSE a \in evidenceOf(v) : a.customer = c]
<1>1. IsFiniteSet(proven)
  BY FS_Subset DEF acceptedCustomers
<1>2. ASSUME NEW c \in proven PROVE record[c] \in evidenceOf(v) /\ record[c].customer = c
  <2>1. \E a \in evidenceOf(v) : a.customer = c
    BY DEF accepted, evidenceOf
  <2>2. QED
    BY <2>1
<1>3. ASSUME NEW a \in evidenceOf(v) PROVE a.customer \in proven /\ record[a.customer] = a
  <2>1. a.customer \in proven
    BY DEF evidenceOf, accepted
  <2>2. record[a.customer] \in evidenceOf(v) /\ record[a.customer].customer = a.customer
    BY <1>2, <2>1
  <2> HIDE DEF record
  <2>3. QED
    BY <2>1, <2>2 DEF evidenceOf, OneAcceptanceEach
<1>4. record \in [proven -> evidenceOf(v)]
  BY <1>2
<1> HIDE DEF record
<1>5. record \in Injection(proven, evidenceOf(v))
  BY <1>2, <1>4 DEF Injection, IsInjective
<1>6. record \in Surjection(proven, evidenceOf(v))
  BY <1>3, <1>4 DEF Surjection
<1>7. ExistsBijection(proven, evidenceOf(v))
  BY <1>5, <1>6 DEF ExistsBijection, Bijection
<1>8. QED
  BY <1>1, <1>7, FS_Bijection

(* The dashboard's breakdown by method accounts for every accepted customer
   but those whose evidence is on its way or was lost to a crash. *)
THEOREM BreakdownAccountsForAll ==
  ASSUME IsFiniteSet(Customer)
  PROVE  FlipSpec => []BreakdownSums
<1>1. FlipInv => BreakdownSums
  <2> SUFFICES ASSUME FlipInv PROVE BreakdownSums
    OBVIOUS
  <2>0. states \in States /\ AcceptedRowHasEvidence /\ OneAcceptanceEach
    BY StoreTypeParts DEF FlipInv, FlipTypeOK, TypeOK
  <2>1. SUFFICES ASSUME NEW v \in Version
                 PROVE  LET unproven == {c \in Customer :
                              /\ states[c][v].state = "ACCEPTED" /\ ~accepted(c, v)
                              /\ evidencePending(c, v) \/ <<c, v>> \in orphans}
                        IN statsOf(v).accepted = statsOf(v).evidenced + Cardinality(unproven)
    BY DEF BreakdownSums
  <2> DEFINE all == acceptedCustomers(v)
             proven == {c \in all : accepted(c, v)}
             unproven == {c \in Customer :
                            /\ states[c][v].state = "ACCEPTED" /\ ~accepted(c, v)
                            /\ evidencePending(c, v) \/ <<c, v>> \in orphans}
  <2>2. all = proven \cup unproven /\ proven \cap unproven = {}
    BY <2>0 DEF acceptedCustomers, AcceptedRowHasEvidence
  <2>3. IsFiniteSet(proven) /\ IsFiniteSet(unproven)
    BY FS_Subset DEF acceptedCustomers
  <2>4. Cardinality(evidenceOf(v)) = Cardinality(proven)
    BY <2>0, OneRecordEach
  <2> HIDE DEF all, proven, unproven
  <2>5. Cardinality(all) = Cardinality(proven) + Cardinality(unproven)
    <3>1. Cardinality(proven \cup unproven) =
            Cardinality(proven) + Cardinality(unproven) - Cardinality(proven \cap unproven)
      BY <2>3, FS_Union
    <3>2. Cardinality(proven) \in Nat /\ Cardinality(unproven) \in Nat
      BY <2>3, FS_CardinalityType
    <3>3. Cardinality(proven \cap unproven) = 0
      BY <2>2, FS_EmptySet
    <3>4. Cardinality(all) = Cardinality(proven) + Cardinality(unproven) - 0
      BY <2>2, <3>1, <3>3
    <3>5. QED
      BY <3>2, <3>4
  <2>6. statsOf(v).accepted = Cardinality(all) /\ statsOf(v).evidenced = Cardinality(proven)
    BY <2>0, <2>4, Counted DEF all
  <2>7. QED
    BY <2>5, <2>6 DEF unproven
<1>2. QED
  BY <1>1, FlipInvariance, PTL

-----------------------------------------------------------------------------
(* What a run holds of blocks. *)

(* A run carries the block of one customer at a time, and none before it has
   found the rows to supersede. *)
carriesOne(b) ==
  /\ b.step \in {"siblings", "predecessors"} => b.carry = {}
  /\ \A c, d \in b.carry : c = d

CarriesOne == \A s \in Sweeper : activating(s) => carriesOne(activations[s])

LEMMA ActivationCarriesOne ==
  ASSUME ActivateTypeOK, NEW s \in Sweeper, activating(s), ActivateProgress(s),
         carriesOne(activations[s])
  PROVE  activations'[s] = NoActivation \/ carriesOne(activations'[s])
<1> DEFINE b == activations[s]
           e == activations'[s]
<1>0. b \in Activation /\ DOMAIN activations = Sweeper
  BY ActivationInFlight DEF ActivateTypeOK
<1>1. CASE endActivation(s)
  BY <1>0, <1>1 DEF endActivation
<1>2. CASE ActivateSiblings(s) /\ ~endActivation(s)
  <2>1. activations' = [activations EXCEPT ![s] =
          [b EXCEPT !.step = "predecessors",
                    !.predecessors = {versionRow(w) : w \in supplanted(s)}]]
    BY <1>0, <1>2 DEF ActivateSiblings
  <2>2. e.carry = b.carry /\ b.step = "siblings"
    BY <1>0, <1>2, <2>1 DEF Activation, ActivateSiblings, atStep
  <2>3. QED
    BY <2>2 DEF carriesOne
<1>3. ASSUME NEW w \in b.predecessors, ActivateRetire(s, w) PROVE carriesOne(e)
  <2>1. activations' = [activations EXCEPT ![s] =
          [b EXCEPT !.draining = {w.version}, !.predecessors = b.predecessors \ {w}]]
    BY <1>0, <1>3 DEF ActivateRetire
  <2>2. e.carry = b.carry /\ e.step = b.step
    BY <1>0, <2>1 DEF Activation
  <2>3. QED
    BY <2>2 DEF carriesOne
<1>4. CASE ActivateFindOpen(s)
  <2> DEFINE found == UNION {findOpenByVersion(w) : w \in b.draining}
  <2>1. activations' = [activations EXCEPT ![s] = [b EXCEPT !.draining = {}, !.open = found]]
    BY <1>0, <1>4 DEF ActivateFindOpen
  <2> HIDE DEF found
  <2>2. e.carry = b.carry /\ e.step = b.step
    BY <1>0, <2>1 DEF Activation
  <2>3. QED
    BY <2>2 DEF carriesOne
<1>5. ASSUME NEW d \in b.open, ActivateSupersede(s, d) PROVE carriesOne(e)
  <2>1. activations' = [activations EXCEPT ![s] =
          [b EXCEPT !.open = b.open \ {d},
                    !.step = IF wasBlocking(d.row) THEN "carryRead" ELSE b.step,
                    !.carry = IF wasBlocking(d.row) THEN {d.customer} ELSE b.carry]]
    BY <1>0, <1>5 DEF ActivateSupersede
  <2>2. \/ e.carry = {d.customer} /\ e.step = "carryRead"
        \/ e.carry = b.carry /\ e.step = b.step
    BY <1>0, <2>1 DEF Activation
  <2>3. QED
    BY <2>2 DEF carriesOne
<1>6. CASE CarryRead(s)
  <2>1. PICK c \in b.carry :
          LET row == states[c][b.current]
          IN activations' = IF carries(row)
               THEN [activations EXCEPT ![s].step = "carryWrite", ![s].successor = row]
               ELSE [activations EXCEPT ![s].step = "predecessors", ![s].carry = {}]
    BY <1>6 DEF CarryRead
  <2>2. e.carry = {} \/ (e.carry = b.carry /\ e.step = "carryWrite")
    BY <1>0, <2>1 DEF Activation
  <2>3. QED
    BY <2>2 DEF carriesOne
<1>7. CASE CarryWrite(s) /\ ~endActivation(s)
  <2>1. activations' = [activations EXCEPT ![s] =
          [b EXCEPT !.step = "predecessors", !.carry = {}, !.successor = NoRow]]
    BY <1>0, <1>7 DEF CarryWrite
  <2>2. e.carry = {}
    BY <1>0, <2>1 DEF Activation
  <2>3. QED
    BY <2>2 DEF carriesOne
<1>8. QED
  BY <1>1, <1>2, <1>3, <1>4, <1>5, <1>6, <1>7 DEF ActivateProgress, ActivateReturn

LEMMA NextCarriesOne ==
  ASSUME TypedInv, CarriesOne, [FlipNext]_flipVars
  PROVE  CarriesOne'
<1>0. StoreTypeOK /\ ActivateTypeOK /\ JobTypeOK
  BY DEF TypedInv, FlipTypeOK, TypeOK
<1>1. CASE UNCHANGED activations
  BY <1>1 DEF CarriesOne, activating
<1>2. ASSUME NEW t \in Sweeper, Job(t), NEW s \in Sweeper, activating(s)',
             activations'[s] # activations[s]
      PROVE  carriesOne(activations'[s])
  <2>1. CASE ActivateCurrent(t)
    <3>1. PICK v \in Version :
            activations' = [activations EXCEPT ![t] =
              [step |-> "siblings", current |-> v, at |-> now, predecessors |-> {},
               draining |-> {}, open |-> {}, carry |-> {}, successor |-> NoRow]]
      BY <2>1 DEF ActivateCurrent
    <3>2. activations'[s].carry = {}
      BY <1>0, <1>2, <3>1 DEF ActivateTypeOK
    <3>3. QED
      BY <3>2 DEF carriesOne
  <2>2. CASE activating(t) /\ ActivateProgress(t)
    <3>1. t = s
      BY <1>0, <1>2, <2>2, ActivationDrains
    <3>2. carriesOne(activations[s])
      BY <2>2, <3>1 DEF CarriesOne
    <3>3. QED
      BY <1>0, <1>2, <2>2, <3>1, <3>2, ActivationCarriesOne DEF activating
  <2>3. CASE ActivateFails(t) \/ JobDies(t)
    BY <1>0, <1>2, <2>3 DEF ActivateFails, JobDies, endActivation, activating, ActivateTypeOK
  <2>4. QED
    BY <1>0, <1>2, <2>1, <2>2, <2>3, JobCases
<1>3. CASE \E t \in Sweeper : Job(t)
  <2>1. \A s \in Sweeper : activating(s)' => carriesOne(activations'[s])
    BY <1>2, <1>3 DEF CarriesOne, activating
  <2>2. QED
    BY <2>1 DEF CarriesOne, carriesOne
<1>4. QED
  BY <1>1, <1>3 DEF FlipNext, flipVars

(* A run lets go of a block for a reason. *)
LEMMA RunLetsGo ==
  ASSUME TypedInv, CarriesOne, NEW s \in Sweeper, ActivateProgress(s),
         NEW c \in Customer, carrying(s, c), ~carrying(s, c)'
  PROVE  letsGo(s, c)
<1> USE DEF storeVars, nothingElse
<1> DEFINE b == activations[s]
<1>0. /\ StoreTypeOK /\ ActivateTypeOK /\ CarryHoldsOpenRow /\ activating(s)
      /\ states \in States /\ b \in Activation /\ DOMAIN activations = Sweeper
  BY StoreTypeParts, ActivationInFlight DEF TypedInv, FlipTypeOK, TypeOK, ActivateTypeOK, carrying
<1>1. c \in b.carry /\ b.current \in Version /\ \A d \in b.carry : d = c
  BY <1>0 DEF carrying, CarriesOne, carriesOne, Activation
<1>2. b.step \notin {"siblings", "predecessors"}
  BY <1>0, <1>1 DEF CarriesOne, carriesOne
<1>3. CASE CarryRead(s)
  <2> DEFINE row == states[c][b.current]
  <2>1. activations' = IF carries(row)
          THEN [activations EXCEPT ![s].step = "carryWrite", ![s].successor = row]
          ELSE [activations EXCEPT ![s].step = "predecessors", ![s].carry = {}]
    BY <1>1, <1>3 DEF CarryRead
  <2>2. UNCHANGED states
    BY <1>3 DEF CarryRead
  <2>3. ~carries(row)
    <3>1. ASSUME carries(row) PROVE FALSE
      <4>1. activations'[s].carry = b.carry /\ activations'[s].step = "carryWrite"
        BY <1>0, <2>1, <3>1 DEF Activation
      <4>2. activating(s)'
        BY <4>1 DEF activating, NoActivation
      <4>3. QED
        BY <1>1, <4>1, <4>2 DEF carrying
    <3>2. QED
      BY <3>1
  <2>4. row # NoRow /\ row \in CustomerVersionState
    BY <1>0, <1>1, <2>3, RowState DEF States, carries
  <2>5. row.state \in CvsState
    BY <2>4, RowState DEF CustomerVersionState
  <2>6. isBlocking(row) \/ row.state \in {"ACCEPTED", "OBJECTED", "SUPERSEDED"}
    BY <2>3, <2>5 DEF carries, isBlocking, CvsState, CARRY_OVER_BLOCKING_STATES
  <2>7. QED
    BY <2>2, <2>6 DEF letsGo
<1>4. CASE CarryWrite(s)
  <2>1. IF b.successor = NoRow /\ exists(c, b.current)
        THEN endActivation(s) /\ UNCHANGED states
        ELSE save(c, b.current, carried(s))
    BY <1>1, <1>4 DEF CarryWrite
  <2>2. atStep(s, "carryWrite")
    BY <1>4 DEF CarryWrite
  <2>3. CASE b.successor = NoRow /\ exists(c, b.current)
    BY <2>2, <2>3 DEF letsGo
  <2>4. CASE ~(b.successor = NoRow /\ exists(c, b.current))
    <3>1. states'[c][b.current] = carried(s)
      <4>1. save(c, b.current, carried(s))
        BY <2>1, <2>4
      <4>2. b.current \in Version
        BY <1>1
      <4> HIDE DEF b
      <4>3. QED
        BY <1>0, <4>1, <4>2, SavedRow
    <3>2. isBlocking(carried(s))
      BY <1>0, <2>2, CarriedRow DEF isBlocking
    <3>3. QED
      BY <3>1, <3>2 DEF letsGo
  <2>5. QED
    BY <2>3, <2>4
<1>5. ASSUME NEW w \in b.predecessors, ActivateRetire(s, w) PROVE FALSE
  BY <1>2, <1>5 DEF ActivateRetire, flushed, atStep
<1>6. ASSUME NEW d \in b.open, ActivateSupersede(s, d) PROVE FALSE
  BY <1>2, <1>6 DEF ActivateSupersede, atStep
<1>7. CASE ActivateSiblings(s) \/ ActivateFindOpen(s) \/ ActivateReturn(s)
  BY <1>2, <1>7 DEF ActivateSiblings, ActivateFindOpen, ActivateReturn, flushed, atStep
<1>8. QED
  BY <1>3, <1>4, <1>5, <1>6, <1>7 DEF ActivateProgress

LEMMA BlockLetGo ==
  ASSUME TypedInv, CarriesOne, [FlipNext]_flipVars, NEW s \in Sweeper,
         NEW c \in Customer, carrying(s, c), ~carrying(s, c)'
  PROVE  letsGo(s, c)
<1>0. /\ StoreTypeOK /\ ActivateTypeOK /\ JobTypeOK /\ faults \in Nat /\ DOMAIN activations = Sweeper
  BY DEF TypedInv, FlipTypeOK, TypeOK, StoreTypeOK, ActivateTypeOK
<1>1. activations'[s] # activations[s]
  BY DEF carrying, activating
<1>2. PICK t \in Sweeper : Job(t)
  BY <1>1 DEF FlipNext, flipVars
<1>3. CASE ActivateCurrent(t)
  <2>1. t # s
    BY <1>3 DEF ActivateCurrent, carrying
  <2>2. QED
    BY <1>0, <1>1, <1>3, <2>1 DEF ActivateCurrent
<1>4. CASE activating(t) /\ ActivateProgress(t)
  <2>1. t = s
    BY <1>0, <1>1, <1>4, ActivationDrains
  <2>2. QED
    BY <1>4, <2>1, RunLetsGo
<1>5. CASE ActivateFails(t) \/ JobDies(t)
  <2>1. faults' = faults + 1
    BY <1>5 DEF ActivateFails, JobDies, Fault
  <2>2. faults' # faults
    BY <1>0, <2>1
  <2>3. QED
    BY <2>2 DEF letsGo
<1>6. QED
  BY <1>0, <1>1, <1>2, <1>3, <1>4, <1>5, JobCases

(* No block gets lost in any behaviour of requests, publishes, overlapping and
   failing runs: it ends by an answer, by silence or with its row, and what a
   run has taken from a row it brings to the row of the version it flips to,
   unless that row is settled, has just come into being, or the run fails. *)
THEOREM BlocksAreAccountedFor == FlipSpec => BlockIsAccountedFor
<1>1. FlipInit => TypedInv /\ CarriesOne
  <2>1. FlipInit => FlipInv
    BY InitFlipInv
  <2>2. QED
    BY <2>1, FlipInvParts DEF FlipInit, ActivateInit, CarriesOne, activating
<1>2. TypedInv /\ CarriesOne /\ [FlipNext]_flipVars => TypedInv' /\ CarriesOne'
  BY NextTyped, NextCarriesOne
<1>3. TypedInv /\ CarriesOne /\ [FlipNext]_flipVars =>
        [\A c \in Customer :
           /\ \A v \in Version :
                isBlocking(states[c][v]) /\ ~isBlocking(states'[c][v]) =>
                  endsAnswered(c, v) \/ endsSilently(c, v) \/ endsSuperseded(c, v)
           /\ \A s \in Sweeper :
                carrying(s, c) /\ ~carrying(s, c)' => letsGo(s, c)]_flipVars
  BY BlockEnds, BlockLetGo
<1>4. QED
  BY <1>1, <1>2, <1>3, PTL DEF FlipSpec, BlockIsAccountedFor

-----------------------------------------------------------------------------
(* While nothing is published: the versions in force. *)

QuietNext == FlipNext /\ UNCHANGED publications

(* With no publish under way a step that starts none is nobody's publish. *)
LEMMA QuietSteps ==
  ASSUME PublishInit, [QuietNext]_flipVars
  PROVE  /\ PublishInit'
         /\ \/ UNCHANGED <<versions, activations>> /\ now' \in {now, now + 1}
            \/ \E s \in Sweeper : Job(s)
<1> USE DEF storeVars
<1>1. PublishInit'
  BY DEF QuietNext, flipVars, vars, PublishInit
<1>2. CASE Clock /\ UNCHANGED <<activations, jobs>>
  BY <1>1, <1>2 DEF Clock, Tick
<1>3. ASSUME NEW p \in Handler, Api(p), UNCHANGED <<activations, jobs>>
      PROVE  UNCHANGED <<now, versions, activations>>
  BY <1>3
  DEF Api, ApiStep, ApiStart, ApiProgress, AcceptStart, ObjectRead, NotifyRead, RecordRead,
      AcceptRead, AcceptWrite, RecordCreate, RecordWrite, AcceptanceAppend, ObjectWrite,
      ObjectionAppend, NotifyWrite, HandlerDies, contextVars, recordVars
<1>4. ASSUME NEW a \in Publisher, Publish(a), UNCHANGED publications PROVE FALSE
  <2>1. ~publishing(a)
    BY DEF PublishInit, publishing
  <2>2. PICK v \in Version : PublishRead(a, v)
    BY <1>4, <2>1 DEF Publish, PublishStep, PublishDies
  <2>3. publications'[a].step = "save" /\ publications[a].step = "idle"
    BY <2>2 DEF PublishRead, PublishInit, NoPublication
  <2>4. QED
    BY <1>4, <2>3
<1>5. CASE QuietNext
  <2>1. CASE \E s \in Sweeper : Job(s)
    BY <1>1, <2>1
  <2>2. CASE \E p \in Handler : Api(p) /\ UNCHANGED <<activations, jobs>>
    <3>1. UNCHANGED <<now, versions, activations>>
      BY <1>3, <2>2
    <3>2. QED
      BY <1>1, <3>1
  <2>3. CASE Clock /\ UNCHANGED <<activations, jobs>>
    BY <1>2, <2>3
  <2>4. QED
    BY <1>4, <1>5, <2>1, <2>2, <2>3 DEF QuietNext, FlipNext
<1>6. CASE UNCHANGED flipVars
  BY <1>1, <1>6 DEF flipVars, vars
<1>7. QED
  BY <1>5, <1>6

(* Of the published versions, by day and by time of publication. *)
LEMMA OlderIsOrder ==
  ASSUME StoreTypeOK, PublishedInOrder, NEW u \in Version, NEW v \in Version, NEW w \in Version,
         versions[u].status # "DRAFT", versions[v].status # "DRAFT", versions[w].status # "DRAFT"
  PROVE  ~older(u, u) /\ (older(u, v) /\ older(v, w) => older(u, w)) /\ ~(older(u, v) /\ older(v, u))
<1>1. \A x \in {u, v, w} : versions[x].publishedAt \in Nat
  BY StoreTypeParts DEF PublishedInOrder, MaybeTime
<1>2. \A x \in {u, v, w} : ValidFrom[x] \in Nat
  BY VersionAssumption
<1>3. QED
  BY <1>1, <1>2 DEF older

(* A run replaces no version but by its retired self, and one that is older
   than another still in effect. *)
LEMMA QuietRetires ==
  ASSUME TypedInv, SupersededIsRetired, PublishedInOrder, RetiresOlder, PublishInit,
         [QuietNext]_flipVars, NEW v \in Version, versions'[v] # versions[v]
  PROVE  /\ versions[v].status # "DRAFT"
         /\ versions'[v] = [status |-> "RETIRED", publishedAt |-> versions[v].publishedAt]
         /\ \E u \in Version : InEffect(u) /\ older(v, u) /\ versions'[u] = versions[u]
<1>0. StoreTypeOK /\ ActivateTypeOK /\ JobTypeOK
  BY DEF TypedInv, FlipTypeOK, TypeOK
<1>1. PICK s \in Sweeper : Job(s)
  BY QuietSteps
<1>2. activating(s) /\ \E w \in activations[s].predecessors : ActivateRetire(s, w)
  <2>1. CASE \/ UNCHANGED <<storeVars, sweeps, activations>>
             \/ ActivateCurrent(s) \/ ActivateFails(s) \/ JobDies(s)
    BY <2>1 DEF ActivateCurrent, ActivateFails, JobDies, storeVars
  <2>2. CASE SweepStep(s)
    BY <2>2
    DEF SweepStep, SweepProgress, SweepHandle, SweepFind, SweepSkip, SweepExpire, SweepTacit,
        SweepAppend, SweepEntryFails, SweepDies, sweepContext, storeVars
  <2>3. CASE activating(s) /\ ActivateProgress(s)
    BY <2>3
    DEF ActivateProgress, ActivateSiblings, ActivateFindOpen, ActivateReturn, CarryRead,
        CarryWrite, ActivateSupersede, storeVars
  <2>4. QED
    BY <1>0, <1>1, <2>1, <2>2, <2>3, JobCases
<1>3. PICK w \in activations[s].predecessors : ActivateRetire(s, w)
  BY <1>2
<1> DEFINE b == activations[s]
<1>4. b \in Activation /\ w.version \in Version /\ b.current \in Version
  BY <1>0, <1>2, ActivationInFlight DEF Activation, VersionRow
<1>5. versions' = [versions EXCEPT ![w.version] =
                     [status |-> "RETIRED", publishedAt |-> w.publishedAt]]
  BY <1>3 DEF ActivateRetire, saveRetired
<1>6. v = w.version /\ versions'[v] = [status |-> "RETIRED", publishedAt |-> w.publishedAt]
  BY <1>0, <1>4, <1>5, StoreTypeParts
<1>7. /\ versions[v].status # "DRAFT" /\ versions[b.current].status # "DRAFT"
      /\ w.publishedAt = versions[v].publishedAt /\ older(v, b.current)
  BY <1>2, <1>6 DEF SupersededIsRetired, RetiresOlder, retiresOlder
<1>8. PICK u \in Version : InEffect(u) /\ (u = b.current \/ older(b.current, u))
  BY <1>2 DEF RetiresOlder, retiresOlder
<1>9. versions[u].status # "DRAFT"
  BY <1>8 DEF InEffect, Published
<1>10. older(v, u)
  BY <1>0, <1>4, <1>7, <1>8, <1>9, OlderIsOrder
<1>11. u # v
  BY <1>0, <1>7, <1>10, OlderIsOrder
<1>12. versions'[u] = versions[u]
  BY <1>0, <1>4, <1>5, <1>6, <1>11, StoreTypeParts
<1>13. QED
  BY <1>6, <1>7, <1>8, <1>10, <1>12

LEMMA JobKeepsTime ==
  ASSUME JobTypeOK, NEW s \in Sweeper, Job(s)
  PROVE  UNCHANGED now
<1>1. CASE \/ UNCHANGED <<storeVars, sweeps, activations>>
           \/ ActivateCurrent(s) \/ ActivateFails(s) \/ JobDies(s)
  BY <1>1 DEF ActivateCurrent, ActivateFails, JobDies, storeVars
<1>2. CASE SweepStep(s)
  BY <1>2
  DEF SweepStep, SweepProgress, SweepHandle, SweepFind, SweepSkip, SweepExpire, SweepTacit,
      SweepAppend, SweepEntryFails, SweepDies, sweepContext, storeVars
<1>3. CASE ActivateProgress(s)
  <2> USE DEF nothingElse, storeVars
  <2>1. ASSUME NEW w \in activations[s].predecessors, ActivateRetire(s, w) PROVE UNCHANGED now
    BY <2>1 DEF ActivateRetire
  <2>2. ASSUME NEW d \in activations[s].open, ActivateSupersede(s, d) PROVE UNCHANGED now
    BY <2>2 DEF ActivateSupersede
  <2>3. CASE \/ ActivateSiblings(s) \/ ActivateFindOpen(s) \/ ActivateReturn(s)
             \/ CarryRead(s) \/ CarryWrite(s)
    BY <2>3 DEF ActivateSiblings, ActivateFindOpen, ActivateReturn, CarryRead, CarryWrite
  <2>4. QED
    BY <1>3, <2>1, <2>2, <2>3 DEF ActivateProgress
<1>4. QED
  BY <1>1, <1>2, <1>3, JobCases

(* What is left of the order and of the versions in effect. *)
LEMMA QuietOrder ==
  ASSUME TypedInv, SupersededIsRetired, PublishedInOrder, RetiresOlder, PublishInit,
         [QuietNext]_flipVars
  PROVE  /\ StatusAdvances /\ now \in Nat /\ now' \in {now, now + 1}
         /\ \A v \in Version : versions'[v].publishedAt = versions[v].publishedAt
         /\ \A v \in Version : Published(v)' => Published(v)
         /\ \A v \in Version : versions[v].status # "DRAFT" <=> versions'[v].status # "DRAFT"
         /\ \A u, v \in Version : older(u, v)' <=> older(u, v)
         /\ PublishedInOrder'
<1>0. StoreTypeOK /\ JobTypeOK /\ now \in Nat
  BY DEF TypedInv, FlipTypeOK, TypeOK, StoreTypeOK
<1>a. ASSUME NEW v \in Version
      PROVE  /\ versions'[v].publishedAt = versions[v].publishedAt
             /\ \/ versions'[v].status = versions[v].status
                \/ versions[v].status # "DRAFT" /\ versions'[v].status = "RETIRED"
  <2>1. CASE versions'[v] = versions[v]
    BY <2>1
  <2>2. CASE versions'[v] # versions[v]
    <3>1. /\ versions[v].status # "DRAFT"
          /\ versions'[v] = [status |-> "RETIRED", publishedAt |-> versions[v].publishedAt]
      BY <2>2, QuietRetires
    <3>2. QED
      BY <3>1
  <2>3. QED
    BY <2>1, <2>2
<1>1. \A v \in Version : versions'[v].publishedAt = versions[v].publishedAt
  BY <1>a
<1>2. \A v \in Version : Published(v)' => Published(v)
  BY <1>a DEF Published
<1>3. \A v \in Version : versions[v].status # "DRAFT" <=> versions'[v].status # "DRAFT"
  BY <1>a
<1>4. StatusAdvances
  BY <1>a DEF StatusAdvances
<1>5. \A u, v \in Version : older(u, v)' <=> older(u, v)
  BY <1>1 DEF older
<1>6. PublishedInOrder'
  BY <1>1, <1>2, <1>3, <1>5 DEF PublishedInOrder
<1>7. now' \in {now, now + 1}
  BY <1>0, QuietSteps, JobKeepsTime
<1>8. QED
  BY <1>0, <1>1, <1>2, <1>3, <1>4, <1>5, <1>6, <1>7

(* A version in effect stays so, or makes room for a newer one. *)
LEMMA QuietInEffect ==
  ASSUME TypedInv, SupersededIsRetired, PublishedInOrder, RetiresOlder, PublishInit,
         [QuietNext]_flipVars, NEW v \in Version, InEffect(v)
  PROVE  \E u \in Version : InEffect(u)' /\ (u = v \/ older(v, u)) /\ versions[u].status # "DRAFT"
<1>1. ASSUME NEW u \in Version, InEffect(u), versions'[u] = versions[u]
      PROVE  InEffect(u)' /\ versions[u].status # "DRAFT"
  <2>1. ValidFrom[u] \in Nat /\ now \in Nat /\ now' \in {now, now + 1}
    BY QuietOrder, VersionAssumption
  <2>2. QED
    BY <1>1, <2>1 DEF InEffect, Published
<1>2. CASE versions'[v] = versions[v]
  BY <1>1, <1>2
<1>3. CASE versions'[v] # versions[v]
  BY <1>1, <1>3, QuietRetires
<1>4. QED
  BY <1>2, <1>3

(* What a run holds stays right in a step. *)
LEMMA QuietStaysRight ==
  ASSUME TypedInv, SupersededIsRetired, PublishedInOrder, RetiresOlder, PublishInit,
         [QuietNext]_flipVars,
         NEW b, b.current \in Version, \A r \in b.predecessors : r.version \in Version,
         retiresOlder(b)
  PROVE  retiresOlder(b)'
<1>0. StoreTypeOK
  BY DEF TypedInv, FlipTypeOK, TypeOK
<1>1. PICK v \in Version : InEffect(v) /\ (v = b.current \/ older(b.current, v))
  BY DEF retiresOlder
<1>2. versions[v].status # "DRAFT" /\ versions[b.current].status # "DRAFT"
  BY <1>1 DEF InEffect, Published, retiresOlder
<1>3. PICK u \in Version : InEffect(u)' /\ (u = v \/ older(v, u)) /\ versions[u].status # "DRAFT"
  BY <1>1, QuietInEffect
<1>4. u = b.current \/ older(b.current, u)
  BY <1>0, <1>1, <1>2, <1>3, OlderIsOrder
<1>5. \A x, y \in Version : older(x, y)' <=> older(x, y)
  BY QuietOrder
<1>6. \A x \in Version : /\ Published(x)' => Published(x)
                         /\ versions'[x].publishedAt = versions[x].publishedAt
                         /\ versions[x].status # "DRAFT" <=> versions'[x].status # "DRAFT"
  BY QuietOrder
<1>7. \E x \in Version : InEffect(x)' /\ (x = b.current \/ older(b.current, x)')
  BY <1>3, <1>4, <1>5
<1>8. versions'[b.current].status # "DRAFT"
  BY <1>2, <1>6
<1>9. \A w \in Version \ {b.current} :
        Published(w)' /\ ValidFrom[w] <= b.at => older(w, b.current)'
  BY <1>5, <1>6 DEF retiresOlder
<1>10. \A r \in b.predecessors :
         older(r.version, b.current)' /\ r.publishedAt = versions'[r.version].publishedAt
  BY <1>5, <1>6 DEF retiresOlder
<1>11. QED
  BY <1>7, <1>8, <1>9, <1>10 DEF retiresOlder

(* And it is right when it is read. *)
LEMMA JobReadsRight ==
  ASSUME TypedInv, PublishedInOrder, RetiresOlder, NEW t \in Sweeper, Job(t),
         NEW s \in Sweeper, activating(s)', activations'[s] # activations[s]
  PROVE  retiresOlder(activations'[s])
<1> DEFINE b == activations'[s]
           a == activations[s]
<1>0. StoreTypeOK /\ ActivateTypeOK /\ JobTypeOK
  BY DEF TypedInv, FlipTypeOK, TypeOK
<1>1. CASE ActivateCurrent(t)
  <2>1. PICK v \in Version :
          /\ isCurrent(v)
          /\ activations' = [activations EXCEPT ![t] =
               [step |-> "siblings", current |-> v, at |-> now, predecessors |-> {},
                draining |-> {}, open |-> {}, carry |-> {}, successor |-> NoRow]]
    BY <1>1 DEF ActivateCurrent
  <2>2. b.current = v /\ b.at = now /\ b.predecessors = {}
    BY <1>0, <2>1 DEF ActivateTypeOK
  <2>3. InEffect(v) /\ versions[v].status # "DRAFT"
    BY <2>1 DEF isCurrent, InEffect, Published
  <2>4. ASSUME NEW w \in Version \ {v}, Published(w), ValidFrom[w] <= now
        PROVE  older(w, v)
    <3>1. \/ ValidFrom[w] < ValidFrom[v]
          \/ ValidFrom[w] = ValidFrom[v] /\ versions[w].publishedAt <= versions[v].publishedAt
      BY <2>1, <2>4 DEF isCurrent, InEffect
    <3>2. older(v, w) \/ older(w, v)
      BY <2>3, <2>4 DEF PublishedInOrder, InEffect
    <3>3. versions[v].publishedAt \in Nat /\ versions[w].publishedAt \in Nat
      BY <1>0, <2>3, <2>4, StoreTypeParts DEF PublishedInOrder, MaybeTime, Published
    <3>4. ValidFrom[v] \in Nat /\ ValidFrom[w] \in Nat
      BY VersionAssumption
    <3>5. QED
      BY <3>1, <3>2, <3>3, <3>4 DEF older
  <2> HIDE DEF b
  <2>5. retiresOlder(b)
    BY <2>2, <2>3, <2>4 DEF retiresOlder
  <2>6. QED
    BY <2>5 DEF b
<1>2. CASE activating(t) /\ ActivateProgress(t)
  <2>1. t = s
    BY <1>0, <1>2, ActivationDrains
  <2>2. RunsOn(s, b)
    BY <1>0, <1>2, <2>1, ActivationDrains DEF activating
  <2>3. retiresOlder(a)
    BY <1>2, <2>1 DEF RetiresOlder
  <2>4. b.current = a.current /\ b.at = a.at
    BY <2>2 DEF RunsOn
  <2>5. ASSUME NEW r \in b.predecessors
        PROVE  older(r.version, a.current) /\ r.publishedAt = versions[r.version].publishedAt
    <3>1. CASE r \in a.predecessors
      BY <2>3, <3>1 DEF retiresOlder
    <3>2. CASE \E w \in supplanted(s) : r = versionRow(w)
      BY <2>3, <3>2 DEF supplanted, versionRow, retiresOlder
    <3>3. QED
      BY <2>2, <3>1, <3>2 DEF RunsOn
  <2> HIDE DEF a, b
  <2>6. retiresOlder(b)
    BY <2>3, <2>4, <2>5 DEF retiresOlder
  <2>7. QED
    BY <2>6 DEF b
<1>3. CASE ActivateFails(t) \/ JobDies(t)
  BY <1>0, <1>3 DEF ActivateFails, JobDies, endActivation, activating, ActivateTypeOK
<1>4. QED
  BY <1>0, <1>1, <1>2, <1>3, JobCases

LEMMA QuietKeepsOlder ==
  ASSUME TypedInv, SupersededIsRetired, PublishedInOrder, RetiresOlder, PublishInit,
         [QuietNext]_flipVars, TypedInv'
  PROVE  RetiresOlder'
<1>1. ASSUME NEW s \in Sweeper, activating(s)', NEW b, b = activations'[s]
      PROVE  retiresOlder(b)'
  <2>1. b \in Activation
    BY <1>1 DEF TypedInv, FlipTypeOK, ActivateTypeOK, activating
  <2>2. b.current \in Version /\ \A r \in b.predecessors : r.version \in Version
    BY <2>1 DEF Activation, VersionRow
  <2>3. CASE b = activations[s]
    <3>1. retiresOlder(b)
      BY <1>1, <2>3 DEF RetiresOlder, activating
    <3>2. QED
      BY <2>2, <3>1, QuietStaysRight
  <2>4. CASE b # activations[s]
    <3>1. retiresOlder(b)
      BY <1>1, <2>4, QuietSteps, JobReadsRight
    <3>2. QED
      BY <2>2, <3>1, QuietStaysRight
  <2>5. QED
    BY <2>3, <2>4
<1>2. QED
  BY <1>1 DEF RetiresOlder, retiresOlder, older

LEMMA QuietInvariance == QuietSpec => [](ScheduledInv /\ PublishInit)
<1>1. QuietInit => ScheduledInv /\ PublishInit
  BY DEF QuietInit, ScheduledInv, ActivateInit, RetiresOlder, activating
<1>2. ASSUME ScheduledInv, PublishInit, [QuietNext]_flipVars
      PROVE  ScheduledInv' /\ PublishInit'
  <2>1. /\ FlipInv /\ TypedInv /\ SupersededIsRetired /\ PublishedInOrder /\ RetiresOlder
        /\ [FlipNext]_flipVars
    BY <1>2, FlipInvParts DEF ScheduledInv, QuietNext
  <2>2. FlipInv' /\ TypedInv'
    BY <2>1, NextFlipInv, NextTyped
  <2>3. StatusAdvances /\ PublishedInOrder'
    BY <1>2, <2>1, QuietOrder
  <2>4. SupersededIsRetired' /\ RetiresOlder'
    BY <1>2, <2>1, <2>2, <2>3, SupersededStaysRetired, QuietKeepsOlder
  <2>5. PublishInit'
    BY <1>2, QuietSteps
  <2>6. QED
    BY <2>2, <2>3, <2>4, <2>5 DEF ScheduledInv
<1>3. QED
  BY <1>1, <1>2, PTL DEF QuietSpec, QuietNext

(* While nothing is published, what a run of the job is going to retire has
   made room for a version still in effect, and rows are superseded of retired
   versions alone. *)
THEOREM ScheduledInvariance == QuietSpec => []ScheduledInv
BY QuietInvariance, PTL

(* A version in force is not replaced in any step. *)
LEMMA CurrentStands ==
  ASSUME ScheduledInv, PublishInit, [QuietNext]_flipVars, NEW v \in Version, isCurrent(v)
  PROVE  versions'[v] = versions[v]
<1>0. TypedInv /\ SupersededIsRetired /\ PublishedInOrder /\ RetiresOlder /\ StoreTypeOK
  BY FlipInvParts DEF ScheduledInv, TypedInv, FlipTypeOK, TypeOK
<1>1. ASSUME versions'[v] # versions[v] PROVE FALSE
  <2>1. PICK u \in Version : InEffect(u) /\ older(v, u)
    BY <1>0, <1>1, QuietRetires
  <2>2. \/ ValidFrom[u] < ValidFrom[v]
        \/ ValidFrom[u] = ValidFrom[v] /\ versions[u].publishedAt <= versions[v].publishedAt
    BY <2>1 DEF isCurrent
  <2>3. versions[u].publishedAt \in Nat /\ versions[v].publishedAt \in Nat
    BY <1>0, <2>1, StoreTypeParts DEF PublishedInOrder, MaybeTime, isCurrent, InEffect, Published
  <2>4. ValidFrom[v] \in Nat /\ ValidFrom[u] \in Nat
    BY VersionAssumption
  <2>5. QED
    BY <2>1, <2>2, <2>3, <2>4 DEF older
<1>2. QED
  BY <1>1

(* The activation sweep never retires the version in force, even when another
   one takes effect while it runs, as long as nothing is published meanwhile. *)
THEOREM InForceStands == QuietSpec => InForceNeverRetired
<1>1. ScheduledInv /\ PublishInit /\ [QuietNext]_flipVars =>
        [\A v \in Version, s \in Sweeper :
           isCurrent(v) /\ activations[s] # activations'[s] => versions'[v] = versions[v]]_flipVars
  BY CurrentStands
<1>2. QED
  BY <1>1, QuietInvariance, PTL DEF QuietSpec, QuietNext, InForceNeverRetired

(* The clock moves by itself. *)
LEMMA ClockAlone ==
  ASSUME TypedInv, [FlipNext]_flipVars, now' # now
  PROVE  UNCHANGED <<states, versions>>
<1>0. JobTypeOK
  BY DEF TypedInv, FlipTypeOK
<1> USE DEF storeVars
<1>1. ASSUME NEW p \in Handler, Api(p) PROVE UNCHANGED now
  BY <1>1
  DEF Api, ApiStep, ApiStart, ApiProgress, AcceptStart, ObjectRead, NotifyRead, RecordRead,
      AcceptRead, AcceptWrite, RecordCreate, RecordWrite, AcceptanceAppend, ObjectWrite,
      ObjectionAppend, NotifyWrite, HandlerDies, contextVars, recordVars
<1>2. ASSUME NEW a \in Publisher, Publish(a) PROVE UNCHANGED now
  BY <1>2
  DEF Publish, PublishStep, PublishProgress, PublishRead, PublishSave, PublishSiblings,
      PublishRetire, PublishFindOpen, PublishSupersede, PublishTargets, PublishRollout,
      PublishRefused, PublishReturn, PublishDies, evidenceVars
<1>3. ASSUME NEW s \in Sweeper, Job(s) PROVE UNCHANGED now
  BY <1>0, <1>3, JobKeepsTime
<1>4. QED
  BY <1>1, <1>2, <1>3 DEF FlipNext, Clock, Tick, flipVars, vars

GateRule ==
  \A c : compliant(c) <=>
    (c \in Holder => \A v \in Version : isCurrent(v) => ~isBlocking(states[c][v]))

(* A closed gate is opened by an answer of the customer, by silence the job
   books over a deadline that has passed, or because the clock has put another
   version in force, as long as nothing is published: no access, flip or carry
   opens it. *)
THEOREM GateOpensOnlyForCause == QuietSpec => GateOpensForCause
<1> DEFINE opens ==
      \A c \in Customer :
        ~compliant(c) /\ compliant(c)' =>
          \E v \in Version :
            /\ isCurrent(v) /\ isBlocking(states[c][v])
            /\ endsAnswered(c, v) \/ endsSilently(c, v) \/ overtaken(c, v)
<1>1. GateRule
  BY GateIsOpen DEF GateRule
<1>2. GateRule'
  BY <1>1, PTL
<1>3. ASSUME ScheduledInv, PublishInit, [QuietNext]_flipVars, NEW c \in Customer,
             ~compliant(c), compliant(c)'
      PROVE  \E v \in Version :
               /\ isCurrent(v) /\ isBlocking(states[c][v])
               /\ endsAnswered(c, v) \/ endsSilently(c, v) \/ overtaken(c, v)
  <2>0. /\ TypedInv /\ SupersededIsRetired /\ PublishedInOrder /\ RetiresOlder
        /\ [FlipNext]_flipVars
    BY <1>3, FlipInvParts DEF ScheduledInv, QuietNext
  <2>1. PICK v \in Version : c \in Holder /\ isCurrent(v) /\ isBlocking(states[c][v])
    BY <1>1, <1>3 DEF GateRule
  <2>2. versions'[v] = versions[v]
    BY <1>3, <2>1, CurrentStands
  <2>3. \A w \in Version : versions'[w].publishedAt = versions[w].publishedAt
    BY <1>3, <2>0, QuietOrder
  <2>4. InEffect(v)'
    <3>1. now \in Nat /\ now' \in {now, now + 1} /\ ValidFrom[v] \in Nat
      BY <1>3, <2>0, QuietOrder, VersionAssumption
    <3>2. QED
      BY <2>1, <2>2, <3>1 DEF isCurrent, InEffect, Published
  <2>5. CASE isCurrent(v)'
    <3>1. ~isBlocking(states'[c][v])
      BY <1>2, <1>3, <2>1, <2>5 DEF GateRule, isBlocking
    <3>2. FlipMove(c, v)
      BY <2>0, FlipMoves
    <3>3. states'[c][v].state # "SUPERSEDED"
      BY <2>0, <2>1, <3>2, MoveSupersedesRetired DEF isRetired, isCurrent, InEffect, Published
    <3>4. endsAnswered(c, v) \/ endsSilently(c, v) \/ endsSuperseded(c, v)
      BY <2>0, <2>1, <3>1, BlockEnds
    <3>5. QED
      BY <2>1, <3>3, <3>4 DEF endsSuperseded
  <2>6. CASE ~isCurrent(v)'
    <3>1. PICK w \in Version :
            /\ InEffect(w)'
            /\ ~ \/ ValidFrom[w] < ValidFrom[v]
                 \/ /\ ValidFrom[w] = ValidFrom[v]
                    /\ versions[w].publishedAt <= versions[v].publishedAt
      BY <2>3, <2>4, <2>6 DEF isCurrent
    <3>2. Published(w) /\ ~InEffect(w)
      BY <1>3, <2>0, <2>1, <3>1, QuietOrder DEF isCurrent, InEffect
    <3>3. ValidFrom[w] \in Nat /\ now \in Nat /\ now' \in {now, now + 1}
      BY <1>3, <2>0, QuietOrder, VersionAssumption
    <3>4. now < ValidFrom[w] /\ ValidFrom[w] <= now'
      BY <3>1, <3>2, <3>3 DEF InEffect
    <3>5. UNCHANGED <<states, versions>>
      <4>1. now' # now
        BY <3>3, <3>4
      <4>2. QED
        BY <2>0, <4>1, ClockAlone
    <3>6. overtaken(c, v)
      BY <3>2, <3>4, <3>5 DEF overtaken
    <3>7. QED
      BY <2>1, <3>6
  <2>7. QED
    BY <2>5, <2>6
<1>4. ScheduledInv /\ PublishInit /\ [QuietNext]_flipVars => [opens]_flipVars
  BY <1>3
<1>5. QED
  BY <1>4, QuietInvariance, PTL DEF QuietSpec, QuietNext, GateOpensForCause

=============================================================================
