--------------------------- MODULE ConsentLedger ---------------------------
(***************************************************************************)
(* What the service promises of its evidence, whoever races for a row: an   *)
(* append-only ledger in which a customer accepts a version once, by an     *)
(* answer given or by silence, in which silence counts for PASSIVE versions *)
(* alone and never against an objection, and in which nobody objects to     *)
(* what their silence has already accepted.                                 *)
(***************************************************************************)
CONSTANTS Customer, Version, Passive

VARIABLES given, tacit, refused   \* sets of <<customer, version>>

ledger == <<given, tacit, refused>>

LedgerInit == given = {} /\ tacit = {} /\ refused = {}

Give(k) ==
  /\ k \notin given \cup tacit
  /\ given' = given \cup {k}
  /\ UNCHANGED <<tacit, refused>>

StaySilent(k) ==
  /\ k[2] \in Passive
  /\ k \notin given \cup tacit \cup refused
  /\ tacit' = tacit \cup {k}
  /\ UNCHANGED <<given, refused>>

Refuse(k) ==
  /\ k[2] \in Passive
  /\ k \notin tacit
  /\ refused' = refused \cup {k}
  /\ UNCHANGED <<given, tacit>>

LedgerNext == \E k \in Customer \X Version : Give(k) \/ StaySilent(k) \/ Refuse(k)

LedgerSpec == LedgerInit /\ [][LedgerNext]_ledger
=============================================================================
