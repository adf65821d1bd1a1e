-------------------------- MODULE AtLeastOnceOutbox --------------------------
(***************************************************************************)
(* What tidewatch promises about the numeric metrics it collects, with the *)
(* SQLite file, the upload goroutine, the HTTP requests and the process    *)
(* all abstracted away.                                                    *)
(*                                                                         *)
(* A metric is first recorded locally, may be delivered to the remote any  *)
(* number of times while or after it is recorded, and may be confirmed     *)
(* (never offered to the remote again) only once it has been delivered.    *)
(* A power loss may undo recent recordings and recent confirmations, never *)
(* confirm anything by itself.                                             *)
(***************************************************************************)
CONSTANT Item       \* the numeric metrics

VARIABLES
  known,            \* every item some StoreBatch ever committed
  recorded,         \* the items the database holds now
  confirmed,        \* the items the database flags as uploaded
  delivered         \* the items the remote has accepted at least once

vars == <<known, recorded, confirmed, delivered>>

Init ==
  /\ known = {}
  /\ recorded = {}
  /\ confirmed = {}
  /\ delivered = {}

Record(S) ==
  /\ known' = known \union S
  /\ recorded' = recorded \union S
  /\ UNCHANGED <<confirmed, delivered>>

Deliver(S) ==
  /\ S \subseteq known
  /\ delivered' = delivered \union S
  /\ UNCHANGED <<known, recorded, confirmed>>

Confirm(S) ==
  /\ S \subseteq recorded \intersect delivered
  /\ confirmed' = confirmed \union S
  /\ UNCHANGED <<known, recorded, delivered>>

PowerLoss ==
  /\ recorded' \subseteq recorded
  /\ confirmed' \subseteq confirmed \intersect recorded'
  /\ UNCHANGED <<known, delivered>>

Next ==
  \/ \E S \in SUBSET Item : Record(S) \/ Deliver(S) \/ Confirm(S)
  \/ PowerLoss

Spec == Init /\ [][Next]_vars
=============================================================================
