--------------------------- MODULE MCUploadPipeline ---------------------------
(* Instances of UploadPipeline for TLC. *)
EXTENDS UploadPipeline

CONSTANTS m1, m2, m3

\* Two metrics in a row, and a third as old as the oldest.
TimeLine == [m \in Metric |-> IF m = m2 THEN 2 ELSE 1]
=============================================================================
