---------------------------- MODULE MCLifecycle ----------------------------
(* Lifecycle for TLC, and a claim of the documents that does not hold. *)
EXTENDS Lifecycle

\* "systemd will restart if process hangs", for one loop: a loop in a device or
\* a statement that never answers does not stay there for ever.
HangIsRestarted == \A l \in Loop : loops[l] \in {"hung", "stuck"} ~> loops[l] \notin {"hung", "stuck"}
=============================================================================
