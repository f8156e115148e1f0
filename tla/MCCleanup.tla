----------------------------- MODULE MCCleanup -----------------------------
(* Instances of Cleanup for TLC.                                           *)
EXTENDS Cleanup

NoRetention == [t \in {"dedup", "archive"} |-> 0]
=============================================================================
