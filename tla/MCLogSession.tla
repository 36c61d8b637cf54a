----------------------------- MODULE MCLogSession ------------------------------
(* Instances of LogSession for TLC.                                         *)
EXTENDS LogSession

Samples == [run : 1 .. MaxRuns, n : 1 .. MaxReads]
=============================================================================
