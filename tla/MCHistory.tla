----------------------------- MODULE MCHistory -----------------------------
(* Instances of History for TLC.                                           *)
EXTENDS History

CONSTANTS p1, p2
=============================================================================
