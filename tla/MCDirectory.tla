---------------------------- MODULE MCDirectory ----------------------------
(* Instances of Directory for TLC.                                         *)
EXTENDS Directory
=============================================================================
