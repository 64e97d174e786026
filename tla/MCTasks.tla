------------------------------ MODULE MCTasks ------------------------------
(* Instances of Tasks for TLC.                                             *)
EXTENDS Tasks

CONSTANTS p1, p2, t1
=============================================================================
