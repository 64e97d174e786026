------------------------------ MODULE MCInbox ------------------------------
(* An instance of Inbox for TLC.                                           *)
EXTENDS Inbox

CONSTANTS a1, a2

\* Only is SelectSeq, on all lists over a small set.
ASSUME OnlyAssumption ==
  \A n \in 0..4 : \A s \in [1..n -> 1..3] : \A S \in SUBSET (1..3) :
    Only(s, S) = SelectSeq(s, LAMBDA x : x \in S)
=============================================================================
