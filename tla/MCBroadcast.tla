---------------------------- MODULE MCBroadcast ----------------------------
(* Instances of Broadcast for TLC.                                         *)
EXTENDS Broadcast

CONSTANTS direct, streaming, stranger

\* Two agents, one agent twice, and an agent with an alias nobody registered.
TwoOfEachKind == {<<direct, streaming>>, <<direct, direct>>, <<streaming, stranger>>}
=============================================================================
