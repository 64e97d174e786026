----------------------------- MODULE MCGateway -----------------------------
(* Instances of Gateway for TLC.                                           *)
EXTENDS Gateway, TLC

CONSTANTS p1, p2, a1, u1, u2, h1, l1

\* One alias that may be connected to two agents.
OneAlias == [a \in {a1} |-> {u1, u2}]

Changes == {"connect", "disconnect"}
Uses == {"send", "query", "broadcast", "ping"}

Plain == [history |-> FALSE, tracking |-> FALSE, raw |-> {}, headers |-> {}, limits |-> {}, maxBackground |-> 0,
          tools |-> (p1 :> Changes) @@ (p2 :> Uses)]

\* Each setup turns on some of what the stores do not share: health; the history
\* and limits; headers; headers and raw URLs; two changes that overlap each other;
\* and a client that makes one call after the other while a background send is at
\* work.
EachSetup ==
  {[Plain EXCEPT !.tracking = TRUE],
   [Plain EXCEPT !.history = TRUE, !.limits = {l1}, !.tools[p2] = {"broadcast"}],
   [Plain EXCEPT !.headers = {h1}, !.tools[p2] = {"send"}],
   [Plain EXCEPT !.headers = {h1}, !.raw = {u1}, !.tools[p2] = {"query"}],
   [Plain EXCEPT !.tracking = TRUE, !.limits = {l1}, !.tools[p1] = Changes \cup {"ping"}, !.tools[p2] = Changes],
   [Plain EXCEPT !.headers = {h1}, !.raw = {u1}, !.maxBackground = 1,
                 !.tools[p1] = Changes \cup {"send"}, !.tools[p2] = {}]}

\* Everything at once, for a single slot.
FullSetup == {[history |-> FALSE, tracking |-> TRUE, raw |-> {u1}, headers |-> {h1}, limits |-> {l1},
               maxBackground |-> 0, tools |-> [p \in {p1} |-> Tools]]}
=============================================================================
