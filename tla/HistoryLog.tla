----------------------------- MODULE HistoryLog -----------------------------
(***************************************************************************)
(* What the history of an agent comes to: the Depth interactions that were *)
(* stored last, in the order of storing, whatever their timestamps.  A     *)
(* crash or a failing disk may lose the history, but then it says so until *)
(* somebody clears it: it never shows a part of the truth.                 *)
(***************************************************************************)
EXTENDS Naturals, Sequences

CONSTANTS
  Entries,    \* interactions
  Depth,      \* how many are kept
  Lost        \* an unreadable history

VARIABLES
  persistent,  \* whether it outlives the process
  log,         \* the interactions kept, or Lost
  answer       \* what the last reader got, Lost for an error

vars == <<persistent, log, answer>>

\* The last n elements of s.
Latest(s, n) == IF Len(s) <= n THEN s ELSE SubSeq(s, Len(s) - n + 1, Len(s))

Init == persistent \in BOOLEAN /\ log = <<>> /\ answer = <<>>

Record(e) == log # Lost /\ log' = Latest(Append(log, e), Depth) /\ UNCHANGED <<persistent, answer>>

Clear == log' = <<>> /\ UNCHANGED <<persistent, answer>>

\* Readers get all of it, or the newest n; an unreadable history reads as such.
List == answer' = log /\ UNCHANGED <<persistent, log>>

ListLatest(n) == log # Lost /\ answer' = Latest(log, n) /\ UNCHANGED <<persistent, log>>

\* Only what is on a disk can become unreadable.
Lose == persistent /\ log' = Lost /\ UNCHANGED <<persistent, answer>>

Restart == ~persistent /\ log' = <<>> /\ UNCHANGED <<persistent, answer>>

Next == (\E e \in Entries : Record(e)) \/ (\E n \in 1..Depth : ListLatest(n)) \/ Clear \/ List \/ Lose \/ Restart

Spec == Init /\ [][Next]_vars
=============================================================================
