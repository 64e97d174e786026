----------------------------- MODULE Mailboxes -----------------------------
(***************************************************************************)
(* What the asynchronous inbox promises: a mailbox per agent, first in     *)
(* first out, whose entries vanish when their time to live is over.        *)
(***************************************************************************)
EXTENDS Naturals, Sequences, SequencesExt, Lists

CONSTANTS
  Aliases,      \* agents that answer asynchronous messages
  TTL,          \* time to live of an entry, in ticks, at least 1
  MaxTime,      \* bound: the clock stops here
  MaxDeposits   \* bound: entries deposited in all

VARIABLES
  now,     \* the clock
  sent,    \* entries deposited so far
  mail,    \* alias -> its entries, oldest first
  answer   \* alias -> its entries in the last answer to a reader

vars == <<now, sent, mail, answer>>

Entry == [alias : Aliases, at : 1..MaxTime, id : 1..MaxDeposits]

Nothing == [a \in Aliases |-> <<>>]

TypeOK ==
  /\ now \in 1..MaxTime
  /\ sent \in 0..MaxDeposits
  /\ mail \in [Aliases -> Seq(Entry)]
  /\ answer \in [Aliases -> Seq(Entry)]

Init == now = 1 /\ sent = 0 /\ mail = Nothing /\ answer = Nothing

\* An entry is kept up to and including the end of its time to live.
Fresh(box, time) == Only(box, {e \in ToSet(box) : time <= e.at + TTL})

\* The clock moves, and what is out of date is gone.
Tick ==
  /\ now < MaxTime
  /\ now' = now + 1
  /\ mail' = [a \in Aliases |-> Fresh(mail[a], now')]
  /\ UNCHANGED <<sent, answer>>

Deposit(a) ==
  /\ sent < MaxDeposits
  /\ sent' = sent + 1
  /\ mail' = [mail EXCEPT ![a] = Append(@, [alias |-> a, at |-> now, id |-> sent'])]
  /\ UNCHANGED <<now, answer>>

\* A reader takes the n oldest entries.
Take(a, n) ==
  /\ n <= Len(mail[a])
  /\ answer' = [Nothing EXCEPT ![a] = SubSeq(mail[a], 1, n)]
  /\ mail' = [mail EXCEPT ![a] = SubSeq(@, n + 1, Len(@))]
  /\ UNCHANGED <<now, sent>>

\* A reader takes the newest entry and empties the box.
TakeLatest(a) ==
  /\ mail[a] # <<>>
  /\ answer' = [Nothing EXCEPT ![a] = <<mail[a][Len(mail[a])]>>]
  /\ mail' = [mail EXCEPT ![a] = <<>>]
  /\ UNCHANGED <<now, sent>>

\* A reader lists the boxes of some agents.
List(agents) ==
  /\ answer' = [a \in Aliases |-> IF a \in agents THEN mail[a] ELSE <<>>]
  /\ UNCHANGED <<now, sent, mail>>

Next ==
  \/ Tick
  \/ \E a \in Aliases : Deposit(a) \/ TakeLatest(a) \/ \E n \in 0..MaxDeposits : Take(a, n)
  \/ \E agents \in SUBSET Aliases : List(agents)

Spec == Init /\ [][Next]_vars
=============================================================================
