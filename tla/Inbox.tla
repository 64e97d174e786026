------------------------------- MODULE Inbox -------------------------------
(***************************************************************************)
(* The asynchronous inbox: one sequence of entries for all agents behind   *)
(* one mutex, from which readers take by agent.  Every operation is one    *)
(* critical section.  Entries expire lazily, when somebody reads, and a    *)
(* limited read rebuilds the sequence by merging on timestamps.            *)
(***************************************************************************)
EXTENDS Naturals, Sequences, SequencesExt, Lists

CONSTANTS Aliases, TTL, MaxTime, MaxDeposits, None

\* NewServer gives the inbox its default lifetime when it is asked for none.
ASSUME InboxAssumption ==
  /\ TTL \in Nat \ {0} /\ MaxTime \in Nat \ {0} /\ MaxDeposits \in Nat
  /\ None \notin Aliases

VARIABLES
  entries,  \* the entries of the inbox, all agents together
  now,      \* time.Now(), which only moves when MaxTime lets it
  sent,     \* deposits so far, which number the entries
  answer    \* what the last Peek or Pop returned

vars == <<entries, now, sent, answer>>

\* The zero time is 0; an entry in the inbox never has it.
InboxEntry == [alias : Aliases, at : 1..MaxTime, id : 1..MaxDeposits]

TypeOK ==
  /\ entries \in Seq(InboxEntry)
  /\ now \in 1..MaxTime
  /\ sent \in 0..MaxDeposits
  /\ answer \in Seq(InboxEntry)

Init == entries = <<>> /\ now = 1 /\ sent = 0 /\ answer = <<>>

Tick == now < MaxTime /\ now' = now + 1 /\ UNCHANGED <<entries, sent, answer>>

Of(s, a) == Only(s, {e \in ToSet(s) : e.alias = a})
NotOf(s, a) == Only(s, {e \in ToSet(s) : e.alias # a})

-----------------------------------------------------------------------------
\* Variant of Deposit: the zero timestamp stays.
DepositUnstamped(a) ==
  /\ sent < MaxDeposits
  /\ sent' = sent + 1
  /\ entries' = Append(entries, [alias |-> a, at |-> 0, id |-> sent'])
  /\ UNCHANGED <<now, answer>>

\* The depositors leave the timestamp zero; it is taken under the lock.
Deposit(a) ==
  /\ sent < MaxDeposits
  /\ sent' = sent + 1
  /\ entries' = Append(entries, [alias |-> a, at |-> now, id |-> sent'])
  /\ UNCHANGED <<now, answer>>

\* Variant of Pruned: an entry goes at the end of its time, not after it.
PrunedEarly(s) == Only(s, {e \in ToSet(s) : now < e.at + TTL})

\* pruneExpiredLocked: what was deposited before now - TTL goes.
Pruned(s) == Only(s, {e \in ToSet(s) : now <= e.at + TTL})

\* check_inbox, for one agent or, with None, for all.
Peek(filter) ==
  /\ entries' = Pruned(entries)
  /\ answer' = IF filter = None THEN entries' ELSE Of(entries', filter)
  /\ UNCHANGED <<now, sent>>

\* Variant of Merged: entries put back go to the end.
KeptLast(remaining, kept) == remaining \o kept

\* Put the entries kept back among those of the other agents, by timestamp: the
\* loop takes one entry at a time from remaining or from kept, and taken[n] says
\* how many of the first n come from remaining.
Taken(remaining, kept) ==
  LET taken[n \in 0..Len(remaining) + Len(kept)] ==
        IF n = 0 THEN 0
        ELSE LET ri == taken[n - 1]
                 ki == n - 1 - ri
             IN  IF /\ ri < Len(remaining)
                    /\ ki < Len(kept) => remaining[ri + 1].at <= kept[ki + 1].at
                 THEN ri + 1 ELSE ri
  IN  taken

Merged(remaining, kept) ==
  LET taken == Taken(remaining, kept) IN
  [n \in 1..Len(remaining) + Len(kept) |->
     IF taken[n] > taken[n - 1] THEN remaining[taken[n]] ELSE kept[n - taken[n]]]

\* read_inbox.  Without an entry of the agent only the pruning remains.
PopNothing(a) ==
  /\ Of(Pruned(entries), a) = <<>>
  /\ entries' = Pruned(entries)
  /\ answer' = <<>>
  /\ UNCHANGED <<now, sent>>

PopLatest(a) ==
  LET matched == Of(Pruned(entries), a) IN
  /\ matched # <<>>
  /\ answer' = <<Last(matched)>>
  /\ entries' = NotOf(Pruned(entries), a)
  /\ UNCHANGED <<now, sent>>

PopLength(a, length) ==
  LET matched == Of(Pruned(entries), a)
      n == IF length > Len(matched) THEN Len(matched) ELSE length IN
  /\ matched # <<>>
  /\ answer' = SubSeq(matched, 1, n)
  /\ entries' = Merged(NotOf(Pruned(entries), a), SubSeq(matched, n + 1, Len(matched)))
  /\ UNCHANGED <<now, sent>>

PopAll(a) ==
  LET matched == Of(Pruned(entries), a) IN
  /\ matched # <<>>
  /\ answer' = matched
  /\ entries' = NotOf(Pruned(entries), a)
  /\ UNCHANGED <<now, sent>>

\* A length beyond the number of entries is the same as all of them.
Lengths == 0..MaxDeposits

Next ==
  \/ Tick
  \/ \E a \in Aliases :
       \/ Deposit(a) \/ PopNothing(a) \/ PopLatest(a) \/ PopAll(a)
       \/ \E length \in Lengths : PopLength(a, length)
  \/ \E filter \in Aliases \cup {None} : Peek(filter)

Spec == Init /\ [][Next]_vars

-----------------------------------------------------------------------------
(* Properties.                                                             *)

\* The inbox is in chronological order, and so is every listing of it, although
\* a limited read takes entries out and puts others back (Pop's merge needs it
\* as much as it maintains it).
Chronological ==
  \A s \in {entries, answer} : \A i, j \in 1..Len(s) : i < j => s[i].at <= s[j].at

\* What a reader can still see of agent a: entries that expired but were not
\* pruned yet do not count.
Box(a) == Only(entries, {e \in ToSet(entries) : e.alias = a /\ now <= e.at + TTL})

Boxes == INSTANCE Mailboxes
         WITH mail <- [a \in Aliases |-> Box(a)], answer <- [a \in Aliases |-> Of(answer, a)]

\* The shared sequence with lazy expiry is, to its readers, one queue per agent
\* with entries that vanish on time: nothing is lost, read twice, or overtaken
\* by a later entry of its agent (Deposit, Peek and Pop).
ImplementsMailboxes == Boxes!Spec
=============================================================================
