------------------------------ MODULE History ------------------------------
(***************************************************************************)
(* The history of one agent, kept by the memory backend or by the file     *)
(* backend.  (Their locks and files are per alias, or one lock guards      *)
(* every critical section: agents do not affect each other.)  Tool calls   *)
(* record and read concurrently; the process may crash and start again.    *)
(***************************************************************************)
EXTENDS Naturals, Sequences

CONSTANTS
  Calls,      \* tool calls that record an interaction, one after another
  Depth,      \* HistoryOptions.Depth, at least 1
  MaxRecords, \* bound: interactions in all
  Torn,       \* what a file is that was truncated and not written
  None

ASSUME HistoryAssumption ==
  /\ Depth \in Nat \ {0} /\ MaxRecords \in Nat
  /\ None \notin Calls

VARIABLES
  backend,  \* which of the two is in use
  made,     \* interactions so far, which number them
  stored,   \* what is stored: entries, or Torn
  lock,     \* the call that holds the write lock, or None
  call,     \* the calls
  answer    \* what the last List returned; Torn for an error

vars == <<backend, made, stored, lock, call, answer>>

\* Of an entry only its identity and its time matter: entries are numbered in the
\* order of their timestamps.
Entry == 1..MaxRecords

\* What may be stored for one agent.
Histories == {s \in Seq(Entry) : Len(s) <= Depth}

ASSUME TornAssumption == Torn \notin Histories

Idle == [pc |-> "idle", entry |-> None, entries |-> <<>>]

TypeOK ==
  /\ backend \in {"memory", "file"}
  /\ made \in 0..MaxRecords
  /\ stored \in Histories \cup {Torn}
  /\ lock \in Calls \cup {None}
  /\ call \in [Calls -> [pc : {"idle", "append", "truncate", "write"},
                         entry : Entry \cup {None},
                         entries : Histories]]
  /\ answer \in Histories \cup {Torn}

Init ==
  /\ backend \in {"memory", "file"}
  /\ made = 0
  /\ stored = <<>>
  /\ lock = None
  /\ call = [p \in Calls |-> Idle]
  /\ answer = <<>>

At(p, step) == call[p].pc = step

-----------------------------------------------------------------------------
(* Recording.                                                              *)

\* Recorder.Record makes the entry, with its timestamp, before it takes any lock.
Record(p) ==
  /\ At(p, "idle")
  /\ made < MaxRecords
  /\ made' = made + 1
  /\ call' = [call EXCEPT ![p] = [Idle EXCEPT !.pc = "append", !.entry = made']]
  /\ UNCHANGED <<backend, stored, lock, answer>>

\* Variant of Added: the room for the new entry is not made.
AddedTooMany(s, e) ==
  LET kept == IF Len(s) >= Depth THEN SubSeq(s, Len(s) - Depth + 1, Len(s)) ELSE s
  IN  Append(kept, e)

\* The oldest entries make room.
Added(s, e) ==
  LET kept == IF Len(s) >= Depth THEN SubSeq(s, Len(s) - Depth + 2, Len(s)) ELSE s
  IN  Append(kept, e)

\* The memory backend appends in one critical section.
MemoryAppend(p) ==
  /\ backend = "memory"
  /\ At(p, "append")
  /\ stored' = Added(stored, call[p].entry)
  /\ call' = [call EXCEPT ![p] = Idle]
  /\ UNCHANGED <<backend, made, lock, answer>>

\* Variant of ReadForAppend: the lock is kept when the file cannot be read.
ReadKeepsLock(p) ==
  /\ backend = "file"
  /\ At(p, "append")
  /\ lock = None
  /\ lock' = p
  /\ IF stored = Torn THEN call' = [call EXCEPT ![p] = Idle]
     ELSE call' = [call EXCEPT ![p].pc = "truncate", ![p].entries = Added(stored, call[p].entry)]
  /\ UNCHANGED <<backend, made, stored, answer>>

\* The file backend reads under the alias's lock; a file that does not parse
\* ends the call, and the entry is dropped with a warning.
ReadForAppend(p) ==
  /\ backend = "file"
  /\ At(p, "append")
  /\ lock = None
  /\ IF stored = Torn
     THEN call' = [call EXCEPT ![p] = Idle] /\ UNCHANGED lock
     ELSE /\ call' = [call EXCEPT ![p].pc = "truncate", ![p].entries = Added(stored, call[p].entry)]
          /\ lock' = p
  /\ UNCHANGED <<backend, made, stored, answer>>

\* os.WriteFile truncates the file in place ...
Truncate(p) ==
  /\ At(p, "truncate")
  /\ stored' = Torn
  /\ call' = [call EXCEPT ![p].pc = "write"]
  /\ UNCHANGED <<backend, made, lock, answer>>

Unlock(p) == lock' = None /\ call' = [call EXCEPT ![p] = Idle]

\* ... and writes it, or fails to.
Write(p) ==
  /\ At(p, "write")
  /\ stored' = call[p].entries
  /\ Unlock(p)
  /\ UNCHANGED <<backend, made, answer>>

\* The directory or the file cannot be made, or the disk is full.
WriteFails(p) ==
  /\ call[p].pc \in {"truncate", "write"}
  /\ Unlock(p)
  /\ UNCHANGED <<backend, made, stored, answer>>

-----------------------------------------------------------------------------
(* Reading and clearing.                                                   *)

\* What get_history makes of the entries: the newest limit of them, if a limit is given.
Limited(s, limit) ==
  IF s = Torn \/ limit = 0 \/ Len(s) <= limit THEN s
  ELSE SubSeq(s, Len(s) - limit + 1, Len(s))

\* Variant of List: the read lock is forgotten.
ListUnlocked(limit) ==
  answer' = Limited(stored, limit) /\ UNCHANGED <<backend, made, stored, lock, call>>

\* get_history: readers wait for a writer.
List(limit) ==
  /\ lock = None
  /\ answer' = Limited(stored, limit)
  /\ UNCHANGED <<backend, made, stored, lock, call>>

\* clear_history and disconnect_agent: the entries, or the file, are removed.  When
\* that fails, everything stays as it is.
Clear ==
  /\ lock = None
  /\ stored' = <<>>
  /\ UNCHANGED <<backend, made, lock, call, answer>>

\* The process dies, with its memory, and starts again.
Crash ==
  /\ stored' = IF backend = "memory" THEN <<>> ELSE stored
  /\ lock' = None
  /\ call' = [p \in Calls |-> Idle]
  /\ UNCHANGED <<backend, made, answer>>

Continue(p) == MemoryAppend(p) \/ ReadForAppend(p) \/ Truncate(p) \/ Write(p) \/ WriteFails(p)

Next ==
  \/ \E p \in Calls : Record(p) \/ Continue(p)
  \/ \E limit \in 0..Depth : List(limit)
  \/ Clear \/ Crash

Spec == Init /\ [][Next]_vars

\* A goroutine that records runs on, and a mutex is fair to its waiters.
FairSpec == Spec /\ \A p \in Calls : SF_vars(Continue(p))

-----------------------------------------------------------------------------
(* Properties.                                                             *)

\* The record of a file counts from its truncation: its writer holds the lock,
\* so that nobody sees the file before it is written.
Log == IF lock # None /\ At(lock, "write") THEN call[lock].entries ELSE stored

Promise == INSTANCE HistoryLog
           WITH Entries <- Entry, Lost <- Torn, persistent <- (backend = "file"), log <- Log

\* Either backend keeps the entries stored last, in the order of storing, whoever
\* records, reads and clears at the same time; a crash or a failed write costs the
\* entry being recorded, or makes the file unreadable until it is cleared, but
\* readers are never shown a part of what was kept (the per-alias lock and
\* WriteFile).  The order of storing is not that of the timestamps: see OldestFirst.
ImplementsLog == Promise!Spec

\* "List returns all stored entries for the alias in chronological order (oldest
\* first)."
OldestFirst ==
  answer # Torn => \A i, j \in 1..Len(answer) : i < j => answer[i] < answer[j]

\* Who waits for the alias's lock waits for a call at work on its file: no return,
\* on whatever error, leaves the lock behind, and no second writer is let in.  So
\* what a call is about to write is what is stored by then, and its own entry.
LockIsHeldToWrite ==
  /\ lock # None => call[lock].pc \in {"truncate", "write"}
  /\ \A p \in Calls :
       /\ call[p].pc \in {"truncate", "write"} => lock = p
       /\ At(p, "truncate") => call[p].entries = Added(stored, call[p].entry)

\* A call that records gets done: no error return keeps the lock.
RecordsEnd == \A p \in Calls : ~At(p, "idle") ~> At(p, "idle")
=============================================================================
