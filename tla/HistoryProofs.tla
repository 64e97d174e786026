--------------------------- MODULE HistoryProofs ---------------------------
(***************************************************************************)
(* Proofs about History, for every set of calls and every depth: either    *)
(* backend implements HistoryLog.                                          *)
(***************************************************************************)
EXTENDS History, SequenceTheorems, TLAPS

-----------------------------------------------------------------------------
(* What the backends make of a sequence is what the log promises.          *)

LEMMA AddedType ==
  ASSUME NEW s \in Histories, NEW e \in Entry
  PROVE  Added(s, e) \in Histories
<1> DEFINE kept == IF Len(s) >= Depth THEN SubSeq(s, Len(s) - Depth + 2, Len(s)) ELSE s
<1>1. s \in Seq(Entry) /\ Len(s) \in Nat /\ Len(s) <= Depth /\ Depth \in Nat \ {0}
  BY HistoryAssumption DEF Histories
<1>2. kept \in Seq(Entry) /\ Len(kept) < Depth
  <2>1. CASE Len(s) >= Depth
    <3>1. \A i \in Len(s) - Depth + 2..Len(s) : s[i] \in Entry
      BY <1>1, <2>1, ElementOfSeq
    <3>2. /\ SubSeq(s, Len(s) - Depth + 2, Len(s)) \in Seq(Entry)
          /\ Len(SubSeq(s, Len(s) - Depth + 2, Len(s))) =
               IF Len(s) - Depth + 2 <= Len(s) THEN Len(s) - (Len(s) - Depth + 2) + 1 ELSE 0
      BY <1>1, <3>1, SubSeqProperties
    <3>3. QED
      BY <1>1, <2>1, <3>2
  <2>2. CASE Len(s) < Depth
    BY <1>1, <2>2
  <2>3. QED
    BY <1>1, <2>1, <2>2
<1>3. Append(kept, e) \in Seq(Entry) /\ Len(Append(kept, e)) = Len(kept) + 1
  BY <1>2, AppendProperties
<1>4. Len(kept) \in Nat
  BY <1>2, LenProperties
<1>5. QED
  BY <1>1, <1>2, <1>3, <1>4 DEF Added, Histories

\* Making room for an entry and appending it, as the backends do, leaves the
\* latest Depth of the old entries and the new one.
LEMMA AddedIsLatest ==
  ASSUME NEW s \in Histories, NEW e \in Entry
  PROVE  Added(s, e) = Promise!Latest(Append(s, e), Depth)
<1>1. s \in Seq(Entry) /\ Len(s) \in Nat /\ Len(s) <= Depth /\ Depth \in Nat \ {0}
  BY HistoryAssumption DEF Histories
<1>2. /\ Append(s, e) \in Seq(Entry) /\ Len(Append(s, e)) = Len(s) + 1
      /\ \A i \in 1..Len(s) : Append(s, e)[i] = s[i]
      /\ Append(s, e)[Len(s) + 1] = e
  BY <1>1, AppendProperties
<1>3. CASE Len(s) < Depth
  <2>1. Added(s, e) = Append(s, e)
    BY <1>1, <1>3 DEF Added
  <2>2. Len(Append(s, e)) <= Depth
    BY <1>1, <1>2, <1>3
  <2>3. QED
    BY <2>1, <2>2 DEF Promise!Latest
<1>4. CASE Len(s) = Depth
  <2> DEFINE kept == SubSeq(s, 2, Depth)
             all == Append(s, e)
             new == SubSeq(all, 2, Depth + 1)
  <2>1. Added(s, e) = Append(kept, e) /\ Promise!Latest(Append(s, e), Depth) = new
    BY <1>1, <1>2, <1>4 DEF Added, Promise!Latest
  <2>2. /\ kept \in Seq(Entry) /\ Len(kept) = Depth - 1
        /\ \A i \in 1..Depth - 1 : kept[i] = s[i + 1]
    <3>1. \A i \in 2..Depth : s[i] \in Entry
      BY <1>1, <1>4, ElementOfSeq
    <3>2. /\ kept \in Seq(Entry) /\ Len(kept) = IF 2 <= Depth THEN Depth - 2 + 1 ELSE 0
          /\ \A i \in 1..Depth - 2 + 1 : kept[i] = s[2 + i - 1]
      BY <1>1, <3>1, SubSeqProperties
    <3> HIDE DEF kept
    <3>3. QED
      BY <1>1, <3>2
  <2>3. /\ new \in Seq(Entry) /\ Len(new) = Depth
        /\ \A i \in 1..Depth : new[i] = all[i + 1]
    <3>1. all \in Seq(Entry) /\ Len(all) = Depth + 1
      BY <1>2, <1>4
    <3> HIDE DEF all
    <3>2. \A i \in 2..Depth + 1 : all[i] \in Entry
      BY <1>1, <3>1, ElementOfSeq
    <3>3. /\ new \in Seq(Entry) /\ Len(new) = IF 2 <= Depth + 1 THEN (Depth + 1) - 2 + 1 ELSE 0
          /\ \A i \in 1..(Depth + 1) - 2 + 1 : new[i] = all[2 + i - 1]
      BY <1>1, <3>2, SubSeqProperties
    <3> HIDE DEF new
    <3>4. QED
      BY <1>1, <3>3
  <2> HIDE DEF kept, all, new
  <2>4. /\ Append(kept, e) \in Seq(Entry) /\ Len(Append(kept, e)) = Depth
        /\ \A i \in 1..Depth - 1 : Append(kept, e)[i] = kept[i]
        /\ Append(kept, e)[Depth] = e
    <3>1. /\ Append(kept, e) \in Seq(Entry) /\ Len(Append(kept, e)) = Len(kept) + 1
          /\ \A i \in 1..Len(kept) : Append(kept, e)[i] = kept[i]
          /\ Append(kept, e)[Len(kept) + 1] = e
      BY <2>2, AppendProperties
    <3>2. QED
      BY <1>1, <2>2, <3>1
  <2>5. ASSUME NEW i \in 1..Depth PROVE Append(kept, e)[i] = new[i]
    <3>1. CASE i = Depth
      BY <1>1, <1>2, <1>4, <2>3, <2>4, <3>1 DEF all
    <3>2. CASE i < Depth
      <4>1. i \in 1..Depth - 1 /\ i + 1 \in 1..Len(s)
        BY <1>1, <1>4, <3>2
      <4>2. QED
        BY <1>2, <2>2, <2>3, <2>4, <4>1 DEF all
    <3>3. i = Depth \/ i < Depth
      BY <1>1
    <3>4. QED
      BY <3>1, <3>2, <3>3
  <2>6. Append(kept, e) = new
    BY <2>3, <2>4, <2>5, SeqEqual
  <2>7. QED
    BY <2>1, <2>6
<1>5. QED
  BY <1>1, <1>3, <1>4

\* What get_history answers is a history again, or the error of a torn file.
LEMMA LimitedType ==
  ASSUME NEW s \in Histories \cup {Torn}, NEW limit \in 0..Depth
  PROVE  Limited(s, limit) \in Histories \cup {Torn}
<1>1. CASE s = Torn \/ limit = 0 \/ Len(s) <= limit
  BY <1>1 DEF Limited
<1>2. CASE ~(s = Torn \/ limit = 0 \/ Len(s) <= limit)
  <2>1. s \in Seq(Entry) /\ Len(s) \in Nat /\ Depth \in Nat /\ limit \in 1..Depth /\ limit < Len(s)
    BY <1>2, HistoryAssumption DEF Histories
  <2>2. \A i \in Len(s) - limit + 1..Len(s) : s[i] \in Entry
    BY <2>1, ElementOfSeq
  <2>3. /\ SubSeq(s, Len(s) - limit + 1, Len(s)) \in Seq(Entry)
        /\ Len(SubSeq(s, Len(s) - limit + 1, Len(s))) =
             IF Len(s) - limit + 1 <= Len(s) THEN Len(s) - (Len(s) - limit + 1) + 1 ELSE 0
    BY <2>1, <2>2, SubSeqProperties
  <2>4. SubSeq(s, Len(s) - limit + 1, Len(s)) \in Histories
    BY <2>1, <2>3 DEF Histories
  <2>5. QED
    BY <1>2, <2>4 DEF Limited
<1>3. QED
  BY <1>1, <1>2

-----------------------------------------------------------------------------
(* The inductive invariant: who writes the file holds the lock and knows   *)
(* what the file held when it was truncated.                               *)

WriterOf(p) ==
  /\ call[p].pc = "append" => call[p].entry \in Entry
  /\ call[p].pc \in {"truncate", "write"} <=> lock = p
  /\ call[p].pc \in {"truncate", "write"} => backend = "file"
  /\ call[p].pc = "truncate" =>
       /\ call[p].entry \in Entry /\ stored # Torn
       /\ call[p].entries = Added(stored, call[p].entry)
  /\ call[p].pc = "write" => stored = Torn

IInv ==
  /\ TypeOK
  /\ backend = "memory" => stored # Torn
  /\ \A p \in Calls : WriterOf(p)

\* What a call is, at any step.
Call == [pc : {"idle", "append", "truncate", "write"}, entry : Entry \cup {None}, entries : Histories]

\* The history of an alias that nothing was recorded for.
LEMMA EmptyHistory == <<>> \in Histories /\ <<>> # Torn
<1>1. <<>> \in Seq(Entry) /\ Len(<<>>) = 0
  BY EmptySeq
<1>2. 0 <= Depth
  BY HistoryAssumption
<1>3. <<>> \in Histories
  BY <1>1, <1>2 DEF Histories
<1>4. QED
  BY <1>3, TornAssumption

\* A call slot that is free.
LEMMA IdleIsCall == Idle \in Call /\ Idle.pc = "idle"
  BY EmptyHistory DEF Idle, Call

\* A call that has made its entry and not asked for the lock yet.
LEMMA RecordingIsCall ==
  ASSUME NEW e \in Entry, NEW c, c = [Idle EXCEPT !.pc = "append", !.entry = e]
  PROVE  c \in Call /\ c.pc = "append" /\ c.entry = e
  BY EmptyHistory DEF Idle, Call

\* The invariant holds before anything is recorded.
LEMMA InitInvariant == Init => IInv
  BY EmptyHistory, IdleIsCall, HistoryAssumption DEF Init, IInv, TypeOK, WriterOf, Call, Idle

\* What a step that changes the call of p leaves of all calls.
LEMMA OneCall ==
  ASSUME IInv, NEW p \in Calls, NEW c \in Call, call' = [call EXCEPT ![p] = c]
  PROVE  /\ call' \in [Calls -> Call]
         /\ call'[p] = c
         /\ \A q \in Calls \ {p} : call'[q] = call[q]
  BY DEF IInv, TypeOK, Call

\* Every step of either backend, a crash included, keeps the invariant.
LEMMA NextInvariant == IInv /\ [Next]_vars => IInv'
<1> SUFFICES ASSUME IInv, [Next]_vars PROVE IInv'
  OBVIOUS
<1>t. TypeOK /\ call \in [Calls -> Call] /\ \A p \in Calls : WriterOf(p)
  BY DEF IInv, TypeOK, Call
<1>1. ASSUME NEW p \in Calls, Record(p) PROVE IInv'
  <2> DEFINE c == [Idle EXCEPT !.pc = "append", !.entry = made']
  <2>1. c \in Call /\ c.pc = "append" /\ c.entry \in Entry /\ made' \in 0..MaxRecords
    <3>1. made' \in Entry /\ made' \in 0..MaxRecords
      BY <1>t, <1>1, HistoryAssumption DEF Record, TypeOK, Entry
    <3>2. QED
      BY <3>1, RecordingIsCall
  <2>2. call' = [call EXCEPT ![p] = c] /\ call[p].pc = "idle"
    BY <1>1 DEF Record, At
  <2> HIDE DEF c
  <2>3. call' \in [Calls -> Call] /\ call'[p] = c /\ \A q \in Calls \ {p} : call'[q] = call[q]
    BY <2>1, <2>2, OneCall
  <2>4. TypeOK' /\ (backend' = "memory" => stored' # Torn)
    BY <1>1, <1>t, <2>1, <2>3 DEF Record, TypeOK, Call, IInv
  <2>5. ASSUME NEW q \in Calls PROVE WriterOf(q)'
    <3>1. CASE q = p
      BY <1>1, <1>t, <2>1, <2>2, <2>3, <3>1 DEF Record, WriterOf
    <3>2. CASE q # p
      BY <1>1, <1>t, <2>3, <3>2 DEF Record, WriterOf
    <3>3. QED
      BY <3>1, <3>2
  <2>6. QED
    BY <2>4, <2>5 DEF IInv
<1>2. ASSUME NEW p \in Calls, MemoryAppend(p) PROVE IInv'
  <2>1. call' = [call EXCEPT ![p] = Idle] /\ call[p].pc = "append" /\ backend = "memory"
    BY <1>2 DEF MemoryAppend, At
  <2>2. call' \in [Calls -> Call] /\ call'[p] = Idle /\ \A q \in Calls \ {p} : call'[q] = call[q]
    BY <2>1, IdleIsCall, OneCall
  <2>3. stored' \in Histories /\ stored' # Torn
    <3>1. call[p].entry \in Entry /\ stored \in Histories
      BY <1>t, <2>1 DEF WriterOf, IInv, TypeOK
    <3>2. QED
      BY <1>2, <3>1, AddedType, TornAssumption DEF MemoryAppend
  <2>4. TypeOK'
    BY <1>2, <1>t, <2>2, <2>3 DEF MemoryAppend, TypeOK, Call
  <2>5. ASSUME NEW q \in Calls PROVE WriterOf(q)'
    <3>1. CASE q = p
      BY <1>2, <1>t, <2>1, <2>2, <3>1, IdleIsCall DEF MemoryAppend, WriterOf
    <3>2. CASE q # p
      BY <1>2, <1>t, <2>1, <2>2, <3>2 DEF MemoryAppend, WriterOf
    <3>3. QED
      BY <3>1, <3>2
  <2>6. QED
    BY <2>3, <2>4, <2>5 DEF IInv
<1>3. ASSUME NEW p \in Calls, ReadForAppend(p) PROVE IInv'
  <2>1. call[p].pc = "append" /\ backend = "file" /\ lock = None /\ call[p].entry \in Entry
    BY <1>3, <1>t DEF ReadForAppend, At, WriterOf
  <2>2. CASE stored = Torn
    <3>1. call' = [call EXCEPT ![p] = Idle] /\ UNCHANGED <<backend, made, stored, lock, answer>>
      BY <1>3, <2>2 DEF ReadForAppend
    <3>2. call' \in [Calls -> Call] /\ call'[p] = Idle /\ \A q \in Calls \ {p} : call'[q] = call[q]
      BY <3>1, IdleIsCall, OneCall
    <3>3. TypeOK' /\ (backend' = "memory" => stored' # Torn)
      BY <1>t, <3>1, <3>2 DEF TypeOK, Call, IInv
    <3>4. ASSUME NEW q \in Calls PROVE WriterOf(q)'
      <4>1. CASE q = p
        BY <1>t, <2>1, <3>1, <3>2, <4>1, IdleIsCall, HistoryAssumption DEF WriterOf
      <4>2. CASE q # p
        BY <1>t, <3>1, <3>2, <4>2 DEF WriterOf
      <4>3. QED
        BY <4>1, <4>2
    <3>5. QED
      BY <3>3, <3>4 DEF IInv
  <2>3. CASE stored # Torn
    <3> DEFINE c == [call[p] EXCEPT !.pc = "truncate", !.entries = Added(stored, call[p].entry)]
    <3>1. /\ call' = [call EXCEPT ![p] = c] /\ lock' = p
          /\ UNCHANGED <<backend, made, stored, answer>>
      BY <1>3, <2>3 DEF ReadForAppend
    <3>2. stored \in Histories /\ Added(stored, call[p].entry) \in Histories
      BY <1>t, <2>1, <2>3, AddedType DEF TypeOK
    <3>3. /\ c \in Call /\ c.pc = "truncate" /\ c.entry = call[p].entry
          /\ c.entries = Added(stored, call[p].entry)
      BY <1>t, <3>2 DEF Call
    <3> HIDE DEF c
    <3>4. call' \in [Calls -> Call] /\ call'[p] = c /\ \A q \in Calls \ {p} : call'[q] = call[q]
      BY <3>1, <3>3, OneCall
    <3>5. TypeOK' /\ (backend' = "memory" => stored' # Torn)
      BY <1>t, <3>1, <3>4 DEF TypeOK, Call, IInv
    <3>6. ASSUME NEW q \in Calls PROVE WriterOf(q)'
      <4>1. CASE q = p
        BY <2>1, <2>3, <3>1, <3>3, <3>4, <4>1 DEF WriterOf
      <4>2. CASE q # p
        BY <1>t, <2>1, <3>1, <3>4, <4>2, HistoryAssumption DEF WriterOf
      <4>3. QED
        BY <4>1, <4>2
    <3>7. QED
      BY <3>5, <3>6 DEF IInv
  <2>4. QED
    BY <2>2, <2>3
<1>4. ASSUME NEW p \in Calls, Truncate(p) PROVE IInv'
  <2> DEFINE c == [call[p] EXCEPT !.pc = "write"]
  <2>1. /\ call' = [call EXCEPT ![p] = c] /\ stored' = Torn /\ call[p].pc = "truncate"
        /\ UNCHANGED <<backend, made, lock, answer>>
    BY <1>4 DEF Truncate, At
  <2>2. c \in Call /\ c.pc = "write"
    BY <1>t DEF Call
  <2> HIDE DEF c
  <2>3. call' \in [Calls -> Call] /\ call'[p] = c /\ \A q \in Calls \ {p} : call'[q] = call[q]
    BY <2>1, <2>2, OneCall
  <2>4. lock = p /\ backend = "file"
    BY <1>t, <2>1 DEF WriterOf
  <2>5. TypeOK' /\ (backend' = "memory" => stored' # Torn)
    BY <1>t, <2>1, <2>3, <2>4 DEF TypeOK, Call
  <2>6. ASSUME NEW q \in Calls PROVE WriterOf(q)'
    <3>1. CASE q = p
      BY <2>1, <2>2, <2>3, <2>4, <3>1 DEF WriterOf
    <3>2. CASE q # p
      BY <1>t, <2>1, <2>3, <2>4, <3>2 DEF WriterOf
    <3>3. QED
      BY <3>1, <3>2
  <2>7. QED
    BY <2>5, <2>6 DEF IInv
<1>5. ASSUME NEW p \in Calls, Write(p) \/ WriteFails(p) PROVE IInv'
  <2>1. /\ call' = [call EXCEPT ![p] = Idle] /\ lock' = None
        /\ call[p].pc \in {"truncate", "write"}
        /\ stored' \in {stored, call[p].entries}
        /\ UNCHANGED <<backend, made, answer>>
    BY <1>5 DEF Write, WriteFails, Unlock, At
  <2>2. call' \in [Calls -> Call] /\ call'[p] = Idle /\ \A q \in Calls \ {p} : call'[q] = call[q]
    BY <2>1, IdleIsCall, OneCall
  <2>3. lock = p /\ backend = "file" /\ call[p].entries \in Histories
    BY <1>t, <2>1 DEF WriterOf, Call
  <2>4. TypeOK' /\ (backend' = "memory" => stored' # Torn)
    BY <1>t, <2>1, <2>2, <2>3 DEF TypeOK, Call
  <2>5. ASSUME NEW q \in Calls PROVE WriterOf(q)'
    <3>1. CASE q = p
      BY <2>1, <2>2, <3>1, IdleIsCall, HistoryAssumption DEF WriterOf
    <3>2. CASE q # p
      BY <1>t, <2>1, <2>2, <2>3, <3>2, HistoryAssumption DEF WriterOf
    <3>3. QED
      BY <3>1, <3>2
  <2>6. QED
    BY <2>4, <2>5 DEF IInv
<1>6. ASSUME NEW limit \in 0..Depth, List(limit) PROVE IInv'
  <2>1. answer' \in Histories \cup {Torn} /\ UNCHANGED <<backend, made, stored, lock, call>>
    BY <1>6, <1>t, LimitedType DEF List, TypeOK
  <2>2. TypeOK' /\ (backend' = "memory" => stored' # Torn)
    BY <1>t, <2>1 DEF TypeOK, IInv
  <2>3. QED
    BY <1>t, <2>1, <2>2 DEF IInv, WriterOf
<1>7. CASE Clear
  <2>1. lock = None /\ stored' = <<>> /\ UNCHANGED <<backend, made, lock, call, answer>>
    BY <1>7 DEF Clear
  <2>2. TypeOK' /\ (backend' = "memory" => stored' # Torn)
    BY <1>t, <2>1, EmptyHistory DEF TypeOK
  <2>3. ASSUME NEW q \in Calls PROVE WriterOf(q)'
    <3>1. call[q].pc \notin {"truncate", "write"}
      BY <1>t, <2>1, HistoryAssumption DEF WriterOf
    <3>2. QED
      BY <1>t, <2>1, <3>1 DEF WriterOf
  <2>4. QED
    BY <2>2, <2>3 DEF IInv
<1>8. CASE Crash
  <2>1. /\ stored' = IF backend = "memory" THEN <<>> ELSE stored
        /\ lock' = None /\ call' = [p \in Calls |-> Idle] /\ UNCHANGED <<backend, made, answer>>
    BY <1>8 DEF Crash
  <2>2. TypeOK' /\ (backend' = "memory" => stored' # Torn)
    BY <1>t, <2>1, EmptyHistory, IdleIsCall DEF TypeOK, Call
  <2>3. ASSUME NEW q \in Calls PROVE WriterOf(q)'
    BY <2>1, IdleIsCall, HistoryAssumption DEF WriterOf
  <2>4. QED
    BY <2>2, <2>3 DEF IInv
<1>9. CASE UNCHANGED vars
  BY <1>9, <1>t DEF vars, IInv, TypeOK, WriterOf
<1>10. QED
  BY <1>1, <1>2, <1>3, <1>4, <1>5, <1>6, <1>7, <1>8, <1>9 DEF Next, Continue

\* The invariant, in every reachable state.
LEMMA Invariance == Spec => []IInv
<1>1. Init => IInv
  BY InitInvariant
<1>2. IInv /\ [Next]_vars => IInv'
  BY NextInvariant
<1>3. QED
  BY <1>1, <1>2, PTL DEF Spec

\* Types are right, and above all: no history is ever longer than its depth,
\* with either backend, whatever is recorded at the same time.
THEOREM TypeCorrect == Spec => []TypeOK
<1>1. IInv => TypeOK
  BY DEF IInv
<1>2. QED
  BY <1>1, Invariance, PTL

\* The lock of an alias is held by the one call that is at work on its file, however
\* calls, failures and crashes interleave; no entry stored meanwhile is overwritten.
THEOREM LockGoesWithWriting == Spec => []LockIsHeldToWrite
<1>1. IInv => LockIsHeldToWrite
  <2> SUFFICES ASSUME IInv PROVE LockIsHeldToWrite
    OBVIOUS
  <2>1. lock \in Calls \cup {None} /\ \A p \in Calls : WriterOf(p)
    BY DEF IInv, TypeOK
  <2>2. lock # None => call[lock].pc \in {"truncate", "write"}
    BY <2>1 DEF WriterOf
  <2>3. ASSUME NEW p \in Calls
        PROVE  /\ call[p].pc \in {"truncate", "write"} => lock = p
               /\ At(p, "truncate") => call[p].entries = Added(stored, call[p].entry)
    BY <2>1 DEF WriterOf, At
  <2>4. QED
    BY <2>2, <2>3 DEF LockIsHeldToWrite
<1>2. QED
  BY <1>1, Invariance, PTL

-----------------------------------------------------------------------------
(* The refinement: every step of a backend is one of the log, or a stutter. *)

LEMMA LogStep == IInv /\ IInv' /\ [Next]_vars => [Promise!Next]_Promise!vars
<1> SUFFICES ASSUME IInv, IInv', [Next]_vars PROVE [Promise!Next]_Promise!vars
  OBVIOUS
<1>t. TypeOK /\ \A p \in Calls : WriterOf(p)
  BY DEF IInv
<1>1. ASSUME NEW p \in Calls, Record(p) PROVE [Promise!Next]_Promise!vars
  <2>1. /\ call[p].pc = "idle" /\ UNCHANGED <<backend, stored, lock, answer>>
        /\ \A q \in Calls \ {p} : call'[q] = call[q]
    BY <1>1, <1>t DEF Record, At, TypeOK
  <2>2. lock # p
    BY <1>t, <2>1 DEF WriterOf
  <2>3. Log' = Log
    BY <1>t, <2>1, <2>2 DEF Log, At, TypeOK
  <2>4. QED
    BY <2>1, <2>3 DEF Promise!vars
<1>2. ASSUME NEW p \in Calls, MemoryAppend(p) PROVE [Promise!Next]_Promise!vars
  <2>1. /\ backend = "memory" /\ call[p].pc = "append" /\ UNCHANGED <<backend, lock, answer>>
        /\ stored' = Added(stored, call[p].entry)
    BY <1>2 DEF MemoryAppend, At
  <2>2. lock = None /\ stored \in Histories /\ stored # Torn /\ call[p].entry \in Entry
    BY <1>t, <2>1 DEF IInv, WriterOf, TypeOK
  <2>3. Log = stored /\ Log' = stored'
    BY <2>1, <2>2 DEF Log
  <2>4. Log' = Promise!Latest(Append(Log, call[p].entry), Depth)
    BY <2>1, <2>2, <2>3, AddedIsLatest
  <2>5. Promise!Record(call[p].entry)
    BY <2>1, <2>2, <2>3, <2>4 DEF Promise!Record
  <2>6. QED
    BY <2>2, <2>5 DEF Promise!Next
<1>3. ASSUME NEW p \in Calls, ReadForAppend(p) PROVE [Promise!Next]_Promise!vars
  <2>1. lock = None /\ lock' \in {None, p} /\ UNCHANGED <<backend, stored, answer>>
    BY <1>3 DEF ReadForAppend
  <2>2. lock' = p => call'[p].pc = "truncate"
    <3>1. lock' = p => p # None
      BY HistoryAssumption
    <3>2. lock' = p => call' = [call EXCEPT ![p].pc = "truncate",
                                            ![p].entries = Added(stored, call[p].entry)]
      BY <1>3, <2>1, <3>1 DEF ReadForAppend
    <3>3. QED
      BY <1>t, <3>2 DEF TypeOK
  <2>3. Log = stored /\ Log' = stored'
    BY <2>1, <2>2 DEF Log, At
  <2>4. QED
    BY <2>1, <2>3 DEF Promise!vars
<1>4. ASSUME NEW p \in Calls, Truncate(p) PROVE [Promise!Next]_Promise!vars
  <2>1. /\ call[p].pc = "truncate" /\ UNCHANGED <<backend, lock, answer>>
        /\ call'[p].pc = "write" /\ call'[p].entries = call[p].entries
    BY <1>4, <1>t DEF Truncate, At, TypeOK
  <2>2. /\ lock = p /\ p # None /\ call[p].entry \in Entry /\ stored \in Histories /\ stored # Torn
        /\ call[p].entries = Added(stored, call[p].entry)
    BY <1>t, <2>1, HistoryAssumption DEF WriterOf, TypeOK
  <2>3. Log = stored /\ Log' = call[p].entries
    BY <2>1, <2>2 DEF Log, At
  <2>4. Log' = Promise!Latest(Append(Log, call[p].entry), Depth)
    BY <2>2, <2>3, AddedIsLatest
  <2>5. Promise!Record(call[p].entry)
    BY <2>1, <2>2, <2>3, <2>4 DEF Promise!Record
  <2>6. QED
    BY <2>2, <2>5 DEF Promise!Next
<1>5. ASSUME NEW p \in Calls, Write(p) PROVE [Promise!Next]_Promise!vars
  <2>1. /\ call[p].pc = "write" /\ stored' = call[p].entries /\ lock' = None
        /\ UNCHANGED <<backend, answer>>
    BY <1>5 DEF Write, Unlock, At
  <2>2. lock = p /\ p # None
    BY <1>t, <2>1, HistoryAssumption DEF WriterOf
  <2>3. Log' = Log
    BY <2>1, <2>2 DEF Log, At
  <2>4. QED
    BY <2>1, <2>3 DEF Promise!vars
<1>6. ASSUME NEW p \in Calls, WriteFails(p) PROVE [Promise!Next]_Promise!vars
  <2>1. /\ call[p].pc \in {"truncate", "write"} /\ lock' = None
        /\ UNCHANGED <<backend, stored, answer>>
    BY <1>6 DEF WriteFails, Unlock
  <2>2. lock = p /\ p # None /\ backend = "file" /\ Log' = stored
    BY <1>t, <2>1, HistoryAssumption DEF WriterOf, Log
  <2>3. CASE call[p].pc = "truncate"
    BY <2>1, <2>2, <2>3 DEF Log, At, Promise!vars
  <2>4. CASE call[p].pc = "write"
    <3>1. stored = Torn
      BY <1>t, <2>4 DEF WriterOf
    <3>2. Promise!Lose
      BY <2>1, <2>2, <3>1 DEF Promise!Lose
    <3>3. QED
      BY <3>2 DEF Promise!Next
  <2>5. QED
    BY <2>1, <2>3, <2>4
<1>7. ASSUME NEW limit \in 0..Depth, List(limit) PROVE [Promise!Next]_Promise!vars
  <2>1. /\ lock = None /\ answer' = Limited(stored, limit)
        /\ UNCHANGED <<backend, stored, lock, call>>
    BY <1>7 DEF List
  <2>2. Log = stored /\ Log' = stored
    BY <2>1 DEF Log
  <2>3. CASE stored = Torn \/ limit = 0
    <3>1. Promise!List
      BY <2>1, <2>2, <2>3 DEF Limited, Promise!List
    <3>2. QED
      BY <3>1 DEF Promise!Next
  <2>4. CASE stored # Torn /\ limit # 0
    <3>1. limit \in 1..Depth
      BY <2>4, HistoryAssumption
    <3>2. Promise!ListLatest(limit)
      BY <2>1, <2>2, <2>4 DEF Limited, Promise!ListLatest, Promise!Latest
    <3>3. QED
      BY <3>1, <3>2 DEF Promise!Next
  <2>5. QED
    BY <2>3, <2>4
<1>8. CASE Clear
  <2>1. lock = None /\ stored' = <<>> /\ UNCHANGED <<backend, lock, answer>>
    BY <1>8 DEF Clear
  <2>2. Promise!Clear
    BY <2>1 DEF Log, Promise!Clear
  <2>3. QED
    BY <2>2 DEF Promise!Next
<1>9. CASE Crash
  <2>1. /\ stored' = IF backend = "memory" THEN <<>> ELSE stored
        /\ lock' = None /\ UNCHANGED <<backend, answer>>
    BY <1>9 DEF Crash
  <2>2. Log' = stored'
    BY <2>1 DEF Log
  <2>3. CASE backend = "memory"
    <3>1. Promise!Restart
      BY <2>1, <2>2, <2>3 DEF Promise!Restart
    <3>2. QED
      BY <3>1 DEF Promise!Next
  <2>4. CASE backend = "file" /\ (lock = None \/ call[lock].pc # "write")
    <3>1. Log = stored
      BY <2>4 DEF Log, At
    <3>2. QED
      BY <2>1, <2>2, <2>4, <3>1 DEF Promise!vars
  <2>5. CASE backend = "file" /\ lock # None /\ call[lock].pc = "write"
    <3>1. stored = Torn
      BY <1>t, <2>5 DEF WriterOf, TypeOK
    <3>2. Promise!Lose
      BY <2>1, <2>2, <2>5, <3>1 DEF Promise!Lose
    <3>3. QED
      BY <3>2 DEF Promise!Next
  <2>6. QED
    BY <1>t, <2>3, <2>4, <2>5 DEF TypeOK
<1>10. CASE UNCHANGED vars
  BY <1>10 DEF vars, Log, At, Promise!vars
<1>11. QED
  BY <1>1, <1>2, <1>3, <1>4, <1>5, <1>6, <1>7, <1>8, <1>9, <1>10 DEF Next, Continue

\* Either backend is, to those who record, read and clear, one log of the Depth
\* interactions stored last, in the order of storing, although a file is truncated
\* before it is written and may stay so: the alias's lock hides the moment in
\* between, and what a crash leaves behind cannot be read.
THEOREM BackendsKeepTheLog == Spec => ImplementsLog
<1>1. Init => Promise!Init
  BY HistoryAssumption DEF Init, Log, Promise!Init
<1>2. IInv /\ IInv' /\ [Next]_vars => [Promise!Next]_Promise!vars
  BY LogStep
<1>3. QED
  BY <1>1, <1>2, Invariance, PTL DEF Spec, Promise!Spec, ImplementsLog
=============================================================================
