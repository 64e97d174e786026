---------------------------- MODULE InboxProofs ----------------------------
(***************************************************************************)
(* Proofs about Inbox, for every lifetime, clock and number of deposits:   *)
(* the shared slice implements a mailbox per agent (Mailboxes).            *)
(***************************************************************************)
EXTENDS Inbox, ListProofs, FiniteSets, FiniteSetTheorems, TLAPS

-----------------------------------------------------------------------------
(* Lists of entries.                                                       *)

Entries == Seq(InboxEntry)

\* By their timestamps.
Timely(s) == \A i, j \in 1..Len(s) : i < j => s[i].at <= s[j].at

\* Those of an agent, in the order in which they were deposited.
InTurn(s) == \A i, j \in 1..Len(s) : i < j /\ s[i].alias = s[j].alias => s[i].id < s[j].id

\* All of one agent.
OneAgent(s, a) == \A i \in 1..Len(s) : s[i].alias = a

\* An entry of a list, and the numbers its fields are.
LEMMA EntryAt ==
  ASSUME NEW s \in Entries
  PROVE  /\ Len(s) \in Nat /\ DOMAIN s = 1..Len(s)
         /\ ToSet(s) = {s[i] : i \in 1..Len(s)}
         /\ \A i \in 1..Len(s) : /\ s[i] \in InboxEntry /\ s[i].alias \in Aliases
                                  /\ s[i].at \in 1..MaxTime /\ s[i].at \in Nat
                                  /\ s[i].id \in 1..MaxDeposits /\ s[i].id \in Nat
<1>1. s \in Seq(InboxEntry) /\ Len(s) \in Nat /\ DOMAIN s = 1..Len(s)
  BY DEF Entries
<1>2. \A i \in 1..Len(s) : s[i] \in InboxEntry
  BY <1>1
<1>3. MaxTime \in Nat /\ MaxDeposits \in Nat
  BY InboxAssumption
<1>4. \A e \in InboxEntry : /\ e.alias \in Aliases
                            /\ e.at \in 1..MaxTime /\ e.at \in Nat
                            /\ e.id \in 1..MaxDeposits /\ e.id \in Nat
  BY <1>3 DEF InboxEntry
<1>5. ToSet(s) = {s[i] : i \in 1..Len(s)}
  BY <1>1 DEF ToSet
<1> QED
  BY <1>1, <1>2, <1>4, <1>5

\* Only keeps what is asked for, and both orders.
LEMMA OnlyKeeps ==
  ASSUME NEW s \in Entries, NEW S
  PROVE  /\ Only(s, S) \in Entries
         /\ ToSet(Only(s, S)) = ToSet(s) \cap S
         /\ Timely(s) => Timely(Only(s, S))
         /\ InTurn(s) => InTurn(Only(s, S))
<1> DEFINE t == Only(s, S)
<1>1. t \in Entries /\ \E p : Picks(p, t, s, Len(s), S)
  BY OnlyPicks DEF Entries
<1> HIDE DEF t
<1>2. PICK p : Picks(p, t, s, Len(s), S)
  BY <1>1
<1>3. /\ \A i \in 1..Len(t) : p[i] \in 1..Len(s)
      /\ \A i, j \in 1..Len(t) : i < j => p[i] < p[j]
      /\ \A i \in 1..Len(t) : t[i] = s[p[i]] /\ s[p[i]] \in S
      /\ \A j \in 1..Len(s) : s[j] \in S => \E i \in 1..Len(t) : p[i] = j
  BY <1>2 DEF Picks
<1>4. ToSet(t) = ToSet(s) \cap S
  <2>1. ToSet(t) = {t[i] : i \in 1..Len(t)} /\ ToSet(s) = {s[i] : i \in 1..Len(s)}
    BY <1>1, EntryAt
  <2>2. ASSUME NEW e \in ToSet(t)
        PROVE  e \in ToSet(s) /\ e \in S
    BY <1>3, <2>1
  <2>3. ASSUME NEW e \in ToSet(s), e \in S
        PROVE  e \in ToSet(t)
    <3>1. PICK j \in 1..Len(s) : e = s[j]
      BY <2>1
    <3>2. PICK i \in 1..Len(t) : p[i] = j
      BY <1>3, <2>3, <3>1
    <3> QED
      BY <1>3, <2>1, <3>1, <3>2
  <2> QED
    BY <2>2, <2>3
<1>5. Timely(s) => Timely(t)
  <2>1. SUFFICES ASSUME Timely(s), NEW i \in 1..Len(t), NEW j \in 1..Len(t), i < j
                 PROVE  t[i].at <= t[j].at
    BY DEF Timely
  <2>2. p[i] \in 1..Len(s) /\ p[j] \in 1..Len(s) /\ p[i] < p[j]
    BY <1>3, <2>1
  <2>3. t[i] = s[p[i]] /\ t[j] = s[p[j]]
    BY <1>3
  <2>4. s[p[i]].at <= s[p[j]].at
    BY <2>1, <2>2 DEF Timely
  <2> QED
    BY <2>3, <2>4
<1>6. InTurn(s) => InTurn(t)
  <2>1. SUFFICES ASSUME InTurn(s), NEW i \in 1..Len(t), NEW j \in 1..Len(t), i < j,
                        t[i].alias = t[j].alias
                 PROVE  t[i].id < t[j].id
    BY DEF InTurn
  <2>2. p[i] \in 1..Len(s) /\ p[j] \in 1..Len(s) /\ p[i] < p[j]
    BY <1>3, <2>1
  <2>3. t[i] = s[p[i]] /\ t[j] = s[p[j]]
    BY <1>3
  <2>4. s[p[i]].alias = s[p[j]].alias
    BY <2>1, <2>3
  <2>5. s[p[i]].id < s[p[j]].id
    BY <2>1, <2>2, <2>4 DEF InTurn
  <2> QED
    BY <2>3, <2>5
<1>7. t \in Entries
  BY <1>1
<1> QED
  BY <1>4, <1>5, <1>6, <1>7 DEF t

\* Part of a list.
LEMMA PartKeeps ==
  ASSUME NEW s \in Entries, NEW m \in 1..Len(s) + 1, NEW n \in 0..Len(s)
  PROVE  /\ SubSeq(s, m, n) \in Entries
         /\ ToSet(SubSeq(s, m, n)) \subseteq ToSet(s)
         /\ Timely(s) => Timely(SubSeq(s, m, n))
         /\ InTurn(s) => InTurn(SubSeq(s, m, n))
         /\ \A a : OneAgent(s, a) => OneAgent(SubSeq(s, m, n), a)
<1> DEFINE t == SubSeq(s, m, n)
<1>1. s \in Seq(InboxEntry) /\ Len(s) \in Nat
  BY DEF Entries
<1>2. /\ t \in Seq(InboxEntry)
      /\ Len(t) = IF m <= n THEN n - m + 1 ELSE 0
      /\ \A i \in 1..Len(t) : t[i] = s[m + i - 1]
  BY <1>1
<1> HIDE DEF t
<1>3. \A i \in 1..Len(t) : m + i - 1 \in 1..Len(s)
  BY <1>1, <1>2
<1>4. \A i, j \in 1..Len(t) : i < j => m + i - 1 < m + j - 1
  BY <1>1, <1>2
<1>5. Timely(s) => Timely(t)
  BY <1>2, <1>3, <1>4 DEF Timely
<1>6. InTurn(s) => InTurn(t)
  BY <1>2, <1>3, <1>4 DEF InTurn
<1>7. \A a : OneAgent(s, a) => OneAgent(t, a)
  BY <1>2, <1>3 DEF OneAgent
<1>8. t \in Entries
  BY <1>2 DEF Entries
<1>9. ToSet(t) \subseteq ToSet(s)
  <2>1. ToSet(t) = {t[i] : i \in 1..Len(t)} /\ ToSet(s) = {s[i] : i \in 1..Len(s)}
    BY <1>8, EntryAt
  <2> QED
    BY <1>2, <1>3, <2>1
<1> QED
  BY <1>5, <1>6, <1>7, <1>8, <1>9 DEF t

\* The place of an entry among those of its agent is the number of entries up to it.
LEMMA PlaceOf ==
  ASSUME NEW s \in Entries, NEW a, OneAgent(s, a), InTurn(s)
  PROVE  /\ IsFiniteSet(ToSet(s)) /\ Cardinality(ToSet(s)) = Len(s)
         /\ \A i \in 1..Len(s) : Cardinality({e \in ToSet(s) : e.id <= s[i].id}) = i
<1>1. /\ Len(s) \in Nat
      /\ ToSet(s) = {s[i] : i \in 1..Len(s)}
      /\ \A i \in 1..Len(s) : s[i].id \in Nat
  BY EntryAt
<1>2. \A i, j \in 1..Len(s) : i < j => s[i].id < s[j].id
  BY DEF OneAgent, InTurn
<1>3. \A i, j \in 1..Len(s) : s[i].id <= s[j].id <=> i <= j
  <2>1. TAKE i, j \in 1..Len(s)
  <2>2. CASE i < j
    BY <1>1, <1>2, <2>2
  <2>3. CASE i = j
    BY <1>1, <2>3
  <2>4. CASE j < i
    BY <1>1, <1>2, <2>4
  <2> QED
    BY <1>1, <2>2, <2>3, <2>4
<1>4. ASSUME NEW n \in 0..Len(s)
      PROVE  IsFiniteSet({s[i] : i \in 1..n}) /\ Cardinality({s[i] : i \in 1..n}) = n
  <2> DEFINE S == {s[i] : i \in 1..n}
             f == [i \in 1..n |-> s[i]]
  <2>1. \A i, j \in 1..n : s[i] = s[j] => i = j
    <3>1. TAKE i, j \in 1..n
    <3>2. i \in 1..Len(s) /\ j \in 1..Len(s)
      BY <1>1
    <3>3. HAVE s[i] = s[j]
    <3>4. i <= j /\ j <= i
      BY <1>1, <1>3, <3>2, <3>3
    <3> QED
      BY <3>4
  <2>2. f \in Bijection(1..n, S)
    BY <2>1 DEF Bijection, Injection, Surjection, IsInjective
  <2>3. IsFiniteSet(1..n) /\ Cardinality(1..n) = n
    BY <1>1, FS_Interval
  <2> HIDE DEF S, f
  <2>4. IsFiniteSet(S) /\ Cardinality(S) = n
    BY <2>2, <2>3, FS_Bijection DEF ExistsBijection
  <2> QED
    BY <2>4 DEF S
<1>5. ASSUME NEW i \in 1..Len(s)
      PROVE  Cardinality({e \in ToSet(s) : e.id <= s[i].id}) = i
  <2>1. {e \in ToSet(s) : e.id <= s[i].id} = {s[j] : j \in 1..i}
    <3>1. \A j \in 1..Len(s) : s[j].id <= s[i].id <=> j \in 1..i
      BY <1>1, <1>3
    <3>2. \A j \in 1..i : j \in 1..Len(s)
      BY <1>1
    <3> QED
      BY <1>1, <3>1, <3>2
  <2>2. i \in 0..Len(s)
    BY <1>1
  <2>3. Cardinality({s[j] : j \in 1..i}) = i
    BY <1>4, <2>2
  <2> QED
    BY <2>1, <2>3
<1>6. IsFiniteSet(ToSet(s)) /\ Cardinality(ToSet(s)) = Len(s)
  <2>1. Len(s) \in 0..Len(s)
    BY <1>1
  <2> QED
    BY <1>1, <1>4, <2>1
<1> QED
  BY <1>5, <1>6

\* Two lists of one agent that have the same entries, in the order of their
\* deposits, are the same.
LEMMA SameList ==
  ASSUME NEW s \in Entries, NEW t \in Entries, NEW a, OneAgent(s, a), OneAgent(t, a),
         InTurn(s), InTurn(t), ToSet(s) = ToSet(t)
  PROVE  s = t
<1>1. Len(s) = Len(t)
  BY PlaceOf
<1>2. ASSUME NEW i \in 1..Len(s)
      PROVE  s[i] = t[i]
  <2>1. PICK j \in 1..Len(t) : t[j] = s[i]
    <3>1. s[i] \in ToSet(t)
      BY EntryAt
    <3> QED
      BY <3>1, EntryAt
  <2>2. /\ Cardinality({e \in ToSet(s) : e.id <= s[i].id}) = i
        /\ Cardinality({e \in ToSet(t) : e.id <= t[j].id}) = j
    BY PlaceOf
  <2>3. i = j
    BY <2>1, <2>2
  <2> QED
    BY <2>1, <2>3
<1> QED
  BY <1>1, <1>2 DEF Entries

-----------------------------------------------------------------------------
(* The merge of a limited read.                                            *)

\* After ri and ki entries the next one comes from r.
FromFirst(r, k, ri, ki) == ri < Len(r) /\ (ki < Len(k) => r[ri + 1].at <= k[ki + 1].at)

\* The loop for n entries.
MergesTo(f, r, k, n) ==
  f = [m \in 0..n |->
         IF m = 0 THEN 0
         ELSE IF FromFirst(r, k, f[m - 1], m - 1 - f[m - 1]) THEN f[m - 1] + 1 ELSE f[m - 1]]

\* The loop runs to its end.
LEMMA MergeRuns ==
  ASSUME NEW r, NEW k
  PROVE  \A n \in Nat : \E f : MergesTo(f, r, k, n)
<1> DEFINE Step(f, m) == IF FromFirst(r, k, f[m - 1], m - 1 - f[m - 1]) THEN f[m - 1] + 1 ELSE f[m - 1]
           T == {n \in Nat : \E f : MergesTo(f, r, k, n)}
<1>1. 0 \in T
  <2> DEFINE f == [m \in 0..0 |-> 0]
  <2>1. MergesTo(f, r, k, 0)
    BY DEF MergesTo
  <2> QED
    BY <2>1
<1>2. ASSUME NEW n \in Nat, n \in T
      PROVE  n + 1 \in T
  <2>1. PICK f : MergesTo(f, r, k, n)
    BY <1>2
  <2> DEFINE g == [m \in 0..n + 1 |-> IF m <= n THEN f[m] ELSE Step(f, m)]
             h == [m \in 0..n + 1 |-> IF m = 0 THEN 0 ELSE Step(g, m)]
  <2>2. \A m \in 0..n : g[m] = f[m]
    OBVIOUS
  <2>3. \A m \in 0..n : f[m] = IF m = 0 THEN 0 ELSE Step(f, m)
    BY <2>1 DEF MergesTo
  <2>4. ASSUME NEW m \in 0..n + 1
        PROVE  g[m] = h[m]
    <3>1. CASE m = 0
      BY <2>2, <2>3, <3>1
    <3>2. CASE m \in 1..n
      <4>1. m - 1 \in 0..n /\ m \in 0..n
        BY <3>2
      <4> QED
        BY <2>2, <2>3, <3>2, <4>1
    <3>3. CASE m = n + 1
      <4>1. m - 1 \in 0..n /\ ~ (m <= n) /\ m # 0
        BY <3>3
      <4> QED
        BY <2>2, <4>1
    <3> QED
      BY <3>1, <3>2, <3>3
  <2>5. g = h
    BY <2>4
  <2>6. MergesTo(g, r, k, n + 1)
    BY <2>5 DEF MergesTo
  <2> QED
    BY <2>6
<1> HIDE DEF T
<1>3. \A n \in Nat : n \in T
  BY <1>1, <1>2, Induction
<1> QED
  BY <1>3 DEF T

\* One round of the loop.
LEMMA TakenStep ==
  ASSUME NEW r \in Entries, NEW k \in Entries
  PROVE  /\ Taken(r, k)[0] = 0
         /\ \A n \in 1..Len(r) + Len(k) :
              Taken(r, k)[n] = IF FromFirst(r, k, Taken(r, k)[n - 1], n - 1 - Taken(r, k)[n - 1])
                               THEN Taken(r, k)[n - 1] + 1 ELSE Taken(r, k)[n - 1]
<1>1. Len(r) \in Nat /\ Len(k) \in Nat /\ Len(r) + Len(k) \in Nat
  BY EntryAt
<1>2. \E f : MergesTo(f, r, k, Len(r) + Len(k))
  BY <1>1, MergeRuns
<1>3. MergesTo(Taken(r, k), r, k, Len(r) + Len(k))
  BY <1>2 DEF Taken, MergesTo, FromFirst
<1> DEFINE f == Taken(r, k)
<1> HIDE DEF f
<1>4. MergesTo(f, r, k, Len(r) + Len(k))
  BY <1>3 DEF f
<1>5. \A m \in 0..Len(r) + Len(k) :
        f[m] = IF m = 0 THEN 0
               ELSE IF FromFirst(r, k, f[m - 1], m - 1 - f[m - 1]) THEN f[m - 1] + 1 ELSE f[m - 1]
  BY <1>4 DEF MergesTo
<1>6. f[0] = 0
  BY <1>1, <1>5
<1>7. \A n \in 1..Len(r) + Len(k) :
        f[n] = IF FromFirst(r, k, f[n - 1], n - 1 - f[n - 1]) THEN f[n - 1] + 1 ELSE f[n - 1]
  BY <1>1, <1>5
<1> QED
  BY <1>6, <1>7 DEF f

\* The two indices of the loop stay within their lists.
LEMMA TakenWithin ==
  ASSUME NEW r \in Entries, NEW k \in Entries, NEW n \in 0..Len(r) + Len(k)
  PROVE  /\ Taken(r, k)[n] \in 0..Len(r)
         /\ n - Taken(r, k)[n] \in 0..Len(k)
<1> DEFINE f == Taken(r, k)
           Fine(m) == f[m] \in 0..Len(r) /\ m - f[m] \in 0..Len(k)
           T == {m \in Nat : m <= Len(r) + Len(k) => Fine(m)}
<1>1. Len(r) \in Nat /\ Len(k) \in Nat
  BY EntryAt
<1>2. /\ f[0] = 0
      /\ \A m \in 1..Len(r) + Len(k) :
           f[m] = IF FromFirst(r, k, f[m - 1], m - 1 - f[m - 1]) THEN f[m - 1] + 1 ELSE f[m - 1]
  BY TakenStep
<1> HIDE DEF f
<1>3. 0 \in T
  BY <1>1, <1>2
<1>4. ASSUME NEW m \in Nat, m \in T
      PROVE  m + 1 \in T
  <2> SUFFICES ASSUME m + 1 <= Len(r) + Len(k)
               PROVE  Fine(m + 1)
    OBVIOUS
  <2>1. Fine(m)
    BY <1>1, <1>4
  <2>2. f[m + 1] = IF FromFirst(r, k, f[m], m - f[m]) THEN f[m] + 1 ELSE f[m]
    <3>1. m + 1 \in 1..Len(r) + Len(k) /\ (m + 1) - 1 = m
      BY <1>1
    <3> QED
      BY <1>2, <3>1
  <2>3. CASE FromFirst(r, k, f[m], m - f[m])
    BY SMTT(30), <1>1, <2>1, <2>2, <2>3 DEF FromFirst
  <2>4. CASE ~ FromFirst(r, k, f[m], m - f[m])
    BY <1>1, <2>1, <2>2, <2>4 DEF FromFirst
  <2> QED
    BY <2>3, <2>4
<1> HIDE DEF T
<1>5. \A m \in Nat : m \in T
  BY <1>3, <1>4, Induction
<1>6. n \in Nat /\ n <= Len(r) + Len(k)
  BY <1>1
<1> QED
  BY <1>5, <1>6 DEF T, f

\* They never go back.
LEMMA TakenGrows ==
  ASSUME NEW r \in Entries, NEW k \in Entries,
         NEW m \in 0..Len(r) + Len(k), NEW n \in m..Len(r) + Len(k)
  PROVE  /\ Taken(r, k)[m] <= Taken(r, k)[n]
         /\ m - Taken(r, k)[m] <= n - Taken(r, k)[n]
<1> DEFINE f == Taken(r, k)
           Fine(i) == f[m] <= f[i] /\ m - f[m] <= i - f[i]
           T == {i \in Nat : i \in m..Len(r) + Len(k) => Fine(i)}
<1>1. Len(r) \in Nat /\ Len(k) \in Nat
  BY EntryAt
<1>2. /\ f[0] = 0
      /\ \A i \in 1..Len(r) + Len(k) :
           f[i] = IF FromFirst(r, k, f[i - 1], i - 1 - f[i - 1]) THEN f[i - 1] + 1 ELSE f[i - 1]
  BY TakenStep
<1>3. \A i \in 0..Len(r) + Len(k) : f[i] \in Nat
  BY <1>1, TakenWithin
<1> HIDE DEF f
<1>4. 0 \in T
  BY <1>1, <1>3
<1>5. ASSUME NEW i \in Nat, i \in T
      PROVE  i + 1 \in T
  <2> SUFFICES ASSUME i + 1 \in m..Len(r) + Len(k)
               PROVE  Fine(i + 1)
    OBVIOUS
  <2>1. CASE i + 1 = m
    BY <1>1, <1>3, <2>1
  <2>2. CASE i + 1 # m
    <3>1. i \in m..Len(r) + Len(k) /\ Fine(i)
      BY <1>1, <1>5, <2>2
    <3>2. f[i + 1] = f[i] + 1 \/ f[i + 1] = f[i]
      <4>1. i + 1 \in 1..Len(r) + Len(k) /\ (i + 1) - 1 = i
        BY <1>1
      <4> QED
        BY <1>2, <4>1
    <3>3. f[i] \in Nat /\ f[m] \in Nat
      BY <1>1, <1>3, <3>1
    <3> QED
      BY SMTT(30), <3>1, <3>2, <3>3
  <2> QED
    BY <2>1, <2>2
<1> HIDE DEF T
<1>6. \A i \in Nat : i \in T
  BY <1>4, <1>5, Induction
<1>7. n \in Nat
  BY <1>1
<1> QED
  BY <1>6, <1>7 DEF T, f

\* The n-th entry comes from r.
First(r, k, n) == Taken(r, k)[n] > Taken(r, k)[n - 1]

\* Where the n-th entry comes from, and what the loop compared.
LEMMA MergedAt ==
  ASSUME NEW r \in Entries, NEW k \in Entries, NEW n \in 1..Len(r) + Len(k)
  PROVE  /\ First(r, k, n) =>
              /\ Taken(r, k)[n] \in 1..Len(r) /\ Taken(r, k)[n - 1] = Taken(r, k)[n] - 1
              /\ FromFirst(r, k, Taken(r, k)[n] - 1, n - Taken(r, k)[n])
              /\ Merged(r, k)[n] = r[Taken(r, k)[n]]
         /\ ~ First(r, k, n) =>
              /\ n - Taken(r, k)[n] \in 1..Len(k) /\ Taken(r, k)[n - 1] = Taken(r, k)[n]
              /\ ~ FromFirst(r, k, Taken(r, k)[n], n - 1 - Taken(r, k)[n])
              /\ Merged(r, k)[n] = k[n - Taken(r, k)[n]]
<1> DEFINE f == Taken(r, k)
           M == Merged(r, k)
<1>1. Len(r) \in Nat /\ Len(k) \in Nat
  BY EntryAt
<1>2. f[n] = IF FromFirst(r, k, f[n - 1], n - 1 - f[n - 1]) THEN f[n - 1] + 1 ELSE f[n - 1]
  BY TakenStep
<1>3. n - 1 \in 0..Len(r) + Len(k) /\ n \in 0..Len(r) + Len(k) /\ n \in Nat
  BY <1>1
<1>4. /\ f[n] \in 0..Len(r) /\ n - f[n] \in 0..Len(k)
      /\ f[n - 1] \in 0..Len(r) /\ n - 1 - f[n - 1] \in 0..Len(k)
  BY <1>3, TakenWithin
<1>5. M[n] = IF f[n] > f[n - 1] THEN r[f[n]] ELSE k[n - f[n]]
  BY DEF Merged
<1> HIDE DEF f, M
<1>6. ASSUME f[n] > f[n - 1]
      PROVE  /\ f[n] \in 1..Len(r) /\ f[n - 1] = f[n] - 1
             /\ FromFirst(r, k, f[n] - 1, n - f[n])
             /\ M[n] = r[f[n]]
  <2>1. FromFirst(r, k, f[n - 1], n - 1 - f[n - 1]) /\ f[n] = f[n - 1] + 1
    BY <1>1, <1>2, <1>4, <1>6
  <2>2. f[n - 1] = f[n] - 1 /\ n - 1 - f[n - 1] = n - f[n] /\ f[n] \in 1..Len(r)
    BY <1>1, <1>3, <1>4, <2>1
  <2> QED
    BY <1>5, <1>6, <2>1, <2>2
<1>7. ASSUME ~ (f[n] > f[n - 1])
      PROVE  /\ n - f[n] \in 1..Len(k) /\ f[n - 1] = f[n]
             /\ ~ FromFirst(r, k, f[n], n - 1 - f[n])
             /\ M[n] = k[n - f[n]]
  <2>1. ~ FromFirst(r, k, f[n - 1], n - 1 - f[n - 1]) /\ f[n] = f[n - 1]
    BY <1>1, <1>2, <1>4, <1>7
  <2>2. n - f[n] \in 1..Len(k)
    BY <1>1, <1>3, <1>4, <2>1
  <2> QED
    BY <1>5, <1>7, <2>1, <2>2
<1> QED
  BY <1>6, <1>7 DEF First, f, M

\* Every entry of r and every entry of k has a place in the merge.
LEMMA MergedAll ==
  ASSUME NEW r \in Entries, NEW k \in Entries
  PROVE  /\ \A i \in 1..Len(r) : \E n \in 1..Len(r) + Len(k) :
              First(r, k, n) /\ Taken(r, k)[n] = i
         /\ \A i \in 1..Len(k) : \E n \in 1..Len(r) + Len(k) :
              ~ First(r, k, n) /\ n - Taken(r, k)[n] = i
<1> DEFINE f == Taken(r, k)
           N == Len(r) + Len(k)
           Place(n) == IF First(r, k, n) THEN f[n] ELSE Len(r) + (n - f[n])
           g == [n \in 1..N |-> Place(n)]
<1>1. Len(r) \in Nat /\ Len(k) \in Nat /\ N \in Nat
  BY EntryAt
<1>2. \A n \in 1..N : /\ f[n] \in Nat /\ n \in Nat
                      /\ First(r, k, n) => f[n] \in 1..Len(r) /\ f[n - 1] = f[n] - 1
                      /\ ~ First(r, k, n) => n - f[n] \in 1..Len(k) /\ f[n - 1] = f[n]
  <2>1. TAKE n \in 1..N
  <2>2. n \in 0..N /\ n \in Nat
    BY <1>1
  <2>3. f[n] \in Nat
    BY <1>1, <2>2, TakenWithin
  <2> QED
    BY <2>2, <2>3, MergedAt
<1>3. ASSUME NEW m \in 1..N, NEW n \in 1..N, m < n
      PROVE  f[m] <= f[n - 1] /\ m - f[m] <= n - 1 - f[n - 1]
  <2>1. m \in 0..N /\ n - 1 \in m..N
    BY <1>1, <1>3
  <2> QED
    BY <2>1, TakenGrows
<1> HIDE DEF f
<1>4. \A n \in 1..N : Place(n) \in 1..N
  BY <1>1, <1>2
<1>5. ASSUME NEW m \in 1..N, NEW n \in 1..N, m < n
      PROVE  Place(m) # Place(n)
  <2>1. CASE First(r, k, m) /\ First(r, k, n)
    BY <1>1, <1>2, <1>3, <1>5, <2>1
  <2>2. CASE First(r, k, m) /\ ~ First(r, k, n)
    BY <1>1, <1>2, <2>2
  <2>3. CASE ~ First(r, k, m) /\ First(r, k, n)
    BY SMTT(30), <1>1, <1>2, <2>3
  <2>4. CASE ~ First(r, k, m) /\ ~ First(r, k, n)
    <3>1. Place(m) = Len(r) + (m - f[m]) /\ Place(n) = Len(r) + (n - f[n])
      BY <2>4
    <3>2. f[n - 1] = f[n] /\ f[m] \in Nat /\ f[n] \in Nat /\ m \in Nat /\ n \in Nat
      BY <1>2, <2>4
    <3>3. m - f[m] <= n - 1 - f[n]
      BY <1>3, <1>5, <3>2
    <3> QED
      BY SMTT(30), <1>1, <3>1, <3>2, <3>3
  <2> QED
    BY <2>1, <2>2, <2>3, <2>4
<1>6. g \in Injection(1..N, 1..N)
  <2>1. ASSUME NEW m \in 1..N, NEW n \in 1..N, Place(m) = Place(n)
        PROVE  m = n
    <3>1. ~ (m < n) /\ ~ (n < m)
      BY <1>5, <2>1
    <3> QED
      BY <1>1, <3>1
  <2> HIDE DEF Place
  <2> QED
    BY <1>4, <2>1 DEF Injection, IsInjective
<1>7. g \in Surjection(1..N, 1..N)
  <2> HIDE DEF g
  <2>1. IsFiniteSet(1..N)
    BY <1>1, FS_Interval
  <2> QED
    BY <1>6, <2>1, FS_Injection
<1>8. \A i \in 1..N : \E n \in 1..N : Place(n) = i
  <2> HIDE DEF Place
  <2> QED
    BY <1>7 DEF Surjection
<1>9. ASSUME NEW i \in 1..Len(r)
      PROVE  \E n \in 1..N : First(r, k, n) /\ f[n] = i
  <2>1. PICK n \in 1..N : Place(n) = i
    BY <1>1, <1>8
  <2> QED
    BY <1>1, <1>2, <2>1
<1>10. ASSUME NEW i \in 1..Len(k)
       PROVE  \E n \in 1..N : ~ First(r, k, n) /\ n - f[n] = i
  <2>1. Len(r) + i \in 1..N
    BY <1>1
  <2>2. PICK n \in 1..N : Place(n) = Len(r) + i
    BY <1>8, <2>1
  <2> QED
    BY <1>1, <1>2, <2>2
<1> QED
  BY <1>9, <1>10 DEF f

\* The merge has the entries of both lists, by their timestamps if both lists
\* are, and in turn if both lists are and share no agent.
LEMMA MergedKeeps ==
  ASSUME NEW r \in Entries, NEW k \in Entries
  PROVE  /\ Merged(r, k) \in Entries
         /\ ToSet(Merged(r, k)) = ToSet(r) \cup ToSet(k)
         /\ Timely(r) /\ Timely(k) => Timely(Merged(r, k))
         /\ InTurn(r) /\ InTurn(k)
               /\ (\A i \in 1..Len(r), j \in 1..Len(k) : r[i].alias # k[j].alias)
             => InTurn(Merged(r, k))
<1> DEFINE f == Taken(r, k)
           N == Len(r) + Len(k)
           M == Merged(r, k)
<1>1. /\ Len(r) \in Nat /\ Len(k) \in Nat /\ N \in Nat
      /\ \A i \in 1..Len(r) : r[i] \in InboxEntry /\ r[i].at \in Nat /\ r[i].id \in Nat
      /\ \A i \in 1..Len(k) : k[i] \in InboxEntry /\ k[i].at \in Nat /\ k[i].id \in Nat
      /\ ToSet(r) = {r[i] : i \in 1..Len(r)} /\ ToSet(k) = {k[i] : i \in 1..Len(k)}
  <2>1. /\ Len(r) \in Nat /\ ToSet(r) = {r[i] : i \in 1..Len(r)}
        /\ \A i \in 1..Len(r) : r[i] \in InboxEntry /\ r[i].at \in Nat /\ r[i].id \in Nat
    BY EntryAt
  <2>2. /\ Len(k) \in Nat /\ ToSet(k) = {k[i] : i \in 1..Len(k)}
        /\ \A i \in 1..Len(k) : k[i] \in InboxEntry /\ k[i].at \in Nat /\ k[i].id \in Nat
    BY EntryAt
  <2>3. N \in Nat
    BY <2>1, <2>2
  <2> QED
    BY <2>1, <2>2, <2>3
<1>2. \A n \in 1..N : First(r, k, n) =>
        /\ f[n] \in 1..Len(r) /\ f[n - 1] = f[n] - 1
        /\ FromFirst(r, k, f[n] - 1, n - f[n])
        /\ M[n] = r[f[n]]
  BY MergedAt
<1>3. \A n \in 1..N : ~ First(r, k, n) =>
        /\ n - f[n] \in 1..Len(k) /\ f[n - 1] = f[n]
        /\ ~ FromFirst(r, k, f[n], n - 1 - f[n])
        /\ M[n] = k[n - f[n]]
  BY MergedAt
<1>4. \A n \in 0..N : f[n] \in Nat
  BY <1>1, TakenWithin
<1>5. ASSUME NEW m \in 1..N, NEW n \in 1..N, m < n
      PROVE  f[m] <= f[n - 1] /\ m - f[m] <= n - 1 - f[n - 1]
  <2>1. m \in 0..N /\ n - 1 \in m..N
    BY <1>1, <1>5
  <2> QED
    BY <2>1, TakenGrows
<1>6. /\ \A i \in 1..Len(r) : \E n \in 1..N : First(r, k, n) /\ f[n] = i
      /\ \A i \in 1..Len(k) : \E n \in 1..N : ~ First(r, k, n) /\ n - f[n] = i
  BY MergedAll
<1>7. M \in Entries /\ Len(M) = N
  <2>1. M = [n \in 1..N |-> IF f[n] > f[n - 1] THEN r[f[n]] ELSE k[n - f[n]]]
    BY DEF Merged
  <2> HIDE DEF M
  <2>2. \A n \in 1..N : M[n] \in InboxEntry
    BY <1>1, <1>2, <1>3
  <2>3. M \in [1..N -> InboxEntry]
    BY <2>1, <2>2
  <2>4. N \in Nat
    BY <1>1
  <2> HIDE DEF N
  <2>5. M \in Seq(InboxEntry) /\ Len(M) = N
    BY <2>3, <2>4
  <2> QED
    BY <2>5 DEF Entries
<1> HIDE DEF f, M
<1>8. ToSet(M) = ToSet(r) \cup ToSet(k)
  <2>1. ToSet(M) = {M[n] : n \in 1..N}
    BY <1>7, EntryAt
  <2>2. ASSUME NEW e \in ToSet(M)
        PROVE  e \in ToSet(r) \cup ToSet(k)
    <3>1. PICK n \in 1..N : e = M[n]
      BY <2>1
    <3> QED
      BY <1>1, <1>2, <1>3, <3>1
  <2>3. ASSUME NEW e \in ToSet(r)
        PROVE  e \in ToSet(M)
    <3>1. PICK i \in 1..Len(r) : e = r[i]
      BY <1>1
    <3>2. PICK n \in 1..N : First(r, k, n) /\ f[n] = i
      BY <1>6
    <3> QED
      BY <1>2, <2>1, <3>1, <3>2
  <2>4. ASSUME NEW e \in ToSet(k)
        PROVE  e \in ToSet(M)
    <3>1. PICK i \in 1..Len(k) : e = k[i]
      BY <1>1
    <3>2. PICK n \in 1..N : ~ First(r, k, n) /\ n - f[n] = i
      BY <1>6
    <3> QED
      BY <1>3, <2>1, <3>1, <3>2
  <2> QED
    BY <2>2, <2>3, <2>4
<1>9. ASSUME Timely(r), Timely(k), NEW m \in 1..N, NEW n \in 1..N, m < n
      PROVE  M[m].at <= M[n].at
  <2>1. m \in Nat /\ n \in Nat /\ f[m] \in Nat /\ f[n] \in Nat
    BY <1>1, <1>4
  <2>2. \A i, j \in 1..Len(r) : i <= j => r[i].at <= r[j].at
    BY <1>1, <1>9 DEF Timely
  <2>3. \A i, j \in 1..Len(k) : i <= j => k[i].at <= k[j].at
    BY <1>1, <1>9 DEF Timely
  <2>4. CASE First(r, k, m) /\ First(r, k, n)
    <3>1. f[m] <= f[n]
      BY SMTT(30), <1>2, <1>5, <1>9, <2>1, <2>4
    <3> QED
      BY <1>2, <2>2, <2>4, <3>1
  <2>5. CASE ~ First(r, k, m) /\ ~ First(r, k, n)
    <3>1. m - f[m] <= n - f[n]
      BY SMTT(30), <1>3, <1>5, <1>9, <2>1, <2>5
    <3>2. M[m] = k[m - f[m]] /\ M[n] = k[n - f[n]]
      BY <1>3, <2>5
    <3>3. m - f[m] \in 1..Len(k) /\ n - f[n] \in 1..Len(k)
      BY <1>3, <2>5
    <3> QED
      BY <2>3, <3>1, <3>2, <3>3
  <2>6. CASE First(r, k, m) /\ ~ First(r, k, n)
    <3>1. m - f[m] + 1 <= n - f[n] /\ n - f[n] \in 1..Len(k) /\ 0 <= m - f[m]
      <4>1. m \in 0..N
        BY <1>1
      <4>2. m - f[m] \in 0..Len(k)
        BY <4>1, TakenWithin DEF f
      <4>3. n - f[n] \in 1..Len(k) /\ f[n - 1] = f[n]
        BY <1>3, <2>6
      <4> QED
        BY SMTT(30), <1>1, <1>5, <1>9, <2>1, <4>2, <4>3
    <3>2. m - f[m] + 1 \in 1..Len(k) /\ m - f[m] < Len(k)
      BY SMTT(30), <1>1, <2>1, <3>1
    <3>3. r[f[m]].at <= k[m - f[m] + 1].at
      <4>1. FromFirst(r, k, f[m] - 1, m - f[m]) /\ f[m] \in 1..Len(r)
        BY <1>2, <2>6
      <4>2. (f[m] - 1) + 1 = f[m]
        BY <2>1
      <4> QED
        BY <3>2, <4>1, <4>2 DEF FromFirst
    <3>4. k[m - f[m] + 1].at <= k[n - f[n]].at
      BY <2>3, <3>1, <3>2
    <3>5. M[m] = r[f[m]] /\ M[n] = k[n - f[n]] /\ f[m] \in 1..Len(r)
      BY <1>2, <1>3, <2>6
    <3>6. r[f[m]].at \in Nat /\ k[m - f[m] + 1].at \in Nat /\ k[n - f[n]].at \in Nat
      BY <1>1, <3>1, <3>2, <3>5
    <3>7. r[f[m]].at <= k[n - f[n]].at
      BY <3>3, <3>4, <3>6
    <3> QED
      BY <3>5, <3>7
  <2>7. CASE ~ First(r, k, m) /\ First(r, k, n)
    <3>1. f[m] + 1 <= f[n] /\ f[n] \in 1..Len(r) /\ f[m] + 1 \in 1..Len(r) /\ f[m] < Len(r)
      <4>1. f[n] \in 1..Len(r) /\ f[n - 1] = f[n] - 1
        BY <1>2, <2>7
      <4>2. f[m] <= f[n] - 1
        BY <1>5, <1>9, <4>1
      <4> QED
        BY SMTT(30), <1>1, <2>1, <4>1, <4>2
    <3>2. M[m] = k[m - f[m]] /\ m - f[m] \in 1..Len(k) /\ M[n] = r[f[n]]
      BY <1>2, <1>3, <2>7
    <3>3. ~ (r[f[m] + 1].at <= k[m - f[m]].at)
      <4>1. ~ FromFirst(r, k, f[m], m - 1 - f[m]) /\ (m - 1 - f[m]) + 1 = m - f[m]
        BY <1>3, <2>1, <2>7
      <4>2. m - 1 - f[m] < Len(k)
        BY <1>1, <2>1, <3>2
      <4> QED
        BY <3>1, <4>1, <4>2 DEF FromFirst
    <3>4. r[f[m] + 1].at <= r[f[n]].at
      BY <2>2, <3>1
    <3>5. r[f[m] + 1].at \in Nat /\ k[m - f[m]].at \in Nat /\ r[f[n]].at \in Nat
      BY <1>1, <3>1, <3>2
    <3> QED
      BY <3>2, <3>3, <3>4, <3>5
  <2> QED
    BY <2>4, <2>5, <2>6, <2>7
<1>10. ASSUME InTurn(r), InTurn(k),
              \A i \in 1..Len(r), j \in 1..Len(k) : r[i].alias # k[j].alias,
              NEW m \in 1..N, NEW n \in 1..N, m < n, M[m].alias = M[n].alias
       PROVE  M[m].id < M[n].id
  <2>1. m \in Nat /\ n \in Nat /\ f[m] \in Nat /\ f[n] \in Nat
    BY <1>1, <1>4
  <2>2. CASE First(r, k, m) /\ First(r, k, n)
    <3>1. f[m] < f[n] /\ f[m] \in 1..Len(r) /\ f[n] \in 1..Len(r)
      BY SMTT(30), <1>2, <1>5, <1>10, <2>1, <2>2
    <3>2. M[m] = r[f[m]] /\ M[n] = r[f[n]]
      BY <1>2, <2>2
    <3> QED
      BY <1>10, <3>1, <3>2 DEF InTurn
  <2>3. CASE ~ First(r, k, m) /\ ~ First(r, k, n)
    <3>1. m - f[m] < n - f[n] /\ m - f[m] \in 1..Len(k) /\ n - f[n] \in 1..Len(k)
      BY SMTT(30), <1>3, <1>5, <1>10, <2>1, <2>3
    <3>2. M[m] = k[m - f[m]] /\ M[n] = k[n - f[n]]
      BY <1>3, <2>3
    <3> QED
      BY <1>10, <3>1, <3>2 DEF InTurn
  <2>4. CASE First(r, k, m) /\ ~ First(r, k, n)
    <3>1. f[m] \in 1..Len(r) /\ n - f[n] \in 1..Len(k) /\ M[m] = r[f[m]] /\ M[n] = k[n - f[n]]
      BY <1>2, <1>3, <2>4
    <3>2. r[f[m]].alias # k[n - f[n]].alias
      BY <1>10, <3>1
    <3> QED
      BY <1>10, <3>1, <3>2
  <2>5. CASE ~ First(r, k, m) /\ First(r, k, n)
    <3>1. f[n] \in 1..Len(r) /\ m - f[m] \in 1..Len(k) /\ M[n] = r[f[n]] /\ M[m] = k[m - f[m]]
      BY <1>2, <1>3, <2>5
    <3>2. r[f[n]].alias # k[m - f[m]].alias
      BY <1>10, <3>1
    <3> QED
      BY <1>10, <3>1, <3>2
  <2> QED
    BY <2>2, <2>3, <2>4, <2>5
<1>11. Timely(r) /\ Timely(k) => Timely(M)
  BY <1>7, <1>9 DEF Timely
<1>12. ASSUME InTurn(r), InTurn(k),
              \A i \in 1..Len(r), j \in 1..Len(k) : r[i].alias # k[j].alias
       PROVE  InTurn(M)
  BY <1>7, <1>10, <1>12 DEF InTurn
<1> QED
  BY <1>7, <1>8, <1>11, <1>12 DEF M

-----------------------------------------------------------------------------
(* What readers see of a list.                                             *)

\* What a reader sees of agent a in s at some time.
Seen(s, time, a) == {e \in ToSet(s) : e.alias = a /\ time <= e.at + TTL}

BoxOf(s, time, a) == Only(s, Seen(s, time, a))

\* A list as the inbox keeps it.
Sound(s) == s \in Entries /\ Timely(s) /\ InTurn(s)

\* The empty list.
LEMMA NoEntries == Sound(<<>>) /\ ToSet(<<>>) = {} /\ Len(<<>>) = 0 /\ \A a : OneAgent(<<>>, a)
<1> DEFINE none == <<>>
<1>1. none \in Seq(InboxEntry) /\ Len(none) = 0 /\ DOMAIN none = {} /\ 1..Len(none) = {}
  OBVIOUS
<1> HIDE DEF none
<1>2. Sound(none) /\ ToSet(none) = {} /\ \A a : OneAgent(none, a)
  BY <1>1 DEF Sound, Entries, Timely, InTurn, OneAgent, ToSet
<1> QED
  BY <1>1, <1>2 DEF none

\* A box has what a reader sees of its agent, in both orders.
LEMMA BoxHas ==
  ASSUME NEW s \in Entries, Sound(s), NEW time, NEW a
  PROVE  /\ Sound(BoxOf(s, time, a)) /\ OneAgent(BoxOf(s, time, a), a)
         /\ ToSet(BoxOf(s, time, a)) = Seen(s, time, a)
<1> DEFINE b == BoxOf(s, time, a)
<1>1. Sound(b) /\ ToSet(b) = Seen(s, time, a)
  BY OnlyKeeps DEF BoxOf, Sound, Seen
<1> HIDE DEF b
<1>2. \A i \in 1..Len(b) : b[i] \in Seen(s, time, a)
  BY <1>1, EntryAt DEF Sound
<1>3. OneAgent(b, a)
  BY <1>2 DEF OneAgent, Seen
<1> QED
  BY <1>1, <1>3 DEF b

\* Nothing else has: a box is the list of what a reader sees.
LEMMA BoxIs ==
  ASSUME NEW s \in Entries, Sound(s), NEW time, NEW a,
         NEW t \in Entries, InTurn(t), OneAgent(t, a), ToSet(t) = Seen(s, time, a)
  PROVE  BoxOf(s, time, a) = t
<1> DEFINE b == BoxOf(s, time, a)
<1>1. b \in Entries /\ InTurn(b) /\ OneAgent(b, a) /\ ToSet(b) = ToSet(t)
  BY BoxHas DEF Sound
<1> HIDE DEF b
<1>2. b = t
  BY <1>1, SameList
<1> QED
  BY <1>2 DEF b

\* The entries of an agent in an answer.
LEMMA OfIs ==
  ASSUME NEW s \in Entries, InTurn(s), NEW a,
         NEW t \in Entries, InTurn(t), OneAgent(t, a), ToSet(t) = {e \in ToSet(s) : e.alias = a}
  PROVE  Of(s, a) = t
<1> DEFINE b == Of(s, a)
<1>1. b \in Entries /\ InTurn(b) /\ ToSet(b) = ToSet(t)
  BY OnlyKeeps DEF Of
<1> HIDE DEF b
<1>2. \A i \in 1..Len(b) : b[i] \in ToSet(s) /\ b[i].alias = a
  BY <1>1, EntryAt
<1>3. OneAgent(b, a)
  BY <1>2 DEF OneAgent
<1>4. b = t
  BY <1>1, <1>3, SameList
<1> QED
  BY <1>4 DEF b

\* A list of one agent, seen agent by agent.
LEMMA OfOne ==
  ASSUME NEW t \in Entries, InTurn(t), NEW a, OneAgent(t, a)
  PROVE  Of(t, a) = t /\ \A b : b # a => Of(t, b) = <<>>
<1>1. \A e \in ToSet(t) : e.alias = a
  BY EntryAt DEF OneAgent
<1>2. Of(t, a) = t
  BY <1>1, OfIs
<1>3. ASSUME NEW b, b # a
      PROVE  Of(t, b) = <<>>
  <2>1. ToSet(<<>>) = {e \in ToSet(t) : e.alias = b}
    BY <1>1, <1>3, NoEntries
  <2> QED
    BY <2>1, OfIs, NoEntries DEF Sound
<1> QED
  BY <1>2, <1>3

\* After a read that leaves rest of the box of a, and nothing that expired, the
\* box of a is rest, and the other boxes are as before.
LEMMA BoxesAfter ==
  ASSUME NEW s \in Entries, Sound(s), NEW t \in Entries, Sound(t), NEW time, NEW a,
         NEW rest \in Entries, OneAgent(rest, a), InTurn(rest),
         ToSet(rest) \subseteq Seen(s, time, a),
         ToSet(t) = {e \in ToSet(s) : e.alias # a /\ time <= e.at + TTL} \cup ToSet(rest)
  PROVE  /\ BoxOf(t, time, a) = rest
         /\ \A b : b # a => BoxOf(t, time, b) = BoxOf(s, time, b)
<1>1. ToSet(rest) = Seen(t, time, a)
  BY DEF Seen
<1>2. BoxOf(t, time, a) = rest
  BY <1>1, BoxIs
<1>3. ASSUME NEW b, b # a
      PROVE  BoxOf(t, time, b) = BoxOf(s, time, b)
  <2> DEFINE box == BoxOf(s, time, b)
  <2>1. box \in Entries /\ InTurn(box) /\ OneAgent(box, b) /\ ToSet(box) = Seen(s, time, b)
    BY BoxHas DEF Sound
  <2>2. Seen(s, time, b) = Seen(t, time, b)
    BY <1>3 DEF Seen
  <2> HIDE DEF box
  <2>3. BoxOf(t, time, b) = box
    BY <2>1, <2>2, BoxIs
  <2> QED
    BY <2>3 DEF box
<1> QED
  BY <1>2, <1>3

-----------------------------------------------------------------------------
(* The invariant.                                                          *)

InboxInv ==
  /\ now \in 1..MaxTime /\ sent \in 0..MaxDeposits
  /\ Sound(entries)
  /\ \A e \in ToSet(entries) : e.at <= now /\ e.id <= sent
  /\ answer \in Entries /\ Timely(answer)

\* What the readers make of the list before they take from it.
LEMMA ReadParts ==
  ASSUME InboxInv, NEW a
  PROVE  /\ Sound(Pruned(entries))
         /\ ToSet(Pruned(entries)) = {e \in ToSet(entries) : now <= e.at + TTL}
         /\ Of(Pruned(entries), a) = BoxOf(entries, now, a)
         /\ Sound(BoxOf(entries, now, a)) /\ OneAgent(BoxOf(entries, now, a), a)
         /\ ToSet(BoxOf(entries, now, a)) = Seen(entries, now, a)
         /\ Sound(NotOf(Pruned(entries), a))
         /\ ToSet(NotOf(Pruned(entries), a)) =
              {e \in ToSet(entries) : e.alias # a /\ now <= e.at + TTL}
<1> DEFINE p == Pruned(entries)
           o == NotOf(p, a)
           b == BoxOf(entries, now, a)
<1>1. entries \in Entries /\ Sound(entries)
  BY DEF InboxInv, Sound
<1>2. Sound(p) /\ ToSet(p) = {e \in ToSet(entries) : now <= e.at + TTL}
  BY <1>1, OnlyKeeps DEF Pruned, Sound
<1>3. Sound(b) /\ OneAgent(b, a) /\ ToSet(b) = Seen(entries, now, a)
  BY <1>1, BoxHas
<1> HIDE DEF p
<1>4. Sound(o) /\ ToSet(o) = {e \in ToSet(p) : e.alias # a}
  BY <1>2, OnlyKeeps DEF NotOf, Sound
<1> HIDE DEF b, o
<1>5. ToSet(b) = {e \in ToSet(p) : e.alias = a}
  BY <1>2, <1>3 DEF Seen
<1>6. Of(p, a) = b
  BY <1>2, <1>3, <1>5, OfIs DEF Sound
<1>7. ToSet(o) = {e \in ToSet(entries) : e.alias # a /\ now <= e.at + TTL}
  BY <1>2, <1>4
<1> QED
  BY <1>2, <1>3, <1>4, <1>6, <1>7 DEF p, o, b

\* The merge of a limited read.
LEMMA MergeParts ==
  ASSUME InboxInv, NEW a, NEW rest \in Entries, Sound(rest), OneAgent(rest, a)
  PROVE  /\ Sound(Merged(NotOf(Pruned(entries), a), rest))
         /\ ToSet(Merged(NotOf(Pruned(entries), a), rest)) =
              {e \in ToSet(entries) : e.alias # a /\ now <= e.at + TTL} \cup ToSet(rest)
<1> DEFINE o == NotOf(Pruned(entries), a)
<1>1. Sound(o) /\ ToSet(o) = {e \in ToSet(entries) : e.alias # a /\ now <= e.at + TTL}
  BY ReadParts
<1> HIDE DEF o
<1>2. \A i \in 1..Len(o) : o[i].alias # a
  BY <1>1, EntryAt DEF Sound
<1>3. \A i \in 1..Len(o), j \in 1..Len(rest) : o[i].alias # rest[j].alias
  BY <1>2 DEF OneAgent
<1>4. o \in Entries /\ Timely(o) /\ InTurn(o) /\ Timely(rest) /\ InTurn(rest)
  BY <1>1 DEF Sound
<1>5. Sound(Merged(o, rest)) /\ ToSet(Merged(o, rest)) = ToSet(o) \cup ToSet(rest)
  BY <1>3, <1>4, MergedKeeps DEF Sound
<1> QED
  BY <1>1, <1>5 DEF o

\* A read: what it leaves was there before.
LEMMA ReadKeeps ==
  ASSUME InboxInv, Sound(entries'), ToSet(entries') \subseteq ToSet(entries),
         answer' \in Entries, Timely(answer'), UNCHANGED <<now, sent>>
  PROVE  InboxInv'
BY DEF InboxInv

-----------------------------------------------------------------------------
(* The steps, each with the step of the mailboxes that readers see.        *)

\* What the refinement substitutes for the variables of Mailboxes.
Mail == [a \in Aliases |-> Box(a)]
Answers == [a \in Aliases |-> Of(answer, a)]

\* A box is what a reader sees of the slice.
LEMMA MailIs ==
  /\ Mail = [a \in Aliases |-> BoxOf(entries, now, a)]
  /\ Mail' = [a \in Aliases |-> BoxOf(entries', now', a)]
  /\ Answers' = [a \in Aliases |-> Of(answer', a)]
BY DEF Mail, Box, BoxOf, Seen, Answers, Of

\* A Pop of agent a that leaves rest of its box.
LEMMA PopKeeps ==
  ASSUME InboxInv, NEW a \in Aliases,
         NEW rest \in Entries, Sound(rest), OneAgent(rest, a),
         ToSet(rest) \subseteq Seen(entries, now, a),
         Sound(entries'),
         ToSet(entries') = {e \in ToSet(entries) : e.alias # a /\ now <= e.at + TTL} \cup ToSet(rest),
         Sound(answer'), OneAgent(answer', a), UNCHANGED <<now, sent>>
  PROVE  /\ InboxInv'
         /\ Mail' = [Mail EXCEPT ![a] = rest]
         /\ Answers' = [Boxes!Nothing EXCEPT ![a] = answer']
<1>1. Seen(entries, now, a) \subseteq ToSet(entries)
  BY DEF Seen
<1>2. InboxInv'
  BY <1>1, ReadKeeps DEF Sound
<1>3. Mail' = [Mail EXCEPT ![a] = rest]
  <2>1. entries \in Entries /\ entries' \in Entries /\ Sound(entries) /\ InTurn(rest)
    BY DEF InboxInv, Sound
  <2>2. /\ BoxOf(entries', now, a) = rest
        /\ \A b : b # a => BoxOf(entries', now, b) = BoxOf(entries, now, b)
    BY <2>1, BoxesAfter
  <2>3. Mail' = [b \in Aliases |-> BoxOf(entries', now, b)]
    BY MailIs
  <2> QED
    BY <2>2, <2>3, MailIs
<1>4. Answers' = [Boxes!Nothing EXCEPT ![a] = answer']
  <2>1. Of(answer', a) = answer' /\ \A b : b # a => Of(answer', b) = <<>>
    BY OfOne DEF Sound
  <2> QED
    BY <2>1, MailIs DEF Boxes!Nothing
<1> QED
  BY <1>2, <1>3, <1>4

\* The clock.
LEMMA TickKeeps ==
  ASSUME InboxInv, Tick
  PROVE  InboxInv' /\ Boxes!Tick
<1> USE DEF Tick
<1>1. MaxTime \in Nat /\ now \in Nat /\ now' = now + 1
  BY InboxAssumption DEF InboxInv
<1>2. InboxInv'
  <2>1. \A e \in ToSet(entries) : e.at <= now'
    <3>1. \A e \in ToSet(entries) : e.at \in Nat /\ e.at <= now
      BY EntryAt DEF InboxInv, Sound
    <3> QED
      BY <1>1, <3>1
  <2> QED
    BY <1>1, <2>1 DEF InboxInv
<1>3. \A a \in Aliases : BoxOf(entries, now', a) = Boxes!Fresh(BoxOf(entries, now, a), now')
  <2>1. TAKE a \in Aliases
  <2> DEFINE b == BoxOf(entries, now, a)
             t == Only(b, {e \in ToSet(b) : now' <= e.at + TTL})
  <2>2. entries \in Entries /\ Sound(entries)
    BY DEF InboxInv, Sound
  <2>3. Sound(b) /\ OneAgent(b, a) /\ ToSet(b) = Seen(entries, now, a)
    BY <2>2, BoxHas
  <2>4. Boxes!Fresh(b, now') = t
    BY DEF Boxes!Fresh, Boxes!Only, Boxes!ToSet, Only, ToSet
  <2> HIDE DEF b
  <2>5. t \in Entries /\ InTurn(t) /\ ToSet(t) = {e \in ToSet(b) : now' <= e.at + TTL}
    BY <2>3, OnlyKeeps DEF Sound
  <2> HIDE DEF t
  <2>6. \A i \in 1..Len(t) : t[i] \in Seen(entries, now, a)
    BY <2>3, <2>5, EntryAt
  <2>7. OneAgent(t, a)
    BY <2>6 DEF OneAgent, Seen
  <2>8. ToSet(t) = Seen(entries, now', a)
    <3>1. \A e \in ToSet(entries) : e.at \in Nat
      BY <2>2, EntryAt
    <3>2. TTL \in Nat
      BY InboxAssumption
    <3> QED
      BY <1>1, <2>3, <2>5, <3>1, <3>2 DEF Seen
  <2>9. BoxOf(entries, now', a) = t
    BY <2>2, <2>5, <2>7, <2>8, BoxIs
  <2> QED
    BY <2>4, <2>9 DEF b
<1>4. Mail' = [a \in Aliases |-> Boxes!Fresh(Mail[a], now')]
  BY <1>3, MailIs
<1>5. Answers' = Answers
  BY DEF Answers, Of
<1>6. Boxes!Tick
  BY <1>4, <1>5 DEF Boxes!Tick, Mail, Answers
<1> QED
  BY <1>2, <1>6

\* A list and one more entry.
LEMMA AppendKeeps ==
  ASSUME NEW s \in Entries, Sound(s), NEW e \in InboxEntry,
         \A x \in ToSet(s) : x.at <= e.at /\ x.id < e.id
  PROVE  /\ Sound(Append(s, e)) /\ ToSet(Append(s, e)) = ToSet(s) \cup {e}
         /\ \A a : OneAgent(s, a) /\ e.alias = a => OneAgent(Append(s, e), a)
<1> DEFINE t == Append(s, e)
<1>1. Len(s) \in Nat /\ s \in Seq(InboxEntry)
  BY DEF Entries
<1>2. /\ t \in Seq(InboxEntry) /\ Len(t) = Len(s) + 1
      /\ \A i \in 1..Len(s) : t[i] = s[i]
      /\ t[Len(s) + 1] = e
  BY <1>1
<1> HIDE DEF t
<1>3. t \in Entries
  BY <1>2 DEF Entries
<1>4. ToSet(s) = {s[i] : i \in 1..Len(s)} /\ ToSet(t) = {t[i] : i \in 1..Len(t)}
  BY <1>3, EntryAt
<1>5. \A i \in 1..Len(t) : i \in 1..Len(s) \/ i = Len(s) + 1
  BY <1>1, <1>2
<1>6. ToSet(t) = ToSet(s) \cup {e}
  <2>1. \A x \in ToSet(t) : x \in ToSet(s) \cup {e}
    BY <1>2, <1>4, <1>5
  <2>2. e \in ToSet(t)
    BY <1>1, <1>2, <1>4
  <2>3. \A x \in ToSet(s) : x \in ToSet(t)
    BY <1>1, <1>2, <1>4
  <2> QED
    BY <2>1, <2>2, <2>3
<1>7. \A i \in 1..Len(s) : s[i].at <= e.at /\ s[i].id < e.id
  BY <1>4
<1>8. ASSUME NEW i \in 1..Len(t), NEW j \in 1..Len(t), i < j
      PROVE  /\ t[i].at <= t[j].at
             /\ t[i].alias = t[j].alias => t[i].id < t[j].id
  <2>1. i \in 1..Len(s)
    BY <1>1, <1>2, <1>8
  <2>2. CASE j \in 1..Len(s)
    BY <1>2, <1>8, <2>1, <2>2 DEF Sound, Timely, InTurn
  <2>3. CASE j = Len(s) + 1
    BY <1>2, <1>7, <2>1, <2>3
  <2> QED
    BY <1>5, <2>2, <2>3
<1>9. Timely(t) /\ InTurn(t)
  BY <1>8 DEF Timely, InTurn
<1>10. \A a : OneAgent(s, a) /\ e.alias = a => OneAgent(t, a)
  BY <1>2, <1>5 DEF OneAgent
<1> QED
  BY <1>3, <1>6, <1>9, <1>10 DEF Sound, t

\* A deposit.
LEMMA DepositKeeps ==
  ASSUME InboxInv, NEW a \in Aliases, Deposit(a)
  PROVE  InboxInv' /\ Boxes!Deposit(a)
<1> DEFINE e == [alias |-> a, at |-> now, id |-> sent']
<1> USE DEF Deposit
<1>1. /\ now \in Nat /\ sent \in Nat /\ sent' = sent + 1 /\ sent' \in 1..MaxDeposits /\ TTL \in Nat
      /\ entries \in Entries /\ Sound(entries)
  BY InboxAssumption DEF InboxInv, Sound
<1>2. e \in InboxEntry /\ e.alias = a /\ e.at = now /\ e.id = sent'
  BY <1>1 DEF InboxInv, InboxEntry
<1>3. \A x \in ToSet(entries) : x.at <= now /\ x.id < sent' /\ x.at \in Nat /\ x.id \in Nat
  <2>1. \A x \in ToSet(entries) : x.id \in Nat /\ x.at \in Nat
    BY <1>1, EntryAt
  <2> QED
    BY <1>1, <2>1 DEF InboxInv
<1>4. entries' = Append(entries, e)
  OBVIOUS
<1> HIDE DEF e
<1>5. Sound(entries') /\ ToSet(entries') = ToSet(entries) \cup {e} /\ entries' \in Entries
  BY <1>1, <1>2, <1>3, <1>4, AppendKeeps DEF Sound
<1>6. InboxInv'
  <2>1. \A x \in ToSet(entries') : x.at <= now /\ x.id <= sent'
    BY <1>1, <1>2, <1>3, <1>5
  <2> QED
    BY <1>1, <1>5, <2>1 DEF InboxInv
<1>7. BoxOf(entries', now, a) = Append(BoxOf(entries, now, a), e)
  <2> DEFINE b == BoxOf(entries, now, a)
             t == Append(b, e)
  <2>1. Sound(b) /\ b \in Entries /\ OneAgent(b, a) /\ ToSet(b) = Seen(entries, now, a)
    BY <1>1, BoxHas DEF Sound
  <2> HIDE DEF b
  <2>2. Sound(t) /\ ToSet(t) = ToSet(b) \cup {e} /\ OneAgent(t, a)
    <3>1. \A x \in ToSet(b) : x.at <= e.at /\ x.id < e.id
      BY <1>2, <1>3, <2>1 DEF Seen
    <3> QED
      BY <1>2, <2>1, <3>1, AppendKeeps
  <2> HIDE DEF t
  <2>3. ToSet(t) = Seen(entries', now, a)
    BY <1>1, <1>2, <1>5, <2>1, <2>2 DEF Seen
  <2>4. BoxOf(entries', now, a) = t
    BY <1>5, <2>2, <2>3, BoxIs DEF Sound
  <2> QED
    BY <2>4 DEF t, b
<1>8. ASSUME NEW c, c # a
      PROVE  BoxOf(entries', now, c) = BoxOf(entries, now, c)
  <2> DEFINE b == BoxOf(entries, now, c)
  <2>1. b \in Entries /\ InTurn(b) /\ OneAgent(b, c) /\ ToSet(b) = Seen(entries, now, c)
    BY <1>1, BoxHas DEF Sound
  <2> HIDE DEF b
  <2>2. Seen(entries, now, c) = Seen(entries', now, c)
    BY <1>2, <1>5, <1>8 DEF Seen
  <2>3. BoxOf(entries', now, c) = b
    BY <1>5, <2>1, <2>2, BoxIs
  <2> QED
    BY <2>3 DEF b
<1>9. Mail' = [Mail EXCEPT ![a] = Append(@, e)]
  <2>1. Mail' = [c \in Aliases |-> BoxOf(entries', now, c)]
    BY MailIs
  <2> QED
    BY <1>7, <1>8, <2>1, MailIs
<1>10. Answers' = Answers
  BY DEF Answers, Of
<1>11. Boxes!Deposit(a)
  BY <1>1, <1>9, <1>10 DEF Boxes!Deposit, Mail, Answers, e
<1> QED
  BY <1>6, <1>11

\* A listing, of one agent or of all.
LEMMA PeekKeeps ==
  ASSUME InboxInv, NEW filter \in Aliases \cup {None}, Peek(filter)
  PROVE  InboxInv' /\ Boxes!List(IF filter = None THEN Aliases ELSE {filter})
<1> DEFINE agents == IF filter = None THEN Aliases ELSE {filter}
           p == Pruned(entries)
<1>1. entries' = p /\ (answer' = IF filter = None THEN p ELSE Of(p, filter)) /\ UNCHANGED <<now, sent>>
  BY DEF Peek
<1>2. /\ Sound(p) /\ p \in Entries
      /\ ToSet(p) = {e \in ToSet(entries) : now <= e.at + TTL}
      /\ Sound(entries) /\ entries \in Entries
  BY ReadParts DEF InboxInv, Sound
<1>3. \A a : /\ Of(p, a) = BoxOf(entries, now, a)
             /\ Sound(BoxOf(entries, now, a)) /\ OneAgent(BoxOf(entries, now, a), a)
             /\ ToSet(BoxOf(entries, now, a)) = Seen(entries, now, a)
  BY ReadParts
<1> HIDE DEF p
<1>4. Sound(answer') /\ answer' \in Entries
  BY <1>1, <1>2, <1>3 DEF Sound
<1>5. InboxInv'
  BY <1>1, <1>2, <1>4, ReadKeeps DEF Sound
<1>6. ASSUME NEW a
      PROVE  BoxOf(entries', now, a) = BoxOf(entries, now, a)
  <2> DEFINE b == BoxOf(entries, now, a)
  <2>1. b \in Entries /\ InTurn(b) /\ OneAgent(b, a) /\ ToSet(b) = Seen(entries, now, a)
    BY <1>3 DEF Sound
  <2> HIDE DEF b
  <2>2. Seen(entries, now, a) = Seen(p, now, a)
    BY <1>2 DEF Seen
  <2>3. BoxOf(p, now, a) = b
    BY <1>2, <2>1, <2>2, BoxIs
  <2> QED
    BY <1>1, <2>3 DEF b
<1>7. Mail' = Mail
  <2>1. Mail' = [c \in Aliases |-> BoxOf(entries', now, c)]
    BY <1>1, MailIs
  <2> QED
    BY <1>6, <2>1, MailIs
<1>8. Answers' = [a \in Aliases |-> IF a \in agents THEN Mail[a] ELSE <<>>]
  <2>1. \A a \in Aliases : Mail[a] = BoxOf(entries, now, a)
    BY MailIs
  <2>2. CASE filter = None
    <3>1. \A a : Of(answer', a) = BoxOf(entries, now, a)
      BY <1>1, <1>3, <2>2
    <3> QED
      BY <2>1, <2>2, <3>1, MailIs
  <2>3. CASE filter # None
    <3>1. answer' = BoxOf(entries, now, filter)
      BY <1>1, <1>3, <2>3
    <3>2. Of(answer', filter) = answer' /\ \A b : b # filter => Of(answer', b) = <<>>
      BY <1>3, <3>1, OfOne DEF Sound
    <3>3. \A a \in Aliases : Of(answer', a) = IF a \in agents THEN Mail[a] ELSE <<>>
      BY <2>1, <2>3, <3>1, <3>2
    <3> QED
      BY <3>3, MailIs
  <2> QED
    BY <2>2, <2>3
<1>9. Boxes!List(agents)
  BY <1>1, <1>7, <1>8 DEF Boxes!List, Mail, Answers
<1> QED
  BY <1>5, <1>9

\* A Pop that finds nothing.
LEMMA PopNothingKeeps ==
  ASSUME InboxInv, NEW a \in Aliases, PopNothing(a)
  PROVE  InboxInv' /\ Boxes!List({})
<1> DEFINE none == <<>>
<1>1. /\ entries' = Pruned(entries) /\ answer' = none /\ UNCHANGED <<now, sent>>
      /\ Of(Pruned(entries), a) = none
  BY DEF PopNothing
<1>2. /\ Sound(Pruned(entries))
      /\ ToSet(Pruned(entries)) = {e \in ToSet(entries) : now <= e.at + TTL}
      /\ Of(Pruned(entries), a) = BoxOf(entries, now, a)
      /\ ToSet(BoxOf(entries, now, a)) = Seen(entries, now, a)
  BY ReadParts
<1>3. Sound(none) /\ none \in Entries /\ ToSet(none) = {} /\ OneAgent(none, a)
  BY NoEntries DEF Sound
<1> HIDE DEF none
<1>4. Seen(entries, now, a) = {}
  BY <1>1, <1>2, <1>3
<1>5. ToSet(entries') = {e \in ToSet(entries) : e.alias # a /\ now <= e.at + TTL} \cup ToSet(none)
  BY <1>1, <1>2, <1>3, <1>4 DEF Seen
<1>6. /\ InboxInv'
      /\ Mail' = [Mail EXCEPT ![a] = none]
      /\ Answers' = [Boxes!Nothing EXCEPT ![a] = none]
  BY <1>1, <1>2, <1>3, <1>5, PopKeeps
<1>7. Mail[a] = none
  BY <1>1, <1>2, MailIs
<1>8. Mail' = Mail
  BY <1>6, <1>7 DEF Mail
<1>9. Answers' = [b \in Aliases |-> IF b \in {} THEN Mail[b] ELSE <<>>]
  BY <1>6 DEF Boxes!Nothing, none
<1>10. Boxes!List({})
  BY <1>1, <1>8, <1>9 DEF Boxes!List, Mail, Answers
<1> QED
  BY <1>6, <1>10

\* A Pop of the latest entry.
LEMMA PopLatestKeeps ==
  ASSUME InboxInv, NEW a \in Aliases, PopLatest(a)
  PROVE  InboxInv' /\ Boxes!TakeLatest(a)
<1> DEFINE none == <<>>
           b == BoxOf(entries, now, a)
           one == <<b[Len(b)]>>
<1>1. /\ Of(Pruned(entries), a) = b
      /\ Sound(b) /\ OneAgent(b, a) /\ b \in Entries
      /\ Sound(NotOf(Pruned(entries), a))
      /\ ToSet(NotOf(Pruned(entries), a)) = {e \in ToSet(entries) : e.alias # a /\ now <= e.at + TTL}
  BY ReadParts DEF Sound
<1>2. /\ b # <<>> /\ answer' = one /\ entries' = NotOf(Pruned(entries), a)
      /\ UNCHANGED <<now, sent>>
  BY <1>1 DEF PopLatest, Last
<1>3. Sound(none) /\ none \in Entries /\ ToSet(none) = {} /\ OneAgent(none, a)
  BY NoEntries DEF Sound
<1>4. Mail[a] = b
  BY MailIs
<1> HIDE DEF none, b
<1>5. Len(b) \in 1..Len(b) /\ b[Len(b)] \in InboxEntry /\ b[Len(b)].alias = a
  BY <1>1, <1>2 DEF Entries, OneAgent
<1>6. one \in Seq(InboxEntry) /\ Len(one) = 1 /\ one[1] = b[Len(b)]
  BY <1>5
<1> HIDE DEF one
<1>7. Sound(one) /\ OneAgent(one, a)
  BY <1>5, <1>6 DEF Sound, Timely, InTurn, OneAgent, Entries
<1>8. /\ InboxInv'
      /\ Mail' = [Mail EXCEPT ![a] = none]
      /\ Answers' = [Boxes!Nothing EXCEPT ![a] = one]
  BY <1>1, <1>2, <1>3, <1>7, PopKeeps
<1>9. Boxes!TakeLatest(a)
  BY <1>2, <1>4, <1>8 DEF Boxes!TakeLatest, Mail, Answers, one, none
<1> QED
  BY <1>8, <1>9

\* A Pop of the n oldest entries.
LEMMA TakeKeeps ==
  ASSUME InboxInv, NEW a \in Aliases,
         NEW b, b = BoxOf(entries, now, a), NEW n \in 0..Len(b), n <= MaxDeposits,
         answer' = SubSeq(b, 1, n),
         NEW rest, rest = SubSeq(b, n + 1, Len(b)),
         Sound(entries'),
         ToSet(entries') = {e \in ToSet(entries) : e.alias # a /\ now <= e.at + TTL} \cup ToSet(rest),
         UNCHANGED <<now, sent>>
  PROVE  InboxInv' /\ Boxes!Take(a, n)
<1>1. Sound(b) /\ b \in Entries /\ OneAgent(b, a) /\ ToSet(b) = Seen(entries, now, a)
  BY ReadParts DEF Sound
<1>2. Len(b) \in Nat /\ 1 \in 1..Len(b) + 1 /\ n + 1 \in 1..Len(b) + 1 /\ Len(b) \in 0..Len(b)
  BY <1>1, EntryAt
<1>3. Sound(answer') /\ OneAgent(answer', a)
  BY <1>1, <1>2, PartKeeps DEF Sound
<1>4. Sound(rest) /\ rest \in Entries /\ OneAgent(rest, a) /\ ToSet(rest) \subseteq Seen(entries, now, a)
  <2>1. /\ rest \in Entries /\ OneAgent(rest, a) /\ ToSet(rest) \subseteq ToSet(b)
        /\ Timely(b) => Timely(rest)
        /\ InTurn(b) => InTurn(rest)
    BY <1>1, <1>2, PartKeeps
  <2> QED
    BY <1>1, <2>1 DEF Sound
<1>5. /\ InboxInv'
      /\ Mail' = [Mail EXCEPT ![a] = rest]
      /\ Answers' = [Boxes!Nothing EXCEPT ![a] = answer']
  BY <1>3, <1>4, PopKeeps
<1>6. Mail[a] = b
  BY MailIs
<1>7. n \in 0..MaxDeposits
  BY InboxAssumption, <1>2
<1>8. Boxes!Take(a, n)
  BY <1>2, <1>5, <1>6 DEF Boxes!Take, Mail, Answers
<1> QED
  BY <1>5, <1>8

\* A Pop with a length.
LEMMA PopLengthKeeps ==
  ASSUME InboxInv, NEW a \in Aliases, NEW length \in Lengths, PopLength(a, length)
  PROVE  InboxInv' /\ \E n \in 0..MaxDeposits : Boxes!Take(a, n)
<1> DEFINE b == BoxOf(entries, now, a)
           n == IF length > Len(b) THEN Len(b) ELSE length
           rest == SubSeq(b, n + 1, Len(b))
<1>1. Of(Pruned(entries), a) = b /\ Sound(b) /\ b \in Entries /\ OneAgent(b, a)
  BY ReadParts DEF Sound
<1>2. /\ answer' = SubSeq(b, 1, n)
      /\ entries' = Merged(NotOf(Pruned(entries), a), rest)
      /\ UNCHANGED <<now, sent>>
  BY <1>1 DEF PopLength
<1> HIDE DEF b
<1>3. Len(b) \in Nat /\ n \in 0..Len(b) /\ n \in 0..MaxDeposits /\ n <= MaxDeposits
  BY <1>1, EntryAt, InboxAssumption DEF Lengths
<1> HIDE DEF n
<1>4. n + 1 \in 1..Len(b) + 1 /\ Len(b) \in 0..Len(b)
  BY <1>3
<1>5. Sound(rest) /\ rest \in Entries /\ OneAgent(rest, a)
  BY <1>1, <1>4, PartKeeps DEF Sound
<1> HIDE DEF rest
<1>6. /\ Sound(entries')
      /\ ToSet(entries') = {e \in ToSet(entries) : e.alias # a /\ now <= e.at + TTL} \cup ToSet(rest)
  BY <1>2, <1>5, MergeParts
<1>7. b = BoxOf(entries, now, a) /\ rest = SubSeq(b, n + 1, Len(b))
  BY DEF b, rest
<1>8. InboxInv' /\ Boxes!Take(a, n)
  BY <1>2, <1>3, <1>6, <1>7, TakeKeeps
<1> QED
  BY <1>3, <1>8

\* A box has no more entries than were deposited.
LEMMA BoxBounded ==
  ASSUME NEW b \in Entries, NEW a, OneAgent(b, a), InTurn(b)
  PROVE  Len(b) <= MaxDeposits
<1> DEFINE T == {i \in Nat : i \in 1..Len(b) => i <= b[i].id}
<1>1. /\ Len(b) \in Nat /\ MaxDeposits \in Nat
      /\ \A i \in 1..Len(b) : b[i].id \in 1..MaxDeposits /\ b[i].id \in Nat
  BY EntryAt, InboxAssumption
<1>2. 0 \in T
  OBVIOUS
<1>3. ASSUME NEW i \in Nat, i \in T
      PROVE  i + 1 \in T
  <2>1. SUFFICES ASSUME i + 1 \in 1..Len(b)
                 PROVE  i + 1 <= b[i + 1].id
    OBVIOUS
  <2>2. CASE i = 0
    BY <1>1, <2>1, <2>2
  <2>3. CASE i # 0
    <3>1. i \in 1..Len(b) /\ i < i + 1 /\ i <= b[i].id
      BY <1>1, <1>3, <2>1, <2>3
    <3>2. b[i].id < b[i + 1].id
      BY <2>1, <3>1 DEF OneAgent, InTurn
    <3> QED
      BY <1>1, <2>1, <3>1, <3>2
  <2> QED
    BY <2>2, <2>3
<1> HIDE DEF T
<1>4. \A i \in Nat : i \in T
  BY <1>2, <1>3, Induction
<1>5. CASE Len(b) = 0
  BY <1>1, <1>5
<1>6. CASE Len(b) # 0
  <2>1. Len(b) \in 1..Len(b)
    BY <1>1, <1>6
  <2>2. Len(b) <= b[Len(b)].id
    BY <1>1, <1>4, <2>1 DEF T
  <2>3. b[Len(b)].id \in 1..MaxDeposits
    BY <1>1, <2>1
  <2> QED
    BY <1>1, <2>2, <2>3
<1> QED
  BY <1>5, <1>6

\* A Pop of everything.
LEMMA PopAllKeeps ==
  ASSUME InboxInv, NEW a \in Aliases, PopAll(a)
  PROVE  InboxInv' /\ \E n \in 0..MaxDeposits : Boxes!Take(a, n)
<1> DEFINE b == BoxOf(entries, now, a)
           none == <<>>
<1>1. /\ Of(Pruned(entries), a) = b
      /\ Sound(b) /\ b \in Entries /\ OneAgent(b, a) /\ InTurn(b)
      /\ Sound(NotOf(Pruned(entries), a))
      /\ ToSet(NotOf(Pruned(entries), a)) = {e \in ToSet(entries) : e.alias # a /\ now <= e.at + TTL}
  BY ReadParts DEF Sound
<1>2. answer' = b /\ entries' = NotOf(Pruned(entries), a) /\ UNCHANGED <<now, sent>>
  BY <1>1 DEF PopAll
<1>3. ToSet(none) = {}
  BY NoEntries
<1>4. b = BoxOf(entries, now, a)
  OBVIOUS
<1> HIDE DEF b
<1>5. Len(b) \in Nat /\ Len(b) \in 0..Len(b) /\ Len(b) <= MaxDeposits /\ Len(b) \in 0..MaxDeposits
  BY <1>1, BoxBounded, EntryAt, InboxAssumption
<1>6. SubSeq(b, 1, Len(b)) = b /\ SubSeq(b, Len(b) + 1, Len(b)) = none
  BY <1>1, <1>5 DEF Entries
<1> HIDE DEF none
<1>7. InboxInv' /\ Boxes!Take(a, Len(b))
  BY <1>1, <1>2, <1>3, <1>4, <1>5, <1>6, TakeKeeps
<1> QED
  BY <1>5, <1>7

-----------------------------------------------------------------------------
(* The results.                                                            *)

\* Nothing was deposited yet.
LEMMA InboxInit == Init => InboxInv /\ Boxes!Init
<1> SUFFICES ASSUME Init
             PROVE  InboxInv /\ Boxes!Init
  OBVIOUS
<1>1. entries = <<>> /\ answer = <<>> /\ now = 1 /\ sent = 0
  BY DEF Init
<1>2. Sound(<<>>) /\ ToSet(<<>>) = {} /\ \A a : OneAgent(<<>>, a)
  BY NoEntries
<1> DEFINE none == <<>>
<1>3. /\ Sound(none) /\ none \in Entries /\ ToSet(none) = {} /\ (\A a : OneAgent(none, a))
      /\ entries = none /\ answer = none
  BY <1>1, <1>2 DEF Sound
<1> HIDE DEF none
<1>4. InboxInv
  BY <1>1, <1>3, InboxAssumption DEF InboxInv, Sound
<1>5. \A a : BoxOf(none, now, a) = none /\ Of(none, a) = none
  <2>1. \A a : ToSet(none) = Seen(none, now, a) /\ ToSet(none) = {e \in ToSet(none) : e.alias = a}
    BY <1>3 DEF Seen
  <2> QED
    BY <1>3, <2>1, BoxIs, OfIs DEF Sound
<1>6. Mail = Boxes!Nothing /\ Answers = Boxes!Nothing
  BY <1>3, <1>5, MailIs DEF Answers, Boxes!Nothing, none
<1>7. Boxes!Init
  BY <1>1, <1>6 DEF Boxes!Init, Mail, Answers
<1> QED
  BY <1>4, <1>7

\* Every step keeps the invariant, and readers see a step of the mailboxes.
LEMMA InboxStep == InboxInv /\ [Next]_vars => InboxInv' /\ [Boxes!Next]_(Boxes!vars)
<1> SUFFICES ASSUME InboxInv, [Next]_vars
             PROVE  InboxInv' /\ [Boxes!Next]_(Boxes!vars)
  OBVIOUS
<1>1. CASE Tick
  BY <1>1, TickKeeps DEF Boxes!Next
<1>2. CASE \E a \in Aliases : Deposit(a)
  BY <1>2, DepositKeeps DEF Boxes!Next
<1>3. CASE \E a \in Aliases : PopNothing(a)
  BY <1>3, PopNothingKeeps DEF Boxes!Next
<1>4. CASE \E a \in Aliases : PopLatest(a)
  BY <1>4, PopLatestKeeps DEF Boxes!Next
<1>5. CASE \E a \in Aliases : PopAll(a)
  BY <1>5, PopAllKeeps DEF Boxes!Next
<1>6. CASE \E a \in Aliases : \E length \in Lengths : PopLength(a, length)
  BY <1>6, PopLengthKeeps DEF Boxes!Next
<1>7. CASE \E filter \in Aliases \cup {None} : Peek(filter)
  <2>1. PICK filter \in Aliases \cup {None} : Peek(filter)
    BY <1>7
  <2>2. (IF filter = None THEN Aliases ELSE {filter}) \in SUBSET Aliases
    OBVIOUS
  <2> QED
    BY <2>1, <2>2, PeekKeeps DEF Boxes!Next
<1>8. CASE UNCHANGED vars
  <2>1. Mail' = Mail /\ Answers' = Answers
    BY <1>8 DEF vars, Mail, Answers, Box, Of
  <2>2. InboxInv'
    BY <1>8 DEF vars, InboxInv
  <2>3. UNCHANGED Boxes!vars
    BY <1>8, <2>1 DEF vars, Boxes!vars, Mail, Answers
  <2> QED
    BY <2>2, <2>3
<1> QED
  BY <1>1, <1>2, <1>3, <1>4, <1>5, <1>6, <1>7, <1>8 DEF Next

\* The invariant, in every reachable state.
LEMMA InboxAlways == Spec => []InboxInv
<1> QED
  BY InboxInit, InboxStep, PTL DEF Spec

\* Values keep their types: an entry has the time of its deposit, never the zero
\* time that depositors leave.
THEOREM InboxTypes == Spec => []TypeOK
<1>1. InboxInv => TypeOK
  BY DEF InboxInv, TypeOK, Sound, Entries
<1> QED
  BY <1>1, InboxAlways, PTL

\* The inbox and every listing of it are in chronological order, whatever Pop put
\* back among the entries of other agents.
THEOREM InboxIsChronological == Spec => []Chronological
<1>1. InboxInv => Chronological
  BY DEF InboxInv, Sound, Timely, Chronological
<1> QED
  BY <1>1, InboxAlways, PTL

\* The shared slice with lazy expiry implements a mailbox per agent: nothing is
\* lost before its time, read twice, or overtaken by a later entry of its agent.
THEOREM InboxIsMailboxes == Spec => ImplementsMailboxes
<1> QED
  BY InboxInit, InboxStep, InboxAlways, PTL DEF Spec, ImplementsMailboxes, Boxes!Spec
=============================================================================
