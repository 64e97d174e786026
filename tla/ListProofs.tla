----------------------------- MODULE ListProofs -----------------------------
(***************************************************************************)
(* What the loop of Only computes, for lists of any length, by induction   *)
(* over the natural numbers.  The induction theorems of the library take   *)
(* an operator, which the provers cannot instantiate; here they take sets. *)
(***************************************************************************)
EXTENDS Lists, WellFoundedInduction, TLAPS

-----------------------------------------------------------------------------
(* Induction, for sets of numbers.                                         *)

\* A set of numbers has a least one.
LEMMA Least ==
  ASSUME NEW T \in SUBSET Nat, T # {}
  PROVE  \E m \in T : \A n \in T : m <= n
<1> DEFINE R == {p \in Nat \X Nat : p[1] < p[2]}
<1>1. IsWellFoundedOn(R, Nat)
  BY NatLessThanWellFounded DEF OpToRel
<1>2. \A m, n \in Nat : <<n, m>> \in R <=> n < m
  OBVIOUS
<1> HIDE DEF R
<1>3. PICK m \in T : \A n \in T : ~ (<<n, m>> \in R)
  BY <1>1, WFMin, Zenon
<1>4. ASSUME NEW n \in T
      PROVE  m <= n
  <2>1. ~ (<<n, m>> \in R)
    BY <1>3, <1>4, Zenon
  <2>2. m \in Nat /\ n \in Nat
    OBVIOUS
  <2>3. ~ (n < m)
    BY <1>2, <2>1, <2>2, Zenon
  <2> QED
    BY <2>2, <2>3
<1> QED
  BY <1>4

\* What holds of 0, and of n + 1 whenever it holds of n, holds of every number.
LEMMA Induction ==
  ASSUME NEW T, 0 \in T, \A n \in Nat : n \in T => n + 1 \in T
  PROVE  \A n \in Nat : n \in T
<1> SUFFICES ASSUME Nat \ T # {}
             PROVE  FALSE
  OBVIOUS
<1>1. PICK m \in Nat \ T : \A n \in Nat \ T : m <= n
  BY Least
<1>2. m # 0 /\ m - 1 \in Nat
  BY <1>1
<1>3. m - 1 \in T
  BY <1>1, <1>2
<1> QED
  BY <1>1, <1>2, <1>3

-----------------------------------------------------------------------------
(* The loop of Only.                                                       *)

\* What is kept of the first i elements.
KeepsTo(f, s, S, n) ==
  f = [i \in 0..n |->
         IF i = 0 THEN <<>> ELSE IF s[i] \in S THEN Append(f[i - 1], s[i]) ELSE f[i - 1]]

\* t has the elements of s[1..n] that are in S, and p says where they were.
Picks(p, t, s, n, S) ==
  /\ p \in [1..Len(t) -> 1..n]
  /\ \A i, j \in 1..Len(t) : i < j => p[i] < p[j]
  /\ \A i \in 1..Len(t) : t[i] = s[p[i]] /\ s[p[i]] \in S
  /\ \A j \in 1..n : s[j] \in S => \E i \in 1..Len(t) : p[i] = j

\* The loop runs to its end.
LEMMA KeepsRuns ==
  ASSUME NEW s, NEW S
  PROVE  \A n \in Nat : \E f : KeepsTo(f, s, S, n)
<1> DEFINE T == {n \in Nat : \E f : KeepsTo(f, s, S, n)}
<1>1. 0 \in T
  <2> DEFINE f == [i \in 0..0 |-> <<>>]
  <2>1. KeepsTo(f, s, S, 0)
    BY DEF KeepsTo
  <2> QED
    BY <2>1
<1>2. ASSUME NEW n \in Nat, n \in T
      PROVE  n + 1 \in T
  <2>1. PICK f : KeepsTo(f, s, S, n)
    BY <1>2
  <2> DEFINE g == [i \in 0..n + 1 |->
                     IF i <= n THEN f[i]
                     ELSE IF s[i] \in S THEN Append(f[i - 1], s[i]) ELSE f[i - 1]]
             h == [i \in 0..n + 1 |->
                     IF i = 0 THEN <<>>
                     ELSE IF s[i] \in S THEN Append(g[i - 1], s[i]) ELSE g[i - 1]]
  <2>2. \A i \in 0..n : g[i] = f[i]
    OBVIOUS
  <2>3. \A i \in 0..n : f[i] = IF i = 0 THEN <<>>
                               ELSE IF s[i] \in S THEN Append(f[i - 1], s[i]) ELSE f[i - 1]
    BY <2>1 DEF KeepsTo
  <2>4. ASSUME NEW i \in 0..n + 1
        PROVE  g[i] = h[i]
    <3>1. CASE i = 0
      BY <2>2, <2>3, <3>1
    <3>2. CASE i \in 1..n
      <4>1. i - 1 \in 0..n /\ i \in 0..n
        BY <3>2
      <4> QED
        BY <2>2, <2>3, <3>2, <4>1
    <3>3. CASE i = n + 1
      <4>1. i - 1 \in 0..n /\ ~ (i <= n) /\ i # 0
        BY <3>3
      <4> QED
        BY <2>2, <4>1
    <3> QED
      BY <3>1, <3>2, <3>3
  <2>5. g = h
    BY <2>4
  <2>6. KeepsTo(g, s, S, n + 1)
    BY <2>5 DEF KeepsTo
  <2> QED
    BY <2>6
<1> HIDE DEF T
<1>3. \A n \in Nat : n \in T
  BY <1>1, <1>2, Induction
<1> QED
  BY <1>3 DEF T

\* Only keeps the elements that are in the set, and their order.
LEMMA OnlyPicks ==
  ASSUME NEW E, NEW s \in Seq(E), NEW S
  PROVE  Only(s, S) \in Seq(E) /\ \E p : Picks(p, Only(s, S), s, Len(s), S)
<1>1. Len(s) \in Nat /\ \A i \in 1..Len(s) : s[i] \in E
  OBVIOUS
<1>2. PICK f : KeepsTo(f, s, S, Len(s)) /\ Only(s, S) = f[Len(s)]
  <2>1. \E f : KeepsTo(f, s, S, Len(s))
    BY <1>1, KeepsRuns
  <2> QED
    BY <2>1 DEF Only, KeepsTo
<1>3. \A i \in 0..Len(s) : f[i] = IF i = 0 THEN <<>>
                                  ELSE IF s[i] \in S THEN Append(f[i - 1], s[i]) ELSE f[i - 1]
  BY <1>2 DEF KeepsTo
<1> DEFINE Fine(n) == f[n] \in Seq(E) /\ \E p : Picks(p, f[n], s, n, S)
           T == {n \in Nat : n <= Len(s) => Fine(n)}
<1>4. 0 \in T
  <2>1. f[0] = <<>>
    BY <1>1, <1>3
  <2> DEFINE none == <<>>
             p == [i \in 1..0 |-> i]
  <2>2. none \in Seq(E) /\ p \in [1..Len(none) -> 1..0] /\ 1..Len(none) = {} /\ 1..0 = {}
    OBVIOUS
  <2> HIDE DEF p, none
  <2>3. Picks(p, none, s, 0, S)
    BY <2>2 DEF Picks
  <2>4. f[0] = none
    BY <2>1 DEF none
  <2> QED
    BY <2>2, <2>3, <2>4
<1>5. ASSUME NEW n \in Nat, n \in T
      PROVE  n + 1 \in T
  <2> SUFFICES ASSUME n + 1 <= Len(s)
               PROVE  Fine(n + 1)
    OBVIOUS
  <2>1. Fine(n) /\ n + 1 \in 1..Len(s) /\ s[n + 1] \in E
    BY <1>1, <1>5
  <2>2. f[n + 1] = IF s[n + 1] \in S THEN Append(f[n], s[n + 1]) ELSE f[n]
    BY <1>3, <2>1
  <2>3. PICK p : Picks(p, f[n], s, n, S)
    BY <2>1
  <2> DEFINE t == f[n]
             L == Len(f[n])
  <2>4. t \in Seq(E) /\ L \in Nat /\ L = Len(t)
    BY <2>1
  <2>5. /\ p \in [1..L -> 1..n]
        /\ \A i, j \in 1..L : i < j => p[i] < p[j]
        /\ \A i \in 1..L : t[i] = s[p[i]] /\ s[p[i]] \in S
        /\ \A j \in 1..n : s[j] \in S => \E i \in 1..L : p[i] = j
    BY <2>3 DEF Picks
  <2> HIDE DEF t, L
  <2>6. CASE s[n + 1] \in S
    <3> DEFINE u == Append(t, s[n + 1])
               q == [i \in 1..L + 1 |-> IF i <= L THEN p[i] ELSE n + 1]
    <3>1. f[n + 1] = u
      BY <2>2, <2>6 DEF t
    <3>2. u \in Seq(E) /\ Len(u) = L + 1 /\ (\A i \in 1..L : u[i] = t[i]) /\ u[L + 1] = s[n + 1]
      BY <2>1, <2>4
    <3> HIDE DEF u
    <3>3. \A i \in 1..L : q[i] = p[i] /\ q[i] \in 1..n
      BY <2>4, <2>5
    <3>4. q[L + 1] = n + 1
      BY <2>4
    <3>5. q \in [1..L + 1 -> 1..n + 1]
      BY <2>4, <2>5
    <3> HIDE DEF q
    <3>6. ASSUME NEW i \in 1..L + 1, NEW j \in 1..L + 1, i < j
          PROVE  q[i] < q[j]
      <4>1. i \in 1..L
        BY <2>4, <3>6
      <4>2. CASE j \in 1..L
        BY <2>5, <3>3, <3>6, <4>1, <4>2
      <4>3. CASE j = L + 1
        BY <3>3, <3>4, <4>1, <4>3
      <4> QED
        BY <2>4, <4>2, <4>3
    <3>7. ASSUME NEW i \in 1..L + 1
          PROVE  u[i] = s[q[i]] /\ s[q[i]] \in S
      <4>1. CASE i \in 1..L
        BY <2>5, <3>2, <3>3, <4>1
      <4>2. CASE i = L + 1
        BY <2>6, <3>2, <3>4, <4>2
      <4> QED
        BY <2>4, <4>1, <4>2
    <3>8. ASSUME NEW j \in 1..n + 1, s[j] \in S
          PROVE  \E i \in 1..L + 1 : q[i] = j
      <4>1. CASE j \in 1..n
        <5>1. PICK i \in 1..L : p[i] = j
          BY <2>5, <3>8, <4>1
        <5> QED
          BY <2>4, <3>3, <5>1
      <4>2. CASE j = n + 1
        BY <2>4, <3>4, <4>2
      <4> QED
        BY <4>1, <4>2
    <3>9. Picks(q, u, s, n + 1, S)
      BY <3>2, <3>5, <3>6, <3>7, <3>8 DEF Picks
    <3> QED
      BY <3>1, <3>2, <3>9
  <2>7. CASE s[n + 1] \notin S
    <3>1. f[n + 1] = t
      BY <2>2, <2>7 DEF t
    <3>2. p \in [1..L -> 1..n + 1]
      BY <2>5
    <3>3. \A j \in 1..n + 1 : s[j] \in S => j \in 1..n
      BY <2>7
    <3>4. Picks(p, t, s, n + 1, S)
      BY <2>4, <2>5, <3>2, <3>3 DEF Picks
    <3> QED
      BY <2>4, <3>1, <3>4
  <2> QED
    BY <2>6, <2>7
<1> HIDE DEF T
<1>6. \A n \in Nat : n \in T
  BY <1>4, <1>5, Induction
<1>7. Fine(Len(s))
  BY <1>1, <1>6 DEF T
<1> QED
  BY <1>2, <1>7
=============================================================================
