-------------------------- MODULE DirectoryProofs --------------------------
(***************************************************************************)
(* Proofs about Directory, for every number of names, every limit and any  *)
(* number of changes: what paging by offsets costs a client while the      *)
(* cards change, and what the return of ListenAndServe means.              *)
(***************************************************************************)
EXTENDS Directory, ListProofs, FiniteSetTheorems, TLAPS

-----------------------------------------------------------------------------
(* The list of the cards that match, by rank.                              *)

\* Listings of the registry: one card of a name.
CardLists == {cards \in Seq(Card) : IsInjective(NamesOf(cards))}

Found(cards) == {i \in DOMAIN cards : cards[i].matches}

\* The names that match.
Matching(cards) == {cards[i].name : i \in Found(cards)}

\* Those of them that are listed before n, and n.
Prior(cards, n) ==
  {cards[j].name : j \in {j \in Found(cards) : \E i \in Found(cards) : cards[i].name = n /\ j <= i}}

Rank(cards, n) == Cardinality(Prior(cards, n))

\* Names are finite, and so is every set of them.
LEMMA FiniteNames ==
  ASSUME NEW S \in SUBSET Names
  PROVE  IsFiniteSet(S) /\ Cardinality(S) \in Nat
<1>1. IsFiniteSet(Names)
  BY FS_Interval, DirectoryAssumption DEF Names
<1> QED
  BY <1>1, FS_Subset, FS_CardinalityType

\* The indices of a list of cards, and what is there.
LEMMA CardsAt ==
  ASSUME NEW cards \in CardLists
  PROVE  /\ cards \in Seq(Card) /\ Len(cards) \in Nat /\ DOMAIN cards = 1..Len(cards)
         /\ Found(cards) \subseteq 1..Len(cards)
         /\ \A i \in 1..Len(cards) : cards[i] \in Card /\ cards[i].name \in Names
                                      /\ cards[i].matches \in BOOLEAN
         /\ \A i, j \in 1..Len(cards) : cards[i].name = cards[j].name => i = j
         /\ Matching(cards) \subseteq Names
<1>1. cards \in Seq(Card) /\ Len(cards) \in Nat /\ DOMAIN cards = 1..Len(cards)
  BY DEF CardLists
<1>2. \A i \in 1..Len(cards) : cards[i] \in Card
  BY <1>1
<1>3. \A i \in 1..Len(cards) : cards[i].name \in Names /\ cards[i].matches \in BOOLEAN
  BY <1>2 DEF Card
<1>4. \A i, j \in 1..Len(cards) : cards[i].name = cards[j].name => i = j
  BY <1>1 DEF CardLists, IsInjective, NamesOf
<1> QED
  BY <1>1, <1>2, <1>3, <1>4 DEF Found, Matching

\* The sets Prior of the names that match form a chain.
LEMMA PriorChain ==
  ASSUME NEW cards \in CardLists
  PROVE  /\ \A n \in Matching(cards) : n \in Prior(cards, n)
         /\ \A n : Prior(cards, n) \subseteq Matching(cards)
         /\ \A m, n \in Matching(cards) : m \in Prior(cards, n) \/ n \in Prior(cards, m)
         /\ \A m, n \in Matching(cards) :
              m \in Prior(cards, n) /\ m # n => /\ Prior(cards, m) \subseteq Prior(cards, n)
                                                /\ n \notin Prior(cards, m)
<1>1. \A i, j \in Found(cards) : cards[i].name = cards[j].name => i = j
  BY CardsAt
<1>2. Found(cards) \subseteq Int
  BY CardsAt
<1>3. \A i, j \in Found(cards) : cards[j].name \in Prior(cards, cards[i].name) <=> j <= i
  BY <1>1 DEF Prior
<1>4. \A n : Prior(cards, n) \subseteq Matching(cards)
  BY DEF Prior, Matching
<1>5. \A n \in Matching(cards) : n \in Prior(cards, n)
  <2>1. TAKE n \in Matching(cards)
  <2>2. PICK i \in Found(cards) : n = cards[i].name
    BY <2>1 DEF Matching
  <2> QED
    BY <1>2, <1>3, <2>2
<1>6. ASSUME NEW m \in Matching(cards), NEW n \in Matching(cards)
      PROVE  /\ m \in Prior(cards, n) \/ n \in Prior(cards, m)
             /\ m \in Prior(cards, n) /\ m # n => /\ Prior(cards, m) \subseteq Prior(cards, n)
                                                  /\ n \notin Prior(cards, m)
  <2>1. PICK i \in Found(cards) : m = cards[i].name
    BY DEF Matching
  <2>2. PICK j \in Found(cards) : n = cards[j].name
    BY DEF Matching
  <2>3. m \in Prior(cards, n) \/ n \in Prior(cards, m)
    BY <1>2, <1>3, <2>1, <2>2
  <2>4. ASSUME m \in Prior(cards, n), m # n
        PROVE  Prior(cards, m) \subseteq Prior(cards, n) /\ n \notin Prior(cards, m)
    <3>1. i < j
      BY <1>2, <1>3, <2>1, <2>2, <2>4
    <3>2. n \notin Prior(cards, m)
      BY <1>2, <1>3, <2>1, <2>2, <3>1
    <3>3. ASSUME NEW o \in Prior(cards, m)
          PROVE  o \in Prior(cards, n)
      <4>1. PICK k \in Found(cards) : o = cards[k].name
        BY <1>4, <3>3 DEF Matching
      <4>2. k <= i
        BY <1>3, <2>1, <3>3, <4>1
      <4> QED
        BY <1>2, <1>3, <2>2, <3>1, <4>1, <4>2
    <3> QED
      BY <3>2, <3>3
  <2> QED
    BY <2>3, <2>4
<1> QED
  BY <1>4, <1>5, <1>6

\* Ranks are numbers, and they order the names that match.
LEMMA RankOrder ==
  ASSUME NEW cards \in CardLists
  PROVE  /\ \A n : IsFiniteSet(Prior(cards, n)) /\ Rank(cards, n) \in Nat
         /\ \A n \in Matching(cards) : Rank(cards, n) \in 1..Cardinality(Matching(cards))
         /\ \A m, n \in Matching(cards) :
              m \in Prior(cards, n) /\ m # n => Rank(cards, m) < Rank(cards, n)
         /\ \A m, n \in Matching(cards) : Rank(cards, m) = Rank(cards, n) => m = n
<1>1. \A n : Prior(cards, n) \subseteq Matching(cards) /\ Prior(cards, n) \in SUBSET Names
  BY PriorChain, CardsAt
<1>2. IsFiniteSet(Matching(cards)) /\ Cardinality(Matching(cards)) \in Nat
  BY FiniteNames, CardsAt
<1>3. \A n : IsFiniteSet(Prior(cards, n)) /\ Rank(cards, n) \in Nat
  BY <1>1, FiniteNames DEF Rank
<1>4. ASSUME NEW n \in Matching(cards)
      PROVE  Rank(cards, n) \in 1..Cardinality(Matching(cards))
  <2>1. Rank(cards, n) <= Cardinality(Matching(cards))
    BY <1>1, <1>2, FS_Subset DEF Rank
  <2>2. Rank(cards, n) # 0
    BY <1>3, PriorChain, FS_EmptySet DEF Rank
  <2> QED
    BY <1>2, <1>3, <2>1, <2>2
<1>5. ASSUME NEW m \in Matching(cards), NEW n \in Matching(cards), m \in Prior(cards, n), m # n
      PROVE  Rank(cards, m) < Rank(cards, n)
  <2>1. /\ Prior(cards, m) \in SUBSET Prior(cards, n)
        /\ n \in Prior(cards, n) /\ n \notin Prior(cards, m)
    BY <1>5, PriorChain
  <2>2. Rank(cards, m) <= Rank(cards, n) /\ Rank(cards, m) # Rank(cards, n)
    BY <1>3, <2>1, FS_Subset DEF Rank
  <2> QED
    BY <1>3, <2>2
<1>6. ASSUME NEW m \in Matching(cards), NEW n \in Matching(cards), Rank(cards, m) = Rank(cards, n)
      PROVE  m = n
  <2>1. m \in Prior(cards, n) \/ n \in Prior(cards, m)
    BY PriorChain
  <2> QED
    BY <1>3, <1>5, <1>6, <2>1
<1> QED
  BY <1>3, <1>4, <1>5, <1>6

\* There are as many names that match as there are ranks.
LEMMA RankOnto ==
  ASSUME NEW cards \in CardLists
  PROVE  /\ Cardinality(Found(cards)) = Cardinality(Matching(cards))
         /\ \A k \in 1..Cardinality(Matching(cards)) : \E n \in Matching(cards) : Rank(cards, n) = k
<1>1. IsFiniteSet(Matching(cards)) /\ Cardinality(Matching(cards)) \in Nat
  BY FiniteNames, CardsAt
<1>2. Cardinality(Found(cards)) = Cardinality(Matching(cards))
  <2> DEFINE f == [i \in Found(cards) |-> cards[i].name]
  <2>1. IsFiniteSet(Found(cards))
    <3>1. IsFiniteSet(1..Len(cards)) /\ Found(cards) \in SUBSET (1..Len(cards))
      BY CardsAt, FS_Interval
    <3> QED
      BY <3>1, FS_Subset
  <2>2. f \in Bijection(Found(cards), Matching(cards))
    BY CardsAt DEF Bijection, Injection, Surjection, IsInjective, Matching
  <2> QED
    BY <2>1, <2>2, FS_Bijection DEF ExistsBijection
<1>3. \A k \in 1..Cardinality(Matching(cards)) : \E n \in Matching(cards) : Rank(cards, n) = k
  <2> DEFINE N == Cardinality(Matching(cards))
             f == [n \in Matching(cards) |-> Rank(cards, n)]
  <2>1. f \in Injection(Matching(cards), 1..N)
    BY RankOrder DEF Injection, IsInjective
  <2>2. IsFiniteSet(1..N) /\ Cardinality(1..N) = N
    BY <1>1, FS_Interval
  <2>3. f \in Surjection(Matching(cards), 1..N)
    BY <2>1, <2>2, FS_Injection
  <2> QED
    BY <2>3 DEF Surjection
<1> QED
  BY <1>2, <1>3

\* Resolve lists the names that match, each at its rank.
LEMMA ResolveLists ==
  ASSUME NEW cards \in CardLists
  PROVE  /\ Resolve(cards) \in Seq(Names)
         /\ Len(Resolve(cards)) = Cardinality(Matching(cards))
         /\ \A k \in 1..Len(Resolve(cards)) :
              Resolve(cards)[k] \in Matching(cards) /\ Rank(cards, Resolve(cards)[k]) = k
         /\ \A n \in Matching(cards) :
              Rank(cards, n) \in 1..Len(Resolve(cards)) /\ Resolve(cards)[Rank(cards, n)] = n
         /\ Wanted(cards) = Matching(cards)
<1> DEFINE S == {c \in ToSet(cards) : c.matches}
           t == Only(cards, S)
           list == NamesOf(t)
<1>1. t \in Seq(Card) /\ \E p : Picks(p, t, cards, Len(cards), S)
  BY CardsAt, OnlyPicks
<1>2. /\ Len(cards) \in Nat /\ Found(cards) \subseteq 1..Len(cards)
      /\ \A i \in 1..Len(cards) : cards[i] \in S <=> i \in Found(cards)
      /\ \A i, j \in 1..Len(cards) : cards[i].name = cards[j].name => i = j
  BY CardsAt DEF Found, ToSet
<1>3. Resolve(cards) = list
  BY DEF Resolve
<1> HIDE DEF S, t
<1>4. PICK p : Picks(p, t, cards, Len(cards), S)
  BY <1>1
<1>5. Len(t) \in Nat /\ DOMAIN list = 1..Len(t) /\ \A k \in 1..Len(t) : list[k] = t[k].name
  BY <1>1 DEF NamesOf
<1> HIDE DEF list
<1>6. /\ \A k \in 1..Len(t) : p[k] \in Found(cards) /\ list[k] = cards[p[k]].name
      /\ \A i \in Found(cards) : \E k \in 1..Len(t) : p[k] = i
      /\ \A j, k \in 1..Len(t) : j < k => p[j] < p[k]
  BY <1>2, <1>4, <1>5 DEF Picks
<1>7. \A k \in 1..Len(t) : p[k] \in Nat
  BY <1>2, <1>6
<1>8. \A j, k \in 1..Len(t) : p[j] <= p[k] <=> j <= k
  <2>1. TAKE j, k \in 1..Len(t)
  <2>2. CASE j < k
    BY <1>5, <1>6, <1>7, <2>2
  <2>3. CASE j = k
    BY <1>5, <1>7, <2>3
  <2>4. CASE k < j
    BY <1>5, <1>6, <1>7, <2>4
  <2> QED
    BY <1>5, <2>2, <2>3, <2>4
<1>9. ASSUME NEW n \in 0..Len(t)
      PROVE  Cardinality({list[j] : j \in 1..n}) = n
  <2> DEFINE T == {list[j] : j \in 1..n}
             f == [j \in 1..n |-> list[j]]
  <2>1. \A j, k \in 1..n : list[j] = list[k] => j = k
    <3>1. TAKE j, k \in 1..n
    <3>2. j \in 1..Len(t) /\ k \in 1..Len(t)
      BY <1>5
    <3>3. HAVE list[j] = list[k]
    <3>4. p[j] = p[k]
      <4>1. p[j] \in 1..Len(cards) /\ p[k] \in 1..Len(cards)
        BY <1>2, <1>6, <3>2
      <4>2. cards[p[j]].name = cards[p[k]].name
        BY <1>6, <3>2, <3>3
      <4> QED
        BY <1>2, <4>1, <4>2
    <3>5. j <= k /\ k <= j
      BY <1>7, <1>8, <3>2, <3>4
    <3> QED
      BY <3>5
  <2>2. f \in Bijection(1..n, T)
    BY <2>1 DEF Bijection, Injection, Surjection, IsInjective
  <2>3. IsFiniteSet(1..n) /\ Cardinality(1..n) = n
    BY <1>5, FS_Interval
  <2> HIDE DEF T, f
  <2>4. Cardinality(T) = n
    BY <2>2, <2>3, FS_Bijection DEF ExistsBijection
  <2> QED
    BY <2>4 DEF T
<1>10. Matching(cards) = {list[k] : k \in 1..Len(t)}
  <2>1. \A k \in 1..Len(t) : list[k] \in Matching(cards)
    BY <1>6 DEF Matching
  <2>2. ASSUME NEW n \in Matching(cards)
        PROVE  n \in {list[k] : k \in 1..Len(t)}
    <3>1. PICK i \in Found(cards) : n = cards[i].name
      BY DEF Matching
    <3>2. PICK k \in 1..Len(t) : p[k] = i
      BY <1>6
    <3> QED
      BY <1>6, <3>1, <3>2
  <2> QED
    BY <2>1, <2>2
<1>11. Len(t) = Cardinality(Matching(cards))
  <2>1. Len(t) \in 0..Len(t)
    BY <1>5
  <2> QED
    BY <1>9, <1>10, <2>1
<1>12. ASSUME NEW k \in 1..Len(t)
       PROVE  Rank(cards, list[k]) = k
  <2>1. Prior(cards, list[k]) = {list[j] : j \in 1..k}
    <3>1. Prior(cards, list[k]) = {cards[i].name : i \in {i \in Found(cards) : i <= p[k]}}
      <4>1. p[k] \in Found(cards) /\ \A i \in Found(cards) : cards[i].name = list[k] <=> i = p[k]
        BY <1>2, <1>6
      <4> QED
        BY <4>1 DEF Prior
    <3>2. ASSUME NEW n \in Prior(cards, list[k])
          PROVE  n \in {list[j] : j \in 1..k}
      <4>1. PICK i \in Found(cards) : i <= p[k] /\ n = cards[i].name
        BY <3>1, <3>2
      <4>2. PICK j \in 1..Len(t) : p[j] = i
        BY <1>6
      <4>3. j \in 1..k
        BY <1>5, <1>8, <4>1, <4>2
      <4> QED
        BY <1>6, <4>1, <4>2, <4>3
    <3>3. ASSUME NEW j \in 1..k
          PROVE  list[j] \in Prior(cards, list[k])
      <4>1. j \in 1..Len(t) /\ j <= k
        BY <1>5
      <4>2. p[j] \in Found(cards) /\ p[j] <= p[k] /\ list[j] = cards[p[j]].name
        BY <1>6, <1>8, <4>1
      <4> QED
        BY <3>1, <4>2
    <3> QED
      BY <3>2, <3>3
  <2>2. k \in 0..Len(t)
    BY <1>5
  <2> QED
    BY <1>9, <2>1, <2>2 DEF Rank
<1>13. \A n \in Matching(cards) : Rank(cards, n) \in 1..Len(t) /\ list[Rank(cards, n)] = n
  BY <1>10, <1>12
<1>14. list \in Seq(Names) /\ Len(list) = Len(t)
  <2>1. \A k \in 1..Len(t) : list[k] \in Names
    BY <1>10, CardsAt
  <2>2. list = [k \in 1..Len(t) |-> list[k]]
    BY <1>5 DEF list, NamesOf
  <2>3. list \in [1..Len(t) -> Names]
    BY <2>1, <2>2
  <2> DEFINE L == Len(t)
  <2>4. L \in Nat /\ list \in [1..L -> Names]
    BY <1>5, <2>3
  <2> HIDE DEF L
  <2>5. list \in Seq(Names) /\ Len(list) = L
    BY <2>4
  <2> QED
    BY <2>5 DEF L
<1>15. Wanted(cards) = Matching(cards)
  BY <1>3, <1>5, <1>10 DEF Wanted, ToSet
<1> QED
  BY <1>3, <1>10, <1>11, <1>12, <1>13, <1>14, <1>15

-----------------------------------------------------------------------------
(* What a registration or a removal does to the list.                      *)

\* Two listings that differ in the card of n alone: the others keep their order.
Alike(n, A, B) ==
  /\ Matching(A) \ {n} = Matching(B) \ {n}
  /\ \A m \in Matching(A) \ {n} : Prior(A, m) \ {n} = Prior(B, m) \ {n}
  /\ n \in Matching(A) /\ n \in Matching(B) => A = B

\* h takes the indices of A to those of B where the same card is, but for n's.
Fits(h, n, A, B) ==
  /\ \A i \in 1..Len(A) : A[i].name # n => h[i] \in 1..Len(B) /\ B[h[i]] = A[i]
  /\ \A j \in 1..Len(B) : B[j].name # n => \E i \in 1..Len(A) : A[i].name # n /\ h[i] = j
  /\ \A i, j \in 1..Len(A) : A[i].name # n /\ A[j].name # n => (i <= j <=> h[i] <= h[j])

\* The cards of other names have the same order in both.
LEMMA SameOrder ==
  ASSUME NEW A \in CardLists, NEW B \in CardLists, NEW n, NEW h, Fits(h, n, A, B)
  PROVE  /\ Matching(A) \ {n} = Matching(B) \ {n}
         /\ \A m \in Matching(A) \ {n} : Prior(A, m) \ {n} = Prior(B, m) \ {n}
<1> USE DEF Fits
<1>1. \A i \in 1..Len(A) : A[i].name # n => (i \in Found(A) <=> h[i] \in Found(B))
  BY CardsAt DEF Found
<1>2. Found(A) \subseteq 1..Len(A) /\ Found(B) \subseteq 1..Len(B)
  BY CardsAt
<1>3. Matching(A) \ {n} = Matching(B) \ {n}
  <2>1. ASSUME NEW m \in Matching(A), m # n
        PROVE  m \in Matching(B)
    <3>1. PICK i \in Found(A) : m = A[i].name
      BY <2>1 DEF Matching
    <3> QED
      BY <1>1, <1>2, <2>1, <3>1 DEF Matching
  <2>2. ASSUME NEW m \in Matching(B), m # n
        PROVE  m \in Matching(A)
    <3>1. PICK j \in Found(B) : m = B[j].name
      BY <2>2 DEF Matching
    <3>2. PICK i \in 1..Len(A) : A[i].name # n /\ h[i] = j
      BY <1>2, <2>2, <3>1
    <3> QED
      BY <1>1, <1>2, <3>1, <3>2 DEF Matching
  <2> QED
    BY <2>1, <2>2
<1>4. ASSUME NEW m \in Matching(A), m # n
      PROVE  Prior(A, m) \ {n} = Prior(B, m) \ {n}
  <2>1. PICK i \in Found(A) : m = A[i].name
    BY DEF Matching
  <2>2. i \in 1..Len(A) /\ h[i] \in Found(B) /\ B[h[i]].name = m
    BY <1>1, <1>2, <1>4, <2>1
  <2>3. Prior(A, m) = {A[k].name : k \in {k \in Found(A) : k <= i}}
    BY <1>2, <2>1, CardsAt DEF Prior
  <2>4. Prior(B, m) = {B[k].name : k \in {k \in Found(B) : k <= h[i]}}
    BY <1>2, <2>2, CardsAt DEF Prior
  <2>5. ASSUME NEW o \in Prior(A, m), o # n
        PROVE  o \in Prior(B, m)
    <3>1. PICK k \in Found(A) : k <= i /\ o = A[k].name
      BY <2>3, <2>5
    <3>2. h[k] \in Found(B) /\ h[k] <= h[i] /\ B[h[k]].name = o
      BY <1>1, <1>2, <1>4, <2>1, <2>2, <2>5, <3>1
    <3> QED
      BY <2>4, <3>2
  <2>6. ASSUME NEW o \in Prior(B, m), o # n
        PROVE  o \in Prior(A, m)
    <3>1. PICK j \in Found(B) : j <= h[i] /\ o = B[j].name
      BY <2>4, <2>6
    <3>2. PICK k \in 1..Len(A) : A[k].name # n /\ h[k] = j
      BY <1>2, <2>6, <3>1
    <3>3. k \in Found(A) /\ k <= i /\ A[k].name = o
      BY <1>1, <1>2, <1>4, <2>1, <2>2, <3>1, <3>2
    <3> QED
      BY <2>3, <3>3
  <2> QED
    BY <2>5, <2>6
<1> QED
  BY <1>3, <1>4

\* A card at the end.
LEMMA Appended ==
  ASSUME NEW A \in CardLists, NEW card \in Card, card.name \notin ToSet(NamesOf(A))
  PROVE  Append(A, card) \in CardLists /\ Alike(card.name, A, Append(A, card))
<1> DEFINE n == card.name
           B == Append(A, card)
           h == [i \in 1..Len(A) |-> i]
<1>1. /\ B \in Seq(Card) /\ Len(B) = Len(A) + 1 /\ Len(A) \in Nat /\ DOMAIN B = 1..Len(A) + 1
      /\ \A i \in 1..Len(A) : B[i] = A[i] /\ B[i].name # n
      /\ B[Len(A) + 1] = card
  BY CardsAt DEF ToSet, NamesOf
<1> HIDE DEF B
<1>2. B \in CardLists
  <2>1. ASSUME NEW i \in 1..Len(B), NEW j \in 1..Len(B), B[i].name = B[j].name
        PROVE  i = j
    BY <1>1, <2>1, CardsAt
  <2> QED
    BY <1>1, <2>1 DEF CardLists, IsInjective, NamesOf
<1>3. Fits(h, n, A, B)
  BY <1>1 DEF Fits
<1>4. n \notin Matching(A)
  BY <1>1, CardsAt DEF Matching
<1> HIDE DEF h, n
<1>5. /\ Matching(A) \ {n} = Matching(B) \ {n}
      /\ \A m \in Matching(A) \ {n} : Prior(A, m) \ {n} = Prior(B, m) \ {n}
  BY <1>2, <1>3, SameOrder
<1> QED
  BY <1>2, <1>4, <1>5 DEF Alike, B, n

\* A card in the place of the one of its name.
LEMMA Replaced ==
  ASSUME NEW A \in CardLists, NEW card \in Card
  PROVE  LET B == [i \in DOMAIN A |-> IF A[i].name = card.name THEN card ELSE A[i]]
         IN  B \in CardLists /\ Alike(card.name, A, B)
<1> DEFINE n == card.name
           B == [i \in DOMAIN A |-> IF A[i].name = n THEN card ELSE A[i]]
           h == [i \in 1..Len(A) |-> i]
<1>1. /\ B \in Seq(Card) /\ Len(B) = Len(A) /\ Len(A) \in Nat /\ DOMAIN B = 1..Len(A)
      /\ \A i \in 1..Len(A) : B[i] = (IF A[i].name = n THEN card ELSE A[i]) /\ B[i].name = A[i].name
  BY CardsAt
<1>2. B = A \/ n \notin Matching(A) \/ n \notin Matching(B)
  <2>1. ASSUME n \in Matching(A), n \in Matching(B), NEW i \in 1..Len(A)
        PROVE  B[i] = A[i]
    <3>1. PICK j \in Found(A) : A[j].name = n
      BY <2>1 DEF Matching
    <3>2. PICK k \in Found(B) : B[k].name = n
      BY <2>1 DEF Matching
    <3>3. j \in 1..Len(A) /\ k = j /\ A[j] \in Card
      BY <1>1, <3>1, <3>2, CardsAt DEF Found
    <3>4. A[j].matches /\ card.matches
      BY <1>1, <3>1, <3>2, <3>3 DEF Found
    <3>5. A[j] = card
      BY <3>1, <3>3, <3>4 DEF Card
    <3> QED
      BY <1>1, <3>1, <3>3, <3>5, CardsAt
  <2> QED
    BY <1>1, <2>1, CardsAt
<1> HIDE DEF B
<1>3. B \in CardLists
  <2>1. ASSUME NEW i \in 1..Len(B), NEW j \in 1..Len(B), B[i].name = B[j].name
        PROVE  i = j
    BY <1>1, <2>1, CardsAt
  <2> QED
    BY <1>1, <2>1 DEF CardLists, IsInjective, NamesOf
<1>4. Fits(h, n, A, B)
  BY <1>1 DEF Fits
<1> HIDE DEF h, n
<1>5. /\ Matching(A) \ {n} = Matching(B) \ {n}
      /\ \A m \in Matching(A) \ {n} : Prior(A, m) \ {n} = Prior(B, m) \ {n}
  BY <1>3, <1>4, SameOrder
<1> QED
  BY <1>2, <1>3, <1>5 DEF Alike, B, n

\* A card taken out.
LEMMA TakenOut ==
  ASSUME NEW A \in CardLists, NEW p \in DOMAIN A
  PROVE  RemoveAt(A, p) \in CardLists /\ Alike(A[p].name, A, RemoveAt(A, p))
<1> DEFINE n == A[p].name
           B == RemoveAt(A, p)
           h == [i \in 1..Len(A) |-> IF i < p THEN i ELSE i - 1]
<1>1. A \in Seq(Card) /\ Len(A) \in Nat /\ p \in 1..Len(A)
  BY CardsAt
<1>2. /\ B \in Seq(Card) /\ Len(B) = Len(A) - 1 /\ DOMAIN B = 1..Len(A) - 1
      /\ \A i \in 1..Len(A) - 1 : B[i] = IF i < p THEN A[i] ELSE A[i + 1]
  <2>1. /\ SubSeq(A, 1, p - 1) \in Seq(Card) /\ Len(SubSeq(A, 1, p - 1)) = p - 1
        /\ \A i \in 1..p - 1 : SubSeq(A, 1, p - 1)[i] = A[i]
    BY <1>1
  <2>2. /\ SubSeq(A, p + 1, Len(A)) \in Seq(Card) /\ Len(SubSeq(A, p + 1, Len(A))) = Len(A) - p
        /\ \A i \in 1..Len(A) - p : SubSeq(A, p + 1, Len(A))[i] = A[p + i]
    BY <1>1
  <2> DEFINE s == SubSeq(A, 1, p - 1)
             u == SubSeq(A, p + 1, Len(A))
  <2>3. B = s \o u
    BY DEF RemoveAt
  <2> HIDE DEF s, u, B
  <2>4. s \in Seq(Card) /\ Len(s) = p - 1 /\ \A i \in 1..p - 1 : s[i] = A[i]
    BY <2>1 DEF s
  <2>5. u \in Seq(Card) /\ Len(u) = Len(A) - p /\ \A i \in 1..Len(A) - p : u[i] = A[p + i]
    BY <2>2 DEF u
  <2>6. B \in Seq(Card) /\ Len(B) = Len(A) - 1 /\ DOMAIN B = 1..Len(A) - 1
    BY <1>1, <2>3, <2>4, <2>5
  <2>7. ASSUME NEW i \in 1..Len(A) - 1
        PROVE  B[i] = IF i < p THEN A[i] ELSE A[i + 1]
    <3>1. B[i] = IF i <= Len(s) THEN s[i] ELSE u[i - Len(s)]
      BY SMTT(30), <1>1, <2>3, <2>4, <2>5
    <3>2. CASE i < p
      BY <1>1, <2>4, <3>1, <3>2
    <3>3. CASE ~(i < p)
      <4>1. i - (p - 1) \in 1..Len(A) - p /\ p + (i - (p - 1)) = i + 1
        BY <1>1, <3>3
      <4>2. ~(i <= Len(s))
        BY <1>1, <2>4, <3>3
      <4>3. B[i] = u[i - (p - 1)]
        BY <2>4, <3>1, <4>2
      <4>4. u[i - (p - 1)] = A[i + 1]
        BY <2>5, <4>1
      <4> QED
        BY <3>3, <4>3, <4>4
    <3> QED
      BY <3>2, <3>3
  <2> QED
    BY <2>6, <2>7
<1> HIDE DEF B
<1>3. \A i \in 1..Len(A) - 1 : B[i].name # n
  BY SMTT(30), <1>1, <1>2, CardsAt
<1>4. B \in CardLists
  <2>1. ASSUME NEW i \in 1..Len(B), NEW j \in 1..Len(B), B[i].name = B[j].name
        PROVE  i = j
    <3>1. PICK k \in 1..Len(A) : k = (IF i < p THEN i ELSE i + 1) /\ B[i] = A[k]
      BY <1>1, <1>2
    <3>2. PICK l \in 1..Len(A) : l = (IF j < p THEN j ELSE j + 1) /\ B[j] = A[l]
      BY <1>1, <1>2
    <3>3. k = l
      BY <2>1, <3>1, <3>2, CardsAt
    <3> QED
      BY <1>1, <1>2, <3>1, <3>2, <3>3
  <2> QED
    BY <1>2, <2>1 DEF CardLists, IsInjective, NamesOf
<1>5. /\ \A i \in 1..Len(A) : A[i].name # n => h[i] \in 1..Len(B) /\ B[h[i]] = A[i]
      /\ \A i, j \in 1..Len(A) : A[i].name # n /\ A[j].name # n => (i <= j <=> h[i] <= h[j])
  BY <1>1, <1>2, CardsAt
<1>6. ASSUME NEW j \in 1..Len(B), B[j].name # n
      PROVE  \E i \in 1..Len(A) : A[i].name # n /\ h[i] = j
  <2>1. CASE j < p
    BY <1>1, <1>2, <1>6, <2>1
  <2>2. CASE ~(j < p)
    <3>1. j + 1 \in 1..Len(A) /\ A[j + 1].name # n /\ h[j + 1] = j
      BY <1>1, <1>2, <1>6, <2>2
    <3> QED
      BY <3>1
  <2> QED
    BY <2>1, <2>2
<1>7. n \notin Matching(B) /\ Fits(h, n, A, B)
  BY <1>2, <1>3, <1>5, <1>6 DEF Matching, Found, Fits
<1> HIDE DEF h, n
<1>8. /\ Matching(A) \ {n} = Matching(B) \ {n}
      /\ \A m \in Matching(A) \ {n} : Prior(A, m) \ {n} = Prior(B, m) \ {n}
  BY <1>4, <1>7, SameOrder
<1> QED
  BY <1>4, <1>7, <1>8 DEF Alike, B, n

-----------------------------------------------------------------------------
(* What it does to an offset.                                              *)

\* The names before an offset, and those after it.
Upto(cards, c) == {n \in Matching(cards) : Rank(cards, n) <= c}

Beyond(cards, c) == {n \in Matching(cards) : Rank(cards, n) > c}

\* Where n is not in the first list, each rank in the second is the same or, past n,
\* one more.
LEMMA RankShift ==
  ASSUME NEW A \in CardLists, NEW B \in CardLists, NEW n, Alike(n, A, B), n \notin Matching(A)
  PROVE  /\ Matching(A) \subseteq Matching(B) /\ Matching(B) \subseteq Matching(A) \cup {n}
         /\ \A m \in Matching(A) :
              Rank(B, m) = Rank(A, m) + (IF n \in Prior(B, m) THEN 1 ELSE 0)
<1>1. Matching(A) \subseteq Matching(B) /\ Matching(B) \subseteq Matching(A) \cup {n}
  BY DEF Alike
<1>2. ASSUME NEW m \in Matching(A)
      PROVE  Rank(B, m) = Rank(A, m) + (IF n \in Prior(B, m) THEN 1 ELSE 0)
  <2>1. Prior(A, m) = Prior(B, m) \ {n}
    BY PriorChain DEF Alike
  <2>2. IsFiniteSet(Prior(B, m)) /\ Rank(B, m) \in Nat
    BY RankOrder
  <2>3. Cardinality(Prior(B, m) \ {n}) =
          IF n \in Prior(B, m) THEN Cardinality(Prior(B, m)) - 1 ELSE Cardinality(Prior(B, m))
    BY <2>2, FS_RemoveElement
  <2> QED
    BY <2>1, <2>2, <2>3 DEF Rank
<1> QED
  BY <1>1, <1>2

\* A change lets at most one name cross an offset in each direction, and none if
\* no name came to the list, respectively left it.
LEMMA OffsetShift ==
  ASSUME NEW A \in CardLists, NEW B \in CardLists, NEW n, Alike(n, A, B), NEW c \in Nat
  PROVE  /\ \E x : Beyond(B, c) \subseteq Beyond(A, c) \cup {x}
         /\ Matching(B) \subseteq Matching(A) => Beyond(B, c) \subseteq Beyond(A, c)
         /\ \E x : Upto(B, c) \cap Matching(A) \subseteq Upto(A, c) \cup {x}
         /\ Matching(A) \subseteq Matching(B) => Upto(B, c) \cap Matching(A) \subseteq Upto(A, c)
<1>1. ASSUME NEW cards \in CardLists, NEW m \in Matching(cards)
      PROVE  Rank(cards, m) \in Nat
  BY RankOrder
<1>2. CASE n \notin Matching(A)
  <2>1. /\ Matching(A) \subseteq Matching(B) /\ Matching(B) \subseteq Matching(A) \cup {n}
        /\ \A m \in Matching(A) :
             Rank(B, m) = Rank(A, m) + (IF n \in Prior(B, m) THEN 1 ELSE 0)
    BY <1>2, RankShift
  <2>2. Upto(B, c) \cap Matching(A) \subseteq Upto(A, c)
    BY <1>1, <2>1 DEF Upto
  <2>3. Matching(B) \subseteq Matching(A) => Beyond(B, c) \subseteq Beyond(A, c)
    <3>1. SUFFICES ASSUME Matching(B) \subseteq Matching(A)
                   PROVE  Beyond(B, c) \subseteq Beyond(A, c)
      OBVIOUS
    <3>2. \A m : n \notin Prior(B, m)
      BY <1>2, <3>1, PriorChain
    <3> QED
      BY <1>1, <2>1, <3>1, <3>2 DEF Beyond
  <2>4. \E x : Beyond(B, c) \subseteq Beyond(A, c) \cup {x}
    <3>1. CASE \E m \in Matching(A) : Rank(A, m) = c /\ n \in Prior(B, m)
      <4>1. PICK m \in Matching(A) : Rank(A, m) = c /\ n \in Prior(B, m)
        BY <3>1
      <4>2. n \in Matching(B) /\ m \in Matching(B) /\ n # m /\ Rank(B, m) = c + 1
        BY <1>2, <2>1, <4>1, PriorChain
      <4>3. Rank(B, n) < c + 1
        BY <4>1, <4>2, RankOrder
      <4>4. ASSUME NEW o \in Beyond(B, c), o \notin Beyond(A, c)
            PROVE  o = m
        <5>1. o # n /\ o \in Matching(A)
          BY <1>1, <2>1, <4>2, <4>3, <4>4 DEF Beyond
        <5>2. Rank(A, o) = c
          BY <1>1, <2>1, <4>4, <5>1 DEF Beyond
        <5> QED
          BY <4>1, <5>1, <5>2, RankOrder
      <4> QED
        BY <4>4
    <3>2. CASE ~\E m \in Matching(A) : Rank(A, m) = c /\ n \in Prior(B, m)
      <4>1. Beyond(B, c) \subseteq Beyond(A, c) \cup {n}
        BY <1>1, <2>1, <3>2 DEF Beyond
      <4> QED
        BY <4>1
    <3> QED
      BY <3>1, <3>2
  <2> QED
    BY <2>2, <2>3, <2>4
<1>3. CASE n \in Matching(A) /\ n \notin Matching(B)
  <2>1. Alike(n, B, A)
    BY <1>3 DEF Alike
  <2>2. /\ Matching(B) \subseteq Matching(A) /\ Matching(A) \subseteq Matching(B) \cup {n}
        /\ \A m \in Matching(B) :
             Rank(A, m) = Rank(B, m) + (IF n \in Prior(A, m) THEN 1 ELSE 0)
    BY <1>3, <2>1, RankShift
  <2>3. Beyond(B, c) \subseteq Beyond(A, c)
    BY <1>1, <2>2 DEF Beyond
  <2>4. ~(Matching(A) \subseteq Matching(B))
    BY <1>3
  <2>5. \E x : Upto(B, c) \cap Matching(A) \subseteq Upto(A, c) \cup {x}
    <3>1. \A m \in Upto(B, c) : m \in Upto(A, c) \/ Rank(A, m) = c + 1
      BY <1>1, <2>2 DEF Upto
    <3>2. CASE \E m \in Matching(A) : Rank(A, m) = c + 1
      <4>1. PICK m \in Matching(A) : Rank(A, m) = c + 1
        BY <3>2
      <4>2. Upto(B, c) \cap Matching(A) \subseteq Upto(A, c) \cup {m}
        BY <3>1, <4>1, RankOrder
      <4> QED
        BY <4>2
    <3>3. CASE ~\E m \in Matching(A) : Rank(A, m) = c + 1
      BY <3>1, <3>3
    <3> QED
      BY <3>2, <3>3
  <2> QED
    BY <2>3, <2>4, <2>5
<1>4. CASE A = B
  BY <1>4
<1> QED
  BY <1>2, <1>3, <1>4 DEF Alike

\* Counted: what the change costs a reader whose next page starts at an offset.
LEMMA OffsetCost ==
  ASSUME NEW A \in CardLists, NEW B \in CardLists, NEW n, Alike(n, A, B), NEW c \in Nat,
         NEW S \in SUBSET Names
  PROVE  /\ Cardinality(S \cap Beyond(B, c)) <=
              Cardinality(S \cap Beyond(A, c)) + Cardinality(Matching(B) \ Matching(A))
         /\ Cardinality((S \cap Matching(A)) \cap Upto(B, c)) <=
              Cardinality(S \cap Upto(A, c)) + Cardinality(Matching(A) \ Matching(B))
<1>1. /\ Matching(A) \in SUBSET Names /\ Matching(B) \in SUBSET Names
      /\ \A cards \in CardLists : S \cap Beyond(cards, c) \in SUBSET Names
                                  /\ S \cap Upto(cards, c) \in SUBSET Names
      /\ (S \cap Matching(A)) \cap Upto(B, c) \in SUBSET Names
      /\ Matching(A) \ Matching(B) \in SUBSET Names /\ Matching(B) \ Matching(A) \in SUBSET Names
  BY CardsAt
<1>2. ASSUME NEW T \in SUBSET Names, NEW U \in SUBSET Names, NEW V \in SUBSET Names,
             \E x : T \subseteq U \cup {x}, V = {} => T \subseteq U
      PROVE  Cardinality(T) <= Cardinality(U) + Cardinality(V)
  <2>1. /\ IsFiniteSet(T) /\ IsFiniteSet(U) /\ IsFiniteSet(V)
        /\ Cardinality(T) \in Nat /\ Cardinality(U) \in Nat /\ Cardinality(V) \in Nat
    BY FiniteNames
  <2>2. CASE V = {}
    <3>1. Cardinality(T) <= Cardinality(U)
      BY <1>2, <2>1, <2>2, FS_Subset
    <3> QED
      BY <2>1, <3>1
  <2>3. CASE V # {}
    <3>1. Cardinality(V) >= 1
      BY <2>1, <2>3, FS_EmptySet
    <3>2. PICK x : T \subseteq U \cup {x}
      BY <1>2
    <3>3. IsFiniteSet(U \cup {x}) /\ Cardinality(U \cup {x}) <= Cardinality(U) + 1
      <4>1. /\ IsFiniteSet(U \cup {x})
            /\ Cardinality(U \cup {x}) =
                 IF x \in U THEN Cardinality(U) ELSE Cardinality(U) + 1
        BY <2>1, FS_AddElement
      <4> QED
        BY <2>1, <4>1
    <3>4. Cardinality(T) <= Cardinality(U \cup {x})
      BY <3>2, <3>3, FS_Subset
    <3>5. Cardinality(U \cup {x}) \in Nat
      BY <3>3, FS_CardinalityType
    <3> QED
      BY <2>1, <3>1, <3>3, <3>4, <3>5
  <2> QED
    BY <2>2, <2>3
<1>3. /\ \E x : S \cap Beyond(B, c) \subseteq (S \cap Beyond(A, c)) \cup {x}
      /\ Matching(B) \ Matching(A) = {} => S \cap Beyond(B, c) \subseteq S \cap Beyond(A, c)
  <2>1. PICK x : Beyond(B, c) \subseteq Beyond(A, c) \cup {x}
    BY OffsetShift
  <2>2. S \cap Beyond(B, c) \subseteq (S \cap Beyond(A, c)) \cup {x}
    BY <2>1
  <2>3. Matching(B) \subseteq Matching(A) => Beyond(B, c) \subseteq Beyond(A, c)
    BY OffsetShift
  <2> QED
    BY <2>2, <2>3
<1>4. /\ \E x : (S \cap Matching(A)) \cap Upto(B, c) \subseteq (S \cap Upto(A, c)) \cup {x}
      /\ Matching(A) \ Matching(B) = {} =>
           (S \cap Matching(A)) \cap Upto(B, c) \subseteq S \cap Upto(A, c)
  <2>1. PICK x : Upto(B, c) \cap Matching(A) \subseteq Upto(A, c) \cup {x}
    BY OffsetShift
  <2>2. (S \cap Matching(A)) \cap Upto(B, c) \subseteq (S \cap Upto(A, c)) \cup {x}
    BY <2>1
  <2>3. Matching(A) \subseteq Matching(B) => Upto(B, c) \cap Matching(A) \subseteq Upto(A, c)
    BY OffsetShift
  <2> QED
    BY <2>2, <2>3
<1> QED
  BY <1>1, <1>2, <1>3, <1>4

-----------------------------------------------------------------------------
(* What a page is.                                                         *)

Limits == (1..MaxLimit) \cup {None}

\* The names with a rank after first, up to last.
Between(cards, first, last) ==
  {n \in Matching(cards) : first < Rank(cards, n) /\ Rank(cards, n) <= last}

\* There are as many of them as the interval has numbers.
LEMMA BetweenCount ==
  ASSUME NEW cards \in CardLists, NEW first \in Nat, NEW last \in Nat, first <= last,
         last <= Cardinality(Matching(cards))
  PROVE  Cardinality(Between(cards, first, last)) = last - first
<1> DEFINE S == Between(cards, first, last)
           T == first + 1 .. last
           f == [n \in S |-> Rank(cards, n)]
<1>1. S \in SUBSET Names /\ Cardinality(Matching(cards)) \in Nat
  BY CardsAt, FiniteNames DEF Between
<1>2. IsFiniteSet(S)
  BY <1>1, FiniteNames
<1>3. f \in Injection(S, T)
  <2>1. \A n \in S : Rank(cards, n) \in T
    BY RankOrder DEF Between
  <2>2. \A m, n \in S : Rank(cards, m) = Rank(cards, n) => m = n
    BY RankOrder DEF Between
  <2> QED
    BY <2>1, <2>2 DEF Injection, IsInjective
<1>4. f \in Surjection(S, T)
  <2>1. \A k \in T : \E n \in S : Rank(cards, n) = k
    <3>1. TAKE k \in T
    <3>2. k \in 1..Cardinality(Matching(cards))
      BY <1>1, <3>1
    <3>3. PICK n \in Matching(cards) : Rank(cards, n) = k
      BY <3>2, RankOnto
    <3>4. n \in S
      BY <3>1, <3>3 DEF Between
    <3> QED
      BY <3>3, <3>4
  <2> QED
    BY <1>3, <2>1 DEF Injection, Surjection
<1>5. Cardinality(T) = Cardinality(S)
  BY <1>2, <1>3, <1>4, FS_Bijection DEF Bijection, ExistsBijection
<1>6. Cardinality(T) = last - first
  <2>1. Cardinality(T) = IF first + 1 > last THEN 0 ELSE last - (first + 1) + 1
    BY FS_Interval
  <2> QED
    BY <2>1
<1> QED
  BY <1>5, <1>6

\* A page has the names from its offset to the next one, or to the end.
LEMMA PageIsInterval ==
  ASSUME NEW cards \in CardLists, NEW cursor \in Nat, NEW limit \in Limits
  PROVE  LET N     == Cardinality(Matching(cards))
             first == IF cursor > N THEN N ELSE cursor
             a     == Page(cards, cursor, limit)
         IN \E last \in Nat :
              /\ first <= last /\ last <= N
              /\ a = [ok |-> TRUE, cards |-> Between(cards, first, last), next |-> a.next]
              /\ (a.next = None /\ last = N) \/ (a.next = last /\ limit # None)
<1> DEFINE N     == Cardinality(Matching(cards))
           first == IF cursor > N THEN N ELSE cursor
           list  == Resolve(cards)
           rest  == SubSeq(list, first + 1, Len(list))
           a     == Page(cards, cursor, limit)
           goal  == \E last \in Nat :
                      /\ first <= last /\ last <= N
                      /\ a = [ok |-> TRUE, cards |-> Between(cards, first, last), next |-> a.next]
                      /\ (a.next = None /\ last = N) \/ (a.next = last /\ limit # None)
<1>1. /\ list \in Seq(Names) /\ Len(list) = N /\ N \in Nat /\ first \in 0..N
      /\ \A k \in 1..N : list[k] \in Matching(cards) /\ Rank(cards, list[k]) = k
      /\ \A n \in Matching(cards) : Rank(cards, n) \in 1..N /\ list[Rank(cards, n)] = n
  BY ResolveLists
<1>2. a = [ok |-> TRUE, cards |-> ToSet(Cut(rest, limit)), next |-> NextToken(rest, first, limit)]
  BY <1>1 DEF Page
<1> HIDE DEF list, a, N, first
<1>3. /\ rest \in Seq(Names) /\ Len(rest) = N - first
      /\ \A k \in 1..N - first : rest[k] = list[first + k]
  BY <1>1
<1> HIDE DEF rest
<1>4. /\ limit # None => limit \in Nat /\ limit > 0
      /\ None \notin Nat
  BY DirectoryAssumption DEF Limits
<1>5. ASSUME NEW s \in Seq(Names), Len(s) <= N - first, \A k \in 1..Len(s) : s[k] = list[first + k]
      PROVE  ToSet(s) = Between(cards, first, first + Len(s))
  <2>1. ToSet(s) = {s[k] : k \in 1..Len(s)}
    BY DEF ToSet
  <2>2. ASSUME NEW k \in 1..Len(s)
        PROVE  s[k] \in Between(cards, first, first + Len(s))
    <3>1. first + k \in 1..N /\ s[k] = list[first + k]
      BY <1>1, <1>5
    <3> QED
      BY <1>1, <3>1 DEF Between
  <2>3. ASSUME NEW n \in Between(cards, first, first + Len(s))
        PROVE  \E k \in 1..Len(s) : s[k] = n
    <3>1. n \in Matching(cards) /\ Rank(cards, n) \in 1..N /\ list[Rank(cards, n)] = n
      BY <1>1 DEF Between
    <3>2. Rank(cards, n) - first \in 1..Len(s) /\ first + (Rank(cards, n) - first) = Rank(cards, n)
      BY <1>1, <3>1 DEF Between
    <3>3. s[Rank(cards, n) - first] = n
      BY <1>5, <3>1, <3>2
    <3> QED
      BY <3>2, <3>3
  <2> QED
    BY <2>1, <2>2, <2>3
<1>6. ASSUME HasMore(rest, limit)
      PROVE  goal
  <2>1. limit # None /\ limit \in Nat /\ limit < N - first
    BY <1>3, <1>4, <1>6 DEF HasMore
  <2> DEFINE s == SubSeq(rest, 1, limit)
  <2>2. s \in Seq(Names) /\ Len(s) = limit /\ \A k \in 1..limit : s[k] = list[first + k]
    BY <1>1, <1>3, <2>1
  <2> HIDE DEF s
  <2>3. ToSet(s) = Between(cards, first, first + limit)
    BY <1>1, <1>5, <2>1, <2>2
  <2>4. a = [ok |-> TRUE, cards |-> Between(cards, first, first + limit), next |-> first + limit]
    BY <1>2, <1>6, <2>3 DEF Cut, NextToken, NextCursor, s
  <2>5. first + limit \in Nat /\ first <= first + limit /\ first + limit <= N
    BY <1>1, <2>1
  <2>6. a.next = first + limit
    BY <2>4
  <2> QED
    BY <2>1, <2>4, <2>5, <2>6
<1>7. ASSUME ~HasMore(rest, limit)
      PROVE  goal
  <2>1. ToSet(rest) = Between(cards, first, N)
    <3>1. ToSet(rest) = Between(cards, first, first + Len(rest))
      BY <1>1, <1>3, <1>5
    <3> QED
      BY <1>1, <1>3, <3>1
  <2>2. a = [ok |-> TRUE, cards |-> Between(cards, first, N), next |-> None]
    BY <1>2, <1>7, <2>1 DEF Cut, NextToken
  <2>3. N \in Nat /\ first <= N /\ N <= N
    BY <1>1
  <2>4. a.next = None
    BY <2>2
  <2>5. a = [ok |-> TRUE, cards |-> Between(cards, first, N), next |-> a.next]
    BY <2>2, <2>4
  <2> QED
    BY <2>3, <2>4, <2>5, Zenon
<1>8. goal
  BY <1>6, <1>7
<1> QED
  BY <1>8 DEF a, N, first

\* What a reader gains by the page at its cursor.
LEMMA PageGains ==
  ASSUME NEW cards \in CardLists, NEW cursor \in Nat, NEW limit \in Limits
  PROVE  LET a == Page(cards, cursor, limit)
             N == Cardinality(Matching(cards))
         IN /\ a \in Answer /\ a.ok
            /\ a.cards \subseteq Matching(cards) /\ a.cards \subseteq Beyond(cards, cursor)
            /\ a.next = None => Matching(cards) \subseteq Upto(cards, cursor) \cup a.cards
            /\ a.next # None =>
                 /\ a.next \in Nat /\ limit # None
                 /\ Upto(cards, a.next) \subseteq Upto(cards, cursor) \cup a.cards
                 /\ a.cards \cap Beyond(cards, a.next) = {}
                 /\ Beyond(cards, a.next) \subseteq Beyond(cards, cursor)
            /\ cursor <= N =>
                 /\ a.next = None => cursor + Cardinality(a.cards) = N
                 /\ a.next # None => cursor + Cardinality(a.cards) = a.next /\ a.next <= N
<1> DEFINE a     == Page(cards, cursor, limit)
           N     == Cardinality(Matching(cards))
           first == IF cursor > N THEN N ELSE cursor
<1>1. PICK last \in Nat :
        /\ first <= last /\ last <= N
        /\ a = [ok |-> TRUE, cards |-> Between(cards, first, last), next |-> a.next]
        /\ (a.next = None /\ last = N) \/ (a.next = last /\ limit # None)
  BY PageIsInterval
<1> HIDE DEF a
<1>2. N \in Nat /\ Matching(cards) \subseteq Names /\ None \notin Nat
  BY CardsAt, FiniteNames, DirectoryAssumption
<1>3. \A n \in Matching(cards) : Rank(cards, n) \in 1..N
  BY RankOrder
<1> HIDE DEF N
<1>4. a.ok /\ a.cards = Between(cards, first, last) /\ first \in 0..N
  <2>1. /\ a.ok = [ok |-> TRUE, cards |-> Between(cards, first, last), next |-> a.next].ok
        /\ a.cards = [ok |-> TRUE, cards |-> Between(cards, first, last), next |-> a.next].cards
    BY <1>1
  <2> QED
    BY <1>2, <2>1
<1>5. a.cards \subseteq Matching(cards) /\ a.cards \subseteq Beyond(cards, cursor)
  BY <1>1, <1>2, <1>3, <1>4 DEF Between, Beyond
<1>6. a \in Answer
  <2>1. a.cards \in SUBSET Names /\ a.next \in Nat \cup {None}
    BY <1>1, <1>2, <1>5
  <2> QED
    BY <1>1, <1>4, <2>1 DEF Answer
<1>7. a.next = None => Matching(cards) \subseteq Upto(cards, cursor) \cup a.cards
  BY <1>1, <1>2, <1>3, <1>4 DEF Between, Upto
<1>8. ASSUME a.next # None
      PROVE  /\ a.next \in Nat /\ limit # None
             /\ Upto(cards, a.next) \subseteq Upto(cards, cursor) \cup a.cards
             /\ a.cards \cap Beyond(cards, a.next) = {}
             /\ Beyond(cards, a.next) \subseteq Beyond(cards, cursor)
  BY <1>1, <1>2, <1>3, <1>4, <1>8 DEF Between, Upto, Beyond
<1>9. ASSUME cursor <= N
      PROVE  /\ a.next = None => cursor + Cardinality(a.cards) = N
             /\ a.next # None => cursor + Cardinality(a.cards) = a.next /\ a.next <= N
  <2>1. Cardinality(Between(cards, first, last)) = last - first /\ first = cursor
    BY <1>1, <1>2, <1>4, <1>9, BetweenCount DEF N
  <2> QED
    BY <1>1, <1>2, <1>4, <2>1
<1> QED
  BY <1>4, <1>5, <1>6, <1>7, <1>8, <1>9 DEF a, N

-----------------------------------------------------------------------------
(* The inductive invariant.                                                *)

\* The names listed before position c, and those from there on; None is the end.
Behind(cards, c) == IF c = None THEN Matching(cards) ELSE Upto(cards, c)

Ahead(cards, c) == IF c = None THEN {} ELSE Beyond(cards, c)

\* The reading r of the listing cards, at position c with the names of seen and the
\* given repeats: what it missed so far, and what it is going to see again, has its
\* cause in the changes; without one it is where it has counted to.
Ledger(cards, o, r, seen, repeats, c) ==
  /\ o => /\ Cardinality((r.kept \ seen) \cap Behind(cards, c)) <= r.removed
          /\ repeats + Cardinality(seen \cap Ahead(cards, c)) <= r.added
  /\ r.removed = 0 /\ r.added = 0 =>
       /\ r.kept = Matching(cards)
       /\ c = None => Cardinality(seen) + repeats = Cardinality(Matching(cards))
       /\ c # None => Cardinality(seen) + repeats = c /\ c <= Cardinality(Matching(cards))
  /\ r.limit = None => c = 0 \/ (c = None /\ r.kept \subseteq seen)

\* The ledger is right where the client is, and where the answer on its way takes it.
ReadingOK(cards, o, r) ==
  /\ r.kept \subseteq Matching(cards)
  /\ o => r.repeats <= r.added
  /\ r.via = None => r.pc \in {"idle", "done"} /\ r.kept = {} /\ r.repeats = 0 /\ r.seen = {}
                     /\ r.removed = 0 /\ r.added = 0
  /\ r.pc = "idle" => r = Newcomer
  /\ r.misled => r.pc = "done"
  /\ r.pc \notin {"idle", "done"} /\ r.cursor # Garbled =>
       Ledger(cards, o, r, r.seen, r.repeats, r.cursor)
  /\ r.pc = "done" /\ r.via # None /\ ~r.misled =>
       Ledger(cards, o, r, r.seen, r.repeats, None)
  /\ r.pc = "answered" /\ r.answer.ok =>
       Ledger(cards, o, r, r.seen \cup r.answer.cards,
              r.repeats + Cardinality(r.seen \cap r.answer.cards), r.answer.next)
  /\ r.pc = "answered" /\ ~r.answer.ok => r.answer = Refusal

\* How far ListenAndServe is, and what it lets in.
ServerOK ==
  /\ server.main \in {"shutdown", "drained", "expired"} => server.cancelled /\ server.listener # "open"
  /\ server.listener = "closed" => server.cancelled /\ server.main # "select"
  /\ server.exited => server.listener \in {"closed", "failed"}
  /\ server.main = "returned" => server.exited
  /\ server.main = "drained" => InFlight = 0
  /\ server.result = "nil" =>
       server.main = "returned" /\ server.listener = "closed" /\ InFlight = 0

DirectoryInv == TypeOK /\ ReadingOK(registry, ordered, reader) /\ ServerOK

-----------------------------------------------------------------------------
(* The ledger.                                                             *)

\* The fields of a reader.
LEMMA ReaderFields ==
  ASSUME NEW r \in Reader
  PROVE  /\ r.pc \in {"idle", "sent", "accepted", "answered", "more", "told", "done"}
         /\ r.via \in {"http", "process", None} /\ r.limit \in Limits
         /\ r.cursor \in Nat \cup {Garbled} /\ r.answer \in Answer
         /\ r.seen \in SUBSET Names /\ r.repeats \in Nat /\ r.misled \in BOOLEAN
         /\ r.retries \in 0..MaxRetries /\ r.kept \in SUBSET Names
         /\ r.removed \in Nat /\ r.added \in Nat
BY DEF Reader, Limits

\* Sets of names, and their sizes.
LEMMA NamesCount ==
  ASSUME NEW S \in SUBSET Names, NEW T \in SUBSET Names
  PROVE  /\ Cardinality(S) \in Nat /\ (Cardinality(S) = 0 <=> S = {})
         /\ S \subseteq T => Cardinality(S) <= Cardinality(T)
         /\ Cardinality(S \cup T) + Cardinality(S \cap T) = Cardinality(S) + Cardinality(T)
<1>1. /\ IsFiniteSet(S) /\ IsFiniteSet(T) /\ IsFiniteSet(S \cup T)
      /\ Cardinality(S) \in Nat /\ Cardinality(T) \in Nat /\ Cardinality(S \cap T) \in Nat
  <2>1. S \cup T \in SUBSET Names /\ S \cap T \in SUBSET Names
    OBVIOUS
  <2> QED
    BY <2>1, FiniteNames
<1>2. Cardinality(S) = 0 <=> S = {}
  BY <1>1, FS_EmptySet
<1>3. S \subseteq T => Cardinality(S) <= Cardinality(T)
  BY <1>1, FS_Subset
<1>4. Cardinality(S \cup T) = Cardinality(S) + Cardinality(T) - Cardinality(S \cap T)
  BY <1>1, FS_Union
<1> QED
  BY <1>1, <1>2, <1>3, <1>4

\* A page goes into the ledger, whichever listing it was cut from.
LEMMA LedgerPage ==
  ASSUME NEW cards \in CardLists, NEW o \in BOOLEAN, NEW r \in Reader,
         r.kept \subseteq Matching(cards), r.cursor \in Nat,
         NEW list \in CardLists, Matching(list) = Matching(cards), o => list = cards,
         Ledger(cards, o, r, r.seen, r.repeats, r.cursor)
  PROVE  LET a == Page(list, r.cursor, r.limit)
         IN  /\ a \in Answer /\ a.ok
             /\ Ledger(cards, o, r, r.seen \cup a.cards,
                       r.repeats + Cardinality(r.seen \cap a.cards), a.next)
<1> DEFINE a == Page(list, r.cursor, r.limit)
<1>1. /\ r.limit \in Limits /\ r.seen \in SUBSET Names /\ r.repeats \in Nat
      /\ r.kept \in SUBSET Names /\ r.removed \in Nat /\ r.added \in Nat
  BY ReaderFields
<1>2. None \notin Nat
  BY DirectoryAssumption
<1>3. /\ a \in Answer /\ a.ok
      /\ a.cards \subseteq Matching(list) /\ a.cards \subseteq Beyond(list, r.cursor)
      /\ a.next = None => Matching(list) \subseteq Upto(list, r.cursor) \cup a.cards
      /\ a.next # None =>
           /\ a.next \in Nat /\ r.limit # None
           /\ Upto(list, a.next) \subseteq Upto(list, r.cursor) \cup a.cards
           /\ a.cards \cap Beyond(list, a.next) = {}
           /\ Beyond(list, a.next) \subseteq Beyond(list, r.cursor)
      /\ r.cursor <= Cardinality(Matching(list)) =>
           /\ a.next = None => r.cursor + Cardinality(a.cards) = Cardinality(Matching(list))
           /\ a.next # None => /\ r.cursor + Cardinality(a.cards) = a.next
                               /\ a.next <= Cardinality(Matching(list))
  BY <1>1, PageGains
<1>4. a.cards \in SUBSET Names /\ Matching(cards) \in SUBSET Names
  BY <1>3, CardsAt
<1>5. r.cursor # None
  BY <1>2
<1> HIDE DEF a
<1>6. ASSUME o
      PROVE  /\ Cardinality((r.kept \ (r.seen \cup a.cards)) \cap Behind(cards, a.next)) <= r.removed
             /\ r.repeats + Cardinality(r.seen \cap a.cards)
                  + Cardinality((r.seen \cup a.cards) \cap Ahead(cards, a.next)) <= r.added
  <2>1. /\ Cardinality((r.kept \ r.seen) \cap Upto(cards, r.cursor)) <= r.removed
        /\ r.repeats + Cardinality(r.seen \cap Beyond(cards, r.cursor)) <= r.added
    BY <1>5, <1>6 DEF Ledger, Behind, Ahead
  <2>2. list = cards
    BY <1>6
  <2> DEFINE M == (r.kept \ (r.seen \cup a.cards)) \cap Behind(cards, a.next)
             K == (r.kept \ r.seen) \cap Upto(cards, r.cursor)
             P == r.seen \cap a.cards
             Q == (r.seen \cup a.cards) \cap Ahead(cards, a.next)
             R == r.seen \cap Beyond(cards, r.cursor)
  <2>3. M \subseteq K
    BY <1>3, <2>2 DEF Behind
  <2>4. /\ M \in SUBSET Names /\ K \in SUBSET Names /\ P \in SUBSET Names
        /\ Q \in SUBSET Names /\ R \in SUBSET Names
    BY <1>1, <1>4
  <2>5. P \cup Q \subseteq R /\ P \cap Q = {}
    BY <1>3, <2>2 DEF Ahead
  <2> HIDE DEF M, K, P, Q, R
  <2>6. Cardinality(M) <= Cardinality(K) /\ Cardinality(M) \in Nat /\ Cardinality(K) \in Nat
    BY <2>3, <2>4, NamesCount
  <2>7. /\ Cardinality(P \cup Q) <= Cardinality(R) /\ Cardinality(P \cap Q) = 0
        /\ Cardinality(P \cup Q) + Cardinality(P \cap Q) = Cardinality(P) + Cardinality(Q)
        /\ Cardinality(P) \in Nat /\ Cardinality(Q) \in Nat /\ Cardinality(R) \in Nat
        /\ Cardinality(P \cup Q) \in Nat
    <3>1. P \cup Q \in SUBSET Names /\ P \cap Q \in SUBSET Names
      BY <2>4
    <3>2. Cardinality(P \cup Q) + Cardinality(P \cap Q) = Cardinality(P) + Cardinality(Q)
      BY <2>4, NamesCount
    <3> QED
      BY <2>4, <2>5, <3>1, <3>2, NamesCount
  <2>8. Cardinality(M) <= r.removed
    BY <1>1, <2>1, <2>6 DEF K
  <2>9. r.repeats + Cardinality(P) + Cardinality(Q) <= r.added
    BY <1>1, <2>1, <2>7 DEF R
  <2> QED
    BY <2>8, <2>9 DEF M, P, Q
<1>7. ASSUME r.removed = 0, r.added = 0
      PROVE  LET seen == r.seen \cup a.cards
                 repeats == r.repeats + Cardinality(r.seen \cap a.cards)
                 N == Cardinality(Matching(cards))
             IN /\ r.kept = Matching(cards)
                /\ a.next = None => Cardinality(seen) + repeats = N
                /\ a.next # None => Cardinality(seen) + repeats = a.next /\ a.next <= N
  <2>1. /\ r.kept = Matching(cards)
        /\ Cardinality(r.seen) + r.repeats = r.cursor /\ r.cursor <= Cardinality(Matching(cards))
    BY <1>5, <1>7 DEF Ledger
  <2>2. Cardinality(r.seen \cup a.cards) + Cardinality(r.seen \cap a.cards) =
          Cardinality(r.seen) + Cardinality(a.cards)
    BY <1>1, <1>4, NamesCount
  <2>3. /\ Cardinality(r.seen \cup a.cards) \in Nat /\ Cardinality(r.seen \cap a.cards) \in Nat
        /\ Cardinality(r.seen) \in Nat /\ Cardinality(a.cards) \in Nat
        /\ Cardinality(Matching(cards)) \in Nat
    <3>1. r.seen \cup a.cards \in SUBSET Names /\ r.seen \cap a.cards \in SUBSET Names
      BY <1>1, <1>4
    <3> QED
      BY <1>1, <1>4, <3>1, FiniteNames
  <2>4. /\ a.next = None => r.cursor + Cardinality(a.cards) = Cardinality(Matching(cards))
        /\ a.next # None => r.cursor + Cardinality(a.cards) = a.next
                            /\ a.next <= Cardinality(Matching(cards))
    BY <1>3, <2>1
  <2>5. Cardinality(r.seen \cup a.cards) + (r.repeats + Cardinality(r.seen \cap a.cards)) =
          r.cursor + Cardinality(a.cards)
    BY <1>1, <2>1, <2>2, <2>3
  <2> QED
    BY <2>1, <2>4, <2>5
<1>8. r.limit = None => a.next = None /\ r.kept \subseteq r.seen \cup a.cards
  <2>1. SUFFICES ASSUME r.limit = None
                 PROVE  a.next = None /\ r.kept \subseteq r.seen \cup a.cards
    OBVIOUS
  <2>2. a.next = None /\ r.cursor = 0
    BY <1>3, <1>5, <2>1 DEF Ledger
  <2>3. Upto(list, 0) = {}
    BY RankOrder DEF Upto
  <2> QED
    BY <1>3, <2>2, <2>3
<1>9. Ledger(cards, o, r, r.seen \cup a.cards, r.repeats + Cardinality(r.seen \cap a.cards), a.next)
  BY <1>6, <1>7, <1>8 DEF Ledger
<1> QED
  BY <1>3, <1>9 DEF a

\* The reader r after the cards changed from A to B.
Told(A, B, r) == [r EXCEPT !.kept = @ \cap Matching(B),
                           !.removed = @ + Cardinality(Matching(A) \ Matching(B)),
                           !.added = @ + Cardinality(Matching(B) \ Matching(A))]

\* A change is in the ledger too.
LEMMA LedgerChange ==
  ASSUME NEW A \in CardLists, NEW B \in CardLists, NEW n, Alike(n, A, B),
         NEW o \in BOOLEAN, NEW r \in Reader, r.kept \subseteq Matching(A),
         NEW seen \in SUBSET Names, NEW repeats \in Nat, NEW c \in Nat \cup {None},
         Ledger(A, o, r, seen, repeats, c)
  PROVE  Ledger(B, o, Told(A, B, r), seen, repeats, c)
<1> DEFINE q == Told(A, B, r)
           out == Cardinality(Matching(A) \ Matching(B))
           in == Cardinality(Matching(B) \ Matching(A))
<1>1. r.kept \in SUBSET Names /\ r.removed \in Nat /\ r.added \in Nat
  BY ReaderFields
<1>2. /\ q.kept = r.kept \cap Matching(B) /\ q.removed = r.removed + out /\ q.added = r.added + in
      /\ q.limit = r.limit
  BY DEF Told, Reader
<1>3. Matching(A) \in SUBSET Names /\ Matching(B) \in SUBSET Names
  BY CardsAt
<1>4. /\ out \in Nat /\ in \in Nat
      /\ out = 0 => Matching(A) \subseteq Matching(B)
      /\ in = 0 => Matching(B) \subseteq Matching(A)
  <2>1. Matching(A) \ Matching(B) \in SUBSET Names /\ Matching(B) \ Matching(A) \in SUBSET Names
    BY <1>3
  <2>2. out = 0 => Matching(A) \ Matching(B) = {}
    BY <2>1, NamesCount
  <2>3. in = 0 => Matching(B) \ Matching(A) = {}
    BY <2>1, NamesCount
  <2> QED
    BY <2>1, <2>2, <2>3, FiniteNames
<1>5. None \notin Nat
  BY DirectoryAssumption
<1> HIDE DEF q, out, in
<1>6. ASSUME o
      PROVE  /\ Cardinality((q.kept \ seen) \cap Behind(B, c)) <= q.removed
             /\ repeats + Cardinality(seen \cap Ahead(B, c)) <= q.added
  <2>1. /\ Cardinality((r.kept \ seen) \cap Behind(A, c)) <= r.removed
        /\ repeats + Cardinality(seen \cap Ahead(A, c)) <= r.added
    BY <1>6 DEF Ledger
  <2> DEFINE M == (q.kept \ seen) \cap Behind(B, c)
             K == (r.kept \ seen) \cap Behind(A, c)
             Q == seen \cap Ahead(B, c)
             R == seen \cap Ahead(A, c)
  <2>2. /\ M \in SUBSET Names /\ K \in SUBSET Names /\ Q \in SUBSET Names /\ R \in SUBSET Names
    BY <1>1, <1>2
  <2>3. /\ Cardinality(M) \in Nat /\ Cardinality(K) \in Nat
        /\ Cardinality(Q) \in Nat /\ Cardinality(R) \in Nat
    BY <2>2, FiniteNames
  <2>4. CASE c = None
    <3>1. M \subseteq K /\ Q = R
      BY <1>2, <2>4 DEF Behind, Ahead
    <3> HIDE DEF M, K, Q, R
    <3>2. Cardinality(M) <= Cardinality(K) /\ Cardinality(Q) = Cardinality(R)
      BY <2>2, <3>1, NamesCount
    <3>3. Cardinality(M) <= q.removed
      BY <1>1, <1>2, <1>4, <2>1, <2>3, <3>2 DEF K
    <3>4. repeats + Cardinality(Q) <= q.added
      BY <1>1, <1>2, <1>4, <2>1, <2>3, <3>2 DEF R
    <3> QED
      BY <3>3, <3>4 DEF M, Q
  <2>5. CASE c # None
    <3>1. c \in Nat
      BY <2>5
    <3> DEFINE S == r.kept \ seen
               J == (S \cap Matching(A)) \cap Upto(B, c)
    <3>2. M \subseteq J /\ J \in SUBSET Names /\ S \in SUBSET Names
      BY <1>1, <1>2, <2>5 DEF Behind
    <3>3. /\ K = S \cap Upto(A, c)
          /\ Q = seen \cap Beyond(B, c) /\ R = seen \cap Beyond(A, c)
      BY <2>5 DEF Behind, Ahead
    <3> HIDE DEF M, K, Q, R, S
    <3>4. Cardinality(M) <= Cardinality(J) /\ Cardinality(J) \in Nat
      BY <2>2, <3>2, NamesCount
    <3>5. Cardinality(J) <= Cardinality(K) + out
      BY <3>1, <3>2, <3>3, OffsetCost DEF out
    <3>6. Cardinality(Q) <= Cardinality(R) + in
      BY <3>1, <3>3, OffsetCost DEF in
    <3>7. Cardinality(M) <= q.removed
      BY <1>1, <1>2, <1>4, <2>1, <2>3, <3>4, <3>5 DEF K
    <3>8. repeats + Cardinality(Q) <= q.added
      BY <1>1, <1>2, <1>4, <2>1, <2>3, <3>6 DEF R
    <3> QED
      BY <3>7, <3>8 DEF M, Q
  <2> QED
    BY <2>4, <2>5
<1>7. ASSUME q.removed = 0, q.added = 0
      PROVE  /\ q.kept = Matching(B)
             /\ c = None => Cardinality(seen) + repeats = Cardinality(Matching(B))
             /\ c # None => Cardinality(seen) + repeats = c /\ c <= Cardinality(Matching(B))
  <2>1. r.removed = 0 /\ r.added = 0 /\ out = 0 /\ in = 0
    <3>1. r.removed + out = 0 /\ r.added + in = 0
      BY <1>2, <1>7
    <3>2. \A k, l \in Nat : k + l = 0 => k = 0 /\ l = 0
      OBVIOUS
    <3> QED
      BY <1>1, <1>4, <3>1, <3>2
  <2>2. Matching(A) = Matching(B)
    BY <1>4, <2>1
  <2> QED
    BY <1>2, <2>1, <2>2 DEF Ledger
<1>8. q.limit = None => c = 0 \/ (c = None /\ q.kept \subseteq seen)
  BY <1>2 DEF Ledger
<1> QED
  BY <1>6, <1>7, <1>8 DEF Ledger, q

-----------------------------------------------------------------------------
(* The steps of the client.                                                *)

\* Every listing of the registry has its cards, in its order where it has one.
LEMMA ListingsAreLists ==
  ASSUME registry \in CardLists, ordered \in BOOLEAN, NEW cards \in Listings
  PROVE  cards \in CardLists /\ Matching(cards) = Matching(registry) /\ (ordered => cards = registry)
<1>1. CASE ordered
  BY <1>1 DEF Listings
<1>2. CASE ~ordered
  <2> DEFINE S == ToSet(registry)
             D == 1..Cardinality(S)
  <2>1. S = {registry[i] : i \in 1..Len(registry)} /\ S \subseteq Card
    BY CardsAt DEF ToSet
  <2>2. IsFiniteSet(S) /\ Cardinality(S) \in Nat
    <3>1. registry \in Surjection(1..Len(registry), S)
      <4>1. registry \in [1..Len(registry) -> Card]
        BY CardsAt
      <4>2. registry \in [1..Len(registry) -> S]
        BY <2>1, <4>1
      <4>3. \A c \in S : \E i \in 1..Len(registry) : registry[i] = c
        BY <2>1
      <4> HIDE DEF S
      <4> QED
        BY <4>2, <4>3 DEF Surjection
    <3>2. IsFiniteSet(1..Len(registry))
      <4>1. Len(registry) \in Nat
        BY CardsAt
      <4> QED
        BY <4>1, FS_Interval
    <3>3. IsFiniteSet(S)
      BY <3>1, <3>2, FS_Surjection
    <3> QED
      BY <3>3, FS_CardinalityType
  <2>3. cards \in [D -> S] /\ \A i, j \in D : i # j => cards[i] # cards[j]
    BY <1>2 DEF Listings, SetToSeqs
  <2> HIDE DEF S
  <2>4. cards \in Surjection(D, S)
    <3>1. cards \in Injection(D, S)
      BY <2>3 DEF Injection, IsInjective
    <3>2. IsFiniteSet(D) /\ Cardinality(D) = Cardinality(S)
      BY <2>2, FS_Interval
    <3> HIDE DEF D
    <3> QED
      BY <2>2, <3>1, <3>2, FS_Injection
  <2>5. \A c, d \in S : c.name = d.name => c = d
    BY <2>1, CardsAt
  <2>6. cards \in Seq(Card) /\ DOMAIN cards = D
    BY <2>1, <2>2, <2>3
  <2>7. cards \in CardLists
    <3>1. ASSUME NEW i \in D, NEW j \in D, cards[i].name = cards[j].name
          PROVE  i = j
      <4>1. cards[i] \in S /\ cards[j] \in S
        BY <2>3
      <4> QED
        BY <2>3, <2>5, <3>1, <4>1
    <3> QED
      BY <2>6, <3>1 DEF CardLists, IsInjective, NamesOf
  <2>8. Matching(cards) = {c.name : c \in {c \in S : c.matches}}
    <3>1. \A i \in D : cards[i] \in S
      BY <2>3
    <3>2. \A c \in S : \E i \in D : cards[i] = c
      BY <2>4 DEF Surjection
    <3> HIDE DEF D
    <3> QED
      BY <2>6, <3>1, <3>2 DEF Matching, Found
  <2>9. Matching(registry) = {c.name : c \in {c \in S : c.matches}}
    BY <2>1, CardsAt DEF Matching, Found
  <2> QED
    BY <1>2, <2>7, <2>8, <2>9
<1> QED
  BY <1>1, <1>2

\* The ledger looks at four fields of the reader.
LEMMA LedgerFields ==
  ASSUME NEW cards, NEW o, NEW r, NEW q, NEW seen, NEW repeats, NEW c,
         q.kept = r.kept, q.removed = r.removed, q.added = r.added, q.limit = r.limit,
         Ledger(cards, o, r, seen, repeats, c)
  PROVE  Ledger(cards, o, q, seen, repeats, c)
BY DEF Ledger

\* What ServeHTTP answers is a page that the ledger accounts for, or a refusal.
LEMMA ServedOK ==
  ASSUME registry \in CardLists, ordered \in BOOLEAN, NEW r \in Reader,
         r.kept \subseteq Matching(registry),
         r.cursor # Garbled => Ledger(registry, ordered, r, r.seen, r.repeats, r.cursor),
         NEW a \in ServeHTTP(r)
  PROVE  /\ a \in Answer
         /\ a.ok => Ledger(registry, ordered, r, r.seen \cup a.cards,
                           r.repeats + Cardinality(r.seen \cap a.cards), a.next)
         /\ ~a.ok => a = Refusal
<1>1. Refusal \in Answer /\ ~Refusal.ok
  BY DEF Refusal, Answer
<1>2. CASE a = Refusal
  BY <1>1, <1>2
<1>3. CASE a # Refusal
  <2>1. r.cursor # Garbled /\ r.cursor \in Nat
    BY <1>3, ReaderFields DEF ServeHTTP
  <2>2. PICK cards \in Listings : a = Page(cards, r.cursor, r.limit)
    BY <1>3, <2>1 DEF ServeHTTP
  <2>3. cards \in CardLists /\ Matching(cards) = Matching(registry) /\ (ordered => cards = registry)
    BY ListingsAreLists
  <2> QED
    BY <2>1, <2>2, <2>3, LedgerPage
<1> QED
  BY <1>2, <1>3

\* A page turned, or an error taken for one (m).
LEMMA TurnOK ==
  ASSUME NEW cards \in CardLists, NEW o \in BOOLEAN, NEW r \in Reader, ReadingOK(cards, o, r),
         r.via # None, NEW a \in Answer, NEW m \in BOOLEAN,
         m => a = Refusal,
         ~m => Ledger(cards, o, r, r.seen \cup a.cards, r.repeats + Cardinality(r.seen \cap a.cards), a.next),
         NEW q, q = [Turn(r, a) EXCEPT !.misled = m]
  PROVE  q \in Reader /\ ReadingOK(cards, o, q) /\ q.pc \in {"done", "more"}
<1>1. /\ r.via \in {"http", "process", None} /\ r.limit \in Limits
      /\ r.cursor \in Nat \cup {Garbled} /\ r.answer \in Answer
      /\ r.seen \in SUBSET Names /\ r.repeats \in Nat
      /\ r.retries \in 0..MaxRetries /\ r.kept \in SUBSET Names
      /\ r.removed \in Nat /\ r.added \in Nat
  BY ReaderFields
<1>2. a.cards \in SUBSET Names /\ a.next \in Nat \cup {None} /\ a.ok \in BOOLEAN
  BY DEF Answer
<1>3. Cardinality(r.seen \cap a.cards) \in Nat
  BY <1>1, FiniteNames
<1>4. /\ q.pc = IF a.next = None THEN "done" ELSE "more"
      /\ q.cursor = IF a.next = None THEN r.cursor ELSE a.next
      /\ q.seen = r.seen \cup a.cards /\ q.repeats = r.repeats + Cardinality(r.seen \cap a.cards)
      /\ q.answer = Refusal /\ q.misled = m
      /\ q.via = r.via /\ q.limit = r.limit /\ q.retries = r.retries
      /\ q.kept = r.kept /\ q.removed = r.removed /\ q.added = r.added
      /\ q = [pc |-> q.pc, via |-> q.via, limit |-> q.limit, cursor |-> q.cursor,
              answer |-> q.answer, seen |-> q.seen, repeats |-> q.repeats, misled |-> q.misled,
              retries |-> q.retries, kept |-> q.kept, removed |-> q.removed, added |-> q.added]
  BY DEF Turn, Reader
<1>5. q \in Reader
  <2>1. /\ q.pc \in {"idle", "sent", "accepted", "answered", "more", "told", "done"}
        /\ q.cursor \in Nat \cup {Garbled} /\ q.seen \in SUBSET Names /\ q.repeats \in Nat
        /\ Refusal \in Answer
    BY <1>1, <1>2, <1>3, <1>4 DEF Refusal, Answer
  <2>2. q.limit \in (1..MaxLimit) \cup {None}
    BY <1>1, <1>4 DEF Limits
  <2> QED
    BY <1>1, <1>4, <2>1, <2>2 DEF Reader
<1>6. ~m => Ledger(cards, o, q, q.seen, q.repeats, a.next)
  BY <1>4, LedgerFields
<1>7. q.kept \subseteq Matching(cards)
  BY <1>4 DEF ReadingOK
<1>8. o => q.repeats <= q.added
  <2>1. CASE m
    <3>1. Cardinality(r.seen \cap a.cards) = 0
      BY <2>1, FS_EmptySet DEF Refusal
    <3> QED
      BY <1>1, <1>4, <3>1 DEF ReadingOK
  <2>2. CASE ~m
    <3>1. o => q.repeats + Cardinality(q.seen \cap Ahead(cards, a.next)) <= q.added
      BY <1>6, <2>2 DEF Ledger
    <3>2. Cardinality(q.seen \cap Ahead(cards, a.next)) \in Nat
      BY <1>1, <1>2, <1>4, FiniteNames
    <3>3. q.repeats \in Nat /\ q.added \in Nat
      BY <1>1, <1>3, <1>4
    <3> QED
      BY <3>1, <3>2, <3>3
  <2> QED
    BY <2>1, <2>2
<1>9. m => a.next = None
  BY DEF Refusal
<1> QED
  BY <1>4, <1>5, <1>6, <1>7, <1>8, <1>9 DEF ReadingOK

\* The listing of a registry, by its type.
LEMMA RegistryType ==
  ASSUME TypeOK
  PROVE  registry \in CardLists /\ Wanted(registry) = Matching(registry)
<1>1. registry \in CardLists
  BY DEF TypeOK, CardLists
<1> QED
  BY <1>1, ResolveLists

\* Only what it is about changes whether a reading is right.
LEMMA ReadingNext == ReadingOK(registry, ordered, reader)' <=> ReadingOK(registry', ordered', reader')
  BY DEF ReadingOK, Ledger, Behind, Ahead, Upto, Beyond, Matching, Found, Rank, Prior

\* A step of the client leaves the server alone, and lets a request in only while
\* the listener is open.
LEMMA ReaderMoves ==
  ASSUME DirectoryInv, reader' \in Reader, ReadingOK(registry, ordered, reader'),
         UNCHANGED <<ordered, registry, server, changes>>, others' \in 0..MaxOthers,
         \/ InFlight' = InFlight
         \/ InFlight # 0
         \/ server.listener = "open"
  PROVE  DirectoryInv'
<1>1. TypeOK'
  BY DEF DirectoryInv, TypeOK
<1>2. ReadingOK(registry, ordered, reader)'
  BY ReadingNext
<1>3. ServerOK'
  BY DEF DirectoryInv, ServerOK
<1> QED
  BY <1>1, <1>2, <1>3 DEF DirectoryInv

\* A reader that only moves on, with a cursor where the ledger is right.
LEMMA MovesOn ==
  ASSUME NEW cards \in CardLists, NEW o \in BOOLEAN, NEW r \in Reader, ReadingOK(cards, o, r),
         r.via # None, r.pc \notin {"idle", "done"},
         NEW step \in {"sent", "accepted", "told"}, NEW retries \in 0..MaxRetries,
         NEW a \in Answer, NEW q,
         q = [r EXCEPT !.pc = step, !.retries = retries, !.answer = a]
  PROVE  q \in Reader /\ ReadingOK(cards, o, q)
<1>1. /\ q.pc = step /\ q.cursor = r.cursor /\ q.seen = r.seen /\ q.repeats = r.repeats
      /\ q.via = r.via /\ q.limit = r.limit
      /\ q.kept = r.kept /\ q.removed = r.removed /\ q.added = r.added
  BY DEF Reader
<1>2. q \in Reader
  BY DEF Reader
<1>3. q.cursor # Garbled => Ledger(cards, o, q, q.seen, q.repeats, q.cursor)
  BY <1>1, LedgerFields DEF ReadingOK
<1> QED
  BY <1>1, <1>2, <1>3 DEF ReadingOK

\* The first call.
LEMMA DiscoverKeeps ==
  ASSUME DirectoryInv, Discover
  PROVE  DirectoryInv'
<1>1. /\ registry \in CardLists /\ Wanted(registry) = Matching(registry) /\ ordered \in BOOLEAN
      /\ reader = Newcomer /\ reader \in Reader /\ others \in 0..MaxOthers
  BY RegistryType DEF DirectoryInv, TypeOK, Discover, At, ReadingOK
<1>2. PICK via \in {"http", "process", None}, limit \in (0..MaxLimit) \cup {None}, cursor \in {0, Garbled} :
        /\ via # None => limit # 0
        /\ reader' = IF via = None THEN [reader EXCEPT !.pc = "done"]
                     ELSE [reader EXCEPT !.pc = "sent", !.via = via, !.limit = limit,
                                         !.cursor = cursor, !.kept = Wanted(registry)]
  <2>1. PICK explicit \in {"valid", "invalid", "none"}, default \in {"valid", "invalid", "none"},
             hosted \in BOOLEAN, limit \in (0..MaxLimit) \cup {None}, cursor \in {0, Garbled} :
          LET via == IF limit = 0 THEN None ELSE Source(explicit, hosted, default) IN
          reader' = IF via = None THEN [reader EXCEPT !.pc = "done"]
                    ELSE [reader EXCEPT !.pc = "sent", !.via = via, !.limit = limit,
                                        !.cursor = cursor, !.kept = Wanted(registry)]
    BY Zenon DEF Discover
  <2> DEFINE via == IF limit = 0 THEN None ELSE Source(explicit, hosted, default)
  <2>2. via \in {"http", "process", None} /\ (via # None => limit # 0)
    BY DEF Source
  <2> QED
    BY <2>1, <2>2
<1>3. /\ UNCHANGED <<ordered, registry, server, others, changes>>
      /\ reader.pc = "idle"
  BY DEF Discover, At
<1> DEFINE q == reader'
<1>4. CASE via = None
  <2>1. q = [Newcomer EXCEPT !.pc = "done"]
    BY <1>1, <1>2, <1>4
  <2>2. q \in Reader
    BY <1>1, <2>1 DEF Reader
  <2>3. ReadingOK(registry, ordered, q)
    BY <2>1 DEF ReadingOK, Newcomer
  <2>4. InFlight' = InFlight
    BY <1>1, <1>3, <2>1 DEF InFlight, At, Newcomer
  <2> QED
    BY <1>1, <1>3, <2>2, <2>3, <2>4, ReaderMoves
<1>5. CASE via # None
  <2>1. q = [Newcomer EXCEPT !.pc = "sent", !.via = via, !.limit = limit,
                             !.cursor = cursor, !.kept = Matching(registry)]
    BY <1>1, <1>2, <1>5
  <2>2. /\ q.pc = "sent" /\ q.via = via /\ q.limit = limit /\ q.cursor = cursor
        /\ q.kept = Matching(registry) /\ q.seen = {} /\ q.repeats = 0 /\ q.removed = 0 /\ q.added = 0
        /\ q.misled = FALSE
    BY <2>1 DEF Newcomer
  <2>3. q \in Reader
    <3>1. limit \in (1..MaxLimit) \cup {None} /\ Matching(registry) \in SUBSET Names
      BY <1>1, <1>2, <1>5, CardsAt, DirectoryAssumption
    <3>2. cursor \in Nat \cup {Garbled}
      OBVIOUS
    <3>3. q = [reader EXCEPT !.pc = "sent", !.via = via, !.limit = limit,
                             !.cursor = cursor, !.kept = Matching(registry)]
      BY <1>1, <2>1
    <3>4. reader \in Reader /\ via \in {"http", "process"}
      BY <1>1, <1>5
    <3> HIDE DEF q
    <3> QED
      BY <3>1, <3>2, <3>3, <3>4 DEF Reader
  <2>4. q.cursor # Garbled => Ledger(registry, ordered, q, q.seen, q.repeats, q.cursor)
    <3>1. SUFFICES ASSUME q.cursor = 0
                   PROVE  Ledger(registry, ordered, q, {}, 0, 0)
      BY <2>2
    <3>2. Upto(registry, 0) = {}
      BY <1>1, RankOrder DEF Upto
    <3>3. None # 0
      BY DirectoryAssumption
    <3>4. /\ (q.kept \ {}) \cap Behind(registry, 0) = {} /\ {} \cap Ahead(registry, 0) = {}
          /\ Cardinality({}) = 0
      BY <3>2, <3>3, FS_EmptySet DEF Behind
    <3>5. Cardinality(Matching(registry)) \in Nat
      BY <1>1, CardsAt, FiniteNames
    <3> HIDE DEF q
    <3>6. /\ Cardinality((q.kept \ {}) \cap Behind(registry, 0)) <= q.removed
          /\ 0 + Cardinality({} \cap Ahead(registry, 0)) <= q.added
      BY <2>2, <3>4
    <3>7. Cardinality({}) + 0 = 0 /\ 0 <= Cardinality(Matching(registry))
      BY <3>4, <3>5
    <3> QED
      BY <2>2, <3>3, <3>6, <3>7 DEF Ledger
  <2>5. ReadingOK(registry, ordered, q)
    BY <1>5, <2>2, <2>4 DEF ReadingOK
  <2>6. InFlight' = InFlight
    BY <1>3, <2>2 DEF InFlight, At
  <2> QED
    BY <1>1, <1>3, <2>3, <2>5, <2>6, ReaderMoves
<1> QED
  BY <1>4, <1>5

\* The calls after it, and what becomes of a request.
LEMMA RequestKeeps ==
  ASSUME DirectoryInv, Continue \/ Retry \/ Request
  PROVE  DirectoryInv'
<1>1. /\ registry \in CardLists /\ ordered \in BOOLEAN
      /\ reader \in Reader /\ others \in 0..MaxOthers /\ ReadingOK(registry, ordered, reader)
  BY RegistryType DEF DirectoryInv, TypeOK
<1>2. /\ reader.retries \in 0..MaxRetries /\ reader.answer \in Answer /\ Refusal \in Answer
      /\ reader.kept \subseteq Matching(registry)
      /\ MaxRetries \in Nat /\ MaxOthers \in Nat
  BY <1>1, ReaderFields, DirectoryAssumption DEF Refusal, Answer, ReadingOK
<1>3. reader.pc \notin {"idle", "done"} =>
        /\ reader.via # None
        /\ reader.cursor # Garbled =>
             Ledger(registry, ordered, reader, reader.seen, reader.repeats, reader.cursor)
  BY <1>1 DEF ReadingOK
<1>4. CASE Continue
  <2>1. reader' = [reader EXCEPT !.pc = "sent", !.retries = reader.retries, !.answer = reader.answer]
    BY <1>1, <1>4 DEF Continue, Reader
  <2>2. reader.pc = "more" /\ reader'.pc = "sent"
    BY <1>1, <1>4 DEF Continue, At, Reader
  <2>3. reader' \in Reader /\ ReadingOK(registry, ordered, reader')
    BY <1>1, <1>2, <1>3, <2>1, <2>2, MovesOn
  <2>4. UNCHANGED <<ordered, registry, server, others, changes>> /\ InFlight' = InFlight
    BY <1>4, <2>2 DEF Continue, InFlight, At
  <2> QED
    BY <1>1, <2>3, <2>4, ReaderMoves
<1>5. CASE Retry
  <2>1. reader' = [reader EXCEPT !.pc = "sent", !.retries = reader.retries + 1, !.answer = reader.answer]
    BY <1>1, <1>5 DEF Retry, Reader
  <2>2. /\ reader.pc = "told" /\ reader'.pc = "sent" /\ reader.retries < MaxRetries
    BY <1>1, <1>5 DEF Retry, At, Reader
  <2>3. reader.retries + 1 \in 0..MaxRetries
    BY <1>2, <2>2
  <2>4. reader' \in Reader /\ ReadingOK(registry, ordered, reader')
    BY <1>1, <1>2, <1>3, <2>1, <2>2, <2>3, MovesOn
  <2>5. UNCHANGED <<ordered, registry, server, others, changes>> /\ InFlight' = InFlight
    BY <1>5, <2>2 DEF Retry, InFlight, At
  <2> QED
    BY <1>1, <2>4, <2>5, ReaderMoves
<1>6. CASE HandleInProcess
  <2>1. reader.pc = "sent" /\ UNCHANGED <<ordered, registry, server, others, changes>>
    BY <1>6 DEF HandleInProcess, At
  <2>2. PICK a \in ServeHTTP(reader) :
          reader' = IF a.ok THEN Turn(reader, a) ELSE [reader EXCEPT !.pc = "told"]
    BY <1>6 DEF HandleInProcess
  <2>3. /\ a \in Answer /\ a.ok \in BOOLEAN
        /\ a.ok => Ledger(registry, ordered, reader, reader.seen \cup a.cards,
                          reader.repeats + Cardinality(reader.seen \cap a.cards), a.next)
    BY <1>1, <1>2, <1>3, <2>1, ServedOK DEF Answer
  <2>4. CASE a.ok
    <3>1. reader' = [Turn(reader, a) EXCEPT !.misled = FALSE]
      <4>1. reader.misled = FALSE
        BY <1>1, <2>1, ReaderFields DEF ReadingOK
      <4>2. Turn(reader, a) = [Turn(reader, a) EXCEPT !.misled = FALSE]
        BY <1>1, <4>1 DEF Turn, Reader
      <4> QED
        BY <2>2, <2>4, <4>2
    <3>2. reader' \in Reader /\ ReadingOK(registry, ordered, reader') /\ reader'.pc \in {"done", "more"}
      BY <1>1, <1>3, <2>1, <2>3, <2>4, <3>1, TurnOK
    <3>3. InFlight' = InFlight
      BY <2>1, <3>2 DEF InFlight, At
    <3> QED
      BY <1>1, <2>1, <3>2, <3>3, ReaderMoves
  <2>5. CASE ~a.ok
    <3>1. reader' = [reader EXCEPT !.pc = "told", !.retries = reader.retries, !.answer = reader.answer]
      BY <1>1, <2>2, <2>5 DEF Reader
    <3>2. reader'.pc = "told"
      BY <1>1, <3>1 DEF Reader
    <3>3. reader' \in Reader /\ ReadingOK(registry, ordered, reader')
      BY <1>1, <1>2, <1>3, <2>1, <3>1, MovesOn
    <3>4. InFlight' = InFlight
      BY <2>1, <3>2 DEF InFlight, At
    <3> QED
      BY <1>1, <2>1, <3>3, <3>4, ReaderMoves
  <2> QED
    BY <2>3, <2>4, <2>5
<1>7. CASE AcceptRequest
  <2>1. reader' = [reader EXCEPT !.pc = "accepted", !.retries = reader.retries, !.answer = reader.answer]
    BY <1>1, <1>7 DEF AcceptRequest, Reader
  <2>2. /\ reader.pc = "sent" /\ server.listener = "open"
        /\ UNCHANGED <<ordered, registry, server, others, changes>>
    BY <1>7 DEF AcceptRequest, At
  <2>4. reader.via # None /\ reader.pc \notin {"idle", "done"}
    BY <1>3, <2>2
  <2>3. reader' \in Reader /\ ReadingOK(registry, ordered, reader')
    BY <1>1, <1>2, <2>1, <2>4, MovesOn
  <2> QED
    BY <1>1, <2>2, <2>3, ReaderMoves
<1>8. CASE ServeRequest
  <2>1. /\ reader.pc = "accepted" /\ UNCHANGED <<ordered, registry, server, others, changes>>
    BY <1>8 DEF ServeRequest, At
  <2>2. PICK a \in ServeHTTP(reader) : reader' = [reader EXCEPT !.pc = "answered", !.answer = a]
    BY <1>8 DEF ServeRequest
  <2>3. /\ a \in Answer
        /\ a.ok => Ledger(registry, ordered, reader, reader.seen \cup a.cards,
                          reader.repeats + Cardinality(reader.seen \cap a.cards), a.next)
        /\ ~a.ok => a = Refusal
    BY <1>1, <1>2, <1>3, <2>1, ServedOK
  <2> DEFINE q == reader'
  <2>4. /\ q.pc = "answered" /\ q.answer = a /\ q.cursor = reader.cursor /\ q.seen = reader.seen
        /\ q.repeats = reader.repeats /\ q.via = reader.via /\ q.limit = reader.limit
        /\ q.kept = reader.kept /\ q.removed = reader.removed /\ q.added = reader.added
        /\ q.misled = reader.misled
    BY <1>1, <2>2 DEF Reader
  <2>5. q \in Reader
    BY <1>1, <2>2, <2>3 DEF Reader
  <2> HIDE DEF q
  <2>6. q.cursor # Garbled => Ledger(registry, ordered, q, q.seen, q.repeats, q.cursor)
    BY <1>3, <2>1, <2>4, LedgerFields
  <2>7. q.answer.ok => Ledger(registry, ordered, q, q.seen \cup q.answer.cards,
                              q.repeats + Cardinality(q.seen \cap q.answer.cards), q.answer.next)
    BY <2>3, <2>4, LedgerFields
  <2>8. ReadingOK(registry, ordered, q)
    BY <1>1, <1>3, <2>1, <2>3, <2>4, <2>6, <2>7 DEF ReadingOK
  <2>9. InFlight # 0
    BY <1>1, <2>1 DEF InFlight, At
  <2> QED
    BY <1>1, <2>1, <2>5, <2>8, <2>9, ReaderMoves DEF q
<1>9. CASE ReceiveAnswer
  <2>1. /\ reader.pc = "answered" /\ UNCHANGED <<ordered, registry, server, others, changes>>
        /\ reader' = [Turn(reader, reader.answer) EXCEPT !.misled = ~reader.answer.ok]
    BY <1>9 DEF ReceiveAnswer, At
  <2> DEFINE m == ~reader.answer.ok
  <2>2. /\ m \in BOOLEAN
        /\ m => reader.answer = Refusal
        /\ reader' = [Turn(reader, reader.answer) EXCEPT !.misled = m]
    BY <1>1, <2>1 DEF ReadingOK
  <2>3. ~m => Ledger(registry, ordered, reader, reader.seen \cup reader.answer.cards,
             reader.repeats + Cardinality(reader.seen \cap reader.answer.cards), reader.answer.next)
    BY <1>1, <2>1 DEF ReadingOK
  <2> HIDE DEF m
  <2>4. reader' \in Reader /\ ReadingOK(registry, ordered, reader') /\ reader'.pc \in {"done", "more"}
    <3>1. reader.via # None
      BY <1>3, <2>1
    <3> DEFINE a == reader.answer
               q == reader'
    <3>2. a \in Answer /\ q = [Turn(reader, a) EXCEPT !.misled = m] /\ (m => a = Refusal)
      BY <1>2, <2>2
    <3>3. ~m => Ledger(registry, ordered, reader, reader.seen \cup a.cards,
                       reader.repeats + Cardinality(reader.seen \cap a.cards), a.next)
      BY <2>3
    <3> HIDE DEF a, q
    <3>4. /\ registry \in CardLists /\ ordered \in BOOLEAN /\ reader \in Reader
          /\ ReadingOK(registry, ordered, reader) /\ m \in BOOLEAN
      BY <1>1, <2>2
    <3>5. q \in Reader /\ ReadingOK(registry, ordered, q) /\ q.pc \in {"done", "more"}
      BY ZenonT(30), <3>1, <3>2, <3>3, <3>4, TurnOK
    <3> QED
      BY <3>5 DEF q
  <2>5. InFlight' = InFlight
    BY <2>1, <2>4 DEF InFlight, At
  <2> QED
    BY <1>1, <2>1, <2>4, <2>5, ReaderMoves
<1>10. CASE RequestFails
  <2>1. /\ reader.pc \in {"sent", "accepted", "answered"}
        /\ UNCHANGED <<ordered, registry, server, changes>>
        /\ At("accepted") => others < MaxOthers
        /\ others' = IF At("accepted") THEN others + 1 ELSE others
    BY <1>10 DEF RequestFails
  <2>2. reader' = [reader EXCEPT !.pc = "told", !.retries = reader.retries, !.answer = Refusal]
    BY <1>1, <1>10 DEF RequestFails, Reader
  <2>3. reader'.pc = "told"
    BY <1>1, <2>2 DEF Reader
  <2>4. reader' \in Reader /\ ReadingOK(registry, ordered, reader')
    BY <1>1, <1>2, <1>3, <2>1, <2>2, MovesOn
  <2>5. others' \in 0..MaxOthers
    BY <1>1, <1>2, <2>1
  <2>6. InFlight' = InFlight
    BY <1>1, <2>1, <2>3 DEF InFlight, At
  <2> QED
    BY <2>1, <2>4, <2>5, <2>6, ReaderMoves
<1> QED
  BY <1>4, <1>5, <1>6, <1>7, <1>8, <1>9, <1>10 DEF Request

-----------------------------------------------------------------------------
(* The steps of the directory's owner and of the server.                   *)

\* A change of the cards that is about one name.
LEMMA ChangeKeeps ==
  ASSUME DirectoryInv, NEW B \in CardLists, NEW n, Alike(n, registry, B), Change(B)
  PROVE  DirectoryInv'
<1>1. /\ registry \in CardLists /\ Wanted(registry) = Matching(registry) /\ ordered \in BOOLEAN
      /\ reader \in Reader /\ ReadingOK(registry, ordered, reader)
      /\ Wanted(B) = Matching(B) /\ changes \in 0..MaxChanges /\ MaxChanges \in Nat
  BY RegistryType, ResolveLists, DirectoryAssumption DEF DirectoryInv, TypeOK
<1>2. /\ reader.pc \in {"answered", "more", "told"} /\ changes < MaxChanges /\ changes' = changes + 1
      /\ registry' = B /\ UNCHANGED <<ordered, server, others>>
  BY DEF Change
<1>3. reader' = Told(registry, B, reader)
  BY <1>1 DEF Change, Told
<1> DEFINE r == reader
           q == Told(registry, B, reader)
           out == Cardinality(Matching(registry) \ Matching(B))
           in == Cardinality(Matching(B) \ Matching(registry))
<1>4. /\ r.limit \in Limits /\ r.cursor \in Nat \cup {Garbled} /\ r.answer \in Answer
      /\ r.seen \in SUBSET Names /\ r.repeats \in Nat /\ r.kept \in SUBSET Names
      /\ r.removed \in Nat /\ r.added \in Nat
  BY <1>1, ReaderFields
<1>5. out \in Nat /\ in \in Nat
  <2>1. /\ Matching(registry) \ Matching(B) \in SUBSET Names
        /\ Matching(B) \ Matching(registry) \in SUBSET Names
    BY <1>1, CardsAt
  <2> QED
    BY <2>1, FiniteNames
<1>6. /\ q.kept = r.kept \cap Matching(B) /\ q.removed = r.removed + out /\ q.added = r.added + in
      /\ q.limit = r.limit /\ q.pc = r.pc /\ q.via = r.via /\ q.cursor = r.cursor
      /\ q.answer = r.answer /\ q.seen = r.seen /\ q.repeats = r.repeats /\ q.misled = r.misled
  BY <1>1 DEF Told, Reader
<1>7. q \in Reader
  <2>1. r.kept \cap Matching(B) \in SUBSET Names /\ r.removed + out \in Nat /\ r.added + in \in Nat
    BY <1>4, <1>5
  <2> HIDE DEF out, in
  <2>2. q = [reader EXCEPT !.kept = r.kept \cap Matching(B), !.removed = r.removed + out,
                           !.added = r.added + in]
    BY DEF Told, out, in
  <2> HIDE DEF q
  <2> QED
    BY <1>1, <2>1, <2>2 DEF Reader
<1> HIDE DEF q, out, in
<1>8. r.kept \subseteq Matching(registry) /\ ~r.misled /\ r.via # None
  BY <1>1, <1>2 DEF ReadingOK
<1>9. ASSUME NEW seen \in SUBSET Names, NEW repeats \in Nat, NEW c \in Nat \cup {None},
             Ledger(registry, ordered, r, seen, repeats, c)
      PROVE  Ledger(B, ordered, q, seen, repeats, c)
  BY <1>1, <1>8, <1>9, LedgerChange DEF q
<1>10. r.cursor # Garbled => Ledger(B, ordered, q, q.seen, q.repeats, q.cursor)
  <2>1. SUFFICES ASSUME r.cursor # Garbled
                 PROVE  Ledger(B, ordered, q, r.seen, r.repeats, r.cursor)
    BY <1>6
  <2>2. Ledger(registry, ordered, r, r.seen, r.repeats, r.cursor) /\ r.cursor \in Nat
    BY <1>1, <1>2, <1>4, <2>1 DEF ReadingOK
  <2> QED
    BY <1>4, <1>9, <2>2
<1>11. r.pc = "answered" /\ r.answer.ok =>
         Ledger(B, ordered, q, q.seen \cup q.answer.cards,
                q.repeats + Cardinality(q.seen \cap q.answer.cards), q.answer.next)
  <2> DEFINE s == r.seen \cup r.answer.cards
             p == r.repeats + Cardinality(r.seen \cap r.answer.cards)
             c == r.answer.next
  <2>1. SUFFICES ASSUME r.pc = "answered", r.answer.ok
                 PROVE  Ledger(B, ordered, q, s, p, c)
    BY <1>6
  <2>2. Ledger(registry, ordered, r, s, p, c)
    BY <1>1, <2>1 DEF ReadingOK
  <2>3. s \in SUBSET Names /\ p \in Nat /\ c \in Nat \cup {None}
    <3>1. r.answer.cards \in SUBSET Names /\ c \in Nat \cup {None}
      BY <1>4 DEF Answer
    <3>2. r.seen \cap r.answer.cards \in SUBSET Names
      BY <1>4
    <3> QED
      BY <1>4, <3>1, <3>2, FiniteNames
  <2> HIDE DEF s, p, c
  <2> QED
    BY <1>9, <2>2, <2>3
<1>12. ReadingOK(B, ordered, q)
  <2>1. ordered => q.repeats <= q.added
    BY <1>1, <1>4, <1>5, <1>6 DEF ReadingOK
  <2>2. q.pc = "answered" /\ ~q.answer.ok => q.answer = Refusal
    BY <1>1, <1>6 DEF ReadingOK
  <2> QED
    BY <1>2, <1>6, <1>8, <1>10, <1>11, <2>1, <2>2 DEF ReadingOK
<1>13. TypeOK'
  <2>1. changes' \in 0..MaxChanges
    BY <1>1, <1>2
  <2>2. registry' \in Seq(Card) /\ IsInjective(NamesOf(registry'))
    BY <1>2 DEF CardLists
  <2>3. reader' \in Reader
    BY <1>3, <1>7 DEF q
  <2> QED
    BY <1>2, <2>1, <2>2, <2>3 DEF DirectoryInv, TypeOK, NamesOf
<1>14. ReadingOK(registry, ordered, reader)'
  <2>1. registry' = B /\ ordered' = ordered /\ reader' = q
    BY <1>2, <1>3 DEF q
  <2> QED
    BY <1>12, <2>1, ReadingNext
<1>15. ServerOK'
  <2>1. InFlight' = InFlight
    BY <1>2, <1>3, <1>6 DEF InFlight, At, q
  <2> QED
    BY <1>2, <2>1 DEF DirectoryInv, ServerOK
<1> QED
  BY <1>13, <1>14, <1>15 DEF DirectoryInv

\* Register and Unregister are.
LEMMA OwnerKeeps ==
  ASSUME DirectoryInv, NEW n \in Names, Unregister(n) \/ \E matches \in BOOLEAN : Register(n, matches)
  PROVE  DirectoryInv'
<1>1. registry \in CardLists
  BY RegistryType DEF DirectoryInv
<1>2. CASE Unregister(n)
  <2>1. PICK i \in DOMAIN registry : registry[i].name = n /\ Change(RemoveAt(registry, i))
    BY <1>2 DEF Unregister
  <2>2. RemoveAt(registry, i) \in CardLists /\ Alike(n, registry, RemoveAt(registry, i))
    BY <1>1, <2>1, TakenOut
  <2> QED
    BY <2>1, <2>2, ChangeKeeps
<1>3. ASSUME NEW matches \in BOOLEAN, Register(n, matches)
      PROVE  DirectoryInv'
  <2> DEFINE card == [name |-> n, matches |-> matches]
             B == [i \in DOMAIN registry |-> IF registry[i].name = n THEN card ELSE registry[i]]
  <2>1. card \in Card /\ card.name = n
    BY DEF Card
  <2>2. CASE n \in ToSet(NamesOf(registry))
    <3>1. Change(B)
      BY <1>3, <2>2 DEF Register
    <3>2. B \in CardLists /\ Alike(n, registry, B)
      <4> HIDE DEF card
      <4>1. LET C == [i \in DOMAIN registry |-> IF registry[i].name = card.name THEN card ELSE registry[i]]
            IN  C \in CardLists /\ Alike(card.name, registry, C)
        BY <1>1, <2>1, Replaced
      <4> QED
        BY <2>1, <4>1
    <3> HIDE DEF B
    <3> QED
      BY <3>1, <3>2, ChangeKeeps
  <2>3. CASE n \notin ToSet(NamesOf(registry))
    <3>1. Change(Append(registry, card))
      BY <1>3, <2>3 DEF Register
    <3> HIDE DEF card
    <3>2. Append(registry, card) \in CardLists /\ Alike(n, registry, Append(registry, card))
      BY <1>1, <2>1, <2>3, Appended
    <3> QED
      BY <3>1, <3>2, ChangeKeeps
  <2> QED
    BY <2>2, <2>3
<1> QED
  BY <1>2, <1>3

\* The server and its other clients.
LEMMA ServerKeeps ==
  ASSUME DirectoryInv, OtherRequest \/ OtherServed \/ AcceptBreaks \/ Cancel \/ Serving
  PROVE  DirectoryInv'
<1>1. server \in Server /\ others \in 0..MaxOthers /\ MaxOthers \in Nat
  BY DirectoryAssumption DEF DirectoryInv, TypeOK
<1>2. UNCHANGED <<ordered, registry, reader, changes>>
  BY DEF OtherRequest, OtherServed, AcceptBreaks, Cancel, Serving, Listen, ListenerExits, Shutdown,
         Drained, ShutdownExpires, ShutdownReturns, ListenerReturns, ServerStep
<1>3. ReadingOK(registry, ordered, reader)'
  BY <1>2, ReadingNext DEF DirectoryInv
<1>4. CASE OtherRequest
  <2>1. /\ others' \in 0..MaxOthers /\ server' = server /\ server.listener = "open"
    BY <1>1, <1>4 DEF OtherRequest
  <2> QED
    BY <1>2, <1>3, <2>1 DEF DirectoryInv, TypeOK, ServerOK
<1>5. CASE OtherServed
  <2>1. others' \in 0..MaxOthers /\ server' = server /\ others > 0
    BY <1>1, <1>5 DEF OtherServed
  <2>2. InFlight # 0
    BY <1>1, <2>1 DEF InFlight
  <2> QED
    BY <1>2, <1>3, <2>1, <2>2 DEF DirectoryInv, TypeOK, ServerOK
<1>6. CASE AcceptBreaks \/ Cancel \/ Serving
  <2>1. others' = others /\ InFlight' = InFlight
    BY <1>2, <1>6 DEF AcceptBreaks, Cancel, Serving, Listen, ListenerExits, Shutdown, Drained,
         ShutdownExpires, ShutdownReturns, ListenerReturns, ServerStep, InFlight, At
  <2>2. server' \in Server /\ ServerOK'
    <3>1. ServerOK
      BY DEF DirectoryInv
    <3>2. CASE AcceptBreaks
      BY <1>1, <2>1, <3>1, <3>2 DEF AcceptBreaks, ServerStep, Server, ServerOK
    <3>3. CASE Cancel
      BY <1>1, <2>1, <3>1, <3>3 DEF Cancel, ServerStep, Server, ServerOK
    <3>4. CASE Listen
      <4>1. server.listener = "starting" /\ ~server.exited
        BY <1>1, <3>1, <3>4 DEF Listen, Server, ServerOK
      <4>2. CASE server' = [server EXCEPT !.listener = "failed", !.exited = TRUE]
        BY <1>1, <2>1, <3>1, <4>1, <4>2 DEF Server, ServerOK
      <4>3. CASE server' = [server EXCEPT !.listener = IF server.main = "select" THEN "open" ELSE "closed"]
        <5>1. CASE server.main = "select"
          <6>1. server' = [server EXCEPT !.listener = "open"]
            BY <4>3, <5>1
          <6> QED
            BY <1>1, <2>1, <3>1, <4>1, <5>1, <6>1 DEF Server, ServerOK
        <5>2. CASE server.main # "select"
          <6>1. server' = [server EXCEPT !.listener = "closed"]
            BY <4>3, <5>2
          <6> QED
            BY <1>1, <2>1, <3>1, <4>1, <5>2, <6>1 DEF Server, ServerOK
        <5> QED
          BY <5>1, <5>2
      <4> QED
        BY <3>4, <4>2, <4>3 DEF Listen, ServerStep
    <3>5. CASE ListenerExits
      BY <1>1, <2>1, <3>1, <3>5 DEF ListenerExits, ServerStep, Server, ServerOK
    <3>6. CASE Shutdown
      BY <1>1, <2>1, <3>1, <3>6 DEF Shutdown, ServerStep, Server, ServerOK
    <3>7. CASE Drained
      BY <1>1, <2>1, <3>1, <3>7 DEF Drained, ServerStep, Server, ServerOK
    <3>8. CASE ShutdownExpires
      BY <1>1, <2>1, <3>1, <3>8 DEF ShutdownExpires, ServerStep, Server, ServerOK
    <3>9. CASE ShutdownReturns
      <4>1. /\ server.main \in {"drained", "expired"} /\ server.exited
            /\ server' = [server EXCEPT !.main = "returned",
                 !.result = IF server.main = "expired" THEN "timeout"
                            ELSE IF server.listener = "closed" THEN "nil" ELSE "listener"]
        BY <3>9 DEF ShutdownReturns, ServerStep
      <4>2. CASE server.main = "expired"
        <5>1. server' = [server EXCEPT !.main = "returned", !.result = "timeout"]
          BY <4>1, <4>2
        <5> QED
          BY <1>1, <2>1, <3>1, <4>1, <5>1 DEF Server, ServerOK
      <4>3. CASE server.main # "expired" /\ server.listener = "closed"
        <5>1. server' = [server EXCEPT !.main = "returned", !.result = "nil"]
          BY <4>1, <4>3
        <5> QED
          BY <1>1, <2>1, <3>1, <4>1, <4>3, <5>1 DEF Server, ServerOK
      <4>4. CASE server.main # "expired" /\ server.listener # "closed"
        <5>1. server' = [server EXCEPT !.main = "returned", !.result = "listener"]
          BY <4>1, <4>4
        <5> QED
          BY <1>1, <2>1, <3>1, <4>1, <5>1 DEF Server, ServerOK
      <4> QED
        BY <4>2, <4>3, <4>4
    <3>10. CASE ListenerReturns
      BY <1>1, <2>1, <3>1, <3>10 DEF ListenerReturns, ServerStep, Server, ServerOK
    <3> QED
      BY <1>6, <3>2, <3>3, <3>4, <3>5, <3>6, <3>7, <3>8, <3>9, <3>10 DEF Serving
  <2> QED
    BY <1>2, <1>3, <2>1, <2>2 DEF DirectoryInv, TypeOK
<1> QED
  BY <1>4, <1>5, <1>6

-----------------------------------------------------------------------------
(* The theorems.                                                           *)

\* The invariant holds before the directory is served.
LEMMA DirectoryInit == Init => DirectoryInv
<1> SUFFICES ASSUME Init PROVE DirectoryInv
  OBVIOUS
<1>1. PICK n \in 0..NumNames : \E f \in [1..n -> BOOLEAN] :
        registry = [i \in 1..n |-> [name |-> i, matches |-> f[i]]]
  BY DEF Init
<1>2. PICK f \in [1..n -> BOOLEAN] : registry = [i \in 1..n |-> [name |-> i, matches |-> f[i]]]
  BY <1>1
<1>3. NumNames \in Nat /\ n \in Nat /\ 1..n \subseteq Names
  BY DirectoryAssumption DEF Names
<1>4. registry \in Seq(Card) /\ IsInjective(NamesOf(registry))
  <2>1. \A i \in 1..n : [name |-> i, matches |-> f[i]] \in Card
    BY <1>3 DEF Card
  <2>2. registry \in Seq(Card)
    BY <1>2, <1>3, <2>1
  <2>3. DOMAIN registry = 1..n /\ \A i \in 1..n : registry[i].name = i
    BY <1>2
  <2> QED
    BY <2>2, <2>3 DEF IsInjective, NamesOf
<1>5. reader = Newcomer /\ Newcomer \in Reader
  <2>1. /\ 0 \in 0..MaxRetries /\ Refusal \in Answer
    BY DirectoryAssumption DEF Refusal, Answer
  <2> QED
    BY <2>1 DEF Init, Newcomer, Reader
<1>6. TypeOK
  <2>1. 0 \in 0..MaxOthers /\ 0 \in 0..MaxChanges
    BY DirectoryAssumption
  <2>2. server \in Server
    BY DEF Init, Server
  <2> QED
    BY <1>4, <1>5, <2>1, <2>2 DEF Init, TypeOK
<1>7. ReadingOK(registry, ordered, reader)
  BY <1>5 DEF ReadingOK, Newcomer
<1>8. ServerOK
  BY DirectoryAssumption DEF Init, ServerOK
<1> QED
  BY <1>6, <1>7, <1>8 DEF DirectoryInv

\* Every step keeps it.
LEMMA DirectoryStep ==
  ASSUME DirectoryInv, [Next]_vars
  PROVE  DirectoryInv'
<1>1. CASE \E n \in Names : Unregister(n) \/ \E matches \in BOOLEAN : Register(n, matches)
  BY <1>1, OwnerKeeps
<1>2. CASE Discover
  BY <1>2, DiscoverKeeps
<1>3. CASE Continue \/ Retry \/ Request
  BY <1>3, RequestKeeps
<1>4. CASE OtherRequest \/ OtherServed \/ AcceptBreaks \/ Cancel \/ Serving
  BY <1>4, ServerKeeps
<1>5. CASE UNCHANGED vars
  <2>1. UNCHANGED <<ordered, registry, reader, server, others, changes>>
    BY <1>5 DEF vars
  <2>2. InFlight' = InFlight
    BY <2>1 DEF InFlight, At
  <2>3. reader \in Reader /\ ReadingOK(registry, ordered, reader) /\ others \in 0..MaxOthers
    BY DEF DirectoryInv, TypeOK
  <2>4. reader' \in Reader /\ ReadingOK(registry, ordered, reader') /\ others' \in 0..MaxOthers
    BY <2>1, <2>3
  <2> QED
    BY <2>1, <2>2, <2>4, ReaderMoves
<1> QED
  BY <1>1, <1>2, <1>3, <1>4, <1>5 DEF Next, Over

\* It holds throughout.
LEMMA DirectoryAlways == Spec => []DirectoryInv
BY DirectoryInit, DirectoryStep, PTL DEF Spec

\* The types: a name has one card, whatever is registered and removed when.
THEOREM DirectoryTypes == Spec => []TypeOK
<1>1. DirectoryInv => TypeOK
  BY DEF DirectoryInv
<1> QED
  BY <1>1, DirectoryAlways, PTL

\* A client that read an ordered directory to the end missed no more of the cards
\* that were there all the time than others were removed meanwhile.
THEOREM MissesHaveCauses == Spec => []MissesAreRemovals
<1>1. DirectoryInv => MissesAreRemovals
  <2>1. SUFFICES ASSUME DirectoryInv, ordered, reader.pc = "done", ~reader.misled
                 PROVE  Cardinality(reader.kept \ reader.seen) <= reader.removed
    BY DEF MissesAreRemovals, At
  <2>2. ReadingOK(registry, ordered, reader) /\ reader \in Reader
    BY <2>1 DEF DirectoryInv, TypeOK
  <2>3. CASE reader.via = None
    <3>1. reader.kept \ reader.seen = {} /\ reader.removed = 0
      BY <2>2, <2>3 DEF ReadingOK
    <3> QED
      BY <3>1, FS_EmptySet
  <2>4. CASE reader.via # None
    <3>1. Ledger(registry, ordered, reader, reader.seen, reader.repeats, None)
      BY <2>1, <2>2, <2>4 DEF ReadingOK
    <3>2. (reader.kept \ reader.seen) \cap Behind(registry, None) = reader.kept \ reader.seen
      BY <2>2 DEF Behind, ReadingOK
    <3> QED
      BY <2>1, <3>1, <3>2 DEF Ledger
  <2> QED
    BY <2>3, <2>4
<1> QED
  BY <1>1, DirectoryAlways, PTL

\* Nor did it see a card twice without one being added for each repetition.
THEOREM RepeatsHaveCauses == Spec => []RepeatsAreAdditions
<1>1. DirectoryInv => RepeatsAreAdditions
  BY DEF DirectoryInv, ReadingOK, RepeatsAreAdditions
<1> QED
  BY <1>1, DirectoryAlways, PTL

\* Of a directory that nobody changes it gets as many cards as there are, whatever
\* the order of each listing, and all of them if it asks for no limit.
THEOREM PagesAreComplete == Spec => []PagesAddUp
<1>1. DirectoryInv => PagesAddUp
  <2>1. SUFFICES ASSUME DirectoryInv, reader.pc = "done", reader.via # None, ~reader.misled
                 PROVE  /\ reader.removed = 0 /\ reader.added = 0 =>
                             Cardinality(reader.seen) + reader.repeats = Cardinality(reader.kept)
                        /\ reader.limit = None => reader.kept \subseteq reader.seen
    BY DEF PagesAddUp, At
  <2>2. Ledger(registry, ordered, reader, reader.seen, reader.repeats, None)
    BY <2>1 DEF DirectoryInv, ReadingOK
  <2>3. None # 0
    BY DirectoryAssumption
  <2> QED
    BY <2>2, <2>3 DEF Ledger
<1> QED
  BY <1>1, DirectoryAlways, PTL

\* ListenAndServe returns without an error only after it was told to, with no
\* request at work and none to come.
THEOREM ReturnIsGraceful == Spec => []GracefulReturn
<1>1. DirectoryInv => GracefulReturn
  BY DEF DirectoryInv, ServerOK, GracefulReturn
<1> QED
  BY <1>1, DirectoryAlways, PTL

-----------------------------------------------------------------------------
(* A reading has an end: each page leads further on.                       *)

\* The answer a leads the reader r to a page after the one it asked for, of cards
\* that may be there.
Leads(r, a) == a.next # None => r.cursor \in Nat /\ r.cursor < a.next /\ a.next < NumNames

\* So does one on its way.
Onward == At("answered") => Leads(reader, reader.answer)

LEMMA PageLeads ==
  ASSUME NEW cards \in CardLists, NEW r \in Reader, r.cursor \in Nat
  PROVE  Leads(r, Page(cards, r.cursor, r.limit))
<1> DEFINE N      == Cardinality(Matching(cards))
           offset == IF r.cursor > N THEN N ELSE r.cursor
           list   == Resolve(cards)
           rest   == SubSeq(list, offset + 1, Len(list))
           a      == Page(cards, r.cursor, r.limit)
<1>1. list \in Seq(Names) /\ Len(list) = N
  BY ResolveLists
<1>2. NumNames \in Nat /\ N \in Nat /\ N <= NumNames
  <2>1. IsFiniteSet(Names) /\ Cardinality(Names) = NumNames
    BY FS_Interval, DirectoryAssumption DEF Names
  <2>2. Matching(cards) \subseteq Names
    BY CardsAt
  <2> QED
    BY <2>1, <2>2, FS_Subset, FS_CardinalityType, DirectoryAssumption
<1>3. a = [ok |-> TRUE, cards |-> ToSet(Cut(rest, r.limit)), next |-> NextToken(rest, offset, r.limit)]
  BY <1>1 DEF Page
<1>4. r.limit # None => r.limit \in Nat /\ r.limit > 0
  BY ReaderFields, DirectoryAssumption DEF Limits
<1> HIDE DEF N, list, a
<1>5. offset \in Nat /\ offset <= N /\ offset <= r.cursor /\ (offset < N => offset = r.cursor)
  BY <1>2
<1> HIDE DEF offset
<1>6. Len(rest) = N - offset
  BY <1>1, <1>2, <1>5
<1> HIDE DEF rest
<1>7. SUFFICES ASSUME a.next # None
               PROVE  r.cursor < a.next /\ a.next < NumNames
  BY DEF Leads, a
<1>8. r.limit # None /\ N - offset > r.limit /\ a.next = offset + r.limit
  BY <1>3, <1>6, <1>7 DEF NextToken, NextCursor, HasMore
<1> QED
  BY <1>2, <1>4, <1>5, <1>8

LEMMA ServedLeads ==
  ASSUME TypeOK, NEW a \in ServeHTTP(reader)
  PROVE  Leads(reader, a)
<1>1. CASE a = Refusal
  BY <1>1 DEF Leads, Refusal
<1>2. CASE a # Refusal
  <2>1. registry \in CardLists /\ ordered \in BOOLEAN /\ reader \in Reader
    BY RegistryType DEF TypeOK
  <2>2. reader.cursor # Garbled /\ reader.cursor \in Nat
    BY <1>2, <2>1, ReaderFields DEF ServeHTTP
  <2>3. PICK cards \in Listings : a = Page(cards, reader.cursor, reader.limit)
    BY <1>2, <2>2 DEF ServeHTTP
  <2>4. cards \in CardLists
    BY <2>1, ListingsAreLists
  <2> QED
    BY <2>1, <2>2, <2>3, <2>4, PageLeads
<1> QED
  BY <1>1, <1>2

\* The page that a reader turned to is after the one it was at.
LEMMA TurnLeads ==
  ASSUME NEW r \in Reader, NEW a, Leads(r, a), NEW m,
         NEW q, q = [Turn(r, a) EXCEPT !.misled = m]
  PROVE  q.pc \in {"done", "more"} /\ (q.pc = "more" => r.cursor < q.cursor /\ q.cursor < NumNames)
<1>1. q.pc = (IF a.next = None THEN "done" ELSE "more") /\ (a.next # None => q.cursor = a.next)
  BY DEF Turn, Reader
<1> QED
  BY <1>1 DEF Leads

LEMMA OnwardStep ==
  ASSUME TypeOK, Onward, [Next]_vars
  PROVE  /\ Onward'
         /\ reader.pc # "more" /\ reader'.pc = "more" =>
              reader.cursor < reader'.cursor /\ reader'.cursor < NumNames
<1>1. reader \in Reader
  BY DEF TypeOK
<1>2. CASE reader' = reader
  BY <1>2 DEF Onward, At
<1>3. CASE \E cards : Change(cards)
  <2>1. reader'.pc = reader.pc /\ reader'.answer = reader.answer /\ reader'.cursor = reader.cursor
    BY <1>1, <1>3 DEF Change, Reader
  <2> QED
    BY <2>1 DEF Onward, At, Leads
<1>4. CASE Discover \/ Continue \/ Retry \/ AcceptRequest \/ RequestFails
  <2>1. reader'.pc \in {"sent", "done", "accepted", "told"}
    BY <1>1, <1>4 DEF Discover, Continue, Retry, AcceptRequest, RequestFails, Reader
  <2> QED
    BY <2>1 DEF Onward, At
<1>5. CASE HandleInProcess
  <2>1. PICK a \in ServeHTTP(reader) :
          reader' = IF a.ok THEN Turn(reader, a) ELSE [reader EXCEPT !.pc = "told"]
    BY <1>5 DEF HandleInProcess
  <2>2. CASE a.ok
    <3>1. reader' = [Turn(reader, a) EXCEPT !.misled = reader.misled]
      BY <1>1, <2>1, <2>2 DEF Turn, Reader
    <3> QED
      BY <1>1, <3>1, ServedLeads, TurnLeads DEF Onward, At
  <2>3. CASE ~a.ok
    <3>1. reader'.pc = "told"
      BY <1>1, <2>1, <2>3 DEF Reader
    <3> QED
      BY <3>1 DEF Onward, At
  <2> QED
    BY <2>2, <2>3
<1>6. CASE ServeRequest
  <2>1. PICK a \in ServeHTTP(reader) : reader' = [reader EXCEPT !.pc = "answered", !.answer = a]
    BY <1>6 DEF ServeRequest
  <2>2. reader'.pc = "answered" /\ reader'.answer = a /\ reader'.cursor = reader.cursor
    BY <1>1, <2>1 DEF Reader
  <2>3. Leads(reader, a)
    BY ServedLeads
  <2> QED
    BY <2>2, <2>3 DEF Onward, At, Leads
<1>7. CASE ReceiveAnswer
  <2>1. Leads(reader, reader.answer) /\ reader' = [Turn(reader, reader.answer) EXCEPT !.misled = ~reader.answer.ok]
    BY <1>7 DEF ReceiveAnswer, Onward
  <2>2. reader'.pc \in {"done", "more"}
        /\ (reader'.pc = "more" => reader.cursor < reader'.cursor /\ reader'.cursor < NumNames)
    BY <1>1, <2>1, TurnLeads
  <2> QED
    BY <2>2 DEF Onward, At
<1>8. \/ \E cards : Change(cards)
      \/ Discover \/ Continue \/ Retry \/ Request
      \/ reader' = reader
  BY DEF Next, vars, Unregister, Register, OtherRequest, OtherServed, AcceptBreaks, Cancel, Serving, Over,
         Listen, ListenerExits, Shutdown, Drained, ShutdownExpires, ShutdownReturns, ListenerReturns, ServerStep
<1> QED
  BY <1>2, <1>3, <1>4, <1>5, <1>6, <1>7, <1>8 DEF Request

\* Whatever the owner does to the directory, a client that follows the cursors
\* turns no more pages than there may be cards.
THEOREM PagesLeadOn == Spec => PagesRunOut
<1>1. Init => Onward
  BY DEF Init, Newcomer, Onward, At
<1>2. TypeOK /\ Onward /\ [Next]_vars =>
        [reader.pc # "more" /\ reader'.pc = "more" =>
           reader.cursor < reader'.cursor /\ reader'.cursor < NumNames]_vars
  BY OnwardStep
<1>3. TypeOK /\ Onward /\ [Next]_vars => Onward'
  BY OnwardStep
<1> QED
  BY <1>1, <1>2, <1>3, DirectoryTypes, PTL DEF Spec, PagesRunOut
=============================================================================
