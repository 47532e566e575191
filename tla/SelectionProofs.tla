-------------------------- MODULE SelectionProofs --------------------------
(***************************************************************************)
(* What Select returns, for every sequence.  The induction theorems of the *)
(* library take an operator, which the provers cannot instantiate; here    *)
(* induction is about a set of numbers, and follows from the principle of  *)
(* the least element.                                                      *)
(***************************************************************************)
EXTENDS Selection, SequenceTheorems, WellFoundedInduction, TLAPS

Less == OpToRel(<, Nat)

LEMMA LessIsWellFounded == IsWellFoundedOn(Less, Nat)
  BY NatLessThanWellFounded DEF Less

LEMMA LessMeans ==
    ASSUME NEW m \in Nat, NEW n \in Nat
    PROVE  <<m, n>> \in Less <=> m < n
  BY DEF Less, OpToRel

LEMMA LeastElement ==
    ASSUME NEW T \in SUBSET Nat, T # {}
    PROVE  \E n \in T : \A m \in T : n <= m
  <1>1. PICK n \in T : \A m \in T : ~(<<m, n>> \in Less)
    BY LessIsWellFounded, WFMin
  <1>2. ASSUME NEW m \in T PROVE n <= m
    <2>1. m \in Nat /\ n \in Nat
      OBVIOUS
    <2>2. ~(m < n)
      BY <1>1, <2>1, LessMeans
    <2> QED BY <2>1, <2>2
  <1> QED BY <1>2

LEMMA SetInduction ==
    ASSUME NEW T, NEW n \in Nat, 0 \in T,
           ASSUME NEW k \in 1 .. n, k - 1 \in T PROVE k \in T
    PROVE  \A k \in 0 .. n : k \in T
  <1> SUFFICES ASSUME NEW j \in 0 .. n, j \notin T PROVE FALSE
    OBVIOUS
  <1> DEFINE Not == {k \in 0 .. n : k \notin T}
  <1>1. Not \in SUBSET Nat /\ Not # {}
    OBVIOUS
  <1> HIDE DEF Not
  <1>2. PICK k \in Not : \A m \in Not : k <= m
    BY <1>1, LeastElement
  <1>3. k \in 1 .. n /\ k \notin T
    BY <1>2 DEF Not
  <1>4. k - 1 \notin Not
    BY <1>2, <1>3
  <1>5. k - 1 \in T
    BY <1>3, <1>4 DEF Not
  <1> QED BY <1>3, <1>5
\* f is start, and from each number to the next what next makes of it.
Iterates(f, start, next, n) ==
    f[0] = start /\ \A k \in 1 .. n : f[k] = next[k][f[k - 1]]

\* A function that is given by iteration exists.
LEMMA Iterate ==
    ASSUME NEW S, NEW start \in S, NEW n \in Nat, NEW next \in [1 .. n -> [S -> S]]
    PROVE  \E f \in [0 .. n -> S] : Iterates(f, start, next, n)
  <1> DEFINE T == {m \in 0 .. n : \E f \in [0 .. m -> S] : Iterates(f, start, next, m)}
  <1>1. 0 \in T
    <2> DEFINE f == [k \in 0 .. 0 |-> start]
    <2>1. f \in [0 .. 0 -> S] /\ Iterates(f, start, next, 0) /\ 0 \in 0 .. n
      BY DEF Iterates
    <2> QED BY <2>1
  <1>2. ASSUME NEW m \in 1 .. n, m - 1 \in T PROVE m \in T
    <2>1. PICK f \in [0 .. m - 1 -> S] : Iterates(f, start, next, m - 1)
      BY <1>2
    <2> DEFINE last == next[m][f[m - 1]]
               g == [k \in 0 .. m |-> IF k = m THEN last ELSE f[k]]
    <2>2. last \in S
      <3>1. f[m - 1] \in S
        OBVIOUS
      <3>2. next[m] \in [S -> S]
        OBVIOUS
      <3> QED BY <3>1, <3>2
    <2> HIDE DEF last
    <2>3. g \in [0 .. m -> S]
      BY <2>2
    <2>4. g[0] = start /\ g[m] = last /\ \A k \in 0 .. m - 1 : g[k] = f[k]
      BY <2>1 DEF Iterates
    <2>5. ASSUME NEW k \in 1 .. m PROVE g[k] = next[k][g[k - 1]]
      <3>1. g[k - 1] = f[k - 1]
        OBVIOUS
      <3>2. CASE k = m
        BY <2>4, <3>1, <3>2 DEF last
      <3>3. CASE k # m
        <4>1. k \in 1 .. m - 1 /\ k \in 0 .. m - 1
          BY <3>3
        <4> QED BY <2>1, <2>4, <3>1, <4>1 DEF Iterates
      <3> QED BY <3>2, <3>3
    <2> HIDE DEF g
    <2>6. Iterates(g, start, next, m)
      BY <2>4, <2>5 DEF Iterates
    <2> QED BY <2>3, <2>6
  <1> HIDE DEF T
  <1>3. \A m \in 0 .. n : m \in T
    BY <1>1, <1>2, SetInduction
  <1>4. n \in T
    BY <1>3
  <1> QED BY <1>4 DEF T
----
-----------------------------------------------------------------------------
\* What the recursion computes from f for n.
NextSelection(f, seq, Keep, n) ==
    IF n = 0 THEN <<>>
    ELSE IF seq[n] \in Keep THEN Append(f[n - 1], seq[n])
    ELSE f[n - 1]

LEMMA NextType ==
    ASSUME NEW S, NEW Keep, NEW seq \in Seq(S), NEW n \in 0 .. Len(seq),
           NEW f, n # 0 => f[n - 1] \in Seq(S)
    PROVE  NextSelection(f, seq, Keep, n) \in Seq(S)
  <1>1. CASE n = 0
    BY <1>1 DEF NextSelection
  <1>2. CASE n # 0
    <2>1. n \in 1 .. Len(seq) /\ seq[n] \in S
      BY <1>2
    <2> QED BY <1>2, <2>1 DEF NextSelection
  <1> QED BY <1>1, <1>2

\* The recursion up to n is solved by a function on 0 .. n.
Solved(S, seq, Keep) ==
    {n \in 0 .. Len(seq) :
       \E f \in [0 .. n -> Seq(S)] : \A k \in 0 .. n : f[k] = NextSelection(f, seq, Keep, k)}

LEMMA SolvedStep ==
    ASSUME NEW S, NEW Keep, NEW seq \in Seq(S), NEW n \in 1 .. Len(seq),
           n - 1 \in Solved(S, seq, Keep)
    PROVE  n \in Solved(S, seq, Keep)
  <1>1. PICK f \in [0 .. n - 1 -> Seq(S)] :
           \A k \in 0 .. n - 1 : f[k] = NextSelection(f, seq, Keep, k)
    BY DEF Solved
  <1> DEFINE g == [k \in 0 .. n |-> IF k = n THEN NextSelection(f, seq, Keep, n) ELSE f[k]]
  <1>2. NextSelection(f, seq, Keep, n) \in Seq(S)
    <2>1. n - 1 \in 0 .. n - 1 /\ n \in 0 .. Len(seq)
      OBVIOUS
    <2>2. f[n - 1] \in Seq(S)
      BY <2>1
    <2> QED BY <2>1, <2>2, NextType
  <1>3. g \in [0 .. n -> Seq(S)]
    BY <1>1, <1>2
  <1>4. ASSUME NEW k \in 0 .. n PROVE g[k] = NextSelection(g, seq, Keep, k)
    <2>1. k # 0 => g[k - 1] = f[k - 1]
      OBVIOUS
    <2>2. NextSelection(g, seq, Keep, k) = NextSelection(f, seq, Keep, k)
      BY <2>1 DEF NextSelection
    <2>3. k # n => k \in 0 .. n - 1
      OBVIOUS
    <2>4. g[k] = IF k = n THEN NextSelection(f, seq, Keep, n) ELSE f[k]
      OBVIOUS
    <2> QED BY <1>1, <2>2, <2>3, <2>4
  <1> HIDE DEF g
  <1>5. n \in 0 .. Len(seq)
    OBVIOUS
  <1> QED BY <1>3, <1>4, <1>5 DEF Solved

LEMMA AllSolved ==
    ASSUME NEW S, NEW Keep, NEW seq \in Seq(S)
    PROVE  Len(seq) \in Solved(S, seq, Keep)
  <1> DEFINE T == Solved(S, seq, Keep)
  <1>1. 0 \in T
    <2> DEFINE f == [k \in 0 .. 0 |-> <<>>]
    <2>1. f \in [0 .. 0 -> Seq(S)] /\ 0 \in 0 .. Len(seq)
      OBVIOUS
    <2>2. \A k \in 0 .. 0 : f[k] = NextSelection(f, seq, Keep, k)
      BY DEF NextSelection
    <2> HIDE DEF f
    <2> QED BY <2>1, <2>2 DEF Solved
  <1>2. ASSUME NEW k \in 1 .. Len(seq), k - 1 \in T PROVE k \in T
    BY <1>2, SolvedStep
  <1>3. Len(seq) \in Nat /\ Len(seq) \in 0 .. Len(seq)
    OBVIOUS
  <1> HIDE DEF T
  <1>4. \A k \in 0 .. Len(seq) : k \in T
    BY <1>1, <1>2, <1>3, SetInduction
  <1> QED BY <1>3, <1>4 DEF T

\* The recursive function exists.
LEMMA SelectionsIs ==
    ASSUME NEW S, NEW Keep, NEW seq \in Seq(S)
    PROVE  Selections(seq, Keep) =
             [n \in 0 .. Len(seq) |-> NextSelection(Selections(seq, Keep), seq, Keep, n)]
  <1>1. PICK f \in [0 .. Len(seq) -> Seq(S)] :
           \A k \in 0 .. Len(seq) : f[k] = NextSelection(f, seq, Keep, k)
    <2>1. Len(seq) \in Solved(S, seq, Keep)
      BY AllSolved
    <2> QED BY <2>1 DEF Solved
  <1>2. f = [n \in 0 .. Len(seq) |-> NextSelection(f, seq, Keep, n)]
    BY <1>1
  <1>3. \E g : g = [n \in 0 .. Len(seq) |-> NextSelection(g, seq, Keep, n)]
    BY <1>2
  <1> QED BY <1>3 DEF Selections, NextSelection

LEMMA SelectionsAt ==
    ASSUME NEW S, NEW Keep, NEW seq \in Seq(S), NEW n \in 0 .. Len(seq)
    PROVE  Selections(seq, Keep)[n] = NextSelection(Selections(seq, Keep), seq, Keep, n)
  <1> DEFINE F == Selections(seq, Keep)
  <1>1. F = [k \in 0 .. Len(seq) |-> NextSelection(F, seq, Keep, k)]
    BY SelectionsIs
  <1> HIDE DEF F
  <1>2. F[n] = NextSelection(F, seq, Keep, n)
    BY <1>1
  <1> QED BY <1>2 DEF F

LEMMA SelectionsType ==
    ASSUME NEW S, NEW Keep, NEW seq \in Seq(S)
    PROVE  \A n \in 0 .. Len(seq) : Selections(seq, Keep)[n] \in Seq(S \cap Keep)
  <1> DEFINE F == Selections(seq, Keep)
             T == {n \in 0 .. Len(seq) : F[n] \in Seq(S \cap Keep)}
  <1>1. 0 \in T
    <2>1. F[0] = <<>>
      BY SelectionsAt DEF NextSelection
    <2>2. <<>> \in Seq(S \cap Keep) /\ 0 \in 0 .. Len(seq)
      OBVIOUS
    <2> HIDE DEF F
    <2> QED BY <2>1, <2>2
  <1>2. ASSUME NEW k \in 1 .. Len(seq), k - 1 \in T PROVE k \in T
    <2>1. k \in 0 .. Len(seq) /\ k # 0 /\ seq[k] \in S
      OBVIOUS
    <2>2. F[k] = IF seq[k] \in Keep THEN Append(F[k - 1], seq[k]) ELSE F[k - 1]
      BY <2>1, SelectionsAt DEF NextSelection
    <2> HIDE DEF F
    <2>3. F[k - 1] \in Seq(S \cap Keep)
      BY <1>2
    <2>4. F[k] \in Seq(S \cap Keep)
      BY <2>1, <2>2, <2>3
    <2> QED BY <2>1, <2>4
  <1>3. Len(seq) \in Nat
    OBVIOUS
  <1> HIDE DEF T
  <1>4. \A k \in 0 .. Len(seq) : k \in T
    BY <1>1, <1>2, <1>3, SetInduction
  <1> QED BY <1>4 DEF T

\* Only elements of both sets are selected.
LEMMA SelectType ==
    ASSUME NEW S, NEW Keep, NEW seq \in Seq(S)
    PROVE  Select(seq, Keep) \in Seq(S \cap Keep)
  <1>1. Len(seq) \in 0 .. Len(seq)
    OBVIOUS
  <1> QED BY <1>1, SelectionsType DEF Select

LEMMA SelectEmpty ==
    ASSUME NEW Keep
    PROVE  Select(<<>>, Keep) = <<>>
  <1> DEFINE none == <<>>
  <1>1. none \in Seq({}) /\ Len(none) = 0 /\ 0 \in 0 .. Len(none)
    OBVIOUS
  <1>2. NextSelection(Selections(none, Keep), none, Keep, 0) = <<>>
    BY DEF NextSelection
  <1> HIDE DEF none
  <1>3. Selections(none, Keep)[0] = <<>>
    BY <1>1, <1>2, SelectionsAt
  <1> QED BY <1>1, <1>3 DEF Select, none

\* Up to the end of seq both have the same elements, and keep the same of them.
Alike(seq, Keep, longer, Other) ==
    /\ Len(seq) <= Len(longer)
    /\ \A n \in 1 .. Len(seq) : seq[n] = longer[n] /\ (seq[n] \in Keep <=> seq[n] \in Other)

\* What is selected from a prefix does not depend on the rest.
LEMMA SelectionsSame ==
    ASSUME NEW S, NEW Keep, NEW Other, NEW seq \in Seq(S), NEW longer \in Seq(S),
           Alike(seq, Keep, longer, Other)
    PROVE  \A n \in 0 .. Len(seq) : Selections(seq, Keep)[n] = Selections(longer, Other)[n]
  <1> DEFINE F == Selections(seq, Keep)
             G == Selections(longer, Other)
             T == {n \in 0 .. Len(seq) : F[n] = G[n]}
  <1>1. 0 \in T
    <2>1. 0 \in 0 .. Len(seq) /\ 0 \in 0 .. Len(longer)
      OBVIOUS
    <2>2. F[0] = <<>> /\ G[0] = <<>>
      BY <2>1, SelectionsAt DEF NextSelection
    <2> HIDE DEF F, G
    <2> QED BY <2>1, <2>2
  <1>2. ASSUME NEW k \in 1 .. Len(seq), k - 1 \in T PROVE k \in T
    <2>1. /\ k \in 0 .. Len(seq) /\ k \in 0 .. Len(longer) /\ k # 0
          /\ seq[k] = longer[k] /\ (seq[k] \in Keep <=> seq[k] \in Other)
      BY DEF Alike
    <2>2. F[k] = IF seq[k] \in Keep THEN Append(F[k - 1], seq[k]) ELSE F[k - 1]
      BY <2>1, SelectionsAt DEF NextSelection
    <2>3. G[k] = IF longer[k] \in Other THEN Append(G[k - 1], longer[k]) ELSE G[k - 1]
      BY <2>1, SelectionsAt DEF NextSelection
    <2> HIDE DEF F, G
    <2>4. F[k - 1] = G[k - 1]
      BY <1>2
    <2> QED BY <2>1, <2>2, <2>3, <2>4
  <1>3. Len(seq) \in Nat
    OBVIOUS
  <1> HIDE DEF T
  <1>4. \A k \in 0 .. Len(seq) : k \in T
    BY <1>1, <1>2, <1>3, SetInduction
  <1> QED BY <1>4 DEF T

LEMMA SelectSame ==
    ASSUME NEW S, NEW Keep, NEW Other, NEW seq \in Seq(S),
           \A n \in 1 .. Len(seq) : seq[n] \in Keep <=> seq[n] \in Other
    PROVE  Select(seq, Keep) = Select(seq, Other)
  <1>1. Len(seq) \in 0 .. Len(seq)
    OBVIOUS
  <1>2. Alike(seq, Keep, seq, Other)
    BY DEF Alike
  <1> QED BY <1>1, <1>2, SelectionsSame DEF Select

\* What is appended does not change the selection from the elements before.
LEMMA SelectionsAppend ==
    ASSUME NEW S, NEW Keep, NEW seq \in Seq(S), NEW e \in S, NEW n \in 0 .. Len(seq)
    PROVE  Selections(Append(seq, e), Keep)[n] = Selections(seq, Keep)[n]
  <1> DEFINE longer == Append(seq, e)
  <1>1. longer \in Seq(S) /\ Len(seq) <= Len(longer) /\ \A k \in 1 .. Len(seq) : seq[k] = longer[k]
    OBVIOUS
  <1> HIDE DEF longer
  <1>2. Alike(seq, Keep, longer, Keep)
    BY <1>1 DEF Alike
  <1>3. Selections(seq, Keep)[n] = Selections(longer, Keep)[n]
    BY <1>1, <1>2, SelectionsSame
  <1> QED BY <1>3 DEF longer

LEMMA SelectAppend ==
    ASSUME NEW S, NEW Keep, NEW seq \in Seq(S), NEW e \in S
    PROVE  Select(Append(seq, e), Keep) =
             IF e \in Keep THEN Append(Select(seq, Keep), e) ELSE Select(seq, Keep)
  <1> DEFINE n == Len(seq)
             longer == Append(seq, e)
  <1>1. /\ longer \in Seq(S) /\ Len(longer) = n + 1 /\ longer[n + 1] = e
        /\ n \in Nat /\ n + 1 \in 0 .. Len(longer) /\ n \in 0 .. Len(seq) /\ (n + 1) - 1 = n
    OBVIOUS
  <1>3. Selections(seq, Keep)[n] = Selections(longer, Keep)[n]
    BY <1>1, SelectionsAppend
  <1> HIDE DEF longer
  <1>4. Selections(longer, Keep)[n + 1] = NextSelection(Selections(longer, Keep), longer, Keep, n + 1)
    BY <1>1, SelectionsAt
  <1>5. n + 1 # 0
    BY <1>1
  <1> QED BY <1>1, <1>3, <1>4, <1>5 DEF Select, NextSelection, longer

\* The next element is selected or not.
LEMMA SelectionsNext ==
    ASSUME NEW S, NEW Keep, NEW seq \in Seq(S), NEW n \in 1 .. Len(seq)
    PROVE  Selections(seq, Keep)[n] =
             IF seq[n] \in Keep THEN Append(Selections(seq, Keep)[n - 1], seq[n])
             ELSE Selections(seq, Keep)[n - 1]
  <1>1. n \in 0 .. Len(seq) /\ n # 0
    OBVIOUS
  <1> QED BY <1>1, SelectionsAt DEF NextSelection

\* Elements that are not kept add nothing to the selection.
LEMMA SelectionsSkip ==
    ASSUME NEW S, NEW Keep, NEW seq \in Seq(S), NEW n \in 0 .. Len(seq), NEW m \in n .. Len(seq),
           \A i \in n + 1 .. m : seq[i] \notin Keep
    PROVE  Selections(seq, Keep)[m] = Selections(seq, Keep)[n]
  <1> DEFINE F == Selections(seq, Keep)
             T == {k \in 0 .. m - n : F[n + k] = F[n]}
  <1>1. 0 \in T
    OBVIOUS
  <1>2. ASSUME NEW k \in 1 .. m - n, k - 1 \in T PROVE k \in T
    <2>1. /\ n + k \in 1 .. Len(seq) /\ n + k \in n + 1 .. m /\ k \in 0 .. m - n
          /\ (n + k) - 1 = n + (k - 1)
      OBVIOUS
    <2>2. F[n + k] = F[(n + k) - 1]
      BY <2>1, SelectionsNext
    <2> HIDE DEF F
    <2> QED BY <1>2, <2>1, <2>2
  <1>3. m - n \in Nat /\ n + (m - n) = m /\ m - n \in 0 .. m - n
    OBVIOUS
  <1> HIDE DEF T
  <1>4. \A k \in 0 .. m - n : k \in T
    BY <1>1, <1>2, <1>3, SetInduction
  <1>5. m - n \in T
    BY <1>3, <1>4
  <1> QED BY <1>3, <1>5 DEF T

Begins(start, seq) ==
    Len(start) <= Len(seq) /\ \A i \in 1 .. Len(start) : seq[i] = start[i]

\* The selection from the first elements is the beginning of the whole one.
LEMMA SelectionsBegin ==
    ASSUME NEW S, NEW Keep, NEW seq \in Seq(S), NEW n \in 0 .. Len(seq)
    PROVE  Begins(Selections(seq, Keep)[n], Select(seq, Keep))
  <1> DEFINE F == Selections(seq, Keep)
             l == Len(seq)
             T == {k \in 0 .. l - n : Begins(F[n], F[n + k])}
  <1>0. \A k \in 0 .. l : F[k] \in Seq(S \cap Keep)
    BY SelectionsType
  <1>1. 0 \in T
    BY <1>0 DEF Begins
  <1>2. ASSUME NEW k \in 1 .. l - n, k - 1 \in T PROVE k \in T
    <2>1. /\ n + k \in 1 .. l /\ k \in 0 .. l - n /\ (n + k) - 1 = n + (k - 1)
          /\ n + (k - 1) \in 0 .. l
      OBVIOUS
    <2>2. F[n + k] = IF seq[n + k] \in Keep THEN Append(F[(n + k) - 1], seq[n + k])
                     ELSE F[(n + k) - 1]
      BY <2>1, SelectionsNext
    <2> DEFINE was == F[n + (k - 1)]
               first == F[n]
               e == seq[n + k]
    <2>3. was \in Seq(S \cap Keep) /\ first \in Seq(S \cap Keep) /\ e \in S
      BY <1>0, <2>1
    <2>4. Begins(first, was)
      BY <1>2
    <2>5. F[n + k] = was \/ (F[n + k] = Append(was, e) /\ e \in S \cap Keep)
      BY <2>1, <2>2, <2>3
    <2> HIDE DEF F, was, first, e
    <2>6. ASSUME e \in S \cap Keep PROVE Begins(first, Append(was, e))
      <3>1. /\ Len(Append(was, e)) = Len(was) + 1 /\ Len(was) \in Nat /\ Len(first) \in Nat
            /\ \A i \in 1 .. Len(was) : Append(was, e)[i] = was[i]
        BY <2>3, <2>6, AppendProperties, LenProperties
      <3> QED BY <2>4, <3>1 DEF Begins
    <2>7. Begins(first, F[n + k])
      BY <2>4, <2>5, <2>6
    <2> QED BY <2>1, <2>7 DEF first
  <1>3. l - n \in Nat /\ n + (l - n) = l /\ l - n \in 0 .. l - n
    OBVIOUS
  <1> HIDE DEF T
  <1>4. \A k \in 0 .. l - n : k \in T
    BY <1>1, <1>2, <1>3, SetInduction
  <1>5. l - n \in T
    BY <1>3, <1>4
  <1> QED BY <1>3, <1>5 DEF T, Select

\* p says where in seq the elements of the selection are, in increasing order,
\* and misses none of those up to n.
Places(p, selection, seq, Keep, n) ==
    /\ p \in [1 .. Len(selection) -> 1 .. n]
    /\ \A i \in 1 .. Len(selection) : selection[i] = seq[p[i]] /\ seq[p[i]] \in Keep
    /\ \A i, j \in 1 .. Len(selection) : i < j => p[i] < p[j]
    /\ \A k \in 1 .. n : seq[k] \in Keep => \E i \in 1 .. Len(selection) : p[i] = k

LEMMA PlacesSkip ==
    ASSUME NEW S, NEW Keep, NEW seq \in Seq(S), NEW selection \in Seq(S), NEW p,
           NEW n \in 1 .. Len(seq), Places(p, selection, seq, Keep, n - 1), seq[n] \notin Keep
    PROVE  Places(p, selection, seq, Keep, n)
  <1>1. \A k \in 1 .. n : k \in 1 .. n - 1 \/ k = n
    OBVIOUS
  <1>2. \A k \in 1 .. n - 1 : k \in 1 .. n
    OBVIOUS
  <1>3. p \in [1 .. Len(selection) -> 1 .. n]
    BY <1>2 DEF Places
  <1> QED BY <1>1, <1>3 DEF Places

LEMMA PlacesNext ==
    ASSUME NEW S, NEW Keep, NEW seq \in Seq(S), NEW selection \in Seq(S), NEW p,
           NEW n \in 1 .. Len(seq), Places(p, selection, seq, Keep, n - 1), seq[n] \in Keep
    PROVE  \E q : Places(q, Append(selection, seq[n]), seq, Keep, n)
  <1> DEFINE longer == Append(selection, seq[n])
             last == Len(selection) + 1
             q == [i \in 1 .. last |-> IF i = last THEN n ELSE p[i]]
  <1>1. /\ Len(longer) = last /\ last \in Nat /\ last \in 1 .. last
        /\ \A i \in 1 .. last : longer[i] = IF i = last THEN seq[n] ELSE selection[i]
        /\ \A i \in 1 .. last : i = last \/ i \in 1 .. Len(selection)
        /\ \A i \in 1 .. Len(selection) : i \in 1 .. last /\ i < last
    OBVIOUS
  <1> HIDE DEF longer
  <1>2. \A i \in 1 .. Len(selection) : p[i] \in 1 .. n - 1 /\ q[i] = p[i] /\ i \in Nat
    <2>1. \A i \in 1 .. Len(selection) : p[i] \in 1 .. n - 1
      BY DEF Places
    <2>2. \A i \in 1 .. Len(selection) : i \in 1 .. last /\ i # last /\ i \in Nat
      OBVIOUS
    <2> QED BY <2>1, <2>2
  <1>3. q[last] = n /\ n \in Nat
    BY <1>1
  <1>4. q \in [1 .. last -> 1 .. n]
    <2>1. (\A i \in 1 .. n - 1 : i \in 1 .. n) /\ n \in 1 .. n
      OBVIOUS
    <2>2. \A i \in 1 .. last : (IF i = last THEN n ELSE p[i]) \in 1 .. n
      BY <1>1, <1>2, <2>1
    <2> QED BY <2>2
  <1> HIDE DEF q, last
  <1>5. \A i \in 1 .. last : longer[i] = seq[q[i]] /\ seq[q[i]] \in Keep
    BY <1>1, <1>2, <1>3 DEF Places
  <1>6. ASSUME NEW i \in 1 .. last, NEW j \in 1 .. last, i < j PROVE q[i] < q[j]
    <2>1. i \in 1 .. Len(selection)
      BY <1>1, <1>6
    <2>2. CASE j = last
      BY <1>2, <1>3, <2>1, <2>2
    <2>3. CASE j \in 1 .. Len(selection)
      BY <1>2, <1>6, <2>1, <2>3 DEF Places
    <2> QED BY <1>1, <2>2, <2>3
  <1>7. ASSUME NEW k \in 1 .. n, seq[k] \in Keep PROVE \E i \in 1 .. last : q[i] = k
    <2>1. CASE k = n
      BY <1>1, <1>3, <2>1
    <2>2. CASE k # n
      <3>1. k \in 1 .. n - 1
        BY <2>2
      <3>2. PICK i \in 1 .. Len(selection) : p[i] = k
        BY <1>7, <3>1 DEF Places
      <3> QED BY <1>1, <1>2, <3>2
    <2> QED BY <2>1, <2>2
  <1>8. Places(q, longer, seq, Keep, n)
    BY <1>1, <1>4, <1>5, <1>6, <1>7 DEF Places
  <1> QED BY <1>8 DEF longer

\* The selection is the elements in Keep, each in its order.
LEMMA SelectPlaces ==
    ASSUME NEW S, NEW Keep, NEW seq \in Seq(S)
    PROVE  \E p : Places(p, Select(seq, Keep), seq, Keep, Len(seq))
  <1> DEFINE F == Selections(seq, Keep)
             T == {n \in 0 .. Len(seq) : \E p : Places(p, F[n], seq, Keep, n)}
  <1>1. 0 \in T
    <2>0. 0 \in 0 .. Len(seq)
      OBVIOUS
    <2>1. F[0] = <<>> /\ 0 \in 0 .. Len(seq)
      BY <2>0, SelectionsAt DEF NextSelection
    <2>2. Places(<<>>, <<>>, seq, Keep, 0)
      BY DEF Places
    <2> HIDE DEF F
    <2> QED BY <2>1, <2>2
  <1>2. ASSUME NEW k \in 1 .. Len(seq), k - 1 \in T PROVE k \in T
    <2>1. k \in 0 .. Len(seq) /\ k # 0 /\ k - 1 \in 0 .. Len(seq)
      OBVIOUS
    <2>2. F[k] = IF seq[k] \in Keep THEN Append(F[k - 1], seq[k]) ELSE F[k - 1]
      BY <2>1, SelectionsAt DEF NextSelection
    <2>3. F[k - 1] \in Seq(S)
      <3>1. F[k - 1] \in Seq(S \cap Keep)
        BY <2>1, SelectionsType
      <3> HIDE DEF F
      <3> QED BY <3>1
    <2> HIDE DEF F
    <2>4. PICK p : Places(p, F[k - 1], seq, Keep, k - 1)
      BY <1>2
    <2>5. \E q : Places(q, F[k], seq, Keep, k)
      BY <2>2, <2>3, <2>4, PlacesSkip, PlacesNext
    <2> QED BY <2>1, <2>5
  <1>3. Len(seq) \in Nat /\ Len(seq) \in 0 .. Len(seq)
    OBVIOUS
  <1> HIDE DEF T
  <1>4. \A k \in 0 .. Len(seq) : k \in T
    BY <1>1, <1>2, <1>3, SetInduction
  <1> QED BY <1>3, <1>4 DEF T, Select
=============================================================================
