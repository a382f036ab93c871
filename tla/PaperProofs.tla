---------------------------- MODULE PaperProofs ----------------------------
(***************************************************************************)
(* The paper venue: its ledger, which accounts for every unit of cash and  *)
(* every share, the journal that follows it through replies, snapshots,    *)
(* lookups and cancellations, and the venue contract that it implements.   *)
(***************************************************************************)
EXTENDS PaperTrading, FiniteSetTheorems, WellFoundedInduction, TLAPS

-----------------------------------------------------------------------------
(* Induction and sums.  An order on the naturals in which every set has a   *)
(* least element gives induction without an operator as a parameter.        *)

\* LeastNumber: a set of numbers that is not empty has a least element.
LEMMA LeastNumber ==
  ASSUME NEW T, T \subseteq Nat, T # {}
  PROVE  \E m \in T : \A n \in T : m <= n
<1> DEFINE R == OpToRel(<, Nat)
<1>1. IsWellFoundedOn(R, Nat)
  BY NatLessThanWellFounded
<1>2. PICK x \in T : \A y \in T : ~ (<<y, x>> \in R)
  <2> HIDE DEF R
  <2> QED BY <1>1, WFMin
<1>3. \A x1, y \in Nat : x1 < y => <<x1, y>> \in R
  BY DEF OpToRel
<1> HIDE DEF R
<1>4. \A y \in T : x <= y
  <2> SUFFICES ASSUME NEW y \in T PROVE x <= y
    OBVIOUS
  <2>1. x \in Nat /\ y \in Nat /\ ~(y < x)
    BY <1>2, <1>3
  <2> QED BY <2>1
<1> QED BY <1>4

\* Induction: a set of numbers with 0 that is closed under successor is Nat.
LEMMA Induction ==
  ASSUME NEW T, T \subseteq Nat, 0 \in T, \A n \in T : n + 1 \in T
  PROVE  T = Nat
<1> SUFFICES ASSUME Nat \ T # {} PROVE FALSE
  OBVIOUS
<1>1. PICK m \in Nat \ T : \A n \in Nat \ T : m <= n
  BY LeastNumber
<1>2. m # 0 /\ m - 1 \in Nat /\ ~(m <= m - 1) /\ (m - 1) + 1 = m
  OBVIOUS
<1>3. m - 1 \in T
  BY <1>1, <1>2
<1> QED BY <1>2, <1>3

\* The element that the folds take from a set next, and what they then do.
Chosen(s) == CHOOSE x \in s : TRUE
SumStep(f, S, g) ==
  [s \in SUBSET S |-> IF s = {} THEN 0 ELSE f[Chosen(s)] + g[s \ {Chosen(s)}]]

\* ChosenInSet: the folds take an element of the set.
LEMMA ChosenInSet == ASSUME NEW s, s # {} PROVE Chosen(s) \in s
  BY DEF Chosen

\* SubsetCardinality: a subset of a finite set is finite and not larger, and
\* smaller without one of its elements.
LEMMA SubsetCardinality ==
  ASSUME NEW S, IsFiniteSet(S), NEW s \in SUBSET S
  PROVE  /\ IsFiniteSet(s) /\ Cardinality(s) \in Nat /\ Cardinality(s) <= Cardinality(S)
         /\ Cardinality(S) \in Nat
         /\ Cardinality(s) = 0 => s = {}
         /\ \A x \in s : /\ s \ {x} \in SUBSET S
                         /\ Cardinality(s \ {x}) = Cardinality(s) - 1
<1>1. /\ IsFiniteSet(s) /\ Cardinality(s) \in Nat /\ Cardinality(S) \in Nat
      /\ Cardinality(s) <= Cardinality(S)
  BY FS_Subset, FS_CardinalityType
<1>2. Cardinality(s) = 0 => s = {}
  BY <1>1, FS_EmptySet
<1>3. ASSUME NEW x \in s
      PROVE s \ {x} \in SUBSET S /\ Cardinality(s \ {x}) = Cardinality(s) - 1
  BY <1>1, FS_RemoveElement
<1> QED BY <1>1, <1>2, <1>3

\* SumExists: the recursion equation of a sum over a finite set has a solution.
LEMMA SumExists ==
  ASSUME NEW f, NEW S, IsFiniteSet(S)
  PROVE  \E g : g = SumStep(f, S, g)
<1> DEFINE Upto(n, g) ==
             /\ g = [s \in SUBSET S |-> g[s]]
             /\ \A s \in SUBSET S : Cardinality(s) <= n => g[s] = SumStep(f, S, g)[s]
           T == {n \in Nat : \E g : Upto(n, g)}
<1>1. 0 \in T
  <2> DEFINE g == [s \in SUBSET S |-> 0]
  <2>1. ASSUME NEW s \in SUBSET S, Cardinality(s) <= 0
        PROVE  g[s] = SumStep(f, S, g)[s]
    BY <2>1, SubsetCardinality DEF SumStep
  <2>2. g = [s \in SUBSET S |-> g[s]]
    OBVIOUS
  <2>3. Upto(0, g)
    BY <2>1, <2>2
  <2> QED BY <2>3
<1>2. ASSUME NEW n \in T PROVE n + 1 \in T
  <2>1. PICK g : Upto(n, g)
    OBVIOUS
  <2> DEFINE h == SumStep(f, S, g)
  <2>2. ASSUME NEW s \in SUBSET S, Cardinality(s) <= n + 1
        PROVE  h[s] = SumStep(f, S, h)[s]
    <3>1. CASE s = {}
      BY <3>1 DEF SumStep
    <3>2. CASE s # {}
      <4> DEFINE r == s \ {Chosen(s)}
      <4>1. r \in SUBSET S /\ Cardinality(r) <= n
        <5>1. Chosen(s) \in s
          BY <3>2, ChosenInSet
        <5>2. r \in SUBSET S /\ Cardinality(r) = Cardinality(s) - 1 /\ Cardinality(s) \in Nat
          BY <5>1, SubsetCardinality
        <5> QED BY <2>2, <5>2
      <4>2. g[r] = h[r]
        BY <2>1, <4>1
      <4>3. h[s] = f[Chosen(s)] + g[r]
        BY <3>2 DEF SumStep
      <4>4. SumStep(f, S, h)[s] = f[Chosen(s)] + h[r]
        BY <3>2 DEF SumStep
      <4> QED BY <4>2, <4>3, <4>4
    <3> QED BY <3>1, <3>2
  <2>3. h = [s \in SUBSET S |-> h[s]]
    BY DEF SumStep
  <2>4. Upto(n + 1, h)
    BY <2>2, <2>3
  <2>5. n + 1 \in Nat
    OBVIOUS
  <2> HIDE DEF h, Upto
  <2> QED BY <2>4, <2>5
<1>3. T = Nat
  <2> HIDE DEF T
  <2>1. T \subseteq Nat
    BY DEF T
  <2> QED BY <1>1, <1>2, <2>1, Induction
<1>4. PICK g : Upto(Cardinality(S), g)
  BY <1>3, FS_CardinalityType
<1> DEFINE h == SumStep(f, S, g)
<1>5. \A s \in SUBSET S : g[s] = h[s]
  BY <1>4, SubsetCardinality
<1>6. h = [s \in SUBSET S |-> h[s]]
  BY DEF SumStep
<1>7. g = h
  <2> HIDE DEF h
  <2>1. [s \in SUBSET S |-> g[s]] = [s \in SUBSET S |-> h[s]]
    BY <1>5
  <2> QED BY <1>4, <1>6, <2>1
<1> QED BY <1>7

\* SumUnfolds: a sum is a value of a solution of its recursion equation.
LEMMA SumUnfolds ==
  ASSUME NEW f, NEW S, IsFiniteSet(S)
  PROVE  \E g : g = SumStep(f, S, g) /\ SumFunctionOnSet(f, S) = g[S]
<1> DEFINE it == CHOOSE g : g = SumStep(f, S, g)
<1>1. it = SumStep(f, S, it)
  BY SumExists
<1>2. SumFunctionOnSet(f, S) = it[S]
  BY DEF SumFunctionOnSet, FoldFunctionOnSet, MapThenFoldSet, SumStep, Chosen
<1> QED BY <1>1, <1>2

\* SetInduction: what holds for the empty set and is kept when the chosen element
\* is added holds for every subset of a finite set.
LEMMA SetInduction ==
  ASSUME NEW S, IsFiniteSet(S), NEW G, G \subseteq SUBSET S, {} \in G,
         \A s \in SUBSET S : s # {} /\ s \ {Chosen(s)} \in G => s \in G
  PROVE  G = SUBSET S
<1> DEFINE T == {n \in Nat : \A s \in SUBSET S : Cardinality(s) = n => s \in G}
<1>1. 0 \in T
  BY SubsetCardinality
<1>2. ASSUME NEW n \in T PROVE n + 1 \in T
  <2>1. ASSUME NEW s \in SUBSET S, Cardinality(s) = n + 1 PROVE s \in G
    <3>1. s # {}
      BY <2>1, FS_EmptySet
    <3>2. s \ {Chosen(s)} \in SUBSET S /\ Cardinality(s \ {Chosen(s)}) = n
      <4>1. Chosen(s) \in s
        BY <3>1, ChosenInSet
      <4>2. /\ s \ {Chosen(s)} \in SUBSET S
            /\ Cardinality(s \ {Chosen(s)}) = Cardinality(s) - 1
        BY <4>1, SubsetCardinality
      <4> QED BY <2>1, <4>2
    <3> QED BY <3>1, <3>2
  <2>2. n + 1 \in Nat
    OBVIOUS
  <2> QED BY <2>1, <2>2
<1>3. T = Nat
  <2> HIDE DEF T
  <2>1. T \subseteq Nat
    BY DEF T
  <2> QED BY <1>1, <1>2, <2>1, Induction
<1>4. ASSUME NEW s \in SUBSET S PROVE s \in G
  <2>1. Cardinality(s) \in T
    BY <1>3, SubsetCardinality
  <2> QED BY <2>1
<1> QED BY <1>4

\* SumRecursion: the equation in terms of sums alone.
LEMMA SumRecursion ==
  ASSUME NEW f, NEW S, IsFiniteSet(S)
  PROVE  /\ S = {} => SumFunctionOnSet(f, S) = 0
         /\ S # {} => SumFunctionOnSet(f, S)
                        = f[Chosen(S)] + SumFunctionOnSet(f, S \ {Chosen(S)})
<1>1. PICK g : g = SumStep(f, S, g) /\ SumFunctionOnSet(f, S) = g[S]
  BY SumUnfolds
<1>2. CASE S = {}
  BY <1>1, <1>2 DEF SumStep
<1>3. CASE S # {}
  <2> DEFINE x == Chosen(S)
             R == S \ {x}
  <2>1. x \in S /\ R \in SUBSET S /\ IsFiniteSet(R)
    BY <1>3, ChosenInSet, SubsetCardinality
  <2>2. PICK h : h = SumStep(f, R, h) /\ SumFunctionOnSet(f, R) = h[R]
    BY <2>1, SumUnfolds
  <2>3. g[S] = f[x] + g[R]
    BY <1>1, <1>3 DEF SumStep
  <2> DEFINE G == {s \in SUBSET R : g[s] = h[s]}
  <2>4. {} \in G
    BY <1>1, <2>2 DEF SumStep
  <2>5. ASSUME NEW s \in SUBSET R, s # {}, s \ {Chosen(s)} \in G PROVE s \in G
    <3>1. g[s] = f[Chosen(s)] + g[s \ {Chosen(s)}]
      BY <1>1, <2>1, <2>5 DEF SumStep
    <3>2. h[s] = f[Chosen(s)] + h[s \ {Chosen(s)}]
      BY <2>2, <2>5 DEF SumStep
    <3> QED BY <2>5, <3>1, <3>2
  <2>6. G = SUBSET R
    <3> HIDE DEF G
    <3>1. G \subseteq SUBSET R
      BY DEF G
    <3> QED BY <2>1, <2>4, <2>5, <3>1, SetInduction
  <2>7. g[R] = h[R]
    BY <2>6
  <2> QED BY <1>1, <1>3, <2>2, <2>3, <2>7
<1> QED BY <1>2, <1>3

\* SumType: a sum of integers is an integer, one of naturals a natural.
LEMMA SumType ==
  ASSUME NEW S, IsFiniteSet(S), NEW f
  PROVE  /\ (\A x \in S : f[x] \in Int) => SumFunctionOnSet(f, S) \in Int
         /\ (\A x \in S : f[x] \in Nat) => SumFunctionOnSet(f, S) \in Nat
<1>1. ASSUME NEW N, 0 \in N, \A a, b \in N : a + b \in N, \A x \in S : f[x] \in N
      PROVE  SumFunctionOnSet(f, S) \in N
  <2> DEFINE G == {s \in SUBSET S : SumFunctionOnSet(f, s) \in N}
  <2>1. {} \in G
    BY <1>1, SumRecursion, FS_EmptySet
  <2>2. ASSUME NEW s \in SUBSET S, s # {}, s \ {Chosen(s)} \in G PROVE s \in G
    <3>1. Chosen(s) \in s /\ IsFiniteSet(s)
      BY <2>2, ChosenInSet, SubsetCardinality
    <3>2. f[Chosen(s)] \in N /\ SumFunctionOnSet(f, s \ {Chosen(s)}) \in N
      BY <1>1, <2>2, <3>1
    <3>3. SumFunctionOnSet(f, s) = f[Chosen(s)] + SumFunctionOnSet(f, s \ {Chosen(s)})
      BY <2>2, <3>1, SumRecursion
    <3> QED BY <1>1, <3>2, <3>3
  <2>3. G = SUBSET S
    <3> HIDE DEF G
    <3>1. G \subseteq SUBSET S
      BY DEF G
    <3> QED BY <2>1, <2>2, <3>1, SetInduction
  <2> QED BY <2>3
<1>2. 0 \in Int /\ 0 \in Nat /\ (\A a, b \in Int : a + b \in Int)
      /\ (\A a, b \in Nat : a + b \in Nat)
  OBVIOUS
<1> QED BY <1>1, <1>2

\* SumCongruence: a sum depends on the function only through its values on the set.
LEMMA SumCongruence ==
  ASSUME NEW S, IsFiniteSet(S), NEW f, NEW g, \A x \in S : f[x] = g[x]
  PROVE  SumFunctionOnSet(f, S) = SumFunctionOnSet(g, S)
<1> DEFINE G == {s \in SUBSET S : SumFunctionOnSet(f, s) = SumFunctionOnSet(g, s)}
<1>1. {} \in G
  BY SumRecursion, FS_EmptySet
<1>2. ASSUME NEW s \in SUBSET S, s # {}, s \ {Chosen(s)} \in G PROVE s \in G
  <2>1. Chosen(s) \in s /\ IsFiniteSet(s)
    BY <1>2, ChosenInSet, SubsetCardinality
  <2>2. SumFunctionOnSet(f, s) = f[Chosen(s)] + SumFunctionOnSet(f, s \ {Chosen(s)})
    BY <1>2, <2>1, SumRecursion
  <2>3. SumFunctionOnSet(g, s) = g[Chosen(s)] + SumFunctionOnSet(g, s \ {Chosen(s)})
    BY <1>2, <2>1, SumRecursion
  <2> QED BY <1>2, <2>1, <2>2, <2>3
<1>3. G = SUBSET S
  <2> HIDE DEF G
  <2>1. G \subseteq SUBSET S
    BY DEF G
  <2> QED BY <1>1, <1>2, <2>1, SetInduction
<1> QED BY <1>3

\* SumRemove: any element, not only the chosen one, can be split off a sum.
LEMMA SumRemove ==
  ASSUME NEW S, IsFiniteSet(S), NEW f, \A x \in S : f[x] \in Int, NEW x \in S
  PROVE  SumFunctionOnSet(f, S) = f[x] + SumFunctionOnSet(f, S \ {x})
<1> DEFINE Splits(s) == \A y \in s :
             SumFunctionOnSet(f, s) = f[y] + SumFunctionOnSet(f, s \ {y})
           T == {n \in Nat : \A s \in SUBSET S : Cardinality(s) = n => Splits(s)}
<1>1. 0 \in T
  <2>1. ASSUME NEW s \in SUBSET S, Cardinality(s) = 0 PROVE Splits(s)
    <3>1. s = {}
      BY <2>1, SubsetCardinality
    <3> QED BY <3>1
  <2> QED BY <2>1
<1>2. ASSUME NEW n \in T PROVE n + 1 \in T
  <2>1. ASSUME NEW s \in SUBSET S, Cardinality(s) = n + 1 PROVE Splits(s)
    <3> DEFINE c == Chosen(s)
    <3>1. s # {} /\ IsFiniteSet(s)
      BY <2>1, FS_EmptySet, SubsetCardinality
    <3>2. c \in s
      BY <3>1, ChosenInSet
    <3>3. SumFunctionOnSet(f, s) = f[c] + SumFunctionOnSet(f, s \ {c})
      BY <3>1, SumRecursion
    <3>4. ASSUME NEW y \in s
          PROVE  SumFunctionOnSet(f, s) = f[y] + SumFunctionOnSet(f, s \ {y})
      <4>1. CASE y = c
        BY <3>3, <4>1
      <4>2. CASE y # c
        <5>1. /\ s \ {c} \in SUBSET S /\ Cardinality(s \ {c}) = Cardinality(s) - 1
              /\ s \ {y} \in SUBSET S /\ Cardinality(s \ {y}) = Cardinality(s) - 1
          BY <3>2, SubsetCardinality
        <5>2. Cardinality(s \ {c}) = n /\ Cardinality(s \ {y}) = n
          BY <2>1, <5>1
        <5>3. Splits(s \ {c}) /\ Splits(s \ {y})
          BY <5>1, <5>2
        <5>4. y \in s \ {c} /\ c \in s \ {y} /\ (s \ {c}) \ {y} = (s \ {y}) \ {c}
          BY <3>2, <4>2
        <5> DEFINE rest == SumFunctionOnSet(f, (s \ {y}) \ {c})
        <5>5. SumFunctionOnSet(f, s \ {c}) = f[y] + rest
          BY <5>3, <5>4
        <5>6. SumFunctionOnSet(f, s \ {y}) = f[c] + rest
          BY <5>3, <5>4
        <5>7. rest \in Int
          <6>1. (s \ {y}) \ {c} \in SUBSET S
            OBVIOUS
          <6>2. IsFiniteSet((s \ {y}) \ {c})
            BY <6>1, SubsetCardinality
          <6> QED BY <6>1, <6>2, SumType
        <5>8. f[c] \in Int /\ f[y] \in Int
          BY <3>2
        <5> HIDE DEF rest, c
        <5> QED BY <3>3, <5>5, <5>6, <5>7, <5>8
      <4> QED BY <4>1, <4>2
    <3> QED BY <3>4
  <2>2. n + 1 \in Nat
    OBVIOUS
  <2> QED BY <2>1, <2>2
<1>3. T = Nat
  <2> HIDE DEF T
  <2>1. T \subseteq Nat
    BY DEF T
  <2> QED BY <1>1, <1>2, <2>1, Induction
<1>4. Cardinality(S) \in T /\ S \in SUBSET S
  BY <1>3, FS_CardinalityType
<1> QED BY <1>4

\* SumChange: a sum whose function changes at one element changes by as much.
LEMMA SumChange ==
  ASSUME NEW S, IsFiniteSet(S), NEW f, NEW g, NEW x \in S,
         \A y \in S : f[y] \in Int /\ g[y] \in Int,
         \A y \in S \ {x} : g[y] = f[y]
  PROVE  SumFunctionOnSet(g, S) = SumFunctionOnSet(f, S) + g[x] - f[x]
<1> DEFINE rest == SumFunctionOnSet(f, S \ {x})
<1>0. IsFiniteSet(S \ {x})
  BY FS_RemoveElement
<1>1. SumFunctionOnSet(f, S) = f[x] + rest
  BY SumRemove
<1>2. SumFunctionOnSet(g, S) = g[x] + SumFunctionOnSet(g, S \ {x})
  BY SumRemove
<1>3. SumFunctionOnSet(g, S \ {x}) = rest
  BY <1>0, SumCongruence
<1>4. rest \in Int /\ f[x] \in Int /\ g[x] \in Int
  BY <1>0, SumType
<1> HIDE DEF rest
<1> QED BY <1>1, <1>2, <1>3, <1>4

\* SumExtend: a sum over one more element; the function may have changed elsewhere.
LEMMA SumExtend ==
  ASSUME NEW S, IsFiniteSet(S), NEW f, NEW g, NEW x, x \notin S,
         \A y \in S : f[y] \in Int, g[x] \in Int,
         \A y \in S : g[y] = f[y]
  PROVE  SumFunctionOnSet(g, S \cup {x}) = SumFunctionOnSet(f, S) + g[x]
<1> DEFINE R == S \cup {x}
<1>1. IsFiniteSet(R) /\ R \ {x} = S /\ x \in R
  BY FS_AddElement
<1>2. \A y \in R : g[y] \in Int
  OBVIOUS
<1>3. SumFunctionOnSet(g, R) = g[x] + SumFunctionOnSet(g, S)
  BY <1>1, <1>2, SumRemove
<1>4. SumFunctionOnSet(g, S) = SumFunctionOnSet(f, S) /\ SumFunctionOnSet(f, S) \in Int
  BY SumCongruence, SumType
<1> HIDE DEF R
<1>5. SumFunctionOnSet(g, R) = SumFunctionOnSet(f, S) + g[x]
  BY <1>3, <1>4
<1> QED BY <1>5 DEF R

\* SumMember: no summand of a sum of naturals is larger than the sum.
LEMMA SumMember ==
  ASSUME NEW S, IsFiniteSet(S), NEW f, \A y \in S : f[y] \in Nat, NEW x \in S
  PROVE  f[x] <= SumFunctionOnSet(f, S)
<1>1. IsFiniteSet(S \ {x})
  BY FS_RemoveElement
<1>2. SumFunctionOnSet(f, S) = f[x] + SumFunctionOnSet(f, S \ {x})
  BY SumRemove
<1>3. SumFunctionOnSet(f, S \ {x}) \in Nat /\ f[x] \in Nat
  BY <1>1, SumType
<1> QED BY <1>2, <1>3

-----------------------------------------------------------------------------
(* The fold of a trade-through                                             *)

\* LargestNumber: Max is the largest element of a set of positions.
LEMMA LargestNumber ==
  ASSUME NEW n \in Nat, NEW s \in SUBSET (1..n), s # {}
  PROVE  Max(s) \in s /\ \A y \in s : y <= Max(s)
<1> DEFINE T == {n - x : x \in s}
<1>1. T \subseteq Nat /\ T # {}
  <2>1. ASSUME NEW x \in s PROVE n - x \in Nat /\ n - x \in T
    <3>1. x \in 1..n
      OBVIOUS
    <3>2. n - x \in Nat
      BY <3>1
    <3> QED BY <3>2
  <2> QED BY <2>1
<1>2. PICK m \in T : \A y \in T : m <= y
  BY <1>1, LeastNumber
<1>3. PICK x \in s : m = n - x
  OBVIOUS
<1>4. ASSUME NEW y \in s PROVE x >= y
  <2>1. n - x <= n - y /\ x \in 1..n /\ y \in 1..n
    BY <1>2, <1>3
  <2> QED BY <2>1
<1>5. Max(s) \in s /\ \A y \in s : Max(s) >= y
  BY <1>4 DEF Max
<1> QED BY <1>5

\* What a trade-through makes of its variables before position k is looked at, as
\* a function of the positions seen so far.
SweepStart(t, size) ==
  [size |-> size, account |-> account, inv |-> inventory[t], paper |-> paper,
   overdrawn |-> FALSE]
SweepStep(e, t, price, size, n, g) ==
  [s \in SUBSET (1..n) |->
     IF s = {} THEN SweepStart(t, size)
     ELSE FillOrder(e, t, price, g[s \ {Max(s)}], SubSeq(book, 1, n)[Max(s)])]

\* SweepExists: the recursion equation of the fold has a solution.
LEMMA SweepExists ==
  ASSUME NEW e, NEW t, NEW price, NEW size, NEW n \in Nat
  PROVE  \E g : g = SweepStep(e, t, price, size, n, g)
<1> DEFINE S == 1..n
           Step(g) == SweepStep(e, t, price, size, n, g)
           Upto(k, g) == /\ g = [s \in SUBSET S |-> g[s]]
                         /\ \A s \in SUBSET S : Cardinality(s) <= k => g[s] = Step(g)[s]
           T == {k \in Nat : \E g : Upto(k, g)}
<1>0. IsFiniteSet(S)
  BY FS_Interval
<1>1. 0 \in T
  <2> DEFINE g == [s \in SUBSET S |-> SweepStart(t, size)]
  <2>1. ASSUME NEW s \in SUBSET S, Cardinality(s) <= 0
        PROVE  g[s] = Step(g)[s]
    <3>1. Cardinality(s) \in Nat /\ (Cardinality(s) = 0 => s = {})
      BY <1>0, SubsetCardinality
    <3>2. s = {}
      BY <2>1, <3>1
    <3> QED BY <3>2 DEF SweepStep
  <2>2. g = [s \in SUBSET S |-> g[s]]
    OBVIOUS
  <2>3. Upto(0, g)
    BY <2>1, <2>2
  <2> HIDE DEF g, Upto
  <2> QED BY <2>3
<1>2. ASSUME NEW k \in T PROVE k + 1 \in T
  <2>1. PICK g : Upto(k, g)
    OBVIOUS
  <2> DEFINE h == Step(g)
  <2>2. ASSUME NEW s \in SUBSET S, Cardinality(s) <= k + 1
        PROVE  h[s] = Step(h)[s]
    <3>1. CASE s = {}
      BY <3>1 DEF SweepStep
    <3>2. CASE s # {}
      <4> DEFINE r == s \ {Max(s)}
      <4>1. r \in SUBSET S /\ Cardinality(r) <= k
        <5>1. Max(s) \in s
          BY <3>2, LargestNumber
        <5>2. r \in SUBSET S /\ Cardinality(r) = Cardinality(s) - 1 /\ Cardinality(s) \in Nat
          BY <1>0, <5>1, SubsetCardinality
        <5> QED BY <2>2, <5>2
      <4>2. g[r] = h[r]
        BY <2>1, <4>1
      <4>3. h[s] = FillOrder(e, t, price, g[r], SubSeq(book, 1, n)[Max(s)])
        BY <3>2 DEF SweepStep
      <4>4. Step(h)[s] = FillOrder(e, t, price, h[r], SubSeq(book, 1, n)[Max(s)])
        BY <3>2 DEF SweepStep
      <4> HIDE DEF h, r
      <4> QED BY <4>2, <4>3, <4>4
    <3> QED BY <3>1, <3>2
  <2>3. h = [s \in SUBSET S |-> h[s]]
    BY DEF SweepStep
  <2>4. Upto(k + 1, h)
    BY <2>2, <2>3
  <2>5. k + 1 \in Nat
    OBVIOUS
  <2> HIDE DEF h, Upto
  <2> QED BY <2>4, <2>5
<1>3. T = Nat
  <2> HIDE DEF T
  <2>1. T \subseteq Nat
    BY DEF T
  <2> QED BY <1>1, <1>2, <2>1, Induction
<1>4. PICK g : Upto(Cardinality(S), g)
  BY <1>0, <1>3, FS_CardinalityType
<1> DEFINE h == Step(g)
<1>5. \A s \in SUBSET S : g[s] = h[s]
  BY <1>0, <1>4, SubsetCardinality
<1>6. h = [s \in SUBSET S |-> h[s]]
  BY DEF SweepStep
<1>7. g = h
  <2> HIDE DEF h
  <2>1. [s \in SUBSET S |-> g[s]] = [s \in SUBSET S |-> h[s]]
    BY <1>5
  <2> QED BY <1>4, <1>6, <2>1
<1> QED BY <1>7

\* SweepRuns: a trade-through applies FillOrder to one order after the other.
LEMMA SweepRuns ==
  ASSUME NEW e, NEW t, NEW price, NEW size, book \in Seq(Intents), NEW n \in 0..Len(book)
  PROVE  \E after : /\ after[0] = SweepStart(t, size)
                    /\ \A k \in 1..n : after[k] = FillOrder(e, t, price, after[k - 1], book[k])
                    /\ SweepBook(e, t, price, size, n) = after[n]
<1> DEFINE it == CHOOSE g : g = SweepStep(e, t, price, size, n, g)
           after == [k \in 0..n |-> it[1..k]]
<1>0. n \in Nat
  OBVIOUS
<1>1. it = SweepStep(e, t, price, size, n, it)
  BY <1>0, SweepExists
<1>2. DOMAIN SubSeq(book, 1, n) = 1..n /\ \A k \in 1..n : SubSeq(book, 1, n)[k] = book[k]
  BY <1>0
<1>3. SweepBook(e, t, price, size, n) = it[1..n]
  BY <1>2 DEF SweepBook, FoldLeft, MapThenFoldSet, SweepStep, SweepStart
<1> HIDE DEF it
<1>4. after[0] = SweepStart(t, size)
  <2>1. 1..0 = {} /\ {} \in SUBSET (1..n) /\ 0 \in 0..n
    BY <1>0
  <2>2. it[{}] = SweepStart(t, size)
    BY <1>1, <2>1 DEF SweepStep
  <2> QED BY <2>1, <2>2
<1>5. ASSUME NEW k \in 1..n
      PROVE  after[k] = FillOrder(e, t, price, after[k - 1], book[k])
  <2> DEFINE s == 1..k
  <2>1. s \in SUBSET (1..n) /\ s # {} /\ k \in s /\ k \in 0..n /\ k - 1 \in 0..n
    BY <1>0
  <2>2. Max(s) = k
    <3>1. Max(s) \in s /\ k <= Max(s)
      BY <1>0, <2>1, LargestNumber
    <3> QED BY <3>1
  <2>3. s \ {k} = 1..(k - 1)
    OBVIOUS
  <2>4. it[s] = FillOrder(e, t, price, it[s \ {Max(s)}], SubSeq(book, 1, n)[Max(s)])
    BY <1>1, <2>1 DEF SweepStep
  <2>5. it[s] = FillOrder(e, t, price, it[1..(k - 1)], book[k])
    BY <1>2, <2>2, <2>3, <2>4
  <2> QED BY <2>1, <2>5
<1>6. after[n] = it[1..n]
  BY <1>0
<1> QED BY <1>3, <1>4, <1>5, <1>6

-----------------------------------------------------------------------------
(* The ledger                                                              *)

USE QtyAssumption, PriceAssumption, FeeAssumption, MaxEventsAssumption

\* FeeArithmetic: both fees are additive, and the larger amount costs more.
LEMMA FeeArithmetic ==
  /\ \A x \in Nat : WithFee(x) \in Nat /\ LessFee(x) \in Nat
  /\ \A x, y \in Nat : /\ WithFee(x + y) = WithFee(x) + WithFee(y)
                       /\ LessFee(x + y) = LessFee(x) + LessFee(y)
                       /\ x <= y => WithFee(x) <= WithFee(y)
  /\ WithFee(0) = 0 /\ LessFee(0) = 0
<1> DEFINE c == FeeDen + FeeNum
           d == FeeDen - FeeNum
<1>1. c \in Nat /\ d \in Nat
  OBVIOUS
<1>2. \A x : WithFee(x) = x * c /\ LessFee(x) = x * d
  BY DEF WithFee, LessFee
<1> HIDE DEF c, d
<1>3. \A x \in Nat : x * c \in Nat /\ x * d \in Nat
  BY <1>1
<1>4. \A x, y \in Nat : (x + y) * c = x * c + y * c /\ (x + y) * d = x * d + y * d
  BY <1>1
<1>5. ASSUME NEW x \in Nat, NEW y \in Nat, x <= y PROVE x * c <= y * c
  <2>1. PICK z \in Nat : y = x + z
    BY <1>5
  <2>2. (x + z) * c = x * c + z * c /\ x * c \in Nat /\ z * c \in Nat
    BY <1>3, <1>4
  <2> QED BY <2>1, <2>2
<1>6. 0 * c = 0 /\ 0 * d = 0
  BY <1>1
<1> QED BY <1>2, <1>3, <1>4, <1>5, <1>6

\* Products: what the amounts of a partial fill need to know about products.
LEMMA Products ==
  ASSUME NEW a \in Nat, NEW b \in Nat, NEW c \in Nat
  PROVE  /\ a * c \in Nat /\ a * b \in Nat /\ c * a = a * c
         /\ (a + b) * c = a * c + b * c
         /\ b <= a => a - b \in Nat /\ (a - b) * c = a * c - b * c
         /\ b <= a => b * c <= a * c
         /\ b <= c => a * b <= a * c
         /\ b < c /\ a > 0 => a * b < a * c
<1>1. a * c \in Nat /\ a * b \in Nat /\ (a + b) * c = a * c + b * c /\ c * a = a * c
  OBVIOUS
<1>2. ASSUME b <= a
      PROVE  a - b \in Nat /\ (a - b) * c = a * c - b * c /\ b * c <= a * c
  <2>1. PICK z \in Nat : a = b + z
    BY <1>2
  <2>2. a - b = z /\ (b + z) * c = b * c + z * c /\ z * c \in Nat /\ b * c \in Nat
    BY <2>1
  <2> QED BY <2>1, <2>2
<1>3. ASSUME b <= c
      PROVE  a * b <= a * c /\ (b < c /\ a > 0 => a * b < a * c)
  <2>1. PICK z \in Nat : c = b + z
    BY <1>3
  <2>2. a * (b + z) = a * b + a * z /\ a * z \in Nat /\ a * b \in Nat
    BY <2>1
  <2>3. z > 0 /\ a > 0 => a * z > 0
    OBVIOUS
  <2> QED BY <2>1, <2>2, <2>3
<1> QED BY <1>1, <1>2, <1>3

\* MinOfTwo: what a trade fills of an order is neither more than the order has left
\* nor more than is left of the trade.
LEMMA MinOfTwo ==
  ASSUME NEW a \in Nat, NEW b \in Nat
  PROVE  Min({a, b}) \in Nat /\ Min({a, b}) <= a /\ Min({a, b}) <= b
<1>1. \E x \in {a, b} : \A y \in {a, b} : x <= y
  OBVIOUS
<1>2. Min({a, b}) \in {a, b} /\ \A y \in {a, b} : Min({a, b}) <= y
  BY <1>1 DEF Min
<1> QED BY <1>2

\* The requests, the bound on the events and the configuration never change.
PaperRequest ==
  [token : Tokens, side : {"BUY", "SELL"}, price : 1..(TickCount - 1),
   tif : {"GTC", "FAK", "FOK"}]
RequestsOK ==
  /\ DOMAIN request \subseteq Intents
  /\ \A i \in DOMAIN request : request[i] \in PaperRequest
  /\ trades \in 0..MaxEvents
  /\ config \in [quote : Nat, shares : [Tokens -> Nat]]

\* What an order may have paid or received for its fills.
Priced(i, row) ==
  LET limit == row.filled * request[i].price
      strict == request[i].tif = "GTC" /\ row.filled > 0
  IN IF IsBuy(i) THEN row.quote <= limit /\ (strict => row.quote < limit)
                 ELSE row.quote >= limit /\ (strict => row.quote > limit)

\* A row of the ledger: a resting order reserves exactly what the rest of it can
\* cost, so the clamps of the code never take effect.
RowOK(i, row) ==
  /\ row \in PaperRow
  /\ row.state = "ABSENT" => row = NoRow
  /\ row.state # "ABSENT" => i \in DOMAIN request
  /\ row.state \in RestingState =>
       /\ request[i].tif = "GTC" /\ row.remaining > 0 /\ row.filled + row.remaining = Qty
       /\ row.reserved = IF IsBuy(i) THEN WithFee(row.remaining * request[i].price)
                                     ELSE row.remaining
  /\ row.state \notin RestingState => row.remaining = 0 /\ row.reserved = 0
  /\ i \in DOMAIN request => Priced(i, row)

\* The columns that are summed.
Reserved(p) == [i \in Intents |-> p[i].reserved]
Paid(p) == [i \in Intents |-> WithFee(p[i].quote)]
Received(p) == [i \in Intents |-> LessFee(p[i].quote)]
Filled(p) == [i \in Intents |-> p[i].filled]

\* The account, and the inventory of a token, against the rows of the orders.
CashOK(buys, sells, p, acc) ==
  /\ acc.reserved = SumFunctionOnSet(Reserved(p), buys)
  /\ acc.reserved <= acc.balance
  /\ opened => acc.balance = config.quote * FeeDen - SumFunctionOnSet(Paid(p), buys)
                                                   + SumFunctionOnSet(Received(p), sells)
SharesOK(t, buys, sells, p, inv) ==
  /\ inv.reserved = SumFunctionOnSet(Reserved(p), sells)
  /\ inv.reserved <= inv.shares
  /\ opened => inv.shares = config.shares[t] + SumFunctionOnSet(Filled(p), buys)
                                             - SumFunctionOnSet(Filled(p), sells)

PlacedOrders == {i \in Intents : paper[i] # NoRow}

\* The inductive invariant of the ledger.
LedgerInv ==
  /\ RequestsOK
  /\ PaperTypeOK
  /\ \A i \in Intents : RowOK(i, paper[i])
  /\ CashOK(Buys, Sells, paper, account)
  /\ \A t \in Tokens : SharesOK(t, Placed("BUY", t), Placed("SELL", t), paper, inventory[t])
  /\ IsFiniteSet(PlacedOrders)
  /\ ~opened => PlacedOrders = {}
  /\ \A i \in Intents : paper[i].trades \subseteq {0} \cup applied

\* PlacedSides: the sets of orders that are summed.
LEMMA PlacedSides ==
  ASSUME RequestsOK, paper \in [Intents -> PaperRow], IsFiniteSet(PlacedOrders),
         \A i \in Intents : RowOK(i, paper[i])
  PROVE  /\ Buys = {i \in PlacedOrders : IsBuy(i)}
         /\ Sells = {i \in PlacedOrders : ~IsBuy(i)}
         /\ \A t \in Tokens :
              /\ Placed("BUY", t) = {i \in PlacedOrders : IsBuy(i) /\ request[i].token = t}
              /\ Placed("SELL", t) = {i \in PlacedOrders : ~IsBuy(i) /\ request[i].token = t}
              /\ IsFiniteSet(Placed("BUY", t)) /\ IsFiniteSet(Placed("SELL", t))
         /\ IsFiniteSet(Buys) /\ IsFiniteSet(Sells)
         /\ PlacedOrders \subseteq DOMAIN request
<1>1. \A i \in PlacedOrders : /\ i \in DOMAIN request /\ i \in Intents
                              /\ request[i] \in PaperRequest /\ paper[i] # NoRow
  BY DEF PlacedOrders, RowOK, RequestsOK
<1>2. \A i \in PlacedOrders :
        /\ request[i].token \in Tokens
        /\ request[i].side = "BUY" \/ request[i].side = "SELL"
  BY <1>1 DEF PaperRequest
<1>3. Buys = {i \in PlacedOrders : IsBuy(i)}
  BY <1>1, <1>2 DEF Buys, Placed, PlacedOrders, IsBuy
<1>4. Sells = {i \in PlacedOrders : ~IsBuy(i)}
  BY <1>1, <1>2 DEF Sells, Placed, PlacedOrders, IsBuy
<1>5. ASSUME NEW t \in Tokens
      PROVE  /\ Placed("BUY", t) = {i \in PlacedOrders : IsBuy(i) /\ request[i].token = t}
             /\ Placed("SELL", t) = {i \in PlacedOrders : ~IsBuy(i) /\ request[i].token = t}
  BY <1>1, <1>2 DEF Placed, PlacedOrders, IsBuy
<1>6. \A T \in SUBSET PlacedOrders : IsFiniteSet(T)
  BY FS_Subset
<1> QED BY <1>1, <1>3, <1>4, <1>5, <1>6

\* ColumnTypes: the summed columns are numbers, and depend on the row only.
LEMMA ColumnTypes ==
  ASSUME NEW p \in [Intents -> PaperRow], NEW j \in Intents
  PROVE  /\ Reserved(p)[j] = p[j].reserved /\ Reserved(p)[j] \in Nat
         /\ Paid(p)[j] = WithFee(p[j].quote) /\ Paid(p)[j] \in Nat
         /\ Received(p)[j] = LessFee(p[j].quote) /\ Received(p)[j] \in Nat
         /\ Filled(p)[j] = p[j].filled /\ Filled(p)[j] \in Nat
<1>1. p[j] \in PaperRow
  OBVIOUS
<1>2. p[j].reserved \in Nat /\ p[j].quote \in Nat /\ p[j].filled \in Nat
  BY <1>1 DEF PaperRow
<1> QED BY <1>2, FeeArithmetic DEF Reserved, Paid, Received, Filled

\* OneRowSums: how the sums over a set of orders change with the row of one order.
LEMMA OneRowSums ==
  ASSUME NEW A, IsFiniteSet(A), A \subseteq Intents,
         NEW p \in [Intents -> PaperRow], NEW r \in [Intents -> PaperRow], NEW i \in Intents,
         \A j \in Intents \ {i} : r[j] = p[j]
  PROVE  /\ SumFunctionOnSet(Reserved(p), A) \in Nat
         /\ SumFunctionOnSet(Paid(p), A) \in Nat
         /\ SumFunctionOnSet(Received(p), A) \in Nat
         /\ SumFunctionOnSet(Filled(p), A) \in Nat
         /\ i \in A =>
              /\ p[i].reserved <= SumFunctionOnSet(Reserved(p), A)
              /\ SumFunctionOnSet(Reserved(r), A)
                   = SumFunctionOnSet(Reserved(p), A) + r[i].reserved - p[i].reserved
              /\ SumFunctionOnSet(Paid(r), A)
                   = SumFunctionOnSet(Paid(p), A) + WithFee(r[i].quote) - WithFee(p[i].quote)
              /\ SumFunctionOnSet(Received(r), A)
                   = SumFunctionOnSet(Received(p), A) + LessFee(r[i].quote) - LessFee(p[i].quote)
              /\ SumFunctionOnSet(Filled(r), A)
                   = SumFunctionOnSet(Filled(p), A) + r[i].filled - p[i].filled
         /\ i \notin A =>
              /\ SumFunctionOnSet(Reserved(r), A) = SumFunctionOnSet(Reserved(p), A)
              /\ SumFunctionOnSet(Paid(r), A) = SumFunctionOnSet(Paid(p), A)
              /\ SumFunctionOnSet(Received(r), A) = SumFunctionOnSet(Received(p), A)
              /\ SumFunctionOnSet(Filled(r), A) = SumFunctionOnSet(Filled(p), A)
<1>1. ASSUME NEW f, NEW g, \A j \in Intents : f[j] \in Nat /\ g[j] \in Nat,
             \A j \in Intents \ {i} : g[j] = f[j]
      PROVE  /\ SumFunctionOnSet(f, A) \in Nat
             /\ i \in A => /\ f[i] <= SumFunctionOnSet(f, A)
                           /\ SumFunctionOnSet(g, A) = SumFunctionOnSet(f, A) + g[i] - f[i]
             /\ i \notin A => SumFunctionOnSet(g, A) = SumFunctionOnSet(f, A)
  <2>1. SumFunctionOnSet(f, A) \in Nat
    BY <1>1, SumType
  <2>2. i \in A => f[i] <= SumFunctionOnSet(f, A)
    BY <1>1, SumMember
  <2>3. ASSUME i \in A
        PROVE  SumFunctionOnSet(g, A) = SumFunctionOnSet(f, A) + g[i] - f[i]
    <3>1. \A y \in A : f[y] \in Int /\ g[y] \in Int
      BY <1>1
    <3>2. \A y \in A \ {i} : g[y] = f[y]
      BY <1>1
    <3> QED BY <2>3, <3>1, <3>2, SumChange
  <2>4. ASSUME i \notin A PROVE SumFunctionOnSet(g, A) = SumFunctionOnSet(f, A)
    <3>1. \A y \in A : g[y] = f[y]
      BY <1>1, <2>4
    <3> QED BY <3>1, SumCongruence
  <2> QED BY <2>1, <2>2, <2>3, <2>4
<1>2. \A j \in Intents :
        /\ Reserved(p)[j] = p[j].reserved /\ Reserved(p)[j] \in Nat
        /\ Paid(p)[j] = WithFee(p[j].quote) /\ Paid(p)[j] \in Nat
        /\ Received(p)[j] = LessFee(p[j].quote) /\ Received(p)[j] \in Nat
        /\ Filled(p)[j] = p[j].filled /\ Filled(p)[j] \in Nat
  BY ColumnTypes
<1>3. \A j \in Intents :
        /\ Reserved(r)[j] = r[j].reserved /\ Reserved(r)[j] \in Nat
        /\ Paid(r)[j] = WithFee(r[j].quote) /\ Paid(r)[j] \in Nat
        /\ Received(r)[j] = LessFee(r[j].quote) /\ Received(r)[j] \in Nat
        /\ Filled(r)[j] = r[j].filled /\ Filled(r)[j] \in Nat
  BY ColumnTypes
<1>4. \A j \in Intents \ {i} :
        /\ Reserved(r)[j] = Reserved(p)[j] /\ Paid(r)[j] = Paid(p)[j]
        /\ Received(r)[j] = Received(p)[j] /\ Filled(r)[j] = Filled(p)[j]
  BY <1>2, <1>3
<1>5. /\ SumFunctionOnSet(Reserved(p), A) \in Nat
      /\ i \in A => /\ p[i].reserved <= SumFunctionOnSet(Reserved(p), A)
                    /\ SumFunctionOnSet(Reserved(r), A)
                         = SumFunctionOnSet(Reserved(p), A) + r[i].reserved - p[i].reserved
      /\ i \notin A => SumFunctionOnSet(Reserved(r), A) = SumFunctionOnSet(Reserved(p), A)
  <2> DEFINE f == Reserved(p)
             g == Reserved(r)
  <2>1. /\ \A j \in Intents : f[j] \in Nat /\ g[j] \in Nat
        /\ \A j \in Intents \ {i} : g[j] = f[j]
    BY <1>2, <1>3, <1>4
  <2> HIDE DEF f, g
  <2>2. /\ SumFunctionOnSet(f, A) \in Nat
        /\ i \in A => /\ f[i] <= SumFunctionOnSet(f, A)
                      /\ SumFunctionOnSet(g, A) = SumFunctionOnSet(f, A) + g[i] - f[i]
        /\ i \notin A => SumFunctionOnSet(g, A) = SumFunctionOnSet(f, A)
    BY <1>1, <2>1
  <2> QED BY <1>2, <1>3, <2>2 DEF f, g
<1>6. /\ SumFunctionOnSet(Paid(p), A) \in Nat
      /\ i \in A => SumFunctionOnSet(Paid(r), A)
                   = SumFunctionOnSet(Paid(p), A) + WithFee(r[i].quote) - WithFee(p[i].quote)
      /\ i \notin A => SumFunctionOnSet(Paid(r), A) = SumFunctionOnSet(Paid(p), A)
  <2> DEFINE f == Paid(p)
             g == Paid(r)
  <2>1. /\ \A j \in Intents : f[j] \in Nat /\ g[j] \in Nat
        /\ \A j \in Intents \ {i} : g[j] = f[j]
    BY <1>2, <1>3, <1>4
  <2> HIDE DEF f, g
  <2>2. /\ SumFunctionOnSet(f, A) \in Nat
        /\ i \in A => /\ f[i] <= SumFunctionOnSet(f, A)
                      /\ SumFunctionOnSet(g, A) = SumFunctionOnSet(f, A) + g[i] - f[i]
        /\ i \notin A => SumFunctionOnSet(g, A) = SumFunctionOnSet(f, A)
    BY <1>1, <2>1
  <2> QED BY <1>2, <1>3, <2>2 DEF f, g
<1>7. /\ SumFunctionOnSet(Received(p), A) \in Nat
      /\ i \in A => SumFunctionOnSet(Received(r), A)
                   = SumFunctionOnSet(Received(p), A) + LessFee(r[i].quote) - LessFee(p[i].quote)
      /\ i \notin A => SumFunctionOnSet(Received(r), A) = SumFunctionOnSet(Received(p), A)
  <2> DEFINE f == Received(p)
             g == Received(r)
  <2>1. /\ \A j \in Intents : f[j] \in Nat /\ g[j] \in Nat
        /\ \A j \in Intents \ {i} : g[j] = f[j]
    BY <1>2, <1>3, <1>4
  <2> HIDE DEF f, g
  <2>2. /\ SumFunctionOnSet(f, A) \in Nat
        /\ i \in A => /\ f[i] <= SumFunctionOnSet(f, A)
                      /\ SumFunctionOnSet(g, A) = SumFunctionOnSet(f, A) + g[i] - f[i]
        /\ i \notin A => SumFunctionOnSet(g, A) = SumFunctionOnSet(f, A)
    BY <1>1, <2>1
  <2> QED BY <1>2, <1>3, <2>2 DEF f, g
<1>8. /\ SumFunctionOnSet(Filled(p), A) \in Nat
      /\ i \in A => SumFunctionOnSet(Filled(r), A)
                   = SumFunctionOnSet(Filled(p), A) + r[i].filled - p[i].filled
      /\ i \notin A => SumFunctionOnSet(Filled(r), A) = SumFunctionOnSet(Filled(p), A)
  <2> DEFINE f == Filled(p)
             g == Filled(r)
  <2>1. /\ \A j \in Intents : f[j] \in Nat /\ g[j] \in Nat
        /\ \A j \in Intents \ {i} : g[j] = f[j]
    BY <1>2, <1>3, <1>4
  <2> HIDE DEF f, g
  <2>2. /\ SumFunctionOnSet(f, A) \in Nat
        /\ i \in A => /\ f[i] <= SumFunctionOnSet(f, A)
                      /\ SumFunctionOnSet(g, A) = SumFunctionOnSet(f, A) + g[i] - f[i]
        /\ i \notin A => SumFunctionOnSet(g, A) = SumFunctionOnSet(f, A)
    BY <1>1, <2>1
  <2> QED BY <1>2, <1>3, <2>2 DEF f, g
<1> QED BY <1>5, <1>6, <1>7, <1>8

-----------------------------------------------------------------------------
(* One fill of a trade-through                                             *)

\* The row of order i after event e filled q lots of it at a price.
FilledRow(e, price, q, i, row) ==
  [state |-> IF row.remaining = q THEN "FILLED" ELSE "PARTIALLY_FILLED",
   remaining |-> row.remaining - q,
   filled |-> row.filled + q,
   quote |-> row.quote + q * price,
   reserved |-> NonNegative(row.reserved - (IF IsBuy(i) THEN WithFee(q * request[i].price)
                                                        ELSE q)),
   trades |-> row.trades \cup {e}]

\* RowFills: a fill at a crossing price releases what it reserved, which covers what
\* it costs, and leaves a row that keeps the invariant.
LEMMA RowFills ==
  ASSUME RequestsOK, NEW i \in DOMAIN request, NEW row, RowOK(i, row),
         row.state \in RestingState, NEW e \in TradeId, NEW price \in 1..(TickCount - 1),
         crossed(i, price), NEW q \in Nat, q > 0, q <= row.remaining
  PROVE  LET new == FilledRow(e, price, q, i, row)
             limit == request[i].price
         IN /\ RowOK(i, new)
            /\ q * price \in Nat /\ q * limit \in Nat
            /\ IsBuy(i) => /\ WithFee(q * price) <= WithFee(q * limit)
                           /\ new.reserved = row.reserved - WithFee(q * limit)
            /\ ~IsBuy(i) => new.reserved = row.reserved - q
            /\ new.state # "FILLED" => new.state = "PARTIALLY_FILLED"
            /\ (new.state = "FILLED") = (new.filled = Qty)
            /\ new.filled = row.filled + q /\ new.quote = row.quote + q * price
            /\ new.trades = row.trades \cup {e}
<1> DEFINE new == FilledRow(e, price, q, i, row)
           limit == request[i].price
           left == row.remaining - q
<1>1. /\ row.remaining \in 0..Qty /\ row.filled \in 0..Qty /\ row.quote \in Nat
      /\ row.reserved \in Nat /\ row.trades \subseteq TradeId
  BY DEF RowOK, PaperRow
<1>2. /\ request[i].tif = "GTC" /\ row.filled + row.remaining = Qty
      /\ row.reserved = IF IsBuy(i) THEN WithFee(row.remaining * limit) ELSE row.remaining
      /\ Priced(i, row)
  BY DEF RowOK
<1>3. limit \in Nat /\ price \in Nat /\ limit > 0
  BY DEF RequestsOK, PaperRequest
<1> HIDE DEF limit
<1>4. /\ q * price \in Nat /\ q * limit \in Nat /\ left \in Nat /\ left * limit \in Nat
      /\ row.remaining * limit \in Nat
      /\ row.remaining * limit = q * limit + left * limit
      /\ (row.filled + q) * limit = row.filled * limit + q * limit
      /\ row.filled * limit \in Nat
  <2>1. left \in Nat /\ row.remaining = q + left
    BY <1>1
  <2> HIDE DEF left
  <2>2. q * price \in Nat /\ q * limit \in Nat
    BY <1>3, Products
  <2>3. left * limit \in Nat /\ (q + left) * limit = q * limit + left * limit
    BY <1>3, <2>1, Products
  <2>4. row.filled * limit \in Nat /\ (row.filled + q) * limit = row.filled * limit + q * limit
    BY <1>1, <1>3, Products
  <2> QED BY <2>1, <2>2, <2>3, <2>4
<1>5. ASSUME IsBuy(i)
      PROVE  /\ WithFee(q * price) <= WithFee(q * limit) /\ q * price < q * limit
             /\ row.reserved - WithFee(q * limit) = WithFee(left * limit)
             /\ WithFee(left * limit) \in Nat
  <2>1. price < limit
    BY <1>5 DEF crossed, limit
  <2>2. q * price < q * limit
    BY <1>3, <2>1, Products
  <2>3. WithFee(q * price) <= WithFee(q * limit)
    BY <1>4, <2>2, FeeArithmetic
  <2>4. WithFee(row.remaining * limit) = WithFee(q * limit) + WithFee(left * limit)
    <3> DEFINE a == q * limit
               b == left * limit
    <3>1. a \in Nat /\ b \in Nat /\ row.remaining * limit = a + b
      BY <1>4
    <3> HIDE DEF a, b
    <3>2. WithFee(row.remaining * limit) = WithFee(a) + WithFee(b)
      BY <3>1, FeeArithmetic
    <3> QED BY <3>2 DEF a, b
  <2>5. WithFee(q * limit) \in Nat /\ WithFee(left * limit) \in Nat
    BY <1>4, FeeArithmetic
  <2> QED BY <1>2, <1>5, <2>2, <2>3, <2>4, <2>5
<1>6. ASSUME ~IsBuy(i)
      PROVE  q * price > q * limit /\ row.reserved - q = left
  <2>1. price > limit
    BY <1>6 DEF crossed, limit
  <2>2. q * price > q * limit
    BY <1>3, <2>1, Products
  <2> QED BY <1>2, <1>6, <2>2
<1>7. new.reserved = IF IsBuy(i) THEN WithFee(left * limit) ELSE left
  <2>1. left \in Nat
    BY <1>4
  <2> QED BY <1>5, <1>6, <2>1 DEF FilledRow, NonNegative, limit
<1>8. /\ new.state = (IF row.remaining = q THEN "FILLED" ELSE "PARTIALLY_FILLED")
      /\ new.remaining = left /\ new.filled = row.filled + q
      /\ new.quote = row.quote + q * price /\ new.trades = row.trades \cup {e}
  BY DEF FilledRow
<1>9. new \in PaperRow
  <2>1. new.state \in {"ABSENT", "LIVE", "PARTIALLY_FILLED", "FILLED", "CANCELLED"}
    BY <1>8
  <2>2. new.remaining \in 0..Qty /\ new.filled \in 0..Qty /\ new.quote \in Nat
    BY <1>1, <1>2, <1>4, <1>8
  <2>3. new.reserved \in Nat
    BY <1>4, <1>5, <1>7
  <2>4. new.trades \in SUBSET TradeId
    BY <1>1, <1>8
  <2>5. new = [state |-> new.state, remaining |-> new.remaining, filled |-> new.filled,
               quote |-> new.quote, reserved |-> new.reserved, trades |-> new.trades]
    BY DEF FilledRow
  <2> HIDE DEF new
  <2> QED BY <2>1, <2>2, <2>3, <2>4, <2>5 DEF PaperRow
<1>10. Priced(i, new)
  <2>1. new.filled * limit = row.filled * limit + q * limit
    BY <1>4, <1>8
  <2>2. new.quote = row.quote + q * price
    BY <1>8
  <2>3. IF IsBuy(i) THEN row.quote <= row.filled * limit ELSE row.quote >= row.filled * limit
    BY <1>2 DEF Priced, limit
  <2> HIDE DEF new
  <2>4. IF IsBuy(i) THEN new.quote < new.filled * limit ELSE new.quote > new.filled * limit
    BY <1>1, <1>4, <1>5, <1>6, <2>1, <2>2, <2>3
  <2>5. /\ new.quote \in Nat /\ new.filled * limit \in Nat
    BY <1>1, <1>4, <2>1, <2>2
  <2> QED BY <2>4, <2>5 DEF Priced, limit
<1>11. /\ new.state \in RestingState =>
            /\ request[i].tif = "GTC" /\ new.remaining > 0 /\ new.filled + new.remaining = Qty
            /\ new.reserved = IF IsBuy(i) THEN WithFee(new.remaining * limit) ELSE new.remaining
       /\ new.state \notin RestingState => new.remaining = 0 /\ new.reserved = 0
  <2>1. CASE row.remaining = q
    <3>1. left = 0 /\ left * limit = 0
      BY <1>1, <1>3, <2>1
    <3>2. new.state = "FILLED" /\ new.state \notin RestingState
      BY <1>8, <2>1 DEF RestingState
    <3>3. new.reserved = 0 /\ new.remaining = 0
      BY <1>7, <1>8, <3>1, FeeArithmetic
    <3> QED BY <3>2, <3>3
  <2>2. CASE row.remaining # q
    <3>1. new.state = "PARTIALLY_FILLED" /\ new.state \in RestingState
      BY <1>8, <2>2 DEF RestingState
    <3>2. left > 0 /\ row.filled + q + left = Qty
      BY <1>1, <1>2, <2>2
    <3>3. new.remaining > 0 /\ new.filled + new.remaining = Qty
      BY <1>8, <3>2
    <3>4. new.reserved = IF IsBuy(i) THEN WithFee(new.remaining * limit) ELSE new.remaining
      BY <1>7, <1>8
    <3> QED BY <1>2, <3>1, <3>3, <3>4
  <2> QED BY <2>1, <2>2
<1>12. (new.state = "FILLED") = (new.filled = Qty) /\ new.state # "ABSENT"
  <2>1. row.remaining = q <=> row.filled + q = Qty
    BY <1>1, <1>2
  <2> QED BY <1>8, <2>1
<1>13. RowOK(i, new)
  <2> HIDE DEF new
  <2> QED BY <1>9, <1>10, <1>11, <1>12 DEF RowOK, limit
<1>14. /\ IsBuy(i) => new.reserved = row.reserved - WithFee(q * limit)
       /\ ~IsBuy(i) => new.reserved = row.reserved - q
  BY <1>5, <1>6, <1>7
<1> HIDE DEF new
<1>15. new.state # "FILLED" => new.state = "PARTIALLY_FILLED"
  BY <1>8
<1> QED BY <1>4, <1>5, <1>8, <1>12, <1>13, <1>14, <1>15 DEF new, limit

\* What a trade-through by event e may do to a row, however often it comes to it.
Moved(e, old, new) ==
  \/ new = old
  \/ /\ old.state \in RestingState /\ new.state \in RestingState \cup {"FILLED"}
     /\ new.filled > old.filled /\ (new.state = "FILLED" <=> new.filled = Qty)
     /\ new.trades = old.trades \cup {e}

\* The variables of a trade-through of token t between two orders.
SweepType ==
  [size : Nat, account : [balance : Nat, reserved : Nat],
   inv : [shares : Nat, reserved : Nat], paper : [Intents -> PaperRow],
   overdrawn : BOOLEAN]
SweepOK(e, t, s) ==
  /\ s \in SweepType /\ ~s.overdrawn
  /\ \A j \in Intents : /\ RowOK(j, s.paper[j])
                        /\ Moved(e, paper[j], s.paper[j])
                        /\ s.paper[j] # paper[j] => request[j].token = t
  /\ CashOK(Buys, Sells, s.paper, s.account)
  /\ SharesOK(t, Placed("BUY", t), Placed("SELL", t), s.paper, s.inv)

\* RestingIsPlaced: an order that rests during a trade-through was placed before.
LEMMA RestingIsPlaced ==
  ASSUME LedgerInv, NEW e, NEW t, NEW s, SweepOK(e, t, s), NEW i \in Intents,
         s.paper[i].state \in RestingState
  PROVE  i \in PlacedOrders /\ paper[i].state \in RestingState
<1>1. paper[i].state \in RestingState
  BY DEF SweepOK, Moved
<1>2. NoRow.state \notin RestingState
  BY DEF NoRow, RestingState
<1> QED BY <1>1, <1>2 DEF PlacedOrders

\* FillOrderKeeps: one order of a trade-through is filled, or is passed over; the
\* account and the inventory follow, and neither is ever overdrawn.
LEMMA FillOrderKeeps ==
  ASSUME LedgerInv, NEW e \in TradeId, NEW t \in Tokens, NEW price \in 1..(TickCount - 1),
         NEW s, SweepOK(e, t, s), NEW i \in Intents
  PROVE  SweepOK(e, t, FillOrder(e, t, price, s, i))
<1> DEFINE row == s.paper[i]
           q == Min({row.remaining, s.size})
           next == FillOrder(e, t, price, s, i)
           skip == \/ request[i].token # t \/ row.state \notin RestingState
                   \/ ~crossed(i, price) \/ q = 0 \/ s.overdrawn
<1>1. CASE skip
  <2>1. next = s
    BY <1>1 DEF FillOrder
  <2> QED BY <2>1
<1>2. CASE ~skip
  <2> DEFINE new == FilledRow(e, price, q, i, row)
             limit == request[i].price
             p == s.paper
             r == [p EXCEPT ![i] = new]
             buysT == Placed("BUY", t)
             sellsT == Placed("SELL", t)
             acc == s.account
             inv == s.inv
             balance == IF IsBuy(i) THEN acc.balance - WithFee(q * price)
                                    ELSE acc.balance + LessFee(q * price)
             shares == IF IsBuy(i) THEN inv.shares + q ELSE inv.shares - q
             accReserved == IF IsBuy(i) THEN NonNegative(acc.reserved - WithFee(q * limit))
                                        ELSE acc.reserved
             invReserved == IF IsBuy(i) THEN inv.reserved ELSE NonNegative(inv.reserved - q)
  <2>1. next = [size |-> s.size - q,
                account |-> [balance |-> balance, reserved |-> accReserved],
                inv |-> [shares |-> shares, reserved |-> invReserved],
                paper |-> r, overdrawn |-> balance < 0 \/ shares < 0]
    BY <1>2 DEF FillOrder, FilledRow
  <2>2. /\ s.size \in Nat /\ acc.balance \in Nat /\ acc.reserved \in Nat
        /\ inv.shares \in Nat /\ inv.reserved \in Nat /\ p \in [Intents -> PaperRow]
        /\ RowOK(i, row) /\ request[i].token = t /\ row.state \in RestingState
        /\ crossed(i, price) /\ q # 0
    BY <1>2 DEF SweepOK, SweepType
  <2>3. row.remaining \in Nat /\ row.reserved \in Nat /\ row.filled \in Nat /\ row.quote \in Nat
    BY <2>2 DEF RowOK, PaperRow
  <2>4. q \in Nat /\ q > 0 /\ q <= row.remaining /\ q <= s.size
    BY <2>2, <2>3, MinOfTwo
  <2>5. i \in PlacedOrders
    BY <2>2, RestingIsPlaced
  <2>6. /\ i \in DOMAIN request
        /\ Buys = {j \in PlacedOrders : IsBuy(j)} /\ Sells = {j \in PlacedOrders : ~IsBuy(j)}
        /\ buysT = {j \in PlacedOrders : IsBuy(j) /\ request[j].token = t}
        /\ sellsT = {j \in PlacedOrders : ~IsBuy(j) /\ request[j].token = t}
        /\ IsFiniteSet(Buys) /\ IsFiniteSet(Sells)
        /\ IsFiniteSet(buysT) /\ IsFiniteSet(sellsT)
    BY <2>5, PlacedSides DEF LedgerInv, PaperTypeOK
  <2>7. /\ Buys \subseteq Intents /\ Sells \subseteq Intents
        /\ buysT \subseteq Intents /\ sellsT \subseteq Intents
        /\ (IsBuy(i) => i \in Buys /\ i \notin Sells /\ i \in buysT /\ i \notin sellsT)
        /\ (~IsBuy(i) => i \notin Buys /\ i \in Sells /\ i \notin buysT /\ i \in sellsT)
    BY <2>2, <2>5, <2>6 DEF PlacedOrders
  <2> HIDE DEF q
  <2>8. /\ RowOK(i, new) /\ q * price \in Nat /\ q * limit \in Nat
        /\ IsBuy(i) => /\ WithFee(q * price) <= WithFee(q * limit)
                       /\ new.reserved = row.reserved - WithFee(q * limit)
        /\ ~IsBuy(i) => new.reserved = row.reserved - q
        /\ new.state # "FILLED" => new.state = "PARTIALLY_FILLED"
        /\ (new.state = "FILLED") = (new.filled = Qty)
        /\ new.filled = row.filled + q /\ new.quote = row.quote + q * price
        /\ new.trades = row.trades \cup {e}
    BY <2>2, <2>4, <2>6, RowFills DEF LedgerInv
  <2> HIDE DEF new, limit, row
  <2>9. new \in PaperRow /\ new.reserved \in Nat
    BY <2>8 DEF RowOK, PaperRow
  <2>10. /\ r \in [Intents -> PaperRow] /\ r[i] = new /\ p[i] = row
         /\ \A j \in Intents \ {i} : r[j] = p[j]
    BY <2>2, <2>9 DEF row
  <2> DEFINE cost == q * price
             held == q * limit
  <2>11. /\ WithFee(cost) \in Nat /\ WithFee(held) \in Nat /\ LessFee(cost) \in Nat
         /\ WithFee(row.quote) \in Nat /\ LessFee(row.quote) \in Nat
         /\ WithFee(new.quote) = WithFee(row.quote) + WithFee(cost)
         /\ LessFee(new.quote) = LessFee(row.quote) + LessFee(cost)
    <3>1. cost \in Nat /\ held \in Nat /\ new.quote = row.quote + cost
      BY <2>8
    <3> HIDE DEF cost, held
    <3>2. /\ WithFee(row.quote + cost) = WithFee(row.quote) + WithFee(cost)
          /\ LessFee(row.quote + cost) = LessFee(row.quote) + LessFee(cost)
      BY <2>3, <3>1, FeeArithmetic
    <3>3. /\ WithFee(cost) \in Nat /\ WithFee(held) \in Nat /\ LessFee(cost) \in Nat
          /\ WithFee(row.quote) \in Nat /\ LessFee(row.quote) \in Nat
      BY <2>3, <3>1, FeeArithmetic
    <3> QED BY <3>1, <3>2, <3>3
  <2>12. \A j \in Intents : /\ RowOK(j, r[j])
                            /\ Moved(e, paper[j], r[j])
                            /\ r[j] # paper[j] => request[j].token = t
    <3>1. ASSUME NEW j \in Intents, j # i
          PROVE  RowOK(j, r[j]) /\ Moved(e, paper[j], r[j])
                 /\ (r[j] # paper[j] => request[j].token = t)
      BY <2>10, <3>1 DEF SweepOK
    <3>2. Moved(e, paper[i], new)
      <4>1. Moved(e, paper[i], row)
        BY DEF SweepOK, row
      <4>2. paper[i].state \in RestingState
        BY <2>2, RestingIsPlaced DEF row
      <4>3. /\ paper[i].filled \in Nat /\ new.filled > row.filled
            /\ row.filled = paper[i].filled \/ row.filled > paper[i].filled
        BY <2>3, <2>4, <2>8, <4>1 DEF Moved, LedgerInv, RowOK, PaperRow
      <4>4. new.trades = paper[i].trades \cup {e}
        BY <2>8, <4>1 DEF Moved
      <4>5. new.filled > paper[i].filled
        BY <2>3, <2>4, <2>8, <4>3
      <4>6. /\ new.state \in RestingState \cup {"FILLED"}
            /\ new.state = "FILLED" <=> new.filled = Qty
        BY <2>8 DEF RestingState
      <4> QED BY <4>2, <4>4, <4>5, <4>6 DEF Moved
    <3> QED BY <2>2, <2>8, <2>10, <3>1, <3>2
  <2> HIDE DEF r, cost, held, buysT, sellsT, p, acc, inv
  <2>13. CashOK(Buys, Sells, p, acc) /\ SharesOK(t, buysT, sellsT, p, inv)
    BY DEF SweepOK, p, acc, inv, buysT, sellsT
  <2>14. /\ balance \in Nat /\ shares \in Nat /\ accReserved \in Nat /\ invReserved \in Nat
         /\ CashOK(Buys, Sells, r, [balance |-> balance, reserved |-> accReserved])
         /\ SharesOK(t, buysT, sellsT, r, [shares |-> shares, reserved |-> invReserved])
    <3> DEFINE resB == SumFunctionOnSet(Reserved(p), Buys)
               paidB == SumFunctionOnSet(Paid(p), Buys)
               recS == SumFunctionOnSet(Received(p), Sells)
               resS == SumFunctionOnSet(Reserved(p), sellsT)
               filB == SumFunctionOnSet(Filled(p), buysT)
               filS == SumFunctionOnSet(Filled(p), sellsT)
    <3>0. /\ acc.reserved = resB /\ acc.reserved <= acc.balance
          /\ inv.reserved = resS /\ inv.reserved <= inv.shares
          /\ opened => /\ acc.balance = config.quote * FeeDen - paidB + recS
                       /\ inv.shares = config.shares[t] + filB - filS
      BY <2>13 DEF CashOK, SharesOK
    <3>a. /\ resB \in Nat /\ paidB \in Nat /\ recS \in Nat /\ resS \in Nat
          /\ filB \in Nat /\ filS \in Nat
          /\ config.quote * FeeDen \in Int /\ config.shares[t] \in Int
      <4>1. config.quote \in Nat /\ config.shares[t] \in Nat
        BY DEF LedgerInv, RequestsOK
      <4>2. config.quote * FeeDen \in Nat
        BY <4>1, Products
      <4>3. resB \in Nat /\ paidB \in Nat
        BY <2>2, <2>6, <2>7, <2>10, OneRowSums DEF p
      <4>4. recS \in Nat
        BY <2>2, <2>6, <2>7, <2>10, OneRowSums DEF p
      <4>5. resS \in Nat /\ filS \in Nat
        BY <2>2, <2>6, <2>7, <2>10, OneRowSums DEF p, sellsT
      <4>6. filB \in Nat
        BY <2>2, <2>6, <2>7, <2>10, OneRowSums DEF p, buysT
      <4> QED BY <4>1, <4>2, <4>3, <4>4, <4>5, <4>6
    <3>1. CASE IsBuy(i)
      <4>1. /\ SumFunctionOnSet(Reserved(r), Buys) = resB + new.reserved - row.reserved
            /\ SumFunctionOnSet(Paid(r), Buys) = paidB + WithFee(new.quote) - WithFee(row.quote)
            /\ row.reserved <= resB
        BY <2>2, <2>6, <2>7, <2>10, <3>1, OneRowSums DEF p
      <4>2. SumFunctionOnSet(Received(r), Sells) = recS
        BY <2>2, <2>6, <2>7, <2>10, <3>1, OneRowSums DEF p
      <4>3. /\ SumFunctionOnSet(Reserved(r), sellsT) = resS
            /\ SumFunctionOnSet(Filled(r), sellsT) = filS
        BY <2>2, <2>6, <2>7, <2>10, <3>1, OneRowSums DEF p, sellsT
      <4>4. SumFunctionOnSet(Filled(r), buysT) = filB + new.filled - row.filled
        BY <2>2, <2>6, <2>7, <2>10, <3>1, OneRowSums DEF p, buysT
      <4> HIDE DEF resB, paidB, recS, resS, filB, filS
      <4>5. /\ WithFee(cost) <= WithFee(held) /\ new.reserved = row.reserved - WithFee(held)
            /\ new.filled = row.filled + q /\ new.reserved \in Nat
        BY <2>8, <2>9, <3>1 DEF cost, held
      <4>6. accReserved = acc.reserved - WithFee(held) /\ accReserved \in Nat
        <5>1. acc.reserved - WithFee(held) >= 0
          BY <2>2, <2>3, <2>11, <3>0, <3>a, <4>1, <4>5 DEF acc
        <5>2. acc.reserved \in Nat
          BY <2>2 DEF acc
        <5>3. NonNegative(acc.reserved - WithFee(held)) = acc.reserved - WithFee(held)
          BY <2>11, <5>1, <5>2 DEF NonNegative
        <5> QED BY <2>11, <3>1, <5>1, <5>2, <5>3 DEF held
      <4>7. balance = acc.balance - WithFee(cost) /\ balance \in Nat /\ accReserved <= balance
        <5>1. balance = acc.balance - WithFee(cost)
          BY <3>1 DEF cost
        <5> HIDE DEF balance, accReserved
        <5> QED BY <2>2, <2>11, <3>0, <4>5, <4>6, <5>1 DEF acc
      <4>8. /\ shares = inv.shares + q /\ shares \in Nat
            /\ invReserved = inv.reserved /\ invReserved \in Nat /\ invReserved <= shares
        BY <2>2, <2>4, <3>0, <3>1 DEF inv
      <4> HIDE DEF balance, shares, accReserved, invReserved
      <4>9. CashOK(Buys, Sells, r, [balance |-> balance, reserved |-> accReserved])
        <5>1. accReserved = SumFunctionOnSet(Reserved(r), Buys)
          BY <2>3, <2>11, <3>0, <3>a, <4>1, <4>5, <4>6
        <5>2. opened => balance = config.quote * FeeDen - SumFunctionOnSet(Paid(r), Buys)
                                    + SumFunctionOnSet(Received(r), Sells)
          BY <2>11, <3>0, <3>a, <4>1, <4>2, <4>7
        <5> QED BY <4>7, <5>1, <5>2 DEF CashOK
      <4>10. SharesOK(t, buysT, sellsT, r, [shares |-> shares, reserved |-> invReserved])
        <5>1. invReserved = SumFunctionOnSet(Reserved(r), sellsT)
          BY <3>0, <4>3, <4>8
        <5>2. opened => shares = config.shares[t] + SumFunctionOnSet(Filled(r), buysT)
                                                  - SumFunctionOnSet(Filled(r), sellsT)
          BY <2>3, <2>4, <3>0, <3>a, <4>3, <4>4, <4>5, <4>8
        <5> QED BY <4>8, <5>1, <5>2 DEF SharesOK
      <4> QED BY <4>6, <4>7, <4>8, <4>9, <4>10
    <3>2. CASE ~IsBuy(i)
      <4>1. /\ SumFunctionOnSet(Reserved(r), Buys) = resB
            /\ SumFunctionOnSet(Paid(r), Buys) = paidB
        BY <2>2, <2>6, <2>7, <2>10, <3>2, OneRowSums DEF p
      <4>2. SumFunctionOnSet(Received(r), Sells) = recS + LessFee(new.quote) - LessFee(row.quote)
        BY <2>2, <2>6, <2>7, <2>10, <3>2, OneRowSums DEF p
      <4>3. /\ SumFunctionOnSet(Reserved(r), sellsT) = resS + new.reserved - row.reserved
            /\ SumFunctionOnSet(Filled(r), sellsT) = filS + new.filled - row.filled
            /\ row.reserved <= resS
        BY <2>2, <2>6, <2>7, <2>10, <3>2, OneRowSums DEF p, sellsT
      <4>4. SumFunctionOnSet(Filled(r), buysT) = filB
        BY <2>2, <2>6, <2>7, <2>10, <3>2, OneRowSums DEF p, buysT
      <4> HIDE DEF resB, paidB, recS, resS, filB, filS
      <4>5. /\ new.reserved = row.reserved - q
            /\ new.filled = row.filled + q /\ new.reserved \in Nat
        BY <2>8, <2>9, <3>2
      <4>6. /\ balance = acc.balance + LessFee(cost) /\ balance \in Nat
            /\ accReserved = acc.reserved /\ accReserved \in Nat /\ accReserved <= balance
        BY <2>2, <2>11, <3>0, <3>2 DEF acc, cost
      <4>7. /\ shares = inv.shares - q /\ shares \in Nat
            /\ invReserved = inv.reserved - q /\ invReserved \in Nat /\ invReserved <= shares
        <5>1. inv.reserved - q >= 0 /\ inv.reserved \in Nat /\ inv.shares \in Nat
          BY <2>2, <2>3, <2>4, <3>0, <3>a, <4>3, <4>5 DEF inv
        <5>2. NonNegative(inv.reserved - q) = inv.reserved - q
          BY <2>4, <5>1 DEF NonNegative
        <5>3. shares = inv.shares - q /\ invReserved = inv.reserved - q
          BY <3>2, <5>2
        <5> HIDE DEF shares, invReserved
        <5> QED BY <2>4, <3>0, <5>1, <5>3
      <4> HIDE DEF balance, shares, accReserved, invReserved
      <4>8. CashOK(Buys, Sells, r, [balance |-> balance, reserved |-> accReserved])
        <5>1. opened => balance = config.quote * FeeDen - SumFunctionOnSet(Paid(r), Buys)
                                    + SumFunctionOnSet(Received(r), Sells)
          BY <2>11, <3>0, <3>a, <4>1, <4>2, <4>6
        <5> QED BY <3>0, <4>1, <4>6, <5>1 DEF CashOK
      <4>9. SharesOK(t, buysT, sellsT, r, [shares |-> shares, reserved |-> invReserved])
        <5>1. invReserved = SumFunctionOnSet(Reserved(r), sellsT)
          BY <2>3, <2>4, <3>0, <3>a, <4>3, <4>5, <4>7
        <5>2. opened => shares = config.shares[t] + SumFunctionOnSet(Filled(r), buysT)
                                                  - SumFunctionOnSet(Filled(r), sellsT)
          BY <2>3, <2>4, <3>0, <3>a, <4>3, <4>4, <4>5, <4>7
        <5> QED BY <4>7, <5>1, <5>2 DEF SharesOK
      <4> QED BY <4>6, <4>7, <4>8, <4>9
    <3> QED BY <3>1, <3>2
  <2> HIDE DEF balance, shares, accReserved, invReserved
  <2>15. next = [size |-> s.size - q,
                 account |-> [balance |-> balance, reserved |-> accReserved],
                 inv |-> [shares |-> shares, reserved |-> invReserved],
                 paper |-> r, overdrawn |-> FALSE]
    <3>1. (balance < 0 \/ shares < 0) = FALSE
      BY <2>14
    <3> QED BY <2>1, <3>1
  <2> HIDE DEF next
  <2>16. s.size - q \in Nat
    BY <2>2, <2>4
  <2>17. next \in SweepType /\ ~next.overdrawn
    BY <2>10, <2>14, <2>15, <2>16 DEF SweepType
  <2>18. SweepOK(e, t, next)
    BY <2>12, <2>14, <2>15, <2>17 DEF SweepOK, buysT, sellsT
  <2> QED BY <2>18 DEF next
<1> QED BY <1>1, <1>2

\* SweepStarts: a trade-through starts from the ledger.
LEMMA SweepStarts ==
  ASSUME LedgerInv, NEW e, NEW t \in Tokens, NEW size \in Nat
  PROVE  SweepOK(e, t, SweepStart(t, size))
<1> DEFINE s == SweepStart(t, size)
<1>1. /\ s.size = size /\ s.account = account /\ s.inv = inventory[t] /\ s.paper = paper
      /\ s.overdrawn = FALSE
  BY DEF SweepStart
<1>2. s \in SweepType
  BY DEF SweepStart, SweepType, LedgerInv, PaperTypeOK
<1> HIDE DEF s
<1>3. SweepOK(e, t, s)
  BY <1>1, <1>2 DEF SweepOK, Moved, LedgerInv
<1> QED BY <1>3 DEF s

\* SweepKeeps: so whatever a trade-through does in the end is in order.
LEMMA SweepKeeps ==
  ASSUME LedgerInv, NEW e \in TradeId, NEW t \in Tokens, NEW price \in 1..(TickCount - 1),
         NEW size \in Nat, NEW n \in 0..Len(book)
  PROVE  SweepOK(e, t, SweepBook(e, t, price, size, n))
<1>0. book \in Seq(Intents) /\ n \in Nat
  BY DEF LedgerInv, PaperTypeOK
<1>1. PICK after : /\ after[0] = SweepStart(t, size)
                   /\ \A k \in 1..n : after[k] = FillOrder(e, t, price, after[k - 1], book[k])
                   /\ SweepBook(e, t, price, size, n) = after[n]
  BY <1>0, SweepRuns
<1> DEFINE T == {k \in Nat : k <= n => SweepOK(e, t, after[k])}
<1>2. 0 \in T
  BY <1>1, SweepStarts
<1>3. ASSUME NEW k \in T PROVE k + 1 \in T
  <2>1. k \in Nat /\ (k <= n => SweepOK(e, t, after[k]))
    OBVIOUS
  <2>2. ASSUME k + 1 <= n PROVE SweepOK(e, t, after[k + 1])
    <3>1. k + 1 \in 1..n /\ (k + 1) - 1 = k /\ k <= n
      BY <1>0, <2>1, <2>2
    <3>2. book[k + 1] \in Intents
      BY <1>0, <3>1
    <3>3. after[k + 1] = FillOrder(e, t, price, after[k], book[k + 1])
      BY <1>1, <3>1
    <3>4. SweepOK(e, t, after[k])
      BY <2>1, <3>1
    <3> QED BY <3>2, <3>3, <3>4, FillOrderKeeps
  <2> QED BY <2>1, <2>2
<1>4. T = Nat
  <2> HIDE DEF T
  <2>1. T \subseteq Nat
    BY DEF T
  <2> QED BY <1>2, <1>3, <2>1, Induction
<1>5. SweepOK(e, t, after[n])
  BY <1>0, <1>4
<1> QED BY <1>1, <1>5

\* LedgerNeverOverdraws: the invariant implies that no trade can overdraw.
LEMMA LedgerNeverOverdraws == LedgerInv => NeverOverdrawn
<1> SUFFICES ASSUME LedgerInv, NEW t \in Tokens, NEW price \in 1..(TickCount - 1)
             PROVE  ~SweepBook(MaxEvents, t, price, Qty * Len(book), Len(book)).overdrawn
  BY DEF NeverOverdrawn
<1>1. MaxEvents \in TradeId /\ Len(book) \in Nat /\ Len(book) \in 0..Len(book)
  BY DEF TradeId, LedgerInv, PaperTypeOK
<1>2. Qty * Len(book) \in Nat
  BY <1>1
<1>3. SweepOK(MaxEvents, t, SweepBook(MaxEvents, t, price, Qty * Len(book), Len(book)))
  BY <1>1, <1>2, SweepKeeps
<1> QED BY <1>3 DEF SweepOK

\* SidesUnchanged: the sets of orders change only with the orders that are placed.
LEMMA SidesUnchanged ==
  ASSUME UNCHANGED <<request, PlacedOrders>>
  PROVE  /\ UNCHANGED <<Buys, Sells>>
         /\ \A t \in Tokens : Placed("BUY", t)' = Placed("BUY", t)
                              /\ Placed("SELL", t)' = Placed("SELL", t)
<1>1. \A side, t : Placed(side, t) = {i \in PlacedOrders : request[i].side = side
                                                           /\ request[i].token = t}
  BY DEF Placed, PlacedOrders
<1>2. \A side, t : Placed(side, t)' = {i \in PlacedOrders : request'[i].side = side
                                                           /\ request'[i].token = t}
  BY DEF Placed, PlacedOrders
<1>3. \A side, t : Placed(side, t)' = Placed(side, t)
  BY <1>1, <1>2
<1>4. Buys' = Buys
  BY <1>3 DEF Buys
<1>5. Sells' = Sells
  BY <1>3 DEF Sells
<1> QED BY <1>3, <1>4, <1>5

\* SharesSame: the inventory of a token is about the rows of its orders only.
LEMMA SharesSame ==
  ASSUME NEW t, NEW A, NEW B, IsFiniteSet(A), IsFiniteSet(B), A \subseteq Intents,
         B \subseteq Intents, NEW p, NEW r, NEW inv, SharesOK(t, A, B, p, inv),
         \A j \in A \cup B : r[j] = p[j]
  PROVE  SharesOK(t, A, B, r, inv)
<1>1. /\ \A j \in A : Filled(r)[j] = Filled(p)[j]
      /\ \A j \in B : Filled(r)[j] = Filled(p)[j] /\ Reserved(r)[j] = Reserved(p)[j]
  BY DEF Filled, Reserved
<1>2. /\ SumFunctionOnSet(Filled(r), A) = SumFunctionOnSet(Filled(p), A)
      /\ SumFunctionOnSet(Filled(r), B) = SumFunctionOnSet(Filled(p), B)
      /\ SumFunctionOnSet(Reserved(r), B) = SumFunctionOnSet(Reserved(p), B)
  BY <1>1, SumCongruence
<1> QED BY <1>2 DEF SharesOK

\* LedgerFrame: the invariant of the next state, said of the next rows in terms of
\* this state's requests and configuration.
LEMMA LedgerFrame ==
  ASSUME LedgerInv, UNCHANGED <<rigid, opened>>, PaperTypeOK',
         \A i \in Intents : RowOK(i, paper'[i]),
         CashOK(Buys', Sells', paper', account'),
         \A t \in Tokens :
           SharesOK(t, Placed("BUY", t)', Placed("SELL", t)', paper', inventory'[t]),
         IsFiniteSet(PlacedOrders'), ~opened => PlacedOrders' = {},
         \A i \in Intents : paper'[i].trades \subseteq {0} \cup applied'
  PROVE  LedgerInv'
<1>1. RequestsOK' /\ UNCHANGED <<request, config, trades>>
  BY DEF LedgerInv, RequestsOK, rigid
<1>2. ASSUME NEW i \in Intents PROVE RowOK(i, paper[i])'
  <2>1. RowOK(i, paper'[i])
    OBVIOUS
  <2> QED BY <1>1, <2>1 DEF RowOK, Priced, IsBuy
<1>3. CashOK(Buys, Sells, paper, account)'
  BY <1>1 DEF CashOK, Reserved, Paid, Received
<1>4. ASSUME NEW t \in Tokens
      PROVE  SharesOK(t, Placed("BUY", t), Placed("SELL", t), paper, inventory[t])'
  <2>1. SharesOK(t, Placed("BUY", t)', Placed("SELL", t)', paper', inventory'[t])
    OBVIOUS
  <2> QED BY <1>1, <2>1 DEF SharesOK, Reserved, Filled
<1> QED BY <1>1, <1>2, <1>3, <1>4 DEF LedgerInv

\* TradeKeepsLedger: a trade-through keeps the ledger's invariant, and only fills
\* resting orders.
LEMMA TradeKeepsLedger ==
  ASSUME LedgerInv, UNCHANGED rigid, NEW e \in Events, NEW t \in Tokens,
         NEW price \in 1..(TickCount - 1), NEW size \in Nat, NEW n \in 0..Len(book),
         apply_paper_trade_through(e, t, price, size, n)
  PROVE  /\ LedgerInv'
         /\ \A i \in Intents : Moved(e, paper[i], paper'[i])
         /\ e \notin applied
         /\ \E s : s.paper = paper' /\ CoreFill(e, s)
<1> DEFINE s == SweepBook(e, t, price, size, n)
<1>1. e \in TradeId /\ e \in 1..MaxEvents
  BY DEF Events, TradeId, LedgerInv, RequestsOK
<1>2. SweepOK(e, t, s)
  BY <1>1, SweepKeeps
<1>3. /\ account' = s.account /\ inventory' = [inventory EXCEPT ![t] = s.inv]
      /\ paper' = s.paper /\ applied' = applied \cup {e} /\ CoreFill(e, s)
      /\ UNCHANGED <<opened, book>> /\ e \notin applied
  BY DEF apply_paper_trade_through
<1> HIDE DEF s
<1>4. /\ account' \in [balance : Nat, reserved : Nat] /\ s.inv \in [shares : Nat, reserved : Nat]
      /\ paper' \in [Intents -> PaperRow]
  BY <1>2, <1>3 DEF SweepOK, SweepType
<1>5. PaperTypeOK'
  BY <1>1, <1>3, <1>4 DEF PaperTypeOK, LedgerInv
<1>6. \A i \in Intents : /\ RowOK(i, paper'[i]) /\ Moved(e, paper[i], paper'[i])
                         /\ paper'[i] # paper[i] => request[i].token = t
  BY <1>2, <1>3 DEF SweepOK
<1>7. PlacedOrders' = PlacedOrders
  <2>1. ASSUME NEW i \in Intents PROVE paper'[i] # NoRow <=> paper[i] # NoRow
    <3>1. NoRow.state \notin RestingState /\ NoRow.state # "FILLED"
      BY DEF NoRow, RestingState
    <3> QED BY <1>6, <3>1 DEF Moved
  <2> QED BY <2>1 DEF PlacedOrders
<1>8. /\ Buys' = Buys /\ Sells' = Sells
      /\ \A u \in Tokens : Placed("BUY", u)' = Placed("BUY", u)
                           /\ Placed("SELL", u)' = Placed("SELL", u)
  BY <1>7, SidesUnchanged DEF rigid
<1>9. CashOK(Buys', Sells', paper', account')
  BY <1>2, <1>3, <1>8 DEF SweepOK
<1>10. ASSUME NEW u \in Tokens
       PROVE  SharesOK(u, Placed("BUY", u)', Placed("SELL", u)', paper', inventory'[u])
  <2>1. CASE u = t
    <3>1. inventory'[t] = s.inv
      BY <1>3 DEF LedgerInv, PaperTypeOK
    <3> QED BY <1>2, <1>3, <1>8, <2>1, <3>1 DEF SweepOK
  <2>2. CASE u # t
    <3> DEFINE A == Placed("BUY", u)
               B == Placed("SELL", u)
    <3>1. inventory'[u] = inventory[u]
      BY <1>3, <2>2 DEF LedgerInv, PaperTypeOK
    <3>2. /\ IsFiniteSet(A) /\ IsFiniteSet(B) /\ A \subseteq Intents /\ B \subseteq Intents
      BY PlacedSides DEF LedgerInv, PaperTypeOK, Placed
    <3>3. \A j \in A \cup B : paper'[j] = paper[j]
      BY <1>6, <2>2 DEF Placed
    <3>4. SharesOK(u, A, B, paper, inventory[u])
      BY DEF LedgerInv
    <3> HIDE DEF A, B
    <3>5. SharesOK(u, A, B, paper', inventory[u])
      BY <3>2, <3>3, <3>4, SharesSame
    <3> QED BY <1>8, <3>1, <3>5 DEF A, B
  <2> QED BY <2>1, <2>2
<1>11. \A i \in Intents : paper'[i].trades \subseteq {0} \cup applied'
  BY <1>3, <1>6 DEF Moved, LedgerInv
<1>12. LedgerInv'
  BY <1>3, <1>5, <1>6, <1>7, <1>9, <1>10, <1>11, LedgerFrame DEF LedgerInv
<1> QED BY <1>3, <1>6, <1>12

-----------------------------------------------------------------------------
(* Cancellations and submissions in the ledger                             *)

\* CancelledRow: a row, and the same row closed.
LEMMA CancelledRow ==
  ASSUME NEW row \in PaperRow
  PROVE  LET new == [row EXCEPT !.state = "CANCELLED", !.remaining = 0, !.reserved = 0]
         IN /\ new.state = "CANCELLED" /\ new.remaining = 0 /\ new.reserved = 0
            /\ new.filled = row.filled /\ new.quote = row.quote /\ new.trades = row.trades
            /\ new \in PaperRow
<1> DEFINE st == {"ABSENT", "LIVE", "PARTIALLY_FILLED", "FILLED", "CANCELLED"}
           q == 0..Qty
           tr == SUBSET TradeId
           Rec == [state : st, remaining : q, filled : q, quote : Nat, reserved : Nat, trades : tr]
           new == [row EXCEPT !.state = "CANCELLED", !.remaining = 0, !.reserved = 0]
<1>1. row \in Rec /\ PaperRow = Rec
  BY DEF PaperRow
<1>2. "CANCELLED" \in st /\ 0 \in q /\ 0 \in Nat
  OBVIOUS
<1> HIDE DEF st, q, tr
<1>3. /\ new.state = "CANCELLED" /\ new.remaining = 0 /\ new.reserved = 0
      /\ new.filled = row.filled /\ new.quote = row.quote /\ new.trades = row.trades
  BY <1>1
<1>4. new \in Rec
  BY <1>1, <1>2
<1> HIDE DEF new, Rec
<1> QED BY <1>1, <1>3, <1>4 DEF new

\* CancelKeepsLedger: a cancellation gives back exactly what the order reserved.
LEMMA CancelKeepsLedger ==
  ASSUME LedgerInv, UNCHANGED rigid, NEW i \in Intents, cancel_paper_order(i)
  PROVE  /\ LedgerInv'
         /\ paper[i] # NoRow /\ paper'[i].state \notin RestingState \cup {"ABSENT"}
         /\ paper'[i] # paper[i] =>
              /\ paper[i].state \in RestingState /\ paper'[i].state = "CANCELLED"
              /\ paper'[i].filled = paper[i].filled /\ paper'[i].trades = paper[i].trades
         /\ \A j \in Intents \ {i} : paper'[j] = paper[j]
<1>0. /\ paper \in [Intents -> PaperRow] /\ account \in [balance : Nat, reserved : Nat]
      /\ inventory \in [Tokens -> [shares : Nat, reserved : Nat]]
      /\ RowOK(i, paper[i]) /\ paper[i] # NoRow /\ paper[i].state # "ABSENT"
      /\ UNCHANGED <<opened, book, applied>>
  BY DEF LedgerInv, PaperTypeOK, cancel_paper_order, RowOK
<1>1. CASE ~Resting(i)
  <2>1. UNCHANGED <<paper, account, inventory>>
    BY <1>1 DEF cancel_paper_order
  <2>2. PlacedOrders' = PlacedOrders
    BY <2>1 DEF PlacedOrders
  <2>3. /\ Buys' = Buys /\ Sells' = Sells
        /\ \A u \in Tokens : Placed("BUY", u)' = Placed("BUY", u)
                             /\ Placed("SELL", u)' = Placed("SELL", u)
    BY <2>2, SidesUnchanged DEF rigid
  <2>4. PaperTypeOK'
    BY <1>0, <2>1 DEF PaperTypeOK, LedgerInv
  <2>5. LedgerInv'
    BY <1>0, <2>1, <2>2, <2>3, <2>4, LedgerFrame DEF LedgerInv
  <2> QED BY <1>0, <1>1, <2>1, <2>5 DEF Resting
<1>2. CASE Resting(i)
  <2> DEFINE row == paper[i]
             new == [row EXCEPT !.state = "CANCELLED", !.remaining = 0, !.reserved = 0]
             t == request[i].token
             A == Placed("BUY", t)
             B == Placed("SELL", t)
  <2>1. paper' = [paper EXCEPT ![i] = new]
    BY <1>0, <1>2 DEF cancel_paper_order
  <2>2. /\ account' = IF IsBuy(i) THEN [account EXCEPT !.reserved = NonNegative(@ - row.reserved)]
                                  ELSE account
        /\ inventory' = IF IsBuy(i) THEN inventory
             ELSE [inventory EXCEPT ![t].reserved = NonNegative(@ - row.reserved)]
    BY <1>2 DEF cancel_paper_order
  <2>3. /\ row \in PaperRow /\ row.reserved \in Nat /\ row.quote \in Nat /\ row.filled \in 0..Qty
        /\ row.trades \subseteq TradeId /\ i \in DOMAIN request /\ Priced(i, row)
        /\ row.state \in RestingState
    BY <1>0, <1>2 DEF RowOK, PaperRow, Resting
  <2>4. /\ new.state = "CANCELLED" /\ new.remaining = 0 /\ new.reserved = 0
        /\ new.filled = row.filled /\ new.quote = row.quote /\ new.trades = row.trades
        /\ new \in PaperRow
    BY <2>3, CancelledRow
  <2> HIDE DEF new
  <2>5. RowOK(i, new)
    <3>1. Priced(i, new)
      BY <2>3, <2>4 DEF Priced
    <3> QED BY <2>3, <2>4, <3>1 DEF RowOK, RestingState
  <2>6. /\ paper'[i] = new /\ paper' \in [Intents -> PaperRow]
        /\ \A j \in Intents \ {i} : paper'[j] = paper[j]
    BY <1>0, <2>1, <2>4
  <2>7. \A j \in Intents : RowOK(j, paper'[j]) /\ paper'[j].trades \subseteq {0} \cup applied'
    BY <1>0, <2>4, <2>5, <2>6 DEF LedgerInv
  <2>8. PlacedOrders' = PlacedOrders
    <3>1. new # NoRow
      BY <2>4 DEF NoRow
    <3> QED BY <1>0, <2>6, <3>1 DEF PlacedOrders
  <2>9. /\ Buys' = Buys /\ Sells' = Sells
        /\ \A u \in Tokens : Placed("BUY", u)' = Placed("BUY", u)
                             /\ Placed("SELL", u)' = Placed("SELL", u)
    BY <2>8, SidesUnchanged DEF rigid
  <2>10. /\ Buys = {j \in PlacedOrders : IsBuy(j)} /\ Sells = {j \in PlacedOrders : ~IsBuy(j)}
         /\ \A u \in Tokens :
              /\ Placed("BUY", u) = {j \in PlacedOrders : IsBuy(j) /\ request[j].token = u}
              /\ Placed("SELL", u) = {j \in PlacedOrders : ~IsBuy(j) /\ request[j].token = u}
              /\ IsFiniteSet(Placed("BUY", u)) /\ IsFiniteSet(Placed("SELL", u))
         /\ IsFiniteSet(Buys) /\ IsFiniteSet(Sells)
    BY PlacedSides DEF LedgerInv, PaperTypeOK
  <2>11. /\ i \in PlacedOrders /\ PlacedOrders \subseteq Intents /\ t \in Tokens
    BY <1>0, <2>3 DEF PlacedOrders, LedgerInv, RequestsOK, PaperRequest
  <2>12. /\ Buys \subseteq Intents /\ Sells \subseteq Intents
         /\ A \subseteq Intents /\ B \subseteq Intents /\ IsFiniteSet(A) /\ IsFiniteSet(B)
         /\ (IsBuy(i) => i \in Buys /\ i \notin Sells /\ i \in A /\ i \notin B)
         /\ (~IsBuy(i) => i \notin Buys /\ i \in Sells /\ i \notin A /\ i \in B)
    BY <2>10, <2>11
  <2> HIDE DEF A, B
  <2>13. /\ CashOK(Buys, Sells, paper, account) /\ SharesOK(t, A, B, paper, inventory[t])
         /\ account.balance \in Nat /\ account.reserved \in Nat
         /\ inventory[t].shares \in Nat /\ inventory[t].reserved \in Nat
    BY <1>0, <2>11 DEF LedgerInv, A, B
  <2> HIDE DEF row
  <2>14. SumFunctionOnSet(Paid(paper'), Buys) = SumFunctionOnSet(Paid(paper), Buys)
    <3>1. WithFee(new.quote) = WithFee(row.quote) /\ WithFee(row.quote) \in Nat
      BY <2>3, <2>4, FeeArithmetic
    <3>2. /\ SumFunctionOnSet(Paid(paper), Buys) \in Nat
          /\ i \in Buys => SumFunctionOnSet(Paid(paper'), Buys)
               = SumFunctionOnSet(Paid(paper), Buys) + WithFee(new.quote) - WithFee(row.quote)
          /\ i \notin Buys =>
               SumFunctionOnSet(Paid(paper'), Buys) = SumFunctionOnSet(Paid(paper), Buys)
      BY <1>0, <2>6, <2>10, <2>12, OneRowSums DEF row
    <3> QED BY <3>1, <3>2
  <2>15. SumFunctionOnSet(Received(paper'), Sells) = SumFunctionOnSet(Received(paper), Sells)
    <3>1. LessFee(new.quote) = LessFee(row.quote) /\ LessFee(row.quote) \in Nat
      BY <2>3, <2>4, FeeArithmetic
    <3>2. /\ SumFunctionOnSet(Received(paper), Sells) \in Nat
          /\ i \in Sells => SumFunctionOnSet(Received(paper'), Sells)
               = SumFunctionOnSet(Received(paper), Sells) + LessFee(new.quote) - LessFee(row.quote)
          /\ i \notin Sells =>
               SumFunctionOnSet(Received(paper'), Sells) = SumFunctionOnSet(Received(paper), Sells)
      BY <1>0, <2>6, <2>10, <2>12, OneRowSums DEF row
    <3> QED BY <3>1, <3>2
  <2>16. /\ SumFunctionOnSet(Filled(paper'), A) = SumFunctionOnSet(Filled(paper), A)
         /\ SumFunctionOnSet(Filled(paper'), B) = SumFunctionOnSet(Filled(paper), B)
    <3>1. \A j \in Intents : Filled(paper')[j] = Filled(paper)[j]
      BY <2>4, <2>6 DEF Filled, row
    <3> QED BY <2>12, <3>1, SumCongruence
  <2>17. /\ SumFunctionOnSet(Reserved(paper), Buys) \in Nat
         /\ IsBuy(i) => /\ row.reserved <= SumFunctionOnSet(Reserved(paper), Buys)
                        /\ SumFunctionOnSet(Reserved(paper'), Buys)
                             = SumFunctionOnSet(Reserved(paper), Buys) - row.reserved
         /\ ~IsBuy(i) => SumFunctionOnSet(Reserved(paper'), Buys)
                           = SumFunctionOnSet(Reserved(paper), Buys)
    <3>1. /\ SumFunctionOnSet(Reserved(paper), Buys) \in Nat
          /\ i \in Buys => /\ paper[i].reserved <= SumFunctionOnSet(Reserved(paper), Buys)
                      /\ SumFunctionOnSet(Reserved(paper'), Buys)
             = SumFunctionOnSet(Reserved(paper), Buys) + paper'[i].reserved - paper[i].reserved
          /\ i \notin Buys =>
               SumFunctionOnSet(Reserved(paper'), Buys) = SumFunctionOnSet(Reserved(paper), Buys)
      BY <1>0, <2>6, <2>10, <2>12, OneRowSums
    <3>2. paper'[i].reserved = 0 /\ paper[i].reserved = row.reserved
      BY <2>4, <2>6 DEF row
    <3> QED BY <2>3, <2>12, <3>1, <3>2
  <2>18. /\ SumFunctionOnSet(Reserved(paper), B) \in Nat
         /\ ~IsBuy(i) => /\ row.reserved <= SumFunctionOnSet(Reserved(paper), B)
                         /\ SumFunctionOnSet(Reserved(paper'), B)
                              = SumFunctionOnSet(Reserved(paper), B) - row.reserved
         /\ IsBuy(i) => SumFunctionOnSet(Reserved(paper'), B)
                          = SumFunctionOnSet(Reserved(paper), B)
    <3>1. /\ SumFunctionOnSet(Reserved(paper), B) \in Nat
          /\ i \in B => /\ paper[i].reserved <= SumFunctionOnSet(Reserved(paper), B)
                      /\ SumFunctionOnSet(Reserved(paper'), B)
             = SumFunctionOnSet(Reserved(paper), B) + paper'[i].reserved - paper[i].reserved
          /\ i \notin B =>
               SumFunctionOnSet(Reserved(paper'), B) = SumFunctionOnSet(Reserved(paper), B)
      BY <1>0, <2>6, <2>10, <2>12, OneRowSums
    <3>2. paper'[i].reserved = 0 /\ paper[i].reserved = row.reserved
      BY <2>4, <2>6 DEF row
    <3> QED BY <2>3, <2>12, <3>1, <3>2
  <2>19. /\ account' \in [balance : Nat, reserved : Nat]
         /\ CashOK(Buys, Sells, paper', account')
    <3>1. CASE IsBuy(i)
      <4>1. account.reserved - row.reserved \in Nat
        BY <2>3, <2>13, <2>17, <3>1 DEF CashOK
      <4>2. NonNegative(account.reserved - row.reserved) = account.reserved - row.reserved
        BY <4>1 DEF NonNegative
      <4>3. account' = [balance |-> account.balance, reserved |-> account.reserved - row.reserved]
        BY <1>0, <2>2, <3>1, <4>2
      <4>4. account.reserved - row.reserved <= account.balance
        BY <2>3, <2>13 DEF CashOK
      <4>5. account.reserved - row.reserved = SumFunctionOnSet(Reserved(paper'), Buys)
        BY <2>13, <2>17, <3>1 DEF CashOK
      <4> QED BY <2>13, <2>14, <2>15, <4>1, <4>3, <4>4, <4>5 DEF CashOK
    <3>2. CASE ~IsBuy(i)
      BY <1>0, <2>2, <2>13, <2>14, <2>15, <2>17, <3>2 DEF CashOK
    <3> QED BY <3>1, <3>2
  <2>20. /\ inventory'[t] \in [shares : Nat, reserved : Nat]
         /\ inventory' \in [Tokens -> [shares : Nat, reserved : Nat]]
         /\ SharesOK(t, A, B, paper', inventory'[t])
         /\ \A u \in Tokens \ {t} : inventory'[u] = inventory[u]
    <3>1. CASE ~IsBuy(i)
      <4> DEFINE inv == inventory[t]
      <4>1. inv.reserved - row.reserved \in Nat
        BY <2>3, <2>13, <2>18, <3>1 DEF SharesOK
      <4>2. NonNegative(inv.reserved - row.reserved) = inv.reserved - row.reserved
        BY <4>1 DEF NonNegative
      <4>3. inventory' = [inventory EXCEPT ![t] =
                            [shares |-> inv.shares, reserved |-> inv.reserved - row.reserved]]
        <5>1. inventory[t] \in [shares : Nat, reserved : Nat]
          BY <1>0, <2>11
        <5>2. [inv EXCEPT !.reserved = inv.reserved - row.reserved]
                = [shares |-> inv.shares, reserved |-> inv.reserved - row.reserved]
          BY <5>1
        <5>3. inventory' = [inventory EXCEPT ![t] =
                              [inv EXCEPT !.reserved = inv.reserved - row.reserved]]
          BY <1>0, <2>2, <2>11, <3>1, <4>2
        <5> QED BY <5>2, <5>3
      <4>4. inventory'[t] = [shares |-> inv.shares, reserved |-> inv.reserved - row.reserved]
        BY <1>0, <2>11, <4>3
      <4>5. inv.reserved - row.reserved <= inv.shares
        BY <2>3, <2>13 DEF SharesOK
      <4>6. inv.reserved - row.reserved = SumFunctionOnSet(Reserved(paper'), B)
        BY <2>13, <2>18, <3>1 DEF SharesOK
      <4>7. SharesOK(t, A, B, paper', inventory'[t])
        BY <2>13, <2>16, <4>4, <4>5, <4>6 DEF SharesOK
      <4>8. inventory'[t] \in [shares : Nat, reserved : Nat]
        BY <2>13, <4>1, <4>4
      <4> QED BY <1>0, <4>3, <4>7, <4>8
    <3>2. CASE IsBuy(i)
      <4>1. inventory' = inventory
        BY <2>2, <3>2
      <4> QED BY <1>0, <2>11, <2>13, <2>16, <2>18, <3>2, <4>1 DEF SharesOK
    <3> QED BY <3>1, <3>2
  <2>21. ASSUME NEW u \in Tokens
         PROVE  SharesOK(u, Placed("BUY", u)', Placed("SELL", u)', paper', inventory'[u])
    <3>1. CASE u = t
      BY <2>9, <2>20, <3>1 DEF A, B
    <3>2. CASE u # t
      <4>1. /\ Placed("BUY", u) \subseteq Intents /\ Placed("SELL", u) \subseteq Intents
            /\ \A j \in Placed("BUY", u) \cup Placed("SELL", u) : paper'[j] = paper[j]
            /\ IsFiniteSet(Placed("BUY", u)) /\ IsFiniteSet(Placed("SELL", u))
        BY <2>6, <2>10, <2>11, <3>2
      <4>2. SharesOK(u, Placed("BUY", u), Placed("SELL", u), paper, inventory[u])
        BY DEF LedgerInv
      <4>3. SharesOK(u, Placed("BUY", u), Placed("SELL", u), paper', inventory[u])
        BY <4>1, <4>2, SharesSame
      <4> QED BY <2>9, <2>20, <3>2, <4>3
    <3> QED BY <3>1, <3>2
  <2>22. PaperTypeOK'
    BY <1>0, <2>6, <2>19, <2>20 DEF PaperTypeOK, LedgerInv
  <2>23. LedgerInv'
    BY <1>0, <2>7, <2>8, <2>9, <2>19, <2>21, <2>22, LedgerFrame DEF LedgerInv
  <2>24. new.state \notin RestingState \cup {"ABSENT"}
    BY <2>4 DEF RestingState
  <2> QED BY <1>0, <2>3, <2>4, <2>6, <2>23, <2>24 DEF row
<1> QED BY <1>1, <1>2

\* NewRows: what a submission may commit.
LEMMA NewRows ==
  ASSUME RequestsOK, NEW i \in DOMAIN request, NEW row \in PaperRows(request[i])
  PROVE  /\ RowOK(i, row)
         /\ row.state \in {"LIVE", "FILLED", "CANCELLED"}
         /\ row.state = "LIVE" => row.filled = 0
         /\ row.state = "FILLED" => row.filled > 0
         /\ row.trades = IF row.filled > 0 THEN {0} ELSE {}
<1> DEFINE r == request[i]
<1>1. r.price \in Nat /\ r.price \in 1..(TickCount - 1) /\ r.side \in {"BUY", "SELL"}
  BY DEF RequestsOK, PaperRequest
<1>2. {0} \subseteq TradeId /\ {} \subseteq TradeId
  BY DEF TradeId
<1>3. CASE r.tif = "GTC"
  <2> DEFINE most == IF r.side = "BUY" THEN WithFee(Qty * r.price) ELSE Qty
             new == [state |-> "LIVE", remaining |-> Qty, filled |-> 0, quote |-> 0,
                     reserved |-> most, trades |-> {}]
  <2>1. row = new
    BY <1>3 DEF PaperRows, NoRow
  <2>2. most \in Nat
    <3>1. Qty * r.price \in Nat
      BY <1>1
    <3> HIDE DEF r
    <3> QED BY <3>1, FeeArithmetic
  <2>3. new \in PaperRow
    <3> DEFINE none == {}
    <3>1. none \in SUBSET TradeId
      BY <1>2
    <3> HIDE DEF most, none
    <3>2. [state |-> "LIVE", remaining |-> Qty, filled |-> 0, quote |-> 0,
           reserved |-> most, trades |-> none] \in PaperRow
      BY <2>2, <3>1 DEF PaperRow
    <3> QED BY <3>2 DEF none
  <2>4. Priced(i, new)
    <3>1. 0 * r.price = 0
      BY <1>1
    <3> QED BY <3>1 DEF Priced
  <2>5. RowOK(i, new)
    <3>1. new.reserved = IF IsBuy(i) THEN WithFee(new.remaining * r.price) ELSE new.remaining
      BY DEF IsBuy
    <3>2. /\ new.state = "LIVE" /\ new.remaining = Qty /\ new.filled = 0
      OBVIOUS
    <3> HIDE DEF new
    <3> QED BY <1>3, <2>3, <2>4, <3>1, <3>2 DEF RowOK, RestingState
  <2> QED BY <2>1, <2>5
<1>4. CASE r.tif # "GTC"
  <2>1. PICK fill \in walk_book(r) :
           /\ Complete(r, fill)
           /\ row = LET dropped == r.tif = "FOK" /\ ~fill.complete
                        shares == IF dropped THEN 0 ELSE fill.shares
                    IN [NoRow EXCEPT !.state = IF fill.complete THEN "FILLED" ELSE "CANCELLED",
                                     !.filled = shares,
                                     !.quote = IF dropped THEN 0 ELSE fill.quote,
                                     !.trades = IF shares > 0 THEN {0} ELSE {}]
    BY <1>4 DEF PaperRows
  <2>2. PICK s \in 0..Qty, p \in 1..(TickCount - 1) :
           /\ fill.shares = s /\ fill.quote = s * p /\ fill.complete \in BOOLEAN
           /\ IF r.side = "BUY" THEN p <= r.price ELSE p >= r.price
    BY DEF walk_book
  <2> DEFINE dropped == r.tif = "FOK" /\ ~fill.complete
             shares == IF dropped THEN 0 ELSE s
             quote == IF dropped THEN 0 ELSE s * p
             st == IF fill.complete THEN "FILLED" ELSE "CANCELLED"
             ids == IF shares > 0 THEN {0} ELSE {}
  <2>3. row = [state |-> st, remaining |-> 0, filled |-> shares, quote |-> quote,
               reserved |-> 0, trades |-> ids]
    BY <2>1, <2>2 DEF NoRow
  <2>4. shares \in 0..Qty /\ quote \in Nat /\ ids \in SUBSET TradeId
    <3>1. s * p \in Nat
      BY <2>2
    <3> QED BY <1>2, <2>2, <3>1
  <2>5. st = "FILLED" => shares > 0
    BY <2>1, <2>2 DEF Complete
  <2>6. /\ s * p \in Nat /\ s * r.price \in Nat /\ 0 * r.price = 0
        /\ p <= r.price => s * p <= s * r.price
        /\ p >= r.price => s * p >= s * r.price
    <3>1. s \in Nat /\ p \in Nat
      OBVIOUS
    <3> DEFINE limit == r.price
    <3>2. limit \in Nat
      BY <1>1
    <3> HIDE DEF limit, r
    <3>3. /\ s * p \in Nat /\ s * limit \in Nat /\ 0 * limit = 0
          /\ p <= limit => s * p <= s * limit
      BY <3>1, <3>2, Products
    <3>4. p >= limit => s * p >= s * limit
      BY <3>1, <3>2, Products
    <3> QED BY <3>3, <3>4 DEF limit
  <2>7. IF IsBuy(i) THEN quote <= shares * r.price ELSE quote >= shares * r.price
    BY <2>2, <2>6 DEF IsBuy
  <2>8. st \in {"FILLED", "CANCELLED"} /\ ids = (IF shares > 0 THEN {0} ELSE {})
    OBVIOUS
  <2> HIDE DEF shares, quote, st, ids
  <2>9. row \in PaperRow
    BY <2>3, <2>4, <2>8 DEF PaperRow
  <2>10. Priced(i, row)
    BY <1>4, <2>3, <2>7 DEF Priced
  <2>11. RowOK(i, row)
    BY <2>3, <2>8, <2>9, <2>10 DEF RowOK, RestingState
  <2> QED BY <2>3, <2>5, <2>8, <2>11
<1> QED BY <1>3, <1>4

\* NewRowSums: how the sums over a set of orders change when an order is added.
LEMMA NewRowSums ==
  ASSUME NEW A, IsFiniteSet(A), A \subseteq Intents, NEW i \in Intents, i \notin A,
         NEW p \in [Intents -> PaperRow], NEW r \in [Intents -> PaperRow],
         \A j \in A : r[j] = p[j]
  PROVE  /\ SumFunctionOnSet(Reserved(r), A \cup {i})
              = SumFunctionOnSet(Reserved(p), A) + r[i].reserved
         /\ SumFunctionOnSet(Paid(r), A \cup {i})
              = SumFunctionOnSet(Paid(p), A) + WithFee(r[i].quote)
         /\ SumFunctionOnSet(Received(r), A \cup {i})
              = SumFunctionOnSet(Received(p), A) + LessFee(r[i].quote)
         /\ SumFunctionOnSet(Filled(r), A \cup {i})
              = SumFunctionOnSet(Filled(p), A) + r[i].filled
<1>2. \A j \in Intents :
        /\ Reserved(p)[j] \in Int /\ Paid(p)[j] \in Int
        /\ Received(p)[j] \in Int /\ Filled(p)[j] \in Int
  BY ColumnTypes
<1>3. /\ Reserved(r)[i] = r[i].reserved /\ Reserved(r)[i] \in Int
      /\ Paid(r)[i] = WithFee(r[i].quote) /\ Paid(r)[i] \in Int
      /\ Received(r)[i] = LessFee(r[i].quote) /\ Received(r)[i] \in Int
      /\ Filled(r)[i] = r[i].filled /\ Filled(r)[i] \in Int
  BY ColumnTypes
<1>4. \A j \in A : /\ Reserved(r)[j] = Reserved(p)[j] /\ Paid(r)[j] = Paid(p)[j]
                   /\ Received(r)[j] = Received(p)[j] /\ Filled(r)[j] = Filled(p)[j]
  BY DEF Reserved, Paid, Received, Filled
<1>5. ASSUME NEW f, NEW g, \A j \in Intents : f[j] \in Int, g[i] \in Int,
             \A j \in A : g[j] = f[j]
      PROVE  SumFunctionOnSet(g, A \cup {i}) = SumFunctionOnSet(f, A) + g[i]
  <2>1. \A j \in A : f[j] \in Int
    BY <1>5
  <2> QED BY <1>5, <2>1, SumExtend
<1>6. SumFunctionOnSet(Reserved(r), A \cup {i})
        = SumFunctionOnSet(Reserved(p), A) + Reserved(r)[i]
  <2> DEFINE f == Reserved(p)
             g == Reserved(r)
  <2>1. (\A j \in Intents : f[j] \in Int) /\ g[i] \in Int /\ (\A j \in A : g[j] = f[j])
    BY <1>2, <1>3, <1>4
  <2> HIDE DEF f, g
  <2>2. SumFunctionOnSet(g, A \cup {i}) = SumFunctionOnSet(f, A) + g[i]
    BY <1>5, <2>1
  <2> QED BY <2>2 DEF f, g
<1>7. SumFunctionOnSet(Paid(r), A \cup {i})
        = SumFunctionOnSet(Paid(p), A) + Paid(r)[i]
  <2> DEFINE f == Paid(p)
             g == Paid(r)
  <2>1. (\A j \in Intents : f[j] \in Int) /\ g[i] \in Int /\ (\A j \in A : g[j] = f[j])
    BY <1>2, <1>3, <1>4
  <2> HIDE DEF f, g
  <2>2. SumFunctionOnSet(g, A \cup {i}) = SumFunctionOnSet(f, A) + g[i]
    BY <1>5, <2>1
  <2> QED BY <2>2 DEF f, g
<1>8. SumFunctionOnSet(Received(r), A \cup {i})
        = SumFunctionOnSet(Received(p), A) + Received(r)[i]
  <2> DEFINE f == Received(p)
             g == Received(r)
  <2>1. (\A j \in Intents : f[j] \in Int) /\ g[i] \in Int /\ (\A j \in A : g[j] = f[j])
    BY <1>2, <1>3, <1>4
  <2> HIDE DEF f, g
  <2>2. SumFunctionOnSet(g, A \cup {i}) = SumFunctionOnSet(f, A) + g[i]
    BY <1>5, <2>1
  <2> QED BY <2>2 DEF f, g
<1>9. SumFunctionOnSet(Filled(r), A \cup {i})
        = SumFunctionOnSet(Filled(p), A) + Filled(r)[i]
  <2> DEFINE f == Filled(p)
             g == Filled(r)
  <2>1. (\A j \in Intents : f[j] \in Int) /\ g[i] \in Int /\ (\A j \in A : g[j] = f[j])
    BY <1>2, <1>3, <1>4
  <2> HIDE DEF f, g
  <2>2. SumFunctionOnSet(g, A \cup {i}) = SumFunctionOnSet(f, A) + g[i]
    BY <1>5, <2>1
  <2> QED BY <2>2 DEF f, g
<1> QED BY <1>3, <1>6, <1>7, <1>8, <1>9

\* CommitKeepsLedger: a submission reserves and pays out of what is unreserved.
LEMMA CommitKeepsLedger ==
  ASSUME LedgerInv, UNCHANGED rigid, NEW i \in DOMAIN request,
         NEW row \in PaperRows(request[i]), commit_paper_order(i, row)
  PROVE  /\ LedgerInv' /\ paper[i] = NoRow /\ paper'[i] = row
         /\ \A j \in Intents \ {i} : paper'[j] = paper[j]
<1>0. PICK t \in Tokens : t = request[i].token
  BY DEF LedgerInv, RequestsOK, PaperRequest
<1> DEFINE A == Placed("BUY", t)
           B == Placed("SELL", t)
           inv == inventory[t]
<1>1. /\ paper \in [Intents -> PaperRow] /\ account \in [balance : Nat, reserved : Nat]
      /\ inventory \in [Tokens -> [shares : Nat, reserved : Nat]] /\ book \in Seq(Intents)
      /\ i \in Intents
  BY DEF LedgerInv, PaperTypeOK, RequestsOK
<1>2. /\ opened /\ paper[i] = NoRow /\ Covers(i, row)
      /\ account' = AccountAfterCommit(i, row) /\ inventory' = InventoryAfterCommit(i, row)
      /\ paper' = [paper EXCEPT ![i] = row] /\ book' = Append(book, i)
      /\ UNCHANGED <<opened, applied>>
  BY DEF commit_paper_order
<1>3. /\ RowOK(i, row) /\ row.state \in {"LIVE", "FILLED", "CANCELLED"}
      /\ row.trades \subseteq {0}
  BY NewRows DEF LedgerInv
<1>4. /\ row \in PaperRow /\ row.reserved \in Nat /\ row.quote \in Nat /\ row.filled \in Nat
      /\ row # NoRow
  BY <1>3 DEF RowOK, PaperRow, NoRow
<1>5. /\ paper'[i] = row /\ paper' \in [Intents -> PaperRow]
      /\ \A j \in Intents \ {i} : paper'[j] = paper[j]
  BY <1>1, <1>2, <1>4
<1>6. PlacedOrders' = PlacedOrders \cup {i} /\ i \notin PlacedOrders
  BY <1>1, <1>2, <1>4, <1>5 DEF PlacedOrders
<1>7. /\ \A j \in Intents : RowOK(j, paper'[j]) /\ paper'[j].trades \subseteq {0} \cup applied'
      /\ IsFiniteSet(PlacedOrders')
  BY <1>1, <1>2, <1>3, <1>5, <1>6, FS_AddElement DEF LedgerInv
<1>8. /\ Buys = {j \in PlacedOrders : IsBuy(j)} /\ Sells = {j \in PlacedOrders : ~IsBuy(j)}
      /\ \A u \in Tokens :
           /\ Placed("BUY", u) = {j \in PlacedOrders : IsBuy(j) /\ request[j].token = u}
           /\ Placed("SELL", u) = {j \in PlacedOrders : ~IsBuy(j) /\ request[j].token = u}
           /\ IsFiniteSet(Placed("BUY", u)) /\ IsFiniteSet(Placed("SELL", u))
      /\ IsFiniteSet(Buys) /\ IsFiniteSet(Sells)
  BY PlacedSides DEF LedgerInv, PaperTypeOK
<1>9. /\ Buys' = {j \in PlacedOrders' : IsBuy(j)} /\ Sells' = {j \in PlacedOrders' : ~IsBuy(j)}
      /\ \A u \in Tokens :
           /\ Placed("BUY", u)' = {j \in PlacedOrders' : IsBuy(j) /\ request[j].token = u}
           /\ Placed("SELL", u)' = {j \in PlacedOrders' : ~IsBuy(j) /\ request[j].token = u}
  <2>1. UNCHANGED request /\ PlacedOrders' = {j \in Intents : paper'[j] # NoRow}
    BY DEF rigid, PlacedOrders
  <2>2. \A j \in PlacedOrders' :
          /\ request[j].token \in Tokens
          /\ request[j].side = "BUY" \/ request[j].side = "SELL"
    <3>1. \A j \in PlacedOrders' : j \in DOMAIN request
      BY <1>7, <2>1 DEF RowOK
    <3> QED BY <3>1 DEF LedgerInv, RequestsOK, PaperRequest
  <2>3. \A side, u : Placed(side, u)' = {j \in PlacedOrders' : request[j].side = side
                                                              /\ request[j].token = u}
    BY <2>1 DEF Placed
  <2>4. Buys' = UNION {Placed("BUY", u)' : u \in Tokens}
    BY DEF Buys
  <2>5. Sells' = UNION {Placed("SELL", u)' : u \in Tokens}
    BY DEF Sells
  <2>6. Buys' = {j \in PlacedOrders' : IsBuy(j)}
    BY <2>2, <2>3, <2>4 DEF IsBuy
  <2>7. Sells' = {j \in PlacedOrders' : ~IsBuy(j)}
    BY <2>2, <2>3, <2>5 DEF IsBuy
  <2> QED BY <2>2, <2>3, <2>6, <2>7 DEF IsBuy
<1>10. /\ IsBuy(i) => /\ Buys' = Buys \cup {i} /\ Sells' = Sells
                      /\ A' = A \cup {i} /\ B' = B /\ i \notin Buys /\ i \notin A
       /\ ~IsBuy(i) => /\ Buys' = Buys /\ Sells' = Sells \cup {i}
                       /\ A' = A /\ B' = B \cup {i} /\ i \notin Sells /\ i \notin B
       /\ \A u \in Tokens \ {t} : Placed("BUY", u)' = Placed("BUY", u)
                                  /\ Placed("SELL", u)' = Placed("SELL", u)
  <2> DEFINE P == PlacedOrders
             Q == P \cup {i}
  <2>1. /\ Buys' = {j \in Q : IsBuy(j)} /\ Sells' = {j \in Q : ~IsBuy(j)}
        /\ \A u \in Tokens :
             /\ Placed("BUY", u)' = {j \in Q : IsBuy(j) /\ request[j].token = u}
             /\ Placed("SELL", u)' = {j \in Q : ~IsBuy(j) /\ request[j].token = u}
    BY <1>6, <1>9
  <2>2. Buys = {j \in P : IsBuy(j)} /\ Sells = {j \in P : ~IsBuy(j)} /\ i \notin P
    BY <1>6, <1>8
  <2> HIDE DEF P
  <2>3. /\ IsBuy(i) => Buys' = Buys \cup {i} /\ Sells' = Sells /\ i \notin Buys
        /\ ~IsBuy(i) => Buys' = Buys /\ Sells' = Sells \cup {i} /\ i \notin Sells
    BY <2>1, <2>2
  <2>4. ASSUME NEW u \in Tokens
        PROVE  /\ u = t /\ IsBuy(i) => /\ Placed("BUY", u)' = Placed("BUY", u) \cup {i}
                                       /\ Placed("SELL", u)' = Placed("SELL", u)
                                       /\ i \notin Placed("BUY", u)
               /\ u = t /\ ~IsBuy(i) => /\ Placed("BUY", u)' = Placed("BUY", u)
                                        /\ Placed("SELL", u)' = Placed("SELL", u) \cup {i}
                                        /\ i \notin Placed("SELL", u)
               /\ u # t => /\ Placed("BUY", u)' = Placed("BUY", u)
                           /\ Placed("SELL", u)' = Placed("SELL", u)
    <3> DEFINE X == Placed("BUY", u)
               Y == Placed("SELL", u)
    <3>1. /\ X' = {j \in Q : IsBuy(j) /\ request[j].token = u}
          /\ Y' = {j \in Q : ~IsBuy(j) /\ request[j].token = u}
      BY <2>1
    <3>2. /\ X = {j \in P : IsBuy(j) /\ request[j].token = u}
          /\ Y = {j \in P : ~IsBuy(j) /\ request[j].token = u}
      BY <1>8 DEF P
    <3> HIDE DEF X, Y
    <3>3. u = t /\ IsBuy(i) => X' = X \cup {i} /\ Y' = Y /\ i \notin X
      BY <1>0, <2>2, <3>1, <3>2
    <3>4. u = t /\ ~IsBuy(i) => X' = X /\ Y' = Y \cup {i} /\ i \notin Y
      BY <1>0, <2>2, <3>1, <3>2
    <3>5. u # t => X' = X /\ Y' = Y
      BY <1>0, <2>2, <3>1, <3>2
    <3> QED BY <3>3, <3>4, <3>5 DEF X, Y
  <2>5. /\ IsBuy(i) => A' = A \cup {i} /\ B' = B /\ i \notin A
        /\ ~IsBuy(i) => A' = A /\ B' = B \cup {i} /\ i \notin B
    BY <2>4
  <2>6. \A u \in Tokens \ {t} : Placed("BUY", u)' = Placed("BUY", u)
                                /\ Placed("SELL", u)' = Placed("SELL", u)
    BY <2>4
  <2> QED BY <2>3, <2>5, <2>6
<1>11. /\ Buys \subseteq Intents /\ Sells \subseteq Intents /\ IsFiniteSet(Buys)
       /\ IsFiniteSet(Sells) /\ A \subseteq Intents /\ B \subseteq Intents
       /\ IsFiniteSet(A) /\ IsFiniteSet(B) /\ i \notin Buys /\ i \notin Sells
       /\ i \notin A /\ i \notin B
  BY <1>6, <1>8 DEF PlacedOrders
<1>12. /\ CashOK(Buys, Sells, paper, account) /\ SharesOK(t, A, B, paper, inv)
       /\ account.balance \in Nat /\ account.reserved \in Nat
       /\ inv \in [shares : Nat, reserved : Nat] /\ inv.shares \in Nat /\ inv.reserved \in Nat
       /\ \A u \in Tokens :
            SharesOK(u, Placed("BUY", u), Placed("SELL", u), paper, inventory[u])
  BY <1>1 DEF LedgerInv
<1> HIDE DEF A, B
<1> DEFINE resB == SumFunctionOnSet(Reserved(paper), Buys)
           paidB == SumFunctionOnSet(Paid(paper), Buys)
           recS == SumFunctionOnSet(Received(paper), Sells)
           resS == SumFunctionOnSet(Reserved(paper), B)
           filB == SumFunctionOnSet(Filled(paper), A)
           filS == SumFunctionOnSet(Filled(paper), B)
<1>13. /\ resB \in Nat /\ paidB \in Nat /\ recS \in Nat /\ resS \in Nat
       /\ filB \in Nat /\ filS \in Nat
       /\ config.quote * FeeDen \in Int /\ config.shares[t] \in Int
  <2>1. config.quote \in Nat /\ config.shares[t] \in Nat
    BY DEF LedgerInv, RequestsOK
  <2>2. config.quote * FeeDen \in Nat
    BY <2>1, Products
  <2>3. resB \in Nat /\ paidB \in Nat
    BY <1>1, <1>5, <1>11, OneRowSums
  <2>4. recS \in Nat
    BY <1>1, <1>5, <1>11, OneRowSums
  <2>5. resS \in Nat /\ filS \in Nat
    BY <1>1, <1>5, <1>11, OneRowSums
  <2>6. filB \in Nat
    BY <1>1, <1>5, <1>11, OneRowSums
  <2> QED BY <2>1, <2>2, <2>3, <2>4, <2>5, <2>6
<1>14. /\ account.reserved = resB /\ account.reserved <= account.balance
       /\ inv.reserved = resS /\ inv.reserved <= inv.shares
       /\ account.balance = config.quote * FeeDen - paidB + recS
       /\ inv.shares = config.shares[t] + filB - filS
  BY <1>2, <1>12 DEF CashOK, SharesOK
<1>15. WithFee(row.quote) \in Nat /\ LessFee(row.quote) \in Nat
  BY <1>4, FeeArithmetic
<1>16. ASSUME NEW S, IsFiniteSet(S), S \subseteq Intents, i \notin S
       PROVE  /\ SumFunctionOnSet(Reserved(paper'), S) = SumFunctionOnSet(Reserved(paper), S)
              /\ SumFunctionOnSet(Paid(paper'), S) = SumFunctionOnSet(Paid(paper), S)
              /\ SumFunctionOnSet(Received(paper'), S) = SumFunctionOnSet(Received(paper), S)
              /\ SumFunctionOnSet(Filled(paper'), S) = SumFunctionOnSet(Filled(paper), S)
              /\ SumFunctionOnSet(Reserved(paper'), S \cup {i})
                   = SumFunctionOnSet(Reserved(paper), S) + row.reserved
              /\ SumFunctionOnSet(Paid(paper'), S \cup {i})
                   = SumFunctionOnSet(Paid(paper), S) + WithFee(row.quote)
              /\ SumFunctionOnSet(Received(paper'), S \cup {i})
                   = SumFunctionOnSet(Received(paper), S) + LessFee(row.quote)
              /\ SumFunctionOnSet(Filled(paper'), S \cup {i})
                   = SumFunctionOnSet(Filled(paper), S) + row.filled
  <2>1. \A j \in S : paper'[j] = paper[j]
    BY <1>5, <1>16
  <2>2. /\ SumFunctionOnSet(Reserved(paper'), S) = SumFunctionOnSet(Reserved(paper), S)
        /\ SumFunctionOnSet(Paid(paper'), S) = SumFunctionOnSet(Paid(paper), S)
        /\ SumFunctionOnSet(Received(paper'), S) = SumFunctionOnSet(Received(paper), S)
        /\ SumFunctionOnSet(Filled(paper'), S) = SumFunctionOnSet(Filled(paper), S)
    BY <1>1, <1>5, <1>16, OneRowSums
  <2>3. \A p, r \in [Intents -> PaperRow] : (\A j \in S : r[j] = p[j]) =>
          /\ SumFunctionOnSet(Reserved(r), S \cup {i})
               = SumFunctionOnSet(Reserved(p), S) + r[i].reserved
          /\ SumFunctionOnSet(Paid(r), S \cup {i})
               = SumFunctionOnSet(Paid(p), S) + WithFee(r[i].quote)
          /\ SumFunctionOnSet(Received(r), S \cup {i})
               = SumFunctionOnSet(Received(p), S) + LessFee(r[i].quote)
          /\ SumFunctionOnSet(Filled(r), S \cup {i})
               = SumFunctionOnSet(Filled(p), S) + r[i].filled
    BY <1>1, <1>16, NewRowSums
  <2>4. /\ SumFunctionOnSet(Reserved(paper'), S \cup {i})
             = SumFunctionOnSet(Reserved(paper), S) + paper'[i].reserved
        /\ SumFunctionOnSet(Paid(paper'), S \cup {i})
             = SumFunctionOnSet(Paid(paper), S) + WithFee(paper'[i].quote)
        /\ SumFunctionOnSet(Received(paper'), S \cup {i})
             = SumFunctionOnSet(Received(paper), S) + LessFee(paper'[i].quote)
        /\ SumFunctionOnSet(Filled(paper'), S \cup {i})
             = SumFunctionOnSet(Filled(paper), S) + paper'[i].filled
    BY <1>1, <1>5, <2>1, <2>3
  <2> QED BY <1>5, <2>2, <2>4
<1>17. /\ account' \in [balance : Nat, reserved : Nat]
       /\ CashOK(Buys', Sells', paper', account')
  <2>1. CASE IsBuy(i)
    <3> DEFINE balance == account.balance - WithFee(row.quote)
               reserved == account.reserved + row.reserved
    <3>1. account' = [balance |-> balance, reserved |-> reserved]
      BY <1>2, <2>1 DEF AccountAfterCommit
    <3>2. account.balance - account.reserved >= WithFee(row.quote) + row.reserved
      BY <1>2, <2>1 DEF Covers
    <3>3. balance \in Nat /\ reserved \in Nat /\ reserved <= balance
      BY <1>4, <1>12, <1>15, <3>2
    <3>4. /\ SumFunctionOnSet(Reserved(paper'), Buys') = resB + row.reserved
          /\ SumFunctionOnSet(Paid(paper'), Buys') = paidB + WithFee(row.quote)
          /\ SumFunctionOnSet(Received(paper'), Sells') = recS
      BY <1>10, <1>11, <1>16, <2>1
    <3> HIDE DEF resB, paidB, recS
    <3>5. reserved = SumFunctionOnSet(Reserved(paper'), Buys')
      BY <1>14, <3>4
    <3>6. balance = config.quote * FeeDen - SumFunctionOnSet(Paid(paper'), Buys')
                      + SumFunctionOnSet(Received(paper'), Sells')
      BY <1>13, <1>14, <1>15, <3>4
    <3> HIDE DEF balance, reserved
    <3> QED BY <3>1, <3>3, <3>5, <3>6 DEF CashOK
  <2>2. CASE ~IsBuy(i)
    <3> DEFINE balance == account.balance + LessFee(row.quote)
    <3>1. account' = [balance |-> balance, reserved |-> account.reserved]
      BY <1>1, <1>2, <2>2 DEF AccountAfterCommit
    <3>2. balance \in Nat /\ account.reserved <= balance
      BY <1>12, <1>14, <1>15
    <3>3. /\ SumFunctionOnSet(Reserved(paper'), Buys') = resB
          /\ SumFunctionOnSet(Paid(paper'), Buys') = paidB
          /\ SumFunctionOnSet(Received(paper'), Sells') = recS + LessFee(row.quote)
      BY <1>10, <1>11, <1>16, <2>2
    <3> HIDE DEF resB, paidB, recS
    <3>4. balance = config.quote * FeeDen - SumFunctionOnSet(Paid(paper'), Buys')
                      + SumFunctionOnSet(Received(paper'), Sells')
      BY <1>13, <1>14, <1>15, <3>3
    <3> HIDE DEF balance
    <3> QED BY <1>12, <1>14, <3>1, <3>2, <3>3, <3>4 DEF CashOK
  <2> QED BY <2>1, <2>2
<1>18. /\ inventory' \in [Tokens -> [shares : Nat, reserved : Nat]]
       /\ SharesOK(t, A', B', paper', inventory'[t])
       /\ \A u \in Tokens \ {t} : inventory'[u] = inventory[u]
  <2>1. CASE IsBuy(i)
    <3> DEFINE shares == inv.shares + row.filled
    <3>1. inventory' = [inventory EXCEPT ![t] = [shares |-> shares,
                                                reserved |-> inv.reserved]]
      BY <1>0, <1>1, <1>2, <2>1 DEF InventoryAfterCommit
    <3>2. shares \in Nat /\ inv.reserved <= shares
      BY <1>4, <1>12, <1>14
    <3>3. /\ SumFunctionOnSet(Filled(paper'), A') = filB + row.filled
          /\ SumFunctionOnSet(Filled(paper'), B') = filS
          /\ SumFunctionOnSet(Reserved(paper'), B') = resS
      BY <1>10, <1>11, <1>16, <2>1
    <3> HIDE DEF resS, filB, filS
    <3>4. shares = config.shares[t] + SumFunctionOnSet(Filled(paper'), A')
                     - SumFunctionOnSet(Filled(paper'), B')
      BY <1>4, <1>13, <1>14, <3>3
    <3> HIDE DEF shares, inv
    <3> DEFINE reserved == inv.reserved
    <3>5. reserved \in Nat
      BY <1>12
    <3>6. inventory' = [inventory EXCEPT ![t] = [shares |-> shares, reserved |-> reserved]]
      BY <3>1
    <3>8. /\ reserved = SumFunctionOnSet(Reserved(paper'), B') /\ reserved <= shares
      BY <1>14, <3>2, <3>3
    <3> HIDE DEF reserved
    <3>7. /\ inventory'[t] = [shares |-> shares, reserved |-> reserved]
          /\ inventory' \in [Tokens -> [shares : Nat, reserved : Nat]]
          /\ \A u \in Tokens \ {t} : inventory'[u] = inventory[u]
      BY <1>1, <3>2, <3>5, <3>6
    <3> QED BY <3>4, <3>7, <3>8 DEF SharesOK
  <2>2. CASE ~IsBuy(i)
    <3> DEFINE shares == inv.shares - row.filled
               reserved == inv.reserved + row.reserved
    <3>1. inventory' = [inventory EXCEPT ![t] = [shares |-> shares, reserved |-> reserved]]
      BY <1>0, <1>1, <1>2, <2>2 DEF InventoryAfterCommit
    <3>2. inv.shares - inv.reserved >= row.filled + row.reserved
      BY <1>0, <1>2, <2>2 DEF Covers
    <3>3. shares \in Nat /\ reserved \in Nat /\ reserved <= shares
      BY <1>4, <1>12, <1>14, <3>2
    <3>4. /\ SumFunctionOnSet(Filled(paper'), A') = filB
          /\ SumFunctionOnSet(Filled(paper'), B') = filS + row.filled
          /\ SumFunctionOnSet(Reserved(paper'), B') = resS + row.reserved
      BY <1>10, <1>11, <1>16, <2>2
    <3> HIDE DEF resS, filB, filS
    <3>5. shares = config.shares[t] + SumFunctionOnSet(Filled(paper'), A')
                     - SumFunctionOnSet(Filled(paper'), B')
      BY <1>4, <1>13, <1>14, <3>4
    <3>6. reserved = SumFunctionOnSet(Reserved(paper'), B')
      BY <1>14, <3>4
    <3> HIDE DEF shares, reserved, inv
    <3>7. /\ inventory'[t] = [shares |-> shares, reserved |-> reserved]
          /\ inventory' \in [Tokens -> [shares : Nat, reserved : Nat]]
          /\ \A u \in Tokens \ {t} : inventory'[u] = inventory[u]
      BY <1>1, <3>1, <3>3
    <3> QED BY <3>3, <3>5, <3>6, <3>7 DEF SharesOK
  <2> QED BY <2>1, <2>2
<1>19. ASSUME NEW u \in Tokens
       PROVE  SharesOK(u, Placed("BUY", u)', Placed("SELL", u)', paper', inventory'[u])
  <2>1. CASE u = t
    BY <1>18, <2>1 DEF A, B
  <2>2. CASE u # t
    <3>1. /\ Placed("BUY", u) \subseteq Intents /\ Placed("SELL", u) \subseteq Intents
          /\ \A j \in Placed("BUY", u) \cup Placed("SELL", u) : paper'[j] = paper[j]
          /\ IsFiniteSet(Placed("BUY", u)) /\ IsFiniteSet(Placed("SELL", u))
      BY <1>5, <1>6, <1>8 DEF PlacedOrders
    <3>2. SharesOK(u, Placed("BUY", u), Placed("SELL", u), paper', inventory[u])
      BY <1>12, <3>1, SharesSame
    <3> QED BY <1>10, <1>18, <2>2, <3>2
  <2> QED BY <2>1, <2>2
<1>20. PaperTypeOK'
  <2>1. book' \in Seq(Intents)
    BY <1>1, <1>2
  <2> QED BY <1>2, <1>5, <1>17, <1>18, <2>1 DEF PaperTypeOK, LedgerInv
<1>21. LedgerInv'
  BY <1>2, <1>7, <1>17, <1>19, <1>20, LedgerFrame
<1> QED BY <1>2, <1>5, <1>21

\* LedgerFinish: the invariant of the ledger implies what the runs check of it.
LEMMA LedgerFinish ==
  LedgerInv => /\ PaperTypeOK /\ ReservationsBacked /\ LedgerConserves
               /\ NeverOverdrawn /\ PriceProtected
<1> SUFFICES ASSUME LedgerInv
             PROVE  /\ PaperTypeOK /\ ReservationsBacked /\ LedgerConserves
                    /\ NeverOverdrawn /\ PriceProtected
  OBVIOUS
<1>1. PaperTypeOK /\ RequestsOK /\ \A i \in Intents : RowOK(i, paper[i])
  BY DEF LedgerInv
<1>2. ReservationsBacked
  <2>1. \A i \in Intents : paper[i].state \notin RestingState => paper[i].reserved = 0
    BY <1>1 DEF RowOK
  <2>2. account.reserved <= account.balance
        /\ account.reserved = SumFunctionOnSet(Reserved(paper), Buys)
    BY DEF LedgerInv, CashOK
  <2>3. \A t \in Tokens : /\ inventory[t].reserved <= inventory[t].shares
                          /\ inventory[t].reserved
                               = SumFunctionOnSet(Reserved(paper), Placed("SELL", t))
    BY DEF LedgerInv, SharesOK
  <2> QED BY <2>1, <2>2, <2>3 DEF ReservationsBacked, Reserved
<1>3. LedgerConserves
  BY DEF LedgerInv, CashOK, SharesOK, LedgerConserves, Paid, Received, Filled
<1>4. PriceProtected
  <2> SUFFICES ASSUME NEW i \in DOMAIN request
               PROVE  LET r == request[i] IN
                      /\ IF IsBuy(i) THEN paper[i].quote <= paper[i].filled * r.price
                                     ELSE paper[i].quote >= paper[i].filled * r.price
                      /\ r.tif = "GTC" /\ paper[i].filled > 0 =>
                           paper[i].quote # paper[i].filled * r.price
    BY DEF PriceProtected
  <2> DEFINE limit == paper[i].filled * request[i].price
  <2>1. i \in Intents /\ request[i] \in PaperRequest /\ Priced(i, paper[i])
    BY <1>1 DEF RequestsOK, RowOK
  <2>2. paper[i].quote \in Nat /\ paper[i].filled \in Nat /\ request[i].price \in Nat
    BY <1>1, <2>1 DEF RowOK, PaperRow, PaperRequest
  <2>3. limit \in Nat
    BY <2>2
  <2>4. /\ IsBuy(i) => paper[i].quote <= limit
        /\ ~IsBuy(i) => paper[i].quote >= limit
        /\ request[i].tif = "GTC" /\ paper[i].filled > 0 =>
             IF IsBuy(i) THEN paper[i].quote < limit ELSE paper[i].quote > limit
    BY <2>1 DEF Priced
  <2>5. /\ IF IsBuy(i) THEN paper[i].quote <= limit ELSE paper[i].quote >= limit
        /\ request[i].tif = "GTC" /\ paper[i].filled > 0 => paper[i].quote # limit
    <3> HIDE DEF limit
    <3> QED BY <2>2, <2>3, <2>4
  <2> QED BY <2>5
<1> QED BY <1>1, <1>2, <1>3, <1>4, LedgerNeverOverdraws

\* EmptySums: before an order is placed nothing is reserved, paid or filled.
LEMMA EmptySums ==
  ASSUME PlacedOrders = {}
  PROVE  /\ Buys = {} /\ Sells = {}
         /\ \A t \in Tokens : Placed("BUY", t) = {} /\ Placed("SELL", t) = {}
         /\ \A f : SumFunctionOnSet(f, {}) = 0
<1>1. \A side, t : Placed(side, t) = {}
  BY DEF Placed, PlacedOrders
<1>2. Buys = {} /\ Sells = {}
  BY <1>1 DEF Buys, Sells
<1>3. \A f : SumFunctionOnSet(f, {}) = 0
  BY SumRecursion, FS_EmptySet
<1> QED BY <1>1, <1>2, <1>3

\* LedgerInitial: the invariant holds of the empty ledger.
LEMMA LedgerInitial == LedgerInit => LedgerInv
<1> SUFFICES ASSUME LedgerInit PROVE LedgerInv
  OBVIOUS
<1>1. RequestsOK
  BY ScenarioAssumption DEF LedgerInit, RequestsOK, PaperRequest
<1>2. NoRow \in PaperRow /\ NoRow.trades = {} /\ NoRow.state = "ABSENT" /\ NoRow.filled = 0
      /\ NoRow.quote = 0 /\ NoRow.remaining = 0 /\ NoRow.reserved = 0
  BY DEF NoRow, PaperRow
<1>3. paper = [i \in Intents |-> NoRow] /\ opened = FALSE
      /\ account = [balance |-> 0, reserved |-> 0]
      /\ inventory = [t \in Tokens |-> [shares |-> 0, reserved |-> 0]]
      /\ book = <<>> /\ applied = {}
  BY DEF LedgerInit
<1>4. PaperTypeOK
  <2>1. paper \in [Intents -> PaperRow]
    BY <1>2, <1>3
  <2>2. book \in Seq(Intents) /\ applied \subseteq 1..MaxEvents
    BY <1>3
  <2>4. opened \in BOOLEAN
    BY <1>3
  <2>3. /\ account \in [balance : Nat, reserved : Nat]
        /\ inventory \in [Tokens -> [shares : Nat, reserved : Nat]]
    BY <1>3
  <2> QED BY <2>1, <2>2, <2>3, <2>4 DEF PaperTypeOK
<1>5. ASSUME NEW i \in Intents PROVE RowOK(i, paper[i])
  <2>1. paper[i] = NoRow
    BY <1>3
  <2>2. i \in DOMAIN request => Priced(i, NoRow)
    <3>1. i \in DOMAIN request => 0 * request[i].price = 0
      BY <1>1 DEF RequestsOK, PaperRequest
    <3> QED BY <1>2, <3>1 DEF Priced
  <2> QED BY <1>2, <2>1, <2>2 DEF RowOK, RestingState
<1>6. PlacedOrders = {} /\ IsFiniteSet({})
  BY <1>3, FS_EmptySet DEF PlacedOrders
<1>9. /\ Buys = {} /\ \A t \in Tokens : Placed("SELL", t) = {}
      /\ SumFunctionOnSet(Reserved(paper), {}) = 0
  BY <1>6, EmptySums
<1>7. CashOK(Buys, Sells, paper, account)
  BY <1>3, <1>9 DEF CashOK
<1>8. \A t \in Tokens : SharesOK(t, Placed("BUY", t), Placed("SELL", t), paper, inventory[t])
  <2>1. \A t \in Tokens : inventory[t].reserved = 0 /\ inventory[t].shares = 0
    BY <1>3
  <2>2. ~opened
    BY <1>3
  <2>3. ASSUME NEW t \in Tokens
        PROVE  SumFunctionOnSet(Reserved(paper), Placed("SELL", t)) = 0
    BY <1>9
  <2> QED BY <2>1, <2>2, <2>3 DEF SharesOK
<1> QED BY <1>1, <1>2, <1>3, <1>4, <1>5, <1>6, <1>7, <1>8 DEF LedgerInv

\* OpenKeepsLedger: the account opens with what the configuration says.
LEMMA OpenKeepsLedger ==
  ASSUME LedgerInv, UNCHANGED rigid, initialize_paper_account
  PROVE  LedgerInv'
<1>1. /\ ~opened /\ opened' = TRUE /\ UNCHANGED <<paper, book, applied, request, trades, config>>
      /\ account' = [balance |-> config.quote * FeeDen, reserved |-> 0]
      /\ inventory' = [t \in Tokens |-> [shares |-> config.shares[t], reserved |-> 0]]
  BY DEF initialize_paper_account, rigid
<1>2. RequestsOK' /\ \A i \in Intents : RowOK(i, paper[i])'
  BY <1>1 DEF LedgerInv, RequestsOK, RowOK, Priced, IsBuy
<1>3. config.quote \in Nat /\ \A t \in Tokens : config.shares[t] \in Nat
  BY DEF LedgerInv, RequestsOK
<1> DEFINE q == config.quote * FeeDen
<1>4. q \in Nat
  BY <1>3
<1>5. PaperTypeOK'
  <2> HIDE DEF q
  <2>1. account' = [balance |-> q, reserved |-> 0]
    BY <1>1 DEF q
  <2> QED BY <1>1, <1>3, <1>4, <2>1 DEF LedgerInv, PaperTypeOK
<1>6. PlacedOrders = {} /\ PlacedOrders' = PlacedOrders
  BY <1>1 DEF LedgerInv, PlacedOrders
<1>7. /\ Buys' = {} /\ Sells' = {}
      /\ \A t \in Tokens : Placed("BUY", t)' = {} /\ Placed("SELL", t)' = {}
      /\ \A f : SumFunctionOnSet(f, {}) = 0
  BY <1>1, <1>6, EmptySums, SidesUnchanged
<1>8. CashOK(Buys, Sells, paper, account)'
  <2> HIDE DEF q
  <2>1. account'.balance = q /\ account'.reserved = 0
    BY <1>1 DEF q
  <2>2. q = config'.quote * FeeDen
    BY <1>1 DEF q
  <2> QED BY <1>4, <1>7, <2>1, <2>2 DEF CashOK
<1>9. ASSUME NEW t \in Tokens
      PROVE  SharesOK(t, Placed("BUY", t), Placed("SELL", t), paper, inventory[t])'
  <2>1. /\ Placed("BUY", t)' = {} /\ Placed("SELL", t)' = {}
        /\ SumFunctionOnSet(Reserved(paper'), {}) = 0 /\ SumFunctionOnSet(Filled(paper'), {}) = 0
    BY <1>7
  <2>2. /\ inventory'[t].shares = config.shares[t] /\ inventory'[t].reserved = 0
        /\ config.shares[t] \in Nat /\ config' = config
    BY <1>1, <1>3
  <2>3. /\ SumFunctionOnSet(Reserved(paper), Placed("SELL", t))' = 0
        /\ SumFunctionOnSet(Filled(paper), Placed("SELL", t))' = 0
        /\ SumFunctionOnSet(Filled(paper), Placed("BUY", t))' = 0
    BY <2>1 DEF Reserved, Filled
  <2> QED BY <2>2, <2>3 DEF SharesOK
<1>10. IsFiniteSet(PlacedOrders') /\ \A i \in Intents : paper'[i].trades \subseteq {0} \cup applied'
  BY <1>1, <1>6 DEF LedgerInv
<1> QED BY <1>1, <1>2, <1>5, <1>6, <1>8, <1>9, <1>10 DEF LedgerInv

\* LedgerUntouched: the other steps do not touch the ledger.
LEMMA LedgerUntouched ==
  ASSUME LedgerInv, UNCHANGED <<rigid, ledgerVars>>
  PROVE  LedgerInv'
<1>1. UNCHANGED <<request, trades, config, opened, account, inventory, paper, book, applied>>
  BY DEF rigid, ledgerVars
<1>2. PlacedOrders' = PlacedOrders
  BY <1>1 DEF PlacedOrders
<1>3. /\ Buys' = Buys /\ Sells' = Sells
      /\ \A t \in Tokens : Placed("BUY", t)' = Placed("BUY", t)
                           /\ Placed("SELL", t)' = Placed("SELL", t)
  BY <1>1, <1>2, SidesUnchanged
<1>4. PaperTypeOK'
  BY <1>1 DEF LedgerInv, PaperTypeOK
<1> QED BY <1>1, <1>2, <1>3, <1>4, LedgerFrame DEF LedgerInv, rigid

-----------------------------------------------------------------------------
(* The journal                                                             *)

\* What is known of a row that was read earlier: fills are only added, every one
\* with an identifier of its own, and a closed order stays closed.
RowBelow(old, new) ==
  /\ old \in PaperRow /\ old.state # "ABSENT" /\ new.state # "ABSENT"
  /\ old.filled <= new.filled /\ old.trades \subseteq new.trades
  /\ old.trades = new.trades => old.filled = new.filled
  /\ old.trades = {} => old.filled = 0
  /\ old.state \notin RestingState => new.state = old.state
  /\ old.state \in RestingState => old.filled + old.remaining = Qty
  /\ old.state \notin RestingState => old.remaining = 0

\* The trades of an order that the journal has booked, alone or with others.
LinkedTrades(i) == UNION tradeIds[i]

JournalTypes ==
  /\ order \in [Intents -> OrderState \cup {"ABSENT"}]
  /\ intent \in [Intents -> IntentState \cup {"ABSENT"}]
  /\ venueOrderId \in [Intents -> BOOLEAN]
  /\ remaining \in [Intents -> 0..Qty]
  /\ booked \in [Intents -> 0..Qty]
  /\ tradeIds \in [Intents -> SUBSET SUBSET TradeId]

\* The tasks: a submission excludes the others, a cancellation works on an order
\* that was submitted, and what a task has read of the ledger is a lower bound.
SubOK ==
  /\ sub = [at |-> sub.at, intent |-> sub.intent, reply |-> sub.reply, row |-> sub.row]
  /\ sub.at \in {"idle", "send", "finish"}
  /\ \A i \in Intents : order[i] = "SUBMITTING" => sub.at # "idle" /\ sub.intent = i
  /\ sub.at # "idle" =>
       /\ sub.intent \in Intents /\ run = IdleRun /\ cancel = IdleCancel
       /\ order[sub.intent] = "SUBMITTING"
  /\ sub.at = "send" => paper[sub.intent] = NoRow
  /\ sub.at = "finish" =>
       /\ sub.reply \in {"accepted", "rejected", "ambiguous"}
       /\ sub.reply = "accepted" => RowBelow(sub.row, paper[sub.intent])
       /\ sub.reply = "rejected" => paper[sub.intent] = NoRow
RunOK ==
  /\ run = [at |-> run.at, snap |-> run.snap, inv |-> run.inv, todo |-> run.todo,
            cur |-> run.cur, bad |-> run.bad]
  /\ run.at = "idle" => run = IdleRun
  /\ run.todo \subseteq Intents
  /\ DOMAIN run.snap \subseteq Intents
  /\ \A i \in DOMAIN run.snap : RowBelow(run.snap[i], paper[i])
  /\ run.at = "resolve" => run.cur \in DOMAIN run.snap
CancelOK ==
  /\ cancel = [at |-> cancel.at, intent |-> cancel.intent, answer |-> cancel.answer]
  /\ cancel.at = "idle" => cancel = IdleCancel
  /\ cancel.at # "idle" =>
       /\ cancel.intent \in Intents
       /\ order[cancel.intent] \notin {"ABSENT", "PREPARED", "SUBMITTING"}
  /\ cancel.at = "commit" =>
       /\ cancel.answer = paper[cancel.intent].state
       /\ cancel.answer \in {"FILLED", "CANCELLED"}

\* An order in the journal against its row of the ledger.
OrderOK(i) ==
  /\ order[i] # "ABSENT" => i \in DOMAIN request
  /\ order[i] \in {"ABSENT", "PREPARED"} => paper[i] = NoRow
  /\ intent[i] = "SUBMITTING" => order[i] = "SUBMITTING"
  /\ order[i] \in {"ABSENT", "PREPARED", "SUBMITTING", "UNKNOWN"} =>
       remaining[i] = Qty /\ booked[i] = 0 /\ tradeIds[i] = {}
  /\ order[i] \in ReconciledOrderState \cup {"UNKNOWN"} => venueOrderId[i]
  /\ paper[i].state \in RestingState =>
       order[i] \in {"SUBMITTING", "UNKNOWN"} \cup ReconciledOrderState

\* The fills booked for an order: no more than the ledger filled, and all of a set
\* of trades once each of them is linked.  A local projection that is behind the
\* ledger has booked exactly what it accounts for.
FillsOK(i) ==
  /\ booked[i] + remaining[i] <= Qty
  /\ booked[i] <= paper[i].filled
  /\ LinkedTrades(i) \subseteq paper[i].trades
  /\ paper[i].trades = {} => paper[i].filled = 0
  /\ paper[i].trades \subseteq LinkedTrades(i) => booked[i] >= paper[i].filled
  /\ LocalFilled(i) < paper[i].filled => booked[i] = LocalFilled(i)

\* The same for the rows a reconciliation has read.
SnapOK(i) ==
  LET seen == run.snap[i].trades IN
  /\ seen \subseteq LinkedTrades(i) => booked[i] >= run.snap[i].filled
  /\ LocalFilled(i) < paper[i].filled =>
       LinkedTrades(i) \subseteq seen \/ seen \subseteq LinkedTrades(i)

\* The inductive invariant of the journal.
JournalInv ==
  /\ JournalTypes
  /\ SubOK /\ RunOK /\ CancelOK
  /\ \A i \in Intents : OrderOK(i) /\ FillsOK(i)
  /\ \A i \in DOMAIN run.snap : SnapOK(i)

PaperInv == LedgerInv /\ JournalInv

\* How a row changes: an open order may gain fills, each with a new identifier, or
\* close; a closed one is final.
Grows(old, new) ==
  \/ new = old
  \/ /\ old.state \in RestingState /\ new.state # "ABSENT"
     /\ old.filled <= new.filled /\ old.trades \subseteq new.trades
     /\ old.trades = new.trades => old.filled = new.filled

\* Order states before a submission has ended.
EarlyState == {"ABSENT", "PREPARED", "SUBMITTING"}

\* No order enters or leaves a submission in the step.
NoSubmission ==
  \A j \in Intents :
    order'[j] # order[j] => order[j] \notin EarlyState /\ order'[j] \notin EarlyState

\* BelowGrows: a row that was read stays a lower bound.
LEMMA BelowGrows ==
  ASSUME NEW a, NEW old \in PaperRow, NEW new \in PaperRow, RowBelow(a, old), Grows(old, new)
  PROVE  RowBelow(a, new)
<1>1. CASE new = old
  BY <1>1
<1>2. CASE new # old
  <2>1. /\ old.state \in RestingState /\ new.state # "ABSENT"
        /\ old.filled <= new.filled /\ old.trades \subseteq new.trades
        /\ old.trades = new.trades => old.filled = new.filled
    BY <1>2 DEF Grows
  <2>2. /\ a \in PaperRow /\ a.filled \in Nat /\ old.filled \in Nat /\ new.filled \in Nat
    BY DEF RowBelow, PaperRow
  <2>3. a.filled <= new.filled /\ a.trades \subseteq new.trades
    BY <2>1, <2>2 DEF RowBelow
  <2>4. a.trades = new.trades => a.filled = new.filled
    BY <2>1, <2>2 DEF RowBelow
  <2>5. a.state \in RestingState
    BY <2>1 DEF RowBelow
  <2> QED BY <2>1, <2>3, <2>4, <2>5 DEF RowBelow
<1> QED BY <1>1, <1>2

\* MovedGrows: a trade-through adds a trade that no row has yet.
LEMMA MovedGrows ==
  ASSUME NEW e, NEW old \in PaperRow, NEW new \in PaperRow, Moved(e, old, new),
         e \notin old.trades
  PROVE  Grows(old, new) /\ (e \in new.trades <=> new # old)
<1>1. old.filled \in Nat /\ new.filled \in Nat
  BY DEF PaperRow
<1>2. CASE new = old
  BY <1>2 DEF Grows
<1>3. CASE new # old
  <2>1. /\ old.state \in RestingState /\ new.state \in RestingState \cup {"FILLED"}
        /\ new.filled > old.filled /\ new.trades = old.trades \cup {e}
    BY <1>3 DEF Moved
  <2>2. new.state # "ABSENT" /\ old.filled <= new.filled
    BY <1>1, <2>1 DEF RestingState
  <2>3. old.trades \subseteq new.trades /\ old.trades # new.trades /\ e \in new.trades
    BY <2>1
  <2> QED BY <1>3, <2>1, <2>2, <2>3 DEF Grows
<1> QED BY <1>2, <1>3

\* SubKept, RunKept, CancelKept: a step of another task keeps what a task relies on.
LEMMA SubKept ==
  ASSUME SubOK, UNCHANGED sub, NoSubmission, sub.at # "idle" => UNCHANGED <<run, cancel>>,
         paper \in [Intents -> PaperRow], paper' \in [Intents -> PaperRow],
         \A j \in Intents : Grows(paper[j], paper'[j])
  PROVE  SubOK'
<1>1. \A i \in Intents : order'[i] = "SUBMITTING" => sub.at # "idle" /\ sub.intent = i
  BY DEF SubOK, NoSubmission, EarlyState
<1>2. ASSUME sub.at # "idle"
      PROVE  /\ sub.intent \in Intents /\ run' = IdleRun /\ cancel' = IdleCancel
             /\ order'[sub.intent] = "SUBMITTING"
  BY <1>2 DEF SubOK, NoSubmission, EarlyState
<1>3. ASSUME NEW i \in Intents, paper[i] = NoRow PROVE paper'[i] = NoRow
  <2>1. NoRow.state \notin RestingState
    BY DEF NoRow, RestingState
  <2> QED BY <1>3, <2>1 DEF Grows
<1>4. ASSUME sub.at = "finish"
      PROVE  /\ sub.reply \in {"accepted", "rejected", "ambiguous"}
             /\ sub.reply = "accepted" => RowBelow(sub.row, paper'[sub.intent])
             /\ sub.reply = "rejected" => paper'[sub.intent] = NoRow
  <2>1. sub.intent \in Intents
    BY <1>2, <1>4
  <2>2. sub.reply = "accepted" => RowBelow(sub.row, paper[sub.intent])
    BY <1>4 DEF SubOK
  <2> QED BY <1>3, <1>4, <2>1, <2>2, BelowGrows DEF SubOK
<1>5. sub.at = "send" => paper'[sub.intent] = NoRow
  BY <1>2, <1>3 DEF SubOK
<1> QED BY <1>1, <1>2, <1>4, <1>5 DEF SubOK, RowBelow

\* RunKept: what a reconciliation has read stays a lower bound of the ledger.
LEMMA RunKept ==
  ASSUME RunOK, UNCHANGED run,
         paper \in [Intents -> PaperRow], paper' \in [Intents -> PaperRow],
         \A j \in Intents : Grows(paper[j], paper'[j])
  PROVE  RunOK'
<1>1. ASSUME NEW i \in DOMAIN run.snap PROVE RowBelow(run.snap[i], paper'[i])
  <2>1. i \in Intents /\ RowBelow(run.snap[i], paper[i])
    BY DEF RunOK
  <2> QED BY <2>1, BelowGrows
<1> QED BY <1>1 DEF RunOK

\* CancelKept: what a cancellation has read of its order stays true.
LEMMA CancelKept ==
  ASSUME CancelOK, UNCHANGED cancel, NoSubmission,
         \A j \in Intents : Grows(paper[j], paper'[j])
  PROVE  CancelOK'
<1>1. cancel.at # "idle" => order'[cancel.intent] \notin EarlyState
  BY DEF CancelOK, NoSubmission, EarlyState
<1>2. cancel.at = "commit" => paper'[cancel.intent].state = paper[cancel.intent].state
  BY DEF CancelOK, Grows, RestingState
<1> QED BY <1>1, <1>2 DEF CancelOK, EarlyState

\* OrderSame: a step that does not touch an order keeps what is known of it.
LEMMA OrderSame ==
  ASSUME NEW i \in Intents, UNCHANGED request,
         order'[i] = order[i], intent'[i] = intent[i], venueOrderId'[i] = venueOrderId[i],
         remaining'[i] = remaining[i], booked'[i] = booked[i], tradeIds'[i] = tradeIds[i],
         paper'[i] = paper[i]
  PROVE  /\ OrderOK(i) => OrderOK(i)'
         /\ FillsOK(i) => FillsOK(i)'
         /\ SnapOK(i) /\ run'.snap[i] = run.snap[i] => SnapOK(i)'
  BY DEF OrderOK, FillsOK, SnapOK, LinkedTrades, LocalFilled

-----------------------------------------------------------------------------
(* The steps of a reconciliation                                           *)

\* BelowSelf: a row that is read is a lower bound of itself.
LEMMA BelowSelf ==
  ASSUME NEW i, NEW row, RowOK(i, row), row # NoRow,
         row.trades = {} => row.filled = 0
  PROVE  RowBelow(row, row)
<1>1. row.filled \in Nat
  BY DEF RowOK, PaperRow
<1> QED BY <1>1 DEF RowOK, RowBelow

\* StoreStill: a step that leaves the journal and the rows of the ledger alone.
LEMMA StoreStill ==
  ASSUME PaperInv, UNCHANGED <<storeVars, rigid, paper>>
  PROVE  /\ JournalTypes' /\ NoSubmission
         /\ \A i \in Intents : /\ OrderOK(i)' /\ FillsOK(i)'
                               /\ SnapOK(i) /\ run'.snap[i] = run.snap[i] => SnapOK(i)'
         /\ paper \in [Intents -> PaperRow] /\ paper' \in [Intents -> PaperRow]
         /\ \A i \in Intents : Grows(paper[i], paper'[i])
<1>1. UNCHANGED <<order, intent, venueOrderId, remaining, booked, tradeIds, request, paper>>
  BY DEF storeVars, controlVars, journalVars, fillVars, rigid
<1>2. JournalTypes'
  BY <1>1 DEF PaperInv, JournalInv, JournalTypes
<1>3. NoSubmission /\ \A i \in Intents : Grows(paper[i], paper'[i])
  BY <1>1 DEF NoSubmission, Grows
<1>4. paper \in [Intents -> PaperRow]
  BY DEF PaperInv, LedgerInv, PaperTypeOK
<1>5. \A i \in Intents : OrderOK(i) /\ FillsOK(i)
  BY DEF PaperInv, JournalInv
<1>6. ASSUME NEW i \in Intents
      PROVE  /\ OrderOK(i)' /\ FillsOK(i)'
             /\ SnapOK(i) /\ run'.snap[i] = run.snap[i] => SnapOK(i)'
  BY <1>1, <1>5, OrderSame
<1> QED BY <1>1, <1>2, <1>3, <1>4, <1>6

\* TasksIdle: while a reconciliation or a cancellation runs, the worker does not submit.
LEMMA TasksIdle ==
  ASSUME PaperInv, run.at # "idle" \/ cancel.at # "idle"
  PROVE  sub.at = "idle"
  BY DEF PaperInv, JournalInv, SubOK, IdleRun, IdleCancel

\* OpenKeeps: opening the account.
LEMMA OpenKeeps == ASSUME PaperInv, OpenAccount PROVE PaperInv'
<1>1. LedgerInv'
  BY OpenKeepsLedger DEF PaperInv, OpenAccount
<1>2. UNCHANGED <<storeVars, rigid, paper, sub, run, cancel>>
  BY DEF OpenAccount, initialize_paper_account, taskVars
<1>3. SubOK' /\ RunOK' /\ CancelOK'
  BY <1>2, StoreStill, SubKept, RunKept, CancelKept DEF PaperInv, JournalInv
<1>4. \A i \in DOMAIN run'.snap : SnapOK(i)'
  BY <1>2, StoreStill DEF PaperInv, JournalInv, RunOK
<1> QED BY <1>1, <1>2, <1>3, <1>4, StoreStill DEF PaperInv, JournalInv

\* RunStill: the steps of a reconciliation that only read.
LEMMA RunStill ==
  ASSUME PaperInv, UNCHANGED <<storeVars, rigid, ledgerVars, sub, cancel>>, sub.at = "idle",
         RunOK', \A i \in DOMAIN run'.snap :
                   \/ i \in DOMAIN run.snap /\ run'.snap[i] = run.snap[i]
                   \/ run'.snap[i] = paper[i]
  PROVE  PaperInv'
<1>1. LedgerInv'
  BY LedgerUntouched DEF PaperInv
<1>2. UNCHANGED <<storeVars, rigid, paper, sub, cancel>>
  BY DEF ledgerVars
<1>3. SubOK' /\ CancelOK'
  BY <1>2, StoreStill, SubKept, CancelKept DEF PaperInv, JournalInv
<1>4. ASSUME NEW i \in DOMAIN run'.snap PROVE SnapOK(i)'
  <2>1. i \in Intents /\ OrderOK(i)' /\ FillsOK(i)'
    BY <1>2, StoreStill DEF RunOK
  <2>2. CASE i \in DOMAIN run.snap /\ run'.snap[i] = run.snap[i]
    BY <1>2, <2>1, <2>2, StoreStill DEF PaperInv, JournalInv
  <2>3. CASE run'.snap[i] = paper[i]
    <3>1. run'.snap[i] = paper'[i]
      BY <1>2, <2>3
    <3> QED BY <2>1, <3>1 DEF FillsOK, SnapOK
  <2> QED BY <2>2, <2>3
<1> QED BY <1>1, <1>2, <1>3, <1>4, StoreStill DEF PaperInv, JournalInv

\* The steps of a reconciliation that only read.
LEMMA StartRunKeeps == ASSUME PaperInv, StartRun PROVE PaperInv'
<1> DEFINE new == [i \in {j \in Intents : paper[j] # NoRow} |-> paper[i]]
<1>1. /\ run' = [at |-> "local", snap |-> new, inv |-> <<>>, todo |-> {}, cur |-> NoIntent,
                 bad |-> FALSE]
      /\ UNCHANGED <<storeVars, rigid, ledgerVars, sub, cancel>> /\ sub.at = "idle"
  BY DEF StartRun, IdleRun
<1>2. /\ DOMAIN new \subseteq Intents
      /\ \A i \in DOMAIN new : new[i] = paper[i] /\ paper[i] # NoRow
  OBVIOUS
<1> HIDE DEF new
<1>3. RunOK'
  <2>1. \A i \in DOMAIN new : RowBelow(new[i], paper[i])
    BY <1>2, BelowSelf DEF PaperInv, LedgerInv, JournalInv, FillsOK
  <2>2. UNCHANGED paper
    BY <1>1 DEF ledgerVars
  <2> QED BY <1>1, <1>2, <2>1, <2>2 DEF RunOK
<1>4. \A i \in DOMAIN run'.snap : run'.snap[i] = paper[i]
  BY <1>1, <1>2
<1> QED BY <1>1, <1>3, <1>4, RunStill

\* ReadLocalKeeps: the second read of a reconciliation, of the inventory and the
\* journal, is about whatever the ledger has become since the first.
LEMMA ReadLocalKeeps == ASSUME PaperInv, ReadLocal PROVE PaperInv'
<1>0. RunOK /\ run.at = "local" /\ sub.at = "idle"
  BY TasksIdle DEF PaperInv, JournalInv, ReadLocal
<1> DEFINE inv == [t \in Tokens |-> inventory[t].shares]
           todo == {i \in Intents : CoreFollows(i)}
           bad == \E i \in DOMAIN run.snap : ~venueOrderId[i]
<1>1. /\ run' = [run EXCEPT !.at = "project", !.inv = inv, !.todo = todo, !.bad = bad]
      /\ todo \subseteq Intents
  BY DEF ReadLocal
<1> HIDE DEF inv, todo, bad
<1>2. /\ UNCHANGED <<storeVars, rigid, ledgerVars, sub, cancel>> /\ UNCHANGED paper
  BY DEF ReadLocal, ledgerVars
<1>3. run' = [at |-> "project", snap |-> run.snap, inv |-> inv, todo |-> todo,
              cur |-> run.cur, bad |-> bad]
  BY <1>0, <1>1 DEF RunOK
<1>4. RunOK' /\ run'.snap = run.snap
  BY <1>0, <1>1, <1>2, <1>3 DEF RunOK
<1> QED BY <1>0, <1>2, <1>4, RunStill

\* LookupKeeps: looking up an unknown order adds its row, as it is now, to what
\* the reconciliation has read.
LEMMA LookupKeeps == ASSUME PaperInv, LookupUnknown PROVE PaperInv'
<1>0. RunOK /\ run.at # "idle" /\ sub.at = "idle"
  BY TasksIdle DEF PaperInv, JournalInv, LookupUnknown
<1>1. /\ UNCHANGED <<storeVars, rigid, ledgerVars, sub, cancel>> /\ UNCHANGED paper
  BY DEF LookupUnknown, ledgerVars
<1>2. CASE run.at = "project" /\ run.todo = {}
  <2>1. run' = [run EXCEPT !.at = "lookup", !.todo = {i \in Intents : order[i] = "UNKNOWN"}]
    BY <1>2 DEF LookupUnknown
  <2>2. PICK todo : /\ run' = [run EXCEPT !.at = "lookup", !.todo = todo]
                    /\ todo \subseteq Intents
    BY <2>1
  <2>3. run' = [at |-> "lookup", snap |-> run.snap, inv |-> run.inv, todo |-> todo,
                cur |-> run.cur, bad |-> run.bad]
    BY <1>0, <2>2 DEF RunOK
  <2>4. RunOK' /\ run'.snap = run.snap
    BY <1>0, <1>1, <2>2, <2>3 DEF RunOK
  <2> QED BY <1>0, <1>1, <2>4, RunStill
<1>3. CASE run.at = "lookup"
  <2>1. PICK i \in run.todo :
          run' = IF paper[i] = NoRow
                   THEN [run EXCEPT !.todo = @ \ {i}, !.bad = TRUE]
                   ELSE [run EXCEPT !.todo = @ \ {i}, !.at = "resolve", !.cur = i,
                                    !.snap = [j \in DOMAIN @ \cup {i} |->
                                                IF j = i THEN paper[i] ELSE @[j]]]
    BY <1>3 DEF LookupUnknown
  <2>2. i \in Intents
    BY <1>0 DEF RunOK
  <2>3. CASE paper[i] = NoRow
    <3>1. run' = [at |-> "lookup", snap |-> run.snap, inv |-> run.inv,
                  todo |-> run.todo \ {i}, cur |-> run.cur, bad |-> TRUE]
      BY <1>0, <1>3, <2>1, <2>3 DEF RunOK
    <3>2. RunOK' /\ run'.snap = run.snap
      BY <1>0, <1>1, <3>1 DEF RunOK
    <3> QED BY <1>0, <1>1, <3>2, RunStill
  <2>4. CASE paper[i] # NoRow
    <3> DEFINE new == [j \in DOMAIN run.snap \cup {i} |->
                        IF j = i THEN paper[i] ELSE run.snap[j]]
    <3>1. run' = [at |-> "resolve", snap |-> new, inv |-> run.inv,
                  todo |-> run.todo \ {i}, cur |-> i, bad |-> run.bad]
      BY <1>0, <2>1, <2>4 DEF RunOK
    <3>2. /\ DOMAIN new = {i} \cup DOMAIN run.snap /\ new[i] = paper[i]
          /\ \A j \in DOMAIN run.snap : j # i => new[j] = run.snap[j]
      OBVIOUS
    <3> HIDE DEF new
    <3>3. \A j \in DOMAIN new : RowBelow(new[j], paper[j])
      BY <1>0, <2>2, <2>4, <3>2, BelowSelf DEF PaperInv, LedgerInv, JournalInv, FillsOK, RunOK
    <3>4. RunOK' /\ run'.snap = new
      BY <1>0, <1>1, <2>2, <3>1, <3>2, <3>3 DEF RunOK
    <3> QED BY <1>0, <1>1, <3>2, <3>4, RunStill
  <2> QED BY <2>3, <2>4
<1> QED BY <1>2, <1>3 DEF LookupUnknown

\* IdleRunOK: a task that has ended relies on nothing.
LEMMA IdleRunOK == /\ DOMAIN IdleRun.snap = {} /\ IdleRun.todo = {} /\ IdleRun.at = "idle"
                   /\ run' = IdleRun => RunOK'
  BY DEF IdleRun, RunOK

\* FinishRunKeeps: a reconciliation that ends relies on nothing it has read.
LEMMA FinishRunKeeps == ASSUME PaperInv, FinishRun PROVE PaperInv'
<1>1. /\ run' = IdleRun /\ run.at # "idle"
      /\ UNCHANGED <<storeVars, rigid, ledgerVars, sub, cancel>>
  BY DEF FinishRun
<1> QED BY <1>1, IdleRunOK, RunStill, TasksIdle

\* BooksRow: what the journal books when it takes over a row of the ledger, from a
\* reply, a snapshot or a lookup.  Whatever the row is by then, nothing is booked
\* twice: a projection that is behind the row has booked exactly what it accounts for.
LEMMA BooksRow ==
  ASSUME NEW i \in Intents, FillsOK(i), JournalTypes, paper[i] \in PaperRow, UNCHANGED paper,
         NEW row, RowBelow(row, paper[i]), LocalFilled(i) <= row.filled,
         row.trades \subseteq LinkedTrades(i) => booked[i] >= row.filled,
         LocalFilled(i) < paper[i].filled =>
           LinkedTrades(i) \subseteq row.trades \/ row.trades \subseteq LinkedTrades(i),
         remaining'[i] = row.remaining,
         apply_matched_fill(i, row.filled - LocalFilled(i), row.trades)
  PROVE  /\ FillsOK(i)'
         /\ booked'[i] \in 0..Qty
         /\ row.trades \subseteq LinkedTrades(i)' => booked'[i] >= row.filled
         /\ LocalFilled(i)' < paper'[i].filled =>
              LinkedTrades(i)' \subseteq row.trades \/ row.trades \subseteq LinkedTrades(i)'
<1>1. /\ row \in PaperRow /\ row.filled \in 0..Qty /\ row.remaining \in 0..Qty
      /\ row.trades \in SUBSET TradeId /\ paper[i].filled \in 0..Qty
      /\ booked[i] \in 0..Qty /\ remaining[i] \in 0..Qty
      /\ LocalFilled(i) = Qty - remaining[i] /\ LocalFilled(i)' = Qty - row.remaining
  BY DEF RowBelow, PaperRow, JournalTypes, LocalFilled
<1>2. /\ row.filled <= paper[i].filled /\ row.filled + row.remaining <= Qty
      /\ row.filled + row.remaining = Qty \/ row.remaining = 0
      /\ row.trades \subseteq paper[i].trades
      /\ row.trades = paper[i].trades => row.filled = paper[i].filled
  BY <1>1 DEF RowBelow
<1>3. /\ booked[i] + remaining[i] <= Qty /\ booked[i] <= paper[i].filled
      /\ LinkedTrades(i) \subseteq paper[i].trades
      /\ paper[i].trades = {} => paper[i].filled = 0
      /\ paper[i].trades \subseteq LinkedTrades(i) => booked[i] >= paper[i].filled
      /\ LocalFilled(i) < paper[i].filled => booked[i] = LocalFilled(i)
  BY DEF FillsOK
<1>4. CASE LocalFilled(i) < row.filled
  <2>1. LocalFilled(i) < paper[i].filled /\ booked[i] = LocalFilled(i)
        /\ ~(booked[i] >= row.filled) /\ row.filled - LocalFilled(i) > 0
    BY <1>1, <1>2, <1>3, <1>4
  <2>2. row.trades \notin tradeIds[i] /\ LinkedTrades(i) \subseteq row.trades
    BY <2>1 DEF LinkedTrades
  <2>3. /\ tradeIds' = [tradeIds EXCEPT ![i] = @ \cup {row.trades}]
        /\ booked' = [booked EXCEPT ![i] = @ + (row.filled - LocalFilled(i))]
    BY <2>1, <2>2 DEF apply_matched_fill
  <2>4. LinkedTrades(i)' = row.trades
    <3>1. tradeIds'[i] = tradeIds[i] \cup {row.trades}
      BY <2>3 DEF JournalTypes
    <3>2. UNION tradeIds'[i] = (UNION tradeIds[i]) \cup row.trades
      BY <3>1
    <3> QED BY <2>2, <3>2 DEF LinkedTrades
  <2>5. booked'[i] = row.filled
    <3>1. booked'[i] = booked[i] + (row.filled - LocalFilled(i))
      BY <2>3 DEF JournalTypes
    <3> QED BY <1>1, <2>1, <3>1
  <2>6. paper[i].trades \subseteq row.trades => row.filled >= paper[i].filled
    BY <1>1, <1>2
  <2>7. Qty - row.remaining < paper[i].filled => row.filled = Qty - row.remaining
    BY <1>1, <1>2
  <2>8. FillsOK(i)'
    BY <1>1, <1>2, <1>3, <2>4, <2>5, <2>6, <2>7 DEF FillsOK
  <2> QED BY <1>1, <2>4, <2>5, <2>8
<1>5. CASE LocalFilled(i) = row.filled
  <2>1. ~(row.filled - LocalFilled(i) > 0)
    BY <1>1, <1>5
  <2>2. UNCHANGED <<tradeIds, booked>>
    BY <2>1 DEF apply_matched_fill
  <2>3. LinkedTrades(i)' = LinkedTrades(i) /\ booked'[i] = booked[i]
    BY <2>2 DEF LinkedTrades
  <2>4. booked[i] <= row.filled
    BY <1>1, <1>3, <1>5
  <2>7. Qty - row.remaining < paper[i].filled => row.filled = Qty - row.remaining
    BY <1>1, <1>2
  <2>5. Qty - row.remaining < paper[i].filled => Qty - row.remaining = LocalFilled(i)
    BY <1>5, <2>7
  <2>6. FillsOK(i)'
    BY <1>1, <1>2, <1>3, <2>3, <2>4, <2>5 DEF FillsOK
  <2> QED BY <1>1, <2>3, <2>5, <2>6
<1> QED BY <1>1, <1>4, <1>5

\* BookingTypes: a booking changes one order.
LEMMA BookingTypes ==
  ASSUME JournalTypes, NEW i \in Intents, NEW delta, NEW key \in SUBSET TradeId,
         apply_matched_fill(i, delta, key), booked'[i] \in 0..Qty
  PROVE  /\ booked' \in [Intents -> 0..Qty] /\ tradeIds' \in [Intents -> SUBSET SUBSET TradeId]
         /\ \A j \in Intents \ {i} : booked'[j] = booked[j] /\ tradeIds'[j] = tradeIds[j]
<1>1. CASE UNCHANGED <<tradeIds, booked>>
  BY <1>1 DEF JournalTypes
<1>2. CASE /\ tradeIds' = [tradeIds EXCEPT ![i] = @ \cup {key}]
           /\ booked' = [booked EXCEPT ![i] = @ + delta]
  <2>1. \A j \in Intents \ {i} : booked'[j] = booked[j] /\ tradeIds'[j] = tradeIds[j]
    BY <1>2 DEF JournalTypes
  <2>2. tradeIds[i] \cup {key} \in SUBSET SUBSET TradeId
    BY DEF JournalTypes
  <2>3. tradeIds' \in [Intents -> SUBSET SUBSET TradeId]
    BY <1>2, <2>2 DEF JournalTypes
  <2>4. booked' = [j \in Intents |-> booked'[j]]
    BY <1>2 DEF JournalTypes
  <2>5. \A j \in Intents : booked'[j] \in 0..Qty
    BY <2>1 DEF JournalTypes
  <2> QED BY <2>1, <2>3, <2>4, <2>5
<1> QED BY <1>1, <1>2 DEF apply_matched_fill

\* SnapBooked: a reconciliation takes over the row it has read of an order.
LEMMA SnapBooked ==
  ASSUME PaperInv, sub.at = "idle", UNCHANGED <<rigid, ledgerVars, sub, cancel>>,
         RunOK', run'.snap = run.snap,
         NEW i \in DOMAIN run.snap, NEW o, NEW w \in {intent[i], "SUBMITTED"},
         order' = [order EXCEPT ![i] = o], intent' = [intent EXCEPT ![i] = w],
         venueOrderId' = [venueOrderId EXCEPT ![i] = TRUE],
         remaining' = [remaining EXCEPT ![i] = run.snap[i].remaining],
         \/ o = run.snap[i].state
         \/ o = "CANCEL_PENDING" /\ run.snap[i].state \in RestingState,
         LocalFilled(i) <= run.snap[i].filled,
         apply_matched_fill(i, run.snap[i].filled - LocalFilled(i), run.snap[i].trades)
  PROVE  PaperInv'
<1> DEFINE row == run.snap[i]
<1>1. LedgerInv' /\ UNCHANGED <<request, paper>>
  BY LedgerUntouched DEF PaperInv, rigid, ledgerVars
<1>2. /\ i \in Intents /\ JournalTypes /\ OrderOK(i) /\ FillsOK(i) /\ SnapOK(i)
      /\ RowBelow(row, paper[i]) /\ paper \in [Intents -> PaperRow]
      /\ SubOK /\ CancelOK
  BY DEF PaperInv, LedgerInv, PaperTypeOK, JournalInv, RunOK
<1> HIDE DEF row
<1>3. /\ row \in PaperRow /\ row.state \in {"LIVE", "PARTIALLY_FILLED", "FILLED", "CANCELLED"}
      /\ row.remaining \in 0..Qty /\ row.trades \in SUBSET TradeId
  BY <1>2 DEF RowBelow, PaperRow
<1>4. /\ FillsOK(i)' /\ booked'[i] \in 0..Qty
      /\ row.trades \subseteq LinkedTrades(i)' => booked'[i] >= row.filled
      /\ LocalFilled(i)' < paper'[i].filled =>
           LinkedTrades(i)' \subseteq row.trades \/ row.trades \subseteq LinkedTrades(i)'
  <2>1. remaining'[i] = row.remaining
    BY <1>2 DEF JournalTypes, row
  <2>2. /\ row.trades \subseteq LinkedTrades(i) => booked[i] >= row.filled
        /\ LocalFilled(i) < paper[i].filled =>
             LinkedTrades(i) \subseteq row.trades \/ row.trades \subseteq LinkedTrades(i)
    BY <1>2 DEF SnapOK, row
  <2>3. LocalFilled(i) <= row.filled
        /\ apply_matched_fill(i, row.filled - LocalFilled(i), row.trades)
    BY DEF row
  <2>4. paper[i] \in PaperRow
    BY <1>2
  <2> QED BY <1>1, <1>2, <2>1, <2>2, <2>3, <2>4, BooksRow
<1>5. SnapOK(i)'
  BY <1>4 DEF SnapOK, row
<1>6. order[i] \notin EarlyState /\ intent[i] # "SUBMITTING"
  BY <1>2 DEF OrderOK, SubOK, EarlyState, RowBelow, NoRow
<1>7. /\ o \in {"LIVE", "PARTIALLY_FILLED", "FILLED", "CANCELLED", "CANCEL_PENDING"}
      /\ paper[i].state \in RestingState => o \in ReconciledOrderState
  BY <1>2, <1>3 DEF RowBelow, RestingState, ReconciledOrderState, row
<1>8. /\ order'[i] = o /\ intent'[i] = w /\ venueOrderId'[i] = TRUE
      /\ \A j \in Intents \ {i} :
           /\ order'[j] = order[j] /\ intent'[j] = intent[j]
           /\ venueOrderId'[j] = venueOrderId[j] /\ remaining'[j] = remaining[j]
  BY <1>2 DEF JournalTypes
<1>9. /\ booked' \in [Intents -> 0..Qty] /\ tradeIds' \in [Intents -> SUBSET SUBSET TradeId]
      /\ \A j \in Intents \ {i} : booked'[j] = booked[j] /\ tradeIds'[j] = tradeIds[j]
  BY <1>2, <1>3, <1>4, BookingTypes DEF row
<1>10. JournalTypes'
  <2>1. o \in OrderState \cup {"ABSENT"} /\ w \in IntentState \cup {"ABSENT"}
    BY <1>2, <1>7 DEF OrderState, IntentState, JournalTypes
  <2>2. row.remaining = run.snap[i].remaining
    BY DEF row
  <2> QED BY <1>2, <1>3, <1>9, <2>1, <2>2 DEF JournalTypes
<1>11. OrderOK(i)'
  BY <1>1, <1>2, <1>6, <1>7, <1>8 DEF OrderOK, EarlyState, ReconciledOrderState
<1>12. NoSubmission
  BY <1>6, <1>7, <1>8 DEF NoSubmission, EarlyState
<1>13. \A j \in Intents : Grows(paper[j], paper'[j])
  BY <1>1 DEF Grows
<1>14. SubOK' /\ CancelOK'
  BY <1>1, <1>2, <1>12, <1>13, SubKept, CancelKept
<1>15. ASSUME NEW j \in Intents
       PROVE  OrderOK(j)' /\ FillsOK(j)' /\ (j \in DOMAIN run.snap => SnapOK(j)')
  <2>1. CASE j = i
    BY <1>4, <1>5, <1>11, <2>1
  <2>2. CASE j # i
    <3>1. OrderOK(j) /\ FillsOK(j) /\ (j \in DOMAIN run.snap => SnapOK(j))
      BY DEF PaperInv, JournalInv
    <3> QED BY <1>1, <1>8, <1>9, <2>2, <3>1, OrderSame
  <2> QED BY <2>1, <2>2
<1> QED BY <1>1, <1>10, <1>14, <1>15 DEF PaperInv, JournalInv, RunOK

\* FailKeeps: a run that fails.
LEMMA FailKeeps ==
  ASSUME PaperInv, run.at # "idle", FailRun, UNCHANGED <<rigid, ledgerVars, sub, cancel>>
  PROVE  PaperInv'
<1>1. run' = IdleRun /\ UNCHANGED storeVars
  BY DEF FailRun
<1> QED BY <1>1, IdleRunOK, RunStill, TasksIdle

\* ProjectKeeps: taking over the rows of the snapshot, which may be behind the
\* ledger by now.
LEMMA ProjectKeeps == ASSUME PaperInv, Project PROVE PaperInv'
<1>0. /\ RunOK /\ run.at # "idle" /\ sub.at = "idle" /\ JournalTypes
      /\ UNCHANGED <<rigid, ledgerVars, sub, cancel>>
  BY TasksIdle DEF PaperInv, JournalInv, Project
<1>1. PICK i \in run.todo \cap DOMAIN run.snap :
        \/ /\ reconcile_order_projection(i, PaperEvidence(run.snap[i]))
           /\ run' = [run EXCEPT !.todo = @ \ {i}]
        \/ FailRun
  BY DEF Project
<1>2. CASE FailRun
  BY <1>0, <1>2, FailKeeps
<1>3. CASE /\ reconcile_order_projection(i, PaperEvidence(run.snap[i]))
           /\ run' = [run EXCEPT !.todo = @ \ {i}]
  <2> DEFINE row == run.snap[i]
             o == IF order[i] = "CANCEL_PENDING" /\ row.state \in {"LIVE", "PARTIALLY_FILLED"}
                    THEN "CANCEL_PENDING" ELSE row.state
  <2>1. i \in Intents /\ i \in DOMAIN run.snap
    BY <1>0 DEF RunOK
  <2>2. run' = [at |-> run.at, snap |-> run.snap, inv |-> run.inv, todo |-> run.todo \ {i},
                cur |-> run.cur, bad |-> run.bad]
    BY <1>0, <1>3 DEF RunOK
  <2>3. RunOK' /\ run'.snap = run.snap
    <3>1. UNCHANGED paper
      BY <1>0 DEF ledgerVars
    <3> QED BY <1>0, <2>2, <3>1 DEF RunOK
  <2>4. /\ order' = [order EXCEPT ![i] = o]
        /\ remaining' = [remaining EXCEPT ![i] = row.remaining]
        /\ row.filled >= LocalFilled(i) /\ venueOrderId[i]
        /\ apply_matched_fill(i, row.filled - LocalFilled(i), row.trades)
        /\ UNCHANGED <<intent, venueOrderId>>
    BY <1>0, <1>3, <2>1 DEF reconcile_order_projection, PaperEvidence, JournalTypes
  <2>5. intent' = [intent EXCEPT ![i] = intent[i]]
    BY <1>0, <2>1, <2>4 DEF JournalTypes
  <2>6. venueOrderId' = [venueOrderId EXCEPT ![i] = TRUE]
    BY <1>0, <2>1, <2>4 DEF JournalTypes
  <2>7. o = row.state \/ (o = "CANCEL_PENDING" /\ row.state \in RestingState)
    BY DEF RestingState
  <2>8. LocalFilled(i) <= row.filled
    <3>1. row \in PaperRow /\ remaining[i] \in 0..Qty
      BY <1>0, <2>1 DEF RunOK, RowBelow, JournalTypes
    <3>2. row.filled \in 0..Qty /\ LocalFilled(i) \in Int
      BY <3>1 DEF PaperRow, LocalFilled
    <3> HIDE DEF row
    <3> QED BY <2>4, <3>2
  <2> HIDE DEF o
  <2> QED BY <1>0, <2>1, <2>3, <2>4, <2>5, <2>6, <2>7, <2>8, SnapBooked
<1> QED BY <1>1, <1>2, <1>3

\* ResolveKeeps: taking over the row that a lookup has found.
LEMMA ResolveKeeps == ASSUME PaperInv, Resolve PROVE PaperInv'
<1> DEFINE i == run.cur
           row == run.snap[i]
<1>0. /\ RunOK /\ run.at = "resolve" /\ sub.at = "idle" /\ JournalTypes
      /\ UNCHANGED <<rigid, ledgerVars, sub, cancel>>
  BY TasksIdle DEF PaperInv, JournalInv, Resolve
<1>1. CASE FailRun
  BY <1>0, <1>1, FailKeeps
<1>2. CASE /\ resolve_unknown_submission(i, PaperEvidence(row))
           /\ run' = [run EXCEPT !.at = "lookup", !.cur = NoIntent]
  <2>1. i \in Intents /\ i \in DOMAIN run.snap
    BY <1>0 DEF RunOK
  <2>2. run' = [at |-> "lookup", snap |-> run.snap, inv |-> run.inv, todo |-> run.todo,
                cur |-> NoIntent, bad |-> run.bad]
    BY <1>0, <1>2 DEF RunOK
  <2>3. RunOK' /\ run'.snap = run.snap
    <3>1. UNCHANGED paper
      BY <1>0 DEF ledgerVars
    <3> QED BY <1>0, <2>2, <3>1 DEF RunOK
  <2> DEFINE w == IF intent[i] = "UNKNOWN" THEN "SUBMITTED" ELSE intent[i]
  <2>4. /\ order' = [order EXCEPT ![i] = row.state] /\ order[i] = "UNKNOWN"
        /\ venueOrderId' = [venueOrderId EXCEPT ![i] = TRUE]
        /\ remaining' = [remaining EXCEPT ![i] = row.remaining]
        /\ intent' = [intent EXCEPT ![i] = w]
        /\ apply_matched_fill(i, row.filled, row.trades)
    BY <1>0, <1>2, <2>1 DEF resolve_unknown_submission, PaperEvidence, JournalTypes
  <2>5. w \in {intent[i], "SUBMITTED"}
    OBVIOUS
  <2>6. row.filled \in Nat /\ LocalFilled(i) = 0
    <3>1. row \in PaperRow /\ remaining[i] = Qty
      BY <1>0, <2>1, <2>4 DEF PaperInv, JournalInv, RunOK, RowBelow, OrderOK
    <3> HIDE DEF row, i
    <3> QED BY <3>1 DEF PaperRow, LocalFilled
  <2>7. LocalFilled(i) <= row.filled /\ row.filled - LocalFilled(i) = row.filled
    BY <2>6
  <2>8. apply_matched_fill(i, row.filled - LocalFilled(i), row.trades)
    BY <2>4, <2>7
  <2> HIDE DEF w
  <2> QED BY <1>0, <2>1, <2>3, <2>4, <2>5, <2>7, <2>8, SnapBooked
<1> QED BY <1>1, <1>2 DEF Resolve

-----------------------------------------------------------------------------
(* The steps of a cancellation                                             *)

\* CancelStill: the steps of a cancellation that change no order.
LEMMA CancelStill ==
  ASSUME PaperInv, UNCHANGED <<storeVars, rigid, ledgerVars, sub, run>>, sub.at = "idle",
         CancelOK'
  PROVE  PaperInv'
<1>1. LedgerInv'
  BY LedgerUntouched DEF PaperInv
<1>2. UNCHANGED <<storeVars, rigid, paper, sub, run>>
  BY DEF ledgerVars
<1>3. SubOK' /\ RunOK'
  BY <1>2, StoreStill, SubKept, RunKept DEF PaperInv, JournalInv
<1>4. ASSUME NEW i \in DOMAIN run'.snap PROVE SnapOK(i)'
  BY <1>2, StoreStill DEF PaperInv, JournalInv, RunOK
<1> QED BY <1>1, <1>2, <1>3, <1>4, StoreStill DEF PaperInv, JournalInv

\* CancelMoves: the steps that move an order towards its end.
LEMMA CancelMoves ==
  ASSUME PaperInv, sub.at = "idle", UNCHANGED <<rigid, ledgerVars, sub, run, fillVars>>,
         CancelOK', NEW i \in Intents, order[i] # "ABSENT",
         NEW o \in {"CANCEL_PENDING", "FILLED", "CANCELLED"},
         NEW w \in {intent[i], "SUBMITTED", "REJECTED"},
         order' = [order EXCEPT ![i] = o], intent' = [intent EXCEPT ![i] = w],
         o = "CANCEL_PENDING" => order[i] \in ReconciledOrderState,
         o # "CANCEL_PENDING" => paper[i].state \notin RestingState
  PROVE  PaperInv'
<1>1. /\ LedgerInv'
      /\ UNCHANGED <<request, paper, venueOrderId, remaining, booked, tradeIds>>
  BY LedgerUntouched DEF PaperInv, rigid, ledgerVars, fillVars
<1>2. /\ JournalTypes /\ SubOK /\ RunOK /\ OrderOK(i) /\ FillsOK(i)
      /\ paper \in [Intents -> PaperRow]
  BY DEF PaperInv, LedgerInv, PaperTypeOK, JournalInv
<1>3. JournalTypes'
  <2>1. o \in OrderState \cup {"ABSENT"} /\ w \in IntentState \cup {"ABSENT"}
    BY <1>2 DEF OrderState, IntentState, JournalTypes
  <2> QED BY <1>1, <1>2, <2>1 DEF JournalTypes
<1>4. /\ order'[i] = o /\ intent'[i] = w
      /\ \A j \in Intents \ {i} : order'[j] = order[j] /\ intent'[j] = intent[j]
  BY <1>2 DEF JournalTypes
<1>5. \A j \in Intents : Grows(paper[j], paper'[j])
  BY <1>1 DEF Grows
<1>6. RunOK'
  BY <1>1, <1>2, <1>5, RunKept
<1>7. SubOK'
  <2>1. \A j \in Intents : order'[j] # "SUBMITTING"
    BY <1>2, <1>4 DEF SubOK
  <2> QED BY <1>2, <2>1 DEF SubOK
<1>8. intent[i] # "SUBMITTING"
  BY <1>2 DEF SubOK, OrderOK
<1>9. OrderOK(i)'
  BY <1>1, <1>2, <1>4, <1>8 DEF OrderOK, ReconciledOrderState
<1>10. FillsOK(i)' /\ (i \in DOMAIN run.snap => SnapOK(i)')
  <2>1. i \in DOMAIN run.snap => SnapOK(i)
    BY DEF PaperInv, JournalInv
  <2> QED BY <1>1, <1>2, <2>1 DEF FillsOK, SnapOK, LinkedTrades, LocalFilled
<1>11. ASSUME NEW j \in Intents
       PROVE  OrderOK(j)' /\ FillsOK(j)' /\ (j \in DOMAIN run.snap => SnapOK(j)')
  <2>1. CASE j = i
    BY <1>9, <1>10, <2>1
  <2>2. CASE j # i
    <3>1. OrderOK(j) /\ FillsOK(j) /\ (j \in DOMAIN run.snap => SnapOK(j))
      BY DEF PaperInv, JournalInv
    <3> QED BY <1>1, <1>4, <2>2, <3>1, OrderSame
  <2> QED BY <2>1, <2>2
<1> QED BY <1>1, <1>3, <1>6, <1>7, <1>11 DEF PaperInv, JournalInv, RunOK

\* IdleCancelOK: an idle cancellation relies on nothing.
LEMMA IdleCancelOK == cancel' = IdleCancel => CancelOK'
  BY DEF IdleCancel, CancelOK

\* The steps of a cancellation.
LEMMA BeginCancelKeeps == ASSUME PaperInv, NEW i \in Intents, BeginCancel(i) PROVE PaperInv'
<1>0. /\ sub.at = "idle" /\ cancel.at = "idle" /\ JournalTypes /\ SubOK /\ CancelOK
      /\ OrderOK(i) /\ order[i] # "ABSENT" /\ order[i] # "SUBMITTING"
      /\ UNCHANGED <<rigid, ledgerVars, sub, run>>
  BY DEF BeginCancel, PaperInv, JournalInv, SubOK
<1>1. CASE order[i] = "PREPARED" /\ cancel_prepared_order(i) /\ UNCHANGED cancel
  <2> DEFINE w == IF intent[i] = "PREPARED" THEN "REJECTED" ELSE intent[i]
  <2>1. /\ order' = [order EXCEPT ![i] = "CANCELLED"] /\ intent' = [intent EXCEPT ![i] = w]
        /\ UNCHANGED fillVars
    BY <1>0, <1>1 DEF cancel_prepared_order, JournalTypes
  <2>2. paper[i].state \notin RestingState
    BY <1>0, <1>1 DEF OrderOK, NoRow, RestingState
  <2>3. CancelOK'
    BY <1>0, <1>1 DEF CancelOK
  <2>4. w \in {intent[i], "SUBMITTED", "REJECTED"}
    OBVIOUS
  <2> HIDE DEF w
  <2> QED BY <1>0, <2>1, <2>2, <2>3, <2>4, CancelMoves
<1>2. CASE /\ order[i] # "PREPARED" /\ UNCHANGED storeVars
           /\ cancel' = [IdleCancel EXCEPT !.intent = i,
                !.at = IF order[i] = "UNKNOWN" THEN "venue" ELSE "mark"]
  <2>1. UNCHANGED order
    BY <1>2 DEF storeVars, journalVars
  <2>2. cancel' = [at |-> IF order[i] = "UNKNOWN" THEN "venue" ELSE "mark", intent |-> i,
                   answer |-> "none"]
    BY <1>2 DEF IdleCancel
  <2>3. CancelOK'
    BY <1>0, <1>2, <2>1, <2>2 DEF CancelOK
  <2> QED BY <1>0, <1>2, <2>3, CancelStill
<1> QED BY <1>1, <1>2 DEF BeginCancel

\* MarkCancelKeeps: the journal marks the order before the venue is asked.
LEMMA MarkCancelKeeps == ASSUME PaperInv, MarkCancel PROVE PaperInv'
<1>0. /\ sub.at = "idle" /\ cancel.at = "mark" /\ JournalTypes /\ CancelOK
      /\ cancel.intent \in Intents /\ order[cancel.intent] \notin EarlyState
      /\ UNCHANGED <<rigid, ledgerVars, sub, run>>
  BY TasksIdle DEF MarkCancel, PaperInv, JournalInv, CancelOK, EarlyState
<1>1. PICK i \in Intents : i = cancel.intent
  BY <1>0
<1>2. /\ transition_order(i, "CANCEL_PENDING")
      /\ cancel' = IF order[i] \in TerminalOrderState THEN IdleCancel
                   ELSE [cancel EXCEPT !.at = "venue"]
  BY <1>1 DEF MarkCancel
<1>3. CASE order[i] \in TerminalOrderState
  <2>1. UNCHANGED storeVars /\ cancel' = IdleCancel
    BY <1>2, <1>3 DEF transition_order, storeVars, controlVars, fillVars
  <2> QED BY <1>0, <2>1, IdleCancelOK, CancelStill
<1>4. CASE order[i] \notin TerminalOrderState
  <2>1. /\ valid_order_transition(order[i], "CANCEL_PENDING")
        /\ order' = [order EXCEPT ![i] = "CANCEL_PENDING"]
        /\ intent' = [intent EXCEPT ![i] = intent[i]] /\ UNCHANGED fillVars
    BY <1>0, <1>2, <1>4 DEF transition_order, JournalTypes
  <2>2. order[i] \in ReconciledOrderState
    BY <2>1 DEF valid_order_transition, ReconciledOrderState
  <2>3. /\ cancel' = [at |-> "venue", intent |-> i, answer |-> cancel.answer]
        /\ order'[i] = "CANCEL_PENDING"
    BY <1>0, <1>1, <1>2, <1>4, <2>1 DEF CancelOK, JournalTypes
  <2>4. CancelOK'
    BY <2>3 DEF CancelOK
  <2>5. order[i] # "ABSENT"
    BY <2>2 DEF ReconciledOrderState
  <2> QED BY <1>0, <2>1, <2>2, <2>4, <2>5, CancelMoves
<1> QED BY <1>3, <1>4

\* CommitCancelKeeps: the journal takes over the row that the cancellation returned,
\* with whatever was matched until then.
LEMMA CommitCancelKeeps == ASSUME PaperInv, CommitCancel PROVE PaperInv'
<1>0. /\ sub.at = "idle" /\ cancel.at = "commit" /\ JournalTypes /\ CancelOK
      /\ cancel.intent \in Intents /\ cancel' = IdleCancel
      /\ UNCHANGED <<rigid, ledgerVars, sub, run>>
  BY TasksIdle DEF CommitCancel, PaperInv, JournalInv, CancelOK
<1>1. PICK i \in Intents : i = cancel.intent
  BY <1>0
<1>2. PICK o \in {"FILLED", "CANCELLED"} : o = cancel.answer /\ o = paper[i].state
  BY <1>0, <1>1 DEF CancelOK
<1>3. CASE UNCHANGED storeVars
  BY <1>0, <1>3, IdleCancelOK, CancelStill
<1>4. CASE transition_order(i, o)
  <2> DEFINE w == IF /\ order[i] = "UNKNOWN" /\ intent[i] = "UNKNOWN"
                    THEN "SUBMITTED" ELSE intent[i]
  <2>1. /\ order[i] # "ABSENT" /\ order' = [order EXCEPT ![i] = o]
        /\ intent' = [intent EXCEPT ![i] = w] /\ UNCHANGED fillVars
    BY <1>0, <1>4 DEF transition_order, JournalTypes
  <2>2. w \in {intent[i], "SUBMITTED", "REJECTED"} /\ paper[i].state \notin RestingState
    BY <1>2 DEF RestingState
  <2> HIDE DEF w
  <2> QED BY <1>0, <2>1, <2>2, IdleCancelOK, CancelMoves
<1> QED BY <1>1, <1>2, <1>3, <1>4 DEF CommitCancel

\* CancelRowKeeps: cancelling an order in the ledger changes no fill.
LEMMA CancelRowKeeps ==
  ASSUME PaperInv, sub.at = "idle", UNCHANGED <<storeVars, rigid, sub, run>>,
         NEW i \in Intents, cancel_paper_order(i), order[i] \notin EarlyState,
         \/ cancel' = IdleCancel
         \/ cancel' = [at |-> "commit", intent |-> i, answer |-> paper'[i].state]
  PROVE  PaperInv'
<1>1. /\ LedgerInv'
      /\ paper[i] # NoRow /\ paper'[i].state \notin RestingState \cup {"ABSENT"}
      /\ paper'[i] # paper[i] =>
           /\ paper[i].state \in RestingState /\ paper'[i].state = "CANCELLED"
           /\ paper'[i].filled = paper[i].filled /\ paper'[i].trades = paper[i].trades
      /\ \A j \in Intents \ {i} : paper'[j] = paper[j]
  BY CancelKeepsLedger DEF PaperInv
<1>2. /\ UNCHANGED <<order, intent, venueOrderId, remaining, booked, tradeIds, request>>
  BY DEF storeVars, controlVars, journalVars, fillVars, rigid
<1>3. /\ JournalTypes /\ SubOK /\ RunOK /\ OrderOK(i) /\ FillsOK(i)
      /\ paper \in [Intents -> PaperRow] /\ paper' \in [Intents -> PaperRow]
  BY <1>1 DEF PaperInv, LedgerInv, PaperTypeOK, JournalInv
<1>4. paper'[i].filled = paper[i].filled /\ paper'[i].trades = paper[i].trades
  BY <1>1
<1>5. ASSUME NEW j \in Intents PROVE Grows(paper[j], paper'[j])
  <2>1. CASE paper'[j] = paper[j]
    BY <2>1 DEF Grows
  <2>2. CASE paper'[j] # paper[j]
    <3>1. j = i
      BY <1>1, <2>2
    <3>2. paper[i].filled \in Nat
      BY <1>3 DEF PaperRow
    <3>3. /\ paper[i].state \in RestingState /\ paper'[i].state # "ABSENT"
          /\ paper[i].filled <= paper'[i].filled
      BY <1>1, <1>4, <2>2, <3>1, <3>2
    <3> QED BY <1>4, <3>1, <3>3 DEF Grows
  <2> QED BY <2>1, <2>2
<1>6. JournalTypes' /\ NoSubmission
  BY <1>2, <1>3 DEF JournalTypes, NoSubmission
<1>7. SubOK' /\ RunOK'
  BY <1>3, <1>5, <1>6, SubKept, RunKept
<1>8. CancelOK'
  <2>1. paper'[i].state \in {"FILLED", "CANCELLED"}
    BY <1>1, <1>3 DEF PaperRow, RestingState
  <2>2. CASE cancel' = [at |-> "commit", intent |-> i, answer |-> paper'[i].state]
    BY <1>2, <2>1, <2>2 DEF CancelOK, EarlyState
  <2> QED BY <2>2, IdleCancelOK
<1>9. ASSUME NEW j \in Intents
      PROVE  OrderOK(j)' /\ FillsOK(j)' /\ (j \in DOMAIN run.snap => SnapOK(j)')
  <2>0. OrderOK(j) /\ FillsOK(j) /\ (j \in DOMAIN run.snap => SnapOK(j))
    BY DEF PaperInv, JournalInv
  <2>1. CASE j = i
    <3>1. OrderOK(i)'
      BY <1>1, <1>2, <1>3 DEF OrderOK, EarlyState
    <3>2. FillsOK(i)' /\ (i \in DOMAIN run.snap => SnapOK(i)')
      BY <1>2, <1>3, <1>4, <2>0, <2>1 DEF FillsOK, SnapOK, LinkedTrades, LocalFilled
    <3> QED BY <2>1, <3>1, <3>2
  <2>2. CASE j # i
    BY <1>1, <1>2, <2>0, <2>2, OrderSame
  <2> QED BY <2>1, <2>2
<1> QED BY <1>1, <1>6, <1>7, <1>8, <1>9 DEF PaperInv, JournalInv, RunOK

\* CancelPaperKeeps: the ledger closes the order and frees its reservation.
LEMMA CancelPaperKeeps == ASSUME PaperInv, CancelPaper PROVE PaperInv'
<1>0. /\ sub.at = "idle" /\ cancel.at = "venue" /\ CancelOK
      /\ cancel.intent \in Intents /\ order[cancel.intent] \notin EarlyState
      /\ UNCHANGED <<storeVars, rigid, sub, run>>
  BY TasksIdle DEF CancelPaper, PaperInv, JournalInv, CancelOK, EarlyState
<1>1. PICK i \in Intents : i = cancel.intent
  BY <1>0
<1>2. CASE /\ cancel_paper_order(i)
           /\ \/ cancel' = [cancel EXCEPT !.at = "commit", !.answer = paper'[i].state]
              \/ cancel' = IdleCancel
  <2>1. \/ cancel' = IdleCancel
        \/ cancel' = [at |-> "commit", intent |-> i, answer |-> paper'[i].state]
    BY <1>0, <1>1, <1>2 DEF CancelOK
  <2> QED BY <1>0, <1>1, <1>2, <2>1, CancelRowKeeps
<1>3. CASE cancel' = IdleCancel /\ UNCHANGED ledgerVars
  BY <1>0, <1>3, IdleCancelOK, CancelStill
<1> QED BY <1>1, <1>2, <1>3 DEF CancelPaper

-----------------------------------------------------------------------------
(* The steps of the worker                                                 *)

\* SubmissionFrame: a step of the worker moves one order; the other tasks are idle.
LEMMA SubmissionFrame ==
  ASSUME PaperInv, LedgerInv', UNCHANGED rigid, run' = IdleRun, cancel' = IdleCancel,
         NEW i \in Intents, JournalTypes', SubOK', OrderOK(i)', FillsOK(i)',
         \A j \in Intents \ {i} :
           /\ order'[j] = order[j] /\ intent'[j] = intent[j]
           /\ venueOrderId'[j] = venueOrderId[j] /\ remaining'[j] = remaining[j]
           /\ booked'[j] = booked[j] /\ tradeIds'[j] = tradeIds[j] /\ paper'[j] = paper[j]
  PROVE  PaperInv'
<1>1. RunOK' /\ CancelOK' /\ DOMAIN run'.snap = {}
  BY IdleRunOK, IdleCancelOK
<1>2. ASSUME NEW j \in Intents PROVE OrderOK(j)' /\ FillsOK(j)'
  <2>1. CASE j # i
    BY <2>1, OrderSame DEF PaperInv, JournalInv, rigid
  <2> QED BY <2>1
<1> QED BY <1>1, <1>2 DEF PaperInv, JournalInv

\* The worker.
LEMMA BeginSubmitKeeps == ASSUME PaperInv, NEW i \in Intents, BeginSubmit(i) PROVE PaperInv'
<1>0. /\ LedgerInv' /\ UNCHANGED <<rigid, request, paper, run, cancel, fillVars>>
      /\ UNCHANGED <<venueOrderId, remaining, booked, tradeIds>>
      /\ sub.at = "idle" /\ order[i] = "PREPARED"
      /\ intent' = [intent EXCEPT ![i] = "SUBMITTING"]
      /\ order' = [order EXCEPT ![i] = "SUBMITTING"]
  BY LedgerUntouched DEF PaperInv, BeginSubmit, begin_submission, rigid, ledgerVars, fillVars
<1>1. /\ JournalTypes /\ SubOK /\ OrderOK(i) /\ FillsOK(i)
      /\ run = IdleRun /\ cancel = IdleCancel
  BY DEF PaperInv, JournalInv, RunOK, CancelOK, BeginSubmit
<1>2. sub' = [at |-> "send", intent |-> i, reply |-> "none", row |-> NoRow]
  BY DEF BeginSubmit, IdleSub
<1>3. /\ order'[i] = "SUBMITTING" /\ intent'[i] = "SUBMITTING"
      /\ \A j \in Intents \ {i} : order'[j] = order[j] /\ intent'[j] = intent[j]
  BY <1>0, <1>1 DEF JournalTypes
<1>4. JournalTypes'
  <2>1. "SUBMITTING" \in OrderState \cap IntentState
    BY DEF OrderState, IntentState
  <2> QED BY <1>0, <1>1, <2>1 DEF JournalTypes
<1>5. OrderOK(i)' /\ FillsOK(i)'
  BY <1>0, <1>1, <1>3 DEF OrderOK, FillsOK, LinkedTrades, LocalFilled, ReconciledOrderState,
                          RestingState, NoRow
<1>6. SubOK'
  <2>1. \A j \in Intents \ {i} : order[j] # "SUBMITTING"
    BY <1>0, <1>1 DEF SubOK
  <2>2. paper'[i] = NoRow
    BY <1>0, <1>1 DEF OrderOK
  <2> QED BY <1>0, <1>1, <1>2, <1>3, <2>1, <2>2 DEF SubOK
<1> QED BY <1>0, <1>1, <1>3, <1>4, <1>5, <1>6, SubmissionFrame

\* SubmitKeeps: the ledger accepts, refuses or loses the order; the reply is a row
\* of the ledger or nothing.
LEMMA SubmitKeeps == ASSUME PaperInv, Submit PROVE PaperInv'
<1>0. /\ sub.at = "send" /\ sub.intent \in Intents /\ order[sub.intent] = "SUBMITTING"
      /\ run = IdleRun /\ cancel = IdleCancel /\ paper[sub.intent] = NoRow
      /\ UNCHANGED <<storeVars, rigid, run, cancel>> /\ SubOK /\ JournalTypes
  BY DEF PaperInv, JournalInv, SubOK, Submit
<1>1. PICK i \in Intents : i = sub.intent
  BY <1>0
<1>2. /\ UNCHANGED <<order, intent, venueOrderId, remaining, booked, tradeIds, request>>
      /\ OrderOK(i) /\ FillsOK(i) /\ i \in DOMAIN request /\ JournalTypes'
      /\ remaining[i] = Qty /\ booked[i] = 0 /\ tradeIds[i] = {}
  BY <1>0, <1>1 DEF PaperInv, JournalInv, storeVars, rigid, OrderOK, JournalTypes
<1> DEFINE Reply(kind, row) ==
             sub' = [at |-> "finish", intent |-> i, reply |-> kind, row |-> row]
<1>3. \/ \E row \in PaperRows(request[i]) :
           /\ commit_paper_order(i, row)
           /\ Reply("accepted", row) \/ Reply("ambiguous", NoRow)
      \/ /\ Reply("rejected", NoRow) \/ Reply("ambiguous", NoRow)
         /\ UNCHANGED ledgerVars
  BY <1>1 DEF Submit
<1>4. ASSUME Reply("rejected", NoRow) \/ Reply("ambiguous", NoRow), UNCHANGED ledgerVars
      PROVE  PaperInv'
  <2>1. LedgerInv' /\ UNCHANGED paper
    BY <1>0, <1>4, LedgerUntouched DEF PaperInv, ledgerVars
  <2>2. OrderOK(i)' /\ FillsOK(i)'
    BY <1>2, <2>1, OrderSame
  <2>3. SubOK'
    BY <1>0, <1>1, <1>2, <1>4, <2>1 DEF SubOK
  <2> QED BY <1>0, <1>2, <2>1, <2>2, <2>3, SubmissionFrame
<1>5. ASSUME NEW row \in PaperRows(request[i]), commit_paper_order(i, row),
             Reply("accepted", row) \/ Reply("ambiguous", NoRow)
      PROVE  PaperInv'
  <2>1. RequestsOK /\ LedgerInv
    BY DEF PaperInv, LedgerInv
  <2>2. /\ RowOK(i, row) /\ row.state \in {"LIVE", "FILLED", "CANCELLED"}
        /\ row.trades = IF row.filled > 0 THEN {0} ELSE {}
    BY <1>2, <2>1, NewRows
  <2>3. LedgerInv'
    BY <1>0, <1>2, <1>5, <2>1, CommitKeepsLedger
  <2>4. paper' = [paper EXCEPT ![i] = row] /\ paper \in [Intents -> PaperRow]
    BY <1>5, <2>1 DEF commit_paper_order, LedgerInv, PaperTypeOK
  <2>5. paper'[i] = row /\ \A j \in Intents \ {i} : paper'[j] = paper[j]
    BY <2>4
  <2>6. row.filled \in 0..Qty /\ (row.trades = {} => row.filled = 0) /\ row # NoRow
    BY <2>2 DEF RowOK, PaperRow, NoRow
  <2>7. RowBelow(row, row)
    BY <2>2, <2>6, BelowSelf
  <2>8. OrderOK(i)'
    BY <1>0, <1>1, <1>2, <2>5 DEF OrderOK
  <2>9. FillsOK(i)'
    BY <1>2, <2>5, <2>6 DEF FillsOK, LinkedTrades, LocalFilled
  <2>10. SubOK'
    BY <1>0, <1>1, <1>2, <1>5, <2>5, <2>7 DEF SubOK
  <2> QED BY <1>0, <1>2, <2>3, <2>5, <2>8, <2>9, <2>10, SubmissionFrame
<1> QED BY <1>3, <1>4, <1>5

\* EndsSubmission: the worker is idle again and no order is being submitted.
LEMMA EndsSubmission ==
  ASSUME SubOK, NEW i \in Intents, sub.intent = i, sub' = IdleSub, order'[i] # "SUBMITTING",
         \A j \in Intents \ {i} : order'[j] = order[j]
  PROVE  SubOK'
<1>1. \A j \in Intents : order'[j] # "SUBMITTING"
  BY DEF SubOK
<1> QED BY <1>1 DEF SubOK, IdleSub

\* FinishSubmitKeeps: the journal takes over the reply, a reply that was lost included.
LEMMA FinishSubmitKeeps == ASSUME PaperInv, FinishSubmit PROVE PaperInv'
<1>0. /\ sub.at = "finish" /\ sub.intent \in Intents /\ order[sub.intent] = "SUBMITTING"
      /\ run = IdleRun /\ cancel = IdleCancel /\ sub' = IdleSub /\ SubOK /\ JournalTypes
      /\ UNCHANGED <<rigid, ledgerVars, run, cancel>>
  BY DEF PaperInv, JournalInv, SubOK, FinishSubmit
<1>1. PICK i \in Intents : i = sub.intent
  BY <1>0
<1>2. PICK row : row = sub.row
  OBVIOUS
<1>3. LedgerInv' /\ UNCHANGED <<request, paper>> /\ paper \in [Intents -> PaperRow]
  BY <1>0, LedgerUntouched DEF PaperInv, rigid, ledgerVars, LedgerInv, PaperTypeOK
<1>4. /\ OrderOK(i) /\ FillsOK(i) /\ order[i] = "SUBMITTING" /\ i \in DOMAIN request
      /\ remaining[i] = Qty /\ booked[i] = 0 /\ tradeIds[i] = {}
  BY <1>0, <1>1 DEF PaperInv, JournalInv, OrderOK
<1> DEFINE Identified(o) ==
             /\ venueOrderId' \in [Intents -> BOOLEAN] /\ (o # "REJECTED" => venueOrderId'[i])
             /\ \A j \in Intents \ {i} : venueOrderId'[j] = venueOrderId[j]
           Booked ==
             /\ booked' \in [Intents -> 0..Qty]
             /\ tradeIds' \in [Intents -> SUBSET SUBSET TradeId]
             /\ \A j \in Intents \ {i} : booked'[j] = booked[j] /\ tradeIds'[j] = tradeIds[j]
<1>5. ASSUME NEW o \in OrderState, o \notin EarlyState, NEW n \in {"SUBMITTED", "UNKNOWN"},
             NEW left \in 0..Qty,
             order' = [order EXCEPT ![i] = o], intent' = [intent EXCEPT ![i] = n],
             remaining' = [remaining EXCEPT ![i] = left], Identified(o), Booked, FillsOK(i)',
             o = "UNKNOWN" => left = Qty /\ UNCHANGED <<tradeIds, booked>>,
             paper[i].state \in RestingState => o \in {"UNKNOWN"} \cup ReconciledOrderState
      PROVE  PaperInv'
  <2>2. /\ order'[i] = o /\ intent'[i] = n /\ remaining'[i] = left
        /\ \A j \in Intents \ {i} :
             /\ order'[j] = order[j] /\ intent'[j] = intent[j] /\ remaining'[j] = remaining[j]
    BY <1>0, <1>5 DEF JournalTypes
  <2>3. JournalTypes'
    <3>2. n \in IntentState
      BY <1>5 DEF IntentState
    <3>4. order' \in [Intents -> OrderState \cup {"ABSENT"}]
      BY <1>0, <1>5 DEF JournalTypes
    <3>5. intent' \in [Intents -> IntentState \cup {"ABSENT"}]
      BY <1>0, <1>5, <3>2 DEF JournalTypes
    <3>6. remaining' \in [Intents -> 0..Qty]
      BY <1>0, <1>5 DEF JournalTypes
    <3> QED BY <1>5, <3>4, <3>5, <3>6 DEF JournalTypes
  <2>4. OrderOK(i)'
    <3>1. o = "UNKNOWN" => remaining'[i] = Qty /\ booked'[i] = 0 /\ tradeIds'[i] = {}
      BY <1>4, <1>5, <2>2
    <3>2. o \in ReconciledOrderState \cup {"UNKNOWN"} => venueOrderId'[i]
      BY <1>5 DEF ReconciledOrderState
    <3> QED BY <1>3, <1>4, <1>5, <2>2, <3>1, <3>2 DEF OrderOK, EarlyState
  <2>5. SubOK'
    BY <1>0, <1>1, <1>5, <2>2, EndsSubmission DEF EarlyState
  <2> QED BY <1>0, <1>3, <1>5, <2>2, <2>3, <2>4, <2>5, SubmissionFrame
<1>10. ASSUME NEW o, venueOrderId' = [venueOrderId EXCEPT ![i] = @ \/ o # "REJECTED"]
       PROVE  Identified(o)
  <2>1. (venueOrderId[i] \/ o # "REJECTED") \in BOOLEAN
    OBVIOUS
  <2> QED BY <1>0, <1>10, <2>1 DEF JournalTypes
<1>11. UNCHANGED <<tradeIds, booked>> => Booked
  BY <1>0 DEF JournalTypes
<1>6. CASE /\ sub.reply = "accepted"
           /\ finish_submission(i, "SUBMITTED", row.state, row.filled, row.trades)
  <2>1. RowBelow(row, paper[i])
    BY <1>0, <1>1, <1>2, <1>6 DEF SubOK
  <2>2. /\ row.state \in {"LIVE", "PARTIALLY_FILLED", "FILLED", "CANCELLED"}
        /\ row.filled \in 0..Qty /\ row.remaining \in 0..Qty /\ row.trades \in SUBSET TradeId
    BY <2>1 DEF RowBelow, PaperRow
  <2>3. SubmissionRemaining(row.state, row.filled) = row.remaining
    BY <2>1, <2>2 DEF RowBelow, RestingState, SubmissionRemaining, TerminalOrderState
  <2>4. /\ order' = [order EXCEPT ![i] = row.state]
        /\ intent' = [intent EXCEPT ![i] = "SUBMITTED"]
        /\ venueOrderId' = [venueOrderId EXCEPT ![i] = @ \/ row.state # "REJECTED"]
        /\ remaining' = [remaining EXCEPT ![i] = row.remaining]
        /\ apply_matched_fill(i, row.filled, row.trades)
    BY <1>6, <2>3 DEF finish_submission
  <2>5. LocalFilled(i) = 0 /\ LinkedTrades(i) = {}
    BY <1>4 DEF LocalFilled, LinkedTrades
  <2>6. row.filled - LocalFilled(i) = row.filled /\ LocalFilled(i) <= row.filled
    BY <2>2, <2>5
  <2>7. row.trades \subseteq LinkedTrades(i) => booked[i] >= row.filled
    BY <1>4, <2>1, <2>2, <2>5 DEF RowBelow
  <2>8. remaining'[i] = row.remaining
    BY <1>0, <2>4 DEF JournalTypes
  <2>9. FillsOK(i)' /\ Booked
    <3>1. apply_matched_fill(i, row.filled - LocalFilled(i), row.trades)
      BY <2>4, <2>6
    <3>2. LinkedTrades(i) \subseteq row.trades /\ paper[i] \in PaperRow
      BY <1>3, <2>5
    <3>3. FillsOK(i)' /\ booked'[i] \in 0..Qty
      BY <1>0, <1>3, <1>4, <2>1, <2>6, <2>7, <2>8, <3>1, <3>2, BooksRow
    <3> QED BY <1>0, <2>2, <2>4, <3>3, BookingTypes
  <2>10. /\ row.state \in OrderState /\ row.state \notin EarlyState /\ row.state # "UNKNOWN"
         /\ paper[i].state \in RestingState => row.state \in ReconciledOrderState
    BY <2>1, <2>2 DEF OrderState, EarlyState, RowBelow, RestingState, ReconciledOrderState
  <2>11. Identified(row.state)
    BY <1>10, <2>4
  <2> HIDE DEF Identified, Booked
  <2> QED BY <1>5, <2>2, <2>4, <2>9, <2>10, <2>11
<1>7. CASE sub.reply = "rejected" /\ finish_submission(i, "SUBMITTED", "REJECTED", 0, {})
  <2>1. paper[i] = NoRow
    BY <1>0, <1>1, <1>7 DEF SubOK
  <2>2. SubmissionRemaining("REJECTED", 0) = 0
    BY DEF SubmissionRemaining, TerminalOrderState
  <2>3. /\ order' = [order EXCEPT ![i] = "REJECTED"]
        /\ intent' = [intent EXCEPT ![i] = "SUBMITTED"]
        /\ venueOrderId' = [venueOrderId EXCEPT ![i] = @ \/ "REJECTED" # "REJECTED"]
        /\ remaining' = [remaining EXCEPT ![i] = 0]
        /\ apply_matched_fill(i, 0, {})
    BY <1>7, <2>2 DEF finish_submission
  <2>7. UNCHANGED <<tradeIds, booked>>
    BY <2>3 DEF apply_matched_fill
  <2>4. FillsOK(i)'
    <3>1. remaining'[i] = 0
      BY <1>0, <2>3 DEF JournalTypes
    <3> QED BY <1>3, <1>4, <2>1, <2>7, <3>1 DEF FillsOK, LinkedTrades, LocalFilled, NoRow
  <2>5. paper[i].state \notin RestingState
    BY <2>1 DEF NoRow, RestingState
  <2>6. "REJECTED" \in OrderState /\ "REJECTED" \notin EarlyState /\ 0 \in 0..Qty
    BY DEF OrderState, EarlyState
  <2>8. Identified("REJECTED") /\ Booked
    BY <1>10, <1>11, <2>3, <2>7
  <2> HIDE DEF Identified, Booked
  <2> QED BY <1>5, <2>3, <2>4, <2>5, <2>6, <2>8
<1>8. CASE sub.reply = "ambiguous" /\ finish_submission(i, "UNKNOWN", "UNKNOWN", 0, {})
  <2>2. SubmissionRemaining("UNKNOWN", 0) = Qty
    BY DEF SubmissionRemaining, TerminalOrderState
  <2>3. /\ order' = [order EXCEPT ![i] = "UNKNOWN"]
        /\ intent' = [intent EXCEPT ![i] = "UNKNOWN"]
        /\ venueOrderId' = [venueOrderId EXCEPT ![i] = @ \/ "UNKNOWN" # "REJECTED"]
        /\ remaining' = [remaining EXCEPT ![i] = Qty]
        /\ UNCHANGED <<tradeIds, booked>>
    BY <1>8, <2>2 DEF finish_submission
  <2>4. FillsOK(i)'
    <3>1. remaining'[i] = remaining[i]
      BY <1>0, <1>4, <2>3 DEF JournalTypes
    <3> QED BY <1>3, <1>4, <2>3, <3>1 DEF FillsOK, LinkedTrades, LocalFilled
  <2>6. "UNKNOWN" \in OrderState /\ "UNKNOWN" \notin EarlyState /\ Qty \in 0..Qty
    BY DEF OrderState, EarlyState
  <2>8. Identified("UNKNOWN") /\ Booked
    BY <1>10, <1>11, <2>3
  <2> HIDE DEF Identified, Booked
  <2> QED BY <1>5, <2>3, <2>4, <2>6, <2>8
<1>9. sub.reply \in {"accepted", "rejected", "ambiguous"}
  BY <1>0 DEF SubOK
<1> QED BY <1>1, <1>2, <1>6, <1>7, <1>8, <1>9 DEF FinishSubmit

-----------------------------------------------------------------------------
(* Restarts and trades of the market stream                                *)

\* RestartKeeps: the submission that was in progress, and nothing else, is unknown.
LEMMA RestartKeeps == ASSUME PaperInv, Restart PROVE PaperInv'
<1>0. /\ sub.at # "idle" /\ sub.intent \in Intents /\ order[sub.intent] = "SUBMITTING"
      /\ run = IdleRun /\ cancel = IdleCancel /\ SubOK /\ JournalTypes
      /\ sub' = IdleSub /\ run' = IdleRun /\ cancel' = IdleCancel
      /\ UNCHANGED <<rigid, ledgerVars>> /\ recover_interrupted_submissions
  BY DEF PaperInv, JournalInv, SubOK, Restart
<1>1. PICK i \in Intents : i = sub.intent
  BY <1>0
<1>2. LedgerInv' /\ UNCHANGED <<request, paper>>
  BY <1>0, LedgerUntouched DEF PaperInv, rigid, ledgerVars
<1>3. \A j \in Intents : OrderOK(j) /\ FillsOK(j)
  BY DEF PaperInv, JournalInv
<1>4. \A j \in Intents : j \in Interrupted <=> j = i
  BY <1>0, <1>1, <1>3 DEF Interrupted, OrderOK, SubOK
<1>5. /\ order' = [j \in Intents |-> IF j \in Interrupted THEN "UNKNOWN" ELSE order[j]]
      /\ intent' = [j \in Intents |-> IF j \in Interrupted THEN "UNKNOWN" ELSE intent[j]]
      /\ venueOrderId' = [j \in Intents |-> venueOrderId[j] \/ j \in Interrupted]
      /\ UNCHANGED <<remaining, tradeIds, booked>>
  BY <1>0 DEF recover_interrupted_submissions
<1>6. /\ order'[i] = "UNKNOWN" /\ intent'[i] = "UNKNOWN" /\ venueOrderId'[i]
      /\ \A j \in Intents \ {i} : order'[j] = order[j] /\ intent'[j] = intent[j]
  BY <1>4, <1>5
<1>7. \A j \in Intents \ {i} : venueOrderId'[j] = venueOrderId[j]
  BY <1>0, <1>4, <1>5 DEF JournalTypes
<1>8. JournalTypes'
  <2>1. "UNKNOWN" \in OrderState \cap IntentState
    BY DEF OrderState, IntentState
  <2>2. /\ order' \in [Intents -> OrderState \cup {"ABSENT"}]
        /\ intent' \in [Intents -> IntentState \cup {"ABSENT"}]
    BY <1>0, <1>5, <2>1 DEF JournalTypes
  <2>3. venueOrderId' \in [Intents -> BOOLEAN]
    BY <1>0, <1>5 DEF JournalTypes
  <2> QED BY <1>0, <1>5, <2>2, <2>3 DEF JournalTypes
<1>9. OrderOK(i)' /\ FillsOK(i)'
  <2>1. OrderOK(i) /\ FillsOK(i) /\ order[i] = "SUBMITTING"
    BY <1>0, <1>1, <1>3
  <2>2. OrderOK(i)'
    BY <1>2, <1>5, <1>6, <2>1 DEF OrderOK, ReconciledOrderState
  <2>3. FillsOK(i)'
    BY <1>2, <1>5, <2>1 DEF FillsOK, LinkedTrades, LocalFilled
  <2> QED BY <2>2, <2>3
<1>10. SubOK'
  BY <1>0, <1>1, <1>6, EndsSubmission
<1> QED BY <1>0, <1>2, <1>5, <1>6, <1>7, <1>8, <1>9, <1>10, SubmissionFrame

\* TradeMoves: what a trade-through does to the rows and to the journal.
LEMMA TradeMoves ==
  ASSUME PaperInv, ReceiveTrade
  PROVE  /\ LedgerInv' /\ UNCHANGED <<rigid, sub, run, cancel>>
         /\ \E e \in TradeId :
              /\ \A i \in Intents : Moved(e, paper[i], paper'[i]) /\ e \notin paper[i].trades
              /\ \E s : s.paper = paper' /\ CoreFill(e, s)
<1>1. PICK t \in trade_subscriptions, e \in Events, price \in 1..(TickCount - 1),
           size \in {1, 2 * Qty}, n \in 0..Len(book) :
        apply_paper_trade_through(e, t, price, size, n)
  BY DEF ReceiveTrade
<1>2. UNCHANGED <<rigid, sub, run, cancel>>
  BY DEF ReceiveTrade, taskVars
<1>3. LedgerInv /\ RequestsOK /\ \A i \in Intents : RowOK(i, paper[i])
  BY DEF PaperInv, LedgerInv
<1>4. t \in Tokens
  <2>1. PICK j \in Intents : paper[j] # NoRow /\ t = request[j].token
    BY DEF trade_subscriptions
  <2>2. j \in DOMAIN request
    BY <1>3, <2>1 DEF RowOK
  <2> QED BY <1>3, <2>1, <2>2 DEF RequestsOK, PaperRequest
<1>5. size \in Nat
  OBVIOUS
<1>6. /\ LedgerInv' /\ \A i \in Intents : Moved(e, paper[i], paper'[i])
      /\ e \notin applied /\ \E s : s.paper = paper' /\ CoreFill(e, s)
  BY <1>1, <1>2, <1>3, <1>4, <1>5, TradeKeepsLedger
<1>7. e \in TradeId /\ e # 0
  BY <1>3 DEF Events, TradeId, RequestsOK
<1>8. \A i \in Intents : e \notin paper[i].trades
  BY <1>3, <1>6, <1>7 DEF LedgerInv
<1> QED BY <1>2, <1>6, <1>7, <1>8

\* HitOrder: a fill of an order that the journal knows and watches is booked with the
\* identifier of the trade, and the projection catches up with the ledger, whether or
\* not it had booked the earlier fills.
LEMMA HitOrder ==
  ASSUME JournalTypes, NEW i \in Intents, OrderOK(i), FillsOK(i), UNCHANGED <<request, run>>,
         paper[i] \in PaperRow, RowOK(i, paper'[i]), NEW e, Moved(e, paper[i], paper'[i]),
         e \notin paper[i].trades, paper'[i] # paper[i], order[i] \in ReconciledOrderState,
         order'[i] = CoreState(i, paper'[i].state), intent'[i] = intent[i],
         venueOrderId'[i] = venueOrderId[i], remaining'[i] = paper'[i].remaining,
         tradeIds'[i] = tradeIds[i] \cup {{e}},
         booked'[i] = booked[i] + paper'[i].filled - paper[i].filled
  PROVE  /\ OrderOK(i)' /\ FillsOK(i)' /\ booked'[i] \in 0..Qty /\ remaining'[i] \in 0..Qty
         /\ order'[i] \in OrderState \ EarlyState
         /\ SnapOK(i) /\ RowBelow(run.snap[i], paper[i]) => SnapOK(i)'
<1>1. /\ paper[i].state \in RestingState /\ paper'[i].state \in RestingState \cup {"FILLED"}
      /\ paper'[i].filled > paper[i].filled /\ paper'[i].trades = paper[i].trades \cup {e}
  BY DEF Moved
<1>2. /\ paper[i].filled \in 0..Qty /\ paper'[i].filled \in 0..Qty
      /\ paper'[i].remaining \in 0..Qty /\ booked[i] \in 0..Qty
  BY DEF JournalTypes, RowOK, PaperRow
<1>3. paper'[i].filled + paper'[i].remaining = Qty \/ paper'[i].remaining = 0
  BY DEF RowOK
<1>4. /\ order'[i] \in {"CANCEL_PENDING", "FILLED", "LIVE", "PARTIALLY_FILLED"}
      /\ paper'[i].state \in RestingState => order'[i] \in ReconciledOrderState
  BY <1>1 DEF CoreState, RestingState, ReconciledOrderState
<1>5. OrderOK(i)'
  BY <1>4 DEF OrderOK, ReconciledOrderState
<1>6. LinkedTrades(i)' = LinkedTrades(i) \cup {e}
  BY DEF LinkedTrades
<1>7. /\ booked[i] <= paper[i].filled /\ LinkedTrades(i) \subseteq paper[i].trades
      /\ paper[i].trades \subseteq LinkedTrades(i) => booked[i] >= paper[i].filled
  BY DEF FillsOK
<1>8. ~(LocalFilled(i)' < paper'[i].filled)
  BY <1>2, <1>3 DEF LocalFilled
<1>9. /\ booked'[i] <= paper'[i].filled /\ booked'[i] >= booked[i] /\ booked'[i] \in 0..Qty
      /\ booked'[i] + remaining'[i] <= Qty
      /\ booked[i] >= paper[i].filled => booked'[i] >= paper'[i].filled
  BY <1>1, <1>2, <1>3, <1>7
<1>10. paper'[i].trades \subseteq LinkedTrades(i)' => booked'[i] >= paper'[i].filled
  <2>1. paper'[i].trades \subseteq LinkedTrades(i)' => paper[i].trades \subseteq LinkedTrades(i)
    BY <1>1, <1>6
  <2> QED BY <1>7, <1>9, <2>1
<1>11. LinkedTrades(i)' \subseteq paper'[i].trades /\ paper'[i].trades # {}
  BY <1>1, <1>6, <1>7
<1>12. FillsOK(i)'
  BY <1>8, <1>9, <1>10, <1>11 DEF FillsOK
<1>13. ASSUME SnapOK(i), RowBelow(run.snap[i], paper[i]) PROVE SnapOK(i)'
  <2>1. run.snap[i].trades \subseteq paper[i].trades /\ run.snap[i].filled \in 0..Qty
    BY <1>13 DEF RowBelow, PaperRow
  <2>2. run.snap[i].trades \subseteq LinkedTrades(i)'
          => run.snap[i].trades \subseteq LinkedTrades(i)
    BY <1>6, <2>1
  <2>3. run.snap[i].trades \subseteq LinkedTrades(i)' => booked'[i] >= run.snap[i].filled
    BY <1>2, <1>9, <1>13, <2>1, <2>2 DEF SnapOK
  <2> QED BY <1>8, <2>3 DEF SnapOK
<1> QED BY <1>2, <1>4, <1>5, <1>9, <1>12, <1>13 DEF OrderState, EarlyState

\* MissedOrder: a fill of an order that the journal does not know yet is not booked.
LEMMA MissedOrder ==
  ASSUME NEW i \in Intents, OrderOK(i), FillsOK(i), UNCHANGED <<request, run>>,
         paper[i] \in PaperRow, paper'[i] \in PaperRow, NEW e, Moved(e, paper[i], paper'[i]),
         paper'[i] # paper[i], order[i] \in {"SUBMITTING", "UNKNOWN"},
         order'[i] = order[i], intent'[i] = intent[i], venueOrderId'[i] = venueOrderId[i],
         remaining'[i] = remaining[i], tradeIds'[i] = tradeIds[i], booked'[i] = booked[i]
  PROVE  OrderOK(i)' /\ FillsOK(i)' /\ (SnapOK(i) => SnapOK(i)')
<1>1. /\ paper'[i].filled > paper[i].filled /\ paper'[i].trades = paper[i].trades \cup {e}
      /\ paper[i].filled \in 0..Qty /\ paper'[i].filled \in 0..Qty
  BY DEF Moved, PaperRow
<1>2. remaining[i] = Qty /\ booked[i] = 0 /\ tradeIds[i] = {}
  BY DEF OrderOK
<1>3. OrderOK(i)'
  BY DEF OrderOK
<1>4. LinkedTrades(i) = {} /\ LinkedTrades(i)' = {} /\ LocalFilled(i)' = 0
  BY <1>2 DEF LinkedTrades, LocalFilled
<1>5. FillsOK(i)'
  BY <1>1, <1>2, <1>4 DEF FillsOK
<1>6. SnapOK(i) => SnapOK(i)'
  BY <1>4 DEF SnapOK
<1> QED BY <1>3, <1>5, <1>6

\* ReceiveTradeKeeps: a trade of the market stream fills resting orders in the ledger
\* while every task stands between two of its steps.
LEMMA ReceiveTradeKeeps == ASSUME PaperInv, ReceiveTrade PROVE PaperInv'
<1>1. LedgerInv' /\ UNCHANGED <<rigid, request, sub, run, cancel>>
  BY TradeMoves DEF rigid
<1>0. PICK e \in TradeId :
        /\ \A i \in Intents : Moved(e, paper[i], paper'[i]) /\ e \notin paper[i].trades
        /\ \E s : s.paper = paper' /\ CoreFill(e, s)
  BY TradeMoves
<1>2. PICK s :
        /\ \A i \in Intents : Moved(e, paper[i], paper'[i]) /\ e \notin paper[i].trades
        /\ s.paper = paper' /\ CoreFill(e, s)
  BY <1>0
<1>3. /\ paper \in [Intents -> PaperRow] /\ paper' \in [Intents -> PaperRow]
      /\ JournalTypes /\ SubOK /\ RunOK /\ CancelOK
      /\ \A i \in Intents : RowOK(i, paper[i])'
  BY <1>1 DEF PaperInv, LedgerInv, PaperTypeOK, JournalInv
<1>4. \A i \in Intents : RowOK(i, paper'[i])
  BY <1>1, <1>3 DEF RowOK, Priced, IsBuy
<1>5. \A i \in Intents : /\ Grows(paper[i], paper'[i])
                         /\ e \in paper'[i].trades <=> paper'[i] # paper[i]
  BY <1>2, <1>3, MovedGrows
<1> DEFINE hit == {i \in Intents : e \in s.paper[i].trades /\ CoreFollows(i)}
<1>6. /\ order' = [i \in Intents |-> IF i \in hit THEN CoreState(i, s.paper[i].state)
                                                  ELSE order[i]]
      /\ remaining' = [i \in Intents |-> IF i \in hit THEN s.paper[i].remaining
                                                      ELSE remaining[i]]
      /\ tradeIds' = [i \in Intents |-> IF i \in hit THEN tradeIds[i] \cup {{e}}
                                                     ELSE tradeIds[i]]
      /\ booked' = [i \in Intents |->
           IF i \in hit THEN booked[i] + s.paper[i].filled - paper[i].filled ELSE booked[i]]
      /\ UNCHANGED <<intent, venueOrderId>>
  BY <1>2 DEF CoreFill
<1>7. \A i \in Intents : i \in hit <=> paper'[i] # paper[i] /\ CoreFollows(i)
  BY <1>2, <1>5
<1> HIDE DEF hit
<1>8. ASSUME NEW i \in Intents
      PROVE  /\ i \in hit =>
                  /\ order'[i] = CoreState(i, paper'[i].state)
                  /\ remaining'[i] = paper'[i].remaining
                  /\ tradeIds'[i] = tradeIds[i] \cup {{e}}
                  /\ booked'[i] = booked[i] + paper'[i].filled - paper[i].filled
             /\ i \notin hit =>
                  /\ order'[i] = order[i] /\ remaining'[i] = remaining[i]
                  /\ tradeIds'[i] = tradeIds[i] /\ booked'[i] = booked[i]
  BY <1>2, <1>6
<1>9. ASSUME NEW i \in Intents
      PROVE  /\ OrderOK(i)' /\ FillsOK(i)' /\ (i \in DOMAIN run.snap => SnapOK(i)')
             /\ order'[i] \in OrderState \cup {"ABSENT"}
             /\ remaining'[i] \in 0..Qty /\ booked'[i] \in 0..Qty
             /\ tradeIds'[i] \in SUBSET SUBSET TradeId
             /\ order'[i] # order[i] => order[i] \notin EarlyState /\ order'[i] \notin EarlyState
  <2>1. /\ OrderOK(i) /\ FillsOK(i)
        /\ i \in DOMAIN run.snap => SnapOK(i) /\ RowBelow(run.snap[i], paper[i])
        /\ paper[i] \in PaperRow /\ paper'[i] \in PaperRow
    BY <1>3 DEF PaperInv, JournalInv, RunOK
  <2>2. /\ order[i] \in OrderState \cup {"ABSENT"} /\ remaining[i] \in 0..Qty
        /\ booked[i] \in 0..Qty /\ tradeIds[i] \in SUBSET SUBSET TradeId
        /\ tradeIds[i] \cup {{e}} \in SUBSET SUBSET TradeId
    BY <1>3 DEF JournalTypes
  <2>3. CASE paper'[i] = paper[i]
    <3>1. i \notin hit
      BY <1>7, <2>3
    <3>2. OrderOK(i)' /\ FillsOK(i)' /\ (i \in DOMAIN run.snap => SnapOK(i)')
      BY <1>1, <1>6, <1>8, <2>1, <2>3, <3>1, OrderSame
    <3> QED BY <1>8, <2>2, <3>1, <3>2
  <2>4. CASE paper'[i] # paper[i] /\ order[i] \in ReconciledOrderState
    <3>1. i \in hit
      BY <1>7, <2>1, <2>4 DEF CoreFollows, OrderOK
    <3>2. /\ OrderOK(i)' /\ FillsOK(i)' /\ booked'[i] \in 0..Qty /\ remaining'[i] \in 0..Qty
          /\ order'[i] \in OrderState \ EarlyState
          /\ SnapOK(i) /\ RowBelow(run.snap[i], paper[i]) => SnapOK(i)'
      <4>1. RowOK(i, paper'[i]) /\ Moved(e, paper[i], paper'[i]) /\ e \notin paper[i].trades
        BY <1>2, <1>4
      <4>2. intent'[i] = intent[i] /\ venueOrderId'[i] = venueOrderId[i]
        BY <1>6
      <4> QED BY <1>1, <1>3, <1>8, <2>1, <2>4, <3>1, <4>1, <4>2, HitOrder
    <3>3. order[i] \notin EarlyState
      BY <2>4 DEF ReconciledOrderState, EarlyState
    <3> QED BY <1>8, <2>1, <2>2, <3>1, <3>2, <3>3
  <2>5. CASE paper'[i] # paper[i] /\ order[i] \notin ReconciledOrderState
    <3>1. i \notin hit
      BY <1>7, <2>5 DEF CoreFollows
    <3>2. paper[i].state \in RestingState /\ Moved(e, paper[i], paper'[i])
      BY <1>2, <2>5 DEF Moved
    <3>3. order[i] \in {"SUBMITTING", "UNKNOWN"}
      BY <2>1, <2>5, <3>2 DEF OrderOK
    <3>4. OrderOK(i)' /\ FillsOK(i)' /\ (SnapOK(i) => SnapOK(i)')
      BY <1>1, <1>6, <1>8, <2>1, <2>5, <3>1, <3>2, <3>3, MissedOrder
    <3> QED BY <1>8, <2>1, <2>2, <3>1, <3>4
  <2> QED BY <2>3, <2>4, <2>5
<1>10. NoSubmission
  BY <1>9 DEF NoSubmission
<1>11. JournalTypes'
  <2>1. /\ order' = [i \in Intents |-> order'[i]] /\ remaining' = [i \in Intents |-> remaining'[i]]
        /\ booked' = [i \in Intents |-> booked'[i]]
        /\ tradeIds' = [i \in Intents |-> tradeIds'[i]]
    BY <1>6
  <2> QED BY <1>3, <1>6, <1>9, <2>1 DEF JournalTypes
<1>12. SubOK' /\ RunOK' /\ CancelOK'
  BY <1>1, <1>3, <1>5, <1>10, SubKept, RunKept, CancelKept
<1> QED BY <1>1, <1>9, <1>11, <1>12 DEF PaperInv, JournalInv, RunOK

-----------------------------------------------------------------------------
(* Theorems                                                                *)

\* PaperInitial: the invariant holds before the account is opened.
LEMMA PaperInitial == PaperInit => PaperInv
<1> SUFFICES ASSUME PaperInit PROVE PaperInv
  OBVIOUS
<1>1. /\ LedgerInv /\ \A i \in Intents : paper[i] = NoRow
      /\ sub = IdleSub /\ run = IdleRun /\ cancel = IdleCancel
  BY LedgerInitial DEF PaperInit, LedgerInit
<1>2. /\ intent = Prepared("PREPARED") /\ order = Prepared("PREPARED")
      /\ venueOrderId = [i \in Intents |-> FALSE] /\ remaining = [i \in Intents |-> Qty]
      /\ tradeIds = [i \in Intents |-> {}] /\ booked = [i \in Intents |-> 0]
  BY DEF PaperInit
<1>3. JournalTypes
  <2>1. "PREPARED" \in OrderState \cap IntentState
    BY DEF OrderState, IntentState
  <2>2. /\ order \in [Intents -> OrderState \cup {"ABSENT"}]
        /\ intent \in [Intents -> IntentState \cup {"ABSENT"}]
    BY <1>2, <2>1 DEF Prepared
  <2>3. /\ venueOrderId \in [Intents -> BOOLEAN] /\ remaining \in [Intents -> 0..Qty]
        /\ booked \in [Intents -> 0..Qty] /\ tradeIds \in [Intents -> SUBSET SUBSET TradeId]
    BY <1>2
  <2> QED BY <2>2, <2>3 DEF JournalTypes
<1>4. ASSUME NEW i \in Intents PROVE OrderOK(i) /\ FillsOK(i) /\ order[i] # "SUBMITTING"
  <2>1. /\ order[i] = IF i \in DOMAIN request THEN "PREPARED" ELSE "ABSENT"
        /\ intent[i] = order[i] /\ remaining[i] = Qty /\ booked[i] = 0 /\ tradeIds[i] = {}
    BY <1>2 DEF Prepared
  <2>2. NoRow.state = "ABSENT" /\ NoRow.filled = 0 /\ NoRow.trades = {}
    BY DEF NoRow
  <2>3. OrderOK(i)
    BY <1>1, <2>1, <2>2 DEF OrderOK, ReconciledOrderState, RestingState
  <2>4. FillsOK(i)
    BY <1>1, <2>1, <2>2 DEF FillsOK, LinkedTrades, LocalFilled
  <2> QED BY <2>1, <2>3, <2>4
<1>5. SubOK
  BY <1>1, <1>4 DEF SubOK, IdleSub
<1>6. RunOK /\ CancelOK /\ DOMAIN run.snap = {}
  BY <1>1 DEF RunOK, CancelOK, IdleRun, IdleCancel
<1> QED BY <1>1, <1>3, <1>4, <1>5, <1>6 DEF PaperInv, JournalInv

\* PaperStep: every step keeps the invariant.
LEMMA PaperStep == PaperInv /\ [PaperNext]_paperVars => PaperInv'
<1> SUFFICES ASSUME PaperInv, [PaperNext]_paperVars PROVE PaperInv'
  OBVIOUS
<1>1. CASE UNCHANGED paperVars
  <2>1. UNCHANGED <<storeVars, rigid, ledgerVars, sub, run, cancel>>
    BY <1>1 DEF paperVars, taskVars
  <2>2. LedgerInv'
    BY <2>1, LedgerUntouched DEF PaperInv
  <2>3. UNCHANGED <<storeVars, rigid, paper, sub, run, cancel>>
    BY <2>1 DEF ledgerVars
  <2>4. SubOK' /\ RunOK' /\ CancelOK'
    BY <2>3, StoreStill, SubKept, RunKept, CancelKept DEF PaperInv, JournalInv
  <2>5. \A i \in DOMAIN run'.snap : SnapOK(i)'
    BY <2>3, StoreStill DEF PaperInv, JournalInv, RunOK
  <2> QED BY <2>2, <2>3, <2>4, <2>5, StoreStill DEF PaperInv, JournalInv
<1>2. CASE RunStep
  BY <1>2, StartRunKeeps, ReadLocalKeeps, ProjectKeeps, LookupKeeps, ResolveKeeps,
     FinishRunKeeps DEF RunStep
<1>3. CASE CancelTask
  BY <1>3, BeginCancelKeeps, MarkCancelKeeps, CancelPaperKeeps, CommitCancelKeeps
  DEF CancelTask
<1>4. CASE OpenAccount \/ ReceiveTrade \/ Restart
  BY <1>4, OpenKeeps, ReceiveTradeKeeps, RestartKeeps
<1>5. CASE (\E i \in Intents : BeginSubmit(i)) \/ Submit \/ FinishSubmit
  BY <1>5, BeginSubmitKeeps, SubmitKeeps, FinishSubmitKeeps
<1> QED BY <1>1, <1>2, <1>3, <1>4, <1>5 DEF PaperNext

\* PaperInvariant: the ledger and the journal keep their invariants.
THEOREM PaperInvariant == PaperSpec => []PaperInv
  BY PaperInitial, PaperStep, PTL DEF PaperSpec

\* PaperTypeCorrect: no balance, inventory or reservation ever becomes negative.
THEOREM PaperTypeCorrect == PaperSpec => []PaperTypeOK
<1>1. PaperInv => PaperTypeOK
  BY DEF PaperInv, LedgerInv
<1> QED BY <1>1, PaperInvariant, PTL

\* ReservationsAreExact: what is reserved is what the resting orders reserved, to the
\* last unit, for any orders, prices, fees and trades (ReservationsBacked): the clamps
\* at zero never hide a drift.
THEOREM ReservationsAreExact == PaperSpec => []ReservationsBacked
<1>1. PaperInv => ReservationsBacked
  BY LedgerFinish DEF PaperInv
<1> QED BY <1>1, PaperInvariant, PTL

\* CashIsConserved: every unit of cash and every share is accounted for by the
\* configuration and the fills on the orders (LedgerConserves).
THEOREM CashIsConserved == PaperSpec => []LedgerConserves
<1>1. PaperInv => LedgerConserves
  BY LedgerFinish DEF PaperInv
<1> QED BY <1>1, PaperInvariant, PTL

\* TradesAreAlwaysCovered: no trade can overdraw the account, so no transaction of a
\* trade-through fails for that reason (NeverOverdrawn).
THEOREM TradesAreAlwaysCovered == PaperSpec => []NeverOverdrawn
<1>1. PaperInv => NeverOverdrawn
  BY LedgerFinish DEF PaperInv
<1> QED BY <1>1, PaperInvariant, PTL

\* LimitsAreRespected: no order trades beyond its price (PriceProtected).
THEOREM LimitsAreRespected == PaperSpec => []PriceProtected
<1>1. PaperInv => PriceProtected
  BY LedgerFinish DEF PaperInv
<1> QED BY <1>1, PaperInvariant, PTL

\* PaperFillsAreReal: the journal never books more than the ledger filled, through
\* whichever of its five ways a fill arrives (PaperFillsBookedOnce).
THEOREM PaperFillsAreReal == PaperSpec => []PaperFillsBookedOnce
<1>1. PaperInv => PaperFillsBookedOnce
  BY DEF PaperInv, JournalInv, FillsOK, PaperFillsBookedOnce
<1> QED BY <1>1, PaperInvariant, PTL

\* PaperOrdersAreRemembered: an order that rests in the ledger is open in the journal
\* (NoForgottenPaperOrder).
THEOREM PaperOrdersAreRemembered == PaperSpec => []NoForgottenPaperOrder
<1>1. PaperInv => NoForgottenPaperOrder
  BY DEF PaperInv, JournalInv, OrderOK, NoForgottenPaperOrder, Resting
<1> QED BY <1>1, PaperInvariant, PTL

\* CleanRunsAreProofs: a reconciliation that reports no finding has every fill it saw
\* in the journal (CleanRunBooksFills).
THEOREM CleanRunsAreProofs == PaperSpec => CleanRunBooksFills
<1> DEFINE Clean == run.at = "lookup" /\ run' = IdleRun /\ ~critical' =>
                      \A i \in DOMAIN run.snap : booked[i] >= run.snap[i].filled
<1>1. ASSUME PaperInv, [PaperNext]_paperVars PROVE [Clean]_paperVars
  <2> SUFFICES ASSUME PaperNext, run.at = "lookup", run' = IdleRun, ~critical',
                      NEW i \in DOMAIN run.snap
               PROVE  booked[i] >= run.snap[i].filled
    BY <1>1
  <2>1. sub.at = "idle" /\ run' # run /\ run'.at = "idle"
    BY <1>1, TasksIdle DEF IdleRun
  <2>2. FinishRun
    <3>1. ~OpenAccount /\ ~ReceiveTrade /\ ~Restart
      BY <2>1 DEF OpenAccount, ReceiveTrade, Restart, taskVars
    <3>2. ~(\E j \in Intents : BeginSubmit(j)) /\ ~Submit /\ ~FinishSubmit
      BY <2>1 DEF BeginSubmit, Submit, FinishSubmit
    <3>3. ~CancelTask
      BY <2>1 DEF CancelTask, BeginCancel, MarkCancel, CancelPaper, CommitCancel
    <3>4. ~StartRun /\ ~ReadLocal /\ ~Project /\ ~Resolve
      BY DEF StartRun, ReadLocal, Project, Resolve
    <3>5. ~LookupUnknown
      <4> SUFFICES ASSUME LookupUnknown PROVE FALSE
        OBVIOUS
      <4>1. RunOK
        BY <1>1 DEF PaperInv, JournalInv
      <4>2. PICK j \in run.todo :
              run' = IF paper[j] = NoRow
                       THEN [run EXCEPT !.todo = @ \ {j}, !.bad = TRUE]
                       ELSE [run EXCEPT !.todo = @ \ {j}, !.at = "resolve", !.cur = j,
                                        !.snap = [k \in DOMAIN @ \cup {j} |->
                                                    IF k = j THEN paper[j] ELSE @[k]]]
        BY DEF LookupUnknown
      <4>3. run'.at \in {"lookup", "resolve"}
        BY <4>1, <4>2 DEF RunOK
      <4> QED BY <2>1, <4>3
    <3> QED BY <3>1, <3>2, <3>3, <3>4, <3>5 DEF PaperNext, RunStep
  <2>3. UnlinkedTrades = {}
    BY <2>2 DEF FinishRun
  <2>4. run.snap[i].trades \subseteq LinkedTrades(i)
    BY <2>3 DEF UnlinkedTrades, Linked, LinkedTrades
  <2> QED BY <1>1, <2>4 DEF PaperInv, JournalInv, SnapOK
<1> QED BY <1>1, PaperInvariant, PTL DEF PaperSpec, CleanRunBooksFills

-----------------------------------------------------------------------------
(* The paper venue implements the venue the coordinator expects            *)

\* How a row of the ledger may change in one step.
RowMove(old, new) ==
  \/ new = old
  \/ /\ old = NoRow /\ new.state \in {"LIVE", "FILLED", "CANCELLED"}
     /\ new.state = "LIVE" => new.filled = 0
     /\ new.state = "FILLED" => new.filled > 0
  \/ /\ old.state \in RestingState /\ new.state \in RestingState \cup {"FILLED"}
     /\ new.filled > old.filled /\ (new.state = "FILLED" <=> new.filled = Qty)
  \/ old.state \in RestingState /\ new.state = "CANCELLED" /\ new.filled = old.filled

\* RowMoves: every step changes every row in one of these ways.
LEMMA RowMoves ==
  ASSUME PaperInv, [PaperNext]_paperVars, NEW o \in Intents
  PROVE  RowMove(paper[o], paper'[o])
<1>1. ASSUME UNCHANGED paper PROVE RowMove(paper[o], paper'[o])
  BY <1>1 DEF RowMove
<1>2. CASE ReceiveTrade
  BY <1>2, TradeMoves DEF Moved, RowMove
<1>3. CASE CancelPaper
  <2>1. cancel.intent \in Intents /\ UNCHANGED rigid /\ LedgerInv
    BY <1>3 DEF PaperInv, JournalInv, CancelOK, CancelPaper
  <2>2. PICK i \in Intents : i = cancel.intent
    BY <2>1
  <2>3. CASE cancel_paper_order(i)
    <3>1. /\ paper'[i] # paper[i] =>
               /\ paper[i].state \in RestingState /\ paper'[i].state = "CANCELLED"
               /\ paper'[i].filled = paper[i].filled
          /\ \A j \in Intents \ {i} : paper'[j] = paper[j]
      BY <2>1, <2>3, CancelKeepsLedger
    <3> QED BY <3>1 DEF RowMove
  <2> QED BY <1>1, <1>3, <2>2, <2>3 DEF CancelPaper, ledgerVars
<1>4. CASE Submit
  <2>1. PICK i \in Intents : i = sub.intent /\ i \in DOMAIN request
    BY <1>4 DEF PaperInv, JournalInv, SubOK, OrderOK, Submit
  <2>2. CASE UNCHANGED ledgerVars
    BY <1>1, <2>2 DEF ledgerVars
  <2>3. ASSUME NEW row \in PaperRows(request[i]), commit_paper_order(i, row)
        PROVE  RowMove(paper[o], paper'[o])
    <3>1. /\ row.state \in {"LIVE", "FILLED", "CANCELLED"}
          /\ row.state = "LIVE" => row.filled = 0
          /\ row.state = "FILLED" => row.filled > 0
      BY <2>1, <2>3, NewRows DEF PaperInv, LedgerInv
    <3>2. paper' = [paper EXCEPT ![i] = row] /\ paper[i] = NoRow
      BY <2>3 DEF commit_paper_order
    <3>3. paper \in [Intents -> PaperRow]
      BY DEF PaperInv, LedgerInv, PaperTypeOK
    <3>4. paper'[i] = row /\ \A j \in Intents \ {i} : paper'[j] = paper[j]
      BY <3>2, <3>3
    <3> QED BY <3>1, <3>2, <3>4 DEF RowMove
  <2> QED BY <1>4, <2>1, <2>2, <2>3 DEF Submit
<1>5. CASE OpenAccount \/ (\E i \in Intents : BeginSubmit(i)) \/ FinishSubmit \/ Restart
  BY <1>1, <1>5 DEF OpenAccount, initialize_paper_account, BeginSubmit, FinishSubmit, Restart,
                    ledgerVars
<1>6. CASE RunStep
  BY <1>1, <1>6 DEF RunStep, StartRun, ReadLocal, Project, LookupUnknown, Resolve, FinishRun,
                    ledgerVars
<1>7. CASE (\E i \in Intents : BeginCancel(i)) \/ MarkCancel \/ CommitCancel
  BY <1>1, <1>7 DEF BeginCancel, MarkCancel, CommitCancel, ledgerVars
<1>8. CASE UNCHANGED paperVars
  BY <1>1, <1>8 DEF paperVars, ledgerVars
<1> QED BY <1>2, <1>3, <1>4, <1>5, <1>6, <1>7, <1>8 DEF PaperNext, CancelTask

\* VenueStep: a step of paper trading is a step of the contract.
LEMMA VenueStep ==
  PaperInv /\ [PaperNext]_paperVars => [Venue!ContractNext]_(Venue!venueContractVars)
<1> SUFFICES ASSUME PaperInv, [PaperNext]_paperVars PROVE Venue!ContractNext
  OBVIOUS
<1> DEFINE State(row) == IF row = NoRow THEN "none"
                         ELSE IF row.state \in RestingState THEN "LIVE" ELSE row.state
           lot == [i \in Intents |-> paper[i].filled]
<1>1. PaperInv'
  BY PaperStep
<1>2. /\ \A i \in Intents : PaperVenueState[i] = State(paper[i]) /\ lot[i] = paper[i].filled
      /\ \A i \in Intents : PaperVenueState'[i] = State(paper'[i]) /\ lot'[i] = paper'[i].filled
      /\ DOMAIN PaperVenueState' = Intents /\ DOMAIN lot' = Intents
  BY DEF PaperVenueState, Resting
<1>3. ASSUME NEW o \in Intents
      PROVE  \/ Venue!InTransit(o) \/ Venue!Arrives(o) \/ Venue!Matches(o)
             \/ Venue!Cancels(o) \/ Venue!Stays(o)
  <2> DEFINE old == paper[o]
             new == paper'[o]
  <2>1. /\ old \in PaperRow /\ new \in PaperRow /\ RowMove(old, new)
        /\ RowOK(o, old)
    BY <1>1, RowMoves DEF PaperInv, LedgerInv, PaperTypeOK
  <2>2. /\ PaperVenueState[o] = State(old) /\ PaperVenueState'[o] = State(new)
        /\ lot[o] = old.filled /\ lot'[o] = new.filled
    BY <1>2
  <2>3. old.filled \in 0..Qty /\ new.filled \in 0..Qty /\ NoRow.state = "ABSENT"
    BY <2>1 DEF PaperRow, NoRow
  <2> HIDE DEF old, new, lot
  <2>4. CASE new = old
    BY <2>2, <2>4 DEF Venue!Stays, lot
  <2>5. CASE /\ old = NoRow /\ new.state \in {"LIVE", "FILLED", "CANCELLED"}
             /\ new.state = "LIVE" => new.filled = 0
             /\ new.state = "FILLED" => new.filled > 0
    <3>1. State(old) = "none" /\ State(new) = new.state
      BY <2>3, <2>5 DEF RestingState
    <3> HIDE DEF State
    <3>2. Venue!Arrives(o)
      BY <2>2, <2>3, <2>5, <3>1 DEF Venue!Arrives, lot
    <3> QED BY <3>2
  <2>6. CASE /\ old.state \in RestingState /\ new.state \in RestingState \cup {"FILLED"}
             /\ new.filled > old.filled /\ (new.state = "FILLED" <=> new.filled = Qty)
    <3>1. /\ State(old) = "LIVE"
          /\ State(new) = IF new.filled = Qty THEN "FILLED" ELSE "LIVE"
      BY <2>3, <2>6 DEF RestingState
    <3>2. new.filled \in (old.filled + 1)..Qty
      BY <2>3, <2>6
    <3> HIDE DEF State
    <3>3. Venue!Matches(o)
      BY <2>2, <3>1, <3>2 DEF Venue!Matches, lot
    <3> QED BY <3>3
  <2>7. CASE old.state \in RestingState /\ new.state = "CANCELLED" /\ new.filled = old.filled
    <3>1. State(old) = "LIVE" /\ State(new) = "CANCELLED"
      BY <2>3, <2>7 DEF RestingState
    <3> HIDE DEF State
    <3>2. Venue!Cancels(o)
      BY <2>2, <2>7, <3>1 DEF Venue!Cancels, lot
    <3> QED BY <3>2
  <2> QED BY <2>1, <2>4, <2>5, <2>6, <2>7 DEF RowMove
<1> QED BY <1>2, <1>3 DEF Venue!ContractNext, lot

\* PaperVenueKeepsContract: the paper venue, with its streams, its cancellations and
\* its restarts, implements VenueContract (PaperImplementsVenue).
THEOREM PaperVenueKeepsContract == PaperSpec => PaperImplementsVenue
<1>1. PaperInit => Venue!ContractInit
  <2> SUFFICES ASSUME PaperInit PROVE Venue!ContractInit
    OBVIOUS
  <2>1. paper = [i \in Intents |-> NoRow]
    BY DEF PaperInit, LedgerInit
  <2>2. \A i \in Intents : paper[i] = NoRow /\ paper[i].filled = 0
    BY <2>1 DEF NoRow
  <2>3. PaperVenueState = [i \in Intents |-> "none"]
    BY <2>2 DEF PaperVenueState
  <2> QED BY <2>2, <2>3 DEF Venue!ContractInit
<1> QED BY <1>1, VenueStep, PaperInvariant, PTL
        DEF PaperSpec, PaperImplementsVenue, Venue!ContractSpec
=============================================================================
