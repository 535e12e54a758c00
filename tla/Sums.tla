------------------------------- MODULE Sums --------------------------------
(***************************************************************************)
(* Sums over finite sets, as the counters of bytes need them: what the     *)
(* fold of FiniteSetsExt adds up, element by element.  The recursion of    *)
(* that fold ends because the numbers are well-founded.                    *)
(***************************************************************************)
EXTENDS Integers, FiniteSetsExt, FiniteSetTheorems, WellFoundedInduction, TLAPS

\* The sum of g over a set.
SumOf(g, S) == MapThenSumSet(LAMBDA x : g[x], S)

-----------------------------------------------------------------------------
(* Induction                                                                *)

\* A set that has 0, and with a number the next one, has all natural numbers: there
\* would be a least one that it has not.
LEMMA NumbersInduct ==
    ASSUME NEW T, 0 \in T, \A n \in Nat : n \in T => n + 1 \in T
    PROVE Nat \subseteq T
<1> DEFINE R == OpToRel(<, Nat)
           Rest == Nat \ T
<1> SUFFICES ASSUME Rest # {} PROVE FALSE
    OBVIOUS
<1>1. IsWellFoundedOn(R, Nat)
    BY NatLessThanWellFounded
<1>2. \A x, y \in Nat : x < y => <<x, y>> \in R
    BY DEF OpToRel
<1>3. Rest \subseteq Nat
    OBVIOUS
<1> HIDE DEF R, Rest
<1>4. PICK least \in Rest : \A y \in Rest : ~(<<y, least>> \in R)
    BY <1>1, <1>3, WFMin
<1> USE DEF Rest
<1>5. least \in Nat /\ least # 0
    BY <1>4
<1>6. least - 1 \in Nat /\ least - 1 < least /\ least = (least - 1) + 1
    BY <1>5
<1>7. least - 1 \notin Rest
    BY <1>2, <1>4, <1>5, <1>6
<1> QED
    BY <1>4, <1>6, <1>7

\* A set of sets that has each subset of S all of whose parts without one element it has,
\* has all subsets of S.
LEMMA SetsInduct ==
    ASSUME NEW S, IsFiniteSet(S), NEW T,
           \A A \in SUBSET S : (\A x \in A : A \ {x} \in T) => A \in T
    PROVE SUBSET S \subseteq T
<1> DEFINE Small(n) == {A \in SUBSET S : Cardinality(A) <= n}
           N == {n \in Nat : Small(n) \subseteq T}
<1>1. \A A \in SUBSET S : IsFiniteSet(A) /\ Cardinality(A) \in Nat
    BY FS_Subset, FS_CardinalityType
<1>2. \A A \in SUBSET S : Cardinality(A) = 0 => A = {}
    BY <1>1, FS_EmptySet
<1>3. 0 \in N
  <2> SUFFICES ASSUME NEW A \in Small(0) PROVE A \in T
      OBVIOUS
  <2>1. A = {}
      BY <1>1, <1>2
  <2> QED
      BY <2>1
<1>4. ASSUME NEW n \in Nat, n \in N PROVE n + 1 \in N
  <2> SUFFICES ASSUME NEW A \in Small(n + 1) PROVE A \in T
      OBVIOUS
  <2>1. ASSUME NEW x \in A PROVE A \ {x} \in T
    <3>1. Cardinality(A \ {x}) = Cardinality(A) - 1
        BY <1>1, FS_RemoveElement
    <3>2. A \ {x} \in Small(n)
        BY <1>1, <3>1
    <3> QED
        BY <1>4, <3>2
  <2> QED
      BY <2>1
<1>5. Nat \subseteq N
  <2> HIDE DEF N
  <2> QED
      BY <1>3, <1>4, NumbersInduct
<1> SUFFICES ASSUME NEW A \in SUBSET S PROVE A \in T
    OBVIOUS
<1>6. Cardinality(A) \in Nat /\ A \in Small(Cardinality(A))
    BY <1>1
<1> QED
    BY <1>5, <1>6

-----------------------------------------------------------------------------
(* The fold                                                                 *)

Chosen(s) == CHOOSE x \in s : TRUE
\* The function that a fold over sets of D computes.
Folded(f, g, D) == f = [s \in D |-> IF s = {} THEN 0 ELSE g[Chosen(s)] + f[s \ {Chosen(s)}]]

LEMMA SumIsFold == ASSUME NEW g, NEW S PROVE SumOf(g, S) = (CHOOSE f : Folded(f, g, SUBSET S))[S]
    BY DEF SumOf, MapThenSumSet, MapThenFoldSet, Folded, Chosen

LEMMA ChosenIsIn == \A s : s # {} => Chosen(s) \in s
    BY DEF Chosen

LEMMA FoldExists == ASSUME NEW g, NEW S, IsFiniteSet(S) PROVE \E f : Folded(f, g, SUBSET S)
<1> DEFINE Small(n) == {A \in SUBSET S : Cardinality(A) <= n}
           N == {n \in Nat : \E f : Folded(f, g, Small(n))}
<1>1. \A A \in SUBSET S : IsFiniteSet(A) /\ Cardinality(A) \in Nat /\ Cardinality(A) <= Cardinality(S)
    BY FS_Subset, FS_CardinalityType
<1>2. \A A \in SUBSET S : Cardinality(A) = 0 <=> A = {}
    BY <1>1, FS_EmptySet
<1>3. 0 \in N
  <2> DEFINE f == [s \in Small(0) |-> 0]
  <2>1. \A s \in Small(0) : s = {}
      BY <1>1, <1>2
  <2>2. Folded(f, g, Small(0))
      BY <2>1 DEF Folded
  <2> HIDE DEF f
  <2> QED
      BY <2>2
<1>4. ASSUME NEW n \in Nat, n \in N PROVE n + 1 \in N
  <2>1. PICK f : Folded(f, g, Small(n))
      BY <1>4
  <2> DEFINE h == [s \in Small(n + 1) |-> IF s = {} THEN 0 ELSE g[Chosen(s)] + f[s \ {Chosen(s)}]]
  <2>2. \A s \in Small(n) : s \in Small(n + 1) /\ h[s] = f[s]
    <3>1. \A s \in Small(n) : f[s] = IF s = {} THEN 0 ELSE g[Chosen(s)] + f[s \ {Chosen(s)}]
        BY <2>1 DEF Folded
    <3>2. \A s \in Small(n) : s \in Small(n + 1)
        BY <1>1
    <3> HIDE DEF Small
    <3> QED
        BY <3>1, <3>2
  <2>3. ASSUME NEW s \in Small(n + 1), s # {} PROVE s \ {Chosen(s)} \in Small(n)
    <3>1. Cardinality(s \ {Chosen(s)}) = Cardinality(s) - 1
        BY <1>1, <2>3, ChosenIsIn, FS_RemoveElement
    <3> QED
        BY <1>1, <3>1
  <2>4. Folded(h, g, Small(n + 1))
    <3>1. ASSUME NEW s \in Small(n + 1)
          PROVE h[s] = IF s = {} THEN 0 ELSE g[Chosen(s)] + h[s \ {Chosen(s)}]
        BY <2>2, <2>3
    <3>2. h = [s \in Small(n + 1) |-> h[s]]
        OBVIOUS
    <3> HIDE DEF h
    <3> QED
        BY <3>1, <3>2 DEF Folded
  <2> HIDE DEF h, Small
  <2> QED
      BY <2>4
<1>5. Nat \subseteq N
  <2> HIDE DEF N
  <2> QED
      BY <1>3, <1>4, NumbersInduct
<1>6. Cardinality(S) \in Nat /\ Small(Cardinality(S)) = SUBSET S
    BY <1>1, FS_CardinalityType
<1> QED
    BY <1>5, <1>6

\* What is folded does not depend on the set the fold started with.
LEMMA FoldIsSum ==
    ASSUME NEW g, NEW S, IsFiniteSet(S), NEW f, Folded(f, g, SUBSET S)
    PROVE \A A \in SUBSET S : f[A] = SumOf(g, A)
<1> SUFFICES ASSUME NEW A \in SUBSET S PROVE f[A] = SumOf(g, A)
    OBVIOUS
<1> DEFINE h == CHOOSE h : Folded(h, g, SUBSET A)
           T == {B \in SUBSET A : f[B] = h[B]}
<1>1. IsFiniteSet(A)
    BY FS_Subset
<1>2. Folded(h, g, SUBSET A)
    BY <1>1, FoldExists
<1> HIDE DEF h
<1>3. ASSUME NEW B \in SUBSET A, \A x \in B : B \ {x} \in T PROVE B \in T
  <2>1. B # {} => Chosen(B) \in B
      BY ChosenIsIn
  <2>2. f[B] = IF B = {} THEN 0 ELSE g[Chosen(B)] + f[B \ {Chosen(B)}]
      BY DEF Folded
  <2>3. h[B] = IF B = {} THEN 0 ELSE g[Chosen(B)] + h[B \ {Chosen(B)}]
      BY <1>2 DEF Folded
  <2> QED
      BY <1>3, <2>1, <2>2, <2>3
<1>4. SUBSET A \subseteq T
  <2> HIDE DEF T
  <2> QED
      BY <1>1, <1>3, SetsInduct
<1> QED
    BY <1>4, SumIsFold DEF h

LEMMA SumUnfolds ==
    ASSUME NEW g, NEW S, IsFiniteSet(S)
    PROVE SumOf(g, S) = IF S = {} THEN 0 ELSE g[Chosen(S)] + SumOf(g, S \ {Chosen(S)})
<1>1. PICK f : Folded(f, g, SUBSET S)
    BY FoldExists
<1>2. f[S] = IF S = {} THEN 0 ELSE g[Chosen(S)] + f[S \ {Chosen(S)}]
    BY <1>1 DEF Folded
<1> QED
    BY <1>1, <1>2, FoldIsSum

-----------------------------------------------------------------------------
(* What sums are                                                            *)

THEOREM SumOfNothing == \A g : SumOf(g, {}) = 0
    BY SumUnfolds, FS_EmptySet

THEOREM SumsAreIntegers ==
    ASSUME NEW g, NEW S, IsFiniteSet(S), \A x \in S : g[x] \in Int
    PROVE SumOf(g, S) \in Int
<1> DEFINE T == {A \in SUBSET S : SumOf(g, A) \in Int}
<1>1. ASSUME NEW A \in SUBSET S, \A x \in A : A \ {x} \in T PROVE A \in T
  <2>1. SumOf(g, A) = IF A = {} THEN 0 ELSE g[Chosen(A)] + SumOf(g, A \ {Chosen(A)})
      BY FS_Subset, SumUnfolds
  <2> QED
      BY <1>1, <2>1, ChosenIsIn
<1> HIDE DEF T
<1>2. SUBSET S \subseteq T
    BY <1>1, SetsInduct
<1> QED
    BY <1>2 DEF T

\* Any element of the set can be added last.
THEOREM SumOfOneMore ==
    ASSUME NEW g, NEW S, IsFiniteSet(S), \A x \in S : g[x] \in Int, NEW a \in S
    PROVE SumOf(g, S) = g[a] + SumOf(g, S \ {a})
<1> DEFINE T == {A \in SUBSET S : \A x \in A : SumOf(g, A) = g[x] + SumOf(g, A \ {x})}
<1>1. ASSUME NEW A \in SUBSET S, \A x \in A : A \ {x} \in T PROVE A \in T
  <2> SUFFICES ASSUME NEW x \in A PROVE SumOf(g, A) = g[x] + SumOf(g, A \ {x})
      OBVIOUS
  <2> DEFINE c == Chosen(A)
  <2>1. c \in A /\ IsFiniteSet(A) /\ IsFiniteSet(A \ {x, c})
      BY ChosenIsIn, FS_Subset
  <2>2. SumOf(g, A) = g[c] + SumOf(g, A \ {c})
      BY <2>1, SumUnfolds
  <2> HIDE DEF c
  <2>3. CASE x = c
      BY <2>2, <2>3
  <2>4. CASE x # c
    <3>1. /\ x \in A \ {c} /\ c \in A \ {x}
          /\ (A \ {c}) \ {x} = A \ {x, c} /\ (A \ {x}) \ {c} = A \ {x, c}
        BY <2>1, <2>4
    <3>2. SumOf(g, A \ {c}) = g[x] + SumOf(g, A \ {x, c})
        BY <1>1, <2>1, <3>1
    <3>3. SumOf(g, A \ {x}) = g[c] + SumOf(g, A \ {x, c})
        BY <1>1, <2>1, <3>1
    <3>4. SumOf(g, A \ {x, c}) \in Int /\ g[x] \in Int /\ g[c] \in Int
        BY <2>1, SumsAreIntegers
    <3> QED
        BY <2>2, <3>2, <3>3, <3>4
  <2> QED
      BY <2>3, <2>4
<1> HIDE DEF T
<1>2. SUBSET S \subseteq T
    BY <1>1, SetsInduct
<1> QED
    BY <1>2 DEF T

\* What is smaller everywhere has the smaller sum.
THEOREM SumsCompare ==
    ASSUME NEW g, NEW h, NEW S, IsFiniteSet(S),
           \A x \in S : g[x] \in Int /\ h[x] \in Int /\ g[x] <= h[x]
    PROVE SumOf(g, S) <= SumOf(h, S)
<1> DEFINE T == {A \in SUBSET S : SumOf(g, A) <= SumOf(h, A)}
<1>1. ASSUME NEW A \in SUBSET S, \A x \in A : A \ {x} \in T PROVE A \in T
  <2>1. CASE A = {}
      BY <2>1, SumOfNothing
  <2>2. CASE A # {}
    <3>1. PICK c \in A : TRUE
        BY <2>2
    <3>2. IsFiniteSet(A) /\ IsFiniteSet(A \ {c})
        BY FS_Subset
    <3>3. /\ SumOf(g, A) = g[c] + SumOf(g, A \ {c}) /\ SumOf(h, A) = h[c] + SumOf(h, A \ {c})
          /\ SumOf(g, A \ {c}) \in Int /\ SumOf(h, A \ {c}) \in Int
        BY <3>2, SumOfOneMore, SumsAreIntegers
    <3> QED
        BY <1>1, <3>3
  <2> QED
      BY <2>1, <2>2
<1> HIDE DEF T
<1>2. SUBSET S \subseteq T
    BY <1>1, SetsInduct
<1> QED
    BY <1>2 DEF T

THEOREM SumOfZeros == ASSUME NEW g, NEW S, IsFiniteSet(S), \A x \in S : g[x] = 0 PROVE SumOf(g, S) = 0
<1> DEFINE T == {A \in SUBSET S : SumOf(g, A) = 0}
<1>1. ASSUME NEW A \in SUBSET S, \A x \in A : A \ {x} \in T PROVE A \in T
  <2>1. CASE A = {}
      BY <2>1, SumOfNothing
  <2>2. CASE A # {}
    <3>1. PICK c \in A : TRUE
        BY <2>2
    <3>2. SumOf(g, A) = g[c] + SumOf(g, A \ {c})
        BY FS_Subset, SumOfOneMore
    <3> QED
        BY <1>1, <3>2
  <2> QED
      BY <2>1, <2>2
<1> HIDE DEF T
<1>2. SUBSET S \subseteq T
    BY <1>1, SetsInduct
<1> QED
    BY <1>2 DEF T

\* The sum is that of what the function is on the set.
THEOREM SumsAgree ==
    ASSUME NEW g, NEW h, NEW S, IsFiniteSet(S), \A x \in S : g[x] \in Int /\ g[x] = h[x]
    PROVE SumOf(g, S) = SumOf(h, S)
    BY SumsCompare, SumsAreIntegers

\* One more number, one less, another one.
THEOREM SumsChange ==
    ASSUME NEW g, NEW h, NEW S, IsFiniteSet(S), NEW a \in S,
           \A x \in S : g[x] \in Int /\ h[x] \in Int /\ (x # a => g[x] = h[x])
    PROVE SumOf(h, S) = SumOf(g, S) - g[a] + h[a]
<1>1. IsFiniteSet(S \ {a})
    BY FS_Subset
<1>2. /\ SumOf(g, S) = g[a] + SumOf(g, S \ {a}) /\ SumOf(h, S) = h[a] + SumOf(h, S \ {a})
      /\ SumOf(g, S \ {a}) \in Int
    BY <1>1, SumOfOneMore, SumsAreIntegers
<1>3. SumOf(g, S \ {a}) = SumOf(h, S \ {a})
    BY <1>1, SumsAgree
<1> QED
    BY <1>2, <1>3

\* A part of what is not negative has no larger a sum.
THEOREM SumsOfParts ==
    ASSUME NEW g, NEW S, IsFiniteSet(S), \A x \in S : g[x] \in Nat, NEW Part \in SUBSET S
    PROVE SumOf(g, Part) \in Nat /\ SumOf(g, Part) <= SumOf(g, S)
<1> DEFINE T == {A \in SUBSET S : SumOf(g, A \cap Part) \in Nat /\ SumOf(g, A \cap Part) <= SumOf(g, A)}
<1>1. ASSUME NEW A \in SUBSET S, \A x \in A : A \ {x} \in T PROVE A \in T
  <2>1. CASE A = {}
    <3>1. A \cap Part = {}
        BY <2>1
    <3> QED
        BY <2>1, <3>1, SumOfNothing
  <2>2. CASE A # {}
    <3>1. PICK c \in A : TRUE
        BY <2>2
    <3>2. IsFiniteSet(A) /\ IsFiniteSet(A \cap Part) /\ IsFiniteSet(A \ {c})
        BY FS_Subset
    <3>3. SumOf(g, A) = g[c] + SumOf(g, A \ {c}) /\ SumOf(g, A \ {c}) \in Int /\ g[c] \in Nat
        BY <3>2, SumOfOneMore, SumsAreIntegers
    <3>4. SumOf(g, (A \ {c}) \cap Part) \in Nat /\ SumOf(g, (A \ {c}) \cap Part) <= SumOf(g, A \ {c})
        BY <1>1
    <3>5. CASE c \in Part
      <4>1. c \in A \cap Part /\ (A \cap Part) \ {c} = (A \ {c}) \cap Part
          BY <3>5
      <4>2. SumOf(g, A \cap Part) = g[c] + SumOf(g, (A \ {c}) \cap Part)
          BY <3>2, <4>1, SumOfOneMore
      <4> QED
          BY <3>3, <3>4, <4>2
    <3>6. CASE c \notin Part
      <4>1. A \cap Part = (A \ {c}) \cap Part
          BY <3>6
      <4> QED
          BY <3>3, <3>4, <4>1
    <3> QED
        BY <3>5, <3>6
  <2> QED
      BY <2>1, <2>2
<1> HIDE DEF T
<1>2. SUBSET S \subseteq T
    BY <1>1, SetsInduct
<1>3. S \cap Part = Part
    OBVIOUS
<1> QED
    BY <1>2, <1>3 DEF T

\* Who chooses, each another element or none, gets no more than there is.
THEOREM SumsOfChosen ==
    ASSUME NEW g, NEW U, IsFiniteSet(U), \A y \in U : g[y] \in Nat,
           NEW h, NEW S, IsFiniteSet(S), NEW c,
           \A x \in S : h[x] \in Nat /\ (c[x] \in U => h[x] <= g[c[x]]) /\ (c[x] \notin U => h[x] = 0),
           \A x, z \in S : c[x] = c[z] /\ c[x] \in U => x = z
    PROVE SumOf(h, S) <= SumOf(g, U)
<1> DEFINE Taken(A) == {y \in U : \E x \in A : c[x] = y}
           T == {A \in SUBSET S : SumOf(h, A) <= SumOf(g, Taken(A))}
<1>1. ASSUME NEW A \in SUBSET S, \A x \in A : A \ {x} \in T PROVE A \in T
  <2>1. CASE A = {}
    <3>1. Taken(A) = {}
        BY <2>1
    <3> HIDE DEF Taken
    <3> QED
        BY <2>1, <3>1, SumOfNothing
  <2>2. CASE A # {}
    <3>1. PICK a \in A : TRUE
        BY <2>2
    <3>2. IsFiniteSet(A) /\ IsFiniteSet(Taken(A)) /\ IsFiniteSet(A \ {a}) /\ IsFiniteSet(Taken(A \ {a}))
        BY FS_Subset
    <3>3. SumOf(h, A) = h[a] + SumOf(h, A \ {a}) /\ SumOf(h, A \ {a}) \in Int /\ h[a] \in Nat
        BY <3>2, SumOfOneMore, SumsAreIntegers
    <3>4. SumOf(h, A \ {a}) <= SumOf(g, Taken(A \ {a}))
        BY <1>1
    <3>5. CASE c[a] \in U
      <4>1. c[a] \in Taken(A) /\ Taken(A) \ {c[a]} = Taken(A \ {a})
          BY <3>1, <3>5
      <4>2. \A y \in Taken(A) : g[y] \in Int
          OBVIOUS
      <4>3. SumOf(g, Taken(A \ {a})) \in Int
        <5>1. \A y \in Taken(A \ {a}) : g[y] \in Int
            OBVIOUS
        <5> HIDE DEF Taken
        <5> QED
            BY <3>2, <5>1, SumsAreIntegers
      <4>4. h[a] <= g[c[a]] /\ g[c[a]] \in Nat
          BY <3>5
      <4> HIDE DEF Taken
      <4>5. SumOf(g, Taken(A)) = g[c[a]] + SumOf(g, Taken(A \ {a}))
        <5>1. PICK R, b : R = Taken(A) /\ b = c[a]
            OBVIOUS
        <5>2. SumOf(g, R) = g[b] + SumOf(g, R \ {b})
            BY <3>2, <4>1, <4>2, <5>1, SumOfOneMore
        <5> QED
            BY <4>1, <5>1, <5>2
      <4>6. SumOf(h, A) <= SumOf(g, Taken(A))
          BY <3>3, <3>4, <4>3, <4>4, <4>5
      <4> QED
          BY <4>6
    <3>6. CASE c[a] \notin U
      <4>1. Taken(A) = Taken(A \ {a})
          BY <3>1, <3>6
      <4>2. h[a] = 0
          BY <3>6
      <4> HIDE DEF Taken
      <4> QED
          BY <3>3, <3>4, <4>1, <4>2
    <3> QED
        BY <3>5, <3>6
  <2> QED
      BY <2>1, <2>2
<1>2. SUBSET S \subseteq T
  <2> HIDE DEF T
  <2> QED
      BY <1>1, SetsInduct
<1>3. SumOf(h, S) <= SumOf(g, Taken(S))
    BY <1>2
<1>4. SumOf(g, Taken(S)) <= SumOf(g, U)
  <2>1. Taken(S) \in SUBSET U
      OBVIOUS
  <2> HIDE DEF Taken
  <2> QED
      BY <2>1, SumsOfParts
<1>5. SumOf(h, S) \in Int /\ SumOf(g, Taken(S)) \in Int /\ SumOf(g, U) \in Int
  <2>1. IsFiniteSet(Taken(S)) /\ \A y \in Taken(S) : g[y] \in Int
      BY FS_Subset
  <2> HIDE DEF Taken
  <2> QED
      BY <2>1, SumsAreIntegers
<1> QED
    BY <1>3, <1>4, <1>5
=============================================================================
