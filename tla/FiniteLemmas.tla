---------------------------- MODULE FiniteLemmas ----------------------------
(***************************************************************************)
(* What the components' proofs need of finite sets of numbers and of sums: *)
(* induction over Nat and over a finite set, for a set of values in place  *)
(* of a predicate; that a finite set of integers has a maximum and a       *)
(* minimum; what SumFunctionOnSet of the community modules returns.        *)
(***************************************************************************)
EXTENDS Integers, FiniteSets, FiniteSetTheorems, FiniteSetsExt, Functions, TLAPS

\* A set that holds 0 and with every natural number its successor holds them
\* all.  Were b missing, the members up to b could be mapped one to one to
\* those of them other than 0.
LEMMA NatSetInduction ==
  ASSUME NEW A, 0 \in A, \A n \in Nat : n \in A => n + 1 \in A
  PROVE  Nat \subseteq A
<1> SUFFICES ASSUME NEW b \in Nat, b \notin A PROVE FALSE
  OBVIOUS
<1> DEFINE F == {n \in 0..b : n \in A}
           G == F \ {0}
           f == [n \in F |-> n + 1]
<1>1. 0 \in F
  OBVIOUS
<1>2. IsFiniteSet(0..b)
  BY FS_Interval
<1>3. IsFiniteSet(F)
  BY <1>2, FS_Subset, F \subseteq 0..b
<1>4. f \in [F -> G]
  <2> SUFFICES ASSUME NEW n \in F PROVE n + 1 \in F /\ n + 1 # 0
    OBVIOUS
  <2> QED
    OBVIOUS
<1>5. IsFiniteSet(G) /\ Cardinality(G) = Cardinality(F) - 1
  BY <1>1, <1>3, FS_RemoveElement
<1>6. Cardinality(F) \in Nat
  BY <1>3, FS_CardinalityType
<1>7. Cardinality(G) < Cardinality(F)
  BY <1>5, <1>6
<1>8. \E x, y \in F : x # y /\ f[x] = f[y]
  <2> HIDE DEF F, G, f
  <2> QED
    BY ONLY <1>3, <1>4, <1>5, <1>7, FS_PigeonHole
<1> QED
  BY <1>8

\* A set of subsets of a finite set S that holds {}, and holds a nonempty
\* subset when it holds the subset with any one element removed, holds S.
LEMMA FiniteSetInduction ==
  ASSUME NEW S, IsFiniteSet(S), NEW A, {} \in A,
         \A T \in SUBSET S : T # {} /\ (\A x \in T : T \ {x} \in A) => T \in A
  PROVE  S \in A
<1> DEFINE B == {n \in Nat : \A T \in SUBSET S : Cardinality(T) = n => T \in A}
<1>1. \A T \in SUBSET S : IsFiniteSet(T) /\ Cardinality(T) \in Nat
  BY FS_Subset, FS_CardinalityType
<1>2. 0 \in B
  BY <1>1, FS_EmptySet
<1>3. ASSUME NEW n \in Nat, n \in B PROVE n + 1 \in B
  <2> SUFFICES ASSUME NEW T \in SUBSET S, Cardinality(T) = n + 1 PROVE T \in A
    OBVIOUS
  <2>1. T # {}
    <3>1. Cardinality({}) = 0
      BY FS_EmptySet
    <3> QED
      BY <3>1, n + 1 # 0
  <2>2. ASSUME NEW x \in T PROVE T \ {x} \in A
    <3>1. Cardinality(T \ {x}) = n
      BY <1>1, FS_RemoveElement
    <3> QED
      BY <1>3, <3>1
  <2> QED
    BY <2>1, <2>2
<1> HIDE DEF B
<1>4. Nat \subseteq B
  BY <1>2, <1>3, NatSetInduction
<1> QED
  BY <1>1, <1>4 DEF B

-----------------------------------------------------------------------------
(* Maximum and minimum.                                                    *)

\* A nonempty finite set of integers has a greatest member and a least one.
LEMMA MaxMinExist ==
  ASSUME NEW S, IsFiniteSet(S), S \subseteq Int, S # {}
  PROVE  /\ \E x \in S : \A y \in S : x >= y
         /\ \E x \in S : \A y \in S : x <= y
<1> DEFINE P(T) == /\ \E x \in T : \A y \in T : x >= y
                   /\ \E x \in T : \A y \in T : x <= y
           A == {T \in SUBSET S : T # {} => P(T)}
<1>1. {} \in A
  OBVIOUS
<1>2. ASSUME NEW T \in SUBSET S, T # {}, \A x \in T : T \ {x} \in A
      PROVE  T \in A
  <2> PICK x \in T : TRUE
    BY <1>2
  <2>1. T \ {x} \in A
    BY <1>2
  <2>2. CASE T = {x}
    BY <2>2
  <2>3. CASE T # {x}
    <3>1. T \ {x} # {}
      BY <2>3
    <3>2. PICK g \in T \ {x} : \A y \in T \ {x} : g >= y
      BY <2>1, <3>1
    <3>3. PICK l \in T \ {x} : \A y \in T \ {x} : l <= y
      BY <2>1, <3>1
    <3>4. \E z \in T : \A y \in T : z >= y
      BY <3>2
    <3>5. \E z \in T : \A y \in T : z <= y
      BY <3>3
    <3> QED
      BY <3>4, <3>5
  <2> QED
    BY <2>2, <2>3
<1> HIDE DEF A
<1>3. S \in A
  BY <1>1, <1>2, FiniteSetInduction
<1> QED
  BY <1>3 DEF A

LEMMA MaxProperties ==
  ASSUME NEW S, IsFiniteSet(S), S \subseteq Int, S # {}
  PROVE  Max(S) \in S /\ \A y \in S : Max(S) >= y
BY MaxMinExist DEF Max

LEMMA MinProperties ==
  ASSUME NEW S, IsFiniteSet(S), S \subseteq Int, S # {}
  PROVE  Min(S) \in S /\ \A y \in S : Min(S) <= y
BY MaxMinExist DEF Min

-----------------------------------------------------------------------------
(* Sums.  SumFunctionOnSet(f, S) adds f[x] for the chosen x of S to the    *)
(* sum over the rest of S.                                                 *)

Chosen(s) == CHOOSE x \in s : TRUE

\* The sums of f over the subsets of S, as the equations of the fold.
IsSums(h, f, S) ==
    h = [s \in SUBSET S |-> IF s = {} THEN 0 ELSE f[Chosen(s)] + h[s \ {Chosen(s)}]]

LEMMA ChosenIn == ASSUME NEW s, s # {} PROVE Chosen(s) \in s
BY DEF Chosen

\* The equations have a solution: one for the subsets of at most n elements
\* gives one for those of n + 1.
LEMMA SumsExist ==
  ASSUME NEW S, IsFiniteSet(S), NEW f, \A x \in S : f[x] \in Int
  PROVE  \E h \in [SUBSET S -> Int] : IsSums(h, f, S)
<1> DEFINE D(n) == {s \in SUBSET S : Cardinality(s) <= n}
           Val(h, s) == IF s = {} THEN 0 ELSE f[Chosen(s)] + h[s \ {Chosen(s)}]
           Good(n) == \E h \in [D(n) -> Int] : \A s \in D(n) : h[s] = Val(h, s)
           B == {n \in Nat : Good(n)}
<1>1. \A T \in SUBSET S : IsFiniteSet(T) /\ Cardinality(T) \in Nat
  BY FS_Subset, FS_CardinalityType
<1>2. 0 \in B
  <2> DEFINE h == [s \in D(0) |-> 0]
  <2>1. \A s \in D(0) : s = {}
    BY <1>1, FS_EmptySet
  <2>2. h \in [D(0) -> Int] /\ \A s \in D(0) : h[s] = Val(h, s)
    BY <2>1
  <2> HIDE DEF h, D, Val
  <2>3. Good(0)
    BY <2>2
  <2> QED
    BY <2>3
<1>3. ASSUME NEW n \in Nat, n \in B PROVE n + 1 \in B
  <2>1. PICK h \in [D(n) -> Int] : \A s \in D(n) : h[s] = Val(h, s)
    BY <1>3
  <2> DEFINE k == [s \in D(n + 1) |-> Val(h, s)]
  <2>2. ASSUME NEW s \in D(n + 1), s # {}
        PROVE  /\ s \ {Chosen(s)} \in D(n)
               /\ Chosen(s) \in S
    <3>1. Chosen(s) \in s
      BY <2>2, ChosenIn
    <3>2. Cardinality(s \ {Chosen(s)}) = Cardinality(s) - 1
      BY <3>1, <1>1, FS_RemoveElement
    <3> QED
      BY <3>1, <3>2, <1>1
  <2>3. k \in [D(n + 1) -> Int]
    <3> SUFFICES ASSUME NEW s \in D(n + 1) PROVE Val(h, s) \in Int
      OBVIOUS
    <3>1. CASE s = {}
      BY <3>1
    <3>2. CASE s # {}
      <4>1. h[s \ {Chosen(s)}] \in Int /\ f[Chosen(s)] \in Int
        <5> HIDE DEF D
        <5> QED
          BY <3>2, <2>2, <2>1
      <4> QED
        BY <4>1, <3>2
    <3> HIDE DEF Val
    <3> QED
      BY <3>1, <3>2
  <2>4. D(n) \subseteq D(n + 1)
    BY <1>1
  <2>5. \A s \in D(n) : k[s] = h[s]
    <3> HIDE DEF D, Val
    <3> QED
      BY <2>1, <2>4
  <2>6. \A s \in D(n + 1) : k[s] = Val(k, s)
    <3> SUFFICES ASSUME NEW s \in D(n + 1) PROVE Val(h, s) = Val(k, s)
      BY DEF k
    <3>1. CASE s = {}
      BY <3>1
    <3>2. CASE s # {}
      <4>1. k[s \ {Chosen(s)}] = h[s \ {Chosen(s)}]
        <5> HIDE DEF D, k
        <5> QED
          BY <3>2, <2>2, <2>5
      <4> HIDE DEF k
      <4> QED
        BY <4>1
    <3> QED
      BY <3>1, <3>2
  <2> HIDE DEF k, D, Val
  <2>7. Good(n + 1)
    BY <2>3, <2>6
  <2> QED
    BY <2>7
<1> HIDE DEF B
<1>4. Nat \subseteq B
  BY <1>2, <1>3, NatSetInduction
<1>5. Good(Cardinality(S))
  BY <1>1, <1>4 DEF B
<1>6. D(Cardinality(S)) = SUBSET S
  BY <1>1, FS_Subset
<1>7. PICK h \in [SUBSET S -> Int] : \A s \in SUBSET S : h[s] = Val(h, s)
  <2> HIDE DEF D, Val
  <2> QED
    BY <1>5, <1>6
<1>8. h = [s \in SUBSET S |-> Val(h, s)]
  <2> HIDE DEF Val
  <2> QED
    BY <1>7
<1> QED
  BY <1>7, <1>8 DEF IsSums

\* SumFunctionOnSet is the value at S of a solution.
LEMMA SumIsSums ==
  ASSUME NEW S, IsFiniteSet(S), NEW f, \A x \in S : f[x] \in Int
  PROVE  \E h \in [SUBSET S -> Int] : IsSums(h, f, S) /\ SumFunctionOnSet(f, S) = h[S]
<1> DEFINE iter == CHOOSE h : IsSums(h, f, S)
<1>1. SumFunctionOnSet(f, S) = iter[S]
  BY DEF SumFunctionOnSet, FoldFunctionOnSet, MapThenFoldSet, IsSums, Chosen
<1>2. IsSums(iter, f, S)
  BY SumsExist
<1> HIDE DEF iter
<1>3. \A s \in SUBSET S :
         iter[s] = IF s = {} THEN 0 ELSE f[Chosen(s)] + iter[s \ {Chosen(s)}]
  BY <1>2 DEF IsSums
<1>4. iter = [s \in SUBSET S |-> iter[s]]
  BY <1>2 DEF IsSums
<1>5. ASSUME NEW s \in SUBSET S PROVE iter[s] \in Int
  <2> DEFINE A == {t \in SUBSET S : iter[t] \in Int}
  <2>1. {} \in A
    <3>1. {} \in SUBSET S
      OBVIOUS
    <3>2. iter[{}] = 0
      BY <1>3, <3>1
    <3> QED
      BY <3>1, <3>2
  <2>2. ASSUME NEW t \in SUBSET S, t # {}, \A x \in t : t \ {x} \in A
        PROVE  t \in A
    <3>1. Chosen(t) \in t
      BY <2>2, ChosenIn
    <3>2. iter[t \ {Chosen(t)}] \in Int /\ f[Chosen(t)] \in Int
      BY <2>2, <3>1
    <3>3. iter[t] = f[Chosen(t)] + iter[t \ {Chosen(t)}]
      BY <1>3, <2>2
    <3> QED
      BY <3>2, <3>3
  <2>3. IsFiniteSet(s)
    BY FS_Subset
  <2> HIDE DEF A
  <2>4. s \in A
    BY <2>1, <2>2, <2>3, FiniteSetInduction
  <2> QED
    BY <2>4 DEF A
<1> QED
  BY <1>1, <1>2, <1>4, <1>5

\* A sum of integers is an integer, of no terms 0.
LEMMA SumType ==
  ASSUME NEW S, IsFiniteSet(S), NEW f, \A x \in S : f[x] \in Int
  PROVE  SumFunctionOnSet(f, S) \in Int
<1>1. PICK h \in [SUBSET S -> Int] : SumFunctionOnSet(f, S) = h[S]
  BY SumIsSums
<1>2. S \in SUBSET S
  OBVIOUS
<1> QED
  BY <1>1, <1>2

\* Changing the term of x by d changes the sum by d if x is summed over.
LEMMA SumOneChanged ==
  ASSUME NEW S, IsFiniteSet(S), NEW f, NEW g, NEW x, NEW d \in Int,
         \A y \in S : f[y] \in Int,
         \A y \in S : g[y] = IF y = x THEN f[y] + d ELSE f[y]
  PROVE  SumFunctionOnSet(g, S) = SumFunctionOnSet(f, S) + (IF x \in S THEN d ELSE 0)
<1>1. \A y \in S : g[y] \in Int
  OBVIOUS
<1>2. PICK h \in [SUBSET S -> Int] : IsSums(h, f, S) /\ SumFunctionOnSet(f, S) = h[S]
  BY SumIsSums
<1>3. PICK k \in [SUBSET S -> Int] : IsSums(k, g, S) /\ SumFunctionOnSet(g, S) = k[S]
  BY <1>1, SumIsSums
<1> DEFINE A == {t \in SUBSET S : k[t] = h[t] + (IF x \in t THEN d ELSE 0)}
<1>4. \A t \in SUBSET S :
         /\ h[t] = IF t = {} THEN 0 ELSE f[Chosen(t)] + h[t \ {Chosen(t)}]
         /\ k[t] = IF t = {} THEN 0 ELSE g[Chosen(t)] + k[t \ {Chosen(t)}]
  BY <1>2, <1>3 DEF IsSums
<1>5. {} \in A
  <2>1. {} \in SUBSET S
    OBVIOUS
  <2>2. h[{}] = 0 /\ k[{}] = 0
    BY <1>4, <2>1
  <2> QED
    BY <2>1, <2>2
<1>6. ASSUME NEW t \in SUBSET S, t # {}, \A y \in t : t \ {y} \in A
      PROVE  t \in A
  <2> DEFINE c == Chosen(t)
  <2>1. c \in t /\ t \ {c} \in A
    BY <1>6, ChosenIn
  <2>2. k[t \ {c}] = h[t \ {c}] + (IF x \in t \ {c} THEN d ELSE 0)
    BY <2>1
  <2>3. h[t \ {c}] \in Int /\ f[c] \in Int
    BY <2>1, <1>2
  <2>4. h[t] = f[c] + h[t \ {c}] /\ k[t] = g[c] + k[t \ {c}]
    BY <1>4, <1>6
  <2> HIDE DEF c
  <2>5. CASE c = x
    BY <2>1, <2>2, <2>3, <2>4, <2>5
  <2>6. CASE c # x
    BY <2>1, <2>2, <2>3, <2>4, <2>6
  <2> QED
    BY <2>5, <2>6
<1> HIDE DEF A
<1>7. S \in A
  BY <1>5, <1>6, FiniteSetInduction
<1> QED
  BY <1>2, <1>3, <1>7 DEF A

\* A sum of zeros is 0.
LEMMA SumOfZeros ==
  ASSUME NEW S, IsFiniteSet(S), NEW f, \A x \in S : f[x] = 0
  PROVE  SumFunctionOnSet(f, S) = 0
<1>0. \A x \in S : f[x] \in Int
  OBVIOUS
<1>1. PICK h \in [SUBSET S -> Int] : IsSums(h, f, S) /\ SumFunctionOnSet(f, S) = h[S]
  BY <1>0, SumIsSums
<1> DEFINE A == {t \in SUBSET S : h[t] = 0}
<1>2. \A t \in SUBSET S :
         h[t] = IF t = {} THEN 0 ELSE f[Chosen(t)] + h[t \ {Chosen(t)}]
  BY <1>1 DEF IsSums
<1>3. {} \in A
  <2>1. {} \in SUBSET S
    OBVIOUS
  <2>2. h[{}] = 0
    BY <1>2, <2>1
  <2> QED
    BY <2>1, <2>2
<1>4. ASSUME NEW t \in SUBSET S, t # {}, \A y \in t : t \ {y} \in A
      PROVE  t \in A
  <2>1. Chosen(t) \in t
    BY <1>4, ChosenIn
  <2>2. h[t \ {Chosen(t)}] = 0 /\ f[Chosen(t)] = 0
    BY <1>4, <2>1
  <2>3. h[t] = f[Chosen(t)] + h[t \ {Chosen(t)}]
    BY <1>2, <1>4
  <2> QED
    BY <2>2, <2>3
<1> HIDE DEF A
<1>5. S \in A
  BY <1>3, <1>4, FiniteSetInduction
<1> QED
  BY <1>1, <1>5 DEF A

\* A sum of integers that are none of them negative is not negative, and at
\* least each of them.
LEMMA SumBoundsTerms ==
  ASSUME NEW S, IsFiniteSet(S), NEW f, \A x \in S : f[x] \in Nat
  PROVE  /\ SumFunctionOnSet(f, S) \in Nat
         /\ \A x \in S : f[x] <= SumFunctionOnSet(f, S)
<1>0. \A x \in S : f[x] \in Int
  OBVIOUS
<1>1. PICK h \in [SUBSET S -> Int] : IsSums(h, f, S) /\ SumFunctionOnSet(f, S) = h[S]
  BY <1>0, SumIsSums
<1> DEFINE A == {t \in SUBSET S : h[t] >= 0 /\ \A x \in t : f[x] <= h[t]}
<1>2. \A t \in SUBSET S :
         h[t] = IF t = {} THEN 0 ELSE f[Chosen(t)] + h[t \ {Chosen(t)}]
  BY <1>1 DEF IsSums
<1>3. {} \in A
  <2>1. {} \in SUBSET S
    OBVIOUS
  <2>2. h[{}] = 0
    BY <1>2, <2>1
  <2> QED
    BY <2>1, <2>2
<1>4. ASSUME NEW t \in SUBSET S, t # {}, \A y \in t : t \ {y} \in A
      PROVE  t \in A
  <2> DEFINE c == Chosen(t)
  <2>1. c \in t /\ t \ {c} \in A
    BY <1>4, ChosenIn
  <2>2. h[t] = f[c] + h[t \ {c}]
    BY <1>2, <1>4
  <2>3. h[t \ {c}] \in Nat /\ f[c] \in Nat
    BY <2>1, <1>1
  <2> HIDE DEF c
  <2>4. ASSUME NEW x \in t PROVE f[x] <= h[t]
    <3>1. f[x] \in Nat
      OBVIOUS
    <3>2. CASE x = c
      BY <2>2, <2>3, <3>2
    <3>3. CASE x # c
      <4>1. f[x] <= h[t \ {c}]
        BY <2>1, <3>3
      <4> QED
        BY <2>2, <2>3, <3>1, <4>1
    <3> QED
      BY <3>2, <3>3
  <2>5. h[t] >= 0
    BY <2>2, <2>3
  <2> QED
    BY <2>4, <2>5
<1> HIDE DEF A
<1>5. S \in A
  BY <1>3, <1>4, FiniteSetInduction
<1> QED
  BY <1>1, <1>5 DEF A
=============================================================================
