----------------------------- MODULE DataTheorems -----------------------------
(***************************************************************************)
(* Facts about the data that the models are built from: induction and      *)
(* recursion over numbers, finite sets and along a measure, what           *)
(* SumFunction, Min and Max of the community modules compute, the ranks of *)
(* a set's members, and division.                                          *)
(*                                                                         *)
(* The library's induction theorems are about an operator.  Here what is   *)
(* proved by induction is a set, the numbers or subsets a fact holds for,  *)
(* and what is defined by recursion is a function.                         *)
(***************************************************************************)
EXTENDS Integers, Functions, FiniteSetsExt, FiniteSetTheorems, TLAPS

-----------------------------------------------------------------------------
(* Induction.                                                              *)

\* A set of natural numbers with 0 and the successors of its members has all.
LEMMA NatSetInduction ==
    ASSUME NEW S \in SUBSET Nat, 0 \in S, \A n \in S : n + 1 \in S
    PROVE  S = Nat
  <1> SUFFICES ASSUME S # Nat PROVE FALSE
      OBVIOUS
  <1> DEFINE R == OpToRel(<, Nat)
             T == Nat \ S
  <1>1. IsWellFoundedOn(R, Nat)
      BY NatLessThanWellFounded
  <1>2. PICK x \in T : \A y \in T : ~ (<<y, x>> \in R)
    <2>1. T \subseteq Nat /\ T # {}
        OBVIOUS
    <2> HIDE DEF R, T
    <2> QED
        BY <1>1, <2>1, WFMin
  <1>3. \A y \in T : ~ (y < x)
      BY <1>2 DEF OpToRel
  <1>4. x # 0 /\ x \in Nat
      OBVIOUS
  <1>5. x - 1 \in S
      BY <1>3, <1>4
  <1> QED
      BY <1>4, <1>5

\* A set of subsets of a finite set has all of them if it has the empty one, and
\* each other one of which it has everything that lacks one member.
LEMMA FiniteSetInduction ==
    ASSUME NEW S, IsFiniteSet(S), NEW P \in SUBSET SUBSET S, {} \in P,
           \A s \in SUBSET S : s # {} /\ (\A x \in s : s \ {x} \in P) => s \in P
    PROVE  P = SUBSET S
  <1> DEFINE C == {n \in Nat : \A s \in SUBSET S : Cardinality(s) = n => s \in P}
  <1>1. 0 \in C
      BY FS_Subset, FS_EmptySet
  <1>2. ASSUME NEW n \in C PROVE n + 1 \in C
    <2>0. n \in Nat
        OBVIOUS
    <2> SUFFICES ASSUME NEW s \in SUBSET S, Cardinality(s) = n + 1
                 PROVE  s \in P
        OBVIOUS
    <2>1. IsFiniteSet(s)
        BY FS_Subset
    <2>2. s # {}
        BY FS_EmptySet
    <2>3. ASSUME NEW x \in s PROVE s \ {x} \in P
      <3>1. Cardinality(s \ {x}) = Cardinality(s) - 1
          BY <2>1, FS_RemoveElement
      <3>2. Cardinality(s \ {x}) = n
          BY <2>0, <3>1
      <3> QED
          BY <3>2
    <2> QED
        BY <2>2, <2>3
  <1>3. C = Nat
    <2> HIDE DEF C
    <2>1. C \in SUBSET Nat
        BY DEF C
    <2> QED
        BY <1>1, <1>2, <2>1, NatSetInduction
  <1>4. ASSUME NEW s \in SUBSET S PROVE s \in P
    <2>1. Cardinality(s) \in C
        BY <1>3, FS_Subset, FS_CardinalityType
    <2> QED
        BY <2>1
  <1> QED
      BY <1>4

-----------------------------------------------------------------------------
(* Recursion.                                                              *)

\* f runs through the states of S from init, step by step.
Iterates(f, S, n, init, step) ==
    /\ f \in [0..n -> S]
    /\ f[0] = init
    /\ \A i \in 1..n : f[i] = step[i][f[i - 1]]

\* A function on 0..n may be given by its first value and a step.
LEMMA RecursionExists ==
    ASSUME NEW S, NEW n \in Nat, NEW init \in S, NEW step \in [1..n -> [S -> S]]
    PROVE  \E f : Iterates(f, S, n, init, step)
  <1> DEFINE Defined(m, f) == /\ f \in [0..m -> S]
                              /\ f[0] = init
                              /\ \A i \in 1..m : f[i] = step[i][f[i - 1]]
             C == {m \in Nat : m <= n => \E f : Defined(m, f)}
  <1>1. 0 \in C
    <2>1. Defined(0, [i \in 0..0 |-> init])
        OBVIOUS
    <2> QED
        BY <2>1
  <1>2. ASSUME NEW m \in Nat, m + 1 <= n, NEW f, Defined(m, f)
        PROVE  \E g : Defined(m + 1, g)
    <2> DEFINE new == step[m + 1][f[m]]
               g == [i \in 0..(m + 1) |-> IF i = m + 1 THEN new ELSE f[i]]
    <2>1. f \in [0..m -> S] /\ f[0] = init /\ \A i \in 1..m : f[i] = step[i][f[i - 1]]
        BY <1>2
    <2>2. f[m] \in S /\ m + 1 \in 1..n
        BY <1>2, <2>1
    <2>3. new \in S
        BY <2>2
    <2> HIDE DEF new
    <2>4. g \in [0..(m + 1) -> S] /\ g[0] = init
        BY <1>2, <2>1, <2>3
    <2>5. /\ g[m + 1] = new
          /\ \A i \in 0..m : g[i] = f[i]
        BY <1>2
    <2> HIDE DEF g
    <2>6. ASSUME NEW i \in 1..(m + 1) PROVE g[i] = step[i][g[i - 1]]
      <3>1. g[i - 1] = f[i - 1]
          BY <1>2, <2>5
      <3>2. CASE i = m + 1
          BY <1>2, <2>5, <3>1, <3>2 DEF new
      <3>3. CASE i # m + 1
          BY <1>2, <2>1, <2>5, <3>1, <3>3
      <3> QED
          BY <3>2, <3>3
    <2> QED
        BY <2>4, <2>6
  <1>3. ASSUME NEW m \in C PROVE m + 1 \in C
    <2>1. m + 1 <= n => m <= n
        OBVIOUS
    <2> HIDE DEF Defined
    <2> QED
        BY <1>2, <2>1
  <1>4. C = Nat
    <2>1. C \in SUBSET Nat
        OBVIOUS
    <2> HIDE DEF C
    <2> QED
        BY <1>1, <1>3, <2>1, NatSetInduction
  <1>5. n \in C
      BY <1>4
  <1> QED
      BY <1>5 DEF Iterates

-----------------------------------------------------------------------------
(* Sums.                                                                   *)

SomeOf(s) == CHOOSE x \in s : TRUE

\* What SumFunctionOnSet's recursion over the subsets of S computes.
Sums(it, f, S) ==
    it = [s \in SUBSET S |-> IF s = {} THEN 0 ELSE f[SomeOf(s)] + it[s \ {SomeOf(s)}]]

\* The recursion has a solution.
LEMMA SumsExist ==
    ASSUME NEW S, IsFiniteSet(S), NEW f
    PROVE  \E it : Sums(it, f, S)
  <1> DEFINE Upto(n) == {s \in SUBSET S : Cardinality(s) <= n}
             Defined(n, it) ==
                it = [s \in Upto(n) |-> IF s = {} THEN 0 ELSE f[SomeOf(s)] + it[s \ {SomeOf(s)}]]
             C == {n \in Nat : \E it : Defined(n, it)}
  <1>a. ASSUME NEW s \in SUBSET S
        PROVE  IsFiniteSet(s) /\ Cardinality(s) \in Nat /\ Cardinality(s) <= Cardinality(S)
      BY FS_Subset, FS_CardinalityType
  <1>b. ASSUME NEW s \in SUBSET S, s # {}
        PROVE  SomeOf(s) \in s /\ Cardinality(s \ {SomeOf(s)}) = Cardinality(s) - 1
    <2>1. SomeOf(s) \in s
        BY <1>b DEF SomeOf
    <2> QED
        BY <1>a, <2>1, FS_RemoveElement
  <1>1. 0 \in C
    <2>1. ASSUME NEW s \in Upto(0) PROVE s = {}
      <3>1. Cardinality(s) = 0
          BY <1>a
      <3> QED
          BY <1>a, <3>1, FS_EmptySet
    <2>2. Defined(0, [s \in Upto(0) |-> 0])
        BY <2>1
    <2> QED
        BY <2>2
  <1>2. ASSUME NEW n \in Nat, NEW it, Defined(n, it)
        PROVE  \E new : Defined(n + 1, new)
    <2> DEFINE new == [s \in Upto(n + 1) |-> IF s = {} THEN 0 ELSE f[SomeOf(s)] + it[s \ {SomeOf(s)}]]
    <2>1. \A s \in Upto(n) : new[s] = it[s]
      <3>1. Upto(n) \subseteq Upto(n + 1)
          BY <1>a
      <3>2. \A s \in Upto(n) : it[s] = IF s = {} THEN 0 ELSE f[SomeOf(s)] + it[s \ {SomeOf(s)}]
        <4> HIDE DEF Upto
        <4> QED
          BY <1>2
      <3>3. \A s \in Upto(n + 1) : new[s] = IF s = {} THEN 0 ELSE f[SomeOf(s)] + it[s \ {SomeOf(s)}]
        <4> HIDE DEF Upto
        <4> QED
          OBVIOUS
      <3> HIDE DEF Upto, new
      <3> QED
          BY <3>1, <3>2, <3>3
    <2>2. \A s \in Upto(n + 1) : s # {} => s \ {SomeOf(s)} \in Upto(n)
        BY <1>a, <1>b
    <2>3. new = [s \in Upto(n + 1) |-> IF s = {} THEN 0 ELSE f[SomeOf(s)] + new[s \ {SomeOf(s)}]]
      <3>1. \A s \in Upto(n + 1) : s # {} => new[s \ {SomeOf(s)}] = it[s \ {SomeOf(s)}]
        <4> HIDE DEF Upto, new
        <4> QED
          BY <2>1, <2>2
      <3>2. ASSUME NEW h, \A s \in Upto(n + 1) : s # {} => h[s \ {SomeOf(s)}] = it[s \ {SomeOf(s)}]
            PROVE  new = [s \in Upto(n + 1) |-> IF s = {} THEN 0 ELSE f[SomeOf(s)] + h[s \ {SomeOf(s)}]]
        <4> HIDE DEF Upto
        <4> QED
          BY <3>2
      <3> HIDE DEF new
      <3> QED
          BY <3>1, <3>2
    <2> HIDE DEF new
    <2> QED
        BY <2>3
  <1>3. C = Nat
    <2>1. C \in SUBSET Nat /\ \A n \in C : n + 1 \in C
      <3> HIDE DEF Defined
      <3> QED
        BY <1>2
    <2> HIDE DEF C
    <2> QED
        BY <1>1, <2>1, NatSetInduction
  <1>4. Cardinality(S) \in C
      BY <1>3, FS_CardinalityType
  <1>5. Upto(Cardinality(S)) = SUBSET S
      BY <1>a
  <1> HIDE DEF Upto
  <1> QED
      BY <1>4, <1>5 DEF Sums

\* A sum over a subset does not depend on the set the recursion starts from.
LEMMA SumsAgree ==
    ASSUME NEW S, IsFiniteSet(S), NEW T \in SUBSET S, NEW f, NEW it, NEW jt,
           Sums(it, f, S), Sums(jt, f, T)
    PROVE  \A s \in SUBSET T : it[s] = jt[s]
  <1> DEFINE P == {s \in SUBSET T : it[s] = jt[s]}
  <1>1. \A s \in SUBSET T :
           /\ it[s] = IF s = {} THEN 0 ELSE f[SomeOf(s)] + it[s \ {SomeOf(s)}]
           /\ jt[s] = IF s = {} THEN 0 ELSE f[SomeOf(s)] + jt[s \ {SomeOf(s)}]
    <2>1. \A s \in SUBSET S : it[s] = IF s = {} THEN 0 ELSE f[SomeOf(s)] + it[s \ {SomeOf(s)}]
        BY DEF Sums
    <2>2. \A s \in SUBSET T : jt[s] = IF s = {} THEN 0 ELSE f[SomeOf(s)] + jt[s \ {SomeOf(s)}]
        BY DEF Sums
    <2> QED
        BY <2>1, <2>2
  <1>2. {} \in P
      BY <1>1
  <1>3. ASSUME NEW s \in SUBSET T, s # {}, \A x \in s : s \ {x} \in P
        PROVE  s \in P
    <2>1. SomeOf(s) \in s
        BY <1>3 DEF SomeOf
    <2>2. it[s \ {SomeOf(s)}] = jt[s \ {SomeOf(s)}]
        BY <1>3, <2>1
    <2> QED
        BY <1>1, <1>3, <2>2
  <1>4. IsFiniteSet(T)
      BY FS_Subset
  <1>5. P = SUBSET T
    <2>1. P \in SUBSET SUBSET T
        OBVIOUS
    <2> HIDE DEF P
    <2> QED
        BY <1>2, <1>3, <1>4, <2>1, FiniteSetInduction
  <1> QED
      BY <1>5

\* SumFunctionOnSet computes a solution.
LEMMA SumIsSums ==
    ASSUME NEW S, IsFiniteSet(S), NEW f
    PROVE  \E it : Sums(it, f, S) /\ SumFunctionOnSet(f, S) = it[S]
  <1> DEFINE it == CHOOSE it : Sums(it, f, S)
  <1>1. Sums(it, f, S)
      BY SumsExist
  <1>2. SumFunctionOnSet(f, S) = it[S]
      BY DEF SumFunctionOnSet, FoldFunctionOnSet, MapThenFoldSet, Sums, SomeOf
  <1> QED
      BY <1>1, <1>2

\* The sum over no elements.
LEMMA SumOfNone ==
    ASSUME NEW f
    PROVE  SumFunctionOnSet(f, {}) = 0
  <1>1. PICK it : Sums(it, f, {}) /\ SumFunctionOnSet(f, {}) = it[{}]
      BY SumIsSums, FS_EmptySet
  <1> QED
      BY <1>1 DEF Sums

\* The sum is one element's value and the sum over the others.
LEMMA SumStep ==
    ASSUME NEW S, IsFiniteSet(S), S # {}, NEW f
    PROVE  /\ SomeOf(S) \in S
           /\ SumFunctionOnSet(f, S) = f[SomeOf(S)] + SumFunctionOnSet(f, S \ {SomeOf(S)})
  <1> DEFINE T == S \ {SomeOf(S)}
  <1>1. IsFiniteSet(T)
      BY FS_Subset
  <1>2. PICK it : Sums(it, f, S) /\ SumFunctionOnSet(f, S) = it[S]
      BY SumIsSums
  <1>3. PICK jt : Sums(jt, f, T) /\ SumFunctionOnSet(f, T) = jt[T]
      BY <1>1, SumIsSums
  <1>4. it[T] = jt[T]
      BY <1>2, <1>3, SumsAgree
  <1>5. it[S] = f[SomeOf(S)] + it[T]
      BY <1>2 DEF Sums
  <1>6. SomeOf(S) \in S
      BY DEF SomeOf
  <1> QED
      BY <1>2, <1>3, <1>4, <1>5, <1>6

\* A sum of integers is one, and of natural numbers is one.
LEMMA SumType ==
    ASSUME NEW S, IsFiniteSet(S), NEW f
    PROVE  /\ (\A x \in S : f[x] \in Int) => SumFunctionOnSet(f, S) \in Int
           /\ (\A x \in S : f[x] \in Nat) => SumFunctionOnSet(f, S) \in Nat
  <1>1. ASSUME NEW N \in {Int, Nat}, \A x \in S : f[x] \in N
        PROVE  SumFunctionOnSet(f, S) \in N
    <2> DEFINE P == {s \in SUBSET S : SumFunctionOnSet(f, s) \in N}
    <2>1. {} \in P
        BY <1>1, SumOfNone
    <2>2. ASSUME NEW s \in SUBSET S, s # {}, \A x \in s : s \ {x} \in P
          PROVE  s \in P
      <3>1. IsFiniteSet(s)
          BY FS_Subset
      <3>2. /\ SomeOf(s) \in s
            /\ SumFunctionOnSet(f, s) = f[SomeOf(s)] + SumFunctionOnSet(f, s \ {SomeOf(s)})
          BY <2>2, <3>1, SumStep
      <3>3. f[SomeOf(s)] \in N /\ SumFunctionOnSet(f, s \ {SomeOf(s)}) \in N
          BY <1>1, <2>2, <3>2
      <3> QED
          BY <1>1, <3>2, <3>3
    <2>3. P = SUBSET S
      <3>1. P \in SUBSET SUBSET S
          OBVIOUS
      <3> HIDE DEF P
      <3> QED
          BY <2>1, <2>2, <3>1, FiniteSetInduction
    <2> QED
        BY <2>3
  <1> QED
      BY <1>1

\* Any member may be summed up first.
LEMMA SumRemove ==
    ASSUME NEW S, IsFiniteSet(S), NEW f, \A x \in S : f[x] \in Int, NEW y \in S
    PROVE  SumFunctionOnSet(f, S) = f[y] + SumFunctionOnSet(f, S \ {y})
  <1> DEFINE sum(s) == SumFunctionOnSet(f, s)
             P == {s \in SUBSET S : \A x \in s : sum(s) = f[x] + sum(s \ {x})}
  <1>0. ASSUME NEW s \in SUBSET S PROVE IsFiniteSet(s) /\ sum(s) \in Int
      BY FS_Subset, SumType
  <1>1. {} \in P
      OBVIOUS
  <1>2. ASSUME NEW s \in SUBSET S, s # {}, \A x \in s : s \ {x} \in P, NEW x \in s
        PROVE  sum(s) = f[x] + sum(s \ {x})
    <2> DEFINE c == SomeOf(s)
    <2>1. c \in s /\ sum(s) = f[c] + sum(s \ {c})
        BY <1>0, <1>2, SumStep
    <2>2. CASE c = x
        BY <2>1, <2>2
    <2>3. CASE c # x
      <3> HIDE DEF c, sum, P
      <3>1. sum(s \ {c}) = f[x] + sum((s \ {c}) \ {x})
          BY <1>2, <2>1, <2>3 DEF P
      <3>2. sum(s \ {x}) = f[c] + sum((s \ {x}) \ {c})
          BY <1>2, <2>1, <2>3 DEF P
      <3>3. sum((s \ {c}) \ {x}) = sum((s \ {x}) \ {c})
        <4>1. (s \ {c}) \ {x} = (s \ {x}) \ {c}
            OBVIOUS
        <4> QED
            BY <4>1, Zenon
      <3>4. sum((s \ {c}) \ {x}) \in Int /\ f[x] \in Int /\ f[c] \in Int
          BY <1>0, <2>1
      <3> DEFINE rest == sum((s \ {c}) \ {x})
      <3> HIDE DEF rest
      <3>5. sum(s) = f[c] + (f[x] + rest) /\ sum(s \ {x}) = f[c] + rest
          BY <2>1, <3>1, <3>2, <3>3 DEF rest
      <3>6. rest \in Int
          BY <3>4 DEF rest
      <3> QED
          BY <3>4, <3>5, <3>6
    <2> QED
        BY <2>2, <2>3
  <1>3. P = SUBSET S
    <2>1. P \in SUBSET SUBSET S /\ \A s \in SUBSET S : s # {} /\ (\A x \in s : s \ {x} \in P) => s \in P
      <3> HIDE DEF sum
      <3> QED
        BY <1>2
    <2> HIDE DEF P
    <2> QED
        BY <1>1, <2>1, FiniteSetInduction
  <1> QED
      BY <1>3

\* Functions that agree on a set have the same sum over it.
LEMMA SumSame ==
    ASSUME NEW S, IsFiniteSet(S), NEW f, NEW g, \A x \in S : f[x] = g[x]
    PROVE  SumFunctionOnSet(f, S) = SumFunctionOnSet(g, S)
  <1> DEFINE P == {s \in SUBSET S : SumFunctionOnSet(f, s) = SumFunctionOnSet(g, s)}
  <1>1. {} \in P
      BY SumOfNone
  <1>2. ASSUME NEW s \in SUBSET S, s # {}, \A x \in s : s \ {x} \in P
        PROVE  s \in P
    <2>1. IsFiniteSet(s)
        BY FS_Subset
    <2>2. /\ SomeOf(s) \in s
          /\ SumFunctionOnSet(f, s) = f[SomeOf(s)] + SumFunctionOnSet(f, s \ {SomeOf(s)})
          /\ SumFunctionOnSet(g, s) = g[SomeOf(s)] + SumFunctionOnSet(g, s \ {SomeOf(s)})
        BY <1>2, <2>1, SumStep
    <2> QED
        BY <1>2, <2>2
  <1>3. P = SUBSET S
    <2>1. P \in SUBSET SUBSET S
        OBVIOUS
    <2> HIDE DEF P
    <2> QED
        BY <1>1, <1>2, <2>1, FiniteSetInduction
  <1> QED
      BY <1>3

\* A sum changes by as much as the one term that changes.
LEMMA SumChange ==
    ASSUME NEW S, IsFiniteSet(S), NEW f, NEW g, NEW y \in S,
           \A x \in S : f[x] \in Int, g[y] \in Int, \A x \in S \ {y} : g[x] = f[x]
    PROVE  SumFunctionOnSet(g, S) + f[y] = SumFunctionOnSet(f, S) + g[y]
  <1>1. IsFiniteSet(S \ {y})
      BY FS_Subset
  <1>2. \A x \in S : g[x] \in Int
      OBVIOUS
  <1>3. SumFunctionOnSet(f, S \ {y}) = SumFunctionOnSet(g, S \ {y})
      BY <1>1, SumSame
  <1>4. SumFunctionOnSet(f, S \ {y}) \in Int
      BY <1>1, SumType
  <1>5. /\ SumFunctionOnSet(f, S) = f[y] + SumFunctionOnSet(f, S \ {y})
        /\ SumFunctionOnSet(g, S) = g[y] + SumFunctionOnSet(g, S \ {y})
      BY <1>2, SumRemove
  <1> QED
      BY <1>3, <1>4, <1>5

\* More members with values that are not negative do not make less.
LEMMA SumOfPart ==
    ASSUME NEW T, IsFiniteSet(T), NEW g, \A x \in T : g[x] \in Nat, NEW S \in SUBSET T
    PROVE  SumFunctionOnSet(g, S) <= SumFunctionOnSet(g, T)
  <1> DEFINE sum(s) == SumFunctionOnSet(g, s)
             R == T \ S
             P == {s \in SUBSET R : sum(S) <= sum(S \cup s)}
  <1>1. \A s \in SUBSET T : IsFiniteSet(s) /\ sum(s) \in Int
    <2> TAKE s \in SUBSET T
    <2>1. IsFiniteSet(s)
        BY FS_Subset
    <2>2. \A x \in s : g[x] \in Int
        OBVIOUS
    <2> QED
        BY <2>1, <2>2, SumType
  <1>2. {} \in P
    <2>1. S \cup {} = S
        OBVIOUS
    <2>2. sum(S \cup {}) = sum(S) /\ sum(S) \in Int
        BY <1>1, <2>1
    <2> HIDE DEF sum
    <2> QED
        BY <2>2
  <1>3. ASSUME NEW s \in SUBSET R, s # {}, \A x \in s : s \ {x} \in P PROVE s \in P
    <2>1. PICK y \in s : TRUE
        BY <1>3
    <2>2. S \cup s \in SUBSET T /\ y \in S \cup s /\ (S \cup s) \ {y} = S \cup (s \ {y})
        BY <2>1
    <2>3. \A x \in S \cup s : g[x] \in Int
        BY <2>2
    <2>4. sum(S \cup s) = g[y] + sum((S \cup s) \ {y})
        BY <1>1, <2>2, <2>3, SumRemove
    <2>5. sum((S \cup s) \ {y}) = sum(S \cup (s \ {y}))
        BY <2>2
    <2>6. sum(S) <= sum(S \cup (s \ {y}))
        BY <1>3, <2>1
    <2>7. sum(S) \in Int /\ sum(S \cup (s \ {y})) \in Int /\ g[y] \in Nat
        BY <1>1, <2>1, <2>2
    <2> HIDE DEF sum
    <2> QED
        BY <2>4, <2>5, <2>6, <2>7
  <1>4. P = SUBSET R
    <2>1. P \in SUBSET SUBSET R /\ IsFiniteSet(R)
        BY FS_Subset
    <2>2. \A s \in SUBSET R : s # {} /\ (\A x \in s : s \ {x} \in P) => s \in P
        BY <1>3
    <2> HIDE DEF P, R
    <2> QED
        BY <1>2, <2>1, <2>2, FiniteSetInduction
  <1>5. S \cup R = T /\ R \in P
      BY <1>4
  <1>6. sum(S) <= sum(S \cup R)
      BY <1>5
  <1> QED
      BY <1>5, <1>6

\* Greater values make a greater sum.
LEMMA SumGrows ==
    ASSUME NEW S, IsFiniteSet(S), S # {}, NEW f, NEW g,
           \A x \in S : f[x] \in Int /\ g[x] \in Int /\ f[x] < g[x]
    PROVE  SumFunctionOnSet(f, S) < SumFunctionOnSet(g, S)
  <1> DEFINE fs(s) == SumFunctionOnSet(f, s)
             gs(s) == SumFunctionOnSet(g, s)
             P == {s \in SUBSET S : s # {} => fs(s) < gs(s)}
  <1>1. \A s \in SUBSET S : IsFiniteSet(s) /\ fs(s) \in Int /\ gs(s) \in Int
    <2> TAKE s \in SUBSET S
    <2>1. IsFiniteSet(s)
        BY FS_Subset
    <2>2. (\A x \in s : f[x] \in Int) /\ (\A x \in s : g[x] \in Int)
        OBVIOUS
    <2> QED
        BY <2>1, <2>2, SumType
  <1>2. {} \in P
      OBVIOUS
  <1>3. ASSUME NEW s \in SUBSET S, s # {}, \A x \in s : s \ {x} \in P PROVE s \in P
    <2>1. PICK y \in s : TRUE
        BY <1>3
    <2>2. (\A x \in s : f[x] \in Int) /\ (\A x \in s : g[x] \in Int) /\ IsFiniteSet(s)
        BY <1>1
    <2>3. fs(s) = f[y] + fs(s \ {y}) /\ gs(s) = g[y] + gs(s \ {y})
        BY <2>1, <2>2, SumRemove
    <2>4. f[y] < g[y] /\ f[y] \in Int /\ g[y] \in Int
        BY <2>1
    <2>5. fs(s \ {y}) \in Int /\ gs(s \ {y}) \in Int
        BY <1>1
    <2>6. fs(s \ {y}) <= gs(s \ {y})
      <3>1. CASE s \ {y} = {}
        <4>1. fs(s \ {y}) = 0 /\ gs(s \ {y}) = 0
            BY <3>1, SumOfNone
        <4> HIDE DEF fs, gs
        <4> QED
            BY <4>1
      <3>2. CASE s \ {y} # {}
        <4>1. fs(s \ {y}) < gs(s \ {y})
            BY <1>3, <2>1, <3>2
        <4> HIDE DEF fs, gs
        <4> QED
            BY <2>5, <4>1
      <3> QED
          BY <3>1, <3>2
    <2>7. fs(s) < gs(s)
      <3> HIDE DEF fs, gs
      <3> QED
          BY <2>3, <2>4, <2>5, <2>6
    <2> HIDE DEF fs, gs
    <2> QED
        BY <2>7
  <1>4. P = SUBSET S
    <2>1. P \in SUBSET SUBSET S
        OBVIOUS
    <2>2. \A s \in SUBSET S : s # {} /\ (\A x \in s : s \ {x} \in P) => s \in P
        BY <1>3
    <2> HIDE DEF P
    <2> QED
        BY <1>2, <2>1, <2>2, FiniteSetInduction
  <1> QED
      BY <1>4

\* A sum of zeros.
LEMMA SumOfZeros ==
    ASSUME NEW S, IsFiniteSet(S), NEW f, \A x \in S : f[x] = 0
    PROVE  SumFunctionOnSet(f, S) = 0
  <1> DEFINE P == {s \in SUBSET S : SumFunctionOnSet(f, s) = 0}
  <1>1. {} \in P
      BY SumOfNone
  <1>2. ASSUME NEW s \in SUBSET S, s # {}, \A x \in s : s \ {x} \in P
        PROVE  s \in P
    <2>1. IsFiniteSet(s)
        BY FS_Subset
    <2>2. /\ SomeOf(s) \in s
          /\ SumFunctionOnSet(f, s) = f[SomeOf(s)] + SumFunctionOnSet(f, s \ {SomeOf(s)})
        BY <1>2, <2>1, SumStep
    <2>3. f[SomeOf(s)] = 0 /\ SumFunctionOnSet(f, s \ {SomeOf(s)}) = 0
        BY <1>2, <2>2
    <2> QED
        BY <2>2, <2>3
  <1>3. P = SUBSET S
    <2>1. P \in SUBSET SUBSET S
        OBVIOUS
    <2> HIDE DEF P
    <2> QED
        BY <1>1, <1>2, <2>1, FiniteSetInduction
  <1> QED
      BY <1>3
-----------------------------------------------------------------------------
(* Induction and recursion along a bounded measure.                        *)

\* P has every point of D if it has all of smaller measure.
Inductive(D, m, P) == \A d \in D : (\A e \in D : m[e] < m[d] => e \in P) => d \in P

\* What follows for a point from all of smaller measure holds for all points.
LEMMA MeasureInduction ==
    ASSUME NEW D, NEW B \in Nat, NEW m \in [D -> 0..B], NEW P \in SUBSET D,
           Inductive(D, m, P)
    PROVE  P = D
  <1> DEFINE C == {n \in Nat : \A d \in D : m[d] < n => d \in P}
  <1>1. 0 \in C
      OBVIOUS
  <1>2. ASSUME NEW n \in C PROVE n + 1 \in C
    <2>1. n \in Nat /\ \A d \in D : m[d] < n => d \in P
        OBVIOUS
    <2>2. ASSUME NEW d \in D, m[d] < n + 1 PROVE d \in P
      <3>1. m[d] \in Nat
          OBVIOUS
      <3>2. \A e \in D : m[e] \in Nat
          OBVIOUS
      <3>3. \A e \in D : m[e] < m[d] => e \in P
          BY <2>1, <2>2, <3>1, <3>2
      <3> QED
          BY <3>3 DEF Inductive
    <2> QED
        BY <2>1, <2>2
  <1>3. C = Nat
    <2>1. C \in SUBSET Nat
        OBVIOUS
    <2> HIDE DEF C
    <2> QED
        BY <1>1, <1>2, <2>1, NatSetInduction
  <1>4. B + 1 \in C
      BY <1>3
  <1> QED
      BY <1>4

\* What a function defined along a measure is at every point.
Unfolds(f, D, V, last, next, base, step) ==
    /\ f \in [D -> V]
    /\ f = [d \in D |-> IF d \in last THEN base[d] ELSE step[d][f[next[d]]]]

\* A definition along a measure has a value at every point.
LEMMA MeasuredRecursion ==
    ASSUME NEW D, NEW V, NEW B \in Nat, NEW m \in [D -> 0..B],
           NEW last, NEW next \in [D -> D],
           NEW base \in [D -> V], NEW step \in [D -> [V -> V]],
           \A d \in D : d \in last \/ m[next[d]] < m[d]
    PROVE  \E f : Unfolds(f, D, V, last, next, base, step)
  <1> DEFINE Upto(n) == {d \in D : m[d] < n}
             Value(f, d) == IF d \in last THEN base[d] ELSE step[d][f[next[d]]]
             Defined(n, f) == /\ f \in [Upto(n) -> V]
                              /\ \A d \in Upto(n) : f[d] = Value(f, d)
             C == {n \in Nat : \E f : Defined(n, f)}
  <1>1. 0 \in C
    <2>1. Upto(0) = {}
        OBVIOUS
    <2>2. Defined(0, [d \in {} |-> 0])
        BY <2>1
    <2> QED
        BY <2>2
  <1>2. ASSUME NEW n \in C PROVE n + 1 \in C
    <2>1. n \in Nat
        OBVIOUS
    <2>2. PICK f : Defined(n, f)
        OBVIOUS
    <2> DEFINE g == [d \in Upto(n + 1) |-> Value(f, d)]
    <2>3. \A d \in D : m[d] \in Nat
        OBVIOUS
    <2>4. \A d \in Upto(n) : d \in Upto(n + 1)
        BY <2>1, <2>3
    <2>5. \A d \in Upto(n + 1) : d \in last \/ next[d] \in Upto(n)
        BY <2>1, <2>3
    <2>6. \A d \in Upto(n) : g[d] = f[d]
        BY <2>2, <2>4
    <2>7. \A d \in Upto(n + 1) : g[d] = Value(g, d)
        BY <2>5, <2>6
    <2>8. \A d \in Upto(n + 1) : Value(f, d) \in V
      <3> TAKE d \in Upto(n + 1)
      <3>1. CASE d \in last
          BY <3>1
      <3>2. CASE d \notin last
        <4>1. f[next[d]] \in V
            BY <2>2, <2>5, <3>2
        <4>2. step[d] \in [V -> V]
            OBVIOUS
        <4> QED
            BY <3>2, <4>1, <4>2
      <3> QED
          BY <3>1, <3>2
    <2>9. Defined(n + 1, g)
        BY <2>7, <2>8
    <2> HIDE DEF Defined, g
    <2> QED
        BY <2>1, <2>9
  <1>3. C = Nat
    <2>1. C \in SUBSET Nat
        OBVIOUS
    <2> HIDE DEF C
    <2> QED
        BY <1>1, <1>2, <2>1, NatSetInduction
  <1>4. PICK f : Defined(B + 1, f)
    <2>1. B + 1 \in C
      <3> HIDE DEF C
      <3> QED
          BY <1>3
    <2> HIDE DEF Defined
    <2> QED
        BY <2>1
  <1>5. Upto(B + 1) = D
      OBVIOUS
  <1>6. f \in [D -> V] /\ \A d \in D : f[d] = Value(f, d)
      BY <1>4, <1>5
  <1>7. Unfolds(f, D, V, last, next, base, step)
      BY <1>6 DEF Unfolds
  <1> QED
      BY <1>7
-----------------------------------------------------------------------------
(* Ranks, and the smallest and largest member.                             *)

\* The values of a function on a finite set.
LEMMA FiniteImage ==
    ASSUME NEW S, IsFiniteSet(S), NEW f
    PROVE  IsFiniteSet({f[x] : x \in S}) /\ Cardinality({f[x] : x \in S}) <= Cardinality(S)
  <1> DEFINE V == {f[x] : x \in S}
             g == [x \in S |-> f[x]]
  <1>1. g \in Surjection(S, V)
      BY DEF Surjection
  <1> HIDE DEF g, V
  <1>2. IsFiniteSet(V) /\ Cardinality(V) <= Cardinality(S)
      BY <1>1, FS_Surjection
  <1> QED
      BY <1>2 DEF V

\* How many members have a smaller key.
RankOf(S, key, x) == Cardinality({y \in S : key[y] < key[x]})

\* Different keys give different ranks, in the same order.
LEMMA RanksDiffer ==
    ASSUME NEW S, IsFiniteSet(S), NEW key, \A x \in S : key[x] \in Int,
           \A x, y \in S : key[x] = key[y] => x = y
    PROVE  /\ \A x \in S : RankOf(S, key, x) \in 0..(Cardinality(S) - 1)
           /\ \A x, y \in S : key[x] < key[y] <=> RankOf(S, key, x) < RankOf(S, key, y)
  <1> DEFINE Below(x) == {y \in S : key[y] < key[x]}
  <1>1. \A x \in S : IsFiniteSet(Below(x)) /\ Cardinality(Below(x)) \in Nat
      BY FS_Subset, FS_CardinalityType
  <1>2. ASSUME NEW x \in S PROVE Cardinality(Below(x)) <= Cardinality(S) - 1
    <2>1. IsFiniteSet(S \ {x}) /\ Cardinality(S \ {x}) = Cardinality(S) - 1
        BY FS_RemoveElement
    <2>2. Below(x) \in SUBSET (S \ {x})
        OBVIOUS
    <2> HIDE DEF Below
    <2> QED
        BY <2>1, <2>2, FS_Subset
  <1>3. ASSUME NEW x \in S, NEW y \in S, key[x] < key[y]
        PROVE  Cardinality(Below(x)) < Cardinality(Below(y))
    <2>1. Below(x) \in SUBSET Below(y)
        BY <1>3
    <2>2. x \in Below(y) /\ x \notin Below(x)
        BY <1>3
    <2>3. IsFiniteSet(Below(y)) /\ Cardinality(Below(y)) \in Nat /\ Cardinality(Below(x)) \in Nat
        BY <1>1
    <2> HIDE DEF Below
    <2>4. Cardinality(Below(x)) <= Cardinality(Below(y)) /\ Cardinality(Below(x)) # Cardinality(Below(y))
        BY <2>1, <2>2, <2>3, FS_Subset
    <2> QED
        BY <2>3, <2>4
  <1>4. \A x, y \in S : key[x] < key[y] \/ key[y] < key[x] \/ x = y
      OBVIOUS
  <1>5. Cardinality(S) \in Nat
      BY FS_CardinalityType
  <1> HIDE DEF Below
  <1>6. \A x \in S : Cardinality(Below(x)) \in 0..(Cardinality(S) - 1)
      BY <1>1, <1>2, <1>5
  <1>7. ASSUME NEW x \in S, NEW y \in S
        PROVE  key[x] < key[y] <=> Cardinality(Below(x)) < Cardinality(Below(y))
      BY <1>1, <1>3, <1>4
  <1> QED
      BY <1>6, <1>7 DEF RankOf, Below

\* Every rank is somebody's.
LEMMA RanksFound ==
    ASSUME NEW S, IsFiniteSet(S), NEW key, \A x \in S : key[x] \in Int,
           \A x, y \in S : key[x] = key[y] => x = y
    PROVE  \A i \in 0..(Cardinality(S) - 1) : \E x \in S : RankOf(S, key, x) = i
  <1> DEFINE n == Cardinality(S)
             r == [x \in S |-> RankOf(S, key, x)]
  <1>1. n \in Nat
      BY FS_CardinalityType
  <1>2. IsFiniteSet(0..(n - 1)) /\ Cardinality(0..(n - 1)) = n
    <2>1. 0 \in Int /\ n - 1 \in Int
        BY <1>1
    <2>2. Cardinality(0..(n - 1)) = IF 0 > n - 1 THEN 0 ELSE n - 1 - 0 + 1
        BY <2>1, FS_Interval
    <2> QED
        BY <1>1, <2>1, <2>2, FS_Interval
  <1>3. r \in Injection(S, 0..(n - 1))
    <2>1. r \in [S -> 0..(n - 1)]
        BY RanksDiffer
    <2>2. ASSUME NEW x \in S, NEW y \in S, r[x] = r[y] PROVE x = y
      <3>1. RankOf(S, key, x) = RankOf(S, key, y)
          BY <2>2
      <3>2. RankOf(S, key, x) \in Int
          BY RanksDiffer, <1>1
      <3>3. ~(key[x] < key[y]) /\ ~(key[y] < key[x])
          BY <3>1, <3>2, RanksDiffer
      <3> QED
          BY <3>3
    <2> HIDE DEF r
    <2> QED
        BY <2>1, <2>2 DEF Injection, IsInjective
  <1>4. r \in Surjection(S, 0..(n - 1))
    <2> HIDE DEF r, n
    <2> QED
        BY <1>2, <1>3, FS_Injection DEF n
  <1>5. \A i \in 0..(n - 1) : \E x \in S : r[x] = i
    <2> HIDE DEF r, n
    <2> QED
        BY <1>4 DEF Surjection
  <1> QED
      BY <1>5

\* The members by growing keys.
ByRank(S, key) == [i \in 1..Cardinality(S) |-> CHOOSE x \in S : RankOf(S, key, x) = i - 1]

\* Every member is listed once, by growing keys.
LEMMA ByRankLists ==
    ASSUME NEW S, IsFiniteSet(S), NEW key, \A x \in S : key[x] \in Int,
           \A x, y \in S : key[x] = key[y] => x = y
    PROVE  /\ Cardinality(S) \in Nat
           /\ ByRank(S, key) \in [1..Cardinality(S) -> S]
           /\ \A i, j \in 1..Cardinality(S) :
                 i < j => key[ByRank(S, key)[i]] < key[ByRank(S, key)[j]]
           /\ \A x \in S : \E i \in 1..Cardinality(S) : ByRank(S, key)[i] = x
  <1> DEFINE n == Cardinality(S)
             o == ByRank(S, key)
  <1>1. n \in Nat
      BY FS_CardinalityType
  <1>2. o = [i \in 1..n |-> CHOOSE x \in S : RankOf(S, key, x) = i - 1]
      BY DEF ByRank
  <1>3. ASSUME NEW i \in 1..n PROVE o[i] \in S /\ RankOf(S, key, o[i]) = i - 1
    <2>1. i - 1 \in 0..(n - 1)
        BY <1>1
    <2>2. \E x \in S : RankOf(S, key, x) = i - 1
        BY <2>1, RanksFound
    <2>3. o[i] = CHOOSE x \in S : RankOf(S, key, x) = i - 1
        BY <1>2
    <2> HIDE DEF o, n
    <2> QED
        BY <2>2, <2>3
  <1>4. o \in [1..n -> S]
    <2> HIDE DEF n
    <2>1. o = [i \in 1..n |-> o[i]]
        BY <1>2
    <2> HIDE DEF o
    <2> QED
        BY <1>3, <2>1
  <1>5. ASSUME NEW i \in 1..n, NEW j \in 1..n, i < j PROVE key[o[i]] < key[o[j]]
    <2> HIDE DEF o
    <2>1. RankOf(S, key, o[i]) < RankOf(S, key, o[j])
        BY <1>1, <1>3, <1>5
    <2> QED
        BY <1>3, <2>1, RanksDiffer
  <1>6. ASSUME NEW x \in S PROVE \E i \in 1..n : o[i] = x
    <2>1. RankOf(S, key, x) \in 0..(n - 1)
        BY RanksDiffer
    <2>2. PICK i \in 1..n : i - 1 = RankOf(S, key, x)
        BY <1>1, <2>1
    <2> HIDE DEF o
    <2>3. o[i] \in S /\ RankOf(S, key, o[i]) = RankOf(S, key, x)
        BY <1>3, <2>2
    <2>4. ~(key[x] < key[o[i]]) /\ ~(key[o[i]] < key[x])
      <3>1. RankOf(S, key, x) \in Int
          BY <1>1, <2>1
      <3> QED
          BY <2>3, <3>1, RanksDiffer
    <2> QED
        BY <2>3, <2>4
  <1> QED
      BY <1>1, <1>4, <1>5, <1>6

\* Those of the lowest ranks.
Lowest(S, key, e) == {x \in S : RankOf(S, key, x) < e}

\* As many members have one of the e lowest ranks as there are, up to e.
LEMMA LowestRanks ==
    ASSUME NEW S, IsFiniteSet(S), NEW key, \A x \in S : key[x] \in Int,
           \A x, y \in S : key[x] = key[y] => x = y, NEW e \in Nat
    PROVE  Cardinality(Lowest(S, key, e)) = IF Cardinality(S) <= e THEN Cardinality(S) ELSE e
  <1> DEFINE n == Cardinality(S)
             T == {x \in S : RankOf(S, key, x) < e}
             k == IF n <= e THEN n ELSE e
             r == [x \in T |-> RankOf(S, key, x)]
  <1>1. n \in Nat /\ k \in Nat
      BY FS_CardinalityType
  <1>2. IsFiniteSet(T)
      BY FS_Subset
  <1>3. \A x \in S : RankOf(S, key, x) \in 0..(n - 1)
      BY RanksDiffer
  <1>4. r \in [T -> 0..(k - 1)]
      BY <1>1, <1>3
  <1>5. \A i \in 0..(k - 1) : \E x \in T : r[x] = i
    <2> TAKE i \in 0..(k - 1)
    <2>1. i \in 0..(n - 1) /\ i < e
        BY <1>1
    <2>2. PICK x \in S : RankOf(S, key, x) = i
      <3>1. \A j \in 0..(n - 1) : \E x \in S : RankOf(S, key, x) = j
          BY RanksFound
      <3> QED
          BY <2>1, <3>1
    <2> QED
        BY <2>1, <2>2
  <1>6. \A x, y \in T : r[x] = r[y] => x = y
    <2> TAKE x, y \in T
    <2> HAVE r[x] = r[y]
    <2>1. RankOf(S, key, x) = RankOf(S, key, y) /\ x \in S /\ y \in S
        OBVIOUS
    <2>2. RankOf(S, key, x) \in Int
        BY <1>1, <1>3, <2>1
    <2>3. ~(key[x] < key[y]) /\ ~(key[y] < key[x])
        BY <2>1, <2>2, RanksDiffer
    <2> QED
        BY <2>1, <2>3
  <1> HIDE DEF r, T, k
  <1>7. r \in Surjection(T, 0..(k - 1)) /\ r \in Injection(T, 0..(k - 1))
      BY <1>4, <1>5, <1>6 DEF Surjection, Injection, IsInjective
  <1>8. Cardinality(0..(k - 1)) = Cardinality(T)
      BY <1>2, <1>7, FS_Surjection
  <1>9. Cardinality(0..(k - 1)) = k
    <2>1. 0 \in Int /\ k - 1 \in Int
        BY <1>1
    <2>2. Cardinality(0..(k - 1)) = IF 0 > k - 1 THEN 0 ELSE k - 1 - 0 + 1
        BY <2>1, FS_Interval
    <2> QED
        BY <1>1, <2>2
  <1> QED
      BY <1>8, <1>9 DEF T, k, Lowest

\* Min and Max are what their names say.
LEMMA MinOf ==
    ASSUME NEW S, IsFiniteSet(S), S # {}, S \subseteq Int
    PROVE  Min(S) \in S /\ \A y \in S : Min(S) <= y
  <1> DEFINE key == [x \in S |-> x]
  <1>1. Cardinality(S) \in Nat /\ Cardinality(S) # 0
      BY FS_CardinalityType, FS_EmptySet
  <1>2. PICK x \in S : RankOf(S, key, x) = 0
    <2>1. 0 \in 0..(Cardinality(S) - 1)
        BY <1>1
    <2>2. \A i \in 0..(Cardinality(S) - 1) : \E x \in S : RankOf(S, key, x) = i
      <3>1. \A x \in S : key[x] \in Int /\ \A y \in S : key[x] = key[y] => x = y
          OBVIOUS
      <3> HIDE DEF key
      <3> QED
          BY <3>1, RanksFound
    <2> QED
        BY <2>1, <2>2
  <1>3. {y \in S : key[y] < key[x]} = {}
    <2>1. IsFiniteSet({y \in S : key[y] < key[x]})
        BY FS_Subset
    <2> QED
        BY <1>2, <2>1, FS_EmptySet DEF RankOf
  <1>4. \A y \in S : ~(key[y] < key[x])
      BY <1>3
  <1>5. \A y \in S : x <= y
      BY <1>4
  <1> QED
      BY <1>5 DEF Min

\* The largest likewise.
LEMMA MaxOf ==
    ASSUME NEW S, IsFiniteSet(S), S # {}, S \subseteq Int
    PROVE  Max(S) \in S /\ \A y \in S : Max(S) >= y
  <1> DEFINE key == [x \in S |-> 0 - x]
  <1>1. Cardinality(S) \in Nat /\ Cardinality(S) # 0
      BY FS_CardinalityType, FS_EmptySet
  <1>2. PICK x \in S : RankOf(S, key, x) = 0
    <2>1. 0 \in 0..(Cardinality(S) - 1)
        BY <1>1
    <2>2. \A i \in 0..(Cardinality(S) - 1) : \E x \in S : RankOf(S, key, x) = i
      <3>1. \A x \in S : key[x] \in Int /\ \A y \in S : key[x] = key[y] => x = y
          OBVIOUS
      <3> HIDE DEF key
      <3> QED
          BY <3>1, RanksFound
    <2> QED
        BY <2>1, <2>2
  <1>3. {y \in S : key[y] < key[x]} = {}
    <2>1. IsFiniteSet({y \in S : key[y] < key[x]})
        BY FS_Subset
    <2> QED
        BY <1>2, <2>1, FS_EmptySet DEF RankOf
  <1>4. \A y \in S : ~(key[y] < key[x])
      BY <1>3
  <1>5. \A y \in S : x >= y
      BY <1>4
  <1> QED
      BY <1>5 DEF Max

\* The smaller and the larger of two numbers.
LEMMA MinMaxOfTwo ==
    ASSUME NEW a \in Int, NEW b \in Int
    PROVE  /\ Min({a, b}) = IF a <= b THEN a ELSE b
           /\ Max({a, b}) = IF a >= b THEN a ELSE b
  <1>1. IsFiniteSet({a, b})
    <2>1. IsFiniteSet({a} \cup {b}) /\ {a} \cup {b} = {a, b}
        BY FS_Singleton, FS_AddElement
    <2> QED
        BY <2>1
  <1>2. {a, b} # {} /\ {a, b} \subseteq Int
      OBVIOUS
  <1>3. /\ Min({a, b}) \in {a, b} /\ \A y \in {a, b} : Min({a, b}) <= y
        /\ Max({a, b}) \in {a, b} /\ \A y \in {a, b} : Max({a, b}) >= y
      BY <1>1, <1>2, MinOf, MaxOf
  <1> QED
      BY <1>3

\* An interval's first and last member.
LEMMA IntervalEnds ==
    ASSUME NEW a \in Int, NEW b \in Int, a <= b
    PROVE  Min(a..b) = a /\ Max(a..b) = b
  <1>1. IsFiniteSet(a..b)
      BY FS_Interval
  <1>0. a..b # {} /\ a..b \subseteq Int
      OBVIOUS
  <1>2. /\ Min(a..b) \in a..b /\ \A y \in a..b : Min(a..b) <= y
        /\ Max(a..b) \in a..b /\ \A y \in a..b : Max(a..b) >= y
      BY <1>0, <1>1, MinOf, MaxOf
  <1>3. a \in a..b /\ b \in a..b
      OBVIOUS
  <1> QED
      BY <1>2, <1>3
-----------------------------------------------------------------------------
(* Sums over the first members of a sequence.                              *)

\* The sum over the first members of a sequence.
LEMMA SumOfFirst ==
    ASSUME NEW k \in Nat, NEW f, \A i \in 1..k : f[i] \in Nat
    PROVE  /\ SumFunctionOnSet(f, 1..0) = 0
           /\ \A j \in 0..k : SumFunctionOnSet(f, 1..j) \in Nat
           /\ \A j \in 1..k : SumFunctionOnSet(f, 1..j) = f[j] + SumFunctionOnSet(f, 1..(j - 1))
           /\ \A i, j \in 0..k : i <= j => SumFunctionOnSet(f, 1..i) <= SumFunctionOnSet(f, 1..j)
  <1> DEFINE sum(j) == SumFunctionOnSet(f, 1..j)
  <1>1. sum(0) = 0
    <2>1. 1..0 = {}
        OBVIOUS
    <2> QED
        BY <2>1, SumOfNone
  <1>2. ASSUME NEW j \in 0..k PROVE sum(j) \in Nat
    <2>1. IsFiniteSet(1..j) /\ \A i \in 1..j : f[i] \in Nat
        BY FS_Interval
    <2> QED
        BY <2>1, SumType
  <1>3. ASSUME NEW j \in 1..k PROVE sum(j) = f[j] + sum(j - 1)
    <2>1. IsFiniteSet(1..j) /\ (\A i \in 1..j : f[i] \in Int) /\ j \in 1..j
        BY FS_Interval
    <2>2. (1..j) \ {j} = 1..(j - 1)
        OBVIOUS
    <2>3. SumFunctionOnSet(f, 1..j) = f[j] + SumFunctionOnSet(f, (1..j) \ {j})
        BY <2>1, SumRemove
    <2> QED
        BY <2>2, <2>3
  <1> HIDE DEF sum
  <1>4. \A i, j \in 0..k : i <= j => sum(i) <= sum(j)
    <2> DEFINE P == {j \in Nat : j <= k => \A i \in 0..j : sum(i) <= sum(j)}
    <2>1. 0 \in P
        BY <1>1
    <2>2. ASSUME NEW j \in P PROVE j + 1 \in P
      <3> SUFFICES ASSUME j + 1 <= k, NEW i \in 0..(j + 1) PROVE sum(i) <= sum(j + 1)
          OBVIOUS
      <3>1. j \in Nat /\ j \in 0..k /\ j + 1 \in 1..k /\ (j + 1) - 1 = j
          OBVIOUS
      <3>2. sum(j + 1) = f[j + 1] + sum(j) /\ f[j + 1] \in Nat /\ sum(j) \in Nat
          BY <1>2, <1>3, <3>1
      <3>3. CASE i = j + 1
          BY <3>2, <3>3
      <3>4. CASE i \in 0..j
        <4>1. sum(i) <= sum(j) /\ sum(i) \in Nat
            BY <1>2, <3>1, <3>4
        <4> QED
            BY <3>2, <4>1
      <3> QED
          BY <3>1, <3>3, <3>4
    <2>3. P = Nat
      <3>1. P \in SUBSET Nat
          OBVIOUS
      <3> HIDE DEF P
      <3> QED
          BY <2>1, <2>2, <3>1, NatSetInduction
    <2> TAKE i, j \in 0..k
    <2> HAVE i <= j
    <2>4. j \in P
        BY <2>3
    <2> QED
        BY <2>4
  <1> QED
      BY <1>1, <1>2, <1>3, <1>4 DEF sum
-----------------------------------------------------------------------------
(* Products and quotients.                                                 *)

\* One product is at most another one.
LEMMA ProductsGrow ==
    ASSUME NEW e \in Nat, NEW p \in Nat, NEW q \in Nat, p <= q
    PROVE  e * p <= e * q /\ e * p \in Nat /\ e * q \in Nat
  <1>1. PICK x \in Nat : q = p + x
    <2>1. q - p \in Nat /\ q = p + (q - p)
        OBVIOUS
    <2> QED
        BY <2>1
  <1>2. e * q = e * p + e * x
      BY <1>1
  <1>3. e * x \in Nat /\ e * p \in Nat
      BY <1>1
  <1> QED
      BY <1>2, <1>3

\* A factor keeps an order.
LEMMA ProductsGrowStrictly ==
    ASSUME NEW e \in Nat \ {0}, NEW p \in Nat, NEW q \in Nat, p < q
    PROVE  e * p + e <= e * q /\ e * p < e * q /\ e * p \in Nat /\ e * q \in Nat
  <1>1. PICK x \in Nat : q = p + 1 + x
    <2>1. q - p - 1 \in Nat /\ q = p + 1 + (q - p - 1)
        OBVIOUS
    <2> QED
        BY <2>1
  <1>2. e * q = e * p + e + e * x
      BY <1>1
  <1>3. e * x \in Nat /\ e * p \in Nat
      BY <1>1
  <1> QED
      BY <1>2, <1>3

\* Pairs in the order of one number, the greatest first, and then of another.
LEMMA Lexicographic ==
    ASSUME NEW k \in Nat, NEW a \in 0..k, NEW b \in 0..k, NEW x \in Nat, NEW y \in Nat
    PROVE  /\ a - (k + 1) * x \in Int
           /\ a - (k + 1) * x < b - (k + 1) * y <=> x > y \/ (x = y /\ a < b)
           /\ a - (k + 1) * x = b - (k + 1) * y => x = y /\ a = b
  <1>1. (k + 1) * x \in Nat /\ (k + 1) * y \in Nat /\ k + 1 \in Nat \ {0}
      BY ProductsGrow
  <1>2. x > y => (k + 1) * y + (k + 1) <= (k + 1) * x
      BY <1>1, ProductsGrowStrictly
  <1>3. y > x => (k + 1) * x + (k + 1) <= (k + 1) * y
      BY <1>1, ProductsGrowStrictly
  <1>4. x = y => (k + 1) * x = (k + 1) * y
      OBVIOUS
  <1> DEFINE p == (k + 1) * x
             q == (k + 1) * y
  <1> HIDE DEF p, q
  <1>5. p \in Nat /\ q \in Nat
      BY <1>1 DEF p, q
  <1>6. /\ x > y => q + (k + 1) <= p
        /\ y > x => p + (k + 1) <= q
        /\ x = y => p = q
      BY <1>2, <1>3, <1>4 DEF p, q
  <1>7. x > y \/ y > x \/ x = y
      OBVIOUS
  <1>8. /\ a - p \in Int
        /\ a - p < b - q <=> x > y \/ (x = y /\ a < b)
        /\ a - p = b - q => x = y /\ a = b
    <2>1. CASE x > y
        BY <1>5, <1>6, <2>1
    <2>2. CASE y > x
        BY <1>5, <1>6, <2>2
    <2>3. CASE x = y
        BY <1>5, <1>6, <2>3
    <2> QED
        BY <1>7, <2>1, <2>2, <2>3
  <1> QED
      BY <1>8 DEF p, q

\* Division with remainder.
LEMMA Quotient ==
    ASSUME NEW a \in Nat, NEW e \in Nat \ {0}
    PROVE  /\ a \div e \in Nat
           /\ e * (a \div e) <= a
           /\ a < e * (a \div e) + e
  BY SMTT(30)

\* No other number is the quotient.
LEMMA QuotientIs ==
    ASSUME NEW a \in Nat, NEW e \in Nat \ {0}, NEW q \in Nat, e * q <= a, a < e * q + e
    PROVE  a \div e = q
  <1> DEFINE p == a \div e
  <1>1. p \in Nat /\ e * p <= a /\ a < e * p + e
      BY Quotient
  <1> HIDE DEF p
  <1>2. ~(p < q)
    <2> SUFFICES ASSUME p < q PROVE FALSE
        OBVIOUS
    <2>1. PICK x \in Nat : q = p + 1 + x
      <3>1. q - p - 1 \in Nat /\ q = p + 1 + (q - p - 1)
          BY <1>1
      <3> QED
          BY <3>1
    <2>2. e * q = e * p + e + e * x
        BY <1>1, <2>1
    <2>3. e * x \in Nat /\ e * p \in Nat
        BY <1>1, <2>1
    <2> QED
        BY <1>1, <2>2, <2>3
  <1>3. ~(q < p)
    <2> SUFFICES ASSUME q < p PROVE FALSE
        OBVIOUS
    <2>1. PICK x \in Nat : p = q + 1 + x
      <3>1. p - q - 1 \in Nat /\ p = q + 1 + (p - q - 1)
          BY <1>1
      <3> QED
          BY <3>1
    <2>2. e * p = e * q + e + e * x
        BY <1>1, <2>1
    <2>3. e * x \in Nat /\ e * q \in Nat
        BY <1>1, <2>1
    <2> QED
        BY <1>1, <2>2, <2>3
  <1> QED
      BY <1>1, <1>2, <1>3 DEF p
=============================================================================
