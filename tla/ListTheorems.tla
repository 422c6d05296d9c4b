---------------------------- MODULE ListTheorems ----------------------------
(***************************************************************************)
(* Facts the proofs of the project share: induction over numbers and over  *)
(* finite sets, stated for a set instead of for a predicate; sums; and     *)
(* what counting, filtering and cutting do to a list.                      *)
(***************************************************************************)
EXTENDS Lists, FiniteSetsExt, Functions, FiniteSetTheorems, SequenceTheorems,
        WellFoundedInduction, TLAPS

\* A set that holds 0 and the successor of every number in it holds all.
LEMMA SetInduction ==
    ASSUME NEW S, 0 \in S, \A n \in Nat : n \in S => n + 1 \in S
    PROVE  Nat \subseteq S
<1> DEFINE Less == {ss \in Nat \X Nat : ss[1] < ss[2]}
           Missing == Nat \ S
<1>1. IsWellFoundedOn(Less, Nat)
    BY NatLessThanWellFounded, Zenon DEF OpToRel
<1>2. SUFFICES ASSUME Missing # {} PROVE FALSE
    OBVIOUS
<1>3. Missing \subseteq Nat
    OBVIOUS
<1> HIDE DEF Missing, Less
<1>4. PICK x \in Missing : \A y \in Missing : ~(<<y, x>> \in Less)
    BY <1>1, <1>2, <1>3, WFMin
<1>5. x \in Nat /\ x # 0 /\ x - 1 \in Nat /\ x - 1 < x
    BY <1>4 DEF Missing
<1>6. <<x - 1, x>> \in Less
    BY <1>5 DEF Less
<1>7. x - 1 \in S
    BY <1>4, <1>5, <1>6 DEF Missing
<1>8. (x - 1) + 1 \in S
    BY <1>5, <1>7
<1> QED BY <1>4, <1>5, <1>8 DEF Missing

\* A set that holds {} and grows with its members by one element holds every
\* subset of a finite set.
LEMMA SubsetInduction ==
    ASSUME NEW S, IsFiniteSet(S), NEW G, {} \in G,
           \A T \in SUBSET S : \A x \in S \ T : T \in G => T \cup {x} \in G
    PROVE  SUBSET S \subseteq G
<1> DEFINE Good == {n \in Nat : \A T \in SUBSET S : Cardinality(T) = n => T \in G}
<1>1. \A T \in SUBSET S : IsFiniteSet(T) /\ Cardinality(T) \in Nat
    BY FS_Subset, FS_CardinalityType
<1>2. 0 \in Good
    BY <1>1, FS_EmptySet
<1>3. ASSUME NEW n \in Nat, n \in Good PROVE n + 1 \in Good
  <2> SUFFICES ASSUME NEW T \in SUBSET S, Cardinality(T) = n + 1 PROVE T \in G
    OBVIOUS
  <2>1. T # {}
    BY <1>1, FS_EmptySet
  <2>2. PICK x : x \in T
    BY <2>1
  <2>3. T \ {x} \in SUBSET S /\ Cardinality(T \ {x}) = n
    <3>1. Cardinality(T \ {x}) = Cardinality(T) - 1
      BY <1>1, <2>2, FS_RemoveElement
    <3> QED BY <3>1
  <2>4. T \ {x} \in G
    BY <1>3, <2>3
  <2>5. (T \ {x}) \cup {x} = T /\ x \in S \ (T \ {x})
    BY <2>2
  <2> QED BY <2>3, <2>4, <2>5
<1>4. Nat \subseteq Good
  <2> HIDE DEF Good
  <2> QED BY <1>2, <1>3, SetInduction
<1> QED BY <1>1, <1>4
-----------------------------------------------------------------------------
(* Sums: SumFunctionOnSet of the community module Functions. *)

Some(s) == CHOOSE x \in s : TRUE
SumStep(f, sum, s) == IF s = {} THEN 0 ELSE f[Some(s)] + sum[s \ {Some(s)}]
IsSum(f, sum, S) == sum = [s \in SUBSET S |-> SumStep(f, sum, s)]

\* The recursion that defines a sum has a solution.
LEMMA SumDefined ==
    ASSUME NEW f, NEW S, IsFiniteSet(S) PROVE \E sum : IsSum(f, sum, S)
<1> DEFINE Part(n) == {s \in SUBSET S : Cardinality(s) <= n}
           Good == {n \in Nat : \E sum : sum = [s \in Part(n) |-> SumStep(f, sum, s)]}
<1>1. \A s \in SUBSET S : /\ IsFiniteSet(s) /\ Cardinality(s) \in Nat
                          /\ s # {} => /\ Some(s) \in s
                                       /\ s \ {Some(s)} \in SUBSET S
                                       /\ Cardinality(s \ {Some(s)}) = Cardinality(s) - 1
    BY FS_Subset, FS_CardinalityType, FS_RemoveElement DEF Some
<1>2. 0 \in Good
  <2> DEFINE sum == [s \in Part(0) |-> 0]
  <2>1. ASSUME NEW s \in Part(0) PROVE s = {}
    <3>1. s \in SUBSET S /\ Cardinality(s) <= 0
      OBVIOUS
    <3>2. IsFiniteSet(s) /\ Cardinality(s) \in Nat
      BY <1>1, <3>1
    <3>3. Cardinality(s) = 0
      BY <3>1, <3>2
    <3> QED BY <3>2, <3>3, FS_EmptySet
  <2>2. sum = [s \in Part(0) |-> SumStep(f, sum, s)]
    BY <2>1 DEF SumStep
  <2> HIDE DEF sum
  <2>3. \E u : u = [s \in Part(0) |-> SumStep(f, u, s)]
    BY <2>2, Zenon
  <2> QED BY <2>3
<1>3. ASSUME NEW n \in Nat, n \in Good PROVE n + 1 \in Good
  <2>1. PICK sum : sum = [s \in Part(n) |-> SumStep(f, sum, s)]
    BY <1>3
  <2> DEFINE more == [s \in Part(n + 1) |-> SumStep(f, sum, s)]
  <2>2. ASSUME NEW s \in Part(n) PROVE s \in Part(n + 1)
    <3>1. s \in SUBSET S /\ Cardinality(s) <= n /\ Cardinality(s) \in Nat
      BY <1>1
    <3> QED BY <3>1
  <2>3. \A s \in Part(n) : more[s] = sum[s]
    BY <2>1, <2>2
  <2>4. \A s \in Part(n + 1) : s = {} \/ s \ {Some(s)} \in Part(n)
    BY <1>1
  <2>5. \A s \in Part(n + 1) : SumStep(f, sum, s) = SumStep(f, more, s)
    <3> HIDE DEF more, Part
    <3> QED BY <2>3, <2>4 DEF SumStep
  <2>6. more = [s \in Part(n + 1) |-> SumStep(f, more, s)]
    BY <2>5, Zenon
  <2> HIDE DEF more
  <2>7. \E u : u = [s \in Part(n + 1) |-> SumStep(f, u, s)]
    BY <2>6, Zenon
  <2> QED BY <2>7
<1>4. Nat \subseteq Good
  <2> HIDE DEF Good
  <2> QED BY <1>2, <1>3, SetInduction
<1>5. Cardinality(S) \in Good
    BY <1>1, <1>4
<1>6. Part(Cardinality(S)) = SUBSET S
    BY <1>1, FS_Subset
<1> HIDE DEF Part
<1> QED BY <1>5, <1>6, Zenon DEF IsSum

\* SumFunctionOnSet is that solution.
LEMMA SumIs ==
    ASSUME NEW f, NEW S, IsFiniteSet(S)
    PROVE  \E sum : IsSum(f, sum, S) /\ SumFunctionOnSet(f, S) = sum[S]
<1> DEFINE sum == CHOOSE sum : IsSum(f, sum, S)
<1>1. IsSum(f, sum, S)
    BY SumDefined
<1>2. SumFunctionOnSet(f, S) = sum[S]
    BY Zenon DEF SumFunctionOnSet, FoldFunctionOnSet, MapThenFoldSet, IsSum, SumStep, Some
<1> QED BY <1>1, <1>2

\* Two such sums, of functions that agree, agree on what they share.
LEMMA SumUnique ==
    ASSUME NEW f, NEW g, NEW S, IsFiniteSet(S), NEW T, T \subseteq S,
           \A x \in T : f[x] = g[x],
           NEW sum, IsSum(f, sum, S), NEW part, IsSum(g, part, T)
    PROVE  part[T] = sum[T]
<1> DEFINE Good == {n \in Nat : \A s \in SUBSET T : Cardinality(s) = n => part[s] = sum[s]}
<1>1. IsFiniteSet(T)
    BY FS_Subset
<1>2. \A s \in SUBSET T : /\ IsFiniteSet(s) /\ Cardinality(s) \in Nat
                          /\ s # {} => /\ Some(s) \in s
                                       /\ s \ {Some(s)} \in SUBSET T
                                       /\ Cardinality(s \ {Some(s)}) = Cardinality(s) - 1
    BY <1>1, FS_Subset, FS_CardinalityType, FS_RemoveElement DEF Some
<1>3. \A s \in SUBSET T : part[s] = SumStep(g, part, s) /\ sum[s] = SumStep(f, sum, s)
    BY DEF IsSum
<1>4. 0 \in Good
  <2> SUFFICES ASSUME NEW s \in SUBSET T, Cardinality(s) = 0 PROVE part[s] = sum[s]
    OBVIOUS
  <2>1. s = {}
    BY <1>2, FS_EmptySet
  <2> QED BY <1>3, <2>1 DEF SumStep
<1>5. ASSUME NEW n \in Nat, n \in Good PROVE n + 1 \in Good
  <2> SUFFICES ASSUME NEW s \in SUBSET T, Cardinality(s) = n + 1 PROVE part[s] = sum[s]
    OBVIOUS
  <2>1. s # {}
    BY FS_EmptySet
  <2>2. s \ {Some(s)} \in SUBSET T /\ Cardinality(s \ {Some(s)}) = n /\ Some(s) \in T
    BY <1>2, <2>1
  <2>3. part[s \ {Some(s)}] = sum[s \ {Some(s)}]
    BY <1>5, <2>2
  <2> QED BY <1>3, <2>1, <2>2, <2>3 DEF SumStep
<1>6. Nat \subseteq Good
  <2> HIDE DEF Good
  <2> QED BY <1>4, <1>5, SetInduction
<1> QED BY <1>2, <1>6

\* Only the values on the set count.
LEMMA SumAgree ==
    ASSUME NEW f, NEW g, NEW S, IsFiniteSet(S), \A x \in S : f[x] = g[x]
    PROVE  SumFunctionOnSet(f, S) = SumFunctionOnSet(g, S)
<1>1. PICK sum : IsSum(f, sum, S) /\ SumFunctionOnSet(f, S) = sum[S]
    BY SumIs
<1>2. PICK part : IsSum(g, part, S) /\ SumFunctionOnSet(g, S) = part[S]
    BY SumIs
<1>3. part[S] = sum[S]
    BY <1>1, <1>2, SumUnique
<1> QED BY <1>1, <1>2, <1>3

\* The empty sum, and the sum of a set from which an element was chosen.
LEMMA SumChosen ==
    ASSUME NEW f, NEW S, IsFiniteSet(S)
    PROVE  /\ S = {} => SumFunctionOnSet(f, S) = 0
           /\ S # {} => /\ Some(S) \in S
                        /\ SumFunctionOnSet(f, S)
                             = f[Some(S)] + SumFunctionOnSet(f, S \ {Some(S)})
<1>1. PICK sum : IsSum(f, sum, S) /\ SumFunctionOnSet(f, S) = sum[S]
    BY SumIs
<1>2. sum[S] = SumStep(f, sum, S)
    BY <1>1 DEF IsSum
<1>3. ASSUME S # {}
      PROVE  Some(S) \in S /\ SumFunctionOnSet(f, S \ {Some(S)}) = sum[S \ {Some(S)}]
  <2> DEFINE T == S \ {Some(S)}
  <2>1. IsFiniteSet(T) /\ T \subseteq S
    BY FS_RemoveElement
  <2>2. Some(S) \in S
    BY <1>3 DEF Some
  <2> HIDE DEF T
  <2>3. PICK part : IsSum(f, part, T) /\ SumFunctionOnSet(f, T) = part[T]
    BY <2>1, SumIs
  <2>4. part[T] = sum[T]
    BY <1>1, <2>1, <2>3, SumUnique
  <2>5. SumFunctionOnSet(f, T) = sum[T]
    BY <2>3, <2>4
  <2> QED BY <2>2, <2>5 DEF T
<1> QED BY <1>1, <1>2, <1>3 DEF SumStep

\* A sum of integers is an integer, and any element can be taken out of it.
LEMMA SumRemove ==
    ASSUME NEW f, NEW S, IsFiniteSet(S), \A x \in S : f[x] \in Int
    PROVE  /\ SumFunctionOnSet(f, S) \in Int
           /\ \A x \in S : SumFunctionOnSet(f, S) = f[x] + SumFunctionOnSet(f, S \ {x})
<1> DEFINE Sum(T) == SumFunctionOnSet(f, T)
           Fine(T) == Sum(T) \in Int /\ \A x \in T : Sum(T) = f[x] + Sum(T \ {x})
           Good == {n \in Nat : \A T \in SUBSET S : Cardinality(T) <= n => Fine(T)}
<1>1. \A T \in SUBSET S : IsFiniteSet(T) /\ Cardinality(T) \in Nat
    BY FS_Subset, FS_CardinalityType
<1>2. \A T \in SUBSET S : \A x \in T : T \ {x} \in SUBSET S /\ Cardinality(T \ {x}) = Cardinality(T) - 1
    BY <1>1, FS_RemoveElement
<1>3. 0 \in Good
  <2> SUFFICES ASSUME NEW T \in SUBSET S, Cardinality(T) <= 0 PROVE Fine(T)
    OBVIOUS
  <2>0. Cardinality(T) = 0
    BY <1>1
  <2>1. T = {}
    BY <1>1, <2>0, FS_EmptySet
  <2>2. Sum(T) = 0
    BY <1>1, <2>1, SumChosen
  <2> QED BY <2>1, <2>2
<1>4. ASSUME NEW n \in Nat, n \in Good PROVE n + 1 \in Good
  <2> SUFFICES ASSUME NEW T \in SUBSET S, Cardinality(T) = n + 1 PROVE Fine(T)
    <3>1. \A T \in SUBSET S : Cardinality(T) <= n + 1 => Cardinality(T) <= n \/ Cardinality(T) = n + 1
      BY <1>1
    <3> HIDE DEF Fine
    <3> QED BY <1>4, <3>1
  <2> DEFINE c == Some(T)
  <2>1. T # {}
    BY FS_EmptySet
  <2>2. c \in T /\ Sum(T) = f[c] + Sum(T \ {c})
    BY <1>1, <2>1, SumChosen
  <2>3. \A x \in T : T \ {x} \in SUBSET S /\ Cardinality(T \ {x}) = n
    BY <1>2
  <2>4. \A x \in T : Fine(T \ {x})
    BY <1>4, <2>3
  <2>5. Sum(T) \in Int
    <3>1. Sum(T \ {c}) \in Int /\ f[c] \in Int
      BY <2>2, <2>4
    <3> HIDE DEF Sum, c
    <3> QED BY <2>2, <3>1
  <2>6. ASSUME NEW x \in T PROVE Sum(T) = f[x] + Sum(T \ {x})
    <3>1. CASE x = c
      BY <2>2, <3>1
    <3>2. CASE x # c
      <4> DEFINE U == (T \ {x}) \ {c}
      <4>1. x \in T \ {c} /\ c \in T \ {x} /\ (T \ {c}) \ {x} = U
        BY <2>2, <3>2
      <4>2. Sum(T \ {c}) = f[x] + Sum(U)
        BY <2>2, <2>4, <4>1
      <4>3. Sum(T \ {x}) = f[c] + Sum(U) /\ Sum(T \ {x}) \in Int
        BY <2>4, <4>1
      <4>4. U \in SUBSET S /\ Cardinality(U) = n - 1
        BY <1>2, <2>3, <4>1
      <4>5. f[x] \in Int /\ f[c] \in Int
        BY <2>2
      <4>6. Sum(U) \in Int
        <5>1. n - 1 <= n
          OBVIOUS
        <5>2. Fine(U)
          BY <1>4, <4>4, <5>1
        <5> QED BY <5>2
      <4> HIDE DEF Sum, U, c
      <4> QED BY <2>2, <4>2, <4>3, <4>5, <4>6
    <3> QED BY <3>1, <3>2
  <2> QED BY <2>5, <2>6
<1>5. Nat \subseteq Good
  <2> HIDE DEF Good
  <2> QED BY <1>3, <1>4, SetInduction
<1>6. S \in SUBSET S /\ Cardinality(S) \in Nat
    BY <1>1
<1>7. Fine(S)
  <2> HIDE DEF Fine
  <2> QED BY <1>5, <1>6
<1> QED BY <1>7

\* The sum over nothing.
LEMMA SumEmpty == ASSUME NEW f PROVE SumFunctionOnSet(f, {}) = 0
BY SumChosen, FS_EmptySet

\* One more element.
LEMMA SumAdd ==
    ASSUME NEW f, NEW S, IsFiniteSet(S), NEW x, x \notin S, \A y \in S \cup {x} : f[y] \in Int
    PROVE  SumFunctionOnSet(f, S \cup {x}) = f[x] + SumFunctionOnSet(f, S)
<1> DEFINE T == S \cup {x}
<1>1. IsFiniteSet(T) /\ x \in T /\ T \ {x} = S
    BY FS_AddElement
<1> HIDE DEF T
<1>2. \A y \in T : f[y] \in Int
    BY DEF T
<1>3. SumFunctionOnSet(f, T) = f[x] + SumFunctionOnSet(f, T \ {x})
    BY <1>1, <1>2, SumRemove
<1> QED BY <1>1, <1>3 DEF T

\* One value changes.
LEMMA SumChange ==
    ASSUME NEW f, NEW g, NEW S, IsFiniteSet(S), NEW x \in S,
           \A y \in S : f[y] \in Int /\ g[y] \in Int,
           \A y \in S \ {x} : g[y] = f[y]
    PROVE  SumFunctionOnSet(g, S) = SumFunctionOnSet(f, S) - f[x] + g[x]
<1> DEFINE T == S \ {x}
<1>1. IsFiniteSet(T)
    BY FS_RemoveElement
<1>2. SumFunctionOnSet(f, S) = f[x] + SumFunctionOnSet(f, T)
    BY SumRemove
<1>3. SumFunctionOnSet(g, S) = g[x] + SumFunctionOnSet(g, T)
    BY SumRemove
<1>4. SumFunctionOnSet(f, T) = SumFunctionOnSet(g, T)
    BY <1>1, SumAgree
<1>5. SumFunctionOnSet(f, T) \in Int
    BY <1>1, SumRemove
<1> QED BY <1>2, <1>3, <1>4, <1>5

\* The values of two functions added up.
LEMMA SumPlus ==
    ASSUME NEW f, NEW g, NEW h, NEW S, IsFiniteSet(S),
           \A y \in S : f[y] \in Int /\ g[y] \in Int /\ h[y] = f[y] + g[y]
    PROVE  SumFunctionOnSet(h, S) = SumFunctionOnSet(f, S) + SumFunctionOnSet(g, S)
<1> DEFINE Fine(T) == SumFunctionOnSet(h, T) = SumFunctionOnSet(f, T) + SumFunctionOnSet(g, T)
           G == {T \in SUBSET S : Fine(T)}
<1>1. {} \in G
    BY SumEmpty
<1>2. ASSUME NEW T \in SUBSET S, NEW x \in S \ T, T \in G PROVE T \cup {x} \in G
  <2>1. IsFiniteSet(T)
    BY FS_Subset
  <2>2. \A y \in T \cup {x} : f[y] \in Int /\ g[y] \in Int /\ h[y] \in Int
    OBVIOUS
  <2>3. /\ SumFunctionOnSet(f, T \cup {x}) = f[x] + SumFunctionOnSet(f, T)
        /\ SumFunctionOnSet(g, T \cup {x}) = g[x] + SumFunctionOnSet(g, T)
        /\ SumFunctionOnSet(h, T \cup {x}) = h[x] + SumFunctionOnSet(h, T)
    BY <2>1, <2>2, SumAdd
  <2>4. SumFunctionOnSet(f, T) \in Int /\ SumFunctionOnSet(g, T) \in Int
    BY <2>1, <2>2, SumRemove
  <2>5. Fine(T)
    BY <1>2
  <2>6. f[x] \in Int /\ g[x] \in Int /\ h[x] = f[x] + g[x]
    OBVIOUS
  <2>7. Fine(T \cup {x})
    BY <2>3, <2>4, <2>5, <2>6
  <2> QED BY <2>7
<1>3. SUBSET S \subseteq G
  <2> HIDE DEF G
  <2> QED BY <1>1, <1>2, SubsetInduction
<1> QED BY <1>3

\* Numbers add up to a number that is at least as large as each of them, and is 0
\* only if all are.
LEMMA SumNat ==
    ASSUME NEW f, NEW S, IsFiniteSet(S), \A y \in S : f[y] \in Nat
    PROVE  /\ SumFunctionOnSet(f, S) \in Nat
           /\ \A y \in S : f[y] <= SumFunctionOnSet(f, S)
           /\ SumFunctionOnSet(f, S) = 0 <=> \A y \in S : f[y] = 0
<1> DEFINE Sum(T) == SumFunctionOnSet(f, T)
           Fine(T) == /\ Sum(T) \in Nat
                      /\ \A y \in T : f[y] <= Sum(T)
                      /\ (\A y \in T : f[y] = 0) => Sum(T) = 0
           G == {T \in SUBSET S : Fine(T)}
<1>1. {} \in G
    BY SumEmpty
<1>2. ASSUME NEW T \in SUBSET S, NEW x \in S \ T, T \in G PROVE T \cup {x} \in G
  <2>1. Sum(T \cup {x}) = f[x] + Sum(T)
    <3>1. IsFiniteSet(T) /\ \A y \in T \cup {x} : f[y] \in Int
      BY FS_Subset
    <3> QED BY <3>1, SumAdd
  <2>2. Fine(T) /\ f[x] \in Nat /\ \A y \in T : f[y] \in Nat
    BY <1>2
  <2>3. Fine(T \cup {x})
    <3> HIDE DEF Sum
    <3> QED BY <2>1, <2>2
  <2> QED BY <2>3
<1>3. SUBSET S \subseteq G
  <2> HIDE DEF G
  <2> QED BY <1>1, <1>2, SubsetInduction
<1>4. Fine(S)
    BY <1>3
<1> HIDE DEF Sum
<1>5. Sum(S) = 0 => \A y \in S : f[y] = 0
    BY <1>4
<1> QED BY <1>4, <1>5 DEF Sum

\* Two disjoint sets.
LEMMA SumUnion ==
    ASSUME NEW f, NEW S, NEW R, IsFiniteSet(S), IsFiniteSet(R), S \cap R = {},
           \A y \in S \cup R : f[y] \in Int
    PROVE  SumFunctionOnSet(f, S \cup R) = SumFunctionOnSet(f, S) + SumFunctionOnSet(f, R)
<1> DEFINE Sum(T) == SumFunctionOnSet(f, T)
           G == {T \in SUBSET R : Sum(S \cup T) = Sum(S) + Sum(T)}
<1>1. {} \in G
  <2>1. S \cup {} = S /\ Sum({}) = 0 /\ Sum(S) \in Int
    BY SumEmpty, SumRemove
  <2> HIDE DEF Sum
  <2> QED BY <2>1
<1>2. ASSUME NEW T \in SUBSET R, NEW x \in R \ T, T \in G PROVE T \cup {x} \in G
  <2>1. IsFiniteSet(T) /\ IsFiniteSet(S \cup T) /\ S \cup (T \cup {x}) = (S \cup T) \cup {x}
        /\ x \notin S \cup T
    BY FS_Subset, FS_Union
  <2>2. Sum(T \cup {x}) = f[x] + Sum(T)
    BY <2>1, SumAdd
  <2>3. Sum((S \cup T) \cup {x}) = f[x] + Sum(S \cup T)
    BY <2>1, SumAdd
  <2>4. Sum(S) \in Int /\ Sum(T) \in Int /\ f[x] \in Int
    BY <2>1, SumRemove
  <2>5. Sum(S \cup T) = Sum(S) + Sum(T)
    BY <1>2
  <2> HIDE DEF Sum
  <2>6. Sum(S \cup (T \cup {x})) = Sum((S \cup T) \cup {x})
    BY <2>1, Zenon
  <2>7. Sum(S \cup (T \cup {x})) = Sum(S) + Sum(T \cup {x})
    BY <2>2, <2>3, <2>4, <2>5, <2>6
  <2> QED BY <2>7
<1>3. SUBSET R \subseteq G
  <2> HIDE DEF G
  <2>0. IsFiniteSet(R)
    OBVIOUS
  <2>1. \A T \in SUBSET R : \A x \in R \ T : T \in G => T \cup {x} \in G
    BY <1>2
  <2> QED BY ONLY <2>0, <1>1, <2>1, SubsetInduction
<1> QED BY <1>3

\* A sum over part of a set, as a sum over the set.
LEMMA SumPart ==
    ASSUME NEW f, NEW S, IsFiniteSet(S), NEW T \in SUBSET S, \A y \in T : f[y] \in Int,
           NEW g, \A y \in S : g[y] = IF y \in T THEN f[y] ELSE 0
    PROVE  SumFunctionOnSet(g, S) = SumFunctionOnSet(f, T)
<1> DEFINE R == S \ T
<1>1. IsFiniteSet(T) /\ IsFiniteSet(R) /\ T \cap R = {} /\ T \cup R = S
    BY FS_Subset
<1>2. \A y \in S : g[y] \in Int
    OBVIOUS
<1>3. \A y \in R : g[y] = 0
    OBVIOUS
<1>4. \A y \in T : f[y] = g[y]
    OBVIOUS
<1> HIDE DEF R
<1>5. SumFunctionOnSet(g, T \cup R) = SumFunctionOnSet(g, T) + SumFunctionOnSet(g, R)
    BY <1>1, <1>2, SumUnion
<1>6. SumFunctionOnSet(g, R) = 0
  <2>1. \A y \in R : g[y] \in Nat
    BY <1>3
  <2> QED BY <1>1, <1>3, <2>1, SumNat
<1>7. SumFunctionOnSet(f, T) = SumFunctionOnSet(g, T)
    BY <1>1, <1>4, SumAgree
<1>8. SumFunctionOnSet(g, T) \in Int
  <2>1. \A y \in T : g[y] \in Int
    BY <1>1, <1>2
  <2> QED BY <1>1, <2>1, SumRemove
<1>9. SumFunctionOnSet(g, S) = SumFunctionOnSet(g, T) + SumFunctionOnSet(g, R)
    BY ONLY <1>1, <1>5, Zenon
<1> QED BY ONLY <1>6, <1>7, <1>8, <1>9

\* All values change by those of d, but for one that changes in another way.
LEMMA SumMove ==
    ASSUME NEW f, NEW g, NEW d, NEW S, IsFiniteSet(S), NEW x \in S,
           \A y \in S : f[y] \in Int /\ g[y] \in Int /\ d[y] \in Int,
           \A y \in S \ {x} : g[y] = f[y] + d[y],
           d[x] = 0
    PROVE  SumFunctionOnSet(g, S)
               = SumFunctionOnSet(f, S) + SumFunctionOnSet(d, S) - f[x] + g[x]
<1> DEFINE h == [y \in S |-> f[y] + d[y]]
<1>1. \A y \in S : f[y] \in Int /\ d[y] \in Int /\ h[y] = f[y] + d[y]
    OBVIOUS
<1>2. \A y \in S : h[y] \in Int /\ g[y] \in Int
    OBVIOUS
<1>3. (\A y \in S \ {x} : g[y] = h[y]) /\ h[x] = f[x]
    OBVIOUS
<1> HIDE DEF h
<1>4. SumFunctionOnSet(h, S) = SumFunctionOnSet(f, S) + SumFunctionOnSet(d, S)
    BY ONLY <1>1, IsFiniteSet(S), SumPlus
<1>5. SumFunctionOnSet(g, S) = SumFunctionOnSet(h, S) - h[x] + g[x]
    BY ONLY <1>2, <1>3, x \in S, IsFiniteSet(S), SumChange
<1>6. /\ SumFunctionOnSet(f, S) \in Int /\ SumFunctionOnSet(d, S) \in Int
      /\ f[x] \in Int /\ g[x] \in Int
    BY SumRemove
<1>7. h[x] = f[x]
    BY <1>3
<1> QED BY ONLY <1>4, <1>5, <1>6, <1>7

\* A set of numbers with an element has a least one.
LEMMA LeastNumber ==
    ASSUME NEW T \in SUBSET Nat, T # {} PROVE \E x \in T : \A y \in T : x <= y
<1> DEFINE Less == {ss \in Nat \X Nat : ss[1] < ss[2]}
<1>1. IsWellFoundedOn(Less, Nat)
    BY NatLessThanWellFounded, Zenon DEF OpToRel
<1> HIDE DEF Less
<1>2. PICK x \in T : \A y \in T : ~(<<y, x>> \in Less)
    BY <1>1, WFMin
<1>3. ASSUME NEW y \in T PROVE x <= y
  <2>1. x \in Nat /\ y \in Nat
    OBVIOUS
  <2>2. y < x => <<y, x>> \in Less
    BY <2>1 DEF Less
  <2> QED BY <1>2, <2>1, <2>2
<1> QED BY <1>3

\* Larger numbers add up to more.
LEMMA SumMono ==
    ASSUME NEW f, NEW g, NEW S, IsFiniteSet(S),
           \A y \in S : f[y] \in Int /\ g[y] \in Int /\ f[y] <= g[y]
    PROVE  SumFunctionOnSet(f, S) <= SumFunctionOnSet(g, S)
<1> DEFINE d == [y \in S |-> g[y] - f[y]]
<1>1. \A y \in S : f[y] \in Int /\ d[y] \in Int /\ g[y] = f[y] + d[y] /\ d[y] \in Nat
    OBVIOUS
<1> HIDE DEF d
<1>2. SumFunctionOnSet(g, S) = SumFunctionOnSet(f, S) + SumFunctionOnSet(d, S)
    BY <1>1, SumPlus
<1>3. SumFunctionOnSet(d, S) \in Nat
    BY <1>1, SumNat
<1>4. SumFunctionOnSet(f, S) \in Int
    BY SumRemove
<1> QED BY <1>2, <1>3, <1>4

\* The same number for every element.
LEMMA SumConst ==
    ASSUME NEW f, NEW c \in Nat, NEW S, IsFiniteSet(S), \A y \in S : f[y] = c
    PROVE  SumFunctionOnSet(f, S) = c * Cardinality(S)
<1> DEFINE Fine(T) == SumFunctionOnSet(f, T) = c * Cardinality(T)
           G == {T \in SUBSET S : Fine(T)}
<1>1. {} \in G
    BY SumEmpty, FS_EmptySet
<1>2. ASSUME NEW T \in SUBSET S, NEW x \in S \ T, T \in G PROVE T \cup {x} \in G
  <2>1. IsFiniteSet(T) /\ Cardinality(T) \in Nat /\ Cardinality(T \cup {x}) = Cardinality(T) + 1
    BY FS_Subset, FS_AddElement, FS_CardinalityType
  <2>2. \A y \in T \cup {x} : f[y] \in Int
    OBVIOUS
  <2>3. SumFunctionOnSet(f, T \cup {x}) = f[x] + SumFunctionOnSet(f, T) /\ f[x] = c
    BY <2>1, <2>2, SumAdd
  <2>4. Fine(T)
    BY <1>2
  <2>5. \A n \in Nat : c + c * n = c * (n + 1)
    OBVIOUS
  <2>6. Fine(T \cup {x})
    BY <2>1, <2>3, <2>4, <2>5
  <2> QED BY <2>6
<1>3. SUBSET S \subseteq G
  <2> HIDE DEF G
  <2> QED BY <1>1, <1>2, SubsetInduction
<1> QED BY <1>3

\* All but at most one of the values are 0.
LEMMA SumSingle ==
    ASSUME NEW f, NEW S, IsFiniteSet(S), NEW a, \A y \in S \ {a} : f[y] = 0,
           a \in S => f[a] \in Int
    PROVE  SumFunctionOnSet(f, S) = IF a \in S THEN f[a] ELSE 0
<1> DEFINE T == S \ {a}
<1>1. IsFiniteSet(T) /\ \A y \in T : f[y] = 0
    BY FS_RemoveElement
<1>2. \A y \in S : f[y] \in Int
    OBVIOUS
<1> HIDE DEF T
<1>3. SumFunctionOnSet(f, T) = 0
  <2>1. \A y \in T : f[y] \in Nat
    BY <1>1
  <2> QED BY <1>1, <2>1, SumNat
<1>4. CASE a \in S
  <2>1. SumFunctionOnSet(f, S) = f[a] + SumFunctionOnSet(f, T)
    BY <1>2, <1>4, SumRemove DEF T
  <2> QED BY <1>3, <1>4, <2>1
<1>5. CASE a \notin S
  <2>1. T = S
    BY <1>5 DEF T
  <2> QED BY <1>3, <1>5, <2>1
<1> QED BY <1>4, <1>5
-----------------------------------------------------------------------------
(* Lists of transactions. *)

\* How often e is among the first n elements of f.
One(x, y) == IF x = y THEN 1 ELSE 0
Upto(e, f, n) == Cardinality({j \in 1 .. n : f[j] = e})

LEMMA UptoStep ==
    ASSUME NEW e, NEW f, NEW n \in Nat
    PROVE  /\ Upto(e, f, n) \in Nat
           /\ Upto(e, f, 0) = 0
           /\ Upto(e, f, n + 1) = Upto(e, f, n) + One(f[n + 1], e)
<1> DEFINE At(m) == {j \in 1 .. m : f[j] = e}
<1>1. \A m \in Nat : IsFiniteSet(At(m)) /\ Cardinality(At(m)) \in Nat
  <2> SUFFICES ASSUME NEW m \in Nat PROVE IsFiniteSet(At(m)) /\ Cardinality(At(m)) \in Nat
    OBVIOUS
  <2>1. IsFiniteSet(1 .. m) /\ At(m) \subseteq 1 .. m
    BY FS_Interval
  <2> QED BY <2>1, FS_Subset, FS_CardinalityType
<1>2. At(0) = {}
    OBVIOUS
<1>3. f[n + 1] = e => At(n + 1) = At(n) \cup {n + 1}
    OBVIOUS
<1>4. f[n + 1] # e => At(n + 1) = At(n)
    OBVIOUS
<1>5. n + 1 \notin At(n)
    OBVIOUS
<1> HIDE DEF At
<1>6. Cardinality(At(0)) = 0
    BY <1>2, FS_EmptySet, Zenon
<1>7. Cardinality(At(n) \cup {n + 1}) = Cardinality(At(n)) + 1
    BY <1>1, <1>5, FS_AddElement
<1>8. Cardinality(At(n)) \in Nat
    BY <1>1
<1>9. Cardinality(At(n + 1)) = Cardinality(At(n)) + One(f[n + 1], e)
    BY <1>3, <1>4, <1>7, <1>8 DEF One
<1> QED BY <1>6, <1>8, <1>9 DEF Upto, At

LEMMA UptoAgree ==
    ASSUME NEW e, NEW f, NEW g, NEW n \in Nat, \A j \in 1 .. n : f[j] = g[j]
    PROVE  Upto(e, f, n) = Upto(e, g, n)
<1>1. {j \in 1 .. n : f[j] = e} = {j \in 1 .. n : g[j] = e}
    OBVIOUS
<1> QED BY <1>1 DEF Upto

\* Two counts that grow alike.
LEMMA UptoInduction ==
    ASSUME NEW c, NEW d, NEW m \in Nat, c[0] = d[0],
           \A i \in 0 .. m - 1 : c[i] = d[i] => c[i + 1] = d[i + 1]
    PROVE  c[m] = d[m]
<1> DEFINE G == {i \in Nat : i <= m => c[i] = d[i]}
<1>1. 0 \in G
    OBVIOUS
<1>2. ASSUME NEW i \in Nat, i \in G PROVE i + 1 \in G
  <2>1. i + 1 <= m => i \in 0 .. m - 1 /\ i <= m
    OBVIOUS
  <2> QED BY <1>2, <2>1
<1>3. Nat \subseteq G
  <2> HIDE DEF G
  <2> QED BY <1>1, <1>2, SetInduction
<1> QED BY <1>3

LEMMA OccurrencesUpto ==
    ASSUME NEW X, NEW q \in Seq(X), NEW e
    PROVE  Occurrences(e, q) = Upto(e, q, Len(q)) /\ Occurrences(e, q) \in Nat
<1>1. DOMAIN q = 1 .. Len(q) /\ Len(q) \in Nat
    OBVIOUS
<1>2. Occurrences(e, q) = Upto(e, q, Len(q))
    BY <1>1 DEF Occurrences, Upto
<1> QED BY <1>1, <1>2, UptoStep

LEMMA OccurrencesEmpty == ASSUME NEW e PROVE Occurrences(e, <<>>) = 0
<1>1. {i \in DOMAIN <<>> : <<>>[i] = e} = {}
    OBVIOUS
<1> QED BY <1>1, FS_EmptySet, Zenon DEF Occurrences

LEMMA OccurrencesAppend ==
    ASSUME NEW X, NEW q \in Seq(X), NEW x \in X, NEW e
    PROVE  Occurrences(e, Append(q, x)) = Occurrences(e, q) + One(x, e)
<1> DEFINE r == Append(q, x)
           n == Len(q)
<1>1. n \in Nat /\ r \in Seq(X) /\ Len(r) = n + 1 /\ r[n + 1] = x /\ \A j \in 1 .. n : r[j] = q[j]
    OBVIOUS
<1> HIDE DEF r, n
<1>2. Upto(e, r, n + 1) = Upto(e, r, n) + One(r[n + 1], e)
    BY <1>1, UptoStep
<1>3. Upto(e, r, n) = Upto(e, q, n)
    BY <1>1, UptoAgree
<1>4. Occurrences(e, r) = Upto(e, r, Len(r))
    BY <1>1, OccurrencesUpto
<1>5. Occurrences(e, q) = Upto(e, q, n)
    BY OccurrencesUpto DEF n
<1>6. Occurrences(e, r) = Occurrences(e, q) + One(x, e)
    BY <1>1, <1>2, <1>3, <1>4, <1>5
<1> QED BY <1>6 DEF r

\* An element occurs in a list iff it is counted.
LEMMA OccurrencesIn ==
    ASSUME NEW X, NEW q \in Seq(X), NEW e
    PROVE  Occurrences(e, q) > 0 <=> \E i \in 1 .. Len(q) : q[i] = e
<1> DEFINE At == {i \in DOMAIN q : q[i] = e}
<1>1. DOMAIN q = 1 .. Len(q) /\ Len(q) \in Nat
    OBVIOUS
<1>2. IsFiniteSet(At)
  <2>1. IsFiniteSet(1 .. Len(q)) /\ At \subseteq 1 .. Len(q)
    BY <1>1, FS_Interval
  <2> QED BY <2>1, FS_Subset
<1>3. At # {} <=> \E i \in 1 .. Len(q) : q[i] = e
    BY <1>1
<1> HIDE DEF At
<1>4. Cardinality(At) \in Nat /\ (Cardinality(At) = 0 <=> At = {})
    BY <1>2, FS_CardinalityType, FS_EmptySet
<1>5. Cardinality(At) > 0 <=> At # {}
    BY <1>4
<1> QED BY <1>3, <1>5 DEF Occurrences, At

LEMMA OccurrencesConcat ==
    ASSUME NEW X, NEW q \in Seq(X), NEW r \in Seq(X), NEW e
    PROVE  Occurrences(e, q \o r) = Occurrences(e, q) + Occurrences(e, r)
<1> DEFINE qr == q \o r
           n == Len(q)
           m == Len(r)
           c == [i \in 0 .. m |-> Upto(e, qr, n + i)]
           d == [i \in 0 .. m |-> Upto(e, q, n) + Upto(e, r, i)]
<1>1. /\ n \in Nat /\ m \in Nat /\ qr \in Seq(X) /\ Len(qr) = n + m
      /\ \A j \in 1 .. n : qr[j] = q[j]
      /\ \A j \in 1 .. m : qr[n + j] = r[j]
    OBVIOUS
<1> HIDE DEF qr, n, m
<1>2. c[0] = d[0]
  <2>1. Upto(e, qr, n) = Upto(e, q, n)
    BY <1>1, UptoAgree
  <2>2. Upto(e, r, 0) = 0 /\ Upto(e, q, n) \in Nat
    BY <1>1, UptoStep
  <2> QED BY <1>1, <2>1, <2>2
<1>3. ASSUME NEW i \in 0 .. m - 1, c[i] = d[i] PROVE c[i + 1] = d[i + 1]
  <2>1. i \in Nat /\ n + i \in Nat /\ i + 1 \in 0 .. m /\ i \in 0 .. m /\ i + 1 \in 1 .. m
    BY <1>1
  <2>2. Upto(e, r, i + 1) = Upto(e, r, i) + One(r[i + 1], e)
    BY <2>1, UptoStep
  <2>3. Upto(e, qr, (n + i) + 1) = Upto(e, qr, n + i) + One(qr[(n + i) + 1], e)
    BY <2>1, UptoStep
  <2>4. (n + i) + 1 = n + (i + 1) /\ qr[n + (i + 1)] = r[i + 1]
    BY <1>1, <2>1
  <2>5. Upto(e, q, n) \in Nat /\ Upto(e, r, i) \in Nat /\ One(r[i + 1], e) \in Nat
    BY <1>1, <2>1, UptoStep DEF One
  <2>6. Upto(e, qr, n + i) = Upto(e, q, n) + Upto(e, r, i)
    BY <1>3, <2>1
  <2>7. Upto(e, qr, n + (i + 1)) = Upto(e, q, n) + Upto(e, r, i + 1)
    BY <2>2, <2>3, <2>4, <2>5, <2>6
  <2> QED BY <2>1, <2>7
<1>4. c[m] = d[m]
  <2> HIDE DEF c, d
  <2> QED BY <1>1, <1>2, <1>3, UptoInduction
<1>5. Upto(e, qr, n + m) = Upto(e, q, n) + Upto(e, r, m)
    BY <1>1, <1>4
<1>6. /\ Occurrences(e, qr) = Upto(e, qr, Len(qr))
      /\ Occurrences(e, q) = Upto(e, q, n)
      /\ Occurrences(e, r) = Upto(e, r, m)
    BY <1>1, OccurrencesUpto DEF n, m
<1>7. Occurrences(e, qr) = Occurrences(e, q) + Occurrences(e, r)
    BY <1>1, <1>5, <1>6
<1> QED BY <1>7 DEF qr
-----------------------------------------------------------------------------
(* Filtered lists. *)

KeepStep(txs, S, kept, i) ==
    IF i = 0 THEN <<>>
    ELSE IF txs[i] \in S THEN Append(kept[i - 1], txs[i]) ELSE kept[i - 1]

\* The recursion that defines Keep has a solution.
LEMMA KeepDefined ==
    ASSUME NEW txs, NEW S, Len(txs) \in Nat
    PROVE  \E kept : /\ kept = [i \in 0 .. Len(txs) |-> KeepStep(txs, S, kept, i)]
                     /\ Keep(txs, S) = kept[Len(txs)]
<1> DEFINE Good == {n \in Nat : \E k : k = [i \in 0 .. n |-> KeepStep(txs, S, k, i)]}
<1>1. 0 \in Good
  <2> DEFINE k == [i \in 0 .. 0 |-> <<>>]
  <2>1. \A i \in 0 .. 0 : KeepStep(txs, S, k, i) = <<>>
    BY DEF KeepStep
  <2>2. k = [i \in 0 .. 0 |-> KeepStep(txs, S, k, i)]
    BY <2>1
  <2> HIDE DEF k
  <2>3. \E u : u = [i \in 0 .. 0 |-> KeepStep(txs, S, u, i)]
    BY <2>2, Zenon
  <2> QED BY <2>3
<1>2. ASSUME NEW n \in Nat, n \in Good PROVE n + 1 \in Good
  <2>1. PICK k : k = [i \in 0 .. n |-> KeepStep(txs, S, k, i)]
    BY <1>2
  <2> DEFINE more == [i \in 0 .. n + 1 |-> KeepStep(txs, S, k, i)]
  <2>2. \A i \in 0 .. n : more[i] = k[i]
    BY <2>1
  <2>3. \A i \in 0 .. n + 1 : i = 0 \/ i - 1 \in 0 .. n
    OBVIOUS
  <2> HIDE DEF more
  <2>4. \A i \in 0 .. n + 1 : KeepStep(txs, S, k, i) = KeepStep(txs, S, more, i)
    BY <2>2, <2>3 DEF KeepStep
  <2>5. more = [i \in 0 .. n + 1 |-> KeepStep(txs, S, more, i)]
    BY <2>4, Zenon DEF more
  <2>6. \E u : u = [i \in 0 .. n + 1 |-> KeepStep(txs, S, u, i)]
    BY <2>5, Zenon
  <2> QED BY <2>6
<1>3. Nat \subseteq Good
  <2> HIDE DEF Good
  <2> QED BY <1>1, <1>2, SetInduction
<1>4. \E k : k = [i \in 0 .. Len(txs) |-> KeepStep(txs, S, k, i)]
    BY <1>3
<1> DEFINE kept == CHOOSE k : k = [i \in 0 .. Len(txs) |-> KeepStep(txs, S, k, i)]
<1>5. kept = [i \in 0 .. Len(txs) |-> KeepStep(txs, S, kept, i)]
    BY <1>4, Zenon
<1>6. Keep(txs, S) = kept[Len(txs)]
    BY Zenon DEF Keep, KeepStep
<1> QED BY <1>5, <1>6

\* Keep keeps the elements of S, all of them and nothing else.
LEMMA KeepFacts ==
    ASSUME NEW X, NEW txs \in Seq(X), NEW S
    PROVE  /\ Keep(txs, S) \in Seq(X \cap S)
           /\ \A e : Occurrences(e, Keep(txs, S)) = IF e \in S THEN Occurrences(e, txs) ELSE 0
<1>1. Len(txs) \in Nat /\ \A i \in 1 .. Len(txs) : txs[i] \in X
    OBVIOUS
<1>2. PICK kept : /\ kept = [i \in 0 .. Len(txs) |-> KeepStep(txs, S, kept, i)]
                  /\ Keep(txs, S) = kept[Len(txs)]
    BY <1>1, KeepDefined
<1> DEFINE Fine(n) == /\ kept[n] \in Seq(X \cap S)
                      /\ \A e : Occurrences(e, kept[n]) = IF e \in S THEN Upto(e, txs, n) ELSE 0
           Good == {n \in Nat : n <= Len(txs) => Fine(n)}
<1>3. \A i \in 0 .. Len(txs) : kept[i] = KeepStep(txs, S, kept, i)
    BY <1>2
<1>4. Fine(0)
  <2>1. kept[0] = <<>>
    BY <1>1, <1>3 DEF KeepStep
  <2>2. \A e : Occurrences(e, <<>>) = 0 /\ Upto(e, txs, 0) = 0
    BY OccurrencesEmpty, UptoStep
  <2> QED BY <2>1, <2>2
<1>5. ASSUME NEW n \in Nat, n + 1 <= Len(txs), Fine(n) PROVE Fine(n + 1)
  <2> DEFINE x == txs[n + 1]
  <2>1. kept[n + 1] = IF x \in S THEN Append(kept[n], x) ELSE kept[n]
    <3>1. n + 1 \in 0 .. Len(txs) /\ n + 1 # 0 /\ (n + 1) - 1 = n
      BY <1>1, <1>5
    <3> QED BY <1>3, <3>1 DEF KeepStep
  <2>2. x \in X
    BY <1>1, <1>5
  <2>3. \A e : /\ Upto(e, txs, n + 1) = Upto(e, txs, n) + One(x, e)
               /\ Upto(e, txs, n) \in Nat
    BY UptoStep
  <2>4. CASE x \in S
    <3>1. kept[n] \in Seq(X \cap S) /\ x \in X \cap S
      BY <1>5, <2>2, <2>4
    <3>2. \A e : Occurrences(e, Append(kept[n], x)) = Occurrences(e, kept[n]) + One(x, e)
      BY <3>1, OccurrencesAppend
    <3>3. ASSUME NEW e PROVE Occurrences(e, kept[n + 1]) = IF e \in S THEN Upto(e, txs, n + 1) ELSE 0
      <4>1. Occurrences(e, kept[n]) = IF e \in S THEN Upto(e, txs, n) ELSE 0
        BY <1>5
      <4>2. kept[n + 1] = Append(kept[n], x)
        BY <2>1, <2>4
      <4>3. e \notin S => One(x, e) = 0
        BY <2>4 DEF One
      <4>4. Occurrences(e, Append(kept[n], x)) = Occurrences(e, kept[n]) + One(x, e)
        BY <3>2
      <4> HIDE DEF x, Fine
      <4> QED BY <2>3, <4>1, <4>2, <4>3, <4>4
    <3>4. kept[n + 1] \in Seq(X \cap S)
      BY <2>1, <2>4, <3>1
    <3> QED BY <3>3, <3>4
  <2>5. CASE x \notin S
    <3>1. \A e \in S : One(x, e) = 0
      BY <2>5 DEF One
    <3>2. \A e \in S : Upto(e, txs, n + 1) = Upto(e, txs, n)
      BY <2>3, <3>1
    <3> QED BY <1>5, <2>1, <2>5, <3>2
  <2> QED BY <2>4, <2>5
<1>6. Nat \subseteq Good
  <2>1. 0 \in Good
    BY <1>4
  <2>2. ASSUME NEW n \in Nat, n \in Good PROVE n + 1 \in Good
    <3>1. n + 1 <= Len(txs) => n <= Len(txs)
      BY <1>1
    <3> HIDE DEF Fine
    <3> QED BY <1>5, <2>2, <3>1
  <2> HIDE DEF Good
  <2> QED BY <2>1, <2>2, SetInduction
<1>7. Fine(Len(txs))
  <2> HIDE DEF Fine
  <2>1. Len(txs) \in Good /\ Len(txs) <= Len(txs)
    BY <1>1, <1>6
  <2> QED BY <2>1
<1>8. \A e : Occurrences(e, txs) = Upto(e, txs, Len(txs))
    BY OccurrencesUpto
<1> QED BY <1>2, <1>7, <1>8

LEMMA KeepIn ==
    ASSUME NEW X, NEW q \in Seq(X), NEW S, NEW e
    PROVE  (\E i \in 1 .. Len(Keep(q, S)) : Keep(q, S)[i] = e)
               <=> e \in S /\ \E i \in 1 .. Len(q) : q[i] = e
<1>1. /\ Keep(q, S) \in Seq(X \cap S)
      /\ Occurrences(e, Keep(q, S)) = IF e \in S THEN Occurrences(e, q) ELSE 0
    BY KeepFacts
<1>2. Occurrences(e, q) > 0 <=> \E i \in 1 .. Len(q) : q[i] = e
    BY OccurrencesIn
<1>3. Occurrences(e, Keep(q, S)) > 0 <=> \E i \in 1 .. Len(Keep(q, S)) : Keep(q, S)[i] = e
    BY <1>1, OccurrencesIn
<1> QED BY <1>1, <1>2, <1>3

LEMMA MinPair ==
    ASSUME NEW a \in Int, NEW b \in Int
    PROVE  Min({a, b}) = IF a <= b THEN a ELSE b
<1> DEFINE P(x) == x \in {a, b} /\ \A y \in {a, b} : x <= y
           m == CHOOSE x \in {a, b} : \A y \in {a, b} : x <= y
<1>1. \E x \in {a, b} : \A y \in {a, b} : x <= y
    OBVIOUS
<1>2. m \in {a, b} /\ \A y \in {a, b} : m <= y
    BY <1>1
<1>3. Min({a, b}) = m
    BY DEF Min
<1> HIDE DEF m
<1> QED BY <1>2, <1>3

\* A list is cut after k elements, or at its end.
Packed(q, k) == SubSeq(q, 1, Min({k, Len(q)}))
Unpacked(q, k) == SubSeq(q, Min({k, Len(q)}) + 1, Len(q))

LEMMA CutFacts ==
    ASSUME NEW X, NEW q \in Seq(X), NEW k \in Nat
    PROVE  /\ Packed(q, k) \in Seq(X) /\ Unpacked(q, k) \in Seq(X)
           /\ \A e : Occurrences(e, q) = Occurrences(e, Packed(q, k)) + Occurrences(e, Unpacked(q, k))
<1> DEFINE n == Min({k, Len(q)})
           a == SubSeq(q, 1, n)
           b == SubSeq(q, n + 1, Len(q))
<1>1. k \in Nat /\ Len(q) \in Nat
    OBVIOUS
<1>2. n \in 0 .. Len(q)
  <2>1. n = IF k <= Len(q) THEN k ELSE Len(q)
    BY <1>1, MinPair
  <2> HIDE DEF n
  <2> QED BY <1>1, <2>1
<1>3. Packed(q, k) = a /\ Unpacked(q, k) = b
    BY DEF Packed, Unpacked
<1> HIDE DEF n
<1>4. a \in Seq(X) /\ b \in Seq(X)
  <2>1. /\ \A i \in 1 .. n : q[i] \in X
        /\ \A i \in n + 1 .. Len(q) : q[i] \in X
    BY <1>1, <1>2
  <2>2. n \in Int /\ n + 1 \in Int /\ Len(q) \in Int /\ 1 \in Int
    BY <1>1, <1>2
  <2> QED BY <2>1, <2>2, SubSeqProperties
<1>5. a \o b = q
  <2>1. 1 \in 1 .. Len(q) + 1 /\ n \in 1 - 1 .. Len(q) /\ Len(q) \in n .. Len(q)
    BY <1>1, <1>2
  <2>2. a \o b = SubSeq(q, 1, Len(q))
    BY <2>1, ConcatAdjacentSubSeq
  <2> QED BY <2>2, SubSeqFull
<1> HIDE DEF a, b
<1>6. \A e : Occurrences(e, a \o b) = Occurrences(e, a) + Occurrences(e, b)
    BY <1>4, OccurrencesConcat
<1> QED BY <1>3, <1>4, <1>5, <1>6

\* The only place of an entry that is in a list once.
LEMMA OnlyPlace ==
    ASSUME NEW X, NEW q \in Seq(X), NEW e, Occurrences(e, q) = 1,
           NEW i \in 1 .. Len(q), NEW j \in 1 .. Len(q), q[i] = e, q[j] = e
    PROVE  i = j
<1> DEFINE P == {k \in DOMAIN q : q[k] = e}
<1>1. DOMAIN q = 1 .. Len(q) /\ Len(q) \in Nat
    OBVIOUS
<1>2. IsFiniteSet(1 .. Len(q)) /\ P \subseteq 1 .. Len(q)
    BY <1>1, FS_Interval
<1>3. IsFiniteSet(P)
    BY <1>2, FS_Subset
<1>4. Cardinality(P) = 1
    BY DEF Occurrences
<1>5. i \in P /\ j \in P
    BY <1>1
<1> HIDE DEF P
<1>6. PICK x : P = {x}
    BY <1>3, <1>4, FS_Singleton
<1> QED BY <1>5, <1>6

\* The elements of X a list has, counted one by one, are its length.
LEMMA LengthIsSum ==
    ASSUME NEW X, IsFiniteSet(X), NEW q \in Seq(X)
    PROVE  Len(q) = SumFunctionOnSet([e \in X |-> Occurrences(e, q)], X)
<1> DEFINE F(n) == [e \in X |-> Upto(e, q, n)]
           Good == {n \in Nat : n <= Len(q) => n = SumFunctionOnSet(F(n), X)}
<1>1. Len(q) \in Nat /\ \A i \in 1 .. Len(q) : q[i] \in X
    OBVIOUS
<1>2. 0 \in Good
  <2>1. \A e \in X : F(0)[e] = 0
    BY UptoStep
  <2> HIDE DEF F
  <2>2. \A e \in X : F(0)[e] \in Nat
    BY <2>1
  <2>3. SumFunctionOnSet(F(0), X) = 0
    BY <2>1, <2>2, SumNat
  <2> QED BY <2>3
<1>3. ASSUME NEW n \in Nat, n \in Good PROVE n + 1 \in Good
  <2> SUFFICES ASSUME n + 1 <= Len(q) PROVE n + 1 = SumFunctionOnSet(F(n + 1), X)
    OBVIOUS
  <2>1. n = SumFunctionOnSet(F(n), X)
    BY <1>1, <1>3
  <2> DEFINE x == q[n + 1]
  <2>2. x \in X
    BY <1>1
  <2>3. \A e \in X : F(n)[e] \in Int /\ F(n + 1)[e] = F(n)[e] + One(x, e)
    BY UptoStep
  <2>4. /\ \A e \in X \ {x} : F(n + 1)[e] = F(n)[e]
        /\ F(n + 1)[x] = F(n)[x] + 1
        /\ \A e \in X : F(n)[e] \in Int /\ F(n + 1)[e] \in Int
    <3> HIDE DEF F, x
    <3> QED BY <2>2, <2>3 DEF One
  <2> HIDE DEF F, x
  <2>5. SumFunctionOnSet(F(n + 1), X) = SumFunctionOnSet(F(n), X) - F(n)[x] + F(n + 1)[x]
    BY <2>2, <2>4, SumChange
  <2> QED BY <2>1, <2>2, <2>4, <2>5
<1>4. Nat \subseteq Good
  <2> HIDE DEF Good
  <2> QED BY <1>2, <1>3, SetInduction
<1>5. Len(q) = SumFunctionOnSet(F(Len(q)), X)
    BY <1>1, <1>4
<1>6. [e \in X |-> Occurrences(e, q)] = F(Len(q))
  <2>1. \A e \in X : Occurrences(e, q) = Upto(e, q, Len(q))
    BY OccurrencesUpto
  <2> QED BY <2>1
<1> HIDE DEF F
<1> QED BY <1>5, <1>6

\* Two lists that have x and y in the same places.
LEMMA SameCount ==
    ASSUME NEW q, NEW r, NEW x, NEW y, DOMAIN r = DOMAIN q,
           \A i \in DOMAIN q : r[i] = y <=> q[i] = x
    PROVE  Occurrences(y, r) = Occurrences(x, q)
<1>1. {i \in DOMAIN r : r[i] = y} = {i \in DOMAIN q : q[i] = x}
    OBVIOUS
<1> QED BY <1>1 DEF Occurrences

\* What is not in X is not in a list over X.
LEMMA OccurrencesNone ==
    ASSUME NEW X, NEW q \in Seq(X), NEW e, e \notin X
    PROVE  Occurrences(e, q) = 0
<1>1. ~\E i \in 1 .. Len(q) : q[i] = e
    OBVIOUS
<1> QED BY <1>1, OccurrencesUpto, OccurrencesIn

\* What a list has is what it counts.
LEMMA OccurrencesRange ==
    ASSUME NEW X, NEW q \in Seq(X), NEW e
    PROVE  e \in Range(q) <=> Occurrences(e, q) > 0
<1>1. e \in Range(q) <=> \E i \in 1 .. Len(q) : q[i] = e
    BY DEF Range
<1> QED BY <1>1, OccurrencesIn

\* The first element leaves a list.
LEMMA OccurrencesTail ==
    ASSUME NEW X, NEW q \in Seq(X), q # <<>>, NEW e
    PROVE  /\ Head(q) \in X /\ Tail(q) \in Seq(X)
           /\ Occurrences(e, q) = One(Head(q), e) + Occurrences(e, Tail(q))
           /\ Occurrences(e, Tail(q)) \in Nat
<1>1. Head(q) \in X /\ Tail(q) \in Seq(X) /\ q = <<Head(q)>> \o Tail(q)
    OBVIOUS
<1> DEFINE h == <<Head(q)>>
           r == Tail(q)
<1>2. h \in Seq(X) /\ h = Append(<<>>, Head(q)) /\ <<>> \in Seq(X)
    BY <1>1
<1>3. Occurrences(e, h) = One(Head(q), e)
  <2>1. Occurrences(e, Append(<<>>, Head(q))) = Occurrences(e, <<>>) + One(Head(q), e)
    BY <1>1, <1>2, OccurrencesAppend
  <2>2. One(Head(q), e) \in Nat
    BY DEF One
  <2> QED BY <1>2, <2>1, <2>2, OccurrencesEmpty
<1>4. q = h \o r /\ r \in Seq(X)
    BY <1>1
<1> HIDE DEF h, r
<1>5. Occurrences(e, h \o r) = Occurrences(e, h) + Occurrences(e, r) /\ Occurrences(e, r) \in Nat
    BY <1>2, <1>4, OccurrencesConcat, OccurrencesUpto
<1>6. Occurrences(e, q) = One(Head(q), e) + Occurrences(e, r) /\ Occurrences(e, r) \in Nat
    BY <1>3, <1>4, <1>5
<1> QED BY <1>1, <1>6 DEF r

\* One more element of a finite set, counted if it is in S.
LEMMA CountMore ==
    ASSUME NEW I, IsFiniteSet(I), NEW x, x \notin I, NEW S
    PROVE  /\ Cardinality((I \cup {x}) \cap S) = Cardinality(I \cap S) + (IF x \in S THEN 1 ELSE 0)
           /\ Cardinality(I \cap S) \in Nat
<1>1. IsFiniteSet(I \cap S)
    BY FS_Subset
<1>2. Cardinality(I \cap S) \in Nat
    BY <1>1, FS_CardinalityType
<1>3. CASE x \in S
  <2>1. (I \cup {x}) \cap S = (I \cap S) \cup {x} /\ x \notin I \cap S
    BY <1>3
  <2>2. Cardinality((I \cap S) \cup {x}) = Cardinality(I \cap S) + 1
    BY <1>1, <2>1, FS_AddElement
  <2> QED BY <1>2, <1>3, <2>1, <2>2
<1>4. CASE x \notin S
  <2>1. (I \cup {x}) \cap S = I \cap S
    BY <1>4
  <2>2. Cardinality((I \cup {x}) \cap S) = Cardinality(I \cap S)
    BY <2>1, Zenon
  <2> QED BY <1>2, <1>4, <2>2
<1> QED BY <1>3, <1>4
=============================================================================
