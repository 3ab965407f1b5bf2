---------------------------- MODULE Sums_proofs ----------------------------
(***************************************************************************)
(* What proofs about points need: SumFunctionOnSet adds up the values of a *)
(* function on a finite set, one by one and in any order, and depends on   *)
(* these values alone; Max and Min find what they look for.  The folds     *)
(* take the elements in the order in which CHOOSE picks them.  Instead of  *)
(* an induction, each proof takes a counterexample of the smallest size.   *)
(***************************************************************************)
EXTENDS Integers, FiniteSetsExt, Functions, FiniteSetTheorems, NaturalsInduction,
        WellFoundedInduction, TLAPS

Pick(s) == CHOOSE x \in s : TRUE
Rest(s) == s \ {Pick(s)}

\* g[s] is the sum of f over s, for each of the sets Ss.
SumsOver(f, Ss, g) ==
    g = [s \in Ss |-> IF s = {} THEN 0 ELSE f[Pick(s)] + g[Rest(s)]]

\* The fold is the sum of one such family, which CHOOSE picks.
LEMMA SumUnfolds ==
    ASSUME NEW f, NEW S
    PROVE  SumFunctionOnSet(f, S) = (CHOOSE g : SumsOver(f, SUBSET S, g))[S]
BY DEF SumFunctionOnSet, FoldFunctionOnSet, MapThenFoldSet, SumsOver, Pick, Rest

LEMMA RestIsSmaller ==
    ASSUME NEW s, IsFiniteSet(s), s # {}
    PROVE  /\ Pick(s) \in s /\ IsFiniteSet(Rest(s)) /\ Rest(s) \subseteq s
           /\ Cardinality(Rest(s)) \in Nat /\ Cardinality(s) = Cardinality(Rest(s)) + 1
<1>1. Pick(s) \in s
    BY DEF Pick
<1>2. IsFiniteSet(Rest(s)) /\ Cardinality(Rest(s)) = Cardinality(s) - 1
    BY <1>1, FS_RemoveElement DEF Rest
<1>3. Cardinality(s) \in Nat /\ Cardinality(Rest(s)) \in Nat
    BY <1>2, FS_CardinalityType
<1> QED
    BY <1>1, <1>2, <1>3 DEF Rest

\* There is such a family: for the sets of at most n elements, for every n.
LEMMA SumsExist ==
    ASSUME NEW f, NEW S, IsFiniteSet(S)
    PROVE  \E g : SumsOver(f, SUBSET S, g)
<1> DEFINE Small(n) == {s \in SUBSET S : Cardinality(s) <= n}
           Bad == {n \in Nat : ~ \E g : SumsOver(f, Small(n), g)}
<1>1. \A s \in SUBSET S : IsFiniteSet(s) /\ Cardinality(s) \in Nat
    BY FS_Subset, FS_CardinalityType
<1>2. Bad = {}
    <2>1. SUFFICES ASSUME Bad # {} PROVE FALSE
        OBVIOUS
    <2>2. PICK n \in Bad : \A m \in Bad : ~ (<<m, n>> \in OpToRel(<, Nat))
        <3>1. Bad \subseteq Nat
            OBVIOUS
        <3> HIDE DEF Bad
        <3> QED
            BY <2>1, <3>1, NatLessThanWellFounded, WFMin
    <2>3. n \in Nat /\ \A m \in Nat : m < n => m \notin Bad
        BY <2>2 DEF OpToRel
    <2>4. CASE n = 0
        <3>1. \A s \in Small(0) : s = {}
            BY <1>1, FS_EmptySet
        <3>2. SumsOver(f, Small(0), [s \in Small(0) |-> 0])
            BY <3>1 DEF SumsOver
        <3> QED
            BY <2>3, <2>4, <3>2
    <2>5. CASE n # 0
        <3>0. n - 1 \in Nat /\ n - 1 \notin Bad
            <4>1. n - 1 \in Nat /\ n - 1 < n
                BY <2>3, <2>5
            <4> HIDE DEF Bad
            <4> QED
                BY <2>3, <4>1
        <3>1. PICK g : SumsOver(f, Small(n - 1), g)
            <4> HIDE DEF Small
            <4> QED
                BY <3>0
        <3> DEFINE h == [s \in Small(n) |-> IF s = {} THEN 0 ELSE f[Pick(s)] + g[Rest(s)]]
        <3>2. ASSUME NEW s \in Small(n), s # {}
              PROVE  Rest(s) \in Small(n - 1) /\ Rest(s) \in Small(n)
            BY <1>1, <2>3, <2>5, <3>2, RestIsSmaller
        <3>3. ASSUME NEW s \in Small(n), s # {}
              PROVE  g[Rest(s)] = h[Rest(s)]
            <4>1. g[Rest(s)] = IF Rest(s) = {} THEN 0 ELSE f[Pick(Rest(s))] + g[Rest(Rest(s))]
                <5> HIDE DEF Small
                <5> QED
                    BY <3>1, <3>2, <3>3 DEF SumsOver
            <4>2. h[Rest(s)] = IF Rest(s) = {} THEN 0 ELSE f[Pick(Rest(s))] + g[Rest(Rest(s))]
                <5>1. Rest(s) \in Small(n)
                    BY <3>2, <3>3
                <5> HIDE DEF Small
                <5> QED
                    BY <5>1
            <4> QED
                BY <4>1, <4>2
        <3>4. SumsOver(f, Small(n), h)
            <4>1. h = [s \in Small(n) |-> IF s = {} THEN 0 ELSE f[Pick(s)] + h[Rest(s)]]
                <5> HIDE DEF Small
                <5>1. \A s \in Small(n) : (IF s = {} THEN 0 ELSE f[Pick(s)] + g[Rest(s)])
                                        = (IF s = {} THEN 0 ELSE f[Pick(s)] + h[Rest(s)])
                    BY <3>3
                <5> DEFINE A(s) == IF s = {} THEN 0 ELSE f[Pick(s)] + g[Rest(s)]
                           B(s) == IF s = {} THEN 0 ELSE f[Pick(s)] + h[Rest(s)]
                <5>2. \A s \in Small(n) : A(s) = B(s)
                    BY <5>1
                <5>3. h = [s \in Small(n) |-> A(s)]
                    OBVIOUS
                <5> HIDE DEF A, B, h
                <5>4. h = [s \in Small(n) |-> B(s)]
                    BY <5>2, <5>3
                <5> QED
                    BY <5>4 DEF B
            <4> HIDE DEF h, Small
            <4> QED
                BY <4>1 DEF SumsOver
        <3> QED
            BY <2>2, <3>4
    <2> QED
        BY <2>4, <2>5
<1>3. Cardinality(S) \in Nat /\ Small(Cardinality(S)) = SUBSET S
    BY FS_CardinalityType, FS_Subset
<1>4. \E g : SumsOver(f, Small(Cardinality(S)), g)
    BY <1>2, <1>3
<1> QED
    BY <1>3, <1>4

\* Two families give a set the same sum.
LEMMA SumsAgree ==
    ASSUME NEW f, NEW h, NEW Ss, NEW Ts, NEW g, NEW k,
           SumsOver(f, Ss, g), SumsOver(h, Ts, k),
           NEW S, IsFiniteSet(S), SUBSET S \subseteq Ss, SUBSET S \subseteq Ts,
           \A x \in S : f[x] = h[x]
    PROVE  g[S] = k[S]
<1> DEFINE Bad == {s \in SUBSET S : g[s] # k[s]}
           Sizes == {Cardinality(s) : s \in Bad}
<1>1. \A s \in SUBSET S : IsFiniteSet(s) /\ Cardinality(s) \in Nat
    BY FS_Subset, FS_CardinalityType
<1>2. SUFFICES ASSUME Bad # {} PROVE FALSE
    OBVIOUS
<1>3. PICK n \in Sizes : \A m \in Sizes : ~ (<<m, n>> \in OpToRel(<, Nat))
    <2>1. Sizes \subseteq Nat /\ Sizes # {}
        BY <1>1, <1>2
    <2> HIDE DEF Sizes
    <2> QED
        BY <2>1, NatLessThanWellFounded, WFMin
<1>4. PICK s \in Bad : n = Cardinality(s)
    OBVIOUS
<1>5. \A t \in Bad : ~ (Cardinality(t) < Cardinality(s))
    BY <1>1, <1>3, <1>4 DEF OpToRel
<1>6. s \in Ss /\ s \in Ts /\ g[s] # k[s] /\ s \subseteq S
    OBVIOUS
<1>7. /\ g[s] = IF s = {} THEN 0 ELSE f[Pick(s)] + g[Rest(s)]
      /\ k[s] = IF s = {} THEN 0 ELSE h[Pick(s)] + k[Rest(s)]
    BY <1>6 DEF SumsOver
<1>8. s # {}
    BY <1>6, <1>7
<1>9. /\ Pick(s) \in S /\ Rest(s) \in SUBSET S
      /\ Cardinality(Rest(s)) < Cardinality(s)
    BY <1>1, <1>6, <1>8, RestIsSmaller
<1>10. g[Rest(s)] = k[Rest(s)]
    BY <1>5, <1>9
<1> QED
    BY <1>6, <1>7, <1>8, <1>9, <1>10

\* A sum depends on the values on its set alone.
LEMMA SumSame ==
    ASSUME NEW f, NEW h, NEW S, IsFiniteSet(S), \A x \in S : f[x] = h[x]
    PROVE  SumFunctionOnSet(f, S) = SumFunctionOnSet(h, S)
<1> DEFINE g == CHOOSE sum : SumsOver(f, SUBSET S, sum)
           k == CHOOSE sum : SumsOver(h, SUBSET S, sum)
<1>1. SumsOver(f, SUBSET S, g) /\ SumsOver(h, SUBSET S, k)
    BY SumsExist
<1>2. SumFunctionOnSet(f, S) = g[S] /\ SumFunctionOnSet(h, S) = k[S]
    BY SumUnfolds
<1> HIDE DEF g, k
<1> QED
    BY <1>1, <1>2, SumsAgree

LEMMA SumOfNothing == ASSUME NEW f PROVE SumFunctionOnSet(f, {}) = 0
<1> DEFINE g == CHOOSE sum : SumsOver(f, SUBSET {}, sum)
<1>1. SumsOver(f, SUBSET {}, g)
    BY SumsExist, FS_EmptySet
<1>2. SumFunctionOnSet(f, {}) = g[{}]
    BY SumUnfolds
<1> HIDE DEF g
<1> QED
    BY <1>1, <1>2 DEF SumsOver

\* The definition, one element at a time: the one the fold picks.
LEMMA SumPicks ==
    ASSUME NEW f, NEW S, IsFiniteSet(S), S # {}
    PROVE  SumFunctionOnSet(f, S) = f[Pick(S)] + SumFunctionOnSet(f, Rest(S))
<1> DEFINE g == CHOOSE sum : SumsOver(f, SUBSET S, sum)
           k == CHOOSE sum : SumsOver(f, SUBSET Rest(S), sum)
<1>1. IsFiniteSet(Rest(S)) /\ Rest(S) \subseteq S
    BY RestIsSmaller
<1>2. SumsOver(f, SUBSET S, g) /\ SumsOver(f, SUBSET Rest(S), k)
    BY <1>1, SumsExist
<1>3. SumFunctionOnSet(f, S) = g[S] /\ SumFunctionOnSet(f, Rest(S)) = k[Rest(S)]
    BY SumUnfolds
<1> HIDE DEF g, k
<1>4. g[Rest(S)] = k[Rest(S)]
    BY <1>1, <1>2, SumsAgree
<1>5. g[S] = f[Pick(S)] + g[Rest(S)]
    BY <1>2 DEF SumsOver
<1> QED
    BY <1>3, <1>4, <1>5
LEMMA SumIsInt ==
    ASSUME NEW f, NEW S, IsFiniteSet(S), \A x \in S : f[x] \in Int
    PROVE  SumFunctionOnSet(f, S) \in Int
<1> DEFINE Bad == {s \in SUBSET S : SumFunctionOnSet(f, s) \notin Int}
           Sizes == {Cardinality(s) : s \in Bad}
<1>1. \A s \in SUBSET S : IsFiniteSet(s) /\ Cardinality(s) \in Nat
    BY FS_Subset, FS_CardinalityType
<1>2. SUFFICES ASSUME Bad # {} PROVE FALSE
    OBVIOUS
<1>3. PICK n \in Sizes : \A m \in Sizes : ~ (<<m, n>> \in OpToRel(<, Nat))
    <2>1. Sizes \subseteq Nat /\ Sizes # {}
        BY <1>1, <1>2
    <2> HIDE DEF Sizes
    <2> QED
        BY <2>1, NatLessThanWellFounded, WFMin
<1>4. PICK s \in Bad : n = Cardinality(s)
    OBVIOUS
<1>5. \A t \in Bad : ~ (Cardinality(t) < Cardinality(s))
    BY <1>1, <1>3, <1>4 DEF OpToRel
<1>6. s # {}
    BY SumOfNothing
<1>7. Pick(s) \in S /\ Rest(s) \in SUBSET S /\ Cardinality(Rest(s)) < Cardinality(s)
    BY <1>1, <1>6, RestIsSmaller
<1>8. SumFunctionOnSet(f, Rest(s)) \in Int
    BY <1>5, <1>7
<1>9. SumFunctionOnSet(f, s) = f[Pick(s)] + SumFunctionOnSet(f, Rest(s))
    BY <1>1, <1>6, SumPicks
<1> QED
    BY <1>7, <1>8, <1>9

\* Any element can be taken first.
LEMMA SumTakes ==
    ASSUME NEW f, NEW S, IsFiniteSet(S), \A x \in S : f[x] \in Int, NEW y \in S
    PROVE  SumFunctionOnSet(f, S) = f[y] + SumFunctionOnSet(f, S \ {y})
<1> DEFINE Sum(s) == SumFunctionOnSet(f, s)
           Bad == {s \in SUBSET S : \E x \in s : Sum(s) # f[x] + Sum(s \ {x})}
           Sizes == {Cardinality(s) : s \in Bad}
<1>1. \A s \in SUBSET S : IsFiniteSet(s) /\ Cardinality(s) \in Nat
    BY FS_Subset, FS_CardinalityType
<1>2. SUFFICES ASSUME Bad # {} PROVE FALSE
    OBVIOUS
<1>3. PICK n \in Sizes : \A m \in Sizes : ~ (<<m, n>> \in OpToRel(<, Nat))
    <2>1. Sizes \subseteq Nat /\ Sizes # {}
        BY <1>1, <1>2
    <2> HIDE DEF Sizes
    <2> QED
        BY <2>1, NatLessThanWellFounded, WFMin
<1>4. PICK s \in Bad : n = Cardinality(s)
    OBVIOUS
<1>5. \A t \in Bad : ~ (Cardinality(t) < Cardinality(s))
    BY <1>1, <1>3, <1>4 DEF OpToRel
<1>6. PICK x \in s : Sum(s) # f[x] + Sum(s \ {x})
    OBVIOUS
<1> DEFINE p == Pick(s)
<1> HIDE DEF Bad, Sizes, Sum, p
<1>7. s \in SUBSET S /\ s # {} /\ IsFiniteSet(s)
    BY <1>1, <1>6 DEF Bad
<1>8. /\ p \in s /\ s \ {p} \in SUBSET S
      /\ Cardinality(s \ {p}) < Cardinality(s)
    <2>1. /\ Pick(s) \in s /\ Rest(s) \subseteq s /\ Cardinality(Rest(s)) \in Nat
          /\ Cardinality(s) = Cardinality(Rest(s)) + 1
        BY <1>7, RestIsSmaller
    <2>2. p \in s /\ s \ {p} = Rest(s)
        BY <2>1 DEF p, Rest
    <2>3. Cardinality(Rest(s)) < Cardinality(s)
        BY <2>1
    <2>4. s \ {p} \in SUBSET S
        BY <1>7
    <2> QED
        BY <2>2, <2>3, <2>4
<1>9. Sum(s) = f[p] + Sum(s \ {p})
    BY <1>7, SumPicks DEF Sum, p, Rest
<1>10. x # p /\ x \in s \ {p}
    BY <1>6, <1>8, <1>9
<1>11. Sum(s \ {p}) = f[x] + Sum((s \ {p}) \ {x})
    <2>1. s \ {p} \notin Bad
        BY <1>5, <1>8
    <2> QED
        BY <1>8, <1>10, <2>1 DEF Bad
<1>12. p \in s \ {x} /\ s \ {x} \in SUBSET S /\ Cardinality(s \ {x}) < Cardinality(s)
    <2>1. Cardinality(s \ {x}) = Cardinality(s) - 1 /\ Cardinality(s) \in Nat
        BY <1>1, <1>7, FS_RemoveElement
    <2> QED
        BY <1>7, <1>8, <1>10, <2>1
<1>13. Sum(s \ {x}) = f[p] + Sum((s \ {x}) \ {p})
    <2>1. s \ {x} \notin Bad
        BY <1>5, <1>12
    <2> QED
        BY <1>12, <2>1 DEF Bad
<1>14. (s \ {x}) \ {p} = (s \ {p}) \ {x}
    OBVIOUS
<1>15. f[x] \in Int /\ f[p] \in Int /\ Sum((s \ {p}) \ {x}) \in Int
    <2>1. (s \ {p}) \ {x} \in SUBSET S
        BY <1>7
    <2> QED
        BY <1>1, <1>7, <1>8, <2>1, SumIsInt DEF Sum
<1>16. Sum(s) = f[p] + (f[x] + Sum((s \ {p}) \ {x}))
    BY <1>9, <1>11
<1>17. f[x] + Sum(s \ {x}) = f[x] + (f[p] + Sum((s \ {p}) \ {x}))
    BY <1>13, <1>14
<1>18. ASSUME NEW a \in Int, NEW b \in Int, NEW c \in Int
      PROVE  a + (b + c) = b + (a + c)
    OBVIOUS
<1> QED
    BY <1>6, <1>15, <1>16, <1>17, <1>18
-----------------------------------------------------------------------------
(* Finite sets of integers have a largest and a smallest member.           *)

LEMMA ImageIsFinite ==
    ASSUME NEW f, NEW S, IsFiniteSet(S)
    PROVE  IsFiniteSet({f[x] : x \in S})
<1> DEFINE T == {f[x] : x \in S}
           g == [x \in S |-> f[x]]
<1>1. g \in Surjection(S, T)
    BY DEF Surjection
<1> QED
    BY <1>1, FS_Surjection

LEMMA LargestOf ==
    ASSUME NEW S \in SUBSET Int, IsFiniteSet(S), S # {}
    PROVE  Max(S) \in S /\ \A y \in S : Max(S) >= y
<1> DEFINE HasMax(s) == \E x \in s : \A y \in s : x >= y
           Bad == {s \in SUBSET S : s # {} /\ ~HasMax(s)}
           Sizes == {Cardinality(s) : s \in Bad}
<1>1. \A s \in SUBSET S : IsFiniteSet(s) /\ Cardinality(s) \in Nat
    BY FS_Subset, FS_CardinalityType
<1>2. Bad = {}
    <2>1. SUFFICES ASSUME Bad # {} PROVE FALSE
        OBVIOUS
    <2>2. PICK n \in Sizes : \A m \in Sizes : ~ (<<m, n>> \in OpToRel(<, Nat))
        <3>1. Sizes \subseteq Nat /\ Sizes # {}
            BY <1>1, <2>1
        <3> HIDE DEF Sizes
        <3> QED
            BY <3>1, NatLessThanWellFounded, WFMin
    <2>3. PICK s \in Bad : n = Cardinality(s)
        OBVIOUS
    <2>4. \A t \in Bad : ~ (Cardinality(t) < Cardinality(s))
        BY <1>1, <2>2, <2>3 DEF OpToRel
    <2>5. s \in SUBSET S /\ s # {} /\ ~HasMax(s) /\ IsFiniteSet(s)
        BY <1>1
    <2>6. /\ Pick(s) \in s /\ s = Rest(s) \cup {Pick(s)} /\ Rest(s) \in SUBSET S
          /\ Cardinality(Rest(s)) < Cardinality(s)
        <3>1. /\ Pick(s) \in s /\ Cardinality(Rest(s)) \in Nat
              /\ Cardinality(s) = Cardinality(Rest(s)) + 1 /\ Rest(s) \subseteq s
            BY <2>5, RestIsSmaller
        <3>2. s = Rest(s) \cup {Pick(s)}
            BY <3>1 DEF Rest
        <3>3. Cardinality(Rest(s)) < Cardinality(s)
            BY <3>1
        <3>4. Rest(s) \in SUBSET S
            BY <2>5, <3>1
        <3> HIDE DEF Bad, Sizes, HasMax
        <3> QED
            BY <3>1, <3>2, <3>3, <3>4
    <2>7. Rest(s) \notin Bad
        BY <2>4, <2>6
    <2>8. CASE Rest(s) = {}
        <3>1. \A y \in s : Pick(s) >= y
            BY <2>5, <2>6, <2>8
        <3> QED
            BY <2>5, <2>6, <3>1
    <2>9. CASE Rest(s) # {}
        <3>1. PICK m \in Rest(s) : \A y \in Rest(s) : m >= y
            BY <2>6, <2>7, <2>9
        <3>2. m \in Int /\ m \in s /\ Pick(s) \in Int /\ s \subseteq Int
            BY <2>5, <2>6
        <3>3. CASE m >= Pick(s)
            <4>1. \A y \in s : m >= y
                BY <2>6, <3>1, <3>3
            <4> QED
                BY <2>5, <3>2, <4>1
        <3>4. CASE ~(m >= Pick(s))
            <4>1. \A y \in s : Pick(s) >= y
                BY <2>6, <3>1, <3>2, <3>4
            <4> QED
                BY <2>5, <2>6, <4>1
        <3> QED
            BY <3>3, <3>4
    <2> QED
        BY <2>8, <2>9
<1>3. HasMax(S)
    BY <1>2
<1> QED
    BY <1>3 DEF Max

LEMMA SmallestOf ==
    ASSUME NEW S \in SUBSET Nat, S # {}
    PROVE  Min(S) \in S /\ \A y \in S : Min(S) <= y
<1>1. PICK x \in S : \A y \in S : ~(<<y, x>> \in OpToRel(<, Nat))
    BY NatLessThanWellFounded, WFMin
<1>2. ASSUME NEW y \in S PROVE x <= y
    <2>1. ~(y < x)
        BY <1>1 DEF OpToRel
    <2> QED
        BY <2>1
<1> QED
    BY <1>2 DEF Min
=============================================================================
