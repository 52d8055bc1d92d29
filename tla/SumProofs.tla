----------------------------- MODULE SumProofs -----------------------------
(***************************************************************************)
(* Facts about SumFunctionOnSet, in which every weight, share and balance  *)
(* of the contract is added up.  Its definition takes the elements out one *)
(* by one in the order CHOOSE picks them; the facts here say that the      *)
(* order does not matter.  Each is proved by looking at a smallest set for *)
(* which it would fail (lemma SmallestPart).                               *)
(***************************************************************************)
EXTENDS Integers, FiniteSets, SequencesExt, TLAPS, FiniteSetTheorems, WellFoundedInduction

\* A family of parts of a finite set has a member that is not in the family any
\* more when one of its elements is taken out.
LEMMA SmallestPart ==
    ASSUME NEW D, IsFiniteSet(D), NEW T, T \subseteq SUBSET D, T # {}
    PROVE  \E s \in T : \A x \in s : s \ {x} \notin T
<1>1. T \subseteq FiniteSubsetsOf(D)
    BY FS_Subset DEF FiniteSubsetsOf
<1>2. PICK s \in T : \A r \in T : ~ (<<r, s>> \in StrictSubsetOrdering(D))
    BY <1>1, FS_StrictSubsetOrderingWellFounded, WFMin
<1>3. ASSUME NEW x \in s
      PROVE  s \ {x} \notin T
    BY <1>2, <1>3 DEF StrictSubsetOrdering
<1> QED  BY <1>3

\* Counting up from 0, the first number of B is reached from outside B.
LEMMA FirstOf ==
    ASSUME NEW n \in Nat, NEW B, B \subseteq 0..n, B # {}
    PROVE  \E m \in B : m = 0 \/ m - 1 \notin B
<1> DEFINE T == {0..m : m \in B}
<1>1. IsFiniteSet(0..n)
    BY FS_Interval
<1>2. T # {} /\ T \subseteq SUBSET (0..n)
    <2>1. \A m \in B : 0..m \subseteq 0..n
        OBVIOUS
    <2> QED  BY <2>1
<1>3. PICK s \in T : \A x \in s : s \ {x} \notin T
    BY <1>1, <1>2, SmallestPart
<1>4. PICK m \in B : s = 0..m
    BY <1>3
<1>5. ASSUME m # 0, m - 1 \in B
      PROVE  FALSE
    <2>1. m \in s /\ s \ {m} = 0..(m - 1)
        BY <1>4, <1>5
    <2>2. 0..(m - 1) \in T
        BY <1>5
    <2> QED  BY <1>3, <2>1, <2>2
<1> QED  BY <1>5

----------------------------------------------------------------------------
(* The sums of all parts of a set at once *)

\* h[s] is the sum over s for every part s of D, whichever element of s is taken
\* out first.
AllSums(f, D, h) ==
    /\ h \in [SUBSET D -> Int]
    /\ h[{}] = 0
    /\ \A s \in SUBSET D : \A x \in s : h[s] = f[x] + h[s \ {x}]

LEMMA AllSumsExist ==
    ASSUME NEW D, IsFiniteSet(D), NEW f, \A x \in D : f[x] \in Int
    PROVE  \E h : AllSums(f, D, h)
<1> DEFINE T == {C \in SUBSET D : ~ \E h : AllSums(f, C, h)}
<1> SUFFICES ASSUME T # {} PROVE FALSE
    OBVIOUS
<1>1. PICK C \in T : \A x \in C : C \ {x} \notin T
    BY SmallestPart
<1>2. CASE C = {}
    <2>1. AllSums(f, {}, [s \in SUBSET {} |-> 0])
        BY DEF AllSums
    <2> QED  BY <1>1, <1>2, <2>1
<1>3. CASE C # {}
    <2>1. PICK d \in C : TRUE
        BY <1>3
    <2> DEFINE E == C \ {d}
    <2>2. PICK g : AllSums(f, E, g)
        BY <1>1, <2>1
    <2>3. /\ g \in [SUBSET E -> Int] /\ g[{}] = 0
          /\ \A s \in SUBSET E : \A x \in s : g[s] = f[x] + g[s \ {x}]
        BY <2>2 DEF AllSums
    <2> DEFINE h == [s \in SUBSET C |-> IF d \in s THEN f[d] + g[s \ {d}] ELSE g[s]]
    <2>4. f[d] \in Int /\ \A x \in E : f[x] \in Int
        BY <1>1, <2>1
    <2>5. h \in [SUBSET C -> Int]
        BY <2>3, <2>4
    <2>6. h[{}] = 0
        BY <2>3
    <2>7. ASSUME NEW s \in SUBSET C, NEW x \in s
          PROVE  h[s] = f[x] + h[s \ {x}]
        <3>1. CASE x = d
            BY <3>1, <2>3
        <3>2. CASE x # d /\ d \in s
            <4>1. h[s] = f[d] + g[s \ {d}] /\ h[s \ {x}] = f[d] + g[(s \ {x}) \ {d}]
                BY <3>2
            <4> HIDE DEF h
            <4>2. g[s \ {d}] = f[x] + g[(s \ {d}) \ {x}]
                BY <3>2, <2>3
            <4> DEFINE rest == g[(s \ {x}) \ {d}]
            <4>3. g[s \ {d}] = f[x] + rest
                <5>1. (s \ {d}) \ {x} = (s \ {x}) \ {d}
                    OBVIOUS
                <5> QED  BY <4>2, <5>1
            <4>4. rest \in Int /\ f[x] \in Int
                BY <2>3, <2>4, <3>2
            <4>5. h[s \ {x}] = f[d] + rest
                BY <4>1
            <4> HIDE DEF rest
            <4>6. f[d] \in Int
                BY <2>4
            <4>7. h[s] = f[d] + (f[x] + rest)
                BY <4>1, <4>3
            <4>8. f[d] + (f[x] + rest) = f[x] + (f[d] + rest)
                BY ONLY <4>4, <4>6
            <4> QED  BY <4>5, <4>7, <4>8
        <3>3. CASE d \notin s
            BY <3>3, <2>3
        <3> QED  BY <3>1, <3>2, <3>3
    <2> HIDE DEF h, E
    <2>8. AllSums(f, C, h)
        BY <2>5, <2>6, <2>7 DEF AllSums
    <2> QED  BY <1>1, <2>8
<1> QED  BY <1>2, <1>3

LEMMA SumIsOfAllSums ==
    ASSUME NEW D, IsFiniteSet(D), NEW f, NEW h, AllSums(f, D, h)
    PROVE  SumFunctionOnSet(f, D) = h[D]
<1> DEFINE Body(it) == [s \in SUBSET D |-> IF s = {} THEN 0
                          ELSE f[CHOOSE x \in s : TRUE] + it[s \ {CHOOSE x \in s : TRUE}]]
           iter == CHOOSE it : it = Body(it)
<1>1. SumFunctionOnSet(f, D) = iter[D]
    BY DEF SumFunctionOnSet, FoldFunctionOnSet, MapThenFoldSet
<1>2. h = Body(h)
    <2>1. ASSUME NEW s \in SUBSET D, s # {}
          PROVE  h[s] = f[CHOOSE x \in s : TRUE] + h[s \ {CHOOSE x \in s : TRUE}]
        <3>1. (CHOOSE x \in s : TRUE) \in s
            BY <2>1
        <3> QED  BY <3>1 DEF AllSums
    <2> QED  BY <2>1 DEF AllSums
<1>3. iter = Body(iter)
    BY <1>2
<1> HIDE DEF iter
<1> DEFINE T == {s \in SUBSET D : iter[s] # h[s]}
<1>4. T = {}
    <2> SUFFICES ASSUME T # {} PROVE FALSE
        OBVIOUS
    <2>1. PICK s \in T : \A x \in s : s \ {x} \notin T
        BY SmallestPart
    <2>2. s # {}
        BY <1>3 DEF AllSums
    <2>3. (CHOOSE x \in s : TRUE) \in s
        BY <2>2
    <2>4. iter[s \ {CHOOSE x \in s : TRUE}] = h[s \ {CHOOSE x \in s : TRUE}]
        BY <2>1, <2>3
    <2> QED  BY <1>2, <1>3, <2>1, <2>2, <2>4
<1> QED  BY <1>1, <1>4

\* One function gives the sums over all parts of D.
LEMMA SumsOfParts ==
    ASSUME NEW D, IsFiniteSet(D), NEW f, \A x \in D : f[x] \in Int
    PROVE  \E h : /\ AllSums(f, D, h)
                  /\ \A s \in SUBSET D : SumFunctionOnSet(f, s) = h[s]
<1>1. PICK h : AllSums(f, D, h)
    BY AllSumsExist
<1>2. ASSUME NEW s \in SUBSET D
      PROVE  SumFunctionOnSet(f, s) = h[s]
    <2> DEFINE part == [r \in SUBSET s |-> h[r]]
    <2>1. AllSums(f, s, part)
        BY <1>1 DEF AllSums
    <2>2. IsFiniteSet(s)
        BY FS_Subset
    <2>3. part[s] = h[s]
        OBVIOUS
    <2> HIDE DEF part
    <2> QED  BY <2>1, <2>2, <2>3, SumIsOfAllSums
<1> QED  BY <1>1, <1>2

----------------------------------------------------------------------------
(* What the other proofs use *)

LEMMA SumOfNone ==
    ASSUME NEW f
    PROVE  SumFunctionOnSet(f, {}) = 0
<1>1. AllSums(f, {}, [s \in SUBSET {} |-> 0])
    BY DEF AllSums
<1> QED  BY <1>1, FS_EmptySet, SumIsOfAllSums

LEMMA SumType ==
    ASSUME NEW D, IsFiniteSet(D), NEW f, \A x \in D : f[x] \in Int
    PROVE  SumFunctionOnSet(f, D) \in Int
<1>1. PICK h : AllSums(f, D, h)
    BY AllSumsExist
<1>2. h[D] \in Int
    BY <1>1 DEF AllSums
<1> QED  BY <1>1, <1>2, SumIsOfAllSums

\* Any element may be taken out first.
LEMMA SumTakeOut ==
    ASSUME NEW D, IsFiniteSet(D), NEW f, \A x \in D : f[x] \in Int, NEW d \in D
    PROVE  SumFunctionOnSet(f, D) = f[d] + SumFunctionOnSet(f, D \ {d})
<1>1. PICK h : AllSums(f, D, h) /\ \A s \in SUBSET D : SumFunctionOnSet(f, s) = h[s]
    BY SumsOfParts
<1> QED  BY <1>1 DEF AllSums

\* Only the values on the set count.
LEMMA SumSame ==
    ASSUME NEW D, IsFiniteSet(D), NEW f, NEW g,
           \A x \in D : f[x] \in Int, \A x \in D : g[x] = f[x]
    PROVE  SumFunctionOnSet(g, D) = SumFunctionOnSet(f, D)
<1>1. PICK h : AllSums(f, D, h)
    BY AllSumsExist
<1>2. AllSums(g, D, h)
    BY <1>1 DEF AllSums
<1> QED  BY <1>1, <1>2, SumIsOfAllSums

\* More elements and larger values make no smaller sum.
LEMMA SumGrows ==
    ASSUME NEW D, IsFiniteSet(D), NEW C, C \subseteq D, NEW f, NEW g,
           \A x \in D : g[x] \in Nat, \A x \in C : f[x] \in Nat /\ f[x] <= g[x]
    PROVE  /\ SumFunctionOnSet(f, C) \in Nat
           /\ SumFunctionOnSet(g, D) \in Nat
           /\ SumFunctionOnSet(f, C) <= SumFunctionOnSet(g, D)
<1>1. PICK k : AllSums(g, D, k) /\ \A s \in SUBSET D : SumFunctionOnSet(g, s) = k[s]
    BY SumsOfParts
<1>2. IsFiniteSet(C)
    BY FS_Subset
<1>3. PICK h : AllSums(f, C, h) /\ \A s \in SUBSET C : SumFunctionOnSet(f, s) = h[s]
    BY <1>2, SumsOfParts
<1> DEFINE Small(s) == h[s \cap C] \in Nat /\ k[s] \in Nat /\ h[s \cap C] <= k[s]
           T == {s \in SUBSET D : ~Small(s)}
<1>4. T = {}
    <2> SUFFICES ASSUME T # {} PROVE FALSE
        OBVIOUS
    <2>1. PICK s \in T : \A x \in s : s \ {x} \notin T
        BY SmallestPart
    <2>2. CASE s = {}
        <3>1. s \cap C = {} /\ h[{}] = 0 /\ k[{}] = 0
            BY <1>1, <1>3, <2>2 DEF AllSums
        <3> QED  BY <2>1, <2>2, <3>1
    <2>3. CASE s # {}
        <3>1. PICK x \in s : TRUE
            BY <2>3
        <3>2. Small(s \ {x})
            BY <2>1, <3>1
        <3>3. k[s] = g[x] + k[s \ {x}] /\ g[x] \in Nat
            BY <1>1, <3>1 DEF AllSums
        <3>4. CASE x \in C
            <4>1. (s \ {x}) \cap C = (s \cap C) \ {x}
                OBVIOUS
            <4>2. h[s \cap C] = f[x] + h[(s \ {x}) \cap C] /\ f[x] \in Nat /\ f[x] <= g[x]
                BY <1>3, <3>4, <4>1 DEF AllSums
            <4> QED  BY <2>1, <3>2, <3>3, <4>2
        <3>5. CASE x \notin C
            <4>1. (s \ {x}) \cap C = s \cap C
                BY <3>5
            <4>2. h[s \cap C] = h[(s \ {x}) \cap C]
                BY <4>1
            <4> QED  BY <2>1, <3>2, <3>3, <4>2
        <3> QED  BY <3>4, <3>5
    <2> QED  BY <2>2, <2>3
<1>5. D \cap C = C
    OBVIOUS
<1>6. Small(D)
    BY <1>4
<1> HIDE DEF T
<1> QED  BY <1>1, <1>3, <1>5, <1>6

LEMMA SumOfZeros ==
    ASSUME NEW D, IsFiniteSet(D), NEW f, \A x \in D : f[x] = 0
    PROVE  SumFunctionOnSet(f, D) = 0
<1> DEFINE h == [s \in SUBSET D |-> 0]
<1>1. AllSums(f, D, h) /\ h[D] = 0
    BY DEF AllSums
<1> HIDE DEF h
<1> QED  BY <1>1, SumIsOfAllSums

\* Counting is adding up ones.
LEMMA SumOfOnes ==
    ASSUME NEW D, IsFiniteSet(D), NEW f, \A x \in D : f[x] = 1
    PROVE  SumFunctionOnSet(f, D) = Cardinality(D)
<1> DEFINE h == [s \in SUBSET D |-> Cardinality(s)]
<1>1. \A s \in SUBSET D : IsFiniteSet(s) /\ Cardinality(s) \in Nat
    BY FS_Subset, FS_CardinalityType
<1>2. ASSUME NEW s \in SUBSET D, NEW x \in s
      PROVE  Cardinality(s) = f[x] + Cardinality(s \ {x})
    <2>1. Cardinality(s \ {x}) = Cardinality(s) - 1
        BY <1>1, FS_RemoveElement
    <2>2. f[x] = 1 /\ Cardinality(s) \in Nat
        BY <1>1
    <2> QED  BY <2>1, <2>2
<1>3. Cardinality({}) = 0
    BY FS_EmptySet
<1>4. AllSums(f, D, h) /\ h[D] = Cardinality(D)
    BY <1>1, <1>2, <1>3 DEF AllSums
<1> HIDE DEF h
<1> QED  BY <1>4, SumIsOfAllSums

\* The elements x of s with own[x] = a.
Part(s, own, a) == {x \in s : own[x] = a}

\* The sum over a set is the sum of the sums over its parts.
LEMMA SumByParts ==
    ASSUME NEW A, IsFiniteSet(A), NEW D, IsFiniteSet(D), NEW f, \A x \in D : f[x] \in Int,
           NEW own, \A x \in D : own[x] \in A
    PROVE  SumFunctionOnSet([a \in A |-> SumFunctionOnSet(f, Part(D, own, a))], A)
                = SumFunctionOnSet(f, D)
<1>1. PICK k : AllSums(f, D, k) /\ \A s \in SUBSET D : SumFunctionOnSet(f, s) = k[s]
    BY SumsOfParts
<1>2. k \in [SUBSET D -> Int] /\ k[{}] = 0
    BY <1>1 DEF AllSums
<1> DEFINE g(s) == [a \in A |-> k[Part(s, own, a)]]
           h == [s \in SUBSET D |-> SumFunctionOnSet(g(s), A)]
<1>3. \A s \in SUBSET D : \A a \in A : Part(s, own, a) \in SUBSET D /\ g(s)[a] \in Int
    BY <1>2 DEF Part
<1>4. h \in [SUBSET D -> Int]
    <2> HIDE DEF g
    <2> QED  BY <1>3, SumType
<1>5. h[{}] = 0
    <2>1. \A a \in A : g({})[a] = 0
        BY <1>2 DEF Part
    <2> HIDE DEF g
    <2> QED  BY <2>1, SumOfZeros
<1>6. ASSUME NEW s \in SUBSET D, NEW x \in s
      PROVE  h[s] = f[x] + h[s \ {x}]
    <2> DEFINE rest == s \ {x}
               o == own[x]
    <2>1. o \in A /\ rest \in SUBSET D /\ f[x] \in Int
        OBVIOUS
    <2>2. g(s)[o] = f[x] + g(rest)[o]
        <3>1. Part(s, own, o) \ {x} = Part(rest, own, o) /\ x \in Part(s, own, o)
            BY DEF Part
        <3>2. k[Part(s, own, o)] = f[x] + k[Part(s, own, o) \ {x}]
            BY <1>1, <1>3, <2>1, <3>1 DEF AllSums
        <3> QED  BY <2>1, <3>1, <3>2
    <2>3. \A a \in A \ {o} : g(s)[a] = g(rest)[a]
        <3>1. \A a \in A \ {o} : Part(s, own, a) = Part(rest, own, a)
            BY DEF Part
        <3> QED  BY <3>1
    <2> HIDE DEF g, rest, o
    <2>4. /\ SumFunctionOnSet(g(s), A) = g(s)[o] + SumFunctionOnSet(g(s), A \ {o})
          /\ SumFunctionOnSet(g(rest), A) = g(rest)[o] + SumFunctionOnSet(g(rest), A \ {o})
        BY <1>3, <2>1, SumTakeOut
    <2>5. IsFiniteSet(A \ {o})
        BY FS_Subset
    <2>6. SumFunctionOnSet(g(s), A \ {o}) = SumFunctionOnSet(g(rest), A \ {o})
        <3>1. \A a \in A \ {o} : g(rest)[a] \in Int
            BY <1>3, <2>1
        <3> QED  BY <2>3, <2>5, <3>1, SumSame
    <2>7. SumFunctionOnSet(g(rest), A \ {o}) \in Int /\ g(rest)[o] \in Int
        BY <1>3, <2>1, <2>5, SumType
    <2>8. SumFunctionOnSet(g(s), A) = f[x] + SumFunctionOnSet(g(rest), A)
        BY <2>1, <2>2, <2>4, <2>6, <2>7
    <2> QED  BY <2>1, <2>8 DEF rest
<1>7. h[D] = SumFunctionOnSet(g(D), A)
    OBVIOUS
<1>8. g(D) = [a \in A |-> SumFunctionOnSet(f, Part(D, own, a))]
    BY <1>1, <1>3
<1> HIDE DEF g, h
<1>9. AllSums(f, D, h)
    BY <1>4, <1>5, <1>6 DEF AllSums
<1> QED  BY <1>7, <1>8, <1>9, SumIsOfAllSums

----------------------------------------------------------------------------
(* Computations of several steps, and sums that change *)

\* The steps of a computation in V, the lists of intermediate results of such a
\* computation, and a list that follows the steps as long as it stays in V.
Steps(n, V) == [1..n -> [V -> V]]

Results(n, V, v0, step) ==
    {f \in [0..n -> V] : f[0] = v0 /\ \A i \in 1..n : f[i] = step[i][f[i - 1]]}

Follows(g, n, V, v0, step) ==
    g[0] = v0 /\ \A i \in 1..n : g[i - 1] \in V => g[i] = step[i][g[i - 1]]

\* A computation of n steps that stays in V has its list of intermediate
\* results, and only one.
LEMMA Iterates ==
    ASSUME NEW n \in Nat, NEW V, NEW v0 \in V, NEW step \in Steps(n, V)
    PROVE  \E f \in Results(n, V, v0, step) :
                \A g : Follows(g, n, V, v0, step) => \A i \in 0..n : g[i] = f[i]
<1>0. step \in [1..n -> [V -> V]]
    BY DEF Steps
<1> DEFINE Upto(m, f) == /\ f \in [0..m -> V] /\ f[0] = v0
                         /\ \A i \in 1..m : f[i] = step[i][f[i - 1]]
           B == {m \in 0..n : ~ \E f : Upto(m, f)}
<1>1. B = {}
    <2> SUFFICES ASSUME B # {} PROVE FALSE
        OBVIOUS
    <2>1. PICK m \in B : m = 0 \/ m - 1 \notin B
        BY FirstOf
    <2>2. CASE m = 0
        <3>1. Upto(0, [i \in 0..0 |-> v0])
            OBVIOUS
        <3> QED  BY <2>1, <2>2, <3>1
    <2>3. CASE m # 0
        <3>1. m \in 1..n /\ m - 1 \in 0..n
            BY <2>3
        <3>2. PICK f : Upto(m - 1, f)
            BY <2>1, <2>3, <3>1
        <3> DEFINE h == [i \in 0..m |-> IF i = m THEN step[m][f[m - 1]] ELSE f[i]]
        <3>3. f[m - 1] \in V /\ step[m] \in [V -> V]
            BY <1>0, <3>1, <3>2
        <3>4. h \in [0..m -> V]
            BY <3>1, <3>2, <3>3
        <3>5. h[0] = v0 /\ h[m] = step[m][h[m - 1]] /\ \A i \in 1..(m - 1) : h[i] = step[i][h[i - 1]]
            BY <3>1, <3>2
        <3> HIDE DEF h
        <3>6. Upto(m, h)
            BY <3>1, <3>4, <3>5
        <3> QED  BY <2>1, <3>6
    <2> QED  BY <2>2, <2>3
<1>2. PICK f : Upto(n, f)
    BY <1>1
<1>3. ASSUME NEW g, g[0] = v0, \A i \in 1..n : g[i - 1] \in V => g[i] = step[i][g[i - 1]]
      PROVE  \A i \in 0..n : g[i] = f[i]
    <2> DEFINE C == {i \in 0..n : g[i] # f[i]}
    <2> SUFFICES ASSUME C # {} PROVE FALSE
        OBVIOUS
    <2>1. PICK m \in C : m = 0 \/ m - 1 \notin C
        BY FirstOf
    <2>2. m # 0 /\ m \in 1..n /\ m - 1 \in 0..n
        BY <1>2, <1>3, <2>1
    <2>3. g[m - 1] = f[m - 1] /\ f[m - 1] \in V
        BY <1>2, <2>1, <2>2
    <2> QED  BY <1>2, <1>3, <2>2, <2>3
<1>4. \A g : Follows(g, n, V, v0, step) => \A i \in 0..n : g[i] = f[i]
    BY <1>3 DEF Follows
<1>5. f \in Results(n, V, v0, step)
    BY <1>2 DEF Results
<1> QED  BY <1>4, <1>5

\* What goes down step by step has gone down by the sum of the steps.
LEMMA SumOfSteps ==
    ASSUME NEW n \in Nat, NEW left \in [0..n -> Int], NEW f,
           \A i \in 1..n : f[i] = left[i - 1] - left[i]
    PROVE  SumFunctionOnSet(f, 1..n) = left[0] - left[n]
<1>1. IsFiniteSet(1..n)
    BY FS_Interval
<1>2. \A i \in 1..n : f[i] \in Int
    OBVIOUS
<1>3. PICK h : AllSums(f, 1..n, h) /\ \A s \in SUBSET (1..n) : SumFunctionOnSet(f, s) = h[s]
    <2> DEFINE D == 1..n
    <2>1. IsFiniteSet(D) /\ \A x \in D : f[x] \in Int
        BY <1>1, <1>2
    <2> HIDE DEF D
    <2>2. \E h : AllSums(f, D, h) /\ \A s \in SUBSET D : SumFunctionOnSet(f, s) = h[s]
        BY ONLY <2>1, SumsOfParts
    <2> QED  BY <2>2 DEF D
<1> DEFINE B == {m \in 0..n : h[1..m] # left[0] - left[m]}
<1>4. B = {}
    <2> SUFFICES ASSUME B # {} PROVE FALSE
        OBVIOUS
    <2>1. PICK m \in B : m = 0 \/ m - 1 \notin B
        BY FirstOf
    <2>2. CASE m = 0
        <3>1. 1..0 = {} /\ h[{}] = 0 /\ left[0] \in Int
            BY <1>3 DEF AllSums
        <3> QED  BY <2>1, <2>2, <3>1
    <2>3. CASE m # 0
        <3>1. m \in 1..n /\ m - 1 \in 0..n /\ m \in 1..m /\ 1..m \in SUBSET (1..n)
            BY <2>3
        <3>2. (1..m) \ {m} = 1..(m - 1)
            <4>1. m \in Nat
                BY <3>1
            <4>2. \A x : x \in (1..m) \ {m} <=> x \in 1..(m - 1)
                BY ONLY <4>1
            <4> QED  BY ONLY <4>2
        <3>3. \A s \in SUBSET (1..n) : \A x \in s : h[s] = f[x] + h[s \ {x}]
            BY <1>3 DEF AllSums
        <3>31. h[1..m] = f[m] + h[1..(m - 1)]
            BY <3>1, <3>2, <3>3
        <3>4. h[1..(m - 1)] = left[0] - left[m - 1]
            BY <2>1, <2>3, <3>1
        <3>5. f[m] = left[m - 1] - left[m] /\ left[m] \in Int /\ left[m - 1] \in Int /\ left[0] \in Int
            BY <3>1
        <3>6. h[1..m] = left[0] - left[m]
            BY <3>31, <3>4, <3>5
        <3> QED  BY <2>1, <3>6
    <2> QED  BY <2>2, <2>3
<1> QED  BY <1>3, <1>4

\* A function changed at one place.
LEMMA SumChangesAt ==
    ASSUME NEW D, IsFiniteSet(D), NEW f, NEW g, NEW d \in D,
           \A x \in D : f[x] \in Int, g[d] \in Int, \A x \in D \ {d} : g[x] = f[x]
    PROVE  SumFunctionOnSet(g, D) = SumFunctionOnSet(f, D) + g[d] - f[d]
<1>1. \A x \in D : g[x] \in Int
    OBVIOUS
<1>2. /\ SumFunctionOnSet(f, D) = f[d] + SumFunctionOnSet(f, D \ {d})
      /\ SumFunctionOnSet(g, D) = g[d] + SumFunctionOnSet(g, D \ {d})
    BY <1>1, SumTakeOut
<1>3. IsFiniteSet(D \ {d}) /\ \A x \in D \ {d} : f[x] \in Int
    BY FS_Subset
<1>4. SumFunctionOnSet(g, D \ {d}) = SumFunctionOnSet(f, D \ {d})
    BY <1>3, SumSame
<1>5. SumFunctionOnSet(f, D \ {d}) \in Int /\ f[d] \in Int
    BY <1>3, SumType
<1> QED  BY <1>2, <1>4, <1>5

\* Sums of two functions.
LEMMA SumOfBoth ==
    ASSUME NEW D, IsFiniteSet(D), NEW f, NEW g, NEW k,
           \A x \in D : f[x] \in Int /\ g[x] \in Int /\ k[x] = f[x] + g[x]
    PROVE  SumFunctionOnSet(k, D) = SumFunctionOnSet(f, D) + SumFunctionOnSet(g, D)
<1>1. PICK hf : AllSums(f, D, hf)
    BY AllSumsExist
<1>2. PICK hg : AllSums(g, D, hg)
    BY AllSumsExist
<1> DEFINE h == [s \in SUBSET D |-> hf[s] + hg[s]]
<1>3. hf \in [SUBSET D -> Int] /\ hg \in [SUBSET D -> Int] /\ hf[{}] = 0 /\ hg[{}] = 0
    BY <1>1, <1>2 DEF AllSums
<1>4. ASSUME NEW s \in SUBSET D, NEW x \in s
      PROVE  h[s] = k[x] + h[s \ {x}]
    <2>1. /\ hf[s] = f[x] + hf[s \ {x}] /\ hg[s] = g[x] + hg[s \ {x}]
          /\ s \ {x} \in SUBSET D /\ x \in D
        BY <1>1, <1>2 DEF AllSums
    <2>2. /\ hf[s \ {x}] \in Int /\ hg[s \ {x}] \in Int /\ f[x] \in Int /\ g[x] \in Int
          /\ k[x] = f[x] + g[x]
        BY <1>3, <2>1
    <2> QED  BY <2>1, <2>2
<1>5. h \in [SUBSET D -> Int] /\ h[{}] = 0 /\ h[D] = hf[D] + hg[D]
    BY <1>3
<1> HIDE DEF h
<1>6. AllSums(k, D, h)
    BY <1>4, <1>5 DEF AllSums
<1>7. SumFunctionOnSet(f, D) = hf[D] /\ SumFunctionOnSet(g, D) = hg[D]
    BY <1>1, <1>2, SumIsOfAllSums
<1> QED  BY <1>5, <1>6, <1>7, SumIsOfAllSums

\* Elements that count 0 may be left out.
LEMMA SumPadded ==
    ASSUME NEW D, IsFiniteSet(D), NEW C, C \subseteq D, NEW f,
           \A x \in D : f[x] \in Int, \A x \in D \ C : f[x] = 0
    PROVE  SumFunctionOnSet(f, D) = SumFunctionOnSet(f, C)
<1>1. PICK h : AllSums(f, D, h) /\ \A s \in SUBSET D : SumFunctionOnSet(f, s) = h[s]
    BY SumsOfParts
<1> DEFINE T == {s \in SUBSET D : h[s] # h[s \cap C]}
<1>2. T = {}
    <2> SUFFICES ASSUME T # {} PROVE FALSE
        OBVIOUS
    <2>1. PICK s \in T : \A x \in s : s \ {x} \notin T
        BY SmallestPart
    <2>2. PICK x \in s : x \notin C
        <3>1. s # s \cap C
            BY <2>1
        <3> QED  BY <3>1
    <2>3. (s \ {x}) \cap C = s \cap C /\ s \ {x} \in SUBSET D /\ x \in D \ C
        BY <2>1, <2>2
    <2>4. h[s \ {x}] = h[s \cap C]
        BY <2>1, <2>2, <2>3
    <2>5. h[s] = f[x] + h[s \ {x}] /\ f[x] = 0
        BY <1>1, <2>2, <2>3 DEF AllSums
    <2>6. h[s \ {x}] \in Int
        BY <1>1, <2>3 DEF AllSums
    <2> QED  BY <2>1, <2>4, <2>5, <2>6
<1>3. D \cap C = C /\ D \in SUBSET D /\ C \in SUBSET D
    OBVIOUS
<1> QED  BY <1>1, <1>2, <1>3
=============================================================================
