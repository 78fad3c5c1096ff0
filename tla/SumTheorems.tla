---------------------------- MODULE SumTheorems ----------------------------
(***************************************************************************)
(* Sums over finite sets (SumFunctionOnSet of the community modules), for  *)
(* the proofs that add up what callers, jobs or clock readings hold.  They *)
(* are folds: facts about them are proved by a subset of least size that   *)
(* violates them.                                                          *)
(***************************************************************************)
EXTENDS Integers, Functions, FiniteSetTheorems, WellFoundedInduction, TLAPS

Chosen(s) == CHOOSE x \in s : TRUE

\* The defining equation of a sum of f over the subsets of S.
SumsUp(g, f, S) ==
    g = [s \in SUBSET S |-> IF s = {} THEN 0 ELSE f[Chosen(s)] + g[s \ {Chosen(s)}]]

\* A set of numbers has a least one: what stands here for induction.
LEMMA LeastNatural ==
    ASSUME NEW T, T \subseteq Nat, T # {}
    PROVE  \E x \in T : \A y \in T : x <= y
<1> DEFINE R == OpToRel(<, Nat)
<1>1. IsWellFoundedOn(R, Nat) BY NatLessThanWellFounded
<1>2. \A x, y \in Nat : <<y, x>> \in R <=> y < x BY DEF OpToRel
<1> HIDE DEF R
<1>3. PICK x \in T : \A y \in T : ~(<<y, x>> \in R) BY <1>1, WFMin
<1>4. \A y \in T : ~(y < x) BY <1>2, <1>3
<1>5. \A y \in T : x <= y BY <1>4, SMT
<1> QED BY <1>5

\* What MapThenSumSet chooses exists: the subsets are summed up by their size.
LEMMA SumExists ==
    ASSUME NEW S, IsFiniteSet(S), NEW f, \A x \in S : f[x] \in Int
    PROVE  \E g \in [SUBSET S -> Int] : SumsUp(g, f, S)
<1> DEFINE Body(g, s) == IF s = {} THEN 0 ELSE f[Chosen(s)] + g[s \ {Chosen(s)}]
           UpTo(n) == \E g \in [SUBSET S -> Int] :
                         \A s \in SUBSET S : Cardinality(s) <= n => g[s] = Body(g, s)
           N == Cardinality(S)
           T == {n \in 0..N : ~UpTo(n)}
<1>1. N \in Nat BY FS_CardinalityType
<1>2. \A s \in SUBSET S : IsFiniteSet(s) /\ Cardinality(s) \in Nat /\ Cardinality(s) <= N
    BY FS_Subset, FS_CardinalityType
<1>3. \A s \in SUBSET S : s # {} =>
        /\ Chosen(s) \in s /\ Chosen(s) \in S /\ s \ {Chosen(s)} \in SUBSET S
        /\ Cardinality(s \ {Chosen(s)}) = Cardinality(s) - 1
    BY <1>2, FS_RemoveElement DEF Chosen
<1>4. \A s \in SUBSET S : Cardinality(s) = 0 => s = {} BY <1>2, FS_EmptySet
<1>5. ASSUME NEW g \in [SUBSET S -> Int], NEW s \in SUBSET S PROVE Body(g, s) \in Int
    <2>1. CASE s = {} BY <2>1
    <2>2. CASE s # {}
        <3>1. f[Chosen(s)] \in Int /\ g[s \ {Chosen(s)}] \in Int BY <1>3, <2>2
        <3> QED BY <2>2, <3>1
    <2> QED BY <2>1, <2>2
<1> HIDE DEF N
<1>6. UpTo(0)
    <2> DEFINE g == [s \in SUBSET S |-> 0]
    <2>1. g \in [SUBSET S -> Int] OBVIOUS
    <2>2. \A s \in SUBSET S : Cardinality(s) <= 0 => g[s] = Body(g, s)
        BY <1>2, <1>4
    <2> QED BY <2>1, <2>2
<1>7. ASSUME NEW n \in Nat, UpTo(n) PROVE UpTo(n + 1)
    <2>1. PICK g \in [SUBSET S -> Int] :
              \A s \in SUBSET S : Cardinality(s) <= n => g[s] = Body(g, s)
        BY <1>7
    <2> DEFINE h == [s \in SUBSET S |-> Body(g, s)]
    <2>2. h \in [SUBSET S -> Int] BY <1>5
    <2>3. \A s \in SUBSET S : Cardinality(s) <= n => h[s] = g[s] BY <2>1
    <2>4. ASSUME NEW s \in SUBSET S, Cardinality(s) <= n + 1 PROVE h[s] = Body(h, s)
        <3>1. CASE s = {} BY <3>1
        <3>2. CASE s # {}
            <4>1. /\ s \ {Chosen(s)} \in SUBSET S /\ Cardinality(s \ {Chosen(s)}) <= n
                BY <1>2, <1>3, <2>4, <3>2
            <4>2. h[s \ {Chosen(s)}] = g[s \ {Chosen(s)}] BY <2>3, <4>1
            <4>3. h[s] = Body(g, s) OBVIOUS
            <4> HIDE DEF h
            <4> QED BY <3>2, <4>2, <4>3
        <3> QED BY <3>1, <3>2
    <2> HIDE DEF h, Body
    <2> QED BY <2>2, <2>4
<1> HIDE DEF UpTo
<1>8. T = {}
    <2> SUFFICES ASSUME T # {} PROVE FALSE OBVIOUS
    <2>1. PICK m \in T : \A y \in T : m <= y
        <3>1. T \subseteq Nat BY <1>1
        <3> HIDE DEF T
        <3> QED BY <3>1, LeastNatural
    <2>2. m # 0 BY <1>6, <2>1
    <2>3. m - 1 \in 0..N /\ m - 1 \in Nat /\ m - 1 \notin T BY <1>1, <2>1, <2>2
    <2>4. UpTo((m - 1) + 1) BY <1>7, <2>3
    <2>5. (m - 1) + 1 = m BY <1>1, <2>1
    <2> QED BY <2>1, <2>4, <2>5
<1>9. UpTo(N) BY <1>1, <1>8
<1>10. PICK g \in [SUBSET S -> Int] :
           \A s \in SUBSET S : Cardinality(s) <= N => g[s] = Body(g, s)
    BY <1>9 DEF UpTo
<1>11. \A s \in SUBSET S : g[s] = Body(g, s) BY <1>2, <1>10
<1>12. g = [s \in SUBSET S |-> g[s]] OBVIOUS
<1>13. g = [s \in SUBSET S |-> Body(g, s)] 
    <2> HIDE DEF Body
    <2> QED BY <1>11, <1>12
<1> QED BY <1>13 DEF SumsUp

\* Induction over the subsets of a finite set, on the set of its counterexamples.
LEMMA NoBadSubset ==
    ASSUME NEW S, IsFiniteSet(S), NEW Bad, Bad \subseteq SUBSET S, {} \notin Bad,
           \A s \in SUBSET S : s # {} /\ s \ {Chosen(s)} \notin Bad => s \notin Bad
    PROVE  Bad = {}
<1> DEFINE T == {n \in Nat : \E s \in Bad : Cardinality(s) = n}
<1>1. \A s \in Bad : IsFiniteSet(s) /\ Cardinality(s) \in Nat /\ s # {}
    BY FS_Subset, FS_CardinalityType
<1> SUFFICES ASSUME Bad # {} PROVE FALSE
    OBVIOUS
<1>2. T # {} /\ T \subseteq Nat BY <1>1
<1>3. PICK m \in T : \A y \in T : m <= y
    <2> HIDE DEF T
    <2> QED BY <1>2, LeastNatural
<1>4. PICK s \in Bad : Cardinality(s) = m BY <1>3
<1>5. s \ {Chosen(s)} \in Bad BY <1>1, <1>4
<1>6. Chosen(s) \in s BY <1>1 DEF Chosen
<1>7. Cardinality(s \ {Chosen(s)}) = m - 1 BY <1>1, <1>4, <1>6, FS_RemoveElement
<1>8. m - 1 \in T BY <1>1, <1>5, <1>7
<1> QED BY <1>2, <1>3, <1>8

\* Two functions that sum up f and k differ by what a adds, where f and k differ at a only.
LEMMA SumsDiffer ==
    ASSUME NEW S, IsFiniteSet(S), NEW f, NEW k, \A x \in S : f[x] \in Int /\ k[x] \in Int,
           NEW a, \A x \in S \ {a} : k[x] = f[x],
           NEW g, SumsUp(g, f, S), NEW h, SumsUp(h, k, S)
    PROVE  g[S] \in Int /\ h[S] = g[S] + (IF a \in S THEN k[a] - f[a] ELSE 0)
<1> DEFINE Good(s) == g[s] \in Int /\ h[s] = g[s] + (IF a \in s THEN k[a] - f[a] ELSE 0)
           Bad == {s \in SUBSET S : ~Good(s)}
<1>3. \A s \in SUBSET S : s # {} => Chosen(s) \in s /\ Chosen(s) \in S BY DEF Chosen
<1>4. \A s \in SUBSET S :
        /\ g[s] = IF s = {} THEN 0 ELSE f[Chosen(s)] + g[s \ {Chosen(s)}]
        /\ h[s] = IF s = {} THEN 0 ELSE k[Chosen(s)] + h[s \ {Chosen(s)}]
    BY Zenon DEF SumsUp
<1>5. ASSUME NEW s \in SUBSET S, s = {} PROVE Good(s)
    <2>1. g[s] = 0 /\ h[s] = 0 /\ a \notin s BY <1>4, <1>5
    <2> QED BY <2>1
<1>6. ASSUME NEW s \in SUBSET S, s # {}, Good(s \ {Chosen(s)}) PROVE Good(s)
    <2>1. PICK x : x = Chosen(s) OBVIOUS
    <2>2. x \in s /\ x \in S /\ f[x] \in Int /\ k[x] \in Int
        BY <1>3, <1>6, <2>1
    <2>3. g[s] = f[x] + g[s \ {x}] /\ h[s] = k[x] + h[s \ {x}] BY <1>4, <1>6, <2>1
    <2>4. g[s \ {x}] \in Int BY <1>6, <2>1
    <2>5. CASE x = a
        <3>1. h[s \ {x}] = g[s \ {x}] + 0 BY <1>6, <2>1, <2>5
        <3> QED BY <2>2, <2>3, <2>4, <2>5, <3>1
    <2>6. CASE x # a
        <3>1. a \in s \ {x} <=> a \in s BY <2>6
        <3>2. h[s \ {x}] = g[s \ {x}] + (IF a \in s THEN k[a] - f[a] ELSE 0)
            BY <1>6, <2>1, <3>1
        <3>3. k[x] = f[x] BY <2>2, <2>6
        <3>4. a \in s => k[a] - f[a] \in Int BY <1>6
        <3> QED BY <2>2, <2>3, <2>4, <3>2, <3>3, <3>4
    <2> QED BY <2>5, <2>6
<1> HIDE DEF Good
<1>7. Bad = {}
    <2>1. Bad \subseteq SUBSET S /\ {} \notin Bad BY <1>5
    <2>2. \A s \in SUBSET S : s # {} /\ s \ {Chosen(s)} \notin Bad => s \notin Bad BY <1>6
    <2> HIDE DEF Bad
    <2> QED BY <2>1, <2>2, NoBadSubset
<1>8. Good(S) BY <1>7
<1> QED BY <1>8 DEF Good

\* The sum of the community modules sums up.
LEMMA SumIs ==
    ASSUME NEW S, IsFiniteSet(S), NEW f, \A x \in S : f[x] \in Int
    PROVE  \E g : SumsUp(g, f, S) /\ SumFunctionOnSet(f, S) = g[S]
<1> DEFINE P(g) == g = [s \in SUBSET S |-> IF s = {} THEN 0 ELSE f[Chosen(s)] + g[s \ {Chosen(s)}]]
<1>1. \E g : P(g)
    <2>1. PICK g \in [SUBSET S -> Int] : SumsUp(g, f, S) BY SumExists
    <2>2. P(g) BY <2>1 DEF SumsUp
    <2> HIDE DEF P
    <2> QED BY <2>2
<1>2. P(CHOOSE g : P(g))
    <2> HIDE DEF P
    <2> QED BY <1>1, Zenon
<1>3. SumFunctionOnSet(f, S) = (CHOOSE g : P(g))[S]
    BY Zenon DEF SumFunctionOnSet, FoldFunctionOnSet, MapThenFoldSet, Chosen
<1> QED BY <1>2, <1>3 DEF SumsUp

\* A sum is a number, and changes by what one of its terms does.
THEOREM SumChanges ==
    ASSUME NEW S, IsFiniteSet(S), NEW f, NEW k, \A x \in S : f[x] \in Int /\ k[x] \in Int,
           NEW a, \A x \in S \ {a} : k[x] = f[x]
    PROVE  /\ SumFunctionOnSet(f, S) \in Int
           /\ SumFunctionOnSet(k, S) =
                 SumFunctionOnSet(f, S) + (IF a \in S THEN k[a] - f[a] ELSE 0)
<1>1. PICK g : SumsUp(g, f, S) /\ SumFunctionOnSet(f, S) = g[S] BY SumIs
<1>2. PICK h : SumsUp(h, k, S) /\ SumFunctionOnSet(k, S) = h[S] BY SumIs
<1> QED BY <1>1, <1>2, SumsDiffer

\* A sum of naturals is a natural, and of zeros zero.
THEOREM SumOfNaturals ==
    ASSUME NEW S, IsFiniteSet(S), NEW f, \A x \in S : f[x] \in Nat
    PROVE  /\ SumFunctionOnSet(f, S) \in Nat
           /\ (\A x \in S : f[x] = 0) => SumFunctionOnSet(f, S) = 0
<1> DEFINE Zeros == \A x \in S : f[x] = 0
<1>1. PICK g : SumsUp(g, f, S) /\ SumFunctionOnSet(f, S) = g[S] BY SumIs
<1> DEFINE Good(s) == g[s] \in Nat /\ (Zeros => g[s] = 0)
           Bad == {s \in SUBSET S : ~Good(s)}
<1>2. \A s \in SUBSET S : g[s] = IF s = {} THEN 0 ELSE f[Chosen(s)] + g[s \ {Chosen(s)}]
    BY <1>1, Zenon DEF SumsUp
<1>3. {} \notin Bad
    <2>1. g[{}] = 0 BY <1>2
    <2> QED BY <2>1
<1>4. ASSUME NEW s \in SUBSET S, s # {}, Good(s \ {Chosen(s)}) PROVE Good(s)
    <2>1. Chosen(s) \in S BY <1>4 DEF Chosen
    <2>2. g[s] = f[Chosen(s)] + g[s \ {Chosen(s)}] BY <1>2, <1>4
    <2>3. f[Chosen(s)] \in Nat /\ (Zeros => f[Chosen(s)] = 0) BY <2>1
    <2> HIDE DEF Zeros
    <2> QED BY <1>4, <2>2, <2>3
<1> HIDE DEF Good
<1>5. \A s \in SUBSET S : s # {} /\ s \ {Chosen(s)} \notin Bad => s \notin Bad BY <1>4
<1>6. Bad \subseteq SUBSET S OBVIOUS
<1>7. Good(S)
    <2>1. Bad = {}
        <3> HIDE DEF Bad
        <3> QED BY <1>3, <1>5, <1>6, NoBadSubset
    <2> QED BY <2>1
<1> QED BY <1>1, <1>7 DEF Good, Zeros

=============================================================================
