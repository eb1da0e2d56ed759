-------------------------- MODULE Proposal_proofs ---------------------------
(***************************************************************************)
(* Proofs about Proposal: what the sender keeps in a proposal it accepts,  *)
(* whoever made it, and what the receiver and its arithmetic do to the     *)
(* money while it builds one.                                              *)
(*                                                                         *)
(* Sums and folds over sequences are recursions over the subsets of their  *)
(* indexes; the first lemmas show that these have exactly one solution,    *)
(* by induction with a set in the place of the predicate.                  *)
(***************************************************************************)
EXTENDS Proposal, FiniteSetTheorems, TLAPS

-----------------------------------------------------------------------------
(* Induction over data *)

(* The order on the naturals, as a relation. *)
Less == {p \in Nat \X Nat : p[1] < p[2]}

(* A set of naturals has a least element. *)
LEMMA LeastNat ==
    ASSUME NEW T \in SUBSET Nat, T # {}
    PROVE  \E m \in T : \A k \in T : m <= k
<1>1. IsWellFoundedOn(Less, Nat)
    BY NatLessThanWellFounded DEF OpToRel, Less
<1>2. PICK m \in T : \A k \in T : ~ (<<k, m>> \in Less)
    BY <1>1, WFMin
<1>3. ASSUME NEW k \in T PROVE m <= k
    <2>1. <<k, m>> \in Nat \X Nat
        OBVIOUS
    <2>2. ~ (k < m)
        BY <1>2, <2>1 DEF Less
    <2> QED BY <2>2
<1> QED BY <1>3

(* Induction up to a bound, for a set in the place of the predicate. *)
LEMMA UpTo ==
    ASSUME NEW T, NEW n \in Nat, 0 \in T, \A k \in 0..(n-1) : k \in T => k + 1 \in T
    PROVE  \A k \in 0..n : k \in T
<1> DEFINE B == {k \in 0..n : k \notin T}
<1> SUFFICES ASSUME B # {} PROVE FALSE
    OBVIOUS
<1>0. B \in SUBSET Nat
    OBVIOUS
<1>1. PICK m \in B : \A k \in B : m <= k
    <2> HIDE DEF B
    <2> QED BY <1>0, LeastNat
<1>2. m - 1 \in 0..(n-1) /\ m - 1 \notin B
    BY <1>1
<1> QED BY <1>1, <1>2

(* Among subsets of a finite set some are minimal. *)
LEMMA LeastSubset ==
    ASSUME NEW S, IsFiniteSet(S), NEW B \in SUBSET SUBSET S, B # {}
    PROVE  \E t \in B : \A u \in B : u \subseteq t => u = t
<1>1. IsWellFoundedOn(StrictSubsetOrdering(S), SUBSET S)
    BY FS_StrictSubsetOrderingWellFounded, FS_FiniteSubsetsOfFinite
<1>2. PICK t \in B : \A u \in B : ~ (<<u, t>> \in StrictSubsetOrdering(S))
    BY <1>1, WFMin
<1>3. ASSUME NEW u \in B, u \subseteq t PROVE u = t
    <2>1. <<u, t>> \in (SUBSET S) \X (SUBSET S)
        OBVIOUS
    <2> QED BY <1>2, <1>3, <2>1 DEF StrictSubsetOrdering
<1> QED BY <1>3

(* Recursion over the subsets of a finite set, one chosen element at a time. *)
Recursion(f, S, U, base, G, c) ==
    f \in [SUBSET S -> U] /\ \A s \in SUBSET S : f[s] = IF s = {} THEN base ELSE G[<<f[s \ {c[s]}], c[s]>>]

(* Such a recursion has a solution. *)
LEMMA RecursionExists ==
    ASSUME NEW S, IsFiniteSet(S), NEW U, NEW base \in U,
           NEW G \in [U \X S -> U], NEW c, \A s \in SUBSET S : s # {} => c[s] \in s
    PROVE  \E f : Recursion(f, S, U, base, G, c)
<1> DEFINE D(n) == {s \in SUBSET S : Cardinality(s) <= n}
           Step(f, s) == IF s = {} THEN base ELSE G[<<f[s \ {c[s]}], c[s]>>]
           T == {n \in Nat : \E f \in [D(n) -> U] : \A s \in D(n) : f[s] = Step(f, s)}
           N == Cardinality(S)
<1>5. N \in Nat
    BY FS_CardinalityType
<1>1. \A s \in SUBSET S : IsFiniteSet(s) /\ Cardinality(s) \in Nat /\ Cardinality(s) <= N
    BY FS_Subset, FS_CardinalityType
<1>2. \A s \in SUBSET S : s # {} => Cardinality(s \ {c[s]}) = Cardinality(s) - 1
    BY <1>1, FS_RemoveElement
<1>3. 0 \in T
    <2>1. D(0) = {{}}
        BY <1>1, FS_EmptySet
    <2>2. [s \in D(0) |-> base] \in [D(0) -> U]
        OBVIOUS
    <2> QED BY <2>1, <2>2
<1>4. ASSUME NEW n \in 0..(N-1), n \in T PROVE n + 1 \in T
    <2>1. PICK f \in [D(n) -> U] : \A s \in D(n) : f[s] = Step(f, s)
        BY <1>4
    <2> DEFINE h == [s \in D(n + 1) |-> Step(f, s)]
    <2>2. \A s \in D(n + 1) : s # {} => c[s] \in S /\ s \ {c[s]} \in D(n) /\ s \ {c[s]} \in D(n + 1)
        BY <1>1, <1>2
    <2>3. ASSUME NEW s \in D(n + 1) PROVE h[s] \in U
        <3>1. CASE s = {}
            BY <3>1
        <3>2. CASE s # {}
            <4>1. f[s \ {c[s]}] \in U /\ c[s] \in S
                BY <2>2, <3>2
            <4>2. h[s] = G[<<f[s \ {c[s]}], c[s]>>]
                BY <3>2
            <4> QED BY <4>1, <4>2
        <3> QED BY <3>1, <3>2
    <2>4. h \in [D(n + 1) -> U]
        BY <2>3
    <2>5. ASSUME NEW s \in D(n + 1) PROVE h[s] = Step(h, s)
        <3>1. CASE s = {}
            BY <3>1
        <3>2. CASE s # {}
            <4>1. h[s \ {c[s]}] = Step(f, s \ {c[s]})
                BY <2>2, <3>2
            <4>2. f[s \ {c[s]}] = Step(f, s \ {c[s]})
                BY <2>1, <2>2, <3>2
            <4>3. h[s] = G[<<f[s \ {c[s]}], c[s]>>]
                BY <3>2
            <4> HIDE DEF h
            <4>4. h[s] = G[<<h[s \ {c[s]}], c[s]>>]
                BY <4>1, <4>2, <4>3
            <4> QED BY <3>2, <4>4
        <3> QED BY <3>1, <3>2
    <2>6. \E g \in [D(n + 1) -> U] : \A s \in D(n + 1) : g[s] = Step(g, s)
        <3> HIDE DEF h, D, Step
        <3> QED BY <2>4, <2>5
    <2>7. n + 1 \in Nat
        BY <1>5
    <2> HIDE DEF D, Step
    <2> QED BY <2>6, <2>7
<1>6. N \in T
    <2> HIDE DEF T
    <2> QED BY <1>3, <1>4, <1>5, UpTo
<1>7. D(N) = SUBSET S
    BY <1>1
<1> QED BY <1>6, <1>7 DEF Recursion

-----------------------------------------------------------------------------
(* Sums *)

(* A function that gives integers on a set. *)
IntOn(w, S) == \A x \in S : w[x] \in Int

(* The element the folds of the community modules take first. *)
Pick(s) == CHOOSE x \in s : TRUE

(* What the recursion behind SumFunctionOnSet satisfies. *)
SumStep(g, w, S) ==
    g = [s \in SUBSET S |-> IF s = {} THEN 0 ELSE w[Pick(s)] + g[s \ {Pick(s)}]]

(* A sum is a recursion over the subsets. *)
LEMMA SumUnfold ==
    ASSUME NEW w, NEW S
    PROVE  SumFunctionOnSet(w, S) = (CHOOSE g : SumStep(g, w, S))[S]
BY DEF SumFunctionOnSet, FoldFunctionOnSet, MapThenFoldSet, SumStep, Pick

(* The recursion of a sum has a solution. *)
LEMMA SumStepExists ==
    ASSUME NEW S, IsFiniteSet(S), NEW w, IntOn(w, S)
    PROVE  \E g \in [SUBSET S -> Int] : SumStep(g, w, S)
<1> DEFINE G == [p \in Int \X S |-> w[p[2]] + p[1]]
           c == [s \in SUBSET S |-> Pick(s)]
<1>1. G \in [Int \X S -> Int]
    BY DEF IntOn
<1>2. \A s \in SUBSET S : s # {} => c[s] \in s
    BY DEF Pick
<1>3. PICK g : Recursion(g, S, Int, 0, G, c)
    <2> HIDE DEF G, c
    <2> QED BY <1>1, <1>2, RecursionExists
<1>0. g \in [SUBSET S -> Int]
    BY <1>3 DEF Recursion
<1>4. ASSUME NEW s \in SUBSET S, s # {}
      PROVE  g[s] = w[Pick(s)] + g[s \ {Pick(s)}]
    <2>1. c[s] = Pick(s) /\ Pick(s) \in S
        BY <1>2, <1>4
    <2>2. g[s] = G[<<g[s \ {c[s]}], c[s]>>]
        BY <1>3, <1>4 DEF Recursion
    <2>3. <<g[s \ {Pick(s)}], Pick(s)>> \in Int \X S
        BY <1>0, <2>1
    <2> QED BY <2>1, <2>2, <2>3
<1>5. g[{}] = 0
    BY <1>3 DEF Recursion
<1>6. g = [s \in SUBSET S |-> IF s = {} THEN 0 ELSE w[Pick(s)] + g[s \ {Pick(s)}]]
    BY <1>0, <1>4, <1>5
<1> QED BY <1>0, <1>6 DEF SumStep

(* It has one only, whatever set it was started from. *)
LEMMA SumUnique ==
    ASSUME NEW S, IsFiniteSet(S), NEW w, NEW T \in SUBSET S,
           NEW g, SumStep(g, w, S), NEW h, SumStep(h, w, T)
    PROVE  g[T] = h[T]
<1> DEFINE B == {s \in SUBSET T : g[s] # h[s]}
<1>1. SUFFICES ASSUME B # {} PROVE FALSE
    OBVIOUS
<1>2. PICK s \in B : \A u \in B : u \subseteq s => u = s
    <2>1. IsFiniteSet(T) /\ B \in SUBSET SUBSET T
        BY FS_Subset
    <2> HIDE DEF B
    <2> QED BY <1>1, <2>1, LeastSubset
<1>3. g[s] = IF s = {} THEN 0 ELSE w[Pick(s)] + g[s \ {Pick(s)}]
    BY DEF SumStep
<1>4. h[s] = IF s = {} THEN 0 ELSE w[Pick(s)] + h[s \ {Pick(s)}]
    BY DEF SumStep
<1>5. s # {} => s \ {Pick(s)} \in SUBSET T /\ s \ {Pick(s)} # s
    BY DEF Pick
<1>6. s # {} => g[s \ {Pick(s)}] = h[s \ {Pick(s)}]
    BY <1>2, <1>5
<1> QED BY <1>2, <1>3, <1>4, <1>6

(* A table of the sums over all subsets. *)
SumTable(g, w, S) ==
    /\ g \in [SUBSET S -> Int]
    /\ SumStep(g, w, S)
    /\ \A T \in SUBSET S : SumFunctionOnSet(w, T) = g[T]

(* So one table has the sums over all subsets. *)
LEMMA SumOfSubset ==
    ASSUME NEW S, IsFiniteSet(S), NEW w, IntOn(w, S)
    PROVE  \E g : SumTable(g, w, S)
<1>1. PICK g \in [SUBSET S -> Int] : SumStep(g, w, S)
    BY SumStepExists
<1>2. ASSUME NEW T \in SUBSET S PROVE SumFunctionOnSet(w, T) = g[T]
    <2>1. IsFiniteSet(T) /\ IntOn(w, T)
        BY FS_Subset DEF IntOn
    <2>2. \E h : SumStep(h, w, T)
        BY <2>1, SumStepExists
    <2> DEFINE h == CHOOSE h : SumStep(h, w, T)
    <2>3. SumStep(h, w, T)
        BY <2>2
    <2>4. SumFunctionOnSet(w, T) = h[T]
        BY SumUnfold
    <2> HIDE DEF h
    <2> QED BY <1>1, <2>3, <2>4, SumUnique
<1> QED BY <1>1, <1>2 DEF SumTable

(* A sum of integers is an integer. *)
LEMMA SumType ==
    ASSUME NEW S, IsFiniteSet(S), NEW w, IntOn(w, S)
    PROVE  SumFunctionOnSet(w, S) \in Int
<1>1. PICK g : SumTable(g, w, S)
    BY SumOfSubset
<1> QED BY <1>1 DEF SumTable

(* An empty sum is zero. *)
LEMMA SumEmpty ==
    ASSUME NEW w
    PROVE  SumFunctionOnSet(w, {}) = 0
<1>1. IsFiniteSet({}) /\ IntOn(w, {})
    BY FS_EmptySet DEF IntOn
<1>2. PICK g : SumTable(g, w, {})
    BY <1>1, SumOfSubset
<1> QED BY <1>2 DEF SumStep, SumTable

(* The chosen element can be taken out. *)
LEMMA SumPick ==
    ASSUME NEW S, IsFiniteSet(S), S # {}, NEW w, IntOn(w, S)
    PROVE  /\ Pick(S) \in S
           /\ SumFunctionOnSet(w, S) = w[Pick(S)] + SumFunctionOnSet(w, S \ {Pick(S)})
<1>1. PICK g : SumTable(g, w, S)
    BY SumOfSubset
<1>2. g[S] = w[Pick(S)] + g[S \ {Pick(S)}]
    BY <1>1 DEF SumStep, SumTable
<1>3. SumFunctionOnSet(w, S) = g[S] /\ SumFunctionOnSet(w, S \ {Pick(S)}) = g[S \ {Pick(S)}]
    BY <1>1 DEF SumTable
<1>4. Pick(S) \in S
    BY DEF Pick
<1> QED BY <1>2, <1>3, <1>4

(* Any element can be taken out first. *)
LEMMA SumTake ==
    ASSUME NEW S, IsFiniteSet(S), NEW w, IntOn(w, S), NEW x \in S
    PROVE  SumFunctionOnSet(w, S) = w[x] + SumFunctionOnSet(w, S \ {x})
<1> DEFINE sum(T) == SumFunctionOnSet(w, T)
           B == {T \in SUBSET S : \E y \in T : sum(T) # w[y] + sum(T \ {y})}
<1>1. SUFFICES ASSUME B # {} PROVE FALSE
    OBVIOUS
<1>2. PICK T \in B : \A u \in B : u \subseteq T => u = T
    <2>1. B \in SUBSET SUBSET S
        OBVIOUS
    <2> HIDE DEF B
    <2> QED BY <1>1, <2>1, LeastSubset
<1>3. PICK y \in T : sum(T) # w[y] + sum(T \ {y})
    BY <1>2
<1> DEFINE c == Pick(T)
<1>4. \A u \in SUBSET T : IsFiniteSet(u) /\ IntOn(w, u) /\ sum(u) \in Int
    BY <1>2, FS_Subset, SumType DEF IntOn
<1>5. c \in T /\ sum(T) = w[c] + sum(T \ {c})
    BY <1>3, <1>4, SumPick
<1>6. c # y
    BY <1>3, <1>5
<1> HIDE DEF c, sum
<1>7. sum(T \ {c}) = w[y] + sum((T \ {c}) \ {y})
    <2>1. T \ {c} \notin B
        BY <1>2, <1>5
    <2> QED BY <2>1, <1>2, <1>6
<1>8. sum(T \ {y}) = w[c] + sum((T \ {y}) \ {c})
    <2>1. T \ {y} \notin B
        BY <1>2, <1>3
    <2> QED BY <2>1, <1>2, <1>5, <1>6
<1>9. (T \ {y}) \ {c} = (T \ {c}) \ {y}
    OBVIOUS
<1>10. w[c] \in Int /\ w[y] \in Int /\ sum((T \ {c}) \ {y}) \in Int
    BY <1>4, <1>5 DEF IntOn
<1>11. sum(T \ {y}) = w[c] + sum((T \ {c}) \ {y})
    BY <1>8, <1>9, Zenon
<1> QED BY <1>3, <1>5, <1>7, <1>10, <1>11

(* Induction over a finite set: no counterexample without a smaller one. *)
LEMMA NoLeastSubset ==
    ASSUME NEW S, IsFiniteSet(S), NEW B \in SUBSET SUBSET S,
           {} \notin B, \A T \in B : \E x \in T : T \ {x} \in B
    PROVE  B = {}
<1>1. SUFFICES ASSUME B # {} PROVE FALSE
    OBVIOUS
<1>2. PICK T \in B : \A u \in B : u \subseteq T => u = T
    BY <1>1, LeastSubset
<1>3. PICK x \in T : T \ {x} \in B
    OBVIOUS
<1> QED BY <1>2, <1>3

(* An element can be taken out of the sum over a subset. *)
LEMMA SumTakeFrom ==
    ASSUME NEW S, IsFiniteSet(S), NEW w, IntOn(w, S), NEW T \in SUBSET S, NEW x \in T
    PROVE  /\ w[x] \in Int
           /\ SumFunctionOnSet(w, T) \in Int
           /\ SumFunctionOnSet(w, T \ {x}) \in Int
           /\ SumFunctionOnSet(w, T) = w[x] + SumFunctionOnSet(w, T \ {x})
<1>1. T \ {x} \in SUBSET S
    OBVIOUS
<1>2. IsFiniteSet(T) /\ IsFiniteSet(T \ {x})
    BY <1>1, FS_Subset
<1>3. IntOn(w, T) /\ IntOn(w, T \ {x}) /\ w[x] \in Int
    BY DEF IntOn
<1> QED BY <1>2, <1>3, SumType, SumTake

(* Larger terms make no smaller sum. *)
LEMMA SumMonotone ==
    ASSUME NEW S, IsFiniteSet(S), NEW v, NEW w, IntOn(v, S), IntOn(w, S),
           \A x \in S : v[x] <= w[x]
    PROVE  SumFunctionOnSet(v, S) <= SumFunctionOnSet(w, S)
<1> DEFINE B == {T \in SUBSET S : ~ (SumFunctionOnSet(v, T) <= SumFunctionOnSet(w, T))}
<1>1. {} \notin B
    BY SumEmpty
<1>2. ASSUME NEW T \in B PROVE \E x \in T : T \ {x} \in B
    <2>1. PICK x \in T : TRUE
        BY <1>1
    <2>2. x \in S /\ T \in SUBSET S
        BY <2>1
    <2> DEFINE a == SumFunctionOnSet(v, T)  b == SumFunctionOnSet(w, T)
               c == SumFunctionOnSet(v, T \ {x})  d == SumFunctionOnSet(w, T \ {x})
    <2>3. v[x] \in Int /\ a \in Int /\ c \in Int /\ a = v[x] + c
        <3> HIDE DEF B
        <3> QED BY <2>1, <2>2, SumTakeFrom
    <2>4. w[x] \in Int /\ b \in Int /\ d \in Int /\ b = w[x] + d
        <3> HIDE DEF B
        <3> QED BY <2>1, <2>2, SumTakeFrom
    <2>5. ~ (a <= b) /\ v[x] <= w[x]
        BY <2>2
    <2>6. ~ (c <= d)
        <3> HIDE DEF a, b, c, d
        <3> QED BY <2>3, <2>4, <2>5
    <2> QED BY <2>1, <2>2, <2>6
<1>3. B \in SUBSET SUBSET S
    OBVIOUS
<1>4. B = {}
    <2> HIDE DEF B
    <2> QED BY <1>1, <1>2, <1>3, NoLeastSubset
<1>5. S \notin B
    BY <1>4
<1> QED BY <1>5

(* The same terms make the same sum. *)
LEMMA SumSame ==
    ASSUME NEW S, IsFiniteSet(S), NEW v, NEW w, IntOn(w, S),
           \A x \in S : v[x] = w[x]
    PROVE  SumFunctionOnSet(v, S) = SumFunctionOnSet(w, S)
<1>1. IntOn(v, S)
    BY DEF IntOn
<1>2. \A x \in S : v[x] <= w[x] /\ w[x] <= v[x]
    BY DEF IntOn
<1>3. SumFunctionOnSet(v, S) \in Int /\ SumFunctionOnSet(w, S) \in Int
    BY <1>1, SumType
<1>4. SumFunctionOnSet(v, S) <= SumFunctionOnSet(w, S)
    BY <1>1, <1>2, SumMonotone
<1>5. SumFunctionOnSet(w, S) <= SumFunctionOnSet(v, S)
    BY <1>1, <1>2, SumMonotone
<1> QED BY <1>3, <1>4, <1>5

(* A sum of naturals is a natural. *)
LEMMA SumNat ==
    ASSUME NEW S, IsFiniteSet(S), NEW w, \A x \in S : w[x] \in Nat
    PROVE  SumFunctionOnSet(w, S) \in Nat
<1> DEFINE B == {T \in SUBSET S : SumFunctionOnSet(w, T) \notin Nat}
<1>0. IntOn(w, S)
    BY DEF IntOn
<1>1. {} \notin B
    BY SumEmpty
<1>2. ASSUME NEW T \in B PROVE \E x \in T : T \ {x} \in B
    <2>1. PICK x \in T : TRUE
        BY <1>1
    <2>2. x \in S /\ T \in SUBSET S
        BY <2>1
    <2> DEFINE a == SumFunctionOnSet(w, T)  c == SumFunctionOnSet(w, T \ {x})
    <2>3. a \in Int /\ c \in Int /\ a = w[x] + c
        <3> HIDE DEF B
        <3> QED BY <1>0, <2>1, <2>2, SumTakeFrom
    <2>5. a \notin Nat /\ w[x] \in Nat
        BY <2>2
    <2>6. c \notin Nat
        <3> HIDE DEF a, c
        <3> QED BY <2>3, <2>5
    <2> QED BY <2>1, <2>2, <2>6
<1>3. B \in SUBSET SUBSET S
    OBVIOUS
<1>4. B = {}
    <2> HIDE DEF B
    <2> QED BY <1>1, <1>2, <1>3, NoLeastSubset
<1>5. S \notin B
    BY <1>4
<1> QED BY <1>5

(* A sum of zeros is zero. *)
LEMMA SumZero ==
    ASSUME NEW S, IsFiniteSet(S), NEW w, \A x \in S : w[x] = 0
    PROVE  SumFunctionOnSet(w, S) = 0
<1> DEFINE B == {T \in SUBSET S : SumFunctionOnSet(w, T) # 0}
<1>0. IntOn(w, S)
    BY DEF IntOn
<1>1. {} \notin B
    BY SumEmpty
<1>2. ASSUME NEW T \in B PROVE \E x \in T : T \ {x} \in B
    <2>1. PICK x \in T : TRUE
        BY <1>1
    <2>2. SumFunctionOnSet(w, T \ {x}) \in Int
          /\ SumFunctionOnSet(w, T) = w[x] + SumFunctionOnSet(w, T \ {x})
        BY <1>0, <2>1, SumTakeFrom
    <2>3. w[x] = 0 /\ T \ {x} \in SUBSET S
        BY <2>1
    <2>4. SumFunctionOnSet(w, T) # 0
        OBVIOUS
    <2>5. SumFunctionOnSet(w, T \ {x}) # 0
        <3> HIDE DEF B
        <3> QED BY <2>2, <2>3, <2>4
    <2> QED BY <2>1, <2>3, <2>5, Zenon
<1>3. B \in SUBSET SUBSET S
    OBVIOUS
<1>4. B = {}
    <2> HIDE DEF B
    <2> QED BY <1>1, <1>2, <1>3, NoLeastSubset
<1> QED BY <1>4

(* A sequence is summed from the left. *)
LEMMA SumNext ==
    ASSUME NEW n \in Nat, NEW w, \A i \in 1..(n + 1) : w[i] \in Int
    PROVE  /\ SumFunctionOnSet(w, 1..n) \in Int
           /\ SumFunctionOnSet(w, 1..(n + 1)) = w[n + 1] + SumFunctionOnSet(w, 1..n)
<1>1. IsFiniteSet(1..(n + 1)) /\ IsFiniteSet(1..n)
    BY FS_Interval
<1>2. IntOn(w, 1..(n + 1)) /\ IntOn(w, 1..n)
    BY DEF IntOn
<1>3. n + 1 \in 1..(n + 1) /\ (1..(n + 1)) \ {n + 1} = 1..n
    OBVIOUS
<1>4. SumFunctionOnSet(w, 1..(n + 1)) = w[n + 1] + SumFunctionOnSet(w, (1..(n + 1)) \ {n + 1})
    BY <1>1, <1>2, <1>3, SumTake
<1>5. SumFunctionOnSet(w, 1..n) \in Int
    BY <1>1, <1>2, SumType
<1> QED BY <1>3, <1>4, <1>5, Zenon

(* Two disjoint sets are summed apart. *)
LEMMA SumUnion ==
    ASSUME NEW S, IsFiniteSet(S), NEW w, IntOn(w, S), NEW A \in SUBSET S
    PROVE  SumFunctionOnSet(w, S) = SumFunctionOnSet(w, A) + SumFunctionOnSet(w, S \ A)
<1> DEFINE R == S \ A
           B == {T \in SUBSET A :
                  SumFunctionOnSet(w, T \union R) # SumFunctionOnSet(w, T) + SumFunctionOnSet(w, R)}
<1>0. IsFiniteSet(A) /\ IsFiniteSet(R) /\ IntOn(w, R) /\ SumFunctionOnSet(w, R) \in Int
    BY FS_Subset, SumType DEF IntOn
<1>1. {} \notin B
    <2>1. {} \union R = R
        OBVIOUS
    <2>2. SumFunctionOnSet(w, {} \union R) = SumFunctionOnSet(w, R)
        BY <2>1, Zenon
    <2> HIDE DEF R
    <2> QED BY <1>0, <2>2, SumEmpty
<1>2. ASSUME NEW T \in B PROVE \E x \in T : T \ {x} \in B
    <2>1. PICK x \in T : TRUE
        BY <1>1
    <2>2. x \in S /\ x \in T \union R /\ T \in SUBSET S /\ T \union R \in SUBSET S
            /\ (T \union R) \ {x} = (T \ {x}) \union R
        BY <2>1
    <2> DEFINE a == SumFunctionOnSet(w, T \union R)  b == SumFunctionOnSet(w, T)
               c == SumFunctionOnSet(w, (T \ {x}) \union R)  d == SumFunctionOnSet(w, T \ {x})
               r == SumFunctionOnSet(w, R)
    <2>3. w[x] \in Int /\ a \in Int /\ c \in Int /\ a = w[x] + c
        <3>1. /\ w[x] \in Int /\ a \in Int /\ SumFunctionOnSet(w, (T \union R) \ {x}) \in Int
              /\ a = w[x] + SumFunctionOnSet(w, (T \union R) \ {x})
            <4> HIDE DEF R
            <4> QED BY <2>1, <2>2, SumTakeFrom
        <3>2. SumFunctionOnSet(w, (T \union R) \ {x}) = c
            <4> HIDE DEF R
            <4> QED BY <2>2, Zenon
        <3> HIDE DEF a, c
        <3> QED BY <3>1, <3>2
    <2>4. b \in Int /\ d \in Int /\ b = w[x] + d
        <3> HIDE DEF B
        <3> QED BY <2>1, <2>2, SumTakeFrom
    <2>5. a # b + r /\ r \in Int
        BY <1>0
    <2>6. c # d + r
        <3> HIDE DEF a, b, c, d, r
        <3> QED BY <2>3, <2>4, <2>5
    <2>7. T \ {x} \in SUBSET A
        OBVIOUS
    <2> QED BY <2>1, <2>6, <2>7
<1>3. B \in SUBSET SUBSET A
    OBVIOUS
<1>4. B = {}
    <2> HIDE DEF B
    <2> QED BY <1>0, <1>1, <1>2, <1>3, NoLeastSubset
<1>5. A \notin B
    BY <1>4
<1>6. A \union R = S
    OBVIOUS
<1>7. SumFunctionOnSet(w, A \union R) = SumFunctionOnSet(w, S)
    BY <1>6, Zenon
<1> QED BY <1>5, <1>7

-----------------------------------------------------------------------------
(* Folds over sequences *)

(* Max of a set of indexes is its largest. *)
LEMMA MaxOf ==
    ASSUME NEW n \in Nat, NEW s \in SUBSET (1..n), s # {}
    PROVE  Max(s) \in s /\ \A y \in s : Max(s) >= y
<1> DEFINE T == {n - k : k \in s}
<1>1. T \in SUBSET Nat /\ T # {}
    <2>1. ASSUME NEW k \in s PROVE n - k \in Nat
        OBVIOUS
    <2> QED BY <2>1
<1>2. PICK m \in T : \A k \in T : m <= k
    <2> HIDE DEF T
    <2> QED BY <1>1, LeastNat
<1>3. PICK x \in s : m = n - x
    BY <1>2
<1>4. ASSUME NEW y \in s PROVE x >= y
    <2>1. n - x <= n - y
        BY <1>2, <1>3
    <2>2. x \in Nat /\ y \in Nat
        OBVIOUS
    <2> QED BY <2>1, <2>2
<1> QED BY <1>4 DEF Max

(* The largest of the first n is n. *)
LEMMA MaxOfPrefix ==
    ASSUME NEW n \in Nat \ {0}
    PROVE  Max(1..n) = n /\ (1..n) \ {n} = 1..(n - 1)
<1>1. Max(1..n) \in 1..n /\ \A y \in 1..n : Max(1..n) >= y
    <2>1. n \in Nat /\ 1..n \in SUBSET (1..n) /\ n \in 1..n
        OBVIOUS
    <2> QED BY <2>1, MaxOf
<1>2. Max(1..n) = n
    BY <1>1
<1> QED BY <1>2

(* The order FoldLeft goes in: the last index is taken off first. *)
MaxFirst(n) == [s \in SUBSET (1..n) |-> Max(s)]

(* What a fold from the left with a function G goes through. *)
LEMMA FoldExists ==
    ASSUME NEW n \in Nat, NEW U, NEW base \in U, NEW G \in [U \X (1..n) -> U]
    PROVE  \E f : Recursion(f, 1..n, U, base, G, MaxFirst(n))
<1>1. IsFiniteSet(1..n)
    BY FS_Interval
<1>2. \A s \in SUBSET (1..n) : s # {} => MaxFirst(n)[s] \in s
    BY MaxOf DEF MaxFirst
<1> QED BY <1>1, <1>2, RecursionExists

-----------------------------------------------------------------------------
(* The contexts a builder can return. *)
Contexts ==
    [original_psbt : PSBTs, output_substitution : BOOLEAN,
     fee_contribution : [max_amount : Nat, vout : Nat], min_fee_rate : Nat]

(* The state of the loop of check_outputs. *)
OutputRuns == [next : Nat \ {0}, fee : Int, ok : BOOLEAN]

(* One turn of check_outputs keeps the type of its state. *)
LEMMA CheckOutputType ==
    ASSUME NEW c \in Contexts, NEW acc \in OutputRuns, NEW o \in Outputs
    PROVE  CheckOutput(c, acc, o) \in OutputRuns
<1> DEFINE L == Len(c.original_psbt.outputs)
<1>1. c.original_psbt.outputs \in Seq(Outputs) /\ L \in Nat /\ acc.next \in Nat \ {0}
    BY DEF Contexts, PSBTs, OutputRuns
<1>2. CASE acc.next > L
    BY <1>2 DEF CheckOutput
<1>3. CASE ~ (acc.next > L)
    <2> DEFINE original == c.original_psbt.outputs[acc.next]
               given == original.value - o.value
    <2>1. original \in Outputs
        BY <1>1, <1>3
    <2>2. given \in Int
        BY <2>1 DEF Outputs
    <2>3. c.output_substitution \in BOOLEAN
        BY DEF Contexts
    <2> HIDE DEF original, given
    <2>4. acc.fee \in Int /\ acc.ok \in BOOLEAN
        BY DEF OutputRuns
    <2>5. \A fee \in Int, ok \in BOOLEAN :
            [next |-> acc.next + 1, fee |-> fee, ok |-> acc.ok /\ ok] \in OutputRuns
        BY <1>1, <2>4 DEF OutputRuns
    <2>6. \/ CheckOutput(c, acc, o) = acc
          \/ \E fee \in Int, ok \in BOOLEAN :
                CheckOutput(c, acc, o) = [next |-> acc.next + 1, fee |-> fee, ok |-> acc.ok /\ ok]
        BY <1>3, <2>2, <2>3, <2>4 DEF CheckOutput, original, given
    <2> QED BY <2>5, <2>6
<1> QED BY <1>2, <1>3

(* The state the loop starts in. *)
StartOutputs == [next |-> 1, fee |-> 0, ok |-> TRUE]

(* The states check_outputs goes through. *)
OutputRun(acc, c, outs) ==
    /\ acc \in [0..Len(outs) -> OutputRuns]
    /\ acc[0] = StartOutputs
    /\ \A n \in 1..Len(outs) : acc[n] = CheckOutput(c, acc[n - 1], outs[n])

(* What the recursion behind check_outputs satisfies. *)
OutputStep(g, c, outs) ==
    g = [s \in SUBSET DOMAIN outs |->
            IF s = {} THEN StartOutputs ELSE CheckOutput(c, g[s \ {Max(s)}], outs[Max(s)])]

(* check_outputs is its loop: it ends well only if every turn did and every
   output of the sender was found. *)
LEMMA OutputRunExists ==
    ASSUME NEW c \in Contexts, NEW p \in PSBTs
    PROVE  \E acc : /\ OutputRun(acc, c, p.outputs)
                    /\ check_outputs(c, p).fee = acc[Len(p.outputs)].fee
                    /\ check_outputs(c, p).ok =>
                          /\ acc[Len(p.outputs)].ok
                          /\ acc[Len(p.outputs)].next > Len(c.original_psbt.outputs)
<1>0. PICK outs \in Seq(Outputs) : outs = p.outputs
    BY DEF PSBTs
<1> DEFINE N == Len(outs)
           G == [q \in OutputRuns \X (1..N) |-> CheckOutput(c, q[1], outs[q[2]])]
<1>1. N \in Nat /\ DOMAIN outs = 1..N /\ \A i \in 1..N : outs[i] \in Outputs
    OBVIOUS
<1>2. StartOutputs \in OutputRuns
    BY DEF StartOutputs, OutputRuns
<1>3. G \in [OutputRuns \X (1..N) -> OutputRuns]
    BY <1>1, CheckOutputType
<1>4. PICK f : Recursion(f, 1..N, OutputRuns, StartOutputs, G, MaxFirst(N))
    <2> HIDE DEF G, N
    <2> QED BY <1>1, <1>2, <1>3, FoldExists
<1>5. f \in [SUBSET (1..N) -> OutputRuns]
    BY <1>4 DEF Recursion
<1>6. ASSUME NEW s \in SUBSET (1..N), s # {}
      PROVE  f[s] = CheckOutput(c, f[s \ {Max(s)}], outs[Max(s)])
    <2>1. MaxFirst(N)[s] = Max(s) /\ Max(s) \in 1..N
        BY <1>1, <1>6, MaxOf DEF MaxFirst
    <2>2. f[s] = G[<<f[s \ {Max(s)}], Max(s)>>]
        BY <1>4, <1>6, <2>1 DEF Recursion
    <2>3. <<f[s \ {Max(s)}], Max(s)>> \in OutputRuns \X (1..N)
        BY <1>5, <2>1
    <2> QED BY <2>2, <2>3
<1>7. f[{}] = StartOutputs
    BY <1>4 DEF Recursion
<1>8. OutputStep(f, c, outs)
    BY <1>1, <1>5, <1>6, <1>7 DEF OutputStep
<1> DEFINE g == CHOOSE g : OutputStep(g, c, outs)
           acc == [n \in 0..N |-> g[1..n]]
<1>9. OutputStep(g, c, outs)
    BY <1>8
<1>10. /\ check_outputs(c, p).fee = g[DOMAIN outs].fee
       /\ check_outputs(c, p).ok =>
             g[DOMAIN outs].ok /\ g[DOMAIN outs].next > Len(c.original_psbt.outputs)
    BY <1>0 DEF check_outputs, FoldLeft, MapThenFoldSet, OutputStep, StartOutputs
<1> HIDE DEF g
<1>11. acc[0] = StartOutputs
    <2>1. 1..0 = {} /\ {} \in SUBSET DOMAIN outs
        OBVIOUS
    <2>2. g[{}] = StartOutputs
        BY <1>9, <2>1 DEF OutputStep
    <2> QED BY <1>1, <2>1, <2>2
<1>12. ASSUME NEW n \in 1..N PROVE acc[n] = CheckOutput(c, acc[n - 1], outs[n])
    <2>0. n \in 1..n /\ n \in Nat \ {0} /\ 1..n \subseteq 1..N
        BY <1>1
    <2>1. 1..n \in SUBSET DOMAIN outs /\ 1..n # {} /\ n \in Nat \ {0}
        BY <1>1, <2>0
    <2>2. g[1..n] = CheckOutput(c, g[(1..n) \ {Max(1..n)}], outs[Max(1..n)])
        BY <1>9, <2>1 DEF OutputStep
    <2>3. Max(1..n) = n /\ (1..n) \ {n} = 1..(n - 1)
        BY <2>1, MaxOfPrefix
    <2>4. g[1..n] = CheckOutput(c, g[1..(n - 1)], outs[n])
        BY <2>2, <2>3
    <2> QED BY <1>1, <2>4
<1>13. \A n \in 0..N : acc[n] \in OutputRuns
    <2> DEFINE T == {n \in 0..N : acc[n] \in OutputRuns}
    <2>1. 0 \in T
        BY <1>1, <1>2, <1>11
    <2>2. ASSUME NEW n \in 0..(N - 1), n \in T PROVE n + 1 \in T
        <3>1. n + 1 \in 1..N /\ (n + 1) - 1 = n /\ acc[n] \in OutputRuns
            BY <1>1, <2>2
        <3>2. acc[n + 1] = CheckOutput(c, acc[n], outs[n + 1])
            BY <1>12, <3>1
        <3> HIDE DEF acc
        <3> QED BY <1>1, <3>1, <3>2, CheckOutputType
    <2> HIDE DEF T
    <2>3. \A n \in 0..N : n \in T
        BY <1>1, <2>1, <2>2, UpTo
    <2> QED BY <2>3 DEF T
<1>14. acc[N] = g[DOMAIN outs]
    BY <1>1
<1>15. acc \in [0..N -> OutputRuns]
    BY <1>13
<1> HIDE DEF acc
<1> QED BY <1>0, <1>10, <1>11, <1>12, <1>14, <1>15 DEF OutputRun

-----------------------------------------------------------------------------
(* check_outputs *)

(* The outputs of the Original PSBT of a context. *)
SentOf(c) == c.original_psbt.outputs

(* An output does the sender's i-th output justice. *)
OutputKept(c, i, o) ==
    SentOf(c)[i].script # Payee \/ ~c.output_substitution =>
        /\ o.script = SentOf(c)[i].script
        /\ o.value >= SentOf(c)[i].value -
              (IF i = c.fee_contribution.vout THEN c.fee_contribution.max_amount ELSE 0)

(* One output matches the next of the sender's (the fee output, the payee's,
   another of ours) or is passed over. *)
Given(c, i, o) == SentOf(c)[i].value - o.value

MatchesFee(c, acc, o, r) ==
    /\ o.script = SentOf(c)[acc.next].script /\ acc.next = c.fee_contribution.vout
    /\ r.fee = IF Given(c, acc.next, o) > 0 THEN Given(c, acc.next, o) ELSE acc.fee
    /\ r.ok => acc.ok /\ Given(c, acc.next, o) <= c.fee_contribution.max_amount

MatchesPayee(c, acc, o, r) ==
    /\ SentOf(c)[acc.next].script = Payee
    /\ r.fee = acc.fee
    /\ r.ok => /\ acc.ok
               /\ c.output_substitution \/ (o.script = Payee /\ Given(c, acc.next, o) <= 0)

MatchesOurs(c, acc, o, r) ==
    /\ o.script = SentOf(c)[acc.next].script
    /\ r.fee = acc.fee
    /\ r.ok => acc.ok /\ Given(c, acc.next, o) <= 0

(* A comparison is a Boolean. *)
LEMMA Truth ==
    ASSUME NEW m, NEW n
    PROVE  \E ok \in BOOLEAN : ok = (m <= n)
<1>1. CASE m <= n
    <2>1. TRUE = (m <= n)
        BY <1>1
    <2> QED BY <2>1, Zenon
<1>2. CASE ~ (m <= n)
    <2>1. FALSE = (m <= n)
        BY <1>2
    <2> QED BY <2>1, Zenon
<1> QED BY <1>1, <1>2

(* One turn passes an output over or matches the next of the sender's. *)
LEMMA CheckOutputCases ==
    ASSUME NEW c \in Contexts, NEW acc \in OutputRuns, NEW o \in Outputs,
           NEW r, r = CheckOutput(c, acc, o)
    PROVE  \/ r = acc
           \/ /\ acc.next \in 1..Len(SentOf(c)) /\ r.next = acc.next + 1
              /\ MatchesFee(c, acc, o, r) \/ MatchesPayee(c, acc, o, r) \/ MatchesOurs(c, acc, o, r)
<1> DEFINE L == Len(SentOf(c))
           s == SentOf(c)[acc.next]
           given == Given(c, acc.next, o)
           Match(fee, ok) == [next |-> acc.next + 1, fee |-> fee, ok |-> acc.ok /\ ok]
<1>1. L \in Nat /\ acc.next \in Nat \ {0}
    BY DEF Contexts, PSBTs, OutputRuns, SentOf
<1>2. r = IF acc.next > L THEN acc
          ELSE IF o.script = s.script /\ acc.next = c.fee_contribution.vout
          THEN Match(IF given > 0 THEN given ELSE acc.fee, given <= c.fee_contribution.max_amount)
          ELSE IF s.script = Payee
          THEN Match(acc.fee, c.output_substitution \/ (o.script = s.script /\ given <= 0))
          ELSE IF o.script = s.script THEN Match(acc.fee, given <= 0) ELSE acc
    BY Zenon DEF CheckOutput, SentOf, Given
<1>4. acc.next > L \/ acc.next \in 1..L
    BY <1>1
<1>3. ASSUME NEW fee, NEW ok \in BOOLEAN, r = Match(fee, ok)
      PROVE  r.next = acc.next + 1 /\ r.fee = fee /\ (r.ok => acc.ok /\ ok)
    BY <1>3 DEF OutputRuns
<1> HIDE DEF Match, L, given, s
<1>5. CASE o.script = s.script /\ acc.next = c.fee_contribution.vout /\ ~ (acc.next > L)
    <2>0. PICK ok \in BOOLEAN : ok = (given <= c.fee_contribution.max_amount)
        BY Truth, Zenon
    <2>1. r = Match(IF given > 0 THEN given ELSE acc.fee, ok)
        BY <1>2, <1>5, <2>0, Zenon
    <2>2. r.next = acc.next + 1 /\ MatchesFee(c, acc, o, r)
        BY <1>3, <1>5, <2>0, <2>1, Zenon DEF MatchesFee, s, given
    <2> QED BY <1>4, <1>5, <2>2, Zenon DEF L
<1>6. CASE s.script = Payee /\ ~ (o.script = s.script /\ acc.next = c.fee_contribution.vout)
            /\ ~ (acc.next > L)
    <2>0. PICK ok \in BOOLEAN :
            ok = (c.output_substitution \/ (o.script = s.script /\ given <= 0))
        BY Zenon
    <2>1. r = Match(acc.fee, ok)
        BY <1>2, <1>6, <2>0, Zenon
    <2>2. r.next = acc.next + 1 /\ MatchesPayee(c, acc, o, r)
        BY <1>3, <1>6, <2>0, <2>1, Zenon DEF MatchesPayee, s, given
    <2> QED BY <1>4, <1>6, <2>2, Zenon DEF L
<1>7. CASE o.script = s.script /\ s.script # Payee /\ acc.next # c.fee_contribution.vout
            /\ ~ (acc.next > L)
    <2>0. PICK ok \in BOOLEAN : ok = (given <= 0)
        BY Truth, Zenon
    <2>1. r = Match(acc.fee, ok)
        BY <1>2, <1>7, <2>0, Zenon
    <2>2. r.next = acc.next + 1 /\ MatchesOurs(c, acc, o, r)
        BY <1>3, <1>7, <2>0, <2>1, Zenon DEF MatchesOurs, s, given
    <2> QED BY <1>4, <1>7, <2>2, Zenon DEF L
<1> QED BY <1>2, <1>5, <1>6, <1>7

(* What is matched does the sender justice, or the check fails. *)
LEMMA CheckOutputStep ==
    ASSUME NEW c \in Contexts, NEW acc \in OutputRuns, NEW o \in Outputs,
           NEW r, r = CheckOutput(c, acc, o)
    PROVE  \/ r = acc
           \/ /\ acc.next \in 1..Len(SentOf(c)) /\ r.next = acc.next + 1
              /\ r.ok => acc.ok /\ OutputKept(c, acc.next, o)
<1>1. SUFFICES ASSUME /\ acc.next \in 1..Len(SentOf(c)) /\ r.next = acc.next + 1 /\ r.ok
                      /\ MatchesFee(c, acc, o, r) \/ MatchesPayee(c, acc, o, r)
                         \/ MatchesOurs(c, acc, o, r)
               PROVE  acc.ok /\ OutputKept(c, acc.next, o)
    <2>1. \/ r = acc
          \/ /\ acc.next \in 1..Len(SentOf(c)) /\ r.next = acc.next + 1
             /\ MatchesFee(c, acc, o, r) \/ MatchesPayee(c, acc, o, r) \/ MatchesOurs(c, acc, o, r)
        BY CheckOutputCases
    <2> QED BY <2>1, Zenon
<1>2. SentOf(c)[acc.next] \in Outputs
    BY <1>1 DEF Contexts, PSBTs, SentOf
<1>3. SentOf(c)[acc.next].value \in Nat /\ o.value \in Nat
      /\ c.fee_contribution.max_amount \in Nat
    BY <1>2 DEF Outputs, Contexts
<1>4. CASE MatchesFee(c, acc, o, r)
    BY <1>1, <1>3, <1>4 DEF MatchesFee, OutputKept, Given
<1>5. CASE MatchesPayee(c, acc, o, r)
    BY <1>1, <1>3, <1>5 DEF MatchesPayee, OutputKept, Given
<1>6. CASE MatchesOurs(c, acc, o, r)
    BY <1>1, <1>3, <1>6 DEF MatchesOurs, OutputKept, Given
<1> QED BY <1>1, <1>4, <1>5, <1>6

(* The sender's outputs that were found among the first n, in order. *)
Found(f, c, outs, m, n) ==
    /\ f \in [1..m -> 1..n]
    /\ \A i, j \in 1..m : i < j => f[i] < f[j]
    /\ \A i \in 1..m : OutputKept(c, i, outs[f[i]])

(* One more output, and one more of the sender's found. *)
LEMMA FoundMore ==
    ASSUME NEW c, NEW outs, NEW n \in Nat, NEW m \in Nat, NEW f, Found(f, c, outs, m, n)
    PROVE  /\ Found(f, c, outs, m, n + 1)
           /\ OutputKept(c, m + 1, outs[n + 1]) => \E g : Found(g, c, outs, m + 1, n + 1)
<1>1. Found(f, c, outs, m, n + 1)
    <2>1. 1..n \subseteq 1..(n + 1)
        OBVIOUS
    <2> QED BY <2>1 DEF Found
<1>2. ASSUME OutputKept(c, m + 1, outs[n + 1]) PROVE \E g : Found(g, c, outs, m + 1, n + 1)
    <2> DEFINE g == [i \in 1..(m + 1) |-> IF i = m + 1 THEN n + 1 ELSE f[i]]
    <2>1. \A i \in 1..(m + 1) : i = m + 1 \/ i \in 1..m
        OBVIOUS
    <2>2. \A i \in 1..m : f[i] \in 1..n /\ i # m + 1 /\ i \in 1..(m + 1)
        BY DEF Found
    <2>3. g[m + 1] = n + 1 /\ \A i \in 1..m : g[i] = f[i]
        BY <2>2
    <2>4. g \in [1..(m + 1) -> 1..(n + 1)]
        BY <2>1, <2>2
    <2> HIDE DEF g
    <2>5. ASSUME NEW i \in 1..(m + 1), NEW j \in 1..(m + 1), i < j PROVE g[i] < g[j]
        <3>1. i \in 1..m
            BY <2>5
        <3>2. CASE j = m + 1
            BY <2>2, <2>3, <3>1, <3>2
        <3>3. CASE j \in 1..m
            BY <2>3, <2>5, <3>1, <3>3 DEF Found
        <3> QED BY <2>1, <3>2, <3>3
    <2>6. \A i \in 1..(m + 1) : OutputKept(c, i, outs[g[i]])
        BY <1>2, <2>1, <2>3 DEF Found
    <2> QED BY <2>4, <2>5, <2>6 DEF Found
<1> QED BY <1>1, <1>2

(* As long as the check has not failed, the sender's outputs that were passed
   are found in order. *)
LEMMA OutputsFound ==
    ASSUME NEW c \in Contexts, NEW outs \in Seq(Outputs), NEW acc, OutputRun(acc, c, outs),
           NEW n \in 0..Len(outs), acc[n].ok
    PROVE  acc[n].next - 1 \in Nat /\ \E f : Found(f, c, outs, acc[n].next - 1, n)
<1> DEFINE N == Len(outs)
           P(k) == acc[k].ok => \E f : Found(f, c, outs, acc[k].next - 1, k)
           T == {k \in 0..N : P(k)}
<1>1. N \in Nat /\ \A k \in 1..N : outs[k] \in Outputs
    OBVIOUS
<1>2. \A k \in 0..N : acc[k] \in OutputRuns /\ acc[k].next - 1 \in Nat
    BY DEF OutputRun, OutputRuns
<1>3. 0 \in T
    <2>1. acc[0].next - 1 = 0
        BY DEF OutputRun, StartOutputs
    <2>2. 1..0 = {}
        OBVIOUS
    <2>3. Found([i \in 1..0 |-> 0], c, outs, 0, 0)
        BY <2>2 DEF Found
    <2> QED BY <1>1, <2>1, <2>3
<1>4. ASSUME NEW k \in 0..(N - 1), k \in T PROVE k + 1 \in T
    <2>1. /\ k \in 0..N /\ k + 1 \in 1..N /\ k + 1 \in 0..N /\ k \in Nat
          /\ (k + 1) - 1 = k /\ outs[k + 1] \in Outputs
        BY <1>1
    <2>2. acc[k + 1] = CheckOutput(c, acc[k], outs[k + 1])
        BY <2>1 DEF OutputRun
    <2> DEFINE m == acc[k].next - 1
    <2>3. m \in Nat /\ acc[k] \in OutputRuns
        BY <1>2, <2>1
    <2>4. \/ acc[k + 1] = acc[k]
          \/ /\ acc[k + 1].next - 1 = m + 1
             /\ acc[k + 1].ok => acc[k].ok /\ OutputKept(c, m + 1, outs[k + 1])
        <3>1. acc[k].next \in Nat /\ acc[k].next = m + 1
            BY <2>3 DEF OutputRuns
        <3>2. \/ acc[k + 1] = acc[k]
              \/ /\ acc[k + 1].next = acc[k].next + 1
                 /\ acc[k + 1].ok => acc[k].ok /\ OutputKept(c, acc[k].next, outs[k + 1])
            BY <2>1, <2>2, <2>3, CheckOutputStep
        <3> HIDE DEF m
        <3> QED BY <2>3, <3>1, <3>2
    <2>5. SUFFICES ASSUME acc[k + 1].ok
                   PROVE  \E f : Found(f, c, outs, acc[k + 1].next - 1, k + 1)
        BY <2>1
    <2>6. PICK f : Found(f, c, outs, m, k)
        <3>1. acc[k].ok
            BY <2>4, <2>5
        <3> QED BY <1>4, <3>1
    <2> HIDE DEF m
    <2>7. /\ Found(f, c, outs, m, k + 1)
          /\ OutputKept(c, m + 1, outs[k + 1]) => \E g : Found(g, c, outs, m + 1, k + 1)
        BY <2>1, <2>3, <2>6, FoundMore
    <2>8. CASE acc[k + 1] = acc[k]
        BY <2>7, <2>8 DEF m
    <2>9. CASE acc[k + 1].next - 1 = m + 1 /\ OutputKept(c, m + 1, outs[k + 1])
        BY <2>7, <2>9
    <2> QED BY <2>4, <2>5, <2>8, <2>9
<1>5. n \in T
    <2> HIDE DEF T
    <2> QED BY <1>1, <1>3, <1>4, UpTo
<1> QED BY <1>2, <1>5

(* A proposal that passes check_outputs keeps the sender's outputs. *)
LEMMA OutputsKept ==
    ASSUME NEW c \in Contexts, NEW p \in PSBTs, check_outputs(c, p).ok
    PROVE  \E f \in Embeddings(SentOf(c), p.outputs) :
              \A i \in DOMAIN SentOf(c) : OutputKept(c, i, p.outputs[f[i]])
<1> DEFINE outs == p.outputs
           L == Len(SentOf(c))
<1>1. outs \in Seq(Outputs) /\ SentOf(c) \in Seq(Outputs)
    BY DEF PSBTs, Contexts, SentOf
<1>2. PICK acc : OutputRun(acc, c, outs) /\ acc[Len(outs)].ok /\ acc[Len(outs)].next > L
    BY OutputRunExists DEF SentOf
<1> DEFINE end == acc[Len(outs)]
<1>3. end.ok /\ end.next > L
    BY <1>2
<1>4. Len(outs) \in 0..Len(outs) /\ L \in Nat
    BY <1>1
<1>5. end.next - 1 \in Nat /\ \E f : Found(f, c, outs, end.next - 1, Len(outs))
    BY <1>1, <1>2, <1>3, <1>4, OutputsFound
<1>6. PICK f : Found(f, c, outs, end.next - 1, Len(outs))
    BY <1>5
<1>7. 1..L \subseteq 1..(end.next - 1) /\ DOMAIN SentOf(c) = 1..L /\ DOMAIN outs = 1..Len(outs)
    <2>1. end.next \in Nat \ {0}
        BY <1>2, <1>4 DEF OutputRun, OutputRuns
    <2> HIDE DEF end
    <2> QED BY <1>1, <1>3, <1>4, <2>1
<1> DEFINE g == [i \in 1..L |-> f[i]]
<1>8. g \in [DOMAIN SentOf(c) -> DOMAIN outs]
    BY <1>6, <1>7 DEF Found
<1>9. \A i, j \in 1..L : i < j => g[i] < g[j]
    BY <1>6, <1>7 DEF Found
<1>10. IsInjective(g)
    <2>1. ASSUME NEW a \in 1..L, NEW b \in 1..L, a # b PROVE g[a] # g[b]
        <3>1. a < b \/ b < a
            BY <1>4, <2>1
        <3>2. g[a] \in Nat /\ g[b] \in Nat
            BY <1>1, <1>7, <1>8
        <3> HIDE DEF g
        <3> QED BY <1>9, <3>1, <3>2
    <2>2. DOMAIN g = 1..L
        OBVIOUS
    <2> HIDE DEF g
    <2> QED BY <2>1, <2>2 DEF IsInjective
<1>11. \A i \in 1..L : OutputKept(c, i, outs[g[i]])
    BY <1>6, <1>7 DEF Found
<1>12. g \in Embeddings(SentOf(c), outs)
    <2> HIDE DEF g
    <2> QED BY <1>7, <1>8, <1>9, <1>10 DEF Embeddings, Injection
<1> HIDE DEF g
<1> QED BY <1>7, <1>11, <1>12

-----------------------------------------------------------------------------
(* Types *)

-----------------------------------------------------------------------------
(* Contexts: the builder's offer is covered *)

(* Min of a set of naturals is its least. *)
LEMMA MinOf ==
    ASSUME NEW s \in SUBSET Nat, s # {}
    PROVE  Min(s) \in s /\ \A y \in s : Min(s) <= y
<1>1. PICK m \in s : \A y \in s : m <= y
    BY LeastNat
<1> QED BY <1>1 DEF Min

(* Min of two. *)
LEMMA MinOfPair ==
    ASSUME NEW a \in Nat, NEW b \in Nat
    PROVE  Min({a, b}) \in Nat /\ Min({a, b}) <= a /\ Min({a, b}) <= b
<1>1. {a, b} \in SUBSET Nat /\ {a, b} # {} /\ a \in {a, b} /\ b \in {a, b}
    OBVIOUS
<1>2. Min({a, b}) \in {a, b} /\ \A y \in {a, b} : Min({a, b}) <= y
    BY <1>1, MinOf
<1> QED BY <1>1, <1>2

(* Max of two. *)
LEMMA MaxOfPair ==
    ASSUME NEW a \in Int, NEW b \in Int
    PROVE  Max({a, b}) = IF a >= b THEN a ELSE b
BY DEF Max

(* The fields of an output. *)
LEMMA OutputType ==
    ASSUME NEW o \in Outputs
    PROVE  o.value \in Nat /\ o.script \in DOMAIN OutputWeight /\ o.keypaths \in BOOLEAN
BY DEF Outputs

(* The coin an input spends. *)
LEMMA InputType ==
    ASSUME NEW i \in Inputs
    PROVE  /\ i.outpoint \in DOMAIN Coin
           /\ Coin[i.outpoint].value \in Nat /\ Coin[i.outpoint].weight \in Nat
BY PsbtsAssumption DEF Inputs

(* Contributions: an amount and the index of an output, or 0 for none. *)
Fees == [max_amount : Nat, vout : Nat]

(* What a contribution offered for these outputs may be. *)
Covered(outs, f) ==
    /\ f \in Fees
    /\ f.vout # 0 => f.vout \in DOMAIN outs /\ f.max_amount <= outs[f.vout].value

(* A fee is never negative. *)
LEMMA FeeAtType ==
    ASSUME NEW w \in Int, NEW r \in Int
    PROVE  FeeAt(w, r) \in Nat
<1>1. Word \in Nat \ {0} /\ Scale \in Nat \ {0}
    BY PsbtsAssumption
<1> DEFINE a == w * r
           b == (a % Word) + Scale - 1
<1>2. a \in Int
    OBVIOUS
<1>3. a % Word \in 0..(Word - 1)
    <2> HIDE DEF a
    <2> QED BY <1>1, <1>2
<1>4. b \in Nat
    <2> HIDE DEF a
    <2> QED BY <1>1, <1>3
<1>5. b % Word \in 0..(Word - 1)
    <2> HIDE DEF b
    <2> QED BY <1>1, <1>4
<1> DEFINE d == b % Word
<1>6. d \div Scale \in Nat
    <2>1. d \in Nat
        BY <1>1, <1>5
    <2> HIDE DEF d
    <2> QED BY <1>1, <2>1
<1> QED BY <1>6 DEF FeeAt

(* check_fee_output_amount offers no more than the output holds. *)
LEMMA OfferedCovers ==
    ASSUME NEW outs \in Seq(Outputs), NEW i \in DOMAIN outs, NEW fee \in Nat, NEW clamp \in BOOLEAN,
           NEW f \in Contribution(outs[i], i, fee, clamp)
    PROVE  Covered(outs, f)
<1>0. outs[i] \in Outputs /\ i \in Nat
    OBVIOUS
<1>1. outs[i].value \in Nat /\ i \in Nat
    BY <1>0, OutputType
<1>2. PICK a \in check_fee_output_amount(outs[i], fee, clamp) : f = [max_amount |-> a, vout |-> i]
    BY DEF Contribution
<1>3. a \in Nat /\ a <= outs[i].value
    <2>1. CASE outs[i].value >= fee
        BY <1>1, <1>2, <2>1 DEF check_fee_output_amount
    <2>2. CASE outs[i].value < fee /\ clamp
        BY <1>1, <1>2, <2>2 DEF check_fee_output_amount
    <2>3. CASE ~ (outs[i].value >= fee) /\ ~ (outs[i].value < fee /\ clamp)
        BY <1>1, <1>2, <2>3 DEF check_fee_output_amount
    <2> QED BY <2>1, <2>2, <2>3
<1> QED BY <1>1, <1>2, <1>3 DEF Covered, Fees

(* Nor does determine_fee_contribution, which finds the output. *)
LEMMA DeterminedCovers ==
    ASSUME NEW outs \in Seq(Outputs), NEW index \in Nat, NEW fee \in Nat, NEW clamp \in BOOLEAN,
           NEW f \in determine_fee_contribution(outs, fee, index, clamp)
    PROVE  Covered(outs, f)
<1>0. Covered(outs, NoContribution)
    BY DEF Covered, Fees, NoContribution
<1>1. CASE index = 0
    <2> DEFINE change == {i \in DOMAIN outs : outs[i].script # Payee}
    <2>1. f \in find_change_index(outs, fee, clamp)
        BY <1>1 DEF determine_fee_contribution
    <2>2. \/ f \in {NoContribution}
          \/ change # {} /\ f \in Contribution(outs[Min(change)], Min(change), fee, clamp)
        <3>1. CASE Len(outs) = 1 /\ change = {} /\ clamp
            BY <2>1, <3>1 DEF find_change_index
        <3>2. CASE Len(outs) = 2 /\ change # {}
            BY <2>1, <3>2 DEF find_change_index
        <3>3. CASE ~ (Len(outs) = 1 /\ change = {} /\ clamp) /\ ~ (Len(outs) = 2 /\ change # {})
            BY <2>1, <3>3 DEF find_change_index
        <3> QED BY <3>1, <3>2, <3>3
    <2>3. change \in SUBSET Nat /\ change \subseteq DOMAIN outs
        OBVIOUS
    <2>4. change # {} => Min(change) \in DOMAIN outs
        <3> HIDE DEF change
        <3> QED BY <2>3, MinOf
    <2> HIDE DEF change
    <2> QED BY <1>0, <2>2, <2>4, OfferedCovers
<1>2. CASE index # 0
    <2>1. f \in check_change_index(outs, fee, index, clamp)
        BY <1>2 DEF determine_fee_contribution
    <2>2. index \in DOMAIN outs /\ f \in Contribution(outs[index], index, fee, clamp)
        BY <2>1 DEF check_change_index
    <2> QED BY <2>2, OfferedCovers
<1> QED BY <1>1, <1>2

(* Nor does build_recommended. *)
LEMMA RecommendedCovers ==
    ASSUME NEW psbt \in Originals, NEW rate \in Nat, NEW f \in RecommendedContribution(psbt, rate)
    PROVE  Covered(psbt.outputs, f)
<1> DEFINE outs == psbt.outputs
           change == {i \in DOMAIN outs : outs[i].script # Payee}
           kinds  == {Coin[psbt.inputs[i].outpoint].kind : i \in DOMAIN psbt.inputs}
           weight == IF Cardinality(kinds) = 1
                     THEN expected_input_weight(psbt.inputs[1].outpoint) ELSE MixedWeight
           fee    == FeeAt(weight, rate)
           value  == outs[Min(change)].value
<1>0. psbt \in PSBTs /\ psbt.inputs # <<>>
    BY ProposalAssumption
<1>1. outs \in Seq(Outputs) /\ psbt.inputs \in Seq(Inputs)
    BY <1>0 DEF PSBTs
<1>2. weight \in Nat
    <2>1. 1 \in DOMAIN psbt.inputs
        BY <1>0, <1>1
    <2>2. psbt.inputs[1] \in Inputs
        BY <1>1, <2>1
    <2>3. expected_input_weight(psbt.inputs[1].outpoint) \in Nat
        BY <2>2, InputType DEF expected_input_weight
    <2> HIDE DEF kinds
    <2> QED BY <2>3, ProposalAssumption
<1>3. fee \in Nat
    <2> HIDE DEF weight
    <2>1. weight \in Int /\ rate \in Int
        BY <1>2
    <2> QED BY <2>1, FeeAtType, Zenon
<1>4. f \in IF change = {} THEN {NoContribution}
            ELSE determine_fee_contribution(outs, Min({fee, value}), Min(change), value < fee)
    BY Zenon DEF RecommendedContribution
<1>5. CASE change = {}
    BY <1>4, <1>5 DEF Covered, Fees, NoContribution
<1>6. CASE change # {}
    <2>1. Min(change) \in DOMAIN outs
        <3>1. change \in SUBSET Nat /\ change \subseteq DOMAIN outs
            BY <1>1
        <3> HIDE DEF change
        <3> QED BY <1>6, <3>1, MinOf
    <2>2. value \in Nat /\ Min(change) \in Nat
        <3> HIDE DEF change
        <3>1. outs[Min(change)] \in Outputs /\ Min(change) \in Nat
            BY <1>1, <2>1
        <3> QED BY <3>1, OutputType
    <2>3. Min({fee, value}) \in Nat
        <3> HIDE DEF fee, value
        <3> QED BY <1>3, <2>2, MinOfPair
    <2>4. (value < fee) \in BOOLEAN
        <3> HIDE DEF fee, value
        <3> QED BY <1>3, <2>2
    <2>5. f \in determine_fee_contribution(outs, Min({fee, value}), Min(change), value < fee)
        BY <1>4, <1>6, Zenon
    <2> HIDE DEF fee, value, change, outs
    <2> QED BY <1>1, <2>2, <2>3, <2>4, <2>5, DeterminedCovers DEF outs
<1> QED BY <1>5, <1>6

(* Whatever builder is used, the offer is covered. *)
LEMMA ContributionCovers ==
    ASSUME NEW psbt \in Originals, NEW rate \in Rates, NEW c \in Contributions(psbt, rate), NEW f \in c
    PROVE  Covered(psbt.outputs, f)
<1>1. psbt.outputs \in Seq(Outputs) /\ rate \in Nat /\ MaxFees \subseteq Nat
    BY ProposalAssumption DEF PSBTs
<1>2. CASE c = {NoContribution}
    BY <1>2 DEF Covered, Fees, NoContribution
<1>3. CASE c = RecommendedContribution(psbt, rate)
    BY <1>1, <1>3, RecommendedCovers
<1>4. CASE \E fee \in MaxFees, index \in 0..(Len(psbt.outputs) + 1), clamp \in BOOLEAN :
              c = determine_fee_contribution(psbt.outputs, fee, index, clamp)
    <2>1. PICK fee \in MaxFees, index \in 0..(Len(psbt.outputs) + 1), clamp \in BOOLEAN :
              c = determine_fee_contribution(psbt.outputs, fee, index, clamp)
        BY <1>4
    <2>2. fee \in Nat /\ index \in Nat
        BY <1>1
    <2> QED BY <1>1, <2>1, <2>2, DeterminedCovers
<1> QED BY <1>2, <1>3, <1>4 DEF Contributions

(* What every context the builder makes is like. *)
GoodContext(c) ==
    /\ c \in Contexts
    /\ c.original_psbt \in Originals
    /\ SignsEverything(c.original_psbt)
    /\ Covered(c.original_psbt.outputs, c.fee_contribution)

(* A context the builder returns has a signed Original PSBT and a covered offer. *)
LEMMA BuiltContext ==
    ASSUME NEW psbt \in Originals, NEW enabled \in BOOLEAN, NEW rate \in Rates, NEW amount,
           NEW c \in Contributions(psbt, rate), NEW b \in build(psbt, amount, enabled, c, rate)
    PROVE  GoodContext(b)
<1>1. SignsEverything(psbt) /\ check_single_payee(psbt.outputs, amount)
    BY DEF build
<1>2. b \in {[original_psbt |-> psbt, output_substitution |-> enabled,
              fee_contribution |-> f, min_fee_rate |-> rate] : f \in c}
    BY <1>1 DEF build
<1>3. PICK f \in c : b = [original_psbt |-> psbt, output_substitution |-> enabled,
                          fee_contribution |-> f, min_fee_rate |-> rate]
    BY <1>2
<1>4. Covered(psbt.outputs, f)
    BY ContributionCovers
<1>5. f \in [max_amount : Nat, vout : Nat]
    BY <1>4 DEF Covered, Fees
<1>6. psbt \in PSBTs /\ rate \in Nat
    BY ProposalAssumption
<1> QED BY <1>1, <1>3, <1>4, <1>5, <1>6 DEF GoodContext, Contexts

-----------------------------------------------------------------------------
(* PSBTs, amounts and weights *)

(* The fields of a PSBT. *)
LEMMA PsbtType ==
    ASSUME NEW p \in PSBTs
    PROVE  /\ p.inputs \in Seq(Inputs) /\ p.outputs \in Seq(Outputs)
           /\ p = [inputs |-> p.inputs, outputs |-> p.outputs, header |-> p.header]
           /\ \A ins \in Seq(Inputs), outs \in Seq(Outputs) :
                [inputs |-> ins, outputs |-> outs, header |-> p.header] \in PSBTs
BY DEF PSBTs

(* An input with other fields. *)
LEMMA InputFields ==
    ASSUME NEW i \in Inputs,
           NEW F \in SUBSET {"utxo", "final", "partial_sigs", "bip32_derivation", "sighash_single"}
    PROVE  /\ [i EXCEPT !.fields = F] \in Inputs
           /\ [i EXCEPT !.fields = F].outpoint = i.outpoint
           /\ [i EXCEPT !.fields = F].sequence = i.sequence
           /\ [i EXCEPT !.fields = F].fields = F
           /\ i.fields \in SUBSET {"utxo", "final", "partial_sigs", "bip32_derivation", "sighash_single"}
BY DEF Inputs

(* An output with or without key paths. *)
LEMMA OutputKeypaths ==
    ASSUME NEW o \in Outputs, NEW b \in BOOLEAN
    PROVE  /\ [o EXCEPT !.keypaths = b] \in Outputs
           /\ [o EXCEPT !.keypaths = b].script = o.script
           /\ [o EXCEPT !.keypaths = b].value = o.value
BY DEF Outputs

(* An output with another value. *)
LEMMA OutputValue ==
    ASSUME NEW o \in Outputs, NEW v
    PROVE  /\ [o EXCEPT !.value = v].script = o.script
           /\ [o EXCEPT !.value = v].value = v
           /\ v \in Nat => [o EXCEPT !.value = v] \in Outputs
BY DEF Outputs

(* A function on 1..n is a sequence. *)
LEMMA SeqFrom ==
    ASSUME NEW n \in Nat, NEW S, NEW s, s \in [1..n -> S]
    PROVE  s \in Seq(S) /\ Len(s) = n /\ DOMAIN s = 1..n
OBVIOUS

(* Same scripts and amounts, and same outpoints and sequence numbers. *)
SameOutputs(outs, old) ==
    /\ outs \in Seq(Outputs) /\ Len(outs) = Len(old) /\ DOMAIN outs = DOMAIN old
    /\ \A k \in DOMAIN old : outs[k].script = old[k].script /\ outs[k].value = old[k].value

SameInputs(ins, old) ==
    /\ ins \in Seq(Inputs) /\ Len(ins) = Len(old) /\ DOMAIN ins = DOMAIN old
    /\ \A k \in DOMAIN old : ins[k].outpoint = old[k].outpoint /\ ins[k].sequence = old[k].sequence

(* clear_unneeded_fields changes neither amounts nor outpoints. *)
LEMMA ClearedType ==
    ASSUME NEW p \in PSBTs
    PROVE  /\ clear_unneeded_fields(p) \in PSBTs
           /\ SameOutputs(clear_unneeded_fields(p).outputs, p.outputs)
           /\ SameInputs(clear_unneeded_fields(p).inputs, p.inputs)
           /\ \A i \in DOMAIN p.inputs :
                clear_unneeded_fields(p).inputs[i].fields = p.inputs[i].fields \ {"bip32_derivation"}
<1> DEFINE ins == [i \in DOMAIN p.inputs |-> [p.inputs[i] EXCEPT !.fields = @ \ {"bip32_derivation"}]]
           outs == [i \in DOMAIN p.outputs |-> [p.outputs[i] EXCEPT !.keypaths = FALSE]]
<1>1. /\ p.inputs \in Seq(Inputs) /\ p.outputs \in Seq(Outputs)
      /\ p = [inputs |-> p.inputs, outputs |-> p.outputs, header |-> p.header]
      /\ \A a \in Seq(Inputs), b \in Seq(Outputs) :
            [inputs |-> a, outputs |-> b, header |-> p.header] \in PSBTs
    BY PsbtType
<1>2. clear_unneeded_fields(p) = [inputs |-> ins, outputs |-> outs, header |-> p.header]
    BY Zenon DEF clear_unneeded_fields
<1>3. ASSUME NEW i \in DOMAIN p.inputs
      PROVE  /\ ins[i] \in Inputs /\ ins[i].outpoint = p.inputs[i].outpoint
             /\ ins[i].sequence = p.inputs[i].sequence
             /\ ins[i].fields = p.inputs[i].fields \ {"bip32_derivation"}
    <2>1. p.inputs[i] \in Inputs
        BY <1>1
    <2>2. p.inputs[i].fields \in SUBSET {"utxo", "final", "partial_sigs", "bip32_derivation", "sighash_single"}
        BY <2>1 DEF Inputs
    <2> QED BY <2>1, <2>2, InputFields
<1>4. ASSUME NEW i \in DOMAIN p.outputs
      PROVE  outs[i] \in Outputs /\ outs[i].script = p.outputs[i].script
             /\ outs[i].value = p.outputs[i].value
    <2>1. p.outputs[i] \in Outputs
        BY <1>1
    <2> QED BY <2>1, OutputKeypaths
<1>5. DOMAIN ins = DOMAIN p.inputs /\ DOMAIN outs = DOMAIN p.outputs
    OBVIOUS
<1>7. Len(p.inputs) \in Nat /\ DOMAIN p.inputs = 1..Len(p.inputs)
      /\ Len(p.outputs) \in Nat /\ DOMAIN p.outputs = 1..Len(p.outputs)
    BY <1>1
<1>8. ins \in [1..Len(p.inputs) -> Inputs] /\ outs \in [1..Len(p.outputs) -> Outputs]
    BY <1>3, <1>4, <1>7
<1> HIDE DEF ins, outs
<1>6. ins \in Seq(Inputs) /\ outs \in Seq(Outputs) /\ Len(ins) = Len(p.inputs) /\ Len(outs) = Len(p.outputs)
    BY <1>7, <1>8, SeqFrom
<1> QED BY <1>1, <1>2, <1>3, <1>4, <1>5, <1>6 DEF SameOutputs, SameInputs

-----------------------------------------------------------------------------
(* Amounts and weights *)

(* What OutputAmount, InputAmount and OutputsWeight add up. *)
ValueOf(outs) == [i \in DOMAIN outs |-> outs[i].value]
CoinValueOf(ins) == [i \in DOMAIN ins |-> Coin[ins[i].outpoint].value]
WeightOf(outs) == [i \in DOMAIN outs |-> OutputWeight[outs[i].script]]

(* Amounts and weights are sums over the indexes. *)
LEMMA Amounts ==
    ASSUME NEW outs
    PROVE  /\ OutputAmount(outs) = SumFunctionOnSet(ValueOf(outs), DOMAIN outs)
           /\ OutputsWeight(outs) = SumFunctionOnSet(WeightOf(outs), DOMAIN outs)
           /\ InputAmount(outs) = SumFunctionOnSet(CoinValueOf(outs), DOMAIN outs)
<1>1. DOMAIN ValueOf(outs) = DOMAIN outs /\ DOMAIN WeightOf(outs) = DOMAIN outs
      /\ DOMAIN CoinValueOf(outs) = DOMAIN outs
    BY DEF ValueOf, WeightOf, CoinValueOf
<1>2. OutputAmount(outs) = SumFunctionOnSet(ValueOf(outs), DOMAIN ValueOf(outs))
    BY Zenon DEF OutputAmount, SumOf, SumFunction, ValueOf
<1>3. OutputsWeight(outs) = SumFunctionOnSet(WeightOf(outs), DOMAIN WeightOf(outs))
    BY Zenon DEF OutputsWeight, SumOf, SumFunction, WeightOf
<1>4. InputAmount(outs) = SumFunctionOnSet(CoinValueOf(outs), DOMAIN CoinValueOf(outs))
    BY Zenon DEF InputAmount, SumOf, SumFunction, CoinValueOf
<1> QED BY <1>1, <1>2, <1>3, <1>4, Zenon

(* A sequence has finitely many indexes. *)
LEMMA FiniteDomain ==
    ASSUME NEW S, NEW s \in Seq(S)
    PROVE  IsFiniteSet(DOMAIN s)
<1>1. DOMAIN s = 1..Len(s) /\ Len(s) \in Nat
    OBVIOUS
<1>2. IsFiniteSet(1..Len(s))
    BY <1>1, FS_Interval
<1> QED BY <1>1, <1>2

(* Amounts and weights of outputs are naturals. *)
LEMMA OutputAmountType ==
    ASSUME NEW outs \in Seq(Outputs)
    PROVE  OutputAmount(outs) \in Nat /\ OutputsWeight(outs) \in Nat
<1>1. ASSUME NEW i \in DOMAIN outs PROVE ValueOf(outs)[i] \in Nat /\ WeightOf(outs)[i] \in Nat
    <2>1. outs[i] \in Outputs
        OBVIOUS
    <2>2. outs[i].value \in Nat /\ OutputWeight[outs[i].script] \in Nat
        BY <2>1, OutputType, PsbtsAssumption
    <2> QED BY <2>2 DEF ValueOf, WeightOf
<1>2. IsFiniteSet(DOMAIN outs)
    BY FiniteDomain
<1>3. SumFunctionOnSet(ValueOf(outs), DOMAIN outs) \in Nat
    BY <1>1, <1>2, SumNat
<1>4. SumFunctionOnSet(WeightOf(outs), DOMAIN outs) \in Nat
    BY <1>1, <1>2, SumNat
<1> QED BY <1>3, <1>4, Amounts, Zenon

(* The amount of inputs is a natural. *)
LEMMA InputAmountType ==
    ASSUME NEW ins \in Seq(Inputs)
    PROVE  InputAmount(ins) \in Nat
<1>1. ASSUME NEW i \in DOMAIN ins PROVE CoinValueOf(ins)[i] \in Nat
    <2>1. ins[i] \in Inputs
        OBVIOUS
    <2>2. Coin[ins[i].outpoint].value \in Nat
        BY <2>1, InputType
    <2> QED BY <2>2 DEF CoinValueOf
<1>2. IsFiniteSet(DOMAIN ins)
    BY FiniteDomain
<1>3. SumFunctionOnSet(CoinValueOf(ins), DOMAIN ins) \in Nat
    BY <1>1, <1>2, SumNat
<1> QED BY <1>3, Amounts, Zenon

-----------------------------------------------------------------------------
(* replace_receiver_outputs *)

(* A finite set as a sequence. *)
LEMMA SetToSeqType ==
    ASSUME NEW S, IsFiniteSet(S)
    PROVE  SetToSeq(S) \in [1..Cardinality(S) -> S] /\ Cardinality(S) \in Nat
<1>1. Cardinality(S) \in Nat /\ ExistsBijection(1..Cardinality(S), S)
    BY FS_CardinalityType
<1>2. \E g \in [1..Cardinality(S) -> S] : IsInjective(g)
    BY <1>1 DEF ExistsBijection, Bijection, Injection
<1> QED BY <1>1, <1>2 DEF SetToSeq

(* A script that is paid has a first position. *)
LEMMA PositionType ==
    ASSUME NEW outs \in Seq(Outputs), NEW k \in DOMAIN outs
    PROVE  /\ Position(outs, outs[k].script) \in DOMAIN outs
           /\ outs[Position(outs, outs[k].script)].script = outs[k].script
<1> DEFINE s == {i \in DOMAIN outs : outs[i].script = outs[k].script}
<1>1. s \in SUBSET Nat /\ s # {} /\ \A i \in s : i \in DOMAIN outs /\ outs[i].script = outs[k].script
    OBVIOUS
<1>2. Position(outs, outs[k].script) = Min(s)
    BY Zenon DEF Position
<1>3. Min(s) \in s
    <2> HIDE DEF s
    <2> QED BY <1>1, MinOf
<1> HIDE DEF s
<1> QED BY <1>1, <1>2, <1>3

(* The outputs of the proposal are those of the Original PSBT that are not
   replaced and replacements. *)
Replaced(shuffled, orig, own, outs) ==
    /\ shuffled \in Seq(Outputs)
    /\ \A i \in DOMAIN orig \ own : \E k \in DOMAIN shuffled : shuffled[k] = orig[i]
    /\ \A k \in DOMAIN shuffled :
          \/ \E i \in DOMAIN orig \ own : shuffled[k] = orig[i]
          \/ \E j \in DOMAIN outs : shuffled[k] = outs[j]

(* One sequence after another, element by element. *)
Joined(c, a, b, S) ==
    /\ c \in Seq(S) /\ Len(c) = Len(a) + Len(b) /\ DOMAIN c = 1..(Len(a) + Len(b))
    /\ \A k \in DOMAIN a : k \in DOMAIN c /\ c[k] = a[k]
    /\ \A k \in DOMAIN b : Len(a) + k \in DOMAIN c /\ c[Len(a) + k] = b[k]
    /\ \A k \in DOMAIN c : k \in DOMAIN a \/ \E j \in DOMAIN b : k = Len(a) + j

(* What concatenation does. *)
LEMMA Concatenated ==
    ASSUME NEW S, NEW a \in Seq(S), NEW b \in Seq(S)
    PROVE  Joined(a \o b, a, b, S)
<1>1. Len(a) \in Nat /\ Len(b) \in Nat /\ DOMAIN a = 1..Len(a) /\ DOMAIN b = 1..Len(b)
    OBVIOUS
<1>2. a \o b \in Seq(S) /\ Len(a \o b) = Len(a) + Len(b) /\ DOMAIN (a \o b) = 1..(Len(a) + Len(b))
    BY <1>1
<1>3. \A k \in DOMAIN a : k \in DOMAIN (a \o b) /\ (a \o b)[k] = a[k]
    BY <1>1, <1>2
<1>4. \A k \in DOMAIN b : Len(a) + k \in DOMAIN (a \o b) /\ (a \o b)[Len(a) + k] = b[k]
    BY <1>1, <1>2
<1>5. ASSUME NEW k \in DOMAIN (a \o b), k \notin DOMAIN a
      PROVE  k - Len(a) \in DOMAIN b /\ k = Len(a) + (k - Len(a))
    BY <1>1, <1>2, <1>5
<1>6. \A k \in DOMAIN (a \o b) : k \in DOMAIN a \/ \E j \in DOMAIN b : k = Len(a) + j
    BY <1>5
<1> QED BY <1>2, <1>3, <1>4, <1>6, Zenon DEF Joined

(* A sequence whose k-th element went to place p[k]. *)
Permuted(all, p) == [k \in DOMAIN all |-> all[IndexIn(p, k)]]

(* The same, element by element. *)
Reordered(q, all, p, S) ==
    /\ q \in Seq(S) /\ DOMAIN q = DOMAIN all
    /\ \A k \in DOMAIN all : p[k] \in DOMAIN all /\ q[p[k]] = all[k]
    /\ \A k \in DOMAIN all : IndexIn(p, k) \in DOMAIN all /\ q[k] = all[IndexIn(p, k)]

(* What a shuffle does. *)
LEMMA PermutedElements ==
    ASSUME NEW S, NEW all \in Seq(S), NEW p \in Bijection(1..Len(all), 1..Len(all))
    PROVE  Reordered(Permuted(all, p), all, p, S)
<1> DEFINE N == Len(all)
<1>1. N \in Nat /\ DOMAIN all = 1..N
    OBVIOUS
<1> HIDE DEF N
<1>2. /\ p \in [1..N -> 1..N] /\ IsInjective(p)
      /\ \A k \in 1..N : \E j \in 1..N : p[j] = k
    BY DEF Bijection, Injection, Surjection, N
<1>3. ASSUME NEW k \in 1..N PROVE IndexIn(p, k) \in 1..N /\ p[IndexIn(p, k)] = k
    <2>1. DOMAIN p = 1..N /\ \E j \in DOMAIN p : p[j] = k
        BY <1>2
    <2> QED BY <2>1 DEF IndexIn
<1>4. ASSUME NEW k \in 1..N PROVE p[k] \in 1..N /\ IndexIn(p, p[k]) = k
    <2>1. p[k] \in 1..N /\ DOMAIN p = 1..N
        BY <1>2
    <2>2. IndexIn(p, p[k]) \in 1..N /\ p[IndexIn(p, p[k])] = p[k]
        BY <1>3, <2>1
    <2> QED BY <1>2, <2>1, <2>2 DEF IsInjective
<1> DEFINE q == Permuted(all, p)
<1>5. ASSUME NEW k \in 1..N PROVE q[k] = all[IndexIn(p, k)] /\ q[k] \in S
    <2>1. q[k] = all[IndexIn(p, k)]
        BY <1>1 DEF Permuted
    <2> QED BY <1>1, <1>3, <2>1
<1>6. q \in [1..N -> S]
    BY <1>1, <1>5 DEF Permuted
<1> HIDE DEF q
<1>7. q \in Seq(S) /\ DOMAIN q = 1..N
    BY <1>1, <1>6, SeqFrom
<1>8. Reordered(q, all, p, S)
    BY <1>1, <1>3, <1>4, <1>5, <1>7 DEF Reordered
<1> QED BY <1>8 DEF q

(* The Original PSBT's outputs with the owned ones replaced, and the other
   replacements (replace_receiver_outputs). *)
KeptOutputs(orig, outs, own, f) ==
    [i \in DOMAIN orig |-> IF i \in own THEN outs[f[i]] ELSE orig[i]]

Extra(outs, own, f) == SetToSeq(DOMAIN outs \ {f[i] : i \in own})

ExtraOutputs(outs, own, f) == [k \in DOMAIN Extra(outs, own, f) |-> outs[Extra(outs, own, f)[k]]]

(* The outputs replaced and added are outputs. *)
LEMMA KeptAndExtra ==
    ASSUME NEW orig \in Seq(Outputs), NEW outs \in Seq(Outputs), NEW own \in SUBSET DOMAIN orig,
           NEW f \in Injection(own, DOMAIN outs)
    PROVE  /\ KeptOutputs(orig, outs, own, f) \in Seq(Outputs)
           /\ DOMAIN KeptOutputs(orig, outs, own, f) = DOMAIN orig
           /\ ExtraOutputs(outs, own, f) \in Seq(Outputs)
           /\ Len(ExtraOutputs(outs, own, f)) = Len(Extra(outs, own, f))
           /\ \A k \in DOMAIN ExtraOutputs(outs, own, f) :
                /\ Extra(outs, own, f)[k] \in DOMAIN outs
                /\ ExtraOutputs(outs, own, f)[k] = outs[Extra(outs, own, f)[k]]
<1> DEFINE D == DOMAIN outs \ {f[i] : i \in own}
           x == Extra(outs, own, f)
           new == ExtraOutputs(outs, own, f)
           n == Len(orig)
           m == Cardinality(D)
<1>1. n \in Nat /\ DOMAIN orig = 1..n /\ (\A i \in DOMAIN orig : orig[i] \in Outputs)
      /\ (\A i \in DOMAIN outs : outs[i] \in Outputs) /\ (\A i \in own : f[i] \in DOMAIN outs)
    BY DEF Injection
<1>2. IsFiniteSet(D)
    BY FiniteDomain, FS_Subset
<1>3. x \in [1..m -> D] /\ m \in Nat
    <2> HIDE DEF D
    <2> QED BY <1>2, SetToSeqType DEF D, Extra
<1>4. KeptOutputs(orig, outs, own, f) \in [1..n -> Outputs]
    BY <1>1 DEF KeptOutputs
<1>5. KeptOutputs(orig, outs, own, f) \in Seq(Outputs) /\ DOMAIN KeptOutputs(orig, outs, own, f) = 1..n
    BY <1>1, <1>4, SeqFrom
<1>6. (\A k \in 1..m : x[k] \in DOMAIN outs) /\ DOMAIN x = 1..m
    <2>1. D \subseteq DOMAIN outs
        OBVIOUS
    <2> HIDE DEF m, D, x
    <2> QED BY <1>3, <2>1
<1> HIDE DEF m, D, x, n
<1>7. \A k \in 1..m : new[k] = outs[x[k]]
    BY <1>6 DEF ExtraOutputs, x
<1>8. new \in [1..m -> Outputs]
    <2>1. DOMAIN new = 1..m /\ new = [k \in 1..m |-> outs[x[k]]]
        BY <1>6 DEF ExtraOutputs, x
    <2> HIDE DEF new
    <2> QED BY <1>1, <1>6, <2>1
<1> HIDE DEF new
<1>9. new \in Seq(Outputs) /\ Len(new) = m /\ DOMAIN new = 1..m /\ Len(x) = m
    <2>1. Len(x) = m
        BY <1>3, SeqFrom
    <2> QED BY <1>3, <1>8, <2>1, SeqFrom
<1> QED BY <1>1, <1>5, <1>6, <1>7, <1>9 DEF new, x

(* Every element of one sequence is in the other. *)
AllIn(all, q) == \A k \in DOMAIN all : \E j \in DOMAIN q : q[j] = all[k]

(* Where the kept and the new outputs come from. *)
FromOutputs(kept, new, orig, own, outs) ==
    /\ DOMAIN kept = DOMAIN orig
    /\ \A i \in DOMAIN orig : IF i \in own THEN \E j \in DOMAIN outs : kept[i] = outs[j]
                              ELSE kept[i] = orig[i]
    /\ \A k \in DOMAIN new : \E j \in DOMAIN outs : new[k] = outs[j]

(* Joined and shuffled, they are the outputs of the proposal. *)
LEMMA ReplacedElements ==
    ASSUME NEW orig, NEW outs, NEW own, NEW kept, NEW new, NEW all, NEW q, NEW p,
           FromOutputs(kept, new, orig, own, outs),
           Joined(all, kept, new, Outputs),
           Reordered(q, all, p, Outputs)
    PROVE  /\ Replaced(q, orig, own, outs)
           /\ AllIn(all, q)
<1>1. \A k \in DOMAIN all : \E j \in DOMAIN q : q[j] = all[k]
    BY DEF Reordered
<1>2. ASSUME NEW i \in DOMAIN orig \ own PROVE \E k \in DOMAIN q : q[k] = orig[i]
    <2>1. i \in DOMAIN all /\ all[i] = orig[i]
        BY DEF Joined, FromOutputs
    <2> QED BY <1>1, <2>1
<1>3. ASSUME NEW k \in DOMAIN q
      PROVE  \/ \E i \in DOMAIN orig \ own : q[k] = orig[i]
             \/ \E j \in DOMAIN outs : q[k] = outs[j]
    <2>1. PICK e \in DOMAIN all : q[k] = all[e]
        BY DEF Reordered
    <2>2. CASE e \in DOMAIN kept
        <3>1. e \in DOMAIN orig /\ q[k] = kept[e]
            BY <2>1, <2>2 DEF Joined, FromOutputs
        <3> QED BY <3>1 DEF FromOutputs
    <2>3. CASE e \notin DOMAIN kept
        <3>1. PICK j \in DOMAIN new : e = Len(kept) + j
            BY <2>3 DEF Joined
        <3>2. q[k] = new[j]
            BY <2>1, <3>1 DEF Joined
        <3> QED BY <3>2 DEF FromOutputs
    <2> QED BY <2>2, <2>3
<1> QED BY <1>1, <1>2, <1>3 DEF Replaced, Reordered, AllIn

(* The replaced outputs, where they come from and where they went. *)
Rebuilt(q, orig, own, outs) ==
    \E kept, new, all, p :
        /\ FromOutputs(kept, new, orig, own, outs)
        /\ Joined(all, kept, new, Outputs)
        /\ Reordered(q, all, p, Outputs)
        /\ p \in Bijection(1..Len(all), 1..Len(all))

(* What replace_receiver_outputs makes of the outputs. *)
LEMMA ReplacedOutputs ==
    ASSUME NEW orig \in Seq(Outputs), NEW outs \in Seq(Outputs), NEW own \in SUBSET DOMAIN orig,
           NEW f \in Injection(own, DOMAIN outs), NEW all,
           all = KeptOutputs(orig, outs, own, f) \o ExtraOutputs(outs, own, f),
           NEW p \in Shuffles(Len(KeptOutputs(orig, outs, own, f)), Len(Extra(outs, own, f)))
    PROVE  /\ Replaced(Permuted(all, p), orig, own, outs)
           /\ Rebuilt(Permuted(all, p), orig, own, outs)
           /\ AllIn(all, Permuted(all, p))
           /\ all \in Seq(Outputs)
<1> DEFINE kept == KeptOutputs(orig, outs, own, f)
           new == ExtraOutputs(outs, own, f)
           x == Extra(outs, own, f)
<1>1. /\ kept \in Seq(Outputs) /\ DOMAIN kept = DOMAIN orig
      /\ new \in Seq(Outputs) /\ Len(new) = Len(x)
      /\ \A k \in DOMAIN new : x[k] \in DOMAIN outs /\ new[k] = outs[x[k]]
    BY KeptAndExtra
<1>2. \A i \in DOMAIN orig : kept[i] = IF i \in own THEN outs[f[i]] ELSE orig[i]
    BY DEF KeptOutputs
<1>3. \A i \in own : f[i] \in DOMAIN outs
    BY DEF Injection
<1>4. p \in Bijection(1..(Len(kept) + Len(x)), 1..(Len(kept) + Len(x)))
    BY DEF Shuffles
<1>5. Joined(all, kept, new, Outputs)
    <2>1. all = kept \o new
        OBVIOUS
    <2> HIDE DEF kept, new, x
    <2> QED BY <1>1, <2>1, Concatenated, Zenon
<1> HIDE DEF kept, new, x
<1>6. all \in Seq(Outputs) /\ Len(all) = Len(kept) + Len(x)
    BY <1>1, <1>5, Zenon DEF Joined
<1>7. Reordered(Permuted(all, p), all, p, Outputs)
    BY <1>4, <1>6, PermutedElements, Zenon
<1>8. FromOutputs(kept, new, orig, own, outs)
    BY <1>1, <1>2, <1>3 DEF FromOutputs
<1>9. /\ Replaced(Permuted(all, p), orig, own, outs)
      /\ AllIn(all, Permuted(all, p))
    BY <1>5, <1>7, <1>8, ReplacedElements, Zenon
<1>10. Rebuilt(Permuted(all, p), orig, own, outs)
    <2>1. p \in Bijection(1..Len(all), 1..Len(all))
        BY <1>4, <1>6, Zenon
    <2> QED BY <1>5, <1>7, <1>8, <2>1, Zenon DEF Rebuilt
<1> QED BY <1>6, <1>9, <1>10, Zenon

-----------------------------------------------------------------------------
(* The inductive invariant *)

(* The stages in which the receiver still changes the proposal. *)
Building == {"WantsOutputs", "WantsInputs", "WantsFeeRange"}

(* The parameters the receiver parses. *)
ParamsType == [output_substitution : BOOLEAN, fee_contribution : Fees, min_fee_rate : Nat]

(* The sender's context is one its builder returned. *)
ContextInv == stage # "Start" => GoodContext(context)

(* The receiver holds the sender's terms; the fee output is not its own. *)
ParamsInv ==
    stage \in Building =>
        /\ params \in ParamsType
        /\ params.fee_contribution.vout # 0 =>
              params.fee_contribution = context.fee_contribution
              /\ params.fee_contribution.vout \notin Owned

(* A proposal is a PSBT with amounts that are not negative. *)
ProposalInv == stage \notin {"Start", "Original", "Accepted", "Refused"} => proposal \in PSBTs

(* The change output is an output of the proposal. *)
DrainInv == stage \in Building => change_vout \in DOMAIN proposal.outputs

(* The receiver's inputs are coins, and finitely many. *)
InputsInv == receiver_inputs \subseteq DOMAIN Coin /\ IsFiniteSet(receiver_inputs)

(* An accepted proposal passed the checks and was restored. *)
VerdictInv ==
    stage = "Accepted" =>
        \E p \in PSBTs : Acceptable(context, p) /\ proposal = Restored(context, p)

(* Types, and what every component relies on. *)
TypeInv == ContextInv /\ ParamsInv /\ ProposalInv /\ DrainInv /\ InputsInv /\ VerdictInv

(* What the receiver knows of the Original PSBT. *)
LEMMA OriginalType ==
    ASSUME GoodContext(context)
    PROVE  /\ context \in Contexts /\ context.original_psbt \in PSBTs
           /\ Original \in PSBTs
           /\ SameOutputs(Original.outputs, SentOutputs)
           /\ SameInputs(Original.inputs, SentInputs)
           /\ Owned \in SUBSET DOMAIN Original.outputs /\ Owned \in SUBSET Nat
           /\ Original.inputs # <<>> /\ SentInputs # <<>>
<1>1. context.original_psbt \in PSBTs /\ SentInputs # <<>> /\ context \in Contexts
    BY ProposalAssumption DEF GoodContext, SentInputs
<1>2. /\ Original \in PSBTs
      /\ SameOutputs(Original.outputs, SentOutputs)
      /\ SameInputs(Original.inputs, SentInputs)
    BY <1>1, ClearedType DEF Original, SentOutputs, SentInputs
<1>3. Owned \in SUBSET DOMAIN Original.outputs
    BY DEF Owned
<1>4. DOMAIN Original.outputs \subseteq Nat
    <2>1. Original.outputs \in Seq(Outputs)
        BY <1>2, PsbtType
    <2> QED BY <2>1
<1>5. Original.inputs # <<>>
    <2>1. SentInputs \in Seq(Inputs)
        BY <1>1, PsbtType DEF SentInputs
    <2>2. Len(SentInputs) # 0
        BY <1>1, <2>1
    <2>3. Len(Original.inputs) # 0
        BY <1>2, <2>2 DEF SameInputs
    <2> QED BY <2>3
<1> QED BY <1>1, <1>2, <1>3, <1>4, <1>5

(* The invariant holds at the start. *)
LEMMA InitType == Init => TypeInv
BY FS_EmptySet DEF Init, TypeInv, ContextInv, ParamsInv, ProposalInv, DrainInv, InputsInv, VerdictInv, Building

(* The sender builds its context. *)
LEMMA BuildContextType ==
    ASSUME TypeInv, NEW psbt \in Originals, BuildContext(psbt)
    PROVE  TypeInv'
<1>1. PICK enabled \in BOOLEAN, rate \in Rates, value \in {{}, {psbt.outputs[1].value}} :
          \E c \in Contributions(psbt, rate) :
          \E built \in build(psbt, value, enabled, c, rate) : context' = built
    BY DEF BuildContext
<1>2. GoodContext(context')
    BY <1>1, BuiltContext
<1>3. stage' = "Original" /\ receiver_inputs' = receiver_inputs
    BY DEF BuildContext
<1> QED BY <1>2, <1>3 DEF TypeInv, ContextInv, ParamsInv, ProposalInv, DrainInv, InputsInv, VerdictInv, Building

(* identify_receiver_outputs keeps the invariant. *)
LEMMA IdentifyType ==
    ASSUME TypeInv, identify_receiver_outputs
    PROVE  TypeInv'
<1>0. GoodContext(context) /\ context' = context /\ stage' = "WantsOutputs"
      /\ receiver_inputs' = receiver_inputs /\ proposal' = Original /\ change_vout' = Min(Owned)
      /\ Owned # {}
    BY DEF identify_receiver_outputs, TypeInv, ContextInv
<1>1. Original \in PSBTs /\ Owned \in SUBSET DOMAIN Original.outputs /\ Owned \in SUBSET Nat
      /\ context \in Contexts
    BY <1>0, OriginalType
<1>2. Min(Owned) \in DOMAIN Original.outputs
    BY <1>0, <1>1, MinOf
<1>3. /\ context.output_substitution \in BOOLEAN /\ context.fee_contribution \in Fees
      /\ context.min_fee_rate \in Nat
    BY <1>1 DEF Contexts, Fees
<1>4. PICK parsed \in from_query_pairs(serialize_url) :
          params' = [parsed EXCEPT !.fee_contribution = Sanitized(parsed.fee_contribution)]
    BY DEF identify_receiver_outputs
<1>5. PICK rate \in Nat :
          parsed = [output_substitution |-> context.output_substitution,
                    fee_contribution |-> context.fee_contribution, min_fee_rate |-> rate]
    <2>1. PICK rate : /\ rate \in (IF serialize_url.min_fee_rate = {} THEN {BroadcastMin}
                                   ELSE {r + gain : r \in serialize_url.min_fee_rate, gain \in 0..1})
                      /\ parsed = [serialize_url EXCEPT !.min_fee_rate = rate]
        BY <1>4 DEF from_query_pairs
    <2>2. serialize_url.min_fee_rate \subseteq Nat
        BY <1>3 DEF serialize_url
    <2>3. rate \in Nat
        BY <2>1, <2>2, ProposalAssumption
    <2>4. parsed = [output_substitution |-> context.output_substitution,
                    fee_contribution |-> context.fee_contribution, min_fee_rate |-> rate]
        BY <2>1 DEF serialize_url
    <2> QED BY <2>3, <2>4
<1>6. params' = [output_substitution |-> context.output_substitution,
                 fee_contribution |-> Sanitized(context.fee_contribution), min_fee_rate |-> rate]
    BY <1>4, <1>5
<1>7. /\ Sanitized(context.fee_contribution) \in Fees
      /\ Sanitized(context.fee_contribution).vout # 0 =>
            /\ Sanitized(context.fee_contribution) = context.fee_contribution
            /\ context.fee_contribution.vout \notin Owned
    BY <1>3 DEF Sanitized, NoContribution, Fees
<1>8. Owned' = Owned
    BY <1>0 DEF Owned, Original
<1>9. ParamsInv'
    BY <1>0, <1>3, <1>6, <1>7, <1>8 DEF ParamsInv, ParamsType
<1> QED BY <1>0, <1>1, <1>2, <1>9
        DEF TypeInv, ContextInv, ProposalInv, DrainInv, InputsInv, VerdictInv, Building

(* What replace_receiver_outputs and substitute_receiver_script do. *)
LEMMA ReplaceStep ==
    ASSUME GoodContext(context), NEW outs \in Seq(Outputs), NEW drain,
           replace_receiver_outputs(outs, drain)
    PROVE  /\ Replaced(proposal'.outputs, Original.outputs, Owned, outs)
           /\ Rebuilt(proposal'.outputs, Original.outputs, Owned, outs)
           /\ proposal'.outputs[change_vout'].script = drain
           /\ proposal' \in PSBTs /\ change_vout' \in DOMAIN proposal'.outputs
           /\ stage = "WantsOutputs" /\ UNCHANGED <<context, params, stage, receiver_inputs, contributions, fee_range, committed>>
           /\ proposal'.inputs = Original.inputs
<1> DEFINE orig == Original.outputs
<1>1. orig \in Seq(Outputs) /\ Owned \in SUBSET DOMAIN orig /\ Original \in PSBTs
    BY OriginalType, PsbtType
<1>2. PICK f \in Assignments(outs) :
        LET kept  == [i \in DOMAIN Original.outputs |->
                        IF i \in Owned THEN outs[f[i]] ELSE Original.outputs[i]]
            extra == SetToSeq(DOMAIN outs \ {f[i] : i \in Owned})
            all   == kept \o [k \in DOMAIN extra |-> outs[extra[k]]]
        IN  /\ Substitutable(outs, f)
            /\ \E k \in DOMAIN all : all[k].script = drain
            /\ \E p \in Shuffles(Len(kept), Len(extra)) :
                LET shuffled == [k \in DOMAIN all |-> all[IndexIn(p, k)]]
                IN  /\ proposal' = [Original EXCEPT !.outputs = shuffled]
                    /\ change_vout' = Position(shuffled, drain)
    BY Zenon DEF replace_receiver_outputs
<1> DEFINE kept == KeptOutputs(orig, outs, Owned, f)
           x == Extra(outs, Owned, f)
           new == ExtraOutputs(outs, Owned, f)
           all == kept \o new
<1>3. /\ \E k \in DOMAIN all : all[k].script = drain
      /\ \E p \in Shuffles(Len(kept), Len(x)) :
            /\ proposal' = [Original EXCEPT !.outputs = Permuted(all, p)]
            /\ change_vout' = Position(Permuted(all, p), drain)
    BY <1>2, Zenon DEF KeptOutputs, Extra, ExtraOutputs, Permuted
<1>4. f \in Injection(Owned, DOMAIN outs)
    BY <1>2 DEF Assignments
<1> HIDE DEF all
<1>5. PICK p \in Shuffles(Len(kept), Len(x)) :
            /\ proposal' = [Original EXCEPT !.outputs = Permuted(all, p)]
            /\ change_vout' = Position(Permuted(all, p), drain)
    BY <1>3
<1> DEFINE q == Permuted(all, p)
<1>6. Replaced(q, orig, Owned, outs) /\ Rebuilt(q, orig, Owned, outs) /\ AllIn(all, q) /\ all \in Seq(Outputs)
    <2>1. all = kept \o new
        BY DEF all
    <2> HIDE DEF orig
    <2> QED BY <1>1, <1>4, <1>5, <2>1, ReplacedOutputs, Zenon
<1> HIDE DEF q
<1>7. q \in Seq(Outputs)
    BY <1>6 DEF Replaced
<1>8. Position(q, drain) \in DOMAIN q /\ q[Position(q, drain)].script = drain
    <2>1. PICK k \in DOMAIN all : all[k].script = drain
        BY <1>3
    <2>2. PICK j \in DOMAIN q : q[j] = all[k]
        BY <1>6, <2>1 DEF AllIn
    <2>3. q[j].script = drain
        BY <2>1, <2>2
    <2>4. Position(q, q[j].script) \in DOMAIN q /\ q[Position(q, q[j].script)].script = q[j].script
        BY <1>7, <2>2, PositionType
    <2> QED BY <2>3, <2>4
<1>9. proposal' = [inputs |-> Original.inputs, outputs |-> q, header |-> Original.header]
    <2>1. Original = [inputs |-> Original.inputs, outputs |-> Original.outputs, header |-> Original.header]
        BY <1>1, PsbtType
    <2>2. proposal' = [Original EXCEPT !.outputs = q]
        BY <1>5 DEF q
    <2> QED BY <2>1, <2>2
<1>10. proposal' \in PSBTs /\ proposal'.outputs = q /\ proposal'.inputs = Original.inputs
    <2>1. proposal' \in PSBTs
        BY <1>1, <1>7, <1>9, PsbtType
    <2> QED BY <1>9, <2>1
<1>11. change_vout' = Position(q, drain)
    BY <1>5 DEF q
<1>12. /\ stage = "WantsOutputs"
       /\ UNCHANGED <<context, params, stage, receiver_inputs, contributions, fee_range, committed>>
    BY Zenon DEF replace_receiver_outputs
<1> QED BY <1>6, <1>8, <1>10, <1>11, <1>12

(* replace_receiver_outputs keeps the invariant. *)
LEMMA ReplaceType ==
    ASSUME TypeInv, NEW outs \in Seq(Outputs), NEW drain, replace_receiver_outputs(outs, drain)
    PROVE  TypeInv'
<1>1. GoodContext(context)
    BY Zenon DEF replace_receiver_outputs, TypeInv, ContextInv
<1>2. /\ proposal' \in PSBTs /\ change_vout' \in DOMAIN proposal'.outputs
      /\ stage = "WantsOutputs" /\ UNCHANGED <<context, params, stage, receiver_inputs>>
    BY <1>1, ReplaceStep
<1>3. Owned' = Owned
    BY <1>2 DEF Owned, Original
<1> QED BY <1>1, <1>2, <1>3
        DEF TypeInv, ContextInv, ParamsInv, ProposalInv, DrainInv, InputsInv, VerdictInv, Building

-----------------------------------------------------------------------------
(* contribute_inputs *)

(* An insertion makes a sequence one longer. *)
LEMMA InsertAtType ==
    ASSUME NEW S, NEW s \in Seq(S), NEW i \in 1..(Len(s) + 1), NEW e \in S
    PROVE  InsertAt(s, i, e) \in Seq(S) /\ Len(InsertAt(s, i, e)) = Len(s) + 1
<1>1. SubSeq(s, 1, i - 1) \in Seq(S) /\ Len(SubSeq(s, 1, i - 1)) = i - 1
    OBVIOUS
<1>2. SubSeq(s, i, Len(s)) \in Seq(S) /\ Len(SubSeq(s, i, Len(s))) = Len(s) - i + 1
    OBVIOUS
<1> DEFINE a == SubSeq(s, 1, i - 1)
           b == SubSeq(s, i, Len(s))
<1> HIDE DEF a, b
<1>3. <<e>> \in Seq(S) /\ Len(<<e>>) = 1
    OBVIOUS
<1>4. a \o <<e>> \in Seq(S) /\ Len(a \o <<e>>) = i
    <2>1. Joined(a \o <<e>>, a, <<e>>, S)
        BY <1>1, <1>3, Concatenated DEF a
    <2>2. a \o <<e>> \in Seq(S) /\ Len(a \o <<e>>) = Len(a) + 1 /\ Len(a) = i - 1
        BY <1>1, <1>3, <2>1 DEF Joined, a
    <2> QED BY <2>2
<1>5. (a \o <<e>>) \o b \in Seq(S) /\ Len((a \o <<e>>) \o b) = Len(a \o <<e>>) + Len(b)
    BY <1>2, <1>4, Concatenated DEF Joined, b
<1>6. InsertAt(s, i, e) = (a \o <<e>>) \o b
    BY DEF InsertAt, a, b
<1>7. Len(b) = Len(s) - i + 1 /\ Len(s) \in Nat
    BY <1>2 DEF b
<1>8. i + (Len(s) - i + 1) = Len(s) + 1
    BY <1>7
<1>9. Len((a \o <<e>>) \o b) = Len(s) + 1
    BY <1>4, <1>5, <1>7, <1>8
<1> HIDE DEF a, b
<1> QED BY <1>5, <1>6, <1>9, Zenon

(* What the recursion behind Inserted satisfies. *)
InsertStep(g, base, index, new) ==
    g = [s \in SUBSET DOMAIN [k \in DOMAIN new |-> k] |->
            IF s = {} THEN base
            ELSE InsertAt(g[s \ {Max(s)}], index[[k \in DOMAIN new |-> k][Max(s)]],
                          new[[k \in DOMAIN new |-> k][Max(s)]])]

(* The contributed inputs go in at valid places. *)
LEMMA InsertedType ==
    ASSUME NEW new \in Seq(Inputs), proposal \in PSBTs,
           NEW index \in [DOMAIN new -> 1..(Len(proposal.inputs) + 1)]
    PROVE  Inserted(new, index) \in Seq(Inputs)
<1> DEFINE base == proposal.inputs
           n == Len(new)
           U == {s \in Seq(Inputs) : Len(s) >= Len(base)}
           G == [q \in U \X (1..n) |-> InsertAt(q[1], index[q[2]], new[q[2]])]
<1>1. /\ base \in Seq(Inputs) /\ base \in U /\ n \in Nat /\ DOMAIN new = 1..n
      /\ \A k \in 1..n : new[k] \in Inputs /\ index[k] \in 1..(Len(base) + 1)
    BY PsbtType
<1>2. ASSUME NEW s \in U, NEW k \in 1..n PROVE InsertAt(s, index[k], new[k]) \in U
    <2>1. s \in Seq(Inputs) /\ index[k] \in 1..(Len(s) + 1) /\ new[k] \in Inputs
        BY <1>1
    <2>2. InsertAt(s, index[k], new[k]) \in Seq(Inputs)
            /\ Len(InsertAt(s, index[k], new[k])) = Len(s) + 1
        BY <2>1, InsertAtType
    <2> QED BY <1>1, <2>1, <2>2
<1>3. G \in [U \X (1..n) -> U]
    <2> HIDE DEF U
    <2> QED BY <1>2
<1>4. PICK f : Recursion(f, 1..n, U, base, G, MaxFirst(n))
    <2> HIDE DEF G, n, U
    <2> QED BY <1>1, <1>3, FoldExists
<1>5. f \in [SUBSET (1..n) -> U] /\ f[{}] = base
    <2> HIDE DEF G, n, U
    <2> QED BY <1>4 DEF Recursion
<1>6. /\ DOMAIN [k \in DOMAIN new |-> k] = 1..n
      /\ \A s \in SUBSET (1..n) : s # {} => Max(s) \in 1..n /\ [k \in DOMAIN new |-> k][Max(s)] = Max(s)
    <2>1. \A s \in SUBSET (1..n) : s # {} => Max(s) \in 1..n
        <3> HIDE DEF n
        <3> QED BY <1>1, MaxOf
    <2> QED BY <1>1, <2>1
<1>7. ASSUME NEW s \in SUBSET (1..n), s # {}
      PROVE  f[s] = InsertAt(f[s \ {Max(s)}], index[Max(s)], new[Max(s)])
    <2>1. MaxFirst(n)[s] = Max(s) /\ Max(s) \in 1..n
        BY <1>6, <1>7 DEF MaxFirst
    <2>2. f[s] = G[<<f[s \ {Max(s)}], Max(s)>>]
        <3> HIDE DEF G, n, U
        <3> QED BY <1>4, <1>7, <2>1 DEF Recursion
    <2>3. <<f[s \ {Max(s)}], Max(s)>> \in U \X (1..n)
        <3> HIDE DEF n, U
        <3> QED BY <1>5, <2>1
    <2> QED BY <2>2, <2>3
<1>8. InsertStep(f, base, index, new)
    <2> HIDE DEF n, U
    <2> QED BY <1>5, <1>6, <1>7 DEF InsertStep
<1> DEFINE g == CHOOSE g : InsertStep(g, base, index, new)
<1>9. InsertStep(g, base, index, new)
    <2> HIDE DEF base
    <2> QED BY <1>8
<1>10. Inserted(new, index) = g[DOMAIN [k \in DOMAIN new |-> k]]
    BY Zenon DEF Inserted, FoldLeft, MapThenFoldSet, InsertStep
<1> HIDE DEF g
<1>11. g[{}] = base
    BY <1>9 DEF InsertStep
<1>12. ASSUME NEW s \in SUBSET (1..n), s # {}
       PROVE  g[s] = InsertAt(g[s \ {Max(s)}], index[Max(s)], new[Max(s)])
    <2> HIDE DEF n, base
    <2> QED BY <1>6, <1>9, <1>12 DEF InsertStep
<1> DEFINE T == {k \in 0..n : g[1..k] \in U}
<1>13. 0 \in T
    <2>1. 1..0 = {}
        OBVIOUS
    <2> QED BY <1>1, <1>11, <2>1
<1>14. ASSUME NEW k \in 0..(n - 1), k \in T PROVE k + 1 \in T
    <2> HIDE DEF U, n
    <2>0. k + 1 \in 1..n /\ k + 1 \in Nat \ {0} /\ 1..(k + 1) \in SUBSET (1..n) /\ k + 1 \in 0..n
          /\ k + 1 \in 1..(k + 1) /\ (k + 1) - 1 = k
        BY <1>1
    <2>1. g[1..(k + 1)] = InsertAt(g[(1..(k + 1)) \ {Max(1..(k + 1))}], index[Max(1..(k + 1))], new[Max(1..(k + 1))])
        BY <1>12, <2>0
    <2>2. Max(1..(k + 1)) = k + 1 /\ (1..(k + 1)) \ {k + 1} = 1..k
        BY <2>0, MaxOfPrefix
    <2>3. g[1..(k + 1)] = InsertAt(g[1..k], index[k + 1], new[k + 1])
        BY <2>1, <2>2
    <2> QED BY <1>2, <1>14, <2>0, <2>3
<1>15. n \in T
    <2>1. n \in 0..n
        BY <1>1
    <2> HIDE DEF T, n
    <2> QED BY <1>1, <1>13, <1>14, <2>1, UpTo
<1>16. g[1..n] \in U
    BY <1>15
<1> QED BY <1>6, <1>10, <1>16

(* A list of coins. *)
LEMMA CoinListType ==
    ASSUME NEW coins \in CoinLists
    PROVE  /\ coins \in Seq(ReceiverCoins) /\ IsFiniteSet(DOMAIN coins) /\ IsInjective(coins)
           /\ ToSet(coins) \subseteq ReceiverCoins /\ IsFiniteSet(ToSet(coins))
           /\ \A i \in DOMAIN coins : coins[i] \in ReceiverCoins /\ coins[i] \in DOMAIN Coin
<1>1. PICK n \in Nat : coins \in [1..n -> ReceiverCoins]
    <2>1. coins \in [1..1 -> ReceiverCoins] \/ coins \in [1..2 -> ReceiverCoins]
        BY DEF CoinLists, TupleOf
    <2> QED BY <2>1
<1>2. coins \in Seq(ReceiverCoins) /\ DOMAIN coins = 1..n
    BY <1>1, SeqFrom
<1>3. IsFiniteSet(DOMAIN coins)
    BY <1>2, FiniteDomain
<1>4. IsFiniteSet(ToSet(coins))
    <2>1. \A i \in DOMAIN coins : coins[i] \in ToSet(coins)
        BY DEF ToSet
    <2>2. coins \in Surjection(DOMAIN coins, ToSet(coins))
        BY <1>1 DEF Surjection, ToSet
    <2> QED BY <1>3, <2>2, FS_Surjection
<1>5. IsInjective(coins)
    BY DEF CoinLists
<1> QED BY <1>1, <1>2, <1>3, <1>4, <1>5, ProposalAssumption DEF ToSet

(* What the amount of a list of coins adds up. *)
CoinValues(coins) == [i \in DOMAIN coins |-> Coin[coins[i]].value]

(* The amount of a list of coins. *)
LEMMA CoinAmount ==
    ASSUME NEW coins \in CoinLists
    PROVE  /\ SumOf(LAMBDA c : Coin[c].value, coins) = SumFunctionOnSet(CoinValues(coins), DOMAIN coins)
           /\ SumOf(LAMBDA c : Coin[c].value, coins) \in Nat
<1>1. DOMAIN CoinValues(coins) = DOMAIN coins
    BY DEF CoinValues
<1>2. SumOf(LAMBDA c : Coin[c].value, coins) = SumFunctionOnSet(CoinValues(coins), DOMAIN CoinValues(coins))
    BY Zenon DEF SumOf, SumFunction, CoinValues
<1>3. SumOf(LAMBDA c : Coin[c].value, coins) = SumFunctionOnSet(CoinValues(coins), DOMAIN coins)
    BY <1>1, <1>2, Zenon
<1>4. \A i \in DOMAIN coins : CoinValues(coins)[i] \in Nat
    BY CoinListType, PsbtsAssumption DEF CoinValues
<1>5. SumFunctionOnSet(CoinValues(coins), DOMAIN coins) \in Nat
    BY <1>4, CoinListType, SumNat
<1> QED BY <1>3, <1>5, Zenon

(* receiver_min_input_amount is a natural. *)
LEMMA MinInputType ==
    ASSUME GoodContext(context), proposal \in PSBTs
    PROVE  /\ receiver_min_input_amount \in Nat
           /\ receiver_min_input_amount >= OutputAmount(proposal.outputs) - OutputAmount(Original.outputs)
<1>1. proposal.outputs \in Seq(Outputs) /\ Original.outputs \in Seq(Outputs)
    BY OriginalType, PsbtType
<1>2. OutputAmount(proposal.outputs) \in Nat /\ OutputAmount(Original.outputs) \in Nat
    BY <1>1, OutputAmountType
<1> DEFINE d == OutputAmount(proposal.outputs) - OutputAmount(Original.outputs)
<1>3. d \in Int
    BY <1>2
<1> HIDE DEF d
<1>4. Max({0, d}) = IF 0 >= d THEN 0 ELSE d
    BY <1>3, MaxOfPair
<1>5. Max({0, d}) \in Nat /\ Max({0, d}) >= d
    BY <1>3, <1>4
<1> QED BY <1>5 DEF receiver_min_input_amount, d

(* The proposal with more inputs and a larger change output. *)
LEMMA ContributeStep ==
    ASSUME GoodContext(context), proposal \in PSBTs, change_vout \in DOMAIN proposal.outputs,
           NEW coins \in CoinLists, NEW sequence, contribute_inputs(coins, sequence)
    PROVE  \E change \in Nat :
              /\ proposal'.outputs = [proposal.outputs EXCEPT ![change_vout].value = @ + change]
              /\ proposal' \in PSBTs
              /\ change = SumOf(LAMBDA c : Coin[c].value, coins) - receiver_min_input_amount
<1> DEFINE amount == SumOf(LAMBDA c : Coin[c].value, coins)
           new == [k \in DOMAIN coins |-> ContributedInput(coins[k], sequence)]
<1>1. PICK index \in [DOMAIN coins -> 1..(Len(proposal.inputs) + 1)], change \in ChangeAmount(amount) :
            proposal' = [proposal EXCEPT
                !.inputs = Inserted(new, index),
                !.outputs[change_vout].value = @ + change]
    BY Zenon DEF contribute_inputs
<1>2. amount \in Nat /\ receiver_min_input_amount \in Nat
    BY CoinAmount, MinInputType
<1> HIDE DEF amount
<1>3. change \in Nat /\ change = amount - receiver_min_input_amount
    BY <1>1, <1>2 DEF ChangeAmount
<1>4. coins \in Seq(ReceiverCoins) /\ \A i \in DOMAIN coins : coins[i] \in DOMAIN Coin
    BY CoinListType
<1>5. Original.inputs[1].sequence \in Signals
    <2>1. Original.inputs \in Seq(Inputs) /\ Original.inputs # <<>>
        BY OriginalType, PsbtType
    <2>2. Original.inputs[1] \in Inputs
        BY <2>1
    <2> QED BY <2>2 DEF Inputs
<1>6. \A k \in DOMAIN coins : ContributedInput(coins[k], sequence) \in Inputs
    BY <1>4, <1>5 DEF ContributedInput, Inputs
<1>7. new \in [1..Len(coins) -> Inputs] /\ Len(coins) \in Nat /\ DOMAIN coins = 1..Len(coins)
    BY <1>4, <1>6
<1> HIDE DEF new
<1>8. new \in Seq(Inputs) /\ DOMAIN new = DOMAIN coins
    BY <1>7, SeqFrom
<1>9. Inserted(new, index) \in Seq(Inputs)
    BY <1>1, <1>8, InsertedType
<1> DEFINE outs == [proposal.outputs EXCEPT ![change_vout].value = @ + change]
<1>10. proposal' = [inputs |-> Inserted(new, index), outputs |-> outs, header |-> proposal.header]
    <2>1. proposal = [inputs |-> proposal.inputs, outputs |-> proposal.outputs, header |-> proposal.header]
        BY PsbtType
    <2>2. proposal' = [proposal EXCEPT !.inputs = Inserted(new, index), !.outputs = outs]
        BY <1>1, <2>1
    <2> HIDE DEF outs
    <2> QED BY <2>1, <2>2
<1>11. outs \in Seq(Outputs)
    <2>1. proposal.outputs \in Seq(Outputs) /\ proposal.outputs[change_vout] \in Outputs
        BY PsbtType
    <2> DEFINE o == proposal.outputs[change_vout]
               v == o.value + change
    <2>2. v \in Nat
        BY <1>3, <2>1, OutputType
    <2>3. outs = [proposal.outputs EXCEPT ![change_vout] = [o EXCEPT !.value = v]]
        OBVIOUS
    <2>4. [o EXCEPT !.value = v] \in Outputs
        <3> HIDE DEF o, v
        <3> QED BY <2>1, <2>2, OutputValue DEF o
    <2> HIDE DEF o, v, outs
    <2> QED BY <2>1, <2>3, <2>4
<1> HIDE DEF outs
<1>12. proposal' \in PSBTs
    BY <1>9, <1>10, <1>11, PsbtType
<1>13. proposal'.outputs = outs
    BY <1>10
<1> QED BY <1>3, <1>12, <1>13 DEF outs, amount

(* contribute_inputs keeps the invariant. *)
LEMMA ContributeType ==
    ASSUME TypeInv, NEW coins \in CoinLists, NEW sequence, contribute_inputs(coins, sequence)
    PROVE  TypeInv'
<1>1. /\ stage = "WantsInputs" /\ UNCHANGED <<context, params, stage, change_vout>>
      /\ receiver_inputs' = receiver_inputs \union ToSet(coins)
    BY Zenon DEF contribute_inputs
<1>2. GoodContext(context) /\ proposal \in PSBTs /\ change_vout \in DOMAIN proposal.outputs
    BY <1>1 DEF TypeInv, ContextInv, ProposalInv, DrainInv, Building
<1>3. PICK change \in Nat :
        /\ proposal'.outputs = [proposal.outputs EXCEPT ![change_vout].value = @ + change]
        /\ proposal' \in PSBTs
    BY <1>2, ContributeStep
<1>4. DOMAIN proposal'.outputs = DOMAIN proposal.outputs
    BY <1>3
<1>5. Owned' = Owned
    BY <1>1 DEF Owned, Original
<1>6. InputsInv'
    <2>1. IsFiniteSet(receiver_inputs \union ToSet(coins))
        BY CoinListType, FS_Union DEF TypeInv, InputsInv
    <2>2. ToSet(coins) \subseteq DOMAIN Coin
        BY CoinListType, ProposalAssumption
    <2> QED BY <1>1, <2>1, <2>2 DEF TypeInv, InputsInv
<1> QED BY <1>1, <1>2, <1>3, <1>4, <1>5, <1>6
        DEF TypeInv, ContextInv, ParamsInv, ProposalInv, DrainInv, VerdictInv, Building

-----------------------------------------------------------------------------
(* substitute_receiver_script, commit_outputs, commit_inputs *)

(* The output substitute_receiver_script asks for. *)
SubstitutedOutput(script) == [Original.outputs[change_vout] EXCEPT !.script = script]

(* substitute_receiver_script replaces one output, or is out of bounds. *)
LEMMA SubstituteStep ==
    ASSUME GoodContext(context), NEW script \in OwnScripts, substitute_receiver_script(script)
    PROVE  \/ /\ <<SubstitutedOutput(script)>> \in Seq(Outputs)
              /\ SubstitutedOutput(script).script = script
              /\ replace_receiver_outputs(<<SubstitutedOutput(script)>>, script)
           \/ /\ stage = "WantsOutputs" /\ stage' = "OutOfBounds"
              /\ UNCHANGED <<context, params, proposal, change_vout, receiver_inputs>>
<1>1. CASE /\ change_vout \in DOMAIN Original.outputs
           /\ replace_receiver_outputs(<<SubstitutedOutput(script)>>, script)
    <2>1. Original.outputs \in Seq(Outputs)
        BY OriginalType, PsbtType
    <2>2. Original.outputs[change_vout] \in Outputs /\ script \in DOMAIN OutputWeight
        BY <1>1, <2>1, ProposalAssumption
    <2>3. SubstitutedOutput(script) \in Outputs /\ SubstitutedOutput(script).script = script
        BY <2>2 DEF SubstitutedOutput, Outputs
    <2> QED BY <1>1, <2>3
<1>2. CASE /\ stage = "WantsOutputs" /\ stage' = "OutOfBounds"
           /\ UNCHANGED <<context, params, proposal, change_vout, receiver_inputs>>
    BY <1>2, Zenon
<1> QED BY <1>1, <1>2, Zenon DEF substitute_receiver_script, SubstitutedOutput

(* substitute_receiver_script keeps the invariant. *)
LEMMA SubstituteType ==
    ASSUME TypeInv, NEW script \in OwnScripts, substitute_receiver_script(script)
    PROVE  TypeInv'
<1>1. GoodContext(context)
    <2>1. stage = "WantsOutputs"
        BY Zenon DEF substitute_receiver_script
    <2> QED BY <2>1 DEF TypeInv, ContextInv
<1>2. CASE /\ <<SubstitutedOutput(script)>> \in Seq(Outputs)
           /\ replace_receiver_outputs(<<SubstitutedOutput(script)>>, script)
    BY <1>2, ReplaceType
<1>3. CASE /\ stage = "WantsOutputs" /\ stage' = "OutOfBounds"
           /\ UNCHANGED <<context, params, proposal, change_vout, receiver_inputs>>
    BY <1>3 DEF TypeInv, ContextInv, ParamsInv, ProposalInv, DrainInv, InputsInv, VerdictInv, Building
<1> QED BY <1>1, <1>2, <1>3, SubstituteStep

(* commit_outputs keeps the invariant. *)
LEMMA CommitOutputsType ==
    ASSUME TypeInv, commit_outputs
    PROVE  TypeInv'
<1>1. /\ stage = "WantsOutputs" /\ stage' = "WantsInputs"
      /\ UNCHANGED <<context, params, proposal, change_vout, receiver_inputs>>
    BY DEF commit_outputs
<1>2. Owned' = Owned
    BY <1>1 DEF Owned, Original
<1> QED BY <1>1, <1>2
        DEF TypeInv, ContextInv, ParamsInv, ProposalInv, DrainInv, InputsInv, VerdictInv, Building

(* commit_inputs keeps the invariant. *)
LEMMA CommitInputsType ==
    ASSUME TypeInv, commit_inputs
    PROVE  TypeInv'
<1>1. /\ stage = "WantsInputs" /\ stage' = "WantsFeeRange"
      /\ UNCHANGED <<context, params, proposal, change_vout, receiver_inputs>>
    BY DEF commit_inputs
<1>2. Owned' = Owned
    BY <1>1 DEF Owned, Original
<1> QED BY <1>1, <1>2
        DEF TypeInv, ContextInv, ParamsInv, ProposalInv, DrainInv, InputsInv, VerdictInv, Building

-----------------------------------------------------------------------------
(* apply_fee_range *)

(* The weight of the receiver's inputs is a natural. *)
LEMMA AddedInputWeight ==
    ASSUME InputsInv
    PROVE  additional_input_weight \in Nat
<1> DEFINE w == [c \in receiver_inputs |-> expected_input_weight(c)]
<1>1. \A c \in receiver_inputs : w[c] \in Nat
    BY PsbtsAssumption DEF InputsInv, expected_input_weight
<1>2. DOMAIN w = receiver_inputs /\ IsFiniteSet(receiver_inputs)
    BY DEF InputsInv
<1>3. additional_input_weight = SumFunctionOnSet(w, DOMAIN w)
    BY Zenon DEF additional_input_weight, SumFunction
<1> HIDE DEF w
<1>4. SumFunctionOnSet(w, receiver_inputs) \in Nat
    BY <1>1, <1>2, SumNat
<1> QED BY <1>2, <1>3, <1>4, Zenon

(* The weight of the outputs added wraps to a natural. *)
LEMMA AddedOutputWeight ==
    ASSUME GoodContext(context), proposal \in PSBTs
    PROVE  additional_output_weight \in Nat
<1>1. proposal.outputs \in Seq(Outputs) /\ Original.outputs \in Seq(Outputs)
    BY OriginalType, PsbtType
<1>2. OutputsWeight(proposal.outputs) \in Nat /\ OutputsWeight(Original.outputs) \in Nat
    BY <1>1, OutputAmountType
<1> DEFINE d == OutputsWeight(proposal.outputs) - OutputsWeight(Original.outputs)
<1>3. d \in Int /\ Word \in Nat \ {0}
    BY <1>2, PsbtsAssumption
<1>4. d % Word \in Nat
    <2> HIDE DEF d
    <2> QED BY <1>3
<1> QED BY <1>4 DEF additional_output_weight

(* The sender pays at most the fee and at most its offer. *)
LEMMA SenderFeeType ==
    ASSUME params \in ParamsType, NEW fee \in Nat
    PROVE  /\ SenderAdditionalFee(fee) \in Nat /\ SenderAdditionalFee(fee) <= fee
           /\ SenderAdditionalFee(fee) > 0 =>
                /\ params.fee_contribution.vout # 0
                /\ SenderAdditionalFee(fee) <= params.fee_contribution.max_amount
<1>1. params.fee_contribution.max_amount \in Nat
    BY DEF ParamsType, Fees
<1> DEFINE m == Min({params.fee_contribution.max_amount, fee})
<1>2. m \in Nat /\ m <= fee /\ m <= params.fee_contribution.max_amount
    BY <1>1, MinOfPair
<1>3. SenderAdditionalFee(fee) = IF fee >= 1 /\ params.fee_contribution.vout # 0 THEN m ELSE 0
    BY Zenon DEF SenderAdditionalFee
<1> HIDE DEF m
<1> QED BY <1>2, <1>3

(* What the sender and the receiver pay, and what becomes of the outputs. *)
Rate(min_rate) == Max({min_rate, params.min_fee_rate})
FeeFor(min_rate) == FeeAt(additional_input_weight, Rate(min_rate))
SenderFee(min_rate) == SenderAdditionalFee(FeeFor(min_rate))
ReceiverFee(min_rate) ==
    FeeFor(min_rate) - SenderFee(min_rate) + FeeAt(additional_output_weight, Rate(min_rate))
Paid(min_rate) ==
    IF SenderFee(min_rate) = 0 THEN proposal.outputs
    ELSE [proposal.outputs EXCEPT ![SenderFeeVout].value = @ - SenderFee(min_rate)]
Final(min_rate) == [Paid(min_rate) EXCEPT ![change_vout].value = @ - ReceiverFee(min_rate)]

(* The three ways apply_fee_range fails, and its success. *)
ApplyFails(min_rate) ==
    /\ \/ stage' = "SenderUnderflow" /\ SenderFee(min_rate) > 0
              /\ Paid(min_rate)[SenderFeeVout].value < 0
       \/ stage' \in {"FeeTooHigh", "DrainUnderflow"}
    /\ proposal' = proposal

ApplySucceeds(min_rate, max_rate) ==
    /\ stage' = "ProvisionalProposal"
    /\ \A i \in DOMAIN Final(min_rate) : Final(min_rate)[i].value >= 0
    /\ ReceiverFee(min_rate) <= MaxFee(max_rate)
    /\ proposal' = [proposal EXCEPT !.outputs = Final(min_rate)]
    /\ fee_range' = [min |-> Rate(min_rate), max |-> max_rate]

(* What apply_fee_range does. *)
LEMMA ApplyStep ==
    ASSUME NEW min_rate, NEW max_rate, apply_fee_range(min_rate, max_rate)
    PROVE  /\ stage = "WantsFeeRange"
           /\ ApplyFails(min_rate) \/ ApplySucceeds(min_rate, max_rate)
           /\ UNCHANGED <<context, params, change_vout, receiver_inputs, contributions, committed>>
BY Zenon DEF apply_fee_range, ApplyFails, ApplySucceeds, Rate, FeeFor, SenderFee, ReceiverFee, Paid, Final

(* Both sides pay fees that are not negative. *)
LEMMA FeesPaid ==
    ASSUME TypeInv, stage = "WantsFeeRange", NEW min_rate \in Nat
    PROVE  /\ Rate(min_rate) \in Nat /\ FeeFor(min_rate) \in Nat /\ SenderFee(min_rate) \in Nat
           /\ ReceiverFee(min_rate) \in Nat
           /\ SenderFee(min_rate) <= FeeFor(min_rate)
           /\ SenderFee(min_rate) > 0 =>
                /\ params.fee_contribution.vout # 0
                /\ SenderFee(min_rate) <= params.fee_contribution.max_amount
<1>1. /\ params \in ParamsType /\ InputsInv /\ GoodContext(context) /\ proposal \in PSBTs
    BY DEF TypeInv, ParamsInv, InputsInv, ContextInv, ProposalInv, Building
<1>2. additional_input_weight \in Nat /\ additional_output_weight \in Nat
    BY <1>1, AddedInputWeight, AddedOutputWeight
<1>3. Rate(min_rate) \in Nat
    <2>1. params.min_fee_rate \in Nat
        BY <1>1 DEF ParamsType
    <2> QED BY <2>1, MaxOfPair DEF Rate
<1>8. additional_input_weight \in Int /\ additional_output_weight \in Int /\ Rate(min_rate) \in Int
    BY <1>2, <1>3
<1>4. FeeFor(min_rate) \in Nat
    BY <1>8, FeeAtType, Zenon DEF FeeFor
<1>5. FeeAt(additional_output_weight, Rate(min_rate)) \in Nat
    BY <1>8, FeeAtType, Zenon
<1>6. /\ SenderFee(min_rate) \in Nat /\ SenderFee(min_rate) <= FeeFor(min_rate)
      /\ SenderFee(min_rate) > 0 =>
                /\ params.fee_contribution.vout # 0
                /\ SenderFee(min_rate) <= params.fee_contribution.max_amount
    BY <1>1, <1>4, SenderFeeType DEF SenderFee
<1>7. ReceiverFee(min_rate) \in Nat
    BY <1>4, <1>5, <1>6 DEF ReceiverFee
<1> QED BY <1>3, <1>4, <1>6, <1>7

(* Taking some amount from one output. *)
Lowered(outs, k, amount) == [outs EXCEPT ![k].value = @ - amount]

(* Outputs before it is known that none is negative. *)
IntOutputs == [script : DOMAIN OutputWeight, value : Int, keypaths : BOOLEAN]

(* What is left of the outputs. *)
LEMMA LessType ==
    ASSUME NEW n \in Nat, NEW outs \in [1..n -> IntOutputs], NEW k, NEW amount \in Int
    PROVE  /\ Lowered(outs, k, amount) \in [1..n -> IntOutputs]
           /\ \A i \in 1..n : /\ Lowered(outs, k, amount)[i].script = outs[i].script
                              /\ Lowered(outs, k, amount)[i].value =
                                    IF i = k THEN outs[i].value - amount ELSE outs[i].value
<1>1. ASSUME NEW i \in 1..n
      PROVE  /\ Lowered(outs, k, amount)[i] \in IntOutputs
             /\ Lowered(outs, k, amount)[i].script = outs[i].script
             /\ Lowered(outs, k, amount)[i].value = IF i = k THEN outs[i].value - amount ELSE outs[i].value
    <2>1. outs[i] \in IntOutputs
        OBVIOUS
    <2>2. outs[i].value \in Int /\ outs[i].value - amount \in Int
        BY <2>1 DEF IntOutputs
    <2>3. Lowered(outs, k, amount)[i] =
            IF i = k THEN [outs[i] EXCEPT !.value = outs[i].value - amount] ELSE outs[i]
        BY DEF Lowered
    <2> QED BY <2>1, <2>2, <2>3 DEF IntOutputs
<1>2. DOMAIN Lowered(outs, k, amount) = 1..n
    BY DEF Lowered
<1>3. Lowered(outs, k, amount) = [i \in 1..n |-> Lowered(outs, k, amount)[i]]
    BY DEF Lowered
<1> QED BY <1>1, <1>2, <1>3

(* The outputs after both sides have paid, output by output. *)
LEMMA FinalType ==
    ASSUME TypeInv, stage = "WantsFeeRange", NEW min_rate \in Nat
    PROVE  /\ DOMAIN Final(min_rate) = DOMAIN proposal.outputs
           /\ DOMAIN Paid(min_rate) = DOMAIN proposal.outputs
           /\ (\A i \in DOMAIN Final(min_rate) : Final(min_rate)[i].value >= 0) =>
                Final(min_rate) \in Seq(Outputs)
           /\ \A i \in DOMAIN proposal.outputs :
                /\ Final(min_rate)[i].script = proposal.outputs[i].script
                /\ Paid(min_rate)[i].value =
                      proposal.outputs[i].value -
                        (IF SenderFee(min_rate) # 0 /\ i = SenderFeeVout THEN SenderFee(min_rate) ELSE 0)
                /\ Final(min_rate)[i].value =
                      Paid(min_rate)[i].value - (IF i = change_vout THEN ReceiverFee(min_rate) ELSE 0)
<1> DEFINE outs == proposal.outputs
           n == Len(outs)
           paid == Paid(min_rate)
           final == Final(min_rate)
<1>1. outs \in Seq(Outputs)
    <2>1. proposal \in PSBTs
        BY DEF TypeInv, ProposalInv
    <2> QED BY <2>1, PsbtType
<1>2. n \in Nat /\ DOMAIN outs = 1..n /\ outs \in [1..n -> Outputs]
    BY <1>1
<1>3. outs \in [1..n -> IntOutputs] /\ \A i \in 1..n : outs[i].value \in Int
    <2>1. \A i \in 1..n : outs[i] \in IntOutputs /\ outs[i].value \in Int
        <3>1. \A o \in Outputs : o \in IntOutputs /\ o.value \in Int
            BY DEF Outputs, IntOutputs
        <3> HIDE DEF outs, n
        <3> QED BY <1>2, <3>1
    <2> HIDE DEF outs, n
    <2> QED BY <1>2, <2>1
<1>4. SenderFee(min_rate) \in Int /\ ReceiverFee(min_rate) \in Int
    <2>1. SenderFee(min_rate) \in Nat /\ ReceiverFee(min_rate) \in Nat
        BY FeesPaid
    <2> QED BY <2>1
<1>5. /\ paid \in [1..n -> IntOutputs]
      /\ \A i \in 1..n : /\ paid[i].script = outs[i].script
                         /\ paid[i].value = outs[i].value -
                              (IF SenderFee(min_rate) # 0 /\ i = SenderFeeVout THEN SenderFee(min_rate) ELSE 0)
    <2>1. CASE SenderFee(min_rate) = 0
        <3>1. paid = outs
            BY <2>1, Zenon DEF Paid
        <3> HIDE DEF outs, n, paid
        <3> QED BY <1>3, <2>1, <3>1
    <2>2. CASE SenderFee(min_rate) # 0
        <3>1. paid = Lowered(outs, SenderFeeVout, SenderFee(min_rate))
            BY <2>2, Zenon DEF Paid, Lowered
        <3> HIDE DEF outs, n, paid
        <3> DEFINE q == Lowered(outs, SenderFeeVout, SenderFee(min_rate))
        <3>2. /\ q \in [1..n -> IntOutputs]
              /\ \A i \in 1..n : /\ q[i].script = outs[i].script
                                 /\ q[i].value = IF i = SenderFeeVout THEN outs[i].value - SenderFee(min_rate)
                                                 ELSE outs[i].value
            BY <1>2, <1>3, <1>4, LessType
        <3> HIDE DEF q
        <3> QED BY <1>3, <2>2, <3>1, <3>2 DEF q
    <2> QED BY <2>1, <2>2
<1>6. /\ final \in [1..n -> IntOutputs]
      /\ \A i \in 1..n : /\ final[i].script = paid[i].script
                         /\ final[i].value = paid[i].value - (IF i = change_vout THEN ReceiverFee(min_rate) ELSE 0)
    <2>1. final = Lowered(paid, change_vout, ReceiverFee(min_rate))
        BY Zenon DEF Final, Lowered
    <2> HIDE DEF outs, n, paid, final
    <2> DEFINE q == Lowered(paid, change_vout, ReceiverFee(min_rate))
    <2>2. /\ q \in [1..n -> IntOutputs]
          /\ \A i \in 1..n : /\ q[i].script = paid[i].script
                             /\ q[i].value = IF i = change_vout THEN paid[i].value - ReceiverFee(min_rate)
                                             ELSE paid[i].value
        BY <1>2, <1>4, <1>5, LessType
    <2>3. \A i \in 1..n : paid[i].value \in Int
        <3>1. \A o \in IntOutputs : o.value \in Int
            BY DEF IntOutputs
        <3> QED BY <1>5, <3>1
    <2> HIDE DEF q
    <2> QED BY <2>1, <2>2, <2>3 DEF q
<1> HIDE DEF outs, n, paid, final
<1>7. DOMAIN final = 1..n /\ DOMAIN paid = 1..n
    BY <1>5, <1>6
<1>8. ASSUME \A i \in DOMAIN final : final[i].value >= 0 PROVE final \in Seq(Outputs)
    <2>1. \A o \in IntOutputs : o.value >= 0 => o \in Outputs
        BY DEF IntOutputs, Outputs
    <2>2. \A i \in 1..n : final[i] \in IntOutputs /\ final[i].value >= 0
        BY <1>6, <1>7, <1>8
    <2>3. final \in [1..n -> Outputs]
        BY <1>6, <2>1, <2>2
    <2> QED BY <1>2, <2>3, SeqFrom
<1> QED BY <1>2, <1>5, <1>6, <1>7, <1>8 DEF outs, paid, final

(* apply_fee_range keeps the invariant. *)
LEMMA ApplyType ==
    ASSUME TypeInv, NEW min_rate \in Nat, NEW max_rate, apply_fee_range(min_rate, max_rate)
    PROVE  TypeInv'
<1>1. /\ stage = "WantsFeeRange"
      /\ ApplyFails(min_rate) \/ ApplySucceeds(min_rate, max_rate)
      /\ UNCHANGED <<context, params, change_vout, receiver_inputs>>
    BY ApplyStep, Zenon
<1>2. proposal \in PSBTs
    BY <1>1 DEF TypeInv, ProposalInv
<1>3. proposal' \in PSBTs
    <2>1. CASE ApplyFails(min_rate)
        BY <1>2, <2>1 DEF ApplyFails
    <2>2. CASE ApplySucceeds(min_rate, max_rate)
        <3>1. Final(min_rate) \in Seq(Outputs)
            BY <1>1, <2>2, FinalType DEF ApplySucceeds
        <3>2. proposal' = [inputs |-> proposal.inputs, outputs |-> Final(min_rate), header |-> proposal.header]
            BY <1>2, <2>2, PsbtType DEF ApplySucceeds
        <3>3. proposal.inputs \in Seq(Inputs)
            BY <1>2, PsbtType
        <3> QED BY <1>2, <3>1, <3>2, <3>3, PsbtType
    <2> QED BY <1>1, <2>1, <2>2
<1>4. stage' \in {"SenderUnderflow", "FeeTooHigh", "DrainUnderflow", "ProvisionalProposal"}
    BY <1>1 DEF ApplyFails, ApplySucceeds
<1> QED BY <1>1, <1>3, <1>4
        DEF TypeInv, ContextInv, ParamsInv, ProposalInv, DrainInv, InputsInv, VerdictInv, Building

-----------------------------------------------------------------------------
(* finalize_proposal and process_proposal *)

(* The fields of an input. *)
AllFields == {"utxo", "final", "partial_sigs", "bip32_derivation", "sighash_single"}

(* Changing fields changes neither outpoints nor sequence numbers. *)
LEMMA FieldsType ==
    ASSUME NEW p \in PSBTs, NEW ins, DOMAIN ins = DOMAIN p.inputs,
           \A i \in DOMAIN p.inputs :
                \E F \in SUBSET AllFields : ins[i] = [p.inputs[i] EXCEPT !.fields = F],
           ins = [i \in DOMAIN p.inputs |-> ins[i]]
    PROVE  SameInputs(ins, p.inputs)
<1>1. p.inputs \in Seq(Inputs) /\ Len(p.inputs) \in Nat /\ DOMAIN p.inputs = 1..Len(p.inputs)
    BY PsbtType
<1>2. ASSUME NEW i \in DOMAIN p.inputs
      PROVE  ins[i] \in Inputs /\ ins[i].outpoint = p.inputs[i].outpoint
             /\ ins[i].sequence = p.inputs[i].sequence
    <2>1. PICK F \in SUBSET AllFields : ins[i] = [p.inputs[i] EXCEPT !.fields = F]
        OBVIOUS
    <2>2. p.inputs[i] \in Inputs
        BY <1>1
    <2> DEFINE x == p.inputs[i]
    <2>3. /\ [x EXCEPT !.fields = F] \in Inputs /\ [x EXCEPT !.fields = F].outpoint = x.outpoint
          /\ [x EXCEPT !.fields = F].sequence = x.sequence
        <3> HIDE DEF x
        <3> QED BY <2>2, InputFields, Zenon DEF AllFields, x
    <2> QED BY <2>1, <2>3, Zenon
<1>3. ins \in [1..Len(p.inputs) -> Inputs]
    BY <1>1, <1>2
<1>4. ins \in Seq(Inputs) /\ Len(ins) = Len(p.inputs)
    BY <1>1, <1>3, SeqFrom
<1> QED BY <1>2, <1>4 DEF SameInputs

(* A PSBT with other inputs. *)
LEMMA InputsChanged ==
    ASSUME NEW p \in PSBTs, NEW ins, SameInputs(ins, p.inputs)
    PROVE  [p EXCEPT !.inputs = ins] \in PSBTs /\ [p EXCEPT !.inputs = ins].inputs = ins
           /\ [p EXCEPT !.inputs = ins].outputs = p.outputs
<1>1. p.outputs \in Seq(Outputs) /\ ins \in Seq(Inputs)
      /\ p = [inputs |-> p.inputs, outputs |-> p.outputs, header |-> p.header]
    BY PsbtType DEF SameInputs
<1>2. [p EXCEPT !.inputs = ins] = [inputs |-> ins, outputs |-> p.outputs, header |-> p.header]
    BY <1>1
<1> QED BY <1>1, <1>2, PsbtType

(* An input and its fields. *)
LEMMA SameField ==
    ASSUME NEW i \in Inputs
    PROVE  i.fields \in SUBSET AllFields /\ i = [i EXCEPT !.fields = i.fields]
BY DEF Inputs, AllFields

(* psbt_to_sign leaves the outputs alone. *)
LEMMA ToSignType ==
    ASSUME proposal \in PSBTs
    PROVE  psbt_to_sign \in PSBTs /\ psbt_to_sign.outputs = proposal.outputs
<1> DEFINE own == ToSet(OwnInputs(Original, proposal))
           cleared(input) == [input EXCEPT !.fields = @ \ {"final", "partial_sigs"}]
           ins == [i \in DOMAIN proposal.inputs |->
                      IF i \in own THEN cleared(proposal.inputs[i]) ELSE proposal.inputs[i]]
<1>1. psbt_to_sign = [proposal EXCEPT !.inputs = ins]
    BY Zenon DEF psbt_to_sign
<1>2. ASSUME NEW i \in DOMAIN proposal.inputs
      PROVE  \E F \in SUBSET AllFields : ins[i] = [proposal.inputs[i] EXCEPT !.fields = F]
    <2>1. proposal.inputs[i] \in Inputs
        BY PsbtType
    <2> DEFINE x == proposal.inputs[i]
    <2>2. x.fields \in SUBSET AllFields /\ x = [x EXCEPT !.fields = x.fields]
        BY <2>1, SameField
    <2>3. ins[i] = [x EXCEPT !.fields = IF i \in own THEN x.fields \ {"final", "partial_sigs"} ELSE x.fields]
        <3> HIDE DEF own
        <3> QED BY <2>2
    <2>4. (IF i \in own THEN x.fields \ {"final", "partial_sigs"} ELSE x.fields) \in SUBSET AllFields
        <3> HIDE DEF own
        <3> QED BY <2>2
    <2> HIDE DEF ins, own, x
    <2> QED BY <2>3, <2>4 DEF x
<1>3. SameInputs(ins, proposal.inputs)
    <2>1. DOMAIN ins = DOMAIN proposal.inputs /\ ins = [i \in DOMAIN proposal.inputs |-> ins[i]]
        <3> HIDE DEF own
        <3> QED OBVIOUS
    <2> HIDE DEF ins, own
    <2> QED BY <1>2, <2>1, FieldsType
<1> HIDE DEF ins
<1> QED BY <1>1, <1>3, InputsChanged

(* So does the wallet that signs. *)
LEMMA SignedType ==
    ASSUME NEW p \in PSBTs
    PROVE  Signed(p) \in PSBTs /\ Signed(p).outputs = p.outputs
<1> DEFINE signed(input) == [input EXCEPT !.fields = @ \union {"final", "partial_sigs"}]
           ins == [i \in DOMAIN p.inputs |->
                      IF p.inputs[i].outpoint \in receiver_inputs THEN signed(p.inputs[i]) ELSE p.inputs[i]]
<1>1. Signed(p) = [p EXCEPT !.inputs = ins]
    BY Zenon DEF Signed
<1>2. ASSUME NEW i \in DOMAIN p.inputs
      PROVE  \E F \in SUBSET AllFields : ins[i] = [p.inputs[i] EXCEPT !.fields = F]
    <2>1. p.inputs[i] \in Inputs
        BY PsbtType
    <2> DEFINE x == p.inputs[i]
               F == IF x.outpoint \in receiver_inputs THEN x.fields \union {"final", "partial_sigs"} ELSE x.fields
    <2>2. x.fields \in SUBSET AllFields /\ x = [x EXCEPT !.fields = x.fields]
        BY <2>1, SameField
    <2>3. ins[i] = [x EXCEPT !.fields = F]
        BY <2>2
    <2>4. F \in SUBSET AllFields
        BY <2>2 DEF AllFields
    <2> HIDE DEF ins, F
    <2> QED BY <2>3, <2>4 DEF x
<1>3. SameInputs(ins, p.inputs)
    <2>1. DOMAIN ins = DOMAIN p.inputs /\ ins = [i \in DOMAIN p.inputs |-> ins[i]]
        OBVIOUS
    <2> HIDE DEF ins
    <2> QED BY <1>2, <2>1, FieldsType
<1> HIDE DEF ins
<1> QED BY <1>1, <1>3, InputsChanged

(* prepare_psbt keeps scripts and amounts. *)
LEMMA PreparedType ==
    ASSUME NEW p \in PSBTs
    PROVE  prepare_psbt(p) \in PSBTs /\ SameOutputs(prepare_psbt(p).outputs, p.outputs)
<1> DEFINE cleared(input) == [input EXCEPT !.fields = @ \intersect {"utxo", "final"}]
           plain(output) == [output EXCEPT !.keypaths = FALSE]
           ins == [i \in DOMAIN p.inputs |-> cleared(p.inputs[i])]
           outs == [i \in DOMAIN p.outputs |-> plain(p.outputs[i])]
<1>0. /\ p.inputs \in Seq(Inputs) /\ p.outputs \in Seq(Outputs)
      /\ p = [inputs |-> p.inputs, outputs |-> p.outputs, header |-> p.header]
    BY PsbtType
<1>1. prepare_psbt(p) = [inputs |-> ins, outputs |-> outs, header |-> p.header]
    <2>1. prepare_psbt(p) = [p EXCEPT !.inputs = ins, !.outputs = outs]
        BY Zenon DEF prepare_psbt
    <2> HIDE DEF ins, outs
    <2> QED BY <1>0, <2>1
<1>2. ASSUME NEW i \in DOMAIN p.inputs
      PROVE  \E F \in SUBSET AllFields : ins[i] = [p.inputs[i] EXCEPT !.fields = F]
    <2>1. p.inputs[i] \in Inputs
        BY <1>0
    <2>2. p.inputs[i].fields \intersect {"utxo", "final"} \in SUBSET AllFields
        BY DEF AllFields
    <2> QED BY <2>2
<1>3. SameInputs(ins, p.inputs)
    <2>1. DOMAIN ins = DOMAIN p.inputs /\ ins = [i \in DOMAIN p.inputs |-> ins[i]]
        OBVIOUS
    <2> HIDE DEF ins
    <2> QED BY <1>2, <2>1, FieldsType
<1>4. ASSUME NEW i \in DOMAIN p.outputs
      PROVE  outs[i] \in Outputs /\ outs[i].script = p.outputs[i].script
             /\ outs[i].value = p.outputs[i].value
    <2>1. p.outputs[i] \in Outputs
        BY <1>0
    <2> QED BY <2>1, OutputKeypaths
<1>5. Len(p.outputs) \in Nat /\ DOMAIN p.outputs = 1..Len(p.outputs) /\ DOMAIN outs = DOMAIN p.outputs
    BY <1>0
<1>6. outs \in [1..Len(p.outputs) -> Outputs]
    BY <1>4, <1>5
<1> HIDE DEF ins, outs
<1>7. outs \in Seq(Outputs) /\ Len(outs) = Len(p.outputs)
    BY <1>5, <1>6, SeqFrom
<1>8. SameOutputs(outs, p.outputs)
    BY <1>4, <1>5, <1>7 DEF SameOutputs
<1>9. prepare_psbt(p) \in PSBTs
    <2>1. ins \in Seq(Inputs)
        BY <1>3 DEF SameInputs
    <2> QED BY <1>1, <1>7, <2>1, PsbtType
<1> QED BY <1>1, <1>8, <1>9

(* finalize_proposal keeps scripts and amounts. *)
LEMMA FinalizeStep ==
    ASSUME proposal \in PSBTs, finalize_proposal
    PROVE  proposal' \in PSBTs /\ SameOutputs(proposal'.outputs, proposal.outputs)
<1>1. psbt_to_sign \in PSBTs /\ psbt_to_sign.outputs = proposal.outputs
    BY ToSignType
<1> DEFINE s == Signed(psbt_to_sign)
<1>2. s \in PSBTs /\ s.outputs = proposal.outputs
    BY <1>1, SignedType
<1>3. proposal' = prepare_psbt(s)
    BY Zenon DEF finalize_proposal
<1> HIDE DEF s
<1>4. prepare_psbt(s) \in PSBTs /\ SameOutputs(prepare_psbt(s).outputs, s.outputs)
    BY <1>2, PreparedType
<1> QED BY <1>2, <1>3, <1>4

(* finalize_proposal keeps the invariant. *)
LEMMA FinalizeType ==
    ASSUME TypeInv, finalize_proposal
    PROVE  TypeInv'
<1>1. /\ stage = "ProvisionalProposal" /\ stage' = "PayjoinProposal"
      /\ UNCHANGED <<context, params, change_vout, receiver_inputs>>
    BY Zenon DEF finalize_proposal
<1>2. proposal \in PSBTs
    BY <1>1 DEF TypeInv, ProposalInv
<1>3. proposal' \in PSBTs
    BY <1>2, FinalizeStep
<1> QED BY <1>1, <1>3
        DEF TypeInv, ContextInv, ParamsInv, ProposalInv, DrainInv, InputsInv, VerdictInv, Building

(* Another receiver answers with a PSBT. *)
LEMMA AnswerType ==
    ASSUME TypeInv, NEW psbt \in OtherProposals, Answer(psbt)
    PROVE  TypeInv'
<1>1. /\ stage = "Original" /\ stage' = "OtherProposal" /\ proposal' = psbt
      /\ UNCHANGED <<context, params, change_vout, receiver_inputs>>
    BY DEF Answer
<1>2. psbt \in PSBTs
    BY ProposalAssumption
<1> QED BY <1>1, <1>2
        DEF TypeInv, ContextInv, ParamsInv, ProposalInv, DrainInv, InputsInv, VerdictInv, Building

(* The sender's verdict. *)
LEMMA ProcessType ==
    ASSUME TypeInv, process_proposal
    PROVE  TypeInv'
<1>1. /\ stage \in {"PayjoinProposal", "OtherProposal"}
      /\ \/ stage' = "Accepted" /\ Acceptable(context, proposal) /\ proposal' = Restored(context, proposal)
         \/ stage' = "Refused" /\ proposal' = proposal
      /\ UNCHANGED <<context, params, change_vout, receiver_inputs>>
    BY Zenon DEF process_proposal
<1>2. proposal \in PSBTs
    BY <1>1 DEF TypeInv, ProposalInv
<1>3. VerdictInv'
    BY <1>1, <1>2 DEF VerdictInv
<1>4. stage # "Start" /\ stage' \in {"Accepted", "Refused"}
    BY <1>1
<1> QED BY <1>1, <1>3, <1>4
        DEF TypeInv, ContextInv, ParamsInv, ProposalInv, DrainInv, InputsInv, Building

(* Nothing happens. *)
LEMMA StutterType ==
    ASSUME TypeInv, UNCHANGED vars
    PROVE  TypeInv'
BY DEF TypeInv, ContextInv, ParamsInv, ProposalInv, DrainInv, InputsInv, VerdictInv, Building, Owned, Original, vars

(* Fee rates are naturals. *)
LEMMA RatesType ==
    ASSUME NEW r \in {BroadcastMin} \union Rates
    PROVE  r \in Nat
BY ProposalAssumption

(* Replacements are outputs. *)
LEMMA ReplacementType ==
    ASSUME NEW r \in Replacements
    PROVE  r.outputs \in Seq(Outputs)
BY ProposalAssumption

(* Every step keeps the invariant. *)
LEMMA NextType ==
    ASSUME TypeInv, [Next]_vars
    PROVE  TypeInv'
<1>1. CASE UNCHANGED vars
    BY <1>1, StutterType
<1>2. CASE \E psbt \in Originals : BuildContext(psbt)
    BY <1>2, BuildContextType
<1>3. CASE identify_receiver_outputs
    BY <1>3, IdentifyType
<1>4. CASE \E r \in Replacements : replace_receiver_outputs(r.outputs, r.drain)
    BY <1>4, ReplaceType, ReplacementType
<1>5. CASE \E script \in OwnScripts : substitute_receiver_script(script)
    BY <1>5, SubstituteType
<1>6. CASE commit_outputs
    BY <1>6, CommitOutputsType
<1>7. CASE \E coins \in CoinLists, sequence \in Signals : contribute_inputs(coins, sequence)
    BY <1>7, ContributeType
<1>8. CASE commit_inputs
    BY <1>8, CommitInputsType
<1>9. CASE \E min_rate, max_rate \in {BroadcastMin} \union Rates : apply_fee_range(min_rate, max_rate)
    BY <1>9, ApplyType, RatesType
<1>10. CASE finalize_proposal
    BY <1>10, FinalizeType
<1>11. CASE \E psbt \in OtherProposals : Answer(psbt)
    BY <1>11, AnswerType
<1>12. CASE process_proposal
    BY <1>12, ProcessType
<1> QED BY <1>1, <1>2, <1>3, <1>4, <1>5, <1>6, <1>7, <1>8, <1>9, <1>10, <1>11, <1>12, Zenon DEF Next

(* The state has its types throughout: contexts are what the builder returns
   (with a covered offer), the receiver keeps the sender's terms, proposals
   are PSBTs without negative amounts, change_vout is in bounds while it is
   used, and what is accepted passed the checks of process_proposal. *)
THEOREM TypeCorrect == Spec => []TypeInv
BY InitType, NextType, PTL DEF Spec

(* Restored changes no amount, script, outpoint or sequence number. *)
LEMMA RestoredParts ==
    ASSUME NEW c, NEW p \in PSBTs
    PROVE  /\ Restored(c, p).inputs = restore_original_utxos(c.original_psbt, p)
           /\ Restored(c, p).outputs = restore_original_outputs(c.original_psbt, p)
<1>1. p = [inputs |-> p.inputs, outputs |-> p.outputs, header |-> p.header]
    BY PsbtType
<1> QED BY <1>1 DEF Restored

(* Restoring key paths changes neither scripts nor amounts. *)
LEMMA RestoredOutputs ==
    ASSUME NEW c, NEW p \in PSBTs
    PROVE  /\ DOMAIN Restored(c, p).outputs = DOMAIN p.outputs
           /\ \A i \in DOMAIN p.outputs :
                /\ Restored(c, p).outputs[i].script = p.outputs[i].script
                /\ Restored(c, p).outputs[i].value = p.outputs[i].value
<1> DEFINE own == OwnOutputs(c.original_psbt, p)
           outs == restore_original_outputs(c.original_psbt, p)
<1>1. outs = [i \in DOMAIN p.outputs |->
                IF i \notin ToSet(own) THEN p.outputs[i]
                ELSE [p.outputs[i] EXCEPT !.keypaths = c.original_psbt.outputs[IndexIn(own, i)].keypaths]]
    BY Zenon DEF restore_original_outputs
<1>2. DOMAIN outs = DOMAIN p.outputs
    <2> HIDE DEF outs, own
    <2> QED BY <1>1
<1>3. ASSUME NEW i \in DOMAIN p.outputs
      PROVE  outs[i].script = p.outputs[i].script /\ outs[i].value = p.outputs[i].value
    <2>1. p.outputs[i] \in Outputs
        BY PsbtType
    <2> DEFINE k == c.original_psbt.outputs[IndexIn(own, i)].keypaths
    <2>2. outs[i] = IF i \notin ToSet(own) THEN p.outputs[i] ELSE [p.outputs[i] EXCEPT !.keypaths = k]
        <3> HIDE DEF outs, own
        <3> QED BY <1>1
    <2>3. /\ [p.outputs[i] EXCEPT !.keypaths = k].script = p.outputs[i].script
          /\ [p.outputs[i] EXCEPT !.keypaths = k].value = p.outputs[i].value
        <3> HIDE DEF k
        <3> QED BY <2>1 DEF Outputs
    <2> HIDE DEF outs, own, k
    <2> QED BY <2>2, <2>3
<1> HIDE DEF outs
<1>4. Restored(c, p).outputs = outs
    BY RestoredParts DEF outs
<1> QED BY <1>2, <1>3, <1>4

(* What restore_original_utxos makes of the inputs: the sender's own are given
   back the fields of the Original PSBT. *)
InputsRestored(ins, c, p, own) ==
    /\ DOMAIN ins = DOMAIN p.inputs
    /\ \A i \in DOMAIN p.inputs :
          /\ ins[i].outpoint = p.inputs[i].outpoint
          /\ ins[i].sequence = p.inputs[i].sequence
          /\ ins[i].fields =
                IF i \notin ToSet(own) THEN p.inputs[i].fields
                ELSE (p.inputs[i].fields \ {"utxo", "bip32_derivation"}) \union
                     (c.original_psbt.inputs[IndexIn(own, i)].fields \intersect {"utxo", "bip32_derivation"})

(* What restoring does to the inputs. *)
LEMMA RestoredInputs ==
    ASSUME NEW c, NEW p \in PSBTs, NEW own, own = OwnInputs(c.original_psbt, p)
    PROVE  InputsRestored(Restored(c, p).inputs, c, p, own)
<1> DEFINE ins == restore_original_utxos(c.original_psbt, p)
           R == {"utxo", "bip32_derivation"}
           F(i) == (p.inputs[i].fields \ R) \union (c.original_psbt.inputs[IndexIn(own, i)].fields \intersect R)
<1>1. ins = [i \in DOMAIN p.inputs |->
                IF i \notin ToSet(own) THEN p.inputs[i] ELSE [p.inputs[i] EXCEPT !.fields = F(i)]]
    BY Zenon DEF restore_original_utxos
<1>2. DOMAIN ins = DOMAIN p.inputs
    <2> HIDE DEF ins, F
    <2> QED BY <1>1
<1>3. ASSUME NEW i \in DOMAIN p.inputs
      PROVE  /\ ins[i].outpoint = p.inputs[i].outpoint /\ ins[i].sequence = p.inputs[i].sequence
             /\ ins[i].fields = IF i \notin ToSet(own) THEN p.inputs[i].fields ELSE F(i)
    <2>1. p.inputs[i] \in Inputs
        BY PsbtType
    <2>2. ins[i] = IF i \notin ToSet(own) THEN p.inputs[i] ELSE [p.inputs[i] EXCEPT !.fields = F(i)]
        <3> HIDE DEF ins, F
        <3> QED BY <1>1
    <2>3. /\ [p.inputs[i] EXCEPT !.fields = F(i)].outpoint = p.inputs[i].outpoint
          /\ [p.inputs[i] EXCEPT !.fields = F(i)].sequence = p.inputs[i].sequence
          /\ [p.inputs[i] EXCEPT !.fields = F(i)].fields = F(i)
        <3> HIDE DEF F
        <3> QED BY <2>1 DEF Inputs
    <2> HIDE DEF ins, F
    <2> QED BY <2>2, <2>3
<1> HIDE DEF ins
<1>4. Restored(c, p).inputs = ins
    BY RestoredParts DEF ins
<1> QED BY <1>2, <1>3, <1>4, Zenon DEF InputsRestored

-----------------------------------------------------------------------------
(* An accepted proposal keeps the sender's outputs. *)
LEMMA AcceptedOutputs ==
    ASSUME TypeInv
    PROVE  SenderOutputsKept
<1>1. SUFFICES ASSUME stage = "Accepted"
               PROVE  \E f \in Embeddings(SentOutputs, proposal.outputs) :
                          \A i \in DOMAIN SentOutputs : OutputKept(context, i, proposal.outputs[f[i]])
    <2>1. SentOutputs = SentOf(context)
        BY DEF SentOutputs, SentOf
    <2> QED BY <2>1, Zenon DEF SenderOutputsKept, OutputKept
<1>2. GoodContext(context) /\ context \in Contexts
    BY <1>1 DEF TypeInv, ContextInv, GoodContext
<1>3. PICK p \in PSBTs : Acceptable(context, p) /\ proposal = Restored(context, p)
    BY <1>1 DEF TypeInv, VerdictInv
<1>4. check_outputs(context, p).ok
    BY <1>3, Zenon DEF Acceptable
<1>5. PICK f \in Embeddings(SentOf(context), p.outputs) :
          \A i \in DOMAIN SentOf(context) : OutputKept(context, i, p.outputs[f[i]])
    BY <1>2, <1>4, OutputsKept
<1>6. /\ DOMAIN proposal.outputs = DOMAIN p.outputs
      /\ \A k \in DOMAIN p.outputs : /\ proposal.outputs[k].script = p.outputs[k].script
                                     /\ proposal.outputs[k].value = p.outputs[k].value
    BY <1>3, RestoredOutputs
<1>7. SentOutputs = SentOf(context)
    BY DEF SentOutputs, SentOf
<1>8. f \in Embeddings(SentOutputs, proposal.outputs)
    BY <1>5, <1>6, <1>7, Zenon DEF Embeddings
<1>9. ASSUME NEW i \in DOMAIN SentOutputs PROVE OutputKept(context, i, proposal.outputs[f[i]])
    <2>1. f[i] \in DOMAIN p.outputs /\ OutputKept(context, i, p.outputs[f[i]])
        BY <1>5, <1>7 DEF Embeddings, Injection
    <2>2. /\ proposal.outputs[f[i]].script = p.outputs[f[i]].script
          /\ proposal.outputs[f[i]].value = p.outputs[f[i]].value
        BY <1>6, <2>1
    <2> QED BY <2>1, <2>2, Zenon DEF OutputKept
<1> QED BY <1>8, <1>9

(* Whatever proposal arrives, what process_proposal accepts keeps the sender's
   outputs, in order, less at most the contribution it offered. *)
THEOREM OutputsKeptAlways == Spec => []SenderOutputsKept
<1>1. TypeInv => SenderOutputsKept
    BY AcceptedOutputs
<1> QED BY <1>1, TypeCorrect, PTL

-----------------------------------------------------------------------------

-----------------------------------------------------------------------------
(* OfferCovered *)

(* The fee output holds what the sender offered, as long as nobody took it. *)
OfferInv ==
    stage \in Building /\ DistinctScripts /\ params.fee_contribution.vout # 0 =>
        /\ \E k \in DOMAIN proposal.outputs :
              proposal.outputs[k].script = SentOutputs[params.fee_contribution.vout].script
        /\ \A k \in DOMAIN proposal.outputs :
              proposal.outputs[k].script = SentOutputs[params.fee_contribution.vout].script =>
                  proposal.outputs[k].value >= params.fee_contribution.max_amount

(* The output the sender offers to take its contribution from. *)
LEMMA OfferedOutput ==
    ASSUME GoodContext(context), DistinctScripts, NEW v \in Nat \ {0},
           v = context.fee_contribution.vout, v \notin Owned
    PROVE  /\ v \in DOMAIN SentOutputs /\ DOMAIN Original.outputs = DOMAIN SentOutputs
           /\ Original.outputs[v].script = SentOutputs[v].script
           /\ SentOutputs[v].script \notin OwnScripts
           /\ \A i \in DOMAIN SentOutputs : Original.outputs[i].script = SentOutputs[v].script => i = v
           /\ Original.outputs[v].value >= context.fee_contribution.max_amount
<1>1. /\ DOMAIN Original.outputs = DOMAIN SentOutputs
      /\ \A k \in DOMAIN SentOutputs : /\ Original.outputs[k].script = SentOutputs[k].script
                                       /\ Original.outputs[k].value = SentOutputs[k].value
    BY OriginalType DEF SameOutputs
<1>2. v \in DOMAIN SentOutputs /\ context.fee_contribution.max_amount <= SentOutputs[v].value
    BY DEF GoodContext, Covered, SentOutputs
<1>3. SentOutputs[v].value \in Nat /\ context.fee_contribution.max_amount \in Nat
    <2>1. SentOutputs \in Seq(Outputs) /\ context \in Contexts
        BY OriginalType, PsbtType DEF SentOutputs
    <2>2. SentOutputs[v] \in Outputs
        BY <1>2, <2>1
    <2> QED BY <2>1, <2>2, OutputType DEF Contexts
<1>4. SentOutputs[v].script \notin OwnScripts
    BY <1>1, <1>2 DEF Owned
<1> QED BY <1>1, <1>2, <1>3, <1>4 DEF DistinctScripts

(* The outputs that pay the fee output's script hold what is offered. *)
Holds(outs, script, amount) ==
    /\ \E k \in DOMAIN outs : outs[k].script = script
    /\ \A k \in DOMAIN outs : outs[k].script = script => outs[k].value >= amount

(* The invariant of the offer, for a given output. *)
LEMMA OfferHolds ==
    OfferInv <=>
        (stage \in Building /\ DistinctScripts /\ params.fee_contribution.vout # 0 =>
            Holds(proposal.outputs, SentOutputs[params.fee_contribution.vout].script,
                  params.fee_contribution.max_amount))
BY Zenon DEF OfferInv, Holds

(* The receiver holds the terms the sender offered. *)
LEMMA OfferTerms ==
    ASSUME TypeInv, stage \in Building, params.fee_contribution.vout # 0, DistinctScripts
    PROVE  /\ GoodContext(context) /\ params.fee_contribution = context.fee_contribution
           /\ params.fee_contribution.vout \in Nat \ {0}
           /\ params.fee_contribution.max_amount \in Nat
           /\ params.fee_contribution.vout \notin Owned
<1>1. params \in ParamsType
    BY DEF TypeInv, ParamsInv
<1>2. params.fee_contribution.vout \in Nat /\ params.fee_contribution.max_amount \in Nat
    BY <1>1 DEF ParamsType, Fees
<1> QED BY <1>2 DEF TypeInv, ContextInv, ParamsInv, Building

(* It starts with the Original PSBT, whose fee output covers the offer. *)
LEMMA IdentifyOffer ==
    ASSUME TypeInv, TypeInv', identify_receiver_outputs
    PROVE  OfferInv'
<1>1. SUFFICES ASSUME stage' \in Building, DistinctScripts', params'.fee_contribution.vout # 0
               PROVE  Holds(proposal'.outputs, SentOutputs[params'.fee_contribution.vout].script,
                            params'.fee_contribution.max_amount)
    <2>1. SentOutputs' = SentOutputs
        BY Zenon DEF identify_receiver_outputs, SentOutputs
    <2> QED BY <2>1, Zenon DEF OfferInv, Holds
<1> DEFINE v == params'.fee_contribution.vout
<1>2. context' = context /\ proposal' = Original /\ stage = "Original"
    BY DEF identify_receiver_outputs
<1>3. GoodContext(context) /\ DistinctScripts
    BY <1>1, <1>2 DEF TypeInv, ContextInv, DistinctScripts, SentOutputs
<1>4. Owned' = Owned
    BY <1>2 DEF Owned, Original
<1>5. params'.fee_contribution = context.fee_contribution /\ v \notin Owned /\ params' \in ParamsType
    BY <1>1, <1>2, <1>4 DEF TypeInv, ParamsInv
<1>6. v \in Nat \ {0} /\ v = context.fee_contribution.vout
    BY <1>1, <1>5 DEF ParamsType, Fees
<1> HIDE DEF v
<1>7. /\ v \in DOMAIN SentOutputs /\ DOMAIN Original.outputs = DOMAIN SentOutputs
      /\ Original.outputs[v].script = SentOutputs[v].script
      /\ \A i \in DOMAIN SentOutputs : Original.outputs[i].script = SentOutputs[v].script => i = v
      /\ Original.outputs[v].value >= context.fee_contribution.max_amount
    BY <1>3, <1>5, <1>6, OfferedOutput
<1>8. Holds(Original.outputs, SentOutputs[v].script, context.fee_contribution.max_amount)
    BY <1>7 DEF Holds
<1> QED BY <1>2, <1>5, <1>8 DEF v

(* Replacing outputs leaves the fee output alone. *)
LEMMA ReplaceOffer ==
    ASSUME TypeInv, OfferInv, NEW outs \in Seq(Outputs), NEW drain, replace_receiver_outputs(outs, drain),
           \A i \in DOMAIN SentOutputs : SentOutputs[i].script \notin OwnScripts =>
                \A k \in DOMAIN outs : outs[k].script # SentOutputs[i].script
    PROVE  OfferInv'
<1>0. stage = "WantsOutputs" /\ UNCHANGED <<context, params, stage>>
    BY Zenon DEF replace_receiver_outputs
<1>1. SUFFICES ASSUME DistinctScripts, params.fee_contribution.vout # 0
               PROVE  Holds(proposal'.outputs, SentOutputs[params.fee_contribution.vout].script,
                            params.fee_contribution.max_amount)
    <2>1. SentOutputs' = SentOutputs /\ DistinctScripts' = DistinctScripts
        BY <1>0 DEF SentOutputs, DistinctScripts
    <2> QED BY <1>0, <2>1, Zenon DEF OfferInv, Holds
<1> DEFINE v == params.fee_contribution.vout
           s == SentOutputs[v].script
           m == params.fee_contribution.max_amount
           q == proposal'.outputs
<1>2. GoodContext(context) /\ v \in Nat \ {0} /\ v = context.fee_contribution.vout /\ v \notin Owned
      /\ m = context.fee_contribution.max_amount
    BY <1>0, <1>1, OfferTerms DEF Building
<1>3. Replaced(q, Original.outputs, Owned, outs)
    BY <1>2, ReplaceStep
<1> HIDE DEF v, m, q
<1>4. /\ v \in DOMAIN SentOutputs /\ DOMAIN Original.outputs = DOMAIN SentOutputs
      /\ Original.outputs[v].script = s /\ s \notin OwnScripts
      /\ \A i \in DOMAIN SentOutputs : Original.outputs[i].script = s => i = v
      /\ Original.outputs[v].value >= m
    BY <1>1, <1>2, OfferedOutput
<1>5. \E k \in DOMAIN q : q[k].script = s
    <2>1. PICK k \in DOMAIN q : q[k] = Original.outputs[v]
        BY <1>2, <1>3, <1>4 DEF Replaced
    <2> QED BY <1>4, <2>1
<1>6. ASSUME NEW k \in DOMAIN q, q[k].script = s PROVE q[k].value >= m
    <2>1. CASE \E i \in DOMAIN Original.outputs \ Owned : q[k] = Original.outputs[i]
        <3>1. PICK i \in DOMAIN Original.outputs \ Owned : q[k] = Original.outputs[i]
            BY <2>1
        <3>2. i = v
            BY <1>4, <1>6, <3>1
        <3> QED BY <1>4, <3>1, <3>2
    <2>2. CASE \E j \in DOMAIN outs : q[k] = outs[j]
        BY <1>4, <1>6, <2>2
    <2> QED BY <1>3, <2>1, <2>2 DEF Replaced
<1>7. Holds(q, s, m)
    BY <1>5, <1>6 DEF Holds
<1> QED BY <1>7 DEF v, m, q

(* So does substituting the receiver's script. *)
LEMMA SubstituteOffer ==
    ASSUME TypeInv, OfferInv, NEW script \in OwnScripts, substitute_receiver_script(script)
    PROVE  OfferInv'
<1>1. stage = "WantsOutputs" /\ GoodContext(context)
    BY Zenon DEF substitute_receiver_script, TypeInv, ContextInv
<1>2. CASE /\ <<SubstitutedOutput(script)>> \in Seq(Outputs)
           /\ SubstitutedOutput(script).script = script
           /\ replace_receiver_outputs(<<SubstitutedOutput(script)>>, script)
    <2> DEFINE outs == <<SubstitutedOutput(script)>>
    <2>1. \A k \in DOMAIN outs : outs[k].script = script
        BY <1>2
    <2>2. \A i \in DOMAIN SentOutputs : SentOutputs[i].script \notin OwnScripts =>
                \A k \in DOMAIN outs : outs[k].script # SentOutputs[i].script
        <3> HIDE DEF outs
        <3> QED BY <2>1
    <2>3. outs \in Seq(Outputs) /\ replace_receiver_outputs(outs, script)
        BY <1>2
    <2> HIDE DEF outs
    <2> QED BY <2>2, <2>3, ReplaceOffer
<1>3. CASE stage' = "OutOfBounds"
    BY <1>3 DEF OfferInv, Building
<1> QED BY <1>1, <1>2, <1>3, SubstituteStep

(* Committing changes nothing. *)
LEMMA UnchangedOffer ==
    ASSUME OfferInv, stage \in Building, UNCHANGED <<context, params, proposal>>
    PROVE  OfferInv'
BY Zenon DEF OfferInv, DistinctScripts, SentOutputs

(* Contributing makes an output larger. *)
LEMMA ContributeOffer ==
    ASSUME TypeInv, OfferInv, NEW coins \in CoinLists, NEW sequence, contribute_inputs(coins, sequence)
    PROVE  OfferInv'
<1>0. stage = "WantsInputs" /\ UNCHANGED <<context, params, stage, change_vout>>
    BY Zenon DEF contribute_inputs
<1> DEFINE v == params.fee_contribution.vout
           s == SentOutputs[v].script
           m == params.fee_contribution.max_amount
           old == proposal.outputs
           q == proposal'.outputs
<1>1. SUFFICES ASSUME DistinctScripts, v # 0, Holds(old, s, m)
               PROVE  Holds(q, s, m)
    <2>1. SentOutputs' = SentOutputs /\ DistinctScripts' = DistinctScripts
        BY <1>0 DEF SentOutputs, DistinctScripts
    <2>2. stage \in Building
        BY <1>0 DEF Building
    <2> QED BY <1>0, <2>1, <2>2, Zenon DEF OfferInv, Holds
<1>2. GoodContext(context) /\ proposal \in PSBTs /\ change_vout \in DOMAIN old /\ m \in Nat
    BY <1>0, <1>1, OfferTerms DEF TypeInv, ContextInv, ProposalInv, DrainInv, Building
<1>3. PICK change \in Nat : q = [old EXCEPT ![change_vout].value = @ + change] /\ proposal' \in PSBTs
    BY <1>2, ContributeStep
<1>4. old \in Seq(Outputs)
    BY <1>2, PsbtType
<1> HIDE DEF v, s, m, old, q
<1>5. DOMAIN q = DOMAIN old
    BY <1>3
<1>6. ASSUME NEW k \in DOMAIN old PROVE q[k].script = old[k].script /\ q[k].value >= old[k].value
    <2>1. old[k] \in Outputs
        BY <1>4
    <2>2. old[k].value \in Nat
        BY <2>1, OutputType
    <2>3. q[k] = IF k = change_vout THEN [old[k] EXCEPT !.value = old[k].value + change] ELSE old[k]
        BY <1>3
    <2>4. CASE k = change_vout
        <3>1. q[k] = [old[k] EXCEPT !.value = old[k].value + change]
            BY <2>3, <2>4
        <3>2. q[k].script = old[k].script /\ q[k].value = old[k].value + change
            BY <2>1, <3>1, OutputValue
        <3> QED BY <2>2, <3>2
    <2>5. CASE k # change_vout
        BY <2>2, <2>3, <2>5
    <2> QED BY <2>4, <2>5
<1>7. \A k \in DOMAIN old : old[k].value \in Nat /\ q[k].value \in Int
    <2>1. ASSUME NEW k \in DOMAIN old PROVE old[k].value \in Nat
        BY <1>4, OutputType
    <2>3. q \in Seq(Outputs)
        BY <1>3, PsbtType DEF q
    <2>4. ASSUME NEW k \in DOMAIN q PROVE q[k].value \in Nat
        BY <2>3, OutputType
    <2> QED BY <1>5, <2>1, <2>4
<1> QED BY <1>1, <1>2, <1>5, <1>6, <1>7 DEF Holds

(* The receiver takes the contribution from an output that holds it. *)
LEMMA ApplyOffer ==
    ASSUME TypeInv, OfferInv, NEW min_rate \in Nat, NEW max_rate, apply_fee_range(min_rate, max_rate),
           DistinctScripts
    PROVE  stage' # "SenderUnderflow"
<1>1. SUFFICES ASSUME stage' = "SenderUnderflow" PROVE FALSE
    OBVIOUS
<1>2. stage = "WantsFeeRange" /\ (ApplyFails(min_rate) \/ ApplySucceeds(min_rate, max_rate))
    BY ApplyStep, Zenon
<1>3. SenderFee(min_rate) > 0 /\ Paid(min_rate)[SenderFeeVout].value < 0
    BY <1>1, <1>2 DEF ApplyFails, ApplySucceeds
<1>4. /\ SenderFee(min_rate) \in Nat /\ params.fee_contribution.vout # 0
      /\ SenderFee(min_rate) <= params.fee_contribution.max_amount
    BY <1>2, <1>3, FeesPaid
<1> DEFINE v == params.fee_contribution.vout
           s == SentOutputs[v].script
           m == params.fee_contribution.max_amount
           outs == proposal.outputs
<1>5. stage \in Building
    BY <1>2 DEF Building
<1>6. Holds(outs, s, m)
    BY <1>4, <1>5, OfferHolds, Zenon
<1>7. GoodContext(context) /\ v \in Nat \ {0} /\ v = context.fee_contribution.vout /\ v \notin Owned /\ m \in Nat
    BY <1>4, <1>5, OfferTerms
<1>8. Original.outputs[v].script = s
    BY <1>7, OfferedOutput
<1>9. outs \in Seq(Outputs)
    <2>1. proposal \in PSBTs
        BY <1>2 DEF TypeInv, ProposalInv
    <2> QED BY <2>1, PsbtType
<1>10. SenderFeeVout = Position(outs, s)
    BY <1>8 DEF SenderFeeVout
<1> HIDE DEF s, m, outs
<1>11. PICK k \in DOMAIN outs : outs[k].script = s
    BY <1>6 DEF Holds
<1>12. SenderFeeVout \in DOMAIN outs /\ outs[SenderFeeVout].script = s
    BY <1>9, <1>10, <1>11, PositionType
<1>13. outs[SenderFeeVout].value >= m
    BY <1>6, <1>12 DEF Holds
<1>14. Paid(min_rate)[SenderFeeVout].value = outs[SenderFeeVout].value - SenderFee(min_rate)
    <2>1. Paid(min_rate)[SenderFeeVout].value = outs[SenderFeeVout].value -
             (IF SenderFee(min_rate) # 0 /\ SenderFeeVout = SenderFeeVout THEN SenderFee(min_rate) ELSE 0)
        BY <1>2, <1>12, FinalType DEF outs
    <2> QED BY <1>3, <1>4, <2>1
<1>15. outs[SenderFeeVout].value \in Nat
    BY <1>9, <1>12, OutputType
<1> QED BY <1>3, <1>4, <1>7, <1>13, <1>14, <1>15 DEF m

(* apply_fee_range never takes more than the fee output holds. *)
LEMMA ApplyCovered ==
    ASSUME TypeInv, OfferInv, NEW min_rate \in Nat, NEW max_rate, apply_fee_range(min_rate, max_rate)
    PROVE  OfferInv' /\ OfferCovered'
<1>1. /\ stage' \in {"SenderUnderflow", "FeeTooHigh", "DrainUnderflow", "ProvisionalProposal"}
      /\ context' = context
    BY ApplyStep, Zenon DEF ApplyFails, ApplySucceeds
<1>2. OfferInv'
    BY <1>1 DEF OfferInv, Building
<1>3. DistinctScripts' = DistinctScripts
    BY <1>1 DEF DistinctScripts, SentOutputs
<1>4. OfferCovered'
    BY <1>3, ApplyOffer DEF OfferCovered
<1> QED BY <1>2, <1>4

(* Every step keeps the offer covered. *)
LEMMA NextOffer ==
    ASSUME NoSenderScript, TypeInv, TypeInv', OfferInv, OfferCovered, [Next]_vars
    PROVE  OfferInv' /\ OfferCovered'
<1>1. CASE UNCHANGED vars
    BY <1>1 DEF vars, OfferInv, OfferCovered, DistinctScripts, SentOutputs
<1>2. CASE \E psbt \in Originals : BuildContext(psbt)
    <2>1. stage' = "Original"
        BY <1>2, Zenon DEF BuildContext
    <2> QED BY <2>1 DEF OfferInv, OfferCovered, Building
<1>3. CASE identify_receiver_outputs
    <2>1. stage' = "WantsOutputs"
        BY <1>3 DEF identify_receiver_outputs
    <2> QED BY <1>3, <2>1, IdentifyOffer DEF OfferCovered
<1>4. CASE \E r \in Replacements : replace_receiver_outputs(r.outputs, r.drain)
    <2>1. PICK r \in Replacements : replace_receiver_outputs(r.outputs, r.drain)
        BY <1>4
    <2>2. stage = "WantsOutputs" /\ stage' = "WantsOutputs"
        BY <2>1, Zenon DEF replace_receiver_outputs
    <2>3. context.original_psbt \in Originals
        BY <2>2 DEF TypeInv, ContextInv, GoodContext
    <2>4. \A i \in DOMAIN SentOutputs : SentOutputs[i].script \notin OwnScripts =>
                \A k \in DOMAIN r.outputs : r.outputs[k].script # SentOutputs[i].script
        BY <2>3 DEF NoSenderScript, SentOutputs
    <2>5. r.outputs \in Seq(Outputs)
        BY ReplacementType
    <2>6. OfferInv'
        BY <2>1, <2>4, <2>5, ReplaceOffer
    <2> QED BY <2>2, <2>6 DEF OfferCovered
<1>5. CASE \E script \in OwnScripts : substitute_receiver_script(script)
    <2>1. PICK script \in OwnScripts : substitute_receiver_script(script)
        BY <1>5
    <2>2. stage' # "SenderUnderflow"
        BY <2>1, Zenon DEF substitute_receiver_script, replace_receiver_outputs
    <2> QED BY <2>1, <2>2, SubstituteOffer DEF OfferCovered
<1>6. CASE commit_outputs
    <2>1. stage' = "WantsInputs" /\ stage \in Building /\ UNCHANGED <<context, params, proposal>>
        BY <1>6 DEF commit_outputs, Building
    <2> QED BY <2>1, UnchangedOffer DEF OfferCovered
<1>7. CASE \E coins \in CoinLists, sequence \in Signals : contribute_inputs(coins, sequence)
    <2>1. PICK coins \in CoinLists, sequence \in Signals : contribute_inputs(coins, sequence)
        BY <1>7
    <2>2. stage' = "WantsInputs"
        BY <2>1, Zenon DEF contribute_inputs
    <2> QED BY <2>1, <2>2, ContributeOffer DEF OfferCovered
<1>8. CASE commit_inputs
    <2>1. stage' = "WantsFeeRange" /\ stage \in Building /\ UNCHANGED <<context, params, proposal>>
        BY <1>8 DEF commit_inputs, Building
    <2> QED BY <2>1, UnchangedOffer DEF OfferCovered
<1>9. CASE \E min_rate, max_rate \in {BroadcastMin} \union Rates : apply_fee_range(min_rate, max_rate)
    BY <1>9, ApplyCovered, RatesType
<1>10. CASE finalize_proposal
    <2>1. stage' = "PayjoinProposal"
        BY <1>10, Zenon DEF finalize_proposal
    <2> QED BY <2>1 DEF OfferInv, OfferCovered, Building
<1>11. CASE \E psbt \in OtherProposals : Answer(psbt)
    <2>1. stage' = "OtherProposal"
        BY <1>11, Zenon DEF Answer
    <2> QED BY <2>1 DEF OfferInv, OfferCovered, Building
<1>12. CASE process_proposal
    <2>1. stage' \in {"Accepted", "Refused"}
        BY <1>12, Zenon DEF process_proposal
    <2> QED BY <2>1 DEF OfferInv, OfferCovered, Building
<1> QED BY <1>1, <1>2, <1>3, <1>4, <1>5, <1>6, <1>7, <1>8, <1>9, <1>10, <1>11, <1>12, Zenon DEF Next

(* The receiver never underflows the output the sender offered to pay from:
   calculate_psbt_with_fee_range subtracts at most what the builder checked
   to be there, if the receiver's replacements pay no other script of the
   sender's. *)
THEOREM OfferAlwaysCovered ==
    ASSUME NoSenderScript
    PROVE  Spec => []OfferCovered
<1>1. Init => OfferInv /\ OfferCovered
    BY DEF Init, OfferInv, OfferCovered, Building
<1>2. TypeInv /\ TypeInv' /\ OfferInv /\ OfferCovered /\ [Next]_vars => OfferInv' /\ OfferCovered'
    BY NextOffer
<1> QED BY <1>1, <1>2, TypeCorrect, PTL DEF Spec

-----------------------------------------------------------------------------
(* check_inputs and OwnInputs *)

-----------------------------------------------------------------------------
(* check_inputs and OwnInputs *)

(* The inputs of the Original PSBT of a context. *)
SentIn(c) == c.original_psbt.inputs

(* The state of the loop of check_inputs. *)
InputRuns == [next : Nat \ {0}, ok : BOOLEAN]

(* The state the loop starts in. *)
StartInputs == [next |-> 1, ok |-> TRUE]

(* What check_inputs asks of an input of the sender, and of another one. *)
OurInput(c, k, x) ==
    /\ x.outpoint = SentIn(c)[k].outpoint /\ x.sequence = SentIn(c)[k].sequence
    /\ {"bip32_derivation", "partial_sigs"} \intersect x.fields = {}
    /\ "final" \notin x.fields /\ "sighash_single" \notin x.fields

TheirInput(c, x) ==
    /\ {"bip32_derivation", "partial_sigs"} \intersect x.fields = {}
    /\ {"final", "utxo"} \subseteq x.fields /\ x.sequence = SentIn(c)[1].sequence

(* The next of the sender's inputs. *)
Ours(c, k, x) == k \in DOMAIN SentIn(c) /\ SentIn(c)[k].outpoint = x.outpoint

(* One turn of check_inputs. *)
LEMMA CheckInputCases ==
    ASSUME NEW c, NEW acc \in InputRuns, NEW x
    PROVE  CheckInput(c, acc, x) =
              IF Ours(c, acc.next, x)
              THEN [next |-> acc.next + 1, ok |-> acc.ok /\ OurInput(c, acc.next, x)]
              ELSE [next |-> acc.next, ok |-> acc.ok /\ TheirInput(c, x)]
<1>1. CASE Ours(c, acc.next, x)
    <2>1. CheckInput(c, acc, x) =
            [next |-> acc.next + 1,
              ok   |-> /\ acc.ok /\ {"bip32_derivation", "partial_sigs"} \intersect x.fields = {}
                       /\ x.sequence = SentIn(c)[acc.next].sequence
                       /\ "final" \notin x.fields
                       /\ "sighash_single" \notin x.fields]
        BY <1>1, Zenon DEF CheckInput, Ours, SentIn
    <2>2. (/\ acc.ok /\ {"bip32_derivation", "partial_sigs"} \intersect x.fields = {}
           /\ x.sequence = SentIn(c)[acc.next].sequence
           /\ "final" \notin x.fields
           /\ "sighash_single" \notin x.fields) = (acc.ok /\ OurInput(c, acc.next, x))
        BY <1>1, Zenon DEF OurInput, Ours
    <2> QED BY <1>1, <2>1, <2>2, Zenon
<1>2. CASE ~ Ours(c, acc.next, x)
    <2>1. CheckInput(c, acc, x) =
            [acc EXCEPT !.ok = /\ acc.ok /\ {"bip32_derivation", "partial_sigs"} \intersect x.fields = {}
                                /\ {"final", "utxo"} \subseteq x.fields
                                /\ x.sequence = SentIn(c)[1].sequence]
        BY <1>2, Zenon DEF CheckInput, Ours, SentIn
    <2>2. (/\ acc.ok /\ {"bip32_derivation", "partial_sigs"} \intersect x.fields = {}
           /\ {"final", "utxo"} \subseteq x.fields
           /\ x.sequence = SentIn(c)[1].sequence) = (acc.ok /\ TheirInput(c, x))
        BY Zenon DEF TheirInput
    <2>3. PICK ok : ok = (acc.ok /\ TheirInput(c, x))
        BY Zenon
    <2>4. CheckInput(c, acc, x) = [acc EXCEPT !.ok = ok]
        BY <2>1, <2>2, <2>3, Zenon
    <2>5. [acc EXCEPT !.ok = ok] = [next |-> acc.next, ok |-> ok]
        BY DEF InputRuns
    <2> QED BY <1>2, <2>3, <2>4, <2>5, Zenon
<1> QED BY <1>1, <1>2

(* One turn counts an input of the sender or checks one of the receiver. *)
LEMMA CheckInputStep ==
    ASSUME NEW c, NEW acc \in InputRuns, NEW x, NEW r, r = CheckInput(c, acc, x)
    PROVE  /\ r \in InputRuns
           /\ r.next = IF Ours(c, acc.next, x) THEN acc.next + 1 ELSE acc.next
           /\ r.ok => /\ acc.ok
                      /\ IF Ours(c, acc.next, x) THEN OurInput(c, acc.next, x) ELSE TheirInput(c, x)
<1>0. acc.next \in Nat \ {0} /\ acc.ok \in BOOLEAN
    BY DEF InputRuns
<1>1. PICK ours \in BOOLEAN : ours = (acc.ok /\ OurInput(c, acc.next, x))
    BY Zenon DEF OurInput
<1>2. PICK theirs \in BOOLEAN : theirs = (acc.ok /\ TheirInput(c, x))
    BY Zenon DEF TheirInput
<1>3. r = IF Ours(c, acc.next, x) THEN [next |-> acc.next + 1, ok |-> ours]
          ELSE [next |-> acc.next, ok |-> theirs]
    BY <1>1, <1>2, CheckInputCases, Zenon
<1>4. CASE Ours(c, acc.next, x)
    <2>1. r = [next |-> acc.next + 1, ok |-> ours]
        BY <1>3, <1>4, Zenon
    <2>2. r \in InputRuns /\ r.next = acc.next + 1 /\ r.ok = ours
        BY <1>0, <2>1 DEF InputRuns
    <2> QED BY <1>1, <1>4, <2>2, Zenon
<1>5. CASE ~ Ours(c, acc.next, x)
    <2>1. r = [next |-> acc.next, ok |-> theirs]
        BY <1>3, <1>5, Zenon
    <2>2. r \in InputRuns /\ r.next = acc.next /\ r.ok = theirs
        BY <1>0, <2>1 DEF InputRuns
    <2> QED BY <1>2, <1>5, <2>2, Zenon
<1> QED BY <1>4, <1>5

(* The states check_inputs goes through. *)
InputRun(acc, c, ins) ==
    /\ acc \in [0..Len(ins) -> InputRuns]
    /\ acc[0] = StartInputs
    /\ \A n \in 1..Len(ins) : acc[n] = CheckInput(c, acc[n - 1], ins[n])

(* What the recursion behind check_inputs satisfies. *)
InputStep(g, c, ins) ==
    g = [s \in SUBSET DOMAIN ins |->
            IF s = {} THEN StartInputs ELSE CheckInput(c, g[s \ {Max(s)}], ins[Max(s)])]

(* check_inputs is its loop: it succeeds only if every turn did and every input
   of the sender was found. *)
LEMMA InputRunExists ==
    ASSUME NEW c, NEW p \in PSBTs, check_inputs(c, p)
    PROVE  \E acc : /\ InputRun(acc, c, p.inputs)
                    /\ acc[Len(p.inputs)].ok
                    /\ acc[Len(p.inputs)].next > Len(SentIn(c))
<1>0. PICK ins \in Seq(Inputs) : ins = p.inputs
    BY DEF PSBTs
<1> DEFINE N == Len(ins)
           G == [q \in InputRuns \X (1..N) |-> CheckInput(c, q[1], ins[q[2]])]
<1>1. N \in Nat /\ DOMAIN ins = 1..N
    OBVIOUS
<1>2. StartInputs \in InputRuns
    BY DEF StartInputs, InputRuns
<1>3. G \in [InputRuns \X (1..N) -> InputRuns]
    <2>1. \A a \in InputRuns, k \in 1..N : CheckInput(c, a, ins[k]) \in InputRuns
        BY CheckInputStep
    <2> QED BY <2>1
<1>4. PICK f : Recursion(f, 1..N, InputRuns, StartInputs, G, MaxFirst(N))
    <2> HIDE DEF G, N
    <2> QED BY <1>1, <1>2, <1>3, FoldExists
<1>5. f \in [SUBSET (1..N) -> InputRuns] /\ f[{}] = StartInputs
    BY <1>4 DEF Recursion
<1>6. ASSUME NEW s \in SUBSET (1..N), s # {}
      PROVE  f[s] = CheckInput(c, f[s \ {Max(s)}], ins[Max(s)])
    <2>1. MaxFirst(N)[s] = Max(s) /\ Max(s) \in 1..N
        BY <1>1, <1>6, MaxOf DEF MaxFirst
    <2>2. f[s] = G[<<f[s \ {Max(s)}], Max(s)>>]
        BY <1>4, <1>6, <2>1 DEF Recursion
    <2>3. <<f[s \ {Max(s)}], Max(s)>> \in InputRuns \X (1..N)
        BY <1>5, <2>1
    <2> QED BY <2>2, <2>3
<1>8. InputStep(f, c, ins)
    BY <1>1, <1>5, <1>6 DEF InputStep
<1> DEFINE g == CHOOSE g : InputStep(g, c, ins)
           acc == [n \in 0..N |-> g[1..n]]
<1>9. InputStep(g, c, ins)
    BY <1>8
<1>10. g[DOMAIN ins].ok /\ g[DOMAIN ins].next > Len(SentIn(c))
    BY <1>0 DEF check_inputs, FoldLeft, MapThenFoldSet, InputStep, StartInputs, SentIn
<1> HIDE DEF g
<1>11. acc[0] = StartInputs
    <2>1. 1..0 = {} /\ {} \in SUBSET DOMAIN ins
        OBVIOUS
    <2>2. g[{}] = StartInputs
        BY <1>9, <2>1 DEF InputStep
    <2> QED BY <1>1, <2>1, <2>2
<1>12. ASSUME NEW n \in 1..N PROVE acc[n] = CheckInput(c, acc[n - 1], ins[n])
    <2>0. n \in 1..n /\ n \in Nat \ {0} /\ 1..n \subseteq 1..N
        BY <1>1
    <2>1. 1..n \in SUBSET DOMAIN ins /\ 1..n # {} /\ n \in Nat \ {0}
        BY <1>1, <2>0
    <2>2. g[1..n] = CheckInput(c, g[(1..n) \ {Max(1..n)}], ins[Max(1..n)])
        BY <1>9, <2>1 DEF InputStep
    <2>3. Max(1..n) = n /\ (1..n) \ {n} = 1..(n - 1)
        BY <2>1, MaxOfPrefix
    <2>4. g[1..n] = CheckInput(c, g[1..(n - 1)], ins[n])
        BY <2>2, <2>3
    <2> QED BY <1>1, <2>4
<1>13. \A n \in 0..N : acc[n] \in InputRuns
    <2> DEFINE T == {n \in 0..N : acc[n] \in InputRuns}
    <2>1. 0 \in T
        BY <1>1, <1>2, <1>11
    <2>2. ASSUME NEW n \in 0..(N - 1), n \in T PROVE n + 1 \in T
        <3>1. n + 1 \in 1..N /\ (n + 1) - 1 = n /\ acc[n] \in InputRuns
            BY <1>1, <2>2
        <3>2. acc[n + 1] = CheckInput(c, acc[n], ins[n + 1])
            BY <1>12, <3>1
        <3> HIDE DEF acc
        <3> QED BY <1>1, <3>1, <3>2, CheckInputStep
    <2> HIDE DEF T
    <2>3. \A n \in 0..N : n \in T
        BY <1>1, <2>1, <2>2, UpTo
    <2> QED BY <2>3 DEF T
<1>14. acc[N] = g[DOMAIN ins]
    BY <1>1
<1>15. acc \in [0..N -> InputRuns]
    BY <1>13
<1> HIDE DEF acc
<1> QED BY <1>0, <1>10, <1>11, <1>12, <1>14, <1>15 DEF InputRun

(* OwnInputs looks at one more input. *)
OwnAdd(c, p, s, i) ==
    IF Len(s) < Len(SentIn(c)) /\ p.inputs[i].outpoint = SentIn(c)[Len(s) + 1].outpoint
    THEN Append(s, i) ELSE s

(* The states OwnInputs goes through. *)
OwnRun(own, c, p) ==
    /\ own \in [0..Len(p.inputs) -> Seq(Nat)]
    /\ own[0] = <<>>
    /\ \A n \in 1..Len(p.inputs) : own[n] = OwnAdd(c, p, own[n - 1], n)

(* What the recursion behind OwnInputs satisfies. *)
OwnStep(g, c, p) ==
    g = [s \in SUBSET DOMAIN [i \in DOMAIN p.inputs |-> i] |->
            IF s = {} THEN <<>>
            ELSE OwnAdd(c, p, g[s \ {Max(s)}], [i \in DOMAIN p.inputs |-> i][Max(s)])]

(* OwnInputs collects indexes. *)
LEMMA OwnAddType ==
    ASSUME NEW c, NEW p, NEW s \in Seq(Nat), NEW i \in Nat
    PROVE  OwnAdd(c, p, s, i) \in Seq(Nat)
<1>1. Append(s, i) \in Seq(Nat)
    OBVIOUS
<1> QED BY <1>1, Zenon DEF OwnAdd

(* OwnInputs is its loop. *)
LEMMA OwnRunExists ==
    ASSUME NEW c, NEW p \in PSBTs
    PROVE  \E own : OwnRun(own, c, p) /\ own[Len(p.inputs)] = OwnInputs(c.original_psbt, p)
<1> DEFINE N == Len(p.inputs)
           U == Seq(Nat)
           id == [i \in DOMAIN p.inputs |-> i]
           G == [q \in U \X (1..N) |-> OwnAdd(c, p, q[1], q[2])]
<1>1. N \in Nat /\ DOMAIN p.inputs = 1..N /\ <<>> \in U /\ 1..N \subseteq Nat
    BY PsbtType
<1>3. G \in [U \X (1..N) -> U]
    <2>1. \A a \in U, k \in 1..N : OwnAdd(c, p, a, k) \in U
        <3> HIDE DEF N
        <3> QED BY <1>1, OwnAddType
    <2> HIDE DEF U, N
    <2> QED BY <2>1
<1>4. PICK f : Recursion(f, 1..N, U, <<>>, G, MaxFirst(N))
    <2> HIDE DEF G, N, U
    <2> QED BY <1>1, <1>3, FoldExists
<1>5. f \in [SUBSET (1..N) -> U] /\ f[{}] = <<>>
    <2> HIDE DEF G, N, U
    <2> QED BY <1>4 DEF Recursion
<1>6. /\ DOMAIN id = 1..N
      /\ \A s \in SUBSET (1..N) : s # {} => Max(s) \in 1..N /\ id[Max(s)] = Max(s)
    <2>1. \A s \in SUBSET (1..N) : s # {} => Max(s) \in 1..N
        <3> HIDE DEF N
        <3> QED BY <1>1, MaxOf
    <2> QED BY <1>1, <2>1
<1>7. ASSUME NEW s \in SUBSET (1..N), s # {}
      PROVE  f[s] = OwnAdd(c, p, f[s \ {Max(s)}], Max(s))
    <2>1. MaxFirst(N)[s] = Max(s) /\ Max(s) \in 1..N
        BY <1>6, <1>7 DEF MaxFirst
    <2>2. f[s] = G[<<f[s \ {Max(s)}], Max(s)>>]
        <3> HIDE DEF G, N, U
        <3> QED BY <1>4, <1>7, <2>1 DEF Recursion
    <2>3. <<f[s \ {Max(s)}], Max(s)>> \in U \X (1..N)
        <3> HIDE DEF N, U
        <3> QED BY <1>5, <2>1
    <2> HIDE DEF U, N
    <2> QED BY <2>2, <2>3
<1>8. OwnStep(f, c, p)
    <2> HIDE DEF N, U, id
    <2>1. \A s \in SUBSET (1..N) :
            f[s] = IF s = {} THEN <<>> ELSE OwnAdd(c, p, f[s \ {Max(s)}], id[Max(s)])
        BY <1>5, <1>6, <1>7, Zenon
    <2> QED BY <1>5, <1>6, <2>1 DEF OwnStep, id
<1> DEFINE g == CHOOSE g : OwnStep(g, c, p)
           own == [n \in 0..N |-> g[1..n]]
<1>9. OwnStep(g, c, p)
    BY <1>8
<1>10. OwnInputs(c.original_psbt, p) = g[DOMAIN id]
    BY Zenon DEF OwnInputs, FoldLeft, MapThenFoldSet, OwnStep, OwnAdd, SentIn
<1> HIDE DEF g
<1>11. own[0] = <<>>
    <2>1. 1..0 = {} /\ {} \in SUBSET DOMAIN id
        OBVIOUS
    <2>2. g[{}] = <<>>
        <3> HIDE DEF N
        <3> QED BY <1>9, <2>1 DEF OwnStep
    <2> QED BY <1>1, <2>1, <2>2
<1>12. ASSUME NEW n \in 1..N PROVE own[n] = OwnAdd(c, p, own[n - 1], n)
    <2>0. n \in 1..n /\ n \in Nat \ {0} /\ 1..n \subseteq 1..N
        BY <1>1
    <2>1. 1..n \in SUBSET (1..N) /\ 1..n # {}
        BY <1>1, <2>0
    <2>3. Max(1..n) = n /\ (1..n) \ {n} = 1..(n - 1)
        BY <2>0, MaxOfPrefix
    <2>2. g[1..n] = OwnAdd(c, p, g[(1..n) \ {Max(1..n)}], id[Max(1..n)])
        <3> HIDE DEF N
        <3> QED BY <1>6, <1>9, <2>1 DEF OwnStep
    <2>5. id[n] = n
        BY <1>1
    <2>4. g[1..n] = OwnAdd(c, p, g[1..(n - 1)], n)
        <3> HIDE DEF N, id
        <3> QED BY <2>2, <2>3, <2>5
    <2> HIDE DEF id
    <2> QED BY <1>1, <2>4
<1>13. \A n \in 0..N : own[n] \in Seq(Nat)
    <2> DEFINE T == {n \in 0..N : own[n] \in Seq(Nat)}
    <2>1. 0 \in T
        <3>1. <<>> \in Seq(Nat) /\ 0 \in 0..N
            BY <1>1
        <3> HIDE DEF own, N
        <3> QED BY <1>11, <3>1
    <2>2. ASSUME NEW n \in 0..(N - 1), n \in T PROVE n + 1 \in T
        <3>1. n + 1 \in 1..N /\ (n + 1) - 1 = n /\ own[n] \in Seq(Nat) /\ n + 1 \in Nat /\ n + 1 \in 0..N
            BY <1>1, <2>2
        <3>2. own[n + 1] = OwnAdd(c, p, own[n], n + 1)
            BY <1>12, <3>1
        <3> HIDE DEF own
        <3>3. own[n + 1] \in Seq(Nat)
            BY <3>1, <3>2, OwnAddType
        <3> QED BY <3>1, <3>3
    <2> HIDE DEF T, N
    <2>3. \A n \in 0..N : n \in T
        BY <1>1, <2>1, <2>2, UpTo
    <2> QED BY <2>3 DEF T
<1>14. own[N] = g[DOMAIN id]
    BY <1>1, <1>6
<1>15. own \in [0..N -> Seq(Nat)]
    BY <1>13
<1> HIDE DEF own
<1>16. OwnRun(own, c, p)
    BY <1>11, <1>12, <1>15 DEF OwnRun
<1> QED BY <1>10, <1>14, <1>16

(* Strictly increasing. *)
Increasing(s) == \A j, k \in DOMAIN s : j < k => s[j] < s[k]

(* The first inputs of the sender were found, in order, where s says, and the
   other inputs seen so far are signed. *)
Matched(c, ins, s, n) ==
    /\ Len(s) <= Len(SentIn(c))
    /\ \A k \in DOMAIN s : s[k] \in 1..n /\ OurInput(c, k, ins[s[k]])
    /\ Increasing(s)
    /\ \A i \in 1..n : (\A k \in DOMAIN s : s[k] # i) => TheirInput(c, ins[i])

(* The two loops go in step: what check_inputs counts is what OwnInputs collects. *)
LEMMA MatchedMore ==
    ASSUME NEW c, SentIn(c) \in Seq(Inputs), NEW p, NEW s \in Seq(Nat), NEW n \in Nat,
           NEW a \in InputRuns, a.next = Len(s) + 1,
           a.ok => Matched(c, p.inputs, s, n)
    PROVE  /\ CheckInput(c, a, p.inputs[n + 1]).next = Len(OwnAdd(c, p, s, n + 1)) + 1
           /\ CheckInput(c, a, p.inputs[n + 1]).ok =>
                 Matched(c, p.inputs, OwnAdd(c, p, s, n + 1), n + 1)
<1> DEFINE x == p.inputs[n + 1]
           m == Len(s) + 1
           t == OwnAdd(c, p, s, n + 1)
           b == CheckInput(c, a, x)
           I == p.inputs
<1>1. /\ b.next = IF Ours(c, m, x) THEN m + 1 ELSE m
      /\ b.ok => a.ok /\ IF Ours(c, m, x) THEN OurInput(c, m, x) ELSE TheirInput(c, x)
    <2>1. a.next = m
        OBVIOUS
    <2> HIDE DEF x, m
    <2> QED BY <2>1, CheckInputStep DEF b
<1>2. Len(s) \in Nat /\ DOMAIN s = 1..Len(s) /\ DOMAIN SentIn(c) = 1..Len(SentIn(c)) /\ Len(SentIn(c)) \in Nat
      /\ m \in Nat
    OBVIOUS
<1>3. Ours(c, m, x) <=> Len(s) < Len(SentIn(c)) /\ x.outpoint = SentIn(c)[m].outpoint
    <2>1. m \in DOMAIN SentIn(c) <=> Len(s) < Len(SentIn(c))
        BY <1>2
    <2> HIDE DEF x, m
    <2> QED BY <2>1 DEF Ours
<1> HIDE DEF b, I
<1>4. CASE Ours(c, m, x)
    <2>1. t = Append(s, n + 1)
        BY <1>3, <1>4, Zenon DEF OwnAdd
    <2>2. /\ t \in Seq(Nat) /\ Len(t) = m /\ DOMAIN t = 1..m /\ t[m] = n + 1
          /\ \A k \in DOMAIN s : t[k] = s[k]
        <3>1. /\ Append(s, n + 1) \in Seq(Nat) /\ Len(Append(s, n + 1)) = Len(s) + 1
              /\ Append(s, n + 1)[Len(s) + 1] = n + 1
              /\ \A k \in 1..Len(s) : Append(s, n + 1)[k] = s[k]
            OBVIOUS
        <3> HIDE DEF t
        <3> QED BY <1>2, <2>1, <3>1
    <2> HIDE DEF t
    <2>3. ASSUME b.ok PROVE Matched(c, I, t, n + 1)
        <3>1. a.ok /\ OurInput(c, m, I[n + 1])
            BY <1>1, <1>4, <2>3 DEF I
        <3>2. Matched(c, I, s, n)
            BY <3>1 DEF I
        <3>3. Len(t) <= Len(SentIn(c))
            BY <1>2, <1>3, <1>4, <2>2
        <3>4. ASSUME NEW k \in DOMAIN t PROVE t[k] \in 1..(n + 1) /\ OurInput(c, k, I[t[k]])
            <4>1. CASE k = m
                <5>1. t[k] = n + 1 /\ n + 1 \in 1..(n + 1)
                    BY <2>2, <4>1
                <5> QED BY <3>1, <4>1, <5>1
            <4>2. CASE k # m
                <5>1. k \in DOMAIN s /\ t[k] = s[k]
                    BY <1>2, <2>2, <4>2
                <5>2. s[k] \in 1..n /\ OurInput(c, k, I[s[k]])
                    BY <3>2, <5>1 DEF Matched
                <5> QED BY <5>1, <5>2
            <4> QED BY <4>1, <4>2
        <3>5. ASSUME NEW j \in DOMAIN t, NEW k \in DOMAIN t, j < k PROVE t[j] < t[k]
            <4>1. j \in DOMAIN s /\ t[j] = s[j] /\ s[j] \in 1..n
                <5>1. j \in DOMAIN s
                    BY <1>2, <2>2, <3>5
                <5> QED BY <2>2, <3>2, <5>1 DEF Matched
            <4>2. CASE k = m
                BY <2>2, <4>1, <4>2
            <4>3. CASE k # m
                <5>1. k \in DOMAIN s /\ t[k] = s[k]
                    BY <1>2, <2>2, <4>3
                <5> QED BY <3>2, <3>5, <4>1, <5>1 DEF Matched, Increasing
            <4> QED BY <4>2, <4>3
        <3>6. ASSUME NEW i \in 1..(n + 1), \A k \in DOMAIN t : t[k] # i PROVE TheirInput(c, I[i])
            <4>1. i # n + 1
                <5>1. m \in DOMAIN t
                    BY <1>2, <2>2
                <5> QED BY <2>2, <3>6, <5>1
            <4>2. i \in 1..n
                BY <4>1
            <4>3. \A k \in DOMAIN s : s[k] # i
                <5>1. \A k \in DOMAIN s : k \in DOMAIN t
                    BY <1>2, <2>2
                <5> QED BY <2>2, <3>6, <5>1
            <4> QED BY <3>2, <4>2, <4>3 DEF Matched
        <3> QED BY <3>3, <3>4, <3>5, <3>6 DEF Matched, Increasing
    <2>4. b.next = Len(t) + 1
        BY <1>1, <1>4, <2>2
    <2> QED BY <2>3, <2>4 DEF t, b, I
<1>5. CASE ~ Ours(c, m, x)
    <2>1. t = s
        BY <1>3, <1>5, Zenon DEF OwnAdd
    <2>3. ASSUME b.ok PROVE Matched(c, I, s, n + 1)
        <3>1. a.ok /\ TheirInput(c, I[n + 1])
            BY <1>1, <1>5, <2>3 DEF I
        <3>2. Matched(c, I, s, n)
            BY <3>1 DEF I
        <3>3. \A k \in DOMAIN s : s[k] \in 1..(n + 1) /\ OurInput(c, k, I[s[k]])
            BY <3>2 DEF Matched
        <3>4. ASSUME NEW i \in 1..(n + 1), \A k \in DOMAIN s : s[k] # i PROVE TheirInput(c, I[i])
            <4>1. CASE i = n + 1
                BY <3>1, <4>1
            <4>2. CASE i # n + 1
                <5>1. i \in 1..n
                    BY <4>2
                <5> QED BY <3>2, <3>4, <5>1 DEF Matched
            <4> QED BY <4>1, <4>2
        <3> QED BY <3>2, <3>3, <3>4 DEF Matched
    <2>4. b.next = Len(s) + 1
        BY <1>1, <1>5
    <2> QED BY <2>1, <2>3, <2>4 DEF b, I
<1> QED BY <1>4, <1>5

(* A proposal that passes check_inputs has the sender's inputs where OwnInputs
   finds them. *)
LEMMA InputsMatched ==
    ASSUME NEW c \in Contexts, NEW p \in PSBTs, check_inputs(c, p),
           NEW own, own = OwnInputs(c.original_psbt, p)
    PROVE  own \in Seq(Nat) /\ Len(own) = Len(SentIn(c)) /\ Matched(c, p.inputs, own, Len(p.inputs))
<1>1. PICK acc : /\ InputRun(acc, c, p.inputs)
                 /\ acc[Len(p.inputs)].ok
                 /\ acc[Len(p.inputs)].next > Len(SentIn(c))
    BY InputRunExists
<1>2. PICK run : OwnRun(run, c, p) /\ run[Len(p.inputs)] = own
    BY OwnRunExists
<1> DEFINE N == Len(p.inputs)
           T == {n \in 0..N : /\ acc[n].next = Len(run[n]) + 1
                              /\ acc[n].ok => Matched(c, p.inputs, run[n], n)}
<1>3. N \in Nat /\ SentIn(c) \in Seq(Inputs) /\ Len(SentIn(c)) \in Nat
    <2>1. c.original_psbt \in PSBTs
        BY DEF Contexts
    <2> QED BY <2>1, PsbtType DEF SentIn
<1>4. \A n \in 0..N : acc[n] \in InputRuns /\ run[n] \in Seq(Nat)
    BY <1>1, <1>2 DEF InputRun, OwnRun
<1>5. 0 \in T
    <2>1. acc[0].next = 1 /\ run[0] = <<>> /\ 0 \in 0..N
        BY <1>1, <1>2, <1>3 DEF InputRun, OwnRun, StartInputs
    <2>2. Matched(c, p.inputs, <<>>, 0)
        BY <1>3 DEF Matched, Increasing
    <2> QED BY <2>1, <2>2
<1>6. ASSUME NEW n \in 0..(N - 1), n \in T PROVE n + 1 \in T
    <2>1. n \in Nat /\ n \in 0..N /\ n + 1 \in 0..N /\ n + 1 \in 1..N /\ (n + 1) - 1 = n
        BY <1>3
    <2>2. acc[n + 1] = CheckInput(c, acc[n], p.inputs[n + 1])
        BY <1>1, <2>1 DEF InputRun
    <2>3. run[n + 1] = OwnAdd(c, p, run[n], n + 1)
        BY <1>2, <2>1 DEF OwnRun
    <2>4. acc[n].next = Len(run[n]) + 1 /\ (acc[n].ok => Matched(c, p.inputs, run[n], n))
        BY <1>6
    <2>5. /\ acc[n + 1].next = Len(run[n + 1]) + 1
          /\ acc[n + 1].ok => Matched(c, p.inputs, run[n + 1], n + 1)
        <3>1. acc[n] \in InputRuns /\ run[n] \in Seq(Nat)
            BY <1>4, <2>1
        <3>2. /\ CheckInput(c, acc[n], p.inputs[n + 1]).next = Len(OwnAdd(c, p, run[n], n + 1)) + 1
              /\ CheckInput(c, acc[n], p.inputs[n + 1]).ok =>
                    Matched(c, p.inputs, OwnAdd(c, p, run[n], n + 1), n + 1)
            BY <1>3, <2>1, <2>4, <3>1, MatchedMore, Zenon
        <3> QED BY <2>2, <2>3, <3>2, Zenon
    <2> QED BY <2>1, <2>5
<1>7. N \in T
    <2>1. N \in 0..N
        BY <1>3
    <2> HIDE DEF T, N
    <2> QED BY <1>3, <1>5, <1>6, <2>1, UpTo
<1>8. Matched(c, p.inputs, own, N) /\ acc[N].next = Len(own) + 1
    BY <1>1, <1>2, <1>7
<1>9. own \in Seq(Nat) /\ Len(own) \in Nat
    BY <1>2, <1>3, <1>4
<1>10. Len(own) = Len(SentIn(c))
    <2>1. Len(own) <= Len(SentIn(c))
        BY <1>8 DEF Matched
    <2> QED BY <1>1, <1>3, <1>8, <1>9, <2>1
<1> QED BY <1>8, <1>9, <1>10

-----------------------------------------------------------------------------
(* SenderInputsKept *)

(* An increasing sequence has each element once. *)
LEMMA IndexInIncreasing ==
    ASSUME NEW s \in Seq(Nat), Increasing(s), NEW k \in DOMAIN s
    PROVE  IndexIn(s, s[k]) = k
<1>1. \A j \in DOMAIN s : s[j] \in Nat /\ j \in Nat
    OBVIOUS
<1>2. \A j \in DOMAIN s : s[j] = s[k] => j = k
    BY <1>1 DEF Increasing
<1> QED BY <1>2 DEF IndexIn

(* The fields of a restored input: the sender's own, less the signatures. *)
LEMMA RestoredFields ==
    ASSUME NEW x \in SUBSET AllFields, NEW y \in SUBSET AllFields,
           {"bip32_derivation", "partial_sigs"} \intersect x = {}, "final" \notin x, "sighash_single" \notin x,
           "sighash_single" \notin y
    PROVE  (x \ {"utxo", "bip32_derivation"}) \union (y \intersect {"utxo", "bip32_derivation"})
              = y \ {"final", "partial_sigs"}
BY DEF AllFields

(* An accepted proposal keeps the sender's inputs. *)
LEMMA AcceptedInputs ==
    ASSUME TypeInv
    PROVE  SenderInputsKept
<1>1. SUFFICES ASSUME stage = "Accepted" PROVE SenderInputsKept
    BY DEF SenderInputsKept
<1>2. GoodContext(context) /\ context \in Contexts
    BY <1>1 DEF TypeInv, ContextInv, GoodContext
<1>3. PICK p \in PSBTs : Acceptable(context, p) /\ proposal = Restored(context, p)
    BY <1>1 DEF TypeInv, VerdictInv
<1>4. check_inputs(context, p)
    BY <1>3, Zenon DEF Acceptable
<1> DEFINE own == OwnInputs(context.original_psbt, p)
           N == Len(p.inputs)
           sent == SentIn(context)
<1>5. own \in Seq(Nat) /\ Len(own) = Len(sent) /\ Matched(context, p.inputs, own, N)
    BY <1>2, <1>4, InputsMatched
<1>6. /\ DOMAIN proposal.inputs = DOMAIN p.inputs
      /\ \A i \in DOMAIN p.inputs :
            /\ proposal.inputs[i].outpoint = p.inputs[i].outpoint
            /\ proposal.inputs[i].sequence = p.inputs[i].sequence
            /\ proposal.inputs[i].fields =
                  IF i \notin ToSet(own) THEN p.inputs[i].fields
                  ELSE (p.inputs[i].fields \ {"utxo", "bip32_derivation"}) \union
                       (sent[IndexIn(own, i)].fields \intersect {"utxo", "bip32_derivation"})
    <2>1. InputsRestored(proposal.inputs, context, p, own)
        BY <1>3, RestoredInputs, Zenon
    <2> QED BY <2>1, Zenon DEF InputsRestored, SentIn
<1>7. /\ sent \in Seq(Inputs) /\ p.inputs \in Seq(Inputs) /\ N \in Nat
      /\ DOMAIN sent = 1..Len(sent) /\ DOMAIN p.inputs = 1..N
    <2>1. context.original_psbt \in PSBTs
        BY <1>2 DEF Contexts
    <2> QED BY <2>1, PsbtType DEF SentIn
<1>8. SentInputs = sent
    BY DEF SentInputs, SentIn
<1> HIDE DEF own, N, sent
<1>9. DOMAIN own = DOMAIN sent /\ \A k \in DOMAIN own : own[k] \in DOMAIN p.inputs /\ own[k] \in Nat
    <2>1. DOMAIN own = 1..Len(own)
        BY <1>5
    <2>2. \A k \in DOMAIN own : own[k] \in 1..N
        BY <1>5 DEF Matched
    <2> QED BY <1>5, <1>7, <2>1, <2>2
<1>10. Increasing(own)
    BY <1>5 DEF Matched
<1>11. own \in Embeddings(SentInputs, proposal.inputs)
    <2>1. own \in [DOMAIN sent -> DOMAIN proposal.inputs]
        <3>1. own = [k \in DOMAIN own |-> own[k]]
            BY <1>5
        <3> QED BY <1>6, <1>9, <3>1
    <2>2. \A j, k \in DOMAIN sent : own[j] = own[k] => j = k
        <3>1. \A j \in DOMAIN sent : j \in Nat
            BY <1>7
        <3> QED BY <1>9, <1>10, <3>1 DEF Increasing
    <2>3. own \in Injection(DOMAIN SentInputs, DOMAIN proposal.inputs)
        BY <1>8, <2>1, <2>2 DEF Injection, IsInjective
    <2> QED BY <1>8, <1>9, <1>10, <2>3, Zenon DEF Embeddings, Increasing
<1>12. ASSUME NEW i \in DOMAIN SentInputs
       PROVE  /\ proposal.inputs[own[i]].outpoint = SentInputs[i].outpoint
              /\ proposal.inputs[own[i]].sequence = SentInputs[i].sequence
              /\ proposal.inputs[own[i]].fields = SentInputs[i].fields \ {"final", "partial_sigs"}
    <2>1. i \in DOMAIN own /\ own[i] \in DOMAIN p.inputs /\ i \in DOMAIN sent
        BY <1>8, <1>9
    <2>2. OurInput(context, i, p.inputs[own[i]])
        BY <1>5, <2>1 DEF Matched
    <2>3. own[i] \in ToSet(own) /\ IndexIn(own, own[i]) = i
        BY <1>5, <1>10, <2>1, IndexInIncreasing DEF ToSet
    <2> DEFINE x == p.inputs[own[i]].fields
               y == sent[i].fields
    <2>4. proposal.inputs[own[i]].fields =
              (x \ {"utxo", "bip32_derivation"}) \union (y \intersect {"utxo", "bip32_derivation"})
        BY <1>6, <2>1, <2>3, Zenon
    <2>5. x \in SUBSET AllFields /\ y \in SUBSET AllFields
        <3>1. p.inputs[own[i]] \in Inputs /\ sent[i] \in Inputs
            BY <1>7, <2>1
        <3> QED BY <3>1 DEF Inputs, AllFields
    <2>6. "sighash_single" \notin y
        BY <1>2, <2>1 DEF GoodContext, SignsEverything, SentIn, sent
    <2>7. /\ {"bip32_derivation", "partial_sigs"} \intersect x = {}
          /\ "final" \notin x /\ "sighash_single" \notin x
        BY <2>2, Zenon DEF OurInput
    <2>8. (x \ {"utxo", "bip32_derivation"}) \union (y \intersect {"utxo", "bip32_derivation"})
              = y \ {"final", "partial_sigs"}
        <3> HIDE DEF x, y
        <3> QED BY <2>5, <2>6, <2>7, RestoredFields
    <2>9. /\ p.inputs[own[i]].outpoint = sent[i].outpoint
          /\ p.inputs[own[i]].sequence = sent[i].sequence
        BY <2>2 DEF OurInput, sent
    <2> QED BY <1>6, <1>8, <2>1, <2>4, <2>8, <2>9
<1>13. ASSUME NEW k \in DOMAIN proposal.inputs \ {own[i] : i \in DOMAIN SentInputs}
       PROVE  /\ "final" \in proposal.inputs[k].fields
              /\ proposal.inputs[k].sequence = SentInputs[1].sequence
    <2>1. k \in DOMAIN p.inputs /\ k \in 1..N
        BY <1>6, <1>7
    <2>2. \A i \in DOMAIN own : own[i] # k
        BY <1>8, <1>9
    <2>3. TheirInput(context, p.inputs[k])
        BY <1>5, <2>1, <2>2 DEF Matched
    <2>4. k \notin ToSet(own)
        BY <2>2 DEF ToSet
    <2>5. proposal.inputs[k].fields = p.inputs[k].fields
          /\ proposal.inputs[k].sequence = p.inputs[k].sequence
        BY <1>6, <2>1, <2>4, Zenon
    <2>6. "final" \in p.inputs[k].fields /\ p.inputs[k].sequence = sent[1].sequence
        BY <2>3 DEF TheirInput, sent
    <2> QED BY <1>8, <2>5, <2>6, Zenon
<1> QED BY <1>11, <1>12, <1>13, Zenon DEF SenderInputsKept

(* What process_proposal accepts has all the sender's inputs, in order, ready
   to be signed again (restore_original_utxos), and no other input that is
   unsigned or has another sequence number (check_inputs). *)
THEOREM InputsKeptAlways == Spec => []SenderInputsKept
<1>1. TypeInv => SenderInputsKept
    BY AcceptedInputs
<1> QED BY <1>1, TypeCorrect, PTL

-----------------------------------------------------------------------------
(* What the sender gives up *)

(* The scripts of the sender's outputs, except the payee's. *)
Mine(c) == {SentOf(c)[i].script : i \in DOMAIN SentOf(c)} \ {Payee}

(* What an output pays the sender. *)
Share(c, o) == IF o.script \in Mine(c) THEN o.value ELSE 0

Shares(c, outs) == [i \in DOMAIN outs |-> Share(c, outs[i])]

(* A share is a natural. *)
LEMMA ShareType ==
    ASSUME NEW c, NEW o \in Outputs
    PROVE  Share(c, o) \in Nat
BY OutputType DEF Share

(* So are those of all outputs. *)
LEMMA SharesType ==
    ASSUME NEW c, NEW outs \in Seq(Outputs)
    PROVE  /\ Len(outs) \in Nat /\ DOMAIN outs = 1..Len(outs)
           /\ \A i \in 1..Len(outs) : outs[i] \in Outputs /\ Shares(c, outs)[i] = Share(c, outs[i])
                                      /\ Shares(c, outs)[i] \in Nat
<1>1. \A i \in 1..Len(outs) : outs[i] \in Outputs
    OBVIOUS
<1>2. \A i \in 1..Len(outs) : Share(c, outs[i]) \in Nat
    BY <1>1, ShareType
<1> QED BY <1>1, <1>2 DEF Shares

(* What one matched output adds to the contribution. *)
LEMMA MatchGives ==
    ASSUME NEW c \in Contexts, NEW acc \in OutputRuns, NEW o \in Outputs, NEW r \in OutputRuns,
           acc.next \in 1..Len(SentOf(c)), r.ok, acc.fee \in Nat,
           acc.next <= c.fee_contribution.vout => acc.fee = 0,
           MatchesFee(c, acc, o, r) \/ MatchesPayee(c, acc, o, r) \/ MatchesOurs(c, acc, o, r)
    PROVE  /\ acc.ok /\ r.fee \in Nat
           /\ acc.next + 1 <= c.fee_contribution.vout => r.fee = 0
           /\ Share(c, SentOf(c)[acc.next]) - Share(c, o) <= r.fee - acc.fee
<1> DEFINE s == SentOf(c)[acc.next]
<1>1. s \in Outputs
    BY DEF Contexts, PSBTs, SentOf
<1>2. s.value \in Nat /\ o.value \in Nat /\ c.fee_contribution.vout \in Nat /\ acc.next \in Nat
    <2>1. c.fee_contribution.vout \in Nat /\ acc.next \in Nat
        BY DEF Contexts, OutputRuns
    <2> HIDE DEF s
    <2> QED BY <1>1, <2>1, OutputType
<1>3. Share(c, o) \in Nat /\ Share(c, s) \in Nat
    <2> HIDE DEF s
    <2> QED BY <1>1, ShareType
<1> HIDE DEF s
<1>4. CASE MatchesFee(c, acc, o, r)
    <2>1. acc.next = c.fee_contribution.vout /\ acc.fee = 0
        BY <1>2, <1>4 DEF MatchesFee
    <2>2. o.script = s.script /\ acc.ok /\ r.fee = IF s.value - o.value > 0 THEN s.value - o.value ELSE acc.fee
        BY <1>4 DEF MatchesFee, Given, s
    <2>3. Share(c, s) - Share(c, o) <= r.fee
        BY <1>2, <2>1, <2>2 DEF Share
    <2> QED BY <1>2, <1>3, <2>1, <2>2, <2>3 DEF s
<1>5. CASE MatchesPayee(c, acc, o, r)
    <2>1. s.script = Payee /\ r.fee = acc.fee /\ acc.ok
        BY <1>5 DEF MatchesPayee, s
    <2>2. Share(c, s) = 0
        BY <2>1 DEF Share, Mine
    <2> QED BY <1>2, <1>3, <2>1, <2>2 DEF s
<1>6. CASE MatchesOurs(c, acc, o, r)
    <2>1. o.script = s.script /\ r.fee = acc.fee /\ acc.ok /\ s.value - o.value <= 0
        BY <1>6 DEF MatchesOurs, Given, s
    <2>2. Share(c, s) <= Share(c, o)
        BY <1>2, <2>1 DEF Share
    <2> QED BY <1>2, <1>3, <2>1, <2>2 DEF s
<1> QED BY <1>4, <1>5, <1>6

(* The sum of the first n. *)
SumTo(w, n) == SumFunctionOnSet(w, 1..n)

(* What the sender's outputs matched so far pay less is in the contribution. *)
GivenUp(c, outs, acc, n) ==
    /\ acc[n].fee \in Nat
    /\ acc[n].next <= c.fee_contribution.vout => acc[n].fee = 0
    /\ acc[n].next - 1 <= Len(SentOf(c))
    /\ SumTo(Shares(c, SentOf(c)), acc[n].next - 1) - SumTo(Shares(c, outs), n) <= acc[n].fee

(* A sum of shares and the next one. *)
LEMMA SumToType ==
    ASSUME NEW c, NEW outs \in Seq(Outputs), NEW n \in 0..Len(outs)
    PROVE  /\ SumTo(Shares(c, outs), n) \in Int
           /\ n < Len(outs) => /\ outs[n + 1] \in Outputs
                               /\ SumTo(Shares(c, outs), n + 1) =
                                    Share(c, outs[n + 1]) + SumTo(Shares(c, outs), n)
<1> DEFINE w == Shares(c, outs)
<1>1. /\ Len(outs) \in Nat /\ n \in Nat
      /\ \A i \in 1..Len(outs) : outs[i] \in Outputs /\ w[i] = Share(c, outs[i]) /\ w[i] \in Nat
    BY SharesType
<1> HIDE DEF w
<1>2. SumFunctionOnSet(w, 1..n) \in Int
    <2>1. IsFiniteSet(1..n)
        BY <1>1, FS_Interval
    <2>2. \A i \in 1..n : w[i] \in Int
        BY <1>1
    <2> QED BY <2>1, <2>2, SumType DEF IntOn
<1>3. ASSUME n < Len(outs)
      PROVE  outs[n + 1] \in Outputs /\ SumFunctionOnSet(w, 1..(n + 1)) = Share(c, outs[n + 1]) + SumFunctionOnSet(w, 1..n)
    <2>1. n + 1 \in 1..Len(outs)
        BY <1>1, <1>3
    <2>2. \A i \in 1..(n + 1) : w[i] \in Int
        BY <1>1, <1>3
    <2>3. SumFunctionOnSet(w, 1..(n + 1)) = w[n + 1] + SumFunctionOnSet(w, 1..n)
        BY <1>1, <2>2, SumNext
    <2> QED BY <1>1, <2>1, <2>3
<1> QED BY <1>2, <1>3, Zenon DEF SumTo, w

(* Adding two differences. *)
LEMMA Balance ==
    ASSUME NEW a \in Int, NEW b \in Int, NEW x \in Int, NEW y \in Int, NEW f \in Int, NEW g \in Int,
           a - b <= f, x - y <= g - f
    PROVE  (x + a) - (y + b) <= g
OBVIOUS

(* One more output: what it pays less is in the contribution. *)
LEMMA GivenUpMore ==
    ASSUME NEW c \in Contexts, NEW outs \in Seq(Outputs), NEW acc, OutputRun(acc, c, outs),
           NEW n \in 0..(Len(outs) - 1), acc[n].ok => GivenUp(c, outs, acc, n), acc[n + 1].ok
    PROVE  GivenUp(c, outs, acc, n + 1)
<1> DEFINE S == SentOf(c)
           a == acc[n]
           b == acc[n + 1]
           o == outs[n + 1]
           m == a.next - 1
<1>1. Len(outs) \in Nat /\ n \in 0..Len(outs) /\ n < Len(outs) /\ n + 1 \in 1..Len(outs) /\ n + 1 \in 0..Len(outs)
      /\ (n + 1) - 1 = n
    OBVIOUS
<1>2. a \in OutputRuns /\ b \in OutputRuns /\ b = CheckOutput(c, a, o)
    BY <1>1 DEF OutputRun
<1>3. /\ o \in Outputs /\ SumTo(Shares(c, outs), n) \in Int
      /\ SumTo(Shares(c, outs), n + 1) = Share(c, o) + SumTo(Shares(c, outs), n)
    BY <1>1, SumToType
<1>4. Share(c, o) \in Nat
    BY <1>3, ShareType
<1>5. /\ S \in Seq(Outputs) /\ Len(S) \in Nat
      /\ a.next \in Nat \ {0} /\ m \in Nat /\ a.fee \in Int /\ m + 1 = a.next
    <2>1. S \in Seq(Outputs)
        BY DEF Contexts, PSBTs, SentOf
    <2>2. a.next \in Nat \ {0} /\ a.fee \in Int
        BY <1>2 DEF OutputRuns
    <2> HIDE DEF S, a
    <2> QED BY <2>1, <2>2
<1> HIDE DEF a, b, o, S
<1>6. \/ b = a
      \/ /\ a.next \in 1..Len(S) /\ b.next = a.next + 1
         /\ MatchesFee(c, a, o, b) \/ MatchesPayee(c, a, o, b) \/ MatchesOurs(c, a, o, b)
    BY <1>2, <1>3, CheckOutputCases DEF S
<1>7. CASE b = a
    <2>1. GivenUp(c, outs, acc, n)
        BY <1>7 DEF a, b
    <2>2. SumTo(Shares(c, S), m) \in Int
        <3>1. m \in 0..Len(S)
            BY <1>5, <2>1 DEF GivenUp, a, S
        <3> QED BY <1>5, <3>1, SumToType
    <2>3. SumTo(Shares(c, S), m) - SumTo(Shares(c, outs), n) <= a.fee
        BY <2>1 DEF GivenUp, a, S
    <2>4. SumTo(Shares(c, S), m) - SumTo(Shares(c, outs), n + 1) <= a.fee
        BY <1>3, <1>4, <1>5, <2>2, <2>3
    <2> QED BY <1>7, <2>1, <2>4 DEF GivenUp, a, b, S
<1>8. CASE /\ a.next \in 1..Len(S) /\ b.next = a.next + 1
           /\ MatchesFee(c, a, o, b) \/ MatchesPayee(c, a, o, b) \/ MatchesOurs(c, a, o, b)
    <2>1. a.ok
        BY <1>8 DEF MatchesFee, MatchesPayee, MatchesOurs, b
    <2>2. GivenUp(c, outs, acc, n)
        BY <2>1 DEF a
    <2>3. /\ b.fee \in Nat /\ (a.next + 1 <= c.fee_contribution.vout => b.fee = 0)
          /\ Share(c, S[a.next]) - Share(c, o) <= b.fee - a.fee
        <3>1. a.fee \in Nat /\ (a.next <= c.fee_contribution.vout => a.fee = 0) /\ b.ok
            BY <2>2 DEF GivenUp, a, b
        <3> QED BY <1>2, <1>3, <1>8, <3>1, MatchGives DEF S
    <2>4. m \in 0..Len(S) /\ m < Len(S)
        BY <1>5, <1>8
    <2>5. /\ SumTo(Shares(c, S), m) \in Int /\ S[a.next] \in Outputs
          /\ SumTo(Shares(c, S), a.next) = Share(c, S[a.next]) + SumTo(Shares(c, S), m)
        <3> HIDE DEF m
        <3>1. /\ SumTo(Shares(c, S), m) \in Int /\ S[m + 1] \in Outputs
              /\ SumTo(Shares(c, S), m + 1) = Share(c, S[m + 1]) + SumTo(Shares(c, S), m)
            BY <1>5, <2>4, SumToType
        <3> QED BY <1>5, <3>1
    <2>6. Share(c, S[a.next]) \in Nat
        BY <2>5, ShareType
    <2>7. SumTo(Shares(c, S), m) - SumTo(Shares(c, outs), n) <= a.fee
        BY <2>2 DEF GivenUp, a, S
    <2>8. SumTo(Shares(c, S), a.next) - SumTo(Shares(c, outs), n + 1) <= b.fee
        <3> HIDE DEF m
        <3>1. SumTo(Shares(c, S), m) \in Int /\ SumTo(Shares(c, outs), n) \in Int /\ a.fee \in Int
              /\ b.fee \in Int /\ Share(c, S[a.next]) \in Int /\ Share(c, o) \in Int
            BY <1>3, <1>4, <1>5, <2>3, <2>5, <2>6
        <3>2. (Share(c, S[a.next]) + SumTo(Shares(c, S), m)) - (Share(c, o) + SumTo(Shares(c, outs), n)) <= b.fee
            BY <2>3, <2>7, <3>1, Balance, Zenon
        <3> QED BY <1>3, <2>5, <3>2, Zenon
    <2>9. b.next - 1 = a.next /\ a.next <= Len(S)
        BY <1>5, <1>8
    <2> QED BY <1>8, <2>3, <2>8, <2>9 DEF GivenUp, b, S
<1> QED BY <1>6, <1>7, <1>8

(* What the sender's outputs pay less is at most the contribution check_outputs
   returns. *)
LEMMA ContributionBound ==
    ASSUME NEW c \in Contexts, NEW p \in PSBTs, check_outputs(c, p).ok
    PROVE  /\ check_outputs(c, p).fee \in Nat
           /\ SumFunctionOnSet(Shares(c, SentOf(c)), DOMAIN SentOf(c)) \in Int
           /\ SumFunctionOnSet(Shares(c, p.outputs), DOMAIN p.outputs) \in Int
           /\ SumFunctionOnSet(Shares(c, SentOf(c)), DOMAIN SentOf(c))
                - SumFunctionOnSet(Shares(c, p.outputs), DOMAIN p.outputs) <= check_outputs(c, p).fee
<1> DEFINE outs == p.outputs
           N == Len(outs)
           S == SentOf(c)
<1>1. outs \in Seq(Outputs) /\ S \in Seq(Outputs) /\ N \in Nat /\ Len(S) \in Nat
      /\ DOMAIN outs = 1..N /\ DOMAIN S = 1..Len(S)
    BY DEF PSBTs, Contexts, SentOf
<1>2. PICK acc : /\ OutputRun(acc, c, outs) /\ acc[N].ok /\ acc[N].next > Len(S)
                 /\ check_outputs(c, p).fee = acc[N].fee
    BY OutputRunExists DEF SentOf
<1> HIDE DEF outs, N, S
<1> DEFINE T == {n \in 0..N : acc[n].ok => GivenUp(c, outs, acc, n)}
<1>3. 0 \in T
    <2>1. acc[0].fee = 0 /\ acc[0].next = 1
        BY <1>2 DEF OutputRun, StartOutputs
    <2>2. SumTo(Shares(c, S), 0) = 0 /\ SumTo(Shares(c, outs), 0) = 0
        <3>1. 1..0 = {}
            OBVIOUS
        <3> QED BY <3>1, SumEmpty DEF SumTo
    <2>3. acc[0].next - 1 = 0 /\ 0 <= Len(S)
        BY <1>1, <2>1
    <2>4. GivenUp(c, outs, acc, 0)
        BY <2>1, <2>2, <2>3 DEF GivenUp, S
    <2> QED BY <1>1, <2>4
<1>4. ASSUME NEW n \in 0..(N - 1), n \in T PROVE n + 1 \in T
    <2>1. n + 1 \in 0..N
        BY <1>1
    <2>2. acc[n].ok => GivenUp(c, outs, acc, n)
        BY <1>4
    <2>3. acc[n + 1].ok => GivenUp(c, outs, acc, n + 1)
        BY <1>1, <1>2, <2>2, GivenUpMore DEF N
    <2> QED BY <2>1, <2>3
<1>5. GivenUp(c, outs, acc, N)
    <2>1. N \in 0..N
        BY <1>1
    <2> HIDE DEF T
    <2>2. N \in T
        BY <1>1, <1>3, <1>4, <2>1, UpTo
    <2> QED BY <1>2, <2>2 DEF T
<1>6. acc[N].next - 1 = Len(S)
    <2>1. acc[N].next \in Nat
        <3>1. N \in 0..N
            BY <1>1
        <3> QED BY <1>2, <3>1 DEF OutputRun, OutputRuns, N
    <2> QED BY <1>1, <1>2, <1>5, <2>1 DEF GivenUp, S
<1>7. /\ SumTo(Shares(c, S), Len(S)) \in Int /\ SumTo(Shares(c, outs), N) \in Int
    <2>1. N \in 0..N /\ Len(S) \in 0..Len(S)
        BY <1>1
    <2> QED BY <1>1, <2>1, SumToType DEF N
<1> QED BY <1>1, <1>2, <1>5, <1>6, <1>7, Zenon DEF GivenUp, SumTo, S, outs

-----------------------------------------------------------------------------
(* Rounding *)

(* Products of naturals. *)
LEMMA ProductType ==
    ASSUME NEW a \in Nat, NEW b \in Nat
    PROVE  a * b \in Nat
OBVIOUS

(* Products are monotone. *)
LEMMA ProductMonotone ==
    ASSUME NEW a \in Int, NEW b \in Int, NEW k \in Nat, a <= b
    PROVE  a * k <= b * k
<1>1. (b - a) * k >= 0
    <2>1. b - a \in Nat
        OBVIOUS
    <2> QED BY <2>1
<1>2. (b - a) * k = b * k - a * k
    OBVIOUS
<1>3. a * k \in Int /\ b * k \in Int
    OBVIOUS
<1> QED BY <1>1, <1>2, <1>3

(* A factor can be cancelled. *)
LEMMA ProductCancels ==
    ASSUME NEW a \in Int, NEW b \in Int, NEW k \in Nat \ {0}, a * k < b * k
    PROVE  a < b
<1> SUFFICES ASSUME b <= a PROVE FALSE
    OBVIOUS
<1>1. b * k <= a * k
    BY ProductMonotone
<1>2. a * k \in Int /\ b * k \in Int
    OBVIOUS
<1> QED BY <1>1, <1>2

(* A remainder is at most the number. *)
LEMMA ModAtMost ==
    ASSUME NEW x \in Nat, NEW m \in Nat \ {0}
    PROVE  x % m \in Nat /\ x % m <= x
OBVIOUS

(* Division rounds down. *)
LEMMA DivRounds ==
    ASSUME NEW x \in Nat, NEW m \in Nat \ {0}
    PROVE  x \div m \in Nat /\ (x \div m) * m <= x
OBVIOUS

(* A fee is rounded up by less than one, whether or not the product wraps. *)
LEMMA FeeRounds ==
    ASSUME NEW w \in Nat, NEW r \in Nat
    PROVE  FeeAt(w, r) \in Nat /\ FeeAt(w, r) * Scale <= w * r + Scale - 1
<1> DEFINE x == w * r
           y == (x % Word) + Scale - 1
<1>1. Scale \in Nat \ {0} /\ Word \in Nat \ {0}
    BY PsbtsAssumption
<1>2. x \in Nat
    BY ProductType
<1> HIDE DEF x
<1>3. x % Word \in Nat /\ x % Word <= x
    BY <1>1, <1>2, ModAtMost
<1>4. y \in Nat /\ y <= x + Scale - 1
    BY <1>1, <1>2, <1>3
<1> HIDE DEF y
<1>5. y % Word \in Nat /\ y % Word <= y
    BY <1>1, <1>4, ModAtMost
<1>6. (y % Word) \div Scale \in Nat /\ ((y % Word) \div Scale) * Scale <= y % Word
    BY <1>1, <1>5, DivRounds
<1>7. FeeAt(w, r) = (y % Word) \div Scale
    BY DEF FeeAt, x, y
<1> DEFINE f == FeeAt(w, r) * Scale
<1>8. f <= y % Word /\ f \in Nat
    BY <1>1, <1>6, <1>7, ProductType
<1> HIDE DEF f
<1>9. f <= x + Scale - 1
    BY <1>1, <1>2, <1>4, <1>5, <1>8
<1> QED BY <1>6, <1>7, <1>9 DEF f, x

(* A rate is rounded down. *)
LEMMA RateRounds ==
    ASSUME NEW f \in Nat, NEW t \in Nat \ {0}
    PROVE  RateOf(f, t) \in Nat /\ RateOf(f, t) * t <= f * Scale
<1>1. Scale \in Nat \ {0}
    BY PsbtsAssumption
<1>2. f * Scale \in Nat
    BY <1>1, ProductType
<1> QED BY <1>2, DivRounds DEF RateOf

(* At the rate of the Original PSBT, rounded down, a fee rounded up is less
   than a unit above the exact one. *)
LEMMA FeeAtRate ==
    ASSUME NEW w \in Nat, NEW f \in Nat, NEW t \in Nat \ {0}
    PROVE  FeeAt(w, RateOf(f, t)) \in Nat /\ FeeAt(w, RateOf(f, t)) * t < w * f + t
<1> DEFINE r == RateOf(f, t)
           g == FeeAt(w, r)
           s == Scale
<1>1. s \in Nat \ {0}
    BY PsbtsAssumption
<1>2. r \in Nat /\ r * t <= f * s
    BY RateRounds
<1> HIDE DEF r
<1>3. g \in Nat /\ g * s <= w * r + s - 1
    BY <1>2, FeeRounds
<1> HIDE DEF g, s
<1>4. (g * s) * t <= (w * r + s - 1) * t
    <2>1. g * s \in Int /\ w * r + s - 1 \in Int
        BY <1>1, <1>2, <1>3
    <2> DEFINE a == g * s
               b == w * r + s - 1
    <2>2. a <= b
        BY <1>3
    <2> HIDE DEF a, b
    <2> QED BY <2>1, <2>2, ProductMonotone DEF a, b
<1>5. (w * r + s - 1) * t = w * (r * t) + (s - 1) * t
    BY <1>1, <1>2
<1>6. w * (r * t) <= w * (f * s)
    <2> DEFINE a == r * t
               b == f * s
    <2>1. a \in Int /\ b \in Int /\ a <= b
        BY <1>1, <1>2
    <2> HIDE DEF a, b
    <2>2. a * w <= b * w
        BY <2>1, ProductMonotone
    <2>3. a * w = w * a /\ b * w = w * b
        BY <2>1
    <2> QED BY <2>2, <2>3 DEF a, b
<1>7. (s - 1) * t < s * t
    <2>1. (s - 1) * t = s * t - t
        BY <1>1
    <2>2. s * t \in Int
        BY <1>1
    <2> QED BY <2>1, <2>2
<1>8. (g * s) * t < w * (f * s) + s * t
    <2> DEFINE A == (g * s) * t
               B == w * (r * t)
               C == w * (f * s)
               D == (s - 1) * t
               E == s * t
    <2>1. A \in Int /\ B \in Int /\ C \in Int /\ D \in Int /\ E \in Int
        BY <1>1, <1>2, <1>3
    <2>2. A <= B + D /\ B <= C /\ D < E
        BY <1>4, <1>5, <1>6, <1>7
    <2> HIDE DEF A, B, C, D, E
    <2>3. A < C + E
        BY <2>1, <2>2
    <2> QED BY <2>3 DEF A, C, E
<1>9. (g * t) * s < (w * f + t) * s
    <2>1. (g * s) * t = (g * t) * s
        BY <1>1, <1>3
    <2>2. w * (f * s) + s * t = (w * f + t) * s
        BY <1>1
    <2> QED BY <1>8, <2>1, <2>2
<1>10. g * t < w * f + t
    <2> DEFINE a == g * t
               b == w * f + t
    <2>1. a \in Int /\ b \in Int
        BY <1>3
    <2>2. a * s < b * s
        BY <1>9
    <2> HIDE DEF a, b
    <2>3. a < b
        BY <1>1, <2>1, <2>2, ProductCancels
    <2> QED BY <2>3 DEF a, b
<1> QED BY <1>3, <1>10 DEF g, r

-----------------------------------------------------------------------------
(* ContributionPaysInputs *)

(* What TxWeight counts for an input. *)
InputWeight(i) == IF "final" \in i.fields THEN Coin[i.outpoint].weight ELSE BareWeight

InputWeights(ins) == [i \in DOMAIN ins |-> InputWeight(ins[i])]

(* A transaction has a weight. *)
LEMMA TxWeightType ==
    ASSUME NEW p \in PSBTs
    PROVE  TxWeight(p) \in Nat \ {0}
<1>1. p.inputs \in Seq(Inputs) /\ p.outputs \in Seq(Outputs)
    BY PsbtType
<1>2. OutputsWeight(p.outputs) \in Nat
    BY <1>1, OutputAmountType
<1>3. TxWeight(p) = Overhead + SumFunctionOnSet(InputWeights(p.inputs), DOMAIN p.inputs) + OutputsWeight(p.outputs)
    <2>1. DOMAIN InputWeights(p.inputs) = DOMAIN p.inputs
        BY DEF InputWeights
    <2>2. TxWeight(p) = Overhead + SumFunctionOnSet(InputWeights(p.inputs), DOMAIN InputWeights(p.inputs))
                         + OutputsWeight(p.outputs)
        BY Zenon DEF TxWeight, SumOf, SumFunction, InputWeights, InputWeight
    <2> QED BY <2>1, <2>2, Zenon
<1>4. SumFunctionOnSet(InputWeights(p.inputs), DOMAIN p.inputs) \in Nat
    <2>1. IsFiniteSet(DOMAIN p.inputs)
        BY <1>1, FiniteDomain
    <2>2. ASSUME NEW i \in DOMAIN p.inputs PROVE InputWeights(p.inputs)[i] \in Nat
        <3>1. p.inputs[i] \in Inputs
            BY <1>1
        <3>2. InputWeight(p.inputs[i]) \in Nat
            BY <3>1, InputType, PsbtsAssumption DEF InputWeight
        <3> QED BY <3>2 DEF InputWeights
    <2> QED BY <2>1, <2>2, SumNat
<1>5. Overhead \in Nat \ {0}
    BY PsbtsAssumption
<1> DEFINE s == SumFunctionOnSet(InputWeights(p.inputs), DOMAIN p.inputs)
           t == OutputsWeight(p.outputs)
<1> HIDE DEF s, t
<1>6. Overhead + s + t \in Nat \ {0}
    BY <1>2, <1>4, <1>5 DEF s, t
<1> QED BY <1>3, <1>6 DEF s, t

(* The inputs that are not the sender's, and their weight. *)
Theirs(c, ins) == {k \in DOMAIN ins : \A i \in DOMAIN SentIn(c) : ins[k].outpoint # SentIn(c)[i].outpoint}

(* What the weight of the inputs adds up, for all and in check_fees. *)
CoinWeight(ins) == [k \in DOMAIN ins |-> Coin[ins[k].outpoint].weight]

AddedWeight(c, ins) ==
    [k \in DOMAIN ins |-> IF Coin[ins[k].outpoint].script \in ScriptsOf(SentIn(c)) THEN 0
                          ELSE Coin[ins[k].outpoint].weight]

(* check_fees counts no more weight than the inputs have that are not the
   sender's. *)
LEMMA AddedWeightBound ==
    ASSUME NEW c, SentIn(c) \in Seq(Inputs), NEW p \in PSBTs
    PROVE  /\ AdditionalInputWeight(c, p) \in Nat
           /\ SumFunctionOnSet(CoinWeight(p.inputs), Theirs(c, p.inputs)) \in Nat
           /\ AdditionalInputWeight(c, p) <= SumFunctionOnSet(CoinWeight(p.inputs), Theirs(c, p.inputs))
<1> DEFINE ins == p.inputs
           D == DOMAIN ins
           A == Theirs(c, ins)
           v == AddedWeight(c, ins)
           w == CoinWeight(ins)
<1>1. ins \in Seq(Inputs) /\ IsFiniteSet(D)
    <2>1. ins \in Seq(Inputs)
        BY PsbtType
    <2> QED BY <2>1, FiniteDomain
<1>2. A \in SUBSET D
    BY DEF Theirs
<1>3. AdditionalInputWeight(c, p) = SumFunctionOnSet(v, D)
    <2>1. DOMAIN v = D
        BY DEF AddedWeight
    <2>2. AdditionalInputWeight(c, p) = SumFunctionOnSet(v, DOMAIN v)
        BY Zenon DEF AdditionalInputWeight, SumOf, SumFunction, AddedWeight, expected_input_weight, SentIn
    <2> QED BY <2>1, <2>2, Zenon
<1>4. ASSUME NEW k \in D
      PROVE  /\ w[k] = Coin[ins[k].outpoint].weight /\ w[k] \in Nat
             /\ v[k] = (IF Coin[ins[k].outpoint].script \in ScriptsOf(SentIn(c)) THEN 0 ELSE w[k])
             /\ v[k] \in Nat /\ v[k] <= w[k]
    <2>1. ins[k] \in Inputs
        BY <1>1
    <2>2. w[k] = Coin[ins[k].outpoint].weight /\ w[k] \in Nat
        BY <2>1, InputType DEF CoinWeight
    <2>3. v[k] = (IF Coin[ins[k].outpoint].script \in ScriptsOf(SentIn(c)) THEN 0 ELSE w[k])
        BY <2>2 DEF AddedWeight
    <2> HIDE DEF v, w
    <2>4. v[k] = 0 \/ v[k] = w[k]
        BY <2>3
    <2> QED BY <2>2, <2>3, <2>4
<1>5. \A k \in D \ A : v[k] = 0
    <2>1. ASSUME NEW k \in D \ A PROVE Coin[ins[k].outpoint].script \in ScriptsOf(SentIn(c))
        <3>1. PICK i \in DOMAIN SentIn(c) : ins[k].outpoint = SentIn(c)[i].outpoint
            BY <2>1 DEF Theirs
        <3> QED BY <3>1 DEF ScriptsOf
    <2> HIDE DEF v, D, A
    <2> QED BY <1>4, <2>1
<1> HIDE DEF ins, D, A, v, w
<1>6. IntOn(v, D) /\ IntOn(v, A) /\ IntOn(w, A) /\ IsFiniteSet(A) /\ IsFiniteSet(D \ A) /\ IntOn(v, D \ A)
    <2>1. IsFiniteSet(A) /\ IsFiniteSet(D \ A)
        BY <1>1, <1>2, FS_Subset
    <2> QED BY <1>2, <1>4, <2>1 DEF IntOn
<1>7. SumFunctionOnSet(v, D) = SumFunctionOnSet(v, A) + SumFunctionOnSet(v, D \ A)
    BY <1>1, <1>2, <1>6, SumUnion
<1>8. SumFunctionOnSet(v, D \ A) = 0
    BY <1>5, <1>6, SumZero
<1>9. SumFunctionOnSet(v, A) <= SumFunctionOnSet(w, A)
    <2>1. \A k \in A : v[k] <= w[k]
        BY <1>2, <1>4
    <2> QED BY <1>6, <2>1, SumMonotone
<1>10. SumFunctionOnSet(w, A) \in Nat /\ SumFunctionOnSet(v, A) \in Nat
    <2>1. \A k \in A : v[k] \in Nat /\ w[k] \in Nat
        BY <1>2, <1>4
    <2> QED BY <1>6, <2>1, SumNat
<1>11. SumFunctionOnSet(v, D) = SumFunctionOnSet(v, A)
    BY <1>7, <1>8, <1>10
<1> QED BY <1>3, <1>9, <1>10, <1>11 DEF ins, A, w

(* Same inputs, same fee, and the same for the sender. *)
SameTotals(c, p, q) ==
    /\ DOMAIN q.inputs = DOMAIN p.inputs
    /\ \A k \in DOMAIN p.inputs : q.inputs[k].outpoint = p.inputs[k].outpoint
    /\ Fee(q) = Fee(p)
    /\ SumFunctionOnSet(Shares(c, q.outputs), DOMAIN q.outputs)
          = SumFunctionOnSet(Shares(c, p.outputs), DOMAIN p.outputs)

(* Restored changes no total. *)
LEMMA RestoredTotals ==
    ASSUME NEW c, NEW p \in PSBTs, NEW q, q = Restored(c, p)
    PROVE  SameTotals(c, p, q)
<1> DEFINE I == DOMAIN p.inputs
           O == DOMAIN p.outputs
<1>1. InputsRestored(q.inputs, c, p, OwnInputs(c.original_psbt, p))
    BY RestoredInputs, Zenon
<1>2. DOMAIN q.inputs = I /\ \A k \in I : q.inputs[k].outpoint = p.inputs[k].outpoint
    BY <1>1, Zenon DEF InputsRestored
<1>3. DOMAIN q.outputs = O /\ \A k \in O : /\ q.outputs[k].script = p.outputs[k].script
                                           /\ q.outputs[k].value = p.outputs[k].value
    BY RestoredOutputs
<1>4. /\ p.inputs \in Seq(Inputs) /\ p.outputs \in Seq(Outputs) /\ IsFiniteSet(I) /\ IsFiniteSet(O)
    <2>1. p.inputs \in Seq(Inputs) /\ p.outputs \in Seq(Outputs)
        BY PsbtType
    <2> QED BY <2>1, FiniteDomain
<1>5. /\ \A k \in I : CoinValueOf(q.inputs)[k] = CoinValueOf(p.inputs)[k]
      /\ IntOn(CoinValueOf(p.inputs), I)
    <2>1. ASSUME NEW k \in I PROVE CoinValueOf(p.inputs)[k] \in Int
        <3>1. p.inputs[k] \in Inputs
            BY <1>4
        <3>2. Coin[p.inputs[k].outpoint].value \in Nat
            BY <3>1, InputType
        <3> QED BY <3>2 DEF CoinValueOf
    <2>2. \A k \in I : CoinValueOf(q.inputs)[k] = CoinValueOf(p.inputs)[k]
        <3> HIDE DEF I
        <3> QED BY <1>2 DEF CoinValueOf, I
    <2> QED BY <2>1, <2>2 DEF IntOn
<1>6. /\ \A k \in O : ValueOf(q.outputs)[k] = ValueOf(p.outputs)[k]
      /\ \A k \in O : Shares(c, q.outputs)[k] = Shares(c, p.outputs)[k]
      /\ IntOn(ValueOf(p.outputs), O) /\ IntOn(Shares(c, p.outputs), O)
    <2>1. ASSUME NEW k \in O PROVE ValueOf(p.outputs)[k] \in Int /\ Shares(c, p.outputs)[k] \in Int
        <3>1. p.outputs[k] \in Outputs
            BY <1>4
        <3>2. p.outputs[k].value \in Nat /\ Share(c, p.outputs[k]) \in Nat
            BY <3>1, OutputType, ShareType
        <3> QED BY <3>2 DEF ValueOf, Shares
    <2>2. ASSUME NEW k \in O
          PROVE  /\ ValueOf(q.outputs)[k] = ValueOf(p.outputs)[k]
                 /\ Shares(c, q.outputs)[k] = Shares(c, p.outputs)[k]
        <3>1. Share(c, q.outputs[k]) = Share(c, p.outputs[k])
            BY <1>3, Zenon DEF Share
        <3>2. k \in DOMAIN q.outputs /\ k \in DOMAIN p.outputs /\ q.outputs[k].value = p.outputs[k].value
            BY <1>3
        <3> HIDE DEF O
        <3> QED BY <3>1, <3>2 DEF ValueOf, Shares
    <2> QED BY <2>1, <2>2 DEF IntOn
<1> HIDE DEF I, O
<1>7. /\ SumFunctionOnSet(CoinValueOf(q.inputs), I) = SumFunctionOnSet(CoinValueOf(p.inputs), I)
      /\ SumFunctionOnSet(ValueOf(q.outputs), O) = SumFunctionOnSet(ValueOf(p.outputs), O)
      /\ SumFunctionOnSet(Shares(c, q.outputs), O) = SumFunctionOnSet(Shares(c, p.outputs), O)
    BY <1>4, <1>5, <1>6, SumSame
<1>8. InputAmount(q.inputs) = InputAmount(p.inputs) /\ OutputAmount(q.outputs) = OutputAmount(p.outputs)
    BY <1>2, <1>3, <1>7, Amounts, Zenon DEF I, O
<1>9. Fee(q) = Fee(p)
    BY <1>8, Zenon DEF Fee
<1> QED BY <1>2, <1>3, <1>7, <1>9, Zenon DEF I, O, SameTotals

(* A fee is an integer. *)
LEMMA FeeType ==
    ASSUME NEW p \in PSBTs
    PROVE  Fee(p) \in Int
<1>1. InputAmount(p.inputs) \in Nat /\ OutputAmount(p.outputs) \in Nat
    BY PsbtType, InputAmountType, OutputAmountType
<1> QED BY <1>1 DEF Fee

(* SenderTotal is the sum of the shares. *)
LEMMA SharesTotal ==
    ASSUME NEW outs
    PROVE  SenderTotal(outs) = SumFunctionOnSet(Shares(context, outs), DOMAIN outs)
<1>1. DOMAIN Shares(context, outs) = DOMAIN outs
    BY DEF Shares
<1>2. SenderTotal(outs) = SumFunctionOnSet(Shares(context, outs), DOMAIN Shares(context, outs))
    BY Zenon DEF SenderTotal, SumOf, SumFunction, Shares, Share, Mine, SentOf, SentOutputs
<1> QED BY <1>1, <1>2, Zenon

(* What check_fees and check_outputs establish together. *)
LEMMA FeesChecked ==
    ASSUME NEW c \in Contexts, NEW p \in PSBTs, Acceptable(c, p)
    PROVE  /\ check_outputs(c, p).ok /\ Fee(c.original_psbt) \in Nat
           /\ check_outputs(c, p).fee <= Fee(p) - Fee(c.original_psbt)
           /\ check_outputs(c, p).fee <=
                 FeeAt(AdditionalInputWeight(c, p), RateOf(Fee(c.original_psbt), TxWeight(c.original_psbt)))
<1>1. check_outputs(c, p).ok /\ check_fees(c, p, check_outputs(c, p).fee) /\ Fee(c.original_psbt) >= 0
    BY Zenon DEF Acceptable
<1>2. Fee(c.original_psbt) \in Int
    <2>1. c.original_psbt \in PSBTs
        BY DEF Contexts
    <2> QED BY <2>1, FeeType
<1>3. /\ check_outputs(c, p).fee <= Fee(p) - Fee(c.original_psbt)
      /\ check_outputs(c, p).fee <=
            FeeAt(AdditionalInputWeight(c, p), RateOf(Fee(c.original_psbt), TxWeight(c.original_psbt)))
    BY <1>1, Zenon DEF check_fees
<1> QED BY <1>1, <1>2, <1>3

(* The arithmetic of the two bounds. *)
LEMMA PaidAtRate ==
    ASSUME NEW given \in Int, NEW fee \in Nat, NEW cap \in Nat, NEW t \in Nat \ {0}, NEW f \in Nat,
           NEW w \in Nat, NEW x \in Nat, given <= fee, fee <= cap, cap * t < w * f + t, w <= x
    PROVE  given * t < x * f + t
<1>1. given * t <= cap * t
    BY ProductMonotone
<1>2. w * f <= x * f
    BY ProductMonotone
<1> DEFINE a == given * t  b == cap * t  d == w * f  e == x * f
<1>3. a \in Int /\ b \in Int /\ d \in Int /\ e \in Int /\ a <= b /\ d <= e /\ b < d + t
    BY <1>1, <1>2
<1> HIDE DEF a, b, d, e
<1>4. a < e + t
    BY <1>3
<1> QED BY <1>4 DEF a, e

(* An accepted proposal spends the contribution on the receiver's inputs. *)
LEMMA AcceptedContribution ==
    ASSUME TypeInv
    PROVE  ContributionPaysInputs
<1>1. SUFFICES ASSUME stage = "Accepted" PROVE ContributionPaysInputs
    BY DEF ContributionPaysInputs
<1>2. GoodContext(context) /\ context \in Contexts
    BY <1>1 DEF TypeInv, ContextInv, GoodContext
<1>3. PICK p \in PSBTs : Acceptable(context, p) /\ proposal = Restored(context, p)
    BY <1>1 DEF TypeInv, VerdictInv
<1> DEFINE orig == context.original_psbt
           fee == check_outputs(context, p).fee
           given == SenderTotal(SentOutputs) - SenderTotal(proposal.outputs)
           theirs == {k \in DOMAIN proposal.inputs :
                        \A i \in DOMAIN SentInputs : proposal.inputs[k].outpoint # SentInputs[i].outpoint}
           weights == [k \in theirs |-> Coin[proposal.inputs[k].outpoint].weight]
           w == AdditionalInputWeight(context, p)
           t == TxWeight(orig)
           f == Fee(orig)
           cap == FeeAt(w, RateOf(f, t))
           x == SumFunctionOnSet(CoinWeight(p.inputs), Theirs(context, p.inputs))
<1>4. /\ DOMAIN proposal.inputs = DOMAIN p.inputs
      /\ \A k \in DOMAIN p.inputs : proposal.inputs[k].outpoint = p.inputs[k].outpoint
      /\ Fee(proposal) = Fee(p)
      /\ SumFunctionOnSet(Shares(context, proposal.outputs), DOMAIN proposal.outputs)
            = SumFunctionOnSet(Shares(context, p.outputs), DOMAIN p.outputs)
    <2>1. SameTotals(context, p, proposal)
        BY <1>3, RestoredTotals, Zenon
    <2> QED BY <2>1, Zenon DEF SameTotals
<1>5. /\ check_outputs(context, p).ok /\ f \in Nat /\ fee <= Fee(p) - f /\ fee <= cap
    BY <1>2, <1>3, FeesChecked
<1>6. given \in Int /\ fee \in Nat /\ given <= fee
    <2> DEFINE a == SumFunctionOnSet(Shares(context, SentOf(context)), DOMAIN SentOf(context))
               b == SumFunctionOnSet(Shares(context, p.outputs), DOMAIN p.outputs)
    <2>1. fee \in Nat /\ a \in Int /\ b \in Int /\ a - b <= fee
        BY <1>2, <1>5, ContributionBound
    <2>2. SenderTotal(SentOutputs) = a
        BY SharesTotal, Zenon DEF SentOf, SentOutputs
    <2>3. SenderTotal(proposal.outputs) = b
        BY <1>4, SharesTotal, Zenon
    <2> HIDE DEF a, b, fee
    <2> QED BY <2>1, <2>2, <2>3
<1>7. t \in Nat \ {0} /\ SentIn(context) \in Seq(Inputs)
    <2>1. orig \in PSBTs
        BY <1>2 DEF Contexts
    <2> QED BY <2>1, TxWeightType, PsbtType DEF SentIn
<1>8. w \in Nat /\ x \in Nat /\ w <= x
    BY <1>7, AddedWeightBound
<1>9. SumFunction(weights) = x
    <2>1. theirs = Theirs(context, p.inputs)
        BY <1>4, Zenon DEF Theirs, SentInputs, SentIn
    <2>2. DOMAIN weights = theirs /\ SumFunction(weights) = SumFunctionOnSet(weights, DOMAIN weights)
        BY DEF SumFunction
    <2>3. theirs \in SUBSET DOMAIN p.inputs
        BY <1>4
    <2>4. \A k \in theirs : weights[k] = CoinWeight(p.inputs)[k]
        BY <1>4 DEF CoinWeight
    <2>5. IsFiniteSet(theirs) /\ IntOn(CoinWeight(p.inputs), theirs)
        <3>1. p.inputs \in Seq(Inputs)
            BY PsbtType
        <3>2. IsFiniteSet(DOMAIN p.inputs)
            BY <3>1, FiniteDomain
        <3>3. ASSUME NEW k \in DOMAIN p.inputs PROVE CoinWeight(p.inputs)[k] \in Int
            <4>1. p.inputs[k] \in Inputs
                BY <3>1
            <4>2. Coin[p.inputs[k].outpoint].weight \in Nat
                BY <4>1, InputType
            <4> QED BY <4>2 DEF CoinWeight
        <3> HIDE DEF theirs
        <3> QED BY <2>3, <3>2, <3>3, FS_Subset DEF IntOn
    <2> HIDE DEF theirs, weights
    <2>6. SumFunctionOnSet(weights, theirs) = SumFunctionOnSet(CoinWeight(p.inputs), theirs)
        BY <2>4, <2>5, SumSame
    <2> QED BY <2>1, <2>2, <2>6, Zenon
<1>10. cap \in Nat /\ cap * t < w * f + t
    <2> HIDE DEF w, f, t
    <2> QED BY <1>5, <1>7, <1>8, FeeAtRate
<1>11. given * t < x * f + t
    <2> HIDE DEF given, fee, cap, w, f, t, x
    <2> QED BY <1>5, <1>6, <1>7, <1>8, <1>10, PaidAtRate
<1>12. given <= Fee(proposal) - f
    <2>1. Fee(p) \in Int
        BY FeeType
    <2> HIDE DEF given, fee, f
    <2> QED BY <1>4, <1>5, <1>6, <2>1
<1>13. given * t < SumFunction(weights) * f + t
    BY <1>9, <1>11, Zenon
<1> QED BY <1>12, <1>13, Zenon DEF ContributionPaysInputs

(* Whatever proposal arrives, what the sender gives up in one it accepts goes
   to fees, and pays for inputs that are not its own at no more than the fee
   rate of the Original PSBT (check_fees). *)
THEOREM ContributionAlwaysPaysInputs == Spec => []ContributionPaysInputs
<1>1. TypeInv => ContributionPaysInputs
    BY AcceptedContribution
<1> QED BY <1>1, TypeCorrect, PTL

-----------------------------------------------------------------------------
(* More about sums *)

(* Different elements have different images. *)
OneToOne(f, S) == \A x, y \in S : f[x] = f[y] => x = y

(* The same function, along a renaming. *)
Along(w, v, f, S) == \A x \in S : w[x] = v[f[x]]

(* A sum can be renamed. *)
LEMMA SumImage ==
    ASSUME NEW S, IsFiniteSet(S), NEW f, OneToOne(f, S),
           NEW v, NEW w, Along(w, v, f, S), IntOn(w, S)
    PROVE  SumFunctionOnSet(v, {f[x] : x \in S}) = SumFunctionOnSet(w, S)
<1> DEFINE I(A) == {f[x] : x \in A}
           B == {A \in SUBSET S : SumFunctionOnSet(v, I(A)) # SumFunctionOnSet(w, A)}
<1>1. {} \notin B
    <2>1. I({}) = {}
        OBVIOUS
    <2>2. SumFunctionOnSet(v, I({})) = SumFunctionOnSet(v, {})
        BY <2>1, Zenon
    <2> HIDE DEF I
    <2> QED BY <2>2, SumEmpty
<1>2. ASSUME NEW A \in B PROVE \E x \in A : A \ {x} \in B
    <2>1. PICK x \in A : TRUE
        BY <1>1
    <2>2. A \in SUBSET S /\ x \in S /\ A \ {x} \in SUBSET S
        BY <2>1
    <2>3. f[x] \in I(A) /\ I(A) \ {f[x]} = I(A \ {x})
        BY <2>1, <2>2 DEF OneToOne
    <2>4. IsFiniteSet(A) /\ IsFiniteSet(I(A))
        <3>1. IsFiniteSet(A)
            BY <2>2, FS_Subset
        <3> DEFINE g == [y \in A |-> f[y]]
        <3>2. g \in Surjection(A, I(A))
            BY DEF Surjection
        <3> HIDE DEF g, I
        <3> QED BY <3>1, <3>2, FS_Surjection
    <2>5. IntOn(w, S) /\ IntOn(v, I(A))
        BY <2>2 DEF IntOn, Along
    <2>6. /\ w[x] \in Int /\ SumFunctionOnSet(w, A \ {x}) \in Int
          /\ SumFunctionOnSet(w, A) = w[x] + SumFunctionOnSet(w, A \ {x})
        <3>1. IntOn(w, S)
            BY <2>5
        <3> HIDE DEF B, I
        <3> QED BY <2>1, <2>2, <3>1, SumTakeFrom
    <2>7. /\ SumFunctionOnSet(v, I(A)) = v[f[x]] + SumFunctionOnSet(v, I(A) \ {f[x]})
          /\ SumFunctionOnSet(v, I(A) \ {f[x]}) \in Int
        <3>1. I(A) \in SUBSET I(A) /\ f[x] \in I(A) /\ IntOn(v, I(A)) /\ IsFiniteSet(I(A))
            BY <2>3, <2>4, <2>5
        <3> HIDE DEF I, B
        <3> QED BY <3>1, SumTakeFrom
    <2>8. SumFunctionOnSet(v, I(A) \ {f[x]}) = SumFunctionOnSet(v, I(A \ {x}))
        <3> HIDE DEF I, B
        <3> QED BY <2>3, Zenon
    <2>9. v[f[x]] = w[x]
        BY <2>2 DEF Along
    <2>10. SumFunctionOnSet(v, I(A)) # SumFunctionOnSet(w, A)
        OBVIOUS
    <2>11. SumFunctionOnSet(v, I(A \ {x})) # SumFunctionOnSet(w, A \ {x})
        <3> HIDE DEF I, B
        <3> QED BY <2>6, <2>7, <2>8, <2>9, <2>10
    <2> HIDE DEF I
    <2> QED BY <2>1, <2>2, <2>11, Zenon
<1>3. B \in SUBSET SUBSET S
    OBVIOUS
<1>4. B = {}
    <2> HIDE DEF B
    <2> QED BY <1>1, <1>2, <1>3, NoLeastSubset
<1>5. S \notin B
    BY <1>4
<1> HIDE DEF I
<1>6. SumFunctionOnSet(v, I(S)) = SumFunctionOnSet(w, S)
    BY <1>5
<1> QED BY <1>6 DEF I

(* A sum of sums. *)
LEMMA SumPlus ==
    ASSUME NEW S, IsFiniteSet(S), NEW u, NEW v, NEW w, IntOn(v, S), IntOn(w, S),
           \A x \in S : u[x] = v[x] + w[x]
    PROVE  SumFunctionOnSet(u, S) = SumFunctionOnSet(v, S) + SumFunctionOnSet(w, S)
<1> DEFINE B == {T \in SUBSET S : SumFunctionOnSet(u, T) # SumFunctionOnSet(v, T) + SumFunctionOnSet(w, T)}
<1>0. IntOn(u, S)
    BY DEF IntOn
<1>1. {} \notin B
    <2>1. SumFunctionOnSet(u, {}) = 0 /\ SumFunctionOnSet(v, {}) = 0 /\ SumFunctionOnSet(w, {}) = 0
        BY SumEmpty
    <2> QED BY <2>1
<1>2. ASSUME NEW T \in B PROVE \E x \in T : T \ {x} \in B
    <2>1. PICK x \in T : TRUE
        BY <1>1
    <2>2. T \in SUBSET S /\ x \in S /\ T \ {x} \in SUBSET S
        BY <2>1
    <2>3. SumFunctionOnSet(u, T) # SumFunctionOnSet(v, T) + SumFunctionOnSet(w, T)
        OBVIOUS
    <2> HIDE DEF B
    <2>4. /\ SumFunctionOnSet(u, T \ {x}) \in Int /\ SumFunctionOnSet(u, T) = u[x] + SumFunctionOnSet(u, T \ {x})
          /\ SumFunctionOnSet(v, T \ {x}) \in Int /\ SumFunctionOnSet(v, T) = v[x] + SumFunctionOnSet(v, T \ {x})
          /\ SumFunctionOnSet(w, T \ {x}) \in Int /\ SumFunctionOnSet(w, T) = w[x] + SumFunctionOnSet(w, T \ {x})
        BY <1>0, <2>1, <2>2, SumTakeFrom
    <2>5. u[x] = v[x] + w[x] /\ v[x] \in Int /\ w[x] \in Int
        BY <2>2 DEF IntOn, Along
    <2>6. SumFunctionOnSet(u, T \ {x}) # SumFunctionOnSet(v, T \ {x}) + SumFunctionOnSet(w, T \ {x})
        BY <2>3, <2>4, <2>5
    <2> QED BY <2>1, <2>2, <2>6, Zenon DEF B
<1>3. B \in SUBSET SUBSET S
    OBVIOUS
<1>4. B = {}
    <2> HIDE DEF B
    <2> QED BY <1>1, <1>2, <1>3, NoLeastSubset
<1>5. S \notin B
    BY <1>4
<1> QED BY <1>5

(* One term changes. *)
LEMMA SumChange ==
    ASSUME NEW S, IsFiniteSet(S), NEW v, NEW w, IntOn(w, S), NEW k \in S, NEW d \in Int,
           v[k] = w[k] + d, \A x \in S \ {k} : v[x] = w[x]
    PROVE  SumFunctionOnSet(w, S) \in Int /\ SumFunctionOnSet(v, S) = SumFunctionOnSet(w, S) + d
<1>1. IntOn(v, S)
    <2>1. ASSUME NEW x \in S PROVE v[x] \in Int
        <3>1. CASE x = k
            BY <3>1 DEF IntOn
        <3>2. CASE x # k
            BY <3>2 DEF IntOn
        <3> QED BY <3>1, <3>2
    <2> QED BY <2>1 DEF IntOn
<1>2. S \in SUBSET S
    OBVIOUS
<1>3. /\ SumFunctionOnSet(w, S) = w[k] + SumFunctionOnSet(w, S \ {k}) /\ SumFunctionOnSet(w, S \ {k}) \in Int
      /\ w[k] \in Int /\ SumFunctionOnSet(w, S) \in Int
    BY <1>2, SumTakeFrom
<1>4. SumFunctionOnSet(v, S) = v[k] + SumFunctionOnSet(v, S \ {k})
    BY <1>1, <1>2, SumTakeFrom
<1>5. SumFunctionOnSet(v, S \ {k}) = SumFunctionOnSet(w, S \ {k})
    <2>1. IsFiniteSet(S \ {k}) /\ IntOn(w, S \ {k})
        BY FS_Subset DEF IntOn
    <2> QED BY <2>1, SumSame
<1> QED BY <1>3, <1>4, <1>5

-----------------------------------------------------------------------------
(* What the receiver owns *)

(* What an output pays the receiver, and in total. *)
OwnShare(o) == IF o.script \in OwnScripts THEN o.value ELSE 0

OwnShares(outs) == [i \in DOMAIN outs |-> OwnShare(outs[i])]

OwnTotal(outs) == SumFunctionOnSet(OwnShares(outs), DOMAIN outs)

(* What an output pays others, and in total. *)
Rest(o) == IF o.script \in OwnScripts THEN 0 ELSE o.value

Rests(outs) == [i \in DOMAIN outs |-> Rest(outs[i])]

RestTotal(outs) == SumFunctionOnSet(Rests(outs), DOMAIN outs)

(* An output pays the receiver or others. *)
LEMMA OwnShareType ==
    ASSUME NEW o \in Outputs
    PROVE  OwnShare(o) \in Nat /\ Rest(o) \in Nat /\ o.value = OwnShare(o) + Rest(o)
<1>1. o.value \in Nat
    BY OutputType
<1> QED BY <1>1 DEF OwnShare, Rest

(* So does the total of all. *)
LEMMA SplitTotals ==
    ASSUME NEW outs \in Seq(Outputs)
    PROVE  /\ IsFiniteSet(DOMAIN outs) /\ IntOn(OwnShares(outs), DOMAIN outs) /\ IntOn(Rests(outs), DOMAIN outs)
           /\ OwnTotal(outs) \in Nat /\ RestTotal(outs) \in Nat
           /\ OutputAmount(outs) = OwnTotal(outs) + RestTotal(outs)
<1> DEFINE D == DOMAIN outs
<1>1. IsFiniteSet(D)
    BY FiniteDomain
<1>2. ASSUME NEW i \in D
      PROVE  /\ OwnShares(outs)[i] \in Nat /\ Rests(outs)[i] \in Nat
             /\ ValueOf(outs)[i] = OwnShares(outs)[i] + Rests(outs)[i]
    <2>1. outs[i] \in Outputs
        OBVIOUS
    <2>2. /\ OwnShare(outs[i]) \in Nat /\ Rest(outs[i]) \in Nat
          /\ outs[i].value = OwnShare(outs[i]) + Rest(outs[i])
        BY <2>1, OwnShareType
    <2> QED BY <2>2 DEF OwnShares, Rests, ValueOf
<1> HIDE DEF D
<1>3. IntOn(OwnShares(outs), D) /\ IntOn(Rests(outs), D)
    BY <1>2 DEF IntOn
<1>4. SumFunctionOnSet(OwnShares(outs), D) \in Nat /\ SumFunctionOnSet(Rests(outs), D) \in Nat
    BY <1>1, <1>2, SumNat
<1>5. \A i \in D : ValueOf(outs)[i] = OwnShares(outs)[i] + Rests(outs)[i]
    BY <1>2
<1>6. SumFunctionOnSet(ValueOf(outs), D) = SumFunctionOnSet(OwnShares(outs), D) + SumFunctionOnSet(Rests(outs), D)
    BY <1>1, <1>3, <1>5, SumPlus
<1>7. OutputAmount(outs) = SumFunctionOnSet(ValueOf(outs), D)
    BY Amounts DEF D
<1> QED BY <1>1, <1>3, <1>4, <1>6, <1>7, Zenon DEF OwnTotal, RestTotal, D

(* Same outputs, same totals. *)
LEMMA SameSplit ==
    ASSUME NEW old \in Seq(Outputs), NEW outs, SameOutputs(outs, old)
    PROVE  /\ OwnTotal(outs) = OwnTotal(old) /\ RestTotal(outs) = RestTotal(old)
           /\ OutputAmount(outs) = OutputAmount(old)
           /\ OutputsWeight(outs) = OutputsWeight(old)
<1> DEFINE D == DOMAIN old
<1>1. /\ outs \in Seq(Outputs) /\ DOMAIN outs = D
      /\ \A k \in D : outs[k].script = old[k].script /\ outs[k].value = old[k].value
    BY DEF SameOutputs
<1>2. ASSUME NEW k \in D
      PROVE  /\ OwnShares(outs)[k] = OwnShares(old)[k] /\ Rests(outs)[k] = Rests(old)[k]
             /\ WeightOf(outs)[k] = WeightOf(old)[k] /\ WeightOf(old)[k] \in Int
    <2>1. OwnShare(outs[k]) = OwnShare(old[k]) /\ Rest(outs[k]) = Rest(old[k])
        BY <1>1, Zenon DEF OwnShare, Rest
    <2>2. k \in DOMAIN outs /\ k \in DOMAIN old /\ outs[k].script = old[k].script
        BY <1>1
    <2>3. old[k] \in Outputs
        OBVIOUS
    <2>4. OutputWeight[old[k].script] \in Nat
        BY <2>3, OutputType, PsbtsAssumption
    <2> HIDE DEF D
    <2> QED BY <2>1, <2>2, <2>4 DEF OwnShares, Rests, WeightOf
<1>3. IsFiniteSet(D) /\ IntOn(OwnShares(old), D) /\ IntOn(Rests(old), D) /\ IntOn(WeightOf(old), D)
    <2>1. IsFiniteSet(D) /\ IntOn(OwnShares(old), D) /\ IntOn(Rests(old), D)
        BY SplitTotals
    <2> QED BY <1>2, <2>1 DEF IntOn
<1> HIDE DEF D
<1>4. /\ SumFunctionOnSet(OwnShares(outs), D) = SumFunctionOnSet(OwnShares(old), D)
      /\ SumFunctionOnSet(Rests(outs), D) = SumFunctionOnSet(Rests(old), D)
      /\ SumFunctionOnSet(WeightOf(outs), D) = SumFunctionOnSet(WeightOf(old), D)
    BY <1>2, <1>3, SumSame
<1>5. OwnTotal(outs) = OwnTotal(old) /\ RestTotal(outs) = RestTotal(old)
    BY <1>1, <1>4, Zenon DEF OwnTotal, RestTotal, D
<1>6. OutputsWeight(outs) = OutputsWeight(old)
    BY <1>1, <1>4, Amounts, Zenon DEF D
<1>7. OutputAmount(outs) = OwnTotal(outs) + RestTotal(outs) /\ OutputAmount(old) = OwnTotal(old) + RestTotal(old)
    BY <1>1, SplitTotals
<1> QED BY <1>5, <1>6, <1>7

(* One owned output is worth d more, the others what they were. *)
Shifted(outs, old, k, d) ==
    /\ DOMAIN outs = DOMAIN old /\ k \in DOMAIN old /\ old[k].script \in OwnScripts
    /\ \A i \in DOMAIN old : /\ outs[i].script = old[i].script
                             /\ i # k /\ old[i].script \in OwnScripts => outs[i].value = old[i].value
    /\ outs[k].value = old[k].value + d

(* The receiver then has as much more. *)
LEMMA ShiftedTotal ==
    ASSUME NEW old \in Seq(Outputs), NEW outs, NEW k, NEW d \in Int, Shifted(outs, old, k, d)
    PROVE  OwnTotal(outs) = OwnTotal(old) + d
<1> DEFINE D == DOMAIN old
<1>1. IsFiniteSet(D) /\ IntOn(OwnShares(old), D) /\ k \in D /\ DOMAIN outs = D
    BY SplitTotals DEF Shifted
<1>2. OwnShares(outs)[k] = OwnShares(old)[k] + d
    <2>1. OwnShare(outs[k]) = outs[k].value /\ OwnShare(old[k]) = old[k].value
        BY DEF Shifted, OwnShare
    <2>2. outs[k].value = old[k].value + d /\ k \in DOMAIN outs /\ k \in DOMAIN old
        BY DEF Shifted
    <2> QED BY <2>1, <2>2 DEF OwnShares
<1>3. ASSUME NEW x \in D \ {k} PROVE OwnShares(outs)[x] = OwnShares(old)[x]
    <2>1. OwnShare(outs[x]) = OwnShare(old[x])
        BY DEF Shifted, OwnShare
    <2> QED BY <1>1, <2>1 DEF OwnShares
<1> HIDE DEF D
<1>4. SumFunctionOnSet(OwnShares(outs), D) = SumFunctionOnSet(OwnShares(old), D) + d
    BY <1>1, <1>2, <1>3, SumChange
<1> QED BY <1>1, <1>4, Zenon DEF OwnTotal, D

(* Replacing owned outputs by owned outputs leaves the rest. *)
LEMMA RebuiltRest ==
    ASSUME NEW orig \in Seq(Outputs), NEW own, NEW outs, NEW q, Rebuilt(q, orig, own, outs),
           \A i \in own : orig[i].script \in OwnScripts,
           \A j \in DOMAIN outs : outs[j].script \in OwnScripts
    PROVE  RestTotal(q) = RestTotal(orig)
<1>1. PICK kept, new, all, p :
        /\ FromOutputs(kept, new, orig, own, outs)
        /\ Joined(all, kept, new, Outputs)
        /\ Reordered(q, all, p, Outputs)
        /\ p \in Bijection(1..Len(all), 1..Len(all))
    BY DEF Rebuilt
<1> DEFINE D == DOMAIN all
           A == DOMAIN orig
<1>2. all \in Seq(Outputs) /\ D = 1..Len(all) /\ DOMAIN q = D /\ A \in SUBSET D
    BY <1>1 DEF Joined, Reordered, FromOutputs
<1>3. IsFiniteSet(D) /\ IntOn(Rests(all), D)
    BY <1>2, SplitTotals
<1>4. OneToOne(p, D) /\ {p[x] : x \in D} = D
    <2>1. p \in Bijection(D, D)
        BY <1>1, <1>2
    <2> HIDE DEF D
    <2>2. p \in [D -> D] /\ IsInjective(p) /\ \A t \in D : \E s \in D : p[s] = t
        BY <2>1 DEF Bijection, Injection, Surjection
    <2>3. OneToOne(p, D)
        BY <2>2 DEF OneToOne, IsInjective
    <2> QED BY <2>2, <2>3
<1>5. Along(Rests(all), Rests(q), p, D)
    <2>1. ASSUME NEW x \in D PROVE Rests(all)[x] = Rests(q)[p[x]]
        <3>1. p[x] \in DOMAIN q /\ q[p[x]] = all[x]
            BY <1>1, <1>2 DEF Reordered
        <3> QED BY <3>1 DEF Rests
    <2> QED BY <2>1 DEF Along
<1>6. ASSUME NEW x \in A PROVE Rests(all)[x] = Rests(orig)[x]
    <2>1. all[x] = kept[x] /\ x \in D
        BY <1>1, <1>2 DEF Joined, FromOutputs
    <2>2. Rest(all[x]) = Rest(orig[x])
        <3>1. CASE x \in own
            <4>1. orig[x].script \in OwnScripts /\ all[x].script \in OwnScripts
                BY <1>1, <2>1, <3>1 DEF FromOutputs
            <4> QED BY <4>1 DEF Rest
        <3>2. CASE x \notin own
            BY <1>1, <2>1, <3>2 DEF FromOutputs
        <3> QED BY <3>1, <3>2
    <2> QED BY <2>1, <2>2 DEF Rests
<1>7. ASSUME NEW x \in D \ A PROVE Rests(all)[x] = 0
    <2>1. PICK j \in DOMAIN new : x = Len(kept) + j
        BY <1>1 DEF Joined, FromOutputs
    <2>2. all[x] = new[j]
        BY <1>1, <2>1 DEF Joined
    <2>3. all[x].script \in OwnScripts
        BY <1>1, <2>2 DEF FromOutputs
    <2> QED BY <2>3 DEF Rests, Rest
<1> HIDE DEF D, A
<1>8. SumFunctionOnSet(Rests(q), {p[x] : x \in D}) = SumFunctionOnSet(Rests(all), D)
    BY <1>3, <1>4, <1>5, SumImage
<1>9. SumFunctionOnSet(Rests(q), D) = SumFunctionOnSet(Rests(all), D)
    BY <1>4, <1>8, Zenon
<1>10. SumFunctionOnSet(Rests(all), D) = SumFunctionOnSet(Rests(all), A) + SumFunctionOnSet(Rests(all), D \ A)
    BY <1>2, <1>3, SumUnion
<1>11. SumFunctionOnSet(Rests(all), D \ A) = 0
    <2>1. IsFiniteSet(D \ A)
        BY <1>3, FS_Subset
    <2> QED BY <1>7, <2>1, SumZero
<1>12. SumFunctionOnSet(Rests(all), A) = SumFunctionOnSet(Rests(orig), A)
    <2>1. IsFiniteSet(A) /\ IntOn(Rests(orig), A)
        BY SplitTotals DEF A
    <2> QED BY <1>6, <2>1, SumSame
<1>13. RestTotal(orig) \in Nat /\ RestTotal(orig) = SumFunctionOnSet(Rests(orig), A)
    BY SplitTotals DEF RestTotal, A
<1>14. RestTotal(q) = SumFunctionOnSet(Rests(q), D)
    BY <1>2, Zenon DEF RestTotal
<1> QED BY <1>9, <1>10, <1>11, <1>12, <1>13, <1>14

(* Others keep what they have if their outputs do. *)
LEMMA RestKept ==
    ASSUME NEW old \in Seq(Outputs), NEW outs, DOMAIN outs = DOMAIN old,
           \A i \in DOMAIN old : /\ outs[i].script = old[i].script
                                 /\ old[i].script \notin OwnScripts => outs[i].value = old[i].value
    PROVE  RestTotal(outs) = RestTotal(old)
<1> DEFINE D == DOMAIN old
<1>1. ASSUME NEW i \in D PROVE Rests(outs)[i] = Rests(old)[i]
    <2>1. Rest(outs[i]) = Rest(old[i])
        BY DEF Rest
    <2> QED BY <2>1 DEF Rests
<1>2. IsFiniteSet(D) /\ IntOn(Rests(old), D)
    BY SplitTotals
<1>3. SumFunctionOnSet(Rests(outs), D) = SumFunctionOnSet(Rests(old), D)
    <2> HIDE DEF D
    <2> QED BY <1>1, <1>2, SumSame
<1> QED BY <1>3, Zenon DEF RestTotal

(* The same scripts have the same weight. *)
LEMMA WeightKept ==
    ASSUME NEW old \in Seq(Outputs), NEW outs, DOMAIN outs = DOMAIN old,
           \A i \in DOMAIN old : outs[i].script = old[i].script
    PROVE  OutputsWeight(outs) = OutputsWeight(old)
<1> DEFINE D == DOMAIN old
<1>1. ASSUME NEW i \in D PROVE WeightOf(outs)[i] = WeightOf(old)[i] /\ WeightOf(old)[i] \in Int
    <2>1. old[i] \in Outputs
        OBVIOUS
    <2>2. OutputWeight[old[i].script] \in Nat
        BY <2>1, OutputType, PsbtsAssumption
    <2> QED BY <2>2 DEF WeightOf
<1>2. IsFiniteSet(D)
    BY FiniteDomain
<1>3. SumFunctionOnSet(WeightOf(outs), D) = SumFunctionOnSet(WeightOf(old), D)
    <2> HIDE DEF D
    <2>1. IntOn(WeightOf(old), D)
        BY <1>1 DEF IntOn
    <2> QED BY <1>1, <1>2, <2>1, SumSame
<1> QED BY <1>3, Amounts, Zenon

(* What the receiver put in. *)
ValuesOf(coins) == [c \in coins |-> Coin[c].value]

PutOf(coins) == SumFunctionOnSet(ValuesOf(coins), coins)

(* No coins are worth nothing. *)
LEMMA PutNothing == PutOf({}) = 0
BY SumEmpty DEF PutOf

(* A list of coins is worth what its coins are worth. *)
LEMMA PutCoins ==
    ASSUME NEW coins \in CoinLists
    PROVE  /\ SumOf(LAMBDA c : Coin[c].value, coins) = PutOf(ToSet(coins))
           /\ PutOf(ToSet(coins)) \in Nat
<1> DEFINE D == DOMAIN coins
           T == ToSet(coins)
<1>1. /\ IsFiniteSet(D) /\ IsInjective(coins)
      /\ \A i \in D : coins[i] \in DOMAIN Coin
    BY CoinListType
<1>2. T = {coins[x] : x \in D}
    BY DEF ToSet
<1>3. OneToOne(coins, D)
    BY <1>1 DEF IsInjective, OneToOne
<1>4. ASSUME NEW x \in D
      PROVE  CoinValues(coins)[x] = ValuesOf(T)[coins[x]] /\ CoinValues(coins)[x] \in Int
    <2>1. coins[x] \in T /\ Coin[coins[x]].value \in Nat
        BY <1>1, <1>2, PsbtsAssumption
    <2>2. ValuesOf(T)[coins[x]] = Coin[coins[x]].value
        <3> HIDE DEF T
        <3> QED BY <2>1 DEF ValuesOf
    <2>3. CoinValues(coins)[x] = Coin[coins[x]].value
        BY DEF CoinValues
    <2> QED BY <2>1, <2>2, <2>3
<1>5. Along(CoinValues(coins), ValuesOf(T), coins, D) /\ IntOn(CoinValues(coins), D)
    BY <1>4 DEF Along, IntOn
<1>6. SumFunctionOnSet(ValuesOf(T), {coins[x] : x \in D}) = SumFunctionOnSet(CoinValues(coins), D)
    <2> HIDE DEF T, D
    <2> QED BY <1>1, <1>3, <1>5, SumImage
<1>7. PutOf(T) = SumFunctionOnSet(CoinValues(coins), D)
    <2> HIDE DEF T, D
    <2> QED BY <1>2, <1>6, Zenon DEF PutOf
<1> QED BY <1>7, CoinAmount

(* The only multiple of m nearer to 0 than m is 0. *)
LEMMA SmallMultiple ==
    ASSUME NEW m \in Nat \ {0}, NEW z \in Int, z * m < m, -m < z * m
    PROVE  z = 0
<1>1. z * m < 1 * m
    OBVIOUS
<1>2. z < 1
    BY <1>1, ProductCancels
<1>3. (-1) * m < z * m
    OBVIOUS
<1>4. -1 < z
    BY <1>3, ProductCancels
<1> QED BY <1>2, <1>4

(* Division with remainder. *)
LEMMA DivMod ==
    ASSUME NEW y \in Int, NEW m \in Nat \ {0}
    PROVE  y \div m \in Int /\ y % m \in 0..(m - 1) /\ y = (y \div m) * m + (y % m)
OBVIOUS

(* A number is the remainder of its sum with a multiple. *)
LEMMA ModOf ==
    ASSUME NEW m \in Nat \ {0}, NEW x \in 0..(m - 1), NEW k \in Int, NEW y \in Int, y = x + k * m
    PROVE  y % m = x
<1> DEFINE j == y \div m
           r == y % m
<1>1. j \in Int /\ r \in 0..(m - 1) /\ y = j * m + r
    BY DivMod
<1> HIDE DEF j, r
<1>2. (k - j) * m = r - x
    BY <1>1
<1>3. k - j = 0
    <2>1. (k - j) * m < m /\ -m < (k - j) * m /\ k - j \in Int
        BY <1>1, <1>2
    <2> QED BY <2>1, SmallMultiple
<1>4. 0 * m = 0
    OBVIOUS
<1>5. r = x
    BY <1>1, <1>2, <1>3, <1>4
<1> QED BY <1>5 DEF r

(* The code adds a wrapped difference and wraps again: if the true sum fits,
   it is the result. *)
LEMMA ModSum ==
    ASSUME NEW m \in Nat \ {0}, NEW a \in Int, NEW d \in Int, a + d \in 0..(m - 1)
    PROVE  (a + (d % m)) % m = a + d
<1> DEFINE j == d \div m
           r == d % m
<1>1. j \in Int /\ r \in 0..(m - 1) /\ d = j * m + r
    BY DivMod
<1> HIDE DEF j, r
<1>2. a + r = (a + d) + (-j) * m /\ -j \in Int /\ a + r \in Int
    BY <1>1
<1> DEFINE x == a + d
           y == a + r
           k == -j
<1>3. x \in 0..(m - 1) /\ k \in Int /\ y \in Int /\ y = x + k * m
    BY <1>2
<1> HIDE DEF x, y, k
<1>4. y % m = x
    BY <1>3, ModOf, Zenon
<1> QED BY <1>4 DEF r, x, y

(* The weight the receiver added, of which the code takes the fee. *)
Added ==
    SumFunction([c \in receiver_inputs |-> Coin[c].weight])
        + OutputsWeight(proposal.outputs) - OutputsWeight(SentOutputs)

(* It is not negative and does not wrap. *)
AddedWeightFits == Added \in 0..(Word - 1)

(* The script of the output the sender pays fees from. *)
FeeOutput == Original.outputs[params.fee_contribution.vout].script

(* Only the receiver's own outputs were replaced, and it can pay the fee. *)
Funded(outs, drain, sent) ==
    /\ outs[drain].script \in OwnScripts
    /\ RestTotal(outs) = RestTotal(sent)

(* The proposal still has the sender's fee output. *)
FeeOutputThere ==
    params.fee_contribution.vout # 0 => \E k \in DOMAIN proposal.outputs : proposal.outputs[k].script = FeeOutput

(* After one contribution the receiver has what it put in and was sent. *)
Balanced(outs, sent, n, coins, total) ==
    /\ n = 0 => coins = {} /\ total = OutputAmount(outs)
    /\ n = 1 /\ total >= OutputAmount(sent) => OwnTotal(outs) = OwnTotal(sent) + PutOf(coins)

(* The parts of the invariant. *)
FundedInv == stage \in Building => Funded(proposal.outputs, change_vout, SentOutputs) /\ FeeOutputThere

BalancedInv ==
    stage \in {"WantsInputs", "WantsFeeRange"} =>
        Balanced(proposal.outputs, SentOutputs, contributions, receiver_inputs, committed)

(* Nothing is contributed before the outputs are committed. *)
NothingPut ==
    /\ contributions \in Nat
    /\ stage \in {"Start", "Original", "WantsOutputs"} => contributions = 0 /\ receiver_inputs = {}

(* Where the receiver's money is. *)
MoneyInv == FundedInv /\ BalancedInv /\ NothingPut

(* The receiver's copy of the Original PSBT has the same totals. *)
LEMMA SentSame ==
    ASSUME GoodContext(context)
    PROVE  /\ SentOutputs \in Seq(Outputs) /\ Original.outputs \in Seq(Outputs)
           /\ RestTotal(Original.outputs) = RestTotal(SentOutputs)
           /\ OutputAmount(Original.outputs) = OutputAmount(SentOutputs)
           /\ OutputsWeight(Original.outputs) = OutputsWeight(SentOutputs)
<1>1. SentOutputs \in Seq(Outputs)
    BY OriginalType, PsbtType DEF SentOutputs
<1>2. SameOutputs(Original.outputs, SentOutputs) /\ Original.outputs \in Seq(Outputs)
    BY OriginalType, PsbtType
<1> QED BY <1>1, <1>2, SameSplit

(* The fee output is not the receiver's. *)
LEMMA FeeOutputTheirs ==
    ASSUME GoodContext(context), params.fee_contribution.vout # 0,
           params.fee_contribution = context.fee_contribution, params.fee_contribution.vout \notin Owned
    PROVE  params.fee_contribution.vout \in DOMAIN Original.outputs \ Owned /\ FeeOutput \notin OwnScripts
<1>1. context.fee_contribution.vout \in DOMAIN SentOutputs
    BY DEF GoodContext, Covered, SentOutputs
<1>2. DOMAIN Original.outputs = DOMAIN SentOutputs
    BY OriginalType DEF SameOutputs
<1> QED BY <1>1, <1>2 DEF Owned, FeeOutput

(* identify_receiver_outputs starts with the Original PSBT. *)
LEMMA IdentifyMoney ==
    ASSUME TypeInv, TypeInv', MoneyInv, identify_receiver_outputs
    PROVE  MoneyInv'
<1>1. /\ stage = "Original" /\ stage' = "WantsOutputs" /\ proposal' = Original /\ change_vout' = Min(Owned)
      /\ Owned # {} /\ UNCHANGED <<context, contributions, receiver_inputs>>
    BY DEF identify_receiver_outputs
<1>2. GoodContext(context) /\ Original' = Original /\ Owned' = Owned /\ SentOutputs' = SentOutputs
    BY <1>1 DEF TypeInv, ContextInv, Original, Owned, SentOutputs
<1>3. Min(Owned) \in Owned
    BY <1>1, <1>2, OriginalType, MinOf
<1>4. Funded(Original.outputs, Min(Owned), SentOutputs)
    BY <1>2, <1>3, SentSame DEF Funded, Owned
<1>5. FeeOutputThere'
    <2>1. SUFFICES ASSUME params'.fee_contribution.vout # 0
                   PROVE  \E k \in DOMAIN proposal'.outputs : proposal'.outputs[k].script = FeeOutput'
        BY DEF FeeOutputThere
    <2>2. params'.fee_contribution = context.fee_contribution /\ params'.fee_contribution.vout \notin Owned
        BY <1>1, <1>2, <2>1 DEF TypeInv, ParamsInv, Building
    <2>3. context.fee_contribution.vout \in DOMAIN SentOutputs
        BY <1>2, <2>1, <2>2 DEF GoodContext, Covered, SentOutputs
    <2>4. DOMAIN Original.outputs = DOMAIN SentOutputs
        BY <1>2, OriginalType DEF SameOutputs
    <2>5. params'.fee_contribution.vout \in DOMAIN proposal'.outputs
        BY <1>1, <2>2, <2>3, <2>4
    <2> QED BY <1>1, <1>2, <2>5, Zenon DEF FeeOutput
<1>6. FundedInv'
    BY <1>1, <1>2, <1>4, <1>5 DEF FundedInv
<1> QED BY <1>1, <1>6 DEF MoneyInv, BalancedInv, NothingPut

(* replace_receiver_outputs replaces owned outputs by owned outputs. *)
LEMMA ReplaceMoney ==
    ASSUME TypeInv, MoneyInv, NEW outs \in Seq(Outputs), NEW drain \in OwnScripts,
           \A k \in DOMAIN outs : outs[k].script \in OwnScripts,
           replace_receiver_outputs(outs, drain)
    PROVE  MoneyInv'
<1>0. stage = "WantsOutputs" /\ GoodContext(context)
    BY Zenon DEF replace_receiver_outputs, TypeInv, ContextInv
<1>1. /\ Replaced(proposal'.outputs, Original.outputs, Owned, outs)
      /\ Rebuilt(proposal'.outputs, Original.outputs, Owned, outs)
      /\ proposal'.outputs[change_vout'].script = drain
      /\ UNCHANGED <<context, params, stage, receiver_inputs, contributions>>
    BY <1>0, ReplaceStep
<1>2. Original' = Original /\ Owned' = Owned /\ SentOutputs' = SentOutputs
    BY <1>1 DEF Original, Owned, SentOutputs
<1>3. RestTotal(proposal'.outputs) = RestTotal(Original.outputs)
    <2>1. \A i \in Owned : Original.outputs[i].script \in OwnScripts
        BY DEF Owned
    <2>2. Original.outputs \in Seq(Outputs)
        BY <1>0, SentSame
    <2> DEFINE orig == Original.outputs
               q == proposal'.outputs
    <2> HIDE DEF orig, q
    <2>3. RestTotal(q) = RestTotal(orig)
        BY <1>1, <2>1, <2>2, RebuiltRest DEF orig, q
    <2> QED BY <2>3 DEF orig, q
<1>4. Funded(proposal'.outputs, change_vout', SentOutputs)
    BY <1>0, <1>1, <1>3, SentSame DEF Funded
<1>5. FeeOutputThere'
    <2>1. SUFFICES ASSUME params.fee_contribution.vout # 0
                   PROVE  \E k \in DOMAIN proposal'.outputs : proposal'.outputs[k].script = FeeOutput
        BY <1>1, <1>2, Zenon DEF FeeOutputThere, FeeOutput
    <2>2. params.fee_contribution = context.fee_contribution /\ params.fee_contribution.vout \notin Owned
        BY <1>0, <2>1 DEF TypeInv, ParamsInv, Building
    <2>3. params.fee_contribution.vout \in DOMAIN Original.outputs \ Owned
        BY <1>0, <2>1, <2>2, FeeOutputTheirs
    <2>4. PICK k \in DOMAIN proposal'.outputs : proposal'.outputs[k] = Original.outputs[params.fee_contribution.vout]
        BY <1>1, <2>3 DEF Replaced
    <2> QED BY <2>4, Zenon DEF FeeOutput
<1>6. FundedInv'
    BY <1>0, <1>1, <1>2, <1>4, <1>5 DEF FundedInv
<1> QED BY <1>0, <1>1, <1>6 DEF MoneyInv, BalancedInv, NothingPut

(* So does substitute_receiver_script. *)
LEMMA SubstituteMoney ==
    ASSUME TypeInv, MoneyInv, NEW script \in OwnScripts, substitute_receiver_script(script)
    PROVE  MoneyInv'
<1>1. stage = "WantsOutputs" /\ GoodContext(context)
    BY Zenon DEF substitute_receiver_script, TypeInv, ContextInv
<1>2. CASE /\ <<SubstitutedOutput(script)>> \in Seq(Outputs)
           /\ SubstitutedOutput(script).script = script
           /\ replace_receiver_outputs(<<SubstitutedOutput(script)>>, script)
    <2> DEFINE outs == <<SubstitutedOutput(script)>>
    <2>1. \A k \in DOMAIN outs : outs[k].script \in OwnScripts
        BY <1>2
    <2>2. outs \in Seq(Outputs) /\ replace_receiver_outputs(outs, script)
        BY <1>2
    <2> HIDE DEF outs
    <2> QED BY <2>1, <2>2, ReplaceMoney
<1>3. CASE stage' = "OutOfBounds"
    <2>1. contributions' = contributions
        BY <1>1, Zenon DEF substitute_receiver_script, replace_receiver_outputs
    <2> QED BY <1>3, <2>1 DEF MoneyInv, FundedInv, BalancedInv, NothingPut, Building
<1> QED BY <1>1, <1>2, <1>3, SubstituteStep

(* commit_outputs records the total; commit_inputs changes nothing. *)
LEMMA CommitMoney ==
    ASSUME TypeInv, MoneyInv, commit_outputs \/ commit_inputs
    PROVE  MoneyInv'
<1>1. /\ stage \in Building /\ stage' \in {"WantsInputs", "WantsFeeRange"}
      /\ UNCHANGED <<context, params, proposal, change_vout, receiver_inputs, contributions>>
    BY DEF commit_outputs, commit_inputs, Building
<1>2. SentOutputs' = SentOutputs /\ FeeOutputThere' = FeeOutputThere
    BY <1>1 DEF SentOutputs, FeeOutputThere, FeeOutput, Original
<1>3. FundedInv'
    BY <1>1, <1>2 DEF MoneyInv, FundedInv
<1>4. Balanced(proposal.outputs, SentOutputs, contributions, receiver_inputs, committed')
    <2>1. CASE commit_outputs
        <3>1. contributions = 0 /\ receiver_inputs = {} /\ committed' = OutputAmount(proposal.outputs)
            BY <2>1 DEF commit_outputs, MoneyInv, NothingPut
        <3> QED BY <3>1 DEF Balanced
    <2>2. CASE commit_inputs
        BY <2>2 DEF commit_inputs, MoneyInv, BalancedInv
    <2> QED BY <2>1, <2>2
<1>5. BalancedInv'
    BY <1>1, <1>2, <1>4 DEF BalancedInv
<1>6. NothingPut'
    BY <1>1 DEF MoneyInv, NothingPut
<1> QED BY <1>3, <1>5, <1>6 DEF MoneyInv

(* One output is worth d more. *)
Grown(q, old, k, d) == q = [old EXCEPT ![k].value = @ + d]

(* The receiver has d more and others what they had. *)
LEMMA GrownOutput ==
    ASSUME NEW old \in Seq(Outputs), NEW k \in DOMAIN old, old[k].script \in OwnScripts, NEW d \in Nat,
           NEW q, Grown(q, old, k, d)
    PROVE  /\ DOMAIN q = DOMAIN old /\ \A i \in DOMAIN old : q[i].script = old[i].script
           /\ OwnTotal(q) = OwnTotal(old) + d /\ RestTotal(q) = RestTotal(old)
<1>1. DOMAIN q = DOMAIN old
    BY DEF Grown
<1>2. ASSUME NEW i \in DOMAIN old
      PROVE  q[i].script = old[i].script /\ q[i].value = IF i = k THEN old[i].value + d ELSE old[i].value
    <2>1. old[i] \in Outputs
        OBVIOUS
    <2>2. q[i] = IF i = k THEN [old[i] EXCEPT !.value = old[i].value + d] ELSE old[i]
        BY DEF Grown
    <2>3. CASE i = k
        <3>1. q[i] = [old[i] EXCEPT !.value = old[i].value + d]
            BY <2>2, <2>3
        <3> QED BY <2>1, <2>3, <3>1, OutputValue
    <2>4. CASE i # k
        BY <2>2, <2>4
    <2> QED BY <2>3, <2>4
<1>3. Shifted(q, old, k, d)
    BY <1>1, <1>2 DEF Shifted
<1>4. OwnTotal(q) = OwnTotal(old) + d
    BY <1>3, ShiftedTotal
<1>5. RestTotal(q) = RestTotal(old)
    BY <1>1, <1>2, RestKept
<1> QED BY <1>1, <1>2, <1>4, <1>5

(* What contribute_inputs does not need for the outputs goes to the change
   output. *)
LEMMA ContributeMoney ==
    ASSUME TypeInv, MoneyInv, NEW coins \in CoinLists, NEW sequence, contribute_inputs(coins, sequence)
    PROVE  MoneyInv'
<1>1. /\ stage = "WantsInputs" /\ UNCHANGED <<context, params, stage, change_vout, committed>>
      /\ receiver_inputs' = receiver_inputs \union ToSet(coins) /\ contributions' = contributions + 1
    BY Zenon DEF contribute_inputs
<1> DEFINE old == proposal.outputs
           q == proposal'.outputs
           amount == SumOf(LAMBDA c : Coin[c].value, coins)
<1>2. /\ GoodContext(context) /\ proposal \in PSBTs /\ change_vout \in DOMAIN old
      /\ Funded(old, change_vout, SentOutputs) /\ FeeOutputThere
      /\ Balanced(old, SentOutputs, contributions, receiver_inputs, committed) /\ contributions \in Nat
    BY <1>1 DEF TypeInv, ContextInv, ProposalInv, DrainInv, Building, MoneyInv, FundedInv, BalancedInv, NothingPut
<1>3. PICK change \in Nat : q = [old EXCEPT ![change_vout].value = @ + change]
                            /\ change = amount - receiver_min_input_amount
    BY <1>2, ContributeStep
<1>4. old \in Seq(Outputs) /\ SentOutputs' = SentOutputs /\ FeeOutput' = FeeOutput
    BY <1>1, <1>2, PsbtType DEF SentOutputs, FeeOutput, Original
<1>5. amount = PutOf(ToSet(coins)) /\ amount \in Nat
    BY PutCoins
<1> HIDE DEF old, q, amount
<1>6. /\ DOMAIN q = DOMAIN old /\ \A i \in DOMAIN old : q[i].script = old[i].script
      /\ OwnTotal(q) = OwnTotal(old) + change /\ RestTotal(q) = RestTotal(old)
    <2>1. old[change_vout].script \in OwnScripts
        BY <1>2 DEF Funded
    <2>2. Grown(q, old, change_vout, change)
        BY <1>3 DEF Grown
    <2> QED BY <1>2, <1>4, <2>1, <2>2, GrownOutput, Zenon
<1>7. Funded(q, change_vout, SentOutputs)
    BY <1>2, <1>6 DEF Funded
<1>8. params'.fee_contribution.vout # 0 => \E k \in DOMAIN q : q[k].script = FeeOutput
    BY <1>1, <1>2, <1>6 DEF FeeOutputThere, old
<1>9. FundedInv'
    BY <1>1, <1>4, <1>7, <1>8 DEF FundedInv, FeeOutputThere, q
<1>10. ASSUME contributions' = 1, committed >= OutputAmount(SentOutputs)
       PROVE  OwnTotal(q) = OwnTotal(SentOutputs) + PutOf(receiver_inputs')
    <2>1. contributions = 0
        BY <1>1, <1>2, <1>10
    <2>2. receiver_inputs' = ToSet(coins) /\ committed = OutputAmount(old)
        BY <1>1, <1>2, <2>1 DEF Balanced
    <2> DEFINE a == OutputAmount(old)
               b == OutputAmount(SentOutputs)
    <2>3. a \in Nat /\ b \in Nat /\ a >= b
        BY <1>2, <1>4, <1>10, <2>2, SentSame, OutputAmountType
    <2>4. receiver_min_input_amount = Max({0, a - b})
        BY <1>2, SentSame, Zenon DEF receiver_min_input_amount, old
    <2>5. /\ a = OwnTotal(old) + RestTotal(old) /\ b = OwnTotal(SentOutputs) + RestTotal(SentOutputs)
          /\ OwnTotal(old) \in Int /\ RestTotal(old) \in Int /\ OwnTotal(SentOutputs) \in Int
          /\ RestTotal(old) = RestTotal(SentOutputs)
        <3>1. SentOutputs \in Seq(Outputs)
            BY <1>2, SentSame
        <3> QED BY <1>2, <1>4, <3>1, SplitTotals DEF Funded
    <2> HIDE DEF a, b
    <2>6. Max({0, a - b}) = a - b
        <3>1. a - b \in Int /\ a - b >= 0
            BY <2>3
        <3> QED BY <3>1, MaxOfPair
    <2>7. OwnTotal(q) = OwnTotal(old) + (amount - (a - b))
        BY <1>3, <1>6, <2>4, <2>6
    <2>8. OwnTotal(q) = OwnTotal(SentOutputs) + amount
        BY <1>5, <2>3, <2>5, <2>7
    <2> QED BY <1>5, <2>2, <2>8
<1>11. Balanced(q, SentOutputs, contributions', receiver_inputs', committed)
    BY <1>1, <1>2, <1>10 DEF Balanced
<1>12. BalancedInv'
    BY <1>1, <1>4, <1>11 DEF BalancedInv, q
<1>13. NothingPut'
    BY <1>1, <1>2 DEF NothingPut
<1> QED BY <1>9, <1>12, <1>13 DEF MoneyInv

-----------------------------------------------------------------------------
(* ReceiverFeeBounded *)

(* The cases ReceiverFeeBounded is about. *)
OneContribution ==
    /\ stage \in {"ProvisionalProposal", "PayjoinProposal"}
    /\ contributions <= 1
    /\ committed >= OutputAmount(SentOutputs)
    /\ contributions = 1 \/ committed = OutputAmount(SentOutputs)

(* What the receiver has less in the end. *)
Loss == PutOf(receiver_inputs) + OwnTotal(SentOutputs) - OwnTotal(proposal.outputs)

(* It is at most the fee of the added weight. *)
FeeWithin == Loss * Scale < Max({0, Added}) * fee_range.max + Scale

(* ReceiverFeeBounded with its sums as totals. *)
LEMMA BoundUnfolded == ReceiverFeeBounded <=> (OneContribution => FeeWithin)
<1> DEFINE owned(outputs) == SumOf(LAMBDA o : IF o.script \in OwnScripts THEN o.value ELSE 0, outputs)
           put == SumFunction([c \in receiver_inputs |-> Coin[c].value])
<1>1. ASSUME NEW outs PROVE owned(outs) = OwnTotal(outs)
    <2>1. DOMAIN OwnShares(outs) = DOMAIN outs
        BY DEF OwnShares
    <2>2. owned(outs) = SumFunctionOnSet(OwnShares(outs), DOMAIN OwnShares(outs))
        BY Zenon DEF SumOf, SumFunction, OwnShares, OwnShare
    <2> QED BY <2>1, <2>2, Zenon DEF OwnTotal
<1>2. put = PutOf(receiver_inputs)
    <2>1. DOMAIN ValuesOf(receiver_inputs) = receiver_inputs
        BY DEF ValuesOf
    <2>2. put = SumFunctionOnSet(ValuesOf(receiver_inputs), DOMAIN ValuesOf(receiver_inputs))
        BY Zenon DEF SumFunction, ValuesOf
    <2> QED BY <2>1, <2>2, Zenon DEF PutOf
<1>3. ReceiverFeeBounded <=>
        (OneContribution =>
            (put + owned(SentOutputs) - owned(proposal.outputs)) * Scale
                < Max({0, Added}) * fee_range.max + Scale)
    BY Zenon DEF ReceiverFeeBounded, OneContribution, Added
<1>4. owned(SentOutputs) = OwnTotal(SentOutputs) /\ owned(proposal.outputs) = OwnTotal(proposal.outputs)
    BY <1>1
<1> HIDE DEF owned, put
<1> QED BY <1>2, <1>3, <1>4, Zenon DEF Loss, FeeWithin

(* The bound, while the added weight fits a machine word. *)
FeeBounded == AddedWeightFits => ReceiverFeeBounded

(* The receiver pays from its own output and nobody else does. *)
LEMMA ReceiverPays ==
    ASSUME TypeInv, MoneyInv, stage = "WantsFeeRange", NEW min_rate \in Nat
    PROVE  /\ OwnTotal(Final(min_rate)) = OwnTotal(proposal.outputs) - ReceiverFee(min_rate)
           /\ OutputsWeight(Final(min_rate)) = OutputsWeight(proposal.outputs)
<1> DEFINE outs == proposal.outputs
           fee == ReceiverFee(min_rate)
           d == -fee
           final == Final(min_rate)
<1>1. /\ GoodContext(context) /\ proposal \in PSBTs /\ change_vout \in DOMAIN outs
      /\ Funded(outs, change_vout, SentOutputs) /\ FeeOutputThere
    BY DEF TypeInv, ContextInv, ProposalInv, DrainInv, Building, MoneyInv, FundedInv
<1>2. outs \in Seq(Outputs)
    BY <1>1, PsbtType
<1>3. fee \in Nat /\ SenderFee(min_rate) \in Nat /\ d \in Int
    <2>1. fee \in Nat /\ SenderFee(min_rate) \in Nat
        BY FeesPaid
    <2> HIDE DEF fee
    <2> QED BY <2>1
<1>4. /\ DOMAIN final = DOMAIN outs
      /\ \A i \in DOMAIN outs :
            /\ final[i].script = outs[i].script
            /\ Paid(min_rate)[i].value = outs[i].value -
                  (IF SenderFee(min_rate) # 0 /\ i = SenderFeeVout THEN SenderFee(min_rate) ELSE 0)
            /\ final[i].value = Paid(min_rate)[i].value - (IF i = change_vout THEN fee ELSE 0)
    BY FinalType
<1>5. SenderFee(min_rate) # 0 => outs[SenderFeeVout].script \notin OwnScripts
    <2>1. SUFFICES ASSUME SenderFee(min_rate) # 0 PROVE outs[SenderFeeVout].script \notin OwnScripts
        OBVIOUS
    <2>2. params.fee_contribution.vout # 0
        BY <1>3, <2>1, FeesPaid
    <2>3. params.fee_contribution = context.fee_contribution /\ params.fee_contribution.vout \notin Owned
        BY <2>2 DEF TypeInv, ParamsInv, Building
    <2>4. FeeOutput \notin OwnScripts
        BY <1>1, <2>2, <2>3, FeeOutputTheirs
    <2>5. PICK k \in DOMAIN outs : outs[k].script = FeeOutput
        BY <1>1, <2>2 DEF FeeOutputThere
    <2>6. outs[Position(outs, outs[k].script)].script = outs[k].script
        BY <1>2, <2>5, PositionType
    <2>7. SenderFeeVout = Position(outs, outs[k].script)
        BY <2>5 DEF SenderFeeVout, FeeOutput
    <2> QED BY <2>4, <2>5, <2>6, <2>7
<1>6. \A i \in DOMAIN outs : outs[i].value \in Nat
    <2>1. ASSUME NEW i \in DOMAIN outs PROVE outs[i].value \in Nat
        BY <1>2, OutputType
    <2> QED BY <2>1
<1>7. outs[change_vout].script \in OwnScripts
    BY <1>1 DEF Funded
<1> HIDE DEF outs, fee, d, final
<1>8. ASSUME NEW i \in DOMAIN outs, outs[i].script \in OwnScripts
      PROVE  final[i].value = outs[i].value - (IF i = change_vout THEN fee ELSE 0)
    <2>1. Paid(min_rate)[i].value = outs[i].value
        BY <1>3, <1>4, <1>5, <1>6, <1>8
    <2> QED BY <1>4, <2>1
<1>9. Shifted(final, outs, change_vout, d)
    <2>1. final[change_vout].value = outs[change_vout].value + d
        BY <1>1, <1>3, <1>6, <1>7, <1>8 DEF d, outs
    <2>2. ASSUME NEW i \in DOMAIN outs, i # change_vout, outs[i].script \in OwnScripts
          PROVE  final[i].value = outs[i].value
        BY <1>3, <1>6, <1>8, <2>2
    <2> QED BY <1>1, <1>4, <1>7, <2>1, <2>2 DEF Shifted, outs
<1>10. OwnTotal(final) = OwnTotal(outs) + d
    BY <1>2, <1>3, <1>9, ShiftedTotal
<1>11. OwnTotal(outs) \in Nat
    BY <1>2, SplitTotals
<1>12. OwnTotal(final) = OwnTotal(outs) - fee
    BY <1>3, <1>10, <1>11 DEF d
<1>13. OutputsWeight(final) = OutputsWeight(outs)
    BY <1>2, <1>4, WeightKept
<1> QED BY <1>12, <1>13 DEF outs, final, fee

(* The limit calculate_psbt_with_fee_range computes is the fee of the added
   weight, rounded up. *)
LEMMA MaxFeeBound ==
    ASSUME TypeInv, stage = "WantsFeeRange", NEW max_rate \in Nat, AddedWeightFits
    PROVE  MaxFee(max_rate) \in Nat /\ MaxFee(max_rate) * Scale <= Added * max_rate + Scale - 1
<1> DEFINE a == additional_input_weight
           d == OutputsWeight(proposal.outputs) - OutputsWeight(SentOutputs)
<1>1. GoodContext(context) /\ proposal \in PSBTs /\ InputsInv
    BY DEF TypeInv, ContextInv, ProposalInv
<1>2. a \in Nat
    BY <1>1, AddedInputWeight
<1>3. OutputsWeight(proposal.outputs) \in Nat /\ OutputsWeight(SentOutputs) \in Nat
      /\ OutputsWeight(Original.outputs) = OutputsWeight(SentOutputs)
    <2>1. proposal.outputs \in Seq(Outputs) /\ SentOutputs \in Seq(Outputs)
        BY <1>1, PsbtType, SentSame
    <2> QED BY <1>1, <2>1, OutputAmountType, SentSame
<1>4. d \in Int /\ additional_output_weight = d % Word
    BY <1>3 DEF additional_output_weight
<1>5. Added = a + d
    <2>1. a = SumFunction([c \in receiver_inputs |-> Coin[c].weight])
        BY Zenon DEF additional_input_weight, expected_input_weight
    <2>2. Added = a + OutputsWeight(proposal.outputs) - OutputsWeight(SentOutputs)
        BY <2>1, Zenon DEF Added
    <2> HIDE DEF a
    <2> QED BY <1>2, <1>3, <2>2
<1> HIDE DEF a, d
<1>6. Word \in Nat \ {0} /\ a + d \in 0..(Word - 1) /\ Added \in Nat
    BY <1>5, PsbtsAssumption DEF AddedWeightFits
<1>7. (a + (d % Word)) % Word = a + d
    <2>1. a \in Int
        BY <1>2
    <2> QED BY <1>4, <1>6, <2>1, ModSum, Zenon
<1>8. MaxFee(max_rate) = FeeAt(Added, max_rate)
    BY <1>4, <1>5, <1>7, Zenon DEF MaxFee, a
<1> QED BY <1>6, <1>8, FeeRounds

(* From the fee to its bound. *)
LEMMA BoundFrom ==
    ASSUME NEW loss \in Int, NEW fee \in Int, NEW w \in Int, NEW s \in Nat, loss <= fee, fee * s <= w + s - 1
    PROVE  loss * s < w + s
<1>1. loss * s <= fee * s
    BY ProductMonotone
<1> DEFINE x == loss * s
           y == fee * s
<1>2. x \in Int /\ y \in Int
    OBVIOUS
<1> HIDE DEF x, y
<1>3. x < w + s
    BY <1>1, <1>2 DEF x, y
<1> QED BY <1>3 DEF x

(* apply_fee_range keeps the receiver's loss within the limit. *)
LEMMA ApplyBound ==
    ASSUME TypeInv, MoneyInv, NEW min_rate \in Nat, NEW max_rate \in Nat, apply_fee_range(min_rate, max_rate)
    PROVE  FeeBounded'
<1>1. SUFFICES ASSUME AddedWeightFits', OneContribution'
               PROVE  FeeWithin'
    <2>1. ReceiverFeeBounded' <=> (OneContribution' => FeeWithin')
        BY BoundUnfolded, PTL
    <2> QED BY <2>1, Zenon DEF FeeBounded
<1>2. /\ stage = "WantsFeeRange" /\ ApplySucceeds(min_rate, max_rate)
      /\ UNCHANGED <<context, params, change_vout, receiver_inputs, contributions, committed>>
    <2>1. /\ stage = "WantsFeeRange"
          /\ ApplyFails(min_rate) \/ ApplySucceeds(min_rate, max_rate)
          /\ UNCHANGED <<context, params, change_vout, receiver_inputs, contributions, committed>>
        BY ApplyStep, Zenon
    <2>2. stage' \in {"ProvisionalProposal", "PayjoinProposal"}
        BY <1>1 DEF OneContribution
    <2> QED BY <2>1, <2>2 DEF ApplyFails
<1> DEFINE outs == proposal.outputs
           fee == ReceiverFee(min_rate)
           put == PutOf(receiver_inputs)
<1>3. /\ GoodContext(context) /\ proposal \in PSBTs
      /\ Funded(outs, change_vout, SentOutputs) /\ contributions \in Nat
      /\ Balanced(outs, SentOutputs, contributions, receiver_inputs, committed)
    BY <1>2 DEF TypeInv, ContextInv, ProposalInv, Building, MoneyInv, FundedInv, BalancedInv, NothingPut
<1>4. SentOutputs' = SentOutputs
    BY <1>2 DEF SentOutputs
<1>5. proposal'.outputs = Final(min_rate)
    BY <1>2, <1>3, PsbtType DEF ApplySucceeds
<1>6. /\ OwnTotal(proposal'.outputs) = OwnTotal(outs) - fee
      /\ OutputsWeight(proposal'.outputs) = OutputsWeight(outs)
    BY <1>2, <1>5, ReceiverPays
<1>7. Added' = Added
    BY <1>2, <1>4, <1>6, Zenon DEF Added
<1>8. AddedWeightFits /\ Added \in Nat
    BY <1>1, <1>7, PsbtsAssumption DEF AddedWeightFits
<1>9. MaxFee(max_rate) \in Nat /\ MaxFee(max_rate) * Scale <= Added * max_rate + Scale - 1
    BY <1>2, <1>8, MaxFeeBound
<1>10. fee \in Nat /\ fee <= MaxFee(max_rate) /\ fee_range'.max = max_rate
    <2>1. fee \in Nat
        BY <1>2, FeesPaid
    <2>2. fee <= MaxFee(max_rate) /\ fee_range' = [min |-> Rate(min_rate), max |-> max_rate]
        BY <1>2, Zenon DEF ApplySucceeds
    <2> HIDE DEF fee
    <2> QED BY <2>1, <2>2
<1>11. /\ OwnTotal(outs) \in Nat /\ OwnTotal(SentOutputs) \in Nat /\ RestTotal(outs) \in Nat
       /\ OutputAmount(outs) = OwnTotal(outs) + RestTotal(outs)
       /\ OutputAmount(SentOutputs) = OwnTotal(SentOutputs) + RestTotal(SentOutputs)
       /\ RestTotal(outs) = RestTotal(SentOutputs)
    <2>1. outs \in Seq(Outputs) /\ SentOutputs \in Seq(Outputs)
        BY <1>3, PsbtType, SentSame
    <2> QED BY <1>3, <2>1, SplitTotals DEF Funded
<1>12. put \in Int /\ OwnTotal(outs) = OwnTotal(SentOutputs) + put
    <2>0. /\ contributions <= 1 /\ committed >= OutputAmount(SentOutputs)
          /\ contributions = 1 \/ committed = OutputAmount(SentOutputs)
        BY <1>1, <1>2, <1>4 DEF OneContribution
    <2>1. CASE contributions = 1
        <3>1. OwnTotal(outs) = OwnTotal(SentOutputs) + put
            BY <1>3, <2>0, <2>1 DEF Balanced
        <3>2. put \in Int
            <4>1. IsFiniteSet(receiver_inputs) /\ receiver_inputs \subseteq DOMAIN Coin
                BY DEF TypeInv, InputsInv
            <4>2. \A c \in receiver_inputs : ValuesOf(receiver_inputs)[c] \in Nat
                BY <4>1, PsbtsAssumption DEF ValuesOf
            <4>3. put \in Nat
                BY <4>1, <4>2, SumNat DEF PutOf
            <4> HIDE DEF put
            <4> QED BY <4>3
        <3> QED BY <3>1, <3>2
    <2>2. CASE contributions # 1
        <3>1. contributions = 0
            BY <1>3, <2>0, <2>2
        <3>2. receiver_inputs = {} /\ OutputAmount(outs) = OutputAmount(SentOutputs)
            BY <1>3, <2>0, <2>2, <3>1 DEF Balanced
        <3>3. put = 0
            BY <3>2, PutNothing
        <3> QED BY <1>11, <3>2, <3>3
    <2> QED BY <2>1, <2>2
<1>13. Loss' = put + OwnTotal(SentOutputs) - (OwnTotal(outs) - fee)
    BY <1>2, <1>4, <1>6, Zenon DEF Loss
<1> HIDE DEF outs, fee, put
<1>14. Loss' = fee
    BY <1>10, <1>11, <1>12, <1>13
<1>15. Max({0, Added}) = Added
    BY <1>8, MaxOfPair
<1>16. Added * max_rate \in Int /\ Scale \in Nat
    BY <1>8, PsbtsAssumption, ProductType
<1> DEFINE w == Added * max_rate
<1>17. Loss' * Scale < w + Scale
    <2>1. Loss' \in Int /\ Loss' <= MaxFee(max_rate) /\ w \in Int /\ MaxFee(max_rate) \in Int
        BY <1>9, <1>10, <1>14, <1>16
    <2>2. MaxFee(max_rate) * Scale <= w + Scale - 1
        BY <1>9
    <2> HIDE DEF w
    <2> DEFINE loss == Loss'
               m == MaxFee(max_rate)
    <2> HIDE DEF loss, m
    <2>3. loss * Scale < w + Scale
        BY <1>16, <2>1, <2>2, BoundFrom DEF loss, m
    <2> QED BY <2>3 DEF loss
<1> QED BY <1>7, <1>10, <1>15, <1>17, Zenon DEF FeeWithin

(* finalize_proposal changes no amount. *)
LEMMA FinalizeBound ==
    ASSUME TypeInv, FeeBounded, finalize_proposal
    PROVE  FeeBounded'
<1>1. /\ stage = "ProvisionalProposal" /\ stage' = "PayjoinProposal"
      /\ UNCHANGED <<context, receiver_inputs, contributions, fee_range, committed>>
    BY Zenon DEF finalize_proposal
<1>2. proposal \in PSBTs
    BY <1>1 DEF TypeInv, ProposalInv
<1>3. proposal.outputs \in Seq(Outputs) /\ SameOutputs(proposal'.outputs, proposal.outputs)
    BY <1>2, FinalizeStep, PsbtType
<1>4. /\ OwnTotal(proposal'.outputs) = OwnTotal(proposal.outputs)
      /\ OutputsWeight(proposal'.outputs) = OutputsWeight(proposal.outputs)
    BY <1>3, SameSplit
<1>5. SentOutputs' = SentOutputs
    BY <1>1 DEF SentOutputs
<1>6. Added' = Added /\ Loss' = Loss
    BY <1>1, <1>4, <1>5, Zenon DEF Added, Loss
<1>7. AddedWeightFits' = AddedWeightFits /\ FeeWithin' = FeeWithin
    BY <1>1, <1>6, Zenon DEF AddedWeightFits, FeeWithin
<1>8. OneContribution' => OneContribution
    BY <1>1, <1>5, Zenon DEF OneContribution
<1>9. ReceiverFeeBounded' <=> (OneContribution' => FeeWithin')
    BY BoundUnfolded, PTL
<1> QED BY <1>7, <1>8, <1>9, BoundUnfolded, Zenon DEF FeeBounded

(* Every step keeps the invariant and the bound. *)
LEMMA NextMoney ==
    ASSUME OwnReplacements, TypeInv, TypeInv', MoneyInv, FeeBounded, [Next]_vars
    PROVE  MoneyInv' /\ FeeBounded'
<1>0. /\ stage' \notin {"ProvisionalProposal", "PayjoinProposal"} => FeeBounded'
      /\ stage' \notin {"Start", "Original", "WantsOutputs", "WantsInputs", "WantsFeeRange"}
            /\ contributions' \in Nat => MoneyInv'
    <2>1. stage' \notin {"ProvisionalProposal", "PayjoinProposal"} => FeeBounded'
        BY Zenon DEF FeeBounded, ReceiverFeeBounded
    <2> QED BY <2>1 DEF MoneyInv, FundedInv, BalancedInv, NothingPut, Building
<1>00. contributions \in Nat
    BY DEF MoneyInv, NothingPut
<1>1. CASE UNCHANGED vars
    <2>1. UNCHANGED <<context, params, stage, proposal, change_vout, receiver_inputs, contributions, fee_range, committed>>
        BY <1>1 DEF vars
    <2>2. SentOutputs' = SentOutputs /\ FeeOutputThere' = FeeOutputThere /\ Added' = Added
        BY <2>1 DEF SentOutputs, FeeOutputThere, FeeOutput, Original, Added
    <2>3. MoneyInv'
        BY <2>1, <2>2 DEF MoneyInv, FundedInv, BalancedInv, NothingPut
    <2>4. FeeBounded'
        <3>1. ReceiverFeeBounded' <=> (OneContribution' => FeeWithin')
            BY BoundUnfolded, PTL
        <3>2. OneContribution' = OneContribution /\ Loss' = Loss
            BY <2>1, <2>2, Zenon DEF OneContribution, Loss
        <3>3. FeeWithin' = FeeWithin /\ AddedWeightFits' = AddedWeightFits
            BY <2>1, <2>2, <3>2, Zenon DEF FeeWithin, AddedWeightFits
        <3> QED BY <3>1, <3>2, <3>3, BoundUnfolded, Zenon DEF FeeBounded
    <2> QED BY <2>3, <2>4
<1>2. CASE \E psbt \in Originals : BuildContext(psbt)
    <2>1. stage = "Start" /\ stage' = "Original" /\ UNCHANGED <<contributions, receiver_inputs>>
        BY <1>2, Zenon DEF BuildContext
    <2>2. MoneyInv'
        BY <2>1 DEF MoneyInv, FundedInv, BalancedInv, NothingPut, Building
    <2> QED BY <1>0, <2>1, <2>2
<1>3. CASE identify_receiver_outputs
    <2>1. stage' = "WantsOutputs"
        BY <1>3 DEF identify_receiver_outputs
    <2> QED BY <1>0, <1>3, <2>1, IdentifyMoney
<1>4. CASE \E r \in Replacements : replace_receiver_outputs(r.outputs, r.drain)
    <2>1. PICK r \in Replacements : replace_receiver_outputs(r.outputs, r.drain)
        BY <1>4
    <2>2. stage' = "WantsOutputs"
        BY <2>1, Zenon DEF replace_receiver_outputs
    <2>3. r.outputs \in Seq(Outputs) /\ r.drain \in OwnScripts
          /\ \A k \in DOMAIN r.outputs : r.outputs[k].script \in OwnScripts
        BY ReplacementType DEF OwnReplacements
    <2> QED BY <1>0, <2>1, <2>2, <2>3, ReplaceMoney
<1>5. CASE \E script \in OwnScripts : substitute_receiver_script(script)
    <2>1. PICK script \in OwnScripts : substitute_receiver_script(script)
        BY <1>5
    <2>2. stage' \in {"WantsOutputs", "OutOfBounds"}
        BY <2>1, Zenon DEF substitute_receiver_script, replace_receiver_outputs
    <2> QED BY <1>0, <2>1, <2>2, SubstituteMoney
<1>6. CASE commit_outputs \/ commit_inputs
    <2>1. stage' \in {"WantsInputs", "WantsFeeRange"}
        BY <1>6 DEF commit_outputs, commit_inputs
    <2> QED BY <1>0, <1>6, <2>1, CommitMoney
<1>7. CASE \E coins \in CoinLists, sequence \in Signals : contribute_inputs(coins, sequence)
    <2>1. PICK coins \in CoinLists, sequence \in Signals : contribute_inputs(coins, sequence)
        BY <1>7
    <2>2. stage' = "WantsInputs"
        BY <2>1, Zenon DEF contribute_inputs
    <2> QED BY <1>0, <2>1, <2>2, ContributeMoney
<1>8. CASE \E min_rate, max_rate \in {BroadcastMin} \union Rates : apply_fee_range(min_rate, max_rate)
    <2>1. PICK min_rate, max_rate \in {BroadcastMin} \union Rates : apply_fee_range(min_rate, max_rate)
        BY <1>8
    <2>2. min_rate \in Nat /\ max_rate \in Nat
        BY RatesType
    <2>3. /\ stage' \in {"SenderUnderflow", "FeeTooHigh", "DrainUnderflow", "ProvisionalProposal"}
          /\ contributions' = contributions
        BY <2>1, ApplyStep, Zenon DEF ApplyFails, ApplySucceeds
    <2>4. FeeBounded'
        BY <2>1, <2>2, ApplyBound
    <2> QED BY <1>0, <1>00, <2>3, <2>4
<1>9. CASE finalize_proposal
    <2>1. stage' = "PayjoinProposal" /\ contributions' = contributions
        BY <1>9, Zenon DEF finalize_proposal
    <2> QED BY <1>0, <1>00, <1>9, <2>1, FinalizeBound
<1>10. CASE (\E psbt \in OtherProposals : Answer(psbt)) \/ process_proposal
    <2>1. stage' \in {"OtherProposal", "Accepted", "Refused"} /\ contributions' = contributions
        BY <1>10, Zenon DEF Answer, process_proposal
    <2> QED BY <1>0, <1>00, <2>1
<1> QED BY <1>1, <1>2, <1>3, <1>4, <1>5, <1>6, <1>7, <1>8, <1>9, <1>10, Zenon DEF Next

(* The receiver loses at most max_effective_fee_rate times the weight it added,
   rounded up (contribute_inputs, calculate_psbt_with_fee_range), if it
   contributes in one call, replaces its outputs by no less and only by
   outputs of its own, and the added weight fits a machine word. *)
THEOREM ReceiverFeeAlwaysBounded ==
    ASSUME OwnReplacements
    PROVE  Spec => [](AddedWeightFits => ReceiverFeeBounded)
<1>1. Init => MoneyInv /\ FeeBounded
    <2>1. Init => MoneyInv
        BY DEF Init, MoneyInv, FundedInv, BalancedInv, NothingPut, Building
    <2>2. Init => ~ OneContribution
        BY DEF Init, OneContribution
    <2> QED BY <2>1, <2>2, BoundUnfolded, Zenon DEF FeeBounded
<1>2. TypeInv /\ TypeInv' /\ MoneyInv /\ FeeBounded /\ [Next]_vars => MoneyInv' /\ FeeBounded'
    BY NextMoney
<1>3. Spec => []FeeBounded
    BY <1>1, <1>2, TypeCorrect, PTL DEF Spec
<1> QED BY <1>3, PTL DEF FeeBounded
=============================================================================
