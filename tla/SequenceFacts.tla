---------------------------- MODULE SequenceFacts ----------------------------
(* What several proofs need of the naturals, of finite sets and of          *)
(* sequences: induction as a fact about sets of naturals, functions         *)
(* defined by recursion, and how the elements of a sequence and of a part   *)
(* of it correspond.                                                        *)
EXTENDS Integers, Subsequences, SequencesExt, FiniteSetTheorems, TLAPS

\* A set of naturals that holds 0 and the successor of each of its members is Nat:
\* what is missing would shift a finite set into a smaller one.
LEMMA NatInductionSet ==
    ASSUME NEW S \in SUBSET Nat, 0 \in S, \A n \in S : n + 1 \in S
    PROVE  S = Nat
<1>1. ASSUME NEW n \in Nat, n \notin S PROVE FALSE
  <2> DEFINE A == {i \in 0..n : i \in S}
             B == A \ {0}
             f == [i \in A |-> i + 1]
  <2>1. IsFiniteSet(0..n) /\ A \subseteq 0..n /\ 0 \in A
    BY FS_Interval
  <2>2. IsFiniteSet(A)
    BY <2>1, FS_Subset
  <2> HIDE DEF A
  <2>3. IsFiniteSet(B) /\ Cardinality(B) = Cardinality(A) - 1
    BY <2>1, <2>2, FS_RemoveElement
  <2>4. Cardinality(A) \in Nat
    BY <2>2, FS_CardinalityType
  <2>5. f \in [A -> B]
    <3>1. ASSUME NEW i \in A PROVE i + 1 \in B
      BY <1>1 DEF A
    <3>2. QED
      BY <3>1
  <2>6. Cardinality(B) < Cardinality(A)
    BY <2>3, <2>4
  <2>7. \E i, j \in A : i # j /\ f[i] = f[j]
    <3> HIDE DEF B, f
    <3>1. QED
      BY <2>2, <2>3, <2>5, <2>6, FS_PigeonHole
  <2>8. PICK i, j \in A : i # j /\ i + 1 = j + 1
    BY <2>7
  <2>9. i \in Nat /\ j \in Nat
    BY <2>8 DEF A
  <2>10. QED
    BY <2>8, <2>9
<1>2. QED
  BY <1>1

\* Induction up to n.
LEMMA InductionUpTo ==
    ASSUME NEW n \in Nat, NEW S \in SUBSET Nat, 0 \in S, \A m \in S : m + 1 <= n => m + 1 \in S
    PROVE  \A m \in 0 .. n : m \in S
<1> DEFINE N == {m \in Nat : m <= n => m \in S}
<1>1. 0 \in N /\ \A m \in N : m + 1 \in N
  OBVIOUS
<1>2. N = Nat
  <2>1. N \in SUBSET Nat
    OBVIOUS
  <2> HIDE DEF N
  <2>2. QED
    BY <1>1, <2>1, NatInductionSet
<1>3. QED
  BY <1>2

\* A function defined by recursion on 0 .. n exists.
Steps(step, n, S) == step \in [1 .. n -> [S -> S]]
HasRun(step, n, S, first) ==
    \E g \in [0 .. n -> S] : g[0] = first /\ \A i \in 1 .. n : g[i] = step[i][g[i - 1]]

LEMMA RecursionExists ==
    ASSUME NEW S, NEW n \in Nat, NEW first \in S, NEW step, Steps(step, n, S)
    PROVE  HasRun(step, n, S, first)
<1>0. step \in [1 .. n -> [S -> S]]
  BY DEF Steps
<1> DEFINE Upto(m) == \E g \in [0 .. m -> S] : g[0] = first /\ \A i \in 1 .. m : g[i] = step[i][g[i - 1]]
           N == {m \in Nat : m <= n => Upto(m)}
<1>1. Upto(0)
  <2> DEFINE g == [i \in 0 .. 0 |-> first]
  <2>1. g \in [0 .. 0 -> S] /\ g[0] = first
    OBVIOUS
  <2>2. \A i \in 1 .. 0 : FALSE
    OBVIOUS
  <2> HIDE DEF g
  <2>3. QED
    BY <2>1, <2>2
<1>2. ASSUME NEW m \in Nat, m + 1 <= n, Upto(m) PROVE Upto(m + 1)
  <2>1. PICK g \in [0 .. m -> S] : g[0] = first /\ \A i \in 1 .. m : g[i] = step[i][g[i - 1]]
    BY <1>2
  <2> DEFINE h == [i \in 0 .. m + 1 |-> IF i = m + 1 THEN step[m + 1][g[m]] ELSE g[i]]
  <2>2. step[m + 1][g[m]] \in S
    <3>1. m + 1 \in 1 .. n /\ m \in 0 .. m
      BY <1>2
    <3>2. QED
      BY <1>0, <3>1
  <2>3. \A i \in 0 .. m + 1 : i # m + 1 => i \in 0 .. m
    BY <1>2
  <2>4. h \in [0 .. m + 1 -> S]
    BY <2>2, <2>3
  <2>5. h[0] = first
    BY <1>2, <2>1
  <2>6. ASSUME NEW i \in 1 .. m + 1 PROVE h[i] = step[i][h[i - 1]]
    <3>1. i \in 0 .. m + 1 /\ i - 1 \in 0 .. m + 1 /\ i - 1 # m + 1
      BY <1>2
    <3>2. h[i - 1] = g[i - 1]
      BY <3>1
    <3>3. CASE i = m + 1
      <4>1. h[i] = step[m + 1][g[m]] /\ i - 1 = m
        BY <1>2, <3>1, <3>3
      <4>2. QED
        BY <3>2, <3>3, <4>1
    <3>4. CASE i # m + 1
      <4>1. h[i] = g[i] /\ i \in 1 .. m
        BY <1>2, <3>1, <3>4
      <4>2. QED
        BY <2>1, <3>2, <4>1
    <3>5. QED
      BY <3>3, <3>4
  <2> HIDE DEF h
  <2>7. QED
    BY <2>4, <2>5, <2>6
<1> HIDE DEF Upto
<1>3. 0 \in N
  BY <1>1
<1>4. \A m \in N : m + 1 \in N
  BY <1>2
<1>5. N = Nat
  <2> HIDE DEF N
  <2>1. N \in SUBSET Nat
    BY DEF N
  <2>2. QED
    BY <1>3, <1>4, <2>1, NatInductionSet
<1>6. n \in N
  BY <1>5
<1>7. QED
  BY <1>6 DEF Upto, HasRun

\* A function defined by recursion on the subsets of 1 .. n, taking the largest
\* member last, exists: FoldLeft over a sequence of n elements is its value
\* at 1 .. n.
IsFold(h, step, n, first) ==
    /\ h[{}] = first
    /\ \A s \in SUBSET (1 .. n) : s # {} => /\ Max(s) \in s
                                           /\ h[s] = step[Max(s)][h[s \ {Max(s)}]]
HasFold(step, n, S, first) == \E h \in [SUBSET (1 .. n) -> S] : IsFold(h, step, n, first)

LEMMA FoldExists ==
    ASSUME NEW S, NEW n \in Nat, NEW first \in S, NEW step, Steps(step, n, S)
    PROVE  HasFold(step, n, S, first)
<1>0. step \in [1 .. n -> [S -> S]]
  BY DEF Steps
<1> DEFINE N == {m \in Nat : m <= n => HasFold(step, m, S, first)}
<1>1. HasFold(step, 0, S, first)
  <2> DEFINE h == [s \in SUBSET (1 .. 0) |-> first]
  <2>1. h \in [SUBSET (1 .. 0) -> S] /\ h[{}] = first
    OBVIOUS
  <2>2. \A s \in SUBSET (1 .. 0) : s = {}
    OBVIOUS
  <2> HIDE DEF h
  <2>3. QED
    BY <2>1, <2>2 DEF HasFold, IsFold
<1>2. ASSUME NEW m \in Nat, m + 1 <= n, HasFold(step, m, S, first)
      PROVE  HasFold(step, m + 1, S, first)
  <2>1. PICK h \in [SUBSET (1 .. m) -> S] : IsFold(h, step, m, first)
    BY <1>2 DEF HasFold
  <2> DEFINE Taken(s) == step[m + 1][h[s \ {m + 1}]]
             g == [s \in SUBSET (1 .. m + 1) |-> IF m + 1 \in s THEN Taken(s) ELSE h[s]]
  <2>2. \A s \in SUBSET (1 .. m + 1) : s \ {m + 1} \in SUBSET (1 .. m)
    BY <1>2
  <2>3. \A s \in SUBSET (1 .. m + 1) : m + 1 \notin s => s \in SUBSET (1 .. m)
    BY <1>2
  <2>4. step[m + 1] \in [S -> S]
    <3>1. m + 1 \in 1 .. n
      BY <1>2
    <3>2. QED
      BY <1>0, <3>1
  <2>5. g \in [SUBSET (1 .. m + 1) -> S]
    BY <2>2, <2>3, <2>4
  <2>6. g[{}] = first
    BY <2>1 DEF IsFold
  <2>7. ASSUME NEW s \in SUBSET (1 .. m + 1), s # {}
        PROVE  Max(s) \in s /\ g[s] = step[Max(s)][g[s \ {Max(s)}]]
    <3>1. s \ {Max(s)} \in SUBSET (1 .. m + 1)
      OBVIOUS
    <3>2. CASE m + 1 \in s
      <4>1. Max(s) = m + 1
        <5>1. \A k \in s : k \in Int /\ m + 1 >= k
          BY <2>7, <1>2
        <5>2. \A x \in s : (\A y \in s : x >= y) => x = m + 1
          BY <3>2, <5>1
        <5>3. QED
          BY <3>2, <5>1, <5>2 DEF Max
      <4>2. g[s] = Taken(s) /\ g[s \ {m + 1}] = h[s \ {m + 1}]
        BY <3>1, <3>2, <4>1
      <4>3. QED
        BY <3>2, <4>1, <4>2
    <3>3. CASE m + 1 \notin s
      <4>1. g[s] = h[s] /\ g[s \ {Max(s)}] = h[s \ {Max(s)}]
        BY <3>1, <3>3
      <4>2. Max(s) \in s /\ h[s] = step[Max(s)][h[s \ {Max(s)}]]
        BY <2>1, <2>3, <2>7, <3>3 DEF IsFold
      <4>3. QED
        BY <4>1, <4>2
    <3>4. QED
      BY <3>2, <3>3
  <2> HIDE DEF g
  <2>8. QED
    BY <2>5, <2>6, <2>7 DEF HasFold, IsFold
<1>3. 0 \in N /\ \A m \in N : m + 1 \in N
  BY <1>1, <1>2
<1>4. N = Nat
  <2>1. N \in SUBSET Nat
    OBVIOUS
  <2> HIDE DEF N
  <2>2. QED
    BY <1>3, <2>1, NatInductionSet
<1>5. n \in N
  BY <1>4
<1>6. QED
  BY <1>5

\* Along the sequence: the fold of one element more is one step more.
LEMMA FoldRuns ==
    ASSUME NEW n \in Nat, NEW step, NEW first, NEW h, IsFold(h, step, n, first)
    PROVE  /\ h[1 .. 0] = first
           /\ \A m \in 1 .. n : h[1 .. m] = step[m][h[1 .. m - 1]]
<1>1. 1 .. 0 = {}
  OBVIOUS
<1>2. ASSUME NEW m \in 1 .. n PROVE h[1 .. m] = step[m][h[1 .. m - 1]]
  <2>1. 1 .. m \in SUBSET (1 .. n) /\ m \in 1 .. m /\ (1 .. m) \ {m} = 1 .. m - 1
    OBVIOUS
  <2>2. Max(1 .. m) = m
    <3>1. \A x \in 1 .. m : (\A y \in 1 .. m : x >= y) => x = m
      BY <2>1
    <3>2. \A y \in 1 .. m : m >= y
      OBVIOUS
    <3>3. QED
      BY <2>1, <3>1, <3>2 DEF Max
  <2>3. QED
    BY <2>1, <2>2 DEF IsFold
<1>3. QED
  BY <1>1, <1>2 DEF IsFold

LEMMA UptoMax ==
    ASSUME NEW k \in Nat
    PROVE  Max(1 .. k + 1) = k + 1 /\ (1 .. k + 1) \ {k + 1} = 1 .. k
<1> DEFINE s == 1 .. k + 1
<1>1. k + 1 \in s /\ s \ {k + 1} = 1 .. k
  OBVIOUS
<1>2. \A x \in s : (\A y \in s : x >= y) => x = k + 1
  BY <1>1
<1>3. \A y \in s : k + 1 >= y
  OBVIOUS
<1> HIDE DEF s
<1>4. Max(s) = k + 1
  BY <1>1, <1>2, <1>3 DEF Max
<1>5. QED
  BY <1>1, <1>4 DEF s

\* A set of naturals that is not empty has a smallest member.
LEMMA SmallestExists ==
    ASSUME NEW S \in SUBSET Nat, S # {}
    PROVE  /\ Min(S) \in S
           /\ \A k \in S : Min(S) <= k
<1> DEFINE N == {n \in Nat : \A k \in 0..n : k \notin S}
<1>1. \E m \in S : \A k \in S : m <= k
  <2>1. SUFFICES ASSUME \A m \in S : \E k \in S : k < m PROVE FALSE
    BY DEF N
  <2>2. 0 \in N
    BY <2>1
  <2>3. ASSUME NEW n \in N PROVE n + 1 \in N
    <3>1. n \in Nat /\ \A k \in 0..n : k \notin S
      OBVIOUS
    <3>2. \A k \in S : ~(k < n + 1)
      BY <3>1
    <3>3. n + 1 \notin S
      BY <2>1, <3>2
    <3>4. QED
      BY <3>1, <3>3
  <2>4. N = Nat
    <3> HIDE DEF N
    <3>1. N \in SUBSET Nat
      BY DEF N
    <3>2. QED
      BY <2>2, <2>3, <3>1, NatInductionSet
  <2>5. PICK m \in S : TRUE
    OBVIOUS
  <2>6. m \in N
    <3> HIDE DEF N
    <3>1. QED
      BY <2>4
  <2>7. QED
    BY <2>6
<1>2. QED
  BY <1>1 DEF Min

\* The largest member of a set that is bounded.
LEMMA LargestExists ==
    ASSUME NEW n \in Nat, NEW S \in SUBSET (0 .. n), S # {}
    PROVE  Max(S) \in S /\ \A k \in S : k <= Max(S)
<1> DEFINE T == {n - k : k \in S}
<1>1. T \in SUBSET Nat /\ T # {}
  <2>1. \A k \in S : k \in 0 .. n /\ n - k \in Nat
    OBVIOUS
  <2>2. QED
    BY <2>1
<1>2. Min(T) \in T /\ \A k \in T : Min(T) <= k
  <2> HIDE DEF T
  <2>1. QED
    BY <1>1, SmallestExists
<1>3. PICK m \in S : Min(T) = n - m
  BY <1>2
<1>4. \A k \in S : n - k \in T
  OBVIOUS
<1>5. \A k \in S : k <= m
  <2> HIDE DEF T
  <2>1. QED
    BY <1>2, <1>3, <1>4
<1>6. QED
  BY <1>5 DEF Max

\* A fold over n elements as a run of n steps.
IsRun(g, step, n, first) == g[0] = first /\ \A i \in 1 .. n : g[i] = step[i][g[i - 1]]

Folds(h, step, n, S, first) ==
    /\ h[{}] = first
    /\ \A s \in SUBSET (1 .. n) : s # {} /\ h[s \ {Max(s)}] \in S => h[s] = step[Max(s)][h[s \ {Max(s)}]]

LEMMA FoldIsRun ==
    ASSUME NEW n \in Nat, NEW S, NEW first \in S, NEW step, Steps(step, n, S), NEW h, Folds(h, step, n, S, first)
    PROVE  \E g \in [0 .. n -> S] : IsRun(g, step, n, first) /\ g[n] = h[1 .. n]
<1> DEFINE g == [i \in 0 .. n |-> h[1 .. i]]
           N == {m \in Nat : m <= n => g[m] \in S}
<1>0. step \in [1 .. n -> [S -> S]]
  BY DEF Steps
<1>1. g[0] = first
  <2>1. 1 .. 0 = {} /\ 0 \in 0 .. n
    OBVIOUS
  <2>2. g[0] = h[1 .. 0]
    BY <2>1
  <2>3. QED
    BY <2>1, <2>2 DEF Folds
<1>2. ASSUME NEW i \in 1 .. n, g[i - 1] \in S PROVE g[i] = step[i][g[i - 1]]
  <2>1. i - 1 \in Nat /\ i - 1 \in 0 .. n /\ i \in 0 .. n /\ (i - 1) + 1 = i
    OBVIOUS
  <2>2. Max(1 .. i) = i /\ (1 .. i) \ {i} = 1 .. i - 1
    BY <2>1, UptoMax
  <2>3. 1 .. i \in SUBSET (1 .. n) /\ i \in 1 .. i
    OBVIOUS
  <2>4. g[i] = h[1 .. i] /\ g[i - 1] = h[1 .. i - 1]
    BY <2>1
  <2> HIDE DEF g
  <2>5. h[1 .. i] = step[i][h[1 .. i - 1]]
    BY <1>2, <2>2, <2>3, <2>4 DEF Folds
  <2>6. QED
    BY <2>4, <2>5
<1>3. g[n] = h[1 .. n] /\ g = [i \in 0 .. n |-> g[i]]
  OBVIOUS
<1> HIDE DEF g
<1>4. ASSUME NEW m \in N, m + 1 <= n PROVE m + 1 \in N
  <2>1. m \in Nat /\ m + 1 \in 1 .. n /\ g[m] \in S /\ m + 1 - 1 = m
    BY <1>4
  <2>2. g[m + 1] = step[m + 1][g[m]]
    BY <1>2, <2>1
  <2>3. g[m + 1] \in S
    BY <1>0, <2>1, <2>2
  <2>4. QED
    BY <2>1, <2>3
<1>5. \A m \in 0 .. n : m \in N
  <2>1. 0 \in N /\ N \in SUBSET Nat
    BY <1>1
  <2> HIDE DEF N
  <2>2. QED
    BY <1>4, <2>1, InductionUpTo
<1>6. \A i \in 0 .. n : g[i] \in S
  BY <1>5
<1>7. g \in [0 .. n -> S]
  BY <1>3, <1>6
<1>8. \A i \in 1 .. n : g[i] = step[i][g[i - 1]]
  <2> TAKE i \in 1 .. n
  <2>1. i - 1 \in 0 .. n
    OBVIOUS
  <2>2. QED
    BY <1>2, <1>6, <2>1
<1>9. QED
  BY <1>1, <1>3, <1>7, <1>8 DEF IsRun

-----------------------------------------------------------------------------
LEMMA AtMostOne ==
    ASSUME NEW S, \A x, y \in S : x = y
    PROVE  Cardinality(S) = IF S = {} THEN 0 ELSE 1
<1>1. CASE S = {}
  BY <1>1, FS_EmptySet
<1>2. CASE S # {}
  <2>1. PICK x : S = {x}
    BY <1>2
  <2>2. QED
    BY <1>2, <2>1, FS_Singleton
<1>3. QED
  BY <1>1, <1>2

LEMMA DisjointUnion ==
    ASSUME NEW A, NEW B, IsFiniteSet(A), IsFiniteSet(B), A \cap B = {}
    PROVE  Cardinality(A \cup B) = Cardinality(A) + Cardinality(B)
<1>1. Cardinality(A \cup B) = Cardinality(A) + Cardinality(B) - Cardinality(A \cap B)
  BY FS_Union
<1>2. Cardinality(A \cap B) = 0
  BY FS_EmptySet
<1>3. Cardinality(A) \in Nat /\ Cardinality(B) \in Nat
  BY FS_CardinalityType
<1>4. QED
  BY <1>1, <1>2, <1>3

\* The elements of a finite set can be put in a sequence.
LEMMA SetSequence ==
    ASSUME NEW S, IsFiniteSet(S)
    PROVE  SetToSeq(S) \in Seq(S)
<1>1. \E f \in [1..Cardinality(S) -> S] : IsInjective(f)
  <2>1. PICK n \in Nat : ExistsBijection(1..n, S)
    BY FS_NatBijection
  <2>2. n = Cardinality(S)
    BY <2>1, FS_CountingElements
  <2>3. PICK f \in Bijection(1..n, S) : TRUE
    BY <2>1 DEF ExistsBijection
  <2>4. f \in [1..n -> S] /\ IsInjective(f)
    BY <2>3 DEF Bijection, Injection, IsInjective
  <2>5. QED
    BY <2>2, <2>4
<1>2. SetToSeq(S) \in [1..Cardinality(S) -> S]
  BY <1>1 DEF SetToSeq
<1>3. Cardinality(S) \in Nat
  BY FS_CardinalityType
<1>4. QED
  BY <1>2, <1>3

-----------------------------------------------------------------------------
\* new has the elements of old at the indices in kept, in their order.
Thinned(new, old, kept) ==
    \E h \in [DOMAIN new -> kept] :
        /\ \A i, j \in DOMAIN new : i < j => h[i] < h[j]
        /\ \A k \in kept : \E i \in DOMAIN new : h[i] = k
        /\ \A i \in DOMAIN new : new[i] = old[h[i]]

\* A thinned sequence takes each of its elements from an index of its own.
LEMMA ThinnedFrom ==
    ASSUME NEW T, NEW new \in Seq(T), NEW old \in Seq(T),
           NEW kept \in SUBSET DOMAIN old, Thinned(new, old, kept)
    PROVE  \E h \in [DOMAIN new -> kept] :
              /\ \A i, j \in DOMAIN new : h[i] = h[j] => i = j
              /\ \A k \in kept : \E i \in DOMAIN new : h[i] = k
              /\ \A i \in DOMAIN new : h[i] \in kept /\ new[i] = old[h[i]]
<1>1. PICK h \in [DOMAIN new -> kept] :
        /\ \A i, j \in DOMAIN new : i < j => h[i] < h[j]
        /\ \A k \in kept : \E i \in DOMAIN new : h[i] = k
        /\ \A i \in DOMAIN new : new[i] = old[h[i]]
  BY DEF Thinned
<1>2. \A i \in DOMAIN new : h[i] \in kept
  BY <1>1
<1>3. \A i, j \in DOMAIN new : h[i] = h[j] => i = j
  <2>1. SUFFICES ASSUME NEW i \in DOMAIN new, NEW j \in DOMAIN new, h[i] = h[j], i # j
                 PROVE  FALSE
    OBVIOUS
  <2>2. i \in Int /\ j \in Int
    OBVIOUS
  <2>3. CASE \E a, b \in DOMAIN new : a < b /\ h[a] = h[b]
    <3>1. PICK a, b \in DOMAIN new : a < b /\ h[a] = h[b]
      BY <2>3
    <3>2. h[a] < h[b]
      BY <1>1, <3>1
    <3>3. h[a] \in kept /\ kept \subseteq Int
      BY <1>2
    <3>4. QED
      BY <3>1, <3>2, <3>3
  <2>4. QED
    BY <2>1, <2>2, <2>3
<1>4. QED
  BY <1>1, <1>2, <1>3

\* It holds what the kept indices held.
LEMMA ThinnedElements ==
    ASSUME NEW T, NEW new \in Seq(T), NEW old \in Seq(T),
           NEW kept \in SUBSET DOMAIN old, Thinned(new, old, kept)
    PROVE  /\ \A v : (\E i \in DOMAIN new : new[i] = v) <=> (\E k \in kept : old[k] = v)
           /\ ToSet(new) = {old[k] : k \in kept}
           /\ IsInjective(old) => IsInjective(new)
<1>1. PICK h \in [DOMAIN new -> kept] :
        /\ \A i, j \in DOMAIN new : h[i] = h[j] => i = j
        /\ \A k \in kept : \E i \in DOMAIN new : h[i] = k
        /\ \A i \in DOMAIN new : h[i] \in kept /\ new[i] = old[h[i]]
  BY ThinnedFrom
<1>2. \A v : (\E i \in DOMAIN new : new[i] = v) <=> (\E k \in kept : old[k] = v)
  BY <1>1
<1>3. ToSet(new) = {old[k] : k \in kept}
  BY <1>1 DEF ToSet
<1>4. IsInjective(old) => IsInjective(new)
  BY <1>1 DEF IsInjective
<1>5. QED
  BY <1>2, <1>3, <1>4

\* What is left without the first element, or without any one, is a thinned
\* sequence.
LEMMA TailThins ==
    ASSUME NEW T, NEW seq \in Seq(T), seq # << >>
    PROVE  /\ Tail(seq) \in Seq(T) /\ Head(seq) = seq[1] /\ 1 \in DOMAIN seq
           /\ Thinned(Tail(seq), seq, DOMAIN seq \ {1})
<1> DEFINE new == Tail(seq)
           h == [i \in DOMAIN new |-> i + 1]
<1>1. /\ new \in Seq(T) /\ Len(new) = Len(seq) - 1 /\ Head(seq) = seq[1]
      /\ DOMAIN new = 1..(Len(seq) - 1) /\ DOMAIN seq = 1..Len(seq)
      /\ Len(seq) \in Nat /\ Len(seq) # 0
      /\ \A i \in DOMAIN new : new[i] = seq[i + 1]
  OBVIOUS
<1> HIDE DEF new
<1>2. h \in [DOMAIN new -> DOMAIN seq \ {1}]
  BY <1>1
<1>3. \A i, j \in DOMAIN new : i < j => h[i] < h[j]
  BY <1>1
<1>4. ASSUME NEW k \in DOMAIN seq \ {1} PROVE \E i \in DOMAIN new : h[i] = k
  <2>1. k - 1 \in DOMAIN new /\ (k - 1) + 1 = k
    BY <1>1
  <2>2. QED
    BY <2>1
<1>5. \A i \in DOMAIN new : new[i] = seq[h[i]]
  BY <1>1
<1> HIDE DEF h
<1>6. Thinned(new, seq, DOMAIN seq \ {1})
  BY <1>2, <1>3, <1>4, <1>5 DEF Thinned
<1>7. QED
  BY <1>1, <1>6 DEF new

LEMMA Concat ==
    ASSUME NEW T, NEW s \in Seq(T), NEW t \in Seq(T)
    PROVE  /\ s \o t \in Seq(T)
           /\ Len(s \o t) = Len(s) + Len(t)
           /\ DOMAIN (s \o t) = 1..(Len(s) + Len(t))
           /\ \A i \in DOMAIN (s \o t) :
                 (s \o t)[i] = IF i <= Len(s) THEN s[i] ELSE t[i - Len(s)]
OBVIOUS

LEMMA RemoveThins ==
    ASSUME NEW T, NEW seq \in Seq(T), NEW n \in DOMAIN seq
    PROVE  /\ RemoveAt(seq, n) \in Seq(T)
           /\ Thinned(RemoveAt(seq, n), seq, DOMAIN seq \ {n})
<1> DEFINE new == RemoveAt(seq, n)
           front == SubSeq(seq, 1, n - 1)
           back == SubSeq(seq, n + 1, Len(seq))
           h == [i \in DOMAIN new |-> IF i < n THEN i ELSE i + 1]
<1>1. Len(seq) \in Nat /\ n \in 1..Len(seq) /\ DOMAIN seq = 1..Len(seq)
  OBVIOUS
<1>2. /\ front \in Seq(T) /\ Len(front) = n - 1
      /\ \A i \in 1..(n - 1) : front[i] = seq[i]
  BY <1>1
<1>3. /\ back \in Seq(T) /\ Len(back) = Len(seq) - n
      /\ \A i \in 1..(Len(seq) - n) : back[i] = seq[i + n]
  BY <1>1
<1>4. new = front \o back
  BY DEF RemoveAt
<1> HIDE DEF new, front, back
<1>5. /\ new \in Seq(T) /\ DOMAIN new = 1..(Len(seq) - 1)
      /\ \A i \in 1..(n - 1) : new[i] = front[i]
      /\ \A i \in n..(Len(seq) - 1) : new[i] = back[i - (n - 1)]
  <2>1. /\ new \in Seq(T) /\ DOMAIN new = 1..(Len(front) + Len(back))
        /\ \A i \in DOMAIN new :
              new[i] = IF i <= Len(front) THEN front[i] ELSE back[i - Len(front)]
    BY <1>2, <1>3, <1>4, Concat
  <2>2. Len(front) + Len(back) = Len(seq) - 1 /\ Len(front) = n - 1 /\ n \in Nat
    BY <1>1, <1>2, <1>3
  <2>3. DOMAIN new = 1..(Len(seq) - 1)
    BY <2>1, <2>2
  <2>4. \A i \in 1..(n - 1) : i \in DOMAIN new /\ i <= Len(front)
    BY <1>1, <2>2, <2>3
  <2>5. \A i \in n..(Len(seq) - 1) : i \in DOMAIN new /\ ~(i <= Len(front))
    BY <1>1, <2>2, <2>3
  <2>6. QED
    BY <2>1, <2>2, <2>3, <2>4, <2>5
<1>6. \A i \in DOMAIN new : new[i] = seq[h[i]]
  <2>1. SUFFICES ASSUME NEW i \in DOMAIN new PROVE new[i] = seq[h[i]]
    OBVIOUS
  <2>2. CASE i < n
    BY <1>1, <1>2, <1>5, <2>2
  <2>3. CASE ~(i < n)
    <3>1. i \in n..(Len(seq) - 1) /\ i - (n - 1) \in 1..(Len(seq) - n)
      BY <1>1, <1>5, <2>3
    <3>2. new[i] = back[i - (n - 1)] /\ back[i - (n - 1)] = seq[(i - (n - 1)) + n]
      BY <1>3, <1>5, <3>1
    <3>3. (i - (n - 1)) + n = i + 1
      BY <1>1, <3>1
    <3>4. QED
      BY <2>3, <3>2, <3>3
  <2>4. QED
    BY <2>2, <2>3
<1>7. h \in [DOMAIN new -> DOMAIN seq \ {n}]
  BY <1>1, <1>5
<1>8. \A i, j \in DOMAIN new : i < j => h[i] < h[j]
  BY <1>1, <1>5
<1>9. ASSUME NEW k \in DOMAIN seq \ {n} PROVE \E i \in DOMAIN new : h[i] = k
  <2>1. CASE k < n
    <3>1. k \in DOMAIN new /\ h[k] = k
      BY <1>1, <1>5, <2>1
    <3>2. QED
      BY <3>1
  <2>2. CASE k > n
    <3>1. k - 1 \in DOMAIN new /\ h[k - 1] = (k - 1) + 1 /\ (k - 1) + 1 = k
      BY <1>1, <1>5, <2>2
    <3>2. QED
      BY <3>1
  <2>3. QED
    BY <1>1, <2>1, <2>2
<1> HIDE DEF h
<1>10. Thinned(new, seq, DOMAIN seq \ {n})
  BY <1>6, <1>7, <1>8, <1>9 DEF Thinned
<1>11. QED
  BY <1>5, <1>10 DEF new
-----------------------------------------------------------------------------
(* What SubseqAt leaves is a thinned sequence.                             *)

\* The prefixes of what SubseqAt leaves.
PrefixTable(f, seq, kept) ==
    f = [i \in 0..Len(seq) |->
            IF i = 0 THEN << >>
            ELSE IF i \in kept THEN Append(f[i - 1], seq[i]) ELSE f[i - 1]]

LEMMA PrefixesExist ==
    ASSUME NEW T, NEW seq \in Seq(T), NEW kept
    PROVE  \E f : PrefixTable(f, seq, kept)
<1> DEFINE Partial(n, f) ==
               f = [i \in 0..n |->
                       IF i = 0 THEN << >>
                       ELSE IF i \in kept THEN Append(f[i - 1], seq[i]) ELSE f[i - 1]]
           S == {n \in Nat : \E f : Partial(n, f)}
<1>1. 0 \in S
  <2>1. Partial(0, [i \in 0..0 |-> << >>])
    OBVIOUS
  <2>2. QED
    BY <2>1
<1>2. ASSUME NEW n \in S PROVE n + 1 \in S
  <2>2. n \in Nat
    OBVIOUS
  <2>3. PICK f : Partial(n, f)
    BY <2>2
  <2> DEFINE last == IF n + 1 \in kept THEN Append(f[n], seq[n + 1]) ELSE f[n]
             g == [i \in 0..(n + 1) |-> IF i = n + 1 THEN last ELSE f[i]]
  <2>4. ASSUME NEW i \in 0..(n + 1)
        PROVE  g[i] = IF i = 0 THEN << >>
                      ELSE IF i \in kept THEN Append(g[i - 1], seq[i]) ELSE g[i - 1]
    <3>1. CASE i = n + 1
      <4>1. i # 0 /\ i - 1 \in 0..(n + 1) /\ i - 1 # n + 1 /\ i - 1 = n
        BY <2>2, <3>1
      <4>2. g[i - 1] = f[n] /\ g[i] = last
        BY <3>1, <4>1
      <4>3. QED
        BY <3>1, <4>1, <4>2
    <3>2. CASE i # n + 1
      <4>1. i \in 0..n
        BY <2>2, <3>2
      <4>2. g[i] = f[i]
        BY <3>2, <4>1
      <4>3. f[i] = IF i = 0 THEN << >>
                   ELSE IF i \in kept THEN Append(f[i - 1], seq[i]) ELSE f[i - 1]
        BY <2>3, <4>1
      <4>4. i # 0 => g[i - 1] = f[i - 1]
        BY <2>2, <4>1
      <4>5. QED
        BY <4>2, <4>3, <4>4
    <3>3. QED
      BY <3>1, <3>2
  <2>5. g = [i \in 0..(n + 1) |-> g[i]]
    OBVIOUS
  <2> HIDE DEF g
  <2>6. Partial(n + 1, g)
    BY <2>4, <2>5
  <2>7. \E h : Partial(n + 1, h)
    BY <2>6
  <2> HIDE DEF Partial
  <2>8. QED
    BY <2>2, <2>7
<1>3. S = Nat
  <2> HIDE DEF S
  <2>1. S \in SUBSET Nat
    BY DEF S
  <2>2. QED
    BY <1>1, <1>2, <2>1, NatInductionSet
<1>4. \E f : Partial(Len(seq), f)
  <2> HIDE DEF Partial
  <2>1. Len(seq) \in S
    <3> HIDE DEF S
    <3>1. Len(seq) \in Nat
      OBVIOUS
    <3>2. QED
      BY <1>3, <3>1
  <2>2. QED
    BY <2>1
<1>5. QED
  BY <1>4 DEF PrefixTable

LEMMA SubseqPrefixes ==
    ASSUME NEW T, NEW seq \in Seq(T), NEW kept
    PROVE  \E f : PrefixTable(f, seq, kept) /\ SubseqAt(seq, kept) = f[Len(seq)]
<1> DEFINE f == CHOOSE prefix : PrefixTable(prefix, seq, kept)
<1>1. PrefixTable(f, seq, kept)
  BY PrefixesExist
<1>2. SubseqAt(seq, kept) = f[Len(seq)]
  BY Zenon DEF SubseqAt, PrefixTable
<1>3. QED
  BY <1>1, <1>2

\* Where element i of prefix n comes from.
LEMMA SubseqThins ==
    ASSUME NEW T, NEW seq \in Seq(T), NEW kept \in SUBSET DOMAIN seq
    PROVE  /\ SubseqAt(seq, kept) \in Seq(T)
           /\ Thinned(SubseqAt(seq, kept), seq, kept)
<1>1. PICK f : PrefixTable(f, seq, kept) /\ SubseqAt(seq, kept) = f[Len(seq)]
  BY SubseqPrefixes
<1> DEFINE Upto(n) == {k \in kept : k <= n}
           Good(n) == /\ f[n] \in Seq(T)
                      /\ Thinned(f[n], seq, Upto(n))
           S == {n \in Nat : n <= Len(seq) => Good(n)}
<1>2. Len(seq) \in Nat /\ kept \subseteq 1..Len(seq)
  OBVIOUS
<1>3. 0 \in S
  <2>1. f[0] = << >>
    BY <1>2, <1>1 DEF PrefixTable
  <2>2. Upto(0) = {}
    BY <1>2
  <2>3. Thinned(<< >>, seq, {})
    <3>1. DOMAIN << >> = {}
      OBVIOUS
    <3>2. [i \in {} |-> i] \in [{} -> {}]
      OBVIOUS
    <3>3. QED
      BY <3>1, <3>2 DEF Thinned
  <2>4. f[0] \in Seq(T)
    BY <2>1
  <2> HIDE DEF Upto
  <2>5. Good(0)
    BY <2>1, <2>2, <2>3, <2>4
  <2> HIDE DEF Good
  <2>6. QED
    BY <2>5
<1>4. ASSUME NEW n \in S PROVE n + 1 \in S
  <2>1. n \in Nat
    OBVIOUS
  <2>2. SUFFICES ASSUME n + 1 <= Len(seq) PROVE Good(n + 1)
    <3> HIDE DEF Good
    <3>1. QED
      BY <2>1
  <2>3. Good(n)
    BY <2>1, <2>2, <1>2
  <2>4. f[n + 1] = IF n + 1 \in kept THEN Append(f[n], seq[n + 1]) ELSE f[n]
    <3>1. n + 1 \in 0..Len(seq) /\ n + 1 # 0 /\ (n + 1) - 1 = n
      BY <2>1, <2>2, <1>2
    <3>2. QED
      BY <3>1, <1>1 DEF PrefixTable
  <2>5. CASE n + 1 \notin kept
    <3>1. Upto(n + 1) = Upto(n)
      BY <2>1, <1>2, <2>5
    <3>2. f[n + 1] = f[n]
      BY <2>4, <2>5
    <3> HIDE DEF Upto
    <3>3. QED
      BY <2>3, <3>1, <3>2
  <2>6. CASE n + 1 \in kept
    <3> DEFINE p == f[n]
               q == f[n + 1]
    <3>1. p \in Seq(T) /\ Thinned(p, seq, Upto(n)) /\ q = Append(p, seq[n + 1])
      BY <2>3, <2>4, <2>6
    <3>2. seq[n + 1] \in T
      BY <2>1, <2>2, <1>2
    <3> HIDE DEF p, q
    <3>3. /\ q \in Seq(T) /\ DOMAIN q = 1..(Len(p) + 1) /\ DOMAIN p = 1..Len(p)
          /\ Len(p) \in Nat /\ q[Len(p) + 1] = seq[n + 1]
          /\ \A i \in DOMAIN p : q[i] = p[i]
      BY <3>1, <3>2
    <3>4. PICK h \in [DOMAIN p -> Upto(n)] :
            /\ \A i, j \in DOMAIN p : i < j => h[i] < h[j]
            /\ \A k \in Upto(n) : \E i \in DOMAIN p : h[i] = k
            /\ \A i \in DOMAIN p : p[i] = seq[h[i]]
      BY <3>1 DEF Thinned
    <3> DEFINE g == [i \in DOMAIN q |-> IF i = Len(p) + 1 THEN n + 1 ELSE h[i]]
    <3>5. \A i \in DOMAIN q : i = Len(p) + 1 \/ i \in DOMAIN p
      BY <3>3
    <3>6. \A i \in DOMAIN p : i # Len(p) + 1 /\ i \in DOMAIN q /\ g[i] = h[i]
      BY <3>3
    <3>7. g[Len(p) + 1] = n + 1 /\ Len(p) + 1 \in DOMAIN q
      BY <3>3
    <3>8. Upto(n + 1) = Upto(n) \cup {n + 1} /\ \A k \in Upto(n) : k \in Int /\ k < n + 1
      BY <2>1, <1>2, <2>6
    <3>9. g \in [DOMAIN q -> Upto(n + 1)]
      <4> HIDE DEF Upto
      <4>1. ASSUME NEW i \in DOMAIN q
            PROVE  (IF i = Len(p) + 1 THEN n + 1 ELSE h[i]) \in Upto(n + 1)
        BY <3>4, <3>5, <3>8
      <4>2. QED
        BY <4>1
    <3> HIDE DEF g, Upto
    <3>10. \A i, j \in DOMAIN q : i < j => g[i] < g[j]
      <4>1. SUFFICES ASSUME NEW i \in DOMAIN q, NEW j \in DOMAIN q, i < j
                     PROVE  g[i] < g[j]
        OBVIOUS
      <4>2. i \in DOMAIN p
        BY <3>3, <4>1
      <4>3. CASE j \in DOMAIN p
        BY <3>4, <3>6, <4>1, <4>2, <4>3
      <4>4. CASE j = Len(p) + 1
        <5>1. h[i] \in Upto(n)
          BY <3>4, <4>2
        <5>2. QED
          BY <3>6, <3>7, <3>8, <4>2, <4>4, <5>1
      <4>5. QED
        BY <3>5, <4>3, <4>4
    <3>11. \A k \in Upto(n + 1) : \E i \in DOMAIN q : g[i] = k
      BY <3>4, <3>6, <3>7, <3>8
    <3>12. \A i \in DOMAIN q : q[i] = seq[g[i]]
      BY <3>3, <3>4, <3>5, <3>6, <3>7
    <3>13. Thinned(q, seq, Upto(n + 1))
      BY <3>9, <3>10, <3>11, <3>12 DEF Thinned
    <3>14. QED
      BY <3>3, <3>13 DEF q
  <2>7. QED
    BY <2>5, <2>6
<1>5. S = Nat
  <2> HIDE DEF S
  <2>1. S \in SUBSET Nat
    BY DEF S
  <2>2. QED
    BY <1>3, <1>4, <2>1, NatInductionSet
<1>6. Good(Len(seq))
  <2> HIDE DEF Good
  <2>1. Len(seq) \in S
    <3> HIDE DEF S
    <3>1. QED
      BY <1>2, <1>5
  <2>2. QED
    BY <1>2, <2>1
<1>7. Upto(Len(seq)) = kept
  BY <1>2
<1>8. QED
  <2> HIDE DEF Upto
  <2>1. QED
    BY <1>1, <1>6, <1>7

-----------------------------------------------------------------------------
\* The sum of a sequence of naturals, and of two joined sequences.
Adds(g, ns) ==
    /\ g \in [0 .. Len(ns) -> Nat] /\ g[0] = 0
    /\ \A i \in 1 .. Len(ns) : g[i] = g[i - 1] + ns[i]
Total(ns) == (CHOOSE g : Adds(g, ns))[Len(ns)]

LEMMA TotalIs ==
    ASSUME NEW ns \in Seq(Nat)
    PROVE  /\ \E g : Adds(g, ns)
           /\ \A g : Adds(g, ns) => Total(ns) = g[Len(ns)]
<1> DEFINE n == Len(ns)
           step == [i \in 1 .. n |-> [v \in Nat |-> v + ns[i]]]
<1>1. n \in Nat /\ \A i \in 1 .. n : ns[i] \in Nat
  OBVIOUS
<1>2. PICK g \in [0 .. n -> Nat] : g[0] = 0 /\ \A i \in 1 .. n : g[i] = step[i][g[i - 1]]
  <2>1. step \in [1 .. n -> [Nat -> Nat]]
    BY <1>1
  <2> HIDE DEF step, n
  <2>2. HasRun(step, n, Nat, 0)
    BY <1>1, <2>1, RecursionExists DEF Steps
  <2>3. QED
    BY <2>2 DEF HasRun
<1>3. Adds(g, ns)
  <2>1. ASSUME NEW i \in 1 .. n PROVE g[i] = g[i - 1] + ns[i]
    <3>1. i - 1 \in 0 .. n /\ g[i - 1] \in Nat
      <4> HIDE DEF step, n
      <4>1. i - 1 \in 0 .. n
        BY <1>1
      <4>2. QED
        BY <1>2, <4>1
    <3>2. step[i] = [v \in Nat |-> v + ns[i]]
      OBVIOUS
    <3>3. step[i][g[i - 1]] = g[i - 1] + ns[i]
      BY <3>1, <3>2
    <3>4. QED
      BY <1>2, <3>3
  <2>2. QED
    BY <1>2, <2>1 DEF Adds
<1>4. ASSUME NEW h, Adds(h, ns) PROVE h[n] = g[n]
  <2> DEFINE N == {m \in Nat : m <= n => h[m] = g[m]}
  <2>1. 0 \in N
    BY <1>3, <1>4 DEF Adds
  <2>2. ASSUME NEW m \in N, m + 1 <= n PROVE m + 1 \in N
    <3>1. m + 1 \in 1 .. n /\ m + 1 - 1 = m /\ h[m] = g[m]
      BY <1>1, <2>2
    <3>2. h[m + 1] = h[m] + ns[m + 1] /\ g[m + 1] = g[m] + ns[m + 1]
      BY <1>3, <1>4, <3>1 DEF Adds
    <3>3. QED
      BY <2>2, <3>1, <3>2
  <2>3. N \in SUBSET Nat
    OBVIOUS
  <2> HIDE DEF N, n
  <2>4. \A m \in 0 .. n : m \in N
    BY <1>1, <2>1, <2>2, <2>3, InductionUpTo
  <2>5. n \in N
    BY <1>1, <2>4
  <2>6. QED
    BY <1>1, <2>5 DEF N
<1>5. Adds(CHOOSE h : Adds(h, ns), ns)
  BY <1>3
<1>6. QED
  BY <1>3, <1>4, <1>5 DEF Total

\* h has the running sums f of x, and goes on with the sums g of y.
GoesOn(n, k, f, g, x, y, z, h) ==
    /\ n \in Nat /\ k \in Nat
    /\ f \in [0 .. n -> Nat] /\ g \in [0 .. k -> Nat] /\ f[0] = 0 /\ g[0] = 0
    /\ \A i \in 1 .. n : f[i] = f[i - 1] + x[i] /\ z[i] = x[i]
    /\ \A i \in 1 .. k : g[i] = g[i - 1] + y[i] /\ z[n + i] = y[i] /\ y[i] \in Nat
    /\ h = [i \in 0 .. n + k |-> IF i <= n THEN f[i] ELSE f[n] + g[i - n]]

LEMMA SumsJoin ==
    ASSUME NEW n, NEW k, NEW f, NEW g, NEW x, NEW y, NEW z, NEW h, GoesOn(n, k, f, g, x, y, z, h)
    PROVE  /\ h \in [0 .. n + k -> Nat] /\ h[0] = 0 /\ h[n + k] = f[n] + g[k]
           /\ \A i \in 1 .. n + k : h[i] = h[i - 1] + z[i]
<1> USE DEF GoesOn
<1>1. f[n] \in Nat
  OBVIOUS
<1>2. ASSUME NEW i \in 0 .. n PROVE h[i] = f[i] /\ f[i] \in Nat
  <2>1. i \in 0 .. n + k /\ i <= n
    OBVIOUS
  <2>2. QED
    BY <2>1
<1>3. ASSUME NEW i \in 0 .. k PROVE h[n + i] = f[n] + g[i] /\ g[i] \in Nat
  <2>1. n + i \in 0 .. n + k /\ g[i] \in Nat
    OBVIOUS
  <2>2. h[n + i] = IF n + i <= n THEN f[n + i] ELSE f[n] + g[n + i - n]
    BY <2>1
  <2>3. CASE i = 0
    BY <1>1, <2>2, <2>3
  <2>4. CASE i # 0
    <3>1. ~(n + i <= n) /\ n + i - n = i
      BY <2>4
    <3>2. QED
      BY <2>1, <2>2, <3>1
  <2>5. QED
    BY <2>3, <2>4
<1>4. ASSUME NEW i \in 0 .. n + k PROVE i \in 0 .. n \/ \E j \in 0 .. k : i = n + j
  <2>1. i - n \in 0 .. k \/ i \in 0 .. n
    OBVIOUS
  <2>2. i = n + (i - n)
    OBVIOUS
  <2>3. QED
    BY <2>1, <2>2
<1>5. \A i \in 0 .. n + k : h[i] \in Nat
  <2> SUFFICES ASSUME NEW i \in 0 .. n + k PROVE h[i] \in Nat
    OBVIOUS
  <2>1. CASE i \in 0 .. n
    BY <1>2, <2>1
  <2>2. ASSUME NEW j \in 0 .. k, i = n + j PROVE h[i] \in Nat
    <3>1. h[i] = f[n] + g[j] /\ g[j] \in Nat
      BY <1>3, <2>2
    <3>2. QED
      BY <1>1, <3>1
  <2>3. QED
    BY <1>4, <2>1, <2>2
<1>6. h = [i \in 0 .. n + k |-> h[i]]
  OBVIOUS
<1>7. h \in [0 .. n + k -> Nat]
  BY <1>5, <1>6
<1>8. ASSUME NEW i \in 1 .. n PROVE h[i] = h[i - 1] + z[i]
  <2>1. i \in 0 .. n /\ i - 1 \in 0 .. n
    OBVIOUS
  <2>2. h[i] = f[i] /\ h[i - 1] = f[i - 1]
    BY <1>2, <2>1
  <2>3. QED
    BY <2>2
<1>9. ASSUME NEW i \in 1 .. k PROVE h[n + i] = h[n + i - 1] + z[n + i]
  <2>1. i \in 0 .. k /\ i - 1 \in 0 .. k
    OBVIOUS
  <2>2. /\ h[n + i] = f[n] + g[i] /\ h[n + (i - 1)] = f[n] + g[i - 1]
        /\ g[i] \in Nat /\ g[i - 1] \in Nat
    BY <1>3, <2>1
  <2>3. n + (i - 1) = n + i - 1
    OBVIOUS
  <2>4. g[i] = g[i - 1] + z[n + i] /\ z[n + i] \in Nat
    OBVIOUS
  <2>5. QED
    BY <1>1, <2>2, <2>3, <2>4
<1>10. ASSUME NEW i \in 1 .. n + k PROVE h[i] = h[i - 1] + z[i]
  <2>1. i - n \in 1 .. k \/ i \in 1 .. n
    OBVIOUS
  <2>2. CASE i \in 1 .. n
    BY <1>8, <2>2
  <2>3. CASE i - n \in 1 .. k
    <3> DEFINE j == i - n
    <3>1. n + j = i /\ n + j - 1 = i - 1
      OBVIOUS
    <3>2. h[n + j] = h[n + j - 1] + z[n + j]
      BY <1>9, <2>3
    <3>3. QED
      BY <3>1, <3>2
  <2>4. QED
    BY <2>1, <2>2, <2>3
<1>11. h[0] = 0 /\ h[n + k] = f[n] + g[k]
  <2>1. 0 \in 0 .. n /\ k \in 0 .. k
    OBVIOUS
  <2>2. QED
    BY <1>2, <1>3, <2>1
<1>12. QED
  BY <1>7, <1>10, <1>11

LEMMA TotalJoin ==
    ASSUME NEW a \in Seq(Nat), NEW b \in Seq(Nat)
    PROVE  /\ Total(a) \in Nat
           /\ Total(a \o b) = Total(a) + Total(b)
<1> DEFINE ab == a \o b
<1>1. /\ ab \in Seq(Nat) /\ Len(ab) = Len(a) + Len(b) /\ Len(a) \in Nat /\ Len(b) \in Nat
      /\ \A i \in 1 .. Len(a) : ab[i] = a[i]
      /\ \A i \in 1 .. Len(b) : ab[Len(a) + i] = b[i]
  OBVIOUS
<1>2. PICK f : Adds(f, a)
  BY TotalIs
<1>3. PICK g : Adds(g, b)
  BY TotalIs
<1>4. Total(a) = f[Len(a)] /\ Total(b) = g[Len(b)]
  BY <1>2, <1>3, TotalIs
<1> HIDE DEF ab
<1> DEFINE h == [i \in 0 .. Len(ab) |-> IF i <= Len(a) THEN f[i] ELSE f[Len(a)] + g[i - Len(a)]]
<1>5. /\ f \in [0 .. Len(a) -> Nat] /\ f[0] = 0 /\ g \in [0 .. Len(b) -> Nat] /\ g[0] = 0
      /\ \A i \in 1 .. Len(a) : f[i] = f[i - 1] + a[i]
      /\ \A i \in 1 .. Len(b) : g[i] = g[i - 1] + b[i]
  BY <1>2, <1>3 DEF Adds
<1>6. \A i \in 1 .. Len(b) : b[i] \in Nat
  OBVIOUS
<1>7. h = [i \in 0 .. Len(a) + Len(b) |-> IF i <= Len(a) THEN f[i] ELSE f[Len(a)] + g[i - Len(a)]]
  BY <1>1
<1> HIDE DEF h
<1>8. /\ h \in [0 .. Len(a) + Len(b) -> Nat] /\ h[0] = 0
      /\ h[Len(a) + Len(b)] = f[Len(a)] + g[Len(b)]
      /\ \A i \in 1 .. Len(a) + Len(b) : h[i] = h[i - 1] + ab[i]
  <2> DEFINE n == Len(a)
             k == Len(b)
  <2>1. n \in Nat /\ k \in Nat
    BY <1>1
  <2>2. f \in [0 .. n -> Nat] /\ g \in [0 .. k -> Nat] /\ f[0] = 0 /\ g[0] = 0
    BY <1>5
  <2>3. \A i \in 1 .. n : f[i] = f[i - 1] + a[i] /\ ab[i] = a[i]
    BY <1>1, <1>5
  <2>4. \A i \in 1 .. k : g[i] = g[i - 1] + b[i] /\ ab[n + i] = b[i] /\ b[i] \in Nat
    BY <1>1, <1>5, <1>6
  <2>5. h = [i \in 0 .. n + k |-> IF i <= n THEN f[i] ELSE f[n] + g[i - n]]
    BY <1>7
  <2> HIDE DEF n, k
  <2>6. /\ h \in [0 .. n + k -> Nat] /\ h[0] = 0 /\ h[n + k] = f[n] + g[k]
        /\ \A i \in 1 .. n + k : h[i] = h[i - 1] + ab[i]
    <3>1. GoesOn(n, k, f, g, a, b, ab, h)
      BY <2>1, <2>2, <2>3, <2>4, <2>5 DEF GoesOn
    <3>2. QED
      BY <3>1, SumsJoin
  <2>7. QED
    BY <2>6 DEF n, k
<1>9. Adds(h, ab)
  <2>1. Len(ab) = Len(a) + Len(b)
    BY <1>1
  <2>2. QED
    BY <1>8, <2>1 DEF Adds
<1>10. Total(ab) = h[Len(ab)]
  BY <1>1, <1>9, TotalIs
<1>11. Total(a) \in Nat
  <2>1. Len(a) \in 0 .. Len(a)
    BY <1>1
  <2>2. QED
    BY <1>4, <1>5, <2>1
<1>12. QED
  BY <1>1, <1>4, <1>8, <1>10, <1>11 DEF ab

LEMMA TotalOne ==
    /\ Total(<<>>) = 0
    /\ \A n \in Nat : Total(<<n>>) = n
<1>1. Total(<<>>) = 0
  <2> DEFINE g == [i \in 0 .. 0 |-> 0]
  <2>1. Len(<<>>) = 0 /\ <<>> \in Seq(Nat)
    OBVIOUS
  <2>2. g \in [0 .. 0 -> Nat] /\ g[0] = 0 /\ 1 .. 0 = {}
    OBVIOUS
  <2> HIDE DEF g
  <2>3. Adds(g, <<>>)
    BY <2>1, <2>2 DEF Adds
  <2>4. QED
    BY <2>1, <2>2, <2>3, TotalIs
<1>2. ASSUME NEW n \in Nat PROVE Total(<<n>>) = n
  <2> DEFINE g == [i \in 0 .. 1 |-> IF i = 0 THEN 0 ELSE n]
  <2>1. Len(<<n>>) = 1 /\ <<n>> \in Seq(Nat) /\ <<n>>[1] = n
    OBVIOUS
  <2>2. g \in [0 .. 1 -> Nat] /\ g[0] = 0 /\ g[1] = n
    OBVIOUS
  <2> HIDE DEF g
  <2>3. Adds(g, <<n>>)
    <3>1. \A i \in 1 .. 1 : g[i] = g[i - 1] + <<n>>[i]
      BY <2>1, <2>2
    <3>2. QED
      BY <2>1, <2>2, <3>1 DEF Adds
  <2>4. QED
    BY <2>1, <2>2, <2>3, TotalIs
<1>3. QED
  BY <1>1, <1>2
-----------------------------------------------------------------------------
\* The longest common prefix of two sequences: where both agree.
CommonLength(s, t) == Len(LongestCommonPrefix({s, t}))

LEMMA CommonPrefixAgrees ==
    ASSUME NEW T, NEW s \in Seq(T), NEW t \in Seq(T)
    PROVE  /\ CommonLength(s, t) \in Nat /\ CommonLength(s, t) <= Len(s) /\ CommonLength(s, t) <= Len(t)
           /\ \A i \in 1 .. CommonLength(s, t) : s[i] = t[i]
<1> DEFINE C == CommonPrefixes({s, t})
           Short == {Len(s) - Len(c) : c \in C}
<1>1. ASSUME NEW c \in C
      PROVE  /\ c \in Seq(T) /\ IsPrefix(c, s) /\ IsPrefix(c, t)
             /\ Len(c) \in Nat /\ Len(c) <= Len(s) /\ Len(c) <= Len(t)
             /\ \A i \in 1 .. Len(c) : c[i] = s[i] /\ c[i] = t[i]
  <2>1. PICK seq \in {s, t} : c \in Prefixes(seq)
    BY DEF CommonPrefixes
  <2>2. PICK l \in 0 .. Len(seq) : c = SubSeq(seq, 1, l)
    BY <2>1 DEF Prefixes
  <2>3. seq \in Seq(T)
    BY <2>1
  <2>4. c \in Seq(T)
    BY <2>2, <2>3
  <2>5. IsPrefix(c, s) /\ IsPrefix(c, t)
    BY DEF CommonPrefixes
  <2>6. ASSUME NEW u \in Seq(T), IsPrefix(c, u)
        PROVE  Len(c) <= Len(u) /\ \A i \in 1 .. Len(c) : c[i] = u[i]
    <3>1. Len(c) <= Len(u) /\ SubSeq(c, 1, Len(c)) = SubSeq(u, 1, Len(c))
      BY <2>6 DEF IsPrefix
    <3>2. \A i \in 1 .. Len(c) : SubSeq(c, 1, Len(c))[i] = c[i] /\ SubSeq(u, 1, Len(c))[i] = u[i]
      BY <2>4, <3>1
    <3>3. QED
      BY <3>1, <3>2
  <2>7. Len(c) <= Len(s) /\ \A i \in 1 .. Len(c) : c[i] = s[i]
    BY <2>5, <2>6
  <2>8. Len(c) <= Len(t) /\ \A i \in 1 .. Len(c) : c[i] = t[i]
    BY <2>5, <2>6
  <2>9. Len(c) \in Nat
    BY <2>4
  <2>10. QED
    BY <2>4, <2>5, <2>7, <2>8, <2>9
<1>2. <<>> \in C
  <2>1. Len(s) \in Nat /\ SubSeq(s, 1, 0) = <<>> /\ SubSeq(t, 1, 0) = <<>> /\ Len(t) \in Nat
    OBVIOUS
  <2>2. 0 \in 0 .. Len(s)
    BY <2>1
  <2>3. <<>> \in Prefixes(s)
    BY <2>1, <2>2 DEF Prefixes
  <2>4. \A u \in {s, t} : IsPrefix(<<>>, u)
    BY <2>1 DEF IsPrefix
  <2>5. QED
    BY <2>3, <2>4 DEF CommonPrefixes
<1> DEFINE best == LongestCommonPrefix({s, t})
<1> HIDE DEF C
<1>3. \E c \in C : \A other \in C : Len(other) <= Len(c)
  <2>1. Len(s) \in Nat
    OBVIOUS
  <2>2. Short \in SUBSET Nat /\ Short # {}
    <3>1. \A c \in C : Len(s) - Len(c) \in Nat
      BY <1>1, <2>1
    <3>2. QED
      BY <1>2, <3>1
  <2>3. Min(Short) \in Short /\ \A k \in Short : Min(Short) <= k
    BY <2>2, SmallestExists
  <2>4. PICK c \in C : Min(Short) = Len(s) - Len(c)
    BY <2>3
  <2>5. ASSUME NEW other \in C PROVE Len(other) <= Len(c)
    <3>1. Len(s) - Len(other) \in Short
      OBVIOUS
    <3>2. Len(s) - Len(c) <= Len(s) - Len(other)
      BY <2>3, <2>4, <3>1
    <3>3. QED
      BY <1>1, <2>1, <3>2
  <2>6. QED
    BY <2>5
<1>4. best \in C
  BY <1>3 DEF LongestCommonPrefix, C
<1>5. CommonLength(s, t) = Len(best)
  BY DEF CommonLength
<1> HIDE DEF best
<1>6. QED
  BY <1>1, <1>4, <1>5

=============================================================================
