------------------------------ MODULE SetLemmas -----------------------------
(***************************************************************************)
(* Facts about finite sets, numbers, recursive functions and sums that the  *)
(* proofs about the components share.                                      *)
(*                                                                         *)
(* Induction is over a set, so that no lemma has an operator for a         *)
(* parameter: what is to be shown of every number or every subset is that  *)
(* the set of those that have it holds them all.                           *)
(***************************************************************************)
EXTENDS FiniteSetsExt, FiniteSetTheorems, SequenceTheorems, TLAPS

\* A set of numbers that isn't empty has a least one: what the proofs by a
\* least counterexample start from.
LEMMA LeastNatural ==
    ASSUME NEW T \in SUBSET Nat, T # {}
    PROVE  \E n \in T : \A m \in T : n <= m
<1> DEFINE Below == {0 .. n - 1 : n \in T}
<1>1. Below \subseteq FiniteSubsetsOf(Nat) /\ Below # {}
  <2>1. \A n \in T : 0 .. n - 1 \in SUBSET Nat /\ IsFiniteSet(0 .. n - 1)
    BY FS_Interval
  <2> QED
    BY <2>1 DEF FiniteSubsetsOf
<1>2. PICK B \in Below : \A C \in Below : <<C, B>> \notin StrictSubsetOrdering(Nat)
  BY <1>1, WFMin, FS_StrictSubsetOrderingWellFounded
<1>3. PICK n \in T : B = 0 .. n - 1
  BY <1>2
<1>4. ASSUME NEW m \in T, m < n PROVE FALSE
  <2>1. 0 .. m - 1 \in Below /\ 0 .. m - 1 \subseteq B /\ m \in B /\ m \notin 0 .. m - 1
    BY <1>3, <1>4
  <2>2. <<0 .. m - 1, B>> \in StrictSubsetOrdering(Nat)
    BY <2>1, <1>3 DEF StrictSubsetOrdering
  <2> QED
    BY <1>2, <2>1, <2>2
<1> QED
  BY <1>3, <1>4

-----------------------------------------------------------------------------
(* Sets of at most one element.                                            *)

LEMMA OneCounted ==
    ASSUME NEW S, \A x, y \in S : x = y
    PROVE  IsFiniteSet(S) /\ Cardinality(S) <= 1
<1>1. CASE S = {}
  BY <1>1, FS_EmptySet
<1>2. CASE S # {}
  <2>1. PICK z : z \in S
    BY <1>2
  <2>2. S = {z}
    BY <2>1
  <2>3. IsFiniteSet({z}) /\ Cardinality({z}) = 1
    BY FS_Singleton
  <2> QED
    BY <2>2, <2>3
<1> QED
  BY <1>1, <1>2

LEMMA AtMostOne ==
    ASSUME NEW S, IsFiniteSet(S)
    PROVE  Cardinality(S) <= 1 <=> \A x, y \in S : x = y
<1>1. Cardinality(S) \in Nat
  BY FS_CardinalityType
<1>2. ASSUME Cardinality(S) <= 1 PROVE \A x, y \in S : x = y
  <2>1. CASE Cardinality(S) = 0
    BY <2>1, FS_EmptySet
  <2>2. CASE Cardinality(S) = 1
    <3>1. PICK z : S = {z}
      BY <2>2, FS_Singleton
    <3> QED
      BY <3>1
  <2> QED
    BY <1>1, <1>2, <2>1, <2>2
<1> QED
  BY <1>2, OneCounted

\* What is chosen from 1 .. n can be counted.
LEMMA CountableUpTo ==
    ASSUME NEW n \in Nat, NEW S \in SUBSET (1 .. n)
    PROVE  IsFiniteSet(S)
<1>1. IsFiniteSet(1 .. n)
  BY FS_Interval
<1> QED
  BY <1>1, FS_Subset

\* A set of the first numbers of 1 .. n holds as many as its last one says.
LEMMA FirstNumbers ==
    ASSUME NEW n \in Nat, NEW S \in SUBSET (1 .. n),
           \A v \in S : 1 .. v \subseteq S
    PROVE  Cardinality(S) \in 0 .. n /\ S = 1 .. Cardinality(S)
<1> DEFINE T == {m \in Nat : m > 0 /\ m \notin S}
<1>1. T \in SUBSET Nat /\ n + 1 \in T
  OBVIOUS
<1>2. PICK m \in T : \A k \in T : m <= k
  BY <1>1, LeastNatural
<1>3. m \in Nat /\ m > 0 /\ m <= n + 1
  BY <1>1, <1>2
<1>4. S = 1 .. m - 1
  <2>1. ASSUME NEW k \in 1 .. m - 1 PROVE k \in S
    <3>1. k \in Nat /\ k > 0 /\ k < m
      BY <1>3
    <3> QED
      BY <1>2, <3>1
  <2>2. ASSUME NEW k \in S, k > m - 1 PROVE FALSE
    <3>1. k \in Nat /\ m \in 1 .. k
      BY <1>3, <2>2
    <3> QED
      BY <1>2, <3>1
  <2>3. ASSUME NEW k \in S PROVE k \in 1 .. m - 1
    <3>1. k \in Nat /\ k > 0
      OBVIOUS
    <3> QED
      BY <1>3, <2>2, <3>1
  <2> QED
    BY <2>1, <2>3
<1>5. Cardinality(1 .. m - 1) = m - 1
  BY <1>3, FS_Interval
<1> QED
  BY <1>3, <1>4, <1>5

-----------------------------------------------------------------------------
(* Sequences.                                                              *)

\* Writing over one element, or beside the sequence.
LEMMA SeqExcept ==
    ASSUME NEW S, NEW s \in Seq(S), NEW x \in S, NEW n
    PROVE  [s EXCEPT ![n] = x] \in Seq(S) /\ Len([s EXCEPT ![n] = x]) = Len(s)
<1>1. CASE n \in 1 .. Len(s)
  BY <1>1, ExceptSeq
<1>2. CASE n \notin 1 .. Len(s)
  <2>1. s \in [1 .. Len(s) -> S]
    BY LenProperties
  <2>2. [s EXCEPT ![n] = x] = s
    BY <1>2, <2>1
  <2> QED
    BY <2>2
<1> QED
  BY <1>1, <1>2

LEMMA SeqAppend ==
    ASSUME NEW S, NEW s \in Seq(S), NEW x \in S
    PROVE  /\ Append(s, x) \in Seq(S) /\ Len(Append(s, x)) = Len(s) + 1
           /\ Append(s, x)[Len(s) + 1] = x
           /\ \A m \in 1 .. Len(s) : Append(s, x)[m] = s[m]
BY LenProperties

-----------------------------------------------------------------------------
(* Induction.                                                              *)

LEMMA CountUp ==
    ASSUME NEW N \in Nat, NEW S, 0 \in S,
           \A n \in 0 .. N - 1 : n \in S => n + 1 \in S
    PROVE  \A n \in 0 .. N : n \in S
<1> DEFINE T == {n \in 0 .. N : n \notin S}
<1>1. SUFFICES ASSUME T # {} PROVE FALSE
  OBVIOUS
<1>2. PICK n \in T : \A m \in T : n <= m
  <2>1. T \in SUBSET Nat
    OBVIOUS
  <2> QED
    BY <1>1, <2>1, LeastNatural
<1>3. n \in 1 .. N
  OBVIOUS
<1>4. n - 1 \in 0 .. N - 1 /\ (n - 1) + 1 = n
  BY <1>3
<1>5. n - 1 \in S
  BY <1>2, <1>4
<1> QED
  BY <1>4, <1>5

\* What passes from all smaller parts of a finite set to the set, all its
\* subsets have.
LEMMA SubsetInduction ==
    ASSUME NEW S, IsFiniteSet(S), NEW P,
           \A T \in SUBSET S : (\A R \in SUBSET T : R # T => R \in P) => T \in P
    PROVE  \A T \in SUBSET S : T \in P
<1> DEFINE C == {T \in SUBSET S : T \notin P}
<1>1. SUFFICES ASSUME C # {} PROVE FALSE
  OBVIOUS
<1>2. C \subseteq FiniteSubsetsOf(S)
  BY FS_Subset DEF FiniteSubsetsOf
<1>3. PICK T \in C : \A R \in C : <<R, T>> \notin StrictSubsetOrdering(S)
  <2> HIDE DEF C
  <2>1. IsWellFoundedOn(StrictSubsetOrdering(S), FiniteSubsetsOf(S))
    BY FS_StrictSubsetOrderingWellFounded
  <2> QED
    BY <1>1, <1>2, <2>1, WFMin
<1>4. ASSUME NEW R \in SUBSET T, R # T PROVE R \in P
  <2>1. R \in SUBSET S /\ <<R, T>> \in StrictSubsetOrdering(S)
    BY <1>4 DEF StrictSubsetOrdering
  <2> QED
    BY <1>3, <2>1
<1> QED
  BY <1>4

\* A recursive function on 0 .. N exists, and its values are of the type of its
\* step.
IsStep(G, N, V) == G \in [V \X (1 .. N) -> V]

Recurs(f, x, G, N, V) ==
    /\ f \in [0 .. N -> V]
    /\ f[0] = x /\ \A s \in 1 .. N : f[s] = G[<<f[s - 1], s>>]

LEMMA Recursion ==
    ASSUME NEW N \in Nat, NEW V, NEW x \in V, NEW G, IsStep(G, N, V)
    PROVE  \E f : Recurs(f, x, G, N, V)
<1> DEFINE Upto(n) == {f \in [0 .. N -> V] : \A s \in 0 .. n :
                            f[s] = IF s = 0 THEN x ELSE G[<<f[s - 1], s>>]}
           P == {n \in 0 .. N : Upto(n) # {}}
<1>0. G \in [V \X (1 .. N) -> V]
  BY DEF IsStep
<1>1. 0 \in P
  <2>1. [s \in 0 .. N |-> x] \in Upto(0)
    OBVIOUS
  <2> QED
    BY <2>1
<1>2. ASSUME NEW n \in 0 .. N - 1, n \in P PROVE n + 1 \in P
  <2>1. PICK f \in [0 .. N -> V] : \A s \in 0 .. n :
                            f[s] = IF s = 0 THEN x ELSE G[<<f[s - 1], s>>]
    BY <1>2
  <2> DEFINE v == G[<<f[n], n + 1>>]
             g == [f EXCEPT ![n + 1] = v]
  <2>2. n \in 0 .. N /\ n + 1 \in 1 .. N /\ n + 1 \in 0 .. N /\ (n + 1) - 1 = n
    OBVIOUS
  <2>3. v \in V
    BY <1>0, <2>2
  <2> HIDE DEF v
  <2>4. g \in [0 .. N -> V] /\ g[n + 1] = v /\ \A s \in 0 .. n : g[s] = f[s]
    BY <2>2, <2>3
  <2>5. \A s \in 0 .. n + 1 : g[s] = IF s = 0 THEN x ELSE G[<<g[s - 1], s>>]
    <3> SUFFICES ASSUME NEW s \in 0 .. n + 1
                 PROVE  g[s] = IF s = 0 THEN x ELSE G[<<g[s - 1], s>>]
      OBVIOUS
    <3>1. CASE s = n + 1
      BY <2>2, <2>4, <3>1 DEF v
    <3>2. CASE s \in 0 .. n
      <4>1. s # 0 => s - 1 \in 0 .. n
        BY <3>2
      <4> QED
        BY <2>1, <2>4, <3>2, <4>1
    <3> QED
      BY <3>1, <3>2
  <2> HIDE DEF g
  <2> QED
    BY <2>2, <2>4, <2>5
<1>3. N \in P
  <2> HIDE DEF P
  <2> QED
    BY <1>1, <1>2, CountUp
<1>4. PICK f \in [0 .. N -> V] : \A s \in 0 .. N :
                            f[s] = IF s = 0 THEN x ELSE G[<<f[s - 1], s>>]
  BY <1>3
<1>5. \A s \in 1 .. N : s \in 0 .. N /\ s # 0
  OBVIOUS
<1>6. 0 \in 0 .. N
  OBVIOUS
<1> QED
  BY <1>4, <1>5, <1>6 DEF Recurs

-----------------------------------------------------------------------------
(* Sums.                                                                   *)

Added(f, S) == MapThenSumSet(LAMBDA x : f[x], S)

Numeric(f, S) == \A x \in S : f[x] \in Int

Chosen(s) == CHOOSE x \in s : TRUE

\* What the fold of the library computes, on every subset of S.
SumsOf(f, S) ==
    CHOOSE h : h = [s \in SUBSET S |->
                        IF s = {} THEN 0
                        ELSE f[Chosen(s)] + h[s \ {Chosen(s)}]]

LEMMA AddedIsSum == ASSUME NEW f, NEW S PROVE Added(f, S) = SumsOf(f, S)[S]
BY DEF Added, SumsOf, Chosen, MapThenSumSet, MapThenFoldSet

IsSums(h, f, S) ==
    /\ h \in [SUBSET S -> Int]
    /\ h[{}] = 0
    /\ \A s \in SUBSET S : s # {} => h[s] = f[Chosen(s)] + h[s \ {Chosen(s)}]

\* Such a function exists on a finite set: taking one element after the other,
\* it settles on the subsets of at most n elements in n steps.
LEMMA SumsExist ==
    ASSUME NEW S, IsFiniteSet(S), NEW f, Numeric(f, S)
    PROVE  IsSums(SumsOf(f, S), f, S)
<1> DEFINE N == Cardinality(S)
           V == [SUBSET S -> Int]
           Further(g) == [s \in SUBSET S |->
                            IF s = {} THEN 0
                            ELSE f[Chosen(s)] + g[s \ {Chosen(s)}]]
           G == [q \in V \X (1 .. N) |-> Further(q[1])]
           zero == [s \in SUBSET S |-> 0]
<1>0. N \in Nat
  BY FS_CardinalityType
<1>a. \A s \in SUBSET S : s # {} => Chosen(s) \in s /\ s \ {Chosen(s)} \in SUBSET S
  BY DEF Chosen
<1>1. \A g \in V : Further(g) \in V
  BY <1>a DEF Numeric
<1>2. G \in [V \X (1 .. N) -> V] /\ zero \in V
  <2>1. zero \in V
    OBVIOUS
  <2> HIDE DEF V, Further, zero, N
  <2>2. \A q \in V \X (1 .. N) : Further(q[1]) \in V
    BY <1>1
  <2> QED
    BY <2>1, <2>2
<1>r. PICK steps : Recurs(steps, zero, G, N, V)
  <2> HIDE DEF V, Further, G, zero, N
  <2> QED
    BY <1>0, <1>2, Recursion DEF IsStep
<1>3. /\ steps \in [0 .. N -> V]
      /\ steps[0] = zero /\ \A n \in 1 .. N : steps[n] = G[<<steps[n - 1], n>>]
  BY <1>r DEF Recurs
<1>4. \A n \in 1 .. N : n - 1 \in 0 .. N /\ steps[n] = Further(steps[n - 1])
  <2> SUFFICES ASSUME NEW n \in 1 .. N
               PROVE  n - 1 \in 0 .. N /\ steps[n] = Further(steps[n - 1])
    OBVIOUS
  <2>1. n \in 0 .. N /\ n # 0 /\ n - 1 \in 0 .. N
    BY <1>0
  <2>2. steps[n - 1] \in V /\ <<steps[n - 1], n>> \in V \X (1 .. N)
    <3> HIDE DEF N, V, G, zero
    <3> QED
      BY <1>3, <2>1
  <2>3. G[<<steps[n - 1], n>>] = Further(steps[n - 1])
    BY <2>2
  <2> HIDE DEF G
  <2>4. steps[n] = G[<<steps[n - 1], n>>]
    BY <1>3, <2>1
  <2> QED
    BY <2>1, <2>3, <2>4
<1> DEFINE Settled(n) == \A s \in SUBSET S : Cardinality(s) <= n =>
                            Further(steps[n])[s] = steps[n][s]
           P == {n \in 0 .. N : Settled(n)}
<1>5. 0 \in P
  <2>1. steps[0] = zero
    BY <1>0, <1>3
  <2>2. \A s \in SUBSET S : Cardinality(s) <= 0 => s = {}
    BY FS_Subset, FS_EmptySet, FS_CardinalityType
  <2> QED
    BY <1>0, <2>1, <2>2
<1>6. ASSUME NEW n \in 0 .. N - 1, n \in P PROVE n + 1 \in P
  <2>0. n + 1 \in 1 .. N /\ n + 1 \in 0 .. N /\ (n + 1) - 1 = n /\ n \in 0 .. N /\ n \in Nat
    BY <1>0
  <2>1. steps[n + 1] = Further(steps[n]) /\ steps[n] \in V /\ steps[n + 1] \in V
    BY <1>3, <1>4, <2>0
  <2>2. ASSUME NEW s \in SUBSET S, Cardinality(s) <= n + 1
        PROVE  Further(steps[n + 1])[s] = steps[n + 1][s]
    <3>1. CASE s = {}
      BY <2>1, <3>1
    <3>2. CASE s # {}
      <4> DEFINE x == Chosen(s)
                 r == s \ {x}
      <4>1. x \in s /\ r \in SUBSET S
        BY <1>a, <3>2
      <4>2. Cardinality(r) = Cardinality(s) - 1 /\ Cardinality(s) \in Nat
        BY <4>1, FS_Subset, FS_RemoveElement, FS_CardinalityType
      <4>3. Cardinality(r) <= n
        BY <2>0, <2>2, <4>2
      <4>4. Further(steps[n])[r] = steps[n][r]
        BY <1>6, <4>1, <4>3
      <4>5. Further(steps[n + 1])[s] = f[x] + steps[n + 1][r]
        BY <3>2, <4>1
      <4>6. steps[n + 1][s] = f[x] + steps[n][r]
        BY <2>1, <3>2, <4>1
      <4>7. steps[n + 1][r] = steps[n][r]
        BY <2>1, <4>4
      <4> QED
        BY <4>5, <4>6, <4>7
    <3> QED
      BY <3>1, <3>2
  <2> HIDE DEF Further
  <2> QED
    BY <2>0, <2>2
<1>7. N \in P
  <2> HIDE DEF P, N, V, Further, G, zero, Settled
  <2>1. \A n \in 0 .. N - 1 : n \in P => n + 1 \in P
    BY <1>6
  <2>2. \A n \in 0 .. N : n \in P
    BY <1>0, <1>5, <2>1, CountUp
  <2> QED
    BY <1>0, <2>2
<1>8. steps[N] = Further(steps[N])
  <2>1. \A s \in SUBSET S : Cardinality(s) <= N
    BY FS_Subset
  <2>2. \A s \in SUBSET S : Further(steps[N])[s] = steps[N][s]
    BY <1>7, <2>1
  <2>3. steps[N] \in V
    <3> HIDE DEF N, V, G, zero, Further, P
    <3> QED
      BY <1>0, <1>3
  <2> QED
    BY <1>1, <2>2, <2>3
<1> DEFINE h == SumsOf(f, S)
<1>9. h = Further(h)
  BY <1>8, Zenon DEF SumsOf
<1> HIDE DEF h
<1>10. h \in [SUBSET S -> Int]
  <2> DEFINE Q == {s \in SUBSET S : h[s] \in Int}
  <2>1. ASSUME NEW T \in SUBSET S, \A R \in SUBSET T : R # T => R \in Q PROVE T \in Q
    <3>1. CASE T = {}
      BY <1>9, <3>1
    <3>2. CASE T # {}
      <4>1. Chosen(T) \in T /\ T \ {Chosen(T)} \in SUBSET T /\ T \ {Chosen(T)} # T
        BY <1>a, <3>2
      <4>2. h[T \ {Chosen(T)}] \in Int /\ f[Chosen(T)] \in Int
        BY <2>1, <4>1 DEF Numeric
      <4>3. h[T] = f[Chosen(T)] + h[T \ {Chosen(T)}]
        BY <1>9, <3>2
      <4> QED
        BY <4>2, <4>3
    <3> QED
      BY <3>1, <3>2
  <2>2. \A T \in SUBSET S : T \in Q
    <3> HIDE DEF Q
    <3> QED
      BY <2>1, SubsetInduction
  <2> QED
    BY <1>9, <2>2
<1>11. h[{}] = 0
  BY <1>9
<1>12. \A s \in SUBSET S : s # {} => h[s] = f[Chosen(s)] + h[s \ {Chosen(s)}]
  BY <1>9
<1> QED
  BY <1>10, <1>11, <1>12 DEF h, IsSums

\* The sums over the subsets of a part are the same ones.
LEMMA SumsAgree ==
    ASSUME NEW S, IsFiniteSet(S), NEW T \in SUBSET S,
           NEW f, Numeric(f, S), NEW g, \A x \in T : g[x] = f[x]
    PROVE  \A R \in SUBSET T : SumsOf(g, T)[R] = SumsOf(f, S)[R]
<1> DEFINE P == {R \in SUBSET T : SumsOf(g, T)[R] = SumsOf(f, S)[R]}
<1>0. IsFiniteSet(T) /\ Numeric(g, T)
  BY FS_Subset DEF Numeric
<1>s. IsSums(SumsOf(f, S), f, S) /\ IsSums(SumsOf(g, T), g, T)
  BY <1>0, SumsExist
<1>1. ASSUME NEW R \in SUBSET T, \A Q \in SUBSET R : Q # R => Q \in P PROVE R \in P
  <2>1. CASE R = {}
    BY <1>s, <2>1 DEF IsSums
  <2>2. CASE R # {}
    <3>1. Chosen(R) \in R /\ R \ {Chosen(R)} \in SUBSET R /\ R \ {Chosen(R)} # R
      BY <2>2 DEF Chosen
    <3>2. SumsOf(g, T)[R] = g[Chosen(R)] + SumsOf(g, T)[R \ {Chosen(R)}]
      BY <1>s, <2>2 DEF IsSums
    <3>3. SumsOf(f, S)[R] = f[Chosen(R)] + SumsOf(f, S)[R \ {Chosen(R)}]
      BY <1>s, <2>2 DEF IsSums
    <3>4. SumsOf(g, T)[R \ {Chosen(R)}] = SumsOf(f, S)[R \ {Chosen(R)}]
      BY <1>1, <3>1
    <3> QED
      BY <3>1, <3>2, <3>3, <3>4
  <2> QED
    BY <2>1, <2>2
<1> HIDE DEF P
<1>2. \A R \in SUBSET T : R \in P
  BY <1>0, <1>1, SubsetInduction
<1> QED
  BY <1>2 DEF P

LEMMA AddedEmpty == ASSUME NEW f PROVE Added(f, {}) = 0
<1>1. IsFiniteSet({}) /\ Numeric(f, {})
  BY FS_EmptySet DEF Numeric
<1>2. IsSums(SumsOf(f, {}), f, {})
  BY <1>1, SumsExist
<1> QED
  BY <1>2, AddedIsSum DEF IsSums

LEMMA AddedInt ==
    ASSUME NEW S, IsFiniteSet(S), NEW f, Numeric(f, S)
    PROVE  Added(f, S) \in Int
<1>1. IsSums(SumsOf(f, S), f, S)
  BY SumsExist
<1> QED
  BY <1>1, AddedIsSum DEF IsSums

LEMMA AddedSame ==
    ASSUME NEW S, IsFiniteSet(S), NEW f, Numeric(f, S),
           NEW g, \A x \in S : g[x] = f[x]
    PROVE  Added(g, S) = Added(f, S)
<1>1. S \in SUBSET S
  OBVIOUS
<1>2. SumsOf(g, S)[S] = SumsOf(f, S)[S]
  BY <1>1, SumsAgree
<1> QED
  BY <1>2, AddedIsSum

LEMMA AddedChosen ==
    ASSUME NEW S, IsFiniteSet(S), S # {}, NEW f, Numeric(f, S)
    PROVE  /\ Chosen(S) \in S
           /\ Added(f, S) = f[Chosen(S)] + Added(f, S \ {Chosen(S)})
<1> DEFINE R == S \ {Chosen(S)}
<1>1. Chosen(S) \in S
  BY DEF Chosen
<1>2. R \in SUBSET S /\ R \in SUBSET R
  OBVIOUS
<1>3. SumsOf(f, S)[S] = f[Chosen(S)] + SumsOf(f, S)[R]
  <2>1. IsSums(SumsOf(f, S), f, S)
    BY SumsExist
  <2> QED
    BY <2>1 DEF IsSums
<1>4. SumsOf(f, R)[R] = SumsOf(f, S)[R]
  <2> HIDE DEF R
  <2> QED
    BY <1>2, SumsAgree
<1> QED
  BY <1>1, <1>3, <1>4, AddedIsSum

\* A sum is one of its terms and the sum of the others, whichever that is.
LEMMA AddedLess ==
    ASSUME NEW S, IsFiniteSet(S), NEW f, Numeric(f, S)
    PROVE  \A y \in S : Added(f, S) = f[y] + Added(f, S \ {y})
<1> DEFINE P == {T \in SUBSET S : \A y \in T : Added(f, T) = f[y] + Added(f, T \ {y})}
<1>1. ASSUME NEW T \in SUBSET S, \A R \in SUBSET T : R # T => R \in P PROVE T \in P
  <2> SUFFICES ASSUME NEW y \in T PROVE Added(f, T) = f[y] + Added(f, T \ {y})
    OBVIOUS
  <2> DEFINE c == Chosen(T)
  <2>1. /\ \A R \in SUBSET T : IsFiniteSet(R) /\ Added(f, R) \in Int
        /\ Numeric(f, T) /\ \A R \in SUBSET T : Numeric(f, R)
    BY FS_Subset, AddedInt DEF Numeric
  <2>2. c \in T /\ Added(f, T) = f[c] + Added(f, T \ {c})
    BY <2>1, AddedChosen
  <2> HIDE DEF c
  <2>3. CASE y = c
    BY <2>2, <2>3
  <2>4. CASE y # c
    <3>1. T \ {c} \in P /\ T \ {y} \in P /\ y \in T \ {c} /\ c \in T \ {y}
      BY <1>1, <2>2, <2>4
    <3>2. Added(f, T \ {c}) = f[y] + Added(f, (T \ {c}) \ {y})
      BY <3>1
    <3>3. Added(f, T \ {y}) = f[c] + Added(f, (T \ {y}) \ {c})
      BY <3>1
    <3>4. (T \ {c}) \ {y} = (T \ {y}) \ {c} /\ (T \ {y}) \ {c} \in SUBSET T
      OBVIOUS
    <3>5. f[c] \in Int /\ f[y] \in Int /\ Added(f, (T \ {y}) \ {c}) \in Int
      BY <2>1, <2>2, <3>4 DEF Numeric
    <3> DEFINE rest == Added(f, (T \ {y}) \ {c})
    <3>6. /\ Added(f, T) = f[c] + (f[y] + rest) /\ Added(f, T \ {y}) = f[c] + rest
          /\ rest \in Int
      BY <2>2, <3>2, <3>3, <3>4, <3>5
    <3> HIDE DEF rest
    <3> QED
      BY <3>5, <3>6
  <2> QED
    BY <2>3, <2>4
<1> HIDE DEF P
<1>2. S \in P
  BY <1>1, SubsetInduction
<1> QED
  BY <1>2 DEF P

LEMMA AddedOne ==
    ASSUME NEW S, IsFiniteSet(S), NEW y, y \notin S,
           NEW f, Numeric(f, S \cup {y})
    PROVE  Added(f, S \cup {y}) = Added(f, S) + f[y]
<1>1. IsFiniteSet(S \cup {y})
  BY FS_AddElement
<1>2. (S \cup {y}) \ {y} = S /\ y \in S \cup {y}
  OBVIOUS
<1>3. Added(f, S \cup {y}) = f[y] + Added(f, S)
  BY <1>1, <1>2, AddedLess
<1>4. Numeric(f, S) /\ f[y] \in Int
  BY DEF Numeric
<1>5. Added(f, S) \in Int
  BY <1>4, AddedInt
<1> QED
  BY <1>3, <1>4, <1>5

\* Changing one term.
LEMMA AddedExcept ==
    ASSUME NEW S, IsFiniteSet(S), NEW f, Numeric(f, S),
           NEW y \in S, NEW g, g[y] \in Int, \A x \in S \ {y} : g[x] = f[x]
    PROVE  Added(g, S) = Added(f, S) - f[y] + g[y]
<1>1. IsFiniteSet(S \ {y}) /\ Numeric(g, S) /\ Numeric(f, S \ {y}) /\ Numeric(g, S \ {y})
  BY FS_Subset DEF Numeric
<1>2. Added(f, S) = f[y] + Added(f, S \ {y}) /\ Added(g, S) = g[y] + Added(g, S \ {y})
  BY <1>1, AddedLess
<1>3. Added(g, S \ {y}) = Added(f, S \ {y}) /\ Added(f, S \ {y}) \in Int
  BY <1>1, AddedSame, AddedInt
<1> QED
  BY <1>2, <1>3 DEF Numeric

\* Terms added one by one.
LEMMA AddedSum ==
    ASSUME NEW S, IsFiniteSet(S), NEW f, Numeric(f, S),
           NEW g, Numeric(g, S), NEW h, \A x \in S : h[x] = f[x] + g[x]
    PROVE  Added(h, S) = Added(f, S) + Added(g, S)
<1> DEFINE P == {T \in SUBSET S : Added(h, T) = Added(f, T) + Added(g, T)}
<1>1. ASSUME NEW T \in SUBSET S, \A R \in SUBSET T : R # T => R \in P PROVE T \in P
  <2>1. CASE T = {}
    BY <2>1, AddedEmpty
  <2>2. CASE T # {}
    <3>1. PICK y \in T : TRUE
      BY <2>2
    <3>2. IsFiniteSet(T) /\ IsFiniteSet(T \ {y})
          /\ Numeric(f, T) /\ Numeric(g, T) /\ Numeric(h, T)
          /\ Numeric(f, T \ {y}) /\ Numeric(g, T \ {y})
      BY FS_Subset DEF Numeric
    <3>3. /\ Added(f, T) = f[y] + Added(f, T \ {y}) /\ Added(g, T) = g[y] + Added(g, T \ {y})
          /\ Added(h, T) = h[y] + Added(h, T \ {y})
      BY <3>2, AddedLess
    <3>4. Added(f, T \ {y}) \in Int /\ Added(g, T \ {y}) \in Int
      BY <3>2, AddedInt
    <3>5. Added(h, T \ {y}) = Added(f, T \ {y}) + Added(g, T \ {y})
      BY <1>1
    <3>6. Added(h, T) = Added(f, T) + Added(g, T)
      BY <3>2, <3>3, <3>4, <3>5 DEF Numeric
    <3> QED
      BY <3>6
  <2> QED
    BY <2>1, <2>2
<1> HIDE DEF P
<1>2. S \in P
  BY <1>1, SubsetInduction
<1> QED
  BY <1>2 DEF P

LEMMA AddedZero ==
    ASSUME NEW S, IsFiniteSet(S), NEW f, \A x \in S : f[x] = 0
    PROVE  Added(f, S) = 0
<1> DEFINE P == {T \in SUBSET S : Added(f, T) = 0}
<1>1. ASSUME NEW T \in SUBSET S, \A R \in SUBSET T : R # T => R \in P PROVE T \in P
  <2>1. CASE T = {}
    BY <2>1, AddedEmpty
  <2>2. CASE T # {}
    <3>1. PICK y \in T : TRUE
      BY <2>2
    <3>2. IsFiniteSet(T) /\ Numeric(f, T)
      BY FS_Subset DEF Numeric
    <3>3. Added(f, T) = f[y] + Added(f, T \ {y}) /\ f[y] = 0
      BY <3>2, AddedLess
    <3>4. Added(f, T \ {y}) = 0
      BY <1>1
    <3> QED
      BY <3>3, <3>4
  <2> QED
    BY <2>1, <2>2
<1> HIDE DEF P
<1>2. S \in P
  BY <1>1, SubsetInduction
<1> QED
  BY <1>2 DEF P

\* A sum of naturals is one, and at least each of its terms.
LEMMA AddedNat ==
    ASSUME NEW S, IsFiniteSet(S), NEW f, \A x \in S : f[x] \in Nat
    PROVE  Added(f, S) \in Nat /\ \A y \in S : f[y] <= Added(f, S)
<1> DEFINE P == {T \in SUBSET S : Added(f, T) \in Nat}
<1>1. ASSUME NEW T \in SUBSET S, \A R \in SUBSET T : R # T => R \in P PROVE T \in P
  <2>1. CASE T = {}
    BY <2>1, AddedEmpty
  <2>2. CASE T # {}
    <3>1. PICK y \in T : TRUE
      BY <2>2
    <3>2. IsFiniteSet(T) /\ Numeric(f, T)
      BY FS_Subset DEF Numeric
    <3>3. Added(f, T) = f[y] + Added(f, T \ {y}) /\ f[y] \in Nat
      BY <3>2, AddedLess
    <3>4. Added(f, T \ {y}) \in Nat
      BY <1>1
    <3> QED
      BY <3>3, <3>4
  <2> QED
    BY <2>1, <2>2
<1> HIDE DEF P
<1>2. \A T \in SUBSET S : T \in P
  BY <1>1, SubsetInduction
<1>3. ASSUME NEW y \in S PROVE f[y] <= Added(f, S)
  <2>1. Numeric(f, S)
    BY DEF Numeric
  <2>2. Added(f, S) = f[y] + Added(f, S \ {y})
    BY <2>1, AddedLess
  <2>3. Added(f, S \ {y}) \in Nat
    BY <1>2 DEF P
  <2> QED
    BY <2>2, <2>3
<1> QED
  BY <1>2, <1>3 DEF P

\* How much a sequence of balances went down by, row after row.
LEMMA AddedDown ==
    ASSUME NEW n \in Nat, NEW f, \A k \in 1 .. n : f[k] \in Int,
           NEW g, \A k \in 0 .. n : g[k] \in Int,
           \A k \in 1 .. n : f[k] = g[k - 1] - g[k]
    PROVE  Added(f, 1 .. n) = g[0] - g[n]
<1> DEFINE S == {k \in 0 .. n : Added(f, 1 .. k) = g[0] - g[k]}
<1>1. 0 \in S
  <2>1. 1 .. 0 = {}
    OBVIOUS
  <2>2. Added(f, 1 .. 0) = 0
    BY <2>1, AddedEmpty
  <2> QED
    BY <2>2
<1>2. \A k \in 0 .. n - 1 : k \in S => k + 1 \in S
  <2> SUFFICES ASSUME NEW k \in 0 .. n - 1, Added(f, 1 .. k) = g[0] - g[k]
               PROVE  Added(f, 1 .. k + 1) = g[0] - g[k + 1]
    OBVIOUS
  <2> DEFINE T == 1 .. k
             y == k + 1
  <2>1. 1 .. y = T \cup {y} /\ y \notin T
    OBVIOUS
  <2>2. IsFiniteSet(T)
    BY FS_Interval
  <2>3. \A x \in T \cup {y} : f[x] \in Int
    OBVIOUS
  <2>5. Added(f, 1 .. y) = Added(f, T) + f[y]
    <3> HIDE DEF T, y
    <3>1. Numeric(f, T \cup {y})
      BY <2>3 DEF Numeric
    <3>2. Added(f, T \cup {y}) = Added(f, T) + f[y]
      BY <2>1, <2>2, <3>1, AddedOne
    <3> QED
      BY <2>1, <3>2
  <2>4. f[k + 1] = g[k] - g[k + 1] /\ g[k] \in Int /\ g[k + 1] \in Int /\ g[0] \in Int
    <3>1. k + 1 \in 1 .. n /\ k + 1 - 1 = k /\ k \in 0 .. n /\ k + 1 \in 0 .. n /\ 0 \in 0 .. n
      OBVIOUS
    <3> QED
      BY <3>1
  <2> QED
    BY <2>4, <2>5
<1> HIDE DEF S
<1>3. \A k \in 0 .. n : k \in S
  BY <1>1, <1>2, CountUp
<1> QED
  BY <1>3 DEF S

=============================================================================
