---------------------------- MODULE Flows_proofs -----------------------------
(***************************************************************************)
(* Proofs about what decides on packets and names: the flow table          *)
(* (FlowTable), the front multiplexer (FrontMux), access policies and list *)
(* entries (AccessPolicy), learned names (DnsMap), and all of them         *)
(* together (MCFlows).                                                     *)
(***************************************************************************)
EXTENDS MCFlows, FiniteSetTheorems, SequenceTheorems, WellFoundedInduction, TLAPS

-----------------------------------------------------------------------------
(***************************************************************************)
(* Finite sums.  The library's SumFunctionOnSet takes the elements away    *)
(* one by one, in an order CHOOSE picks.  Such a recursion has a solution, *)
(* the order makes no difference, and so a sum may be split at any element *)
(* and into any two parts.                                                 *)
(***************************************************************************)

\* A set of numbers has a least one.
LEMMA LeastOf ==
  ASSUME NEW T \in SUBSET Nat, T # {}
  PROVE  \E x \in T : \A y \in T : x <= y
<1>1. PICK x \in T : \A y \in T : ~ (<<y, x>> \in OpToRel(<, Nat))
  BY NatLessThanWellFounded, WFMin, Zenon
<1>2. \A y \in T : ~ (y < x)
  BY <1>1 DEF OpToRel
<1>3. QED
  BY <1>2

\* Induction over the numbers, for a set of them.
LEMMA NumbersAll ==
  ASSUME NEW G, 0 \in G, \A n \in Nat : n \in G => n + 1 \in G
  PROVE  \A n \in Nat : n \in G
<1>1. SUFFICES ASSUME {n \in Nat : n \notin G} # {} PROVE FALSE
  OBVIOUS
<1>2. PICK x \in Nat : x \notin G /\ \A y \in Nat : y \notin G => x <= y
  <2>1. {n \in Nat : n \notin G} \in SUBSET Nat
    OBVIOUS
  <2>2. PICK x \in {n \in Nat : n \notin G} : \A y \in {n \in Nat : n \notin G} : x <= y
    BY <1>1, <2>1, LeastOf
  <2>3. QED
    BY <2>2
<1>3. x # 0 /\ x - 1 \in Nat /\ ~ (x <= x - 1)
  BY <1>2
<1>4. x - 1 \in G /\ (x - 1) + 1 = x
  BY <1>2, <1>3
<1>5. QED
  BY <1>2, <1>3, <1>4

\* Induction over the parts of a finite set, for a set of them.
LEMMA PartsAll ==
  ASSUME NEW S, IsFiniteSet(S), NEW G,
         \A T \in SUBSET S : (\A x \in T : T \ {x} \in G) => T \in G
  PROVE  \A T \in SUBSET S : T \in G
<1> DEFINE Upto == {n \in Nat : \A T \in SUBSET S : Cardinality(T) <= n => T \in G}
<1>1. \A T \in SUBSET S : IsFiniteSet(T) /\ Cardinality(T) \in Nat
  BY FS_Subset, FS_CardinalityType
<1>2. 0 \in Upto
  <2>1. ASSUME NEW T \in SUBSET S, Cardinality(T) <= 0 PROVE T \in G
    <3>1. T = {}
      BY <1>1, <2>1, FS_EmptySet
    <3>2. QED
      BY <3>1
  <2>2. QED
    BY <2>1
<1>3. ASSUME NEW n \in Nat, n \in Upto PROVE n + 1 \in Upto
  <2>1. ASSUME NEW T \in SUBSET S, Cardinality(T) <= n + 1 PROVE T \in G
    <3>1. ASSUME NEW x \in T PROVE T \ {x} \in G
      <4>1. Cardinality(T \ {x}) = Cardinality(T) - 1
        BY <1>1, <3>1, FS_RemoveElement
      <4>2. Cardinality(T \ {x}) <= n
        BY <4>1, <1>1, <2>1
      <4>3. T \ {x} \in SUBSET S
        OBVIOUS
      <4>4. QED
        BY <4>2, <4>3, <1>3
    <3>2. QED
      BY <3>1
  <2>2. QED
    BY <2>1
<1>4. \A n \in Nat : n \in Upto
  <2> HIDE DEF Upto
  <2>1. QED
    BY <1>2, <1>3, NumbersAll
<1>5. ASSUME NEW T \in SUBSET S PROVE T \in G
  <2>1. Cardinality(T) \in Upto
    BY <1>1, <1>4
  <2>2. Cardinality(T) <= Cardinality(T)
    BY <1>1
  <2>3. QED
    BY <2>1, <2>2
<1>6. QED
  BY <1>5

\* The element the library takes first, and what it computes.
First(s) == CHOOSE x \in s : TRUE
Unfolds(g, F, D) == g = [s \in D |-> IF s = {} THEN 0 ELSE F[First(s)] + g[s \ {First(s)}]]

LEMMA FirstIn ==
  ASSUME NEW s, s # {}
  PROVE  First(s) \in s
  BY DEF First

LEMMA SumIsUnfolded ==
  ASSUME NEW F, NEW S
  PROVE  SumFunctionOnSet(F, S) = (CHOOSE g : Unfolds(g, F, SUBSET S))[S]
  BY DEF SumFunctionOnSet, FoldFunctionOnSet, MapThenFoldSet, Unfolds, First

\* The recursion has a solution.
LEMMA UnfoldingExists ==
  ASSUME NEW S, IsFiniteSet(S), NEW F
  PROVE  \E g : Unfolds(g, F, SUBSET S)
<1> DEFINE D(n) == {s \in SUBSET S : Cardinality(s) <= n}
           G == {n \in Nat : \E g : Unfolds(g, F, D(n))}
<1>1. \A T \in SUBSET S : IsFiniteSet(T) /\ Cardinality(T) \in Nat /\ Cardinality(T) <= Cardinality(S)
  BY FS_Subset, FS_CardinalityType
<1>2. 0 \in G
  <2>1. \A s \in D(0) : s = {}
    BY <1>1, FS_EmptySet
  <2>2. Unfolds([s \in D(0) |-> 0], F, D(0))
    BY <2>1 DEF Unfolds
  <2>3. QED
    BY <2>2
<1>3. ASSUME NEW n \in Nat, n \in G PROVE n + 1 \in G
  <2>1. PICK g : Unfolds(g, F, D(n))
    BY <1>3
  <2> DEFINE h == [s \in D(n + 1) |-> IF s = {} THEN 0 ELSE F[First(s)] + g[s \ {First(s)}]]
  <2>2. \A s \in D(n) : s \in D(n + 1)
    BY <1>1
  <2>3. ASSUME NEW s \in D(n) PROVE h[s] = g[s]
    <3>1. h[s] = IF s = {} THEN 0 ELSE F[First(s)] + g[s \ {First(s)}]
      BY <2>2
    <3>2. g[s] = IF s = {} THEN 0 ELSE F[First(s)] + g[s \ {First(s)}]
      BY <2>1 DEF Unfolds
    <3>3. QED
      BY <3>1, <3>2
  <2>4. ASSUME NEW s \in D(n + 1), s # {} PROVE s \ {First(s)} \in D(n)
    <3>1. First(s) \in s
      BY <2>4, FirstIn
    <3>2. Cardinality(s \ {First(s)}) = Cardinality(s) - 1
      BY <3>1, <1>1, FS_RemoveElement
    <3>3. Cardinality(s) <= n + 1 /\ Cardinality(s) \in Nat
      BY <1>1
    <3>4. QED
      BY <3>2, <3>3
  <2>5. Unfolds(h, F, D(n + 1))
    <3>1. \A s \in D(n + 1) : s # {} => h[s \ {First(s)}] = g[s \ {First(s)}]
      BY <2>3, <2>4
    <3> DEFINE k == [s \in D(n + 1) |-> IF s = {} THEN 0 ELSE F[First(s)] + h[s \ {First(s)}]]
    <3>2. \A s \in D(n + 1) : h[s] = k[s]
      <4> SUFFICES ASSUME NEW s \in D(n + 1) PROVE h[s] = k[s]
        OBVIOUS
      <4>1. CASE s = {}
        BY <4>1
      <4>2. CASE s # {}
        BY <4>2, <3>1
      <4>3. QED
        BY <4>1, <4>2
    <3>3. h = k
      <4>1. h = [s \in D(n + 1) |-> h[s]] /\ k = [s \in D(n + 1) |-> k[s]]
        OBVIOUS
      <4> HIDE DEF h, k
      <4>2. QED
        BY <4>1, <3>2
    <3>4. QED
      BY <3>3 DEF Unfolds
  <2> HIDE DEF h, D
  <2>6. \E func : Unfolds(func, F, D(n + 1))
    BY <2>5, Zenon
  <2>7. QED
    BY <2>6
<1>4. \A n \in Nat : n \in G
  <2> HIDE DEF G
  <2>1. QED
    BY <1>2, <1>3, NumbersAll
<1>5. D(Cardinality(S)) = SUBSET S
  BY <1>1
<1>6. QED
  BY <1>1, <1>4, <1>5

\* What a sum is: nothing for no element, and any element may be the last one
\* added.
Adds(g, F, S) ==
    /\ g \in [SUBSET S -> Nat] /\ g[{}] = 0
    /\ \A s \in SUBSET S : \A x \in s : g[s] = F[x] + g[s \ {x}]

LEMMA UnfoldingAdds ==
  ASSUME NEW S, IsFiniteSet(S), NEW F, \A x \in S : F[x] \in Nat,
         NEW g, Unfolds(g, F, SUBSET S)
  PROVE  Adds(g, F, S)
<1>1. \A s \in SUBSET S : g[s] = IF s = {} THEN 0 ELSE F[First(s)] + g[s \ {First(s)}]
  BY DEF Unfolds
<1>2. \A s \in SUBSET S : g[s] \in Nat
  <2> DEFINE G == {s \in SUBSET S : g[s] \in Nat}
  <2>1. ASSUME NEW T \in SUBSET S, \A x \in T : T \ {x} \in G PROVE T \in G
    <3>1. CASE T = {}
      BY <3>1, <1>1
    <3>2. CASE T # {}
      <4>1. First(T) \in T
        BY <3>2, FirstIn
      <4>2. F[First(T)] \in Nat /\ g[T \ {First(T)}] \in Nat
        BY <4>1, <2>1
      <4>3. g[T] = F[First(T)] + g[T \ {First(T)}]
        BY <1>1, <3>2
      <4>4. QED
        BY <4>2, <4>3
    <3>3. QED
      BY <3>1, <3>2
  <2>2. \A T \in SUBSET S : T \in G
    <3> HIDE DEF G
    <3>1. QED
      BY <2>1, PartsAll
  <2>3. QED
    BY <2>2
<1>3. \A s \in SUBSET S : \A x \in s : g[s] = F[x] + g[s \ {x}]
  <2> DEFINE G == {s \in SUBSET S : \A x \in s : g[s] = F[x] + g[s \ {x}]}
  <2>1. ASSUME NEW T \in SUBSET S, \A x \in T : T \ {x} \in G PROVE T \in G
    <3>1. ASSUME NEW x \in T PROVE g[T] = F[x] + g[T \ {x}]
      <4> DEFINE c == First(T)
      <4>1. c \in T
        BY <3>1, FirstIn
      <4> HIDE DEF c
      <4>2. g[T] = F[c] + g[T \ {c}]
        BY <1>1, <3>1 DEF c
      <4>3. CASE x = c
        BY <4>2, <4>3
      <4>4. CASE x # c
        <5>1. g[T \ {c}] = F[x] + g[(T \ {c}) \ {x}]
          BY <4>1, <4>4, <2>1, <3>1
        <5>2. g[T \ {x}] = F[c] + g[(T \ {x}) \ {c}]
          BY <4>1, <4>4, <2>1, <3>1
        <5>3. (T \ {c}) \ {x} = (T \ {x}) \ {c}
          OBVIOUS
        <5> DEFINE v == g[(T \ {x}) \ {c}]
        <5>4. v \in Nat /\ F[x] \in Nat /\ F[c] \in Nat
          <6>1. (T \ {x}) \ {c} \in SUBSET S
            OBVIOUS
          <6>2. QED
            BY <6>1, <1>2, <4>1, <3>1
        <5>5. g[T] = F[c] + (F[x] + v) /\ g[T \ {x}] = F[c] + v
          BY <4>2, <5>1, <5>2, <5>3
        <5> HIDE DEF v
        <5>6. QED
          BY <5>4, <5>5
      <4>5. QED
        BY <4>3, <4>4
    <3>2. QED
      BY <3>1
  <2>2. \A T \in SUBSET S : T \in G
    <3> HIDE DEF G
    <3>1. QED
      BY <2>1, PartsAll
  <2>3. QED
    BY <2>2
<1>4. g \in [SUBSET S -> Nat]
  <2>1. g = [s \in SUBSET S |-> g[s]]
    BY DEF Unfolds
  <2>2. QED
    BY <2>1, <1>2
<1>5. g[{}] = 0
  BY <1>1
<1>6. QED
  BY <1>3, <1>4, <1>5 DEF Adds

\* Two sums over the same numbers are the same.
LEMMA AddsAgree ==
  ASSUME NEW S, IsFiniteSet(S), NEW F, NEW H, NEW g, NEW h, NEW T \in SUBSET S,
         Adds(g, F, S), Adds(h, H, T), \A x \in T : F[x] = H[x]
  PROVE  \A s \in SUBSET T : g[s] = h[s]
<1> DEFINE G == {s \in SUBSET T : g[s] = h[s]}
<1>1. ASSUME NEW s \in SUBSET T, \A x \in s : s \ {x} \in G PROVE s \in G
  <2>1. CASE s = {}
    BY <2>1 DEF Adds
  <2>2. CASE s # {}
    <3>1. PICK x \in s : TRUE
      BY <2>2
    <3>2. g[s] = F[x] + g[s \ {x}]
      BY <3>1 DEF Adds
    <3>3. h[s] = H[x] + h[s \ {x}]
      BY <3>1 DEF Adds
    <3>4. g[s \ {x}] = h[s \ {x}]
      BY <1>1
    <3>5. QED
      BY <3>2, <3>3, <3>4
  <2>3. QED
    BY <2>1, <2>2
<1>2. IsFiniteSet(T)
  BY FS_Subset
<1>3. \A s \in SUBSET T : s \in G
  <2> HIDE DEF G
  <2>1. QED
    BY <1>1, <1>2, PartsAll
<1>4. QED
  BY <1>3

\* The library's sum over a part of S is that of one function that adds.
LEMMA SumAdds ==
  ASSUME NEW S, IsFiniteSet(S), NEW F, \A x \in S : F[x] \in Nat
  PROVE  \E g : /\ Adds(g, F, S)
                /\ \A T \in SUBSET S : \A H : (\A x \in T : H[x] = F[x]) => SumFunctionOnSet(H, T) = g[T]
<1>1. PICK g : Unfolds(g, F, SUBSET S)
  BY UnfoldingExists
<1>2. Adds(g, F, S)
  BY <1>1, UnfoldingAdds
<1>3. ASSUME NEW T \in SUBSET S, NEW H, \A x \in T : H[x] = F[x]
      PROVE  SumFunctionOnSet(H, T) = g[T]
  <2> DEFINE h == CHOOSE i : Unfolds(i, H, SUBSET T)
  <2>1. IsFiniteSet(T)
    BY FS_Subset
  <2>2. Unfolds(h, H, SUBSET T)
    BY <2>1, UnfoldingExists
  <2> HIDE DEF h
  <2>3. \A x \in T : H[x] \in Nat
    BY <1>3
  <2>4. Adds(h, H, T)
    BY <2>1, <2>2, <2>3, UnfoldingAdds
  <2>5. \A s \in SUBSET T : g[s] = h[s]
    <3>1. \A x \in T : F[x] = H[x]
      BY <1>3
    <3>2. QED
      BY <1>2, <2>4, <3>1, AddsAgree
  <2>6. SumFunctionOnSet(H, T) = h[T]
    BY SumIsUnfolded DEF h
  <2>7. QED
    BY <2>5, <2>6
<1>4. QED
  BY <1>2, <1>3
\* The laws of sums that the models need.
LEMMA SumLaws ==
  ASSUME NEW S, IsFiniteSet(S), NEW F, \A x \in S : F[x] \in Nat
  PROVE  /\ SumFunctionOnSet(F, S) \in Nat
         /\ S = {} => SumFunctionOnSet(F, S) = 0
         /\ \A x \in S : SumFunctionOnSet(F, S) = F[x] + SumFunctionOnSet(F, S \ {x})
         /\ \A H : (\A x \in S : H[x] = F[x]) => SumFunctionOnSet(H, S) = SumFunctionOnSet(F, S)
<1>1. PICK g : /\ Adds(g, F, S)
               /\ \A T \in SUBSET S : \A H : (\A x \in T : H[x] = F[x]) => SumFunctionOnSet(H, T) = g[T]
  BY SumAdds
<1>2. \A T \in SUBSET S : SumFunctionOnSet(F, T) = g[T]
  BY <1>1
<1>3. S \in SUBSET S /\ \A x \in S : S \ {x} \in SUBSET S
  OBVIOUS
<1>4. SumFunctionOnSet(F, S) \in Nat /\ (S = {} => SumFunctionOnSet(F, S) = 0)
  BY <1>1, <1>2, <1>3 DEF Adds
<1>5. ASSUME NEW x \in S PROVE SumFunctionOnSet(F, S) = F[x] + SumFunctionOnSet(F, S \ {x})
  <2>1. SumFunctionOnSet(F, S) = g[S] /\ SumFunctionOnSet(F, S \ {x}) = g[S \ {x}]
    BY <1>2, <1>3
  <2>2. g[S] = F[x] + g[S \ {x}]
    BY <1>1, <1>3 DEF Adds
  <2>3. QED
    BY <2>1, <2>2
<1>6. \A H : (\A x \in S : H[x] = F[x]) => SumFunctionOnSet(H, S) = SumFunctionOnSet(F, S)
  BY <1>1, <1>2, <1>3
<1>7. QED
  BY <1>4, <1>5, <1>6

\* A sum of nothing.
LEMMA SumOfNothing ==
  ASSUME NEW S, IsFiniteSet(S), NEW F, \A x \in S : F[x] = 0
  PROVE  SumFunctionOnSet(F, S) = 0
<1> DEFINE G == {T \in SUBSET S : SumFunctionOnSet(F, T) = 0}
<1>1. ASSUME NEW T \in SUBSET S, \A x \in T : T \ {x} \in G PROVE T \in G
  <2>1. IsFiniteSet(T) /\ \A x \in T : F[x] \in Nat /\ F[x] = 0
    BY FS_Subset
  <2>2. /\ T = {} => SumFunctionOnSet(F, T) = 0
        /\ \A x \in T : SumFunctionOnSet(F, T) = F[x] + SumFunctionOnSet(F, T \ {x})
    BY <2>1, SumLaws
  <2>3. CASE T = {}
    BY <2>2, <2>3
  <2>4. ASSUME NEW x \in T PROVE SumFunctionOnSet(F, T) = 0
    <3>1. SumFunctionOnSet(F, T \ {x}) = 0
      BY <1>1
    <3>2. SumFunctionOnSet(F, T) = F[x] + SumFunctionOnSet(F, T \ {x}) /\ F[x] = 0
      BY <2>1, <2>2
    <3>3. QED
      BY <3>1, <3>2
  <2>5. QED
    BY <2>3, <2>4
<1>2. \A T \in SUBSET S : T \in G
  <2> HIDE DEF G
  <2>1. QED
    BY <1>1, PartsAll
<1>3. QED
  BY <1>2

\* One number changes.
LEMMA SumChanges ==
  ASSUME NEW S, IsFiniteSet(S), NEW F, \A x \in S : F[x] \in Nat, NEW H, NEW k \in S,
         H[k] \in Nat, \A x \in S \ {k} : H[x] = F[x]
  PROVE  SumFunctionOnSet(H, S) + F[k] = SumFunctionOnSet(F, S) + H[k]
<1> DEFINE R == S \ {k}
<1>1. IsFiniteSet(R)
  BY FS_Subset
<1>2. \A x \in S : H[x] \in Nat
  OBVIOUS
<1>3. \A x \in R : F[x] \in Nat /\ H[x] = F[x]
  OBVIOUS
<1>4. SumFunctionOnSet(F, R) \in Nat /\ SumFunctionOnSet(H, R) = SumFunctionOnSet(F, R)
  <2> HIDE DEF R
  <2>1. QED
    BY <1>1, <1>3, SumLaws
<1>5. SumFunctionOnSet(F, S) = F[k] + SumFunctionOnSet(F, R)
  BY SumLaws
<1>6. SumFunctionOnSet(H, S) = H[k] + SumFunctionOnSet(H, R)
  BY <1>2, SumLaws
<1> DEFINE a == SumFunctionOnSet(F, R)
<1>7. a \in Nat /\ F[k] \in Nat /\ H[k] \in Nat
  BY <1>4
<1>8. SumFunctionOnSet(F, S) = F[k] + a /\ SumFunctionOnSet(H, S) = H[k] + a
  BY <1>4, <1>5, <1>6
<1> HIDE DEF a
<1>9. QED
  BY <1>7, <1>8

\* A set falls into two parts.
LEMMA SumParts ==
  ASSUME NEW S, IsFiniteSet(S), NEW F, \A x \in S : F[x] \in Nat, NEW A \in SUBSET S
  PROVE  /\ SumFunctionOnSet(F, A) \in Nat /\ SumFunctionOnSet(F, S \ A) \in Nat
         /\ SumFunctionOnSet(F, S) = SumFunctionOnSet(F, A) + SumFunctionOnSet(F, S \ A)
<1>1. PICK g : /\ Adds(g, F, S)
               /\ \A T \in SUBSET S : \A H : (\A x \in T : H[x] = F[x]) => SumFunctionOnSet(H, T) = g[T]
  BY SumAdds
<1>2. \A T \in SUBSET S : SumFunctionOnSet(F, T) = g[T]
  BY <1>1
<1> DEFINE G == {T \in SUBSET S : T \cap A = {} => g[T \cup A] = g[A] + g[T]}
<1>3. ASSUME NEW T \in SUBSET S, \A x \in T : T \ {x} \in G PROVE T \in G
  <2> SUFFICES ASSUME T \cap A = {} PROVE g[T \cup A] = g[A] + g[T]
    OBVIOUS
  <2>1. CASE T = {}
    <3>1. g[A] \in Nat /\ g[T] = 0 /\ T \cup A = A
      BY <2>1, <1>1 DEF Adds
    <3>2. QED
      BY <3>1
  <2>2. CASE T # {}
    <3>1. PICK x \in T : TRUE
      BY <2>2
    <3>2. g[T] = F[x] + g[T \ {x}]
      BY <3>1, <1>1 DEF Adds
    <3>3. g[T \cup A] = F[x] + g[(T \cup A) \ {x}]
      <4>1. T \cup A \in SUBSET S /\ x \in T \cup A
        BY <3>1
      <4>2. QED
        BY <4>1, <1>1 DEF Adds
    <3>4. (T \cup A) \ {x} = (T \ {x}) \cup A
      BY <3>1
    <3>5. g[(T \ {x}) \cup A] = g[A] + g[T \ {x}]
      BY <1>3
    <3> DEFINE a == g[A]
               t == g[T \ {x}]
    <3>6. a \in Nat /\ t \in Nat /\ F[x] \in Nat
      <4>1. T \ {x} \in SUBSET S
        OBVIOUS
      <4>2. QED
        BY <4>1, <1>1 DEF Adds
    <3>7. g[T] = F[x] + t /\ g[T \cup A] = F[x] + (a + t)
      BY <3>2, <3>3, <3>4, <3>5
    <3> HIDE DEF a, t
    <3>8. g[T \cup A] = a + g[T]
      BY <3>6, <3>7
    <3>9. QED
      BY <3>8 DEF a
  <2>3. QED
    BY <2>1, <2>2
<1>4. \A T \in SUBSET S : T \in G
  <2> HIDE DEF G
  <2>1. QED
    BY <1>3, PartsAll
<1>5. g[(S \ A) \cup A] = g[A] + g[S \ A]
  <2>1. S \ A \in SUBSET S /\ (S \ A) \cap A = {}
    OBVIOUS
  <2>2. QED
    BY <2>1, <1>4
<1>6. (S \ A) \cup A = S /\ S \in SUBSET S /\ S \ A \in SUBSET S
  OBVIOUS
<1>7. g[A] \in Nat /\ g[S \ A] \in Nat
  BY <1>1, <1>6 DEF Adds
<1>8. QED
  BY <1>2, <1>5, <1>6, <1>7
-----------------------------------------------------------------------------
(***************************************************************************)
(* FrontMux.  An entry that is not there holds nothing and nothing came    *)
(* for it; a resolved one holds nothing more.  The budget is a sum over    *)
(* all handshakes, of which a step changes at most two: the entry that     *)
(* makes room and the entry of the datagram.                               *)
(***************************************************************************)
FrontEntry == [there : BOOLEAN, resolved : BOOLEAN, crypto : SUBSET (1..Parts), held : Seq(1..Parts)]

FrontTypes ==
    /\ initial \in [Handshakes -> FrontEntry]
    /\ buffered \in 0 .. MaxBuffered
    /\ got \in [Handshakes -> Seq(1..Parts)] /\ came \in [Handshakes -> Seq(1..Parts)]

AbsentIsEmpty ==
    \A k \in Handshakes : ~initial[k].there => initial[k] = NoFlow /\ got[k] = <<>> /\ came[k] = <<>>
ResolvedHoldsNothing ==
    \A k \in Handshakes : initial[k].resolved => /\ initial[k].there
                                                 /\ initial[k].crypto = {} /\ initial[k].held = <<>>
FewTabled == Cardinality(Tabled) <= MaxFlows

Weight(table) == SumFunction([k \in Handshakes |-> Size(table[k])])

FrontIInv ==
    /\ FrontTypes /\ AbsentIsEmpty /\ ResolvedHoldsNothing /\ FewTabled
    /\ buffered = Weight(initial) /\ ServerGetsAllInOrder

\* The greatest of some parts.
LEMMA GreatestOf ==
  ASSUME NEW n \in Nat, NEW T \in SUBSET (0 .. n), T # {}
  PROVE  Max(T) \in T /\ \A y \in T : y <= Max(T)
<1> DEFINE D == {n - x : x \in T}
<1>1. D \in SUBSET Nat /\ D # {}
  OBVIOUS
<1>2. PICK d \in D : \A y \in D : d <= y
  <2> HIDE DEF D
  <2>1. QED
    BY <1>1, LeastOf
<1>3. PICK m \in T : d = n - m
  BY <1>2
<1>4. ASSUME NEW y \in T PROVE m >= y
  <2>1. d <= n - y
    BY <1>2, <1>4
  <2>2. m \in 0 .. n /\ y \in 0 .. n
    OBVIOUS
  <2>3. QED
    BY <1>3, <2>1, <2>2
<1>5. \E x \in T : \A y \in T : x >= y
  BY <1>4
<1> DEFINE g == CHOOSE x \in T : \A y \in T : x >= y
<1>6. g \in T /\ \A y \in T : g >= y
  BY <1>5
<1>7. Max(T) = g
  BY DEF Max
<1> HIDE DEF g
<1>8. g \in 0 .. n /\ \A y \in T : y \in 0 .. n
  BY <1>6
<1>9. QED
  BY <1>6, <1>7, <1>8

LEMMA SizeIsNat ==
  ASSUME NEW fl \in FrontEntry
  PROVE  Extent(fl.crypto) \in Nat /\ Len(fl.held) \in Nat /\ Size(fl) \in Nat
<1> USE FrontBounds
<1>1. fl.crypto \cup {0} \in SUBSET (0 .. Parts) /\ fl.crypto \cup {0} # {}
  BY DEF FrontEntry
<1>2. Max(fl.crypto \cup {0}) \in fl.crypto \cup {0}
  BY <1>1, GreatestOf
<1>3. Extent(fl.crypto) \in Nat
  BY <1>1, <1>2 DEF Extent
<1>4. Len(fl.held) \in Nat
  BY DEF FrontEntry
<1> DEFINE a == Extent(fl.crypto)
           b == Len(fl.held)
<1>5. Size(fl) = 2 * a + b
  BY DEF Size
<1>6. a \in Nat /\ b \in Nat
  BY <1>3, <1>4
<1> HIDE DEF a, b
<1>7. 2 * a + b \in Nat
  BY <1>6
<1>8. QED
  BY <1>3, <1>4, <1>5, <1>7

LEMMA NoFlowIsEmpty ==
  /\ NoFlow \in FrontEntry /\ Size(NoFlow) = 0
  /\ [NoFlow EXCEPT !.there = TRUE] \in FrontEntry /\ Size([NoFlow EXCEPT !.there = TRUE]) = 0
<1> USE FrontBounds
<1>1. <<>> \in Seq(1 .. Parts)
  OBVIOUS
<1>2. NoFlow \in FrontEntry /\ [NoFlow EXCEPT !.there = TRUE] \in FrontEntry
  BY <1>1 DEF NoFlow, FrontEntry
<1>3. Max({} \cup {0}) = 0
  <2>1. {} \cup {0} \in SUBSET (0 .. Parts) /\ {} \cup {0} # {}
    OBVIOUS
  <2>2. Max({} \cup {0}) \in {} \cup {0}
    BY <2>1, GreatestOf
  <2>3. QED
    BY <2>2
<1>4. Extent({}) = 0
  BY <1>3 DEF Extent
<1>5. Size(NoFlow) = 2 * Extent({}) + Len(<<>>) /\ Size([NoFlow EXCEPT !.there = TRUE]) = 2 * Extent({}) + Len(<<>>)
  BY DEF Size, NoFlow
<1>6. QED
  BY <1>2, <1>4, <1>5

\* One entry is replaced.
LEMMA WeightPut ==
  ASSUME NEW table \in [Handshakes -> FrontEntry], NEW k \in Handshakes, NEW x \in FrontEntry
  PROVE  /\ Weight(table) \in Nat /\ Weight([table EXCEPT ![k] = x]) \in Nat
         /\ Weight([table EXCEPT ![k] = x]) + Size(table[k]) = Weight(table) + Size(x)
         /\ Size(table[k]) \in Nat /\ Size(x) \in Nat
<1> DEFINE F == [j \in Handshakes |-> Size(table[j])]
           new == [table EXCEPT ![k] = x]
           H == [j \in Handshakes |-> Size(new[j])]
<1>1. IsFiniteSet(Handshakes)
  BY FrontBounds
<1>2. new \in [Handshakes -> FrontEntry]
  OBVIOUS
<1>3. \A j \in Handshakes : F[j] \in Nat /\ H[j] \in Nat
  <2> HIDE DEF new
  <2>1. QED
    BY <1>2, SizeIsNat
<1>4. F[k] = Size(table[k]) /\ H[k] = Size(x) /\ \A j \in Handshakes \ {k} : H[j] = F[j]
  OBVIOUS
<1>5. Weight(table) = SumFunctionOnSet(F, Handshakes) /\ Weight(new) = SumFunctionOnSet(H, Handshakes)
  BY DEF Weight, SumFunction
<1> HIDE DEF F, H, new
<1>6. SumFunctionOnSet(H, Handshakes) + F[k] = SumFunctionOnSet(F, Handshakes) + H[k]
  BY <1>1, <1>3, <1>4, SumChanges
<1>7. SumFunctionOnSet(F, Handshakes) \in Nat /\ SumFunctionOnSet(H, Handshakes) \in Nat
  BY <1>1, <1>3, SumLaws
<1>8. Size(table[k]) \in Nat /\ Size(x) \in Nat
  BY SizeIsNat
<1>9. QED
  BY <1>4, <1>5, <1>6, <1>7, <1>8 DEF new
\* Entries make room.
LEMMA WeightOut ==
  ASSUME NEW table \in [Handshakes -> FrontEntry], NEW out,
         out = {} \/ \E e \in Handshakes : out = {e}
  PROVE  /\ ForgetFlows(out, table) \in [Handshakes -> FrontEntry]
         /\ Weight(ForgetFlows(out, table)) = Weight(table) - SumFunction([e \in out |-> Size(table[e])])
         /\ Weight(ForgetFlows(out, table)) \in Nat /\ Weight(ForgetFlows(out, table)) <= Weight(table)
         /\ Weight(table) \in Nat
<1> DEFINE F == [e \in out |-> Size(table[e])]
<1>0. ForgetFlows(out, table) \in [Handshakes -> FrontEntry]
  BY NoFlowIsEmpty DEF ForgetFlows
<1>1. IsFiniteSet(out)
  BY FS_EmptySet, FS_Singleton
<1>2. SumFunction(F) = SumFunctionOnSet(F, out)
  BY DEF SumFunction
<1>3. \A x \in out : F[x] \in Nat /\ F[x] = Size(table[x])
  BY SizeIsNat
<1>w. Weight(table) \in Nat
  <2> DEFINE H == [j \in Handshakes |-> Size(table[j])]
  <2>1. \A j \in Handshakes : H[j] \in Nat
    BY SizeIsNat
  <2>2. Weight(table) = SumFunctionOnSet(H, Handshakes)
    BY DEF Weight, SumFunction
  <2> HIDE DEF H
  <2>3. QED
    BY <2>1, <2>2, FrontBounds, SumLaws
<1>4. CASE out = {}
  <2>1. SumFunctionOnSet(F, out) = 0
    <3> HIDE DEF F
    <3>1. QED
      BY <1>1, <1>3, <1>4, SumLaws
  <2>2. ForgetFlows(out, table) = table
    BY <1>4 DEF ForgetFlows
  <2>3. QED
    BY <1>0, <1>2, <1>w, <2>1, <2>2
<1>5. ASSUME NEW e \in Handshakes, out = {e}
      PROVE  /\ Weight(ForgetFlows(out, table)) = Weight(table) - SumFunction(F)
             /\ Weight(ForgetFlows(out, table)) \in Nat /\ Weight(ForgetFlows(out, table)) <= Weight(table)
  <2>1. SumFunctionOnSet(F, out) = F[e] + SumFunctionOnSet(F, out \ {e})
    <3> HIDE DEF F
    <3>1. QED
      BY <1>1, <1>3, <1>5, SumLaws
  <2>2. SumFunctionOnSet(F, {}) = 0
    <3>1. \A x \in {} : F[x] \in Nat
      OBVIOUS
    <3> HIDE DEF F
    <3>2. QED
      BY <3>1, FS_EmptySet, SumLaws
  <2>3. out \ {e} = {}
    BY <1>5
  <2>4. SumFunction(F) = Size(table[e])
    <3>1. F[e] = Size(table[e]) /\ F[e] \in Nat
      BY <1>3, <1>5
    <3> HIDE DEF F
    <3>2. QED
      BY <1>2, <2>1, <2>2, <2>3, <3>1
  <2>5. ForgetFlows(out, table) = [table EXCEPT ![e] = NoFlow]
    BY <1>5 DEF ForgetFlows
  <2>6. /\ Weight(table) \in Nat /\ Weight(ForgetFlows(out, table)) \in Nat
        /\ Weight(ForgetFlows(out, table)) + Size(table[e]) = Weight(table) + Size(NoFlow)
        /\ Size(table[e]) \in Nat
    <3>1. /\ Weight(table) \in Nat /\ Weight([table EXCEPT ![e] = NoFlow]) \in Nat
          /\ Weight([table EXCEPT ![e] = NoFlow]) + Size(table[e]) = Weight(table) + Size(NoFlow)
          /\ Size(table[e]) \in Nat
      BY WeightPut, NoFlowIsEmpty
    <3>2. QED
      BY <2>5, <3>1, Zenon
  <2>7. QED
    BY <2>4, <2>6, NoFlowIsEmpty
<1>6. QED
  BY <1>0, <1>4, <1>5, <1>w

LEMMA TabledFinite ==
  ASSUME NEW T, T \subseteq Handshakes
  PROVE  IsFiniteSet(T) /\ Cardinality(T) \in Nat
  BY FrontBounds, FS_Subset, FS_CardinalityType

\* The entry of k is replaced by x in the table that is left without out: what
\* routeUDP does in each of its three cases.
Replaced(k, out, x) ==
    [ForgetFlows(out, initial) EXCEPT ![k] = x]

\* What is known of the table then, and of the budget it takes.
Fits(k, out, x) ==
    /\ k \notin out /\ out \subseteq Tabled /\ (out # {} => ~initial[k].there)
    /\ \A e \in out : ~initial[e].resolved
    /\ Replaced(k, out, x) \in [Handshakes -> FrontEntry]
    /\ Replaced(k, out, x)[k] = x
    /\ \A j \in out : Replaced(k, out, x)[j] = NoFlow
    /\ \A j \in Handshakes \ (out \cup {k}) : Replaced(k, out, x)[j] = initial[j]
    /\ LET freed == buffered - SumFunction([e \in out |-> Size(initial[e])])
       IN  /\ freed \in Nat /\ freed <= buffered /\ Size(initial[k]) \in Nat /\ Size(x) \in Nat
           /\ Weight(Replaced(k, out, x)) \in Nat
           /\ Weight(Replaced(k, out, x)) = freed - Size(initial[k]) + Size(x)
           /\ Size(initial[k]) <= freed
    /\ Cardinality({j \in Handshakes : Replaced(k, out, x)[j].there}) <= MaxFlows

LEMMA ReplacedFacts ==
  ASSUME FrontIInv, NEW k \in Handshakes, NEW out \in Rooms(k), NEW x \in FrontEntry, ~initial[k].resolved
  PROVE  Fits(k, out, x)
<1> USE DEF FrontIInv
<1> DEFINE table == ForgetFlows(out, initial)
<1>1. /\ out = {} \/ \E e \in Tabled : out = {e} /\ ~initial[e].resolved /\ ~initial[k].there
      /\ out = {} => initial[k].there \/ Cardinality(Tabled) < MaxFlows
  BY DEF Rooms
<1>2. k \notin out /\ out \subseteq Tabled /\ (out # {} => ~initial[k].there) /\ \A e \in out : ~initial[e].resolved
  BY <1>1 DEF Tabled
<1>3. initial \in [Handshakes -> FrontEntry]
  BY DEF FrontTypes
<1>4. out = {} \/ \E e \in Handshakes : out = {e}
  BY <1>1 DEF Tabled
<1>5. /\ table \in [Handshakes -> FrontEntry]
      /\ Weight(table) = Weight(initial) - SumFunction([e \in out |-> Size(initial[e])])
      /\ Weight(table) \in Nat /\ Weight(table) <= Weight(initial)
  BY <1>3, <1>4, WeightOut
<1>6. /\ table[k] = initial[k] /\ \A j \in out : table[j] = NoFlow
      /\ \A j \in Handshakes \ out : table[j] = initial[j]
  BY <1>2 DEF ForgetFlows, Tabled
<1>7. Replaced(k, out, x) = [table EXCEPT ![k] = x]
  BY DEF Replaced
<1> HIDE DEF table
<1>8. /\ Weight(Replaced(k, out, x)) \in Nat
      /\ Weight(Replaced(k, out, x)) + Size(initial[k]) = Weight(table) + Size(x)
      /\ Size(initial[k]) \in Nat /\ Size(x) \in Nat
  <2>1. /\ Weight([table EXCEPT ![k] = x]) \in Nat
        /\ Weight([table EXCEPT ![k] = x]) + Size(table[k]) = Weight(table) + Size(x)
        /\ Size(table[k]) \in Nat /\ Size(x) \in Nat
    BY <1>5, WeightPut
  <2>2. QED
    BY <1>6, <1>7, <2>1, Zenon
<1>9. /\ Replaced(k, out, x) \in [Handshakes -> FrontEntry] /\ Replaced(k, out, x)[k] = x
      /\ \A j \in out : Replaced(k, out, x)[j] = NoFlow
      /\ \A j \in Handshakes \ (out \cup {k}) : Replaced(k, out, x)[j] = initial[j]
  BY <1>2, <1>5, <1>6, <1>7 DEF Tabled
<1>10. Size(initial[k]) <= Weight(table)
  <2>1. /\ Weight([table EXCEPT ![k] = NoFlow]) \in Nat
        /\ Weight([table EXCEPT ![k] = NoFlow]) + Size(table[k]) = Weight(table) + Size(NoFlow)
    BY <1>5, WeightPut, NoFlowIsEmpty
  <2>2. QED
    BY <1>5, <1>6, <1>8, <2>1, NoFlowIsEmpty
<1>11. Cardinality({j \in Handshakes : Replaced(k, out, x)[j].there}) <= MaxFlows
  <2> DEFINE N == {j \in Handshakes : Replaced(k, out, x)[j].there}
  <2>t. Tabled \subseteq Handshakes /\ IsFiniteSet(Tabled) /\ Cardinality(Tabled) \in Nat /\ Cardinality(Tabled) <= MaxFlows
    BY TabledFinite DEF Tabled, FewTabled
  <2>m. MaxFlows \in Nat
    BY FrontBounds
  <2>0. N \subseteq (Tabled \ out) \cup {k}
    <3>1. \A j \in out : ~Replaced(k, out, x)[j].there
      BY <1>9 DEF NoFlow
    <3>2. QED
      BY <3>1, <1>9 DEF Tabled
  <2> HIDE DEF N
  <2>1. CASE out = {} /\ initial[k].there
    <3>1. N \in SUBSET Tabled
      BY <2>0, <2>1 DEF Tabled
    <3>2. Cardinality(N) <= Cardinality(Tabled) /\ IsFiniteSet(N)
      BY <2>t, <3>1, FS_Subset
    <3>3. Cardinality(N) \in Nat
      BY <3>2, FS_CardinalityType
    <3>4. QED
      BY <2>t, <2>m, <3>2, <3>3 DEF N
  <2>2. CASE out = {} /\ ~initial[k].there
    <3>1. k \notin Tabled /\ N \in SUBSET (Tabled \cup {k})
      BY <2>0, <2>2 DEF Tabled
    <3>2. IsFiniteSet(Tabled \cup {k}) /\ Cardinality(Tabled \cup {k}) = Cardinality(Tabled) + 1
      BY <2>t, <3>1, FS_AddElement
    <3>3. Cardinality(N) <= Cardinality(Tabled \cup {k}) /\ IsFiniteSet(N)
      BY <3>1, <3>2, FS_Subset
    <3>4. Cardinality(N) \in Nat /\ Cardinality(Tabled) < MaxFlows
      BY <3>3, <2>2, <1>1, FS_CardinalityType
    <3>5. QED
      BY <2>t, <2>m, <3>2, <3>3, <3>4 DEF N
  <2>3. ASSUME NEW e \in Tabled, out = {e} PROVE Cardinality(N) <= MaxFlows
    <3>1. k \notin Tabled \ {e} /\ N \in SUBSET ((Tabled \ {e}) \cup {k})
      BY <2>0, <2>3, <1>2 DEF Tabled
    <3>2. IsFiniteSet(Tabled \ {e}) /\ Cardinality(Tabled \ {e}) = Cardinality(Tabled) - 1
      BY <2>t, <2>3, FS_RemoveElement
    <3>3. IsFiniteSet((Tabled \ {e}) \cup {k}) /\ Cardinality((Tabled \ {e}) \cup {k}) = Cardinality(Tabled \ {e}) + 1
      BY <3>1, <3>2, FS_AddElement
    <3>4. Cardinality(N) <= Cardinality((Tabled \ {e}) \cup {k}) /\ IsFiniteSet(N)
      BY <3>1, <3>3, FS_Subset
    <3>5. Cardinality(N) \in Nat
      BY <3>4, FS_CardinalityType
    <3>6. QED
      BY <2>t, <2>m, <3>2, <3>3, <3>4, <3>5
  <2>4. QED
    BY <1>1, <2>1, <2>2, <2>3 DEF N
<1> DEFINE freed == buffered - SumFunction([e \in out |-> Size(initial[e])])
<1>12. Weight(table) = freed /\ freed \in Nat /\ freed <= buffered
  BY <1>5
<1> HIDE DEF freed
<1>13. Weight(Replaced(k, out, x)) = freed - Size(initial[k]) + Size(x) /\ Size(initial[k]) <= freed
  <2> DEFINE w == Weight(Replaced(k, out, x))
             i == Size(initial[k])
             z == Size(x)
  <2>1. w \in Nat /\ i \in Nat /\ z \in Nat /\ freed \in Nat /\ w + i = freed + z /\ i <= freed
    BY <1>8, <1>10, <1>12
  <2> HIDE DEF w, i, z
  <2>2. w = freed - i + z
    BY <2>1
  <2>3. QED
    BY <2>1, <2>2 DEF w, i, z
<1>14. QED
  BY <1>2, <1>8, <1>9, <1>11, <1>12, <1>13 DEF freed, Fits
\* The bookkeeping of a handshake's own entry: x, with what the server got and
\* what came.
Booked(x, g, c) ==
    /\ g \in Seq(1..Parts) /\ c \in Seq(1..Parts)
    /\ ~x.there => x = NoFlow /\ g = <<>> /\ c = <<>>
    /\ x.resolved => x.there /\ x.crypto = {} /\ x.held = <<>>
    /\ x.there => IF x.resolved THEN g = c ELSE g = <<>> /\ x.held = c

LEMMA AllBooked ==
  ASSUME FrontIInv, NEW k \in Handshakes
  PROVE  Booked(initial[k], got[k], came[k])
  BY DEF FrontIInv, FrontTypes, AbsentIsEmpty, ResolvedHoldsNothing, ServerGetsAllInOrder, Tabled, Booked

LEMMA BookedKeeps ==
  ASSUME initial' \in [Handshakes -> FrontEntry], buffered' \in 0 .. MaxBuffered,
         Cardinality({j \in Handshakes : initial'[j].there}) <= MaxFlows,
         buffered' = Weight(initial'),
         got' = [j \in Handshakes |-> got'[j]], came' = [j \in Handshakes |-> came'[j]],
         \A j \in Handshakes : Booked(initial'[j], got'[j], came'[j])
  PROVE  FrontIInv'
<1>1. got' \in [Handshakes -> Seq(1..Parts)] /\ came' \in [Handshakes -> Seq(1..Parts)]
  BY DEF Booked
<1>2. FrontTypes'
  BY <1>1 DEF FrontTypes
<1>3. AbsentIsEmpty' /\ ResolvedHoldsNothing'
  BY DEF AbsentIsEmpty, ResolvedHoldsNothing, Booked
<1>4. ServerGetsAllInOrder'
  BY DEF ServerGetsAllInOrder, Booked, Tabled
<1>5. FewTabled'
  BY DEF FewTabled, Tabled
<1>6. QED
  BY <1>2, <1>3, <1>4, <1>5 DEF FrontIInv

LEMMA RouteInitialKeeps ==
  ASSUME FrontIInv, NEW k \in Handshakes, NEW p \in 1 .. Parts, RouteInitial(k, p)
  PROVE  FrontIInv'
<1> DEFINE Freed(o) == buffered - SumFunction([e \in o |-> Size(initial[e])])
           old == IF initial[k].there THEN initial[k] ELSE [NoFlow EXCEPT !.there = TRUE]
           fl == [old EXCEPT !.crypto = CryptoFrames(@, p)]
           Total(o) == Freed(o) + Size(fl) - Size(old)
           done == [fl EXCEPT !.resolved = TRUE, !.crypto = {}, !.held = <<>>]
           kept == [fl EXCEPT !.held = Append(@, p)]
           cleared(h, o) == [j \in Handshakes |-> IF j \in o \cup {k} THEN <<>> ELSE h[j]]
           noted(h, s, o) == [j \in Handshakes |-> IF j \in o THEN <<>> ELSE IF j = k THEN h[j] \o s ELSE h[j]]
           A(o) == /\ initial' = Replaced(k, o, done) /\ buffered' = Total(o) - Size(fl)
                   /\ got' = noted(got, Released(fl, p), o) /\ came' = noted(came, <<p>>, o)
           B(o) == /\ initial' = Replaced(k, o, kept) /\ buffered' = Total(o) + 1
                   /\ ~OverBudget(Total(o) + 1)
                   /\ got' = noted(got, <<>>, o) /\ came' = noted(came, <<p>>, o)
           C(o) == /\ initial' = ForgetFlows({k}, ForgetFlows(o, initial)) /\ buffered' = Total(o) - Size(fl)
                   /\ got' = cleared(got, o) /\ came' = cleared(came, o)
<1>1. ~initial[k].resolved /\ \E o \in Rooms(k) : A(o) \/ B(o) \/ C(o)
  BY Zenon DEF RouteInitial, Replaced
<1> HIDE DEF A, B, C
<1>2. PICK out \in Rooms(k) : A(out) \/ B(out) \/ C(out)
  BY <1>1
<1>3. initial[k] \in FrontEntry /\ got[k] \in Seq(1..Parts) /\ came[k] \in Seq(1..Parts) /\ Booked(initial[k], got[k], came[k])
  BY AllBooked DEF FrontIInv, FrontTypes
<1>4. /\ old \in FrontEntry /\ Size(old) = Size(initial[k]) /\ old.there /\ ~old.resolved
      /\ got[k] = <<>> /\ old.held = came[k]
  <2>1. CASE initial[k].there
    BY <2>1, <1>1, <1>3 DEF Booked
  <2>2. CASE ~initial[k].there
    BY <2>2, <1>3, NoFlowIsEmpty DEF Booked, NoFlow
  <2>3. QED
    BY <2>1, <2>2
<1> HIDE DEF old
<1>5. /\ fl \in FrontEntry /\ fl.there /\ ~fl.resolved /\ fl.held = came[k]
      /\ \A h \in Seq(1..Parts) : [fl EXCEPT !.held = h] \in FrontEntry
  BY <1>4 DEF FrontEntry, CryptoFrames
<1> HIDE DEF fl
<1>6. /\ done \in FrontEntry /\ done.there /\ done.resolved /\ done.crypto = {} /\ done.held = <<>>
      /\ Size(done) = 0
  <2>1. <<>> \in Seq(1 .. Parts)
    OBVIOUS
  <2>2. done \in FrontEntry /\ done.there /\ done.resolved /\ done.crypto = {} /\ done.held = <<>>
    BY <1>5, <2>1 DEF FrontEntry
  <2>3. Size(done) = Size(NoFlow)
    BY <2>2 DEF Size, NoFlow
  <2>4. QED
    BY <2>2, <2>3, NoFlowIsEmpty
<1>7. /\ kept \in FrontEntry /\ kept.there /\ ~kept.resolved /\ kept.held = Append(came[k], p)
      /\ Size(kept) = Size(fl) + 1
  <2>1. Append(came[k], p) \in Seq(1 .. Parts) /\ Len(Append(came[k], p)) = Len(came[k]) + 1
    BY <1>3
  <2>2. kept \in FrontEntry /\ kept.there /\ ~kept.resolved /\ kept.held = Append(came[k], p) /\ kept.crypto = fl.crypto
    BY <1>5, <2>1 DEF FrontEntry
  <2> DEFINE x == Extent(fl.crypto)
             l == Len(came[k])
  <2>3. Size(fl) = 2 * x + l /\ Size(kept) = 2 * x + (l + 1)
    BY <1>5, <2>1, <2>2 DEF Size
  <2>4. x \in Nat /\ l \in Nat
    BY <1>5, <1>3, SizeIsNat
  <2> HIDE DEF x, l
  <2>5. Size(kept) = Size(fl) + 1
    BY <2>3, <2>4
  <2>6. QED
    BY <2>2, <2>5
<1> HIDE DEF done, kept
<1>8. Size(fl) \in Nat /\ NoFlow \in FrontEntry /\ Size(NoFlow) = 0
  BY <1>5, SizeIsNat, NoFlowIsEmpty
<1>9. k \notin out /\ \A j \in Handshakes : Booked(initial[j], got[j], came[j])
  <2>1. Fits(k, out, fl)
    BY <1>1, <1>5, ReplacedFacts
  <2>2. QED
    BY <2>1, AllBooked DEF Fits
<1>e. Booked(NoFlow, <<>>, <<>>)
  BY DEF Booked, NoFlow
<1>m. MaxBuffered \in Nat /\ buffered \in 0 .. MaxBuffered
  BY FrontBounds DEF FrontIInv, FrontTypes
<1>10. CASE A(out)
  <2>1. /\ initial' = Replaced(k, out, done) /\ buffered' = Total(out) - Size(fl)
        /\ got' = noted(got, Released(fl, p), out) /\ came' = noted(came, <<p>>, out)
    BY <1>10 DEF A
  <2>2. /\ Replaced(k, out, done) \in [Handshakes -> FrontEntry] /\ Replaced(k, out, done)[k] = done
        /\ \A j \in out : Replaced(k, out, done)[j] = NoFlow
        /\ \A j \in Handshakes \ (out \cup {k}) : Replaced(k, out, done)[j] = initial[j]
        /\ Freed(out) \in Nat /\ Freed(out) <= buffered /\ Size(initial[k]) \in Nat
        /\ Weight(Replaced(k, out, done)) \in Nat /\ Size(initial[k]) <= Freed(out)
        /\ Weight(Replaced(k, out, done)) = Freed(out) - Size(initial[k]) + Size(done)
        /\ Cardinality({j \in Handshakes : Replaced(k, out, done)[j].there}) <= MaxFlows
    <3>1. ~initial[k].resolved /\ done \in FrontEntry
      BY <1>1, <1>6
    <3>2. Fits(k, out, done)
      BY <3>1, ReplacedFacts
    <3>3. QED
      BY <3>2 DEF Fits
  <2>3. Total(out) = Freed(out) + Size(fl) - Size(initial[k])
    BY <1>4
  <2>4. buffered' = Weight(initial') /\ buffered' \in 0 .. MaxBuffered
    <3> HIDE DEF Freed, Total
    <3>1. QED
      BY <1>6, <1>8, <1>m, <2>1, <2>2, <2>3
  <2>5. got'[k] = came[k] \o <<p>> /\ came'[k] = came[k] \o <<p>> /\ came[k] \o <<p>> \in Seq(1 .. Parts)
    <3>1. came[k] \o <<p>> \in Seq(1 .. Parts)
      BY <1>3
    <3>2. Released(fl, p) = came[k] \o <<p>>
      BY <1>5 DEF Released
    <3>3. got'[k] = <<>> \o (came[k] \o <<p>>) /\ came'[k] = came[k] \o <<p>>
      BY <2>1, <1>4, <1>9, <3>2
    <3>4. QED
      BY <3>1, <3>3
  <2>6. Booked(initial'[k], got'[k], came'[k])
    BY <2>1, <2>2, <2>5, <1>6 DEF Booked
  <2>7. ASSUME NEW j \in Handshakes, j # k PROVE Booked(initial'[j], got'[j], came'[j])
    <3>1. CASE j \in out
      BY <3>1, <2>1, <2>2, <1>e
    <3>2. CASE j \notin out
      BY <3>2, <2>1, <2>2, <2>7, <1>9
    <3>3. QED
      BY <3>1, <3>2
  <2>8. got' = [j \in Handshakes |-> got'[j]] /\ came' = [j \in Handshakes |-> came'[j]]
    BY <2>1
  <2> HIDE DEF Freed, Total, noted, cleared
  <2>9. QED
    BY <2>1, <2>2, <2>4, <2>6, <2>7, <2>8, BookedKeeps
<1>11. CASE B(out)
  <2>1. /\ initial' = Replaced(k, out, kept) /\ buffered' = Total(out) + 1 /\ ~OverBudget(Total(out) + 1)
        /\ got' = noted(got, <<>>, out) /\ came' = noted(came, <<p>>, out)
    BY <1>11 DEF B
  <2>2. /\ Replaced(k, out, kept) \in [Handshakes -> FrontEntry] /\ Replaced(k, out, kept)[k] = kept
        /\ \A j \in out : Replaced(k, out, kept)[j] = NoFlow
        /\ \A j \in Handshakes \ (out \cup {k}) : Replaced(k, out, kept)[j] = initial[j]
        /\ Freed(out) \in Nat /\ Freed(out) <= buffered /\ Size(initial[k]) \in Nat
        /\ Weight(Replaced(k, out, kept)) \in Nat /\ Size(initial[k]) <= Freed(out)
        /\ Weight(Replaced(k, out, kept)) = Freed(out) - Size(initial[k]) + Size(kept)
        /\ Cardinality({j \in Handshakes : Replaced(k, out, kept)[j].there}) <= MaxFlows
    <3>1. ~initial[k].resolved /\ kept \in FrontEntry
      BY <1>1, <1>7
    <3>2. Fits(k, out, kept)
      BY <3>1, ReplacedFacts
    <3>3. QED
      BY <3>2 DEF Fits
  <2>3. Total(out) = Freed(out) + Size(fl) - Size(initial[k])
    BY <1>4
  <2>4. buffered' = Weight(initial') /\ buffered' \in 0 .. MaxBuffered
    <3> HIDE DEF Freed, Total
    <3>1. buffered' = Weight(initial')
      BY <1>7, <1>8, <2>1, <2>2, <2>3
    <3>2. ~ (buffered' > MaxBuffered) /\ buffered' \in Nat
      BY <2>1, <2>2, <3>1 DEF OverBudget
    <3>3. QED
      BY <3>1, <3>2, <1>m
  <2>5. got'[k] = <<>> /\ came'[k] = Append(came[k], p) /\ came'[k] \in Seq(1 .. Parts)
    <3>1. came[k] \o <<p>> = Append(came[k], p) /\ Append(came[k], p) \in Seq(1 .. Parts)
      BY <1>3
    <3>2. got'[k] = <<>> \o <<>> /\ came'[k] = came[k] \o <<p>>
      BY <2>1, <1>4, <1>9
    <3>3. QED
      BY <3>1, <3>2
  <2>6. Booked(initial'[k], got'[k], came'[k])
    <3>1. <<>> \in Seq(1 .. Parts)
      OBVIOUS
    <3>2. QED
      BY <2>1, <2>2, <2>5, <1>7, <3>1 DEF Booked
  <2>7. ASSUME NEW j \in Handshakes, j # k PROVE Booked(initial'[j], got'[j], came'[j])
    <3>1. CASE j \in out
      BY <3>1, <2>1, <2>2, <1>e
    <3>2. CASE j \notin out
      BY <3>2, <2>1, <2>2, <2>7, <1>9
    <3>3. QED
      BY <3>1, <3>2
  <2>8. got' = [j \in Handshakes |-> got'[j]] /\ came' = [j \in Handshakes |-> came'[j]]
    BY <2>1
  <2> HIDE DEF Freed, Total, noted, cleared
  <2>9. QED
    BY <2>1, <2>2, <2>4, <2>6, <2>7, <2>8, BookedKeeps
<1>12. CASE C(out)
  <2>1. /\ initial' = ForgetFlows({k}, ForgetFlows(out, initial)) /\ buffered' = Total(out) - Size(fl)
        /\ got' = cleared(got, out) /\ came' = cleared(came, out)
    BY <1>12 DEF C
  <2>2. /\ Replaced(k, out, NoFlow) \in [Handshakes -> FrontEntry] /\ Replaced(k, out, NoFlow)[k] = NoFlow
        /\ \A j \in out : Replaced(k, out, NoFlow)[j] = NoFlow
        /\ \A j \in Handshakes \ (out \cup {k}) : Replaced(k, out, NoFlow)[j] = initial[j]
        /\ Freed(out) \in Nat /\ Freed(out) <= buffered /\ Size(initial[k]) \in Nat
        /\ Weight(Replaced(k, out, NoFlow)) \in Nat /\ Size(initial[k]) <= Freed(out)
        /\ Weight(Replaced(k, out, NoFlow)) = Freed(out) - Size(initial[k]) + Size(NoFlow)
        /\ Cardinality({j \in Handshakes : Replaced(k, out, NoFlow)[j].there}) <= MaxFlows
    <3>1. Fits(k, out, NoFlow)
      BY <1>1, <1>8, ReplacedFacts
    <3>2. QED
      BY <3>1 DEF Fits
  <2>i. initial' = Replaced(k, out, NoFlow)
    BY <2>1 DEF Replaced, ForgetFlows
  <2>3. Total(out) = Freed(out) + Size(fl) - Size(initial[k])
    BY <1>4
  <2>4. buffered' = Weight(initial') /\ buffered' \in 0 .. MaxBuffered
    <3> HIDE DEF Freed, Total
    <3>1. QED
      BY <1>8, <1>m, <2>1, <2>2, <2>3, <2>i
  <2>6. Booked(initial'[k], got'[k], came'[k])
    BY <2>1, <2>2, <2>i, <1>e
  <2>7. ASSUME NEW j \in Handshakes, j # k PROVE Booked(initial'[j], got'[j], came'[j])
    <3>1. CASE j \in out
      BY <3>1, <2>1, <2>2, <2>i, <1>e
    <3>2. CASE j \notin out
      BY <3>2, <2>1, <2>2, <2>i, <2>7, <1>9
    <3>3. QED
      BY <3>1, <3>2
  <2>8. got' = [j \in Handshakes |-> got'[j]] /\ came' = [j \in Handshakes |-> came'[j]]
    BY <2>1
  <2> HIDE DEF Freed, Total, noted, cleared
  <2>9. QED
    BY <2>1, <2>2, <2>i, <2>4, <2>6, <2>7, <2>8, BookedKeeps
<1>13. QED
  BY <1>2, <1>10, <1>11, <1>12
LEMMA FrontBegins ==
  ASSUME FrontInit
  PROVE  FrontIInv
<1> USE FrontBounds DEF FrontInit
<1>1. initial \in [Handshakes -> FrontEntry] /\ \A k \in Handshakes : Size(initial[k]) = 0 /\ ~initial[k].there /\ ~initial[k].resolved
  BY NoFlowIsEmpty DEF NoFlow
<1>2. FrontTypes
  <2>1. <<>> \in Seq(1 .. Parts)
    OBVIOUS
  <2>2. QED
    BY <1>1, <2>1 DEF FrontTypes
<1>3. AbsentIsEmpty /\ ResolvedHoldsNothing
  BY <1>1 DEF AbsentIsEmpty, ResolvedHoldsNothing
<1>4. Tabled = {}
  BY <1>1 DEF Tabled
<1>5. FewTabled /\ ServerGetsAllInOrder
  BY <1>4, FS_EmptySet DEF FewTabled, ServerGetsAllInOrder
<1>6. Weight(initial) = 0
  <2> DEFINE F == [k \in Handshakes |-> Size(initial[k])]
  <2>1. \A x \in Handshakes : F[x] = 0
    BY <1>1
  <2>2. Weight(initial) = SumFunctionOnSet(F, Handshakes)
    BY DEF Weight, SumFunction
  <2> HIDE DEF F
  <2>3. QED
    BY <2>1, <2>2, SumOfNothing
<1>7. QED
  BY <1>2, <1>3, <1>5, <1>6 DEF FrontIInv

LEMMA FrontStep ==
  ASSUME FrontIInv, [FrontNext]_frontVars
  PROVE  FrontIInv'
<1>t. /\ initial \in [Handshakes -> FrontEntry] /\ buffered \in 0 .. MaxBuffered
      /\ got \in [Handshakes -> Seq(1..Parts)] /\ came \in [Handshakes -> Seq(1..Parts)]
      /\ buffered = Weight(initial) /\ Cardinality({j \in Handshakes : initial[j].there}) <= MaxFlows
  BY DEF FrontIInv, FrontTypes, FewTabled, Tabled
<1>b. \A j \in Handshakes : Booked(initial[j], got[j], came[j])
  BY AllBooked
<1>1. ASSUME NEW k \in Handshakes, NEW p \in 1 .. Parts, RouteKnown(k, p)
      PROVE  FrontIInv'
  <2>1. /\ initial[k].there /\ initial[k].resolved /\ initial' = initial /\ buffered' = buffered
        /\ came' = [came EXCEPT ![k] = Append(@, p)] /\ got' = [got EXCEPT ![k] = Append(@, p)]
    BY <1>1 DEF RouteKnown
  <2>2. Booked(initial'[k], got'[k], came'[k])
    <3>1. Booked(initial[k], got[k], came[k])
      BY <1>b
    <3>2. got'[k] = Append(got[k], p) /\ came'[k] = Append(came[k], p) /\ got'[k] \in Seq(1..Parts) /\ came'[k] \in Seq(1..Parts)
      BY <1>t, <2>1
    <3>3. QED
      BY <2>1, <3>1, <3>2 DEF Booked
  <2>3. \A j \in Handshakes \ {k} : Booked(initial'[j], got'[j], came'[j])
    BY <1>t, <1>b, <2>1
  <2>4. got' = [j \in Handshakes |-> got'[j]] /\ came' = [j \in Handshakes |-> came'[j]]
    BY <1>t, <2>1
  <2>5. QED
    BY <1>t, <2>1, <2>2, <2>3, <2>4, BookedKeeps
<1>2. ASSUME NEW k \in Handshakes, SweepFront(k)
      PROVE  FrontIInv'
  <2>1. /\ initial' = ForgetFlows({k}, initial) /\ buffered' = buffered - Size(initial[k])
        /\ got' = [got EXCEPT ![k] = <<>>] /\ came' = [came EXCEPT ![k] = <<>>]
    BY <1>2 DEF SweepFront
  <2>2. initial' = [initial EXCEPT ![k] = NoFlow]
    BY <1>t, <2>1 DEF ForgetFlows
  <2>3. /\ Weight([initial EXCEPT ![k] = NoFlow]) \in Nat /\ Weight(initial) \in Nat
        /\ Weight([initial EXCEPT ![k] = NoFlow]) + Size(initial[k]) = Weight(initial) + Size(NoFlow)
        /\ Size(initial[k]) \in Nat
    BY <1>t, NoFlowIsEmpty, WeightPut
  <2>4. Weight(initial') = Weight([initial EXCEPT ![k] = NoFlow])
    BY <2>2, Zenon
  <2>5. buffered' = Weight(initial') /\ buffered' \in 0 .. MaxBuffered
    BY <1>t, <2>1, <2>3, <2>4, NoFlowIsEmpty, FrontBounds
  <2>6. initial' \in [Handshakes -> FrontEntry]
    BY <1>t, <2>2, NoFlowIsEmpty
  <2>7. Cardinality({j \in Handshakes : initial'[j].there}) <= MaxFlows
    <3> DEFINE N == {j \in Handshakes : initial'[j].there}
               O == {j \in Handshakes : initial[j].there}
    <3>1. N \in SUBSET O /\ O \subseteq Handshakes
      BY <1>t, <2>2 DEF NoFlow
    <3>2. IsFiniteSet(O) /\ Cardinality(O) \in Nat /\ Cardinality(O) <= MaxFlows
      BY <1>t, <3>1, TabledFinite
    <3> HIDE DEF N, O
    <3>3. Cardinality(N) <= Cardinality(O) /\ Cardinality(N) \in Nat
      BY <3>1, <3>2, FS_Subset, FS_CardinalityType
    <3>4. Cardinality(N) <= MaxFlows
      BY <3>2, <3>3, FrontBounds
    <3>5. QED
      BY <3>4 DEF N
  <2>8. Booked(initial'[k], got'[k], came'[k])
    <3>1. initial'[k] = NoFlow /\ got'[k] = <<>> /\ came'[k] = <<>>
      BY <1>t, <2>1, <2>2
    <3>2. QED
      BY <3>1 DEF Booked, NoFlow
  <2>9. \A j \in Handshakes \ {k} : Booked(initial'[j], got'[j], came'[j])
    BY <1>t, <1>b, <2>1, <2>2
  <2>10. got' = [j \in Handshakes |-> got'[j]] /\ came' = [j \in Handshakes |-> came'[j]]
    BY <1>t, <2>1
  <2>11. QED
    BY <2>5, <2>6, <2>7, <2>8, <2>9, <2>10, BookedKeeps
<1>3. CASE UNCHANGED frontVars
  BY <1>3 DEF frontVars, FrontIInv, FrontTypes, AbsentIsEmpty, ResolvedHoldsNothing, FewTabled, ServerGetsAllInOrder, Tabled, Weight
<1>4. QED
  BY <1>1, <1>2, <1>3, RouteInitialKeeps DEF FrontNext

LEMMA FrontImplies ==
  FrontIInv => FrontInv
  BY DEF FrontIInv, FrontInv, FrontTypes, FrontEntry, FewTabled, FrontTypeOK, BudgetIsExact, Weight

\* The front multiplexer, for any number of handshakes and any limits: the
\* budget of held bytes is exactly what the entries hold, so that no client is
\* refused for what was forgotten, the table keeps its limit, and a server
\* gets every datagram of its client, in order and once (routeUDP, Run).
THEOREM FrontSound == FrontSpec => []FrontInv
<1>1. FrontInit => FrontIInv
  BY FrontBegins
<1>2. FrontIInv /\ [FrontNext]_frontVars => FrontIInv'
  BY FrontStep
<1>3. QED
  BY <1>1, <1>2, FrontImplies, PTL DEF FrontSpec
-----------------------------------------------------------------------------
(***************************************************************************)
(* FlowTable.  Every entry is one a packet can leave: a flow that waits    *)
(* for its name is not allowed, and a question waits only on a flow that   *)
(* is.  The rules in force are those of the engine; it lags behind the     *)
(* snapshot only in "stored", and the flows lag behind it only while a     *)
(* reevaluation is due.                                                    *)
(***************************************************************************)
Coherent(f, e) ==
    /\ e \in EntryType
    /\ e.decided <=> PrincipalOf[f] # Local
    /\ e.probing => f \in TcpFlows /\ ~e.allowed
    /\ e.queries # {} => e.allowed
    /\ f \in TcpFlows => e.queries = {}

Permits(s, f, n) == EvaluateFlow(s, f, n, s.session[PrincipalOf[f]] # NoSession)

EntryOk(s, f, e) ==
    e.decided => /\ (f \in TcpFlows /\ e.allowed) => Permits(s, f, e.name)
                 /\ \A q \in e.queries : Permits(s, f, q)

\* What one packet may do to the entry e of flow f.
AnswerOk(f, e, pk, a) ==
    /\ Coherent(f, a.e)
    /\ a.free \in Nat /\ a.free + a.e.buf = sniFree + e.buf
    /\ (e.decided /\ a.e.allowed) => e.allowed \/ ~stale
    /\ (f \in TcpFlows /\ e.decided /\ a.e.allowed) =>
          Decide(f, a.e.name) \/ (e.allowed /\ a.e.name = e.name)
    /\ \A q \in a.e.queries : q \in e.queries \/ Decide(f, q)
    /\ (f \in TcpFlows /\ a.out = "pass" /\ e.decided /\ pk.payload # "none") => a.e.allowed

LEMMA FlowFacts ==
  /\ \A f \in Flows : PrincipalOf[f] \in Principals
  /\ \A f \in DnsFlows : f \in Flows /\ f \notin TcpFlows /\ PrincipalOf[f] # Local
  /\ \A f \in TcpFlows : f \in Flows /\ f \notin DnsFlows
  /\ MaxPerPeer \in Nat /\ MaxEntries \in Nat /\ MaxHello \in Nat /\ MaxSNI \in Nat /\ MaxQueries \in Nat
  /\ IsFiniteSet(Flows) /\ IsFiniteSet(Names) /\ NoName \notin Names /\ None \notin EntryType
  BY FlowAssumption DEF Flows

LEMMA DecidedIsPermitted ==
  ASSUME NEW f, NEW n, Decide(f, n)
  PROVE  ~stale /\ Permits(engine, f, n)
  BY DEF Decide, Permits, EvaluateFlow, SignedIn

LEMMA FreshIsCoherent ==
  ASSUME NEW f \in Flows
  PROVE  /\ Coherent(f, Fresh(f)) /\ Fresh(f).buf = 0 /\ ~Fresh(f).allowed /\ Fresh(f).queries = {}
         /\ Fresh(f).decided <=> PrincipalOf[f] # Local
<1>1. Cardinality({}) = 0 /\ {} \in SUBSET Names
  BY FS_EmptySet
<1>2. {} \in {q \in SUBSET Names : Cardinality(q) <= MaxQueries}
  BY <1>1, FlowFacts
<1>3. 0 \in 0 .. MaxHello
  BY FlowFacts
<1>4. Fresh(f) \in EntryType
  BY <1>2, <1>3 DEF Fresh, EntryType
<1>5. QED
  BY <1>4 DEF Fresh, Coherent

\* What inspectTCP gives back.
Looked(e, pk, free, r) ==
    /\ r.e \in EntryType /\ r.free \in Nat /\ r.free + r.e.buf = free + e.buf
    /\ r.e.allowed = e.allowed /\ r.e.decided = e.decided /\ r.e.probing = e.probing /\ r.e.queries = e.queries
    /\ r.hold \in BOOLEAN /\ r.changed \in BOOLEAN
    /\ ~r.changed => r.e.name = e.name
    /\ r.hold => r.e = e

LEMMA LookFacts ==
  ASSUME NEW e \in EntryType, NEW pk, NEW free \in Nat, pk.name \in Names \cup {NoName}
  PROVE  Looked(e, pk, free, Look(e, pk, free))
<1>b. e.buf \in Nat /\ e.buf \in 0 .. MaxHello
  BY FlowFacts DEF EntryType
<1>s. Looked(e, pk, free, Result(e, free, FALSE, FALSE)) /\ Looked(e, pk, free, Result(e, free, FALSE, TRUE))
  BY <1>b DEF Looked, Result
<1>r. LET x == ReleaseSNI(e, free) IN Looked(e, pk, free, Result(x.e, x.free, FALSE, FALSE))
  <2> DEFINE y == [e EXCEPT !.buf = 0, !.done = TRUE]
  <2>1. 0 \in 0 .. MaxHello
    BY FlowFacts
  <2>2. /\ y \in EntryType /\ y.buf = 0 /\ y.allowed = e.allowed /\ y.decided = e.decided
        /\ y.probing = e.probing /\ y.queries = e.queries /\ y.name = e.name
    BY <2>1 DEF EntryType
  <2>3. ReleaseSNI(e, free) = [e |-> y, free |-> free + e.buf]
    BY DEF ReleaseSNI
  <2> HIDE DEF y
  <2>4. QED
    BY <1>b, <2>2, <2>3 DEF Looked, Result
<1>1. CASE pk.back
  <2>1. Look(e, pk, free) = IF e.done THEN LET x == ReleaseSNI(e, free) IN Result(x.e, x.free, FALSE, FALSE)
                            ELSE Result(e, free, FALSE, FALSE)
    BY <1>1 DEF Look, Acknowledged
  <2>2. QED
    BY <1>s, <1>r, <2>1
<1>2. CASE ~pk.back
  <2>0. Look(e, pk, free) = Inspect(e, pk, free)
    BY <1>2 DEF Look
  <2>1. CASE pk.payload = "none" \/ (e.done /\ e.buf = 0)
    BY <2>0, <2>1, <1>s DEF Inspect
  <2>2. CASE ~(pk.payload = "none" \/ (e.done /\ e.buf = 0)) /\ pk.payload = "odd"
    BY <2>0, <2>2, <1>s DEF Inspect
  <2>3. CASE ~(pk.payload = "none" \/ (e.done /\ e.buf = 0)) /\ pk.payload # "odd" /\ e.done
    BY <2>0, <2>3, <1>s DEF Inspect
  <2>4. CASE /\ ~(pk.payload = "none" \/ (e.done /\ e.buf = 0)) /\ pk.payload # "odd" /\ ~e.done
             /\ e.buf + 1 > MaxHello \/ free = 0
    BY <2>0, <2>4, <1>r DEF Inspect
  <2>5. CASE /\ ~(pk.payload = "none" \/ (e.done /\ e.buf = 0)) /\ pk.payload # "odd" /\ ~e.done
             /\ ~(e.buf + 1 > MaxHello \/ free = 0)
    <3> DEFINE n == IF pk.payload = "hello" THEN pk.name ELSE e.name
               d == pk.payload # "part"
               y == [e EXCEPT !.buf = @ + 1, !.done = d, !.name = n]
    <3>1. Inspect(e, pk, free) = Result(y, free - 1, pk.payload = "hello", FALSE)
      BY <2>5 DEF Inspect
    <3>2. n \in Names \cup {NoName} /\ d \in BOOLEAN /\ e.buf + 1 \in 0 .. MaxHello
      BY <2>5, <1>b, FlowFacts DEF EntryType
    <3>3. pk.payload # "hello" => n = e.name
      OBVIOUS
    <3> HIDE DEF n, d
    <3>4. /\ y \in EntryType /\ y.buf = e.buf + 1 /\ y.allowed = e.allowed /\ y.decided = e.decided
          /\ y.probing = e.probing /\ y.queries = e.queries /\ y.name = n
      BY <3>2 DEF EntryType
    <3>5. free - 1 \in Nat /\ (free - 1) + (e.buf + 1) = free + e.buf
      BY <2>5, <1>b
    <3> DEFINE c == pk.payload = "hello"
               r == Result(y, free - 1, c, FALSE)
    <3>6. r.e = y /\ r.free = free - 1 /\ r.changed = c /\ r.hold = FALSE /\ c \in BOOLEAN /\ (~c => n = e.name)
      BY <3>3 DEF Result
    <3>7. Look(e, pk, free) = r
      BY <2>0, <3>1
    <3> HIDE DEF y, c, r
    <3>8. Looked(e, pk, free, r)
      BY <3>4, <3>5, <3>6 DEF Looked
    <3>9. QED
      BY <3>7, <3>8
  <2>6. QED
    BY <2>1, <2>2, <2>3, <2>4, <2>5
<1>3. QED
  BY <1>1, <1>2
LEMMA PacketShape ==
  ASSUME NEW pk \in TcpPackets
  PROVE  /\ pk.name \in Names \cup {NoName} /\ pk.back \in BOOLEAN
         /\ pk.syn => pk.payload = "none"
  BY DEF TcpPackets

\* A packet of a TLS flow that waits for its name.
LEMMA ProbeOk ==
  ASSUME NEW f \in TcpFlows, NEW e, Coherent(f, e), e.probing, NEW pk \in TcpPackets, sniFree \in Nat
  PROVE  AnswerOk(f, e, pk, Probe(f, e, pk))
<1> DEFINE r == Look(e, pk, sniFree)
           named == ~pk.back /\ r.e.name # NoName /\ Decide(f, r.e.name)
           x == IF pk.back THEN e ELSE r.e
           free == IF pk.back THEN sniFree ELSE r.free
           y == [x EXCEPT !.probing = FALSE, !.allowed = named]
<1>1. e \in EntryType /\ e.buf \in Nat /\ ~e.allowed /\ e.queries = {} /\ (e.decided <=> PrincipalOf[f] # Local)
  BY FlowFacts DEF Coherent, EntryType
<1>2. Looked(e, pk, sniFree, r)
  BY <1>1, LookFacts, PacketShape
<1> HIDE DEF r
<1>3. CASE pk.payload = "none"
  <2>1. Probe(f, e, pk) = Answer(e, "pass", sniFree)
    BY <1>3 DEF Probe
  <2>2. QED
    BY <1>1, <1>3, <2>1 DEF AnswerOk, Answer
<1>4. CASE pk.payload # "none" /\ ~pk.back /\ (r.hold \/ ~r.e.done)
  <2>1. Probe(f, e, pk) = Answer(r.e, "drop", r.free)
    BY <1>4 DEF Probe, r
  <2>2. Coherent(f, r.e)
    BY <1>1, <1>2 DEF Coherent, Looked
  <2>3. QED
    BY <1>1, <1>2, <2>1, <2>2 DEF AnswerOk, Answer, Looked
<1>5. CASE pk.payload # "none" /\ ~(~pk.back /\ (r.hold \/ ~r.e.done))
  <2>1. Probe(f, e, pk) = Answer(y, IF named THEN "pass" ELSE "reset", free)
    BY <1>5 DEF Probe, r
  <2>2. /\ x \in EntryType /\ free \in Nat /\ free + x.buf = sniFree + e.buf
        /\ x.decided = e.decided /\ x.queries = {} /\ (~pk.back => x.name = r.e.name)
    BY <1>1, <1>2 DEF Looked
  <2>3. named \in BOOLEAN /\ (named => x.name = r.e.name /\ Decide(f, r.e.name))
    BY <2>2 DEF Decide
  <2> HIDE DEF x, named, free
  <2>4. /\ y \in EntryType /\ y.buf = x.buf /\ y.allowed = named /\ y.probing = FALSE /\ y.name = x.name
        /\ y.decided = x.decided /\ y.queries = x.queries
    BY <2>2, <2>3 DEF EntryType
  <2> HIDE DEF y
  <2>5. Coherent(f, y)
    BY <1>1, <2>2, <2>4 DEF Coherent
  <2>6. y.allowed => Decide(f, y.name) /\ ~stale
    BY <2>3, <2>4, DecidedIsPermitted
  <2> DEFINE o == IF named THEN "pass" ELSE "reset"
             a == Answer(y, o, free)
  <2>7. a.e = y /\ a.free = free /\ a.out = o /\ (o = "pass" => named)
    BY DEF Answer
  <2>8. Probe(f, e, pk) = a
    BY <2>1
  <2> HIDE DEF o, a
  <2>9. AnswerOk(f, e, pk, a)
    BY <2>2, <2>4, <2>5, <2>6, <2>7 DEF AnswerOk
  <2>10. QED
    BY <2>8, <2>9
<1>6. QED
  BY <1>3, <1>4, <1>5

\* The first packet of a TLS flow.
LEMMA OpenOk ==
  ASSUME NEW f \in TcpFlows, NEW pk \in TcpPackets, sniFree \in Nat
  PROVE  AnswerOk(f, Fresh(f), pk, OpenTcp(f, pk))
<1> DEFINE e == Fresh(f)
           r == Look(e, pk, sniFree)
           ok == Decide(f, r.e.name)
<1>1. /\ e \in EntryType /\ e.buf = 0 /\ ~e.allowed /\ e.queries = {} /\ ~e.probing
      /\ (e.decided <=> PrincipalOf[f] # Local) /\ e.decided \in BOOLEAN
  BY FreshIsCoherent, FlowFacts DEF Coherent, Fresh
<1> HIDE DEF e
<1>2. Looked(e, pk, sniFree, r)
  BY <1>1, LookFacts, PacketShape
<1> HIDE DEF r
<1>3. CASE PrincipalOf[f] = Local \/ ok
  <2> DEFINE y == [r.e EXCEPT !.allowed = TRUE]
  <2>1. OpenTcp(f, pk) = Answer(y, "pass", r.free)
    BY <1>3 DEF OpenTcp, r, e
  <2>2. /\ y \in EntryType /\ y.buf = r.e.buf /\ y.allowed = TRUE /\ y.probing = e.probing /\ y.name = r.e.name
        /\ y.decided = e.decided /\ y.queries = e.queries
    BY <1>2 DEF EntryType, Looked
  <2> HIDE DEF y
  <2>3. Coherent(f, y)
    BY <1>1, <2>2 DEF Coherent
  <2>4. e.decided => Decide(f, y.name) /\ ~stale
    BY <1>1, <1>3, <2>2, DecidedIsPermitted
  <2> DEFINE a == Answer(y, "pass", r.free)
  <2>5. a.e = y /\ a.free = r.free
    BY DEF Answer
  <2> HIDE DEF a
  <2>6. a.free \in Nat /\ a.free + a.e.buf = sniFree + e.buf
    BY <1>2, <2>2, <2>5 DEF Looked
  <2>7. AnswerOk(f, e, pk, a)
    BY <1>1, <2>2, <2>3, <2>4, <2>5, <2>6 DEF AnswerOk
  <2>8. QED
    BY <2>1, <2>7 DEF a, e
<1>4. CASE ~(PrincipalOf[f] = Local \/ ok) /\ pk.syn /\ r.e.name = NoName /\ PermitBySNI(f)
  <2> DEFINE y == [r.e EXCEPT !.probing = TRUE]
  <2>1. OpenTcp(f, pk) = Answer(y, "pass", r.free)
    BY <1>4 DEF OpenTcp, r, e
  <2>2. /\ y \in EntryType /\ y.buf = r.e.buf /\ y.allowed = e.allowed /\ y.probing = TRUE /\ y.name = r.e.name
        /\ y.decided = e.decided /\ y.queries = e.queries
    BY <1>2 DEF EntryType, Looked
  <2> HIDE DEF y
  <2>3. Coherent(f, y)
    BY <1>1, <2>2 DEF Coherent
  <2> DEFINE a == Answer(y, "pass", r.free)
  <2>5. a.e = y /\ a.free = r.free
    BY DEF Answer
  <2> HIDE DEF a
  <2>6. a.free \in Nat /\ a.free + a.e.buf = sniFree + e.buf
    BY <1>2, <2>2, <2>5 DEF Looked
  <2>7. AnswerOk(f, e, pk, a)
    BY <1>1, <1>4, <2>2, <2>3, <2>5, <2>6, PacketShape DEF AnswerOk
  <2>8. QED
    BY <2>1, <2>7 DEF a, e
<1>5. CASE ~(PrincipalOf[f] = Local \/ ok) /\ ~(pk.syn /\ r.e.name = NoName /\ PermitBySNI(f))
  <2>1. OpenTcp(f, pk) = Answer(r.e, "drop", r.free)
    BY <1>5 DEF OpenTcp, r, e
  <2>2. Coherent(f, r.e)
    BY <1>1, <1>2 DEF Coherent, Looked
  <2> DEFINE a == Answer(r.e, "drop", r.free)
  <2>3. a.e = r.e /\ a.free = r.free /\ a.out = "drop"
    BY DEF Answer
  <2> HIDE DEF a
  <2>4. AnswerOk(f, e, pk, a)
    BY <1>1, <1>2, <2>2, <2>3 DEF AnswerOk, Looked
  <2>5. QED
    BY <2>1, <2>4 DEF a, e
<1>6. QED
  BY <1>3, <1>4, <1>5
\* A later packet of a TLS flow.
LEMMA KnownOk ==
  ASSUME NEW f \in TcpFlows, NEW e, Coherent(f, e), NEW pk \in TcpPackets, sniFree \in Nat
  PROVE  AnswerOk(f, e, pk, KnownTcp(f, e, pk))
<1> DEFINE r == Look(e, pk, sniFree)
<1>1. e \in EntryType /\ e.buf \in Nat /\ e.queries = {} /\ (e.decided <=> PrincipalOf[f] # Local)
  BY FlowFacts DEF Coherent, EntryType
<1>2. Looked(e, pk, sniFree, r)
  BY <1>1, LookFacts, PacketShape
<1> HIDE DEF r
<1>3. Coherent(f, r.e) /\ r.free \in Nat /\ r.free + r.e.buf = sniFree + e.buf
  BY <1>1, <1>2 DEF Coherent, Looked
<1>4. CASE e.probing
  <2>1. KnownTcp(f, e, pk) = Probe(f, e, pk)
    BY <1>4 DEF KnownTcp
  <2>2. QED
    BY <1>4, <2>1, ProbeOk
<1>5. CASE ~e.probing /\ ~e.allowed
  <2>1. KnownTcp(f, e, pk) = Answer(e, "drop", sniFree)
    BY <1>5 DEF KnownTcp
  <2>2. QED
    BY <1>1, <1>5, <2>1 DEF AnswerOk, Answer
<1>6. CASE ~e.probing /\ e.allowed /\ r.hold /\ e.decided
  <2>1. KnownTcp(f, e, pk) = Answer(r.e, "drop", r.free)
    BY <1>6 DEF KnownTcp, r
  <2> DEFINE a == Answer(r.e, "drop", r.free)
  <2>2. a.e = r.e /\ a.free = r.free /\ a.out = "drop"
    BY DEF Answer
  <2> HIDE DEF a
  <2>3. r.e = e
    BY <1>2, <1>6 DEF Looked
  <2>4. AnswerOk(f, e, pk, a)
    BY <1>1, <1>3, <1>6, <2>2, <2>3 DEF AnswerOk
  <2>5. QED
    BY <2>1, <2>4 DEF a
<1>7. CASE ~e.probing /\ e.allowed /\ ~(r.hold /\ e.decided) /\ (r.changed /\ e.decided /\ ~Decide(f, r.e.name))
  <2> DEFINE y == [r.e EXCEPT !.allowed = FALSE]
             a == Answer(y, "reset", r.free)
  <2>1. KnownTcp(f, e, pk) = a
    BY <1>7 DEF KnownTcp, r
  <2>2. /\ y \in EntryType /\ y.buf = r.e.buf /\ y.allowed = FALSE /\ y.probing = e.probing
        /\ y.decided = e.decided /\ y.queries = e.queries
    BY <1>2 DEF EntryType, Looked
  <2> HIDE DEF y
  <2>3. Coherent(f, y)
    BY <1>1, <2>2 DEF Coherent
  <2>4. a.e = y /\ a.free = r.free /\ a.out = "reset"
    BY DEF Answer
  <2> HIDE DEF a
  <2>5. AnswerOk(f, e, pk, a)
    BY <1>1, <1>3, <2>2, <2>3, <2>4 DEF AnswerOk
  <2>6. QED
    BY <2>1, <2>5
<1>8. CASE ~e.probing /\ e.allowed /\ ~(r.hold /\ e.decided) /\ ~(r.changed /\ e.decided /\ ~Decide(f, r.e.name))
  <2> DEFINE a == Answer(r.e, "pass", r.free)
  <2>1. KnownTcp(f, e, pk) = a
    BY <1>8 DEF KnownTcp, r
  <2>2. a.e = r.e /\ a.free = r.free
    BY DEF Answer
  <2> HIDE DEF a
  <2>3. r.e.allowed = e.allowed /\ r.e.queries = {} /\ (e.decided => Decide(f, r.e.name) \/ r.e.name = e.name)
    BY <1>1, <1>2, <1>8 DEF Looked
  <2>4. AnswerOk(f, e, pk, a)
    BY <1>3, <1>8, <2>2, <2>3 DEF AnswerOk
  <2>5. QED
    BY <2>1, <2>4
<1>9. QED
  BY <1>4, <1>5, <1>6, <1>7, <1>8

\* The questions that may wait.
LEMMA QueriesFit ==
  ASSUME NEW q \in {s \in SUBSET Names : Cardinality(s) <= MaxQueries}, NEW n
  PROVE  /\ q \ {n} \in {s \in SUBSET Names : Cardinality(s) <= MaxQueries}
         /\ n \in Names /\ Cardinality(q) # MaxQueries => q \cup {n} \in {s \in SUBSET Names : Cardinality(s) <= MaxQueries}
         /\ n \in Names /\ Cardinality(q) = MaxQueries =>
              \A o \in q : (q \ {o}) \cup {n} \in {s \in SUBSET Names : Cardinality(s) <= MaxQueries}
<1>1. IsFiniteSet(q) /\ Cardinality(q) \in Nat /\ MaxQueries \in Nat
  BY FlowFacts, FS_Subset, FS_CardinalityType
<1>2. Cardinality(q \ {n}) <= MaxQueries
  <2>1. Cardinality(q \ {n}) = IF n \in q THEN Cardinality(q) - 1 ELSE Cardinality(q)
    BY <1>1, FS_RemoveElement
  <2>2. QED
    BY <1>1, <2>1
<1>3. Cardinality(q) # MaxQueries => Cardinality(q \cup {n}) <= MaxQueries
  <2>1. Cardinality(q \cup {n}) = IF n \in q THEN Cardinality(q) ELSE Cardinality(q) + 1
    BY <1>1, FS_AddElement
  <2>2. QED
    BY <1>1, <2>1
<1>4. ASSUME NEW o \in q, Cardinality(q) = MaxQueries PROVE Cardinality((q \ {o}) \cup {n}) <= MaxQueries
  <2>1. IsFiniteSet(q \ {o}) /\ Cardinality(q \ {o}) = Cardinality(q) - 1
    BY <1>1, FS_RemoveElement
  <2>2. Cardinality((q \ {o}) \cup {n}) = IF n \in q \ {o} THEN Cardinality(q \ {o}) ELSE Cardinality(q \ {o}) + 1
    BY <2>1, FS_AddElement
  <2>3. QED
    BY <1>1, <1>4, <2>1, <2>2
<1>5. QED
  BY <1>2, <1>3, <1>4

\* A packet of a flow of DNS questions.
LEMMA DnsOk ==
  ASSUME NEW f \in DnsFlows, NEW e, Coherent(f, e), NEW pk \in DnsPackets, sniFree \in Nat, NEW a,
         a \in IF pk.back THEN {DnsBack(e, pk)} ELSE DnsQuery(f, e, pk)
  PROVE  AnswerOk(f, e, pk, a)
<1> DEFINE Q == {s \in SUBSET Names : Cardinality(s) <= MaxQueries}
<1>0. f \notin TcpFlows /\ PrincipalOf[f] # Local
  BY FlowFacts
<1>1. /\ e \in EntryType /\ e.buf \in Nat /\ e.decided /\ ~e.probing /\ (e.queries # {} => e.allowed)
      /\ e.queries \in Q
  BY <1>0, FlowFacts DEF Coherent, EntryType
<1>2. pk.name \in Names \cup {NoName}
  BY DEF DnsPackets
<1>3. CASE pk.back
  <2>1. a = DnsBack(e, pk)
    BY <1>3
  <2>2. CASE pk.name \in e.queries
    <3> DEFINE q == e.queries \ {pk.name}
               y == [e EXCEPT !.queries = q]
    <3>1. a = Answer(y, "pass", sniFree)
      BY <2>1, <2>2 DEF DnsBack
    <3>2. q \in Q /\ q \subseteq e.queries
      BY <1>1, QueriesFit
    <3> HIDE DEF q
    <3>3. /\ y \in EntryType /\ y.buf = e.buf /\ y.allowed = e.allowed /\ y.probing = e.probing
          /\ y.decided = e.decided /\ y.queries = q
      BY <1>1, <3>2 DEF EntryType
    <3> HIDE DEF y
    <3>4. Coherent(f, y)
      BY <1>0, <1>1, <3>2, <3>3 DEF Coherent
    <3>5. a.e = y /\ a.free = sniFree
      BY <3>1 DEF Answer
    <3>6. QED
      BY <1>0, <1>1, <3>2, <3>3, <3>4, <3>5 DEF AnswerOk
  <2>3. CASE pk.name \notin e.queries
    <3>1. a.e = e /\ a.free = sniFree
      BY <2>1, <2>3 DEF DnsBack, Answer
    <3>2. QED
      BY <1>0, <1>1, <3>1 DEF AnswerOk
  <2>4. QED
    BY <2>2, <2>3
<1>4. CASE ~pk.back
  <2> DEFINE n == Decide(f, NoName)
             s == IF e.started THEN e ELSE [e EXCEPT !.started = TRUE, !.nameless = n]
             kept == IF Cardinality(e.queries) = MaxQueries
                     THEN {{q \in e.queries : q # o} : o \in e.queries} ELSE {e.queries}
  <2>1. a \in DnsQuery(f, e, pk)
    BY <1>4
  <2>n. n \in BOOLEAN
    BY DEF Decide
  <2> HIDE DEF n
  <2>2. /\ s \in EntryType /\ s.buf = e.buf /\ s.allowed = e.allowed /\ s.probing = e.probing
        /\ s.decided = e.decided /\ s.queries = e.queries
    BY <1>1, <2>n DEF EntryType
  <2>3. CASE ~Decide(f, pk.name)
    <3> DEFINE y == [s EXCEPT !.name = pk.name]
    <3>1. a = Answer(y, "drop", sniFree)
      BY <2>1, <2>3 DEF DnsQuery, n
    <3> HIDE DEF s
    <3>2. /\ y \in EntryType /\ y.buf = e.buf /\ y.allowed = e.allowed /\ y.probing = e.probing
          /\ y.decided = e.decided /\ y.queries = e.queries
      BY <1>2, <2>2 DEF EntryType
    <3> HIDE DEF y
    <3>3. Coherent(f, y)
      BY <1>0, <1>1, <3>2 DEF Coherent
    <3>4. a.e = y /\ a.free = sniFree
      BY <3>1 DEF Answer
    <3>5. QED
      BY <1>0, <1>1, <3>2, <3>3, <3>4 DEF AnswerOk
  <2>4. CASE Decide(f, pk.name)
    <3>1. PICK k \in kept : a = Answer([s EXCEPT !.name = pk.name, !.allowed = TRUE,
                                                 !.queries = IF pk.name = NoName THEN e.queries ELSE k \cup {pk.name}],
                                       "pass", sniFree)
      BY <2>1, <2>4 DEF DnsQuery, n
    <3> DEFINE q == IF pk.name = NoName THEN e.queries ELSE k \cup {pk.name}
               y == [s EXCEPT !.name = pk.name, !.allowed = TRUE, !.queries = q]
    <3>2. q \in Q /\ q \subseteq e.queries \cup {pk.name}
      <4>1. CASE pk.name = NoName
        BY <1>1, <4>1
      <4>2. CASE pk.name # NoName /\ Cardinality(e.queries) = MaxQueries
        <5>1. PICK o \in e.queries : k = {x \in e.queries : x # o}
          BY <4>2
        <5>2. k = e.queries \ {o} /\ pk.name \in Names
          BY <5>1, <4>2, <1>2
        <5>3. (e.queries \ {o}) \cup {pk.name} \in Q
          BY <1>1, <4>2, <5>2, QueriesFit
        <5>4. QED
          BY <4>2, <5>2, <5>3
      <4>3. CASE pk.name # NoName /\ Cardinality(e.queries) # MaxQueries
        <5>1. k = e.queries /\ pk.name \in Names
          BY <4>3, <1>2
        <5>2. e.queries \cup {pk.name} \in Q
          BY <1>1, <4>3, <5>1, QueriesFit
        <5>3. QED
          BY <4>3, <5>1, <5>2
      <4>4. QED
        BY <4>1, <4>2, <4>3
    <3> HIDE DEF q, s
    <3>3. /\ y \in EntryType /\ y.buf = e.buf /\ y.allowed = TRUE /\ y.probing = e.probing
          /\ y.decided = e.decided /\ y.queries = q
      BY <1>2, <2>2, <3>2 DEF EntryType
    <3>4. a = Answer(y, "pass", sniFree)
      BY <3>1 DEF q
    <3> HIDE DEF y
    <3>5. a.e = y /\ a.free = sniFree
      BY <3>4 DEF Answer
    <3>6. Coherent(f, y)
      BY <1>0, <1>1, <3>3 DEF Coherent
    <3>7. ~stale /\ \A x \in q : x \in e.queries \/ Decide(f, x)
      BY <2>4, <3>2, DecidedIsPermitted
    <3>8. QED
      BY <1>0, <1>1, <3>3, <3>5, <3>6, <3>7 DEF AnswerOk
  <2>5. QED
    BY <2>3, <2>4
<1>5. QED
  BY <1>3, <1>4
\* What the open flows hold of the budget, as a sum over all flows.
Buf(fl) == [f \in Flows |-> IF fl[f] = None THEN 0 ELSE fl[f].buf]
HeldBy(fl) == SumFunctionOnSet(Buf(fl), Flows)
OfPeer(fl, p) == {f \in Flows : fl[f] # None /\ PrincipalOf[f] = p}

FlowTypes ==
    /\ flow \in [Flows -> EntryType \cup {None}]
    /\ perPeer \in [Principals -> Nat] /\ sniFree \in Nat
    /\ snap \in Snapshots /\ engine \in Snapshots
    /\ stale \in BOOLEAN /\ swept \in BOOLEAN
    /\ over \subseteq Sessions /\ active \subseteq Peers /\ signedIn \subseteq Peers
    /\ ctl \in [at : {"idle", "stored", "closing", "sessions"}, removed : SUBSET Peers,
                reevaluate : BOOLEAN, sessions : BOOLEAN]

EntriesCohere == \A f \in Flows : flow[f] # None => Coherent(f, flow[f])

Accounts ==
    /\ \A p \in Principals : perPeer[p] = Cardinality(OfPeer(flow, p)) /\ perPeer[p] <= MaxPerPeer
    /\ sniFree + HeldBy(flow) = MaxSNI

\* The flows go by the engine's rules unless they are about to be decided again.
ByEngine ==
    ~(ctl.at = "closing" /\ ctl.reevaluate) => \A f \in Flows : flow[f] # None => EntryOk(engine, f, flow[f])

EngineFollows ==
    /\ ctl.at # "stored" => engine = snap
    /\ ctl.at = "stored" /\ ~ctl.reevaluate =>
         engine.policy = snap.policy /\ engine.session = snap.session /\ engine.peers \subseteq snap.peers

FlowIInv == FlowTypes /\ EntriesCohere /\ Accounts /\ ByEngine /\ EngineFollows /\ StaleClosesAll

LEMMA PartsOfFlows ==
  ASSUME NEW S, S \subseteq Flows
  PROVE  IsFiniteSet(S) /\ Cardinality(S) \in Nat
  BY FlowFacts, FS_Subset, FS_CardinalityType

LEMMA BufIsNat ==
  ASSUME NEW fl \in [Flows -> EntryType \cup {None}]
  PROVE  /\ \A f \in Flows : Buf(fl)[f] \in Nat /\ Buf(fl)[f] = (IF fl[f] = None THEN 0 ELSE fl[f].buf)
         /\ HeldBy(fl) \in Nat
<1>1. \A f \in Flows : Buf(fl)[f] \in Nat /\ Buf(fl)[f] = (IF fl[f] = None THEN 0 ELSE fl[f].buf)
  BY FlowFacts DEF Buf, EntryType
<1>2. HeldBy(fl) \in Nat
  BY <1>1, FlowFacts, SumLaws DEF HeldBy
<1>3. QED
  BY <1>1, <1>2

\* The sum over the flows of the table is that over all flows.
LEMMA HeldByTracked ==
  ASSUME NEW fl \in [Flows -> EntryType \cup {None}]
  PROVE  SumFunction([f \in {g \in Flows : fl[g] # None} |-> fl[f].buf]) = HeldBy(fl)
<1> DEFINE A == {g \in Flows : fl[g] # None}
           H == [f \in A |-> fl[f].buf]
           F == Buf(fl)
<1>1. SumFunction(H) = SumFunctionOnSet(H, A)
  BY DEF SumFunction
<1>2. IsFiniteSet(A) /\ IsFiniteSet(Flows \ A) /\ IsFiniteSet(Flows) /\ A \in SUBSET Flows
  BY PartsOfFlows, FlowFacts
<1>3. \A f \in Flows : F[f] \in Nat
  BY BufIsNat
<1>4. (\A f \in A : H[f] = F[f]) /\ (\A f \in Flows \ A : F[f] = 0)
  BY BufIsNat
<1> HIDE DEF A, H, F
<1>5. /\ SumFunctionOnSet(F, A) \in Nat
      /\ SumFunctionOnSet(F, Flows) = SumFunctionOnSet(F, A) + SumFunctionOnSet(F, Flows \ A)
  BY <1>2, <1>3, SumParts
<1>6. SumFunctionOnSet(F, Flows \ A) = 0
  BY <1>2, <1>4, SumOfNothing
<1>7. SumFunctionOnSet(H, A) = SumFunctionOnSet(F, A)
  <2>1. \A f \in A : F[f] \in Nat
    BY <1>2, <1>3
  <2>2. QED
    BY <1>2, <1>4, <2>1, SumLaws
<1>8. SumFunction(H) = SumFunctionOnSet(F, Flows)
  BY <1>1, <1>5, <1>6, <1>7
<1>9. QED
  BY <1>8 DEF HeldBy, F, H, A

\* One entry is put in place.
LEMMA HeldByPut ==
  ASSUME NEW fl \in [Flows -> EntryType \cup {None}], NEW f \in Flows, NEW e \in EntryType
  PROVE  /\ HeldBy([fl EXCEPT ![f] = e]) \in Nat /\ HeldBy(fl) \in Nat
         /\ HeldBy([fl EXCEPT ![f] = e]) + Buf(fl)[f] = HeldBy(fl) + e.buf
<1> DEFINE new == [fl EXCEPT ![f] = e]
<1>1. new \in [Flows -> EntryType \cup {None}]
  OBVIOUS
<1>2. \A g \in Flows : Buf(fl)[g] \in Nat /\ Buf(new)[g] \in Nat
  BY <1>1, BufIsNat
<1>3. Buf(new)[f] = e.buf
  BY <1>1, BufIsNat, FlowFacts
<1>4. \A g \in Flows \ {f} : Buf(new)[g] = Buf(fl)[g]
  BY <1>1, BufIsNat
<1> HIDE DEF new
<1>5. SumFunctionOnSet(Buf(new), Flows) + Buf(fl)[f] = SumFunctionOnSet(Buf(fl), Flows) + Buf(new)[f]
  BY <1>2, <1>4, FlowFacts, SumChanges
<1>6. HeldBy(new) \in Nat /\ HeldBy(fl) \in Nat
  BY <1>1, BufIsNat
<1>7. QED
  BY <1>3, <1>5, <1>6 DEF HeldBy, new

\* Flows of the table are removed.
LEMMA HeldByRest ==
  ASSUME NEW fl \in [Flows -> EntryType \cup {None}], NEW gone \in SUBSET Flows, \A f \in gone : fl[f] # None
  PROVE  LET new == [f \in Flows |-> IF f \in gone THEN None ELSE fl[f]] IN
         /\ HeldBy(new) \in Nat /\ SumFunction([f \in gone |-> fl[f].buf]) \in Nat
         /\ HeldBy(fl) = SumFunction([f \in gone |-> fl[f].buf]) + HeldBy(new)
<1> DEFINE new == [f \in Flows |-> IF f \in gone THEN None ELSE fl[f]]
           H == [f \in gone |-> fl[f].buf]
           F == Buf(fl)
           N == Buf(new)
           rest == Flows \ gone
<1>1. new \in [Flows -> EntryType \cup {None}]
  OBVIOUS
<1>2. \A f \in Flows : F[f] \in Nat /\ N[f] \in Nat
  BY <1>1, BufIsNat
<1>3. (\A f \in gone : H[f] = F[f]) /\ (\A f \in gone : N[f] = 0) /\ (\A f \in rest : N[f] = F[f])
  BY <1>1, BufIsNat
<1>4. IsFiniteSet(Flows) /\ IsFiniteSet(gone) /\ IsFiniteSet(rest)
  BY PartsOfFlows, FlowFacts
<1>5. SumFunction(H) = SumFunctionOnSet(H, gone)
  BY DEF SumFunction
<1>6. HeldBy(fl) = SumFunctionOnSet(F, Flows) /\ HeldBy(new) = SumFunctionOnSet(N, Flows)
  BY DEF HeldBy
<1> HIDE DEF new, H, F, N
<1>7. /\ SumFunctionOnSet(F, gone) \in Nat /\ SumFunctionOnSet(F, rest) \in Nat
      /\ SumFunctionOnSet(F, Flows) = SumFunctionOnSet(F, gone) + SumFunctionOnSet(F, rest)
  BY <1>2, <1>4, SumParts
<1>8. SumFunctionOnSet(N, Flows) = SumFunctionOnSet(N, gone) + SumFunctionOnSet(N, rest)
  BY <1>2, <1>4, SumParts
<1>9. SumFunctionOnSet(N, gone) = 0
  BY <1>3, <1>4, SumOfNothing
<1>10. SumFunctionOnSet(N, rest) = SumFunctionOnSet(F, rest)
  <2>1. \A f \in rest : F[f] \in Nat
    BY <1>2
  <2> HIDE DEF rest
  <2>2. QED
    BY <1>3, <1>4, <2>1, SumLaws
<1>11. SumFunctionOnSet(H, gone) = SumFunctionOnSet(F, gone)
  <2>1. \A f \in gone : F[f] \in Nat
    BY <1>2
  <2>2. QED
    BY <1>3, <1>4, <2>1, SumLaws
<1> HIDE DEF rest
<1>12. HeldBy(new) \in Nat /\ SumFunction(H) \in Nat /\ HeldBy(fl) = SumFunction(H) + HeldBy(new)
  BY <1>5, <1>6, <1>7, <1>8, <1>9, <1>10, <1>11
<1>13. QED
  BY <1>12 DEF H, new
\* A packet meets an entry that is known, or a new one.
Met(f) == IF flow[f] = None THEN Fresh(f) ELSE flow[f]

LEMMA MetFacts ==
  ASSUME FlowIInv, NEW f \in Flows
  PROVE  /\ Coherent(f, Met(f)) /\ Met(f) \in EntryType /\ Met(f).buf \in Nat /\ Buf(flow)[f] = Met(f).buf
         /\ flow[f] = None => ~Met(f).allowed /\ Met(f).queries = {}
<1>1. flow \in [Flows -> EntryType \cup {None}] /\ (flow[f] # None => Coherent(f, flow[f]))
  BY DEF FlowIInv, FlowTypes, EntriesCohere
<1>2. Buf(flow)[f] = (IF flow[f] = None THEN 0 ELSE flow[f].buf) /\ Buf(flow)[f] \in Nat
  BY <1>1, BufIsNat
<1>3. CASE flow[f] = None
  BY <1>2, <1>3, FreshIsCoherent DEF Met, Coherent
<1>4. CASE flow[f] # None
  BY <1>1, <1>2, <1>4 DEF Met, Coherent
<1>5. QED
  BY <1>3, <1>4

LEMMA HandleOk ==
  ASSUME FlowIInv, NEW f \in Flows, NEW pk \in PacketsOf(f), NEW a \in Handle(f, Met(f), pk)
  PROVE  AnswerOk(f, Met(f), pk, a)
<1>1. Coherent(f, Met(f)) /\ sniFree \in Nat
  BY MetFacts DEF FlowIInv, FlowTypes
<1>2. CASE f \in DnsFlows
  <2>1. pk \in DnsPackets /\ a \in IF pk.back THEN {DnsBack(Met(f), pk)} ELSE DnsQuery(f, Met(f), pk)
    BY <1>2 DEF PacketsOf, Handle
  <2>2. QED
    BY <1>1, <1>2, <2>1, DnsOk
<1>3. CASE f \notin DnsFlows
  <2>1. f \in TcpFlows /\ pk \in TcpPackets
    BY <1>3 DEF Flows, PacketsOf
  <2>2. CASE flow[f] = None
    <3>1. a = OpenTcp(f, pk) /\ Met(f) = Fresh(f)
      BY <1>3, <2>2 DEF Handle, Met
    <3>2. QED
      BY <1>1, <2>1, <3>1, OpenOk
  <2>3. CASE flow[f] # None
    <3>1. a = KnownTcp(f, Met(f), pk)
      BY <1>3, <2>3 DEF Handle
    <3>2. QED
      BY <1>1, <2>1, <3>1, KnownOk
  <2>4. QED
    BY <2>2, <2>3
<1>4. QED
  BY <1>2, <1>3

\* What a packet leaves of an entry goes by the engine's rules when the entry
\* did.
LEMMA AnswerKeepsRules ==
  ASSUME NEW f \in Flows, NEW e, Coherent(f, e), NEW pk, NEW a, AnswerOk(f, e, pk, a), EntryOk(engine, f, e)
  PROVE  EntryOk(engine, f, a.e)
<1>1. a.e.decided <=> e.decided
  BY DEF AnswerOk, Coherent
<1>2. SUFFICES ASSUME e.decided
               PROVE  /\ (f \in TcpFlows /\ a.e.allowed) => Permits(engine, f, a.e.name)
                      /\ \A q \in a.e.queries : Permits(engine, f, q)
  BY <1>1 DEF EntryOk
<1>3. ASSUME f \in TcpFlows, a.e.allowed PROVE Permits(engine, f, a.e.name)
  <2>1. Decide(f, a.e.name) \/ (e.allowed /\ a.e.name = e.name)
    BY <1>2, <1>3 DEF AnswerOk
  <2>2. QED
    BY <1>2, <1>3, <2>1, DecidedIsPermitted DEF EntryOk
<1>4. ASSUME NEW q \in a.e.queries PROVE Permits(engine, f, q)
  <2>1. q \in e.queries \/ Decide(f, q)
    BY <1>4 DEF AnswerOk
  <2>2. QED
    BY <1>2, <2>1, DecidedIsPermitted DEF EntryOk
<1>5. QED
  BY <1>3, <1>4

LEMMA PacketKeeps ==
  ASSUME FlowIInv, NEW f \in Flows, NEW pk \in PacketsOf(f), Packet(f, pk)
  PROVE  FlowIInv'
<1> DEFINE e == Met(f)
<1>1. /\ flow[f] = None => Room(f)
      /\ \E a \in Handle(f, e, pk) : flow' = [flow EXCEPT ![f] = a.e] /\ sniFree' = a.free
      /\ perPeer' = IF flow[f] = None THEN [perPeer EXCEPT ![PrincipalOf[f]] = @ + 1] ELSE perPeer
      /\ UNCHANGED <<feedVars, watchVars, changes>>
  BY DEF Packet, Met
<1>2. PICK a \in Handle(f, e, pk) : flow' = [flow EXCEPT ![f] = a.e] /\ sniFree' = a.free
  BY <1>1
<1>3. AnswerOk(f, e, pk, a)
  BY HandleOk
<1>4. /\ Coherent(f, e) /\ e \in EntryType /\ e.buf \in Nat /\ Buf(flow)[f] = e.buf
      /\ (flow[f] = None => ~e.allowed /\ e.queries = {}) /\ (flow[f] # None => e = flow[f])
  BY MetFacts DEF Met
<1> HIDE DEF e
<1>5. UNCHANGED <<snap, engine, stale, ctl, swept, over, active, signedIn>>
  BY <1>1 DEF feedVars, watchVars
<1>6. Coherent(f, a.e) /\ a.e \in EntryType /\ a.e # None /\ a.free \in Nat /\ a.free + a.e.buf = sniFree + e.buf
  BY <1>3, FlowFacts DEF AnswerOk, Coherent
<1>t. flow \in [Flows -> EntryType \cup {None}] /\ perPeer \in [Principals -> Nat] /\ sniFree \in Nat /\ PrincipalOf[f] \in Principals
  BY FlowFacts DEF FlowIInv, FlowTypes
<1>7. flow'[f] = a.e /\ \A g \in Flows \ {f} : flow'[g] = flow[g]
  BY <1>2, <1>t
<1>8. FlowTypes'
  <2>1. flow' \in [Flows -> EntryType \cup {None}] /\ perPeer' \in [Principals -> Nat] /\ sniFree' \in Nat
    BY <1>1, <1>2, <1>6, <1>t
  <2>2. QED
    BY <1>5, <2>1 DEF FlowIInv, FlowTypes
<1>9. EntriesCohere'
  BY <1>6, <1>7 DEF FlowIInv, EntriesCohere, Coherent
<1>10. Accounts'
  <2>1. ASSUME NEW p \in Principals PROVE perPeer'[p] = Cardinality(OfPeer(flow', p)) /\ perPeer'[p] <= MaxPerPeer
    <3> DEFINE O == OfPeer(flow, p)
               N == OfPeer(flow', p)
    <3>0. perPeer[p] = Cardinality(O) /\ perPeer[p] <= MaxPerPeer /\ perPeer[p] \in Nat
      BY <1>t DEF FlowIInv, Accounts
    <3>1. CASE flow[f] = None /\ PrincipalOf[f] = p
      <4>1. N = O \cup {f} /\ f \notin O /\ O \subseteq Flows
        BY <1>6, <1>7, <3>1 DEF OfPeer
      <4>2. IsFiniteSet(O) /\ Cardinality(O) \in Nat
        BY <4>1, PartsOfFlows
      <4> HIDE DEF O, N
      <4>3. Cardinality(N) = Cardinality(O) + 1
        BY <4>1, <4>2, FS_AddElement
      <4>4. perPeer'[p] = perPeer[p] + 1
        BY <1>1, <1>t, <3>1
      <4>5. perPeer[p] < MaxPerPeer /\ MaxPerPeer \in Nat
        BY <1>1, <3>1, FlowFacts DEF Room
      <4>6. perPeer'[p] = Cardinality(N) /\ perPeer'[p] <= MaxPerPeer
        BY <3>0, <4>2, <4>3, <4>4, <4>5
      <4>7. QED
        BY <4>6 DEF N
    <3>2. CASE ~(flow[f] = None /\ PrincipalOf[f] = p)
      <4>1. N = O
        BY <1>6, <1>7, <3>2 DEF OfPeer
      <4>2. perPeer'[p] = perPeer[p]
        BY <1>1, <1>t, <3>2
      <4>3. QED
        BY <3>0, <4>1, <4>2
    <3>3. QED
      BY <3>1, <3>2
  <2>2. sniFree' + HeldBy(flow') = MaxSNI
    <3>1. /\ HeldBy([flow EXCEPT ![f] = a.e]) \in Nat /\ HeldBy(flow) \in Nat
          /\ HeldBy([flow EXCEPT ![f] = a.e]) + Buf(flow)[f] = HeldBy(flow) + a.e.buf
      BY <1>t, <1>6, HeldByPut
    <3>2. HeldBy(flow') = HeldBy([flow EXCEPT ![f] = a.e])
      BY <1>2, Zenon
    <3>3. sniFree + HeldBy(flow) = MaxSNI /\ a.e.buf \in Nat
      BY <1>6, FlowFacts DEF FlowIInv, Accounts, EntryType
    <3> DEFINE h == HeldBy(flow)
               n == HeldBy(flow')
               b == a.e.buf
               c == e.buf
    <3>4. /\ h \in Nat /\ n \in Nat /\ b \in Nat /\ c \in Nat /\ n + c = h + b /\ sniFree + h = MaxSNI
          /\ a.free + b = sniFree + c /\ sniFree \in Nat /\ a.free \in Nat
      BY <1>4, <1>6, <1>t, <3>1, <3>2, <3>3
    <3> HIDE DEF h, n, b, c
    <3>5. a.free + n = MaxSNI
      BY <3>4
    <3>6. QED
      BY <1>2, <3>5 DEF n
  <2>3. QED
    BY <2>1, <2>2 DEF Accounts
<1>11. ByEngine'
  <2>1. SUFFICES ASSUME ~(ctl.at = "closing" /\ ctl.reevaluate), NEW g \in Flows, flow'[g] # None
                 PROVE  EntryOk(engine, g, flow'[g])
    BY <1>5 DEF ByEngine, EntryOk, Permits, EvaluateFlow
  <2>2. \A h \in Flows : flow[h] # None => EntryOk(engine, h, flow[h])
    BY <2>1 DEF FlowIInv, ByEngine
  <2>3. CASE g = f
    <3>1. EntryOk(engine, f, e)
      BY <1>4, <2>2 DEF EntryOk
    <3>2. QED
      BY <1>3, <1>4, <1>7, <2>3, <3>1, AnswerKeepsRules
  <2>4. CASE g # f
    BY <1>7, <2>1, <2>2, <2>4
  <2>5. QED
    BY <2>3, <2>4
<1>12. EngineFollows'
  BY <1>5 DEF FlowIInv, EngineFollows
<1>13. StaleClosesAll'
  <2>1. SUFFICES ASSUME stale, swept, NEW g \in Flows, flow'[g] # None, flow'[g].decided PROVE ~flow'[g].allowed
    BY <1>5 DEF StaleClosesAll, Tracked
  <2>2. \A h \in Flows : flow[h] # None /\ flow[h].decided => ~flow[h].allowed
    BY <2>1 DEF FlowIInv, StaleClosesAll, Tracked
  <2>3. CASE g = f
    <3>1. a.e.decided <=> e.decided
      BY <1>4, <1>6 DEF Coherent
    <3>2. ~e.allowed
      BY <1>4, <1>7, <2>1, <2>2, <2>3, <3>1
    <3>3. QED
      BY <1>3, <1>7, <2>1, <2>3, <3>1, <3>2 DEF AnswerOk
  <2>4. CASE g # f
    BY <1>7, <2>1, <2>2, <2>4
  <2>5. QED
    BY <2>3, <2>4
<1>14. QED
  BY <1>8, <1>9, <1>10, <1>11, <1>12, <1>13 DEF FlowIInv
\* A step that changes the table leaves it as the invariant wants it.
TableKept ==
    /\ flow' \in [Flows -> EntryType \cup {None}]
    /\ perPeer' \in [Principals -> Nat] /\ sniFree' \in Nat
    /\ EntriesCohere' /\ Accounts'
    /\ \A f \in Flows : flow'[f] # None =>
          /\ flow[f] # None /\ flow'[f].decided = flow[f].decided
          /\ flow'[f].allowed => flow[f].allowed
          /\ EntryOk(engine, f, flow[f]) => EntryOk(engine, f, flow'[f])

LEMMA UnchangedKeeps ==
  ASSUME FlowIInv, UNCHANGED tableVars
  PROVE  TableKept
  BY DEF FlowIInv, FlowTypes, tableVars, TableKept, EntriesCohere, Coherent, Accounts, OfPeer, HeldBy, Buf

LEMMA RemoveKeeps ==
  ASSUME FlowIInv, NEW gone \in SUBSET Flows, \A f \in gone : flow[f] # None, RemoveFlow(gone)
  PROVE  TableKept
<1>1. /\ flow' = [f \in Flows |-> IF f \in gone THEN None ELSE flow[f]]
      /\ sniFree' = sniFree + SumFunction([f \in gone |-> flow[f].buf])
      /\ perPeer' = [p \in Principals |-> perPeer[p] - Cardinality({f \in gone : PrincipalOf[f] = p})]
  BY DEF RemoveFlow
<1>t. flow \in [Flows -> EntryType \cup {None}] /\ perPeer \in [Principals -> Nat] /\ sniFree \in Nat
  BY DEF FlowIInv, FlowTypes
<1>2. flow' \in [Flows -> EntryType \cup {None}] /\ \A f \in Flows : flow'[f] # None => flow'[f] = flow[f] /\ f \notin gone
  BY <1>1, <1>t
<1>3. EntriesCohere'
  BY <1>2 DEF FlowIInv, EntriesCohere, Coherent
<1>4. ASSUME NEW p \in Principals
      PROVE  perPeer'[p] \in Nat /\ perPeer'[p] = Cardinality(OfPeer(flow', p)) /\ perPeer'[p] <= MaxPerPeer
  <2> DEFINE O == OfPeer(flow, p)
             N == OfPeer(flow', p)
             G == {f \in gone : PrincipalOf[f] = p}
  <2>1. perPeer[p] = Cardinality(O) /\ perPeer[p] <= MaxPerPeer /\ perPeer[p] \in Nat /\ MaxPerPeer \in Nat
    BY <1>t, FlowFacts DEF FlowIInv, Accounts
  <2>2. N = O \ G /\ G = O \cap G /\ O \subseteq Flows
    BY <1>1 DEF OfPeer
  <2>3. IsFiniteSet(O)
    BY <2>2, PartsOfFlows
  <2>4. IsFiniteSet(N) /\ Cardinality(N) \in Nat
    <3>1. N \subseteq Flows
      BY DEF OfPeer
    <3>2. QED
      BY <3>1, PartsOfFlows
  <2>5. IsFiniteSet(G) /\ Cardinality(G) \in Nat
    <3>1. G \subseteq Flows
      OBVIOUS
    <3>2. QED
      BY <3>1, PartsOfFlows
  <2>6. perPeer'[p] = perPeer[p] - Cardinality(G)
    BY <1>1
  <2> HIDE DEF O, N, G
  <2>7. Cardinality(O \ G) = Cardinality(O) - Cardinality(O \cap G)
    BY <2>3, FS_Difference
  <2>8. Cardinality(N) = Cardinality(O) - Cardinality(G)
    BY <2>2, <2>7
  <2>9. perPeer'[p] \in Nat /\ perPeer'[p] = Cardinality(N) /\ perPeer'[p] <= MaxPerPeer
    BY <2>1, <2>4, <2>5, <2>6, <2>8
  <2>10. QED
    BY <2>9 DEF N
<1>5. sniFree' \in Nat /\ sniFree' + HeldBy(flow') = MaxSNI
  <2> DEFINE new == [f \in Flows |-> IF f \in gone THEN None ELSE flow[f]]
             s == SumFunction([f \in gone |-> flow[f].buf])
  <2>1. HeldBy(new) \in Nat /\ s \in Nat /\ HeldBy(flow) = s + HeldBy(new)
    BY <1>t, HeldByRest
  <2>2. HeldBy(flow') = HeldBy(new)
    BY <1>1, Zenon
  <2>3. sniFree + HeldBy(flow) = MaxSNI /\ sniFree' = sniFree + s
    BY <1>1 DEF FlowIInv, Accounts
  <2> HIDE DEF new, s
  <2>4. QED
    BY <1>t, <2>1, <2>2, <2>3
<1>6. perPeer' \in [Principals -> Nat] /\ Accounts'
  <2>1. perPeer' = [p \in Principals |-> perPeer'[p]]
    BY <1>1
  <2>2. QED
    BY <1>4, <1>5, <2>1 DEF Accounts
<1>7. QED
  BY <1>2, <1>3, <1>5, <1>6 DEF TableKept

\* One entry is decided again.
LEMMA AgainFacts ==
  ASSUME NEW f \in Flows, NEW e \in EntryType \cup {None}, e # None => Coherent(f, e)
  PROVE  /\ Again(f, e) = None <=> e = None
         /\ e # None =>
              /\ Coherent(f, Again(f, e)) /\ Again(f, e).buf = e.buf /\ Again(f, e).decided = e.decided
              /\ Again(f, e).allowed => e.allowed
              /\ EntryOk(engine, f, Again(f, e))
              /\ (Again(f, e).decided /\ Again(f, e).allowed) => ~stale
<1>1. CASE e = None
  BY <1>1 DEF Again
<1>2. CASE e # None
  <2>0. /\ e \in EntryType /\ Coherent(f, e) /\ None \notin EntryType
        /\ e.allowed \in BOOLEAN /\ e.decided \in BOOLEAN
    BY <1>2, FlowFacts DEF EntryType
  <2>1. CASE ~e.decided \/ ~e.allowed
    <3>1. Again(f, e) = e
      BY <2>1 DEF Again
    <3>2. e.decided => ~e.allowed /\ e.queries = {}
      BY <2>0, <2>1 DEF Coherent
    <3>3. QED
      BY <1>2, <2>0, <3>1, <3>2 DEF EntryOk
  <2>2. CASE e.decided /\ e.allowed
    <3> DEFINE ok == Decide(f, e.name)
               n == Decide(f, NoName)
    <3>b. ok \in BOOLEAN /\ n \in BOOLEAN /\ (ok => Permits(engine, f, e.name) /\ ~stale)
      BY DecidedIsPermitted DEF Decide
    <3>1. CASE f \in DnsFlows
      <4> DEFINE y == [e EXCEPT !.queries = {}, !.nameless = n, !.allowed = ok]
      <4>1. Again(f, e) = y
        BY <1>2, <2>2, <3>1 DEF Again
      <4>2. {} \in {q \in SUBSET Names : Cardinality(q) <= MaxQueries}
        BY FlowFacts, FS_EmptySet
      <4> HIDE DEF ok, n
      <4>3. /\ y \in EntryType /\ y.buf = e.buf /\ y.decided = e.decided /\ y.allowed = ok /\ y.queries = {}
            /\ y.probing = e.probing
        BY <2>0, <3>b, <4>2 DEF EntryType
      <4> HIDE DEF y
      <4>4. f \notin TcpFlows
        BY <3>1, FlowFacts
      <4>5. Coherent(f, y)
        BY <2>0, <2>2, <4>3, <4>4 DEF Coherent
      <4>6. EntryOk(engine, f, y)
        BY <4>3, <4>4 DEF EntryOk
      <4>7. QED
        BY <1>2, <2>0, <2>2, <3>b, <4>1, <4>3, <4>5, <4>6
    <3>2. CASE f \notin DnsFlows
      <4> DEFINE y == [e EXCEPT !.allowed = ok]
      <4>1. Again(f, e) = y
        BY <1>2, <2>2, <3>2 DEF Again
      <4>2. f \in TcpFlows
        BY <3>2 DEF Flows
      <4> HIDE DEF ok, n
      <4>3. /\ y \in EntryType /\ y.buf = e.buf /\ y.decided = e.decided /\ y.allowed = ok /\ y.queries = e.queries
            /\ y.probing = e.probing /\ y.name = e.name
        BY <2>0, <3>b DEF EntryType
      <4> HIDE DEF y
      <4>4. e.queries = {} /\ ~e.probing
        BY <2>0, <2>2, <4>2 DEF Coherent
      <4>5. Coherent(f, y)
        BY <2>0, <4>3, <4>4 DEF Coherent
      <4>6. EntryOk(engine, f, y)
        BY <3>b, <4>3, <4>4 DEF EntryOk
      <4>7. QED
        BY <1>2, <2>0, <2>2, <3>b, <4>1, <4>3, <4>5, <4>6
    <3>3. QED
      BY <3>1, <3>2
  <2>3. QED
    BY <2>0, <2>1, <2>2
<1>3. QED
  BY <1>1, <1>2

LEMMA ReevaluateKeeps ==
  ASSUME FlowIInv, Reevaluate
  PROVE  /\ TableKept
         /\ \A f \in Flows : flow'[f] # None =>
              EntryOk(engine, f, flow'[f]) /\ ((flow'[f].decided /\ flow'[f].allowed) => ~stale)
<1>t. /\ flow \in [Flows -> EntryType \cup {None}] /\ perPeer \in [Principals -> Nat] /\ sniFree \in Nat
      /\ \A f \in Flows : flow[f] # None => Coherent(f, flow[f])
  BY DEF FlowIInv, FlowTypes, EntriesCohere
<1>1. flow' = [f \in Flows |-> Again(f, flow[f])] /\ UNCHANGED <<perPeer, sniFree>>
  BY DEF Reevaluate
<1>2. ASSUME NEW f \in Flows
      PROVE  /\ flow'[f] = None <=> flow[f] = None
             /\ flow[f] # None =>
                  /\ Coherent(f, flow'[f]) /\ flow'[f].buf = flow[f].buf /\ flow'[f].decided = flow[f].decided
                  /\ flow'[f].allowed => flow[f].allowed
                  /\ EntryOk(engine, f, flow'[f])
                  /\ (flow'[f].decided /\ flow'[f].allowed) => ~stale
  <2>1. flow'[f] = Again(f, flow[f])
    BY <1>1
  <2>2. flow[f] \in EntryType \cup {None} /\ (flow[f] # None => Coherent(f, flow[f]))
    BY <1>t
  <2>3. QED
    BY <2>1, <2>2, AgainFacts
<1>3. flow' \in [Flows -> EntryType \cup {None}] /\ EntriesCohere'
  <2>1. flow' = [f \in Flows |-> flow'[f]]
    BY <1>1
  <2>2. \A f \in Flows : flow'[f] \in EntryType \cup {None}
    BY <1>2 DEF Coherent
  <2>3. QED
    BY <1>2, <2>1, <2>2 DEF EntriesCohere, Coherent
<1>4. \A p \in Principals : OfPeer(flow', p) = OfPeer(flow, p)
  BY <1>2 DEF OfPeer
<1>5. HeldBy(flow') = HeldBy(flow)
  <2>1. Buf(flow') = Buf(flow)
    BY <1>2 DEF Buf
  <2>2. QED
    BY <2>1, Zenon DEF HeldBy
<1>6. Accounts'
  BY <1>1, <1>4, <1>5 DEF FlowIInv, Accounts
<1>7. perPeer' \in [Principals -> Nat] /\ sniFree' \in Nat
  BY <1>1, <1>t
<1>8. QED
  BY <1>2, <1>3, <1>6, <1>7 DEF TableKept
CtlType == [at : {"idle", "stored", "closing", "sessions"}, removed : SUBSET Peers,
            reevaluate : BOOLEAN, sessions : BOOLEAN]

LEMMA StepKeeps ==
  ASSUME FlowIInv, TableKept, snap' \in Snapshots, engine' \in Snapshots, stale' \in BOOLEAN, swept' \in BOOLEAN,
         over' \subseteq Sessions, active' \subseteq Peers, signedIn' \subseteq Peers, ctl' \in CtlType,
         EngineFollows', ByEngine', (stale' /\ swept') => (stale /\ swept) \/ StaleClosesAll'
  PROVE  FlowIInv'
<1>1. FlowTypes'
  BY DEF FlowTypes, TableKept, CtlType
<1>2. StaleClosesAll'
  BY DEF FlowIInv, StaleClosesAll, Tracked, TableKept
<1>3. QED
  BY <1>1, <1>2 DEF FlowIInv, TableKept

\* While the engine and the rest stay, the flows go by its rules as before.
LEMMA RulesKept ==
  ASSUME FlowIInv, TableKept, engine' = engine, ctl'.reevaluate = ctl.reevaluate \/ ctl'.at # "closing",
         (ctl.at = "closing" /\ ctl.reevaluate) =>
            \/ ctl'.at = "closing" /\ ctl'.reevaluate
            \/ \A f \in Flows : flow'[f] # None => EntryOk(engine, f, flow'[f])
  PROVE  ByEngine'
<1>1. SUFFICES ASSUME ~(ctl'.at = "closing" /\ ctl'.reevaluate), NEW f \in Flows, flow'[f] # None
               PROVE  EntryOk(engine, f, flow'[f])
  BY DEF ByEngine, EntryOk, Permits, EvaluateFlow
<1>2. CASE ctl.at = "closing" /\ ctl.reevaluate
  BY <1>1, <1>2
<1>3. CASE ~(ctl.at = "closing" /\ ctl.reevaluate)
  BY <1>1, <1>3 DEF FlowIInv, ByEngine, TableKept
<1>4. QED
  BY <1>2, <1>3

LEMMA FlowStep ==
  ASSUME FlowIInv, [FlowNext]_flowVars
  PROVE  FlowIInv'
<1>t. /\ snap \in Snapshots /\ engine \in Snapshots /\ stale \in BOOLEAN /\ swept \in BOOLEAN
      /\ over \subseteq Sessions /\ active \subseteq Peers /\ signedIn \subseteq Peers /\ ctl \in CtlType
      /\ EngineFollows
  BY DEF FlowIInv, FlowTypes, CtlType
<1>1. ASSUME NEW f \in Flows, Expire(f) PROVE FlowIInv'
  <2>1. UNCHANGED <<snap, engine, stale, ctl, swept, over, active, signedIn>> /\ flow[f] # None /\ RemoveFlow({f})
    BY <1>1 DEF Expire, feedVars, watchVars
  <2>2. TableKept
    <3>1. {f} \in SUBSET Flows /\ \A g \in {f} : flow[g] # None
      BY <2>1
    <3>2. QED
      BY <2>1, <3>1, RemoveKeeps
  <2>3. ByEngine'
    BY <2>1, <2>2, RulesKept
  <2>4. EngineFollows'
    BY <1>t, <2>1 DEF EngineFollows
  <2>5. QED
    BY <1>t, <2>1, <2>2, <2>3, <2>4, StepKeeps
<1>2. ASSUME NEW new \in Snapshots, StoreSnapshot(new) PROVE FlowIInv'
  <2> DEFINE d == [at |-> "stored", removed |-> snap.peers \ new.peers,
                   reevaluate |-> new.policy # snap.policy \/ ~(new.session = snap.session) \/ snap.peers \ new.peers # {},
                   sessions |-> ~(new.session = snap.session)]
  <2>1. /\ ctl.at = "idle" /\ snap' = new /\ stale' = FALSE /\ ctl' = d
        /\ UNCHANGED tableVars /\ engine' = engine /\ UNCHANGED <<swept, over, active, signedIn>>
    BY <1>2 DEF StoreSnapshot, watchVars
  <2>2. TableKept
    BY <2>1, UnchangedKeeps
  <2>3. d \in CtlType
    BY <1>t, FlowAssumption DEF CtlType
  <2>4. d.at = "stored" /\ (~d.reevaluate => new.policy = snap.policy /\ new.session = snap.session /\ snap.peers \subseteq new.peers)
    OBVIOUS
  <2> HIDE DEF d
  <2>5. engine = snap
    BY <1>t, <2>1 DEF EngineFollows
  <2>6. EngineFollows'
    BY <2>1, <2>4, <2>5 DEF EngineFollows
  <2>7. ByEngine'
    BY <2>1, <2>2, <2>4, RulesKept
  <2>8. QED
    BY <1>t, <2>1, <2>2, <2>3, <2>6, <2>7, StepKeeps
<1>3. ASSUME StoreEngine PROVE FlowIInv'
  <2> DEFINE d == [ctl EXCEPT !.at = "closing"]
  <2>1. /\ ctl.at = "stored" /\ engine' = snap /\ ctl' = d
        /\ UNCHANGED tableVars /\ UNCHANGED <<snap, stale, swept, over, active, signedIn>>
    BY <1>3 DEF StoreEngine, watchVars
  <2>2. TableKept
    BY <2>1, UnchangedKeeps
  <2>3. d \in CtlType /\ d.at = "closing" /\ d.reevaluate = ctl.reevaluate
    BY <1>t DEF CtlType
  <2> HIDE DEF d
  <2>4. EngineFollows'
    BY <2>1, <2>3 DEF EngineFollows
  <2>5. ByEngine'
    <3>1. SUFFICES ASSUME ~ctl.reevaluate, NEW f \in Flows, flow[f] # None PROVE EntryOk(snap, f, flow[f])
      BY <2>1, <2>3 DEF ByEngine, EntryOk, Permits, EvaluateFlow, tableVars
    <3>2. EntryOk(engine, f, flow[f])
      BY <2>1, <3>1 DEF FlowIInv, ByEngine
    <3>3. engine.policy = snap.policy /\ engine.session = snap.session /\ engine.peers \subseteq snap.peers
      BY <1>t, <2>1, <3>1 DEF EngineFollows
    <3>4. \A n : Permits(engine, f, n) => Permits(snap, f, n)
      BY <3>3 DEF Permits, EvaluateFlow
    <3>5. QED
      BY <3>2, <3>4 DEF EntryOk
  <2>6. QED
    BY <1>t, <2>1, <2>2, <2>3, <2>4, <2>5, StepKeeps
<1>4. ASSUME ReevaluateDiff PROVE FlowIInv'
  <2> DEFINE d == [ctl EXCEPT !.at = "sessions"]
  <2>1. /\ ctl.at = "closing" /\ ctl' = d /\ (IF ctl.reevaluate THEN Reevaluate ELSE UNCHANGED tableVars)
        /\ UNCHANGED <<snap, engine, stale, swept, over, active, signedIn>>
    BY <1>4 DEF ReevaluateDiff, watchVars
  <2>2. TableKept /\ (ctl.reevaluate => \A f \in Flows : flow'[f] # None => EntryOk(engine, f, flow'[f]))
    BY <2>1, UnchangedKeeps, ReevaluateKeeps
  <2>3. d \in CtlType /\ d.at = "sessions"
    BY <1>t DEF CtlType
  <2> HIDE DEF d
  <2>4. EngineFollows'
    BY <1>t, <2>1, <2>3 DEF EngineFollows
  <2>5. ByEngine'
    BY <2>1, <2>2, <2>3, RulesKept
  <2>6. QED
    BY <1>t, <2>1, <2>2, <2>3, <2>4, <2>5, StepKeeps
<1>e. ASSUME EnforceSessions PROVE TableKept /\ signedIn' \subseteq Peers
  BY <1>t, <1>e, UnchangedKeeps, ReevaluateKeeps DEF EnforceSessions
<1>5. ASSUME EnforceDiff PROVE FlowIInv'
  <2>1. /\ ctl.at = "sessions" /\ ctl' = NoDiff
        /\ (IF ctl.sessions THEN EnforceSessions ELSE UNCHANGED <<tableVars, signedIn>>)
        /\ UNCHANGED <<snap, engine, stale, swept, over, active>>
    BY <1>5 DEF EnforceDiff
  <2>2. TableKept /\ signedIn' \subseteq Peers
    BY <1>t, <1>e, <2>1, UnchangedKeeps
  <2>3. NoDiff \in CtlType /\ NoDiff.at = "idle"
    BY DEF NoDiff, CtlType
  <2>4. EngineFollows'
    BY <1>t, <2>1, <2>3 DEF EngineFollows
  <2>5. ByEngine'
    BY <2>1, <2>2, <2>3, RulesKept
  <2>6. QED
    BY <1>t, <2>1, <2>2, <2>3, <2>4, <2>5, StepKeeps
<1>6. ASSUME NEW p \in Peers, CloseRemoved(p) PROVE FlowIInv'
  <2> DEFINE d == [ctl EXCEPT !.removed = @ \ {p}]
             gone == {f \in Flows : flow[f] # None /\ PrincipalOf[f] = p}
  <2>1. /\ ctl.at = "closing" /\ ctl' = d /\ RemoveFlow(gone) /\ active' = active \ {p}
        /\ UNCHANGED <<snap, engine, stale, swept, over, signedIn>>
    BY <1>6 DEF CloseRemoved
  <2>2. TableKept
    <3>1. gone \in SUBSET Flows /\ \A g \in gone : flow[g] # None
      OBVIOUS
    <3>2. QED
      BY <2>1, <3>1, RemoveKeeps
  <2>3. d \in CtlType /\ d.at = "closing" /\ d.reevaluate = ctl.reevaluate
    BY <1>t, <2>1 DEF CtlType
  <2> HIDE DEF d, gone
  <2>4. EngineFollows'
    BY <1>t, <2>1, <2>3 DEF EngineFollows
  <2>5. ByEngine'
    BY <2>1, <2>2, <2>3, RulesKept
  <2>6. active' \subseteq Peers
    BY <1>t, <2>1
  <2>7. QED
    BY <1>t, <2>1, <2>2, <2>3, <2>4, <2>5, <2>6, StepKeeps
<1>7. ASSUME SessionWatch PROVE FlowIInv'
  <2>1. EnforceSessions /\ UNCHANGED <<snap, engine, stale, ctl, swept, over, active>>
    BY <1>7 DEF SessionWatch, feedVars
  <2>2. TableKept /\ signedIn' \subseteq Peers
    BY <1>e, <2>1
  <2>3. EngineFollows'
    BY <1>t, <2>1 DEF EngineFollows
  <2>4. ByEngine'
    BY <2>1, <2>2, RulesKept
  <2>5. QED
    BY <1>t, <2>1, <2>2, <2>3, <2>4, StepKeeps
<1>8. ASSUME Sweep PROVE FlowIInv'
  <2>1. /\ (IF stale /\ ~swept THEN Reevaluate ELSE UNCHANGED tableVars)
        /\ swept' = stale /\ UNCHANGED <<snap, engine, stale, ctl, over, active, signedIn>>
    BY <1>8 DEF Sweep, feedVars
  <2>2. /\ TableKept
        /\ (stale /\ ~swept) => \A f \in Flows : flow'[f] # None => ((flow'[f].decided /\ flow'[f].allowed) => ~stale)
    BY <2>1, UnchangedKeeps, ReevaluateKeeps
  <2>3. EngineFollows'
    BY <1>t, <2>1 DEF EngineFollows
  <2>4. ByEngine'
    BY <2>1, <2>2, RulesKept
  <2>5. (stale' /\ swept') => (stale /\ swept) \/ StaleClosesAll'
    BY <2>1, <2>2 DEF StaleClosesAll, Tracked
  <2>6. QED
    BY <1>t, <2>1, <2>2, <2>3, <2>4, <2>5, StepKeeps
<1>9. ASSUME \/ SnapshotAges \/ Confirmed
             \/ \E se \in Sessions : RunsOut(se)
             \/ \E p \in Peers : Connects(p) \/ Disconnects(p)
             \/ UNCHANGED flowVars
      PROVE  FlowIInv'
  <2>1. /\ UNCHANGED tableVars /\ UNCHANGED <<snap, engine, ctl, swept, signedIn>>
        /\ stale' \in BOOLEAN /\ ((stale' /\ swept') => stale /\ swept)
        /\ over' \subseteq Sessions /\ active' \subseteq Peers
    <3>1. CASE SnapshotAges
      BY <1>t, <3>1 DEF SnapshotAges, watchVars
    <3>2. CASE Confirmed
      BY <1>t, <3>2 DEF Confirmed, watchVars
    <3>3. CASE \E se \in Sessions : RunsOut(se)
      BY <1>t, <3>3 DEF RunsOut, feedVars
    <3>4. CASE \E p \in Peers : Connects(p) \/ Disconnects(p)
      BY <1>t, <3>4 DEF Connects, Disconnects, feedVars
    <3>5. CASE UNCHANGED flowVars
      BY <1>t, <3>5 DEF flowVars, feedVars, watchVars
    <3>6. QED
      BY <1>9, <3>1, <3>2, <3>3, <3>4, <3>5
  <2>2. TableKept
    BY <2>1, UnchangedKeeps
  <2>3. EngineFollows'
    BY <1>t, <2>1 DEF EngineFollows
  <2>4. ByEngine'
    BY <2>1, <2>2, RulesKept
  <2>5. QED
    BY <1>t, <2>1, <2>2, <2>3, <2>4, StepKeeps
<1>10. QED
  BY <1>1, <1>2, <1>3, <1>4, <1>5, <1>6, <1>7, <1>8, <1>9, PacketKeeps DEF FlowNext

LEMMA FlowBegins == FlowInit => FlowIInv
<1> SUFFICES ASSUME FlowInit PROVE FlowIInv
  OBVIOUS
<1>1. /\ flow = [f \in Flows |-> None] /\ perPeer = [p \in Principals |-> 0] /\ sniFree = MaxSNI
      /\ snap \in Snapshots /\ engine = snap /\ stale = FALSE /\ swept = FALSE
      /\ over = {} /\ active = {} /\ signedIn = {} /\ ctl = NoDiff
  BY DEF FlowInit
<1>2. flow \in [Flows -> EntryType \cup {None}] /\ \A f \in Flows : flow[f] = None
  BY <1>1
<1>3. FlowTypes
  BY <1>1, <1>2, FlowFacts DEF FlowTypes, NoDiff
<1>4. Accounts
  <2>1. \A p \in Principals : OfPeer(flow, p) = {}
    BY <1>2 DEF OfPeer
  <2>2. \A f \in Flows : Buf(flow)[f] = 0
    BY <1>2, BufIsNat
  <2>3. HeldBy(flow) = 0
    BY <2>2, FlowFacts, SumOfNothing DEF HeldBy
  <2>4. QED
    BY <1>1, <2>1, <2>3, FlowFacts, FS_EmptySet DEF Accounts
<1>5. QED
  BY <1>1, <1>2, <1>3, <1>4 DEF FlowIInv, EntriesCohere, ByEngine, EngineFollows, StaleClosesAll, Tracked, NoDiff

LEMMA FlowImplies == FlowIInv => FlowInv
<1> SUFFICES ASSUME FlowIInv PROVE FlowInv
  OBVIOUS
<1>1. FlowTypes /\ Accounts /\ ByEngine /\ EngineFollows /\ StaleClosesAll
  BY DEF FlowIInv
<1>2. flow \in [Flows -> EntryType \cup {None}] /\ sniFree \in Nat /\ MaxSNI \in Nat
  BY <1>1, FlowFacts DEF FlowTypes
<1>3. HeldBy(flow) \in Nat /\ sniFree + HeldBy(flow) = MaxSNI
  BY <1>1, <1>2, BufIsNat DEF Accounts
<1>4. FlowTypeOK
  <2>1. sniFree \in 0 .. MaxSNI
    BY <1>2, <1>3
  <2>2. QED
    BY <1>1, <1>2, <2>1 DEF FlowTypes, FlowTypeOK, Tracked
<1>5. AccountsMatch
  <2>1. SumFunction([f \in {g \in Flows : Tracked(g)} |-> flow[f].buf]) = HeldBy(flow)
    BY <1>2, HeldByTracked DEF Tracked
  <2>2. QED
    BY <1>1, <1>3, <2>1 DEF Accounts, AccountsMatch, OfPeer, Tracked
<1>6. ctl.at = "idle" => engine = snap /\ \A f \in Flows : flow[f] # None => EntryOk(snap, f, flow[f])
  BY <1>1 DEF EngineFollows, ByEngine
<1>7. NoFlowByOldRules
  BY <1>6 DEF NoFlowByOldRules, EntryOk, Permits, Tracked
<1>8. PayloadIsPermitted
  <2>1. SUFFICES ASSUME NEW f \in TcpFlows, NEW pk \in TcpPackets, pk.payload # "none",
                        NEW a \in Handle(f, Met(f), pk), a.out = "pass", Met(f).decided
                 PROVE  /\ a.e.allowed
                        /\ ctl.at = "idle" => Permits(snap, f, a.e.name)
    BY DEF PayloadIsPermitted, Met, Permits
  <2>2. f \in Flows /\ pk \in PacketsOf(f)
    BY FlowFacts DEF PacketsOf
  <2>3. AnswerOk(f, Met(f), pk, a) /\ Coherent(f, Met(f))
    BY <2>2, HandleOk, MetFacts
  <2>4. a.e.allowed
    BY <2>1, <2>3 DEF AnswerOk
  <2>5. ASSUME ctl.at = "idle" PROVE Permits(snap, f, a.e.name)
    <3>1. EntryOk(engine, f, Met(f)) /\ engine = snap
      BY <1>6, <2>2, <2>5, MetFacts DEF Met, EntryOk
    <3>2. EntryOk(engine, f, a.e)
      BY <2>2, <2>3, <3>1, AnswerKeepsRules
    <3>3. a.e.decided
      BY <2>1, <2>3 DEF AnswerOk, Coherent
    <3>4. QED
      BY <2>4, <3>1, <3>2, <3>3 DEF EntryOk
  <2>6. QED
    BY <2>4, <2>5
<1>9. QED
  BY <1>1, <1>4, <1>5, <1>7, <1>8 DEF FlowInv

\* The accounts of the flow table are exact, no payload passes on a flow that
\* is not permitted, none goes by rules that were taken back, and a stale
\* snapshot keeps none open (FlowInv): for any flows, peers, snapshots and
\* limits.
THEOREM FlowSound == FlowSpec => []FlowInv
<1>1. FlowInit => FlowIInv
  BY FlowBegins
<1>2. FlowIInv /\ [FlowNext]_flowVars => FlowIInv'
  BY FlowStep
<1>3. QED
  BY <1>1, <1>2, FlowImplies, PTL DEF FlowSpec
-----------------------------------------------------------------------------
(***************************************************************************)
(* AccessPolicy.  What is above a principal and a destination among the    *)
(* entities, set against what the policies mean by it: each set of         *)
(* entities is closed under "parents of", so nothing else is above, and    *)
(* each member is reached by a chain of at most four parents.              *)
(***************************************************************************)
PolicyShape ==
    /\ announced \in [Nodes -> SUBSET Prefix]
    /\ tagged \in [Nodes -> SUBSET Tags]
    /\ session \in [Nodes -> PolicySessions]
    /\ policies \subseteq Statements

LEMMA NodeOrderAll ==
  /\ Cardinality(Nodes) \in Nat /\ NodeOrder \in [1 .. Cardinality(Nodes) -> Nodes]
  /\ \A n \in Nodes : \E i \in 1 .. Cardinality(Nodes) : NodeOrder[i] = n
<1> DEFINE c == Cardinality(Nodes)
<1>1. IsFiniteSet(Nodes) /\ c \in Nat /\ ExistsBijection(1 .. c, Nodes)
  BY PolicyConstants, FS_CardinalityType
<1>2. PICK b \in [1 .. c -> Nodes] : IsInjective(b)
  BY <1>1 DEF ExistsBijection, Bijection, Injection, IsInjective
<1>3. NodeOrder \in [1 .. c -> Nodes] /\ IsInjective(NodeOrder)
  BY <1>2 DEF NodeOrder, SetToSeq
<1>4. NodeOrder \in Injection(1 .. c, Nodes)
  BY <1>3 DEF IsInjective, Injection
<1>5. Cardinality(1 .. c) = c
  BY <1>1, FS_Interval
<1>6. NodeOrder \in Surjection(1 .. c, Nodes)
  BY <1>1, <1>4, <1>5, FS_Injection
<1>7. QED
  BY <1>1, <1>3, <1>6 DEF Surjection

\* The owner of an address is a node it is behind; if it is a node's own
\* address, that node.
LEMMA OwnerHolds ==
  ASSUME PolicyShape, NEW dst \in Addrs
  PROVE  /\ Owner(dst) # Anyone => Owner(dst) \in HoldersOf(dst)
         /\ \A n \in Nodes : OverlayIP[n] = dst => Owner(dst) = n
<1> DEFINE by == {n \in Nodes : OverlayIP[n] = dst}
           bits(n) == {p.bits : p \in {q \in announced[n] : dst \in q.has}}
           all == UNION {bits(n) : n \in Nodes}
           best == CHOOSE b \in all : \A c \in all : c <= b
           Ok(i) == best \in bits(NodeOrder[i]) /\ \A j \in 1..(i - 1) : best \notin bits(NodeOrder[j])
           first == CHOOSE i \in DOMAIN NodeOrder : Ok(i)
<1>1. Owner(dst) = IF by # {} THEN CHOOSE n \in by : TRUE ELSE IF all = {} THEN Anyone ELSE NodeOrder[first]
  BY DEF Owner
<1>2. CASE by # {}
  <2>1. Owner(dst) \in by
    BY <1>1, <1>2
  <2>2. \A m, n \in by : m = n
    BY PolicyConstants
  <2>3. QED
    BY <2>1, <2>2 DEF HoldersOf
<1>3. CASE by = {} /\ all = {}
  BY <1>1, <1>3
<1>4. CASE by = {} /\ all # {}
  <2>1. all \in SUBSET (0 .. 128)
    BY DEF PolicyShape, Prefix
  <2>2. best \in all
    <3> HIDE DEF all
    <3>1. Max(all) \in all /\ \A y \in all : y <= Max(all)
      BY <1>4, <2>1, GreatestOf
    <3>2. QED
      BY <3>1 DEF best
  <2>3. PICK n \in Nodes : best \in bits(n)
    BY <2>2
  <2> HIDE DEF best, bits
  <2>4. PICK k \in 1 .. Cardinality(Nodes) : best \in bits(NodeOrder[k])
    BY <2>3, NodeOrderAll
  <2> DEFINE T == {i \in 1 .. Cardinality(Nodes) : best \in bits(NodeOrder[i])}
  <2>5. PICK i \in T : \A j \in T : i <= j
    <3>1. T \in SUBSET Nat /\ T # {}
      BY <2>4
    <3> HIDE DEF T
    <3>2. QED
      BY <3>1, LeastOf
  <2>6. i \in DOMAIN NodeOrder /\ Ok(i)
    BY <2>5, NodeOrderAll
  <2>7. first \in DOMAIN NodeOrder /\ Ok(first)
    BY <2>6
  <2>8. NodeOrder[first] \in Nodes /\ best \in bits(NodeOrder[first])
    BY <2>7, NodeOrderAll
  <2>9. \E p \in announced[NodeOrder[first]] : dst \in p.has
    BY <2>8 DEF bits
  <2>10. Owner(dst) = NodeOrder[first]
    BY <1>1, <1>4
  <2> HIDE DEF first
  <2>11. QED
    BY <1>4, <2>8, <2>9, <2>10 DEF HoldersOf
<1>5. QED
  BY <1>2, <1>3, <1>4

\* The parents of each entity.
LEMMA ParentsAre ==
  ASSUME NEW r, NEW se
  PROVE  /\ Layered(r, se, <<"host", r.dst>>) = HostParents(r)
         /\ Layered(r, se, <<"node", r.principal>>) = NodeParents(r.principal, se)
         /\ \A n : n # r.principal => Layered(r, se, <<"node", n>>) = NodeParents(n, Anyone)
         /\ se # Anyone => Layered(r, se, <<"user", se.subject>>) = UserParents(se)
         /\ \A p : Layered(r, se, <<"net", p>>) = {<<"node", n>> : n \in {m \in Nodes : p \in announced[m]}}
         /\ \A t : /\ Layered(r, se, <<"tag", t>>) = {} /\ Layered(r, se, <<"list", t>>) = {}
                   /\ Layered(r, se, <<"group", t>>) = {}
<1>1. Layered(r, se, <<"host", r.dst>>) = HostParents(r)
  BY DEF Layered
<1>2. Layered(r, se, <<"node", r.principal>>) = NodeParents(r.principal, se)
  BY DEF Layered
<1>3. ASSUME NEW n, n # r.principal PROVE Layered(r, se, <<"node", n>>) = NodeParents(n, Anyone)
  <2>1. Layered(r, se, <<"node", n>>) = Base(<<"node", n>>)
    BY <1>3 DEF Layered
  <2>2. QED
    BY <2>1 DEF Base
<1>4. ASSUME se # Anyone PROVE Layered(r, se, <<"user", se.subject>>) = UserParents(se)
  BY <1>4 DEF Layered
<1>5. ASSUME NEW p
      PROVE  Layered(r, se, <<"net", p>>) = {<<"node", n>> : n \in {m \in Nodes : p \in announced[m]}}
  <2>1. Layered(r, se, <<"net", p>>) = Base(<<"net", p>>)
    BY DEF Layered
  <2>2. QED
    BY <2>1 DEF Base
<1>6. ASSUME NEW t
      PROVE  /\ Layered(r, se, <<"tag", t>>) = {} /\ Layered(r, se, <<"list", t>>) = {}
             /\ Layered(r, se, <<"group", t>>) = {}
  <2>1. /\ Layered(r, se, <<"tag", t>>) = Base(<<"tag", t>>) /\ Layered(r, se, <<"list", t>>) = Base(<<"list", t>>)
        /\ Layered(r, se, <<"group", t>>) = Base(<<"group", t>>)
    BY DEF Layered
  <2>2. QED
    BY <2>1 DEF Base
<1>7. QED
  BY <1>1, <1>2, <1>3, <1>4, <1>5, <1>6

\* A set that is closed under parents holds all that is above its members.
LEMMA AboveWithin ==
  ASSUME NEW r, NEW se, NEW W, NEW u \in W, \A x \in W : Layered(r, se, x) \subseteq W
  PROVE  Above(r, se, u) \subseteq W
<1> DEFINE up(S) == S \cup UNION {Layered(r, se, x) : x \in S}
<1>1. \A S \in SUBSET W : up(S) \in SUBSET W
  OBVIOUS
<1>2. Above(r, se, u) = up(up(up(up({u}))))
  BY DEF Above
<1> HIDE DEF up
<1>3. QED
  BY <1>1, <1>2

\* What a chain of parents reaches is above.
LEMMA AboveReaches ==
  ASSUME NEW r, NEW se, NEW u
  PROVE  /\ u \in Above(r, se, u)
         /\ \A a \in Layered(r, se, u) :
               /\ a \in Above(r, se, u)
               /\ \A b \in Layered(r, se, a) :
                     /\ b \in Above(r, se, u)
                     /\ \A c \in Layered(r, se, b) : c \in Above(r, se, u)
<1> DEFINE up(S) == S \cup UNION {Layered(r, se, x) : x \in S}
           A == up({u})
           B == up(A)
           C == up(B)
<1>1. \A S : S \subseteq up(S)
  OBVIOUS
<1>2. \A S : \A x \in S : \A y \in Layered(r, se, x) : y \in up(S)
  OBVIOUS
<1>3. Above(r, se, u) = up(C)
  BY DEF Above
<1> HIDE DEF up
<1>4. u \in A /\ A \subseteq B /\ B \subseteq C /\ C \subseteq up(C)
  BY <1>1
<1>5. /\ \A a \in Layered(r, se, u) : a \in A
      /\ \A a \in A : \A b \in Layered(r, se, a) : b \in B
      /\ \A b \in B : \A c \in Layered(r, se, b) : c \in C
  BY <1>2, <1>4
<1> HIDE DEF A, B, C
<1>6. QED
  BY <1>3, <1>4, <1>5

\* The principal's side of a statement, Anyone aside.
LEMMA AbovePrincipal ==
  ASSUME PolicyShape, NEW r, r.principal \in Nodes, NEW x
  PROVE  LET se == session[r.principal] IN
         x = Anyone \/ x \in Above(r, se, <<"node", r.principal>>) <=> MeansPrincipal(x, r.principal)
<1> DEFINE n == r.principal
           se == session[n]
           W == {<<"node", n>>} \cup {<<"tag", t>> : t \in tagged[n]}
                \cup (IF se = Anyone THEN {} ELSE {<<"user", se.subject>>} \cup {<<"group", g>> : g \in se.groups})
<1>1. se \in PolicySessions
  BY DEF PolicyShape
<1>2. se # Anyone => se.subject # Anyone
  BY <1>1, PolicyConstants DEF PolicySessions
<1>3. /\ Layered(r, se, <<"node", n>>) = {<<"tag", t>> : t \in tagged[n]}
                                          \cup (IF se = Anyone THEN {} ELSE {<<"user", se.subject>>})
      /\ se # Anyone => Layered(r, se, <<"user", se.subject>>) = {<<"group", g>> : g \in se.groups}
      /\ \A t : Layered(r, se, <<"tag", t>>) = {} /\ Layered(r, se, <<"group", t>>) = {}
  BY <1>2, ParentsAre DEF NodeParents, UserParents
<1> HIDE DEF se, n
<1>4. \A y \in W : Layered(r, se, y) \subseteq W
  BY <1>3
<1>5. Above(r, se, <<"node", n>>) \subseteq W
  <2>1. <<"node", n>> \in W
    OBVIOUS
  <2> HIDE DEF W
  <2>2. QED
    BY <1>4, <2>1, AboveWithin
<1>6. W \subseteq Above(r, se, <<"node", n>>)
  BY <1>3, AboveReaches
<1>7. MeansPrincipal(x, n) <=> x = Anyone \/ x \in W
  BY DEF MeansPrincipal, se
<1>8. QED
  BY <1>5, <1>6, <1>7 DEF se, n

ByName(r) == \/ r.dns # Anyone /\ HasName("dynamic", r.dns)
             \/ r.sni # Anyone /\ SniFallback(r.dst) /\ HasName("dynamic", r.sni)
             \/ \E n \in r.resolved : HasName("dynamic", n)

LEMMA ListsAre ==
  ASSUME NEW r
  PROVE  /\ InLists(r) \subseteq {<<"list", "dynamic">>, <<"list", "sni">>}
         /\ <<"list", "dynamic">> \in InLists(r) <=> ByName(r)
         /\ <<"list", "sni">> \in InLists(r) <=> r.sni # Anyone /\ HasName("sni", r.sni)
<1> DEFINE K == {x \in {"dynamic", "sni"} : IF x = "dynamic" THEN ByName(r) ELSE r.sni # Anyone /\ HasName("sni", r.sni)}
<1>1. InLists(r) = {<<"list", k>> : k \in K}
  BY DEF InLists, ByName
<1>2. /\ K \subseteq {"dynamic", "sni"} /\ ("dynamic" \in K <=> ByName(r))
      /\ ("sni" \in K <=> r.sni # Anyone /\ HasName("sni", r.sni))
  OBVIOUS
<1> HIDE DEF K
<1>3. QED
  BY <1>1, <1>2

\* The destination's side.
LEMMA AboveHost ==
  ASSUME PolicyShape, NEW r, r.principal \in Nodes, r.dst \in Addrs,
         NEW x, x = Anyone \/ x[1] \in {"host", "net", "node", "tag", "list"}
  PROVE  LET se == session[r.principal] IN
         x = Anyone \/ x \in Above(r, se, <<"host", r.dst>>) <=> MeansResource(x, r)
<1> DEFINE se == session[r.principal]
           H == HoldersOf(r.dst)
           P == NetworksOf(r.dst)
           T == UNION {tagged[n] : n \in H}
           L == InLists(r)
           U == IF se = Anyone THEN {} ELSE {<<"user", se.subject>>} \cup {<<"group", g>> : g \in se.groups}
           V == {<<"host", r.dst>>} \cup {<<"net", p>> : p \in P} \cup {<<"node", n>> : n \in H} \cup {<<"tag", t>> : t \in T} \cup L
           W == V \cup U
           O == IF Owner(r.dst) = Anyone THEN {} ELSE {<<"node", Owner(r.dst)>>}
<1>p. /\ Layered(r, se, <<"host", r.dst>>) = HostParents(r)
      /\ Layered(r, se, <<"node", r.principal>>) = NodeParents(r.principal, se)
      /\ \A n : n # r.principal => Layered(r, se, <<"node", n>>) = NodeParents(n, Anyone)
      /\ se # Anyone => Layered(r, se, <<"user", se.subject>>) = UserParents(se)
      /\ \A p : Layered(r, se, <<"net", p>>) = {<<"node", n>> : n \in {m \in Nodes : p \in announced[m]}}
      /\ \A t : /\ Layered(r, se, <<"tag", t>>) = {} /\ Layered(r, se, <<"list", t>>) = {}
                /\ Layered(r, se, <<"group", t>>) = {}
  <2> HIDE DEF se
  <2>1. QED
    BY ParentsAre
<1>1. Layered(r, se, <<"host", r.dst>>) = {<<"net", p>> : p \in P} \cup O \cup L
  BY <1>p DEF HostParents
<1>2. \A p \in P : /\ Layered(r, se, <<"net", p>>) \subseteq {<<"node", n>> : n \in H}
                   /\ \A n \in Nodes : p \in announced[n] => <<"node", n>> \in Layered(r, se, <<"net", p>>)
  <2>1. ASSUME NEW p \in P
        PROVE  /\ {n \in Nodes : p \in announced[n]} \subseteq H
               /\ Layered(r, se, <<"net", p>>) = {<<"node", n>> : n \in {m \in Nodes : p \in announced[m]}}
    <3>1. Layered(r, se, <<"net", p>>) = {<<"node", n>> : n \in {m \in Nodes : p \in announced[m]}}
      <4> HIDE DEF se, P
      <4>1. QED
        BY <1>p
    <3>2. QED
      BY <2>1, <3>1 DEF HoldersOf, NetworksOf
  <2> HIDE DEF P, H
  <2>2. QED
    BY <2>1
<1>3. \A n \in H : /\ {<<"tag", t>> : t \in tagged[n]} \subseteq Layered(r, se, <<"node", n>>)
                   /\ Layered(r, se, <<"node", n>>) \subseteq {<<"tag", t>> : t \in T} \cup U
  <2>1. ASSUME NEW n \in H
        PROVE  /\ {<<"tag", t>> : t \in tagged[n]} \subseteq Layered(r, se, <<"node", n>>)
               /\ Layered(r, se, <<"node", n>>) \subseteq {<<"tag", t>> : t \in tagged[n]} \cup U
    <3> HIDE DEF se, H
    <3>1. CASE n = r.principal
      <4>1. Layered(r, se, <<"node", n>>) = NodeParents(n, se)
        BY <1>p, <3>1
      <4>2. QED
        BY <4>1 DEF NodeParents
    <3>2. CASE n # r.principal
      <4>1. Layered(r, se, <<"node", n>>) = {<<"tag", t>> : t \in tagged[n]}
        <5>1. Layered(r, se, <<"node", n>>) = NodeParents(n, Anyone)
          BY <1>p, <3>2
        <5>2. QED
          BY <5>1 DEF NodeParents
      <4>2. QED
        BY <4>1
    <3>3. QED
      BY <3>1, <3>2
  <2>2. \A n \in H : {<<"tag", t>> : t \in tagged[n]} \subseteq {<<"tag", t>> : t \in T}
    OBVIOUS
  <2> HIDE DEF H, T, U
  <2>3. QED
    BY <2>1, <2>2
<1>4. /\ \A y \in U : Layered(r, se, y) \subseteq U
      /\ \A t : Layered(r, se, <<"tag", t>>) = {}
      /\ \A y \in L : Layered(r, se, y) = {}
  <2> HIDE DEF se
  <2>1. \A t : Layered(r, se, <<"tag", t>>) = {} /\ Layered(r, se, <<"group", t>>) = {} /\ Layered(r, se, <<"list", t>>) = {}
    BY <1>p
  <2>2. \A y \in L : Layered(r, se, y) = {}
    BY <2>1, ListsAre
  <2>3. \A y \in U : Layered(r, se, y) \subseteq U
    <3>1. CASE se = Anyone
      BY <3>1
    <3>2. CASE se # Anyone
      <4>1. Layered(r, se, <<"user", se.subject>>) = {<<"group", g>> : g \in se.groups}
        BY <1>p, <3>2 DEF UserParents
      <4>2. U = {<<"user", se.subject>>} \cup {<<"group", g>> : g \in se.groups}
        BY <3>2
      <4> HIDE DEF U
      <4>3. QED
        BY <2>1, <4>1, <4>2
    <3>3. QED
      BY <3>1, <3>2
  <2>4. QED
    BY <2>1, <2>2, <2>3
<1>5. O \subseteq {<<"node", n>> : n \in H} /\ \A n \in Nodes : OverlayIP[n] = r.dst => <<"node", n>> \in O
  <2>1. Owner(r.dst) # Anyone => Owner(r.dst) \in H
    BY OwnerHolds
  <2>2. \A n \in Nodes : OverlayIP[n] = r.dst => Owner(r.dst) = n /\ n # Anyone
    BY OwnerHolds, PolicyConstants
  <2> HIDE DEF H
  <2>3. QED
    BY <2>1, <2>2
<1>h. /\ \A n \in H : n \in Nodes /\ (OverlayIP[n] = r.dst \/ \E p \in P : p \in announced[n])
      /\ T = UNION {tagged[n] : n \in H}
  BY DEF HoldersOf, NetworksOf
<1>w. MeansResource(x, r) <=> x = Anyone \/ x \in V
  BY DEF MeansResource
<1>u. x \in W => x = Anyone \/ x \in V
  OBVIOUS
<1> HIDE DEF se, H, P, T, L, U, O
<1>6. <<"host", r.dst>> \in W /\ \A y \in W : Layered(r, se, y) \subseteq W
  BY <1>1, <1>2, <1>3, <1>4, <1>5
<1>7. V \subseteq Above(r, se, <<"host", r.dst>>)
  <2> DEFINE A == Above(r, se, <<"host", r.dst>>)
  <2>1. <<"host", r.dst>> \in A
    BY AboveReaches
  <2>2. /\ \A y \in L : y \in A
        /\ \A p \in P : <<"net", p>> \in A
    BY <1>1, AboveReaches
  <2>3. ASSUME NEW n \in H PROVE <<"node", n>> \in A /\ \A t \in tagged[n] : <<"tag", t>> \in A
    <3> DEFINE hst == <<"host", r.dst>>
               nd == <<"node", n>>
    <3>0. \A t \in tagged[n] : <<"tag", t>> \in Layered(r, se, nd)
      BY <1>3
    <3>1. CASE OverlayIP[n] = r.dst
      <4>1. nd \in Layered(r, se, hst)
        BY <1>1, <1>5, <1>h, <3>1
      <4> HIDE DEF nd
      <4>2. nd \in A /\ \A b \in Layered(r, se, nd) : b \in A
        BY <4>1, AboveReaches
      <4>3. QED
        BY <3>0, <4>2 DEF nd
    <3>2. CASE OverlayIP[n] # r.dst
      <4>1. PICK p \in P : p \in announced[n]
        BY <1>h, <3>2
      <4> DEFINE nt == <<"net", p>>
      <4>2. nt \in Layered(r, se, hst) /\ nd \in Layered(r, se, nt)
        BY <1>1, <1>2, <1>h, <4>1
      <4> HIDE DEF nd, nt
      <4>3. nd \in A /\ \A b \in Layered(r, se, nd) : b \in A
        BY <4>2, AboveReaches
      <4>4. QED
        BY <3>0, <4>3 DEF nd
    <3>3. QED
      BY <3>1, <3>2
  <2> HIDE DEF A
  <2>4. \A t \in T : <<"tag", t>> \in A
    BY <1>h, <2>3
  <2>5. V \subseteq A
    BY <2>1, <2>2, <2>3, <2>4
  <2>6. QED
    BY <2>5 DEF A
<1> HIDE DEF V, W
<1>8. Above(r, se, <<"host", r.dst>>) \subseteq W
  BY <1>6, AboveWithin
<1>9. x = Anyone \/ x \in Above(r, se, <<"host", r.dst>>) <=> MeansResource(x, r)
  BY <1>u, <1>w, <1>7, <1>8
<1>10. QED
  BY <1>9 DEF se

LEMMA AppliesIsMeant ==
  ASSUME PolicyShape, NEW r, r.principal \in Nodes, r.dst \in Addrs, NEW st \in Statements
  PROVE  Applies(st, r, session[r.principal]) <=> Means(st, r)
<1> DEFINE se == session[r.principal]
<1>1. st.who = Anyone \/ st.who \in Above(r, se, <<"node", r.principal>>) <=> MeansPrincipal(st.who, r.principal)
  BY AbovePrincipal
<1>2. st.to = Anyone \/ st.to \in Above(r, se, <<"host", r.dst>>) <=> MeansResource(st.to, r)
  <2>1. st.to = Anyone \/ st.to[1] \in {"host", "net", "node", "tag", "list"}
    BY PolicyConstants
  <2>2. QED
    BY <2>1, AboveHost
<1>3. QED
  BY <1>1, <1>2 DEF Applies, Means

\* The decision for a node of the snapshot, by what the policies mean.
MeantToPass(r) == /\ \E st \in policies : st.effect = "permit" /\ Means(st, r)
                  /\ \A st \in policies : st.effect = "forbid" => ~Means(st, r)

LEMMA AllowedIsMeant ==
  ASSUME PolicyShape, NEW r, r.principal \in Nodes, r.dst \in Addrs
  PROVE  Allowed(r, FALSE) <=> MeantToPass(r)
<1>1. \A st \in policies : Applies(st, r, session[r.principal]) <=> Means(st, r)
  BY AppliesIsMeant DEF PolicyShape
<1>2. Allowed(r, FALSE) <=>
        /\ \E st \in policies : st.effect = "permit" /\ Applies(st, r, session[r.principal])
        /\ \A st \in policies : st.effect = "forbid" => ~Applies(st, r, session[r.principal])
  <2>1. (IF session[r.principal] # Anyone THEN session[r.principal]
         ELSE IF FALSE THEN [subject |-> Anyone, groups |-> {}] ELSE Anyone) = session[r.principal]
    OBVIOUS
  <2>2. QED
    BY <2>1 DEF Allowed
<1>3. QED
  BY <1>1, <1>2 DEF MeantToPass

\* Nothing but a list comes with a server name.
LEMMA NameAddsLists ==
  ASSUME NEW r \in Requests, r.sni = Anyone, NEW n \in HostNames
  PROVE  LET s == [r EXCEPT !.sni = n] IN
         /\ s.principal = r.principal /\ s.dst = r.dst /\ s.sni = n
         /\ InLists(r) \subseteq InLists(s)
         /\ \A x \in InLists(s) : \/ x \in InLists(r) \/ x = <<"list", "sni">>
                                  \/ x = <<"list", "dynamic">> /\ SniFallback(r.dst)
<1> DEFINE s == [r EXCEPT !.sni = n]
<1>1. /\ s.principal = r.principal /\ s.dst = r.dst /\ s.sni = n /\ s.dns = r.dns /\ s.resolved = r.resolved
  BY DEF Requests
<1> HIDE DEF s
<1>2. ByName(r) => ByName(s)
  BY <1>1 DEF ByName
<1>3. ByName(s) => ByName(r) \/ SniFallback(r.dst)
  BY <1>1 DEF ByName
<1>4. InLists(r) \subseteq InLists(s)
  BY <1>2, ListsAre
<1>5. \A x \in InLists(s) : \/ x \in InLists(r) \/ x = <<"list", "sni">>
                            \/ x = <<"list", "dynamic">> /\ SniFallback(r.dst)
  BY <1>3, ListsAre
<1>6. QED
  BY <1>1, <1>4, <1>5 DEF s

PolicyIInv == PolicyShape /\ (decision = NoDecision \/ (asked \in Requests /\ decision = Evaluate(asked)))

LEMMA PolicyBegins == PolicyInit => PolicyIInv
  BY PolicyConstants DEF PolicyInit, PolicyIInv, PolicyShape

\* Owner and LastSession, as functions of what they read.
OwnerIn(ann, dst) ==
    LET by == {n \in Nodes : OverlayIP[n] = dst}
        bits(n) == {p.bits : p \in {q \in ann[n] : dst \in q.has}}
        all == UNION {bits(n) : n \in Nodes}
        best == CHOOSE b \in all : \A c \in all : c <= b
    IN  IF by # {} THEN CHOOSE n \in by : TRUE
        ELSE IF all = {} THEN Anyone
        ELSE NodeOrder[CHOOSE i \in DOMAIN NodeOrder :
               best \in bits(NodeOrder[i])
               /\ \A j \in 1..(i - 1) : best \notin bits(NodeOrder[j])]

LastIn(ses, subject) ==
    LET of == {i \in DOMAIN NodeOrder : ses[NodeOrder[i]] # Anyone /\ ses[NodeOrder[i]].subject = subject}
    IN  IF of = {} THEN Anyone
        ELSE ses[NodeOrder[CHOOSE i \in of : \A j \in of : j <= i]]

\* A decision is a function of the snapshot and the request.
LEMMA SameSnapshot ==
  ASSUME UNCHANGED <<announced, tagged, session, policies>>, NEW r
  PROVE  Evaluate(r)' = Evaluate(r)
<1>0. announced' = announced /\ session' = session
  OBVIOUS
<1>1. \A dst : SniFallback(dst)' = SniFallback(dst)
  BY DEF SniFallback, Internal
<1>2. InLists(r)' = InLists(r)
  BY <1>1 DEF InLists
<1>3. \A dst : Owner(dst)' = Owner(dst)
  <2>1. \A dst : Owner(dst) = OwnerIn(announced, dst)
    BY DEF Owner, OwnerIn
  <2>2. \A dst : Owner(dst)' = OwnerIn(announced', dst)
    BY DEF Owner, OwnerIn
  <2>3. QED
    BY <1>0, <2>1, <2>2, Zenon
<1>4. HostParents(r)' = HostParents(r)
  <2>1. Owner(r.dst)' = Owner(r.dst)
    BY <1>3
  <2>2. announced' = announced
    OBVIOUS
  <2>3. QED
    BY <1>2, <2>1, <2>2 DEF HostParents, NetworksOf
<1>5. \A n, se : NodeParents(n, se)' = NodeParents(n, se)
  BY DEF NodeParents
<1>6. \A u : LastSession(u)' = LastSession(u)
  <2>1. \A u : LastSession(u) = LastIn(session, u)
    BY DEF LastSession, LastIn
  <2>2. \A u : LastSession(u)' = LastIn(session', u)
    BY DEF LastSession, LastIn
  <2>3. QED
    BY <1>0, <2>1, <2>2, Zenon
<1>7. \A u : Base(u)' = Base(u)
  BY <1>5, <1>6 DEF Base
<1>8. \A se, u : Layered(r, se, u)' = Layered(r, se, u)
  BY <1>4, <1>5, <1>7 DEF Layered
<1>9. \A se, u : Above(r, se, u)' = Above(r, se, u)
  <2>1. ASSUME NEW se, NEW u PROVE Above(r, se, u)' = Above(r, se, u)
    <3> DEFINE up(S) == S \cup UNION {Layered(r, se, x) : x \in S}
    <3>1. \A S : up(S)' = up(S)
      BY <1>8
    <3>2. Above(r, se, u) = up(up(up(up({u})))) /\ Above(r, se, u)' = up(up(up(up({u}))))'
      BY DEF Above
    <3> HIDE DEF up
    <3>3. up(up(up(up({u}))))' = up(up(up(up({u}))))
      BY <3>1, Zenon
    <3>4. QED
      BY <3>2, <3>3
  <2>2. QED
    BY <2>1
<1>10. \A st, se : Applies(st, r, se)' <=> Applies(st, r, se)
  BY <1>9 DEF Applies
<1>11. (Allowed(r, FALSE)' <=> Allowed(r, FALSE)) /\ (Allowed(r, TRUE)' <=> Allowed(r, TRUE))
  BY <1>10 DEF Allowed
<1>12. WaitsForName(r)' <=> WaitsForName(r)
  BY <1>1 DEF WaitsForName, PermitsBySNI, PermitsDynamic
<1>13. QED
  BY <1>11, <1>12 DEF Evaluate

LEMMA PolicyStep ==
  ASSUME PolicyIInv, [PolicyNext]_policyVars
  PROVE  PolicyIInv'
<1>1. PolicyShape'
  BY DEF PolicyIInv, PolicyShape, PolicyNext, Ask, policyVars
<1>2. CASE UNCHANGED policyVars
  <2>1. CASE decision = NoDecision
    BY <1>1, <1>2, <2>1 DEF PolicyIInv, policyVars
  <2>2. CASE asked \in Requests /\ decision = Evaluate(asked)
    <3>1. PICK r \in Requests : asked = r /\ decision = Evaluate(r)
      BY <2>2
    <3>2. Evaluate(r)' = Evaluate(r)
      BY <1>2, SameSnapshot DEF policyVars
    <3>3. asked' = r /\ decision' = Evaluate(r)
      BY <1>2, <3>1 DEF policyVars
    <3>4. QED
      BY <1>1, <3>2, <3>3 DEF PolicyIInv
  <2>3. QED
    BY <2>1, <2>2 DEF PolicyIInv
<1>3. CASE Ask
  <2>1. PICK r \in Requests : asked' = r /\ decision' = Evaluate(r)
    BY <1>3 DEF Ask
  <2>2. Evaluate(r)' = Evaluate(r)
    BY <1>3, SameSnapshot DEF Ask
  <2>3. QED
    BY <1>1, <2>1, <2>2 DEF PolicyIInv
<1>4. QED
  BY <1>2, <1>3 DEF PolicyNext

LEMMA PolicyImplies ==
  ASSUME PolicyIInv
  PROVE  PolicyInv
<1>1. CASE decision = NoDecision
  BY <1>1 DEF NoDecision, PolicyInv, DecisionIsMeant, NameAloneOpensNothing, NameIsAwaited
<1>2. CASE asked \in Requests /\ decision = Evaluate(asked)
  <2>p. PolicyShape /\ asked.dst \in Addrs /\ asked.principal \in Nodes \cup {Stranger}
    BY <1>2 DEF PolicyIInv, Requests
  <2>1. /\ decision.allow <=> asked.principal \in Nodes /\ Allowed(asked, FALSE)
        /\ decision.permitBySNI <=> ~decision.allow /\ WaitsForName(asked)
    BY <1>2 DEF Evaluate
  <2>2. decision.allow <=> asked.principal \in Nodes /\ MeantToPass(asked)
    BY <2>p, <2>1, AllowedIsMeant
  <2>3. DecisionIsMeant
    BY <2>2 DEF DecisionIsMeant, MeantToPass
  <2>4. NameAloneOpensNothing
    <3>1. SUFFICES ASSUME decision.allow, asked.dst \notin PublicAddrs \/ asked.dst \in Internal,
                          asked.resolved = {}, asked.dns = Anyone
                   PROVE  \E st \in policies : st.effect = "permit" /\ st.to # <<"list", "dynamic">>
      BY DEF NameAloneOpensNothing
    <3>2. PICK st \in policies : st.effect = "permit" /\ Means(st, asked)
      BY <2>2, <3>1 DEF MeantToPass
    <3>3. ~ByName(asked)
      BY <3>1 DEF ByName, SniFallback
    <3>4. <<"list", "dynamic">> \notin InLists(asked) /\ Anyone # <<"list", "dynamic">>
      BY <3>3, ListsAre, PolicyConstants
    <3>5. ~MeansResource(<<"list", "dynamic">>, asked)
      BY <3>4 DEF MeansResource
    <3>6. QED
      BY <3>2, <3>5 DEF Means
  <2>5. NameIsAwaited
    <3>1. SUFFICES ASSUME ~decision.allow, asked.sni = Anyone, asked.dns = Anyone, asked.principal \in Nodes,
                          \A st \in policies : st.effect = "forbid" => st.sni = Anyone,
                          NEW n \in HostNames, Allowed([asked EXCEPT !.sni = n], FALSE),
                          ~WaitsForName(asked)
                   PROVE  FALSE
      BY <2>1 DEF NameIsAwaited
    <3> DEFINE s == [asked EXCEPT !.sni = n]
    <3>2. /\ s.principal = asked.principal /\ s.dst = asked.dst /\ s.sni = n
          /\ InLists(asked) \subseteq InLists(s)
          /\ \A x \in InLists(s) : \/ x \in InLists(asked) \/ x = <<"list", "sni">>
                                   \/ x = <<"list", "dynamic">> /\ SniFallback(asked.dst)
      BY <1>2, <3>1, NameAddsLists
    <3>3. Allowed(s, FALSE)
      BY <3>1
    <3> HIDE DEF s
    <3>4. MeantToPass(s)
      BY <2>p, <3>1, <3>2, <3>3, AllowedIsMeant
    <3>5. ~PermitsBySNI /\ ~(PermitsDynamic /\ SniFallback(asked.dst))
      BY <3>1 DEF WaitsForName
    <3>6. PICK st \in policies : st.effect = "permit" /\ Means(st, s)
      BY <3>4 DEF MeantToPass
    <3>7. st.sni = Anyone /\ st.to # <<"list", "sni">> /\ ~(st.to = <<"list", "dynamic">> /\ SniFallback(asked.dst))
      BY <3>5, <3>6 DEF PermitsBySNI, PermitsDynamic
    <3>8. MeansResource(st.to, asked)
      BY <3>2, <3>6, <3>7 DEF Means, MeansResource
    <3>9. Means(st, asked)
      BY <3>2, <3>6, <3>7, <3>8 DEF Means
    <3>10. ASSUME NEW f \in policies, f.effect = "forbid", Means(f, asked) PROVE FALSE
      <4>1. MeansResource(f.to, s)
        BY <3>2, <3>10 DEF Means, MeansResource
      <4>2. f.sni = Anyone
        BY <3>1, <3>10
      <4>3. Means(f, s)
        BY <3>2, <3>10, <4>1, <4>2 DEF Means
      <4>4. QED
        BY <3>4, <3>10, <4>3 DEF MeantToPass
    <3>11. MeantToPass(asked)
      BY <3>6, <3>9, <3>10 DEF MeantToPass
    <3>12. QED
      BY <2>2, <3>1, <3>11
  <2>6. QED
    BY <2>3, <2>4, <2>5 DEF PolicyInv
<1>3. QED
  BY <1>1, <1>2 DEF PolicyIInv

\* Every decision is what the policies mean by the snapshot, a server name
\* alone opens no internal address, and a flow that a name could permit waits
\* for it (PolicyInv): for any nodes, announcements, tags, sessions, lists
\* and statements.
THEOREM PolicySound == PolicySpec => []PolicyInv
<1>1. PolicyInit => PolicyIInv
  BY PolicyBegins
<1>2. PolicyIInv /\ [PolicyNext]_policyVars => PolicyIInv'
  BY PolicyStep
<1>3. PolicyIInv => PolicyInv
  BY PolicyImplies
<1>4. QED
  BY <1>1, <1>2, <1>3, PTL DEF PolicySpec
-----------------------------------------------------------------------------
(***************************************************************************)
(* A recursion over 0 .. n whose step H stays within a set M has a         *)
(* solution, and all its values are in M.                                  *)
(***************************************************************************)
HasIterate(n, M, x, H) ==
    \E f \in [0 .. n -> M] : f[0] = x /\ \A i \in 1 .. n : f[i] = H[<<i, f[i - 1]>>]

LEMMA Iterates ==
  ASSUME NEW n \in Nat, NEW M, NEW x \in M, NEW H, H \in [(1 .. n) \X M -> M]
  PROVE  HasIterate(n, M, x, H)
<1> DEFINE Upto(k, f) == f[0] = x /\ \A i \in 1 .. k : f[i] = H[<<i, f[i - 1]>>]
           G == {k \in Nat : k <= n => \E f \in [0 .. k -> M] : Upto(k, f)}
<1>1. 0 \in G
  <2>1. [i \in 0 .. 0 |-> x] \in [0 .. 0 -> M] /\ Upto(0, [i \in 0 .. 0 |-> x])
    OBVIOUS
  <2>2. QED
    BY <2>1
<1>2. ASSUME NEW k \in Nat, k \in G PROVE k + 1 \in G
  <2>1. SUFFICES ASSUME k + 1 <= n PROVE \E f \in [0 .. k + 1 -> M] : Upto(k + 1, f)
    OBVIOUS
  <2>2. PICK f \in [0 .. k -> M] : Upto(k, f)
    BY <1>2, <2>1
  <2> DEFINE g == [i \in 0 .. k + 1 |-> IF i = k + 1 THEN H[<<k + 1, f[k]>>] ELSE f[i]]
  <2>3. H[<<k + 1, f[k]>>] \in M
    BY <2>1
  <2>4. g \in [0 .. k + 1 -> M] /\ (\A i \in 0 .. k : g[i] = f[i]) /\ g[k + 1] = H[<<k + 1, f[k]>>]
    BY <2>3
  <2> HIDE DEF g
  <2>5. ASSUME NEW i \in 1 .. k + 1 PROVE g[i] = H[<<i, g[i - 1]>>]
    <3>1. CASE i = k + 1
      <4>1. i - 1 = k /\ k \in 0 .. k
        BY <3>1
      <4>2. QED
        BY <2>4, <3>1, <4>1
    <3>2. CASE i # k + 1
      <4>1. i \in 1 .. k /\ i \in 0 .. k /\ i - 1 \in 0 .. k
        BY <3>2
      <4>2. QED
        BY <2>2, <2>4, <4>1
    <3>3. QED
      BY <3>1, <3>2
  <2>6. g[0] = x
    BY <2>2, <2>4
  <2>7. QED
    BY <2>4, <2>5, <2>6
<1> HIDE DEF G
<1>3. n \in G
  BY <1>1, <1>2, NumbersAll
<1>4. QED
  BY <1>3 DEF G, HasIterate
-----------------------------------------------------------------------------
(***************************************************************************)
(* List entries (AccessPolicy).  What is stored is the text of what was    *)
(* read; a text that was made from an entry names the prefix by a length   *)
(* that gives back its first and its last address.                         *)
(***************************************************************************)
LEMMA PowersOfTwo ==
  /\ Bits \in Nat /\ Pow2[0] = 1
  /\ \A i \in 0 .. Bits : Pow2[i] \in Nat
  /\ \A i \in 1 .. Bits : Pow2[i] = 2 * Pow2[i - 1]
<1> DEFINE H == [z \in (1 .. Bits) \X Nat |-> 2 * z[2]]
<1>1. Bits \in Nat
  BY EntryAssumption
<1>2. PICK f \in [0 .. Bits -> Nat] : f[0] = 1 /\ \A i \in 1 .. Bits : f[i] = H[<<i, f[i - 1]>>]
  <2> DEFINE M == Nat
             one == 1
  <2>1. H \in [(1 .. Bits) \X M -> M] /\ one \in M
    OBVIOUS
  <2> HIDE DEF H, M, one
  <2>2. HasIterate(Bits, M, one, H)
    BY <1>1, <2>1, Iterates
  <2>3. QED
    BY <2>2 DEF HasIterate, M, one
<1>3. ASSUME NEW i \in 1 .. Bits PROVE f[i - 1] \in Nat /\ f[i] = 2 * f[i - 1]
  <2>1. f[i - 1] \in Nat
    BY <1>1
  <2>2. f[i] = H[<<i, f[i - 1]>>]
    BY <1>2
  <2>3. <<i, f[i - 1]>> \in (1 .. Bits) \X Nat /\ <<i, f[i - 1]>>[2] = f[i - 1]
    BY <2>1
  <2>4. H[<<i, f[i - 1]>>] = 2 * f[i - 1]
    BY <2>3
  <2>5. QED
    BY <2>1, <2>2, <2>4
<1>4. f = [i \in 0 .. Bits |-> IF i = 0 THEN 1 ELSE 2 * f[i - 1]]
  BY <1>1, <1>2, <1>3
<1>5. Pow2 = [i \in 0 .. Bits |-> IF i = 0 THEN 1 ELSE 2 * Pow2[i - 1]]
  <2>1. \E g : g = [i \in 0 .. Bits |-> IF i = 0 THEN 1 ELSE 2 * g[i - 1]]
    BY <1>4
  <2>2. QED
    BY <2>1, Zenon DEF Pow2
<1>6. Pow2[0] = 1 /\ \A i \in 1 .. Bits : Pow2[i] = 2 * Pow2[i - 1]
  BY <1>1, <1>5
<1>7. \A i \in 0 .. Bits : Pow2[i] \in Nat
  <2> DEFINE G == {k \in Nat : k <= Bits => Pow2[k] \in Nat}
  <2>1. 0 \in G
    BY <1>6
  <2>2. ASSUME NEW k \in Nat, k \in G PROVE k + 1 \in G
    <3>1. SUFFICES ASSUME k + 1 <= Bits PROVE Pow2[k + 1] \in Nat
      OBVIOUS
    <3>2. k + 1 \in 1 .. Bits /\ (k + 1) - 1 = k /\ Pow2[k] \in Nat
      BY <1>1, <2>2, <3>1
    <3>3. Pow2[k + 1] = 2 * Pow2[k]
      BY <1>6, <3>2
    <3>4. QED
      BY <3>2, <3>3
  <2> HIDE DEF G
  <2>3. \A k \in Nat : k \in G
    BY <2>1, <2>2, NumbersAll
  <2>4. QED
    BY <1>1, <2>3 DEF G
<1>8. QED
  BY <1>1, <1>6, <1>7

LEMMA Halves ==
  /\ \A i \in 0 .. Bits : Pow2[i] >= 1
  /\ \A len \in 0 .. Bits : \E q \in Nat : Pow2[Bits] = q * Pow2[Bits - len]
<1>1. \A i \in 0 .. Bits : Pow2[i] >= 1
  <2> DEFINE G == {k \in Nat : k <= Bits => Pow2[k] >= 1}
  <2>1. 0 \in G
    BY PowersOfTwo
  <2>2. ASSUME NEW k \in Nat, k \in G PROVE k + 1 \in G
    <3>1. SUFFICES ASSUME k + 1 <= Bits PROVE Pow2[k + 1] >= 1
      OBVIOUS
    <3>2. k + 1 \in 1 .. Bits /\ (k + 1) - 1 = k /\ k \in 0 .. Bits /\ k <= Bits
      BY <3>1, PowersOfTwo
    <3>3. Pow2[k + 1] = 2 * Pow2[k] /\ Pow2[k] \in Nat /\ Pow2[k] >= 1
      BY <2>2, <3>2, PowersOfTwo
    <3>4. QED
      BY <3>3
  <2> HIDE DEF G
  <2>3. \A k \in Nat : k \in G
    BY <2>1, <2>2, NumbersAll
  <2>4. QED
    BY <2>3, PowersOfTwo DEF G
<1>2. \A len \in 0 .. Bits : \E q \in Nat : Pow2[Bits] = q * Pow2[Bits - len]
  <2> DEFINE G == {k \in Nat : k <= Bits => \E q \in Nat : Pow2[Bits] = q * Pow2[Bits - k]}
  <2>1. 0 \in G
    <3>1. Pow2[Bits] \in Nat /\ Bits - 0 = Bits
      BY PowersOfTwo
    <3>2. Pow2[Bits] = 1 * Pow2[Bits - 0]
      BY <3>1
    <3>3. QED
      BY <3>2
  <2>2. ASSUME NEW k \in Nat, k \in G PROVE k + 1 \in G
    <3>1. SUFFICES ASSUME k + 1 <= Bits PROVE \E q \in Nat : Pow2[Bits] = q * Pow2[Bits - (k + 1)]
      OBVIOUS
    <3>2. Bits - k \in 1 .. Bits /\ (Bits - k) - 1 = Bits - (k + 1) /\ Bits - (k + 1) \in 0 .. Bits /\ k <= Bits
      BY <3>1, PowersOfTwo
    <3>3. PICK q \in Nat : Pow2[Bits] = q * Pow2[Bits - k]
      BY <2>2, <3>2
    <3> DEFINE P == Pow2[Bits - (k + 1)]
    <3>4. Pow2[Bits - k] = 2 * P /\ P \in Nat
      BY <3>2, PowersOfTwo
    <3> HIDE DEF P
    <3>5. q * (2 * P) = (2 * q) * P /\ 2 * q \in Nat
      BY <3>4
    <3>6. Pow2[Bits] = (2 * q) * P
      BY <3>3, <3>4, <3>5
    <3>7. QED
      BY <3>5, <3>6 DEF P
  <2> HIDE DEF G
  <2>3. \A k \in Nat : k \in G
    BY <2>1, <2>2, NumbersAll
  <2>4. QED
    BY <2>3, PowersOfTwo DEF G
<1>3. QED
  BY <1>1, <1>2

\* The block of size p that holds a, in an address space of q blocks.
LEMMA BlockOf ==
  ASSUME NEW p \in Nat, p >= 1, NEW q \in Nat, NEW a \in 0 .. q * p - 1
  PROVE  LET lo == a - (a % p) IN
         /\ lo \in 0 .. q * p - 1 /\ lo + p - 1 \in 0 .. q * p - 1 /\ lo % p = 0
         /\ \A b \in Nat : b \div p = a \div p <=> lo <= b /\ b <= lo + p - 1
<1> DEFINE d == a \div p
           m == a % p
<1>1. q * p \in Nat /\ a \in Nat
  OBVIOUS
<1>2. d \in Nat /\ m \in 0 .. p - 1 /\ a = d * p + m
  BY <1>1
<1> HIDE DEF d, m
<1>3. a - m = d * p /\ d * p \in Nat /\ d * p < q * p
  BY <1>1, <1>2
<1>4. d < q
  <2>1. ASSUME q <= d PROVE FALSE
    <3>1. q * p <= d * p
      BY <1>2, <2>1
    <3>2. QED
      BY <1>1, <1>3, <3>1
  <2>2. QED
    BY <1>2, <2>1
<1>5. d * p + p <= q * p
  <2>1. (d + 1) * p <= q * p
    BY <1>2, <1>4
  <2>2. (d + 1) * p = d * p + p
    BY <1>2
  <2>3. QED
    BY <2>1, <2>2
<1>6. (d * p) % p = 0
  BY <1>2, <1>3
<1>7. ASSUME NEW b \in Nat PROVE b \div p = d <=> d * p <= b /\ b <= d * p + p - 1
  <2> DEFINE e == b \div p
             n == b % p
  <2>1. e \in Nat /\ n \in 0 .. p - 1 /\ b = e * p + n
    OBVIOUS
  <2> HIDE DEF e, n
  <2>2. ASSUME e = d PROVE d * p <= b /\ b <= d * p + p - 1
    BY <1>3, <2>1, <2>2
  <2>3. ASSUME d * p <= b, b <= d * p + p - 1 PROVE e = d
    <3>1. ASSUME e < d PROVE FALSE
      <4>1. (e + 1) * p <= d * p /\ (e + 1) * p = e * p + p /\ e * p \in Nat
        BY <1>2, <2>1, <3>1
      <4>2. QED
        BY <1>3, <2>1, <2>3, <4>1
    <3>2. ASSUME d < e PROVE FALSE
      <4>1. (d + 1) * p <= e * p /\ (d + 1) * p = d * p + p /\ e * p \in Nat
        BY <1>2, <2>1, <3>2
      <4>2. QED
        BY <1>3, <2>1, <2>3, <4>1
    <3>3. QED
      BY <1>2, <2>1, <3>1, <3>2
  <2>4. QED
    BY <2>2, <2>3 DEF e
<1>8. /\ d * p \in 0 .. q * p - 1 /\ d * p + p - 1 \in 0 .. q * p - 1
  BY <1>1, <1>3, <1>5
<1>9. /\ a - m \in 0 .. q * p - 1 /\ a - m + p - 1 \in 0 .. q * p - 1 /\ (a - m) % p = 0
      /\ \A b \in Nat : b \div p = d <=> a - m <= b /\ b <= a - m + p - 1
  BY <1>3, <1>6, <1>7, <1>8
<1>10. QED
  BY <1>9 DEF d, m

\* The same in the operators of list entries.
LEMMA PrefixBlock ==
  ASSUME NEW len \in 0 .. Bits, NEW a \in Addresses
  PROVE  /\ Addresses \subseteq Nat /\ Pow2[Bits - len] \in Nat /\ Pow2[Bits - len] >= 1
         /\ Masked(a, len) \in Addresses /\ LastOf(Masked(a, len), len) \in Addresses
         /\ Masked(a, len) <= LastOf(Masked(a, len), len)
         /\ Masked(Masked(a, len), len) = Masked(a, len)
         /\ \A b \in Addresses : b \div Pow2[Bits - len] = a \div Pow2[Bits - len]
                                   <=> Masked(a, len) <= b /\ b <= LastOf(Masked(a, len), len)
<1> DEFINE p == Pow2[Bits - len]
<1>1. Bits - len \in 0 .. Bits
  BY PowersOfTwo
<1>2. p \in Nat /\ p >= 1
  BY <1>1, PowersOfTwo, Halves
<1>3. PICK q \in Nat : Pow2[Bits] = q * p
  BY Halves
<1>4. Masked(a, len) = a - (a % p) /\ \A c : LastOf(c, len) = c + p - 1 /\ Masked(c, len) = c - (c % p)
  BY DEF Masked, LastOf
<1>5. Addresses = 0 .. q * p - 1
  BY <1>3 DEF Addresses
<1> HIDE DEF p
<1> DEFINE lo == a - (a % p)
<1>6. /\ lo \in 0 .. q * p - 1 /\ lo + p - 1 \in 0 .. q * p - 1 /\ lo % p = 0
      /\ \A b \in Nat : b \div p = a \div p <=> lo <= b /\ b <= lo + p - 1
  BY <1>2, <1>5, BlockOf
<1>7. Addresses \subseteq Nat
  BY <1>5
<1>8. lo - (lo % p) = lo /\ lo <= lo + p - 1
  BY <1>2, <1>6
<1>9. Masked(a, len) = lo /\ LastOf(lo, len) = lo + p - 1 /\ Masked(lo, len) = lo
  BY <1>4, <1>8
<1> HIDE DEF lo
<1>10. /\ Masked(a, len) \in Addresses /\ LastOf(Masked(a, len), len) \in Addresses
       /\ Masked(a, len) <= LastOf(Masked(a, len), len)
       /\ Masked(Masked(a, len), len) = Masked(a, len)
       /\ \A b \in Addresses : b \div p = a \div p <=> Masked(a, len) <= b /\ b <= LastOf(Masked(a, len), len)
  BY <1>5, <1>6, <1>7, <1>8, <1>9
<1>11. QED
  BY <1>2, <1>7, <1>10 DEF p

\* An entry that was read.
GoodEntry(e) ==
    /\ e \in [lo : Addresses, hi : Addresses, port : 0 .. MaxPort, portTo : 0 .. MaxPort]
    /\ e.lo <= e.hi /\ e.port <= e.portTo /\ (e.port = 0 => e.portTo = 0)

LEMMA GoodIsThere ==
  ASSUME NEW e, GoodEntry(e)
  PROVE  e # NoEntry /\ Text(e) # NoText
<1>1. e # NoEntry
  BY DEF GoodEntry, NoEntry
<1>2. Text(e).form \in {"address", "prefix", "range"}
  BY DEF Text
<1>3. NoText.form = "none"
  BY DEF NoText
<1>4. QED
  BY <1>1, <1>2, <1>3

\* What was typed and can be read is an entry.
LEMMA TypedIsGood ==
  ASSUME NEW t \in Typed, ParseAddrEntry(t) # NoEntry
  PROVE  GoodEntry(ParseAddrEntry(t)) /\ t # NoText
<1> DEFINE Q == {<<>>} \cup {<<x>> : x \in 1 .. MaxPort} \cup ((1 .. MaxPort) \X (1 .. MaxPort))
<1>0. MaxPort \in Nat /\ Addresses \subseteq Nat
  BY EntryAssumption, PowersOfTwo DEF Addresses
<1>1. /\ t.form \in {"address", "prefix", "range"} /\ t.a \in Addresses /\ t.ports \in Q
      /\ t.b \in IF t.form = "prefix" THEN 0 .. Bits ELSE Addresses
  <2>1. PICK f \in {"address", "prefix", "range"} :
           t \in {[form |-> f, a |-> a, b |-> b, ports |-> p] :
                    a \in Addresses, b \in IF f = "prefix" THEN 0 .. Bits ELSE Addresses, p \in Q}
    BY DEF Typed
  <2> HIDE DEF Q
  <2>2. PICK a \in Addresses, b \in IF f = "prefix" THEN 0 .. Bits ELSE Addresses, p \in Q :
           t = [form |-> f, a |-> a, b |-> b, ports |-> p]
    BY <2>1
  <2>3. t.form = f /\ t.a = a /\ t.b = b /\ t.ports = p
    BY <2>2
  <2>4. QED
    BY <2>2, <2>3
<1>2. t # NoText
  BY <1>1 DEF NoText
<1> DEFINE r == ParseRange(t)
           p == ParsePorts(t.ports)
<1>3. r[1] \in Addresses /\ r[2] \in Addresses
  <2>1. CASE t.form = "address"
    BY <1>1, <2>1 DEF ParseRange
  <2>2. CASE t.form = "range"
    BY <1>1, <2>2 DEF ParseRange
  <2>3. CASE t.form = "prefix"
    <3>1. r = <<Masked(t.a, t.b), LastOf(Masked(t.a, t.b), t.b)>>
      BY <2>3 DEF ParseRange
    <3>2. t.a \in Addresses /\ t.b \in 0 .. Bits
      BY <1>1, <2>3
    <3> HIDE DEF r
    <3>3. QED
      BY <3>1, <3>2, PrefixBlock
  <2>4. QED
    BY <1>1, <2>1, <2>2, <2>3
<1>4. p[1] \in 0 .. MaxPort /\ p[2] \in 0 .. MaxPort /\ (p[1] = 0 => p[2] = 0)
  <2>1. CASE t.ports = <<>>
    BY <1>0, <2>1 DEF ParsePorts
  <2>2. CASE \E x \in 1 .. MaxPort : t.ports = <<x>>
    BY <1>0, <2>2 DEF ParsePorts
  <2>3. CASE \E x, y \in 1 .. MaxPort : t.ports = <<x, y>>
    <3>1. PICK x \in 1 .. MaxPort, y \in 1 .. MaxPort : t.ports = <<x, y>>
      BY <2>3
    <3>2. t.ports # <<>> /\ Len(t.ports) = 2 /\ t.ports[1] = x /\ t.ports[2] = y
      BY <3>1
    <3>3. QED
      BY <1>0, <3>1, <3>2 DEF ParsePorts
  <2>4. QED
    BY <1>1, <2>1, <2>2, <2>3
<1>5. ParseAddrEntry(t) = IF r[1] > r[2] \/ p[1] > p[2] THEN NoEntry
                          ELSE [lo |-> r[1], hi |-> r[2], port |-> p[1], portTo |-> p[2]]
  BY DEF ParseAddrEntry
<1> HIDE DEF r, p
<1>6. ~(r[1] > r[2]) /\ ~(p[1] > p[2]) /\ ParseAddrEntry(t) = [lo |-> r[1], hi |-> r[2], port |-> p[1], portTo |-> p[2]]
  BY <1>5
<1> DEFINE e == [lo |-> r[1], hi |-> r[2], port |-> p[1], portTo |-> p[2]]
<1>7. GoodEntry(e)
  <2>1. e.lo = r[1] /\ e.hi = r[2] /\ e.port = p[1] /\ e.portTo = p[2]
    OBVIOUS
  <2>2. e \in [lo : Addresses, hi : Addresses, port : 0 .. MaxPort, portTo : 0 .. MaxPort]
    BY <1>3, <1>4
  <2>3. r[1] <= r[2] /\ p[1] <= p[2]
    <3>1. r[1] \in Nat /\ r[2] \in Nat
      BY <1>0, <1>3
    <3>2. p[1] \in Nat /\ p[2] \in Nat
      BY <1>0, <1>4
    <3>3. QED
      BY <1>6, <3>1, <3>2
  <2> HIDE DEF e
  <2>4. QED
    BY <1>4, <2>1, <2>2, <2>3 DEF GoodEntry
<1>8. QED
  BY <1>2, <1>6, <1>7

\* The text of an entry is read as that entry.
LEMMA TextParses ==
  ASSUME NEW e, GoodEntry(e)
  PROVE  ParseAddrEntry(Text(e)) = e
<1> DEFINE t == Text(e)
           L == PrefixLen(e.lo, e.hi)
<1>0. /\ e = [lo |-> e.lo, hi |-> e.hi, port |-> e.port, portTo |-> e.portTo]
      /\ e.lo \in Nat /\ e.hi \in Nat /\ e.port \in Nat /\ e.portTo \in Nat
      /\ e.lo <= e.hi /\ e.port <= e.portTo /\ (e.port = 0 => e.portTo = 0)
  BY EntryAssumption, PowersOfTwo DEF GoodEntry, Addresses
<1>1. /\ t.form = (IF e.lo = e.hi THEN "address" ELSE IF L # {} THEN "prefix" ELSE "range")
      /\ t.a = e.lo
      /\ t.b = (IF e.lo = e.hi THEN 0 ELSE IF L # {} THEN Shortest(L) ELSE e.hi)
      /\ t.ports = (IF e.port = 0 THEN <<>> ELSE IF e.port = e.portTo THEN <<e.port>> ELSE <<e.port, e.portTo>>)
  BY DEF Text
<1>2. ASSUME L # {} PROVE Shortest(L) \in L
  <2>1. L \in SUBSET Nat
    BY PowersOfTwo DEF PrefixLen
  <2> HIDE DEF L
  <2>2. PICK l \in L : \A m \in L : l <= m
    BY <1>2, <2>1, LeastOf
  <2>3. QED
    BY <2>2 DEF Shortest
<1>3. \A l \in L : Masked(e.lo, l) = e.lo /\ LastOf(e.lo, l) = e.hi
  BY DEF PrefixLen
<1> HIDE DEF t, L
<1>4. ParseRange(t) = <<e.lo, e.hi>>
  <2>1. CASE e.lo = e.hi
    BY <1>1, <2>1 DEF ParseRange
  <2>2. CASE e.lo # e.hi /\ L # {}
    <3>1. t.form = "prefix" /\ t.b \in L
      BY <1>1, <1>2, <2>2
    <3>2. ParseRange(t) = <<Masked(t.a, t.b), LastOf(Masked(t.a, t.b), t.b)>>
      BY <3>1 DEF ParseRange
    <3>3. QED
      BY <1>1, <1>3, <3>1, <3>2
  <2>3. CASE e.lo # e.hi /\ L = {}
    BY <1>1, <2>3 DEF ParseRange
  <2>4. QED
    BY <2>1, <2>2, <2>3
<1>5. ParsePorts(t.ports) = <<e.port, e.portTo>>
  <2>1. CASE e.port = 0
    BY <1>0, <1>1, <2>1 DEF ParsePorts
  <2>2. CASE e.port # 0 /\ e.port = e.portTo
    BY <1>1, <2>2 DEF ParsePorts
  <2>3. CASE e.port # 0 /\ e.port # e.portTo
    <3>1. t.ports = <<e.port, e.portTo>>
      BY <1>1, <2>3
    <3>2. t.ports # <<>> /\ Len(t.ports) = 2 /\ t.ports[1] = e.port /\ t.ports[2] = e.portTo
      BY <3>1
    <3>3. QED
      BY <3>2 DEF ParsePorts
  <2>4. QED
    BY <2>1, <2>2, <2>3
<1>6. ParseAddrEntry(t) = [lo |-> e.lo, hi |-> e.hi, port |-> e.port, portTo |-> e.portTo]
  <2>1. ~(e.lo > e.hi) /\ ~(e.port > e.portTo)
    BY <1>0
  <2>2. QED
    BY <1>4, <1>5, <2>1 DEF ParseAddrEntry
<1>7. ParseAddrEntry(t) = e
  BY <1>0, <1>6
<1>8. QED
  BY <1>7 DEF t

\* An entry of several addresses has a prefix length exactly when its
\* addresses are those that share leading bits.
LEMMA PrefixIsBlock ==
  ASSUME NEW e, GoodEntry(e)
  PROVE  PrefixLen(e.lo, e.hi) # {} <=>
           \E len \in 0 .. Bits :
              {a \in Addresses : InEntry(e, a, e.port)} =
              {a \in Addresses : a \div Pow2[Bits - len] = e.lo \div Pow2[Bits - len]}
<1>0. /\ e.lo \in Addresses /\ e.hi \in Addresses /\ Addresses \subseteq Nat
      /\ e.lo <= e.hi /\ e.port \in Nat /\ e.port <= e.portTo
  BY EntryAssumption, PowersOfTwo DEF GoodEntry, Addresses
<1>1. {a \in Addresses : InEntry(e, a, e.port)} = {a \in Addresses : e.lo <= a /\ a <= e.hi}
  BY <1>0 DEF InEntry
<1>2. ASSUME NEW len \in 0 .. Bits
      PROVE  len \in PrefixLen(e.lo, e.hi) <=>
             {a \in Addresses : e.lo <= a /\ a <= e.hi} =
             {a \in Addresses : a \div Pow2[Bits - len] = e.lo \div Pow2[Bits - len]}
  <2> DEFINE lo == Masked(e.lo, len)
             hi == LastOf(Masked(e.lo, len), len)
             B == {a \in Addresses : a \div Pow2[Bits - len] = e.lo \div Pow2[Bits - len]}
  <2>1. lo \in Addresses /\ hi \in Addresses /\ lo <= hi
    BY <1>0, PrefixBlock
  <2>2. B = {a \in Addresses : lo <= a /\ a <= hi}
    BY <1>0, PrefixBlock
  <2>3. len \in PrefixLen(e.lo, e.hi) <=> lo = e.lo /\ hi = e.hi
    BY DEF PrefixLen
  <2> HIDE DEF lo, hi, B
  <2>4. lo \in Nat /\ hi \in Nat /\ e.lo \in Nat /\ e.hi \in Nat
    BY <1>0, <2>1
  <2>5. ASSUME {a \in Addresses : e.lo <= a /\ a <= e.hi} = {a \in Addresses : lo <= a /\ a <= hi}
        PROVE  lo = e.lo /\ hi = e.hi
    <3>1. lo <= e.lo /\ e.lo <= lo
      <4>1. e.lo \in {a \in Addresses : lo <= a /\ a <= hi} /\ lo \in {a \in Addresses : e.lo <= a /\ a <= e.hi}
        BY <1>0, <2>1, <2>4, <2>5
      <4>2. QED
        BY <4>1
    <3>2. hi <= e.hi /\ e.hi <= hi
      <4>1. e.hi \in {a \in Addresses : lo <= a /\ a <= hi} /\ hi \in {a \in Addresses : e.lo <= a /\ a <= e.hi}
        BY <1>0, <2>1, <2>4, <2>5
      <4>2. QED
        BY <4>1
    <3>3. QED
      BY <2>4, <3>1, <3>2
  <2>6. QED
    BY <2>2, <2>3, <2>5 DEF B
<1>3. PrefixLen(e.lo, e.hi) \subseteq 0 .. Bits
  BY DEF PrefixLen
<1>4. QED
  BY <1>1, <1>2, <1>3

EntryIInv ==
    \/ entry = NoEntry /\ entryText \in Typed
    \/ GoodEntry(entry) /\ (entryText = NoText \/ entryText = Text(entry))

LEMMA EntryStep ==
  ASSUME EntryIInv, [EntryNext]_entryVars
  PROVE  EntryIInv'
<1>1. CASE UNCHANGED entryVars
  BY <1>1 DEF EntryIInv, entryVars, GoodEntry, Text
<1>2. CASE LoadEntry
  <2>1. /\ ParseAddrEntry(entryText) # NoEntry /\ entryText # NoText
        /\ entry' = ParseAddrEntry(entryText) /\ entryText' = NoText
    BY <1>2 DEF LoadEntry
  <2>2. GoodEntry(ParseAddrEntry(entryText))
    BY <2>1, TypedIsGood, TextParses DEF EntryIInv
  <2>3. GoodEntry(entry)'
    BY <2>1, <2>2 DEF GoodEntry
  <2>4. QED
    BY <2>1, <2>3 DEF EntryIInv
<1>3. CASE StoreEntry
  <2>1. entryText = NoText /\ entryText' = Text(entry) /\ entry' = entry
    BY <1>3 DEF StoreEntry
  <2>2. GoodEntry(entry)
    <3>1. \A t \in Typed : t # NoText
      BY DEF Typed, NoText
    <3>2. QED
      BY <2>1, <3>1 DEF EntryIInv
  <2>3. GoodEntry(entry)' /\ entryText' = Text(entry)'
    BY <2>1, <2>2 DEF GoodEntry, Text
  <2>4. QED
    BY <2>3 DEF EntryIInv
<1>4. QED
  BY <1>1, <1>2, <1>3 DEF EntryNext

LEMMA EntryImplies ==
  ASSUME EntryIInv
  PROVE  RoundTrip /\ PrefixIsExact
<1>1. CASE entry = NoEntry \/ entryText = NoText
  BY <1>1 DEF RoundTrip, PrefixIsExact
<1>2. CASE GoodEntry(entry) /\ entryText = Text(entry)
  <2>1. RoundTrip
    BY <1>2, TextParses DEF RoundTrip
  <2>2. entry.lo # entry.hi => ((entryText.form = "prefix") <=> PrefixLen(entry.lo, entry.hi) # {})
    BY <1>2 DEF Text
  <2>3. PrefixIsExact
    BY <1>2, <2>2, PrefixIsBlock DEF PrefixIsExact
  <2>4. QED
    BY <2>1, <2>3
<1>3. QED
  BY <1>1, <1>2 DEF EntryIInv

\* What is stored of a list entry is read as that entry again, however it was
\* written and however often it is copied, and it is stored as a prefix
\* exactly when it is one (RoundTrip, PrefixIsExact): for addresses of any
\* width and any number of ports.
THEOREM EntrySound == EntrySpec => [](RoundTrip /\ PrefixIsExact)
<1>1. EntryInit => EntryIInv
  BY DEF EntryInit, EntryIInv
<1>2. EntryIInv /\ [EntryNext]_entryVars => EntryIInv'
  BY EntryStep
<1>3. EntryIInv => RoundTrip /\ PrefixIsExact
  BY EntryImplies
<1>4. QED
  BY <1>1, <1>2, <1>3, PTL DEF EntrySpec
-----------------------------------------------------------------------------
(***************************************************************************)
(* DnsMap.  Every name in the map outlives the last search, so a map that  *)
(* is full within FullScan of it is full of names that are alive or were   *)
(* a moment ago.                                                           *)
(***************************************************************************)
MapRecord == [m : [DnsKeys -> Seq(NameEntry)], count : [DnsPeers -> Nat], scanned : Nat, dropped : BOOLEAN]
HeldOf(mp, p) == {a \in DnsAddrs : mp.m[<<p, a>>] # <<>>}
AllAfter(es, t) == \A i \in 1 .. Len(es) : es[i].until > t

MapOk(mp, now) ==
    /\ \A k \in DnsKeys : Len(mp.m[k]) <= MaxNames /\ AllAfter(mp.m[k], mp.scanned)
    /\ \A p \in DnsPeers : mp.count[p] = Cardinality(HeldOf(mp, p)) /\ mp.count[p] <= PerPeer
    /\ Cardinality(Held(mp)) <= MapMax
    /\ mp.scanned <= now
    /\ mp.dropped => now < mp.scanned + FullScan

OkMaps(now) == {mp \in MapRecord : MapOk(mp, now)}

LEMMA DnsFacts ==
  /\ MapMax \in Nat /\ PerPeer \in Nat /\ MaxNames \in Nat /\ MaxNames >= 1
  /\ FullScan \in Nat /\ FullScan >= 1 /\ LastTime \in Nat /\ FullScan <= LastTime
  /\ IsFiniteSet(DnsPeers) /\ IsFiniteSet(DnsAddrs) /\ IsFiniteSet(DnsKeys)
  /\ \A l \in Lives : l \in Nat /\ l >= 1
<1>1. IsFiniteSet(DnsKeys)
  BY DnsAssumption, FS_Product DEF DnsKeys
<1>2. QED
  BY <1>1, DnsAssumption

\* What a search keeps.
LEMMA AliveFacts ==
  ASSUME NEW es \in Seq(NameEntry), NEW now \in Nat
  PROVE  /\ Alive(es, now) \in Seq(NameEntry) /\ Len(Alive(es, now)) <= Len(es)
         /\ AllAfter(Alive(es, now), now)
<1> DEFINE n == Len(es)
           M == {q \in Seq(NameEntry) : AllAfter(q, now)}
           Step(i, q) == IF now < es[i].until THEN Append(q, es[i]) ELSE q
           H == [z \in (1 .. n) \X M |-> Step(z[1], z[2])]
<1>1. n \in Nat /\ \A i \in 1 .. n : es[i] \in NameEntry /\ es[i].until \in Nat
  <2>1. n \in Nat /\ \A i \in 1 .. n : es[i] \in NameEntry
    OBVIOUS
  <2>2. \A e \in NameEntry : e.until \in Nat
    BY DEF NameEntry
  <2>3. QED
    BY <2>1, <2>2
<1>2. <<>> \in M
  BY DEF AllAfter
<1>3. ASSUME NEW i \in 1 .. n, NEW q \in M PROVE Step(i, q) \in M /\ Len(Step(i, q)) <= Len(q) + 1
  <2>1. q \in Seq(NameEntry) /\ AllAfter(q, now) /\ Len(q) \in Nat
    OBVIOUS
  <2>2. CASE now < es[i].until
    <3>1. Append(q, es[i]) \in Seq(NameEntry) /\ Len(Append(q, es[i])) = Len(q) + 1
      BY <1>1, <2>1
    <3>2. AllAfter(Append(q, es[i]), now)
      BY <1>1, <2>1, <2>2 DEF AllAfter
    <3>3. QED
      BY <2>2, <3>1, <3>2
  <2>3. CASE ~(now < es[i].until)
    BY <2>1, <2>3
  <2>4. QED
    BY <2>2, <2>3
<1>4. H \in [(1 .. n) \X M -> M] /\ \A i \in 1 .. n, q \in M : H[<<i, q>>] = Step(i, q)
  <2> HIDE DEF M, Step
  <2>1. QED
    BY <1>3
<1> HIDE DEF n, M, H
<1>5. HasIterate(n, M, <<>>, H)
  BY <1>1, <1>2, <1>4, Iterates
<1>6. PICK f \in [0 .. n -> M] : f[0] = <<>> /\ \A i \in 1 .. n : f[i] = H[<<i, f[i - 1]>>]
  BY <1>5 DEF HasIterate
<1>7. ASSUME NEW i \in 1 .. n PROVE f[i - 1] \in M /\ f[i] = Step(i, f[i - 1])
  <2>1. f[i - 1] \in M
    BY <1>1
  <2>2. QED
    BY <1>4, <1>6, <2>1
<1> DEFINE Solves(g) == g = [i \in 0 .. n |-> IF i = 0 THEN <<>> ELSE Step(i, g[i - 1])]
<1>8. Solves(f)
  <2> HIDE DEF Step
  <2>1. QED
    BY <1>1, <1>6, <1>7
<1>9. Alive(es, now) = (CHOOSE g : Solves(g))[n]
  BY DEF Alive, n
<1> DEFINE g == CHOOSE g : Solves(g)
<1>10. Solves(g)
  <2> HIDE DEF Solves
  <2>1. QED
    BY <1>8
<1> HIDE DEF g
<1>11. g[0] = <<>> /\ \A i \in 1 .. n : g[i] = Step(i, g[i - 1])
  <2> HIDE DEF Step
  <2>1. QED
    BY <1>1, <1>10
<1> HIDE DEF Step, Solves
<1> DEFINE G == {k \in Nat : k <= n => g[k] \in M /\ Len(g[k]) <= k}
<1>12. 0 \in G
  BY <1>2, <1>11
<1>13. ASSUME NEW k \in Nat, k \in G PROVE k + 1 \in G
  <2>1. SUFFICES ASSUME k + 1 <= n PROVE g[k + 1] \in M /\ Len(g[k + 1]) <= k + 1
    OBVIOUS
  <2>2. k + 1 \in 1 .. n /\ (k + 1) - 1 = k /\ k <= n
    BY <1>1, <2>1
  <2>3. g[k] \in M /\ Len(g[k]) <= k /\ g[k + 1] = Step(k + 1, g[k])
    BY <1>11, <1>13, <2>2
  <2>4. Step(k + 1, g[k]) \in M /\ Len(Step(k + 1, g[k])) <= Len(g[k]) + 1
    BY <1>3, <2>2, <2>3
  <2>5. Len(g[k]) \in Nat /\ Len(g[k + 1]) \in Nat
    BY <2>3, <2>4 DEF M
  <2>6. QED
    BY <2>3, <2>4, <2>5
<1> HIDE DEF G
<1>14. n \in G
  BY <1>1, <1>12, <1>13, NumbersAll
<1>15. g[n] \in M /\ Len(g[n]) <= n
  BY <1>1, <1>14 DEF G
<1>16. Alive(es, now) = g[n]
  BY <1>9 DEF g
<1>17. QED
  BY <1>15, <1>16 DEF M, n

\* The names of one address with one more.
LEMMA NamedFacts ==
  ASSUME NEW es \in Seq(NameEntry), Len(es) <= MaxNames, NEW name \in DnsNames, NEW until \in Nat,
         NEW t \in Nat, until > t, AllAfter(es, t)
  PROVE  LET new == Named(es, name, until) IN
         new \in Seq(NameEntry) /\ Len(new) <= MaxNames /\ new # <<>> /\ AllAfter(new, t)
<1>0. /\ Len(es) \in Nat /\ DOMAIN es = 1 .. Len(es) /\ MaxNames \in Nat /\ MaxNames >= 1
      /\ \A i \in 1 .. Len(es) : es[i] \in NameEntry
  BY DnsFacts
<1>1. CASE \E i \in DOMAIN es : es[i].name = name
  <2> DEFINE Put(i) == IF es[i].name = name THEN [es[i] EXCEPT !.until = until] ELSE es[i]
             new == [i \in 1 .. Len(es) |-> Put(i)]
  <2>1. Named(es, name, until) = new
    BY <1>0, <1>1 DEF Named
  <2>2. ASSUME NEW i \in 1 .. Len(es) PROVE Put(i) \in NameEntry /\ Put(i).until > t
    <3>1. es[i] \in NameEntry /\ es[i].until > t
      BY <1>0 DEF AllAfter
    <3>2. QED
      BY <3>1 DEF NameEntry
  <2> HIDE DEF Put
  <2>3. new \in Seq(NameEntry) /\ Len(new) = Len(es) /\ \A i \in 1 .. Len(es) : new[i] = Put(i)
    BY <1>0, <2>2
  <2>4. Len(es) >= 1
    BY <1>0, <1>1
  <2> HIDE DEF new
  <2>5. new # <<>> /\ AllAfter(new, t) /\ Len(new) <= MaxNames
    BY <1>0, <2>2, <2>3, <2>4 DEF AllAfter
  <2>6. QED
    BY <2>1, <2>3, <2>5
<1>2. CASE ~\E i \in DOMAIN es : es[i].name = name
  <2> DEFINE kept == IF Len(es) >= MaxNames THEN Tail(es) ELSE es
             e == [name |-> name, until |-> until]
  <2>1. Named(es, name, until) = Append(kept, e)
    BY <1>2 DEF Named
  <2>2. e \in NameEntry /\ e.until = until
    BY DEF NameEntry
  <2>3. kept \in Seq(NameEntry) /\ Len(kept) \in Nat /\ Len(kept) + 1 <= MaxNames /\ AllAfter(kept, t)
    <3>1. CASE Len(es) >= MaxNames
      <4>1. es # <<>> /\ kept = Tail(es)
        BY <1>0, <3>1
      <4> HIDE DEF kept
      <4>2. kept \in Seq(NameEntry) /\ Len(kept) = Len(es) - 1 /\ \A i \in 1 .. Len(kept) : kept[i] = es[i + 1]
        BY <4>1, HeadTailProperties
      <4>3. AllAfter(kept, t)
        BY <1>0, <4>2 DEF AllAfter
      <4>4. QED
        BY <1>0, <4>2, <4>3
    <3>2. CASE ~(Len(es) >= MaxNames)
      BY <1>0, <3>2
    <3>3. QED
      BY <3>1, <3>2
  <2> HIDE DEF kept, e
  <2>4. Append(kept, e) \in Seq(NameEntry) /\ Len(Append(kept, e)) = Len(kept) + 1
    BY <2>2, <2>3
  <2>5. AllAfter(Append(kept, e), t)
    BY <2>2, <2>3 DEF AllAfter
  <2>6. Append(kept, e) # <<>>
    BY <2>3, <2>4
  <2>7. QED
    BY <2>1, <2>3, <2>4, <2>5, <2>6
<1>3. QED
  BY <1>1, <1>2

LEMMA HeldFinite ==
  ASSUME NEW mp
  PROVE  /\ IsFiniteSet(Held(mp)) /\ Cardinality(Held(mp)) \in Nat
         /\ \A p \in DnsPeers : IsFiniteSet(HeldOf(mp, p)) /\ Cardinality(HeldOf(mp, p)) \in Nat
<1>1. Held(mp) \subseteq DnsKeys /\ \A p \in DnsPeers : HeldOf(mp, p) \subseteq DnsAddrs
  BY DEF Held, HeldOf
<1>2. QED
  BY <1>1, DnsFacts, FS_Subset, FS_CardinalityType

\* A search leaves a map in order, whatever it finds.
LEMMA ExpireOk ==
  ASSUME NEW now \in Nat, NEW mp \in MapRecord,
         \A k \in DnsKeys : Len(mp.m[k]) <= MaxNames,
         \A p \in DnsPeers : mp.count[p] = Cardinality(HeldOf(mp, p)) /\ mp.count[p] <= PerPeer,
         Cardinality(Held(mp)) <= MapMax, mp.scanned <= now, mp.dropped => now < mp.scanned + FullScan
  PROVE  LET new == ExpireLocked(mp, now) IN
         /\ new \in OkMaps(now) /\ new.scanned = mp.scanned
         /\ \A k \in DnsKeys : mp.m[k] = <<>> => new.m[k] = <<>>
<1> DEFINE left == [k \in DnsKeys |-> Alive(mp.m[k], now)]
           Gone(p) == {a \in DnsAddrs : mp.m[<<p, a>>] # <<>> /\ left[<<p, a>>] = <<>>}
           cnt == [p \in DnsPeers |-> mp.count[p] - Cardinality(Gone(p))]
           new == [mp EXCEPT !.m = left, !.count = cnt]
<1>1. ExpireLocked(mp, now) = new
  BY DEF ExpireLocked
<1>2. /\ mp.m \in [DnsKeys -> Seq(NameEntry)] /\ mp.count \in [DnsPeers -> Nat]
      /\ mp.scanned \in Nat /\ mp.dropped \in BOOLEAN
  BY DEF MapRecord
<1>3. ASSUME NEW k \in DnsKeys
      PROVE  /\ left[k] \in Seq(NameEntry) /\ Len(left[k]) <= MaxNames /\ AllAfter(left[k], mp.scanned)
             /\ mp.m[k] = <<>> => left[k] = <<>>
  <2> DEFINE al == Alive(mp.m[k], now)
  <2>1. mp.m[k] \in Seq(NameEntry) /\ Len(mp.m[k]) \in Nat /\ Len(mp.m[k]) <= MaxNames /\ left[k] = al
    BY <1>2
  <2>2. al \in Seq(NameEntry) /\ Len(al) <= Len(mp.m[k]) /\ AllAfter(al, now)
    BY <2>1, AliveFacts
  <2> HIDE DEF al, left
  <2>3. Len(al) \in Nat /\ Len(al) <= MaxNames
    BY <2>1, <2>2, DnsFacts
  <2>4. AllAfter(al, mp.scanned)
    <3>1. \A i \in 1 .. Len(al) : al[i] \in NameEntry /\ al[i].until > now
      BY <2>2 DEF AllAfter
    <3>2. \A e \in NameEntry : e.until \in Nat
      BY DEF NameEntry
    <3>3. \A i \in 1 .. Len(al) : al[i].until > mp.scanned
      BY <1>2, <3>1, <3>2
    <3>4. QED
      BY <3>3 DEF AllAfter
  <2>5. mp.m[k] = <<>> => al = <<>>
    BY <2>2, <2>3
  <2>6. QED
    BY <2>1, <2>2, <2>3, <2>4, <2>5
<1>4. left \in [DnsKeys -> Seq(NameEntry)]
  BY <1>3
<1> HIDE DEF left
<1>5. ASSUME NEW p \in DnsPeers
      PROVE  cnt[p] \in Nat /\ cnt[p] <= PerPeer /\ cnt[p] = Cardinality({a \in DnsAddrs : left[<<p, a>>] # <<>>})
  <2> DEFINE O == HeldOf(mp, p)
             N == {a \in DnsAddrs : left[<<p, a>>] # <<>>}
  <2>1. \A a \in DnsAddrs : <<p, a>> \in DnsKeys
    BY DEF DnsKeys
  <2>2. N = O \ Gone(p) /\ Gone(p) = O \cap Gone(p)
    BY <1>3, <2>1 DEF HeldOf
  <2>3. IsFiniteSet(O) /\ Cardinality(O) \in Nat
    BY HeldFinite
  <2>4. mp.count[p] = Cardinality(O) /\ mp.count[p] <= PerPeer /\ PerPeer \in Nat
    BY DnsFacts
  <2>5. cnt[p] = mp.count[p] - Cardinality(Gone(p))
    OBVIOUS
  <2>6. N \subseteq DnsAddrs /\ Gone(p) \subseteq DnsAddrs
    OBVIOUS
  <2> HIDE DEF O, N, Gone, cnt
  <2>7. Cardinality(N) \in Nat /\ Cardinality(Gone(p)) \in Nat
    BY <2>6, DnsFacts, FS_Subset, FS_CardinalityType
  <2>8. Cardinality(O \ Gone(p)) = Cardinality(O) - Cardinality(O \cap Gone(p))
    BY <2>3, FS_Difference
  <2>9. Cardinality(N) = Cardinality(O) - Cardinality(Gone(p))
    BY <2>2, <2>8
  <2>10. cnt[p] \in Nat /\ cnt[p] <= PerPeer /\ cnt[p] = Cardinality(N)
    BY <2>3, <2>4, <2>5, <2>7, <2>9
  <2>11. QED
    BY <2>10 DEF N
<1>6. cnt \in [DnsPeers -> Nat]
  BY <1>5
<1> HIDE DEF cnt
<1>7. /\ new \in MapRecord /\ new.m = left /\ new.count = cnt /\ new.scanned = mp.scanned /\ new.dropped = mp.dropped
  BY <1>4, <1>6 DEF MapRecord
<1> HIDE DEF new
<1>8. Cardinality(Held(new)) <= MapMax
  <2>1. Held(new) \subseteq Held(mp)
    BY <1>3, <1>7 DEF Held
  <2>2. Cardinality(Held(new)) <= Cardinality(Held(mp))
    BY <2>1, HeldFinite, FS_Subset
  <2>3. QED
    BY <2>2, HeldFinite, DnsFacts
<1>9. MapOk(new, now)
  BY <1>3, <1>5, <1>7, <1>8 DEF MapOk, HeldOf
<1>10. QED
  BY <1>1, <1>3, <1>7, <1>9 DEF OkMaps

\* The search of a full map leaves it in order, and not searched for longer
\* than FullScan if it is still full.
LEMMA MakeRoomOk ==
  ASSUME NEW now \in Nat, NEW mp \in OkMaps(now), NEW p \in DnsPeers
  PROVE  LET room == MakeRoom(mp, p, now) IN
         /\ room \in OkMaps(now)
         /\ \A k \in DnsKeys : mp.m[k] = <<>> => room.m[k] = <<>>
         /\ MapIsFull(room, p) => now < room.scanned + FullScan
<1>0. mp \in MapRecord /\ MapOk(mp, now) /\ mp.scanned \in Nat /\ FullScan \in Nat /\ FullScan >= 1
  BY DnsFacts DEF OkMaps, MapRecord
<1>1. CASE MapIsFull(mp, p) /\ now - mp.scanned >= FullScan
  <2> DEFINE at == [mp EXCEPT !.scanned = now]
             new == ExpireLocked(at, now)
  <2>1. MakeRoom(mp, p, now) = new
    BY <1>1 DEF MakeRoom
  <2>2. /\ at \in MapRecord /\ at.m = mp.m /\ at.count = mp.count /\ at.scanned = now /\ at.dropped = mp.dropped
    BY <1>0 DEF MapRecord
  <2> HIDE DEF at
  <2>3. Held(at) = Held(mp) /\ \A q \in DnsPeers : HeldOf(at, q) = HeldOf(mp, q)
    BY <2>2 DEF Held, HeldOf
  <2>4. /\ \A k \in DnsKeys : Len(at.m[k]) <= MaxNames
        /\ \A q \in DnsPeers : at.count[q] = Cardinality(HeldOf(at, q)) /\ at.count[q] <= PerPeer
        /\ Cardinality(Held(at)) <= MapMax
    BY <1>0, <2>2, <2>3 DEF MapOk
  <2>5. at.scanned <= now /\ now < at.scanned + FullScan
    BY <1>0, <2>2
  <2>6. new \in OkMaps(now) /\ new.scanned = at.scanned /\ \A k \in DnsKeys : at.m[k] = <<>> => new.m[k] = <<>>
    BY <2>2, <2>4, <2>5, ExpireOk
  <2> HIDE DEF new
  <2>7. QED
    BY <2>1, <2>2, <2>5, <2>6
<1>2. CASE ~(MapIsFull(mp, p) /\ now - mp.scanned >= FullScan)
  <2>1. MakeRoom(mp, p, now) = mp
    BY <1>2 DEF MakeRoom
  <2>2. MapIsFull(mp, p) => now < mp.scanned + FullScan
    BY <1>0, <1>2
  <2>3. QED
    BY <2>1, <2>2
<1>3. QED
  BY <1>1, <1>2

\* One address of an answer.
LEMMA LearnOneOk ==
  ASSUME NEW now \in Nat, NEW mp \in OkMaps(now), NEW p \in DnsPeers, NEW a \in DnsAddrs,
         NEW name \in DnsNames, NEW until \in Nat, until > now
  PROVE  LearnOne(mp, p, a, name, until, now) \in OkMaps(now)
<1> DEFINE k == <<p, a>>
           room == IF mp.m[k] = <<>> THEN MakeRoom(mp, p, now) ELSE mp
           known == room.m[k] # <<>>
<1>k. k \in DnsKeys
  BY DEF DnsKeys
<1>1. /\ room \in OkMaps(now)
      /\ ~known /\ MapIsFull(room, p) => now < room.scanned + FullScan
  <2>1. CASE mp.m[k] = <<>>
    BY <2>1, MakeRoomOk
  <2>2. CASE mp.m[k] # <<>>
    BY <2>2
  <2>3. QED
    BY <2>1, <2>2
<1>2. LearnOne(mp, p, a, name, until, now) =
        IF ~known /\ MapIsFull(room, p) THEN [room EXCEPT !.dropped = TRUE]
        ELSE [room EXCEPT !.m[k] = Named(@, name, until), !.count[p] = IF known THEN @ ELSE @ + 1]
  BY DEF LearnOne
<1> HIDE DEF room
<1>3. /\ room \in MapRecord /\ MapOk(room, now)
      /\ room.m \in [DnsKeys -> Seq(NameEntry)] /\ room.count \in [DnsPeers -> Nat]
      /\ room.scanned \in Nat /\ room.dropped \in BOOLEAN
  BY <1>1 DEF OkMaps, MapRecord
<1>4. CASE ~known /\ MapIsFull(room, p)
  <2> DEFINE new == [room EXCEPT !.dropped = TRUE]
  <2>1. /\ new \in MapRecord /\ new.m = room.m /\ new.count = room.count /\ new.scanned = room.scanned
        /\ LearnOne(mp, p, a, name, until, now) = new
    BY <1>2, <1>3, <1>4 DEF MapRecord
  <2> HIDE DEF new
  <2>2. Held(new) = Held(room) /\ \A q \in DnsPeers : HeldOf(new, q) = HeldOf(room, q)
    BY <2>1 DEF Held, HeldOf
  <2>3. MapOk(new, now)
    BY <1>1, <1>3, <1>4, <2>1, <2>2 DEF MapOk
  <2>4. QED
    BY <2>1, <2>3 DEF OkMaps
<1>5. CASE ~(~known /\ MapIsFull(room, p))
  <2> DEFINE es == Named(room.m[k], name, until)
             m2 == [room.m EXCEPT ![k] = es]
             c2 == [room.count EXCEPT ![p] = IF known THEN @ ELSE @ + 1]
             new == [room EXCEPT !.m = m2, !.count = c2]
  <2>1. LearnOne(mp, p, a, name, until, now) = new
    BY <1>2, <1>5
  <2>2. es \in Seq(NameEntry) /\ Len(es) <= MaxNames /\ es # <<>> /\ AllAfter(es, room.scanned)
    <3>1. /\ room.m[k] \in Seq(NameEntry) /\ Len(room.m[k]) <= MaxNames /\ AllAfter(room.m[k], room.scanned)
          /\ room.scanned <= now
      BY <1>3, <1>k DEF MapOk
    <3>2. until > room.scanned
      BY <1>3, <3>1
    <3>3. QED
      BY <1>3, <3>1, <3>2, NamedFacts
  <2> HIDE DEF es
  <2>3. /\ m2 \in [DnsKeys -> Seq(NameEntry)] /\ m2[k] = es /\ \A j \in DnsKeys : j # k => m2[j] = room.m[j]
    BY <1>3, <1>k, <2>2
  <2>4. /\ c2 \in [DnsPeers -> Nat] /\ c2[p] = (IF known THEN room.count[p] ELSE room.count[p] + 1)
        /\ \A q \in DnsPeers : q # p => c2[q] = room.count[q]
    BY <1>3
  <2> HIDE DEF m2, c2
  <2>5. /\ new \in MapRecord /\ new.m = m2 /\ new.count = c2 /\ new.scanned = room.scanned /\ new.dropped = room.dropped
    BY <1>3, <2>3, <2>4 DEF MapRecord
  <2> HIDE DEF new
  <2>6. Held(new) = Held(room) \cup {k} /\ (k \in Held(room) <=> known)
    BY <1>k, <2>2, <2>3, <2>5 DEF Held
  <2>7. /\ HeldOf(new, p) = HeldOf(room, p) \cup {a} /\ (a \in HeldOf(room, p) <=> known)
        /\ \A q \in DnsPeers : q # p => HeldOf(new, q) = HeldOf(room, q)
    <3>1. \A q \in DnsPeers, b \in DnsAddrs : <<q, b>> \in DnsKeys /\ (<<q, b>> = k <=> q = p /\ b = a)
      BY DEF DnsKeys
    <3> HIDE DEF k
    <3>2. HeldOf(new, p) = HeldOf(room, p) \cup {a}
      BY <2>2, <2>3, <2>5, <3>1 DEF HeldOf
    <3>3. a \in HeldOf(room, p) <=> known
      BY DEF HeldOf, k
    <3>4. \A q \in DnsPeers : q # p => HeldOf(new, q) = HeldOf(room, q)
      BY <2>3, <2>5, <3>1 DEF HeldOf
    <3>5. QED
      BY <3>2, <3>3, <3>4
  <2> HIDE DEF known
  <2>8. ~known => Cardinality(Held(room)) < MapMax /\ room.count[p] < PerPeer
    BY <1>3, <1>5, HeldFinite, DnsFacts DEF MapIsFull
  <2>9. Cardinality(Held(new)) <= MapMax
    <3>1. Cardinality(Held(new)) = IF known THEN Cardinality(Held(room)) ELSE Cardinality(Held(room)) + 1
      BY <2>6, HeldFinite, FS_AddElement
    <3>2. Cardinality(Held(room)) <= MapMax
      BY <1>3 DEF MapOk
    <3>3. QED
      BY <2>8, <3>1, <3>2, HeldFinite, DnsFacts
  <2>10. ASSUME NEW q \in DnsPeers PROVE new.count[q] = Cardinality(HeldOf(new, q)) /\ new.count[q] <= PerPeer
    <3>1. room.count[q] = Cardinality(HeldOf(room, q)) /\ room.count[q] <= PerPeer /\ room.count[q] \in Nat
      BY <1>3 DEF MapOk
    <3>2. CASE q # p
      BY <2>4, <2>5, <2>7, <3>1, <3>2
    <3>3. CASE q = p
      <4>1. Cardinality(HeldOf(new, p)) = IF known THEN Cardinality(HeldOf(room, p)) ELSE Cardinality(HeldOf(room, p)) + 1
        BY <2>7, HeldFinite, FS_AddElement
      <4>2. new.count[p] = IF known THEN room.count[p] ELSE room.count[p] + 1
        BY <2>4, <2>5
      <4>3. QED
        BY <2>8, <3>1, <3>3, <4>1, <4>2, DnsFacts
    <3>4. QED
      BY <3>2, <3>3
  <2>11. \A j \in DnsKeys : Len(new.m[j]) <= MaxNames /\ AllAfter(new.m[j], new.scanned)
    BY <1>3, <2>2, <2>3, <2>5 DEF MapOk
  <2>12. MapOk(new, now)
    BY <1>3, <2>5, <2>9, <2>10, <2>11 DEF MapOk
  <2>13. QED
    BY <2>1, <2>5, <2>12 DEF OkMaps
<1>6. QED
  BY <1>4, <1>5

\* The addresses of one answer in order: what Learn makes of the map.
LearnAll(mp, p, name, addrs, until, now) ==
  LET learned[i \in 0 .. Len(addrs)] ==
        IF i = 0 THEN mp ELSE LearnOne(learned[i - 1], p, addrs[i], name, until, now)
  IN learned[Len(addrs)]

LEMMA LearnAllOk ==
  ASSUME NEW now \in Nat, NEW mp \in OkMaps(now), NEW p \in DnsPeers, NEW addrs \in Seq(DnsAddrs),
         NEW name \in DnsNames, NEW until \in Nat, until > now
  PROVE  LearnAll(mp, p, name, addrs, until, now) \in OkMaps(now)
<1> DEFINE n == Len(addrs)
           M == OkMaps(now)
           Step(i, q) == LearnOne(q, p, addrs[i], name, until, now)
           H == [z \in (1 .. n) \X M |-> Step(z[1], z[2])]
<1>1. n \in Nat /\ \A i \in 1 .. n : addrs[i] \in DnsAddrs
  OBVIOUS
<1>2. mp \in M
  OBVIOUS
<1>3. ASSUME NEW i \in 1 .. n, NEW q \in M PROVE Step(i, q) \in M
  BY <1>1, LearnOneOk
<1>4. H \in [(1 .. n) \X M -> M] /\ \A i \in 1 .. n, q \in M : H[<<i, q>>] = Step(i, q)
  <2> HIDE DEF M, Step
  <2>1. QED
    BY <1>3
<1> HIDE DEF n, M, H
<1>5. HasIterate(n, M, mp, H)
  BY <1>1, <1>2, <1>4, Iterates
<1>6. PICK f \in [0 .. n -> M] : f[0] = mp /\ \A i \in 1 .. n : f[i] = H[<<i, f[i - 1]>>]
  BY <1>5 DEF HasIterate
<1> HIDE DEF Step
<1>7. ASSUME NEW i \in 1 .. n PROVE f[i - 1] \in M /\ f[i] = Step(i, f[i - 1])
  <2>1. f[i - 1] \in M
    BY <1>1
  <2>2. QED
    BY <1>4, <1>6, <2>1
<1> DEFINE Solves(g) == g = [i \in 0 .. n |-> IF i = 0 THEN mp ELSE Step(i, g[i - 1])]
<1>8. Solves(f)
  BY <1>1, <1>6, <1>7
<1> DEFINE g == CHOOSE g : Solves(g)
<1>9. LearnAll(mp, p, name, addrs, until, now) = g[n]
  BY DEF LearnAll, n, Step
<1>10. Solves(g)
  <2> HIDE DEF Solves
  <2>1. QED
    BY <1>8
<1> HIDE DEF g
<1>11. g[0] = mp /\ \A i \in 1 .. n : g[i] = Step(i, g[i - 1])
  BY <1>1, <1>10
<1> HIDE DEF Solves
<1> DEFINE G == {k \in Nat : k <= n => g[k] \in M}
<1>12. 0 \in G
  BY <1>2, <1>11
<1>13. ASSUME NEW k \in Nat, k \in G PROVE k + 1 \in G
  <2>1. SUFFICES ASSUME k + 1 <= n PROVE g[k + 1] \in M
    OBVIOUS
  <2>2. k + 1 \in 1 .. n /\ (k + 1) - 1 = k /\ k <= n
    BY <1>1, <2>1
  <2>3. g[k] \in M /\ g[k + 1] = Step(k + 1, g[k])
    BY <1>11, <1>13, <2>2
  <2>4. QED
    BY <1>3, <2>2, <2>3
<1> HIDE DEF G
<1>14. n \in G
  BY <1>1, <1>12, <1>13, NumbersAll
<1>15. g[n] \in M
  BY <1>1, <1>14 DEF G
<1>16. QED
  BY <1>9, <1>15 DEF M

DnsIInv == dnsNow \in 0 .. LastTime /\ dnsMap \in OkMaps(dnsNow)

\* A map whose last refusal is forgotten.
LEMMA NotDropped ==
  ASSUME NEW now \in Nat, NEW mp \in OkMaps(now)
  PROVE  LET new == [mp EXCEPT !.dropped = FALSE] IN
         new \in OkMaps(now) /\ new \in OkMaps(now + 1) /\ ~new.dropped
<1> DEFINE new == [mp EXCEPT !.dropped = FALSE]
<1>1. mp \in MapRecord /\ MapOk(mp, now) /\ mp.scanned \in Nat
  BY DEF OkMaps, MapRecord
<1>2. /\ new \in MapRecord /\ new.m = mp.m /\ new.count = mp.count /\ new.scanned = mp.scanned /\ new.dropped = FALSE
  BY <1>1 DEF MapRecord
<1> HIDE DEF new
<1>3. Held(new) = Held(mp) /\ \A q \in DnsPeers : HeldOf(new, q) = HeldOf(mp, q)
  BY <1>2 DEF Held, HeldOf
<1>4. MapOk(new, now)
  BY <1>1, <1>2, <1>3 DEF MapOk
<1>5. new.scanned <= now => new.scanned <= now + 1
  BY <1>1, <1>2
<1>6. MapOk(new, now + 1)
  BY <1>2, <1>4, <1>5 DEF MapOk
<1>7. QED
  BY <1>2, <1>4, <1>6 DEF OkMaps, new

LEMMA DnsBegins == DnsInit => DnsIInv
<1> SUFFICES ASSUME DnsInit PROVE DnsIInv
  OBVIOUS
<1> DEFINE mp == [m |-> [k \in DnsKeys |-> <<>>], count |-> [p \in DnsPeers |-> 0], scanned |-> 0, dropped |-> FALSE]
<1>1. dnsMap = mp /\ dnsNow = FullScan
  BY DEF DnsInit
<1>2. /\ mp \in MapRecord /\ (\A k \in DnsKeys : mp.m[k] = <<>>) /\ (\A p \in DnsPeers : mp.count[p] = 0)
      /\ mp.scanned = 0 /\ mp.dropped = FALSE
  BY DEF MapRecord
<1> HIDE DEF mp
<1>3. Held(mp) = {} /\ \A p \in DnsPeers : HeldOf(mp, p) = {}
  BY <1>2 DEF Held, HeldOf, DnsKeys
<1>4. Cardinality({}) = 0
  BY FS_EmptySet
<1>5. MapOk(mp, FullScan)
  <2>1. ASSUME NEW k \in DnsKeys PROVE Len(mp.m[k]) <= MaxNames /\ AllAfter(mp.m[k], mp.scanned)
    <3>1. Len(<<>>) <= MaxNames /\ AllAfter(<<>>, 0)
      BY DnsFacts DEF AllAfter
    <3>2. QED
      BY <1>2, <3>1
  <2>2. /\ \A p \in DnsPeers : mp.count[p] = Cardinality(HeldOf(mp, p)) /\ mp.count[p] <= PerPeer
        /\ Cardinality(Held(mp)) <= MapMax
    <3>1. Cardinality(Held(mp)) = 0 /\ \A p \in DnsPeers : Cardinality(HeldOf(mp, p)) = 0
      BY <1>3, <1>4, Zenon
    <3>2. QED
      BY <1>2, <3>1, DnsFacts
  <2>3. mp.scanned <= FullScan /\ ~mp.dropped
    BY <1>2, DnsFacts
  <2>4. QED
    BY <2>1, <2>2, <2>3 DEF MapOk
<1>6. QED
  BY <1>1, <1>2, <1>5, DnsFacts DEF DnsIInv, OkMaps

LEMMA DnsStep ==
  ASSUME DnsIInv, [DnsNext]_dnsVars
  PROVE  DnsIInv'
<1> USE DEF DnsIInv
<1>0. dnsNow \in 0 .. LastTime /\ dnsNow \in Nat /\ LastTime \in Nat /\ dnsMap \in OkMaps(dnsNow)
  BY DnsFacts
<1> DEFINE mp == [dnsMap EXCEPT !.dropped = FALSE]
<1>mp. mp \in OkMaps(dnsNow) /\ mp \in OkMaps(dnsNow + 1) /\ ~mp.dropped
  BY <1>0, NotDropped
<1> HIDE DEF mp
<1>1. ASSUME NEW p \in DnsPeers, NEW name \in DnsNames, NEW addrs \in Answers, NEW life \in Lives,
             Learn(p, name, addrs, life)
      PROVE  DnsIInv'
  <2>1. addrs \in Seq(DnsAddrs)
    <3>1. (\E a \in DnsAddrs : addrs = <<a>>) \/ (\E a, b \in DnsAddrs : addrs = <<a, b>>)
      BY DEF Answers
    <3>2. \A a, b \in DnsAddrs : <<a>> \in Seq(DnsAddrs) /\ <<a, b>> \in Seq(DnsAddrs)
      OBVIOUS
    <3>3. QED
      BY <3>1, <3>2
  <2>2. life \in Nat /\ life >= 1
    BY DnsFacts
  <2>3. dnsNow + life \in Nat /\ dnsNow + life > dnsNow
    BY <1>0, <2>2
  <2>4. LearnAll(mp, p, name, addrs, dnsNow + life, dnsNow) \in OkMaps(dnsNow)
    BY <1>0, <1>mp, <2>1, <2>3, LearnAllOk
  <2>5. dnsMap' = LearnAll(mp, p, name, addrs, dnsNow + life, dnsNow) /\ dnsNow' = dnsNow
    BY <1>1 DEF Learn, LearnAll, mp
  <2>6. QED
    BY <1>0, <2>4, <2>5
<1>2. CASE ExpireNames
  <2>1. dnsMap' = ExpireLocked(mp, dnsNow) /\ dnsNow' = dnsNow
    BY <1>2 DEF ExpireNames, mp
  <2>2. /\ mp \in MapRecord /\ (\A k \in DnsKeys : Len(mp.m[k]) <= MaxNames)
        /\ (\A p \in DnsPeers : mp.count[p] = Cardinality(HeldOf(mp, p)) /\ mp.count[p] <= PerPeer)
        /\ Cardinality(Held(mp)) <= MapMax /\ mp.scanned <= dnsNow
    BY <1>mp DEF OkMaps, MapOk
  <2>3. ExpireLocked(mp, dnsNow) \in OkMaps(dnsNow)
    BY <1>0, <1>mp, <2>2, ExpireOk
  <2>4. QED
    BY <1>0, <2>1, <2>3
<1>3. CASE DnsTick
  <2>1. dnsNow < LastTime /\ dnsNow' = dnsNow + 1 /\ dnsMap' = mp
    BY <1>3 DEF DnsTick, mp
  <2>2. dnsNow' \in 0 .. LastTime
    BY <1>0, <2>1
  <2>3. QED
    BY <1>mp, <2>1, <2>2
<1>4. CASE UNCHANGED dnsVars
  BY <1>0, <1>4 DEF dnsVars
<1>5. QED
  BY <1>1, <1>2, <1>3, <1>4 DEF DnsNext

LEMMA DnsImplies == DnsIInv => DnsInv
<1> SUFFICES ASSUME DnsIInv PROVE DnsInv
  OBVIOUS
<1>1. /\ dnsNow \in 0 .. LastTime /\ LastTime \in Nat /\ FullScan \in Nat
      /\ dnsMap \in MapRecord /\ MapOk(dnsMap, dnsNow)
      /\ dnsMap.m \in [DnsKeys -> Seq(NameEntry)] /\ dnsMap.scanned \in Nat
  BY DnsFacts DEF DnsIInv, OkMaps, MapRecord
<1>2. ASSUME NEW k \in DnsKeys
      PROVE  /\ dnsMap.m[k] \in Seq(NameEntry) /\ Len(dnsMap.m[k]) \in Nat
             /\ DOMAIN dnsMap.m[k] = 1 .. Len(dnsMap.m[k]) /\ Len(dnsMap.m[k]) <= MaxNames
             /\ \A i \in DOMAIN dnsMap.m[k] : dnsMap.m[k][i] \in NameEntry /\ dnsMap.m[k][i].until > dnsMap.scanned
  <2> DEFINE es == dnsMap.m[k]
  <2>1. es \in Seq(NameEntry) /\ Len(es) <= MaxNames /\ AllAfter(es, dnsMap.scanned)
    BY <1>1 DEF MapOk
  <2> HIDE DEF es
  <2>2. /\ Len(es) \in Nat /\ DOMAIN es = 1 .. Len(es)
        /\ \A i \in DOMAIN es : es[i] \in NameEntry /\ es[i].until > dnsMap.scanned
    BY <2>1 DEF AllAfter
  <2>3. QED
    BY <2>1, <2>2 DEF es
<1>3. DnsTypeOK
  <2>1. dnsMap.scanned \in 0 .. LastTime
    BY <1>1 DEF MapOk
  <2>2. QED
    BY <1>1, <1>2, <2>1 DEF DnsTypeOK
<1>4. AccountsAreExact
  BY <1>1 DEF AccountsAreExact, MapOk, HeldOf
<1>5. RefusedForLive
  <2> SUFFICES ASSUME dnsMap.dropped, NEW k \in Held(dnsMap)
               PROVE  \E i \in DOMAIN dnsMap.m[k] : dnsMap.m[k][i].until + FullScan > dnsNow
    BY DEF RefusedForLive
  <2> DEFINE es == dnsMap.m[k]
  <2>1. k \in DnsKeys /\ es # <<>>
    BY DEF Held
  <2>2. /\ es \in Seq(NameEntry) /\ Len(es) \in Nat /\ DOMAIN es = 1 .. Len(es)
        /\ \A i \in DOMAIN es : es[i] \in NameEntry /\ es[i].until > dnsMap.scanned
    BY <1>2, <2>1
  <2>3. dnsNow < dnsMap.scanned + FullScan
    BY <1>1 DEF MapOk
  <2> HIDE DEF es
  <2>4. 1 \in DOMAIN es
    BY <2>1, <2>2
  <2>5. es[1].until \in Nat /\ es[1].until > dnsMap.scanned
    BY <2>2, <2>4 DEF NameEntry
  <2>6. es[1].until + FullScan > dnsNow
    BY <1>1, <2>3, <2>5
  <2>7. QED
    BY <2>4, <2>6 DEF es
<1>6. QED
  BY <1>3, <1>4, <1>5 DEF DnsInv

\* For every number of peers and addresses and all limits, the accounts of
\* learned addresses are exact and within their limits, and an answer is
\* refused only for addresses that are alive or were within the last
\* FullScan (Map.Learn, expireLocked).
THEOREM DnsSound == DnsSpec => []DnsInv
<1>1. DnsInit => DnsIInv
  BY DnsBegins
<1>2. DnsIInv /\ [DnsNext]_dnsVars => DnsIInv'
  BY DnsStep
<1>3. DnsIInv => DnsInv
  BY DnsImplies
<1>4. QED
  BY <1>1, <1>2, <1>3, PTL DEF DnsSpec
-----------------------------------------------------------------------------
(***************************************************************************)
(* The instances together (MCFlows): the component a behaviour is about    *)
(* moves within its own invariant, and the others stand still.             *)
(***************************************************************************)
FlowsIInv ==
    /\ FlowIInv /\ FrontIInv /\ DnsIInv
    /\ IF focus = "policy" THEN PolicyIInv ELSE decision = NoDecision
    /\ IF focus = "entries" THEN EntryIInv ELSE EntryStands

flowsVars == <<focus, flowVars, policyVars, entryVars, dnsVars, frontVars>>

LEMMA FlowsBegins == FlowsInit => FlowsIInv
<1> SUFFICES ASSUME FlowsInit PROVE FlowsIInv
  OBVIOUS
<1>1. FlowIInv /\ FrontIInv /\ DnsIInv
  BY FlowBegins, FrontBegins, DnsBegins DEF FlowsInit
<1>2. IF focus = "policy" THEN PolicyIInv ELSE decision = NoDecision
  BY PolicyBegins DEF FlowsInit, PolicyStands
<1>3. IF focus = "entries" THEN EntryIInv ELSE EntryStands
  BY DEF FlowsInit, EntryInit, EntryIInv
<1>4. QED
  BY <1>1, <1>2, <1>3 DEF FlowsIInv

LEMMA FlowsStep ==
  ASSUME FlowsIInv, [FlowsNext]_flowsVars
  PROVE  FlowsIInv'
<1>1. /\ [FlowNext]_flowVars /\ [FrontNext]_frontVars /\ [DnsNext]_dnsVars /\ focus' = focus
      /\ (focus = "policy" /\ [PolicyNext]_policyVars) \/ UNCHANGED policyVars
      /\ (focus = "entries" /\ [EntryNext]_entryVars) \/ UNCHANGED entryVars
  BY Zenon DEF FlowsNext, flowsVars
<1>2. FlowIInv' /\ FrontIInv' /\ DnsIInv'
  BY <1>1, FlowStep, FrontStep, DnsStep DEF FlowsIInv
<1>3. IF focus' = "policy" THEN PolicyIInv' ELSE decision' = NoDecision
  <2>1. CASE focus = "policy"
    <3>1. PolicyIInv /\ [PolicyNext]_policyVars
      BY <1>1, <2>1 DEF FlowsIInv
    <3>2. PolicyIInv'
      BY <3>1, PolicyStep
    <3>3. QED
      BY <1>1, <2>1, <3>2
  <2>2. CASE focus # "policy"
    BY <1>1, <2>2 DEF FlowsIInv, policyVars
  <2>3. QED
    BY <2>1, <2>2
<1>4. IF focus' = "entries" THEN EntryIInv' ELSE EntryStands'
  <2>1. CASE focus = "entries"
    <3>1. EntryIInv /\ [EntryNext]_entryVars
      BY <1>1, <2>1 DEF FlowsIInv
    <3>2. EntryIInv'
      BY <3>1, EntryStep
    <3>3. QED
      BY <1>1, <2>1, <3>2
  <2>2. CASE focus # "entries"
    BY <1>1, <2>2 DEF FlowsIInv, entryVars, EntryStands
  <2>3. QED
    BY <2>1, <2>2
<1>5. QED
  BY <1>2, <1>3, <1>4 DEF FlowsIInv

LEMMA FlowsImplies ==
  ASSUME FlowsIInv
  PROVE  FlowInv /\ PolicyInv /\ NamesInv /\ FrontInv
<1>1. FlowInv /\ FrontInv /\ DnsInv
  BY FlowImplies, FrontImplies, DnsImplies DEF FlowsIInv
<1>2. PolicyInv
  <2>1. CASE focus = "policy"
    BY <2>1, PolicyImplies DEF FlowsIInv
  <2>2. CASE focus # "policy"
    <3>1. ~decision.made
      BY <2>2 DEF FlowsIInv, NoDecision
    <3>2. QED
      BY <3>1 DEF PolicyInv, DecisionIsMeant, NameAloneOpensNothing, NameIsAwaited
  <2>3. QED
    BY <2>1, <2>2
<1>3. RoundTrip /\ PrefixIsExact
  <2>1. CASE focus = "entries"
    BY <2>1, EntryImplies DEF FlowsIInv
  <2>2. CASE focus # "entries"
    BY <2>2 DEF FlowsIInv, EntryStands, RoundTrip, PrefixIsExact
  <2>3. QED
    BY <2>1, <2>2
<1>4. QED
  BY <1>1, <1>2, <1>3 DEF NamesInv

\* What decides about packets and names, for every choice of the constants:
\* the flow table and its accounts, the decision of the policies, the text of
\* list entries and the accounts of learned addresses, and the budget of the
\* front multiplexer.
THEOREM FlowsSound == FlowsSpec => [](FlowInv /\ PolicyInv /\ NamesInv /\ FrontInv)
<1>1. FlowsInit => FlowsIInv
  BY FlowsBegins
<1>2. FlowsIInv /\ [FlowsNext]_flowsVars => FlowsIInv'
  BY FlowsStep
<1>3. FlowsIInv => FlowInv /\ PolicyInv /\ NamesInv /\ FrontInv
  BY FlowsImplies
<1>4. QED
  BY <1>1, <1>2, <1>3, PTL DEF FlowsSpec, flowsVars
=============================================================================
