------------------------------- MODULE LoopFacts -------------------------------
(***************************************************************************)
(* What loops compute: the facts about recursive functions that the proofs *)
(* of the other modules share.  A function given by recursion is the one   *)
(* that satisfies its equation; that there is one, and what it does, is    *)
(* shown by induction over the naturals, stated for a set of numbers.      *)
(***************************************************************************)
EXTENDS Integers, Sequences, FiniteSets, FiniteSetsExt, TLAPS, FiniteSetTheorems,
        WellFoundedInduction

LEMMA Smallest ==
    ASSUME NEW S \in SUBSET Nat, S # {}
    PROVE  \E n \in S : \A m \in S : n <= m
<1> DEFINE R == OpToRel(<, Nat)
<1>1. IsWellFoundedOn(R, Nat)
  BY NatLessThanWellFounded
<1>2. \E n \in S : \A m \in S : ~ (<<m, n>> \in R)
  <2> HIDE DEF R
  <2> QED BY <1>1, WFMin
<1>3. PICK n \in S : \A m \in S : ~ (<<m, n>> \in R)
  BY <1>2
<1>4. \A m \in S : ~(m < n)
  BY <1>3 DEF OpToRel
<1> QED BY <1>4

(* A set of numbers with 0 and each one's successor has them all.           *)
LEMMA NatSetInduction ==
    ASSUME NEW S, 0 \in S, \A n \in Nat : n \in S => n + 1 \in S
    PROVE  Nat \subseteq S
<1> DEFINE T == Nat \ S
<1>1. SUFFICES ASSUME T # {} PROVE FALSE
  OBVIOUS
<1>2. T \in SUBSET Nat
  OBVIOUS
<1>3. PICK x \in T : \A y \in T : x <= y
  <2> HIDE DEF T
  <2> QED BY <1>1, <1>2, Smallest
<1>4. x \in Nat /\ x # 0
  OBVIOUS
<1>5. x - 1 \in Nat /\ ~(x <= x - 1) /\ (x - 1) + 1 = x
  BY <1>4
<1>6. x - 1 \in S
  BY <1>3, <1>5
<1> QED BY <1>4, <1>5, <1>6

-----------------------------------------------------------------------------
(* Sums.                                                                   *)

AnyOf(s) == CHOOSE x \in s : TRUE

LEMMA AnyIn == \A s : s # {} => AnyOf(s) \in s
BY DEF AnyOf

(* g sums up v over the subsets of P.                                       *)
Sums(g, v, P) ==
    /\ g \in [SUBSET P -> Nat]
    /\ \A s \in SUBSET P : g[s] = IF s = {} THEN 0 ELSE v[AnyOf(s)] + g[s \ {AnyOf(s)}]

LEMMA SumExists ==
    ASSUME NEW P, IsFiniteSet(P), NEW v \in [P -> Nat]
    PROVE  \E g : Sums(g, v, P)
<1> DEFINE Next1(g, s) == IF s = {} THEN 0 ELSE v[AnyOf(s)] + g[s \ {AnyOf(s)}]
           Upto(g, n) == \A s \in SUBSET P : Cardinality(s) <= n => g[s] = Next1(g, s)
           S == {n \in Nat : \E g \in [SUBSET P -> Nat] : Upto(g, n)}
<1>0. \A s \in SUBSET P : IsFiniteSet(s) /\ Cardinality(s) \in Nat /\ Cardinality(s) <= Cardinality(P)
  BY FS_Subset, FS_CardinalityType
<1>1. 0 \in S
  <2> DEFINE g == [s \in SUBSET P |-> 0]
  <2>1. g \in [SUBSET P -> Nat]
    OBVIOUS
  <2>2. \A s \in SUBSET P : Cardinality(s) <= 0 => s = {}
    BY <1>0, FS_EmptySet
  <2>3. Upto(g, 0)
    BY <2>2
  <2> QED BY <2>1, <2>3
<1>2. ASSUME NEW n \in Nat, n \in S
      PROVE  n + 1 \in S
  <2>1. PICK g \in [SUBSET P -> Nat] : Upto(g, n)
    BY <1>2
  <2> DEFINE h == [s \in SUBSET P |-> Next1(g, s)]
  <2>2. ASSUME NEW s \in SUBSET P
        PROVE  Next1(g, s) \in Nat
    BY AnyIn
  <2>3. h \in [SUBSET P -> Nat]
    BY <2>2
  <2>4. ASSUME NEW s \in SUBSET P, Cardinality(s) <= n + 1
        PROVE  h[s] = Next1(h, s)
    <3>1. CASE s = {}
      BY <3>1
    <3>2. CASE s # {}
      <4> DEFINE t == s \ {AnyOf(s)}
      <4>1. t \in SUBSET P /\ Cardinality(t) = Cardinality(s) - 1
        BY <1>0, <3>2, AnyIn, FS_RemoveElement
      <4>2. Cardinality(t) <= n
        BY <1>0, <2>4, <4>1
      <4>3. g[t] = Next1(g, t)
        BY <2>1, <4>1, <4>2
      <4>4. h[t] = Next1(g, t) /\ h[s] = Next1(g, s)
        BY <4>1
      <4> HIDE DEF h
      <4> QED BY <3>2, <4>3, <4>4
    <3> QED BY <3>1, <3>2
  <2>5. Upto(h, n + 1)
    BY <2>4
  <2> HIDE DEF h, Upto
  <2> QED BY <2>3, <2>5
<1>3. Cardinality(P) \in S
  <2> HIDE DEF S
  <2> QED BY <1>0, <1>1, <1>2, NatSetInduction
<1>4. PICK g \in [SUBSET P -> Nat] : Upto(g, Cardinality(P))
  BY <1>3
<1> QED BY <1>0, <1>4 DEF Sums

(* Whichever element it begins with.                                        *)
LEMMA SumAdds ==
    ASSUME NEW P, IsFiniteSet(P), NEW v \in [P -> Nat], NEW g, Sums(g, v, P),
           NEW A \in SUBSET P, NEW e \in P \ A
    PROVE  g[A \cup {e}] = g[A] + v[e]
<1> DEFINE Adds(s) == \A x \in P \ s : g[s \cup {x}] = g[s] + v[x]
           S == {n \in Nat : \A s \in SUBSET P : Cardinality(s) = n => Adds(s)}
<1>0. \A s \in SUBSET P : IsFiniteSet(s) /\ Cardinality(s) \in Nat
  BY FS_Subset, FS_CardinalityType
<1>1. 0 \in S
  <2>1. ASSUME NEW s \in SUBSET P, Cardinality(s) = 0, NEW x \in P \ s
        PROVE  g[s \cup {x}] = g[s] + v[x]
    <3>1. s = {}
      BY <1>0, <2>1, FS_EmptySet
    <3>2. AnyOf({x}) = x /\ {x} \ {x} = {} /\ {x} \in SUBSET P
      BY AnyIn
    <3>3. g[{x}] = v[x] + g[{}] /\ g[{}] = 0
      BY <3>2 DEF Sums
    <3> QED BY <3>1, <3>3
  <2> QED BY <2>1
<1>2. ASSUME NEW n \in Nat, n \in S
      PROVE  n + 1 \in S
  <2>1. ASSUME NEW s \in SUBSET P, Cardinality(s) = n + 1, NEW x \in P \ s
        PROVE  g[s \cup {x}] = g[s] + v[x]
    <3> DEFINE u == s \cup {x}
               y == AnyOf(u)
    <3>1. y \in u /\ u \in SUBSET P /\ u # {}
      BY AnyIn
    <3>2. g[u] = v[y] + g[u \ {y}]
      BY <3>1 DEF Sums
    <3> HIDE DEF y
    <3>3. CASE y = x
      <4>1. u \ {y} = s
        BY <3>3
      <4>2. g[s] \in Nat /\ v[x] \in Nat
        BY DEF Sums
      <4>3. g[u] = v[x] + g[s]
        <5> HIDE DEF u
        <5> QED BY <3>2, <3>3, <4>1
      <4> QED BY <4>2, <4>3
    <3>4. CASE y # x
      <4> DEFINE t == s \ {y}
      <4>0. y \in s
        BY <3>1, <3>4
      <4>1. t \in SUBSET P /\ Cardinality(t) = n
        <5>1. Cardinality(t) = Cardinality(s) - 1
          BY <1>0, <4>0, FS_RemoveElement
        <5> QED BY <2>1, <5>1
      <4>2. Adds(t)
        BY <1>2, <4>1
      <4>3. t \cup {y} = s /\ t \cup {x} = u \ {y}
        BY <3>4, <4>0
      <4>4. g[s] = g[t] + v[y] /\ g[u \ {y}] = g[t] + v[x]
        BY <4>0, <4>1, <4>2, <4>3
      <4>5. g[t] \in Nat /\ v[x] \in Nat /\ v[y] \in Nat
        BY <4>0, <4>1 DEF Sums
      <4> QED BY <3>2, <4>4, <4>5
    <3> QED BY <3>3, <3>4
  <2> QED BY <2>1
<1>3. Cardinality(A) \in S
  <2> HIDE DEF S
  <2> QED BY <1>0, <1>1, <1>2, NatSetInduction
<1> QED BY <1>3

SumOver(v, A) == MapThenSumSet(LAMBDA n : v[n], A)

LEMMA SumIs ==
    ASSUME NEW P, IsFiniteSet(P), NEW w, NEW v, v = [n \in P |-> w[n]],
           NEW g, Sums(g, v, P), NEW A \in SUBSET P
    PROVE  SumOver(w, A) = g[A]
<1> DEFINE Eq(f) == f = [s \in SUBSET A |-> IF s = {} THEN 0 ELSE w[AnyOf(s)] + f[s \ {AnyOf(s)}]]
           it == CHOOSE f : Eq(f)
           S == {n \in Nat : \A s \in SUBSET A : Cardinality(s) = n => it[s] = g[s]}
<1>0. \A s \in SUBSET A : /\ IsFiniteSet(s) /\ Cardinality(s) \in Nat
                          /\ s # {} => AnyOf(s) \in s /\ v[AnyOf(s)] = w[AnyOf(s)]
  BY FS_Subset, FS_CardinalityType, AnyIn
<1>1. SumOver(w, A) = it[A]
  BY DEF SumOver, MapThenSumSet, MapThenFoldSet, AnyOf
<1>2. Eq(it)
  <2> DEFINE h == [s \in SUBSET A |-> g[s]]
  <2>1. Eq(h)
    BY <1>0 DEF Sums
  <2> HIDE DEF Eq, h
  <2> QED BY <2>1
<1> HIDE DEF it
<1>3. \A s \in SUBSET A : it[s] = IF s = {} THEN 0 ELSE w[AnyOf(s)] + it[s \ {AnyOf(s)}]
  BY <1>2
<1>4. 0 \in S
  <2>1. \A s \in SUBSET A : Cardinality(s) = 0 => s = {}
    BY <1>0, FS_EmptySet
  <2>2. it[{}] = 0 /\ g[{}] = 0
    BY <1>3 DEF Sums
  <2> QED BY <2>1, <2>2
<1>5. ASSUME NEW n \in Nat, n \in S
      PROVE  n + 1 \in S
  <2>1. ASSUME NEW s \in SUBSET A, Cardinality(s) = n + 1
        PROVE  it[s] = g[s]
    <3> DEFINE t == s \ {AnyOf(s)}
    <3>1. s # {}
      BY <2>1, FS_EmptySet
    <3>2. t \in SUBSET A /\ Cardinality(t) = Cardinality(s) - 1
      BY <1>0, <3>1, FS_RemoveElement
    <3>3. it[t] = g[t]
      BY <1>5, <2>1, <3>2
    <3> QED BY <1>0, <1>3, <3>1, <3>3 DEF Sums
  <2> QED BY <2>1
<1>6. Cardinality(A) \in S
  <2> HIDE DEF S
  <2> QED BY <1>0, <1>4, <1>5, NatSetInduction
<1> QED BY <1>1, <1>6

(* A sum over a set, one element more at a time, in any order.              *)
Additive(w, P) ==
    /\ SumOver(w, {}) = 0
    /\ \A A \in SUBSET P :
           /\ SumOver(w, A) \in Nat
           /\ \A n \in P \ A : SumOver(w, A \cup {n}) = SumOver(w, A) + w[n]

LEMMA SumOf ==
    ASSUME NEW P, IsFiniteSet(P), NEW w, \A n \in P : w[n] \in Nat
    PROVE  Additive(w, P)
<1>1. PICK v : v = [n \in P |-> w[n]]
  OBVIOUS
<1>2. v \in [P -> Nat]
  BY <1>1
<1>3. PICK g : Sums(g, v, P)
  BY <1>2, SumExists
<1>4. \A A \in SUBSET P : SumOver(w, A) = g[A]
  BY <1>1, <1>3, SumIs
<1>5. g[{}] = 0 /\ \A A \in SUBSET P : g[A] \in Nat
  BY <1>3 DEF Sums
<1>6. ASSUME NEW A \in SUBSET P, NEW n \in P \ A
      PROVE  g[A \cup {n}] = g[A] + w[n]
  <2>1. g[A \cup {n}] = g[A] + v[n]
    BY <1>2, <1>3, SumAdds, SMTT(60)
  <2> QED BY <1>1, <2>1
<1> QED BY <1>1, <1>4, <1>5, <1>6 DEF Additive

(* Sums of numbers of members: no less than there are in all, and just as   *)
(* many when no two have one in common.                                     *)
LEMMA SumOfClasses ==
    ASSUME NEW P, IsFiniteSet(P), NEW L, IsFiniteSet(L), NEW F, \A x \in P : F[x] \in SUBSET L,
           NEW w, \A x \in P : w[x] = Cardinality(F[x])
    PROVE  \A A \in SUBSET P :
               /\ Cardinality(UNION {F[x] : x \in A}) <= SumOver(w, A)
               /\ (\A x, y \in A : x # y => F[x] \cap F[y] = {}) =>
                      SumOver(w, A) = Cardinality(UNION {F[x] : x \in A})
<1> DEFINE All(A) == UNION {F[x] : x \in A}
           Apart(A) == \A x, y \in A : x # y => F[x] \cap F[y] = {}
           Fits(A) == /\ Cardinality(All(A)) <= SumOver(w, A)
                      /\ Apart(A) => SumOver(w, A) = Cardinality(All(A))
           S == {n \in Nat : \A A \in SUBSET P : Cardinality(A) = n => Fits(A)}
<1>0. \A X \in SUBSET L : IsFiniteSet(X) /\ Cardinality(X) \in Nat
  BY FS_Subset, FS_CardinalityType
<1>1. \A A \in SUBSET P : IsFiniteSet(A) /\ Cardinality(A) \in Nat
  BY FS_Subset, FS_CardinalityType
<1>2. /\ SumOver(w, {}) = 0
      /\ \A A \in SUBSET P :
             /\ SumOver(w, A) \in Nat
             /\ \A n \in P \ A : SumOver(w, A \cup {n}) = SumOver(w, A) + w[n]
  <2>1. \A n \in P : w[n] \in Nat
    BY <1>0
  <2>2. Additive(w, P)
    BY <2>1, SumOf
  <2> QED BY <2>2 DEF Additive
<1>3. 0 \in S
  <2>1. ASSUME NEW A \in SUBSET P, Cardinality(A) = 0
        PROVE  Fits(A)
    <3>1. A = {}
      BY <1>1, <2>1, FS_EmptySet
    <3>2. All(A) = {}
      BY <3>1
    <3>3. Cardinality({}) = 0
      BY FS_EmptySet
    <3>4. SumOver(w, A) = 0
      BY <1>2, <3>1
    <3>5. Cardinality(All(A)) = 0
      BY <3>2, <3>3
    <3> HIDE DEF All, Apart
    <3> QED BY <3>4, <3>5
  <2> QED BY <2>1
<1>4. ASSUME NEW n \in Nat, n \in S
      PROVE  n + 1 \in S
  <2>1. ASSUME NEW A \in SUBSET P, Cardinality(A) = n + 1
        PROVE  Fits(A)
    <3>1. A # {}
      BY <2>1, FS_EmptySet
    <3>2. PICK e \in A : TRUE
      BY <3>1
    <3>3. PICK B \in SUBSET P : B = A \ {e}
      OBVIOUS
    <3>4. IsFiniteSet(A) /\ Cardinality(B) = n
      <4>1. Cardinality(B) = Cardinality(A) - 1
        BY <1>1, <3>2, <3>3, FS_RemoveElement
      <4> QED BY <1>1, <2>1, <4>1
    <3>5. Fits(B)
      BY <1>4, <3>4
    <3>6. A = B \cup {e} /\ e \in P \ B /\ B \subseteq A
      BY <3>3
    <3>7. SumOver(w, A) = SumOver(w, B) + w[e]
      BY <1>2, <3>6
    <3>8. PICK X \in SUBSET L, Y \in SUBSET L : X = All(B) /\ Y = F[e]
      OBVIOUS
    <3>9. All(A) = X \cup Y
      BY <3>6, <3>8
    <3>10. /\ Cardinality(X \cup Y) = Cardinality(X) + Cardinality(Y) - Cardinality(X \cap Y)
           /\ Cardinality(X) \in Nat /\ Cardinality(Y) \in Nat /\ Cardinality(X \cap Y) \in Nat
      <4>1. IsFiniteSet(X) /\ IsFiniteSet(Y) /\ X \cap Y \in SUBSET L
        BY <1>0
      <4> QED BY <1>0, <4>1, FS_Union
    <3>11. w[e] = Cardinality(Y) /\ SumOver(w, B) \in Nat
      BY <1>2, <3>8
    <3>12. Cardinality(X) <= SumOver(w, B)
      BY <3>5, <3>8
    <3>13. Cardinality(All(A)) <= SumOver(w, A)
      <4> HIDE DEF All
      <4> QED BY <3>7, <3>9, <3>10, <3>11, <3>12
    <3>14. ASSUME Apart(A)
           PROVE  SumOver(w, A) = Cardinality(All(A))
      <4>1. SumOver(w, B) = Cardinality(X)
        BY <3>5, <3>6, <3>8, <3>14
      <4>2. X \cap Y = {}
        BY <3>6, <3>8, <3>14
      <4>3. Cardinality(X \cap Y) = 0
        BY <4>2, FS_EmptySet
      <4> HIDE DEF All
      <4> QED BY <3>7, <3>9, <3>10, <3>11, <4>1, <4>3
    <3> HIDE DEF All, Apart
    <3> QED BY <3>13, <3>14
  <2> HIDE DEF Fits
  <2> QED BY <2>1
<1> HIDE DEF S
<1>5. Nat \subseteq S
  BY <1>3, <1>4, NatSetInduction
<1>6. ASSUME NEW A \in SUBSET P
      PROVE  Fits(A)
  <2>1. Cardinality(A) \in S
    BY <1>1, <1>5
  <2> HIDE DEF Fits
  <2> QED BY <2>1 DEF S
<1> QED BY <1>6

-----------------------------------------------------------------------------
(* Filters.                                                                *)

(* f goes through the sequence s and keeps what is at the indices in keep.   *)
Filters(f, s, keep, K) ==
    /\ f \in [0..Len(s) -> Seq(K)]
    /\ f[0] = <<>>
    /\ \A n \in 1..Len(s) : f[n] = IF n \in keep THEN Append(f[n - 1], s[n]) ELSE f[n - 1]

LEMMA FilterExists ==
    ASSUME NEW K, NEW s \in Seq(K), NEW keep
    PROVE  \E f : Filters(f, s, keep, K)
<1> DEFINE Step(r, n) == IF n \in keep THEN Append(r, s[n]) ELSE r
           Upto(f, k) == f[0] = <<>> /\ \A m \in 1..Len(s) : m <= k => f[m] = Step(f[m - 1], m)
           S == {k \in Nat : \E f \in [0..Len(s) -> Seq(K)] : Upto(f, k)}
<1>0. Len(s) \in Nat /\ \A n \in 1..Len(s) : s[n] \in K
  OBVIOUS
<1>a. \A r \in Seq(K), n \in 1..Len(s) : Step(r, n) \in Seq(K)
  BY <1>0
<1>1. 0 \in S
  <2> DEFINE f == [m \in 0..Len(s) |-> <<>>]
  <2>1. f \in [0..Len(s) -> Seq(K)] /\ Upto(f, 0)
    BY <1>0
  <2> HIDE DEF f, Upto
  <2> QED BY <2>1
<1>2. ASSUME NEW k \in Nat, k \in S
      PROVE  k + 1 \in S
  <2>1. PICK f \in [0..Len(s) -> Seq(K)] : Upto(f, k)
    BY <1>2
  <2> DEFINE h == [m \in 0..Len(s) |-> IF m = k + 1 THEN Step(f[k], m) ELSE f[m]]
  <2>2. \A m \in 0..Len(s) : m = k + 1 => k \in 0..Len(s) /\ m \in 1..Len(s)
    BY <1>0
  <2>3. h \in [0..Len(s) -> Seq(K)]
    <3> HIDE DEF Step
    <3> QED BY <1>a, <2>2
  <2>4. h[0] = <<>>
    <3>1. 0 \in 0..Len(s) /\ 0 # k + 1 /\ f[0] = <<>>
      BY <1>0, <2>1
    <3> QED BY <3>1
  <2>5. ASSUME NEW m \in 1..Len(s), m <= k + 1
        PROVE  h[m] = Step(h[m - 1], m)
    <3>1. m \in 0..Len(s) /\ m - 1 \in 0..Len(s) /\ m - 1 # k + 1 /\ m \in Nat
      BY <1>0, <2>5
    <3>2. h[m - 1] = f[m - 1]
      BY <3>1
    <3>3. CASE m = k + 1
      <4>1. h[m] = Step(f[k], m) /\ m - 1 = k
        BY <3>1, <3>3
      <4> HIDE DEF h, Step
      <4> QED BY <3>2, <4>1
    <3>4. CASE m # k + 1
      <4>1. h[m] = f[m] /\ m <= k
        BY <2>5, <3>1, <3>4
      <4> HIDE DEF h, Step
      <4> QED BY <2>1, <3>2, <4>1
    <3> QED BY <3>3, <3>4
  <2>6. Upto(h, k + 1)
    <3> HIDE DEF h, Step
    <3> QED BY <2>4, <2>5
  <2> HIDE DEF h, Upto
  <2> QED BY <2>3, <2>6
<1>3. Len(s) \in S
  <2> HIDE DEF S
  <2> QED BY <1>0, <1>1, <1>2, NatSetInduction
<1>4. PICK f \in [0..Len(s) -> Seq(K)] : Upto(f, Len(s))
  BY <1>3
<1>5. Filters(f, s, keep, K)
  <2>1. \A m \in 1..Len(s) : m <= Len(s)
    BY <1>0
  <2> QED BY <1>4, <2>1 DEF Filters
<1> QED BY <1>5

(* In order, one after the other, and all of them.                          *)
Filtered(r, s, keep, K, n) ==
    /\ r \in Seq(K)
    /\ \A i \in DOMAIN r : \E m \in 1..n : r[i] = s[m] /\ m \in keep
    /\ \A m \in 1..n : m \in keep => \E i \in DOMAIN r : r[i] = s[m]
    /\ \A i, j \in DOMAIN r : i < j => \E m, l \in 1..n : m < l /\ s[m] = r[i] /\ s[l] = r[j]

LEMMA FilterIs ==
    ASSUME NEW K, NEW s \in Seq(K), NEW keep, NEW f, Filters(f, s, keep, K)
    PROVE  Filtered(f[Len(s)], s, keep, K, Len(s))
<1> DEFINE S == {k \in Nat : k <= Len(s) => Filtered(f[k], s, keep, K, k)}
<1>0. Len(s) \in Nat
  OBVIOUS
<1>1. 0 \in S
  <2>1. f[0] = <<>>
    BY DEF Filters
  <2>2. \A m \in 1..0 : FALSE
    OBVIOUS
  <2>3. DOMAIN <<>> = {} /\ <<>> \in Seq(K)
    OBVIOUS
  <2> QED BY <2>1, <2>2, <2>3 DEF Filtered
<1>2. ASSUME NEW k \in Nat, k \in S
      PROVE  k + 1 \in S
  <2>1. ASSUME k + 1 <= Len(s)
        PROVE  Filtered(f[k + 1], s, keep, K, k + 1)
    <3> DEFINE n == k + 1
               r == f[k]
    <3>1. n \in 1..Len(s) /\ n - 1 = k /\ k <= Len(s)
      BY <1>0, <2>1
    <3>2. f[n] = (IF n \in keep THEN Append(r, s[n]) ELSE r) /\ s[n] \in K
      BY <3>1 DEF Filters
    <3>3. Filtered(r, s, keep, K, k)
      BY <1>2, <3>1
    <3>4. 1..k \subseteq 1..n /\ \A m \in 1..n : m = n \/ m \in 1..k
      OBVIOUS
    <3>5. CASE n \notin keep
      <4>1. f[n] = r
        BY <3>2, <3>5
      <4> HIDE DEF r, n
      <4>2. \A m \in 1..n : m \in keep => m \in 1..k
        BY <3>4, <3>5
      <4>3. Filtered(r, s, keep, K, n)
        BY <3>3, <3>4, <4>2 DEF Filtered
      <4> QED BY <4>1, <4>3 DEF n
    <3>6. CASE n \in keep
      <4> DEFINE q == Append(r, s[n])
      <4>1. f[n] = q
        BY <3>2, <3>6
      <4> HIDE DEF r
      <4>2. r \in Seq(K)
        BY <3>3 DEF Filtered
      <4>3. /\ q \in Seq(K) /\ Len(q) = Len(r) + 1 /\ Len(r) \in Nat
            /\ q[Len(r) + 1] = s[n] /\ \A i \in 1..Len(r) : q[i] = r[i]
            /\ DOMAIN q = 1..(Len(r) + 1) /\ DOMAIN r = 1..Len(r)
        BY <3>2, <4>2
      <4> HIDE DEF q
      <4>4. \A i \in DOMAIN q : \E m \in 1..n : q[i] = s[m] /\ m \in keep
        <5>1. ASSUME NEW i \in DOMAIN q
              PROVE  \E m \in 1..n : q[i] = s[m] /\ m \in keep
          <6>1. CASE i \in 1..Len(r)
            <7>1. PICK m \in 1..k : r[i] = s[m] /\ m \in keep
              BY <3>3, <4>3, <6>1 DEF Filtered
            <7> QED BY <3>4, <4>3, <6>1, <7>1
          <6>2. CASE i = Len(r) + 1
            <7>1. n \in 1..n
              OBVIOUS
            <7>2. q[i] = s[n] /\ n \in keep
              BY <3>6, <4>3, <6>2
            <7> HIDE DEF n
            <7> QED BY <7>1, <7>2
          <6> QED BY <4>3, <6>1, <6>2
        <5> QED BY <5>1
      <4>5. ASSUME NEW m \in 1..n, m \in keep
            PROVE  \E i \in DOMAIN q : q[i] = s[m]
        <5>1. CASE m = n
          BY <4>3, <5>1
        <5>2. CASE m \in 1..k
          <6>1. PICK i \in DOMAIN r : r[i] = s[m]
            BY <3>3, <4>5, <5>2 DEF Filtered
          <6> QED BY <4>3, <6>1
        <5> QED BY <3>4, <5>1, <5>2
      <4>6. ASSUME NEW i \in DOMAIN q, NEW j \in DOMAIN q, i < j
            PROVE  \E m, l \in 1..n : m < l /\ s[m] = q[i] /\ s[l] = q[j]
        <5>1. i \in 1..Len(r) /\ q[i] = r[i]
          BY <4>3, <4>6
        <5>2. CASE j \in 1..Len(r)
          <6>1. q[j] = r[j]
            BY <4>3, <5>2
          <6>2. PICK m \in 1..k, l \in 1..k : m < l /\ s[m] = r[i] /\ s[l] = r[j]
            BY <3>3, <4>3, <4>6, <5>1, <5>2 DEF Filtered
          <6> QED BY <3>4, <5>1, <6>1, <6>2
        <5>3. CASE j = Len(r) + 1
          <6>1. PICK m \in 1..k : r[i] = s[m]
            BY <3>3, <4>3, <5>1 DEF Filtered
          <6>2. m < n /\ m \in 1..n /\ n \in 1..n
            OBVIOUS
          <6> QED BY <4>3, <5>1, <5>3, <6>1, <6>2
        <5> QED BY <4>3, <5>2, <5>3
      <4>7. Filtered(q, s, keep, K, n)
        BY <4>3, <4>4, <4>5, <4>6 DEF Filtered
      <4> QED BY <4>1, <4>7
    <3> QED BY <3>5, <3>6
  <2> QED BY <2>1
<1>3. Len(s) \in S
  <2> HIDE DEF S
  <2> QED BY <1>0, <1>1, <1>2, NatSetInduction
<1> QED BY <1>3

(* h leads from the kept ones to where they stood, in order.                *)
PointsInto(h, r, s, keep, n) ==
    /\ \A p \in 1..Len(r) : h[p] \in 1..n /\ h[p] \in keep /\ r[p] = s[h[p]]
    /\ \A p, q \in 1..Len(r) : p < q => h[p] < h[q]
    /\ \A m \in 1..n : m \in keep => \E p \in 1..Len(r) : h[p] = m

LEMMA FilterPoints ==
    ASSUME NEW K, NEW s \in Seq(K), NEW keep, NEW f, Filters(f, s, keep, K)
    PROVE  \E h : PointsInto(h, f[Len(s)], s, keep, Len(s))
<1> DEFINE S == {k \in Nat : k <= Len(s) => f[k] \in Seq(K) /\ \E h : PointsInto(h, f[k], s, keep, k)}
<1>0. Len(s) \in Nat
  OBVIOUS
<1>1. 0 \in S
  <2>1. f[0] = <<>> /\ <<>> \in Seq(K) /\ Len(<<>>) = 0
    BY DEF Filters
  <2>2. \A m \in 1..0 : FALSE
    OBVIOUS
  <2>3. PointsInto({}, <<>>, s, keep, 0)
    BY <2>1, <2>2 DEF PointsInto
  <2> QED BY <2>1, <2>3
<1>2. ASSUME NEW k \in Nat, k \in S
      PROVE  k + 1 \in S
  <2>1. ASSUME k + 1 <= Len(s)
        PROVE  f[k + 1] \in Seq(K) /\ \E h : PointsInto(h, f[k + 1], s, keep, k + 1)
    <3>1. PICK n \in Nat : n = k + 1
      OBVIOUS
    <3>2. n \in 1..Len(s) /\ n - 1 = k /\ k <= Len(s)
      BY <1>0, <2>1, <3>1
    <3>3. PICK r \in Seq(K) : r = f[k]
      BY <1>2, <3>2
    <3>4. f[n] = (IF n \in keep THEN Append(r, s[n]) ELSE r) /\ s[n] \in K
      BY <3>2, <3>3 DEF Filters
    <3>5. PICK h : PointsInto(h, r, s, keep, k)
      BY <1>2, <3>2, <3>3
    <3>6. \A m \in 1..n : m = n \/ m \in 1..k
      BY <3>1
    <3>7. \A m \in 1..k : m \in 1..n /\ m < n
      BY <3>1
    <3>8. CASE n \notin keep
      <4>1. PointsInto(h, r, s, keep, n)
        BY <3>5, <3>6, <3>7, <3>8 DEF PointsInto
      <4> QED BY <3>1, <3>4, <3>8, <4>1
    <3>9. CASE n \in keep
      <4>1. PICK l \in Nat : l = Len(r)
        OBVIOUS
      <4>2. PICK q \in Seq(K) : q = Append(r, s[n])
        <5>1. \A x \in K : Append(r, x) \in Seq(K)
          OBVIOUS
        <5> QED BY <3>4, <5>1
      <4>3. /\ Len(q) = l + 1 /\ q[l + 1] = s[n]
            /\ \A p \in 1..l : q[p] = r[p]
        BY <3>4, <4>1, <4>2
      <4> DEFINE g == [p \in 1..(l + 1) |-> IF p = l + 1 THEN n ELSE h[p]]
      <4>4. \A p \in 1..(l + 1) : p # l + 1 => p \in 1..l /\ g[p] = h[p]
        OBVIOUS
      <4>5. g[l + 1] = n
        OBVIOUS
      <4> HIDE DEF g
      <4>6. ASSUME NEW p \in 1..(l + 1)
            PROVE  g[p] \in 1..n /\ g[p] \in keep /\ q[p] = s[g[p]]
        <5>1. CASE p = l + 1
          <6>1. n \in 1..n
            BY <3>1
          <6> QED BY <3>9, <4>3, <4>5, <5>1, <6>1
        <5>2. CASE p # l + 1
          <6>1. p \in 1..l /\ g[p] = h[p] /\ q[p] = r[p]
            BY <4>3, <4>4, <5>2
          <6>2. h[p] \in 1..k /\ h[p] \in keep /\ r[p] = s[h[p]]
            BY <3>5, <4>1, <6>1 DEF PointsInto
          <6> QED BY <3>7, <6>1, <6>2
        <5> QED BY <5>1, <5>2
      <4>7. ASSUME NEW p \in 1..(l + 1), NEW o \in 1..(l + 1), p < o
            PROVE  g[p] < g[o]
        <5>1. p \in 1..l /\ p # l + 1
          BY <4>7
        <5>2. g[p] = h[p] /\ h[p] \in 1..k
          BY <3>5, <4>1, <4>4, <5>1 DEF PointsInto
        <5>3. CASE o = l + 1
          BY <3>7, <4>5, <5>2, <5>3
        <5>4. CASE o # l + 1
          <6>1. o \in 1..l /\ g[o] = h[o]
            BY <4>4, <5>4
          <6> QED BY <3>5, <4>1, <4>7, <5>1, <5>2, <6>1 DEF PointsInto
        <5> QED BY <5>3, <5>4
      <4>8. ASSUME NEW m \in 1..n, m \in keep
            PROVE  \E p \in 1..(l + 1) : g[p] = m
        <5>1. CASE m = n
          <6>1. l + 1 \in 1..(l + 1)
            OBVIOUS
          <6> QED BY <4>5, <5>1, <6>1
        <5>2. CASE m \in 1..k
          <6>1. PICK p \in 1..l : h[p] = m
            BY <3>5, <4>1, <4>8, <5>2 DEF PointsInto
          <6>2. p \in 1..(l + 1) /\ p # l + 1
            OBVIOUS
          <6> QED BY <4>4, <6>1, <6>2
        <5> QED BY <3>6, <5>1, <5>2
      <4>9. PointsInto(g, q, s, keep, n)
        BY <4>3, <4>6, <4>7, <4>8 DEF PointsInto
      <4> QED BY <3>1, <3>4, <3>9, <4>2, <4>9
    <3> QED BY <3>8, <3>9
  <2> QED BY <2>1
<1>3. Len(s) \in S
  <2> HIDE DEF S
  <2> QED BY <1>0, <1>1, <1>2, NatSetInduction
<1> QED BY <1>3

(* What satisfies the equations of f is f.                                  *)
Follows(g, s, keep) ==
    /\ g = [n \in 0..Len(s) |-> g[n]]
    /\ g[0] = <<>>
    /\ \A n \in 1..Len(s) : g[n] = IF n \in keep THEN Append(g[n - 1], s[n]) ELSE g[n - 1]

LEMMA FilterFollows ==
    ASSUME NEW K, NEW s \in Seq(K), NEW keep, NEW f, Filters(f, s, keep, K),
           NEW g, Follows(g, s, keep)
    PROVE  g = f
<1> DEFINE S == {n \in Nat : n <= Len(s) => g[n] = f[n]}
<1>0. Len(s) \in Nat
  OBVIOUS
<1>1. 0 \in S
  BY DEF Filters, Follows
<1>2. ASSUME NEW n \in Nat, n \in S
      PROVE  n + 1 \in S
  <2>1. ASSUME n + 1 <= Len(s)
        PROVE  g[n + 1] = f[n + 1]
    <3>1. PICK m : m = n + 1
      OBVIOUS
    <3>2. m \in 1..Len(s) /\ m - 1 = n /\ n <= Len(s)
      BY <1>0, <2>1, <3>1
    <3>3. g[n] = f[n]
      BY <1>2, <3>2
    <3>4. g[m] = IF m \in keep THEN Append(g[n], s[m]) ELSE g[n]
      BY <3>2 DEF Follows
    <3>5. f[m] = IF m \in keep THEN Append(f[n], s[m]) ELSE f[n]
      BY <3>2 DEF Filters
    <3> QED BY <3>1, <3>3, <3>4, <3>5
  <2> QED BY <2>1
<1> HIDE DEF S
<1>3. Nat \subseteq S
  BY <1>1, <1>2, NatSetInduction
<1>4. \A n \in 0..Len(s) : n \in Nat /\ n <= Len(s)
  BY <1>0
<1>5. \A n \in 0..Len(s) : g[n] = f[n]
  BY <1>3, <1>4 DEF S
<1>6. f = [n \in 0..Len(s) |-> f[n]]
  BY DEF Filters
<1>7. g = [n \in 0..Len(s) |-> g[n]]
  BY DEF Follows
<1> QED BY <1>5, <1>6, <1>7

LEMMA FilterDetermined ==
    ASSUME NEW K, NEW s \in Seq(K), NEW keep, NEW f, Filters(f, s, keep, K),
           NEW g, g = [n \in 0..Len(s) |-> g[n]], g[0] = <<>>,
           \A n \in 1..Len(s) : g[n] = IF n \in keep THEN Append(g[n - 1], s[n]) ELSE g[n - 1]
    PROVE  g = f
BY FilterFollows DEF Follows

-----------------------------------------------------------------------------
(* Scans.  A scan from left to right stops at every number up to n but      *)
(* those that follow one it stopped at and that takes the next.             *)
Scans(H, n, take) ==
    /\ H \subseteq 1..n
    /\ \A i \in 1..n : i \in H <=> ~(i - 1 \in H /\ i - 1 \in take)

LEMMA ScanExists ==
    ASSUME NEW n \in Nat, NEW take
    PROVE  \E H : Scans(H, n, take)
<1> DEFINE UpTo(H, k) == \A i \in 1..n : i <= k => (i \in H <=> ~(i - 1 \in H /\ i - 1 \in take))
           S == {k \in Nat : \E H \in SUBSET (1..n) : UpTo(H, k)}
<1>1. 0 \in S
  <2>1. {} \in SUBSET (1..n) /\ UpTo({}, 0)
    OBVIOUS
  <2> HIDE DEF UpTo
  <2> QED BY <2>1
<1>2. ASSUME NEW k \in Nat, k \in S
      PROVE  k + 1 \in S
  <2>1. PICK H \in SUBSET (1..n) : UpTo(H, k)
    BY <1>2
  <2>2. PICK m \in Nat : m = k + 1
    OBVIOUS
  <2> DEFINE G == {i \in 1..n : IF i = m THEN ~(k \in H /\ k \in take) ELSE i \in H}
  <2>3. \A i : i # m => (i \in G <=> i \in H)
    OBVIOUS
  <2>4. ASSUME NEW i \in 1..n, i <= m
        PROVE  i \in G <=> ~(i - 1 \in G /\ i - 1 \in take)
    <3>1. i - 1 # m
      BY <2>2, <2>4
    <3>2. i - 1 \in G <=> i - 1 \in H
      BY <2>3, <3>1
    <3>3. CASE i = m
      <4>1. i - 1 = k
        BY <2>2, <3>3
      <4>2. i \in G <=> ~(k \in H /\ k \in take)
        BY <3>3
      <4> HIDE DEF G
      <4> QED BY <3>2, <4>1, <4>2
    <3>4. CASE i # m
      <4>1. i <= k
        BY <2>2, <2>4, <3>4
      <4>2. i \in G <=> i \in H
        BY <2>3, <3>4
      <4> HIDE DEF G
      <4> QED BY <2>1, <3>2, <4>1, <4>2
    <3> QED BY <3>3, <3>4
  <2>5. G \in SUBSET (1..n) /\ UpTo(G, m)
    <3>1. G \in SUBSET (1..n)
      OBVIOUS
    <3> HIDE DEF G
    <3> QED BY <2>4, <3>1
  <2> HIDE DEF G, UpTo
  <2> QED BY <2>2, <2>5
<1>3. n \in S
  <2> HIDE DEF S
  <2> QED BY <1>1, <1>2, NatSetInduction
<1>4. PICK H \in SUBSET (1..n) : UpTo(H, n)
  BY <1>3
<1>5. \A i \in 1..n : i <= n
  OBVIOUS
<1> QED BY <1>4, <1>5 DEF Scans

(* Scans that agree on what takes the next, wherever both stop, stop at     *)
(* the same.                                                                *)
LEMMA ScansAgree ==
    ASSUME NEW n \in Nat, NEW H, NEW t, Scans(H, n, t), NEW G, NEW u, Scans(G, n, u),
           \A i \in H : i \in G => (i \in t <=> i \in u)
    PROVE  H = G
<1> DEFINE S == {k \in Nat : k \in H <=> k \in G}
<1>0. H \subseteq 1..n /\ G \subseteq 1..n
  BY DEF Scans
<1>1. 0 \in S
  BY <1>0
<1>2. ASSUME NEW k \in Nat, k \in S
      PROVE  k + 1 \in S
  <2>1. PICK m \in Nat : m = k + 1 /\ m - 1 = k
    OBVIOUS
  <2>2. k \in H <=> k \in G
    BY <1>2
  <2>3. CASE m \in 1..n
    <3>1. m \in H <=> ~(k \in H /\ k \in t)
      BY <2>1, <2>3 DEF Scans
    <3>2. m \in G <=> ~(k \in G /\ k \in u)
      BY <2>1, <2>3 DEF Scans
    <3>3. m \in H <=> m \in G
      BY <2>2, <3>1, <3>2
    <3> QED BY <2>1, <3>3
  <2>4. CASE m \notin 1..n
    BY <1>0, <2>1, <2>4
  <2> QED BY <2>3, <2>4
<1> HIDE DEF S
<1>3. Nat \subseteq S
  BY <1>1, <1>2, NatSetInduction
<1>4. \A k \in 1..n : k \in H <=> k \in G
  BY <1>3 DEF S
<1> QED BY <1>0, <1>4

=============================================================================
