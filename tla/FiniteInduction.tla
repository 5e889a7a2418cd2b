--------------------------- MODULE FiniteInduction ---------------------------
(***************************************************************************)
(* Induction over finite sets and over the naturals, stated for sets       *)
(* rather than for predicates: a set of finite sets has a minimal element, *)
(* so a set of counterexamples that is not empty has a smallest one.  From *)
(* it, what clients need to know of the sum of a function over a set.      *)
(***************************************************************************)
EXTENDS Integers, FiniteSets, Functions, FiniteSetTheorems, TLAPS

(* No member of B is properly inside U. *)
Minimal(U, B) == U \in B /\ \A V \in B : V \subseteq U => V = U

(* Among subsets of a finite set, one is minimal: strict inclusion is
   well-founded there. *)
LEMMA FiniteMinimal ==
  ASSUME NEW S, IsFiniteSet(S), NEW B \in SUBSET (SUBSET S), B # {}
  PROVE  \E U : Minimal(U, B)
<1>1. IsWellFoundedOn(StrictSubsetOrdering(S), SUBSET S)
  BY FS_StrictSubsetOrderingWellFounded, FS_FiniteSubsetsOfFinite, Zenon
<1>2. PICK U \in B : \A V \in B : ~(<<V, U>> \in StrictSubsetOrdering(S))
  BY <1>1, WFMin, Zenon
<1>3. ASSUME NEW V \in B, V \subseteq U, V # U PROVE FALSE
  <2>1. <<V, U>> \in (SUBSET S) \X (SUBSET S)
    OBVIOUS
  <2>2. <<V, U>> \in StrictSubsetOrdering(S)
    BY <2>1, <1>3 DEF StrictSubsetOrdering
  <2> QED BY <1>2, <2>2
<1>4. Minimal(U, B)
  BY <1>3 DEF Minimal
<1> QED BY <1>4, Zenon

(* A finite set of integers has a least and a greatest element. *)
LEMMA FiniteExtremes ==
  ASSUME NEW S \in SUBSET Int, IsFiniteSet(S), S # {}
  PROVE  /\ \E x \in S : \A y \in S : x <= y
         /\ \E x \in S : \A y \in S : x >= y
<1> DEFINE Ok(U) == /\ \E x \in U : \A y \in U : x <= y
                    /\ \E x \in U : \A y \in U : x >= y
           B == {U \in SUBSET S : U # {} /\ ~Ok(U)}
<1>1. B = {}
  <2> SUFFICES ASSUME B # {} PROVE FALSE
    OBVIOUS
  <2>1. PICK U : Minimal(U, B)
    <3> HIDE DEF B
    <3>1. B \in SUBSET (SUBSET S)
      BY DEF B
    <3> QED BY <3>1, FiniteMinimal
  <2>2. U \in B /\ U \in SUBSET S /\ ~Ok(U)
    BY <2>1 DEF Minimal
  <2>3. PICK x \in U : TRUE
    BY <2>2
  <2>4. U \ {x} # {} => Ok(U \ {x})
    <3> HIDE DEF Ok
    <3>1. U \ {x} \notin B
      BY <2>1, <2>3, Zenon DEF Minimal
    <3> QED BY <3>1, <2>2
  <2>5. Ok(U)
    <3>1. CASE U \ {x} = {}
      BY <3>1, <2>2, <2>3
    <3>2. CASE U \ {x} # {}
      <4>1. PICK lo \in U \ {x} : \A y \in U \ {x} : lo <= y
        BY <3>2, <2>4
      <4>2. PICK hi \in U \ {x} : \A y \in U \ {x} : hi >= y
        BY <3>2, <2>4
      <4>3. lo \in Int /\ hi \in Int /\ x \in Int /\ U \subseteq Int
        BY <2>2
      <4>4. \A y \in U : (IF lo <= x THEN lo ELSE x) <= y
        BY <2>3, <4>1, <4>3
      <4>5. \A y \in U : (IF hi >= x THEN hi ELSE x) >= y
        BY <2>3, <4>2, <4>3
      <4> QED BY <4>4, <4>5
    <3> QED BY <3>1, <3>2
  <2> QED BY <2>2, <2>5
<1> QED BY <1>1

(* Induction over the naturals for a set S of numbers. *)
LEMMA NatSetInduction ==
  ASSUME NEW S, 0 \in S, \A n \in Nat : n \in S => n + 1 \in S
  PROVE  Nat \subseteq S
<1> SUFFICES ASSUME NEW n \in Nat, n \notin S PROVE FALSE
  OBVIOUS
<1> DEFINE B == {k \in 0 .. n : k \notin S}
<1>1. B \in SUBSET Int /\ B # {} /\ B \subseteq 0 .. n
  OBVIOUS
<1>2. IsFiniteSet(B)
  <2>1. IsFiniteSet(0 .. n)
    BY FS_Interval
  <2> QED BY <1>1, <2>1, FS_Subset
<1>3. PICK m \in B : \A k \in B : m <= k
  <2> HIDE DEF B
  <2> QED BY <1>1, <1>2, FiniteExtremes
<1>4. m # 0 /\ m - 1 \in Nat /\ m - 1 \notin B
  BY <1>3
<1>5. m - 1 \in S
  BY <1>3, <1>4
<1> QED BY <1>3, <1>4, <1>5

-----------------------------------------------------------------------------
(* Sums over finite sets. *)

(* The equation behind the sum of f over a set D. *)
SumRecur(g, f, D) ==
  g = [u \in SUBSET D |-> IF u = {} THEN 0
                          ELSE f[CHOOSE x \in u : TRUE] + g[u \ {CHOOSE x \in u : TRUE}]]

(* The sum is some solution of the equation. *)
LEMMA SumIsRecur ==
  ASSUME NEW f, NEW D
  PROVE  SumFunctionOnSet(f, D) = (CHOOSE g : SumRecur(g, f, D))[D]
BY DEF SumFunctionOnSet, FoldFunctionOnSet, MapThenFoldSet, SumRecur

(* On sets of up to n elements there is a solution. *)
LEMMA SumSolvable ==
  ASSUME NEW f, NEW D, IsFiniteSet(D)
  PROVE  \E g : SumRecur(g, f, D)
<1> DEFINE pick(u) == CHOOSE x \in u : TRUE
           Small(n) == {u \in SUBSET D : Cardinality(u) <= n}
           Ok(g, n) == g = [u \in Small(n) |->
                              IF u = {} THEN 0 ELSE f[pick(u)] + g[u \ {pick(u)}]]
           T == {n \in Nat : \E g : Ok(g, n)}
<1>0. \A u \in SUBSET D : /\ IsFiniteSet(u) /\ Cardinality(u) \in Nat
                          /\ u # {} => /\ pick(u) \in u /\ u \ {pick(u)} \in SUBSET D
                                       /\ Cardinality(u \ {pick(u)}) = Cardinality(u) - 1
  <2> SUFFICES ASSUME NEW u \in SUBSET D
               PROVE  /\ IsFiniteSet(u) /\ Cardinality(u) \in Nat
                      /\ u # {} => /\ pick(u) \in u /\ u \ {pick(u)} \in SUBSET D
                                   /\ Cardinality(u \ {pick(u)}) = Cardinality(u) - 1
    OBVIOUS
  <2>1. IsFiniteSet(u) BY FS_Subset
  <2>2. Cardinality(u) \in Nat BY <2>1, FS_CardinalityType
  <2>3. ASSUME u # {} PROVE pick(u) \in u BY <2>3
  <2>4. ASSUME u # {} PROVE Cardinality(u \ {pick(u)}) = Cardinality(u) - 1
    <3>1. pick(u) \in u BY <2>3, <2>4
    <3> HIDE DEF pick
    <3> QED BY <2>1, <3>1, FS_RemoveElement
  <2> HIDE DEF pick
  <2> QED BY <2>1, <2>2, <2>3, <2>4
<1> HIDE DEF pick
<1>1. 0 \in T
  <2> DEFINE g0 == [u \in Small(0) |-> 0]
  <2>1. \A u \in Small(0) : u = {}
    <3> SUFFICES ASSUME NEW u \in Small(0) PROVE u = {}
      OBVIOUS
    <3>0. u \in SUBSET D /\ Cardinality(u) <= 0 OBVIOUS
    <3> HIDE DEF Small
    <3>1. IsFiniteSet(u) /\ Cardinality(u) \in Nat BY <1>0, <3>0, Zenon
    <3>2. Cardinality(u) = 0 BY <3>0, <3>1
    <3> QED BY <3>1, <3>2, FS_EmptySet
  <2>2. Ok(g0, 0) BY <2>1
  <2> QED BY <2>2
<1>2. ASSUME NEW n \in Nat, n \in T PROVE n + 1 \in T
  <2>1. PICK g : Ok(g, n) BY <1>2
  <2> DEFINE h == [u \in Small(n + 1) |->
                     IF u = {} THEN 0 ELSE f[pick(u)] + g[u \ {pick(u)}]]
  <2>2. \A u \in Small(n + 1) : u # {} => u \ {pick(u)} \in Small(n)
    BY <1>0
  <2>3. \A u \in Small(n) : u \in Small(n + 1) /\ h[u] = g[u]
    <3>1. \A u \in Small(n) : u \in Small(n + 1)
      <4>1. \A c \in Nat : c <= n => c <= n + 1 OBVIOUS
      <4> QED BY <1>0, <4>1
    <3>2. \A u \in Small(n) : g[u] = IF u = {} THEN 0 ELSE f[pick(u)] + g[u \ {pick(u)}]
      <4> HIDE DEF Small
      <4> QED BY <2>1
    <3> HIDE DEF Small
    <3> QED BY <3>1, <3>2
  <2>4. Ok(h, n + 1)
    <3> HIDE DEF Small
    <3>1. \A u \in Small(n + 1) :
            h[u] = IF u = {} THEN 0 ELSE f[pick(u)] + h[u \ {pick(u)}]
      BY <2>2, <2>3
    <3>2. h = [u \in Small(n + 1) |-> h[u]] OBVIOUS
    <3> HIDE DEF h
    <3> QED BY <3>1, <3>2
  <2> HIDE DEF h, Ok
  <2> QED BY <2>4
<1>3. Nat \subseteq T
  <2> HIDE DEF T
  <2> QED BY <1>1, <1>2, NatSetInduction
<1>4. Cardinality(D) \in Nat BY <1>0
<1>5. PICK g : Ok(g, Cardinality(D))
  <2> HIDE DEF Ok
  <2> QED BY <1>3, <1>4
<1>6. Small(Cardinality(D)) = SUBSET D
  <2>1. \A u \in SUBSET D : Cardinality(u) <= Cardinality(D) BY FS_Subset
  <2> QED BY <2>1
<1>7. SumRecur(g, f, D) BY <1>5, <1>6 DEF SumRecur, pick
<1> QED BY <1>7

(* A sum over nothing. *)
LEMMA SumEmpty ==
  ASSUME NEW f
  PROVE  SumFunctionOnSet(f, {}) = 0
<1> DEFINE g == CHOOSE r : SumRecur(r, f, {})
<1>1. IsFiniteSet({}) BY FS_EmptySet
<1>2. SumRecur(g, f, {}) BY <1>1, SumSolvable
<1>3. SumFunctionOnSet(f, {}) = g[{}] BY SumIsRecur
<1> HIDE DEF g
<1> QED BY <1>2, <1>3 DEF SumRecur

(* Two solutions agree where both are defined. *)
LEMMA SumUnique ==
  ASSUME NEW f, NEW D, IsFiniteSet(D), NEW E \in SUBSET D, NEW g, NEW h,
         SumRecur(g, f, D), SumRecur(h, f, E)
  PROVE  g[E] = h[E]
<1> DEFINE B == {u \in SUBSET E : g[u] # h[u]}
           pick(u) == CHOOSE x \in u : TRUE
<1>1. IsFiniteSet(E) BY FS_Subset
<1>2. ASSUME B # {} PROVE FALSE
  <2>1. PICK U : Minimal(U, B)
    <3>1. B \in SUBSET (SUBSET E) OBVIOUS
    <3> HIDE DEF B
    <3> QED BY <1>1, <1>2, <3>1, FiniteMinimal
  <2>2. U \in SUBSET E /\ U \in SUBSET D /\ g[U] # h[U] BY <2>1 DEF Minimal
  <2>3. CASE U = {}
    BY <2>2, <2>3 DEF SumRecur
  <2>4. CASE U # {}
    <3>1. pick(U) \in U BY <2>4
    <3>2. /\ g[U] = f[pick(U)] + g[U \ {pick(U)}]
          /\ h[U] = f[pick(U)] + h[U \ {pick(U)}]
      BY <2>2, <2>4 DEF SumRecur
    <3> HIDE DEF pick
    <3>3. U \ {pick(U)} \notin B
      <4> HIDE DEF B
      <4> QED BY <2>1, <3>1, Zenon DEF Minimal
    <3>4. g[U \ {pick(U)}] = h[U \ {pick(U)}] BY <2>2, <3>3
    <3> QED BY <2>2, <3>2, <3>4
  <2> QED BY <2>3, <2>4
<1> QED BY <1>2

(* A sum over a set that is not empty takes some element off. *)
LEMMA SumPick ==
  ASSUME NEW f, NEW D, IsFiniteSet(D), D # {}
  PROVE  \E x \in D : SumFunctionOnSet(f, D) = f[x] + SumFunctionOnSet(f, D \ {x})
<1> DEFINE x == CHOOSE y \in D : TRUE
           g == CHOOSE r : SumRecur(r, f, D)
           h == CHOOSE r : SumRecur(r, f, D \ {x})
<1>1. x \in D OBVIOUS
<1>2. IsFiniteSet(D \ {x}) /\ D \ {x} \in SUBSET D BY FS_Subset
<1>3. SumRecur(g, f, D) BY SumSolvable
<1>4. SumRecur(h, f, D \ {x})
  <2> HIDE DEF x
  <2> QED BY <1>2, SumSolvable
<1>5. SumFunctionOnSet(f, D) = g[D] BY SumIsRecur
<1>6. SumFunctionOnSet(f, D \ {x}) = h[D \ {x}] BY SumIsRecur
<1> HIDE DEF g, h
<1>7. g[D] = f[x] + g[D \ {x}] BY <1>3 DEF SumRecur
<1>8. g[D \ {x}] = h[D \ {x}]
  <2> HIDE DEF x
  <2> QED BY <1>2, <1>3, <1>4, SumUnique
<1> HIDE DEF x
<1> QED BY <1>1, <1>5, <1>6, <1>7, <1>8

(* Any element may be taken off, and a sum of integers is one. *)
LEMMA SumRemove ==
  ASSUME NEW f, NEW D, IsFiniteSet(D), \A i \in D : f[i] \in Int
  PROVE  /\ SumFunctionOnSet(f, D) \in Int
         /\ \A x \in D : SumFunctionOnSet(f, D) = f[x] + SumFunctionOnSet(f, D \ {x})
<1> DEFINE sum(u) == SumFunctionOnSet(f, u)
           Ok(u) == sum(u) \in Int /\ \A x \in u : sum(u) = f[x] + sum(u \ {x})
           B == {u \in SUBSET D : ~Ok(u)}
<1>0. sum({}) = 0 BY SumEmpty
<1>1. \A u \in SUBSET D : u # {} => \E x \in u : sum(u) = f[x] + sum(u \ {x})
  BY SumPick, FS_Subset
<1> HIDE DEF sum
<1>2. ASSUME B # {} PROVE FALSE
  <2>1. PICK U : Minimal(U, B)
    <3>1. B \in SUBSET (SUBSET D) OBVIOUS
    <3> HIDE DEF B
    <3> QED BY <1>2, <3>1, FiniteMinimal
  <2>2. U \in SUBSET D /\ ~Ok(U) BY <2>1 DEF Minimal
  <2>3. \A x \in U : Ok(U \ {x})
    <3> SUFFICES ASSUME NEW x \in U PROVE Ok(U \ {x})
      OBVIOUS
    <3>1. U \ {x} \notin B
      <4> HIDE DEF B
      <4> QED BY <2>1, Zenon DEF Minimal
    <3> HIDE DEF Ok
    <3> QED BY <2>2, <3>1
  <2>4. CASE U = {} BY <1>0, <2>2, <2>4
  <2>5. CASE U # {}
    <3>1. PICK c \in U : sum(U) = f[c] + sum(U \ {c}) BY <1>1, <2>2, <2>5
    <3>2. sum(U \ {c}) \in Int /\ f[c] \in Int BY <2>2, <2>3, <3>1
    <3>3. ASSUME NEW x \in U, x # c PROVE sum(U) = f[x] + sum(U \ {x})
      <4>1. sum(U \ {c}) = f[x] + sum((U \ {c}) \ {x}) BY <2>3, <3>1, <3>3
      <4>2. sum(U \ {x}) = f[c] + sum((U \ {x}) \ {c}) BY <2>3, <3>1, <3>3
      <4>3. (U \ {x}) \ {c} = (U \ {c}) \ {x} OBVIOUS
      <4>4. f[x] \in Int /\ sum(U \ {x}) \in Int BY <2>2, <2>3
      <4>5. sum((U \ {c}) \ {x}) \in Int
        <5>1. Ok((U \ {c}) \ {x})
          <6>1. (U \ {c}) \ {x} \notin B
            <7> HIDE DEF B
            <7> QED BY <2>1, <3>1, Zenon DEF Minimal
          <6> HIDE DEF Ok
          <6> QED BY <2>2, <6>1
        <5> QED BY <5>1
      <4>6. \A a, b, r \in Int : a + (b + r) = b + (a + r) OBVIOUS
      <4>7. f[c] + (f[x] + sum((U \ {c}) \ {x})) = f[x] + (f[c] + sum((U \ {c}) \ {x}))
        BY <3>2, <4>4, <4>5, <4>6
      <4> QED BY <3>1, <4>1, <4>2, <4>3, <4>7
    <3>4. sum(U) \in Int BY <3>1, <3>2
    <3>5. \A x \in U : sum(U) = f[x] + sum(U \ {x}) BY <3>1, <3>3
    <3>6. Ok(U) BY <3>4, <3>5
    <3> HIDE DEF Ok
    <3> QED BY <2>2, <3>6
  <2> QED BY <2>4, <2>5
<1>3. Ok(D)
  <2> HIDE DEF Ok
  <2> QED BY <1>2
<1> QED BY <1>3 DEF sum

(* Sums of equal amounts are equal. *)
LEMMA SumEqual ==
  ASSUME NEW f, NEW h, NEW D, IsFiniteSet(D), \A i \in D : f[i] \in Int /\ f[i] = h[i]
  PROVE  SumFunctionOnSet(f, D) = SumFunctionOnSet(h, D)
<1> DEFINE B == {u \in SUBSET D : SumFunctionOnSet(f, u) # SumFunctionOnSet(h, u)}
<1>1. ASSUME B # {} PROVE FALSE
  <2>1. PICK U : Minimal(U, B)
    <3>1. B \in SUBSET (SUBSET D) OBVIOUS
    <3> HIDE DEF B
    <3> QED BY <1>1, <3>1, FiniteMinimal
  <2>2. U \in SUBSET D /\ SumFunctionOnSet(f, U) # SumFunctionOnSet(h, U)
    BY <2>1 DEF Minimal
  <2>3. CASE U = {}
    BY <2>2, <2>3, SumEmpty
  <2>4. CASE U # {}
    <3>1. PICK x \in U : TRUE BY <2>4
    <3>2. IsFiniteSet(U) BY <2>2, FS_Subset
    <3>3. SumFunctionOnSet(f, U) = f[x] + SumFunctionOnSet(f, U \ {x})
      BY <2>2, <3>2, SumRemove
    <3>4. SumFunctionOnSet(h, U) = h[x] + SumFunctionOnSet(h, U \ {x})
      <4>1. \A i \in U : h[i] \in Int BY <2>2
      <4> QED BY <3>2, <4>1, SumRemove
    <3>5. U \ {x} \notin B
      <4> HIDE DEF B
      <4> QED BY <2>1, Zenon DEF Minimal
    <3>6. SumFunctionOnSet(f, U \ {x}) = SumFunctionOnSet(h, U \ {x}) BY <2>2, <3>5
    <3> QED BY <2>2, <3>3, <3>4, <3>6
  <2> QED BY <2>3, <2>4
<1> QED BY <1>1

(* A sum over fewer elements is no larger, and a sum of naturals is one. *)
LEMMA SumSubset ==
  ASSUME NEW f, NEW D, IsFiniteSet(D), \A i \in D : f[i] \in Nat, NEW E \in SUBSET D
  PROVE  /\ SumFunctionOnSet(f, E) \in Int /\ SumFunctionOnSet(f, D) \in Nat
         /\ SumFunctionOnSet(f, E) <= SumFunctionOnSet(f, D)
<1> DEFINE sum(u) == SumFunctionOnSet(f, u)
           B(e) == {u \in SUBSET D : e \subseteq u /\ ~(sum(e) <= sum(u))}
<1>1. \A u \in SUBSET D : /\ sum(u) \in Int
                          /\ \A x \in u : sum(u) = f[x] + sum(u \ {x})
  <2> SUFFICES ASSUME NEW u \in SUBSET D
               PROVE  sum(u) \in Int /\ \A x \in u : sum(u) = f[x] + sum(u \ {x})
    OBVIOUS
  <2>1. IsFiniteSet(u) /\ \A i \in u : f[i] \in Int BY FS_Subset
  <2> QED BY <2>1, SumRemove
<1>2. sum({}) = 0 BY SumEmpty
<1> HIDE DEF sum
<1>3. ASSUME NEW e \in SUBSET D, B(e) # {} PROVE FALSE
  <2>1. PICK U : Minimal(U, B(e))
    <3>1. B(e) \in SUBSET (SUBSET D) OBVIOUS
    <3> HIDE DEF B
    <3> QED BY <1>3, <3>1, FiniteMinimal
  <2>2. U \in SUBSET D /\ e \subseteq U /\ ~(sum(e) <= sum(U)) BY <2>1 DEF Minimal
  <2>3. CASE U = e BY <1>1, <2>2, <2>3
  <2>4. CASE U # e
    <3>1. PICK x \in U : x \notin e BY <2>2, <2>4
    <3>2. U \ {x} \notin B(e)
      <4> HIDE DEF B
      <4> QED BY <2>1, <3>1, Zenon DEF Minimal
    <3>3. sum(e) <= sum(U \ {x}) BY <2>2, <3>1, <3>2
    <3>4. f[x] \in Nat /\ sum(U \ {x}) \in Int /\ sum(e) \in Int BY <1>1, <2>2
    <3>5. sum(U) = f[x] + sum(U \ {x}) BY <1>1, <2>2
    <3> QED BY <2>2, <3>3, <3>4, <3>5
  <2> QED BY <2>3, <2>4
<1>4. \A e \in SUBSET D : sum(e) <= sum(D)
  <2> SUFFICES ASSUME NEW e \in SUBSET D PROVE sum(e) <= sum(D)
    OBVIOUS
  <2>1. D \notin B(e)
    <3> HIDE DEF B
    <3> QED BY <1>3
  <2> QED BY <2>1
<1>5. sum(D) \in Nat
  <2>1. sum({}) <= sum(D) /\ sum(D) \in Int BY <1>1, <1>4
  <2> QED BY <1>2, <2>1
<1> QED BY <1>1, <1>4, <1>5 DEF sum
=============================================================================
