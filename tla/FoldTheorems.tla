---------------------------- MODULE FoldTheorems ----------------------------
(***************************************************************************)
(* What FoldLeft computes, step by step, for any operator Op: the fold of  *)
(* a sequence is the last value of a path that starts at the base and      *)
(* takes one element a step.  An instance of this module for a given       *)
(* operator lets a proof follow that path by induction on its index.       *)
(***************************************************************************)
EXTENDS SequencesExt, FiniteInduction, SequenceTheorems

CONSTANT Op(_, _)

(* The values of the fold along a sequence. *)
FoldPath(path, base, s) ==
  /\ path[0] = base
  /\ \A k \in 1 .. Len(s) : path[k] = Op(path[k - 1], s[k])

(* The equation behind FoldLeft: the fold over a set of indices takes the
   largest one last. *)
Recur(g, base, s, D) ==
  g = [u \in SUBSET D |-> IF u = {} THEN base ELSE Op(g[u \ {Max(u)}], s[Max(u)])]

(* FoldLeft is some solution of the equation. *)
LEMMA FoldIsRecur ==
  ASSUME NEW base, NEW s
  PROVE  FoldLeft(Op, base, s) = (CHOOSE g : Recur(g, base, s, DOMAIN s))[DOMAIN s]
BY DEF FoldLeft, MapThenFoldSet, Recur

(* The largest of some first indices. *)
LEMMA LargestIndex ==
  ASSUME NEW n \in Nat, NEW u \in SUBSET (1 .. n), u # {}
  PROVE  Max(u) \in u /\ \A k \in u : k <= Max(u)
<1>1. u \in SUBSET Int /\ IsFiniteSet(u)
  <2>1. IsFiniteSet(1 .. n) BY FS_Interval
  <2>2. IsFiniteSet(u) BY <2>1, FS_Subset
  <2>3. u \in SUBSET Int OBVIOUS
  <2> QED BY <2>2, <2>3
<1>2. \E x \in u : \A y \in u : x >= y BY <1>1, FiniteExtremes
<1>3. Max(u) \in u /\ \A y \in u : Max(u) >= y BY <1>2 DEF Max
<1> QED BY <1>1, <1>3

(* The equation has a solution over any first indices. *)
LEMMA RecurSolvable ==
  ASSUME NEW base, NEW s, NEW n \in Nat
  PROVE  \E g : Recur(g, base, s, 1 .. n)
<1> DEFINE T == {m \in Nat : \E g : Recur(g, base, s, 1 .. m)}
<1>1. 0 \in T
  <2> DEFINE g0 == [u \in SUBSET (1 .. 0) |-> base]
  <2>1. 1 .. 0 = {} OBVIOUS
  <2>2. g0 = [u \in SUBSET (1 .. 0) |->
                IF u = {} THEN base ELSE Op(g0[u \ {Max(u)}], s[Max(u)])]
    BY <2>1
  <2>3. Recur(g0, base, s, 1 .. 0) BY <2>2 DEF Recur
  <2> QED BY <2>3
<1>2. ASSUME NEW m \in Nat, m \in T PROVE m + 1 \in T
  <2>1. PICK g : Recur(g, base, s, 1 .. m) BY <1>2
  <2> DEFINE h == [u \in SUBSET (1 .. m + 1) |->
                     IF m + 1 \in u THEN Op(g[u \ {m + 1}], s[m + 1]) ELSE g[u]]
  <2>2. ASSUME NEW u \in SUBSET (1 .. m + 1)
        PROVE  h[u] = IF u = {} THEN base ELSE Op(h[u \ {Max(u)}], s[Max(u)])
    <3>1. CASE m + 1 \in u
      <4>1. Max(u) = m + 1
        <5>1. m + 1 \in Nat /\ u # {} BY <3>1
        <5>2. Max(u) \in u /\ \A k \in u : k <= Max(u) BY <5>1, LargestIndex
        <5>3. Max(u) \in 1 .. m + 1 /\ m + 1 <= Max(u) BY <3>1, <5>2
        <5> QED BY <5>3
      <4>2. u \ {m + 1} \in SUBSET (1 .. m + 1) /\ m + 1 \notin u \ {m + 1}
        OBVIOUS
      <4>3. h[u \ {m + 1}] = g[u \ {m + 1}] BY <4>2
      <4>4. h[u] = Op(g[u \ {m + 1}], s[m + 1]) BY <3>1
      <4> QED BY <3>1, <4>1, <4>3, <4>4
    <3>2. CASE m + 1 \notin u
      <4>1. u \in SUBSET (1 .. m) BY <3>2
      <4>2. g[u] = IF u = {} THEN base ELSE Op(g[u \ {Max(u)}], s[Max(u)])
        BY <2>1, <4>1 DEF Recur
      <4>3. u \ {Max(u)} \in SUBSET (1 .. m + 1) /\ m + 1 \notin u \ {Max(u)}
        BY <3>2
      <4>4. h[u \ {Max(u)}] = g[u \ {Max(u)}] BY <4>3
      <4>5. h[u] = g[u] BY <3>2
      <4> QED BY <4>2, <4>4, <4>5
    <3> QED BY <3>1, <3>2
  <2>3. h = [u \in SUBSET (1 .. m + 1) |->
               IF u = {} THEN base ELSE Op(h[u \ {Max(u)}], s[Max(u)])]
    <3> HIDE DEF h
    <3>1. h = [u \in SUBSET (1 .. m + 1) |-> h[u]] BY DEF h
    <3> QED BY <2>2, <3>1
  <2>4. Recur(h, base, s, 1 .. m + 1) BY <2>3 DEF Recur
  <2> QED BY <2>4
<1>3. Nat \subseteq T
  <2> HIDE DEF T
  <2> QED BY <1>1, <1>2, NatSetInduction
<1> QED BY <1>3

(* A fold is the end of a path. *)
LEMMA FoldFollowsPath ==
  ASSUME NEW S, NEW s \in Seq(S), NEW base
  PROVE  \E path : FoldPath(path, base, s) /\ FoldLeft(Op, base, s) = path[Len(s)]
<1> DEFINE n == Len(s)
           g == CHOOSE g : Recur(g, base, s, 1 .. n)
           path == [k \in 0 .. n |-> g[1 .. k]]
<1>1. n \in Nat /\ DOMAIN s = 1 .. n BY LenProperties
<1>2. Recur(g, base, s, 1 .. n) BY <1>1, RecurSolvable
<1>3. FoldLeft(Op, base, s) = g[1 .. n] BY <1>1, FoldIsRecur
<1> HIDE DEF g, n
<1>4. \A u \in SUBSET (1 .. n) :
        g[u] = IF u = {} THEN base ELSE Op(g[u \ {Max(u)}], s[Max(u)])
  BY <1>2 DEF Recur
<1>5. path[0] = base
  <2>1. 1 .. 0 = {} /\ 0 \in 0 .. n BY <1>1
  <2> QED BY <1>4, <2>1
<1>6. ASSUME NEW k \in 1 .. n PROVE path[k] = Op(path[k - 1], s[k])
  <2>1. 1 .. k \in SUBSET (1 .. n) /\ 1 .. k # {} /\ k \in Nat BY <1>1
  <2>2. Max(1 .. k) = k
    <3>1. Max(1 .. k) \in 1 .. k /\ \A i \in 1 .. k : i <= Max(1 .. k)
      BY <1>1, <2>1, LargestIndex
    <3> QED BY <2>1, <3>1
  <2>3. (1 .. k) \ {k} = 1 .. k - 1 BY <2>1
  <2>4. g[1 .. k] = Op(g[1 .. k - 1], s[k]) BY <1>4, <2>1, <2>2, <2>3
  <2> QED BY <1>1, <2>4
<1>7. path[n] = g[1 .. n] BY <1>1
<1> HIDE DEF path
<1>8. FoldPath(path, base, s) BY <1>5, <1>6 DEF FoldPath, n
<1> QED BY <1>3, <1>7, <1>8 DEF n

(* A fold over nothing is its base. *)
LEMMA FoldEmpty ==
  ASSUME NEW base
  PROVE  FoldLeft(Op, base, <<>>) = base
<1>1. <<>> \in Seq({}) /\ Len(<<>>) = 0
  BY EmptySeq
<1>2. PICK path : FoldPath(path, base, <<>>) /\ FoldLeft(Op, base, <<>>) = path[Len(<<>>)]
  BY <1>1, FoldFollowsPath
<1> QED BY <1>1, <1>2 DEF FoldPath

(* One more element is one more application, after the others. *)
LEMMA FoldAppend ==
  ASSUME NEW S, NEW s \in Seq(S), NEW x \in S, NEW base
  PROVE  FoldLeft(Op, base, Append(s, x)) = Op(FoldLeft(Op, base, s), x)
<1> DEFINE t == Append(s, x)
<1>1. /\ t \in Seq(S) /\ Len(s) \in Nat /\ Len(t) = Len(s) + 1
      /\ t[Len(s) + 1] = x /\ \A k \in 1 .. Len(s) : t[k] = s[k]
  BY AppendProperties, LenProperties
<1>2. PICK p : FoldPath(p, base, s) /\ FoldLeft(Op, base, s) = p[Len(s)]
  BY FoldFollowsPath
<1>3. PICK q : FoldPath(q, base, t) /\ FoldLeft(Op, base, t) = q[Len(t)]
  BY <1>1, FoldFollowsPath
<1> HIDE DEF t
<1> DEFINE T == {k \in Nat : k <= Len(s) => p[k] = q[k]}
<1>4. 0 \in T
  BY <1>2, <1>3 DEF FoldPath
<1>5. ASSUME NEW k \in Nat, k \in T PROVE k + 1 \in T
  <2> SUFFICES ASSUME k + 1 <= Len(s) PROVE p[k + 1] = q[k + 1]
    OBVIOUS
  <2>1. k + 1 \in 1 .. Len(s) /\ k + 1 \in 1 .. Len(t) /\ k <= Len(s) /\ (k + 1) - 1 = k
    BY <1>1
  <2>2. p[k + 1] = Op(p[k], s[k + 1]) BY <1>2, <2>1 DEF FoldPath
  <2>3. q[k + 1] = Op(q[k], t[k + 1]) BY <1>3, <2>1 DEF FoldPath
  <2>4. p[k] = q[k] BY <1>5, <2>1
  <2> QED BY <1>1, <2>1, <2>2, <2>3, <2>4
<1>6. Len(s) \in T
  <2> HIDE DEF T
  <2>1. Nat \subseteq T BY <1>4, <1>5, NatSetInduction
  <2> QED BY <1>1, <2>1
<1>7. Len(t) \in 1 .. Len(t) /\ Len(t) - 1 = Len(s)
  BY <1>1
<1>8. q[Len(t)] = Op(q[Len(s)], t[Len(t)])
  BY <1>3, <1>7 DEF FoldPath
<1> QED BY <1>1, <1>2, <1>3, <1>6, <1>8 DEF t
=============================================================================
