----------------------------- MODULE FoldTheory -----------------------------
(***************************************************************************)
(* What the community modules' fold over a sequence computes, for any      *)
(* operator and any length: it goes through the sequence step by step, and *)
(* what every step keeps holds of the result.  A module that folds with an *)
(* operator of its own takes an instance of this one.                      *)
(***************************************************************************)
EXTENDS Naturals, Folds, WellFoundedInduction, TLAPS

CONSTANTS
  op(_, _, _),  \* one step: what the steps share, what is folded so far, the next element
  Good(_, _)    \* what the steps keep: what they share, what is folded so far

\* A set of numbers that is not empty has a least one.
LEMMA FoldLeast ==
  ASSUME NEW S, S \subseteq Nat, S # {}
  PROVE  \E x \in S : \A y \in S : x <= y
<1> DEFINE R == OpToRel(<, Nat)
<1>1. \A x \in Nat, y \in Nat : <<y, x>> \in R <=> y < x
  BY DEF OpToRel
<1>2. IsWellFoundedOn(R, Nat)
  BY NatLessThanWellFounded
<1> HIDE DEF R
<1>3. PICK x \in S : \A y \in S : ~ (<<y, x>> \in R)
  BY <1>2, WFMin
<1>4. ASSUME NEW y \in S  PROVE x <= y
  <2>1. x \in Nat /\ y \in Nat  OBVIOUS
  <2>2. ~ (y < x)  BY <1>1, <1>3, <2>1
  <2> QED  BY <2>1, <2>2
<1> QED  BY <1>4

\* Induction: what holds of 0 and passes from each number to the next holds up to n.
LEMMA FoldInduction ==
  ASSUME NEW n \in Nat, NEW H, 0 \in H,
         \A i \in 1 .. n : i - 1 \in H => i \in H
  PROVE  \A i \in 0 .. n : i \in H
<1> DEFINE S == {i \in 0 .. n : i \notin H}
<1>1. SUFFICES ASSUME S # {}  PROVE FALSE
  OBVIOUS
<1>2. S \subseteq Nat  OBVIOUS
<1> HIDE DEF S
<1>3. PICK x \in S : \A y \in S : x <= y
  BY <1>1, <1>2, FoldLeast
<1>4. x \in 0 .. n /\ x \notin H /\ x # 0  BY <1>3 DEF S
<1>5. x \in 1 .. n /\ x - 1 \in 0 .. n /\ x - 1 < x  BY <1>4
<1>6. x - 1 \in H  BY <1>3, <1>5 DEF S
<1> QED  BY <1>4, <1>5, <1>6

\* The greatest of a set of positions.
Greatest(s) == CHOOSE x \in s : \A y \in s : x >= y

LEMMA FoldGreatest ==
  ASSUME NEW n \in Nat, NEW s \in SUBSET (1 .. n), n \in s
  PROVE  Greatest(s) = n
<1>1. \A y \in s : n >= y  OBVIOUS
<1>2. \A x \in s : (\A y \in s : x >= y) => x = n  OBVIOUS
<1> QED  BY <1>1, <1>2 DEF Greatest

\* The fold is a function on the subsets of the positions.
Below(k, f, base, seq, s) ==
  IF s = {} THEN base ELSE op(k, f[s \ {Greatest(s)}], seq[Greatest(s)])

IsFold(k, f, base, seq, n) ==
  f = [s \in SUBSET (1 .. n) |-> Below(k, f, base, seq, s)]

LEMMA FoldExists ==
  ASSUME NEW k, NEW base, NEW seq, NEW n \in Nat
  PROVE  \E f : IsFold(k, f, base, seq, n)
<1> DEFINE H == {i \in 0 .. n : \E f : IsFold(k, f, base, seq, i)}
<1>1. 0 \in H
  <2> DEFINE f == [s \in SUBSET (1 .. 0) |-> base]
  <2>1. f = [s \in SUBSET (1 .. 0) |-> Below(k, f, base, seq, s)]
    <3>1. \A s \in SUBSET (1 .. 0) : s = {}  OBVIOUS
    <3>2. \A s \in SUBSET (1 .. 0) : Below(k, f, base, seq, s) = base  BY <3>1 DEF Below
    <3> QED  BY <3>2
  <2> HIDE DEF f
  <2>2. IsFold(k, f, base, seq, 0)  BY <2>1 DEF IsFold
  <2> QED  BY <2>2
<1>2. ASSUME NEW i \in 1 .. n, i - 1 \in H  PROVE i \in H
  <2>1. PICK f : IsFold(k, f, base, seq, i - 1)  BY <1>2
  <2> DEFINE g == [s \in SUBSET (1 .. i) |->
                     IF i \in s THEN op(k, f[s \ {i}], seq[i]) ELSE f[s]]
  <2>2. ASSUME NEW s \in SUBSET (1 .. i)
        PROVE  g[s] = Below(k, g, base, seq, s)
    <3>1. CASE i \in s
      <4>1. Greatest(s) = i  BY <3>1, FoldGreatest
      <4>2. s \ {i} \in SUBSET (1 .. i) /\ i \notin s \ {i}  OBVIOUS
      <4>3. g[s \ {i}] = f[s \ {i}]  BY <4>2
      <4>4. g[s] = op(k, f[s \ {i}], seq[i])  BY <3>1
      <4> HIDE DEF g
      <4> QED  BY <3>1, <4>1, <4>3, <4>4 DEF Below
    <3>2. CASE i \notin s
      <4>1. s \in SUBSET (1 .. (i - 1))  BY <3>2
      <4>2. g[s] = f[s]  BY <3>2
      <4>3. f[s] = Below(k, f, base, seq, s)  BY <2>1, <4>1, Zenon DEF IsFold
      <4>4. CASE s = {}  BY <4>2, <4>3, <4>4 DEF Below
      <4>5. CASE s # {}
        <5> DEFINE t == s \ {Greatest(s)}
        <5>1. t \in SUBSET (1 .. i) /\ i \notin t  BY <3>2
        <5>2. g[t] = f[t]  BY <5>1
        <5> HIDE DEF g
        <5> QED  BY <4>2, <4>3, <4>5, <5>2 DEF Below
      <4> QED  BY <4>4, <4>5
    <3> QED  BY <3>1, <3>2
  <2>3. IsFold(k, g, base, seq, i)
    <3> DEFINE h == g
    <3>1. h = [s \in SUBSET (1 .. i) |-> h[s]]  OBVIOUS
    <3>2. \A s \in SUBSET (1 .. i) : h[s] = Below(k, h, base, seq, s)  BY <2>2
    <3> HIDE DEF h
    <3>3. h = [s \in SUBSET (1 .. i) |-> Below(k, h, base, seq, s)]  BY <3>1, <3>2
    <3>4. IsFold(k, h, base, seq, i)  BY <3>3, Zenon DEF IsFold
    <3> QED  BY <3>4 DEF h
  <2> HIDE DEF g
  <2> QED  BY <2>3
<1> HIDE DEF H
<1>3. n \in H  BY <1>1, <1>2, FoldInduction
<1> QED  BY <1>3 DEF H

\* The fold goes through the sequence: acc[i] is what the first i elements give.
InTurn(k, acc, base, seq, n, result) ==
  /\ acc[0] = base
  /\ \A i \in 1 .. n : acc[i] = op(k, acc[i - 1], seq[i])
  /\ result = acc[n]

\* FoldLeft() of SequencesExt, with its own name for what the steps share.
Result(k, base, seq) ==
  MapThenFoldSet(LAMBDA x, a : op(k, a, x), base, LAMBDA i : seq[i], LAMBDA s : Greatest(s),
                 DOMAIN seq)

THEOREM FoldsInTurn ==
  ASSUME NEW k, NEW base, NEW seq, NEW n \in Nat, DOMAIN seq = 1 .. n
  PROVE  \E acc : InTurn(k, acc, base, seq, n, Result(k, base, seq))
<1> DEFINE f == CHOOSE g : IsFold(k, g, base, seq, n)
           acc == [i \in 0 .. n |-> f[1 .. i]]
<1>1. IsFold(k, f, base, seq, n)  BY FoldExists
<1>2. Result(k, base, seq) = f[1 .. n]
  BY Zenon DEF Result, MapThenFoldSet, IsFold, Below
<1> HIDE DEF f
<1>3. ASSUME NEW s \in SUBSET (1 .. n)  PROVE f[s] = Below(k, f, base, seq, s)
  BY <1>1, Zenon DEF IsFold
<1>4. acc[0] = base
  <2>1. 1 .. 0 = {} /\ {} \in SUBSET (1 .. n)  OBVIOUS
  <2>2. f[{}] = base  BY <1>3, <2>1 DEF Below
  <2> QED  BY <2>1, <2>2
<1>5. ASSUME NEW i \in 1 .. n  PROVE acc[i] = op(k, acc[i - 1], seq[i])
  <2>1. 1 .. i \in SUBSET (1 .. n) /\ i \in 1 .. i /\ 1 .. i # {}  OBVIOUS
  <2>2. Greatest(1 .. i) = i  BY FoldGreatest
  <2>3. (1 .. i) \ {i} = 1 .. (i - 1)  OBVIOUS
  <2>4. f[1 .. i] = op(k, f[1 .. (i - 1)], seq[i])
    BY <1>3, <2>1, <2>2, <2>3 DEF Below
  <2>5. acc[i] = f[1 .. i] /\ acc[i - 1] = f[1 .. (i - 1)]  OBVIOUS
  <2> QED  BY <2>4, <2>5
<1>6. acc[n] = f[1 .. n]  OBVIOUS
<1> HIDE DEF acc
<1>7. Result(k, base, seq) = acc[n]  BY <1>2, <1>6
<1> QED  BY <1>4, <1>5, <1>7, Zenon DEF InTurn

\* What holds of the base and is kept by every step holds of the fold.
THEOREM FoldKeeps ==
  ASSUME NEW k, NEW base, NEW seq, NEW n \in Nat, DOMAIN seq = 1 .. n,
         Good(k, base),
         \A acc, i : i \in 1 .. n /\ Good(k, acc) => Good(k, op(k, acc, seq[i]))
  PROVE  Good(k, Result(k, base, seq))
<1>1. PICK acc : InTurn(k, acc, base, seq, n, Result(k, base, seq))
  BY FoldsInTurn, Zenon
<1> DEFINE H == {i \in 0 .. n : Good(k, acc[i])}
<1>2. 0 \in H
  <2>1. acc[0] = base  BY <1>1, Zenon DEF InTurn
  <2>2. Good(k, acc[0])  BY <2>1
  <2> QED  BY <2>2
<1>3. ASSUME NEW i \in 1 .. n, i - 1 \in H  PROVE i \in H
  <2>1. Good(k, acc[i - 1])  BY <1>3
  <2>2. acc[i] = op(k, acc[i - 1], seq[i])  BY <1>1, Zenon DEF InTurn
  <2>3. Good(k, op(k, acc[i - 1], seq[i]))  BY <2>1, Zenon
  <2>4. Good(k, acc[i])  BY <2>2, <2>3
  <2> QED  BY <2>4
<1> HIDE DEF H
<1>4. n \in H
  <2>1. n \in 0 .. n  OBVIOUS
  <2>2. \A i \in 0 .. n : i \in H  BY <1>2, <1>3, FoldInduction
  <2> QED  BY <2>1, <2>2
<1>5. Good(k, acc[n])  BY <1>4 DEF H
<1>6. Result(k, base, seq) = acc[n]  BY <1>1, Zenon DEF InTurn
<1> QED  BY <1>5, <1>6
=============================================================================
