------------------------------ MODULE Induction ------------------------------
(***************************************************************************)
(* Induction over the natural numbers and over sequences, for sets rather  *)
(* than for predicates.  It rests on the strict subset ordering being      *)
(* well-founded on finite sets: n is taken as the set 0 .. n.              *)
(***************************************************************************)
EXTENDS Integers, SequenceTheorems, FiniteSetTheorems, WellFoundedInduction, TLAPS

(* A set of natural numbers has a least element, if it has any.             *)
LEMMA NatMin ==
  ASSUME NEW T \in SUBSET Nat, T # {}
  PROVE  \E x \in T : \A y \in T : x <= y
  <1> DEFINE R == StrictSubsetOrdering(Nat)
             D == {0 .. x : x \in T}
  <1>1. IsWellFoundedOn(R, FiniteSubsetsOf(Nat))
    BY FS_StrictSubsetOrderingWellFounded
  <1>2. \A x \in Nat : 0 .. x \in FiniteSubsetsOf(Nat)
    BY FS_Interval DEF FiniteSubsetsOf
  <1>3. D \subseteq FiniteSubsetsOf(Nat) /\ D # {}
    BY <1>2
  <1>4. PICK d \in D : \A e \in D : ~(<<e, d>> \in R)
    <2> HIDE DEF R, D
    <2> QED BY <1>1, <1>3, WFMin
  <1>5. PICK x \in T : d = 0 .. x
    OBVIOUS
  <1>6. ASSUME NEW y \in T, y < x
        PROVE  FALSE
    <2>1. 0 .. y \in D /\ d = 0 .. x /\ x \in Nat /\ y \in Nat
      BY <1>5
    <2>2. 0 .. y \subseteq 0 .. x /\ x \in 0 .. x /\ x \notin 0 .. y
      BY <1>6, <2>1
    <2>3. <<0 .. y, d>> \in R
      BY <1>2, <2>1, <2>2 DEF StrictSubsetOrdering
    <2> QED BY <1>4, <2>1, <2>3
  <1> QED BY <1>6

(* A set with 0, and with n + 1 for every n in it, has all natural numbers. *)
LEMMA NatInd ==
  ASSUME NEW T, 0 \in T, \A n \in Nat : n \in T => n + 1 \in T
  PROVE  \A n \in Nat : n \in T
  <1> SUFFICES ASSUME NEW n \in Nat, n \notin T
               PROVE  FALSE
    OBVIOUS
  <1> DEFINE C == Nat \ T
  <1>1. PICK x \in C : \A y \in C : x <= y
    <2>1. C \in SUBSET Nat /\ C # {}
      OBVIOUS
    <2> HIDE DEF C
    <2> QED BY <2>1, NatMin
  <1>2. x # 0
    OBVIOUS
  <1>3. x - 1 \in Nat /\ x - 1 < x /\ x - 1 + 1 = x
    BY <1>1, <1>2
  <1>4. x - 1 \in T
    BY <1>1, <1>3
  <1> QED BY <1>1, <1>3, <1>4

(* A set with the empty sequence, and with what is got by appending to any *)
(* sequence in it, has all sequences.                                      *)
LEMMA SeqInd ==
  ASSUME NEW S, NEW T, << >> \in T,
         \A w \in Seq(S) : \A x \in S : w \in T => Append(w, x) \in T
  PROVE  \A w \in Seq(S) : w \in T
  <1> DEFINE L == {n \in Nat : \A w \in Seq(S) : Len(w) = n => w \in T}
  <1>1. 0 \in L
    <2>1. \A w \in Seq(S) : Len(w) = 0 => w = << >>
      BY EmptySeq
    <2> QED BY <2>1
  <1>2. ASSUME NEW n \in Nat, n \in L
        PROVE  n + 1 \in L
    <2> SUFFICES ASSUME NEW w \in Seq(S), Len(w) = n + 1
                 PROVE  w \in T
      OBVIOUS
    <2> DEFINE v == SubSeq(w, 1, n)
    <2>1. \A i \in 1 .. n + 1 : w[i] \in S
      BY ElementOfSeq
    <2>2. v \in Seq(S) /\ Len(v) = n /\ \A i \in 1 .. n : v[i] = w[i]
      BY <2>1, SubSeqProperties
    <2>3. Append(v, w[n + 1]) = w
      <3>1. Append(v, w[n + 1]) \in Seq(S) /\ Len(Append(v, w[n + 1])) = n + 1
        BY <2>1, <2>2
      <3>2. \A i \in 1 .. n + 1 : Append(v, w[n + 1])[i] = w[i]
        BY <2>1, <2>2
      <3> HIDE DEF v
      <3> QED BY <3>1, <3>2, SeqEqual
    <2> HIDE DEF v
    <2>4. v \in T
      BY <1>2, <2>2
    <2>5. w[n + 1] \in S
      BY <2>1
    <2>6. Append(v, w[n + 1]) \in T
      BY <2>2, <2>4, <2>5
    <2> QED BY <2>3, <2>6
  <1>3. \A n \in Nat : n \in L
    <2> HIDE DEF L
    <2> QED BY <1>1, <1>2, NatInd
  <1> QED BY <1>3, EmptySeq, LenProperties
=============================================================================
