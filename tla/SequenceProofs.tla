--------------------------- MODULE SequenceProofs ---------------------------
(***************************************************************************)
(* What the proofs about calldata and logs need of naturals and sequences. *)
(* Induction is over a set of naturals: a property is the set of the       *)
(* numbers that have it, and that a set of naturals has a least element    *)
(* follows from the well-foundedness of finite sets.                       *)
(***************************************************************************)
EXTENDS Integers, SequencesExt, FiniteSetTheorems, TLAPS

-----------------------------------------------------------------------------
(* Induction.                                                              *)

(* A set of naturals has a least element.                                  *)
LEMMA LeastNatural ==
    ASSUME NEW T \in SUBSET Nat, T # {}
    PROVE  \E x \in T : \A y \in T : x <= y
<1> DEFINE U == {0 .. y : y \in T}
<1>1. U \subseteq FiniteSubsetsOf(Nat)
  <2>1. ASSUME NEW y \in T PROVE 0 .. y \in SUBSET Nat /\ IsFiniteSet(0 .. y)
    BY FS_Interval
  <2> QED
    BY <2>1 DEF FiniteSubsetsOf
<1>2. U # {}
  OBVIOUS
<1>3. PICK X \in U : \A Y \in U : <<Y, X>> \notin StrictSubsetOrdering(Nat)
  <2> HIDE DEF U
  <2> QED
    BY <1>1, <1>2, WFMin, FS_StrictSubsetOrderingWellFounded
<1>4. PICK x \in T : X = 0 .. x
  OBVIOUS
<1>5. ASSUME NEW y \in T PROVE x <= y
  <2>1. SUFFICES ASSUME y < x PROVE FALSE
    OBVIOUS
  <2>2. 0 .. y \in SUBSET Nat /\ 0 .. x \in SUBSET Nat /\ 0 .. y \subseteq 0 .. x
    BY <2>1
  <2>3. x \in 0 .. x /\ x \notin 0 .. y
    BY <2>1
  <2>4. 0 .. y # 0 .. x
    BY <2>3
  <2>5. <<0 .. y, 0 .. x>> \in StrictSubsetOrdering(Nat)
    BY <2>2, <2>4 DEF StrictSubsetOrdering
  <2> QED
    BY <1>3, <1>4, <2>5
<1> QED
  BY <1>5

LEMMA SetInduction ==
    ASSUME NEW T \in SUBSET Nat, 0 \in T, \A n \in T : n + 1 \in T
    PROVE  T = Nat
<1> SUFFICES ASSUME T # Nat PROVE FALSE
  OBVIOUS
<1>1. PICK x \in Nat \ T : \A y \in Nat \ T : x <= y
  BY LeastNatural
<1>2. x - 1 \in Nat /\ x - 1 \in T
  BY <1>1
<1>3. (x - 1) + 1 \in T
  BY <1>2
<1> QED
  BY <1>1, <1>3

-----------------------------------------------------------------------------
(* Sequences of anything.                                                  *)

IsSeq(s) == s \in Seq(Range(s))

LEMMA SeqIntro ==
    ASSUME NEW s, NEW n \in Nat, DOMAIN s = 1 .. n, s = [i \in 1 .. n |-> s[i]]
    PROVE  IsSeq(s) /\ Len(s) = n
<1>1. s \in [1 .. n -> Range(s)]
  BY DEF Range
<1> QED
  BY <1>1 DEF IsSeq

LEMMA AnySeq ==
    ASSUME NEW S, NEW u \in Seq(S)
    PROVE  IsSeq(u)
<1>1. Len(u) \in Nat /\ u = [i \in 1 .. Len(u) |-> u[i]] /\ DOMAIN u = 1 .. Len(u)
  OBVIOUS
<1> QED
  BY <1>1, SeqIntro

LEMMA Concat ==
    ASSUME NEW s, IsSeq(s), NEW t, IsSeq(t)
    PROVE  /\ IsSeq(s \o t)
           /\ Len(s) \in Nat /\ Len(t) \in Nat
           /\ Len(s \o t) = Len(s) + Len(t)
           /\ \A i \in 1 .. Len(s) : (s \o t)[i] = s[i]
           /\ \A i \in 1 .. Len(t) : (s \o t)[Len(s) + i] = t[i]
<1> DEFINE S == Range(s) \cup Range(t)
<1>1. s \in Seq(S) /\ t \in Seq(S)
  BY DEF IsSeq
<1> HIDE DEF S
<1>2. /\ s \o t \in Seq(S)
      /\ Len(s) \in Nat /\ Len(t) \in Nat
      /\ Len(s \o t) = Len(s) + Len(t)
      /\ \A i \in 1 .. Len(s) : (s \o t)[i] = s[i]
      /\ \A i \in 1 .. Len(t) : (s \o t)[Len(s) + i] = t[i]
  BY <1>1
<1> QED
  BY <1>2, AnySeq

(* One word in front of a sequence.                                        *)
PutBefore(x, d) == <<x>> \o d

LEMMA PutBeforeParts ==
    ASSUME NEW x, NEW d, IsSeq(d)
    PROVE  /\ IsSeq(PutBefore(x, d))
           /\ Len(PutBefore(x, d)) = 1 + Len(d)
           /\ PutBefore(x, d)[1] = x
           /\ \A i \in 1 .. Len(d) : PutBefore(x, d)[1 + i] = d[i]
<1> DEFINE a == <<x>>
<1>1. a \in Seq({x}) /\ Len(a) = 1 /\ a[1] = x
  OBVIOUS
<1>2. IsSeq(a)
  BY <1>1, AnySeq
<1> HIDE DEF a
<1>3. IsSeq(a \o d)
  BY <1>2, Concat
<1>4. Len(a \o d) = Len(a) + Len(d)
  BY <1>2, Concat
<1>5. \A i \in 1 .. Len(a) : (a \o d)[i] = a[i]
  BY <1>2, Concat
<1>6. \A i \in 1 .. Len(d) : (a \o d)[Len(a) + i] = d[i]
  BY <1>2, Concat
<1> QED
  BY <1>1, <1>3, <1>4, <1>5, <1>6 DEF a, PutBefore
=============================================================================
