--------------------------- MODULE CalldataProofs ---------------------------
(***************************************************************************)
(* The EntryPoint reads from handleOps calldata the operations that were   *)
(* put into it, for a bundle of any length and byte strings of any length. *)
(* Recursion is over lengths, and so are the lemmas on the operators.      *)
(***************************************************************************)
EXTENDS PackedOps, SequenceProofs

-----------------------------------------------------------------------------
(* The widths.                                                             *)

LEMMA Widths ==
    /\ Narrow \in Nat \ {0}
    /\ Half \in Nat \ {0}
    /\ Word \in Nat \ {0}
<1>1. Narrow \in Nat /\ Narrow > 0
  BY WidthAssumption
<1>2. Half \in Nat /\ Half > 0
  BY <1>1 DEF Half
<1>3. Word \in Nat /\ Word > 0
  BY <1>2 DEF Word
<1> QED
  BY <1>1, <1>2, <1>3

LEMMA DivSmaller ==
    ASSUME NEW n \in Nat \ {0}
    PROVE  n \div Byte \in 0 .. (n - 1)
<1>1. Byte \in Nat /\ Byte >= 2
  BY WidthAssumption
<1> DEFINE q == n \div Byte
           r == n % Byte
<1>2. q \in Nat /\ r \in Nat /\ n = Byte * q + r
  BY <1>1
<1> HIDE DEF q, r
<1>3. Byte * q >= 2 * q /\ Byte * q \in Nat
  BY <1>1, <1>2
<1>4. q \in 0 .. (n - 1)
  BY <1>2, <1>3
<1> QED
  BY <1>4 DEF q

(* The recursion that defines Leading has a solution.                      *)
LEMMA LeadingDef ==
    Leading = [n \in Nat |-> IF n < Word THEN n ELSE Leading[n \div Byte]]
<1> DEFINE Solves(g, m) ==
             \A n \in 0 .. m : g[n] = IF n < Word THEN n ELSE g[n \div Byte]
           T == {m \in Nat : \E g : Solves(g, m)}
<1>0. Word \in Nat \ {0} /\ Byte \in Nat \ {0, 1}
  BY Widths, WidthAssumption
<1>1. T = Nat
  <2>1. 0 \in T
    <3>1. Solves([n \in Nat |-> n], 0)
      BY <1>0
    <3> QED
      BY <3>1
  <2>2. ASSUME NEW m \in T PROVE m + 1 \in T
    <3>1. PICK g : Solves(g, m)
      OBVIOUS
    <3> DEFINE h == [n \in Nat |-> IF n <= m THEN g[n]
                                   ELSE IF n < Word THEN n ELSE g[n \div Byte]]
    <3>2. ASSUME NEW n \in 0 .. (m + 1)
          PROVE  h[n] = IF n < Word THEN n ELSE h[n \div Byte]
      <4>1. n >= Word => n \div Byte \in 0 .. m
        BY <1>0, DivSmaller
      <4>2. n >= Word => h[n \div Byte] = g[n \div Byte]
        BY <4>1
      <4>3. CASE n <= m
        BY <3>1, <4>2, <4>3, <1>0
      <4>4. CASE n = m + 1
        BY <4>2, <4>4, <1>0
      <4> QED
        BY <4>3, <4>4
    <3>3. Solves(h, m + 1)
      BY <3>2
    <3> HIDE DEF h, Solves
    <3>4. \E x : Solves(x, m + 1)
      BY <3>3
    <3> QED
      BY <3>4
  <2> HIDE DEF T
  <2>3. T \in SUBSET Nat
    BY DEF T
  <2> QED
    BY <2>1, <2>2, <2>3, SetInduction
<1>2. ASSUME NEW g, NEW h, NEW m \in Nat, Solves(g, m), NEW k \in Nat, Solves(h, k), k <= m
      PROVE  g[k] = h[k]
  <2> DEFINE D == {n \in Nat : n <= k /\ g[n] # h[n]}
  <2>1. SUFFICES ASSUME D # {} PROVE FALSE
    OBVIOUS
  <2>2. PICK n \in D : \A y \in D : n <= y
    <3> HIDE DEF D
    <3>1. D \in SUBSET Nat
      BY DEF D
    <3> QED
      BY <2>1, <3>1, LeastNatural
  <2>3. n >= Word
    BY <1>0, <1>2, <2>2
  <2>4. n \div Byte \in 0 .. (n - 1)
    BY <1>0, <2>3, DivSmaller
  <2>5. g[n \div Byte] = h[n \div Byte]
    BY <2>2, <2>4
  <2>6. g[n] = g[n \div Byte] /\ h[n] = h[n \div Byte]
    BY <1>0, <1>2, <2>2, <2>3, SMTT(30)
  <2> QED
    BY <2>2, <2>5, <2>6
<1> DEFINE part(m) == CHOOSE g : Solves(g, m)
           f == [n \in Nat |-> part(n)[n]]
<1>3. ASSUME NEW m \in Nat PROVE Solves(part(m), m)
  BY <1>1
<1> HIDE DEF Solves
<1>4. ASSUME NEW m \in Nat, NEW k \in Nat, k <= m
      PROVE  part(m)[k] = f[k]
  <2>1. part(m)[k] = part(k)[k]
    <3> HIDE DEF part
    <3> QED
      BY <1>2, <1>3, <1>4
  <2> QED
    BY <2>1
<1> HIDE DEF part, f
<1>5. ASSUME NEW n \in Nat
      PROVE  f[n] = IF n < Word THEN n ELSE f[n \div Byte]
  <2>1. part(n)[n] = IF n < Word THEN n ELSE part(n)[n \div Byte]
    BY <1>3 DEF Solves
  <2>2. n >= Word => n \div Byte \in 0 .. (n - 1)
    <3>1. n >= Word => n \in Nat \ {0}
      BY <1>0
    <3> QED
      BY <3>1, DivSmaller
  <2>3. part(n)[n] = f[n]
    BY <1>4
  <2>4. n >= Word => part(n)[n \div Byte] = f[n \div Byte]
    BY <1>4, <2>2
  <2>5. n < Word \/ n >= Word
    BY <1>0
  <2> QED
    BY <1>0, <2>1, <2>3, <2>4, <2>5
<1>6. f = [n \in Nat |-> IF n < Word THEN n ELSE f[n \div Byte]]
  <2>1. f = [n \in Nat |-> f[n]]
    BY DEF f
  <2> QED
    BY <1>5, <2>1
<1>7. \E g : g = [n \in Nat |-> IF n < Word THEN n ELSE g[n \div Byte]]
  BY <1>6
<1> QED
  BY <1>7 DEF Leading

(* A word holds what fits a word, and is left alone when it is read again. *)
LEMMA WordKeeps ==
    ASSUME NEW n \in 0 .. (Word - 1)
    PROVE  WordOf(n) = n
<1>1. n \in Nat /\ n < Word /\ Magnitude(n) = n
  BY Widths DEF Magnitude
<1>2. Leading[n] = n
  BY <1>1, LeadingDef
<1> QED
  BY <1>1, <1>2 DEF WordOf

LEMMA WordFits ==
    ASSUME NEW n \in Int
    PROVE  WordOf(n) \in 0 .. (Word - 1)
<1>0. Word \in Nat \ {0}
  BY Widths
<1> DEFINE D == {m \in Nat : Leading[m] \notin 0 .. (Word - 1)}
<1>1. D = {}
  <2> SUFFICES ASSUME D # {} PROVE FALSE
    OBVIOUS
  <2>1. PICK m \in D : \A y \in D : m <= y
    <3> HIDE DEF D
    <3>1. D \in SUBSET Nat
      BY DEF D
    <3> QED
      BY <3>1, LeastNatural
  <2>2. Leading[m] = IF m < Word THEN m ELSE Leading[m \div Byte]
    BY LeadingDef
  <2>3. m >= Word
    BY <1>0, <2>2
  <2>4. m \in Nat \ {0}
    BY <1>0, <2>3
  <2>5. m \div Byte \in 0 .. (m - 1)
    BY <2>4, DivSmaller
  <2>6. m \div Byte \notin D
    BY <2>1, <2>5
  <2> QED
    BY <1>0, <2>2, <2>3, <2>5, <2>6
<1>2. Magnitude(n) \in Nat
  BY DEF Magnitude
<1> QED
  BY <1>1, <1>2 DEF WordOf

-----------------------------------------------------------------------------
(* Words in calldata.                                                      *)

(* The words of s stand in data from the place at.                         *)
Holds(data, at, s) == \A i \in 1 .. Len(s) : data[at + i - 1] = s[i]

LEMMA HoldsParts ==
    ASSUME NEW data, NEW at \in Int, NEW s, IsSeq(s), NEW t, IsSeq(t),
           Holds(data, at, s \o t)
    PROVE  Holds(data, at, s) /\ Holds(data, at + Len(s), t)
<1>1. \A i \in 1 .. Len(s) : i \in 1 .. Len(s \o t)
  BY Concat
<1>2. Holds(data, at, s)
  BY <1>1, Concat DEF Holds
<1>3. ASSUME NEW i \in 1 .. Len(t) PROVE data[(at + Len(s)) + i - 1] = t[i]
  <2>1. Len(s) \in Nat /\ Len(t) \in Nat /\ Len(s) + i \in 1 .. Len(s \o t)
    BY Concat
  <2>2. data[at + (Len(s) + i) - 1] = (s \o t)[Len(s) + i]
    BY <2>1 DEF Holds
  <2>3. at + (Len(s) + i) - 1 = (at + Len(s)) + i - 1
    BY <2>1
  <2> QED
    BY <2>2, <2>3, Concat
<1> QED
  BY <1>2, <1>3 DEF Holds

-----------------------------------------------------------------------------
(* Byte strings.                                                           *)

(* The words of n bytes hold them all.                                     *)
LEMMA WordsForType ==
    ASSUME NEW n \in Nat
    PROVE  WordsFor(n) \in Nat /\ WordLen * WordsFor(n) >= n
<1>1. WordLen \in Nat /\ WordLen > 0 /\ n + WordLen - 1 \in Nat
  BY WidthAssumption
<1> DEFINE m == WordsFor(n)
           x == (n + WordLen - 1) % WordLen
<1>2. m \in Nat /\ x \in 0 .. (WordLen - 1) /\ WordLen * m + x = n + WordLen - 1
  BY <1>1 DEF WordsFor
<1> HIDE DEF m, x
<1>3. WordLen * m \in Nat
  BY <1>1, <1>2
<1>4. WordLen * m >= n
  BY <1>1, <1>2, <1>3
<1> QED
  BY <1>2, <1>4 DEF m

(* The place of byte i: in which word, and where in it.                    *)
LEMMA PlaceOfByte ==
    ASSUME NEW n \in Nat, NEW i \in 1 .. n
    PROVE  /\ (i - 1) \div WordLen \in Nat
           /\ (i - 1) % WordLen \in 0 .. (WordLen - 1)
           /\ ((i - 1) \div WordLen) + 1 \in 1 .. WordsFor(n)
           /\ ((i - 1) \div WordLen) * WordLen + ((i - 1) % WordLen) + 1 = i
<1>1. WordLen \in Nat /\ WordLen > 0
  BY WidthAssumption
<1> DEFINE q == (i - 1) \div WordLen
           r == (i - 1) % WordLen
           m == WordsFor(n)
<1>2. i - 1 \in Nat
  BY <1>1
<1>3. q \in Nat /\ r \in 0 .. (WordLen - 1) /\ WordLen * q + r = i - 1
  BY <1>1, <1>2
<1>4. m \in Nat /\ WordLen * m >= n
  BY WordsForType
<1> HIDE DEF q, r, m
<1>5. WordLen * q \in Nat /\ WordLen * m \in Nat /\ q * WordLen = WordLen * q
  BY <1>1, <1>3, <1>4
<1>6. q < m
  <2> SUFFICES ASSUME q >= m PROVE FALSE
    BY <1>3, <1>4
  <2>1. WordLen * q >= WordLen * m
    BY <1>1, <1>3, <1>4
  <2> QED
    BY <1>1, <1>3, <1>4, <1>5, <2>1
<1>7. q + 1 \in 1 .. m /\ q * WordLen + r + 1 = i
  BY <1>1, <1>3, <1>4, <1>5, <1>6
<1> QED
  BY <1>3, <1>7 DEF q, r, m

LEMMA EncodedBytes ==
    ASSUME NEW d, IsSeq(d)
    PROVE  /\ IsSeq(EncodeBytes(d))
           /\ Len(EncodeBytes(d)) = 1 + WordsFor(Len(d))
           /\ EncodeBytes(d)[1] = Len(d)
           /\ \A k \in 1 .. WordsFor(Len(d)) : EncodeBytes(d)[1 + k] = PaddedWords(d)[k]
<1>1. Len(d) \in Nat /\ WordsFor(Len(d)) \in Nat
  BY WordsForType DEF IsSeq
<1>2. IsSeq(PaddedWords(d)) /\ Len(PaddedWords(d)) = WordsFor(Len(d))
  <2>1. /\ DOMAIN PaddedWords(d) = 1 .. WordsFor(Len(d))
        /\ PaddedWords(d) = [i \in 1 .. WordsFor(Len(d)) |-> PaddedWords(d)[i]]
    BY DEF PaddedWords
  <2> QED
    BY <1>1, <2>1, SeqIntro
<1>3. IsSeq(<<Len(d)>>) /\ Len(<<Len(d)>>) = 1 /\ <<Len(d)>>[1] = Len(d)
  <2>1. <<Len(d)>> \in Seq({Len(d)})
    OBVIOUS
  <2> QED
    BY <2>1, AnySeq
<1> DEFINE hd == <<Len(d)>>
           tl == PaddedWords(d)
<1>4. EncodeBytes(d) = hd \o tl /\ IsSeq(hd) /\ IsSeq(tl) /\ Len(hd) = 1
  BY <1>2, <1>3 DEF EncodeBytes
<1>5. hd[1] = Len(d) /\ Len(tl) = WordsFor(Len(d))
  BY <1>2, <1>3
<1>6. \A k \in 1 .. WordsFor(Len(d)) : PaddedWords(d)[k] = tl[k]
  OBVIOUS
<1> HIDE DEF hd, tl
<1>7. /\ IsSeq(hd \o tl) /\ Len(hd \o tl) = Len(hd) + Len(tl)
      /\ \A k \in 1 .. Len(hd) : (hd \o tl)[k] = hd[k]
      /\ \A k \in 1 .. Len(tl) : (hd \o tl)[Len(hd) + k] = tl[k]
  <2>1. IsSeq(hd) /\ IsSeq(tl)
    BY <1>4
  <2>2. IsSeq(hd \o tl)
    BY <2>1, Concat
  <2>3. Len(hd \o tl) = Len(hd) + Len(tl)
    BY <2>1, Concat
  <2>4. \A k \in 1 .. Len(hd) : (hd \o tl)[k] = hd[k]
    BY <2>1, Concat
  <2>5. \A k \in 1 .. Len(tl) : (hd \o tl)[Len(hd) + k] = tl[k]
    BY <2>1, Concat
  <2> QED
    BY <2>2, <2>3, <2>4, <2>5
<1> QED
  BY <1>1, <1>4, <1>5, <1>6, <1>7

(* Reading back gives the bytes, without the padding.                      *)
LEMMA DecodedBytes ==
    ASSUME NEW d, IsSeq(d), NEW data, NEW at \in Int, Holds(data, at, EncodeBytes(d))
    PROVE  DecodeBytes(data, at) = d
<1> DEFINE n == Len(d)
<1>1. n \in Nat /\ WordsFor(n) \in Nat /\ d = [i \in 1 .. n |-> d[i]]
  BY WordsForType DEF IsSeq
<1>2. data[at] = n
  <2>1. 1 \in 1 .. Len(EncodeBytes(d)) /\ at + 1 - 1 = at
    BY <1>1, EncodedBytes
  <2> QED
    BY <2>1, EncodedBytes DEF Holds
<1>3. ASSUME NEW i \in 1 .. n
      PROVE  data[at + 1 + ((i - 1) \div WordLen)][1 + ((i - 1) % WordLen)] = d[i]
  <2> DEFINE q == (i - 1) \div WordLen
             r == (i - 1) % WordLen
  <2>1. /\ q \in Nat /\ r \in 0 .. (WordLen - 1) /\ q + 1 \in 1 .. WordsFor(n)
        /\ q * WordLen + r + 1 = i
    BY <1>1, PlaceOfByte
  <2> HIDE DEF q, r
  <2>2. q + 2 \in 1 .. Len(EncodeBytes(d)) /\ at + (q + 2) - 1 = at + 1 + q /\ q + 2 = 1 + (q + 1)
    <3>1. Len(EncodeBytes(d)) = 1 + WordsFor(n)
      BY EncodedBytes
    <3>2. q \in Nat /\ q + 1 <= WordsFor(n) /\ WordsFor(n) \in Nat
      BY <1>1, <2>1
    <3> HIDE DEF n
    <3> QED
      BY <3>1, <3>2
  <2>3. data[at + 1 + q] = PaddedWords(d)[q + 1]
    BY <2>1, <2>2, EncodedBytes DEF Holds
  <2>4. 1 + r \in 1 .. WordLen
    BY <2>1, WidthAssumption
  <2>5. (q + 1) - 1 = q /\ q * WordLen + (1 + r) = i
    BY <2>1, WidthAssumption
  <2>6. PaddedWords(d)[q + 1][1 + r] = d[i]
    BY <1>1, <2>1, <2>4, <2>5 DEF PaddedWords
  <2> QED
    BY <2>3, <2>6 DEF q, r
<1>4. DecodeBytes(data, at) = [i \in 1 .. n |-> d[i]]
  BY <1>2, <1>3 DEF DecodeBytes
<1> QED
  BY <1>1, <1>4

-----------------------------------------------------------------------------
(* One operation.                                                          *)

ByteStrings == {"initCode", "callData", "paymasterAndData", "signature"}

HasBytes(op) == \A f \in ByteStrings : IsSeq(op[f])

(* The operation as the EntryPoint sees it: numbers cut to words.          *)
AsWords(op) ==
    [sender |-> op.sender, nonce |-> WordOf(op.nonce), initCode |-> op.initCode,
     callData |-> op.callData, accountGasLimits |-> op.accountGasLimits,
     preVerificationGas |-> WordOf(op.preVerificationGas), gasFees |-> op.gasFees,
     paymasterAndData |-> op.paymasterAndData, signature |-> op.signature]

LEMMA NineTuple ==
    ASSUME NEW a, NEW b, NEW c, NEW d, NEW e, NEW f, NEW g, NEW h, NEW i
    PROVE  /\ IsSeq(<<a, b, c, d, e, f, g, h, i>>)
           /\ Len(<<a, b, c, d, e, f, g, h, i>>) = 9
<1>1. <<a, b, c, d, e, f, g, h, i>> \in Seq({a, b, c, d, e, f, g, h, i})
  OBVIOUS
<1> QED
  BY <1>1, AnySeq

(* Where the parts of an encoded operation stand.                          *)
LEMMA EncodedOp ==
    ASSUME NEW op, HasBytes(op)
    PROVE  /\ IsSeq(EncodePackedUserOp(op))
           /\ Len(EncodePackedUserOp(op)) \in Nat
           /\ \A data : \A at \in Int : Holds(data, at, EncodePackedUserOp(op)) =>
                DecodeTuple(data, at) = AsWords(op)
<1> DEFINE ic == EncodeBytes(op.initCode)
           cd == EncodeBytes(op.callData)
           pm == EncodeBytes(op.paymasterAndData)
           sg == EncodeBytes(op.signature)
           cdAt == HeadSize + Len(ic)
           pmAt == cdAt + Len(cd)
           sgAt == pmAt + Len(pm)
           hd == <<op.sender, WordOf(op.nonce), HeadSize, cdAt, op.accountGasLimits,
                   WordOf(op.preVerificationGas), op.gasFees, pmAt, sgAt>>
           u1 == hd \o ic
           u2 == u1 \o cd
           u3 == u2 \o pm
           u4 == u3 \o sg
<1>1. /\ IsSeq(op.initCode) /\ IsSeq(op.callData)
      /\ IsSeq(op.paymasterAndData) /\ IsSeq(op.signature)
  BY DEF HasBytes, ByteStrings
<1>2. IsSeq(ic) /\ IsSeq(cd) /\ IsSeq(pm) /\ IsSeq(sg)
  BY <1>1, EncodedBytes
<1>3. Len(ic) \in Nat /\ Len(cd) \in Nat /\ Len(pm) \in Nat /\ Len(sg) \in Nat
  BY <1>2 DEF IsSeq
<1>4. IsSeq(hd) /\ Len(hd) = 9
  BY NineTuple
<1>5. EncodePackedUserOp(op) = u4
  BY DEF EncodePackedUserOp
<1>6. /\ hd[1] = op.sender /\ hd[2] = WordOf(op.nonce) /\ hd[3] = HeadSize /\ hd[4] = cdAt
      /\ hd[5] = op.accountGasLimits /\ hd[6] = WordOf(op.preVerificationGas)
      /\ hd[7] = op.gasFees /\ hd[8] = pmAt /\ hd[9] = sgAt
  OBVIOUS
<1>7. HeadSize = 9 /\ cdAt \in Nat /\ pmAt \in Nat /\ sgAt \in Nat
  BY <1>3 DEF HeadSize
<1> HIDE DEF hd, ic, cd, pm, sg, u1, u2, u3, u4
<1>8. IsSeq(u1) /\ Len(u1) = cdAt
  <2>1. IsSeq(hd \o ic)
    BY <1>2, <1>4, Concat
  <2>2. Len(hd \o ic) = Len(hd) + Len(ic)
    BY <1>2, <1>4, Concat
  <2> QED
    BY <1>4, <1>7, <2>1, <2>2 DEF u1
<1>9. IsSeq(u2) /\ Len(u2) = pmAt
  <2>1. IsSeq(u1 \o cd)
    BY <1>2, <1>8, Concat
  <2>2. Len(u1 \o cd) = Len(u1) + Len(cd)
    BY <1>2, <1>8, Concat
  <2> QED
    BY <1>8, <2>1, <2>2 DEF u2
<1>10. IsSeq(u3) /\ Len(u3) = sgAt
  <2>1. IsSeq(u2 \o pm)
    BY <1>2, <1>9, Concat
  <2>2. Len(u2 \o pm) = Len(u2) + Len(pm)
    BY <1>2, <1>9, Concat
  <2> QED
    BY <1>9, <2>1, <2>2 DEF u3
<1>11. IsSeq(u4)
  BY <1>2, <1>10, Concat DEF u4
<1>12. Len(u4) \in Nat
  BY <1>11 DEF IsSeq
<1>13. ASSUME NEW data, NEW at \in Int, Holds(data, at, u4)
       PROVE  DecodeTuple(data, at) = AsWords(op)
  <2>1. Holds(data, at, u3) /\ Holds(data, at + sgAt, sg)
    BY <1>2, <1>10, <1>13, HoldsParts DEF u4
  <2>2. Holds(data, at, u2) /\ Holds(data, at + pmAt, pm)
    BY <1>2, <1>9, <2>1, HoldsParts DEF u3
  <2>3. Holds(data, at, u1) /\ Holds(data, at + cdAt, cd)
    BY <1>2, <1>8, <2>2, HoldsParts DEF u2
  <2>4. Holds(data, at, hd) /\ Holds(data, at + 9, ic)
    BY <1>2, <1>4, <2>3, HoldsParts DEF u1
  <2>5. ASSUME NEW k \in 0 .. 8 PROVE data[at + k] = hd[k + 1]
    <3>1. k + 1 \in 1 .. Len(hd) /\ at + (k + 1) - 1 = at + k
      BY <1>4
    <3> QED
      BY <2>4, <3>1 DEF Holds
  <2>6. /\ data[at] = op.sender /\ data[at + 1] = WordOf(op.nonce)
        /\ data[at + 2] = 9 /\ data[at + 3] = cdAt
        /\ data[at + 4] = op.accountGasLimits /\ data[at + 5] = WordOf(op.preVerificationGas)
        /\ data[at + 6] = op.gasFees /\ data[at + 7] = pmAt /\ data[at + 8] = sgAt
    <3>1. at + 0 = at
      OBVIOUS
    <3> HIDE DEF cdAt, pmAt, sgAt
    <3> QED
      BY <1>6, <1>7, <2>5, <3>1
  <2> HIDE DEF cdAt, pmAt, sgAt
  <2>7. /\ DecodeBytes(data, at + 9) = op.initCode
        /\ DecodeBytes(data, at + cdAt) = op.callData
        /\ DecodeBytes(data, at + pmAt) = op.paymasterAndData
        /\ DecodeBytes(data, at + sgAt) = op.signature
    BY <1>1, <1>7, <2>1, <2>2, <2>3, <2>4, DecodedBytes DEF ic, cd, pm, sg
  <2> QED
    BY <2>6, <2>7 DEF DecodeTuple, AsWords
<1> QED
  BY <1>5, <1>11, <1>12, <1>13

-----------------------------------------------------------------------------
(* A bundle: the tuples one after the other.                               *)

(* What FlattenSeq recurs over, up to m.                                   *)
Flattens(s, h, m) ==
    h = [i \in 1 .. m |-> IF i = 1 THEN s[i] ELSE h[i - 1] \o s[i]]

LEMMA FlattenDef ==
    ASSUME NEW s, IsSeq(s), Len(s) # 0
    PROVE  \E h : Flattens(s, h, Len(s)) /\ FlattenSeq(s) = h[Len(s)]
<1> DEFINE T == {m \in Nat : \E h : Flattens(s, h, m)}
<1>0. Len(s) \in Nat
  BY DEF IsSeq
<1>1. T = Nat
  <2>1. 0 \in T
    <3>1. Flattens(s, [i \in 1 .. 0 |-> s], 0)
      BY DEF Flattens
    <3> QED
      BY <3>1
  <2>2. ASSUME NEW m \in T PROVE m + 1 \in T
    <3>1. PICK g : Flattens(s, g, m)
      OBVIOUS
    <3> DEFINE h == [i \in 1 .. (m + 1) |->
                       IF i <= m THEN g[i]
                       ELSE IF i = 1 THEN s[i] ELSE g[i - 1] \o s[i]]
    <3>2. ASSUME NEW i \in 1 .. (m + 1)
          PROVE  h[i] = IF i = 1 THEN s[i] ELSE h[i - 1] \o s[i]
      <4>1. i # 1 => i - 1 \in 1 .. (m + 1) /\ i - 1 <= m
        OBVIOUS
      <4>2. i # 1 => h[i - 1] = g[i - 1]
        BY <4>1
      <4>3. i <= m => h[i] = g[i] /\ i \in 1 .. m
        OBVIOUS
      <4>4. i <= m => g[i] = IF i = 1 THEN s[i] ELSE g[i - 1] \o s[i]
        BY <3>1, <4>3 DEF Flattens
      <4>5. ~(i <= m) => h[i] = IF i = 1 THEN s[i] ELSE g[i - 1] \o s[i]
        OBVIOUS
      <4> HIDE DEF h
      <4> QED
        BY <4>2, <4>3, <4>4, <4>5
    <3>3. h = [i \in 1 .. (m + 1) |-> h[i]]
      OBVIOUS
    <3> HIDE DEF h
    <3>4. Flattens(s, h, m + 1)
      BY <3>2, <3>3 DEF Flattens
    <3> QED
      BY <3>4
  <2> HIDE DEF T
  <2>3. T \in SUBSET Nat
    BY DEF T
  <2> QED
    BY <2>1, <2>2, <2>3, SetInduction
<1>2. \E h : Flattens(s, h, Len(s))
  BY <1>0, <1>1
<1> DEFINE f == CHOOSE h : Flattens(s, h, Len(s))
<1>3. Flattens(s, f, Len(s))
  BY <1>2
<1>4. FlattenSeq(s) = f[Len(s)]
  BY DEF FlattenSeq, Flattens
<1> QED
  BY <1>3, <1>4

LEMMA FlattenUnique ==
    ASSUME NEW s, NEW g, NEW m \in Nat, Flattens(s, g, m),
           NEW t, NEW h, NEW k \in Nat, Flattens(t, h, k),
           k <= m, \A i \in 1 .. k : s[i] = t[i]
    PROVE  \A i \in 1 .. k : g[i] = h[i]
<1> DEFINE D == {i \in Nat : i \in 1 .. k /\ g[i] # h[i]}
<1>1. SUFFICES ASSUME D # {} PROVE FALSE
  OBVIOUS
<1>2. PICK i \in D : \A j \in D : i <= j
  <2> HIDE DEF D
  <2>1. D \in SUBSET Nat
    BY DEF D
  <2> QED
    BY <1>1, <2>1, LeastNatural
<1>3. i \in 1 .. k /\ i \in 1 .. m /\ g[i] # h[i]
  BY <1>2
<1>4. /\ g[i] = IF i = 1 THEN s[i] ELSE g[i - 1] \o s[i]
      /\ h[i] = IF i = 1 THEN t[i] ELSE h[i - 1] \o t[i]
  BY <1>3 DEF Flattens
<1>5. i # 1 => g[i - 1] = h[i - 1]
  BY <1>2, <1>3
<1> QED
  BY <1>3, <1>4, <1>5

Prefix(s, k) == FlattenSeq(SubSeq(s, 1, k))

(* A prefix grows by one element at a time.                                *)
LEMMA PrefixGrows ==
    ASSUME NEW s, IsSeq(s), \A i \in 1 .. Len(s) : IsSeq(s[i])
    PROVE  /\ Prefix(s, 0) = <<>>
           /\ \A k \in 1 .. Len(s) : Prefix(s, k) = Prefix(s, k - 1) \o s[k]
           /\ Prefix(s, Len(s)) = FlattenSeq(s)
<1>0. Len(s) \in Nat
  BY DEF IsSeq
<1>1. ASSUME NEW k \in 0 .. Len(s)
      PROVE  /\ IsSeq(SubSeq(s, 1, k))
             /\ Len(SubSeq(s, 1, k)) = k
             /\ \A i \in 1 .. k : SubSeq(s, 1, k)[i] = s[i]
  <2>1. s \in Seq(Range(s))
    BY DEF IsSeq
  <2>2. SubSeq(s, 1, k) \in Seq(Range(s)) /\ Len(SubSeq(s, 1, k)) = k
    BY <1>0, <2>1
  <2>3. \A i \in 1 .. k : SubSeq(s, 1, k)[i] = s[i]
    BY <1>0, <2>1
  <2> QED
    BY <2>2, <2>3, AnySeq
<1>2. Prefix(s, 0) = <<>>
  <2>1. Len(SubSeq(s, 1, 0)) = 0 /\ IsSeq(SubSeq(s, 1, 0))
    BY <1>0, <1>1
  <2>2. SubSeq(s, 1, 0) = <<>>
    BY <2>1 DEF IsSeq
  <2> QED
    BY <2>1, <2>2 DEF Prefix, FlattenSeq
<1>3. Prefix(s, Len(s)) = FlattenSeq(s)
  <2>1. SubSeq(s, 1, Len(s)) = s
    BY DEF IsSeq
  <2> QED
    BY <2>1 DEF Prefix
<1>4. ASSUME NEW j \in 1 .. Len(s)
      PROVE  \E g : Flattens(SubSeq(s, 1, j), g, j) /\ Prefix(s, j) = g[j]
  <2> DEFINE u == SubSeq(s, 1, j)
  <2>1. IsSeq(u) /\ Len(u) = j /\ Prefix(s, j) = FlattenSeq(u)
    BY <1>0, <1>1 DEF Prefix
  <2>2. Len(u) # 0
    BY <2>1
  <2> HIDE DEF u
  <2>3. \E g : Flattens(u, g, Len(u)) /\ FlattenSeq(u) = g[Len(u)]
    BY <2>1, <2>2, FlattenDef
  <2>4. \E g : Flattens(u, g, j) /\ Prefix(s, j) = g[j]
    BY <2>1, <2>3
  <2> QED
    BY <2>4 DEF u
<1>5. ASSUME NEW k \in 1 .. Len(s)
      PROVE  Prefix(s, k) = Prefix(s, k - 1) \o s[k]
  <2>1. PICK g : Flattens(SubSeq(s, 1, k), g, k) /\ Prefix(s, k) = g[k]
    BY <1>4
  <2>2. k \in 1 .. k /\ k \in 0 .. Len(s)
    BY <1>0
  <2>3. SubSeq(s, 1, k)[k] = s[k]
    BY <1>1, <2>2
  <2>4. g[k] = IF k = 1 THEN s[k] ELSE g[k - 1] \o s[k]
    <3> DEFINE u == SubSeq(s, 1, k)
    <3>1. g = [i \in 1 .. k |-> IF i = 1 THEN u[i] ELSE g[i - 1] \o u[i]]
      BY <2>1 DEF Flattens
    <3> HIDE DEF u
    <3>2. g[k] = IF k = 1 THEN u[k] ELSE g[k - 1] \o u[k]
      BY <2>2, <3>1
    <3>3. u[k] = s[k]
      BY <2>3 DEF u
    <3> QED
      BY <3>2, <3>3
  <2>5. CASE k = 1
    <3>1. IsSeq(s[1])
      BY <2>5
    <3>2. <<>> \o s[1] = s[1]
      BY <3>1 DEF IsSeq
    <3>3. k - 1 = 0
      BY <2>5
    <3>4. Prefix(s, k) = s[1]
      BY <2>1, <2>4, <2>5
    <3> QED
      BY <1>2, <2>5, <3>2, <3>3, <3>4
  <2>6. CASE k # 1
    <3>1. k - 1 \in 1 .. Len(s) /\ k - 1 \in 0 .. Len(s) /\ k \in 0 .. Len(s)
      BY <1>0, <2>6
    <3>2. PICK h : Flattens(SubSeq(s, 1, k - 1), h, k - 1) /\ Prefix(s, k - 1) = h[k - 1]
      BY <1>4, <3>1
    <3> DEFINE u == SubSeq(s, 1, k)
               v == SubSeq(s, 1, k - 1)
    <3>3. \A i \in 1 .. (k - 1) : u[i] = v[i]
      BY <1>0, <1>1, <3>1
    <3>4. Flattens(u, g, k) /\ Flattens(v, h, k - 1)
      BY <2>1, <3>2
    <3> HIDE DEF u, v
    <3>5. k \in Nat /\ k - 1 \in Nat /\ k - 1 <= k /\ k - 1 \in 1 .. (k - 1)
      BY <1>0, <3>1
    <3>6. \A i \in 1 .. (k - 1) : g[i] = h[i]
      BY <3>3, <3>4, <3>5, FlattenUnique
    <3> QED
      BY <2>1, <2>4, <2>6, <3>2, <3>5, <3>6
  <2> QED
    BY <2>5, <2>6
<1> QED
  BY <1>2, <1>3, <1>5

(* A prefix is a sequence, and each element stands right behind the prefix *)
(* before it.                                                              *)
LEMMA PrefixSeq ==
    ASSUME NEW s, IsSeq(s), \A i \in 1 .. Len(s) : IsSeq(s[i]), NEW k \in 0 .. Len(s)
    PROVE  IsSeq(Prefix(s, k)) /\ Len(Prefix(s, k)) \in Nat
<1>0. Len(s) \in Nat
  BY DEF IsSeq
<1> DEFINE T == {j \in Nat : j <= Len(s) => IsSeq(Prefix(s, j))}
<1>1. 0 \in T
  <2>1. <<>> \in Seq({})
    OBVIOUS
  <2> QED
    BY <2>1, AnySeq, PrefixGrows
<1>2. ASSUME NEW j \in T PROVE j + 1 \in T
  <2> SUFFICES ASSUME j + 1 <= Len(s) PROVE IsSeq(Prefix(s, j + 1))
    OBVIOUS
  <2>1. j + 1 \in 1 .. Len(s) /\ (j + 1) - 1 = j /\ IsSeq(Prefix(s, j)) /\ IsSeq(s[j + 1])
    BY <1>0
  <2>2. Prefix(s, j + 1) = Prefix(s, j) \o s[j + 1]
    BY <2>1, PrefixGrows
  <2>3. IsSeq(Prefix(s, j) \o s[j + 1])
    BY <2>1, Concat
  <2> QED
    BY <2>2, <2>3
<1>3. T = Nat
  <2> HIDE DEF T
  <2>1. T \in SUBSET Nat
    BY DEF T
  <2> QED
    BY <1>1, <1>2, <2>1, SetInduction
<1>4. IsSeq(Prefix(s, k))
  BY <1>0, <1>3
<1> QED
  BY <1>4 DEF IsSeq

LEMMA FlattenHolds ==
    ASSUME NEW s, IsSeq(s), \A i \in 1 .. Len(s) : IsSeq(s[i]),
           NEW data, NEW at \in Int, Holds(data, at, FlattenSeq(s)),
           NEW k \in 1 .. Len(s)
    PROVE  Holds(data, at + Len(Prefix(s, k - 1)), s[k])
<1>0. Len(s) \in Nat
  BY DEF IsSeq
<1> DEFINE T == {j \in Nat : j <= Len(s) => Holds(data, at, Prefix(s, Len(s) - j))}
<1>1. ASSUME NEW i \in 1 .. Len(s), Holds(data, at, Prefix(s, i))
      PROVE  Holds(data, at, Prefix(s, i - 1)) /\ Holds(data, at + Len(Prefix(s, i - 1)), s[i])
  <2>1. i - 1 \in 0 .. Len(s)
    BY <1>0
  <2>2. IsSeq(Prefix(s, i - 1)) /\ IsSeq(s[i]) /\ Prefix(s, i) = Prefix(s, i - 1) \o s[i]
    BY <2>1, PrefixSeq, PrefixGrows
  <2> QED
    BY <1>1, <2>2, HoldsParts
<1>2. 0 \in T
  <2>1. Len(s) - 0 = Len(s)
    BY <1>0
  <2> QED
    BY <2>1, PrefixGrows
<1>3. ASSUME NEW j \in T PROVE j + 1 \in T
  <2> SUFFICES ASSUME j + 1 <= Len(s) PROVE Holds(data, at, Prefix(s, Len(s) - (j + 1)))
    OBVIOUS
  <2>1. Len(s) - j \in 1 .. Len(s) /\ (Len(s) - j) - 1 = Len(s) - (j + 1)
    BY <1>0
  <2>2. Holds(data, at, Prefix(s, Len(s) - j))
    BY <1>0
  <2> QED
    BY <1>1, <2>1, <2>2
<1>4. T = Nat
  <2> HIDE DEF T
  <2>1. T \in SUBSET Nat
    BY DEF T
  <2> QED
    BY <1>2, <1>3, <2>1, SetInduction
<1>5. Len(s) - k \in Nat /\ Len(s) - (Len(s) - k) = k /\ Len(s) - k <= Len(s)
  BY <1>0
<1>6. Holds(data, at, Prefix(s, k))
  BY <1>4, <1>5
<1> QED
  BY <1>1, <1>6

(* The EntryPoint decodes from the calldata of a bundle, of any length, as *)
(* many operations as the loop put in, in their order, each with the bytes *)
(* it had and its numbers cut to words: the offsets that buildHandleOps-   *)
(* Calldata writes are those of the tuples and their byte strings.         *)
THEOREM HandleOpsDecodes ==
    ASSUME NEW ops, IsSeq(ops), \A i \in 1 .. Len(ops) : HasBytes(ops[i]), NEW beneficiary
    PROVE  DecodeHandleOps(BuildHandleOpsCalldata(ops, beneficiary))
             = [i \in 1 .. Len(ops) |-> AsWords(ops[i])]
<1> DEFINE n == Len(ops)
           tuples == [i \in DOMAIN ops |-> EncodePackedUserOp(ops[i])]
           offset(i) == Len(ops) + Len(FlattenSeq(SubSeq(tuples, 1, i - 1)))
           hd == <<2, beneficiary, Len(ops)>>
           offsets == [i \in DOMAIN ops |-> offset(i)]
           u == hd \o offsets
           body == FlattenSeq(tuples)
           data == u \o body
<1>1. n \in Nat /\ DOMAIN ops = 1 .. n
  BY DEF IsSeq
<1>2. BuildHandleOpsCalldata(ops, beneficiary) = data
  BY DEF BuildHandleOpsCalldata
<1>3. IsSeq(tuples) /\ Len(tuples) = n
  <2>1. DOMAIN tuples = 1 .. n /\ tuples = [i \in 1 .. n |-> tuples[i]]
    BY <1>1
  <2> QED
    BY <1>1, <2>1, SeqIntro
<1>4. \A i \in 1 .. n : tuples[i] = EncodePackedUserOp(ops[i])
  BY <1>1
<1>5. \A i \in 1 .. n : IsSeq(tuples[i])
  BY <1>4, EncodedOp
<1>6. IsSeq(offsets) /\ Len(offsets) = n
  <2>1. DOMAIN offsets = 1 .. n /\ offsets = [i \in 1 .. n |-> offsets[i]]
    BY <1>1
  <2> HIDE DEF offsets
  <2> QED
    BY <1>1, <2>1, SeqIntro
<1>7. \A i \in 1 .. n : offsets[i] = n + Len(Prefix(tuples, i - 1))
  BY <1>1 DEF Prefix
<1>8. IsSeq(hd) /\ Len(hd) = 3 /\ hd[1] = 2 /\ hd[3] = n
  <2>1. hd \in Seq({2, beneficiary, Len(ops)})
    OBVIOUS
  <2>2. IsSeq(hd)
    BY <2>1, AnySeq
  <2> QED
    BY <2>2
<1>9. body = FlattenSeq(tuples)
  OBVIOUS
<1> HIDE DEF tuples, offsets, hd, u, body, data, n
<1>10. IsSeq(u) /\ Len(u) = 3 + n
  <2>1. IsSeq(hd \o offsets)
    BY <1>6, <1>8, Concat
  <2>2. Len(hd \o offsets) = Len(hd) + Len(offsets)
    BY <1>6, <1>8, Concat
  <2> QED
    BY <1>6, <1>8, <2>1, <2>2 DEF u
<1>11. IsSeq(body)
  <2>1. n \in 0 .. Len(tuples)
    BY <1>1, <1>3
  <2>2. IsSeq(Prefix(tuples, n))
    BY <1>3, <1>5, <2>1, PrefixSeq
  <2>3. Prefix(tuples, n) = FlattenSeq(tuples)
    BY <1>3, <1>5, PrefixGrows
  <2> QED
    BY <1>9, <2>2, <2>3
<1>12. Holds(data, 1, u) /\ Holds(data, 4 + n, body)
  <2>1. Holds(data, 1, u \o body)
    <3>1. \A i \in 1 .. Len(u \o body) : 1 + i - 1 = i
      OBVIOUS
    <3> QED
      BY <3>1 DEF Holds, data
  <2>2. Holds(data, 1, u)
    BY <1>10, <1>11, <2>1, HoldsParts
  <2>3. Holds(data, 1 + Len(u), body)
    <3>1. IsSeq(u) /\ IsSeq(body) /\ 1 \in Int
      BY <1>10, <1>11
    <3> QED
      BY <2>1, <3>1, HoldsParts, Zenon
  <2>4. 1 + Len(u) = 4 + n
    BY <1>1, <1>10
  <2> QED
    BY <2>2, <2>3, <2>4
<1>13. Holds(data, 1, hd) /\ Holds(data, 4, offsets)
  <2>1. Holds(data, 1, hd)
    BY <1>6, <1>8, <1>12, HoldsParts DEF u
  <2>2. Holds(data, 1 + Len(hd), offsets)
    <3>1. IsSeq(hd) /\ IsSeq(offsets) /\ 1 \in Int
      BY <1>6, <1>8
    <3> QED
      BY <1>12, <3>1, HoldsParts, Zenon DEF u
  <2> QED
    BY <1>8, <2>1, <2>2
<1>14. data[1] = 2 /\ data[3] = n
  <2>1. data[1 + 1 - 1] = hd[1] /\ data[1 + 3 - 1] = hd[3]
    BY <1>8, <1>13 DEF Holds
  <2> QED
    BY <1>8, <2>1
<1>15. ASSUME NEW i \in 1 .. n
       PROVE  DecodeTuple(data, 4 + data[4 + i - 1]) = AsWords(ops[i])
  <2>1. data[4 + i - 1] = n + Len(Prefix(tuples, i - 1))
    BY <1>6, <1>7, <1>13 DEF Holds
  <2>2. i - 1 \in 0 .. Len(tuples)
    BY <1>1, <1>3
  <2>3. Len(Prefix(tuples, i - 1)) \in Nat
    BY <1>3, <1>5, <2>2, PrefixSeq
  <2>4. Holds(data, (4 + n) + Len(Prefix(tuples, i - 1)), tuples[i])
    <3>1. 4 + n \in Int /\ Holds(data, 4 + n, FlattenSeq(tuples)) /\ i \in 1 .. Len(tuples)
      BY <1>1, <1>3, <1>9, <1>12
    <3> QED
      BY <1>3, <1>5, <3>1, FlattenHolds
  <2>5. /\ (4 + n) + Len(Prefix(tuples, i - 1)) = 4 + data[4 + i - 1]
        /\ 4 + data[4 + i - 1] \in Int
    BY <1>1, <2>1, <2>3
  <2>6. Holds(data, 4 + data[4 + i - 1], EncodePackedUserOp(ops[i]))
    BY <1>4, <2>4, <2>5
  <2>7. HasBytes(ops[i])
    BY DEF n
  <2> QED
    BY <2>5, <2>6, <2>7, EncodedOp
<1>16. DecodeHandleOps(data) = [i \in 1 .. n |-> AsWords(ops[i])]
  <2>1. 1 + data[1] = 3 /\ (1 + data[1]) + 1 = 4
    BY <1>14
  <2>2. DecodeHandleOps(data) = [i \in 1 .. data[3] |-> DecodeTuple(data, 4 + data[4 + i - 1])]
    BY <2>1, Zenon DEF DecodeHandleOps
  <2> QED
    BY <1>14, <1>15, <2>2
<1> QED
  BY <1>2, <1>16 DEF n
=============================================================================
