---------------------------- MODULE IntakeProofs ----------------------------
(***************************************************************************)
(* What is in the table of Intake, for any requests in any order: every    *)
(* row is a request that passed the checks, packed and written down, and   *)
(* nothing of it is lost on the way there and back.                        *)
(***************************************************************************)
EXTENDS SponsoredOps, CalldataProofs

-----------------------------------------------------------------------------
(* Numbers, halves and addresses.                                          *)

(* A number that is written out and read back is the same, and two numbers *)
(* have two texts.                                                         *)
LEMMA NumberRoundTrip ==
    ASSUME NEW n \in Int
    PROVE  /\ HexToBigInt(BigToHex(n)) = n
           /\ BigToHex(n) \in [neg : BOOLEAN, mag : Nat]
           /\ BigToHex(n) # Garbage
<1>1. CASE n < 0
  <2>1. (n < 0) = TRUE /\ -n \in Nat /\ -(-n) = n
    BY <1>1
  <2>2. BigToHex(n) = [neg |-> TRUE, mag |-> -n]
    BY <1>1, <2>1, Zenon DEF BigToHex
  <2>3. [neg |-> TRUE, mag |-> -n] # [garbage |-> TRUE]
    OBVIOUS
  <2> QED
    BY <2>1, <2>2, <2>3 DEF HexToBigInt, Garbage
<1>2. CASE ~(n < 0)
  <2>1. (n < 0) = FALSE /\ n \in Nat
    BY <1>2
  <2>2. BigToHex(n) = [neg |-> FALSE, mag |-> n]
    BY <1>2, <2>1, Zenon DEF BigToHex
  <2>3. [neg |-> FALSE, mag |-> n] # [garbage |-> TRUE]
    OBVIOUS
  <2> QED
    BY <2>1, <2>2, <2>3 DEF HexToBigInt, Garbage
<1> QED
  BY <1>1, <1>2

(* A text that parses is an integer.                                       *)
LEMMA NumberRead ==
    ASSUME NEW t \in [neg : BOOLEAN, mag : Nat]
    PROVE  HexToBigInt(t) \in Int
  BY DEF HexToBigInt

(* Packing cuts both halves to their width, and keeps what fits.           *)
LEMMA PackCuts ==
    ASSUME NEW hi \in Int, NEW lo \in Int
    PROVE  /\ PackBigInts(hi, lo) \in Uint128Pair
           /\ hi \in 0 .. (Half - 1) => PackBigInts(hi, lo).hi = hi
           /\ lo \in 0 .. (Half - 1) => PackBigInts(hi, lo).lo = lo
<1>1. Half \in Nat \ {0}
  BY Widths
<1>2. Magnitude(hi) \in Nat /\ Magnitude(lo) \in Nat
  BY DEF Magnitude
<1>3. /\ Magnitude(hi) % Half \in 0 .. (Half - 1)
      /\ Magnitude(lo) % Half \in 0 .. (Half - 1)
  BY <1>1, <1>2
<1>4. ASSUME NEW n \in 0 .. (Half - 1) PROVE Magnitude(n) % Half = n
  BY <1>1 DEF Magnitude
<1> QED
  BY <1>3, <1>4 DEF PackBigInts, Uint128Pair

(* The address in front of a byte string comes off again.                  *)
LEMMA PrefixRoundTrip ==
    ASSUME NEW t, NEW d, d \in Seq(Range(d))
    PROVE  /\ Prefixed(AddressPart(Prefixed(t, d)), DataPart(Prefixed(t, d))) = Prefixed(t, d)
           /\ \/ AddressPart(Prefixed(t, d)) = NoText
              \/ t # NoText /\ DataPart(Prefixed(t, d)) = d
<1>1. CASE t = NoText
  BY <1>1 DEF Prefixed, AddressPart, DataPart
<1>2. CASE t # NoText
  <2>1. Prefixed(t, d) = <<t.addr>> \o d
    BY <1>2 DEF Prefixed, HexToAddress
  <2>2. /\ <<t.addr>> \o d # <<>>
        /\ Head(<<t.addr>> \o d) = t.addr
        /\ Tail(<<t.addr>> \o d) = d
    OBVIOUS
  <2>3. AddressPart(Prefixed(t, d)) = AddressHex(t.addr) /\ DataPart(Prefixed(t, d)) = d
    BY <2>1, <2>2 DEF AddressPart, DataPart
  <2>4. AddressHex(t.addr) # NoText /\ HexToAddress(AddressHex(t.addr)) = t.addr
    BY DEF AddressHex, NoText, HexToAddress
  <2>5. Prefixed(AddressHex(t.addr), d) = <<t.addr>> \o d
    BY <2>4 DEF Prefixed
  <2> QED
    BY <1>2, <2>1, <2>3, <2>5
<1> QED
  BY <1>1, <1>2

-----------------------------------------------------------------------------
(* A request that parses.                                                  *)

LEMMA NumbersParse ==
    ASSUME NEW w, WellFormed(w), Parses(w)
    PROVE  /\ HexToBigInt(w.nonce) \in Int
           /\ HexToBigInt(w.callGasLimit) \in Int
           /\ HexToBigInt(w.verificationGasLimit) \in Int
           /\ HexToBigInt(w.preVerificationGas) \in Int
           /\ HexToBigInt(w.maxFeePerGas) \in Int
           /\ HexToBigInt(w.maxPriorityFeePerGas) \in Int
<1>1. ASSUME NEW f \in WireNumbers PROVE HexToBigInt(w[f]) \in Int
  <2>1. w[f] \in [neg : BOOLEAN, mag : Nat]
    BY DEF WellFormed, Parses
  <2> QED
    BY <2>1, NumberRead
<1> QED
  BY <1>1 DEF WireNumbers

(* What it packs to.                                                       *)
LEMMA PackedType ==
    ASSUME NEW w, WellFormed(w), Parses(w)
    PROVE  /\ FromRPC(w).nonce \in Int
           /\ FromRPC(w).preVerificationGas \in Int
           /\ FromRPC(w).accountGasLimits \in Uint128Pair
           /\ FromRPC(w).gasFees \in Uint128Pair
  BY NumbersParse, PackCuts DEF FromRPC

(* Its answer, sent again, parses and packs to the same operation.         *)
LEMMA AnswerRoundTrip ==
    ASSUME NEW w, WellFormed(w), Parses(w)
    PROVE  /\ Parses(StoredOpToRPC(FromRPC(w)))
           /\ FromRPC(StoredOpToRPC(FromRPC(w))) = FromRPC(w)
<1> DEFINE op == FromRPC(w)
           ans == StoredOpToRPC(op)
<1>1. /\ w.factoryData \in Seq(Range(w.factoryData))
      /\ w.paymasterData \in Seq(Range(w.paymasterData))
  BY DEF WellFormed, WireBytes
<1>2. /\ op.initCode = Prefixed(w.factory, w.factoryData)
      /\ op.paymasterAndData = Prefixed(w.paymaster, w.paymasterData)
      /\ op.callData = w.callData /\ op.signature = w.signature
  BY DEF FromRPC
<1>3. /\ op.nonce \in Int /\ op.preVerificationGas \in Int
      /\ op.accountGasLimits \in Uint128Pair /\ op.gasFees \in Uint128Pair
  BY PackedType
<1>4. /\ op.accountGasLimits.hi \in Int /\ op.accountGasLimits.lo \in Int
      /\ op.gasFees.hi \in Int /\ op.gasFees.lo \in Int
  BY <1>3, Widths DEF Uint128Pair
<1>5. /\ op.accountGasLimits =
           [hi |-> op.accountGasLimits.hi, lo |-> op.accountGasLimits.lo]
      /\ op.gasFees = [hi |-> op.gasFees.hi, lo |-> op.gasFees.lo]
  BY <1>3 DEF Uint128Pair
<1>6. /\ ans.nonce = BigToHex(op.nonce)
      /\ ans.preVerificationGas = BigToHex(op.preVerificationGas)
      /\ ans.verificationGasLimit = BigToHex(op.accountGasLimits.hi)
      /\ ans.callGasLimit = BigToHex(op.accountGasLimits.lo)
      /\ ans.maxPriorityFeePerGas = BigToHex(op.gasFees.hi)
      /\ ans.maxFeePerGas = BigToHex(op.gasFees.lo)
      /\ ans.sender = AddressHex(op.sender)
      /\ ans.callData = op.callData /\ ans.signature = op.signature
      /\ ans.factory = AddressPart(op.initCode)
      /\ ans.factoryData = DataPart(op.initCode)
      /\ ans.paymaster = AddressPart(op.paymasterAndData)
      /\ ans.paymasterData = DataPart(op.paymasterAndData)
  BY DEF StoredOpToRPC
<1>7. /\ Prefixed(ans.factory, ans.factoryData) = op.initCode
      /\ ans.factory = NoText \/ (w.factory # NoText /\ ans.factoryData = w.factoryData)
  BY <1>1, <1>2, <1>6, PrefixRoundTrip
<1>8. /\ Prefixed(ans.paymaster, ans.paymasterData) = op.paymasterAndData
      /\ ans.paymaster = NoText \/ (w.paymaster # NoText /\ ans.paymasterData = w.paymasterData)
  BY <1>1, <1>2, <1>6, PrefixRoundTrip
<1> HIDE DEF ans
<1>9. \A f \in WireNumbers : ans[f] # Garbage
  BY <1>3, <1>4, <1>6, NumberRoundTrip DEF WireNumbers
<1>10. Parses(ans)
  BY <1>2, <1>6, <1>7, <1>8, <1>9 DEF Parses
<1>11. /\ HexToBigInt(ans.nonce) = op.nonce
       /\ HexToBigInt(ans.preVerificationGas) = op.preVerificationGas
       /\ HexToBigInt(ans.verificationGasLimit) = op.accountGasLimits.hi
       /\ HexToBigInt(ans.callGasLimit) = op.accountGasLimits.lo
       /\ HexToBigInt(ans.maxPriorityFeePerGas) = op.gasFees.hi
       /\ HexToBigInt(ans.maxFeePerGas) = op.gasFees.lo
       /\ HexToAddress(ans.sender) = op.sender
  BY <1>3, <1>4, <1>6, NumberRoundTrip DEF AddressHex, HexToAddress
<1>12. ASSUME NEW pair \in Uint128Pair PROVE PackBigInts(pair.hi, pair.lo) = pair
  <2>1. pair.hi \in 0 .. (Half - 1) /\ pair.lo \in 0 .. (Half - 1)
    BY DEF Uint128Pair
  <2>2. pair.hi \in Int /\ pair.lo \in Int
    BY <2>1, Widths
  <2>3. /\ PackBigInts(pair.hi, pair.lo) \in Uint128Pair
        /\ PackBigInts(pair.hi, pair.lo).hi = pair.hi
        /\ PackBigInts(pair.hi, pair.lo).lo = pair.lo
    BY <2>1, <2>2, PackCuts
  <2> QED
    BY <2>3 DEF Uint128Pair
<1>13. FromRPC(ans) =
         [sender |-> op.sender, nonce |-> op.nonce, initCode |-> op.initCode,
          callData |-> op.callData, accountGasLimits |-> op.accountGasLimits,
          preVerificationGas |-> op.preVerificationGas, gasFees |-> op.gasFees,
          paymasterAndData |-> op.paymasterAndData, signature |-> op.signature]
  <2>1. PackBigInts(HexToBigInt(ans.verificationGasLimit), HexToBigInt(ans.callGasLimit))
          = op.accountGasLimits
    BY <1>3, <1>11, <1>12
  <2>2. PackBigInts(HexToBigInt(ans.maxPriorityFeePerGas), HexToBigInt(ans.maxFeePerGas))
          = op.gasFees
    BY <1>3, <1>11, <1>12
  <2> QED
    BY <1>6, <1>7, <1>8, <1>11, <2>1, <2>2 DEF FromRPC
<1>14. op = [sender |-> op.sender, nonce |-> op.nonce, initCode |-> op.initCode,
          callData |-> op.callData, accountGasLimits |-> op.accountGasLimits,
          preVerificationGas |-> op.preVerificationGas, gasFees |-> op.gasFees,
          paymasterAndData |-> op.paymasterAndData, signature |-> op.signature]
  BY DEF FromRPC
<1> QED
  BY <1>10, <1>13, <1>14 DEF ans

-----------------------------------------------------------------------------
(* The table.                                                              *)

(* The request w, for the entry point a, passed the handler's checks.      *)
Passed(w, a) ==
    /\ WellFormed(w)
    /\ Parses(w)
    /\ IsAllowedEntryPoint(a)
    /\ Len(FromRPC(w).signature) = SigLen
    /\ Validate(FromRPC(w))

(* Every row is such a request, packed, hashed and written down.           *)
RowsArePassedRequests ==
    \A r \in table : \E w, a : \E live \in BOOLEAN :
        /\ Passed(w, a)
        /\ r = RowOf(FromRPC(w), ComputeUserOpHash(FromRPC(w), a), live)

(* The primary key and the unique index, as texts.                         *)
KeysAreUnique ==
    \A r, s \in table : r # s =>
        /\ r.hash # s.hash
        /\ r.live /\ s.live => ~(r.sender = s.sender /\ r.nonce = s.nonce)

Replies == {"none", "accepted", "opRejected", "invalidParams"}

(* The inductive invariant of the intake.                                  *)
IntakeInv == RowsArePassedRequests /\ KeysAreUnique /\ reply \in Replies

(* A row holds the operation that was written.                             *)
LEMMA RowRoundTrip ==
    ASSUME NEW w, WellFormed(w), Parses(w), NEW hash, NEW live
    PROVE  HydrateOp(RowOf(FromRPC(w), hash, live)) = FromRPC(w)
<1>1. FromRPC(w).nonce \in Int /\ FromRPC(w).preVerificationGas \in Int
  BY PackedType
<1>2. /\ HexToBigInt(BigToHex(FromRPC(w).nonce)) = FromRPC(w).nonce
      /\ HexToBigInt(BigToHex(FromRPC(w).preVerificationGas)) = FromRPC(w).preVerificationGas
  BY <1>1, NumberRoundTrip
<1>3. FromRPC(w) =
        [sender |-> FromRPC(w).sender, nonce |-> FromRPC(w).nonce,
         initCode |-> FromRPC(w).initCode, callData |-> FromRPC(w).callData,
         accountGasLimits |-> FromRPC(w).accountGasLimits,
         preVerificationGas |-> FromRPC(w).preVerificationGas,
         gasFees |-> FromRPC(w).gasFees,
         paymasterAndData |-> FromRPC(w).paymasterAndData,
         signature |-> FromRPC(w).signature]
  BY DEF FromRPC
<1> QED
  BY <1>2, <1>3 DEF HydrateOp, RowOf

(* What is known of a row.                                                 *)
LEMMA RowOrigin ==
    ASSUME IntakeInv, NEW r \in table
    PROVE  \E w, a :
             /\ Passed(w, a)
             /\ HydrateOp(r) = FromRPC(w)
             /\ r.hash = ComputeUserOpHash(FromRPC(w), a)
             /\ r.live \in BOOLEAN
             /\ r.sender = FromRPC(w).sender
             /\ r.nonce = BigToHex(FromRPC(w).nonce)
             /\ r.signature = FromRPC(w).signature
             /\ r.accountGasLimits = FromRPC(w).accountGasLimits
             /\ r.gasFees = FromRPC(w).gasFees
<1>1. PICK w, a : \E live \in BOOLEAN :
        Passed(w, a) /\ r = RowOf(FromRPC(w), ComputeUserOpHash(FromRPC(w), a), live)
  BY DEF IntakeInv, RowsArePassedRequests
<1>2. PICK live \in BOOLEAN :
        Passed(w, a) /\ r = RowOf(FromRPC(w), ComputeUserOpHash(FromRPC(w), a), live)
  BY <1>1
<1>3. HydrateOp(r) = FromRPC(w)
  BY <1>2, RowRoundTrip DEF Passed
<1>4. /\ r.hash = ComputeUserOpHash(FromRPC(w), a)
      /\ r.live = live
      /\ r.sender = FromRPC(w).sender
      /\ r.nonce = BigToHex(FromRPC(w).nonce)
      /\ r.signature = FromRPC(w).signature
      /\ r.accountGasLimits = FromRPC(w).accountGasLimits
      /\ r.gasFees = FromRPC(w).gasFees
  BY <1>2 DEF RowOf
<1> QED
  BY <1>2, <1>3, <1>4

-----------------------------------------------------------------------------
(* The steps.                                                              *)

(* A row that was not refused can join the table.                          *)
LEMMA InsertKeepsInv ==
    ASSUME IntakeInv, NEW w, NEW a, Passed(w, a),
           Insert(FromRPC(w), ComputeUserOpHash(FromRPC(w), a))
    PROVE  IntakeInv'
<1> DEFINE row == RowOf(FromRPC(w), ComputeUserOpHash(FromRPC(w), a), TRUE)
<1>1. CASE Refused(row) /\ reply' = "opRejected" /\ UNCHANGED table
  BY <1>1 DEF IntakeInv, RowsArePassedRequests, KeysAreUnique, Replies
<1>2. CASE ~Refused(row) /\ table' = table \cup {row} /\ reply' = "accepted"
  <2> HIDE DEF row
  <2>1. RowsArePassedRequests'
    <3> SUFFICES ASSUME NEW r \in table'
                 PROVE  \E v, b : \E live \in BOOLEAN :
                           /\ Passed(v, b)
                           /\ r = RowOf(FromRPC(v), ComputeUserOpHash(FromRPC(v), b), live)
      BY DEF RowsArePassedRequests
    <3>1. CASE r \in table
      BY <3>1 DEF IntakeInv, RowsArePassedRequests
    <3>2. CASE r = row
      BY <3>2 DEF row
    <3> QED
      BY <1>2, <3>1, <3>2
  <2>2. \A r \in table : /\ r.hash # row.hash
                         /\ r.live => ~(r.sender = row.sender /\ r.nonce = row.nonce)
    BY <1>2 DEF Refused
  <2>3. KeysAreUnique'
    <3> SUFFICES ASSUME NEW r \in table', NEW s \in table', r # s
                 PROVE  /\ r.hash # s.hash
                        /\ r.live /\ s.live => ~(r.sender = s.sender /\ r.nonce = s.nonce)
      BY DEF KeysAreUnique
    <3>1. CASE r \in table /\ s \in table
      BY <3>1 DEF IntakeInv, KeysAreUnique
    <3>2. CASE r \in table /\ s = row
      BY <2>2, <3>2
    <3>3. CASE r = row /\ s \in table
      BY <2>2, <3>3
    <3> QED
      BY <1>2, <3>1, <3>2, <3>3
  <2> QED
    BY <1>2, <2>1, <2>3 DEF IntakeInv, Replies
<1> QED
  BY <1>1, <1>2 DEF Insert

LEMMA SendKeepsInv ==
    ASSUME IntakeInv, NEW w, NEW ep, WellFormed(w), SendUserOperation(w, ep)
    PROVE  IntakeInv'
<1> DEFINE a == HexToAddress(ep)
           op == FromRPC(w)
<1>1. CASE reply' \in {"opRejected", "invalidParams"} /\ UNCHANGED table
  BY <1>1 DEF IntakeInv, RowsArePassedRequests, KeysAreUnique, Replies
<1>2. CASE /\ IsAllowedEntryPoint(a) /\ Parses(w)
           /\ Len(op.signature) = SigLen /\ Validate(op)
           /\ Insert(op, ComputeUserOpHash(op, a))
  <2>1. Passed(w, a)
    BY <1>2 DEF Passed
  <2> QED
    BY <1>2, <2>1, InsertKeepsInv
<1> QED
  BY <1>1, <1>2 DEF SendUserOperation

LEMMA SettleKeepsInv ==
    ASSUME IntakeInv, NEW r \in table, Settle(r)
    PROVE  IntakeInv'
<1>1. PICK w, a : \E live \in BOOLEAN :
        Passed(w, a) /\ r = RowOf(FromRPC(w), ComputeUserOpHash(FromRPC(w), a), live)
  BY DEF IntakeInv, RowsArePassedRequests
<1> DEFINE settled == RowOf(FromRPC(w), ComputeUserOpHash(FromRPC(w), a), FALSE)
<1>2. [r EXCEPT !.live = FALSE] = settled
  <2>1. PICK live \in BOOLEAN : r = RowOf(FromRPC(w), ComputeUserOpHash(FromRPC(w), a), live)
    BY <1>1
  <2>2. ASSUME NEW op, NEW hash, NEW before, NEW after
        PROVE  [RowOf(op, hash, before) EXCEPT !.live = after] = RowOf(op, hash, after)
    BY DEF RowOf
  <2>3. ASSUME NEW after
        PROVE  [r EXCEPT !.live = after]
                 = RowOf(FromRPC(w), ComputeUserOpHash(FromRPC(w), a), after)
    BY <2>1, <2>2
  <2> QED
    BY <2>3, Zenon
<1>3. /\ settled.hash = r.hash /\ settled.live = FALSE
  BY <1>1 DEF RowOf
<1>4. table' = (table \ {r}) \cup {settled} /\ reply' = reply
  BY <1>2 DEF Settle
<1>5. RowsArePassedRequests'
  <2> SUFFICES ASSUME NEW s \in table'
               PROVE  \E v, b : \E live \in BOOLEAN :
                         /\ Passed(v, b)
                         /\ s = RowOf(FromRPC(v), ComputeUserOpHash(FromRPC(v), b), live)
    BY DEF RowsArePassedRequests
  <2>1. CASE s \in table
    BY <2>1 DEF IntakeInv, RowsArePassedRequests
  <2>2. CASE s = settled
    BY <1>1, <2>2
  <2> HIDE DEF settled
  <2> QED
    BY <1>4, <2>1, <2>2
<1> HIDE DEF settled
<1>6. KeysAreUnique'
  BY <1>3, <1>4 DEF IntakeInv, KeysAreUnique
<1> QED
  BY <1>4, <1>5, <1>6 DEF IntakeInv

LEMMA PruneKeepsInv ==
    ASSUME IntakeInv, NEW r \in table, Prune(r)
    PROVE  IntakeInv'
  BY DEF IntakeInv, RowsArePassedRequests, KeysAreUnique, Prune

(* Every step of the intake, when requests are well-formed.                *)
LEMMA IntakeStep ==
    ASSUME IntakeInv, [IntakeNext]_intakeVars
    PROVE  IntakeInv'
<1>1. CASE \E w \in WireOps, ep \in EntryPointTexts : SendUserOperation(w, ep)
  BY <1>1, RequestAssumption, SendKeepsInv
<1>2. CASE \E r \in table : Settle(r)
  BY <1>2, SettleKeepsInv
<1>3. CASE \E r \in table : Prune(r)
  BY <1>3, PruneKeepsInv
<1>4. CASE UNCHANGED intakeVars
  BY <1>4 DEF IntakeInv, RowsArePassedRequests, KeysAreUnique, intakeVars
<1> QED
  BY <1>1, <1>2, <1>3, <1>4 DEF IntakeNext

-----------------------------------------------------------------------------
(* What the invariant says of a state.                                     *)

LEMMA IntakeInvTypes ==
    ASSUME IntakeInv
    PROVE  IntakeTypeOK
<1>1. ASSUME NEW r \in table
      PROVE  /\ r.accountGasLimits \in Uint128Pair
             /\ r.gasFees \in Uint128Pair
             /\ Len(r.signature) = SigLen
             /\ r.hash.entryPoint \in Range(EntryPoints)
             /\ r.live \in BOOLEAN
  <2>1. PICK w, a :
          /\ Passed(w, a)
          /\ r.hash = ComputeUserOpHash(FromRPC(w), a)
          /\ r.live \in BOOLEAN
          /\ r.signature = FromRPC(w).signature
          /\ r.accountGasLimits = FromRPC(w).accountGasLimits
          /\ r.gasFees = FromRPC(w).gasFees
    BY RowOrigin
  <2>2. r.accountGasLimits \in Uint128Pair /\ r.gasFees \in Uint128Pair
    BY <2>1, PackedType DEF Passed
  <2>3. r.hash.entryPoint = a
    BY <2>1 DEF ComputeUserOpHash
  <2> QED
    BY <2>1, <2>2, <2>3 DEF Passed, IsAllowedEntryPoint
<1> QED
  BY <1>1 DEF IntakeTypeOK, IntakeInv, Replies

LEMMA IntakeInvNonces ==
    ASSUME IntakeInv
    PROVE  OneLivePerChainNonce
<1> SUFFICES ASSUME NEW r \in table, NEW s \in table,
                    r # s, r.live, s.live, r.sender = s.sender,
                    HydrateOp(r).nonce \in 0 .. (Word - 1),
                    HydrateOp(s).nonce \in 0 .. (Word - 1)
             PROVE  WordOf(HydrateOp(r).nonce) # WordOf(HydrateOp(s).nonce)
  BY DEF OneLivePerChainNonce
<1>1. r.nonce # s.nonce
  BY DEF IntakeInv, KeysAreUnique
<1>2. ASSUME NEW x \in table PROVE x.nonce = BigToHex(HydrateOp(x).nonce)
  BY RowOrigin
<1>3. HydrateOp(r).nonce # HydrateOp(s).nonce
  BY <1>1, <1>2
<1> QED
  BY <1>3, WordKeeps

(* The answer for a row is made from that row alone.                       *)
LEMMA IntakeInvAnswers ==
    ASSUME IntakeInv
    PROVE  AnswerPacksToStoredOp
<1> SUFFICES ASSUME NEW r \in table, NEW ans \in GetUserOperationByHash(r.hash)
             PROVE  /\ Parses(ans)
                    /\ FromRPC(ans) = HydrateOp(r)
                    /\ ComputeUserOpHash(FromRPC(ans), r.hash.entryPoint) = r.hash
  BY DEF AnswerPacksToStoredOp
<1>1. PICK s \in table : s.hash = r.hash /\ ans = StoredOpToRPC(HydrateOp(s))
  BY DEF GetUserOperationByHash
<1>2. s = r
  BY <1>1 DEF IntakeInv, KeysAreUnique
<1>3. PICK w, a : /\ Passed(w, a)
                  /\ HydrateOp(r) = FromRPC(w)
                  /\ r.hash = ComputeUserOpHash(FromRPC(w), a)
  BY RowOrigin
<1>4. r.hash.entryPoint = a
  BY <1>3 DEF ComputeUserOpHash
<1>5. Parses(ans) /\ FromRPC(ans) = FromRPC(w)
  BY <1>1, <1>2, <1>3, AnswerRoundTrip DEF Passed
<1> QED
  BY <1>3, <1>4, <1>5

(* The byte strings of a request that parses.                              *)
LEMMA PackedBytes ==
    ASSUME NEW w, WellFormed(w)
    PROVE  HasBytes(FromRPC(w))
<1>1. /\ IsSeq(w.callData) /\ IsSeq(w.signature)
      /\ IsSeq(w.factoryData) /\ IsSeq(w.paymasterData)
  BY DEF WellFormed, WireBytes, IsSeq
<1>2. ASSUME NEW t, NEW d, IsSeq(d) PROVE IsSeq(Prefixed(t, d))
  <2>1. <<>> \in Seq({}) /\ <<t.addr>> \in Seq({t.addr})
    OBVIOUS
  <2>2. IsSeq(<<>>) /\ IsSeq(<<t.addr>>)
    BY <2>1, AnySeq
  <2>3. IsSeq(<<t.addr>> \o d)
    BY <1>2, <2>2, Concat
  <2> QED
    BY <2>2, <2>3 DEF Prefixed, HexToAddress
<1>3. /\ FromRPC(w).initCode = Prefixed(w.factory, w.factoryData)
      /\ FromRPC(w).paymasterAndData = Prefixed(w.paymaster, w.paymasterData)
      /\ FromRPC(w).callData = w.callData /\ FromRPC(w).signature = w.signature
  BY DEF FromRPC
<1> HIDE DEF FromRPC
<1> QED
  BY <1>1, <1>2, <1>3 DEF HasBytes, ByteStrings

(* Cutting to words changes nothing that the hash covers.                  *)
LEMMA HashOfWords ==
    ASSUME NEW op, op.nonce \in Int, op.preVerificationGas \in Int, NEW a
    PROVE  ComputeUserOpHash(AsWords(op), a) = ComputeUserOpHash(op, a)
<1>1. /\ WordOf(WordOf(op.nonce)) = WordOf(op.nonce)
      /\ WordOf(WordOf(op.preVerificationGas)) = WordOf(op.preVerificationGas)
  BY WordFits, WordKeeps
<1> QED
  BY <1>1 DEF ComputeUserOpHash, AsWords

LEMMA IntakeInvBundles ==
    ASSUME IntakeInv
    PROVE  BundleDecodesToRows
<1> SUFFICES ASSUME NEW r \in table, r.hash.entryPoint = EntryPoints[1],
                    NEW s \in table, s.hash.entryPoint = EntryPoints[1]
             PROVE  LET bundle == IF r = s THEN <<r>> ELSE <<r, s>>
                        calldata == BuildHandleOpsCalldata(
                                        [i \in DOMAIN bundle |-> HydrateOp(bundle[i])], "eoa")
                        ops == DecodeHandleOps(calldata)
                    IN  /\ Len(ops) = Len(bundle)
                        /\ \A i \in DOMAIN bundle :
                            /\ ComputeUserOpHash(ops[i], EntryPoints[1]) = bundle[i].hash
                            /\ ops[i].signature = bundle[i].signature
  BY DEF BundleDecodesToRows
<1> DEFINE bundle == IF r = s THEN <<r>> ELSE <<r, s>>
           put == [i \in DOMAIN bundle |-> HydrateOp(bundle[i])]
           ops == DecodeHandleOps(BuildHandleOpsCalldata(put, "eoa"))
           n == Len(bundle)
<1>1. n \in Nat /\ DOMAIN bundle = 1 .. n /\ \A i \in 1 .. n : bundle[i] \in {r, s}
  <2>1. CASE r = s
    BY <2>1
  <2>2. CASE r # s
    BY <2>2
  <2> QED
    BY <2>1, <2>2
<1> HIDE DEF bundle, n
<1>2. ASSUME NEW x \in {r, s}
      PROVE  /\ HasBytes(HydrateOp(x))
             /\ HydrateOp(x).signature = x.signature
             /\ ComputeUserOpHash(AsWords(HydrateOp(x)), EntryPoints[1]) = x.hash
  <2>1. PICK w, a : /\ Passed(w, a) /\ HydrateOp(x) = FromRPC(w)
                    /\ x.hash = ComputeUserOpHash(FromRPC(w), a)
                    /\ x.signature = FromRPC(w).signature
    BY RowOrigin
  <2>2. x.hash.entryPoint = a
    BY <2>1 DEF ComputeUserOpHash
  <2>3. HydrateOp(x).nonce \in Int /\ HydrateOp(x).preVerificationGas \in Int
    BY <2>1, PackedType DEF Passed
  <2>4. ComputeUserOpHash(AsWords(HydrateOp(x)), a) = x.hash
    BY <2>1, <2>3, HashOfWords
  <2>5. HasBytes(HydrateOp(x))
    BY <2>1, PackedBytes DEF Passed
  <2> QED
    BY <2>1, <2>2, <2>4, <2>5
<1>3. IsSeq(put) /\ Len(put) = n
  <2>1. DOMAIN put = 1 .. n /\ put = [i \in 1 .. n |-> put[i]]
    BY <1>1
  <2> QED
    BY <1>1, <2>1, SeqIntro
<1>4. \A i \in 1 .. n : put[i] = HydrateOp(bundle[i]) /\ HasBytes(put[i])
  BY <1>1, <1>2
<1> HIDE DEF put
<1>5. ops = [i \in 1 .. n |-> AsWords(put[i])]
  BY <1>3, <1>4, HandleOpsDecodes
<1> HIDE DEF ops
<1>6. Len(ops) = n
  <2>1. DOMAIN ops = 1 .. n /\ ops = [i \in 1 .. n |-> ops[i]]
    BY <1>5
  <2> QED
    BY <1>1, <2>1, SeqIntro
<1>7. ASSUME NEW i \in 1 .. n
      PROVE  /\ ComputeUserOpHash(ops[i], EntryPoints[1]) = bundle[i].hash
             /\ ops[i].signature = bundle[i].signature
  <2>1. ops[i] = AsWords(HydrateOp(bundle[i])) /\ bundle[i] \in {r, s}
    BY <1>1, <1>4, <1>5
  <2>2. AsWords(HydrateOp(bundle[i])).signature = HydrateOp(bundle[i]).signature
    BY DEF AsWords
  <2> QED
    BY <1>2, <2>1, <2>2
<1> QED
  BY <1>1, <1>6, <1>7 DEF ops, put, bundle, n

-----------------------------------------------------------------------------
(* The estimator.                                                          *)

(* The call that was put into execute is the one that is read back.        *)
LEMMA ExecuteDecodes ==
    ASSUME NEW to, NEW value, NEW data, IsSeq(data), Len(data) < Narrow \div 2
    PROVE  /\ IsSeq(BuildExecuteCalldata(to, value, data))
           /\ DecodeSignetExecute(BuildExecuteCalldata(to, value, data))
                = [kind |-> "call", target |-> to, value |-> value, data |-> data]
<1> DEFINE n == Len(data)
           m == WordsFor(n) * WordLen
           hd == <<Selector, AddressWord(to), Num(value), Num(3), Num(n)>>
           tl == [i \in 1 .. m |-> IF i <= Len(data) THEN data[i] ELSE Zero]
           cd == hd \o tl
<1>1. n \in Nat /\ data = [i \in 1 .. n |-> data[i]] /\ DOMAIN data = 1 .. n
  BY DEF IsSeq
<1>2. m \in Nat /\ n <= m
  <2>1. WordLen \in Nat /\ WordsFor(n) \in Nat /\ WordLen * WordsFor(n) >= n
    BY <1>1, WidthAssumption, WordsForType
  <2> HIDE DEF n
  <2>2. WordsFor(n) * WordLen = WordLen * WordsFor(n) /\ WordsFor(n) * WordLen \in Nat
    BY <2>1
  <2> QED
    BY <2>1, <2>2
<1>3. BuildExecuteCalldata(to, value, data) = cd
  BY DEF BuildExecuteCalldata
<1>4. /\ IsSeq(hd) /\ Len(hd) = 5 /\ hd[1] = Selector /\ hd[2] = AddressWord(to)
      /\ hd[3] = Num(value) /\ hd[4] = Num(3) /\ hd[5] = Num(n)
  <2>1. hd \in Seq({Selector, AddressWord(to), Num(value), Num(3), Num(n)})
    OBVIOUS
  <2>2. IsSeq(hd)
    BY <2>1, AnySeq
  <2> QED
    BY <2>2
<1>5. IsSeq(tl) /\ Len(tl) = m /\ \A i \in 1 .. n : tl[i] = data[i]
  <2> HIDE DEF m
  <2>1. DOMAIN tl = 1 .. m /\ tl = [i \in 1 .. m |-> tl[i]]
    OBVIOUS
  <2>2. \A i \in 1 .. n : tl[i] = data[i]
    BY <1>1, <1>2
  <2> HIDE DEF tl
  <2> QED
    BY <1>2, <2>1, <2>2, SeqIntro
<1> HIDE DEF hd, tl, m, cd
<1>0. IsSeq(hd) /\ IsSeq(tl)
  BY <1>4, <1>5
<1>6. IsSeq(cd) /\ Len(cd) = 5 + m
  <2>1. IsSeq(hd \o tl)
    BY <1>0, Concat
  <2>2. Len(hd \o tl) = Len(hd) + Len(tl)
    BY <1>0, Concat
  <2> QED
    BY <1>4, <1>5, <2>1, <2>2 DEF cd
<1>7. /\ cd[1] = Selector /\ cd[2] = AddressWord(to) /\ cd[3] = Num(value)
      /\ cd[4] = Num(3) /\ cd[5] = Num(n)
  <2>1. \A i \in 1 .. Len(hd) : (hd \o tl)[i] = hd[i]
    BY <1>0, Concat
  <2>2. \A i \in 1 .. 5 : cd[i] = hd[i]
    BY <1>4, <2>1 DEF cd
  <2> QED
    BY <1>4, <2>2
<1>8. \A i \in 1 .. n : cd[5 + i] = data[i]
  <2>1. \A i \in 1 .. Len(tl) : (hd \o tl)[Len(hd) + i] = tl[i]
    BY <1>0, Concat
  <2>2. ASSUME NEW i \in 1 .. n PROVE i \in 1 .. Len(tl)
    BY <1>1, <1>2, <1>5
  <2> QED
    BY <1>4, <1>5, <2>1, <2>2 DEF cd
<1>9. /\ cd[2].addr = to /\ cd[3].num = value /\ cd[4].num = 3 /\ cd[5].num = n
  BY <1>7 DEF AddressWord, Num
<1>10. Int64(3) = 3 /\ Int64(n) = n
  <2>1. Narrow \in Nat /\ Narrow >= 8
    BY WidthAssumption, GasAssumption
  <2>2. 3 < Narrow \div 2 /\ Narrow \div 2 <= Narrow /\ Narrow \div 2 \in Nat
    BY <2>1
  <2>3. 3 % Narrow = 3 /\ n % Narrow = n
    BY <1>1, <2>1, <2>2
  <2> QED
    BY <1>1, <2>2, <2>3 DEF Int64
<1>11. SubSeq(cd, 6, 5 + n) = data
  <2>1. cd \in Seq(Range(cd)) /\ 5 + n <= Len(cd)
    BY <1>1, <1>2, <1>6 DEF IsSeq
  <2>2. SubSeq(cd, 6, 5 + n) = [i \in 1 .. n |-> cd[5 + i]]
    <3>1. SubSeq(cd, 6, 5 + n) = [i \in 1 .. ((5 + n) - 6 + 1) |-> cd[i + 6 - 1]]
      BY <1>1, <2>1
    <3>2. (5 + n) - 6 + 1 = n /\ \A i \in 1 .. n : i + 6 - 1 = 5 + i
      BY <1>1
    <3> QED
      BY <3>1, <3>2
  <2> QED
    BY <1>1, <1>8, <2>2
<1>12. DecodeSignetExecute(cd)
         = [kind |-> "call", target |-> to, value |-> value, data |-> data]
  <2>1. 1 + Int64(cd[4].num) = 4 /\ Int64(cd[4 + 1].num) = n
    BY <1>9, <1>10
  <2>2. /\ ~(Len(cd) < 4) /\ ~(Len(cd) < 4 + 1) /\ ~(4 < 0)
        /\ ~(Len(cd) < 4 + 1 + n) /\ ~(n < 0)
    BY <1>1, <1>2, <1>6
  <2>3. 4 + 2 = 6 /\ 4 + 1 + n = 5 + n
    BY <1>1
  <2> HIDE DEF n
  <2> QED
    BY <1>7, <1>9, <1>11, <2>1, <2>2, <2>3 DEF DecodeSignetExecute
<1> QED
  BY <1>3, <1>6, <1>12

(* The numbers of an estimate are integers, and the gas of the call is     *)
(* what the node said of the client's own call, with the buffer.           *)
LEMMA PreVerificationGasType ==
    ASSUME NEW op, HasBytes(op)
    PROVE  CalcPreVerificationGas(op) \in Int
<1> DEFINE rest(bytes) == IF bytes = <<>> THEN <<>> ELSE Tail(bytes)
           tokens == CostedTokens(op)
           prefixes == {f \in {"initCode", "paymasterAndData"} : op[f] # <<>>}
           zeroAt == {i \in DOMAIN tokens : tokens[i] = Zero}
<1>1. /\ IsSeq(op.initCode) /\ IsSeq(op.callData)
      /\ IsSeq(op.paymasterAndData) /\ IsSeq(op.signature)
  BY DEF HasBytes, ByteStrings
<1>2. ASSUME NEW b, IsSeq(b) PROVE IsSeq(rest(b))
  <2>1. b = <<>> => rest(b) \in Seq(Range(b))
    BY <1>2 DEF IsSeq
  <2>2. b # <<>> => rest(b) \in Seq(Range(b))
    BY <1>2 DEF IsSeq
  <2> HIDE DEF rest
  <2> QED
    BY <2>1, <2>2, AnySeq
<1>3. IsSeq(tokens)
  <2> DEFINE a == <<Num(WordOf(op.nonce))>>
             b == rest(op.initCode)
             m == <<op.accountGasLimits, Num(WordOf(op.preVerificationGas)), op.gasFees>>
             d == rest(op.paymasterAndData)
  <2>1. a \in Seq({Num(WordOf(op.nonce))})
    OBVIOUS
  <2>2. m \in Seq({op.accountGasLimits, Num(WordOf(op.preVerificationGas)), op.gasFees})
    OBVIOUS
  <2>3. IsSeq(a) /\ IsSeq(m) /\ IsSeq(b) /\ IsSeq(d)
    BY <1>1, <1>2, <2>1, <2>2, AnySeq
  <2>4. tokens = a \o b \o op.callData \o m \o d \o op.signature
    BY DEF CostedTokens
  <2> HIDE DEF a, b, m, d
  <2>5. IsSeq(a \o b)
    BY <2>3, Concat
  <2>6. IsSeq(a \o b \o op.callData)
    BY <1>1, <2>5, Concat
  <2>7. IsSeq(a \o b \o op.callData \o m)
    BY <2>3, <2>6, Concat
  <2>8. IsSeq(a \o b \o op.callData \o m \o d)
    BY <2>3, <2>7, Concat
  <2>9. IsSeq(a \o b \o op.callData \o m \o d \o op.signature)
    BY <1>1, <2>8, Concat
  <2> QED
    BY <2>4, <2>9
<1> HIDE DEF tokens
<1>4. Len(tokens) \in Nat /\ DOMAIN tokens = 1 .. Len(tokens)
  BY <1>3 DEF IsSeq
<1>5. Cardinality(zeroAt) \in Nat
  <2>1. IsFiniteSet(1 .. Len(tokens)) /\ zeroAt \in SUBSET (1 .. Len(tokens))
    BY <1>4, FS_Interval
  <2> HIDE DEF zeroAt
  <2> QED
    BY <2>1, FS_Subset, FS_CardinalityType
<1>6. Cardinality(prefixes) \in Nat
  <2>1. IsFiniteSet({"initCode"})
    BY FS_Singleton
  <2>2. IsFiniteSet({"initCode"} \cup {"paymasterAndData"})
    BY <2>1, FS_AddElement
  <2>3. prefixes \in SUBSET ({"initCode"} \cup {"paymasterAndData"})
    OBVIOUS
  <2> HIDE DEF prefixes
  <2> QED
    BY <2>2, <2>3, FS_Subset, FS_CardinalityType
<1> DEFINE z == Cardinality(zeroAt)
           p == Cardinality(prefixes)
<1>7. CalcPreVerificationGas(op)
        = Overhead + ((p + 1) + Len(tokens) - z) * NonZeroCost + z * ZeroCost
  BY DEF CalcPreVerificationGas, tokens
<1> HIDE DEF z, p
<1>8. z \in Nat /\ p \in Nat
  BY <1>5, <1>6 DEF z, p
<1> QED
  BY <1>4, <1>7, <1>8, GasAssumption

LEMMA EstimateOfDraft ==
    ASSUME NEW c \in Clients, NEW op, HasBytes(op), op.callData = draft[c].callData
    PROVE  LET estimate == Estimate(op)
           IN  /\ estimate.preVerificationGas \in Int
               /\ estimate.verificationGasLimit \in Int
               /\ estimate.callGasLimit \in Int
               /\ estimate.callGasLimit =
                    Buffered(NodeGas(call[c].target, call[c].value, call[c].data))
<1> DEFINE inner == [kind |-> "call", target |-> call[c].target,
                     value |-> call[c].value, data |-> call[c].data]
           gas == NodeGas(call[c].target, call[c].value, call[c].data)
           limit == IF op.initCode = <<>> THEN VerificationGas ELSE VerificationGasCreate
<1>1. /\ op.callData = BuildExecuteCalldata(call[c].target, call[c].value, call[c].data)
      /\ IsSeq(call[c].data) /\ Len(call[c].data) < Narrow \div 2
      /\ gas \in 0 .. (Narrow - 1)
  BY ClientAssumption DEF IsSeq
<1>2. DecodeSignetExecute(op.callData) = inner
  BY <1>1, ExecuteDecodes
<1>3. limit \in Int /\ CalcPreVerificationGas(op) \in Int
  BY GasAssumption, PreVerificationGasType
<1>4. Buffered(gas) \in Int
  <2>1. Narrow \in Nat /\ Narrow > 0 /\ gas \in Nat
    BY <1>1, Widths
  <2> HIDE DEF gas
  <2> DEFINE n == (gas * BufferOver) % Narrow
  <2>2. n \in Nat
    BY <2>1, GasAssumption
  <2> HIDE DEF n
  <2>3. n \div BufferUnder \in Int
    BY <2>2, GasAssumption
  <2> QED
    BY <2>3 DEF Buffered, n
<1>5. inner.kind = "call" /\ NodeGas(inner.target, inner.value, inner.data) = gas
  OBVIOUS
<1> HIDE DEF inner, gas, limit
<1>6. Estimate(op) = [kind |-> "estimate", preVerificationGas |-> CalcPreVerificationGas(op),
                      verificationGasLimit |-> limit, callGasLimit |-> Buffered(gas)]
  BY <1>2, <1>5 DEF Estimate, limit
<1> QED
  BY <1>3, <1>4, <1>6 DEF gas

-----------------------------------------------------------------------------
(* The way of a sponsored operation.                                       *)

(* Every token of a signature in a byte string is of a hash in S; in an    *)
(* operation, behind the paymaster's address.                              *)
SignedIn(bytes, S) ==
    \A i \in DOMAIN bytes : "signed" \in DOMAIN bytes[i] => bytes[i].signed \in S

CarriesOnly(op, S) ==
    \A i \in 2 .. Len(op.paymasterAndData) :
        "signed" \in DOMAIN op.paymasterAndData[i] => op.paymasterAndData[i].signed \in S

WiresAreRequests == DOMAIN wire = Clients /\ \A c \in Clients : WellFormed(wire[c])

GasIsEstimated ==
    \A c \in Clients : Prepared(c) =>
        wire[c].callGasLimit =
            BigToHex(Buffered(NodeGas(call[c].target, call[c].value, call[c].data)))

GrantsAreSigned ==
    \A g \in grants : \E op : \E now \in Times :
        /\ g = GetHash(op, ValidityWindow(now))
        /\ IsAllowedTarget(op.sender, op.callData)

(* A signature is only where somebody put one that was granted.            *)
WiresCarryGrants == \A c \in Clients : SignedIn(wire[c].paymasterData, grants)
RowsCarryGrants == \A r \in table : CarriesOnly(HydrateOp(r), grants)

(* The inductive invariant of the way of a sponsored operation.            *)
SponsoredInv ==
    /\ IntakeInv
    /\ WiresAreRequests
    /\ GasIsEstimated
    /\ GrantsAreSigned
    /\ WiresCarryGrants
    /\ RowsCarryGrants

(* A byte string behind an address.                                        *)
LEMMA CarriedBehindAddress ==
    ASSUME NEW w, WellFormed(w), NEW S, SignedIn(w.paymasterData, S)
    PROVE  CarriesOnly(FromRPC(w), S)
<1> DEFINE d == w.paymasterData
           t == w.paymaster
           e == PutBefore(t.addr, d)
<1>1. IsSeq(d) /\ Len(d) \in Nat /\ DOMAIN d = 1 .. Len(d)
  BY DEF WellFormed, WireBytes, IsSeq
<1>2. FromRPC(w).paymasterAndData = Prefixed(t, d)
  BY DEF FromRPC
<1>3. \A i \in 1 .. Len(d) : "signed" \in DOMAIN d[i] => d[i].signed \in S
  BY <1>1 DEF SignedIn
<1> HIDE DEF d, t
<1>4. CASE Prefixed(t, d) = <<>>
  BY <1>2, <1>4 DEF CarriesOnly
<1>5. CASE Prefixed(t, d) = e
  <2>1. Len(e) = 1 + Len(d) /\ \A i \in 1 .. Len(d) : e[1 + i] = d[i]
    BY <1>1, PutBeforeParts
  <2> HIDE DEF e
  <2>2. ASSUME NEW i \in 2 .. Len(e), "signed" \in DOMAIN e[i] PROVE e[i].signed \in S
    <3>1. i - 1 \in 1 .. Len(d) /\ 1 + (i - 1) = i
      BY <1>1, <2>1
    <3>2. e[i] = d[i - 1]
      BY <2>1, <3>1
    <3> QED
      BY <1>3, <2>2, <3>1, <3>2
  <2> QED
    BY <1>2, <1>5, <2>2 DEF CarriesOnly
<1> QED
  BY <1>4, <1>5 DEF Prefixed, HexToAddress, e, PutBefore

(* Putting the paymaster's data into a request.                            *)
LEMMA PlaceSeq ==
    ASSUME NEW l, NEW d, IsSeq(d)
    PROVE  IsSeq(Place(l, d))
<1> DEFINE p == PackBigInts(PaymasterVerificationGas, PaymasterPostOpGas)
<1>1. <<p>> \in Seq({p})
  OBVIOUS
<1>2. IsSeq(<<p>>)
  BY <1>1, AnySeq
<1>3. IsSeq(<<p>> \o d)
  BY <1>2, Concat
<1> QED
  BY <1>3 DEF Place

LEMMA WithPaymasterKeeps ==
    ASSUME NEW w, WellFormed(w), NEW l, NEW d, IsSeq(d)
    PROVE  LET v == WithPaymaster(w, l, d)
           IN  /\ WellFormed(v)
               /\ \A f \in WireNumbers : v[f] = w[f]
               /\ v.callData = w.callData
               /\ v.paymasterData = Place(l, d)
<1> DEFINE v == WithPaymaster(w, l, d)
           fields == WireNumbers \cup WireBytes \cup WireAddresses
<1>1. IsSeq(Place(l, d))
  BY PlaceSeq
<1>2. DOMAIN w = fields
  BY DEF WellFormed
<1>3. /\ DOMAIN v = fields
      /\ \A f \in fields \ {"paymaster", "paymasterData"} : v[f] = w[f]
      /\ v.paymasterData = Place(l, d)
  BY <1>2 DEF WithPaymaster, WireBytes, WireAddresses
<1> HIDE DEF v
<1>4. \A f \in WireNumbers : v[f] = w[f]
  BY <1>3 DEF WireNumbers, WireBytes, WireAddresses
<1>5. /\ v.callData = w.callData /\ v.signature = w.signature
      /\ v.factoryData = w.factoryData
  BY <1>3 DEF WireNumbers, WireBytes, WireAddresses
<1>6. WellFormed(v)
  <2>1. \A f \in WireBytes : v[f] \in Seq(Range(v[f]))
    BY <1>1, <1>3, <1>5 DEF WireBytes, WellFormed, IsSeq
  <2> QED
    BY <1>3, <1>4, <2>1 DEF WellFormed
<1> QED
  BY <1>3, <1>4, <1>5, <1>6 DEF v

(* A window and a signature, as they are put behind the address.           *)
LEMMA DataSeq ==
    ASSUME NEW window, NEW sig, IsSeq(sig)
    PROVE  LET d == EncodeValidityAndSig(window, sig)
           IN  /\ IsSeq(d) /\ Len(d) = 2 + Len(sig)
               /\ d[1] = TimeWord(window.until) /\ d[2] = TimeWord(window.after)
               /\ \A i \in 1 .. Len(sig) : d[2 + i] = sig[i]
<1> DEFINE a == <<TimeWord(window.until), TimeWord(window.after)>>
<1>1. a \in Seq({TimeWord(window.until), TimeWord(window.after)})
  OBVIOUS
<1>2. IsSeq(a)
  BY <1>1, AnySeq
<1>3. Len(a) = 2 /\ a[1] = TimeWord(window.until) /\ a[2] = TimeWord(window.after)
  OBVIOUS
<1>4. EncodeValidityAndSig(window, sig) = a \o sig
  BY DEF EncodeValidityAndSig
<1> HIDE DEF a
<1>5. IsSeq(a \o sig)
  BY <1>2, Concat
<1>6. Len(a \o sig) = Len(a) + Len(sig)
  BY <1>2, Concat
<1>7. \A i \in 1 .. Len(a) : (a \o sig)[i] = a[i]
  BY <1>2, Concat
<1>8. \A i \in 1 .. Len(sig) : (a \o sig)[Len(a) + i] = sig[i]
  BY <1>2, Concat
<1>9. Len(a \o sig) = 2 + Len(sig) /\ (a \o sig)[1] = a[1] /\ (a \o sig)[2] = a[2]
  BY <1>3, <1>6, <1>7
<1>10. \A i \in 1 .. Len(sig) : (a \o sig)[2 + i] = sig[i]
  BY <1>3, <1>8
<1> QED
  BY <1>3, <1>4, <1>5, <1>9, <1>10

LEMMA DataParts ==
    ASSUME NEW window, NEW sig, IsSeq(sig), Len(sig) = 3
    PROVE  LET d == EncodeValidityAndSig(window, sig)
           IN  /\ IsSeq(d) /\ Len(d) = 5
               /\ d[1] = TimeWord(window.until) /\ d[2] = TimeWord(window.after)
               /\ \A i \in 1 .. 3 : d[2 + i] = sig[i]
<1> DEFINE d(x) == EncodeValidityAndSig(window, x)
<1>1. ASSUME NEW x, IsSeq(x), NEW n, Len(x) = n
      PROVE  /\ IsSeq(d(x)) /\ Len(d(x)) = 2 + n
             /\ d(x)[1] = TimeWord(window.until) /\ d(x)[2] = TimeWord(window.after)
             /\ \A i \in 1 .. n : d(x)[2 + i] = x[i]
  <2> HIDE DEF d
  <2>1. /\ IsSeq(d(x)) /\ Len(d(x)) = 2 + Len(x)
        /\ d(x)[1] = TimeWord(window.until) /\ d(x)[2] = TimeWord(window.after)
        /\ \A i \in 1 .. Len(x) : d(x)[2 + i] = x[i]
    <3>1. IsSeq(x)
      BY <1>1
    <3> QED
      BY <3>1, DataSeq DEF d
  <2> QED
    BY <1>1, <2>1, Zenon
<1> HIDE DEF d
<1>2. /\ IsSeq(d(sig)) /\ Len(d(sig)) = 2 + 3
      /\ d(sig)[1] = TimeWord(window.until) /\ d(sig)[2] = TimeWord(window.after)
      /\ \A i \in 1 .. 3 : d(sig)[2 + i] = sig[i]
  BY <1>1, Zenon
<1> QED
  BY <1>2 DEF d

LEMMA SignatureSeq ==
    /\ IsSeq(StubSignature) /\ Len(StubSignature) = 3
    /\ \A i \in 1 .. 3 : StubSignature[i] = Zero
    /\ \A hash : /\ IsSeq(SignatureOf(hash)) /\ Len(SignatureOf(hash)) = 3
                 /\ \A i \in 1 .. 3 : SignatureOf(hash)[i] = [signed |-> hash, part |-> i]
<1>1. StubSignature \in Seq({Zero}) /\ Len(StubSignature) = 3
  BY DEF StubSignature
<1>2. \A i \in 1 .. 3 : StubSignature[i] = Zero
  BY DEF StubSignature
<1>3. ASSUME NEW hash
      PROVE  /\ IsSeq(SignatureOf(hash)) /\ Len(SignatureOf(hash)) = 3
             /\ \A i \in 1 .. 3 : SignatureOf(hash)[i] = [signed |-> hash, part |-> i]
  <2>1. /\ DOMAIN SignatureOf(hash) = 1 .. 3
        /\ SignatureOf(hash) = [i \in 1 .. 3 |-> SignatureOf(hash)[i]]
        /\ \A i \in 1 .. 3 : SignatureOf(hash)[i] = [signed |-> hash, part |-> i]
    BY DEF SignatureOf
  <2> QED
    BY <2>1, SeqIntro
<1> QED
  BY <1>1, <1>2, <1>3, AnySeq

(* Placing the data adds no token of a signature.                          *)
LEMMA PlaceCarries ==
    ASSUME NEW l, NEW d, IsSeq(d), NEW S, SignedIn(d, S)
    PROVE  SignedIn(Place(l, d), S)
<1> DEFINE p == PackBigInts(PaymasterVerificationGas, PaymasterPostOpGas)
           e == PutBefore(p, d)
<1>1. "signed" \notin DOMAIN p
  BY DEF PackBigInts
<1> HIDE DEF p
<1>2. /\ IsSeq(e) /\ Len(e) = 1 + Len(d) /\ e[1] = p
      /\ \A i \in 1 .. Len(d) : e[1 + i] = d[i]
  BY PutBeforeParts
<1> HIDE DEF e
<1>3. Len(d) \in Nat /\ DOMAIN d = 1 .. Len(d) /\ DOMAIN e = 1 .. Len(e)
  BY <1>2 DEF IsSeq
<1>4. ASSUME NEW i \in 1 .. Len(e), "signed" \in DOMAIN e[i] PROVE e[i].signed \in S
  <2>1. i # 1
    BY <1>1, <1>2, <1>4
  <2>2. i - 1 \in 1 .. Len(d) /\ 1 + (i - 1) = i
    BY <1>2, <1>3, <2>1
  <2>3. e[i] = d[i - 1]
    BY <1>2, <2>2
  <2> QED
    BY <1>3, <1>4, <2>2, <2>3 DEF SignedIn
<1>5. SignedIn(e, S)
  BY <1>3, <1>4 DEF SignedIn
<1> QED
  BY <1>5 DEF Place, e, p, PutBefore

(* Nor does the window.                                                    *)
LEMMA DataCarries ==
    ASSUME NEW window, NEW sig, IsSeq(sig), NEW S, SignedIn(sig, S)
    PROVE  LET d == EncodeValidityAndSig(window, sig)
           IN  IsSeq(d) /\ SignedIn(d, S)
<1> DEFINE d == EncodeValidityAndSig(window, sig)
<1>1. /\ IsSeq(d) /\ Len(d) = 2 + Len(sig)
      /\ d[1] = TimeWord(window.until) /\ d[2] = TimeWord(window.after)
      /\ \A i \in 1 .. Len(sig) : d[2 + i] = sig[i]
  BY DataSeq
<1> HIDE DEF d
<1>2. \A t : "signed" \notin DOMAIN TimeWord(t)
  BY DEF TimeWord
<1>3. Len(sig) \in Nat /\ DOMAIN sig = 1 .. Len(sig) /\ DOMAIN d = 1 .. Len(d)
  BY <1>1 DEF IsSeq
<1>4. ASSUME NEW i \in 1 .. Len(d), "signed" \in DOMAIN d[i] PROVE d[i].signed \in S
  <2>1. i # 1 /\ i # 2
    BY <1>1, <1>2, <1>4
  <2>2. i - 2 \in 1 .. Len(sig) /\ 2 + (i - 2) = i
    BY <1>1, <1>3, <2>1
  <2>3. d[i] = sig[i - 2]
    BY <1>1, <2>2
  <2> QED
    BY <1>3, <1>4, <2>2, <2>3 DEF SignedIn
<1> QED
  BY <1>1, <1>3, <1>4 DEF SignedIn, d

(* The stub is no signature, and the signature of a hash shows that hash.  *)
LEMMA SignaturesCarry ==
    ASSUME NEW S
    PROVE  /\ SignedIn(StubSignature, S)
           /\ \A hash \in S : SignedIn(SignatureOf(hash), S)
<1>1. DOMAIN StubSignature = 1 .. 3 /\ \A i \in 1 .. 3 : StubSignature[i] = Zero
  BY SignatureSeq DEF IsSeq
<1>2. "signed" \notin DOMAIN Zero
  BY DEF Zero
<1>3. ASSUME NEW hash \in S PROVE SignedIn(SignatureOf(hash), S)
  BY DEF SignatureOf, SignedIn
<1> QED
  BY <1>1, <1>2, <1>3 DEF SignedIn

(* checkShouldSponsor asks the contract about the operation it was given.  *)
LEMMA ShouldSponsorReads ==
    ASSUME NEW op, HasBytes(op), ShouldSponsor(EncodeShouldSponsorCall(op))
    PROVE  IsAllowedTarget(op.sender, op.callData)
<1> DEFINE a == <<1>>
           e == EncodePackedUserOp(op)
           data == EncodeShouldSponsorCall(op)
<1>1. a \in Seq({1}) /\ data = a \o e
  BY DEF EncodeShouldSponsorCall
<1>2. IsSeq(a) /\ IsSeq(e)
  BY <1>1, AnySeq, EncodedOp
<1>3. Len(a) = 1 /\ a[1] = 1
  OBVIOUS
<1>4. data[1] = 1
  <2> HIDE DEF a, e, data
  <2>1. \A i \in 1 .. Len(a) : (a \o e)[i] = a[i]
    BY <1>2, Concat
  <2>2. 1 \in 1 .. Len(a)
    BY <1>3
  <2>3. (a \o e)[1] = a[1]
    BY <2>1, <2>2
  <2> QED
    BY <1>1, <1>3, <2>3
<1>5. Holds(data, 2, e)
  <2> HIDE DEF a, e, data
  <2>1. \A i \in 1 .. Len(e) : (a \o e)[Len(a) + i] = e[i]
    BY <1>2, Concat
  <2>2. \A i \in 1 .. Len(e) : Len(a) + i = 2 + i - 1
    BY <1>3
  <2> QED
    BY <1>1, <2>1, <2>2 DEF Holds
<1>6. DecodeTuple(data, 2) = AsWords(op)
  BY <1>5, EncodedOp
<1> HIDE DEF data
<1>7. 1 + data[1] = 2
  BY <1>4
<1>8. IsAllowedTarget(AsWords(op).sender, AsWords(op).callData)
  BY <1>6, <1>7 DEF ShouldSponsor, data
<1> QED
  BY <1>8 DEF AsWords

-----------------------------------------------------------------------------
(* The steps of SponsoredNext.                                             *)

(* Rows after a request, when the request itself is accounted for.         *)
LEMMA SendRows ==
    ASSUME RowsCarryGrants, NEW w, WellFormed(w), NEW ep, SendUserOperation(w, ep),
           UNCHANGED grants, SignedIn(w.paymasterData, grants)
    PROVE  RowsCarryGrants'
<1> DEFINE row(hash) == RowOf(FromRPC(w), hash, TRUE)
<1>1. \/ table' = table
      \/ Parses(w) /\ \E hash : table' = table \cup {row(hash)}
  BY DEF SendUserOperation, Insert
<1>2. CASE table' = table
  BY <1>2 DEF RowsCarryGrants
<1>3. CASE Parses(w) /\ \E hash : table' = table \cup {row(hash)}
  <2>1. PICK hash : table' = table \cup {row(hash)}
    BY <1>3
  <2>2. HydrateOp(row(hash)) = FromRPC(w)
    BY <1>3, RowRoundTrip
  <2> HIDE DEF row
  <2>3. CarriesOnly(FromRPC(w), grants)
    BY CarriedBehindAddress
  <2>4. ASSUME NEW r \in table' PROVE CarriesOnly(HydrateOp(r), grants)
    <3>1. CASE r \in table
      BY <3>1 DEF RowsCarryGrants
    <3>2. CASE r = row(hash)
      BY <2>2, <2>3, <3>2
    <3> QED
      BY <2>1, <3>1, <3>2
  <2> QED
    BY <2>4 DEF RowsCarryGrants
<1> QED
  BY <1>1, <1>2, <1>3

LEMMA IntakeRows ==
    ASSUME RowsCarryGrants, IntakeNext, UNCHANGED grants
    PROVE  RowsCarryGrants'
<1>1. ASSUME NEW w \in WireOps, NEW ep, SendUserOperation(w, ep) PROVE RowsCarryGrants'
  <2>1. WellFormed(w) /\ Unsigned(w.paymasterData)
    BY RequestAssumption, ClientAssumption
  <2>2. SignedIn(w.paymasterData, grants)
    BY <2>1 DEF Unsigned, SignedIn
  <2> QED
    BY <1>1, <2>1, <2>2, SendRows
<1>2. ASSUME NEW r \in table, Settle(r) PROVE RowsCarryGrants'
  <2> DEFINE settled == [r EXCEPT !.live = FALSE]
  <2>1. HydrateOp(settled) = HydrateOp(r)
    BY DEF HydrateOp
  <2>2. table' = (table \ {r}) \cup {settled}
    BY <1>2 DEF Settle
  <2> HIDE DEF settled
  <2> QED
    BY <2>1, <2>2 DEF RowsCarryGrants
<1>3. ASSUME NEW r \in table, Prune(r) PROVE RowsCarryGrants'
  BY <1>3 DEF RowsCarryGrants, Prune
<1> QED
  BY <1>1, <1>2, <1>3 DEF IntakeNext

(* Anyone may send a request that shows granted signatures only.           *)
LEMMA AnySend ==
    ASSUME SponsoredInv, NEW v, WellFormed(v), SignedIn(v.paymasterData, grants),
           NEW ep, SendUserOperation(v, ep), UNCHANGED <<wire, grants>>
    PROVE  SponsoredInv'
<1>1. IntakeInv'
  BY SendKeepsInv DEF SponsoredInv
<1>2. RowsCarryGrants'
  BY SendRows DEF SponsoredInv
<1> QED
  BY <1>1, <1>2
  DEF SponsoredInv, WiresAreRequests, GasIsEstimated, GrantsAreSigned, WiresCarryGrants, Prepared

LEMMA KnownRequests ==
    ASSUME SponsoredInv, NEW w \in Known
    PROVE  WellFormed(w) /\ SignedIn(w.paymasterData, grants)
<1>1. CASE w \in WireOps
  BY <1>1, RequestAssumption, ClientAssumption DEF Unsigned, SignedIn
<1>2. ASSUME NEW c \in Clients, w = wire[c]
      PROVE  WellFormed(w) /\ SignedIn(w.paymasterData, grants)
  BY <1>2 DEF SponsoredInv, WiresAreRequests, WiresCarryGrants
<1> QED
  BY <1>1, <1>2 DEF Known

LEMMA SendStep ==
    ASSUME SponsoredInv, NEW c \in Clients, NEW ep, Send(c, ep)
    PROVE  SponsoredInv'
<1>1. PICK u \in Known : \E f \in DOMAIN u :
        SendUserOperation([wire[c] EXCEPT ![f] = u[f]], ep)
  BY DEF Send
<1>2. PICK f \in DOMAIN u : SendUserOperation([wire[c] EXCEPT ![f] = u[f]], ep)
  BY <1>1
<1> DEFINE w == wire[c]
           v == [w EXCEPT ![f] = u[f]]
           fields == WireNumbers \cup WireBytes \cup WireAddresses
<1>3. /\ WellFormed(u) /\ SignedIn(u.paymasterData, grants)
      /\ WellFormed(w) /\ SignedIn(w.paymasterData, grants)
  BY KnownRequests DEF Known
<1>4. DOMAIN w = fields /\ DOMAIN u = fields
  BY <1>3 DEF WellFormed
<1> HIDE DEF w
<1>5. DOMAIN v = fields /\ \A h \in fields : v[h] = u[h] \/ v[h] = w[h]
  BY <1>4
<1> HIDE DEF v
<1>6. WellFormed(v)
  <2>1. ASSUME NEW h \in WireNumbers
        PROVE  v[h] \in [neg : BOOLEAN, mag : Nat] \cup {Garbage}
    BY <1>3, <1>5 DEF WellFormed
  <2>2. ASSUME NEW h \in WireBytes PROVE v[h] \in Seq(Range(v[h]))
    BY <1>3, <1>5 DEF WellFormed
  <2> QED
    BY <1>5, <2>1, <2>2 DEF WellFormed
<1>7. SignedIn(v.paymasterData, grants)
  <2>1. v.paymasterData = u.paymasterData \/ v.paymasterData = w.paymasterData
    BY <1>5 DEF WireBytes
  <2> QED
    BY <1>3, <2>1
<1>8. SendUserOperation(v, ep) /\ UNCHANGED <<wire, grants>>
  BY <1>2 DEF v, w, Send
<1> QED
  BY <1>6, <1>7, <1>8, AnySend

LEMMA ReuseStep ==
    ASSUME SponsoredInv, NEW w \in Known, NEW l, NEW g \in grants, NEW h \in grants,
           NEW ep, Reuse(w, l, g, h, ep)
    PROVE  SponsoredInv'
<1> DEFINE d == EncodeValidityAndSig(WindowOf(g), SignatureOf(h))
           v == WithPaymaster(w, l, d)
<1>1. IsSeq(SignatureOf(h)) /\ SignedIn(SignatureOf(h), grants)
  BY SignatureSeq, SignaturesCarry
<1>2. IsSeq(d) /\ SignedIn(d, grants)
  <2> HIDE DEF SignatureOf
  <2> QED
    BY <1>1, DataCarries
<1> HIDE DEF d
<1>3. WellFormed(v) /\ v.paymasterData = Place(l, d)
  BY <1>2, KnownRequests, WithPaymasterKeeps
<1>4. SignedIn(v.paymasterData, grants)
  BY <1>2, <1>3, PlaceCarries
<1>5. SendUserOperation(v, ep) /\ UNCHANGED <<wire, grants>>
  BY DEF Reuse, d
<1> HIDE DEF v
<1> QED
  BY <1>3, <1>4, <1>5, AnySend

LEMMA SignStep ==
    ASSUME SponsoredInv, NEW c \in Clients, NEW now \in Times, SignPaymasterData(c, now)
    PROVE  SponsoredInv'
<1> DEFINE w == wire[c]
           op == FromRPC(w)
           g == GetHash(op, ValidityWindow(now))
           data == EncodeValidityAndSig(ValidityWindow(now), SignatureOf(g))
           v == WithPaymaster(w, layout[c], data)
<1>1. /\ Prepared(c) /\ ShouldSponsor(EncodeShouldSponsorCall(op))
      /\ wire' = [wire EXCEPT ![c] = v]
      /\ grants' = grants \cup {g}
      /\ table' = table /\ reply' = reply
  BY DEF SignPaymasterData, intakeVars
<1>2. WellFormed(w) /\ DOMAIN wire = Clients
  BY DEF SponsoredInv, WiresAreRequests
<1>3. IsAllowedTarget(op.sender, op.callData)
  <2>1. HasBytes(op)
    BY <1>2, PackedBytes
  <2> QED
    BY <1>1, <2>1, ShouldSponsorReads
<1>4. g = GetHash(op, ValidityWindow(now)) /\ w = wire[c]
  OBVIOUS
<1> HIDE DEF g
<1>5. IsSeq(data) /\ SignedIn(data, grants')
  <2>1. IsSeq(SignatureOf(g)) /\ SignedIn(SignatureOf(g), grants')
    BY <1>1, SignatureSeq, SignaturesCarry
  <2> HIDE DEF SignatureOf
  <2> QED
    BY <2>1, DataCarries
<1> HIDE DEF data, op
<1>6. /\ WellFormed(v) /\ \A f \in WireNumbers : v[f] = w[f]
      /\ v.paymasterData = Place(layout[c], data)
  BY <1>2, <1>5, WithPaymasterKeeps
<1> HIDE DEF w, v
<1>7. /\ DOMAIN wire' = Clients /\ wire'[c] = v
      /\ \A b \in Clients \ {c} : wire'[b] = wire[b]
  BY <1>1, <1>2
<1>8. IntakeInv'
  BY <1>1 DEF SponsoredInv, IntakeInv, RowsArePassedRequests, KeysAreUnique
<1>9. WiresAreRequests'
  BY <1>6, <1>7 DEF SponsoredInv, WiresAreRequests
<1>10. GasIsEstimated'
  <2>1. v.callGasLimit = w.callGasLimit
    BY <1>6 DEF WireNumbers
  <2> QED
    BY <1>1, <1>4, <1>7, <2>1 DEF SponsoredInv, GasIsEstimated, Prepared
<1>11. GrantsAreSigned'
  BY <1>1, <1>3, <1>4 DEF SponsoredInv, GrantsAreSigned
<1>12. WiresCarryGrants'
  <2>1. SignedIn(v.paymasterData, grants')
    BY <1>5, <1>6, PlaceCarries
  <2>2. ASSUME NEW b \in Clients \ {c} PROVE SignedIn(wire'[b].paymasterData, grants')
    BY <1>1, <1>7 DEF SponsoredInv, WiresCarryGrants, SignedIn
  <2> QED
    BY <1>7, <2>1, <2>2 DEF WiresCarryGrants
<1>13. RowsCarryGrants'
  BY <1>1 DEF SponsoredInv, RowsCarryGrants, CarriesOnly
<1> QED
  BY <1>8, <1>9, <1>10, <1>11, <1>12, <1>13 DEF SponsoredInv

LEMMA EstimateStep ==
    ASSUME SponsoredInv, NEW c \in Clients, NEW now \in Times,
           EstimateUserOperationGas(c, now)
    PROVE  SponsoredInv'
<1> DEFINE u == WithPaymaster(draft[c], layout[c], GetStubData(now))
           e == Estimate(FromRPC(u))
           v == [u EXCEPT !.preVerificationGas = BigToHex(e.preVerificationGas),
                          !.verificationGasLimit = BigToHex(e.verificationGasLimit),
                          !.callGasLimit = BigToHex(e.callGasLimit)]
           fields == WireNumbers \cup WireBytes \cup WireAddresses
           three == {"preVerificationGas", "verificationGasLimit", "callGasLimit"}
<1>1. /\ wire' = [wire EXCEPT ![c] = v]
      /\ grants' = grants /\ table' = table /\ reply' = reply
  BY DEF EstimateUserOperationGas, intakeVars
<1>2. WellFormed(draft[c]) /\ DOMAIN wire = Clients
  BY ClientAssumption DEF SponsoredInv, WiresAreRequests
<1>3. IsSeq(GetStubData(now)) /\ SignedIn(Place(layout[c], GetStubData(now)), grants)
  <2>1. IsSeq(StubSignature) /\ SignedIn(StubSignature, grants)
    BY SignatureSeq, SignaturesCarry
  <2>2. IsSeq(GetStubData(now)) /\ SignedIn(GetStubData(now), grants)
    <3> HIDE DEF StubSignature
    <3> QED
      BY <2>1, DataCarries DEF GetStubData
  <2> QED
    BY <2>2, PlaceCarries
<1>4. /\ WellFormed(u) /\ u.callData = draft[c].callData
      /\ u.paymasterData = Place(layout[c], GetStubData(now))
  BY <1>2, <1>3, WithPaymasterKeeps
<1> HIDE DEF u
<1>5. HasBytes(FromRPC(u)) /\ FromRPC(u).callData = draft[c].callData
  BY <1>4, PackedBytes DEF FromRPC
<1>6. /\ e.preVerificationGas \in Int /\ e.verificationGasLimit \in Int
      /\ e.callGasLimit \in Int
      /\ e.callGasLimit = Buffered(NodeGas(call[c].target, call[c].value, call[c].data))
  BY <1>5, EstimateOfDraft
<1> HIDE DEF e
<1>7. DOMAIN u = fields
  BY <1>4 DEF WellFormed
<1>8. /\ DOMAIN v = fields
      /\ \A f \in fields \ three : v[f] = u[f]
      /\ v.preVerificationGas = BigToHex(e.preVerificationGas)
      /\ v.verificationGasLimit = BigToHex(e.verificationGasLimit)
      /\ v.callGasLimit = BigToHex(e.callGasLimit)
  BY <1>7 DEF WireNumbers
<1> HIDE DEF v
<1>9. \A f \in three : v[f] \in [neg : BOOLEAN, mag : Nat]
  <2>1. /\ BigToHex(e.preVerificationGas) \in [neg : BOOLEAN, mag : Nat]
        /\ BigToHex(e.verificationGasLimit) \in [neg : BOOLEAN, mag : Nat]
        /\ BigToHex(e.callGasLimit) \in [neg : BOOLEAN, mag : Nat]
    BY <1>6, NumberRoundTrip
  <2> QED
    BY <1>8, <2>1
<1>10. v.paymasterData = u.paymasterData /\ \A f \in WireBytes : v[f] = u[f]
  BY <1>8 DEF WireBytes
<1>11. WellFormed(v)
  <2>1. \A f \in WireNumbers : v[f] \in [neg : BOOLEAN, mag : Nat] \cup {Garbage}
    BY <1>4, <1>8, <1>9 DEF WellFormed
  <2>2. \A f \in WireBytes : v[f] \in Seq(Range(v[f]))
    BY <1>4, <1>10 DEF WellFormed
  <2> QED
    BY <1>8, <2>1, <2>2 DEF WellFormed
<1>12. SignedIn(v.paymasterData, grants)
  BY <1>3, <1>4, <1>10
<1>13. /\ DOMAIN wire' = Clients /\ wire'[c] = v
       /\ \A b \in Clients \ {c} : wire'[b] = wire[b]
  BY <1>1, <1>2
<1>14. IntakeInv'
  BY <1>1 DEF SponsoredInv, IntakeInv, RowsArePassedRequests, KeysAreUnique
<1>15. WiresAreRequests'
  BY <1>11, <1>13 DEF SponsoredInv, WiresAreRequests
<1>16. GasIsEstimated'
  BY <1>6, <1>8, <1>13 DEF SponsoredInv, GasIsEstimated, Prepared
<1>17. GrantsAreSigned'
  BY <1>1 DEF SponsoredInv, GrantsAreSigned
<1>18. WiresCarryGrants'
  BY <1>1, <1>12, <1>13 DEF SponsoredInv, WiresCarryGrants
<1>19. RowsCarryGrants'
  BY <1>1 DEF SponsoredInv, RowsCarryGrants
<1> QED
  BY <1>14, <1>15, <1>16, <1>17, <1>18, <1>19 DEF SponsoredInv

LEMMA SponsoredStep ==
    ASSUME SponsoredInv, [SponsoredNext]_sponsoredVars
    PROVE  SponsoredInv'
<1>1. ASSUME NEW c \in Clients, NEW now \in Times, EstimateUserOperationGas(c, now)
      PROVE  SponsoredInv'
  BY <1>1, EstimateStep
<1>2. ASSUME NEW c \in Clients, NEW now \in Times, SignPaymasterData(c, now)
      PROVE  SponsoredInv'
  BY <1>2, SignStep
<1>3. ASSUME NEW c \in Clients, NEW ep, Send(c, ep) PROVE SponsoredInv'
  BY <1>3, SendStep
<1>4. ASSUME NEW w \in Known, NEW l, NEW g \in grants, NEW h \in grants, NEW ep,
             Reuse(w, l, g, h, ep)
      PROVE  SponsoredInv'
  BY <1>4, ReuseStep
<1>5. CASE IntakeNext /\ UNCHANGED <<wire, grants>>
  <2>1. IntakeInv'
    BY <1>5, IntakeStep DEF SponsoredInv
  <2>2. RowsCarryGrants'
    BY <1>5, IntakeRows DEF SponsoredInv
  <2> QED
    BY <1>5, <2>1, <2>2
    DEF SponsoredInv, WiresAreRequests, GasIsEstimated, GrantsAreSigned, WiresCarryGrants,
        Prepared
<1>6. CASE UNCHANGED sponsoredVars
  <2>1. table' = table /\ reply' = reply /\ wire' = wire /\ grants' = grants
    BY <1>6 DEF sponsoredVars, intakeVars
  <2>2. IntakeInv'
    BY <2>1 DEF SponsoredInv, IntakeInv, RowsArePassedRequests, KeysAreUnique
  <2> QED
    BY <2>1, <2>2
    DEF SponsoredInv, WiresAreRequests, GasIsEstimated, GrantsAreSigned, WiresCarryGrants,
        RowsCarryGrants, Prepared
<1> QED
  BY <1>1, <1>2, <1>3, <1>4, <1>5, <1>6 DEF SponsoredNext

LEMMA SponsoredStart ==
    ASSUME SponsoredInit
    PROVE  SponsoredInv
<1>1. table = {} /\ reply = "none" /\ wire = draft /\ grants = {}
  BY DEF SponsoredInit, IntakeInit
<1>2. IntakeInv
  BY <1>1 DEF IntakeInv, RowsArePassedRequests, KeysAreUnique, Replies
<1>3. \A c \in Clients : WellFormed(draft[c]) /\ Unsigned(draft[c].paymasterData)
  BY ClientAssumption
<1>4. WiresAreRequests
  BY <1>1, <1>3, ClientAssumption DEF WiresAreRequests
<1>5. \A c \in Clients : SignedIn(draft[c].paymasterData, grants)
  BY <1>3 DEF Unsigned, SignedIn
<1> QED
  BY <1>1, <1>2, <1>4, <1>5
  DEF SponsoredInv, GasIsEstimated, Prepared, GrantsAreSigned, WiresCarryGrants, RowsCarryGrants

LEMMA SponsoredInvariant == SponsoredSpec => []SponsoredInv
<1>1. SponsoredInit => SponsoredInv
  BY SponsoredStart
<1>2. SponsoredInv /\ [SponsoredNext]_sponsoredVars => SponsoredInv'
  BY SponsoredStep
<1> QED
  BY <1>1, <1>2, PTL DEF SponsoredSpec

-----------------------------------------------------------------------------
(* What the invariant says about the contract.                             *)

(* The data of a grant behind the address, as the two layouts place it:    *)
(* only the first has the window where the contract reads it.              *)
LEMMA PlacedWords ==
    ASSUME NEW window, NEW hash,
           NEW d, d = EncodeValidityAndSig(window, SignatureOf(hash))
    PROVE  /\ IsSeq(d) /\ Len(d) = 5
           /\ d[1] = TimeWord(window.until) /\ d[2] = TimeWord(window.after)
           /\ \A i \in 1 .. 3 : d[2 + i] = [signed |-> hash, part |-> i]
<1>1. ASSUME NEW sig, IsSeq(sig), Len(sig) = 3,
             \A i \in 1 .. 3 : sig[i] = [signed |-> hash, part |-> i],
             d = EncodeValidityAndSig(window, sig)
      PROVE  /\ IsSeq(d) /\ Len(d) = 5
             /\ d[1] = TimeWord(window.until) /\ d[2] = TimeWord(window.after)
             /\ \A i \in 1 .. 3 : d[2 + i] = [signed |-> hash, part |-> i]
  BY <1>1, DataParts
<1> QED
  BY <1>1, SignatureSeq

LEMMA PlacedPacks ==
    ASSUME NEW d, IsSeq(d)
    PROVE  LET pm == <<Paymaster>> \o Place("packs", d)
           IN  Len(d) = 5 =>
                 /\ IsSeq(pm) /\ Len(pm) = 7 /\ pm[1] = Paymaster
                 /\ pm[2] = PaymasterGasLimits /\ pm[3] = d[1] /\ pm[4] = d[2]
                 /\ SubSeq(pm, 5, 7) = [i \in 1 .. 3 |-> d[2 + i]]
<1> DEFINE e == PutBefore(PaymasterGasLimits, d)
           pm == PutBefore(Paymaster, e)
<1>1. /\ IsSeq(e) /\ Len(e) = 1 + Len(d) /\ e[1] = PaymasterGasLimits
      /\ \A i \in 1 .. Len(d) : e[1 + i] = d[i]
  <2> HIDE DEF PaymasterGasLimits
  <2> QED
    BY PutBeforeParts
<1> HIDE DEF e
<1>2. /\ IsSeq(pm) /\ Len(pm) = 1 + Len(e) /\ pm[1] = Paymaster
      /\ \A i \in 1 .. Len(e) : pm[1 + i] = e[i]
  <2>1. IsSeq(e)
    BY <1>1
  <2> QED
    BY <2>1, PutBeforeParts
<1> HIDE DEF pm
<1>3. <<Paymaster>> \o Place("packs", d) = pm
  BY DEF Place, pm, e, PaymasterGasLimits, PutBefore
<1> SUFFICES ASSUME Len(d) = 5
             PROVE  /\ IsSeq(pm) /\ Len(pm) = 7 /\ pm[1] = Paymaster
                    /\ pm[2] = PaymasterGasLimits /\ pm[3] = d[1] /\ pm[4] = d[2]
                    /\ SubSeq(pm, 5, 7) = [i \in 1 .. 3 |-> d[2 + i]]
  BY <1>3, Zenon
<1>4. /\ Len(pm) = 7
      /\ pm[2] = e[1] /\ pm[3] = e[2] /\ pm[4] = e[3]
      /\ pm[5] = e[4] /\ pm[6] = e[5] /\ pm[7] = e[6]
  BY <1>1, <1>2
<1>5. e[2] = d[1] /\ e[3] = d[2] /\ e[4] = d[3] /\ e[5] = d[4] /\ e[6] = d[5]
  BY <1>1
<1>6. \A i \in 1 .. 3 : pm[i + 5 - 1] = d[2 + i]
  BY <1>4, <1>5
<1>7. SubSeq(pm, 5, 7) = [i \in 1 .. 3 |-> d[2 + i]]
  <2>0. IsSeq(pm)
    BY <1>2
  <2>1. pm \in Seq(Range(pm)) /\ Len(pm) = 7
    BY <1>4, <2>0, Zenon DEF IsSeq
  <2>2. SubSeq(pm, 5, 7) = [i \in 1 .. (7 - 5 + 1) |-> pm[i + 5 - 1]]
    BY <2>1
  <2> QED
    BY <1>6, <2>2
<1>8. /\ pm[1] = Paymaster /\ pm[2] = PaymasterGasLimits
      /\ pm[3] = d[1] /\ pm[4] = d[2]
  BY <1>1, <1>2, <1>4, <1>5, Zenon
<1> QED
  BY <1>2, <1>4, <1>7, <1>8, Zenon

(* The operation of a row as the contract gets it.                         *)
LEMMA OnChainWords ==
    ASSUME IntakeInv, NEW r \in table
    PROVE  /\ OnChain(r) = AsWords(HydrateOp(r))
           /\ HasBytes(HydrateOp(r))
           /\ \E w : WellFormed(w) /\ Parses(w) /\ HydrateOp(r) = FromRPC(w)
<1>1. PICK w, a : Passed(w, a) /\ HydrateOp(r) = FromRPC(w)
  BY RowOrigin
<1>2. WellFormed(w) /\ Parses(w) /\ HasBytes(HydrateOp(r))
  BY <1>1, PackedBytes DEF Passed
<1> DEFINE ops == <<HydrateOp(r)>>
<1>3. ops \in Seq({HydrateOp(r)}) /\ Len(ops) = 1 /\ ops[1] = HydrateOp(r)
  OBVIOUS
<1>4. IsSeq(ops)
  BY <1>3, AnySeq
<1> HIDE DEF ops
<1>5. \A i \in 1 .. Len(ops) : HasBytes(ops[i])
  BY <1>2, <1>3
<1>6. DecodeHandleOps(BuildHandleOpsCalldata(ops, "eoa"))
        = [i \in 1 .. Len(ops) |-> AsWords(ops[i])]
  BY <1>4, <1>5, HandleOpsDecodes
<1>7. DecodeHandleOps(BuildHandleOpsCalldata(ops, "eoa"))[1] = AsWords(HydrateOp(r))
  BY <1>3, <1>6
<1> QED
  BY <1>1, <1>2, <1>7 DEF OnChain, ops

(* The data of a grant packed behind the address.                          *)
LEMMA GrantPacked ==
    ASSUME NEW g, NEW pm, pm = <<Paymaster>> \o Place("packs", GrantedData(g))
    PROVE  /\ IsSeq(pm) /\ Len(pm) = 7 /\ pm[1] = Paymaster
           /\ pm[2] = PaymasterGasLimits
           /\ pm[3] = TimeWord(g.until) /\ pm[4] = TimeWord(g.after)
           /\ SubSeq(pm, 5, 7) = SignatureOf(g)
<1> DEFINE d == GrantedData(g)
           until == TimeWord(g.until)
           after == TimeWord(g.after)
<1>1. /\ IsSeq(d) /\ Len(d) = 5 /\ d[1] = until /\ d[2] = after
      /\ \A i \in 1 .. 3 : d[2 + i] = [signed |-> g, part |-> i]
  <2>1. WindowOf(g).until = g.until /\ WindowOf(g).after = g.after
    BY DEF WindowOf
  <2>2. d = EncodeValidityAndSig(WindowOf(g), SignatureOf(g))
    BY DEF GrantedData
  <2> HIDE DEF d
  <2>3. /\ IsSeq(d) /\ Len(d) = 5
        /\ d[1] = TimeWord(WindowOf(g).until) /\ d[2] = TimeWord(WindowOf(g).after)
        /\ \A i \in 1 .. 3 : d[2 + i] = [signed |-> g, part |-> i]
    BY <2>2, PlacedWords
  <2> QED
    BY <2>1, <2>3, Zenon
<1> DEFINE q == <<Paymaster>> \o Place("packs", d)
<1>2. pm = q
  OBVIOUS
<1>3. Len(d) = 5 =>
        /\ IsSeq(q) /\ Len(q) = 7 /\ q[1] = Paymaster
        /\ q[2] = PaymasterGasLimits /\ q[3] = d[1] /\ q[4] = d[2]
        /\ SubSeq(q, 5, 7) = [i \in 1 .. 3 |-> d[2 + i]]
  <2>1. IsSeq(d)
    BY <1>1
  <2> HIDE DEF d
  <2> QED
    BY <2>1, PlacedPacks
<1>4. [i \in 1 .. 3 |-> d[2 + i]] = SignatureOf(g)
  <2> HIDE DEF d
  <2> QED
    BY <1>1 DEF SignatureOf
<1> HIDE DEF d, until, after, q
<1> QED
  BY <1>1, <1>2, <1>3, <1>4, Zenon DEF until, after

(* The hash the client was given holds the words the contract decodes.     *)
LEMMA RowHash ==
    ASSUME IntakeInv, NEW r \in table
    PROVE  /\ \A f \in Signed : r.hash[f] = AsWords(HydrateOp(r))[f]
           /\ r.hash.paymasterAndData = AsWords(HydrateOp(r)).paymasterAndData
           /\ AsWords(HydrateOp(r)).paymasterAndData = HydrateOp(r).paymasterAndData
<1>1. PICK w, a : HydrateOp(r) = FromRPC(w) /\ r.hash = ComputeUserOpHash(FromRPC(w), a)
  BY RowOrigin
<1> DEFINE o == HydrateOp(r)
<1>2. r.hash = ComputeUserOpHash(o, a)
  BY <1>1
<1> HIDE DEF o
<1> QED
  BY <1>2 DEF ComputeUserOpHash, AsWords, Signed, o

(* What a signed hash holds, and when the contract computes it.            *)
LEMMA SignedHash ==
    ASSUME NEW o, NEW win, NEW g, g = GetHash(o, win)
    PROVE  /\ g.limits = PaymasterGasLimits /\ g.until = win.until /\ g.after = win.after
           /\ g.sender = o.sender /\ g.callData = o.callData
           /\ \A op, w : /\ \A f \in Signed : op[f] = g[f]
                         /\ op.paymasterAndData[2] = PaymasterGasLimits
                         /\ w.until = g.until /\ w.after = g.after
                         => ContractGetHash(op, w) = g
<1>1. g = [sender |-> g.sender, nonce |-> g.nonce, initCode |-> g.initCode,
           callData |-> g.callData, accountGasLimits |-> g.accountGasLimits,
           limits |-> PaymasterGasLimits, preVerificationGas |-> g.preVerificationGas,
           gasFees |-> g.gasFees, chainId |-> ChainId, paymaster |-> Paymaster,
           until |-> g.until, after |-> g.after]
  BY DEF GetHash
<1>2. ASSUME NEW op, NEW w, \A f \in Signed : op[f] = g[f],
             op.paymasterAndData[2] = PaymasterGasLimits,
             w.until = g.until, w.after = g.after
      PROVE  ContractGetHash(op, w) = g
  <2>1. /\ op.sender = g.sender /\ op.nonce = g.nonce /\ op.initCode = g.initCode
        /\ op.callData = g.callData /\ op.accountGasLimits = g.accountGasLimits
        /\ op.preVerificationGas = g.preVerificationGas /\ op.gasFees = g.gasFees
    BY <1>2 DEF Signed
  <2> HIDE DEF PaymasterGasLimits
  <2> QED
    BY <1>1, <1>2, <2>1 DEF ContractGetHash
<1> QED
  BY <1>2 DEF GetHash

(* And the hash that the contract computes.                                *)
LEMMA ContractHash ==
    ASSUME NEW op, NEW w, NEW h, h = ContractGetHash(op, w)
    PROVE  /\ \A f \in Signed : h[f] = op[f]
           /\ h.limits = op.paymasterAndData[2]
           /\ h.until = w.until /\ h.after = w.after
  BY DEF ContractGetHash, Signed

LEMMA SponsoredInvValidates ==
    ASSUME SponsoredInv
    PROVE  SponsoredRowsValidate
<1> SUFFICES ASSUME NEW row \in table, NEW g \in grants,
                    AsGranted(row.hash, g, {"packs"}),
                    NEW t \in g.after .. g.until
             PROVE  PaymasterValidates(OnChain(row), t)
  BY DEF SponsoredRowsValidate, ValidWhileGranted
<1> DEFINE op == AsWords(HydrateOp(row))
           pm == op.paymasterAndData
           win == [until |-> pm[3].time, after |-> pm[4].time]
<1>1. OnChain(row) = op
  BY OnChainWords DEF SponsoredInv
<1>2. PICK o : \E now \in Times :
        g = GetHash(o, ValidityWindow(now)) /\ IsAllowedTarget(o.sender, o.callData)
  BY DEF SponsoredInv, GrantsAreSigned
<1>3. PICK now \in Times :
        g = GetHash(o, ValidityWindow(now)) /\ IsAllowedTarget(o.sender, o.callData)
  BY <1>2
<1>4. /\ \A f \in Signed : row.hash[f] = op[f]
      /\ row.hash.paymasterAndData = pm
  BY RowHash DEF SponsoredInv
<1> HIDE DEF op
<1>5. /\ \A f \in Signed : op[f] = g[f]
      /\ pm = <<Paymaster>> \o Place("packs", GrantedData(g))
  BY <1>4 DEF AsGranted
<1>6. /\ IsSeq(pm) /\ Len(pm) = 7 /\ pm[1] = Paymaster /\ pm[2] = PaymasterGasLimits
      /\ pm[3] = TimeWord(g.until) /\ pm[4] = TimeWord(g.after)
      /\ SubSeq(pm, 5, 7) = SignatureOf(g)
  <2>1. pm = <<Paymaster>> \o Place("packs", GrantedData(g))
    BY <1>5
  <2> HIDE DEF pm
  <2> QED
    BY ONLY <2>1, GrantPacked, Zenon
<1>7. /\ g.until = ValidityWindow(now).until /\ g.after = ValidityWindow(now).after
      /\ g.sender = o.sender /\ g.callData = o.callData
      /\ \A x, w : /\ \A f \in Signed : x[f] = g[f]
                   /\ x.paymasterAndData[2] = PaymasterGasLimits
                   /\ w.until = g.until /\ w.after = g.after
                   => ContractGetHash(x, w) = g
  BY <1>3, SignedHash
<1>8. g.until \in Nat /\ g.after \in Nat
  BY <1>7, SponsoredAssumption DEF ValidityWindow
<1>9. /\ pm[3].time = g.until /\ pm[4].time = g.after
      /\ pm[3] \in [time : Nat] /\ pm[4] \in [time : Nat]
  BY <1>6, <1>8 DEF TimeWord
<1>10. win.until = g.until /\ win.after = g.after
  BY <1>9
<1>11. pm # <<>> /\ Head(pm) = Paymaster
  BY <1>6 DEF IsSeq
<1>12. HasWindow(pm)
  <2>1. \A i \in 3 .. 4 : i = 3 \/ i = 4
    OBVIOUS
  <2>2. Len(pm) >= 4
    BY <1>6
  <2> QED
    BY <1>9, <2>1, <2>2, Zenon DEF HasWindow
<1>13. win.after <= t /\ t <= win.until
  BY <1>8, <1>10
<1> HIDE DEF win
<1>14. ContractGetHash(op, win) = g
  <2>1. op.paymasterAndData[2] = PaymasterGasLimits
    BY <1>6
  <2> QED
    BY <1>5, <1>7, <1>10, <2>1, Zenon
<1>15. IsAllowedTarget(op.sender, op.callData)
  <2>1. op.sender = g.sender /\ op.callData = g.callData
    BY <1>5 DEF Signed
  <2> QED
    BY <1>3, <1>7, <2>1
<1> HIDE DEF pm
<1>16. SubSeq(pm, 5, Len(pm)) = SignatureOf(ContractGetHash(op, win))
  <2>1. Len(pm) = 7
    BY <1>6
  <2> QED
    BY <1>6, <1>14, <2>1, Zenon
<1>17. PaymasterValidates(op, t)
  BY <1>11, <1>12, <1>13, <1>15, <1>16, Zenon DEF PaymasterValidates, pm, win
<1> QED
  BY <1>1, <1>17

(* A signature that the contract accepts is one of a grant.                *)
LEMMA AcceptedSignature ==
    ASSUME NEW pm, IsSeq(pm), NEW hash, SubSeq(pm, 5, Len(pm)) = SignatureOf(hash)
    PROVE  Len(pm) = 7 /\ pm[5] = [signed |-> hash, part |-> 1]
<1>1. Len(pm) \in Nat /\ pm \in Seq(Range(pm))
  BY DEF IsSeq
<1>2. DOMAIN SignatureOf(hash) = 1 .. 3 /\ SignatureOf(hash)[1] = [signed |-> hash, part |-> 1]
  BY DEF SignatureOf
<1>3. SubSeq(pm, 5, Len(pm)) = [i \in 1 .. (Len(pm) - 5 + 1) |-> pm[i + 5 - 1]]
  BY <1>1
<1>4. 1 .. 3 = 1 .. (Len(pm) - 5 + 1)
  BY <1>2, <1>3
<1>5. Len(pm) = 7
  <2> DEFINE k == Len(pm) - 5 + 1
  <2>1. k \in Int /\ Len(pm) = k + 4
    BY <1>1
  <2>0. 1 .. 3 = 1 .. k /\ 3 \in 1 .. 3
    BY <1>4
  <2> HIDE DEF k
  <2>2. 3 \in 1 .. k
    BY <2>0, Zenon
  <2>3. k \in 1 .. 3
    <3>1. k \in 1 .. k
      BY <2>1, <2>2
    <3> QED
      BY <2>0, <3>1, Zenon
  <2> QED
    BY <2>1, <2>2, <2>3
<1>6. SignatureOf(hash)[1] = pm[5]
  <2>1. 1 \in 1 .. (Len(pm) - 5 + 1) /\ 1 + 5 - 1 = 5
    BY <1>5
  <2> QED
    BY <1>3, <2>1
<1> QED
  BY <1>2, <1>5, <1>6

(* A packed answer is all that the contract reads such a window and such a *)
(* signature from.                                                         *)
LEMMA PackedAnswer ==
    ASSUME NEW pm, IsSeq(pm), NEW g, SubSeq(pm, 5, Len(pm)) = SignatureOf(g),
           pm[1] = Paymaster, pm[2] = PaymasterGasLimits,
           pm[3] = TimeWord(g.until), pm[4] = TimeWord(g.after)
    PROVE  pm = <<Paymaster>> \o Place("packs", GrantedData(g))
<1> DEFINE q == <<Paymaster>> \o Place("packs", GrantedData(g))
<1>1. /\ IsSeq(q) /\ Len(q) = 7 /\ q[1] = Paymaster /\ q[2] = PaymasterGasLimits
      /\ q[3] = TimeWord(g.until) /\ q[4] = TimeWord(g.after)
      /\ SubSeq(q, 5, 7) = SignatureOf(g)
  BY GrantPacked, Zenon
<1> HIDE DEF q
<1>2. Len(pm) = 7
  BY AcceptedSignature
<1>3. ASSUME NEW s, IsSeq(s), Len(s) = 7, SubSeq(s, 5, 7) = SignatureOf(g)
      PROVE  s[5] = SignatureOf(g)[1] /\ s[6] = SignatureOf(g)[2] /\ s[7] = SignatureOf(g)[3]
  <2>1. s \in Seq(Range(s)) /\ Len(s) = 7
    BY <1>3 DEF IsSeq
  <2>2. SubSeq(s, 5, 7) = [i \in 1 .. (7 - 5 + 1) |-> s[i + 5 - 1]]
    BY <2>1
  <2> HIDE DEF SignatureOf
  <2> QED
    BY <1>3, <2>2
<1>4. SubSeq(pm, 5, 7) = SignatureOf(g)
  BY <1>2, Zenon
<1>5. pm[5] = q[5] /\ pm[6] = q[6] /\ pm[7] = q[7]
  <2> DEFINE r == SignatureOf(g)
  <2> HIDE DEF r
  <2>1. pm[5] = r[1] /\ pm[6] = r[2] /\ pm[7] = r[3]
    BY <1>2, <1>3, <1>4, Zenon DEF r
  <2>2. q[5] = r[1] /\ q[6] = r[2] /\ q[7] = r[3]
    BY <1>1, <1>3, Zenon DEF r
  <2> QED
    BY <2>1, <2>2
<1>6. \A i \in 1 .. 7 : pm[i] = q[i]
  <2>1. \A i \in 1 .. 7 : i = 1 \/ i = 2 \/ i = 3 \/ i = 4 \/ i = 5 \/ i = 6 \/ i = 7
    OBVIOUS
  <2>2. pm[1] = q[1] /\ pm[2] = q[2] /\ pm[3] = q[3] /\ pm[4] = q[4]
    BY <1>1, Zenon
  <2> QED
    BY <1>5, <2>1, <2>2, Zenon
<1>7. ASSUME NEW s, IsSeq(s) PROVE s = [i \in 1 .. Len(s) |-> s[i]]
  BY <1>7 DEF IsSeq
<1>8. pm = [i \in 1 .. 7 |-> pm[i]] /\ q = [i \in 1 .. 7 |-> q[i]]
  BY <1>1, <1>2, <1>7, Zenon
<1>9. [i \in 1 .. 7 |-> pm[i]] = [i \in 1 .. 7 |-> q[i]]
  BY <1>6
<1> QED
  BY <1>8, <1>9, Zenon DEF q

LEMMA SponsoredInvPays ==
    ASSUME SponsoredInv
    PROVE  PaysOnlyWhatWasGranted
<1> SUFFICES ASSUME NEW row \in table,
                    NEW t \in UNION {(now - Lag - 1) .. (now + Window + 1) : now \in Times},
                    PaymasterValidates(OnChain(row), t)
             PROVE  \E g \in grants :
                       /\ AsGranted(row.hash, g, {"packs"})
                       /\ t \in g.after .. g.until
                       /\ IsAllowedTarget(g.sender, g.callData)
  BY DEF PaysOnlyWhatWasGranted
<1> DEFINE op == AsWords(HydrateOp(row))
           pm == op.paymasterAndData
           win == [until |-> pm[3].time, after |-> pm[4].time]
           g == ContractGetHash(op, win)
<1>1. OnChain(row) = op /\ HasBytes(HydrateOp(row))
  BY OnChainWords DEF SponsoredInv
<1>2. /\ \A f \in Signed : row.hash[f] = op[f]
      /\ row.hash.paymasterAndData = pm /\ pm = HydrateOp(row).paymasterAndData
  BY RowHash DEF SponsoredInv
<1>3. IsSeq(pm)
  BY <1>1, <1>2 DEF HasBytes, ByteStrings
<1>4. CarriesOnly(HydrateOp(row), grants)
  BY DEF SponsoredInv, RowsCarryGrants
<1> HIDE DEF op
<1>5. /\ pm # <<>> /\ Head(pm) = Paymaster
      /\ HasWindow(pm) /\ SubSeq(pm, 5, Len(pm)) = SignatureOf(g)
      /\ IsAllowedTarget(op.sender, op.callData)
      /\ win.after <= t /\ t <= win.until
  BY <1>1, Zenon DEF PaymasterValidates
<1>6. /\ \A f \in Signed : g[f] = op[f]
      /\ g.limits = pm[2] /\ g.until = win.until /\ g.after = win.after
  BY ContractHash
<1>7. pm[3] \in [time : Nat] /\ pm[4] \in [time : Nat]
  BY <1>5 DEF HasWindow
<1>8. /\ win.until = pm[3].time /\ win.after = pm[4].time
      /\ win.until \in Nat /\ win.after \in Nat
      /\ pm[3] = TimeWord(win.until) /\ pm[4] = TimeWord(win.after)
  BY <1>7 DEF TimeWord
<1> HIDE DEF pm, win, g
<1>9. Len(pm) = 7 /\ pm[5] = [signed |-> g, part |-> 1]
  BY <1>3, <1>5, AcceptedSignature
<1>10. g \in grants
  <2>1. 5 \in 2 .. Len(pm) /\ "signed" \in DOMAIN pm[5] /\ pm[5].signed = g
    BY <1>9
  <2> QED
    BY <1>2, <1>4, <2>1 DEF CarriesOnly
<1>11. PICK o : \E now \in Times : g = GetHash(o, ValidityWindow(now))
  BY <1>10 DEF SponsoredInv, GrantsAreSigned
<1>12. pm[2] = PaymasterGasLimits
  BY <1>6, <1>11, SignedHash
<1>13. pm[1] = Paymaster
  BY <1>3, <1>5 DEF IsSeq
<1>14. pm = <<Paymaster>> \o Place("packs", GrantedData(g))
  <2>1. pm[3] = TimeWord(g.until) /\ pm[4] = TimeWord(g.after)
    BY <1>6, <1>8
  <2> QED
    BY <1>3, <1>5, <1>12, <1>13, <2>1, PackedAnswer
<1>15. AsGranted(row.hash, g, {"packs"})
  BY <1>2, <1>6, <1>14 DEF AsGranted
<1>16. t \in g.after .. g.until
  <2>1. t \in Int
    BY SponsoredAssumption
  <2> QED
    BY <1>5, <1>6, <1>8, <2>1
<1>17. IsAllowedTarget(g.sender, g.callData)
  BY <1>5, <1>6 DEF Signed
<1> QED
  BY <1>10, <1>15, <1>16, <1>17

(* The gas of every client's call, with its buffer, fits a uint64.         *)
GasFits ==
    \A c \in Clients :
        NodeGas(call[c].target, call[c].value, call[c].data) * BufferOver < Narrow

(* A fraction of one or more takes nothing away.                           *)
LEMMA BufferAdds ==
    ASSUME NEW gas \in Nat, NEW over \in Nat, NEW under \in Nat \ {0}, over >= under
    PROVE  (gas * over) \div under \in Nat /\ (gas * over) \div under >= gas
<1> DEFINE n == gas * over
           q == n \div under
<1>1. n \in Nat /\ n >= gas * under
  <2>1. PICK k \in Nat : over = under + k
    <3>1. over - under \in Nat /\ over = under + (over - under)
      OBVIOUS
    <3> QED
      BY <3>1
  <2>2. gas * k \in Nat /\ gas * under \in Nat
    OBVIOUS
  <2>3. n = gas * under + gas * k
    BY <2>1
  <2> QED
    BY <2>2, <2>3
<1> HIDE DEF n
<1>2. q \in Int /\ n < under * (q + 1) /\ under * q <= n
  BY <1>1
<1>3. q >= gas
  <2> SUFFICES ASSUME q < gas PROVE FALSE
    BY <1>2
  <2> HIDE DEF q
  <2>1. PICK j \in Nat : gas = (q + 1) + j
    <3>1. gas - (q + 1) \in Nat /\ gas = (q + 1) + (gas - (q + 1))
      BY <1>2
    <3> QED
      BY <3>1
  <2>2. gas * under = under * (q + 1) + under * j /\ under * j \in Nat
    BY <1>2, <2>1
  <2>3. under * (q + 1) \in Int
    BY <1>2
  <2> QED
    BY <1>1, <1>2, <2>2, <2>3
<1> QED
  BY <1>2, <1>3 DEF n

LEMMA SponsoredInvCovers ==
    ASSUME SponsoredInv, GasFits
    PROVE  EstimateCoversCall
<1> SUFFICES ASSUME NEW c \in Clients, Prepared(c)
             PROVE  HexToBigInt(wire[c].callGasLimit)
                      >= NodeGas(call[c].target, call[c].value, call[c].data)
  BY DEF EstimateCoversCall
<1> DEFINE gas == NodeGas(call[c].target, call[c].value, call[c].data)
<1>1. wire[c].callGasLimit = BigToHex(Buffered(gas))
  BY DEF SponsoredInv, GasIsEstimated
<1>2. gas \in Nat /\ gas * BufferOver < Narrow /\ Narrow \in Nat
  BY ClientAssumption, Widths DEF GasFits
<1> HIDE DEF gas
<1>3. (gas * BufferOver) % Narrow = gas * BufferOver
  <2> DEFINE n == gas * BufferOver
  <2>1. n \in Nat /\ n < Narrow
    BY <1>2, GasAssumption
  <2> HIDE DEF n
  <2>2. n % Narrow = n
    BY <1>2, <2>1
  <2> QED
    BY <2>2 DEF n
<1>4. (gas * BufferOver) \div BufferUnder >= gas /\ (gas * BufferOver) \div BufferUnder \in Nat
  BY <1>2, GasAssumption, BufferAdds
<1>5. Buffered(gas) >= gas /\ Buffered(gas) \in Int
  BY <1>3, <1>4 DEF Buffered
<1> QED
  BY <1>1, <1>5, NumberRoundTrip DEF gas

-----------------------------------------------------------------------------
(* The theorems.  Those of the intake are for its own requests and for the *)
(* ones that come with the paymaster.                                      *)

LEMMA IntakeInvariant == IntakeSpec => []IntakeInv
<1>1. IntakeInit => IntakeInv
  BY DEF IntakeInit, IntakeInv, RowsArePassedRequests, KeysAreUnique, Replies
<1>2. IntakeInv /\ [IntakeNext]_intakeVars => IntakeInv'
  BY IntakeStep
<1> QED
  BY <1>1, <1>2, PTL DEF IntakeSpec

(* Whatever clients send, a row's gas limits and fees fit their halves,    *)
(* its signature has its length and its hash is for an entry point that    *)
(* handleSendUserOperation allows.                                         *)
THEOREM IntakeTypeCorrect ==
    (IntakeSpec => []IntakeTypeOK) /\ (SponsoredSpec => []IntakeTypeOK)
<1>1. IntakeInv => IntakeTypeOK
  BY IntakeInvTypes
<1>2. SponsoredInv => IntakeTypeOK
  BY <1>1 DEF SponsoredInv
<1>3. IntakeSpec => []IntakeTypeOK
  BY <1>1, IntakeInvariant, PTL
<1>4. SponsoredSpec => []IntakeTypeOK
  BY <1>2, SponsoredInvariant, PTL
<1> QED
  BY <1>3, <1>4

(* The unique index of user_operations, which compares texts, keeps two    *)
(* live operations of an account from the same nonce on chain.             *)
THEOREM ChainNoncesUnique ==
    (IntakeSpec => []OneLivePerChainNonce) /\ (SponsoredSpec => []OneLivePerChainNonce)
<1>1. IntakeInv => OneLivePerChainNonce
  BY IntakeInvNonces
<1>2. SponsoredInv => OneLivePerChainNonce
  BY <1>1 DEF SponsoredInv
<1>3. IntakeSpec => []OneLivePerChainNonce
  BY <1>1, IntakeInvariant, PTL
<1>4. SponsoredSpec => []OneLivePerChainNonce
  BY <1>2, SponsoredInvariant, PTL
<1> QED
  BY <1>3, <1>4

(* storedOpToRPC undoes FromRPC for every request that became a row: its   *)
(* answer packs to the row's operation and has the row's hash.             *)
THEOREM AnswersAreFaithful ==
    (IntakeSpec => []AnswerPacksToStoredOp) /\ (SponsoredSpec => []AnswerPacksToStoredOp)
<1>1. IntakeInv => AnswerPacksToStoredOp
  BY IntakeInvAnswers
<1>2. SponsoredInv => AnswerPacksToStoredOp
  BY <1>1 DEF SponsoredInv
<1>3. IntakeSpec => []AnswerPacksToStoredOp
  BY <1>1, IntakeInvariant, PTL
<1>4. SponsoredSpec => []AnswerPacksToStoredOp
  BY <1>2, SponsoredInvariant, PTL
<1> QED
  BY <1>3, <1>4

(* The EntryPoint decodes buildHandleOpsCalldata of any rows to operations *)
(* with the hashes and signatures of those rows.                           *)
THEOREM BundlesAreFaithful ==
    (IntakeSpec => []BundleDecodesToRows) /\ (SponsoredSpec => []BundleDecodesToRows)
<1>1. IntakeInv => BundleDecodesToRows
  BY IntakeInvBundles
<1>2. SponsoredInv => BundleDecodesToRows
  BY <1>1 DEF SponsoredInv
<1>3. IntakeSpec => []BundleDecodesToRows
  BY <1>1, IntakeInvariant, PTL
<1>4. SponsoredSpec => []BundleDecodesToRows
  BY <1>2, SponsoredInvariant, PTL
<1> QED
  BY <1>3, <1>4

(* An operation that was sponsored, and sent as it was signed with the two *)
(* limits packed in front, passes validatePaymasterUserOp for the whole of *)
(* its window: getHash in internal/paymaster and getHash in the contract   *)
(* agree on it.  Sent in the other layout it does not.                     *)
THEOREM SponsoredRowsPass == SponsoredSpec => []SponsoredRowsValidate
<1>1. SponsoredInv => SponsoredRowsValidate
  BY SponsoredInvValidates
<1> QED
  BY <1>1, SponsoredInvariant, PTL

(* The contract accepts no row but one that GetPaymasterData signed, with  *)
(* the same sender, nonce, call, gas and fees, inside the window it was    *)
(* given: not an operation changed afterwards, nor another one with the    *)
(* window, the signature or all of an answer.                              *)
THEOREM OnlyGrantsArePaid == SponsoredSpec => []PaysOnlyWhatWasGranted
<1>1. SponsoredInv => PaysOnlyWhatWasGranted
  BY SponsoredInvPays
<1> QED
  BY <1>1, SponsoredInvariant, PTL

(* Estimate reads the account's own call back out of execute's calldata    *)
(* and never answers less than the node did, unless gas * 130 overflows.   *)
THEOREM EstimatesSuffice ==
    ASSUME GasFits
    PROVE  SponsoredSpec => []EstimateCoversCall
<1>1. SponsoredInv => EstimateCoversCall
  BY SponsoredInvCovers
<1> QED
  BY <1>1, SponsoredInvariant, PTL
=============================================================================
