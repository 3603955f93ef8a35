----------------------------- MODULE PackedOps -----------------------------
(***************************************************************************)
(* internal/core (userop.go, pack.go, hash.go) and the ABI layout of       *)
(* internal/bundler/loop.go: how a UserOperation goes from the wire format *)
(* to the packed struct, to its hash and into handleOps calldata.          *)
(*                                                                         *)
(* Integers keep widths, scaled down: Narrow stands for 2^64, Half for     *)
(* 2^128, Word for 2^256.  A byte string is a sequence of bytes from a     *)
(* small set, in which an address is one byte (20 in the code), a          *)
(* signature SigLen bytes (65) and an ABI word holds WordLen bytes (32).   *)
(***************************************************************************)
EXTENDS Integers, SequencesExt

CONSTANTS
    Byte,       \* values of one byte of an integer (256)
    Narrow,     \* values of a uint64
    WordLen,    \* bytes of a byte string in one ABI word
    SigLen      \* bytes of a signature

ASSUME WidthAssumption ==
    /\ Byte \in Nat \ {0, 1}
    /\ Narrow \in Nat \ {0, 1}
    /\ \E k \in 1 .. 8 : Narrow = Byte ^ k
    /\ WordLen \in Nat \ {0}
    /\ SigLen \in Nat \ {0}

Half == Narrow * Narrow
Word == Half * Half

-----------------------------------------------------------------------------
(* Text.  An address has several spellings (case, prefix), the empty       *)
(* string reads as the zero address; a number is a sign and a magnitude.   *)
(* Text that does not parse is Garbage, as a byte string GarbageBytes.     *)

Garbage == [garbage |-> TRUE]
GarbageBytes == <<Garbage>>
NoText == [addr |-> "zero", spelling |-> "empty"]

HexToAddress(t) == t.addr
AddressHex(a) == [addr |-> a, spelling |-> "checksum"]

(* big.Int.SetString takes a sign, and 0x-0 is zero.                       *)
HexToBigInt(t) == IF t.neg THEN -t.mag ELSE t.mag
BigToHex(n) == [neg |-> n < 0, mag |-> IF n < 0 THEN -n ELSE n]

-----------------------------------------------------------------------------
(* pack.go: big.Int.Bytes is the magnitude, the sign is dropped.           *)

Magnitude(n) == IF n < 0 THEN -n ELSE n

(* Mutant: the value is copied without cutting it to its half.             *)
PackWithoutCutting(hi, lo) == [hi |-> Magnitude(hi), lo |-> Magnitude(lo)]

(* Two halves of a bytes32; bytes beyond the low sixteen are cut off.      *)
PackBigInts(hi, lo) == [hi |-> Magnitude(hi) % Half, lo |-> Magnitude(lo) % Half]

(* PadLeft32 copied into 32 bytes: of a longer integer the leading 32 are  *)
(* kept, so the trailing ones are lost.                                    *)
Leading[n \in Nat] == IF n < Word THEN n ELSE Leading[n \div Byte]
WordOf(n) == Leading[Magnitude(n)]

-----------------------------------------------------------------------------
(* userop.go: an error in any field rejects the request; factoryData and   *)
(* paymasterData are only read when their address is there.                *)

WireNumbers == {"nonce", "callGasLimit", "verificationGasLimit",
                "preVerificationGas", "maxFeePerGas", "maxPriorityFeePerGas"}
WireBytes == {"callData", "signature", "factoryData", "paymasterData"}
WireAddresses == {"sender", "factory", "paymaster"}

Parses(w) ==
    /\ \A f \in WireNumbers : w[f] # Garbage
    /\ w.callData # GarbageBytes
    /\ w.signature # GarbageBytes
    /\ w.factory # NoText => w.factoryData # GarbageBytes
    /\ w.paymaster # NoText => w.paymasterData # GarbageBytes

(* What a client can put into a request: numbers and byte strings, either  *)
(* of which may be garbage.                                                *)
WellFormed(w) ==
    /\ DOMAIN w = WireNumbers \cup WireBytes \cup WireAddresses
    /\ \A f \in WireNumbers : w[f] \in [neg : BOOLEAN, mag : Nat] \cup {Garbage}
    /\ \A f \in WireBytes : w[f] \in Seq(Range(w[f]))

(* Address and data in one byte string, empty without the address.         *)
Prefixed(addressText, data) ==
    IF addressText = NoText THEN <<>> ELSE <<HexToAddress(addressText)>> \o data

FromRPC(w) ==
    [sender |-> HexToAddress(w.sender),
     nonce |-> HexToBigInt(w.nonce),
     initCode |-> Prefixed(w.factory, w.factoryData),
     callData |-> w.callData,
     accountGasLimits |-> PackBigInts(HexToBigInt(w.verificationGasLimit),
                                      HexToBigInt(w.callGasLimit)),
     preVerificationGas |-> HexToBigInt(w.preVerificationGas),
     gasFees |-> PackBigInts(HexToBigInt(w.maxPriorityFeePerGas),
                             HexToBigInt(w.maxFeePerGas)),
     paymasterAndData |-> Prefixed(w.paymaster, w.paymasterData),
     signature |-> w.signature]

(* keccak256 is taken to be injective: a hash is what is hashed, each      *)
(* static field as the word it is written to.                              *)
ComputeUserOpHash(op, entryPoint) ==
    [sender |-> op.sender, nonce |-> WordOf(op.nonce), initCode |-> op.initCode,
     callData |-> op.callData, accountGasLimits |-> op.accountGasLimits,
     preVerificationGas |-> WordOf(op.preVerificationGas), gasFees |-> op.gasFees,
     paymasterAndData |-> op.paymasterAndData, entryPoint |-> entryPoint]

-----------------------------------------------------------------------------
(* loop.go: calldata as a sequence of words, offsets counted in words.     *)

WordsFor(len) == (len + WordLen - 1) \div WordLen

(* The bytes, zero-padded to whole words.                                  *)
PaddedWords(data) ==
    LET byteAt(i) == IF i <= Len(data) THEN data[i] ELSE "zero"
    IN  [i \in 1 .. WordsFor(Len(data)) |->
            [j \in 1 .. WordLen |-> byteAt((i - 1) * WordLen + j)]]

(* Mutant: the length written is the padded one.                           *)
EncodeBytesPaddedLength(data) ==
    <<WordsFor(Len(data)) * WordLen>> \o PaddedWords(data)

EncodeBytes(data) == <<Len(data)>> \o PaddedWords(data)

HeadSize == 9

(* A tuple: nine head words, then the four byte strings they point to.     *)
EncodePackedUserOp(op) ==
    LET initCode == EncodeBytes(op.initCode)
        callData == EncodeBytes(op.callData)
        pmData == EncodeBytes(op.paymasterAndData)
        callDataAt == HeadSize + Len(initCode)
        pmDataAt == callDataAt + Len(callData)
        sigAt == pmDataAt + Len(pmData)
    IN  <<op.sender, WordOf(op.nonce), HeadSize, callDataAt, op.accountGasLimits,
          WordOf(op.preVerificationGas), op.gasFees, pmDataAt, sigAt>>
        \o initCode \o callData \o pmData \o EncodeBytes(op.signature)

(* handleOps(ops, beneficiary) after the selector: the offset of the       *)
(* array, the beneficiary, the length, an offset per tuple, the tuples.    *)
BuildHandleOpsCalldata(ops, beneficiary) ==
    LET tuples == [i \in DOMAIN ops |-> EncodePackedUserOp(ops[i])]
        offset(i) == Len(ops) + Len(FlattenSeq(SubSeq(tuples, 1, i - 1)))
    IN  <<2, beneficiary, Len(ops)>>
        \o [i \in DOMAIN ops |-> offset(i)]
        \o FlattenSeq(tuples)

-----------------------------------------------------------------------------
(* External: the EntryPoint reading its calldata by the ABI's rules.       *)

DecodeBytes(data, at) ==
    LET byteAt(i) == data[at + 1 + (i \div WordLen)][1 + (i % WordLen)]
    IN  [i \in 1 .. data[at] |-> byteAt(i - 1)]

DecodeTuple(data, at) ==
    [sender |-> data[at], nonce |-> data[at + 1],
     initCode |-> DecodeBytes(data, at + data[at + 2]),
     callData |-> DecodeBytes(data, at + data[at + 3]),
     accountGasLimits |-> data[at + 4], preVerificationGas |-> data[at + 5],
     gasFees |-> data[at + 6],
     paymasterAndData |-> DecodeBytes(data, at + data[at + 7]),
     signature |-> DecodeBytes(data, at + data[at + 8])]

(* Offsets count from the first parameter, then from the first offset.     *)
DecodeHandleOps(data) ==
    LET lengthAt == 1 + data[1]
        offsetsAt == lengthAt + 1
    IN  [i \in 1 .. data[lengthAt] |->
            DecodeTuple(data, offsetsAt + data[offsetsAt + i - 1])]
=============================================================================
