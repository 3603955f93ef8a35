---------------------------- MODULE ExecuteCalls ----------------------------
(***************************************************************************)
(* internal/core/calldata.go and internal/estimator/gas.go: the calldata   *)
(* of SignetAccount.execute(address,uint256,bytes), read back to ask the   *)
(* node for the gas of the inner call.                                     *)
(*                                                                         *)
(* callData is a sequence of tokens: the selector (4 bytes in the code), a *)
(* word (32 bytes) or one byte of the inner data; offsets count tokens.    *)
(***************************************************************************)
EXTENDS PackedOps

CONSTANTS
    VerificationGas,        \* VerificationGasLimit
    VerificationGasCreate,  \* VerificationGasLimitCreate
    Overhead,               \* 21_000 + 11_000
    ZeroCost, NonZeroCost,  \* calldata gas of a zero and of another token
    BufferOver, BufferUnder,    \* the buffer's fraction, 130 / 100
    NodeGas(_, _, _)        \* external: eth_estimateGas of target, value, data

ASSUME GasAssumption ==
    /\ VerificationGas \in Nat /\ VerificationGasCreate \in Nat
    /\ Overhead \in Nat /\ ZeroCost \in Nat /\ NonZeroCost \in Nat
    /\ BufferUnder \in Nat \ {0} /\ BufferOver \in Nat /\ BufferOver >= BufferUnder
    /\ Narrow >= 8

Selector == [sel |-> "execute"]
AddressWord(a) == [addr |-> a]
Num(n) == [num |-> n]
Zero == [num |-> 0]

(* The offset is that of the length, after the three words of the head.    *)
BuildExecuteCalldata(to, value, data) ==
    <<Selector, AddressWord(to), Num(value), Num(3), Num(Len(data))>>
    \o [i \in 1 .. (WordsFor(Len(data)) * WordLen) |->
           IF i <= Len(data) THEN data[i] ELSE Zero]

(* big.Int.Int64: the low 64 bits, as a signed number.                     *)
Int64(n) == IF n % Narrow < Narrow \div 2 THEN n % Narrow ELSE (n % Narrow) - Narrow

Undecoded == [kind |-> "error"]
Panic == [kind |-> "panic"]

(* A negative offset or length gets past the bounds checks: the slice or   *)
(* the make panics.                                                        *)
DecodeSignetExecute(callData) ==
    LET dataStart == 1 + Int64(callData[4].num)
        dataLen == Int64(callData[dataStart + 1].num)
        dataEnd == dataStart + 1 + dataLen
    IN  CASE Len(callData) < 4 -> Undecoded
          [] Len(callData) >= 4 /\ callData[1] # Selector -> Undecoded
          [] OTHER ->
               IF Len(callData) < dataStart + 1 THEN Undecoded
               ELSE IF dataStart < 0 THEN Panic
               ELSE IF Len(callData) < dataEnd THEN Undecoded
               ELSE IF dataLen < 0 THEN Panic
               ELSE [kind |-> "call", target |-> callData[2].addr,
                     value |-> callData[3].num,
                     data |-> SubSeq(callData, dataStart + 2, dataEnd)]

-----------------------------------------------------------------------------
(* abiEncodePackedOp, as the tokens the calldata cost is counted over; the *)
(* address in front of initCode and paymasterAndData never is zero.        *)
CostedTokens(op) ==
    LET rest(bytes) == IF bytes = <<>> THEN <<>> ELSE Tail(bytes)
    IN  <<Num(WordOf(op.nonce))>> \o rest(op.initCode) \o op.callData
        \o <<op.accountGasLimits, Num(WordOf(op.preVerificationGas)), op.gasFees>>
        \o rest(op.paymasterAndData) \o op.signature

(* EIP-2028 costs plus the fixed overhead.                                 *)
CalcPreVerificationGas(op) ==
    LET tokens == CostedTokens(op)
        addresses == Cardinality({f \in {"initCode", "paymasterAndData"} : op[f] # <<>>}) + 1
        zeros == Cardinality({i \in DOMAIN tokens : tokens[i] = Zero})
    IN  Overhead + (addresses + Len(tokens) - zeros) * NonZeroCost + zeros * ZeroCost

(* Mutant: the division comes first.                                       *)
BufferedDividingFirst(gas) == ((gas \div BufferUnder) * BufferOver) % Narrow

(* gas * 130 / 100 in uint64.                                              *)
Buffered(gas) == ((gas * BufferOver) % Narrow) \div BufferUnder

(* Estimate: the inner call is decoded and given to the node; the          *)
(* verification gas is one of two constants.                               *)
Estimate(op) ==
    LET inner == DecodeSignetExecute(op.callData)
    IN  IF inner.kind # "call" THEN inner
        ELSE [kind |-> "estimate",
              preVerificationGas |-> CalcPreVerificationGas(op),
              verificationGasLimit |->
                  IF op.initCode = <<>> THEN VerificationGas ELSE VerificationGasCreate,
              callGasLimit |-> Buffered(NodeGas(inner.target, inner.value, inner.data))]
=============================================================================
