------------------------------- MODULE Intake -------------------------------
(***************************************************************************)
(* eth_sendUserOperation and eth_getUserOperationByHash                    *)
(* (internal/rpc/methods.go) with the validator                            *)
(* (internal/validator/allowlist.go) and the columns of user_operations    *)
(* that hold the operation (internal/mempool/db.go).  Bundler and Mempool  *)
(* have operations with a sender and a nonce; this module is what they     *)
(* stand on: which requests become rows, and whether a row still is the    *)
(* operation that was hashed when the loop puts it into calldata.          *)
(***************************************************************************)
EXTENDS PackedOps

CONSTANTS
    WireOps,                \* UserOperationRPC objects that clients send
    EntryPointTexts,        \* entry points that clients name
    EntryPoints,            \* cfg.EntryPoints, in order
    AllowedPaymasters,      \* cfg.AllowedPaymasters
    MaxVerificationGas,
    MaxCallGas,
    MaxRows                 \* bound: rows in the table

ASSUME IntakeAssumption ==
    /\ Len(EntryPoints) > 0
    /\ MaxVerificationGas \in 0 .. (Narrow - 1)
    /\ MaxCallGas \in 0 .. (Narrow - 1)
    /\ MaxRows \in Nat

ASSUME RequestAssumption == \A w \in WireOps : WellFormed(w)

VARIABLES
    table,      \* user_operations: text columns and whether the row is live
    reply       \* the answer to the last request

intakeVars == <<table, reply>>

IntakeInit ==
    /\ table = {}
    /\ reply = "none"

-----------------------------------------------------------------------------
(* allowlist.go: Uint64 takes the low 64 bits of each 128-bit half.        *)

CheckGasLimits(op) ==
    /\ op.accountGasLimits.hi % Narrow <= MaxVerificationGas
    /\ op.accountGasLimits.lo % Narrow <= MaxCallGas

CheckPaymaster(op) ==
    /\ Len(op.paymasterAndData) >= 1
    /\ Head(op.paymasterAndData) \in AllowedPaymasters

Validate(op) == CheckGasLimits(op) /\ CheckPaymaster(op)

-----------------------------------------------------------------------------
(* db.go: the columns.                                                     *)

RowOf(op, hash, live) ==
    [sender |-> op.sender, nonce |-> BigToHex(op.nonce), initCode |-> op.initCode,
     callData |-> op.callData, accountGasLimits |-> op.accountGasLimits,
     preVerificationGas |-> BigToHex(op.preVerificationGas), gasFees |-> op.gasFees,
     paymasterAndData |-> op.paymasterAndData, signature |-> op.signature,
     hash |-> hash, live |-> live]

(* hydrateOp: the row back as a PackedUserOp.                              *)
HydrateOp(row) ==
    [sender |-> row.sender, nonce |-> HexToBigInt(row.nonce), initCode |-> row.initCode,
     callData |-> row.callData, accountGasLimits |-> row.accountGasLimits,
     preVerificationGas |-> HexToBigInt(row.preVerificationGas), gasFees |-> row.gasFees,
     paymasterAndData |-> row.paymasterAndData, signature |-> row.signature]

(* The primary key and the partial unique index compare texts.             *)
Refused(row) ==
    \E r \in table :
        \/ r.hash = row.hash
        \/ r.live /\ r.sender = row.sender /\ r.nonce = row.nonce

(* Mutant: the table has no index on sender and nonce.                     *)
InsertWithoutIndex(op, hash) ==
    \/ /\ \E r \in table : r.hash = hash
       /\ reply' = "opRejected"
       /\ UNCHANGED table
    \/ /\ \A r \in table : r.hash # hash
       /\ table' = table \cup {RowOf(op, hash, TRUE)}
       /\ reply' = "accepted"

Insert(op, hash) ==
    \/ /\ Refused(RowOf(op, hash, TRUE))
       /\ reply' = "opRejected"
       /\ UNCHANGED table
    \/ /\ ~Refused(RowOf(op, hash, TRUE))
       /\ table' = table \cup {RowOf(op, hash, TRUE)}
       /\ reply' = "accepted"

-----------------------------------------------------------------------------
(* methods.go.                                                             *)

IsAllowedEntryPoint(a) == a \in Range(EntryPoints)

(* Checks in the order of the handler; hashed for the entry point that the *)
(* client named.                                                           *)
SendUserOperation(w, entryPointHex) ==
    LET entryPoint == HexToAddress(entryPointHex)
        packed == FromRPC(w)
        acceptable == Len(packed.signature) = SigLen /\ Validate(packed)
    IN  \/ /\ ~IsAllowedEntryPoint(entryPoint)
           /\ reply' = "opRejected"
           /\ UNCHANGED table
        \/ /\ IsAllowedEntryPoint(entryPoint)
           /\ ~Parses(w)
           /\ reply' = "invalidParams"
           /\ UNCHANGED table
        \/ /\ IsAllowedEntryPoint(entryPoint)
           /\ Parses(w)
           /\ ~acceptable
           /\ reply' = "opRejected"
           /\ UNCHANGED table
        \/ /\ IsAllowedEntryPoint(entryPoint)
           /\ Parses(w)
           /\ acceptable
           /\ Insert(packed, ComputeUserOpHash(packed, entryPoint))

(* The first twenty bytes and the rest, of initCode or paymasterAndData.   *)
AddressPart(bytes) == IF bytes = <<>> THEN NoText ELSE AddressHex(Head(bytes))

(* Mutant: the address is not sliced off.                                  *)
DataPartWithAddress(bytes) == bytes

DataPart(bytes) == IF bytes = <<>> THEN <<>> ELSE Tail(bytes)

(* What eth_getUserOperationByHash answers for a row, without the metadata *)
(* of the bundle.                                                          *)
StoredOpToRPC(op) ==
    [sender |-> AddressHex(op.sender),
     nonce |-> BigToHex(op.nonce),
     callData |-> op.callData,
     callGasLimit |-> BigToHex(op.accountGasLimits.lo),
     verificationGasLimit |-> BigToHex(op.accountGasLimits.hi),
     preVerificationGas |-> BigToHex(op.preVerificationGas),
     maxFeePerGas |-> BigToHex(op.gasFees.lo),
     maxPriorityFeePerGas |-> BigToHex(op.gasFees.hi),
     signature |-> op.signature,
     factory |-> AddressPart(op.initCode),
     factoryData |-> DataPart(op.initCode),
     paymaster |-> AddressPart(op.paymasterAndData),
     paymasterData |-> DataPart(op.paymasterAndData)]

(* GetByHash, then storedOpToRPC; an unknown hash is answered with null.   *)
GetUserOperationByHash(hash) ==
    {StoredOpToRPC(HydrateOp(r)) : r \in {s \in table : s.hash = hash}}

-----------------------------------------------------------------------------
(* The rest of the bundler: an operation ends, its slot is free again;     *)
(* old rows are pruned.                                                    *)
Settle(r) ==
    /\ r.live
    /\ table' = (table \ {r}) \cup {[r EXCEPT !.live = FALSE]}
    /\ UNCHANGED reply

Prune(r) ==
    /\ ~r.live
    /\ table' = table \ {r}
    /\ UNCHANGED reply

IntakeNext ==
    \/ /\ Cardinality(table) < MaxRows
       /\ \E w \in WireOps, ep \in EntryPointTexts : SendUserOperation(w, ep)
    \/ \E r \in table : Settle(r)
    \/ \E r \in table : Prune(r)

IntakeSpec == IntakeInit /\ [][IntakeNext]_intakeVars

-----------------------------------------------------------------------------
Uint128Pair == [hi : 0 .. (Half - 1), lo : 0 .. (Half - 1)]

(* Type invariant: gas limits and fees fit their halves after packing, a   *)
(* signature has its length, and a hash is for an allowed entry point.     *)
IntakeTypeOK ==
    /\ \A r \in table :
        /\ r.accountGasLimits \in Uint128Pair
        /\ r.gasFees \in Uint128Pair
        /\ Len(r.signature) = SigLen
        /\ r.hash.entryPoint \in Range(EntryPoints)
        /\ r.live \in BOOLEAN
    /\ reply \in {"none", "accepted", "opRejected", "invalidParams"}

(* Two live rows of one account never occupy the same nonce on chain,      *)
(* however clients spell address and number.  The index compares hex       *)
(* texts, so this rests on Insert writing each value in one spelling; it   *)
(* is claimed for nonces that are uint256 values, because the text keeps   *)
(* the sign and the bytes that the calldata drops.                         *)
OneLivePerChainNonce ==
    \A r, s \in table :
        LET nonce(x) == HydrateOp(x).nonce
        IN  /\ r # s /\ r.live /\ s.live /\ r.sender = s.sender
            /\ nonce(r) \in 0 .. (Word - 1) /\ nonce(s) \in 0 .. (Word - 1)
            => WordOf(nonce(r)) # WordOf(nonce(s))

(* The answer to eth_getUserOperationByHash, sent again as a request,      *)
(* parses, packs to the operation the row holds, and has the hash the      *)
(* client was given: nothing is lost between FromRPC, the columns,         *)
(* hydrateOp and storedOpToRPC, with cut-off gas limits, signed numbers    *)
(* and an optional factory.                                                *)
AnswerPacksToStoredOp ==
    \A r \in table : \A w \in GetUserOperationByHash(r.hash) :
        /\ Parses(w)
        /\ FromRPC(w) = HydrateOp(r)
        /\ ComputeUserOpHash(FromRPC(w), r.hash.entryPoint) = r.hash

(* The EntryPoint decodes the calldata of any bundle of rows, in the order *)
(* they were put in, to operations whose hash at the loop's entry point is *)
(* the hash the client was given and the watcher looks for, and whose      *)
(* signature is the client's.  Claimed for operations that named the first *)
(* entry point: the loop sends every bundle there.                         *)
BundleDecodesToRows ==
    \A r, s \in {x \in table : x.live /\ x.hash.entryPoint = EntryPoints[1]} :
        LET bundle == IF r = s THEN <<r>> ELSE <<r, s>>
            calldata == BuildHandleOpsCalldata(
                            [i \in DOMAIN bundle |-> HydrateOp(bundle[i])], "eoa")
            ops == DecodeHandleOps(calldata)
        IN  /\ Len(ops) = Len(bundle)
            /\ \A i \in DOMAIN bundle :
                /\ ComputeUserOpHash(ops[i], EntryPoints[1]) = bundle[i].hash
                /\ ops[i].signature = bundle[i].signature
=============================================================================
