---------------------------- MODULE SponsoredOps ----------------------------
(***************************************************************************)
(* The way of a sponsored operation: pm_getPaymasterStubData,              *)
(* eth_estimateUserOperationGas, pm_getPaymasterData, then                 *)
(* eth_sendUserOperation (Intake, with every other request that may come), *)
(* the bundle's calldata (PackedOps), and the check by                     *)
(* contracts/src/SignetPaymaster.sol, which must hash on chain what        *)
(* internal/paymaster hashed off chain.  Who gets past the access check is *)
(* the subject of Sponsorship; here it may refuse anyone.                  *)
(*                                                                         *)
(* paymasterAndData is an address and one token per word (32 bytes); a     *)
(* signature is the three tokens r, s and v.                               *)
(***************************************************************************)
EXTENDS Intake, ExecuteCalls

CONSTANTS
    Clients,        \* clients that ask for sponsorship
    draft,          \* [Clients -> the operation before its paymaster and gas]
    call,           \* [Clients -> target, value and data of its execute call]
    layout,         \* [Clients -> "packs" or "fields"], see Place
    Paymaster,      \* s.paymasterAddress, the contract's address
    Factory,        \* the contract's factory
    Groups,         \* addresses for which factory.isGroup
    ChainId,
    PaymasterVerificationGas, PaymasterPostOpGas,   \* the Default... constants
    Window,         \* DefaultValidityWindow
    Lag,            \* the 60 seconds validAfter lies back
    Times           \* when requests may be served

ASSUME SponsoredAssumption ==
    /\ Window \in Nat /\ Lag \in Nat
    /\ \A t \in Times : t \in Nat /\ t >= Lag
    /\ PaymasterVerificationGas \in Nat /\ PaymasterPostOpGas \in Nat

(* Nobody has a signature of the paymaster before it signs: requests start *)
(* without one.  What it has signed is public, see Known and Reuse.        *)
Unsigned(bytes) == \A i \in DOMAIN bytes : "signed" \notin DOMAIN bytes[i]

(* A draft is a request for the client's call, with nothing of a           *)
(* sponsor's in it.  A slice is shorter than 2^63, and the node answers    *)
(* with a uint64.                                                          *)
ASSUME ClientAssumption ==
    /\ DOMAIN draft = Clients
    /\ \A c \in Clients : LET inner == call[c] IN
        /\ WellFormed(draft[c])
        /\ Unsigned(draft[c].paymasterData)
        /\ draft[c].callData = BuildExecuteCalldata(inner.target, inner.value, inner.data)
        /\ inner.data \in Seq(Range(inner.data))
        /\ Len(inner.data) < Narrow \div 2
        /\ NodeGas(inner.target, inner.value, inner.data) \in 0 .. (Narrow - 1)
    /\ \A w \in WireOps : Unsigned(w.paymasterData)

VARIABLES
    wire,       \* the operation as the client has it
    grants      \* history: the hashes that were signed

sponsoredVars == <<intakeVars, wire, grants>>

SponsoredInit ==
    /\ IntakeInit
    /\ wire = draft
    /\ grants = {}

-----------------------------------------------------------------------------
(* internal/paymaster                                                      *)

TimeWord(t) == [time |-> t]

(* validityWindow: until and after.                                        *)
ValidityWindow(now) == [until |-> now + Window, after |-> now - Lag]

EncodeValidityAndSig(window, sig) == <<TimeWord(window.until), TimeWord(window.after)>> \o sig

StubSignature == <<Zero, Zero, Zero>>

(* ECDSA over toEthSignedMessageHash: only the hash's own signature is one.*)
SignatureOf(hash) == [i \in 1 .. 3 |-> [signed |-> hash, part |-> i]]

(* Mutant: the two limits are packed in the other order.                   *)
PaymasterGasLimitsSwapped == PackBigInts(PaymasterPostOpGas, PaymasterVerificationGas)

PaymasterGasLimits == PackBigInts(PaymasterVerificationGas, PaymasterPostOpGas)

(* keccak256 is injective here: the hash is the twelve words.              *)
GetHash(op, window) ==
    [sender |-> op.sender, nonce |-> WordOf(op.nonce), initCode |-> op.initCode,
     callData |-> op.callData, accountGasLimits |-> op.accountGasLimits,
     limits |-> PaymasterGasLimits, preVerificationGas |-> WordOf(op.preVerificationGas),
     gasFees |-> op.gasFees, chainId |-> ChainId, paymaster |-> Paymaster,
     until |-> window.until, after |-> window.after]

(* What the answer for a signed hash is made of.                           *)
WindowOf(hash) == [until |-> hash.until, after |-> hash.after]
GrantedData(hash) == EncodeValidityAndSig(WindowOf(hash), SignatureOf(hash))

(* encodeShouldSponsorCall: the offset of the tuple, then the tuple, laid  *)
(* out as in handleOps.                                                    *)
EncodeShouldSponsorCall(op) == <<1>> \o EncodePackedUserOp(op)

-----------------------------------------------------------------------------
(* SignetPaymaster.sol.  An operation is here what was decoded from ABI.   *)

IsAllowedTarget(sender, callData) ==
    /\ Len(callData) >= 2
    /\ callData[1] = Selector
    /\ callData[2].addr \in {sender, Factory} \cup Groups

ShouldSponsor(calldata) ==
    LET op == DecodeTuple(calldata, 1 + calldata[1])
    IN  IsAllowedTarget(op.sender, op.callData)

ContractGetHash(op, window) ==
    [sender |-> op.sender, nonce |-> op.nonce, initCode |-> op.initCode,
     callData |-> op.callData, accountGasLimits |-> op.accountGasLimits,
     limits |-> op.paymasterAndData[2], preVerificationGas |-> op.preVerificationGas,
     gasFees |-> op.gasFees, chainId |-> ChainId, paymaster |-> Paymaster,
     until |-> window.until, after |-> window.after]

(* abi.decode reverts on a word that is no uint48.                         *)
HasWindow(pmData) ==
    Len(pmData) >= 4 /\ \A i \in 3 .. 4 : pmData[i] \in [time : Nat]

(* Mutant: the signer that is recovered is not compared.                   *)
ValidatesAnySigner(op, t) ==
    LET pmData == op.paymasterAndData IN
    /\ pmData # <<>> /\ Head(pmData) = Paymaster
    /\ HasWindow(pmData) /\ Len(pmData) = 7
    /\ IsAllowedTarget(op.sender, op.callData)
    /\ pmData[4].time <= t /\ t <= pmData[3].time

(* _validatePaymasterUserOp as the EntryPoint uses it at time t.           *)
PaymasterValidates(op, t) ==
    LET pmData == op.paymasterAndData
        window == [until |-> pmData[3].time, after |-> pmData[4].time]
        signature == SubSeq(pmData, 5, Len(pmData))
    IN  /\ pmData # <<>> /\ Head(pmData) = Paymaster
        /\ HasWindow(pmData)
        /\ signature = SignatureOf(ContractGetHash(op, window))
        /\ IsAllowedTarget(op.sender, op.callData)
        /\ window.after <= t /\ t <= window.until

-----------------------------------------------------------------------------
(* The client.  The answer of the pm_ methods has four members; FromRPC    *)
(* knows two of them.  A client that "packs" puts the two gas limits in    *)
(* front of paymasterData, where the contract reads them; one that uses    *)
(* the "fields" of ERC-7677 sends all four as they came.                   *)
Layouts == {"packs", "fields"}

Place(l, data) ==
    IF l = "packs" THEN <<PackBigInts(PaymasterVerificationGas, PaymasterPostOpGas)>> \o data
                   ELSE data

WithPaymaster(w, l, data) ==
    [w EXCEPT !.paymaster = AddressHex(Paymaster), !.paymasterData = Place(l, data)]

Prepared(c) == wire[c] # draft[c]

(* GetStubData: a window and zeros for the signature.                      *)
GetStubData(now) == EncodeValidityAndSig(ValidityWindow(now), StubSignature)

(* pm_getPaymasterStubData, then eth_estimateUserOperationGas with what it *)
(* gave.  Neither writes anything in the server, so they are one step; an  *)
(* error of either, or of the node, leaves the client where it was.        *)
EstimateUserOperationGas(c, now) ==
    LET stubbed == WithPaymaster(draft[c], layout[c], GetStubData(now))
        estimate == Estimate(FromRPC(stubbed))
    IN  /\ ~Prepared(c)
        /\ Parses(stubbed)
        /\ estimate.kind = "estimate"
        /\ wire' = [wire EXCEPT ![c] =
              [stubbed EXCEPT
                 !.preVerificationGas = BigToHex(estimate.preVerificationGas),
                 !.verificationGasLimit = BigToHex(estimate.verificationGasLimit),
                 !.callGasLimit = BigToHex(estimate.callGasLimit)]]
        /\ UNCHANGED <<intakeVars, grants>>

(* pm_getPaymasterData after the access check: checkShouldSponsor by       *)
(* eth_call, then the signature.  A refusal changes nothing here.          *)
SignPaymasterData(c, now) ==
    LET op == FromRPC(wire[c])
        window == ValidityWindow(now)
        hash == GetHash(op, window)
        data == EncodeValidityAndSig(window, SignatureOf(hash))
    IN  /\ Prepared(c)
        /\ Parses(wire[c])
        /\ ShouldSponsor(EncodeShouldSponsorCall(op))
        /\ wire' = [wire EXCEPT ![c] = WithPaymaster(@, layout[c], data)]
        /\ grants' = grants \cup {hash}
        /\ UNCHANGED intakeVars

(* The requests there are: every client's operation can be read by others. *)
Known == WireOps \cup {wire[c] : c \in Clients}

(* The account signs last and may change its mind about any member, to     *)
(* what another request has there.                                         *)
Send(c, entryPointHex) ==
    /\ Prepared(c)
    /\ Cardinality(table) < MaxRows
    /\ \E u \in Known : \E f \in DOMAIN u :
          SendUserOperation([wire[c] EXCEPT ![f] = u[f]], entryPointHex)
    /\ UNCHANGED <<wire, grants>>

(* Anybody puts data that was granted into any request, the window of one  *)
(* answer with the signature of another too.                               *)
Reuse(w, l, g, h, entryPointHex) ==
    /\ Cardinality(table) < MaxRows
    /\ SendUserOperation(
          WithPaymaster(w, l, EncodeValidityAndSig(WindowOf(g), SignatureOf(h))),
          entryPointHex)
    /\ UNCHANGED <<wire, grants>>

SponsoredNext ==
    \/ \E c \in Clients, now \in Times :
          EstimateUserOperationGas(c, now) \/ SignPaymasterData(c, now)
    \/ \E ep \in EntryPointTexts :
          \/ \E c \in Clients : Send(c, ep)
          \/ \E w \in Known, l \in Layouts, g, h \in grants : Reuse(w, l, g, h, ep)
    \/ IntakeNext /\ UNCHANGED <<wire, grants>>

SponsoredSpec == SponsoredInit /\ [][SponsoredNext]_sponsoredVars

-----------------------------------------------------------------------------
(* The operation of a row as the EntryPoint hands it to the paymaster.     *)
OnChain(row) == DecodeHandleOps(BuildHandleOpsCalldata(<<HydrateOp(row)>>, "eoa"))[1]

(* What the paymaster's hash takes from the operation.                     *)
Signed == {"sender", "nonce", "initCode", "callData", "accountGasLimits",
           "preVerificationGas", "gasFees"}

(* A userOpHash of an operation as it was signed, with the data placed as  *)
(* in L.                                                                   *)
AsGranted(hash, g, L) ==
    /\ \A f \in Signed : hash[f] = g[f]
    /\ hash.paymasterAndData \in {<<Paymaster>> \o Place(l, GrantedData(g)) : l \in L}

ValidWhileGranted(L) ==
    \A row \in table, g \in grants : AsGranted(row.hash, g, L) =>
        \A t \in g.after .. g.until : PaymasterValidates(OnChain(row), t)

(* An operation that was signed and sent as signed, by a client that packs *)
(* the two limits, passes the contract for the whole of its window: from   *)
(* the request through columns and calldata, the contract hashes the words *)
(* that getHash hashed.                                                    *)
SponsoredRowsValidate == ValidWhileGranted({"packs"})

(* paymaster.go on getHash: "matching the on-chain implementation          *)
(* exactly", for every client that sends the four members it was given.    *)
EveryLayoutValidates == ValidWhileGranted(Layouts)

(* The contract pays only for what was signed: the same sender, nonce,     *)
(* call, gas and fees, inside the window that goes with them and for an    *)
(* allowed target, whatever the client changed after asking and however    *)
(* others reuse the data it was given.                                     *)
PaysOnlyWhatWasGranted ==
    \A row \in table : \A t \in UNION {(now - Lag - 1) .. (now + Window + 1) : now \in Times} :
        PaymasterValidates(OnChain(row), t) =>
            \E g \in grants :
                /\ AsGranted(row.hash, g, {"packs"})
                /\ t \in g.after .. g.until
                /\ IsAllowedTarget(g.sender, g.callData)

(* The estimate is for the call the account will make: its gas limit is no *)
(* less than what the node says that this very call needs.                 *)
EstimateCoversCall ==
    \A c \in Clients : Prepared(c) =>
        HexToBigInt(wire[c].callGasLimit)
            >= NodeGas(call[c].target, call[c].value, call[c].data)
=============================================================================
