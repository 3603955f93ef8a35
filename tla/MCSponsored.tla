---------------------------- MODULE MCSponsored ----------------------------
(* Two clients go the way to a sponsored operation, one with the ERC-7677  *)
(* fields, asking at two times; the requests of others have something else *)
(* in every member, and some of it is what another grant has.              *)
EXTENDS SponsoredOps

CONSTANTS packer, erc7677

N(n) == [neg |-> FALSE, mag |-> n]
B(b) == [byte |-> b]

MCEntryPointTexts == {AddressHex("v07"), AddressHex("v08")}
MCEntryPoints == <<"v07", "v08">>

MClayout == (packer :> "packs") @@ (erc7677 :> "fields")

(* A call to a group, and one of the account to itself.                    *)
MCcall == (packer :> [target |-> "group", value |-> 0, data |-> <<B("x"), B("y"), B("z")>>])
       @@ (erc7677 :> [target |-> "carol", value |-> 1, data |-> <<>>])

(* More data and a value cost more.                                        *)
MCNodeGas(target, value, data) == 1 + value + Len(data)

Draft(account, inner) ==
    [sender |-> AddressHex(account), nonce |-> N(0),
     factory |-> NoText, factoryData |-> <<>>,
     callData |-> BuildExecuteCalldata(inner.target, inner.value, inner.data),
     callGasLimit |-> N(0), verificationGasLimit |-> N(0),
     preVerificationGas |-> N(0), maxFeePerGas |-> N(7),
     maxPriorityFeePerGas |-> N(3), paymaster |-> NoText, paymasterData |-> <<>>,
     signature |-> <<B("s"), B("i"), B("g")>>]

MCdraft == (packer :> Draft("alice", MCcall[packer]))
        @@ (erc7677 :> Draft("carol", MCcall[erc7677]))

(* Another account with other values everywhere, and the packer's own      *)
(* account with a nonce of more than 32 bytes and a call to no group.      *)
MCWireOps ==
    {[Draft("carol", [target |-> "stranger", value |-> 0, data |-> <<B("w")>>]) EXCEPT
        !.nonce = N(1), !.factory = AddressHex("factory"), !.factoryData = <<B("k")>>,
        !.callGasLimit = N(1), !.verificationGasLimit = N(1), !.preVerificationGas = N(1),
        !.maxFeePerGas = N(8), !.maxPriorityFeePerGas = N(4),
        !.paymaster = AddressHex("sponsor"), !.paymasterData = <<B("v")>>,
        !.signature = <<B("t"), B("i"), B("g")>>],
     [Draft("alice", [target |-> "carol", value |-> 0, data |-> <<>>]) EXCEPT
        !.nonce = N(Word), !.preVerificationGas = N(Word + 1),
        !.paymaster = AddressHex("stranger")]}
=============================================================================
