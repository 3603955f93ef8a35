------------------------------ MODULE MCIntake ------------------------------
(* Requests that differ from a plain one in a field each: spellings,       *)
(* signs, widths at and around every boundary, missing and foreign parts.  *)
EXTENDS Intake

N(n) == [neg |-> FALSE, mag |-> n]
Minus(n) == [neg |-> TRUE, mag |-> n]
Lower(a) == [addr |-> a, spelling |-> "lower"]
B(b) == [byte |-> b]

Plain ==
    [sender |-> AddressHex("alice"), nonce |-> N(0),
     factory |-> NoText, factoryData |-> <<>>,
     callData |-> <<B("x")>>, callGasLimit |-> N(1), verificationGasLimit |-> N(2),
     preVerificationGas |-> N(5), maxFeePerGas |-> N(7),
     maxPriorityFeePerGas |-> N(3),
     paymaster |-> AddressHex("sponsor"), paymasterData |-> <<B("v")>>,
     signature |-> <<B("s"), B("i"), B("g")>>]

MCWireOps ==
    {Plain}
    \cup {[Plain EXCEPT !.nonce = n, !.callData = <<B("y"), B("z")>>] :
             n \in {N(0), N(1), Minus(0), Minus(1), N(Word - 1), N(Word), Garbage}}
    \cup {[Plain EXCEPT !.sender = Lower("alice"), !.callData = c] :
             c \in {<<>>, GarbageBytes}}
    \cup {[Plain EXCEPT !.verificationGasLimit = n, !.callGasLimit = N(0)] :
             n \in {N(3), N(Narrow), N(Narrow + 3), N(Half + 1), Minus(1)}}
    \cup {[Plain EXCEPT !.callGasLimit = n] : n \in {N(0), N(2), N(Half - 1)}}
    \cup {[Plain EXCEPT !.preVerificationGas = n, !.maxFeePerGas = N(Half + 2)] :
             n \in {Minus(5), N(Word + 1)}}
    \cup {[Plain EXCEPT !.sender = AddressHex("bob"), !.factory = f,
                        !.factoryData = d] :
             f \in {NoText, Lower("factory")},
             d \in {<<>>, <<B("k"), B("l")>>, GarbageBytes}}
    \cup {[Plain EXCEPT !.paymaster = p, !.paymasterData = d] :
             p \in {NoText, Lower("sponsor"), AddressHex("stranger")},
             d \in {<<>>, GarbageBytes}}
    \cup {[Plain EXCEPT !.signature = s] :
             s \in {<<>>, <<B("s"), B("i"), B("g"), B("s")>>, GarbageBytes}}

MCEntryPointTexts == {AddressHex("v07"), Lower("v07"), AddressHex("v08"), NoText}
MCEntryPoints == <<"v07", "v08">>
=============================================================================
