------------------------------ MODULE MCProver ------------------------------
(* Two requests share the directory.  The good inputs differ in session    *)
(* key and in the modulus that verifies their JWT; each of the others      *)
(* fails at one place.                                                     *)
EXTENDS Prover

CONSTANTS m1, m2, p1, p2

Good == [post |-> TRUE, key |-> TRUE, body |-> TRUE, pubLen |-> TRUE, pub |-> p1,
         jwt |-> [form |-> TRUE, rs256 |-> TRUE, signer |-> m1,
                  dataFits |-> TRUE, claimsFit |-> TRUE]]

MCInputs ==
    {Good,
     [Good EXCEPT !.pub = p2, !.jwt.signer = m2],
     [Good EXCEPT !.post = FALSE],
     [Good EXCEPT !.key = FALSE],
     [Good EXCEPT !.body = FALSE],
     [Good EXCEPT !.pubLen = FALSE],
     [Good EXCEPT !.jwt.dataFits = FALSE],
     [Good EXCEPT !.jwt.claimsFit = FALSE]}
=============================================================================
