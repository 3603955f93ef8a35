--------------------------- MODULE MCSponsorship ---------------------------
(* Two requests race for one code, and one account asks three ways: with   *)
(* code one, with code two, and with no code at all.                       *)
EXTENDS Sponsorship, TLC

CONSTANTS alice, bob, one, two, r1, r2, r3, r4

MCaccount == (r1 :> alice) @@ (r2 :> alice) @@ (r3 :> alice) @@ (r4 :> bob)
MCcode == (r1 :> one) @@ (r2 :> two) @@ (r3 :> NoCode) @@ (r4 :> one)
=============================================================================
