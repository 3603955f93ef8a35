----------------------------- MODULE MCBundler -----------------------------
(* Small instances of Bundler: alice's operations a and rival compete for  *)
(* one nonce, next spends the nonce after it, and other is bob's.  A cfg   *)
(* picks the operations of its instance with Ops.                          *)
EXTENDS BundlerProperties, TLC

CONSTANTS a, rival, next, other, alice, bob

MCsender == [o \in Ops |-> IF o = other THEN bob ELSE alice]
MCnonce == [o \in Ops |-> IF o = next THEN 1 ELSE 0]
=============================================================================
