--------------------------- MODULE MCReceiptLogs ---------------------------
(* A bundle of up to three operations of one account.                      *)
EXTENDS ReceiptLogs

CONSTANTS a, b, c, alice

MCsender == [o \in Ops |-> alice]
MCnonce == (a :> 0) @@ (b :> 1) @@ (c :> 2)
=============================================================================
