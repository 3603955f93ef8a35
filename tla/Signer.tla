------------------------------- MODULE Signer -------------------------------
(***************************************************************************)
(* internal/signer: BundlerSigner, the account that sends every bundle and *)
(* the nonce it keeps for it.  SignAndSubmit holds the mutex from end to   *)
(* end and has one caller; its outcomes are actions of their own.  Gas     *)
(* prices, signatures and the balance are not kept: a call that fails      *)
(* before SendTransaction, or CheckBalance, has no effect.                 *)
(***************************************************************************)
EXTENDS EntryPointChain

VARIABLE pendingNonce   \* BundlerSigner.pendingNonce

SignerTypeOK == pendingNonce \in Nat

SignerInit == pendingNonce = 0

InitNonce == \E n \in PendingNonceAt : pendingNonce' = n

(* Mutant: the nonce is not advanced.                                      *)
SubmitWithoutIncrement(b) ==
    /\ NodeAccepts(pendingNonce, b)
    /\ UNCHANGED pendingNonce

(* SendTransaction returns nil: a transaction hash for the caller.         *)
SubmitAccepted(b) ==
    /\ NodeAccepts(pendingNonce, b)
    /\ pendingNonce' = pendingNonce + 1

(* The node has the transaction, the caller gets an error (a timeout): the *)
(* nonce is kept for the next attempt.                                     *)
SubmitLostReply(b) ==
    /\ "lostReply" \in Faults
    /\ NodeAccepts(pendingNonce, b)
    /\ UNCHANGED pendingNonce

(* "nonce too low" or "already known": resync, and still report an error.  *)
SubmitStaleNonce(b) ==
    /\ \/ pendingNonce < eoaNonce
       \/ \E t \in DOMAIN txs : /\ txs[t].nonce = pendingNonce
                                /\ txs[t].state = "pool"
                                /\ txs[t].ops = b
    /\ \/ \E n \in PendingNonceAt : pendingNonce' = n
       \/ "rpcError" \in Faults /\ UNCHANGED pendingNonce
    /\ UNCHANGED chainVars

(* Any other error: a failing gas price call, a replacement that pays too  *)
(* little, a refusal (which is all that is left at the bound MaxTxs).      *)
SubmitFailed(b) ==
    /\ \/ "rpcError" \in Faults
       \/ PoolHas(pendingNonce)
       \/ Len(txs) = MaxTxs
    /\ UNCHANGED <<chainVars, pendingNonce>>
=============================================================================
