-------------------------- MODULE EntryPointChain --------------------------
(***************************************************************************)
(* External: the Ethereum node and the EntryPoint contract, as far as the  *)
(* bundler's calls observe them (EstimateGas, SendTransaction,             *)
(* PendingNonceAt, TransactionReceipt).  A transaction is known by its     *)
(* position in txs, which stands for its hash: two submissions of the same *)
(* bundle differ in nonce or gas price and so in hash.  Blocks are not     *)
(* reorganised.                                                            *)
(***************************************************************************)
EXTENDS Environment, Sequences, FiniteSets

CONSTANTS
    Fragile,    \* operations whose validation may start to fail on chain:
                \* paymaster window over, deposit spent, bad signature
    MaxTxs      \* bound: transactions the node ever accepts

ASSUME ChainAssumption == Fragile \subseteq Ops /\ MaxTxs \in Nat

VARIABLES
    txs,        \* handleOps transactions accepted by the node, oldest first
    acctNonce,  \* EntryPoint nonce of each account
    eoaNonce,   \* nonce of the bundler's own account: transactions mined
    void        \* the Fragile operations that no longer validate

chainVars == <<txs, acctNonce, eoaNonce, void>>

(* state: in the pool, mined with receipt status 1 or 0, or gone for good. *)
(* ok: the operations whose UserOperationEvent says success.               *)
Tx == [nonce : Nat, ops : Seq(Ops),
       state : {"pool", "success", "reverted", "dropped"}, ok : SUBSET Ops]

ChainTypeOK ==
    /\ txs \in Seq(Tx)
    /\ acctNonce \in [Senders -> Nat]
    /\ eoaNonce \in Nat
    /\ void \subseteq Ops

ChainInit ==
    /\ txs = <<>>
    /\ acctNonce = [s \in Senders |-> 0]
    /\ eoaNonce = 0
    /\ void = {}

OpsOf(b) == {b[i] : i \in DOMAIN b}

InPool(t) == t \in DOMAIN txs /\ txs[t].state = "pool"
Mined(t) == t \in DOMAIN txs /\ txs[t].state \in {"success", "reverted"}

-----------------------------------------------------------------------------
(* EntryPoint.handleOps on the latest block: validation runs over the      *)
(* whole array before any execution and spends the nonces in order; one    *)
(* operation that fails reverts the call (FailedOp).                       *)

OpValid(b, i) ==
    /\ b[i] \notin void
    /\ nonce[b[i]] = acctNonce[sender[b[i]]]
                     + Cardinality({j \in 1..(i-1) : sender[b[j]] = sender[b[i]]})

BundleValid(b) == \A i \in DOMAIN b : OpValid(b, i)

-----------------------------------------------------------------------------
(* The pool.                                                               *)

InState(tx, st, ok) == [nonce |-> tx.nonce, ops |-> tx.ops, state |-> st, ok |-> ok]

PoolHas(n) == \E t \in DOMAIN txs : txs[t].state = "pool" /\ txs[t].nonce = n

(* What eth_getTransactionCount(pending) answers: the first nonce that is  *)
(* neither mined nor in the pool.                                          *)
IsPendingNonce(n) ==
    /\ n >= eoaNonce
    /\ ~PoolHas(n)
    /\ \A m \in eoaNonce..(n-1) : PoolHas(m)

PendingNonceAt == {n \in 0..Len(txs) : IsPendingNonce(n)}

(* The node takes a transaction; one in the pool with the same nonce is    *)
(* evicted (the new one pays the price bump).                              *)
NodeAccepts(n, b) ==
    /\ Len(txs) < MaxTxs
    /\ n >= eoaNonce
    /\ txs' = [t \in 1..(Len(txs) + 1) |->
                 IF t = Len(txs) + 1
                 THEN [nonce |-> n, ops |-> b, state |-> "pool", ok |-> {}]
                 ELSE IF txs[t].state = "pool" /\ txs[t].nonce = n
                      THEN InState(txs[t], "dropped", {})
                      ELSE txs[t]]
    /\ UNCHANGED <<acctNonce, eoaNonce, void>>

Drop(t) ==
    /\ "drop" \in Faults
    /\ InPool(t)
    /\ txs' = [txs EXCEPT ![t] = InState(@, "dropped", {})]
    /\ UNCHANGED <<acctNonce, eoaNonce, void>>

-----------------------------------------------------------------------------
(* Blocks.                                                                 *)

Spent(b, s) == Cardinality({i \in DOMAIN b : sender[b[i]] = s})

(* Every operation of a bundle that validates spends its nonce and gets a  *)
(* UserOperationEvent; its inner call may still have failed.               *)
MineSuccess(t) ==
    /\ InPool(t)
    /\ txs[t].nonce = eoaNonce
    /\ BundleValid(txs[t].ops)
    /\ \E ok \in SUBSET OpsOf(txs[t].ops) :
          txs' = [txs EXCEPT ![t] = InState(@, "success", ok)]
    /\ acctNonce' = [s \in Senders |-> acctNonce[s] + Spent(txs[t].ops, s)]
    /\ eoaNonce' = eoaNonce + 1
    /\ UNCHANGED void

MineRevert(t) ==
    /\ InPool(t)
    /\ txs[t].nonce = eoaNonce
    /\ ~BundleValid(txs[t].ops) \/ "outOfGas" \in Faults
    /\ txs' = [txs EXCEPT ![t] = InState(@, "reverted", {})]
    /\ eoaNonce' = eoaNonce + 1
    /\ UNCHANGED <<acctNonce, void>>

Mine == \E t \in DOMAIN txs : MineSuccess(t) \/ MineRevert(t)

Invalidate(o) ==
    /\ o \in Fragile \ void
    /\ void' = void \cup {o}
    /\ UNCHANGED <<txs, acctNonce, eoaNonce>>

ChainNext ==
    \/ Mine
    \/ \E t \in DOMAIN txs : Drop(t)
    \/ \E o \in Fragile : Invalidate(o)

-----------------------------------------------------------------------------
(* o ran successfully on chain.                                            *)
Executed(o) == \E t \in DOMAIN txs : txs[t].state = "success" /\ o \in txs[t].ok

(* t carries o and has taken effect or still may.                          *)
Carries(t, o) ==
    txs[t].state \in {"pool", "success"} /\ o \in OpsOf(txs[t].ops)
=============================================================================
