--------------------------- MODULE ReceiptWatcher ---------------------------
(***************************************************************************)
(* internal/bundler: ReceiptWatcher.Poll and the second half of Reconcile, *)
(* which treat submitted rows alike: a snapshot of them is grouped by      *)
(* transaction, the receipt of each transaction is fetched, and the        *)
(* operations of a mined one are updated one by one.  Go ranges over the   *)
(* groups in any order; within a group the order is left open too.         *)
(***************************************************************************)
EXTENDS Mempool, EntryPointChain

VARIABLES
    seen,       \* snapshot rows <<op, bundle_tx_hash>> still to be handled
    receipt     \* the transaction whose receipt is being applied, or NoTx

watcherVars == <<seen, receipt>>

WatcherTypeOK ==
    /\ seen \subseteq Ops \X Nat
    /\ receipt \in Nat

WatcherInit ==
    /\ seen = {}
    /\ receipt = NoTx

(* GetByStatus(submitted), rows without a transaction hash left out.       *)
Submitted ==
    {<<o, bundleTxHash[o]>> : o \in {p \in GetByStatus("submitted") :
                                        bundleTxHash[p] # NoTx}}

TakeSnapshot ==
    /\ seen = {}
    /\ Submitted # {}
    /\ seen' = Submitted
    /\ UNCHANGED <<receipt, rows, chainVars>>

GroupOf(t) == {p \in seen : p[2] = t}

(* Mutant: "not found" is not an error but an empty receipt.               *)
FetchEmptyReceipt(t) ==
    /\ receipt = NoTx
    /\ GroupOf(t) # {}
    /\ receipt' = t
    /\ UNCHANGED <<seen, rows, chainVars>>

(* TransactionReceipt(t): not found or any other error skips the group.    *)
FetchReceipt(t) ==
    /\ receipt = NoTx
    /\ GroupOf(t) # {}
    /\ \/ Mined(t) /\ receipt' = t /\ UNCHANGED seen
       \/ /\ ~Mined(t) \/ "rpcError" \in Faults
          /\ seen' = seen \ GroupOf(t)
          /\ UNCHANGED receipt
    /\ UNCHANGED <<rows, chainVars>>

(* ParseHandleOpsReceipt: the operations with an outcome in the logs.      *)
Outcomes(t) == OpsOf(txs[t].ops)

(* HandleBundleRevert: the operation at the index that FailedOp names      *)
(* fails, the others are released.  Without revert data (NoIndex) all are. *)
HandleBundleRevert(failedIndex, o) ==
    IF failedIndex # NoIndex /\ bundleIndex[o] = failedIndex THEN "failed" ELSE "pending"

(* Mutant: a mined bundle is taken for the success of its operations.      *)
TrustReceiptStatus(o, t) ==
    IF txs[t].state = "reverted" THEN "pending" ELSE "confirmed"

(* Mutant: the success flag is read from the wrong word of the log.        *)
MisreadSuccess(o, t) ==
    IF txs[t].state = "reverted" THEN "pending"
    ELSE IF o \in txs[t].ok THEN "failed" ELSE "confirmed"

(* The status a receipt gives an operation that has an outcome.  Poll and  *)
(* Reconcile have no revert data to pass on.                               *)
Verdict(o, t) ==
    IF txs[t].state = "reverted" THEN HandleBundleRevert(NoIndex, o)
    ELSE IF o \in txs[t].ok THEN "confirmed" ELSE "failed"

(* One operation of the group: an error, or an outcome that is missing     *)
(* from the logs of a successful bundle, leaves the row as it is.          *)
SettleOp(p) ==
    /\ receipt # NoTx
    /\ p \in GroupOf(receipt)
    /\ IF txs[receipt].state = "reverted" \/ p[1] \in Outcomes(receipt)
       THEN TryUpdateStatus(p[1], Verdict(p[1], receipt), NoTx, NoIndex)
       ELSE UNCHANGED rows
    /\ seen' = seen \ {p}
    /\ receipt' = IF GroupOf(receipt) \subseteq {p} THEN NoTx ELSE receipt
    /\ UNCHANGED chainVars

ApplySnapshot ==
    \/ \E t \in {p[2] : p \in seen} : FetchReceipt(t)
    \/ \E p \in seen : SettleOp(p)
=============================================================================
