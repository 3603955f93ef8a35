---------------------------- MODULE BundlingLoop ----------------------------
(***************************************************************************)
(* internal/bundler/loop.go: BundlingLoop.Tick, one step per call that     *)
(* other goroutines or the chain can get in front of.  Ticks are           *)
(* sequential.  A CheckBalance, GetPending or ClaimForBundling that fails  *)
(* ends the tick with nothing changed.                                     *)
(***************************************************************************)
EXTENDS Mempool, Signer

VARIABLES
    loopPc,     \* where in Tick the loop is
    batch,      \* ops: what GetPending returned, in bundle order
    marked,     \* how many of them the current UpdateStatus loop is past
    batchTx     \* txHash returned by SignAndSubmit

loopVars == <<loopPc, batch, marked, batchTx>>

LoopPcs == {"idle", "claim", "estimate", "send", "submitted", "pending", "failed"}

(* "submitted", "pending" and "failed" are the loops that write that status*)
(* to the operations of the batch one after the other.                     *)
Marking == {"submitted", "pending", "failed"}

LoopTypeOK ==
    /\ loopPc \in LoopPcs
    /\ batch \in Seq(Ops)
    /\ marked \in Nat
    /\ batchTx \in Nat

LoopInit ==
    /\ loopPc = "idle"
    /\ batch = <<>>
    /\ marked = 0
    /\ batchTx = NoTx

(* The tick is over; its local variables die with it.                      *)
LoopIdle ==
    /\ loopPc' = "idle"
    /\ batch' = <<>>
    /\ marked' = 0
    /\ batchTx' = NoTx

GoTo(pc) == loopPc' = pc /\ UNCHANGED <<batch, marked, batchTx>>

(* Steps 1 and 2: select the oldest pending operations.                    *)
FetchPending ==
    /\ loopPc = "idle"
    /\ \E b \in GetPending(MaxBundle) : batch' = b
    /\ loopPc' = "claim"
    /\ UNCHANGED <<marked, batchTx, rows, chainVars, pendingNonce>>

(* Step 3: all of them become bundling, or the tick ends.                  *)
ClaimBatch ==
    /\ loopPc = "claim"
    /\ \/ ClaimForBundling(OpsOf(batch)) /\ GoTo("estimate")
       \/ /\ "dbError" \in Faults \/ \E o \in OpsOf(batch) : status[o] # "pending"
          /\ LoopIdle
          /\ UNCHANGED rows
    /\ UNCHANGED <<chainVars, pendingNonce>>

(* Steps 4 and 5: the bundle is simulated on the latest block.  A revert   *)
(* fails every operation of the batch for good; any other error (of the    *)
(* estimate, with no revert seen by the eth_call after it) releases them.  *)
EstimateBundle ==
    /\ loopPc = "estimate"
    /\ \/ BundleValid(batch) /\ GoTo("send")
       \/ ~BundleValid(batch) /\ GoTo("failed")
       \/ "rpcError" \in Faults /\ GoTo("pending")
    /\ UNCHANGED <<rows, chainVars, pendingNonce>>

(* Mutant: the batch is released although the node took the bundle.        *)
SubmitThenRelease ==
    /\ loopPc = "send"
    /\ \/ SubmitAccepted(batch)
       \/ SubmitLostReply(batch)
       \/ SubmitStaleNonce(batch)
       \/ SubmitFailed(batch)
    /\ GoTo("pending")
    /\ UNCHANGED rows

(* Step 6: an error of any kind releases the batch.                        *)
SubmitBundle ==
    /\ loopPc = "send"
    /\ \/ /\ SubmitAccepted(batch)
          /\ loopPc' = "submitted"
          /\ batchTx' = Len(txs')
          /\ UNCHANGED <<batch, marked>>
       \/ /\ \/ SubmitLostReply(batch)
             \/ SubmitStaleNonce(batch)
             \/ SubmitFailed(batch)
          /\ GoTo("pending")
    /\ UNCHANGED rows

(* Mutant: bundle_index counted from one.                                  *)
MarkCountingFromOne ==
    /\ loopPc \in Marking
    /\ LET o == batch[marked + 1] IN
       TryUpdateStatus(o, loopPc, batchTx, IF batchTx = NoTx THEN NoIndex ELSE marked + 1)
    /\ IF marked + 1 = Len(batch) THEN LoopIdle
       ELSE marked' = marked + 1 /\ UNCHANGED <<loopPc, batch, batchTx>>
    /\ UNCHANGED <<chainVars, pendingNonce>>

(* Step 7, resetToPending and failOps: one UpdateStatus per operation, in  *)
(* order; an error is logged at most and the loop goes on.  Only step 7    *)
(* passes a transaction hash and an index.                                 *)
MarkNext ==
    /\ loopPc \in Marking
    /\ LET o == batch[marked + 1] IN
       TryUpdateStatus(o, loopPc, batchTx, IF batchTx = NoTx THEN NoIndex ELSE marked)
    /\ IF marked + 1 = Len(batch) THEN LoopIdle
       ELSE marked' = marked + 1 /\ UNCHANGED <<loopPc, batch, batchTx>>
    /\ UNCHANGED <<chainVars, pendingNonce>>

Tick ==
    \/ FetchPending
    \/ ClaimBatch
    \/ EstimateBundle
    \/ SubmitBundle
    \/ MarkNext
=============================================================================
