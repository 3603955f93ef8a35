------------------------- MODULE BundlerProperties -------------------------
(* What the bundler promises, stated of the composed system Bundler.       *)
EXTENDS Bundler

(* Between the claim and the last UpdateStatus of a tick, no other         *)
(* goroutine touches the operations the loop still has to write: each of   *)
(* them is bundling, so the unconditional UpdateStatus of Tick overwrites  *)
(* nothing but the loop's own claim.                                       *)
LoopOwnsBatch ==
    loopPc \in {"estimate", "send"} \cup Marking =>
        \A i \in DOMAIN batch : i > marked => status[batch[i]] = "bundling"

(* The rows the watcher (or Reconcile) has in its snapshot have not moved  *)
(* since it was taken: they are still submitted in the same transaction    *)
(* when their UpdateStatus comes, so a stale snapshot never undoes a step. *)
SnapshotIsFresh ==
    \A p \in seen : status[p[1]] = "submitted" /\ bundleTxHash[p[1]] = p[2]

(* A submitted row names a transaction the node accepted, and its index is *)
(* the place of the operation in that very bundle: the receipt the watcher *)
(* asks for is the right one, and the operation is never missing from it.  *)
SubmittedIsInItsTx ==
    \A o \in Ops : status[o] = "submitted" =>
        /\ bundleTxHash[o] \in DOMAIN txs
        /\ bundleIndex[o] + 1 \in DOMAIN txs[bundleTxHash[o]].ops
        /\ txs[bundleTxHash[o]].ops[bundleIndex[o] + 1] = o

(* eth_getUserOperationReceipt answers only for confirmed rows: such a row *)
(* names a mined bundle in which this very operation succeeded, whatever   *)
(* crashes, lost replies, write errors and resubmissions came before.      *)
ConfirmedWasExecuted ==
    \A o \in Ops : status[o] = "confirmed" =>
        /\ bundleTxHash[o] \in DOMAIN txs
        /\ txs[bundleTxHash[o]].state = "success"
        /\ o \in txs[bundleTxHash[o]].ok

(* A verdict is final: no late write of the loop, the watcher, Reconcile   *)
(* or the pruner moves a terminal row, except to delete it.                *)
TerminalIsFinal ==
    [][\A o \in Ops : IsTerminal(status[o]) =>
          status'[o] \in {status[o], "absent"}]_vars

(* Nobody gives up on a bundle that may still be mined: a row leaves       *)
(* submitted only when its own transaction is in a block, however long the *)
(* receipt is missing, after a restart, and also when the node evicted the *)
(* transaction.  (That nothing ends the wait for an evicted one is the     *)
(* price: nobody can know that it will not come back.)                     *)
SubmittedUntilMined ==
    [][\A o \in Ops : status[o] = "submitted" /\ status'[o] # "submitted" =>
          Mined(bundleTxHash[o])]_vars

(* What the loop holds is consistent: a batch of distinct operations with  *)
(* some left to write, and past the send the transaction that carries it.  *)
BatchShape ==
    /\ loopPc # "idle" =>
         /\ marked < Len(batch)
         /\ \A i, j \in DOMAIN batch : i # j => batch[i] # batch[j]
    /\ loopPc \notin Marking => marked = 0
    /\ loopPc # "submitted" => batchTx = NoTx
    /\ loopPc = "submitted" =>
         /\ batchTx \in DOMAIN txs
         /\ txs[batchTx].ops = batch

(* The loop works only in a running process, the watcher's snapshot lives  *)
(* no longer than the process, and a receipt is of a mined transaction.    *)
ProcessShape ==
    /\ phase # "running" => loopPc = "idle"
    /\ phase = "down" => seen = {} /\ receipt = NoTx
    /\ receipt # NoTx => Mined(receipt)

(* The inductive invariant behind the safety properties: ownership of rows *)
(* is what makes the unconditional writes harmless, and it can only be     *)
(* shown together with what the goroutines hold.                           *)
Inductive ==
    /\ TypeOK
    /\ BatchShape
    /\ ProcessShape
    /\ LiveSlotUnique
    /\ LoopOwnsBatch
    /\ SnapshotIsFresh
    /\ SubmittedIsInItsTx
    /\ ConfirmedWasExecuted

-----------------------------------------------------------------------------
(* No UpdateStatus of the loop or the watcher is ever refused by the table:*)
(* while an operation is in their hands no rival takes its slot and the    *)
(* pruner does not delete its row.  A refusal would only be logged and     *)
(* would leave the operation bundling or submitted.                        *)
UpdatesAreAccepted ==
    /\ loopPc \in Marking =>
         \A i \in DOMAIN batch : i > marked => UpdateAccepted(batch[i], loopPc)
    /\ receipt # NoTx =>
         \A p \in GroupOf(receipt) : UpdateAccepted(p[1], Verdict(p[1], receipt))

(* The process implements the service its clients see, with every fault    *)
(* allowed: pending, bundling and submitted are one open state, replies    *)
(* and the chain's effects come from the real transactions.                *)
Answer(s) ==
    CASE s = "absent" -> "unknown"
      [] s \in Live   -> "open"
      [] OTHER        -> s

ClientView == [o \in Ops |-> Answer(status[o])]
SentOps == UNION {OpsOf(txs[t].ops) : t \in DOMAIN txs}
ExecutedOps == {o \in Ops : Executed(o)}

Service == INSTANCE UserOpService WITH
    answer   <- ClientView,
    sent     <- SentOps,
    executed <- ExecutedOps

ImplementsService == Service!ServiceSpec

(* What the refinement needs beside Inductive: an operation of a bundle    *)
(* that took effect has spent its nonce, so it cannot take effect again,   *)
(* and nothing in the process replaces an operation.                       *)
EffectsSpendNonces ==
    \A t \in DOMAIN txs :
        /\ txs[t].ok \subseteq OpsOf(txs[t].ops)
        /\ txs[t].state = "success" =>
             \A o \in OpsOf(txs[t].ops) : nonce[o] < acctNonce[sender[o]]

NeverReplaced == \A o \in Ops : status[o] # "replaced"

-----------------------------------------------------------------------------
(* As long as the process does not restart and no reply of the node is     *)
(* lost, no operation is in two transactions that took effect or still may.*)
(* Estimates that fail, bundles that revert, evictions and write errors    *)
(* that leave rows behind are not enough to submit an operation twice.     *)
NoDoubleSubmission ==
    \A o \in Ops : \A t, u \in DOMAIN txs :
        Carries(t, o) /\ Carries(u, o) => t = u

(* Under the same conditions, and until the pruner deletes its confirmed   *)
(* row, a client is never told that an operation failed when it ran        *)
(* successfully.  (Once the row is gone the operation may be sent again,   *)
(* and the new row fails.)                                                 *)
FailedWasNotExecuted ==
    \A o \in Ops : status[o] = "failed" => ~Executed(o)

(* As long as no reply is lost and nothing is evicted, restarts or not,    *)
(* the nonce the signer keeps is the one the node expects next, so a new   *)
(* bundle neither evicts an older one nor waits behind a gap.              *)
NonceInSync == phase = "running" => pendingNonce \in PendingNonceAt

(* Without restarts, nothing is on the chain before the first start.       *)
FreshStart ==
    phase # "running" => txs = <<>> /\ \A o \in Ops : status[o] = "absent"

(* Whatever waits in the pool is somebody's: its rows are the loop's or    *)
(* the watcher's, never free for another claim.                            *)
Pooled(o) == \E t \in DOMAIN txs : txs[t].state = "pool" /\ o \in OpsOf(txs[t].ops)

PooledIsInHand ==
    \A o \in Ops : Pooled(o) => status[o] \in {"bundling", "submitted"}

(* Why nothing is sent twice: the only carrier of a submitted row is the   *)
(* transaction it names ...                                                *)
SubmittedHasOneCarrier ==
    \A o \in Ops : status[o] = "submitted" =>
        \A t \in DOMAIN txs : Carries(t, o) => t = bundleTxHash[o]

(* ... the only carrier of what is about to be marked submitted is the     *)
(* transaction just sent, and what the loop will send or give back is      *)
(* carried by nothing that may still be mined.                             *)
BatchHasNoOtherCarrier ==
    \A i \in DOMAIN batch : i > marked =>
        /\ loopPc = "submitted" =>
              \A t \in DOMAIN txs : Carries(t, batch[i]) => t = batchTx
        /\ loopPc \in {"estimate", "pending", "failed"} => ~Pooled(batch[i])
        /\ loopPc = "send" => \A t \in DOMAIN txs : ~Carries(t, batch[i])

(* Why no executed operation is reported failed: while its row exists it   *)
(* is on the way to confirmed, and the loop is not about to give it back.  *)
ExecutedIsRemembered ==
    /\ \A o \in Ops : Executed(o) => status[o] \in {"bundling", "submitted", "confirmed"}
    /\ loopPc \in {"estimate", "send", "pending", "failed"} =>
          \A i \in DOMAIN batch : i > marked => ~Executed(batch[i])

(* Why the nonce is in sync: the transactions are numbered as they were    *)
(* sent, the mined ones come first, and the signer counts them all.        *)
NonceAligned ==
    /\ eoaNonce <= Len(txs)
    /\ \A t \in DOMAIN txs :
          txs[t].nonce = t - 1 /\ (txs[t].state = "pool" <=> t > eoaNonce)
    /\ phase = "running" => pendingNonce = Len(txs)

(* No operation stays bundling: the loop hands every claim on, and what a  *)
(* crash leaves claimed is released by Reconcile (fix R5 and Reconcile).   *)
BundlingEnds ==
    \A o \in Ops : status[o] = "bundling" ~> status[o] # "bundling"

(* Every accepted operation gets a verdict.                                *)
EveryOpSettles ==
    \A o \in Ops : status[o] \in Live ~> status[o] \notin Live

-----------------------------------------------------------------------------
(* What comments, docs and tests say that the code does not do.            *)

(* reconcile.go, step 1: the operations found bundling at startup "were    *)
(* claimed but never submitted".                                           *)
ReconciledWasNeverSubmitted ==
    [][phase = "down" => \A o \in Ops :
          status[o] = "bundling" /\ status'[o] = "pending" =>
             \A t \in DOMAIN txs : ~Carries(t, o)]_vars

(* Design, state machine: on FailedOp the "offending op only" fails, the   *)
(* others go back to pending.  Offending: invalid in the bundle it is in.  *)
OnlyOffenderFails ==
    [][\A i \in DOMAIN batch :
          status[batch[i]] = "bundling" /\ status'[batch[i]] = "failed" =>
             ~OpValid(batch, i)]_vars

(* loop.go, step 5: operations failed on an EntryPoint revert are invalid  *)
(* for good and "retrying won't help".                                     *)
RejectedStaysInvalid ==
    \A o \in Ops : status[o] = "failed" =>
        o \in void \/ nonce[o] # acctNonce[sender[o]]
=============================================================================
