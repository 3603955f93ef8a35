------------------------------ MODULE Bundler ------------------------------
(***************************************************************************)
(* The whole process of cmd/bundler: the RPC server, the bundling loop,    *)
(* the receipt watcher and the pruner run concurrently over one mempool    *)
(* and one node, after a startup that reconciles what the last process     *)
(* left.  The table survives a crash; everything the goroutines hold does  *)
(* not.                                                                    *)
(***************************************************************************)
EXTENDS BundlingLoop, ReceiptWatcher

CONSTANT MaxCrashes     \* bound: how often the process dies

ASSUME BundlerAssumption == MaxCrashes \in Nat

VARIABLES
    phase,      \* "down", "reconcile" (main before the goroutines), "running"
    prunerPc,   \* which half of Pruner.tick comes next
    crashes     \* how often the process has died

processVars == <<phase, prunerPc, crashes>>
vars == <<mempoolVars, chainVars, pendingNonce, loopVars, watcherVars, processVars>>

TypeOK ==
    /\ MempoolTypeOK
    /\ ChainTypeOK
    /\ SignerTypeOK
    /\ LoopTypeOK
    /\ WatcherTypeOK
    /\ phase \in {"down", "reconcile", "running"}
    /\ prunerPc \in {"expire", "prune"}
    /\ crashes \in 0..MaxCrashes

Init ==
    /\ MempoolInit
    /\ ChainInit
    /\ SignerInit
    /\ LoopInit
    /\ WatcherInit
    /\ phase = "down"
    /\ prunerPc = "expire"
    /\ crashes = 0

-----------------------------------------------------------------------------
(* Startup.                                                                *)

(* Mutant: claimed rows are left as the dead process had them.             *)
ReconcileWithoutReset ==
    /\ phase = "down"
    /\ UNCHANGED rows
    /\ seen' = Submitted'
    /\ phase' = "reconcile"
    /\ UNCHANGED <<receipt, now, chainVars, pendingNonce, loopVars, prunerPc, crashes>>

(* Reconcile, up to the snapshot of the submitted rows, which is read from *)
(* the table the reset left.  Nothing else of the process runs yet, so the *)
(* two statements are one step.                                            *)
Reconcile ==
    /\ phase = "down"
    /\ ResetBundlingToPending
    /\ seen' = Submitted'
    /\ phase' = "reconcile"
    /\ UNCHANGED <<receipt, now, chainVars, pendingNonce, loopVars, prunerPc, crashes>>

(* The rest of Reconcile handles the snapshot like the watcher does.       *)
ReconcileSubmitted ==
    /\ phase = "reconcile"
    /\ ApplySnapshot
    /\ UNCHANGED <<now, pendingNonce, loopVars, processVars>>

(* InitNonce, then the goroutines are started.                             *)
StartServing ==
    /\ phase = "reconcile"
    /\ seen = {}
    /\ InitNonce
    /\ phase' = "running"
    /\ UNCHANGED <<mempoolVars, chainVars, loopVars, watcherVars, prunerPc, crashes>>

-----------------------------------------------------------------------------
(* The goroutines.                                                         *)

(* eth_sendUserOperation, once the request has passed validation.          *)
SendUserOperation(o) ==
    /\ phase = "running"
    /\ Insert(o)
    /\ UNCHANGED <<now, chainVars, pendingNonce, loopVars, watcherVars, processVars>>

LoopStep ==
    /\ phase = "running"
    /\ Tick
    /\ UNCHANGED <<now, watcherVars, processVars>>

WatcherStep ==
    /\ phase = "running"
    /\ TakeSnapshot \/ ApplySnapshot
    /\ UNCHANGED <<now, pendingNonce, loopVars, processVars>>

(* Pruner.tick: each cutoff is computed right before its statement, whose  *)
(* error is logged.                                                        *)
PrunerStep ==
    /\ phase = "running"
    /\ \/ /\ prunerPc = "expire"
          /\ MarkTtlExpired(now - PendingTtl)
          /\ prunerPc' = "prune"
       \/ /\ prunerPc = "prune"
          /\ PruneHistory(now - Retention)
          /\ prunerPc' = "expire"
       \/ /\ "dbError" \in Faults
          /\ UNCHANGED rows
          /\ prunerPc' = IF prunerPc = "expire" THEN "prune" ELSE "expire"
    /\ UNCHANGED <<now, chainVars, pendingNonce, loopVars, watcherVars, phase, crashes>>

-----------------------------------------------------------------------------
(* The surroundings.                                                       *)

(* The process dies, or is stopped: main waits for no goroutine.           *)
Crash ==
    /\ "crash" \in Faults
    /\ crashes < MaxCrashes
    /\ phase # "down"
    /\ phase' = "down"
    /\ crashes' = crashes + 1
    /\ pendingNonce' = 0
    /\ LoopIdle
    /\ seen' = {}
    /\ receipt' = NoTx
    /\ prunerPc' = "expire"
    /\ UNCHANGED <<mempoolVars, chainVars>>

ChainStep ==
    /\ ChainNext
    /\ UNCHANGED <<mempoolVars, pendingNonce, loopVars, watcherVars, processVars>>

MineStep ==
    /\ Mine
    /\ UNCHANGED <<mempoolVars, pendingNonce, loopVars, watcherVars, processVars>>

ClockStep ==
    /\ Advance
    /\ UNCHANGED <<chainVars, pendingNonce, loopVars, watcherVars, processVars>>

Next ==
    \/ Reconcile
    \/ ReconcileSubmitted
    \/ StartServing
    \/ \E o \in Ops : SendUserOperation(o)
    \/ LoopStep
    \/ WatcherStep
    \/ PrunerStep
    \/ Crash
    \/ ChainStep
    \/ ClockStep

Spec == Init /\ [][Next]_vars

(* Every goroutine keeps being scheduled and its tickers keep firing, the  *)
(* supervisor restarts a dead process, and the chain mines what is at the  *)
(* head of the account's queue.  Clients, crashes and faults owe nothing.  *)
Fairness ==
    /\ WF_vars(Reconcile)
    /\ WF_vars(ReconcileSubmitted)
    /\ WF_vars(StartServing)
    /\ WF_vars(LoopStep)
    /\ WF_vars(WatcherStep)
    /\ WF_vars(MineStep)

(* Errors of the node are transient: a call that is repeated for ever is   *)
(* answered in the end.                                                    *)
EstimateAnswered == LoopStep /\ loopPc = "estimate" /\ loopPc' # "pending"
SubmitAnswered == LoopStep /\ loopPc = "send" /\ pendingNonce' # pendingNonce
ReceiptAnswered == WatcherStep /\ receipt = NoTx /\ receipt' # NoTx

RetriesSucceed ==
    /\ SF_vars(EstimateAnswered)
    /\ SF_vars(SubmitAnswered)
    /\ SF_vars(ReceiptAnswered)

FairSpec == Spec /\ Fairness /\ RetriesSucceed
=============================================================================
