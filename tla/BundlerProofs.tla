--------------------------- MODULE BundlerProofs ---------------------------
(***************************************************************************)
(* Proofs about Bundler for every set of operations, every choice of       *)
(* faults and every bound.                                                 *)
(***************************************************************************)
EXTENDS BundlerProperties, FiniteSetTheorems, TLAPS

USE DEF NoTx, NoIndex

(* A function on 1..n is a sequence of length n.                           *)
LEMMA FunctionIsSeq ==
    ASSUME NEW S, NEW n \in Nat, NEW f \in [1..n -> S]
    PROVE  f \in Seq(S) /\ Len(f) = n /\ DOMAIN f = 1..n
  OBVIOUS

(* The nonces a bundle spends of one account are counted by a natural.     *)
LEMMA SpentType ==
    ASSUME NEW b \in Seq(Ops), NEW s
    PROVE  Spent(b, s) \in Nat
<1>1. IsFiniteSet(1..Len(b))
  BY FS_Interval
<1>2. {i \in DOMAIN b : sender[b[i]] = s} \subseteq 1..Len(b)
  OBVIOUS
<1> QED
  BY <1>1, <1>2, FS_Subset, FS_CardinalityType DEF Spent

(* What GetPending returns is a non-empty sequence of distinct pending     *)
(* operations.                                                             *)
LEMMA GetPendingType ==
    ASSUME MempoolTypeOK, NEW b \in GetPending(MaxBundle)
    PROVE  /\ b \in Seq(Ops)
           /\ Len(b) > 0
           /\ \A i \in DOMAIN b : status[b[i]] = "pending"
           /\ \A i, j \in DOMAIN b : i # j => b[i] # b[j]
<1>1. PICK n \in 1..MaxBundle : b \in [1..n -> GetByStatus("pending")]
  BY DEF GetPending
<1>2. n \in Nat /\ n > 0
  BY MempoolAssumption
<1>3. b \in [1..n -> Ops]
  BY <1>1 DEF GetByStatus
<1>4. b \in Seq(Ops) /\ Len(b) = n /\ DOMAIN b = 1..n
  BY <1>2, <1>3, FunctionIsSeq
<1>5. \A i \in DOMAIN b : status[b[i]] = "pending"
  BY <1>1, <1>4 DEF GetByStatus
<1>6. \A i, j \in DOMAIN b : i # j => b[i] # b[j]
  BY DEF GetPending
<1> QED
  BY <1>2, <1>4, <1>5, <1>6

-----------------------------------------------------------------------------
(* Type correctness, component by component.                               *)

(* The table keeps its type under every call of the Repository.            *)
LEMMA UpdateStatusType ==
    ASSUME MempoolTypeOK, NEW o, NEW s \in Statuses,
           NEW tx \in Nat, NEW idx \in Nat \cup {NoIndex},
           TryUpdateStatus(o, s, tx, idx), UNCHANGED now
    PROVE  MempoolTypeOK'
<1>1. CASE UNCHANGED rows
  BY <1>1 DEF MempoolTypeOK, rows
<1>2. CASE UpdateStatus(o, s, tx, idx) /\ ~UNCHANGED rows
  BY <1>2 DEF UpdateStatus, MempoolTypeOK
<1> QED
  BY <1>1, <1>2 DEF TryUpdateStatus

(* One transaction changes state: the list stays a list of transactions.   *)
LEMMA StateChangeType ==
    ASSUME txs \in Seq(Tx), NEW t \in DOMAIN txs,
           NEW st \in {"pool", "success", "reverted", "dropped"},
           NEW ok \in SUBSET Ops
    PROVE  /\ [txs EXCEPT ![t] = InState(@, st, ok)] \in Seq(Tx)
           /\ Len([txs EXCEPT ![t] = InState(@, st, ok)]) = Len(txs)
<1>1. txs[t] \in Tx
  OBVIOUS
<1>2. InState(txs[t], st, ok) \in Tx
  BY <1>1 DEF InState, Tx
<1> QED
  BY <1>2

(* The list stays a list of transactions when the node accepts one more.   *)
LEMMA NodeAcceptsType ==
    ASSUME ChainTypeOK, NEW n \in Nat, NEW b \in Seq(Ops), NodeAccepts(n, b)
    PROVE  /\ ChainTypeOK'
           /\ Len(txs') = Len(txs) + 1
           /\ DOMAIN txs' = 1..(Len(txs) + 1)
<1>1. Len(txs) + 1 \in Nat
  BY DEF ChainTypeOK
<1>2. txs' \in [1..(Len(txs) + 1) -> Tx]
  <2>1. ASSUME NEW t \in 1..(Len(txs) + 1)
        PROVE  txs'[t] \in Tx
    <3>1. CASE t = Len(txs) + 1
      BY <3>1 DEF NodeAccepts, Tx
    <3>2. CASE t \in 1..Len(txs)
      <4>1. txs[t] \in Tx /\ t # Len(txs) + 1
        BY <3>2 DEF ChainTypeOK
      <4>2. InState(txs[t], "dropped", {}) \in Tx
        BY <4>1 DEF InState, Tx
      <4> QED
        BY <3>2, <4>1, <4>2 DEF NodeAccepts
    <3> QED
      BY <1>1, <3>1, <3>2 DEF ChainTypeOK
  <2> QED
    BY <2>1 DEF NodeAccepts
<1>3. txs' \in Seq(Tx) /\ Len(txs') = Len(txs) + 1 /\ DOMAIN txs' = 1..(Len(txs) + 1)
  BY <1>1, <1>2, FunctionIsSeq
<1> QED
  BY <1>3 DEF NodeAccepts, ChainTypeOK

(* Blocks, evictions and operations that stop validating keep the chain's  *)
(* type.                                                                   *)
LEMMA ChainNextType ==
    ASSUME ChainTypeOK, ChainNext
    PROVE  ChainTypeOK'
<1>1. ASSUME NEW t \in DOMAIN txs, MineSuccess(t)
      PROVE  ChainTypeOK'
  <2>0. txs[t] \in Tx
    BY DEF ChainTypeOK
  <2>1. txs[t].ops \in Seq(Ops)
    BY <2>0 DEF Tx
  <2>2. OpsOf(txs[t].ops) \subseteq Ops
    BY <2>1 DEF OpsOf
  <2>3. txs' \in Seq(Tx)
    BY <1>1, <2>2, StateChangeType DEF MineSuccess, ChainTypeOK
  <2>4. acctNonce' \in [Senders -> Nat]
    BY <1>1, <2>1, SpentType DEF MineSuccess, ChainTypeOK
  <2> QED
    BY <1>1, <2>3, <2>4 DEF MineSuccess, ChainTypeOK
<1>2. ASSUME NEW t \in DOMAIN txs, MineRevert(t)
      PROVE  ChainTypeOK'
  BY <1>2, StateChangeType DEF MineRevert, ChainTypeOK
<1>3. ASSUME NEW t \in DOMAIN txs, Drop(t)
      PROVE  ChainTypeOK'
  BY <1>3, StateChangeType DEF Drop, ChainTypeOK
<1>4. ASSUME NEW o \in Fragile, Invalidate(o)
      PROVE  ChainTypeOK'
  BY <1>4, ChainAssumption DEF Invalidate, ChainTypeOK
<1> QED
  BY <1>1, <1>2, <1>3, <1>4 DEF ChainNext, Mine

(* The state of the whole process has its type, initially ...              *)
LEMMA TypeInit == Init => TypeOK
  BY MempoolAssumption, BundlerAssumption
  DEF Init, TypeOK, MempoolInit, MempoolTypeOK, Statuses, Live, Terminal,
      ChainInit, ChainTypeOK, SignerInit, SignerTypeOK, LoopInit, LoopTypeOK,
      LoopPcs, WatcherInit, WatcherTypeOK

(* ... when a tick ends ...                                                *)
LEMMA LoopIdleType == LoopIdle => LoopTypeOK'
  BY DEF LoopIdle, LoopTypeOK, LoopPcs

(* ... after every step of the bundling loop ...                           *)
LEMMA TypeTick ==
    ASSUME TypeOK, Tick, UNCHANGED now
    PROVE  /\ MempoolTypeOK'
           /\ ChainTypeOK'
           /\ SignerTypeOK'
           /\ LoopTypeOK'
<1> USE DEF TypeOK
<1>1. CASE FetchPending
  <2>1. PICK b \in GetPending(MaxBundle) : batch' = b
    BY <1>1 DEF FetchPending
  <2>2. batch' \in Seq(Ops)
    BY <2>1, GetPendingType
  <2> QED
    BY <1>1, <2>2 DEF FetchPending, MempoolTypeOK, rows, ChainTypeOK, chainVars,
        SignerTypeOK, LoopTypeOK, LoopPcs
<1>2. CASE ClaimBatch
  <2>1. MempoolTypeOK'
    BY <1>2 DEF ClaimBatch, ClaimForBundling, MempoolTypeOK, Statuses, Live, rows
  <2>2. LoopTypeOK'
    <3>1. CASE GoTo("estimate")
      BY <3>1 DEF GoTo, LoopTypeOK, LoopPcs
    <3>2. CASE LoopIdle
      BY <3>2, LoopIdleType
    <3> QED
      BY <1>2, <3>1, <3>2 DEF ClaimBatch
  <2> QED
    BY <1>2, <2>1, <2>2 DEF ClaimBatch, ChainTypeOK, chainVars, SignerTypeOK
<1>3. CASE EstimateBundle
  BY <1>3 DEF EstimateBundle, GoTo, LoopTypeOK, LoopPcs, MempoolTypeOK, rows,
      ChainTypeOK, chainVars, SignerTypeOK
<1>4. CASE SubmitBundle
  <2>1. MempoolTypeOK'
    BY <1>4 DEF SubmitBundle, MempoolTypeOK, rows
  <2>2. batch \in Seq(Ops) /\ pendingNonce \in Nat
    BY DEF LoopTypeOK, SignerTypeOK
  <2>3. CASE SubmitAccepted(batch) /\ loopPc' = "submitted"
             /\ batchTx' = Len(txs') /\ UNCHANGED <<batch, marked>>
    <3>1. ChainTypeOK' /\ Len(txs') = Len(txs) + 1
      BY <2>2, <2>3, NodeAcceptsType DEF SubmitAccepted
    <3> QED
      BY <2>1, <2>2, <2>3, <3>1
      DEF SubmitAccepted, ChainTypeOK, SignerTypeOK, LoopTypeOK, LoopPcs
  <2>4. CASE SubmitLostReply(batch) /\ GoTo("pending")
    <3>1. ChainTypeOK'
      BY <2>2, <2>4, NodeAcceptsType DEF SubmitLostReply
    <3> QED
      BY <2>1, <2>4, <3>1 DEF SubmitLostReply, GoTo, SignerTypeOK, LoopTypeOK, LoopPcs
  <2>5. CASE SubmitStaleNonce(batch) /\ GoTo("pending")
    BY <2>1, <2>5 DEF SubmitStaleNonce, PendingNonceAt, GoTo, SignerTypeOK, LoopTypeOK,
        LoopPcs, ChainTypeOK, chainVars
  <2>6. CASE SubmitFailed(batch) /\ GoTo("pending")
    BY <2>1, <2>6 DEF SubmitFailed, GoTo, SignerTypeOK, LoopTypeOK, LoopPcs,
        ChainTypeOK, chainVars
  <2> QED
    BY <1>4, <2>3, <2>4, <2>5, <2>6 DEF SubmitBundle
<1>5. CASE MarkNext
  <2>1. loopPc \in Statuses /\ batchTx \in Nat /\ marked \in Nat
    BY <1>5 DEF MarkNext, Marking, Statuses, Live, Terminal, LoopTypeOK
  <2>2. MempoolTypeOK'
    BY <1>5, <2>1, UpdateStatusType DEF MarkNext
  <2>3. LoopTypeOK'
    <3>1. CASE marked' = marked + 1 /\ UNCHANGED <<loopPc, batch, batchTx>>
      BY <3>1 DEF LoopTypeOK
    <3>2. CASE LoopIdle
      BY <3>2, LoopIdleType
    <3> QED
      BY <1>5, <3>1, <3>2 DEF MarkNext
  <2> QED
    BY <1>5, <2>2, <2>3 DEF MarkNext, ChainTypeOK, chainVars, SignerTypeOK
<1> QED
  BY <1>1, <1>2, <1>3, <1>4, <1>5 DEF Tick

(* ... and after every step of the watcher or of Reconcile.                *)
LEMMA TypeWatch ==
    ASSUME TypeOK, TakeSnapshot \/ ApplySnapshot, UNCHANGED now
    PROVE  /\ MempoolTypeOK'
           /\ ChainTypeOK'
           /\ WatcherTypeOK'
<1> USE DEF TypeOK
<1>1. CASE TakeSnapshot
  <2>1. Submitted \subseteq Ops \X Nat
    <3>1. \A o \in Ops : bundleTxHash[o] \in Nat
      BY DEF MempoolTypeOK
    <3> QED
      BY <3>1 DEF Submitted, GetByStatus
  <2>2. WatcherTypeOK'
    BY <1>1, <2>1 DEF TakeSnapshot, WatcherTypeOK
  <2>3. MempoolTypeOK'
    BY <1>1 DEF TakeSnapshot, MempoolTypeOK, rows
  <2>4. ChainTypeOK'
    BY <1>1 DEF TakeSnapshot, ChainTypeOK, chainVars
  <2> QED
    BY <2>2, <2>3, <2>4
<1>2. ASSUME NEW t \in {p[2] : p \in seen}, FetchReceipt(t)
      PROVE  MempoolTypeOK' /\ ChainTypeOK' /\ WatcherTypeOK'
  BY <1>2 DEF FetchReceipt, MempoolTypeOK, rows, ChainTypeOK, chainVars, WatcherTypeOK
<1>3. ASSUME NEW p \in seen, SettleOp(p)
      PROVE  MempoolTypeOK' /\ ChainTypeOK' /\ WatcherTypeOK'
  <2>1. Verdict(p[1], receipt) \in Statuses
    BY DEF Verdict, HandleBundleRevert, Statuses, Live, Terminal
  <2>2. MempoolTypeOK'
    <3>1. CASE UNCHANGED rows
      BY <3>1 DEF MempoolTypeOK, rows
    <3>2. CASE TryUpdateStatus(p[1], Verdict(p[1], receipt), NoTx, NoIndex)
      BY <2>1, <3>2, UpdateStatusType
    <3> QED
      BY <1>3, <3>1, <3>2 DEF SettleOp
  <2> QED
    BY <1>3, <2>2 DEF SettleOp, ChainTypeOK, chainVars, WatcherTypeOK
<1> QED
  BY <1>1, <1>2, <1>3 DEF ApplySnapshot

(* Every step of the process, the chain and the clock keeps the types.     *)
LEMMA TypeNext == TypeOK /\ [Next]_vars => TypeOK'
<1> SUFFICES ASSUME TypeOK, [Next]_vars PROVE TypeOK'
  OBVIOUS
<1> USE DEF TypeOK
<1>1. CASE Reconcile
  BY <1>1 DEF Reconcile, ResetBundlingToPending, Submitted, GetByStatus, MempoolTypeOK,
      Statuses, Live, ChainTypeOK, chainVars, SignerTypeOK, LoopTypeOK, loopVars,
      WatcherTypeOK
<1>2. CASE ReconcileSubmitted
  BY <1>2, TypeWatch DEF ReconcileSubmitted, SignerTypeOK, LoopTypeOK, loopVars,
      processVars
<1>3. CASE StartServing
  BY <1>3 DEF StartServing, InitNonce, PendingNonceAt, MempoolTypeOK, mempoolVars, rows,
      ChainTypeOK, chainVars, SignerTypeOK, LoopTypeOK, loopVars, WatcherTypeOK,
      watcherVars
<1>4. ASSUME NEW o \in Ops, SendUserOperation(o) PROVE TypeOK'
  <2>1. MempoolTypeOK'
    BY <1>4, MempoolAssumption DEF SendUserOperation, Insert, NewRow, MempoolTypeOK, Statuses,
        Live
  <2> QED
    BY <1>4, <2>1 DEF SendUserOperation, ChainTypeOK, chainVars, SignerTypeOK, LoopTypeOK,
        loopVars, WatcherTypeOK, watcherVars, processVars
<1>5. CASE LoopStep
  BY <1>5, TypeTick DEF LoopStep, WatcherTypeOK, watcherVars, processVars
<1>6. CASE WatcherStep
  BY <1>6, TypeWatch DEF WatcherStep, SignerTypeOK, LoopTypeOK, loopVars, processVars
<1>7. CASE PrunerStep
  <2>1. MempoolTypeOK'
    BY <1>7, MempoolAssumption DEF PrunerStep, MarkTtlExpired, PruneHistory, MempoolTypeOK,
        rows, Statuses, Terminal
  <2> QED
    BY <1>7, <2>1 DEF PrunerStep, ChainTypeOK, chainVars, SignerTypeOK, LoopTypeOK,
        loopVars, WatcherTypeOK, watcherVars
<1>8. CASE Crash
  BY <1>8, BundlerAssumption DEF Crash, LoopIdle, MempoolTypeOK, mempoolVars, rows,
      ChainTypeOK, chainVars, SignerTypeOK, LoopTypeOK, LoopPcs, WatcherTypeOK
<1>9. CASE ChainStep
  BY <1>9, ChainNextType DEF ChainStep, MempoolTypeOK, mempoolVars, rows, SignerTypeOK,
      LoopTypeOK, loopVars, WatcherTypeOK, watcherVars, processVars
<1>10. CASE ClockStep
  <2>1. MempoolTypeOK'
    BY <1>10, MempoolAssumption DEF ClockStep, Advance, MempoolTypeOK, rows
  <2> QED
    BY <1>10, <2>1 DEF ClockStep, ChainTypeOK, chainVars, SignerTypeOK, LoopTypeOK, loopVars,
        WatcherTypeOK, watcherVars, processVars
<1>11. CASE UNCHANGED vars
  BY <1>11 DEF vars, MempoolTypeOK, mempoolVars, rows, ChainTypeOK, chainVars, SignerTypeOK,
      LoopTypeOK, loopVars, WatcherTypeOK, watcherVars, processVars
<1> QED
  BY <1>1, <1>2, <1>3, <1>4, <1>5, <1>6, <1>7, <1>8, <1>9, <1>10, <1>11 DEF Next

(* The tables, transactions and program counters of the whole process keep *)
(* their types, with any faults and any number of operations.              *)
THEOREM TypeCorrect == Spec => []TypeOK
  BY TypeInit, TypeNext, PTL DEF Spec

-----------------------------------------------------------------------------
(* The table alone, under a client that calls the Repository at will.      *)

(* Every call keeps the columns' types ...                                 *)
LEMMA MempoolTypeNext ==
    ASSUME MempoolTypeOK, [MempoolNext]_mempoolVars
    PROVE  MempoolTypeOK'
<1>1. ASSUME NEW o \in Ops, Insert(o), UNCHANGED now PROVE MempoolTypeOK'
  BY <1>1 DEF Insert, NewRow, MempoolTypeOK, Statuses, Live
<1>2. ASSUME NEW old \in Ops, NEW new \in Ops, Replace(old, new), UNCHANGED now
      PROVE  MempoolTypeOK'
  BY <1>2 DEF Replace, NewRow, MempoolTypeOK, Statuses, Live, Terminal
<1>3. ASSUME NEW S, ClaimForBundling(S), UNCHANGED now PROVE MempoolTypeOK'
  BY <1>3 DEF ClaimForBundling, MempoolTypeOK, Statuses, Live
<1>4. ASSUME NEW o \in Ops, NEW s \in Statuses, NEW tx \in {NoTx, 1}, NEW idx \in {NoIndex, 0},
             UpdateStatus(o, s, tx, idx), UNCHANGED now
      PROVE  MempoolTypeOK'
  <2>1. TryUpdateStatus(o, s, tx, idx)
    BY <1>4 DEF TryUpdateStatus
  <2>2. tx \in Nat /\ idx \in Nat \cup {NoIndex}
    BY DEF NoTx
  <2> QED
    BY <1>4, <2>1, <2>2, UpdateStatusType
<1>5. CASE ResetBundlingToPending /\ UNCHANGED now
  BY <1>5 DEF ResetBundlingToPending, MempoolTypeOK, Statuses, Live
<1>6. ASSUME NEW c, MarkTtlExpired(c), UNCHANGED now PROVE MempoolTypeOK'
  BY <1>6 DEF MarkTtlExpired, MempoolTypeOK, Statuses, Terminal
<1>7. ASSUME NEW c, PruneHistory(c), UNCHANGED now PROVE MempoolTypeOK'
  BY <1>7, MempoolAssumption DEF PruneHistory, MempoolTypeOK
<1>8. CASE Advance
  BY <1>8, MempoolAssumption DEF Advance, MempoolTypeOK, rows
<1>9. CASE UNCHANGED mempoolVars
  BY <1>9 DEF mempoolVars, MempoolTypeOK, rows
<1> QED
  BY <1>1, <1>2, <1>3, <1>4, <1>5, <1>6, <1>7, <1>8, <1>9
  DEF MempoolNext, RepositoryCall

(* ... and only a row inserted for a free slot, or for the slot that it    *)
(* takes over, is live without having been so.                             *)
LEMMA MempoolSlotsNext ==
    ASSUME MempoolTypeOK, LiveSlotUnique, [MempoolNext]_mempoolVars
    PROVE  LiveSlotUnique'
<1>1. ASSUME \A o \in Ops : status'[o] \in Live => status[o] \in Live PROVE LiveSlotUnique'
  BY <1>1 DEF LiveSlotUnique
<1>2. ASSUME NEW o \in Ops, SlotFree(o, {}), NEW s,
             status' = [status EXCEPT ![o] = s]
      PROVE  LiveSlotUnique'
  <2>1. \A p \in Ops \ {o} : status'[p] = status[p]
    BY <1>2 DEF MempoolTypeOK
  <2> QED
    BY <1>2, <2>1 DEF LiveSlotUnique, SlotFree, SameSlot
<1>3. ASSUME NEW old \in Ops, NEW new \in Ops, Replace(old, new) PROVE LiveSlotUnique'
  <2>1. /\ old # new /\ status'[old] = "replaced"
        /\ \A p \in Ops \ {old, new} : status'[p] = status[p]
        /\ SlotFree(new, {old})
    BY <1>3 DEF Replace, MempoolTypeOK
  <2>2. "replaced" \notin Live
    BY DEF Live
  <2> QED
    BY <2>1, <2>2 DEF LiveSlotUnique, SlotFree, SameSlot
<1>4. ASSUME NEW o \in Ops, Insert(o) PROVE LiveSlotUnique'
  BY <1>2, <1>4 DEF Insert
<1>5. ASSUME NEW o \in Ops, NEW s \in Statuses, NEW tx, NEW idx, UpdateStatus(o, s, tx, idx)
      PROVE  LiveSlotUnique'
  <2>1. CASE UNCHANGED rows
    BY <1>1, <2>1 DEF rows
  <2>2. CASE UpdateAccepted(o, s) /\ s \in Live
    BY <1>2, <1>5, <2>2 DEF UpdateAccepted, UpdateStatus
  <2>3. CASE UpdateAccepted(o, s) /\ s \notin Live
    BY <1>1, <1>5, <2>3 DEF UpdateStatus, MempoolTypeOK
  <2> QED
    BY <1>5, <2>1, <2>2, <2>3 DEF UpdateStatus
<1>6. ASSUME NEW S, ClaimForBundling(S) PROVE LiveSlotUnique'
  BY <1>1, <1>6 DEF ClaimForBundling, Live
<1>7. CASE ResetBundlingToPending
  BY <1>1, <1>7 DEF ResetBundlingToPending, Live
<1>8. ASSUME NEW c, MarkTtlExpired(c) \/ PruneHistory(c) PROVE LiveSlotUnique'
  BY <1>1, <1>8 DEF MarkTtlExpired, PruneHistory, Live
<1>9. CASE UNCHANGED rows
  BY <1>1, <1>9 DEF rows
<1> QED
  BY <1>3, <1>4, <1>5, <1>6, <1>7, <1>8, <1>9
  DEF MempoolNext, RepositoryCall, Advance, mempoolVars

(* The columns keep their types under any sequence of Repository calls.    *)
THEOREM MempoolTypeCorrect == MempoolSpec => []MempoolTypeOK
<1>1. MempoolInit => MempoolTypeOK
  BY MempoolAssumption DEF MempoolInit, MempoolTypeOK, Statuses
<1>2. MempoolTypeOK /\ [MempoolNext]_mempoolVars => MempoolTypeOK'
  BY MempoolTypeNext
<1> QED
  BY <1>1, <1>2, PTL DEF MempoolSpec

(* Under any sequence of Repository calls, Replace included, two rows that *)
(* are still worked on never share a sender and nonce.                     *)
THEOREM MempoolSlotsUnique == MempoolSpec => []LiveSlotUnique
<1>1. MempoolInit => MempoolTypeOK /\ LiveSlotUnique
  BY MempoolAssumption DEF MempoolInit, MempoolTypeOK, Statuses, LiveSlotUnique, Live
<1>2. (MempoolTypeOK /\ LiveSlotUnique) /\ [MempoolNext]_mempoolVars
        => (MempoolTypeOK /\ LiveSlotUnique)'
  BY MempoolTypeNext, MempoolSlotsNext
<1> QED
  BY <1>1, <1>2, PTL DEF MempoolSpec

-----------------------------------------------------------------------------
(***************************************************************************)
(* The safety of the composed system, proved from the invariant Inductive: *)
(* the loop owns what is bundling, the watcher owns what is submitted, so  *)
(* no unconditional UpdateStatus overwrites the work of another goroutine. *)
(* Steps of the chain only add transactions and settle pooled ones.        *)
(***************************************************************************)

(* Transactions are never forgotten, never change their operations, and    *)
(* once mined never change at all.                                         *)
ChainGrows ==
    /\ DOMAIN txs \subseteq DOMAIN txs'
    /\ \A t \in DOMAIN txs :
          /\ txs'[t].ops = txs[t].ops
          /\ txs[t].state \in {"success", "reverted"} => txs'[t] = txs[t]

(* A block, an eviction or an operation that stops validating.             *)
LEMMA ChainNextGrows ==
    ASSUME ChainTypeOK, ChainNext
    PROVE  ChainGrows
<1>1. ASSUME NEW t \in DOMAIN txs, NEW st, NEW ok, txs[t].state = "pool",
             txs' = [txs EXCEPT ![t] = InState(@, st, ok)]
      PROVE  ChainGrows
  BY <1>1 DEF ChainGrows, InState
<1>2. ASSUME UNCHANGED txs PROVE ChainGrows
  BY <1>2 DEF ChainGrows
<1> QED
  BY <1>1, <1>2 DEF ChainNext, Mine, MineSuccess, MineRevert, Drop, Invalidate, InPool

(* A transaction accepted by the node, a replacement included.             *)
LEMMA NodeAcceptsGrows ==
    ASSUME ChainTypeOK, NEW n \in Nat, NEW b \in Seq(Ops), NodeAccepts(n, b)
    PROVE  /\ ChainGrows
           /\ Len(txs') \in DOMAIN txs'
           /\ txs'[Len(txs')].ops = b
           /\ Len(txs') # NoTx
<1>1. Len(txs) \in Nat /\ DOMAIN txs = 1..Len(txs)
  BY DEF ChainTypeOK
<1>2. Len(txs') = Len(txs) + 1 /\ DOMAIN txs' = 1..(Len(txs) + 1)
  BY NodeAcceptsType
<1>3. txs'[Len(txs) + 1].ops = b
  BY <1>1 DEF NodeAccepts
<1>4. ASSUME NEW t \in DOMAIN txs
      PROVE  /\ txs'[t].ops = txs[t].ops
             /\ txs[t].state \in {"success", "reverted"} => txs'[t] = txs[t]
  <2>1. t \in 1..(Len(txs) + 1) /\ t # Len(txs) + 1
    BY <1>1, <1>4
  <2>2. CASE txs[t].state = "pool" /\ txs[t].nonce = n
    <3>1. txs'[t] = InState(txs[t], "dropped", {})
      BY <2>1, <2>2 DEF NodeAccepts
    <3> QED
      BY <2>2, <3>1 DEF InState
  <2>3. CASE ~(txs[t].state = "pool" /\ txs[t].nonce = n)
    BY <2>1, <2>3 DEF NodeAccepts
  <2> QED
    BY <2>2, <2>3
<1> QED
  BY <1>1, <1>2, <1>3, <1>4 DEF ChainGrows

(* The facts about rows and about the watcher survive any growth of the    *)
(* chain that leaves rows and snapshot alone.                              *)
LEMMA GrowthKeepsRows ==
    ASSUME Inductive, ChainGrows, UNCHANGED <<rows, watcherVars>>
    PROVE  /\ LiveSlotUnique'
           /\ SnapshotIsFresh'
           /\ SubmittedIsInItsTx'
           /\ ConfirmedWasExecuted'
           /\ receipt' # NoTx => Mined(receipt)'
<1> USE DEF Inductive, rows, watcherVars
<1>1. LiveSlotUnique'
  BY DEF LiveSlotUnique
<1>2. SnapshotIsFresh'
  BY DEF SnapshotIsFresh
<1>3. SubmittedIsInItsTx'
  BY DEF SubmittedIsInItsTx, ChainGrows
<1>4. ConfirmedWasExecuted'
  BY DEF ConfirmedWasExecuted, ChainGrows
<1>5. receipt' # NoTx => Mined(receipt)'
  BY DEF ProcessShape, Mined, ChainGrows
<1> QED
  BY <1>1, <1>2, <1>3, <1>4, <1>5

(* With nothing changed on the chain it has trivially grown.               *)
LEMMA StillGrows == UNCHANGED txs => ChainGrows
  BY DEF ChainGrows

(* The loop's facts survive what neither it nor its rows take part in.     *)
LEMMA LoopUndisturbed ==
    ASSUME Inductive, ChainGrows, UNCHANGED loopVars,
           \A o \in Ops : status[o] = "bundling" => status'[o] = "bundling"
    PROVE  BatchShape' /\ LoopOwnsBatch'
<1> USE DEF Inductive, loopVars
<1>1. BatchShape'
  BY DEF BatchShape, ChainGrows
<1>2. \A i \in DOMAIN batch : batch[i] \in Ops
  BY DEF TypeOK, LoopTypeOK
<1>3. LoopOwnsBatch'
  BY <1>2 DEF LoopOwnsBatch
<1> QED
  BY <1>1, <1>3

-----------------------------------------------------------------------------
(* The steps that write rows.                                              *)

(* A row is written to a status that is terminal, or was live before.      *)
LEMMA SlotsStayUnique ==
    ASSUME LiveSlotUnique,
           \A o \in Ops : status'[o] \in Live => status[o] \in Live
    PROVE  LiveSlotUnique'
  BY DEF LiveSlotUnique

(* eth_sendUserOperation adds a row for a free slot and touches no other.  *)
LEMMA InsertStep ==
    ASSUME Inductive, NEW o \in Ops, SendUserOperation(o)
    PROVE  Inductive'
<1> USE DEF Inductive
<1>1. Insert(o) /\ UNCHANGED <<chainVars, loopVars, watcherVars, phase>>
  BY DEF SendUserOperation, processVars
<1>2. /\ status[o] = "absent"
      /\ \A p \in Ops \ {o} : status'[p] = status[p]
                              /\ bundleTxHash'[p] = bundleTxHash[p]
                              /\ bundleIndex'[p] = bundleIndex[p]
      /\ status'[o] = "pending"
  BY <1>1 DEF Insert, NewRow, TypeOK, MempoolTypeOK
<1>3. TypeOK'
  BY TypeNext DEF Next
<1>4. ChainGrows
  BY <1>1, StillGrows DEF chainVars
<1>5. BatchShape' /\ LoopOwnsBatch'
  BY <1>1, <1>2, <1>4, LoopUndisturbed
<1>6. ProcessShape'
  BY <1>1 DEF ProcessShape, Mined, loopVars, watcherVars, chainVars
<1>7. LiveSlotUnique'
  BY <1>1, <1>2 DEF LiveSlotUnique, Insert, SlotFree, SameSlot
<1>8. SnapshotIsFresh'
  BY <1>1, <1>2 DEF SnapshotIsFresh, watcherVars, TypeOK, WatcherTypeOK
<1>9. SubmittedIsInItsTx'
  BY <1>1, <1>2 DEF SubmittedIsInItsTx, chainVars
<1>10. ConfirmedWasExecuted'
  BY <1>1, <1>2 DEF ConfirmedWasExecuted, chainVars
<1> QED
  BY <1>3, <1>5, <1>6, <1>7, <1>8, <1>9, <1>10

(* Startup releases bundling rows; no loop is left to own them.            *)
LEMMA ReconcileStep ==
    ASSUME Inductive, Reconcile
    PROVE  Inductive'
<1> USE DEF Inductive
<1>1. /\ phase = "down" /\ phase' = "reconcile"
      /\ seen' = Submitted'
      /\ UNCHANGED <<receipt, chainVars, loopVars, bundleTxHash, bundleIndex>>
  BY DEF Reconcile, ResetBundlingToPending
<1>2. \A o \in Ops : status'[o] = IF status[o] = "bundling" THEN "pending" ELSE status[o]
  BY DEF Reconcile, ResetBundlingToPending
<1>3. TypeOK'
  BY TypeNext DEF Next
<1>4. loopPc = "idle" /\ loopPc' = "idle"
  BY <1>1 DEF ProcessShape, loopVars
<1>5. BatchShape'
  BY <1>1, <1>4 DEF BatchShape, loopVars, chainVars, Marking
<1>6. LoopOwnsBatch'
  BY <1>4 DEF LoopOwnsBatch, Marking
<1>7. ProcessShape'
  BY <1>1, <1>4 DEF ProcessShape, Mined, chainVars
<1>8. LiveSlotUnique'
  BY <1>2, SlotsStayUnique DEF Live
<1>9. SnapshotIsFresh'
  BY <1>1, <1>2 DEF SnapshotIsFresh, Submitted, GetByStatus
<1>10. SubmittedIsInItsTx'
  BY <1>1, <1>2 DEF SubmittedIsInItsTx, chainVars
<1>11. ConfirmedWasExecuted'
  BY <1>1, <1>2 DEF ConfirmedWasExecuted, chainVars
<1> QED
  BY <1>3, <1>5, <1>6, <1>7, <1>8, <1>9, <1>10, <1>11

(* The pruner touches pending and terminal rows only, which nobody owns.   *)
LEMMA PrunerStepSafe ==
    ASSUME Inductive, PrunerStep
    PROVE  Inductive'
<1> USE DEF Inductive
<1>1. UNCHANGED <<chainVars, loopVars, watcherVars, phase>>
  BY DEF PrunerStep
<1>2. \A o \in Ops :
        \/ /\ status'[o] = status[o]
           /\ bundleTxHash'[o] = bundleTxHash[o]
           /\ bundleIndex'[o] = bundleIndex[o]
        \/ status[o] = "pending" /\ status'[o] = "failed"
        \/ status[o] \in Terminal /\ status'[o] = "absent"
  <2>1. CASE MarkTtlExpired(now - PendingTtl)
    BY <2>1 DEF MarkTtlExpired, Expired
  <2>2. CASE PruneHistory(now - Retention)
    BY <2>2 DEF PruneHistory, History, IsTerminal
  <2>3. CASE UNCHANGED rows
    BY <2>3 DEF rows
  <2> QED
    BY <2>1, <2>2, <2>3 DEF PrunerStep
<1>3. TypeOK'
  BY TypeNext DEF Next
<1>4. ChainGrows
  BY <1>1, StillGrows DEF chainVars
<1>5. BatchShape' /\ LoopOwnsBatch'
  BY <1>1, <1>2, <1>4, LoopUndisturbed DEF Terminal
<1>6. ProcessShape'
  BY <1>1 DEF ProcessShape, Mined, loopVars, watcherVars, chainVars
<1>7. LiveSlotUnique'
  BY <1>2, SlotsStayUnique DEF Live, Terminal
<1>8. SnapshotIsFresh'
  BY <1>1, <1>2 DEF SnapshotIsFresh, watcherVars, TypeOK, WatcherTypeOK, Terminal
<1>9. SubmittedIsInItsTx'
  BY <1>1, <1>2 DEF SubmittedIsInItsTx, chainVars
<1>10. ConfirmedWasExecuted'
  BY <1>1, <1>2 DEF ConfirmedWasExecuted, chainVars
<1> QED
  BY <1>3, <1>5, <1>6, <1>7, <1>8, <1>9, <1>10

-----------------------------------------------------------------------------
(* The bundling loop.                                                      *)

(* A tick ends: nothing is owned any more.                                 *)
LEMMA IdleShape == LoopIdle => BatchShape' /\ LoopOwnsBatch'
  BY DEF LoopIdle, BatchShape, LoopOwnsBatch, Marking

(* What any step of the loop leaves alone outside itself and its rows.     *)
LEMMA ProcessUndisturbed ==
    ASSUME Inductive, phase = "running", UNCHANGED <<watcherVars, phase>>,
           receipt' # NoTx => Mined(receipt)'
    PROVE  ProcessShape'
  BY DEF ProcessShape, watcherVars

(* Selecting a batch claims nothing.                                       *)
LEMMA FetchStep ==
    ASSUME Inductive, LoopStep, FetchPending
    PROVE  Inductive'
<1> USE DEF Inductive
<1>1. TypeOK'
  BY TypeNext DEF Next
<1>2. /\ phase = "running"
      /\ loopPc = "idle" /\ loopPc' = "claim"
      /\ UNCHANGED <<marked, batchTx, rows, chainVars, watcherVars, phase>>
  BY DEF LoopStep, FetchPending, processVars
<1>3. PICK b \in GetPending(MaxBundle) : batch' = b
  BY DEF FetchPending
<1>4. Len(b) > 0 /\ \A i, j \in DOMAIN b : i # j => b[i] # b[j]
  BY <1>3, GetPendingType DEF TypeOK
<1>5. marked = 0 /\ batchTx = NoTx
  BY <1>2 DEF BatchShape, Marking
<1>6. BatchShape'
  BY <1>2, <1>3, <1>4, <1>5 DEF BatchShape, Marking
<1>7. LoopOwnsBatch'
  BY <1>2 DEF LoopOwnsBatch, Marking
<1>8. ChainGrows
  BY <1>2, StillGrows DEF chainVars
<1> QED
  BY <1>1, <1>2, <1>6, <1>7, <1>8, GrowthKeepsRows, ProcessUndisturbed

(* The claim turns pending rows, which nobody owns, into the loop's own.   *)
LEMMA ClaimStep ==
    ASSUME Inductive, LoopStep, ClaimBatch
    PROVE  Inductive'
<1> USE DEF Inductive
<1>1. TypeOK'
  BY TypeNext, Zenon DEF Next, LoopStep
<1>2. /\ phase = "running" /\ loopPc = "claim"
      /\ UNCHANGED <<chainVars, watcherVars, phase>>
  BY DEF LoopStep, ClaimBatch, processVars
<1>3. ChainGrows
  BY <1>2, StillGrows DEF chainVars
<1>4. CASE LoopIdle /\ UNCHANGED rows
  BY <1>1, <1>2, <1>3, <1>4, IdleShape, GrowthKeepsRows, ProcessUndisturbed
<1>5. CASE ClaimForBundling(OpsOf(batch)) /\ GoTo("estimate")
  <2>1. /\ loopPc' = "estimate"
        /\ UNCHANGED <<batch, marked, batchTx, bundleTxHash, bundleIndex>>
    BY <1>5 DEF GoTo, ClaimForBundling
  <2>2. \A o \in OpsOf(batch) : status[o] = "pending"
    BY <1>5 DEF ClaimForBundling
  <2>3. \A o \in Ops : status'[o] = IF o \in OpsOf(batch) THEN "bundling" ELSE status[o]
    BY <1>5 DEF ClaimForBundling
  <2>4. \A i \in DOMAIN batch : batch[i] \in Ops /\ batch[i] \in OpsOf(batch)
    BY DEF OpsOf, TypeOK, LoopTypeOK
  <2>5. BatchShape'
    BY <1>2, <2>1 DEF BatchShape, Marking, chainVars
  <2>6. LoopOwnsBatch'
    BY <2>1, <2>3, <2>4 DEF LoopOwnsBatch
  <2>7. ProcessShape'
    BY <1>2 DEF ProcessShape, Mined, watcherVars, chainVars
  <2>8. LiveSlotUnique'
    BY <2>2, <2>3, SlotsStayUnique DEF Live
  <2>9. SnapshotIsFresh'
    BY <1>2, <2>1, <2>2, <2>3 DEF SnapshotIsFresh, watcherVars, TypeOK, WatcherTypeOK
  <2>10. SubmittedIsInItsTx'
    BY <1>2, <2>1, <2>3 DEF SubmittedIsInItsTx, chainVars
  <2>11. ConfirmedWasExecuted'
    BY <1>2, <2>1, <2>3 DEF ConfirmedWasExecuted, chainVars
  <2> QED
    BY <1>1, <2>5, <2>6, <2>7, <2>8, <2>9, <2>10, <2>11
<1> QED
  BY <1>4, <1>5 DEF ClaimBatch

(* From a step of the loop to the next, the claim is handed on whole.      *)
LEMMA HandOn ==
    ASSUME Inductive, loopPc \in {"estimate", "send"},
           NEW pc \in {"send", "pending", "failed"}, GoTo(pc), UNCHANGED rows
    PROVE  BatchShape' /\ LoopOwnsBatch'
<1>1. BatchShape'
  BY DEF Inductive, BatchShape, GoTo, Marking
<1>2. LoopOwnsBatch'
  BY DEF Inductive, LoopOwnsBatch, GoTo, Marking, rows
<1> QED
  BY <1>1, <1>2

(* The estimate only decides where the claim goes.                         *)
LEMMA EstimateStep ==
    ASSUME Inductive, LoopStep, EstimateBundle
    PROVE  Inductive'
<1> USE DEF Inductive
<1>1. TypeOK'
  BY TypeNext, Zenon DEF Next, LoopStep
<1>2. /\ phase = "running" /\ loopPc = "estimate"
      /\ UNCHANGED <<rows, chainVars, watcherVars, phase>>
  BY DEF LoopStep, EstimateBundle, processVars
<1>3. ChainGrows
  BY <1>2, StillGrows DEF chainVars
<1>4. GoTo("send") \/ GoTo("failed") \/ GoTo("pending")
  BY DEF EstimateBundle
<1>5. BatchShape' /\ LoopOwnsBatch'
  BY <1>2, <1>4, HandOn
<1> QED
  BY <1>1, <1>2, <1>3, <1>5, GrowthKeepsRows, ProcessUndisturbed

(* Sending adds at most one transaction, and the batch is what it carries. *)
LEMMA SubmitStep ==
    ASSUME Inductive, LoopStep, SubmitBundle
    PROVE  Inductive'
<1> USE DEF Inductive
<1>1. TypeOK'
  BY TypeNext, Zenon DEF Next, LoopStep
<1>2. /\ phase = "running" /\ loopPc = "send"
      /\ UNCHANGED <<rows, watcherVars, phase>>
  BY DEF LoopStep, SubmitBundle, processVars
<1>3. batch \in Seq(Ops) /\ pendingNonce \in Nat /\ ChainTypeOK
  BY DEF TypeOK, LoopTypeOK, SignerTypeOK
<1>4. CASE SubmitAccepted(batch) /\ loopPc' = "submitted"
           /\ batchTx' = Len(txs') /\ UNCHANGED <<batch, marked>>
  <2>1. /\ ChainGrows
        /\ batchTx' \in DOMAIN txs'
        /\ txs'[batchTx'].ops = batch
    BY <1>3, <1>4, NodeAcceptsGrows DEF SubmitAccepted
  <2>2. BatchShape'
    BY <1>2, <1>4, <2>1 DEF BatchShape, Marking
  <2>3. LoopOwnsBatch'
    BY <1>2, <1>4 DEF LoopOwnsBatch, rows
  <2> QED
    BY <1>1, <1>2, <2>1, <2>2, <2>3, GrowthKeepsRows, ProcessUndisturbed
<1>5. CASE (SubmitLostReply(batch) \/ SubmitStaleNonce(batch) \/ SubmitFailed(batch))
           /\ GoTo("pending")
  <2>1. ChainGrows
    <3>1. CASE SubmitLostReply(batch)
      BY <1>3, <3>1, NodeAcceptsGrows DEF SubmitLostReply
    <3>2. CASE UNCHANGED chainVars
      BY <3>2, StillGrows DEF chainVars
    <3> QED
      BY <1>5, <3>1, <3>2 DEF SubmitStaleNonce, SubmitFailed
  <2>2. BatchShape' /\ LoopOwnsBatch'
    BY <1>2, <1>5, HandOn
  <2> QED
    BY <1>1, <1>2, <2>1, <2>2, GrowthKeepsRows, ProcessUndisturbed
<1> QED
  BY <1>4, <1>5 DEF SubmitBundle

(* UpdateStatus writes one row at most.                                    *)
LEMMA UpdateTouchesOneRow ==
    ASSUME MempoolTypeOK, NEW o \in Ops, NEW s, NEW tx, NEW idx,
           TryUpdateStatus(o, s, tx, idx)
    PROVE  \/ UNCHANGED rows
           \/ /\ \A p \in Ops \ {o} : /\ status'[p] = status[p]
                                      /\ bundleTxHash'[p] = bundleTxHash[p]
                                      /\ bundleIndex'[p] = bundleIndex[p]
              /\ status'[o] = s
              /\ bundleTxHash'[o] = IF tx = NoTx THEN bundleTxHash[o] ELSE tx
              /\ bundleIndex'[o] = IF idx = NoIndex THEN bundleIndex[o] ELSE idx
  BY DEF TryUpdateStatus, UpdateStatus, MempoolTypeOK

(* Every write of the loop goes to a row it owns; the others stay owned.   *)
LEMMA MarkStep ==
    ASSUME Inductive, LoopStep, MarkNext
    PROVE  Inductive'
<1> USE DEF Inductive
<1>1. TypeOK'
  BY TypeNext, Zenon DEF Next, LoopStep
<1>2. /\ phase = "running" /\ loopPc \in Marking
      /\ UNCHANGED <<chainVars, watcherVars, phase>>
  BY DEF LoopStep, MarkNext, processVars
<1>3. ChainGrows
  BY <1>2, StillGrows DEF chainVars
<1> DEFINE o == batch[marked + 1]
<1>4. /\ batch \in Seq(Ops) /\ marked \in Nat /\ batchTx \in Nat
      /\ loopPc # "idle" /\ marked < Len(batch)
      /\ \A i, j \in DOMAIN batch : i # j => batch[i] # batch[j]
  BY <1>2 DEF TypeOK, LoopTypeOK, BatchShape, Marking
<1>5. marked + 1 \in DOMAIN batch /\ o \in Ops
  BY <1>4
<1>6. status[o] = "bundling"
  BY <1>2, <1>4, <1>5 DEF LoopOwnsBatch
<1>7. TryUpdateStatus(o, loopPc, batchTx, IF batchTx = NoTx THEN NoIndex ELSE marked)
  BY DEF MarkNext
<1>8. \/ LoopIdle
      \/ marked + 1 # Len(batch) /\ marked' = marked + 1 /\ UNCHANGED <<loopPc, batch, batchTx>>
  BY DEF MarkNext
<1>9. CASE UNCHANGED rows
  <2>1. BatchShape' /\ LoopOwnsBatch'
    <3>1. CASE marked + 1 # Len(batch) /\ marked' = marked + 1
               /\ UNCHANGED <<loopPc, batch, batchTx>>
      <4>1. BatchShape'
        BY <1>2, <1>4, <3>1 DEF BatchShape, chainVars
      <4>2. LoopOwnsBatch'
        BY <1>4, <1>9, <3>1 DEF LoopOwnsBatch, rows
      <4> QED
        BY <4>1, <4>2
    <3> QED
      BY <1>8, <3>1, IdleShape
  <2> QED
    BY <1>1, <1>2, <1>3, <1>9, <2>1, GrowthKeepsRows, ProcessUndisturbed
<1>10. CASE ~UNCHANGED rows
  <2> DEFINE idx == IF batchTx = NoTx THEN NoIndex ELSE marked
  <2>1. /\ \A p \in Ops \ {o} : /\ status'[p] = status[p]
                                /\ bundleTxHash'[p] = bundleTxHash[p]
                                /\ bundleIndex'[p] = bundleIndex[p]
        /\ status'[o] = loopPc
        /\ bundleTxHash'[o] = IF batchTx = NoTx THEN bundleTxHash[o] ELSE batchTx
        /\ bundleIndex'[o] = IF idx = NoIndex THEN bundleIndex[o] ELSE idx
    <3>1. TryUpdateStatus(o, loopPc, batchTx, idx) /\ MempoolTypeOK
      BY <1>7 DEF TypeOK
    <3> HIDE DEF o, idx
    <3> QED
      BY <1>5, <1>10, <3>1, UpdateTouchesOneRow
  <2>2. BatchShape' /\ LoopOwnsBatch'
    <3>1. CASE marked + 1 # Len(batch) /\ marked' = marked + 1
               /\ UNCHANGED <<loopPc, batch, batchTx>>
      <4>1. BatchShape'
        BY <1>2, <1>4, <3>1 DEF BatchShape, chainVars
      <4>2. ASSUME NEW i \in DOMAIN batch, i > marked + 1
            PROVE  status'[batch[i]] = "bundling"
        <5>1. batch[i] \in Ops \ {o} /\ i > marked
          BY <1>4, <1>5, <4>2
        <5>2. status[batch[i]] = "bundling"
          BY <1>2, <4>2, <5>1 DEF LoopOwnsBatch
        <5> QED
          BY <2>1, <5>1, <5>2
      <4>3. LoopOwnsBatch'
        BY <3>1, <4>2 DEF LoopOwnsBatch
      <4> QED
        BY <4>1, <4>3
    <3> QED
      BY <1>8, <3>1, IdleShape
  <2>3. ProcessShape'
    BY <1>2 DEF ProcessShape, Mined, watcherVars, chainVars
  <2>4. LiveSlotUnique'
    <3>1. \A p \in Ops : status'[p] \in Live => status[p] \in Live
      BY <1>5, <1>6, <2>1 DEF Live
    <3> QED
      BY <3>1, SlotsStayUnique
  <2>5. SnapshotIsFresh'
    <3>1. ASSUME NEW p \in seen PROVE p[1] \in Ops \ {o}
      BY <1>6, <3>1 DEF SnapshotIsFresh, TypeOK, WatcherTypeOK
    <3> QED
      BY <1>2, <2>1, <3>1 DEF SnapshotIsFresh, watcherVars
  <2>6. SubmittedIsInItsTx'
    <3>1. CASE loopPc = "submitted"
      <4>1. batchTx \in DOMAIN txs /\ txs[batchTx].ops = batch /\ batchTx # NoTx
        BY <3>1 DEF BatchShape, TypeOK, ChainTypeOK
      <4>2. idx = marked /\ idx # NoIndex
        BY <1>4, <4>1
      <4>3. bundleTxHash'[o] = batchTx /\ bundleIndex'[o] = marked
        BY <2>1, <4>1, <4>2
      <4> QED
        BY <1>2, <1>4, <1>5, <2>1, <4>1, <4>3 DEF SubmittedIsInItsTx, chainVars
    <3>2. CASE loopPc # "submitted"
      BY <1>2, <2>1, <3>2 DEF SubmittedIsInItsTx, chainVars
    <3> QED
      BY <3>1, <3>2
  <2>7. ConfirmedWasExecuted'
    BY <1>2, <2>1 DEF ConfirmedWasExecuted, chainVars, Marking
  <2> QED
    BY <1>1, <2>2, <2>3, <2>4, <2>5, <2>6, <2>7
<1> QED
  BY <1>9, <1>10

-----------------------------------------------------------------------------
(* The receipt watcher, and Reconcile going through its snapshot.          *)

(* Every write goes to a submitted row of the transaction whose receipt is *)
(* at hand, and a confirmation is backed by that receipt.                  *)
LEMMA WatchStep ==
    ASSUME Inductive, TypeOK', phase # "down", TakeSnapshot \/ ApplySnapshot,
           UNCHANGED <<loopVars, phase>>
    PROVE  Inductive'
<1> USE DEF Inductive
<1>1. CASE TakeSnapshot
  <2>1. seen' = Submitted /\ UNCHANGED <<receipt, rows, chainVars>>
    BY <1>1 DEF TakeSnapshot
  <2>2. BatchShape' /\ LoopOwnsBatch'
    BY <2>1, StillGrows, LoopUndisturbed DEF rows, chainVars
  <2>3. ProcessShape'
    BY <2>1 DEF ProcessShape, Mined, loopVars, chainVars
  <2>4. SnapshotIsFresh'
    BY <2>1 DEF SnapshotIsFresh, Submitted, GetByStatus, rows
  <2>5. LiveSlotUnique' /\ SubmittedIsInItsTx' /\ ConfirmedWasExecuted'
    BY <2>1 DEF LiveSlotUnique, SubmittedIsInItsTx, ConfirmedWasExecuted, rows, chainVars
  <2> QED
    BY <2>2, <2>3, <2>4, <2>5
<1>2. ASSUME NEW t \in {p[2] : p \in seen}, FetchReceipt(t)
      PROVE  Inductive'
  <2>1. UNCHANGED <<rows, chainVars>> /\ seen' \subseteq seen
    BY <1>2 DEF FetchReceipt
  <2>2. BatchShape' /\ LoopOwnsBatch'
    BY <2>1, StillGrows, LoopUndisturbed DEF rows, chainVars
  <2>3. ProcessShape'
    BY <1>2, <2>1 DEF FetchReceipt, ProcessShape, Mined, loopVars, chainVars
  <2>4. SnapshotIsFresh'
    BY <2>1 DEF SnapshotIsFresh, rows
  <2>5. LiveSlotUnique' /\ SubmittedIsInItsTx' /\ ConfirmedWasExecuted'
    BY <2>1 DEF LiveSlotUnique, SubmittedIsInItsTx, ConfirmedWasExecuted, rows, chainVars
  <2> QED
    BY <2>2, <2>3, <2>4, <2>5
<1>3. ASSUME NEW p \in seen, SettleOp(p)
      PROVE  Inductive'
  <2> DEFINE o == p[1]
  <2> DEFINE s == Verdict(o, receipt)
  <2>1. /\ UNCHANGED chainVars /\ seen' = seen \ {p}
        /\ receipt # NoTx /\ receipt' \in {receipt, NoTx} /\ p[2] = receipt
    BY <1>3 DEF SettleOp, GroupOf
  <2>2. o \in Ops /\ status[o] = "submitted" /\ bundleTxHash[o] = receipt
    BY <2>1 DEF SnapshotIsFresh, TypeOK, WatcherTypeOK
  <2>3. Mined(receipt) /\ receipt \in DOMAIN txs
    BY <2>1 DEF ProcessShape, Mined
  <2>4. ProcessShape'
    BY <2>1, <2>3 DEF ProcessShape, Mined, loopVars, chainVars
  <2>5. CASE UNCHANGED rows
    <3>1. BatchShape' /\ LoopOwnsBatch'
      BY <2>1, <2>5, StillGrows, LoopUndisturbed DEF rows, chainVars
    <3>2. SnapshotIsFresh'
      BY <2>1, <2>5 DEF SnapshotIsFresh, rows
    <3>3. LiveSlotUnique' /\ SubmittedIsInItsTx' /\ ConfirmedWasExecuted'
      BY <2>1, <2>5 DEF LiveSlotUnique, SubmittedIsInItsTx, ConfirmedWasExecuted, rows, chainVars
    <3> QED
      BY <2>4, <3>1, <3>2, <3>3
  <2>6. CASE ~UNCHANGED rows
    <3>1. TryUpdateStatus(o, s, NoTx, NoIndex)
      BY <1>3, <2>6 DEF SettleOp
    <3>2. /\ \A q \in Ops \ {o} : /\ status'[q] = status[q]
                                  /\ bundleTxHash'[q] = bundleTxHash[q]
                                  /\ bundleIndex'[q] = bundleIndex[q]
          /\ status'[o] = s
          /\ bundleTxHash'[o] = bundleTxHash[o]
      <4> HIDE DEF o, s
      <4> QED
        BY <2>2, <2>6, <3>1, UpdateTouchesOneRow DEF TypeOK
    <3>3. s \in {"pending", "confirmed", "failed"}
      BY DEF Verdict, HandleBundleRevert
    <3>4. s = "confirmed" => txs[receipt].state = "success" /\ o \in txs[receipt].ok
      BY <2>3 DEF Verdict, HandleBundleRevert, Mined
    <3> HIDE DEF o, s
    <3>5. BatchShape' /\ LoopOwnsBatch'
      BY <2>1, <2>2, <3>2, StillGrows, LoopUndisturbed DEF chainVars
    <3>6. LiveSlotUnique'
      <4>1. \A q \in Ops : status'[q] \in Live => status[q] \in Live
        BY <2>2, <3>2 DEF Live
      <4> QED
        BY <4>1, SlotsStayUnique
    <3>7. SnapshotIsFresh'
      <4>1. ASSUME NEW q \in seen, q # p PROVE q[1] \in Ops \ {o}
        <5>1. /\ q \in Ops \X Nat /\ p \in Ops \X Nat
              /\ bundleTxHash[q[1]] = q[2] /\ bundleTxHash[p[1]] = p[2]
          BY <4>1 DEF SnapshotIsFresh, TypeOK, WatcherTypeOK
        <5> QED
          BY <4>1, <5>1 DEF o
      <4> QED
        BY <2>1, <3>2, <4>1 DEF SnapshotIsFresh
    <3>8. SubmittedIsInItsTx'
      BY <2>1, <3>2, <3>3 DEF SubmittedIsInItsTx, chainVars
    <3>9. ConfirmedWasExecuted'
      BY <2>1, <2>2, <2>3, <3>2, <3>4 DEF ConfirmedWasExecuted, chainVars
    <3> QED
      BY <2>4, <3>5, <3>6, <3>7, <3>8, <3>9
  <2> QED
    BY <2>5, <2>6
<1> QED
  BY <1>1, <1>2, <1>3 DEF ApplySnapshot

-----------------------------------------------------------------------------
(* The whole system.                                                       *)

(* Nothing is stored, claimed or sent at first.                            *)
LEMMA InductiveInit == Init => Inductive
  BY TypeInit
  DEF Init, Inductive, MempoolInit, ChainInit, LoopInit, WatcherInit, BatchShape,
      ProcessShape, LiveSlotUnique, LoopOwnsBatch, SnapshotIsFresh, SubmittedIsInItsTx,
      ConfirmedWasExecuted, Marking, Live

(* Starting to serve, a crash, a block and the clock write no row.         *)
LEMMA QuietStep ==
    ASSUME Inductive, StartServing \/ Crash \/ ChainStep \/ ClockStep
    PROVE  Inductive'
<1> USE DEF Inductive
<1>1. TypeOK'
  BY TypeNext DEF Next
<1>2. UNCHANGED rows
  BY DEF StartServing, Crash, ChainStep, ClockStep, Advance, mempoolVars
<1>3. ChainGrows
  <2>1. CASE ChainStep
    BY <2>1, ChainNextGrows DEF ChainStep, TypeOK
  <2>2. CASE UNCHANGED chainVars
    BY <2>2, StillGrows DEF chainVars
  <2> QED
    BY <2>1, <2>2 DEF StartServing, Crash, ClockStep
<1>4. CASE Crash
  <2>1. LoopIdle /\ seen' = {} /\ receipt' = NoTx /\ UNCHANGED txs
    BY <1>4 DEF Crash, chainVars
  <2>2. BatchShape' /\ LoopOwnsBatch'
    BY <2>1, IdleShape
  <2>3. ProcessShape' /\ SnapshotIsFresh'
    BY <2>1 DEF ProcessShape, SnapshotIsFresh, LoopIdle
  <2>4. LiveSlotUnique' /\ SubmittedIsInItsTx' /\ ConfirmedWasExecuted'
    BY <1>2, <2>1 DEF LiveSlotUnique, SubmittedIsInItsTx, ConfirmedWasExecuted, rows
  <2> QED
    BY <1>1, <2>2, <2>3, <2>4
<1>5. CASE StartServing \/ ChainStep \/ ClockStep
  <2>1. UNCHANGED <<loopVars, watcherVars>>
    BY <1>5 DEF StartServing, ChainStep, ClockStep
  <2>2. BatchShape' /\ LoopOwnsBatch'
    BY <1>2, <1>3, <2>1, LoopUndisturbed DEF rows
  <2>3. /\ LiveSlotUnique' /\ SnapshotIsFresh' /\ SubmittedIsInItsTx'
        /\ ConfirmedWasExecuted' /\ (receipt' # NoTx => Mined(receipt)')
    BY <1>2, <1>3, <2>1, GrowthKeepsRows
  <2>4. ProcessShape'
    <3>1. CASE phase' = phase
      BY <2>1, <2>3, <3>1 DEF ProcessShape, loopVars, watcherVars
    <3>2. CASE phase' = "running"
      BY <2>3, <3>2 DEF ProcessShape
    <3> QED
      BY <1>5, <3>1, <3>2 DEF StartServing, ChainStep, ClockStep, processVars
  <2> QED
    BY <1>1, <2>2, <2>3, <2>4
<1> QED
  BY <1>4, <1>5

(* Every step preserves the invariant.                                     *)
LEMMA InductiveNext == Inductive /\ [Next]_vars => Inductive'
<1> SUFFICES ASSUME Inductive, [Next]_vars PROVE Inductive'
  OBVIOUS
<1>1. TypeOK'
  BY TypeNext DEF Inductive
<1>2. CASE Reconcile
  BY <1>2, ReconcileStep
<1>3. CASE ReconcileSubmitted
  <2>1. phase # "down" /\ ApplySnapshot /\ UNCHANGED <<loopVars, phase>>
    BY <1>3 DEF ReconcileSubmitted, processVars
  <2> QED
    BY <1>1, <2>1, WatchStep
<1>4. ASSUME NEW o \in Ops, SendUserOperation(o) PROVE Inductive'
  BY <1>4, InsertStep
<1>5. CASE LoopStep
  <2>1. FetchPending \/ ClaimBatch \/ EstimateBundle \/ SubmitBundle \/ MarkNext
    BY <1>5 DEF LoopStep, Tick
  <2> QED
    BY <1>5, <2>1, FetchStep, ClaimStep, EstimateStep, SubmitStep, MarkStep
<1>6. CASE WatcherStep
  <2>1. phase # "down" /\ (TakeSnapshot \/ ApplySnapshot) /\ UNCHANGED <<loopVars, phase>>
    BY <1>6 DEF WatcherStep, processVars
  <2> QED
    BY <1>1, <2>1, WatchStep
<1>7. CASE PrunerStep
  BY <1>7, PrunerStepSafe
<1>8. CASE StartServing \/ Crash \/ ChainStep \/ ClockStep
  BY <1>8, QuietStep
<1>9. CASE UNCHANGED vars
  <2>1. UNCHANGED <<rows, txs, loopVars, watcherVars, phase>>
    BY <1>9 DEF vars, mempoolVars, chainVars, processVars
  <2>2. BatchShape' /\ LoopOwnsBatch'
    BY <2>1, StillGrows, LoopUndisturbed DEF rows
  <2>3. ProcessShape'
    BY <2>1 DEF Inductive, ProcessShape, Mined, loopVars, watcherVars
  <2> QED
    BY <1>1, <2>1, <2>2, <2>3, StillGrows, GrowthKeepsRows DEF Inductive
<1> QED
  BY <1>2, <1>3, <1>4, <1>5, <1>6, <1>7, <1>8, <1>9 DEF Next

(* The invariant holds throughout.                                         *)
LEMMA InductiveAlways == Spec => []Inductive
  BY InductiveInit, InductiveNext, PTL DEF Spec

(* A confirmed row names a mined bundle in which its operation succeeded,  *)
(* whatever faults happened (ParseHandleOpsReceipt and the writes of the   *)
(* watcher and of Reconcile).                                              *)
THEOREM ConfirmedSafe == Spec => []ConfirmedWasExecuted
<1>1. Inductive => ConfirmedWasExecuted
  BY DEF Inductive
<1> QED
  BY <1>1, InductiveAlways, PTL

(* A submitted row names the transaction and the place that carry it.      *)
THEOREM SubmittedSafe == Spec => []SubmittedIsInItsTx
<1>1. Inductive => SubmittedIsInItsTx
  BY DEF Inductive
<1> QED
  BY <1>1, InductiveAlways, PTL

(* What the loop still has to write is bundling: no other goroutine came   *)
(* between its claim and its UpdateStatus.                                 *)
THEOREM LoopOwnership == Spec => []LoopOwnsBatch
<1>1. Inductive => LoopOwnsBatch
  BY DEF Inductive
<1> QED
  BY <1>1, InductiveAlways, PTL

(* The watcher's snapshot is never stale.                                  *)
THEOREM WatcherOwnership == Spec => []SnapshotIsFresh
<1>1. Inductive => SnapshotIsFresh
  BY DEF Inductive
<1> QED
  BY <1>1, InductiveAlways, PTL

(* Two live rows never share a sender and nonce.                           *)
THEOREM SlotsUnique == Spec => []LiveSlotUnique
<1>1. Inductive => LiveSlotUnique
  BY DEF Inductive
<1> QED
  BY <1>1, InductiveAlways, PTL

-----------------------------------------------------------------------------
(* Consequences of ownership.                                              *)

(* No UpdateStatus that the loop or the watcher is about to make is refused*)
(* by the primary key or by the unique index.                              *)
THEOREM NoUpdateRefused == Spec => []UpdatesAreAccepted
<1>1. Inductive => UpdatesAreAccepted
  <2> SUFFICES ASSUME Inductive PROVE UpdatesAreAccepted
    OBVIOUS
  <2>1. ASSUME NEW o \in Ops, status[o] \in Live, NEW s
        PROVE  UpdateAccepted(o, s)
    <3>1. SlotFree(o, {})
      BY <2>1 DEF Inductive, LiveSlotUnique, SlotFree
    <3> QED
      BY <2>1, <3>1 DEF UpdateAccepted, Live
  <2>2. ASSUME loopPc \in Marking, NEW i \in DOMAIN batch, i > marked
        PROVE  UpdateAccepted(batch[i], loopPc)
    <3>1. batch[i] \in Ops
      BY DEF Inductive, TypeOK, LoopTypeOK
    <3>2. status[batch[i]] = "bundling"
      BY <2>2 DEF Inductive, LoopOwnsBatch
    <3> QED
      BY <2>1, <3>1, <3>2 DEF Live
  <2>3. ASSUME NEW p \in GroupOf(receipt)
        PROVE  UpdateAccepted(p[1], Verdict(p[1], receipt))
    <3>1. p \in seen /\ p[1] \in Ops
      BY DEF GroupOf, Inductive, TypeOK, WatcherTypeOK
    <3>2. status[p[1]] = "submitted"
      BY <3>1 DEF Inductive, SnapshotIsFresh
    <3> QED
      BY <2>1, <3>1, <3>2 DEF Live
  <2> QED
    BY <2>2, <2>3 DEF UpdatesAreAccepted
<1> QED
  BY <1>1, InductiveAlways, PTL

(* What one step may do to a row with a verdict.                           *)
VerdictKept ==
    \A o \in Ops : IsTerminal(status[o]) => status'[o] \in {status[o], "absent"}

(* A step that writes no status keeps every verdict.                       *)
LEMMA KeptWhenUnchanged == UNCHANGED status => VerdictKept
  BY DEF VerdictKept

(* An update of a row that is still live keeps the verdicts of the others. *)
LEMMA KeptByUpdate ==
    ASSUME MempoolTypeOK, NEW o \in Ops, status[o] \in Live, NEW s, NEW tx, NEW idx,
           TryUpdateStatus(o, s, tx, idx)
    PROVE  VerdictKept
<1>1. CASE UNCHANGED rows
  BY <1>1, KeptWhenUnchanged DEF rows
<1>2. CASE \A p \in Ops \ {o} : status'[p] = status[p]
  BY <1>2 DEF VerdictKept, IsTerminal, Live, Terminal
<1> QED
  BY <1>1, <1>2, UpdateTouchesOneRow

(* The loop claims pending rows and writes the ones it owns.               *)
LEMMA KeptByLoop ==
    ASSUME Inductive, Tick
    PROVE  VerdictKept
<1>1. CASE FetchPending \/ EstimateBundle \/ SubmitBundle
  <2>1. UNCHANGED rows
    BY <1>1 DEF FetchPending, EstimateBundle, SubmitBundle
  <2> QED
    BY <2>1, KeptWhenUnchanged DEF rows
<1>2. CASE ClaimBatch
  <2>1. CASE UNCHANGED rows
    BY <2>1, KeptWhenUnchanged DEF rows
  <2>2. CASE ClaimForBundling(OpsOf(batch))
    BY <2>2 DEF ClaimForBundling, VerdictKept, IsTerminal, Terminal
  <2> QED
    BY <1>2, <2>1, <2>2 DEF ClaimBatch
<1>3. CASE MarkNext
  <2> DEFINE o == batch[marked + 1]
  <2> DEFINE idx == IF batchTx = NoTx THEN NoIndex ELSE marked
  <2>1. loopPc \in Marking /\ TryUpdateStatus(o, loopPc, batchTx, idx)
    BY <1>3 DEF MarkNext
  <2>2. batch \in Seq(Ops) /\ marked \in Nat /\ marked < Len(batch) /\ MempoolTypeOK
    BY <2>1 DEF Inductive, TypeOK, LoopTypeOK, BatchShape, Marking
  <2>3. marked + 1 \in DOMAIN batch /\ marked + 1 > marked /\ o \in Ops
    BY <2>2
  <2>4. status[o] \in Live
    BY <2>1, <2>3 DEF Inductive, LoopOwnsBatch, Live
  <2> HIDE DEF o, idx
  <2> QED
    BY <2>1, <2>2, <2>3, <2>4, KeptByUpdate
<1> QED
  BY <1>1, <1>2, <1>3 DEF Tick

(* The watcher and Reconcile write submitted rows.                         *)
LEMMA KeptByWatcher ==
    ASSUME Inductive, TakeSnapshot \/ ApplySnapshot
    PROVE  VerdictKept
<1>1. CASE UNCHANGED rows
  BY <1>1, KeptWhenUnchanged DEF rows
<1>2. ASSUME NEW p \in seen, SettleOp(p), ~UNCHANGED rows
      PROVE  VerdictKept
  <2>1. p[1] \in Ops /\ status[p[1]] \in Live /\ MempoolTypeOK
    BY DEF Inductive, TypeOK, WatcherTypeOK, SnapshotIsFresh, Live
  <2>2. TryUpdateStatus(p[1], Verdict(p[1], receipt), NoTx, NoIndex)
    BY <1>2 DEF SettleOp
  <2> QED
    BY <2>1, <2>2, KeptByUpdate
<1> QED
  BY <1>1, <1>2 DEF ApplySnapshot, TakeSnapshot, FetchReceipt

(* A verdict is final: a terminal row is only ever deleted.                *)
THEOREM VerdictsFinal == Spec => TerminalIsFinal
<1>1. Inductive /\ [Next]_vars => VerdictKept
  <2> SUFFICES ASSUME Inductive, [Next]_vars PROVE VerdictKept
    OBVIOUS
  <2>1. CASE Reconcile
    BY <2>1 DEF Reconcile, ResetBundlingToPending, VerdictKept, IsTerminal, Terminal
  <2>2. CASE ReconcileSubmitted \/ WatcherStep
    BY <2>2, KeptByWatcher DEF ReconcileSubmitted, WatcherStep
  <2>3. ASSUME NEW o \in Ops, SendUserOperation(o) PROVE VerdictKept
    BY <2>3 DEF SendUserOperation, Insert, VerdictKept, IsTerminal, Terminal,
        Inductive, TypeOK, MempoolTypeOK
  <2>4. CASE LoopStep
    BY <2>4, KeptByLoop DEF LoopStep
  <2>5. CASE PrunerStep
    BY <2>5 DEF PrunerStep, MarkTtlExpired, Expired, PruneHistory, rows, VerdictKept,
        IsTerminal, Terminal
  <2>6. CASE StartServing \/ Crash \/ ChainStep \/ ClockStep \/ UNCHANGED vars
    <3>1. UNCHANGED status
      BY <2>6 DEF StartServing, Crash, ChainStep, ClockStep, Advance, vars, mempoolVars, rows
    <3> QED
      BY <3>1, KeptWhenUnchanged
  <2> QED
    BY <2>1, <2>2, <2>3, <2>4, <2>5, <2>6 DEF Next
<1>2. Inductive /\ [Next]_vars =>
        [\A o \in Ops : IsTerminal(status[o]) => status'[o] \in {status[o], "absent"}]_vars
  BY <1>1 DEF VerdictKept
<1> QED
  BY <1>2, InductiveAlways, PTL DEF Spec, TerminalIsFinal

-----------------------------------------------------------------------------
(* What one step may do to a row that waits for its receipt.               *)
WaitKept ==
    \A o \in Ops : status[o] = "submitted" /\ status'[o] # "submitted" =>
        Mined(bundleTxHash[o])

(* A step that writes no status ends no wait.                              *)
LEMMA WaitWhenUnchanged == UNCHANGED status => WaitKept
  BY DEF WaitKept

(* An update of one row ends no wait but that row's, and only if it waited.*)
LEMMA WaitKeptByUpdate ==
    ASSUME MempoolTypeOK, NEW o \in Ops, NEW s, NEW tx, NEW idx,
           status[o] = "submitted" => Mined(bundleTxHash[o]),
           TryUpdateStatus(o, s, tx, idx)
    PROVE  WaitKept
<1>1. CASE UNCHANGED rows
  BY <1>1, WaitWhenUnchanged DEF rows
<1>2. CASE \A p \in Ops \ {o} : status'[p] = status[p]
  BY <1>2 DEF WaitKept
<1> QED
  BY <1>1, <1>2, UpdateTouchesOneRow

(* The loop claims pending rows and writes bundling ones: none waits.      *)
LEMMA WaitKeptByLoop ==
    ASSUME Inductive, Tick
    PROVE  WaitKept
<1>1. CASE FetchPending \/ EstimateBundle \/ SubmitBundle
  <2>1. UNCHANGED rows
    BY <1>1 DEF FetchPending, EstimateBundle, SubmitBundle
  <2> QED
    BY <2>1, WaitWhenUnchanged DEF rows
<1>2. CASE ClaimBatch
  <2>1. CASE UNCHANGED rows
    BY <2>1, WaitWhenUnchanged DEF rows
  <2>2. CASE ClaimForBundling(OpsOf(batch))
    BY <2>2 DEF ClaimForBundling, WaitKept
  <2> QED
    BY <1>2, <2>1, <2>2 DEF ClaimBatch
<1>3. CASE MarkNext
  <2> DEFINE o == batch[marked + 1]
  <2> DEFINE idx == IF batchTx = NoTx THEN NoIndex ELSE marked
  <2>1. loopPc \in Marking /\ TryUpdateStatus(o, loopPc, batchTx, idx)
    BY <1>3 DEF MarkNext
  <2>2. batch \in Seq(Ops) /\ marked \in Nat /\ marked < Len(batch) /\ MempoolTypeOK
    BY <2>1 DEF Inductive, TypeOK, LoopTypeOK, BatchShape, Marking
  <2>3. marked + 1 \in DOMAIN batch /\ marked + 1 > marked /\ o \in Ops
    BY <2>2
  <2>4. status[o] = "bundling"
    BY <2>1, <2>3 DEF Inductive, LoopOwnsBatch
  <2> HIDE DEF o, idx
  <2> QED
    BY <2>1, <2>2, <2>3, <2>4, WaitKeptByUpdate
<1> QED
  BY <1>1, <1>2, <1>3 DEF Tick

(* The watcher and Reconcile write the rows of a mined transaction, which  *)
(* is still the transaction that the row names.                            *)
LEMMA WaitKeptByWatcher ==
    ASSUME Inductive, TakeSnapshot \/ ApplySnapshot
    PROVE  WaitKept
<1>1. CASE UNCHANGED rows
  BY <1>1, WaitWhenUnchanged DEF rows
<1>2. ASSUME NEW p \in seen, SettleOp(p), ~UNCHANGED rows
      PROVE  WaitKept
  <2>1. p[1] \in Ops /\ MempoolTypeOK
    BY DEF Inductive, TypeOK, WatcherTypeOK
  <2>2. bundleTxHash[p[1]] = receipt /\ Mined(receipt)
    BY <1>2 DEF SettleOp, GroupOf, Inductive, SnapshotIsFresh, ProcessShape
  <2>3. TryUpdateStatus(p[1], Verdict(p[1], receipt), NoTx, NoIndex)
    BY <1>2 DEF SettleOp
  <2> QED
    BY <2>1, <2>2, <2>3, WaitKeptByUpdate
<1> QED
  BY <1>1, <1>2 DEF ApplySnapshot, TakeSnapshot, FetchReceipt

(* A row leaves submitted only when its own transaction is mined.          *)
THEOREM WaitsForReceipt == Spec => SubmittedUntilMined
<1>1. Inductive /\ [Next]_vars => WaitKept
  <2> SUFFICES ASSUME Inductive, [Next]_vars PROVE WaitKept
    OBVIOUS
  <2>1. CASE Reconcile
    BY <2>1 DEF Reconcile, ResetBundlingToPending, WaitKept
  <2>2. CASE ReconcileSubmitted \/ WatcherStep
    BY <2>2, WaitKeptByWatcher DEF ReconcileSubmitted, WatcherStep
  <2>3. ASSUME NEW o \in Ops, SendUserOperation(o) PROVE WaitKept
    BY <2>3 DEF SendUserOperation, Insert, WaitKept, Inductive, TypeOK, MempoolTypeOK
  <2>4. CASE LoopStep
    BY <2>4, WaitKeptByLoop DEF LoopStep
  <2>5. CASE PrunerStep
    BY <2>5 DEF PrunerStep, MarkTtlExpired, Expired, PruneHistory, History, rows, WaitKept,
        IsTerminal, Terminal
  <2>6. CASE StartServing \/ Crash \/ ChainStep \/ ClockStep \/ UNCHANGED vars
    <3>1. UNCHANGED status
      BY <2>6 DEF StartServing, Crash, ChainStep, ClockStep, Advance, vars, mempoolVars, rows
    <3> QED
      BY <3>1, WaitWhenUnchanged
  <2> QED
    BY <2>1, <2>2, <2>3, <2>4, <2>5, <2>6 DEF Next
<1>2. Inductive /\ [Next]_vars =>
        [\A o \in Ops : status[o] = "submitted" /\ status'[o] # "submitted" =>
            Mined(bundleTxHash[o])]_vars
  BY <1>1 DEF WaitKept
<1> QED
  BY <1>2, InductiveAlways, PTL DEF Spec, SubmittedUntilMined
=============================================================================
