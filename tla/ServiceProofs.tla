--------------------------- MODULE ServiceProofs ---------------------------
(***************************************************************************)
(* The process implements UserOpService: every step of Bundler, with any   *)
(* fault, is a step of the service its clients see, or none at all.  The   *)
(* invariant Inductive says whose rows a step writes; EffectsSpendNonces   *)
(* says that no operation takes effect twice.                              *)
(***************************************************************************)
EXTENDS BundlerProofs

USE DEF NoTx, NoIndex

-----------------------------------------------------------------------------
(* Counting the nonces that a bundle spends.                               *)

(* The operations in front of the i-th that are of the same account.       *)
Before(b, i) == {j \in 1..(i-1) : sender[b[j]] = sender[b[i]]}

(* They are finitely many, and fewer than all of the account's operations. *)
LEMMA BeforeIsLess ==
    ASSUME NEW b \in Seq(Ops), NEW i \in DOMAIN b
    PROVE  /\ IsFiniteSet(Before(b, i))
           /\ Cardinality(Before(b, i)) \in Nat
           /\ Cardinality(Before(b, i)) < Spent(b, sender[b[i]])
<1> DEFINE Own == {j \in DOMAIN b : sender[b[j]] = sender[b[i]]}
<1>1. i \in 1..Len(b) /\ DOMAIN b = 1..Len(b) /\ Len(b) \in Nat
  OBVIOUS
<1>2. IsFiniteSet(1..Len(b))
  BY <1>1, FS_Interval
<1>3. IsFiniteSet(Own) /\ Cardinality(Own) \in Nat
  BY <1>1, <1>2, FS_Subset, FS_CardinalityType
<1>4. Before(b, i) \cup {i} \in SUBSET Own /\ i \notin Before(b, i)
  BY <1>1 DEF Before
<1>5. IsFiniteSet(Before(b, i)) /\ Cardinality(Before(b, i)) \in Nat
  BY <1>3, <1>4, FS_Subset, FS_CardinalityType
<1>6. Cardinality(Before(b, i) \cup {i}) = Cardinality(Before(b, i)) + 1
  BY <1>4, <1>5, FS_AddElement
<1>7. Cardinality(Before(b, i) \cup {i}) <= Cardinality(Own)
  BY <1>3, <1>4, FS_Subset
<1> QED
  BY <1>3, <1>5, <1>6, <1>7 DEF Spent

(* Of two operations of one account the later one has more in front.       *)
LEMMA BeforeGrows ==
    ASSUME NEW b \in Seq(Ops), NEW i \in DOMAIN b, NEW j \in DOMAIN b, i < j,
           sender[b[i]] = sender[b[j]]
    PROVE  Cardinality(Before(b, i)) < Cardinality(Before(b, j))
<1>1. i \in 1..Len(b) /\ j \in 1..Len(b) /\ Len(b) \in Nat
  OBVIOUS
<1>2. Before(b, i) \cup {i} \in SUBSET Before(b, j) /\ i \notin Before(b, i)
  BY <1>1 DEF Before
<1>3. /\ IsFiniteSet(Before(b, i)) /\ Cardinality(Before(b, i)) \in Nat
      /\ IsFiniteSet(Before(b, j)) /\ Cardinality(Before(b, j)) \in Nat
  BY BeforeIsLess
<1>4. Cardinality(Before(b, i) \cup {i}) = Cardinality(Before(b, i)) + 1
  BY <1>2, <1>3, FS_AddElement
<1>5. Cardinality(Before(b, i) \cup {i}) <= Cardinality(Before(b, j))
  BY <1>2, <1>3, FS_Subset
<1> QED
  BY <1>3, <1>4, <1>5

(* In a bundle that validates, every nonce is at or above the account's,   *)
(* below what it will be afterwards, and no two operations share a slot.   *)
LEMMA ValidBundle ==
    ASSUME ChainTypeOK, NEW b \in Seq(Ops), BundleValid(b)
    PROVE  /\ \A o \in OpsOf(b) :
                 /\ acctNonce[sender[o]] <= nonce[o]
                 /\ nonce[o] < acctNonce[sender[o]] + Spent(b, sender[o])
           /\ \A o, p \in OpsOf(b) : SameSlot(o, p) => o = p
<1>1. ASSUME NEW i \in DOMAIN b
      PROVE  /\ b[i] \in Ops /\ acctNonce[sender[b[i]]] \in Nat
             /\ nonce[b[i]] = acctNonce[sender[b[i]]] + Cardinality(Before(b, i))
  <2>1. b[i] \in Ops /\ acctNonce[sender[b[i]]] \in Nat
    BY OpsAssumption DEF ChainTypeOK
  <2> QED
    BY <1>1, <2>1 DEF BundleValid, OpValid, Before
<1>2. ASSUME NEW o \in OpsOf(b)
      PROVE  /\ acctNonce[sender[o]] <= nonce[o]
             /\ nonce[o] < acctNonce[sender[o]] + Spent(b, sender[o])
  <2>1. PICK i \in DOMAIN b : o = b[i]
    BY DEF OpsOf
  <2>2. /\ Cardinality(Before(b, i)) \in Nat
        /\ Cardinality(Before(b, i)) < Spent(b, sender[b[i]])
        /\ Spent(b, sender[b[i]]) \in Nat
    BY BeforeIsLess, SpentType
  <2> QED
    BY <1>1, <2>1, <2>2
<1>3. ASSUME NEW o \in OpsOf(b), NEW p \in OpsOf(b), SameSlot(o, p)
      PROVE  o = p
  <2>1. PICK i \in DOMAIN b : o = b[i]
    BY DEF OpsOf
  <2>2. PICK j \in DOMAIN b : p = b[j]
    BY DEF OpsOf
  <2>3. sender[b[i]] = sender[b[j]] /\ nonce[b[i]] = nonce[b[j]]
    BY <1>3, <2>1, <2>2 DEF SameSlot
  <2>4. /\ Cardinality(Before(b, i)) \in Nat
        /\ Cardinality(Before(b, j)) \in Nat
    BY BeforeIsLess
  <2>5. Cardinality(Before(b, i)) = Cardinality(Before(b, j))
    BY <1>1, <2>3, <2>4
  <2>6. i \in Nat /\ j \in Nat
    OBVIOUS
  <2>7. ~(i < j) /\ ~(j < i)
    BY <2>3, <2>4, <2>5, BeforeGrows
  <2> QED
    BY <2>1, <2>2, <2>6, <2>7
<1> QED
  BY <1>2, <1>3

-----------------------------------------------------------------------------
(* What happens to the transactions.                                       *)

(* The node takes a bundle: a pooled rival is dropped, the others stay.    *)
LEMMA OneTxMore ==
    ASSUME ChainTypeOK, NEW n \in Nat, NEW b \in Seq(Ops), NodeAccepts(n, b)
    PROVE  /\ Len(txs) + 1 \notin DOMAIN txs
           /\ DOMAIN txs' = DOMAIN txs \cup {Len(txs) + 1}
           /\ txs'[Len(txs) + 1] = [nonce |-> n, ops |-> b, state |-> "pool", ok |-> {}]
           /\ \A u \in DOMAIN txs :
                 \/ txs'[u] = txs[u] /\ ~(txs[u].state = "pool" /\ txs[u].nonce = n)
                 \/ /\ txs[u].state = "pool" /\ txs[u].nonce = n
                    /\ txs'[u] = InState(txs[u], "dropped", {})
<1>1. Len(txs) \in Nat /\ DOMAIN txs = 1..Len(txs)
  BY DEF ChainTypeOK
<1>2. DOMAIN txs' = 1..(Len(txs) + 1)
  BY NodeAcceptsType
<1>3. txs'[Len(txs) + 1] = [nonce |-> n, ops |-> b, state |-> "pool", ok |-> {}]
  BY <1>1 DEF NodeAccepts
<1>4. ASSUME NEW u \in DOMAIN txs
      PROVE  txs'[u] = IF txs[u].state = "pool" /\ txs[u].nonce = n
                       THEN InState(txs[u], "dropped", {}) ELSE txs[u]
  <2>1. u \in 1..(Len(txs) + 1) /\ u # Len(txs) + 1
    BY <1>1
  <2> QED
    BY <2>1 DEF NodeAccepts
<1> QED
  BY <1>1, <1>2, <1>3, <1>4

(* A block keeps the record of spent nonces, and so do the other steps of  *)
(* the chain.                                                              *)
LEMMA EffectsByChain ==
    ASSUME ChainTypeOK, EffectsSpendNonces, ChainNext
    PROVE  EffectsSpendNonces'
<1> USE DEF EffectsSpendNonces
<1>1. ASSUME NEW t \in DOMAIN txs, MineSuccess(t)
      PROVE  EffectsSpendNonces'
  <2> DEFINE b == txs[t].ops
  <2>0. txs[t] \in Tx
    BY DEF ChainTypeOK
  <2>1. b \in Seq(Ops)
    BY <2>0 DEF Tx
  <2>2. PICK ok \in SUBSET OpsOf(b) : txs' = [txs EXCEPT ![t] = InState(@, "success", ok)]
    BY <1>1 DEF MineSuccess
  <2>3. BundleValid(b)
    BY <1>1 DEF MineSuccess
  <2>4. ASSUME NEW s \in Senders
        PROVE  /\ acctNonce[s] \in Nat /\ Spent(b, s) \in Nat
               /\ acctNonce'[s] = acctNonce[s] + Spent(b, s)
    BY <1>1, <2>1, SpentType DEF MineSuccess, ChainTypeOK
  <2>5. /\ DOMAIN txs' = DOMAIN txs
        /\ \A u \in DOMAIN txs \ {t} : txs'[u] = txs[u]
        /\ txs'[t].ops = b /\ txs'[t].ok = ok
    BY <2>2 DEF InState, ChainTypeOK
  <2>6. ASSUME NEW u \in DOMAIN txs, txs'[u].state = "success", NEW o \in OpsOf(txs'[u].ops)
        PROVE  nonce[o] < acctNonce'[sender[o]]
    <3>1. txs'[u].ops = txs[u].ops /\ txs[u] \in Tx
      BY <2>5 DEF ChainTypeOK
    <3>2. o \in Ops /\ sender[o] \in Senders /\ nonce[o] \in Nat
      BY <2>6, <3>1, OpsAssumption DEF OpsOf, Tx
    <3>3. CASE u = t
      BY <2>1, <2>3, <2>4, <2>6, <3>1, <3>2, <3>3, ValidBundle
    <3>4. CASE u # t
      BY <2>4, <2>5, <2>6, <3>1, <3>2, <3>4
    <3> QED
      BY <3>3, <3>4
  <2>7. ASSUME NEW u \in DOMAIN txs
        PROVE  txs'[u].ok \subseteq OpsOf(txs'[u].ops)
    BY <2>2, <2>5
  <2> QED
    BY <2>5, <2>6, <2>7
<1>2. ASSUME NEW t \in DOMAIN txs, MineRevert(t) \/ Drop(t)
      PROVE  EffectsSpendNonces'
  <2>1. PICK st \in {"reverted", "dropped"} : txs' = [txs EXCEPT ![t] = InState(@, st, {})]
    BY <1>2 DEF MineRevert, Drop
  <2>2. UNCHANGED acctNonce
    BY <1>2 DEF MineRevert, Drop
  <2>3. /\ DOMAIN txs' = DOMAIN txs
        /\ \A u \in DOMAIN txs \ {t} : txs'[u] = txs[u]
        /\ txs'[t].state = st /\ txs'[t].ok = {}
    BY <2>1 DEF InState, ChainTypeOK
  <2> QED
    BY <2>2, <2>3
<1>3. ASSUME NEW o \in Fragile, Invalidate(o)
      PROVE  EffectsSpendNonces'
  BY <1>3 DEF Invalidate
<1> QED
  BY <1>1, <1>2, <1>3 DEF ChainNext, Mine

(* A bundle that the node takes has had no effect yet.                     *)
LEMMA EffectsByNode ==
    ASSUME ChainTypeOK, EffectsSpendNonces,
           NEW n \in Nat, NEW b \in Seq(Ops), NodeAccepts(n, b)
    PROVE  EffectsSpendNonces'
<1>1. UNCHANGED acctNonce
  BY DEF NodeAccepts
<1>2. ASSUME NEW u \in DOMAIN txs'
      PROVE  /\ txs'[u].ok \subseteq OpsOf(txs'[u].ops)
             /\ txs'[u].state = "success" =>
                  \A o \in OpsOf(txs'[u].ops) : nonce[o] < acctNonce[sender[o]]
  <2>1. CASE txs'[u] = [nonce |-> n, ops |-> b, state |-> "pool", ok |-> {}]
    BY <2>1
  <2>2. CASE u \in DOMAIN txs /\ txs'[u] = txs[u]
    BY <2>2 DEF EffectsSpendNonces
  <2>3. CASE u \in DOMAIN txs /\ txs'[u] = InState(txs[u], "dropped", {})
    BY <2>3 DEF InState
  <2>4. /\ DOMAIN txs' = DOMAIN txs \cup {Len(txs) + 1}
        /\ txs'[Len(txs) + 1] = [nonce |-> n, ops |-> b, state |-> "pool", ok |-> {}]
        /\ \A t \in DOMAIN txs : \/ txs'[t] = txs[t]
                                 \/ txs'[t] = InState(txs[t], "dropped", {})
    BY OneTxMore
  <2>5. \/ txs'[u] = [nonce |-> n, ops |-> b, state |-> "pool", ok |-> {}]
        \/ u \in DOMAIN txs /\ txs'[u] = txs[u]
        \/ u \in DOMAIN txs /\ txs'[u] = InState(txs[u], "dropped", {})
    BY <2>4, Zenon
  <2> QED
    BY <2>1, <2>2, <2>3, <2>5, Zenon
<1> QED
  BY <1>1, <1>2 DEF EffectsSpendNonces

-----------------------------------------------------------------------------
(* The steps of the service.                                               *)

(* A step as the clients see it.                                           *)
ServiceStep == Service!ServiceNext \/ UNCHANGED Service!serviceVars

(* How the statuses of a row look from outside.                            *)
LEMMA AnswerValues ==
    /\ Answer("absent") = "unknown"
    /\ \A s \in Live : Answer(s) = "open"
    /\ Answer("confirmed") = "confirmed"
    /\ Answer("failed") = "failed"
  BY DEF Answer, Live

(* The view of one row after a step.                                       *)
LEMMA ViewOf ==
    /\ ClientView \in [Ops -> {Answer(s) : s \in {status[o] : o \in Ops}}]
    /\ \A o \in Ops : ClientView[o] = Answer(status[o])
    /\ ClientView' = [o \in Ops |-> Answer(status'[o])]
  BY DEF ClientView

(* With the transactions unchanged the effects are.                        *)
LEMMA NoNewEffects ==
    ASSUME UNCHANGED txs PROVE UNCHANGED <<SentOps, ExecutedOps>>
  BY DEF SentOps, ExecutedOps, Executed

(* A step between live statuses shows nothing.                             *)
LEMMA NothingSeen ==
    ASSUME UNCHANGED txs, \A o \in Ops : Answer(status'[o]) = Answer(status[o])
    PROVE  ServiceStep
<1>1. UNCHANGED ClientView
  BY DEF ClientView
<1> QED
  BY <1>1, NoNewEffects DEF ServiceStep, Service!serviceVars

(* Live rows that become failed are operations that fail.                  *)
LEMMA FailSeen ==
    ASSUME UNCHANGED txs, NEW S \in SUBSET Ops,
           \A o \in S : status[o] \in Live /\ status'[o] = "failed",
           \A o \in Ops \ S : Answer(status'[o]) = Answer(status[o])
    PROVE  ServiceStep
<1>1. \A o \in S : ClientView[o] = "open"
  BY ViewOf, AnswerValues
<1>2. ClientView' = [o \in Ops |-> IF o \in S THEN "failed" ELSE ClientView[o]]
  BY ViewOf, AnswerValues
<1>3. Service!Fail(S)
  BY <1>1, <1>2, NoNewEffects DEF Service!Fail
<1> QED
  BY <1>3 DEF ServiceStep, Service!ServiceNext

(* A live row of an executed operation that becomes confirmed.             *)
LEMMA ConfirmSeen ==
    ASSUME UNCHANGED txs, NEW o \in Ops, Executed(o),
           status[o] \in Live, status'[o] = "confirmed",
           \A p \in Ops \ {o} : status'[p] = status[p]
    PROVE  ServiceStep
<1>1. ClientView[o] = "open" /\ o \in ExecutedOps
  BY ViewOf, AnswerValues DEF ExecutedOps
<1>2. ClientView' = [ClientView EXCEPT ![o] = "confirmed"]
  BY ViewOf, AnswerValues
<1>3. Service!Confirm(o)
  BY <1>1, <1>2, NoNewEffects DEF Service!Confirm
<1> QED
  BY <1>3 DEF ServiceStep, Service!ServiceNext

(* A new row for a free slot is an operation accepted.                     *)
LEMMA AcceptSeen ==
    ASSUME MempoolTypeOK, NEW o \in Ops, Insert(o), UNCHANGED txs
    PROVE  ServiceStep
<1>1. ClientView[o] = "unknown"
  BY ViewOf, AnswerValues DEF Insert
<1>2. ASSUME NEW p \in Ops \ {o}, SameSlot(o, p) PROVE ClientView[p] # "open"
  <2>1. status[p] \in {"absent"} \cup Terminal
    BY <1>2 DEF Insert, SlotFree, MempoolTypeOK, Statuses
  <2> QED
    BY <2>1, ViewOf DEF Answer, Live, Terminal
<1>3. ClientView' = [ClientView EXCEPT ![o] = "open"]
  <2>1. status' = [status EXCEPT ![o] = "pending"]
    BY DEF Insert
  <2>2. Answer("pending") = "open"
    BY AnswerValues DEF Live
  <2> QED
    BY <2>1, <2>2, ViewOf DEF MempoolTypeOK
<1>4. Service!Accept(o)
  BY <1>1, <1>2, <1>3, NoNewEffects DEF Service!Accept, Service!SameSlot, SameSlot
<1> QED
  BY <1>4 DEF ServiceStep, Service!ServiceNext

(* Rows with a verdict that disappear are operations forgotten.            *)
LEMMA ForgetSeen ==
    ASSUME NeverReplaced, NEW cutoff, PruneHistory(cutoff), UNCHANGED txs
    PROVE  ServiceStep
<1> DEFINE gone == History(cutoff)
<1>1. gone \in SUBSET Ops
  BY DEF History
<1>2. \A o \in gone : ClientView[o] \in {"confirmed", "failed"}
  BY ViewOf, AnswerValues DEF History, IsTerminal, Terminal, NeverReplaced
<1>3. ClientView' = [o \in Ops |-> IF o \in gone THEN "unknown" ELSE ClientView[o]]
  BY ViewOf, AnswerValues DEF PruneHistory
<1>4. Service!Forget(gone)
  BY <1>2, <1>3, NoNewEffects DEF Service!Forget
<1> QED
  BY <1>1, <1>4 DEF ServiceStep, Service!ServiceNext

(* A bundle of live rows that reaches the node is sent.                    *)
LEMMA SendSeen ==
    ASSUME ChainTypeOK, NEW n \in Nat, NEW b \in Seq(Ops), NodeAccepts(n, b),
           UNCHANGED status, \A o \in OpsOf(b) : status[o] \in Live
    PROVE  ServiceStep
<1>1. OpsOf(b) \in SUBSET Ops
  BY DEF OpsOf
<1>2. \A o \in OpsOf(b) : ClientView[o] = "open"
  BY <1>1, ViewOf, AnswerValues
<1>3. UNCHANGED ClientView
  BY DEF ClientView
<1>4. /\ DOMAIN txs' = DOMAIN txs \cup {Len(txs) + 1}
      /\ txs'[Len(txs) + 1].ops = b /\ txs'[Len(txs) + 1].state = "pool"
      /\ \A u \in DOMAIN txs :
            /\ txs'[u].ops = txs[u].ops
            /\ txs'[u].state = "success" => txs[u].state = "success"
            /\ txs[u].state = "success" => txs'[u] = txs[u]
  <2>1. /\ DOMAIN txs' = DOMAIN txs \cup {Len(txs) + 1}
        /\ txs'[Len(txs) + 1] = [nonce |-> n, ops |-> b, state |-> "pool", ok |-> {}]
    BY OneTxMore
  <2>2. ASSUME NEW u \in DOMAIN txs
        PROVE  \/ txs'[u] = txs[u]
               \/ txs[u].state = "pool" /\ txs'[u] = InState(txs[u], "dropped", {})
    BY OneTxMore
  <2> QED
    BY <2>1, <2>2 DEF InState
<1>5. SentOps' = SentOps \cup OpsOf(b)
  <2>1. SentOps' = UNION {OpsOf(txs'[u].ops) : u \in DOMAIN txs'}
    BY DEF SentOps
  <2> QED
    BY <1>4, <2>1 DEF SentOps
<1>6. UNCHANGED ExecutedOps
  <2>1. ASSUME NEW o \in Ops PROVE Executed(o)' <=> Executed(o)
    BY <1>4 DEF Executed
  <2> QED
    BY <2>1 DEF ExecutedOps
<1>7. Service!Send(OpsOf(b))
  BY <1>2, <1>3, <1>5, <1>6 DEF Service!Send
<1> QED
  BY <1>1, <1>7 DEF ServiceStep, Service!ServiceNext

(* A bundle that validates executes operations that were sent, that never  *)
(* executed before and whose nonces no other one spent.                    *)
LEMMA ExecuteSeen ==
    ASSUME ChainTypeOK, EffectsSpendNonces, NEW t \in DOMAIN txs, MineSuccess(t),
           UNCHANGED status
    PROVE  ServiceStep
<1> DEFINE b == txs[t].ops
<1>1. txs[t] \in Tx
  BY DEF ChainTypeOK
<1>2. b \in Seq(Ops)
  BY <1>1 DEF Tx
<1>3. PICK ok \in SUBSET OpsOf(b) : txs' = [txs EXCEPT ![t] = InState(@, "success", ok)]
  BY DEF MineSuccess
<1>4. BundleValid(b) /\ txs[t].state = "pool"
  BY DEF MineSuccess, InPool
<1>5. /\ DOMAIN txs' = DOMAIN txs
      /\ \A u \in DOMAIN txs \ {t} : txs'[u] = txs[u]
      /\ txs'[t].ops = b /\ txs'[t].state = "success" /\ txs'[t].ok = ok
  BY <1>3 DEF InState, ChainTypeOK
<1>6. UNCHANGED ClientView
  BY DEF ClientView
<1>7. UNCHANGED SentOps
  BY <1>5 DEF SentOps
<1>8. ok \in SUBSET Ops
  BY <1>2 DEF OpsOf
<1>9. ExecutedOps' = ExecutedOps \cup ok
  <2>1. ASSUME NEW o \in Ops PROVE Executed(o)' <=> Executed(o) \/ o \in ok
    BY <1>4, <1>5 DEF Executed
  <2> QED
    BY <1>8, <2>1 DEF ExecutedOps
<1>10. ok \subseteq SentOps
  BY DEF SentOps
<1>11. ASSUME NEW o \in ExecutedOps
       PROVE  o \in Ops /\ nonce[o] < acctNonce[sender[o]]
  BY <1>11 DEF ExecutedOps, Executed, EffectsSpendNonces
<1>12. ASSUME NEW o \in ok
       PROVE  o \in Ops /\ o \in OpsOf(b) /\ acctNonce[sender[o]] <= nonce[o]
  BY <1>2, <1>4, <1>8, ValidBundle
<1>13. \A o \in Ops : nonce[o] \in Nat /\ acctNonce[sender[o]] \in Nat
  BY OpsAssumption DEF ChainTypeOK
<1>14. ASSUME NEW o \in ok, NEW p \in ExecutedOps
       PROVE  o # p /\ ~SameSlot(o, p)
  BY <1>11, <1>12, <1>13 DEF SameSlot
<1>15. ASSUME NEW o \in ok, NEW p \in ok, o # p
       PROVE  ~SameSlot(o, p)
  BY <1>2, <1>4, <1>12, <1>15, ValidBundle
<1>16. Service!Execute(ok)
  BY <1>6, <1>7, <1>9, <1>10, <1>14, <1>15
  DEF Service!Execute, Service!SameSlot, SameSlot
<1> QED
  BY <1>8, <1>16 DEF ServiceStep, Service!ServiceNext

(* The other steps of the chain show nothing.                              *)
LEMMA ChainSeen ==
    ASSUME ChainTypeOK, EffectsSpendNonces, ChainNext, UNCHANGED status
    PROVE  ServiceStep
<1>1. ASSUME NEW t \in DOMAIN txs, MineSuccess(t) PROVE ServiceStep
  BY <1>1, ExecuteSeen
<1>2. ASSUME NEW t \in DOMAIN txs, MineRevert(t) \/ Drop(t)
      PROVE  ServiceStep
  <2>1. PICK st \in {"reverted", "dropped"} : txs' = [txs EXCEPT ![t] = InState(@, st, {})]
    BY <1>2 DEF MineRevert, Drop
  <2>2. txs[t].state = "pool"
    BY <1>2 DEF MineRevert, Drop, InPool
  <2>3. /\ DOMAIN txs' = DOMAIN txs
        /\ \A u \in DOMAIN txs \ {t} : txs'[u] = txs[u]
        /\ txs'[t].state = st /\ txs'[t].ops = txs[t].ops
    BY <2>1 DEF InState, ChainTypeOK
  <2>4. UNCHANGED <<ClientView, SentOps>>
    BY <2>3 DEF ClientView, SentOps
  <2>5. UNCHANGED ExecutedOps
    <3>1. ASSUME NEW o \in Ops PROVE Executed(o)' <=> Executed(o)
      BY <2>2, <2>3 DEF Executed
    <3> QED
      BY <3>1 DEF ExecutedOps
  <2> QED
    BY <2>4, <2>5 DEF ServiceStep, Service!serviceVars
<1>3. ASSUME NEW o \in Fragile, Invalidate(o) PROVE ServiceStep
  BY <1>3, NothingSeen DEF Invalidate
<1> QED
  BY <1>1, <1>2, <1>3 DEF ChainNext, Mine

-----------------------------------------------------------------------------
(* The goroutines.                                                         *)

(* An UpdateStatus of a live row is seen as nothing, a failure, or the     *)
(* confirmation of what executed.                                          *)
LEMMA UpdateSeen ==
    ASSUME MempoolTypeOK, NEW o \in Ops, status[o] \in Live,
           NEW s \in {"submitted", "pending", "failed", "confirmed"}, NEW tx, NEW idx,
           s = "confirmed" => Executed(o),
           TryUpdateStatus(o, s, tx, idx), UNCHANGED txs
    PROVE  ServiceStep
<1>1. CASE UNCHANGED rows
  BY <1>1, NothingSeen DEF rows
<1>2. CASE /\ \A p \in Ops \ {o} : status'[p] = status[p]
           /\ status'[o] = s
  <2>1. CASE s \in {"submitted", "pending"}
    <3>1. Answer(s) = "open" /\ Answer(status[o]) = "open"
      BY <2>1, AnswerValues DEF Live
    <3> QED
      BY <1>2, <3>1, NothingSeen
  <2>2. CASE s = "failed"
    <3>1. {o} \in SUBSET Ops
      OBVIOUS
    <3> QED
      BY <1>2, <2>2, <3>1, FailSeen
  <2>3. CASE s = "confirmed"
    BY <1>2, <2>3, ConfirmSeen
  <2> QED
    BY <2>1, <2>2, <2>3
<1> QED
  BY <1>1, <1>2, UpdateTouchesOneRow

(* The bundling loop: only sending and failing is seen.                    *)
LEMMA LoopSeen ==
    ASSUME Inductive, Tick
    PROVE  ServiceStep
<1>1. CASE FetchPending \/ EstimateBundle
  <2>1. UNCHANGED <<rows, chainVars>>
    BY <1>1 DEF FetchPending, EstimateBundle
  <2> QED
    BY <2>1, NothingSeen DEF rows, chainVars
<1>2. CASE ClaimBatch
  <2>1. UNCHANGED txs
    BY <1>2 DEF ClaimBatch, chainVars
  <2>2. CASE UNCHANGED rows
    BY <2>1, <2>2, NothingSeen DEF rows
  <2>3. CASE ClaimForBundling(OpsOf(batch))
    <3>1. Answer("pending") = "open" /\ Answer("bundling") = "open"
      BY AnswerValues DEF Live
    <3>2. \A o \in Ops : Answer(status'[o]) = Answer(status[o])
      BY <2>3, <3>1 DEF ClaimForBundling
    <3> QED
      BY <2>1, <3>2, NothingSeen
  <2> QED
    BY <1>2, <2>2, <2>3 DEF ClaimBatch
<1>3. CASE SubmitBundle
  <2>1. UNCHANGED status
    BY <1>3 DEF SubmitBundle, rows
  <2>2. batch \in Seq(Ops) /\ pendingNonce \in Nat /\ ChainTypeOK
    BY DEF Inductive, TypeOK, LoopTypeOK, SignerTypeOK
  <2>3. CASE NodeAccepts(pendingNonce, batch)
    <3>1. loopPc = "send" /\ marked = 0
      BY <1>3 DEF SubmitBundle, Inductive, BatchShape, Marking
    <3>2. \A o \in OpsOf(batch) : status[o] \in Live
      BY <2>2, <3>1 DEF OpsOf, Inductive, LoopOwnsBatch, Live
    <3> QED
      BY <2>1, <2>2, <2>3, <3>2, SendSeen
  <2>4. CASE UNCHANGED chainVars
    BY <2>1, <2>4, NothingSeen DEF chainVars
  <2> QED
    BY <1>3, <2>3, <2>4 DEF SubmitBundle, SubmitAccepted, SubmitLostReply, SubmitStaleNonce,
        SubmitFailed
<1>4. CASE MarkNext
  <2> DEFINE o == batch[marked + 1]
  <2> DEFINE idx == IF batchTx = NoTx THEN NoIndex ELSE marked
  <2>1. loopPc \in Marking /\ TryUpdateStatus(o, loopPc, batchTx, idx)
    BY <1>4 DEF MarkNext
  <2>2. batch \in Seq(Ops) /\ marked \in Nat /\ marked < Len(batch) /\ MempoolTypeOK
    BY <2>1 DEF Inductive, TypeOK, LoopTypeOK, BatchShape, Marking
  <2>3. marked + 1 \in DOMAIN batch /\ marked + 1 > marked /\ o \in Ops
    BY <2>2
  <2>4. status[o] \in Live
    BY <2>1, <2>3 DEF Inductive, LoopOwnsBatch, Live
  <2>5. UNCHANGED txs
    BY <1>4 DEF MarkNext, chainVars
  <2>6. loopPc \in {"submitted", "pending", "failed"}
    BY <2>1 DEF Marking
  <2> HIDE DEF o, idx
  <2> QED
    BY <2>1, <2>2, <2>3, <2>4, <2>5, <2>6, UpdateSeen
<1> QED
  BY <1>1, <1>2, <1>3, <1>4 DEF Tick

(* The watcher and Reconcile: verdicts are seen.                           *)
LEMMA WatcherSeen ==
    ASSUME Inductive, TakeSnapshot \/ ApplySnapshot
    PROVE  ServiceStep
<1>1. UNCHANGED txs
  BY DEF TakeSnapshot, ApplySnapshot, FetchReceipt, SettleOp, chainVars
<1>2. CASE UNCHANGED rows
  BY <1>1, <1>2, NothingSeen DEF rows
<1>3. ASSUME NEW p \in seen, SettleOp(p), ~UNCHANGED rows
      PROVE  ServiceStep
  <2> DEFINE o == p[1]
  <2> DEFINE s == Verdict(o, receipt)
  <2>1. o \in Ops /\ status[o] \in Live /\ MempoolTypeOK
    BY DEF Inductive, TypeOK, WatcherTypeOK, SnapshotIsFresh, Live
  <2>2. TryUpdateStatus(o, s, NoTx, NoIndex) /\ receipt # NoTx
    BY <1>3 DEF SettleOp
  <2>3. Mined(receipt)
    BY <2>2 DEF Inductive, ProcessShape
  <2>4. s \in {"pending", "failed", "confirmed"}
    BY DEF Verdict, HandleBundleRevert
  <2>5. s = "confirmed" => Executed(o)
    BY <2>3 DEF Verdict, HandleBundleRevert, Mined, Executed
  <2> HIDE DEF o, s
  <2> QED
    BY <1>1, <2>1, <2>2, <2>4, <2>5, UpdateSeen
<1> QED
  BY <1>2, <1>3 DEF ApplySnapshot, TakeSnapshot, FetchReceipt

(* The pruner: what expires fails, what is deleted is forgotten.           *)
LEMMA PrunerSeen ==
    ASSUME NeverReplaced, PrunerStep
    PROVE  ServiceStep
<1>1. UNCHANGED txs
  BY DEF PrunerStep, chainVars
<1>2. CASE MarkTtlExpired(now - PendingTtl)
  <2>1. Expired(now - PendingTtl) \in SUBSET Ops
    BY DEF Expired
  <2>2. \A o \in Expired(now - PendingTtl) : status[o] \in Live /\ status'[o] = "failed"
    BY <1>2 DEF MarkTtlExpired, Expired, Live
  <2>3. \A o \in Ops \ Expired(now - PendingTtl) : status'[o] = status[o]
    BY <1>2 DEF MarkTtlExpired
  <2> QED
    BY <1>1, <2>1, <2>2, <2>3, FailSeen
<1>3. CASE PruneHistory(now - Retention)
  BY <1>1, <1>3, ForgetSeen
<1>4. CASE UNCHANGED rows
  BY <1>1, <1>4, NothingSeen DEF rows
<1> QED
  BY <1>2, <1>3, <1>4 DEF PrunerStep

(* Startup: a released row is still open.                                  *)
LEMMA ReconcileSeen ==
    ASSUME Reconcile
    PROVE  ServiceStep
<1>1. Answer("pending") = "open" /\ Answer("bundling") = "open"
  BY AnswerValues DEF Live
<1>2. \A o \in Ops : Answer(status'[o]) = Answer(status[o])
  BY <1>1 DEF Reconcile, ResetBundlingToPending
<1> QED
  BY <1>2, NothingSeen DEF Reconcile, chainVars

-----------------------------------------------------------------------------
(* The invariant of the refinement.                                        *)

ServiceInv == Inductive /\ EffectsSpendNonces /\ NeverReplaced

(* It holds at first ...                                                   *)
LEMMA ServiceInvInit == Init => ServiceInv
<1>1. Init => EffectsSpendNonces /\ NeverReplaced
  BY DEF Init, ChainInit, MempoolInit, EffectsSpendNonces, NeverReplaced
<1> QED
  BY <1>1, InductiveInit DEF ServiceInv

(* ... no step forgets a spent nonce ...                                   *)
LEMMA EffectsNext ==
    ASSUME Inductive, EffectsSpendNonces, [Next]_vars
    PROVE  EffectsSpendNonces'
<1>1. ChainTypeOK /\ batch \in Seq(Ops) /\ pendingNonce \in Nat
  BY DEF Inductive, TypeOK, LoopTypeOK, SignerTypeOK
<1>2. CASE UNCHANGED chainVars
  BY <1>2 DEF EffectsSpendNonces, chainVars
<1>3. CASE ChainStep
  BY <1>1, <1>3, EffectsByChain DEF ChainStep
<1>4. CASE NodeAccepts(pendingNonce, batch)
  BY <1>1, <1>4, EffectsByNode
<1>5. CASE LoopStep
  <2>1. CASE FetchPending \/ ClaimBatch \/ EstimateBundle \/ MarkNext
    <3>1. UNCHANGED chainVars
      BY <2>1 DEF FetchPending, ClaimBatch, EstimateBundle, MarkNext
    <3> QED
      BY <1>2, <3>1
  <2>2. CASE SubmitBundle
    <3>1. NodeAccepts(pendingNonce, batch) \/ UNCHANGED chainVars
      BY <2>2 DEF SubmitBundle, SubmitAccepted, SubmitLostReply, SubmitStaleNonce, SubmitFailed
    <3> QED
      BY <1>2, <1>4, <3>1
  <2> QED
    BY <1>5, <2>1, <2>2 DEF LoopStep, Tick
<1>6. CASE ReconcileSubmitted \/ WatcherStep
  <2>1. UNCHANGED chainVars
    BY <1>6 DEF ReconcileSubmitted, WatcherStep, TakeSnapshot, ApplySnapshot, FetchReceipt,
        SettleOp
  <2> QED
    BY <1>2, <2>1
<1>7. CASE \/ Reconcile \/ StartServing \/ PrunerStep \/ Crash \/ ClockStep
           \/ \E o \in Ops : SendUserOperation(o)
           \/ UNCHANGED vars
  <2>1. UNCHANGED chainVars
    BY <1>7 DEF Reconcile, StartServing, PrunerStep, Crash, ClockStep, SendUserOperation, vars
  <2> QED
    BY <1>2, <2>1
<1> QED
  BY <1>3, <1>5, <1>6, <1>7 DEF Next

(* An UpdateStatus to any other status replaces nothing.                   *)
LEMMA UpdateKeepsUnreplaced ==
    ASSUME MempoolTypeOK, NeverReplaced, NEW o \in Ops, NEW s, s # "replaced",
           NEW tx, NEW idx, TryUpdateStatus(o, s, tx, idx)
    PROVE  NeverReplaced'
<1>1. CASE UNCHANGED rows
  BY <1>1 DEF NeverReplaced, rows
<1>2. CASE status'[o] = s /\ \A p \in Ops \ {o} : status'[p] = status[p]
  BY <1>2 DEF NeverReplaced
<1> QED
  BY <1>1, <1>2, UpdateTouchesOneRow

(* ... and no step of the process replaces a row: Repository.Replace has   *)
(* no caller.                                                              *)
LEMMA NeverReplacedNext ==
    ASSUME Inductive, NeverReplaced, [Next]_vars
    PROVE  NeverReplaced'
<1>1. CASE UNCHANGED status
  BY <1>1 DEF NeverReplaced
<1>2. CASE Reconcile
  BY <1>2 DEF Reconcile, ResetBundlingToPending, NeverReplaced
<1>3. CASE ReconcileSubmitted \/ WatcherStep
  <2>1. ASSUME NEW p \in seen, SettleOp(p), ~UNCHANGED rows
        PROVE  NeverReplaced'
    <3>1. p[1] \in Ops /\ MempoolTypeOK
      BY DEF Inductive, TypeOK, WatcherTypeOK
    <3>2. TryUpdateStatus(p[1], Verdict(p[1], receipt), NoTx, NoIndex)
      BY <2>1 DEF SettleOp
    <3>3. Verdict(p[1], receipt) # "replaced"
      BY DEF Verdict, HandleBundleRevert
    <3> QED
      BY <3>1, <3>2, <3>3, UpdateKeepsUnreplaced
  <2> QED
    BY <1>1, <1>3, <2>1 DEF ReconcileSubmitted, WatcherStep, ApplySnapshot, TakeSnapshot,
        FetchReceipt, rows
<1>4. ASSUME NEW o \in Ops, SendUserOperation(o) PROVE NeverReplaced'
  BY <1>4 DEF SendUserOperation, Insert, NeverReplaced, Inductive, TypeOK, MempoolTypeOK
<1>5. CASE LoopStep
  <2>1. CASE FetchPending \/ EstimateBundle \/ SubmitBundle
    BY <1>1, <2>1 DEF FetchPending, EstimateBundle, SubmitBundle, rows
  <2>2. CASE ClaimBatch
    BY <2>2 DEF ClaimBatch, ClaimForBundling, NeverReplaced, rows
  <2>3. CASE MarkNext
    <3> DEFINE o == batch[marked + 1]
    <3> DEFINE idx == IF batchTx = NoTx THEN NoIndex ELSE marked
    <3>1. loopPc \in Marking /\ TryUpdateStatus(o, loopPc, batchTx, idx)
      BY <2>3 DEF MarkNext
    <3>2. batch \in Seq(Ops) /\ marked \in Nat /\ marked < Len(batch) /\ MempoolTypeOK
      BY <3>1 DEF Inductive, TypeOK, LoopTypeOK, BatchShape, Marking
    <3>3. o \in Ops /\ loopPc # "replaced"
      BY <3>1, <3>2 DEF Marking
    <3> HIDE DEF o, idx
    <3> QED
      BY <3>1, <3>2, <3>3, UpdateKeepsUnreplaced
  <2> QED
    BY <1>5, <2>1, <2>2, <2>3 DEF LoopStep, Tick
<1>6. CASE PrunerStep
  BY <1>6 DEF PrunerStep, MarkTtlExpired, PruneHistory, rows, NeverReplaced
<1>7. CASE StartServing \/ Crash \/ ChainStep \/ ClockStep \/ UNCHANGED vars
  BY <1>1, <1>7 DEF StartServing, Crash, ChainStep, ClockStep, Advance, vars, mempoolVars, rows
<1> QED
  BY <1>2, <1>3, <1>4, <1>5, <1>6, <1>7 DEF Next

(* Every step of the process is a step of the service or none at all.      *)
LEMMA EveryStepSeen ==
    ASSUME ServiceInv, [Next]_vars
    PROVE  ServiceStep
<1> USE DEF ServiceInv
<1>1. CASE Reconcile
  BY <1>1, ReconcileSeen
<1>2. CASE ReconcileSubmitted \/ WatcherStep
  BY <1>2, WatcherSeen DEF ReconcileSubmitted, WatcherStep
<1>3. ASSUME NEW o \in Ops, SendUserOperation(o) PROVE ServiceStep
  BY <1>3, AcceptSeen DEF SendUserOperation, chainVars, Inductive, TypeOK
<1>4. CASE LoopStep
  BY <1>4, LoopSeen DEF LoopStep
<1>5. CASE PrunerStep
  BY <1>5, PrunerSeen
<1>6. CASE ChainStep
  BY <1>6, ChainSeen DEF ChainStep, mempoolVars, rows, Inductive, TypeOK
<1>7. CASE StartServing \/ Crash \/ ClockStep \/ UNCHANGED vars
  <2>1. UNCHANGED <<status, txs>>
    BY <1>7 DEF StartServing, Crash, ClockStep, Advance, vars, mempoolVars, rows, chainVars
  <2> QED
    BY <2>1, NothingSeen
<1> QED
  BY <1>1, <1>2, <1>3, <1>4, <1>5, <1>6, <1>7 DEF Next

(* Every step keeps it ...                                                 *)
LEMMA ServiceInvNext == ServiceInv /\ [Next]_vars => ServiceInv'
  BY InductiveNext, EffectsNext, NeverReplacedNext DEF ServiceInv

(* ... so that an operation that takes effect spends its nonce, with every *)
(* fault allowed: however often it is submitted it takes effect once.      *)
LEMMA ServiceInvAlways == Spec => []ServiceInv
  BY ServiceInvInit, ServiceInvNext, PTL DEF Spec

(* The process implements the service that UserOpService promises its      *)
(* clients, for any operations, bounds and faults: crashes, lost replies,  *)
(* evictions and failed writes included.                                   *)
THEOREM Implements == Spec => ImplementsService
<1>1. Init => Service!ServiceInit
  <2> SUFFICES ASSUME Init PROVE Service!ServiceInit
    OBVIOUS
  <2>1. ClientView = [o \in Ops |-> "unknown"]
    BY AnswerValues DEF Init, MempoolInit, ClientView
  <2>2. SentOps = {} /\ ExecutedOps = {}
    BY DEF Init, ChainInit, SentOps, ExecutedOps, Executed
  <2> QED
    BY <2>1, <2>2 DEF Service!ServiceInit
<1>2. ServiceInv /\ [Next]_vars => [Service!ServiceNext]_(Service!serviceVars)
  BY EveryStepSeen DEF ServiceStep
<1> QED
  BY <1>1, <1>2, ServiceInvAlways, PTL DEF Spec, ImplementsService, Service!ServiceSpec

-----------------------------------------------------------------------------
(***************************************************************************)
(* What the process promises beyond UserOpService when its surroundings    *)
(* are milder.  Each theorem names the faults it excludes: a restart and a *)
(* lost reply for the operations, a lost reply and an eviction for the     *)
(* nonce.  All other faults may happen in any order.                       *)
(***************************************************************************)

-----------------------------------------------------------------------------
(* The chain, as seen by an operation that waits for it.                   *)

(* No operation gets a new carrier and nothing new is pooled.              *)
CarriersShrink ==
    /\ DOMAIN txs' = DOMAIN txs
    /\ \A o \in Ops : Pooled(o)' => Pooled(o)
    /\ \A o \in Ops : \A t \in DOMAIN txs : Carries(t, o)' => Carries(t, o)

(* Without a change of the transactions nothing shrinks or grows.          *)
LEMMA SameCarriers == UNCHANGED txs => CarriersShrink
  BY DEF CarriersShrink, Pooled, Carries

(* A block, an eviction or an operation that stops validating.             *)
LEMMA ChainShrinks ==
    ASSUME ChainTypeOK, ChainNext
    PROVE  CarriersShrink
<1>1. ASSUME NEW t \in DOMAIN txs, txs[t].state = "pool",
             NEW st \in {"success", "reverted", "dropped"}, NEW ok,
             txs' = [txs EXCEPT ![t] = InState(@, st, ok)]
      PROVE  CarriersShrink
  <2>1. /\ DOMAIN txs' = DOMAIN txs
        /\ \A u \in DOMAIN txs \ {t} : txs'[u] = txs[u]
        /\ txs'[t].ops = txs[t].ops /\ txs'[t].state = st
    BY <1>1 DEF InState, ChainTypeOK
  <2>2. ASSUME NEW o \in Ops, NEW u \in DOMAIN txs, Carries(u, o)'
        PROVE  Carries(u, o)
    BY <1>1, <2>1, <2>2 DEF Carries
  <2>3. ASSUME NEW o \in Ops, Pooled(o)'
        PROVE  Pooled(o)
    BY <2>1, <2>3 DEF Pooled
  <2> QED
    BY <2>1, <2>2, <2>3 DEF CarriersShrink
<1>2. ASSUME NEW t \in DOMAIN txs, MineSuccess(t) \/ MineRevert(t) \/ Drop(t)
      PROVE  CarriersShrink
  <2>1. txs[t].state = "pool"
    BY <1>2 DEF MineSuccess, MineRevert, Drop, InPool
  <2>2. \E st \in {"success", "reverted", "dropped"}, ok \in SUBSET OpsOf(txs[t].ops) :
          txs' = [txs EXCEPT ![t] = InState(@, st, ok)]
    BY <1>2 DEF MineSuccess, MineRevert, Drop
  <2> QED
    BY <1>1, <2>1, <2>2
<1>3. ASSUME UNCHANGED txs PROVE CarriersShrink
  BY <1>3, SameCarriers
<1> QED
  BY <1>2, <1>3 DEF ChainNext, Mine, Invalidate

(* A transaction in the pool carries its operations.                       *)
LEMMA PooledIsCarried ==
    ASSUME NEW o, Pooled(o)
    PROVE  \E t \in DOMAIN txs : Carries(t, o) /\ txs[t].state = "pool"
  BY DEF Pooled, Carries

(* A carrier that is not in the pool has spent the operation's nonce.      *)
LEMMA CarriedAndSpent ==
    ASSUME EffectsSpendNonces, NEW o, NEW t \in DOMAIN txs, Carries(t, o), ~Pooled(o)
    PROVE  nonce[o] < acctNonce[sender[o]]
  BY DEF EffectsSpendNonces, Carries, Pooled

(* What has been executed was carried.                                     *)
LEMMA ExecutedWasCarried ==
    ASSUME EffectsSpendNonces, NEW o, Executed(o)
    PROVE  \E t \in DOMAIN txs : Carries(t, o) /\ txs[t].state = "success" /\ o \in txs[t].ok
  BY DEF EffectsSpendNonces, Carries, Executed

-----------------------------------------------------------------------------
(* No operation is sent twice.                                             *)

(* The process does not die, and no SendTransaction that worked reports an *)
(* error.                                                                  *)
NoRestart == Faults \cap {"crash", "lostReply"} = {}

(* The inductive invariant: no operation has a second carrier.             *)
Steady ==
    /\ ServiceInv
    /\ FreshStart
    /\ PooledIsInHand
    /\ NoDoubleSubmission
    /\ SubmittedHasOneCarrier
    /\ BatchHasNoOtherCarrier

(* The part of it that is about rows and transactions alone.               *)
RowsSteady == PooledIsInHand /\ NoDoubleSubmission /\ SubmittedHasOneCarrier

(* Its typing, and that the batch consists of operations.                  *)
LEMMA SteadyTypes ==
    ASSUME Steady
    PROVE  /\ Inductive /\ EffectsSpendNonces
           /\ MempoolTypeOK /\ ChainTypeOK
           /\ batch \in Seq(Ops) /\ marked \in Nat /\ batchTx \in Nat /\ pendingNonce \in Nat
           /\ \A i \in DOMAIN batch : batch[i] \in Ops /\ batch[i] \in OpsOf(batch)
  BY DEF Steady, ServiceInv, Inductive, TypeOK, LoopTypeOK, SignerTypeOK, OpsOf

(* It lasts as long as nothing gets a new carrier, only rows that nothing  *)
(* pooled carries are given up, and no row is marked submitted.            *)
LEMMA RowsKept ==
    ASSUME Steady, CarriersShrink,
           \A o \in Ops : \/ status'[o] = status[o] /\ bundleTxHash'[o] = bundleTxHash[o]
                          \/ status'[o] = "bundling"
                          \/ status'[o] # "submitted" /\ ~Pooled(o)
    PROVE  RowsSteady'
<1>1. PooledIsInHand'
  BY DEF Steady, PooledIsInHand, CarriersShrink
<1>2. NoDoubleSubmission'
  BY DEF Steady, NoDoubleSubmission, CarriersShrink
<1>3. ASSUME NEW o \in Ops, status'[o] = "submitted", NEW t \in DOMAIN txs', Carries(t, o)'
      PROVE  t = bundleTxHash'[o]
  <2>1. status[o] = "submitted" /\ bundleTxHash'[o] = bundleTxHash[o]
    BY <1>3
  <2>2. t \in DOMAIN txs /\ Carries(t, o)
    BY <1>3 DEF CarriersShrink
  <2> QED
    BY <2>1, <2>2 DEF Steady, SubmittedHasOneCarrier
<1> QED
  BY <1>1, <1>2, <1>3 DEF RowsSteady, SubmittedHasOneCarrier

(* What the loop holds is still held the same way when it does not move.   *)
LEMMA BatchKept ==
    ASSUME Steady, CarriersShrink, UNCHANGED loopVars
    PROVE  BatchHasNoOtherCarrier'
<1>1. UNCHANGED <<loopPc, batch, marked, batchTx>>
  BY DEF loopVars
<1>2. ASSUME NEW i \in DOMAIN batch, i > marked
      PROVE  /\ loopPc = "submitted" =>
                  \A t \in DOMAIN txs : Carries(t, batch[i])' => t = batchTx
             /\ loopPc \in {"estimate", "pending", "failed"} => ~Pooled(batch[i])'
             /\ loopPc = "send" => \A t \in DOMAIN txs : ~Carries(t, batch[i])'
  <2>1. /\ loopPc = "submitted" =>
             \A t \in DOMAIN txs : Carries(t, batch[i]) => t = batchTx
        /\ loopPc \in {"estimate", "pending", "failed"} => ~Pooled(batch[i])
        /\ loopPc = "send" => \A t \in DOMAIN txs : ~Carries(t, batch[i])
    BY <1>2 DEF Steady, BatchHasNoOtherCarrier
  <2>2. /\ Pooled(batch[i])' => Pooled(batch[i])
        /\ \A t \in DOMAIN txs : Carries(t, batch[i])' => Carries(t, batch[i])
    <3>1. PICK o \in Ops : o = batch[i] /\ o = batch'[i]
      BY <1>1, SteadyTypes
    <3>2. /\ Pooled(o)' => Pooled(o)
          /\ \A t \in DOMAIN txs : Carries(t, o)' => Carries(t, o)
      BY DEF CarriersShrink
    <3> QED
      BY <3>1, <3>2 DEF Pooled, Carries
  <2> QED
    BY <2>1, <2>2
<1> QED
  BY <1>1, <1>2 DEF BatchHasNoOtherCarrier, CarriersShrink

-----------------------------------------------------------------------------
(* The bundling loop.                                                      *)

(* A tick that ends, or that has only chosen its batch, holds nothing.     *)
LEMMA NothingHeld ==
    ASSUME loopPc' \in {"idle", "claim"}
    PROVE  BatchHasNoOtherCarrier'
  BY DEF BatchHasNoOtherCarrier

(* What is about to be given back or estimated must not be pooled.         *)
LEMMA UnpooledHeld ==
    ASSUME UNCHANGED txs, loopPc' \in {"estimate", "pending", "failed"},
           \A i \in DOMAIN batch' : i > marked' => ~Pooled(batch'[i])
    PROVE  BatchHasNoOtherCarrier'
<1>1. \A i \in DOMAIN batch' : i > marked' => ~Pooled(batch[i])'
  BY DEF Pooled
<1> QED
  BY <1>1 DEF BatchHasNoOtherCarrier

(* What is claimed was pending, so nothing pooled carries it.              *)
LEMMA ClaimKeepsCarriers ==
    ASSUME Steady, ClaimBatch
    PROVE  RowsSteady' /\ BatchHasNoOtherCarrier'
<1>1. CASE LoopIdle /\ UNCHANGED rows
  <2>1. RowsSteady'
    BY <1>1, SameCarriers, RowsKept DEF ClaimBatch, rows, chainVars
  <2> QED
    BY <1>1, <2>1, NothingHeld DEF LoopIdle
<1>2. CASE ClaimForBundling(OpsOf(batch)) /\ GoTo("estimate")
  <2>1. /\ \A o \in OpsOf(batch) : status[o] = "pending"
        /\ \A o \in Ops : status'[o] = IF o \in OpsOf(batch) THEN "bundling" ELSE status[o]
        /\ UNCHANGED <<bundleTxHash, txs, batch>>
        /\ loopPc' = "estimate"
    BY <1>2 DEF ClaimForBundling, GoTo, ClaimBatch, chainVars
  <2>2. \A i \in DOMAIN batch : ~Pooled(batch[i])
    BY <2>1, SteadyTypes DEF Steady, PooledIsInHand
  <2>3. RowsSteady'
    BY <2>1, SameCarriers, RowsKept
  <2> QED
    BY <2>1, <2>2, <2>3, UnpooledHeld
<1> QED
  BY <1>1, <1>2 DEF ClaimBatch

(* A bundle that validates contains nothing that took effect before.       *)
LEMMA EstimateKeepsCarriers ==
    ASSUME Steady, EstimateBundle
    PROVE  RowsSteady' /\ BatchHasNoOtherCarrier'
<1>1. /\ loopPc = "estimate"
      /\ UNCHANGED <<status, bundleTxHash, txs, batch, marked>>
  BY DEF EstimateBundle, GoTo, rows, chainVars
<1>2. \A i \in DOMAIN batch : i > marked => ~Pooled(batch[i])
  BY <1>1 DEF Steady, BatchHasNoOtherCarrier
<1>3. RowsSteady'
  BY <1>1, SameCarriers, RowsKept
<1>4. CASE GoTo("failed") \/ GoTo("pending")
  BY <1>1, <1>2, <1>3, <1>4, UnpooledHeld DEF GoTo
<1>5. CASE BundleValid(batch) /\ GoTo("send")
  <2>1. ASSUME NEW i \in DOMAIN batch, i > marked, NEW t \in DOMAIN txs
        PROVE  ~Carries(t, batch[i])
    <3>1. acctNonce[sender[batch[i]]] <= nonce[batch[i]]
      BY <1>5, SteadyTypes, ValidBundle
    <3>2. acctNonce[sender[batch[i]]] \in Nat /\ nonce[batch[i]] \in Nat
      BY SteadyTypes, OpsAssumption DEF ChainTypeOK
    <3>3. ~(nonce[batch[i]] < acctNonce[sender[batch[i]]])
      BY <3>1, <3>2
    <3> QED
      BY <1>2, <2>1, <3>3, SteadyTypes, CarriedAndSpent
  <2>2. \A i \in DOMAIN batch' : i > marked' =>
          \A t \in DOMAIN txs' : ~Carries(t, batch[i])'
    BY <1>1, <2>1 DEF Carries
  <2>3. loopPc' = "send"
    BY <1>5 DEF GoTo
  <2> QED
    BY <1>3, <2>2, <2>3 DEF BatchHasNoOtherCarrier
<1> QED
  BY <1>4, <1>5 DEF EstimateBundle

(* The bundle that the node takes is the only carrier of its operations.   *)
LEMMA SendKeepsCarriers ==
    ASSUME Steady, SubmitAccepted(batch), loopPc = "send", loopPc' = "submitted",
           batchTx' = Len(txs'), UNCHANGED <<batch, marked, rows>>
    PROVE  RowsSteady' /\ BatchHasNoOtherCarrier'
<1> DEFINE new == Len(txs) + 1
<1>1. NodeAccepts(pendingNonce, batch)
  BY DEF SubmitAccepted
<1>2. /\ new \notin DOMAIN txs
      /\ DOMAIN txs' = DOMAIN txs \cup {new}
      /\ txs'[new].ops = batch /\ txs'[new].state = "pool"
      /\ \A u \in DOMAIN txs : /\ txs'[u].ops = txs[u].ops
                               /\ txs'[u].state \in {txs[u].state, "dropped"}
      /\ batchTx' = new
  <2>1. /\ new \notin DOMAIN txs
        /\ DOMAIN txs' = DOMAIN txs \cup {new}
        /\ txs'[new] = [nonce |-> pendingNonce, ops |-> batch, state |-> "pool", ok |-> {}]
    BY <1>1, SteadyTypes, OneTxMore
  <2>2. ASSUME NEW u \in DOMAIN txs
        PROVE  txs'[u] = txs[u] \/ txs'[u] = InState(txs[u], "dropped", {})
    BY <1>1, SteadyTypes, OneTxMore
  <2>3. batchTx' = new
    BY <1>1, SteadyTypes, NodeAcceptsType
  <2> QED
    BY <2>1, <2>2, <2>3 DEF InState
<1> HIDE DEF new
<1>3. marked = 0 /\ \A i \in DOMAIN batch : i > marked
  BY SteadyTypes DEF Inductive, BatchShape, Marking
<1>4. ASSUME NEW o \in OpsOf(batch)
      PROVE  status[o] = "bundling" /\ \A t \in DOMAIN txs : ~Carries(t, o)
  BY <1>3, SteadyTypes DEF OpsOf, Steady, BatchHasNoOtherCarrier, Inductive, LoopOwnsBatch
<1>5. ASSUME NEW o \in Ops, NEW t \in DOMAIN txs', Carries(t, o)'
      PROVE  \/ t = new /\ o \in OpsOf(batch)
             \/ t \in DOMAIN txs /\ Carries(t, o) /\ o \notin OpsOf(batch)
  BY <1>2, <1>4, <1>5 DEF Carries
<1>6. UNCHANGED <<status, bundleTxHash>>
  BY DEF rows
<1>7. PooledIsInHand'
  <2>1. ASSUME NEW o \in Ops, Pooled(o)' PROVE o \in OpsOf(batch) \/ Pooled(o)
    BY <1>2, <2>1 DEF Pooled
  <2> QED
    BY <1>4, <1>6, <2>1 DEF Steady, PooledIsInHand
<1>8. NoDoubleSubmission'
  BY <1>5 DEF Steady, NoDoubleSubmission
<1>9. SubmittedHasOneCarrier'
  BY <1>4, <1>5, <1>6 DEF Steady, SubmittedHasOneCarrier
<1>10. ASSUME NEW i \in DOMAIN batch', NEW t \in DOMAIN txs', Carries(t, batch[i])'
       PROVE  t = batchTx'
  <2>1. PICK o \in Ops : o = batch[i] /\ o = batch'[i] /\ o \in OpsOf(batch)
    BY SteadyTypes
  <2>2. Carries(t, o)'
    BY <1>10, <2>1 DEF Carries
  <2> QED
    BY <1>2, <1>5, <2>1, <2>2
<1> QED
  BY <1>7, <1>8, <1>9, <1>10 DEF RowsSteady, BatchHasNoOtherCarrier

(* An error of SignAndSubmit that is not a lost reply sent nothing.        *)
LEMMA SubmitKeepsCarriers ==
    ASSUME NoRestart, Steady, SubmitBundle
    PROVE  RowsSteady' /\ BatchHasNoOtherCarrier'
<1>1. CASE SubmitAccepted(batch) /\ loopPc' = "submitted"
           /\ batchTx' = Len(txs') /\ UNCHANGED <<batch, marked>>
  BY <1>1, SendKeepsCarriers DEF SubmitBundle
<1>2. CASE (SubmitStaleNonce(batch) \/ SubmitFailed(batch)) /\ GoTo("pending")
  <2>1. UNCHANGED <<txs, status, bundleTxHash, batch, marked>> /\ loopPc' = "pending"
    BY <1>2 DEF SubmitBundle, SubmitStaleNonce, SubmitFailed, chainVars, rows, GoTo
  <2>2. \A i \in DOMAIN batch : i > marked => ~Pooled(batch[i])
    BY PooledIsCarried DEF SubmitBundle, Steady, BatchHasNoOtherCarrier
  <2>3. RowsSteady'
    BY <2>1, SameCarriers, RowsKept
  <2> QED
    BY <2>1, <2>2, <2>3, UnpooledHeld
<1>3. ~SubmitLostReply(batch)
  BY DEF NoRestart, SubmitLostReply
<1> QED
  BY <1>1, <1>2, <1>3 DEF SubmitBundle

(* Marking hands one row to the watcher, with its only carrier, or gives   *)
(* back one that nothing pooled carries.                                   *)
LEMMA MarkKeepsCarriers ==
    ASSUME Steady, MarkNext
    PROVE  RowsSteady' /\ BatchHasNoOtherCarrier'
<1> DEFINE o == batch[marked + 1]
<1> DEFINE idx == IF batchTx = NoTx THEN NoIndex ELSE marked
<1>1. loopPc \in Marking /\ TryUpdateStatus(o, loopPc, batchTx, idx) /\ UNCHANGED txs
  BY DEF MarkNext, chainVars
<1>2. marked + 1 \in DOMAIN batch /\ marked + 1 > marked /\ o \in Ops
  <2>1. marked < Len(batch)
    BY <1>1, SteadyTypes DEF Inductive, BatchShape, Marking
  <2> QED
    BY <2>1, SteadyTypes
<1>3. CarriersShrink
  BY <1>1, SameCarriers
<1>4. /\ loopPc = "submitted" =>
           batchTx # NoTx /\ \A t \in DOMAIN txs : Carries(t, o) => t = batchTx
      /\ loopPc # "submitted" => ~Pooled(o)
  <2>1. loopPc = "submitted" => batchTx \in DOMAIN txs
    BY SteadyTypes DEF Inductive, BatchShape
  <2>2. 0 \notin DOMAIN txs
    BY SteadyTypes DEF ChainTypeOK
  <2> QED
    BY <1>1, <1>2, <2>1, <2>2 DEF Steady, BatchHasNoOtherCarrier, Marking
<1>5. \/ UNCHANGED rows
      \/ /\ \A p \in Ops \ {o} : status'[p] = status[p] /\ bundleTxHash'[p] = bundleTxHash[p]
         /\ status'[o] = loopPc
         /\ bundleTxHash'[o] = IF batchTx = NoTx THEN bundleTxHash[o] ELSE batchTx
  BY <1>1, <1>2, SteadyTypes, UpdateTouchesOneRow
<1> HIDE DEF o, idx
<1>6. RowsSteady'
  <2>1. CASE UNCHANGED rows \/ loopPc # "submitted"
    BY <1>3, <1>4, <1>5, <2>1, RowsKept DEF rows
  <2>2. CASE ~UNCHANGED rows /\ loopPc = "submitted"
    <3>1. /\ status'[o] = "submitted" /\ bundleTxHash'[o] = batchTx
          /\ \A p \in Ops \ {o} : status'[p] = status[p] /\ bundleTxHash'[p] = bundleTxHash[p]
      BY <1>4, <1>5, <2>2
    <3>2. PooledIsInHand'
      BY <1>3, <3>1 DEF Steady, PooledIsInHand, CarriersShrink
    <3>3. NoDoubleSubmission'
      BY <1>3 DEF Steady, NoDoubleSubmission, CarriersShrink
    <3>4. SubmittedHasOneCarrier'
      BY <1>3, <1>4, <2>2, <3>1 DEF Steady, SubmittedHasOneCarrier, CarriersShrink
    <3> QED
      BY <3>2, <3>3, <3>4 DEF RowsSteady
  <2> QED
    BY <2>1, <2>2
<1>7. BatchHasNoOtherCarrier'
  <2>1. CASE LoopIdle
    BY <2>1, NothingHeld DEF LoopIdle
  <2>2. CASE marked' = marked + 1 /\ UNCHANGED <<loopPc, batch, batchTx>>
    <3>1. ASSUME NEW i \in DOMAIN batch, i > marked + 1
          PROVE  /\ loopPc = "submitted" =>
                      \A t \in DOMAIN txs : Carries(t, batch[i]) => t = batchTx
                 /\ loopPc \in {"estimate", "pending", "failed"} => ~Pooled(batch[i])
      <4>1. i > marked
        BY <3>1, SteadyTypes
      <4> QED
        BY <4>1 DEF Steady, BatchHasNoOtherCarrier
    <3>2. loopPc # "send"
      BY <1>1 DEF Marking
    <3> QED
      BY <1>1, <2>2, <3>1, <3>2 DEF BatchHasNoOtherCarrier, Carries, Pooled
  <2> QED
    BY <2>1, <2>2 DEF MarkNext
<1> QED
  BY <1>6, <1>7

-----------------------------------------------------------------------------
(* The other goroutines.                                                   *)

(* The watcher settles a row whose only carrier is mined.                  *)
LEMMA WatcherKeepsCarriers ==
    ASSUME Steady, TakeSnapshot \/ ApplySnapshot
    PROVE  RowsSteady'
<1>1. UNCHANGED txs
  BY DEF TakeSnapshot, ApplySnapshot, FetchReceipt, SettleOp, chainVars
<1>2. CarriersShrink
  BY <1>1, SameCarriers
<1>3. CASE UNCHANGED rows
  BY <1>2, <1>3, RowsKept DEF rows
<1>4. ASSUME NEW p \in seen, SettleOp(p), ~UNCHANGED rows
      PROVE  RowsSteady'
  <2>1. p[1] \in Ops /\ status[p[1]] = "submitted" /\ bundleTxHash[p[1]] = receipt /\ Mined(receipt)
    BY <1>4, SteadyTypes DEF SettleOp, GroupOf, Inductive, TypeOK, WatcherTypeOK,
        SnapshotIsFresh, ProcessShape
  <2>2. ~Pooled(p[1])
    <3>1. ASSUME NEW t \in DOMAIN txs, Carries(t, p[1]) PROVE txs[t].state # "pool"
      BY <2>1, <3>1 DEF Steady, SubmittedHasOneCarrier, Mined
    <3> QED
      BY <3>1, PooledIsCarried
  <2>3. Verdict(p[1], receipt) # "submitted"
    BY DEF Verdict, HandleBundleRevert
  <2>4. TryUpdateStatus(p[1], Verdict(p[1], receipt), NoTx, NoIndex)
    BY <1>4 DEF SettleOp
  <2>5. /\ \A o \in Ops \ {p[1]} : status'[o] = status[o] /\ bundleTxHash'[o] = bundleTxHash[o]
        /\ status'[p[1]] = Verdict(p[1], receipt)
    BY <1>4, <2>1, <2>4, SteadyTypes, UpdateTouchesOneRow
  <2> QED
    BY <1>2, <2>2, <2>3, <2>5, RowsKept
<1> QED
  BY <1>3, <1>4 DEF ApplySnapshot, TakeSnapshot, FetchReceipt

(* Clients and the pruner touch rows that are in nobody's hand.            *)
LEMMA OthersKeepCarriers ==
    ASSUME Steady, PrunerStep \/ \E o \in Ops : SendUserOperation(o)
    PROVE  RowsSteady'
<1>1. UNCHANGED txs
  BY DEF PrunerStep, SendUserOperation, chainVars
<1>2. ASSUME NEW o \in Ops
      PROVE  \/ status'[o] = status[o] /\ bundleTxHash'[o] = bundleTxHash[o]
             \/ /\ status[o] \in {"absent", "pending"} \cup Terminal
                /\ status'[o] # "submitted"
  <2>1. CASE MarkTtlExpired(now - PendingTtl)
    BY <2>1 DEF MarkTtlExpired, Expired
  <2>2. CASE PruneHistory(now - Retention)
    BY <2>2 DEF PruneHistory, History, IsTerminal
  <2>3. CASE UNCHANGED rows
    BY <2>3 DEF rows
  <2>4. ASSUME NEW p \in Ops, Insert(p)
        PROVE  \/ status'[o] = status[o] /\ bundleTxHash'[o] = bundleTxHash[o]
               \/ status[o] = "absent" /\ status'[o] = "pending"
    BY <2>4, SteadyTypes DEF Insert, NewRow, MempoolTypeOK
  <2> QED
    BY <2>1, <2>2, <2>3, <2>4 DEF PrunerStep, SendUserOperation
<1>3. \A o \in Ops : status[o] \in {"absent", "pending"} \cup Terminal => ~Pooled(o)
  BY DEF Steady, PooledIsInHand, Terminal
<1> QED
  BY <1>1, <1>2, <1>3, SameCarriers, RowsKept

(* Before the first start there is nothing to reconcile.                   *)
LEMMA StartKeepsCarriers ==
    ASSUME Steady, Reconcile
    PROVE  RowsSteady' /\ FreshStart'
<1>1. txs' = <<>> /\ \A o \in Ops : status'[o] = "absent"
  BY DEF Steady, FreshStart, Reconcile, ResetBundlingToPending, chainVars
<1> QED
  BY <1>1 DEF RowsSteady, FreshStart, PooledIsInHand, Pooled, NoDoubleSubmission,
      SubmittedHasOneCarrier

-----------------------------------------------------------------------------
(* The first start finds no row and no transaction.                        *)
LEMMA SteadyInit == Init => Steady
<1> SUFFICES ASSUME Init PROVE Steady
  OBVIOUS
<1>1. ServiceInv
  BY ServiceInvInit
<1>2. txs = <<>> /\ (\A o \in Ops : status[o] = "absent") /\ batch = <<>>
  BY DEF Init, MempoolInit, ChainInit, LoopInit
<1> QED
  BY <1>1, <1>2 DEF Steady, FreshStart, PooledIsInHand, Pooled, NoDoubleSubmission,
      SubmittedHasOneCarrier, BatchHasNoOtherCarrier

(* One step of any goroutine, of the chain or of the clock.                *)
LEMMA SteadyNext ==
    ASSUME NoRestart, Steady, [Next]_vars
    PROVE  Steady'
<1>1. ServiceInv'
  BY ServiceInvNext DEF Steady
<1> SUFFICES FreshStart' /\ RowsSteady' /\ BatchHasNoOtherCarrier'
  BY <1>1 DEF Steady, RowsSteady
<1>2. CASE Reconcile
  BY <1>2, StartKeepsCarriers, SameCarriers, BatchKept DEF Reconcile, chainVars
<1>3. CASE ReconcileSubmitted
  <2>1. PICK p \in seen : TRUE
    BY <1>3 DEF ReconcileSubmitted, ApplySnapshot
  <2>2. p[1] \in Ops /\ status[p[1]] = "submitted"
    BY <2>1, SteadyTypes DEF Inductive, TypeOK, WatcherTypeOK, SnapshotIsFresh
  <2>3. status[p[1]] = "absent"
    BY <1>3, <2>2 DEF Steady, FreshStart, ReconcileSubmitted
  <2> QED
    BY <2>2, <2>3
<1>4. CASE LoopStep
  <2>1. FreshStart'
    BY <1>4 DEF LoopStep, FreshStart, processVars
  <2>2. CASE FetchPending
    <3>1. RowsSteady'
      BY <2>2, SameCarriers, RowsKept DEF FetchPending, rows, chainVars
    <3> QED
      BY <2>1, <2>2, <3>1, NothingHeld DEF FetchPending
  <2>3. CASE ClaimBatch \/ EstimateBundle \/ SubmitBundle \/ MarkNext
    BY <2>1, <2>3, ClaimKeepsCarriers, EstimateKeepsCarriers, SubmitKeepsCarriers,
        MarkKeepsCarriers
  <2> QED
    BY <1>4, <2>2, <2>3 DEF LoopStep, Tick
<1>5. CASE WatcherStep
  <2>1. (TakeSnapshot \/ ApplySnapshot) /\ phase' = "running" /\ UNCHANGED loopVars
    BY <1>5 DEF WatcherStep, processVars
  <2>2. UNCHANGED txs
    BY <2>1 DEF TakeSnapshot, ApplySnapshot, FetchReceipt, SettleOp, chainVars
  <2> QED
    BY <2>1, <2>2, WatcherKeepsCarriers, SameCarriers, BatchKept DEF FreshStart
<1>6. CASE PrunerStep \/ \E o \in Ops : SendUserOperation(o)
  <2>1. phase' = "running" /\ UNCHANGED <<txs, loopVars>>
    BY <1>6 DEF PrunerStep, SendUserOperation, processVars, chainVars
  <2> QED
    BY <1>6, <2>1, OthersKeepCarriers, SameCarriers, BatchKept DEF FreshStart
<1>7. CASE StartServing \/ ChainStep \/ ClockStep \/ UNCHANGED vars
  <2>1. UNCHANGED <<status, bundleTxHash, loopVars>>
    BY <1>7 DEF StartServing, ChainStep, ClockStep, Advance, vars, mempoolVars, rows
  <2>2. CarriersShrink
    BY <1>7, SteadyTypes, SameCarriers, ChainShrinks
    DEF StartServing, ChainStep, ClockStep, vars, chainVars
  <2>3. FreshStart'
    <3>1. CASE ChainStep
      <4>1. phase # "running" => txs' = <<>>
        BY <3>1 DEF Steady, FreshStart, ChainStep, ChainNext, Mine, Drop, Invalidate
      <4> QED
        BY <2>1, <3>1, <4>1 DEF Steady, FreshStart, ChainStep, processVars
    <3>2. CASE phase' = "running"
      BY <3>2 DEF FreshStart
    <3>3. CASE UNCHANGED <<phase, txs>>
      BY <2>1, <3>3 DEF Steady, FreshStart
    <3> QED
      BY <1>7, <3>1, <3>2, <3>3 DEF StartServing, ClockStep, vars, processVars, chainVars
  <2> QED
    BY <2>1, <2>2, <2>3, RowsKept, BatchKept
<1>8. ~Crash
  BY DEF NoRestart, Crash
<1> QED
  BY <1>2, <1>3, <1>4, <1>5, <1>6, <1>7, <1>8 DEF Next

(* The invariant holds as long as the process runs.                        *)
LEMMA SteadyAlways ==
    ASSUME NoRestart PROVE Spec => []Steady
<1>1. Steady /\ [Next]_vars => Steady'
  BY SteadyNext
<1> QED
  BY <1>1, SteadyInit, PTL DEF Spec

(* Without restarts and lost replies no operation is ever in two           *)
(* transactions that took effect or still may, whatever estimates, bundles,*)
(* writes and the pool do (the claims of Tick and the watcher's verdicts). *)
THEOREM SentOnce ==
    ASSUME NoRestart PROVE Spec => []NoDoubleSubmission
<1>1. Steady => NoDoubleSubmission
  BY DEF Steady
<1> QED
  BY <1>1, SteadyAlways, PTL

-----------------------------------------------------------------------------
(* No executed operation is reported failed.                               *)

(* The pruner deletes no row within the modelled time.                     *)
NothingPruned == MaxTime <= Retention

(* The inductive invariant: what is executed is not given up.              *)
Remembered == Steady /\ ExecutedIsRemembered

(* What changes no transaction executes nothing.                           *)
LEMMA SameEffects == UNCHANGED txs => \A o : Executed(o)' => Executed(o)
  BY DEF Executed

(* A new transaction has executed nothing, a rival that it evicts had not. *)
LEMMA SendExecutesNothing ==
    ASSUME ChainTypeOK, NEW n \in Nat, NEW b \in Seq(Ops), NodeAccepts(n, b),
           NEW o, Executed(o)'
    PROVE  Executed(o)
<1>1. /\ DOMAIN txs' = DOMAIN txs \cup {Len(txs) + 1}
      /\ txs'[Len(txs) + 1] = [nonce |-> n, ops |-> b, state |-> "pool", ok |-> {}]
  BY OneTxMore
<1>2. ASSUME NEW u \in DOMAIN txs
      PROVE  txs'[u] = txs[u] \/ txs'[u] = InState(txs[u], "dropped", {})
  BY OneTxMore
<1> QED
  BY <1>1, <1>2 DEF Executed, InState

(* A block executes operations that were in the pool.                      *)
LEMMA BlockExecutesPooled ==
    ASSUME ChainTypeOK, ChainNext, NEW o, Executed(o)'
    PROVE  Executed(o) \/ Pooled(o)
<1>1. ASSUME NEW t \in DOMAIN txs, MineSuccess(t)
      PROVE  Executed(o) \/ Pooled(o)
  <2>1. PICK ok \in SUBSET OpsOf(txs[t].ops) :
          txs' = [txs EXCEPT ![t] = InState(@, "success", ok)]
    BY <1>1 DEF MineSuccess
  <2>2. /\ DOMAIN txs' = DOMAIN txs
        /\ \A u \in DOMAIN txs \ {t} : txs'[u] = txs[u]
        /\ txs'[t].ok = ok
    BY <2>1 DEF InState, ChainTypeOK
  <2>3. txs[t].state = "pool"
    BY <1>1 DEF MineSuccess, InPool
  <2> QED
    BY <2>2, <2>3 DEF Executed, Pooled
<1>2. ASSUME NEW t \in DOMAIN txs, MineRevert(t) \/ Drop(t)
      PROVE  Executed(o)
  <2>1. PICK st \in {"reverted", "dropped"} : txs' = [txs EXCEPT ![t] = InState(@, st, {})]
    BY <1>2 DEF MineRevert, Drop
  <2>2. /\ DOMAIN txs' = DOMAIN txs
        /\ \A u \in DOMAIN txs \ {t} : txs'[u] = txs[u]
        /\ txs'[t].ok = {}
    BY <2>1 DEF InState, ChainTypeOK
  <2> QED
    BY <2>2 DEF Executed
<1>3. ASSUME NEW p \in Fragile, Invalidate(p)
      PROVE  Executed(o)
  BY <1>3, SameEffects DEF Invalidate
<1> QED
  BY <1>1, <1>2, <1>3 DEF ChainNext, Mine

(* Without new effects, rows may move freely unless they are of executed   *)
(* operations, and the loop may move as long as it picks up none.          *)
LEMMA StillRemembered ==
    ASSUME Remembered, \A o \in Ops : Executed(o)' => Executed(o),
           \A o \in Ops : Executed(o) =>
               status'[o] = status[o] \/ status'[o] \in {"bundling", "submitted", "confirmed"},
           \/ UNCHANGED loopVars
           \/ loopPc' \notin {"estimate", "send", "pending", "failed"}
           \/ /\ loopPc \in {"estimate", "send", "pending", "failed"}
              /\ UNCHANGED batch /\ marked' \in {marked, marked + 1}
    PROVE  ExecutedIsRemembered'
<1>1. \A o \in Ops : Executed(o)' => status'[o] \in {"bundling", "submitted", "confirmed"}
  BY DEF Remembered, ExecutedIsRemembered
<1>2. ASSUME loopPc' \in {"estimate", "send", "pending", "failed"},
             NEW i \in DOMAIN batch', i > marked'
      PROVE  ~Executed(batch[i])'
  <2>1. /\ loopPc \in {"estimate", "send", "pending", "failed"}
        /\ batch' = batch /\ marked' \in {marked, marked + 1}
    BY <1>2 DEF loopVars
  <2>2. i \in DOMAIN batch /\ i > marked
    BY <1>2, <2>1, SteadyTypes DEF Remembered
  <2>3. PICK o \in Ops : o = batch[i] /\ o = batch'[i]
    BY <2>1, <2>2, SteadyTypes DEF Remembered
  <2>4. ~Executed(o)
    BY <2>1, <2>2, <2>3 DEF Remembered, ExecutedIsRemembered
  <2>5. ~Executed(o)'
    BY <2>4
  <2> QED
    BY <2>3, <2>5 DEF Executed
<1> QED
  BY <1>1, <1>2 DEF ExecutedIsRemembered

(* Steps of the loop: what it claims is not executed, and what it gives    *)
(* back has not been executed meanwhile.                                   *)
LEMMA RememberedByLoop ==
    ASSUME NoRestart, Remembered, LoopStep
    PROVE  ExecutedIsRemembered'
<1> USE DEF Remembered
<1>1. CASE FetchPending
  BY <1>1, SameEffects, StillRemembered DEF FetchPending, chainVars, rows
<1>2. CASE ClaimBatch
  <2>1. UNCHANGED txs /\ loopPc = "claim"
    BY <1>2 DEF ClaimBatch, chainVars
  <2>2. CASE LoopIdle /\ UNCHANGED rows
    BY <2>1, <2>2, SameEffects, StillRemembered DEF LoopIdle, rows
  <2>3. CASE ClaimForBundling(OpsOf(batch)) /\ GoTo("estimate")
    <3>1. /\ \A o \in OpsOf(batch) : status[o] = "pending"
          /\ \A o \in Ops : status'[o] = IF o \in OpsOf(batch) THEN "bundling" ELSE status[o]
          /\ batch' = batch
      BY <2>3 DEF ClaimForBundling, GoTo
    <3>2. \A o \in Ops : Executed(o)' => status'[o] \in {"bundling", "submitted", "confirmed"}
      BY <2>1, <3>1, SameEffects DEF ExecutedIsRemembered
    <3>3. ASSUME NEW i \in DOMAIN batch PROVE ~Executed(batch[i])
      BY <3>1, SteadyTypes DEF ExecutedIsRemembered
    <3>4. \A i \in DOMAIN batch' : ~Executed(batch[i])'
      BY <2>1, <3>1, <3>3 DEF Executed
    <3> QED
      BY <3>2, <3>4 DEF ExecutedIsRemembered
  <2> QED
    BY <1>2, <2>2, <2>3 DEF ClaimBatch
<1>3. CASE EstimateBundle
  BY <1>3, SameEffects, StillRemembered DEF EstimateBundle, GoTo, chainVars, rows
<1>4. CASE SubmitBundle
  <2>1. \A o \in Ops : Executed(o)' => Executed(o)
    <3>1. CASE SubmitAccepted(batch)
      BY <3>1, SteadyTypes, SendExecutesNothing DEF SubmitAccepted
    <3>2. CASE SubmitStaleNonce(batch) \/ SubmitFailed(batch)
      BY <3>2, SameEffects DEF SubmitStaleNonce, SubmitFailed, chainVars
    <3> QED
      BY <1>4, <3>1, <3>2 DEF SubmitBundle, NoRestart, SubmitLostReply
  <2>2. UNCHANGED status /\ loopPc = "send" /\ UNCHANGED <<batch, marked>>
    BY <1>4 DEF SubmitBundle, GoTo, rows
  <2> QED
    BY <2>1, <2>2, StillRemembered
<1>5. CASE MarkNext
  <2> DEFINE o == batch[marked + 1]
  <2> DEFINE idx == IF batchTx = NoTx THEN NoIndex ELSE marked
  <2>1. loopPc \in Marking /\ TryUpdateStatus(o, loopPc, batchTx, idx) /\ UNCHANGED txs
    BY <1>5 DEF MarkNext, chainVars
  <2>2. marked + 1 \in DOMAIN batch /\ marked + 1 > marked /\ o \in Ops
    <3>1. marked < Len(batch)
      BY <2>1, SteadyTypes DEF Inductive, BatchShape, Marking
    <3> QED
      BY <3>1, SteadyTypes
  <2>3. loopPc = "submitted" \/ ~Executed(o)
    BY <2>1, <2>2 DEF ExecutedIsRemembered, Marking
  <2>4. \/ UNCHANGED rows
        \/ (\A p \in Ops \ {o} : status'[p] = status[p]) /\ status'[o] = loopPc
    BY <2>1, <2>2, SteadyTypes, UpdateTouchesOneRow
  <2>5. \/ loopPc' = "idle"
        \/ UNCHANGED <<loopPc, batch>> /\ marked' = marked + 1
    BY <1>5 DEF MarkNext, LoopIdle
  <2>6. \A p \in Ops : Executed(p)' => Executed(p)
    BY <2>1, SameEffects
  <2>7. \A p \in Ops : Executed(p) =>
          status'[p] = status[p] \/ status'[p] \in {"bundling", "submitted", "confirmed"}
    BY <2>3, <2>4 DEF rows
  <2>8. \/ loopPc' \notin {"estimate", "send", "pending", "failed"}
        \/ /\ loopPc \in {"estimate", "send", "pending", "failed"}
           /\ UNCHANGED batch /\ marked' \in {marked, marked + 1}
    BY <2>1, <2>5 DEF Marking
  <2> QED
    BY <2>6, <2>7, <2>8, StillRemembered
<1> QED
  BY <1>1, <1>2, <1>3, <1>4, <1>5 DEF LoopStep, Tick

(* The watcher confirms a submitted row that was executed: the carrier it  *)
(* has the receipt of is the only one.                                     *)
LEMMA RememberedByWatcher ==
    ASSUME Remembered, TakeSnapshot \/ ApplySnapshot, UNCHANGED loopVars
    PROVE  ExecutedIsRemembered'
<1> USE DEF Remembered
<1>1. \A o \in Ops : Executed(o)' => Executed(o)
  BY SameEffects DEF TakeSnapshot, ApplySnapshot, FetchReceipt, SettleOp, chainVars
<1>2. CASE UNCHANGED rows
  BY <1>1, <1>2, StillRemembered DEF rows
<1>3. ASSUME NEW p \in seen, SettleOp(p), ~UNCHANGED rows
      PROVE  ExecutedIsRemembered'
  <2>1. p[1] \in Ops /\ status[p[1]] = "submitted" /\ bundleTxHash[p[1]] = receipt
    BY <1>3, SteadyTypes DEF SettleOp, GroupOf, Inductive, TypeOK, WatcherTypeOK,
        SnapshotIsFresh
  <2>2. ASSUME Executed(p[1]) PROVE Verdict(p[1], receipt) = "confirmed"
    <3>1. PICK t \in DOMAIN txs :
            Carries(t, p[1]) /\ txs[t].state = "success" /\ p[1] \in txs[t].ok
      BY <2>2, SteadyTypes, ExecutedWasCarried
    <3>2. t = receipt
      BY <2>1, <3>1 DEF Steady, SubmittedHasOneCarrier
    <3> QED
      BY <3>1, <3>2 DEF Verdict
  <2>3. TryUpdateStatus(p[1], Verdict(p[1], receipt), NoTx, NoIndex)
    BY <1>3 DEF SettleOp
  <2>4. /\ \A o \in Ops \ {p[1]} : status'[o] = status[o]
        /\ status'[p[1]] = Verdict(p[1], receipt)
    BY <1>3, <2>1, <2>3, SteadyTypes, UpdateTouchesOneRow
  <2> QED
    BY <1>1, <2>2, <2>4, StillRemembered
<1> QED
  BY <1>2, <1>3 DEF ApplySnapshot, TakeSnapshot, FetchReceipt

(* What is executed was pooled, hence in somebody's hand; the pruner fails *)
(* pending rows and deletes none.                                          *)
LEMMA RememberedNext ==
    ASSUME NoRestart, NothingPruned, Remembered, [Next]_vars
    PROVE  Remembered'
<1> USE DEF Remembered
<1>1. Steady'
  BY SteadyNext
<1> SUFFICES ExecutedIsRemembered'
  BY <1>1
<1>2. CASE Reconcile
  <2>1. txs = <<>> /\ txs' = <<>>
    BY <1>2 DEF Steady, FreshStart, Reconcile, chainVars
  <2> QED
    BY <2>1 DEF ExecutedIsRemembered, Executed
<1>3. CASE LoopStep
  BY <1>3, RememberedByLoop
<1>4. CASE ReconcileSubmitted \/ WatcherStep
  BY <1>4, RememberedByWatcher DEF ReconcileSubmitted, WatcherStep
<1>5. ASSUME NEW o \in Ops, SendUserOperation(o) PROVE ExecutedIsRemembered'
  <2>1. UNCHANGED <<txs, loopVars>> /\ Insert(o)
    BY <1>5 DEF SendUserOperation, chainVars
  <2>2. ~Executed(o) /\ \A p \in Ops \ {o} : status'[p] = status[p]
    BY <2>1, SteadyTypes DEF Insert, ExecutedIsRemembered, MempoolTypeOK
  <2> QED
    BY <2>1, <2>2, SameEffects, StillRemembered
<1>6. CASE PrunerStep
  <2>1. UNCHANGED <<txs, loopVars>>
    BY <1>6 DEF PrunerStep, chainVars
  <2>2. History(now - Retention) = {}
    <3>1. ASSUME NEW o \in Ops PROVE ~(updatedAt[o] < now - Retention)
      <4>1. updatedAt[o] \in 0..now /\ now \in 0..MaxTime
        BY SteadyTypes DEF MempoolTypeOK
      <4> QED
        BY <4>1, MempoolAssumption DEF NothingPruned
    <3> QED
      BY <3>1 DEF History
  <2>3. \A o \in Ops : Executed(o) => status'[o] = status[o]
    <3>1. CASE MarkTtlExpired(now - PendingTtl)
      BY <3>1 DEF MarkTtlExpired, Expired, ExecutedIsRemembered
    <3>2. CASE PruneHistory(now - Retention)
      BY <2>2, <3>2 DEF PruneHistory
    <3>3. CASE UNCHANGED rows
      BY <3>3 DEF rows
    <3> QED
      BY <1>6, <3>1, <3>2, <3>3 DEF PrunerStep
  <2> QED
    BY <2>1, <2>3, SameEffects, StillRemembered
<1>7. CASE ChainStep
  <2>1. UNCHANGED <<status, loopVars>> /\ ChainNext
    BY <1>7 DEF ChainStep, mempoolVars, rows
  <2>2. \A o \in Ops : Executed(o)' => Executed(o) \/ Pooled(o)
    BY <2>1, SteadyTypes, BlockExecutesPooled
  <2>3. \A o \in Ops : Executed(o)' => status'[o] \in {"bundling", "submitted", "confirmed"}
    BY <2>1, <2>2 DEF ExecutedIsRemembered, Steady, PooledIsInHand
  <2>4. ASSUME loopPc' \in {"estimate", "send", "pending", "failed"},
               NEW i \in DOMAIN batch', i > marked'
        PROVE  ~Executed(batch[i])'
    <3>1. UNCHANGED <<loopPc, batch, marked>>
      BY <2>1 DEF loopVars
    <3>2. PICK o \in Ops : o = batch[i] /\ o = batch'[i]
      BY <2>4, <3>1, SteadyTypes
    <3>3. ~Executed(o)
      BY <2>4, <3>1, <3>2 DEF ExecutedIsRemembered
    <3>4. ~Pooled(o)
      BY <2>4, <3>1, <3>2, PooledIsCarried DEF Steady, BatchHasNoOtherCarrier
    <3>5. ~Executed(o)'
      BY <2>2, <3>3, <3>4
    <3> QED
      BY <3>2, <3>5 DEF Executed
  <2> QED
    BY <2>3, <2>4 DEF ExecutedIsRemembered
<1>8. CASE StartServing \/ ClockStep \/ UNCHANGED vars
  <2>1. UNCHANGED <<status, txs, loopVars>>
    BY <1>8 DEF StartServing, ClockStep, Advance, vars, mempoolVars, rows, chainVars
  <2> QED
    BY <2>1, SameEffects, StillRemembered
<1>9. ~Crash
  BY DEF NoRestart, Crash
<1> QED
  BY <1>2, <1>3, <1>4, <1>5, <1>6, <1>7, <1>8, <1>9 DEF Next

(* Without restarts and lost replies, and before the pruner deletes        *)
(* verdicts, an operation that ran successfully is never reported failed:  *)
(* not by a failed estimate, by the pruner's time to live or by a receipt. *)
THEOREM FailuresAreTrue ==
    ASSUME NoRestart, NothingPruned PROVE Spec => []FailedWasNotExecuted
<1>1. Init => Remembered
  <2>1. Init => Steady
    BY SteadyInit
  <2>2. Init => ExecutedIsRemembered
    BY DEF Init, ChainInit, LoopInit, ExecutedIsRemembered, Executed
  <2> QED
    BY <2>1, <2>2 DEF Remembered
<1>2. Remembered /\ [Next]_vars => Remembered'
  BY RememberedNext
<1>3. Remembered => FailedWasNotExecuted
  BY DEF Remembered, ExecutedIsRemembered, FailedWasNotExecuted
<1> QED
  BY <1>1, <1>2, <1>3, PTL DEF Spec

-----------------------------------------------------------------------------
(* The signer's nonce.                                                     *)

(* Every transaction the node took is reported as taken, and stays.        *)
NothingLost == Faults \cap {"lostReply", "drop"} = {}

(* The inductive invariant: the numbering of the transactions.             *)
Aligned == TypeOK /\ NonceAligned

(* In an aligned state the node expects one nonce: the next.               *)
LEMMA NextNonce ==
    ASSUME Aligned
    PROVE  PendingNonceAt = {Len(txs)}
<1>1. Len(txs) \in Nat /\ DOMAIN txs = 1..Len(txs) /\ eoaNonce \in 0..Len(txs)
  BY DEF Aligned, TypeOK, ChainTypeOK, NonceAligned
<1>2. \A t \in 1..Len(txs) : txs[t].nonce = t - 1 /\ (txs[t].state = "pool" <=> t > eoaNonce)
  BY <1>1 DEF Aligned, NonceAligned
<1>3. ASSUME NEW n \in Nat PROVE PoolHas(n) <=> n >= eoaNonce /\ n < Len(txs)
  <2>1. ASSUME PoolHas(n) PROVE n >= eoaNonce /\ n < Len(txs)
    BY <1>1, <1>2, <2>1 DEF PoolHas
  <2>2. ASSUME n >= eoaNonce, n < Len(txs) PROVE PoolHas(n)
    <3>1. n + 1 \in 1..Len(txs) /\ n + 1 > eoaNonce /\ (n + 1) - 1 = n
      BY <1>1, <2>2
    <3> QED
      BY <1>1, <1>2, <3>1 DEF PoolHas
  <2> QED
    BY <2>1, <2>2
<1>4. IsPendingNonce(Len(txs))
  BY <1>1, <1>3 DEF IsPendingNonce
<1>5. ASSUME NEW n \in 0..Len(txs), IsPendingNonce(n) PROVE n = Len(txs)
  <2>1. n \in Nat /\ n <= Len(txs) /\ n >= eoaNonce /\ ~PoolHas(n)
    BY <1>1, <1>5 DEF IsPendingNonce
  <2>2. ~(n < Len(txs))
    <3>1. PoolHas(n) <=> n >= eoaNonce /\ n < Len(txs)
      BY <1>3, <2>1, Zenon
    <3> QED
      BY <2>1, <3>1
  <2>3. Len(txs) \in Nat /\ n \in Nat /\ n <= Len(txs)
    BY <1>1
  <2> QED
    BY <2>2, <2>3
<1>6. Len(txs) \in 0..Len(txs)
  BY <1>1
<1> QED
  BY <1>4, <1>5, <1>6, Zenon DEF PendingNonceAt

(* The bundle that is sent takes that nonce and evicts nothing.            *)
LEMMA SendAligned ==
    ASSUME Aligned, phase = "running", UNCHANGED phase, SubmitAccepted(batch)
    PROVE  NonceAligned'
<1>1. /\ Len(txs) \in Nat /\ DOMAIN txs = 1..Len(txs) /\ eoaNonce \in 0..Len(txs)
      /\ pendingNonce = Len(txs) /\ batch \in Seq(Ops) /\ ChainTypeOK
  BY DEF Aligned, TypeOK, LoopTypeOK, ChainTypeOK, NonceAligned
<1>2. NodeAccepts(Len(txs), batch) /\ pendingNonce' = Len(txs) + 1 /\ eoaNonce' = eoaNonce
  BY <1>1 DEF SubmitAccepted, NodeAccepts
<1>3. Len(txs') = Len(txs) + 1 /\ DOMAIN txs' = 1..(Len(txs) + 1)
  BY <1>1, <1>2, NodeAcceptsType
<1>4. txs'[Len(txs) + 1] = [nonce |-> Len(txs), ops |-> batch, state |-> "pool", ok |-> {}]
  BY <1>1, <1>2, OneTxMore
<1>5. ASSUME NEW t \in DOMAIN txs PROVE txs'[t] = txs[t]
  <2>1. txs[t].nonce # Len(txs)
    BY <1>1 DEF Aligned, NonceAligned
  <2> QED
    BY <1>1, <1>2, <2>1, OneTxMore
<1>6. ASSUME NEW t \in 1..(Len(txs) + 1)
      PROVE  txs'[t].nonce = t - 1 /\ (txs'[t].state = "pool" <=> t > eoaNonce)
  <2>1. CASE t = Len(txs) + 1
    BY <1>1, <1>4, <2>1
  <2>2. CASE t \in DOMAIN txs
    BY <1>5, <2>2 DEF Aligned, NonceAligned
  <2> QED
    BY <1>1, <2>1, <2>2
<1> QED
  BY <1>1, <1>2, <1>3, <1>6 DEF NonceAligned

(* Blocks take the pooled transactions in order.                           *)
LEMMA BlockAligned ==
    ASSUME NothingLost, Aligned, ChainNext, UNCHANGED <<pendingNonce, phase>>
    PROVE  NonceAligned'
<1>1. Len(txs) \in Nat /\ DOMAIN txs = 1..Len(txs) /\ eoaNonce \in 0..Len(txs)
  BY DEF Aligned, TypeOK, ChainTypeOK, NonceAligned
<1>2. ASSUME NEW t \in DOMAIN txs, MineSuccess(t) \/ MineRevert(t)
      PROVE  NonceAligned'
  <2>1. PICK st \in {"success", "reverted"}, ok \in SUBSET OpsOf(txs[t].ops) :
          txs' = [txs EXCEPT ![t] = InState(@, st, ok)]
    BY <1>2 DEF MineSuccess, MineRevert
  <2>2. /\ Len(txs') = Len(txs) /\ DOMAIN txs' = DOMAIN txs
        /\ \A u \in DOMAIN txs \ {t} : txs'[u] = txs[u]
        /\ txs'[t].nonce = txs[t].nonce /\ txs'[t].state = st
    BY <2>1 DEF InState, Aligned, TypeOK, ChainTypeOK
  <2>3. txs[t].nonce = eoaNonce /\ eoaNonce' = eoaNonce + 1
    BY <1>2 DEF MineSuccess, MineRevert
  <2>4. t = eoaNonce + 1
    BY <1>1, <2>3 DEF Aligned, NonceAligned
  <2>5. ASSUME NEW u \in DOMAIN txs
        PROVE  txs'[u].nonce = u - 1 /\ (txs'[u].state = "pool" <=> u > eoaNonce')
    <3>1. txs[u].nonce = u - 1 /\ (txs[u].state = "pool" <=> u > eoaNonce)
      BY DEF Aligned, NonceAligned
    <3> QED
      BY <1>1, <2>2, <2>3, <2>4, <3>1
  <2> QED
    BY <1>1, <2>2, <2>3, <2>4, <2>5 DEF Aligned, NonceAligned
<1>3. ASSUME NEW o \in Fragile, Invalidate(o) PROVE NonceAligned'
  BY <1>3 DEF Invalidate, Aligned, NonceAligned
<1>4. ASSUME NEW t \in DOMAIN txs PROVE ~Drop(t)
  BY DEF Drop, NothingLost
<1> QED
  BY <1>2, <1>3, <1>4 DEF ChainNext, Mine

(* Only SignAndSubmit, InitNonce and blocks touch the numbering.           *)
LEMMA AlignedNext ==
    ASSUME NothingLost, Aligned, [Next]_vars
    PROVE  Aligned'
<1>1. TypeOK'
  BY TypeNext DEF Aligned
<1> SUFFICES NonceAligned'
  BY <1>1 DEF Aligned
<1>2. CASE UNCHANGED <<txs, eoaNonce>> /\ (phase' = "running" => phase = "running" /\ UNCHANGED pendingNonce)
  BY <1>2 DEF Aligned, NonceAligned
<1>3. CASE StartServing
  <2>1. pendingNonce' = Len(txs) /\ UNCHANGED <<txs, eoaNonce>>
    BY <1>3, NextNonce DEF StartServing, InitNonce, chainVars
  <2> QED
    BY <2>1 DEF Aligned, NonceAligned
<1>4. CASE ChainStep
  BY <1>4, BlockAligned DEF ChainStep, processVars
<1>5. CASE LoopStep
  <2>1. phase = "running" /\ UNCHANGED phase
    BY <1>5 DEF LoopStep, processVars
  <2>2. CASE FetchPending \/ ClaimBatch \/ EstimateBundle \/ MarkNext
    BY <1>2, <2>1, <2>2 DEF FetchPending, ClaimBatch, EstimateBundle, MarkNext, chainVars
  <2>3. CASE SubmitBundle
    <3>1. CASE SubmitAccepted(batch)
      BY <2>1, <3>1, SendAligned
    <3>2. CASE SubmitStaleNonce(batch)
      <4>1. pendingNonce' = Len(txs) /\ UNCHANGED <<txs, eoaNonce>>
        BY <2>1, <3>2, NextNonce DEF SubmitStaleNonce, chainVars, Aligned, NonceAligned
      <4> QED
        BY <4>1 DEF Aligned, NonceAligned
    <3>3. CASE SubmitFailed(batch)
      BY <1>2, <2>1, <3>3 DEF SubmitFailed, chainVars
    <3> QED
      BY <2>3, <3>1, <3>2, <3>3 DEF SubmitBundle, SubmitLostReply, NothingLost
  <2> QED
    BY <1>5, <2>2, <2>3 DEF LoopStep, Tick
<1>6. CASE Reconcile \/ ReconcileSubmitted \/ WatcherStep \/ PrunerStep \/ Crash \/ ClockStep
  <2>1. UNCHANGED chainVars
    BY <1>6 DEF Reconcile, ReconcileSubmitted, WatcherStep, PrunerStep, Crash, ClockStep,
        TakeSnapshot, ApplySnapshot, FetchReceipt, SettleOp
  <2>2. phase' = "running" => phase = "running" /\ UNCHANGED pendingNonce
    BY <1>6 DEF Reconcile, ReconcileSubmitted, WatcherStep, PrunerStep, Crash, ClockStep,
        processVars
  <2> QED
    BY <1>2, <2>1, <2>2 DEF chainVars
<1>7. CASE (\E o \in Ops : SendUserOperation(o)) \/ UNCHANGED vars
  BY <1>2, <1>7 DEF SendUserOperation, vars, chainVars, processVars
<1> QED
  BY <1>3, <1>4, <1>5, <1>6, <1>7 DEF Next

(* With no reply lost and nothing evicted, the signer's nonce is the one   *)
(* the node expects next in every running state, after any number of       *)
(* restarts (InitNonce, SignAndSubmit and its resynchronisation).          *)
THEOREM NonceKept ==
    ASSUME NothingLost PROVE Spec => []NonceInSync
<1>1. Init => Aligned
  <2>1. Init => NonceAligned
    BY DEF Init, ChainInit, NonceAligned
  <2> QED
    BY <2>1, TypeInit DEF Aligned
<1>2. Aligned /\ [Next]_vars => Aligned'
  BY AlignedNext
<1>3. Aligned => NonceInSync
  <2> SUFFICES ASSUME Aligned, phase = "running" PROVE pendingNonce \in PendingNonceAt
    BY DEF NonceInSync
  <2>1. pendingNonce = Len(txs)
    BY DEF Aligned, NonceAligned
  <2> QED
    BY <2>1, NextNonce
<1> QED
  BY <1>1, <1>2, <1>3, PTL DEF Spec
=============================================================================
