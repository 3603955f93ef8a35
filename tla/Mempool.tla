------------------------------ MODULE Mempool ------------------------------
(***************************************************************************)
(* internal/mempool: the user_operations table and the operations of its   *)
(* Repository.  One variable per column that the bundler ever reads back;  *)
(* every operation is one SQL statement or one SQL transaction, hence one  *)
(* atomic step.  A row that does not exist has status "absent".            *)
(*                                                                         *)
(* The actions here speak of the table only; the modules that extend this  *)
(* one conjoin them with the step of the caller.  Spec is the table under  *)
(* a client that may call anything at any time.                            *)
(***************************************************************************)
EXTENDS Environment, Sequences, FiniteSets

CONSTANTS
    PendingTtl, \* Pruner.pendingTtlMs, in units of the model's clock
    Retention,  \* Pruner.retentionMs
    MaxTime,    \* bound: the clock stops here
    MaxBundle   \* bound of GetPending: config.MaxBundleSize

ASSUME MempoolAssumption ==
    /\ PendingTtl \in Nat
    /\ Retention \in Nat
    /\ MaxTime \in Nat
    /\ MaxBundle \in Nat \ {0}

VARIABLES
    status,         \* column status, or "absent"
    bundleTxHash,   \* column bundle_tx_hash; NoTx is NULL
    bundleIndex,    \* column bundle_index; NoIndex is NULL
    receivedAt,     \* column received_at
    updatedAt,      \* column updated_at
    now             \* time.Now().UnixMilli()

rows == <<status, bundleTxHash, bundleIndex, receivedAt, updatedAt>>
mempoolVars == <<rows, now>>

NoTx == 0
NoIndex == -1

Live == {"pending", "bundling", "submitted"}
Terminal == {"confirmed", "failed", "replaced"}
Statuses == Live \cup Terminal

IsTerminal(s) == s \in Terminal

(* No row is stamped later than the clock.                                 *)
MempoolTypeOK ==
    /\ status \in [Ops -> Statuses \cup {"absent"}]
    /\ bundleTxHash \in [Ops -> Nat]
    /\ bundleIndex \in [Ops -> Nat \cup {NoIndex}]
    /\ receivedAt \in [Ops -> 0..now]
    /\ updatedAt \in [Ops -> 0..now]
    /\ now \in 0..MaxTime

MempoolInit ==
    /\ status = [o \in Ops |-> "absent"]
    /\ bundleTxHash = [o \in Ops |-> NoTx]
    /\ bundleIndex = [o \in Ops |-> NoIndex]
    /\ receivedAt = [o \in Ops |-> 0]
    /\ updatedAt = [o \in Ops |-> 0]
    /\ now = 0

-----------------------------------------------------------------------------
(* Reads.                                                                  *)

GetByStatus(s) == {o \in Ops : status[o] = s}

(* The results GetPending(limit) may return when it returns any row: the   *)
(* oldest pending rows by received_at, in that order, ties in any order.   *)
GetPending(limit) ==
    {b \in UNION {[1..n -> GetByStatus("pending")] : n \in 1..limit} :
        /\ \A i, j \in DOMAIN b : i # j => b[i] # b[j]
        /\ \A i, j \in DOMAIN b : i < j => receivedAt[b[i]] <= receivedAt[b[j]]
        /\ \A o \in GetByStatus("pending") \ {b[i] : i \in DOMAIN b} :
              /\ Len(b) = limit
              /\ receivedAt[o] >= receivedAt[b[limit]]}

-----------------------------------------------------------------------------
(* Writes.                                                                 *)

(* A row of o with a live status would not violate idx_userop_sender_nonce *)
(* once the rows in gone have left it.                                     *)
SlotFree(o, gone) ==
    \A p \in Ops \ (gone \cup {o}) : SameSlot(o, p) => status[p] \notin Live

(* Mutant: received_at from a clock that runs ahead of the others.         *)
NewRowStampedAhead(o) ==
    /\ bundleTxHash' = [bundleTxHash EXCEPT ![o] = NoTx]
    /\ bundleIndex' = [bundleIndex EXCEPT ![o] = NoIndex]
    /\ receivedAt' = [receivedAt EXCEPT ![o] = now + 1]

(* The columns of a new row: never bundled, received now.                  *)
NewRow(o) ==
    /\ bundleTxHash' = [bundleTxHash EXCEPT ![o] = NoTx]
    /\ bundleIndex' = [bundleIndex EXCEPT ![o] = NoIndex]
    /\ receivedAt' = [receivedAt EXCEPT ![o] = now]

(* Mutant: no unique index on (sender, nonce).                             *)
InsertWithoutIndex(o) ==
    /\ status[o] = "absent"
    /\ status' = [status EXCEPT ![o] = "pending"]
    /\ updatedAt' = [updatedAt EXCEPT ![o] = now]
    /\ NewRow(o)

(* Fails, changing nothing, on the primary key (any row of the same hash,  *)
(* terminal ones included) or on the unique index.                         *)
Insert(o) ==
    /\ status[o] = "absent"
    /\ SlotFree(o, {})
    /\ status' = [status EXCEPT ![o] = "pending"]
    /\ updatedAt' = [updatedAt EXCEPT ![o] = now]
    /\ NewRow(o)

(* One transaction: the old row must still be pending, and if the new row  *)
(* cannot be inserted the old one is not marked either.                    *)
Replace(old, new) ==
    /\ status[old] = "pending"
    /\ status[new] = "absent"
    /\ SlotFree(new, {old})
    /\ status' = [status EXCEPT ![old] = "replaced", ![new] = "pending"]
    /\ updatedAt' = [updatedAt EXCEPT ![old] = now, ![new] = now]
    /\ NewRow(new)

(* Mutant: the claim does not ask for pending rows.                        *)
ClaimWithoutGuard(S) ==
    /\ status' = [o \in Ops |-> IF o \in S THEN "bundling" ELSE status[o]]
    /\ updatedAt' = [o \in Ops |-> IF o \in S THEN now ELSE updatedAt[o]]
    /\ UNCHANGED <<bundleTxHash, bundleIndex, receivedAt>>

(* One transaction: every row must still be pending, or none is claimed.   *)
ClaimForBundling(S) ==
    /\ \A o \in S : status[o] = "pending"
    /\ status' = [o \in Ops |-> IF o \in S THEN "bundling" ELSE status[o]]
    /\ updatedAt' = [o \in Ops |-> IF o \in S THEN now ELSE updatedAt[o]]
    /\ UNCHANGED <<bundleTxHash, bundleIndex, receivedAt>>

(* UpdateStatus does not look at the status it overwrites.  It fails, and  *)
(* writes nothing, when the row is gone or the unique index objects.       *)
UpdateAccepted(o, s) ==
    /\ status[o] # "absent"
    /\ s \in Live => SlotFree(o, {})

(* Mutant: the fields of StatusExtra are not written.                      *)
UpdateForgetsTx(o, s, tx, idx) ==
    IF UpdateAccepted(o, s)
    THEN /\ status' = [status EXCEPT ![o] = s]
         /\ updatedAt' = [updatedAt EXCEPT ![o] = now]
         /\ UNCHANGED <<bundleTxHash, bundleIndex, receivedAt>>
    ELSE UNCHANGED rows

(* A nil field of StatusExtra (NoTx, NoIndex) leaves its column alone: a   *)
(* row reset to pending keeps the hash of the transaction it left.         *)
UpdateStatus(o, s, tx, idx) ==
    IF UpdateAccepted(o, s)
    THEN /\ status' = [status EXCEPT ![o] = s]
         /\ updatedAt' = [updatedAt EXCEPT ![o] = now]
         /\ bundleTxHash' = IF tx = NoTx THEN bundleTxHash
                            ELSE [bundleTxHash EXCEPT ![o] = tx]
         /\ bundleIndex' = IF idx = NoIndex THEN bundleIndex
                           ELSE [bundleIndex EXCEPT ![o] = idx]
         /\ UNCHANGED receivedAt
    ELSE UNCHANGED rows

(* The call as its callers see it: they log or ignore an error and go on.  *)
TryUpdateStatus(o, s, tx, idx) ==
    \/ UpdateStatus(o, s, tx, idx)
    \/ "dbError" \in Faults /\ UNCHANGED rows

ResetBundlingToPending ==
    /\ status' = [o \in Ops |->
                    IF status[o] = "bundling" THEN "pending" ELSE status[o]]
    /\ updatedAt' = [o \in Ops |->
                    IF status[o] = "bundling" THEN now ELSE updatedAt[o]]
    /\ UNCHANGED <<bundleTxHash, bundleIndex, receivedAt>>

(* Mutant: the time to live also runs out for rows being worked on.        *)
ExpiredAnyLive(cutoff) ==
    {o \in Ops : status[o] \in Live /\ receivedAt[o] < cutoff}

Expired(cutoff) == {o \in Ops : status[o] = "pending" /\ receivedAt[o] < cutoff}

MarkTtlExpired(cutoff) ==
    /\ status' = [o \in Ops |->
                    IF o \in Expired(cutoff) THEN "failed" ELSE status[o]]
    /\ updatedAt' = [o \in Ops |->
                    IF o \in Expired(cutoff) THEN now ELSE updatedAt[o]]
    /\ UNCHANGED <<bundleTxHash, bundleIndex, receivedAt>>

History(cutoff) == {o \in Ops : IsTerminal(status[o]) /\ updatedAt[o] < cutoff}

PruneHistory(cutoff) ==
    LET gone == History(cutoff) IN
    /\ status' = [o \in Ops |-> IF o \in gone THEN "absent" ELSE status[o]]
    /\ bundleTxHash' = [o \in Ops |-> IF o \in gone THEN NoTx ELSE bundleTxHash[o]]
    /\ bundleIndex' = [o \in Ops |-> IF o \in gone THEN NoIndex ELSE bundleIndex[o]]
    /\ receivedAt' = [o \in Ops |-> IF o \in gone THEN 0 ELSE receivedAt[o]]
    /\ updatedAt' = [o \in Ops |-> IF o \in gone THEN 0 ELSE updatedAt[o]]

(* The clock the rows are stamped with.                                    *)
Advance ==
    /\ now < MaxTime
    /\ now' = now + 1
    /\ UNCHANGED rows

-----------------------------------------------------------------------------
(* The table alone, under a client that calls the Repository at will: any  *)
(* set of hashes to claim, any status and extra columns, any cutoff.       *)

RepositoryCall ==
    \/ \E o \in Ops : Insert(o)
    \/ \E old, new \in Ops : Replace(old, new)
    \/ \E S \in SUBSET Ops \ {{}} : ClaimForBundling(S)
    \/ \E o \in Ops, s \in Statuses, tx \in {NoTx, 1}, idx \in {NoIndex, 0} :
          UpdateStatus(o, s, tx, idx)
    \/ ResetBundlingToPending
    \/ \E cutoff \in 0..MaxTime : MarkTtlExpired(cutoff) \/ PruneHistory(cutoff)

MempoolNext ==
    \/ RepositoryCall /\ UNCHANGED now
    \/ Advance

MempoolSpec == MempoolInit /\ [][MempoolNext]_mempoolVars

-----------------------------------------------------------------------------
(* Two rows that are still being worked on never compete for one EntryPoint*)
(* nonce, whatever sequence of calls built the table (the partial unique   *)
(* index idx_userop_sender_nonce under Insert, Replace and UpdateStatus).  *)
LiveSlotUnique ==
    \A o, p \in Ops :
        o # p /\ SameSlot(o, p) => ~(status[o] \in Live /\ status[p] \in Live)
=============================================================================
