---------------------------- MODULE ReceiptLogs ----------------------------
(***************************************************************************)
(* internal/bundler/receipt.go: what ParseHandleOpsReceipt makes of the    *)
(* logs of a mined bundle.  The state is the receipt as the EntryPoint and *)
(* the contracts it calls build it, operation by operation (external); the *)
(* parser is an operator on it.  ReceiptWatcher takes the outcomes of a    *)
(* bundle for granted: this module is why it may.                          *)
(***************************************************************************)
EXTENDS Environment, SequencesExt

CONSTANTS
    MaxOther,   \* bound: logs in one receipt beside those of operations
    MaxWords    \* bound: words of data in such a log

ASSUME LogsAssumption == MaxOther \in Nat /\ MaxWords \in Nat

VARIABLES
    todo,       \* the operations still to be executed, in order
    logs,       \* receipt.Logs so far
    result      \* how each executed operation really ended

logVars == <<todo, logs, result>>

(* A failed call returns revert data or not; only then a reason is logged. *)
Results == {"ok", "failedWithReason", "failedSilently"}

(* A log: the emitting contract, Topics[0] (topic), how many topics, the   *)
(* operation whose hash is Topics[1], how many words of data, and whether  *)
(* the second of them is 1.                                                *)
Logs(address, topic) ==
    [address : address, topic : topic, topics : 0 .. 4, op : Ops,
     words : 0 .. MaxWords, success : BOOLEAN]

LogsInit ==
    /\ todo \in UNION {SetToSeqs(S) : S \in {T \in SUBSET Ops : T # {} /\ IsFiniteSet(T)}}
    /\ logs = <<>>
    /\ result = [o \in Ops |-> "none"]

-----------------------------------------------------------------------------
(* The parser.                                                             *)

NoOutcome == [found |-> FALSE, success |-> FALSE, reason |-> FALSE]

(* The logs that are not skipped, wherever they come from.                 *)
Readable(log) ==
    /\ log.topic \in {"event", "reason"}
    /\ log.topics >= 2
    /\ log.words >= 3

(* An event makes a new outcome, without a reason; a reason is added to    *)
(* the outcome there is, or to a new one that says failure.                *)
OutcomeOf(log, before) ==
    IF log.topic = "event"
    THEN [found |-> TRUE, success |-> log.success, reason |-> FALSE]
    ELSE [found |-> TRUE, success |-> before.success, reason |-> TRUE]

(* Mutant: the emitting contract is not looked at.                         *)
ReadLogOfAnyone(outcomes, log) ==
    IF Readable(log)
    THEN [outcomes EXCEPT ![log.op] = OutcomeOf(log, @)]
    ELSE outcomes

(* One turn of the loop over receipt.Logs.                                 *)
ReadLog(outcomes, log) ==
    IF log.address = "entryPoint" /\ Readable(log)
    THEN [outcomes EXCEPT ![log.op] = OutcomeOf(log, @)]
    ELSE outcomes

ParseHandleOpsReceipt(ls) ==
    FoldLeft(ReadLog, [o \in Ops |-> NoOutcome], ls)

-----------------------------------------------------------------------------
(* External: EntryPoint v0.7 executing the bundle.                         *)

EventLog(o, success) ==
    [address |-> "entryPoint", topic |-> "event", topics |-> 4, op |-> o,
     words |-> 4, success |-> success]

ReasonLog(o) ==
    [address |-> "entryPoint", topic |-> "reason", topics |-> 3, op |-> o,
     words |-> 4, success |-> FALSE]

(* innerHandleOp logs the reason before _postExecution logs the event.     *)
Emits(o, r) ==
    IF r = "failedWithReason" THEN <<ReasonLog(o), EventLog(o, FALSE)>>
    ELSE <<EventLog(o, r = "ok")>>

ExecuteOp ==
    /\ todo # <<>>
    /\ \E r \in Results :
          /\ result' = [result EXCEPT ![Head(todo)] = r]
          /\ logs' = logs \o Emits(Head(todo), r)
    /\ todo' = Tail(todo)

OtherLogs == {i \in DOMAIN logs : logs[i].address = "other" \/ logs[i].topic = "other"}

(* The inner call of an operation makes a contract log what it likes, the  *)
(* look of an EntryPoint event for any operation included; the EntryPoint  *)
(* logs deposits, deployments and the like.                                *)
OtherLog ==
    /\ todo # <<>>
    /\ Cardinality(OtherLogs) < MaxOther
    /\ \E l \in Logs({"other"}, {"event", "reason", "other"})
                   \cup Logs({"entryPoint"}, {"other"}) :
          logs' = Append(logs, l)
    /\ UNCHANGED <<todo, result>>

LogsNext == OtherLog \/ ExecuteOp

LogsSpec == LogsInit /\ [][LogsNext]_logVars

-----------------------------------------------------------------------------
(* Whatever else is in the receipt, the parser finds an outcome for just   *)
(* the operations that ran, with the success the EntryPoint reported: the  *)
(* statuses the watcher writes come from the operation's own event.        *)
OutcomesAreTruthful ==
    \A o \in Ops : LET outcome == ParseHandleOpsReceipt(logs)[o] IN
        /\ outcome.found <=> result[o] # "none"
        /\ outcome.success <=> result[o] = "ok"
=============================================================================
