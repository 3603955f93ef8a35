--------------------------- MODULE UserOpService ---------------------------
(***************************************************************************)
(* What a client is promised, with no loop, watcher, restart or chain in   *)
(* sight: an operation is accepted only if no other one is open for its    *)
(* nonce; only open operations are sent to the EntryPoint, only sent ones  *)
(* execute, at most one per nonce and each at most once; an operation is   *)
(* confirmed only after it executed; a verdict is never revised, and only  *)
(* closed operations are forgotten.                                        *)
(***************************************************************************)
EXTENDS Environment

VARIABLES
    answer,     \* what the service has recorded of each operation
    sent,       \* operations ever put into a transaction
    executed    \* operations that ran successfully on chain

serviceVars == <<answer, sent, executed>>

ServiceInit ==
    /\ answer = [o \in Ops |-> "unknown"]
    /\ sent = {}
    /\ executed = {}

Accept(o) ==
    /\ answer[o] = "unknown"
    /\ \A p \in Ops \ {o} : SameSlot(o, p) => answer[p] # "open"
    /\ answer' = [answer EXCEPT ![o] = "open"]
    /\ UNCHANGED <<sent, executed>>

Send(S) ==
    /\ \A o \in S : answer[o] = "open"
    /\ sent' = sent \cup S
    /\ UNCHANGED <<answer, executed>>

Execute(S) ==
    /\ S \subseteq sent \ executed
    /\ \A o \in S, p \in S \cup executed : o # p => ~SameSlot(o, p)
    /\ executed' = executed \cup S
    /\ UNCHANGED <<answer, sent>>

Confirm(o) ==
    /\ answer[o] = "open"
    /\ o \in executed
    /\ answer' = [answer EXCEPT ![o] = "confirmed"]
    /\ UNCHANGED <<sent, executed>>

Fail(S) ==
    /\ \A o \in S : answer[o] = "open"
    /\ answer' = [o \in Ops |-> IF o \in S THEN "failed" ELSE answer[o]]
    /\ UNCHANGED <<sent, executed>>

Forget(S) ==
    /\ \A o \in S : answer[o] \in {"confirmed", "failed"}
    /\ answer' = [o \in Ops |-> IF o \in S THEN "unknown" ELSE answer[o]]
    /\ UNCHANGED <<sent, executed>>

ServiceNext ==
    \/ \E o \in Ops : Accept(o) \/ Confirm(o)
    \/ \E S \in SUBSET Ops : Send(S) \/ Execute(S) \/ Fail(S) \/ Forget(S)

ServiceSpec == ServiceInit /\ [][ServiceNext]_serviceVars
=============================================================================
