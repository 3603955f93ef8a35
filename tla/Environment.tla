---------------------------- MODULE Environment ----------------------------
(***************************************************************************)
(* What the bundler is deployed with: the UserOperations clients may send, *)
(* and the faults the surroundings of the process may show.                *)
(*                                                                         *)
(* A UserOperation is known by its hash (core.ComputeUserOpHash), so an    *)
(* element of Ops stands for the hash and for everything that is hashed.   *)
(* Of its fields the bundler's own logic tells apart only sender and nonce.*)
(***************************************************************************)
EXTENDS Integers

CONSTANTS
    Ops,        \* the UserOperations (their hashes) that clients may send
    Senders,    \* the smart accounts they come from
    sender,     \* [Ops -> Senders], field Sender
    nonce,      \* [Ops -> Nat], field Nonce: the EntryPoint nonce it spends
    Faults      \* which of FaultKinds may happen

(* "crash"     the process dies at any point and is started again          *)
(* "dbError"   a mempool write fails (SQLITE_BUSY: several connections, no *)
(*             busy timeout) and nothing is written                        *)
(* "rpcError"  a call to the node fails before it has any effect           *)
(* "lostReply" the node takes a transaction but the caller sees an error   *)
(* "drop"      the node evicts a transaction from its pool                 *)
(* "outOfGas"  a bundle of valid operations reverts when it is mined       *)
FaultKinds == {"crash", "dbError", "rpcError", "lostReply", "drop", "outOfGas"}

ASSUME OpsAssumption ==
    /\ sender \in [Ops -> Senders]
    /\ nonce \in [Ops -> Nat]

ASSUME FaultsAssumption == Faults \subseteq FaultKinds

(* The key of the mempool's unique index: one (sender, nonce) pair.        *)
SameSlot(o, p) == sender[o] = sender[p] /\ nonce[o] = nonce[p]
=============================================================================
