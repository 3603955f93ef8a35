CONSTANTS
    a = a
    rival = rival
    next = next
    other = other
    alice = alice
    bob = bob
    Senders = {alice, bob}
    sender <- MCsender
    nonce <- MCnonce
    Ops = {a, next}
    Fragile = {}
    Faults = {"crash", "dbError", "rpcError", "lostReply", "drop", "outOfGas"}
    MaxBundle = 2
    MaxTxs = 2
    MaxCrashes = 1
    PendingTtl = 0
    Retention = 0
    MaxTime = 1
SPECIFICATION Spec
INVARIANTS
    TypeOK
    LoopOwnsBatch
    SnapshotIsFresh
    SubmittedIsInItsTx
    ConfirmedWasExecuted
PROPERTIES
    TerminalIsFinal
    SubmittedUntilMined
    ImplementsService
