CONSTANTS
    a = a
    rival = rival
    next = next
    other = other
    alice = alice
    bob = bob
    Senders = {alice, bob}
    sender <- MCsender
    nonce <- MCnonce
    Ops = {a, rival, next}
    Fragile = {a}
    Faults = {"dbError", "rpcError", "outOfGas"}
    MaxBundle = 2
    MaxTxs = 3
    MaxCrashes = 0
    PendingTtl = 0
    Retention = 1
    MaxTime = 1
SPECIFICATION Spec
INVARIANTS
    LiveSlotUnique
    NoDoubleSubmission
    FailedWasNotExecuted
    NonceInSync
    UpdatesAreAccepted
