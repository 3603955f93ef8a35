CONSTANTS
    a = a
    rival = rival
    next = next
    other = other
    alice = alice
    bob = bob
    Senders = {alice, bob}
    sender <- MCsender
    nonce <- MCnonce
    Ops = {a, next}
    Fragile = {}
    Faults = {}
    MaxBundle = 1
    MaxTxs = 2
    MaxCrashes = 0
    PendingTtl = 0
    Retention = 0
    MaxTime = 0
SPECIFICATION Spec
INVARIANTS
    RejectedStaysInvalid
