CONSTANTS
    a = a
    rival = rival
    next = next
    other = other
    alice = alice
    bob = bob
    Senders = {alice, bob}
    sender <- MCsender
    nonce <- MCnonce
    Ops = {a, other}
    Fragile = {a}
    Faults = {}
    MaxBundle = 2
    MaxTxs = 2
    MaxCrashes = 0
    PendingTtl = 0
    Retention = 0
    MaxTime = 0
SPECIFICATION Spec
PROPERTIES
    OnlyOffenderFails
