CONSTANTS
    a = a
    rival = rival
    next = next
    other = other
    alice = alice
    bob = bob
    Senders = {alice, bob}
    sender <- MCsender
    nonce <- MCnonce
    Ops = {a, next}
    Fragile = {a}
    Faults = {"crash", "rpcError"}
    MaxBundle = 2
    MaxTxs = 5
    MaxCrashes = 1
    PendingTtl = 0
    Retention = 0
    MaxTime = 0
SPECIFICATION FairSpec
PROPERTIES
    BundlingEnds
    EveryOpSettles
