CONSTANTS
    a = a
    b = b
    c = c
    alice = alice
    Ops = {a, b, c}
    Senders = {alice}
    sender <- MCsender
    nonce <- MCnonce
    Faults = {}
    MaxOther = 1
    MaxWords = 3
SPECIFICATION LogsSpec
CHECK_DEADLOCK FALSE
INVARIANTS
    OutcomesAreTruthful
