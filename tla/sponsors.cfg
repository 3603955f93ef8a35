CONSTANTS
    alice = alice
    bob = bob
    one = one
    two = two
    r1 = r1
    r2 = r2
    r3 = r3
    r4 = r4
    NoCode = NoCode
    Nobody = Nobody
    Accounts = {alice, bob}
    Codes = {one, two}
    Requests = {r1, r2, r3, r4}
    account <- MCaccount
    code <- MCcode
    DbErrors = TRUE
SPECIFICATION SponsorSpec
INVARIANTS
    CodesMatchSenders
    SignedIsWhitelisted
