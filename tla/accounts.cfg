SPECIFICATION Spec
CONSTANTS
    a = a
    b = b
    r1 = r1
    r2 = r2
    r3 = r3
    v1 = v1
    v2 = v2
    v3 = v3
    k1 = k1
    t1 = t1
    h1 = h1
    None = None
    Requests = {r1, r2, r3}
    Seeded = {a, b}
    Values = {v1, v2, v3}
    Passwords = {"p0", "p1"}
    Plans <- MCPlans
    SeedRecords <- MCSeedRecords
    SeedKeys <- MCKeys
    SeedTokens <- MCTokens
    SeedHooks <- MCHooks
    MaxFaults = 1
INVARIANTS TypeOK RecordsAreSerial IndexesAgree SessionsEnd RevokedKeyIsDead DeletedUserIsGone
PROPERTIES AdminsAreMade
SYMMETRY Symmetry
