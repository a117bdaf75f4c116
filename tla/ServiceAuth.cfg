SPECIFICATION AuthSpec
CONSTANTS
    alice = alice
    old = old
    new = new
    foreign = foreign
    Keys = {alice}
    Callers = {c1, c2}
    None = None
    NoKey = NoKey
    KeyPairs = {old, new, foreign}
    P256 = {new, foreign}
    KeyOf <- MCKeyOf
    Docs <- MCDocs
    MaxSize = 1
    Share = 1
    TTL = 2
    NegativeTTL = 0
    Timeout = 1
    CacheFailures = FALSE
    Failing = {alice}
    MaxTime = 3
    MaxLifetime = 1
    SecretSet = TRUE
    Arriving <- MCArriving
SYMMETRY MCSymmetry
INVARIANTS AuthenticCaller RotationTakesEffect UsedInTime
