CONSTANTS
    a = a
    b = b
    c = c
    d = d
    k1 = k1
    Requests = {a, b, c, d}
    Keys = {k1}
    Payloads = {"create", "pay"}
    KeyOf <- MCKeyOf
    PayloadOf <- MCPayloadOf
    Creators = {a, b}
    None = None
    Refused = Refused
    MaxCrashes = 2
SPECIFICATION FairSpec
INVARIANTS
    LandedOncePerKey
PROPERTIES
    PromiseKept
    RequestsAnswered
