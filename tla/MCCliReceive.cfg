SPECIFICATION AppSpec
CONSTANTS
    Ids = {r1, r2}
    Uris = {"receive"}
    KeyOf <- MCKeyOf
    Originals <- MCOriginals
    Relays = {a}
    Directories = {d}
    Exchanges = {x1, x2}
    MaxPayments = 2
INVARIANTS
    InputsProbedOnce
    FallbackReported
PROPERTIES
    SessionsEnd
