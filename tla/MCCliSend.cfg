SPECIFICATION Spec
CONSTANTS
    Ids = {s1, s2}
    Uris = {"u1", "u2", "u3"}
    KeyOf <- MCKeyOf
    Relays = {a, b}
    Directories = {}
INVARIANTS
    PaidOnce
PROPERTIES
    SessionsEnd
