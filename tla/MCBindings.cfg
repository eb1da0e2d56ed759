SPECIFICATION Spec
CONSTANTS
    Cells = {t1, t2}
    MaxForks = 0
    Payloads = {o1}
    Proposals = {p1}
    ReplyKeys = {k1, k2}
    NoPayload = NoPayload
    NoPsbt = NoPsbt
    NoKey = NoKey
    Fallback = Fallback
SYMMETRY Symmetry
INVARIANTS
    StoredLogReplays
    BoundSessionSaysOneThing
