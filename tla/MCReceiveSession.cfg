SPECIFICATION Spec
CONSTANTS
    o1 = o1
    o2 = o2
    p1 = p1
    p2 = p2
    Payloads = {o1, o2}
    V2Payloads = {o1}
    StablePayloads = {o1}
    Proposals = {p1, p2}
    OutputCount <- MCOutputCount
    NoPayload = NoPayload
    NoPsbt = NoPsbt
    Fallback = Fallback
INVARIANTS
    TypeOK
    ReplayMatchesLive
    NeverEquivocates
    ClosedSessionsEnded
    FallbackAgrees
    StatusAgrees
PROPERTIES
    ClosedIsFinal
    ImplementsContract
