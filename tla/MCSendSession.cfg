SPECIFICATION Spec
CONSTANTS
    ReplyKeys = {k1, k2}
    Proposals = {p1, p2}
    MaxEvents = 6
    NoKey = NoKey
    NoPsbt = NoPsbt
INVARIANTS
    TypeOK
    ReplayMatchesLive
    OneProposal
PROPERTIES
    ImplementsContract
