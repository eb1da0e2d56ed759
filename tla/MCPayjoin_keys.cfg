SPECIFICATION Spec
CONSTANTS
    s1 = s1
    s2 = s2
    Senders = {s1, s2}
    StableSenders = {s1}
    Receiver = Receiver
    Proposals = {p1}
    NoPsbt = NoPsbt
    Fallback = Fallback
    NoMessage = NoMessage
    MaxCrashes = 1
CHECK_DEADLOCK FALSE
INVARIANT
    KeysSurviveRestart
