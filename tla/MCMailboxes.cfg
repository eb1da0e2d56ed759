SPECIFICATION Spec
CONSTANTS
    Ids = {i1, i2, i3}
    Payloads = {m1, m2}
    Requests = {r1, r2, r3}
    Capacity = 2
    TTL = 1
    MaxTime = 3
    Faults = {"restart", "disconnect", "disk"}
    None = None
    Dropped = Dropped
SYMMETRY StoreSymmetry
INVARIANTS
    OneKindPending
    ReaderKeepsChannel
    NoLostWakeup
    WithinCapacity
    FilesTracked
PROPERTIES
    FirstWriterWins
