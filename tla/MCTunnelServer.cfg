SPECIFICATION FairSpec
CONSTANTS
    None = None
    Conns = {c1, c2, c3}
    Keys <- MCKeys
    Names <- MCKeys
    HostID <- MCHostID
INVARIANTS
    OpenIsRoutable
    NoOrphanEntry
    PendingNotLive
    NoLeakedRecord
PROPERTY
    DeadEntryRemoved
