SPECIFICATION Spec
CONSTANTS
    None = None
    Conns = {c1, c2}
    Keys <- MCKeys
    Names <- MCKeys
    HostID <- MCHostID
INVARIANT
    LiveTunnelPublished
