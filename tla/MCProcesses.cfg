SPECIFICATION ProcessSpec
CONSTANTS
    Barges = {b1}
    Servers = {s1}
    MaxRestarts = 2
    ClientConfigs <- MCClientConfigs
    Streams = {t1, t2}
    MaxStreams = 1
INVARIANTS
    ProcessTypeOK
    PublicURLReaches
PROPERTIES
    FleetStops
    DeadLeavesPool
    HeartbeatRenews
    ClientStops
    RefreshRepairs
    SlotsReturn
CHECK_DEADLOCK FALSE
