SPECIFICATION ProcessSpec
CONSTANTS
    Barges = {b1}
    Servers = {s1}
    MaxRestarts = 2
    ClientConfigs <- MCClientConfigs
    Streams = {t1, t2}
    MaxStreams = 1
PROPERTIES
    KilledAfterGrace
CHECK_DEADLOCK FALSE
