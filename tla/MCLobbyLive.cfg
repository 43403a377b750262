SPECIFICATION FairSpec
CONSTANTS
    A = A
    B = B
    C = C
    a1 = a1
    a2 = a2
    b1 = b1
    Players = {A, B}
    Rooms = {r1}
    Streams = {a1, b1}
    CallerOf <- MCCallerOf
    Games = {g1}
    RoomCap = 2
    MaxLeaves = 1
    None = None
PROPERTIES
    RoomGetsManager
    ReadyPlayersPlay
    CancelledGameEnds
CHECK_DEADLOCK FALSE
