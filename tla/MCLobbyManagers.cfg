SPECIFICATION Spec
CONSTANTS
    A = A
    B = B
    C = C
    a1 = a1
    a2 = a2
    b1 = b1
    Players = {A, B, C}
    Rooms = {r1, r2}
    Streams = {a1, b1}
    CallerOf <- MCCallerOf
    Games = {g1}
    RoomCap = 2
    MaxLeaves = 0
    None = None
INVARIANT NoManagerDuringGame
CHECK_DEADLOCK FALSE
