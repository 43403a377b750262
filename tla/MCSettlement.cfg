SPECIFICATION Spec
CONSTANTS
    A = A
    B = B
    a1 = a1
    b1 = b1
    b2 = b2
    Players = {A, B}
    Rooms = {r1}
    Escrows = {a1, b1, b2}
    Inputs <- MCInputs
    Streams = {h1, h2}
    Games = {g1}
    OwnerOf <- MCOwnerOf
    InputOf <- MCInputOf
    Flaky = {a1}
    RoomCap = 2
    MaxLeaves = 1
    None = None
SYMMETRY Symmetry
INVARIANTS
    TypeOK
    PresignServesOwner
    SettlementIsAuthorized
    UndisturbedGameSettles
CHECK_DEADLOCK FALSE
