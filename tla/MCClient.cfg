SPECIFICATION MCSpec
CONSTANTS
    Escrows = {e1, e2}
    None = None
    Torn = Torn
    Mixed = Mixed
    Update = Update
    Archive = Archive
    Note = Note
    Auth = Auth
    MaxStreams = 2
    MaxChanges = 2
    Starts = {g1, g2, g3}
    NoStream = NoStream
    Nonces = {n1, n2}
    Attempts = {a1, a2}
    Wallets = {w1, w2}
    Scalar <- Seven
    Zero = 0
    One = 1
    Plus <- PlusMod
    Neg <- NegMod
    Times <- TimesMod
    EvenY <- FirstThreeAreEven
    Challenge <- ChallengeOf
    Overflow = Overflow
    BranchHash <- HashOf
    Digest <- DigestOf
    RefundDigest = 3
    InputCap = 2
    MaxCalls = 2
    MaxDue = 1
    ResultCap = 2
    MaxEngines = 2
    MaxCommands = 1
    MaxNotes = 3
INVARIANTS
    ClientTypeOK
    KeyIsKept
    OwnDepositIsRefundable
    KeyFileIsCurrent
    NothingOutlivesHandlers
    AloneIsRegistered
    ReadyIsInSync
    ReadStreamIsRemembered
    NonceLogsInOnce
    SignaturesVerify
    OursIsAccepted
    PaddleRests
    AnswersComeHome
PROPERTIES
    TheLinkSettles
CHECK_DEADLOCK FALSE
