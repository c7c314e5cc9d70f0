CONSTANTS
    f1 = f1  f2 = f2  h1 = h1  h2 = h2  p1 = p1  p2 = p2
    NULL = NULL
    Function <- OneFunction
    Handle = {h1}
    Addr <- TwoAddr
    WireCapacity = 1
    IdModulus = 2
    MaxCalls = 3
    MAX_CLIENT_MSG_BUFFER_SIZE = 1
    OneHandle = TRUE
    Quiet = TRUE
SPECIFICATION FairSpec
INVARIANTS TypeOK CallbackGetsItsResult
PROPERTIES CallsAnswered
