CONSTANTS
    f1 = f1  f2 = f2  h1 = h1  h2 = h2  p1 = p1  p2 = p2
    NULL = NULL
    Function <- TwoFunctions
    Handle <- TwoHandles
    Addr <- TwoAddr
    WireCapacity = 1
    IdModulus = 2
    MaxCalls = 2
    MAX_CLIENT_MSG_BUFFER_SIZE = 1
    OneHandle = FALSE
    Quiet = FALSE
SYMMETRY Symmetric
CONSTRAINT UpToFault
SPECIFICATION Spec
INVARIANTS RegistriesAgree FaultOnlyByMisuse PendingInOrder
