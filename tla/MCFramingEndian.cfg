CONSTANTS
    Builds <- EndianBuilds
    BinaryMessages <- MCBinaryMessages
    TextMessages <- MCTextMessages
    Base = 3
    IdBytes = 2
    SizeBytes = 2
    StreamCapacity = 4
SPECIFICATION Spec
INVARIANT SizeAsSent
