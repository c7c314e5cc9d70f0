CONSTANTS
    Byte <- MCByte
    Items <- MCItems
    m_max_size = 2
    m_packet_size = 2
    LinkCapacity = 2
    Driver = "shared"
    LoopBack = TRUE
    MaxReadSize = 2
    Builds <- MCBuilds
    BinaryMessages <- MCBinaryMessages
    TextMessages <- MCTextMessages
    Base = 3
    IdBytes = 1
    SizeBytes = 1
SPECIFICATION TransferFairSpec
PROPERTIES ImplementsFraming MessagesGetThrough
