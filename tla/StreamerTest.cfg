CONSTANTS
    Byte <- TestBytes
    Items <- TestItems
    m_max_size = 4
    m_packet_size = 3
    LinkCapacity = 3
    Driver = "shared"
    LoopBack = TRUE
    MaxReadSize = 4
    MEM_SIZE = 26
    MaxChunk = 4
SPECIFICATION TestSpec
INVARIANTS MemoryBlocksMatch ReceivedIsPrefix
PROPERTIES TestCompletes
