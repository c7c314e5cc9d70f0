CONSTANTS
    Byte <- MCBytes
    Items <- MCItems
    m_max_size = 2
    m_packet_size = 2
    LinkCapacity = 2
    Driver = "whole"
    LoopBack = FALSE
    MaxReadSize = 2
    MaxWriteSize = 3
    Modulus = 3
    MaxResets = 2
SPECIFICATION MCFairSpec
INVARIANTS TypeOK RingsConsistent WrapSafe
PROPERTIES IsByteStream TransportConserves WriteAppends TxRingDrains
