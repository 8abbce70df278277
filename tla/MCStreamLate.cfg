SPECIFICATION Spec
CONSTANTS
    Half = 4
    First = 6
    Last = 11
    Window = 2
    Late = TRUE
    PacketLen <- MCPacketLen
INVARIANTS KeysOrdered GapsRequested AskedWithinStream
