SPECIFICATION Spec
CONSTANTS
    Half = 6
    First = 9
    Last = 13
    Window = 4
    Late = TRUE
    PacketLen <- MCPacketLen
PROPERTY FlushRemovesAllBefore
