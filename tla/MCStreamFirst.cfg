SPECIFICATION Spec
CONSTANTS
    Half = 6
    First = 9
    Last = 13
    Window = 4
    Late = FALSE
    PacketLen <- MCPacketLen
INVARIANT FirstPacketRequested
