SPECIFICATION FairSpec
CONSTANTS
    Half = 4
    First = 5
    Last = 13
    Window = 2
    Late = FALSE
    PacketLen <- MCPacketLen
INVARIANTS TypeOK NothingLost
PROPERTIES PlaysInOrder SilenceOnlyWhenStarved PlaysAsIdeal EventuallyPlayed
