CONSTANTS
    Games <- MCGames
    Base = 64
    MaxDatagram = 550
    MaxUdp = 548
    MaxNumber = 1000
    MaxPlayer = 2
    MaxPipe = 1
    MaxCuts = 1
SPECIFICATION FairSpec
CHECK_DEADLOCK FALSE
INVARIANTS
    TypeOK
    PackedInOrder
    OnlyMisfitsAreRefused
    ScreenFollowsLog
    CrashHasCause
PROPERTIES
    WritingEnds
    GameIsReadToItsEnd
