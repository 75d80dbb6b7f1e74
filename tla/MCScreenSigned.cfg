CONSTANTS
    Games <- MCGames
    Base = 64
    MaxDatagram = 550
    MaxUdp = 548
    MaxNumber = 1000
    MaxPlayer = 2
    MaxPipe = 1
    MaxCuts = 1
SPECIFICATION Spec
CHECK_DEADLOCK FALSE
INVARIANT NumbersAreShownAsSent
