CONSTANTS
    Peers = {1, 2, 3}
    Leaving = {1, 2}
    Keys = {1}
    MaxPlayers = 3
    Addr = {1, 2, 3}
    NoAddr = 0
    HostPort <- MCHostPort
    Name = {1, 2, 3}
    NoName = 0
    Session = {1}
    Arrivals <- MCArrivals
    BoardWidth = 2
    BoardHeight = 1
    GameId = {1}
SPECIFICATION MCFairSpec
INVARIANTS
    RosterIsConnected
    TimerRunsWithGame
PROPERTIES
    LogContract
    GamesEnd
