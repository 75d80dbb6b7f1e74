CONSTANTS
    a1 = a1
    a2 = a2
    a3 = a3
    a4 = a4
    a5 = a5
    n1 = n1
    n2 = n2
    none = none
    nowhere = nowhere
    MaxPlayers = 3
    Addr <- MCAddr
    NoAddr = nowhere
    HostPort <- MCHostPort
    Name = {n1, n2}
    NoName = none
    Session = {1, 2}
    Arrivals <- MCArrivals
SPECIFICATION ConnSpec
INVARIANTS
    ConnTypeOK
    CountsConnected
    NamesOfConnected
    NamesAreUnique
    FirstSlotIsOwners
    OneSlotPerHostPort
    TimersWatchConnected
    NeverFatal
PROPERTY NoTakeover
