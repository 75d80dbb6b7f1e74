CONSTANTS
    Base = 4
    MaxGames = 2
    MaxLog = 6
    PerDatagram = 2
    MaxInFlight = 2
SPECIFICATION FairSpec
INVARIANTS
    TypeOK
PROPERTIES
    ShowsBeginnings
    SeenUnlessStranded
