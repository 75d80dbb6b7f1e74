CONSTANTS
    Base = 4
    MaxGames = 2
    MaxLog = 7
    PerDatagram = 2
    MaxInFlight = 2
SPECIFICATION FairSpec
INVARIANTS
    TypeOK
PROPERTIES
    ShowsWholeGames
    SeenUnlessStranded
