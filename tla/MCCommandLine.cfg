CONSTANTS
    CommandLines <- MCCommandLines
    Wide = 1048576
    MaxSeed = 262143
SPECIFICATION Spec
CHECK_DEADLOCK FALSE
INVARIANTS
    TypeOK
    NumbersAreAsWritten
    ClientsAgree
    IgnoredNamesAreLong
