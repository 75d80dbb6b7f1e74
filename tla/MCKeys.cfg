SPECIFICATION FairSpec
CONSTANT MaxStream = 6
INVARIANT TypeOK
INVARIANT Client1FollowsKeys
INVARIANT Client2FollowsKeys
PROPERTY ReleaseIsNoticed
