SPECIFICATION FairSpec
CONSTANTS
    Sockets = {s1, s2}
    None = none
    MaxAddresses = 3
INVARIANTS TypeOK SocketIsHeld FewTries ModeIsKept TestsAreRedundant
PROPERTY CallReturns
