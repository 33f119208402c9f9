SPECIFICATION Spec
CONSTANTS
    p1 = p1
    a2 = a2
    a3 = a3
    b2 = b2
    b3 = b3
    b4 = b4
    P = P
    Q = Q
    NoBlock = NoBlock
    NoPeer = NoPeer
    Blocks <- MCBlocks
    Peers <- MCPeers
    Prev <- MCPrev
    Height <- MCHeight
    Path <- MCPath
    Work <- MCWork
    Difficulty <- MCDifficulty
    Bodies <- MCBodies
    MaxRollback = 2
    Branching = 1
    LocalHi = 3
PROPERTY AssertInProgress
