SPECIFICATION Spec
CONSTANTS
    p1 = p1
    p2 = p2
    p3 = p3
    q1 = q1
    q2 = q2
    P = P
    Q = Q
    NoBlock = NoBlock
    NoPeer = NoPeer
    Blocks <- MCBlocks
    Peers <- MCPeers
    Prev <- MCPrev
    Height <- MCHeight
    Path <- MCPath
    Work <- MCWork
    Difficulty <- MCDifficulty
    Bodies <- MCBodies
    MaxRollback = 3
    Branching = 1
    LocalHi = 3
INVARIANT ReturnHeightIsLowest
