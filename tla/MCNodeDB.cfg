SPECIFICATION Spec
CONSTANTS
    Blocks = {1, 2, 3, 4, 5, 6, 7}
    NoBlock = 0
    Prev <- MCPrev
    Height <- MCHeight
    Path <- MCPath
INVARIANTS
    TypeOK
    LinksExact
    CountsExact
    TipsExact
    ReachableExact
    ActiveIsPath
