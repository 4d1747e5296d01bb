\* Walks through lists of up to three rows, which come and go meanwhile.
CONSTANTS
    Positions <- MCPositions
    PositionText <- MCText
    Items = {1, 2, 3}
    Times = {1, 2}
    Ids = {1, 2, 3, 4}
    Ranks = {0, 1}
    Mine = {1, 3}
    PageSizes = {0, 51}
    MaxPage = 2
    MaxMoves = 3
SPECIFICATION PagingSpec
INVARIANTS
    PagingTypeOK
    PagesPartition
PROPERTIES
    WalkEnds
