SPECIFICATION Spec
CONSTANTS
    Pipe = {p1, p2, p3}
    NoPipe = NoPipe
INVARIANTS
    ListsWellFormed
    WholeMessages
    NoPipeForgotten
    FairTurns
    TablesLikeMaps
SYMMETRY Symmetry
CHECK_DEADLOCK FALSE
