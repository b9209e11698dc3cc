SPECIFICATION Spec
CONSTANTS
    MaxThreads = 2
    MaxTasks = 2
    Null = Null
    Parent <- MCParent
    FirstRows <- MCRows
    NewRows <- MCNewRows
    Infos <- MCInfos
    RowId = 1
    Leaf = "c"
INVARIANTS CascadeInOrder
PROPERTIES CascadeExact FuturesResolve DestroyEnds
CHECK_DEADLOCK FALSE
