SPECIFICATION Spec
CONSTANTS
    FullSize = 7
    FragmentSizes = {1, 3, 7}
    NoPart = NoPart
INVARIANTS PartsOrdered AskedIsMissing
PROPERTIES ExactSubtraction LoopEnds
