CONSTANTS
    Models <- PathsOfSeven
    Asked = {1, 2, 3, 4, 5, 6, 7, 8}
    MinChunkSize = 1
SPECIFICATION Spec
CHECK_DEADLOCK FALSE
INVARIANTS
    ChainIsSplit
