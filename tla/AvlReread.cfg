\* One spelling of each name.  A tree that has been read is not read again.
CONSTANTS
    Key = {1, 2, 3, 4}
    Spelling = {"upper"}
    Null = Null
SPECIFICATION RereadSpec
INVARIANTS
    LayoutIsReproduced
CHECK_DEADLOCK FALSE
