SPECIFICATION DirSpec
CONSTANT MaxEntries = 1
INVARIANT
    FreedByClosedir
CHECK_DEADLOCK FALSE
