CONSTANTS
    Proc = {p1, p2}
    Nobody = Nobody
    SLOTS = 4
    INODES = 4
    BLOCKS = 6
    MaxCalls = 3
    DIR_ENTRIES = 4
    brojZaGlavniFile = 3
    Calls <- MCCalls
SPECIFICATION FsSpec
SYMMETRY Symm
CHECK_DEADLOCK FALSE
INVARIANTS InodeOnce UsersCounted LinksCounted  OnlyRacesPanic
