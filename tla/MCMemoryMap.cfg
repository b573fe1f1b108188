SPECIFICATION Spec
CONSTANTS
    Half = 4
    Page = 2
    SegSize = 3
    Lines <- MCLines
    Aimed = {2, 4}
    Modes = {0, 1}
    Rooms <- MCRooms
    Seqs = 1
    Commands = 2
    Hooks = {"stop"}
    Careful = TRUE
CHECK_DEADLOCK FALSE
INVARIANTS LookupFinds BuffersFit WorkspaceFits
PROPERTIES RunsInSfa
