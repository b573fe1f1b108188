SPECIFICATION Spec
CONSTANTS
    Half = 4
    Page = 2
    SegSize = 3
    Lines <- MCLines
    Aimed = {4}
    Modes = {1}
    Rooms <- MCRooms
    Seqs = 1
    Commands = 2
    Hooks = {"stop"}
    Careful = FALSE
CHECK_DEADLOCK FALSE
PROPERTIES InUseKept
