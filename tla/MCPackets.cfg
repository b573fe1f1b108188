SPECIFICATION FairSpec
CONSTANTS
    Turns = 5
    Messages = 1
    FakeModes = {FALSE, TRUE}
    Lines = {"slow", "busy", "noisy"}
    MaxFaults <- MCMaxFaults
    Lengths = {5, 6}
    Users = {"careful", "any"}
INVARIANT HaltedForGdb
PROPERTIES InStep OnlyInterrupts Served
CHECK_DEADLOCK FALSE
