SPECIFICATION Spec
CONSTANTS
    IdLooksDebug = TRUE
    Careful = TRUE
INVARIANTS PromptHeld CauseTold
PROPERTIES ShiftsReach Answered
