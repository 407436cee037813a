SPECIFICATION Spec
CONSTANTS
    Options <- HttpRegistered
INVARIANTS ShutdownBeforeReturn
CHECK_DEADLOCK FALSE
