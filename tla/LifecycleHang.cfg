SPECIFICATION Spec
CONSTANTS
    Options <- HttpAlone
PROPERTIES RunNeverHangs
CHECK_DEADLOCK FALSE
