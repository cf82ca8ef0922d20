\* A boundary named on a part of the system prompt.
SPECIFICATION Spec
CONSTANTS
    Shapes <- SomeShapes
    ToolLists <- NoTools
    MaxItems = 2
    MaxBreakpoints = 4
INVARIANT
    BoundaryNamedIsSent
CHECK_DEADLOCK FALSE
