SPECIFICATION FairSpec
CONSTANTS
    MaxTasks = 4
    Stacks = {s1, s2, s3}
    NoStack = NoStack
    MaxPid = 4
    App <- MCApp
    Program <- MCProgram
    NoApp = "none"
    Canvas = {c1, c2, c3}
    NoCanvas = NoCanvas
INVARIANTS
    LaunchedAsAsked
PROPERTIES
    InputServed
