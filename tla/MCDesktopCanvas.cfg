SPECIFICATION Spec
CONSTANTS
    MaxTasks = 3
    Stacks = {s1, s2}
    NoStack = NoStack
    MaxPid = 4
    App <- MCApp
    Program <- MCProgram
    NoApp = "none"
    Canvas = {c1, c2}
    NoCanvas = NoCanvas
INVARIANTS
    DrawsInOwnCanvas
