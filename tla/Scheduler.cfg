SPECIFICATION FairSpec
CONSTANTS
    MaxTasks = 4
    Stacks = {s1, s2, s3}
    NoStack = NoStack
    MaxPid = 8
INVARIANTS
    ContextsExact
    TableExact
PROPERTIES
    NoResurrection
    EverCloser
    Scheduled
