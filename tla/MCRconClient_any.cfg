CONSTANTS
    Callers = {c1, c2}
    MaxCommands = 2
    MaxRuns = 2
    Replies <- AnyReplies
SPECIFICATION FairSpec
CHECK_DEADLOCK FALSE
INVARIANTS
    AnswersOwnCommand
PROPERTIES
    ImplementsService
    EveryCallReturns
