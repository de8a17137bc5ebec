CONSTANTS
    Callers = {c1, c2}
    MaxCommands = 3
    MaxRuns = 2
    Replies <- PlainReplies
SPECIFICATION Spec
SYMMETRY Symmetry
CHECK_DEADLOCK FALSE
INVARIANTS
    TypeOK
    OneConversation
    AnswersAreFinal
    LoggedInFirst
    FailureNeedsAnOutage
    RunsOnceWithoutOutage
