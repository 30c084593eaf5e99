SPECIFICATION Spec
CONSTANTS
    OrderMessages <- Updates
    Home = "a"
    InstantTypes = {}
    MaxInstants = 1
    Action <- SomeAction
    ActionType <- SomeType
    BlockingType <- SomeBlocking
    Retriable <- SomeRetriable
    MaxEnqueued = 3
PROPERTIES ReachesNodeByNode
CHECK_DEADLOCK FALSE
