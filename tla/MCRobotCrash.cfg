SPECIFICATION Spec
CONSTANTS
    OrderMessages <- OneTrip
    Home = "a"
    InstantTypes = {"cancelOrder"}
    MaxInstants = 1
    Action <- SomeAction
    ActionType <- SomeType
    BlockingType <- SomeBlocking
    Retriable <- SomeRetriable
    MaxEnqueued = 3
INVARIANTS RunsForever
CHECK_DEADLOCK FALSE
