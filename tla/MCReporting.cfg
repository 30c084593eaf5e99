SPECIFICATION RSpec
CONSTANTS
    OrderMessages <- OrderAndUpdate
    Home = "a"
    InstantTypes = {"startPause", "cancelOrder"}
    MaxInstants = 1
    Action <- Light
    ActionType <- LightType
    BlockingType <- LightBlocking
    Retriable <- LightRetriable
    MaxEnqueued = 2
INVARIANTS NoLostWakeup NothingUnreported  ActsOnce ReportsAreConsistent
PROPERTIES NeverTurnsBack
CHECK_DEADLOCK FALSE
