SPECIFICATION FairSpec
CONSTANTS
    OrderMessages <- OneOrder
    Home = "a"
    InstantTypes = {"startPause", "stopPause", "retry", "skipRetry"}
    MaxInstants = 3
    Action <- SomeAction
    ActionType <- SomeType
    BlockingType <- SomeBlocking
    Retriable <- SomeRetriable
    MaxEnqueued = 3
INVARIANTS TypeOK StepsOnlyWhenAllowed ProgressAgrees QueueFollowsTheRoad
PROPERTIES ReachesDecisionPoint
