SPECIFICATION FairSpec
CONSTANTS
    Action <- MixedAction
    ActionType <- MixedType
    BlockingType <- MixedBlocking
    Retriable <- MixedRetriable
    NodeActions <- MixedNodes
    MaxEnqueued = 3
INVARIANTS TypeOK Exclusion GateInv
PROPERTIES OnlyEnqueueStopsDriving ActionsFollowLifecycle
    WaitingActionStarts DrivingResumes
