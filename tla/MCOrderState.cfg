SPECIFICATION Spec
CONSTANTS
    OrderMessages <- AnyMessages
    Home = "a"
INVARIANTS TypeOK ChainPaired DecisionEndsBase
PROPERTIES OnlyNewerUpdatesChange KeepsBaseProtocol
