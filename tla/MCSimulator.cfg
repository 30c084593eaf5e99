SPECIFICATION FairSpec
CONSTANT Chains <- RouteChains
INVARIANTS TypeOK NoLostWakeup
PROPERTIES DrivesToTheEnd
CHECK_DEADLOCK FALSE
