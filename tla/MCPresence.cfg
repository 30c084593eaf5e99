SPECIFICATION FairPSpec
CONSTANTS
    Tabs = {t1, t2}
    t1 = t1
    t2 = t2
    Messages <- ConnectionStates
    Nothing = Nothing
    MaxStarts = 2
    MaxDisturbances = 1
CHECK_DEADLOCK FALSE
INVARIANTS PTypeOK OneWriter CaughtUp StopIsAnnounced
PROPERTIES GoneIsSeen ServingIsSeen
