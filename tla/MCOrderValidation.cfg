SPECIFICATION VSpec
CONSTANTS
    Places <- ThreePlaces
    MaxSlips = 2
INVARIANTS ValidatorExact
CHECK_DEADLOCK FALSE
