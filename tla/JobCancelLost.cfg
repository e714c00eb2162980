SPECIFICATION Spec
CONSTANTS
    Cancelers = {"c1"}
    Faults = {}
    MaxFaults = 0
    MaxStarts = 1
PROPERTY StaleCancelStillCancels
