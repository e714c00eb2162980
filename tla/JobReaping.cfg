SPECIFICATION Spec
CONSTANTS
    Cancelers = {}
    Faults = {"worker_death", "lost_message"}
    MaxFaults = 2
    MaxStarts = 1
PROPERTIES NoFalseReap ImplementsJobStatus
