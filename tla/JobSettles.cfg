SPECIFICATION FairSpec
CONSTANTS
    Cancelers = {"c1"}
    Faults = {"worker_death", "shutdown", "lost_message", "quota", "dispatcher_crash"}
    MaxFaults = 2
    MaxStarts = 2
PROPERTY Settles
