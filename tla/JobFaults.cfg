SPECIFICATION Spec
CONSTANTS
    c1 = c1
    c2 = c2
    Cancelers = {c1, c2}
    Faults = {"worker_death", "dispatcher_crash", "shutdown", "partition",
              "lost_message", "late_message"}
    MaxFaults = 2
    MaxStarts = 2
SYMMETRY CancelersSymmetry
INVARIANTS TypeOK RunOnce PlaysWithoutSecrets CanceledWasAsked AckedNeverPlays
