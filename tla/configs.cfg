SPECIFICATION Spec
CONSTANTS
    Posts = {a, b, c}
    NoConfig = NoConfig
    MaxTime = 2
    MaxFaults = 2
CHECK_DEADLOCK FALSE
INVARIANTS TypeOK CreatedAtKept RotationTakesEffect
