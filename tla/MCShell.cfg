SPECIFICATION Spec
CONSTANTS
    Scripts <- MCScripts
    Writes <- MCWrites
    Profiled <- MCProfiled
    PipeCap = 1
    Faults = {"open", "exec", "fork", "pipe", "write"}
    MaxFd = 16
    MaxRuns = 5
INVARIANTS
    ParsesRight
    StdStreams
    PipeEndsHeld
    StatusRight
    ProfileRight
PROPERTY
    FdsRestored
CHECK_DEADLOCK FALSE
