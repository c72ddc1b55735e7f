CONSTANTS
    Streams <- MCStreams
    Capacity = 9
    MaxControlLine = 9
    MaxPayload = 6
SPECIFICATION Spec
INVARIANT ProcessesWhatWasSent
INVARIANT KeptIsSafe
CHECK_DEADLOCK FALSE
