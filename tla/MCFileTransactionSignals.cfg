SPECIFICATION Spec
CONSTANTS
    BufferCapacity = 2
    MAX_INTERRUPTS_IGNORES = 4
    MaxUnits = 3
    MaxInterrupts = 5
    MaxErrors = 0
INVARIANT CommittedIsWhole
