SPECIFICATION Spec
CONSTANTS
    MaxNow = 3
    MaxLen = 2
    MaxBytes = 2
    MaxStrays = 2
    TimeoutSeconds = 1
    DwordSeconds = 20
INVARIANTS SendWaitBounded CompletionSeen
PROPERTIES RetryTakes
