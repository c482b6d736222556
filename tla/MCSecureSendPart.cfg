SPECIFICATION Spec
CONSTANTS
    Lengths <- MCLengths
    MaxMsgSize = 2
    Overhead = 1
    MaxExtraSize = 1
    MaxBytes = 6
PROPERTIES NoPartReported
