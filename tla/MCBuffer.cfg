SPECIFICATION Spec
CONSTANTS
    Bytes = {0, 1}
    kPrependSize = 1
    InitialSize = 2
    ExtraSize = 2
    MaxReadable = 4
INVARIANTS TypeOK SizeBounded
PROPERTIES ImplementsByteQueue
