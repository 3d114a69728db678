CONSTANTS
    Byte = {0, 1}
    kCheapPrepend = 2
    kInitialSize = 2
    kExtra = 2
    MaxLen = 3
    MaxSize = 7
SPECIFICATION BufferSpec
INVARIANTS NoAssertFails TypeOK
PROPERTIES IsByteQueue
