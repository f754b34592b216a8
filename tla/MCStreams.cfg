SPECIFICATION Spec
CONSTANTS
    a = a
    b = b
    None = None
    Byte = {a, b}
    RxSize = 2
    TxSize = 2
    Pattern <- MCPattern
    MaxBytes = 5
CHECK_DEADLOCK FALSE
INVARIANTS FoundWasThere NothingStranded
PROPERTIES PipeSpec CallsReturn
