SPECIFICATION Spec
CONSTANTS
    Typed = {"a", " "}
    Builtins <- SomeBuiltins
    Commands = {}
    MaxHistory = 2
    EscapeBuf = 4
    Extra = 1
    RxSize = 1
    MaxLine = 2
    MaxEscape = 6
INVARIANT EscapeInBuffer
CHECK_DEADLOCK FALSE
