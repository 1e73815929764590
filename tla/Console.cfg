SPECIFICATION FairSpec
CONSTANTS
    Typed = {"a", " "}
    Builtins <- SomeBuiltins
    Commands = {}
    MaxHistory = 2
    EscapeBuf = 4
    Extra = 1
    RxSize = 1
    MaxLine = 2
    MaxEscape = 4
INVARIANTS EditorInv ArgsStay
PROPERTIES ScreenFollows InterruptPrompts
CHECK_DEADLOCK FALSE
