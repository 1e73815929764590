SPECIFICATION LibrarySpec
CONSTANTS
    IntBits = 8
    LongBits = 12
    ShortBits = 6
    CharBits = 4
    Bufsiz = 8
    DefaultFrac = 1
    MaxFrac = 2
    MaxWhole = 30
    Ints <- SomeInts
    Wholes = {0, 9, 30, 31}
    Texts <- SomeTexts
    Numbers = {1, 4, 9}
    Formats <- SomeFormats
    Items <- SomeItems
    MaxItems = 3
    Letters = {"a", "b", " ", "'"}
    MaxText = 5
INVARIANTS ConformsToC ReadsBack ViewsDenote TokensReadBack ContainersAgree
CHECK_DEADLOCK FALSE
