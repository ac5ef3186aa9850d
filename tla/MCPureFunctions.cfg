CONSTANTS
    HalfRange = 6
    MaxCount = 14
    Starts <- ByteBoundaries
    Stretch = 150
    Window = 1800
    Char <- Characters
    Code <- Codes
    Left = "("
    Right = ")"
    MaxPieces = 5
    Keys <- SomeKeys
    Buttons <- SomeButtons
SPECIFICATION Spec
INVARIANTS ComparisonFollowsCounting HashTellsApart PartsAreAsRead
PROPERTY ButtonAddsOnePicture
CHECK_DEADLOCK FALSE
