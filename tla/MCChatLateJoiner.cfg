CONSTANTS
    a = a
    b = b
    c = c
    w = w
    x = x
    y = y
    Node <- Three
    Nick = {empty, w, x, y}
    Empty = empty
    NoNick = null
    Nobody = nobody
    Absent = absent
    NoReply = noreply
    ConvId = {0}
    Names <- Distinct
    Together = FALSE
    MaxNames = 2
    MaxStarts = 1
    MaxTexts = 1
    MaxPages = 0
    MaxClosings = 0
SPECIFICATION Spec
INVARIANT PrivateStaysPrivate
CHECK_DEADLOCK FALSE
