CONSTANTS
    a = a
    b = b
    c = c
    w = w
    x = x
    y = y
    Node <- Three
    Nick = {empty, w, x, y}
    Empty = empty
    NoNick = null
    Nobody = nobody
    Absent = absent
    NoReply = noreply
    ConvId = {0}
    Names <- Distinct
    Together = TRUE
    MaxNames = 3
    MaxStarts = 1
    MaxTexts = 1
    MaxPages = 1
    MaxClosings = 1
SPECIFICATION Spec
SYMMETRY Renamings
CONSTRAINT InTurn
INVARIANTS TypeOK PrivateStaysPrivate   
CHECK_DEADLOCK FALSE
