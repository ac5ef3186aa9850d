SPECIFICATION Spec
CONSTANTS
    Page = {p}
    Handler = handler
    Method <- Methods
    Stream <- Streams
    Peer = {a}
    Nick = {"", "ann", "own"}
    Empty = ""
    Null = null
    Nobody = nobody
    Absent = absent
    Undefined = undefined
    ConvId = {1}
    Names <- NameOrNull
    OwnNames = {"own"}
    MaxNews = 3
    MaxDeeds = 2
INVARIANTS
    TypeOK
    AnswersMatchCalls
    ConversationsHaveTabs
    
    
    UsersAreListed
CHECK_DEADLOCK FALSE
