CONSTANTS
    Continuation = {"~"}
    Intervals = {"7"}
    IdBytes = {"c1", "c2"}
    IdLength = 2
    Calls = {"c1", "c2"}
    Docs <- DocsDef
    Encoding <- EncodingDef
    TypeOf <- TypeOfDef
    Problems = {"400", "413", "500", "503", "504", "huge", "quoting"}
    Inputs = {"hello", "empty", "big", "giant", "unserializable"}
    Results = {"hello", "big", "unserializable"}
    Failures = {"504", "huge"}
    Rejections <- RejectionsDef
    Patterns <- PatternsDef
    Requests <- RequestsDef
    Handlers <- HandlersDef
    Limit <- LimitDef
    FragmentSize <- FragmentSizeDef
SPECIFICATION Spec
CHECK_DEADLOCK FALSE
INVARIANTS
    AnswerArrivesIntact
    TransportMeansLocal
    NoStaleHandler
    
    FragmentsFit
    RoutedToFirstMatch
