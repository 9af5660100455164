CONSTANTS
    LongNamespace = 2
    Corpora <- MCCorpora
    Headers <- MCHeaders
    HeaderNames <- MCHeaderNames
    NormalTrigger = 1
    TestTrigger = 2
SPECIFICATION Spec
INVARIANTS
    ElidedIsCode
    BracketsClose
    NestingFollowsCode
    IncludesJudged
    FunctionLengthExact
CHECK_DEADLOCK FALSE
