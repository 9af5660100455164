SPECIFICATION Spec
CONSTANTS
    FileSize = 2
    CgiSize = 1
    MaxLines = 5
INVARIANTS
    TypeOK
    AnswersFollowTheStream
CHECK_DEADLOCK FALSE
