SPECIFICATION FairSpec
CONSTANTS
    RetryTimeout = 2
    TimeoutLimit = 0
    FailureLimit = 2
    DeadTimeout = 3
INVARIANTS
    TypeOK
    AnswersCounted
    AnswerIsOwn
    FewUnread
PROPERTIES
    DisabledLeftAlone
    ServerUsedAgain
