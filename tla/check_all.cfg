SPECIFICATION FairSpec
CONSTANTS
    N = 3
    Workers = {w1, w2}
INVARIANTS TypeOK GrantedOnlyIfAllAllowed AnswerIsRight
PROPERTIES AlwaysAnswers WorkersEnd
CHECK_DEADLOCK FALSE
