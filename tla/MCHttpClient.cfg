SPECIFICATION FairSpec
CONSTANTS
    MaxEndpoints = 3
    Answers <- MCAnswers
INVARIANTS
    OneOutcome
    Delivered
    Understood
    EachEndpointOnce
PROPERTIES
    Ends
CHECK_DEADLOCK FALSE
