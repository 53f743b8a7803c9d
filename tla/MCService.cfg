SPECIFICATION FairSpec
CONSTANTS
    Programs = {"pyzord-server", "pyzord-api"}
    MaxStops = 1
    MaxBreaks = 1
    MaxFaults = 1
    MaxDatagrams = 3
    Seconds = 3
    Connections = {c1, c2}
    Texts <- MCTexts
    Stray = {400}
    Cuts = {14}
    Requests <- MCRequests
    Histories <- MCHistories
INVARIANTS
    ServiceTypeOK
    OneChainPerStart
    ShutdownDrains
    AnswerFits
    ParserRecognises
    RingsCountWindow
PROPERTIES
    Answered
    Released
    Retires
    ServesAgain
CHECK_DEADLOCK FALSE
