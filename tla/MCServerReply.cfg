SPECIFICATION Spec
CONSTANTS
    Programs = {"pyzord-server"}
    MaxStops = 0
    MaxBreaks = 0
    MaxFaults = 0
    MaxDatagrams = 2
    Seconds = 3
    Connections = {}
    Texts = {}
    Stray = {}
    Cuts = {}
    Requests = {}
    Histories = {}
INVARIANTS
    ReplyIsAnswer
CHECK_DEADLOCK FALSE
