\* Every kind of message on one connection, or two clients that compete for one
\* worker thread, stall and do not read; shutdown comes at any moment.
SPECIFICATION FairSpec
CONSTANTS
    c1 = c1
    c2 = c2
    Conns = {c1, c2}
    MAX_CONNECTIONS = 1
    Loads <- MCLoads
    MaxMsgs = 2
    HdrLen = 2
    BodyLen = 2
    SockBuf = 1
INVARIANTS TypeOK RepliesMatchCalls LateMntRefused SteadyClientsKept ThreadsBoundedAndOwned NoWorkerOutlivesRun
PROPERTIES CallsAnswered BacklogDrains ShutdownWaitsOnlyForWrites
\* The server has returned and every client has closed.
CHECK_DEADLOCK FALSE
