\* A client does not take its replies, and a worker is blocked writing to it.
SPECIFICATION FairSpec
CONSTANTS
    c1 = c1
    c2 = c2
    Conns = {c1}
    MAX_CONNECTIONS = 1
    Loads <- NotReading
    MaxMsgs = 2
    HdrLen = 1
    BodyLen = 1
    SockBuf = 1
PROPERTIES ShutdownCompletes
\* The server has returned and every client has closed.
CHECK_DEADLOCK FALSE
