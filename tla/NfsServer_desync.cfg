\* The read timeout strikes inside a well-formed message.
SPECIFICATION Spec
CONSTANTS
    c1 = c1
    c2 = c2
    Conns = {c1}
    MAX_CONNECTIONS = 1
    Loads <- Stalling
    MaxMsgs = 1
    HdrLen = 2
    BodyLen = 1
    SockBuf = 1
INVARIANTS ClosesOnlyForCause
\* The server has returned and every client has closed.
CHECK_DEADLOCK FALSE
