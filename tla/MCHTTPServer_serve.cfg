SPECIFICATION Serving
CONSTANTS
    c1 = c1
    c2 = c2
    s1 = s1
    s2 = s2
    m1 = m1
    m2 = m2
    Conn = {c1, c2}
    Socket = {s1, s2}
    Model = {m1, m2}
    Requests <- AllRequests
    MaxChunks = 1
    MaxPolls = 2
INVARIANTS StoppedIsQuiet WholeAnswers  StraysFollowAClose
PROPERTIES SignalEndsProgram ReceivedIsClosed
CHECK_DEADLOCK FALSE
