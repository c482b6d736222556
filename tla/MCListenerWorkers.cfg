SPECIFICATION Spec
CONSTANTS
    Conns = {c1, c2, c3}
    m_iNumListenSockets = 2
    INVALID_SOCKET = NoConn
INVARIANTS WorkersAwaited
CHECK_DEADLOCK FALSE
