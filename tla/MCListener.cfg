SPECIFICATION FairSpec
CONSTANTS
    Conns = {c1, c2, c3}
    m_iNumListenSockets = 2
    INVALID_SOCKET = NoConn
INVARIANT NoLostConnection
PROPERTIES NoLateWorker EverySocketServed StopEnds
CHECK_DEADLOCK FALSE
