SPECIFICATION MCSpec
CONSTANTS
    p1 = p1
    p2 = p2
    p3 = p3
    p4 = p4
    p5 = p5
    t1 = t1
    t2 = t2
    Task = {p1, p2, p3, p4, p5, t1, t2}
    Transactional = {t1, t2}
    NoConn = NoConn
    MaxSize = 1
    Stray = {t1}
    CallSets <- OneTransaction
INVARIANT RollsBackOnThrow
CHECK_DEADLOCK FALSE
