SPECIFICATION Spec
CONSTANTS
    Read = {r1, r2, r3}
    MaxOpens = 2
INVARIANTS CountIsExact QuietWhenClosed FlushLeavesOne
PROPERTY AnsweredWhileOpen
CHECK_DEADLOCK FALSE
