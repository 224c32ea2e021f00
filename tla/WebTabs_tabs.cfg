SPECIFICATION Spec
CONSTANTS
    Tabs = {t1, t2}
    Writers = {t1}
    NoTab = NoTab
    MaxRuns = 2
    MaxMarks = 2
    MaxFaults = 1
    HangsAt <- MCBoth
INVARIANTS TypeOK LockIsLeadership YoungestKeepsLock NoMarkForgotten
CHECK_DEADLOCK FALSE
