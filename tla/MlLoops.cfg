SPECIFICATION FairSpec
CONSTANTS
    GubThreads = {g1, g2}
    ExportThreads = {e1}
    Callers = {c1, c2}
    MaxRefs = 2
    None = None
INVARIANTS
    TypeOK
    HeldLoopRuns
    QuietWhenUnheld
    QuitStands
    FreedServersLeft
    GlobalServerLive
PROPERTIES
    MessagesDelivered
    JoinsEnd
CHECK_DEADLOCK FALSE
