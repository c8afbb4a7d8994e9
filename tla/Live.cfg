SPECIFICATION MCSpec
CONSTANTS
    Worker = {w1, w2}
    Queues = 2
INVARIANTS SleepersCounted NobodyWaitsAfterQuit
PROPERTIES MarksTheBusy WorkIsTaken WorkersStop StuckIsMarked SentArrives
    CallReturns GoneIsFreed
CHECK_DEADLOCK FALSE
