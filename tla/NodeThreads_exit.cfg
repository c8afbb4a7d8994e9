SPECIFICATION Spec
CONSTANTS
    Worker = {w1}
    Queues = 1
PROPERTY SocketThreadExits
CHECK_DEADLOCK FALSE
