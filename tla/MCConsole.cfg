SPECIFICATION Spec
CONSTANTS
    COMMAND_BUFFER_SIZE = 16
    VGA_WIDTH = 6
    VGA_HEIGHT = 3
    HelpLen = 2
    ClearLen = 3
    EchoLen = 3
    HelpText = 4
    UnknownText = 1
INVARIANTS TypeOK NothingAhead EchoExact
PROPERTIES OutputKept
CHECK_DEADLOCK FALSE
