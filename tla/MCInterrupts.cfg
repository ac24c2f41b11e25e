SPECIFICATION Spec
CONSTANTS
    a = a  none = none  noByte = noByte
    KEYBOARD_BUFFER_SIZE = 3
    Scancodes <- MCScancodes
    Keys = {a}
    kbdus <- MCKbdus
    None = none
    NoByte = noByte
    Unhandled <- MCUnhandled
    TicksWrap = 2
INVARIANTS TypeOK InServiceExact BootSafe EdgeNeverLost
PROPERTIES ByteFetched ClockRuns ImplementsKeyboard
