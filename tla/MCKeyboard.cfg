SPECIFICATION Spec
CONSTANTS
    a = a  b = b  none = none
    KEYBOARD_BUFFER_SIZE = 4
    Scancodes <- MCScancodes
    Keys = {a, b}
    kbdus <- MCKbdus
    None = none
INVARIANTS SlotStable
PROPERTIES Implements
