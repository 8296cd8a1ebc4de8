SPECIFICATION PortSpec
CONSTANTS
    CharBytes = 2
    BufferSize = 3
    Eof = "eof"
    Openings <- StandardInput
    Puts = {}
    Positions = {}
    MaxLength = 0
PROPERTIES
    EofAtEnd
CHECK_DEADLOCK FALSE
