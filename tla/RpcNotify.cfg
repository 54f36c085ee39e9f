SPECIFICATION StreamSpec
CONSTANTS
    Callers = {a, b}
    Nobody = Nobody
    MaxSeq = 3
    MaxTimeouts = 0
    MaxNotifies = 1
CHECK_DEADLOCK FALSE
PROPERTY
    ReplyMatches
