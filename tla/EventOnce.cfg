SPECIFICATION Spec
CONSTANTS
    Handlers = {h1, h2}
    OnceOnly = {h1}
    Emitters = {e1, e2}
    MaxFired = 2
    NoCopy = NoCopy
INVARIANT
    OnceFiresOnce
CHECK_DEADLOCK FALSE
