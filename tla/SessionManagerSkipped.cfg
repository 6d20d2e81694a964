SPECIFICATION Spec
CONSTANTS
    Req = {r1, r2, r3}
    Ip = {i1, i2}
    ChannelCap = 1
    Prompt = TRUE
    None = None
CHECK_DEADLOCK FALSE
PROPERTIES
    CleanupHandlesSkipped
