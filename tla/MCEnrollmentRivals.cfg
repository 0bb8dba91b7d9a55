\* Two devices, each with one spare card, that carry the same panel id.
SPECIFICATION Spec
CONSTANTS
    Panels = {p1}
    Devices = {d1, d2}
    UnclaimedMax = 1
    MaxCards = 1
    Tokenless = {}
    MaxStray = 0
    None = None
PROPERTIES TrustOnFirstUse Secured RefusalShown
