SPECIFICATION Spec
CONSTANTS
    Panels = {p1}
    Devices = {d1}
    UnclaimedMax = 1
    MaxCards = 0
    Tokenless = {}
    MaxStray = 0
    None = None
PROPERTIES RejectedRegistersAgain
