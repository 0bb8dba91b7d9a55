\* One version of each of two records.
SPECIFICATION Spec
CONSTANTS
    Data = {a, b}
    Default = a
    Pictured = {}
    MaxVersion = 1
    MaxRecord = 1
    None = None
PROPERTIES CaughtUp
