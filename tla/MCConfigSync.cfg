\* Two versions of each of two records, one of the contents with a background.
SPECIFICATION Spec
CONSTANTS
    Data = {a, b}
    Default = a
    Pictured = {b}
    MaxVersion = 2
    MaxRecord = 1
    None = None
INVARIANTS SameRecordSameConfig
PROPERTIES Converges BackgroundArrives ForceSyncCures
