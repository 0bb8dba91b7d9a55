\* Off, the clock's level and full brightness.
SPECIFICATION Spec
CONSTANTS
    Full = 2
    MaxLights = 1
    MaxQueue = 2
    None = None
INVARIANTS DoorbellStaysOn
PROPERTIES BlankStands BeliefHolds LastWantedWins UnattendedRests
