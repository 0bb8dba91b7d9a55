\* One device that is reinstalled under two panel ids, on cards 0 and 2 that
\* hold secrets and on card 1 that cannot, with room for one unclaimed record.
SPECIFICATION Spec
CONSTANTS
    Panels = {p1, p2}
    Devices = {d1}
    UnclaimedMax = 1
    MaxCards = 2
    Tokenless = {1}
    MaxStray = 2
    None = None
SYMMETRY Symmetry
INVARIANTS OnePair UnclaimedBounded NeverLocksItselfOut
