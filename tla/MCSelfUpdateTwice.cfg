\* A good build and a mute one; the two tasks check independently.
SPECIFICATION Spec
CONSTANTS
    Good = {g1}
    Mute = {m}
    Dead = {}
    Broken = {}
    First = g1
    Tasks = {"ws", "poll"}
    None = None
INVARIANTS FallsBackToProven
