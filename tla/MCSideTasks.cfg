\* SelfUpdate: two good builds and one bad of each kind; one task checks the
\* bundle.  Watchdog: two attempts in five ticks, two ticks apart.  Dali: a
\* gateway that is polled and one that is not.
SPECIFICATION SideSpec
CONSTANTS
    Good = {g1, g2}
    Mute = {m}
    Dead = {d}
    Broken = {b}
    First = g1
    Tasks = {"ws"}
    None = None
    Hour = 5
    Pause = 2
    Stale = 1
    Limit = 2
    Gateways = {gw1, gw2}
    Lights = {l1}
    Polled = {gw1}
    Levels = {0, 1}
    MaxEvents = 1
    Unset = Unset
    NoUnit = NoUnit
    MaxInstalls = 2
    MaxJobs = 1
    NoEntry = NoEntry
    Together = {{"update"}, {"watchdog"}, {"dali"}, {"scanner"}, {"installs"}, {"enrolment"}}
INVARIANTS FallsBackToProven WithinBudget NothingLeftBehind VerdictIsTrue
PROPERTIES StrandedOnlyBy GetsBack UpdateArrives LeavesWellAlone GetsCured FollowsConfig LightsCatchUp ScannerObeys GetsEnrolled
