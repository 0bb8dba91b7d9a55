-------------------------- MODULE SideTasks_proofs ---------------------------
(***************************************************************************)
(* The safety properties of the tasks beside the main work, for every set  *)
(* of gateways, lights and builds and every bound: each task has an        *)
(* invariant of its own, which the other tasks leave alone and a restart   *)
(* of the agent establishes anew.                                          *)
(***************************************************************************)
EXTENDS SideTasks, SelfUpdate_proofs, FiniteSetTheorems

USE WatchdogAssumption, DaliAssumption, ScannerAssumption, InstallsAssumption,
    DiscoveryAssumption

-----------------------------------------------------------------------------
(* What one step is to each of the parts.                                  *)

LEMMA AgentActs == [SideNext]_allVars => [Next]_vars
BY DEF SideNext, AgentMoves, AgentStep, WatchdogMoves, DaliMoves, ScannerMoves,
       InstallsMoves, EnrolmentMoves, Hush, Next, Step, allVars

LEMMA WatchdogActs ==
    [SideNext]_allVars => WatchdogStarts \/ WatchdogStep \/ UNCHANGED watchdogVars
BY DEF SideNext, AgentMoves, LoopsFollow, WatchdogMoves, DaliMoves, ScannerMoves,
       InstallsMoves, EnrolmentMoves, Hush, loopVars, allVars

LEMMA DaliActs ==
    [SideNext]_allVars => DaliStarts \/ DaliStep \/ UNCHANGED daliVars
BY DEF SideNext, AgentMoves, LoopsFollow, WatchdogMoves, DaliMoves, ScannerMoves,
       InstallsMoves, EnrolmentMoves, Hush, loopVars, allVars

LEMMA ScannerActs ==
    [SideNext]_allVars => ScannerStarts \/ ScannerStep \/ UNCHANGED scannerVars
BY DEF SideNext, AgentMoves, LoopsFollow, WatchdogMoves, DaliMoves, ScannerMoves,
       InstallsMoves, EnrolmentMoves, Hush, loopVars, allVars

LEMMA InstallsAct ==
    [SideNext]_allVars =>
        \/ \E i \in Installs : InstallStep(i) \/ Polling(i)
        \/ InstallBegins \/ InviteChanges \/ UNCHANGED installVars
BY DEF SideNext, AgentMoves, WatchdogMoves, DaliMoves, ScannerMoves,
       InstallsMoves, EnrolmentMoves, Hush, elsewhereVars, allVars

LEMMA EnrolmentActs ==
    [SideNext]_allVars =>
        Enrolment \/ RetryDue \/ DeviceAppears \/ DiscoveryTrouble \/ UNCHANGED discoveryVars
BY DEF SideNext, AgentMoves, WatchdogMoves, DaliMoves, ScannerMoves,
       InstallsMoves, EnrolmentMoves, Hush, elsewhereVars, allVars

-----------------------------------------------------------------------------
(* The process is SelfUpdate's, whichever tasks run in it.                 *)

LEMMA ProcessImplements == SideSpec => Init /\ [][Next]_vars
<1>1. SideInit => Init
  BY DEF SideInit
<1>. QED BY <1>1, AgentActs, PTL DEF SideSpec

LEMMA ProcessTyped == SideSpec => []TypeOK
<1>1. Inv => TypeOK
  BY DEF Inv
<1>. QED BY <1>1, ProcessImplements, InvInit, InvStep, PTL

-----------------------------------------------------------------------------
(* The watchdog.                                                           *)

(* Attempts age alike in memory, on the card and in truth; what was made   *)
(* was saved before, and what was saved is remembered.                     *)
Recorded ==
    /\ WatchdogTypes
    /\ spent \subseteq saved /\ saved \subseteq attempts
    /\ Cardinality(attempts) <= Limit

LEMMA AgesFinite ==
    ASSUME NEW ages, ages \subseteq 0..(Hour - 1)
    PROVE  IsFiniteSet(ages)
<1>1. IsFiniteSet(0..(Hour - 1)) /\ ages \in SUBSET (0..(Hour - 1))
  BY FS_Interval
<1>. QED BY <1>1, FS_Subset

(* Older attempts are no more than there were.                             *)
LEMMA OlderAreNoMore ==
    ASSUME NEW ages, ages \subseteq 0..(Hour - 1)
    PROVE  /\ OlderAll(ages) \subseteq 0..(Hour - 1)
           /\ Cardinality(OlderAll(ages)) <= Cardinality(ages)
<1>. DEFINE f == [a \in OlderAll(ages) |-> a - 1]
<1>1. f \in Injection(OlderAll(ages), ages)
  BY DEF OlderAll, Injection, IsInjective
<1>2. IsFiniteSet(ages)
  BY AgesFinite
<1>3. Cardinality(OlderAll(ages)) <= Cardinality(ages)
  BY <1>1, <1>2, FS_Injection
<1>. QED BY <1>3 DEF OlderAll

LEMMA OneMore ==
    ASSUME NEW ages, ages \subseteq 0..(Hour - 1), Cardinality(ages) < Limit
    PROVE  Cardinality(ages \cup {0}) <= Limit
<1>1. IsFiniteSet(ages)
  BY AgesFinite
<1>2. Cardinality(ages) \in Nat
  BY <1>1, FS_CardinalityType
<1>3. Cardinality(ages \cup {0}) = IF 0 \in ages THEN Cardinality(ages) ELSE Cardinality(ages) + 1
  BY <1>1, FS_AddElement
<1>. QED BY <1>2, <1>3

LEMMA FewerStill ==
    ASSUME NEW ages, NEW fewer, ages \subseteq 0..(Hour - 1), fewer \subseteq ages,
           Cardinality(ages) <= Limit
    PROVE  Cardinality(fewer) <= Limit
<1>1. IsFiniteSet(ages) /\ IsFiniteSet(fewer)
  BY AgesFinite
<1>2. Cardinality(ages) \in Nat /\ Cardinality(fewer) \in Nat
  BY <1>1, FS_CardinalityType
<1>3. Cardinality(fewer) <= Cardinality(ages)
  BY <1>1, FS_Subset
<1>. QED BY <1>2, <1>3

LEMMA RecordedInit == SideInit => Recorded
<1>. SUFFICES ASSUME SideInit PROVE Recorded
  OBVIOUS
<1>1. WatchdogTypes
  <2>1. WatchdogInit
    BY DEF SideInit
  <2>2. started \in 0..Pause /\ lastTry \in 0..Pause /\ seen \in 0..Stale /\ stage \in 0..1
    BY <2>1 DEF WatchdogInit
  <2>3. allowed \in BOOLEAN /\ steady \in BOOLEAN
    BY <2>1 DEF WatchdogInit
  <2>. QED BY <2>1, <2>2, <2>3 DEF WatchdogInit, WatchdogTypes, Pages
<1>2. attempts = {} /\ saved = {} /\ spent = {}
  BY DEF SideInit, WatchdogInit
<1>3. Cardinality(attempts) <= Limit
  BY <1>2, FS_EmptySet
<1>. QED BY <1>1, <1>2, <1>3 DEF Recorded

LEMMA RecordedStep == Recorded /\ [SideNext]_allVars => Recorded'
<1>. SUFFICES ASSUME Recorded, [SideNext]_allVars PROVE Recorded'
  OBVIOUS
<1>. USE DEF Recorded, WatchdogTypes, Pages
<1>0. IsFiniteSet(attempts) /\ Cardinality(attempts) \in Nat
  BY AgesFinite, FS_CardinalityType
<1>1. CASE WatchdogStarts
  <2>1. Cardinality(saved) <= Limit
    BY FewerStill
  <2>. QED BY <1>1, <2>1 DEF WatchdogStarts
<1>2. CASE Tick
  <2>1. Cardinality(OlderAll(attempts)) <= Limit
    <3>1. Cardinality(OlderAll(attempts)) <= Cardinality(attempts)
      BY OlderAreNoMore
    <3>2. Cardinality(OlderAll(attempts)) \in Nat
      BY OlderAreNoMore, AgesFinite, FS_CardinalityType
    <3>. QED BY <1>0, <3>1, <3>2
  <2>2. /\ OlderAll(spent) \subseteq OlderAll(saved)
        /\ OlderAll(saved) \subseteq OlderAll(attempts)
        /\ OlderAll(attempts) \subseteq 0..(Hour - 1)
    BY DEF OlderAll
  <2>. QED BY <1>2, <2>1, <2>2 DEF Tick, Older
<1>3. CASE Try \/ CannotSave
  <2>1. Cardinality(attempts \cup {0}) <= Limit
    BY <1>3, OneMore DEF Try, CannotSave, Due
  <2>2. 0 \in 0..(Hour - 1)
    OBVIOUS
  <2>3. CASE Try
    BY <2>1, <2>2, <2>3 DEF Try, Remedies
  <2>4. CASE CannotSave
    BY <2>1, <2>2, <2>4 DEF CannotSave
  <2>. QED BY <1>3, <2>3, <2>4
<1>4. CASE Sees
  BY <1>4 DEF Sees
<1>8. CASE ClockSet
  <2>1. attempts' = {} /\ saved' = {} /\ spent' = {}
    BY <1>8 DEF ClockSet
  <2>2. Cardinality(attempts') <= Limit
    BY <2>1, FS_EmptySet
  <2>. QED BY <1>8, <2>1, <2>2 DEF ClockSet
<1>5. ASSUME NEW p \in Pages, PageBecomes(p) \/ Remedy(p)
      PROVE  Recorded'
  BY <1>5 DEF PageBecomes, Remedy, watchdogMemory
<1>6. ASSUME NEW b \in BOOLEAN, Allow(b)
      PROVE  Recorded'
  BY <1>6 DEF Allow, watchdogMemory
<1>7. CASE UNCHANGED watchdogVars
  BY <1>7 DEF watchdogVars, watchdogMemory
<1>. QED
  BY <1>1, <1>2, <1>3, <1>4, <1>5, <1>6, <1>7, <1>8, WatchdogActs
  DEF WatchdogStep, WatchdogLoop, WatchdogFails, WatchdogTrouble, Cures

LEMMA RecordedAlways == SideSpec => []Recorded
BY RecordedInit, RecordedStep, PTL DEF SideSpec

(* In any hour of the panel's clock at most browser_recovery_limit         *)
(* recoveries are carried out, across restarts of the agent and writes     *)
(* that fail.                                                              *)
THEOREM RecoveriesWithinBudget == SideSpec => []WithinBudget
<1>1. Recorded => WithinBudget
  <2>. SUFFICES ASSUME Recorded PROVE WithinBudget
    OBVIOUS
  <2>1. spent \subseteq attempts /\ attempts \subseteq 0..(Hour - 1)
    BY DEF Recorded, WatchdogTypes
  <2>. QED BY <2>1, FewerStill DEF Recorded, WithinBudget
<1>. QED BY <1>1, RecordedAlways, PTL

(* A page that was well a tick ago has been heard of since the agent's     *)
(* start.                                                                  *)
Heard == steady /\ started > 0 => seen = 0

LEMMA HeardStep == Recorded /\ Heard /\ [SideNext]_allVars => Heard'
<1>. SUFFICES ASSUME Recorded, Heard, [SideNext]_allVars PROVE Heard'
  OBVIOUS
<1>. USE DEF Heard
<1>1. CASE Try \/ CannotSave \/ Sees \/ ClockSet
  BY <1>1 DEF Try, CannotSave, Sees, ClockSet
<1>5. CASE WatchdogStarts
  <2>1. ~(started' > 0)
    BY <1>5 DEF WatchdogStarts
  <2>. QED BY <2>1
<1>6. CASE Tick
  <2>1. steady' => seen' = 0
    BY <1>6 DEF Tick
  <2>. QED BY <2>1
<1>2. ASSUME NEW p \in Pages, PageBecomes(p) \/ Remedy(p)
      PROVE  Heard'
  BY <1>2 DEF PageBecomes, Remedy
<1>3. ASSUME NEW b \in BOOLEAN, Allow(b)
      PROVE  Heard'
  BY <1>3 DEF Allow, watchdogMemory
<1>4. CASE UNCHANGED watchdogVars
  BY <1>4 DEF watchdogVars, watchdogMemory
<1>. QED
  BY <1>1, <1>2, <1>3, <1>4, <1>5, <1>6, WatchdogActs
  DEF WatchdogStep, WatchdogLoop, WatchdogFails, WatchdogTrouble, Cures,
      Recorded, WatchdogTypes, Pages

(* A page that is well and was so for a tick is never reloaded, and the    *)
(* browser under it never restarted, also right after a start of the agent.*)
THEOREM WellPagesAreLeftAlone == SideSpec => LeavesWellAlone
<1>1. SideInit => Heard
  BY DEF SideInit, WatchdogInit, Heard
<1>2. Recorded /\ Heard /\ [SideNext]_allVars =>
          [acting = "no" /\ acting' # "no" => ~steady]_allVars
  <2>. SUFFICES ASSUME Recorded, Heard, [SideNext]_allVars,
                       acting = "no", acting' # "no"
                PROVE  ~steady
    OBVIOUS
  <2>1. Try
    BY WatchdogActs
    DEF WatchdogStarts, WatchdogStep, WatchdogLoop, WatchdogFails, WatchdogTrouble,
        Cures, Sees, Remedy, Tick, PageBecomes, ClockSet, Allow, CannotSave,
        watchdogVars, watchdogMemory
  <2>. QED BY <2>1 DEF Try, Due, Heard
<1>. QED BY <1>1, <1>2, HeardStep, RecordedAlways, PTL DEF SideSpec, LeavesWellAlone

-----------------------------------------------------------------------------
LEMMA HeadAndTail ==
    ASSUME NEW S, NEW q \in Seq(S), q # <<>>
    PROVE  Head(q) \in S /\ Tail(q) \in Seq(S)
OBVIOUS

LEMMA NoneOf == ASSUME NEW S PROVE <<>> \in Seq(S)
OBVIOUS

(* The DALI client.                                                        *)

LightEvents == [light : Lights, level : Levels]

(* The cache has lights while the status is "off" only in between, before  *)
(* the first socket opens or the first attempt fails.                      *)
Forgets ==
    /\ phase \in {"top", "backoff"} /\ status = "off" => lights = Nothing
    /\ phase = "socket" => status = "connected"

DaliInv == DaliTypes /\ Forgets

LEMMA IngestTypes ==
    ASSUME DaliTypes, NEW g \in Gateways
    PROVE  Ingested(level[g]) \in [Lights -> Levels \cup {Unset}]
<1>1. /\ level[g] \in [Lights -> Levels \cup {Unset}]
      /\ lights \in [Lights -> Levels \cup {Unset}]
  BY DEF DaliTypes
<1>. QED BY <1>1 DEF Ingested

LEMMA BusShowsTypes ==
    ASSUME DaliTypes, NEW g \in Gateways, NEW d \in Lights, NEW l \in Levels \cup {Unset},
           l # level[g][d] \/ l # Unset, BusShows(g, d, l)
    PROVE  /\ level' \in [Gateways -> [Lights -> Levels \cup {Unset}]]
           /\ events' \in Seq(LightEvents)
           /\ phase # "socket" => events' = <<>>
<1>. DEFINE m == [light |-> d, level |-> IF l = Unset THEN level[g][d] ELSE l]
<1>1. /\ level \in [Gateways -> [Lights -> Levels \cup {Unset}]]
      /\ events \in Seq(LightEvents) /\ (phase # "socket" => events = <<>>)
  BY DEF DaliTypes, LightEvents
<1>2. level' \in [Gateways -> [Lights -> Levels \cup {Unset}]]
  BY <1>1 DEF BusShows
<1>3. m \in LightEvents
  BY <1>1 DEF LightEvents
<1>4. CASE UNCHANGED events
  BY <1>1, <1>2, <1>4
<1>5. CASE phase = "socket" /\ events' = Append(events, m)
  BY <1>1, <1>2, <1>3, <1>5
<1>. QED BY <1>4, <1>5 DEF BusShows

LEMMA DaliInvInit == SideInit => DaliInv
<1>. SUFFICES ASSUME DaliInit PROVE DaliInv
  BY DEF SideInit
<1>1. Nothing \in [Lights -> Levels \cup {Unset}]
  BY DEF Nothing
<1>. QED BY <1>1 DEF DaliInit, DaliInv, DaliTypes, Forgets

LEMMA DaliInvStep == DaliInv /\ [SideNext]_allVars => DaliInv'
<1>. SUFFICES ASSUME DaliInv, [SideNext]_allVars PROVE DaliInv'
  OBVIOUS
<1>. USE DEF DaliInv, DaliTypes, Forgets, daliMemory
<1>0. Nothing \in [Lights -> Levels \cup {Unset}]
  BY DEF Nothing
<1>1. CASE DaliStarts
  BY <1>0, <1>1 DEF DaliStarts
<1>2. CASE TurnsOff \/ TakesConfig \/ Connects
  BY <1>0, <1>2 DEF TurnsOff, TakesConfig, Connects
<1>3. CASE Primes
  <2>1. Ingested(level[session]) \in [Lights -> Levels \cup {Unset}]
    BY <1>3, IngestTypes DEF Primes
  <2>. QED BY <1>3, <2>1 DEF Primes
<1>4. CASE Unreachable \/ Closed \/ Retries \/ Reconfigured
  <2>1. CASE Unreachable
    BY <2>1 DEF Unreachable
  <2>2. CASE Closed
    BY <2>2 DEF Closed
  <2>4. CASE Reconfigured
    BY <2>4 DEF Reconfigured
  <2>3. CASE Retries
    BY <2>3 DEF Retries
  <2>. QED BY <1>4, <2>1, <2>2, <2>3, <2>4
<1>5. CASE Hears
  <2>0. events \in Seq(LightEvents) /\ events # <<>>
    BY <1>5 DEF Hears, LightEvents
  <2>3. Head(events) \in LightEvents /\ Tail(events) \in Seq(LightEvents)
    BY <2>0
  <2>1. /\ Head(events) \in [light : Lights, level : Levels]
        /\ Tail(events) \in Seq([light : Lights, level : Levels])
    BY <2>3 DEF LightEvents
  <2>2. lights' \in [Lights -> Levels \cup {Unset}]
    BY <1>5, <2>1 DEF Hears
  <2>. QED BY <1>5, <2>1, <2>2 DEF Hears
<1>6. CASE Polls
  <2>1. Ingested(level[session]) \in [Lights -> Levels \cup {Unset}]
    BY <1>6, IngestTypes DEF Polls
  <2>. QED BY <1>6, <2>1 DEF Polls
<1>7. ASSUME NEW g \in Gateways, NEW d \in Lights, NEW l \in Levels \cup {Unset},
             BusChanges(g, d, l)
      PROVE  DaliInv'
  <2>1. /\ level' \in [Gateways -> [Lights -> Levels \cup {Unset}]]
        /\ events' \in Seq([light : Lights, level : Levels])
        /\ phase # "socket" => events' = <<>>
    BY <1>7, BusShowsTypes DEF BusChanges, LightEvents
  <2>. QED BY <1>7, <2>1 DEF BusChanges
<1>8. ASSUME NEW d \in Lights, NEW l \in Levels, Control(d, l)
      PROVE  DaliInv'
  <2>1. /\ level' \in [Gateways -> [Lights -> Levels \cup {Unset}]]
        /\ events' \in Seq([light : Lights, level : Levels])
        /\ phase # "socket" => events' = <<>>
    BY <1>8, BusShowsTypes DEF Control, LightEvents
  <2>. QED BY <1>8, <2>1 DEF Control
<1>9. CASE ControlAnswered
  <2>1. post.light \in Lights /\ post.level \in Levels
    BY <1>9 DEF ControlAnswered
  <2>2. lights = Nothing => lights' = Nothing
    BY <1>9, <2>1 DEF ControlAnswered, Nothing
  <2>3. lights' \in [Lights -> Levels \cup {Unset}]
    BY <1>9, <2>1 DEF ControlAnswered
  <2>. QED BY <1>9, <2>2, <2>3 DEF ControlAnswered
<1>10. CASE ControlFails
  BY <1>10 DEF ControlFails
<1>11. ASSUME NEW g \in Gateways \cup {Unset}, Configure(g)
       PROVE  DaliInv'
  BY <1>11 DEF Configure
<1>12. ASSUME NEW S \in SUBSET Gateways, GatewayChanges(S)
       PROVE  DaliInv'
  BY <1>12 DEF GatewayChanges
<1>13. CASE UNCHANGED daliVars
  BY <1>13 DEF daliVars
<1>. QED
  BY <1>1, <1>2, <1>3, <1>4, <1>5, <1>6, <1>7, <1>8, <1>9, <1>10, <1>11, <1>12, <1>13,
     DaliActs
  DEF DaliStep, DaliLoop, DaliTrouble, DaliFails, DaliAsked

LEMMA DaliAlways == SideSpec => []DaliInv
BY DaliInvInit, DaliInvStep, PTL DEF SideSpec

(* When the loop has turned the DALI client off, no light of the gateway   *)
(* that was taken away is left in its cache, whatever answers, events and  *)
(* controls were on their way.                                             *)
THEOREM NoLightLeft == SideSpec => []NothingLeftBehind
<1>1. DaliInv => NothingLeftBehind
  BY DEF DaliInv, Forgets, NothingLeftBehind
<1>. QED BY <1>1, DaliAlways, PTL

-----------------------------------------------------------------------------
(* The Bluetooth loop.                                                     *)

LEMMA TodoTypes ==
    ASSUME ScannerTypes, Manageable
    PROVE  Todo \in Seq(Commands)
<1>1. /\ If(unit.enabled # (asked = "on"), <<IF asked = "on" THEN "enable" ELSE "disable">>)
         \in Seq(Commands)
      /\ If(asked = "on" /\ unit.active = "inactive", <<"start">>) \in Seq(Commands)
      /\ If(asked = "off" /\ unit.active \notin Stopped, <<"stop">>) \in Seq(Commands)
  <2>1. /\ <<>> \in Seq(Commands)
        /\ \A c \in Commands : <<c>> \in Seq(Commands)
    OBVIOUS
  <2>2. {"enable", "disable", "start", "stop"} \subseteq Commands
    BY DEF Commands
  <2>. QED BY <2>1, <2>2 DEF If
<1>. QED BY <1>1 DEF Todo

LEMMA AfterTypes ==
    ASSUME NEW c \in Commands, unit \in Units
    PROVE  After(c) \in Units
BY DEF After, Commands, Units, Actives, Stopped

LEMMA ScannerTypesStep == ScannerTypes /\ [SideNext]_allVars => ScannerTypes'
<1>. SUFFICES ASSUME ScannerTypes, [SideNext]_allVars PROVE ScannerTypes'
  OBVIOUS
<1>. USE DEF ScannerTypes, Modes
<1>1. CASE ScannerStarts \/ Wakes
  <2>1. CASE ScannerStarts
    BY <2>1, NoneOf DEF ScannerStarts
  <2>2. CASE Wakes
    BY <2>2 DEF Wakes
  <2>. QED BY <1>1, <2>1, <2>2
<1>9. CASE CannotObserve
  BY <1>9 DEF CannotObserve
<1>2. CASE Observes
  <2>1. CASE ~Wrong /\ Manageable /\ Todo # <<>>
    BY <1>2, <2>1, TodoTypes DEF Observes
  <2>2. CASE ~(~Wrong /\ Manageable /\ Todo # <<>>)
    <3>1. metrics' \in Actives \cup {"checking", "error", "not installed"}
      BY <1>2, <2>2 DEF Observes, Found, Units
    <3>. QED BY <1>2, <2>2, <3>1 DEF Observes
  <2>. QED BY <2>1, <2>2
<1>3. CASE Carries
  <2>0. commands \in Seq(Commands) /\ commands # <<>> /\ unit \in Units
    BY <1>3 DEF Carries
  <2>4. Head(commands) \in Commands /\ Tail(commands) \in Seq(Commands)
    BY <2>0, HeadAndTail
  <2>1. unit' \in Units
    BY <1>3, <2>0, <2>4, AfterTypes DEF Carries
  <2>2. commands' \in Seq(Commands)
    BY <1>3, <2>4 DEF Carries
  <2>3. metrics' \in Actives \cup {"checking", "error", "not installed"}
    BY <1>3, <2>1 DEF Carries, Units
  <2>. QED BY <1>3, <2>1, <2>2, <2>3 DEF Carries
<1>4. CASE CommandFails
  <2>0. commands \in Seq(Commands) /\ commands # <<>>
    BY <1>4 DEF CommandFails
  <2>2. Head(commands) \in Commands
    BY <2>0, HeadAndTail
  <2>1. unit' \in Units \cup {NoUnit}
    BY <1>4, <2>2, AfterTypes DEF CommandFails
  <2>3. commands' \in Seq(Commands) /\ asked' = "none" /\ commands' = <<>> /\ metrics' = "error"
    BY <1>4, NoneOf DEF CommandFails
  <2>. QED BY <1>4, <2>1, <2>3 DEF CommandFails
<1>5. CASE Completes
  <2>0. unit \in Units /\ "active" \in Actives /\ "inactive" \in Actives
    BY <1>5 DEF Completes, Actives, Stopped
  <2>1. unit' \in Units
    BY <1>5, <2>0 DEF Completes, Units
  <2>. QED BY <1>5, <2>1 DEF Completes, scannerMemory
<1>6. ASSUME NEW u \in Units \cup {NoUnit}, UnitChanges(u)
      PROVE  ScannerTypes'
  BY <1>6 DEF UnitChanges, scannerMemory
<1>7. ASSUME NEW m \in Modes, SetMode(m)
      PROVE  ScannerTypes'
  BY <1>7 DEF SetMode, scannerMemory
<1>8. CASE TwinChanges \/ UNCHANGED scannerVars
  BY <1>8 DEF TwinChanges, scannerMemory, scannerVars
<1>. QED
  BY <1>1, <1>2, <1>3, <1>4, <1>5, <1>6, <1>7, <1>8, <1>9, ScannerActs
  DEF ScannerStep, ScannerLoop, ScannerFails, ScannerTrouble

-----------------------------------------------------------------------------
(* The installs.                                                           *)

(* A job is done once its thread is over; from "ok" on it says how the     *)
(* script ended; what a poll has read as done, or told, stays so.          *)
Judged(i) ==
    /\ job[i].done => thread[i] = "over"
    /\ job[i].done \/ thread[i] = "closing" => exit[i] # "none"
    /\ job[i].done \/ thread[i] = "closing" => job[i].ok = (exit[i] = "zero")
    /\ thread[i] = "judging" => exit[i] # "none"
    /\ asking[i] = "done" => job[i].done
    /\ i > begun => thread[i] = "none"
    /\ verdict[i] \in {"installed", "failed"} => job[i].done
    /\ verdict[i] = "installed" => exit[i] = "zero"
    /\ verdict[i] = "failed" => exit[i] = "other"

InstallsInv == InstallsTypes /\ \A i \in Installs : Judged(i)

LEMMA InstallsInvInit == SideInit => InstallsInv
<1>. SUFFICES ASSUME InstallsInit PROVE InstallsInv
  BY DEF SideInit
<1>. QED BY DEF InstallsInit, InstallsInv, InstallsTypes, Judged, Installs

(* The number of a new install is within the bound.                        *)
LEMMA NextInstall ==
    ASSUME InstallsTypes
    PROVE  /\ begun \in Nat
           /\ InstallBegins => /\ begun' = begun + 1 /\ begun' \in Installs
                              /\ begun' \in 0..MaxInstalls
<1>1. begun \in 0..MaxInstalls
  BY DEF InstallsTypes
<1>2. InstallBegins => begun' = begun + 1 /\ begun < MaxInstalls
  BY DEF InstallBegins
<1>3. MaxInstalls \in Nat
  OBVIOUS
<1>. QED BY <1>1, <1>2, <1>3 DEF Installs

(* A function with one value changed within its range.                     *)
LEMMA ChangedWithin ==
    ASSUME NEW S, NEW R, NEW f \in [S -> R], NEW g,
           NEW i \in S, NEW r \in R, g = [f EXCEPT ![i] = r]
    PROVE  g \in [S -> R]
OBVIOUS

LEMMA InstallsTypesStep == InstallsInv /\ [SideNext]_allVars => InstallsTypes'
<1>. SUFFICES ASSUME InstallsTypes, [SideNext]_allVars PROVE InstallsTypes'
  BY DEF InstallsInv
<1>. USE DEF InstallsTypes
<1>1. CASE InstallBegins
  <2>1. begun' \in 0..MaxInstalls /\ begun' \in Installs
    BY <1>1, NextInstall
  <2>2. thread' \in [Installs -> {"none", "starting", "connecting", "fetching", "running",
                                  "empty", "judging", "closing", "over"}]
    BY <1>1, <2>1 DEF InstallBegins
  <2>3. asking' \in [Installs -> {"none", "ready", "done", "told"}]
    BY <1>1, <2>1 DEF InstallBegins
  <2>. QED BY <1>1, <2>1, <2>2, <2>3 DEF InstallBegins
<1>2. ASSUME NEW i \in Installs, LooksUp(i) \/ LogsIn(i) \/ Fetches(i)
      PROVE  InstallsTypes'
  <2>1. thread' \in [Installs -> {"none", "starting", "connecting", "fetching", "running",
                                  "empty", "judging", "closing", "over"}]
    BY <1>2 DEF LooksUp, LogsIn, Fetches
  <2>. QED BY <1>2, <2>1 DEF LooksUp, LogsIn, Fetches
<1>3. ASSUME NEW i \in Installs, NEW e \in {"zero", "other"}, Exits(i, e)
      PROVE  InstallsTypes'
  BY <1>3 DEF Exits
<1>4. ASSUME NEW i \in Installs, Judges(i)
      PROVE  InstallsTypes'
  <2>1. job' \in [Installs -> [ok : BOOLEAN, done : BOOLEAN]]
    <3>1. job[i] \in [ok : BOOLEAN, done : BOOLEAN] /\ (exit[i] = "zero") \in BOOLEAN
      OBVIOUS
    <3>2. /\ [job[i] EXCEPT !.ok = (exit[i] = "zero")] \in [ok : BOOLEAN, done : BOOLEAN]
          /\ [job[i] EXCEPT !.done = TRUE] \in [ok : BOOLEAN, done : BOOLEAN]
      BY <3>1
    <3>3. \/ job' = [job EXCEPT ![i] = [job[i] EXCEPT !.ok = (exit[i] = "zero")]]
          \/ job' = [job EXCEPT ![i] = [job[i] EXCEPT !.done = TRUE]]
      BY <1>4 DEF Judges
    <3>4. CASE job' = [job EXCEPT ![i] = [job[i] EXCEPT !.ok = (exit[i] = "zero")]]
      BY <3>2, <3>4, ChangedWithin
    <3>5. CASE job' = [job EXCEPT ![i] = [job[i] EXCEPT !.done = TRUE]]
      BY <3>2, <3>5, ChangedWithin
    <3>. QED BY <3>3, <3>4, <3>5
  <2>. QED BY <1>4, <2>1 DEF Judges
<1>5. ASSUME NEW i \in Installs, Expires(i) \/ ReadsDone(i) \/ ReadsOk(i)
      PROVE  InstallsTypes'
  BY <1>5 DEF Expires, ReadsDone, ReadsOk
<1>6. CASE InviteChanges
  <2>1. invite' \in BOOLEAN
    BY <1>6 DEF InviteChanges
  <2>. QED BY <1>6, <2>1 DEF InviteChanges
<1>7. CASE UNCHANGED installVars
  BY <1>7 DEF installVars
<1>. QED
  BY <1>1, <1>2, <1>3, <1>4, <1>5, <1>6, <1>7, InstallsAct
  DEF InstallStep, InstallEnds, Polling

(* A step of one install leaves the others as they are.                    *)
LEMMA JudgedStep ==
    ASSUME InstallsInv, [SideNext]_allVars, NEW k \in Installs
    PROVE  Judged(k)'
<1>a. begun \in Nat /\ Judged(k)
  BY NextInstall DEF InstallsInv
<1>0. /\ Judged(k) /\ begun \in Nat
      /\ thread \in [Installs -> {"none", "starting", "connecting", "fetching", "running",
                                  "empty", "judging", "closing", "over"}]
      /\ exit \in [Installs -> {"none", "zero", "other"}]
      /\ job \in [Installs -> [ok : BOOLEAN, done : BOOLEAN]]
      /\ asking \in [Installs -> {"none", "ready", "done", "told"}]
      /\ verdict \in [Installs -> {"none", "installed", "failed", "request failed"}]
  BY <1>a DEF InstallsInv, InstallsTypes
<1>1. CASE InstallBegins
  <2>1. begun' = begun + 1 /\ begun' \in Installs /\ k \in Int
    BY <1>1, NextInstall DEF InstallsInv, Installs
  <2>2. CASE k = begun + 1
    <3>0. k > begun
      BY <1>a, <2>2
    <3>1. thread[k] = "none" /\ ~job[k].done
      BY <3>0, <1>a DEF Judged
    <3>2. /\ thread'[k] = "starting" /\ asking'[k] = "ready" /\ ~(k > begun')
          /\ UNCHANGED <<exit, job, verdict>>
      <4>1. ~(k > begun')
        BY <1>a, <2>1, <2>2
      <4>. QED BY <1>0, <1>1, <2>1, <2>2, <4>1 DEF InstallBegins
    <3>. QED BY <1>0, <3>1, <3>2 DEF Judged
  <2>3. CASE k # begun + 1
    <3>1. /\ thread'[k] = thread[k] /\ asking'[k] = asking[k]
          /\ k > begun' => k > begun
          /\ UNCHANGED <<exit, job, verdict>>
      <4>1. k > begun' => k > begun
        BY <1>a, <2>1
      <4>2. k # begun'
        BY <2>1, <2>3
      <4>. QED BY <1>0, <1>1, <2>1, <4>1, <4>2 DEF InstallBegins
    <3>. QED BY <1>0, <3>1 DEF Judged
  <2>. QED BY <2>2, <2>3
<1>2. ASSUME NEW i \in Installs, InstallStep(i) \/ Polling(i), i # k
      PROVE  Judged(k)'
  <2>1. /\ thread'[k] = thread[k] /\ exit'[k] = exit[k] /\ job'[k] = job[k]
        /\ asking'[k] = asking[k] /\ verdict'[k] = verdict[k] /\ begun' = begun
    BY <1>0, <1>2
    DEF InstallStep, InstallEnds, Polling, LooksUp, LogsIn, Fetches, Exits, Judges,
        Expires, ReadsDone, ReadsOk
  <2>. QED BY <1>0, <2>1 DEF Judged
<1>3. CASE LooksUp(k) \/ LogsIn(k) \/ Fetches(k)
  <2>1. /\ thread[k] \in {"starting", "connecting", "fetching"}
        /\ thread'[k] \in {"connecting", "over", "fetching", "running", "empty"}
        /\ UNCHANGED <<begun, exit, job, asking, verdict>>
    BY <1>0, <1>3 DEF LooksUp, LogsIn, Fetches
  <2>. QED BY <1>0, <2>1 DEF Judged
<1>4. ASSUME NEW e \in {"zero", "other"}, Exits(k, e)
      PROVE  Judged(k)'
  <2>1. /\ thread[k] \in {"connecting", "fetching", "running", "empty"}
        /\ thread'[k] = "judging" /\ exit'[k] = e
        /\ UNCHANGED <<begun, job, asking, verdict>>
    BY <1>0, <1>4 DEF Exits
  <2>. QED BY <1>0, <2>1 DEF Judged
<1>5. CASE Judges(k)
  <2>1. CASE thread[k] = "judging"
    <3>1. /\ thread'[k] = "closing" /\ job'[k].ok = (exit[k] = "zero")
          /\ job'[k].done = job[k].done
          /\ UNCHANGED <<begun, exit, asking, verdict>>
      <4>1. /\ job' = [job EXCEPT ![k].ok = (exit[k] = "zero")]
            /\ thread' = [thread EXCEPT ![k] = "closing"]
            /\ UNCHANGED <<begun, exit, asking, verdict>>
        BY <1>5, <2>1 DEF Judges
      <4>2. /\ job'[k] = [job[k] EXCEPT !.ok = (exit[k] = "zero")]
            /\ thread'[k] = "closing"
        BY <1>0, <4>1
      <4>3. job[k] \in [ok : BOOLEAN, done : BOOLEAN]
        BY <1>0
      <4>4. job'[k].ok = (exit[k] = "zero") /\ job'[k].done = job[k].done
        BY <4>2, <4>3
      <4>. QED BY <4>1, <4>2, <4>4
    <3>. QED BY <1>0, <2>1, <3>1 DEF Judged
  <2>2. CASE thread[k] = "closing"
    <3>1. /\ thread'[k] = "over" /\ job'[k].ok = job[k].ok /\ job'[k].done = TRUE
          /\ UNCHANGED <<begun, exit, asking, verdict>>
      <4>1. /\ job' = [job EXCEPT ![k].done = TRUE]
            /\ thread' = [thread EXCEPT ![k] = "over"]
            /\ UNCHANGED <<begun, exit, asking, verdict>>
        BY <1>5, <2>2 DEF Judges
      <4>2. job'[k] = [job[k] EXCEPT !.done = TRUE] /\ thread'[k] = "over"
        BY <1>0, <4>1
      <4>3. job[k] \in [ok : BOOLEAN, done : BOOLEAN]
        BY <1>0
      <4>4. job'[k].ok = job[k].ok /\ job'[k].done = TRUE
        BY <4>2, <4>3
      <4>. QED BY <4>1, <4>2, <4>4
    <3>. QED BY <1>0, <2>2, <3>1 DEF Judged
  <2>. QED BY <1>5, <2>1, <2>2 DEF Judges
<1>6. CASE Expires(k) \/ ReadsDone(k)
  <2>1. \/ asking'[k] = "told" /\ verdict'[k] = "request failed"
        \/ asking'[k] = "done" /\ verdict'[k] = verdict[k] /\ job[k].done
    <3>1. CASE Expires(k)
      <4>1. /\ asking' = [asking EXCEPT ![k] = "told"]
            /\ verdict' = [verdict EXCEPT ![k] = "request failed"]
        BY <3>1 DEF Expires
      <4>. QED BY <1>0, <4>1
    <3>2. CASE ReadsDone(k)
      BY <1>0, <3>2 DEF ReadsDone
    <3>. QED BY <1>6, <3>1, <3>2
  <2>2. UNCHANGED <<begun, thread, exit, job>>
    BY <1>6 DEF Expires, ReadsDone
  <2>. QED BY <1>0, <2>1, <2>2 DEF Judged
<1>7. CASE ReadsOk(k)
  <2>1. /\ asking[k] = "done" /\ asking'[k] = "told"
        /\ verdict'[k] = IF job[k].ok THEN "installed" ELSE "failed"
        /\ UNCHANGED <<begun, thread, exit, job>>
    BY <1>0, <1>7 DEF ReadsOk
  <2>2. /\ job[k].done /\ exit[k] \in {"zero", "other"}
        /\ job[k].ok = (exit[k] = "zero")
    BY <1>0, <2>1 DEF Judged
  <2>3. /\ verdict'[k] = "installed" => exit[k] = "zero"
        /\ verdict'[k] = "failed" => exit[k] = "other"
        /\ asking'[k] # "done"
    BY <2>1, <2>2
  <2>. QED BY <1>0, <2>1, <2>2, <2>3 DEF Judged
<1>8. CASE UNCHANGED <<begun, thread, exit, job, asking, verdict>>
  BY <1>0, <1>8 DEF Judged
<1>9. CASE \E i \in Installs : InstallStep(i) \/ Polling(i)
  BY <1>2, <1>3, <1>4, <1>5, <1>6, <1>7, <1>9 DEF InstallStep, InstallEnds, Polling
<1>. QED BY <1>1, <1>8, <1>9, InstallsAct DEF InviteChanges, installVars

LEMMA InstallsInvStep == InstallsInv /\ [SideNext]_allVars => InstallsInv'
BY InstallsTypesStep, JudgedStep DEF InstallsInv

LEMMA InstallsAlways == SideSpec => []InstallsInv
BY InstallsInvInit, InstallsInvStep, PTL DEF SideSpec

(* However the thread and the polls take turns, and however many installs  *)
(* there are, a browser that is told of an outcome is told the true one.   *)
THEOREM InstallVerdicts == SideSpec => []VerdictIsTrue
<1>1. InstallsInv => VerdictIsTrue
  BY DEF InstallsInv, VerdictIsTrue, Judged
<1>. QED BY <1>1, InstallsAlways, PTL

-----------------------------------------------------------------------------
(* The enrolment.                                                          *)

LEMMA DiscoveryTypesStep == DiscoveryTypes /\ [SideNext]_allVars => DiscoveryTypes'
<1>. SUFFICES ASSUME DiscoveryTypes, [SideNext]_allVars PROVE DiscoveryTypes'
  OBVIOUS
<1>. USE DEF DiscoveryTypes, enrollMemory
<1>1. CASE Recognises \/ OpensFlow
  BY <1>1 DEF Recognises, OpensFlow, AreaDue
<1>2. CASE Creates \/ AlreadyThere \/ GivesUpEnrolling
  BY <1>2 DEF Creates, AlreadyThere, GivesUpEnrolling, FlowAfter
<1>3. CASE RetryDue \/ DeviceAppears \/ HomeAssistantRestarts
  BY <1>3 DEF RetryDue, DeviceAppears, HomeAssistantRestarts
<1>6. CASE CandidateChanges
  BY <1>6 DEF CandidateChanges
<1>7. CASE RoomChanges
  BY <1>7 DEF RoomChanges
<1>4. ASSUME NEW e \in {NoEntry, "theirs", "ignored"}, EntryChanges(e)
      PROVE  DiscoveryTypes'
  BY <1>4 DEF EntryChanges
<1>5. CASE UNCHANGED discoveryVars
  BY <1>5 DEF discoveryVars
<1>. QED
  BY <1>1, <1>2, <1>3, <1>4, <1>5, <1>6, <1>7, EnrolmentActs DEF Enrolment, DiscoveryTrouble

-----------------------------------------------------------------------------
LEMMA TogetherStep ==
    moving \in Together /\ quiet \in BOOLEAN /\ [SideNext]_allVars =>
        (moving \in Together /\ quiet \in BOOLEAN)'
BY DEF SideNext, AgentMoves, WatchdogMoves, DaliMoves, ScannerMoves,
       InstallsMoves, EnrolmentMoves, Hush, allVars

(* Every variable of the side tasks has its type.                          *)
THEOREM SideTyped == SideSpec => []SideTypes
<1>. DEFINE Others == ScannerTypes /\ DiscoveryTypes /\ moving \in Together /\ quiet \in BOOLEAN
<1>1. SideInit => Others
  <2>1. ScannerInit => ScannerTypes
    BY NoneOf DEF ScannerInit, ScannerTypes, Modes
  <2>2. DiscoveryInit => DiscoveryTypes
    BY DEF DiscoveryInit, DiscoveryTypes
  <2>. QED BY <2>1, <2>2 DEF SideInit
<1>2. Others /\ [SideNext]_allVars => Others'
  BY ScannerTypesStep, DiscoveryTypesStep, TogetherStep
<1>3. TypeOK /\ Recorded /\ DaliInv /\ InstallsInv /\ Others => SideTypes
  BY DEF Recorded, DaliInv, InstallsInv, SideTypes
<1>. HIDE DEF Others
<1>. QED
  BY <1>1, <1>2, <1>3, ProcessTyped, RecordedAlways, DaliAlways, InstallsAlways, PTL
  DEF SideSpec

(* The fallback is a proven build with the loops beside the update, too.   *)
THEOREM FallbackBesideLoops ==
    ASSUME NEW ws, Tasks = {ws}
    PROVE  SideSpec => []FallsBackToProven
<1>1. IInv /\ [Next]_vars => IInv'
  BY IInvStep
<1>2. IInv => FallsBackToProven
  BY DEF IInv
<1>. QED BY IInvInit, <1>1, <1>2, ProcessImplements, PTL

(* And a panel is stranded by nothing else than without them.              *)
THEOREM StrandedBesideLoops ==
    ASSUME NEW ws, Tasks = {ws}
    PROVE  SideSpec => StrandedOnlyBy
<1>1. IInv /\ [Next]_vars => IInv'
  BY IInvStep
<1>2. IInv /\ [Next]_vars => [Sound /\ ~Sound' => Strands]_vars
  BY Stranding
<1>. QED BY IInvInit, <1>1, <1>2, ProcessImplements, PTL DEF StrandedOnlyBy

-----------------------------------------------------------------------------
(* What the loops come to rest in.  Each of these is a state that nothing  *)
(* leaves once it is quiet: the safety half of a property "~> []".         *)

Hushed == TypeOK /\ (quiet => ~Moves("update"))

LEMMA HushedAlways == SideSpec => []Hushed
<1>. DEFINE Silent == quiet => ~Moves("update")
<1>1. SideInit => Silent
  BY DEF SideInit
<1>2. Silent /\ [SideNext]_allVars => Silent'
  BY DEF SideNext, AgentMoves, WatchdogMoves, DaliMoves, ScannerMoves,
         InstallsMoves, EnrolmentMoves, Hush, allVars, Moves
<1>3. TypeOK /\ Silent <=> Hushed
  BY DEF Hushed
<1>. HIDE DEF Silent
<1>. QED BY <1>1, <1>2, <1>3, ProcessTyped, PTL DEF SideSpec

(* In the quiet the process stays, and with it the loops.                  *)
LEMMA QuietStep ==
    ASSUME Hushed, quiet, Alive, [SideNext]_allVars
    PROVE  /\ quiet' /\ Alive'
           /\ DaliLoop \/ Hears \/ Polls \/ ControlAnswered \/ UNCHANGED daliVars
           /\ ScannerLoop \/ Completes \/ UNCHANGED scannerVars
<1>. USE DEF Hushed
<1>1. CASE AgentMoves
  <2>1. ~Start
    BY DEF Start, TypeOK, Alive
  <2>2. UNCHANGED vars
    BY <1>1, <2>1 DEF AgentMoves, AgentStep, GoOn
  <2>3. Alive' = Alive
    BY <2>2 DEF vars, processVars, Alive
  <2>. QED BY <1>1, <2>2, <2>3 DEF AgentMoves, LoopsFollow, loopVars
<1>2. CASE WatchdogMoves
  BY <1>2 DEF WatchdogMoves, vars, processVars, Alive
<1>3. CASE DaliMoves
  BY <1>3 DEF DaliMoves, DaliStep, vars, processVars, Alive
<1>4. CASE ScannerMoves
  BY <1>4 DEF ScannerMoves, ScannerStep, vars, processVars, Alive
<1>5. CASE InstallsMoves \/ EnrolmentMoves
  BY <1>5 DEF InstallsMoves, EnrolmentMoves, loopVars, vars, processVars, Alive
<1>6. CASE Hush \/ UNCHANGED allVars
  BY <1>6 DEF Hush, allVars, loopVars, vars, processVars, Alive
<1>. QED BY <1>1, <1>2, <1>3, <1>4, <1>5, <1>6 DEF SideNext

(* The loop holds the socket of the gateway that the config names.         *)
Holding(g) ==
    /\ quiet /\ Alive
    /\ gateway = g /\ g \in answering
    /\ phase = "socket" /\ session = g /\ status = "connected"

LEMMA HoldingStep ==
    ASSUME NEW g \in Gateways, Hushed, Holding(g), [SideNext]_allVars
    PROVE  Holding(g)'
<1>1. quiet' /\ Alive'
  BY QuietStep DEF Holding
<1>2. Hears \/ Polls \/ ControlAnswered \/ UNCHANGED daliVars
  <2>1. ~DaliLoop
    BY DEF Holding, DaliLoop, TurnsOff, TakesConfig, Primes, Connects, Retries,
           Reconfigured, Unreachable
  <2>. QED BY <2>1, QuietStep DEF Holding
<1>3. UNCHANGED <<gateway, answering, phase, session, status>>
  BY <1>2 DEF Hears, Polls, ControlAnswered, daliVars, daliMemory
<1>. QED BY <1>1, <1>3 DEF Holding

(* A loop that has the configured gateway's socket keeps it: neither the   *)
(* config it reads every second, nor a poll, nor a control, nor the answer *)
(* to one begins it anew.                                                  *)
THEOREM GatewayIsHeld ==
    ASSUME NEW g \in Gateways
    PROVE  SideSpec => [](Holding(g) => [](Holding(g) /\ AsConfigured))
<1>1. Hushed /\ Holding(g) /\ [SideNext]_allVars => Holding(g)'
  BY HoldingStep
<1>2. Holding(g) => AsConfigured
  BY DEF Holding, AsConfigured
<1>. QED BY <1>1, <1>2, HushedAlways, PTL DEF SideSpec

(* The client is turned off, and has nothing.                              *)
TurnedOff ==
    /\ quiet /\ Alive
    /\ gateway = Unset /\ phase = "top" /\ status = "off" /\ lights = Nothing

LEMMA TurnedOffStep ==
    ASSUME DaliInv, Hushed, TurnedOff, [SideNext]_allVars
    PROVE  TurnedOff'
<1>. USE DEF TurnedOff
<1>1. quiet' /\ Alive'
  BY QuietStep
<1>2. ~DaliLoop
  <2>1. ~TurnsOff /\ ~TakesConfig
    BY DEF TurnsOff, TakesConfig
  <2>2. ~Primes /\ ~Connects /\ ~Retries /\ ~Reconfigured /\ ~Unreachable
    BY DEF Primes, Connects, Retries, Reconfigured, Unreachable
  <2>. QED BY <2>1, <2>2 DEF DaliLoop
<1>3. ~Hears /\ ~Polls
  BY DEF Hears, Polls
<1>4. CASE ControlAnswered
  <2>1. post \in [light : Lights, level : Levels]
    BY <1>4 DEF ControlAnswered, DaliInv, DaliTypes
  <2>2. lights' = Nothing
    BY <1>4, <2>1 DEF ControlAnswered, Nothing
  <2>. QED BY <1>1, <1>4, <2>2 DEF ControlAnswered
<1>5. CASE UNCHANGED daliVars
  BY <1>1, <1>5 DEF daliVars, daliMemory
<1>. QED BY <1>2, <1>3, <1>4, <1>5, QuietStep

(* A client that is off stays off, and the answer to a control that was on *)
(* its way brings no light back.                                           *)
THEOREM LightsStayGone == SideSpec => [](TurnedOff => [](TurnedOff /\ AsConfigured))
<1>1. DaliInv /\ Hushed /\ TurnedOff /\ [SideNext]_allVars => TurnedOff'
  BY TurnedOffStep
<1>2. TurnedOff => AsConfigured
  BY DEF TurnedOff, AsConfigured
<1>. QED BY <1>1, <1>2, HushedAlways, DaliAlways, PTL DEF SideSpec

(* Nothing is on its way to the cache, and it shows what the gateway has.  *)
Showing(g) == Holding(g) /\ events = <<>> /\ post = Unset /\ CaughtUp(g)

LEMMA ShowingStep ==
    ASSUME NEW g \in Gateways, DaliInv, Hushed, Showing(g), [SideNext]_allVars
    PROVE  Showing(g)'
<1>1. Holding(g)'
  BY HoldingStep DEF Showing
<1>2. Polls \/ UNCHANGED daliVars
  <2>1. ~DaliLoop /\ ~Hears /\ ~ControlAnswered
    BY DEF Showing, Holding, DaliLoop, TurnsOff, TakesConfig, Primes, Connects, Retries,
           Reconfigured, Unreachable, Hears, ControlAnswered
  <2>. QED BY <2>1, QuietStep DEF Showing, Holding
<1>3. UNCHANGED <<events, post, level>>
  BY <1>2 DEF Polls, daliVars, daliMemory
<1>4. CaughtUp(g)'
  <2>1. CASE Polls
    BY <1>3, <2>1 DEF Polls, Ingested, CaughtUp, Showing, Holding
  <2>2. CASE UNCHANGED daliVars
    BY <2>2 DEF daliVars, daliMemory, CaughtUp, Showing
  <2>. QED BY <1>2, <2>1, <2>2
<1>. QED BY <1>1, <1>3, <1>4 DEF Showing

(* A cache that has caught up stays true, polled or not: with no event and *)
(* no control under way there is nothing left to be folded in too late.    *)
THEOREM CacheStaysTrue ==
    ASSUME NEW g \in Gateways
    PROVE  SideSpec => [](Showing(g) => [](Showing(g) /\ CaughtUp(g)))
<1>1. DaliInv /\ Hushed /\ Showing(g) /\ [SideNext]_allVars => Showing(g)'
  BY ShowingStep
<1>2. Showing(g) => CaughtUp(g)
  BY DEF Showing
<1>. QED BY <1>1, <1>2, HushedAlways, DaliAlways, PTL DEF SideSpec

(* The loop has nothing to do, reads no other mode, and systemd is done.   *)
Obeyed ==
    /\ quiet /\ Alive /\ AsAsked
    /\ commands = <<>> /\ asked \in {"none", mode}
    /\ unit # NoUnit => unit.active \in Stopped \cup {"active"}

LEMMA ObeyedStep ==
    ASSUME ScannerTypes, Hushed, Obeyed, [SideNext]_allVars
    PROVE  Obeyed'
<1>. USE DEF Obeyed
<1>1. quiet' /\ Alive'
  BY QuietStep
<1>2. CASE Wakes
  BY <1>1, <1>2 DEF Wakes, AsAsked
<1>3. CASE Observes
  <2>1. asked = mode
    BY <1>3 DEF Observes
  <2>2. unit # NoUnit => unit \in Units
    BY DEF ScannerTypes
  <2>3. ~Wrong /\ Manageable => Todo = <<>>
    <3>. SUFFICES ASSUME ~Wrong, Manageable PROVE Todo = <<>>
      OBVIOUS
    <3>1. ~(unit.enabled # (asked = "on"))
      BY <2>1 DEF Wrong, Manageable, AsAsked
    <3>2. ~(asked = "on" /\ unit.active = "inactive")
      BY <2>1 DEF Wrong, Manageable, AsAsked
    <3>3. ~(asked = "off" /\ unit.active \notin Stopped)
      BY <2>1 DEF Wrong, Manageable, AsAsked
    <3>. QED BY <3>1, <3>2, <3>3 DEF Todo, If
  <2>4. /\ metrics' = (IF Wrong THEN "error" ELSE Found)
        /\ asked' = "none" /\ commands' = <<>>
        /\ UNCHANGED <<mode, unit, twins>>
    BY <1>3, <2>3 DEF Observes
  <2>5. metrics' = metrics
    BY <2>1, <2>4 DEF Wrong, Manageable, Found, AsAsked, ScannerTypes, Modes
  <2>. QED BY <1>1, <2>4, <2>5 DEF AsAsked
<1>4. ~Carries /\ ~CommandFails
  BY DEF Carries, CommandFails
<1>5. ~Completes
  BY DEF Completes, Stopped
<1>6. CASE UNCHANGED scannerVars
  BY <1>1, <1>6 DEF scannerVars, scannerMemory, AsAsked
<1>. QED BY <1>2, <1>3, <1>4, <1>5, <1>6, QuietStep DEF ScannerLoop

(* A scanner that is as it is asked to be stays so: looking at it again    *)
(* makes the loop give no command and change no report.                    *)
THEOREM ScannerStaysAsAsked == SideSpec => [](Obeyed => [](Obeyed /\ AsAsked))
<1>1. ScannerTypes /\ Hushed /\ Obeyed /\ [SideNext]_allVars => Obeyed'
  BY ObeyedStep
<1>2. Obeyed => AsAsked
  BY DEF Obeyed
<1>3. SideInit => ScannerTypes
  BY NoneOf DEF SideInit, ScannerInit, ScannerTypes, Modes
<1>. QED BY <1>1, <1>2, <1>3, ScannerTypesStep, HushedAlways, PTL DEF SideSpec

(* An enrolment that is over stays over, and its entry keeps the area it   *)
(* was given.                                                              *)
THEOREM EnrolmentStaysDone ==
    SideSpec => [](quiet /\ Enrolled => [](quiet /\ Enrolled))
<1>1. DiscoveryTypes /\ quiet /\ Enrolled /\ [SideNext]_allVars => (quiet /\ Enrolled)'
  <2>. SUFFICES ASSUME DiscoveryTypes, quiet, Enrolled, [SideNext]_allVars
                PROVE  quiet' /\ Enrolled'
    OBVIOUS
  <2>. USE DEF DiscoveryTypes
  <2>1. quiet' /\ (Enrolment \/ RetryDue \/ DeviceAppears \/ UNCHANGED discoveryVars)
    BY DEF SideNext, AgentMoves, WatchdogMoves, DaliMoves, ScannerMoves,
           InstallsMoves, EnrolmentMoves, Hush, elsewhereVars, allVars
  <2>2. ~Recognises /\ ~OpensFlow /\ ~Creates
    BY DEF Recognises, OpensFlow, Creates, Enrolled
  <2>3. CASE AlreadyThere
    BY <2>1, <2>3 DEF AlreadyThere, Enrolled
  <2>4. CASE RetryDue
    BY <2>1, <2>4 DEF RetryDue, Enrolled
  <2>5. CASE DeviceAppears
    BY <2>1, <2>5 DEF DeviceAppears, enrollMemory, Enrolled
  <2>6. CASE UNCHANGED discoveryVars
    BY <2>1, <2>6 DEF discoveryVars, enrollMemory, Enrolled
  <2>. QED BY <2>1, <2>2, <2>3, <2>4, <2>5, <2>6 DEF Enrolment
<1>2. SideInit => DiscoveryTypes
  BY DEF SideInit, DiscoveryInit, DiscoveryTypes
<1>. QED BY <1>1, <1>2, DiscoveryTypesStep, PTL DEF SideSpec
=============================================================================
