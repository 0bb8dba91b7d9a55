----------------------------- MODULE SideTasks ------------------------------
(***************************************************************************)
(* The tasks that run beside the programs' main work.                      *)
(*                                                                         *)
(* On the panel: the agent's process (SelfUpdate) with the loops that main *)
(* starts beside server_side, which are the browser watchdog, the DALI     *)
(* client and the Bluetooth loop (agent/panel-agent.py).  They start once  *)
(* confirm_update is over, whether or not the server can be reached, end   *)
(* with the process, and begin anew with what is on the card.  On the      *)
(* server: the threads that install panels.  In Home Assistant: the        *)
(* enrolment of the scanners.                                              *)
(*                                                                         *)
(* The tasks share nothing but their process.  What takes steps in one     *)
(* behaviour is one of the sets in Together.                               *)
(***************************************************************************)
EXTENDS SelfUpdate, Watchdog, Dali, Scanner, Installs, Discovery

CONSTANT Together

Parts == {"update", "watchdog", "dali", "scanner", "installs", "enrolment"}

ASSUME SideTasksAssumption == Together \subseteq SUBSET Parts

VARIABLES
    moving,  \* the parts that take steps
    quiet    \* from here on nothing but the loops and time moves

loopVars == <<watchdogVars, daliVars, scannerVars>>
elsewhereVars == <<installVars, discoveryVars>>
allVars == <<vars, loopVars, elsewhereVars, moving, quiet>>

Moves(part) == part \in moving

(* main has come to its gather.                                            *)
Alive == at \in {"register", "loops"}

----------------------------------------------------------------------------
(* The process.  Where its updates do not move, there is no server either, *)
(* and it starts, tries to register, and dies.                             *)
AgentStep ==
    IF Moves("update") THEN Next
    ELSE Start \/ GoOn \/ (~quiet /\ ~calm /\ Crash)

(* What a process has in memory goes with it; what the next one begins     *)
(* with stands in its place.                                               *)
LoopsFollow ==
    IF Alive # Alive' THEN WatchdogStarts /\ DaliStarts /\ ScannerStarts
                      ELSE UNCHANGED loopVars

AgentMoves ==
    /\ AgentStep /\ LoopsFollow
    /\ UNCHANGED <<elsewhereVars, moving, quiet>>

----------------------------------------------------------------------------
(* The loops, and what they deal with.                                     *)

WatchdogStep ==
    \/ Alive /\ WatchdogLoop
    \/ Tick
    \/ ~quiet /\ (WatchdogTrouble \/ (Alive /\ WatchdogFails))

DaliStep ==
    \/ Alive /\ (DaliLoop \/ Hears \/ Polls \/ ControlAnswered)
    \/ ~quiet /\ (DaliTrouble \/ (Alive /\ (DaliFails \/ DaliAsked)))

ScannerStep ==
    \/ Alive /\ ScannerLoop
    \/ Completes
    \/ ~quiet /\ (ScannerTrouble \/ (Alive /\ ScannerFails))

WatchdogMoves ==
    /\ Moves("watchdog") /\ WatchdogStep
    /\ UNCHANGED <<vars, daliVars, scannerVars, elsewhereVars, moving, quiet>>

DaliMoves ==
    /\ Moves("dali") /\ DaliStep
    /\ UNCHANGED <<vars, watchdogVars, scannerVars, elsewhereVars, moving, quiet>>

ScannerMoves ==
    /\ Moves("scanner") /\ ScannerStep
    /\ UNCHANGED <<vars, watchdogVars, daliVars, elsewhereVars, moving, quiet>>

(* The other programs' tasks.                                              *)

InstallsMoves ==
    /\ Moves("installs")
    /\ \/ \E i \in Installs : InstallStep(i) \/ Polling(i)
       \/ ~quiet /\ (InstallBegins \/ InviteChanges)
    /\ UNCHANGED <<vars, loopVars, discoveryVars, moving, quiet>>

EnrolmentMoves ==
    /\ Moves("enrolment")
    /\ \/ Enrolment \/ RetryDue \/ DeviceAppears
       \/ ~quiet /\ DiscoveryTrouble
    /\ UNCHANGED <<vars, loopVars, installVars, moving, quiet>>

(* The hypothesis of the liveness properties, not a step of the system.    *)
Hush ==
    /\ ~quiet /\ ~Moves("update")
    /\ quiet' = TRUE
    /\ UNCHANGED <<vars, loopVars, elsewhereVars, moving>>

----------------------------------------------------------------------------
SideInit ==
    /\ Init /\ WatchdogInit /\ DaliInit /\ ScannerInit
    /\ InstallsInit /\ DiscoveryInit
    /\ moving \in Together /\ quiet = FALSE
    /\ reachable = Moves("update")

SideNext ==
    \/ AgentMoves \/ WatchdogMoves \/ DaliMoves \/ ScannerMoves
    \/ InstallsMoves \/ EnrolmentMoves
    \/ Hush

(* asyncio runs every loop; time passes; systemd carries its jobs out; an  *)
(* install ends or is ended, and its browser polls; Home Assistant retries *)
(* an enrolment when it is due, and sets up the entries it has.            *)
SideFairness ==
    /\ Fairness
    /\ WF_watchdogVars(Moves("watchdog") /\ Alive /\ WatchdogLoop)
    /\ WF_watchdogVars(Moves("watchdog") /\ Tick)
    /\ WF_daliVars(Moves("dali") /\ Alive /\ DaliLoop)
    /\ WF_daliVars(Moves("dali") /\ Alive /\ Hears)
    /\ WF_daliVars(Moves("dali") /\ Alive /\ Polls)
    /\ WF_daliVars(Moves("dali") /\ Alive /\ ControlAnswered)
    /\ WF_scannerVars(Moves("scanner") /\ Alive /\ ScannerLoop)
    /\ WF_scannerVars(Moves("scanner") /\ Completes)
    /\ \A i \in Installs :
        /\ WF_installVars(Moves("installs") /\ InstallStep(i))
        /\ WF_installVars(Moves("installs") /\ Polling(i))
    /\ WF_discoveryVars(Moves("enrolment") /\ Enrolment)
    /\ WF_discoveryVars(Moves("enrolment") /\ RetryDue)
    /\ WF_discoveryVars(Moves("enrolment") /\ DeviceAppears)

SideSpec == SideInit /\ [][SideNext]_allVars /\ SideFairness

----------------------------------------------------------------------------
SideTypes ==
    /\ TypeOK /\ WatchdogTypes /\ DaliTypes /\ ScannerTypes
    /\ InstallsTypes /\ DiscoveryTypes
    /\ moving \in Together /\ quiet \in BOOLEAN

(* No more recoveries than the limit are carried out in an hour, as the    *)
(* panel's clock has it, however often the agent or the file fails.        *)
WithinBudget == Cardinality(spent) <= Limit

(* The watchdog never touches a page that was well all along: a restart of *)
(* the agent, which forgets what it has heard, does not look like silence. *)
LeavesWellAlone == [][acting = "no" /\ acting' # "no" => ~steady]_allVars

(* A page that stays ill or away is reloaded, and if this does not help    *)
(* restarted, in time also when the budget is used up.                     *)
GetsCured == (quiet /\ Moves("watchdog") /\ allowed /\ page # "well") ~> (page = "well")

(* A panel whose gateway was taken away keeps none of its lights, wherever *)
(* the loop was: the loop looks at its status only.                        *)
NothingLeftBehind == phase = "top" /\ status = "off" => lights = Nothing

(* The loop ends up with the gateway the config names, or with none,       *)
(* though nothing is wrong with the socket it has.                         *)
AsConfigured ==
    IF gateway = Unset THEN status = "off" /\ lights = Nothing
    ELSE gateway \in answering =>
             phase = "socket" /\ session = gateway /\ status = "connected"

FollowsConfig == (quiet /\ Moves("dali")) ~> []AsConfigured

(* With polling the cache comes to show what the gateway has, whatever was *)
(* not pushed or was reflected in it too late.                             *)
CaughtUp(g) == \A d \in Lights : level[g][d] # Unset => lights[d] = level[g][d]

LightsCatchUp ==
    \A g \in Polled :
        (quiet /\ Moves("dali") /\ gateway = g /\ g \in answering) ~> []CaughtUp(g)

(* What is asked of the scanner is what becomes of it, a failed one        *)
(* excepted, and what the server is told of it is true.                    *)
AsAsked ==
    IF mode = "invalid" \/ twins THEN metrics = "error"
    ELSE IF unit = NoUnit THEN metrics = "not installed"
    ELSE IF mode = "existing" THEN metrics = unit.active
    ELSE IF ~unit.loaded THEN metrics = "error"
    ELSE /\ unit.enabled = (mode = "on")
         /\ unit.active \in (IF mode = "on" THEN {"active", "failed"} ELSE Stopped)
         /\ metrics = unit.active

ScannerObeys == (quiet /\ Moves("scanner")) ~> []AsAsked

(* What a browser is told of an install is how the script ended, though    *)
(* its poll reads a job that the thread goes on filling in.                *)
VerdictIsTrue ==
    \A i \in Installs :
        /\ verdict[i] = "installed" => exit[i] = "zero"
        /\ verdict[i] = "failed" => exit[i] = "other"

(* A scanner that can be enrolled comes to have its entry in Home          *)
(* Assistant, whatever cut earlier attempts off, and a new entry its area. *)
Enrolled == finished /\ entry # NoEntry /\ (created /\ entry = "ours" /\ room => area)

GetsEnrolled ==
    (quiet /\ Moves("enrolment") /\ candidate /\ ~finished) ~> []Enrolled
=============================================================================
