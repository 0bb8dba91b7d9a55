------------------------------ MODULE Scanner -------------------------------
(***************************************************************************)
(* The agent's bluetooth_loop (agent/panel-agent.py): it compares the      *)
(* systemd unit of the Bluetooth scanner with what the config asks for and *)
(* enables, disables, starts or stops it, with awaits in between in which  *)
(* the unit, the config and the administrator go on.                       *)
(*                                                                         *)
(* A unit starts and stops over time.  systemctl that takes longer than    *)
(* twelve seconds is killed, and what it asked of systemd still happens.   *)
(* SideTasks says when the agent runs.                                     *)
(***************************************************************************)
EXTENDS Sequences

CONSTANT NoUnit   \* no scanner is installed

Modes == {"existing", "on", "off", "invalid"}
Stopped == {"inactive", "failed"}
Actives == Stopped \cup {"active", "activating", "deactivating"}
Units == [loaded : BOOLEAN, enabled : BOOLEAN, active : Actives]
Commands == {"enable", "disable", "start", "stop"}

ASSUME ScannerAssumption == NoUnit \notin Units

VARIABLES
    mode,      \* bluetooth.mode in config.json, "existing" if missing
    unit,      \* what systemd has
    twins,     \* both of BLUETOOTH_UNITS are installed
    \* the agent
    asked,     \* the mode bluetooth_loop has read, "none" while it sleeps
    commands,  \* what reconcile_bluetooth has decided to do
    metrics    \* bluetooth_status

scannerMemory == <<asked, commands, metrics>>
scannerVars == <<mode, unit, twins, scannerMemory>>

----------------------------------------------------------------------------
(* There is a unit, and the agent is asked to manage it.                   *)
Manageable == unit # NoUnit /\ asked \in {"on", "off"}

(* reconcile_bluetooth raises, before it changes anything.                 *)
Wrong ==
    \/ asked = "invalid" \/ twins
    \/ IF Manageable THEN ~unit.loaded ELSE FALSE

Found == IF unit = NoUnit THEN "not installed" ELSE unit.active

If(c, s) == IF c THEN s ELSE <<>>

Todo_NowOnly ==
    If(asked = "on" /\ unit.active = "inactive", <<"enable", "start">>)
    \o If(asked = "off" /\ unit.active \notin Stopped, <<"disable", "stop">>)

(* A failed unit is left for the administrator to look into.               *)
Todo ==
    If(unit.enabled # (asked = "on"), <<IF asked = "on" THEN "enable" ELSE "disable">>)
    \o If(asked = "on" /\ unit.active = "inactive", <<"start">>)
    \o If(asked = "off" /\ unit.active \notin Stopped, <<"stop">>)

Wakes ==
    /\ asked = "none"
    /\ asked' = mode
    /\ UNCHANGED <<mode, unit, twins, commands, metrics>>

(* reconcile_bluetooth up to its first command: it has something to do, or *)
(* something to report.                                                    *)
Observes ==
    /\ asked # "none" /\ commands = <<>>
    /\ IF ~Wrong /\ (IF Manageable THEN Todo # <<>> ELSE FALSE)
       THEN commands' = Todo /\ UNCHANGED <<asked, metrics>>
       ELSE /\ metrics' = IF Wrong THEN "error" ELSE Found
            /\ asked' = "none" /\ UNCHANGED commands
    /\ UNCHANGED <<mode, unit, twins>>

(* What systemctl does to the unit: nothing, if it is that way already.    *)
After(c) ==
    CASE c = "enable"  -> [unit EXCEPT !.enabled = TRUE]
      [] c = "disable" -> [unit EXCEPT !.enabled = FALSE]
      [] c = "start"   -> IF unit.active \in {"active", "activating"} THEN unit
                          ELSE [unit EXCEPT !.active = "activating"]
      [] c = "stop"    -> IF unit.active \in Stopped THEN unit
                          ELSE [unit EXCEPT !.active = "deactivating"]

(* systemctl show fails or takes too long.                                 *)
CannotObserve ==
    /\ asked # "none" /\ commands = <<>>
    /\ metrics' = "error" /\ asked' = "none"
    /\ UNCHANGED <<mode, unit, twins, commands>>

(* The command succeeds.  After the last one the unit is looked at again.  *)
Carries ==
    /\ commands # <<>> /\ unit # NoUnit
    /\ unit' = After(Head(commands))
    /\ commands' = Tail(commands)
    /\ IF commands' = <<>> THEN /\ asked' = "none"
                                /\ metrics' = IF twins THEN "error" ELSE unit'.active
                           ELSE UNCHANGED <<asked, metrics>>
    /\ UNCHANGED <<mode, twins>>

(* It fails or is killed for its time, with or without effect, and the     *)
(* commands after it are not given.                                        *)
CommandFails ==
    /\ commands # <<>>
    /\ unit' \in {unit} \cup (IF unit = NoUnit THEN {} ELSE {After(Head(commands))})
    /\ commands' = <<>> /\ asked' = "none" /\ metrics' = "error"
    /\ UNCHANGED <<mode, twins>>

----------------------------------------------------------------------------
(* systemd gets on with it.                                                *)
Completes ==
    /\ unit # NoUnit
    /\ \/ unit.active = "activating" /\ unit' = [unit EXCEPT !.active = "active"]
       \/ unit.active = "deactivating" /\ unit' = [unit EXCEPT !.active = "inactive"]
    /\ UNCHANGED <<mode, twins, scannerMemory>>

(* The scanner fails, the administrator uses systemctl, installs or        *)
(* removes a scanner.                                                      *)
UnitChanges(u) ==
    /\ unit' = u
    /\ UNCHANGED <<mode, twins, scannerMemory>>

TwinChanges ==
    /\ unit # NoUnit
    /\ twins' = ~twins
    /\ UNCHANGED <<mode, unit, scannerMemory>>

SetMode(m) ==
    /\ mode' = m
    /\ UNCHANGED <<unit, twins, scannerMemory>>

ScannerStarts ==
    /\ asked' = "none" /\ commands' = <<>> /\ metrics' = "checking"
    /\ UNCHANGED <<mode, unit, twins>>

ScannerInit ==
    /\ mode = "existing" /\ twins = FALSE
    /\ unit = NoUnit
    /\ asked = "none" /\ commands = <<>> /\ metrics = "checking"

ScannerLoop == Wakes \/ Observes \/ Carries \/ (unit = NoUnit /\ CommandFails)
ScannerFails == CannotObserve \/ CommandFails
ScannerTrouble ==
    \/ \E u \in Units \cup {NoUnit} : ~twins /\ UnitChanges(u)
    \/ TwinChanges \/ \E m \in Modes : SetMode(m)

ScannerTypes ==
    /\ mode \in Modes /\ unit \in Units \cup {NoUnit}
    /\ twins \in BOOLEAN
    /\ asked \in Modes \cup {"none"}
    /\ commands \in Seq(Commands)
    /\ asked = "none" => commands = <<>>
    /\ metrics \in Actives \cup {"checking", "error", "not installed"}
=============================================================================
