------------------------------- MODULE Screen -------------------------------
(***************************************************************************)
(* The kiosk page's screen and its backlight (panel-ui/panel.html,         *)
(* panel-ui/backlight.py).                                                 *)
(*                                                                         *)
(* The page dims and then blanks when nobody touches it, and on command,   *)
(* and wakes on a touch, a command or the doorbell.  It asks a helper      *)
(* process for each brightness over HTTP, one request at a time, the last  *)
(* one wanted winning; the helper fades the hardware in steps of its own.  *)
(* A request the page gave up on is still served, before any later one.    *)
(* What a screen that wakes is to look like is set a moment after it wakes.*)
(***************************************************************************)
EXTENDS Integers, Sequences

CONSTANTS Full,       \* the brightest level, of the page and the hardware
          MaxLights,  \* bound: wakes whose light is still to come
          MaxQueue,   \* bound: requests the helper has yet to serve
          None        \* no timer, nothing asked for

ASSUME ScreenAssumption ==
    /\ Full \in Nat \ {0}
    /\ MaxLights \in Nat \ {0} /\ MaxQueue \in Nat \ {0}
    /\ None \notin 0..Full
ASSUME NoTimerAssumption == None \notin {"idle", "off"}

VARIABLES
    \* the page
    screen,    \* "awake", "idle" (a dimmed clock) or "blanked"
    timer,     \* what its timer will do: "idle", "off", or None
    blanks,    \* OFF_MS > 0: the screen is to blank at all
    bell,      \* the doorbell's popup is open
    identify,  \* the panel's name is shown over everything
    bright,    \* panelBrightness()
    lights,    \* calls of bump's light() to come
    wanted,    \* backlightWanted
    applied,   \* backlightApplied
    req,       \* the level it awaits an answer for
    \* the helper
    queue,     \* requests that have reached it
    target,    \* RAMP.target, None when it has served none
    fading,    \* RAMP.duration is not 0
    error,     \* RAMP.error
    \* the hardware
    level,     \* brightness
    dark,      \* bl_power is not 0
    \* the surroundings
    calm       \* from here on nobody touches it and nothing fails

screenVars == <<screen, timer, blanks, bell>>
lightVars == <<identify, bright, lights>>
askVars == <<wanted, applied, req>>
helperVars == <<target, fading, error, level, dark>>
vars == <<screenVars, lightVars, askVars, queue, helperVars, calm>>

Level == 0..Full
Dim == 1   \* the clock's level, whatever the brightness

----------------------------------------------------------------------------
(* setBacklight, called for each of two levels in turn.  Only a page that  *)
(* awaits no answer asks, and only for what it does not believe is shown.  *)
Ask(v) ==
    IF req = None /\ v # applied
    THEN req' = v /\ queue' = Append(queue, v)
    ELSE UNCHANGED <<req, queue>>

SetBacklights(v, w) ==
    /\ wanted' = w /\ UNCHANGED applied
    /\ IF v # applied THEN Ask(v) ELSE Ask(w)

SetBacklight(v) == SetBacklights(v, v)

SameBacklight == UNCHANGED <<askVars, queue>>

(* screenBrightness, for a screen s and a panelBrightness b.               *)
Brightness(s, b) == IF s = "blanked" THEN 0 ELSE IF s = "idle" THEN Dim ELSE b

TimerAfterBump_BellToo(b) == "idle"

(* While the doorbell shows, no timer runs.                                *)
TimerAfterBump(b) == IF b THEN None ELSE "idle"

(* bump, with the doorbell open or not.                                    *)
Bump(b) ==
    /\ bell' = b
    /\ screen' = "awake" /\ timer' = TimerAfterBump(b)
    /\ lights' = IF screen = "awake" THEN lights ELSE lights + 1
    /\ lights' <= MaxLights

----------------------------------------------------------------------------
(* What wakes the page.                                                    *)

(* A touch, or the command "wake".                                         *)
Touch ==
    /\ Bump(bell) /\ SameBacklight
    /\ UNCHANGED <<blanks, identify, bright, helperVars, calm>>

(* The slider is on a screen that is on.                                   *)
Slide(b) ==
    /\ screen = "awake" /\ ~bell
    /\ bright' = b /\ SetBacklight(b)
    /\ Bump(bell)
    /\ UNCHANGED <<blanks, identify, helperVars, calm>>

OpenDoorbell ==
    /\ ~bell
    /\ Bump(TRUE) /\ SameBacklight
    /\ UNCHANGED <<blanks, identify, bright, helperVars, calm>>

CloseDoorbell ==
    /\ bell
    /\ Bump(FALSE) /\ SameBacklight
    /\ UNCHANGED <<blanks, identify, bright, helperVars, calm>>

Identify ==
    /\ identify' = TRUE
    /\ SetBacklight(Full)
    /\ Bump(bell)
    /\ UNCHANGED <<blanks, bright, helperVars, calm>>

AfterIdentify_Bright == bright

AfterIdentify == Brightness(screen, bright)

(* After ten seconds, or a touch.                                          *)
IdentifyEnds ==
    /\ identify /\ identify' = FALSE
    /\ SetBacklight(AfterIdentify)
    /\ UNCHANGED <<screenVars, bright, lights, helperVars, calm>>

(* bump's light(): two frames, or 150 ms, after the screen has woken.      *)
Light ==
    /\ lights > 0 /\ lights' = lights - 1
    /\ SetBacklight(bright)
    /\ UNCHANGED <<screenVars, identify, bright, helperVars, calm>>

(* The light sensor's reading, once a second.                              *)
Sensor(b) ==
    /\ bright' = b
    /\ IF identify \/ screen = "blanked"
       THEN SameBacklight ELSE SetBacklight(Brightness(screen, b))
    /\ UNCHANGED <<screenVars, identify, lights, helperVars, calm>>

----------------------------------------------------------------------------
(* What puts it to sleep.  The timers take a second at least, so a light   *)
(* that is still to come goes first.                                       *)

GoIdle ==
    /\ timer = "idle" /\ lights = 0
    /\ screen' = "idle" /\ timer' = IF blanks THEN "off" ELSE None
    /\ SetBacklight(Dim)
    /\ UNCHANGED <<blanks, bell, lightVars, helperVars, calm>>

GoBlank ==
    /\ timer = "off" /\ lights = 0
    /\ screen' = "blanked" /\ timer' = None
    /\ SetBacklight(0)
    /\ UNCHANGED <<blanks, bell, lightVars, helperVars, calm>>

(* The command "sleep": both at once, the doorbell closed.                 *)
SleepNow ==
    /\ bell' = FALSE /\ timer' = None
    /\ screen' = IF blanks THEN "blanked" ELSE "idle"
    /\ SetBacklights(IF screen = "blanked" THEN 0 ELSE Dim,
                     Brightness(screen', bright))
    /\ UNCHANGED <<blanks, lightVars, helperVars, calm>>

----------------------------------------------------------------------------
(* The helper, and the page's loop over its answers.                       *)

(* BrightnessRamp.request with zero cancels the fade.                      *)
Blanked(v) ==
    /\ level' = 0 /\ dark' = TRUE
    /\ target' = 0 /\ fading' = FALSE /\ error' = FALSE

(* With a level: one it is already going for does not restart its fade.    *)
Retargeted(v) ==
    IF v = target /\ ~error /\ ~dark THEN UNCHANGED helperVars
    ELSE /\ level' = (IF dark THEN 0 ELSE level) /\ dark' = FALSE
         /\ target' = v /\ fading' = TRUE /\ error' = FALSE

(* The next request is the one the page awaits, not one it gave up on.     *)
Awaited == req # None /\ Len(queue) = 1

AnswerTaken_Last(v) ==
    /\ applied' = v /\ req' = None /\ queue' = <<>>

(* setBacklight goes on while what it wants is not what was applied.       *)
AnswerTaken(v) ==
    /\ applied' = v
    /\ IF wanted = v THEN req' = None /\ queue' = <<>>
                     ELSE req' = wanted /\ queue' = <<wanted>>

Serve ==
    /\ queue # <<>>
    /\ LET v == Head(queue)
       IN  /\ IF v = 0 THEN Blanked(v) ELSE Retargeted(v)
           /\ IF Awaited THEN AnswerTaken(v)
              ELSE queue' = Tail(queue) /\ UNCHANGED <<applied, req>>
    /\ UNCHANGED <<screenVars, lightVars, wanted, calm>>

Tick_Unblanks ==
    /\ fading /\ dark' = FALSE
    /\ level' = IF level < target THEN level + 1
                ELSE IF level > target THEN level - 1 ELSE level
    /\ fading' = (level' # target)
    /\ UNCHANGED <<screenVars, lightVars, askVars, queue, target, error, calm>>

(* One step of a fade, under the same lock.                                *)
Tick ==
    /\ fading
    /\ level' = IF level < target THEN level + 1
                ELSE IF level > target THEN level - 1 ELSE level
    /\ fading' = (level' # target)
    /\ UNCHANGED <<screenVars, lightVars, askVars, queue, target, error, dark, calm>>

----------------------------------------------------------------------------
(* What may go wrong.                                                      *)

(* Three seconds without an answer.                                        *)
Timeout ==
    /\ req # None /\ Len(queue) < MaxQueue
    /\ req' = None
    /\ UNCHANGED <<screenVars, lightVars, wanted, applied, queue, helperVars, calm>>

(* There is no backlight device, or it cannot be read.                     *)
ServeFails ==
    /\ queue # <<>>
    /\ queue' = Tail(queue)
    /\ req' = IF Awaited THEN None ELSE req
    /\ UNCHANGED <<screenVars, lightVars, wanted, applied, helperVars, calm>>

TickFails ==
    /\ fading
    /\ fading' = FALSE /\ error' = TRUE
    /\ UNCHANGED <<screenVars, lightVars, askVars, queue, target, level, dark, calm>>

HelperRestarts ==
    /\ queue' = <<>> /\ req' = None
    /\ target' = None /\ fading' = FALSE /\ error' = FALSE
    /\ UNCHANGED <<screenVars, lightVars, wanted, applied, level, dark, calm>>

(* The compositor, or systemd at boot, blanks the screen.                  *)
BlankedElsewhere ==
    /\ dark' = TRUE
    /\ UNCHANGED <<screenVars, lightVars, askVars, queue,
                   target, fading, error, level, calm>>

(* The hypothesis of the liveness properties, not a step of the system.    *)
Settle ==
    /\ ~calm /\ calm' = TRUE
    /\ UNCHANGED <<screenVars, lightVars, askVars, queue, helperVars>>

----------------------------------------------------------------------------
(* The page has loaded and asked for its brightness.                       *)
Init ==
    /\ screen = "awake" /\ timer = "idle" /\ blanks \in BOOLEAN /\ bell = FALSE
    /\ identify = FALSE /\ bright = Full /\ lights = 0
    /\ wanted = Full /\ applied = None /\ req = Full
    /\ queue = <<Full>>
    /\ target = None /\ fading = FALSE /\ error = FALSE
    /\ level \in Level /\ dark \in BOOLEAN
    /\ calm = FALSE

Page == GoIdle \/ GoBlank \/ Light \/ IdentifyEnds \/ CloseDoorbell

Person ==
    \/ Touch \/ OpenDoorbell \/ Identify \/ SleepNow
    \/ \E b \in 1..Full : Slide(b) \/ Sensor(b)

Mishap ==
    Timeout \/ ServeFails \/ TickFails \/ HelperRestarts \/ BlankedElsewhere

(* A screen asleep, until somebody comes.                                  *)
Asleep ==
    /\ screen # "awake" /\ timer = None /\ lights = 0 /\ ~identify
    /\ queue = <<>> /\ ~fading
    /\ UNCHANGED vars

Next ==
    \/ Page \/ Serve \/ Tick \/ Asleep
    \/ ~calm /\ (Person \/ Mishap)
    \/ Settle

(* Timers fire, the helper serves its queue, and its worker ticks.         *)
Fairness ==
    /\ WF_vars(GoIdle \/ GoBlank) /\ WF_vars(Light)
    /\ WF_vars(IdentifyEnds) /\ WF_vars(CloseDoorbell)
    /\ WF_vars(Serve) /\ WF_vars(Tick)

Spec == Init /\ [][Next]_vars /\ Fairness

----------------------------------------------------------------------------
TypeOK ==
    /\ screen \in {"awake", "idle", "blanked"}
    /\ timer \in {"idle", "off", None}
    /\ blanks \in BOOLEAN /\ bell \in BOOLEAN /\ identify \in BOOLEAN
    /\ bright \in 1..Full /\ lights \in 0..MaxLights
    /\ wanted \in Level /\ applied \in Level \cup {None}
    /\ req \in Level \cup {None} /\ queue \in Seq(Level)
    /\ target \in Level \cup {None} /\ error \in BOOLEAN
    /\ fading \in BOOLEAN
    /\ fading => target # None
    /\ level \in Level /\ dark \in BOOLEAN
    /\ calm \in BOOLEAN

Off == dark /\ level = 0
Shows(v) == IF v = 0 THEN Off ELSE ~dark /\ level = v

(* Old dimming does not relight a blanked panel: once the hardware is      *)
(* blanked, by anyone, it takes a request for light to change that.        *)
BlankStands ==
    [][dark /\ ~dark' => queue # <<>> /\ Head(queue) > 0 /\ queue' # queue]_vars

(* Nobody at the door is kept in front of a screen that dims: while the    *)
(* popup is open, a touch or a command does not set the timers going.      *)
DoorbellStaysOn == bell => screen = "awake" /\ timer = None

(* The hardware shows what the page believes it does, or is fading to it,  *)
(* and what is on its way is the one request it awaits.                    *)
Believes ==
    /\ target = applied /\ ~error
    /\ IF applied = 0 THEN Off /\ ~fading ELSE ~dark /\ (fading \/ level = applied)
    /\ queue = IF req = None THEN <<>> ELSE <<req>>
    /\ req = None => applied = wanted

(* In the calm, the first answer that the page awaits makes its belief     *)
(* true, whatever was given up on, blanked or lost before, and nothing     *)
(* makes it false again: the requests it then saves itself are not missed. *)
BeliefHolds == [][calm /\ (Believes \/ (Serve /\ Awaited)) => Believes']_vars

(* If a request is on its way and nothing fails, what the page last wanted *)
(* is what the hardware shows in the end, whatever was asked for, given up *)
(* and asked for again in between.                                         *)
LastWantedWins == (calm /\ req # None) ~> [](applied = wanted /\ Shows(wanted))

(* A panel left alone goes dark, or to its clock, and stays so: with the   *)
(* doorbell, an identify or a wake under way, and whatever failed before,  *)
(* unless the page believes that this is what the hardware shows already.  *)
UnattendedRests ==
    LET rest == IF blanks THEN 0 ELSE Dim
    IN  (calm /\ screen = "awake" /\ applied # rest) ~> []Shows(rest)
=============================================================================
