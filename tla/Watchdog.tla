------------------------------ MODULE Watchdog ------------------------------
(***************************************************************************)
(* The agent's browser_watchdog (agent/panel-agent.py): it reloads the     *)
(* kiosk page or restarts the browser when the page's heartbeat stays      *)
(* away, a limited number of times an hour.  The times of its attempts     *)
(* outlive the agent in browser-recovery.json.                             *)
(*                                                                         *)
(* Time passes in ticks, and what is kept is how long ago something was.   *)
(* A page that is well beats several times a tick; an attempt is over      *)
(* within the tick it was decided in.  SideTasks says when the agent runs. *)
(***************************************************************************)
EXTENDS Integers, FiniteSets

CONSTANTS Hour,   \* how long an attempt counts
          Pause,  \* after the agent's start, and after an attempt
          Stale,  \* how long a page may be silent
          Limit   \* browser_recovery_limit

ASSUME WatchdogAssumption ==
    /\ Hour \in Nat \ {0} /\ Pause \in Nat \ {0}
    /\ Stale \in Nat \ {0} /\ Limit \in Nat \ {0}

VARIABLES
    \* the agent's memory, in ticks since
    started,   \* BROWSER_STARTED
    seen,      \* BROWSER_SEEN, the last heartbeat
    lastTry,   \* RECOVERY_LAST
    stage,     \* RECOVERY_STAGE: 0, or some attempt since the page was well
    attempts,  \* RECOVERY_ATTEMPTS, the ages of those that count
    acting,    \* what the watchdog is waiting for
    \* on the card
    saved,     \* browser-recovery.json, the same
    \* the browser, and the settings
    page,      \* the dashboard is well; ill, or still loading; or gone
    allowed,   \* browser_recovery
    \* ghosts
    steady,    \* the page is well, and was a tick ago
    spent      \* the ages of the attempts that were made

watchdogMemory == <<started, seen, lastTry, stage, attempts, acting>>
watchdogVars == <<watchdogMemory, saved, page, allowed, steady, spent>>

----------------------------------------------------------------------------
Older(n, cap) == IF n < cap THEN n + 1 ELSE cap
OlderAll(ages) == {a \in 1..(Hour - 1) : a - 1 \in ages}

(* Time passes.  A page that is well has sent its heartbeat.               *)
Tick ==
    /\ acting = "no"
    /\ started' = Older(started, Pause) /\ lastTry' = Older(lastTry, Pause)
    /\ seen' = IF page = "well" THEN 0 ELSE Older(seen, Stale)
    /\ attempts' = OlderAll(attempts)
    /\ saved' = OlderAll(saved) /\ spent' = OlderAll(spent)
    /\ steady' = (page = "well")
    /\ UNCHANGED <<stage, acting, page, allowed>>

(* The page changes by itself, or because the browser does.                *)
PageBecomes(p) ==
    /\ page # p
    /\ page' = p /\ steady' = FALSE
    /\ UNCHANGED <<watchdogMemory, saved, allowed, spent>>

(* The clock is set, by an hour or to before the attempts: none counts.    *)
ClockSet ==
    /\ attempts' = {} /\ saved' = {} /\ spent' = {}
    /\ UNCHANGED <<started, seen, lastTry, stage, acting, page, allowed, steady>>

Allow(b) ==
    /\ allowed' = b
    /\ UNCHANGED <<watchdogMemory, saved, page, steady, spent>>

----------------------------------------------------------------------------
(* recovery_decision *)

Healthy == started = Pause /\ seen < Stale

Due ==
    /\ started = Pause /\ seen = Stale /\ lastTry = Pause
    /\ allowed /\ Cardinality(attempts) < Limit

Sees ==
    /\ acting = "no" /\ Healthy
    /\ stage' = 0
    /\ UNCHANGED <<started, seen, lastTry, attempts, acting, saved, page, allowed, steady, spent>>

(* The first remedy is a reload, if any page is connected: an ill one may  *)
(* have kept its socket.                                                   *)
Remedies == IF stage = 0 THEN {"reload", "restart"} ELSE {"restart"}

Try_SameAgain ==
    /\ acting = "no" /\ Due
    /\ lastTry' = 0
    /\ attempts' = attempts \cup {0} /\ saved' = attempts'
    /\ acting' \in Remedies /\ spent' = spent \cup {0}
    /\ UNCHANGED <<started, seen, stage, page, allowed, steady>>

(* record_recovery comes first.                                            *)
Try ==
    /\ acting = "no" /\ Due
    /\ lastTry' = 0
    /\ attempts' = attempts \cup {0} /\ saved' = attempts'
    /\ stage' = 1 /\ acting' \in Remedies /\ spent' = spent \cup {0}
    /\ UNCHANGED <<started, seen, page, allowed, steady>>

CannotSave_TriesAnyway ==
    /\ acting = "no" /\ Due
    /\ lastTry' = 0
    /\ attempts' = attempts \cup {0}
    /\ stage' = 1 /\ acting' \in Remedies /\ spent' = spent \cup {0}
    /\ UNCHANGED <<started, seen, saved, page, allowed, steady>>

(* The file cannot be written: the attempt counts, and is not made.        *)
CannotSave ==
    /\ acting = "no" /\ Due
    /\ lastTry' = 0
    /\ attempts' = attempts \cup {0}
    /\ UNCHANGED <<started, seen, stage, acting, saved, page, allowed, steady, spent>>

(* Page.reload, or the reload message, or systemctl restart cage-kiosk.    *)
Remedy(p) ==
    /\ acting # "no"
    /\ acting = "reload" => (p = "gone") = (page = "gone")
    /\ page' = p /\ steady' = FALSE
    /\ acting' = "no"
    /\ UNCHANGED <<started, seen, lastTry, stage, attempts, saved, allowed, spent>>

----------------------------------------------------------------------------
WatchdogStarts_AtOnce ==
    /\ started' = Pause /\ seen' = Stale /\ lastTry' = Pause
    /\ stage' = 0 /\ attempts' = saved /\ acting' = "no"
    /\ UNCHANGED <<saved, page, allowed, steady, spent>>

(* A new process reads the file.  It has seen nothing; RECOVERY_LAST is 0, *)
(* the time of the boot.                                                   *)
WatchdogStarts ==
    /\ started' = 0 /\ seen' = Stale /\ lastTry' = Pause
    /\ stage' = 0 /\ attempts' = saved /\ acting' = "no"
    /\ UNCHANGED <<saved, page, allowed, steady, spent>>

WatchdogInit ==
    /\ started = 0 /\ seen = Stale /\ lastTry = Pause
    /\ stage = 0 /\ attempts = {} /\ acting = "no"
    /\ saved = {} /\ page = "ill" /\ allowed = TRUE
    /\ steady = FALSE /\ spent = {}

Pages == {"well", "ill", "gone"}

(* What a restart comes to is a page that loads; a reload may not cure.    *)
Cures == Remedy("well") \/ (acting = "reload" /\ Remedy(page))

WatchdogLoop == Sees \/ Try \/ Cures
WatchdogFails == CannotSave \/ \E p \in Pages : Remedy(p)
WatchdogTrouble ==
    \/ \E p \in Pages : PageBecomes(p)
    \/ ClockSet \/ \E b \in BOOLEAN : Allow(b)

WatchdogTypes ==
    /\ started \in 0..Pause /\ lastTry \in 0..Pause /\ seen \in 0..Stale
    /\ stage \in 0..1 /\ acting \in {"no", "reload", "restart"}
    /\ attempts \subseteq 0..(Hour - 1) /\ saved \subseteq 0..(Hour - 1)
    /\ spent \subseteq 0..(Hour - 1)
    /\ page \in Pages /\ allowed \in BOOLEAN /\ steady \in BOOLEAN
=============================================================================
