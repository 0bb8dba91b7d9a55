----------------------------- MODULE IdlePower -----------------------------
(***************************************************************************)
(* Saving power while the screen is off (agent/panel-agent.py,             *)
(* IdlePowerLimit, reconcile_idle_power and the page's local socket).      *)
(*                                                                         *)
(* While every open page says that it is blanked, the agent lowers the     *)
(* CPU's ceiling to its minimum.  The ceiling it found goes into a journal *)
(* that outlives the agent, not the kernel; an administrator, or another   *)
(* service, may set the ceiling too.  The file operations of one update    *)
(* are separate steps, for the process may die, one of them fail, or       *)
(* somebody set the ceiling between any two.  Only the ceiling to be       *)
(* journalled is read in one step with the writing of the journal: a       *)
(* ceiling that is set between them might as well be set after them.       *)
(***************************************************************************)
EXTENDS Integers

CONSTANTS Pages,   \* connections of browser pages to the agent
          Min,     \* scaling_min_freq, what the ceiling is lowered to
          Max,     \* what the kernel sets at boot
          None     \* no ceiling recorded, no report under way

ASSUME IdlePowerAssumption ==
    /\ Min \in Int /\ Max \in Int /\ Min < Max
    /\ None \notin Min..Max

Mode == {"blanked", "lit"}   \* blanked, or awake, idle or unknown
ASSUME NoModeAssumption == None \notin Mode
ASSUME NoReasonAssumption == None \notin {"woken", "overruled", "asleep"}

VARIABLES
    \* the system
    ceiling,  \* scaling_max_freq
    journal,  \* "normal" of /run/pi-panel-idle-power.json
    \* the agent
    up,       \* its process is running
    saved,    \* IDLE_POWER.saved
    blocked,  \* IDLE_POWER.blocked
    at,       \* the file operation that update comes to next
    why,      \* what made it call restore
    open,     \* PAGES
    report,   \* POWER_PAGES: "lit" if it has none of the page, or an old one
    \* the pages
    shown,    \* what each open page shows
    mail,     \* its report on the way
    hung,     \* pages that have stopped reporting
    \* the surroundings
    enabled,  \* the setting "Save power while asleep"
    calm,     \* from here on nobody interferes
    \* ghosts
    lowered,  \* the ceiling is the one the agent set to save power
    found,    \* what it was when the agent set out to lower it
    theirs    \* what others set last, and the agent can have seen

fileVars == <<ceiling, journal, lowered, found, theirs>>
limitVars == <<fileVars, saved, blocked, at, why>>
pageVars == <<shown, mail, hung>>
reportVars == <<open, report>>
vars == <<limitVars, up, reportVars, pageVars, enabled, calm>>

----------------------------------------------------------------------------
(* IdlePowerLimit.                                                         *)

(* What there is to restore, the journal of an earlier process included.   *)
Held == IF saved = None THEN journal ELSE saved

AfterLook_Unasked == "raise"

(* The ceiling goes back only if it is where the agent put it.             *)
AfterLook == IF ceiling = Min THEN "raise" ELSE "unlink"

(* restore reads the ceiling,                                              *)
Look ==
    /\ at' = AfterLook
    /\ saved' = Held
    /\ UNCHANGED <<fileVars, blocked>>

LookAgain == at = "look" /\ Look /\ UNCHANGED why

(* raises it again, if it saw the minimum,                                 *)
Raise ==
    /\ at = "raise" /\ at' = "unlink"
    /\ ceiling' = saved /\ lowered' = FALSE
    /\ UNCHANGED <<journal, found, theirs, saved, blocked, why>>

(* Someone else's ceiling is left alone until the screen has been on.      *)
BlockedAfter == why = "overruled" \/ (why = "asleep" /\ blocked)

SavedAfterUnlink_Kept == saved

(* What the process remembers goes with the journal.                       *)
SavedAfterUnlink == None

(* and removes the journal.  What a sleeping panel then finds is measured. *)
Unlink ==
    /\ at = "unlink"
    /\ journal' = None /\ saved' = SavedAfterUnlink /\ found' = None
    /\ at' = (IF why = "asleep" THEN "measure" ELSE "ready")
    /\ blocked' = BlockedAfter
    /\ why' = None
    /\ UNCHANGED <<ceiling, lowered, theirs>>

JournalAfterLowering_Skipped == journal

(* The journal is complete before the ceiling is touched.                  *)
JournalAfterLowering == ceiling

(* update(True) of a limiter that holds nothing: read and journal.         *)
Measure ==
    /\ IF ceiling = Min
       THEN at' = "ready" /\ UNCHANGED <<journal, saved, found>>
       ELSE /\ journal' = JournalAfterLowering
            /\ saved' = ceiling /\ found' = ceiling
            /\ at' = "lower"
    /\ UNCHANGED <<ceiling, lowered, theirs, blocked, why>>

(* Then the ceiling is written.                                            *)
Lower ==
    /\ at = "lower" /\ at' = "ready"
    /\ ceiling' = Min /\ lowered' = TRUE
    /\ UNCHANGED <<journal, found, theirs, saved, blocked, why>>

(* How an update begins: its first file operation.                         *)
Begins(asleep) ==
    IF ~asleep
    THEN IF Held # None THEN Look /\ why' = "woken"
         ELSE blocked' = FALSE /\ UNCHANGED <<fileVars, saved, at, why>>
    ELSE IF blocked THEN UNCHANGED limitVars
    ELSE IF saved # None
    THEN IF ceiling = Min THEN UNCHANGED limitVars
         ELSE at' = "look" /\ why' = "overruled" /\ UNCHANGED <<fileVars, saved, blocked>>
    ELSE IF journal # None THEN Look /\ why' = "asleep"
    ELSE Measure

Update(asleep) ==
    \/ Begins(asleep)
    \/ ~calm /\ saved' \in {saved, Held} /\ UNCHANGED <<fileVars, blocked, at, why>>

(* The rest of an update that has begun.                                   *)
GoOn ==
    /\ up
    /\ LookAgain \/ Raise \/ Unlink \/ (at = "measure" /\ Measure) \/ Lower
    /\ UNCHANGED <<up, reportVars, pageVars, enabled, calm>>

(* A read or a write that fails ends it.                                   *)
FileFails ==
    /\ up /\ at # "ready"
    /\ at' = "ready" /\ why' = None
    /\ UNCHANGED <<fileVars, saved, blocked, up, reportVars, pageVars, enabled, calm>>

----------------------------------------------------------------------------
(* What the agent does next, when no update is under way.                  *)
Ready == up /\ at = "ready"

Asleep_AnyPage(o, r) == enabled /\ \E p \in o : r[p] = "blanked"
Asleep_EveryPage(o, r) == enabled /\ \A p \in Pages : r[p] = "blanked"

(* Every open page has said it is blanked, and lately.                     *)
Asleep(o, r) == enabled /\ o # {} /\ \A p \in o : r[p] = "blanked"

Reconcile == Update(Asleep(open', report'))

(* idle_power_loop, every two seconds.                                     *)
Loop ==
    /\ Ready
    /\ UNCHANGED reportVars
    /\ Reconcile
    /\ UNCHANGED <<up, pageVars, enabled, calm>>

PageOpens(p) ==
    /\ Ready /\ p \notin open
    /\ open' = open \cup {p} /\ UNCHANGED report
    /\ \E m \in Mode : shown' = [shown EXCEPT ![p] = m]
    /\ Reconcile
    /\ UNCHANGED <<up, mail, hung, enabled, calm>>

Receive(p) ==
    /\ Ready /\ p \in open /\ mail[p] # None
    /\ report' = [report EXCEPT ![p] = mail[p]]
    /\ mail' = [mail EXCEPT ![p] = None]
    /\ UNCHANGED open
    /\ Reconcile
    /\ UNCHANGED <<up, shown, hung, enabled, calm>>

PageGone(p) ==
    /\ Ready /\ p \in open
    /\ open' = open \ {p} /\ hung' = hung \ {p}
    /\ report' = [report EXCEPT ![p] = "lit"]
    /\ mail' = [mail EXCEPT ![p] = None]
    /\ shown' = [shown EXCEPT ![p] = "lit"]
    /\ Reconcile
    /\ UNCHANGED <<up, enabled, calm>>

(* tell_pages with wake, identify or reload; also run_agent on its way     *)
(* out, before Crash.                                                      *)
TellPages ==
    /\ Ready
    /\ report' = [p \in Pages |-> "lit"]
    /\ Update(FALSE)
    /\ UNCHANGED <<up, open, pageVars, enabled, calm>>

----------------------------------------------------------------------------
(* The pages.  Each reports when its screen changes and every 10 s.        *)
ScreenChanges(p) ==
    /\ p \in open
    /\ shown' = [shown EXCEPT ![p] = IF @ = "lit" THEN "blanked" ELSE "lit"]
    /\ UNCHANGED <<limitVars, up, reportVars, mail, hung, enabled, calm>>

Report(p) ==
    /\ p \in open \ hung /\ mail[p] = None
    /\ mail' = [mail EXCEPT ![p] = shown[p]]
    /\ UNCHANGED <<limitVars, up, reportVars, shown, hung, enabled, calm>>

Hang(p) ==
    /\ p \in open
    /\ hung' = hung \cup {p}
    /\ UNCHANGED <<limitVars, up, reportVars, shown, mail, enabled, calm>>

(* 25 s without a report.                                                  *)
Expire(p) ==
    /\ p \in hung /\ report[p] = "blanked"
    /\ report' = [report EXCEPT ![p] = "lit"]
    /\ UNCHANGED <<limitVars, up, open, pageVars, enabled, calm>>

----------------------------------------------------------------------------
(* The rest of the panel.                                                  *)

(* The setting arrives with the config; the loop sees it.                  *)
Configure ==
    /\ enabled' = ~enabled
    /\ UNCHANGED <<limitVars, up, reportVars, pageVars, calm>>

(* A ceiling somebody else sets.  The limiter takes the minimum for its    *)
(* own, if it has a journal, and it can not have seen what comes between   *)
(* its look and the write that the look led to.                            *)
TheirsAfter(v) == IF v = Min \/ at \in {"raise", "lower"} THEN None ELSE v

SetCeiling(v) ==
    /\ ceiling' = v /\ lowered' = FALSE
    /\ theirs' = TheirsAfter(v)
    /\ UNCHANGED <<journal, saved, blocked, at, why, found,
                   up, reportVars, pageVars, enabled, calm>>

ProcessGone ==
    /\ up' = FALSE /\ saved' = None /\ blocked' = FALSE
    /\ at' = "ready" /\ why' = None
    /\ open' = {} /\ report' = [p \in Pages |-> "lit"]
    /\ shown' = [p \in Pages |-> "lit"]
    /\ mail' = [p \in Pages |-> None] /\ hung' = {}

Crash ==
    /\ up /\ ProcessGone
    /\ UNCHANGED <<fileVars, enabled, calm>>

(* /run and the kernel's settings do not outlive it.                       *)
Reboot ==
    /\ ProcessGone
    /\ ceiling' = Max /\ journal' = None
    /\ lowered' = FALSE /\ found' = None /\ theirs' = Max
    /\ UNCHANGED <<enabled, calm>>

(* run_agent's first line.                                                 *)
Start ==
    /\ ~up /\ up' = TRUE
    /\ Update(FALSE)
    /\ UNCHANGED <<reportVars, pageVars, enabled, calm>>

(* The hypothesis of the liveness properties, not a step of the system.    *)
Settle ==
    /\ ~calm /\ up
    /\ calm' = TRUE
    /\ UNCHANGED <<limitVars, up, reportVars, pageVars, enabled>>

----------------------------------------------------------------------------
Init ==
    /\ ceiling \in Min..Max
    /\ journal = None /\ saved = None /\ found = None
    /\ blocked = FALSE /\ at = "ready" /\ why = None /\ lowered = FALSE
    /\ theirs = IF ceiling = Min THEN None ELSE ceiling
    /\ up = FALSE
    /\ open = {} /\ report = [p \in Pages |-> "lit"]
    /\ shown = [p \in Pages |-> "lit"]
    /\ mail = [p \in Pages |-> None] /\ hung = {}
    /\ enabled \in BOOLEAN
    /\ calm = FALSE

Next ==
    \/ GoOn \/ Loop
    \/ \E p \in Pages : Receive(p) \/ Report(p) \/ Expire(p)
    \/ /\ ~calm
       /\ \/ TellPages \/ Configure \/ Crash \/ Reboot \/ Start \/ FileFails
          \/ \E v \in Min..Max : SetCeiling(v)
          \/ \E p \in Pages : \/ PageOpens(p) \/ PageGone(p)
                              \/ ScreenChanges(p) \/ Hang(p)
    \/ Settle

(* The agent's loop runs every two seconds, a page that works reports      *)
(* every ten, and reports grow old.  In the calm no file operation fails.  *)
Fairness ==
    /\ WF_vars(GoOn) /\ WF_vars(Loop)
    /\ \A p \in Pages : SF_vars(Receive(p)) /\ WF_vars(Report(p)) /\ WF_vars(Expire(p))

Spec == Init /\ [][Next]_vars /\ Fairness

----------------------------------------------------------------------------
TypeOK ==
    /\ ceiling \in Min..Max
    /\ journal \in Min..Max \cup {None} /\ saved \in Min..Max \cup {None}
    /\ found \in Min..Max \cup {None} /\ theirs \in Min..Max \cup {None}
    /\ up \in BOOLEAN /\ blocked \in BOOLEAN /\ enabled \in BOOLEAN
    /\ calm \in BOOLEAN /\ lowered \in BOOLEAN
    /\ at \in {"ready", "look", "raise", "unlink", "measure", "lower"}
    /\ why \in {"woken", "overruled", "asleep", None}
    /\ open \subseteq Pages /\ hung \subseteq Pages
    /\ report \in [Pages -> Mode]
    /\ mail \in [Pages -> Mode \cup {None}]
    /\ shown \in [Pages -> Mode]

(* Whenever the CPU is held down, the journal has the ceiling it had, so   *)
(* a process that starts after a crash at any point can put it back.       *)
Recoverable == lowered => ceiling = Min /\ journal = found /\ found # None

(* What somebody else has set is never lost, to a later process either: it *)
(* is the ceiling, or it is what a lowered ceiling goes back to.  Left out *)
(* is what they set between a look of the agent's and the write it leads   *)
(* to: that is overwritten, whatever docs/IDLE-POWER.md says of cleanup.   *)
OthersCeilingKept ==
    theirs # None => ceiling = theirs \/ (ceiling = Min /\ journal = theirs)

(* The agent only borrows the ceiling: see Loan.  It acts on what it has   *)
(* looked at, and what is not done by others is a step of the borrower's.  *)
Seen == IF at = "raise" THEN Min ELSE IF at = "lower" THEN journal ELSE None
Borrowed == INSTANCE Loan WITH owed <- journal, held <- lowered, seen <- Seen
ByOthers == Reboot \/ \E v \in Min..Max : SetCeiling(v)

Borrows ==
    /\ Borrowed!Spec
    /\ [][~ByOthers => [Borrowed!Agent]_<<ceiling, journal, lowered, Seen>>]_vars

(* Somebody needs the CPU: a page is on, none is open, or one has hung.    *)
Needed == ~enabled \/ open = {} \/ \E p \in open : p \in hung \/ shown[p] = "lit"

(* Whatever happened before, wakes, crashes and failed writes included, a  *)
(* panel that is in use ends up at full speed, and stays there, with no    *)
(* journal left to be mistaken for a later limit.                          *)
FullSpeed == (calm /\ Needed) ~> [](~lowered /\ journal = None)

(* A panel that is blanked saves power, unless its ceiling is the minimum  *)
(* anyway, or was not where the agent had put it, or meant to put it when  *)
(* the write failed: then it is left alone until the panel wakes.          *)
SavesPower == (calm /\ ~Needed) ~> [](lowered \/ blocked \/ ceiling = Min)
=============================================================================
