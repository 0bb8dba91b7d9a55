----------------------------- MODULE SelfUpdate -----------------------------
(***************************************************************************)
(* How the agent on a panel replaces itself (agent/panel-agent.py,         *)
(* fetch_bundle, check_bundle and confirm_update).                         *)
(*                                                                         *)
(* A build whose hash differs from the server's is downloaded, verified    *)
(* and moved over the running one; the old binary is kept beside it, and   *)
(* after the rest of the bundle a marker is written and the process exits  *)
(* for systemd to start the new build.  That one registers or puts the old *)
(* one back.  The socket task and the poll task each check the bundle, and *)
(* a check awaits every file it downloads.                                 *)
(***************************************************************************)
CONSTANTS Good,      \* builds that start, register and do the rest
          Mute,      \* builds that start and never manage to register
          Dead,      \* builds that compile and die before they get that far
          Broken,    \* builds that do not compile
          First,     \* the build on the card
          Tasks,     \* the tasks that check the bundle: "ws", "poll"
          None       \* no file, no process

Builds == Good \cup Mute \cup Dead \cup Broken
Torn == "torn"    \* a file whose copy was cut short

Idle == "idle"
Rest == "rest"    \* the agent is replaced, other files are not yet

ASSUME SelfUpdateAssumption ==
    /\ First \in Good
    /\ Good \cap (Mute \cup Dead \cup Broken) = {}
    /\ Mute \cap (Dead \cup Broken) = {} /\ Dead \cap Broken = {}
    /\ {Torn, Idle, Rest, None} \cap Builds = {}
    /\ None \notin {Torn, Idle, Rest}

VARIABLES
    \* on the card
    target,    \* /usr/local/bin/panel-agent
    prev,      \* panel-agent.prev
    pending,   \* the update-pending marker
    \* the running process
    run,       \* the build in memory
    at,        \* in confirm_update up to "unmark"; then "register", "loops"
    check,     \* where each task's check_bundle is
    \* the server
    offered,   \* the build in its bundle
    reachable, \* the panel gets through to it, and is accepted
    \* the surroundings
    calm,      \* from here on no operator, outage or power cut
    proven     \* ghost: builds that have registered on this panel

cardVars == <<target, prev, pending>>
processVars == <<run, at, check>>
serverVars == <<offered, reachable>>
vars == <<cardVars, processVars, serverVars, calm, proven>>

NoChecks == [t \in Tasks |-> Idle]

----------------------------------------------------------------------------
Registers == reachable /\ run \in Good

(* The process is gone; systemd has Restart=always.                        *)
Exit ==
    /\ run' = None /\ at' = "down"
    /\ check' = NoChecks

(* A fresh process.  Without a marker there is nothing to fall back from.  *)
Start ==
    /\ run = None /\ target \in Good \cup Mute
    /\ run' = target
    /\ IF pending THEN at' = "confirm" /\ UNCHANGED prev
                  ELSE at' = "register" /\ prev' = None
    /\ UNCHANGED <<target, pending, check, serverVars, calm, proven>>

(* Registering within the minute is the test of a new build.               *)
Confirm ==
    /\ at = "confirm" /\ Registers
    /\ pending' = FALSE /\ prev' = None
    /\ at' = "register"
    /\ proven' = proven \cup {run}
    /\ UNCHANGED <<target, run, check, serverVars, calm>>

GiveUp_NoCopy ==
    /\ at = "confirm" /\ ~Registers
    /\ at' = "unmark"
    /\ UNCHANGED <<cardVars, run, check, serverVars, calm, proven>>

(* The minute is over.  shutil.copy2 truncates what it is to overwrite.    *)
GiveUp ==
    /\ at = "confirm" /\ ~Registers
    /\ IF prev = None THEN at' = "unmark" /\ UNCHANGED target
                      ELSE at' = "copy" /\ target' = Torn
    /\ UNCHANGED <<prev, pending, run, check, serverVars, calm, proven>>

CopyBack ==
    /\ at = "copy"
    /\ target' = prev /\ at' = "forget"
    /\ UNCHANGED <<prev, pending, run, check, serverVars, calm, proven>>

Forget ==
    /\ at = "forget"
    /\ prev' = None /\ at' = "unmark"
    /\ UNCHANGED <<target, pending, run, check, serverVars, calm, proven>>

Unmark ==
    /\ at = "unmark"
    /\ pending' = FALSE
    /\ Exit
    /\ UNCHANGED <<target, prev, serverVars, calm, proven>>

(* server_side: the loops start once the panel is registered.              *)
Register ==
    /\ at = "register" /\ Registers
    /\ at' = "loops"
    /\ proven' = proven \cup {run}
    /\ UNCHANGED <<cardVars, run, check, serverVars, calm>>

----------------------------------------------------------------------------
(* check_bundle, as far as the agent's own file goes.                      *)

(* The manifest's hash is not that of the file on the card.                *)
CheckManifest(t) ==
    /\ at = "loops" /\ check[t] = Idle
    /\ reachable /\ offered # target
    /\ check' = [check EXCEPT ![t] = offered]
    /\ UNCHANGED <<cardVars, run, at, serverVars, calm, proven>>

(* fetch_bundle refuses a file that is not what the manifest promised, or  *)
(* does not compile.                                                       *)
Refuses(digest) == offered # digest \/ offered \in Broken

Fallback_CopiedLate == offered

(* What is in place is copied aside before the new file replaces it.       *)
Fallback == target

Install(t) ==
    /\ at = "loops" /\ check[t] \notin {Idle, Rest} /\ reachable
    /\ IF Refuses(check[t])
       THEN UNCHANGED cardVars /\ check' = [check EXCEPT ![t] = Idle]
       ELSE /\ prev' = Fallback /\ target' = offered
            /\ check' = [check EXCEPT ![t] = Rest]
            /\ UNCHANGED pending
    /\ UNCHANGED <<run, at, serverVars, calm, proven>>

DownloadFails(t) ==
    /\ check[t] \notin {Idle, Rest}
    /\ check' = [check EXCEPT ![t] = Idle]
    /\ UNCHANGED <<cardVars, run, at, serverVars, calm, proven>>

(* self_changed was not noticed: the loops go on in the old build.         *)
Finish_NoRestart(t) ==
    /\ check[t] = Rest
    /\ check' = [check EXCEPT ![t] = Idle]
    /\ pending' = TRUE
    /\ UNCHANGED <<target, prev, run, at, serverVars, calm, proven>>

(* The other files are done: leave the marker and exit.                    *)
Finish(t) ==
    /\ check[t] = Rest
    /\ pending' = TRUE
    /\ Exit
    /\ UNCHANGED <<target, prev, serverVars, calm, proven>>

----------------------------------------------------------------------------
(* A power cut, the operator's restart, or a crash of the process, at any  *)
(* moment.                                                                 *)
Crash ==
    /\ run # None
    /\ Exit
    /\ UNCHANGED <<cardVars, serverVars, calm, proven>>

(* A marker that cannot be written is let go.                              *)
MarkerFails(t) ==
    /\ check[t] = Rest
    /\ Exit
    /\ UNCHANGED <<cardVars, serverVars, calm, proven>>

(* A server update, or a hand-edited file in its bundle directory.         *)
Publish(b) ==
    /\ offered' = b
    /\ UNCHANGED <<cardVars, processVars, reachable, calm, proven>>

ReachabilityChanges ==
    /\ reachable' = ~reachable
    /\ UNCHANGED <<cardVars, processVars, offered, calm, proven>>

(* The hypothesis of the liveness properties, not a step of the system.    *)
Settle ==
    /\ ~calm /\ reachable
    /\ calm' = TRUE
    /\ UNCHANGED <<cardVars, processVars, serverVars, proven>>

----------------------------------------------------------------------------
Init ==
    /\ target = First /\ prev = None /\ pending = FALSE
    /\ run = None /\ at = "down" /\ check = NoChecks
    /\ offered = First /\ reachable \in BOOLEAN
    /\ calm = FALSE
    /\ proven = {First}

Step == \/ Start \/ Confirm \/ GiveUp \/ CopyBack \/ Forget \/ Unmark
        \/ Register
        \/ \E t \in Tasks : CheckManifest(t) \/ Install(t) \/ Finish(t)

(* Heartbeats, attempts to register that fail, and systemd's to start a    *)
(* file that cannot run.                                                   *)
GoOn ==
    /\ \/ at = "loops"
       \/ at = "register" /\ ~Registers
       \/ run = None /\ target \notin Good \cup Mute
    /\ UNCHANGED vars

Next ==
    \/ Step \/ GoOn
    \/ /\ ~calm
       /\ \/ Crash \/ ReachabilityChanges
          \/ \E b \in Builds : Publish(b)
          \/ \E t \in Tasks : DownloadFails(t) \/ MarkerFails(t)
    \/ Settle

(* systemd restarts, the minute of confirm_update passes, the loops check  *)
(* the bundle every five minutes and downloads end.                        *)
Fairness == WF_vars(Step)

Spec == Init /\ [][Next]_vars /\ Fairness

----------------------------------------------------------------------------
TypeOK ==
    /\ target \in Builds \cup {Torn} /\ prev \in Builds \cup {Torn, None}
    /\ pending \in BOOLEAN /\ reachable \in BOOLEAN /\ calm \in BOOLEAN
    /\ run \in Good \cup Mute \cup {None}
    /\ at \in {"down", "confirm", "copy", "forget", "unmark", "register", "loops"}
    /\ run = None <=> at = "down"
    /\ check \in [Tasks -> Builds \cup {Idle, Rest}]
    /\ offered \in Builds /\ proven \subseteq Good

(* The build a new one falls back to is one that has registered before,    *)
(* whatever is published and whenever the power goes.                      *)
FallsBackToProven ==
    pending => prev \in proven \/ (prev = None /\ target \in proven)

(* No build that does not compile is ever in place.                        *)
NeverBroken == target \notin Broken

(* The card, with what the running process is about to do, is good for     *)
(* getting back to the server.                                             *)
Sound ==
    \/ target \in Good
    \/ /\ prev \in Good
       /\ \/ target \in Mute /\ (pending \/ \E t \in Tasks : check[t] = Rest)
          \/ at = "copy"

(* An update is between its two halves, or the old build is being copied   *)
(* back.                                                                   *)
Midway == at = "copy" \/ \E t \in Tasks : check[t] = Rest

(* A panel that could get back to the server is stranded only by a crash   *)
(* midway, or by a build that dies before it comes to confirm_update; with *)
(* one task that checks the bundle, by nothing else.                       *)
Strands ==
    \/ Midway /\ (Crash \/ \E t \in Tasks : MarkerFails(t))
    \/ offered \in Dead /\ \E t \in Tasks : Install(t)

StrandedOnlyBy == [][Sound /\ ~Sound' => Strands]_vars

(* A bad agent strands no panel: one that never registers is undone, over  *)
(* and over if the server goes on offering it.  This takes builds that get *)
(* as far as confirm_update, and no crash between the two halves of an     *)
(* update, nor while the old build is copied back.                         *)
GetsBack == (calm /\ Sound /\ offered \notin Dead) ~> []<>(at = "loops")

(* A good build the server offers is what the panel ends up running.       *)
UpdateArrives ==
    (calm /\ Sound /\ offered \in Good) ~> [](run = offered /\ at = "loops")
=============================================================================
