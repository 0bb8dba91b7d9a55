----------------------------- MODULE Enrollment -----------------------------
(***************************************************************************)
(* How a wall panel and the config server come to trust each other.        *)
(*                                                                         *)
(* The server keeps one record for each panel id: whether it was claimed   *)
(* for a room, and the token and signing key of whoever registered first   *)
(* (server/app/main.py, db.py).  The agent on a device keeps its two       *)
(* secrets, its panel id and a mark "I know I am claimed" on its card, and *)
(* registers and heartbeats over HTTP (agent/panel-agent.py).  The server  *)
(* handles a request between two awaits, so each handler is one step.      *)
(* Nothing a request is made of changes while the agent awaits its answer, *)
(* so asking and being served is one step too; the answer is under way     *)
(* until the agent takes it or loses it, and a request the agent gave up   *)
(* on may still be handled later.  Two devices may carry the same panel    *)
(* id, as when a panel is replaced while the old one is on the wall.       *)
(***************************************************************************)
EXTENDS FiniteSets, Integers

CONSTANTS Panels,       \* panel ids
          Devices,      \* pieces of hardware
          UnclaimedMax, \* UNCLAIMED_MAX, 20 in the code
          MaxCards,     \* bound: how often one device gets a new card
          Tokenless,    \* cards that cannot hold a secret, or hold an old agent
          MaxStray,     \* bound: abandoned requests under way at once
          None          \* no secret, no request, no script

ASSUME EnrollmentAssumption ==
    /\ Tokenless \subseteq 0..MaxCards
    /\ IsFiniteSet(Panels)
    /\ UnclaimedMax \in Nat
    /\ MaxCards \in Nat
    /\ MaxStray \in Nat

Secret == [dev : Devices, card : 0..MaxCards]
ASSUME NoneAssumption == None \notin Secret

RegisterStatuses == {"none", "active", "claimed", "400", "401", "429"}
Phase == {"blank", "off", "boot", "up", "reclaim"}
Running == {"boot", "up", "reclaim"}
Request == [from : Devices, id : Panels,
            token : Secret \cup {None}, key : Secret \cup {None}]
ASSUME RequestAssumption == None \notin Panels

VARIABLES
    \* the server's database and memory
    known,    \* ids with a row in panels
    claimed,  \* of those, the ones claimed for a room
    token,    \* panels.token
    skey,     \* panels.sign_key
    invite,   \* ids with an unused provisioning token
    refused,  \* keys of REFUSED, what the GUI shows as turned away
    \* the devices
    pid,      \* /opt/panel/panel-id
    card,     \* which card is in the device: its secrets are on it
    mark,     \* devices with a panel-token-claimed file
    phase,    \* "boot": server_side's register loop; "up": past it;
              \* "reclaim": registering again from the heartbeat loop
    script,   \* the panel id of the bootstrap script it is running
    answer,   \* the server's answer on its way to the agent
    \* the network and the surroundings
    stray,    \* requests nobody awaits any more that may still be handled
    calm      \* from here on no operator, crash or loss interferes

serverVars == <<known, claimed, token, skey, invite, refused>>
deviceVars == <<pid, card, mark, phase, script, answer>>
vars == <<serverVars, deviceVars, stray, calm>>

----------------------------------------------------------------------------
(* The server's handlers.                                                  *)

Unclaimed == known \ claimed

(* db.claim_panel_token and reset_panel_token: the two columns that are     *)
(* written together, and only when free.                                   *)
RecordSecrets(p, t, k) ==
    /\ token' = [token EXCEPT ![p] = t]
    /\ skey'  = [skey EXCEPT ![p] = k]

ForgetSecrets_KeepsKey(p) ==
    /\ token' = [token EXCEPT ![p] = None]
    /\ UNCHANGED skey

ForgetSecrets(p) == RecordSecrets(p, None, None)

Mismatch(r) == token[r.id] # None /\ r.token # token[r.id]

Full_OffByOne(r) == r.id \notin known /\ Cardinality(Unclaimed) > UnclaimedMax

Full(r) == r.id \notin known /\ Cardinality(Unclaimed) >= UnclaimedMax

RegisterStatus_LatestWins(r) ==
    IF Full(r) THEN "429" ELSE IF r.token = None THEN "none"
    ELSE IF r.key = None THEN "400" ELSE "claimed"

(* What register answers: its checks in the order the code makes them.     *)
RegisterStatus(r) ==
    IF Mismatch(r) THEN "401"
    ELSE IF Full(r) THEN "429"
    ELSE IF token[r.id] # None THEN "active"
    ELSE IF r.token = None THEN "none"
    ELSE IF r.key = None THEN "400"
    ELSE "claimed"

RefusedAfter_Forgotten(r, s) == refused \ {r.id}

RefusedAfter(r, s) ==
    IF s = "401" THEN refused \cup {r.id}
    ELSE IF s \in {"none", "active", "claimed"} THEN refused \ {r.id}
    ELSE refused

(* POST /api/register.  The row is written before the claim is looked at,  *)
(* so a claim refused with 400 leaves an unclaimed row behind.             *)
Register(r, s) ==
    /\ s = RegisterStatus(r)
    /\ known' = IF s \in {"401", "429"} THEN known ELSE known \cup {r.id}
    /\ IF s = "claimed" THEN RecordSecrets(r.id, r.token, r.key)
                        ELSE UNCHANGED <<token, skey>>
    /\ refused' = RefusedAfter(r, s)
    /\ UNCHANGED <<claimed, invite>>

----------------------------------------------------------------------------
(* The agent.                                                              *)

CardSecret(d) ==
    IF card[d] \in Tokenless THEN None ELSE [dev |-> d, card |-> card[d]]

(* The signing key travels only while the mark is absent.                  *)
RegisterRequest(d) ==
    [from |-> d, id |-> pid[d], token |-> CardSecret(d),
     key |-> IF d \in mark THEN None ELSE CardSecret(d)]

Answer(d, s) == answer' = [answer EXCEPT ![d] = s]

AskRegister(d) ==
    /\ phase[d] \in {"boot", "reclaim"} /\ answer[d] = None
    /\ \E s \in RegisterStatuses : Register(RegisterRequest(d), s) /\ Answer(d, s)
    /\ UNCHANGED <<pid, card, mark, phase, script, stray, calm>>

ServeStray ==
    /\ \E r \in stray :
          (\E s \in RegisterStatuses : Register(r, s)) /\ stray' = stray \ {r}
    /\ UNCHANGED <<deviceVars, calm>>

(* A failed claim forgets the mark, or it would be asked the same way for  *)
(* ever.                                                                   *)
MarkAfter_400Ignored(d) ==
    IF answer[d] \in {"active", "claimed"} /\ CardSecret(d) # None
    THEN mark \cup {d} ELSE mark

MarkAfter(d) ==
    IF answer[d] \in {"active", "claimed"} /\ CardSecret(d) # None THEN mark \cup {d}
    ELSE IF answer[d] = "400" THEN mark \ {d}
    ELSE mark

(* register() returns: the boot loop ends on 200, and a re-claim goes back *)
(* to the heartbeat loop whatever the answer.                              *)
RegisterAnswered(d) ==
    /\ phase[d] \in {"boot", "reclaim"} /\ answer[d] # None
    /\ mark' = MarkAfter(d)
    /\ phase' = IF phase[d] = "reclaim" \/ answer[d] \in {"none", "active", "claimed"}
                THEN [phase EXCEPT ![d] = "up"] ELSE phase
    /\ Answer(d, None)
    /\ UNCHANGED <<serverVars, pid, card, script, stray, calm>>

(* POST /api/heartbeat.  A row with no token takes any presenter and is    *)
(* answered "none"; the agent ignores every other answer, 401 and 404 too. *)
AskHeartbeat(d) ==
    /\ phase[d] = "up" /\ answer[d] = None
    /\ IF pid[d] \in known /\ token[pid[d]] = None /\ CardSecret(d) # None
       THEN Answer(d, "none") ELSE UNCHANGED answer
    /\ UNCHANGED <<serverVars, pid, card, mark, phase, script, stray, calm>>

(* The server forgot the token: drop the mark and register at once.        *)
HeartbeatAnswered(d) ==
    /\ phase[d] = "up" /\ answer[d] = "none"
    /\ mark' = mark \ {d}
    /\ phase' = [phase EXCEPT ![d] = "reclaim"]
    /\ Answer(d, None)
    /\ UNCHANGED <<serverVars, pid, card, script, stray, calm>>

----------------------------------------------------------------------------
(* The operator: the admin API.                                            *)

(* create_provisional_panel: the id ends in random hex, so nobody has it.  *)
Provision(p) ==
    /\ p \notin known \cup invite
    /\ \A d \in Devices : pid[d] # p /\ script[d] # p
    /\ \A r \in stray : r.id # p
    /\ known' = known \cup {p}
    /\ claimed' = claimed \cup {p}
    /\ invite' = invite \cup {p}
    /\ UNCHANGED <<token, skey, refused, deviceVars, stray, calm>>

Reprovision(p) ==
    /\ p \in known
    /\ invite' = invite \cup {p}
    /\ UNCHANGED <<known, claimed, token, skey, refused, deviceVars, stray, calm>>

ClaimForRoom(p) ==
    /\ p \in known
    /\ claimed' = claimed \cup {p}
    /\ UNCHANGED <<known, token, skey, invite, refused, deviceVars, stray, calm>>

ResetToken(p) ==
    /\ p \in known
    /\ ForgetSecrets(p)
    /\ UNCHANGED <<known, claimed, invite, refused, deviceVars, stray, calm>>

(* delete_panel takes the row and everything in it, not its invitation.    *)
Remove(p) ==
    /\ p \in known
    /\ known' = known \ {p}
    /\ claimed' = claimed \ {p}
    /\ ForgetSecrets(p)
    /\ UNCHANGED <<invite, refused, deviceVars, stray, calm>>

(* GET /bootstrap.sh?t=...: spends the invitation and reopens the claim.   *)
FetchBootstrap_NoReset(d, p) ==
    /\ phase[d] # "off" /\ script[d] = None /\ p \in invite
    /\ invite' = invite \ {p}
    /\ script' = [script EXCEPT ![d] = p]
    /\ UNCHANGED <<known, claimed, token, skey, refused,
                   pid, card, mark, phase, answer, stray, calm>>

FetchBootstrap(d, p) ==
    /\ phase[d] # "off" /\ script[d] = None /\ p \in invite
    /\ invite' = invite \ {p}
    /\ ForgetSecrets(p)
    /\ script' = [script EXCEPT ![d] = p]
    /\ UNCHANGED <<known, claimed, refused,
                   pid, card, mark, phase, answer, stray, calm>>

----------------------------------------------------------------------------
(* What happens to devices, the network and the server's process.          *)

(* aiohttp's timeout or a connection error: the request or its answer is   *)
(* lost, or the request is still on its way.                               *)
RegisterFails(d) ==
    /\ phase[d] \in {"boot", "reclaim"}
    /\ phase' = [phase EXCEPT ![d] = IF @ = "reclaim" THEN "up" ELSE @]
    /\ \/ Answer(d, None) /\ UNCHANGED stray
       \/ /\ answer[d] = None /\ Cardinality(stray) < MaxStray
          /\ stray' = stray \cup {RegisterRequest(d)}
          /\ UNCHANGED answer
    /\ UNCHANGED <<serverVars, pid, card, mark, script, calm>>

(* The rest of the bootstrap script: it writes the panel id and restarts   *)
(* the agent.  The secrets and the mark stay as they are on the card.      *)
RunBootstrap(d) ==
    /\ script[d] # None
    /\ pid' = [pid EXCEPT ![d] = script[d]]
    /\ script' = [script EXCEPT ![d] = None]
    /\ phase' = [phase EXCEPT ![d] = "boot"]
    /\ Answer(d, None)
    /\ UNCHANGED <<serverVars, card, mark, stray, calm>>

PowerOff(d) ==
    /\ phase[d] \in Running
    /\ phase' = [phase EXCEPT ![d] = "off"]
    /\ script' = [script EXCEPT ![d] = None]
    /\ Answer(d, None)
    /\ UNCHANGED <<serverVars, pid, card, mark, stray, calm>>

Start(d) ==
    /\ phase[d] = "off"
    /\ phase' = [phase EXCEPT ![d] = "boot"]
    /\ UNCHANGED <<serverVars, pid, card, mark, script, answer, stray, calm>>

(* A new SD card: secrets, mark and panel id are gone, and a request of    *)
(* the old card does not outlive the minutes this takes.                   *)
RewriteCard(d) ==
    /\ phase[d] = "off" /\ card[d] < MaxCards
    /\ card' = [card EXCEPT ![d] = @ + 1]
    /\ mark' = mark \ {d}
    /\ phase' = [phase EXCEPT ![d] = "blank"]
    /\ stray' = {r \in stray : r.from # d}
    /\ UNCHANGED <<serverVars, pid, script, answer, calm>>

ServerRestart ==
    /\ refused' = {}
    /\ stray' = {}
    /\ UNCHANGED <<known, claimed, token, skey, invite, deviceVars, calm>>

(* The hypothesis of the liveness properties, not a step of the system.    *)
Settle ==
    /\ ~calm /\ stray = {}
    /\ \E d \in Devices : phase[d] \in Running
    /\ calm' = TRUE
    /\ UNCHANGED <<serverVars, deviceVars, stray>>

----------------------------------------------------------------------------
Init ==
    /\ known = {} /\ claimed = {} /\ invite = {} /\ refused = {}
    /\ token = [p \in Panels |-> None]
    /\ skey = [p \in Panels |-> None]
    /\ pid \in [Devices -> Panels]
    /\ card = [d \in Devices |-> 0]
    /\ mark = {}
    /\ phase = [d \in Devices |-> "off"]
    /\ script = [d \in Devices |-> None]
    /\ answer = [d \in Devices |-> None]
    /\ stray = {}
    /\ calm = FALSE

Agent(d) == \/ AskRegister(d) \/ RegisterAnswered(d)
            \/ AskHeartbeat(d) \/ HeartbeatAnswered(d)

Operator(p) == \/ Provision(p) \/ Reprovision(p) \/ ClaimForRoom(p)
               \/ ResetToken(p) \/ Remove(p)
               \/ \E d \in Devices : FetchBootstrap(d, p)

Mishap(d) == \/ RegisterFails(d) \/ RunBootstrap(d) \/ PowerOff(d)
             \/ Start(d) \/ RewriteCard(d)

Next ==
    \/ \E d \in Devices : Agent(d)
    \/ ~calm /\ \E p \in Panels : Operator(p)
    \/ ~calm /\ \E d \in Devices : Mishap(d)
    \/ ~calm /\ (ServerRestart \/ ServeStray)
    \/ Settle

(* The agent's loops never stop sending and never sleep longer than their  *)
(* period, and the server handles and answers what reaches it.             *)
Fairness == \A d \in Devices : WF_vars(Agent(d))

Spec == Init /\ [][Next]_vars /\ Fairness

----------------------------------------------------------------------------
TypeOK ==
    /\ known \subseteq Panels /\ claimed \subseteq Panels
    /\ invite \subseteq Panels /\ refused \subseteq Panels
    /\ token \in [Panels -> Secret \cup {None}]
    /\ skey \in [Panels -> Secret \cup {None}]
    /\ pid \in [Devices -> Panels]
    /\ card \in [Devices -> 0..MaxCards]
    /\ mark \subseteq Devices
    /\ phase \in [Devices -> Phase]
    /\ script \in [Devices -> Panels \cup {None}]
    /\ answer \in [Devices -> RegisterStatuses \cup {None}]
    /\ stray \subseteq Request
    /\ calm \in BOOLEAN

(* Whoever's token the server holds, it signs with that same device's key: *)
(* a claim brings both secrets of one card and everything that forgets one *)
(* forgets the other, so a panel that gets in can verify what it is sent.  *)
OnePair == \A p \in Panels : skey[p] = token[p]

(* Unauthenticated registrations never leave more than UNCLAIMED_MAX rows  *)
(* waiting to be claimed, whatever is removed and re-registered meanwhile. *)
UnclaimedBounded == Cardinality(Unclaimed) <= UnclaimedMax

(* Reinstalling a panel reopens its claim (SECURITY.md): a device that     *)
(* runs is never refused because of a token left by its own earlier card,  *)
(* only because of another device's.                                       *)
NeverLocksItselfOut ==
    \A d \in Devices :
        LET t == token[pid[d]]
        IN  phase[d] \in Running /\ t # None /\ t.dev = d
              => t = CardSecret(d)

(* Trust on first use: a record changes hands only by becoming free first. *)
Promise == INSTANCE Ownership WITH
    Secrets <- Secret, Free <- None,
    holder <- [p \in Panels |-> [token |-> token[p], key |-> skey[p]]]

TrustOnFirstUse == Promise!Spec

(* No other running device carries d's panel id.                           *)
Alone(d) == \A e \in Devices \ {d} : pid[e] = pid[d] => phase[e] \in {"blank", "off"}

(* After a reset, a reinstall or any number of lost answers, a running     *)
(* panel whose record is free or its own ends up holding it and past the   *)
(* register loop, without anyone restarting it: the mark it kept does not  *)
(* make it ask for ever without its key.                                   *)
Secured ==
    \A d \in Devices :
        ( /\ calm /\ phase[d] \in Running /\ Alone(d) /\ CardSecret(d) # None
          /\ pid[d] \in known /\ token[pid[d]] \in {None, CardSecret(d)} )
        ~> (token[pid[d]] = CardSecret(d) /\ phase[d] = "up")

(* A panel that is turned away is shown as refused, not just as offline,   *)
(* and goes on being shown so, though every register of the panel that     *)
(* holds the record drops the entry.                                       *)
RefusalShown ==
    \A d \in Devices :
        ( /\ calm /\ phase[d] = "boot" /\ answer[d] = None
          /\ token[pid[d]] \notin {None, CardSecret(d)} )
        ~> [](pid[d] \in refused)

(* A running panel the server has stopped accepting goes back to register. *)
(* The docstring of reset_panel_token says a refused heartbeat sends it    *)
(* there, and remove's that live hardware re-registers as unclaimed.       *)
RejectedRegistersAgain ==
    \A d \in Devices :
        ( calm /\ phase[d] = "up"
            /\ (pid[d] \notin known \/ token[pid[d]] \notin {None, CardSecret(d)}) )
        ~> phase[d] \in {"boot", "reclaim"}
=============================================================================
