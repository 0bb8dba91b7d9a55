----------------------------- MODULE ConfigSync -----------------------------
(***************************************************************************)
(* How one panel's configuration gets from the server to its disk.         *)
(*                                                                         *)
(* The server keeps numbered versions of a panel's config: every way of    *)
(* changing it saves a new one (server/app/main.py, db.py).  The agent     *)
(* fetches what the server has, caches the background image it names,      *)
(* compares the version with the one on disk, and writes it               *)
(* (agent/panel-agent.py, sync).  Two of its tasks do this independently:  *)
(* the one reading the server's socket, whenever it connects or is told    *)
(* to, and the one that polls.  Every await in sync is a step boundary, so *)
(* they may each hold an answer the server has since replaced.             *)
(*                                                                         *)
(* What a push over the socket may do to get lost is PushChannel.tla; here *)
(* the socket task may sync at any time, and need not.                     *)
(***************************************************************************)
EXTENDS Integers, Sequences

CONSTANTS Data,        \* contents of a config
          Default,     \* what the template alone gives
          Pictured,    \* contents that name a background image
          MaxVersion,  \* bound: versions saved for one record
          MaxRecord,   \* bound: how often the panel is removed
          None         \* no content, no answer

ASSUME ConfigSyncAssumption ==
    /\ Default \in Data /\ Pictured \subseteq Data
    /\ MaxVersion \in Nat \ {0} /\ MaxRecord \in Nat
    /\ None \notin Data

VARIABLES
    \* the server
    row,      \* the panel's row: absent, unclaimed or claimed
    configs,  \* the saved versions, first to last
    record,   \* ghost: counts the records the panel id has had
    put,      \* a handler has checked the panel exists and awaits its body
    \* the agent
    disk,     \* current/config.json
    cached,   \* contents whose background image is beside it
    phase,    \* "boot": registering; "first": the sync before the loops
    got,      \* what each task's sync holds across an await
    force,    \* a "sync" message is in the socket's buffer
    \* the surroundings
    calm      \* from here on no operator, crash or loss interferes

serverVars == <<row, configs, record, put>>
agentVars == <<disk, cached, phase, got, force>>
vars == <<serverVars, agentVars, calm>>

Tasks == {"ws", "poll"}
Version == 1..MaxVersion
Config == [ver : Version, data : Data, record : 0..MaxRecord]
Blank == [ver |-> 0, data |-> None, record |-> 0]
Fetched == [cfg : Config, force : BOOLEAN, tried : BOOLEAN]

ASSUME NoneFetchedAssumption == None \notin Fetched

----------------------------------------------------------------------------
(* The server.                                                             *)

Latest == Len(configs)

(* merged_config, for configs that set every key the template sets.        *)
Effective == IF configs = <<>> THEN Default ELSE configs[Latest]

(* GET /api/config/{panel_id}: content and number are read without an      *)
(* await between them.                                                     *)
Served == [ver |-> Latest, data |-> Effective, record |-> record]

Save(d) ==
    /\ Latest < MaxVersion
    /\ configs' = Append(configs, d)

(* PATCH display: the panel is looked up after the body has arrived.       *)
Edit(d) ==
    /\ row # "absent"
    /\ Save(d)
    /\ UNCHANGED <<row, record, put, agentVars, calm>>

(* PUT config, and import, bluetooth, background, light and presets: the   *)
(* panel is looked up before the body is awaited, and not again.           *)
PutBegin ==
    /\ row # "absent" /\ ~put
    /\ put' = TRUE
    /\ UNCHANGED <<row, configs, record, agentVars, calm>>

PutEnd(d) ==
    /\ put /\ put' = FALSE
    /\ Save(d)
    /\ UNCHANGED <<row, record, agentVars, calm>>

PutRejected ==
    /\ put /\ put' = FALSE
    /\ UNCHANGED <<row, configs, record, agentVars, calm>>

Rollback_Truncates(v) ==
    /\ v \in 1..Latest
    /\ configs' = SubSeq(configs, 1, v)
    /\ UNCHANGED <<row, record, put, agentVars, calm>>

(* An old version's content is saved as a new version.                     *)
Rollback(v) ==
    /\ v \in 1..Latest
    /\ Save(configs[v])
    /\ UNCHANGED <<row, record, put, agentVars, calm>>

(* db.claim: the update misses a row that is gone, the save does not.      *)
Claim(d) ==
    /\ row' = IF row = "absent" THEN row ELSE "claimed"
    /\ Save(d)
    /\ UNCHANGED <<record, put, agentVars, calm>>

Remove ==
    /\ record < MaxRecord
    /\ row' = "absent" /\ configs' = <<>>
    /\ record' = record + 1
    /\ UNCHANGED <<put, agentVars, calm>>

----------------------------------------------------------------------------
(* The agent's sync, task by task.                                         *)

(* What the code compares: equal means nothing to do, lower does not.      *)
UpToDate_LowerCounts(g) == ~g.force /\ g.cfg.ver <= disk.ver
UpToDate_NeverForced(g) == g.cfg.ver = disk.ver

UpToDate(g) == ~g.force /\ g.cfg.ver = disk.ver

ImageDue_NewVersionOnly(g) ==
    /\ ~g.tried /\ g.cfg.ver # disk.ver
    /\ g.cfg.data \in Pictured \ cached

(* cache_background has an image to fetch before anything is compared.     *)
ImageDue(g) == ~g.tried /\ g.cfg.data \in Pictured \ cached

(* sync ends; the first one is followed by the agent's loops.              *)
Done(t) ==
    /\ got' = [got EXCEPT ![t] = None]
    /\ phase' = "run"

(* The request is served: an answer, or nothing the agent would use.       *)
Fetch(t, f) ==
    /\ got[t] = None
    /\ phase = "run" \/ (phase = "first" /\ t = "ws")
    /\ f => t = "ws" /\ force
    /\ force' = (force /\ ~f)
    /\ IF row = "claimed"
       THEN /\ got' = [got EXCEPT ![t] =
                          [cfg |-> Served, force |-> f, tried |-> FALSE]]
            /\ UNCHANGED phase
       ELSE Done(t)
    /\ UNCHANGED <<serverVars, disk, cached, calm>>

(* The server gives out only the image of the config it has now.           *)
Download(t) ==
    /\ got[t] # None /\ ImageDue(got[t])
    /\ got' = [got EXCEPT ![t].tried = TRUE]
    /\ cached' = IF Effective = got[t].cfg.data
                 THEN cached \cup {Effective} ELSE cached
    /\ UNCHANGED <<serverVars, disk, phase, force, calm>>

(* The comparison, and the write if it says so: nothing awaits between.    *)
Decide(t) ==
    /\ got[t] # None /\ ~ImageDue(got[t])
    /\ disk' = IF UpToDate(got[t]) THEN disk ELSE got[t].cfg
    /\ Done(t)
    /\ UNCHANGED <<serverVars, cached, force, calm>>

(* POST /api/register, as far as the row goes: Enrollment.tla.             *)
Register ==
    /\ phase = "boot"
    /\ phase' = "first"
    /\ row' = IF row = "absent" THEN "unclaimed" ELSE row
    /\ UNCHANGED <<configs, record, put, disk, cached, got, force, calm>>

----------------------------------------------------------------------------
(* Operators and mishaps.                                                  *)

(* POST action "sync", when the panel's socket takes it.                   *)
ForceSync ==
    /\ phase = "run"
    /\ force' = TRUE
    /\ UNCHANGED <<serverVars, disk, cached, phase, got, calm>>

(* A download that fails, or is refused, does not hold up the config.      *)
DownloadFails(t) ==
    /\ got[t] # None /\ ImageDue(got[t])
    /\ got' = [got EXCEPT ![t].tried = TRUE]
    /\ UNCHANGED <<serverVars, disk, cached, phase, force, calm>>

(* The answer is lost or fails its signature, or the write fails.          *)
SyncFails(t) ==
    /\ got[t] # None \/ (phase = "first" /\ t = "ws")
    /\ Done(t)
    /\ UNCHANGED <<serverVars, disk, cached, force, calm>>

(* The socket goes down with the message in it.                            *)
PushLost ==
    /\ force /\ force' = FALSE
    /\ UNCHANGED <<serverVars, disk, cached, phase, got, calm>>

PowerOff ==
    /\ phase # "off"
    /\ phase' = "off"
    /\ got' = [t \in Tasks |-> None]
    /\ force' = FALSE
    /\ UNCHANGED <<serverVars, disk, cached, calm>>

Start ==
    /\ phase = "off"
    /\ phase' = "boot"
    /\ UNCHANGED <<serverVars, disk, cached, got, force, calm>>

(* A new SD card with the same panel id.                                   *)
RewriteCard ==
    /\ phase = "off"
    /\ disk' = Blank /\ cached' = {}
    /\ UNCHANGED <<serverVars, phase, got, force, calm>>

(* The hypothesis of the liveness properties, not a step of the system.    *)
Settle ==
    /\ ~calm /\ phase # "off" /\ ~put
    /\ calm' = TRUE
    /\ UNCHANGED <<serverVars, agentVars>>

----------------------------------------------------------------------------
(* The panel registers by itself, or create_provisional_panel made it.     *)
Init ==
    /\ \/ row = "absent" /\ configs = <<>>
       \/ row = "claimed" /\ configs \in {<<d>> : d \in Data}
    /\ record = 0 /\ put = FALSE
    /\ disk = Blank /\ cached = {}
    /\ phase = "off"
    /\ got = [t \in Tasks |-> None]
    /\ force = FALSE
    /\ calm = FALSE

Task(t) == Fetch(t, FALSE) \/ Fetch(t, TRUE) \/ Download(t) \/ Decide(t)

Operator ==
    \/ \E d \in Data : Edit(d) \/ PutEnd(d) \/ Claim(d)
    \/ \E v \in Version : Rollback(v)
    \/ PutBegin \/ PutRejected \/ Remove \/ ForceSync

Mishap ==
    \/ \E t \in Tasks : DownloadFails(t) \/ SyncFails(t)
    \/ PushLost \/ PowerOff \/ Start \/ RewriteCard

Next ==
    \/ Register
    \/ \E t \in Tasks : Task(t)
    \/ ~calm /\ (Operator \/ Mishap)
    \/ Settle

(* The poll loop never ends, a sync that began goes on, and a message in   *)
(* the socket's buffer is read: an asyncio loop runs every ready task.     *)
(* Nothing makes the socket task sync unasked, and what it does so before  *)
(* a sync message is for the finitely many messages ahead of that one.     *)
Fairness ==
    /\ WF_vars(Register)
    /\ WF_vars(Task("poll"))
    /\ WF_vars(Download("ws") \/ Decide("ws"))
    /\ WF_vars(phase = "first" /\ Fetch("ws", FALSE))
    /\ SF_vars(Fetch("ws", TRUE))

Spec == Init /\ [][Next]_vars /\ Fairness

----------------------------------------------------------------------------
TypeOK ==
    /\ row \in {"absent", "unclaimed", "claimed"}
    /\ configs \in Seq(Data) /\ Len(configs) <= MaxVersion
    /\ record \in 0..MaxRecord /\ put \in BOOLEAN
    /\ disk \in Config \cup {Blank}
    /\ cached \subseteq Pictured
    /\ phase \in {"off", "boot", "first", "run"}
    /\ got \in [Tasks -> Fetched \cup {None}]
    /\ force \in BOOLEAN
    /\ calm \in BOOLEAN

(* While the panel's record stands, a version number means one content for *)
(* good: whatever the two tasks interleaved, the config on disk is the one *)
(* the server has, or had, under that number.                              *)
SameRecordSameConfig ==
    disk.ver > 0 /\ disk.record = record =>
        disk.ver <= Latest /\ disk.data = configs[disk.ver]

(* Every change of a claimed panel's config reaches its disk and stays,    *)
(* with no push at all, and also if a task overwrote it with an older      *)
(* answer.  Of a config from before a removal only the number is bound to  *)
(* come right, and that is all that sync compares: see CaughtUp.           *)
Current == disk.ver = Latest /\ (disk.record = record => disk = Served)

Converges == (calm /\ row = "claimed") ~> []Current

(* A background that could not be fetched is fetched by a later sync, even *)
(* at the same config version.                                             *)
BackgroundArrives ==
    (calm /\ row = "claimed") ~> (Effective \in Pictured => Effective \in cached)

(* Force sync gives the panel what the server has, also where the version  *)
(* number says there is nothing to do.                                     *)
ForceSyncCures == (calm /\ row = "claimed" /\ force) ~> [](disk = Served)

(* docs/INTEGRATION.md has it that no versions behind means current.  It   *)
(* does not where the panel was removed and claimed anew: the same number  *)
(* then stands for another content, and no sync but a forced one sees it.  *)
CaughtUp == (calm /\ row = "claimed") ~> (disk.data = Effective)
=============================================================================
