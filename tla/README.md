# A formal model of pi-panel

pi-panel is a fleet of wall-mounted touch panels (Raspberry Pi kiosks) and the
config server that enrols, configures, updates and commands them.  These
modules model the parts of it whose correctness depends on the order in which
things happen: two processes and a network, several asyncio tasks in each, SD
cards that are swapped, power that goes at any moment.  TLC checks each module
on a small instance; TLAPS proves its safety properties for every value of the
constants.

## The system

| Component | Where | State it keeps | Operations |
|---|---|---|---|
| Enrolment | `server/app/main.py`, `db.py`, `agent/panel-agent.py` | rows of `panels` (claimed, token, signing key), invitations, `REFUSED`; on the device: two secrets, a mark, the panel id | register, heartbeat, provision, reprovision, bootstrap, claim, reset token, remove |
| Config store and sync | `db.py`, `main.py`; `sync`, `cache_background`, `write_config` in the agent | numbered versions per panel, templates; on the device `config.json` and a cached image | save (seven handlers), rollback, fetch, compare, write, force sync |
| Push channel | `panel_ws`, `notify`, `LIVE`; `ws_loop` | one slot per panel id; connections at both ends | connect, push, close, reconnect |
| Self-update | `fetch_bundle`, `check_bundle`, `confirm_update` | the agent's file, its copy, a marker | download, verify, replace, restart, confirm or roll back |
| Idle power | `IdlePowerLimit`, `reconcile_idle_power` | the CPU's ceiling, a journal in `/run`, the pages' reports | lower, restore, recover |
| Screen | `panel-ui/panel.html`, `panel-ui/backlight.py` | standby mode and timers, the brightness wanted and applied, a fade, the hardware | wake, dim, blank, sleep, identify, doorbell |
| Remote requests | `screen_diagnostics`, `ssh_access` in the server and the agent | one pending request of each kind per panel | ask, carry out, answer, time out |
| Browser watchdog | `recovery_decision`, `browser_watchdog` | the hour's attempts in memory and on disk, the last heartbeat, a stage | reload, restart, record |
| DALI client | `dali_loop`, `dali_prime`, `_dali_event`, `dali_control` | the gateway in use, its status, a cache of lights | prime, connect, hear, poll, reconfigure, control |
| Bluetooth scanner | `bluetooth_loop`, `reconcile_bluetooth` | systemd's unit, what is reported of it | observe, enable, disable, start, stop |
| Installs over SSH | `provision_run`, `_run_install`, `provision_run_status`; `ssh.py` | the token, `INSTALL_JOBS`, one thread each | begin, log in, fetch, judge, poll |
| Scanner enrolment | `custom_components/pi_panel/discovery.py` | `done`, `created`, `retry_at`; Home Assistant's entries and flows | open a flow, create, assign an area |
| Presence, sessions, rest of Home Assistant, GUI, performance, packaging | see "Not modelled" | - | - |

How they interact: the agent registers (Enrollment), then its socket task and
its poll task both sync the config (ConfigSync) and check the bundle
(SelfUpdate); the server pushes "there is something new" through the socket
(PushChannel), and a push may be lost because polling finds it too.  Commands
reach the page through the agent (Screen), the page reports what it shows back
to the agent (IdlePower).  Beside all this the agent's process carries the
watchdog, the DALI client and the Bluetooth loop, which end whenever it ends,
by an update, a rollback or a crash, and begin anew from what is on the card
(SideTasks).

What is hard, and what a unit test hardly reaches: handlers that check, await
and then use (`put_config`, `sync`, `notify`); two tasks of the agent doing the
same thing at once; answers that come late or never; numbers reused after a
removal; a file replaced, a marker written and a process restarted with a power
cut between any two; a deferred callback overtaken by a command; a loop that
waits for a socket while the config it serves changes; a thread that fills in
what a handler is reading.  Each such place is a hazard of `PROJECT.json`, at its line, with the properties that
would notice it going wrong.

## Modules

| Module | Models | Checked by | Proved in |
|---|---|---|---|
| `Ownership` | what enrolment promises: a record is free or held by one whole pair of secrets, and is taken only while free | refined by `Enrollment` | `Enrollment_proofs` |
| `Enrollment` | server handlers, agents, operators, cards, lost and late requests | `enrollment_ids`, `enrollment_rivals`, `enrollment_rejected` | `Enrollment_proofs` |
| `ConfigSync` | versions of one panel's config and two sync tasks | `config_sync`, `config_caughtup` | `ConfigSync_proofs` |
| `PushChannel` | `LIVE`, its writers, and two ends that disagree on whether they are connected | `push_channel`, `push_stale` | `PushChannel_proofs` |
| `Errand` | what a request to a panel promises its administrator | refined by `RemoteRequests` | `RemoteRequests_proofs` |
| `RemoteRequests` | SSH access and screen diagnostics over `PushChannel`, which it extends | `remote_requests` | `RemoteRequests_proofs` |
| `SelfUpdate` | the agent replacing itself, step by step | `side_tasks`, `self_update_twice` | `SelfUpdate_proofs` |
| `Watchdog` | the browser watchdog, its budget, the page and the clock | `side_tasks` | `SideTasks_proofs` |
| `Dali` | the DALI client, the gateways, what they push and what they do not | `side_tasks` | `SideTasks_proofs` |
| `Scanner` | the Bluetooth loop against systemd, the config and an administrator | `side_tasks` | `SideTasks_proofs` |
| `Installs` | install threads, their jobs and the polls that read them | `side_tasks` | `SideTasks_proofs` |
| `Discovery` | the scanner enrolment and Home Assistant's entries and flows | `side_tasks` | `SideTasks_proofs` |
| `SideTasks` | the agent's process with the loops that begin and end with it, and the tasks elsewhere | `side_tasks` | `SideTasks_proofs` |
| `Loan` | what saving power promises to the others who set the CPU's ceiling | refined by `IdlePower` | `IdlePower_proofs` |
| `IdlePower` | the CPU limit's file operations and who else acts between them | `idle_power` | `IdlePower_proofs` |
| `Screen` | the page's standby, the request loop, the fade, the backlight | `screen` | `Screen_proofs` |

`MCEnrollment` adds a symmetry set for the one run whose properties are all
invariants; the other runs check the modules themselves.  `SideTasks` extends
the six modules above it: each of them gives the steps of its component, and
`SideTasks` says when its process runs and what a new process begins with.

### Granularity

A server handler runs on one asyncio loop, so what it does between two awaits
is one step.  `register`, `heartbeat`, `panel_config` and `bootstrap` await only
their body: one step each.  `put_config` and its like look a panel up and then
await: two steps.  `notify` awaits its send: a send into a stale connection is a
state of its own (`sending`).  In the agent every await of `sync` and
`check_bundle` is a step boundary.  In `IdlePowerLimit` and `confirm_update`
each file operation is a step, because a crash, a failure or, for the CPU's
ceiling, another writer may come between any two; nothing else of the process
runs there.  In particular `restore` looks at the ceiling in one step (`Look`) and
raises it in another (`Raise`).  Two pairs are one step: reading the
journal with the look at the ceiling, and reading the ceiling that is to be
journalled with writing the journal (`Measure`).  Nobody else touches the
journal, so what others set between such a pair might as well be set before or
after it.  In the page each event handler is
one step, and the three awaits of its brightness request are the states of
`req` and `queue`.

Asking and being served is one step where nothing of the request changes while
its answer is under way; what is lost is then either a request that was never
served, one that was (its answer dropped), or one that is served later (`stray`
in Enrollment, `queue` in Screen).

### What the data is reduced to

A secret is the pair (device, card) it was made on.  A config is a model value
with the record and version it was served under; a build is good, mute (starts
but never registers), dead (compiles, dies earlier) or broken (does not
compile).  A brightness is a level 0..Full.  Signatures are not modelled: an
answer that fails its check is one of the ways a sync fails.

### State and code

* Enrollment: `known` is a row of `panels`, `claimed`, `token`, `skey` its
  columns, `invite` the unused provisioning tokens, `refused` the dictionary
  `REFUSED`.  `phase` is the place in the agent: "boot" in the loop of
  `server_side`, "up" behind it, "reclaim" in the register call of
  `heartbeat_loop`.  `mark` is `panel-token-claimed`.
* ConfigSync: `configs` is the list of rows of `configs` for the panel, `got`
  what each task's `sync` holds across an await, `force` a "sync" message in
  the socket.  `record`, a ghost, counts removals.
* PushChannel: `live` is `LIVE[panel_id]`, `served` the connections whose
  `panel_ws` runs, `conn` the one `ws_loop` is in.
* RemoteRequests: `slot` is `ACCESS_REQUESTS` and `SCREEN_REQUESTS`, `status`
  the place in a handler or what it answered, `task` the message `ws_loop` is
  awaiting the end of, `answers` what the panel has sent and no `panel_ws` has
  read.  `ran`, a ghost, collects the requests the helper or the browser was
  run for.
* SelfUpdate: `target`, `prev` and `pending` are the three files, `at` the place
  in `confirm_update` or behind it, `check` each task's `check_bundle`.
  `proven`, a ghost, collects the builds that have registered on this panel.
* Watchdog: `started`, `seen`, `lastTry` are `BROWSER_STARTED`, `BROWSER_SEEN`
  and `RECOVERY_LAST`, kept as ages in ticks up to the age that matters;
  `stage`, `attempts` are `RECOVERY_STAGE` and `RECOVERY_ATTEMPTS`, `saved` the
  file `browser-recovery.json`, `acting` the await of a remedy.  Ghosts: `spent`
  (attempts carried out within the hour) and `steady` (the page was well for a
  tick).
* Dali: `gateway` is the one `config.json` names, `session` the loop's `cfg`,
  `phase` its place, `status` and `lights` the two parts of `DALI_STATE` that
  anything depends on; `post` is a control whose answer is awaited, `events`
  the socket, `level` what each bus really shows.
* Scanner: `unit` is what systemd knows, `twins` that both `BLUETOOTH_UNITS` are
  installed, `asked` the mode the loop has read, `commands` those it has decided
  on and not given, `metrics` the status it reports.
* Installs: `thread` is the place in `_run_install` and `bootstrap_lines`, `job`
  the entry of `INSTALL_JOBS`, `asking` what a poll has read of it, `verdict`
  what the browser showed; `exit`, the status in the last line of the output.
* Discovery: `due`, `finished`, `created` are `retry_at`, `done` and `created` of
  `ScannerEnrollment`, `enrolling` the await it is in; `entry`, `device`, `area`,
  `flow` are Home Assistant's.
* SideTasks: the loops run while `at` says that the process is behind
  `confirm_update` (`Alive`); `moving` is which parts take steps in a behaviour.
* IdlePower: `ceiling` is `scaling_max_freq`, `journal` the file, `saved`,
  `blocked` the object's fields, `at` the file operation `update` comes to next,
  `why` the branch of it that called `restore`.  `report` is `POWER_PAGES`, where
  a page that has no entry, or an old one, is "lit".  Ghosts: `lowered` (the
  ceiling is the agent's), `found` (what it was before) and `theirs` (what others
  set last, unless they set the minimum, which the agent takes for its own, or
  set it between a look and the write that follows it).  `Loan`'s `seen` is not a
  variable: the agent has seen the minimum before it raises, and what it
  journalled before it lowers.
* Screen: `screen`, `timer`, `bell`, `identify`, `lights` are the page's classes
  and timers, `wanted`, `applied`, `req` the variables of `setBacklight`;
  `target`, `fading`, `error` are `RAMP`; `level` and `dark` are the files
  `brightness` and `bl_power`.

Definitions named `X_Something` just before `X` are bugs the code could
have in place of `X`; they are used only to see that the properties notice them.

## Runs

| Run | Instance | Shows |
|---|---|---|
| `enrollment_ids` | 1 device, 2 panel ids, 3 cards (one unable to hold secrets), 1 unclaimed row allowed, 2 stray requests | invariants of the records under reinstallation and late requests |
| `enrollment_rivals` | 2 devices with one panel id, 2 cards each | refinement of `Ownership`, that a panel that can be secured is, and that one turned away is shown as refused for good |
| `enrollment_rejected` | 1 device, 1 id | fails: a rejected running panel stays rejected |
| `config_sync` | 2 contents, one with an image, 2 versions, 1 removal, 2 tasks | stability of versions; convergence by polling, of the number always and of the content while the record stands; the image; force sync |
| `config_caughtup` | 2 contents, 1 version, 1 removal | fails: an equal number stands for other content |
| `push_channel` | 3 connections, 2 buffered messages | the slot is served, is the newest, is not taken by old handlers |
| `push_stale` | 2 connections | fails: a failing send takes the new connection's slot |
| `remote_requests` | 2 connections, 2 buffered messages, 2 requests of either kind | slots belong to running handlers; every request ends; refinement of `Errand` |
| `side_tasks` | the agent's process with its updates (2 good builds, 1 of each bad kind, 1 task), or with one loop (watchdog: 2 attempts in 5 ticks; DALI: 2 gateways, one polled, 1 light of 2 levels, 1 event; scanner: every state of a unit), or 2 installs with 1 job kept, or 1 scanner to enrol | the fallback is proven, a panel is stranded only by a crash midway or a build that dies at once, gets back, an update arrives; recoveries stay within the budget, leave a page that is well alone, and cure one that is not; lights and scanner follow the config and the hardware; a verdict on an install is how its script ended; a scanner gets enrolled |
| `self_update_twice` | 1 good, 1 mute build, 2 tasks | fails: the fallback is overwritten |
| `idle_power` | 2 pages, ceilings 1..3 | the limit is recoverable; what others set is in force or in the journal, but for the two windows under "Limits"; refinement of `Loan`; full speed when needed, power saved when not |
| `screen` | levels 0..2, 1 deferred light, 2 queued requests | the page's belief about the hardware holds once an answer has confirmed it; the last wanted brightness wins; rest is reached; the doorbell stays |

Bounds, and why they are enough.  Two devices are all it takes to compete for
one id; a third card makes one card stale, one current and one to come.  Two
versions and two contents let a task hold an answer that is older, or newer, or
equal in number and different in content; two versions run out, which is why
convergence is claimed of what was saved and not of saving.  Three
connections give an old handler, a connection a send waits on and the current
one.  Two pages let one be blanked while the other is lit, gone or hung; three
ceilings separate the minimum, the one found and somebody else's.  For the watchdog, five ticks hold two attempts with
their pauses and a third that must wait for the first to expire; a page is
silent after one tick and a start is over after two, so that a restart, a
silence and a pause overlap in every order.  Two gateways let the config move to
another one, to none, and back; one is polled and one is not.  One light of two
levels can be added, removed and changed behind a lost event.  Two installs with
one job kept let the first's job be pushed out under its thread and its
browser, and its token be spent by the other.  The parts of `side_tasks` move
one at a time, with restarts of the agent's process around the loops: the code
gives them no state in common but that process, and the invariants are proved
for any sets of parts that move together.  Two requests are one that is
answered too late and one that is pending by then.  Three levels
separate off, the clock and full brightness.  `MaxStray`, `MaxInbox`,
`MaxLights`, `MaxQueue`, `MaxCards`, `MaxVersion`, `MaxRecord` are the bounds
that exist only for TLC; the theorems hold for all values of them.

### The four disagreements

Each failing run checks a sentence of the repository against the code.

* `RejectedRegistersAgain` - `reset_panel_token` and `remove` say that a panel
  refused at its heartbeat goes back to register; `heartbeat_loop` looks only at
  answers with status 200.  What does bring a panel back after a reset is the
  answer "none" (property `Secured`); after a removal, or when another device
  took the record, nothing does before a restart.
* `CaughtUp` - "versions behind: 0 means current".  Remove starts the numbers
  again; with the same number and other content `sync` sees nothing to do.
  Forcing a sync cures it (`ForceSyncCures`).  `Converges` claims of such a config
  the number only, and the content of every other.
* `ReplacesStaleSocket` - `notify` clears the slot after a failed send without
  looking whose it is, as `panel_ws` does.
* `FallsBackToProven`, with two tasks - the second install copies the first
  one's new build over the kept one.

## Fairness, `calm` and `quiet`

Liveness is stated for what happens after the surroundings settle: the action
`Settle` sets `calm`, after which operators, power cuts, lost messages and
people do nothing more.  A property has the form `(calm /\ situation) ~> goal`:
it covers every situation any history of mishaps can lead to, and it is not
claimed while they go on.  `Settle` is a hypothesis, not a step of the code;
nor is `Hush`, which sets `quiet` for the loops of `SideTasks` in the same way:
the config, the gateways, the unit, the page's own mishaps and the
administrator come to rest, while time, systemd and the loops go on.

Assumed of the code are only its loops: asyncio runs every ready task and the
loops of `heartbeat_loop`, `poll_loop`, `ws_loop` and `idle_power_loop` never
end; systemd restarts the agent (`Restart=always`); browser timers fire; the
backlight helper serves its queue and its thread ticks.  These are weak
fairness conditions on the loop's step.  Strong fairness appears twice: a sync
message in a live socket is read although the task is busy with earlier
messages again and again (`Fetch("ws", TRUE)`), and a page's report is read
although updates of the limiter come in between (`Receive`).  No fairness is
given to the socket task's unasked syncs, operators or mishaps.

In `SideTasks`, weak fairness says that each of the agent's loops takes its
steps while the process lives (every one of them catches what its body raises
and sleeps), that time passes, that systemd carries out the start or stop it
has accepted, that an install's thread comes to an end and its browser polls,
and that `ScannerEnrollment.run` goes on with its rounds.  `GetsCured` rests on
one thing more: a restarted browser ends up with a page that loads once nothing
goes wrong any more, which is what the remedy is for.  A reload is not assumed to
cure anything.

`EveryRequestEnds` needs no calm: the server's own timeouts and failing sends
end every request while panels, cards and operators do as they please.

## What is proved

Every proof module extends its component and is checked by TLAPS for all
values of the constants, from the named `ASSUME`s of the component only.

* `Enrollment_proofs`: `TypeOK`; then `IInv`, which adds to `OnePair` and
  `UnclaimedBounded` that stray requests carry a secret of their sender.
  Secrets are paired because every write goes through `RecordSecrets` with
  secrets of one request, and a request's key, where it has one, is the one
  beside its token.  The bound needs finiteness of the rows and that `register`
  adds one only below the limit.  `NeverLocksItselfOut` takes one invariant
  more: a stale secret of a device in the server's record means that the device
  is off, blank, or about to be bootstrapped.  `Refinement` shows each step to
  be a `Take`, a `Release` or a stutter of `Ownership`.
* `ConfigSync_proofs`: `SameRecordSameConfig` is not inductive, since what is
  written to disk was read in an earlier step.  `HeldMatches` says the same of
  every answer a task holds, and `ClaimedIsConfigured` that a claimed panel has
  a saved version, so that no answer carries the number 0.  `SetBackOnce`
  bounds what two tasks can undo: in the calm no answer becomes outdated, and
  one that is written is used up.  `NumberIsKept` keeps all of what `Converges`
  aims at: that the number stands for the content served follows from
  `HeldMatches`.
* `PushChannel_proofs`: the three invariants are inductive together, and the
  action property follows from them.  `OneLossPerWaitingSend` says what
  the fault `ReplacesStaleSocket` shows can cost at most: in the calm a
  connection loses its slot once to each send that waits already.
* `RemoteRequests_proofs`: every step is one of `PushChannel`'s own (`ChannelStep`),
  so its invariants carry over.  `SlotsHold` pairs slots and handlers.  `InTurn`
  is what the promise rests on: what was carried out, the task, and the messages
  yet to be read follow each other in the order of asking, because `ws_loop`
  reads nothing while it works and connects only when it has finished.
  `RequestsKeepPromise` then maps each step to one of `Errand`.
* `SelfUpdate_proofs`: `NeverBroken` with types; `FallsBackToProven`, for one
  checking task, needs that while the loops run what is in place has
  registered (`Steady`) and that an update under way has its copy
  (`FallbackReady`).  From the same invariant `Stranding` goes through the steps
  and finds the only two by which a panel that could get back to the server no
  longer can: a crash midway, and the installing of a build that dies at once.
* `SideTasks_proofs`: `ProcessImplements` shows that `SideSpec` implies the
  safety part of `SelfUpdate`, so that `FallsBackToProven` and `StrandedOnlyBy`
  carry over to the process with loops in it.  `WithinBudget` needs `Recorded`: every
  attempt that was made is on the card, whatever is on the card is in memory,
  and memory never holds more than the limit; the proof goes through the
  cardinalities of sets of ages that get older.
  `LeavesWellAlone` needs `Heard`: a page that was well for a tick has been
  heard, unless the process has only just begun.
  `NothingLeftBehind` needs `Forgets`: the cache holds lights under the status "off"
  only between a session's first reading and its socket.
  `VerdictIsTrue` needs `Judged`: "ok" is what the script's end says before
  "done" is set, and does not change after.
* `IdlePower_proofs`: `Recoverable` needs that memory and journal `Agree` and
  what each file operation yet to come finds (`Underway`).  `OthersCeilingKept`
  says where a ceiling that others set is: in force, or in the journal of one
  that is held at the minimum.  It needs `Looked`: as long as nobody has come
  between, what the agent looked at is still so when it acts on it, and the
  ceiling that it journals, or forgets the journal for, is theirs.
  `LimitIsBorrowed` maps the journal to what is `owed` in `Loan` and the look an
  operation rests on to what is `seen`: each step is a `Look`, a `Note`, a
  `Lower`, a `GiveBack`, a `Forget`, the end of a look, or none of them.  The
  invariant comes in where a limiter must be holding nothing down to journal
  anew or to forget.  `Loan` does not promise that the ceiling is still what was
  seen: it is not, where another writer came between.
* `Screen_proofs`: types (split into the page's, the request's and the
  helper's), `DoorbellStaysOn`, and `BlankStands`, whose content is that no
  step of the helper but serving a request writes `bl_power`.  `BeliefHolds`
  needs `InOrder`: the request that is awaited is the last in the queue, so
  that whatever was given up on has been served before it, and the answer leaves
  nothing behind it; and `FadeInv`: a fade at rest is at its target.

### The safety half of liveness

Most of the liveness properties have the form `(calm /\ situation) ~> []goal`.
Arriving there takes fairness and stays with TLC.  That the goal, once reached,
is not lost again is a safety property, and the half in which interleavings
bite: an answer, event, report or exception that was under way before the
goal was reached and comes after it.  It is proved, for every value of the
constants, as `Spec => [](Goal => []Goal)`, where `Goal` is the property's goal
with exactly what must no longer be under way:

| Property | Theorem | What `Goal` excludes beside the goal itself |
|---|---|---|
| `Secured` | `AdmittedLasts` | an answer "none" on its way; rival devices go on asking |
| `Converges`, `ForceSyncCures` | `NumberIsKept`, `ServedIsKept` | an answer of another version, or an outdated one, held by either task; for `Converges` the content is claimed of a config of the record that stands |
| `Reconnects` | `ReachLasts` | a send that waits on a stale socket |
| `GetsBack`, `UpdateArrives` | `HopeLasts`, `CurrentLasts` | a `check_bundle` under way (for the second) |
| `FullSpeed`, `SavesPower` | `FullSpeedLasts`, `SavingLasts` | an unread report to the contrary; a journal yet to be dealt with |
| `FollowsConfig` | `GatewayIsHeld`, `LightsStayGone` | nothing: controls and late answers go on |
| `LightsCatchUp` | `CacheStaysTrue` | an event or control under way |
| `ScannerObeys` | `ScannerStaysAsAsked` | a command that is decided on, a mode read earlier, a unit in transition |
| `GetsEnrolled` | `EnrolmentStaysDone` | nothing |
| `LastWantedWins`, `UnattendedRests` | `BeliefIsKept`, `RestShowsWanted` | nothing: stale requests are in the queue |

Only model-checked: that these goals are reached (all the properties of the
table), `RefusalShown` (which goes on to say that the entry stays, or comes back
after the panel that holds the record has registered), `BackgroundArrives`, `EveryRequestEnds` and `GetsCured`,
because fairness and ENABLED are beyond TLAPS's installed backends; and the four
disagreements.  Every invariant and action property of a passing run is proved.
Only proved: the type invariants of all components but the small abstract ones,
and `NeverBroken`; the runs spend their time on other properties.

## Limits of the models

* ConfigSync takes configs that set every key of their template, so an edit of
  a template (which changes what panels inherit, under no new version) and lost
  updates between keys of one config are outside it.
* `GetsBack` assumes the state `Sound`: a power cut between replacing the agent
  and writing the marker, or in the middle of copying the old build back, is in
  the model and is excluded there, because the code does not cover it.
  `StrandedOnlyBy` says that, with one checking task, such a cut and a build that
  dies before `confirm_update` are the whole of what it does not cover.
* The agent's look at the CPU's ceiling is no lock.  What another writer sets
  between `restore`'s look (`panel-agent.py:1039`) and its write (1042), or between
  the read that is journalled (1065) and the lowering (1080), is overwritten, and
  in the second case forgotten for the value found before it.  The comment at
  line 1043 and `docs/IDLE-POWER.md:26` say that a ceiling set by others is not
  overwritten.  IdlePower has both windows; `OthersCeilingKept` does not count
  what is set in them, `Loan` allows for it, and no run shows it failing.
* `SavesPower` excepts a limiter that is `blocked`.  It is so when somebody else
  set the ceiling, and also when the agent's own write of it failed after the
  journal was written: the ceiling then is not where the agent meant to put it.
* In `side_tasks` one task checks the bundle, in `self_update_twice` two:
  `FallsBackToProven` holds in the first and fails in the second.
* PushChannel models one device per panel id; what it takes to be accepted is
  Enrollment's.
* `LastWantedWins` and `UnattendedRests` leave out the case in which the page
  already believes the hardware shows what it wants: after a lost answer or a
  failed fade the code does not ask again until it wants something else.
  `BeliefHolds` says when that is over: with the first answer the page awaits.
* Watchdog counts attempts in the panel's wall clock, as the code does: setting the
  clock by an hour, or back past the attempts, empties the budget (`ClockSet`), and `WithinBudget` counts in the
  same clock.  An attempt is over within the tick it was decided in.
* Dali leaves out the bus status, the messages to the pages and everything of a
  light but its level.  A light of an earlier gateway stays in the cache when the
  config names another gateway directly, and one that the gateway reports as
  deleted is folded in like any other: the model has both, and no property
  claims otherwise.  Without `poll_s` nothing repairs the cache before the next
  session; `LightsCatchUp` is therefore stated for polled gateways.
* Scanner leaves a failed unit as it is, like the code (`ScannerObeys` says so).
* Installs has `curl | bash` end with status 0 when the token was spent
  meanwhile, as `ssh.py` does; `VerdictIsTrue` says only that the browser is told
  the script's status.  That a poll may skip a line the thread adds between its
  two reads is not in the model, which has no lines.
* Discovery takes an entry that a cut-off enrolment made for somebody else's, as
  the code does: such an entry stays without its options and area.  A cut within
  `async_init` (`discovery.py:99`), where `flow_id` is not yet known, leaves the
  flow behind; the model has one await for the whole of a flow and aborts what
  is cut off there.  It is stricter than Home Assistant in that a flow left open
  keeps any other from being opened.
* In `SideTasks`, a behaviour in which updates do not move has no server
  either: the process starts, tries to register, and dies and restarts.
* RemoteRequests does not measure time: the intervals between requests (1 s and
  3 s) and the expiry after 20 s appear as a request not made and one not
  carried out.  The checks before a request and its registration are one step,
  although the body is awaited between them: `LIVE`, which a reset empties, is
  looked up after it.
* A sleep command that comes within the 150 ms by which `bump` defers its light
  blanks a screen that this light then lights, until it is touched; Screen has
  the behaviour, `UnattendedRests` speaks of a screen that is awake, and no
  property covers the hazard.
* Screen models a page that has loaded and does not reload; a partial write
  within one request of the helper is not a state.
* Timeouts are nondeterministic, not measured; "a minute", "25 s" and "five
  minutes" appear as steps that may happen.

## Not modelled

* Presence sensor: a polled pin with a retrigger interval, in one sequential loop
  that shares no state; the wake message it sends is Screen's `Touch`.
* Admin sessions and login limits: one dictionary each, read and written within
  single handlers; the repository's unit tests reach them.
* Performance history and metrics: sampling and numeric retention that no other
  component depends on.
* Admin GUI and panel controls: presentation; where they write a config they are
  an operator of ConfigSync.
* Home Assistant's entities and coordinator: a client that polls the admin API
  and calls its actions.
* The SD-card drop-in, the shell scripts and the Bluetooth installer: text and
  commands run once on a panel; what they change in its enrolment is
  `RunBootstrap`, what they leave to systemd is a unit Scanner may find.
* The network scan: requests without state.
* ESPHome prototype, add-on packaging: outside the server and the agent.

## Plan

1. Screen with IdlePower over one page mode, with reloads of the page: waking by
   touch restores the CPU, and a page that hangs and is restarted by `Watchdog`
   comes back lit.
2. Enrollment with PushChannel: which device a slot belongs to when the record
   changes hands, including sockets accepted before it was claimed.
3. ConfigSync with templates and two keys: which updates may be lost.
4. ConfigSync with Dali and Scanner: a config that is saved reaches the gateway
   and the unit.
5. Proofs: an abstract specification of the config's way to the panel, which
   `ConfigSync` refines; action properties of `ConfigSync` (the disk never goes
   back while one task runs) and of `Enrollment` (a mark is lost only for a
   reason).
