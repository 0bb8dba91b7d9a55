-------------------------- MODULE ConfigSync_proofs --------------------------
(***************************************************************************)
(* The safety properties of ConfigSync for every set of contents, any      *)
(* number of versions and any number of removals.                          *)
(***************************************************************************)
EXTENDS ConfigSync, TLAPS

(* A config the agent holds is what the server saved under that number, as *)
(* long as the record it came from stands.                                 *)
Matches(c) ==
    /\ c.record <= record
    /\ c.ver > 0 /\ c.record = record => c.ver <= Latest /\ c.data = configs[c.ver]

(* SameRecordSameConfig is not inductive: a task may hold an answer from   *)
(* before a removal, and must not be able to pass it off as the new        *)
(* record's.                                                               *)
HeldMatches ==
    /\ Matches(disk)
    /\ \A t \in Tasks : got[t] # None => Matches(got[t].cfg)

(* What is served to a claimed panel is a version that was saved.          *)
ClaimedIsConfigured == row = "claimed" => configs # <<>>

IInv == TypeOK /\ HeldMatches /\ ClaimedIsConfigured

-----------------------------------------------------------------------------
USE ConfigSyncAssumption, NoneFetchedAssumption

(* Saving moves no version: it adds one after the last.                    *)
LEMMA SaveAppends ==
    ASSUME TypeOK, NEW d \in Data, Save(d)
    PROVE  /\ configs' \in Seq(Data) /\ configs' # <<>>
           /\ Latest' = Latest + 1 /\ Latest' <= MaxVersion
           /\ \A v \in 1..Latest : configs'[v] = configs[v]
<1>1. Len(configs) < MaxVersion /\ configs' = Append(configs, d) /\ configs \in Seq(Data)
  BY DEF Save, Latest, TypeOK
<1>2. Len(configs') = Len(configs) + 1 /\ configs' \in Seq(Data)
  BY <1>1
<1>3. \A v \in 1..Len(configs) : configs'[v] = configs[v]
  BY <1>1
<1>4. configs' # <<>>
  BY <1>2, <1>1
<1>5. Len(configs) \in Nat
  BY <1>1
<1>. QED BY <1>1, <1>2, <1>3, <1>4, <1>5 DEF Latest

(* So what matched goes on matching.                                       *)
LEMMA SaveKeepsMatches ==
    ASSUME TypeOK, NEW d \in Data, Save(d), UNCHANGED record,
           NEW c \in Config \cup {Blank}, Matches(c)
    PROVE  Matches(c)'
<1>1. c.ver \in Nat /\ Latest \in Nat
  BY DEF Config, Blank, Version, TypeOK, Latest
<1>2. CASE c.ver > 0 /\ c.record = record
  <2>1. c.ver \in 1..Latest /\ c.data = configs[c.ver]
    BY <1>1, <1>2 DEF Matches
  <2>2. c.data = configs'[c.ver] /\ c.ver <= Latest'
    BY <1>1, <2>1, SaveAppends
  <2>. QED BY <2>2 DEF Matches
<1>3. CASE ~(c.ver > 0 /\ c.record = record)
  BY <1>3 DEF Matches
<1>. QED BY <1>2, <1>3

LEMMA ServedMatches ==
    ASSUME TypeOK, ClaimedIsConfigured, row = "claimed"
    PROVE  Served \in Config /\ Matches(Served)
<1>1. configs \in Seq(Data) /\ configs # <<>> /\ Len(configs) \in Nat /\ Len(configs) <= MaxVersion
  BY DEF TypeOK, ClaimedIsConfigured
<1>2. Len(configs) \in 1..MaxVersion
  BY <1>1
<1>3. configs[Len(configs)] \in Data
  BY <1>1, <1>2
<1>4. Served = [ver |-> Len(configs), data |-> configs[Len(configs)], record |-> record]
  BY <1>1 DEF Served, Latest, Effective
<1>5. record \in 0..MaxRecord
  BY DEF TypeOK
<1>. QED BY <1>1, <1>2, <1>3, <1>4, <1>5 DEF Config, Version, Matches, Latest

-----------------------------------------------------------------------------
LEMMA IInvInit == Init => IInv
<1>. SUFFICES ASSUME Init PROVE IInv
  OBVIOUS
<1>1. /\ row \in {"absent", "claimed"} /\ (row = "claimed" => configs # <<>>)
      /\ configs \in Seq(Data) /\ Len(configs) \in {0, 1}
  <2>1. CASE row = "absent" /\ configs = <<>>
    BY <2>1
  <2>2. CASE row = "claimed" /\ configs \in {<<d>> : d \in Data}
    <3>1. PICK d \in Data : configs = <<d>>
      BY <2>2
    <3>. QED BY <2>2, <3>1
  <2>. QED BY <2>1, <2>2 DEF Init
<1>2. 0 \in 0..MaxRecord /\ Len(configs) <= MaxVersion
  <2>1. MaxVersion \in Nat /\ MaxVersion >= 1 /\ MaxRecord \in Nat
    OBVIOUS
  <2>2. 0 \in 0..MaxRecord
    BY <2>1
  <2>. QED BY <1>1, <2>1, <2>2
<1>3. TypeOK
  <2>1. /\ record = 0 /\ put = FALSE /\ disk = Blank /\ cached = {} /\ phase = "off"
        /\ got = [t \in Tasks |-> None] /\ force = FALSE /\ calm = FALSE
    BY DEF Init
  <2>. QED BY <1>1, <1>2, <2>1 DEF TypeOK
<1>4. HeldMatches
  BY DEF Init, HeldMatches, Matches, Blank
<1>. QED BY <1>1, <1>3, <1>4 DEF IInv, ClaimedIsConfigured

LEMMA IInvStep == IInv /\ [Next]_vars => IInv'
<1>. SUFFICES ASSUME IInv, [Next]_vars PROVE IInv'
  OBVIOUS
<1>. USE DEF serverVars, agentVars
<1>t. \A t \in Tasks : got[t] # None => got[t] \in Fetched /\ got[t].cfg \in Config
  BY DEF IInv, TypeOK, Fetched
<1>s. ASSUME NEW d \in Data, Save(d), UNCHANGED <<record, agentVars, calm>>,
             row' \in {"absent", "unclaimed", "claimed"}, put' \in BOOLEAN
      PROVE  IInv'
  <2>1. TypeOK'
    BY <1>s, SaveAppends DEF IInv, TypeOK, Latest
  <2>2. Matches(disk)'
    <3>1. Matches(disk) /\ disk \in Config \cup {Blank}
      BY DEF IInv, HeldMatches, TypeOK
    <3>. QED BY <1>s, <3>1, SaveKeepsMatches DEF IInv, Matches, Latest
  <2>3. ASSUME NEW t \in Tasks, got'[t] # None PROVE Matches(got[t].cfg)'
    <3>1. got' = got /\ Matches(got[t].cfg) /\ got[t].cfg \in Config
      BY <1>s, <1>t, <2>3 DEF IInv, HeldMatches
    <3>. QED BY <1>s, <3>1, SaveKeepsMatches DEF IInv, Matches, Latest
  <2>4. ClaimedIsConfigured'
    BY <1>s, SaveAppends DEF IInv, ClaimedIsConfigured
  <2>. QED BY <2>1, <2>2, <2>3, <2>4 DEF IInv, HeldMatches
<1>1. ASSUME NEW d \in Data, Edit(d) \/ PutEnd(d) \/ Claim(d) PROVE IInv'
  BY <1>1, <1>s DEF Edit, PutEnd, Claim, IInv, TypeOK
<1>2. ASSUME NEW v \in Version, Rollback(v) PROVE IInv'
  <2>1. configs[v] \in Data
    BY <1>2 DEF Rollback, IInv, TypeOK, Latest
  <2>. QED BY <1>2, <2>1, <1>s DEF Rollback, IInv, TypeOK
<1>3. CASE PutBegin \/ PutRejected \/ ForceSync \/ PushLost \/ PowerOff \/ Start \/ Settle
  <2>1. UNCHANGED <<configs, record, disk, row>> /\ \A t \in Tasks : got'[t] \in {got[t], None}
    BY <1>3 DEF PutBegin, PutRejected, ForceSync, PushLost, PowerOff, Start, Settle, IInv, TypeOK
  <2>2. TypeOK'
    BY <1>3 DEF PutBegin, PutRejected, ForceSync, PushLost, PowerOff, Start, Settle, IInv, TypeOK
  <2>. QED BY <2>1, <2>2 DEF IInv, HeldMatches, ClaimedIsConfigured, Matches, Latest
<1>4. CASE RewriteCard
  <2>1. TypeOK'
    BY <1>4 DEF RewriteCard, IInv, TypeOK
  <2>2. Matches(Blank)'
    BY <1>4 DEF RewriteCard, IInv, TypeOK, Matches, Blank
  <2>. QED BY <1>4, <2>1, <2>2 DEF RewriteCard, IInv, HeldMatches, ClaimedIsConfigured, Matches, Latest
<1>5. CASE Register
  <2>1. TypeOK'
    BY <1>5 DEF Register, IInv, TypeOK
  <2>. QED BY <1>5, <2>1 DEF Register, IInv, HeldMatches, ClaimedIsConfigured, Matches, Latest
<1>6. CASE Remove
  <2>1. TypeOK'
    BY <1>6 DEF Remove, IInv, TypeOK
  <2>2. ASSUME NEW c \in Config \cup {Blank}, Matches(c) PROVE Matches(c)'
    <3>1. c.record \in Nat /\ record \in Nat /\ record' = record + 1 /\ c.record <= record
      BY <1>6, <2>2 DEF Remove, IInv, TypeOK, Config, Blank, Matches
    <3>. QED BY <3>1 DEF Matches
  <2>3. disk' = disk /\ got' = got
    BY <1>6 DEF Remove
  <2>4. Matches(disk)'
    <3>1. Matches(disk) /\ disk \in Config \cup {Blank}
      BY DEF IInv, HeldMatches, TypeOK
    <3>. QED BY <3>1, <2>2, <2>3 DEF Matches, Latest
  <2>5. ASSUME NEW t \in Tasks, got'[t] # None PROVE Matches(got[t].cfg)'
    <3>1. Matches(got[t].cfg) /\ got[t].cfg \in Config
      BY <1>t, <2>3, <2>5 DEF IInv, HeldMatches
    <3>. QED BY <3>1, <2>2, <2>3 DEF Matches, Latest
  <2>6. ClaimedIsConfigured'
    BY <1>6 DEF Remove, ClaimedIsConfigured
  <2>. QED BY <2>1, <2>4, <2>5, <2>6 DEF IInv, HeldMatches
<1>7. ASSUME NEW t \in Tasks, NEW f \in BOOLEAN, Fetch(t, f) PROVE IInv'
  <2>1. CASE row # "claimed"
    <3>1. TypeOK' /\ UNCHANGED <<configs, record, disk, row>>
          /\ \A u \in Tasks : got'[u] \in {got[u], None}
      BY <1>7, <2>1 DEF Fetch, Done, IInv, TypeOK
    <3>. QED BY <3>1 DEF IInv, HeldMatches, ClaimedIsConfigured, Matches, Latest
  <2>2. CASE row = "claimed"
    <3>1. Served \in Config /\ Matches(Served)
      BY <2>2, ServedMatches DEF IInv
    <3>2. got' = [got EXCEPT ![t] = [cfg |-> Served, force |-> f, tried |-> FALSE]]
          /\ UNCHANGED <<configs, record, disk, row>>
      BY <1>7, <2>2 DEF Fetch
    <3>3. [cfg |-> Served, force |-> f, tried |-> FALSE] \in Fetched
      BY <3>1 DEF Fetched
    <3>4. TypeOK'
      BY <1>7, <2>2, <3>2, <3>3 DEF Fetch, IInv, TypeOK
    <3>5. ASSUME NEW u \in Tasks, got'[u] # None PROVE Matches(got'[u].cfg)
      BY <3>1, <3>2, <3>5 DEF IInv, TypeOK, HeldMatches
    <3>. QED BY <3>2, <3>4, <3>5 DEF IInv, HeldMatches, ClaimedIsConfigured, Matches, Latest
  <2>. QED BY <2>1, <2>2
<1>8. ASSUME NEW t \in Tasks, Download(t) \/ DownloadFails(t) PROVE IInv'
  <2>1. got[t] \in Fetched
    BY <1>8, <1>t DEF Download, DownloadFails
  <2>2. got' = [got EXCEPT ![t].tried = TRUE] /\ UNCHANGED <<configs, record, disk, row>>
    BY <1>8 DEF Download, DownloadFails
  <2>3. got' \in [Tasks -> Fetched \cup {None}] /\ got'[t].cfg = got[t].cfg
        /\ \A u \in Tasks \ {t} : got'[u] = got[u]
    BY <2>1, <2>2 DEF IInv, TypeOK, Fetched
  <2>4. cached' \subseteq Pictured
    BY <1>8 DEF Download, DownloadFails, ImageDue, IInv, TypeOK
  <2>5. TypeOK'
    BY <1>8, <2>3, <2>4 DEF Download, DownloadFails, IInv, TypeOK
  <2>6. ASSUME NEW u \in Tasks, got'[u] # None PROVE Matches(got'[u].cfg)
    BY <2>1, <2>3, <2>6 DEF IInv, HeldMatches
  <2>. QED BY <2>2, <2>5, <2>6 DEF IInv, HeldMatches, ClaimedIsConfigured, Matches, Latest
<1>9. ASSUME NEW t \in Tasks, Decide(t) \/ SyncFails(t) PROVE IInv'
  <2>1. UNCHANGED <<configs, record, row>> /\ \A u \in Tasks : got'[u] \in {got[u], None}
    BY <1>9 DEF Decide, SyncFails, Done, IInv, TypeOK
  <2>2. disk' = disk \/ (got[t] # None /\ disk' = got[t].cfg)
    BY <1>9 DEF Decide, SyncFails
  <2>3. disk' \in Config \cup {Blank} /\ Matches(disk')
    BY <1>t, <2>2 DEF IInv, TypeOK, HeldMatches
  <2>4. TypeOK'
    BY <1>9, <2>3 DEF Decide, SyncFails, Done, IInv, TypeOK
  <2>. QED BY <2>1, <2>3, <2>4 DEF IInv, HeldMatches, ClaimedIsConfigured, Matches, Latest
<1>10. CASE UNCHANGED vars
  BY <1>10 DEF vars, IInv, TypeOK, HeldMatches, ClaimedIsConfigured, Matches, Latest
<1>. QED BY <1>1, <1>2, <1>3, <1>4, <1>5, <1>6, <1>7, <1>8, <1>9, <1>10
         DEF Next, Task, Operator, Mishap

LEMMA Invariance == Spec => []IInv
  BY IInvInit, IInvStep, PTL DEF Spec

-----------------------------------------------------------------------------
(* Every variable has its type: in particular what is written to the disk  *)
(* always carries the number of a saved version.                           *)
THEOREM ConfigTypes == Spec => []TypeOK
<1>1. IInv => TypeOK
  BY DEF IInv
<1>. QED BY <1>1, Invariance, PTL

(* A version number means one content for as long as the record stands.    *)
THEOREM VersionsAreStable == Spec => []SameRecordSameConfig
<1>1. IInv => SameRecordSameConfig
  BY DEF IInv, HeldMatches, Matches, SameRecordSameConfig
<1>. QED BY <1>1, Invariance, PTL

-----------------------------------------------------------------------------
(* The calm.  The tasks whose sync holds an answer that the server has     *)
(* replaced since.                                                         *)
Outdated == {t \in Tasks : got[t] # None /\ got[t].cfg # Served}

LEMMA CalmStep ==
    ASSUME IInv, calm, row = "claimed", [Next]_vars
    PROVE  /\ calm' /\ row' = "claimed" /\ Served' = Served /\ Latest' = Latest
           /\ \A t \in Tasks : got'[t] # None =>
                 \/ got'[t].cfg = Served
                 \/ got[t] # None /\ got'[t].cfg = got[t].cfg
           /\ \/ disk' = disk
              \/ \E t \in Tasks : got[t] # None /\ disk' = got[t].cfg /\ got'[t] = None
<1>0. got \in [Tasks -> Fetched \cup {None}]
  BY DEF IInv, TypeOK
<1>. DEFINE Still == calm' /\ UNCHANGED <<row, configs, record>>
<1>a. Still => row' = "claimed" /\ Served' = Served /\ Latest' = Latest
  BY DEF Served, Latest, Effective
<1>1. CASE Register \/ Settle \/ UNCHANGED vars
  <2>1. Still /\ got' = got /\ disk' = disk
    BY <1>1 DEF Register, Settle, vars, serverVars, agentVars
  <2>. QED BY <1>a, <2>1
<1>2. ASSUME NEW t \in Tasks, NEW f \in BOOLEAN, Fetch(t, f) PROVE Still /\ disk' = disk
  BY <1>2 DEF Fetch, serverVars
<1>3. ASSUME NEW t \in Tasks, NEW f \in BOOLEAN, Fetch(t, f), NEW u \in Tasks, got'[u] # None
      PROVE  got'[u].cfg = Served \/ got'[u] = got[u]
  BY <1>0, <1>3 DEF Fetch
<1>4. ASSUME NEW t \in Tasks, Download(t)
      PROVE  /\ Still /\ disk' = disk
             /\ \A u \in Tasks : got'[u] # None => got[u] # None /\ got'[u].cfg = got[u].cfg
  <2>1. got[t] # None /\ got' = [got EXCEPT ![t].tried = TRUE]
    BY <1>4 DEF Download
  <2>2. got[t] \in Fetched
    BY <1>0, <2>1
  <2>3. got'[t].cfg = got[t].cfg /\ \A u \in Tasks \ {t} : got'[u] = got[u]
    BY <1>0, <2>1, <2>2 DEF Fetched
  <2>. QED BY <1>4, <2>1, <2>3 DEF Download, serverVars
<1>5. ASSUME NEW t \in Tasks, Decide(t)
      PROVE  /\ Still /\ got[t] # None /\ disk' \in {disk, got[t].cfg}
             /\ got' = [got EXCEPT ![t] = None]
  BY <1>5 DEF Decide, Done, serverVars
<1>6. ASSUME NEW t \in Tasks, Decide(t), NEW u \in Tasks
      PROVE  got'[u] \in {None, got[u]} /\ got'[t] = None
  BY <1>0, <1>5, <1>6
<1>7. CASE \E t \in Tasks : Task(t)
  <2>1. PICK t \in Tasks : Task(t)
    BY <1>7
  <2>2. CASE \E f \in BOOLEAN : Fetch(t, f)
    BY <1>a, <1>2, <1>3, <2>2
  <2>3. CASE Download(t)
    BY <1>a, <1>4, <2>3
  <2>4. CASE Decide(t)
    BY <1>a, <1>5, <1>6, <2>4
  <2>. QED BY <2>1, <2>2, <2>3, <2>4 DEF Task
<1>. QED BY <1>1, <1>7 DEF Next

(* Each task sets the panel back at most once more: in the calm no sync    *)
(* begins with an outdated answer, and one that writes such an answer over *)
(* the served config is rid of it.                                         *)
THEOREM SetBackOnce ==
    Spec => [][calm /\ row = "claimed" =>
                 /\ Outdated' \subseteq Outdated
                 /\ disk = Served /\ disk' # Served' => Outdated' # Outdated]_vars
<1>1. ASSUME IInv, calm, row = "claimed", [Next]_vars
      PROVE  /\ Outdated' \subseteq Outdated
             /\ disk = Served /\ disk' # Served' => Outdated' # Outdated
  <2>1. Outdated' \subseteq Outdated
    BY <1>1, CalmStep DEF Outdated
  <2>2. ASSUME disk = Served, disk' # Served' PROVE Outdated' # Outdated
    <3>1. PICK t \in Tasks : got[t] # None /\ disk' = got[t].cfg /\ got'[t] = None
      BY <1>1, <2>2, CalmStep
    <3>2. t \in Outdated /\ t \notin Outdated'
      BY <1>1, <2>2, <3>1, CalmStep DEF Outdated
    <3>. QED BY <3>2
  <2>. QED BY <2>1, <2>2
<1>2. IInv /\ [Next]_vars =>
          [calm /\ row = "claimed" =>
             /\ Outdated' \subseteq Outdated
             /\ disk = Served /\ disk' # Served' => Outdated' # Outdated]_vars
  BY <1>1
<1>. QED BY <1>2, Invariance, PTL DEF Spec

(* A panel that has what is served, with no outdated answer on its way,    *)
(* has it for good: what ForceSyncCures comes to.                          *)
InStep == calm /\ row = "claimed" /\ disk = Served /\ Outdated = {}

THEOREM ServedIsKept ==
    Spec => [](InStep => [](disk = Served /\ disk.data = Effective))
<1>1. IInv /\ InStep /\ [Next]_vars => InStep'
  <2>. SUFFICES ASSUME IInv, InStep, [Next]_vars PROVE InStep'
    OBVIOUS
  <2>1. calm' /\ row' = "claimed" /\ Served' = Served /\ Outdated' = {}
    BY CalmStep DEF InStep, Outdated
  <2>2. disk' = Served
    BY CalmStep DEF InStep, Outdated
  <2>. QED BY <2>1, <2>2 DEF InStep
<1>2. InStep => disk = Served /\ disk.data = Effective
  BY DEF InStep, Served
<1>. QED BY <1>1, <1>2, Invariance, PTL DEF Spec

(* What Converges comes to: a panel that has the number of what is served, *)
(* with no answer of another number on its way, has it for good, and has   *)
(* the content too if its config is of the record that stands.             *)
NumberInStep ==
    /\ calm /\ row = "claimed" /\ disk.ver = Latest
    /\ \A t \in Tasks : got[t] # None => got[t].cfg.ver = Latest

THEOREM NumberIsKept == Spec => [](NumberInStep => []Current)
<1>1. IInv /\ NumberInStep /\ [Next]_vars => NumberInStep'
  <2>. SUFFICES ASSUME IInv, NumberInStep, [Next]_vars PROVE NumberInStep'
    OBVIOUS
  <2>1. calm' /\ row' = "claimed" /\ Latest' = Latest
    BY CalmStep DEF NumberInStep
  <2>2. disk'.ver = Latest
    BY CalmStep DEF NumberInStep
  <2>3. ASSUME NEW t \in Tasks, got'[t] # None PROVE got'[t].cfg.ver = Latest
    BY <2>3, CalmStep DEF NumberInStep, Served
  <2>. QED BY <2>1, <2>2, <2>3 DEF NumberInStep
<1>2. IInv /\ NumberInStep => Current
  <2>. SUFFICES ASSUME IInv, NumberInStep, disk.record = record PROVE disk = Served
    BY DEF NumberInStep, Current
  <2>1. configs # <<>> /\ configs \in Seq(Data)
    BY DEF IInv, ClaimedIsConfigured, NumberInStep, TypeOK
  <2>2. Latest > 0 /\ Effective = configs[Latest]
    BY <2>1 DEF Latest, Effective
  <2>3. disk.data = Effective
    BY <2>2 DEF IInv, HeldMatches, Matches, NumberInStep
  <2>4. disk \in Config \cup {Blank}
    BY DEF IInv, TypeOK
  <2>5. disk = [ver |-> disk.ver, data |-> disk.data, record |-> disk.record]
    BY <2>4 DEF Config, Blank
  <2>. QED BY <2>3, <2>5 DEF Served, NumberInStep
<1>. QED BY <1>1, <1>2, Invariance, PTL DEF Spec
=============================================================================
