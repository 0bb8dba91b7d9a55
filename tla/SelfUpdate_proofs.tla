-------------------------- MODULE SelfUpdate_proofs --------------------------
(***************************************************************************)
(* The safety properties of SelfUpdate for every set of builds: type       *)
(* correctness and NeverBroken for any number of checking tasks, and       *)
(* FallsBackToProven and what can strand a panel for one.                  *)
(***************************************************************************)
EXTENDS SelfUpdate, TLAPS

(* What is copied back is there, and compiles.                             *)
Inv == /\ TypeOK /\ NeverBroken
       /\ prev \notin Broken /\ (at = "copy" => prev # None)

(* With one checking task nothing replaces the file a process was started  *)
(* from but that task's own install, and it has registered by then.        *)
Steady ==
    /\ at \in {"confirm", "register", "loops"} =>
          target = run \/ \E t \in Tasks : check[t] = Rest
    /\ at = "loops" => run \in proven
    /\ at # "loops" => check = NoChecks

(* FallsBackToProven is not inductive: the copy is made before the marker, *)
(* and used after it is gone.                                              *)
FallbackReady ==
    /\ \A t \in Tasks : check[t] = Rest => prev \in proven
    /\ at \in {"copy", "forget"} => prev \in proven
    /\ at \in {"forget", "unmark"} => target \in proven
    /\ at \in {"confirm", "copy", "forget", "unmark"} => pending

IInv == Inv /\ Steady /\ FallbackReady /\ FallsBackToProven

-----------------------------------------------------------------------------
USE SelfUpdateAssumption
    DEF Builds, Torn, Idle, Rest, NoChecks, cardVars, processVars, serverVars

LEMMA InvInit == Init => Inv
  BY DEF Init, Inv, TypeOK, NeverBroken

LEMMA InvStep == Inv /\ [Next]_vars => Inv'
<1>. SUFFICES ASSUME Inv, [Next]_vars PROVE Inv'
  OBVIOUS
<1>. USE DEF Inv, TypeOK, NeverBroken, Exit
<1>1. CASE Start \/ Confirm \/ Register
  BY <1>1 DEF Start, Confirm, Register, Registers
<1>2. CASE GiveUp \/ CopyBack \/ Forget \/ Unmark
  <2>1. CASE CopyBack
    BY <2>1 DEF CopyBack
  <2>. QED BY <1>2, <2>1 DEF GiveUp, Forget, Unmark
<1>3. ASSUME NEW t \in Tasks, CheckManifest(t) \/ DownloadFails(t) PROVE Inv'
  BY <1>3 DEF CheckManifest, DownloadFails
<1>4. ASSUME NEW t \in Tasks, Install(t) PROVE Inv'
  BY <1>4 DEF Install, Refuses, Fallback
<1>5. ASSUME NEW t \in Tasks, Finish(t) \/ MarkerFails(t) PROVE Inv'
  BY <1>5 DEF Finish, MarkerFails
<1>6. CASE Crash \/ ReachabilityChanges \/ Settle \/ UNCHANGED vars
  BY <1>6 DEF Crash, ReachabilityChanges, Settle, vars
<1>7. ASSUME NEW b \in Builds, Publish(b) PROVE Inv'
  BY <1>7 DEF Publish
<1>. QED BY <1>1, <1>2, <1>3, <1>4, <1>5, <1>6, <1>7 DEF Next, Step, GoOn

LEMMA Invariance == Spec => []Inv
  BY InvInit, InvStep, PTL DEF Spec

-----------------------------------------------------------------------------
(* Every variable has its type: what has registered is a good build.       *)
THEOREM UpdateTypes == Spec => []TypeOK
<1>1. Inv => TypeOK
  BY DEF Inv
<1>. QED BY <1>1, Invariance, PTL

(* No build that does not compile is ever in place.                        *)
THEOREM NothingBrokenInPlace == Spec => []NeverBroken
<1>1. Inv => NeverBroken
  BY DEF Inv
<1>. QED BY <1>1, Invariance, PTL

-----------------------------------------------------------------------------
LEMMA IInvInit == Init => IInv
  BY InvInit DEF Init, IInv, Steady, FallbackReady, FallsBackToProven

LEMMA IInvStep ==
    ASSUME NEW ws, Tasks = {ws}
    PROVE  IInv /\ [Next]_vars => IInv'
<1>. SUFFICES ASSUME IInv, [Next]_vars PROVE IInv'
  OBVIOUS
<1>0. Inv' /\ TypeOK
  BY InvStep DEF IInv, Inv
<1>. USE DEF Steady, FallbackReady, FallsBackToProven, Exit
<1>1. CASE Start \/ Confirm \/ Register
  BY <1>0, <1>1 DEF IInv, TypeOK, Start, Confirm, Register, Registers
<1>2. CASE GiveUp \/ CopyBack \/ Forget \/ Unmark
  <2>1. check = NoChecks
    BY <1>2 DEF IInv, GiveUp, CopyBack, Forget, Unmark
  <2>2. CASE GiveUp
    BY <1>0, <2>1, <2>2 DEF IInv, TypeOK, GiveUp
  <2>3. CASE CopyBack \/ Forget \/ Unmark
    BY <1>0, <2>1, <2>3 DEF IInv, TypeOK, CopyBack, Forget, Unmark
  <2>. QED BY <1>2, <2>2, <2>3
<1>3. CASE CheckManifest(ws) \/ DownloadFails(ws)
  BY <1>0, <1>3 DEF IInv, TypeOK, CheckManifest, DownloadFails
<1>4. CASE Install(ws)
  <2>1. target \in proven /\ run \in proven
    BY <1>0, <1>4 DEF IInv, TypeOK, Install
  <2>. QED BY <1>0, <1>4, <2>1 DEF IInv, TypeOK, Install, Fallback
<1>5. CASE Finish(ws) \/ MarkerFails(ws)
  BY <1>0, <1>5 DEF IInv, TypeOK, Finish, MarkerFails
<1>6. CASE Crash \/ ReachabilityChanges \/ Settle \/ UNCHANGED vars
  BY <1>0, <1>6 DEF IInv, TypeOK, Crash, ReachabilityChanges, Settle, vars
<1>7. ASSUME NEW b \in Builds, Publish(b) PROVE IInv'
  BY <1>0, <1>7 DEF IInv, TypeOK, Publish
<1>. QED BY <1>1, <1>2, <1>3, <1>4, <1>5, <1>6, <1>7 DEF Next, Step, GoOn

(* Where one task at a time checks the bundle, the build a new one falls   *)
(* back to has registered before, whatever is published and whenever the   *)
(* power goes.                                                             *)
THEOREM FallbackIsProven ==
    ASSUME NEW ws, Tasks = {ws}
    PROVE  Spec => []FallsBackToProven
<1>1. IInv /\ [Next]_vars => IInv'
  BY IInvStep
<1>2. IInv => FallsBackToProven
  BY DEF IInv
<1>. QED BY IInvInit, <1>1, <1>2, PTL DEF Spec

-----------------------------------------------------------------------------
(* What strands a panel.  The cases in which Sound rests on the fallback   *)
(* are those in which IInv knows the fallback to be proven.                *)
LEMMA Stranding ==
    ASSUME NEW ws, Tasks = {ws}, IInv, [Next]_vars, Sound, ~Sound'
    PROVE  Strands /\ (calm => offered \in Dead)
<1>0. TypeOK /\ Steady /\ FallbackReady /\ FallsBackToProven
  BY DEF IInv, Inv
<1>. USE DEF TypeOK, Steady, FallbackReady, FallsBackToProven, Sound, Exit
<1>1. ~(Start \/ Confirm \/ Register)
  BY <1>0 DEF Start, Confirm, Register, Registers
<1>2. ~(GiveUp \/ CopyBack \/ Forget \/ Unmark)
  <2>1. ~GiveUp
    BY <1>0 DEF GiveUp
  <2>2. ~(CopyBack \/ Forget \/ Unmark)
    BY <1>0 DEF CopyBack, Forget, Unmark
  <2>. QED BY <2>1, <2>2
<1>3. ~(CheckManifest(ws) \/ DownloadFails(ws) \/ Finish(ws))
  BY <1>0 DEF CheckManifest, DownloadFails, Finish
<1>4. Install(ws) => offered \in Dead
  <2>. SUFFICES ASSUME Install(ws) PROVE offered \in Dead
    OBVIOUS
  <2>1. target \in Good
    BY <1>0 DEF Install
  <2>. QED BY <1>0, <2>1 DEF Install, Refuses, Fallback
<1>5. Crash \/ MarkerFails(ws) => Midway
  BY <1>0 DEF Crash, MarkerFails, Midway
<1>6. ~(ReachabilityChanges \/ Settle \/ UNCHANGED vars \/ \E b \in Builds : Publish(b))
  BY DEF ReachabilityChanges, Settle, vars, Publish
<1>. QED BY <1>1, <1>2, <1>3, <1>4, <1>5, <1>6 DEF Next, Step, GoOn, Strands

(* With one task that checks the bundle, a panel is stranded by nothing    *)
(* but a crash midway through an update or its undoing, and a build that   *)
(* dies at once.                                                           *)
THEOREM OnlyByThese ==
    ASSUME NEW ws, Tasks = {ws}
    PROVE  Spec => StrandedOnlyBy
<1>1. IInv /\ [Next]_vars => IInv'
  BY IInvStep
<1>2. IInv /\ [Next]_vars => [Sound /\ ~Sound' => Strands]_vars
  BY Stranding
<1>. QED BY IInvInit, <1>1, <1>2, PTL DEF Spec, StrandedOnlyBy

(* What GetsBack supposes.                                                 *)
Hopeful == calm /\ Sound /\ offered \notin Dead

LEMMA HopefulStep ==
    ASSUME NEW ws, Tasks = {ws}, IInv, Hopeful, [Next]_vars
    PROVE  Hopeful'
<1>1. calm' /\ offered' = offered
  BY DEF Hopeful, Next, Step, GoOn, Start, Confirm, GiveUp, CopyBack, Forget, Unmark,
         Register, CheckManifest, Install, Finish, Settle, vars
<1>. QED BY <1>1, Stranding DEF Hopeful

(* Once nobody interferes, a panel that can get back to the server goes on *)
(* being one that can, however often it installs what it is offered and    *)
(* undoes it: half of what GetsBack says.                                  *)
THEOREM HopeLasts ==
    ASSUME NEW ws, Tasks = {ws}
    PROVE  Spec => [](Hopeful => []Hopeful)
<1>1. IInv /\ [Next]_vars => IInv'
  BY IInvStep
<1>2. IInv /\ Hopeful /\ [Next]_vars => Hopeful'
  BY HopefulStep
<1>. QED BY IInvInit, <1>1, <1>2, PTL DEF Spec

(* What UpdateArrives comes to.                                            *)
Current ==
    /\ calm /\ offered \in Good
    /\ run = offered /\ target = offered /\ at = "loops" /\ check = NoChecks

(* A panel that runs what the server offers goes on running it: it finds   *)
(* nothing more to install.                                                *)
THEOREM CurrentLasts == Spec => [](Current => []Current)
<1>1. Current /\ [Next]_vars => Current'
  <2>. SUFFICES ASSUME Current, [Next]_vars PROVE Current'
    OBVIOUS
  <2>. USE DEF Current
  <2>1. ~(Start \/ Confirm \/ GiveUp \/ CopyBack \/ Forget \/ Unmark \/ Register)
    BY DEF Start, Confirm, GiveUp, CopyBack, Forget, Unmark, Register
  <2>2. ASSUME NEW t \in Tasks PROVE ~(CheckManifest(t) \/ Install(t) \/ Finish(t))
    BY DEF CheckManifest, Install, Finish
  <2>3. CASE GoOn \/ Settle \/ UNCHANGED vars
    BY <2>3 DEF GoOn, Settle, vars
  <2>. QED BY <2>1, <2>2, <2>3 DEF Next, Step
<1>. QED BY <1>1, PTL DEF Spec
=============================================================================
