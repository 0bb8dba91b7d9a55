-------------------------- MODULE Enrollment_proofs --------------------------
(***************************************************************************)
(* The safety properties of Enrollment for every set of panels and         *)
(* devices, every limit and any number of cards and stray requests.        *)
(***************************************************************************)
EXTENDS Enrollment, FiniteSetTheorems, TLAPS

(* Requests under way carry the secrets of the card that sent them.        *)
StraysAreOwn ==
    \A r \in stray : /\ r.token = CardSecret(r.from)
                     /\ r.key \in {None, r.token}

(* The server holds a secret of an earlier card of d.                      *)
Stale(d, p) == token[p] # None /\ token[p].dev = d /\ token[p] # CardSecret(d)

(* NeverLocksItselfOut is not inductive: what keeps a stale token harmless *)
(* is that its device has not been told yet, or is no longer, that panel.  *)
StaleIsElsewhere ==
    \A d \in Devices, p \in Panels :
        Stale(d, p) => script[d] # p /\ (phase[d] = "blank" \/ pid[d] # p)

OffRunsNoScript == \A d \in Devices : phase[d] = "off" => script[d] = None

IInv == TypeOK /\ OnePair /\ UnclaimedBounded /\ StraysAreOwn
        /\ StaleIsElsewhere /\ OffRunsNoScript

-----------------------------------------------------------------------------
USE EnrollmentAssumption, NoneAssumption, RequestAssumption

(* What one handled registration does to the two secret columns.           *)
LEMMA RegisterSecrets ==
    ASSUME TypeOK, NEW r \in Request, NEW s, Register(r, s)
    PROVE  \/ UNCHANGED <<token, skey>>
           \/ /\ token[r.id] = None /\ r.token # None /\ r.key # None
              /\ token' = [token EXCEPT ![r.id] = r.token]
              /\ skey' = [skey EXCEPT ![r.id] = r.key]
<1>1. CASE s # "claimed"
  BY <1>1 DEF Register
<1>2. CASE s = "claimed"
  <2>1. token[r.id] = None /\ r.token # None /\ r.key # None
    BY <1>2 DEF Register, RegisterStatus, Mismatch
  <2>. QED BY <1>2, <2>1 DEF Register, RecordSecrets
<1>. QED BY <1>1, <1>2

LEMMA RegisterTypes ==
    ASSUME TypeOK, NEW r \in Request, NEW s, Register(r, s)
    PROVE  /\ known' \subseteq Panels /\ claimed' \subseteq Panels
           /\ invite' \subseteq Panels /\ refused' \subseteq Panels
           /\ token' \in [Panels -> Secret \cup {None}]
           /\ skey' \in [Panels -> Secret \cup {None}]
<1>1. r.id \in Panels /\ {r.token, r.key} \subseteq Secret \cup {None}
  BY DEF Request
<1>2. token' \in [Panels -> Secret \cup {None}] /\ skey' \in [Panels -> Secret \cup {None}]
  BY <1>1, RegisterSecrets DEF TypeOK
<1>3. known' \subseteq Panels /\ claimed' \subseteq Panels /\ invite' \subseteq Panels
  BY <1>1 DEF Register, TypeOK
<1>4. refused' \subseteq Panels
  BY <1>1 DEF Register, RefusedAfter, TypeOK
<1>. QED BY <1>2, <1>3, <1>4

(* A row is only added where there is room for one more unclaimed.         *)
LEMMA RegisterBounded ==
    ASSUME TypeOK, UnclaimedBounded, NEW r \in Request, NEW s, Register(r, s)
    PROVE  UnclaimedBounded'
<1>1. IsFiniteSet(Unclaimed) /\ Cardinality(Unclaimed) \in Nat
  BY FS_Subset, FS_CardinalityType DEF Unclaimed, TypeOK
<1>2. CASE r.id \in known \/ known' = known \/ r.id \in claimed
  <2>1. Unclaimed' = Unclaimed
    BY <1>2 DEF Register, Unclaimed
  <2>. QED BY <2>1 DEF UnclaimedBounded
<1>3. CASE r.id \notin known /\ known' # known /\ r.id \notin claimed
  <2>1. ~Full(r)
    BY <1>3 DEF Register, RegisterStatus
  <2>2. Cardinality(Unclaimed) < UnclaimedMax
    BY <1>1, <1>3, <2>1 DEF Full
  <2>3. Unclaimed' = Unclaimed \cup {r.id}
    BY <1>3 DEF Register, Unclaimed
  <2>4. Cardinality(Unclaimed') = Cardinality(Unclaimed) + 1
    BY <1>1, <1>3, <2>3, FS_AddElement DEF Unclaimed
  <2>. QED BY <1>1, <2>2, <2>4 DEF UnclaimedBounded
<1>. QED BY <1>2, <1>3

LEMMA RequestType ==
    ASSUME TypeOK, NEW d \in Devices
    PROVE  RegisterRequest(d) \in Request
  BY DEF TypeOK, RegisterRequest, Request, CardSecret, Secret

-----------------------------------------------------------------------------
(* Type correctness.                                                       *)

LEMMA TypeInit == Init => TypeOK
<1>1. 0 \in 0..MaxCards
  OBVIOUS
<1>. QED BY <1>1 DEF Init, TypeOK, Phase

LEMMA TypeStep == TypeOK /\ [Next]_vars => TypeOK'
<1>. SUFFICES ASSUME TypeOK, [Next]_vars PROVE TypeOK'
  OBVIOUS
<1>. USE DEF serverVars, deviceVars
<1>1. ASSUME NEW d \in Devices, AskRegister(d) PROVE TypeOK'
  <2>1. PICK s \in RegisterStatuses : Register(RegisterRequest(d), s) /\ Answer(d, s)
    BY <1>1 DEF AskRegister
  <2>. QED BY <1>1, <2>1, RequestType, RegisterTypes DEF TypeOK, AskRegister, Answer
<1>2. ASSUME NEW d \in Devices,
             RegisterAnswered(d) \/ AskHeartbeat(d) \/ HeartbeatAnswered(d)
      PROVE  TypeOK'
  BY <1>2 DEF TypeOK, RegisterAnswered, AskHeartbeat, HeartbeatAnswered, MarkAfter,
              Answer, RegisterStatuses, Phase
<1>3. ASSUME NEW p \in Panels, Operator(p) PROVE TypeOK'
  <2>1. CASE \E d \in Devices : FetchBootstrap(d, p)
    BY <2>1 DEF TypeOK, FetchBootstrap, ForgetSecrets, RecordSecrets
  <2>2. CASE Provision(p) \/ Reprovision(p) \/ ClaimForRoom(p) \/ ResetToken(p) \/ Remove(p)
    BY <2>2 DEF TypeOK, Provision, Reprovision, ClaimForRoom, ResetToken, Remove,
                ForgetSecrets, RecordSecrets
  <2>. QED BY <1>3, <2>1, <2>2 DEF Operator
<1>4. ASSUME NEW d \in Devices, Mishap(d) PROVE TypeOK'
  <2>1. CASE RegisterFails(d)
    BY <2>1, RequestType DEF TypeOK, RegisterFails, Answer, Phase
  <2>2. CASE RewriteCard(d)
    <3>1. card[d] + 1 \in 0..MaxCards
      BY <2>2 DEF RewriteCard, TypeOK
    <3>. QED BY <2>2, <3>1 DEF TypeOK, RewriteCard, Phase
  <2>3. CASE RunBootstrap(d) \/ PowerOff(d) \/ Start(d)
    BY <2>3 DEF TypeOK, RunBootstrap, PowerOff, Start, Answer, Phase
  <2>. QED BY <1>4, <2>1, <2>2, <2>3 DEF Mishap
<1>5. ASSUME ServerRestart \/ Settle PROVE TypeOK'
  BY <1>5 DEF TypeOK, ServerRestart, Settle
<1>6. ASSUME ServeStray PROVE TypeOK'
  <2>1. PICK r \in stray : (\E s \in RegisterStatuses : Register(r, s)) /\ stray' = stray \ {r}
    BY <1>6 DEF ServeStray
  <2>2. r \in Request
    BY <2>1 DEF TypeOK
  <2>. QED BY <1>6, <2>1, <2>2, RegisterTypes DEF TypeOK, ServeStray
<1>7. CASE UNCHANGED vars
  BY <1>7 DEF TypeOK, vars
<1>. QED BY <1>1, <1>2, <1>3, <1>4, <1>5, <1>6, <1>7 DEF Next, Agent

(* Every variable keeps its type whatever the panels, devices and limits.  *)
THEOREM TypeCorrect == Spec => []TypeOK
  BY TypeInit, TypeStep, PTL DEF Spec

-----------------------------------------------------------------------------
(* The inductive invariant.                                                *)

(* Requests being asked carry the asking card's own secrets.               *)
LEMMA RequestIsOwn ==
    ASSUME TypeOK, NEW d \in Devices
    PROVE  /\ RegisterRequest(d) \in Request
           /\ RegisterRequest(d).from = d
           /\ RegisterRequest(d).token = CardSecret(d)
           /\ RegisterRequest(d).key \in {None, CardSecret(d)}
  BY RequestType DEF RegisterRequest

LEMMA CardSecretOwner ==
    ASSUME NEW d \in Devices, CardSecret(d) # None
    PROVE  CardSecret(d).dev = d
  BY DEF CardSecret

(* A registration with a card's own secrets keeps the pairs whole and makes *)
(* nothing stale.                                                          *)
LEMMA RegisterKeeps ==
    ASSUME TypeOK, OnePair, StaleIsElsewhere,
           NEW r \in Request, NEW s, Register(r, s), UNCHANGED deviceVars \/
             \E d \in Devices : Answer(d, s) /\ UNCHANGED <<pid, card, mark, phase, script>>,
           r.token = CardSecret(r.from), r.key \in {None, r.token}
    PROVE  OnePair' /\ StaleIsElsewhere'
<1>1. UNCHANGED <<pid, card, phase, script>>
  BY DEF deviceVars
<1>2. CASE UNCHANGED <<token, skey>>
  BY <1>1, <1>2 DEF OnePair, StaleIsElsewhere, Stale, CardSecret
<1>3. CASE /\ token[r.id] = None /\ r.token # None /\ r.key # None
           /\ token' = [token EXCEPT ![r.id] = r.token]
           /\ skey' = [skey EXCEPT ![r.id] = r.key]
  <2>1. OnePair'
    BY <1>3 DEF OnePair, TypeOK
  <2>2. r.token.dev = r.from /\ r.from \in Devices /\ r.id \in Panels
    BY <1>3, CardSecretOwner DEF Request
  <2>3. ASSUME NEW d \in Devices, NEW p \in Panels, Stale(d, p)'
        PROVE  Stale(d, p)
    <3>1. p # r.id
      BY <1>1, <1>3, <2>2, <2>3 DEF Stale, CardSecret, TypeOK
    <3>. QED BY <1>1, <1>3, <2>3, <3>1 DEF Stale, CardSecret, TypeOK
  <2>. QED BY <1>1, <2>1, <2>3 DEF StaleIsElsewhere
<1>. QED BY <1>2, <1>3, RegisterSecrets

(* Freeing a record keeps the pairs whole and makes nothing stale.         *)
LEMMA ForgetKeeps ==
    ASSUME TypeOK, OnePair, NEW p \in Panels, ForgetSecrets(p), UNCHANGED card
    PROVE  /\ OnePair'
           /\ token'[p] = None
           /\ \A d \in Devices, q \in Panels : Stale(d, q)' => Stale(d, q)
  BY DEF TypeOK, OnePair, ForgetSecrets, RecordSecrets, Stale, CardSecret

LEMMA InvInit == Init => IInv
<1>. SUFFICES ASSUME Init PROVE IInv
  OBVIOUS
<1>1. UnclaimedBounded
  <2>1. Unclaimed = {}
    BY DEF Init, Unclaimed
  <2>. QED BY <2>1, FS_EmptySet DEF UnclaimedBounded
<1>. QED BY <1>1, TypeInit
         DEF Init, IInv, OnePair, StraysAreOwn, StaleIsElsewhere, Stale, OffRunsNoScript

(* Two-state facts about the steps that change no server column.           *)
LEMMA ServerColumnsKept ==
    ASSUME OnePair, UnclaimedBounded, UNCHANGED <<known, claimed, token, skey>>
    PROVE  OnePair' /\ UnclaimedBounded'
  BY DEF OnePair, UnclaimedBounded, Unclaimed

LEMMA InvStep == IInv /\ [Next]_vars => IInv'
<1>. SUFFICES ASSUME IInv, [Next]_vars PROVE IInv'
  OBVIOUS
<1>. USE DEF serverVars, deviceVars
<1>0. TypeOK' /\ TypeOK
  BY TypeStep DEF IInv
<1>1. ASSUME NEW d \in Devices, AskRegister(d) PROVE IInv'
  <2>1. PICK s \in RegisterStatuses : Register(RegisterRequest(d), s) /\ Answer(d, s)
    BY <1>1 DEF AskRegister
  <2>2. OnePair' /\ StaleIsElsewhere'
    BY <1>0, <1>1, <2>1, RequestIsOwn, RegisterKeeps DEF AskRegister, IInv
  <2>3. UnclaimedBounded'
    BY <1>0, <2>1, RequestIsOwn, RegisterBounded DEF IInv
  <2>4. StraysAreOwn' /\ OffRunsNoScript'
    BY <1>1 DEF AskRegister, IInv, StraysAreOwn, CardSecret, OffRunsNoScript
  <2>. QED BY <1>0, <2>2, <2>3, <2>4 DEF IInv
<1>2. ASSUME NEW d \in Devices,
             RegisterAnswered(d) \/ AskHeartbeat(d) \/ HeartbeatAnswered(d)
      PROVE  IInv'
  <2>1. UNCHANGED <<serverVars, pid, card, script, stray>>
    BY <1>2 DEF RegisterAnswered, AskHeartbeat, HeartbeatAnswered
  <2>2. \A e \in Devices : phase'[e] # phase[e] => phase[e] \in Running /\ phase'[e] \in Running
    BY <1>0, <1>2 DEF TypeOK, RegisterAnswered, AskHeartbeat, HeartbeatAnswered, Running
  <2>3. StaleIsElsewhere' /\ OffRunsNoScript'
    BY <2>1, <2>2 DEF IInv, StaleIsElsewhere, Stale, CardSecret, OffRunsNoScript, Running
  <2>4. StraysAreOwn'
    BY <2>1 DEF IInv, StraysAreOwn, CardSecret
  <2>. QED BY <1>0, <2>1, <2>3, <2>4, ServerColumnsKept DEF IInv
<1>3. ASSUME NEW p \in Panels, Operator(p) PROVE IInv'
  <2>0. UNCHANGED <<pid, card, phase, stray>>
    BY <1>3 DEF Operator, Provision, Reprovision, ClaimForRoom, ResetToken, Remove,
                FetchBootstrap
  <2>1. StraysAreOwn'
    BY <2>0 DEF IInv, StraysAreOwn, CardSecret
  <2>2. IsFiniteSet(Unclaimed) /\ Unclaimed' \subseteq Unclaimed
    <3>1. Unclaimed' \subseteq Unclaimed
      BY <1>3 DEF Unclaimed, Operator, Provision, Reprovision, ClaimForRoom, ResetToken,
                  Remove, FetchBootstrap
    <3>2. Unclaimed \subseteq Panels
      BY <1>0 DEF Unclaimed, TypeOK
    <3>. QED BY <3>1, <3>2, FS_Subset
  <2>3. UnclaimedBounded'
    <3>1. /\ Cardinality(Unclaimed') <= Cardinality(Unclaimed)
          /\ Cardinality(Unclaimed') \in Nat /\ Cardinality(Unclaimed) \in Nat
      BY <2>2, FS_Subset, FS_CardinalityType
    <3>. QED BY <3>1 DEF IInv, UnclaimedBounded
  <2>4. CASE \E d \in Devices : FetchBootstrap(d, p)
    <3>1. PICK d \in Devices : FetchBootstrap(d, p)
      BY <2>4
    <3>2. OnePair' /\ token'[p] = None
          /\ \A e \in Devices, q \in Panels : Stale(e, q)' => Stale(e, q)
      BY <1>0, <2>0, <3>1, ForgetKeeps DEF IInv, FetchBootstrap
    <3>3. \A e \in Devices : script'[e] # script[e] => script'[e] = p /\ phase[e] # "off"
      BY <1>0, <3>1 DEF FetchBootstrap, TypeOK
    <3>4. StaleIsElsewhere' /\ OffRunsNoScript'
      <4>1. \A e \in Devices : ~Stale(e, p)'
        BY <3>2 DEF Stale
      <4>2. StaleIsElsewhere'
        BY <2>0, <3>2, <3>3, <4>1 DEF IInv, StaleIsElsewhere
      <4>3. OffRunsNoScript'
        BY <2>0, <3>3 DEF IInv, OffRunsNoScript
      <4>. QED BY <4>2, <4>3
    <3>. QED BY <1>0, <2>1, <2>3, <3>2, <3>4 DEF IInv
  <2>5. CASE ResetToken(p) \/ Remove(p)
    <3>1. OnePair' /\ \A e \in Devices, q \in Panels : Stale(e, q)' => Stale(e, q)
      BY <1>0, <2>0, <2>5, ForgetKeeps DEF IInv, ResetToken, Remove
    <3>2. script' = script
      BY <2>5 DEF ResetToken, Remove
    <3>. QED BY <1>0, <2>0, <2>1, <2>3, <3>1, <3>2 DEF IInv, StaleIsElsewhere, OffRunsNoScript
  <2>6. CASE Provision(p) \/ Reprovision(p) \/ ClaimForRoom(p)
    <3>1. UNCHANGED <<token, skey, script>>
      BY <2>6 DEF Provision, Reprovision, ClaimForRoom
    <3>. QED BY <1>0, <2>0, <2>1, <2>3, <3>1
             DEF IInv, OnePair, StaleIsElsewhere, Stale, CardSecret, OffRunsNoScript
  <2>. QED BY <1>3, <2>4, <2>5, <2>6 DEF Operator
<1>4. ASSUME NEW d \in Devices, Mishap(d) PROVE IInv'
  <2>0. OnePair' /\ UnclaimedBounded'
    BY <1>4, ServerColumnsKept
       DEF IInv, Mishap, RegisterFails, RunBootstrap, PowerOff, Start, RewriteCard
  <2>1. CASE RegisterFails(d)
    <3>1. UNCHANGED <<token, pid, card, script>>
      BY <2>1 DEF RegisterFails
    <3>2. \A e \in Devices : phase'[e] # phase[e] => phase[e] \in Running /\ phase'[e] \in Running
      BY <1>0, <2>1 DEF TypeOK, RegisterFails, Running
    <3>3. \A r \in stray' : r \in stray \/ r = RegisterRequest(d)
      BY <2>1 DEF RegisterFails
    <3>4. \A r \in stray' : r.token = CardSecret(r.from) /\ r.key \in {None, r.token}
      BY <1>0, <3>3, RequestIsOwn DEF IInv, StraysAreOwn
    <3>5. StraysAreOwn'
      BY <3>1, <3>4 DEF StraysAreOwn, CardSecret
    <3>. QED BY <1>0, <2>0, <3>1, <3>2, <3>5
             DEF IInv, StaleIsElsewhere, Stale, CardSecret, OffRunsNoScript, Running
  <2>2. CASE RunBootstrap(d)
    <3>1. UNCHANGED <<token, card, stray>>
      BY <2>2 DEF RunBootstrap
    <3>2. /\ script[d] # None
          /\ pid' = [pid EXCEPT ![d] = script[d]]
          /\ script' = [script EXCEPT ![d] = None]
          /\ phase' = [phase EXCEPT ![d] = "boot"]
      BY <2>2 DEF RunBootstrap
    <3>3. StaleIsElsewhere' /\ OffRunsNoScript'
      BY <1>0, <3>1, <3>2 DEF IInv, StaleIsElsewhere, Stale, CardSecret, OffRunsNoScript, TypeOK
    <3>4. StraysAreOwn'
      BY <3>1 DEF IInv, StraysAreOwn, CardSecret
    <3>. QED BY <1>0, <2>0, <3>3, <3>4 DEF IInv
  <2>3. CASE PowerOff(d) \/ Start(d)
    <3>1. UNCHANGED <<token, pid, card, stray>>
      BY <2>3 DEF PowerOff, Start
    <3>2. StaleIsElsewhere' /\ OffRunsNoScript'
      BY <1>0, <2>3, <3>1
         DEF IInv, StaleIsElsewhere, Stale, CardSecret, OffRunsNoScript, TypeOK,
             PowerOff, Start, Running
    <3>3. StraysAreOwn'
      BY <3>1 DEF IInv, StraysAreOwn, CardSecret
    <3>. QED BY <1>0, <2>0, <3>2, <3>3 DEF IInv
  <2>4. CASE RewriteCard(d)
    <3>1. /\ UNCHANGED <<token, pid, script>>
          /\ phase[d] = "off" /\ phase' = [phase EXCEPT ![d] = "blank"]
          /\ card' = [card EXCEPT ![d] = @ + 1]
          /\ stray' = {r \in stray : r.from # d}
      BY <2>4 DEF RewriteCard
    <3>2. \A e \in Devices \ {d} : CardSecret(e)' = CardSecret(e)
      BY <1>0, <3>1 DEF TypeOK, CardSecret
    <3>3. StraysAreOwn'
      BY <1>0, <3>1, <3>2 DEF IInv, StraysAreOwn, TypeOK, Request
    <3>4. script[d] = None
      BY <3>1 DEF IInv, OffRunsNoScript
    <3>5. StaleIsElsewhere'
      <4>1. ASSUME NEW q \in Panels
            PROVE  script'[d] # q /\ phase'[d] = "blank"
        BY <1>0, <3>1, <3>4, <4>1 DEF TypeOK
      <4>2. ASSUME NEW e \in Devices \ {d}, NEW q \in Panels, Stale(e, q)'
            PROVE  script'[e] # q /\ (phase'[e] = "blank" \/ pid'[e] # q)
        <5>1. Stale(e, q)
          BY <3>1, <3>2, <4>2 DEF Stale
        <5>. QED BY <1>0, <3>1, <5>1 DEF IInv, StaleIsElsewhere, TypeOK
      <4>. QED BY <4>1, <4>2 DEF StaleIsElsewhere
    <3>6. OffRunsNoScript'
      BY <1>0, <3>1 DEF IInv, OffRunsNoScript, TypeOK
    <3>. QED BY <1>0, <2>0, <3>3, <3>5, <3>6 DEF IInv
  <2>. QED BY <1>4, <2>1, <2>2, <2>3, <2>4 DEF Mishap
<1>5. ASSUME ServerRestart \/ Settle PROVE IInv'
  BY <1>0, <1>5 DEF IInv, ServerRestart, Settle, OnePair, UnclaimedBounded, Unclaimed,
                    StraysAreOwn, CardSecret, StaleIsElsewhere, Stale, OffRunsNoScript
<1>6. ASSUME ServeStray PROVE IInv'
  <2>1. PICK r \in stray, s \in RegisterStatuses : Register(r, s) /\ stray' = stray \ {r}
    BY <1>6 DEF ServeStray
  <2>2. r \in Request /\ r.token = CardSecret(r.from) /\ r.key \in {None, r.token}
    BY <2>1 DEF IInv, TypeOK, StraysAreOwn
  <2>3. OnePair' /\ StaleIsElsewhere'
    BY <1>0, <1>6, <2>1, <2>2, RegisterKeeps DEF IInv, ServeStray
  <2>4. UnclaimedBounded'
    BY <1>0, <2>1, <2>2, RegisterBounded DEF IInv
  <2>5. StraysAreOwn' /\ OffRunsNoScript'
    BY <1>6, <2>1 DEF IInv, ServeStray, StraysAreOwn, CardSecret, OffRunsNoScript
  <2>. QED BY <1>0, <2>3, <2>4, <2>5 DEF IInv
<1>7. CASE UNCHANGED vars
  BY <1>0, <1>7 DEF IInv, vars, OnePair, UnclaimedBounded, Unclaimed,
                    StraysAreOwn, CardSecret, StaleIsElsewhere, Stale, OffRunsNoScript
<1>. QED BY <1>1, <1>2, <1>3, <1>4, <1>5, <1>6, <1>7 DEF Next, Agent

LEMMA Inductive == Spec => []IInv
  BY InvInit, InvStep, PTL DEF Spec

-----------------------------------------------------------------------------
(* What follows from it.                                                   *)

(* The server signs with the key of the card whose token it holds.         *)
THEOREM PairsStayTogether == Spec => []OnePair
<1>1. IInv => OnePair
  BY DEF IInv
<1>. QED BY <1>1, Inductive, PTL

(* The limit on unclaimed rows holds over every sequence of registrations, *)
(* removals, claims and reinstalls.                                        *)
THEOREM UnclaimedLimitHolds == Spec => []UnclaimedBounded
<1>1. IInv => UnclaimedBounded
  BY DEF IInv
<1>. QED BY <1>1, Inductive, PTL

(* A running device is never refused because of its own earlier card.      *)
THEOREM ReinstallReopensClaim == Spec => []NeverLocksItselfOut
<1>1. IInv => NeverLocksItselfOut
  <2>. SUFFICES ASSUME IInv, NEW d \in Devices, phase[d] \in Running,
                       Stale(d, pid[d])
                PROVE  FALSE
    BY DEF NeverLocksItselfOut, Stale
  <2>1. pid[d] \in Panels
    BY DEF IInv, TypeOK
  <2>2. phase[d] = "blank"
    BY <2>1 DEF IInv, StaleIsElsewhere
  <2>. QED BY <2>2 DEF Running
<1>. QED BY <1>1, Inductive, PTL

-----------------------------------------------------------------------------
(* Enrollment implements Ownership.                                        *)

Held == [p \in Panels |-> [token |-> token[p], key |-> skey[p]]]

LEMMA PromiseInit == Init => Promise!Init
  BY DEF Init, Promise!Init, Promise!Unheld

(* A handled registration takes a free record or leaves the holders alone. *)
LEMMA RegisterPromise ==
    ASSUME IInv, NEW r \in Request, NEW s, Register(r, s), r.key \in {None, r.token}
    PROVE  Promise!Next \/ UNCHANGED Held
<1>0. TypeOK /\ OnePair /\ r.id \in Panels /\ r.token \in Secret \cup {None}
  BY DEF IInv, Request
<1>1. CASE UNCHANGED <<token, skey>>
  BY <1>1 DEF Held
<1>2. CASE /\ token[r.id] = None /\ r.token # None /\ r.key # None
           /\ token' = [token EXCEPT ![r.id] = r.token]
           /\ skey' = [skey EXCEPT ![r.id] = r.key]
  <2>1. Promise!Take(r.id, r.token)
    BY <1>0, <1>2 DEF Promise!Take, Promise!Unheld, OnePair, TypeOK
  <2>. QED BY <1>0, <1>2, <2>1 DEF Promise!Next
<1>. QED BY <1>0, <1>1, <1>2, RegisterSecrets

LEMMA PromiseStep == IInv /\ [Next]_vars => [Promise!Next]_Held
<1>. SUFFICES ASSUME IInv, [Next]_vars PROVE Promise!Next \/ UNCHANGED Held
  OBVIOUS
<1>. USE DEF serverVars, deviceVars
<1>0. TypeOK
  BY DEF IInv
<1>1. ASSUME NEW d \in Devices, AskRegister(d) PROVE Promise!Next \/ UNCHANGED Held
  <2>1. PICK s \in RegisterStatuses : Register(RegisterRequest(d), s)
    BY <1>1 DEF AskRegister
  <2>. QED BY <1>0, <2>1, RequestIsOwn, RegisterPromise
<1>2. ASSUME ServeStray PROVE Promise!Next \/ UNCHANGED Held
  <2>1. PICK r \in stray, s \in RegisterStatuses : Register(r, s)
    BY <1>2 DEF ServeStray
  <2>. QED BY <1>0, <2>1, RegisterPromise DEF IInv, TypeOK, StraysAreOwn
<1>3. ASSUME NEW p \in Panels, ForgetSecrets(p) PROVE Promise!Next
  <2>1. Promise!Release(p)
    BY <1>0, <1>3 DEF ForgetSecrets, RecordSecrets, TypeOK, Promise!Release, Promise!Unheld
  <2>. QED BY <2>1 DEF Promise!Next
<1>4. ASSUME NEW p \in Panels, Operator(p) PROVE Promise!Next \/ UNCHANGED Held
  BY <1>3, <1>4 DEF Held, Operator, Provision, Reprovision, ClaimForRoom, ResetToken, Remove,
                    FetchBootstrap
<1>5. CASE UNCHANGED <<token, skey>>
  BY <1>5 DEF Held
<1>6. ASSUME NEW d \in Devices,
             RegisterAnswered(d) \/ AskHeartbeat(d) \/ HeartbeatAnswered(d) \/ Mishap(d)
      PROVE  UNCHANGED <<token, skey>>
  BY <1>6 DEF RegisterAnswered, AskHeartbeat, HeartbeatAnswered, Mishap, RegisterFails,
              RunBootstrap, PowerOff, Start, RewriteCard
<1>7. ASSUME ServerRestart \/ Settle \/ UNCHANGED vars PROVE UNCHANGED <<token, skey>>
  BY <1>7 DEF ServerRestart, Settle, vars
<1>. QED BY <1>1, <1>2, <1>4, <1>5, <1>6, <1>7 DEF Next, Agent

(* Trust on first use: every step of enrolment takes a free record whole,  *)
(* frees one, or leaves the holders alone.                                 *)
THEOREM Refinement == Spec => TrustOnFirstUse
<1>1. Init => Promise!Init
  BY PromiseInit
<1>2. IInv /\ [Next]_vars => [Promise!Next]_Held
  BY PromiseStep
<1>. QED BY <1>1, <1>2, Inductive, PTL DEF Spec, TrustOnFirstUse, Promise!Spec, Held

-----------------------------------------------------------------------------
(* The calm.  d's panel is known, holds the secrets of the card in d, and  *)
(* d is past its register loop, with no answer on its way that says that   *)
(* the server has forgotten them.                                          *)
Admitted(d) ==
    /\ calm /\ pid[d] \in known
    /\ CardSecret(d) # None /\ token[pid[d]] = CardSecret(d)
    /\ phase[d] = "up" /\ answer[d] # "none"

(* No registration takes away a record that is held, or removes one.       *)
LEMMA RegisterTakesNothing ==
    ASSUME TypeOK, NEW r \in Request, NEW s, Register(r, s),
           NEW p \in Panels, token[p] # None
    PROVE  token'[p] = token[p] /\ known \subseteq known'
<1>1. known \subseteq known'
  BY DEF Register
<1>2. CASE UNCHANGED <<token, skey>>
  BY <1>1, <1>2
<1>3. CASE token[r.id] = None /\ token' = [token EXCEPT ![r.id] = r.token]
  BY <1>1, <1>3 DEF TypeOK
<1>. QED BY <1>2, <1>3, RegisterSecrets

LEMMA AdmittedStep ==
    ASSUME NEW d \in Devices, TypeOK, Admitted(d), [Next]_vars
    PROVE  Admitted(d)'
<1>. USE DEF TypeOK, Admitted, Answer
<1>1. ASSUME NEW e \in Devices, AskRegister(e) PROVE Admitted(d)'
  <2>1. PICK s \in RegisterStatuses : Register(RegisterRequest(e), s) /\ Answer(e, s)
    BY <1>1 DEF AskRegister
  <2>2. token'[pid[d]] = token[pid[d]] /\ known \subseteq known'
    BY <2>1, RequestIsOwn, RegisterTakesNothing
  <2>3. UNCHANGED <<pid, card, phase, calm>> /\ e # d
    BY <1>1 DEF AskRegister
  <2>4. answer'[d] = answer[d]
    BY <2>1, <2>3
  <2>. QED BY <2>2, <2>3, <2>4 DEF CardSecret
<1>2. ASSUME NEW e \in Devices, RegisterAnswered(e) \/ HeartbeatAnswered(e)
      PROVE  Admitted(d)'
  <2>1. UNCHANGED <<serverVars, pid, card, calm>> /\ e # d
    BY <1>2 DEF RegisterAnswered, HeartbeatAnswered
  <2>2. answer'[d] = answer[d] /\ phase'[d] = phase[d]
    BY <1>2, <2>1 DEF RegisterAnswered, HeartbeatAnswered
  <2>. QED BY <2>1, <2>2 DEF CardSecret, serverVars
<1>3. ASSUME NEW e \in Devices, AskHeartbeat(e) PROVE Admitted(d)'
  <2>1. UNCHANGED <<serverVars, pid, card, phase, calm>>
    BY <1>3 DEF AskHeartbeat
  <2>2. answer'[d] = answer[d]
    BY <1>3 DEF AskHeartbeat
  <2>. QED BY <2>1, <2>2 DEF CardSecret, serverVars
<1>4. CASE Settle \/ UNCHANGED vars
  BY <1>4 DEF Settle, vars, serverVars, deviceVars, CardSecret
<1>. QED BY <1>1, <1>2, <1>3, <1>4 DEF Next, Agent

(* A panel that got in stays in, whatever other devices, with the same id  *)
(* too, go on asking: what Secured leads to is not lost again, and no      *)
(* heartbeat sends the panel back to claim what it holds.                  *)
THEOREM AdmittedLasts ==
    ASSUME NEW d \in Devices
    PROVE  Spec => [](Admitted(d) => []Admitted(d))
<1>1. TypeOK /\ Admitted(d) /\ [Next]_vars => Admitted(d)'
  BY AdmittedStep
<1>. QED BY <1>1, TypeCorrect, PTL DEF Spec
=============================================================================
