------------------------- MODULE PushChannel_proofs -------------------------
(***************************************************************************)
(* The safety properties of PushChannel for any number of connections and  *)
(* any receive buffer.                                                     *)
(***************************************************************************)
EXTENDS PushChannel, TLAPS

(* The two invariants hold each other up: an older handler finds the slot  *)
(* taken because the newest connection took it, and that one is served.    *)
IInv == TypeOK /\ LiveIsServed /\ NewestHoldsSlot

-----------------------------------------------------------------------------
USE PushChannelAssumption DEF serverVars, agentVars

LEMMA EmptyBuffer == <<>> \in Seq(Messages) /\ Len(<<>>) <= MaxInbox
  OBVIOUS

LEMMA IInvInit == Init => IInv
<1>1. {} \subseteq Sockets
  OBVIOUS
<1>. QED BY <1>1, EmptyBuffer DEF Init, IInv, TypeOK, LiveIsServed, NewestHoldsSlot

(* Remove and reset token leave nothing in the slot.                       *)
LEMMA CloseLiveKeeps ==
    ASSUME IInv, CloseLive
    PROVE  /\ live' = None /\ served' \subseteq Sockets
           /\ conn' \in {conn, None}
  BY DEF CloseLive, IInv, TypeOK

LEMMA IInvStep == IInv /\ [Next]_vars => IInv'
<1>. SUFFICES ASSUME IInv, [Next]_vars PROVE IInv'
  OBVIOUS
<1>. USE DEF IInv, LiveIsServed, NewestHoldsSlot
<1>1. ASSUME NEW s \in Sockets, Connect(s) PROVE IInv'
  <2>1. <<Hello>> \in Seq(Messages) /\ Len(<<Hello>>) = 1
    OBVIOUS
  <2>. QED BY <1>1, <2>1 DEF Connect, SlotAfterConnect, TypeOK
<1>2. ASSUME NEW s \in Sockets, HandlerEnds(s) PROVE IInv'
  BY <1>2 DEF HandlerEnds, SlotAfterHandler, TypeOK
<1>3. ASSUME NEW s \in Sockets, SendFails(s) PROVE IInv'
  BY <1>3 DEF SendFails, TypeOK
<1>4. CASE Disconnected \/ PowerOff
  BY <1>4, EmptyBuffer DEF Disconnected, PowerOff, TypeOK
<1>5. CASE Read
  <2>1. inbox' \in Seq(Messages) /\ Len(inbox') <= MaxInbox /\ up
    BY <1>5 DEF Read, TypeOK
  <2>. QED BY <1>5, <2>1 DEF Read, TypeOK
<1>6. ASSUME NEW m \in Messages, Notify(m) PROVE IInv'
  <2>1. CASE Arrives(m)
    <3>1. inbox' \in Seq(Messages) /\ Len(inbox') <= MaxInbox /\ up
      BY <2>1 DEF Arrives, Through, TypeOK
    <3>. QED BY <1>6, <2>1, <3>1 DEF Notify, Arrives, TypeOK
  <2>2. CASE Unsent \/ Swallowed \/ Waits
    BY <1>6, <2>2 DEF Notify, Unsent, Swallowed, Waits, TypeOK
  <2>. QED BY <1>6, <2>1, <2>2 DEF Notify
<1>7. CASE ResetToken \/ Remove
  <2>1. CloseLive
    BY <1>7 DEF ResetToken, Remove
  <2>. QED BY <1>7, <2>1, CloseLiveKeeps DEF ResetToken, Remove, TypeOK
<1>8. CASE Start \/ ServerRestart \/ Settle \/ UNCHANGED vars
  BY <1>8 DEF Start, ServerRestart, Settle, vars, TypeOK
<1>. QED BY <1>1, <1>2, <1>3, <1>4, <1>5, <1>6, <1>7, <1>8
         DEF Next, Connects, Notices, Raises, Drops, Pushes

LEMMA Invariance == Spec => []IInv
  BY IInvInit, IInvStep, PTL DEF Spec

-----------------------------------------------------------------------------
(* Every variable has its type, and an agent that is off holds nothing.    *)
THEOREM ChannelTypes == Spec => []TypeOK
<1>1. IInv => TypeOK
  BY DEF IInv
<1>. QED BY <1>1, Invariance, PTL

(* What is in the slot is still read by the server.                        *)
THEOREM SlotIsServed == Spec => []LiveIsServed
<1>1. IInv => LiveIsServed
  BY DEF IInv
<1>. QED BY <1>1, Invariance, PTL

(* No older connection of the panel holds the slot of its newest.          *)
THEOREM SlotIsNewest == Spec => []NewestHoldsSlot
<1>1. IInv => NewestHoldsSlot
  BY DEF IInv
<1>. QED BY <1>1, Invariance, PTL

(* The panel loses the slot only with its connection or to a failing send. *)
THEOREM SlotIsKept == Spec => SlotOutlivesOldHandlers
<1>. DEFINE Kept == Through /\ live' # live =>
                      conn' # conn \/ conn' \notin served' \/ sending' # sending
<1>1. IInv /\ [Next]_vars => [Kept]_vars
  <2>. SUFFICES ASSUME IInv, Next, Through, live' # live,
                       conn' = conn, conn' \in served'
                PROVE  sending' # sending
    OBVIOUS
  <2>1. ASSUME NEW s \in Sockets, Connect(s) PROVE FALSE
    BY <2>1 DEF Connect, IInv, TypeOK
  <2>2. ASSUME NEW s \in Sockets, HandlerEnds(s) PROVE FALSE
    BY <2>2 DEF HandlerEnds, SlotAfterHandler, Through
  <2>3. ASSUME NEW s \in Sockets, SendFails(s) PROVE sending' # sending
    BY <2>3 DEF SendFails
  <2>4. ~(ResetToken \/ Remove)
    BY DEF ResetToken, Remove, CloseLive, Through
  <2>5. ~ServerRestart
    BY DEF ServerRestart
  <2>6. ~(Disconnected \/ PowerOff \/ Read \/ Start \/ Settle)
        /\ \A m \in Messages : ~Notify(m)
    BY DEF Disconnected, PowerOff, Read, Notify, Start, Settle
  <2>. QED BY <2>1, <2>2, <2>3, <2>4, <2>5, <2>6
           DEF Next, Connects, Notices, Raises, Drops, Pushes
<1>. QED BY <1>1, Invariance, PTL DEF Spec, SlotOutlivesOldHandlers

-----------------------------------------------------------------------------
(* The calm.  What the slot can still be lost to is a send that has waited *)
(* since before.                                                           *)
LEMMA CalmStep ==
    ASSUME IInv, calm, [Next]_vars
    PROVE  /\ calm' /\ sending' \subseteq sending
           /\ Through /\ sending' = sending => Through'
<1>. USE DEF IInv, TypeOK
<1>1. ASSUME NEW s \in Sockets, Connect(s)
      PROVE  calm' /\ sending' = sending /\ ~Through
  BY <1>1 DEF Connect, Through
<1>2. ASSUME NEW s \in Sockets, Broken(s), HandlerEnds(s)
      PROVE  calm' /\ sending' = sending /\ (Through => Through')
  BY <1>2 DEF HandlerEnds, SlotAfterHandler, Broken, Through
<1>3. ASSUME NEW s \in Sockets, SendFails(s)
      PROVE  calm' /\ sending' \subseteq sending /\ sending' # sending
  BY <1>3 DEF SendFails
<1>4. CASE Drops
  BY <1>4 DEF Drops, Disconnected, Broken, Through
<1>5. ASSUME NEW m \in Messages, Reaches, Notify(m)
      PROVE  calm' /\ sending' = sending /\ (Through => Through')
  BY <1>5 DEF Reaches, Notify, Unsent, Arrives, Swallowed, Waits, Through
<1>6. CASE Read \/ Settle \/ UNCHANGED vars
  BY <1>6 DEF Read, Settle, vars, Through
<1>. QED BY <1>1, <1>2, <1>3, <1>4, <1>5, <1>6
         DEF Next, Connects, Notices, Raises, Pushes

(* In the calm no send begins to wait, and a connection that reaches the   *)
(* panel loses its slot at most once to each that waits already: to its    *)
(* exception, which clears the slot whoever has it.                        *)
THEOREM OneLossPerWaitingSend ==
    Spec => [][calm => /\ sending' \subseteq sending
                       /\ Through /\ ~Through' => sending' # sending]_vars
<1>1. IInv /\ [Next]_vars =>
          [calm => /\ sending' \subseteq sending
                   /\ Through /\ ~Through' => sending' # sending]_vars
  BY CalmStep
<1>. QED BY <1>1, Invariance, PTL DEF Spec

(* So one that reaches it while none waits does so for good, which is what *)
(* Reconnects comes to.                                                    *)
THEOREM ReachLasts == Spec => [](calm /\ Through /\ sending = {} => []Through)
<1>. DEFINE Reached == calm /\ Through /\ sending = {}
<1>1. IInv /\ Reached /\ [Next]_vars => Reached'
  BY CalmStep
<1>2. Reached => Through
  OBVIOUS
<1>. HIDE DEF Reached
<1>3. Spec => [](Reached => []Through)
  BY <1>1, <1>2, Invariance, PTL DEF Spec
<1>. QED BY <1>3 DEF Reached
=============================================================================
