----------------------------- MODULE PushChannel -----------------------------
(***************************************************************************)
(* The websocket over which the server pushes to one panel: the agent's    *)
(* ws_loop (agent/panel-agent.py), and on the server panel_ws, notify and  *)
(* the slot LIVE[panel_id] they share (server/app/main.py).                *)
(*                                                                         *)
(* The two ends of a connection learn of its loss at different times: the  *)
(* agent may have connected again while the handler of its last socket is  *)
(* still running.  A send to such a socket is swallowed by the kernel, or  *)
(* waits for the close it is in the middle of and then raises.             *)
(***************************************************************************)
EXTENDS Integers, Sequences

CONSTANTS Sockets,   \* connections, one id each
          Messages,  \* what is pushed
          Hello,     \* one that says: compare, there may be something new
          MaxInbox,  \* bound: messages in the agent's receive buffer
          None       \* no socket

ASSUME PushChannelAssumption ==
    MaxInbox \in Nat \ {0} /\ None \notin Sockets /\ Hello \in Messages

VARIABLES
    \* the server
    known,    \* the panel has a row and its token is accepted
    live,     \* LIVE[panel_id]
    served,   \* connections whose panel_ws is running
    sending,  \* connections some notify is waiting on
    \* the agent
    up,       \* its process is running
    conn,     \* the connection ws_loop is in
    inbox,    \* the messages it has yet to read
    \* the surroundings
    calm      \* from here on no operator, crash or loss interferes

serverVars == <<known, live, served, sending>>
agentVars == <<up, conn, inbox>>
vars == <<serverVars, agentVars, calm>>

----------------------------------------------------------------------------
(* Connecting.                                                             *)

SlotAfterConnect_FirstKeeps(s) == IF live = None THEN s ELSE live

(* The slot is last-writer-wins.                                           *)
SlotAfterConnect(s) == s

(* The handshake, and hello.                                               *)
Connect(s) ==
    /\ up /\ conn = None /\ inbox = <<>>
    /\ known
    /\ s \notin served \cup sending
    /\ conn' = s /\ inbox' = <<Hello>>
    /\ served' = served \cup {s}
    /\ live' = SlotAfterConnect(s)
    /\ UNCHANGED <<known, sending, up, calm>>

SlotAfterHandler_Kept(s) == live
SlotAfterHandler_Unconditional(s) == None

(* panel_ws clears the slot on its way out if the slot is still its own.   *)
SlotAfterHandler(s) == IF live = s THEN None ELSE live

(* receive_text raises: the server has noticed that the connection closed. *)
HandlerEnds(s) ==
    /\ s \in served
    /\ served' = served \ {s}
    /\ live' = SlotAfterHandler(s)
    /\ UNCHANGED <<known, sending, agentVars, calm>>

(* ws_loop's heartbeat goes unanswered, or the close arrives.              *)
Disconnected ==
    /\ conn # None
    /\ conn' = None /\ inbox' = <<>>
    /\ UNCHANGED <<serverVars, up, calm>>

Read ==
    /\ inbox # <<>>
    /\ inbox' = Tail(inbox)
    /\ UNCHANGED <<serverVars, up, conn, calm>>

----------------------------------------------------------------------------
(* Pushing.                                                                *)

(* The slot's connection reaches the agent.                                *)
Through == live # None /\ live = conn /\ live \in served

(* What becomes of a message: there is no socket; the panel gets it; it   *)
(* goes into a stale connection unnoticed; or the send waits there.        *)
Unsent     == live = None /\ UNCHANGED <<sending, inbox>>
Arrives(m) == /\ Through /\ Len(inbox) < MaxInbox
              /\ inbox' = Append(inbox, m) /\ UNCHANGED sending
Swallowed  == live # None /\ ~Through /\ UNCHANGED <<sending, inbox>>
Waits ==
    /\ live # None /\ ~Through
    /\ sending' = sending \cup {live} /\ UNCHANGED inbox

Notify(m) ==
    /\ Unsent \/ Arrives(m) \/ Swallowed \/ Waits
    /\ UNCHANGED <<known, live, served, up, conn, calm>>

(* The send raises: notify clears the slot, whoever has it by now.         *)
SendFails(s) ==
    /\ s \in sending
    /\ sending' = sending \ {s}
    /\ live' = None
    /\ UNCHANGED <<known, served, agentVars, calm>>

(* Remove and reset token clear the slot and close what was in it.         *)
CloseLive ==
    /\ live' = None
    /\ IF Through
       THEN conn' = None /\ served' = served \ {live}
       ELSE UNCHANGED <<conn, served>>

ResetToken ==
    /\ known
    /\ CloseLive
    /\ UNCHANGED <<known, sending, up, inbox, calm>>

Remove ==
    /\ known' = FALSE
    /\ CloseLive
    /\ UNCHANGED <<sending, up, inbox, calm>>

----------------------------------------------------------------------------
(* The processes.                                                          *)

(* The agent starts and registers.                                         *)
Start ==
    /\ ~up
    /\ up' = TRUE /\ known' = TRUE
    /\ UNCHANGED <<live, served, sending, conn, inbox, calm>>

PowerOff ==
    /\ up
    /\ up' = FALSE /\ conn' = None /\ inbox' = <<>>
    /\ UNCHANGED <<serverVars, calm>>

ServerRestart ==
    /\ live' = None /\ served' = {} /\ sending' = {}
    /\ UNCHANGED <<known, agentVars, calm>>

(* The hypothesis of the liveness properties, not a step of the system.    *)
Settle ==
    /\ ~calm /\ up
    /\ calm' = TRUE
    /\ UNCHANGED <<serverVars, agentVars>>

----------------------------------------------------------------------------
Init ==
    /\ known = TRUE /\ live = None /\ served = {} /\ sending = {}
    /\ up = FALSE /\ conn = None /\ inbox = <<>>
    /\ calm = FALSE

(* In the calm a connection whose two ends are alive does not break, and   *)
(* nobody pushes into one that has.                                        *)
Broken(s) == s # conn \/ s \notin served

Connects == \E s \in Sockets : Connect(s)
Notices  == \E s \in Sockets : Broken(s) /\ HandlerEnds(s)
Raises   == \E s \in Sockets : SendFails(s)
Drops    == Broken(conn) /\ Disconnected
Reaches  == calm => live = None \/ Through
Pushes   == Reaches /\ \E m \in Messages : Notify(m)

Next ==
    \/ Connects \/ Notices \/ Raises \/ Drops \/ Read \/ Pushes
    \/ /\ ~calm
       /\ \/ ResetToken \/ Remove
          \/ Start \/ PowerOff \/ ServerRestart
          \/ Disconnected \/ \E s \in Sockets : HandlerEnds(s)
    \/ Settle

(* ws_loop retries every 10 s and reads what arrives; both ends ping every *)
(* 20 s; a send on a closing connection waits no longer than the close.    *)
Fairness ==
    /\ WF_vars(Connects) /\ WF_vars(Read) /\ WF_vars(Drops)
    /\ WF_vars(Notices) /\ WF_vars(Raises)

Spec == Init /\ [][Next]_vars /\ Fairness

----------------------------------------------------------------------------
TypeOK ==
    /\ known \in BOOLEAN /\ up \in BOOLEAN /\ calm \in BOOLEAN
    /\ live \in Sockets \cup {None} /\ conn \in Sockets \cup {None}
    /\ served \subseteq Sockets /\ sending \subseteq Sockets
    /\ inbox \in Seq(Messages) /\ Len(inbox) <= MaxInbox
    /\ ~up => conn = None /\ inbox = <<>>

(* Nothing is pushed into a connection whose handler has gone: what the    *)
(* GUI calls live is a connection somebody on the server still reads.      *)
LiveIsServed == live # None => live \in served

(* While the panel's newest connection stands, no older one of its own     *)
(* holds the slot.                                                         *)
NewestHoldsSlot == live # None /\ conn \in served => live = conn

(* The panel loses the slot only with its connection, or to a send that    *)
(* fails: the handler of an older connection never takes it away.          *)
SlotOutlivesOldHandlers ==
    [][Through /\ live' # live =>
          conn' # conn \/ conn' \notin served' \/ sending' # sending]_vars

(* A running panel that is known and lost its connection gets a new one,   *)
(* and with it the slot, if no send is waiting on an older connection.     *)
Reconnects == (calm /\ known /\ conn = None /\ sending = {}) ~> []Through

(* panel_ws: a panel that reconnects after a network blip must be able to  *)
(* replace its own stale socket.                                           *)
ReplacesStaleSocket == (calm /\ known) ~> Through
=============================================================================
