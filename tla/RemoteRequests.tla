--------------------------- MODULE RemoteRequests ---------------------------
(***************************************************************************)
(* Requests that wait for the panel's answer: ssh_access (the keys that    *)
(* may log in) and screen_diagnostics (a picture of the screen), from the  *)
(* two handlers in server/app/main.py to the agent and back, over the      *)
(* connections of PushChannel.                                             *)
(*                                                                         *)
(* The server keeps one pending request of each kind per panel and gives   *)
(* up after 12 or 20 seconds.  The agent reads no further message while it *)
(* carries a request out; its answer may come late, on a connection that   *)
(* has been replaced, or never.  Times are not measured: the server may    *)
(* give up at any moment, and the panel may find a request expired.        *)
(***************************************************************************)
EXTENDS PushChannel

CONSTANT MaxRequests  \* bound: requests made, numbered in order

Requests == 1..MaxRequests
Kinds == {"access", "screen"}
Answered == {"done", "failed"}

ASSUME RemoteRequestsAssumption ==
    /\ MaxRequests \in Nat /\ Messages = {Hello} \cup Requests
    /\ Hello \notin Requests /\ None \notin Requests /\ None \notin Answered

VARIABLES
    \* the server
    keyed,    \* the panel's row has its token and signing key
    asked,    \* how many requests were made
    kind,     \* kind[r]
    status,   \* status[r]: what its handler does, or has answered
    waits,    \* waits[r]: the connection the handler's send waits on
    slot,     \* slot[k]: ACCESS_REQUESTS[panel_id], SCREEN_REQUESTS[panel_id]
    \* between them
    answers,  \* sent by the panel and not yet read by a panel_ws
    \* the agent
    task,     \* what ws_loop is carrying out
    ran       \* requests carried out, in whole or in part

handlerVars == <<asked, kind, status, waits, slot>>
requestVars == <<keyed, handlerVars, answers, task, ran>>
allVars == <<vars, requestVars>>

Idle == [req |-> None, via |-> None, result |-> None]

Open == {r \in Requests : status[r] \in {"sending", "waiting"}}

----------------------------------------------------------------------------
(* The handlers.                                                           *)

(* A handler answers, and its finally gives the slot back.                 *)
Conclude(S, outcome) ==
    /\ status' = [r \in Requests |-> IF r \in S THEN outcome ELSE status[r]]
    /\ waits' = [r \in Requests |-> IF r \in S THEN None ELSE waits[r]]
    /\ slot' = [k \in Kinds |-> IF slot[k] \in S THEN None ELSE slot[k]]

(* One more request of kind k, in the slot unless the answer is immediate. *)
Opens(r, k, state, via) ==
    /\ asked' = r
    /\ kind' = [kind EXCEPT ![r] = k]
    /\ status' = [status EXCEPT ![r] = state]
    /\ waits' = [waits EXCEPT ![r] = via]
    /\ slot' = [slot EXCEPT ![k] = IF state = "unsure" THEN None ELSE r]

(* An access request needs a secured panel that is connected; a request    *)
(* for the screen finds out by sending.                                    *)
Accepted(k) ==
    /\ known /\ slot[k] = None
    /\ k = "access" => keyed /\ live # None

Ask(k) == LET r == asked + 1 IN
    /\ asked < MaxRequests
    /\ Accepted(k)
    /\ \/ Unsent /\ Opens(r, k, "unsure", None)
       \/ (Arrives(r) \/ Swallowed) /\ Opens(r, k, "waiting", None)
       \/ Waits /\ Opens(r, k, "sending", live)
    /\ UNCHANGED <<known, live, served, up, conn, calm, keyed, answers, task, ran>>

TimesOut_KeepsSlot(r) ==
    /\ status[r] = "waiting"
    /\ status' = [status EXCEPT ![r] = "unsure"]
    /\ UNCHANGED <<vars, keyed, asked, kind, waits, slot, answers, task, ran>>

TimesOut_OnlyIfGone(r) ==
    /\ status[r] = "waiting" /\ live = None
    /\ Conclude({r}, "unsure")
    /\ UNCHANGED <<vars, keyed, asked, kind, answers, task, ran>>

(* wait_for gives up; the audit says that the outcome is unknown.          *)
TimesOut(r) ==
    /\ status[r] = "waiting"
    /\ Conclude({r}, "unsure")
    /\ UNCHANGED <<vars, keyed, asked, kind, answers, task, ran>>

(* notify returns False to every request whose send waited there.          *)
SendRaises(s) ==
    /\ SendFails(s)
    /\ Conclude({r \in Open : waits[r] = s}, "unsure")
    /\ UNCHANGED <<keyed, asked, kind, answers, task, ran>>

AnswerFor_AnyNumber(a) ==
    {r \in Open : /\ slot[kind[a.req]] = r
                  /\ kind[r] = "access" => keyed}

(* The pending request an answer is for: the one of its kind, if it has    *)
(* the number; an answer about keys must also be signed with the key the   *)
(* server has.                                                             *)
AnswerFor(a) ==
    {r \in Open : /\ slot[kind[a.req]] = r /\ a.req = r
                  /\ kind[r] = "access" => keyed}

(* panel_ws reads an answer.                                               *)
Receive(a) ==
    /\ a.via \in served
    /\ answers' = answers \ {a}
    /\ Conclude(AnswerFor(a), a.result)
    /\ UNCHANGED <<vars, keyed, asked, kind, task, ran>>

----------------------------------------------------------------------------
(* The agent.                                                              *)

(* ws_loop takes the next message.  A request for the screen the server    *)
(* could not sign is ignored by a panel that has its key.                  *)
Take == LET m == Head(inbox) IN
    /\ task = Idle
    /\ Read
    /\ \/ /\ m \in Requests
          /\ task' = [req |-> m, via |-> conn, result |-> None]
       \/ /\ m \in Requests => kind[m] = "screen"
          /\ UNCHANGED task
    /\ UNCHANGED <<keyed, handlerVars, answers, ran>>

Finished(o) == [req |-> task.req, via |-> task.via, result |-> o]

(* ssh_access runs the helper, send_screen_diagnostics the browser.  The   *)
(* helper may have replaced the keys and fail after that, or be killed for *)
(* its time; a request that expired or was seen before runs nothing.       *)
Execute ==
    /\ task.req # None /\ task.result = None
    /\ \/ /\ ran' = ran \cup {task.req}
          /\ task' = Finished("done")
       \/ /\ ran' \in {ran, ran \cup {task.req}}
          /\ task' = Finished("failed")
    /\ UNCHANGED <<vars, keyed, handlerVars, answers>>

(* The answer goes back on the connection the request came by; sending on  *)
(* a closed one raises and ends ws_loop's turn.                            *)
Reply ==
    /\ task.result # None
    /\ task' = Idle
    /\ answers' = IF task.via # None /\ task.via = conn /\ conn \in served
                  THEN answers \cup {task} ELSE answers
    /\ UNCHANGED <<vars, keyed, handlerVars, ran>>

----------------------------------------------------------------------------
(* The channel's steps, and what they do to requests.                      *)

(* What was on its way to a panel_ws that has ended is lost.               *)
AnswersLost == answers' = {a \in answers : a.via \in served'}

(* ws_loop connects only after it has finished with its last message.      *)
ConnectIdle(s) == task = Idle /\ Connect(s) /\ UNCHANGED requestVars

HandlerGone(s) ==
    /\ HandlerEnds(s) /\ AnswersLost
    /\ UNCHANGED <<keyed, handlerVars, task, ran>>

Push == Notify(Hello) /\ UNCHANGED requestVars

KeyForgotten ==
    /\ ResetToken \/ Remove
    /\ keyed' = FALSE /\ AnswersLost
    /\ UNCHANGED <<handlerVars, task, ran>>

(* A register that presents the key; some cards cannot hold one.           *)
Registers ==
    /\ keyed' \in {keyed, TRUE}
    /\ Start \/ (up /\ known /\ UNCHANGED vars)
    /\ UNCHANGED <<handlerVars, answers, task, ran>>

AgentDies ==
    /\ PowerOff
    /\ task' = Idle
    /\ UNCHANGED <<keyed, handlerVars, answers, ran>>

ServerDies ==
    /\ ServerRestart
    /\ Conclude(Open, "unsure") /\ answers' = {}
    /\ UNCHANGED <<keyed, asked, kind, task, ran>>

----------------------------------------------------------------------------
RequestsInit ==
    /\ Init
    /\ keyed \in BOOLEAN /\ asked = 0
    /\ kind = [r \in Requests |-> None]
    /\ status = [r \in Requests |-> "unasked"]
    /\ waits = [r \in Requests |-> None]
    /\ slot = [k \in Kinds |-> None]
    /\ answers = {} /\ task = Idle /\ ran = {}

Asks     == \E k \in Kinds : Ask(k)
GivesUp  == \E r \in Requests : TimesOut(r)
Fails    == \E s \in Sockets : SendRaises(s)
Reads    == \E a \in answers : Receive(a)
Joins    == \E s \in Sockets : ConnectIdle(s)
Ends     == \E s \in Sockets : HandlerGone(s)
Breaks   == Disconnected /\ UNCHANGED requestVars

RequestsNext ==
    \/ Asks \/ GivesUp \/ Fails \/ Reads
    \/ Take \/ Execute \/ Reply
    \/ Joins \/ Ends \/ Breaks \/ Push
    \/ KeyForgotten \/ Registers \/ AgentDies \/ ServerDies

(* asyncio wakes a handler when its time is up, and a send on a closing    *)
(* connection waits no longer than the close.  Nothing is assumed of the   *)
(* panel.                                                                  *)
RequestsFairness ==
    /\ WF_allVars(GivesUp)
    /\ \A s \in Sockets : WF_allVars(SendRaises(s))

RequestsSpec == RequestsInit /\ [][RequestsNext]_allVars /\ RequestsFairness

----------------------------------------------------------------------------

RequestsTypeOK ==
    /\ TypeOK /\ keyed \in BOOLEAN /\ asked \in 0..MaxRequests
    /\ kind \in [Requests -> Kinds \cup {None}]
    /\ status \in [Requests -> {"unasked", "sending", "waiting", "unsure"} \cup Answered]
    /\ waits \in [Requests -> Sockets \cup {None}]
    /\ slot \in [Kinds -> Requests \cup {None}]
    /\ answers \subseteq [req : Requests, via : served, result : Answered]
    /\ task = Idle \/ task \in [req : Requests, via : Sockets \cup {None},
                                result : Answered \cup {None}]
    /\ ran \subseteq Requests

(* A slot is taken exactly as long as its request's handler runs: at most  *)
(* one request of a kind is outstanding, none locks the panel out.         *)
SlotsMatchHandlers ==
    \A r \in Requests : r \in Open <=> \E k \in Kinds : slot[k] = r

(* Every request ends, whatever becomes of the panel, the connections and  *)
(* the answer: no handler holds its slot for good.                         *)
EveryRequestEnds == \A r \in Requests : (r \in Open) ~> (r \notin Open)

(* What the administrator is told is true: see Errand.                     *)
Told ==
    [r \in Requests |->
        IF status[r] \in {"sending", "waiting"} THEN "open" ELSE status[r]]

Promise == INSTANCE Errand WITH outcome <- Told

KeepsPromise == Promise!Spec
=============================================================================
