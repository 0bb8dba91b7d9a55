------------------------ MODULE RemoteRequests_proofs ------------------------
(***************************************************************************)
(* The safety of RemoteRequests for any number of requests: what holds of  *)
(* the channel holds with requests on it, slots belong to handlers that    *)
(* run, and the promise of Errand is kept.                                 *)
(***************************************************************************)
EXTENDS RemoteRequests, PushChannel_proofs

-----------------------------------------------------------------------------
USE PushChannelAssumption, RemoteRequestsAssumption
    DEF serverVars, agentVars, handlerVars, Requests

(* The variables by owner, and a channel on which nothing is settled.      *)
HandlerTypes ==
    /\ keyed \in BOOLEAN /\ asked \in 0..MaxRequests
    /\ kind \in [Requests -> Kinds \cup {None}]
    /\ status \in [Requests -> {"unasked", "sending", "waiting", "unsure"} \cup Answered]
    /\ waits \in [Requests -> Sockets \cup {None}]
    /\ slot \in [Kinds -> Requests \cup {None}]

WorkTypes ==
    /\ answers \subseteq [req : Requests, via : served, result : Answered]
    /\ task = Idle \/ task \in [req : Requests, via : Sockets \cup {None},
                                result : Answered \cup {None}]
    /\ ran \subseteq Requests

Channel == IInv /\ calm = FALSE

Typed == Channel /\ HandlerTypes /\ WorkTypes

(* Ask sends as notify does, with nothing else of the channel changed.     *)
LEMMA AskNotifies ==
    ASSUME NEW k \in Kinds, Ask(k), HandlerTypes
    PROVE  /\ asked + 1 \in Requests
           /\ Notify(asked + 1)
           /\ \E state \in {"unsure", "waiting", "sending"}, c \in {None, live} :
                 /\ Opens(asked + 1, k, state, c)
                 /\ state = "sending" => live # None
           /\ slot[k] = None
           /\ UNCHANGED <<keyed, answers, task, ran>>
<1>1. asked + 1 \in Requests
  BY DEF Ask, HandlerTypes
<1>. QED BY <1>1 DEF Ask, Accepted, Notify, Unsent, Arrives, Swallowed, Waits

(* Every step is one of the channel's own, or leaves it alone.             *)
LEMMA ChannelStep ==
    ASSUME Typed, [RequestsNext]_allVars
    PROVE  [Next]_vars /\ calm' = FALSE
<1>. USE DEF Typed, Channel
<1>1. CASE Asks \/ Push
  <2>1. PICK m \in Messages : Notify(m)
    BY <1>1, AskNotifies DEF Asks, Push
  <2>. QED BY <2>1 DEF Notify, Next, Pushes, Reaches
<1>2. CASE GivesUp \/ Reads \/ Execute \/ Reply
  BY <1>2 DEF GivesUp, TimesOut, Reads, Receive, Execute, Reply, vars
<1>3. CASE Fails
  BY <1>3 DEF Fails, SendRaises, SendFails, Raises, Next
<1>4. CASE Take
  BY <1>4 DEF Take, Read, Next
<1>5. CASE Joins
  BY <1>5 DEF Joins, ConnectIdle, Connect, Connects, Next
<1>6. CASE Ends \/ Breaks
  BY <1>6 DEF Ends, HandlerGone, HandlerEnds, Breaks, Disconnected, Next
<1>7. CASE KeyForgotten
  BY <1>7 DEF KeyForgotten, ResetToken, Remove, Next
<1>8. CASE Registers
  BY <1>8 DEF Registers, Start, Next, vars
<1>9. CASE AgentDies \/ ServerDies
  BY <1>9 DEF AgentDies, PowerOff, ServerDies, ServerRestart, Next
<1>10. CASE UNCHANGED allVars
  BY <1>10 DEF allVars, vars
<1>. QED BY <1>1, <1>2, <1>3, <1>4, <1>5, <1>6, <1>7, <1>8, <1>9, <1>10
         DEF RequestsNext

LEMMA ConcludeTypes ==
    ASSUME HandlerTypes, NEW S \in SUBSET Requests,
           NEW o \in {"unsure"} \cup Answered, Conclude(S, o),
           UNCHANGED <<asked, kind>>, keyed' \in BOOLEAN
    PROVE  HandlerTypes'
  BY DEF HandlerTypes, Conclude

LEMMA HandlerTypesStep ==
    ASSUME Typed, [RequestsNext]_allVars
    PROVE  HandlerTypes'
<1>. USE DEF Typed
<1>1. ASSUME NEW k \in Kinds, Ask(k) PROVE HandlerTypes'
  <2>1. PICK state \in {"unsure", "waiting", "sending"}, c \in {None, live} :
           Opens(asked + 1, k, state, c)
    BY <1>1, AskNotifies
  <2>2. c \in Sockets \cup {None}
    BY <2>1 DEF Channel, IInv, TypeOK
  <2>3. /\ asked + 1 \in Requests /\ keyed' \in BOOLEAN
        /\ (IF state = "unsure" THEN None ELSE asked + 1) \in Requests \cup {None}
    BY <1>1, AskNotifies DEF HandlerTypes
  <2>4. asked' \in 0..MaxRequests
    BY <2>1, <2>3 DEF Opens
  <2>5. kind' \in [Requests -> Kinds \cup {None}]
    BY <2>1, <2>3 DEF Opens, HandlerTypes
  <2>6. /\ status' \in [Requests -> {"unasked", "sending", "waiting", "unsure"}
                                        \cup Answered]
        /\ waits' \in [Requests -> Sockets \cup {None}]
    BY <2>1, <2>2, <2>3 DEF Opens, HandlerTypes
  <2>7. slot' \in [Kinds -> Requests \cup {None}]
    BY <2>1, <2>3 DEF Opens, HandlerTypes
  <2>. QED BY <2>3, <2>4, <2>5, <2>6, <2>7 DEF HandlerTypes
<1>2. CASE GivesUp \/ Fails \/ Reads \/ ServerDies
  <2>1. PICK S \in SUBSET Requests, o \in {"unsure"} \cup Answered : Conclude(S, o)
    <3>1. CASE GivesUp
      BY <3>1 DEF GivesUp, TimesOut
    <3>2. CASE Fails
      <4>1. PICK s \in Sockets : SendRaises(s)
        BY <3>2 DEF Fails
      <4>. QED BY <4>1 DEF SendRaises, Open
    <3>3. CASE Reads
      <4>1. PICK a \in answers : Receive(a)
        BY <3>3 DEF Reads
      <4>2. a.result \in Answered /\ AnswerFor(a) \in SUBSET Requests
        BY DEF WorkTypes, AnswerFor, Open
      <4>. QED BY <4>1, <4>2 DEF Receive
    <3>4. CASE ServerDies
      BY <3>4 DEF ServerDies, Open
    <3>. QED BY <1>2, <3>1, <3>2, <3>3, <3>4
  <2>2. UNCHANGED <<asked, kind>> /\ keyed' \in BOOLEAN
    BY <1>2 DEF GivesUp, TimesOut, Fails, SendRaises, Reads, Receive,
                ServerDies, HandlerTypes
  <2>. QED BY <2>1, <2>2, ConcludeTypes
<1>3. CASE Take \/ Execute \/ Reply \/ Joins \/ Ends \/ Breaks \/ Push
           \/ KeyForgotten \/ Registers \/ AgentDies \/ UNCHANGED allVars
  BY <1>3 DEF Take, Execute, Reply, Joins, ConnectIdle, Ends, HandlerGone,
              Breaks, Push, KeyForgotten, Registers, AgentDies, allVars,
              requestVars, HandlerTypes
<1>. QED BY <1>1, <1>2, <1>3 DEF RequestsNext, Asks
LEMMA WorkTypesStep ==
    ASSUME Typed, [RequestsNext]_allVars
    PROVE  WorkTypes'
<1>. USE DEF Typed
<1>0. None \in Sockets \cup {None} /\ Channel
  OBVIOUS
<1>1. CASE Asks \/ Push
  <2>1. UNCHANGED <<served, answers, task, ran>>
    BY <1>1 DEF Asks, Ask, Push, Notify, requestVars
  <2>. QED BY <2>1 DEF WorkTypes, Idle
<1>2. CASE GivesUp \/ Fails \/ Reads
  <2>1. UNCHANGED <<served, task, ran>> /\ answers' \subseteq answers
    BY <1>2 DEF GivesUp, TimesOut, Fails, SendRaises, SendFails, Reads, Receive, vars
  <2>. QED BY <2>1 DEF WorkTypes, Idle
<1>3. CASE Take
  <2>1. UNCHANGED <<served, answers, ran>>
    BY <1>3 DEF Take, Read
  <2>2. \/ UNCHANGED task
        \/ task' \in [req : Requests, via : Sockets \cup {None}, result : Answered \cup {None}]
    BY <1>3 DEF Take, Channel, IInv, TypeOK
  <2>. QED BY <2>1, <2>2 DEF WorkTypes, Idle
<1>4. CASE Execute
  <2>1. task \in [req : Requests, via : Sockets \cup {None}, result : Answered \cup {None}]
    BY <1>4 DEF Execute, WorkTypes, Idle
  <2>2. UNCHANGED <<served, answers>> /\ ran' \subseteq Requests
    BY <1>4, <2>1 DEF Execute, vars, WorkTypes
  <2>3. task' \in [req : Requests, via : Sockets \cup {None}, result : Answered]
    BY <1>4, <2>1 DEF Execute, Finished, Answered
  <2>. QED BY <2>2, <2>3 DEF WorkTypes
<1>5. CASE Reply
  <2>1. task \in [req : Requests, via : Sockets \cup {None}, result : Answered \cup {None}]
    BY <1>5 DEF Reply, WorkTypes, Idle
  <2>2. answers' \subseteq [req : Requests, via : served, result : Answered]
    BY <1>5, <2>1 DEF Reply, WorkTypes
  <2>. QED BY <1>5, <2>2 DEF Reply, vars, WorkTypes, Idle
<1>6. CASE Joins \/ Breaks
  <2>1. served \subseteq served' /\ UNCHANGED <<answers, task, ran>>
    BY <1>6 DEF Joins, ConnectIdle, Connect, Breaks, Disconnected, requestVars
  <2>. QED BY <2>1 DEF WorkTypes, Idle
<1>7. CASE Ends \/ KeyForgotten
  <2>1. AnswersLost /\ UNCHANGED <<task, ran>>
    BY <1>7 DEF Ends, HandlerGone, KeyForgotten
  <2>. QED BY <2>1 DEF AnswersLost, WorkTypes, Idle
<1>8. CASE Registers \/ AgentDies
  <2>1. UNCHANGED <<served, answers, ran>> /\ task' \in {task, Idle}
    BY <1>8 DEF Registers, Start, AgentDies, PowerOff, vars
  <2>. QED BY <2>1 DEF WorkTypes, Idle
<1>9. CASE ServerDies
  BY <1>9 DEF ServerDies, WorkTypes, Idle
<1>10. CASE UNCHANGED allVars
  BY <1>10 DEF allVars, vars, requestVars, WorkTypes, Idle
<1>. QED BY <1>1, <1>2, <1>3, <1>4, <1>5, <1>6, <1>7, <1>8, <1>9, <1>10
         DEF RequestsNext

LEMMA TypedInit == RequestsInit => Typed
  BY IInvInit DEF RequestsInit, Init, Typed, Channel, HandlerTypes, WorkTypes, Idle

LEMMA TypedStep == Typed /\ [RequestsNext]_allVars => Typed'
<1>1. Typed /\ [RequestsNext]_allVars => Channel'
  BY ChannelStep, IInvStep DEF Typed, Channel
<1>. QED BY <1>1, HandlerTypesStep, WorkTypesStep DEF Typed

LEMMA TypedInvariance == RequestsSpec => []Typed
  BY TypedInit, TypedStep, PTL DEF RequestsSpec

-----------------------------------------------------------------------------
(* A request is open exactly while its slot holds it, and requests are     *)
(* asked in the order of their numbers.                                    *)
SlotsHold ==
    /\ \A r \in Open : kind[r] \in Kinds /\ slot[kind[r]] = r
    /\ \A k \in Kinds : slot[k] # None => slot[k] \in Open /\ kind[slot[k]] = k

AskedInOrder == \A r \in Requests : status[r] = "unasked" <=> r > asked

Handlers == HandlerTypes /\ SlotsHold /\ AskedInOrder

LEMMA ConcludeHandlers ==
    ASSUME Handlers, NEW S \in SUBSET Open,
           NEW o \in {"unsure"} \cup Answered, Conclude(S, o),
           UNCHANGED <<asked, kind>>
    PROVE  SlotsHold' /\ AskedInOrder' /\ Open' = Open \ S
<1>1. \A r \in Requests : status'[r] = IF r \in S THEN o ELSE status[r]
  BY DEF Conclude
<1>2. \A k \in Kinds : slot'[k] = IF slot[k] \in S THEN None ELSE slot[k]
  BY DEF Conclude
<1>3. Open' = Open \ S
  BY <1>1 DEF Open, Answered
<1>4. SlotsHold'
  BY <1>2, <1>3 DEF SlotsHold, Handlers, Open
<1>5. AskedInOrder'
  BY <1>1 DEF AskedInOrder, Handlers, Open, Answered
<1>. QED BY <1>3, <1>4, <1>5

LEMMA HandlersStep ==
    ASSUME Typed, Handlers, [RequestsNext]_allVars
    PROVE  Handlers'
<1>1. HandlerTypes'
  BY HandlerTypesStep
<1>2. ASSUME NEW k \in Kinds, Ask(k) PROVE SlotsHold' /\ AskedInOrder'
  <2>. DEFINE n == asked + 1
  <2>1. PICK state \in {"unsure", "waiting", "sending"}, c \in {None, live} :
           Opens(n, k, state, c)
    BY <1>2, AskNotifies DEF Typed
  <2>2. n \in Requests /\ slot[k] = None /\ status[n] = "unasked"
    BY <1>2, AskNotifies DEF Typed, Handlers, AskedInOrder, HandlerTypes
  <2>3. \A r \in Requests : /\ status'[r] = IF r = n THEN state ELSE status[r]
                            /\ kind'[r] = IF r = n THEN k ELSE kind[r]
    BY <2>1, <2>2 DEF Opens, Handlers, HandlerTypes
  <2>4. \A j \in Kinds : slot'[j] = IF j # k THEN slot[j]
                                    ELSE IF state = "unsure" THEN None ELSE n
    BY <2>1, <2>2 DEF Opens, Handlers, HandlerTypes
  <2>5. Open' = IF state = "unsure" THEN Open ELSE Open \cup {n}
    BY <2>2, <2>3 DEF Open
  <2>6. n \notin Open
    BY <2>2 DEF Open
  <2>7. SlotsHold'
    <3>1. ASSUME NEW r \in Open' PROVE kind'[r] \in Kinds /\ slot'[kind'[r]] = r
      <4>1. CASE r = n
        BY <2>2, <2>3, <2>4, <2>5, <2>6, <4>1
      <4>2. CASE r # n
        <5>1. r \in Open /\ r \in Requests /\ kind'[r] = kind[r]
          BY <2>3, <2>5, <4>2 DEF Open
        <5>2. kind[r] \in Kinds /\ slot[kind[r]] = r
          BY <5>1 DEF Handlers, SlotsHold
        <5>. QED BY <2>2, <2>4, <5>1, <5>2
      <4>. QED BY <4>1, <4>2
    <3>2. ASSUME NEW j \in Kinds, slot'[j] # None
          PROVE  slot'[j] \in Open' /\ kind'[slot'[j]] = j
      <4>1. CASE j = k
        BY <2>2, <2>3, <2>4, <2>5, <3>2, <4>1
      <4>2. CASE j # k
        <5>1. slot'[j] = slot[j] /\ slot[j] \in Open /\ kind[slot[j]] = j
          BY <2>4, <3>2, <4>2 DEF Handlers, SlotsHold
        <5>. QED BY <2>3, <2>5, <2>6, <5>1 DEF Open
      <4>. QED BY <4>1, <4>2
    <3>. QED BY <3>1, <3>2 DEF SlotsHold
  <2>8. AskedInOrder'
    BY <2>1, <2>2, <2>3 DEF AskedInOrder, Handlers, HandlerTypes, Opens
  <2>. QED BY <2>7, <2>8
<1>3. CASE GivesUp \/ Fails \/ Reads \/ ServerDies
  <2>1. PICK S \in SUBSET Open, o \in {"unsure"} \cup Answered : Conclude(S, o)
    <3>1. CASE GivesUp
      BY <3>1 DEF GivesUp, TimesOut, Open
    <3>2. CASE Fails
      BY <3>2 DEF Fails, SendRaises
    <3>3. CASE Reads
      <4>1. PICK a \in answers : Receive(a)
        BY <3>3 DEF Reads
      <4>2. a.result \in Answered /\ AnswerFor(a) \in SUBSET Open
        BY DEF Typed, WorkTypes, AnswerFor
      <4>. QED BY <4>1, <4>2 DEF Receive
    <3>4. CASE ServerDies
      BY <3>4 DEF ServerDies
    <3>. QED BY <1>3, <3>1, <3>2, <3>3, <3>4
  <2>2. UNCHANGED <<asked, kind>>
    BY <1>3 DEF GivesUp, TimesOut, Fails, SendRaises, Reads, Receive, ServerDies
  <2>. QED BY <1>1, <2>1, <2>2, ConcludeHandlers DEF Handlers
<1>4. CASE Take \/ Execute \/ Reply \/ Joins \/ Ends \/ Breaks \/ Push
           \/ KeyForgotten \/ Registers \/ AgentDies \/ UNCHANGED allVars
  <2>1. UNCHANGED <<asked, kind, status, slot>>
    BY <1>4 DEF Take, Execute, Reply, Joins, ConnectIdle, Ends, HandlerGone,
                Breaks, Push, KeyForgotten, Registers, AgentDies, allVars,
                requestVars
  <2>. QED BY <1>1, <2>1 DEF Handlers, SlotsHold, AskedInOrder, Open
<1>. QED BY <1>1, <1>2, <1>3, <1>4 DEF Handlers, RequestsNext, Asks

LEMMA HandlersInit == RequestsInit => Handlers
  BY TypedInit DEF RequestsInit, Handlers, Typed, SlotsHold, AskedInOrder, Open

-----------------------------------------------------------------------------
(* What was carried out was asked; the task comes after all of it, and the *)
(* messages yet to be read after the task, in order.  An answer that says  *)
(* "done" is about a request that was carried out.                         *)
TaskInTurn ==
    /\ \A q \in ran : q <= asked
    /\ task # Idle => /\ task.req <= asked
                      /\ \A q \in ran : q <= task.req
                      /\ task.result = None => task.req \notin ran
                      /\ task.result = "done" => task.req \in ran

BufferInTurn ==
    /\ \A i \in 1..Len(inbox) : inbox[i] \in Requests =>
          /\ inbox[i] <= asked
          /\ \A q \in ran : q < inbox[i]
          /\ task # Idle => task.req < inbox[i]
    /\ \A i, j \in 1..Len(inbox) :
          i < j /\ inbox[i] \in Requests /\ inbox[j] \in Requests => inbox[i] < inbox[j]

AnswersTrue == \A a \in answers : a.result = "done" => a.req \in ran

InTurn == TaskInTurn /\ BufferInTurn /\ AnswersTrue

LEMMA InTurnInit == RequestsInit => InTurn
  BY DEF RequestsInit, Init, InTurn, TaskInTurn, BufferInTurn, AnswersTrue

(* What is appended to the buffer is no request or the newest one.         *)
LEMMA InTurnSent ==
    ASSUME Typed, InTurn, NEW m \in Messages, Notify(m),
           UNCHANGED <<answers, task, ran>>, asked' \in Nat, asked <= asked',
           m \in Requests => m = asked + 1 /\ asked' = m
    PROVE  InTurn'
<1>0. inbox \in Seq(Messages) /\ asked \in Nat /\ ran \subseteq Requests
      /\ (task # Idle => task.req \in Requests)
  BY DEF Typed, Channel, IInv, TypeOK, HandlerTypes, WorkTypes
<1>1. TaskInTurn' /\ AnswersTrue'
  BY <1>0 DEF InTurn, TaskInTurn, AnswersTrue, Idle
<1>2. CASE UNCHANGED inbox
  BY <1>0, <1>1, <1>2 DEF InTurn, BufferInTurn, Idle
<1>3. CASE inbox' = Append(inbox, m)
  <2>1. /\ Len(inbox') = Len(inbox) + 1 /\ Len(inbox) \in Nat
        /\ \A i \in 1..Len(inbox) : inbox'[i] = inbox[i] /\ inbox[i] \in Messages
        /\ inbox'[Len(inbox) + 1] = m
    BY <1>0, <1>3
  <2>2. \A i \in 1..Len(inbox) : inbox[i] \in Requests => inbox[i] <= asked
    BY DEF InTurn, BufferInTurn
  <2>3. m \in Requests => /\ m <= asked' /\ \A q \in ran : q < m
                          /\ task # Idle => task.req < m
    BY <1>0 DEF InTurn, TaskInTurn
  <2>4. ASSUME NEW i \in 1..Len(inbox'), inbox'[i] \in Requests
        PROVE  /\ inbox'[i] <= asked' /\ \A q \in ran' : q < inbox'[i]
               /\ task' # Idle => task'.req < inbox'[i]
    <3>1. CASE i = Len(inbox) + 1
      BY <2>1, <2>3, <2>4, <3>1
    <3>2. CASE i \in 1..Len(inbox)
      BY <1>0, <2>1, <2>4, <3>2 DEF InTurn, BufferInTurn
    <3>. QED BY <2>1, <3>1, <3>2
  <2>5. ASSUME NEW i \in 1..Len(inbox'), NEW j \in 1..Len(inbox'), i < j,
               inbox'[i] \in Requests, inbox'[j] \in Requests
        PROVE  inbox'[i] < inbox'[j]
    <3>1. CASE j = Len(inbox) + 1
      BY <1>0, <2>1, <2>2, <2>5, <3>1
    <3>2. CASE j \in 1..Len(inbox)
      BY <2>1, <2>5, <3>2 DEF InTurn, BufferInTurn
    <3>. QED BY <2>1, <3>1, <3>2
  <2>6. BufferInTurn'
    BY <2>4, <2>5 DEF BufferInTurn, Idle
  <2>. QED BY <1>1, <2>6 DEF InTurn
<1>. QED BY <1>2, <1>3 DEF Notify, Unsent, Arrives, Swallowed, Waits

LEMMA InTurnStep ==
    ASSUME Typed, InTurn, [RequestsNext]_allVars
    PROVE  InTurn'
<1>. USE DEF InTurn
<1>0. /\ inbox \in Seq(Messages) /\ asked \in Nat /\ ran \subseteq Requests
      /\ task = Idle \/ task \in [req : Requests, via : Sockets \cup {None},
                                  result : Answered \cup {None}]
      /\ answers \subseteq [req : Requests, via : served, result : Answered]
  BY DEF Typed, Channel, IInv, TypeOK, HandlerTypes, WorkTypes
<1>1. ASSUME NEW k \in Kinds, Ask(k) PROVE InTurn'
  <2>1. asked + 1 \in Requests /\ asked + 1 \in Messages /\ Notify(asked + 1)
        /\ UNCHANGED <<answers, task, ran>> /\ asked' = asked + 1
    BY <1>1, AskNotifies DEF Typed, Opens
  <2>. QED BY <1>0, <2>1, InTurnSent
<1>2. CASE Push
  BY <1>0, <1>2, InTurnSent DEF Push, requestVars
<1>3. CASE Take
  <2>1. /\ task = Idle /\ inbox # <<>> /\ inbox' = Tail(inbox)
        /\ UNCHANGED <<asked, answers, ran>>
    BY <1>3 DEF Take, Read
  <2>2. /\ Len(inbox') = Len(inbox) - 1 /\ Len(inbox) \in Nat \ {0}
        /\ \A i \in 1..Len(inbox') : inbox'[i] = inbox[i + 1] /\ i + 1 \in 1..Len(inbox)
        /\ Head(inbox) = inbox[1]
    BY <1>0, <2>1
  <2>3. \/ task' = Idle
        \/ /\ Head(inbox) \in Requests /\ task' # Idle
           /\ task'.req = Head(inbox) /\ task'.result = None
    BY <1>3 DEF Take, Idle
  <2>4. TaskInTurn'
    <3>1. \A q \in ran : q <= asked
      BY DEF TaskInTurn
    <3>2. CASE task' = Idle
      BY <2>1, <3>1, <3>2 DEF TaskInTurn, Idle
    <3>3. CASE /\ Head(inbox) \in Requests /\ task' # Idle
               /\ task'.req = Head(inbox) /\ task'.result = None
      <4>1. /\ Head(inbox) <= asked /\ \A q \in ran : q < Head(inbox)
        BY <2>2, <3>3 DEF BufferInTurn
      <4>2. None # "done" \/ task'.req \in ran
        BY <3>3, <1>0 DEF Answered
      <4>. QED BY <1>0, <2>1, <3>1, <3>3, <4>1, <4>2 DEF TaskInTurn, Idle
    <3>. QED BY <2>3, <3>2, <3>3
  <2>5. BufferInTurn'
    <3>1. \A i, j \in 1..Len(inbox) : i < j /\ inbox[i] \in Requests
             /\ inbox[j] \in Requests => inbox[i] < inbox[j]
      BY DEF BufferInTurn
    <3>2. ASSUME NEW i \in 1..Len(inbox'), inbox'[i] \in Requests
          PROVE  /\ inbox'[i] <= asked' /\ \A q \in ran' : q < inbox'[i]
                 /\ task' # Idle => task'.req < inbox'[i]
      <4>1. inbox'[i] = inbox[i + 1] /\ i + 1 \in 1..Len(inbox)
        BY <2>2
      <4>2. inbox[i + 1] <= asked /\ \A q \in ran : q < inbox[i + 1]
        BY <3>2, <4>1 DEF BufferInTurn
      <4>3. task' # Idle => task'.req < inbox[i + 1]
        <5>1. 1 \in 1..Len(inbox) /\ 1 < i + 1
          BY <2>2
        <5>. QED BY <2>2, <2>3, <3>1, <3>2, <4>1, <5>1
      <4>. QED BY <2>1, <4>1, <4>2, <4>3
    <3>3. ASSUME NEW i \in 1..Len(inbox'), NEW j \in 1..Len(inbox'), i < j,
                 inbox'[i] \in Requests, inbox'[j] \in Requests
          PROVE  inbox'[i] < inbox'[j]
      <4>1. /\ inbox'[i] = inbox[i + 1] /\ i + 1 \in 1..Len(inbox)
            /\ inbox'[j] = inbox[j + 1] /\ j + 1 \in 1..Len(inbox)
        BY <2>2
      <4>2. i + 1 < j + 1
        BY <3>3
      <4>. QED BY <3>1, <3>3, <4>1, <4>2
    <3>. QED BY <3>2, <3>3 DEF BufferInTurn, Idle
  <2>6. AnswersTrue'
    BY <2>1 DEF AnswersTrue
  <2>. QED BY <2>4, <2>5, <2>6
<1>4. CASE Execute
  <2>1. /\ task # Idle /\ task.result = None /\ task.req \in Requests
        /\ UNCHANGED <<inbox, asked, answers>>
        /\ ran \subseteq ran' /\ ran' \subseteq ran \cup {task.req}
        /\ task'.req = task.req /\ task'.result \in Answered
        /\ task'.result = "done" => task.req \in ran'
    BY <1>0, <1>4 DEF Execute, Finished, Idle, Answered, vars
  <2>2. task.req <= asked /\ \A q \in ran : q <= task.req
    BY <2>1 DEF TaskInTurn
  <2>3. TaskInTurn'
    <3>1. ASSUME NEW q \in ran' PROVE q <= task.req
      <4>1. q \in ran \/ q = task.req
        BY <2>1
      <4>. QED BY <2>1, <2>2, <4>1
    <3>2. task'.result # None
      BY <2>1, <1>4 DEF Execute, Answered
    <3>. QED BY <1>0, <2>1, <2>2, <3>1, <3>2 DEF TaskInTurn, Idle
  <2>4. BufferInTurn'
    BY <1>0, <2>1, <2>2 DEF BufferInTurn, Idle
  <2>5. AnswersTrue'
    BY <2>1 DEF AnswersTrue
  <2>. QED BY <2>3, <2>4, <2>5
<1>5. CASE Reply
  <2>1. /\ task' = Idle /\ answers' \subseteq answers \cup {task}
        /\ UNCHANGED <<inbox, asked, ran>>
    BY <1>5 DEF Reply, vars
  <2>2. task.result = "done" => task.req \in ran
    <3>1. CASE task = Idle
      BY <1>5, <3>1 DEF Reply, Idle
    <3>2. CASE task # Idle
      BY <3>2 DEF TaskInTurn
    <3>. QED BY <3>1, <3>2
  <2>. QED BY <2>1, <2>2 DEF TaskInTurn, BufferInTurn, AnswersTrue, Idle
<1>6. CASE GivesUp \/ Fails \/ Reads \/ Ends \/ KeyForgotten \/ ServerDies
  <2>1. UNCHANGED <<inbox, asked, task, ran>> /\ answers' \subseteq answers
    BY <1>6 DEF GivesUp, TimesOut, Fails, SendRaises, SendFails, Reads, Receive,
                Ends, HandlerGone, HandlerEnds, KeyForgotten, ResetToken, Remove,
                AnswersLost, ServerDies, ServerRestart, vars
  <2>. QED BY <2>1 DEF TaskInTurn, BufferInTurn, AnswersTrue, Idle
<1>7. CASE Joins
  <2>1. inbox' = <<Hello>> /\ task' = Idle /\ UNCHANGED <<asked, answers, ran>>
    BY <1>7 DEF Joins, ConnectIdle, Connect, requestVars
  <2>2. Len(inbox') = 1 /\ \A i \in 1..Len(inbox') : inbox'[i] \notin Requests
    BY <2>1
  <2>. QED BY <2>1, <2>2 DEF TaskInTurn, BufferInTurn, AnswersTrue, Idle
<1>8. CASE Breaks \/ AgentDies
  <2>1. /\ inbox' = <<>> /\ task' \in {task, Idle} /\ UNCHANGED <<asked, answers, ran>>
    BY <1>8 DEF Breaks, Disconnected, AgentDies, PowerOff, requestVars
  <2>2. Len(inbox') = 0
    BY <2>1
  <2>. QED BY <2>1, <2>2 DEF TaskInTurn, BufferInTurn, AnswersTrue, Idle
<1>9. CASE Registers \/ UNCHANGED allVars
  <2>1. UNCHANGED <<inbox, asked, task, ran, answers>>
    BY <1>9 DEF Registers, Start, vars, allVars, requestVars
  <2>. QED BY <2>1 DEF TaskInTurn, BufferInTurn, AnswersTrue, Idle
<1>. QED BY <1>1, <1>2, <1>3, <1>4, <1>5, <1>6, <1>7, <1>8, <1>9
         DEF RequestsNext, Asks

-----------------------------------------------------------------------------
RInv == Typed /\ Handlers /\ InTurn

LEMMA RInvariance == RequestsSpec => []RInv
<1>1. RequestsInit => RInv
  BY TypedInit, HandlersInit, InTurnInit DEF RInv
<1>2. RInv /\ [RequestsNext]_allVars => RInv'
  BY TypedStep, HandlersStep, InTurnStep DEF RInv
<1>. QED BY <1>1, <1>2, PTL DEF RequestsSpec

(* Every variable has its type.                                            *)
THEOREM RequestTypes == RequestsSpec => []RequestsTypeOK
<1>1. RInv => RequestsTypeOK
  BY DEF RInv, Typed, Channel, IInv, HandlerTypes, WorkTypes, RequestsTypeOK
<1>. QED BY <1>1, RInvariance, PTL

(* A slot is taken exactly as long as the handler of its request runs.     *)
THEOREM SlotsBelongToHandlers == RequestsSpec => []SlotsMatchHandlers
<1>1. RInv => SlotsMatchHandlers
  BY DEF RInv, Handlers, HandlerTypes, SlotsHold, SlotsMatchHandlers
<1>. QED BY <1>1, RInvariance, PTL

(* What PushChannel promises holds with requests on its connections.       *)
THEOREM ChannelUnderRequests ==
    RequestsSpec => [](LiveIsServed /\ NewestHoldsSlot)
<1>1. RInv => LiveIsServed /\ NewestHoldsSlot
  BY DEF RInv, Typed, Channel, IInv
<1>. QED BY <1>1, RInvariance, PTL

-----------------------------------------------------------------------------
(* Giving up on requests, whatever the reason, is a GiveUp of Errand.      *)
LEMMA GivingUp ==
    ASSUME NEW S \in SUBSET Open, Conclude(S, "unsure"), UNCHANGED ran
    PROVE  Promise!GiveUp(S)
<1>1. \A r \in S : r \in Requests /\ Told[r] = "open"
  BY DEF Told, Open
<1>2. Promise!Settled(S, "unsure")
  BY DEF Promise!Settled, Conclude, Told
<1>. QED BY <1>1, <1>2 DEF Promise!GiveUp

LEMMA ToldStep ==
    ASSUME RInv, [RequestsNext]_allVars
    PROVE  [Promise!Next]_<<Told, ran>>
<1>. USE DEF RInv
<1>0. HandlerTypes /\ WorkTypes /\ ran \subseteq Requests
  BY DEF Typed, WorkTypes
<1>1. ASSUME NEW k \in Kinds, Ask(k) PROVE [Promise!Next]_<<Told, ran>>
  <2>. DEFINE n == asked + 1
  <2>1. PICK state \in {"unsure", "waiting", "sending"}, c \in {None, live} :
           Opens(n, k, state, c)
    BY <1>0, <1>1, AskNotifies
  <2>2. n \in Requests /\ UNCHANGED ran
    BY <1>0, <1>1, AskNotifies
  <2>3. Told[n] = "unasked"
    BY <2>2 DEF Handlers, AskedInOrder, HandlerTypes, Told
  <2>4. \A q \in Requests : q < n => Told[q] # "unasked"
    BY <2>2 DEF Handlers, AskedInOrder, HandlerTypes, Told
  <2>. DEFINE o == IF state = "unsure" THEN "unsure" ELSE "open"
  <2>5. Told' = [Told EXCEPT ![n] = o]
    BY <1>0, <2>1, <2>2 DEF Opens, HandlerTypes, Told
  <2>6. o \in {"open", "unsure"}
    OBVIOUS
  <2>7. Promise!Ask(n)
    BY <2>2, <2>3, <2>4, <2>5, <2>6 DEF Promise!Ask
  <2>. QED BY <2>2, <2>7 DEF Promise!Next
<1>2. CASE GivesUp \/ Fails \/ ServerDies
  <2>1. PICK S \in SUBSET Open : Conclude(S, "unsure") /\ UNCHANGED ran
    <3>1. CASE GivesUp
      BY <3>1 DEF GivesUp, TimesOut, Open
    <3>2. CASE Fails
      BY <3>2 DEF Fails, SendRaises
    <3>3. CASE ServerDies
      BY <3>3 DEF ServerDies
    <3>. QED BY <1>2, <3>1, <3>2, <3>3
  <2>2. S \in SUBSET Requests /\ Promise!GiveUp(S)
    BY <2>1, GivingUp DEF Open
  <2>. QED BY <2>2 DEF Promise!Next
<1>3. CASE Reads
  <2>1. PICK a \in answers : Receive(a)
    BY <1>3 DEF Reads
  <2>2. a.req \in Requests /\ a.result \in Answered
        /\ (a.result = "done" => a.req \in ran)
    BY <1>0 DEF WorkTypes, InTurn, AnswersTrue
  <2>3. UNCHANGED ran
    BY <2>1 DEF Receive
  <2>4. CASE AnswerFor(a) = {}
    <3>1. Told' = Told
      BY <2>1, <2>4, <1>0 DEF Receive, Conclude, Told, HandlerTypes
    <3>. QED BY <2>3, <3>1
  <2>5. CASE AnswerFor(a) # {}
    <3>1. AnswerFor(a) = {a.req} /\ a.req \in Open
      BY <2>5 DEF AnswerFor
    <3>2. Told[a.req] = "open"
      BY <2>2, <3>1 DEF Told, Open
    <3>3. Promise!Settled({a.req}, a.result)
      BY <2>1, <2>2, <3>1 DEF Receive, Conclude, Promise!Settled, Told, Answered
    <3>4. Promise!Answer(a.req)
      BY <2>2, <2>3, <3>2, <3>3 DEF Promise!Answer, Answered
    <3>. QED BY <2>2, <3>4 DEF Promise!Next
  <2>. QED BY <2>4, <2>5
<1>4. CASE Execute
  <2>1. /\ UNCHANGED status /\ task.req # None /\ task.result = None
        /\ ran' \in {ran, ran \cup {task.req}}
    BY <1>4 DEF Execute
  <2>2. /\ task # Idle /\ task.req \in Requests
    BY <1>0, <2>1 DEF WorkTypes, Idle
  <2>3. Told' = Told
    BY <2>1 DEF Told
  <2>4. Told[task.req] # "unasked"
    BY <1>0, <2>2 DEF InTurn, TaskInTurn, Handlers, AskedInOrder, HandlerTypes, Told
  <2>5. ASSUME NEW q \in ran PROVE q < task.req
    <3>1. q <= task.req /\ task.req \notin ran
      BY <2>1, <2>2 DEF InTurn, TaskInTurn
    <3>2. q \in Requests /\ q # task.req
      BY <1>0, <3>1
    <3>. QED BY <2>2, <3>1, <3>2
  <2>6. CASE ran' = ran
    BY <2>3, <2>6
  <2>7. CASE ran' = ran \cup {task.req}
    <3>1. Promise!Run(task.req)
      BY <2>3, <2>4, <2>5, <2>7 DEF Promise!Run
    <3>. QED BY <2>2, <3>1 DEF Promise!Next
  <2>. QED BY <2>1, <2>6, <2>7
<1>5. CASE Take \/ Reply \/ Joins \/ Ends \/ Breaks \/ Push
           \/ KeyForgotten \/ Registers \/ AgentDies \/ UNCHANGED allVars
  <2>1. UNCHANGED <<status, ran>>
    BY <1>5 DEF Take, Reply, Joins, ConnectIdle, Ends, HandlerGone, Breaks,
                Push, KeyForgotten, Registers, AgentDies, allVars, requestVars
  <2>. QED BY <2>1 DEF Told
<1>. QED BY <1>1, <1>2, <1>3, <1>4, <1>5 DEF RequestsNext, Asks

(* The protocol implements Errand: a request is carried out at most once,  *)
(* in the order of asking and whatever has been answered meanwhile, and    *)
(* none is called done that was not.                                       *)
THEOREM RequestsKeepPromise == RequestsSpec => KeepsPromise
<1>1. RequestsInit => Promise!Init
  BY DEF RequestsInit, Promise!Init, Told
<1>2. RInv /\ [RequestsNext]_allVars => [Promise!Next]_<<Told, ran>>
  BY ToldStep
<1>. QED BY <1>1, <1>2, RInvariance, PTL
         DEF RequestsSpec, KeepsPromise, Promise!Spec
=============================================================================
