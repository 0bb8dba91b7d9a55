---------------------------- MODULE Screen_proofs ----------------------------
(***************************************************************************)
(* The safety properties of Screen for any number of brightness levels and *)
(* any number of requests the helper has yet to serve.                     *)
(***************************************************************************)
EXTENDS Screen, SequenceTheorems, TLAPS

USE ScreenAssumption

(* What the page does to its requests keeps them levels.                   *)
AskTypes ==
    /\ wanted \in Level /\ applied \in Level \cup {None}
    /\ req \in Level \cup {None} /\ queue \in Seq(Level)

LEMMA AskKeeps ==
    ASSUME AskTypes, NEW v \in Level, NEW w \in Level, SetBacklights(v, w)
    PROVE  AskTypes'
  BY DEF AskTypes, SetBacklights, Ask

(* So does an unchanged one.                                               *)
LEMMA SameKeeps ==
    ASSUME AskTypes, SameBacklight
    PROVE  AskTypes'
  BY DEF AskTypes, SameBacklight, askVars

(* The levels the page asks for are levels.                                *)
LEMMA LevelTypes ==
    /\ 0 \in Level /\ Dim \in Level /\ Full \in Level
    /\ \A b \in 1..Full : b \in Level
    /\ \A s : \A b \in 1..Full : Brightness(s, b) \in Level
  BY DEF Level, Dim, Brightness

ScreenTypes ==
    /\ screen \in {"awake", "idle", "blanked"}
    /\ timer \in {"idle", "off", None}
    /\ blanks \in BOOLEAN /\ bell \in BOOLEAN /\ identify \in BOOLEAN
    /\ bright \in 1..Full /\ lights \in 0..MaxLights
    /\ calm \in BOOLEAN

HelperTypes ==
    /\ target \in Level \cup {None} /\ error \in BOOLEAN
    /\ fading \in BOOLEAN
    /\ fading => target # None
    /\ level \in Level /\ dark \in BOOLEAN

Types == ScreenTypes /\ AskTypes /\ HelperTypes

-----------------------------------------------------------------------------
(* It holds at the start, and bump keeps the types of what it sets.        *)
LEMMA TypesInit == Init => Types
<1> SUFFICES ASSUME Init PROVE Types
  OBVIOUS
<1>1. <<Full>> \in Seq(Level)
  BY LevelTypes
<1>2. 0 \in 0..MaxLights /\ Full \in 1..Full
  OBVIOUS
<1> QED BY <1>1, <1>2, LevelTypes DEF Init, Types, ScreenTypes, AskTypes, HelperTypes

LEMMA BumpKeeps ==
    ASSUME ScreenTypes, NEW b \in BOOLEAN, Bump(b)
    PROVE  /\ screen' = "awake" /\ timer' \in {"idle", None} /\ bell' = b
           /\ lights' \in 0..MaxLights
<1>1. lights' \in {lights, lights + 1} /\ lights' <= MaxLights
  BY DEF Bump
<1> QED BY <1>1 DEF Bump, TimerAfterBump, ScreenTypes

(* The page's own steps and those of a person.                             *)
LEMMA PageKeeps ==
    ASSUME Types, Page \/ Person
    PROVE  Types'
<1> USE LevelTypes
<1>1. ScreenTypes /\ AskTypes /\ HelperTypes
  BY DEF Types
<1>2. ASSUME UNCHANGED helperVars PROVE HelperTypes'
  BY <1>1, <1>2 DEF HelperTypes, helperVars
<1>3. ASSUME NEW b \in BOOLEAN, Bump(b), UNCHANGED <<blanks, calm>>,
             identify' \in BOOLEAN, bright' \in 1..Full
      PROVE  ScreenTypes'
  BY <1>1, <1>3, BumpKeeps DEF ScreenTypes
<1>4. CASE Touch
  <2>1. ScreenTypes'
    BY <1>1, <1>3, <1>4 DEF Touch, ScreenTypes
  <2> QED BY <1>1, <1>2, <1>4, <2>1, SameKeeps DEF Touch, Types
<1>5. ASSUME NEW b \in 1..Full, Slide(b) PROVE Types'
  <2>1. ScreenTypes'
    BY <1>1, <1>3, <1>5 DEF Slide, ScreenTypes
  <2> QED BY <1>1, <1>2, <1>5, <2>1, AskKeeps DEF Slide, Types, SetBacklight
<1>6. CASE OpenDoorbell \/ CloseDoorbell
  <2>1. ScreenTypes'
    BY <1>1, <1>3, <1>6 DEF OpenDoorbell, CloseDoorbell, ScreenTypes
  <2> QED BY <1>1, <1>2, <1>6, <2>1, SameKeeps DEF OpenDoorbell, CloseDoorbell, Types
<1>7. CASE Identify
  <2>1. ScreenTypes'
    BY <1>1, <1>3, <1>7 DEF Identify, ScreenTypes
  <2> QED BY <1>1, <1>2, <1>7, <2>1, AskKeeps DEF Identify, Types, SetBacklight
<1>8. CASE IdentifyEnds
  <2>1. ScreenTypes' /\ AfterIdentify \in Level
    BY <1>1, <1>8 DEF IdentifyEnds, AfterIdentify, ScreenTypes, screenVars
  <2> QED BY <1>1, <1>2, <1>8, <2>1, AskKeeps DEF IdentifyEnds, Types, SetBacklight
<1>9. CASE Light
  <2>1. ScreenTypes' /\ bright \in Level
    BY <1>1, <1>9 DEF Light, ScreenTypes, screenVars
  <2> QED BY <1>1, <1>2, <1>9, <2>1, AskKeeps DEF Light, Types, SetBacklight
<1>10. ASSUME NEW b \in 1..Full, Sensor(b) PROVE Types'
  <2>1. ScreenTypes' /\ Brightness(screen, b) \in Level
    BY <1>1, <1>10 DEF Sensor, ScreenTypes, screenVars
  <2> QED BY <1>1, <1>2, <1>10, <2>1, AskKeeps, SameKeeps
          DEF Sensor, Types, SetBacklight
<1>11. CASE GoIdle \/ GoBlank
  <2>1. ScreenTypes'
    BY <1>1, <1>11 DEF GoIdle, GoBlank, ScreenTypes, lightVars
  <2> QED BY <1>1, <1>2, <1>11, <2>1, AskKeeps DEF GoIdle, GoBlank, Types, SetBacklight
<1>12. CASE SleepNow
  <2>1. ScreenTypes'
    BY <1>1, <1>12 DEF SleepNow, ScreenTypes, lightVars
  <2>2. Brightness(screen', bright) \in Level
    BY <1>1 DEF ScreenTypes
  <2>3. (IF screen = "blanked" THEN 0 ELSE Dim) \in Level
    OBVIOUS
  <2>4. AskTypes'
    BY <1>1, <1>12, <2>2, <2>3, AskKeeps DEF SleepNow
  <2> QED BY <1>2, <1>12, <2>1, <2>4 DEF SleepNow, Types
<1> QED BY <1>4, <1>5, <1>6, <1>7, <1>8, <1>9, <1>10, <1>11, <1>12 DEF Page, Person

(* The helper's steps, and the mishaps.                                    *)
LEMMA ServeKeeps ==
    ASSUME Types, Serve
    PROVE  Types'
<1>1. ScreenTypes /\ AskTypes /\ HelperTypes
  BY DEF Types
<1>2. Head(queue) \in Level /\ Tail(queue) \in Seq(Level)
  BY <1>1 DEF Serve, AskTypes
<1>3. HelperTypes'
  <2>1. CASE Head(queue) = 0
    BY <1>1, <2>1, LevelTypes DEF Serve, Blanked, HelperTypes
  <2>2. CASE Head(queue) # 0 /\ UNCHANGED helperVars
    BY <1>1, <2>2 DEF HelperTypes, helperVars
  <2>3. CASE Head(queue) # 0 /\ ~UNCHANGED helperVars
    <3>1. Head(queue) # None
      BY <1>2 DEF Level
    <3> QED BY <1>1, <1>2, <2>3, <3>1, LevelTypes DEF Serve, Retargeted, HelperTypes
  <2> QED BY <2>1, <2>2, <2>3
<1>4. AskTypes'
  <2>1. CASE Awaited
    <3>1. <<wanted>> \in Seq(Level) /\ <<>> \in Seq(Level)
      BY <1>1 DEF AskTypes
    <3> QED BY <1>1, <1>2, <2>1, <3>1 DEF Serve, AnswerTaken, AskTypes
  <2>2. CASE ~Awaited
    BY <1>1, <1>2, <2>2 DEF Serve, AskTypes
  <2> QED BY <2>1, <2>2
<1>5. ScreenTypes'
  BY <1>1 DEF Serve, ScreenTypes, screenVars, lightVars
<1> QED BY <1>3, <1>4, <1>5 DEF Types

LEMMA HelperKeeps ==
    ASSUME Types, Tick \/ Mishap
    PROVE  Types'
<1>1. ScreenTypes /\ AskTypes /\ HelperTypes
  BY DEF Types
<1>2. UNCHANGED <<screenVars, lightVars, calm>>
  BY DEF Tick, Mishap, Timeout, ServeFails, TickFails, HelperRestarts, BlankedElsewhere
<1>3. ScreenTypes'
  BY <1>1, <1>2 DEF ScreenTypes, screenVars, lightVars
<1>4. AskTypes'
  <2>1. CASE ServeFails
    BY <1>1, <2>1 DEF ServeFails, AskTypes
  <2>2. CASE HelperRestarts
    <3>1. <<>> \in Seq(Level)
      OBVIOUS
    <3> QED BY <1>1, <2>2, <3>1 DEF HelperRestarts, AskTypes
  <2>3. CASE Tick \/ Timeout \/ TickFails \/ BlankedElsewhere
    BY <1>1, <2>3 DEF Tick, Timeout, TickFails, BlankedElsewhere, AskTypes, askVars
  <2> QED BY <2>1, <2>2, <2>3 DEF Mishap
<1>5. HelperTypes'
  <2>1. CASE Tick
    <3>1. target \in Level /\ level \in Level
      BY <1>1, <2>1 DEF Tick, HelperTypes
    <3>2. level' \in Level
      BY <2>1, <3>1 DEF Tick, Level
    <3>3. target # None
      BY <3>1 DEF Level
    <3>4. fading' \in BOOLEAN /\ UNCHANGED <<target, error, dark>>
      BY <2>1 DEF Tick
    <3> QED BY <1>1, <3>2, <3>3, <3>4 DEF HelperTypes
  <2>2. CASE Timeout \/ ServeFails
    BY <1>1, <2>2 DEF Timeout, ServeFails, HelperTypes, helperVars
  <2>3. CASE TickFails \/ HelperRestarts
    BY <1>1, <2>3 DEF TickFails, HelperRestarts, HelperTypes
  <2>4. CASE BlankedElsewhere
    BY <1>1, <2>4 DEF BlankedElsewhere, HelperTypes
  <2> QED BY <2>1, <2>2, <2>3, <2>4 DEF Mishap
<1> QED BY <1>3, <1>4, <1>5 DEF Types

LEMMA TypesStep == Types /\ [Next]_vars => Types'
<1> SUFFICES ASSUME Types, [Next]_vars PROVE Types'
  OBVIOUS
<1>1. CASE Asleep \/ Settle \/ UNCHANGED vars
  <2>1. UNCHANGED <<screenVars, lightVars, askVars, queue, helperVars>>
        /\ calm' \in {calm, TRUE}
    BY <1>1 DEF Asleep, Settle, vars
  <2>2. ScreenTypes'
    BY <2>1 DEF screenVars, lightVars, Types, ScreenTypes
  <2>3. AskTypes'
    BY <2>1 DEF askVars, Types, AskTypes
  <2>4. HelperTypes'
    BY <2>1 DEF helperVars, Types, HelperTypes
  <2> QED BY <2>2, <2>3, <2>4 DEF Types
<1> QED BY <1>1, PageKeeps, ServeKeeps, HelperKeeps DEF Next

(* Every variable keeps its type, the requests on their way included.      *)
THEOREM ScreenIsTyped == Spec => []TypeOK
<1>1. Types <=> TypeOK
  BY DEF Types, ScreenTypes, AskTypes, HelperTypes, TypeOK
<1> QED BY <1>1, TypesInit, TypesStep, PTL DEF Spec

-----------------------------------------------------------------------------
(* The doorbell's popup keeps the screen on.                               *)
THEOREM DoorbellKeepsScreenOn == Spec => []DoorbellStaysOn
<1>1. Init => DoorbellStaysOn
  BY DEF Init, DoorbellStaysOn
<1>2. ASSUME TypeOK, DoorbellStaysOn, [Next]_vars PROVE DoorbellStaysOn'
  <2> USE <1>2 DEF DoorbellStaysOn
  <2>1. CASE UNCHANGED screenVars
    BY <2>1 DEF screenVars
  <2>2. ASSUME NEW b \in BOOLEAN, Bump(b) PROVE DoorbellStaysOn'
    BY <2>2 DEF Bump, TimerAfterBump
  <2>3. CASE GoIdle \/ GoBlank
    <3>1. timer # None
      BY <2>3, NoTimerAssumption DEF GoIdle, GoBlank
    <3> QED BY <2>3, <3>1 DEF GoIdle, GoBlank
  <2>4. CASE SleepNow
    BY <2>4 DEF SleepNow
  <2>5. CASE Touch \/ OpenDoorbell \/ CloseDoorbell \/ Identify
             \/ \E b \in 1..Full : Slide(b)
    BY <2>2, <2>5 DEF Touch, OpenDoorbell, CloseDoorbell, Identify, Slide, TypeOK
  <2>6. CASE \/ Light \/ IdentifyEnds \/ Serve \/ Tick \/ Asleep \/ Settle
             \/ Mishap \/ UNCHANGED vars \/ \E b \in 1..Full : Sensor(b)
    BY <2>1, <2>6 DEF Light, IdentifyEnds, Serve, Tick, Asleep, Settle, Mishap,
         vars, Sensor, Timeout, ServeFails, TickFails, HelperRestarts, BlankedElsewhere
  <2> QED BY <2>3, <2>4, <2>5, <2>6 DEF Next, Page, Person
<1> QED BY <1>1, <1>2, ScreenIsTyped, PTL DEF Spec

(* A hardware that is blanked stays so until a request for light.          *)
THEOREM BlankedHardwareStays == Spec => BlankStands
<1>1. ASSUME TypeOK, [Next]_vars
      PROVE  [dark /\ ~dark' => queue # <<>> /\ Head(queue) > 0 /\ queue' # queue]_vars
  <2> SUFFICES ASSUME dark, ~dark'
               PROVE  queue # <<>> /\ Head(queue) > 0 /\ queue' # queue
    OBVIOUS
  <2>1. Serve
    BY <1>1 DEF Next, Page, Person, Mishap, GoIdle, GoBlank, Light, IdentifyEnds,
         CloseDoorbell, Touch, OpenDoorbell, Identify, SleepNow, Slide, Sensor,
         Tick, Asleep, Settle, Timeout, ServeFails, TickFails, HelperRestarts,
         BlankedElsewhere, vars, helperVars
  <2>2. queue # <<>> /\ Head(queue) # 0 /\ Head(queue) \in Level
    BY <1>1, <2>1 DEF Serve, Blanked, TypeOK
  <2>3. queue' # queue
    BY <1>1, <2>1, <2>2 DEF Serve, AnswerTaken, Awaited, TypeOK
  <2> QED BY <2>2, <2>3 DEF Level
<1> QED BY <1>1, ScreenIsTyped, PTL DEF Spec, BlankStands

-----------------------------------------------------------------------------
(* What the hardware does between the answers, and that the page awaits    *)
(* the last request that has reached the helper.                           *)
FadeInv ==
    /\ fading => target # 0
    /\ ~fading /\ ~error /\ target \notin {None, 0} => level = target

InOrder == req # None => queue # <<>> /\ queue[Len(queue)] = req

BeliefInv == Types /\ FadeInv /\ InOrder

LEMMA FadeStep ==
    ASSUME Types, FadeInv, [Next]_vars
    PROVE  FadeInv'
<1>0. HelperTypes /\ AskTypes
  BY DEF Types
<1>1. CASE UNCHANGED <<target, fading, error, level>>
  BY <1>1 DEF FadeInv
<1>2. CASE Serve
  <2>1. Head(queue) \in Level
    BY <1>0, <1>2 DEF Serve, AskTypes
  <2>2. CASE Head(queue) = 0
    BY <1>2, <2>2 DEF Serve, Blanked, FadeInv
  <2>3. CASE Head(queue) # 0
    BY <1>2, <2>3 DEF Serve, Retargeted, FadeInv, helperVars
  <2> QED BY <2>2, <2>3
<1>3. CASE Tick
  BY <1>0, <1>3 DEF Tick, FadeInv, HelperTypes
<1>4. CASE TickFails \/ HelperRestarts
  BY <1>4 DEF TickFails, HelperRestarts, FadeInv
<1>5. CASE Page \/ Person
  <2>1. UNCHANGED helperVars
    BY <1>5 DEF Page, Person, GoIdle, GoBlank, Light, IdentifyEnds, CloseDoorbell,
           Touch, OpenDoorbell, Identify, SleepNow, Slide, Sensor
  <2> QED BY <1>1, <2>1 DEF helperVars
<1>6. CASE Asleep \/ Settle \/ Timeout \/ ServeFails \/ BlankedElsewhere \/ UNCHANGED vars
  BY <1>1, <1>6 DEF Asleep, Settle, Timeout, ServeFails, BlankedElsewhere, vars, helperVars
<1> QED BY <1>2, <1>3, <1>4, <1>5, <1>6 DEF Next, Mishap

(* A page that awaits an answer asks for nothing; one that asks goes to    *)
(* the end.                                                                *)
LEMMA AskInOrder ==
    ASSUME AskTypes, InOrder, NEW v \in Level, NEW w \in Level,
           SetBacklights(v, w) \/ SameBacklight
    PROVE  InOrder'
<1>1. CASE UNCHANGED <<req, queue>>
  BY <1>1 DEF InOrder
<1>2. ASSUME NEW x \in Level, req' = x, queue' = Append(queue, x)
      PROVE  InOrder'
  BY <1>2 DEF AskTypes, InOrder
<1> QED BY <1>1, <1>2 DEF SetBacklights, Ask, SameBacklight, askVars

(* What is served is the first request, and the last stays where it is.    *)
LEMMA LastStaysLast ==
    ASSUME NEW S, NEW q \in Seq(S), q # <<>>, Len(q) # 1
    PROVE  Tail(q) # <<>> /\ Tail(q)[Len(Tail(q))] = q[Len(q)]
<1>0. Len(q) \in Nat \ {0}
  BY EmptySeq
<1>1. Len(q) \in Nat /\ Len(q) > 1
  <2>1. \A n \in Nat \ {0} : n # 1 => n > 1
    OBVIOUS
  <2> QED BY <1>0, <2>1, Zenon
<1>2. Len(Tail(q)) = Len(q) - 1
  BY <1>1
<1>3. Len(Tail(q)) \in 1..Len(Tail(q))
  BY <1>1, <1>2
<1>4. Tail(q)[Len(Tail(q))] = q[Len(Tail(q)) + 1]
  BY <1>3
<1>5. Tail(q) \in Seq(S) /\ Len(Tail(q)) # 0
  BY <1>1, <1>2
<1>6. Tail(q) # <<>>
  BY <1>5, EmptySeq
<1> QED BY <1>2, <1>4, <1>6, <1>1

LEMMA OnlyOne == \A x : <<x>> # <<>> /\ <<x>>[Len(<<x>>)] = x
OBVIOUS

LEMMA InOrderStep ==
    ASSUME Types, InOrder, [Next]_vars
    PROVE  InOrder'
<1>0. ScreenTypes /\ AskTypes
  BY DEF Types
<1>1. CASE Page \/ Person
  <2>1. \E v, w \in Level : SetBacklights(v, w) \/ SameBacklight
    <3>1. AfterIdentify \in Level /\ bright \in Level
      BY <1>0, LevelTypes DEF AfterIdentify, ScreenTypes
    <3>2. CASE Page
      BY <3>1, <3>2, LevelTypes
      DEF Page, GoIdle, GoBlank, Light, IdentifyEnds, CloseDoorbell, SetBacklight
    <3>3. CASE SleepNow
      <4>1. /\ Brightness(screen', bright) \in Level
            /\ (IF screen = "blanked" THEN 0 ELSE Dim) \in Level
        BY <1>0, LevelTypes DEF ScreenTypes
      <4> QED BY <3>3, <4>1 DEF SleepNow
    <3>4. ASSUME NEW b \in 1..Full, Slide(b) \/ Sensor(b)
          PROVE  \E v, w \in Level : SetBacklights(v, w) \/ SameBacklight
      BY <3>4, LevelTypes DEF Slide, Sensor, SetBacklight
    <3>5. CASE Touch \/ OpenDoorbell \/ Identify
      BY <3>5, LevelTypes DEF Touch, OpenDoorbell, Identify, SetBacklight
    <3> QED BY <1>1, <3>2, <3>3, <3>4, <3>5 DEF Person
  <2> QED BY <1>0, <2>1, AskInOrder
<1>2. CASE Serve
  <2>1. CASE Awaited
    <3>1. req' # None => queue' = <<req'>>
      BY <1>2, <2>1 DEF Serve, AnswerTaken
    <3>2. <<req'>> # <<>> /\ <<req'>>[Len(<<req'>>)] = req'
      BY OnlyOne
    <3> QED BY <3>1, <3>2 DEF InOrder
  <2>2. CASE ~Awaited
    <3>1. queue' = Tail(queue) /\ req' = req /\ queue # <<>>
      BY <1>2, <2>2 DEF Serve
    <3>2. req # None => queue \in Seq(Level) /\ Len(queue) # 1
      BY <1>0, <2>2 DEF Awaited, AskTypes
    <3>3. req # None => Tail(queue) # <<>> /\ Tail(queue)[Len(Tail(queue))] = queue[Len(queue)]
      BY <3>1, <3>2, LastStaysLast
    <3> QED BY <3>1, <3>3 DEF InOrder
  <2> QED BY <2>1, <2>2
<1>3. CASE ServeFails
  <2>1. queue' = Tail(queue) /\ queue # <<>>
    BY <1>3 DEF ServeFails
  <2>2. req' # None => req' = req /\ queue \in Seq(Level) /\ Len(queue) # 1
    BY <1>0, <1>3 DEF ServeFails, Awaited, AskTypes
  <2>3. req' # None => Tail(queue) # <<>> /\ Tail(queue)[Len(Tail(queue))] = queue[Len(queue)]
    BY <2>1, <2>2, LastStaysLast
  <2> QED BY <2>1, <2>2, <2>3 DEF InOrder
<1>4. CASE Timeout \/ HelperRestarts
  BY <1>4 DEF Timeout, HelperRestarts, InOrder
<1>5. CASE Tick \/ TickFails \/ BlankedElsewhere \/ Asleep \/ Settle \/ UNCHANGED vars
  BY <1>5 DEF Tick, TickFails, BlankedElsewhere, Asleep, Settle, vars, askVars, InOrder
<1> QED BY <1>1, <1>2, <1>3, <1>4, <1>5 DEF Next, Mishap

LEMMA BeliefAlways == Spec => []BeliefInv
<1>1. Init => BeliefInv
  <2>1. ASSUME Init PROVE FadeInv /\ InOrder
    BY <2>1 DEF Init, FadeInv, InOrder
  <2> QED BY <2>1, TypesInit DEF BeliefInv
<1>2. BeliefInv /\ [Next]_vars => BeliefInv'
  BY TypesStep, FadeStep, InOrderStep DEF BeliefInv
<1> QED BY <1>1, <1>2, PTL DEF Spec

-----------------------------------------------------------------------------
(* The belief begins with the answer to the request that is awaited,       *)
LEMMA BeliefBegins ==
    ASSUME BeliefInv, Serve, Awaited
    PROVE  Believes'
<1>0. AskTypes /\ HelperTypes /\ FadeInv /\ InOrder
  BY DEF BeliefInv, Types
<1> DEFINE v == Head(queue)
<1>1. v \in Level /\ v # None
  BY <1>0 DEF Serve, AskTypes, Level
<1>2. /\ applied' = v /\ wanted' = wanted
      /\ queue' = IF req' = None THEN <<>> ELSE <<req'>>
      /\ req' = None => v = wanted
  <2>1. wanted # None
    BY <1>0 DEF AskTypes, Level
  <2> QED BY <2>1 DEF Serve, AnswerTaken
<1>3. /\ target' = v /\ ~error'
      /\ IF v = 0 THEN dark' /\ level' = 0 /\ ~fading' ELSE ~dark' /\ (fading' \/ level' = v)
  <2>1. CASE v = 0
    BY <2>1 DEF Serve, Blanked
  <2>2. CASE v # 0 /\ v = target /\ ~error /\ ~dark
    <3>1. UNCHANGED helperVars
      BY <2>2 DEF Serve, Retargeted
    <3>2. fading \/ level = target
      BY <1>0, <1>1, <2>2 DEF FadeInv
    <3> QED BY <2>2, <3>1, <3>2 DEF helperVars
  <2>3. CASE v # 0 /\ ~(v = target /\ ~error /\ ~dark)
    BY <2>3 DEF Serve, Retargeted
  <2> QED BY <2>1, <2>2, <2>3
<1> QED BY <1>2, <1>3 DEF Believes, Off

(* and outlasts whatever the page asks for, one request at a time,         *)
LEMMA BelieverAsks ==
    ASSUME Believes, AskTypes, NEW v \in Level, SetBacklight(v), UNCHANGED helperVars
    PROVE  Believes'
<1>1. v # None
  BY DEF Level
<1>2. CASE req = None /\ v # applied
  <2>1. req' = v /\ queue' = <<v>> /\ applied' = applied
    BY <1>2 DEF SetBacklight, SetBacklights, Ask, Believes
  <2> QED BY <1>1, <2>1 DEF Believes, Off, helperVars
<1>3. CASE ~(req = None /\ v # applied)
  <2>1. UNCHANGED <<req, queue, applied>> /\ wanted' = v
    BY <1>3 DEF SetBacklight, SetBacklights, Ask
  <2> QED BY <1>3, <2>1 DEF Believes, Off, helperVars
<1> QED BY <1>2, <1>3

LEMMA BeliefStep ==
    ASSUME BeliefInv, calm, Believes, [Next]_vars
    PROVE  Believes'
<1>0. ScreenTypes /\ AskTypes /\ HelperTypes /\ FadeInv
  BY DEF BeliefInv, Types
<1>1. CASE CloseDoorbell \/ Asleep \/ Settle \/ UNCHANGED vars
  <2>1. UNCHANGED <<askVars, queue, helperVars>>
    BY <1>1 DEF CloseDoorbell, Asleep, Settle, vars, SameBacklight
  <2>2. UNCHANGED <<wanted, applied, req, queue, target, fading, error, level, dark>>
    BY <2>1 DEF askVars, helperVars
  <2> QED BY <2>2 DEF Believes, Off
<1>2. CASE GoIdle \/ GoBlank \/ Light \/ IdentifyEnds
  <2>1. /\ UNCHANGED helperVars
        /\ SetBacklight(Dim) \/ SetBacklight(0) \/ SetBacklight(bright)
           \/ SetBacklight(AfterIdentify)
    BY <1>2 DEF GoIdle, GoBlank, Light, IdentifyEnds
  <2>2. AfterIdentify \in Level /\ bright \in Level
    BY <1>0, LevelTypes DEF AfterIdentify, ScreenTypes
  <2> QED BY <1>0, <2>1, <2>2, LevelTypes, BelieverAsks
<1>3. CASE Serve
  <2>1. Awaited
    BY <1>3 DEF Serve, Awaited, Believes
  <2> QED BY <1>3, <2>1, BeliefBegins
<1>4. CASE Tick
  <2>1. applied # 0
    BY <1>4 DEF Tick, Believes
  <2>2. UNCHANGED <<askVars, queue, target, error, dark>> /\ fading' = (level' # target)
    BY <1>4 DEF Tick
  <2>3. fading' \/ level' = target
    BY <2>2
  <2> QED BY <2>1, <2>2, <2>3 DEF Believes, askVars
<1> QED BY <1>1, <1>2, <1>3, <1>4 DEF Next, Page

(* In the calm the page's belief about the hardware becomes true with the  *)
(* first answer it awaited, and stays true.                                *)
THEOREM BeliefIsKept == Spec => BeliefHolds
<1>1. BeliefInv /\ [Next]_vars =>
          [calm /\ (Believes \/ (Serve /\ Awaited)) => Believes']_vars
  BY BeliefBegins, BeliefStep
<1> QED BY <1>1, BeliefAlways, PTL DEF Spec, BeliefHolds

(* From then on a page at rest shows what it wants: when it awaits nothing *)
(* and the fade is over, its last wish is what the hardware shows.         *)
THEOREM RestShowsWanted ==
    Spec => [](calm /\ Believes =>
                  [](req = None /\ ~fading => applied = wanted /\ Shows(wanted)))
<1>1. BeliefInv /\ (calm /\ Believes) /\ [Next]_vars => (calm /\ Believes)'
  <2>1. ASSUME calm, [Next]_vars PROVE calm'
    BY <2>1 DEF Next, Page, GoIdle, GoBlank, Light, IdentifyEnds, CloseDoorbell, Serve,
           Tick, Asleep, Settle, vars
  <2> QED BY <2>1, BeliefStep
<1>2. calm /\ Believes => (req = None /\ ~fading => applied = wanted /\ Shows(wanted))
  BY DEF Believes, Shows, Off
<1> QED BY <1>1, <1>2, BeliefAlways, PTL DEF Spec
=============================================================================
