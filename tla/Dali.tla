-------------------------------- MODULE Dali --------------------------------
(***************************************************************************)
(* The agent's dali_loop (agent/panel-agent.py): it asks the DALI gateway  *)
(* of the panel's config for its devices, holds the gateway's websocket,   *)
(* keeps a cache of the lights and starts anew when the config changes.    *)
(*                                                                         *)
(* Nothing promises that the gateway pushes every change, and what happens *)
(* between the first reading and the socket is not pushed at all; a config *)
(* may therefore ask for polling.  SideTasks says when the agent runs.     *)
(***************************************************************************)
EXTENDS Integers, Sequences

CONSTANTS Gateways, Lights,
          Polled,     \* gateways whose config sets poll_s
          Levels,     \* of a light
          MaxEvents,  \* bound: events in the socket
          Unset       \* no gateway, no such light

ASSUME DaliAssumption ==
    /\ Polled \subseteq Gateways /\ MaxEvents \in Nat
    /\ Unset \notin Gateways /\ Unset \notin Levels

VARIABLES
    \* on the card
    gateway,   \* the one config.json names
    \* the agent
    phase,     \* where dali_loop is
    session,   \* its cfg: the gateway it is busy with
    status,    \* DALI_STATE["status"]
    lights,    \* DALI_STATE["devices"]
    post,      \* a control whose answer dali_control awaits
    \* the gateways
    answering, \* those that can be reached
    level,     \* level[g][d]: what the bus shows
    events     \* sent on the session's socket, and not yet received

daliMemory == <<phase, session, status, lights, post, events>>
daliVars == <<gateway, daliMemory, answering, level>>

Nothing == [d \in Lights |-> Unset]

----------------------------------------------------------------------------
(* _dali_ingest folds the devices it is given into the cache.              *)
Ingested(devices) ==
    [d \in Lights |-> IF devices[d] = Unset THEN lights[d] ELSE devices[d]]

TurnsOff_KeepsLights ==
    /\ phase = "top" /\ gateway = Unset /\ status # "off"
    /\ status' = "off"
    /\ UNCHANGED <<gateway, phase, session, lights, post, events, answering, level>>

(* No gateway is configured: forget what the last one said.                *)
TurnsOff ==
    /\ phase = "top" /\ gateway = Unset /\ status # "off"
    /\ status' = "off" /\ lights' = Nothing
    /\ UNCHANGED <<gateway, phase, session, post, events, answering, level>>

TakesConfig ==
    /\ phase = "top" /\ gateway # Unset
    /\ session' = gateway /\ phase' = "prime"
    /\ UNCHANGED <<gateway, status, lights, post, events, answering, level>>

(* dali_prime *)
Primes ==
    /\ phase = "prime" /\ session \in answering
    /\ lights' = Ingested(level[session]) /\ phase' = "connect"
    /\ UNCHANGED <<gateway, session, status, post, events, answering, level>>

Connects ==
    /\ phase = "connect" /\ session \in answering
    /\ status' = "connected" /\ phase' = "socket"
    /\ UNCHANGED <<gateway, session, lights, post, events, answering, level>>

(* A request, the handshake or the socket raises.                          *)
Unreachable ==
    /\ phase \in {"prime", "connect", "socket"}
    /\ status' = "unreachable" /\ phase' = "backoff" /\ events' = <<>>
    /\ UNCHANGED <<gateway, session, lights, post, answering, level>>

(* The gateway closes the socket: the status stays until the next attempt. *)
Closed ==
    /\ phase = "socket" /\ gateway = session
    /\ phase' = "backoff" /\ events' = <<>>
    /\ UNCHANGED <<gateway, session, status, lights, post, answering, level>>

Retries ==
    /\ phase = "backoff"
    /\ phase' = "top" /\ session' = Unset
    /\ UNCHANGED <<gateway, status, lights, post, events, answering, level>>

Reconfigured_WhenItCloses ==
    /\ phase = "socket" /\ gateway # session /\ session \notin answering
    /\ phase' = "top" /\ session' = Unset /\ events' = <<>>
    /\ UNCHANGED <<gateway, status, lights, post, answering, level>>

(* After each message, and every second without one, the config is read    *)
(* again.                                                                  *)
Reconfigured ==
    /\ phase = "socket" /\ gateway # session
    /\ phase' = "top" /\ session' = Unset /\ events' = <<>>
    /\ UNCHANGED <<gateway, status, lights, post, answering, level>>

(* _dali_event.  The devices of a devicesDeleted event are folded in, too. *)
Hears ==
    /\ phase = "socket" /\ gateway = session /\ events # <<>>
    /\ lights' = [lights EXCEPT ![Head(events).light] = Head(events).level]
    /\ events' = Tail(events)
    /\ UNCHANGED <<gateway, phase, session, status, post, answering, level>>

Polls_Never == FALSE /\ UNCHANGED daliVars

Polls ==
    /\ phase = "socket" /\ gateway = session
    /\ session \in Polled /\ session \in answering
    /\ lights' = Ingested(level[session])
    /\ UNCHANGED <<gateway, phase, session, status, post, events, answering, level>>

----------------------------------------------------------------------------
(* The bus shows l, and this may reach the session's socket.               *)
BusShows(g, d, l) ==
    /\ level' = [level EXCEPT ![g][d] = l]
    /\ \/ UNCHANGED events
       \/ /\ phase = "socket" /\ session = g /\ Len(events) < MaxEvents
          /\ events' = Append(events, [light |-> d,
                                       level |-> IF l = Unset THEN level[g][d] ELSE l])

(* Somebody uses the light, or it is added or removed.                     *)
BusChanges(g, d, l) ==
    /\ level[g][d] # l
    /\ BusShows(g, d, l)
    /\ UNCHANGED <<gateway, phase, session, status, lights, post, answering>>

(* dali_control posts to the gateway configured now, and reflects the      *)
(* answer in the cache, if it has the light.                               *)
Control(d, l) ==
    /\ post = Unset /\ gateway # Unset /\ gateway \in answering
    /\ level[gateway][d] # Unset
    /\ BusShows(gateway, d, l)
    /\ post' = [light |-> d, level |-> l]
    /\ UNCHANGED <<gateway, phase, session, status, lights, answering>>

ControlAnswered ==
    /\ post # Unset
    /\ lights' = IF lights[post.light] = Unset THEN lights
                 ELSE [lights EXCEPT ![post.light] = post.level]
    /\ post' = Unset
    /\ UNCHANGED <<gateway, phase, session, status, events, answering, level>>

ControlFails ==
    /\ post # Unset
    /\ post' = Unset
    /\ UNCHANGED <<gateway, phase, session, status, lights, events, answering, level>>

(* The config on the card changes: see ConfigSync.                         *)
Configure(g) ==
    /\ gateway' = g
    /\ UNCHANGED <<daliMemory, answering, level>>

GatewayChanges(S) ==
    /\ answering' = S
    /\ UNCHANGED <<gateway, daliMemory, level>>

----------------------------------------------------------------------------
DaliStarts ==
    /\ phase' = "top" /\ session' = Unset /\ status' = "off"
    /\ lights' = Nothing /\ post' = Unset /\ events' = <<>>
    /\ UNCHANGED <<gateway, answering, level>>

DaliInit ==
    /\ gateway = Unset
    /\ phase = "top" /\ session = Unset /\ status = "off"
    /\ lights = Nothing /\ post = Unset /\ events = <<>>
    /\ answering = Gateways
    /\ level = [g \in Gateways |-> Nothing]

DaliLoop ==
    \/ TurnsOff \/ TakesConfig \/ Primes \/ Connects
    \/ Retries \/ Reconfigured
    \/ session \notin answering /\ Unreachable

DaliFails == Unreachable \/ Closed \/ ControlFails

DaliTrouble ==
    \/ \E g \in Gateways, d \in Lights, l \in Levels \cup {Unset} : BusChanges(g, d, l)
    \/ \E g \in Gateways \cup {Unset} : Configure(g)
    \/ \E S \in SUBSET Gateways : GatewayChanges(S)

DaliAsked == \E d \in Lights, l \in Levels : Control(d, l)

DaliTypes ==
    /\ gateway \in Gateways \cup {Unset} /\ session \in Gateways \cup {Unset}
    /\ phase \in {"top", "prime", "connect", "socket", "backoff"}
    /\ phase # "top" <=> session # Unset
    /\ status \in {"off", "connected", "unreachable"}
    /\ lights \in [Lights -> Levels \cup {Unset}]
    /\ post \in [light : Lights, level : Levels] \cup {Unset}
    /\ answering \subseteq Gateways
    /\ level \in [Gateways -> [Lights -> Levels \cup {Unset}]]
    /\ events \in Seq([light : Lights, level : Levels])
    /\ phase # "socket" => events = <<>>
=============================================================================
