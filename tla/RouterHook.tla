----------------------------- MODULE RouterHook -----------------------------
(***************************************************************************)
(* The inbound half of the plugin: the pre_gateway_dispatch hook (_hook in *)
(* __init__.py around handle_pre_gateway_dispatch in router.py) with the   *)
(* module state it shares from one event to the next.                      *)
(*                                                                         *)
(* The gateway calls the hook on its event-loop thread, one event after    *)
(* the other.  One call is several steps, because Redis can go down or     *)
(* come back between them: get the cached client or connect; decide, which *)
(* needs no Redis; connect again if no client was handed over; XADD; start *)
(* the relay, connecting once more if there is still no client.            *)
(*                                                                         *)
(* An event is abstracted to its surface and to what the matcher and the   *)
(* guards make of its text:                                                *)
(*   connect    a connect or switch phrase with a valid session name       *)
(*   disconnect, list, start, stop   the other control phrases             *)
(*   text       any other text                                             *)
(*   blank      no text (an attachment)                                    *)
(*   invalid    text that fails validation of Inbound                      *)
(*   nosurface  no user or chat id                                         *)
(* Events are numbered in the order they are handled.                      *)
(***************************************************************************)
EXTENDS RoutingState, Naturals, Sequences, FiniteSets, FiniteSetsExt

CONSTANTS MaxEvents,     \* bound: events of the run
          MaxFaults,     \* bound: XADDs whose answer is lost
          MaxRestarts    \* bound: times the process dies

ASSUME HookAssumption == {MaxEvents, MaxFaults, MaxRestarts} \subseteq Nat

VARIABLES redisUp,    \* Redis takes connections and commands
          client,     \* _redis: a client is cached
          gateway,    \* _gateway: the gateway was captured
          relay,      \* _relay: the outbound relay was built and started
          routing,    \* the RoutingState singleton
          inbound,    \* what was added to each session's inbound stream
          pc,         \* the step the hook is at
          handed,     \* the client argument of the router is not None
          result,     \* what the router returns for the event
          dest,       \* the session the event goes to, read from routing
          history,    \* every event and what the gateway was answered
          restarts,   \* numbers of the events before which memory was lost
          attempts,   \* calls of from_env during the event
          faults

memory == <<client, gateway, relay, routing>>
call == <<pc, handed, result, dest, history, attempts>>
vars == <<redisUp, memory, inbound, call, restarts, faults>>

ControlKinds == {"connect", "disconnect", "list", "start", "stop"}
Kinds == ControlKinds \cup {"text", "blank", "invalid", "nosurface"}
Results == {"llm", "handled", "routed", "dropped"}

now == Len(history)          \* the number of the event being handled
event == history[now]

-----------------------------------------------------------------------------
Init ==
  /\ redisUp \in BOOLEAN
  /\ client = FALSE /\ gateway = FALSE /\ relay = FALSE
  /\ routing = InitRouting
  /\ inbound = [s \in Session |-> << >>]
  /\ pc = "idle" /\ handed = FALSE /\ result = "llm" /\ dest = NoTarget
  /\ history = << >>
  /\ restarts = {}
  /\ attempts = 0
  /\ faults = 0

(* Mutant of Connect: a failed attempt is repeated.                        *)
ConnectTwice(made) == made = redisUp /\ attempts' = attempts + IF made THEN 1 ELSE 2

(* Mutant of Connect: an attempt waits until Redis is there.               *)
ConnectPatiently(made) == made /\ redisUp /\ attempts' = attempts + 1

(* A call of RouterRedis.from_env, which connects and pings.  Attempts of  *)
(* a client that exists to connect again, inside its commands, are not     *)
(* counted.                                                                *)
Connect(made) == made = redisUp /\ attempts' = attempts + 1

-----------------------------------------------------------------------------
(* The gateway dispatches an event.                                        *)
Arrive(k, kind, s) ==
  /\ pc = "idle"
  /\ now < MaxEvents
  /\ (kind = "connect") <=> (s # NoTarget)
  /\ history' = Append(history, [surface |-> k, kind |-> kind, session |-> s,
                                 answer |-> "none", cached |-> client])
  /\ pc' = "client"
  /\ attempts' = 0
  /\ UNCHANGED <<redisUp, memory, inbound, handed, result, dest, restarts, faults>>

(* _hook: the cached client, or a connection that is cached, or None.      *)
GetClient ==
  /\ pc = "client"
  /\ pc' = "decide"
  /\ \/ client /\ handed' = TRUE /\ UNCHANGED <<client, attempts>>
     \/ /\ ~client
        /\ \E made \in BOOLEAN : Connect(made) /\ client' = made /\ handed' = made
  /\ UNCHANGED <<redisUp, gateway, relay, routing, inbound, result, dest,
                 history, restarts, faults>>

(* The router answers without Redis.                                       *)
Answer(r) == result' = r /\ pc' = "relay"

(* The first event that carries a gateway has it captured, whatever else   *)
(* the event is.                                                           *)
Capture == gateway' \in {gateway, TRUE}

(* Mutant of ApplyControl: a control phrase needs Redis.                   *)
ApplyControlWithRedis ==
  /\ event.kind \in ControlKinds
  /\ routing' = IF handed /\ event.kind = "connect"
                  THEN SetTarget(routing, event.surface, event.session)
                  ELSE routing
  /\ Answer(IF handed THEN "handled" ELSE "dropped")
  /\ UNCHANGED dest

ApplyControl ==
  /\ event.kind \in ControlKinds
  /\ routing' = CASE event.kind = "connect" -> SetTarget(routing, event.surface, event.session)
                  [] event.kind = "disconnect" -> ClearTarget(routing, event.surface)
                  [] event.kind = "start" -> SetRouting(routing, event.surface, TRUE)
                  [] event.kind = "stop" -> SetRouting(routing, event.surface, FALSE)
                  [] event.kind = "list" -> routing
  /\ Answer("handled")
  /\ UNCHANGED dest

(* No identity, no target or no text: the gateway's own LLM answers.       *)
PassThrough ==
  /\ \/ event.kind \in {"nosurface", "blank"}
     \/ /\ event.kind \in {"text", "invalid"}
        /\ GetTarget(routing, event.surface) = NoTarget
  /\ Answer("llm")
  /\ UNCHANGED <<routing, dest>>

DropInvalid ==
  /\ event.kind = "invalid"
  /\ GetTarget(routing, event.surface) # NoTarget
  /\ Answer("dropped")
  /\ UNCHANGED <<routing, dest>>

(* Mutant of RouteText: the client that was handed over is not looked at.  *)
RouteTextConnecting ==
  /\ event.kind = "text"
  /\ GetTarget(routing, event.surface) # NoTarget
  /\ dest' = GetTarget(routing, event.surface)
  /\ pc' = "connect"
  /\ UNCHANGED <<routing, result>>

RouteText ==
  /\ event.kind = "text"
  /\ GetTarget(routing, event.surface) # NoTarget
  /\ dest' = GetTarget(routing, event.surface)
  /\ pc' = IF handed THEN "xadd" ELSE "connect"
  /\ UNCHANGED <<routing, result>>

Decide ==
  /\ pc = "decide"
  /\ Capture
  /\ ApplyControl \/ PassThrough \/ DropInvalid \/ RouteText
  /\ UNCHANGED <<redisUp, client, relay, inbound, handed, history, restarts,
                 attempts, faults>>

(* The router's own from_env: its client is used once and not cached.      *)
RouterConnects ==
  /\ pc = "connect"
  /\ \E made \in BOOLEAN :
       /\ Connect(made)
       /\ IF made THEN pc' = "xadd" /\ UNCHANGED result ELSE Answer("dropped")
  /\ UNCHANGED <<redisUp, memory, inbound, handed, dest, history, restarts, faults>>

(* xadd_model.  redis-py sends a command again when its answer does not    *)
(* come, so a fault can leave the message there never, once or twice, and  *)
(* the call can fail with the message there.  inbound is the log of what   *)
(* was added, in event numbers: what MAXLEN trims from the stream later    *)
(* stays in it.                                                            *)
Deliver(copies) ==
  inbound' = [inbound EXCEPT ![dest] = @ \o [i \in 1..copies |-> now]]

XaddSucceeds ==
  /\ pc = "xadd"
  /\ redisUp
  /\ Deliver(1)
  /\ Answer("routed")
  /\ UNCHANGED <<redisUp, memory, handed, dest, history, restarts, attempts, faults>>

(* Mutant of XaddRefused: in an outage the agent's LLM answers.            *)
XaddFallsBack ==
  /\ pc = "xadd"
  /\ ~redisUp
  /\ Answer("llm")
  /\ UNCHANGED <<redisUp, memory, inbound, handed, dest, history, restarts,
                 attempts, faults>>

(* Redis is down: the call fails, with a client that was just made or with *)
(* the cached one, which tries to connect again inside the call.           *)
XaddRefused ==
  /\ pc = "xadd"
  /\ ~redisUp
  /\ Answer("dropped")
  /\ UNCHANGED <<redisUp, memory, inbound, handed, dest, history, restarts,
                 attempts, faults>>

(* Mutant of XaddAnswerLost: the error of the call is swallowed.           *)
XaddErrorSwallowed ==
  /\ pc = "xadd"
  /\ faults < MaxFaults
  /\ faults' = faults + 1
  /\ \E copies \in 0..2 : Deliver(copies)
  /\ Answer("routed")
  /\ UNCHANGED <<redisUp, memory, handed, dest, history, restarts, attempts>>

(* Mutant of XaddAnswerLost: the router tries again after the error.       *)
XaddRetries ==
  /\ pc = "xadd"
  /\ faults < MaxFaults
  /\ faults' = faults + 1
  /\ \E copies \in 0..2 : Deliver(copies)
  /\ UNCHANGED <<redisUp, memory, pc, result, handed, dest, history, restarts, attempts>>

XaddAnswerLost ==
  /\ pc = "xadd"
  /\ faults < MaxFaults
  /\ faults' = faults + 1
  /\ \/ \E copies \in 0..2 : Deliver(copies) /\ Answer("dropped")
     \/ Deliver(2) /\ Answer("routed")
  /\ UNCHANGED <<redisUp, memory, handed, dest, history, restarts, attempts>>

(* _maybe_start_relay, then the hook returns the router's result.          *)
Return ==
  /\ history' = [history EXCEPT ![now].answer = result]
  /\ pc' = "idle" /\ handed' = FALSE /\ result' = "llm" /\ dest' = NoTarget

RelayNotNeeded ==
  /\ pc = "relay"
  /\ ~gateway \/ relay
  /\ Return
  /\ UNCHANGED <<redisUp, memory, inbound, restarts, attempts, faults>>

StartRelay ==
  /\ pc = "relay"
  /\ gateway /\ ~relay
  /\ \/ client /\ relay' = TRUE /\ UNCHANGED <<client, attempts>>
     \/ /\ ~client
        /\ \E made \in BOOLEAN : Connect(made) /\ client' = made /\ relay' = made
  /\ Return
  /\ UNCHANGED <<redisUp, gateway, routing, inbound, restarts, faults>>

-----------------------------------------------------------------------------
RedisChanges ==
  /\ redisUp' = ~redisUp
  /\ UNCHANGED <<memory, inbound, call, restarts, faults>>

(* /cc list, a synchronous command that runs between two events, connects  *)
(* like the hook, and its client is cached too.  With a client cached, or  *)
(* Redis down, it leaves the plugin as it was.  (What it lists:            *)
(* PresenceReader.)                                                        *)
ListCommand ==
  /\ pc = "idle"
  /\ ~client /\ redisUp
  /\ client' = TRUE
  /\ UNCHANGED <<redisUp, gateway, relay, routing, inbound, call, restarts, faults>>

(* The process dies and is loaded again: all plugin state is in memory.    *)
(* An event in the middle of the hook gets no answer.                      *)
Restart ==
  /\ Cardinality(restarts) < MaxRestarts
  /\ now + 1 \notin restarts
  /\ restarts' = restarts \cup {now + 1}
  /\ client' = FALSE /\ gateway' = FALSE /\ relay' = FALSE
  /\ routing' = InitRouting
  /\ pc' = "idle" /\ handed' = FALSE /\ result' = "llm" /\ dest' = NoTarget
  /\ attempts' = 0
  /\ UNCHANGED <<redisUp, inbound, history, faults>>

HookStep ==
  \/ GetClient \/ Decide \/ RouterConnects
  \/ XaddSucceeds \/ XaddRefused \/ XaddAnswerLost
  \/ RelayNotNeeded \/ StartRelay

Next ==
  \/ \E k \in Surface, kind \in Kinds, s \in Session \cup {NoTarget} :
       Arrive(k, kind, s)
  \/ HookStep
  \/ ListCommand
  \/ RedisChanges
  \/ Restart

Spec == Init /\ [][Next]_vars

-----------------------------------------------------------------------------
(* What the commands of the past say, without the plugin's state: the      *)
(* reference the routing is compared with.                                 *)
Since(i) == IF \E j \in restarts : j <= i THEN Max({j \in restarts : j <= i}) ELSE 1

(* The last event before i of one of these kinds on the surface of i.      *)
LastOf(i, kinds) ==
  LET past == {j \in Since(i)..(i - 1) : history[j].kind \in kinds
                                         /\ history[j].surface = history[i].surface}
  IN IF past = {} THEN 0 ELSE Max(past)

(* Where a text that is event i belongs: the session of the last connect,  *)
(* unless a disconnect or a stop of the same surface came later.           *)
Commanded(i) ==
  LET target == LastOf(i, {"connect", "disconnect"})
      mode == LastOf(i, {"start", "stop"})
  IN IF \/ target = 0 \/ history[target].kind = "disconnect"
        \/ (mode # 0 /\ history[mode].kind = "stop")
     THEN NoTarget ELSE history[target].session

StreamsOf(i) == {s \in Session : \E j \in DOMAIN inbound[s] : inbound[s][j] = i}

(* Every variable holds a value of its kind.                               *)
TypeOK ==
  /\ {redisUp, client, gateway, relay, handed} \subseteq BOOLEAN
  /\ routing \in RoutingStates
  /\ inbound \in [Session -> Seq(1..MaxEvents)]
  /\ pc \in {"idle", "client", "decide", "connect", "xadd", "relay"}
  /\ result \in Results
  /\ dest \in Session \cup {NoTarget}
  /\ history \in Seq([surface : Surface, kind : Kinds, cached : BOOLEAN,
                      session : Session \cup {NoTarget},
                      answer : Results \cup {"none"}])
  /\ restarts \subseteq 1..(MaxEvents + 1)
  /\ attempts \in 0..3 /\ faults \in 0..MaxFaults

(* A text has one reader: the agent's LLM exactly when the surface's own   *)
(* commands since the last restart leave it unrouted, else at most the one *)
(* session they name, and never both.  An outage of Redis loses a routed   *)
(* text; it does not hand it to the LLM (router.py:206-257).               *)
OneReader ==
  \A i \in 1..now :
    history[i].kind = "text" =>
      /\ history[i].answer # "none" =>
           ((history[i].answer = "llm") <=> (Commanded(i) = NoTarget))
      /\ StreamsOf(i) \subseteq ({Commanded(i)} \ {NoTarget})

(* A control phrase is consumed by the plugin with or without Redis, and   *)
(* nothing but text of a routed surface enters a session's stream          *)
(* (__init__.py:83-85).                                                    *)
ControlStaysHere ==
  \A i \in 1..now :
    /\ history[i].kind \in ControlKinds => history[i].answer \in {"handled", "none"}
    /\ history[i].kind # "text" => StreamsOf(i) = {}

(* "Routed" is said only of what was added to a session's stream, even     *)
(* after resends and lost answers (router.py:256-257).                     *)
RoutedIsThere ==
  \A i \in 1..now : history[i].answer = "routed" => StreamsOf(i) # {}

(* With a client cached when the event comes in, handling it makes no      *)
(* other: from_env is not called, up to and including the start of the     *)
(* relay, in an outage neither (__init__.py:50-55, router.py:243-244).     *)
(* What the cached client does to reach Redis is not counted.              *)
CachedClientIsUsed == now > 0 /\ event.cached => attempts = 0

(* With its connections, outages and lost answers the hook keeps the       *)
(* promise of TextRouting, in which nothing remembers a routing: a text is *)
(* decided once, by the commands that are there then, delivered before its *)
(* answer and never after (__init__.py:80-94, router.py:174-257).          *)
Stage ==
  CASE pc = "idle" -> "free"
    [] pc \in {"client", "decide"} -> "decide"
    [] pc \in {"connect", "xadd"} -> "deliver"
    [] pc = "relay" -> "answer"

Told(e) == [surface |-> e.surface, kind |-> e.kind, session |-> e.session,
            answer |-> e.answer]

Texts == INSTANCE TextRouting WITH
  history <- [i \in DOMAIN history |-> Told(history[i])], stage <- Stage

ImplementsRouting == Texts!Spec

(* router.py:243-246 says that the caller passes a cached client, so that  *)
(* from_env "is only a fallback for direct callers/tests", and that an     *)
(* outage "drops the message and skips cleanly", and "never crashes the    *)
(* gateway or reconnects-per-message".  So a text on its way to a session  *)
(* would not have the router connect after the hook has tried to: there is *)
(* one attempt at most.                                                    *)
OneConnectionPerText == dest # NoTarget => attempts <= 1

=============================================================================
