---------------------------- MODULE RouterSystem ----------------------------
(***************************************************************************)
(* One loaded plugin as a whole: the hook (RouterHook) and the relay       *)
(* (OutboundRelay) over one RoutingState, one Redis and one process.       *)
(*                                                                         *)
(*   - A control phrase that the hook applies is what the relay's next     *)
(*     pass takes its snapshot from.                                       *)
(*   - The end of a hook call starts the relay thread.                     *)
(*   - The death of the process ends both and leaves Redis and the sends   *)
(*     that are under way.                                                 *)
(*   - Redis answers the relay while it is up.                             *)
(*   - The hook runs on the gateway's loop, so the coroutine of a send     *)
(*     goes on only between two hook calls; its request to Discord may     *)
(*     land at any time.                                                   *)
(*   - A session replies while it is alive; its heartbeat can expire and   *)
(*     come back.                                                          *)
(***************************************************************************)
EXTENDS Naturals, Sequences, FiniteSets

CONSTANTS Surface, Session, NoTarget,                        \* RoutingState
          MaxEvents, MaxXaddFaults, MaxRestarts,             \* RouterHook
          ReadCount, MaxLen, MaxReplies, MaxReadFaults,      \* OutboundRelay
          Plugin,       \* the loaded plugin
          EventKind     \* bound: kinds of the events of the run

VARIABLES redisUp, client, gateway, relay, routing, inbound, \* RouterHook
          pc, handed, result, dest, history, restarts, attempts, xaddFaults,
          outbound, thread, snap, todo, batch, cur, task,    \* OutboundRelay
          orphans, discord, acked, readFaults, deaths,
          alive,      \* sessions whose heartbeat key exists
          taken       \* history: of each session that nobody is routed to,
                      \* the replies that were in play when the last left

Hook == INSTANCE RouterHook WITH faults <- xaddFaults, MaxFaults <- MaxXaddFaults

Outbound == INSTANCE OutboundRelay WITH
  Relay <- {Plugin}, MaxFaults <- MaxReadFaults, MaxCrashes <- MaxRestarts,
  streams <- outbound, routing <- [r \in {Plugin} |-> routing], pc <- thread,
  faults <- readFaults, crashes <- deaths

ASSUME SystemAssumption ==
  /\ Session \subseteq Nat \ {0} /\ NoTarget \notin Session
  /\ {ReadCount, MaxLen} \subseteq Nat \ {0}
  /\ {MaxEvents, MaxXaddFaults, MaxRestarts, MaxReplies, MaxReadFaults} \subseteq Nat
  /\ EventKind \subseteq Hook!Kinds

hookVars == <<redisUp, client, gateway, relay, routing, inbound, pc, handed,
              result, dest, history, restarts, attempts, xaddFaults>>
relayVars == <<outbound, thread, snap, todo, batch, cur, task, orphans,
               discord, acked, readFaults, deaths>>
vars == <<hookVars, relayVars, alive, taken>>

Routed == Hook!ActiveTargets(routing)

(* The replies that are on Discord, in the relay's hands, or in a request  *)
(* that was given up and may still land.                                   *)
InPlay == Outbound!Landed \cup orphans \cup Outbound!Held(Plugin)

-----------------------------------------------------------------------------
Init ==
  /\ Hook!Init
  /\ Outbound!Init
  /\ alive = Session
  /\ taken = {}

(* When the last surface leaves a session, what is in play of it is noted. *)
NotesTaken ==
  taken' = {m \in taken : m[1] \notin Routed'}
             \cup {m \in InPlay : m[1] \in Routed \ Routed'}

(* A step of one side leaves the other alone.                              *)
RelayRests == UNCHANGED <<relayVars, alive>> /\ NotesTaken
HookRests == UNCHANGED <<hookVars, alive, taken>>

EventArrives ==
  /\ \E k \in Surface, kind \in EventKind, s \in Session \cup {NoTarget} :
       Hook!Arrive(k, kind, s)
  /\ RelayRests

HookGetsClient == Hook!GetClient /\ RelayRests
HookDecides == Hook!Decide /\ RelayRests
HookSends ==
  /\ \/ Hook!RouterConnects
     \/ Hook!XaddSucceeds \/ Hook!XaddRefused \/ Hook!XaddAnswerLost
  /\ RelayRests

(* Mutant of HookReturns: start does not look whether the thread lives.    *)
HookStartsAgain ==
  /\ Hook!RelayNotNeeded
  /\ thread' = IF relay THEN [thread EXCEPT ![Plugin] = "idle"] ELSE thread
  /\ UNCHANGED <<outbound, snap, todo, batch, cur, task, orphans, discord,
                 acked, readFaults, deaths, alive, taken>>

HookReturns == Hook!RelayNotNeeded /\ RelayRests

(* Mutant of HookStartsRelay: the relay is built and its thread not        *)
(* started.                                                                *)
HookBuildsRelay == Hook!StartRelay /\ RelayRests

(* The hook call ends with the relay's start, if there is a client for it. *)
HookStartsRelay ==
  /\ Hook!StartRelay
  /\ IF relay' THEN Outbound!Start(Plugin) ELSE UNCHANGED relayVars
  /\ UNCHANGED <<alive, taken>>

ListCommand == Hook!ListCommand /\ RelayRests
RedisChanges == Hook!RedisChanges /\ RelayRests

Restart == Hook!Restart /\ Outbound!Crash(Plugin) /\ UNCHANGED alive /\ NotesTaken

-----------------------------------------------------------------------------
(* Calls of the relay that Redis answers.                                  *)
RelayAsksRedis ==
  /\ redisUp
  /\ HookRests
  /\ \/ Outbound!Ensure(Plugin) \/ Outbound!Read(Plugin) \/ Outbound!ReadNothing(Plugin)
     \/ Outbound!ReadResent(Plugin) \/ Outbound!AckEntry(Plugin)

RelayRaises ==
  /\ HookRests
  /\ Outbound!EnsureFails(Plugin) \/ Outbound!ReadFails(Plugin) \/ Outbound!AckFails(Plugin)

RelaySends ==
  /\ HookRests
  /\ \/ Outbound!Snapshot(Plugin) \/ Outbound!HandleEntry(Plugin) \/ Outbound!PassEnds(Plugin)
     \/ Outbound!SendSucceeds(Plugin) \/ Outbound!SendFails(Plugin) \/ Outbound!SendTimesOut(Plugin)

(* A request that is under way lands; its coroutine goes on only while no  *)
(* hook call has the loop.                                                 *)
LoopMoves ==
  /\ HookRests
  /\ \/ Outbound!LoopLands(Plugin)
     \/ pc = "idle" /\ (Outbound!LoopReturns(Plugin) \/ Outbound!LoopRaises(Plugin))
     \/ \E m \in orphans : Outbound!OrphanLands(m)

SessionReplies(s) ==
  /\ s \in alive
  /\ HookRests
  /\ \E kind \in Outbound!Kind : Outbound!SessionReplies(s, kind)

HeartbeatChanges(s) ==
  /\ alive' = IF s \in alive THEN alive \ {s} ELSE alive \cup {s}
  /\ UNCHANGED <<hookVars, relayVars, taken>>

-----------------------------------------------------------------------------
HookStep == HookGetsClient \/ HookDecides \/ HookSends \/ HookReturns \/ HookStartsRelay
RelayStep == RelayAsksRedis \/ RelayRaises \/ RelaySends

Next ==
  \/ EventArrives \/ HookStep \/ ListCommand \/ RedisChanges \/ Restart
  \/ RelayStep \/ LoopMoves
  \/ \E s \in Session : SessionReplies(s) \/ HeartbeatChanges(s)

Spec == Init /\ [][Next]_vars

(* Every step of a hook call and of a relay pass ends by itself or by a    *)
(* timeout.  Redis, Discord, the sessions and the users may do nothing.    *)
FairSpec == Spec /\ WF_vars(HookStep) /\ WF_vars(RelayStep)

-----------------------------------------------------------------------------
(* The events since the process was last loaded.                           *)
Recent == Hook!Since(Len(history) + 1)..Len(history)

(* Whoever can send can be answered: when a text was routed with the       *)
(* cached client and the gateway is known, the relay's thread runs, from   *)
(* the end of that event on (__init__.py:58-77, :93).                      *)
SendersAreHeard ==
  pc = "idle" /\ gateway =>
    \A i \in Recent : history[i].answer = "routed" /\ history[i].cached =>
      thread[Plugin] # "off"

PassedNow == {m \in Outbound!Reply : /\ outbound[m[1]].last < m[2]
                                  /\ m[2] <= outbound'[m[1]].last}

(* A reply is taken from a session's stream only if a surface connected to *)
(* the session since the plugin was loaded: what an earlier process was    *)
(* routed to is not read on (outbound.py:148-163, mode_state.py:90-103).   *)
ReadsOnlyTheInvited ==
  [][\A m \in PassedNow : \E i \in Recent :
       history[i].kind = "connect" /\ history[i].session = m[1]]_vars

(* What lands of a session's replies after its last surface left was on    *)
(* its way then, in the relay's hands or in a request it had given up, or  *)
(* comes from one read, the one that was waiting.  Nothing else lands,     *)
(* whatever timed out, failed or died between (outbound.py:155-163).       *)
LateRepliesAreBounded ==
  \A s \in Session \ Routed :
    Cardinality({m \in Outbound!Landed : m[1] = s} \ taken) <= ReadCount

(* The relay with the hook beside it is the relay: what holds of it alone  *)
(* holds here.  The hook's control phrases are changes of the routing that *)
(* it allows at any time, and the end of a hook call starts its thread     *)
(* only when there is none (__init__.py:65-77, outbound.py:125-129).       *)
ImplementsRelay == Outbound!Spec

(* A hook call ends, whatever Redis and the relay do meanwhile.            *)
EventsEnd == (pc # "idle") ~> (pc = "idle")

(* From one end to the other: once Redis stays up and a surface stays      *)
(* routed to a session, and a text of this process was routed with the     *)
(* cached client, each reply of the session is read or trimmed.            *)
Conversation(s) ==
  /\ redisUp /\ gateway /\ s \in Routed
  /\ \E i \in Recent : history[i].answer = "routed" /\ history[i].cached
ConversationsAreAnswered ==
  \A s \in Session : <>[]Conversation(s) =>
    \A i \in 1..MaxReplies :
      (i \in Outbound!Unread(outbound[s])) ~> (i \notin Outbound!Unread(outbound[s]))

(* docs/STATE_MACHINE.md:121-125 (R5): when the heartbeat of a target      *)
(* expires, "router immediately resets target=null".                       *)
DeadTargetIsReset ==
  \A k \in Surface, s \in Session :
    (routing.targets[k] = s /\ s \notin alive)
      ~> (routing.targets[k] # s \/ s \in alive)
=============================================================================
