# A TLA+ verification of hermes-claude-code-router

The repository is a Hermes plugin that connects Discord conversations with
Claude Code sessions through Redis streams. This directory holds TLA+ models of
its concurrent and failure-prone parts, the TLC configurations that check them
on small instances, and TLAPS proofs of the main properties for every instance.
All source paths below are relative to
`src/plugins/hermes_claude_code_router/` unless they start with `docs/`.

## 1. The system

Four parties meet in the plugin:

    Discord user --> gateway loop: _hook --XADD--> cc-sessions:<s>:inbound  --> session s
    Discord      <-- gateway loop: send  <--.
                                            | future
                     relay thread: poll_once <--XREADGROUP/XACK-- cc-sessions:<s>:outbound <-- session s

* The **gateway's asyncio loop** (one thread) calls the hook for every event and
  runs the sends that the relay schedules.
* The **relay thread** (one daemon thread per loaded plugin) drains the outbound
  streams of the sessions that are routable.
* **Redis** holds the streams and the consumer group `hermes-router`; it is the
  only thing that survives a restart of the process.
* The **sessions** (the redis-channel plugin, another repository) append replies
  and read what is routed to them.

The hook and the relay share `RoutingState` (under a lock), the captured gateway
and the cached Redis client. Everything the plugin remembers is in memory.

### Inventory

| component | state | operations | what is hard | what must hold |
|---|---|---|---|---|
| `redis_client.py` | the streams and their consumer group, in Redis | `xadd`, `ensure_group`, `xreadgroup`, `ack`, `read_models`, `hgetall`, `exists` | a call may be served and its answer lost; MAXLEN trimming; the group is created after replies were written; two consumers under one name | a reply that the group passes is pending until it is acknowledged; creating the group skips nothing |
| `mode_state.py` | target and off flag per surface | `set_target`, `get_target`, `clear_target`, `set_routing`, `is_routing_on`, `active_targets` | read by the relay thread while the hook writes | surfaces are independent; "off" hides a target and keeps it |
| `outbound.py` | the relay's thread, its batch, the send it waits for | `start`, `stop`, `poll_once`, `_run`, `_default_send`, `send_coro` | snapshot used after a blocking read; send timeout against late landing; a raising XACK in mid-batch; death between landing and XACK | no reply twice on Discord, none acknowledged unsent, none lost without a trace, order per session, no starvation |
| `router.py`, `__init__.py` | captured gateway, cached client, relay, routing state | `_hook`, `handle_pre_gateway_dispatch`, `_apply_control_intent`, `_get_redis`, `_maybe_start_relay` | Redis goes down and comes back between the steps of one event; an XADD that is applied and reported failed; restart in mid-event | every text has one reader; control phrases work without Redis; every event is answered |
| `matchers.py` | compiled patterns | `match` | patterns that overlap; a sentence taken for a command; a phrase the help names and no pattern accepts | one intent per text; a phrase with a bad name is conversation; conversation is let through |
| `registry_reader.py` | none (reads Redis) | `list_live_sessions` | heartbeat expires between EXISTS and TTL | only live sessions are listed |
| `protocol.py` | none | validation | | |
| `/cc` commands, `register()` | configuration | one-shot wiring; `/cc list` connects and lists; the other commands return a hint | `/cc list` caches a client between two events | |
| `compatibility/`, `scripts/install.sh` | none | CI probe; copy script | | |

## 2. The modules

| module | models | code |
|---|---|---|
| `RedisStream` | one stream with the group as a record, and the calls as pure operators on it | `redis_client.py:170-243` |
| `RoutingState` | the routing state as a record, its methods as pure operators | `mode_state.py` |
| `OutboundRelay` | any number of relay threads over shared streams, with the gateway's loop, Redis faults and process deaths | `outbound.py` |
| `ReplyDelivery` | what the reply path promises: claimed at most once and in order, landed at most once, settled only after landing | abstract |
| `Matchers` | `match` as a function of a text, which grows word by word | `matchers.py` |
| `RouterHook` | one gateway process handling events one by one, with Redis changing between the steps of an event | `router.py`, `__init__.py:44-114` |
| `TextRouting` | what the hook promises: a text is decided once, from the commands of its surface, delivered before its answer and never after, and answered once | abstract |
| `RouterSystem` | the plugin as a whole: instances of `RouterHook` and `OutboundRelay` over one routing state, one Redis, one gateway loop and one process | the lines where the two meet: `__init__.py:58-94`, `router.py`, `outbound.py` |
| `RelayLifecycle` | `start`, `stop` and `_run`: one relay object, its caller and the threads it created, sharing one stop event | `outbound.py:106-144`, `:186-193` |
| `PresenceReader` | `list_live_sessions`, command by command, over sessions that register, beat, leave and die | `registry_reader.py`, `PROTOCOL.md` "Presence" for the sessions |
| `MCOutboundRelay`, `MCRouterHook` | symmetry sets for TLC | |
| `RedisStream_proofs` | facts about the four stream operators | |
| `OutboundRelay_proofs` | the inductive invariant and the safety theorems | |
| `ReplyDelivery_proofs` | `OutboundRelay` implements `ReplyDelivery` | |
| `RelayLifecycle_proofs`, `PresenceReader_proofs` | inductive invariants and safety theorems of the two | |
| `RouterHook_proofs` | the same for `RouterHook`, and that it implements `TextRouting` | |
| `Matchers_proofs` | facts about `Match` for every text | |
| `RouterSystem_proofs` | `RouterSystem` implements `OutboundRelay`, which has the hook act on its routing, and both abstract specifications; what only the two halves together promise | |

Definitions whose comment begins with "Mutant of" are wrong variants of the
definition after them; they are used nowhere and show that the properties can
fail: with the variant in place of the definition, the property it was written
for is violated.

### RedisStream

A stream is its whole history (`log`) with a trimmed prefix (`trim`), so the
Redis id of an entry is its position. The group is `group` (exists), `last` (the
last delivered id) and `pel` (pending entries). `XREADGROUP ... >` serves the
entries above `last` that were not trimmed, adds them to `pel` and moves `last`.
All relays read as `consumer-1`, so one `pel` serves them all. Approximate
MAXLEN is a choice of any trim point that keeps at least `maxlen` entries.

### OutboundRelay

| variable | code |
|---|---|
| `pc[r]` | where the thread is: `off`; `idle` in `_run`; `ensure` in the loop over `ensure_group`; `read` in the XREADGROUP; `batch` in the loop over the entries; `sending` in `future.result`; `ack` before XACK |
| `snap`, `todo` | the `streams` of this pass; those still to go through `ensure_group` |
| `batch`, `cur` | entries read and not looked at; the entry in hand |
| `task` | the send coroutine on the gateway's loop: running, landed, done, failed |
| `orphans` | requests to Discord whose coroutine was cancelled or whose process died: they can land late or never |
| `discord`, `acked` | what became visible, in order; what was acknowledged |
| `routing[r]` | the `RoutingState` of the process of relay `r` |

Each step between two calls that another party can interleave with is an action.
`Snapshot`, `Ensure`, `Read`, `ReadNothing` are the calls of a pass;
`TakeMalformed`, `SendImpossible`, `Schedule` what happens to an entry;
`SendSucceeds`, `SendFails`, `SendTimesOut` how the wait for the send ends;
`AckEntry` and `PassEnds` the rest. `EnsureFails`, `ReadFails`, `AckFails` raise:
Redis may have served the call or not, `poll_once` is left, the batch with it,
and `_run` starts over (`Abandon`). `ReadResent` is a lost answer that the
client library hides by sending the command again. `LoopLands`, `LoopReturns`,
`LoopRaises` and `OrphanLands` are the gateway's loop and Discord; a coroutine
can raise after its message landed. `Crash` empties the process's memory;
`Start` loads it again.

Not distinguished: the idle waits of `_run`, the text and channel of a reply, the
threading of `in_reply_to` (best effort, cannot fail the send).

### RouterHook

The gateway awaits one hook call after the other on one thread, so the model has
one event in hand. Its steps are `GetClient` (`_get_redis`), `Decide` (everything
from the capture of the gateway to the decision, which needs no Redis),
`RouterConnects` (the `from_env` fallback), the XADD in three outcomes
(`XaddSucceeds`, `XaddRefused`, `XaddAnswerLost`), and the end of the call with
`_maybe_start_relay` (`RelayNotNeeded`, `StartRelay`). `RedisChanges` may happen
between any two. `ListCommand` is `/cc list`, a synchronous command that the gateway runs
between two events and that caches a client, too. `Restart` loses all memory,
also in the middle of an event. An event carries its surface and what the matcher
and the guards make of its text (connect, disconnect, list, start, stop, text,
blank, invalid, nosurface); `history` remembers every event with its answer, and
the properties compare the state with it.

Two variables are narrower than their names. `inbound` is a log of what was added to
a session's stream: the MAXLEN of that XADD (`redis_client.py:184-188`) trims old
entries, and the model, in which nobody reads the stream, leaves that out. So
`RoutedIsThere` says that a routed text was added, not that it is still there.
`attempts` counts the calls of `from_env`. A cached client connects by itself inside
its next command when its connection is gone (`router.py:249`), and that attempt,
which can block as long, is not counted.

`TextRouting` says the same without a routing state, a client or an outage. Its
`Belongs` reads off the history to which session a surface belongs (a connect and
nothing since, every stop followed by a start), and its steps are `Dispatch`,
`Settle` (the plugin, the LLM or nobody takes the event), `Route`, `Deliver` of no,
one or two copies, `Answer` and `Forget` (a restart). `Stage` maps the places of the
hook to its five stages, and `Told` leaves out of an event whether a client was
cached for it.

### Matchers

A text is a sequence of words, because every built-in pattern is a sequence of
keywords with one or more blanks between them, anchored at the start. `Heads`
gives, for each intent, the keyword sequences its patterns begin with. What may
follow depends on the intent: a name and then anything (`Naming`), nothing
(`Whole`), or anything (the mode phrases, whose patterns end in `\b`). The marked
words `session!`, `over!` and `routing!` are the keyword with a character glued to
it at which the word ends, such as a comma: `\b` accepts them, a name or a whole
command does not. Left out are the case of keywords (the patterns ignore it) and
the number of blanks. `Order` is the order of `match`. `Types` appends a word, so
the run sees every text up to `MaxWords`.

### RouterSystem

`Hook` and `Outbound` are instances of the two modules. They share `routing`; the
rest of their variables are side by side. The actions are conjunctions of an
action of one half with what the other half and the environment allow:

* `HookStartsRelay` is the end of a hook call that builds the relay, which is
  `Start` of the relay's thread.
* `Restart` is the death of the process: `Restart` of the hook and `Crash` of the
  relay in one step. Redis and the requests already sent to Discord stay.
* `RelayAsksRedis` (the calls that Redis answers) needs `redisUp`; `RelayRaises`
  is possible at any time, within the bound on read faults.
* In `LoopMoves` a send coroutine returns or raises only while `pc = "idle"`: the
  hook runs synchronously on the loop that would have to resume the coroutine.
  The request itself can land at any time.
* `alive` is the set of sessions with a heartbeat key; a session replies only
  while it is alive, and `HeartbeatChanges` takes the key away or brings it back.
  The hook and the relay never look at it.
* `taken` is a history variable: for each session that nobody is routed to, its
  replies that were in play when the last surface left, which is on Discord, in the
  relay's hands or in a request the relay had given up. It is emptied of a session's
  replies when a surface is routed to the session again.

The hook's half is `RouterHook` by construction: every action of the whole is one of
its actions or leaves its variables alone. The relay's half is not, because the hook
changes the routing that the relay reads and starts its thread; that these are
steps which `OutboundRelay` allows is `ImplementsRelay`.

### RelayLifecycle

`thread[t]` is where `_run` of thread `t` is: `check` the event, `poll` (a pass,
whatever it does), `wait`, `dead`. `StartClears` and `StartSpawns` are the two
halves of `start` (its early return changes nothing and is no action),
`StopSignals` and `JoinEnds` those of `stop`. `JoinEnds` may come while the
thread lives: the join waits 2 s, but a pass can block for 1 s in XREADGROUP and
10 s in each send. The history variables `told` and `gaveUp` remember who was
asked to stop and how many joins timed out. A wait can also end early, as when
the event is set.

### PresenceReader

`registry` and `ttl` are Redis; `HgetAll` copies the registry into `fields`, and
`SkipMalformed`, `SkipStale`, `Keep` and `Project` deal with one entry in any
order. `Keep` is an EXISTS that finds the key and `Project` the TTL after it, so
every step of a session fits between them. `Raises` is an error of Redis, which
leaves the call. The sessions follow `PROTOCOL.md`: HSET before the first beat,
DEL of the key before HDEL, nothing when they die. TTL answers in rounded seconds,
so a key in its last tick may answer 0 (`TtlAnswers`); a key without an expiry or with
more than the lifetime does not occur, because every session sets its key with the
same lifetime, and the clamp of `registry_reader.py:64` is in `Age` without being
needed. The key that EXISTS probes is that of the name inside the entry
(`registry_reader.py:115`), which is the entry's field, since a session writes its own
name there; an entry that names another session is not covered. `silence` counts the time
since a session's last beat independently of the key; `steady` and `lately` are
history variables that say who must be, and who may be, on the list.

## 3. What is checked

Every passing run explores its whole state space.

| run | instance | shows |
|---|---|---|
| `relay_stream` | 1 relay, 1 session, 3 replies, MAXLEN 2, COUNT 2, 1 Redis fault, 1 death | `TypeOK`; `NothingLostSilently`: every reply is unread, pending, acknowledged or trimmed; `RepliesInOrder`: with one relay, acknowledged replies landed in the order they were sent |
| `relay_group` | 2 relays in one group, 1 session, 2 replies, COUNT 1, 1 fault, 1 death | `AtMostOnce`, `AckedIsSettled`, `OneHolder`, the inductive invariant `IndInv`, and `ImplementsDelivery`: the detailed model implements `ReplyDelivery` |
| `relay_live` | 1 relay, 2 sessions, 2 surfaces, 1 reply each, 1 fault, fair relay thread | `RoutableRepliesAreRead`, `PassesEnd` |
| `hook_events` | 3 events, 2 surfaces, 2 sessions, 1 lost answer, 1 restart | `TypeOK`; `OneReader`: a text goes to the session its surface's commands name, or to the agent's LLM, never both; `ControlStaysHere`; `RoutedIsThere`; `CachedClientIsUsed`; `ImplementsRouting`: the hook implements `TextRouting` |
| `lifecycle` | 3 threads, fair threads | `TypeOK`; `ThreadsAccountedFor`: a second live thread exists only after a join timed out; `OnlyToldThreadsEnd`: no exception of a pass and no event left set by an earlier stop ends a thread; `StopEndsAll`: after a last stop all threads end; `KeepsPolling` |
| `presence` | 2 sessions, heartbeat of 2 ticks | `TypeOK`; `ListsTheLive`: who beats throughout the call is listed; `ListedWasLive`: who is listed has beaten lately; `ShownAgeIsTrue`: the age shown is the time since the last beat, to the tick, and unknown only if the key went after EXISTS |
| `matcher` | texts of up to 4 words over all keywords, one name, one other word | `Unambiguous`: no text is a phrase of two intents, so their order decides nothing; `BadNamesAreConversation`: a phrase that names no session, or names it badly, is no phrase of any intent; `ConversationPassesThrough`: a phrase inside a sentence is no command, also when the words around it could be names of sessions; `FirstCommandWins`: words after a command do not change it, a second command among them (`docs/STATE_MACHINE.md` R1 wants two transitions, see below) |
| `system` | 1 surface, 1 session, 2 events, 2 replies, COUNT 1, 1 read fault, 1 lost XADD answer, 1 restart | `SendersAreHeard`: once a text went out with the cached client, the relay's thread runs; `ReadsOnlyTheInvited`: the group passes replies of a session only if a surface connected to it since the process started; `LateRepliesAreBounded`: what reaches Discord of a session after its last surface left was on its way then, or comes from one read; `ImplementsRelay`: the relay beside the hook is the relay |
| `system_live` | as `system`, without restart and lost XADD answer, fair hook and relay | `EventsEnd`: every hook call ends; `ConversationsAreAnswered`: while Redis stays up and a surface stays routed to a session that was sent a text, each of its replies is read or trimmed |

Three runs show where the code does something else than its documentation says:

| run | property | documented | what happens |
|---|---|---|---|
| `relay_restart` | `RestartRecovers` | `outbound.py:206-208`: a failed reply "waits in the PEL until a manual claim / restart" | a restart changes nothing, the relay only reads `>` |
| `hook_outage` | `OneConnectionPerText` | `router.py:243-246`: `from_env` is "only a fallback for direct callers/tests", and an outage "drops the message and skips cleanly" and never "reconnects-per-message" | with Redis down, a text on a connected surface makes a second attempt in the router (`router.py:248`) after `_get_redis` failed (`__init__.py:54`); a third in `_maybe_start_relay` (`__init__.py:70`) may follow. Each blocks the gateway's loop |
| `system_dead_target` | `DeadTargetIsReset` | `docs/STATE_MACHINE.md:121-125` (R5): when the heartbeat of a target expires the router resets the target | nothing looks at the heartbeat of a target (`router.py:207`): texts go on into a stream that nobody reads |

Smaller differences met on the way, which no run is spent on: the hint of `/cc
switch` (`__init__.py:135`) and a comment (`matchers.py:92-94`) read "switch to"
and a name as a switch, but the pattern wants "session" or "cc" before the name
(`matchers.py:73`), so the phrase of the hint is conversation; routing is on before
anybody said "start coding session" (`mode_state.py:41-43` against
`docs/STATE_MACHINE.md:32-34`); "/cc connect foo and start coding session" is a
connect and nothing else, since `match` returns the first intent that fits
(`matchers.py:127-150`), where `docs/STATE_MACHINE.md:97-101` (R1) has it make two
transitions (`FirstCommandWins` states what the code does; while routing was never
switched off the surface ends in the same state); a disconnect comes too late for
the read that is waiting and for what the relay holds (`mode_state.py:93-96`;
`LateRepliesAreBounded` says how much too late);
a thread that outlives the join of `stop` runs on after the next `start`, which
clears the event they share (`outbound.py:129`; nothing in the plugin calls `stop`);
a key that goes between EXISTS and TTL leaves its entry on the list
(`registry_reader.py:17`; `ListedWasLive` says how old it can be), and `/cc list`
renders its missing age as "just now" (`__init__.py:105`).

### Bounds

* Two relays are enough to disagree about a reply; a third adds nothing to a
  pairwise property. Two replies per stream, read one at a time, give each relay
  one in hand; three with COUNT 2 and MAXLEN 2 give a full batch, a rest, and a
  trimmed unread entry.
* One fault and one death, at any step, give every crash point and every lost
  answer, also one after the other. The proofs hold for any number of them.
* Three events on two surfaces give the shortest histories that distinguish the
  routing commands (connect, then stop or disconnect on the same or the other
  surface, then a text) with Redis up or down at every step.
* Three threads allow two left-over ones beside the current one; two sessions are
  a live one and its malformed, stale or leaving neighbour, and two ticks let a
  beat be late without the key expiring.
* Four words are the longest phrase ("connect to session" and a name);
  `ConversationPassesThrough` puts one more word before or behind it, and the
  shorter phrases are followed by other words within the bound. The alphabet has
  every keyword, and one word of each class that the patterns tell apart. A text
  may end anywhere, so `matcher` does not look for deadlock.
* One surface and one session are enough for what the two halves do to each other;
  what needs two of either is checked in the halves. A connect and a text, or a
  text and a disconnect after a connect that a restart did not forget, need two
  events; two replies read one at a time are one waiting read, and one given up before it.
  `EventKind` leaves the kinds that behave like one of the three to `hook_events`.
* `system_live` has no restart and no lost XADD answer: after a restart its
  properties begin anew, and the hook's answer to a fault is a step like any other.
* `MaxReplies`, `MaxFaults` (`MaxXaddFaults` and `MaxReadFaults` in
  `RouterSystem`), `MaxCrashes`, `MaxEvents`, `MaxRestarts`, `MaxWords`,
  `EventKind` and `MaxThreads` (in `StartClears`) are the only artificial limits;
  all but the last appear in the guards of the environment only.

### Fairness

`FairSpec` of `OutboundRelay` assumes weak fairness of each relay thread's next
step: `_run` is a loop that catches everything, and its waits (XREADGROUP BLOCK,
socket timeouts, `future.result(timeout)`) are bounded, so the thread always
moves on. Nothing is assumed of the gateway's loop, of Discord, of the sessions,
or of a dead process being restarted. `FairSpec` of `RelayLifecycle` is weak
fairness of each thread's step, for the same reason; the caller may never start
or stop. In both, failing is always possible, so fairness never forces success.

`FairSpec` of `RouterSystem` is weak fairness of the hook's next step and of the
relay's. A hook call waits for nothing but Redis, with a timeout on every socket
operation; the relay's waits are bounded as above. Nothing is assumed of Redis (it
may stay down, and then the relay's calls raise or wait), of Discord, the
sessions, the users or a restart. `ConversationsAreAnswered` therefore has as its
premise that Redis stays up and the surface stays routed.

## 4. What is proved

For every number of relays, sessions, surfaces, replies, faults and deaths, every
COUNT and MAXLEN, from the assumptions `NoTargetAssumption` (the marker is no
session) and `RelayAssumption` (session names are ordered, COUNT and MAXLEN are
positive):

| theorem | statement |
|---|---|
| `Invariance` | `Spec => []IndInv` |
| `TypeCorrect` | `Spec => []TypeOK` |
| `NeverTwice` | `Spec => []AtMostOnce` |
| `AckAfterLanding` | `Spec => []AckedIsSettled` |
| `NoSilentLoss` | `Spec => []NothingLostSilently` |
| `SoleHolder` | `Spec => []OneHolder` |
| `AcksInOrder` | `Spec => []RepliesInOrder` |
| `Refinement` | `Spec => ImplementsDelivery` |

and, for any number of threads (`MaxThreadsAssumption`: a natural number),
sessions and any heartbeat lifetime (`NoSessionAssumption`: the marker is no
session; `BeatTtlAssumption`: a positive number of ticks):

| theorem | statement |
|---|---|
| `LifecycleTypes`, `PresenceTypes` | `Spec => []TypeOK` of `RelayLifecycle`, `PresenceReader` |
| `NoStrayThreads` | `Spec => []ThreadsAccountedFor` of `RelayLifecycle` |
| `NoThreadEndsUnasked` | `Spec => []OnlyToldThreadsEnd` of `RelayLifecycle` |
| `LiveIsListed` | `Spec => []ListsTheLive` of `PresenceReader` |
| `ListedIsRecent` | `Spec => []ListedWasLive` of `PresenceReader` |
| `AgesAreTrue` | `Spec => ShownAgeIsTrue` of `PresenceReader` |

For every set of surfaces and sessions and any number of events, lost answers and
restarts (`HookAssumption`: the bounds are natural numbers; `NoTargetAssumption`),
and for every vocabulary of names and other words (`WordsAssumption`: names, other
words and keywords are different words):

| theorem | statement |
|---|---|
| `HookTypes` | `Spec => []TypeOK` of `RouterHook` |
| `TextsHaveOneReader` | `Spec => []OneReader` |
| `ControlPhrasesStay` | `Spec => []ControlStaysHere` |
| `RoutedTextsAreThere` | `Spec => []RoutedIsThere` |
| `CachedClientsAreUsed` | `Spec => []CachedClientIsUsed` |
| `RoutingRefinement` | `Spec => ImplementsRouting` |
| `OneIntent` | `Spec => []Unambiguous` of `Matchers` |
| `BadNamesSetNothing` | `Spec => []BadNamesAreConversation` of `Matchers` |
| `ConversationIsNoCommand` | `Spec => []ConversationPassesThrough` of `Matchers` |
| `TheFirstCommandCounts` | `Spec => FirstCommandWins` of `Matchers` |

and of the whole, for every size of either half (`SystemAssumption`, which gives
the assumptions of the halves):

| theorem | statement |
|---|---|
| `RelayRefinement` | `Spec => ImplementsRelay` |
| `HalvesKeepTheirPromises` | `OneReader`, `ControlStaysHere`, `RoutedIsThere` and `CachedClientIsUsed` of `RouterHook`, and `AtMostOnce`, `AckedIsSettled`, `NothingLostSilently` and `RepliesInOrder` of `OutboundRelay`, hold of `RouterSystem` |
| `WholeKeepsBothPromises` | `Spec => Hook!ImplementsRouting /\ Outbound!ImplementsDelivery`: the plugin as a whole implements both abstract specifications |
| `OnlyTheInvitedAreRead` | `Spec => ReadsOnlyTheInvited` |
| `SendersAreAlwaysHeard` | `Spec => []SendersAreHeard` |
| `LateRepliesAreOneRead` | `Spec => []LateRepliesAreBounded` |

### The relay

None of the four invariants is inductive alone. `AtMostOnce` says nothing of a
reply about to land: it needs that a reply in a batch or in a running send has
not landed and is not an orphan. That is true when it enters a batch because
XREADGROUP delivers only above the group's position and everything that ever
landed lies below it; and it stays true in the batch because no other relay has
it (`OneHolder`). `AckedIsSettled` needs what the thread's `pc` says of the reply
in hand. `NothingLostSilently` needs that the group's position stays in the
stream and that only what is pending can be acknowledged. `IndInv` is the
conjunction of these facts: `StreamOK` for each stream, `ThreadOK` for each
thread, `LedgerOK` for the relation of batches, orphans, Discord, acknowledged
and passed replies, and the four properties.

The proof of `Invariance` has a lemma per action. Actions that change the ledger
alike share a step lemma: `QuietStep` (a thread moves and takes nothing new),
`OrphanStep` (a send loses its waiter), `LandStep` (a reply lands), `FetchStep`
(XREADGROUP, answered or not), `AckStep` (XACK, answered or not). The stream
operators enter only through the lemmas of `RedisStream_proofs`. `Refinement`
maps claimed replies to those below the group's position, landed to those on
Discord, settled to those acknowledged, and uses `IndInv` to show that a landing
is a first landing of a claimed, valid reply.

`RepliesInOrder` compares the order of acknowledgements with the order on Discord,
so `OrderInv` follows the replies that were acknowledged or have landed with the
thread about to acknowledge them (`Sure`): they stand on Discord in the order of
their positions, and every reply the thread still holds comes after what was
acknowledged. It is inductive for one relay together with `IndInv`; two relays may
acknowledge in either order.

### Threads and presence

`ThreadsAccountedFor` needs that a start is never under way while the known
thread lives (part of `TypeOK`): then the only step that adds a left-over thread
is the end of a join that also counts it. `OnlyToldThreadsEnd` needs `EndsInv`: while
the event is set every live thread has been asked, and between the two halves of
`start` it is clear, so the new thread does not meet the event of an earlier stop.
For `PresenceReader`, `ListedWasLive`
needs that a key outlives the last beat by at most its lifetime, so that whoever
beats during a call is in `lately` (`KeysAreRecent`, `BeatingIsLately`), and
that the entry between EXISTS and TTL was found live (`CurIsLive`);
`ListsTheLive` needs that a steady session has its key at every moment and is
listed or still to be looked at (`SteadyBeats`, `SteadyIsHandled`). `ShownAgeIsTrue`
needs that the countdown of a living key and the silence of its session add up to
the lifetime (`CountdownAgrees`).

### The hook

`OneReader` compares an answer with what the whole past says (`Commanded`), so the
invariant of `RouterHook_proofs` ties the state to the past: `Agrees` says that
`routing` holds for each surface what its commands since the last restart amount
to; `Progress` says for each `pc` what is already true of the event in hand (its
destination is the commanded session; when the result is "routed", it is in that
session's stream); `Connections` bounds the attempts by what is cached and handed
over. That an event which is over keeps its verdict needs that later events and
restarts change nothing in `Commanded` of earlier ones. `Max` of a set of
positions is a CHOOSE, so `MaxExists` proves that a non-empty set of positions has
a maximum, by well-founded induction on proper subsets.

`RoutingRefinement` has one lemma for each step of `TextRouting`: an arrival is a
dispatch, the decision settles or routes, the three outcomes of the XADD and a
connection that fails are deliveries of no, one or two copies, and everything that
concerns clients, the relay and Redis is a stutter. What makes it hold is `Agrees`
again: the target in `routing` belongs to the surface (`BelongsIsCommanded`), where
the one speaks of the last command and the other of all of them.

### The matcher

`OneIntent` does not enumerate texts: whatever an intent's patterns accept begins
with words of that intent alone (`Begins`): a first word, or `/cc` and the verb. For
`BadNamesSetNothing`, a text that begins like a naming phrase is a phrase of no other
intent (`NamingHeadBegins`), and no other head of that intent fits it, so the one
name it could capture is the bad one.
`ConversationIsNoCommand` has two halves: with a plain word in front, one that is no
keyword, no pattern finds its first word (`PlainWordFirst`), and a whole-text pattern
does not survive a plain word behind it, nor does any other pattern then begin to fit
(`PlainWordLast`). For
`TheFirstCommandCounts` the pattern that fits looks at a prefix of the text, which
stays, and no pattern earlier in the order begins with the same words.

### The whole

Each action of `RouterSystem` is an action of `RouterHook` or leaves its variables
alone by the way it is written (the lemma `HookRefinement`). For `OutboundRelay` the
steps of the hook have to be shown to be changes of the routing that it allows, or
the start of a thread that is off; this is `RelayRefinement`. The theorems of the halves are then used
through instances of their proof modules (`HookProofs`, `RelayProofs`) with
the variables of the whole, and `SameHook` and `SameRelay` show that the instances
speak of the same state.

`HalvesKeepTheirPromises` and `WholeKeepsBothPromises` then need no further
invariant: `SameTexts` and `SameDelivery` show that the two abstract specifications
are instantiated with the same state in the modules and in their proofs.

`SendersAreHeard` needs `HeardInv`: once the gateway is known, between two events, a
client that was cached when some event of this process came in has had
the relay built, and a relay that is built has a thread that runs.
`ReadsOnlyTheInvited` needs `AskedInv`: every session in the snapshot of the running
pass was connected to by an event of this process. It is so when the snapshot is
taken, because the routing agrees with the past of the hook (`RoutedIsAsked`), and it
stays so until a restart, which empties the snapshot.

`LateRepliesAreBounded` needs `LateInv`, which speaks of the replies of an abandoned
session that are in play and not in `taken` (`Fresh`): they lie in one window of
COUNT positions of its stream, and there are none while a snapshot in use still names
the session, since only a pass whose snapshot is older than the leaving can read it.
A step that brings nothing into play (`NothingNew`: a timeout, a raise, a landing, a
death) keeps this; `LateHook` is the moment at which the last surface leaves or one
comes back, and `LateRead` the one read that fills the window.

### Only model-checked

The liveness properties (`RoutableRepliesAreRead`, `PassesEnd`, `StopEndsAll`,
`KeepsPolling`, `EventsEnd`, `ConversationsAreAnswered`), which are beyond the
proof system. Every invariant and action property of the passing runs is proved.

## 5. What is not modelled

* Patterns from a configuration: `register()` passes none, and the built-in ones
  are `Heads`.
* The passes of two threads of one relay object: `RelayLifecycle` has the threads
  without their passes, and `OutboundRelay` with two relays covers two consumers
  of one group, each with a routing state of its own. Nothing in the plugin calls
  `stop`, so a second thread of one object does not come about today.
* The trimming of `inbound` streams, and the connection attempts a cached client makes
  inside its commands (section 2, `RouterHook`).
* A registry entry whose JSON names another session than its field, and heartbeat keys
  that were not set with the lifetime of `registry_reader.py:45` (`PresenceReader`).
* The texts that the presence reader projects (directory, branch, start time).
* `read_models`: no caller in the plugin. The URL and password assembly of
  `redis_client.py`: string work without state.
* `protocol.py`: schemas without behaviour; whether a message validates is an input.
* `register()` runs once before everything else; `/cc connect`, `disconnect` and
  `switch` return a fixed hint.
* The installer is a copy script. The CI probe in `compatibility/` is one actor
  with one message on a stream of its own.
* The sessions' own reading of `inbound` streams: another repository.

## 6. What could come next

1. `RelayLifecycle` under `OutboundRelay`: two threads of one object with one
   routing state, once something in the plugin calls `stop`.
2. The rule R5 of `docs/STATE_MACHINE.md`, when the router implements it:
   `DeadTargetIsReset` then becomes a property of a passing run, and `OneReader` has
   to take the expiry of a heartbeat for a command.
3. A recovery of pending replies (XAUTOCLAIM), which `RestartRecovers` asks for: it
   would have to keep `AtMostOnce`, whose proof rests on the relay reading only `>`.
