---------------------------- MODULE OutboundRelay ----------------------------
(***************************************************************************)
(* The outbound relay (outbound.py): the path of a reply from a Claude     *)
(* Code session's outbound stream to Discord.                              *)
(*                                                                         *)
(* A relay is the daemon thread of one loaded plugin.  It loops over       *)
(* poll_once: take a snapshot of the routable sessions, make sure their    *)
(* streams have the consumer group, XREADGROUP them, and handle the        *)
(* entries one at a time: decode, send on the gateway's asyncio loop, wait *)
(* for the result with a timeout, XACK.  All relays use the same group and *)
(* the same consumer name.  Around them move                               *)
(*   - the sessions, which XADD replies;                                   *)
(*   - the hook of each process, which changes its routing state;          *)
(*   - the gateway's loop, which runs the send;                            *)
(*   - Redis, which can refuse a call, or apply it and lose the reply;     *)
(*   - the process, which can die and be loaded again with empty memory.   *)
(*                                                                         *)
(* A reply is named by the pair <<session, stream id>>.  The idle waits of *)
(* _run (0.2 s, 1 s) and the 16-entry COUNT are abstracted to steps and    *)
(* the constant ReadCount.                                                 *)
(***************************************************************************)
EXTENDS RedisStream, RoutingState

CONSTANTS Relay,       \* loaded plugins, each with one relay thread
          ReadCount,   \* COUNT of XREADGROUP, per stream (16)
          MaxLen,      \* MAXLEN of the outbound streams
          MaxReplies,  \* bound: entries added to each stream
          MaxFaults,   \* bound: Redis calls that fail
          MaxCrashes   \* bound: process deaths

(* Session names are compared by sorted(): they are their ranks here.      *)
ASSUME RelayAssumption ==
  /\ Session \subseteq Nat \ {0}
  /\ ReadCount \in Nat \ {0}
  /\ MaxLen \in Nat \ {0}
  /\ {MaxReplies, MaxFaults, MaxCrashes} \subseteq Nat

VARIABLES streams,   \* the outbound stream of each session
          routing,   \* RoutingState of each process
          pc,        \* where each relay thread is
          snap,      \* the streams of the pass
          todo,      \* those of them whose group is not ensured yet
          batch,     \* replies read and not looked at yet
          cur,       \* the reply being handled, or NoReply
          task,      \* the send coroutine the thread waits for
          orphans,   \* requests to Discord that nobody waits for any more
          discord,   \* what landed on Discord, in order
          acked,     \* replies XACKed so far
          faults, crashes

relayVars == <<pc, snap, todo, batch, cur, task>>
vars == <<streams, routing, relayVars, orphans, discord, acked, faults, crashes>>

Kind == {"reply", "malformed"}   \* whether an entry validates as Outbound
Reply == Session \X (1..MaxReplies)
NoReply == <<0, 0>>

Decodes(m) == streams[m[1]].log[m[2]] = "reply"

(* The order in which a pass handles entries: by stream, then by id.       *)
Before(m, n) == m[1] < n[1] \/ (m[1] = n[1] /\ m[2] <= n[2])

(* Mutant of IsNext: the newest entry of the batch first.                  *)
IsNewest(r, m) == m \in batch[r] /\ \A n \in batch[r] : Before(n, m)

IsNext(r, m) == m \in batch[r] /\ \A n \in batch[r] : Before(m, n)

(* All that XREADGROUP returns for the streams of S.                       *)
Fetched(S) ==
  {m \in Reply : m[1] \in S /\ m[2] \in NextIds(streams[m[1]], ReadCount)}
StreamsAfterRead(S) ==
  [s \in Session |-> IF s \in S THEN ReadGroup(streams[s], ReadCount)
                                ELSE streams[s]]

-----------------------------------------------------------------------------
Init ==
  /\ streams = [s \in Session |-> EmptyStream]
  /\ routing = [r \in Relay |-> InitRouting]
  /\ pc = [r \in Relay |-> "off"]
  /\ snap = [r \in Relay |-> {}]
  /\ todo = [r \in Relay |-> {}]
  /\ batch = [r \in Relay |-> {}]
  /\ cur = [r \in Relay |-> NoReply]
  /\ task = [r \in Relay |-> "none"]
  /\ orphans = {}
  /\ discord = << >>
  /\ acked = {}
  /\ faults = 0
  /\ crashes = 0

Fault == faults < MaxFaults /\ faults' = faults + 1

-----------------------------------------------------------------------------
(* The surroundings of the relays.                                         *)

(* Session s adds an entry to its outbound stream.                         *)
SessionReplies(s, kind) ==
  /\ Len(streams[s].log) < MaxReplies
  /\ \E cut \in TrimPoints(streams[s], MaxLen) :
       streams' = [streams EXCEPT ![s] = Xadd(@, kind, cut)]
  /\ UNCHANGED <<routing, relayVars, orphans, discord, acked, faults, crashes>>

(* A control phrase handled by the hook on the gateway's loop thread.      *)
HookRoutes(r) ==
  /\ \E k \in Surface :
       \/ \E s \in Session : routing' = [routing EXCEPT ![r] = SetTarget(@, k, s)]
       \/ routing' = [routing EXCEPT ![r] = ClearTarget(@, k)]
       \/ \E enabled \in BOOLEAN :
            routing' = [routing EXCEPT ![r] = SetRouting(@, k, enabled)]
  /\ UNCHANGED <<streams, relayVars, orphans, discord, acked, faults, crashes>>

(* The first event that finds the gateway captured and Redis up starts the *)
(* relay thread.                                                           *)
Start(r) ==
  /\ pc[r] = "off"
  /\ pc' = [pc EXCEPT ![r] = "idle"]
  /\ UNCHANGED <<streams, routing, snap, todo, batch, cur, task, orphans,
                 discord, acked, faults, crashes>>

(* The process dies.  Its memory goes, and with it the thread; a send that *)
(* had left for Discord may still land.                                    *)
Crash(r) ==
  /\ crashes < MaxCrashes
  /\ crashes' = crashes + 1
  /\ routing' = [routing EXCEPT ![r] = InitRouting]
  /\ pc' = [pc EXCEPT ![r] = "off"]
  /\ snap' = [snap EXCEPT ![r] = {}]
  /\ todo' = [todo EXCEPT ![r] = {}]
  /\ batch' = [batch EXCEPT ![r] = {}]
  /\ cur' = [cur EXCEPT ![r] = NoReply]
  /\ task' = [task EXCEPT ![r] = "none"]
  /\ orphans' = IF task[r] = "running" THEN orphans \cup {cur[r]} ELSE orphans
  /\ UNCHANGED <<streams, discord, acked, faults>>

-----------------------------------------------------------------------------
(* poll_once: reconcile and read.                                          *)

(* Mutants of Snapshot: every session, routable or not; only the first of  *)
(* the routable sessions.                                                  *)
SnapshotAll(r) ==
  /\ pc[r] = "idle"
  /\ snap' = [snap EXCEPT ![r] = Session]
  /\ todo' = [todo EXCEPT ![r] = Session]
  /\ pc' = [pc EXCEPT ![r] = "ensure"]
  /\ UNCHANGED <<streams, routing, batch, cur, task, orphans, discord, acked,
                 faults, crashes>>
SnapshotFirst(r) ==
  /\ pc[r] = "idle"
  /\ \E s \in ActiveTargets(routing[r]) :
       /\ \A t \in ActiveTargets(routing[r]) : s <= t
       /\ snap' = [snap EXCEPT ![r] = {s}]
       /\ todo' = [todo EXCEPT ![r] = {s}]
  /\ pc' = [pc EXCEPT ![r] = "ensure"]
  /\ UNCHANGED <<streams, routing, batch, cur, task, orphans, discord, acked,
                 faults, crashes>>

(* The pass goes over the sessions routable now; with none it is over.     *)
Snapshot(r) ==
  /\ pc[r] = "idle"
  /\ ActiveTargets(routing[r]) # {}
  /\ snap' = [snap EXCEPT ![r] = ActiveTargets(routing[r])]
  /\ todo' = [todo EXCEPT ![r] = ActiveTargets(routing[r])]
  /\ pc' = [pc EXCEPT ![r] = "ensure"]
  /\ UNCHANGED <<streams, routing, batch, cur, task, orphans, discord, acked,
                 faults, crashes>>

(* xreadgroup creates the group on one stream after the other.             *)
NextStream(r, s) == s \in todo[r] /\ \A t \in todo[r] : s <= t

Ensure(r) ==
  /\ pc[r] = "ensure"
  /\ \E s \in todo[r] :
       /\ NextStream(r, s)
       /\ streams' = [streams EXCEPT ![s] = EnsureGroup(@)]
       /\ todo' = [todo EXCEPT ![r] = @ \ {s}]
       /\ pc' = [pc EXCEPT ![r] = IF todo[r] = {s} THEN "read" ELSE "ensure"]
  /\ UNCHANGED <<routing, snap, batch, cur, task, orphans, discord, acked,
                 faults, crashes>>

(* Mutant of Abandon: a Redis error ends the thread.                       *)
AbandonThread(r) ==
  /\ Fault
  /\ pc' = [pc EXCEPT ![r] = "off"]
  /\ snap' = [snap EXCEPT ![r] = {}]
  /\ todo' = [todo EXCEPT ![r] = {}]
  /\ batch' = [batch EXCEPT ![r] = {}]
  /\ cur' = [cur EXCEPT ![r] = NoReply]

(* A Redis error leaves poll_once; _run logs it and starts another pass.   *)
Abandon(r) ==
  /\ Fault
  /\ pc' = [pc EXCEPT ![r] = "idle"]
  /\ snap' = [snap EXCEPT ![r] = {}]
  /\ todo' = [todo EXCEPT ![r] = {}]
  /\ batch' = [batch EXCEPT ![r] = {}]
  /\ cur' = [cur EXCEPT ![r] = NoReply]

EnsureFails(r) ==
  /\ pc[r] = "ensure"
  /\ \/ UNCHANGED streams
     \/ \E s \in todo[r] : /\ NextStream(r, s)
                           /\ streams' = [streams EXCEPT ![s] = EnsureGroup(@)]
  /\ Abandon(r)
  /\ UNCHANGED <<routing, task, orphans, discord, acked, crashes>>

(* XREADGROUP answers at once when an entry is there, else when one comes  *)
(* in, else with nothing when the block time is over.                      *)
Read(r) ==
  /\ pc[r] = "read"
  /\ Fetched(snap[r]) # {}
  /\ streams' = StreamsAfterRead(snap[r])
  /\ batch' = [batch EXCEPT ![r] = Fetched(snap[r])]
  /\ pc' = [pc EXCEPT ![r] = "batch"]
  /\ UNCHANGED <<routing, snap, todo, cur, task, orphans, discord, acked,
                 faults, crashes>>

ReadNothing(r) ==
  /\ pc[r] = "read"
  /\ Fetched(snap[r]) = {}
  /\ pc' = [pc EXCEPT ![r] = "idle"]
  /\ snap' = [snap EXCEPT ![r] = {}]
  /\ UNCHANGED <<streams, routing, todo, batch, cur, task, orphans, discord,
                 acked, faults, crashes>>

(* The call fails before Redis served it, or its answer is lost after.     *)
ReadFails(r) ==
  /\ pc[r] = "read"
  /\ \/ UNCHANGED streams
     \/ streams' = StreamsAfterRead(snap[r])
  /\ Abandon(r)
  /\ UNCHANGED <<routing, task, orphans, discord, acked, crashes>>

(* The answer is lost and redis-py sends the command again: what the lost  *)
(* answer carried is pending, and the relay never sees it.                 *)
ReadResent(r) ==
  /\ pc[r] = "read"
  /\ Fault
  /\ streams' = StreamsAfterRead(snap[r])
  /\ UNCHANGED <<routing, relayVars, orphans, discord, acked, crashes>>

-----------------------------------------------------------------------------
(* poll_once: the entries of the batch.                                    *)

Take(r, m) ==
  /\ pc[r] = "batch"
  /\ IsNext(r, m)
  /\ batch' = [batch EXCEPT ![r] = @ \ {m}]

(* Mutants of TakeMalformed: the id to acknowledge is not that of the      *)
(* entry; a valid entry is acknowledged unsent.                            *)
TakeMalformedUnnamed(r, m) ==
  /\ Take(r, m)
  /\ ~Decodes(m)
  /\ pc' = [pc EXCEPT ![r] = "ack"]
  /\ UNCHANGED <<streams, routing, snap, todo, cur, task, orphans, discord,
                 acked, faults, crashes>>
TakeUnsent(r, m) ==
  /\ Take(r, m)
  /\ cur' = [cur EXCEPT ![r] = m]
  /\ pc' = [pc EXCEPT ![r] = "ack"]
  /\ UNCHANGED <<streams, routing, snap, todo, task, orphans, discord, acked,
                 faults, crashes>>

(* A malformed entry goes straight to the XACK.                            *)
TakeMalformed(r, m) ==
  /\ Take(r, m)
  /\ ~Decodes(m)
  /\ cur' = [cur EXCEPT ![r] = m]
  /\ pc' = [pc EXCEPT ![r] = "ack"]
  /\ UNCHANGED <<streams, routing, snap, todo, task, orphans, discord, acked,
                 faults, crashes>>

(* No gateway, client or loop to send with: the reply stays pending.       *)
SendImpossible(r, m) ==
  /\ Take(r, m)
  /\ Decodes(m)
  /\ UNCHANGED <<streams, routing, pc, snap, todo, cur, task, orphans, discord,
                 acked, faults, crashes>>

(* run_coroutine_threadsafe, then the thread waits for the result.         *)
Schedule(r, m) ==
  /\ Take(r, m)
  /\ Decodes(m)
  /\ cur' = [cur EXCEPT ![r] = m]
  /\ task' = [task EXCEPT ![r] = "running"]
  /\ pc' = [pc EXCEPT ![r] = "sending"]
  /\ UNCHANGED <<streams, routing, snap, todo, orphans, discord, acked, faults,
                 crashes>>

(* On the gateway's loop: channel.send reaches Discord, ...                *)
LoopLands(r) ==
  /\ task[r] = "running"
  /\ discord' = Append(discord, cur[r])
  /\ task' = [task EXCEPT ![r] = "landed"]
  /\ UNCHANGED <<streams, routing, pc, snap, todo, batch, cur, orphans, acked,
                 faults, crashes>>

(* ... its answer comes back and the future has a result, ...              *)
LoopReturns(r) ==
  /\ task[r] = "landed"
  /\ task' = [task EXCEPT ![r] = "done"]
  /\ UNCHANGED <<streams, routing, pc, snap, todo, batch, cur, orphans, discord,
                 acked, faults, crashes>>

(* ... or it raises: before the request, after the message landed, or with *)
(* a request under way.                                                    *)
LoopRaises(r) ==
  /\ task[r] \in {"running", "landed"}
  /\ task' = [task EXCEPT ![r] = "failed"]
  /\ \/ UNCHANGED orphans
     \/ task[r] = "running" /\ orphans' = orphans \cup {cur[r]}
  /\ UNCHANGED <<streams, routing, pc, snap, todo, batch, cur, discord, acked,
                 faults, crashes>>

(* A send whose waiter is gone lands late; one that never lands stays here.*)
OrphanLands(m) ==
  /\ m \in orphans
  /\ discord' = Append(discord, m)
  /\ orphans' = orphans \ {m}
  /\ UNCHANGED <<streams, routing, relayVars, acked, faults, crashes>>

SendSucceeds(r) ==
  /\ pc[r] = "sending"
  /\ task[r] = "done"
  /\ task' = [task EXCEPT ![r] = "none"]
  /\ pc' = [pc EXCEPT ![r] = "ack"]
  /\ UNCHANGED <<streams, routing, snap, todo, batch, cur, orphans, discord,
                 acked, faults, crashes>>

(* Left pending: no XACK, on to the next entry.                            *)
LeavePending(r) ==
  /\ pc' = [pc EXCEPT ![r] = "batch"]
  /\ cur' = [cur EXCEPT ![r] = NoReply]
  /\ task' = [task EXCEPT ![r] = "none"]

(* Mutant of SendFails: the failed reply is acknowledged too.              *)
SendFailsAndAcks(r) ==
  /\ pc[r] = "sending"
  /\ task[r] = "failed"
  /\ task' = [task EXCEPT ![r] = "none"]
  /\ pc' = [pc EXCEPT ![r] = "ack"]
  /\ UNCHANGED <<streams, routing, snap, todo, batch, cur, orphans, discord,
                 acked, faults, crashes>>

SendFails(r) ==
  /\ pc[r] = "sending"
  /\ task[r] = "failed"
  /\ LeavePending(r)
  /\ UNCHANGED <<streams, routing, snap, todo, batch, orphans, discord, acked,
                 faults, crashes>>

(* Mutants of SendTimesOut: the reply is tried again; result() without a   *)
(* timeout.                                                                *)
SendTimesOutAndRetries(r) ==
  /\ pc[r] = "sending"
  /\ task[r] \in {"running", "landed"}
  /\ orphans' = IF task[r] = "running" THEN orphans \cup {cur[r]} ELSE orphans
  /\ batch' = [batch EXCEPT ![r] = @ \cup {cur[r]}]
  /\ LeavePending(r)
  /\ UNCHANGED <<streams, routing, snap, todo, discord, acked, faults, crashes>>
NeverTimesOut(r) == FALSE

(* future.result times out and future.cancel asks the loop to cancel the   *)
(* coroutine, whose request may have left already.                         *)
SendTimesOut(r) ==
  /\ pc[r] = "sending"
  /\ task[r] \in {"running", "landed"}
  /\ orphans' = IF task[r] = "running" THEN orphans \cup {cur[r]} ELSE orphans
  /\ LeavePending(r)
  /\ UNCHANGED <<streams, routing, snap, todo, batch, discord, acked, faults,
                 crashes>>

XackCur(r) ==
  /\ streams' = [streams EXCEPT ![cur[r][1]] = Ack(@, cur[r][2])]
  /\ acked' = acked \cup {cur[r]}

AckEntry(r) ==
  /\ pc[r] = "ack"
  /\ XackCur(r)
  /\ cur' = [cur EXCEPT ![r] = NoReply]
  /\ pc' = [pc EXCEPT ![r] = "batch"]
  /\ UNCHANGED <<routing, snap, todo, batch, task, orphans, discord, faults,
                 crashes>>

(* ack is not guarded: its error leaves poll_once, and the entries of the  *)
(* batch that were not looked at are not looked at any more.               *)
AckFails(r) ==
  /\ pc[r] = "ack"
  /\ \/ UNCHANGED <<streams, acked>>
     \/ XackCur(r)
  /\ Abandon(r)
  /\ UNCHANGED <<routing, task, orphans, discord, crashes>>

(* Mutant of PassEnds: the targets are looked up once.                     *)
PassEndsAndReads(r) ==
  /\ pc[r] = "batch"
  /\ batch[r] = {}
  /\ pc' = [pc EXCEPT ![r] = "read"]
  /\ UNCHANGED <<streams, routing, snap, todo, batch, cur, task, orphans, discord,
                 acked, faults, crashes>>

PassEnds(r) ==
  /\ pc[r] = "batch"
  /\ batch[r] = {}
  /\ pc' = [pc EXCEPT ![r] = "idle"]
  /\ snap' = [snap EXCEPT ![r] = {}]
  /\ UNCHANGED <<streams, routing, todo, batch, cur, task, orphans, discord,
                 acked, faults, crashes>>

-----------------------------------------------------------------------------
HandleEntry(r) ==
  \E m \in batch[r] : TakeMalformed(r, m) \/ SendImpossible(r, m) \/ Schedule(r, m)

(* One step of the relay thread.                                           *)
RelayStep(r) ==
  \/ Snapshot(r) \/ Ensure(r) \/ EnsureFails(r)
  \/ Read(r) \/ ReadNothing(r) \/ ReadFails(r) \/ ReadResent(r)
  \/ HandleEntry(r)
  \/ SendSucceeds(r) \/ SendFails(r) \/ SendTimesOut(r)
  \/ AckEntry(r) \/ AckFails(r) \/ PassEnds(r)

LoopStep(r) == LoopLands(r) \/ LoopReturns(r) \/ LoopRaises(r)

Next ==
  \/ \E s \in Session, kind \in Kind : SessionReplies(s, kind)
  \/ \E r \in Relay : HookRoutes(r) \/ Start(r) \/ Crash(r)
  \/ \E r \in Relay : RelayStep(r) \/ LoopStep(r)
  \/ \E m \in orphans : OrphanLands(m)

Spec == Init /\ [][Next]_vars

(* The relay thread is a loop that the operating system keeps scheduling;  *)
(* the wait for a send has a timeout, so it ends whatever the loop does.   *)
Fairness == \A r \in Relay : WF_vars(RelayStep(r))

FairSpec == Spec /\ Fairness
-----------------------------------------------------------------------------
(* Derived state the properties speak about.                               *)
Landed == {discord[i] : i \in DOMAIN discord}
Added == {m \in Reply : m[2] <= Len(streams[m[1]].log)}
Passed == {m \in Reply : m[2] <= streams[m[1]].last}
Pending == {m \in Reply : m[2] \in streams[m[1]].pel}
Held(r) == batch[r] \cup ({cur[r]} \ {NoReply})
Routable(r, s) == s \in ActiveTargets(routing[r])

(* Every variable holds a value of its kind.                               *)
TypeOK ==
  /\ streams \in [Session -> Streams(Kind)]
  /\ routing \in [Relay -> RoutingStates]
  /\ pc \in [Relay -> {"off", "idle", "ensure", "read", "batch", "sending", "ack"}]
  /\ snap \in [Relay -> SUBSET Session]
  /\ todo \in [Relay -> SUBSET Session]
  /\ batch \in [Relay -> SUBSET Reply]
  /\ cur \in [Relay -> Reply \cup {NoReply}]
  /\ task \in [Relay -> {"none", "running", "landed", "done", "failed"}]
  /\ orphans \in SUBSET Reply
  /\ discord \in Seq(Reply)
  /\ acked \in SUBSET Reply
  /\ faults \in Nat
  /\ crashes \in Nat

(* A reply lands on Discord at most once: not again after a send that      *)
(* timed out lands late, after a failed XACK, a lost answer or a restart,  *)
(* and not from two relays of the group (outbound.py, v1 does not          *)
(* redeliver).                                                             *)
AtMostOnce ==
  \A i, j \in DOMAIN discord : discord[i] = discord[j] => i = j

(* What is XACKed is settled: it was malformed, or it is on Discord.  The  *)
(* relay never acknowledges a reply that did not land (outbound.py         *)
(* _default_send).                                                         *)
AckedIsSettled == \A m \in acked : Decodes(m) => m \in Landed

(* No reply disappears without a trace: each is still unread, or pending   *)
(* in the group, or acknowledged, or was trimmed by MAXLEN (outbound.py:   *)
(* "left pending, not lost").                                              *)
NothingLostSilently ==
  \A s \in Session : \A i \in 1..Len(streams[s].log) :
    \/ i \in Unread(streams[s])
    \/ i \in streams[s].pel
    \/ <<s, i>> \in acked
    \/ i <= streams[s].trim

(* A reply is in the hands of one relay only, and while it is, Redis has   *)
(* it pending: a process death can strand it and cannot lose it.           *)
OneHolder ==
  \A r \in Relay : /\ Held(r) \subseteq Pending
                   /\ \A q \in Relay \ {r} : Held(r) \cap Held(q) = {}

(* Why the four hold: the inductive invariant.  A reply in a batch, or on  *)
(* its way to Discord, has not landed and has no second send behind it;    *)
(* the thread's pc, cur and task agree; nothing lands, is orphaned or is   *)
(* acknowledged that the group has not passed.                             *)
StreamOK(st) ==
  /\ Len(st.log) <= MaxReplies
  /\ st.trim <= Len(st.log)
  /\ st.last <= Len(st.log)
  /\ ~st.group => st.last = 0
  /\ st.pel \subseteq 1..st.last

ThreadOK(r) ==
  /\ pc[r] = "read" => todo[r] = {}
  /\ pc[r] \in {"ensure", "read"} =>
       \A s \in snap[r] \ todo[r] : streams[s].group
  /\ pc[r] \notin {"batch", "sending", "ack"} => batch[r] = {}
  /\ (cur[r] # NoReply) <=> (pc[r] \in {"sending", "ack"})
  /\ (task[r] # "none") <=> (pc[r] = "sending")
  /\ cur[r] \notin batch[r]
  /\ task[r] # "none" => Decodes(cur[r])
  /\ task[r] \in {"landed", "done"} => cur[r] \in Landed
  /\ pc[r] = "ack" /\ Decodes(cur[r]) => cur[r] \in Landed

OnTheWay(r) == batch[r] \cup (IF task[r] = "running" THEN {cur[r]} ELSE {})

LedgerOK ==
  /\ \A r \in Relay : OnTheWay(r) \cap (Landed \cup orphans) = {}
  /\ orphans \cap Landed = {}
  /\ orphans \cup Landed \cup acked \subseteq Passed
  /\ \A m \in orphans \cup Landed : Decodes(m)
  /\ acked \cap Pending = {}

IndInv ==
  /\ TypeOK
  /\ \A s \in Session : StreamOK(streams[s])
  /\ \A r \in Relay : ThreadOK(r)
  /\ LedgerOK
  /\ AtMostOnce /\ AckedIsSettled /\ NothingLostSilently /\ OneHolder

(* With one relay the acknowledged replies of a session landed in the      *)
(* order it sent them, whatever timed out, failed or was stranded between. *)
RepliesInOrder ==
  \A r \in Relay : Relay = {r} =>
    \A i, j \in DOMAIN discord :
      /\ i < j
      /\ {discord[i], discord[j]} \subseteq acked
      /\ discord[i][1] = discord[j][1]
      => discord[i][2] < discord[j][2]

(* Once a session stays routable and the thread alive, each of its replies *)
(* is read or trimmed: a blocked send, a poison entry, the other streams   *)
(* of the pass and finitely many Redis errors do not starve it.            *)
RoutableRepliesAreRead ==
  \A r \in Relay, s \in Session :
    <>[](Routable(r, s) /\ pc[r] # "off") =>
      \A i \in 1..MaxReplies :
        (i \in Unread(streams[s])) ~> (i \notin Unread(streams[s]))

(* No reply stays in a relay's hands: a pass ends, by itself or with the   *)
(* process.                                                                *)
PassesEnd ==
  \A r \in Relay : (pc[r] \in {"batch", "sending", "ack"}) ~> (Held(r) = {})

(* The relays, Redis and the gateway's loop together keep the promise of   *)
(* ReplyDelivery: claimed is what the group has passed, landed is what     *)
(* Discord shows, settled is what was XACKed.                              *)
Delivery == INSTANCE ReplyDelivery WITH
  sent <- Added, bad <- {m \in Added : ~Decodes(m)}, claimed <- Passed,
  landed <- Landed, settled <- acked

(* Every step of the reply path is a step of the promise or leaves it      *)
(* alone.                                                                  *)
ImplementsDelivery == Delivery!Spec

(* What outbound.py:206-208 says of a reply whose delivery failed: it      *)
(* "waits in the PEL until a manual claim / restart".  So a reply pending  *)
(* while the process restarts would leave the PEL once the relay runs      *)
(* again with its session routable.                                        *)
RestartRecovers ==
  \A r \in Relay, s \in Session :
    <>[](Routable(r, s) /\ pc[r] # "off") =>
      \A i \in 1..MaxReplies :
        (crashes > 0 /\ pc[r] = "off" /\ i \in streams[s].pel)
          ~> (i \notin streams[s].pel)
=============================================================================
