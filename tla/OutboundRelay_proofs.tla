------------------------ MODULE OutboundRelay_proofs ------------------------
(***************************************************************************)
(* Proofs about OutboundRelay for any number of relays, sessions, surfaces *)
(* and replies, and any values of the bounds.  IndInv is inductive; the    *)
(* safety properties are its conjuncts.                                    *)
(***************************************************************************)
EXTENDS OutboundRelay, RedisStream_proofs, TLAPS

-----------------------------------------------------------------------------
(* Names of replies.                                                       *)
LEMMA ReplyFacts ==
  /\ \A m \in Reply : m[1] \in Session /\ m[2] \in 1..MaxReplies /\ m = <<m[1], m[2]>>
  /\ NoReply \notin Reply
  /\ Session \subseteq Nat
BY RelayAssumption DEF Reply, NoReply

(* A step that moves one thread on without touching what the ledger        *)
(* speaks about: every stream keeps its entries, positions and pending     *)
(* entries, and the thread holds and sends nothing it did not hold and     *)
(* send before.                                                            *)
LEMMA QuietStep ==
  ASSUME IndInv, TypeOK', NEW r \in Relay,
         UNCHANGED <<discord, orphans, acked>>,
         \A s \in Session : /\ streams'[s].log = streams[s].log
                            /\ streams'[s].trim = streams[s].trim
                            /\ streams'[s].last = streams[s].last
                            /\ streams'[s].pel = streams[s].pel
                            /\ streams[s].group => streams'[s].group,
         \A q \in Relay \ {r} : /\ pc'[q] = pc[q] /\ batch'[q] = batch[q]
                                /\ cur'[q] = cur[q] /\ task'[q] = task[q]
                                /\ snap'[q] = snap[q] /\ todo'[q] = todo[q],
         ThreadOK(r)',
         Held(r)' \subseteq Held(r), OnTheWay(r)' \subseteq OnTheWay(r)
  PROVE  IndInv'
<1>1. \A s \in Session : StreamOK(streams'[s])
  BY DEF IndInv, StreamOK
<1>2. Landed' = Landed
  BY DEF Landed
<1>3. /\ Passed' = Passed
      /\ Pending' = Pending
      /\ \A m \in Reply : Decodes(m)' = Decodes(m)
  BY ReplyFacts DEF Passed, Pending, Decodes
<1>4. \A q \in Relay \ {r} : Held(q)' = Held(q) /\ OnTheWay(q)' = OnTheWay(q)
  BY DEF Held, OnTheWay
<1>5. \A q \in Relay \ {r} : cur[q] # NoReply => cur[q] \in Reply
  BY DEF IndInv, TypeOK
<1>6. \A q \in Relay : ThreadOK(q)'
  <2> SUFFICES ASSUME NEW q \in Relay \ {r} PROVE ThreadOK(q)'
    OBVIOUS
  <2>1. ThreadOK(q)
    BY DEF IndInv
  <2>2. /\ pc'[q] = pc[q] /\ batch'[q] = batch[q] /\ cur'[q] = cur[q]
        /\ task'[q] = task[q] /\ snap'[q] = snap[q] /\ todo'[q] = todo[q]
    OBVIOUS
  <2>3. snap[q] \subseteq Session
    BY DEF IndInv, TypeOK
  <2> QED BY <2>1, <2>2, <2>3, <1>2, <1>3, <1>5 DEF ThreadOK
<1>7. LedgerOK'
  <2>1. orphans \cup Landed \subseteq Reply
    BY DEF IndInv, LedgerOK, Passed
  <2> QED BY <2>1, <1>2, <1>3, <1>4 DEF IndInv, LedgerOK
<1>8. AtMostOnce'
  BY DEF IndInv, AtMostOnce
<1>9. AckedIsSettled'
  BY <1>2, <1>3 DEF IndInv, TypeOK, AckedIsSettled
<1>10. NothingLostSilently'
  <2>1. \A s \in Session : Unread(streams'[s]) = Unread(streams[s])
    BY DEF Unread, Floor
  <2> QED BY <2>1 DEF IndInv, NothingLostSilently
<1>11. OneHolder'
  BY <1>3, <1>4 DEF IndInv, OneHolder
<1> QED BY <1>1, <1>6, <1>7, <1>8, <1>9, <1>10, <1>11 DEF IndInv

-----------------------------------------------------------------------------
(* The initial states satisfy the invariant.                               *)
LEMMA InitIndInv == Init => IndInv
<1> SUFFICES ASSUME Init PROVE IndInv
  OBVIOUS
<1>1. EmptyStream \in Streams(Kind) /\ InitRouting \in RoutingStates
  BY DEF EmptyStream, Streams, InitRouting, RoutingStates
<1>2. TypeOK
  BY <1>1 DEF Init, TypeOK
<1>3. \A s \in Session : StreamOK(streams[s])
  BY RelayAssumption DEF Init, StreamOK, EmptyStream
<1>4. \A r \in Relay : ThreadOK(r)
  BY DEF Init, ThreadOK, NoReply
<1>5. Landed = {}
  BY DEF Init, Landed
<1>6. LedgerOK
  BY <1>5 DEF Init, LedgerOK, OnTheWay
<1>7. AtMostOnce /\ AckedIsSettled /\ NothingLostSilently
  BY DEF Init, AtMostOnce, AckedIsSettled, NothingLostSilently, EmptyStream
<1>8. OneHolder
  BY DEF Init, OneHolder, Held, NoReply
<1> QED BY <1>2, <1>3, <1>4, <1>6, <1>7, <1>8 DEF IndInv

-----------------------------------------------------------------------------
(* Routing states stay routing states.                                     *)
LEMMA RoutingType ==
  ASSUME NEW rs \in RoutingStates, NEW k \in Surface
  PROVE  /\ \A s \in Session : SetTarget(rs, k, s) \in RoutingStates
         /\ ClearTarget(rs, k) \in RoutingStates
         /\ \A enabled \in BOOLEAN : SetRouting(rs, k, enabled) \in RoutingStates
BY DEF RoutingStates, SetTarget, ClearTarget, SetRouting

(* An entry leaves the batch: a reply, while the thread has none in hand.  *)
LEMMA TakeFacts ==
  ASSUME IndInv, NEW r \in Relay, NEW m \in batch[r], Take(r, m)
  PROVE  /\ m \in Reply
         /\ batch'[r] = batch[r] \ {m}
         /\ batch' \in [Relay -> SUBSET Reply]
         /\ cur[r] = NoReply /\ task[r] = "none"
BY DEF IndInv, TypeOK, Take, ThreadOK

(* A control phrase keeps the invariant: it changes only the routing       *)
(* state.                                                                  *)
LEMMA HookRoutesKeeps == ASSUME IndInv, NEW r \in Relay, HookRoutes(r) PROVE IndInv'
<1>1. PICK k \in Surface :
        \/ \E s \in Session : routing' = [routing EXCEPT ![r] = SetTarget(@, k, s)]
        \/ routing' = [routing EXCEPT ![r] = ClearTarget(@, k)]
        \/ \E enabled \in BOOLEAN :
             routing' = [routing EXCEPT ![r] = SetRouting(@, k, enabled)]
  BY DEF HookRoutes
<1>5. routing \in [Relay -> RoutingStates]
  BY DEF IndInv, TypeOK
<1>4. routing' \in [Relay -> RoutingStates]
  BY <1>1, <1>5, RoutingType
<1>2. TypeOK'
  BY <1>4 DEF HookRoutes, IndInv, TypeOK, relayVars
<1>3. ThreadOK(r)'
  BY DEF HookRoutes, relayVars, IndInv, ThreadOK, Decodes, Landed
<1> QED BY <1>2, <1>3, QuietStep DEF HookRoutes, relayVars, Held, OnTheWay

(* The start of a relay thread keeps the invariant.                        *)
LEMMA StartKeeps == ASSUME IndInv, NEW r \in Relay, Start(r) PROVE IndInv'
<1>1. TypeOK'
  BY DEF Start, IndInv, TypeOK
<1>2. ThreadOK(r)'
  BY DEF Start, IndInv, TypeOK, ThreadOK, Decodes, Landed
<1> QED BY <1>1, <1>2, QuietStep DEF Start, IndInv, TypeOK, Held, OnTheWay

(* The snapshot of the routable sessions keeps the invariant.              *)
LEMMA SnapshotKeeps == ASSUME IndInv, NEW r \in Relay, Snapshot(r) PROVE IndInv'
<1>1. ActiveTargets(routing[r]) \subseteq Session
  BY DEF ActiveTargets
<1>2. TypeOK'
  BY <1>1 DEF Snapshot, IndInv, TypeOK
<1>3. ThreadOK(r)'
  BY DEF Snapshot, IndInv, TypeOK, ThreadOK, Decodes, Landed
<1> QED BY <1>2, <1>3, QuietStep DEF Snapshot, IndInv, TypeOK, Held, OnTheWay

(* XGROUP CREATE keeps the invariant.                                      *)
LEMMA EnsureKeeps == ASSUME IndInv, NEW r \in Relay, Ensure(r) PROVE IndInv'
<1>1. PICK s \in todo[r] :
        /\ streams' = [streams EXCEPT ![s] = EnsureGroup(@)]
        /\ todo' = [todo EXCEPT ![r] = @ \ {s}]
        /\ pc' = [pc EXCEPT ![r] = IF todo[r] = {s} THEN "read" ELSE "ensure"]
  BY DEF Ensure
<1>2. s \in Session /\ streams[s] \in Streams(Kind) /\ StreamOK(streams[s])
  BY DEF IndInv, TypeOK
<1>3. /\ EnsureGroup(streams[s]) \in Streams(Kind)
      /\ EnsureGroup(streams[s]).group
      /\ EnsureGroup(streams[s]).log = streams[s].log
      /\ EnsureGroup(streams[s]).trim = streams[s].trim
      /\ EnsureGroup(streams[s]).last = streams[s].last
      /\ EnsureGroup(streams[s]).pel = streams[s].pel
  BY <1>2, EnsureGroupFacts DEF StreamOK
<1>4. streams \in [Session -> Streams(Kind)]
  BY DEF IndInv, TypeOK
<1>5. TypeOK'
  BY <1>1, <1>2, <1>3 DEF Ensure, IndInv, TypeOK
<1>6. \A t \in Session : /\ streams'[t].log = streams[t].log
                         /\ streams'[t].trim = streams[t].trim
                         /\ streams'[t].last = streams[t].last
                         /\ streams'[t].pel = streams[t].pel
                         /\ streams[t].group => streams'[t].group
  BY <1>1, <1>2, <1>3, <1>4
<1>7. ThreadOK(r)'
  <2>1. ThreadOK(r) /\ snap[r] \subseteq Session /\ snap' = snap
    BY DEF Ensure, IndInv, TypeOK
  <2>2. \A t \in snap'[r] \ todo'[r] : streams'[t].group
    <3>1. streams'[s].group
      BY <1>1, <1>2, <1>3, <1>4
    <3>2. \A t \in snap[r] \ todo[r] : streams[t].group
      BY <2>1 DEF Ensure, ThreadOK
    <3> QED BY <1>1, <1>6, <2>1, <3>1, <3>2 DEF IndInv, TypeOK
  <2>3. pc'[r] = "read" => todo'[r] = {}
    BY <1>1 DEF IndInv, TypeOK
  <2>4. pc'[r] \in {"ensure", "read"} /\ batch'[r] = batch[r] /\ cur'[r] = cur[r] /\ task'[r] = task[r]
    BY <1>1 DEF Ensure, IndInv, TypeOK
  <2> QED BY <2>1, <2>2, <2>3, <2>4 DEF Ensure, ThreadOK
<1> QED BY <1>1, <1>5, <1>6, <1>7, QuietStep DEF Ensure, IndInv, TypeOK, Held, OnTheWay

(* XREADGROUP that answers nothing keeps the invariant.                    *)
LEMMA ReadNothingKeeps == ASSUME IndInv, NEW r \in Relay, ReadNothing(r) PROVE IndInv'
<1>1. TypeOK'
  BY DEF ReadNothing, IndInv, TypeOK
<1>2. ThreadOK(r)'
  BY DEF ReadNothing, IndInv, TypeOK, ThreadOK, Decodes, Landed
<1> QED BY <1>1, <1>2, QuietStep DEF ReadNothing, IndInv, TypeOK, Held, OnTheWay

(* A malformed entry taken from the batch keeps the invariant.             *)
LEMMA TakeMalformedKeeps ==
  ASSUME IndInv, NEW r \in Relay, NEW m \in batch[r], TakeMalformed(r, m) PROVE IndInv'
<1>1. Take(r, m)
  BY DEF TakeMalformed
<1>2. TypeOK'
  BY <1>1, TakeFacts DEF TakeMalformed, IndInv, TypeOK
<1>3. ThreadOK(r)'
  BY <1>1, TakeFacts, ReplyFacts
     DEF TakeMalformed, Take, IndInv, TypeOK, ThreadOK, Decodes, Landed
<1>4. Held(r)' \subseteq Held(r) /\ OnTheWay(r)' \subseteq OnTheWay(r)
  BY <1>1, TakeFacts DEF TakeMalformed, IndInv, TypeOK, Held, OnTheWay
<1> QED BY <1>2, <1>3, <1>4, QuietStep DEF TakeMalformed, Take, IndInv, TypeOK

(* A reply that cannot be sent, left pending, keeps the invariant.         *)
LEMMA SendImpossibleKeeps ==
  ASSUME IndInv, NEW r \in Relay, NEW m \in batch[r], SendImpossible(r, m) PROVE IndInv'
<1>1. Take(r, m)
  BY DEF SendImpossible
<1>2. TypeOK'
  BY <1>1, TakeFacts DEF SendImpossible, IndInv, TypeOK
<1>3. ThreadOK(r)'
  BY <1>1, TakeFacts DEF SendImpossible, Take, IndInv, TypeOK, ThreadOK, Decodes, Landed
<1>4. Held(r)' \subseteq Held(r) /\ OnTheWay(r)' \subseteq OnTheWay(r)
  BY <1>1, TakeFacts DEF SendImpossible, IndInv, TypeOK, Held, OnTheWay
<1> QED BY <1>2, <1>3, <1>4, QuietStep DEF SendImpossible, Take, IndInv, TypeOK

(* A send scheduled on the loop keeps the invariant.                       *)
LEMMA ScheduleKeeps ==
  ASSUME IndInv, NEW r \in Relay, NEW m \in batch[r], Schedule(r, m) PROVE IndInv'
<1>1. Take(r, m)
  BY DEF Schedule
<1>2. TypeOK'
  BY <1>1, TakeFacts DEF Schedule, IndInv, TypeOK
<1>3. ThreadOK(r)'
  BY <1>1, TakeFacts, ReplyFacts
     DEF Schedule, Take, IndInv, TypeOK, ThreadOK, Decodes, Landed
<1>4. Held(r)' \subseteq Held(r) /\ OnTheWay(r)' \subseteq OnTheWay(r)
  BY <1>1, TakeFacts DEF Schedule, IndInv, TypeOK, Held, OnTheWay
<1> QED BY <1>2, <1>3, <1>4, QuietStep DEF Schedule, Take, IndInv, TypeOK

(* The end of a send that landed keeps the invariant.                      *)
LEMMA LoopReturnsKeeps == ASSUME IndInv, NEW r \in Relay, LoopReturns(r) PROVE IndInv'
<1>1. TypeOK'
  BY DEF LoopReturns, IndInv, TypeOK
<1>2. ThreadOK(r)'
  BY ReplyFacts DEF LoopReturns, IndInv, TypeOK, ThreadOK, Decodes, Landed
<1>3. Held(r)' \subseteq Held(r) /\ OnTheWay(r)' \subseteq OnTheWay(r)
  BY DEF LoopReturns, IndInv, TypeOK, Held, OnTheWay
<1> QED BY <1>1, <1>2, <1>3, QuietStep DEF LoopReturns, IndInv, TypeOK

(* The result of a send, seen by the thread, keeps the invariant.          *)
LEMMA SendSucceedsKeeps == ASSUME IndInv, NEW r \in Relay, SendSucceeds(r) PROVE IndInv'
<1>1. TypeOK'
  BY DEF SendSucceeds, IndInv, TypeOK
<1>2. ThreadOK(r)'
  BY ReplyFacts DEF SendSucceeds, IndInv, TypeOK, ThreadOK, Decodes, Landed
<1>3. Held(r)' \subseteq Held(r) /\ OnTheWay(r)' \subseteq OnTheWay(r)
  BY DEF SendSucceeds, IndInv, TypeOK, Held, OnTheWay
<1> QED BY <1>1, <1>2, <1>3, QuietStep DEF SendSucceeds, IndInv, TypeOK

(* A failed send, left pending, keeps the invariant.                       *)
LEMMA SendFailsKeeps == ASSUME IndInv, NEW r \in Relay, SendFails(r) PROVE IndInv'
<1>1. TypeOK'
  BY DEF SendFails, LeavePending, IndInv, TypeOK
<1>2. ThreadOK(r)'
  BY ReplyFacts DEF SendFails, LeavePending, IndInv, TypeOK, ThreadOK, Decodes, Landed
<1>3. Held(r)' \subseteq Held(r) /\ OnTheWay(r)' \subseteq OnTheWay(r)
  BY DEF SendFails, LeavePending, IndInv, TypeOK, Held, OnTheWay
<1> QED BY <1>1, <1>2, <1>3, QuietStep DEF SendFails, LeavePending, IndInv, TypeOK

(* The end of a pass keeps the invariant.                                  *)
LEMMA PassEndsKeeps == ASSUME IndInv, NEW r \in Relay, PassEnds(r) PROVE IndInv'
<1>1. TypeOK'
  BY DEF PassEnds, IndInv, TypeOK
<1>2. ThreadOK(r)'
  BY ReplyFacts DEF PassEnds, IndInv, TypeOK, ThreadOK, Decodes, Landed
<1>3. Held(r)' \subseteq Held(r) /\ OnTheWay(r)' \subseteq OnTheWay(r)
  BY DEF PassEnds, IndInv, TypeOK, Held, OnTheWay
<1> QED BY <1>1, <1>2, <1>3, QuietStep DEF PassEnds, IndInv, TypeOK
-----------------------------------------------------------------------------
(* A send loses its waiter: the reply leaves the thread's hands and joins  *)
(* the orphans, which nobody else holds.                                   *)
LEMMA OrphanStep ==
  ASSUME IndInv, TypeOK', NEW r \in Relay,
         UNCHANGED <<streams, discord, acked>>,
         task[r] = "running", orphans' = orphans \cup {cur[r]},
         \A q \in Relay \ {r} : /\ pc'[q] = pc[q] /\ batch'[q] = batch[q]
                                /\ cur'[q] = cur[q] /\ task'[q] = task[q]
                                /\ snap'[q] = snap[q] /\ todo'[q] = todo[q],
         ThreadOK(r)',
         Held(r)' \subseteq Held(r), OnTheWay(r)' \subseteq batch[r]
  PROVE  IndInv'
<1>1. /\ Landed' = Landed /\ Passed' = Passed /\ Pending' = Pending
      /\ \A m \in Reply : Decodes(m)' = Decodes(m)
  BY DEF Landed, Passed, Pending, Decodes
<1>2. \A q \in Relay \ {r} : Held(q)' = Held(q) /\ OnTheWay(q)' = OnTheWay(q)
  BY DEF Held, OnTheWay
<1>3. ThreadOK(r) /\ cur[r] \in Held(r) /\ cur[r] \in OnTheWay(r) /\ Decodes(cur[r])
  BY DEF IndInv, ThreadOK, Held, OnTheWay
<1>4. cur[r] \in Reply /\ cur[r] \in Passed /\ cur[r] \notin Landed
  <2>1. cur[r] \in Pending
    BY <1>3 DEF IndInv, OneHolder
  <2>2. \A s \in Session : streams[s].pel \subseteq 1..streams[s].last
    BY DEF IndInv, StreamOK
  <2>3. \A s \in Session : streams[s].last \in Nat
    BY DEF IndInv, TypeOK, Streams
  <2>4. cur[r] \notin Landed
    BY <1>3 DEF IndInv, LedgerOK
  <2> QED BY <2>1, <2>2, <2>3, <2>4, ReplyFacts DEF Pending, Passed
<1>5. \A q \in Relay \ {r} : cur[r] \notin OnTheWay(q)
  <2>1. \A q \in Relay : OnTheWay(q) \subseteq Held(q)
    BY DEF IndInv, ThreadOK, OnTheWay, Held
  <2> QED BY <2>1, <1>3 DEF IndInv, OneHolder
<1>6. \A q \in Relay : ThreadOK(q)'
  <2> SUFFICES ASSUME NEW q \in Relay \ {r} PROVE ThreadOK(q)'
    OBVIOUS
  <2> QED BY <1>1 DEF IndInv, TypeOK, ThreadOK, Decodes
<1>7. LedgerOK'
  <2>1. cur[r] \notin batch[r]
    BY <1>3 DEF ThreadOK
  <2>2. OnTheWay(r)' \cap (Landed \cup orphans \cup {cur[r]}) = {}
    BY <2>1 DEF IndInv, LedgerOK, OnTheWay
  <2>3. orphans \cup Landed \subseteq Reply
    BY DEF IndInv, LedgerOK, Passed
  <2> QED BY <1>1, <1>2, <1>3, <1>4, <1>5, <2>2, <2>3 DEF IndInv, LedgerOK
<1>8. /\ \A s \in Session : StreamOK(streams'[s])
      /\ AtMostOnce' /\ NothingLostSilently'
  BY DEF IndInv, AtMostOnce, NothingLostSilently
<1>9. AckedIsSettled'
  BY <1>1 DEF IndInv, TypeOK, AckedIsSettled
<1>10. OneHolder'
  BY <1>1, <1>2 DEF IndInv, OneHolder
<1> QED BY <1>6, <1>7, <1>8, <1>9, <1>10 DEF IndInv

(* A send that raises keeps the invariant.                                 *)
LEMMA LoopRaisesKeeps == ASSUME IndInv, NEW r \in Relay, LoopRaises(r) PROVE IndInv'
<1>1. TypeOK'
  <2>1. cur[r] \in Reply
    BY DEF LoopRaises, IndInv, TypeOK, ThreadOK
  <2> QED BY <2>1 DEF LoopRaises, IndInv, TypeOK
<1>2. ThreadOK(r)'
  BY ReplyFacts DEF LoopRaises, IndInv, TypeOK, ThreadOK, Decodes, Landed
<1>3. Held(r)' \subseteq Held(r) /\ OnTheWay(r)' \subseteq OnTheWay(r)
  BY DEF LoopRaises, IndInv, TypeOK, Held, OnTheWay
<1>4. CASE UNCHANGED orphans
  BY <1>1, <1>2, <1>3, <1>4, QuietStep DEF LoopRaises, IndInv, TypeOK
<1>5. CASE task[r] = "running" /\ orphans' = orphans \cup {cur[r]}
  <2>1. OnTheWay(r)' \subseteq batch[r]
    BY DEF LoopRaises, IndInv, TypeOK, OnTheWay
  <2> QED BY <1>1, <1>2, <1>3, <1>5, <2>1, OrphanStep DEF LoopRaises, IndInv, TypeOK
<1> QED BY <1>4, <1>5 DEF LoopRaises

(* A send that times out keeps the invariant.                              *)
LEMMA SendTimesOutKeeps == ASSUME IndInv, NEW r \in Relay, SendTimesOut(r) PROVE IndInv'
<1>1. cur[r] \in Reply
  BY DEF SendTimesOut, IndInv, TypeOK, ThreadOK
<1>2. TypeOK'
  BY <1>1 DEF SendTimesOut, LeavePending, IndInv, TypeOK
<1>3. ThreadOK(r)'
  BY ReplyFacts DEF SendTimesOut, LeavePending, IndInv, TypeOK, ThreadOK, Decodes, Landed
<1>4. /\ Held(r)' \subseteq Held(r) /\ OnTheWay(r)' \subseteq batch[r]
      /\ OnTheWay(r)' \subseteq OnTheWay(r)
  BY DEF SendTimesOut, LeavePending, IndInv, TypeOK, Held, OnTheWay
<1>5. CASE task[r] = "running"
  BY <1>2, <1>3, <1>4, <1>5, OrphanStep DEF SendTimesOut, LeavePending, IndInv, TypeOK
<1>6. CASE task[r] = "landed"
  BY <1>2, <1>3, <1>4, <1>6, QuietStep DEF SendTimesOut, LeavePending, IndInv, TypeOK
<1> QED BY <1>5, <1>6 DEF SendTimesOut

(* The death of a process keeps the invariant.                             *)
LEMMA CrashKeeps == ASSUME IndInv, NEW r \in Relay, Crash(r) PROVE IndInv'
<1>1. task[r] = "running" => cur[r] \in Reply
  BY DEF IndInv, TypeOK, ThreadOK
<1>2. InitRouting \in RoutingStates
  BY DEF InitRouting, RoutingStates
<1>3. TypeOK'
  BY <1>1, <1>2 DEF Crash, IndInv, TypeOK
<1>4. ThreadOK(r)'
  BY ReplyFacts DEF Crash, IndInv, TypeOK, ThreadOK, Decodes, Landed
<1>5. Held(r)' = {} /\ OnTheWay(r)' = {}
  BY DEF Crash, IndInv, TypeOK, Held, OnTheWay
<1>6. CASE task[r] = "running"
  BY <1>3, <1>4, <1>5, <1>6, OrphanStep DEF Crash, IndInv, TypeOK
<1>7. CASE task[r] # "running"
  BY <1>3, <1>4, <1>5, <1>7, QuietStep DEF Crash, IndInv, TypeOK
<1> QED BY <1>6, <1>7

-----------------------------------------------------------------------------
(* A reply lands that had not landed.                                      *)
LEMMA AppendLands ==
  ASSUME discord \in Seq(Reply), NEW m \in Reply, discord' = Append(discord, m)
  PROVE  Landed' = Landed \cup {m}
BY DEF Landed

(* The landing of a reply that nobody else sends keeps the invariant.      *)
LEMMA LandStep ==
  ASSUME IndInv, TypeOK', NEW m \in Passed, Decodes(m), m \notin Landed,
         discord' = Append(discord, m), orphans' = orphans \ {m},
         UNCHANGED <<streams, acked>>,
         \A q \in Relay : /\ ThreadOK(q)'
                          /\ Held(q)' = Held(q)
                          /\ OnTheWay(q)' \subseteq OnTheWay(q) \ {m}
  PROVE  IndInv'
<1>1. discord \in Seq(Reply) /\ m \in Reply
  BY DEF IndInv, TypeOK, Passed
<1>2. Landed' = Landed \cup {m}
  BY <1>1, AppendLands
<1>3. AtMostOnce'
  BY <1>1 DEF IndInv, AtMostOnce, Landed
<1>4. /\ Passed' = Passed /\ Pending' = Pending
      /\ \A n \in Reply : Decodes(n)' = Decodes(n)
  BY DEF Passed, Pending, Decodes
<1>5. LedgerOK'
  <2>1. orphans \cup Landed \subseteq Reply
    BY DEF IndInv, LedgerOK, Passed
  <2> QED BY <1>1, <1>2, <1>4, <2>1 DEF IndInv, LedgerOK
<1>6. AckedIsSettled'
  BY <1>2, <1>4 DEF IndInv, TypeOK, AckedIsSettled
<1>7. /\ \A s \in Session : StreamOK(streams'[s])
      /\ NothingLostSilently'
  BY DEF IndInv, NothingLostSilently
<1>8. OneHolder'
  BY <1>4 DEF IndInv, OneHolder
<1> QED BY <1>3, <1>5, <1>6, <1>7, <1>8 DEF IndInv

(* What is on its way to Discord is in the hands of the thread.            *)
LEMMA OnTheWayIsHeld ==
  ASSUME IndInv, NEW r \in Relay PROVE OnTheWay(r) \subseteq Held(r)
BY DEF IndInv, ThreadOK, OnTheWay, Held

(* What is pending, or held by a relay, the group has passed.              *)
LEMMA HeldIsPassed ==
  ASSUME IndInv PROVE Pending \subseteq Passed /\ \A r \in Relay : Held(r) \subseteq Passed
<1>1. \A s \in Session : streams[s].pel \subseteq 1..streams[s].last
  BY DEF IndInv, StreamOK
<1>2. \A s \in Session : streams[s].last \in Nat
  BY DEF IndInv, TypeOK, Streams
<1>3. Pending \subseteq Passed
  BY <1>1, <1>2, ReplyFacts DEF Pending, Passed
<1> QED BY <1>3 DEF IndInv, OneHolder

(* A send that lands in time keeps the invariant.                          *)
LEMMA LoopLandsKeeps == ASSUME IndInv, NEW r \in Relay, LoopLands(r) PROVE IndInv'
<1>1. /\ cur[r] \in Held(r) /\ cur[r] \in OnTheWay(r) /\ cur[r] \in Reply
      /\ Decodes(cur[r]) /\ pc[r] = "sending" /\ cur[r] \notin batch[r]
  BY DEF LoopLands, IndInv, TypeOK, ThreadOK, Held, OnTheWay
<1>2. cur[r] \in Passed
  BY <1>1, HeldIsPassed
<1>3. cur[r] \notin Landed /\ cur[r] \notin orphans
  BY <1>1 DEF IndInv, LedgerOK
<1>4. TypeOK'
  BY <1>1 DEF LoopLands, IndInv, TypeOK
<1>5. Landed' = Landed \cup {cur[r]}
  BY <1>1, AppendLands DEF LoopLands, IndInv, TypeOK
<1>6. \A q \in Relay : ThreadOK(q)'
  <2> SUFFICES ASSUME NEW q \in Relay PROVE ThreadOK(q)'
    OBVIOUS
  <2>1. ThreadOK(q)
    BY DEF IndInv
  <2> QED BY <1>1, <1>5, <2>1 DEF LoopLands, IndInv, TypeOK, ThreadOK, Decodes
<1>7. \A q \in Relay : /\ Held(q)' = Held(q)
                       /\ OnTheWay(q)' \subseteq OnTheWay(q) \ {cur[r]}
  <2> SUFFICES ASSUME NEW q \in Relay
               PROVE  /\ Held(q)' = Held(q)
                      /\ OnTheWay(q)' \subseteq OnTheWay(q) \ {cur[r]}
    OBVIOUS
  <2>1. Held(q)' = Held(q) /\ OnTheWay(q)' \subseteq OnTheWay(q)
    BY DEF LoopLands, Held, OnTheWay, IndInv, TypeOK
  <2>2. CASE q = r
    BY <2>1, <2>2, <1>1 DEF LoopLands, OnTheWay, IndInv, TypeOK
  <2>3. CASE q # r
    BY <2>1, <2>3, <1>1, OnTheWayIsHeld DEF IndInv, OneHolder
  <2> QED BY <2>2, <2>3
<1> QED BY <1>1, <1>2, <1>3, <1>4, <1>6, <1>7, LandStep DEF LoopLands

(* A send that lands after its waiter is gone keeps the invariant.         *)
LEMMA OrphanLandsKeeps == ASSUME IndInv, NEW m \in orphans, OrphanLands(m) PROVE IndInv'
<1>1. m \in Passed /\ m \in Reply /\ Decodes(m) /\ m \notin Landed
  BY DEF IndInv, LedgerOK, Passed
<1>2. TypeOK'
  BY <1>1 DEF OrphanLands, relayVars, IndInv, TypeOK
<1>3. Landed' = Landed \cup {m}
  BY <1>1, AppendLands DEF OrphanLands, IndInv, TypeOK
<1>4. \A q \in Relay : /\ ThreadOK(q)'
                       /\ Held(q)' = Held(q)
                       /\ OnTheWay(q)' \subseteq OnTheWay(q) \ {m}
  <2> SUFFICES ASSUME NEW q \in Relay
               PROVE  /\ ThreadOK(q)' /\ Held(q)' = Held(q)
                      /\ OnTheWay(q)' \subseteq OnTheWay(q) \ {m}
    OBVIOUS
  <2>1. ThreadOK(q)
    BY DEF IndInv
  <2>2. ThreadOK(q)'
    BY <2>1, <1>3 DEF OrphanLands, relayVars, ThreadOK, Decodes
  <2>3. Held(q)' = Held(q) /\ OnTheWay(q)' = OnTheWay(q)
    BY DEF OrphanLands, relayVars, Held, OnTheWay
  <2>4. m \notin OnTheWay(q)
    BY DEF IndInv, LedgerOK
  <2> QED BY <2>2, <2>3, <2>4
<1> QED BY <1>1, <1>2, <1>4, LandStep DEF OrphanLands
-----------------------------------------------------------------------------
(* XREADGROUP: every reply it makes pending is above the group's position, *)
(* so nobody holds it and it has not landed.  The answer may be lost.      *)
LEMMA FetchStep ==
  ASSUME IndInv, TypeOK', NEW r \in Relay, NEW S \in SUBSET Session,
         streams' = StreamsAfterRead(S),
         UNCHANGED <<discord, orphans, acked, task>>,
         \A q \in Relay \ {r} : /\ pc'[q] = pc[q] /\ batch'[q] = batch[q]
                                /\ cur'[q] = cur[q]
                                /\ snap'[q] = snap[q] /\ todo'[q] = todo[q],
         S = snap[r], pc[r] = "read", batch'[r] \in {{}, Fetched(S)}, cur'[r] = NoReply,
         pc'[r] \in {"idle", "read", "batch"}, batch'[r] = {} \/ pc'[r] = "batch",
         pc'[r] = "read" => snap'[r] = S /\ todo'[r] = {}
  PROVE  IndInv'
<1>1. \A s \in Session : streams[s] \in Streams(Kind) /\ StreamOK(streams[s])
  BY DEF IndInv, TypeOK
<1> DEFINE New(s) == IF s \in S THEN NextIds(streams[s], ReadCount) ELSE {}
<1>3. \A s \in Session :
        /\ streams[s].last \in Nat /\ streams[s].trim \in Nat
        /\ Len(streams[s].log) \in Nat /\ streams[s].log \in Seq(Kind)
        /\ streams[s].last <= Len(streams[s].log)
        /\ streams[s].trim <= Len(streams[s].log)
  BY <1>1 DEF Streams, StreamOK
<1>4. \A s \in Session :
        /\ streams'[s].log = streams[s].log
        /\ streams'[s].trim = streams[s].trim
        /\ streams'[s].group = streams[s].group
        /\ streams'[s].pel = streams[s].pel \cup New(s)
        /\ streams'[s].last \in Nat
        /\ streams[s].last <= streams'[s].last
        /\ streams'[s].last <= Len(streams[s].log)
        /\ \A i \in New(s) : i \in Nat /\ streams[s].last < i /\ i <= streams'[s].last
        /\ \A i \in Nat : streams[s].last < i /\ i <= streams'[s].last
                         => i \in New(s) \/ i <= streams[s].trim
  <2> SUFFICES ASSUME NEW s \in Session
               PROVE  /\ streams'[s].log = streams[s].log
                      /\ streams'[s].trim = streams[s].trim
                      /\ streams'[s].group = streams[s].group
                      /\ streams'[s].pel = streams[s].pel \cup New(s)
                      /\ streams'[s].last \in Nat
                      /\ streams[s].last <= streams'[s].last
                      /\ streams'[s].last <= Len(streams[s].log)
                      /\ \A i \in New(s) : i \in Nat /\ streams[s].last < i /\ i <= streams'[s].last
                      /\ \A i \in Nat : streams[s].last < i /\ i <= streams'[s].last
                                       => i \in New(s) \/ i <= streams[s].trim
    OBVIOUS
  <2>1. CASE s \in S
    <3>1. streams'[s] = ReadGroup(streams[s], ReadCount) /\ New(s) = NextIds(streams[s], ReadCount)
      BY <2>1 DEF StreamsAfterRead
    <3>4. streams[s] \in Streams(Kind) /\ ReadCount \in Nat \ {0}
      BY <1>1, RelayAssumption
    <3>5. /\ ReadGroup(streams[s], ReadCount).log = streams[s].log
          /\ ReadGroup(streams[s], ReadCount).trim = streams[s].trim
          /\ ReadGroup(streams[s], ReadCount).group = streams[s].group
          /\ ReadGroup(streams[s], ReadCount).last \in streams[s].last..Len(streams[s].log)
          /\ ReadGroup(streams[s], ReadCount).pel =
               streams[s].pel \cup NextIds(streams[s], ReadCount)
          /\ NextIds(streams[s], ReadCount) \subseteq
               (streams[s].last + 1)..ReadGroup(streams[s], ReadCount).last
          /\ \A i \in (streams[s].last + 1)..ReadGroup(streams[s], ReadCount).last :
               i \in NextIds(streams[s], ReadCount) \/ i <= streams[s].trim
      BY <3>4, <1>3, ReadGroupFacts
    <3> HIDE DEF New
    <3>2. /\ streams'[s].log = streams[s].log
          /\ streams'[s].trim = streams[s].trim
          /\ streams'[s].group = streams[s].group
          /\ streams'[s].last \in streams[s].last..Len(streams[s].log)
          /\ streams'[s].pel = streams[s].pel \cup New(s)
          /\ New(s) \subseteq (streams[s].last + 1)..streams'[s].last
          /\ \A i \in (streams[s].last + 1)..streams'[s].last :
               i \in New(s) \/ i <= streams[s].trim
      BY <3>1, <3>5
    <3>3. streams'[s].last \in Nat
      BY <3>2, <1>3
    <3> QED BY <3>2, <3>3, <1>3
  <2>2. CASE s \notin S
    <3>1. streams'[s] = streams[s] /\ New(s) = {}
      BY <2>2 DEF StreamsAfterRead
    <3> HIDE DEF New
    <3>2. \A i \in Nat : ~(streams[s].last < i /\ i <= streams'[s].last)
      BY <3>1, <1>3
    <3> QED BY <3>1, <3>2, <1>3
  <2> QED BY <2>1, <2>2
<1>2. Fetched(S) = {m \in Reply : m[2] \in New(m[1])}
  BY DEF Fetched
<1> HIDE DEF New
<1>5. \A s \in S : streams[s].group
  BY DEF IndInv, ThreadOK
<1>6. \A s \in Session : StreamOK(streams'[s])
  <2> SUFFICES ASSUME NEW s \in Session PROVE StreamOK(streams'[s])
    OBVIOUS
  <2>1. StreamOK(streams[s])
    BY <1>1
  <2>2. streams'[s].pel \subseteq 1..streams'[s].last
    <3>1. streams[s].pel \subseteq 1..streams[s].last
      BY <2>1 DEF StreamOK
    <3>2. \A i \in New(s) : i \in 1..streams'[s].last
      BY <1>3, <1>4
    <3>3. \A i \in streams[s].pel : i \in 1..streams'[s].last
      BY <1>3, <1>4, <3>1
    <3> QED BY <1>4, <3>2, <3>3
  <2>3. ~streams'[s].group => streams'[s].last = 0
    <3>1. CASE s \in S
      BY <3>1, <1>4, <1>5
    <3>2. CASE s \notin S
      <4>1. streams'[s] = streams[s]
        BY <3>2 DEF StreamsAfterRead
      <4> QED BY <4>1, <2>1 DEF StreamOK
    <3> QED BY <3>1, <3>2
  <2> QED BY <1>3, <1>4, <2>1, <2>2, <2>3 DEF StreamOK
<1>7. /\ Landed' = Landed
      /\ \A m \in Reply : Decodes(m)' = Decodes(m)
      /\ Passed \subseteq Passed'
  <2>1. \A m \in Reply : Decodes(m)' = Decodes(m)
    BY <1>4, ReplyFacts DEF Decodes
  <2>2. Passed \subseteq Passed'
    BY <1>3, <1>4, ReplyFacts DEF Passed
  <2> QED BY <2>1, <2>2 DEF Landed
<1>8. /\ Fetched(S) \cap Passed = {}
      /\ Pending' = Pending \cup Fetched(S)
  <2>2. Fetched(S) \cap Passed = {}
    <3> SUFFICES ASSUME NEW m \in Reply, m[2] \in New(m[1]), m[2] <= streams[m[1]].last
                 PROVE  FALSE
      BY <1>2 DEF Passed
    <3>1. m[1] \in Session
      BY ReplyFacts
    <3> QED BY <3>1, <1>3, <1>4
  <2>3. ASSUME NEW m \in Reply
        PROVE  m \in Pending' <=> m \in Pending \/ m \in Fetched(S)
    BY <1>2, <1>4, ReplyFacts DEF Pending
  <2>4. Pending' \subseteq Reply /\ Pending \subseteq Reply /\ Fetched(S) \subseteq Reply
    BY DEF Pending, Fetched
  <2> QED BY <2>2, <2>3, <2>4
<1>9. /\ \A q \in Relay \ {r} : Held(q)' = Held(q) /\ OnTheWay(q)' = OnTheWay(q)
      /\ Held(r)' \subseteq Fetched(S)
      /\ OnTheWay(r)' \subseteq Fetched(S)
  <2>1. task[r] = "none" /\ task'[r] = "none"
    BY DEF IndInv, ThreadOK
  <2> QED BY <2>1 DEF Held, OnTheWay
<1>10. \A q \in Relay : ThreadOK(q)'
  <2>1. ASSUME NEW q \in Relay \ {r} PROVE ThreadOK(q)'
    <3>1. ThreadOK(q)
      BY DEF IndInv
    <3>2. cur[q] # NoReply => cur[q] \in Reply
      BY DEF IndInv, TypeOK
    <3>3. \A s \in Session : streams'[s].group = streams[s].group
      BY <1>4
    <3>4. snap[q] \subseteq Session
      BY DEF IndInv, TypeOK
    <3> QED BY <3>1, <3>2, <3>3, <3>4, <1>7 DEF ThreadOK
  <2>2. ThreadOK(r)'
    <3>1. cur'[r] \notin batch'[r]
      BY ReplyFacts DEF Fetched
    <3>2. task'[r] = "none"
      BY DEF IndInv, ThreadOK
    <3>3. \A s \in S : streams'[s].group
      BY <1>4, <1>5
    <3> QED BY <3>1, <3>2, <3>3 DEF ThreadOK
  <2> QED BY <2>1, <2>2
<1>11. LedgerOK'
  <2>1. orphans \cup Landed \cup acked \subseteq Passed /\ Passed \subseteq Reply
    BY DEF IndInv, LedgerOK, Passed
  <2>2. \A q \in Relay : OnTheWay(q)' \cap (Landed \cup orphans) = {}
    BY <1>8, <1>9, <2>1 DEF IndInv, LedgerOK
  <2>3. acked \cap Pending' = {}
    BY <1>8, <2>1 DEF IndInv, LedgerOK
  <2> QED BY <1>7, <2>1, <2>2, <2>3 DEF IndInv, LedgerOK
<1>12. AtMostOnce' /\ AckedIsSettled'
  BY <1>7 DEF IndInv, TypeOK, AtMostOnce, AckedIsSettled
<1>13. NothingLostSilently'
  <2> SUFFICES ASSUME NEW s \in Session, NEW i \in 1..Len(streams[s].log)
               PROVE  \/ i \in Unread(streams'[s])
                      \/ i \in streams'[s].pel
                      \/ <<s, i>> \in acked
                      \/ i <= streams[s].trim
    BY <1>4 DEF NothingLostSilently
  <2>1. \/ i \in Unread(streams[s]) \/ i \in streams[s].pel
        \/ <<s, i>> \in acked \/ i <= streams[s].trim
    BY DEF IndInv, NothingLostSilently
  <2>2. CASE i \in Unread(streams[s])
    <3>1. i \in Nat /\ i > streams[s].last /\ i > streams[s].trim
      BY <2>2, <1>3 DEF Unread, Floor
    <3>2. CASE i <= streams'[s].last
      BY <3>1, <3>2, <1>4
    <3>3. CASE i > streams'[s].last
      BY <3>1, <3>3, <1>3, <1>4 DEF Unread, Floor
    <3> QED BY <3>1, <3>2, <3>3, <1>4
  <2> QED BY <2>1, <2>2, <1>4
<1>14. OneHolder'
  <2>1. \A q \in Relay : Held(q) \subseteq Passed /\ Held(q) \subseteq Pending
    BY HeldIsPassed DEF IndInv, OneHolder
  <2> QED BY <1>8, <1>9, <2>1 DEF IndInv, OneHolder
<1> QED BY <1>6, <1>10, <1>11, <1>12, <1>13, <1>14 DEF IndInv

(* The streams after an XREADGROUP are streams.                            *)
LEMMA ReadTyped ==
  ASSUME IndInv, NEW S \in SUBSET Session
  PROVE  StreamsAfterRead(S) \in [Session -> Streams(Kind)]
<1>1. ASSUME NEW s \in Session PROVE ReadGroup(streams[s], ReadCount) \in Streams(Kind)
  <2>1. streams[s] \in Streams(Kind) /\ StreamOK(streams[s])
    BY DEF IndInv, TypeOK
  <2> QED BY <2>1, ReadGroupFacts, RelayAssumption DEF StreamOK
<1> QED BY <1>1 DEF StreamsAfterRead, IndInv, TypeOK

(* XREADGROUP, answered, keeps the invariant.                              *)
LEMMA ReadKeeps == ASSUME IndInv, NEW r \in Relay, Read(r) PROVE IndInv'
<1>1. snap[r] \in SUBSET Session /\ cur[r] = NoReply
  BY DEF Read, IndInv, TypeOK, ThreadOK
<1>2. StreamsAfterRead(snap[r]) \in [Session -> Streams(Kind)]
  BY ReadTyped, <1>1
<1>3. Fetched(snap[r]) \subseteq Reply
  BY DEF Fetched
<1>4. TypeOK'
  BY <1>2, <1>3 DEF Read, IndInv, TypeOK
<1> QED BY <1>1, <1>4, FetchStep DEF Read, IndInv, TypeOK

(* XREADGROUP that fails, served or not, keeps the invariant.              *)
LEMMA ReadFailsKeeps == ASSUME IndInv, NEW r \in Relay, ReadFails(r) PROVE IndInv'
<1>1. /\ snap[r] \in SUBSET Session /\ cur[r] = NoReply /\ task[r] = "none"
      /\ batch[r] = {}
  BY DEF ReadFails, IndInv, TypeOK, ThreadOK
<1>2. StreamsAfterRead(snap[r]) \in [Session -> Streams(Kind)]
  BY ReadTyped, <1>1
<1>3. TypeOK'
  BY <1>2 DEF ReadFails, Abandon, Fault, IndInv, TypeOK
<1>4. CASE UNCHANGED streams
  <2>1. ThreadOK(r)'
    BY <1>1, <1>4 DEF ReadFails, Abandon, IndInv, TypeOK, ThreadOK
  <2>2. Held(r)' \subseteq Held(r) /\ OnTheWay(r)' \subseteq OnTheWay(r)
    BY <1>1 DEF ReadFails, Abandon, IndInv, TypeOK, Held, OnTheWay
  <2> QED BY <1>3, <1>4, <2>1, <2>2, QuietStep DEF ReadFails, Abandon, IndInv, TypeOK
<1>5. CASE streams' = StreamsAfterRead(snap[r])
  BY <1>1, <1>3, <1>5, FetchStep DEF ReadFails, Abandon, IndInv, TypeOK
<1> QED BY <1>4, <1>5 DEF ReadFails

(* XREADGROUP sent twice keeps the invariant.                              *)
LEMMA ReadResentKeeps == ASSUME IndInv, NEW r \in Relay, ReadResent(r) PROVE IndInv'
<1>1. /\ snap[r] \in SUBSET Session /\ cur[r] = NoReply /\ batch[r] = {}
      /\ todo[r] = {}
  BY DEF ReadResent, IndInv, TypeOK, ThreadOK
<1>2. StreamsAfterRead(snap[r]) \in [Session -> Streams(Kind)]
  BY ReadTyped, <1>1
<1>3. TypeOK'
  BY <1>2 DEF ReadResent, Fault, relayVars, IndInv, TypeOK
<1> QED BY <1>1, <1>3, FetchStep DEF ReadResent, relayVars, IndInv, TypeOK

(* XGROUP CREATE that fails, served or not, keeps the invariant.           *)
LEMMA EnsureFailsKeeps == ASSUME IndInv, NEW r \in Relay, EnsureFails(r) PROVE IndInv'
<1>1. /\ cur[r] = NoReply /\ task[r] = "none" /\ batch[r] = {}
      /\ streams \in [Session -> Streams(Kind)]
  BY DEF EnsureFails, IndInv, TypeOK, ThreadOK
<1>2. /\ streams' \in [Session -> Streams(Kind)]
      /\ \A t \in Session : /\ streams'[t].log = streams[t].log
                            /\ streams'[t].trim = streams[t].trim
                            /\ streams'[t].last = streams[t].last
                            /\ streams'[t].pel = streams[t].pel
                            /\ streams[t].group => streams'[t].group
  <2>1. CASE UNCHANGED streams
    BY <1>1, <2>1
  <2>2. CASE \E s \in todo[r] : streams' = [streams EXCEPT ![s] = EnsureGroup(@)]
    <3>1. PICK s \in todo[r] : streams' = [streams EXCEPT ![s] = EnsureGroup(@)]
      BY <2>2
    <3>2. s \in Session /\ streams[s] \in Streams(Kind) /\ StreamOK(streams[s])
      BY DEF IndInv, TypeOK
    <3>3. /\ EnsureGroup(streams[s]) \in Streams(Kind)
          /\ EnsureGroup(streams[s]).group
          /\ EnsureGroup(streams[s]).log = streams[s].log
          /\ EnsureGroup(streams[s]).trim = streams[s].trim
          /\ EnsureGroup(streams[s]).last = streams[s].last
          /\ EnsureGroup(streams[s]).pel = streams[s].pel
      BY <3>2, EnsureGroupFacts DEF StreamOK
    <3> QED BY <1>1, <3>1, <3>2, <3>3
  <2> QED BY <2>1, <2>2 DEF EnsureFails
<1>3. TypeOK'
  BY <1>2 DEF EnsureFails, Abandon, Fault, IndInv, TypeOK
<1>4. ThreadOK(r)'
  BY <1>1 DEF EnsureFails, Abandon, IndInv, TypeOK, ThreadOK
<1>5. Held(r)' \subseteq Held(r) /\ OnTheWay(r)' \subseteq OnTheWay(r)
  BY <1>1 DEF EnsureFails, Abandon, IndInv, TypeOK, Held, OnTheWay
<1> QED BY <1>2, <1>3, <1>4, <1>5, QuietStep DEF EnsureFails, Abandon, IndInv, TypeOK
-----------------------------------------------------------------------------
(* XACK of the reply in hand: it is pending, and it is malformed or landed.*)
LEMMA AckStep ==
  ASSUME IndInv, TypeOK', NEW r \in Relay, pc[r] = "ack", XackCur(r),
         UNCHANGED <<discord, orphans, task>>,
         \A q \in Relay \ {r} : /\ pc'[q] = pc[q] /\ batch'[q] = batch[q]
                                /\ cur'[q] = cur[q]
                                /\ snap'[q] = snap[q] /\ todo'[q] = todo[q],
         batch'[r] \subseteq batch[r], cur'[r] = NoReply,
         pc'[r] \in {"idle", "batch"}, batch'[r] = {} \/ pc'[r] = "batch"
  PROVE  IndInv'
<1> DEFINE m == cur[r]
<1>1. /\ m \in Reply /\ m \in Held(r) /\ m \notin batch[r] /\ task[r] = "none"
      /\ Decodes(m) => m \in Landed
  BY DEF IndInv, TypeOK, ThreadOK, Held
<1>2. m[1] \in Session /\ m[2] \in Nat /\ m = <<m[1], m[2]>> /\ m \in Passed
  BY <1>1, HeldIsPassed, ReplyFacts
<1> HIDE DEF m
<1>3. /\ streams \in [Session -> Streams(Kind)]
      /\ streams' = [streams EXCEPT ![m[1]] = Ack(@, m[2])]
      /\ acked' = acked \cup {m}
  BY DEF XackCur, IndInv, TypeOK, m
<1>4. \A s \in Session :
        /\ streams'[s].log = streams[s].log
        /\ streams'[s].trim = streams[s].trim
        /\ streams'[s].group = streams[s].group
        /\ streams'[s].last = streams[s].last
        /\ streams'[s].pel = IF s = m[1] THEN streams[s].pel \ {m[2]} ELSE streams[s].pel
  <2>1. /\ Ack(streams[m[1]], m[2]).log = streams[m[1]].log
        /\ Ack(streams[m[1]], m[2]).trim = streams[m[1]].trim
        /\ Ack(streams[m[1]], m[2]).group = streams[m[1]].group
        /\ Ack(streams[m[1]], m[2]).last = streams[m[1]].last
        /\ Ack(streams[m[1]], m[2]).pel = streams[m[1]].pel \ {m[2]}
    BY <1>2, <1>3, AckFacts
  <2> QED BY <1>2, <1>3, <2>1
<1>5. \A s \in Session : StreamOK(streams'[s])
  BY <1>4 DEF IndInv, StreamOK
<1>6. /\ Landed' = Landed /\ Passed' = Passed
      /\ \A n \in Reply : Decodes(n)' = Decodes(n)
  <2>1. Landed' = Landed
    BY DEF Landed
  <2>2. Passed' = Passed
    BY <1>4, ReplyFacts DEF Passed
  <2>3. \A n \in Reply : Decodes(n)' = Decodes(n)
    BY <1>4, ReplyFacts DEF Decodes
  <2> QED BY <2>1, <2>2, <2>3
<1>7. Pending' = Pending \ {m}
  <2>1. ASSUME NEW n \in Reply PROVE n \in Pending' <=> n \in Pending /\ n # m
    <3>1. n[1] \in Session /\ n = <<n[1], n[2]>>
      BY ReplyFacts
    <3>2. n = m <=> n[1] = m[1] /\ n[2] = m[2]
      BY <3>1, <1>2
    <3>3. n \in Pending <=> n[2] \in streams[n[1]].pel
      BY DEF Pending
    <3>4. n \in Pending' <=> n[2] \in streams'[n[1]].pel
      BY DEF Pending
    <3> QED BY <3>1, <3>2, <3>3, <3>4, <1>4
  <2>2. Pending' \subseteq Reply /\ Pending \subseteq Reply
    BY DEF Pending
  <2> QED BY <2>1, <2>2
<1>8. /\ \A q \in Relay \ {r} : Held(q)' = Held(q) /\ OnTheWay(q)' = OnTheWay(q)
      /\ Held(r)' \subseteq Held(r) \ {m}
      /\ OnTheWay(r)' \subseteq OnTheWay(r)
  BY <1>1 DEF Held, OnTheWay
<1>9. \A q \in Relay : ThreadOK(q)'
  <2>1. ASSUME NEW q \in Relay \ {r} PROVE ThreadOK(q)'
    <3>1. ThreadOK(q)
      BY DEF IndInv
    <3>2. (cur[q] # NoReply => cur[q] \in Reply) /\ snap[q] \subseteq Session
      BY DEF IndInv, TypeOK
    <3> QED BY <3>1, <3>2, <1>4, <1>6 DEF ThreadOK
  <2>2. ThreadOK(r)'
    <3>1. NoReply \notin batch'[r]
      BY ReplyFacts DEF IndInv, TypeOK
    <3> QED BY <3>1, <1>1 DEF ThreadOK
  <2> QED BY <2>1, <2>2
<1>10. LedgerOK'
  <2>1. orphans \cup Landed \subseteq Reply
    BY DEF IndInv, LedgerOK, Passed
  <2> QED BY <2>1, <1>2, <1>3, <1>6, <1>7, <1>8 DEF IndInv, LedgerOK
<1>11. AtMostOnce'
  BY DEF IndInv, AtMostOnce
<1>12. AckedIsSettled'
  BY <1>1, <1>3, <1>6 DEF IndInv, TypeOK, AckedIsSettled
<1>13. NothingLostSilently'
  <2>1. \A s \in Session : Unread(streams'[s]) = Unread(streams[s])
    BY <1>4 DEF Unread, Floor
  <2> SUFFICES ASSUME NEW s \in Session, NEW i \in 1..Len(streams[s].log)
               PROVE  \/ i \in Unread(streams'[s])
                      \/ i \in streams'[s].pel
                      \/ <<s, i>> \in acked'
                      \/ i <= streams'[s].trim
    BY <1>4 DEF NothingLostSilently
  <2>2. \/ i \in Unread(streams[s]) \/ i \in streams[s].pel
        \/ <<s, i>> \in acked \/ i <= streams[s].trim
    BY DEF IndInv, NothingLostSilently
  <2>3. CASE s = m[1] /\ i = m[2]
    BY <2>3, <1>2, <1>3
  <2>4. CASE ~(s = m[1] /\ i = m[2])
    BY <2>1, <2>2, <2>4, <1>3, <1>4
  <2> QED BY <2>3, <2>4
<1>14. OneHolder'
  <2>1. \A q \in Relay \ {r} : m \notin Held(q)
    BY <1>1 DEF IndInv, OneHolder
  <2> QED BY <2>1, <1>7, <1>8 DEF IndInv, OneHolder
<1> QED BY <1>5, <1>9, <1>10, <1>11, <1>12, <1>13, <1>14 DEF IndInv

(* The state after an XACK has its type.                                   *)
LEMMA AckTyped ==
  ASSUME IndInv, NEW r \in Relay, pc[r] = "ack", XackCur(r)
  PROVE  streams' \in [Session -> Streams(Kind)] /\ acked' \in SUBSET Reply
<1>1. cur[r] \in Reply
  BY DEF IndInv, TypeOK, ThreadOK
<1>2. cur[r][1] \in Session /\ cur[r][2] \in Nat
  BY <1>1, ReplyFacts
<1>3. streams[cur[r][1]] \in Streams(Kind)
  BY <1>2 DEF IndInv, TypeOK
<1>4. Ack(streams[cur[r][1]], cur[r][2]) \in Streams(Kind)
  BY <1>2, <1>3, AckFacts
<1> QED BY <1>1, <1>2, <1>4 DEF XackCur, IndInv, TypeOK

(* XACK keeps the invariant.                                               *)
LEMMA AckEntryKeeps == ASSUME IndInv, NEW r \in Relay, AckEntry(r) PROVE IndInv'
<1>1. TypeOK'
  BY AckTyped DEF AckEntry, IndInv, TypeOK
<1> QED BY <1>1, AckStep DEF AckEntry, IndInv, TypeOK

(* XACK that fails, served or not, keeps the invariant.                    *)
LEMMA AckFailsKeeps == ASSUME IndInv, NEW r \in Relay, AckFails(r) PROVE IndInv'
<1>1. task[r] = "none"
  BY DEF AckFails, IndInv, ThreadOK
<1>2. CASE XackCur(r)
  <2>1. TypeOK'
    BY <1>2, AckTyped DEF AckFails, Abandon, Fault, IndInv, TypeOK
  <2> QED BY <1>2, <2>1, AckStep DEF AckFails, Abandon, IndInv, TypeOK
<1>3. CASE UNCHANGED <<streams, acked>>
  <2>1. TypeOK'
    BY <1>3 DEF AckFails, Abandon, Fault, IndInv, TypeOK
  <2>2. ThreadOK(r)'
    BY <1>1 DEF AckFails, Abandon, IndInv, TypeOK, ThreadOK
  <2>3. Held(r)' \subseteq Held(r) /\ OnTheWay(r)' \subseteq OnTheWay(r)
    BY <1>1 DEF AckFails, Abandon, IndInv, TypeOK, Held, OnTheWay
  <2> QED BY <1>3, <2>1, <2>2, <2>3, QuietStep DEF AckFails, Abandon, IndInv, TypeOK
<1> QED BY <1>2, <1>3 DEF AckFails

-----------------------------------------------------------------------------
(* A new entry is unread, and what happened to the old ones stands.        *)
LEMMA SessionRepliesKeeps ==
  ASSUME IndInv, NEW s \in Session, NEW kind \in Kind, SessionReplies(s, kind)
  PROVE  IndInv'
<1>1. PICK cut \in TrimPoints(streams[s], MaxLen) :
        streams' = [streams EXCEPT ![s] = Xadd(@, kind, cut)]
  BY DEF SessionReplies
<1>2. /\ streams \in [Session -> Streams(Kind)] /\ StreamOK(streams[s])
      /\ \A t \in Session : Len(streams[t].log) \in Nat /\ streams[t].last \in Nat
                            /\ streams[t].trim \in Nat
  BY DEF IndInv, TypeOK, Streams
<1>3. /\ Xadd(streams[s], kind, cut) \in Streams(Kind)
      /\ Len(Xadd(streams[s], kind, cut).log) = Len(streams[s].log) + 1
      /\ \A i \in 1..Len(streams[s].log) :
           Xadd(streams[s], kind, cut).log[i] = streams[s].log[i]
      /\ Xadd(streams[s], kind, cut).trim \in streams[s].trim..(Len(streams[s].log) + 1)
      /\ Xadd(streams[s], kind, cut).last = streams[s].last
      /\ Xadd(streams[s], kind, cut).group = streams[s].group
      /\ Xadd(streams[s], kind, cut).pel = streams[s].pel
  <2>1. /\ streams[s] \in Streams(Kind) /\ MaxLen \in Nat
        /\ streams[s].trim <= Len(streams[s].log)
    BY <1>2, RelayAssumption DEF StreamOK
  <2> QED BY <2>1, XaddFacts
<1>4. \A t \in Session :
        /\ streams'[t].last = streams[t].last
        /\ streams'[t].group = streams[t].group
        /\ streams'[t].pel = streams[t].pel
        /\ \A i \in 1..Len(streams[t].log) : streams'[t].log[i] = streams[t].log[i]
        /\ Len(streams'[t].log) \in Nat /\ streams'[t].trim \in Nat
        /\ streams[t].trim <= streams'[t].trim
        /\ streams'[t].trim <= Len(streams'[t].log)
        /\ Len(streams[t].log) <= Len(streams'[t].log)
        /\ Len(streams'[t].log) <= MaxReplies
        /\ Len(streams'[t].log) <= Len(streams[t].log) + 1
        /\ streams'[t].last <= Len(streams[t].log)
  <2> SUFFICES ASSUME NEW t \in Session
               PROVE  /\ streams'[t].last = streams[t].last
                      /\ streams'[t].group = streams[t].group
                      /\ streams'[t].pel = streams[t].pel
                      /\ \A i \in 1..Len(streams[t].log) :
                           streams'[t].log[i] = streams[t].log[i]
                      /\ Len(streams'[t].log) \in Nat /\ streams'[t].trim \in Nat
                      /\ streams[t].trim <= streams'[t].trim
                      /\ streams'[t].trim <= Len(streams'[t].log)
                      /\ Len(streams[t].log) <= Len(streams'[t].log)
                      /\ Len(streams'[t].log) <= MaxReplies
                      /\ Len(streams'[t].log) <= Len(streams[t].log) + 1
                      /\ streams'[t].last <= Len(streams[t].log)
    OBVIOUS
  <2>1. StreamOK(streams[t]) /\ MaxReplies \in Nat
    BY RelayAssumption DEF IndInv
  <2>2. CASE t = s
    <3>1. streams'[t] = Xadd(streams[s], kind, cut)
      BY <1>1, <1>2, <2>2
    <3>2. Len(streams[s].log) < MaxReplies
      BY DEF SessionReplies
    <3> QED BY <3>1, <3>2, <1>2, <1>3, <2>1, <2>2 DEF StreamOK
  <2>3. CASE t # s
    BY <1>1, <1>2, <2>1, <2>3 DEF StreamOK
  <2> QED BY <2>2, <2>3
<1>5. \A t \in Session : StreamOK(streams'[t])
  BY <1>2, <1>4 DEF IndInv, StreamOK
<1>6. TypeOK'
  BY <1>1, <1>3 DEF SessionReplies, relayVars, IndInv, TypeOK
<1>7. Landed' = Landed /\ Passed' = Passed /\ Pending' = Pending
  BY <1>4, ReplyFacts DEF Landed, Passed, Pending, SessionReplies
<1>8. \A m \in Passed : Decodes(m)' = Decodes(m)
  <2> SUFFICES ASSUME NEW m \in Passed PROVE Decodes(m)' = Decodes(m)
    OBVIOUS
  <2>1. m[1] \in Session /\ m[2] \in 1..MaxReplies /\ m[2] <= streams[m[1]].last
    BY ReplyFacts DEF Passed
  <2>2. m[2] \in 1..Len(streams[m[1]].log)
    BY <2>1, <1>2, <1>4
  <2> QED BY <2>1, <2>2, <1>4 DEF Decodes
<1>9. \A q \in Relay : Held(q)' = Held(q) /\ OnTheWay(q)' = OnTheWay(q)
  BY DEF SessionReplies, relayVars, Held, OnTheWay
<1>10. \A q \in Relay : ThreadOK(q)'
  <2> SUFFICES ASSUME NEW q \in Relay PROVE ThreadOK(q)'
    OBVIOUS
  <2>1. ThreadOK(q) /\ snap[q] \subseteq Session
    BY DEF IndInv, TypeOK
  <2>2. cur[q] # NoReply => cur[q] \in Passed
    BY HeldIsPassed DEF Held
  <2> QED BY <2>1, <2>2, <1>4, <1>7, <1>8 DEF SessionReplies, relayVars, ThreadOK
<1>11. LedgerOK'
  <2>1. orphans \cup Landed \cup acked \subseteq Passed
    BY DEF IndInv, LedgerOK
  <2> QED BY <2>1, <1>7, <1>8, <1>9 DEF SessionReplies, IndInv, LedgerOK
<1>12. AtMostOnce'
  BY DEF SessionReplies, IndInv, AtMostOnce
<1>13. AckedIsSettled'
  <2>1. acked \subseteq Passed
    BY DEF IndInv, LedgerOK
  <2> QED BY <2>1, <1>7, <1>8 DEF SessionReplies, IndInv, AckedIsSettled
<1>14. NothingLostSilently'
  <2> SUFFICES ASSUME NEW t \in Session, NEW i \in 1..Len(streams'[t].log)
               PROVE  \/ i \in Unread(streams'[t])
                      \/ i \in streams'[t].pel
                      \/ <<t, i>> \in acked
                      \/ i <= streams'[t].trim
    BY DEF SessionReplies, NothingLostSilently
  <2>1. i \in Nat /\ i >= 1 /\ i <= Len(streams'[t].log)
    BY <1>4
  <2>2. CASE i > streams'[t].last
    BY <2>1, <2>2, <1>2, <1>4 DEF Unread, Floor
  <2>3. CASE i <= streams[t].last
    <3>1. i \in 1..Len(streams[t].log) /\ i \notin Unread(streams[t])
      BY <2>1, <2>3, <1>2, <1>4 DEF Unread, Floor
    <3>2. \/ i \in streams[t].pel \/ <<t, i>> \in acked \/ i <= streams[t].trim
      BY <3>1 DEF IndInv, NothingLostSilently
    <3> QED BY <3>2, <2>1, <1>2, <1>4
  <2> QED BY <2>1, <2>2, <2>3, <1>2, <1>4
<1>15. OneHolder'
  BY <1>7, <1>9 DEF IndInv, OneHolder
<1> QED BY <1>5, <1>6, <1>10, <1>11, <1>12, <1>13, <1>14, <1>15 DEF IndInv
-----------------------------------------------------------------------------
(* Every step keeps the invariant.                                         *)
LEMMA NextKeepsIndInv == IndInv /\ [Next]_vars => IndInv'
<1> SUFFICES ASSUME IndInv, [Next]_vars PROVE IndInv'
  OBVIOUS
<1>1. CASE UNCHANGED vars
  <2>1. UNCHANGED <<streams, pc, snap, todo, batch, cur, task, orphans, discord, acked>>
    BY <1>1 DEF vars, relayVars
  <2>2. TypeOK'
    BY <1>1 DEF vars, relayVars, IndInv, TypeOK
  <2>3. \A r \in Relay : ThreadOK(r)' /\ Held(r)' = Held(r) /\ OnTheWay(r)' = OnTheWay(r)
    BY <2>1 DEF IndInv, ThreadOK, Held, OnTheWay, Decodes, Landed
  <2>4. LedgerOK'
    BY <2>1, <2>3 DEF IndInv, LedgerOK, Landed, Passed, Pending, Decodes
  <2>5. /\ \A s \in Session : StreamOK(streams'[s])
        /\ AtMostOnce' /\ NothingLostSilently'
    BY <2>1 DEF IndInv, AtMostOnce, NothingLostSilently
  <2>6. AckedIsSettled'
    BY <2>1 DEF IndInv, AckedIsSettled, Decodes, Landed
  <2>7. OneHolder'
    BY <2>1, <2>3 DEF IndInv, OneHolder, Pending
  <2> QED BY <2>2, <2>3, <2>4, <2>5, <2>6, <2>7 DEF IndInv
<1>2. CASE \E s \in Session, kind \in Kind : SessionReplies(s, kind)
  BY <1>2, SessionRepliesKeeps
<1>3. CASE \E r \in Relay : HookRoutes(r) \/ Start(r) \/ Crash(r)
  BY <1>3, HookRoutesKeeps, StartKeeps, CrashKeeps
<1>4. CASE \E r \in Relay : LoopStep(r)
  BY <1>4, LoopLandsKeeps, LoopReturnsKeeps, LoopRaisesKeeps DEF LoopStep
<1>5. CASE \E m \in orphans : OrphanLands(m)
  BY <1>5, OrphanLandsKeeps
<1>6. CASE \E r \in Relay : RelayStep(r)
  <2>1. PICK r \in Relay : RelayStep(r)
    BY <1>6
  <2>2. CASE HandleEntry(r)
    BY <2>2, TakeMalformedKeeps, SendImpossibleKeeps, ScheduleKeeps DEF HandleEntry
  <2>3. CASE Snapshot(r) \/ Ensure(r) \/ EnsureFails(r)
    BY <2>3, SnapshotKeeps, EnsureKeeps, EnsureFailsKeeps
  <2>4. CASE Read(r) \/ ReadNothing(r) \/ ReadFails(r) \/ ReadResent(r)
    BY <2>4, ReadKeeps, ReadNothingKeeps, ReadFailsKeeps, ReadResentKeeps
  <2>5. CASE SendSucceeds(r) \/ SendFails(r) \/ SendTimesOut(r)
    BY <2>5, SendSucceedsKeeps, SendFailsKeeps, SendTimesOutKeeps
  <2>6. CASE AckEntry(r) \/ AckFails(r) \/ PassEnds(r)
    BY <2>6, AckEntryKeeps, AckFailsKeeps, PassEndsKeeps
  <2> QED BY <2>1, <2>2, <2>3, <2>4, <2>5, <2>6 DEF RelayStep
<1> QED BY <1>1, <1>2, <1>3, <1>4, <1>5, <1>6 DEF Next

(* The inductive invariant holds in every reachable state.                 *)
THEOREM Invariance == Spec => []IndInv
BY InitIndInv, NextKeepsIndInv, PTL DEF Spec

(* Every variable of the relay model keeps its type.                       *)
THEOREM TypeCorrect == Spec => []TypeOK
<1>1. IndInv => TypeOK
  BY DEF IndInv
<1> QED BY <1>1, Invariance, PTL

(* No reply lands on Discord twice, for any number of relays in the group, *)
(* whatever times out, fails, or restarts (outbound.py poll_once).         *)
THEOREM NeverTwice == Spec => []AtMostOnce
<1>1. IndInv => AtMostOnce
  BY DEF IndInv
<1> QED BY <1>1, Invariance, PTL

(* A reply is acknowledged only when it was malformed or is on Discord     *)
(* (outbound.py:164-183).                                                  *)
THEOREM AckAfterLanding == Spec => []AckedIsSettled
<1>1. IndInv => AckedIsSettled
  BY DEF IndInv
<1> QED BY <1>1, Invariance, PTL

(* Whatever fails, a reply that is not acknowledged and was not trimmed is *)
(* unread or pending (outbound.py:174, "left pending, not lost").          *)
THEOREM NoSilentLoss == Spec => []NothingLostSilently
<1>1. IndInv => NothingLostSilently
  BY DEF IndInv
<1> QED BY <1>1, Invariance, PTL

(* Two relays of the group never hold the same reply, and what one holds   *)
(* is pending in Redis (redis_client.py xreadgroup).                       *)
THEOREM SoleHolder == Spec => []OneHolder
<1>1. IndInv => OneHolder
  BY DEF IndInv
<1> QED BY <1>1, Invariance, PTL

-----------------------------------------------------------------------------
(* Why a single relay acknowledges in order: what is acknowledged, or      *)
(* landed and about to be, landed in order; and what the thread still      *)
(* holds comes later than all of it.                                       *)
Sure(r) ==
  acked \cup (IF pc[r] = "ack" \/ task[r] \in {"landed", "done"} THEN {cur[r]} ELSE {})

Ordered(r) ==
  /\ \A i, j \in DOMAIN discord :
       i < j /\ {discord[i], discord[j]} \subseteq Sure(r) /\ discord[i][1] = discord[j][1]
         => discord[i][2] < discord[j][2]
  /\ \A m \in acked, n \in Held(r) : m[1] = n[1] => m[2] < n[2]
  /\ cur[r] # NoReply => \A n \in batch[r] : cur[r][1] = n[1] => cur[r][2] < n[2]

OrderInv == \A r \in Relay : Relay = {r} => Ordered(r)

(* A step that lands and acknowledges nothing, and takes nothing in hand.  *)
LEMMA OrderQuiet ==
  ASSUME NEW r \in Relay, Ordered(r),
         discord' = discord, acked' = acked, Sure(r)' \subseteq Sure(r),
         batch'[r] \subseteq batch[r], cur'[r] \in {cur[r], NoReply}
  PROVE  Ordered(r)'
<1>1. Held(r)' \subseteq Held(r) /\ NoReply' = NoReply
  BY DEF Held, NoReply
<1> QED
  BY <1>1 DEF Ordered

LEMMA OrderStep ==
  ASSUME IndInv, IndInv', NEW r \in Relay, Relay = {r}, Ordered(r), [Next]_vars
  PROVE  Ordered(r)'
<1>1. /\ pc \in [Relay -> {"off", "idle", "ensure", "read", "batch", "sending", "ack"}]
      /\ batch \in [Relay -> SUBSET Reply]
      /\ cur \in [Relay -> Reply \cup {NoReply}]
      /\ task \in [Relay -> {"none", "running", "landed", "done", "failed"}]
      /\ discord \in Seq(Reply) /\ acked \subseteq Reply
  BY DEF IndInv, TypeOK
<1>2. /\ (cur[r] # NoReply) <=> (pc[r] \in {"sending", "ack"})
      /\ (task[r] # "none") <=> (pc[r] = "sending")
  BY DEF IndInv, ThreadOK
<1>3. ASSUME NEW m \in Reply, m \notin Landed, discord' = Append(discord, m),
             acked' = acked, m \notin acked,
             \/ Sure(r)' = Sure(r) /\ m \notin Sure(r)
             \/ Sure(r) = acked /\ Sure(r)' = acked \cup {m} /\ m \in Held(r),
             batch'[r] = batch[r], cur'[r] = cur[r]
      PROVE  Ordered(r)'
  <2>1. /\ Held(r)' = Held(r) /\ NoReply' = NoReply
        /\ Len(discord) \in Nat /\ Len(discord') = Len(discord) + 1
        /\ discord'[Len(discord) + 1] = m
        /\ \A i \in 1..Len(discord) : discord'[i] = discord[i] /\ discord[i] # m
        /\ DOMAIN discord' = 1..(Len(discord) + 1) /\ DOMAIN discord = 1..Len(discord)
    BY <1>1, <1>3 DEF Held, NoReply, Landed
  <2>2. ASSUME NEW i \in DOMAIN discord', NEW j \in DOMAIN discord', i < j,
               {discord'[i], discord'[j]} \subseteq Sure(r)',
               discord'[i][1] = discord'[j][1]
        PROVE  discord'[i][2] < discord'[j][2]
    <3>1. i \in 1..Len(discord)
      BY <2>1, <2>2
    <3>2. discord'[i] \in Sure(r)
      BY <1>3, <2>1, <2>2, <3>1
    <3>3. CASE j \in 1..Len(discord)
      <4>1. discord'[j] \in Sure(r)
        BY <1>3, <2>1, <2>2, <3>3
      <4> QED
        BY <2>1, <2>2, <3>1, <3>2, <3>3, <4>1 DEF Ordered
    <3>4. CASE j = Len(discord) + 1
      <4>1. m \in Held(r) /\ discord'[i] \in acked
        BY <1>3, <2>1, <2>2, <3>2, <3>4
      <4> QED
        BY <2>1, <2>2, <3>4, <4>1 DEF Ordered
    <3> QED
      BY <2>1, <2>2, <3>3, <3>4
  <2> QED
    BY <1>3, <2>1, <2>2 DEF Ordered
<1>4. CASE UNCHANGED vars
  BY <1>4, OrderQuiet DEF vars, relayVars, Sure
<1>5. CASE \/ \E s \in Session, kind \in Kind : SessionReplies(s, kind)
           \/ HookRoutes(r) \/ Start(r) \/ Snapshot(r) \/ Ensure(r) \/ EnsureFails(r)
           \/ ReadNothing(r) \/ ReadFails(r) \/ ReadResent(r)
           \/ LoopReturns(r) \/ LoopRaises(r) \/ SendSucceeds(r) \/ SendFails(r)
           \/ SendTimesOut(r) \/ PassEnds(r) \/ Crash(r)
           \/ \E m \in batch[r] : SendImpossible(r, m)
  <2>1. discord' = discord /\ acked' = acked
    BY <1>5 DEF SessionReplies, HookRoutes, Start, Snapshot, Ensure, EnsureFails,
                ReadNothing, ReadFails, ReadResent, LoopReturns, LoopRaises,
                SendSucceeds, SendFails, SendTimesOut, PassEnds, Crash, SendImpossible
  <2>2. batch'[r] \subseteq batch[r] /\ cur'[r] \in {cur[r], NoReply}
    BY <1>1, <1>5
       DEF SessionReplies, HookRoutes, Start, Snapshot, Ensure, EnsureFails,
           ReadNothing, ReadFails, ReadResent, LoopReturns, LoopRaises,
           SendSucceeds, SendFails, SendTimesOut, PassEnds, Crash, SendImpossible,
           Take, Abandon, LeavePending, relayVars
  <2>3. Sure(r)' \subseteq Sure(r)
    BY <1>1, <1>2, <1>5, <2>1
       DEF SessionReplies, HookRoutes, Start, Snapshot, Ensure, EnsureFails,
           ReadNothing, ReadFails, ReadResent, LoopReturns, LoopRaises,
           SendSucceeds, SendFails, SendTimesOut, PassEnds, Crash, SendImpossible,
           Take, Abandon, LeavePending, relayVars, Sure
  <2> QED
    BY <2>1, <2>2, <2>3, OrderQuiet
<1>6. CASE LoopLands(r)
  <2>1. cur[r] \in Reply /\ cur[r] \notin Landed /\ cur[r] \in Held(r) /\ pc[r] = "sending"
    BY <1>1, <1>2, <1>6 DEF LoopLands, IndInv, LedgerOK, OnTheWay, Held
  <2>2. cur[r] \notin acked
    BY <1>6, <2>1 DEF LoopLands, IndInv, ThreadOK, AckedIsSettled
  <2>3. Sure(r) = acked /\ Sure(r)' = acked \cup {cur[r]}
    BY <1>1, <1>6, <2>1 DEF LoopLands, Sure
  <2> QED
    BY <1>3, <1>6, <2>1, <2>2, <2>3 DEF LoopLands
<1>7. CASE \E m \in orphans : OrphanLands(m)
  <2>1. PICK m \in orphans : OrphanLands(m)
    BY <1>7
  <2>2. m \in Reply /\ m \notin Landed /\ Decodes(m)
    BY <2>1 DEF IndInv, LedgerOK, Passed
  <2>3. m \notin Sure(r)
    BY <2>2 DEF IndInv, ThreadOK, AckedIsSettled, Sure
  <2>4. Sure(r)' = Sure(r) /\ m \notin acked
    BY <2>1, <2>3 DEF OrphanLands, relayVars, Sure
  <2> QED
    BY <1>3, <2>1, <2>2, <2>3, <2>4 DEF OrphanLands, relayVars
<1>8. CASE \E m \in batch[r] : TakeMalformed(r, m) \/ Schedule(r, m)
  <2>1. PICK m \in batch[r] : TakeMalformed(r, m) \/ Schedule(r, m)
    BY <1>8
  <2>2. /\ discord' = discord /\ acked' = acked /\ Take(r, m)
        /\ cur'[r] = m /\ batch'[r] = batch[r] \ {m} /\ pc[r] = "batch"
        /\ m \in Reply
    BY <1>1, <2>1 DEF TakeMalformed, Schedule, Take
  <2>3. \A n \in batch[r] \ {m} : m[1] = n[1] => m[2] < n[2]
    <3>1. \A n \in batch[r] : Before(m, n) /\ n \in Reply
      BY <1>1, <2>2 DEF Take, IsNext
    <3>2. m[1] \in Nat /\ m[2] \in Nat /\ \A n \in Reply : n[1] \in Nat /\ n[2] \in Nat
      BY <2>2, ReplyFacts, RelayAssumption
    <3>3. \A n \in batch[r] \ {m} : n[1] = m[1] => n[2] # m[2]
      BY <2>2, <3>1, ReplyFacts
    <3> QED
      BY <3>1, <3>2, <3>3 DEF Before
  <2>4. Sure(r) = acked /\ Held(r)' \subseteq Held(r)
    BY <1>2, <2>2 DEF Sure, Held, NoReply
  <2>5. \A i \in DOMAIN discord : discord[i] \in Sure(r)' => discord[i] \in acked
    <3>1. CASE Schedule(r, m)
      <4>1. task'[r] = "running" /\ pc'[r] = "sending"
        BY <1>1, <3>1 DEF Schedule
      <4> QED
        BY <2>2, <4>1 DEF Sure
    <3>2. CASE TakeMalformed(r, m)
      <4>1. m \notin Landed
        BY <3>2 DEF TakeMalformed, IndInv, LedgerOK
      <4>2. Sure(r)' \subseteq acked \cup {m}
        BY <2>2 DEF Sure
      <4> QED
        BY <4>1, <4>2 DEF Landed
    <3> QED
      BY <2>1, <3>1, <3>2
  <2> QED
    BY <2>2, <2>3, <2>4, <2>5 DEF Ordered
<1>9. CASE AckEntry(r) \/ AckFails(r)
  <2>1. /\ discord' = discord /\ pc[r] = "ack" /\ cur[r] # NoReply /\ cur'[r] = NoReply
        /\ acked' = acked \/ acked' = acked \cup {cur[r]}
        /\ batch'[r] \subseteq batch[r] /\ pc'[r] \in {"batch", "idle"}
        /\ task' = task /\ task[r] = "none"
    BY <1>1, <1>2, <1>9 DEF AckEntry, AckFails, XackCur, Abandon
  <2>2. Sure(r)' \subseteq Sure(r)
    BY <2>1 DEF Sure
  <2>3. Held(r)' \subseteq batch[r] /\ batch[r] \subseteq Held(r) /\ NoReply' = NoReply
    BY <1>1, <2>1, ReplyFacts DEF Held, NoReply
  <2>4. \A m \in acked', n \in Held(r)' : m[1] = n[1] => m[2] < n[2]
    BY <2>1, <2>3 DEF Ordered
  <2> QED
    BY <2>1, <2>2, <2>3, <2>4 DEF Ordered
<1>10. CASE Read(r)
  <2>1. /\ discord' = discord /\ acked' = acked /\ cur' = cur /\ task' = task
        /\ pc[r] = "read" /\ pc'[r] = "batch" /\ cur[r] = NoReply
        /\ batch'[r] = Fetched(snap[r])
    BY <1>1, <1>2, <1>10 DEF Read
  <2>2. \A m \in acked, n \in Fetched(snap[r]) : m[1] = n[1] => m[2] < n[2]
    <3> SUFFICES ASSUME NEW m \in acked, NEW n \in Fetched(snap[r]), m[1] = n[1]
                 PROVE  m[2] < n[2]
      OBVIOUS
    <3>1. m \in Reply /\ m[2] <= streams[m[1]].last
      BY DEF IndInv, LedgerOK, Passed
    <3>2. n \in Reply /\ n[2] \in Unread(streams[n[1]])
      BY DEF Fetched, NextIds
    <3>3. streams[m[1]] \in Streams(Kind) /\ m[2] \in Nat /\ n[2] \in Nat
      BY <3>1, <3>2, ReplyFacts DEF IndInv, TypeOK
    <3>4. streams[m[1]].last < n[2]
      BY <3>2, <3>3 DEF Unread, Floor, Streams
    <3> QED
      BY <3>1, <3>3, <3>4 DEF Streams
  <2>3. Sure(r)' = Sure(r) /\ Held(r)' = Fetched(snap[r]) /\ NoReply' = NoReply
    BY <1>2, <2>1 DEF Sure, Held, NoReply
  <2> QED
    BY <2>1, <2>2, <2>3 DEF Ordered
<1> QED
  BY <1>4, <1>5, <1>6, <1>7, <1>8, <1>9, <1>10
     DEF Next, RelayStep, LoopStep, HandleEntry

(* With a single relay, what is acknowledged of a session landed in the    *)
(* order the session sent it (outbound.py:158-183), for any number of      *)
(* sessions, faults and restarts.                                          *)
THEOREM AcksInOrder == Spec => []RepliesInOrder
<1>1. Init => OrderInv
  BY DEF Init, OrderInv, Ordered, Held
<1>2. IndInv /\ IndInv' /\ OrderInv /\ [Next]_vars => OrderInv'
  BY OrderStep DEF OrderInv
<1>3. OrderInv => RepliesInOrder
  <2> SUFFICES ASSUME OrderInv, NEW r \in Relay, Relay = {r},
                      NEW i \in DOMAIN discord, NEW j \in DOMAIN discord, i < j,
                      {discord[i], discord[j]} \subseteq acked, discord[i][1] = discord[j][1]
               PROVE  discord[i][2] < discord[j][2]
    BY DEF RepliesInOrder
  <2> QED
    BY DEF OrderInv, Ordered, Sure
<1> QED
  BY <1>1, <1>2, <1>3, Invariance, PTL DEF Spec
=============================================================================
