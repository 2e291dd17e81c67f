------------------------ MODULE RouterSystem_proofs -------------------------
(***************************************************************************)
(* The whole plugin implements its two halves, so what is proved of the    *)
(* hook alone and of the relay alone holds of the two together; and the    *)
(* promises that need both: who can send is heard, only the invited are    *)
(* read, and what lands of a session after its last surface left was on    *)
(* its way then or is one read.                                            *)
(***************************************************************************)
EXTENDS RouterSystem, FiniteSetTheorems, TLAPS

(* The theorems of the halves, about this module's variables.              *)
HookProofs == INSTANCE RouterHook_proofs WITH
  faults <- xaddFaults, MaxFaults <- MaxXaddFaults

RelayProofs == INSTANCE ReplyDelivery_proofs WITH
  Relay <- {Plugin}, MaxFaults <- MaxReadFaults, MaxCrashes <- MaxRestarts,
  streams <- outbound, routing <- [r \in {Plugin} |-> routing], pc <- thread,
  faults <- readFaults, crashes <- deaths

-----------------------------------------------------------------------------
(* A step of the whole is a step of the hook or none.                      *)
LEMMA HookSteps == [Next]_vars => [Hook!Next]_Hook!vars
<1> SUFFICES ASSUME [Next]_vars PROVE Hook!Next \/ UNCHANGED Hook!vars
  OBVIOUS
<1>1. CASE EventArrives
  BY <1>1, SystemAssumption DEF EventArrives, Hook!Next
<1>2. CASE HookStep
  BY <1>2 DEF HookStep, HookGetsClient, HookDecides, HookSends, HookReturns,
              HookStartsRelay, Hook!Next, Hook!HookStep
<1>3. CASE ListCommand \/ RedisChanges \/ Restart
  BY <1>3 DEF ListCommand, RedisChanges, Restart, Hook!Next
<1>4. CASE UNCHANGED hookVars
  BY <1>4 DEF hookVars, Hook!vars, Hook!memory, Hook!call
<1>5. RelayStep \/ LoopMoves \/ (\E s \in Session : SessionReplies(s) \/ HeartbeatChanges(s))
        => UNCHANGED hookVars
  BY DEF RelayStep, RelayAsksRedis, RelayRaises, RelaySends, LoopMoves,
         SessionReplies, HeartbeatChanges, HookRests
<1> QED
  BY <1>1, <1>2, <1>3, <1>4, <1>5 DEF Next, vars

(* What holds of the hook alone holds with the relay beside it.            *)
LEMMA HookRefinement == Spec => Hook!Spec
<1>1. Init => Hook!Init
  BY DEF Init
<1> QED
  BY <1>1, HookSteps, PTL DEF Spec, Hook!Spec

(* The hook of the proofs is the hook of the module.                       *)
LEMMA SameHook == Hook!Spec => HookProofs!Spec
<1>1. Hook!Init => HookProofs!Init
  BY DEF Hook!Init, HookProofs!Init, Hook!InitRouting, HookProofs!InitRouting
<1>2. HookProofs!vars = Hook!vars /\ HookProofs!vars' = Hook!vars'
  BY DEF HookProofs!vars, HookProofs!memory, HookProofs!call, Hook!vars,
         Hook!memory, Hook!call
<1>3. Hook!GetClient => HookProofs!GetClient
  BY DEF Hook!GetClient, HookProofs!GetClient, Hook!Connect, HookProofs!Connect
<1>4. Hook!RouterConnects => HookProofs!RouterConnects
  BY DEF Hook!RouterConnects, HookProofs!RouterConnects, Hook!Connect,
         HookProofs!Connect, Hook!Answer, HookProofs!Answer, Hook!memory,
         HookProofs!memory
<1>5. Hook!XaddSucceeds => HookProofs!XaddSucceeds
  BY DEF Hook!XaddSucceeds, HookProofs!XaddSucceeds, Hook!Deliver,
         HookProofs!Deliver, Hook!Answer, HookProofs!Answer, Hook!now,
         HookProofs!now, Hook!memory, HookProofs!memory
<1>6. Hook!XaddRefused => HookProofs!XaddRefused
  BY DEF Hook!XaddRefused, HookProofs!XaddRefused, Hook!Answer,
         HookProofs!Answer, Hook!memory, HookProofs!memory
<1>7. Hook!XaddAnswerLost => HookProofs!XaddAnswerLost
  BY DEF Hook!XaddAnswerLost, HookProofs!XaddAnswerLost, Hook!Deliver,
         HookProofs!Deliver, Hook!Answer, HookProofs!Answer, Hook!now,
         HookProofs!now, Hook!memory, HookProofs!memory
<1>8. Hook!RelayNotNeeded => HookProofs!RelayNotNeeded
  BY DEF Hook!RelayNotNeeded, HookProofs!RelayNotNeeded, Hook!Return,
         HookProofs!Return, Hook!now, HookProofs!now, Hook!memory,
         HookProofs!memory
<1>9. Hook!StartRelay => HookProofs!StartRelay
  BY DEF Hook!StartRelay, HookProofs!StartRelay, Hook!Return,
         HookProofs!Return, Hook!Connect, HookProofs!Connect, Hook!now,
         HookProofs!now, Hook!memory, HookProofs!memory
<1>10. Hook!RedisChanges => HookProofs!RedisChanges
  BY DEF Hook!RedisChanges, HookProofs!RedisChanges, Hook!memory,
         HookProofs!memory, Hook!call, HookProofs!call
<1>21. Hook!ListCommand => HookProofs!ListCommand
  BY DEF Hook!ListCommand, HookProofs!ListCommand, Hook!call, HookProofs!call
<1>11. Hook!Restart => HookProofs!Restart
  BY DEF Hook!Cardinality, HookProofs!Cardinality, Hook!Restart,
         HookProofs!Restart, Hook!now, HookProofs!now, Hook!InitRouting,
         HookProofs!InitRouting
<1>12. Hook!ApplyControl => HookProofs!ApplyControl
  BY DEF Hook!ApplyControl, HookProofs!ApplyControl, Hook!event,
         HookProofs!event, Hook!now, HookProofs!now, Hook!ControlKinds,
         HookProofs!ControlKinds, Hook!Answer, HookProofs!Answer,
         Hook!SetTarget, HookProofs!SetTarget, Hook!ClearTarget,
         HookProofs!ClearTarget, Hook!SetRouting, HookProofs!SetRouting
<1>13. Hook!PassThrough => HookProofs!PassThrough
  BY DEF Hook!PassThrough, HookProofs!PassThrough, Hook!event,
         HookProofs!event, Hook!now, HookProofs!now, Hook!Answer,
         HookProofs!Answer, Hook!GetTarget, HookProofs!GetTarget,
         Hook!IsRoutingOn, HookProofs!IsRoutingOn
<1>14. Hook!DropInvalid => HookProofs!DropInvalid
  BY DEF Hook!DropInvalid, HookProofs!DropInvalid, Hook!event,
         HookProofs!event, Hook!now, HookProofs!now, Hook!Answer,
         HookProofs!Answer, Hook!GetTarget, HookProofs!GetTarget,
         Hook!IsRoutingOn, HookProofs!IsRoutingOn
<1>15. Hook!RouteText => HookProofs!RouteText
  BY DEF Hook!RouteText, HookProofs!RouteText, Hook!event, HookProofs!event,
         Hook!now, HookProofs!now, Hook!GetTarget, HookProofs!GetTarget,
         Hook!IsRoutingOn, HookProofs!IsRoutingOn
<1>16. \A k, kind, s : Hook!Arrive(k, kind, s) => HookProofs!Arrive(k, kind, s)
  BY DEF Hook!Arrive, HookProofs!Arrive, Hook!now, HookProofs!now, Hook!memory,
         HookProofs!memory
<1>17. Hook!Decide => HookProofs!Decide
  BY <1>12, <1>13, <1>14, <1>15
     DEF Hook!Decide, HookProofs!Decide, Hook!Capture, HookProofs!Capture
<1>18. Hook!Kinds = HookProofs!Kinds
  BY DEF Hook!Kinds, HookProofs!Kinds, Hook!ControlKinds,
         HookProofs!ControlKinds
<1>19. Hook!HookStep => HookProofs!HookStep
  BY <1>3, <1>4, <1>5, <1>6, <1>7, <1>8, <1>9, <1>17
     DEF Hook!HookStep, HookProofs!HookStep
<1>20. [Hook!Next]_Hook!vars => [HookProofs!Next]_HookProofs!vars
  <2> SUFFICES ASSUME Hook!Next PROVE HookProofs!Next
    BY <1>2
  <2>1. CASE \E k \in Surface, kind \in Hook!Kinds, s \in Session \cup {NoTarget} :
               Hook!Arrive(k, kind, s)
    <3>1. PICK k \in Surface, kind \in Hook!Kinds, s \in Session \cup {NoTarget} :
            Hook!Arrive(k, kind, s)
      BY <2>1
    <3>2. HookProofs!Arrive(k, kind, s)
      BY <1>16, <3>1
    <3> QED
      BY <1>18, <3>2 DEF HookProofs!Next
  <2>2. CASE Hook!HookStep \/ Hook!ListCommand \/ Hook!RedisChanges \/ Hook!Restart
    BY <1>10, <1>11, <1>19, <1>21, <2>2 DEF HookProofs!Next
  <2> QED
    BY <2>1, <2>2 DEF Hook!Next
<1> QED
  BY <1>1, <1>20, PTL DEF Hook!Spec, HookProofs!Spec

LEMMA HookInvariant == Spec => []HookProofs!Inv
<1>1. HookProofs!Spec => []HookProofs!Inv
  BY HookProofs!HookInvariance, SystemAssumption
<1> QED
  BY <1>1, HookRefinement, SameHook, PTL

-----------------------------------------------------------------------------
(* The event that the hook decides on.                                     *)
LEMMA EventTyped ==
  ASSUME HookProofs!Inv, pc = "decide"
  PROVE  /\ Hook!event.surface \in Surface
         /\ Hook!event.kind = "connect" => Hook!event.session \in Session
<1>1. /\ history \in Seq(HookProofs!Entry) /\ Len(history) \in 1..Len(history)
      /\ \A i \in 1..Len(history) : (history[i].kind = "connect")
                                     <=> (history[i].session # NoTarget)
  BY DEF HookProofs!Inv, HookProofs!Shape, HookProofs!IsHistory, HookProofs!now
<1>2. history[Len(history)] \in HookProofs!Entry
  BY <1>1
<1> QED
  BY <1>1, <1>2 DEF HookProofs!Entry, Hook!event, Hook!now

(* The routing the relay sees, as a function of the one plugin.            *)
Seen == [r \in {Plugin} |-> routing]

(* A control phrase that the hook applies is a routing change of the relay.*)
LEMMA DecisionIsSeen ==
  ASSUME HookProofs!Inv, Hook!Decide, UNCHANGED relayVars
  PROVE  Outbound!HookRoutes(Plugin) \/ UNCHANGED Outbound!vars
<1> DEFINE k == Hook!event.surface
           s == Hook!event.session
<1>1. k \in Surface /\ (Hook!event.kind = "connect" => s \in Session)
  BY EventTyped DEF Hook!Decide
<1>2. CASE routing' = routing
  BY <1>2 DEF relayVars, Outbound!vars, Outbound!relayVars
<1>3. /\ Outbound!SetTarget(routing, k, s) = Hook!SetTarget(routing, k, s)
      /\ Outbound!ClearTarget(routing, k) = Hook!ClearTarget(routing, k)
      /\ \A on \in BOOLEAN :
           Outbound!SetRouting(routing, k, on) = Hook!SetRouting(routing, k, on)
  BY DEF Outbound!SetTarget, Hook!SetTarget, Outbound!ClearTarget,
         Hook!ClearTarget, Outbound!SetRouting, Hook!SetRouting
<1> HIDE DEF k, s
<1>4. ASSUME NEW rs, routing' = rs
      PROVE  Seen' = [Seen EXCEPT ![Plugin] = rs] /\ Seen[Plugin] = routing
  BY <1>4 DEF Seen
<1>5. CASE Hook!event.kind = "connect" /\ routing' = Hook!SetTarget(routing, k, s)
  <2>1. Seen' = [Seen EXCEPT ![Plugin] = Outbound!SetTarget(@, k, s)]
    BY <1>3, <1>4, <1>5
  <2> QED
    BY <1>1, <1>5, <2>1 DEF Outbound!HookRoutes, Seen, relayVars,
           Outbound!relayVars
<1>6. CASE routing' = Hook!ClearTarget(routing, k)
  <2>1. Seen' = [Seen EXCEPT ![Plugin] = Outbound!ClearTarget(@, k)]
    BY <1>3, <1>4, <1>6
  <2> QED
    BY <1>1, <2>1 DEF Outbound!HookRoutes, Seen, relayVars, Outbound!relayVars
<1>7. ASSUME NEW on \in BOOLEAN, routing' = Hook!SetRouting(routing, k, on)
      PROVE  Outbound!HookRoutes(Plugin)
  <2>1. Seen' = [Seen EXCEPT ![Plugin] = Outbound!SetRouting(@, k, on)]
    BY <1>3, <1>4, <1>7
  <2> QED
    BY <1>1, <2>1 DEF Outbound!HookRoutes, Seen, relayVars, Outbound!relayVars
<1>8. \/ routing' = routing
      \/ Hook!event.kind = "connect" /\ routing' = Hook!SetTarget(routing, k, s)
      \/ routing' = Hook!ClearTarget(routing, k)
      \/ routing' = Hook!SetRouting(routing, k, TRUE)
      \/ routing' = Hook!SetRouting(routing, k, FALSE)
  <2>1. CASE Hook!ApplyControl
    BY <2>1 DEF Hook!ApplyControl, Hook!ControlKinds, k, s
  <2>2. CASE Hook!PassThrough \/ Hook!DropInvalid \/ Hook!RouteText
    BY <2>2 DEF Hook!PassThrough, Hook!DropInvalid, Hook!RouteText
  <2> QED
    BY <2>1, <2>2 DEF Hook!Decide
<1> QED
  BY <1>2, <1>5, <1>6, <1>7, <1>8

(* A step of the whole is a step of the relay's module or none.            *)
LEMMA RelaySteps == HookProofs!Inv /\ [Next]_vars => [Outbound!Next]_Outbound!vars
<1> SUFFICES ASSUME HookProofs!Inv, [Next]_vars
             PROVE  Outbound!Next \/ UNCHANGED Outbound!vars
  OBVIOUS
<1>1. CASE UNCHANGED <<relayVars, routing>>
  BY <1>1 DEF relayVars, Outbound!vars, Outbound!relayVars
<1>2. EventArrives \/ HookGetsClient \/ HookSends \/ HookReturns \/ ListCommand \/ RedisChanges
        \/ (HookStartsRelay /\ ~relay') \/ (\E s \in Session : HeartbeatChanges(s))
        \/ UNCHANGED vars
        => UNCHANGED <<relayVars, routing>>
  BY DEF EventArrives, HookGetsClient, HookSends, HookReturns, RedisChanges,
         ListCommand, Hook!ListCommand, HookStartsRelay, HeartbeatChanges,
         RelayRests, vars, hookVars,
         Hook!Arrive, Hook!GetClient, Hook!RouterConnects, Hook!XaddSucceeds,
         Hook!XaddRefused, Hook!XaddAnswerLost, Hook!RelayNotNeeded,
         Hook!StartRelay, Hook!RedisChanges, Hook!memory
<1>3. CASE HookDecides
  BY <1>3, DecisionIsSeen DEF HookDecides, RelayRests, Outbound!Next
<1>4. CASE HookStartsRelay /\ relay'
  BY <1>4 DEF HookStartsRelay, Outbound!Next
<1>5. CASE Restart
  BY <1>5 DEF Restart, Outbound!Next
<1>6. CASE RelayStep
  BY <1>6 DEF RelayStep, RelayAsksRedis, RelayRaises, RelaySends,
              Outbound!Next, Outbound!RelayStep
<1>7. CASE LoopMoves
  BY <1>7 DEF LoopMoves, Outbound!Next, Outbound!LoopStep
<1>8. CASE \E s \in Session : SessionReplies(s)
  BY <1>8 DEF SessionReplies, Outbound!Next
<1> QED
  BY <1>1, <1>2, <1>3, <1>4, <1>5, <1>6, <1>7, <1>8 DEF Next, HookStep

(* What holds of the relay alone holds with the hook beside it             *)
(* (outbound.py:148-193).                                                  *)
THEOREM RelayRefinement == Spec => ImplementsRelay
<1>1. Init => Outbound!Init
  BY DEF Init
<1> QED
  BY <1>1, RelaySteps, HookInvariant, PTL DEF Spec, ImplementsRelay,
         Outbound!Spec

-----------------------------------------------------------------------------
(* The relay of the proofs is the relay of the module.                     *)
LEMMA SameRelay == Outbound!Spec => RelayProofs!Spec
<1>1. Outbound!Init => RelayProofs!Init
  BY DEF Outbound!Init, RelayProofs!Init, Outbound!EmptyStream,
         RelayProofs!EmptyStream, Outbound!InitRouting,
         RelayProofs!InitRouting, Outbound!NoReply, RelayProofs!NoReply
<1>2. RelayProofs!vars = Outbound!vars /\ RelayProofs!vars' = Outbound!vars'
  BY DEF Outbound!vars, RelayProofs!vars, Outbound!relayVars,
         RelayProofs!relayVars
<1>3. \A s, kind : Outbound!SessionReplies(s, kind) => RelayProofs!SessionReplies(s, kind)
  BY DEF Outbound!SessionReplies, RelayProofs!SessionReplies,
         Outbound!TrimPoints, RelayProofs!TrimPoints, Outbound!Xadd,
         RelayProofs!Xadd, Outbound!relayVars, RelayProofs!relayVars
<1>4. \A r : Outbound!HookRoutes(r) => RelayProofs!HookRoutes(r)
  BY DEF Outbound!HookRoutes, RelayProofs!HookRoutes, Outbound!SetTarget,
         RelayProofs!SetTarget, Outbound!ClearTarget, RelayProofs!ClearTarget,
         Outbound!SetRouting, RelayProofs!SetRouting, Outbound!relayVars,
         RelayProofs!relayVars
<1>5. \A r : Outbound!Start(r) => RelayProofs!Start(r)
  BY DEF Outbound!Start, RelayProofs!Start
<1>6. \A r : Outbound!Crash(r) => RelayProofs!Crash(r)
  BY DEF Outbound!Crash, RelayProofs!Crash, Outbound!InitRouting,
         RelayProofs!InitRouting, Outbound!NoReply, RelayProofs!NoReply
<1>7. \A r : Outbound!Snapshot(r) => RelayProofs!Snapshot(r)
  BY DEF Outbound!Snapshot, RelayProofs!Snapshot, Outbound!ActiveTargets,
         RelayProofs!ActiveTargets, Outbound!IsRoutingOn,
         RelayProofs!IsRoutingOn
<1>8. \A r : Outbound!Ensure(r) => RelayProofs!Ensure(r)
  BY DEF Outbound!Ensure, RelayProofs!Ensure, Outbound!NextStream,
         RelayProofs!NextStream, Outbound!EnsureGroup, RelayProofs!EnsureGroup
<1>9. \A r : Outbound!EnsureFails(r) => RelayProofs!EnsureFails(r)
  BY DEF Outbound!EnsureFails, RelayProofs!EnsureFails, Outbound!NextStream,
         RelayProofs!NextStream, Outbound!EnsureGroup, RelayProofs!EnsureGroup,
         Outbound!Abandon, RelayProofs!Abandon, Outbound!Fault,
         RelayProofs!Fault, Outbound!NoReply, RelayProofs!NoReply
<1>10. \A r : Outbound!Read(r) => RelayProofs!Read(r)
  BY DEF Outbound!Read, RelayProofs!Read, Outbound!Fetched,
         RelayProofs!Fetched, Outbound!StreamsAfterRead,
         RelayProofs!StreamsAfterRead, Outbound!ReadGroup,
         RelayProofs!ReadGroup, Outbound!NextIds, RelayProofs!NextIds,
         Outbound!Unread, RelayProofs!Unread, Outbound!Floor,
         RelayProofs!Floor, Outbound!Reply, RelayProofs!Reply
<1>11. \A r : Outbound!ReadNothing(r) => RelayProofs!ReadNothing(r)
  BY DEF Outbound!ReadNothing, RelayProofs!ReadNothing, Outbound!Fetched,
         RelayProofs!Fetched, Outbound!NextIds, RelayProofs!NextIds,
         Outbound!Unread, RelayProofs!Unread, Outbound!Floor,
         RelayProofs!Floor, Outbound!Reply, RelayProofs!Reply
<1>12. \A r : Outbound!ReadFails(r) => RelayProofs!ReadFails(r)
  BY DEF Outbound!ReadFails, RelayProofs!ReadFails, Outbound!StreamsAfterRead,
         RelayProofs!StreamsAfterRead, Outbound!ReadGroup,
         RelayProofs!ReadGroup, Outbound!NextIds, RelayProofs!NextIds,
         Outbound!Unread, RelayProofs!Unread, Outbound!Floor,
         RelayProofs!Floor, Outbound!Abandon, RelayProofs!Abandon,
         Outbound!Fault, RelayProofs!Fault, Outbound!NoReply,
         RelayProofs!NoReply
<1>13. \A r : Outbound!ReadResent(r) => RelayProofs!ReadResent(r)
  BY DEF Outbound!ReadResent, RelayProofs!ReadResent,
         Outbound!StreamsAfterRead, RelayProofs!StreamsAfterRead,
         Outbound!ReadGroup, RelayProofs!ReadGroup, Outbound!NextIds,
         RelayProofs!NextIds, Outbound!Unread, RelayProofs!Unread,
         Outbound!Floor, RelayProofs!Floor, Outbound!Fault, RelayProofs!Fault,
         Outbound!relayVars, RelayProofs!relayVars
<1>14. \A r : Outbound!HandleEntry(r) => RelayProofs!HandleEntry(r)
  BY DEF Outbound!HandleEntry, RelayProofs!HandleEntry, Outbound!TakeMalformed,
         RelayProofs!TakeMalformed, Outbound!SendImpossible,
         RelayProofs!SendImpossible, Outbound!Schedule, RelayProofs!Schedule,
         Outbound!Take, RelayProofs!Take, Outbound!IsNext, RelayProofs!IsNext,
         Outbound!Before, RelayProofs!Before, Outbound!Decodes,
         RelayProofs!Decodes
<1>15. \A r : Outbound!SendSucceeds(r) => RelayProofs!SendSucceeds(r)
  BY DEF Outbound!SendSucceeds, RelayProofs!SendSucceeds
<1>16. \A r : Outbound!SendFails(r) => RelayProofs!SendFails(r)
  BY DEF Outbound!SendFails, RelayProofs!SendFails, Outbound!LeavePending,
         RelayProofs!LeavePending, Outbound!NoReply, RelayProofs!NoReply
<1>17. \A r : Outbound!SendTimesOut(r) => RelayProofs!SendTimesOut(r)
  BY DEF Outbound!SendTimesOut, RelayProofs!SendTimesOut,
         Outbound!LeavePending, RelayProofs!LeavePending, Outbound!NoReply,
         RelayProofs!NoReply
<1>18. \A r : Outbound!AckEntry(r) => RelayProofs!AckEntry(r)
  BY DEF Outbound!AckEntry, RelayProofs!AckEntry, Outbound!XackCur,
         RelayProofs!XackCur, Outbound!Ack, RelayProofs!Ack, Outbound!NoReply,
         RelayProofs!NoReply
<1>19. \A r : Outbound!AckFails(r) => RelayProofs!AckFails(r)
  BY DEF Outbound!AckFails, RelayProofs!AckFails, Outbound!XackCur,
         RelayProofs!XackCur, Outbound!Ack, RelayProofs!Ack, Outbound!Abandon,
         RelayProofs!Abandon, Outbound!Fault, RelayProofs!Fault,
         Outbound!NoReply, RelayProofs!NoReply
<1>20. \A r : Outbound!PassEnds(r) => RelayProofs!PassEnds(r)
  BY DEF Outbound!PassEnds, RelayProofs!PassEnds
<1>21. \A r : Outbound!LoopStep(r) => RelayProofs!LoopStep(r)
  BY DEF Outbound!LoopStep, RelayProofs!LoopStep, Outbound!LoopLands,
         RelayProofs!LoopLands, Outbound!LoopReturns, RelayProofs!LoopReturns,
         Outbound!LoopRaises, RelayProofs!LoopRaises
<1>22. \A m : Outbound!OrphanLands(m) => RelayProofs!OrphanLands(m)
  BY DEF Outbound!OrphanLands, RelayProofs!OrphanLands, Outbound!relayVars,
         RelayProofs!relayVars
<1>23. \A r : Outbound!RelayStep(r) => RelayProofs!RelayStep(r)
  BY <1>7, <1>8, <1>9, <1>10, <1>11, <1>12, <1>13, <1>14, <1>15, <1>16,
     <1>17, <1>18, <1>19, <1>20
     DEF Outbound!RelayStep, RelayProofs!RelayStep
<1>24. Outbound!Kind = RelayProofs!Kind
  BY DEF Outbound!Kind, RelayProofs!Kind
<1>25. [Outbound!Next]_Outbound!vars => [RelayProofs!Next]_RelayProofs!vars
  BY <1>2, <1>3, <1>4, <1>5, <1>6, <1>21, <1>22, <1>23, <1>24
     DEF Outbound!Next, RelayProofs!Next
<1> QED
  BY <1>1, <1>25, PTL DEF Outbound!Spec, RelayProofs!Spec

LEMMA RelayInvariant == Spec => []RelayProofs!IndInv
<1>1. RelayProofs!Spec => []RelayProofs!IndInv
  BY RelayProofs!Invariance, SystemAssumption
<1> QED
  BY <1>1, RelayRefinement, SameRelay, PTL DEF ImplementsRelay

(* What the halves promise is said of the same state by the modules and by *)
(* their proofs.                                                           *)
LEMMA SameHookPromises ==
  /\ HookProofs!OneReader => Hook!OneReader
  /\ HookProofs!ControlStaysHere => Hook!ControlStaysHere
  /\ HookProofs!RoutedIsThere => Hook!RoutedIsThere
  /\ HookProofs!CachedClientIsUsed => Hook!CachedClientIsUsed
<1>1. HookProofs!OneReader => Hook!OneReader
  BY DEF Hook!OneReader, HookProofs!OneReader, Hook!Commanded,
         HookProofs!Commanded, Hook!LastOf, HookProofs!LastOf, Hook!Since,
         HookProofs!Since, Hook!Max, HookProofs!Max, Hook!StreamsOf,
         HookProofs!StreamsOf, Hook!now, HookProofs!now
<1>2. HookProofs!ControlStaysHere => Hook!ControlStaysHere
  BY DEF Hook!ControlStaysHere, HookProofs!ControlStaysHere,
         Hook!ControlKinds, HookProofs!ControlKinds, Hook!StreamsOf,
         HookProofs!StreamsOf, Hook!now, HookProofs!now
<1>3. HookProofs!RoutedIsThere => Hook!RoutedIsThere
  BY DEF Hook!RoutedIsThere, HookProofs!RoutedIsThere, Hook!StreamsOf,
         HookProofs!StreamsOf, Hook!now, HookProofs!now
<1>4. HookProofs!CachedClientIsUsed => Hook!CachedClientIsUsed
  BY DEF Hook!CachedClientIsUsed, HookProofs!CachedClientIsUsed, Hook!event,
         HookProofs!event, Hook!now, HookProofs!now
<1> QED
  BY <1>1, <1>2, <1>3, <1>4

LEMMA SameRelayPromises ==
  /\ RelayProofs!AtMostOnce => Outbound!AtMostOnce
  /\ RelayProofs!AckedIsSettled => Outbound!AckedIsSettled
  /\ RelayProofs!NothingLostSilently => Outbound!NothingLostSilently
  /\ RelayProofs!RepliesInOrder => Outbound!RepliesInOrder
<1>1. RelayProofs!AtMostOnce => Outbound!AtMostOnce
  BY DEF Outbound!AtMostOnce, RelayProofs!AtMostOnce
<1>2. RelayProofs!AckedIsSettled => Outbound!AckedIsSettled
  BY DEF Outbound!AckedIsSettled, RelayProofs!AckedIsSettled, Outbound!Decodes,
         RelayProofs!Decodes, Outbound!Landed, RelayProofs!Landed
<1>3. RelayProofs!NothingLostSilently => Outbound!NothingLostSilently
  BY DEF Outbound!NothingLostSilently, RelayProofs!NothingLostSilently,
         Outbound!Unread, RelayProofs!Unread, Outbound!Floor,
         RelayProofs!Floor
<1>4. RelayProofs!RepliesInOrder => Outbound!RepliesInOrder
  BY DEF Outbound!RepliesInOrder, RelayProofs!RepliesInOrder
<1> QED
  BY <1>1, <1>2, <1>3, <1>4

(* The promises of the halves hold of the whole, whatever the two do to    *)
(* each other: a text has one reader, control phrases stay, "routed" is    *)
(* true, a reply lands at most once, is acknowledged only after it, in its *)
(* order, and never disappears silently.                                   *)
THEOREM HalvesKeepTheirPromises ==
  Spec => [](/\ Hook!OneReader /\ Hook!ControlStaysHere
             /\ Hook!RoutedIsThere /\ Hook!CachedClientIsUsed
             /\ Outbound!AtMostOnce /\ Outbound!AckedIsSettled
             /\ Outbound!NothingLostSilently /\ Outbound!RepliesInOrder)
<1>1. HookProofs!Inv => HookProofs!ControlStaysHere /\ HookProofs!RoutedIsThere
                        /\ HookProofs!CachedClientIsUsed
  BY DEF HookProofs!Inv
<1>2. HookProofs!Spec => []HookProofs!OneReader
  BY HookProofs!TextsHaveOneReader, SystemAssumption
<1>3. RelayProofs!IndInv => /\ RelayProofs!AtMostOnce /\ RelayProofs!AckedIsSettled
                            /\ RelayProofs!NothingLostSilently
  BY DEF RelayProofs!IndInv
<1>4. RelayProofs!Spec => []RelayProofs!RepliesInOrder
  BY RelayProofs!AcksInOrder, SystemAssumption
<1> QED
  BY <1>1, <1>2, <1>3, <1>4, SameHookPromises, SameRelayPromises, HookRefinement,
     SameHook, HookInvariant, RelayRefinement, SameRelay, RelayInvariant, PTL
     DEF ImplementsRelay

(* What TextRouting and ReplyDelivery are told is the same in both, too.   *)
LEMMA SameTexts == HookProofs!ImplementsRouting => Hook!ImplementsRouting
<1>1. HookProofs!Texts!Init => Hook!Texts!Init
  BY DEF HookProofs!Texts!Init, Hook!Texts!Init,
         HookProofs!Stage, Hook!Stage, HookProofs!Told,
         Hook!Told
<1>2. /\ HookProofs!Texts!vars = Hook!Texts!vars
      /\ HookProofs!Texts!vars' = Hook!Texts!vars'
  BY DEF HookProofs!Texts!vars, Hook!Texts!vars,
         HookProofs!Stage, Hook!Stage, HookProofs!Told,
         Hook!Told
<1>3. /\ HookProofs!Texts!now = Hook!Texts!now
      /\ HookProofs!Texts!event = Hook!Texts!event
      /\ HookProofs!Texts!Commands = Hook!Texts!Commands
      /\ HookProofs!Texts!Kinds = Hook!Texts!Kinds
  BY DEF HookProofs!Texts!now, Hook!Texts!now, HookProofs!Texts!event,
         Hook!Texts!event, HookProofs!Texts!Commands, Hook!Texts!Commands,
         HookProofs!Texts!Kinds, Hook!Texts!Kinds,
         HookProofs!Stage, Hook!Stage, HookProofs!Told,
         Hook!Told
<1>4. \A i, s : HookProofs!Texts!Belongs(i, s) <=> Hook!Texts!Belongs(i, s)
  BY DEF HookProofs!Texts!Belongs, Hook!Texts!Belongs,
         HookProofs!Texts!Before, Hook!Texts!Before,
         HookProofs!Stage, Hook!Stage, HookProofs!Told,
         Hook!Told
<1>5. \A i : HookProofs!Texts!Unrouted(i) <=> Hook!Texts!Unrouted(i)
  BY <1>4 DEF HookProofs!Texts!Unrouted, Hook!Texts!Unrouted
<1>6. HookProofs!Texts!Dispatch => Hook!Texts!Dispatch
  BY <1>3 DEF HookProofs!Texts!Dispatch, Hook!Texts!Dispatch,
         HookProofs!Stage, Hook!Stage, HookProofs!Told,
         Hook!Told
<1>7. HookProofs!Texts!Settle => Hook!Texts!Settle
  BY <1>3, <1>5 DEF HookProofs!Texts!Settle, Hook!Texts!Settle,
         HookProofs!Stage, Hook!Stage, HookProofs!Told,
         Hook!Told
<1>8. \A s : HookProofs!Texts!Route(s) => Hook!Texts!Route(s)
  BY <1>3, <1>4 DEF HookProofs!Texts!Route, Hook!Texts!Route,
         HookProofs!Stage, Hook!Stage, HookProofs!Told,
         Hook!Told
<1>9. \A c : HookProofs!Texts!Deliver(c) => Hook!Texts!Deliver(c)
  BY <1>3 DEF HookProofs!Texts!Deliver, Hook!Texts!Deliver,
         HookProofs!Stage, Hook!Stage, HookProofs!Told,
         Hook!Told
<1>10. HookProofs!Texts!Answer => Hook!Texts!Answer
  BY <1>3 DEF HookProofs!Texts!Answer, Hook!Texts!Answer,
         HookProofs!Stage, Hook!Stage, HookProofs!Told,
         Hook!Told
<1>11. HookProofs!Texts!Forget => Hook!Texts!Forget
  BY <1>3 DEF HookProofs!Texts!Forget, Hook!Texts!Forget,
         HookProofs!Stage, Hook!Stage, HookProofs!Told,
         Hook!Told
<1>12. HookProofs!Texts!Next => Hook!Texts!Next
  BY <1>3, <1>6, <1>7, <1>8, <1>9, <1>10, <1>11
     DEF HookProofs!Texts!Next, Hook!Texts!Next,
         HookProofs!Stage, Hook!Stage, HookProofs!Told,
         Hook!Told
<1>13. [HookProofs!Texts!Next]_HookProofs!Texts!vars => [Hook!Texts!Next]_Hook!Texts!vars
  BY <1>2, <1>12
<1> QED
  BY <1>1, <1>13, PTL
     DEF HookProofs!ImplementsRouting, Hook!ImplementsRouting,
         HookProofs!Texts!Spec, Hook!Texts!Spec

LEMMA SameDelivery == RelayProofs!ImplementsDelivery => Outbound!ImplementsDelivery
<1>1. RelayProofs!Delivery!Init => Outbound!Delivery!Init
  BY DEF RelayProofs!Delivery!Init, Outbound!Delivery!Init,
         RelayProofs!Added, Outbound!Added, RelayProofs!Passed,
         Outbound!Passed, RelayProofs!Landed, Outbound!Landed,
         RelayProofs!Reply, Outbound!Reply, RelayProofs!Decodes,
         Outbound!Decodes
<1>2. /\ RelayProofs!Delivery!vars = Outbound!Delivery!vars
      /\ RelayProofs!Delivery!vars' = Outbound!Delivery!vars'
  BY DEF RelayProofs!Delivery!vars, Outbound!Delivery!vars,
         RelayProofs!Added, Outbound!Added, RelayProofs!Passed,
         Outbound!Passed, RelayProofs!Landed, Outbound!Landed,
         RelayProofs!Reply, Outbound!Reply, RelayProofs!Decodes,
         Outbound!Decodes
<1>3. RelayProofs!Delivery!Claim => Outbound!Delivery!Claim
  BY DEF RelayProofs!Delivery!Claim, Outbound!Delivery!Claim,
         RelayProofs!Added, Outbound!Added, RelayProofs!Passed,
         Outbound!Passed, RelayProofs!Landed, Outbound!Landed,
         RelayProofs!Reply, Outbound!Reply, RelayProofs!Decodes,
         Outbound!Decodes
<1>4. \A m : /\ RelayProofs!Delivery!Publish(m) => Outbound!Delivery!Publish(m)
             /\ RelayProofs!Delivery!Land(m) => Outbound!Delivery!Land(m)
             /\ RelayProofs!Delivery!Settle(m) => Outbound!Delivery!Settle(m)
  BY DEF RelayProofs!Delivery!Publish, Outbound!Delivery!Publish,
         RelayProofs!Delivery!Land, Outbound!Delivery!Land,
         RelayProofs!Delivery!Settle, Outbound!Delivery!Settle,
         RelayProofs!Added, Outbound!Added, RelayProofs!Passed,
         Outbound!Passed, RelayProofs!Landed, Outbound!Landed,
         RelayProofs!Reply, Outbound!Reply, RelayProofs!Decodes,
         Outbound!Decodes
<1>5. RelayProofs!Delivery!Next => Outbound!Delivery!Next
  BY <1>3, <1>4 DEF RelayProofs!Delivery!Next, Outbound!Delivery!Next,
         RelayProofs!Added, Outbound!Added, RelayProofs!Passed,
         Outbound!Passed, RelayProofs!Landed, Outbound!Landed,
         RelayProofs!Reply, Outbound!Reply, RelayProofs!Decodes,
         Outbound!Decodes
<1>6. [RelayProofs!Delivery!Next]_RelayProofs!Delivery!vars
        => [Outbound!Delivery!Next]_Outbound!Delivery!vars
  BY <1>2, <1>5
<1> QED
  BY <1>1, <1>6, PTL
     DEF RelayProofs!ImplementsDelivery, Outbound!ImplementsDelivery,
         RelayProofs!Delivery!Spec, Outbound!Delivery!Spec

(* The plugin as a whole is a TextRouting for what is said to sessions and *)
(* a ReplyDelivery for what they answer, although each half reads what the *)
(* other writes: the routing, Redis, the loop, the end of the process      *)
(* (__init__.py:80-94, outbound.py:148-193).                               *)
THEOREM WholeKeepsBothPromises ==
  Spec => Hook!ImplementsRouting /\ Outbound!ImplementsDelivery
<1>1. HookProofs!Spec => HookProofs!ImplementsRouting
  BY HookProofs!RoutingRefinement, SystemAssumption
<1>2. RelayProofs!Spec => RelayProofs!ImplementsDelivery
  BY RelayProofs!Refinement, SystemAssumption
<1> QED
  BY <1>1, <1>2, SameTexts, SameDelivery, HookRefinement, SameHook,
     RelayRefinement, SameRelay DEF ImplementsRelay

-----------------------------------------------------------------------------
(* Why senders are heard: the hook's flag says whether the thread runs; a  *)
(* call that found a cached client never ends with the gateway known and   *)
(* no relay; and a cached client stays cached while the process lives.     *)
HeardInv ==
  /\ relay = (thread[Plugin] # "off")
  /\ pc = "idle" /\ gateway /\ (\E i \in Recent : history[i].cached) => relay
  /\ \A i \in Recent : history[i].cached => client

LEMMA RecentIs ==
  ASSUME HookProofs!Inv
  PROVE  /\ Recent \subseteq 1..Len(history)
         /\ Recent = HookProofs!SinceIn(restarts, Len(history) + 1)..Len(history)
<1>1. Len(history) \in Nat /\ restarts \in SUBSET (1..(Len(history) + 1))
  BY DEF HookProofs!Inv, HookProofs!Shape, HookProofs!IsHistory
<1>2. Len(history) + 1 \in Nat /\ Len(history) + 1 \in 1..(Len(history) + 1)
  BY <1>1
<1>3. HookProofs!SinceIn(restarts, Len(history) + 1) \in 1..(Len(history) + 1)
  BY <1>1, <1>2, HookProofs!SinceType, SystemAssumption
<1>4. Recent = HookProofs!SinceIn(restarts, Len(history) + 1)..Len(history)
  BY DEF Recent, Hook!Since, HookProofs!SinceIn, Hook!Max, HookProofs!Max
<1> QED
  BY <1>1, <1>3, <1>4

(* The events of this process after a step of the hook.                    *)
LEMMA RecentAfterArrival ==
  ASSUME HookProofs!Inv, NEW e, history' = Append(history, e), restarts' = restarts
  PROVE  /\ Recent' \subseteq Recent \cup {Len(history) + 1} /\ Recent \subseteq Recent'
         /\ \A i \in Recent : history'[i] = history[i]
         /\ history'[Len(history) + 1] = e
<1> DEFINE n == Len(history)
<1>1. /\ n \in Nat /\ restarts \in SUBSET (1..(n + 1)) /\ history \in Seq(HookProofs!Entry)
  BY DEF HookProofs!Inv, HookProofs!Shape, HookProofs!IsHistory
<1>2. /\ Len(history') = n + 1 /\ history'[n + 1] = e
      /\ \A i \in 1..n : history'[i] = history[i]
  BY <1>1
<1>3. HookProofs!SinceIn(restarts, n + 2) = HookProofs!SinceIn(restarts, n + 1)
  <2>1. \A j \in restarts : j <= n + 2 /\ j <= n + 1
    BY <1>1
  <2>2. {j \in restarts : j <= n + 2} = {j \in restarts : j <= n + 1}
    BY <2>1
  <2> QED
    BY <2>1, <2>2 DEF HookProofs!SinceIn
<1>4. HookProofs!SinceIn(restarts, n + 1) \in 1..(n + 1)
  <2>1. n + 1 \in Nat /\ n + 1 \in 1..(n + 1)
    BY <1>1
  <2> QED
    BY <1>1, <2>1, HookProofs!SinceType, SystemAssumption
<1>5. Recent = HookProofs!SinceIn(restarts, n + 1)..n
  BY RecentIs
<1>6. Recent' = HookProofs!SinceIn(restarts, n + 2)..(n + 1)
  <2>1. n + 1 + 1 = n + 2
    BY <1>1
  <2> QED
    BY <1>2, <2>1 DEF Recent, Hook!Since, HookProofs!SinceIn, Hook!Max,
           HookProofs!Max
<1> HIDE DEF n
<1>7. /\ Recent' \subseteq Recent \cup {n + 1} /\ Recent \subseteq Recent'
      /\ Recent \subseteq 1..n
  BY <1>1, <1>3, <1>4, <1>5, <1>6
<1> QED
  BY <1>2, <1>7 DEF n

LEMMA HeardStep ==
  HeardInv /\ HookProofs!Inv /\ HookProofs!Inv' /\ RelayProofs!IndInv /\ [Next]_vars
    => HeardInv'
<1> SUFFICES ASSUME HeardInv, HookProofs!Inv, HookProofs!Inv', RelayProofs!IndInv, [Next]_vars
             PROVE  HeardInv'
  OBVIOUS
<1>1. /\ {client, relay, gateway} \subseteq BOOLEAN
      /\ thread \in [{Plugin} -> {"off", "idle", "ensure", "read", "batch", "sending", "ack"}]
      /\ history \in Seq(HookProofs!Entry) /\ Recent \subseteq 1..Len(history)
  BY RecentIs DEF HookProofs!Inv, HookProofs!TypeOK, HookProofs!Shape,
                  HookProofs!IsHistory, RelayProofs!IndInv, RelayProofs!TypeOK
<1>2. CASE EventArrives
  <2>1. PICK k \in Surface, kind \in EventKind, s \in Session \cup {NoTarget} :
          Hook!Arrive(k, kind, s)
    BY <1>2 DEF EventArrives
  <2>2. /\ \E e : history' = Append(history, e) /\ e.cached = client
        /\ pc' = "client"
        /\ UNCHANGED <<client, gateway, relay, restarts, thread>>
    BY <1>2, <2>1 DEF Hook!Arrive, Hook!memory, EventArrives, RelayRests,
           relayVars
  <2>3. \A i \in Recent' : history'[i].cached => client
    BY <2>2, RecentAfterArrival DEF HeardInv
  <2> QED
    BY <2>2, <2>3 DEF HeardInv
<1>3. CASE UNCHANGED <<client, gateway, relay, thread, history, restarts>>
           /\ (pc' = "idle" => pc = "idle")
  BY <1>3 DEF HeardInv, Recent, Hook!Since
<1>4. CASE HookGetsClient
  <2>1. /\ pc' = "decide" /\ (client => client') /\ relay' = relay
        /\ thread' = thread /\ history' = history /\ restarts' = restarts
    BY <1>4 DEF HookGetsClient, Hook!GetClient, RelayRests, relayVars
  <2>2. Recent' = Recent
    BY <2>1 DEF Recent, Hook!Since
  <2>3. \A i \in Recent : history[i].cached => client
    BY DEF HeardInv
  <2>4. \A i \in Recent' : history'[i].cached => client'
    BY <2>1, <2>2, <2>3
  <2>5. relay' = (thread'[Plugin] # "off")
    BY <2>1 DEF HeardInv
  <2> QED
    BY <2>1, <2>4, <2>5 DEF HeardInv
<1>5. CASE HookDecides
  <2>1. /\ pc' # "idle"
        /\ UNCHANGED <<client, relay, thread, history, restarts>>
    BY <1>5 DEF HookDecides, Hook!Decide, Hook!ApplyControl, Hook!PassThrough,
                Hook!DropInvalid, Hook!RouteText, Hook!Answer, RelayRests,
                relayVars
  <2> QED
    BY <2>1 DEF HeardInv, Recent, Hook!Since
<1>6. CASE HookSends
  <2>1. /\ pc' # "idle"
        /\ UNCHANGED <<client, gateway, relay, thread, history, restarts>>
    BY <1>6 DEF HookSends, Hook!RouterConnects, Hook!XaddSucceeds,
                Hook!XaddRefused, Hook!XaddAnswerLost, Hook!Answer,
                Hook!memory, RelayRests, relayVars
  <2> QED
    BY <1>3, <2>1
<1>7. ASSUME Hook!Return, restarts' = restarts, client => client'
      PROVE  \A i \in Recent' : history'[i].cached => client'
  <2>1. history' = [history EXCEPT ![Len(history)].answer = result]
    BY <1>7 DEF Hook!Return, Hook!now
  <2>2. Len(history') = Len(history)
        /\ \A i \in 1..Len(history) : history'[i].cached = history[i].cached
    BY <1>1, <2>1 DEF HookProofs!Entry
  <2>3. Recent' = Recent
    BY <1>7, <2>2 DEF Recent, Hook!Since
  <2> QED
    BY <1>1, <1>7, <2>2, <2>3 DEF HeardInv
<1>8. CASE HookReturns
  <2>1. /\ Hook!Return /\ (~gateway \/ relay)
        /\ UNCHANGED <<client, gateway, relay, thread, restarts>>
    BY <1>8 DEF HookReturns, Hook!RelayNotNeeded, Hook!memory, RelayRests,
                relayVars
  <2> QED
    BY <1>7, <2>1 DEF HeardInv
<1>9. CASE HookStartsRelay
  <2>1. /\ Hook!Return /\ gateway /\ ~relay
        /\ UNCHANGED <<gateway, restarts>>
        /\ client => client' /\ relay'
        /\ client' => relay'
        /\ relay' \in BOOLEAN
    <3>1. Hook!StartRelay
      BY <1>9 DEF HookStartsRelay
    <3>2. CASE client /\ relay' = TRUE /\ UNCHANGED <<client, attempts>>
      BY <1>1, <3>1, <3>2 DEF Hook!StartRelay
    <3>3. CASE ~client /\ \E made \in BOOLEAN :
                 Hook!Connect(made) /\ client' = made /\ relay' = made
      BY <3>1, <3>3 DEF Hook!StartRelay
    <3> QED
      BY <3>1, <3>2, <3>3 DEF Hook!StartRelay
  <2>2. relay' = (thread'[Plugin] # "off")
    <3>1. CASE relay'
      <4>1. thread' = [thread EXCEPT ![Plugin] = "idle"]
        BY <1>9, <3>1 DEF HookStartsRelay, Outbound!Start
      <4> QED
        BY <1>1, <2>1, <3>1, <4>1
    <3>2. CASE ~relay'
      <4>1. thread' = thread /\ thread[Plugin] = "off"
        BY <1>9, <2>1, <3>2 DEF HookStartsRelay, relayVars, HeardInv
      <4> QED
        BY <2>1, <3>2, <4>1
    <3> QED
      BY <3>1, <3>2
  <2> QED
    BY <1>7, <2>1, <2>2 DEF HeardInv
<1>10. CASE Restart
  <2>1. /\ client' = FALSE /\ relay' = FALSE /\ gateway' = FALSE
        /\ restarts' = restarts \cup {Len(history) + 1} /\ history' = history
        /\ thread' = [thread EXCEPT ![Plugin] = "off"]
    BY <1>10 DEF Restart, Hook!Restart, Hook!now, Outbound!Crash
  <2>2. Recent' = {}
    <3> DEFINE n == Len(history)
    <3>1. n \in Nat /\ restarts' \in SUBSET Nat /\ n + 1 \in restarts'
          /\ restarts' \subseteq 1..(n + 1)
      BY <2>1 DEF HookProofs!Inv, HookProofs!Shape, HookProofs!IsHistory
    <3>2. \A y \in restarts' : y <= n + 1
      BY <3>1
    <3>3. {j \in restarts' : j <= n + 1} = restarts' /\ (\E j \in restarts' : j <= n + 1)
      BY <3>1, <3>2
    <3>4. HookProofs!Max(restarts') = n + 1
      BY <3>1, <3>2, HookProofs!MaxIs, SystemAssumption
    <3>5. Recent' = HookProofs!SinceIn(restarts', n + 1)..n
      BY <2>1 DEF Recent, Hook!Since, HookProofs!SinceIn, Hook!Max,
                  HookProofs!Max
    <3>6. HookProofs!SinceIn(restarts', n + 1) = n + 1
      BY <3>3, <3>4 DEF HookProofs!SinceIn
    <3> QED
      BY <3>1, <3>5, <3>6
  <2> QED
    BY <1>1, <2>1, <2>2 DEF HeardInv
<1>11. CASE RelayStep \/ LoopMoves \/ (\E s \in Session : SessionReplies(s))
  <2>1. UNCHANGED hookVars
    BY <1>11 DEF RelayStep, RelayAsksRedis, RelayRaises, RelaySends, LoopMoves,
                 SessionReplies, HookRests
  <2>2. (thread'[Plugin] # "off") = (thread[Plugin] # "off")
    BY <1>1, <1>11
       DEF RelayStep, RelayAsksRedis, RelayRaises, RelaySends, LoopMoves, SessionReplies,
           Outbound!Ensure, Outbound!EnsureFails, Outbound!Read, Outbound!ReadNothing,
           Outbound!ReadFails, Outbound!ReadResent, Outbound!Abandon, Outbound!AckEntry,
           Outbound!AckFails, Outbound!Snapshot, Outbound!HandleEntry, Outbound!TakeMalformed,
           Outbound!SendImpossible, Outbound!Schedule, Outbound!Take, Outbound!PassEnds,
           Outbound!SendSucceeds, Outbound!SendFails, Outbound!SendTimesOut,
           Outbound!LeavePending, Outbound!LoopLands, Outbound!LoopReturns,
           Outbound!LoopRaises, Outbound!OrphanLands, Outbound!SessionReplies, Outbound!relayVars
  <2> QED
    BY <2>1, <2>2 DEF HeardInv, hookVars, Recent, Hook!Since
<1>13. CASE ListCommand
  <2>1. client' = TRUE /\ UNCHANGED <<pc, gateway, relay, thread, history, restarts>>
    BY <1>13 DEF ListCommand, Hook!ListCommand, Hook!call, RelayRests, relayVars
  <2> QED
    BY <2>1 DEF HeardInv, Recent, Hook!Since
<1>12. CASE RedisChanges \/ (\E s \in Session : HeartbeatChanges(s)) \/ UNCHANGED vars
  <2>1. UNCHANGED <<client, gateway, relay, thread, history, restarts, pc>>
    BY <1>12 DEF RedisChanges, Hook!RedisChanges, Hook!memory, Hook!call,
                 RelayRests, relayVars, hookVars, HeartbeatChanges, vars
  <2> QED
    BY <1>3, <2>1
<1> QED
  BY <1>2, <1>4, <1>5, <1>6, <1>8, <1>9, <1>10, <1>11, <1>12, <1>13 DEF Next, HookStep

(* Who could send a text with the cached client finds the relay running    *)
(* from the end of that event on (__init__.py:58-77).                      *)
THEOREM SendersAreAlwaysHeard == Spec => []SendersAreHeard
<1>1. Init => HeardInv
  <2>1. Init => Recent = {}
    BY DEF Init, Hook!Init, Recent, Hook!Since
  <2>2. Init => relay = FALSE /\ thread[Plugin] = "off" /\ gateway = FALSE
    BY DEF Init, Hook!Init, Outbound!Init
  <2> QED
    BY <2>1, <2>2 DEF HeardInv
<1>2. HeardInv => SendersAreHeard
  BY DEF HeardInv, SendersAreHeard
<1> QED
  BY <1>1, <1>2, HeardStep, HookInvariant, RelayInvariant, PTL DEF Spec

-----------------------------------------------------------------------------
(* Why only invited sessions are read: a session is the target of a        *)
(* surface because a connect of this process named it, and what a pass     *)
(* reads of was routed to when the pass took its snapshot.                 *)
Asked(s) == \E i \in Recent : history[i].kind = "connect" /\ history[i].session = s
AskedInv == \A s \in snap[Plugin] : Asked(s)

LEMMA RoutedIsAsked ==
  ASSUME HookProofs!Inv, NEW s \in Routed
  PROVE  Asked(s)
<1> DEFINE n == Len(history)
           d == HookProofs!Decided
<1>1. PICK k \in Surface : routing.targets[k] = s
  BY DEF Routed, Hook!ActiveTargets
<1>2. s \in Session /\ s # NoTarget
  BY SystemAssumption DEF Routed, Hook!ActiveTargets
<1>3. /\ HookProofs!IsHistory(history, restarts) /\ n \in Nat
      /\ restarts \in SUBSET (1..(n + 1))
      /\ \A i \in 1..n : (history[i].kind = "connect") <=> (history[i].session # NoTarget)
  BY DEF HookProofs!Inv, HookProofs!Shape, HookProofs!IsHistory
<1>4. d = n + 1 \/ (d = n /\ n > 0 /\ n + 1 \notin restarts)
  BY DEF HookProofs!Decided, HookProofs!Inv, HookProofs!Shape, HookProofs!now
<1>5. d \in 1..(n + 1)
  BY <1>3, <1>4
<1>6. HookProofs!TargetBy(history, restarts, d, k) = s
  BY <1>1 DEF HookProofs!Inv, HookProofs!Agrees
<1> DEFINE past == HookProofs!Past(history, restarts, d, k, HookProofs!Targeting)
           j == HookProofs!Max(past)
<1>7. past # {} /\ history[j].session = s
  BY <1>2, <1>6 DEF HookProofs!TargetBy
<1>8. j \in past /\ j \in 1..n
  <2> HIDE DEF d
  <2> QED
    BY <1>3, <1>5, <1>7, HookProofs!PastType, SystemAssumption
<1>9. history[j].kind = "connect"
  BY <1>2, <1>3, <1>7, <1>8
<1>10. j \in Recent
  <2>1. j \in HookProofs!SinceIn(restarts, d)..(d - 1)
    BY <1>8 DEF HookProofs!Past
  <2> HIDE DEF d, j
  <2>2. HookProofs!SinceIn(restarts, d) = HookProofs!SinceIn(restarts, n + 1)
    <3>1. CASE d = n + 1
      BY <3>1
    <3>2. CASE d = n /\ n > 0 /\ n + 1 \notin restarts
      <4>1. \A f \in restarts : f <= n + 1 /\ f <= n
        BY <1>3, <3>2
      <4>2. {f \in restarts : f <= n + 1} = {f \in restarts : f <= n}
        BY <4>1
      <4> QED
        BY <3>2, <4>1, <4>2 DEF HookProofs!SinceIn
    <3> QED
      BY <1>4, <3>1, <3>2
  <2>3. HookProofs!SinceIn(restarts, n + 1) \in 1..(n + 1)
    <3>1. n + 1 \in Nat /\ n + 1 \in 1..(n + 1)
      BY <1>3
    <3> QED
      BY <1>3, <3>1, HookProofs!SinceType, SystemAssumption
  <2>4. Recent = HookProofs!SinceIn(restarts, n + 1)..n
    BY RecentIs
  <2> QED
    BY <1>3, <1>4, <2>1, <2>2, <2>3, <2>4
<1> QED
  BY <1>7, <1>9, <1>10 DEF Asked

(* Only a restart forgets who was asked.                                   *)
LEMMA AskedStays ==
  ASSUME HookProofs!Inv, [Next]_vars, ~Restart, NEW s, Asked(s)
  PROVE  Asked(s)'
<1>1. PICK i \in Recent : history[i].kind = "connect" /\ history[i].session = s
  BY DEF Asked
<1>2. /\ history \in Seq(HookProofs!Entry) /\ Recent \subseteq 1..Len(history)
      /\ Len(history) \in Nat
  BY RecentIs DEF HookProofs!Inv, HookProofs!Shape, HookProofs!IsHistory
<1>3. CASE EventArrives
  <2>1. \E e : history' = Append(history, e) /\ restarts' = restarts
    BY <1>3 DEF EventArrives, Hook!Arrive
  <2>2. i \in Recent' /\ history'[i] = history[i]
    BY <2>1, RecentAfterArrival
  <2> QED
    BY <1>1, <2>2 DEF Asked
<1>4. CASE UNCHANGED <<history, restarts>>
  BY <1>1, <1>4 DEF Asked, Recent, Hook!Since
<1>5. CASE HookReturns \/ HookStartsRelay
  <2>1. /\ history' = [history EXCEPT ![Len(history)].answer = result]
        /\ restarts' = restarts
    BY <1>5 DEF HookReturns, HookStartsRelay, Hook!RelayNotNeeded, Hook!StartRelay,
                Hook!Return, Hook!now
  <2>2. /\ Len(history') = Len(history)
        /\ history'[i].kind = history[i].kind /\ history'[i].session = history[i].session
    BY <1>2, <2>1 DEF HookProofs!Entry
  <2>3. Recent' = Recent
    BY <2>1, <2>2 DEF Recent, Hook!Since
  <2> QED
    BY <1>1, <2>2, <2>3 DEF Asked
<1>6. HookGetsClient \/ HookDecides \/ HookSends \/ ListCommand \/ RedisChanges
        \/ RelayStep \/ LoopMoves
        \/ (\E t \in Session : SessionReplies(t) \/ HeartbeatChanges(t))
        \/ UNCHANGED vars
        => UNCHANGED <<history, restarts>>
  BY DEF HookGetsClient, HookDecides, HookSends, ListCommand, RedisChanges,
         RelayStep, RelayAsksRedis, RelayRaises, RelaySends, LoopMoves,
         SessionReplies, HeartbeatChanges, HookRests, hookVars, vars,
         Hook!GetClient, Hook!Decide, Hook!RouterConnects, Hook!XaddSucceeds,
         Hook!XaddRefused, Hook!XaddAnswerLost, Hook!ListCommand,
         Hook!RedisChanges, Hook!call
<1> QED
  BY <1>3, <1>4, <1>5, <1>6 DEF Next, HookStep

(* A snapshot is what is routed.                                           *)
LEMMA SnapshotIsRouted ==
  ASSUME RelayProofs!IndInv, Outbound!Snapshot(Plugin)
  PROVE  snap'[Plugin] = Routed
<1>1. snap' = [snap EXCEPT ![Plugin] = Outbound!ActiveTargets([r \in {Plugin} |-> routing][Plugin])]
  BY DEF Outbound!Snapshot
<1>2. snap \in [{Plugin} -> SUBSET Session]
  BY DEF RelayProofs!IndInv, RelayProofs!TypeOK
<1>3. [r \in {Plugin} |-> routing][Plugin] = routing
  OBVIOUS
<1> QED
  BY <1>1, <1>2, <1>3
     DEF Routed, Hook!ActiveTargets, Hook!IsRoutingOn,
         Outbound!ActiveTargets, Outbound!IsRoutingOn

(* Nothing else brings a session into the pass.                            *)
LEMMA OnlySnapshotsInvite ==
  ASSUME RelayProofs!IndInv, [Next]_vars, ~Outbound!Snapshot(Plugin)
  PROVE  snap'[Plugin] \subseteq snap[Plugin]
<1>1. snap \in [{Plugin} -> SUBSET Session]
  BY DEF RelayProofs!IndInv, RelayProofs!TypeOK
<1>2. snap' = snap \/ snap' = [snap EXCEPT ![Plugin] = {}]
  <2>1. CASE EventArrives \/ HookStep \/ ListCommand \/ RedisChanges \/ Restart
    BY <2>1 DEF EventArrives, HookStep, HookGetsClient, HookDecides, HookSends,
                HookReturns, HookStartsRelay, ListCommand, RedisChanges, Restart,
                RelayRests, relayVars, Outbound!Start, Outbound!Crash
  <2>2. CASE RelayAsksRedis
    BY <2>2 DEF RelayAsksRedis, Outbound!Ensure, Outbound!Read, Outbound!ReadNothing,
                Outbound!ReadResent, Outbound!AckEntry, Outbound!relayVars
  <2>3. CASE RelayRaises
    BY <2>3 DEF RelayRaises, Outbound!EnsureFails, Outbound!ReadFails,
                Outbound!AckFails, Outbound!Abandon
  <2>4. CASE RelaySends
    BY <2>4 DEF RelaySends, Outbound!HandleEntry, Outbound!TakeMalformed,
                Outbound!SendImpossible, Outbound!Schedule, Outbound!PassEnds,
                Outbound!SendSucceeds, Outbound!SendFails, Outbound!SendTimesOut
  <2>5. CASE LoopMoves \/ \E s \in Session : SessionReplies(s) \/ HeartbeatChanges(s)
    BY <2>5 DEF LoopMoves, SessionReplies, HeartbeatChanges, Outbound!LoopLands,
                Outbound!LoopReturns, Outbound!LoopRaises, Outbound!OrphanLands,
                Outbound!SessionReplies, Outbound!relayVars, relayVars
  <2>6. CASE UNCHANGED vars
    BY <2>6 DEF vars, relayVars
  <2> QED
    BY <2>1, <2>2, <2>3, <2>4, <2>5, <2>6 DEF Next, RelayStep
<1> QED
  BY <1>1, <1>2

LEMMA AskedStep ==
  AskedInv /\ HookProofs!Inv /\ RelayProofs!IndInv /\ [Next]_vars => AskedInv'
<1> SUFFICES ASSUME AskedInv, HookProofs!Inv, RelayProofs!IndInv, [Next]_vars
             PROVE  AskedInv'
  OBVIOUS
<1>1. snap \in [{Plugin} -> SUBSET Session]
  BY DEF RelayProofs!IndInv, RelayProofs!TypeOK
<1>2. CASE Restart
  <2>1. snap' = [snap EXCEPT ![Plugin] = {}]
    BY <1>2 DEF Restart, Outbound!Crash
  <2>2. snap'[Plugin] = {}
    BY <1>1, <2>1
  <2> QED
    BY <2>2 DEF AskedInv
<1>3. CASE Outbound!Snapshot(Plugin) /\ ~Restart
  BY <1>3, SnapshotIsRouted, RoutedIsAsked, AskedStays DEF AskedInv
<1>4. CASE ~Outbound!Snapshot(Plugin) /\ ~Restart
  BY <1>4, OnlySnapshotsInvite, AskedStays DEF AskedInv
<1> QED
  BY <1>2, <1>3, <1>4

(* The group moves only over the streams of the pass.                      *)
LEMMA ReadsOfThePass ==
  ASSUME RelayProofs!IndInv, [Next]_vars
  PROVE  \A m \in PassedNow : m[1] \in snap[Plugin]
<1>1. /\ outbound \in [Session -> RelayProofs!Streams(RelayProofs!Kind)]
      /\ \A s \in Session : ~outbound[s].group => outbound[s].last = 0
  BY DEF RelayProofs!IndInv, RelayProofs!TypeOK, RelayProofs!StreamOK
<1>2. \/ UNCHANGED outbound
      \/ \E s \in Session : \E kind, cut : outbound' = [outbound EXCEPT ![s] = Outbound!Xadd(@, kind, cut)]
      \/ \E s \in todo[Plugin] : outbound' = [outbound EXCEPT ![s] = Outbound!EnsureGroup(@)]
      \/ \E s, id : outbound' = [outbound EXCEPT ![s] = Outbound!Ack(@, id)]
      \/ outbound' = Outbound!StreamsAfterRead(snap[Plugin])
  <2>1. CASE EventArrives \/ HookStep \/ ListCommand \/ RedisChanges \/ Restart
    BY <2>1 DEF EventArrives, HookStep, HookGetsClient, HookDecides, HookSends,
                HookReturns, HookStartsRelay, ListCommand, RedisChanges, Restart,
                RelayRests, relayVars, Outbound!Start, Outbound!Crash
  <2>2. CASE RelayAsksRedis
    <3>1. CASE Outbound!Ensure(Plugin)
      BY <3>1 DEF Outbound!Ensure
    <3>2. CASE Outbound!Read(Plugin) \/ Outbound!ReadNothing(Plugin) \/ Outbound!ReadResent(Plugin)
      BY <3>2 DEF Outbound!Read, Outbound!ReadNothing, Outbound!ReadResent
    <3>3. CASE Outbound!AckEntry(Plugin)
      BY <3>3 DEF Outbound!AckEntry, Outbound!XackCur
    <3> QED
      BY <2>2, <3>1, <3>2, <3>3 DEF RelayAsksRedis
  <2>3. CASE RelayRaises
    BY <2>3 DEF RelayRaises, Outbound!EnsureFails, Outbound!ReadFails,
                Outbound!AckFails, Outbound!XackCur
  <2>4. CASE RelaySends
    BY <2>4 DEF RelaySends, Outbound!Snapshot, Outbound!HandleEntry,
                Outbound!TakeMalformed, Outbound!SendImpossible, Outbound!Schedule,
                Outbound!PassEnds, Outbound!SendSucceeds, Outbound!SendFails,
                Outbound!SendTimesOut
  <2>5. CASE LoopMoves \/ \E s \in Session : SessionReplies(s) \/ HeartbeatChanges(s)
    BY <2>5 DEF LoopMoves, SessionReplies, HeartbeatChanges, Outbound!LoopLands,
                Outbound!LoopReturns, Outbound!LoopRaises, Outbound!OrphanLands,
                Outbound!SessionReplies, relayVars
  <2>6. CASE UNCHANGED vars
    BY <2>6 DEF vars, relayVars
  <2> QED
    BY <2>1, <2>2, <2>3, <2>4, <2>5, <2>6 DEF Next, RelayStep
<1>3. \A s \in Session \ snap[Plugin] : outbound'[s].last = outbound[s].last
  <2>1. ASSUME NEW st \in RelayProofs!Streams(RelayProofs!Kind), NEW e, NEW cut, NEW id
        PROVE  /\ Outbound!Xadd(st, e, cut).last = st.last
               /\ Outbound!Ack(st, id).last = st.last
               /\ (~st.group => st.last = 0) => Outbound!EnsureGroup(st).last = st.last
    BY DEF RelayProofs!Streams, Outbound!Xadd, Outbound!Ack, Outbound!EnsureGroup
  <2>2. CASE UNCHANGED outbound
    BY <2>2
  <2>3. ASSUME NEW s \in Session, NEW e, NEW cut,
               outbound' = [outbound EXCEPT ![s] = Outbound!Xadd(@, e, cut)]
        PROVE  \A t \in Session : outbound'[t].last = outbound[t].last
    BY <1>1, <2>1, <2>3
  <2>4. ASSUME NEW s \in todo[Plugin],
               outbound' = [outbound EXCEPT ![s] = Outbound!EnsureGroup(@)]
        PROVE  \A t \in Session : outbound'[t].last = outbound[t].last
    BY <1>1, <2>1, <2>4
  <2>5. ASSUME NEW s, NEW id, outbound' = [outbound EXCEPT ![s] = Outbound!Ack(@, id)]
        PROVE  \A t \in Session : outbound'[t].last = outbound[t].last
    BY <1>1, <2>1, <2>5
  <2>6. CASE outbound' = Outbound!StreamsAfterRead(snap[Plugin])
    BY <2>6 DEF Outbound!StreamsAfterRead
  <2> QED
    BY <1>2, <2>2, <2>3, <2>4, <2>5, <2>6
<1>4. ASSUME NEW m \in PassedNow, m[1] \notin snap[Plugin]
      PROVE  FALSE
  <2>1. /\ m[1] \in Session /\ m[2] \in Nat
        /\ outbound[m[1]].last < m[2] /\ m[2] <= outbound'[m[1]].last
    BY SystemAssumption DEF PassedNow, Outbound!Reply
  <2>2. outbound[m[1]].last \in Nat
    BY <1>1, <2>1 DEF RelayProofs!Streams
  <2>3. outbound'[m[1]].last = outbound[m[1]].last
    BY <1>3, <1>4, <2>1
  <2> QED
    BY <2>1, <2>2, <2>3
<1> QED
  BY <1>4

(* A reply is taken from a session's stream only if a surface connected to *)
(* the session since the plugin was loaded (outbound.py:148-163,           *)
(* mode_state.py:90-103).                                                  *)
THEOREM OnlyTheInvitedAreRead == Spec => ReadsOnlyTheInvited
<1>1. Init => AskedInv
  <2>1. Init => snap[Plugin] = {}
    BY DEF Init, Outbound!Init
  <2> QED
    BY <2>1 DEF AskedInv
<1>2. AskedInv /\ RelayProofs!IndInv /\ [Next]_vars =>
        [\A m \in PassedNow : \E i \in Recent :
           history[i].kind = "connect" /\ history[i].session = m[1]]_vars
  BY ReadsOfThePass DEF AskedInv, Asked
<1> QED
  BY <1>1, <1>2, AskedStep, HookInvariant, RelayInvariant, PTL
     DEF Spec, ReadsOnlyTheInvited

-----------------------------------------------------------------------------
(* Why late replies are bounded: a pass that still has a left session in   *)
(* its snapshot has brought nothing of it since the last surface left, and *)
(* what it brings is one read.                                             *)

(* What came into play of a session since its last surface left.           *)
Fresh(s) == {m \in InPlay : m[1] = s} \ taken

LateInv ==
  \A s \in Session \ Routed :
    /\ thread[Plugin] \in {"ensure", "read"} /\ s \in snap[Plugin] => Fresh(s) = {}
    /\ \E a \in Nat : \A m \in Fresh(s) : m[2] \in (a + 1)..(a + ReadCount)

LEMMA InPlayIsReplies ==
  ASSUME RelayProofs!IndInv
  PROVE  InPlay \subseteq RelayProofs!Reply
<1>1. /\ batch \in [{Plugin} -> SUBSET RelayProofs!Reply]
      /\ cur \in [{Plugin} -> RelayProofs!Reply \cup {RelayProofs!NoReply}]
      /\ discord \in Seq(RelayProofs!Reply) /\ orphans \subseteq RelayProofs!Reply
  BY DEF RelayProofs!IndInv, RelayProofs!TypeOK
<1>2. Outbound!NoReply = RelayProofs!NoReply
  BY DEF Outbound!NoReply, RelayProofs!NoReply
<1>3. Outbound!Held(Plugin) \subseteq RelayProofs!Reply
  BY <1>1, <1>2 DEF Outbound!Held
<1>4. Outbound!Landed \subseteq RelayProofs!Reply
  BY <1>1 DEF Outbound!Landed
<1> QED
  BY <1>1, <1>3, <1>4 DEF InPlay

(* A step that brings nothing into play and takes no snapshot.             *)
NothingNew ==
  /\ InPlay' \subseteq InPlay
  /\ thread'[Plugin] \in {"ensure", "read"} =>
       thread[Plugin] \in {"ensure", "read"} /\ snap'[Plugin] = snap[Plugin]

LEMMA LateQuiet ==
  ASSUME LateInv, NothingNew,
         \A s \in Session \ Routed' :
           Fresh(s)' = {} \/ (s \notin Routed /\ Fresh(s)' \subseteq Fresh(s))
  PROVE  LateInv'
<1> SUFFICES ASSUME NEW s \in Session \ Routed'
             PROVE  /\ thread'[Plugin] \in {"ensure", "read"} /\ s \in snap'[Plugin]
                         => Fresh(s)' = {}
                    /\ \E a \in Nat : \A m \in Fresh(s)' : m[2] \in (a + 1)..(a + ReadCount)
  BY DEF LateInv
<1>1. CASE Fresh(s)' = {}
  <2>1. 0 \in Nat
    OBVIOUS
  <2> QED
    BY <1>1, <2>1
<1>2. CASE s \notin Routed /\ Fresh(s)' \subseteq Fresh(s)
  <2>1. PICK a \in Nat : \A m \in Fresh(s) : m[2] \in (a + 1)..(a + ReadCount)
    BY <1>2 DEF LateInv
  <2>2. \A m \in Fresh(s)' : m[2] \in (a + 1)..(a + ReadCount)
    BY <1>2, <2>1
  <2>3. thread'[Plugin] \in {"ensure", "read"} /\ s \in snap'[Plugin] => Fresh(s)' = {}
    BY <1>2 DEF LateInv, NothingNew
  <2> QED
    BY <2>1, <2>2, <2>3
<1> QED
  BY <1>1, <1>2

(* A step of the hook: of a session that is left now nothing is fresh.     *)
LEMMA LateHook ==
  ASSUME LateInv, NothingNew, NotesTaken
  PROVE  LateInv'
<1>1. ASSUME NEW s \in Session \ Routed'
      PROVE  Fresh(s)' = {} \/ (s \notin Routed /\ Fresh(s)' \subseteq Fresh(s))
  <2>1. CASE s \in Routed
    <3>1. \A m \in InPlay' : m[1] = s => m \in taken'
      BY <1>1, <2>1 DEF NothingNew, NotesTaken
    <3> QED
      BY <3>1 DEF Fresh
  <2>2. CASE s \notin Routed
    <3>1. \A m \in taken : m[1] = s => m \in taken'
      BY <1>1 DEF NotesTaken
    <3> QED
      BY <2>2, <3>1 DEF NothingNew, Fresh
  <2> QED
    BY <2>1, <2>2
<1> QED
  BY <1>1, LateQuiet

(* A step of the relay's side that brings nothing new into play.           *)
LEMMA LateRelay ==
  ASSUME LateInv, NothingNew, taken' = taken, routing' = routing
  PROVE  LateInv'
<1>1. Routed' = Routed
  BY DEF Routed, Hook!ActiveTargets, Hook!IsRoutingOn
<1>2. \A s \in Session \ Routed' : s \notin Routed /\ Fresh(s)' \subseteq Fresh(s)
  BY <1>1 DEF NothingNew, Fresh
<1> QED
  BY <1>2, LateQuiet

(* A step that leaves the relay alone.                                     *)
LEMMA RestsBringNothing == UNCHANGED relayVars => NothingNew
BY DEF NothingNew, InPlay, relayVars, Outbound!Landed, Outbound!Held

(* A pass takes its snapshot: it has no left session in it.                *)
LEMMA LateSnapshot ==
  ASSUME LateInv, RelayProofs!IndInv, Outbound!Snapshot(Plugin), taken' = taken,
         routing' = routing
  PROVE  LateInv'
<1>1. UNCHANGED <<batch, cur, orphans, discord>>
  BY DEF Outbound!Snapshot
<1>2. snap'[Plugin] = Routed
  BY SnapshotIsRouted
<1>3. Routed' = Routed
  BY DEF Routed, Hook!ActiveTargets, Hook!IsRoutingOn
<1>4. InPlay' = InPlay
  BY <1>1 DEF InPlay, Outbound!Landed, Outbound!Held
<1>5. \A s \in Session : Fresh(s)' = Fresh(s)
  BY <1>4 DEF Fresh
<1> QED
  BY <1>2, <1>3, <1>5 DEF LateInv

(* XREADGROUP, answered: what it brings of a session is one read, and of a *)
(* left session the first since it was left.                               *)
LEMMA LateRead ==
  ASSUME LateInv, RelayProofs!IndInv, Outbound!Read(Plugin), taken' = taken,
         routing' = routing
  PROVE  LateInv'
<1> DEFINE S == snap[Plugin]
<1>1. /\ thread[Plugin] = "read" /\ thread'[Plugin] = "batch"
      /\ batch'[Plugin] = Outbound!Fetched(S)
      /\ UNCHANGED <<snap, cur, orphans, discord>>
  BY DEF Outbound!Read, RelayProofs!IndInv, RelayProofs!TypeOK
<1>2. cur[Plugin] = Outbound!NoReply
  BY <1>1 DEF RelayProofs!IndInv, RelayProofs!ThreadOK, RelayProofs!NoReply,
              Outbound!NoReply
<1>3. InPlay' = Outbound!Landed \cup orphans \cup Outbound!Fetched(S)
  BY <1>1, <1>2 DEF InPlay, Outbound!Landed, Outbound!Held
<1>4. Routed' = Routed
  BY DEF Routed, Hook!ActiveTargets, Hook!IsRoutingOn
<1>5. \A s : Fresh(s)' \subseteq Fresh(s) \cup {m \in Outbound!Fetched(S) : m[1] = s}
  BY <1>3 DEF Fresh, InPlay
<1>6. ASSUME NEW s \in Session \ Routed
      PROVE  \E a \in Nat : \A m \in Fresh(s)' : m[2] \in (a + 1)..(a + ReadCount)
  <2>1. CASE s \in S
    <3> DEFINE a == Outbound!Floor(outbound[s])
    <3>1. a \in Nat
      BY DEF RelayProofs!IndInv, RelayProofs!TypeOK, RelayProofs!Streams,
             Outbound!Floor
    <3>2. Fresh(s) = {}
      BY <1>1, <2>1 DEF LateInv
    <3>3. ASSUME NEW m \in Fresh(s)'
          PROVE  m[2] \in (a + 1)..(a + ReadCount)
      <4>1. m \in Outbound!Fetched(S) /\ m[1] = s
        BY <1>5, <3>2, <3>3
      <4>2. m[2] \in Outbound!Unread(outbound[s]) /\ m[2] <= a + ReadCount
        BY <4>1 DEF Outbound!Fetched, Outbound!NextIds
      <4>3. Len(outbound[s].log) \in Nat
        BY DEF RelayProofs!IndInv, RelayProofs!TypeOK, RelayProofs!Streams
      <4> QED
        BY <3>1, <4>2, <4>3, SystemAssumption DEF Outbound!Unread
    <3> QED
      BY <3>1, <3>3
  <2>2. CASE s \notin S
    <3>1. Fresh(s)' \subseteq Fresh(s)
      BY <1>5, <2>2 DEF Outbound!Fetched
    <3> QED
      BY <3>1 DEF LateInv
  <2> QED
    BY <2>1, <2>2
<1> QED
  BY <1>1, <1>4, <1>6 DEF LateInv

(* No other step of the relay's side brings anything into play.            *)
LEMMA CurIsInPlay ==
  ASSUME RelayProofs!IndInv, task[Plugin] # "none"
  PROVE  cur[Plugin] \in InPlay /\ cur[Plugin] \in RelayProofs!Reply
<1>1. thread[Plugin] = "sending" /\ cur[Plugin] # RelayProofs!NoReply
  BY DEF RelayProofs!IndInv, RelayProofs!ThreadOK
<1>2. cur[Plugin] \in RelayProofs!Reply
  BY <1>1 DEF RelayProofs!IndInv, RelayProofs!TypeOK
<1> QED
  BY <1>1, <1>2 DEF InPlay, Outbound!Held, Outbound!NoReply, RelayProofs!NoReply

LEMMA PassBringsNothingNew ==
  ASSUME RelayProofs!IndInv,
         \/ Outbound!Ensure(Plugin) \/ Outbound!ReadNothing(Plugin)
         \/ Outbound!ReadResent(Plugin) \/ Outbound!PassEnds(Plugin)
         \/ Outbound!SendSucceeds(Plugin) \/ Outbound!LoopReturns(Plugin)
         \/ \E s \in Session, kind \in Outbound!Kind : Outbound!SessionReplies(s, kind)
         \/ Outbound!EnsureFails(Plugin) \/ Outbound!ReadFails(Plugin)
         \/ Outbound!AckFails(Plugin) \/ Outbound!AckEntry(Plugin)
         \/ Outbound!SendFails(Plugin)
  PROVE  NothingNew
<1>1. /\ UNCHANGED <<discord, orphans>>
      /\ batch' = batch \/ batch' = [batch EXCEPT ![Plugin] = {}]
      /\ cur' = cur \/ cur' = [cur EXCEPT ![Plugin] = Outbound!NoReply]
  BY DEF Outbound!Ensure, Outbound!ReadNothing, Outbound!ReadResent,
         Outbound!PassEnds, Outbound!SendSucceeds, Outbound!LoopReturns,
         Outbound!SessionReplies, Outbound!EnsureFails, Outbound!ReadFails,
         Outbound!AckFails, Outbound!AckEntry, Outbound!SendFails,
         Outbound!Abandon, Outbound!LeavePending, Outbound!relayVars
<1>2. /\ batch \in [{Plugin} -> SUBSET RelayProofs!Reply]
      /\ cur \in [{Plugin} -> RelayProofs!Reply \cup {RelayProofs!NoReply}]
      /\ thread \in [{Plugin} -> {"off", "idle", "ensure", "read", "batch", "sending", "ack"}]
  BY DEF RelayProofs!IndInv, RelayProofs!TypeOK
<1>3. Outbound!Landed' = Outbound!Landed
  BY <1>1 DEF Outbound!Landed
<1>4. Outbound!Held(Plugin)' \subseteq Outbound!Held(Plugin)
  <2>1. batch'[Plugin] \subseteq batch[Plugin]
    BY <1>1, <1>2
  <2>2. {cur'[Plugin]} \ {Outbound!NoReply} \subseteq {cur[Plugin]} \ {Outbound!NoReply}
    BY <1>1, <1>2
  <2>3. Outbound!NoReply' = Outbound!NoReply
    BY DEF Outbound!NoReply
  <2> QED
    BY <2>1, <2>2, <2>3 DEF Outbound!Held
<1>5. InPlay' \subseteq InPlay
  BY <1>1, <1>3, <1>4 DEF InPlay
<1>6. \/ thread' = thread /\ snap' = snap
      \/ thread[Plugin] \in {"ensure", "read"} /\ snap' = snap
      \/ thread' \in {[thread EXCEPT ![Plugin] = "idle"], [thread EXCEPT ![Plugin] = "ack"],
                      [thread EXCEPT ![Plugin] = "batch"]}
  BY DEF Outbound!Ensure, Outbound!ReadNothing, Outbound!ReadResent,
         Outbound!PassEnds, Outbound!SendSucceeds, Outbound!LoopReturns,
         Outbound!SessionReplies, Outbound!EnsureFails, Outbound!ReadFails,
         Outbound!AckFails, Outbound!AckEntry, Outbound!SendFails,
         Outbound!Abandon, Outbound!LeavePending, Outbound!relayVars
<1> QED
  BY <1>2, <1>5, <1>6 DEF NothingNew

LEMMA SendBringsNothingNew ==
  ASSUME RelayProofs!IndInv,
         \/ Outbound!HandleEntry(Plugin)
         \/ Outbound!SendTimesOut(Plugin) \/ Outbound!LoopRaises(Plugin)
         \/ Outbound!LoopLands(Plugin) \/ Outbound!Crash(Plugin)
         \/ \E m \in orphans : Outbound!OrphanLands(m)
  PROVE  NothingNew
<1>1. /\ batch \in [{Plugin} -> SUBSET RelayProofs!Reply]
      /\ cur \in [{Plugin} -> RelayProofs!Reply \cup {RelayProofs!NoReply}]
      /\ thread \in [{Plugin} -> {"off", "idle", "ensure", "read", "batch", "sending", "ack"}]
      /\ discord \in Seq(RelayProofs!Reply) /\ orphans \subseteq RelayProofs!Reply
  BY DEF RelayProofs!IndInv, RelayProofs!TypeOK
<1>2. Outbound!NoReply' = Outbound!NoReply
  BY DEF Outbound!NoReply
<1>3. CASE Outbound!HandleEntry(Plugin)
  <2>1. PICK m \in batch[Plugin] :
          \/ Outbound!TakeMalformed(Plugin, m) \/ Outbound!SendImpossible(Plugin, m)
          \/ Outbound!Schedule(Plugin, m)
    BY <1>3 DEF Outbound!HandleEntry
  <2>2. /\ UNCHANGED <<discord, orphans, snap>>
        /\ thread[Plugin] = "batch"
        /\ batch' = [batch EXCEPT ![Plugin] = @ \ {m}]
        /\ cur' = cur \/ cur' = [cur EXCEPT ![Plugin] = m]
        /\ \/ thread' = thread
           \/ thread' \in {[thread EXCEPT ![Plugin] = "ack"], [thread EXCEPT ![Plugin] = "sending"]}
    BY <2>1 DEF Outbound!TakeMalformed, Outbound!SendImpossible,
           Outbound!Schedule, Outbound!Take
  <2>3. Outbound!Landed' = Outbound!Landed
    BY <2>2 DEF Outbound!Landed
  <2>4. Outbound!Held(Plugin)' \subseteq Outbound!Held(Plugin)
    BY <1>1, <1>2, <2>2 DEF Outbound!Held
  <2> QED
    BY <1>1, <2>2, <2>3, <2>4 DEF NothingNew, InPlay
<1>4. CASE Outbound!SendTimesOut(Plugin) \/ Outbound!LoopRaises(Plugin) \/ Outbound!Crash(Plugin)
  <2>1. /\ discord' = discord
        /\ \/ orphans' = orphans
           \/ task[Plugin] = "running" /\ orphans' = orphans \cup {cur[Plugin]}
        /\ batch' = batch \/ batch' = [batch EXCEPT ![Plugin] = {}]
        /\ cur' = cur \/ cur' = [cur EXCEPT ![Plugin] = Outbound!NoReply]
        /\ \/ thread' = thread /\ snap' = snap
           \/ thread' \in {[thread EXCEPT ![Plugin] = "batch"], [thread EXCEPT ![Plugin] = "off"]}
    BY <1>4 DEF Outbound!SendTimesOut, Outbound!LeavePending,
                Outbound!LoopRaises, Outbound!Crash
  <2>2. Outbound!Landed' = Outbound!Landed
    BY <2>1 DEF Outbound!Landed
  <2>3. Outbound!Held(Plugin)' \subseteq Outbound!Held(Plugin)
    BY <1>1, <1>2, <2>1 DEF Outbound!Held
  <2>4. orphans' \subseteq InPlay
    BY <2>1, CurIsInPlay DEF InPlay
  <2> QED
    BY <1>1, <2>1, <2>2, <2>3, <2>4 DEF NothingNew, InPlay
<1>5. ASSUME NEW m \in RelayProofs!Reply, m \in InPlay, discord' = Append(discord, m),
             orphans' \subseteq orphans, UNCHANGED <<batch, cur, thread, snap>>
      PROVE  NothingNew
  <2>1. Outbound!Landed' = Outbound!Landed \cup {m}
    BY <1>1, <1>5 DEF Outbound!Landed
  <2>2. Outbound!Held(Plugin)' = Outbound!Held(Plugin)
    BY <1>2, <1>5 DEF Outbound!Held
  <2> QED
    BY <1>5, <2>1, <2>2 DEF NothingNew, InPlay
<1>6. CASE Outbound!LoopLands(Plugin)
  BY <1>5, <1>6, CurIsInPlay DEF Outbound!LoopLands
<1>7. CASE \E m \in orphans : Outbound!OrphanLands(m)
  <2>1. PICK m \in orphans : Outbound!OrphanLands(m)
    BY <1>7
  <2>2. m \in InPlay /\ m \in RelayProofs!Reply
    BY <1>1 DEF InPlay
  <2> QED
    BY <1>5, <2>1, <2>2 DEF Outbound!OrphanLands, Outbound!relayVars
<1> QED
  BY <1>3, <1>4, <1>6, <1>7

LEMMA LateStep ==
  LateInv /\ RelayProofs!IndInv /\ [Next]_vars => LateInv'
<1> SUFFICES ASSUME LateInv, RelayProofs!IndInv, [Next]_vars
             PROVE  LateInv'
  OBVIOUS
<1>1. CASE EventArrives \/ HookGetsClient \/ HookDecides \/ HookSends \/ HookReturns
           \/ ListCommand \/ RedisChanges
  BY <1>1, RestsBringNothing, LateHook
     DEF EventArrives, HookGetsClient, HookDecides, HookSends, HookReturns,
         ListCommand, RedisChanges, RelayRests
<1>2. CASE (\E s \in Session : HeartbeatChanges(s)) \/ UNCHANGED vars
  BY <1>2, RestsBringNothing, LateRelay DEF HeartbeatChanges, vars, hookVars
<1>3. CASE HookStartsRelay
  <2>1. taken' = taken /\ routing' = routing
    BY <1>3 DEF HookStartsRelay, Hook!StartRelay
  <2>2. CASE Outbound!Start(Plugin)
    <3>1. /\ thread'[Plugin] = "idle"
          /\ UNCHANGED <<discord, orphans, batch, cur>>
      BY <2>2 DEF Outbound!Start, RelayProofs!IndInv, RelayProofs!TypeOK
    <3>2. NothingNew
      BY <3>1 DEF NothingNew, InPlay, Outbound!Landed, Outbound!Held
    <3> QED
      BY <2>1, <3>2, LateRelay
  <2>3. CASE UNCHANGED relayVars
    BY <2>1, <2>3, RestsBringNothing, LateRelay
  <2> QED
    BY <1>3, <2>2, <2>3 DEF HookStartsRelay
<1>4. CASE Restart
  <2>1. NothingNew /\ NotesTaken
    BY <1>4, SendBringsNothingNew DEF Restart
  <2> QED
    BY <2>1, LateHook
<1>5. CASE RelayStep \/ LoopMoves \/ \E s \in Session : SessionReplies(s)
  <2>1. taken' = taken /\ routing' = routing
    BY <1>5 DEF RelayStep, RelayAsksRedis, RelayRaises, RelaySends, LoopMoves,
                SessionReplies, HookRests, hookVars
  <2>2. CASE Outbound!Read(Plugin)
    BY <2>1, <2>2, LateRead
  <2>3. CASE Outbound!Snapshot(Plugin)
    BY <2>1, <2>3, LateSnapshot
  <2>4. CASE NothingNew
    BY <2>1, <2>4, LateRelay
  <2> QED
    BY <1>5, <2>2, <2>3, <2>4, PassBringsNothingNew, SendBringsNothingNew
       DEF RelayStep, RelayAsksRedis, RelayRaises, RelaySends, LoopMoves, SessionReplies
<1> QED
  BY <1>1, <1>2, <1>3, <1>4, <1>5 DEF Next, HookStep

(* What one interval of ReadCount ids holds of a session is at most        *)
(* ReadCount replies.                                                      *)
LEMMA LateCount ==
  ASSUME LateInv, RelayProofs!IndInv, NEW s \in Session \ Routed
  PROVE  Cardinality({m \in Outbound!Landed : m[1] = s} \ taken) <= ReadCount
<1> DEFINE X == {m \in Outbound!Landed : m[1] = s} \ taken
<1>1. PICK a \in Nat : \A m \in Fresh(s) : m[2] \in (a + 1)..(a + ReadCount)
  BY DEF LateInv
<1>2. \A m \in X : m[1] = s /\ m[2] \in (a + 1)..(a + ReadCount) /\ m = <<m[1], m[2]>>
  <2> SUFFICES ASSUME NEW m \in X
               PROVE  m[1] = s /\ m[2] \in (a + 1)..(a + ReadCount) /\ m = <<m[1], m[2]>>
    OBVIOUS
  <2>1. m \in Fresh(s)
    BY DEF Fresh, InPlay
  <2>2. m \in RelayProofs!Reply
    BY InPlayIsReplies DEF InPlay
  <2> QED
    BY <1>1, <2>1, <2>2 DEF RelayProofs!Reply
<1> DEFINE f == [m \in X |-> m[2]]
           I == (a + 1)..(a + ReadCount)
<1>3. ReadCount \in Nat
  BY SystemAssumption
<1>4. IsFiniteSet(I) /\ Cardinality(I) = ReadCount
  <2>1. a + 1 \in Int /\ a + ReadCount \in Int
    BY <1>3
  <2>2. IsFiniteSet(I) /\ Cardinality(I) = IF a + 1 > a + ReadCount THEN 0
                                             ELSE (a + ReadCount) - (a + 1) + 1
    BY <2>1, FS_Interval
  <2> QED
    BY <1>3, <2>2, SystemAssumption
<1>5. f \in Injection(X, I)
  <2>1. f \in [X -> I]
    BY <1>2
  <2>2. \A m, n \in X : f[m] = f[n] => m = n
    BY <1>2
  <2> QED
    BY <2>1, <2>2 DEF Injection, IsInjective
<1>6. Cardinality(X) <= Cardinality(I)
  BY <1>4, <1>5, FS_Injection
<1> QED
  BY <1>4, <1>6

(* Whatever lands of a session after its last surface left was in the      *)
(* relay's hands or in a request it had given up, or comes from one read   *)
(* (outbound.py:155-163), for any number of surfaces, sessions, replies,   *)
(* timeouts, faults and restarts.                                          *)
THEOREM LateRepliesAreOneRead == Spec => []LateRepliesAreBounded
<1>1. Init => LateInv
  <2> SUFFICES ASSUME Init PROVE LateInv
    OBVIOUS
  <2>1. InPlay = {} /\ 0 \in Nat
    BY DEF Init, Outbound!Init, InPlay, Outbound!Landed, Outbound!Held
  <2>2. \A s : Fresh(s) = {}
    BY <2>1 DEF Fresh
  <2> QED
    BY <2>1, <2>2 DEF LateInv
<1>2. LateInv /\ RelayProofs!IndInv => LateRepliesAreBounded
  BY LateCount DEF LateRepliesAreBounded
<1> QED
  BY <1>1, <1>2, LateStep, RelayInvariant, PTL DEF Spec

=============================================================================
