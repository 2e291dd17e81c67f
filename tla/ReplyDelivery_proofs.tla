------------------------ MODULE ReplyDelivery_proofs ------------------------
(***************************************************************************)
(* OutboundRelay implements ReplyDelivery: initial states map to initial   *)
(* states, and every step maps to a step of ReplyDelivery or a stutter.    *)
(***************************************************************************)
EXTENDS OutboundRelay_proofs

Mapped == <<Added, {m \in Added : ~Decodes(m)}, Passed, Landed, acked>>

(* What the mapping sees of a stream is its log and the group's position.  *)
LEMMA MappedStutter ==
  ASSUME UNCHANGED <<discord, acked>>,
         \A s \in Session : /\ streams'[s].log = streams[s].log
                            /\ streams'[s].last = streams[s].last
  PROVE  UNCHANGED Mapped
<1>1. Landed' = Landed
  BY DEF Landed
<1>2. Added' = Added /\ Passed' = Passed
  BY ReplyFacts DEF Added, Passed
<1>3. \A m \in Added : Decodes(m)' = Decodes(m)
  BY ReplyFacts DEF Added, Decodes
<1> QED BY <1>1, <1>2, <1>3 DEF Mapped

(* XREADGROUP moves the position of a group forward, inside the log.       *)
LEMMA ReadPasses ==
  ASSUME IndInv, NEW S \in SUBSET Session, NEW s \in Session
  PROVE  /\ StreamsAfterRead(S)[s].log = streams[s].log
         /\ StreamsAfterRead(S)[s].last \in Nat
         /\ streams[s].last <= StreamsAfterRead(S)[s].last
         /\ StreamsAfterRead(S)[s].last <= Len(streams[s].log)
<1>1. /\ streams[s] \in Streams(Kind) /\ ReadCount \in Nat \ {0}
      /\ streams[s].last <= Len(streams[s].log)
      /\ streams[s].trim <= Len(streams[s].log)
  BY RelayAssumption DEF IndInv, TypeOK, StreamOK
<1>2. streams[s].last \in Nat /\ Len(streams[s].log) \in Nat
  BY <1>1 DEF Streams
<1>3. CASE s \in S
  <2>1. StreamsAfterRead(S)[s] = ReadGroup(streams[s], ReadCount)
    BY <1>3 DEF StreamsAfterRead
  <2>2. /\ ReadGroup(streams[s], ReadCount).log = streams[s].log
        /\ ReadGroup(streams[s], ReadCount).last \in streams[s].last..Len(streams[s].log)
    BY <1>1, ReadGroupFacts
  <2> QED BY <2>1, <2>2, <1>2
<1>4. CASE s \notin S
  BY <1>1, <1>2, <1>4 DEF StreamsAfterRead
<1> QED BY <1>3, <1>4

(* XREADGROUP, answered or not, is a claim.                                *)
LEMMA ReadClaims ==
  ASSUME IndInv, NEW S \in SUBSET Session, streams' = StreamsAfterRead(S),
         UNCHANGED <<discord, acked>>
  PROVE  Delivery!Claim
<1>1. \A s \in Session : /\ streams'[s].log = streams[s].log
                         /\ streams[s].last \in Nat
                         /\ streams'[s].last \in Nat
                         /\ streams[s].last <= streams'[s].last
                         /\ streams'[s].last <= Len(streams[s].log)
                         /\ Len(streams[s].log) \in Nat
  <2>1. \A s \in Session : streams[s] \in Streams(Kind)
    BY DEF IndInv, TypeOK
  <2>2. \A s \in Session : streams[s].last \in Nat /\ Len(streams[s].log) \in Nat
    BY <2>1 DEF Streams
  <2> QED BY <2>2, ReadPasses
<1>2. /\ Added' = Added /\ Landed' = Landed
      /\ \A m \in Added : Decodes(m)' = Decodes(m)
  BY <1>1, ReplyFacts DEF Added, Landed, Decodes
<1>3. Passed \subseteq Passed' /\ Passed' \subseteq Added
  BY <1>1, ReplyFacts DEF Passed, Added
<1>4. ASSUME NEW m \in Passed', NEW n \in Added, n[1] = m[1], n[2] < m[2]
      PROVE  n \in Passed'
  BY <1>1, <1>4, ReplyFacts DEF Passed, Added
<1> QED BY <1>2, <1>3, <1>4 DEF Delivery!Claim

(* An XADD of a session publishes one reply, the next of its stream.       *)
LEMMA ReplyPublishes ==
  ASSUME IndInv, NEW s \in Session, NEW kind \in Kind, SessionReplies(s, kind)
  PROVE  \E m \in Reply : Delivery!Publish(m)
<1>1. PICK cut \in TrimPoints(streams[s], MaxLen) :
        streams' = [streams EXCEPT ![s] = Xadd(@, kind, cut)]
  BY DEF SessionReplies
<1>2. /\ streams \in [Session -> Streams(Kind)] /\ StreamOK(streams[s])
      /\ \A t \in Session : Len(streams[t].log) \in Nat /\ streams[t].last \in Nat
      /\ \A t \in Session : streams[t].last <= Len(streams[t].log)
  BY DEF IndInv, TypeOK, Streams, StreamOK
<1>3. /\ Len(Xadd(streams[s], kind, cut).log) = Len(streams[s].log) + 1
      /\ \A i \in 1..Len(streams[s].log) :
           Xadd(streams[s], kind, cut).log[i] = streams[s].log[i]
      /\ Xadd(streams[s], kind, cut).last = streams[s].last
  <2>1. /\ streams[s] \in Streams(Kind) /\ MaxLen \in Nat
        /\ streams[s].trim <= Len(streams[s].log)
    BY <1>2, RelayAssumption DEF StreamOK
  <2> QED BY <2>1, XaddFacts
<1> DEFINE len == Len(streams[s].log)
           m == <<s, len + 1>>
<1>4. len \in Nat /\ len < MaxReplies /\ MaxReplies \in Nat
  BY <1>2, RelayAssumption DEF SessionReplies
<1>5. m \in Reply /\ m \notin Added
  BY <1>4 DEF Reply, Added
<1>6. \A n \in Reply : n \in Added' <=> n \in Added \/ n = m
  <2> SUFFICES ASSUME NEW n \in Reply PROVE n \in Added' <=> n \in Added \/ n = m
    OBVIOUS
  <2>1. n[1] \in Session /\ n[2] \in Nat /\ n = <<n[1], n[2]>>
    BY ReplyFacts, RelayAssumption
  <2>2. n \in Added' <=> n[2] <= Len(streams'[n[1]].log)
    BY DEF Added
  <2>3. n \in Added <=> n[2] <= Len(streams[n[1]].log)
    BY DEF Added
  <2>4. n = m <=> n[1] = s /\ n[2] = len + 1
    BY <2>1
  <2>5. CASE n[1] = s
    BY <2>1, <2>2, <2>3, <2>4, <2>5, <1>1, <1>2, <1>3
  <2>6. CASE n[1] # s
    BY <2>1, <2>2, <2>3, <2>4, <2>6, <1>1, <1>2
  <2> QED BY <2>5, <2>6
<1>7. Added' = Added \cup {m}
  <2>1. Added \subseteq Reply /\ Added' \subseteq Reply
    BY DEF Added
  <2> HIDE DEF m
  <2> QED BY <2>1, <1>5, <1>6
<1>8. \A n \in Added : Decodes(n)' = Decodes(n)
  <2> SUFFICES ASSUME NEW n \in Added PROVE Decodes(n)' = Decodes(n)
    OBVIOUS
  <2>1. n[1] \in Session /\ n[2] \in 1..MaxReplies /\ n[2] <= Len(streams[n[1]].log)
    BY ReplyFacts DEF Added
  <2>2. n[2] \in 1..Len(streams[n[1]].log)
    BY <2>1, <1>2
  <2> QED BY <2>1, <2>2, <1>1, <1>2, <1>3 DEF Decodes
<1>9. Passed' = Passed
  BY <1>1, <1>2, <1>3, ReplyFacts DEF Passed
<1>10. Landed' = Landed /\ acked' = acked
  BY DEF SessionReplies, Landed
<1> HIDE DEF m
<1>11. {n \in Added : ~Decodes(n)}' \in
          {{n \in Added : ~Decodes(n)}, {n \in Added : ~Decodes(n)} \cup {m}}
  BY <1>7, <1>8, <1>5
<1> QED BY <1>5, <1>7, <1>9, <1>10, <1>11 DEF Delivery!Publish

(* A message that appears on Discord is a landing.                         *)
LEMMA LandingLands ==
  ASSUME IndInv, NEW m \in Passed, Decodes(m), m \notin Landed,
         discord' = Append(discord, m), UNCHANGED <<streams, acked>>
  PROVE  Delivery!Land(m)
<1>1. Landed' = Landed \cup {m}
  BY AppendLands DEF IndInv, TypeOK, Passed
<1>2. /\ Added' = Added /\ Passed' = Passed
      /\ {n \in Added : ~Decodes(n)}' = {n \in Added : ~Decodes(n)}
  BY DEF Added, Passed, Decodes
<1> QED BY <1>1, <1>2 DEF Delivery!Land

(* An XACK settles the reply, or repeats what was settled.                 *)
LEMMA AckSettles ==
  ASSUME IndInv, NEW r \in Relay, pc[r] = "ack", XackCur(r), UNCHANGED discord
  PROVE  Delivery!Settle(cur[r])
<1> DEFINE m == cur[r]
<1>1. m \in Reply /\ m \in Held(r) /\ (Decodes(m) => m \in Landed)
  BY DEF IndInv, TypeOK, ThreadOK, Held
<1>2. m \in Pending /\ m \in Passed /\ m \notin acked
  BY <1>1, HeldIsPassed DEF IndInv, OneHolder, LedgerOK
<1>3. m[1] \in Session /\ m[2] \in Nat
  BY <1>1, ReplyFacts
<1>8. acked' = acked \cup {m} /\ streams' = [streams EXCEPT ![m[1]] = Ack(@, m[2])]
  BY DEF XackCur
<1> HIDE DEF m
<1>4. \A s \in Session : /\ streams'[s].log = streams[s].log
                         /\ streams'[s].last = streams[s].last
  <2>1. streams \in [Session -> Streams(Kind)]
    BY DEF IndInv, TypeOK
  <2>2. ASSUME NEW st \in Streams(Kind)
        PROVE  Ack(st, m[2]).log = st.log /\ Ack(st, m[2]).last = st.last
    BY <1>3 DEF Ack, Streams
  <2> QED BY <2>1, <2>2, <1>3, <1>8
<1>5. Added' = Added /\ Passed' = Passed /\ Landed' = Landed
  BY <1>4, ReplyFacts DEF Added, Passed, Landed
<1>6. \A n \in Added : Decodes(n)' = Decodes(n)
  BY <1>4, ReplyFacts DEF Added, Decodes
<1>7. m \in Added
  BY <1>1, <1>2, <1>3 DEF Passed, Added, IndInv, StreamOK, TypeOK, Streams
<1>9. Delivery!Settle(m)
  BY <1>1, <1>2, <1>5, <1>6, <1>7, <1>8 DEF Delivery!Settle
<1> QED BY <1>9 DEF m
(* XGROUP CREATE leaves the log and the position alone.                    *)
LEMMA EnsureStutters ==
  ASSUME IndInv, NEW r \in Relay, NEW s \in todo[r],
         streams' = [streams EXCEPT ![s] = EnsureGroup(@)],
         UNCHANGED <<discord, acked>>
  PROVE  UNCHANGED Mapped
<1>1. s \in Session /\ streams \in [Session -> Streams(Kind)] /\ StreamOK(streams[s])
  BY DEF IndInv, TypeOK
<1>2. /\ EnsureGroup(streams[s]).log = streams[s].log
      /\ EnsureGroup(streams[s]).last = streams[s].last
  BY <1>1, EnsureGroupFacts DEF StreamOK
<1> QED BY <1>1, <1>2, MappedStutter

(* The relays start where the promise starts.                              *)
LEMMA DeliveryInit == Init => Delivery!Init
<1> SUFFICES ASSUME Init PROVE Delivery!Init
  OBVIOUS
<1>1. Added = {} /\ Passed = {}
  BY ReplyFacts DEF Init, EmptyStream, Added, Passed
<1> QED BY <1>1 DEF Init, Landed, Delivery!Init

(* Every step of the relays is a step of the promise or leaves it alone.   *)
LEMMA DeliveryStep == IndInv /\ [Next]_vars => [Delivery!Next]_Delivery!vars
<1> SUFFICES ASSUME IndInv, [Next]_vars PROVE Delivery!Next \/ UNCHANGED Mapped
  BY DEF Delivery!vars, Mapped
<1>1. CASE UNCHANGED <<streams, discord, acked>>
  BY <1>1, MappedStutter
<1>2. CASE \E s \in Session, kind \in Kind : SessionReplies(s, kind)
  BY <1>2, ReplyPublishes DEF Delivery!Next
<1>3. CASE \E r \in Relay : LoopLands(r)
  <2>1. PICK r \in Relay : LoopLands(r)
    BY <1>3
  <2>2. /\ cur[r] \in Held(r) /\ cur[r] \in OnTheWay(r) /\ Decodes(cur[r])
        /\ cur[r] \in Reply
    BY <2>1 DEF LoopLands, IndInv, TypeOK, ThreadOK, Held, OnTheWay
  <2>3. cur[r] \in Passed /\ cur[r] \notin Landed
    BY <2>2, HeldIsPassed DEF IndInv, LedgerOK
  <2>4. Delivery!Land(cur[r])
    BY <2>1, <2>2, <2>3, LandingLands DEF LoopLands
  <2> QED BY <2>2, <2>4 DEF Delivery!Next
<1>4. CASE \E m \in orphans : OrphanLands(m)
  <2>1. PICK m \in orphans : OrphanLands(m)
    BY <1>4
  <2>2. m \in Passed /\ m \in Reply /\ Decodes(m) /\ m \notin Landed
    BY DEF IndInv, LedgerOK, Passed
  <2>3. Delivery!Land(m)
    BY <2>1, <2>2, LandingLands DEF OrphanLands
  <2> QED BY <2>2, <2>3 DEF Delivery!Next
<1>5. CASE \E r \in Relay : Ensure(r) \/ EnsureFails(r)
  <2>1. PICK r \in Relay : Ensure(r) \/ EnsureFails(r)
    BY <1>5
  <2>2. UNCHANGED <<discord, acked>>
    BY <2>1 DEF Ensure, EnsureFails
  <2>3. \/ UNCHANGED streams
        \/ \E s \in todo[r] : streams' = [streams EXCEPT ![s] = EnsureGroup(@)]
    BY <2>1 DEF Ensure, EnsureFails
  <2> QED BY <2>2, <2>3, <1>1, EnsureStutters
<1>6. CASE \E r \in Relay : Read(r) \/ ReadFails(r) \/ ReadResent(r)
  <2>1. PICK r \in Relay : Read(r) \/ ReadFails(r) \/ ReadResent(r)
    BY <1>6
  <2>2. UNCHANGED <<discord, acked>> /\ snap[r] \in SUBSET Session
    BY <2>1 DEF Read, ReadFails, ReadResent, IndInv, TypeOK
  <2>3. UNCHANGED streams \/ streams' = StreamsAfterRead(snap[r])
    BY <2>1 DEF Read, ReadFails, ReadResent
  <2> QED BY <2>2, <2>3, <1>1, ReadClaims DEF Delivery!Next
<1>7. CASE \E r \in Relay : AckEntry(r) \/ AckFails(r)
  <2>1. PICK r \in Relay : AckEntry(r) \/ AckFails(r)
    BY <1>7
  <2>2. pc[r] = "ack" /\ UNCHANGED discord
        /\ (XackCur(r) \/ UNCHANGED <<streams, acked>>)
    BY <2>1 DEF AckEntry, AckFails
  <2>3. cur[r] \in Reply
    BY <2>2 DEF IndInv, TypeOK, ThreadOK
  <2> QED BY <2>2, <2>3, <1>1, AckSettles DEF Delivery!Next
<1>8. CASE \E r \in Relay : \/ HookRoutes(r) \/ Start(r) \/ Crash(r)
                            \/ LoopReturns(r) \/ LoopRaises(r)
  BY <1>8, <1>1 DEF HookRoutes, Start, Crash, LoopReturns, LoopRaises
<1>9. CASE \E r \in Relay : \/ Snapshot(r) \/ ReadNothing(r) \/ HandleEntry(r)
                            \/ SendSucceeds(r) \/ SendFails(r) \/ SendTimesOut(r)
                            \/ PassEnds(r)
  <2>1. PICK r \in Relay : \/ Snapshot(r) \/ ReadNothing(r) \/ HandleEntry(r)
                           \/ SendSucceeds(r) \/ SendFails(r) \/ SendTimesOut(r)
                           \/ PassEnds(r)
    BY <1>9
  <2>2. CASE HandleEntry(r)
    BY <2>2, <1>1 DEF HandleEntry, TakeMalformed, SendImpossible, Schedule
  <2>3. CASE ~HandleEntry(r)
    BY <2>1, <2>3, <1>1
       DEF Snapshot, ReadNothing, SendSucceeds, SendFails, SendTimesOut, PassEnds
  <2> QED BY <2>2, <2>3
<1>10. CASE UNCHANGED vars
  BY <1>10, <1>1 DEF vars
<1> QED BY <1>2, <1>3, <1>4, <1>5, <1>6, <1>7, <1>8, <1>9, <1>10
        DEF Next, RelayStep, LoopStep

(* Relays, Redis and the gateway's loop, stepping in any order and failing *)
(* anywhere, keep the promise of ReplyDelivery: claims in order and never  *)
(* taken back, one landing per reply, settlement only after it             *)
(* (outbound.py poll_once, redis_client.py xreadgroup).                    *)
THEOREM Refinement == Spec => ImplementsDelivery
BY DeliveryInit, DeliveryStep, Invariance, PTL DEF Spec, ImplementsDelivery, Delivery!Spec
=============================================================================
