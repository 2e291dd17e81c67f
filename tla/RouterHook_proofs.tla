------------------------- MODULE RouterHook_proofs --------------------------
(***************************************************************************)
(* What the hook promises for any number of surfaces, sessions, events,    *)
(* outages, lost answers and restarts.                                     *)
(*                                                                         *)
(* The argument: the routing the hook keeps is, at every step, what the    *)
(* commands since the last restart say (Agrees).  So the session a text is *)
(* sent to is the one Commanded names, and the rest follows the event      *)
(* through the steps of its call (Progress).                               *)
(***************************************************************************)
EXTENDS RouterHook, FiniteSetTheorems, WellFoundedInduction, TLAPS

-----------------------------------------------------------------------------
(* The reference definitions, for any history H and restarts R.            *)
Entry == [surface : Surface, kind : Kinds, cached : BOOLEAN,
          session : Session \cup {NoTarget}, answer : Results \cup {"none"}]

IsHistory(H, R) ==
  /\ H \in Seq(Entry)
  /\ R \subseteq 1..(Len(H) + 1)
  /\ \A i \in 1..Len(H) : (H[i].kind = "connect") <=> (H[i].session # NoTarget)

Targeting == {"connect", "disconnect"}
Mode == {"start", "stop"}

SinceIn(R, n) == IF \E j \in R : j <= n THEN Max({j \in R : j <= n}) ELSE 1

(* The events before n of one of these kinds on surface k.                 *)
Past(H, R, n, k, kinds) ==
  {j \in SinceIn(R, n)..(n - 1) : H[j].kind \in kinds /\ H[j].surface = k}

(* What they say of the surface: its target, and whether routing is off.   *)
TargetBy(H, R, n, k) ==
  LET past == Past(H, R, n, k, Targeting)
  IN IF past = {} THEN NoTarget ELSE H[Max(past)].session
OffBy(H, R, n, k) ==
  LET past == Past(H, R, n, k, Mode)
  IN past # {} /\ H[Max(past)].kind = "stop"

CommandedBy(H, R, i) ==
  IF OffBy(H, R, i, H[i].surface) THEN NoTarget ELSE TargetBy(H, R, i, H[i].surface)

-----------------------------------------------------------------------------
(* The inductive invariant, in parts.                                      *)

(* The events are numbered, and the one in the hook is the last.           *)
Shape ==
  /\ IsHistory(history, restarts)
  /\ now <= MaxEvents
  /\ pc # "idle" => now > 0 /\ now + 1 \notin restarts /\ event.answer = "none"
  /\ \A s \in Session : \A j \in DOMAIN inbound[s] : inbound[s][j] <= now

(* The routing is what the events decided so far say.                      *)
Decided == IF pc \in {"client", "decide"} THEN now ELSE now + 1
Agrees ==
  \A k \in Surface :
    /\ routing.targets[k] = TargetBy(history, restarts, Decided, k)
    /\ k \in routing.off <=> OffBy(history, restarts, Decided, k)

(* What is known of the event in the hook at each step of the call.        *)
Progress ==
  /\ pc \in {"connect", "xadd"} => /\ event.kind = "text"
                                   /\ dest \in Session
                                   /\ dest = CommandedBy(history, restarts, now)
  /\ pc = "relay" =>
       /\ event.kind = "text" =>
            ((result = "llm") <=> (CommandedBy(history, restarts, now) = NoTarget))
       /\ event.kind \in ControlKinds => result = "handled"
       /\ result = "routed" => StreamsOf(now) # {}

(* The connections attempted so far, with a cached client and without.     *)
Connections ==
  /\ attempts <= CASE pc = "client" -> 0
                   [] pc \in {"decide", "connect"} -> 1
                   [] pc \in {"xadd", "relay"} -> 2
                   [] pc = "idle" -> 3
  /\ pc # "idle" /\ event.cached =>
       client /\ pc # "connect" /\ (pc = "decide" => handed)

(* OneReader with the reference of this module.                            *)
Read ==
  \A i \in 1..now :
    history[i].kind = "text" =>
      /\ history[i].answer # "none" =>
           ((history[i].answer = "llm") <=> (CommandedBy(history, restarts, i) = NoTarget))
      /\ StreamsOf(i) \subseteq ({CommandedBy(history, restarts, i)} \ {NoTarget})

Inv ==
  /\ TypeOK /\ Shape /\ Agrees /\ Progress /\ Connections
  /\ Read /\ ControlStaysHere /\ RoutedIsThere /\ CachedClientIsUsed

-----------------------------------------------------------------------------
(* A nonempty set of natural numbers up to n has a greatest one: the       *)
(* smallest of the intervals x..n that begin in the set begins there.      *)
LEMMA MaxExists ==
  ASSUME NEW n \in Nat, NEW S \in SUBSET (1..n), S # {}
  PROVE  Max(S) \in S /\ \A y \in S : y <= Max(S)
<1> DEFINE T == {x..n : x \in S}
<1>1. IsFiniteSet(1..n)
  BY FS_Interval
<1>2. T \subseteq FiniteSubsetsOf(1..n)
  <2>1. FiniteSubsetsOf(1..n) = SUBSET (1..n)
    BY <1>1, FS_FiniteSubsetsOfFinite
  <2> QED
    BY <2>1
<1>3. T # {}
  OBVIOUS
<1>4. \E t \in T : \A u \in T : <<u, t>> \notin StrictSubsetOrdering(1..n)
  <2>1. IsWellFoundedOn(StrictSubsetOrdering(1..n), FiniteSubsetsOf(1..n))
    BY FS_StrictSubsetOrderingWellFounded
  <2> HIDE DEF T
  <2> QED
    BY <1>2, <1>3, <2>1, WFMin
<1>5. PICK x \in S : \A y \in S : <<y..n, x..n>> \notin StrictSubsetOrdering(1..n)
  BY <1>4
<1>6. \A y \in S : y <= x
  <2> SUFFICES ASSUME NEW y \in S, x < y PROVE FALSE
    OBVIOUS
  <2>1. y..n \subseteq x..n /\ x \in x..n /\ x \notin y..n
    OBVIOUS
  <2>2. y..n \in SUBSET (1..n) /\ x..n \in SUBSET (1..n)
    OBVIOUS
  <2> QED
    BY <1>5, <2>1, <2>2 DEF StrictSubsetOrdering
<1> QED
  BY <1>6 DEF Max

(* The greatest element, once known.                                       *)
LEMMA MaxIs ==
  ASSUME NEW S \in SUBSET Nat, NEW x \in S, \A y \in S : y <= x
  PROVE  Max(S) = x
<1>1. Max(S) \in S /\ \A y \in S : Max(S) >= y
  BY DEF Max
<1>2. Max(S) <= x /\ x <= Max(S) /\ Max(S) \in Nat /\ x \in Nat
  BY <1>1
<1> QED
  BY <1>2

(* Memory was lost before the first event of now, or never.                *)
LEMMA SinceType ==
  ASSUME NEW n \in Nat, NEW R \in SUBSET (1..n), NEW i \in 1..n
  PROVE  SinceIn(R, i) \in 1..i
<1> DEFINE S == {j \in R : j <= i}
<1>1. CASE S = {}
  <2>1. ~\E j \in R : j <= i
    BY <1>1
  <2> QED
    BY <2>1 DEF SinceIn
<1>2. CASE S # {}
  <2>1. Max(S) \in S
    BY <1>2, MaxExists
  <2>2. SinceIn(R, i) = Max(S)
    BY <1>2 DEF SinceIn
  <2>3. \A j \in S : j \in 1..i
    OBVIOUS
  <2> HIDE DEF S
  <2> QED
    BY <2>1, <2>2, <2>3
<1> QED
  BY <1>1, <1>2

(* The past of an event is made of earlier events.                         *)
LEMMA PastType ==
  ASSUME NEW H, NEW R, IsHistory(H, R), NEW i \in 1..(Len(H) + 1),
         NEW k, NEW kinds
  PROVE  /\ Past(H, R, i, k, kinds) \subseteq 1..Len(H)
         /\ Past(H, R, i, k, kinds) # {} =>
              /\ Max(Past(H, R, i, k, kinds)) \in Past(H, R, i, k, kinds)
              /\ Max(Past(H, R, i, k, kinds)) \in 1..Len(H)
              /\ H[Max(Past(H, R, i, k, kinds))].kind \in kinds
<1>1. Len(H) \in Nat
  BY DEF IsHistory
<1>2. SinceIn(R, i) \in 1..i
  BY <1>1, SinceType DEF IsHistory
<1>3. Past(H, R, i, k, kinds) \subseteq 1..Len(H)
  BY <1>1, <1>2 DEF Past
<1>4. Past(H, R, i, k, kinds) # {} =>
        Max(Past(H, R, i, k, kinds)) \in Past(H, R, i, k, kinds)
  BY <1>1, <1>3, MaxExists
<1>5. \A j \in Past(H, R, i, k, kinds) : H[j].kind \in kinds
  BY DEF Past
<1> QED
  BY <1>3, <1>4, <1>5

(* A later history that keeps the events, and a restart that is not before *)
(* them, leave what an event's past says as it was.                        *)
LEMMA PastIsStable ==
  ASSUME NEW H, NEW R, IsHistory(H, R), NEW G, NEW Q, NEW n \in 1..(Len(H) + 1),
         {j \in Q : j <= n} = {j \in R : j <= n},
         \A j \in 1..(n - 1) : /\ G[j].kind = H[j].kind
                               /\ G[j].surface = H[j].surface
                               /\ G[j].session = H[j].session,
         NEW k
  PROVE  /\ TargetBy(G, Q, n, k) = TargetBy(H, R, n, k)
         /\ OffBy(G, Q, n, k) = OffBy(H, R, n, k)
<1>1. Len(H) \in Nat
  BY DEF IsHistory
<1>2. SinceIn(Q, n) = SinceIn(R, n)
  <2>1. (\E j \in Q : j <= n) <=> {j \in Q : j <= n} # {}
    OBVIOUS
  <2>2. (\E j \in R : j <= n) <=> {j \in R : j <= n} # {}
    OBVIOUS
  <2> QED
    BY <2>1, <2>2 DEF SinceIn
<1>3. SinceIn(R, n) \in 1..n
  BY <1>1, SinceType DEF IsHistory
<1>4. ASSUME NEW kinds
      PROVE  /\ Past(G, Q, n, k, kinds) = Past(H, R, n, k, kinds)
             /\ Past(H, R, n, k, kinds) \subseteq 1..(n - 1)
  BY <1>2, <1>3 DEF Past
<1>5. ASSUME NEW kinds, Past(H, R, n, k, kinds) # {}
      PROVE  Max(Past(H, R, n, k, kinds)) \in 1..(n - 1)
  BY <1>4, <1>5, PastType
<1>6. TargetBy(G, Q, n, k) = TargetBy(H, R, n, k)
  BY <1>4, <1>5 DEF TargetBy
<1>7. OffBy(G, Q, n, k) = OffBy(H, R, n, k)
  BY <1>4, <1>5 DEF OffBy
<1> QED
  BY <1>6, <1>7

(* What the last event adds to what the past says of a surface.            *)
LEMMA LastEventCounts ==
  ASSUME NEW H, NEW R, IsHistory(H, R), Len(H) > 0, Len(H) + 1 \notin R, NEW k
  PROVE  LET n == Len(H)
         IN /\ TargetBy(H, R, n + 1, k) =
                 IF H[n].surface = k /\ H[n].kind \in Targeting
                   THEN H[n].session ELSE TargetBy(H, R, n, k)
            /\ OffBy(H, R, n + 1, k) =
                 IF H[n].surface = k /\ H[n].kind \in Mode
                   THEN H[n].kind = "stop" ELSE OffBy(H, R, n, k)
<1> DEFINE n == Len(H)
<1>1. n \in Nat /\ n \in 1..n
  BY DEF IsHistory
<1>2. SinceIn(R, n + 1) = SinceIn(R, n)
  <2>1. {j \in R : j <= n + 1} = {j \in R : j <= n}
    <3>1. R \subseteq 1..(n + 1) /\ n + 1 \notin R
      BY DEF IsHistory
    <3>2. \A j \in R : (j <= n + 1) <=> (j <= n)
      BY <1>1, <3>1
    <3> QED
      BY <3>2
  <2>2. (\E j \in R : j <= n + 1) <=> (\E j \in R : j <= n)
    BY <2>1
  <2> QED
    BY <2>1, <2>2 DEF SinceIn
<1>3. SinceIn(R, n) \in 1..n
  BY <1>1, SinceType DEF IsHistory
<1>4. ASSUME NEW kinds
      PROVE  Past(H, R, n + 1, k, kinds) =
               Past(H, R, n, k, kinds) \cup
                 (IF H[n].surface = k /\ H[n].kind \in kinds THEN {n} ELSE {})
  <2>1. SinceIn(R, n)..(n + 1 - 1) = (SinceIn(R, n)..(n - 1)) \cup {n}
    BY <1>1, <1>3
  <2> QED
    BY <1>2, <2>1 DEF Past
<1>5. ASSUME NEW kinds, H[n].surface = k, H[n].kind \in kinds
      PROVE  /\ Past(H, R, n + 1, k, kinds) # {}
             /\ Max(Past(H, R, n + 1, k, kinds)) = n
  <2>1. Past(H, R, n + 1, k, kinds) = Past(H, R, n, k, kinds) \cup {n}
    BY <1>4, <1>5
  <2>2. Past(H, R, n, k, kinds) \subseteq 1..(n - 1)
    BY <1>1, <1>3 DEF Past
  <2>3. Past(H, R, n + 1, k, kinds) \in SUBSET Nat
    BY <1>1, <2>1, <2>2
  <2>4. \A y \in Past(H, R, n + 1, k, kinds) : y <= n
    BY <1>1, <2>1, <2>2
  <2> QED
    BY <2>1, <2>3, <2>4, MaxIs
<1>6. ASSUME NEW kinds, ~(H[n].surface = k /\ H[n].kind \in kinds)
      PROVE  Past(H, R, n + 1, k, kinds) = Past(H, R, n, k, kinds)
  BY <1>4, <1>6
<1>7. TargetBy(H, R, n + 1, k) =
        IF H[n].surface = k /\ H[n].kind \in Targeting
          THEN H[n].session ELSE TargetBy(H, R, n, k)
  BY <1>5, <1>6 DEF TargetBy
<1>8. OffBy(H, R, n + 1, k) =
        IF H[n].surface = k /\ H[n].kind \in Mode
          THEN H[n].kind = "stop" ELSE OffBy(H, R, n, k)
  BY <1>5, <1>6 DEF OffBy
<1> QED
  BY <1>7, <1>8

(* After a restart nothing has been said yet.                              *)
LEMMA RestartForgets ==
  ASSUME NEW H, NEW R, IsHistory(H, R), Len(H) + 1 \in R, NEW k
  PROVE  /\ TargetBy(H, R, Len(H) + 1, k) = NoTarget
         /\ OffBy(H, R, Len(H) + 1, k) = FALSE
<1> DEFINE n == Len(H)
<1>1. n \in Nat
  BY DEF IsHistory
<1>2. SinceIn(R, n + 1) = n + 1
  <2>1. {j \in R : j <= n + 1} = R /\ R \in SUBSET Nat
    <3>1. R \subseteq 1..(n + 1)
      BY DEF IsHistory
    <3>2. \A j \in R : j \in Nat /\ j <= n + 1
      BY <1>1, <3>1
    <3> QED
      BY <3>2
  <2>2. \A y \in R : y <= n + 1
    BY <1>1 DEF IsHistory
  <2>3. Max(R) = n + 1
    BY <2>1, <2>2, MaxIs
  <2> QED
    BY <1>1, <2>1, <2>2, <2>3 DEF SinceIn
<1>3. \A kinds : Past(H, R, n + 1, k, kinds) = {}
  BY <1>1, <1>2 DEF Past
<1> QED
  BY <1>3 DEF TargetBy, OffBy

(* So what is commanded for an event stays as it is.                       *)
LEMMA CommandedIsStable ==
  ASSUME NEW H, NEW R, IsHistory(H, R), NEW G, NEW Q, NEW i \in 1..Len(H),
         {j \in Q : j <= i} = {j \in R : j <= i},
         \A j \in 1..i : /\ G[j].kind = H[j].kind
                         /\ G[j].surface = H[j].surface
                         /\ G[j].session = H[j].session
  PROVE  CommandedBy(G, Q, i) = CommandedBy(H, R, i)
<1>1. Len(H) \in Nat
  BY DEF IsHistory
<1>2. i \in 1..(Len(H) + 1) /\ i \in 1..i /\ 1..(i - 1) \subseteq 1..i
  BY <1>1
<1>3. G[i].surface = H[i].surface
  BY <1>2
<1>4. /\ TargetBy(G, Q, i, H[i].surface) = TargetBy(H, R, i, H[i].surface)
      /\ OffBy(G, Q, i, H[i].surface) = OffBy(H, R, i, H[i].surface)
  BY <1>2, PastIsStable
<1> QED
  BY <1>3, <1>4 DEF CommandedBy

(* The reference of this module is the one of the property.                *)
LEMMA CommandedAgrees ==
  ASSUME IsHistory(history, restarts), NEW i \in 1..now
  PROVE  Commanded(i) = CommandedBy(history, restarts, i)
<1> DEFINE P(kinds) == Past(history, restarts, i, history[i].surface, kinds)
<1>1. Len(history) \in Nat /\ i \in 1..(Len(history) + 1)
  BY DEF IsHistory, now
<1>2. ASSUME NEW kinds
      PROVE  LastOf(i, kinds) = IF P(kinds) = {} THEN 0 ELSE Max(P(kinds))
  BY DEF LastOf, Since, Past, SinceIn
<1>3. ASSUME NEW kinds, P(kinds) # {}
      PROVE  /\ Max(P(kinds)) \in 1..Len(history)
             /\ history[Max(P(kinds))].kind \in kinds
  BY <1>1, <1>3, PastType
<1>4. \A j \in 1..Len(history) : (history[j].kind = "connect") <=> (history[j].session # NoTarget)
  BY DEF IsHistory
<1> HIDE DEF P
<1>5. (LastOf(i, Mode) # 0 /\ history[LastOf(i, Mode)].kind = "stop")
        <=> OffBy(history, restarts, i, history[i].surface)
  <2>1. OffBy(history, restarts, i, history[i].surface)
          = (P(Mode) # {} /\ history[Max(P(Mode))].kind = "stop")
    BY DEF OffBy, P
  <2>2. P(Mode) # {} => Max(P(Mode)) # 0
    BY <1>3, <1>1
  <2> QED
    BY <1>2, <2>1, <2>2
<1>6. TargetBy(history, restarts, i, history[i].surface)
        = IF LastOf(i, Targeting) = 0 \/ history[LastOf(i, Targeting)].kind = "disconnect"
            THEN NoTarget ELSE history[LastOf(i, Targeting)].session
  <2>1. TargetBy(history, restarts, i, history[i].surface)
          = IF P(Targeting) = {} THEN NoTarget ELSE history[Max(P(Targeting))].session
    BY DEF TargetBy, P
  <2>2. CASE P(Targeting) = {}
    BY <1>2, <2>1, <2>2
  <2>3. CASE P(Targeting) # {}
    <3>1. LastOf(i, Targeting) = Max(P(Targeting)) /\ Max(P(Targeting)) # 0
      BY <1>1, <1>2, <1>3, <2>3
    <3>2. history[Max(P(Targeting))].kind = "disconnect" =>
            history[Max(P(Targeting))].session = NoTarget
      BY <1>3, <1>4, <2>3
    <3> QED
      BY <2>1, <2>3, <3>1, <3>2
  <2> QED
    BY <2>2, <2>3
<1> QED
  BY <1>5, <1>6 DEF Commanded, CommandedBy, Targeting, Mode

-----------------------------------------------------------------------------
(* What a step keeps that changes neither routing, streams nor events.     *)
LEMMA QuietStep ==
  ASSUME Inv, UNCHANGED <<routing, inbound, history, restarts>>,
         pc' # "idle" => pc # "idle",
         (pc \in {"client", "decide"}) <=> (pc' \in {"client", "decide"})
  PROVE  Shape' /\ Agrees' /\ Read' /\ ControlStaysHere' /\ RoutedIsThere'
<1>1. Shape'
  BY DEF Inv, Shape, now, event
<1>2. Agrees'
  BY DEF Inv, Agrees, Decided, now
<1>3. Read'
  BY DEF Inv, Read, now, StreamsOf
<1>4. ControlStaysHere' /\ RoutedIsThere'
  BY DEF Inv, ControlStaysHere, RoutedIsThere, now, StreamsOf
<1> QED
  BY <1>1, <1>2, <1>3, <1>4

(* An event that is told its result.                                       *)
LEMMA ReturnStep ==
  ASSUME Inv, pc = "relay", Return, UNCHANGED <<routing, inbound, restarts>>
  PROVE  /\ history' \in Seq(Entry) /\ now' = now
         /\ event'.cached = event.cached
         /\ Shape' /\ Agrees' /\ Progress' /\ Read' /\ ControlStaysHere' /\ RoutedIsThere'
<1>1. /\ history \in Seq(Entry) /\ Len(history) \in Nat /\ Len(history) > 0
      /\ result \in Results /\ history[Len(history)] \in Entry
  BY DEF Inv, TypeOK, Shape, IsHistory, now
<1>2. history' = [history EXCEPT ![Len(history)].answer = result] /\ pc' = "idle"
  BY DEF Return, now
<1>3. history' \in Seq(Entry) /\ Len(history') = Len(history)
  BY <1>1, <1>2 DEF Entry
<1>4. \A j \in 1..Len(history) : /\ history'[j].kind = history[j].kind
                                 /\ history'[j].surface = history[j].surface
                                 /\ history'[j].session = history[j].session
                                 /\ history'[j].cached = history[j].cached
  BY <1>1, <1>2 DEF Entry
<1>5. \A j \in 1..Len(history) :
        history'[j].answer = IF j = Len(history) THEN result ELSE history[j].answer
  BY <1>1, <1>2 DEF Entry
<1>6. IsHistory(history, restarts) /\ IsHistory(history', restarts')
  BY <1>3, <1>4 DEF Inv, Shape, IsHistory
<1>7. \A i \in 1..Len(history) :
        CommandedBy(history', restarts', i) = CommandedBy(history, restarts, i)
  BY <1>1, <1>4, <1>6, CommandedIsStable
<1>8. Shape'
  BY <1>2, <1>3, <1>6 DEF Inv, Shape, now
<1>9. Agrees'
  <2>1. Decided = Len(history) + 1 /\ Decided' = Len(history) + 1
    BY <1>2, <1>3 DEF Decided, now
  <2>2. \A k : /\ TargetBy(history', restarts', Len(history) + 1, k)
                   = TargetBy(history, restarts, Len(history) + 1, k)
              /\ OffBy(history', restarts', Len(history) + 1, k)
                   = OffBy(history, restarts, Len(history) + 1, k)
    <3>1. Len(history) + 1 \in 1..(Len(history) + 1)
          /\ 1..(Len(history) + 1 - 1) = 1..Len(history)
      BY <1>1
    <3> QED
      BY <1>4, <1>6, <3>1, PastIsStable
  <2> QED
    BY <2>1, <2>2 DEF Inv, Agrees
<1>10. Progress'
  BY <1>2 DEF Progress
<1>11. Read'
  BY <1>1, <1>3, <1>4, <1>5, <1>7 DEF Inv, Read, Progress, now, event, StreamsOf, Results
<1>12. ControlStaysHere' /\ RoutedIsThere'
  <2>1. \A i \in 1..now : StreamsOf(i)' = StreamsOf(i)
    BY DEF StreamsOf
  <2> QED
    BY <1>1, <1>3, <1>4, <1>5, <2>1
       DEF Inv, ControlStaysHere, RoutedIsThere, Progress, now, event
<1>13. event'.cached = event.cached
  BY <1>1, <1>3, <1>4 DEF event, now
<1> QED
  BY <1>3, <1>8, <1>9, <1>10, <1>11, <1>12, <1>13 DEF now

(* A text put into the stream of the session it was commanded to.          *)
LEMMA DeliverStep ==
  ASSUME Inv, pc = "xadd", pc' = "relay", NEW copies \in 0..2, Deliver(copies),
         UNCHANGED <<routing, history, restarts>>
  PROVE  /\ inbound' \in [Session -> Seq(1..MaxEvents)]
         /\ copies > 0 => StreamsOf(now)' # {}
         /\ CommandedBy(history, restarts, now) # NoTarget /\ event.kind = "text"
         /\ Shape' /\ Agrees' /\ Read' /\ ControlStaysHere' /\ RoutedIsThere'
<1> DEFINE sent == [i \in 1..copies |-> now]
<1>1. /\ now \in 1..MaxEvents /\ MaxEvents \in Nat
      /\ dest \in Session /\ dest = CommandedBy(history, restarts, now)
      /\ event.kind = "text" /\ event.answer = "none"
      /\ inbound \in [Session -> Seq(1..MaxEvents)]
  BY HookAssumption DEF Inv, TypeOK, Shape, Progress, IsHistory, now
<1>2. sent \in Seq(1..MaxEvents) /\ Len(sent) = copies
      /\ \A j \in 1..copies : sent[j] = now
  BY <1>1
<1>3. inbound' = [inbound EXCEPT ![dest] = @ \o sent]
  BY DEF Deliver
<1> HIDE DEF sent
<1>4. inbound' \in [Session -> Seq(1..MaxEvents)]
  BY <1>1, <1>2, <1>3
<1>5. /\ \A s \in Session \ {dest} : inbound'[s] = inbound[s]
      /\ inbound'[dest] = inbound[dest] \o sent
  BY <1>1, <1>3
<1>6. /\ Len(inbound'[dest]) = Len(inbound[dest]) + copies
      /\ \A j \in DOMAIN inbound[dest] : j \in DOMAIN inbound'[dest]
                                       /\ inbound'[dest][j] = inbound[dest][j]
      /\ \A j \in DOMAIN inbound'[dest] :
           (j \in DOMAIN inbound[dest] /\ inbound'[dest][j] = inbound[dest][j])
             \/ inbound'[dest][j] = now
      /\ copies > 0 => \E j \in DOMAIN inbound'[dest] : inbound'[dest][j] = now
  <2>1. inbound[dest] \in Seq(1..MaxEvents)
    BY <1>1
  <2> DEFINE b == inbound[dest]
             c == inbound'[dest]
  <2>2. /\ Len(c) = Len(b) + copies /\ Len(b) \in Nat
        /\ DOMAIN c = 1..(Len(b) + copies) /\ DOMAIN b = 1..Len(b)
        /\ \A j \in 1..(Len(b) + copies) :
             c[j] = IF j <= Len(b) THEN b[j] ELSE sent[j - Len(b)]
    BY <1>2, <1>5, <2>1
  <2>3. \A j \in (Len(b) + 1)..(Len(b) + copies) : c[j] = now
    BY <1>2, <2>2
  <2>4. copies > 0 => Len(b) + 1 \in DOMAIN c /\ c[Len(b) + 1] = now
    BY <2>2, <2>3
  <2> HIDE DEF b, c
  <2>5. /\ \A j \in DOMAIN b : j \in DOMAIN c /\ c[j] = b[j]
        /\ \A j \in DOMAIN c : (j \in DOMAIN b /\ c[j] = b[j]) \/ c[j] = now
    BY <2>2, <2>3
  <2> QED
    BY <2>2, <2>4, <2>5 DEF b, c
<1>7. /\ \A i \in 1..now : i # now => StreamsOf(i)' = StreamsOf(i)
      /\ \A i \in 1..now : i = now => StreamsOf(i)' \subseteq StreamsOf(i) \cup {dest}
      /\ copies > 0 => dest \in StreamsOf(now)'
      /\ \A i \in 1..now : StreamsOf(i) \subseteq StreamsOf(i)'
  <2>0. now' = now
    BY DEF now
  <2>1. \A s \in Session, i \in 1..now : i # now =>
          ((\E j \in DOMAIN inbound'[s] : inbound'[s][j] = i)
            <=> (\E j \in DOMAIN inbound[s] : inbound[s][j] = i))
    BY <1>5, <1>6
  <2>2. \A s \in Session \ {dest} : inbound'[s] = inbound[s]
    BY <1>5
  <2>3. \A s \in Session, i \in 1..now :
          (\E j \in DOMAIN inbound[s] : inbound[s][j] = i)
            => (\E j \in DOMAIN inbound'[s] : inbound'[s][j] = i)
    BY <1>5, <1>6
  <2>4. \A i \in 1..now : i # now => StreamsOf(i)' = StreamsOf(i)
    BY <2>1 DEF StreamsOf
  <2>5. \A i \in 1..now : i = now => StreamsOf(i)' \subseteq StreamsOf(i) \cup {dest}
    BY <2>2 DEF StreamsOf
  <2>6. copies > 0 => dest \in StreamsOf(now)'
    BY <1>1, <1>6, <2>0 DEF StreamsOf
  <2>7. \A i \in 1..now : StreamsOf(i) \subseteq StreamsOf(i)'
    BY <2>3 DEF StreamsOf
  <2> QED
    BY <2>4, <2>5, <2>6, <2>7
<1>8. Shape'
  <2>1. \A s \in Session : \A j \in DOMAIN inbound'[s] : inbound'[s][j] <= now
    <3>1. \A s \in Session : \A j \in DOMAIN inbound[s] : inbound[s][j] <= now
      BY DEF Inv, Shape
    <3>2. now <= now
      BY <1>1
    <3>3. \A j \in DOMAIN inbound'[dest] : inbound'[dest][j] <= now
      BY <1>1, <1>6, <3>1, <3>2
    <3>4. \A s \in Session \ {dest} : \A j \in DOMAIN inbound'[s] : inbound'[s][j] <= now
      BY <1>5, <3>1
    <3> QED
      BY <3>3, <3>4
  <2> QED
    BY <2>1 DEF Inv, Shape, now, event
<1>9. Agrees'
  BY DEF Inv, Agrees, Decided, now
<1>10. Read'
  <2> SUFFICES ASSUME NEW i \in 1..now, history[i].kind = "text"
               PROVE  /\ history[i].answer # "none" =>
                           ((history[i].answer = "llm")
                             <=> (CommandedBy(history, restarts, i) = NoTarget))
                      /\ StreamsOf(i)' \subseteq
                           ({CommandedBy(history, restarts, i)} \ {NoTarget})
    BY DEF Read, now
  <2>1. StreamsOf(i) \subseteq ({CommandedBy(history, restarts, i)} \ {NoTarget})
    BY DEF Inv, Read
  <2>2. CASE i = now
    <3>1. StreamsOf(i)' \subseteq {dest}
      BY <1>1, <1>7, <2>1, <2>2
    <3> QED
      BY <1>1, <2>2, <3>1, NoTargetAssumption DEF event
  <2>3. CASE i # now
    BY <1>7, <2>1, <2>3 DEF Inv, Read
  <2> QED
    BY <2>2, <2>3
<1>11. ControlStaysHere' /\ RoutedIsThere'
  <2>1. ControlStaysHere'
    BY <1>1, <1>7 DEF Inv, ControlStaysHere, event, now
  <2>2. \A i \in 1..now : StreamsOf(i) # {} => StreamsOf(i)' # {}
    BY <1>7
  <2> QED
    BY <2>1, <2>2 DEF Inv, RoutedIsThere, now
<1>12. CommandedBy(history, restarts, now) # NoTarget
  BY <1>1, NoTargetAssumption
<1>13. copies > 0 => StreamsOf(now)' # {}
  BY <1>7
<1> QED
  BY <1>1, <1>4, <1>8, <1>9, <1>10, <1>11, <1>12, <1>13

(* What the router reads of the routing is what is commanded.              *)
LEMMA TargetIsCommanded ==
  ASSUME Inv, pc \in {"client", "decide"}
  PROVE  GetTarget(routing, event.surface) = CommandedBy(history, restarts, now)
<1>1. event.surface \in Surface /\ Decided = now
  <2>1. now \in 1..Len(history) /\ history \in Seq(Entry)
    BY DEF Inv, Shape, IsHistory, now
  <2>2. event \in Entry
    BY <2>1 DEF event
  <2> QED
    BY <2>2 DEF Decided, Entry
<1>2. /\ routing.targets[event.surface] = TargetBy(history, restarts, now, event.surface)
      /\ event.surface \in routing.off <=> OffBy(history, restarts, now, event.surface)
  BY <1>1 DEF Inv, Agrees
<1> QED
  BY <1>2 DEF GetTarget, IsRoutingOn, CommandedBy, event

-----------------------------------------------------------------------------
(* One lemma per action: the step keeps the invariant.                     *)
LEMMA ArriveKeeps ==
  ASSUME Inv, NEW k \in Surface, NEW kind \in Kinds, NEW s \in Session \cup {NoTarget},
         Arrive(k, kind, s)
  PROVE  Inv'
<1> DEFINE n == Len(history)
           e == [surface |-> k, kind |-> kind, session |-> s,
                 answer |-> "none", cached |-> client]
<1>1. /\ history \in Seq(Entry) /\ n \in Nat /\ n < MaxEvents /\ MaxEvents \in Nat
      /\ IsHistory(history, restarts) /\ pc = "idle"
  BY HookAssumption DEF Inv, Shape, IsHistory, Arrive, now
<1>2. e \in Entry /\ e.kind = kind /\ e.session = s /\ e.answer = "none" /\ e.cached = client
  BY DEF Inv, TypeOK, Entry
<1>3. /\ history' = Append(history, e) /\ pc' = "client" /\ attempts' = 0
      /\ (kind = "connect") <=> (s # NoTarget)
      /\ UNCHANGED <<redisUp, memory, inbound, handed, result, dest, restarts, faults>>
  BY DEF Arrive
<1> HIDE DEF e
<1>4. /\ history' \in Seq(Entry) /\ Len(history') = n + 1 /\ history'[n + 1] = e
      /\ \A j \in 1..n : /\ history'[j] = history[j]
                          /\ history'[j].kind = history[j].kind
                          /\ history'[j].surface = history[j].surface
                          /\ history'[j].session = history[j].session
      /\ restarts' = restarts
  BY <1>1, <1>2, <1>3
<1>5. TypeOK'
  BY <1>1, <1>3, <1>4 DEF Inv, TypeOK, memory, Entry
<1>6. Shape'
  <2>1. IsHistory(history', restarts')
    <3>1. \A j \in 1..(n + 1) : j \in 1..n \/ j = n + 1
      BY <1>1
    <3>2. \A j \in 1..n : (history'[j].kind = "connect") <=> (history'[j].session # NoTarget)
      BY <1>1, <1>4 DEF IsHistory
    <3>3. (history'[n + 1].kind = "connect") <=> (history'[n + 1].session # NoTarget)
      BY <1>2, <1>3, <1>4
    <3>4. restarts' \subseteq 1..(Len(history') + 1)
      <4>1. restarts \subseteq 1..(n + 1)
        BY <1>1 DEF IsHistory
      <4> QED
        BY <1>1, <1>3, <1>4, <4>1
    <3> QED
      BY <1>4, <3>1, <3>2, <3>3, <3>4 DEF IsHistory
  <2>2. n + 2 \notin restarts
    BY <1>1 DEF IsHistory
  <2>3. \A t \in Session : \A j \in DOMAIN inbound[t] : inbound[t][j] <= n + 1
    BY <1>1 DEF Inv, TypeOK, Shape, now
  <2> QED
    BY <1>1, <1>2, <1>3, <1>4, <2>1, <2>2, <2>3 DEF Shape, now, event
<1>7. Agrees'
  <2>1. Decided = n + 1 /\ Decided' = n + 1
    BY <1>1, <1>3, <1>4 DEF Decided, now
  <2>2. \A q : /\ TargetBy(history', restarts', n + 1, q) = TargetBy(history, restarts, n + 1, q)
              /\ OffBy(history', restarts', n + 1, q) = OffBy(history, restarts, n + 1, q)
    <3>1. n + 1 \in 1..(Len(history) + 1) /\ 1..(n + 1 - 1) = 1..n
      BY <1>1
    <3> QED
      BY <1>1, <1>4, <3>1, PastIsStable
  <2> QED
    BY <1>3, <2>1, <2>2 DEF Inv, Agrees, memory
<1>8. Progress'
  BY <1>3 DEF Progress
<1>9. Connections' /\ CachedClientIsUsed'
  BY <1>2, <1>3, <1>4 DEF Connections, CachedClientIsUsed, event, now, memory
<1>10. \A i \in 1..n : CommandedBy(history', restarts', i) = CommandedBy(history, restarts, i)
  <2>1. \A i \in 1..n : 1..i \subseteq 1..n
    BY <1>1
  <2> QED
    BY <1>1, <1>4, <2>1, CommandedIsStable
<1>11. /\ \A i \in 1..(n + 1) : StreamsOf(i)' = StreamsOf(i)
       /\ StreamsOf(n + 1) = {}
       /\ \A i \in 1..(n + 1) : i \in 1..n \/ i = n + 1
  <2>1. \A t \in Session : \A j \in DOMAIN inbound[t] : inbound[t][j] # n + 1
    BY <1>1 DEF Inv, TypeOK, Shape, now
  <2> QED
    BY <1>1, <1>3, <2>1 DEF StreamsOf
<1>12. Read'
  <2>1. \A i \in 1..n : history'[i].kind = "text" =>
          /\ history'[i].answer # "none" =>
               ((history'[i].answer = "llm") <=> (CommandedBy(history', restarts', i) = NoTarget))
          /\ StreamsOf(i)' \subseteq ({CommandedBy(history', restarts', i)} \ {NoTarget})
    BY <1>4, <1>10, <1>11 DEF Inv, Read, now
  <2>2. history'[n + 1].answer = "none"
    BY <1>2, <1>4
  <2>3. now' = n + 1
    BY <1>4 DEF now
  <2> SUFFICES ASSUME NEW i \in 1..(n + 1), history'[i].kind = "text"
               PROVE  /\ history'[i].answer # "none" =>
                           ((history'[i].answer = "llm")
                             <=> (CommandedBy(history', restarts', i) = NoTarget))
                      /\ StreamsOf(i)' \subseteq
                           ({CommandedBy(history', restarts', i)} \ {NoTarget})
    BY <2>3 DEF Read
  <2>4. CASE i \in 1..n
    BY <2>1, <2>4
  <2>5. CASE i = n + 1
    <3>1. StreamsOf(i)' = {}
      BY <1>11, <2>5
    <3> QED
      BY <2>2, <2>5, <3>1
  <2> QED
    BY <1>11, <2>4, <2>5
<1>13. ControlStaysHere' /\ RoutedIsThere'
  <2>1. now' = n + 1
    BY <1>4 DEF now
  <2> QED
    BY <1>2, <1>4, <1>11, <2>1 DEF Inv, ControlStaysHere, RoutedIsThere, now
<1> QED
  BY <1>5, <1>6, <1>7, <1>8, <1>9, <1>12, <1>13 DEF Inv

LEMMA RestartKeeps ==
  ASSUME Inv, Restart
  PROVE  Inv'
<1> DEFINE n == Len(history)
<1>1. /\ history \in Seq(Entry) /\ n \in Nat /\ n <= MaxEvents /\ MaxEvents \in Nat
      /\ IsHistory(history, restarts) /\ restarts \subseteq 1..(n + 1)
  BY HookAssumption DEF Inv, Shape, IsHistory, now
<1>2. /\ restarts' = restarts \cup {n + 1} /\ routing' = InitRouting
      /\ client' = FALSE /\ gateway' = FALSE /\ relay' = FALSE
      /\ pc' = "idle" /\ handed' = FALSE /\ result' = "llm" /\ dest' = NoTarget
      /\ attempts' = 0
      /\ UNCHANGED <<redisUp, inbound, history, faults>>
  BY DEF Restart, now
<1>3. IsHistory(history', restarts')
  <2>1. restarts' \subseteq 1..(n + 1)
    <3>1. n + 1 \in 1..(n + 1)
      BY <1>1
    <3> HIDE DEF n
    <3> QED
      BY <1>1, <1>2, <3>1
  <2> QED
    BY <1>1, <1>2, <2>1 DEF IsHistory
<1>4. TypeOK'
  <2>1. restarts' \subseteq 1..(MaxEvents + 1)
    <3>1. 1..(n + 1) \subseteq 1..(MaxEvents + 1) /\ n + 1 \in 1..(n + 1)
      BY <1>1
    <3> HIDE DEF n
    <3> QED
      BY <1>1, <1>2, <3>1
  <2>2. InitRouting \in RoutingStates
    BY DEF InitRouting, RoutingStates
  <2>3. {redisUp, client, gateway, relay, handed}' \subseteq BOOLEAN
    BY <1>2 DEF Inv, TypeOK
  <2>4. attempts' \in 0..3 /\ result' \in Results
    BY <1>2 DEF Results
  <2> QED
    BY <1>2, <2>1, <2>2, <2>3, <2>4 DEF Inv, TypeOK
<1>5. Shape'
  BY <1>2, <1>3 DEF Inv, Shape, now
<1>6. Agrees'
  <2>1. Decided' = n + 1
    BY <1>2 DEF Decided, now
  <2>2. \A k : /\ TargetBy(history', restarts', n + 1, k) = NoTarget
              /\ OffBy(history', restarts', n + 1, k) = FALSE
    BY <1>2, <1>3, RestartForgets
  <2> QED
    BY <1>2, <2>1, <2>2 DEF Agrees, InitRouting
<1>7. Progress' /\ Connections' /\ CachedClientIsUsed'
  BY <1>2 DEF Progress, Connections, CachedClientIsUsed
<1>8. \A i \in 1..n : CommandedBy(history', restarts', i) = CommandedBy(history, restarts, i)
  <2>1. \A i \in 1..n : {j \in restarts' : j <= i} = {j \in restarts : j <= i}
    BY <1>1, <1>2
  <2> QED
    BY <1>1, <1>2, <2>1, CommandedIsStable
<1>9. Read'
  <2>1. \A i \in 1..n : StreamsOf(i)' = StreamsOf(i)
    BY <1>2 DEF StreamsOf
  <2> QED
    BY <1>2, <1>8, <2>1 DEF Inv, Read, now
<1>10. ControlStaysHere' /\ RoutedIsThere'
  BY <1>2 DEF Inv, ControlStaysHere, RoutedIsThere, now, StreamsOf
<1> QED
  BY <1>4, <1>5, <1>6, <1>7, <1>9, <1>10 DEF Inv

LEMMA GetClientKeeps ==
  ASSUME Inv, GetClient
  PROVE  Inv'
<1>1. /\ pc = "client" /\ pc' = "decide" /\ attempts = 0
      /\ UNCHANGED <<redisUp, gateway, relay, routing, inbound, result, dest,
                     history, restarts, faults>>
  BY DEF GetClient, Inv, TypeOK, Connections
<1>2. /\ client' \in BOOLEAN /\ handed' \in BOOLEAN /\ attempts' \in 0..1
      /\ client => client' /\ handed' /\ attempts' = 0
  <2>1. client \in BOOLEAN
    BY DEF Inv, TypeOK
  <2>2. CASE client /\ handed' = TRUE /\ UNCHANGED <<client, attempts>>
    BY <1>1, <2>1, <2>2
  <2>3. CASE ~client /\ \E made \in BOOLEAN :
               Connect(made) /\ client' = made /\ handed' = made
    BY <1>1, <2>3 DEF Connect
  <2> QED
    BY <2>2, <2>3 DEF GetClient
<1>3. TypeOK'
  BY <1>1, <1>2 DEF Inv, TypeOK
<1>4. Shape' /\ Agrees' /\ Read' /\ ControlStaysHere' /\ RoutedIsThere'
  BY <1>1, QuietStep
<1>5. Progress'
  BY <1>1 DEF Progress
<1>6. Connections' /\ CachedClientIsUsed'
  BY <1>1, <1>2 DEF Inv, Connections, CachedClientIsUsed, event, now
<1> QED
  BY <1>3, <1>4, <1>5, <1>6 DEF Inv

LEMMA RouterConnectsKeeps ==
  ASSUME Inv, RouterConnects
  PROVE  Inv'
<1>1. /\ pc = "connect" /\ pc' \in {"xadd", "relay"}
      /\ pc' = "relay" => result' = "dropped"
      /\ pc' = "xadd" => result' = result
      /\ attempts' = attempts + 1
      /\ UNCHANGED <<redisUp, memory, inbound, handed, dest, history, restarts, faults>>
  BY DEF RouterConnects, Connect, Answer
<1>2. attempts \in 0..1 /\ ~event.cached /\ now > 0 /\ event.kind = "text"
      /\ dest \in Session /\ dest = CommandedBy(history, restarts, now)
  BY <1>1 DEF Inv, TypeOK, Connections, Shape, Progress
<1>3. result' \in Results
  BY <1>1 DEF Inv, TypeOK, Results
<1>4. TypeOK'
  BY <1>1, <1>2, <1>3 DEF Inv, TypeOK, memory
<1>5. Shape' /\ Agrees' /\ Read' /\ ControlStaysHere' /\ RoutedIsThere'
  BY <1>1, QuietStep DEF memory
<1>6. Progress'
  BY <1>1, <1>2, NoTargetAssumption DEF Progress, event, now, ControlKinds
<1>7. Connections' /\ CachedClientIsUsed'
  BY <1>1, <1>2 DEF Connections, CachedClientIsUsed, event, now
<1> QED
  BY <1>4, <1>5, <1>6, <1>7 DEF Inv

LEMMA XaddRefusedKeeps ==
  ASSUME Inv, XaddRefused
  PROVE  Inv'
<1>1. /\ pc = "xadd" /\ pc' = "relay" /\ result' = "dropped"
      /\ UNCHANGED <<redisUp, memory, inbound, handed, dest, history, restarts,
                     attempts, faults>>
  BY DEF XaddRefused, Answer
<1>2. /\ now > 0 /\ event.kind = "text"
      /\ dest \in Session /\ dest = CommandedBy(history, restarts, now)
  BY <1>1 DEF Inv, Shape, Progress
<1>3. TypeOK'
  BY <1>1 DEF Inv, TypeOK, memory, Results
<1>4. Shape' /\ Agrees' /\ Read' /\ ControlStaysHere' /\ RoutedIsThere'
  BY <1>1, QuietStep DEF memory
<1>5. Progress'
  BY <1>1, <1>2, NoTargetAssumption DEF Progress, event, now, ControlKinds
<1>6. Connections' /\ CachedClientIsUsed'
  BY <1>1 DEF Inv, Connections, CachedClientIsUsed, event, now, memory
<1> QED
  BY <1>3, <1>4, <1>5, <1>6 DEF Inv

LEMMA XaddDelivers ==
  ASSUME Inv, XaddSucceeds \/ XaddAnswerLost
  PROVE  Inv'
<1>1. PICK copies \in 0..2 : Deliver(copies) /\ (result' = "routed" => copies > 0)
  <2>1. 1 \in 0..2 /\ 2 \in 0..2 /\ 1 > 0 /\ 2 > 0 /\ "dropped" # "routed"
    OBVIOUS
  <2>2. CASE XaddSucceeds
    BY <2>1, <2>2 DEF XaddSucceeds
  <2>3. CASE XaddAnswerLost
    BY <2>1, <2>3 DEF XaddAnswerLost, Answer
  <2> QED
    BY <2>2, <2>3
<1>2. /\ pc = "xadd" /\ pc' = "relay" /\ result' \in {"dropped", "routed"}
      /\ faults' \in 0..MaxFaults
      /\ UNCHANGED <<redisUp, memory, handed, dest, history, restarts, attempts>>
  BY HookAssumption DEF XaddSucceeds, XaddAnswerLost, Answer, Inv, TypeOK
<1>3. /\ inbound' \in [Session -> Seq(1..MaxEvents)]
      /\ copies > 0 => StreamsOf(now)' # {}
      /\ CommandedBy(history, restarts, now) # NoTarget /\ event.kind = "text"
      /\ Shape' /\ Agrees' /\ Read' /\ ControlStaysHere' /\ RoutedIsThere'
  BY <1>1, <1>2, DeliverStep DEF memory
<1>4. TypeOK'
  BY <1>2, <1>3 DEF Inv, TypeOK, memory, Results
<1>5. Progress'
  BY <1>1, <1>2, <1>3 DEF Progress, event, now, ControlKinds
<1>6. Connections' /\ CachedClientIsUsed'
  BY <1>2 DEF Inv, Connections, CachedClientIsUsed, event, now, memory
<1> QED
  BY <1>3, <1>4, <1>5, <1>6 DEF Inv

LEMMA ReturnKeeps ==
  ASSUME Inv, RelayNotNeeded \/ StartRelay
  PROVE  Inv'
<1>1. /\ pc = "relay" /\ Return
      /\ UNCHANGED <<redisUp, gateway, routing, inbound, restarts, faults>>
  BY DEF RelayNotNeeded, StartRelay, memory
<1>2. /\ client' \in BOOLEAN /\ relay' \in BOOLEAN /\ attempts' \in attempts..(attempts + 1)
      /\ attempts \in 0..2
      /\ client => attempts' = attempts
  <2>1. attempts \in 0..2 /\ client \in BOOLEAN /\ relay \in BOOLEAN
    BY <1>1 DEF Inv, TypeOK, Connections
  <2>2. CASE UNCHANGED <<client, relay, attempts>>
    BY <2>1, <2>2
  <2>3. CASE client /\ relay' = TRUE /\ UNCHANGED <<client, attempts>>
    BY <2>1, <2>3
  <2>4. CASE ~client /\ \E made \in BOOLEAN :
               Connect(made) /\ client' = made /\ relay' = made
    BY <2>1, <2>4 DEF Connect
  <2> QED
    BY <2>2, <2>3, <2>4 DEF RelayNotNeeded, StartRelay, memory
<1>3. /\ history' \in Seq(Entry) /\ now' = now /\ event'.cached = event.cached
      /\ Shape' /\ Agrees' /\ Progress' /\ Read' /\ ControlStaysHere' /\ RoutedIsThere'
  BY <1>1, ReturnStep
<1>4. pc' = "idle" /\ handed' = FALSE /\ result' = "llm" /\ dest' = NoTarget
  BY <1>1 DEF Return
<1>5. TypeOK'
  <2>1. {redisUp, client, gateway, relay, handed}' \subseteq BOOLEAN
    BY <1>1, <1>2, <1>4 DEF Inv, TypeOK
  <2>2. attempts' \in 0..3 /\ result' \in Results
    BY <1>2, <1>4 DEF Results
  <2> QED
    BY <1>1, <1>3, <1>4, <2>1, <2>2 DEF Inv, TypeOK, Entry
<1>6. Connections' /\ CachedClientIsUsed'
  BY <1>1, <1>2, <1>3, <1>4 DEF Inv, Shape, Connections, CachedClientIsUsed
<1> QED
  BY <1>3, <1>5, <1>6 DEF Inv

(* The routing after a decision is what the event adds to the commands.    *)
LEMMA DecisionAgrees ==
  ASSUME Inv, Decide
  PROVE  /\ routing' \in RoutingStates
         /\ \A k \in Surface :
              /\ routing'.targets[k] = IF event.surface = k /\ event.kind \in Targeting
                                         THEN event.session ELSE routing.targets[k]
              /\ k \in routing'.off <=> IF event.surface = k /\ event.kind \in Mode
                                          THEN event.kind = "stop" ELSE k \in routing.off
<1>1. pc = "decide" /\ now \in 1..Len(history) /\ history \in Seq(Entry)
  BY DEF Decide, Inv, Shape, IsHistory, now
<1>2. /\ event.surface \in Surface /\ event.kind \in Kinds
      /\ event.session \in Session \cup {NoTarget}
      /\ (event.kind = "connect") <=> (event.session # NoTarget)
  <2>1. event \in Entry
    BY <1>1 DEF event
  <2> QED
    BY <1>1, <2>1 DEF Entry, Inv, Shape, IsHistory, event
<1>3. routing = [targets |-> routing.targets, off |-> routing.off]
      /\ routing.targets \in [Surface -> Session \cup {NoTarget}]
      /\ routing.off \in SUBSET Surface
  BY DEF Inv, TypeOK, RoutingStates
<1>4. CASE event.kind \notin Targeting \cup Mode /\ routing' = routing
  BY <1>4 DEF Inv, TypeOK
<1>5. CASE event.kind \in Targeting /\ routing' = SetTarget(routing, event.surface, event.session)
  <2>1. routing' = [targets |-> [routing.targets EXCEPT ![event.surface] = event.session],
                    off |-> routing.off]
    BY <1>3, <1>5 DEF SetTarget
  <2>2. event.kind \notin Mode
    BY <1>5 DEF Targeting, Mode
  <2> QED
    BY <1>2, <1>3, <1>5, <2>1, <2>2 DEF RoutingStates
<1>6. CASE event.kind \in Mode
           /\ routing' = SetRouting(routing, event.surface, event.kind = "start")
  <2>1. /\ routing'.targets = routing.targets
        /\ routing'.off = IF event.kind = "start" THEN routing.off \ {event.surface}
                                                  ELSE routing.off \cup {event.surface}
        /\ routing' \in RoutingStates
    BY <1>2, <1>3, <1>6 DEF SetRouting, RoutingStates
  <2>2. event.kind \notin Targeting /\ event.kind \in {"start", "stop"}
    BY <1>6 DEF Targeting, Mode
  <2> QED
    BY <1>2, <1>6, <2>1, <2>2
<1>7. \/ event.kind \notin Targeting \cup Mode /\ routing' = routing
      \/ event.kind \in Targeting /\ routing' = SetTarget(routing, event.surface, event.session)
      \/ event.kind \in Mode
         /\ routing' = SetRouting(routing, event.surface, event.kind = "start")
  <2>1. CASE ApplyControl
    <3>1. CASE event.kind = "connect"
      BY <2>1, <3>1 DEF ApplyControl, Targeting
    <3>2. CASE event.kind = "disconnect"
      BY <1>2, <2>1, <3>2 DEF ApplyControl, Targeting, ClearTarget, SetTarget
    <3>3. CASE event.kind = "start"
      BY <2>1, <3>3 DEF ApplyControl, Mode
    <3>4. CASE event.kind = "stop"
      BY <2>1, <3>4 DEF ApplyControl, Mode
    <3>5. CASE event.kind = "list"
      BY <2>1, <3>5 DEF ApplyControl, Targeting, Mode
    <3> QED
      BY <2>1, <3>1, <3>2, <3>3, <3>4, <3>5 DEF ApplyControl, ControlKinds
  <2>2. CASE PassThrough \/ DropInvalid \/ RouteText
    BY <2>2 DEF PassThrough, DropInvalid, RouteText, Targeting, Mode
  <2> QED
    BY <2>1, <2>2 DEF Decide
<1> QED
  BY <1>4, <1>5, <1>6, <1>7

LEMMA DecideKeeps ==
  ASSUME Inv, Decide
  PROVE  Inv'
<1>1. /\ pc = "decide" /\ now \in Nat /\ now > 0 /\ now + 1 \notin restarts
      /\ event.answer = "none" /\ IsHistory(history, restarts)
      /\ gateway' \in BOOLEAN /\ attempts \in 0..1
      /\ event.cached => handed /\ client
      /\ UNCHANGED <<redisUp, client, relay, inbound, handed, history, restarts,
                     attempts, faults>>
  <2>1. /\ pc = "decide" /\ gateway' \in {gateway, TRUE}
        /\ UNCHANGED <<redisUp, client, relay, inbound, handed, history, restarts,
                       attempts, faults>>
    BY DEF Decide, Capture
  <2>2. gateway' \in BOOLEAN
    BY <2>1 DEF Inv, TypeOK
  <2>3. now \in Nat /\ now > 0 /\ now + 1 \notin restarts
        /\ event.answer = "none" /\ IsHistory(history, restarts)
    BY <2>1 DEF Inv, Shape, IsHistory, now
  <2>4. attempts \in 0..1 /\ (event.cached => handed /\ client)
    BY <2>1 DEF Inv, TypeOK, Connections
  <2> QED
    BY <2>1, <2>2, <2>3, <2>4
<1>2. GetTarget(routing, event.surface) = CommandedBy(history, restarts, now)
  BY <1>1, TargetIsCommanded
<1>3. \/ /\ pc' = "relay" /\ dest' = dest
         /\ \/ event.kind \in ControlKinds /\ result' = "handled"
            \/ /\ event.kind \notin ControlKinds /\ result' = "llm"
               /\ event.kind = "text" => CommandedBy(history, restarts, now) = NoTarget
            \/ event.kind = "invalid" /\ result' = "dropped"
      \/ /\ pc' \in {"connect", "xadd"} /\ result' = result
         /\ handed => pc' = "xadd"
         /\ event.kind = "text" /\ dest' = CommandedBy(history, restarts, now)
         /\ dest' # NoTarget
  <2>1. CASE ApplyControl
    BY <2>1 DEF ApplyControl, Answer
  <2>2. CASE PassThrough
    BY <1>2, <2>2 DEF PassThrough, Answer, ControlKinds
  <2>3. CASE DropInvalid
    BY <2>3 DEF DropInvalid, Answer
  <2>4. CASE RouteText
    BY <1>2, <2>4 DEF RouteText
  <2> QED
    BY <2>1, <2>2, <2>3, <2>4 DEF Decide
<1>4. dest' \in Session \cup {NoTarget} /\ result' \in Results
  <2>1. GetTarget(routing, event.surface) \in Session \cup {NoTarget}
    <3>1. event.surface \in Surface
      <4>1. now \in 1..Len(history) /\ history \in Seq(Entry)
        BY <1>1 DEF IsHistory, now
      <4>2. event \in Entry
        BY <4>1 DEF event
      <4> QED
        BY <4>2 DEF Entry
    <3> QED
      BY <3>1 DEF Inv, TypeOK, RoutingStates, GetTarget
  <2> QED
    BY <1>2, <1>3, <2>1 DEF Inv, TypeOK, Results
<1>5. /\ routing' \in RoutingStates
      /\ \A k \in Surface :
           /\ routing'.targets[k] = IF event.surface = k /\ event.kind \in Targeting
                                      THEN event.session ELSE routing.targets[k]
           /\ k \in routing'.off <=> IF event.surface = k /\ event.kind \in Mode
                                       THEN event.kind = "stop" ELSE k \in routing.off
  BY DecisionAgrees
<1>6. TypeOK'
  BY <1>1, <1>3, <1>4, <1>5 DEF Inv, TypeOK
<1>7. Shape'
  BY <1>1, <1>3 DEF Inv, Shape, event, now
<1>8. Agrees'
  <2>1. Decided = now /\ Decided' = now + 1
    BY <1>1, <1>3 DEF Decided, now
  <2>2. \A k : /\ TargetBy(history, restarts, now + 1, k) =
                   IF event.surface = k /\ event.kind \in Targeting
                     THEN event.session ELSE TargetBy(history, restarts, now, k)
              /\ OffBy(history, restarts, now + 1, k) =
                   IF event.surface = k /\ event.kind \in Mode
                     THEN event.kind = "stop" ELSE OffBy(history, restarts, now, k)
    BY <1>1, LastEventCounts DEF event, now
  <2> QED
    BY <1>1, <1>5, <2>1, <2>2 DEF Inv, Agrees
<1>9. Progress'
  BY <1>1, <1>3, <1>4 DEF Progress, event, now, ControlKinds
<1>10. Connections' /\ CachedClientIsUsed'
  BY <1>1, <1>3 DEF Inv, Connections, CachedClientIsUsed, event, now
<1>11. Read' /\ ControlStaysHere' /\ RoutedIsThere'
  BY <1>1 DEF Inv, Read, ControlStaysHere, RoutedIsThere, now, StreamsOf
<1> QED
  BY <1>6, <1>7, <1>8, <1>9, <1>10, <1>11 DEF Inv

-----------------------------------------------------------------------------
LEMMA InitInv == Init => Inv
<1> SUFFICES ASSUME Init PROVE Inv
  OBVIOUS
<1>1. /\ Len(history) = 0 /\ history \in Seq(Entry) /\ restarts = {}
      /\ pc = "idle" /\ attempts = 0 /\ faults = 0 /\ 1..now = {}
  BY DEF Init, now
<1>2. TypeOK
  <2>1. routing \in RoutingStates
    BY DEF Init, InitRouting, RoutingStates
  <2>2. {redisUp, client, gateway, relay, handed} \subseteq BOOLEAN
    BY DEF Init
  <2>3. result \in Results /\ dest = NoTarget
        /\ inbound \in [Session -> Seq(1..MaxEvents)]
    BY DEF Init, Results
  <2> QED
    BY <1>1, <2>1, <2>2, <2>3, HookAssumption DEF TypeOK, Entry
<1>3. Shape
  BY <1>1, HookAssumption DEF Init, Shape, IsHistory, now
<1>4. Agrees
  <2>1. Decided = 1
    BY <1>1 DEF Decided, now
  <2>2. \A k, kinds : Past(history, restarts, 1, k, kinds) = {}
    BY <1>1 DEF Past, SinceIn
  <2> QED
    BY <2>1, <2>2 DEF Agrees, TargetBy, OffBy, Init, InitRouting
<1>5. Progress /\ Connections /\ CachedClientIsUsed
  BY <1>1 DEF Progress, Connections, CachedClientIsUsed
<1>6. Read /\ ControlStaysHere /\ RoutedIsThere
  BY <1>1 DEF Read, ControlStaysHere, RoutedIsThere
<1> QED
  BY <1>2, <1>3, <1>4, <1>5, <1>6 DEF Inv

LEMMA NextKeeps == Inv /\ [Next]_vars => Inv'
<1> SUFFICES ASSUME Inv, [Next]_vars PROVE Inv'
  OBVIOUS
<1>1. ASSUME NEW k \in Surface, NEW kind \in Kinds, NEW s \in Session \cup {NoTarget},
             Arrive(k, kind, s)
      PROVE  Inv'
  BY <1>1, ArriveKeeps
<1>2. CASE HookStep
  BY <1>2, GetClientKeeps, DecideKeeps, RouterConnectsKeeps, XaddDelivers,
     XaddRefusedKeeps, ReturnKeeps DEF HookStep
<1>3. CASE RedisChanges \/ UNCHANGED vars
  <2>1. UNCHANGED <<memory, inbound, call, restarts, faults>> /\ redisUp' \in BOOLEAN
    BY <1>3 DEF RedisChanges, vars, Inv, TypeOK
  <2>2. TypeOK'
    BY <2>1 DEF Inv, TypeOK, memory, call
  <2>3. Shape' /\ Agrees' /\ Read' /\ ControlStaysHere' /\ RoutedIsThere'
    BY <2>1, QuietStep DEF memory, call
  <2>4. Progress' /\ Connections' /\ CachedClientIsUsed'
    BY <2>1 DEF Inv, Progress, Connections, CachedClientIsUsed, event, now,
                StreamsOf, memory, call
  <2> QED
    BY <2>2, <2>3, <2>4 DEF Inv
<1>4. CASE Restart
  BY <1>4, RestartKeeps
<1>5. CASE ListCommand
  <2>1. /\ client' = TRUE /\ pc = "idle"
        /\ UNCHANGED <<redisUp, gateway, relay, routing, inbound, call, restarts, faults>>
    BY <1>5 DEF ListCommand
  <2>2. TypeOK'
    BY <2>1 DEF Inv, TypeOK, call
  <2>3. Shape' /\ Agrees' /\ Read' /\ ControlStaysHere' /\ RoutedIsThere'
    BY <2>1, QuietStep DEF call
  <2>4. Progress' /\ Connections' /\ CachedClientIsUsed'
    BY <2>1 DEF Inv, Progress, Connections, CachedClientIsUsed, event, now, call
  <2> QED
    BY <2>2, <2>3, <2>4 DEF Inv
<1> QED
  BY <1>1, <1>2, <1>3, <1>4, <1>5 DEF Next

(* The inductive invariant holds of every behaviour.                       *)
THEOREM HookInvariance == Spec => []Inv
BY InitInv, NextKeeps, PTL DEF Spec

(* Every variable holds a value of its kind.                               *)
THEOREM HookTypes == Spec => []TypeOK
<1>1. Inv => TypeOK
  BY DEF Inv
<1> QED
  BY <1>1, HookInvariance, PTL

(* A text is read by the agent's LLM or by the one session the commands    *)
(* name, never by both, whatever fails (router.py:206-257).                *)
THEOREM TextsHaveOneReader == Spec => []OneReader
<1>1. Inv => OneReader
  BY CommandedAgrees DEF Inv, Shape, Read, OneReader
<1> QED
  BY <1>1, HookInvariance, PTL

(* Control phrases never enter a session's stream (__init__.py:83-85).     *)
THEOREM ControlPhrasesStay == Spec => []ControlStaysHere
<1>1. Inv => ControlStaysHere
  BY DEF Inv
<1> QED
  BY <1>1, HookInvariance, PTL

(* "Routed" is said only of what is in the stream (router.py:256-257).     *)
THEOREM RoutedTextsAreThere == Spec => []RoutedIsThere
<1>1. Inv => RoutedIsThere
  BY DEF Inv
<1> QED
  BY <1>1, HookInvariance, PTL

(* A cached client spares every connection (router.py:243-244).            *)
THEOREM CachedClientsAreUsed == Spec => []CachedClientIsUsed
<1>1. Inv => CachedClientIsUsed
  BY DEF Inv
<1> QED
  BY <1>1, HookInvariance, PTL
-----------------------------------------------------------------------------
(* The hook implements TextRouting.                                        *)
Hist == [i \in DOMAIN history |-> Told(history[i])]
Line == [surface : Surface, kind : Kinds, session : Session \cup {NoTarget},
         answer : Results \cup {"none"}]

(* The abstract history has the events of the concrete one.                *)
LEMMA HistFacts ==
  ASSUME IsHistory(history, restarts)
  PROVE  /\ Hist \in Seq(Line) /\ Len(Hist) = Len(history)
         /\ \A i \in 1..Len(history) : /\ Hist[i].kind = history[i].kind
                                       /\ Hist[i].surface = history[i].surface
                                       /\ Hist[i].session = history[i].session
<1>1. history \in Seq(Entry) /\ Len(history) \in Nat
  BY DEF IsHistory
<1>2. \A e \in Entry : Told(e) \in Line
  BY DEF Entry, Line, Told
<1>3. DOMAIN history = 1..Len(history) /\ \A i \in 1..Len(history) : history[i] \in Entry
  BY <1>1
<1>4. Hist \in [1..Len(history) -> Line]
  BY <1>2, <1>3 DEF Hist
<1> HIDE DEF Hist
<1>5. Hist \in Seq(Line) /\ Len(Hist) = Len(history)
  BY <1>1, <1>4
<1>6. \A i \in 1..Len(history) : Hist[i] = Told(history[i])
  BY <1>3 DEF Hist
<1>7. \A e : /\ Told(e).kind = e.kind /\ Told(e).surface = e.surface
             /\ Told(e).session = e.session
  BY DEF Told
<1> QED
  BY <1>5, <1>6, <1>7

(* The events that still count for i are its past.                         *)
LEMMA BeforeIsPast ==
  ASSUME IsHistory(history, restarts), NEW i \in 1..now
  PROVE  \A j, kinds :
           j \in Past(history, restarts, i, history[i].surface, kinds)
             <=> j \in Texts!Before(i) /\ history[j].kind \in kinds
<1> DEFINE S == {f \in restarts : f <= i}
           since == SinceIn(restarts, i)
<1>1. /\ Len(history) \in Nat /\ now = Len(history) /\ i \in Nat
      /\ restarts \subseteq 1..(Len(history) + 1)
  BY DEF IsHistory, now
<1>2. since \in 1..i
  BY <1>1, SinceType
<1>3. \A j \in Nat : j >= since /\ j >= 1 <=> j >= 1 /\ \A f \in restarts : f <= i => f <= j
  <2>1. CASE S = {}
    <3>1. since = 1
      BY <2>1 DEF SinceIn
    <3> QED
      BY <2>1, <3>1
  <2>2. CASE S # {}
    <3>1. since = Max(S)
      BY <2>2 DEF SinceIn
    <3>2. S \in SUBSET (1..i)
      <4>1. \A f \in 1..(Len(history) + 1) : f <= i => f \in 1..i
        BY <1>1
      <4> QED
        BY <1>1, <4>1
    <3>3. since \in S /\ \A f \in S : f <= since
      <4> HIDE DEF S
      <4> QED
        BY <1>1, <2>2, <3>1, <3>2, MaxExists
    <3>4. \A f \in restarts : f <= i => f \in S
      OBVIOUS
    <3>5. \A j \in Nat : j >= since => \A f \in restarts : f <= i => f <= j
      BY <1>1, <1>2, <3>3, <3>4
    <3>6. \A j \in Nat : (\A f \in restarts : f <= i => f <= j) => j >= since
      BY <1>1, <1>2, <3>3
    <3> QED
      BY <1>2, <3>5, <3>6
  <2> QED
    BY <2>1, <2>2
<1>4. \A j : j \in Texts!Before(i) <=> /\ j \in 1..(i - 1)
                                       /\ history[j].surface = history[i].surface
                                       /\ \A f \in restarts : f <= i => f <= j
  <2>1. \A j \in 1..(i - 1) : j \in 1..Len(history)
    BY <1>1
  <2> QED
    BY <1>1, <2>1, HistFacts DEF Texts!Before, Hist
<1> HIDE DEF since
<1>5. \A j : j \in since..(i - 1) <=>
             j \in 1..(i - 1) /\ \A f \in restarts : f <= i => f <= j
  BY <1>1, <1>2, <1>3
<1> QED
  BY <1>4, <1>5 DEF Past, since

(* Where a text belongs by the abstract account is where it is commanded.  *)
LEMMA BelongsIsCommanded ==
  ASSUME IsHistory(history, restarts), NEW i \in 1..now
  PROVE  /\ CommandedBy(history, restarts, i) \in Session \cup {NoTarget}
         /\ \A s \in Session : Texts!Belongs(i, s) <=> CommandedBy(history, restarts, i) = s
         /\ Texts!Unrouted(i) <=> CommandedBy(history, restarts, i) = NoTarget
<1> DEFINE k == history[i].surface
           T == Past(history, restarts, i, k, Targeting)
           M == Past(history, restarts, i, k, Mode)
           B == Texts!Before(i)
<1>1. /\ history \in Seq(Entry) /\ Len(history) \in Nat /\ now = Len(history)
      /\ i \in 1..(Len(history) + 1)
      /\ \A j \in 1..Len(history) : /\ history[j].session \in Session \cup {NoTarget}
                                    /\ (history[j].kind = "connect") <=> (history[j].session # NoTarget)
  <2>1. history \in Seq(Entry) /\ Len(history) \in Nat /\ now = Len(history)
    BY DEF IsHistory, now
  <2>2. \A j \in 1..Len(history) : history[j] \in Entry
    BY <2>1
  <2> QED
    BY <2>1, <2>2 DEF IsHistory, Entry
<1>2. /\ T \subseteq 1..Len(history) /\ M \subseteq 1..Len(history)
      /\ T # {} => Max(T) \in T /\ Max(T) \in Nat /\ \A y \in T : y \in Nat /\ y <= Max(T)
      /\ M # {} => Max(M) \in M /\ Max(M) \in Nat /\ \A y \in M : y \in Nat /\ y <= Max(M)
  <2>1. T \subseteq 1..Len(history) /\ M \subseteq 1..Len(history)
    BY <1>1, PastType
  <2> HIDE DEF T, M
  <2>2. \A y \in 1..Len(history) : y \in Nat
    BY <1>1
  <2>3. /\ T # {} => Max(T) \in T /\ \A y \in T : y <= Max(T)
        /\ M # {} => Max(M) \in M /\ \A y \in M : y <= Max(M)
    BY <1>1, <2>1, MaxExists
  <2> QED
    BY <2>1, <2>2, <2>3
<1>3. /\ \A j : j \in T <=> j \in B /\ history[j].kind \in Targeting
      /\ \A j : j \in M <=> j \in B /\ history[j].kind \in Mode
  BY BeforeIsPast
<1>4. B \subseteq 1..Len(history) /\ \A j \in B : j \in Nat
  <2>1. \A j \in 1..(i - 1) : j \in 1..Len(history) /\ j \in Nat
    BY <1>1
  <2> QED
    BY <2>1 DEF Texts!Before
<1>5. /\ TargetBy(history, restarts, i, k) = IF T = {} THEN NoTarget ELSE history[Max(T)].session
      /\ OffBy(history, restarts, i, k) <=> M # {} /\ history[Max(M)].kind = "stop"
      /\ CommandedBy(history, restarts, i) =
           IF OffBy(history, restarts, i, k) THEN NoTarget ELSE TargetBy(history, restarts, i, k)
  BY DEF TargetBy, OffBy, CommandedBy
<1>6. \A s : Texts!Belongs(i, s) <=>
        /\ \E j \in B : /\ history[j].kind = "connect" /\ history[j].session = s
                        /\ \A l \in B : l > j => history[l].kind \notin Targeting
        /\ \A j \in B : history[j].kind = "stop" =>
             \E l \in B : l > j /\ history[l].kind = "start"
  <2>1. \A j \in B : Hist[j].kind = history[j].kind /\ Hist[j].session = history[j].session
    BY <1>4, HistFacts
  <2>2. \A s : Texts!Belongs(i, s) <=>
          /\ \E j \in B : /\ Hist[j].kind = "connect" /\ Hist[j].session = s
                          /\ \A l \in B : l > j => Hist[l].kind \notin Targeting
          /\ \A j \in B : Hist[j].kind = "stop" =>
               \E l \in B : l > j /\ Hist[l].kind = "start"
    BY DEF Texts!Belongs, Hist, Targeting
  <2> HIDE DEF B
  <2> QED
    BY <2>1, <2>2
<1> HIDE DEF T, M, B, k
<1>7. ASSUME NEW s \in Session
      PROVE  TargetBy(history, restarts, i, k) = s <=>
               \E j \in B : /\ history[j].kind = "connect" /\ history[j].session = s
                            /\ \A l \in B : l > j => history[l].kind \notin Targeting
  <2>1. ASSUME TargetBy(history, restarts, i, k) = s
        PROVE  \E j \in B : /\ history[j].kind = "connect" /\ history[j].session = s
                            /\ \A l \in B : l > j => history[l].kind \notin Targeting
    <3>1. T # {} /\ history[Max(T)].session = s
      BY <1>5, <2>1, NoTargetAssumption
    <3>2. Max(T) \in B /\ history[Max(T)].kind = "connect"
      BY <1>1, <1>2, <1>3, <3>1, NoTargetAssumption
    <3>3. \A l \in B : l > Max(T) => l \notin T
      <4>1. \A x, y \in Nat : x <= y => ~(x > y)
        OBVIOUS
      <4> QED
        BY <1>2, <3>1, <4>1
    <3> QED
      BY <1>3, <3>1, <3>2, <3>3
  <2>2. ASSUME NEW j \in B, history[j].kind = "connect", history[j].session = s,
               \A l \in B : l > j => history[l].kind \notin Targeting
        PROVE  TargetBy(history, restarts, i, k) = s
    <3>1. j \in T
      BY <1>3, <2>2 DEF Targeting
    <3>2. \A y \in T : y <= j
      <4>1. \A x, y \in Nat : ~(x > y) => x <= y
        OBVIOUS
      <4> QED
        BY <1>2, <1>3, <2>2, <3>1, <4>1
    <3>3. Max(T) = j
      <4>1. T \in SUBSET Nat
        BY <1>2, <3>1
      <4> QED
        BY <3>1, <3>2, <4>1, MaxIs
    <3> QED
      BY <1>5, <2>2, <3>1, <3>3
  <2> QED
    BY <2>1, <2>2
<1>8. ~OffBy(history, restarts, i, k) <=>
        \A j \in B : history[j].kind = "stop" =>
          \E l \in B : l > j /\ history[l].kind = "start"
  <2>1. ASSUME OffBy(history, restarts, i, k)
        PROVE  \E j \in B : history[j].kind = "stop" /\
                 ~\E l \in B : l > j /\ history[l].kind = "start"
    <3>1. M # {} /\ history[Max(M)].kind = "stop" /\ Max(M) \in B
      BY <1>2, <1>3, <1>5, <2>1
    <3>2. \A l \in B : history[l].kind = "start" => l \in M
      BY <1>3 DEF Mode
    <3>3. \A x, y \in Nat : x <= y => ~(x > y)
      OBVIOUS
    <3> QED
      BY <1>2, <3>1, <3>2, <3>3
  <2>2. ASSUME ~OffBy(history, restarts, i, k), NEW j \in B, history[j].kind = "stop"
        PROVE  \E l \in B : l > j /\ history[l].kind = "start"
    <3>1. j \in M
      BY <1>3, <2>2 DEF Mode
    <3>2. M # {} /\ Max(M) \in M /\ Max(M) \in Nat /\ j \in Nat /\ j <= Max(M)
      BY <1>2, <3>1
    <3>3. Max(M) \in B /\ history[Max(M)].kind \in {"start", "stop"}
      BY <1>3, <3>2 DEF Mode
    <3>4. history[Max(M)].kind = "start"
      BY <1>5, <2>2, <3>2, <3>3
    <3>5. j # Max(M)
      BY <2>2, <3>4
    <3>6. Max(M) > j
      BY <3>2, <3>5
    <3> QED
      BY <3>3, <3>4, <3>6
  <2> QED
    BY <2>1, <2>2
<1>9. CommandedBy(history, restarts, i) \in Session \cup {NoTarget}
  BY <1>1, <1>2, <1>5
<1>10. \A s \in Session : Texts!Belongs(i, s) <=> CommandedBy(history, restarts, i) = s
  BY <1>5, <1>6, <1>7, <1>8, NoTargetAssumption
<1> QED
  BY <1>9, <1>10, NoTargetAssumption DEF Texts!Unrouted

(* What the promise sees of the event in the hook.                         *)
LEMMA EventTold ==
  ASSUME Inv, pc # "idle"
  PROVE  /\ Texts!now = now /\ now \in 1..now
         /\ Texts!event.kind = event.kind
         /\ IsHistory(history, restarts)
<1>1. IsHistory(history, restarts) /\ now > 0
  BY DEF Inv, Shape
<1>2. now \in 1..now /\ now = Len(history)
  BY <1>1 DEF IsHistory, now
<1>3. Texts!now = now
  BY <1>1, <1>2, HistFacts DEF Texts!now, Hist
<1> QED
  BY <1>1, <1>2, <1>3, HistFacts DEF Texts!event, event, Hist

LEMMA TextsStutter ==
  ASSUME UNCHANGED <<history, restarts, dest, result, inbound>>, Stage' = Stage
  PROVE  UNCHANGED Texts!vars
BY DEF Texts!vars

(* An event that comes in is dispatched.                                   *)
LEMMA ArriveDispatches ==
  ASSUME Inv, NEW k \in Surface, NEW kind \in Kinds, NEW s \in Session \cup {NoTarget},
         Arrive(k, kind, s)
  PROVE  Texts!Dispatch
<1> DEFINE e == [surface |-> k, kind |-> kind, session |-> s,
                 answer |-> "none", cached |-> client]
           t == [surface |-> k, kind |-> kind, session |-> s, answer |-> "none"]
<1>1. /\ pc = "idle" /\ pc' = "client" /\ history' = Append(history, e)
      /\ UNCHANGED <<restarts, dest, result, inbound>>
  BY DEF Arrive
<1>2. history \in Seq(Entry) /\ Len(history) \in Nat /\ IsHistory(history, restarts)
  BY DEF Inv, Shape, IsHistory
<1>3. e \in Entry
  BY DEF Inv, TypeOK, Entry
<1>4. Told(e) = t
  BY DEF Told
<1> HIDE DEF e, t
<1>5. /\ DOMAIN history' = 1..(Len(history) + 1) /\ history'[Len(history) + 1] = e
      /\ \A j \in 1..Len(history) : history'[j] = history[j]
      /\ DOMAIN history = 1..Len(history)
  BY <1>1, <1>2, <1>3
<1>6. Hist' = [j \in 1..(Len(history) + 1) |->
                 IF j = Len(history) + 1 THEN t ELSE Hist[j]]
  BY <1>2, <1>4, <1>5 DEF Hist
<1>7. Hist \in Seq(Line) /\ Len(Hist) = Len(history)
  BY <1>2, HistFacts
<1>8. Hist' = Append(Hist, t)
  <2>1. t \in Line
    BY DEF t, Line
  <2>2. Append(Hist, t) = [j \in 1..(Len(Hist) + 1) |->
                             IF j = Len(Hist) + 1 THEN t ELSE Hist[j]]
    <3> DEFINE a == Append(Hist, t)
    <3>1. /\ a \in Seq(Line) /\ Len(a) = Len(Hist) + 1
          /\ \A j \in 1..(Len(Hist) + 1) :
               a[j] = IF j = Len(Hist) + 1 THEN t ELSE Hist[j]
      BY <1>7, <2>1
    <3> HIDE DEF a
    <3>2. a = [j \in 1..(Len(Hist) + 1) |-> a[j]]
      BY <3>1
    <3> QED
      BY <3>1, <3>2 DEF a
  <2> QED
    BY <1>6, <1>7, <2>2
<1>9. Stage = "free" /\ Stage' = "decide"
  BY <1>1 DEF Stage
<1>10. kind \in Texts!Kinds
  BY DEF Texts!Kinds, Texts!Commands, Kinds, ControlKinds
<1> QED
  BY <1>1, <1>8, <1>9, <1>10 DEF Texts!Dispatch, Hist, t

(* A decision settles the event, or finds the session it goes to.          *)
LEMMA DecideSettles ==
  ASSUME Inv, Decide
  PROVE  Texts!Settle \/ \E s \in Session : Texts!Route(s)
<1>1. /\ pc = "decide" /\ UNCHANGED <<history, restarts, inbound>>
      /\ ApplyControl \/ PassThrough \/ DropInvalid \/ RouteText
  BY DEF Decide
<1>2. /\ Texts!now = now /\ Texts!event.kind = event.kind
      /\ CommandedBy(history, restarts, now) \in Session \cup {NoTarget}
      /\ Texts!Unrouted(now) <=> CommandedBy(history, restarts, now) = NoTarget
      /\ \A s \in Session : Texts!Belongs(now, s) <=> CommandedBy(history, restarts, now) = s
  BY <1>1, EventTold, BelongsIsCommanded
<1>3. GetTarget(routing, event.surface) = CommandedBy(history, restarts, now)
  BY <1>1, TargetIsCommanded
<1>4. Stage = "decide"
  BY <1>1 DEF Stage
<1>5. UNCHANGED Hist
  BY <1>1 DEF Hist
<1>6. CASE ApplyControl
  BY <1>1, <1>2, <1>4, <1>5, <1>6
     DEF ApplyControl, Answer, Stage, Texts!Settle, Texts!Commands, ControlKinds, Hist
<1>7. CASE PassThrough
  BY <1>1, <1>2, <1>3, <1>4, <1>5, <1>7
     DEF PassThrough, Answer, Stage, Texts!Settle, Hist
<1>8. CASE DropInvalid
  BY <1>1, <1>2, <1>3, <1>4, <1>5, <1>8
     DEF DropInvalid, Answer, Stage, Texts!Settle, Hist
<1>9. CASE RouteText
  <2>1. /\ event.kind = "text" /\ pc' \in {"xadd", "connect"} /\ UNCHANGED result
        /\ dest' \in Session /\ dest' = CommandedBy(history, restarts, now)
    BY <1>2, <1>3, <1>9 DEF RouteText
  <2>2. Stage' = "deliver"
    BY <2>1 DEF Stage
  <2>3. Texts!Route(dest')
    BY <1>1, <1>2, <1>4, <1>5, <2>1, <2>2 DEF Texts!Route, Hist
  <2> QED
    BY <2>1, <2>3
<1> QED
  BY <1>1, <1>6, <1>7, <1>8, <1>9

(* Nothing is delivered of a text that finds no connection.                *)
LEMMA DropDelivers ==
  ASSUME Inv, pc \in {"connect", "xadd"}, pc' = "relay", result' = "dropped",
         UNCHANGED <<history, restarts, dest, inbound>>
  PROVE  Texts!Deliver(0)
<1>1. dest \in Session /\ inbound \in [Session -> Seq(1..MaxEvents)]
  BY DEF Inv, TypeOK, Progress
<1>2. [j \in 1..0 |-> now] = << >>
  OBVIOUS
<1>3. inbound' = [inbound EXCEPT ![dest] = @ \o [j \in 1..0 |-> now]]
  BY <1>1, <1>2
<1>4. Stage = "deliver" /\ Stage' = "answer" /\ Texts!now = now
  BY EventTold DEF Stage
<1>5. UNCHANGED Hist
  BY DEF Hist
<1> QED
  BY <1>3, <1>4, <1>5 DEF Texts!Deliver, Hist

(* An XADD delivers as many copies as it leaves in the stream.             *)
LEMMA XaddIsDelivery ==
  ASSUME Inv, XaddSucceeds \/ XaddAnswerLost
  PROVE  \E copies \in 0..2 : Texts!Deliver(copies)
<1>1. PICK copies \in 0..2 : /\ Deliver(copies)
                             /\ result' = "dropped" \/ (copies > 0 /\ result' = "routed")
  <2>1. 1 \in 0..2 /\ 2 \in 0..2 /\ 1 > 0 /\ 2 > 0
    OBVIOUS
  <2>2. CASE XaddSucceeds
    BY <2>1, <2>2 DEF XaddSucceeds, Answer
  <2>3. CASE XaddAnswerLost
    BY <2>1, <2>3 DEF XaddAnswerLost, Answer
  <2> QED
    BY <2>2, <2>3
<1>2. pc = "xadd" /\ pc' = "relay" /\ UNCHANGED <<history, restarts, dest>>
  BY DEF XaddSucceeds, XaddAnswerLost, Answer
<1>3. Stage = "deliver" /\ Stage' = "answer" /\ Texts!now = now
  BY <1>2, EventTold DEF Stage
<1>4. UNCHANGED Hist
  BY <1>2 DEF Hist
<1>5. Texts!Deliver(copies)
  BY <1>1, <1>2, <1>3, <1>4 DEF Deliver, Texts!Deliver, Hist
<1> QED
  BY <1>5

(* The end of the call is the answer.                                      *)
LEMMA ReturnAnswers ==
  ASSUME Inv, RelayNotNeeded \/ StartRelay
  PROVE  Texts!Answer
<1>1. /\ pc = "relay" /\ Return /\ UNCHANGED <<restarts, inbound>>
  BY DEF RelayNotNeeded, StartRelay
<1>2. /\ history' = [history EXCEPT ![now].answer = result]
      /\ pc' = "idle" /\ dest' = NoTarget /\ result' = "llm"
  BY <1>1 DEF Return
<1>3. /\ history \in Seq(Entry) /\ Len(history) \in Nat /\ now = Len(history)
      /\ now \in 1..Len(history) /\ Texts!now = now
  BY <1>1, EventTold DEF Inv, Shape, IsHistory, now
<1>4. Stage = "answer" /\ Stage' = "free"
  BY <1>1, <1>2 DEF Stage
<1>5. Hist' = [Hist EXCEPT ![now].answer = result]
  <2>1. /\ DOMAIN history' = 1..Len(history) /\ DOMAIN history = 1..Len(history)
        /\ \A j \in 1..Len(history) : j # now => history'[j] = history[j]
        /\ history'[now] = [history[now] EXCEPT !.answer = result]
    BY <1>2, <1>3
  <2>2. Told(history'[now]) = [Told(history[now]) EXCEPT !.answer = result]
    <3>1. history[now] \in Entry
      BY <1>3
    <3> QED
      BY <2>1, <3>1 DEF Told, Entry
  <2> QED
    BY <1>3, <2>1, <2>2 DEF Hist
<1> QED
  BY <1>1, <1>2, <1>3, <1>4, <1>5 DEF Texts!Answer, Hist

(* The hook starts where the promise starts.                               *)
LEMMA TextsInit == Init => Texts!Init
<1> SUFFICES ASSUME Init PROVE Texts!Init
  OBVIOUS
<1>1. history = << >> /\ DOMAIN history = {}
  BY DEF Init
<1>2. Hist = << >>
  BY <1>1 DEF Hist
<1> QED
  BY <1>2 DEF Init, Texts!Init, Stage, Hist

(* Every step of the hook is a step of the promise or leaves it alone.     *)
LEMMA TextsStep == Inv /\ [Next]_vars => [Texts!Next]_Texts!vars
<1> SUFFICES ASSUME Inv, [Next]_vars PROVE Texts!Next \/ UNCHANGED Texts!vars
  OBVIOUS
<1>1. ASSUME NEW k \in Surface, NEW kind \in Kinds, NEW s \in Session \cup {NoTarget},
             Arrive(k, kind, s)
      PROVE  Texts!Next
  BY <1>1, ArriveDispatches DEF Texts!Next
<1>2. CASE GetClient \/ RedisChanges \/ ListCommand \/ UNCHANGED vars
  <2>1. UNCHANGED <<history, restarts, dest, result, inbound>>
    BY <1>2 DEF GetClient, RedisChanges, ListCommand, vars, call
  <2>2. Stage' = Stage
    BY <1>2 DEF GetClient, RedisChanges, ListCommand, vars, call, Stage
  <2> QED
    BY <2>1, <2>2, TextsStutter
<1>3. CASE Decide
  BY <1>3, DecideSettles DEF Texts!Next
<1>4. CASE RouterConnects
  <2>1. /\ pc = "connect" /\ UNCHANGED <<history, restarts, dest, inbound>>
        /\ \/ pc' = "xadd" /\ UNCHANGED result
           \/ pc' = "relay" /\ result' = "dropped"
    BY <1>4 DEF RouterConnects, Answer
  <2>2. CASE pc' = "xadd" /\ UNCHANGED result
    <3>1. Stage' = Stage
      BY <2>1, <2>2 DEF Stage
    <3> QED
      BY <2>1, <2>2, <3>1, TextsStutter
  <2>3. CASE pc' = "relay" /\ result' = "dropped"
    BY <2>1, <2>3, DropDelivers DEF Texts!Next
  <2> QED
    BY <2>1, <2>2, <2>3
<1>5. CASE XaddRefused
  <2>1. /\ pc = "xadd" /\ pc' = "relay" /\ result' = "dropped"
        /\ UNCHANGED <<history, restarts, dest, inbound>>
    BY <1>5 DEF XaddRefused, Answer
  <2> QED
    BY <2>1, DropDelivers DEF Texts!Next
<1>6. CASE XaddSucceeds \/ XaddAnswerLost
  BY <1>6, XaddIsDelivery DEF Texts!Next
<1>7. CASE RelayNotNeeded \/ StartRelay
  BY <1>7, ReturnAnswers DEF Texts!Next
<1>8. CASE Restart
  <2>1. /\ restarts' = restarts \cup {now + 1}
        /\ pc' = "idle" /\ dest' = NoTarget /\ result' = "llm"
        /\ UNCHANGED <<history, inbound>>
    BY <1>8 DEF Restart
  <2>2. Texts!now = now /\ Stage' = "free" /\ UNCHANGED Hist
    BY <2>1, HistFacts DEF Inv, Shape, Texts!now, now, Hist, Stage
  <2> QED
    BY <2>1, <2>2 DEF Texts!Next, Texts!Forget, Hist
<1> QED
  BY <1>1, <1>2, <1>3, <1>4, <1>5, <1>6, <1>7, <1>8 DEF Next, HookStep

(* With its cached client, its outages, its lost answers and its restarts  *)
(* the hook keeps the promise of TextRouting: each text is decided once,   *)
(* by the commands of its surface that are there then, and delivered       *)
(* before its answer and never after (__init__.py:80-94,                   *)
(* router.py:174-257).                                                     *)
THEOREM RoutingRefinement == Spec => ImplementsRouting
BY TextsInit, TextsStep, HookInvariance, PTL DEF Spec, ImplementsRouting, Texts!Spec
=============================================================================
