------------------------ MODULE RelayLifecycle_proofs ------------------------
(***************************************************************************)
(* However start, stop and the threads interleave, every live thread but   *)
(* the one the relay object knows is accounted for by a join that timed    *)
(* out, for any number of threads.                                         *)
(***************************************************************************)
EXTENDS RelayLifecycle, FiniteSetTheorems, TLAPS

(* The live threads the object has lost sight of.                          *)
LeftOver == Living \ {handle}

Inv == TypeOK /\ ThreadsAccountedFor

(* Threads are finitely many, so each set of them has a cardinality.       *)
LEMMA LeftOverFinite ==
  /\ IsFiniteSet(Living)
  /\ IsFiniteSet(LeftOver)
  /\ Cardinality(LeftOver) \in Nat
<1>1. IsFiniteSet(Thread)
  BY FS_Interval, MaxThreadsAssumption DEF Thread
<1>2. Living \subseteq Thread /\ LeftOver \subseteq Thread
  BY DEF Living, LeftOver
<1> QED
  BY <1>1, <1>2, FS_Subset, FS_CardinalityType

(* At first there is no thread.                                            *)
LEMMA InitInv == Init => Inv
<1> SUFFICES ASSUME Init PROVE Inv
  OBVIOUS
<1>1. TypeOK
  <2>1. handle \notin NeverStarted
    BY MaxThreadsAssumption DEF Init, NoThread, NeverStarted, Thread
  <2>2. caller = "idle" /\ thread \in [Thread -> {"new"}]
    BY DEF Init
  <2> QED
    BY <2>1, <2>2 DEF Init, TypeOK
<1>2. Living \ {handle} = {}
  BY DEF Init, Living, Alive
<1>3. Cardinality(Living \ {handle}) = 0 /\ gaveUp = 0
  BY <1>2, FS_EmptySet DEF Init
<1> QED
  BY <1>1, <1>2, <1>3 DEF Inv, ThreadsAccountedFor

(* A step of a thread makes no thread live and touches nothing else.       *)
LEMMA ThreadStepKeeps ==
  ASSUME Inv, NEW t \in Thread, ThreadStep(t)
  PROVE  Inv'
<1>1. /\ thread[t] \in {"check", "poll", "wait"}
      /\ \E to \in {"check", "poll", "wait", "dead"} : thread' = [thread EXCEPT ![t] = to]
      /\ UNCHANGED <<handle, stopSet, caller, told, gaveUp>>
  BY DEF ThreadStep, SeesStop, Polls, PollEnds, WaitEnds, Goes
<1>2. Living' \subseteq Living /\ NeverStarted' = NeverStarted
  BY <1>1 DEF Inv, TypeOK, Living, Alive, NeverStarted
<1>3. TypeOK'
  BY <1>1, <1>2 DEF Inv, TypeOK
<1>4. LeftOver' \subseteq LeftOver
  BY <1>1, <1>2 DEF LeftOver
<1>5. Cardinality(LeftOver') <= Cardinality(LeftOver) /\ Cardinality(LeftOver') \in Nat
  BY <1>4, LeftOverFinite, FS_Subset, FS_CardinalityType
<1> QED
  BY <1>1, <1>3, <1>4, <1>5, LeftOverFinite DEF Inv, TypeOK, ThreadsAccountedFor, LeftOver

(* start and stop: only a join that times out adds a left-over thread.     *)
LEMMA CallerKeeps ==
  ASSUME Inv, StartClears \/ StartSpawns \/ StopSignals \/ JoinEnds
  PROVE  Inv'
<1>1. CASE StartClears
  <2>1. Living' = Living /\ NeverStarted' = NeverStarted
    BY <1>1 DEF StartClears, Living, Alive, NeverStarted
  <2> QED
    BY <1>1, <2>1 DEF StartClears, Inv, TypeOK, ThreadsAccountedFor
<1>2. CASE StartSpawns
  <2>1. PICK t \in NeverStarted : thread' = [thread EXCEPT ![t] = "check"] /\ handle' = t
    BY <1>2 DEF StartSpawns
  <2>2. t \in Thread /\ t \notin Living
    BY <2>1 DEF NeverStarted, Living, Alive
  <2>3. Living' = Living \cup {t} /\ NeverStarted' = NeverStarted \ {t}
    BY <2>1, <2>2 DEF Inv, TypeOK, Living, Alive, NeverStarted
  <2>4. handle \notin Living
    BY <1>2 DEF StartSpawns, Inv, TypeOK
  <2>5. Living' \ {handle'} = Living \ {handle}
    BY <2>1, <2>2, <2>3, <2>4
  <2>6. TypeOK'
    BY <1>2, <2>1, <2>2, <2>3 DEF StartSpawns, Inv, TypeOK
  <2> QED
    BY <1>2, <2>5, <2>6 DEF StartSpawns, Inv, ThreadsAccountedFor
<1>3. CASE StopSignals
  <2>1. Living' = Living /\ NeverStarted' = NeverStarted /\ Living \subseteq Thread
    BY <1>3 DEF StopSignals, Living, Alive, NeverStarted
  <2> QED
    BY <1>3, <2>1 DEF StopSignals, Inv, TypeOK, ThreadsAccountedFor
<1>4. CASE JoinEnds
  <2>1. Living' = Living /\ NeverStarted' = NeverStarted
    BY <1>4 DEF JoinEnds, Living, Alive, NeverStarted
  <2>2. NoThread \notin Living /\ NoThread \notin NeverStarted
    BY MaxThreadsAssumption DEF NoThread, Living, NeverStarted, Thread
  <2>3. TypeOK'
    BY <1>4, <2>1, <2>2 DEF JoinEnds, Inv, TypeOK
  <2>4. Living' \ {handle'} = Living
    BY <1>4, <2>1, <2>2 DEF JoinEnds
  <2>5. CASE handle \in Living
    <3>1. Living = LeftOver \cup {handle} /\ handle \notin LeftOver
      BY <2>5 DEF LeftOver
    <3>2. Cardinality(Living) = Cardinality(LeftOver) + 1
      BY <3>1, LeftOverFinite, FS_AddElement
    <3>3. Living \subseteq told
      BY <1>4, <2>5 DEF JoinEnds, Inv, TypeOK, ThreadsAccountedFor
    <3> QED
      BY <1>4, <2>3, <2>4, <2>5, <3>2, <3>3, LeftOverFinite
      DEF JoinEnds, Inv, TypeOK, ThreadsAccountedFor, LeftOver
  <2>6. CASE handle \notin Living
    <3>1. Living = Living \ {handle}
      BY <2>6
    <3> QED
      BY <1>4, <2>3, <2>4, <2>6, <3>1 DEF JoinEnds, Inv, ThreadsAccountedFor
  <2> QED
    BY <2>5, <2>6
<1> QED
  BY <1>1, <1>2, <1>3, <1>4

(* The invariant holds in every reachable state.                           *)
THEOREM LifecycleInvariance == Spec => []Inv
<1>1. Inv /\ [Next]_vars => Inv'
  <2> SUFFICES ASSUME Inv, [Next]_vars PROVE Inv'
    OBVIOUS
  <2>1. CASE StartClears \/ StartSpawns \/ StopSignals \/ JoinEnds
    BY <2>1, CallerKeeps
  <2>2. CASE \E t \in Thread : ThreadStep(t)
    BY <2>2, ThreadStepKeeps
  <2>3. CASE UNCHANGED vars
    <3>1. Living' = Living /\ NeverStarted' = NeverStarted
      BY <2>3 DEF vars, Living, Alive, NeverStarted
    <3> QED
      BY <2>3, <3>1 DEF vars, Inv, TypeOK, ThreadsAccountedFor
  <2> QED
    BY <2>1, <2>2, <2>3 DEF Next
<1> QED
  BY InitInv, <1>1, PTL DEF Spec

(* A start never adds a thread to a live one the object knows, and only    *)
(* threads that were asked to stop are ever left over (outbound.py:127).   *)
THEOREM NoStrayThreads == Spec => []ThreadsAccountedFor
<1>1. Inv => ThreadsAccountedFor
  BY DEF Inv
<1> QED
  BY LifecycleInvariance, <1>1, PTL

(* Why no thread ends unasked: while the event is set every live thread    *)
(* has been asked, and between clearing it and the new thread it is clear. *)
EndsInv ==
  /\ OnlyToldThreadsEnd
  /\ stopSet => Living \subseteq told
  /\ caller = "spawn" => ~stopSet

(* At first no thread lives or has ended.                                  *)
LEMMA InitEnds == Init => EndsInv
  BY DEF Init, EndsInv, OnlyToldThreadsEnd

(* A thread ends at its look at the event, when the event is set.          *)
LEMMA ThreadStepEnds ==
  ASSUME Inv, EndsInv, NEW t \in Thread, ThreadStep(t)
  PROVE  EndsInv'
<1>1. /\ Alive(t) /\ thread \in [Thread -> {"new", "check", "poll", "wait", "dead"}]
      /\ \E to \in {"check", "poll", "wait", "dead"} :
           /\ thread' = [thread EXCEPT ![t] = to]
           /\ to = "dead" => stopSet
      /\ UNCHANGED <<stopSet, caller, told>>
  BY DEF ThreadStep, SeesStop, Polls, PollEnds, WaitEnds, Goes, Alive, Inv, TypeOK
<1>2. Living' \subseteq Living /\ t \in Living
  BY <1>1 DEF Living, Alive
<1>3. OnlyToldThreadsEnd'
  BY <1>1, <1>2 DEF EndsInv, OnlyToldThreadsEnd
<1> QED
  BY <1>1, <1>2, <1>3 DEF EndsInv

(* A stop asks every live thread, a start clears the event first.          *)
LEMMA CallerEnds ==
  ASSUME Inv, EndsInv, StartClears \/ StartSpawns \/ StopSignals \/ JoinEnds
  PROVE  EndsInv'
<1>1. CASE StartClears
  BY <1>1 DEF StartClears, EndsInv, OnlyToldThreadsEnd
<1>2. CASE StartSpawns
  <2>1. PICK t \in NeverStarted : thread' = [thread EXCEPT ![t] = "check"]
    BY <1>2 DEF StartSpawns
  <2>2. ~stopSet' /\ caller' = "idle" /\ told' = told
    BY <1>2 DEF StartSpawns, EndsInv
  <2>3. OnlyToldThreadsEnd'
    BY <2>1, <2>2 DEF EndsInv, OnlyToldThreadsEnd, Inv, TypeOK
  <2> QED
    BY <2>2, <2>3 DEF EndsInv
<1>3. CASE StopSignals \/ JoinEnds
  <2>1. Living' = Living /\ thread' = thread /\ told \subseteq told'
    BY <1>3 DEF StopSignals, JoinEnds, Living, Alive
  <2>2. OnlyToldThreadsEnd'
    BY <2>1 DEF EndsInv, OnlyToldThreadsEnd
  <2> QED
    BY <1>3, <2>1, <2>2 DEF StopSignals, JoinEnds, EndsInv
<1> QED
  BY <1>1, <1>2, <1>3

(* No thread ends because a pass raised, nor from a stop that was meant    *)
(* for an earlier one: start clears the event before it creates a thread   *)
(* (outbound.py:129, 189-193).                                             *)
THEOREM NoThreadEndsUnasked == Spec => []OnlyToldThreadsEnd
<1>1. Inv /\ EndsInv /\ [Next]_vars => EndsInv'
  <2> SUFFICES ASSUME Inv, EndsInv, [Next]_vars PROVE EndsInv'
    OBVIOUS
  <2>1. CASE UNCHANGED vars
    BY <2>1 DEF vars, EndsInv, OnlyToldThreadsEnd, Living, Alive
  <2> QED
    BY <2>1, ThreadStepEnds, CallerEnds DEF Next
<1>2. EndsInv => OnlyToldThreadsEnd
  BY DEF EndsInv
<1> QED
  BY InitEnds, <1>1, <1>2, LifecycleInvariance, PTL DEF Spec

(* Every variable holds a value of its kind.                               *)
THEOREM LifecycleTypes == Spec => []TypeOK
<1>1. Inv => TypeOK
  BY DEF Inv
<1> QED
  BY LifecycleInvariance, <1>1, PTL
=============================================================================
