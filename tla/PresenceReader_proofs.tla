------------------------ MODULE PresenceReader_proofs ------------------------
(***************************************************************************)
(* The list of live sessions is right for any number of sessions and any   *)
(* heartbeat lifetime: sessions that beat throughout a call are on it, and *)
(* only sessions that beat lately are.                                     *)
(***************************************************************************)
EXTENDS PresenceReader, TLAPS

(* A key outlives its last beat by no more than the heartbeat's lifetime.  *)
KeysAreRecent == \A s \in Session : ttl[s] > 0 => ttl[s] + silence[s] <= BeatTtl

(* During a call, whoever beats is among those that beat lately.           *)
BeatingIsLately == phase \in {"scan", "ttl"} => Beating \subseteq lately

(* Between EXISTS and TTL the reader holds one entry it found live.        *)
CurIsLive == phase = "ttl" => /\ cur \in Session
                              /\ fields[cur] = "valid"
                              /\ cur \in lately

(* A steady session beats, and is on the list or still to be looked at.    *)
SteadyBeats == steady \subseteq Beating
SteadyIsHandled ==
  /\ phase \in {"scan", "ttl"} => \A s \in steady : fields[s] = "valid" \/ s \in Names
  /\ phase = "done" => steady \subseteq Names

Inv ==
  /\ TypeOK
  /\ KeysAreRecent /\ BeatingIsLately /\ CurIsLive
  /\ SteadyBeats /\ SteadyIsHandled
  /\ ListedWasLive

(* Before the first call there is neither a key nor a list.                *)
LEMMA InitInv == Init => Inv
<1> SUFFICES ASSUME Init PROVE Inv
  OBVIOUS
<1>1. TypeOK
  BY BeatTtlAssumption DEF Init, TypeOK, NoFields
<1>2. Names = {} /\ steady = {} /\ phase = "idle" /\ \A s \in Session : ttl[s] = 0
  BY DEF Init, Names
<1> QED
  BY <1>1, <1>2 DEF Inv, KeysAreRecent, BeatingIsLately, CurIsLive, SteadyBeats,
    SteadyIsHandled, ListedWasLive

(* A step of a session or of the clock preserves the invariant.            *)
LEMMA SessionKeeps ==
  ASSUME Inv, SessionStep
  PROVE  Inv'
<1>0. UNCHANGED readerVars /\ Names' = Names
  BY DEF SessionStep, Tick, Registers, Beats, Unbeats, Unregisters, Dies, readerVars, Names
<1>1. ASSUME Tick PROVE Inv'
  <2>1. TypeOK'
    <3>1. ttl' \in [Session -> 0..BeatTtl] /\ silence' \in [Session -> 0..BeatTtl]
      BY <1>1, BeatTtlAssumption DEF Tick, Inv, TypeOK
    <3>2. steady' \subseteq Session /\ UNCHANGED <<session, registry, lately>>
      BY <1>1 DEF Tick, Inv, TypeOK
    <3> QED
      BY <1>0, <3>1, <3>2 DEF Inv, TypeOK, readerVars
  <2>2. KeysAreRecent'
    BY <1>1, BeatTtlAssumption DEF Tick, Inv, TypeOK, KeysAreRecent
  <2>3. Beating' \subseteq Beating
    BY <1>1, BeatTtlAssumption DEF Tick, Inv, TypeOK, Beating
  <2>4. steady' \subseteq Beating' /\ steady' \subseteq steady /\ lately' = lately
    BY <1>1 DEF Tick, Beating, Inv, TypeOK
  <2> QED
    BY <1>0, <2>1, <2>2, <2>3, <2>4 DEF Inv, BeatingIsLately, CurIsLive, SteadyBeats,
      SteadyIsHandled, ListedWasLive, readerVars
<1>2. ASSUME NEW s \in Session, Registers(s) \/ Unregisters(s) \/ Dies(s) PROVE Inv'
  <2>1. UNCHANGED <<ttl, silence, steady, lately>>
    BY <1>2 DEF Registers, Unregisters, Dies
  <2>2. /\ session' \in [Session -> {"down", "up", "leaving"}]
        /\ registry' \in [Session -> {"none", "valid", "malformed"}]
    BY <1>2 DEF Registers, Unregisters, Dies, Inv, TypeOK
  <2> QED
    BY <1>0, <2>1, <2>2 DEF Inv, TypeOK, KeysAreRecent, BeatingIsLately, CurIsLive, SteadyBeats,
      SteadyIsHandled, ListedWasLive, Beating, readerVars
<1>3. ASSUME NEW s \in Session, Beats(s) PROVE Inv'
  <2>1. TypeOK'
    BY <1>0, <1>3, BeatTtlAssumption DEF Beats, Inv, TypeOK, readerVars
  <2>2. KeysAreRecent'
    BY <1>3, BeatTtlAssumption DEF Beats, Inv, TypeOK, KeysAreRecent
  <2>3. Beating' = Beating \cup {s} /\ lately' = lately \cup {s} /\ steady' = steady
    BY <1>3, BeatTtlAssumption DEF Beats, Inv, TypeOK, Beating
  <2> QED
    BY <1>0, <2>1, <2>2, <2>3 DEF Inv, BeatingIsLately, CurIsLive, SteadyBeats,
      SteadyIsHandled, ListedWasLive, readerVars
<1>4. ASSUME NEW s \in Session, Unbeats(s) PROVE Inv'
  <2>1. TypeOK'
    BY <1>0, <1>4, BeatTtlAssumption DEF Unbeats, Inv, TypeOK, readerVars
  <2>2. KeysAreRecent'
    BY <1>4, BeatTtlAssumption DEF Unbeats, Inv, TypeOK, KeysAreRecent
  <2>3. Beating' = Beating \ {s} /\ lately' = lately /\ steady' = steady \ {s}
    BY <1>4, BeatTtlAssumption DEF Unbeats, Inv, TypeOK, Beating
  <2> QED
    BY <1>0, <2>1, <2>2, <2>3 DEF Inv, BeatingIsLately, CurIsLive, SteadyBeats,
      SteadyIsHandled, ListedWasLive, readerVars
<1> QED
  BY <1>1, <1>2, <1>3, <1>4 DEF SessionStep

(* A step of the reader preserves the invariant.                           *)
LEMMA ReaderKeeps ==
  ASSUME Inv, ReaderStep
  PROVE  Inv'
<1>0. UNCHANGED sessionVars /\ Beating' = Beating /\ KeysAreRecent'
  BY DEF ReaderStep, HgetAll, Project, Returns, Raises, SkipMalformed, SkipStale, Keep,
    sessionVars, Beating, KeysAreRecent, Inv
<1>1. CASE HgetAll
  <2>1. TypeOK' /\ Names' = {} /\ phase' = "scan"
    BY <1>0, <1>1 DEF HgetAll, Inv, TypeOK, sessionVars, Names, Beating
  <2>2. Beating' \subseteq lately'
    BY <1>0, <1>1, BeatTtlAssumption DEF HgetAll, Inv, TypeOK, KeysAreRecent, Beating
  <2>3. steady' \subseteq Beating' /\ \A s \in steady' : fields'[s] = "valid"
    BY <1>0, <1>1 DEF HgetAll
  <2> QED
    BY <1>0, <2>1, <2>2, <2>3 DEF Inv, BeatingIsLately, CurIsLive, SteadyBeats,
      SteadyIsHandled, ListedWasLive
<1>2. ASSUME NEW s \in Session, SkipMalformed(s) \/ SkipStale(s) PROVE Inv'
  <2>1. /\ phase = "scan" /\ fields' = [fields EXCEPT ![s] = "none"]
        /\ UNCHANGED <<phase, cur, listed, steady, lately>>
        /\ s \notin steady \/ fields[s] = "malformed"
    BY <1>2 DEF SkipMalformed, SkipStale, Handled, Inv, SteadyBeats
  <2>2. TypeOK' /\ Names' = Names
    BY <1>0, <2>1 DEF Inv, TypeOK, sessionVars, Names
  <2>3. \A x \in steady' : fields'[x] = "valid" \/ x \in Names'
    BY <2>1, <2>2 DEF Inv, TypeOK, SteadyIsHandled
  <2> QED
    BY <1>0, <2>1, <2>2, <2>3 DEF Inv, BeatingIsLately, CurIsLive, SteadyBeats,
      SteadyIsHandled, ListedWasLive
<1>3. ASSUME NEW s \in Session, Keep(s) PROVE Inv'
  <2>1. TypeOK' /\ Names' = Names
    BY <1>0, <1>3 DEF Keep, Inv, TypeOK, sessionVars, Names
  <2>2. s \in lately
    BY <1>3 DEF Keep, Inv, BeatingIsLately
  <2> QED
    BY <1>0, <1>3, <2>1, <2>2 DEF Keep, Inv, BeatingIsLately, CurIsLive, SteadyBeats,
      SteadyIsHandled, ListedWasLive
<1>4. CASE Project
  <2> PICK t \in TtlAnswers(cur) : listed' = listed \cup {[name |-> cur, age |-> Age(t)]}
    BY <1>4 DEF Project
  <2> DEFINE e == [name |-> cur, age |-> Age(t)]
  <2>1. cur \in Session /\ cur \in lately
    BY <1>4 DEF Project, Inv, CurIsLive
  <2>2. Age(t) \in {NoAge} \cup 0..BeatTtl
    BY <2>1, BeatTtlAssumption DEF Inv, TypeOK, Age, TtlAnswers, NoAge
  <2>3. listed' = listed \cup {e} /\ e.name = cur
    OBVIOUS
  <2>4. Names' = Names \cup {cur}
    BY <2>3 DEF Names
  <2>5. e \in [name : Session, age : {NoAge} \cup 0..BeatTtl]
    BY <2>1, <2>2
  <2>6. TypeOK'
    BY <1>0, <1>4, <2>3, <2>5 DEF Project, Handled, Inv, TypeOK, sessionVars
  <2>7. \A x \in steady' : fields'[x] = "valid" \/ x \in Names'
    BY <1>4, <2>4 DEF Project, Handled, Inv, TypeOK, SteadyIsHandled
  <2> QED
    BY <1>0, <1>4, <2>1, <2>4, <2>6, <2>7 DEF Project, Inv, BeatingIsLately, CurIsLive,
      SteadyBeats, SteadyIsHandled, ListedWasLive
<1>5. CASE Returns
  <2>1. TypeOK' /\ Names' = Names
    BY <1>0, <1>5 DEF Returns, Inv, TypeOK, sessionVars, Names
  <2>2. \A s \in steady : fields[s] # "valid"
    BY <1>5 DEF Returns, NoFields, Inv, TypeOK
  <2> QED
    BY <1>0, <1>5, <2>1, <2>2 DEF Returns, Inv, BeatingIsLately, CurIsLive, SteadyBeats,
      SteadyIsHandled, ListedWasLive
<1>6. CASE Raises
  <2>1. TypeOK' /\ Names' = {} /\ phase' = "idle"
    BY <1>0, <1>6 DEF Raises, Inv, TypeOK, sessionVars, Names, NoFields
  <2> QED
    BY <1>0, <1>6, <2>1 DEF Raises, Inv, BeatingIsLately, CurIsLive, SteadyBeats,
      SteadyIsHandled, ListedWasLive
<1> QED
  BY <1>1, <1>2, <1>3, <1>4, <1>5, <1>6 DEF ReaderStep

(* The invariant holds in every reachable state.                           *)
THEOREM PresenceInvariance == Spec => []Inv
<1>1. Inv /\ [Next]_vars => Inv'
  <2> SUFFICES ASSUME Inv, [Next]_vars PROVE Inv'
    OBVIOUS
  <2>1. CASE UNCHANGED vars
    BY <2>1 DEF vars, sessionVars, readerVars, Inv, TypeOK, KeysAreRecent, BeatingIsLately,
      CurIsLive, SteadyBeats, SteadyIsHandled, ListedWasLive, Beating, Names
  <2> QED
    BY <2>1, SessionKeeps, ReaderKeeps DEF Next
<1> QED
  BY InitInv, <1>1, PTL DEF Spec

(* A validly registered session that beats throughout a call is listed     *)
(* (registry_reader.py:109-118).                                           *)
THEOREM LiveIsListed == Spec => []ListsTheLive
<1>1. Inv => ListsTheLive
  BY DEF Inv, SteadyIsHandled, ListsTheLive
<1> QED
  BY PresenceInvariance, <1>1, PTL

(* A listed session has beaten within a heartbeat's lifetime of the call   *)
(* or during it (registry_reader.py:115).                                  *)
THEOREM ListedIsRecent == Spec => []ListedWasLive
<1>1. Inv => ListedWasLive
  BY DEF Inv
<1> QED
  BY PresenceInvariance, <1>1, PTL

(* A living key and the silence of its session add up to the lifetime.     *)
CountdownAgrees == \A s \in Session : ttl[s] > 0 => silence[s] = BeatTtl - ttl[s]

LEMMA CountdownStep ==
  ASSUME Inv, CountdownAgrees, [Next]_vars
  PROVE  CountdownAgrees'
<1> USE DEF CountdownAgrees, Inv, TypeOK
<1>1. CASE Tick
  BY <1>1, BeatTtlAssumption DEF Tick
<1>2. ASSUME NEW s \in Session, Beats(s) PROVE CountdownAgrees'
  BY <1>2, BeatTtlAssumption DEF Beats
<1>3. ASSUME NEW s \in Session, Unbeats(s) PROVE CountdownAgrees'
  BY <1>3 DEF Unbeats
<1>4. CASE UNCHANGED <<ttl, silence>>
  BY <1>4
<1>5. ReaderStep => UNCHANGED <<ttl, silence>>
  BY DEF ReaderStep, HgetAll, Project, Returns, Raises, SkipMalformed, SkipStale, Keep,
    sessionVars
<1> QED
  BY <1>1, <1>2, <1>3, <1>4, <1>5
  DEF Next, SessionStep, Registers, Unregisters, Dies, vars, sessionVars

(* Only Project adds to the list, and it reads the countdown of the entry. *)
LEMMA AgesShown ==
  ASSUME Inv, CountdownAgrees, [Next]_vars
  PROVE  \A e \in listed' \ listed :
           IF ttl[e.name] = 0 THEN e.age = NoAge
           ELSE e.age \in {silence[e.name], silence[e.name] + 1}
<1>1. CASE Project
  <2>1. cur \in Session
    BY <1>1 DEF Project, Inv, CurIsLive
  <2>2. PICK t \in TtlAnswers(cur) : listed' = listed \cup {[name |-> cur, age |-> Age(t)]}
    BY <1>1 DEF Project
  <2>3. ttl[cur] \in 0..BeatTtl
    BY <2>1 DEF Inv, TypeOK
  <2>4. CASE ttl[cur] = 0
    <3>1. Age(t) = NoAge
      BY <2>4 DEF Age, TtlAnswers
    <3> QED
      BY <2>2, <2>4, <3>1
  <2>5. CASE ttl[cur] > 0
    <3>1. silence[cur] = BeatTtl - ttl[cur]
      BY <2>1, <2>5 DEF CountdownAgrees
    <3>2. Age(t) \in {silence[cur], silence[cur] + 1}
      BY <2>3, <2>5, <3>1, BeatTtlAssumption DEF Age, TtlAnswers
    <3> QED
      BY <2>2, <2>5, <3>2
  <2> QED
    BY <2>3, <2>4, <2>5, BeatTtlAssumption
<1>2. CASE listed' \subseteq listed
  BY <1>2
<1>3. SessionStep \/ UNCHANGED vars => listed' = listed
  BY DEF SessionStep, Tick, Registers, Beats, Unbeats, Unregisters, Dies, readerVars, vars
<1>4. ReaderStep => Project \/ listed' \subseteq listed
  BY DEF ReaderStep, HgetAll, Returns, Raises, SkipMalformed, SkipStale, Keep
<1> QED
  BY <1>1, <1>2, <1>3, <1>4 DEF Next

(* A session is listed with the time since its last beat, to the tick, and *)
(* with none only when its key ended between EXISTS and TTL                *)
(* (registry_reader.py:53-64).                                             *)
THEOREM AgesAreTrue == Spec => ShownAgeIsTrue
<1>1. Init => CountdownAgrees
  BY DEF Init, CountdownAgrees
<1> QED
  BY <1>1, CountdownStep, AgesShown, PresenceInvariance, PTL DEF Spec, ShownAgeIsTrue

(* Every variable holds a value of its kind.                               *)
THEOREM PresenceTypes == Spec => []TypeOK
<1>1. Inv => TypeOK
  BY DEF Inv
<1> QED
  BY PresenceInvariance, <1>1, PTL
=============================================================================
