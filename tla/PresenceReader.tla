--------------------------- MODULE PresenceReader ---------------------------
(***************************************************************************)
(* list_live_sessions (registry_reader.py) over the presence data that the *)
(* sessions keep in Redis: HGETALL of the registry, then EXISTS and TTL of *)
(* a heartbeat key per entry, one command at a time, while sessions come,  *)
(* beat, leave and die.  One tick is a part of the heartbeat's lifetime.   *)
(***************************************************************************)
EXTENDS Integers

CONSTANTS Session,     \* session names
          NoSession,   \* none of them
          BeatTtl      \* HEARTBEAT_TTL_SECONDS, in ticks

ASSUME NoSessionAssumption == NoSession \notin Session
ASSUME BeatTtlAssumption == BeatTtl \in Nat \ {0}

VARIABLES session,    \* what each session is doing
          registry,   \* cc-sessions:registry, by field
          ttl,        \* ticks left to each heartbeat key, 0: no key
          silence,    \* ticks since the session's last beat, at most BeatTtl
          phase,      \* the reader's place in the call
          fields,     \* entries of its HGETALL it has not dealt with
          cur,        \* the entry between EXISTS and TTL
          listed,     \* the list so far
          steady,     \* history: valid and beating ever since the HGETALL
          lately      \* history: beat within BeatTtl of the HGETALL, or since

sessionVars == <<session, registry, ttl, silence>>
readerVars == <<phase, fields, cur, listed>>
vars == <<sessionVars, readerVars, steady, lately>>

NoAge == -1

(* Mutant of Age: the TTL itself is shown.                                 *)
AgeIsTtl(t) == IF t < 0 THEN NoAge ELSE t

(* _last_seen_seconds: what the lifetime leaves, and never less than 0.    *)
Age(t) == IF t < 0 THEN NoAge
          ELSE IF t > BeatTtl THEN 0 ELSE BeatTtl - t

(* TTL answers -2 for a key that does not exist.  It rounds the time that  *)
(* is left, so a key in its last tick may answer 0.  Every session sets    *)
(* its key with the same lifetime, so there is no -1 (a key without one),  *)
(* and no answer above it.                                                 *)
TtlAnswers(s) == IF ttl[s] = 0 THEN {-2} ELSE {ttl[s] - 1, ttl[s]}

Beating == {s \in Session : ttl[s] > 0}
NoFields == [s \in Session |-> "none"]

Init ==
  /\ session = [s \in Session |-> "down"]
  /\ registry = NoFields
  /\ ttl = [s \in Session |-> 0]
  /\ silence = [s \in Session |-> BeatTtl]
  /\ phase = "idle" /\ fields = NoFields /\ cur = NoSession /\ listed = {}
  /\ steady = {} /\ lately = {}

-----------------------------------------------------------------------------
(* The sessions.  A session registers, possibly with an entry this router  *)
(* cannot parse, ...                                                       *)
Registers(s) ==
  /\ session[s] = "down"
  /\ session' = [session EXCEPT ![s] = "up"]
  /\ \E entry \in {"valid", "malformed"} : registry' = [registry EXCEPT ![s] = entry]
  /\ UNCHANGED <<ttl, silence, readerVars, steady, lately>>

(* ... beats, late ones included, ...                                      *)
Beats(s) ==
  /\ session[s] = "up"
  /\ ttl' = [ttl EXCEPT ![s] = BeatTtl]
  /\ silence' = [silence EXCEPT ![s] = 0]
  /\ lately' = lately \cup {s}
  /\ UNCHANGED <<session, registry, readerVars, steady>>

(* ... leaves with two commands, ...                                       *)
Unbeats(s) ==
  /\ session[s] = "up"
  /\ session' = [session EXCEPT ![s] = "leaving"]
  /\ ttl' = [ttl EXCEPT ![s] = 0]
  /\ steady' = steady \ {s}
  /\ UNCHANGED <<registry, silence, readerVars, lately>>

Unregisters(s) ==
  /\ session[s] = "leaving"
  /\ session' = [session EXCEPT ![s] = "down"]
  /\ registry' = [registry EXCEPT ![s] = "none"]
  /\ UNCHANGED <<ttl, silence, readerVars, steady, lately>>

(* ... or dies and leaves its entry and its key behind.                    *)
Dies(s) ==
  /\ session[s] \in {"up", "leaving"}
  /\ session' = [session EXCEPT ![s] = "down"]
  /\ UNCHANGED <<registry, ttl, silence, readerVars, steady, lately>>

(* Redis counts every key down and drops it at the end.                    *)
Tick ==
  /\ ttl' = [s \in Session |-> IF ttl[s] > 0 THEN ttl[s] - 1 ELSE 0]
  /\ silence' = [s \in Session |->
                   IF silence[s] < BeatTtl THEN silence[s] + 1 ELSE BeatTtl]
  /\ steady' = steady \cap {s \in Session : ttl'[s] > 0}
  /\ UNCHANGED <<session, registry, readerVars, lately>>

-----------------------------------------------------------------------------
(* The reader.                                                             *)
HgetAll ==
  /\ phase \in {"idle", "done"}
  /\ phase' = "scan"
  /\ fields' = registry
  /\ listed' = {}
  /\ steady' = {s \in Beating : registry[s] = "valid"}
  /\ lately' = {s \in Session : silence[s] < BeatTtl}
  /\ UNCHANGED <<sessionVars, cur>>

Handled(s) == fields' = [fields EXCEPT ![s] = "none"]

(* Mutant of SkipMalformed: a bad entry ends the list.                     *)
MalformedEndsList(s) ==
  /\ phase = "scan" /\ fields[s] = "malformed"
  /\ fields' = NoFields
  /\ UNCHANGED <<sessionVars, phase, cur, listed, steady, lately>>

SkipMalformed(s) ==
  /\ phase = "scan" /\ fields[s] = "malformed"
  /\ Handled(s)
  /\ UNCHANGED <<sessionVars, phase, cur, listed, steady, lately>>

(* Mutant of SkipStale: EXISTS is not asked.                               *)
KeepStale(s) ==
  /\ phase = "scan" /\ fields[s] = "valid" /\ s \notin Beating
  /\ phase' = "ttl" /\ cur' = s
  /\ UNCHANGED <<sessionVars, fields, listed, steady, lately>>

SkipStale(s) ==
  /\ phase = "scan" /\ fields[s] = "valid" /\ s \notin Beating
  /\ Handled(s)
  /\ UNCHANGED <<sessionVars, phase, cur, listed, steady, lately>>

(* The key that EXISTS probes is that of the name in the entry; a session  *)
(* writes its own name there, so it is the field's.                        *)
Keep(s) ==
  /\ phase = "scan" /\ fields[s] = "valid" /\ s \in Beating
  /\ phase' = "ttl" /\ cur' = s
  /\ UNCHANGED <<sessionVars, fields, listed, steady, lately>>

(* Mutant of Project: the age is computed from a missing key's TTL.        *)
ProjectAnyTtl ==
  /\ phase = "ttl"
  /\ \E t \in TtlAnswers(cur) :
       listed' = listed \cup {[name |-> cur, age |-> BeatTtl - t]}
  /\ Handled(cur)
  /\ phase' = "scan" /\ cur' = NoSession
  /\ UNCHANGED <<sessionVars, steady, lately>>

Project ==
  /\ phase = "ttl"
  /\ \E t \in TtlAnswers(cur) :
       listed' = listed \cup {[name |-> cur, age |-> Age(t)]}
  /\ Handled(cur)
  /\ phase' = "scan" /\ cur' = NoSession
  /\ UNCHANGED <<sessionVars, steady, lately>>

Returns ==
  /\ phase = "scan" /\ fields = NoFields
  /\ phase' = "done"
  /\ UNCHANGED <<sessionVars, fields, cur, listed, steady, lately>>

(* A command that fails ends the call without a list.                      *)
Raises ==
  /\ phase \in {"scan", "ttl"}
  /\ phase' = "idle" /\ fields' = NoFields /\ cur' = NoSession /\ listed' = {}
  /\ UNCHANGED <<sessionVars, steady, lately>>

SessionStep ==
  \/ Tick
  \/ \E s \in Session : Registers(s) \/ Beats(s) \/ Unbeats(s) \/ Unregisters(s) \/ Dies(s)

ReaderStep ==
  \/ HgetAll \/ Project \/ Returns \/ Raises
  \/ \E s \in Session : SkipMalformed(s) \/ SkipStale(s) \/ Keep(s)

Next == SessionStep \/ ReaderStep

Spec == Init /\ [][Next]_vars

-----------------------------------------------------------------------------
(* Every variable holds a value of its kind; an age is at most the         *)
(* heartbeat's lifetime, or unknown.                                       *)
TypeOK ==
  /\ session \in [Session -> {"down", "up", "leaving"}]
  /\ registry \in [Session -> {"none", "valid", "malformed"}]
  /\ ttl \in [Session -> 0..BeatTtl]
  /\ silence \in [Session -> 0..BeatTtl]
  /\ phase \in {"idle", "scan", "ttl", "done"}
  /\ fields \in [Session -> {"none", "valid", "malformed"}]
  /\ cur \in Session \cup {NoSession}
  /\ listed \subseteq [name : Session, age : {NoAge} \cup 0..BeatTtl]
  /\ steady \subseteq Session
  /\ lately \subseteq Session

Names == {e.name : e \in listed}

(* A session that is validly registered when the call begins and beats     *)
(* throughout it is on the list, whatever the entries around it hold and   *)
(* whoever leaves meanwhile (registry_reader.py:109-118).                  *)
ListsTheLive == phase = "done" => steady \subseteq Names

(* A session on the list has beaten within the heartbeat's lifetime before *)
(* the call, or during it: a dead one is gone from the list by then.       *)
ListedWasLive == Names \subseteq lately

(* The age an entry is listed with is the time since the session's last    *)
(* beat, to the tick, and it is unknown only when the key has gone since   *)
(* EXISTS: the key's countdown and the session's silence agree, beats      *)
(* before and after EXISTS, a death and a restart notwithstanding          *)
(* (registry_reader.py:53-64, :115-118).                                   *)
ShownAgeIsTrue ==
  [][\A e \in listed' \ listed :
       IF ttl[e.name] = 0 THEN e.age = NoAge
       ELSE e.age \in {silence[e.name], silence[e.name] + 1}]_vars
=============================================================================
