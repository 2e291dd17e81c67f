--------------------------- MODULE RelayLifecycle ---------------------------
(***************************************************************************)
(* start, stop and the loop of OutboundRelay (outbound.py): one relay      *)
(* object, its caller, and the threads it has created.  The threads share  *)
(* one stop event, and stop gives up its join after 2 s while a pass can   *)
(* take longer: XREADGROUP blocks for 1 s and each send waits up to 10 s.  *)
(* What a pass does is the subject of OutboundRelay; here it is busy.      *)
(***************************************************************************)
EXTENDS Naturals, FiniteSets

CONSTANT MaxThreads      \* bound: threads ever created

ASSUME MaxThreadsAssumption == MaxThreads \in Nat

VARIABLES handle,    \* _thread: the thread the object knows, or NoThread
          stopSet,   \* _stop: the event is set
          thread,    \* where each thread is
          caller,    \* the caller's place in start and stop
          told,      \* threads that were asked to stop
          gaveUp     \* how many joins timed out

vars == <<handle, stopSet, thread, caller, told, gaveUp>>

Thread == 1..MaxThreads
NoThread == 0

Alive(t) == thread[t] \in {"check", "poll", "wait"}
Living == {t \in Thread : Alive(t)}

Init ==
  /\ handle = NoThread
  /\ stopSet = FALSE
  /\ thread = [t \in Thread |-> "new"]
  /\ caller = "idle"
  /\ told = {}
  /\ gaveUp = 0

-----------------------------------------------------------------------------
NeverStarted == {t \in Thread : thread[t] = "new"}

(* Mutant of StartClears: start does not look at the old thread.           *)
StartAlways ==
  /\ caller = "idle"
  /\ NeverStarted # {}
  /\ stopSet' = FALSE
  /\ caller' = "spawn"
  /\ UNCHANGED <<handle, thread, told, gaveUp>>

(* Mutant of StartClears: the event stays set from the last stop.          *)
StartKeepsEvent ==
  /\ caller = "idle"
  /\ handle \notin Living
  /\ NeverStarted # {}
  /\ caller' = "spawn"
  /\ UNCHANGED <<handle, stopSet, thread, told, gaveUp>>

(* start returns at once, changing nothing, when the thread it knows is    *)
(* alive; otherwise it clears the event and creates a new thread.          *)
StartClears ==
  /\ caller = "idle"
  /\ handle \notin Living
  /\ NeverStarted # {}             \* the bound MaxThreads
  /\ stopSet' = FALSE
  /\ caller' = "spawn"
  /\ UNCHANGED <<handle, thread, told, gaveUp>>

StartSpawns ==
  /\ caller = "spawn"
  /\ \E t \in NeverStarted :
       /\ thread' = [thread EXCEPT ![t] = "check"]
       /\ handle' = t
  /\ caller' = "idle"
  /\ UNCHANGED <<stopSet, told, gaveUp>>

(* Mutant of StopSignals: stop joins without asking.                       *)
StopOnlyJoins ==
  /\ caller = "idle"
  /\ told' = told \cup Living
  /\ caller' = IF handle = NoThread THEN "idle" ELSE "join"
  /\ UNCHANGED <<handle, stopSet, thread, gaveUp>>

(* stop sets the event and joins the thread it knows ...                   *)
StopSignals ==
  /\ caller = "idle"
  /\ stopSet' = TRUE
  /\ told' = told \cup Living
  /\ caller' = IF handle = NoThread THEN "idle" ELSE "join"
  /\ UNCHANGED <<handle, thread, gaveUp>>

(* ... until it is dead, or for 2 s, and forgets it either way.            *)
JoinEnds ==
  /\ caller = "join"
  /\ gaveUp' = IF handle \in Living THEN gaveUp + 1 ELSE gaveUp
  /\ handle' = NoThread
  /\ caller' = "idle"
  /\ UNCHANGED <<stopSet, thread, told>>

-----------------------------------------------------------------------------
(* The loop of _run.                                                       *)
Goes(t, from, to) == thread[t] = from /\ thread' = [thread EXCEPT ![t] = to]

(* Mutant of SeesStop: the loop does not look at the event.                *)
NeverStops(t) == Goes(t, "check", "poll") /\ UNCHANGED <<handle, stopSet, caller, told, gaveUp>>

SeesStop(t) ==
  /\ stopSet
  /\ Goes(t, "check", "dead")
  /\ UNCHANGED <<handle, stopSet, caller, told, gaveUp>>

Polls(t) ==
  /\ ~stopSet
  /\ Goes(t, "check", "poll")
  /\ UNCHANGED <<handle, stopSet, caller, told, gaveUp>>

(* Mutant of PollEnds: an exception of a pass ends the thread.             *)
PollEndsOrKills(t) ==
  /\ Goes(t, "poll", "check") \/ Goes(t, "poll", "wait") \/ Goes(t, "poll", "dead")
  /\ UNCHANGED <<handle, stopSet, caller, told, gaveUp>>

(* A pass that delivered goes on at once, an idle or failed one waits.     *)
PollEnds(t) ==
  /\ Goes(t, "poll", "check") \/ Goes(t, "poll", "wait")
  /\ UNCHANGED <<handle, stopSet, caller, told, gaveUp>>

(* The wait ends after its time, or when the event is set.                 *)
WaitEnds(t) ==
  /\ Goes(t, "wait", "check")
  /\ UNCHANGED <<handle, stopSet, caller, told, gaveUp>>

ThreadStep(t) == SeesStop(t) \/ Polls(t) \/ PollEnds(t) \/ WaitEnds(t)

Next ==
  \/ StartClears \/ StartSpawns \/ StopSignals \/ JoinEnds
  \/ \E t \in Thread : ThreadStep(t)

Spec == Init /\ [][Next]_vars

(* The operating system schedules every thread; passes and waits are       *)
(* bounded.                                                                *)
FairSpec == Spec /\ \A t \in Thread : WF_vars(ThreadStep(t))

-----------------------------------------------------------------------------
(* Every variable holds a value of its kind; the known thread exists, a    *)
(* start replaces no live thread, and a join waits for a thread that was   *)
(* asked to stop.                                                          *)
TypeOK ==
  /\ handle \in Thread \cup {NoThread}
  /\ stopSet \in BOOLEAN
  /\ thread \in [Thread -> {"new", "check", "poll", "wait", "dead"}]
  /\ caller \in {"idle", "spawn", "join"}
  /\ told \subseteq Thread
  /\ gaveUp \in Nat
  /\ handle \notin NeverStarted
  /\ caller = "spawn" => handle \notin Living
  /\ caller = "join" => stopSet /\ handle \in told \cup (Thread \ Living)

(* start never adds a thread to a live one it knows: every live thread     *)
(* beyond the current one is left over from a join that timed out          *)
(* (outbound.py:125-140).                                                  *)
ThreadsAccountedFor ==
  /\ Cardinality(Living \ {handle}) <= gaveUp
  /\ Living \ {handle} \subseteq told

(* A thread ends only if a stop asked it to: not because one of its passes *)
(* raised, nor because it met the event an earlier stop had set for an     *)
(* earlier thread (outbound.py:130, 189-193).                              *)
OnlyToldThreadsEnd == \A t \in Thread : thread[t] = "dead" => t \in told

(* With no later start, stop ends every thread, the left-over ones too.    *)
StopEndsAll == <>[]stopSet => <>[](Living = {})

(* While nobody stops it, the thread the object knows polls again and      *)
(* again, whatever its passes raise (outbound.py:191).                     *)
KeepsPolling ==
  <>[](~stopSet /\ handle # NoThread)
    => []<>(\E t \in Thread : handle = t /\ thread[t] = "poll")
=============================================================================
