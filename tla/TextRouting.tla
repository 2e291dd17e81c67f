----------------------------- MODULE TextRouting -----------------------------
(***************************************************************************)
(* What the hook promises, without a routing state, connections or Redis:  *)
(* events are handled one after the other; who reads a text is read off    *)
(* the commands of its surface when it is decided, and never reconsidered; *)
(* it is delivered before the gateway is answered, and not after; an event *)
(* is answered once.  Losing the process's memory makes the commands so    *)
(* far not count, and leaves the event in hand without an answer.          *)
(***************************************************************************)
EXTENDS Naturals, Sequences

CONSTANTS Surface, Session, NoTarget

VARIABLES history,    \* the events dispatched so far, with their answers
          restarts,   \* numbers of events before which memory was lost
          stage,      \* what happens next to the last event
          dest,       \* the session it goes to
          result,     \* what the gateway will be answered
          inbound     \* what each session can read: event numbers

vars == <<history, restarts, stage, dest, result, inbound>>

Commands == {"connect", "disconnect", "list", "start", "stop"}
Kinds == Commands \cup {"text", "blank", "invalid", "nosurface"}

now == Len(history)
event == history[now]

(* The earlier events of the same surface that still count for event i.    *)
Before(i) ==
  {j \in 1..(i - 1) : /\ history[j].surface = history[i].surface
                      /\ \A f \in restarts : f <= i => f <= j}

(* The surface was connected to s and to nothing since, and each time it   *)
(* was stopped it was started again.                                       *)
Belongs(i, s) ==
  /\ \E j \in Before(i) :
       /\ history[j].kind = "connect" /\ history[j].session = s
       /\ \A l \in Before(i) : l > j => history[l].kind \notin {"connect", "disconnect"}
  /\ \A j \in Before(i) : history[j].kind = "stop" =>
       \E l \in Before(i) : l > j /\ history[l].kind = "start"

Unrouted(i) == \A s \in Session : ~Belongs(i, s)

-----------------------------------------------------------------------------
Init ==
  /\ history = << >> /\ restarts = {}
  /\ stage = "free" /\ dest = NoTarget /\ result = "llm"
  /\ inbound = [s \in Session |-> << >>]

Dispatch ==
  /\ stage = "free" /\ stage' = "decide"
  /\ \E k \in Surface, kind \in Kinds, s \in Session \cup {NoTarget} :
       history' = Append(history, [surface |-> k, kind |-> kind, session |-> s,
                                   answer |-> "none"])
  /\ UNCHANGED <<restarts, dest, result, inbound>>

(* The plugin keeps commands, the agent's LLM answers what is unrouted,    *)
(* and text that is no message is dropped on a routed surface.             *)
Settle ==
  /\ stage = "decide" /\ stage' = "answer"
  /\ \/ event.kind \in Commands /\ result' = "handled"
     \/ event.kind \in {"blank", "nosurface"} /\ result' = "llm"
     \/ event.kind \in {"text", "invalid"} /\ Unrouted(now) /\ result' = "llm"
     \/ event.kind = "invalid" /\ ~Unrouted(now) /\ result' = "dropped"
  /\ UNCHANGED <<history, restarts, dest, inbound>>

Route(s) ==
  /\ stage = "decide" /\ stage' = "deliver"
  /\ event.kind = "text" /\ Belongs(now, s)
  /\ dest' = s
  /\ UNCHANGED <<history, restarts, result, inbound>>

(* A text is delivered at most twice, one copy after the other, and is     *)
(* called routed only when it was.                                         *)
Deliver(copies) ==
  /\ stage = "deliver" /\ stage' = "answer"
  /\ inbound' = [inbound EXCEPT ![dest] = @ \o [i \in 1..copies |-> now]]
  /\ result' = "dropped" \/ (copies > 0 /\ result' = "routed")
  /\ UNCHANGED <<history, restarts, dest>>

Answer ==
  /\ stage = "answer" /\ stage' = "free"
  /\ history' = [history EXCEPT ![now].answer = result]
  /\ dest' = NoTarget /\ result' = "llm"
  /\ UNCHANGED <<restarts, inbound>>

Forget ==
  /\ restarts' = restarts \cup {now + 1}
  /\ stage' = "free" /\ dest' = NoTarget /\ result' = "llm"
  /\ UNCHANGED <<history, inbound>>

Next ==
  \/ Dispatch
  \/ Settle
  \/ \E s \in Session : Route(s)
  \/ \E copies \in 0..2 : Deliver(copies)
  \/ Answer
  \/ Forget

Spec == Init /\ [][Next]_vars
=============================================================================
