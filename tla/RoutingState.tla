---------------------------- MODULE RoutingState ----------------------------
(***************************************************************************)
(* RoutingState of mode_state.py: which Claude Code session each Discord   *)
(* surface is routed to.  A surface stands for the key                     *)
(* (user_id, endpoint, chat_id).  Every method holds the lock for its      *)
(* whole body, so each is one atomic operator on the record                *)
(*                                                                         *)
(*   targets  _targets, with NoTarget for an absent key;                   *)
(*   off      _routing_off: the surfaces whose routing was turned off.     *)
(***************************************************************************)
CONSTANTS Surface,    \* routing keys
          Session,    \* Claude Code session names
          NoTarget    \* "no entry in _targets"

ASSUME NoTargetAssumption == NoTarget \notin Session

RoutingStates ==
  [targets : [Surface -> Session \cup {NoTarget}], off : SUBSET Surface]

(* Nothing is targeted and routing is on for every surface.                *)
InitRouting == [targets |-> [k \in Surface |-> NoTarget], off |-> {}]

SetTarget(rs, k, s) == [rs EXCEPT !.targets[k] = s]

(* Removes the target only: whether routing is off is kept.                *)
ClearTarget(rs, k) == [rs EXCEPT !.targets[k] = NoTarget]

SetRouting(rs, k, enabled) ==
  [rs EXCEPT !.off = IF enabled THEN @ \ {k} ELSE @ \cup {k}]

(* Whether routing is on for surface k.                                    *)
IsRoutingOn(rs, k) == k \notin rs.off

(* Routing off hides the stored target without forgetting it.              *)
GetTarget(rs, k) == IF IsRoutingOn(rs, k) THEN rs.targets[k] ELSE NoTarget

ActiveTargets(rs) ==
  {s \in Session : \E k \in Surface : rs.targets[k] = s /\ IsRoutingOn(rs, k)}
=============================================================================
