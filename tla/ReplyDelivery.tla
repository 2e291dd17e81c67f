---------------------------- MODULE ReplyDelivery ----------------------------
(***************************************************************************)
(* What the reply path promises, without threads, Redis or Discord: a      *)
(* reply is claimed at most once and in the order of its session, lands at *)
(* most once and only after it was claimed, and is settled only when it    *)
(* landed or can never land.  There is no step that takes a claim back:    *)
(* delivery is at most once, and a claimed reply may stay claimed forever. *)
(***************************************************************************)
EXTENDS Naturals

CONSTANT Reply      \* pairs <<session, position in its stream>>

VARIABLES sent,     \* replies their sessions have published
          bad,      \* those of them that are malformed
          claimed,  \* replies the router has passed
          landed,   \* replies visible on Discord
          settled   \* replies the router is done with

vars == <<sent, bad, claimed, landed, settled>>

Init ==
  /\ sent = {} /\ bad = {} /\ claimed = {} /\ landed = {} /\ settled = {}

Publish(m) ==
  /\ m \notin sent
  /\ sent' = sent \cup {m}
  /\ bad' \in {bad, bad \cup {m}}
  /\ UNCHANGED <<claimed, landed, settled>>

(* Claims leave no earlier reply of the same session behind.               *)
Claim ==
  /\ claimed \subseteq claimed'
  /\ claimed' \subseteq sent
  /\ \A m \in claimed' \ claimed, n \in sent \ claimed :
       n[1] = m[1] /\ n[2] < m[2] => n \in claimed'
  /\ UNCHANGED <<sent, bad, landed, settled>>

Land(m) ==
  /\ m \in claimed \ (landed \cup bad)
  /\ landed' = landed \cup {m}
  /\ UNCHANGED <<sent, bad, claimed, settled>>

Settle(m) ==
  /\ m \in claimed \ settled
  /\ m \in landed \cup bad
  /\ settled' = settled \cup {m}
  /\ UNCHANGED <<sent, bad, claimed, landed>>

Next == Claim \/ \E m \in Reply : Publish(m) \/ Land(m) \/ Settle(m)

Spec == Init /\ [][Next]_vars
=============================================================================
