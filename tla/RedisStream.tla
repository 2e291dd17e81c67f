---------------------------- MODULE RedisStream ----------------------------
(***************************************************************************)
(* One Redis stream and the consumer group "hermes-router" on it, as the   *)
(* methods of RouterRedis (redis_client.py) use them.  A stream is a       *)
(* record:                                                                 *)
(*                                                                         *)
(*   log    every entry ever added, oldest first; the entry at position i  *)
(*          has the message id i (Redis ids grow strictly);                *)
(*   trim   MAXLEN trimming removed the entries at positions <= trim;      *)
(*   group  the consumer group exists;                                     *)
(*   last   the group's last-delivered id;                                 *)
(*   pel    the group's pending entries list: ids delivered to a consumer  *)
(*          and not acknowledged.                                          *)
(*                                                                         *)
(* Redis itself is external.  The operators are pure, so a module that     *)
(* holds streams says when each call happens and whether it fails.         *)
(***************************************************************************)
EXTENDS Naturals, Sequences

Streams(Entry) ==
  [log : Seq(Entry), trim : Nat, group : BOOLEAN, last : Nat, pel : SUBSET Nat]

EmptyStream ==
  [log |-> << >>, trim |-> 0, group |-> FALSE, last |-> 0, pel |-> {}]

(* The larger of the group's position and the trimmed prefix: XREADGROUP   *)
(* with ">" serves the entries above it.                                   *)
Floor(st) == IF st.trim > st.last THEN st.trim ELSE st.last

(* Entries the group has not delivered yet and that are still there.       *)
Unread(st) == (Floor(st) + 1)..Len(st.log)

(* XADD with an approximate MAXLEN: Redis may trim or not, and never       *)
(* leaves fewer than maxlen entries by trimming.                           *)
TrimPoints(st, maxlen) ==
  {c \in st.trim..(Len(st.log) + 1) :
     c = st.trim \/ Len(st.log) + 1 - c >= maxlen}

Xadd(st, entry, cut) == [st EXCEPT !.log = Append(@, entry), !.trim = cut]

(* Mutants of EnsureGroup: the group starts at the end ("$") of the stream; *)
(* an existing group is created anew.                                      *)
EnsureGroupAtEnd(st) ==
  IF st.group THEN st ELSE [st EXCEPT !.group = TRUE, !.last = Len(st.log)]
EnsureGroupAnew(st) == [st EXCEPT !.group = TRUE, !.last = 0]

(* XGROUP CREATE ... id=0 MKSTREAM; BUSYGROUP (it exists) is swallowed.    *)
(* Starting at 0 makes the whole backlog unread.                           *)
EnsureGroup(st) ==
  IF st.group THEN st ELSE [st EXCEPT !.group = TRUE, !.last = 0]

(* What XREADGROUP ... COUNT count STREAMS s > returns, and leaves behind. *)
NextIds(st, count) == {i \in Unread(st) : i <= Floor(st) + count}

(* Mutant of ReadGroup: the group's position stays where it was.           *)
ReadGroupAgain(st, count) == [st EXCEPT !.pel = @ \cup NextIds(st, count)]

ReadGroup(st, count) ==
  IF NextIds(st, count) = {} THEN st
  ELSE [st EXCEPT !.last = IF Floor(st) + count < Len(st.log)
                             THEN Floor(st) + count ELSE Len(st.log),
                  !.pel = @ \cup NextIds(st, count)]

(* XACK.                                                                   *)
Ack(st, id) == [st EXCEPT !.pel = @ \ {id}]
=============================================================================
