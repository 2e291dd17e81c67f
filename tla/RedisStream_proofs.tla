------------------------- MODULE RedisStream_proofs -------------------------
(***************************************************************************)
(* What each Redis call does to a stream, for streams of every length: the *)
(* facts the proofs about the relay cite instead of the definitions.       *)
(***************************************************************************)
EXTENDS RedisStream, TLAPS

(* XADD keeps the old entries, adds one at the end, and trims forward to a *)
(* position inside the new log.                                            *)
LEMMA XaddFacts ==
  ASSUME NEW Entry, NEW st \in Streams(Entry), NEW e \in Entry,
         NEW maxlen \in Nat, NEW cut \in TrimPoints(st, maxlen),
         st.trim <= Len(st.log)
  PROVE  /\ Xadd(st, e, cut) \in Streams(Entry)
         /\ Len(Xadd(st, e, cut).log) = Len(st.log) + 1
         /\ \A i \in 1..Len(st.log) : Xadd(st, e, cut).log[i] = st.log[i]
         /\ Xadd(st, e, cut).trim \in st.trim..(Len(st.log) + 1)
         /\ Xadd(st, e, cut).last = st.last
         /\ Xadd(st, e, cut).group = st.group
         /\ Xadd(st, e, cut).pel = st.pel
<1>1. st.log \in Seq(Entry) /\ st.trim \in Nat
  BY DEF Streams
<1>2. Len(st.log) \in Nat /\ cut \in st.trim..(Len(st.log) + 1)
  BY <1>1 DEF TrimPoints
<1>3. /\ Append(st.log, e) \in Seq(Entry)
      /\ Len(Append(st.log, e)) = Len(st.log) + 1
      /\ \A i \in 1..Len(st.log) : Append(st.log, e)[i] = st.log[i]
  BY <1>1
<1>4. /\ Xadd(st, e, cut).log = Append(st.log, e)
      /\ Xadd(st, e, cut).trim = cut
      /\ Xadd(st, e, cut).last = st.last
      /\ Xadd(st, e, cut).group = st.group
      /\ Xadd(st, e, cut).pel = st.pel
  BY DEF Xadd, Streams
<1>5. Xadd(st, e, cut) \in Streams(Entry)
  <2>1. cut \in Nat
    BY <1>1, <1>2
  <2> QED BY <1>3, <2>1 DEF Xadd, Streams
<1> QED BY <1>2, <1>3, <1>4, <1>5

(* XGROUP CREATE at 0 forgets nothing when the group had not moved yet.    *)
LEMMA EnsureGroupFacts ==
  ASSUME NEW Entry, NEW st \in Streams(Entry), ~st.group => st.last = 0
  PROVE  /\ EnsureGroup(st) \in Streams(Entry)
         /\ EnsureGroup(st).group
         /\ EnsureGroup(st).log = st.log
         /\ EnsureGroup(st).trim = st.trim
         /\ EnsureGroup(st).last = st.last
         /\ EnsureGroup(st).pel = st.pel
BY DEF EnsureGroup, Streams

(* XREADGROUP ">" returns entries above the group's position, moves the    *)
(* position over them, makes them pending, and passes without returning    *)
(* only entries that were trimmed.                                         *)
LEMMA ReadGroupFacts ==
  ASSUME NEW Entry, NEW st \in Streams(Entry), NEW count \in Nat \ {0},
         st.last <= Len(st.log), st.trim <= Len(st.log)
  PROVE  /\ ReadGroup(st, count) \in Streams(Entry)
         /\ ReadGroup(st, count).log = st.log
         /\ ReadGroup(st, count).trim = st.trim
         /\ ReadGroup(st, count).group = st.group
         /\ ReadGroup(st, count).last \in st.last..Len(st.log)
         /\ ReadGroup(st, count).pel = st.pel \cup NextIds(st, count)
         /\ NextIds(st, count) \subseteq
              (st.last + 1)..ReadGroup(st, count).last
         /\ \A i \in (st.last + 1)..ReadGroup(st, count).last :
              i \in NextIds(st, count) \/ i <= st.trim
<1>1. Len(st.log) \in Nat /\ st.last \in Nat /\ st.trim \in Nat
  BY DEF Streams
<1>2. Floor(st) \in Nat /\ st.last <= Floor(st) /\ Floor(st) <= Len(st.log)
  BY <1>1 DEF Floor
<1>3. NextIds(st, count) = {i \in (Floor(st) + 1)..Len(st.log) :
                              i <= Floor(st) + count}
  BY DEF NextIds, Unread
<1>4. CASE NextIds(st, count) = {}
  BY <1>1, <1>4 DEF ReadGroup
<1>5. CASE NextIds(st, count) # {}
  <2> DEFINE to == IF Floor(st) + count < Len(st.log)
                     THEN Floor(st) + count ELSE Len(st.log)
  <2>1. to \in Floor(st)..Len(st.log)
    BY <1>1, <1>2
  <2>2. NextIds(st, count) = (Floor(st) + 1)..to
    BY <1>1, <1>2, <1>3
  <2>3. ReadGroup(st, count) =
          [st EXCEPT !.last = to, !.pel = @ \cup NextIds(st, count)]
    BY <1>5 DEF ReadGroup
  <2>4. /\ ReadGroup(st, count).last = to
        /\ ReadGroup(st, count).pel = st.pel \cup NextIds(st, count)
        /\ ReadGroup(st, count).log = st.log
        /\ ReadGroup(st, count).trim = st.trim
        /\ ReadGroup(st, count).group = st.group
    BY <2>3 DEF Streams
  <2>5. NextIds(st, count) \subseteq Nat
    BY <1>1, <1>3, <1>2
  <2>6. ReadGroup(st, count) \in Streams(Entry)
    <3>1. to \in Nat
      BY <2>1, <1>1, <1>2
    <3> HIDE DEF to
    <3> QED BY <2>3, <2>5, <3>1 DEF Streams
  <2>7. \A i \in (st.last + 1)..to : i \in NextIds(st, count) \/ i <= st.trim
    BY <2>1, <2>2, <1>1, <1>2 DEF Floor
  <2> HIDE DEF to
  <2> QED BY <2>1, <2>2, <2>4, <2>6, <2>7, <1>1, <1>2
<1> QED BY <1>4, <1>5

(* XACK removes one id from the pending entries and changes nothing else.  *)
LEMMA AckFacts ==
  ASSUME NEW Entry, NEW st \in Streams(Entry), NEW id \in Nat
  PROVE  /\ Ack(st, id) \in Streams(Entry)
         /\ Ack(st, id).log = st.log
         /\ Ack(st, id).trim = st.trim
         /\ Ack(st, id).group = st.group
         /\ Ack(st, id).last = st.last
         /\ Ack(st, id).pel = st.pel \ {id}
BY DEF Ack, Streams
=============================================================================
