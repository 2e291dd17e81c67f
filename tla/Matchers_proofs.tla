--------------------------- MODULE Matchers_proofs ---------------------------
(***************************************************************************)
(* What Matcher.match decides, for every text: no text is a phrase of two  *)
(* intents, a phrase with a bad name is no command, conversation is none   *)
(* either, and what follows a command does not change it.                  *)
(***************************************************************************)
EXTENDS Matchers, TLAPS

(* The words that the patterns of an intent ask for at the start of a text *)
(* (matchers.py:67-90).                                                    *)
Begins(intent, t) ==
  \/ intent = "mode_start" /\ t[1] \in {"start", "claude"}
  \/ intent = "mode_stop" /\ t[1] \in {"end", "mimir", "stop"}
  \/ intent \in {"connect", "switch", "list", "disconnect"}
     /\ (t[1] = intent \/ (t[1] = "/cc" /\ t[2] = intent))

(* The intents are the six of the list.                                    *)
LEMMA IntentsAre ==
  Intents = {"mode_start", "mode_stop", "connect", "switch", "list", "disconnect"}
<1>1. DOMAIN Order = 1..6
  BY DEF Order
<1> QED
  BY <1>1 DEF Intents, Order

(* A text that a pattern accepts begins with the pattern's words.          *)
LEMMA HitBegins ==
  ASSUME NEW t, NEW intent \in Intents, Hits(intent, t) # {}
  PROVE  Begins(intent, t)
<1>1. PICK head \in Heads[intent] : StartsWith(t, head)
  BY DEF Hits, Accepts
<1>2. CASE intent = "mode_start"
  <2>1. \A h \in StartHeads : Len(h) >= 1 /\ h[1] \in {"start", "claude"}
    <3> TAKE h \in StartHeads
    <3>1. \/ h = <<"start", "coding", "session">> \/ h = <<"start", "coding", "session!">>
          \/ h = <<"claude", "take", "over">> \/ h = <<"claude", "take", "over!">>
      BY DEF StartHeads
    <3> QED
      BY <3>1
  <2> QED
    BY <1>1, <1>2, <2>1 DEF Heads, StartsWith, Begins
<1>3. CASE intent = "mode_stop"
  <2>1. \A h \in StopHeads : Len(h) >= 1 /\ h[1] \in {"end", "mimir", "stop"}
    BY DEF StopHeads
  <2> QED
    BY <1>1, <1>3, <2>1 DEF Heads, StartsWith, Begins
<1>4. CASE intent = "connect"
  <2>1. \A h \in ConnectHeads :
          \/ Len(h) >= 1 /\ h[1] = "connect"
          \/ Len(h) >= 2 /\ h[1] = "/cc" /\ h[2] = "connect"
    BY DEF ConnectHeads
  <2> QED
    BY <1>1, <1>4, <2>1 DEF Heads, StartsWith, Begins
<1>5. CASE intent = "switch"
  <2>1. \A h \in SwitchHeads :
          \/ Len(h) >= 1 /\ h[1] = "switch"
          \/ Len(h) >= 2 /\ h[1] = "/cc" /\ h[2] = "switch"
    BY DEF SwitchHeads
  <2> QED
    BY <1>1, <1>5, <2>1 DEF Heads, StartsWith, Begins
<1>6. CASE intent = "list"
  <2>1. \A h \in ListHeads :
          \/ Len(h) >= 1 /\ h[1] = "list"
          \/ Len(h) >= 2 /\ h[1] = "/cc" /\ h[2] = "list"
    BY DEF ListHeads
  <2> QED
    BY <1>1, <1>6, <2>1 DEF Heads, StartsWith, Begins
<1>7. CASE intent = "disconnect"
  <2>1. \A h \in DisconnectHeads :
          \/ Len(h) >= 1 /\ h[1] = "disconnect"
          \/ Len(h) >= 2 /\ h[1] = "/cc" /\ h[2] = "disconnect"
    BY DEF DisconnectHeads
  <2> QED
    BY <1>1, <1>7, <2>1 DEF Heads, StartsWith, Begins
<1> QED
  BY <1>2, <1>3, <1>4, <1>5, <1>6, <1>7, IntentsAre

(* The least of some positions of the list of intents is one of them.      *)
LEMMA MinIsFirst ==
  ASSUME NEW S \in SUBSET (1..6), S # {}
  PROVE  Min(S) \in S
<1>1. \E x \in S : \A y \in S : x <= y
  <2>1. CASE 1 \in S
    BY <2>1
  <2>2. CASE 1 \notin S /\ 2 \in S
    BY <2>2
  <2>3. CASE S \cap {1, 2} = {} /\ 3 \in S
    BY <2>3
  <2>4. CASE S \cap {1, 2, 3} = {} /\ 4 \in S
    BY <2>4
  <2>5. CASE S \cap {1, 2, 3, 4} = {} /\ 5 \in S
    BY <2>5
  <2>6. CASE S \cap {1, 2, 3, 4, 5} = {}
    <3>1. \A x \in S : x = 6
      BY <2>6
    <3>2. PICK x \in S : TRUE
      OBVIOUS
    <3> QED
      BY <3>1, <3>2
  <2> QED
    BY <2>1, <2>2, <2>3, <2>4, <2>5, <2>6
<1> QED
  BY <1>1 DEF Min

(* What match returns for a text that some pattern accepts.                *)
LEMMA MatchIsHit ==
  ASSUME NEW t, Match(t) # NoMatch
  PROVE  /\ Match(t).intent \in Intents
         /\ \E head \in Hits(Match(t).intent, t) :
              Match(t).name = IF Match(t).intent \in Naming THEN NameAt(t, head) ELSE NoName
<1> DEFINE found == {i \in DOMAIN Order : Hits(Order[i], t) # {}}
           intent == Order[Min(found)]
           head == CHOOSE h \in Hits(intent, t) : TRUE
<1>1. DOMAIN Order = 1..6
  BY DEF Order
<1>2. found # {}
  BY DEF Match
<1>3. Min(found) \in found
  BY <1>1, <1>2, MinIsFirst
<1>4. intent \in Intents /\ head \in Hits(intent, t)
  BY <1>3 DEF Intents
<1>5. Match(t) = [intent |-> intent,
                  name |-> IF intent \in Naming THEN NameAt(t, head) ELSE NoName]
  BY <1>2 DEF Match
<1> HIDE DEF intent, head
<1>6. Match(t).intent = intent
  BY <1>5
<1>7. Match(t).name = IF intent \in Naming THEN NameAt(t, head) ELSE NoName
  BY <1>5
<1> QED
  BY <1>4, <1>6, <1>7

(* Two intents never accept the same text.                                 *)
LEMMA OneHits ==
  ASSUME NEW t, NEW intent \in Intents, NEW other \in Intents,
         Hits(intent, t) # {}, Hits(other, t) # {}
  PROVE  intent = other
<1>1. Begins(intent, t) /\ Begins(other, t)
  BY HitBegins
<1> QED
  BY <1>1, IntentsAre DEF Begins

(* match finds the intent that accepts a text.                             *)
LEMMA MatchFinds ==
  ASSUME NEW t, NEW intent \in Intents, Hits(intent, t) # {}
  PROVE  /\ Match(t) # NoMatch
         /\ Match(t).intent = intent
         /\ \E head \in Hits(intent, t) :
              Match(t).name = IF intent \in Naming THEN NameAt(t, head) ELSE NoName
<1> DEFINE found == {i \in DOMAIN Order : Hits(Order[i], t) # {}}
           first == Order[Min(found)]
           head == CHOOSE h \in Hits(first, t) : TRUE
<1>1. DOMAIN Order = 1..6
  BY DEF Order
<1>2. found # {}
  BY DEF Intents
<1>3. Min(found) \in found
  BY <1>1, <1>2, MinIsFirst
<1>4. first \in Intents /\ head \in Hits(first, t)
  BY <1>3 DEF Intents
<1>5. first = intent
  BY <1>4, OneHits
<1>6. Match(t) = [intent |-> first,
                  name |-> IF first \in Naming THEN NameAt(t, head) ELSE NoName]
  BY <1>2 DEF Match
<1> HIDE DEF first, head
<1>7. Match(t).intent = first /\ first # "none"
  BY <1>4, <1>6, IntentsAre
<1>8. Match(t).name = IF first \in Naming THEN NameAt(t, head) ELSE NoName
  BY <1>6
<1> QED
  BY <1>4, <1>5, <1>7, <1>8 DEF NoMatch

(* With the built-in patterns no text is a phrase of two intents, whatever *)
(* its length and its words (matchers.py:67-100).                          *)
THEOREM OneIntent == Spec => []Unambiguous
<1>1. Unambiguous
  BY OneHits DEF Unambiguous
<1> QED
  BY <1>1, PTL

(* A text is a sequence of words.                                          *)
LEMMA TextTyped == Spec => [](text \in Seq(Word))
<1>1. Init => text \in Seq(Word)
  BY DEF Init
<1>2. text \in Seq(Word) /\ [Next]_text => (text \in Seq(Word))'
  BY DEF Next, Types
<1> QED
  BY <1>1, <1>2, PTL DEF Spec

(* The patterns that have to be the whole text: their first words, and     *)
(* that all their words are keywords.                                      *)
LEMMA WholeHeads ==
  ASSUME NEW intent \in Whole, NEW head \in Heads[intent]
  PROVE  /\ Len(head) \in 1..3
         /\ head[1] = "/cc" => Len(head) >= 2
         /\ \A i \in 1..Len(head) : head[i] \in Keyword \cup Marked
<1> DEFINE Words == Keyword \cup Marked
<1>1. ASSUME NEW a \in Words \ {"/cc"}
      PROVE  /\ Len(<<a>>) \in 1..3
             /\ <<a>>[1] = "/cc" => Len(<<a>>) >= 2
             /\ \A i \in 1..Len(<<a>>) : <<a>>[i] \in Words
  OBVIOUS
<1>2. ASSUME NEW a \in Words, NEW b \in Words
      PROVE  /\ Len(<<a, b>>) \in 1..3
             /\ <<a, b>>[1] = "/cc" => Len(<<a, b>>) >= 2
             /\ \A i \in 1..Len(<<a, b>>) : <<a, b>>[i] \in Words
  OBVIOUS
<1>3. ASSUME NEW a \in Words, NEW b \in Words, NEW c \in Words
      PROVE  /\ Len(<<a, b, c>>) \in 1..3
             /\ <<a, b, c>>[1] = "/cc" => Len(<<a, b, c>>) >= 2
             /\ \A i \in 1..Len(<<a, b, c>>) : <<a, b, c>>[i] \in Words
  OBVIOUS
<1>4. {"list", "session", "cc", "claude", "sessions", "disconnect", "from", "/cc"} \subseteq Words
  BY DEF Keyword, Marked
<1> HIDE DEF Words
<1>5. CASE intent = "list"
  <2>1. head \in ListHeads
    BY <1>5 DEF Heads
  <2>2. \/ \E a, b \in Words : head = <<a, b>>
        \/ \E a, b, c \in Words : head = <<a, b, c>>
    BY <1>4, <2>1 DEF ListHeads
  <2> QED
    BY <1>2, <1>3, <2>2 DEF Words
<1>6. CASE intent = "disconnect"
  <2>1. head \in DisconnectHeads
    BY <1>6 DEF Heads
  <2>2. \/ \E a \in Words \ {"/cc"} : head = <<a>>
        \/ \E a, b \in Words : head = <<a, b>>
        \/ \E a, b, c \in Words : head = <<a, b, c>>
    BY <1>4, <2>1 DEF DisconnectHeads
  <2> QED
    BY <1>1, <1>2, <1>3, <2>2 DEF Words
<1> QED
  BY <1>5, <1>6 DEF Whole

(* A word that is no keyword at the start: no command.                     *)
LEMMA PlainWordFirst ==
  ASSUME NEW t \in Seq(Word), NEW w \in Name \cup Other
  PROVE  Match(<<w>> \o t) = NoMatch
<1> DEFINE u == <<w>> \o t
<1>1. u[1] = w
  BY DEF Word
<1>2. SUFFICES ASSUME Match(u) # NoMatch PROVE FALSE
  OBVIOUS
<1>3. PICK intent \in Intents : Hits(intent, u) # {}
  BY <1>2, MatchIsHit
<1>4. Begins(intent, u)
  BY <1>3, HitBegins
<1>5. w \notin Keyword \cup Marked
  BY WordsAssumption
<1> HIDE DEF u
<1>6. u[1] \in Keyword \cup Marked
  BY <1>3, <1>4, IntentsAre DEF Begins, Keyword, Marked
<1> QED
  BY <1>1, <1>5, <1>6

(* The first words of a text stay where they are when another is typed.    *)
LEMMA AppendKeeps ==
  ASSUME NEW t \in Seq(Word), NEW w \in Word
  PROVE  /\ Append(t, w) \in Seq(Word)
         /\ Len(Append(t, w)) = Len(t) + 1
         /\ \A i \in 1..Len(t) : Append(t, w)[i] = t[i]
         /\ Append(t, w)[Len(t) + 1] = w
  OBVIOUS

(* A pattern that has to be the whole text does not accept a text that a   *)
(* word which is no keyword ends.                                          *)
LEMMA PlainWordLast ==
  ASSUME NEW t \in Seq(Word), NEW w \in Name \cup Other, Match(t).intent \in Whole
  PROVE  Match(Append(t, w)) = NoMatch
<1> DEFINE u == Append(t, w)
           intent == Match(t).intent
<1>1. /\ Len(t) \in Nat /\ Len(u) = Len(t) + 1
      /\ \A i \in 1..Len(t) : u[i] = t[i]
      /\ u[Len(t) + 1] = w
  BY AppendKeeps DEF Word
<1> SUFFICES ASSUME Match(u) # NoMatch PROVE FALSE
  OBVIOUS
<1>2. Match(t) # NoMatch
  BY DEF NoMatch, Whole
<1>3. /\ intent \in Intents
      /\ \E head \in Hits(intent, t) : TRUE
  BY <1>2, MatchIsHit
<1>4. PICK head \in Heads[intent] : Accepts(intent, head, t)
  BY <1>3 DEF Hits
<1>5. PICK other \in Intents : Hits(other, u) # {}
  BY MatchIsHit
<1>6. Begins(intent, t) /\ Begins(other, u)
  BY <1>3, <1>5, HitBegins
<1> HIDE DEF u, intent
<1>7. intent \in Whole
  BY DEF intent
<1>8. /\ Len(head) \in 1..3 /\ Len(head) = Len(t)
      /\ head[1] = "/cc" => Len(head) >= 2
  BY <1>4, <1>7, WholeHeads DEF Accepts
<1>9. Len(t) >= 1 /\ (t[1] = "/cc" => Len(t) >= 2)
  BY <1>4, <1>8 DEF Accepts, StartsWith
<1>10. u[1] = t[1] /\ (t[1] = "/cc" => u[2] = t[2])
  BY <1>1, <1>9
<1>11. other = intent
  BY <1>3, <1>5, <1>6, <1>7, <1>10, IntentsAre DEF Begins, Whole
<1>12. PICK last \in Heads[intent] : Accepts(intent, last, u)
  BY <1>5, <1>11 DEF Hits
<1>13. /\ Len(last) = Len(u)
       /\ \A i \in 1..Len(last) : last[i] \in Keyword \cup Marked /\ u[i] = last[i]
  BY <1>7, <1>12, WholeHeads DEF Accepts, StartsWith
<1>14. w \in Keyword \cup Marked
  <2>1. Len(t) + 1 \in 1..Len(last)
    BY <1>1, <1>13
  <2>2. last[Len(t) + 1] \in Keyword \cup Marked
    BY <2>1, <1>13
  <2> QED
    BY <2>1, <2>2, <1>1, <1>13
<1> QED
  BY <1>14, WordsAssumption

(* Whatever the text, any word in front of it that is no keyword makes it  *)
(* conversation, and so does one behind a phrase that has to be the whole  *)
(* text; it does not matter whether the word could name a session          *)
(* (matchers.py:61-66).                                                    *)
THEOREM ConversationIsNoCommand == Spec => []ConversationPassesThrough
<1>1. text \in Seq(Word) => ConversationPassesThrough
  BY PlainWordFirst, PlainWordLast DEF ConversationPassesThrough
<1> QED
  BY <1>1, TextTyped, PTL

(* No two patterns of connect, or of switch, are the beginning of one text:*)
(* they differ in their first word or in their third.                      *)
LEMMA OneNamingHead ==
  ASSUME NEW t, NEW intent \in Naming,
         NEW head \in Heads[intent], NEW other \in Heads[intent],
         StartsWith(t, head), StartsWith(t, other)
  PROVE  head = other
<1>1. ASSUME NEW h \in Heads[intent], StartsWith(t, h)
      PROVE  \/ h = <<intent, "to", "session">> /\ t[1] = intent /\ t[3] = "session"
             \/ h = <<intent, "to", "cc">> /\ t[1] = intent /\ t[3] = "cc"
             \/ h = <<"/cc", intent>> /\ t[1] = "/cc"
  <2>1. \/ h = <<intent, "to", "session">>
        \/ h = <<intent, "to", "cc">>
        \/ h = <<"/cc", intent>>
    <3>1. CASE intent = "connect"
      BY <1>1, <3>1 DEF Heads, ConnectHeads
    <3>2. CASE intent = "switch"
      BY <1>1, <3>2 DEF Heads, SwitchHeads
    <3> QED
      BY <3>1, <3>2 DEF Naming
  <2>2. CASE h = <<intent, "to", "session">>
    BY <1>1, <2>2 DEF StartsWith
  <2>3. CASE h = <<intent, "to", "cc">>
    BY <1>1, <2>3 DEF StartsWith
  <2>4. CASE h = <<"/cc", intent>>
    BY <1>1, <2>4 DEF StartsWith
  <2> QED
    BY <2>1, <2>2, <2>3, <2>4
<1>2. intent # "/cc"
  BY DEF Naming
<1> QED
  BY <1>1, <1>2

(* A text that begins like a naming phrase is a phrase of no other intent. *)
LEMMA NamingHeadBegins ==
  ASSUME NEW t, NEW intent \in Naming, NEW head \in Heads[intent], StartsWith(t, head)
  PROVE  Begins(intent, t)
<1>1. CASE intent = "connect"
  <2>1. \A h \in ConnectHeads :
          \/ Len(h) >= 1 /\ h[1] = "connect"
          \/ Len(h) >= 2 /\ h[1] = "/cc" /\ h[2] = "connect"
    BY DEF ConnectHeads
  <2> QED
    BY <1>1, <2>1 DEF Heads, StartsWith, Begins
<1>2. CASE intent = "switch"
  <2>1. \A h \in SwitchHeads :
          \/ Len(h) >= 1 /\ h[1] = "switch"
          \/ Len(h) >= 2 /\ h[1] = "/cc" /\ h[2] = "switch"
    BY DEF SwitchHeads
  <2> QED
    BY <1>2, <2>1 DEF Heads, StartsWith, Begins
<1> QED
  BY <1>1, <1>2 DEF Naming

(* Whatever the text, a phrase whose name is missing or not valid is taken *)
(* by no pattern of any intent (matchers.py:120-126, :145-147).            *)
THEOREM BadNamesSetNothing == Spec => []BadNamesAreConversation
<1>1. ASSUME NEW intent \in Naming, NEW head \in Heads[intent], StartsWith(text, head),
             Len(text) > Len(head) => NameAt(text, head) \notin ValidName,
             Match(text) # NoMatch
      PROVE  FALSE
  <2>1. PICK other \in Intents : Hits(other, text) # {}
    BY <1>1, MatchIsHit
  <2>2. Begins(intent, text) /\ Begins(other, text)
    BY <1>1, <2>1, NamingHeadBegins, HitBegins
  <2>3. other = intent
    BY <2>1, <2>2, IntentsAre DEF Begins, Naming
  <2>4. PICK h \in Heads[intent] : Accepts(intent, h, text)
    BY <2>1, <2>3 DEF Hits
  <2>5. h = head
    BY <1>1, <2>4, OneNamingHead DEF Accepts
  <2> QED
    BY <1>1, <2>4, <2>5 DEF Accepts
<1>2. BadNamesAreConversation
  BY <1>1 DEF BadNamesAreConversation
<1> QED
  BY <1>2, PTL

(* The heads are sequences, so their lengths are numbers.                  *)
LEMMA HeadLength ==
  ASSUME NEW intent \in Intents \ Whole, NEW head \in Heads[intent]
  PROVE  Len(head) \in Nat
<1>1. intent \in {"mode_start", "mode_stop", "connect", "switch"}
  BY IntentsAre DEF Whole
<1> QED
  BY <1>1 DEF Heads, StartHeads, StopHeads, ConnectHeads, SwitchHeads

(* A pattern that lets other words follow still accepts the text when one  *)
(* more is typed, and captures the same name.                              *)
LEMMA AcceptsLonger ==
  ASSUME NEW t \in Seq(Word), NEW w \in Word,
         NEW intent \in Intents \ Whole, NEW head \in Hits(intent, t)
  PROVE  /\ head \in Hits(intent, Append(t, w))
         /\ intent \in Naming => NameAt(Append(t, w), head) = NameAt(t, head)
<1> DEFINE u == Append(t, w)
<1>1. /\ Len(t) \in Nat /\ Len(u) = Len(t) + 1
      /\ \A i \in 1..Len(t) : u[i] = t[i]
  BY AppendKeeps
<1>2. head \in Heads[intent] /\ Accepts(intent, head, t)
  BY DEF Hits
<1>3. Len(head) \in Nat
  BY <1>2, HeadLength
<1> HIDE DEF u
<1>4. StartsWith(u, head)
  BY <1>1, <1>2, <1>3 DEF Accepts, StartsWith
<1>5. intent \in Naming => Len(u) > Len(head) /\ NameAt(u, head) = NameAt(t, head)
  BY <1>1, <1>2, <1>3 DEF Accepts, NameAt
<1>6. Accepts(intent, head, u)
  BY <1>2, <1>4, <1>5 DEF Accepts
<1> QED
  BY <1>2, <1>5, <1>6 DEF Hits, u

(* Whatever is typed behind a phrase that other words may follow, it means *)
(* the same (matchers.py:127-150, :170-176).                               *)
THEOREM TheFirstCommandCounts == Spec => FirstCommandWins
<1> DEFINE Step == Match(text).intent \in Intents \ Whole => Match(text') = Match(text)
<1>1. ASSUME text \in Seq(Word), NEW w \in Word, text' = Append(text, w),
             Match(text).intent \in Intents \ Whole
      PROVE  Match(text') = Match(text)
  <2> DEFINE intent == Match(text).intent
  <2>1. Match(text) # NoMatch
    BY <1>1, IntentsAre DEF NoMatch
  <2>2. PICK head \in Hits(intent, text) :
          Match(text).name = IF intent \in Naming THEN NameAt(text, head) ELSE NoName
    BY <2>1, MatchIsHit
  <2>3. /\ head \in Hits(intent, text')
        /\ intent \in Naming => NameAt(text', head) = NameAt(text, head)
    BY <1>1, <2>2, AcceptsLonger
  <2>4. /\ Match(text') # NoMatch
        /\ Match(text').intent = intent
        /\ \E h \in Hits(intent, text') :
             Match(text').name = IF intent \in Naming THEN NameAt(text', h) ELSE NoName
    BY <1>1, <2>3, MatchFinds
  <2>5. PICK h \in Hits(intent, text') :
          Match(text').name = IF intent \in Naming THEN NameAt(text', h) ELSE NoName
    BY <2>4
  <2>6. intent \in Naming => h = head
    BY <2>3, <2>5, OneNamingHead DEF Hits, Accepts
  <2>7. Match(text').name = Match(text).name
    BY <2>2, <2>3, <2>5, <2>6
  <2>8. \A t : Match(t) = [intent |-> Match(t).intent, name |-> Match(t).name]
    BY DEF Match, NoMatch
  <2> QED
    BY <2>4, <2>7, <2>8
<1>2. text \in Seq(Word) /\ [Next]_text => [Step]_text
  BY <1>1 DEF Next, Types
<1> QED
  BY <1>2, TextTyped, PTL DEF Spec, FirstCommandWins
=============================================================================
