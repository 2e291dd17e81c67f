------------------------------ MODULE Matchers ------------------------------
(***************************************************************************)
(* Matcher.match (matchers.py) with the built-in patterns, which are the   *)
(* ones in use: register() configures none.  A text is what strip() leaves *)
(* of it, as a sequence of words with one space between them; the case of  *)
(* a keyword does not matter and is left out.  "session!", "over!" and     *)
(* "routing!" stand for the keyword with a character after it at which the *)
(* word ends (\b), so a phrase may end there and a name or a whole command *)
(* may not.                                                                *)
(***************************************************************************)
EXTENDS Naturals, Sequences, FiniteSetsExt

CONSTANTS Name,      \* words that satisfy SESSION_NAME_RE and are no keywords
          Other,     \* words that do not, and are no keywords
          NoName,    \* "no name group"
          MaxWords   \* bound: words of a text

Keyword == {"connect", "switch", "disconnect", "list", "to", "from", "session",
            "sessions", "cc", "claude", "start", "end", "coding", "take",
            "over", "mimir", "stop", "routing"}
Marked == {"/cc", "session!", "over!", "routing!"}
Word == Keyword \cup Marked \cup Name \cup Other

ASSUME WordsAssumption ==
  /\ NoName \notin Word
  /\ Name \cap (Keyword \cup Marked) = {}
  /\ Other \cap (Name \cup Keyword \cup Marked) = {}

VARIABLE text     \* what the operator has typed so far

(* is_valid_session_name: a lower-case keyword is a valid name, too.       *)
ValidName == Name \cup Keyword

-----------------------------------------------------------------------------
(* The intents in the order in which match tries them.                     *)
Order == <<"mode_start", "mode_stop", "connect", "switch", "list", "disconnect">>
Intents == {Order[i] : i \in DOMAIN Order}

(* The words that the patterns of each intent require at the start.        *)
StartHeads ==
  {<<"start", "coding", "session">>, <<"start", "coding", "session!">>,
   <<"claude", "take", "over">>, <<"claude", "take", "over!">>}
StopHeads ==
  {<<"end", "coding", "session">>, <<"end", "coding", "session!">>,
   <<"mimir", "take", "over">>, <<"mimir", "take", "over!">>,
   <<"stop", "routing">>, <<"stop", "routing!">>}
ConnectHeads ==
  {<<"connect", "to", "session">>, <<"connect", "to", "cc">>, <<"/cc", "connect">>}
SwitchHeads ==
  {<<"switch", "to", "session">>, <<"switch", "to", "cc">>, <<"/cc", "switch">>}
ListHeads ==
  {<<"list", "session">>, <<"list", "cc", "session">>, <<"list", "claude", "session">>,
   <<"list", "sessions">>, <<"list", "cc", "sessions">>, <<"list", "claude", "sessions">>,
   <<"/cc", "list">>}
DisconnectHeads ==
  {<<"disconnect">>, <<"disconnect", "session">>, <<"disconnect", "cc">>,
   <<"disconnect", "from", "session">>, <<"disconnect", "from", "cc">>,
   <<"/cc", "disconnect">>}

Heads == [mode_start |-> StartHeads, mode_stop |-> StopHeads,
          connect |-> ConnectHeads, switch |-> SwitchHeads,
          list |-> ListHeads, disconnect |-> DisconnectHeads]

Naming == {"connect", "switch"}      \* a name follows
Whole == {"list", "disconnect"}      \* nothing follows

(* Mutant of StartsWith: the pattern is not anchored.                      *)
Contains(t, head) ==
  \E d \in 0..Len(t) : /\ d + Len(head) <= Len(t)
                       /\ \A i \in 1..Len(head) : t[d + i] = head[i]

StartsWith(t, head) ==
  Len(head) <= Len(t) /\ \A i \in 1..Len(head) : t[i] = head[i]

NameAt(t, head) == t[Len(head) + 1]

(* Mutants of Accepts: any name will do; a bare verb may be followed by    *)
(* other words; a phrase has to be the whole text.                         *)
AcceptsAnyName(intent, head, t) ==
  /\ StartsWith(t, head)
  /\ intent \in Naming => Len(t) > Len(head)
  /\ intent \in Whole => Len(t) = Len(head)
AcceptsMore(intent, head, t) ==
  /\ StartsWith(t, head)
  /\ intent \in Naming => Len(t) > Len(head) /\ NameAt(t, head) \in ValidName
AcceptsWhole(intent, head, t) ==
  /\ StartsWith(t, head)
  /\ intent \in Naming => Len(t) > Len(head) /\ NameAt(t, head) \in ValidName
  /\ intent \notin Naming => Len(t) = Len(head)

(* A pattern matches, and the name it captures, if any, is valid.          *)
Accepts(intent, head, t) ==
  /\ StartsWith(t, head)
  /\ intent \in Naming => Len(t) > Len(head) /\ NameAt(t, head) \in ValidName
  /\ intent \in Whole => Len(t) = Len(head)

Hits(intent, t) == {head \in Heads[intent] : Accepts(intent, head, t)}
NoMatch == [intent |-> "none", name |-> NoName]

(* The first intent with a pattern that accepts the text.                  *)
Match(t) ==
  LET found == {i \in DOMAIN Order : Hits(Order[i], t) # {}} IN
  IF found = {} THEN NoMatch
  ELSE LET intent == Order[Min(found)]
           head == CHOOSE h \in Hits(intent, t) : TRUE
       IN [intent |-> intent,
           name |-> IF intent \in Naming THEN NameAt(t, head) ELSE NoName]

-----------------------------------------------------------------------------
Init == text = << >>

Types(w) == Len(text) < MaxWords /\ text' = Append(text, w)

Next == \E w \in Word : Types(w)

Spec == Init /\ [][Next]_text

-----------------------------------------------------------------------------
(* No text is a phrase of two intents: with the built-in patterns the      *)
(* order in which they are tried, which matchers.py:92-94 calls important, *)
(* decides nothing.                                                        *)
Unambiguous ==
  \A intent, other \in Intents :
    Hits(intent, text) # {} /\ Hits(other, text) # {} => intent = other

(* A phrase that asks for a session and names none, or one whose name is   *)
(* not valid, is no control phrase at all: no other pattern takes it, and  *)
(* the text goes on as conversation (matchers.py:120-126, :145-147).       *)
BadNamesAreConversation ==
  \A intent \in Naming : \A head \in Heads[intent] :
    /\ StartsWith(text, head)
    /\ Len(text) > Len(head) => NameAt(text, head) \notin ValidName
    => Match(text) = NoMatch

(* A control phrase in the middle of a sentence, or a bare verb that goes  *)
(* on as one, is conversation, also when the word before or behind it      *)
(* could be the name of a session (matchers.py:61-66).                     *)
ConversationPassesThrough ==
  \A w \in Name \cup Other :
    /\ Match(<<w>> \o text) = NoMatch
    /\ Match(text).intent \in Whole => Match(Append(text, w)) = NoMatch

(* One text is one command: a phrase that may be followed by other words   *)
(* means the same whatever they are, a second command among them           *)
(* (matchers.py:127-150).  docs/STATE_MACHINE.md:97-101 (R1) says          *)
(* otherwise of "/cc connect foo and start coding session": there it makes *)
(* two transitions, here and in the code it is a connect.                  *)
FirstCommandWins ==
  [][Match(text).intent \in Intents \ Whole => Match(text') = Match(text)]_text
=============================================================================
