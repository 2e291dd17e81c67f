SPECIFICATION Spec
CONSTANTS
  Session = {s1, s2}
  NoSession = NoSession
  BeatTtl = 2
INVARIANTS TypeOK ListsTheLive ListedWasLive
PROPERTIES ShownAgeIsTrue
