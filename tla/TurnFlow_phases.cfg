\* Skipping effects of every source, among up to two extra combats and main phases.
CONSTANTS
  Attackers = {a1}
  Blockers = {}
  FirstStrike = {}
  DoubleStrike = {}
  Trample = {}
  Nothing = Nothing
  Humans = {0}
  Skips <- Attacks
  Sources = {"instant", "permanent", "static"}
  ExtraCombats = TRUE
  TurnEffects = FALSE
  MaxAlters = 2
  MaxPhases = 20

SPECIFICATION Spec

INVARIANTS
  TypeOK
  ExtrasArePlayed
  GameFollowsRing
  SkipsOnlyNext

PROPERTIES
  NothingPlayedTwice
  SkipsAreObserved
