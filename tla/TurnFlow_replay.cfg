\* Extra combats, given more than once in a turn.
CONSTANTS
  Attackers = {a1}
  Blockers = {}
  FirstStrike = {}
  DoubleStrike = {}
  Trample = {}
  Nothing = Nothing
  Humans = {0}
  Skips <- NoSkips
  Sources = {}
  ExtraCombats = TRUE
  TurnEffects = FALSE
  MaxAlters = 0
  MaxPhases = 24

SPECIFICATION Spec

PROPERTIES
  PlayedStaysPlayed
