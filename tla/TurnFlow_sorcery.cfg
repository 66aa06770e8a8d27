\* A sorcery makes a player skip a combat.
CONSTANTS
  Attackers = {a1}
  Blockers = {}
  FirstStrike = {}
  DoubleStrike = {}
  Trample = {}
  Nothing = Nothing
  Humans = {0}
  Skips <- WholeCombat
  Sources = {"sorcery"}
  ExtraCombats = FALSE
  TurnEffects = FALSE
  MaxAlters = 5
  MaxPhases = 0

SPECIFICATION Spec

PROPERTIES
  SpellsSkipIsKept
