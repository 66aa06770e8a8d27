\* Two attackers and two blockers, with every kind of strike, and cards that
\* give or take turns; no card alters phases.
CONSTANTS
  Attackers = {a1, a2}
  Blockers = {b1, b2}
  FirstStrike = {a1, b1}
  DoubleStrike = {a2}
  Trample = {a1}
  Nothing = Nothing
  Humans = {0}
  Skips <- NoSkips
  Sources = {}
  ExtraCombats = FALSE
  TurnEffects = TRUE
  MaxAlters = 0
  MaxPhases = 0

SPECIFICATION FairSpec

INVARIANTS
  StepsAgree
  DamageOnce
  CombatIsComplete

PROPERTIES
  TurnMovesOn
