\* One creature of each kind the code tells apart, one of them in play besides
\* a bystander: the others are in the graveyard, where the one with persist or
\* undying goes and comes back from.
CONSTANTS
  Creatures = {finks, geist, colossus, hydra, bear}
  Toughness <- Printing
  Indestructible = {colossus}
  Persisting = {finks}
  Undying = {geist}
  Wilting = {}
  Hydra = {hydra}
  MaxCounters = 1
  MaxDamage = 1
  MaxShields = 1
  Bystanders = {bear}
  MaxInPlay = 1
SPECIFICATION Spec
INVARIANTS
  DamageIsMarked
  NoneDeadIsForgotten
  DeathtouchKills
  ReturnsStay
