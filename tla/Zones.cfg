\* A creature that may be unearthed, one that persists, an instant and a token.
CONSTANTS
  Creatures = {zombie, hound}
  Instants = {bolt}
  Tokens = {angel}
  Persisting = {hound}
  Effects <- FourEffects
  MaxStack = 1

\* A player with all cards gone from library, hand and play has nothing to do here.
CHECK_DEADLOCK FALSE

SPECIFICATION FairSpec

INVARIANTS
  OneZonePerCard
  InBetweenIsKept
  GoneForGood
  EventsTellTheWay

PROPERTIES
  PlacedOnTop
  EventsDrain
