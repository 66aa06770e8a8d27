\* An activated ability with a sacrifice, two mays of one card, a multi and a lord of another.
CONSTANTS
  None = None
  c1 = c1
  c2 = c2
  Land = Land
  Card = Card
  Banner = Banner
  tap = tap
  may = may
  mana = mana
  multi = multi
  lord = lord
  Creatures = {c1, c2}
  Affected = {c1}
  Activated = {tap}
  Mays = {may, mana}
  Multis = {multi}
  Lords = {lord}
  ManaMays = {mana}
  MustMays = {may}
  CardOf <- CardOf_1
  MaxTargets <- MaxTargets_1
  Batches <- Batches_1
  MaxClones = 1
  MaxStack = 2

SPECIFICATION FairSpec

INVARIANTS
  ListIsKept
  MenuIsFresh
  WaitingIsCurrent

PROPERTIES
  OverlapNeedsMenu
  ChoicesEnd
