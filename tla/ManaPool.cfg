\* Three kinds of mana; hybrid, X, kicked and sunburst costs; kickers are asked for.
CONSTANTS
  None = None
  AnyX = AnyX
  NoX = NoX
  Either = Either
  Twobrid = Twobrid
  Blaze = Blaze
  Drain = Drain
  Raider = Raider
  Prism = Prism
  Hawks = Hawks
  Cards = {Either, Twobrid, Blaze, Drain, Raider, Prism}
  Printed <- Printed_1
  Kicker <- Kicker_1
  Multikickers = {}
  Sunbursts = {Prism}
  Abilities <- Abilities_1
  Outputs <- Outputs_1
  LastColour = 2
  Half = 4
  KickerAlways = FALSE
  MaxIcons = 6

SPECIFICATION Spec

INVARIANTS
  CanAffordIsRight
  PoolIsShown

PROPERTIES
  PaymentsLeaveNoDebt
  CostsAreHonoured
