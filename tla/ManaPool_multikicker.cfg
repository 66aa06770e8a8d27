\* A card that can be kicked more than once, by the menu entry that asks for it.
CONSTANTS
  None = None
  AnyX = AnyX
  NoX = NoX
  Either = Either
  Twobrid = Twobrid
  Blaze = Blaze
  Drain = Drain
  Raider = Raider
  Prism = Prism
  Hawks = Hawks
  Cards = {Hawks}
  Printed <- Printed_1
  Kicker <- Kicker_1
  Multikickers = {Hawks}
  Sunbursts = {}
  Abilities <- Abilities_1
  Outputs <- Outputs_1
  LastColour = 2
  Half = 4
  KickerAlways = FALSE
  MaxIcons = 6

SPECIFICATION Spec

PROPERTIES
  PaymentsLeaveNoDebt
