---------------------------- MODULE MCActionLayer ----------------------------
EXTENDS ActionLayer

CONSTANTS c1, c2, Land, Card, Banner
CONSTANTS tap, may, mana, multi, lord

CardOf_1 == (tap :> Land) @@ (may :> Card) @@ (mana :> Card) @@ (multi :> Banner) @@ (lord :> Banner)
MaxTargets_1 == (tap :> 1) @@ (may :> 2) @@ (mana :> 0)
Batches_1 == {<<may>>, <<mana>>, <<may, mana>>, <<mana, may>>}
=============================================================================
