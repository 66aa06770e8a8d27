----------------------------- MODULE MCManaPool -----------------------------
EXTENDS ManaPool, TLC

CONSTANTS Either, Twobrid, Blaze, Drain, Raider, Prism, Hawks

Mana(a, b, c) == (0 :> a) @@ (1 :> b) @@ (2 :> c)
A(mana, x, hybrids) == [mana |-> mana, x |-> x, hybrids |-> hybrids]
H(c1, v1, c2, v2) == [color1 |-> c1, value1 |-> v1, color2 |-> c2, value2 |-> v2]

\* {1}{c1/c2}{c2/c1}, {1}{2/c1}, {X}{1}{c1/c2}, {1}{X: c2}, {1}, {2}, {1}{c1}; the kicker is {c2}
Printed_1 ==
  (Either  :> A(Mana(1, 0, 0), NoX, <<H(1, 1, 2, 1), H(2, 1, 1, 1)>>)) @@
  (Twobrid :> A(Mana(1, 0, 0), NoX, <<H(0, 2, 1, 1)>>)) @@
  (Blaze   :> A(Mana(1, 0, 0), AnyX, <<H(1, 1, 2, 1)>>)) @@
  (Drain   :> A(Mana(1, 0, 0), 2, <<>>)) @@
  (Raider  :> A(Mana(1, 0, 0), NoX, <<>>)) @@
  (Prism   :> A(Mana(2, 0, 0), NoX, <<>>)) @@
  (Hawks   :> A(Mana(1, 1, 0), NoX, <<>>))
Kicker_1 == [card \in Cards |-> IF card \in {Raider, Hawks} THEN A(Mana(0, 0, 1), NoX, <<>>) ELSE None]
Abilities_1 == {A(Mana(0, 1, 0), AnyX, <<>>), A(Mana(2, 0, 1), NoX, <<>>)}
Outputs_1 == {Mana(2, 0, 0), Mana(0, 1, 0), Mana(0, 0, 1)}
=============================================================================
