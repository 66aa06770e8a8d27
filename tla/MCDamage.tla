------------------------------ MODULE MCDamage ------------------------------
(* The instance of Damage that TLC checks.                                  *)
EXTENDS Damage

\* Creatures of toughness 2, but for the one with undying, which a single
\* -1/-1 counter kills, and for bystanders.
Printing == [c \in Creatures |-> IF c \in Undying \cup Bystanders THEN 1 ELSE 2]
=============================================================================
