------------------------------ MODULE MCTurnFlow ------------------------------
(***************************************************************************)
(* Values of TurnFlow's constants that a configuration cannot write down.  *)
(***************************************************************************)
EXTENDS TurnFlow

NoSkips == {}

\* The declaration of attackers.
Attacks == {<<"COMBATATTACKERS">>}

\* What False Peace, Moment of Silence and others skip.
WholeCombat == {CombatPhases}
===============================================================================
