------------------------------- MODULE MCZones -------------------------------
(***************************************************************************)
(* Values of Zones' constants that a configuration cannot write down.       *)
(***************************************************************************)
EXTENDS Zones

\* A removal to the library, a tutor, unearth and a blink.
FourEffects ==
  {<<"move", "battlefield", "library">>, <<"move", "library", "library">>,
   <<"unearth", "graveyard", "battlefield">>, <<"blink", "battlefield", "exile">>}
==============================================================================
