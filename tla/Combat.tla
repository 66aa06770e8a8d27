------------------------------- MODULE Combat -------------------------------
(***************************************************************************)
(* GuiCombat.cpp, which in spite of its name deals the combat damage: the  *)
(* attackers with their blockers, the damage assigned to them, and how     *)
(* each combat step is answered: by waiting for the player to assign       *)
(* damage, or by asking for the next step or phase at once.                *)
(*                                                                         *)
(* Creatures are roles: Attackers can attack for the player whose turn it  *)
(* is, Blockers belong to the other one.  Their power and toughness are    *)
(* positive, an attacker has power enough for all its blockers, and their  *)
(* abilities do not change; how a player spreads an attacker's damage over *)
(* its blockers is left out, and so are the pointers that a card keeps to  *)
(* creatures that left play.                                               *)
(***************************************************************************)
EXTENDS Integers, FiniteSets

CONSTANTS
  Attackers, Blockers,  \* creatures that can attack, creatures that can block
  FirstStrike, DoubleStrike, Trample,
  Nothing               \* nullptr where an attacker is expected

ASSUME CreaturesAssumption ==
  /\ Attackers \cap Blockers = {} /\ Nothing \notin Attackers
  /\ FirstStrike \cup DoubleStrike \cup Trample \subseteq Attackers \cup Blockers

Creatures == Attackers \cup Blockers

Steps == {"BLOCKERS", "TRIGGERS", "ORDER", "FIRST_STRIKE", "END_FIRST_STRIKE",
          "DAMAGE", "END_DAMAGE"}

VARIABLES
  attackers,   \* the creatures that attack
  blocking,    \* the attacker in whose list of blockers a creature is
  blocked,     \* MTGCardInstance::blocked
  assigned,    \* the attacker a blocker's damage has been put on
  step,        \* the step GuiCombat shows, which lags behind combatStep
  cursor_pos,  \* NONE: no damage to assign on the screen; ATK otherwise
  hits         \* how many times each creature has dealt damage in this combat

combatVars == <<attackers, blocking, blocked, assigned, step, cursor_pos, hits>>

BlockersOf(a) == {b \in Blockers : blocking[b] = a}

\* Mutant: first strikers strike in both steps.
StrikesTwice(c, s) ==
  s \in {"FIRST_STRIKE", "END_FIRST_STRIKE"} => c \in FirstStrike \cup DoubleStrike

\* Whether a creature has power in this step: stepPower.
Strikes(c, s) ==
  IF s \in {"FIRST_STRIKE", "END_FIRST_STRIKE"} THEN c \in FirstStrike \cup DoubleStrike
  ELSE c \notin FirstStrike \/ c \in DoubleStrike

\* autoaffectDamage, for every attacker: what its blockers do to it.
autoaffected(s) ==
  [b \in Blockers |-> IF blocking[b] \in attackers /\ Strikes(b, s) THEN blocking[b]
                      ELSE Nothing]

autoaffectDamage(s) == assigned' = autoaffected(s)

-----------------------------------------------------------------------------
(***************************************************************************)
(* resolve: an attacker with blockers hits them; one without hits the      *)
(* player unless it was blocked; tramplers may do both.  The blockers'     *)
(* damage is what has been assigned.                                       *)
(***************************************************************************)
Hitting(s, assignment) ==
  {a \in attackers : Strikes(a, s) /\ (BlockersOf(a) # {} \/ a \notin blocked \/ a \in Trample)}
    \cup {b \in Blockers : assignment[b] # Nothing}

resolve(s, assignment) ==
  hits' = [c \in Creatures |->
             IF c \in Hitting(s, assignment) THEN hits[c] + 1 ELSE hits[c]]

\* What the handler of a combat step asks of the game before it returns.
Requests == {"nothing", "nextCombatStep", "userRequestNextGamePhase"}

\* The attackers whose damage the player has a choice about.
Shown(s) ==
  \E a \in attackers :
    /\ a \in DoubleStrike \/ ((a \in FirstStrike) # (s = "DAMAGE"))
    /\ Cardinality(BlockersOf(a)) > IF a \in Trample THEN 0 ELSE 1

\* The label DAMAGE of receiveEventMinus; human is displayStack().
AssignDamage(s, human) ==
  /\ step' = s
  /\ autoaffectDamage(s)
  /\ cursor_pos' = IF human /\ Shown(s) THEN "ATK" ELSE cursor_pos
  /\ UNCHANGED <<attackers, blocking, blocked, hits>>

AssignRequest(s, human) ==
  IF ~human THEN "userRequestNextGamePhase"
  ELSE IF Shown(s) THEN "nothing" ELSE "nextCombatStep"

OnTriggers ==
  /\ step' = "TRIGGERS"
  /\ UNCHANGED <<attackers, blocking, blocked, assigned, cursor_pos, hits>>

NeedsOrder == \E a \in attackers : Cardinality(BlockersOf(a)) > 1

OnOrder(human) ==
  IF step = "ORDER" \/ ~human THEN UNCHANGED combatVars
  ELSE /\ autoaffectDamage("DAMAGE")
       /\ IF NeedsOrder THEN cursor_pos' = "ATK" /\ step' = "ORDER"
          ELSE UNCHANGED <<cursor_pos, step>>
       /\ UNCHANGED <<attackers, blocking, blocked, hits>>

OrderRequest(human) ==
  CASE step = "ORDER"                    -> "nothing"
    [] step # "ORDER" /\ ~human          -> "nextCombatStep"
    [] step # "ORDER" /\ human           ->
         IF NeedsOrder THEN "nothing" ELSE "userRequestNextGamePhase"

\* Only the attackers are looked at: first strikers among the blockers deal
\* their damage all the same, when the step ends.
FirstStrikers == attackers \cap (FirstStrike \cup DoubleStrike)

OnFirstStrike(human) ==
  IF FirstStrikers # {} THEN AssignDamage("FIRST_STRIKE", human)
  ELSE /\ step' = "FIRST_STRIKE"
       /\ UNCHANGED <<attackers, blocking, blocked, assigned, cursor_pos, hits>>

FirstStrikeRequest(human) ==
  IF FirstStrikers # {} THEN AssignRequest("FIRST_STRIKE", human) ELSE "nextCombatStep"

OnEndFirstStrike ==
  /\ step' = "END_FIRST_STRIKE"
  /\ autoaffectDamage("FIRST_STRIKE")
  /\ resolve("END_FIRST_STRIKE", autoaffected("FIRST_STRIKE"))
  /\ UNCHANGED <<attackers, blocking, blocked, cursor_pos>>

OnEndDamage ==
  /\ step' = "END_DAMAGE"
  /\ resolve("END_DAMAGE", assigned)
  /\ UNCHANGED <<attackers, blocking, blocked, assigned, cursor_pos>>

\* receiveEventMinus for a WEventCombatStepChange, and what it asks for.
OnStep(s, human) ==
  CASE s = "TRIGGERS"         -> OnTriggers
    [] s = "ORDER"            -> OnOrder(human)
    [] s = "FIRST_STRIKE"     -> OnFirstStrike(human)
    [] s = "END_FIRST_STRIKE" -> OnEndFirstStrike
    [] s = "DAMAGE"           -> AssignDamage("DAMAGE", human)
    [] s = "END_DAMAGE"       -> OnEndDamage

RequestAfter(s, human) ==
  CASE s = "TRIGGERS"         -> "nothing"
    [] s = "ORDER"            -> OrderRequest(human)
    [] s = "FIRST_STRIKE"     -> FirstStrikeRequest(human)
    [] s = "END_FIRST_STRIKE" ->
         IF Hitting("END_FIRST_STRIKE", autoaffected("FIRST_STRIKE")) = {}
         THEN "nextCombatStep" ELSE "nothing"
    [] s = "DAMAGE"           -> AssignRequest("DAMAGE", human)
    [] s = "END_DAMAGE"       ->
         IF Hitting("END_DAMAGE", assigned) = {} THEN "userRequestNextGamePhase"
         ELSE "nothing"

\* Mutant: a new phase does not take the damage screen away.
OnPhaseChangeKeepingScreen(to) ==
  /\ step' = IF to = "COMBATDAMAGE" THEN "BLOCKERS" ELSE step
  /\ UNCHANGED cursor_pos

\* receiveEventMinus for a WEventPhaseChange.
OnPhaseChange(to) ==
  IF to = "COMBATDAMAGE" THEN step' = "BLOCKERS" /\ UNCHANGED cursor_pos
  ELSE cursor_pos' = "NONE" /\ UNCHANGED step

-----------------------------------------------------------------------------
(* The creatures come and go. *)

\* An attacker that stops attacking takes its list of blockers, and the
\* damage on it, along.
Attacking(S) ==
  /\ attackers' = S
  /\ blocking' = [b \in Blockers |-> IF blocking[b] \in S THEN blocking[b] ELSE Nothing]
  /\ assigned' = [b \in Blockers |-> IF assigned[b] \in S THEN assigned[b] ELSE Nothing]

\* toggleDefenser, at the blockers step: b blocks a, or nothing any more.
Blocking(b, a) ==
  /\ blocking' = [blocking EXCEPT ![b] = a]
  /\ blocked' = (blocked \ {x \in Attackers : x = blocking[b] /\ BlockersOf(x) = {b}})
                  \cup (IF a = Nothing THEN {} ELSE {a})
  /\ UNCHANGED <<attackers, assigned, step, cursor_pos, hits>>

\* A creature leaves play.  What a blocker's damage was put on keeps it, and
\* an attacker stays blocked.
AttackerLeaves(a) ==
  /\ Attacking(attackers \ {a})
  /\ blocked' = blocked \ {a}
  /\ UNCHANGED <<step, cursor_pos, hits>>

BlockerLeaves(b) ==
  /\ blocking' = [blocking EXCEPT ![b] = Nothing]
  /\ UNCHANGED <<attackers, blocked, assigned, step, cursor_pos, hits>>

\* initAttackersDefensers for every creature: the cleanup of a turn.
CombatCleanup ==
  /\ attackers' = {} /\ blocked' = {}
  /\ blocking' = [b \in Blockers |-> Nothing]
  /\ assigned' = [b \in Blockers |-> Nothing]
  /\ hits' = [c \in Creatures |-> 0]
  /\ UNCHANGED <<step, cursor_pos>>

CombatInit ==
  /\ attackers = {} /\ blocked = {}
  /\ blocking = [b \in Blockers |-> Nothing]
  /\ assigned = [b \in Blockers |-> Nothing]
  /\ step = "DAMAGE" /\ cursor_pos = "NONE"
  /\ hits = [c \in Creatures |-> 0]
=============================================================================
