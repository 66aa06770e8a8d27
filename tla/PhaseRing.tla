------------------------------ MODULE PhaseRing ------------------------------
(***************************************************************************)
(* The phases of a turn (PhaseRing.cpp): turn is the list that is being    *)
(* played, current the phase the game is in.  A list is replaced when its  *)
(* last phase has been played; cards insert extra phases into it and       *)
(* remove phases from it.                                                  *)
(*                                                                         *)
(* std::list iterators stay on their element when others are inserted or   *)
(* erased; here current is an index, moved along with its element.         *)
(***************************************************************************)
EXTENDS Integers, Sequences, SequencesExt, FiniteSetsExt

Players == {0, 1}
Other(p) == 1 - p

\* The fourteen phases of GamePhase, in the order of the default rules.
GamePhases ==
  <<"BEFORE_BEGIN", "UNTAP", "UPKEEP", "DRAW", "FIRSTMAIN", "COMBATBEGIN",
    "COMBATATTACKERS", "COMBATBLOCKERS", "COMBATDAMAGE", "COMBATEND",
    "SECONDMAIN", "ENDOFTURN", "CLEANUP", "AFTER_EOT">>

CombatPhases ==
  <<"COMBATBEGIN", "COMBATATTACKERS", "COMBATBLOCKERS", "COMBATDAMAGE", "COMBATEND">>

PhaseIds == {GamePhases[i] : i \in DOMAIN GamePhases}

\* A phase of a list: extra tells the copies inserted in it apart, 0 is none.
Phases == [id : PhaseIds, extra : Nat]

VARIABLES turn, current

ring == <<turn, current>>

Phase(id) == [id |-> id, extra |-> 0]

\* gameTurn: the complete turn, as the constructor builds it for each player.
GameTurn == [i \in DOMAIN GamePhases |-> Phase(GamePhases[i])]

currentPhase == turn[current].id

\* Mutant: the last one.
LastIndexOf(id) == SelectLastInSeq(turn, LAMBDA ph : ph.id = id)

\* The first phase of the list with this id, 0 if there is none.
IndexOf(id) == SelectInSeq(turn, LAMBDA ph : ph.id = id)

-----------------------------------------------------------------------------
\* The copies of one insertion share a number no phase of the list has.
NextExtra == 1 + Max({turn[i].extra : i \in DOMAIN turn})

\* Mutant: the copies go to the end of the turn.
AtTheEnd(added, at) == turn \o added

\* Mutant: off by one, the phase in front comes again behind.
AfterIndexAgain(added, at) == SubSeq(turn, 1, at) \o added \o SubSeq(turn, at, Len(turn))

AfterIndex(added, at) == SubSeq(turn, 1, at) \o added \o SubSeq(turn, at + 1, Len(turn))

\* Mutant: always on to the phase behind.
CursorAlwaysOn(at) == at + 1

\* Where addCombatAfter leaves the cursor.
CursorAfter(at) ==
  CASE current = at -> at
    [] current > at -> at + 1
    [] current < at -> 0

(***************************************************************************)
(* addCombatAfter: copies of the combat phases go behind the FIRST phase   *)
(* with the given id.  If that is not the phase the game is in, the        *)
(* cursor is moved back to it and then to the first of the copies.  (Were  *)
(* it ahead of the cursor, the loop would run off the list.)               *)
(***************************************************************************)
addCombatAfter(after, withMain) ==
  LET ids == CombatPhases \o IF withMain THEN <<"SECONDMAIN">> ELSE <<>>
      added == [i \in DOMAIN ids |-> [id |-> ids[i], extra |-> NextExtra]]
      at == IndexOf(after)
  IN IF at = 0 THEN UNCHANGED ring
     ELSE /\ turn' = AfterIndex(added, at)
          /\ current' = CursorAfter(at)

\* removePhase: the first phase with this id; a cursor on it moves on.
removePhase(id) ==
  LET at == IndexOf(id)
  IN IF at = 0 THEN UNCHANGED ring
     ELSE /\ turn' = RemoveAt(turn, at)
          /\ current' = IF current > at THEN current - 1 ELSE current
=============================================================================
