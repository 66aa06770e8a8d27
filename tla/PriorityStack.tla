---------------------------- MODULE PriorityStack ----------------------------
(***************************************************************************)
(* What the interrupt protocol of the action stack promises to a player:   *)
(* the newest thing on the stack waits until both players have passed on   *)
(* it (or it cannot be answered), a pass given before something new was    *)
(* added does not count for it, and only the newest thing resolves.        *)
(* Module ActionStack, the detailed protocol, implements Spec.             *)
(***************************************************************************)
EXTENDS Naturals, Sequences, SequencesExt

CONSTANTS
  Players,        \* the two players
  Kinds,          \* the kinds of things put on the stack
  Unanswerable    \* the kinds that resolve without an offer (split second)

VARIABLES
  items,          \* what waits on the stack, oldest first
  passed          \* the players whose last word on the newest item is "no"

vars == <<items, passed>>

TypeOK == items \in Seq(Kinds) /\ passed \in SUBSET Players

Init == items = <<>> /\ passed = {}

\* Something is put on the stack: at most the player who did it has passed.
Push == /\ IsStrictPrefix(items, items')
        /\ \/ passed' = {}
           \/ \E p \in Players : passed' = {p}

\* p says no, for this item or for everything.
Pass(p) == passed' = passed \cup {p} /\ UNCHANGED items

\* Players take their word back: one by interrupting or by ending an
\* interruption, both when something happens that needs no answer.
Claim(ps) == passed' = passed \ ps /\ UNCHANGED items

\* What can be left below the newest item: it may counter one of the others.
Leavings == LET below == Front(items)
            IN {below} \cup {RemoveAt(below, i) : i \in DOMAIN below}

(***************************************************************************)
(* The newest item resolves.  A pass on the others survives only when it   *)
(* was given for the whole stack, and never when the effect adds a new     *)
(* item.                                                                   *)
(***************************************************************************)
Resolve == /\ items # <<>>
           /\ passed = Players \/ Last(items) \in Unanswerable
           /\ \E left \in Leavings :
                \/ items' = left /\ passed' \subseteq passed
                \/ IsStrictPrefix(left, items') /\ passed' = {}

Next == \/ Push
        \/ Resolve
        \/ \E p \in Players : Pass(p)
        \/ \E ps \in SUBSET Players : Claim(ps)

Spec == Init /\ [][Next]_vars
=============================================================================
