----------------------------- MODULE ActionLayer -----------------------------
(***************************************************************************)
(* The abilities in play, which ActionLayer.cpp keeps in one list and      *)
(* walks once a frame: backwards to remove those that are over, then       *)
(* forwards to update the others.  The kinds of abilities that add or      *)
(* remove others while the list is walked are modelled one by one: the     *)
(* MayAbility, which opens the menu, takes the game for its player and     *)
(* adds a clone of what it offers; the MultiAbility and the ALord, which   *)
(* own other abilities of the list.  An activated ability costs a          *)
(* sacrifice, which the player chooses (GameObserver::mExtraPayment)       *)
(* before the targets.                                                     *)
(*                                                                         *)
(* The player is a human, in a turn of its own.  Of the stack this module  *)
(* keeps what is on it and whether the player has taken the game: the      *)
(* offers in between are those of ActionStack, whose abstraction           *)
(* (PriorityStack) is what StackUpdate does.                               *)
(***************************************************************************)
EXTENDS Naturals, Sequences, SequencesExt, FiniteSets

CONSTANTS
  None,        \* nullptr
  Creatures,   \* cards that are targeted and sacrificed
  Affected,    \* the creatures that the lords affect
  Activated,   \* target abilities of cards in play that cost a sacrifice
  Mays,        \* MayAbility
  Multis,      \* MultiAbility, around one ability
  Lords,       \* ALord, giving an ability to other cards
  CardOf,      \* the card each ability is on
  MaxTargets,  \* maxtargets of an ability's TargetChooser; 0: it targets nothing
  ManaMays,    \* the mays that offer mana, which does not use the stack
  MustMays,    \* the mays that must be used
  Batches,     \* the mays that can come into play together, in order
  MaxClones,   \* bound: clones of one may in the list
  MaxStack     \* bound: objects on the stack

Abilities == Activated \cup Mays \cup Multis \cup Lords
Cards     == {CardOf[a] : a \in Abilities}

ASSUME LimitAssumption == /\ \A a \in Activated \cup Mays : MaxTargets[a] \in Nat
                          /\ \A a \in Activated : MaxTargets[a] > 0
                          /\ \A m \in ManaMays : m \in Mays /\ MaxTargets[m] = 0
                          /\ MustMays \subseteq Mays
                          /\ Batches \subseteq Seq(Mays)
ASSUME BoundAssumption == MaxClones \in Nat \ {0} /\ MaxStack \in Nat \ {0}

(* The elements of the list: an ability itself, or one that it added. *)
Self(a)     == <<a, 0>>
Clone(m, k) == <<m, k>>
Part(u)     == <<u, 1>>
Child(l, c) == <<l, c>>

Selves(S)  == {Self(a) : a \in S}
CloneIds   == {Clone(m, k) : m \in Mays, k \in 1..MaxClones}
ChildIds   == {Child(l, c) : l \in Lords, c \in Affected}
Ids        == Selves(Abilities) \cup CloneIds \cup {Part(u) : u \in Multis} \cup ChildIds
Choosers   == Selves(Activated) \cup {x \in CloneIds : MaxTargets[x[1]] > 0}

ASSUME CardAssumption  == /\ DOMAIN CardOf = Abilities
                          /\ DOMAIN MaxTargets = Activated \cup Mays
                          /\ None \notin Creatures \cup Cards
                          /\ None \notin Ids
                          /\ Affected \subseteq Creatures

Source(x) == IF x \in ChildIds THEN x[2] ELSE CardOf[x[1]]

VARIABLES
  mObjects,             \* the list of the layer
  forceDestroy,         \* abilities that are to be removed
  waiting,              \* abilities with waitingForAnswer
  currentWaitingAction, \* the one the clicks go to, or None
  targets,              \* the cards each TargetChooser holds
  done,                 \* the choosers that take no more targets than they hold
  cantCancel,
  menuObject,           \* the card the menu is about, or None
  menu,                 \* the entries: indices into mObjects
  mExtraPayment,        \* the ability a payment is being chosen for, or None
  payment,              \* the creature chosen to be sacrificed for an ability, or None
  triggered,            \* the mays that have made their offer
  mClone,               \* the last clone of each may; 0: none
  previousInterrupter,  \* whether the player had the game before each may's offer
  isInterrupting,       \* whether the player has taken the game
  stack,                \* unresolved objects; None stands for a change of phase
  inPlay,               \* the cards in play
  changed,              \* creatures with mPropertiesChangedSinceLastUpdate
  stuffHappened,        \* the layer is to be updated once more in this frame
  asserted,             \* the assertion of setCurrentWaitingAction has failed
  frame                 \* what the frame does next

choice  == <<waiting, currentWaitingAction, targets, done, cantCancel>>
menus   == <<menuObject, menu>>
extra   == <<mExtraPayment, payment>>
mays    == <<triggered, mClone, previousInterrupter>>
game    == <<isInterrupting, stack, inPlay, changed>>
control == <<stuffHappened, asserted, frame>>
vars == <<mObjects, forceDestroy, choice, menus, extra, mays, game, control>>

Listed == ToSet(mObjects)

isWaitingForAnswer == IF currentWaitingAction \in waiting THEN currentWaitingAction ELSE None
TargetChoosing     == isWaitingForAnswer # None
ValidTargets       == Creatures \cap inPlay

-----------------------------------------------------------------------------
(* Update, first part: the walk that removes what is over. *)

InUse(x) == x \in ToSet(stack) \/ x \in waiting

(***************************************************************************)
(* The state the walk changes: the list, what is forced out of it, who has *)
(* the game, and the index.                                                *)
(***************************************************************************)
testDestroy(w, x) ==
  IF x \in Selves(Mays)
  THEN /\ x[1] \in triggered
       /\ menuObject = None
       /\ mClone[x[1]] = 0 \/ Clone(x[1], mClone[x[1]]) \notin ToSet(w.objs)
  ELSE /\ ~InUse(x)
       /\ x \in w.forced \/ Source(x) \notin inPlay

(* A may that offered mana gives the game back, unless targets are chosen. *)
GivenBack(w, x) ==
  IF x[1] \in ManaMays /\ x \in Selves(Mays) /\ w.held /\ ~TargetChoosing
  THEN previousInterrupter[x[1]] ELSE w.held

(* What leaves the list with x: a lord takes its children with it. *)
RemovedWith(x) == {x} \cup IF x \in Selves(Lords) THEN {Child(x[1], c) : c \in Affected} ELSE {}

removeFromGame(w, x) ==
  [w EXCEPT !.objs   = SelectSeq(w.objs, LAMBDA y : y \notin RemovedWith(x)),
            !.forced = (w.forced \ {x}) \cup IF x \in Selves(Multis) THEN {Part(x[1])} ELSE {},
            !.held   = GivenBack(w, x)]

\* Mutant: the walk goes forwards, and its index does not notice what was removed.
WalkForwards(w, n) ==
  LET i == n + 1 - w.i
      d == IF i \in DOMAIN w.objs /\ testDestroy(w, w.objs[i])
           THEN removeFromGame(w, w.objs[i]) ELSE w
  IN [d EXCEPT !.i = w.i - 1]

(* One turn of the loop of n: the index jumps when the list has shrunk under it. *)
WalkStep(w, n) ==
  LET i == IF w.i > Len(w.objs) THEN Len(w.objs) ELSE w.i
      d == IF i > 0 /\ testDestroy(w, w.objs[i]) THEN removeFromGame(w, w.objs[i]) ELSE w
  IN [d EXCEPT !.i = IF i > 0 THEN i - 1 ELSE 0]

Walked ==
  LET n == Len(mObjects)
      start == [objs |-> mObjects, forced |-> forceDestroy, held |-> isInterrupting, i |-> n]
  IN FoldLeft(LAMBDA w, j : WalkStep(w, n), start, [j \in 1..n |-> j])

(* What an ability that is gone remembered is gone with it. *)
Forgotten(gone) ==
  /\ targets' = [x \in Choosers |-> IF x \in gone THEN {} ELSE targets[x]]
  /\ done' = done \ gone
  /\ triggered' = {m \in triggered : Self(m) \notin gone}
  /\ mClone' = [m \in Mays |-> IF Self(m) \in gone THEN 0 ELSE mClone[m]]
  /\ previousInterrupter' = [m \in Mays |-> previousInterrupter[m] /\ Self(m) \notin gone]

\* Mutant: the abilities are updated under an open menu.
MenuIgnored == TRUE

MenuClosed == menuObject = None

Walk ==
  /\ frame = "walk" /\ MenuClosed
  /\ LET w == Walked
     IN /\ mObjects' = w.objs
        /\ forceDestroy' = w.forced
        /\ isInterrupting' = w.held
        /\ Forgotten(Listed \ ToSet(w.objs))
  /\ frame' = "update"
  /\ UNCHANGED <<waiting, currentWaitingAction, cantCancel, menus, extra,
                 stack, inPlay, changed, stuffHappened, asserted>>

-----------------------------------------------------------------------------
(* Update, second part: every ability's Update, first to last. *)

(* Abilities without a cost that answer a click on the card, in play or not. *)
Answers(objs, card) ==
  {i \in DOMAIN objs : objs[i] \in CloneIds \cup Selves(Mays) /\ Source(objs[i]) = card}

(* Those with a cost, which share no menu with the others. *)
AnswersForACost(objs, card) ==
  {i \in DOMAIN objs : objs[i] \in Selves(Activated) /\ Source(objs[i]) = card}

setMenuObject(objs, card) ==
  IF Answers(objs, card) # {} THEN Answers(objs, card) ELSE AnswersForACost(objs, card)

\* A may waits until no other ability's targets are being chosen.
MakesOffer(u, m) == m \notin u.triggered /\ ~TargetChoosing

UpdateMay(u, m) ==
  IF MaxTargets[m] > 0 /\ ValidTargets = {}
  THEN [u EXCEPT !.triggered = @ \cup {m}]
  ELSE [u EXCEPT !.triggered = @ \cup {m},
                 !.menuObject = CardOf[m],
                 !.menu       = setMenuObject(u.objs, CardOf[m]),
                 !.cantCancel = @ \/ m \in MustMays,
                 !.before     = [@ EXCEPT ![m] = u.held],
                 !.held       = TRUE]

(* updateTargets: a creature that has changed loses its child and gets a new one. *)
UpdateLord(u, l) ==
  LET gone  == {Child(l, c) : c \in (Affected \ inPlay) \cup changed}
      kept  == SelectSeq(u.objs, LAMBDA y : y \notin gone)
      added == {Child(l, c) : c \in Affected \cap inPlay} \ ToSet(kept)
  IN [u EXCEPT !.objs = kept \o SetToSeq(added)]

UpdateOne(u, i) ==
  LET x == u.objs[i]
  IN IF i \notin DOMAIN u.objs THEN u
     ELSE IF x \in Selves(Lords) THEN UpdateLord(u, x[1])
     ELSE IF x \in Selves(Mays) /\ MakesOffer(u, x[1]) THEN UpdateMay(u, x[1])
     ELSE u

Updated ==
  FoldLeft(UpdateOne,
           [objs |-> mObjects, triggered |-> triggered, menuObject |-> None, menu |-> {},
            cantCancel |-> cantCancel, before |-> previousInterrupter, held |-> isInterrupting],
           [i \in 1..Len(mObjects) |-> i])

(* What a forced choice of too few targets comes to. *)
Hopeless(cancelled) == cancelled /\ TargetChoosing /\ ValidTargets = {}
RunsShort(x) ==
  /\ Cardinality(ValidTargets) < MaxTargets[x[1]]
  /\ Cardinality(targets[x]) + 1 = Cardinality(ValidTargets)

ForcedChoice(forced) ==
  /\ IF Hopeless(forced)
     THEN /\ waiting' = waiting \ {currentWaitingAction}
          /\ currentWaitingAction' = None
          /\ cantCancel' = FALSE
     ELSE UNCHANGED <<waiting, currentWaitingAction>> /\ cantCancel' = forced
  /\ done' = IF forced /\ TargetChoosing /\ ~Hopeless(forced) /\ RunsShort(currentWaitingAction)
             THEN done \cup {currentWaitingAction} ELSE done
  /\ UNCHANGED targets

(* The frame loop repeats Update once when a click has done something. *)
AfterUpdate ==
  /\ frame' = IF stuffHappened THEN "effects" ELSE "input"
  /\ stuffHappened' = FALSE

UpdateAll ==
  /\ frame = "update"
  /\ LET u == Updated
     IN /\ mObjects' = u.objs
        /\ triggered' = u.triggered
        /\ menuObject' = u.menuObject
        /\ menu' = u.menu
        /\ previousInterrupter' = u.before
        /\ isInterrupting' = u.held
        /\ ForcedChoice(u.cantCancel)
  /\ AfterUpdate
  /\ UNCHANGED <<forceDestroy, extra, mClone, stack, inPlay, changed, asserted>>

-----------------------------------------------------------------------------
(* Choosing targets and payments. *)

(***************************************************************************)
(* The parts of the state a click works on, as a record: the operators     *)
(* below follow the calls from a click down to the payment.                *)
(***************************************************************************)
Clicked == [waiting |-> waiting, current |-> currentWaitingAction, targets |-> targets,
            cantCancel |-> cantCancel, owed |-> mExtraPayment, payment |-> payment,
            objs |-> mObjects, forced |-> forceDestroy, clone |-> mClone,
            stack |-> stack, inPlay |-> inPlay,
            stuff |-> stuffHappened, asserted |-> asserted]

Becomes(d) ==
  /\ waiting' = d.waiting
  /\ currentWaitingAction' = d.current
  /\ targets' = d.targets
  /\ cantCancel' = d.cantCancel
  /\ mExtraPayment' = d.owed
  /\ payment' = d.payment
  /\ mObjects' = d.objs
  /\ forceDestroy' = d.forced
  /\ mClone' = d.clone
  /\ stack' = d.stack
  /\ inPlay' = d.inPlay
  /\ stuffHappened' = d.stuff
  /\ asserted' = d.asserted
  /\ Len(d.stack) <= MaxStack

(* waitingForAnswer and setCurrentWaitingAction, with its assertion. *)
StartsWaiting(d, x) ==
  [d EXCEPT !.waiting  = @ \cup {x},
            !.current  = x,
            !.targets  = [@ EXCEPT ![x] = {}],
            !.asserted = @ \/ d.current # None]

\* Mutant: the choice ends, but the ability still waits.
StopsChoosing(d, x) == [d EXCEPT !.current = None, !.cantCancel = FALSE]

\* Mutant: the ability no longer waits, but still gets the clicks.
StaysCurrent(d, x) == [d EXCEPT !.waiting = @ \ {x}, !.cantCancel = FALSE]

StopsWaiting(d, x) ==
  [d EXCEPT !.waiting = @ \ {x}, !.current = None, !.cantCancel = FALSE]

Owes(d, x) == x \in Selves(Activated) /\ d.payment[x[1]] = None

(* ActivatedAbility::reactToClick: asks for the payment, or pays and fires. *)
Activates(d, x) ==
  IF Owes(d, x) THEN [d EXCEPT !.owed = x]
  ELSE LET paid == IF x \in Selves(Activated)
                   THEN [d EXCEPT !.inPlay  = @ \ {d.payment[x[1]]},
                                  !.payment = [@ EXCEPT ![x[1]] = None]]
                   ELSE d
       IN IF x[1] \in ManaMays THEN [paid EXCEPT !.stuff = TRUE]
          ELSE [paid EXCEPT !.stack = Append(@, x), !.stuff = TRUE]

(* TargetsList::toggleTarget; a chooser of one target changes its mind. *)
toggleTarget(x, t, card) ==
  IF card \in t THEN t \ {card}
  ELSE IF card \notin ValidTargets THEN t
  ELSE IF MaxTargets[x[1]] = 1 THEN {card}
  ELSE t \cup {card}

Ready(x, t) == t # {}

\* Mutant: off by one, a chooser is full when it holds more than it may.
MoreThanFull(x, t) == t # {} /\ Cardinality(t) > MaxTargets[x[1]]

Full(x, t) == t # {} /\ (Cardinality(t) >= MaxTargets[x[1]] \/ x \in done)

(***************************************************************************)
(* TargetAbility::reactToClick.  Its own card ends the choice; another     *)
(* card is added or taken back, and the ability fires once it is full.     *)
(***************************************************************************)
TargetsClick(d, x, card) ==
  IF x \notin d.waiting
  THEN IF Owes(d, x) THEN [d EXCEPT !.owed = x]
       ELSE [StartsWaiting(d, x) EXCEPT !.stuff = TRUE]
  ELSE IF card = Source(x) /\ Ready(x, d.targets[x])
  THEN Activates(StopsWaiting(d, x), x)
  ELSE LET t == toggleTarget(x, d.targets[x], card)
           e == [d EXCEPT !.targets = [@ EXCEPT ![x] = t], !.stuff = TRUE]
       IN IF card \notin d.targets[x] /\ Full(x, t) THEN
            IF Owes(d, x) THEN [Activates(e, x) EXCEPT !.stuff = d.stuff]
            ELSE StopsWaiting(Activates(e, x), x)
          ELSE e

ReactToClick(d, x, card) ==
  IF x \in Choosers THEN TargetsClick(d, x, card) ELSE Activates(d, x)

-----------------------------------------------------------------------------
(* The menu, which reads its key during the layer's Update. *)

FreshClone(m) == CHOOSE k \in 1..MaxClones : Clone(m, k) \notin Listed

(* MayAbility::reactToTargetClick. *)
UseMay(d, m, card) ==
  LET x == Clone(m, FreshClone(m))
  IN [ReactToClick([d EXCEPT !.objs   = Append(@, x),
                             !.forced = @ \cup {x},
                             !.clone  = [@ EXCEPT ![m] = x[2]]], x, card)
      EXCEPT !.stuff = d.stuff]

EntryReacts(x) ==
  IF x \in Selves(Mays) THEN UseMay(Clicked, x[1], menuObject)
  ELSE ReactToClick(Clicked, x, menuObject)

(***************************************************************************)
(* ButtonPressed on an entry, which is an index that the list may have     *)
(* outlived: then nothing happens and the menu stays.                      *)
(***************************************************************************)
ChooseEntry(i) ==
  /\ i \in menu
  /\ i \in DOMAIN mObjects /\ mObjects[i] \in Selves(Mays) =>
       \E k \in 1..MaxClones : Clone(mObjects[i][1], k) \notin Listed
  /\ LET chosen == IF i \in DOMAIN mObjects THEN EntryReacts(mObjects[i]) ELSE Clicked
     IN Becomes([chosen EXCEPT !.stuff = FALSE])
  /\ menuObject' = IF i \in DOMAIN mObjects THEN None ELSE menuObject
  /\ menu' = IF i \in DOMAIN mObjects THEN {} ELSE menu
  /\ UNCHANGED isInterrupting

(* The entry Cancel, or the menu key, which a menu that must be used takes too. *)
CancelMenu ==
  /\ menuObject' = None /\ menu' = {}
  /\ isInterrupting' = FALSE
  /\ Becomes([Clicked EXCEPT !.stuff = FALSE])

UpdateMenu ==
  /\ frame = "walk" /\ menuObject # None
  /\ \/ \E i \in menu : ChooseEntry(i)
     \/ CancelMenu
     \/ Becomes([Clicked EXCEPT !.stuff = FALSE]) /\ UNCHANGED <<menus, isInterrupting>>
  /\ frame' = IF stuffHappened THEN "effects" ELSE "input"
  /\ UNCHANGED <<done, triggered, previousInterrupter, changed>>

-----------------------------------------------------------------------------
(* The player's input, once the layers are updated. *)

InputDone == frame' = IF stuffHappened' THEN "walk" ELSE "effects"

(* An offer to take the game keeps every key from the other layers. *)
NoOffer == stack = <<>> \/ isInterrupting

(* ActionLayer::cancelCurrentAction. *)
Cancelled(d) ==
  IF TargetChoosing /\ ~(cantCancel /\ ValidTargets # {})
  THEN StopsWaiting(d, currentWaitingAction) ELSE d

(* JGE_BTN_SEC goes to the stack, then to the payment, then to the choice. *)
SecondaryKey ==
  /\ frame = "input" /\ NoOffer
  /\ IF isInterrupting THEN isInterrupting' = FALSE /\ Becomes(Clicked)
     ELSE /\ UNCHANGED isInterrupting
          /\ Becomes(IF mExtraPayment # None THEN [Clicked EXCEPT !.owed = None]
                     ELSE Cancelled(Clicked))
  /\ InputDone
  /\ UNCHANGED <<done, menus, triggered, previousInterrupter, changed>>

(* WaitForExtraPayment: a creature in play is taken as the payment. *)
tryToSetPayment(d, card) ==
  LET a == d.owed[1]
  IN IF d.payment[a] = None /\ card \in ValidTargets
     THEN [d EXCEPT !.payment = [@ EXCEPT ![a] = card]] ELSE d

WaitForExtraPayment(d, card) ==
  LET p == tryToSetPayment(d, card)
  IN IF p.payment[p.owed[1]] = None THEN p
     ELSE [ReactToClick(p, p.owed, Source(p.owed)) EXCEPT !.owed = None]

(* The abilities of a card in play that answer a click on it. *)
IsReacting(card) ==
  {i \in DOMAIN mObjects : mObjects[i] \in CloneIds \cup Selves(Activated)
                           /\ Source(mObjects[i]) = card}

(* GameObserver::cardClick: payment, then targets, then the card's own abilities. *)
CardClick(card) ==
  /\ frame = "input" /\ NoOffer
  /\ card \in inPlay
  /\ IF mExtraPayment # None
     THEN Becomes(WaitForExtraPayment(Clicked, card)) /\ UNCHANGED menus
     ELSE IF TargetChoosing
     THEN Becomes(ReactToClick(Clicked, currentWaitingAction, card)) /\ UNCHANGED menus
     ELSE IF Cardinality(IsReacting(card)) > 1
     THEN /\ Becomes(Clicked)
          /\ menuObject' = card /\ menu' = setMenuObject(mObjects, card)
     ELSE /\ IsReacting(card) # {}
          /\ \E i \in IsReacting(card) : Becomes(ReactToClick(Clicked, mObjects[i], card))
          /\ UNCHANGED menus
  /\ InputDone
  /\ UNCHANGED <<done, triggered, previousInterrupter, isInterrupting, changed>>

(* The phase goes on through the stack, if nothing is being chosen. *)
RequestNextPhase ==
  /\ frame = "input"
  /\ stack = <<>> /\ menuObject = None /\ ~TargetChoosing /\ mExtraPayment = None
  /\ stack' = <<None>>
  /\ frame' = "effects"
  /\ UNCHANGED <<mObjects, forceDestroy, choice, menus, extra, mays,
                 isInterrupting, inPlay, changed, stuffHappened, asserted>>

NoInput ==
  /\ frame = "input"
  /\ frame' = "effects"
  /\ UNCHANGED <<mObjects, forceDestroy, choice, menus, extra, mays, game, stuffHappened, asserted>>

(* What of gameStateBasedEffects concerns the layer. *)
GameStateBasedEffects ==
  /\ frame = "effects"
  /\ done' = IF TargetChoosing /\ Cardinality(targets[currentWaitingAction]) = MaxTargets[currentWaitingAction[1]]
             THEN done \cup {currentWaitingAction} ELSE done
  /\ changed' = IF stack = <<>> /\ menuObject = None /\ ~TargetChoosing THEN {} ELSE changed
  /\ frame' = "stack"
  /\ UNCHANGED <<mObjects, forceDestroy, waiting, currentWaitingAction, targets, cantCancel,
                 menus, extra, mays, isInterrupting, stack, inPlay, stuffHappened, asserted>>

-----------------------------------------------------------------------------
(* The stack: who plays next, and what the objects do when they resolve. *)

NoEffect == UNCHANGED <<mObjects, inPlay, changed>>

(* A permanent or a triggered ability brings abilities to the end of the list. *)
Arrives(new, ids) ==
  /\ ToSet(ids) \cap Listed = {}
  /\ \A m \in Mays \cap new : \A k \in 0..MaxClones : Clone(m, k) \notin Listed \cup ToSet(stack)
  /\ mObjects' = mObjects \o ids
  /\ inPlay' = inPlay \cup {CardOf[a] : a \in new}
  /\ UNCHANGED changed

MaysArrive == \E b \in Batches : Arrives(ToSet(b), [i \in DOMAIN b |-> Self(b[i])])
(* A MultiAbility is added behind the abilities it adds. *)
Elements(a) == IF a \in Multis THEN <<Part(a), Self(a)>> ELSE <<Self(a)>>

PermanentArrives ==
  \E new \in {{a \in Multis \cup Lords : CardOf[a] = c} : c \in Cards} \ {{}} :
    Arrives(new, FlattenSeq(SetToSeq({Elements(a) : a \in new})))

CardLeaves(some) ==
  /\ \E c \in inPlay \cap some : inPlay' = inPlay \ {c}
  /\ UNCHANGED <<mObjects, changed>>

CreatureChanges ==
  /\ \E c \in Affected \cap inPlay : changed' = changed \cup {c}
  /\ UNCHANGED <<mObjects, inPlay>>

Resolve ==
  /\ stack # <<>> /\ ~isInterrupting
  /\ \/ NoEffect \/ MaysArrive \/ CreatureChanges \/ CardLeaves(Creatures)
     \/ Last(stack) = None /\ (PermanentArrives \/ CardLeaves(Cards))
  /\ stack' = Front(stack)
  /\ targets' = [x \in Choosers |-> IF x = Last(stack) THEN {} ELSE targets[x]]
  /\ UNCHANGED isInterrupting

PlayerInterrupts ==
  /\ stack # <<>> /\ ~isInterrupting /\ ~TargetChoosing
  /\ isInterrupting' = TRUE
  /\ UNCHANGED <<mObjects, stack, inPlay, changed, targets>>

NothingToDo ==
  /\ stack = <<>> \/ isInterrupting
  /\ UNCHANGED <<mObjects, stack, inPlay, changed, targets, isInterrupting>>

StackUpdate ==
  /\ frame = "stack"
  /\ Resolve \/ PlayerInterrupts \/ NothingToDo
  /\ frame' = "walk"
  /\ UNCHANGED <<forceDestroy, waiting, currentWaitingAction, done, cantCancel, menus, extra,
                 mays, stuffHappened, asserted>>

-----------------------------------------------------------------------------

Init ==
  /\ mObjects = SetToSeq(Selves(Activated))
  /\ forceDestroy = {} /\ waiting = {} /\ currentWaitingAction = None
  /\ targets = [x \in Choosers |-> {}] /\ done = {} /\ cantCancel = FALSE
  /\ menuObject = None /\ menu = {}
  /\ mExtraPayment = None /\ payment = [a \in Activated |-> None]
  /\ triggered = {} /\ mClone = [m \in Mays |-> 0]
  /\ previousInterrupter = [m \in Mays |-> FALSE]
  /\ isInterrupting = FALSE /\ stack = <<>> /\ changed = {}
  /\ inPlay = Creatures \cup {CardOf[a] : a \in Activated}
  /\ stuffHappened = FALSE /\ asserted = FALSE
  /\ frame = "stack"

(* The program ends at its assertion. *)
Abort == asserted /\ UNCHANGED vars

Frame == StackUpdate \/ Walk \/ UpdateAll \/ UpdateMenu \/ GameStateBasedEffects
Input == \/ SecondaryKey \/ RequestNextPhase \/ NoInput
         \/ \E card \in Creatures \cup Cards : CardClick(card)

Next == Abort \/ (~asserted /\ (Frame \/ Input))

Spec == Init /\ [][Next]_vars

Frames == {"stack", "walk", "update", "input", "effects"}

(* The frame loop runs on; what the player does in it is not assumed. *)
Advances == ~asserted /\ frame' \in Frames \ {frame}
FairSpec == Spec /\ WF_frame(Advances)

-----------------------------------------------------------------------------

(* Everything has its type, and a menu has entries. *)
TypeOK ==
  /\ mObjects \in Seq(Ids) /\ IsInjective(mObjects)
  /\ forceDestroy \subseteq Ids /\ waiting \subseteq Choosers /\ done \subseteq Choosers
  /\ currentWaitingAction \in Choosers \cup {None}
  /\ targets \in [Choosers -> SUBSET Creatures]
  /\ menuObject \in Cards \cup {None} /\ menu \subseteq 1..Cardinality(Ids)
  /\ menu # {} <=> menuObject # None
  /\ mExtraPayment \in Selves(Activated) \cup {None}
  /\ payment \in [Activated -> Creatures \cup {None}]
  /\ triggered \subseteq Mays /\ mClone \in [Mays -> 0..MaxClones]
  /\ previousInterrupter \in [Mays -> BOOLEAN]
  /\ stack \in Seq(Ids \cup {None}) /\ Len(stack) <= MaxStack
  /\ inPlay \subseteq Creatures \cup Cards /\ changed \subseteq Affected
  /\ {cantCancel, isInterrupting, stuffHappened, asserted} \subseteq BOOLEAN
  /\ frame \in Frames

(***************************************************************************)
(* However the list shrinks under the index of the walk, nothing that is   *)
(* over is left behind, and no ability is left without the one that owns   *)
(* it.                                                                     *)
(***************************************************************************)
WalkSettles ==
  frame = "update" =>
    /\ \A x \in Listed : ~testDestroy([objs |-> mObjects, forced |-> forceDestroy], x)
    /\ \A x \in Listed : x[1] \in Multis \cup Lords => Self(x[1]) \in Listed

(***************************************************************************)
(* The entries of the menu are positions in the list, and the list is not  *)
(* frozen while the menu is open: they still name abilities of its card.   *)
(***************************************************************************)
MenuIsFresh ==
  \A i \in menu : i \in DOMAIN mObjects /\ Source(mObjects[i]) = menuObject

(***************************************************************************)
(* One ability waits for an answer, and it is the one the clicks go to.    *)
(***************************************************************************)
WaitingIsCurrent == ~asserted => waiting = {currentWaitingAction} \ {None}

(***************************************************************************)
(* What waits for an answer is still in the list, unless it costs a        *)
(* payment, which it may have been removed before.                         *)
(***************************************************************************)
WaitingIsListed == ~asserted => waiting \subseteq Listed \cup Selves(Activated)

(* What the walk leaves in the list is what lives, and what waits. *)
ListIsKept == TypeOK /\ WalkSettles /\ WaitingIsListed

(***************************************************************************)
(* A second ability waits for an answer, which the assertion denies, only  *)
(* when the first was chosen beside an open menu or an owed payment: the   *)
(* clicks on cards alone never do that.                                    *)
(***************************************************************************)
OverlapNeedsMenu ==
  [][asserted' /\ ~asserted => menuObject # None \/ mExtraPayment # None]_vars

(***************************************************************************)
(* "without this, the game locks into a freeze state": a forced choice of  *)
(* which no target is left does not last.                                  *)
(***************************************************************************)
Stranded == ~asserted /\ cantCancel /\ TargetChoosing /\ ValidTargets = {} /\ menuObject = None
ForcedChoiceEnds == Stranded ~> ~Stranded

(***************************************************************************)
(* A player who goes on choosing targets, or closes the choice with the    *)
(* ability's own card, comes to its end, whatever leaves play meanwhile.   *)
(***************************************************************************)
PicksOn ==
  /\ TargetChoosing /\ mExtraPayment = None
  /\ \E card \in Creatures \cup Cards :
       /\ IF card = Source(currentWaitingAction) THEN targets[currentWaitingAction] # {}
          ELSE card \in ValidTargets \ targets[currentWaitingAction]
       /\ CardClick(card)
ChoosesForEver(x) ==
  <>[](x \in waiting) /\ []<><<PicksOn>>_vars /\ <>[][targets' # targets => PicksOn]_vars
ChoiceEnds == \A x \in Choosers : ~ChoosesForEver(x)

(* Whatever is asked of the player, forced or not, the game goes on. *)
ChoicesEnd == ForcedChoiceEnds /\ ChoiceEnds
=============================================================================
