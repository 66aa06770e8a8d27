----------------------------- MODULE ActionStack -----------------------------
(***************************************************************************)
(* The interrupt protocol of ActionStack.cpp: the unresolved objects, the  *)
(* two interruptDecision entries, the offer (askIfWishesToInterrupt), the  *)
(* holder of an interruption (GameObserver::isInterrupting) and the        *)
(* offer's timer, stepped by the frame loop of GameObserver::Update: the   *)
(* stack's Update, that of the action layer, in which may abilities take   *)
(* the game and menus are answered, then what the player of the frame      *)
(* does, and gameStateBasedEffects.                                        *)
(*                                                                         *)
(* What the turn does when a NextGamePhase object resolves is left to      *)
(* module TurnFlow: here it may change the player the turn waits for, and  *)
(* fire triggered abilities.  Resolved objects, which the code keeps for   *)
(* the display until garbageCollect, play no part and are not kept.        *)
(***************************************************************************)
EXTENDS Integers, Sequences, SequencesExt

CONSTANTS
  Humans,            \* the players driven by input; the others are AIPlayerBaka
  INTERRUPT_SECONDS, \* Options::INTERRUPT_SECONDS in frames; 0 waits for ever
  InterruptMyOwn,    \* Options::INTERRUPTMYSPELLS and INTERRUPTMYABILITIES
  SplitSecondCards,  \* whether the decks hold cards with split second
  MaxObjects,        \* bound: unresolved objects at the same time
  MaxTriggers        \* bound: abilities one effect can put on the stack

Players == {0, 1}
None    == -1        \* nullptr where a Player* is expected
Other(p) == 1 - p

ASSUME HumansAssumption  == Humans \subseteq Players
ASSUME SecondsAssumption == INTERRUPT_SECONDS \in Nat
ASSUME OptionAssumption  == InterruptMyOwn \in BOOLEAN /\ SplitSecondCards \in BOOLEAN
ASSUME BoundAssumption   == MaxObjects \in Nat \ {0} /\ MaxTriggers \in Nat

\* Ordinary spells and abilities are not told apart; an ability never counts as
\* split second, since only a spell on the stack knows its source.
Plays     == {"Ordinary"} \cup IF SplitSecondCards THEN {"SplitSecond"} ELSE {}
Kinds     == Plays \cup {"NextGamePhase"}
Declined  == {"DONT_INTERRUPT", "DONT_INTERRUPT_ALL"}
Decisions == {"NOT_DECIDED", "INTERRUPT"} \cup Declined

VARIABLES
  mObjects,               \* kinds of the unresolved objects, oldest first
  interruptDecision,      \* what each player last said
  askIfWishesToInterrupt, \* the player the offer is made to
  isInterrupting,         \* GameObserver::isInterrupting
  timer,                  \* frames left to answer; -1 when stopped
  chooser,                \* Owner of the current TargetChooser
  menuObject,             \* the ActionLayer's menu, see Menus
  mode,                   \* ACTIONSTACK_STANDARD (before or after "checked") or _TARGET
  turnActor,              \* the player the turn waits for
  currentActionPlayer,    \* the player to act, as last computed by Update
  player,                 \* Update's local: whose Act or input this frame runs
  frame                   \* the part of the frame that runs next

protocol == <<interruptDecision, askIfWishesToInterrupt, isInterrupting, timer>>
turnVars == <<turnActor, currentActionPlayer>>
vars == <<mObjects, protocol, chooser, menuObject, mode, turnVars, player, frame>>

\* The menu is "opening" until the walk that opened it has ended, and "chosen"
\* while what was chosen in it takes place.
Menus == {"closed", "opening", "open", "chosen"}

\* What runs after the part of a frame in which a menu can be answered.
AfterMenu == [layer |-> "input", again |-> "effects", menu |-> "acted"]

Frames == {"update", "input", "acted", "effects"} \cup DOMAIN AfterMenu

currentlyActing == IF isInterrupting # None THEN isInterrupting
                   ELSE currentActionPlayer

-----------------------------------------------------------------------------
(* Putting objects on the stack. *)

\* Mutant: an addition that leaves the passes given before it standing.
addActionKeepsPasses(kind, declining) ==
  /\ Len(mObjects) < MaxObjects
  /\ mObjects' = Append(mObjects, kind)
  /\ interruptDecision' =
       [p \in Players |-> IF p = declining THEN "DONT_INTERRUPT" ELSE interruptDecision[p]]

(***************************************************************************)
(* addAction and what is built on it.  declining is the player whose own   *)
(* decision is set to DONT_INTERRUPT right after, or None.                 *)
(***************************************************************************)
addAction(kind, declining) ==
  /\ Len(mObjects) < MaxObjects
  /\ mObjects' = Append(mObjects, kind)
  /\ interruptDecision' =
       [p \in Players |-> IF p = declining THEN "DONT_INTERRUPT" ELSE "NOT_DECIDED"]

\* The options spare the human player 0 the offers about what it did itself.
OwnOffer(controller) ==
  IF controller = 0 /\ 0 \in Humans /\ ~InterruptMyOwn THEN 0 ELSE None

addSpell(controller) == \E kind \in Plays : addAction(kind, OwnOffer(controller))
addAbility(controller) == addAction("Ordinary", OwnOffer(controller))

\* The unresolved-object guard of both additions never fires (its state
\* argument is passed as the type); every caller has checked the stack.
AddNextGamePhase  == addAction("NextGamePhase", currentActionPlayer)
AddNextCombatStep == addAction("NextGamePhase", None)

-----------------------------------------------------------------------------
(* What a player may answer. *)

\* Mutant: the answer is the other player's.
IdOfOther(p) == IF p = 1 THEN 0 ELSE 1

\* The player index as the code computes it: anyone but players[1] is 0.
IdOf(p) == IF p = 1 THEN 1 ELSE 0

setIsInterrupting(p) ==
  /\ askIfWishesToInterrupt' = None
  /\ IF chooser = None
     THEN /\ interruptDecision' = [interruptDecision EXCEPT ![IdOf(p)] = "INTERRUPT"]
          /\ isInterrupting' = p
     ELSE UNCHANGED <<interruptDecision, isInterrupting>>
  /\ UNCHANGED timer

\* Mutant: the offer is cancelled but the player still holds the game.
CancelKeepsHolder(holder, cancelMode) ==
  /\ interruptDecision' = [interruptDecision EXCEPT ![IdOf(holder)] = cancelMode]
  /\ askIfWishesToInterrupt' = None
  /\ isInterrupting' = holder
  /\ timer' = -1

CancelFor(holder, cancelMode) ==
  /\ interruptDecision' = [interruptDecision EXCEPT ![IdOf(holder)] = cancelMode]
  /\ askIfWishesToInterrupt' = None
  /\ isInterrupting' = None
  /\ timer' = -1

cancelInterruptOffer(cancelMode) == CancelFor(isInterrupting, cancelMode)

endOfInterruption ==
  /\ interruptDecision' =
       [interruptDecision EXCEPT ![IdOf(isInterrupting)] = "NOT_DECIDED"]
  /\ isInterrupting' = None
  /\ UNCHANGED <<askIfWishesToInterrupt, timer>>

NobodyDecided == [p \in Players |-> "NOT_DECIDED"]

\* An effect that does not wait on the stack: damage and draws are put there
\* and resolved at once.
ActsAtOnce ==
  interruptDecision' \in {interruptDecision, NobodyDecided} /\ UNCHANGED mObjects

\* A creature that is made a blocker lets go of the game.
MayBlock == isInterrupting' \in {isInterrupting, None}

-----------------------------------------------------------------------------
(* What an effect can do to the stack and to the turn. *)

\* n triggered abilities are added one after the other on top of objects;
\* each addition clears the decisions, the last one decides who is spared.
Triggered(objects, n) == objects \o [i \in 1..n |-> "Ordinary"]

Triggers == {n \in 0..MaxTriggers : Len(mObjects) + n <= MaxObjects}

TriggersAdded ==
  \E n \in Triggers, c \in Players :
    /\ mObjects' = Triggered(mObjects, n)
    /\ IF n = 0 THEN UNCHANGED interruptDecision
       ELSE interruptDecision' =
              [p \in Players |->
                 IF p = OwnOffer(c) THEN "DONT_INTERRUPT" ELSE "NOT_DECIDED"]

\* The turn moves on: another player may be waited for, and a new turn sets
\* currentActionPlayer itself.  acting is what Update has just computed.
TurnMoves(acting) ==
  /\ turnActor' \in Players
  /\ currentActionPlayer' \in {acting, turnActor'}

\* What is left when the newest object resolves, which may counter another.
Leavings ==
  LET below == Front(mObjects)
  IN IF Last(mObjects) = "NextGamePhase" THEN {below}
     ELSE {below} \cup {RemoveAt(below, i) : i \in DOMAIN below}

(***************************************************************************)
(* resolve(): the effect of the newest object takes place while the object *)
(* is still unresolved, so what it triggers is put above it; then every    *)
(* decision but DONT_INTERRUPT_ALL is cleared.  Adding an ability, damage  *)
(* or a draw has already cleared DONT_INTERRUPT_ALL too.                   *)
(***************************************************************************)
resolve(acting) ==
  /\ \E left \in Leavings, n \in Triggers, adds \in BOOLEAN :
       /\ mObjects' = Triggered(left, n)
       /\ n > 0 => adds
       /\ interruptDecision' =
            [p \in Players |->
               IF ~adds /\ interruptDecision[p] = "DONT_INTERRUPT_ALL"
               THEN "DONT_INTERRUPT_ALL" ELSE "NOT_DECIDED"]
  /\ chooser' \in {chooser} \cup Players
  /\ IF Last(mObjects) = "NextGamePhase"
     THEN TurnMoves(acting)
     ELSE currentActionPlayer' = acting /\ UNCHANGED turnActor
  /\ askIfWishesToInterrupt' = None
  /\ MayBlock
  /\ UNCHANGED timer

-----------------------------------------------------------------------------
(* Update: the head of GameObserver::Update, then ActionStack::Update. *)

\* Mutant: without the test that there is a chooser at all.
ActingPlayerUnchecked ==
  IF chooser # turnActor /\ chooser # currentlyActing THEN chooser ELSE turnActor

\* A target chooser is waited for, but only if its owner is not acting yet.
ActingPlayer == IF chooser # None /\ chooser # turnActor /\ chooser # currentlyActing
                THEN chooser ELSE turnActor

\* TARGET is entered when an object of the stack is a legal target.
NextMode ==
  CASE chooser = None                         -> {"STANDARD"}
    [] chooser # None /\ mode = "STANDARD"    ->
         {"CHECKED"} \cup IF mObjects # <<>> THEN {"TARGET"} ELSE {}
    [] OTHER                                  -> {mode}

\* Mutant: a player that interrupts is passed over like one that declined.
AskedPastHolder(first) ==
  IF interruptDecision[first] = "NOT_DECIDED" THEN first ELSE Other(first)

\* The player whose decision matters: the other one once the first declined.
Asked(first) == IF interruptDecision[first] \in Declined THEN Other(first) ELSE first

TimeLeft == (IF timer < 0 THEN INTERRUPT_SECONDS * Len(mObjects) ELSE timer) - 1

\* Mutant: the offer is made without making its player the interrupter.
OfferToNobody(p) ==
  /\ askIfWishesToInterrupt' = p
  /\ UNCHANGED <<mObjects, interruptDecision, isInterrupting, timer>>

Offer(p) ==
  IF INTERRUPT_SECONDS > 0 /\ TimeLeft < 0
  THEN UNCHANGED mObjects /\ CancelFor(p, "DONT_INTERRUPT")
  ELSE /\ askIfWishesToInterrupt' = p
       /\ isInterrupting' = p
       /\ timer' = IF INTERRUPT_SECONDS > 0 THEN TimeLeft ELSE timer
       /\ UNCHANGED <<mObjects, interruptDecision>>

Hold(p) ==
  /\ askIfWishesToInterrupt' = None
  /\ isInterrupting' = p
  /\ UNCHANGED <<mObjects, interruptDecision, timer>>

NobodyAnswers ==
  /\ askIfWishesToInterrupt' = None
  /\ UNCHANGED <<mObjects, interruptDecision, isInterrupting, timer>>

\* Objects wait, and the display mode lets the stack work on them.
StackWorks == mObjects # <<>> /\ mode' # "TARGET"

FirstAsked == IF isInterrupting # None THEN isInterrupting ELSE ActingPlayer

\* The newest object resolves: it cannot be answered, or both have declined.
Resolving ==
  /\ StackWorks
  /\ \/ Last(mObjects) = "SplitSecond"
     \/ interruptDecision[Asked(FirstAsked)] \in Declined

UpdateStack ==
  \/ Resolving /\ resolve(ActingPlayer)
  \/ /\ ~Resolving
     /\ currentActionPlayer' = ActingPlayer
     /\ UNCHANGED <<turnActor, chooser>>
     /\ LET p == Asked(FirstAsked)
        IN IF ~StackWorks THEN NobodyAnswers
           ELSE \/ interruptDecision[p] = "NOT_DECIDED" /\ Offer(p)
                \/ interruptDecision[p] = "INTERRUPT" /\ Hold(p)

Update ==
  /\ frame = "update"
  /\ mode' \in NextMode
  /\ player' = IF isInterrupting # None THEN isInterrupting ELSE ActingPlayer
  /\ UpdateStack
  /\ UNCHANGED menuObject
  /\ frame' = "layer"

-----------------------------------------------------------------------------
(***************************************************************************)
(* ActionLayer::Update, run after the stack's and once more ("again") when *)
(* what was clicked has changed something.  With no menu open it walks     *)
(* through the abilities, in any order here: a may ability opens the menu  *)
(* and takes the game for its controller, whoever has it.                  *)
(***************************************************************************)
Walking ==
  /\ frame \in {"layer", "again"} /\ menuObject \in {"closed", "opening"}
  /\ UNCHANGED <<mode, turnVars, player>>

\* Of a MenuAbility with a chooser open only the offer is withdrawn.
MayAbilityClaims ==
  /\ Walking
  /\ menuObject' = "opening"
  /\ \E p \in Players : setIsInterrupting(p)
  /\ UNCHANGED <<mObjects, chooser, frame>>

\* A may ability for mana that is over gives the game back to who had it, or
\* to nobody, which is recorded as an interruption by player 0.
MayAbilityGivesBack ==
  /\ Walking
  /\ menuObject = "closed" /\ isInterrupting # None
  /\ \E previousInterrupter \in Players \cup {None} :
       setIsInterrupting(previousInterrupter)
  /\ UNCHANGED <<mObjects, chooser, menuObject, frame>>

\* A forced choice whose targets have gone is given up at the end.
WalkEnds ==
  /\ Walking
  /\ chooser' \in {chooser, None}
  /\ menuObject' = IF menuObject = "opening" THEN "open" ELSE menuObject
  /\ frame' = AfterMenu[frame]
  /\ UNCHANGED <<mObjects, protocol>>

(***************************************************************************)
(* An open menu reads a key in any frame, or is answered by the AI: what   *)
(* its entry does is put on the stack, asks for targets or is done.        *)
(***************************************************************************)
MenuAnswered ==
  /\ frame \in DOMAIN AfterMenu /\ menuObject = "open"
  /\ UNCHANGED <<mode, turnVars, player>>

MenuEntry ==
  /\ MenuAnswered
  /\ \/ /\ \E c \in Players : addSpell(c)
        /\ UNCHANGED <<chooser, isInterrupting>>
     \/ /\ chooser = None /\ chooser' \in Players
        /\ UNCHANGED <<mObjects, interruptDecision, isInterrupting>>
     \/ ActsAtOnce /\ MayBlock /\ UNCHANGED chooser
     \/ TriggersAdded /\ UNCHANGED <<chooser, isInterrupting>>
  /\ UNCHANGED <<askIfWishesToInterrupt, timer>>
  /\ \/ menuObject' = "closed" /\ frame' = AfterMenu[frame]
     \/ menuObject' = "chosen" /\ isInterrupting' # None /\ UNCHANGED frame

\* One of several choices was made by the player who has the game: the offer
\* is declined when the choice has taken place.
ChoiceDeclines ==
  /\ frame \in DOMAIN AfterMenu /\ menuObject = "chosen"
  /\ cancelInterruptOffer("DONT_INTERRUPT")
  /\ menuObject' = "closed" /\ frame' = AfterMenu[frame]
  /\ UNCHANGED <<mObjects, chooser, mode, turnVars, player>>

MenuCancelled ==
  /\ MenuAnswered
  /\ endOfInterruption \/ UNCHANGED protocol
  /\ menuObject' = "closed" /\ frame' = AfterMenu[frame]
  /\ UNCHANGED <<mObjects, chooser>>

\* No key, or an entry that is not an ability any more.
MenuStays ==
  /\ MenuAnswered
  /\ frame' = AfterMenu[frame]
  /\ UNCHANGED <<mObjects, protocol, chooser, menuObject>>

-----------------------------------------------------------------------------
(* What players do. *)

\* nextGamePhase without going through the stack.
NextPhaseNow ==
  /\ TriggersAdded
  /\ chooser' \in {chooser} \cup Players
  /\ TurnMoves(currentActionPlayer)

userRequestNextGamePhase ==
  /\ mObjects = <<>>
  /\ chooser = None
  /\ \/ AddNextGamePhase /\ UNCHANGED <<chooser, turnVars>>
     \/ NextPhaseNow

\* Player p plays a card or an ability: at once, or with the targets chosen
\* in the open chooser, whose owner controls what is put on the stack.
PutsOnStack(p) ==
  /\ addSpell(IF chooser = None THEN p ELSE chooser)
  /\ chooser' = None

\* The play needs targets first, or there are several to choose from.
OpensChooser(p) ==
  /\ chooser = None /\ chooser' = p
  /\ UNCHANGED <<mObjects, interruptDecision, menuObject>>

OpensMenu ==
  /\ chooser = None /\ menuObject' = "open"
  /\ UNCHANGED <<mObjects, interruptDecision, chooser>>

(***************************************************************************)
(* Input is read in the frames of a human player.  It is answered for      *)
(* whoever is asked or acting by then, not for the player of the frame.    *)
(***************************************************************************)
InputFrame == frame = "input" /\ player \in Humans

AskedByDialog == mode # "TARGET" /\ askIfWishesToInterrupt # None

\* The dialog swallows every key; otherwise a holder may end its interruption.
NoDialog == ~AskedByDialog

KeyRead ==
  /\ InputFrame /\ frame' = "effects"
  /\ UNCHANGED <<mObjects, chooser, menuObject, mode, turnVars, player>>

KeyInterrupt ==
  /\ KeyRead
  /\ AskedByDialog
  /\ setIsInterrupting(askIfWishesToInterrupt)

KeyNo(cancelMode) ==
  /\ KeyRead
  /\ AskedByDialog
  /\ cancelInterruptOffer(cancelMode)

KeyEndInterruption ==
  /\ KeyRead
  /\ NoDialog /\ mode # "TARGET"
  /\ isInterrupting # None
  /\ endOfInterruption

\* A click: what is played waits on the stack, asks for targets, offers a menu
\* or acts at once; a blocker is declared by its target.
HumanPlays ==
  /\ InputFrame /\ frame' = "again"
  /\ NoDialog
  /\ \/ PutsOnStack(currentlyActing) /\ UNCHANGED <<isInterrupting, menuObject>>
     \/ OpensChooser(currentlyActing) /\ UNCHANGED isInterrupting
     \/ OpensMenu /\ UNCHANGED isInterrupting
     \/ ActsAtOnce /\ chooser = None /\ UNCHANGED <<isInterrupting, chooser, menuObject>>
     \/ ActsAtOnce /\ MayBlock /\ chooser # None /\ chooser' = None /\ UNCHANGED menuObject
  /\ UNCHANGED <<askIfWishesToInterrupt, timer, mode, turnVars, player>>

HumanRequestsNextPhase ==
  /\ InputFrame /\ frame' = "effects"
  /\ NoDialog
  /\ currentActionPlayer = currentlyActing
  /\ userRequestNextGamePhase
  /\ UNCHANGED <<askIfWishesToInterrupt, isInterrupting, timer, menuObject, mode, player>>

\* No key, or clicks that do not touch the protocol.
NoInput ==
  /\ InputFrame /\ frame' \in {"again", "effects"}
  /\ UNCHANGED <<mObjects, protocol, chooser, menuObject, mode, turnVars, player>>

(***************************************************************************)
(* AIPlayerBaka::Act in the frames of an AI: it waits for its own timer;   *)
(* then it takes the offer made to it, answers the menu if one is open,    *)
(* and otherwise computes what to do.                                      *)
(***************************************************************************)
ActFrame == frame = "input" /\ player \notin Humans

AIWaits ==
  /\ ActFrame /\ frame' = "effects"
  /\ UNCHANGED <<mObjects, protocol, chooser, menuObject, mode, turnVars, player>>

\* interruptIfICan, when what the AI then clicks does not touch the protocol.
TakesOffer ==
  IF askIfWishesToInterrupt = player THEN setIsInterrupting(player)
                                     ELSE UNCHANGED protocol

AIComputes == ActFrame /\ currentlyActing = player /\ menuObject = "closed"

\* What it clicks goes on the stack, or acts at once: the decision that taking
\* the offer has just set is cleared.
AIClicks ==
  /\ \/ PutsOnStack(player)
     \/ chooser' = None /\ interruptDecision' = NobodyDecided /\ UNCHANGED mObjects
  /\ isInterrupting' = IF askIfWishesToInterrupt = player /\ chooser = None
                       THEN player ELSE isInterrupting
  /\ askIfWishesToInterrupt' = IF askIfWishesToInterrupt = player THEN None
                               ELSE askIfWishesToInterrupt
  /\ UNCHANGED <<timer, menuObject>>

\* It opens a chooser or a menu, or closes the chooser it owes targets for.
AIPrepares ==
  /\ TakesOffer
  /\ UNCHANGED mObjects
  /\ \/ chooser = None /\ chooser' = player /\ UNCHANGED menuObject
     \/ chooser = None /\ menuObject' = "open" /\ UNCHANGED chooser
     \/ chooser # None /\ chooser' = None /\ UNCHANGED menuObject

AIPlays ==
  /\ AIComputes /\ frame' = "again"
  /\ chooser \in {None, player}
  /\ AIClicks \/ AIPrepares
  /\ UNCHANGED <<mode, turnVars, player>>

\* What it clicks comes to nothing for the stack: it holds the interruption.
AIHolds ==
  /\ AIComputes /\ frame' \in {"again", "effects"}
  /\ askIfWishesToInterrupt = player
  /\ setIsInterrupting(player)
  /\ UNCHANGED <<mObjects, chooser, menuObject, mode, turnVars, player>>

AIAnswersMenu ==
  /\ ActFrame /\ frame' = "menu"
  /\ currentlyActing = player
  /\ menuObject = "open"
  /\ TakesOffer
  /\ UNCHANGED <<mObjects, chooser, menuObject, mode, turnVars, player>>

\* It has found nothing to click, or has answered the menu instead.
AIHasNoClick == AIComputes \/ frame = "acted"

\* setIsInterrupting, if it was asked, is undone by the cancel.
AIDeclines ==
  /\ AIHasNoClick /\ frame' = "effects"
  /\ isInterrupting = player
  /\ cancelInterruptOffer("DONT_INTERRUPT")
  /\ UNCHANGED <<mObjects, chooser, menuObject, mode, turnVars, player>>

AIRequestsNextPhase ==
  /\ AIHasNoClick /\ frame' = "effects"
  /\ isInterrupting # player
  /\ currentActionPlayer = player
  /\ userRequestNextGamePhase
  /\ UNCHANGED <<askIfWishesToInterrupt, isInterrupting, timer, menuObject, mode, player>>

\* The request is refused: objects, a chooser or a payment wait.
AIIsDone ==
  /\ frame = "acted" /\ frame' = "effects"
  /\ isInterrupting # player
  /\ UNCHANGED <<mObjects, protocol, chooser, menuObject, mode, turnVars, player>>

-----------------------------------------------------------------------------
(***************************************************************************)
(* gameStateBasedEffects closes the frame: the next combat step, or a      *)
(* phase skipped automatically.  Abilities are triggered there, by what    *)
(* was played in the frame, and in the walks of the action layer.          *)
(***************************************************************************)
StateTrigger ==
  /\ \/ Walking
     \/ frame = "effects" /\ UNCHANGED <<mode, turnVars, player>>
  /\ \E c \in Players : addAbility(c)
  /\ UNCHANGED <<askIfWishesToInterrupt, isInterrupting, timer, chooser, menuObject, frame>>

EffectsFrame ==
  /\ frame = "effects" /\ frame' = "update"
  /\ UNCHANGED <<askIfWishesToInterrupt, isInterrupting, timer, menuObject, mode, player>>

NothingOpen == mObjects = <<>> /\ chooser = None /\ menuObject = "closed"

CombatStepPasses ==
  /\ EffectsFrame
  /\ NothingOpen
  /\ AddNextCombatStep
  /\ UNCHANGED <<chooser, turnVars>>

PhaseSkipped ==
  /\ EffectsFrame
  /\ NothingOpen
  /\ Humans # Players
  /\ isInterrupting = None
  /\ userRequestNextGamePhase

FrameEnds ==
  /\ EffectsFrame
  /\ UNCHANGED <<mObjects, interruptDecision, chooser, turnVars>>

-----------------------------------------------------------------------------
Init ==
  /\ mObjects = <<>>
  /\ interruptDecision = [p \in Players |-> "NOT_DECIDED"]
  /\ askIfWishesToInterrupt = None
  /\ isInterrupting = None
  /\ timer = -1
  /\ chooser = None
  /\ menuObject = "closed"
  /\ mode = "STANDARD"
  /\ turnActor \in Players
  /\ currentActionPlayer = turnActor
  /\ player = turnActor
  /\ frame = "update"

Input == \/ KeyInterrupt \/ KeyNo("DONT_INTERRUPT") \/ KeyNo("DONT_INTERRUPT_ALL")
         \/ KeyEndInterruption \/ HumanPlays \/ HumanRequestsNextPhase \/ NoInput

Layer == \/ MayAbilityClaims \/ MayAbilityGivesBack \/ WalkEnds
         \/ MenuEntry \/ ChoiceDeclines \/ MenuCancelled \/ MenuStays

Act == \/ AIWaits \/ AIPlays \/ AIHolds \/ AIAnswersMenu
       \/ AIDeclines \/ AIRequestsNextPhase \/ AIIsDone

Effects == StateTrigger \/ CombatStepPasses \/ PhaseSkipped \/ FrameEnds

Next == Update \/ Layer \/ Input \/ Act \/ Effects

Spec == Init /\ [][Next]_vars

-----------------------------------------------------------------------------
(* Safety. *)

TypeOK ==
  /\ mObjects \in Seq(Kinds) /\ Len(mObjects) <= MaxObjects
  /\ interruptDecision \in [Players -> Decisions]
  /\ askIfWishesToInterrupt \in Players \cup {None}
  /\ isInterrupting \in Players \cup {None}
  /\ timer \in Nat \cup {-1}
  /\ chooser \in Players \cup {None} /\ menuObject \in Menus
  /\ mode \in {"STANDARD", "CHECKED", "TARGET"}
  /\ turnActor \in Players /\ currentActionPlayer \in Players /\ player \in Players
  /\ frame \in Frames

(***************************************************************************)
(* From when an offer is made until a key or the AI answers it, there is   *)
(* something to answer, the offer is open (but for player 0, whom options  *)
(* spare the offers about its own abilities) and isInterrupting, whom      *)
(* cancelInterruptOffer will charge with the answer, is the player asked:  *)
(* only a menu answered in between can have let go of the game.            *)
(***************************************************************************)
AnswerGoesToAsked ==
  frame \in {"layer", "input"} /\ askIfWishesToInterrupt # None =>
    LET p == askIfWishesToInterrupt
    IN /\ mObjects # <<>>
       /\ \/ interruptDecision[p] = "NOT_DECIDED"
          \/ interruptDecision[p] = "DONT_INTERRUPT" /\ p = OwnOffer(p)
       /\ \/ isInterrupting = p
          \/ frame = "input" /\ menuObject = "closed" /\ isInterrupting = None

(***************************************************************************)
(* When both players have declined, so that the stack is about to resolve, *)
(* nobody is left holding an interruption: isInterrupting is cleared by    *)
(* cancelInterruptOffer only, while decisions are also set by addSpell,    *)
(* addAbility and AddNextGamePhase.                                        *)
(***************************************************************************)
AgreedMeansFree ==
  mObjects # <<>> /\ (\A p \in Players : interruptDecision[p] \in Declined)
    => isInterrupting = None

\* A player has said it interrupts, and what would resolve next can wait.
Held ==
  /\ \E p \in Players : interruptDecision[p] = "INTERRUPT"
  /\ mObjects # <<>> /\ Last(mObjects) # "SplitSecond"

(***************************************************************************)
(* While a player has said it interrupts, by a key, as an AI or through a  *)
(* may ability that took the game, nothing leaves the stack, unless its    *)
(* newest object has split second, which resolves under any holder.        *)
(***************************************************************************)
HolderKeepsStack == [][Held => Len(mObjects') >= Len(mObjects)]_vars

-----------------------------------------------------------------------------
(* What the protocol promises, and liveness. *)

Priority == INSTANCE PriorityStack
  WITH Unanswerable <- Plays \ {"Ordinary"},
       items  <- mObjects,
       passed <- {p \in Players : interruptDecision[p] \in Declined}

\* The detailed protocol implements PriorityStack.
ImplementsPriorityStack == Priority!Spec

(***************************************************************************)
(* The game loop never stops, and an AI that is asked again and again runs *)
(* out of things to click, with a menu or without: every click costs it    *)
(* mana, a card or a tap.                                                  *)
(***************************************************************************)
Fairness == WF_vars(Next) /\ SF_vars(AIDeclines) /\ SF_vars(AIAnswersMenu)

FairSpec == Spec /\ Fairness

(***************************************************************************)
(* With a time limit, an offer is decided, by its player or by the timer,  *)
(* unless a target on the stack has to be chosen first, the game is taken  *)
(* from its player, or what the offer was about has gone or need not be    *)
(* decided now.                                                            *)
(***************************************************************************)
OfferIsDecided ==
  \A p \in Players :
    askIfWishesToInterrupt = p
      ~> \/ interruptDecision[p] # "NOT_DECIDED" \/ mode = "TARGET"
         \/ isInterrupting # p
         \/ mObjects = <<>> \/ Last(mObjects) = "SplitSecond"

\* What keeps the stack from resolving: a chooser, or a human's interruption.
Waiting == chooser # None \/ \E p \in Humans : interruptDecision[p] = "INTERRUPT"

\* Nothing is put on the stack, be it resolved at once: no pass is cleared but
\* by a resolution.
NothingAdded ==
  [][\/ Len(mObjects') < Len(mObjects)
     \/ /\ mObjects' = mObjects /\ ~(frame = "update" /\ Resolving)
        /\ \A p \in Players : interruptDecision[p] \in Declined
                                => interruptDecision'[p] \in Declined]_vars

\* No may ability takes the game and no menu is answered any more.
LayerQuiet ==
  [][(frame \in DOMAIN AfterMenu)
       => UNCHANGED <<mObjects, protocol, menuObject>>]_vars

\* Then the stack empties by itself: an offer that was taken away, or an
\* interruption nobody can end, would keep it from it.
StackDrains ==
  <>NothingAdded /\ <>LayerQuiet => (mObjects # <<>> ~> mObjects = <<>> \/ Waiting)

\* No offer and no stack keeps the turn waiting, if nobody goes on adding to
\* it, or taking the game.
GameMovesOn == OfferIsDecided /\ StackDrains
=============================================================================
