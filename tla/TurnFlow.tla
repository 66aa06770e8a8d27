------------------------------- MODULE TurnFlow -------------------------------
(***************************************************************************)
(* How a turn advances: GameObserver::nextGamePhase and nextCombatStep,    *)
(* the phase ring they move through (module PhaseRing), the event queue    *)
(* of receiveEvent, and what hears its events: GuiCombat (module Combat)   *)
(* and the abilities that alter the phases of a turn (APhaseAlter).        *)
(*                                                                         *)
(* An event is delivered before receiveEvent returns only if no other      *)
(* event is being delivered; an event of a handler waits until the handler *)
(* is done.  So every call runs in one of two ways, and calls holds what   *)
(* is left of it: a nested call, made by a handler, goes on at once, the   *)
(* others when the queue is empty.                                         *)
(*                                                                         *)
(* The stack between a request for the next phase and its effect is module *)
(* ActionStack's; here a request takes effect when the game is idle.       *)
(***************************************************************************)
EXTENDS PhaseRing, Combat

CONSTANTS
  Humans,        \* the players whose displayStack() is true
  Skips,         \* the lists of phases that cards make a player skip
  Sources,       \* what the cards with these effects are
  ExtraCombats,  \* whether cards give extra combat phases
  TurnEffects,   \* whether cards give, or take, whole turns
  MaxAlters,     \* bound: phase-altering abilities at the same time
  MaxPhases      \* bound: length of the turn's list up to which a combat is added

ASSUME FlowAssumption ==
  /\ Humans \subseteq Players
  /\ \A ids \in Skips : ids \in Seq(PhaseIds)
  /\ Sources \subseteq {"instant", "sorcery", "permanent", "static"}
  /\ ExtraCombats \in BOOLEAN /\ TurnEffects \in BOOLEAN
  /\ MaxAlters \in Nat /\ MaxPhases \in Nat

VARIABLES
  currentPlayer,
  extraTurn, skippingTurn,  \* turns a player has coming, or has to skip
  currentGamePhase, combatStep,
  alters,                   \* the APhaseAlter abilities, in their layer's order
  eventsQueue, calls

flow == <<currentPlayer, currentGamePhase, combatStep>>
turnCounts == <<extraTurn, skippingTurn>>
vars == <<ring, combatVars, flow, turnCounts, alters, eventsQueue, calls>>

human == currentPlayer \in Humans

Idle == calls = <<>> /\ eventsQueue = <<>>

\* The head of calls can go on; otherwise the head of the queue is delivered.
Runs(op) ==
  /\ calls # <<>> /\ Head(calls).op = op
  /\ Head(calls).nested \/ eventsQueue = <<>>

Delivers(type) ==
  /\ eventsQueue # <<>> /\ Head(eventsQueue).type = type
  /\ calls # <<>> => ~Head(calls).nested

Call(op, nested) == [op |-> op, nested |-> nested]

-----------------------------------------------------------------------------
(* nextCombatStep and nextGamePhase, from any of their callers.  queue and  *)
(* rest are the events and calls that are left when they are called.        *)

NextStep == [BLOCKERS |-> "TRIGGERS", TRIGGERS |-> "ORDER", ORDER |-> "FIRST_STRIKE",
             FIRST_STRIKE |-> "END_FIRST_STRIKE", END_FIRST_STRIKE |-> "DAMAGE",
             DAMAGE |-> "END_DAMAGE"]

\* Mutant: the first strike steps are skipped.
nextCombatStepSkipping(queue) ==
  IF combatStep = "END_DAMAGE" THEN eventsQueue' = queue /\ UNCHANGED combatStep
  ELSE /\ combatStep' = IF combatStep = "ORDER" THEN "DAMAGE" ELSE NextStep[combatStep]
       /\ eventsQueue' = Append(queue, [type |-> "CombatStepChange", step |-> combatStep'])

nextCombatStep(queue) ==
  IF combatStep = "END_DAMAGE" THEN eventsQueue' = queue /\ UNCHANGED combatStep
  ELSE /\ combatStep' = NextStep[combatStep]
       /\ eventsQueue' = Append(queue, [type |-> "CombatStepChange", step |-> combatStep'])

\* Mutant: the last step of the damage phase is answered by a step, too.
StaysToTheLastStep ==
  \/ currentPhase = "COMBATDAMAGE"
  \/ currentPhase = "COMBATBLOCKERS" /\ combatStep \in {"BLOCKERS", "TRIGGERS"}

StaysInPhase ==
  \/ currentPhase = "COMBATDAMAGE" /\ combatStep \in {"FIRST_STRIKE", "END_FIRST_STRIKE", "DAMAGE"}
  \/ currentPhase = "COMBATBLOCKERS" /\ combatStep \in {"BLOCKERS", "TRIGGERS"}

nextGamePhase(nested, rest, queue) ==
  IF StaysInPhase THEN nextCombatStep(queue) /\ calls' = rest
  ELSE /\ calls' = <<Call("forward", nested),
                     [op |-> "landed", nested |-> nested, from |-> currentPhase]>> \o rest
       /\ eventsQueue' = queue /\ UNCHANGED combatStep

-----------------------------------------------------------------------------
(* PhaseRing::forward.  While the layers are warned of the change, current  *)
(* is already on the phase to come; if the list has changed it starts anew. *)

forward ==
  /\ Runs("forward")
  /\ LET notEnd == current < Len(turn)
         to == IF notEnd THEN current + 1 ELSE current
     IN /\ current' = to
        /\ eventsQueue' = Append(eventsQueue,
             [type |-> "PhasePreChange", from |-> currentPhase, to |-> turn[to].id, heard |-> 0])
        /\ calls' = <<[op |-> "move", nested |-> Head(calls).nested, from |-> currentPhase,
                       turnSteps |-> Len(turn), notEnd |-> notEnd]>> \o Tail(calls)
  /\ UNCHANGED <<turn, combatVars, flow, turnCounts, alters>>

\* The ring's step from here, behind the last phase to the list of a new turn.
Moved(here) ==
  IF here < Len(turn) THEN current' = here + 1 /\ UNCHANGED <<turn>>
  ELSE current' = 1 /\ turn' = GameTurn

\* Mutant: a list that changed is moved on in as if it had not.
ListChangedUnnoticed(call) == FALSE

ListChanged(call) == Len(turn) # call.turnSteps

move ==
  /\ Runs("move")
  /\ LET call == Head(calls)
         here == IF call.notEnd THEN current - 1 ELSE current
     IN IF ListChanged(call)
        THEN /\ calls' = <<Call("forward", call.nested)>> \o Tail(calls)
             /\ current' = here
             /\ UNCHANGED <<turn, eventsQueue>>
        ELSE /\ calls' = Tail(calls)
             /\ Moved(here)
             /\ eventsQueue' = Append(eventsQueue,
                  [type |-> "PhaseChange", from |-> call.from, to |-> turn'[current'].id])
  /\ UNCHANGED <<combatVars, flow, turnCounts, alters>>

\* "Go directly to end of combat if no attackers".
landed ==
  /\ Runs("landed")
  /\ LET again == Call("forward", Head(calls).nested)
         arrive == [op |-> "arrive", nested |-> Head(calls).nested, skip |-> TRUE]
     IN calls' = (IF Head(calls).from = "COMBATATTACKERS" /\ attackers = {}
                  THEN <<again, again, arrive>> ELSE <<[arrive EXCEPT !.skip = FALSE]>>)
                 \o Tail(calls)
  /\ UNCHANGED <<ring, combatVars, flow, turnCounts, alters, eventsQueue>>

\* The rest of nextGamePhase: first the steps of the damage phase.
arrive ==
  /\ Runs("arrive")
  /\ currentGamePhase' = currentPhase
  /\ IF currentPhase = "COMBATDAMAGE" THEN nextCombatStep(eventsQueue)
     ELSE UNCHANGED <<combatStep, eventsQueue>>
  /\ calls' = <<Call("entered", Head(calls).nested)>> \o Tail(calls)
  /\ hits' = IF currentPhase \in {"COMBATDAMAGE", "COMBATEND"} THEN hits
             ELSE [c \in Creatures |-> 0]
  /\ UNCHANGED <<ring, attackers, blocking, blocked, assigned, step, cursor_pos,
                 currentPlayer, turnCounts, alters>>

-----------------------------------------------------------------------------
(* The abilities that alter the phases of a turn. *)

\* The alters with these indices, in their order.
Among(indices) ==
  LET kept[n \in 0..Len(alters)] ==
        IF n = 0 THEN <<>>
        ELSE IF n \in indices THEN Append(kept[n - 1], alters[n]) ELSE kept[n - 1]
  IN kept[Len(alters)]

HasItsCard(a) == a.source = "instant" \/ a.inPlay

\* ActionLayer::Update drops those that have done their work and those whose
\* card is gone; testDestroy means to spare sorceries too, but does not.
\* Mutant: those that are done stay.
LivingEvenIfDone == Among({n \in DOMAIN alters : HasItsCard(alters[n])})

Living == Among({n \in DOMAIN alters : ~alters[n].done /\ HasItsCard(alters[n])})

nextPlayer ==
  LET p == currentPlayer
      q == IF extraTurn[p] > 0 THEN p ELSE Other(p)
  IN /\ extraTurn' = [extraTurn EXCEPT ![p] = IF @ > 0 THEN @ - 1 ELSE @]
     /\ skippingTurn' = [skippingTurn EXCEPT ![q] = IF @ > 0 THEN @ - 1 ELSE @]
     /\ currentPlayer' = IF skippingTurn[q] > 0 THEN Other(q) ELSE q

BeginsTurn ==
  /\ currentGamePhase = "BEFORE_BEGIN"
  /\ CombatCleanup
  /\ UNCHANGED <<currentPlayer, turnCounts>>

EndsTurn ==
  /\ currentGamePhase = "AFTER_EOT"
  /\ nextPlayer
  /\ UNCHANGED combatVars

StepAtCombatEnd == IF currentGamePhase = "COMBATEND" THEN "BLOCKERS" ELSE combatStep

\* The phases without a player's part lead on to the next one.
entered ==
  /\ Runs("entered")
  /\ IF currentGamePhase \in {"BEFORE_BEGIN", "AFTER_EOT"}
     THEN /\ BeginsTurn \/ EndsTurn
          /\ combatStep' = "BLOCKERS"
          /\ alters' = Living
          /\ calls' = <<Call("nextGamePhase", Head(calls).nested)>> \o Tail(calls)
     ELSE /\ combatStep' = StepAtCombatEnd
          /\ calls' = Tail(calls)
          /\ UNCHANGED <<combatVars, currentPlayer, turnCounts, alters>>
  /\ UNCHANGED <<ring, currentGamePhase, eventsQueue>>

recurse ==
  /\ Runs("nextGamePhase")
  /\ nextGamePhase(Head(calls).nested, Tail(calls), eventsQueue)
  /\ UNCHANGED <<ring, combatVars, currentPlayer, currentGamePhase, turnCounts, alters>>

\* ActionLayer::Update, once a frame.
UpdateLayer ==
  /\ Runs("update")
  /\ alters' = Living
  /\ calls' = Tail(calls)
  /\ UNCHANGED <<ring, combatVars, flow, turnCounts, eventsQueue>>

-----------------------------------------------------------------------------
(* What hears the events. *)

\* triggerOnEvent and addTheEffect of alters[n], for a phase that is to come.
PhaseAltered(n, to) ==
  LET a == alters[n]
      his == a.who = currentPlayer
      found == IndexOf(a.id) # 0
      ended == to = "CLEANUP" /\ a.next /\ a.applied /\ ~his
      adds == a.adding /\ ~a.applied /\ to = a.id /\ his
      removes == ~a.adding /\ to = a.id /\ his
  IN /\ CASE adds    -> addCombatAfter(a.id, FALSE)
          [] removes -> removePhase(a.id)
          [] OTHER   -> UNCHANGED ring
     /\ combatStep' = IF adds /\ found THEN "BLOCKERS" ELSE combatStep
     /\ alters' = [alters EXCEPT ![n].applied = @ \/ ((adds \/ removes) /\ found),
                                 ![n].done = @ \/ ended]

HearPreChange ==
  /\ Delivers("PhasePreChange")
  /\ LET event == Head(eventsQueue)
         n == event.heard + 1
     IN IF n > Len(alters)
        THEN eventsQueue' = Tail(eventsQueue) /\ UNCHANGED <<ring, combatStep, alters>>
        ELSE /\ eventsQueue' = [eventsQueue EXCEPT ![1].heard = n]
             /\ PhaseAltered(n, event.to)
  /\ UNCHANGED <<combatVars, currentPlayer, currentGamePhase, turnCounts, calls>>

\* GuiCombat, and MTGAttackRule: at the end of the declaration creatures that
\* were tapped no longer attack, and those that must attack do.
HearPhaseChange ==
  /\ Delivers("PhaseChange")
  /\ LET event == Head(eventsQueue)
     IN /\ OnPhaseChange(event.to)
        /\ IF event.from = "COMBATATTACKERS" THEN \E S \in SUBSET Attackers : Attacking(S)
           ELSE UNCHANGED <<attackers, blocking, assigned>>
  /\ eventsQueue' = Tail(eventsQueue)
  /\ UNCHANGED <<ring, blocked, hits, flow, turnCounts, alters, calls>>

HearCombatStep ==
  /\ Delivers("CombatStepChange")
  /\ LET s == Head(eventsQueue).step
         asks == RequestAfter(s, human)
     IN /\ OnStep(s, human)
        /\ CASE asks = "nothing" ->
                  eventsQueue' = Tail(eventsQueue) /\ UNCHANGED <<combatStep, calls>>
             [] asks = "nextCombatStep" ->
                  nextCombatStep(Tail(eventsQueue)) /\ UNCHANGED calls
             [] asks = "userRequestNextGamePhase" ->
                  nextGamePhase(TRUE, calls, Tail(eventsQueue))
  /\ UNCHANGED <<ring, currentPlayer, currentGamePhase, turnCounts, alters>>

-----------------------------------------------------------------------------
(* What happens between the calls: a frame brings the layers up to date,    *)
(* then come the players' requests and the effects that resolve.            *)

NextGamePhaseCalls == <<Call("update", FALSE), Call("nextGamePhase", FALSE)>>

\* userRequestNextGamePhase, by a player, the AI or the phase skipping; while
\* damage is being assigned only the skipping comes through.
Request ==
  /\ Idle
  /\ cursor_pos = "NONE" \/ currentGamePhase = "COMBATDAMAGE"
  /\ calls' = NextGamePhaseCalls
  /\ UNCHANGED <<ring, combatVars, flow, turnCounts, alters, eventsQueue>>

clickOK ==
  /\ Idle
  /\ cursor_pos # "NONE"
  /\ cursor_pos' = "NONE"
  /\ calls' = IF step \in {"ORDER", "DAMAGE"} THEN NextGamePhaseCalls ELSE <<>>
  /\ UNCHANGED <<ring, attackers, blocking, blocked, assigned, step, hits, flow, turnCounts,
                 alters, eventsQueue>>

toggleAttacker(a) ==
  /\ Idle
  /\ currentGamePhase = "COMBATATTACKERS"
  /\ Attacking(IF a \in attackers THEN attackers \ {a} ELSE attackers \cup {a})
  /\ UNCHANGED <<ring, blocked, step, cursor_pos, hits, flow, turnCounts, alters, eventsQueue, calls>>

\* No later than the triggers: then the player whose turn it is acts alone.
toggleDefenser(b, a) ==
  /\ Idle
  /\ currentGamePhase = "COMBATBLOCKERS" /\ combatStep \in {"BLOCKERS", "TRIGGERS"}
  /\ a # blocking[b]
  /\ Blocking(b, a)
  /\ UNCHANGED <<ring, flow, turnCounts, alters, eventsQueue, calls>>

\* A creature dies, or regenerates and is removed from combat: in the phase of
\* the blockers, that may make its attacker unblocked again.
CreatureLeaves ==
  /\ Idle
  /\ \/ \E a \in attackers : AttackerLeaves(a)
     \/ \E b \in Blockers : blocking[b] # Nothing /\ BlockerLeaves(b)
     \/ \E b \in Blockers : /\ blocking[b] # Nothing /\ currentGamePhase = "COMBATBLOCKERS"
                           /\ Blocking(b, Nothing)
  /\ UNCHANGED <<ring, flow, turnCounts, alters, eventsQueue, calls>>

\* A number for a card, which its abilities share and no other's have.
NewCard == Min((1..(Len(alters) + 1)) \ {alters[n].card : n \in DOMAIN alters})

Altering(id, who, adding, source) ==
  [card |-> NewCard, id |-> id, who |-> who, adding |-> adding, applied |-> FALSE, next |-> source # "static",
   source |-> source, inPlay |-> source \in {"static", "permanent"}, done |-> FALSE]

\* A card makes a player skip phases: of the next turn, or always ("static").
GrantSkip(who, source, ids) ==
  /\ Idle
  /\ Len(alters) + Len(ids) <= MaxAlters
  /\ alters' = alters \o [i \in DOMAIN ids |-> Altering(ids[i], who, FALSE, source)]
  /\ calls' = <<Call("update", FALSE)>>
  /\ UNCHANGED <<ring, combatVars, flow, turnCounts, eventsQueue>>

\* A creature that attacks or damages gives its controller another combat.
GrantCombatPhase ==
  /\ Idle /\ ExtraCombats
  /\ currentGamePhase \in {"COMBATATTACKERS", "COMBATBLOCKERS", "COMBATDAMAGE"}
  /\ Len(alters) < MaxAlters /\ Len(turn) <= MaxPhases
  /\ alters' = Append(alters, Altering("COMBATEND", currentPlayer, TRUE, "permanent"))
  /\ UNCHANGED <<ring, combatVars, flow, turnCounts, eventsQueue, calls>>

\* A sorcery gives another combat and main phase "after<this>" main phase: its
\* effect takes place at once, on the next event.
GrantCombatAfterMain ==
  /\ Idle /\ ExtraCombats
  /\ currentGamePhase \in {"FIRSTMAIN", "SECONDMAIN"}
  /\ Len(turn) <= MaxPhases
  /\ addCombatAfter(currentGamePhase, TRUE)
  /\ combatStep' = "BLOCKERS"
  /\ UNCHANGED <<combatVars, currentPlayer, currentGamePhase, turnCounts, alters, eventsQueue, calls>>

SourceLeaves ==
  /\ Idle
  /\ \E a \in Range(alters) :
       /\ a.inPlay
       /\ alters' = [n \in DOMAIN alters |->
                       IF alters[n].card = a.card THEN [alters[n] EXCEPT !.inPlay = FALSE]
                       ELSE alters[n]]
  /\ calls' = <<Call("update", FALSE)>>
  /\ UNCHANGED <<ring, combatVars, flow, turnCounts, eventsQueue>>

\* AAModTurn; one turn of each kind at a time.
GrantTurn(p) ==
  /\ Idle /\ TurnEffects
  /\ \/ extraTurn[p] = 0 /\ extraTurn' = [extraTurn EXCEPT ![p] = 1] /\ UNCHANGED skippingTurn
     \/ skippingTurn[p] = 0 /\ skippingTurn' = [skippingTurn EXCEPT ![p] = 1] /\ UNCHANGED extraTurn
  /\ UNCHANGED <<ring, combatVars, flow, alters, eventsQueue, calls>>

-----------------------------------------------------------------------------
\* The default rules start a game in the first player's first main phase.
Init ==
  /\ turn = GameTurn /\ current = 5
  /\ currentGamePhase = "FIRSTMAIN" /\ combatStep = "BLOCKERS"
  /\ currentPlayer \in Players
  /\ extraTurn = [p \in Players |-> 0] /\ skippingTurn = [p \in Players |-> 0]
  /\ CombatInit
  /\ alters = <<>> /\ eventsQueue = <<>> /\ calls = <<>>

Advance ==
  \/ forward \/ move \/ landed \/ arrive \/ entered \/ recurse \/ UpdateLayer
  \/ HearPreChange \/ HearPhaseChange \/ HearCombatStep

Next ==
  \/ Advance
  \/ Request \/ clickOK
  \/ \E a \in Attackers : toggleAttacker(a)
  \/ \E b \in Blockers, a \in attackers \cup {Nothing} : toggleDefenser(b, a)
  \/ CreatureLeaves
  \/ \E who \in Players, source \in Sources, ids \in Skips : GrantSkip(who, source, ids)
  \/ GrantCombatPhase \/ GrantCombatAfterMain \/ SourceLeaves
  \/ \E p \in Players : GrantTurn(p)

Spec == Init /\ [][Next]_vars

\* A call runs to its end, and whoever may ask for the next phase does so in
\* the end: a player, or for the AI its Act.
FairSpec == Spec /\ WF_vars(Advance) /\ WF_vars(Request \/ clickOK)

-----------------------------------------------------------------------------
Alterations ==
  [card : Nat, id : PhaseIds, who : Players, adding : BOOLEAN, applied : BOOLEAN, next : BOOLEAN,
   source : {"instant", "sorcery", "permanent", "static"}, inPlay : BOOLEAN, done : BOOLEAN]

\* The cursor is on a phase of the list, also where a list has been changed
\* under it: putting it back "to where we were" never runs off the list.
RingDefined == current \in DOMAIN turn

\* Only attackers have blockers, and damage coming, in the lists of GuiCombat,
\* whatever happens between the phases; everything else is of its type.
TypeOK ==
  /\ turn \in Seq(Phases) /\ RingDefined
  /\ currentPlayer \in Players
  /\ extraTurn \in [Players -> 0..1] /\ skippingTurn \in [Players -> 0..1]
  /\ currentGamePhase \in PhaseIds /\ combatStep \in Steps
  /\ alters \in Seq(Alterations)
  /\ attackers \subseteq Attackers /\ blocked \subseteq Attackers
  /\ blocking \in [Blockers -> attackers \cup {Nothing}]
  /\ assigned \in [Blockers -> attackers \cup {Nothing}]
  /\ step \in Steps /\ cursor_pos \in {"NONE", "ATK"}
  /\ hits \in [Creatures -> Nat]

\* Between calls the combat step belongs to the phase: the tests of
\* nextGamePhase for the steps of two of the phases never meet another one's.
StepsFollowPhase ==
  Idle =>
    combatStep \in CASE currentGamePhase = "COMBATBLOCKERS" ->
                        {"BLOCKERS", "TRIGGERS", "ORDER", "END_FIRST_STRIKE"}
                    [] currentGamePhase = "COMBATDAMAGE" ->
                        {"FIRST_STRIKE", "END_FIRST_STRIKE", "DAMAGE", "END_DAMAGE"}
                    [] OTHER -> {"BLOCKERS"}

Strokes(c) == IF c \in DoubleStrike THEN 2 ELSE 1

\* No creature deals its combat damage twice (three times with double strike),
\* in whichever of the two phases, and by whichever of the nested calls, the
\* damage is dealt.
DamageOnce == \A c \in Creatures : hits[c] <= Strokes(c)

\* When a combat ends, every attacker still attacking that a blocker or no one
\* has stood in the way of has dealt all its damage, and so has every creature
\* still blocking: no step is lost between a request and an event.
CombatIsComplete ==
  (Idle /\ currentGamePhase = "COMBATEND") =>
    /\ \A a \in attackers :
         (a \notin blocked \/ BlockersOf(a) # {} \/ a \in Trample) => hits[a] = Strokes(a)
    /\ \A b \in Blockers : blocking[b] # Nothing => hits[b] = Strokes(b)

\* Damage is assigned for the step the game is in: the assertion of clickOK
\* holds, and what it does is meant for this step.
ScreenInStep ==
  (Idle /\ cursor_pos # "NONE") => step = combatStep /\ step \notin {"BLOCKERS", "TRIGGERS"}

\* Phase, combat step and screen agree whenever the game waits for a player.
StepsAgree == StepsFollowPhase /\ ScreenInStep

\* No phase of the turn has been inserted a second time: what more extra
\* combats do to the order of the turn is PlayedStaysPlayed, below.
OneExtra == \A i \in DOMAIN turn : turn[i].extra <= 1

\* Between calls the game is in the phase the ring is in.
GameFollowsRing == Idle /\ OneExtra => currentGamePhase = currentPhase

\* An extra combat, and the main phase that may come with it, goes behind what
\* has been played: no phase of the turn comes again that was played before.
NothingPlayedTwice ==
  [][(Len(turn') > Len(turn) /\ current' # 1 /\ OneExtra') =>
       {turn[i] : i \in 1..current} \cap {turn'[i] : i \in (current' + 1)..Len(turn')} = {}]_vars

\* A combat given during a turn has been played before the turn ends, and none
\* is still owed then.
ExtrasArePlayed ==
  (Idle /\ currentGamePhase = "ENDOFTURN") =>
    /\ \A i \in DOMAIN turn : turn[i].extra # 0 => i < current
    /\ \A n \in DOMAIN alters :
         (alters[n].adding /\ alters[n].who = currentPlayer) => alters[n].applied

Landing == calls # <<>> /\ Head(calls).op = "arrive"

\* No phase is entered that an effect makes the player skip, if a player asks
\* for it and not, in the middle of an event, the combat.
SkipsAreObserved ==
  [][(Landing /\ arrive /\ ~Head(calls).nested) =>
       \A n \in DOMAIN alters :
         (~alters[n].adding /\ alters[n].who = currentPlayer) => alters[n].id # currentGamePhase']_vars

\* A "next" effect that has been applied is gone before the player's following
\* turn begins: it is marked in the opponent's cleanup step and dropped by the
\* update at the end of that turn.
SkipsOnlyNext ==
  (Landing /\ currentPhase = "UNTAP") =>
    \A n \in DOMAIN alters :
      ~(alters[n].next /\ alters[n].applied /\ alters[n].who = currentPlayer)

\* Whatever is assigned and asked, the damage phase leads to the end of combat.
CombatEnds == currentGamePhase = "COMBATBLOCKERS" ~> currentGamePhase = "COMBATEND"

\* However turns are given and taken, and settled all at once in nextPlayer,
\* the other player has a turn again, unless turns are given for ever.
TurnPasses ==
  \A p \in Players :
    []<><<\E q \in Players : GrantTurn(q)>>_vars \/ (currentPlayer = p ~> currentPlayer # p)

\* Nothing in a turn holds the game up for ever.
TurnMovesOn == CombatEnds /\ TurnPasses

-----------------------------------------------------------------------------
(* What comments and card texts say, and the code does not do. *)

\* "put us back to where we were": phases that have been played are not played
\* again when others are inserted.
PlayedStaysPlayed ==
  [][(Len(turn') > Len(turn) /\ current' # 1) =>
       {turn[i] : i \in 1..current} \cap {turn'[i] : i \in (current' + 1)..Len(turn')} = {}]_vars

\* "Target player skips ...": a skip a spell gave lasts until it is applied.
SpellsSkipIsKept ==
  [][\A n \in DOMAIN alters :
       (alters[n].source \in {"instant", "sorcery"} /\ ~alters[n].applied) =>
         \E k \in DOMAIN alters' : alters'[k].id = alters[n].id /\ alters'[k].who = alters[n].who]_vars
=============================================================================
