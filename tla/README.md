# Wagic in TLA+

Wagic (`src/projects/mtg`) is a game engine for a collectible card game in C++,
running on the small JGE engine (`src/JGE`). This directory specifies the parts
of it in which the order of events decides what happens: who may act and when
the stack resolves, how a turn walks through its phases and its combat, what an
ability waits for and what it costs, where the cards are, when a creature dies,
and how two threads share the cache of card images. TLC checks the
specifications on small instances; TLAPS checks theorems about them for every
instance.

Paths below are relative to `src/projects/mtg` unless they begin with `src/`.

| module | models | runs | proved in |
| --- | --- | --- | --- |
| `PriorityStack` | what the interrupt protocol promises (abstract) | as a property in `stack` | |
| `ActionStack` | `ActionStack.cpp`, the frame loop of `GameObserver.cpp`, what players and the AI may answer | `stack` | `ActionStack_proofs` |
| `PhaseRing` | `PhaseRing.cpp`: the list of phases and its edits | through `TurnFlow` | `TurnFlow_proofs` |
| `Combat` | `GuiCombat.cpp`: combat steps and who deals damage | through `TurnFlow` | `TurnFlow_proofs` |
| `TurnFlow` | `nextGamePhase`, `nextCombatStep`, `receiveEvent`, phase-altering abilities; composes the two above | `flow_*` | `TurnFlow_proofs`, `TurnFlow_skips` |
| `ActionLayer` | `ActionLayer.cpp`: the list of abilities, menus, targets, a payment by sacrifice | `layer` | `ActionLayer_proofs` |
| `ManaPool` | `ManaCost.cpp`, paying in `MTGRules.cpp`, the icons of `GuiMana.cpp` | `mana`, `mana_multikicker` | |
| `Zones` | `MTGGameZones.cpp`: cards that move, and what moves them on | `zones` | `Zones_proofs`, `Zones_settling` |
| `Damage` | `Damage.cpp`, `Counters.cpp`, life and death in `MTGCardInstance.cpp` | `damage` | `Damage_proofs` |
| `TextureCache` | `CacheEngine.h`, `WResourceManager.cpp`: main thread and worker | `cache`, `cache_mutex` | `TextureCache_proofs` |

`MC*.tla` hold the values of constants that a configuration cannot write down
(and the records of cards and effects). To check a run: `tlc -config
ActionStack.cfg ActionStack`, `tlc -config Damage.cfg MCDamage`. To check
proofs: `tlapm Damage_proofs.tla`. The runs, their configurations, the lines of
the source behind each definition and the hazards of the code with the
properties that cover them are in `PROJECT.json`.

## 1. Inventory

The game is one thread that runs frames (`GameObserver::Update`), plus one
worker that loads images. Inside the thread the hard behaviour is re-entrance:
events (`WEvent`) are delivered by `receiveEvent` to handlers that call back into
the game, which sends events, that wait in a queue until the handler has returned.

**Action stack** (`src/ActionStack.cpp`). State: `mObjects` (the unresolved ones
matter), `interruptDecision[2]`, `askIfWishesToInterrupt`,
`GameObserver::isInterrupting`, `timer`, the display mode. Operations: `addSpell`,
`addAbility`, `AddNextGamePhase`, `AddNextCombatStep`, `setIsInterrupting`,
`cancelInterruptOffer`, `endOfInterruption`, `resolve`, `Fizzle`, `Update`. It asks
the two players in turn, resolves the newest object when both have declined, and
runs the effects, which add to it. Hard: the decision, the offer and the holder
are three variables written at different places of the frame, and not only by the
stack: a may ability or a menu of the action layer takes the game for its player right
behind the stack's `Update`, whoever has it then. Correct when nothing resolves that
somebody may still answer (but for split second), an answer is charged to the player who
was asked, and every offer and every stack comes to an end.

**Game observer and turn** (`src/GameObserver.cpp`). State: `currentPlayer`,
`currentActionPlayer`, `isInterrupting`, `currentGamePhase`, `combatStep`, extra
and skipped turns, `eventsQueue`, the action log. Operations: `Update`,
`nextGamePhase`, `nextCombatStep`, `userRequestNextGamePhase`, `receiveEvent`,
`cardClick`, `gameStateBasedEffects`, `undo`. Correct when its phase is the ring's,
combat steps belong to their phase, and turns alternate.

**Phase ring** (`src/PhaseRing.cpp`). State: `ring`, `turn` (the list being played),
`current`. Operations: `forward`, `addCombatAfter`, `addPhaseAfter`, `removePhase`,
`goToPhase`. Cards change the list while `forward` is announcing a step in it.
Correct when the cursor stays on the list, nothing is played twice or lost.

**Combat** (`src/GuiCombat.cpp`, in spite of its name). State: `attackers` with their
blockers and damage, `step`, `cursor_pos`, `activeAtk`. Operations: handlers of phase
and combat-step events, `clickOK`, `autoaffectDamage`, `resolve`. Each step answers
the event of its predecessor: by nested calls for the AI, through the screen for a
player. Correct when every creature deals its damage exactly as often as it should.

**Abilities and their layer** (`src/ActionLayer.cpp`, `src/MTGAbility.cpp`,
`src/AllAbilities.cpp`). State: the list of live abilities, the one that waits for an
answer, the menu (indices into that list), the payment being chosen. Operations:
`Update`, `testDestroy`, `removeFromGame`, `moveToGame`, `reactToClick`,
`reactToTargetClick`, `cancelCurrentAction`, `setMenuObject`, `ButtonPressed`. Hard:
abilities are removed and added by other abilities while the list is walked; may
abilities take the game for their player and give it back. Correct when nothing that is
over stays, menus name what they named, and at most one ability waits.

**Mana and costs** (`src/ManaCost.cpp`, `src/MTGRules.cpp`, `src/GuiMana.cpp`,
`src/ExtraCost.cpp`). State: the pool and its icons, the cost of a card, which sunburst
changes when it is merely asked for, kickers, X. Operations: `canAfford`, `pay`, `Diff`,
`tryToPayHybrids`, `add`, `remove`, `randomDiffHybrids`, the rules that put a card into
play, with and without kickers. Correct when what is allowed is what can be paid and what
is taken is what is asked. Payments other than mana are chosen over several clicks; the
sacrifice is in `ActionLayer`.

**Zones** (`src/MTGGameZones.cpp`, with rules of `src/MTGRules.cpp` and effects of
`src/AllAbilities.cpp`). State: the cards of each zone, `placeOnTop`, `needShuffle`. Moving a
card replaces it by a copy; whoever points to the old one finds the new one through
`next`, or moves a card that is no longer there. Events tell of moves when the handler
that made them has returned, and rules answer by moving the card on. Correct when a
card is in one zone, where the rules of the game put it.

**Damage** (`src/Damage.cpp`, `src/Counters.cpp`, `src/MTGCardInstance.cpp`). State: toughness,
life, counters, shields, prevention, `doDamageTest`, `skipDamageTestOnce`. Operations:
`Damage::resolve`, `DamageStack::resolve` and `receiveEvent`, `afterDamage`, `destroy`, `bury`,
`triggerRegenerate`, `addCounter`, `removeCounter`, `cancelCounter`, the cleanup of a turn, and the rules
for deathtouch and persist. Hard: whoever has changed a creature leaves it to others
to test whether it is dead, at one of many moments. Correct when life is toughness less
damage, and who should die dies once.

**Texture cache** (`src/WResourceManager.cpp`, `include/CacheEngine.h`). State: the
map of items (with null entries for known misses), locks, `mError`, the counters, the
queue of requests and its lookup, three mutexes. Hard: two threads, lookups under
another mutex than the insertions, a cap that drops requests. Correct when no request
is forgotten or doubled, no item leaks, locked items stay, and cards get their image.

The other components are listed in section 9, and one by one in `PROJECT.json`.

## 2. The stack: `ActionStack`

The state is that of the code, with three abstractions. Objects are their *kind*:
`SplitSecond` for a spell of such a card, `NextGamePhase`, and `Ordinary` for all others (only
a spell knows its source on the stack, so an ability never counts as split second); resolved
objects, which the code keeps for the display, are dropped. What an effect does is
nondeterministic within what matters here: it may remove an object below it (a counterspell),
trigger up to `MaxTriggers` abilities, open a target chooser, and, for `NextGamePhase`, change
whom the turn waits for. What the AI does with its turn is any legal click; what it does to
the protocol is exact.

A frame has these parts, run in order (variable `frame`):

- `Update` is the head of `GameObserver::Update` and `ActionStack::Update`: it works out
  whom the game waits for (`ActingPlayer`), the display mode, then offers, holds
  or resolves. The effect of `resolve` runs while its object is still on the stack,
  then the decisions are cleared except `DONT_INTERRUPT_ALL`.
- *Layer* is `ActionLayer::Update`, which `DuelLayers::Update` runs right behind. With no menu open it
  walks through the abilities: a may ability (or a `MenuAbility`) opens the menu and calls
  `setIsInterrupting` for its controller, over an offer just made or an object with split second as well as on
  an empty stack (`MayAbilityClaims`); one that is over may give the game back to whom it
  had it from (`MayAbilityGivesBack`); a forced choice without targets is given up (`WalkEnds`);
  abilities trigger (`StateTrigger`). With a menu open the walk is the menu's: an entry is
  chosen (`MenuEntry`; of several choices, the player who has the game declines what it was
  offered: `ChoiceDeclines`), it is cancelled, which ends the interruption (`MenuCancelled`), or it stays.
- *Input* is a key or click in the frames of a human (`KeyInterrupt`, `KeyNo`,
  `KeyEndInterruption`, `HumanPlays`, `HumanRequestsNextPhase`, `NoInput`), or
  `AIPlayerBaka::Act` in those of an AI (`AIWaits`, `AIPlays`, `AIHolds`, `AIAnswersMenu`,
  `AIDeclines`, `AIRequestsNextPhase`, `AIIsDone`). The player of the frame was fixed before the
  stack's `Update` ran, so that keys may be read in the frame of one player and
  answered for another: `AnswerGoesToAsked` is about that. An AI that has a menu answers it there, by the same
  actions as the layer, and goes on.
- *Again*: the walk once more when something was clicked (`stuffHappened`).
- *Effects*: triggered abilities, `AddNextCombatStep`, automatic phase skipping.

`PriorityStack` is the promise in terms of items and passes. Under the mapping
`items <- mObjects`, `passed <- {p : interruptDecision[p] \in Declined}` every
step of `ActionStack` is one of its steps: a pass never counts for something
added after it, and only the newest item resolves, with both passes or with split second. That a may
ability takes the game can only take a pass back (`Claim`).

Run `stack` (500,399 states): three objects, one trigger an effect, split second, may abilities and menus at
any moment, one frame to answer. It checks:

- `AnswerGoesToAsked`: while an offer waits for its answer, there is something to answer, the offer is open, and
  the player who would be charged is the one asked; unless, in the same frame, a menu has been answered that let go of the game.
- `AgreedMeansFree`: when both players have declined, nobody is left holding the game.
- `HolderKeepsStack`: while a player has said it interrupts, by key, as an AI or through a may ability, nothing
  leaves the stack, unless the newest object has split second: that one resolves under any holder.
- `ImplementsPriorityStack`, the refinement.
- `GameMovesOn`: an offer is decided, unless the game is taken from its player, the object is gone or has split
  second, or a target on the stack is to be chosen; and a stack to which nobody adds any more empties, once no may
  ability takes the game and no menu is answered any more, unless a human interrupts or a chooser stays open.

*Bounds.* Three objects are enough for an effect that counters one below it and
triggers one above it; two for one object resolving under another. How many may abilities and menus come, and
when, is not bounded. The timer counts
frames: with one frame per object the clock runs out, is stopped and restarted
within the instance. Player 0 is at the screen, player 1 is the AI, as in a duel
(the code answers for player 0 where it has nobody else: `IdOf`).

*Fairness* (`FairSpec`). Every part of a frame comes after the one before: the
game loop of `JGE` does not stop. An AI that has the frame again and again runs out
of things to click, so that in the end it declines, with a menu or without (strong fairness of `AIDeclines` and `AIAnswersMenu`:
its own timer lets it act only now and then). Nothing is assumed of a human
but that the clock decides for them; therefore `GameMovesOn` is checked with a time limit.

*Abstracted:* which abilities there are (module `ActionLayer` has them): any may ability may come in any walk, in any order
with the others. The walk of *again* is made once, not until nothing happens; what another one would do, the next frame's does.

## 3. The turn: `PhaseRing`, `Combat`, `TurnFlow`

`receiveEvent` delivers an event before it returns unless another one is being
delivered; then the event waits. A call of `nextGamePhase` therefore either runs
with its events heard at once, or *nested* in a handler, ahead of all of them.
`TurnFlow` keeps what is left of the calls as `calls`, each marked `nested` or not,
and delivers the head of `eventsQueue` when the call at the head is not nested. The
pieces of a call are actions of their own exactly where a handler can come between
(`Zones` and `Damage` below have the same two variables, for the same reason):

- `forward` moves the cursor, warns (`PhasePreChange`); `move` takes the step
  back, makes it for good if the list has not changed, or starts anew; `landed` is
  the jump over a combat without attackers; `arrive`, `entered` are the rest of
  `nextGamePhase`; `recurse` its recursion at both ends of a turn.
- `HearPreChange` passes the warning through the phase-altering abilities one by
  one, `HearPhaseChange` and `HearCombatStep` are `GuiCombat` and the attack rule.
- Between calls (`Idle`): `Request`, `clickOK`, `toggleAttacker`, `toggleDefenser`,
  `CreatureLeaves`, the granting of skips, combats and turns, `SourceLeaves`.

`PhaseRing` keeps `std::list` iterators as indices moved along with their elements.
The copies inserted by one effect share a number (`extra`), which tells them from
the phases of the rules. `Living` is what `ActionLayer::Update` leaves of the abilities, in their order: `Among` those that
`HasItsCard` and are not done. `Combat` counts in `hits` how often each creature has dealt
combat damage; power and toughness are positive and constant.

| run | question | instance | states |
| --- | --- | --- | --- |
| `flow_combat` | is all combat damage dealt, once, in its phase (`DamageOnce`, `CombatIsComplete`); do step, phase and screen agree (`StepsAgree`); do combats and turns end (`TurnMovesOn`) | 2 attackers, 2 blockers: first strike, double strike, trample, none; extra and skipped turns; a player and an AI | 210,624 |
| `flow_phases` | does the cursor stay on the list (`TypeOK`), the game follow it, an extra combat come before the turn ends; are skipped phases not entered, and "next" effects gone in time | two phase-altering abilities of any source, extra combats up to a list of 26 phases | 12,188,670 |
| `flow_replay` (violated) | is nothing played twice, with more than one extra combat? | | |
| `flow_sorcery` (violated) | does the skip given by a sorcery last? | | |

*Bounds.* A creature of each kind of strike on each side, two blockers on one
attacker (the order step) or one on each, cover the branches of the combat steps;
the mutants show that a lost or doubled step is met. The length of the list
(`MaxPhases`) limits how many extra combats a turn gets, `MaxAlters` how many
effects are waiting, and each player has at most one extra and one skipped turn coming.

*Fairness.* A call runs to its end (`Advance`), and whoever may ask for the next phase does in
the end: a player by a key, the AI by `Act`. Only `TurnMovesOn` uses it.

*Left out:* creatures entering the battlefield attacking, pointers that a card keeps to a
creature that left, rings other than the default, `addPhaseAfter`, and the stack between a
request and its effect (there a request takes effect when the game is idle).

## 4. The abilities: `ActionLayer`

A frame is `StackUpdate` (an object resolves, or the player has the game), `Walk` (backwards,
removing what is over: `testDestroy`), `Update` (forwards, each ability doing its part), input and
effects. Only abilities that add or remove others while the list is walked are told apart: an
*activated* ability with targets that costs a sacrifice, a *may* (which opens the menu, takes the
game, and adds a clone of what it offers), a *multi* (which owns a part) and a *lord* (which gives
children to other cards). `Walk` folds one turn of the loop, with the index that jumps when the
list has shrunk, over the list. The player clicks cards, menu entries, the cancel key and the keys
of the stack, in any order; a click works on a record of the state, so that what one call leaves
the next one reads.

Run `layer` (628,791 states): one activated ability, two mays of one card that come into play in
either order or together (one forced and with two targets, one for mana), a multi and a lord.

- `ListIsKept`: types; after the walk nothing that is over is left, and no part or child without
  its owner; what waits is listed, unless it was removed with its payment.
- `MenuIsFresh`: entries of the open menu, indices into a list that goes on changing, still name
  abilities of its card.
- `WaitingIsCurrent`, `OverlapNeedsMenu`: one ability waits and the clicks go to it, until the
  assertion of `setCurrentWaitingAction` fails ("this assert causes crashes when may abilities overlap
  each other on ai"), which only happens beside an open menu or an owed payment.
- `ChoicesEnd`: a forced choice whose targets left ends, and so does every choice whose player
  goes on picking targets. Fairness is that of the frame loop alone (`WF_frame(Advances)`).

*Bounds.* `MaxClones = 1` clone of a may and `MaxStack = 2`: one object resolving under another.
Two creatures are one target and one sacrifice, or both targets. The player is a human in a turn
of their own; offers between players are those of `ActionStack`, of which `StackUpdate` is
the abstraction.

## 5. Mana: `ManaPool`

`canAfford` is `Diff` and its tests: hybrids are tried first, from the last to the first, each by its
first side and then its second; then coloured mana, X, and the rest. Amounts are `int8_t` (`Wrap`);
the instance has eight values (`Half = 4`), so that wrapping happens. `Query` asks whether the card in hand can
be played, which changes a cost with sunburst. `Play`, `Activate`, `Produce`, `Burn` and the effects that add
or take mana change the pool; the icons follow the events that were sent, and only those.

Run `mana` (45,010 states): three kinds of mana, two equal hybrids crossed, a hybrid of two colourless or
one coloured, X (any, and one colour's), a kicker, sunburst, two abilities.

- `CanAffordIsRight`: for a pool without debt, `canAfford` says yes exactly when the rules of the game allow
  the cost (`Payable`, stated without any order); except that with two hybrids of which one side is
  colourless it may say no.
- `PaymentsLeaveNoDebt`: only too much mana of one colour makes an amount negative.
- `CostsAreHonoured`: what is spent is the converted cost, the kickers and the announced X, as
  long as the pool fits in an `int8_t`; what sunburst makes of a cost can still be paid.
- `PoolIsShown`: types, and the icons hide no mana.

`mana_multikicker` is a violation: see section 8.

## 6. Zones and damage: `Zones`, `Damage`

**`Zones`.** A card stands for its newest object; calls, events and objects on the stack that name
an older one are not `live`. `putInZone` is one operator with the whole of the code's case distinctions (set
aside from library to library, tokens, control changes, the copy, the event); the actions are the
effects that call it (`Play`, `Resolve`, `Draw`, `Mill`, `Discard`, `Die`, control changes, creation of tokens, shuffles),
and what hears the event: persist, unearth and token rules.

An effect names its zones by `Where` of a player and a zone's name (`Named`), "stack" and "temp" included; an effect that names a
place where the card is not makes no call (`Mover`). A blink acts when the action layer next comes to it, in the frame it resolved in; nothing
modelled comes between, so that both are one action.

Run `zones` (893,598 states): a creature that may be unearthed, one that persists, an instant, a token,
a removal to the library, a tutor, unearth and a blink; one object on the stack at a time. Deadlock is not
checked: all cards may be in exile. Fairness: an effect and its events are worked off in one call
(`WF_vars(Settle)`), for `EventsDrain`.

- `OneZonePerCard`: no card is in two zones, twice in one, or lost.
- `InBetweenIsKept`: types; between effects, "temp" holds what is set aside for the top of the library and no
  more, and the zone "stack" the cards of spells on the stack.
- `GoneForGood`: tokens that left play are gone, and who left play with unearth is in exile.
- `EventsTellTheWay`: the events of a card that wait tell a way that ends where the card is.
- `PlacedOnTop`: after the shuffle the cards set aside are on top, in order.

**`Damage`.** The body of a creature is what the code keeps of it: toughness and life, two
numbers changed one by one, counters and the list of kinds it has had, pumps, shields, prevention, the flag `doDamageTest`, and
whether a damage stack points to it (`struck`). `marked`, `touched` (by deathtouch) and `returned` are history
variables. `CombatDamage` fills `calls` with the damage of a step and the event at its end, nested in the
handler of that step; `DamageSpell` is heard at once; `afterDamage` is part of whatever calls it.

Run `damage` (2,825,119 states): creatures with persist, with undying and toughness 1, indestructible, and one
that loses counters for damage; one of them in play at the start beside a bystander of toughness 1, one counter of each kind,
one damage mark, one shield.

- `DamageIsMarked`: toughness is what is printed, put and pumped, life is that less the damage.
- `NoneDeadIsForgotten`: without life, a creature is going to be tested, however its flag has been cleared or
  its test put off.
- `DeathtouchKills`: when all events are heard, who was touched has left or been regenerated.
- `ReturnsStay`: what came back in an effect is not reached by what was under way for the object that died.

A damage stack tests its creatures once for every time it dealt damage to them, which matters only to a creature whose test was put off:
the number is not kept, and such a creature may be tested again in the same walk or not (`TestEach`).

*Left out:* damage to players, phantom, absorb and vigor (the shape of wilting), counters of other kinds,
replacement effects. `Wilting` is empty in the instance: its path is that of wither's counters.

## 7. The cache: `TextureCache`

What runs under one mutex is one action unless the other thread can see it in the
middle; the steps between are values of `ui` and `worker`. The main thread retrieves
(`RetrieveHit`, or `RetrieveMissing`, `Cleanup`, then `QueueRequest` for a card and
`LoadNow` for anything else), releases, clears (`ClearUnlocked`, which walks the map with no
mutex) and tears down. The worker is `ThreadProc`: it looks at the queue without the mutex,
pops with it, loads, decides by the shared `mError` whether a failure is recorded, inserts,
and takes the id out of the lookup. `cacheItems` and `cacheSize` are updated by both threads
without a mutex and may have any value; so `Cleanup` may evict any unlocked items.

Run `cache` (14,138 states): three cards, one whose file is missing, one other texture, two
places in the queue instead of seven, two locks at a time. Two places and three cards make the cap drop requests
while the worker is at each of its steps. `WorkerServes` says that drawn cards arrive and the tear-down ends. The former is conditional: if the image of a
card is evicted again and again, or a file fails to load again and again (a failure is recorded only if
`mError` still says so), a card may never appear, as is to be expected with a queue that drops its oldest.
*Fairness:* both threads are scheduled; a card on the screen is retrieved in every frame (strong fairness, as the
main thread may be busy with another card at any given moment). `cache_mutex` is a violation: see below.

## 8. What is proved, and what was found

Each theorem holds for all values of the constants that the modules' named assumptions allow: the
players are 0 and 1, bounds are naturals, and what is said to be a set of creatures, cards or ids is one.

**`ActionStack_proofs`**: `TypeOK`, `AnswerGoesToAsked`, `AgreedMeansFree` are invariants of `Spec`, and
`HolderKeepsStack` holds of every step, with may abilities that take the game and menus that are answered at any moment. Only `TypeOK` is inductive
alone; `IInv` is the three together:

- `AgreedMeansFree` needs `AnswerGoesToAsked`, as a decline clears the holder only when it is charged to them; or there is
  no holder any more, and then it clears nobody.
- `AnswerGoesToAsked` survives the walk of the action layer since a may ability that takes the game withdraws the offer with it, and since what
  a menu puts on the stack or does at once leaves the offer as open as it was (`OfferStays`, `OfferStaysAnswerable`).

There is a lemma for each way a step can go: the offer is withdrawn and decisions are made (`FreshKeepsIInv`), only reopened
(`ClearingKeepsIInv`), cancelled (`CancelKeepsIInv`) or given to a player (`TakingKeepsIInv`), or nothing happens to it (`QuietKeepsIInv`); then one for each part of the frame, and
the theorem `Inductive`. `HolderKeepsStack` follows from `TypeOK` and from what `Asked` looks at: with a player that interrupts, whoever is asked first, `Asked` does not come to
two declines, so that only split second resolves.

The same module proves the refinement, `Spec => Priority!Spec`. Under `IInv`, additions, by triggers, players or menus, are `Push`es (lemmas on
prefixes), declines are `Pass`es, by the player, by the clock or by a choice made in a menu, interruptions taken, given back or ended are `Claim`s, as is what
happens at once and clears the decisions, and what `resolve` removes is the last item, with both passes or with split second.

**`ActionLayer_proofs`**: `WaitingIsCurrent` and `OverlapNeedsMenu`, for any abilities, cards and menus. A click is a chain of operators on
records; `Keeps(c, d)` says what each of them preserves of waiting, current and asserted, and that it raises the assertion only
if something was current. The lemmas compose along the calls of the code.

**`TurnFlow_proofs`**: `TypeOK`, `StepsAgree`, `DamageOnce`, `CombatIsComplete`, `GameFollowsRing`, `NothingPlayedTwice`, `ExtrasArePlayed`, for any creatures and kinds of strike, any
extra combats and turns, and any skips that satisfy `SkipsSpareCombat`: no card makes a player skip the phases from the blockers to the end of
combat, or the last of the turn. That is what the cards that skip an untap, upkeep or draw step do. It is needed: for cards that skip
the whole combat (False Peace, Moment of Silence) the first two fail, see below. `IInv` is `Typed`, in which the list of the turn is
`Chained` (whatever follows a phase may follow it, `After`), and one of the situations in which the game can be:

- `Resting`: no event waits; the step fits the phase, the screen the step, the damage dealt so far both (`Tally`);
- `Requested`: on the way from a phase to the next at a request, one predicate for each pair of a call and an event under way
  (`Leaving`, `Warned`, `Landed`, `Arriving`, `Entering`; `Skips...` for the jump over a combat without attackers);
- `Hurried`: in a combat step's handler, from where the phases follow each other while the warnings and changes
  are still waiting to be heard (`Stepping`, `HurriesOn`, ... `EndReached`).

`Tally(told)` says for each step what every creature has dealt when the event of the step has, or has not, been answered. There is a lemma for each situation that says which
situations can come next; they rest on lemmas about inserting into and taking from the list, about `Among`, and about what each step of combat does to `Tally`.
`IInv` is a disjunction of situations, since none of the variables says alone which calls and events can be under way together.

`GameFollowsRing` and `NothingPlayedTwice` need a second invariant on top of `IInv`, `Ordered`, which relates the list to the phase the game
is in: a turn without copies has every phase once, and every copy comes with one of its blockers, which nothing takes out (`InOrder`); when the end of
combat is warned of, the ring has come to it (`OnCombatEnd`), so that the *first* end of combat, where `addCombatAfterPhase` looks
from the start of the list, is the one being played; and once a phase has arrived the ring is on it (`InRing`), up to a second extra combat. Neither of the last two is
inductive without the first: what `Placed` says of an insertion holds if the ring is on the first phase of that name. The lemmas `...Where` follow the calls
from a phase to the next; `HeraldWhere` says which warnings can be under way with which calls.

`ExtrasArePlayed` needs a third, `Owing`: an ability that owes a combat owes it to the player whose turn it is, and either the game is still in
the combat it was given in (`InCombat`, also while the ring is between two phases, `Behind`), or the end of combat is being warned of and the warning has
not come to this ability yet (`heard < n`), so that it will put its combat into the list. It holds because the warning goes through the abilities one by one, in order, and an ability it reaches
puts its combat in at once and owes it no longer (`MarkedOwes`). That the combats put in have been played follows from the order of the list: from `ENDOFTURN` on `After` leads
to no phase that is ever copied (`ExtrasLieBehind`, by induction along the list).

**`TurnFlow_skips`**: `SkipsAreObserved` and `SkipsOnlyNext`, on top of the invariants of `TurnFlow_proofs` and under `SkipsSpareCombat` as well.
`SkipsAreObserved` needs a fourth, `Heeding`, and that no card names the point before a turn (`SkipsSpare(Unannounced)`): the ring comes to it by
starting a list anew, and no warning is of it. While the layers are warned of a phase, either the list still has the length it had when the warning was sent,
the ring is on the phase announced, and none of the abilities that have heard makes the player skip it (`Spared(id, heard)`); or the length has changed, and what is still heard
takes it no nearer to what it was (`Heard`, `LengthAltered`: of a phase to be kept nothing is removed, at any other nothing is put in), so that `ListChanged` makes the ring look again. Without the second part
a removal and an insertion at the same warning could hide each other from the comparison of the lengths, which is all that `PhaseRing::forward` does.

`SkipsOnlyNext` (`SkipsLastOneTurn`) needs a fifth, `Lasting`, for which the whole life of an ability counts. `Untapped`: once one has been applied to the player's own turn (`Spending`), no untap step lies ahead of the ring,
since the only one of a turn is at its beginning, and an ability that takes that one out takes with it what it would be compared at. `Swept`: the warning of the cleanup step marks what was applied in the other player's turn, one ability after the other
(`NoneStale(heard)`), so that from there to the update that follows `nextPlayer` nothing is left unmarked (`Closing`), and when the turn passes to the player
nothing applied is left (`Turning`). `Closed` says that a turn ends only behind its cleanup step. Two hypotheses are added. No card names the cleanup step: none does, and with two abilities about the
cleanup step and the attackers TLC finds no violation either, but `Closed` no longer holds. And cards neither give nor take whole turns (`~TurnEffects`): this one the property needs. With an extra turn no cleanup step of the other player's comes between, and TLC finds the
spent ability in the list when that turn untaps: the code looks only at the player and the phase, so that the phase would be skipped a second time.

**`Zones_proofs`**: `OneZonePerCard`. `IInv` is `Apart` (typed, no repetition, disjoint), `AllThere`, and types
of calls, events, stack and `placeOnTop`. The lemmas say what taking an element out of, and adding it to, a sequence
without repetition does; one lemma for `putInZone` and `shuffle`, one per action.

**`Zones_settling`**: `EventsTellTheWay`, `PlacedOnTop`, `TypeOK`, and that nothing stays in "temp" and tokens cease to be
(`NothingStaysInTemp`, `TokensCease`), for any cards and effects; `GoneForGood` and `InBetweenIsKept` under `SpellsLeftAlone`: no effect but the spell's own moves cards
out of or into the zone "stack". No card of the game does so but one in `unsupported.txt` that moves the spell it has countered; and `MTGUnearthRule` has no answer
for a card that leaves play for that zone. The invariant `WInv` is `Steady` (types; objects on the stack point to cards that were there) and `Settling`: either nothing is under way (`Idle`), or
exactly one card is - about to be put (`Placing`), on its way into play before and in "temp" (`Entering`, `Entered`), arrived with its event waiting (`Calm`) - and all others are
where the rules say (`Fits`), or a library is being closed (`Closing`), in which each card set aside that has been put back is on top, in order, with an event of its own.

**`Damage_proofs`**: `DamageIsMarked`, `NoneDeadIsForgotten`, `DeathtouchKills`, `ReturnsStay`, `TypeOK`. `IInv` is: every body adds up
(`AddsUp`), has life or is going to be tested (`Watched`), and whoever has been touched by deathtouch is still to be
named by an event in the queue (`Doomed`), whatever else is in `calls`. First a lemma for each change of a body (a counter more or less, pairs cancelled, a shield
used, a test passed, damage, prevention, pumps, the end of the turn), then for each thing that can become of a creature
(`stays`, `leaves`, `destroy`, `afterDamage`, `addCounter`), then one per action. The point of `RegeneratedGood` and `TestedGood` is
that a flag is only cleared from a body that has life, or that nothing kills.

The same module proves `ReturnsStay`, for which the whole of `calls` and of the queue counts. What is under way reaches a creature (`Exposed`)
through a call that still points to its newest object, a walk that has yet to test it, or an event of damage. `RInv` is:
`Pursued` (only creatures in play are reached, and leaving play is told once, before the creature is back); `InTurn`
(effects that give counters and walks come one at a time, under everything else, and no damage waits to be told during those of the frame);
`Spared` (what has come back is not reached, nor was it struck, and it is in play or about to come back once more); and `Counting`, for the effect that goes on
to the new object: `AACounter` gives its counters to the creature by its card, so that its second counter falls on what came back. `Outlives` says what the body must stand: the counters that
are left to give, or a death that it returns from by its other keyword. The exception is `Frail`, a creature of toughness 1 that comes back with a -1/-1
counter and dies at once. The proof has a lemma for each thing that can become of the creature at work (`FateThen`), and one per action.

**`TextureCache_proofs`**: `TypeOK` (with
locked textures in the cache), `LookupIsInFlight`, `NothingReplaced` and `RequestToPop` are
invariants of `Spec`, so of any scheduling. `IInv` adds `RequestInHand` (the worker has a request
exactly between `Pop` and `Erase`), `AskedIsAbsent` (what waits in the queue is not in the
cache, nor is what is being loaded, until it is inserted) and `MissedIsAbsent` (what the main thread goes on to load is still missing).
The argument: only the worker adds cards to the cache, and only the one it has in hand; the queue, asked under its mutex, has
no id twice and none in hand, since the id leaves the lookup last. Hence nothing else can insert that id in between, although
the cache is searched under the wrong mutex. The cap drops only what is in front of the id just
added, so that the queue the worker saw non-empty stays so; for this the cap must be at least 1.

*Only model-checked:* all of `ManaPool` (whose sums are folds, about which the library has no theorems); of
`ActionLayer`, `ListIsKept` and `MenuIsFresh` (the walk is a fold with `SelectSeq`);
and the liveness
properties (`GameMovesOn`, `TurnMovesOn`, `ChoicesEnd`, `EventsDrain`, `WorkerServes`), for which fairness and `ENABLED` are out of the prover's reach. RECURSIVE
operators are out of its reach as well; no module uses them. The library's induction theorems, and `SelectSeq`, take operators as parameters, which the provers cannot instantiate: where a proof
needs induction over the length of a list (`Among`, `IndexOf`), it is the least element of a set of naturals (`LeastExists`, from `WFMin`) instead.

Each property of a passing run has a mutant: a definition of the model changed as a slip in the code would
change it (marked `Mutant:` in the modules), under which TLC finds the property violated.

**Violations**, each a run:

- `flow_replay`: `addCombatAfter` goes behind the *first* phase with the id, and takes the cursor there: a second extra
  main phase and combat replays the first ("put us back to where we were.", `src/PhaseRing.cpp:225`).
- `flow_sorcery`: `testDestroy` (`include/AllAbilities.h:4136`) asks twice whether the source is an
  instant, and never whether it is a sorcery; what False Peace gives is dropped by the next update.
- `mana_multikicker`: `MTGKickerRule::reactToClick` (`src/MTGRules.cpp:402`) adds kickers until the cost can no longer be
  afforded, and pays that cost: the pool is in debt ("dont play if you cant afford it.", `src/MTGRules.cpp:288`).
- `cache_mutex`: the map is read by `QueueRequest` under the queue's mutex, and by `ClearUnlocked` under
  none, while the worker inserts. `cache` treats a single lookup or insertion as atomic, so its properties say what
  the protocol ensures *if* the map survives that.

**Seen while modelling**, without a run:

- *Stack and turn.* The timer is only started when it is below zero and is left running by
  `setIsInterrupting` and by additions, so that the next offer begins with what is left (`src/ActionStack.cpp:757`, `:765`).
  "Go directly to end of combat if no attackers" (`src/GameObserver.cpp:168`) makes two more steps, which lead elsewhere
  when an effect has removed the combat phases. `nextTurn` takes the ring of the player who is current after `nextPlayer`
  (`src/PhaseRing.cpp:71`), which matters only if the rings differ. A warning sent from inside a
  handler is heard after the step (`src/PhaseRing.cpp:154`), so `SkipsAreObserved` excludes nested calls. The
  guard against a second object in `AddNextGamePhase` passes its state where the type is expected (`src/ActionStack.cpp:465`).
  With extra turns a "next" skip may outlast the turn it was for. Cards that skip the whole combat are only safe outside of one:
  given in the declaration of blockers, the warning of the damage phase, sent from inside the handler of a combat step, is heard when the phase has been entered, which then is taken
  out of the list, and the game comes to the second main phase in the step `END_DAMAGE` (`StepsAgree`); and with two extra combats besides,
  `addCombatAfter` looks for the end of combat behind the cursor when it is the one ahead, and the loop `current--` runs off the front of the list
  (`src/PhaseRing.cpp:225`; `TypeOK`). Both are what TLC finds with `Skips <- WholeCombat` of `MCTurnFlow`.
- *Abilities.* The assertion of `ActionLayer.cpp:167` fails through a payment owed for one ability while another is clicked, and
  for two targeting mays. A payment that was chosen and then cancelled stays chosen (`src/ExtraCost.cpp:625`); its creature may have left when the ability
  is used again. Two mays of different sources in one frame overwrite the menu; a forced menu refused by the menu
  key leaves `cantCancel` set; a may's clone on the stack can be activated again. The interrupter that two mays
  restore in the wrong order (`src/AllAbilities.cpp:2390`) leaves a player interrupting.
- *Mays and the stack.* A may ability that resolves above a spell with split second makes its controller the interrupter, and the next
  `ActionStack::Update` resolves that spell all the same (`src/ActionStack.cpp:719`); an *ability* of a card
  with split second can be answered, since its object on the stack has no source. "Cancel" in a menu ends the interruption of whoever has the game, but does not withdraw the
  offer made in that frame (`src/ActionStack.cpp:785`): a "no" to the dialog is then charged to player 0, whoever was asked. A may ability for mana gives the
  game back to "nobody" by recording `INTERRUPT` for player 0 (`src/AllAbilities.cpp:2405`); and it reads `previousInterrupter` although `Update` may have
  returned before it was set (`src/AllAbilities.cpp:2385`).
- *Costs.* With `KICKER_ALWAYS`, or for an AI, the cost is paid and then each kicker by itself (`src/MTGRules.cpp:309`), and a colour may go
  negative. `ManaCost::init` leaves `xColor` unset and `hasX` reads it; X wraps at 128 mana.
- *Zones.* `AALibraryBottom` (`src/AllAbilities.cpp:251`) puts the old object at the bottom of the library when a rule has moved the card on
  or it was not there any more, without counting it. A player who closes the library before a tutor resolves leaves the card in "temp". An unearthed creature that
  persists returns for good. A trigger that moves the card of a spell out of the zone "stack" leaves `Spell::resolve`
  with a null pointer (`src/ActionStack.cpp:259`). The sweep at the end of the turn (`src/GameObserver.cpp:655`) starts again at index 0 and skips it.
- *Damage.* With wither a creature dies at the first -1/-1 counter, although "the send to graveyard effect will only apply AFTER Damaged
  triggers" (`src/Damage.cpp:208`), and such counters do not cancel +1/+1 counters, as the comment of `Counters::addCounter` has it. The rest
  of several -1/-1 counters goes to the object that came back. An indestructible creature without toughness is only looked at when a counter or a
  pump is added, not when one ends. A creature of toughness 1 with persist and undying returns for ever. Two sources with deathtouch need two shields.

## 9. Not modelled

The whole of the repository is about 108,000 lines. Most of them draw, parse or list: the
modules above map a small share of the lines, and that is the share in which state is changed by several
actors in orders that matter. What is left, and why:

- *Catalogues of cards*: `AllAbilities.h`, `AllAbilities.cpp`, `MTGAbility.cpp` (the parser of ability
  texts and some hundred small classes), `TargetChooser.cpp`, attributes of card instances,
  rules for single keywords, replacement effects. Each is a filter or a single assignment; the protocol
  they all share (adding, waiting, resolving, being destroyed) is in the modules above.
- *AI*: `AIPlayerBaka.cpp` chooses by heuristics; when it acts and what that does to the stack is in
  `ActionStack`, where it may choose anything.
- *Log, replay and undo*: the log holds the text of clicks, and replaying it parses them and calls the handlers of three of
  the modules above; a model would need the whole game in one, out of TLC's reach.
- *Composition of stack and turn in one model*: the product of `ActionStack` and `TurnFlow` was not attempted; each has the other as
  nondeterminism (whom the turn waits for; a request that takes effect when the game is idle).
- *Network play*: compiled only with `NETWORK_SUPPORT`, which no build file defines; it registers one command.
- *Decks, shop, tasks, awards, story, options, translation, card data*: single-threaded bookkeeping and text files.
- *Game states, graphical layers, menus, fonts, widgets*: presentation; the frame loop is in `ActionStack`.
- *JGE, wge, third-party code, platform mains, the test suite*: underneath or beside the game.

All hazards listed in `PROJECT.json` but two have a property: undo past the end of the log, and the use of an
item of the cache after its mutex was released, which no comment of the code claims to be safe.

## 10. Plan

*Done:* the stack with its refinement proved; ring, combat and turn, with damage and steps proved; the action layer; mana; zones, with all their safety proved; damage; the cache.
*Left, in this order:* the walk of `ActionLayer` without a fold, for `ListIsKept`; damage to players and replacement effects in `Damage`; the other extra
costs in `ActionLayer`; the composition of stack and turn.
