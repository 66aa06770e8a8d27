-------------------------------- MODULE Zones --------------------------------
(***************************************************************************)
(* Where the cards are.  MTGPlayerCards::putInZone moves a card: the object *)
(* in the old zone is replaced by a copy in the new one, and an event is    *)
(* sent, which rules answer by moving the card on.  An event sent while     *)
(* another is delivered waits for it (GameObserver::receiveEvent); what an  *)
(* effect does after a move, it does when all of them have been delivered.  *)
(*                                                                         *)
(* A card stands for its newest object, the head of the chain of "next".    *)
(* Older objects matter only to who still points at them: events, and the   *)
(* abilities on the stack, of which "live" says that they point at the      *)
(* newest one.                                                              *)
(***************************************************************************)
EXTENDS Naturals, Sequences, FiniteSets, SequencesExt

CONSTANTS
  Creatures,   \* cards that come into play
  Instants,    \* cards that go to the graveyard when they have resolved
  Tokens,      \* tokens that may be created
  Persisting,  \* the creatures with persist
  Effects,     \* <<what, from, to>>: the abilities of other cards
  MaxStack     \* bound: spells and abilities on the stack

Kinds == {"library", "hand", "stack", "battlefield", "graveyard", "exile", "garbage", "temp"}

\* What the text of an ability can name: "temp" and "garbage" have no name there.
Named == Kinds \ {"temp", "garbage"}

ASSUME ConstantsAssumption ==
  /\ IsFiniteSet(Creatures \cup Instants)
  /\ Creatures \cap Instants = {} /\ Tokens \cap (Creatures \cup Instants) = {}
  /\ Persisting \subseteq Creatures
  /\ Effects \subseteq {"move", "unearth", "blink"} \X Named \X Named
  /\ MaxStack \in Nat

VARIABLES
  cards,        \* MTGGameZone::cards, of every zone
  minus,        \* the cards of which the object has a -1/-1 counter
  unearthed,    \* the cards of which the object has UNEARTH
  eventsQueue,  \* GameObserver::eventsQueue
  calls,        \* what the running effect or handler has yet to do
  stack,        \* the unresolved spells and abilities of the ActionStack
  placeOnTop,   \* MTGLibrary::placeOnTop
  needShuffle,  \* the players of whom the library is shown
  mourned       \* history: the cards that last left play with UNEARTH

vars == <<cards, minus, unearthed, eventsQueue, calls, stack, placeOnTop, needShuffle, mourned>>

Players == {0, 1}
Cards == Creatures \cup Instants \cup Tokens
Zones == Players \X Kinds
Nowhere == <<0, "none">>

\* All cards are of player 0; the other one may take control of them.
owner(c) == 0
Of(c, kind) == <<owner(c), kind>>

\* The zone a card is in, Nowhere for a token that is yet to be created.
currentZone(c) ==
  IF \E z \in Zones : Contains(cards[z], c)
  THEN CHOOSE z \in Zones : Contains(cards[z], c)
  ELSE Nowhere

controller(c) == currentZone(c)[1]
InPlay(z) == z[2] = "battlefield"

\* Something to do, before the events that wait are heard if a handler does it.
Put(c, from, before, to) ==
  [do |-> "put", card |-> c, from |-> from, before |-> before, to |-> to, nested |-> FALSE]
Then(what, c) ==
  [do |-> what, card |-> c, from |-> Nowhere, before |-> Nowhere, to |-> Nowhere, nested |-> FALSE]
Nested(seq) == [i \in DOMAIN seq |-> [seq[i] EXCEPT !.nested = TRUE]]

Handling == calls # <<>> /\ Head(calls).nested
Settled == eventsQueue = <<>> /\ calls = <<>>

-----------------------------------------------------------------------------
(* putInZone.                                                              *)

\* Mutant: the copy is made, and the card it is made of stays.
CopyOnly(c, from) == cards[from]

\* What is left of a zone without a card that is in it.
removeCard(c, from) ==
  RemoveAt(cards[from], CHOOSE i \in DOMAIN cards[from] : cards[from][i] = c)

\* Mutant: the event names the zone the card is taken from.
ToldPlainly(from, before) == from

\* Events tell of a card that comes from "temp" that it comes from where it
\* was before: nobody hears of the time it spends there.
ToldFrom(from, before) == IF from[2] = "temp" THEN before ELSE from

\* A control change is no new object.
SameObject(from, to) == InPlay(from) /\ InPlay(to)

\* Who points at an older object of c, after a move, finds it in no zone.
Outdated(seq, c) ==
  [i \in DOMAIN seq |-> IF seq[i].card = c THEN [seq[i] EXCEPT !.live = FALSE] ELSE seq[i]]

\* From the library to the library: the card is set aside, for the top.
SetAside(from, to) == from = to /\ from[2] = "library"

\* The move of c; `before` is where it was before "temp".  A card that is not
\* in the zone it is to come from is left alone, and nobody is told.
putInZone(c, from, before, to) ==
  LET dest == IF SetAside(from, to) THEN <<from[1], "temp">> ELSE to
      known(seq) == IF SameObject(from, to) THEN seq ELSE Outdated(seq, c)
      event == [card |-> c, live |-> TRUE, from |-> ToldFrom(from, before), to |-> to,
                persists |-> c \in Persisting \ minus, unearthed |-> c \in unearthed]
  IN IF from = Nowhere \/ ~Contains(cards[from], c)
     THEN UNCHANGED <<cards, minus, unearthed, eventsQueue, stack, placeOnTop, mourned>>
     ELSE
       /\ cards' = LET left == [cards EXCEPT ![from] = removeCard(c, from)]
                   IN [left EXCEPT ![dest] = Append(@, c)]
       /\ minus' = IF SameObject(from, to) THEN minus ELSE minus \ {c}
       /\ unearthed' = IF SameObject(from, to) THEN unearthed ELSE unearthed \ {c}
       /\ stack' = known(stack)
       /\ eventsQueue' = known(eventsQueue) \o (IF dest[2] = "temp" THEN <<>> ELSE <<event>>)
       /\ placeOnTop' = IF SetAside(from, to)
                        THEN [placeOnTop EXCEPT ![from[1]] = Append(@, c)] ELSE placeOnTop
       /\ mourned' = IF InPlay(from) /\ ~InPlay(to) /\ c \in unearthed THEN mourned \cup {c}
                     ELSE IF from[2] = "exile" THEN mourned \ {c} ELSE mourned

-----------------------------------------------------------------------------
(* The rules that answer the event of a move, in the order of the rules     *)
(* file: tokens are cleaned up, creatures persist, the unearthed are        *)
(* exiled.  The first that moves the card leaves the others an old object.  *)

\* Mutant: a token in the garbage is put there once more.
CleanupAlways(e) == e.card \in Tokens /\ ~InPlay(e.to)

TokensCleanup(e) == e.card \in Tokens /\ ~InPlay(e.to) /\ e.to[2] # "garbage"

PersistRule(e) == e.persists /\ InPlay(e.from) /\ e.to[2] = "graveyard"

\* Mutant: only creatures that die are exiled.
UnearthDead(e) == e.unearthed /\ InPlay(e.from) /\ e.to[2] = "graveyard"

UnearthRule(e) == e.unearthed /\ InPlay(e.from) /\ e.to[2] \in {"graveyard", "hand", "library"}

\* A card comes into play through "temp", and a Spell that resolves at once.
IntoPlay(c, from, p) ==
  <<Put(c, from, from, Of(c, "temp")), Put(c, Of(c, "temp"), from, <<p, "battlefield">>)>>

\* What the rules do about an event.
Answer(e) ==
  IF ~e.live THEN <<>>
  ELSE IF TokensCleanup(e)
       THEN <<Put(e.card, currentZone(e.card), e.to, <<controller(e.card), "garbage">>)>>
  ELSE IF PersistRule(e) THEN IntoPlay(e.card, e.to, owner(e.card)) \o <<Then("counter", e.card)>>
  ELSE IF UnearthRule(e)
       THEN <<Put(e.card, currentZone(e.card), e.to, Of(e.card, "exile"))>>
  ELSE <<>>

\* receiveEvent, for the first event of the queue.
Deliver ==
  /\ eventsQueue # <<>> /\ ~Handling
  /\ eventsQueue' = Tail(eventsQueue)
  /\ calls' = Nested(Answer(Head(eventsQueue))) \o calls
  /\ UNCHANGED <<cards, minus, unearthed, stack, placeOnTop, needShuffle, mourned>>

-----------------------------------------------------------------------------
(* What an effect does, step by step.                                       *)

\* The next thing to do, when the events of the last one have been heard.
Doing(what) == (eventsQueue = <<>> \/ Handling) /\ calls # <<>> /\ Head(calls).do = what

Move ==
  /\ Doing("put")
  /\ LET m == Head(calls) IN putInZone(m.card, m.from, m.before, m.to)
  /\ calls' = Tail(calls)
  /\ UNCHANGED needShuffle

\* MTGPersistRule: the creature gets its counter when it is back.
AddCounter ==
  /\ Doing("counter")
  /\ minus' = minus \cup {Head(calls).card}
  /\ calls' = Tail(calls)
  /\ UNCHANGED <<cards, unearthed, eventsQueue, stack, placeOnTop, needShuffle, mourned>>

\* transforms((,unearth,haste)): the newest object gets UNEARTH.
Transform ==
  /\ Doing("transform")
  /\ unearthed' = unearthed \cup {Head(calls).card}
  /\ calls' = Tail(calls)
  /\ UNCHANGED <<cards, minus, eventsQueue, stack, placeOnTop, needShuffle, mourned>>

\* ABlink, when the card has been exiled: a token is done with; another card
\* is put into play, and once more by the Spell that resolves.
Return ==
  LET c == Head(calls).card
      play == Of(c, "battlefield")
  IN /\ Doing("return")
     /\ calls' = IF c \in Tokens THEN Tail(calls)
                 ELSE <<Put(c, currentZone(c), Nowhere, play), Put(c, play, Nowhere, play)>>
                        \o Tail(calls)
     /\ UNCHANGED <<cards, minus, unearthed, eventsQueue, stack, placeOnTop, needShuffle, mourned>>

\* shuffleLibrary, at its end.
Clear ==
  /\ Doing("clear")
  /\ placeOnTop' = [placeOnTop EXCEPT ![Head(calls).to[1]] = <<>>]
  /\ calls' = Tail(calls)
  /\ UNCHANGED <<cards, minus, unearthed, eventsQueue, stack, needShuffle, mourned>>

-----------------------------------------------------------------------------
(* The moves of the game.                                                   *)

\* An effect begins that leaves the stack alone.
Begin(steps) ==
  /\ calls' = steps
  /\ UNCHANGED <<cards, minus, unearthed, eventsQueue, stack, placeOnTop, needShuffle, mourned>>

\* The top of a library, to the hand (drawFromLibrary) or the graveyard
\* (AADepleter).  Who has no card to draw loses, and the game is over.
Take(p, kind) ==
  /\ Settled /\ cards[<<p, "library">>] # <<>>
  /\ Begin(<<Put(Last(cards[<<p, "library">>]), <<p, "library">>, Nowhere, <<p, kind>>)>>)

\* Something is put on the stack.
Stacks(what, c, to) ==
  /\ Len(stack) < MaxStack
  /\ stack' = Append(stack, [what |-> what, card |-> c, live |-> TRUE, to |-> to])

\* MTGPutInPlayRule::reactToClick: the card goes to the stack, and the spell
\* takes the copy.  The event is delivered before the spell is made.
Cast(c) ==
  /\ Settled /\ Len(stack) < MaxStack
  /\ currentZone(c)[2] = "hand"
  /\ Begin(<<Put(c, currentZone(c), Nowhere, <<controller(c), "stack">>), Then("spell", c)>>)

AddSpell ==
  /\ Doing("spell")
  /\ Stacks("spell", Head(calls).card, Nowhere)
  /\ calls' = Tail(calls)
  /\ UNCHANGED <<cards, minus, unearthed, eventsQueue, placeOnTop, needShuffle, mourned>>

\* An ability takes a card as its target, and waits on the stack.  To choose a
\* card of a library, the library is shown (GameObserver::ButtonPressed).
Target(c, effect) ==
  LET z == currentZone(c) IN
  /\ Settled
  /\ z[2] = effect[2]
  /\ effect[1] = "unearth" => c \in Creatures
  /\ Stacks(effect[1], c, Of(c, effect[3]))
  /\ needShuffle' = needShuffle \cup (IF z[2] = "library" THEN {z[1]} ELSE {})
  /\ UNCHANGED <<cards, minus, unearthed, eventsQueue, calls, placeOnTop, mourned>>

\* Where the card that something on the stack points at is: an old object is in
\* no zone.
Where(s) == IF s.live THEN currentZone(s.card) ELSE Nowhere

\* AAMover::resolve: from elsewhere into play through "temp", else directly.
Mover(c, from, to) ==
  IF from = Nowhere THEN <<>>
  ELSE IF InPlay(to) /\ ~InPlay(from) THEN IntoPlay(c, from, to[1])
  ELSE <<Put(c, from, Nowhere, to)>>

\* What the newest thing on the stack does when it resolves: putInZone leaves
\* a card alone that is in no zone.  A blink acts at its first Update, when the
\* action layer comes to it in the same frame: nothing has resolved, and nothing
\* that is modelled here has moved a card, in between.
Resolution(s) ==
  LET z == Where(s) IN
  IF s.what = "spell"
  THEN <<Put(s.card, z, Nowhere, IF s.card \in Instants THEN Of(s.card, "graveyard")
                                 ELSE <<z[1], "battlefield">>)>>
  ELSE IF s.what = "move" THEN Mover(s.card, z, s.to)
  ELSE IF s.what = "unearth" THEN Mover(s.card, z, s.to) \o <<Then("transform", s.card)>>
  ELSE IF InPlay(z)
       THEN <<Put(s.card, z, Nowhere, Of(s.card, "exile")), Then("return", s.card)>>
  ELSE <<>>

Resolve ==
  /\ Settled /\ stack # <<>>
  /\ stack' = Front(stack)
  /\ calls' = Resolution(Last(stack))
  /\ UNCHANGED <<cards, minus, unearthed, eventsQueue, placeOnTop, needShuffle, mourned>>

\* Mutant: the spell is marked, and its card forgotten.
FizzleOnly(i) ==
  /\ Settled
  /\ stack[i].what = "spell"
  /\ stack' = RemoveAt(stack, i)
  /\ UNCHANGED <<cards, minus, unearthed, eventsQueue, calls, placeOnTop, needShuffle, mourned>>

\* ActionStack::Fizzle, of any spell: AAFizzler counters it.
Fizzle(i) ==
  /\ Settled
  /\ stack[i].what = "spell"
  /\ stack' = RemoveAt(stack, i)
  /\ calls' = <<Put(stack[i].card, Where(stack[i]), Nowhere, Of(stack[i].card, "graveyard"))>>
  /\ UNCHANGED <<cards, minus, unearthed, eventsQueue, placeOnTop, needShuffle, mourned>>

\* MTGCardInstance::bury.
Bury(c) ==
  /\ Settled /\ InPlay(currentZone(c))
  /\ Begin(<<Put(c, currentZone(c), Nowhere, Of(c, "graveyard"))>>)

\* MTGCardInstance::changeController.
ChangeController(c, p) ==
  /\ Settled /\ InPlay(currentZone(c)) /\ controller(c) # p
  /\ Begin(<<Put(c, currentZone(c), Nowhere, <<p, "battlefield">>)>>)

\* ATokenCreator: the token is made in "temp", and comes into play from nowhere.
Create(t) ==
  /\ Settled /\ currentZone(t) = Nowhere
  /\ cards' = [cards EXCEPT ![Of(t, "temp")] = Append(@, t)]
  /\ calls' = <<Put(t, Of(t, "temp"), Nowhere, Of(t, "battlefield"))>>
  /\ UNCHANGED <<minus, unearthed, eventsQueue, stack, placeOnTop, needShuffle, mourned>>

\* Mutant: the cards are put back from the last to the first.
ShuffledBack(p) ==
  [i \in DOMAIN placeOnTop[p] |->
     Put(Reverse(placeOnTop[p])[i], <<p, "temp">>, <<p, "library">>, <<p, "library">>)]

\* shuffleLibrary: what is set aside is put back on a library in any order.
Shuffled(p) ==
  [i \in DOMAIN placeOnTop[p] |->
     Put(placeOnTop[p][i], <<p, "temp">>, <<p, "library">>, <<p, "library">>)]

\* random_shuffle: every order of the cards.
Shuffles(places) == Bijection(places, places)

\* The player closes the library (forceShuffleLibraries).
CloseLibrary(p) ==
  /\ Settled /\ p \in needShuffle
  /\ \E order \in Shuffles(DOMAIN cards[<<p, "library">>]) :
       cards' = [cards EXCEPT ![<<p, "library">>] = [i \in DOMAIN @ |-> @[order[i]]]]
  /\ calls' = Shuffled(p) \o <<[Then("clear", Nowhere) EXCEPT !.to = <<p, "library">>]>>
  /\ needShuffle' = needShuffle \ {p}
  /\ UNCHANGED <<minus, unearthed, eventsQueue, stack, placeOnTop, mourned>>

-----------------------------------------------------------------------------

Init ==
  /\ \E order \in Bijection(1..Cardinality(Creatures \cup Instants), Creatures \cup Instants) :
       cards = [z \in Zones |-> IF z = <<0, "library">> THEN order ELSE <<>>]
  /\ minus = {} /\ unearthed = {} /\ mourned = {}
  /\ eventsQueue = <<>> /\ calls = <<>> /\ stack = <<>>
  /\ placeOnTop = [p \in Players |-> <<>>]
  /\ needShuffle = {}

\* What goes on by itself once it has begun.
Settle == Deliver \/ Move \/ AddCounter \/ Transform \/ Return \/ Clear \/ AddSpell

Next ==
  \/ Settle
  \/ \E p \in Players, kind \in {"hand", "graveyard"} : Take(p, kind)
  \/ \E c \in Creatures \cup Instants : Cast(c)
  \/ \E c \in Cards, effect \in Effects : Target(c, effect)
  \/ Resolve
  \/ \E i \in DOMAIN stack : Fizzle(i)
  \/ \E c \in Cards : Bury(c)
  \/ \E c \in Cards, p \in Players : ChangeController(c, p)
  \/ \E t \in Tokens : Create(t)
  \/ \E p \in Players : CloseLibrary(p)

Spec == Init /\ [][Next]_vars

\* An effect and the events it sends are worked off in one call.
FairSpec == Spec /\ WF_vars(Settle)

-----------------------------------------------------------------------------
(* Properties.                                                              *)

TypeOK ==
  /\ cards \in [Zones -> Seq(Cards)]
  /\ minus \subseteq Cards /\ unearthed \subseteq Cards /\ mourned \subseteq Cards
  /\ eventsQueue \in Seq([card : Cards, live : BOOLEAN, from : Zones \cup {Nowhere}, to : Zones,
                          persists : BOOLEAN, unearthed : BOOLEAN])
  /\ \A i \in DOMAIN eventsQueue : eventsQueue[i].from = Nowhere => eventsQueue[i].card \in Tokens
  /\ \A i \in DOMAIN calls : calls[i].do \in {"put", "counter", "transform", "return", "clear", "spell"}
  /\ \A i \in DOMAIN stack :
       stack[i].what \in {"spell", "move", "unearth", "blink"} /\ stack[i].card \in Cards
  /\ placeOnTop \in [Players -> Seq(Cards)]
  /\ needShuffle \subseteq Players

\* However many effects and rules move a card that they still point to, it is
\* in one zone, once: no copy of it stays behind, and no card is lost.
OneZonePerCard ==
  /\ \A z \in Zones : IsInjective(cards[z])
  /\ \A z1, z2 \in Zones : z1 # z2 => ToSet(cards[z1]) \cap ToSet(cards[z2]) = {}
  /\ \A c \in Creatures \cup Instants : currentZone(c) # Nowhere

\* Between effects, nothing is left in "temp" but what is set aside for the
\* top of the library, in that order.
NothingStaysInTemp == Settled => \A p \in Players : cards[<<p, "temp">>] = placeOnTop[p]

\* Whatever an effect does with a token, between effects it is in play or gone.
TokensCease ==
  Settled => \A t \in Tokens : currentZone(t)[2] \in {"battlefield", "garbage", "none"}

\* "if the card leaves play, exile it instead": an unearthed creature that left
\* play, to wherever, is in exile.  One that persists has returned instead.
UnearthedIsExiled ==
  Settled => \A c \in mourned \ (Persisting \cup Tokens) : currentZone(c)[2] = "exile"

\* What a rule takes out of the game comes back by no other effect.
GoneForGood == TokensCease /\ UnearthedIsExiled

\* A card is in the zone "stack" as long as a spell of it is on the stack: no
\* spell resolves without its card, and no card is stranded there.
SpellsHaveTheirCards ==
  Settled =>
    {stack[i].card : i \in {n \in DOMAIN stack : stack[n].what = "spell"}} =
      UNION {ToSet(cards[<<p, "stack">>]) : p \in Players}

\* Between effects the zones in between hold what is under way, and no more.
InBetweenIsKept == TypeOK /\ NothingStaysInTemp /\ SpellsHaveTheirCards

\* The events of a card that wait tell one way, from zone to zone, that ends
\* where it is; "temp" is not on it.  Triggers rely on what it tells.
EventsTellTheWay ==
  \A i \in DOMAIN eventsQueue :
    LET e == eventsQueue[i]
        later == {j \in DOMAIN eventsQueue : j > i /\ eventsQueue[j].card = e.card}
    IN /\ "temp" \notin {e.from[2], e.to[2]}
       /\ e.to = IF later = {} THEN currentZone(e.card) ELSE eventsQueue[Min(later)].from

\* "we intend to put it on top": after the shuffle, the cards set aside are on
\* top of the library, the last one first.
PlacedOnTop ==
  [][\A p \in Players :
       (placeOnTop[p] # <<>> /\ placeOnTop'[p] = <<>>) => IsSuffix(placeOnTop[p], cards'[<<p, "library">>])]_vars

\* Every event is delivered, and what it sets off comes to an end.
EventsDrain == []<>Settled

=============================================================================
