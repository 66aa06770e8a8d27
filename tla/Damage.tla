------------------------------- MODULE Damage -------------------------------
(***************************************************************************)
(* What hurts a creature, and when it dies of it.  Damage is taken from     *)
(* "life", which starts as the toughness; counters and pumps move both      *)
(* alike.  A creature is tested for death (afterDamage) if doDamageTest     *)
(* says that something has changed, and by different callers at different   *)
(* moments: when a counter of a new kind is put on it, when a spell has     *)
(* dealt its damage, when a DamageStack has been told, and once a frame.    *)
(*                                                                         *)
(* A DamageStack (the damage of a combat step) is resolved while the event  *)
(* of that step is being handled: what it sends is heard when all of it has *)
(* been dealt.  An effect that resolves from the stack is heard at once.    *)
(*                                                                         *)
(* A creature stands for its newest object; a call or an event that names   *)
(* an older one is not "live".  Damage dealt to players is left out.        *)
(***************************************************************************)
EXTENDS Integers, Sequences, FiniteSets, SequencesExt

CONSTANTS
  Creatures,
  Toughness,       \* as printed on each creature
  Indestructible, Persisting, Undying,
  Wilting, Hydra,  \* damage puts -1/-1 counters, takes +1/+1 counters instead
  MaxCounters,     \* bound: counters of a kind on a creature that is given one
  MaxDamage,       \* bound: the damage marked on a creature that is dealt some
  MaxShields,      \* bound: regeneration shields, points of prevention
  Bystanders,      \* bound: creatures that nothing but combat damage is done to
  MaxInPlay        \* bound: other creatures the game starts with

ASSUME ConstantsAssumption ==
  /\ Toughness \in [Creatures -> Nat \ {0}]
  /\ MaxCounters \in Nat /\ MaxDamage \in Nat /\ MaxShields \in Nat
  /\ Bystanders \subseteq Creatures

Kinds == {"plus", "minus"}  \* +1/+1 and -1/-1 counters

Keywords == {"none", "wither", "deathtouch"}  \* of the source of damage

VARIABLES
  inPlay,       \* the creatures on the battlefield; the others are in the graveyard
  body,         \* what the program keeps of each creature
  eventsQueue,  \* GameObserver::eventsQueue
  calls,        \* what the running effect or handler has yet to do
  cleaned,      \* whether the damage of this turn has been reset
  returned      \* history: creatures that came back during the last effect

vars == <<inPlay, body, eventsQueue, calls, cleaned, returned>>

\* A new object.  marked and touched are history: the damage dealt to it that
\* it has not been relieved of, and whether deathtouch was among it.
Printed(c) ==
  [toughness |-> Toughness[c], life |-> Toughness[c], doDamageTest |-> TRUE, skip |-> FALSE,
   plus |-> 0, minus |-> 0, kinds |-> {}, pumped |-> 0, weakened |-> 0,
   regenerateTokens |-> 0, preventable |-> 0, struck |-> FALSE,
   marked |-> 0, touched |-> FALSE]

\* Mutant: the toughness alone is changed.
addToToughnessOnly(b, n) == [b EXCEPT !.toughness = @ + n, !.doDamageTest = TRUE]

addToToughness(b, n) ==
  [b EXCEPT !.toughness = @ + n, !.life = @ + n, !.doDamageTest = TRUE]

-----------------------------------------------------------------------------
(* Calls and events: the head of calls goes on when it may.                 *)

Runs(op) ==
  /\ calls # <<>> /\ Head(calls).op = op
  /\ Head(calls).nested \/ eventsQueue = <<>>

Delivers(type) ==
  /\ eventsQueue # <<>> /\ Head(eventsQueue).type = type
  /\ calls # <<>> => ~Head(calls).nested

Idle == calls = <<>> /\ eventsQueue = <<>>

\* A walk that tests the creatures of S.
TestAll(S, nested) ==
  [op |-> "afterDamages", card |-> "none", live |-> TRUE, nested |-> nested, left |-> S]

\* Mutant: whoever points at a card finds the newest object.
AllFollow(seq, c) == seq

\* Who points at an older object of c, when c has moved, finds it nowhere.
Outdated(seq, c) ==
  [i \in DOMAIN seq |-> IF seq[i].card = c THEN [seq[i] EXCEPT !.live = FALSE] ELSE seq[i]]

-----------------------------------------------------------------------------
(* Death.  b is the creature's body by then, rest and queue what is left.   *)

\* The counter with which MTGPersistRule brings the creature back, or "no"; a
\* creature with both abilities is brought back by either, with persist's.
ReturnsWith(c, b) ==
  IF (c \in Persisting /\ b.minus = 0) \/ (c \in Undying /\ b.plus = 0)
  THEN IF c \in Persisting THEN "minus" ELSE "plus"
  ELSE "no"

stays(c, b, rest, queue) ==
  /\ inPlay' = inPlay \cup {c}
  /\ body' = [body EXCEPT ![c] = b]
  /\ eventsQueue' = queue /\ calls' = rest

leaves(c, b, rest, queue) ==
  /\ inPlay' = inPlay \ {c}
  /\ body' = [body EXCEPT ![c] = Printed(c)]
  /\ eventsQueue' = Append(Outdated(queue, c),
       [type |-> "ZoneChange", card |-> c, live |-> TRUE, with |-> ReturnsWith(c, b)])
  /\ calls' = Outdated(rest, c)

\* A shield is used, and all damage removed.
triggerRegenerate(b) ==
  IF b.regenerateTokens = 0 THEN b
  ELSE [b EXCEPT !.regenerateTokens = @ - 1, !.life = b.toughness,
                 !.marked = 0, !.touched = FALSE]

\* "regeneration didn't work (wither ?)" for a creature without toughness.
Saved(b) == b.regenerateTokens > 0 /\ b.toughness >= 1

DestroyedBy(c, b) == ~Saved(b) /\ c \notin Indestructible

destroy(c, b, rest, queue) ==
  IF DestroyedBy(c, b) THEN leaves(c, b, rest, queue)
  ELSE stays(c, triggerRegenerate(b), rest, queue)

Lethal(b) == ~b.skip /\ b.doDamageTest /\ b.life <= 0

\* Mutant: to skip a test is to have passed it.
TestedForGood(b) ==
  IF b.skip THEN [b EXCEPT !.skip = FALSE, !.doDamageTest = FALSE]
  ELSE [(IF Lethal(b) THEN triggerRegenerate(b) ELSE b) EXCEPT !.doDamageTest = FALSE]

\* What survived a test.  skipDamageTestOnce only puts it off.
Tested(b) ==
  IF b.skip THEN [b EXCEPT !.skip = FALSE]
  ELSE [(IF Lethal(b) THEN triggerRegenerate(b) ELSE b) EXCEPT !.doDamageTest = FALSE]

afterDamage(c, b, rest, queue) ==
  IF Lethal(b) /\ DestroyedBy(c, b) THEN leaves(c, b, rest, queue)
  ELSE stays(c, Tested(b), rest, queue)

-----------------------------------------------------------------------------
(* Counters. *)

Sign(kind) == IF kind = "plus" THEN 1 ELSE -1

added(b, kind) ==
  [addToToughness(b, Sign(kind)) EXCEPT ![kind] = @ + 1, !.kinds = @ \cup {kind}]

\* Counters::addCounter tests the creature if the counter is of a new kind.
addCounter(c, b, kind, rest, queue) ==
  IF kind \in b.kinds THEN stays(c, added(b, kind), rest, queue)
  ELSE afterDamage(c, added(b, kind), rest, queue)

removeCounter(b, kind) ==
  IF b[kind] = 0 THEN b ELSE [addToToughness(b, -Sign(kind)) EXCEPT ![kind] = @ - 1]

\* cancelCounter: counters of both kinds are removed in pairs.
cancelCounters(b) ==
  LET n == IF b.plus < b.minus THEN b.plus ELSE b.minus
  IN IF n = 0 THEN b ELSE [b EXCEPT !.plus = @ - n, !.minus = @ - n, !.doDamageTest = TRUE]

Pass == calls' = Tail(calls) /\ UNCHANGED <<inPlay, body, eventsQueue>>

\* A counter that damage puts on its target; it may go to an older object.
AddCounter ==
  /\ Runs("addCounter")
  /\ LET call == Head(calls)
     IN IF call.live THEN addCounter(call.card, body[call.card], call.kind, Tail(calls), eventsQueue)
        ELSE Pass
  /\ UNCHANGED <<cleaned, returned>>

\* AACounter::resolve puts each of nb counters on the newest object by then.
GiveCounter ==
  /\ Runs("AACounter") /\ Head(calls).nb > 0
  /\ LET call == Head(calls)
         c == call.card
         rest == <<[call EXCEPT !.nb = @ - 1, !.live = TRUE]>> \o Tail(calls)
     IN CASE c \notin inPlay -> calls' = rest /\ UNCHANGED <<inPlay, body, eventsQueue>>
          [] c \in inPlay /\ call.add ->
               addCounter(c, body[c], call.kind, rest, eventsQueue)
          [] c \in inPlay /\ ~call.add ->
               stays(c, removeCounter(body[c], call.kind), rest, eventsQueue)
  /\ UNCHANGED <<cleaned, returned>>

\* "it dies before the two counters have the chance to cancel out"; and an
\* indestructible creature leaves when the counters took all its toughness.
CountersGiven ==
  /\ Runs("AACounter") /\ Head(calls).nb = 0
  /\ LET call == Head(calls)
         c == call.card
         b == [body[c] EXCEPT !.doDamageTest = TRUE]
         left == cancelCounters(Tested(b))
         shrunk == c \in Indestructible /\ call.kind = "minus" /\ left.toughness <= 0
     IN CASE ~call.live \/ c \notin inPlay -> Pass
          [] OTHER ->
               IF Lethal(b) /\ DestroyedBy(c, b) THEN leaves(c, b, Tail(calls), eventsQueue)
               ELSE IF shrunk THEN leaves(c, left, Tail(calls), eventsQueue)
               ELSE stays(c, left, Tail(calls), eventsQueue)
  /\ UNCHANGED <<cleaned, returned>>

-----------------------------------------------------------------------------
(* Damage::resolve. *)

Damage(c, keyword, amount, nested) ==
  [op |-> "Damage", card |-> c, live |-> TRUE, nested |-> nested,
   keyword |-> keyword, amount |-> amount]

\* "the following keeps preventable from ADDING toughness".
LessPrevented(amount, preventable) ==
  IF amount > preventable THEN amount - preventable ELSE 0

Counters(c, op, kind, n, nested) ==
  [i \in 1..n |-> [op |-> op, card |-> c, live |-> TRUE, nested |-> nested, kind |-> kind]]

DamageEvent(call) ==
  [type |-> "Damage", card |-> call.card, live |-> call.live, keyword |-> call.keyword]

Hurt(b, amount, call) ==
  [b EXCEPT !.life = @ - amount, !.doDamageTest = TRUE, !.struck = @ \/ call.nested,
            !.marked = @ + amount, !.touched = @ \/ call.keyword = "deathtouch"]

\* Keywords that replace damage leave none to be dealt.
Instead(c, keyword) ==
  CASE c \in Wilting                                          -> "addCounter"
    [] c \in Hydra                                            -> "removeCounter"
    [] c \notin Wilting \cup Hydra /\ keyword = "wither"      -> "addCounter"
    [] c \notin Wilting \cup Hydra /\ keyword # "wither"      -> "none"

ResolveDamage ==
  /\ Runs("Damage")
  /\ LET call == Head(calls)
         c == call.card
         amount == LessPrevented(call.amount, body[c].preventable)
         b == [body[c] EXCEPT !.preventable = LessPrevented(@, call.amount)]
         instead == Instead(c, call.keyword)
         kind == IF c \in Hydra THEN "plus" ELSE "minus"
         counters == Counters(c, instead, kind, amount, call.nested)
     IN IF ~call.live THEN
             /\ calls' = Tail(calls) /\ eventsQueue' = Append(eventsQueue, DamageEvent(call))
             /\ UNCHANGED <<inPlay, body>>
        ELSE IF amount = 0 THEN stays(c, b, Tail(calls), eventsQueue)
        ELSE IF instead = "none" THEN
             stays(c, Hurt(b, amount, call), Tail(calls), Append(eventsQueue, DamageEvent(call)))
        ELSE IF c \in Wilting \cup Hydra THEN stays(c, b, counters \o Tail(calls), eventsQueue)
        ELSE stays(c, [b EXCEPT !.doDamageTest = TRUE, !.struck = @ \/ call.nested],
                   counters \o <<[call EXCEPT !.op = "Withered"]>> \o Tail(calls), eventsQueue)
  /\ UNCHANGED <<cleaned, returned>>

RemoveCounter ==
  /\ Runs("removeCounter")
  /\ LET call == Head(calls)
     IN IF call.live
        THEN stays(call.card, removeCounter(body[call.card], call.kind), Tail(calls), eventsQueue)
        ELSE Pass
  /\ UNCHANGED <<cleaned, returned>>

Shrunk(c, b) == c \in Indestructible /\ b.toughness <= 0

\* The end of wither: what is indestructible but has no toughness leaves, and
\* the damage is told.
Withered ==
  /\ Runs("Withered")
  /\ LET call == Head(calls)
     IN IF call.live /\ Shrunk(call.card, body[call.card])
        THEN leaves(call.card, body[call.card], calls, eventsQueue)
        ELSE /\ calls' = Tail(calls) /\ eventsQueue' = Append(eventsQueue, DamageEvent(call))
             /\ UNCHANGED <<inPlay, body>>
  /\ UNCHANGED <<cleaned, returned>>

\* ActionStack::resolve tests the target of damage that was on the stack.
TestTarget ==
  /\ Runs("afterDamage")
  /\ LET c == Head(calls).card
     IN IF Head(calls).live THEN afterDamage(c, body[c], Tail(calls), eventsQueue) ELSE Pass
  /\ UNCHANGED <<cleaned, returned>>

\* A walk over creatures: those in play, once each; or those damage stacks have
\* dealt to, for every time they have, so that a test that was put off may come
\* with the next.  How often a creature was dealt damage is not kept.
TestEach ==
  /\ Runs("afterDamages")
  /\ LET call == Head(calls)
     IN IF call.left = {} THEN Pass
        ELSE \E c \in call.left, again \in BOOLEAN :
               /\ again => call.nested /\ body[c].skip
               /\ afterDamage(c, body[c],
                    <<IF again THEN call ELSE [call EXCEPT !.left = @ \ {c}]>> \o Tail(calls),
                    eventsQueue)
  /\ UNCHANGED <<cleaned, returned>>

\* The end of DamageStack::resolve.
StackResolved ==
  /\ Runs("DamageStackResolved")
  /\ eventsQueue' = Append(eventsQueue, [type |-> "DamageStackResolved", card |-> "none", live |-> TRUE])
  /\ calls' = Tail(calls)
  /\ UNCHANGED <<inPlay, body, cleaned, returned>>

-----------------------------------------------------------------------------
(* What hears the events. *)

\* Mutant: deathtouch has the creature tested, like any other damage.
HearDamageTesting ==
  /\ Delivers("Damage")
  /\ LET event == Head(eventsQueue)
         c == event.card
     IN IF event.live /\ event.keyword = "deathtouch"
        THEN afterDamage(c, body[c], calls, Tail(eventsQueue))
        ELSE eventsQueue' = Tail(eventsQueue) /\ UNCHANGED <<inPlay, body, calls>>
  /\ UNCHANGED <<cleaned, returned>>

\* MTGDeathtouchRule.
HearDamage ==
  /\ Delivers("Damage")
  /\ LET event == Head(eventsQueue)
         c == event.card
     IN IF event.live /\ event.keyword = "deathtouch"
        THEN destroy(c, body[c], calls, Tail(eventsQueue))
        ELSE eventsQueue' = Tail(eventsQueue) /\ UNCHANGED <<inPlay, body, calls>>
  /\ UNCHANGED <<cleaned, returned>>

\* DamageStack::receiveEvent, of every damage stack of the turn.
HearStackResolved ==
  /\ Delivers("DamageStackResolved")
  /\ eventsQueue' = Tail(eventsQueue)
  /\ calls' = <<TestAll({c \in inPlay : body[c].struck}, TRUE)>> \o calls
  /\ UNCHANGED <<inPlay, body, cleaned, returned>>

\* MTGPersistRule: the creature comes back as a new object, with a counter.
HearZoneChange ==
  /\ Delivers("ZoneChange")
  /\ LET event == Head(eventsQueue)
         c == event.card
     IN IF event.live /\ event.with # "no"
        THEN /\ addCounter(c, Printed(c), event.with, calls, Tail(eventsQueue))
             /\ returned' = returned \cup {c}
        ELSE eventsQueue' = Tail(eventsQueue) /\ UNCHANGED <<inPlay, body, calls, returned>>
  /\ UNCHANGED cleaned

-----------------------------------------------------------------------------
(* Effects, and the steps of the turn. *)

Begins == Idle /\ returned' = {} /\ UNCHANGED cleaned

\* bounds
CanBeHurt(c) == c \in inPlay /\ body[c].marked < MaxDamage /\ body[c].minus < MaxCounters
CanBeGiven(c, kind) == c \in inPlay /\ body[c][kind] < MaxCounters

\* GuiCombat::resolve: one or two creatures are dealt damage by others.
CombatDamage(hits) ==
  /\ Begins
  /\ \A i \in DOMAIN hits : CanBeHurt(hits[i][1])
  /\ calls' = [i \in DOMAIN hits |-> Damage(hits[i][1], hits[i][2], hits[i][3], TRUE)]
              \o <<[op |-> "DamageStackResolved", card |-> "none", live |-> TRUE, nested |-> TRUE]>>
  /\ UNCHANGED <<inPlay, body, eventsQueue>>

\* AADamager::resolve.
DamageSpell(c, keyword, amount) ==
  /\ Begins
  /\ CanBeHurt(c)
  /\ calls' = <<Damage(c, keyword, amount, FALSE),
                [op |-> "afterDamage", card |-> c, live |-> TRUE, nested |-> FALSE]>>
  /\ UNCHANGED <<inPlay, body, eventsQueue>>

CounterSpell(c, kind, add, nb) ==
  /\ Begins
  /\ CanBeGiven(c, kind)
  /\ calls' = <<[op |-> "AACounter", card |-> c, live |-> TRUE, nested |-> FALSE,
                 kind |-> kind, add |-> add, nb |-> nb]>>
  /\ UNCHANGED <<inPlay, body, eventsQueue>>

\* APowerToughnessModifier until the end of the turn.
Pump(c) ==
  /\ Begins
  /\ c \in inPlay /\ body[c].pumped = 0
  /\ stays(c, [addToToughness(body[c], 2) EXCEPT !.pumped = 1], <<>>, <<>>)

Weaken(c) ==
  /\ Begins
  /\ c \in inPlay /\ body[c].weakened = 0
  /\ LET b == [addToToughness(body[c], -1) EXCEPT !.weakened = 1]
     IN IF Shrunk(c, b) THEN leaves(c, b, <<>>, <<>>) ELSE stays(c, b, <<>>, <<>>)

Regenerate(c) ==
  /\ Begins
  /\ c \in inPlay /\ body[c].regenerateTokens < MaxShields
  /\ stays(c, [body[c] EXCEPT !.regenerateTokens = @ + 1], <<>>, <<>>)

Prevent(c) ==
  /\ Begins
  /\ c \in inPlay /\ body[c].preventable < MaxShields
  /\ stays(c, [body[c] EXCEPT !.preventable = @ + 1], <<>>, <<>>)

\* A choice made for a card (AASetColorChosen and the like) skips one test.
Choose(c) ==
  /\ Begins
  /\ c \in inPlay /\ ~body[c].skip
  /\ stays(c, [body[c] EXCEPT !.skip = TRUE], <<>>, <<>>)

\* AADestroyCard, AABuryCard.
DestroyCard(c) == Begins /\ c \in inPlay /\ destroy(c, body[c], <<>>, <<>>)

BuryCard(c) ==
  /\ Begins /\ c \in inPlay \ Indestructible
  /\ leaves(c, body[c], <<>>, <<>>)

\* gameStateBasedEffects, at the end of a frame.
StateBased ==
  /\ Begins
  /\ \E c \in inPlay : body[c].doDamageTest \/ body[c].skip
  /\ calls' = <<TestAll(inPlay, FALSE)>>
  /\ UNCHANGED <<inPlay, body, eventsQueue>>

\* The frame that asks for a phase ends with a test: nothing is waiting for one.
PhaseCanEnd == Idle /\ \A c \in inPlay : ~body[c].doDamageTest

\* AAResetDamage, in the cleanup step.
ResetDamage ==
  /\ PhaseCanEnd /\ ~cleaned
  /\ cleaned' = TRUE /\ returned' = {}
  /\ body' = [c \in Creatures |->
                [body[c] EXCEPT !.life = body[c].toughness, !.marked = 0, !.touched = FALSE]]
  /\ UNCHANGED <<inPlay, eventsQueue, calls>>

Ended(b) ==
  [addToToughness(b, b.weakened - 2 * b.pumped) EXCEPT !.pumped = 0, !.weakened = 0,
     !.regenerateTokens = 0, !.preventable = 0, !.struck = FALSE,
     !.doDamageTest = b.doDamageTest \/ b.pumped # 0 \/ b.weakened # 0]

\* From AFTER_EOT to the next turn without a frame between: the pumps end, and
\* MTGCardInstance::cleanup takes what is left of the shields.
EndTurn ==
  /\ PhaseCanEnd /\ cleaned
  /\ cleaned' = FALSE /\ returned' = {}
  /\ body' = [c \in Creatures |-> IF c \in inPlay THEN Ended(body[c]) ELSE body[c]]
  /\ UNCHANGED <<inPlay, eventsQueue, calls>>

-----------------------------------------------------------------------------
Init ==
  /\ inPlay \in SUBSET Creatures /\ Cardinality(inPlay \ Bystanders) <= MaxInPlay
  /\ body = [c \in Creatures |-> Printed(c)]
  /\ eventsQueue = <<>> /\ calls = <<>>
  /\ cleaned = FALSE /\ returned = {}

\* Who may be dealt how much combat damage, by what.
Hits == (Creatures \ Bystanders) \X Keywords \X (1..2) \cup Bystanders \X {"none"} \X {1}

Effect ==
  /\ Idle
  /\ \/ \E h \in Hits : CombatDamage(<<h>>) \/ \E g \in Hits : CombatDamage(<<h, g>>)
     \/ \E c \in Creatures \ Bystanders :
          \/ \E keyword \in Keywords, amount \in 1..2 : DamageSpell(c, keyword, amount)
          \/ \E kind \in Kinds, add \in BOOLEAN, nb \in 1..2 : CounterSpell(c, kind, add, nb)
          \/ Pump(c) \/ Weaken(c) \/ Regenerate(c) \/ Prevent(c) \/ Choose(c)
          \/ DestroyCard(c) \/ BuryCard(c)

Work ==
  \/ ResolveDamage \/ AddCounter \/ RemoveCounter \/ Withered \/ GiveCounter \/ CountersGiven
  \/ TestTarget \/ TestEach \/ StackResolved
  \/ HearDamage \/ HearStackResolved \/ HearZoneChange

Next == Effect \/ Work \/ StateBased \/ ResetDamage \/ EndTurn

Spec == Init /\ [][Next]_vars

-----------------------------------------------------------------------------
(* Properties. *)

\* What is counted does not go below zero: counters that are taken away or
\* cancelled in pairs (Counters::removeCounter, cancelCounter), shields that
\* are used, and damage that is prevented (Damage::resolve).
TypeOK ==
  /\ inPlay \subseteq Creatures /\ returned \subseteq Creatures
  /\ \A c \in Creatures :
       /\ body[c].toughness \in Int /\ body[c].life \in Int
       /\ {body[c].plus, body[c].minus, body[c].marked} \subseteq Nat
       /\ {body[c].regenerateTokens, body[c].preventable} \subseteq 0..MaxShields
  /\ cleaned \in BOOLEAN

\* In whatever order counters, pumps, regeneration (triggerRegenerate) and the
\* cleanup (AAResetDamage) come, a creature in play has the toughness that is
\* printed, put and pumped, and its life is that, less the damage it has not
\* been relieved of: two numbers that the code changes one by one.
DamageIsMarked ==
  \A c \in inPlay :
    LET b == body[c]
    IN /\ b.toughness = Toughness[c] + b.plus - b.minus + 2 * b.pumped - b.weakened
       /\ b.life = b.toughness - b.marked

\* A creature in play without life is going to be tested (doDamageTest), or
\* indestructible: of the many moments MTGCardInstance::afterDamage is called
\* at, with a test skipped or a shield used, none lets a dead creature live on.
NoneDeadIsForgotten ==
  \A c \in inPlay \ Indestructible : body[c].life <= 0 => body[c].doDamageTest

\* When all events have been heard, who has been dealt damage by deathtouch has
\* left play or been regenerated (MTGDeathtouchRule), although the damage of
\* others, a death and a return may have come between the damage and its event.
DeathtouchKills ==
  Idle => \A c \in inPlay \ Indestructible : ~body[c].touched

\* What persist or undying brought back in an effect is in play when it ends:
\* the damage, the tests and the events that were under way for the object that
\* died do not reach the new one.  Only what dies of its own -1/-1 counter goes.
ReturnsStay ==
  Idle => \A c \in returned : c \in inPlay \/ (Toughness[c] = 1 /\ c \in Persisting)
=============================================================================
