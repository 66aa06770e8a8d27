------------------------------ MODULE ManaPool ------------------------------
(***************************************************************************)
(* A player's mana: what the pool holds, what can be paid from it and how  *)
(* (ManaCost.cpp), the rules that pay for a card (MTGRules.cpp) and the    *)
(* icons that show the pool (GuiMana.cpp), which only hear of its changes  *)
(* through events.                                                         *)
(*                                                                         *)
(* The amounts are int8_t in the code; here they have 2 * Half values.  A  *)
(* card's cost changes when a card with sunburst is only asked whether it  *)
(* can be played.  Payments that are not mana are in ActionLayer.          *)
(***************************************************************************)
EXTENDS Integers, Sequences, FiniteSets, SequencesExt, FiniteSetsExt

CONSTANTS
  LastColour,     \* the colours are 0..LastColour, MTG_COLOR_ARTIFACT (no colour) first
  Half,           \* half of the values of an amount: 128 in the code
  None,           \* no card
  AnyX,           \* the X of a cost: whatever is left is spent on it
  NoX,            \* a cost without X; otherwise X takes one colour
  Cards,
  Printed,        \* the cost printed on each card
  Kicker,         \* the cost of its kicker, or None
  Multikickers,   \* the cards that can be kicked more than once
  Sunbursts,      \* the cards with sunburst
  Abilities,      \* costs of activated abilities
  Outputs,        \* what mana producers add
  KickerAlways,   \* Options::KICKERPAYMENT, or the player is an AI
  MaxIcons        \* bound: icons shown when mana is added

ASSUME ColourAssumption == LastColour \in Nat
ASSUME WidthAssumption  == Half \in Nat \ {0} /\ MaxIcons \in Nat
ASSUME CardAssumption   == None \notin Cards /\ Multikickers \subseteq Cards /\ Sunbursts \subseteq Cards

VARIABLES
  pool,       \* the mana of each colour, with its sign
  icons,      \* the ManaIcons of each colour that are ALIVE
  hand,       \* the card that can be played, or None
  cost,       \* what that card costs
  sunburst,   \* how often sunburst has changed that
  kicked,     \* how often the last card was kicked
  X           \* the X of the last card or ability

vars == <<pool, icons, hand, cost, sunburst, kicked, X>>

Colours  == 0..LastColour
Coloured == Colours \ {0}
AtLeast0(n) == IF n > 0 THEN n ELSE 0
Lesser(a, b) == IF a < b THEN a ELSE b
Total(mana) == MapThenSumSet(LAMBDA c : mana[c], Colours)

(* What int8_t keeps of a sum or a difference. *)
Wrap(n) == ((n + Half) % (2 * Half)) - Half

-----------------------------------------------------------------------------
(* ManaCost: what is left when a cost is paid. *)

HybridDemand(h, side) == IF side = 1 THEN h.value1 ELSE h.value2
HybridColour(h, side) == IF side = 1 THEN h.color1 ELSE h.color2

(* The mana left when hybrid i is paid with the side that sides gives it. *)
WithoutHybrids(mana, hybrids, sides) ==
  [c \in Colours |->
     Wrap(mana[c] - MapThenSumSet(LAMBDA i : HybridDemand(hybrids[i], sides[i]),
                                  {i \in DOMAIN hybrids : HybridColour(hybrids[i], sides[i]) = c}))]

(***************************************************************************)
(* tryToPayHybrids: from the last hybrid to the first, the first side      *)
(* before the second, and back when the rest cannot be paid.               *)
(***************************************************************************)
Payings(mana, hybrids) ==
  {sides \in [DOMAIN hybrids -> {1, 2}] :
     \A i \in DOMAIN hybrids : WithoutHybrids(mana, hybrids, sides)[HybridColour(hybrids[i], sides[i])] >= 0}

FirstTried(S) ==
  CHOOSE s \in S : \A t \in S \ {s} :
    \E i \in DOMAIN s : s[i] < t[i] /\ \A j \in DOMAIN s : j > i => s[j] = t[j]

\* Mutant: the first side of every hybrid, whether it can be paid or not.
FirstSides(mana, hybrids) == WithoutHybrids(mana, hybrids, [i \in DOMAIN hybrids |-> 1])

(* randomDiffHybrids: when there is no way, the first sides. *)
tryToPayHybrids(mana, hybrids) ==
  WithoutHybrids(mana, hybrids,
    IF Payings(mana, hybrids) = {} THEN [i \in DOMAIN hybrids |-> 1]
    ELSE FirstTried(Payings(mana, hybrids)))

(* What has no colour is paid with the other colours, in their order. *)
PayColourless(mana) ==
  LET owed     == AtLeast0(-mana[0])
      before(c) == MapThenSumSet(LAMBDA d : AtLeast0(mana[d]), {d \in Coloured : d < c})
      taken(c) == Lesser(AtLeast0(mana[c]), AtLeast0(owed - before(c)))
  IN [c \in Colours |-> IF c = 0 THEN mana[0] + MapThenSumSet(taken, Coloured)
                        ELSE mana[c] - taken(c)]

(* The colours X is paid with. *)
XColours(x) == IF x = AnyX THEN Colours ELSE IF x = NoX THEN {} ELSE {x}

Diff(mana, asked) ==
  LET fixed == [c \in Colours |-> Wrap(mana[c] - asked.mana[c])]
      left  == PayColourless(tryToPayHybrids(fixed, asked.hybrids))
      forX  == XColours(asked.x)
  IN [mana |-> [c \in Colours |-> IF c \in forX /\ left[c] > 0 THEN 0 ELSE left[c]],
      x    |-> Wrap(MapThenSumSet(LAMBDA c : AtLeast0(left[c]), forX))]

\* Mutant: only the coloured amounts are looked at.
ColoursSuffice(mana, asked) == \A c \in Coloured : Diff(mana, asked).mana[c] >= 0

canAfford(mana, asked) == \A c \in Colours : Diff(mana, asked).mana[c] >= 0

(* ManaCost::add of another cost. *)
Plus(asked, more) ==
  [asked EXCEPT !.mana    = [c \in Colours |-> asked.mana[c] + more.mana[c]],
                !.hybrids = @ \o more.hybrids]

getConvertedCost(asked) ==
  Total(asked.mana)
  + MapThenSumSet(LAMBDA i : IF asked.hybrids[i].value2 > asked.hybrids[i].value1
                             THEN asked.hybrids[i].value2 ELSE asked.hybrids[i].value1,
                  DOMAIN asked.hybrids)

hasColor(asked, c) ==
  \/ asked.mana[c] # 0
  \/ \E i \in DOMAIN asked.hybrids : \E side \in {1, 2} :
       HybridColour(asked.hybrids[i], side) = c /\ HybridDemand(asked.hybrids[i], side) > 0

Of(mana) == [mana |-> mana, x |-> NoX, hybrids |-> <<>>]
Free == Of([c \in Colours |-> 0])

-----------------------------------------------------------------------------
(* ManaPool: every change but the removals sends events, to GuiMana. *)

(* An icon for each mana that comes; one less for each that goes, if there is one. *)
Engaged(shown, mana) == [c \in Colours |-> shown[c] + mana[c]]

\* Mutant: two icons go for each mana.
ConsumedTwice(shown, from, to) ==
  [c \in Colours |-> AtLeast0(shown[c] - 2 * AtLeast0(from[c] - to[c]))]

Consumed(shown, from, to) ==
  [c \in Colours |-> AtLeast0(shown[c] - AtLeast0(from[c] - to[c]))]

PaysTo(left) ==
  /\ pool' = left
  /\ icons' = Consumed(icons, pool, left)

(* AManaProducer::resolve. *)
Produce(output) ==
  /\ Total(icons) + Total(output) <= MaxIcons
  /\ pool' = [c \in Colours |-> Wrap(pool[c] + output[c])]
  /\ icons' = Engaged(icons, output)
  /\ UNCHANGED <<hand, cost, sunburst, kicked, X>>

(* Between phases, and by some cards. *)
Empty ==
  /\ pool' = [c \in Colours |-> 0]
  /\ icons' = [c \in Colours |-> 0]
  /\ UNCHANGED <<hand, cost, sunburst, kicked, X>>

(* AARemoveMana, of one mana or of all mana of a colour: ManaCost's, without events. *)
RemoveMana(c) ==
  /\ pool' \in {[d \in Colours |-> pool[d] - Lesser(pool[d], IF d = c THEN 1 ELSE 0)],
                [pool EXCEPT ![c] = 0]}
  /\ UNCHANGED <<icons, hand, cost, sunburst, kicked, X>>

-----------------------------------------------------------------------------
(* Playing a card. *)

Draw(card) ==
  /\ hand = None
  /\ hand' = card /\ cost' = Printed[card]
  /\ sunburst' = 0 /\ kicked' = 0 /\ X' = 0
  /\ UNCHANGED <<pool, icons>>

Burst(w, c) ==
  [cost |-> [w.cost EXCEPT !.mana = [@ EXCEPT ![c] = @ + 1, ![0] = AtLeast0(@ - 1)]],
   n    |-> w.n + 1]

(* Up to the converted cost, and without end for an X. *)
MayBurst(card, w) == card \in Sunbursts /\ (w.n < getConvertedCost(w.cost) \/ w.cost.x = AnyX)

\* Mutant: a colour that the cost already has is added again.
BurstAgain(card, w, c) == IF pool[c] # 0 /\ MayBurst(card, w) THEN Burst(w, c) ELSE w

(* One turn of the loop over the colours: a colour of the pool takes a colourless mana's place. *)
BurstOf(card, w, c) ==
  IF pool[c] # 0 /\ ~hasColor(w.cost, c) /\ MayBurst(card, w) THEN Burst(w, c) ELSE w

(* MTGPutInPlayRule::isReactingToClick, when it says yes. *)
Asked(card) ==
  FoldLeft(LAMBDA w, c : BurstOf(card, w, c), [cost |-> cost, n |-> sunburst],
           [i \in 1..LastColour |-> i])

Query ==
  /\ hand # None /\ canAfford(pool, cost)
  /\ cost' = Asked(hand).cost
  /\ sunburst' = Asked(hand).n
  /\ UNCHANGED <<pool, icons, hand, kicked, X>>

Kicked(asked, n) == FoldLeft(LAMBDA a, i : Plus(a, Kicker[hand]), asked, [i \in 1..n |-> i])

(* How often the kicker can be paid on top of a cost. *)
Kicks(asked) ==
  CHOOSE n \in 0..(2 * Half * (LastColour + 1)) :
    /\ ~canAfford(pool, Kicked(asked, n + 1))
    /\ \A k \in 1..n : canAfford(pool, Kicked(asked, k))

(* The spell remembers what was spent; computeX subtracts the card's cost from that once more. *)
Spends(left, asked) ==
  /\ PaysTo(left)
  /\ X' = Diff(Diff(pool, Of(left)).mana, asked).x
  /\ hand' = None /\ cost' = Free /\ sunburst' = 0

(***************************************************************************)
(* MTGPutInPlayRule::reactToClick: the click asks once more, then the cost *)
(* is paid, and with the option the kickers after it, one by one.          *)
(***************************************************************************)
Cast ==
  /\ hand # None /\ canAfford(pool, cost)
  /\ LET asked == Asked(hand).cost
         n == IF ~KickerAlways \/ Kicker[hand] = None THEN 0
              ELSE IF hand \in Multikickers THEN Kicks(asked)
              ELSE IF canAfford(pool, Plus(asked, Kicker[hand])) THEN 1 ELSE 0
         left == FoldLeft(LAMBDA m, i : Diff(m, Kicker[hand]).mana, Diff(pool, asked).mana,
                          [i \in 1..n |-> i])
     IN Spends(left, asked) /\ kicked' = n

(***************************************************************************)
(* MTGKickerRule::reactToClick.  The loop of a multikicker ends on a cost  *)
(* that cannot be afforded, and it is that one which is paid.              *)
(***************************************************************************)
CastKicked ==
  /\ ~KickerAlways
  /\ hand # None /\ Kicker[hand] # None
  /\ canAfford(pool, Plus(cost, Kicker[hand]))
  /\ LET n == IF hand \in Multikickers THEN Kicks(cost) + 1 ELSE 1
     IN /\ Spends(Diff(pool, Kicked(cost, n)).mana, cost)
        /\ kicked' = IF hand \in Multikickers THEN n - 1 ELSE 0

(***************************************************************************)
(* ActivatedAbility::reactToClick, and the X its resolution reads through  *)
(* hasX of a cost whose xColor was never set: it may find none.            *)
(***************************************************************************)
Activate(asked) ==
  /\ canAfford(pool, asked)
  /\ LET left == Diff(pool, asked).mana
     IN /\ PaysTo(left)
        /\ X' \in {0, Diff(Diff(pool, Of(left)).mana, asked).x}
  /\ UNCHANGED <<hand, cost, sunburst, kicked>>

Init ==
  /\ pool = [c \in Colours |-> 0] /\ icons = [c \in Colours |-> 0]
  /\ hand = None /\ cost = Free /\ sunburst = 0 /\ kicked = 0 /\ X = 0

Next ==
  \/ \E output \in Outputs : Produce(output)
  \/ Empty
  \/ \E c \in Colours : RemoveMana(c)
  \/ \E card \in Cards : Draw(card)
  \/ Query \/ Cast \/ CastKicked
  \/ \E asked \in Abilities : Activate(asked)

Spec == Init /\ [][Next]_vars

-----------------------------------------------------------------------------

Amounts == (-Half)..(Half - 1)

(* The amounts are what an int8_t can hold, and a card in hand has a cost. *)
TypeOK ==
  /\ pool \in [Colours -> Amounts] /\ icons \in [Colours -> 0..MaxIcons]
  /\ hand \in Cards \cup {None}
  /\ \A c \in Colours : cost.mana[c] \in 0..(Half - 1)
  /\ sunburst \in Nat /\ kicked \in Nat /\ X \in Amounts

(* By the rules of the game: some mana pays each coloured part, and the rest suffices. *)
Payable(mana, asked) ==
  \E sides \in [DOMAIN asked.hybrids -> {1, 2}] :
    LET demand(c) == asked.mana[c]
                     + MapThenSumSet(LAMBDA i : HybridDemand(asked.hybrids[i], sides[i]),
                         {i \in DOMAIN asked.hybrids : HybridColour(asked.hybrids[i], sides[i]) = c})
    IN /\ \A c \in Coloured : demand(c) <= mana[c]
       /\ MapThenSumSet(demand, Colours) <= Total(mana)

Costs == {Printed[card] : card \in Cards} \cup Abilities \cup {cost}
InCredit(mana) == \A c \in Colours : mana[c] >= 0

(* Hybrids of which one side has no colour. *)
Generic(asked) == {i \in DOMAIN asked.hybrids : 0 \in {asked.hybrids[i].color1, asked.hybrids[i].color2}}

(***************************************************************************)
(* "return 1 if _cost can be paid with current data": what canAfford       *)
(* allows can be paid by the rules, whatever order it tries hybrids in.    *)
(***************************************************************************)
CanAffordIsSound ==
  InCredit(pool) => \A asked \in Costs : canAfford(pool, asked) => Payable(pool, asked)

(***************************************************************************)
(* "... 0 otherwise": what can be paid by the rules is allowed, though     *)
(* hybrids are tried on coloured mana alone and colourless mana is paid    *)
(* last; with two hybrids that can be paid with any mana it need not be.   *)
(***************************************************************************)
CanAffordIsComplete ==
  InCredit(pool) =>
    \A asked \in Costs : Cardinality(Generic(asked)) < 2 /\ Payable(pool, asked) => canAfford(pool, asked)

(* canAfford answers by the rules of the game. *)
CanAffordIsRight == CanAffordIsSound /\ CanAffordIsComplete

(***************************************************************************)
(* "we don't want to be negative", "dont play if you cant afford it":      *)
(* paying for a card or an ability leaves no amount negative; only too     *)
(* much mana of one colour does.                                           *)
(***************************************************************************)
PaymentsLeaveNoDebt ==
  [][InCredit(pool) /\ ~InCredit(pool') => \E output \in Outputs : Produce(output)]_vars

(***************************************************************************)
(* A card takes what it asks, not less and not more: what is spent is its  *)
(* cost, its kickers, and what its X is then said to be, as long as the    *)
(* whole pool fits in the int8_t of the X.                                 *)
(***************************************************************************)
Even(asked) == \A i \in DOMAIN asked.hybrids : asked.hybrids[i].value1 = asked.hybrids[i].value2
Kicks2Pay   == IF CastKicked /\ hand \notin Multikickers THEN 1 ELSE kicked'
PaysWhatItAsks ==
  [][hand # None /\ hand' = None /\ InCredit(pool) /\ Total(pool) < Half /\ Even(cost) =>
       Total(pool) - Total(pool') =
         getConvertedCost(Kicked(cost, Kicks2Pay)) + X']_vars

(***************************************************************************)
(* The icons are counted by events alone, of which removals send none: the *)
(* screen may show mana that is gone, but hides none that is there.        *)
(***************************************************************************)
ScreenHidesNothing == \A c \in Colours : icons[c] >= pool[c]

(* The amounts of the pool, the cost and the screen are kept as they can be. *)
PoolIsShown == TypeOK /\ ScreenHidesNothing

(***************************************************************************)
(* To ask whether a card can be played changes what a card with sunburst   *)
(* costs; what it costs then can still be paid.                            *)
(***************************************************************************)
StaysPayable ==
  [][InCredit(pool) /\ Query => canAfford(pool, cost')]_vars

(* A card asks for what its owner has, and takes what it asked for. *)
CostsAreHonoured == PaysWhatItAsks /\ StaysPayable
=============================================================================
