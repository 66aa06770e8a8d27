-------------------------- MODULE ActionStack_proofs --------------------------
(***************************************************************************)
(* For any time limit, options, bounds and choice of human players: the    *)
(* state of the interrupt protocol stays well typed, answers are charged   *)
(* to the player asked, nobody holds the game when both have declined, and *)
(* nothing but split second resolves while a player interrupts.  And the   *)
(* protocol implements the abstract stack PriorityStack.                   *)
(***************************************************************************)
EXTENDS ActionStack, SequenceTheorems, TLAPS

-----------------------------------------------------------------------------
(* Lemmas about the sequence of objects. *)

LEMMA KindsOf ==
  /\ {"Ordinary", "NextGamePhase"} \subseteq Kinds
  /\ Plays \subseteq Kinds
BY DEF Kinds, Plays

LEMMA SubSeqTyped ==
  ASSUME NEW S, NEW s \in Seq(S), NEW m \in Nat \ {0}, NEW n \in Nat,
         n <= Len(s), m <= n + 1, NEW k \in Nat, k = n + 1 - m
  PROVE  SubSeq(s, m, n) \in Seq(S) /\ Len(SubSeq(s, m, n)) = k
<1>1. \A i \in m..n : s[i] \in S
  BY ElementOfSeq, LenProperties
<1>2. /\ SubSeq(s, m, n) \in Seq(S)
      /\ Len(SubSeq(s, m, n)) = IF m <= n THEN n - m + 1 ELSE 0
  BY <1>1, SubSeqProperties
<1>3. (IF m <= n THEN n - m + 1 ELSE 0) = k
  OBVIOUS
<1>. QED
  BY <1>2, <1>3

LEMMA TriggeredTyped ==
  ASSUME NEW objects \in Seq(Kinds), NEW n \in Nat
  PROVE  /\ Triggered(objects, n) \in Seq(Kinds)
         /\ Len(Triggered(objects, n)) = Len(objects) + n
<1>. DEFINE new == [i \in 1..n |-> "Ordinary"]
<1>1. new \in Seq(Kinds) /\ Len(new) = n
  BY KindsOf
<1>. QED
  BY <1>1, ConcatProperties DEF Triggered

LEMMA FrontTyped ==
  ASSUME NEW S, NEW s \in Seq(S), s # <<>>
  PROVE  /\ Front(s) \in Seq(S)
         /\ Len(s) = Len(Front(s)) + 1
<1>1. PICK n \in Nat : n + 1 = Len(s)
  <2>1. Len(s) \in Nat \ {0}
    BY EmptySeq
  <2>2. Len(s) - 1 \in Nat /\ (Len(s) - 1) + 1 = Len(s)
    BY <2>1
  <2>. QED
    BY <2>2
<1>2. Front(s) = SubSeq(s, 1, n)
  <2>1. Len(s) - 1 = n
    BY <1>1
  <2>. QED
    BY <2>1 DEF Front
<1>3. SubSeq(s, 1, n) \in Seq(S) /\ Len(SubSeq(s, 1, n)) = n
  BY <1>1, SubSeqTyped
<1>. QED
  BY <1>1, <1>2, <1>3

LEMMA RemoveAtTyped ==
  ASSUME NEW S, NEW s \in Seq(S), NEW i \in 1..Len(s)
  PROVE  /\ RemoveAt(s, i) \in Seq(S)
         /\ Len(s) = Len(RemoveAt(s, i)) + 1
<1>1. PICK n \in Nat : n = Len(s)
  BY LenProperties
<1>2. PICK a \in Nat : a = i - 1
  BY <1>1
<1>3. PICK b \in Nat : b = n - i
  <2>1. i \in 1..n
    BY <1>1
  <2>2. n - i \in Nat
    BY <2>1
  <2>. QED
    BY <2>2
<1>4. SubSeq(s, 1, a) \in Seq(S) /\ Len(SubSeq(s, 1, a)) = a
  BY <1>1, <1>2, SubSeqTyped
<1>5. SubSeq(s, i + 1, n) \in Seq(S) /\ Len(SubSeq(s, i + 1, n)) = b
  <2>1. i + 1 \in Nat \ {0} /\ i + 1 <= n + 1 /\ b = n + 1 - (i + 1) /\ n <= Len(s)
    BY <1>1, <1>3
  <2>. QED
    BY <1>1, <1>3, <2>1, SubSeqTyped
<1>6. RemoveAt(s, i) = SubSeq(s, 1, a) \o SubSeq(s, i + 1, n)
  BY <1>1, <1>2 DEF RemoveAt
<1>7. /\ RemoveAt(s, i) \in Seq(S)
      /\ Len(RemoveAt(s, i)) = a + b
  BY <1>4, <1>5, <1>6, ConcatProperties
<1>. QED
  BY <1>1, <1>2, <1>3, <1>7

\* What a resolution leaves is typed, and has lost at least the newest object.
LEMMA LeavingsTyped ==
  ASSUME mObjects \in Seq(Kinds), mObjects # <<>>, NEW left \in Leavings
  PROVE  left \in Seq(Kinds) /\ Len(left) \in Nat /\ Len(left) < Len(mObjects)
<1>. DEFINE below == Front(mObjects)
<1>1. Len(mObjects) \in Nat \ {0}
  BY EmptySeq
<1>2. below \in Seq(Kinds) /\ Len(mObjects) = Len(below) + 1
  BY FrontTyped
<1>3. left = below \/ \E i \in 1..Len(below) : left = RemoveAt(below, i)
  BY <1>2, LenProperties DEF Leavings
<1>4. CASE left = below
  BY <1>1, <1>2, <1>4
<1>5. CASE \E i \in 1..Len(below) : left = RemoveAt(below, i)
  <2>1. left \in Seq(Kinds) /\ Len(below) = Len(left) + 1
    BY <1>2, <1>5, RemoveAtTyped
  <2>2. Len(left) \in Nat
    BY <2>1, LenProperties
  <2>. QED
    BY <1>1, <1>2, <2>1, <2>2
<1>. QED
  BY <1>3, <1>4, <1>5
-----------------------------------------------------------------------------
(* Additions are prefixes. *)

LEMMA LongerIsStrict ==
  ASSUME NEW S, NEW s \in Seq(S), NEW t \in Seq(S),
         Len(s) < Len(t), \A i \in 1..Len(s) : t[i] = s[i]
  PROVE  IsStrictPrefix(s, t)
<1>1. PICK n \in Nat : n = Len(s)
  BY LenProperties
<1>2. Len(t) \in Nat
  BY LenProperties
<1>3. /\ \A i \in 1..n : s[i] \in S
      /\ \A i \in 1..n : t[i] \in S
  BY <1>1, <1>2, ElementOfSeq
<1>4. /\ SubSeq(s, 1, n) \in Seq(S)
      /\ Len(SubSeq(s, 1, n)) = n
      /\ \A i \in 1..n : SubSeq(s, 1, n)[i] = s[i]
  <2>1. /\ SubSeq(s, 1, n) \in Seq(S)
        /\ Len(SubSeq(s, 1, n)) = IF 1 <= n THEN n - 1 + 1 ELSE 0
        /\ \A i \in 1..n - 1 + 1 : SubSeq(s, 1, n)[i] = s[1 + i - 1]
    BY <1>3, SubSeqProperties
  <2>. QED
    BY <1>1, <2>1
<1>5. /\ SubSeq(t, 1, n) \in Seq(S)
      /\ Len(SubSeq(t, 1, n)) = n
      /\ \A i \in 1..n : SubSeq(t, 1, n)[i] = t[i]
  <2>1. /\ SubSeq(t, 1, n) \in Seq(S)
        /\ Len(SubSeq(t, 1, n)) = IF 1 <= n THEN n - 1 + 1 ELSE 0
        /\ \A i \in 1..n - 1 + 1 : SubSeq(t, 1, n)[i] = t[1 + i - 1]
    BY <1>3, SubSeqProperties
  <2>. QED
    BY <1>1, <2>1
<1>6. SubSeq(s, 1, n) = SubSeq(t, 1, n)
  BY <1>1, <1>4, <1>5, SeqEqual
<1>7. IsPrefix(s, t)
  BY <1>1, <1>2, <1>6 DEF IsPrefix
<1>8. s # t
  BY <1>1, <1>2
<1>. QED
  BY <1>7, <1>8 DEF IsStrictPrefix

\* Triggered abilities are put above what is there; none leave it as it is.
LEMMA TriggeredAbove ==
  ASSUME NEW objects \in Seq(Kinds), NEW n \in Nat
  PROVE  /\ n = 0 => Triggered(objects, n) = objects
         /\ n > 0 => IsStrictPrefix(objects, Triggered(objects, n))
<1>. DEFINE new == [i \in 1..n |-> "Ordinary"]
<1>1. new \in Seq(Kinds) /\ Len(new) = n
  BY KindsOf
<1>2. /\ Triggered(objects, n) \in Seq(Kinds)
      /\ Len(Triggered(objects, n)) = Len(objects) + n
      /\ \A i \in 1..Len(objects) + n :
           Triggered(objects, n)[i] = IF i <= Len(objects) THEN objects[i] ELSE new[i - Len(objects)]
  BY <1>1, ConcatProperties DEF Triggered
<1>3. Len(objects) \in Nat
  BY LenProperties
<1>4. n = 0 => Triggered(objects, n) = objects
  BY <1>2, <1>3, SeqEqual
<1>5. n > 0 => IsStrictPrefix(objects, Triggered(objects, n))
  BY <1>2, <1>3, LongerIsStrict
<1>. QED
  BY <1>4, <1>5

LEMMA AppendAbove ==
  ASSUME NEW objects \in Seq(Kinds), NEW kind \in Kinds
  PROVE  IsStrictPrefix(objects, Append(objects, kind))
<1>1. /\ Append(objects, kind) \in Seq(Kinds)
      /\ Len(Append(objects, kind)) = Len(objects) + 1
      /\ \A i \in 1..Len(objects) : Append(objects, kind)[i] = objects[i]
  BY AppendProperties
<1>2. Len(objects) < Len(Append(objects, kind))
  BY <1>1, LenProperties
<1>. QED
  BY <1>1, <1>2, LongerIsStrict

-----------------------------------------------------------------------------
(* The invariant, and the ways a step can leave it true: what it adds is    *)
(* fresh, it leaves decisions alone, clears or cancels them, or takes the   *)
(* game.                                                                    *)

IInv == TypeOK /\ AnswerGoesToAsked /\ AgreedMeansFree

USE DEF Players, None

\* What is neither an object nor a decision.
RestTyped ==
  /\ askIfWishesToInterrupt \in Players \cup {None}
  /\ isInterrupting \in Players \cup {None}
  /\ timer \in Nat \cup {-1}
  /\ chooser \in Players \cup {None} /\ menuObject \in Menus
  /\ mode \in {"STANDARD", "CHECKED", "TARGET"}
  /\ turnActor \in Players /\ currentActionPlayer \in Players /\ player \in Players
  /\ frame \in Frames

\* What every addition leaves: something on the stack, nobody who interrupts,
\* and one player at least who has not decided.
Fresh ==
  /\ mObjects' \in Seq(Kinds) /\ Len(mObjects') <= MaxObjects /\ mObjects' # <<>>
  /\ interruptDecision' \in [Players -> {"NOT_DECIDED", "DONT_INTERRUPT"}]
  /\ \E p \in Players : interruptDecision'[p] = "NOT_DECIDED"

\* No player's decision is taken, but that of a player the options spare.
Spared ==
  \A p \in Players :
    \/ interruptDecision'[p] \in {interruptDecision[p], "NOT_DECIDED"}
    \/ interruptDecision'[p] = "DONT_INTERRUPT" /\ p = OwnOffer(p)

\* An open offer stays open for the same player, is withdrawn, or can not be
\* answered in the next part of the frame.
OfferStays ==
  \/ frame' \notin {"layer", "input"}
  \/ askIfWishesToInterrupt' = None
  \/ /\ frame = "layer" /\ Spared
     /\ UNCHANGED askIfWishesToInterrupt
     /\ mObjects # <<>> => mObjects' # <<>>
     /\ \/ UNCHANGED isInterrupting
        \/ frame' = "input" /\ menuObject' = "closed" /\ isInterrupting' = None

LEMMA OfferStaysAnswerable ==
  ASSUME IInv, RestTyped', OfferStays
  PROVE  AnswerGoesToAsked'
<1>1. SUFFICES ASSUME frame' \in {"layer", "input"}, askIfWishesToInterrupt' # None
               PROVE  AnswerGoesToAsked'
  BY DEF AnswerGoesToAsked
<1>. DEFINE p == askIfWishesToInterrupt
<1>2. /\ frame = "layer" /\ p' = p /\ p \in Players
      /\ mObjects # <<>> => mObjects' # <<>>
      /\ \/ interruptDecision'[p] \in {interruptDecision[p], "NOT_DECIDED"}
         \/ interruptDecision'[p] = "DONT_INTERRUPT" /\ p = OwnOffer(p)
      /\ \/ UNCHANGED isInterrupting
         \/ frame' = "input" /\ menuObject' = "closed" /\ isInterrupting' = None
  BY <1>1 DEF OfferStays, Spared, RestTyped
<1>3. /\ mObjects # <<>> /\ isInterrupting = p
      /\ \/ interruptDecision[p] = "NOT_DECIDED"
         \/ interruptDecision[p] = "DONT_INTERRUPT" /\ p = OwnOffer(p)
  BY <1>1, <1>2 DEF IInv, AnswerGoesToAsked
<1>. QED
  BY <1>2, <1>3 DEF AnswerGoesToAsked, OwnOffer

LEMMA FreshKeepsIInv ==
  ASSUME IInv, Fresh, RestTyped', OfferStays
  PROVE  IInv'
<1>1. TypeOK'
  BY DEF Fresh, RestTyped, TypeOK, Decisions, Declined
<1>2. AgreedMeansFree'
  BY DEF Fresh, AgreedMeansFree, Declined
<1>. QED
  BY <1>1, <1>2, OfferStaysAnswerable DEF IInv

LEMMA QuietKeepsIInv ==
  ASSUME IInv, UNCHANGED <<mObjects, interruptDecision>>,
         isInterrupting' \in {isInterrupting, None}, RestTyped', OfferStays
  PROVE  IInv'
<1>1. TypeOK'
  BY DEF IInv, RestTyped, TypeOK
<1>2. AgreedMeansFree'
  BY DEF IInv, AgreedMeansFree
<1>. QED
  BY <1>1, <1>2, OfferStaysAnswerable DEF IInv

LEMMA ClearingKeepsIInv ==
  ASSUME IInv, UNCHANGED mObjects, interruptDecision' = NobodyDecided,
         RestTyped', OfferStays
  PROVE  IInv'
<1>1. TypeOK'
  BY DEF IInv, RestTyped, TypeOK, NobodyDecided, Decisions
<1>2. AgreedMeansFree'
  BY DEF AgreedMeansFree, NobodyDecided, Declined
<1>. QED
  BY <1>1, <1>2, OfferStaysAnswerable DEF IInv

LEMMA CancelKeepsIInv ==
  ASSUME IInv, UNCHANGED mObjects, isInterrupting' = None,
         NEW q, NEW d \in Decisions,
         interruptDecision' = [interruptDecision EXCEPT ![q] = d],
         RestTyped', OfferStays
  PROVE  IInv'
<1>1. TypeOK'
  BY DEF IInv, RestTyped, TypeOK
<1>2. AgreedMeansFree'
  BY DEF AgreedMeansFree
<1>. QED
  BY <1>1, <1>2, OfferStaysAnswerable DEF IInv

\* What setIsInterrupting says of a player, or of player 0 for nobody.
LEMMA TakingDecides ==
  ASSUME TypeOK, NEW p \in Players \cup {None}, setIsInterrupting(p)
  PROVE  /\ askIfWishesToInterrupt' = None
         /\ timer' = timer /\ isInterrupting' \in Players \cup {None}
         /\ \/ UNCHANGED <<interruptDecision, isInterrupting>>
            \/ \E q \in Players :
                 interruptDecision' = [interruptDecision EXCEPT ![q] = "INTERRUPT"]
<1>1. IdOf(p) \in Players
  BY DEF IdOf
<1>. QED
  BY <1>1 DEF setIsInterrupting, TypeOK

LEMMA TakingKeepsIInv ==
  ASSUME IInv, UNCHANGED mObjects, NEW p \in Players \cup {None},
         setIsInterrupting(p), RestTyped'
  PROVE  IInv'
<1>1. TypeOK /\ OfferStays
  BY TakingDecides DEF IInv, OfferStays
<1>2. CASE UNCHANGED <<interruptDecision, isInterrupting>>
  BY <1>1, <1>2, QuietKeepsIInv
<1>3. ASSUME NEW q \in Players,
             interruptDecision' = [interruptDecision EXCEPT ![q] = "INTERRUPT"]
      PROVE  IInv'
  <2>1. interruptDecision' \in [Players -> Decisions] /\ interruptDecision'[q] = "INTERRUPT"
    BY <1>1, <1>3 DEF TypeOK, Decisions
  <2>2. TypeOK'
    BY <1>1, <2>1 DEF RestTyped, TypeOK
  <2>3. AgreedMeansFree'
    BY <2>1 DEF AgreedMeansFree, Declined
  <2>. QED
    BY <1>1, <2>2, <2>3, OfferStaysAnswerable DEF IInv
<1>. QED
  BY <1>1, <1>2, <1>3, TakingDecides

-----------------------------------------------------------------------------
(* Additions are fresh. *)

LEMMA FreshDecisions ==
  ASSUME NEW d, interruptDecision' =
           [p \in Players |-> IF p = d THEN "DONT_INTERRUPT" ELSE "NOT_DECIDED"]
  PROVE  /\ interruptDecision' \in [Players -> {"NOT_DECIDED", "DONT_INTERRUPT"}]
         /\ \E p \in Players : interruptDecision'[p] = "NOT_DECIDED"
<1>1. PICK p \in Players : p # d
  OBVIOUS
<1>2. interruptDecision'[p] = "NOT_DECIDED"
  BY <1>1
<1>. QED
  BY <1>2

LEMMA SparedDecisions ==
  ASSUME NEW c, interruptDecision' =
           [p \in Players |-> IF p = OwnOffer(c) THEN "DONT_INTERRUPT" ELSE "NOT_DECIDED"]
  PROVE  Spared
<1>1. \A p \in Players : p = OwnOffer(c) => p = OwnOffer(p)
  BY DEF OwnOffer
<1>2. \A p \in Players :
        interruptDecision'[p] = IF p = OwnOffer(c) THEN "DONT_INTERRUPT" ELSE "NOT_DECIDED"
  OBVIOUS
<1>. QED
  BY <1>1, <1>2 DEF Spared

LEMMA AdditionIsFresh ==
  ASSUME TypeOK, NEW kind \in Kinds, NEW d, addAction(kind, d)
  PROVE  Fresh
<1>1. /\ mObjects' \in Seq(Kinds) /\ Len(mObjects') <= MaxObjects
      /\ mObjects' # <<>>
  BY AppendProperties, LenProperties, BoundAssumption DEF TypeOK, addAction
<1>. QED
  BY <1>1, FreshDecisions DEF addAction, Fresh

LEMMA PlayIsFresh ==
  ASSUME TypeOK, NEW c, addSpell(c) \/ addAbility(c)
  PROVE  Fresh /\ Spared
<1>1. PICK kind \in Kinds : addAction(kind, OwnOffer(c))
  BY KindsOf DEF addSpell, addAbility
<1>. QED
  BY <1>1, AdditionIsFresh, SparedDecisions DEF addAction

\* What an effect triggers is fresh, unless it triggers nothing.
LEMMA TriggersAreFresh ==
  ASSUME TypeOK, TriggersAdded
  PROVE  \/ Fresh /\ Spared
         \/ UNCHANGED <<mObjects, interruptDecision>>
<1>1. PICK n \in Triggers, c \in Players :
        /\ mObjects' = Triggered(mObjects, n)
        /\ IF n = 0 THEN UNCHANGED interruptDecision
           ELSE interruptDecision' =
                  [p \in Players |->
                     IF p = OwnOffer(c) THEN "DONT_INTERRUPT" ELSE "NOT_DECIDED"]
  BY DEF TriggersAdded
<1>2. n \in Nat /\ Len(mObjects) + n <= MaxObjects /\ mObjects \in Seq(Kinds)
  BY BoundAssumption DEF Triggers, TypeOK
<1>3. CASE n = 0
  BY <1>1, <1>2, <1>3, TriggeredAbove
<1>4. CASE n > 0
  <2>1. mObjects' \in Seq(Kinds) /\ Len(mObjects') = Len(mObjects) + n
    BY <1>1, <1>2, TriggeredTyped
  <2>2. Len(mObjects) \in Nat
    BY <1>2, LenProperties
  <2>3. Len(mObjects') <= MaxObjects /\ Len(mObjects') > 0
    BY <1>2, <1>4, <2>1, <2>2
  <2>4. mObjects' # <<>>
    BY <2>3, EmptySeq
  <2>. QED
    BY <1>1, <1>4, <2>1, <2>3, <2>4, FreshDecisions, SparedDecisions DEF Fresh
<1>. QED
  BY <1>2, <1>3, <1>4

\* So is a phase that starts at once, or it goes through the stack.
LEMMA PhaseIsFresh ==
  ASSUME TypeOK, userRequestNextGamePhase
  PROVE  /\ Fresh \/ UNCHANGED <<mObjects, interruptDecision>>
         /\ chooser' \in Players \cup {None}
         /\ turnActor' \in Players /\ currentActionPlayer' \in Players
<1>1. CASE AddNextGamePhase /\ UNCHANGED <<chooser, turnVars>>
  BY <1>1, AdditionIsFresh, KindsOf DEF AddNextGamePhase, turnVars, TypeOK
<1>2. CASE NextPhaseNow
  BY <1>2, TriggersAreFresh DEF NextPhaseNow, TurnMoves, TypeOK
<1>. QED
  BY <1>1, <1>2 DEF userRequestNextGamePhase

-----------------------------------------------------------------------------
(* The steps of the frame loop: Update. *)

\* If the player whose decision matters has declined, both have.
LEMMA BothDeclined ==
  ASSUME TypeOK, interruptDecision[Asked(FirstAsked)] \in Declined
  PROVE  \A p \in Players : interruptDecision[p] \in Declined
BY DEF TypeOK, Asked, Other, FirstAsked, ActingPlayer, currentlyActing

LEMMA AskedIsPlayer ==
  ASSUME TypeOK
  PROVE  ActingPlayer \in Players /\ Asked(FirstAsked) \in Players
BY DEF TypeOK, Asked, Other, FirstAsked, ActingPlayer, currentlyActing

\* What resolve leaves of the stack, of the decisions and of the rest.
LEMMA Resolved ==
  ASSUME TypeOK, Resolving, resolve(ActingPlayer)
  PROVE  /\ mObjects' \in Seq(Kinds) /\ Len(mObjects') <= MaxObjects
         /\ interruptDecision' \in [Players -> {"NOT_DECIDED", "DONT_INTERRUPT_ALL"}]
         /\ \A p \in Players : interruptDecision'[p] \in Declined
                                 => interruptDecision[p] \in Declined
         /\ askIfWishesToInterrupt' = None
         /\ isInterrupting' \in {isInterrupting, None} /\ timer' = timer
         /\ chooser' \in {chooser} \cup Players
         /\ turnActor' \in Players /\ currentActionPlayer' \in Players
<1>1. mObjects # <<>> /\ ActingPlayer \in Players
  BY AskedIsPlayer DEF Resolving, StackWorks
<1>2. PICK left \in Leavings, n \in Triggers, adds \in BOOLEAN :
        /\ mObjects' = Triggered(left, n)
        /\ interruptDecision' =
             [p \in Players |->
                IF ~adds /\ interruptDecision[p] = "DONT_INTERRUPT_ALL"
                THEN "DONT_INTERRUPT_ALL" ELSE "NOT_DECIDED"]
  BY DEF resolve
<1>3. /\ left \in Seq(Kinds) /\ Len(left) \in Nat /\ Len(left) < Len(mObjects)
      /\ Len(mObjects) \in Nat
      /\ n \in Nat /\ Len(mObjects) + n <= MaxObjects
  BY <1>1, LeavingsTyped, LenProperties, BoundAssumption DEF TypeOK, Triggers
<1>4. mObjects' \in Seq(Kinds) /\ Len(mObjects') <= MaxObjects
  <2>1. mObjects' \in Seq(Kinds) /\ Len(mObjects') = Len(left) + n
    BY <1>2, <1>3, TriggeredTyped
  <2>. QED
    BY <1>3, <2>1, BoundAssumption
<1>5. \A p \in Players :
        interruptDecision'[p] = IF ~adds /\ interruptDecision[p] = "DONT_INTERRUPT_ALL"
                                THEN "DONT_INTERRUPT_ALL" ELSE "NOT_DECIDED"
  BY <1>2
<1>6. /\ interruptDecision' \in [Players -> {"NOT_DECIDED", "DONT_INTERRUPT_ALL"}]
      /\ \A p \in Players : interruptDecision'[p] \in Declined
                              => interruptDecision[p] \in Declined
  BY <1>2, <1>5 DEF Declined
<1>. QED
  BY <1>1, <1>4, <1>6 DEF resolve, TurnMoves, MayBlock, TypeOK

LEMMA LayerIsNext == "layer" \in Frames
BY DEF Frames, AfterMenu

LEMMA ResolveKeepsIInv ==
  ASSUME IInv, UNCHANGED menuObject, frame' = "layer",
         mode' \in {"STANDARD", "CHECKED", "TARGET"},
         player' \in Players, Resolving, resolve(ActingPlayer)
  PROVE  IInv'
<1>1. TypeOK /\ mObjects # <<>>
  BY DEF IInv, Resolving, StackWorks
<1>2. RestTyped'
  BY <1>1, LayerIsNext, Resolved DEF RestTyped, TypeOK
<1>3. TypeOK'
  BY <1>1, <1>2, Resolved DEF RestTyped, TypeOK, Decisions, Declined
<1>4. AnswerGoesToAsked'
  BY <1>1, Resolved DEF AnswerGoesToAsked
<1>5. AgreedMeansFree'
  BY <1>1, Resolved DEF IInv, AgreedMeansFree
<1>. QED
  BY <1>3, <1>4, <1>5 DEF IInv

\* The time left is a number, so a timer that runs never falls below -1.
LEMMA TimerTyped ==
  ASSUME TypeOK, NEW p, Offer(p)
  PROVE  timer' \in Nat \cup {-1}
<1>1. INTERRUPT_SECONDS * Len(mObjects) \in Nat
  BY SecondsAssumption, LenProperties DEF TypeOK
<1>2. TimeLeft \in Int /\ (timer >= 0 => TimeLeft >= -1)
  BY <1>1 DEF TimeLeft, TypeOK
<1>. QED
  BY <1>2, SecondsAssumption DEF Offer, CancelFor, TypeOK

\* An offer is made about something, to a player that has not decided, and
\* makes it the interrupter.
LEMMA OfferKeepsIInv ==
  ASSUME IInv, RestTyped', mObjects # <<>>,
         NEW p \in Players, interruptDecision[p] = "NOT_DECIDED", Offer(p)
  PROVE  IInv'
<1>1. CASE CancelFor(p, "DONT_INTERRUPT") /\ UNCHANGED mObjects
  BY <1>1, CancelKeepsIInv DEF CancelFor, Decisions, Declined, OfferStays
<1>2. CASE /\ askIfWishesToInterrupt' = p
           /\ isInterrupting' = p
           /\ UNCHANGED <<mObjects, interruptDecision>>
  <2>1. TypeOK'
    BY <1>2 DEF IInv, RestTyped, TypeOK
  <2>2. AnswerGoesToAsked' /\ AgreedMeansFree'
    BY <1>2 DEF AnswerGoesToAsked, AgreedMeansFree, Declined
  <2>. QED
    BY <2>1, <2>2 DEF IInv
<1>. QED
  BY <1>1, <1>2 DEF Offer

LEMMA UpdateKeepsIInv ==
  ASSUME IInv, Update
  PROVE  IInv'
<1>. DEFINE p == Asked(FirstAsked)
<1>1. /\ TypeOK /\ frame' = "layer" /\ mode' \in {"STANDARD", "CHECKED", "TARGET"}
      /\ UNCHANGED menuObject
      /\ player' \in Players /\ p \in Players
  BY AskedIsPlayer DEF IInv, Update, NextMode, TypeOK
<1>2. CASE Resolving
  BY <1>1, <1>2, ResolveKeepsIInv DEF Update, UpdateStack
<1>3. CASE ~Resolving
  <2>1. /\ currentActionPlayer' \in Players
        /\ UNCHANGED <<turnActor, chooser>>
    BY <1>1, <1>3, AskedIsPlayer DEF Update, UpdateStack
  <2>2. CASE NobodyAnswers
    <3>1. RestTyped' /\ OfferStays
      BY <1>1, <2>1, <2>2, LayerIsNext DEF NobodyAnswers, RestTyped, TypeOK, OfferStays
    <3>. QED
      BY <2>2, <3>1, QuietKeepsIInv DEF NobodyAnswers
  <2>3. CASE StackWorks /\ interruptDecision[p] = "NOT_DECIDED" /\ Offer(p)
    <3>1. timer' \in Nat \cup {-1} /\ mObjects # <<>>
      BY <1>1, <2>3, TimerTyped DEF StackWorks
    <3>2. RestTyped'
      BY <1>1, <2>1, <2>3, <3>1, LayerIsNext DEF RestTyped, TypeOK, Offer, CancelFor
    <3>. QED
      BY <1>1, <2>3, <3>1, <3>2, OfferKeepsIInv
  <2>4. CASE StackWorks /\ interruptDecision[p] = "INTERRUPT" /\ Hold(p)
    <3>1. RestTyped'
      BY <1>1, <2>1, <2>4, LayerIsNext DEF RestTyped, TypeOK, Hold
    <3>2. TypeOK'
      BY <1>1, <2>4, <3>1 DEF Hold, RestTyped, TypeOK
    <3>3. AnswerGoesToAsked' /\ AgreedMeansFree'
      BY <1>1, <2>4 DEF Hold, AnswerGoesToAsked, AgreedMeansFree, Declined
    <3>. QED
      BY <3>2, <3>3 DEF IInv
  <2>. QED
    BY <1>3, <2>2, <2>3, <2>4 DEF Update, UpdateStack
<1>. QED
  BY <1>2, <1>3

-----------------------------------------------------------------------------
(* The action layer. *)

\* Where a part of the frame in which menus are answered leads.
LEMMA AfterMenuOf ==
  ASSUME NEW f \in DOMAIN AfterMenu
  PROVE  /\ f \in {"layer", "again", "menu"}
         /\ AfterMenu[f] \in {"input", "effects", "acted"}
         /\ AfterMenu[f] = "input" => f = "layer"
BY DEF AfterMenu

LEMMA LayerKeepsIInv ==
  ASSUME IInv, Layer
  PROVE  IInv'
<1>. USE DEF IInv, TypeOK, Frames, Menus
<1>1. /\ frame \in DOMAIN AfterMenu /\ frame' \in {frame, AfterMenu[frame]}
      /\ UNCHANGED <<mode, turnVars, player>>
  BY DEF Layer, MayAbilityClaims, MayAbilityGivesBack, WalkEnds, MenuEntry,
     ChoiceDeclines, MenuCancelled, MenuStays, Walking, MenuAnswered, AfterMenu
<1>2. /\ frame' \in Frames
      /\ frame' \in {"layer", "input"} => frame = "layer"
  BY <1>1, AfterMenuOf
<1>3. ASSUME \/ MayAbilityClaims
             \/ MayAbilityGivesBack
      PROVE  IInv'
  <2>1. PICK p \in Players \cup {None} : setIsInterrupting(p)
    BY <1>3 DEF MayAbilityClaims, MayAbilityGivesBack
  <2>2. UNCHANGED <<mObjects, chooser>> /\ menuObject' \in Menus
    BY <1>3 DEF MayAbilityClaims, MayAbilityGivesBack
  <2>3. RestTyped'
    BY <1>1, <1>2, <2>1, <2>2, TakingDecides DEF RestTyped, turnVars
  <2>. QED
    BY <2>1, <2>2, <2>3, TakingKeepsIInv
<1>4. CASE WalkEnds \/ MenuStays
  <2>1. /\ UNCHANGED <<mObjects, interruptDecision, askIfWishesToInterrupt,
                       isInterrupting, timer>>
        /\ chooser' \in {chooser, None} /\ menuObject' \in Menus
    BY <1>4 DEF WalkEnds, MenuStays, protocol
  <2>2. RestTyped' /\ OfferStays
    BY <1>1, <1>2, <2>1 DEF RestTyped, turnVars, OfferStays, Spared
  <2>. QED
    BY <2>1, <2>2, QuietKeepsIInv
<1>5. CASE MenuEntry
  <2>1. /\ UNCHANGED <<askIfWishesToInterrupt, timer>>
        /\ isInterrupting' \in {isInterrupting, None}
        /\ chooser' \in Players \cup {None} /\ menuObject' \in {"closed", "chosen"}
        /\ \/ UNCHANGED isInterrupting
           \/ isInterrupting' = None /\ menuObject' = "closed"
              /\ frame' = AfterMenu[frame]
    BY <1>5 DEF MenuEntry, MayBlock
  <2>2. RestTyped'
    BY <1>1, <1>2, <2>1 DEF RestTyped, turnVars
  <2>3. ASSUME mObjects # <<>> => mObjects' # <<>>, Spared PROVE OfferStays
    BY <1>1, <1>2, <2>1, <2>3, AfterMenuOf DEF OfferStays
  <2>4. CASE \E c \in Players : addSpell(c)
    BY <2>2, <2>3, <2>4, PlayIsFresh, FreshKeepsIInv DEF Fresh
  <2>5. CASE UNCHANGED <<mObjects, interruptDecision>>
    BY <2>1, <2>2, <2>3, <2>5, QuietKeepsIInv DEF Spared
  <2>6. CASE UNCHANGED mObjects /\ interruptDecision' = NobodyDecided
    BY <2>2, <2>3, <2>6, ClearingKeepsIInv DEF Spared, NobodyDecided
  <2>7. CASE Fresh /\ Spared
    BY <2>2, <2>3, <2>7, FreshKeepsIInv DEF Fresh
  <2>. QED
    BY <1>5, <2>4, <2>5, <2>6, <2>7, TriggersAreFresh DEF MenuEntry, ActsAtOnce
<1>6. CASE ChoiceDeclines
  <2>1. /\ CancelFor(isInterrupting, "DONT_INTERRUPT")
        /\ UNCHANGED <<mObjects, chooser>> /\ menuObject' = "closed"
    BY <1>6 DEF ChoiceDeclines, cancelInterruptOffer
  <2>2. RestTyped' /\ OfferStays
    BY <1>1, <1>2, <2>1 DEF RestTyped, CancelFor, turnVars, OfferStays
  <2>. QED
    BY <2>1, <2>2, CancelKeepsIInv DEF CancelFor, Decisions, Declined
<1>7. CASE MenuCancelled
  <2>1. /\ menuObject' = "closed" /\ frame' = AfterMenu[frame]
        /\ UNCHANGED <<mObjects, chooser, askIfWishesToInterrupt, timer>>
    BY <1>7 DEF MenuCancelled, endOfInterruption, protocol
  <2>2. CASE endOfInterruption
    <3>1. RestTyped'
      BY <1>1, <1>2, <2>1, <2>2 DEF RestTyped, endOfInterruption, turnVars
    <3>2. Spared
      BY <2>2 DEF endOfInterruption, Spared
    <3>3. OfferStays
      BY <1>1, <1>2, <2>1, <2>2, <3>2, AfterMenuOf DEF OfferStays, endOfInterruption
    <3>. QED
      BY <2>1, <2>2, <3>1, <3>3, CancelKeepsIInv DEF endOfInterruption, Decisions
  <2>3. CASE UNCHANGED protocol
    <3>1. RestTyped' /\ OfferStays
      BY <1>1, <1>2, <2>1, <2>3 DEF RestTyped, protocol, turnVars, OfferStays, Spared
    <3>. QED
      BY <2>1, <2>3, <3>1, QuietKeepsIInv DEF protocol
  <2>. QED
    BY <1>7, <2>2, <2>3 DEF MenuCancelled
<1>. QED
  BY <1>3, <1>4, <1>5, <1>6, <1>7 DEF Layer

-----------------------------------------------------------------------------
(* What the players do, and gameStateBasedEffects.  These steps lead to     *)
(* parts of the frame in which no offer is answered.                        *)

\* An answer, or an interruption taken or ended, ends the offer.
LEMMA AnswerKeepsIInv ==
  ASSUME IInv, frame' = "effects",
         UNCHANGED <<mObjects, chooser, menuObject, mode, turnVars, player>>,
         \/ \E p \in Players \cup {None} : setIsInterrupting(p)
         \/ \E m \in Declined : cancelInterruptOffer(m)
         \/ endOfInterruption
  PROVE  IInv'
<1>. USE DEF IInv, TypeOK, Frames, OfferStays
<1>1. ASSUME NEW p \in Players \cup {None}, setIsInterrupting(p) PROVE IInv'
  <2>1. RestTyped'
    BY <1>1, TakingDecides DEF RestTyped, turnVars
  <2>. QED
    BY <1>1, <2>1, TakingKeepsIInv
<1>2. ASSUME NEW m \in Declined, CancelFor(isInterrupting, m) PROVE IInv'
  <2>1. RestTyped' /\ OfferStays
    BY <1>2 DEF RestTyped, CancelFor, turnVars
  <2>. QED
    BY <1>2, <2>1, CancelKeepsIInv DEF CancelFor, Decisions
<1>3. CASE endOfInterruption
  <2>1. RestTyped' /\ OfferStays
    BY <1>3 DEF RestTyped, endOfInterruption, turnVars
  <2>. QED
    BY <1>3, <2>1, CancelKeepsIInv DEF endOfInterruption, Decisions
<1>. QED
  BY <1>1, <1>2, <1>3 DEF cancelInterruptOffer

\* A request for the next phase.
LEMMA PhaseKeepsIInv ==
  ASSUME IInv, frame' \in {"effects", "update"}, userRequestNextGamePhase,
         UNCHANGED <<askIfWishesToInterrupt, isInterrupting, timer, menuObject, mode, player>>
  PROVE  IInv'
<1>1. RestTyped' /\ OfferStays
  BY PhaseIsFresh DEF IInv, TypeOK, RestTyped, Frames, OfferStays
<1>. QED
  BY <1>1, PhaseIsFresh, FreshKeepsIInv, QuietKeepsIInv DEF IInv

LEMMA InputKeepsIInv ==
  ASSUME IInv, Input
  PROVE  IInv'
<1>. USE DEF IInv, TypeOK
<1>1. CASE KeyInterrupt
  <2>1. askIfWishesToInterrupt \in Players
    BY <1>1 DEF KeyInterrupt, AskedByDialog
  <2>. QED
    BY <1>1, <2>1, AnswerKeepsIInv DEF KeyInterrupt, KeyRead
<1>2. ASSUME NEW m \in Declined, KeyNo(m) PROVE IInv'
  BY <1>2, AnswerKeepsIInv DEF KeyNo, KeyRead
<1>3. CASE KeyEndInterruption
  BY <1>3, AnswerKeepsIInv DEF KeyEndInterruption, KeyRead
<1>4. CASE HumanPlays
  <2>1. /\ frame' = "again" /\ isInterrupting' \in {isInterrupting, None}
        /\ menuObject' \in {menuObject, "open"}
        /\ UNCHANGED <<askIfWishesToInterrupt, timer, mode, turnVars, player>>
    BY <1>4 DEF HumanPlays, MayBlock, PutsOnStack, OpensChooser, OpensMenu, InputFrame
  <2>2. chooser' \in Players \cup {None}
    BY <1>4 DEF HumanPlays, PutsOnStack, OpensChooser, OpensMenu, currentlyActing
  <2>3. RestTyped' /\ OfferStays
    BY <2>1, <2>2 DEF RestTyped, turnVars, Frames, AfterMenu, Menus, OfferStays
  <2>4. CASE PutsOnStack(currentlyActing)
    BY <2>3, <2>4, PlayIsFresh, FreshKeepsIInv DEF PutsOnStack
  <2>5. CASE UNCHANGED <<mObjects, interruptDecision>>
    BY <2>1, <2>3, <2>5, QuietKeepsIInv
  <2>6. CASE ActsAtOnce
    BY <2>3, <2>5, <2>6, ClearingKeepsIInv DEF ActsAtOnce
  <2>. QED
    BY <1>4, <2>4, <2>5, <2>6 DEF HumanPlays, OpensChooser, OpensMenu
<1>5. CASE HumanRequestsNextPhase
  BY <1>5, PhaseKeepsIInv DEF HumanRequestsNextPhase
<1>6. CASE NoInput
  <2>1. RestTyped' /\ OfferStays
    BY <1>6 DEF NoInput, RestTyped, protocol, turnVars, Frames, AfterMenu, OfferStays
  <2>. QED
    BY <1>6, <2>1, QuietKeepsIInv DEF NoInput, protocol
<1>. QED
  BY <1>1, <1>2, <1>3, <1>4, <1>5, <1>6 DEF Input, Declined

LEMMA ActKeepsIInv ==
  ASSUME IInv, Act
  PROVE  IInv'
<1>. USE DEF IInv, TypeOK
<1>1. {"effects", "again", "menu"} \subseteq Frames
  BY DEF Frames, AfterMenu
<1>2. CASE AIWaits \/ AIIsDone
  <2>1. /\ frame' = "effects"
        /\ UNCHANGED <<mObjects, protocol, chooser, menuObject, mode, turnVars, player>>
    BY <1>2 DEF AIWaits, AIIsDone
  <2>2. RestTyped' /\ OfferStays
    BY <1>1, <2>1 DEF RestTyped, protocol, turnVars, OfferStays
  <2>. QED
    BY <2>1, <2>2, QuietKeepsIInv DEF protocol
<1>3. ASSUME UNCHANGED mObjects, TakesOffer, frame' \notin {"layer", "input"}, RestTyped'
      PROVE  IInv'
  <2>1. CASE setIsInterrupting(player)
    BY <1>3, <2>1, TakingKeepsIInv
  <2>2. CASE UNCHANGED protocol
    BY <1>3, <2>2, QuietKeepsIInv DEF protocol, OfferStays
  <2>. QED
    BY <1>3, <2>1, <2>2 DEF TakesOffer
<1>4. ASSUME TakesOffer
      PROVE  /\ askIfWishesToInterrupt' \in Players \cup {None}
             /\ isInterrupting' \in Players \cup {None} /\ timer' = timer
  BY <1>4, TakingDecides DEF TakesOffer, protocol
<1>5. CASE AIPlays
  <2>1. frame' = "again" /\ UNCHANGED <<mode, turnVars, player>>
    BY <1>5 DEF AIPlays
  <2>2. CASE AIClicks
    <3>1. RestTyped' /\ OfferStays
      BY <1>1, <2>1, <2>2 DEF AIClicks, PutsOnStack, RestTyped, turnVars, OfferStays
    <3>2. CASE PutsOnStack(player)
      BY <3>1, <3>2, PlayIsFresh, FreshKeepsIInv DEF PutsOnStack
    <3>3. CASE interruptDecision' = NobodyDecided /\ UNCHANGED mObjects
      BY <3>1, <3>3, ClearingKeepsIInv
    <3>. QED
      BY <2>2, <3>2, <3>3 DEF AIClicks
  <2>3. CASE AIPrepares
    <3>1. RestTyped'
      BY <1>1, <1>4, <2>1, <2>3 DEF AIPrepares, RestTyped, turnVars, Menus
    <3>. QED
      BY <1>3, <2>1, <2>3, <3>1 DEF AIPrepares
  <2>. QED
    BY <1>5, <2>2, <2>3 DEF AIPlays
<1>6. CASE AIHolds
  <2>1. /\ setIsInterrupting(player) /\ UNCHANGED mObjects
        /\ frame' \in {"again", "effects"}
        /\ UNCHANGED <<chooser, menuObject, mode, turnVars, player>>
    BY <1>6 DEF AIHolds
  <2>2. RestTyped'
    BY <1>1, <2>1, TakingDecides DEF RestTyped, turnVars
  <2>. QED
    BY <2>1, <2>2, TakingKeepsIInv
<1>7. CASE AIAnswersMenu
  <2>1. /\ frame' = "menu" /\ TakesOffer /\ UNCHANGED mObjects
        /\ UNCHANGED <<chooser, menuObject, mode, turnVars, player>>
    BY <1>7 DEF AIAnswersMenu
  <2>2. RestTyped'
    BY <1>1, <1>4, <2>1 DEF RestTyped, turnVars
  <2>. QED
    BY <1>3, <2>1, <2>2
<1>8. CASE AIDeclines
  BY <1>8, AnswerKeepsIInv DEF AIDeclines, Declined
<1>9. CASE AIRequestsNextPhase
  BY <1>9, PhaseKeepsIInv DEF AIRequestsNextPhase
<1>. QED
  BY <1>2, <1>5, <1>6, <1>7, <1>8, <1>9 DEF Act

LEMMA EffectsKeepsIInv ==
  ASSUME IInv, Effects
  PROVE  IInv'
<1>. USE DEF IInv, TypeOK
<1>1. CASE StateTrigger
  <2>1. /\ UNCHANGED <<askIfWishesToInterrupt, isInterrupting, timer, chooser,
                       menuObject, mode, turnVars, player, frame>>
        /\ frame # "input"
    BY <1>1 DEF StateTrigger, Walking
  <2>2. Fresh /\ Spared
    BY <1>1, PlayIsFresh DEF StateTrigger
  <2>3. RestTyped' /\ OfferStays
    BY <2>1, <2>2 DEF RestTyped, turnVars, OfferStays, Fresh
  <2>. QED
    BY <2>2, <2>3, FreshKeepsIInv
<1>2. CASE CombatStepPasses
  <2>1. Fresh
    BY <1>2, AdditionIsFresh, KindsOf DEF CombatStepPasses, AddNextCombatStep
  <2>2. RestTyped' /\ OfferStays
    BY <1>2 DEF CombatStepPasses, EffectsFrame, RestTyped, turnVars, Frames, OfferStays
  <2>. QED
    BY <2>1, <2>2, FreshKeepsIInv
<1>3. CASE PhaseSkipped
  BY <1>3, PhaseKeepsIInv DEF PhaseSkipped, EffectsFrame
<1>4. CASE FrameEnds
  <2>1. RestTyped' /\ OfferStays
    BY <1>4 DEF FrameEnds, EffectsFrame, RestTyped, turnVars, Frames, OfferStays
  <2>. QED
    BY <1>4, <2>1, QuietKeepsIInv DEF FrameEnds, EffectsFrame
<1>. QED
  BY <1>1, <1>2, <1>3, <1>4 DEF Effects

-----------------------------------------------------------------------------
(* What a player who interrupts keeps. *)

LEMMA NoResolutionUnderAHolder ==
  ASSUME TypeOK, Held
  PROVE  ~Resolving
<1>1. CASE interruptDecision[Asked(FirstAsked)] \in Declined
  BY <1>1, BothDeclined DEF Held, Declined
<1>. QED
  BY <1>1 DEF Resolving, Held

LEMMA AdditionAdds ==
  ASSUME TypeOK, NEW kind \in Kinds, NEW d, addAction(kind, d)
  PROVE  Len(mObjects') >= Len(mObjects)
BY AppendProperties, LenProperties DEF TypeOK, addAction

LEMMA PlayAdds ==
  ASSUME TypeOK, NEW c, addSpell(c) \/ addAbility(c)
  PROVE  Len(mObjects') >= Len(mObjects)
BY AdditionAdds, KindsOf DEF addSpell, addAbility

LEMMA TriggersAdd ==
  ASSUME TypeOK, TriggersAdded
  PROVE  Len(mObjects') >= Len(mObjects)
<1>1. PICK n \in Triggers : mObjects' = Triggered(mObjects, n)
  BY DEF TriggersAdded
<1>2. n \in Nat /\ mObjects \in Seq(Kinds) /\ Len(mObjects) \in Nat
  BY BoundAssumption, LenProperties DEF Triggers, TypeOK
<1>3. Len(mObjects') = Len(mObjects) + n
  BY <1>1, <1>2, TriggeredTyped
<1>. QED
  BY <1>2, <1>3

LEMMA PhaseAdds ==
  ASSUME TypeOK, userRequestNextGamePhase
  PROVE  Len(mObjects') >= Len(mObjects)
BY AdditionAdds, KindsOf, TriggersAdd
   DEF userRequestNextGamePhase, AddNextGamePhase, NextPhaseNow

LEMMA HolderStep ==
  ASSUME TypeOK, [Next]_vars, Held
  PROVE  Len(mObjects') >= Len(mObjects)
<1>1. Len(mObjects) \in Nat
  BY LenProperties DEF TypeOK
<1>2. CASE UNCHANGED mObjects
  BY <1>1, <1>2
<1>3. CASE Update
  BY <1>2, <1>3, NoResolutionUnderAHolder
     DEF Update, UpdateStack, NobodyAnswers, Offer, Hold
<1>4. CASE Layer
  BY <1>2, <1>4, PlayAdds, TriggersAdd
     DEF Layer, MayAbilityClaims, MayAbilityGivesBack, WalkEnds, MenuEntry,
         ActsAtOnce, ChoiceDeclines, MenuCancelled, MenuStays
<1>5. CASE Input
  BY <1>2, <1>5, PlayAdds, PhaseAdds
     DEF Input, KeyInterrupt, KeyNo, KeyEndInterruption, KeyRead, HumanPlays,
         HumanRequestsNextPhase, NoInput, PutsOnStack, OpensChooser, OpensMenu, ActsAtOnce
<1>6. CASE Act
  BY <1>2, <1>6, PlayAdds, PhaseAdds
     DEF Act, AIWaits, AIPlays, AIClicks, AIPrepares, AIHolds, AIAnswersMenu,
         AIDeclines, AIRequestsNextPhase, AIIsDone, PutsOnStack
<1>7. CASE Effects
  BY <1>2, <1>7, PlayAdds, PhaseAdds, AdditionAdds, KindsOf
     DEF Effects, StateTrigger, CombatStepPasses, PhaseSkipped, FrameEnds,
         AddNextCombatStep
<1>. QED
  BY <1>2, <1>3, <1>4, <1>5, <1>6, <1>7 DEF Next, vars

-----------------------------------------------------------------------------
(* The theorems. *)

LEMMA InitIInv == Init => IInv
<1>. SUFFICES ASSUME Init PROVE IInv
  OBVIOUS
<1>1. TypeOK
  BY BoundAssumption, EmptySeq DEF Init, TypeOK, Decisions, Menus, Frames
<1>. QED
  BY <1>1 DEF Init, IInv, AnswerGoesToAsked, AgreedMeansFree

LEMMA NextIInv == IInv /\ [Next]_vars => IInv'
<1>. SUFFICES ASSUME IInv, [Next]_vars PROVE IInv'
  OBVIOUS
<1>1. CASE UNCHANGED vars
  BY <1>1 DEF vars, protocol, turnVars, IInv, TypeOK, AnswerGoesToAsked, AgreedMeansFree
<1>. QED
  BY <1>1, UpdateKeepsIInv, LayerKeepsIInv, InputKeepsIInv, ActKeepsIInv,
     EffectsKeepsIInv DEF Next

\* The three invariants hold together in every reachable state.
THEOREM Inductive == Spec => []IInv
BY InitIInv, NextIInv, PTL DEF Spec

\* The state of the protocol is always well typed.
THEOREM TypeCorrect == Spec => []TypeOK
<1>1. IInv => TypeOK
  BY DEF IInv
<1>. QED
  BY <1>1, Inductive, PTL

\* An answer is charged to the player who was asked (ActionStack::Update,
\* setIsInterrupting and cancelInterruptOffer), but for a menu answered before it.
THEOREM AnswersAreCharged == Spec => []AnswerGoesToAsked
<1>1. IInv => AnswerGoesToAsked
  BY DEF IInv
<1>. QED
  BY <1>1, Inductive, PTL

\* Nobody holds an interruption once both players have declined.
THEOREM AgreementFrees == Spec => []AgreedMeansFree
<1>1. IInv => AgreedMeansFree
  BY DEF IInv
<1>. QED
  BY <1>1, Inductive, PTL

\* While a player has said that it interrupts, only an object with split second
\* leaves the stack (otherwise ActionStack::Update never reaches resolve).
THEOREM NothingResolvesUnderAHolder == Spec => HolderKeepsStack
<1>1. TypeOK /\ [Next]_vars => [Held => Len(mObjects') >= Len(mObjects)]_vars
  BY HolderStep
<1>. QED
  BY <1>1, TypeCorrect, PTL DEF Spec, HolderKeepsStack

-----------------------------------------------------------------------------
(* ActionStack implements PriorityStack: an addition is a Push, a decline,  *)
(* by its player or by the clock, a Pass, an interruption taken or ended,  *)
(* or something that happens at once, a Claim, a resolution a Resolve, and  *)
(* everything else a stutter.                                               *)

\* The players who have passed, in the abstraction.
Passed == {p \in Players : interruptDecision[p] \in Declined}

AbstractStep == [Priority!Next]_(Priority!vars)

\* The operators on sequences are those of the abstraction.
LEMMA SameOperators ==
  ASSUME NEW s, NEW t
  PROVE  /\ Priority!IsStrictPrefix(s, t) <=> IsStrictPrefix(s, t)
         /\ Priority!Last(s) = Last(s)
         /\ Priority!Front(s) = Front(s)
         /\ \A i : Priority!RemoveAt(s, i) = RemoveAt(s, i)
BY DEF Priority!IsStrictPrefix, Priority!IsPrefix, IsStrictPrefix, IsPrefix, Priority!Last, Last,
   Priority!Front, Front, Priority!RemoveAt, RemoveAt

-----------------------------------------------------------------------------
(* What the steps of the protocol are in the abstraction. *)

LEMMA StutterMaps ==
  ASSUME UNCHANGED <<mObjects, interruptDecision>>
  PROVE  AbstractStep
BY DEF AbstractStep, Priority!vars

\* At most one player's decision is a decline after an addition.
LEMMA PushMaps ==
  ASSUME IsStrictPrefix(mObjects, mObjects'), NEW d,
         interruptDecision' =
           [p \in Players |-> IF p = d THEN "DONT_INTERRUPT" ELSE "NOT_DECIDED"]
  PROVE  AbstractStep
<1>1. Passed' = {} \/ \E p \in Players : Passed' = {p}
  <2>1. \A p \in Players : p \in Passed' <=> p = d
    BY DEF Passed, Declined
  <2>2. CASE d \in Players
    BY <2>1, <2>2 DEF Passed
  <2>3. CASE d \notin Players
    BY <2>1, <2>3 DEF Passed
  <2>. QED
    BY <2>2, <2>3
<1>2. Priority!Push
  BY <1>1, SameOperators DEF Priority!Push, Passed
<1>. QED
  BY <1>2 DEF AbstractStep, Priority!Next

LEMMA AdditionMaps ==
  ASSUME TypeOK, NEW kind \in Kinds, NEW d, addAction(kind, d)
  PROVE  AbstractStep
<1>1. IsStrictPrefix(mObjects, mObjects')
  BY AppendAbove DEF addAction, TypeOK
<1>. QED
  BY <1>1, PushMaps DEF addAction

LEMMA PlayMaps ==
  ASSUME TypeOK, NEW c, addSpell(c) \/ addAbility(c)
  PROVE  AbstractStep
BY AdditionMaps, KindsOf DEF addSpell, addAbility

LEMMA TriggersMap ==
  ASSUME TypeOK, TriggersAdded
  PROVE  AbstractStep
<1>1. PICK n \in Triggers, c \in Players :
        /\ mObjects' = Triggered(mObjects, n)
        /\ IF n = 0 THEN UNCHANGED interruptDecision
           ELSE interruptDecision' =
                  [p \in Players |->
                     IF p = OwnOffer(c) THEN "DONT_INTERRUPT" ELSE "NOT_DECIDED"]
  BY DEF TriggersAdded
<1>2. n \in Nat /\ mObjects \in Seq(Kinds)
  BY BoundAssumption DEF Triggers, TypeOK
<1>3. CASE n = 0
  BY <1>1, <1>2, <1>3, TriggeredAbove, StutterMaps
<1>4. CASE n > 0
  BY <1>1, <1>2, <1>4, TriggeredAbove, PushMaps
<1>. QED
  BY <1>2, <1>3, <1>4

LEMMA PhaseMaps ==
  ASSUME TypeOK, userRequestNextGamePhase
  PROVE  AbstractStep
BY AdditionMaps, KindsOf, TriggersMap
   DEF userRequestNextGamePhase, AddNextGamePhase, NextPhaseNow

\* Nobody but player 0 and player 1 can be charged with an answer.
LEMMA CancelMaps ==
  ASSUME TypeOK, UNCHANGED mObjects, NEW p, NEW m \in Declined, CancelFor(p, m)
  PROVE  AbstractStep
<1>. DEFINE q == IdOf(p)
<1>1. q \in Players
  BY DEF IdOf
<1>2. interruptDecision' = [interruptDecision EXCEPT ![q] = m]
  BY DEF CancelFor
<1>3. \A r \in Players : interruptDecision'[r] = IF r = q THEN m ELSE interruptDecision[r]
  BY <1>2 DEF TypeOK
<1>4. Passed' = Passed \cup {q}
  BY <1>1, <1>3 DEF Passed
<1>. HIDE DEF q
<1>5. Priority!Pass(q)
  BY <1>4 DEF Priority!Pass, Passed
<1>. QED
  BY <1>1, <1>5 DEF AbstractStep, Priority!Next

LEMMA ClaimMaps ==
  ASSUME TypeOK, UNCHANGED mObjects, NEW q \in Players,
         NEW m \in {"NOT_DECIDED", "INTERRUPT"},
         interruptDecision' = [interruptDecision EXCEPT ![q] = m]
  PROVE  AbstractStep
<1>1. \A r \in Players : interruptDecision'[r] = IF r = q THEN m ELSE interruptDecision[r]
  BY DEF TypeOK
<1>2. Passed' = Passed \ {q}
  BY <1>1 DEF Passed, Declined
<1>3. Priority!Claim({q})
  BY <1>2 DEF Priority!Claim, Passed
<1>4. {q} \in SUBSET Players
  OBVIOUS
<1>. QED
  BY <1>3, <1>4 DEF AbstractStep, Priority!Next

LEMMA TakingMaps ==
  ASSUME TypeOK, UNCHANGED mObjects, NEW p, setIsInterrupting(p)
  PROVE  AbstractStep
<1>1. IdOf(p) \in Players
  BY DEF IdOf
<1>. QED
  BY <1>1, ClaimMaps, StutterMaps DEF setIsInterrupting

\* What happens at once makes both players undecided.
LEMMA AtOnceMaps ==
  ASSUME UNCHANGED mObjects, interruptDecision' = NobodyDecided
  PROVE  AbstractStep
<1>1. Passed' = {}
  BY DEF Passed, NobodyDecided, Declined
<1>2. Passed' = Passed \ Players
  BY <1>1 DEF Passed
<1>3. Priority!Claim(Players)
  BY <1>2 DEF Priority!Claim, Passed
<1>4. Players \in SUBSET Players
  OBVIOUS
<1>. QED
  BY <1>3, <1>4 DEF AbstractStep, Priority!Next

LEMMA EndMaps ==
  ASSUME TypeOK, UNCHANGED mObjects, endOfInterruption
  PROVE  AbstractStep
<1>1. IdOf(isInterrupting) \in Players
  BY DEF IdOf
<1>. QED
  BY <1>1, ClaimMaps DEF endOfInterruption

\* The newest object resolves with both passes, or cannot be answered; what
\* stays of the passes was said for everything.
LEMMA ResolveMaps ==
  ASSUME TypeOK, Resolving, resolve(ActingPlayer)
  PROVE  AbstractStep
<1>1. mObjects # <<>> /\ mObjects \in Seq(Kinds)
  BY DEF Resolving, StackWorks, TypeOK
<1>2. Passed = Players \/ Last(mObjects) \in Plays \ {"Ordinary"}
  <2>1. CASE Last(mObjects) = "SplitSecond"
    <3>1. Last(mObjects) \in Kinds
      BY <1>1, EmptySeq, ElementOfSeq, LenProperties DEF Last
    <3>. QED
      BY <2>1, <3>1 DEF Kinds, Plays
  <2>2. CASE interruptDecision[Asked(FirstAsked)] \in Declined
    BY <2>2, BothDeclined DEF Passed
  <2>. QED
    BY <2>1, <2>2 DEF Resolving
<1>3. PICK left \in Leavings, n \in Triggers, adds \in BOOLEAN :
        /\ mObjects' = Triggered(left, n)
        /\ n > 0 => adds
        /\ interruptDecision' =
             [p \in Players |->
                IF ~adds /\ interruptDecision[p] = "DONT_INTERRUPT_ALL"
                THEN "DONT_INTERRUPT_ALL" ELSE "NOT_DECIDED"]
  BY DEF resolve
<1>4. left \in Seq(Kinds) /\ n \in Nat
  BY <1>1, <1>3, LeavingsTyped, BoundAssumption DEF Triggers
<1>5. left \in Priority!Leavings
  BY <1>3, SameOperators DEF Leavings, Priority!Leavings
<1>6. CASE n = 0
  <2>1. mObjects' = left
    BY <1>3, <1>4, <1>6, TriggeredAbove
  <2>2. Passed' \subseteq Passed
    BY <1>3, <1>6 DEF Passed, Declined
  <2>. QED
    BY <1>1, <1>2, <1>5, <2>1, <2>2, SameOperators
       DEF Priority!Resolve, Passed, AbstractStep, Priority!Next
<1>7. CASE n > 0
  <2>1. IsStrictPrefix(left, mObjects')
    BY <1>3, <1>4, <1>7, TriggeredAbove
  <2>2. Passed' = {}
    BY <1>3, <1>7 DEF Passed, Declined
  <2>. QED
    BY <1>1, <1>2, <1>5, <2>1, <2>2, SameOperators
       DEF Priority!Resolve, Passed, AbstractStep, Priority!Next
<1>. QED
  BY <1>4, <1>6, <1>7

-----------------------------------------------------------------------------
(* The steps of the frame loop. *)

LEMMA UpdateMaps ==
  ASSUME TypeOK, Update
  PROVE  AbstractStep
<1>. DEFINE p == Asked(FirstAsked)
<1>1. p \in Players
  BY AskedIsPlayer
<1>2. CASE Resolving
  BY <1>2, ResolveMaps DEF Update, UpdateStack
<1>3. CASE NobodyAnswers \/ Hold(p)
  BY <1>3, StutterMaps DEF NobodyAnswers, Hold
<1>4. CASE Offer(p)
  BY <1>1, <1>4, CancelMaps, StutterMaps DEF Offer, Declined
<1>. QED
  BY <1>2, <1>3, <1>4 DEF Update, UpdateStack

LEMMA LayerMaps ==
  ASSUME TypeOK, Layer
  PROVE  AbstractStep
<1>1. CASE MayAbilityClaims \/ MayAbilityGivesBack
  BY <1>1, TakingMaps DEF MayAbilityClaims, MayAbilityGivesBack
<1>2. CASE WalkEnds \/ MenuStays
  BY <1>2, StutterMaps DEF WalkEnds, MenuStays, protocol
<1>3. CASE MenuEntry
  BY <1>3, PlayMaps, StutterMaps, AtOnceMaps, TriggersMap DEF MenuEntry, ActsAtOnce
<1>4. CASE ChoiceDeclines
  BY <1>4, CancelMaps DEF ChoiceDeclines, cancelInterruptOffer, Declined
<1>5. CASE MenuCancelled
  BY <1>5, EndMaps, StutterMaps DEF MenuCancelled, protocol
<1>. QED
  BY <1>1, <1>2, <1>3, <1>4, <1>5 DEF Layer

LEMMA InputMaps ==
  ASSUME TypeOK, Input
  PROVE  AbstractStep
<1>1. CASE KeyInterrupt
  BY <1>1, TakingMaps DEF KeyInterrupt, KeyRead
<1>2. ASSUME NEW m \in Declined, KeyNo(m) PROVE AbstractStep
  BY <1>2, CancelMaps DEF KeyNo, KeyRead, cancelInterruptOffer
<1>3. CASE KeyEndInterruption
  BY <1>3, EndMaps DEF KeyEndInterruption, KeyRead
<1>4. CASE HumanPlays
  BY <1>4, PlayMaps, StutterMaps, AtOnceMaps
     DEF HumanPlays, PutsOnStack, OpensChooser, OpensMenu, ActsAtOnce
<1>5. CASE HumanRequestsNextPhase
  BY <1>5, PhaseMaps DEF HumanRequestsNextPhase
<1>6. CASE NoInput
  BY <1>6, StutterMaps DEF NoInput, protocol
<1>. QED
  BY <1>1, <1>2, <1>3, <1>4, <1>5, <1>6 DEF Input, Declined

LEMMA ActMaps ==
  ASSUME TypeOK, Act
  PROVE  AbstractStep
<1>1. ASSUME TakesOffer, UNCHANGED mObjects PROVE AbstractStep
  BY <1>1, TakingMaps, StutterMaps DEF TakesOffer, protocol
<1>2. CASE AIWaits \/ AIIsDone
  BY <1>2, StutterMaps DEF AIWaits, AIIsDone, protocol
<1>3. CASE AIPlays
  BY <1>1, <1>3, PlayMaps, AtOnceMaps DEF AIPlays, AIClicks, AIPrepares, PutsOnStack
<1>4. CASE AIHolds
  BY <1>4, TakingMaps DEF AIHolds
<1>5. CASE AIAnswersMenu
  BY <1>1, <1>5 DEF AIAnswersMenu
<1>6. CASE AIDeclines
  BY <1>6, CancelMaps DEF AIDeclines, cancelInterruptOffer, Declined
<1>7. CASE AIRequestsNextPhase
  BY <1>7, PhaseMaps DEF AIRequestsNextPhase
<1>. QED
  BY <1>2, <1>3, <1>4, <1>5, <1>6, <1>7 DEF Act

LEMMA EffectsMap ==
  ASSUME TypeOK, Effects
  PROVE  AbstractStep
<1>1. CASE StateTrigger
  BY <1>1, PlayMaps DEF StateTrigger
<1>2. CASE CombatStepPasses
  BY <1>2, AdditionMaps, KindsOf DEF CombatStepPasses, AddNextCombatStep
<1>3. CASE PhaseSkipped
  BY <1>3, PhaseMaps DEF PhaseSkipped
<1>4. CASE FrameEnds
  BY <1>4, StutterMaps DEF FrameEnds, EffectsFrame
<1>. QED
  BY <1>1, <1>2, <1>3, <1>4 DEF Effects

LEMMA InitMaps ==
  ASSUME Init
  PROVE  Priority!Init
BY DEF Init, Priority!Init, Declined

LEMMA StepMaps ==
  ASSUME TypeOK, [Next]_vars
  PROVE  AbstractStep
<1>1. CASE UNCHANGED vars
  BY <1>1, StutterMaps DEF vars, protocol
<1>. QED
  BY <1>1, UpdateMaps, LayerMaps, InputMaps, ActMaps, EffectsMap DEF Next

\* ActionStack.cpp keeps the promise of PriorityStack: nothing resolves before
\* both players have passed on it, and no pass outlives an addition.
THEOREM StackIsImplemented == Spec => ImplementsPriorityStack
<1>1. Init => Priority!Init
  BY InitMaps
<1>2. TypeOK /\ [Next]_vars => [Priority!Next]_(Priority!vars)
  BY StepMaps DEF AbstractStep
<1>. QED
  BY <1>1, <1>2, TypeCorrect, PTL DEF Spec, ImplementsPriorityStack, Priority!Spec
=============================================================================
