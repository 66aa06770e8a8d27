------------------------- MODULE ActionLayer_proofs -------------------------
(***************************************************************************)
(* Proofs about ActionLayer, for any abilities, cards and bounds: which    *)
(* ability the clicks go to.  The calls below a click work on a record of  *)
(* the state, so the lemmas are about records.                             *)
(***************************************************************************)
EXTENDS ActionLayer, TLAPS

(* What of a record the lemmas are about. *)
Fields(d) == {"waiting", "current", "asserted"} \subseteq DOMAIN d
Good(d)   == ~d.asserted => d.waiting = {d.current} \ {None}
(* d is still good if c was, and raises the assertion only if c had something current. *)
Keeps(c, d) ==
  /\ Fields(d) /\ (Good(c) => Good(d))
  /\ d.asserted /\ ~c.asserted => c.current # None
(* d has the same waiting ability as c. *)
Same(c, d) ==
  Fields(d) /\ d.waiting = c.waiting /\ d.current = c.current /\ d.asserted = c.asserted

LEMMA ChoosersAreSome == None \notin Choosers
  BY CardAssumption DEF Choosers, Ids, Selves, Self, CloneIds, Abilities

LEMMA ActivatesSame ==
  ASSUME NEW d, Fields(d), NEW x
  PROVE  Same(d, Activates(d, x))
<1> DEFINE e == [d EXCEPT !.inPlay = @ \ {d.payment[x[1]]}, !.payment = [@ EXCEPT ![x[1]] = None]]
<1>1. Same(d, [d EXCEPT !.owed = x])
  BY DEF Same, Fields
<1>2. Same(d, e) /\ Same(d, d)
  BY DEF Same, Fields
<1>3. ASSUME NEW p, Same(d, p)
      PROVE  /\ Same(d, [p EXCEPT !.stuff = TRUE])
             /\ Same(d, [p EXCEPT !.stack = Append(@, x), !.stuff = TRUE])
  BY <1>3 DEF Same, Fields
<1> QED
  BY <1>1, <1>2, <1>3 DEF Activates
LEMMA SameKeeps ==
  ASSUME NEW c, NEW d, Same(c, d)
  PROVE  Keeps(c, d)
  BY DEF Same, Keeps, Good

LEMMA KeepsOn ==
  ASSUME NEW c, NEW d, NEW e, Same(c, d), Keeps(d, e)
  PROVE  Keeps(c, e)
  BY DEF Same, Keeps, Good

LEMMA KeepsStuff ==
  ASSUME NEW c, NEW d, NEW b, Keeps(c, d)
  PROVE  Keeps(c, [d EXCEPT !.stuff = b])
  BY DEF Keeps, Good, Fields

LEMMA StartsKeeps ==
  ASSUME NEW d, Fields(d), NEW x \in Choosers
  PROVE  Keeps(d, StartsWaiting(d, x))
  BY ChoosersAreSome DEF Keeps, Good, Fields, StartsWaiting

LEMMA StopsKeeps ==
  ASSUME NEW d, Fields(d), NEW x \in d.waiting
  PROVE  Keeps(d, StopsWaiting(d, x))
  BY DEF Keeps, Good, Fields, StopsWaiting

(* A click that an ability answers leaves one ability waiting. *)
LEMMA ClickKeeps ==
  ASSUME NEW d, Fields(d), NEW x, NEW card
  PROVE  Keeps(d, ReactToClick(d, x, card))
<1>1. CASE x \notin Choosers
  BY <1>1, ActivatesSame, SameKeeps DEF ReactToClick
<1>2. ASSUME x \in Choosers, x \notin d.waiting
      PROVE  Keeps(d, TargetsClick(d, x, card))
  <2>1. Same(d, [d EXCEPT !.owed = x])
    BY DEF Same, Fields
  <2>2. Keeps(d, [StartsWaiting(d, x) EXCEPT !.stuff = TRUE])
    BY <1>2, StartsKeeps, KeepsStuff
  <2> QED
    BY <1>2, <2>1, <2>2, SameKeeps DEF TargetsClick
<1>3. ASSUME x \in d.waiting, card = Source(x), Ready(x, d.targets[x])
      PROVE  Keeps(d, TargetsClick(d, x, card))
  <2> DEFINE s == StopsWaiting(d, x)
  <2>1. Keeps(d, s)
    BY <1>3, StopsKeeps
  <2>2. Same(s, Activates(s, x))
    BY <2>1, ActivatesSame DEF Keeps
  <2>3. Keeps(d, Activates(s, x))
    BY <2>1, <2>2 DEF Keeps, Same, Good
  <2> QED
    BY <1>3, <2>3 DEF TargetsClick
<1>4. ASSUME x \in d.waiting, ~(card = Source(x) /\ Ready(x, d.targets[x]))
      PROVE  Keeps(d, TargetsClick(d, x, card))
  <2> DEFINE t == toggleTarget(x, d.targets[x], card)
             e == [d EXCEPT !.targets = [@ EXCEPT ![x] = t], !.stuff = TRUE]
  <2>1. Same(d, e)
    BY DEF Same, Fields
  <2>2. Same(e, Activates(e, x))
    BY <2>1, ActivatesSame DEF Same
  <2>3. Same(d, Activates(e, x))
    BY <2>1, <2>2 DEF Same
  <2>4. Keeps(d, [Activates(e, x) EXCEPT !.stuff = d.stuff])
    BY <2>3, SameKeeps, KeepsStuff
  <2>5. Keeps(d, StopsWaiting(Activates(e, x), x))
    <3>1. Keeps(Activates(e, x), StopsWaiting(Activates(e, x), x))
      BY <1>4, <2>3, StopsKeeps DEF Same
    <3> QED
      BY <2>3, <3>1, KeepsOn
  <2>6. Keeps(d, e)
    BY <2>1, SameKeeps
  <2> HIDE DEF t, e
  <2>7. TargetsClick(d, x, card) =
          IF card \notin d.targets[x] /\ Full(x, t)
          THEN IF Owes(d, x) THEN [Activates(e, x) EXCEPT !.stuff = d.stuff]
               ELSE StopsWaiting(Activates(e, x), x)
          ELSE e
    BY <1>4 DEF TargetsClick, t, e
  <2> QED
    BY <2>4, <2>5, <2>6, <2>7
<1> QED
  BY <1>1, <1>2, <1>3, <1>4 DEF ReactToClick

-----------------------------------------------------------------------------
(* From the records to the state. *)

LEMMA ClickedFields == Fields(Clicked) /\ Clicked.current = currentWaitingAction
                       /\ Clicked.waiting = waiting /\ Clicked.asserted = asserted
  BY DEF Fields, Clicked

LEMMA BecomesKeeps ==
  ASSUME NEW d, Keeps(Clicked, d), Becomes(d), WaitingIsCurrent
  PROVE  /\ WaitingIsCurrent'
         /\ asserted' /\ ~asserted => currentWaitingAction # None
<1>1. Good(Clicked)
  BY ClickedFields DEF Good, WaitingIsCurrent
<1>2. Good(d) /\ (d.asserted /\ ~asserted => currentWaitingAction # None)
  BY <1>1, ClickedFields DEF Keeps
<1> QED
  BY <1>2 DEF Becomes, Good, WaitingIsCurrent

LEMMA WaitsInList ==
  ASSUME WaitingIsCurrent, ~asserted
  PROVE  IF TargetChoosing THEN currentWaitingAction \in waiting ELSE currentWaitingAction = None
  BY DEF WaitingIsCurrent, TargetChoosing, isWaitingForAnswer

LEMMA KeepsOwed ==
  ASSUME NEW c, NEW d, Keeps(c, d)
  PROVE  Keeps(c, [d EXCEPT !.owed = None])
  BY DEF Keeps, Good, Fields

(* What is chosen in the menu. *)
LEMMA EntryKeeps ==
  ASSUME NEW x
  PROVE  Keeps(Clicked, [EntryReacts(x) EXCEPT !.stuff = FALSE])
<1>1. Keeps(Clicked, ReactToClick(Clicked, x, menuObject))
  BY ClickedFields, ClickKeeps
<1>2. ASSUME NEW m, NEW card
      PROVE  Keeps(Clicked, UseMay(Clicked, m, card))
  <2> DEFINE y == Clone(m, FreshClone(m))
             d == [Clicked EXCEPT !.objs   = Append(@, y),
                                  !.forced = @ \cup {y},
                                  !.clone  = [@ EXCEPT ![m] = y[2]]]
  <2>1. Same(Clicked, d)
    BY ClickedFields DEF Same, Fields, Clicked
  <2>2. Keeps(d, ReactToClick(d, y, card))
    BY <2>1, ClickKeeps DEF Same
  <2> HIDE DEF y, d
  <2>3. Keeps(Clicked, ReactToClick(d, y, card))
    BY <2>1, <2>2, KeepsOn
  <2>4. Keeps(Clicked, [ReactToClick(d, y, card) EXCEPT !.stuff = Clicked.stuff])
    BY <2>3, KeepsStuff
  <2>5. UseMay(Clicked, m, card) = [ReactToClick(d, y, card) EXCEPT !.stuff = Clicked.stuff]
    BY DEF UseMay, y, d
  <2> QED
    BY <2>4, <2>5
<1>3. Keeps(Clicked, EntryReacts(x))
  BY <1>1, <1>2 DEF EntryReacts
<1> QED
  BY <1>3, KeepsStuff

(* What is clicked while a payment is owed. *)
LEMMA PaymentKeeps ==
  ASSUME NEW card
  PROVE  Keeps(Clicked, WaitForExtraPayment(Clicked, card))
<1> DEFINE p == tryToSetPayment(Clicked, card)
<1>1. Same(Clicked, p)
  BY ClickedFields DEF Same, Fields, tryToSetPayment, Clicked
<1>2. Keeps(p, ReactToClick(p, p.owed, Source(p.owed)))
  BY <1>1, ClickKeeps DEF Same
<1> HIDE DEF p
<1>3. Keeps(Clicked, [ReactToClick(p, p.owed, Source(p.owed)) EXCEPT !.owed = None])
  BY <1>1, <1>2, KeepsOn, KeepsOwed
<1>4. Keeps(Clicked, p)
  BY <1>1, SameKeeps
<1>5. WaitForExtraPayment(Clicked, card) =
        IF p.payment[p.owed[1]] = None THEN p
        ELSE [ReactToClick(p, p.owed, Source(p.owed)) EXCEPT !.owed = None]
  BY DEF WaitForExtraPayment, p
<1> QED
  BY <1>3, <1>4, <1>5

(* A click that goes to the waiting ability does not start another. *)
LEMMA WaitingDoesNotStart ==
  ASSUME NEW d, Fields(d), NEW x \in d.waiting, NEW card
  PROVE  ReactToClick(d, x, card).asserted = d.asserted
<1> DEFINE t == toggleTarget(x, d.targets[x], card)
           e == [d EXCEPT !.targets = [@ EXCEPT ![x] = t], !.stuff = TRUE]
           s == StopsWaiting(d, x)
<1>1. Fields(s) /\ s.asserted = d.asserted
  BY DEF StopsWaiting, Fields
<1>2. Activates(s, x).asserted = d.asserted
  BY <1>1, ActivatesSame DEF Same
<1>3. Same(d, e)
  BY DEF Same, Fields
<1>4. Same(e, Activates(e, x))
  BY <1>3, ActivatesSame DEF Same
<1>5. [Activates(e, x) EXCEPT !.stuff = d.stuff].asserted = d.asserted
  BY <1>3, <1>4 DEF Same, Fields
<1>6. StopsWaiting(Activates(e, x), x).asserted = d.asserted
  BY <1>3, <1>4 DEF Same, Fields, StopsWaiting
<1>7. e.asserted = d.asserted
  BY <1>3 DEF Same
<1> HIDE DEF t, e, s
<1>8. TargetsClick(d, x, card) =
        IF card = Source(x) /\ Ready(x, d.targets[x]) THEN Activates(s, x)
        ELSE IF card \notin d.targets[x] /\ Full(x, t)
        THEN IF Owes(d, x) THEN [Activates(e, x) EXCEPT !.stuff = d.stuff]
             ELSE StopsWaiting(Activates(e, x), x)
        ELSE e
  BY DEF TargetsClick, t, e, s
<1>9. Activates(d, x).asserted = d.asserted
  BY ActivatesSame DEF Same
<1> QED
  BY <1>2, <1>5, <1>6, <1>7, <1>8, <1>9 DEF ReactToClick

-----------------------------------------------------------------------------
(* The actions.  What the second property says of a step. *)

Overlap == asserted' /\ ~asserted => menuObject # None \/ mExtraPayment # None
Quiet   == UNCHANGED <<waiting, currentWaitingAction, asserted>>

LEMMA QuietKeeps ==
  ASSUME WaitingIsCurrent, Quiet
  PROVE  WaitingIsCurrent' /\ Overlap
  BY DEF WaitingIsCurrent, Quiet, Overlap

LEMMA FrameKeeps ==
  ASSUME WaitingIsCurrent, ~asserted, Frame
  PROVE  WaitingIsCurrent' /\ Overlap
<1>1. CASE StackUpdate
  BY <1>1, QuietKeeps DEF StackUpdate, Quiet
<1>2. CASE Walk
  BY <1>2, QuietKeeps DEF Walk, Quiet
<1>3. CASE UpdateAll
  <2>1. PICK forced : ForcedChoice(forced)
    BY <1>3 DEF UpdateAll
  <2>2. asserted' = asserted
    BY <1>3 DEF UpdateAll
  <2>3. CASE Hopeless(forced)
    BY <2>1, <2>2, <2>3 DEF ForcedChoice, WaitingIsCurrent, Overlap
  <2>4. CASE ~Hopeless(forced)
    BY <2>1, <2>2, <2>4, QuietKeeps DEF ForcedChoice, Quiet
  <2> QED
    BY <2>3, <2>4
<1>4. CASE UpdateMenu
  <2>1. menuObject # None
    BY <1>4 DEF UpdateMenu
  <2>2. ASSUME NEW i \in menu, ChooseEntry(i)
        PROVE  WaitingIsCurrent'
    <3>1. Keeps(Clicked, [Clicked EXCEPT !.stuff = FALSE])
      BY ClickedFields, KeepsStuff DEF Keeps, Good
    <3>2. PICK d : Keeps(Clicked, d) /\ Becomes(d)
      BY <2>2, <3>1, EntryKeeps DEF ChooseEntry
    <3> QED
      BY <3>2, BecomesKeeps
  <2>3. ASSUME Becomes([Clicked EXCEPT !.stuff = FALSE])
        PROVE  WaitingIsCurrent'
    <3>1. Keeps(Clicked, [Clicked EXCEPT !.stuff = FALSE])
      BY ClickedFields, KeepsStuff DEF Keeps, Good
    <3> QED
      BY <2>3, <3>1, BecomesKeeps
  <2> QED
    BY <1>4, <2>1, <2>2, <2>3 DEF UpdateMenu, CancelMenu, Overlap
<1>5. CASE GameStateBasedEffects
  BY <1>5, QuietKeeps DEF GameStateBasedEffects, Quiet
<1> QED
  BY <1>1, <1>2, <1>3, <1>4, <1>5 DEF Frame

LEMMA CardClickKeeps ==
  ASSUME WaitingIsCurrent, ~asserted, NEW card, CardClick(card)
  PROVE  WaitingIsCurrent' /\ Overlap
<1>1. CASE mExtraPayment # None
  <2>1. Becomes(WaitForExtraPayment(Clicked, card))
    BY <1>1 DEF CardClick
  <2> QED
    BY <1>1, <2>1, PaymentKeeps, BecomesKeeps DEF Overlap
<1>2. CASE mExtraPayment = None /\ TargetChoosing
  <2> DEFINE d == ReactToClick(Clicked, currentWaitingAction, card)
  <2>1. Becomes(d)
    BY <1>2 DEF CardClick
  <2>2. Keeps(Clicked, d)
    BY ClickedFields, ClickKeeps
  <2>3. currentWaitingAction \in Clicked.waiting
    BY <1>2, WaitsInList, ClickedFields
  <2>4. d.asserted = Clicked.asserted
    BY <2>3, ClickedFields, WaitingDoesNotStart
  <2> HIDE DEF d
  <2>5. asserted' = asserted
    BY <2>1, <2>4, ClickedFields DEF Becomes
  <2> QED
    BY <2>1, <2>2, <2>5, BecomesKeeps DEF Overlap
<1>3. CASE mExtraPayment = None /\ ~TargetChoosing
  <2>1. currentWaitingAction = None
    BY <1>3, WaitsInList
  <2>2. Keeps(Clicked, Clicked)
    BY ClickedFields DEF Keeps
  <2>3. PICK d : Keeps(Clicked, d) /\ Becomes(d)
    <3>1. ASSUME NEW x PROVE Keeps(Clicked, ReactToClick(Clicked, x, card))
      BY ClickedFields, ClickKeeps
    <3> QED
      BY <1>3, <2>2, <3>1 DEF CardClick
  <2> QED
    BY <2>1, <2>3, BecomesKeeps DEF Overlap
<1> QED
  BY <1>1, <1>2, <1>3

LEMMA InputKeeps ==
  ASSUME WaitingIsCurrent, ~asserted, Input
  PROVE  WaitingIsCurrent' /\ Overlap
<1>1. CASE SecondaryKey
  <2>1. Becomes(Clicked) => Quiet
    BY DEF Becomes, Clicked, Quiet
  <2>2. Becomes([Clicked EXCEPT !.owed = None]) => Quiet
    BY DEF Becomes, Clicked, Quiet
  <2>3. Becomes(Cancelled(Clicked)) => WaitingIsCurrent' /\ Overlap
    <3>1. CASE TargetChoosing /\ ~(cantCancel /\ ValidTargets # {})
      <4> DEFINE d == StopsWaiting(Clicked, currentWaitingAction)
      <4>1. Cancelled(Clicked) = d
        BY <3>1 DEF Cancelled
      <4>2. Keeps(Clicked, d)
        BY <3>1, WaitsInList, ClickedFields, StopsKeeps
      <4>3. d.asserted = asserted
        BY DEF StopsWaiting, Clicked
      <4> HIDE DEF d
      <4>4. Becomes(d) => asserted' = asserted
        BY <4>3 DEF Becomes
      <4> QED
        BY <4>1, <4>2, <4>4, BecomesKeeps DEF Overlap
    <3>2. CASE ~(TargetChoosing /\ ~(cantCancel /\ ValidTargets # {}))
      BY <2>1, <3>2, QuietKeeps DEF Cancelled
    <3> QED
      BY <3>1, <3>2
  <2> QED
    BY <1>1, <2>1, <2>2, <2>3, QuietKeeps DEF SecondaryKey
<1>2. CASE RequestNextPhase
  BY <1>2, QuietKeeps DEF RequestNextPhase, choice, Quiet
<1>3. CASE NoInput
  BY <1>3, QuietKeeps DEF NoInput, choice, Quiet
<1>4. ASSUME NEW card, CardClick(card)
      PROVE  WaitingIsCurrent' /\ Overlap
  BY <1>4, CardClickKeeps
<1> QED
  BY <1>1, <1>2, <1>3, <1>4 DEF Input

(* The invariant is inductive as it stands. *)
LEMMA NextKeeps ==
  ASSUME WaitingIsCurrent, [Next]_vars
  PROVE  WaitingIsCurrent' /\ Overlap
<1>1. CASE UNCHANGED vars
  BY <1>1, QuietKeeps DEF vars, choice, control, Quiet
<1>2. CASE Abort
  BY <1>2, QuietKeeps DEF Abort, vars, choice, control, Quiet
<1>3. CASE ~asserted /\ (Frame \/ Input)
  BY <1>3, FrameKeeps, InputKeeps
<1> QED
  BY <1>1, <1>2, <1>3 DEF Next

(***************************************************************************)
(* One ability waits for an answer, and it is the one that the clicks go   *)
(* to (setCurrentWaitingAction and waitingForAnswer agree), until the      *)
(* assertion fails; whatever abilities, cards and menus there are.         *)
(***************************************************************************)
THEOREM OneWaits == Spec => []WaitingIsCurrent
<1>1. Init => WaitingIsCurrent
  BY DEF Init, WaitingIsCurrent
<1>2. WaitingIsCurrent /\ [Next]_vars => WaitingIsCurrent'
  BY NextKeeps
<1> QED
  BY <1>1, <1>2, PTL DEF Spec

(***************************************************************************)
(* The assertion of setCurrentWaitingAction only fails when something is   *)
(* chosen beside an open menu or an owed payment.                          *)
(***************************************************************************)
THEOREM ClicksDoNotOverlap == Spec => OverlapNeedsMenu
<1>1. WaitingIsCurrent /\ [Next]_vars => [Overlap]_vars
  BY NextKeeps
<1> QED
  BY <1>1, OneWaits, PTL DEF Spec, OverlapNeedsMenu, Overlap
=============================================================================
