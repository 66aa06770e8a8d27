---------------------------- MODULE TurnFlow_proofs ----------------------------
(***************************************************************************)
(* Proofs about module TurnFlow, for any creatures and for any cards that  *)
(* give combats and turns or make a player skip phases, as long as no      *)
(* phase that is skipped is one in which combat damage is prepared, dealt  *)
(* or done with. *)
(*                                                                         *)
(* The inductive invariant says which calls and events can be under way    *)
(* together, and in each such situation what phase the ring is on, which   *)
(* combat step may have been reached, and how much damage has been dealt. *)
(*                                                                         *)
(* A second one, on top of it, is about the order of the turn: what has    *)
(* been put into the list, where it has been put, and that the ring is on  *)
(* the phase the game has entered. *)
(*                                                                         *)
(* A third is about the combats that abilities still owe to a player, and  *)
(* when they will be put into the list. *)
(***************************************************************************)
EXTENDS TurnFlow, TLAPS, WellFoundedInduction, SequenceTheorems, FiniteSetTheorems

\* The phases that lead on from the blockers to the end of combat.
Kept == {"COMBATBLOCKERS", "COMBATDAMAGE", "COMBATEND", "AFTER_EOT"}

\* What the cards that make a player skip the untap, upkeep or draw step do,
\* and those that skip main phases or the declaration of attackers would.
SkipsSpareCombat == \A ids \in Skips : \A i \in DOMAIN ids : ids[i] \notin Kept

-----------------------------------------------------------------------------
(* The ring. *)

\* What can come behind a phase, in whatever a turn is made into.
After(id) ==
  CASE id = "BEFORE_BEGIN"    -> {"UNTAP", "UPKEEP", "DRAW", "FIRSTMAIN", "COMBATBEGIN",
                                  "COMBATATTACKERS", "COMBATBLOCKERS"}
    [] id = "UNTAP"           -> {"UPKEEP", "DRAW", "FIRSTMAIN", "COMBATBEGIN",
                                  "COMBATATTACKERS", "COMBATBLOCKERS"}
    [] id = "UPKEEP"          -> {"DRAW", "FIRSTMAIN", "COMBATBEGIN", "COMBATATTACKERS",
                                  "COMBATBLOCKERS"}
    [] id = "DRAW"            -> {"FIRSTMAIN", "COMBATBEGIN", "COMBATATTACKERS",
                                  "COMBATBLOCKERS"}
    [] id = "FIRSTMAIN"       -> {"COMBATBEGIN", "COMBATATTACKERS", "COMBATBLOCKERS"}
    [] id = "COMBATBEGIN"     -> {"COMBATATTACKERS", "COMBATBLOCKERS"}
    [] id = "COMBATATTACKERS" -> {"COMBATBLOCKERS"}
    [] id = "COMBATBLOCKERS"  -> {"COMBATDAMAGE"}
    [] id = "COMBATDAMAGE"    -> {"COMBATEND"}
    [] id = "COMBATEND"       -> {"COMBATBEGIN", "COMBATATTACKERS", "COMBATBLOCKERS",
                                  "SECONDMAIN", "ENDOFTURN", "CLEANUP", "AFTER_EOT"}
    [] id = "SECONDMAIN"      -> {"COMBATBEGIN", "COMBATATTACKERS", "COMBATBLOCKERS",
                                  "ENDOFTURN", "CLEANUP", "AFTER_EOT"}
    [] id = "ENDOFTURN"       -> {"CLEANUP", "AFTER_EOT"}
    [] id = "CLEANUP"         -> {"AFTER_EOT"}
    [] OTHER                  -> {}

Follows(t) == \A i \in 1..(Len(t) - 1) : t[i + 1].id \in After(t[i].id)

Chained(t) ==
  /\ t \in Seq(Phases) /\ Len(t) > 0
  /\ t[1].id \notin {"COMBATDAMAGE", "COMBATEND"}
  /\ t[Len(t)].id = "AFTER_EOT"
  /\ Follows(t)

Sparing ==
  {a \in Alterations : IF a.adding THEN a.id = "COMBATEND" ELSE a.id \notin Kept}

-----------------------------------------------------------------------------
(* The damage. *)

Strikers == FirstStrike \cup DoubleStrike

Unhindered(a) == a \notin blocked \/ BlockersOf(a) # {} \/ a \in Trample

NoneDealt == \A c \in Creatures : hits[c] = 0

\* The first strikers have dealt their damage, and nobody else.
FirstDealt ==
  /\ \A c \in Creatures : hits[c] = 0 \/ (hits[c] = 1 /\ c \in Strikers)
  /\ \A a \in attackers : (a \in Strikers /\ Unhindered(a)) => hits[a] = 1
  /\ \A b \in Blockers : (blocking[b] # Nothing /\ b \in Strikers) => hits[b] = 1

AllDealt ==
  /\ DamageOnce
  /\ \A a \in attackers : Unhindered(a) => hits[a] = Strokes(a)
  /\ \A b \in Blockers : blocking[b] # Nothing => hits[b] = Strokes(b)

\* The damage of the second step is on the attackers.
OnAttackers ==
  \A b \in Blockers :
    /\ assigned[b] # Nothing => Strikes(b, "DAMAGE")
    /\ (blocking[b] # Nothing /\ Strikes(b, "DAMAGE")) => assigned[b] = blocking[b]

\* What has been dealt in this phase, at this step; told is whether the event
\* of the step has been answered.
Tally(told) ==
  /\ currentGamePhase \notin {"COMBATBLOCKERS", "COMBATDAMAGE", "COMBATEND"} => NoneDealt
  /\ currentGamePhase = "COMBATEND" => AllDealt
  /\ currentGamePhase = "COMBATBLOCKERS" /\ combatStep = "BLOCKERS" => NoneDealt
  /\ currentGamePhase = "COMBATDAMAGE" /\ combatStep = "BLOCKERS" => AllDealt
  /\ currentGamePhase \in {"COMBATBLOCKERS", "COMBATDAMAGE"} =>
       /\ combatStep \in {"TRIGGERS", "ORDER", "FIRST_STRIKE"} => NoneDealt
       /\ combatStep = "END_FIRST_STRIKE" => IF told THEN FirstDealt ELSE NoneDealt
       /\ combatStep = "DAMAGE" => FirstDealt /\ (told => OnAttackers)
       /\ combatStep = "END_DAMAGE" => IF told THEN AllDealt ELSE FirstDealt /\ OnAttackers

-----------------------------------------------------------------------------
(* What can be under way. *)

Land(nested, from) == [op |-> "landed", nested |-> nested, from |-> from]
Arrive(nested, skip) == [op |-> "arrive", nested |-> nested, skip |-> skip]

IsMove(call, nested) ==
  /\ call.op = "move" /\ call.nested = nested /\ call.from \in PhaseIds
  /\ call.turnSteps \in Nat /\ call.notEnd \in BOOLEAN

IsPreChange(event) ==
  /\ event.type = "PhasePreChange"
  /\ event.to \in PhaseIds /\ event.heard \in Nat /\ "heard" \in DOMAIN event

\* A change out of any phase but the declaration of attackers.
IsChange(event) ==
  /\ event.type = "PhaseChange" /\ event.from \in PhaseIds \ {"COMBATATTACKERS"}
  /\ event.to \in PhaseIds

StepChange == [type |-> "CombatStepChange", step |-> combatStep]

NoScreen == cursor_pos = "NONE"

\* The step the game can be in, when an event of the phase has been answered.
StepFits ==
  combatStep \in CASE currentGamePhase = "COMBATBLOCKERS" ->
                      {"BLOCKERS", "TRIGGERS", "ORDER", "END_FIRST_STRIKE"}
                  [] currentGamePhase = "COMBATDAMAGE" ->
                      {"FIRST_STRIKE", "END_FIRST_STRIKE", "DAMAGE", "END_DAMAGE"}
                  [] OTHER -> {"BLOCKERS"}

ScreenFits == cursor_pos # "NONE" => step = combatStep /\ step \notin {"BLOCKERS", "TRIGGERS"}

\* Without a player's assignment first strikers are looked at in their step.
StrikersGone ==
  (currentGamePhase = "COMBATBLOCKERS" /\ combatStep \in {"END_FIRST_STRIKE", "DAMAGE"}) =>
    FirstStrikers = {}

\* An extra combat may have put the cursor on its first phase already.
InPlace ==
  \/ currentPhase = currentGamePhase
  \/ /\ currentPhase = "COMBATBEGIN"
     /\ currentGamePhase \notin {"COMBATBLOCKERS", "COMBATDAMAGE"}
     /\ \E k \in 1..current : turn[k].id = currentGamePhase

Settled == StepFits /\ ScreenFits /\ StrikersGone /\ InPlace /\ Tally(TRUE)

CallsOfSettled ==
  {<<>>, <<Call("update", FALSE)>>, <<Call("nextGamePhase", FALSE)>>, NextGamePhaseCalls}

Resting == Settled /\ eventsQueue = <<>> /\ calls \in CallsOfSettled

-----------------------------------------------------------------------------
(* From one phase to the next, at a player's request. *)

\* The phase the game is in may be left.
Departs ==
  /\ combatStep \in CASE currentGamePhase = "COMBATBLOCKERS" ->
                         {"ORDER", "FIRST_STRIKE", "END_FIRST_STRIKE", "DAMAGE"}
                     [] currentGamePhase = "COMBATDAMAGE" -> {"BLOCKERS", "END_DAMAGE"}
                     [] OTHER -> {"BLOCKERS"}
  /\ currentGamePhase \notin {"COMBATBLOCKERS", "COMBATDAMAGE"} => NoScreen
  /\ Tally(TRUE)

\* The phase that is left behind is the one the game is in, unless an extra
\* combat has been given that puts the cursor elsewhere.
Origin(id) ==
  \/ id = currentGamePhase
  \/ /\ combatStep = "BLOCKERS" /\ currentGamePhase # "COMBATBLOCKERS"
     /\ id \notin {"COMBATATTACKERS", "COMBATBLOCKERS", "COMBATDAMAGE"}

\* No attackers: on to the end of combat.
Skipping ==
  /\ currentGamePhase = "COMBATATTACKERS" /\ attackers = {}
  /\ combatStep = "BLOCKERS" /\ NoScreen /\ NoneDealt

Forward == Call("forward", FALSE)
ToEnd == Arrive(FALSE, TRUE)

Leaving ==
  \E from \in PhaseIds :
    /\ calls = <<Forward, Land(FALSE, from)>> /\ eventsQueue = <<>>
    /\ Departs /\ Origin(currentPhase)
    /\ from = "COMBATATTACKERS" => currentPhase = "COMBATATTACKERS"

SkipsBlockers ==
  /\ calls = <<Forward, Forward, ToEnd>> /\ eventsQueue = <<>>
  /\ Skipping /\ currentPhase = "COMBATBLOCKERS"

\* Where the ring is put back to if its list has changed.
Here(call) == IF call.notEnd THEN current - 1 ELSE current

\* What a warning is about, here being the phase behind.
Warns(event, call) ==
  /\ IsPreChange(event)
  /\ IF call.notEnd
     THEN \/ event.to \in After(turn[Here(call)].id)
          \/ event.to = "COMBATEND" /\ turn[Here(call)].id = "COMBATEND"
     ELSE event.to = "AFTER_EOT"
  /\ event.to = "COMBATEND" => \E k \in 1..current : turn[k].id = "COMBATEND"

Heading(call) ==
  /\ IsMove(call, FALSE)
  /\ IF call.notEnd THEN current > 1 ELSE current = Len(turn)
  /\ call.from = "COMBATATTACKERS" => turn[Here(call)].id = "COMBATATTACKERS"
  /\ \/ eventsQueue = <<>>
     \/ /\ eventsQueue # <<>> /\ eventsQueue = <<eventsQueue[1]>>
        /\ Warns(eventsQueue[1], call)

Warned ==
  /\ calls # <<>>
  /\ \E from \in PhaseIds, m \in {calls[1]} :
       /\ calls = <<m, Land(FALSE, from)>> /\ Heading(m)
       /\ Departs /\ Origin(turn[Here(m)].id)
       /\ from = "COMBATATTACKERS" => turn[Here(m)].id = "COMBATATTACKERS"

SkipsBlockersWarned ==
  /\ calls # <<>>
  /\ \E m \in {calls[1]} :
       /\ calls = <<m, Forward, ToEnd>> /\ Heading(m)
       /\ Skipping /\ turn[Here(m)].id = "COMBATBLOCKERS"

SkipsDamageWarned ==
  /\ calls # <<>>
  /\ \E m \in {calls[1]} :
       /\ calls = <<m, ToEnd>> /\ Heading(m)
       /\ Skipping /\ turn[Here(m)].id \in {"COMBATDAMAGE", "COMBATEND"}

\* The phase the ring has come to can be entered from where the game is.
Lands ==
  /\ currentPhase = "COMBATDAMAGE" => currentGamePhase = "COMBATBLOCKERS"
  /\ currentPhase = "COMBATEND" => currentGamePhase = "COMBATDAMAGE"
  /\ currentPhase \notin {"COMBATDAMAGE", "COMBATEND"} => combatStep = "BLOCKERS"

\* A change that is still to be heard, or else has taken the screen away.
Changes ==
  \/ /\ eventsQueue = <<>>
     /\ currentPhase # "COMBATDAMAGE" => NoScreen
  \/ /\ eventsQueue # <<>> /\ eventsQueue = <<eventsQueue[1]>>
     /\ eventsQueue[1].type = "PhaseChange" /\ eventsQueue[1].to = currentPhase
     /\ eventsQueue[1].from = "COMBATATTACKERS" => currentGamePhase = "COMBATATTACKERS"

Landed ==
  \E from \in PhaseIds :
    /\ calls = <<Land(FALSE, from)>> /\ Changes /\ Departs /\ Lands
    /\ from = "COMBATATTACKERS" =>
         currentGamePhase = "COMBATATTACKERS" /\ currentPhase = "COMBATBLOCKERS"

SkipsChanges ==
  \/ eventsQueue = <<>>
  \/ eventsQueue # <<>> /\ eventsQueue = <<eventsQueue[1]>> /\ IsChange(eventsQueue[1])

SkipsDamage ==
  /\ calls = <<Forward, ToEnd>> /\ SkipsChanges
  /\ Skipping /\ currentPhase \in {"COMBATDAMAGE", "COMBATEND"}

SkipsToEnd ==
  /\ calls = <<ToEnd>> /\ SkipsChanges
  /\ Skipping /\ currentPhase # "COMBATDAMAGE"

Arriving ==
  /\ calls = <<Arrive(FALSE, FALSE)>> /\ eventsQueue = <<>>
  /\ Departs /\ Lands
  /\ currentPhase # "COMBATDAMAGE" => NoScreen

\* The end of combat is entered with the step the damage phase ended in.
Enters ==
  /\ StepFits \/ (currentGamePhase = "COMBATEND" /\ combatStep = "END_DAMAGE")
  /\ IF currentGamePhase = "COMBATEND" THEN NoScreen ELSE ScreenFits
  /\ StrikersGone /\ InPlace /\ Tally(TRUE)

Enter == Call("entered", FALSE)

Entering == calls = <<Enter>> /\ eventsQueue = <<>> /\ Enters

-----------------------------------------------------------------------------
(* The combat steps, and the changes of phase they ask for. *)

Rests == {<<>>, <<Enter>>}

StepComes ==
  \/ /\ currentGamePhase = "COMBATBLOCKERS" /\ calls = <<>>
     /\ combatStep \in {"TRIGGERS", "ORDER", "FIRST_STRIKE", "END_FIRST_STRIKE", "DAMAGE"}
     /\ combatStep = "TRIGGERS" => NoScreen
     /\ combatStep \in {"FIRST_STRIKE", "END_FIRST_STRIKE", "DAMAGE"} => ~human
  \/ /\ currentGamePhase = "COMBATDAMAGE"
     /\ combatStep \in {"FIRST_STRIKE", "END_FIRST_STRIKE", "DAMAGE", "END_DAMAGE"}

Stepping ==
  /\ calls \in Rests /\ eventsQueue = <<StepChange>>
  /\ StepComes /\ StrikersGone /\ currentPhase = currentGamePhase /\ Tally(FALSE)

\* A step is done and with it the phase, while its event is being answered.
Hurries(rest) ==
  /\ rest \in Rests
  /\ \/ /\ currentGamePhase = "COMBATBLOCKERS" /\ rest = <<>>
        /\ combatStep \in {"ORDER", "FIRST_STRIKE", "DAMAGE"}
     \/ currentGamePhase = "COMBATDAMAGE" /\ combatStep = "END_DAMAGE"
  /\ Tally(TRUE)

HurriesOn ==
  \E rest \in Rests :
    /\ calls = <<Call("forward", TRUE), Land(TRUE, currentGamePhase)>> \o rest
    /\ eventsQueue = <<>> /\ Hurries(rest) /\ currentPhase = currentGamePhase

\* The warning is still to be heard when the ring has moved.
Late(event) == IsPreChange(event) /\ event.to = currentPhase

HurriesWarned ==
  \E rest \in Rests :
    /\ calls # <<>> /\ calls = <<calls[1], Land(TRUE, currentGamePhase)>> \o rest
    /\ IsMove(calls[1], TRUE) /\ calls[1].notEnd /\ calls[1].turnSteps = Len(turn)
    /\ calls[1].from = currentGamePhase
    /\ eventsQueue # <<>> /\ eventsQueue = <<eventsQueue[1]>> /\ Late(eventsQueue[1])
    /\ Hurries(rest) /\ current > 1 /\ turn[current - 1].id = currentGamePhase

LateQueue ==
  /\ Len(eventsQueue) = 2 /\ eventsQueue = <<eventsQueue[1], eventsQueue[2]>>
  /\ Late(eventsQueue[1]) /\ IsChange(eventsQueue[2]) /\ eventsQueue[2].to = currentPhase

HurriesIn ==
  \E rest \in Rests, call \in {Land(TRUE, currentGamePhase), Arrive(TRUE, FALSE)} :
    /\ calls = <<call>> \o rest
    /\ LateQueue /\ Hurries(rest) /\ Lands

\* In the damage phase the step has gone on, and its event waits behind.
LateStep ==
  /\ currentGamePhase = "COMBATDAMAGE" /\ currentPhase = "COMBATDAMAGE"
  /\ combatStep \in {"FIRST_STRIKE", "END_FIRST_STRIKE", "END_DAMAGE"}
  /\ Tally(FALSE)

HurriedToDamage ==
  /\ calls \in {<<>>, <<Call("entered", TRUE)>>}
  /\ Len(eventsQueue) = 3 /\ eventsQueue = <<eventsQueue[1], eventsQueue[2], StepChange>>
  /\ IsPreChange(eventsQueue[1]) /\ eventsQueue[1].to = "COMBATDAMAGE"
  /\ IsChange(eventsQueue[2]) /\ eventsQueue[2].to = "COMBATDAMAGE"
  /\ LateStep

HurriedAndHeard ==
  /\ calls = <<>>
  /\ Len(eventsQueue) = 2 /\ eventsQueue = <<eventsQueue[1], StepChange>>
  /\ IsChange(eventsQueue[1]) /\ eventsQueue[1].to = "COMBATDAMAGE"
  /\ LateStep

\* At the end of combat only the warning and the change are left to be heard.
HurriedToEnd ==
  \E rest \in Rests :
    /\ calls = <<Call("entered", TRUE)>> \o rest
    /\ LateQueue /\ currentGamePhase = "COMBATEND" /\ currentPhase = "COMBATEND"
    /\ combatStep = "END_DAMAGE" /\ AllDealt

AtEnd ==
  /\ currentGamePhase = "COMBATEND" /\ combatStep = "BLOCKERS" /\ AllDealt
  /\ currentPhase \in {"COMBATEND", "COMBATBEGIN"}
  /\ \E k \in 1..current : turn[k].id = "COMBATEND"

EndWarned ==
  /\ calls \in Rests /\ AtEnd
  /\ Len(eventsQueue) = 2 /\ eventsQueue = <<eventsQueue[1], eventsQueue[2]>>
  /\ IsPreChange(eventsQueue[1]) /\ eventsQueue[1].to = "COMBATEND"
  /\ IsChange(eventsQueue[2]) /\ eventsQueue[2].to = "COMBATEND"

EndReached ==
  /\ calls \in Rests /\ AtEnd
  /\ Len(eventsQueue) = 1 /\ eventsQueue = <<eventsQueue[1]>>
  /\ IsChange(eventsQueue[1]) /\ eventsQueue[1].to = "COMBATEND"

Requested ==
  \/ Leaving \/ Warned \/ Landed \/ Arriving \/ Entering
  \/ SkipsBlockers \/ SkipsBlockersWarned \/ SkipsDamage \/ SkipsDamageWarned \/ SkipsToEnd

Hurried ==
  \/ Stepping \/ HurriesOn \/ HurriesWarned \/ HurriesIn
  \/ HurriedToDamage \/ HurriedAndHeard \/ HurriedToEnd \/ EndWarned \/ EndReached

RingTyped == Chained(turn) /\ current \in 1..Len(turn)

FlowTyped ==
  /\ currentPlayer \in Players
  /\ extraTurn \in [Players -> 0..1] /\ skippingTurn \in [Players -> 0..1]
  /\ currentGamePhase \in PhaseIds /\ combatStep \in Steps

CombatTyped ==
  /\ attackers \subseteq Attackers /\ blocked \subseteq Attackers
  /\ blocking \in [Blockers -> attackers \cup {Nothing}]
  /\ assigned \in [Blockers -> attackers \cup {Nothing}]
  /\ step \in Steps /\ cursor_pos \in {"NONE", "ATK"}
  /\ hits \in [Creatures -> Nat]

Typed == RingTyped /\ FlowTyped /\ CombatTyped /\ alters \in Seq(Sparing)

IInv == Typed /\ (Resting \/ Requested \/ Hurried)

-----------------------------------------------------------------------------
(* Induction over the natural numbers, for sets of them: from the library's *)
(* theorem that every set of naturals has a least element. *)

IsBelow == {p \in Nat \X Nat : p[1] < p[2]}

\* A set of naturals that is not empty has a least element.
LEMMA LeastExists ==
  ASSUME NEW T, T \subseteq Nat, T # {}
  PROVE  \E x \in T : \A y \in T : x <= y
<1>1. IsWellFoundedOn(OpToRel(<, Nat), Nat)
  BY NatLessThanWellFounded, Zenon
<1>2. OpToRel(<, Nat) = IsBelow
  BY Zenon DEF OpToRel, IsBelow
<1>3. IsWellFoundedOn(IsBelow, Nat)
  BY <1>1, <1>2, Zenon
<1>4. \E x \in T : \A y \in T : <<y, x>> \notin IsBelow
  BY <1>3, WFMin, Zenon
<1>5. PICK x \in T : \A y \in T : <<y, x>> \notin IsBelow
  BY <1>4
<1>6. ASSUME NEW y \in T
      PROVE  x <= y
  <2>1. y \in Nat /\ x \in Nat
    BY <1>5
  <2>. DEFINE p == <<y, x>>
  <2>2. p \in Nat \X Nat /\ p[1] = y /\ p[2] = x
    BY <2>1
  <2>3. p \notin IsBelow
    BY <1>5
  <2>4. ~(y < x)
    BY <2>2, <2>3 DEF IsBelow
  <2>5. QED
    BY <2>1, <2>4
<1>7. QED
  BY <1>5, <1>6

\* A set with 0 in it, and with each natural the next one, has them all.
LEMMA InductionOnNat ==
  ASSUME NEW T, 0 \in T, \A n \in Nat : n \in T => n + 1 \in T
  PROVE  \A n \in Nat : n \in T
<1>. DEFINE gaps == {n \in Nat : n \notin T}
<1>. SUFFICES ASSUME gaps # {} PROVE FALSE
  OBVIOUS
<1>1. PICK g \in gaps : \A y \in gaps : g <= y
  BY LeastExists, Zenon
<1>2. g \in Nat /\ g \notin T /\ g # 0
  OBVIOUS
<1>3. g - 1 \in Nat /\ (g - 1) + 1 = g /\ ~(g <= g - 1)
  BY <1>2
<1>4. g - 1 \in T
  BY <1>1, <1>3
<1>5. QED
  BY <1>2, <1>3, <1>4

-----------------------------------------------------------------------------
(* The abilities that stay. *)

KeptUpTo(s, indices, m, f) ==
  f = [n \in 0..m |-> IF n = 0 THEN <<>>
                      ELSE IF n \in indices THEN Append(f[n - 1], s[n]) ELSE f[n - 1]]

\* What Among picks from a sequence is a sequence of elements of the same set.
LEMMA AmongHas ==
  ASSUME NEW S, Len(alters) \in Nat, NEW indices,
         \A n \in 1..Len(alters) : n \in indices => alters[n] \in S
  PROVE  Among(indices) \in Seq(S)
<1>. DEFINE K(f, m) == KeptUpTo(alters, indices, m, f)
            good == {m \in Nat : m <= Len(alters) => \E f : K(f, m)}
<1>1. Len(alters) \in Nat
  OBVIOUS
<1>2. 0 \in good
  <2>. DEFINE f0 == [n \in 0..0 |-> <<>>]
  <2>1. f0 = [n \in 0..0 |-> IF n = 0 THEN <<>>
                ELSE IF n \in indices THEN Append(f0[n - 1], alters[n]) ELSE f0[n - 1]]
    OBVIOUS
  <2>2. K(f0, 0)
    BY <2>1 DEF KeptUpTo
  <2>3. QED
    BY <2>2
<1>3. ASSUME NEW m \in Nat, m \in good
      PROVE  m + 1 \in good
  <2>. SUFFICES ASSUME m + 1 <= Len(alters) PROVE \E f : K(f, m + 1)
    OBVIOUS
  <2>. HIDE DEF K
  <2>0. m <= Len(alters)
    BY <1>1
  <2>1. PICK f : K(f, m)
    BY <1>3, <2>0
  <2>. DEFINE next == IF m + 1 \in indices THEN Append(f[m], alters[m + 1]) ELSE f[m]
              g == [n \in 0..(m + 1) |-> IF n = m + 1 THEN next ELSE f[n]]
  <2>2. \A n \in 0..m : f[n] = IF n = 0 THEN <<>>
                               ELSE IF n \in indices THEN Append(f[n - 1], alters[n]) ELSE f[n - 1]
    BY <2>1 DEF K, KeptUpTo
  <2>3. ASSUME NEW n \in 0..(m + 1)
        PROVE  g[n] = IF n = 0 THEN <<>>
                      ELSE IF n \in indices THEN Append(g[n - 1], alters[n]) ELSE g[n - 1]
    <3>1. CASE n = m + 1
      <4>1. n # 0 /\ n - 1 = m /\ m \in 0..(m + 1) /\ m # m + 1
        BY <3>1
      <4>2. g[n] = next /\ g[n - 1] = f[m]
        BY <3>1, <4>1
      <4>3. QED
        BY <3>1, <4>1, <4>2
    <3>2. CASE n # m + 1
      <4>1. n \in 0..m /\ g[n] = f[n]
        BY <3>2
      <4>2. n # 0 => n - 1 \in 0..(m + 1) /\ n - 1 # m + 1 /\ g[n - 1] = f[n - 1]
        BY <4>1
      <4>3. QED
        BY <2>2, <4>1, <4>2
    <3>3. QED
      BY <3>1, <3>2
  <2>. HIDE DEF next
  <2>4. g = [n \in 0..(m + 1) |-> IF n = 0 THEN <<>>
               ELSE IF n \in indices THEN Append(g[n - 1], alters[n]) ELSE g[n - 1]]
    BY <2>3
  <2>5. K(g, m + 1)
    BY <2>4 DEF K, KeptUpTo
  <2>6. QED
    BY <2>5
<1>4. Len(alters) \in good
  <2>. HIDE DEF good
  <2>1. \A n \in Nat : n \in good => n + 1 \in good
    BY <1>3
  <2>2. QED
    BY <1>1, <1>2, <2>1, InductionOnNat
<1>5. \E f : K(f, Len(alters))
  BY <1>1, <1>4
<1>. DEFINE kept == CHOOSE f : K(f, Len(alters))
<1>6. K(kept, Len(alters))
  BY <1>5
<1>7. Among(indices) = kept[Len(alters)]
  BY DEF Among, KeptUpTo
<1>. HIDE DEF kept
<1>8. \A n \in 0..Len(alters) :
        kept[n] = IF n = 0 THEN <<>>
                  ELSE IF n \in indices THEN Append(kept[n - 1], alters[n]) ELSE kept[n - 1]
  BY <1>6 DEF KeptUpTo
<1>. DEFINE typed == {n \in Nat : n <= Len(alters) => kept[n] \in Seq(S)}
<1>9. 0 \in typed
  <2>1. 0 \in 0..Len(alters) /\ kept[0] = <<>>
    BY <1>1, <1>8
  <2>2. <<>> \in Seq(S)
    OBVIOUS
  <2>3. QED
    BY <2>1, <2>2
<1>10. ASSUME NEW n \in Nat, n \in typed
       PROVE  n + 1 \in typed
  <2>. SUFFICES ASSUME n + 1 <= Len(alters) PROVE kept[n + 1] \in Seq(S)
    OBVIOUS
  <2>1. kept[n] \in Seq(S)
    BY <1>1, <1>10
  <2>2. n + 1 \in indices => alters[n + 1] \in S
    BY <1>1
  <2>3. kept[n + 1] = IF n + 1 \in indices THEN Append(kept[n], alters[n + 1]) ELSE kept[n]
    <3>1. n + 1 \in 0..Len(alters) /\ n + 1 # 0 /\ (n + 1) - 1 = n
      BY <1>1
    <3>2. QED
      BY <1>8, <3>1
  <2>4. QED
    BY <2>1, <2>2, <2>3
<1>11. Len(alters) \in typed
  <2>. HIDE DEF typed
  <2>1. \A n \in Nat : n \in typed => n + 1 \in typed
    BY <1>10
  <2>2. QED
    BY <1>1, <1>9, <2>1, InductionOnNat
<1>12. QED
  BY <1>1, <1>7, <1>11

LEMMA AmongIsTyped ==
  ASSUME NEW S, alters \in Seq(S), NEW indices
  PROVE  Among(indices) \in Seq(S)
<1>1. Len(alters) \in Nat /\ \A n \in 1..Len(alters) : alters[n] \in S
  OBVIOUS
<1>. QED
  BY <1>1, AmongHas

-----------------------------------------------------------------------------
(* Sequences: a part of one, and one without an element or with others put  *)
(* in. *)

LEMMA SubSeqTyped ==
  ASSUME NEW S, NEW s \in Seq(S), NEW m \in Nat \ {0}, NEW n \in Nat,
         n <= Len(s), m <= n + 1, NEW k \in Nat, k = n + 1 - m
  PROVE  /\ SubSeq(s, m, n) \in Seq(S) /\ Len(SubSeq(s, m, n)) = k
         /\ \A i \in 1..k : SubSeq(s, m, n)[i] = s[m + i - 1]
<1>1. \A i \in m..n : s[i] \in S
  BY ElementOfSeq, LenProperties
<1>2. /\ SubSeq(s, m, n) \in Seq(S)
      /\ Len(SubSeq(s, m, n)) = IF m <= n THEN n - m + 1 ELSE 0
      /\ \A i \in 1..n - m + 1 : SubSeq(s, m, n)[i] = s[m + i - 1]
  BY <1>1, SubSeqProperties
<1>3. (IF m <= n THEN n - m + 1 ELSE 0) = k /\ n - m + 1 = k
  OBVIOUS
<1>. QED
  BY <1>2, <1>3

LEMMA ConcatTyped ==
  ASSUME NEW S, NEW f \in Seq(S), NEW b \in Seq(S)
  PROVE  /\ f \o b \in Seq(S)
         /\ Len(f \o b) = Len(f) + Len(b)
         /\ \A j \in 1..Len(f) + Len(b) :
              (f \o b)[j] = IF j <= Len(f) THEN f[j] ELSE b[j - Len(f)]
<1>. QED
  BY ConcatProperties

LEMMA RemoveAtIs ==
  ASSUME NEW S, NEW s \in Seq(S), NEW i \in 1..Len(s), NEW n \in Nat, n + 1 = Len(s)
  PROVE  /\ RemoveAt(s, i) \in Seq(S)
         /\ Len(RemoveAt(s, i)) = n
         /\ \A j \in 1..n : RemoveAt(s, i)[j] = IF j < i THEN s[j] ELSE s[j + 1]
<1>1. PICK a \in Nat : a = i - 1
  BY LenProperties
<1>2. PICK b \in Nat : b = n + 1 - i
  BY LenProperties
<1>. DEFINE front == SubSeq(s, 1, a)
            back  == SubSeq(s, i + 1, n + 1)
<1>3. /\ front \in Seq(S) /\ Len(front) = a
      /\ \A j \in 1..a : front[j] = s[j]
  <2>1. /\ front \in Seq(S) /\ Len(front) = a
        /\ \A j \in 1..a : front[j] = s[1 + j - 1]
    BY <1>1, SubSeqTyped
  <2>. QED
    BY <2>1
<1>4. /\ back \in Seq(S) /\ Len(back) = b
      /\ \A j \in 1..b : back[j] = s[i + j]
  <2>1. /\ i + 1 \in Nat \ {0} /\ n + 1 \in Nat /\ n + 1 <= Len(s)
        /\ i + 1 <= (n + 1) + 1 /\ b = (n + 1) + 1 - (i + 1)
    BY <1>2
  <2>2. /\ back \in Seq(S) /\ Len(back) = b
        /\ \A j \in 1..b : back[j] = s[(i + 1) + j - 1]
    BY <2>1, SubSeqTyped
  <2>. QED
    BY <2>2
<1>5. RemoveAt(s, i) = front \o back
  <2>1. i - 1 = a /\ Len(s) = n + 1
    BY <1>1
  <2>. QED
    BY <2>1 DEF RemoveAt
<1>. HIDE DEF front, back
<1>6. /\ front \o back \in Seq(S)
      /\ Len(front \o back) = a + b
      /\ \A j \in 1..a + b : (front \o back)[j] = IF j <= a THEN front[j] ELSE back[j - a]
  <2>1. /\ front \o back \in Seq(S)
        /\ Len(front \o back) = Len(front) + Len(back)
        /\ \A j \in 1..Len(front) + Len(back) :
             (front \o back)[j] = IF j <= Len(front) THEN front[j] ELSE back[j - Len(front)]
    <3>1. front \in Seq(S) /\ back \in Seq(S)
      BY <1>3, <1>4
    <3>. QED
      BY <3>1, ConcatTyped
  <2>. QED
    BY <1>3, <1>4, <2>1
<1>7. a + b = n
  BY <1>1, <1>2
<1>8. ASSUME NEW j \in 1..n PROVE (front \o back)[j] = IF j < i THEN s[j] ELSE s[j + 1]
  <2>1. CASE j <= a
    BY <1>1, <1>3, <1>6, <1>7, <2>1
  <2>2. CASE ~(j <= a)
    <3>1. j - a \in 1..b /\ i + (j - a) = j + 1 /\ ~(j < i)
      BY <1>1, <1>2, <2>2
    <3>. QED
      BY <1>4, <1>6, <1>7, <2>2, <3>1
  <2>. QED
    BY <2>1, <2>2
<1>. QED
  BY <1>5, <1>6, <1>7, <1>8

\* r is t with what has been added behind at; lists given as functions.
Spliced(r, t, added, at, m, k) ==
  \A j \in 1..(m + k) :
    r[j] = IF j <= at THEN t[j] ELSE IF j <= at + k THEN added[j - at] ELSE t[j - k]

\* Up to at it is the old list, then come the others, then the rest of it.
Inserted(s, added, at) == SubSeq(s, 1, at) \o added \o SubSeq(s, at + 1, Len(s))

LEMMA InsertionIs ==
  ASSUME NEW S, NEW s \in Seq(S), NEW added \in Seq(S), NEW at \in 1..Len(s)
  PROVE  /\ Inserted(s, added, at) \in Seq(S)
         /\ Len(Inserted(s, added, at)) = Len(s) + Len(added)
         /\ Spliced(Inserted(s, added, at), s, added, at, Len(s), Len(added))
<1>. SUFFICES ASSUME NEW k \in Nat, k = Len(added), NEW m \in Nat, m = Len(s),
                     NEW t, t = SubSeq(s, 1, at) \o added \o SubSeq(s, at + 1, Len(s))
              PROVE  t \in Seq(S) /\ Len(t) = m + k /\ Spliced(t, s, added, at, m, k)
  <2>1. Len(added) \in Nat /\ Len(s) \in Nat
    OBVIOUS
  <2>. QED
    BY <2>1, Zenon DEF Inserted
<1>1. PICK b \in Nat : b = m - at
  <2>1. at \in 1..m /\ m - at \in Nat
    OBVIOUS
  <2>. QED
    BY <2>1
<1>. DEFINE front == SubSeq(s, 1, at)
            back  == SubSeq(s, at + 1, m)
<1>2. /\ front \in Seq(S) /\ Len(front) = at
      /\ \A j \in 1..at : front[j] = s[1 + j - 1]
  <2>1. 1 \in Nat \ {0} /\ at \in Nat /\ at <= Len(s) /\ 1 <= at + 1 /\ at = at + 1 - 1
    OBVIOUS
  <2>. QED
    BY <2>1, SubSeqTyped
<1>3. /\ back \in Seq(S) /\ Len(back) = b
      /\ \A j \in 1..b : back[j] = s[(at + 1) + j - 1]
  <2>1. /\ at + 1 \in Nat \ {0} /\ m \in Nat /\ m <= Len(s) /\ at + 1 <= m + 1
        /\ b = m + 1 - (at + 1)
    BY <1>1
  <2>. QED
    BY <2>1, SubSeqTyped
<1>. DEFINE start == front \o added
<1>6. t = start \o back
  OBVIOUS
<1>. HIDE DEF front, back
<1>4. /\ start \in Seq(S) /\ Len(start) = at + k
      /\ \A j \in 1..(at + k) : start[j] = IF j <= at THEN front[j] ELSE added[j - at]
  BY <1>2, ConcatTyped
<1>. HIDE DEF start
<1>5. /\ start \o back \in Seq(S) /\ Len(start \o back) = (at + k) + b
      /\ \A j \in 1..((at + k) + b) :
           (start \o back)[j] = IF j <= at + k THEN start[j] ELSE back[j - (at + k)]
  <2>1. start \in Seq(S) /\ back \in Seq(S)
    BY <1>3, <1>4
  <2>2. /\ start \o back \in Seq(S)
        /\ Len(start \o back) = Len(start) + Len(back)
        /\ \A j \in 1..Len(start) + Len(back) :
             (start \o back)[j] = IF j <= Len(start) THEN start[j] ELSE back[j - Len(start)]
    BY <2>1, ConcatTyped
  <2>3. Len(start) = at + k /\ Len(back) = b
    BY <1>3, <1>4
  <2>. QED
    BY <2>2, <2>3, Zenon
<1>7. (at + k) + b = m + k
  BY <1>1
<1>8. t \in Seq(S) /\ Len(t) = m + k
  BY <1>5, <1>6, <1>7
<1>9. ASSUME NEW j \in 1..(m + k)
      PROVE  t[j] = IF j <= at THEN s[j] ELSE IF j <= at + k THEN added[j - at] ELSE s[j - k]
  <2>1. t[j] = IF j <= at + k THEN start[j] ELSE back[j - (at + k)]
    BY <1>5, <1>6, <1>7
  <2>2. CASE j <= at + k
    <3>1. t[j] = IF j <= at THEN front[j] ELSE added[j - at]
      BY <1>4, <2>1, <2>2
    <3>2. j <= at => front[j] = s[j]
      BY <1>2
    <3>. QED
      BY <2>2, <3>1, <3>2
  <2>3. CASE ~(j <= at + k)
    <3>1. j - (at + k) \in 1..b /\ (at + 1) + (j - (at + k)) - 1 = j - k /\ ~(j <= at)
      BY <1>1, <2>3
    <3>2. back[j - (at + k)] = s[j - k]
      BY <1>3, <3>1
    <3>. QED
      BY <2>1, <2>3, <3>1, <3>2
  <2>. QED
    BY <2>2, <2>3
<1>. QED
  BY <1>8, <1>9, Zenon DEF Spliced

-----------------------------------------------------------------------------
(* What can come behind a phase. *)

\* Only the blockers are followed by the damage, and only that by the end of
\* combat; behind the last phase there is none.
LEMMA AfterIs ==
  ASSUME NEW x, NEW y \in After(x)
  PROVE  /\ x \in PhaseIds /\ y \in PhaseIds /\ x # y /\ x # "AFTER_EOT"
         /\ y = "COMBATDAMAGE" <=> x = "COMBATBLOCKERS"
         /\ y = "COMBATEND" <=> x = "COMBATDAMAGE"
         /\ x = "COMBATATTACKERS" => y = "COMBATBLOCKERS"
  BY DEF After, PhaseIds, GamePhases

\* A phase that is not kept can be left out.
LEMMA AfterLeftOut ==
  ASSUME NEW x, NEW y \in After(x), NEW z \in After(y), y \notin Kept
  PROVE  z \in After(x)
  BY DEF After, Kept

-----------------------------------------------------------------------------
(* The list of a turn. *)

\* The first phase with an id, if there is one.
LEMMA IndexOfIs ==
  ASSUME Len(turn) \in Nat, NEW id
  PROVE  IF \E i \in 1..Len(turn) : turn[i].id = id
         THEN /\ IndexOf(id) \in 1..Len(turn) /\ turn[IndexOf(id)].id = id
              /\ \A i \in 1..Len(turn) : turn[i].id = id => IndexOf(id) <= i
         ELSE IndexOf(id) = 0
<1>. DEFINE I == {i \in 1..Len(turn) : turn[i].id = id}
<1>1. IndexOf(id) = IF I # {} THEN Min(I) ELSE 0
  BY DEF IndexOf, SelectInSeq
<1>2. CASE I # {}
  <2>1. \E x \in I : \A y \in I : x <= y
    <3>1. I \subseteq Nat
      OBVIOUS
    <3>. HIDE DEF I
    <3>. QED
      BY <1>2, <3>1, LeastExists
  <2>2. Min(I) \in I /\ \A y \in I : Min(I) <= y
    BY <2>1 DEF Min
  <2>3. IndexOf(id) = Min(I)
    BY <1>1, <1>2
  <2>4. \E i \in 1..Len(turn) : turn[i].id = id
    BY <1>2
  <2>. QED
    BY <2>2, <2>3, <2>4
<1>3. CASE I = {}
  <2>1. ~(\E i \in 1..Len(turn) : turn[i].id = id)
    BY <1>3
  <2>2. IndexOf(id) = 0
    BY <1>1, <1>3
  <2>. QED
    BY <2>1, <2>2
<1>. QED
  BY <1>2, <1>3

\* A list's length and phases, and what comes in front of its last one.
LEMMA ChainedIs ==
  ASSUME NEW t, Chained(t)
  PROVE  /\ Len(t) \in Nat /\ Len(t) > 0 /\ DOMAIN t = 1..Len(t)
         /\ \A i \in 1..Len(t) : t[i] \in Phases /\ t[i].id \in PhaseIds
         /\ \A i \in 1..Len(t) : t[i].id = "AFTER_EOT" => i = Len(t)
         /\ \A i \in 1..Len(t) : i # Len(t) => t[i + 1].id \in After(t[i].id)
<1>1. Len(t) \in Nat /\ Len(t) > 0 /\ DOMAIN t = 1..Len(t)
  BY DEF Chained
<1>2. \A i \in 1..Len(t) : t[i] \in Phases /\ t[i].id \in PhaseIds
  <2>1. \A ph \in Phases : ph.id \in PhaseIds
    BY DEF Phases
  <2>2. t \in Seq(Phases)
    BY DEF Chained
  <2>3. \A i \in 1..Len(t) : t[i] \in Phases
    BY <2>2
  <2>. QED
    BY <2>1, <2>3
<1>3. ASSUME NEW i \in 1..Len(t), i # Len(t)
      PROVE  t[i + 1].id \in After(t[i].id)
  <2>1. PICK n \in Nat : n = Len(t)
    BY <1>1
  <2>2. i \in 1..n /\ i # n
    BY <1>3, <2>1
  <2>3. i \in 1..(n - 1)
    BY <2>2
  <2>. QED
    BY <2>1, <2>3 DEF Chained, Follows
<1>4. \A i \in 1..Len(t) : t[i].id = "AFTER_EOT" => i = Len(t)
  BY <1>3, AfterIs
<1>. QED
  BY <1>1, <1>2, <1>3, <1>4

LEMMA GameTurnIs ==
  /\ Chained(GameTurn) /\ Len(GameTurn) = 14
  /\ GameTurn[1].id = "BEFORE_BEGIN" /\ GameTurn[5].id = "FIRSTMAIN"
<1>1. GamePhases \in Seq(PhaseIds) /\ Len(GamePhases) = 14 /\ DOMAIN GamePhases = 1..14
  BY DEF PhaseIds, GamePhases
<1>2. GameTurn = [i \in 1..14 |-> Phase(GamePhases[i])]
  BY <1>1 DEF GameTurn
<1>3. \A i \in 1..14 : GameTurn[i].id = GamePhases[i] /\ GameTurn[i] \in Phases
  <2>1. \A id \in PhaseIds : Phase(id) \in Phases /\ Phase(id).id = id
    BY DEF Phase, Phases
  <2>2. \A i \in 1..14 : GamePhases[i] \in PhaseIds
    BY <1>1 DEF PhaseIds
  <2>3. \A i \in 1..14 : GameTurn[i] = Phase(GamePhases[i])
    BY <1>2, Zenon
  <2>. QED
    BY <2>1, <2>2, <2>3, Zenon
<1>4. GameTurn \in Seq(Phases) /\ Len(GameTurn) = 14
  BY <1>2, <1>3
<1>5. \A i \in 1..13 : GamePhases[i + 1] \in After(GamePhases[i])
  <2>. SUFFICES ASSUME NEW i \in 1..13 PROVE GamePhases[i + 1] \in After(GamePhases[i])
    OBVIOUS
  <2>1. CASE i \in 1..6
    BY <2>1 DEF GamePhases, After
  <2>2. CASE i \in 7..13
    BY <2>2 DEF GamePhases, After
  <2>. QED
    BY <2>1, <2>2
<1>6. Follows(GameTurn)
  <2>0. Len(GameTurn) - 1 = 13
    BY <1>4
  <2>. SUFFICES ASSUME NEW i \in 1..13 PROVE GameTurn[i + 1].id \in After(GameTurn[i].id)
    BY <2>0, Zenon DEF Follows
  <2>1. i \in 1..14 /\ i + 1 \in 1..14
    OBVIOUS
  <2>. QED
    BY <1>3, <1>5, <2>1, Zenon
<1>7. GamePhases[1] = "BEFORE_BEGIN" /\ GamePhases[5] = "FIRSTMAIN" /\ GamePhases[14] = "AFTER_EOT"
  BY DEF GamePhases
<1>. QED
  BY <1>3, <1>4, <1>6, <1>7 DEF Chained

\* A phase that is not kept can be taken out of the list.
LEMMA RemovalKeepsChain ==
  ASSUME NEW t, Chained(t), NEW at \in 1..Len(t), t[at].id \notin Kept
  PROVE  Chained(RemoveAt(t, at))
<1>1. PICK n \in Nat : n + 1 = Len(t)
  <2>1. Len(t) - 1 \in Nat /\ (Len(t) - 1) + 1 = Len(t)
    BY ChainedIs
  <2>. QED
    BY <2>1
<1>. DEFINE r == RemoveAt(t, at)
<1>2. /\ r \in Seq(Phases) /\ Len(r) = n
      /\ \A j \in 1..n : r[j] = IF j < at THEN t[j] ELSE t[j + 1]
  <2>1. t \in Seq(Phases)
    BY DEF Chained
  <2>. QED
    BY <1>1, <2>1, RemoveAtIs
<1>. HIDE DEF r
<1>3. t[n + 1].id = "AFTER_EOT" /\ "AFTER_EOT" \in Kept
  BY <1>1 DEF Chained, Kept
<1>4. at # n + 1 /\ at <= n /\ n > 0
  BY <1>1, <1>3
<1>5. r[n].id = "AFTER_EOT"
  BY <1>2, <1>3, <1>4
<1>6. \A i \in 1..n : t[i + 1].id \in After(t[i].id)
  <2>1. \A i \in 1..Len(t) : i # Len(t) => t[i + 1].id \in After(t[i].id)
    BY ChainedIs
  <2>. QED
    BY <1>1, <2>1
<1>7. Follows(r)
  <2>. SUFFICES ASSUME NEW i \in 1..(n - 1) PROVE r[i + 1].id \in After(r[i].id)
    BY <1>2 DEF Follows
  <2>1. CASE i + 1 < at
    BY <1>2, <1>6, <2>1
  <2>2. CASE i + 1 = at
    <3>1. r[i] = t[i] /\ r[i + 1] = t[i + 2]
      BY <1>2, <2>2
    <3>2. t[i + 1].id \in After(t[i].id) /\ t[i + 2].id \in After(t[i + 1].id)
      <4>1. i \in 1..n /\ i + 1 \in 1..n /\ (i + 1) + 1 = i + 2
        OBVIOUS
      <4>. QED
        BY <1>6, <4>1
    <3>3. t[i + 1].id \notin Kept
      BY <2>2
    <3>4. t[i + 2].id \in After(t[i].id)
      BY <3>2, <3>3, AfterLeftOut, Zenon
    <3>. QED
      BY <3>1, <3>4
  <2>3. CASE i + 1 > at
    <3>1. r[i] = t[i + 1] /\ r[i + 1] = t[(i + 1) + 1] /\ i + 1 \in 1..n
      BY <1>2, <2>3
    <3>. QED
      BY <1>6, <3>1
  <2>. QED
    BY <2>1, <2>2, <2>3
<1>8. r[1].id \notin {"COMBATDAMAGE", "COMBATEND"}
  <2>1. CASE at # 1
    <3>1. r[1] = t[1]
      BY <1>2, <1>4, <2>1
    <3>. QED
      BY <3>1 DEF Chained
  <2>2. CASE at = 1
    <3>1. r[1] = t[1 + 1] /\ 1 \in 1..n
      BY <1>2, <1>4, <2>2
    <3>2. r[1].id \in After(t[1].id)
      BY <1>6, <3>1
    <3>3. t[1].id \notin {"COMBATBLOCKERS", "COMBATDAMAGE"}
      BY <2>2 DEF Kept
    <3>. QED
      BY <3>2, <3>3, AfterIs
  <2>. QED
    BY <2>1, <2>2
<1>9. Chained(r)
  BY <1>2, <1>4, <1>5, <1>7, <1>8 DEF Chained
<1>. QED
  BY <1>9 DEF r

\* What numbers the copies is a number, and more than any in the list.
LEMMA NextExtraIsNatural ==
  ASSUME Chained(turn)
  PROVE  NextExtra \in Nat /\ \A i \in 1..Len(turn) : turn[i].extra < NextExtra
<1>. DEFINE n == Len(turn)
            E == {turn[i].extra : i \in DOMAIN turn}
            good == {m \in Nat : m < n => \E j \in 1..n : \A i \in 1..(m + 1) :
                                            turn[i].extra <= turn[j].extra}
<1>1. n \in Nat /\ n > 0 /\ DOMAIN turn = 1..n
  BY ChainedIs
<1>2. \A i \in 1..n : turn[i].extra \in Nat
  <2>1. \A ph \in Phases : ph.extra \in Nat
    BY DEF Phases
  <2>2. \A i \in 1..n : turn[i] \in Phases
    BY ChainedIs
  <2>. QED
    BY <2>1, <2>2
<1>. HIDE DEF n
<1>3. 0 \in good
  <2>. SUFFICES ASSUME 0 < n PROVE \A i \in 1..(0 + 1) : turn[i].extra <= turn[1].extra
    BY <1>1
  <2>1. turn[1].extra \in Nat
    BY <1>1, <1>2
  <2>. QED
    BY <2>1
<1>4. ASSUME NEW m \in Nat, m \in good
      PROVE  m + 1 \in good
  <2>. SUFFICES ASSUME m + 1 < n
                PROVE  \E j \in 1..n : \A i \in 1..((m + 1) + 1) : turn[i].extra <= turn[j].extra
    OBVIOUS
  <2>1. PICK j \in 1..n : \A i \in 1..(m + 1) : turn[i].extra <= turn[j].extra
    BY <1>1, <1>4
  <2>2. m + 2 \in 1..n
    BY <1>1
  <2>3. turn[j].extra \in Nat /\ turn[m + 2].extra \in Nat
    BY <1>2, <2>2
  <2>4. \A i \in 1..((m + 1) + 1) : i \in 1..n /\ (i = m + 2 \/ i \in 1..(m + 1))
    BY <1>1
  <2>5. CASE turn[m + 2].extra <= turn[j].extra
    <3>1. \A i \in 1..((m + 1) + 1) : turn[i].extra <= turn[j].extra
      BY <2>1, <2>4, <2>5
    <3>. QED
      BY <3>1
  <2>6. CASE turn[j].extra <= turn[m + 2].extra
    <3>1. \A i \in 1..((m + 1) + 1) : turn[i].extra <= turn[m + 2].extra
      <4>1. \A i \in 1..(m + 1) : turn[i].extra <= turn[m + 2].extra
        <5>1. \A i \in 1..(m + 1) : i \in 1..n
          BY <1>1
        <5>. QED
          BY <1>2, <2>1, <2>3, <2>6, <5>1
      <4>. QED
        BY <2>3, <2>4, <4>1
    <3>. QED
      BY <2>2, <3>1
  <2>. QED
    BY <2>3, <2>5, <2>6
<1>5. n - 1 \in good
  <2>. HIDE DEF good
  <2>1. \A m \in Nat : m \in good => m + 1 \in good
    BY <1>4
  <2>2. n - 1 \in Nat
    BY <1>1
  <2>. QED
    BY <1>3, <2>1, <2>2, InductionOnNat
<1>6. PICK j \in 1..n : \A i \in 1..n : turn[i].extra <= turn[j].extra
  <2>1. n - 1 < n /\ (n - 1) + 1 = n
    BY <1>1
  <2>. QED
    BY <1>5, <2>1
<1>7. \A y \in E : y <= turn[j].extra
  BY <1>1, <1>6
<1>8. turn[j].extra \in E /\ turn[j].extra \in Nat /\ E \subseteq Nat
  BY <1>1, <1>2
<1>9. \E x \in E : \A y \in E : x >= y
  BY <1>7, <1>8
<1>10. Max(E) \in E /\ \A y \in E : Max(E) >= y
  BY <1>9 DEF Max
<1>11. NextExtra = 1 + Max(E)
  BY DEF NextExtra
<1>12. Max(E) \in Nat
  BY <1>8, <1>10, Zenon
<1>13. PICK k : k = Max(E)
  OBVIOUS
<1>14. k \in Nat /\ NextExtra = 1 + k /\ \A i \in 1..n : turn[i].extra <= k
  <2>1. \A i \in 1..n : turn[i].extra \in E
    BY <1>1
  <2>. HIDE DEF E
  <2>2. \A i \in 1..n : k >= turn[i].extra
    BY <1>10, <1>13, <2>1
  <2>3. \A i \in 1..n : turn[i].extra <= k
    BY <1>2, <1>12, <1>13, <2>2
  <2>. QED
    BY <1>11, <1>12, <1>13, <2>3, Zenon
<1>15. NextExtra \in Nat /\ \A i \in 1..n : turn[i].extra < NextExtra
  BY <1>2, <1>14
<1>. QED
  BY <1>15 DEF n

\* The phases of an extra combat, and those with a main phase after it.
ExtraIds(withMain) == CombatPhases \o IF withMain THEN <<"SECONDMAIN">> ELSE <<>>

LEMMA ExtraIdsAre ==
  /\ ExtraIds(FALSE) = CombatPhases
  /\ ExtraIds(TRUE) = <<"COMBATBEGIN", "COMBATATTACKERS", "COMBATBLOCKERS", "COMBATDAMAGE",
                        "COMBATEND", "SECONDMAIN">>
<1>. DEFINE main == <<"SECONDMAIN">>
            six == <<"COMBATBEGIN", "COMBATATTACKERS", "COMBATBLOCKERS", "COMBATDAMAGE",
                     "COMBATEND", "SECONDMAIN">>
<1>1. CombatPhases \in Seq(PhaseIds) /\ Len(CombatPhases) = 5
  BY DEF CombatPhases, PhaseIds, GamePhases
<1>2. CombatPhases \o <<>> = CombatPhases
  BY <1>1, ConcatEmptySeq
<1>3. main \in Seq(PhaseIds) /\ Len(main) = 1 /\ main[1] = "SECONDMAIN"
  BY DEF PhaseIds, GamePhases
<1>4. six \in Seq(PhaseIds) /\ Len(six) = 6
  BY DEF PhaseIds, GamePhases
<1>5. \A i \in 1..6 : six[i] = IF i <= 5 THEN CombatPhases[i] ELSE main[i - 5]
  BY DEF CombatPhases
<1>. HIDE DEF main, six
<1>6. /\ CombatPhases \o main \in Seq(PhaseIds) /\ Len(CombatPhases \o main) = 5 + 1
      /\ \A i \in 1..(5 + 1) :
           (CombatPhases \o main)[i] = IF i <= 5 THEN CombatPhases[i] ELSE main[i - 5]
  <2>1. /\ CombatPhases \o main \in Seq(PhaseIds)
        /\ Len(CombatPhases \o main) = Len(CombatPhases) + Len(main)
        /\ \A i \in 1..(Len(CombatPhases) + Len(main)) :
             (CombatPhases \o main)[i] =
               IF i <= Len(CombatPhases) THEN CombatPhases[i] ELSE main[i - Len(CombatPhases)]
    BY <1>1, <1>3, ConcatTyped
  <2>. QED
    BY <1>1, <1>3, <2>1, Zenon
<1>7. CombatPhases \o main = six
  <2>1. PICK r : r = CombatPhases \o main
    OBVIOUS
  <2>2. r \in Seq(PhaseIds) /\ Len(r) = 6 /\ \A i \in 1..6 : r[i] = six[i]
    BY <1>5, <1>6, <2>1
  <2>3. r = six
    BY <1>4, <2>2, SeqEqual
  <2>. QED
    BY <2>1, <2>3
<1>. QED
  BY <1>2, <1>7 DEF ExtraIds, main, six

\* The phases of a list up to m come behind one another.
FollowsUpTo(t, m) == \A i \in 1..(m - 1) : t[i + 1].id \in After(t[i].id)

\* What an extra combat is put behind, with or without a main phase.
Extends(id, withMain) ==
  IF withMain THEN id \in {"FIRSTMAIN", "SECONDMAIN"} ELSE id = "COMBATEND"

\* The copies, and what can come around them.
Copies(extra, withMain) ==
  LET ids == ExtraIds(withMain)
  IN [i \in DOMAIN ids |-> [id |-> ids[i], extra |-> extra]]

CopyCount(withMain) == IF withMain THEN 6 ELSE 5

LEMMA CopiesFollow ==
  ASSUME NEW withMain \in BOOLEAN, NEW extra \in Nat, NEW id, Extends(id, withMain)
  PROVE  /\ Copies(extra, withMain) \in Seq(Phases)
         /\ Len(Copies(extra, withMain)) = CopyCount(withMain)
         /\ Copies(extra, withMain)[1].id = "COMBATBEGIN"
         /\ "COMBATBEGIN" \in After(id)
         /\ \A z \in After(id) : z \in After(Copies(extra, withMain)[CopyCount(withMain)].id)
         /\ FollowsUpTo(Copies(extra, withMain), CopyCount(withMain))
<1>. SUFFICES ASSUME NEW k, k = CopyCount(withMain), NEW ids, ids = ExtraIds(withMain),
                     NEW added, added = [i \in DOMAIN ids |-> [id |-> ids[i], extra |-> extra]]
              PROVE  /\ added \in Seq(Phases) /\ Len(added) = k
                     /\ added[1].id = "COMBATBEGIN"
                     /\ "COMBATBEGIN" \in After(id)
                     /\ \A z \in After(id) : z \in After(added[k].id)
                     /\ \A i \in 1..(k - 1) : added[i + 1].id \in After(added[i].id)
  BY ZenonT(40) DEF Copies, FollowsUpTo
<1>. DEFINE five == <<"COMBATBEGIN", "COMBATATTACKERS", "COMBATBLOCKERS", "COMBATDAMAGE",
                      "COMBATEND">>
            six == <<"COMBATBEGIN", "COMBATATTACKERS", "COMBATBLOCKERS", "COMBATDAMAGE",
                     "COMBATEND", "SECONDMAIN">>
<1>1. ids = IF withMain THEN six ELSE five
  <2>1. CASE withMain
    BY <2>1, ExtraIdsAre
  <2>2. CASE ~withMain
    <3>1. ids = ExtraIds(FALSE)
      BY <2>2
    <3>. QED
      BY <2>2, <3>1, ExtraIdsAre DEF CombatPhases
  <2>. QED
    BY <2>1, <2>2
<1>2. k \in Nat /\ DOMAIN ids = 1..k /\ \A i \in 1..k : ids[i] \in PhaseIds
  <2>1. CASE withMain
    BY <1>1, <2>1 DEF PhaseIds, GamePhases, CopyCount
  <2>2. CASE ~withMain
    BY <1>1, <2>2 DEF PhaseIds, GamePhases, CopyCount
  <2>. QED
    BY <2>1, <2>2
<1>3. added = [i \in 1..k |-> [id |-> ids[i], extra |-> extra]]
  BY <1>2
<1>4. \A i \in 1..k : added[i].id = ids[i] /\ added[i] \in Phases
  BY <1>2, <1>3 DEF Phases
<1>5. added \in Seq(Phases) /\ Len(added) = k
  BY <1>2, <1>3, <1>4
<1>6. ids[1] = "COMBATBEGIN" /\ ids[k] = IF withMain THEN "SECONDMAIN" ELSE "COMBATEND"
  BY <1>1 DEF CopyCount
<1>7. \A i \in 1..(k - 1) : ids[i + 1] \in After(ids[i])
  <2>. SUFFICES ASSUME NEW i \in 1..(k - 1) PROVE ids[i + 1] \in After(ids[i])
    OBVIOUS
  <2>1. CASE withMain
    BY <1>1, <2>1 DEF After, CopyCount
  <2>2. CASE ~withMain
    BY <1>1, <2>2 DEF After, CopyCount
  <2>. QED
    BY <2>1, <2>2
<1>8. "COMBATBEGIN" \in After(id) /\ \A z \in After(id) : z \in After(ids[k])
  <2>1. CASE withMain
    BY <1>6, <2>1 DEF Extends, After
  <2>2. CASE ~withMain
    BY <1>6, <2>2 DEF Extends, After
  <2>. QED
    BY <2>1, <2>2
<1>9. 1 \in 1..k /\ k \in 1..k /\ \A i \in 1..(k - 1) : i \in 1..k /\ i + 1 \in 1..k
  <2>1. k = 5 \/ k = 6
    BY DEF CopyCount
  <2>. QED
    BY <2>1
<1>. QED
  BY <1>4, <1>5, <1>6, <1>7, <1>8, <1>9

LEMMA SplicedFollows ==
  ASSUME NEW m \in Nat, NEW k \in Nat, k > 0, NEW at \in Nat, at > 0, at < m,
         NEW r, NEW t, NEW added, Spliced(r, t, added, at, m, k),
         FollowsUpTo(t, m), FollowsUpTo(added, k),
         added[1].id \in After(t[at].id), t[at + 1].id \in After(added[k].id)
  PROVE  FollowsUpTo(r, m + k)
<1>. SUFFICES ASSUME NEW i \in Nat, i > 0, i < m + k PROVE r[i + 1].id \in After(r[i].id)
  BY DEF FollowsUpTo
<1>1. /\ i <= at => r[i] = t[i]
      /\ (i > at /\ i <= at + k) => r[i] = added[i - at]
      /\ i > at + k => r[i] = t[i - k]
  BY DEF Spliced
<1>2. /\ i + 1 <= at => r[i + 1] = t[i + 1]
      /\ (i + 1 > at /\ i + 1 <= at + k) => r[i + 1] = added[(i + 1) - at]
      /\ i + 1 > at + k => r[i + 1] = t[(i + 1) - k]
  BY DEF Spliced
<1>3. CASE i < at
  <2>1. r[i] = t[i] /\ r[i + 1] = t[i + 1] /\ i \in 1..(m - 1)
    BY <1>1, <1>2, <1>3
  <2>. QED
    BY <2>1 DEF FollowsUpTo
<1>4. CASE i = at
  <2>1. r[i] = t[at]
    BY <1>1, <1>4
  <2>2. r[i + 1] = added[1]
    <3>1. (i + 1) - at = 1 /\ i + 1 > at /\ i + 1 <= at + k
      BY <1>4
    <3>. QED
      BY <1>2, <3>1
  <2>. QED
    BY <2>1, <2>2
<1>5. CASE i > at /\ i < at + k
  <2>1. PICK j \in Nat : j = i - at /\ j > 0 /\ j < k /\ (i + 1) - at = j + 1 /\ i + 1 > at /\ i + 1 <= at + k
    <3>1. i - at \in Nat /\ i - at > 0 /\ i - at < k /\ (i + 1) - at = (i - at) + 1
      BY <1>5
    <3>. QED
      BY <1>5, <3>1
  <2>2. r[i] = added[j] /\ r[i + 1] = added[j + 1] /\ j \in 1..(k - 1)
    BY <1>1, <1>2, <1>5, <2>1
  <2>. QED
    BY <2>2 DEF FollowsUpTo
<1>6. CASE i = at + k
  <2>1. r[i] = added[k]
    <3>1. i > at /\ i <= at + k /\ i - at = k
      BY <1>6
    <3>. QED
      BY <1>1, <3>1
  <2>2. r[i + 1] = t[at + 1]
    <3>1. i + 1 > at + k /\ (i + 1) - k = at + 1
      BY <1>6
    <3>. QED
      BY <1>2, <3>1
  <2>. QED
    BY <2>1, <2>2
<1>7. CASE i > at + k
  <2>1. PICK j \in Nat : j = i - k /\ j > 0 /\ j < m /\ (i + 1) - k = j + 1 /\ i + 1 > at + k
    <3>1. i - k \in Nat /\ i - k > 0 /\ i - k < m /\ (i + 1) - k = (i - k) + 1
      BY <1>7
    <3>. QED
      BY <1>7, <3>1
  <2>2. r[i] = t[j] /\ r[i + 1] = t[j + 1] /\ j \in 1..(m - 1)
    BY <1>1, <1>2, <1>7, <2>1
  <2>. QED
    BY <2>2 DEF FollowsUpTo
<1>. QED
  BY <1>3, <1>4, <1>5, <1>6, <1>7

\* An extra combat can be put behind the phases it is put behind.
LEMMA InsertionKeepsChain ==
  ASSUME NEW t, Chained(t), NEW at \in 1..Len(t), t[at].id # "AFTER_EOT",
         NEW added \in Seq(Phases), Len(added) > 0, FollowsUpTo(added, Len(added)),
         added[1].id \in After(t[at].id),
         \A z \in After(t[at].id) : z \in After(added[Len(added)].id)
  PROVE  /\ Chained(Inserted(t, added, at))
         /\ Len(Inserted(t, added, at)) = Len(t) + Len(added)
         /\ Spliced(Inserted(t, added, at), t, added, at, Len(t), Len(added))
<1>. SUFFICES ASSUME NEW k \in Nat, k = Len(added), NEW r, r = Inserted(t, added, at)
              PROVE  Chained(r) /\ Len(r) = Len(t) + k /\ Spliced(r, t, added, at, Len(t), k)
  <2>1. Len(added) \in Nat
    OBVIOUS
  <2>. QED
    BY <2>1, Zenon
<1>0. k > 0 /\ FollowsUpTo(added, k) /\ \A z \in After(t[at].id) : z \in After(added[k].id)
  BY Zenon
<1>1. PICK m \in Nat : m = Len(t)
  BY ChainedIs
<1>2. r \in Seq(Phases) /\ Len(r) = m + k /\ Spliced(r, t, added, at, m, k)
  <2>1. t \in Seq(Phases)
    BY DEF Chained
  <2>2. /\ r \in Seq(Phases) /\ Len(r) = Len(t) + Len(added)
        /\ Spliced(r, t, added, at, Len(t), Len(added))
    BY <2>1, InsertionIs, Zenon
  <2>. QED
    BY <1>1, <2>2, Zenon
<1>3. FollowsUpTo(t, m)
  BY <1>1 DEF Chained, Follows, FollowsUpTo
<1>4. at \in Nat /\ at > 0 /\ at < m
  <2>1. t[m].id = "AFTER_EOT"
    BY <1>1 DEF Chained
  <2>2. at # m
    BY <2>1
  <2>. QED
    BY <1>1, <2>2
<1>5. t[at + 1].id \in After(added[k].id)
  <2>1. at \in 1..(m - 1)
    BY <1>4
  <2>2. t[at + 1].id \in After(t[at].id)
    BY <1>3, <2>1, Zenon DEF FollowsUpTo
  <2>. QED
    BY <1>0, <2>2, Zenon
<1>6. FollowsUpTo(r, m + k)
  BY <1>0, <1>2, <1>3, <1>4, <1>5, SplicedFollows, Zenon
<1>7. r[1] = t[1]
  <2>1. 1 \in 1..(m + k) /\ 1 <= at
    BY <1>4
  <2>. QED
    BY <1>2, <2>1, Zenon DEF Spliced
<1>8. r[m + k] = t[m]
  <2>1. m + k \in 1..(m + k) /\ ~(m + k <= at) /\ ~(m + k <= at + k) /\ (m + k) - k = m
    BY <1>0, <1>4
  <2>. QED
    BY <1>2, <2>1, Zenon DEF Spliced
<1>9. t[1].id \notin {"COMBATDAMAGE", "COMBATEND"} /\ t[m].id = "AFTER_EOT"
  BY <1>1 DEF Chained
<1>10. m + k > 0
  BY <1>0
<1>11. Chained(r)
  BY <1>2, <1>6, <1>7, <1>8, <1>9, <1>10, Zenon DEF Chained, Follows, FollowsUpTo
<1>. QED
  BY <1>1, <1>2, <1>11, Zenon

\* An extra combat behind a phase that has come: the cursor is on that phase
\* or on the first of the copies, and its list is as it must be.
LEMMA ExtraCombatIs ==
  ASSUME Chained(turn), current \in 1..Len(turn),
         NEW withMain \in BOOLEAN, NEW id, Extends(id, withMain),
         \E i \in 1..current : turn[i].id = id,
         addCombatAfter(id, withMain)
  PROVE  /\ Chained(turn') /\ current' \in 1..Len(turn')
         /\ \E i \in 1..current' : turn'[i].id = id
         /\ turn'[current'].id \in {id, "COMBATBEGIN"}
         /\ current > 1 =>
              current' > 1 /\ turn'[current' - 1].id \in {turn[current - 1].id, id}
<1>1. PICK m \in Nat : m = Len(turn)
  BY ChainedIs
<1>2. PICK at \in 1..m : /\ at = IndexOf(id) /\ turn[at].id = id /\ at <= current
  <2>1. PICK i \in 1..m : i <= current /\ turn[i].id = id
    BY <1>1
  <2>2. /\ IndexOf(id) \in 1..m /\ turn[IndexOf(id)].id = id
        /\ \A j \in 1..m : turn[j].id = id => IndexOf(id) <= j
    BY <1>1, <2>1, IndexOfIs
  <2>3. IndexOf(id) <= current
    BY <1>1, <2>1, <2>2
  <2>. QED
    BY <2>2, <2>3
<1>3. PICK extra \in Nat : extra = NextExtra
  BY NextExtraIsNatural
<1>4. PICK added : added = Copies(extra, withMain)
  OBVIOUS
<1>5. PICK k \in Nat : k = CopyCount(withMain) /\ k >= 5
  BY DEF CopyCount
<1>6. PICK r : r = Inserted(turn, added, at)
  OBVIOUS
<1>7. turn' = r /\ current' = CursorAfter(at)
  <2>1. at # 0
    OBVIOUS
  <2>2. CombatPhases \o (IF withMain THEN <<"SECONDMAIN">> ELSE <<>>) = ExtraIds(withMain)
    BY Zenon DEF ExtraIds
  <2>3. /\ turn' = AfterIndex(added, at)
        /\ current' = CursorAfter(at)
    BY <1>2, <1>3, <1>4, <2>1, <2>2, Zenon DEF addCombatAfter, Copies
  <2>. QED
    BY <1>6, <2>3, Zenon DEF AfterIndex, Inserted
<1>8. /\ added \in Seq(Phases) /\ Len(added) = k /\ FollowsUpTo(added, k)
      /\ added[1].id = "COMBATBEGIN" /\ "COMBATBEGIN" \in After(id)
      /\ \A z \in After(id) : z \in After(added[k].id)
  BY <1>4, <1>5, CopiesFollow, Zenon
<1>9. id # "AFTER_EOT"
  BY DEF Extends
<1>10. Chained(r) /\ Len(r) = m + k /\ Spliced(r, turn, added, at, m, k)
  <2>1. at \in 1..Len(turn) /\ turn[at].id # "AFTER_EOT" /\ Len(added) > 0
    BY <1>1, <1>2, <1>5, <1>8, <1>9
  <2>2. /\ added[1].id \in After(turn[at].id) /\ FollowsUpTo(added, Len(added))
        /\ \A z \in After(turn[at].id) : z \in After(added[Len(added)].id)
    BY <1>2, <1>8, Zenon
  <2>3. /\ Chained(Inserted(turn, added, at))
        /\ Len(Inserted(turn, added, at)) = Len(turn) + Len(added)
        /\ Spliced(Inserted(turn, added, at), turn, added, at, Len(turn), Len(added))
    BY <1>8, <2>1, <2>2, InsertionKeepsChain, Zenon
  <2>. QED
    BY <1>1, <1>6, <1>8, <2>3, Zenon
<1>11. /\ \A j \in 1..at : r[j] = turn[j]
       /\ r[at + 1] = added[1]
  <2>1. \A j \in 1..at : j \in 1..(m + k) /\ j <= at
    BY <1>1
  <2>2. at + 1 \in 1..(m + k) /\ ~(at + 1 <= at) /\ at + 1 <= at + k /\ (at + 1) - at = 1
    BY <1>5
  <2>. QED
    BY <1>10, <2>1, <2>2, Zenon DEF Spliced
<1>12. CASE current = at
  <2>1. current' = at
    BY <1>7, <1>12 DEF CursorAfter
  <2>2. at \in 1..(m + k)
    OBVIOUS
  <2>3. at > 1 => at - 1 \in 1..at
    OBVIOUS
  <2>. QED
    BY <1>2, <1>7, <1>10, <1>11, <1>12, <2>1, <2>2, <2>3
<1>13. CASE current > at
  <2>1. current' = at + 1 /\ at + 1 \in 1..(m + k) /\ at + 1 > 1 /\ (at + 1) - 1 = at /\ at \in 1..(at + 1)
    <3>1. current' = at + 1
      <4>1. current # at /\ ~(current < at)
        BY <1>1, <1>13
      <4>. QED
        BY <1>7, <1>13, <4>1 DEF CursorAfter
    <3>. QED
      BY <1>5, <3>1
  <2>2. turn'[at].id = id /\ turn'[at + 1].id = "COMBATBEGIN"
    BY <1>2, <1>7, <1>8, <1>11
  <2>. QED
    BY <1>7, <1>10, <2>1, <2>2
<1>. QED
  BY <1>1, <1>2, <1>12, <1>13

\* A phase is taken out: the phase behind the cursor stays behind it.
LEMMA RemovalIs ==
  ASSUME Chained(turn), current \in 1..Len(turn), NEW id, id \notin Kept, removePhase(id)
  PROVE  /\ Chained(turn') /\ current' \in 1..Len(turn')
         /\ (current > 1 /\ turn[current - 1].id # id) =>
              current' > 1 /\ turn'[current' - 1].id = turn[current - 1].id
<1>1. PICK m \in Nat : m = Len(turn)
  BY ChainedIs
<1>2. CASE IndexOf(id) = 0
  <2>1. turn' = turn /\ current' = current
    BY <1>2 DEF removePhase, ring
  <2>. QED
    BY <2>1
<1>3. CASE IndexOf(id) # 0
  <2>1. PICK at \in 1..m : at = IndexOf(id) /\ turn[at].id = id
    BY <1>1, <1>3, IndexOfIs
  <2>2. PICK r : r = RemoveAt(turn, at)
    OBVIOUS
  <2>3. turn' = r /\ current' = IF current > at THEN current - 1 ELSE current
    BY <1>3, <2>1, <2>2, Zenon DEF removePhase
  <2>4. at \in 1..Len(turn) /\ turn[at].id \notin Kept
    BY <1>1, <2>1
  <2>5. Chained(r)
    BY <2>2, <2>4, RemovalKeepsChain, Zenon
  <2>6. at # m /\ m - 1 \in Nat /\ (m - 1) + 1 = m /\ m - 1 >= 1
    <3>1. turn[m].id = "AFTER_EOT" /\ "AFTER_EOT" \in Kept
      BY <1>1 DEF Chained, Kept
    <3>2. at # m
      BY <2>1, <3>1
    <3>. QED
      BY <3>2
  <2>7. /\ Len(r) = m - 1
        /\ \A j \in 1..(m - 1) : r[j] = IF j < at THEN turn[j] ELSE turn[j + 1]
    <3>1. turn \in Seq(Phases) /\ (m - 1) + 1 = Len(turn)
      BY <1>1, <2>6 DEF Chained
    <3>2. /\ Len(RemoveAt(turn, at)) = m - 1
          /\ \A j \in 1..(m - 1) :
               RemoveAt(turn, at)[j] = IF j < at THEN turn[j] ELSE turn[j + 1]
      BY <2>4, <2>6, <3>1, RemoveAtIs, Zenon
    <3>. QED
      BY <2>2, <3>2, Zenon
  <2>8. PICK c \in 1..m : c = current
    BY <1>1
  <2>9. CASE c <= at
    <3>1. current' = c /\ c \in 1..(m - 1)
      BY <2>3, <2>6, <2>8, <2>9
    <3>2. c > 1 => r[c - 1] = turn[c - 1]
      BY <2>7, <2>9, <3>1
    <3>. QED
      BY <2>3, <2>5, <2>7, <2>8, <3>1, <3>2
  <2>10. CASE c > at
    <3>1. current' = c - 1 /\ c - 1 \in 1..(m - 1)
      BY <2>3, <2>8, <2>10
    <3>2. ASSUME turn[c - 1].id # id
          PROVE  c - 1 > 1 /\ r[(c - 1) - 1] = turn[c - 1]
      <4>1. c - 1 # at
        BY <2>1, <3>2
      <4>2. c - 1 > at /\ c - 1 > 1 /\ (c - 1) - 1 \in 1..(m - 1) /\ ~((c - 1) - 1 < at)
            /\ ((c - 1) - 1) + 1 = c - 1
        BY <2>10, <4>1
      <4>. QED
        BY <2>7, <4>2
    <3>. QED
      BY <2>3, <2>5, <2>7, <2>8, <3>1, <3>2
  <2>. QED
    BY <2>9, <2>10
<1>. QED
  BY <1>2, <1>3

-----------------------------------------------------------------------------
(* Short lists, written out. *)

LEMMA Appended1 ==
  ASSUME NEW a, NEW b
  PROVE  Append(<<a>>, b) = <<a, b>>
<1>. DEFINE S == {a, b}
            s == <<a>>
            t == <<a, b>>
<1>1. s \in Seq(S) /\ Len(s) = 1 /\ s[1] = a /\ b \in S
  OBVIOUS
<1>2. t \in Seq(S) /\ Len(t) = 2 /\ t[1] = a /\ t[2] = b
  OBVIOUS
<1>. HIDE DEF S, s, t
<1>3. Append(s, b) \in Seq(S) /\ Len(Append(s, b)) = 2 /\ Append(s, b)[1] = a /\ Append(s, b)[2] = b
  <2>1. /\ Append(s, b) \in Seq(S) /\ Len(Append(s, b)) = Len(s) + 1
        /\ \A i \in 1..Len(s) : Append(s, b)[i] = s[i]
        /\ Append(s, b)[Len(s) + 1] = b
    BY <1>1, AppendProperties, ZenonT(40)
  <2>2. Len(s) + 1 = 2 /\ 1 \in 1..Len(s)
    BY <1>1
  <2>. QED
    BY <1>1, <2>1, <2>2, Zenon
<1>4. Append(s, b) = t
  <2>1. PICK r : r = Append(s, b)
    OBVIOUS
  <2>2. r \in Seq(S) /\ Len(r) = Len(t) /\ \A i \in 1..Len(r) : r[i] = t[i]
    BY <1>2, <1>3, <2>1
  <2>. QED
    BY <1>2, <2>1, <2>2, SeqEqual
<1>. QED
  BY <1>4 DEF s, t

LEMMA Appended2 ==
  ASSUME NEW a, NEW b, NEW c
  PROVE  Append(<<a, b>>, c) = <<a, b, c>>
<1>. DEFINE S == {a, b, c}
            s == <<a, b>>
            t == <<a, b, c>>
<1>1. s \in Seq(S) /\ Len(s) = 2 /\ s[1] = a /\ s[2] = b /\ c \in S
  OBVIOUS
<1>2. t \in Seq(S) /\ Len(t) = 3 /\ t[1] = a /\ t[2] = b /\ t[3] = c
  OBVIOUS
<1>. HIDE DEF S, s, t
<1>3. /\ Append(s, c) \in Seq(S) /\ Len(Append(s, c)) = 3
      /\ Append(s, c)[1] = a /\ Append(s, c)[2] = b /\ Append(s, c)[3] = c
  <2>1. /\ Append(s, c) \in Seq(S) /\ Len(Append(s, c)) = Len(s) + 1
        /\ \A i \in 1..Len(s) : Append(s, c)[i] = s[i]
        /\ Append(s, c)[Len(s) + 1] = c
    <3>1. s \in Seq(S) /\ c \in S
      BY <1>1
    <3>. QED
      BY <3>1, AppendProperties
  <2>2. Len(s) + 1 = 3 /\ 1 \in 1..Len(s) /\ 2 \in 1..Len(s)
    BY <1>1
  <2>. QED
    BY <1>1, <2>1, <2>2, Zenon
<1>4. Append(s, c) = t
  <2>1. PICK r : r = Append(s, c)
    OBVIOUS
  <2>2. r \in Seq(S) /\ Len(r) = Len(t) /\ \A i \in 1..Len(r) : r[i] = t[i]
    BY <1>2, <1>3, <2>1
  <2>. QED
    BY <1>2, <2>1, <2>2, SeqEqual
<1>. QED
  BY <1>4 DEF s, t

LEMMA Joined1 ==
  ASSUME NEW a, NEW b
  PROVE  <<a>> \o <<b>> = <<a, b>>
<1>. DEFINE S == {a, b}
            s == <<a>>
<1>1. s \in Seq(S) /\ b \in S
  OBVIOUS
<1>. HIDE DEF S, s
<1>2. Append(s, b) = s \o <<b>>
  BY <1>1, AppendIsConcat
<1>. QED
  BY <1>2, Appended1 DEF s

LEMMA Joined21 ==
  ASSUME NEW a, NEW b, NEW c
  PROVE  <<a, b>> \o <<c>> = <<a, b, c>>
<1>. DEFINE S == {a, b, c}
            s == <<a, b>>
<1>1. s \in Seq(S) /\ c \in S
  OBVIOUS
<1>. HIDE DEF S, s
<1>2. Append(s, c) = s \o <<c>>
  BY <1>1, AppendIsConcat
<1>. QED
  BY <1>2, Appended2 DEF s

LEMMA Joined12 ==
  ASSUME NEW a, NEW b, NEW c
  PROVE  <<a>> \o <<b, c>> = <<a, b, c>>
<1>. DEFINE S == {a, b, c}
            s == <<a>>
            u == <<b>>
            w == <<c>>
<1>1. s \in Seq(S) /\ u \in Seq(S) /\ w \in Seq(S)
  OBVIOUS
<1>2. u \o w = <<b, c>> /\ s \o u = <<a, b>> /\ <<a, b>> \o w = <<a, b, c>>
  BY Joined1, Joined21
<1>. HIDE DEF S, s, u, w
<1>3. (s \o u) \o w = s \o (u \o w)
  BY <1>1, ConcatAssociative
<1>4. s \o <<b, c>> = <<a, b, c>>
  BY <1>2, <1>3, Zenon
<1>. QED
  BY <1>4 DEF s

-----------------------------------------------------------------------------
(* A number is left for a card whose abilities come. *)

LEMMA NewCardIsNatural ==
  ASSUME Len(alters) \in Nat, DOMAIN alters = 1..Len(alters)
  PROVE  NewCard \in Nat
<1>. DEFINE n == Len(alters)
            used == {alters[k].card : k \in DOMAIN alters}
            f == [k \in 1..n |-> alters[k].card]
<1>1. f \in Surjection(1..n, used)
  BY DEF Surjection
<1>. DEFINE free == (1..(n + 1)) \ used
<1>2. IsFiniteSet(1..n) /\ Cardinality(1..n) = n
  <2>1. 1 \in Int /\ n \in Int
    OBVIOUS
  <2>2. IsFiniteSet(1..n) /\ Cardinality(1..n) = IF 1 > n THEN 0 ELSE n - 1 + 1
    BY <2>1, FS_Interval
  <2>. QED
    BY <2>2
<1>3. IsFiniteSet(1..(n + 1)) /\ Cardinality(1..(n + 1)) = n + 1
  <2>1. 1 \in Int /\ n + 1 \in Int
    OBVIOUS
  <2>2. IsFiniteSet(1..(n + 1)) /\ Cardinality(1..(n + 1)) = IF 1 > n + 1 THEN 0 ELSE (n + 1) - 1 + 1
    BY <2>1, FS_Interval
  <2>. QED
    BY <2>2
<1>. HIDE DEF f, used
<1>4. IsFiniteSet(used) /\ Cardinality(used) <= n
  <2>1. IsFiniteSet(used) /\ Cardinality(used) <= Cardinality(1..n)
    BY <1>1, <1>2, FS_Surjection, Zenon
  <2>. QED
    BY <1>2, <2>1
<1>5. free # {}
  <2>. SUFFICES ASSUME 1..(n + 1) \subseteq used PROVE FALSE
    OBVIOUS
  <2>1. Cardinality(1..(n + 1)) <= Cardinality(used)
    BY <1>4, FS_Subset, Zenon
  <2>2. Cardinality(used) \in Nat
    BY <1>4, FS_CardinalityType
  <2>. QED
    BY <1>3, <1>4, <2>1, <2>2
<1>6. free \subseteq Nat
  OBVIOUS
<1>7. NewCard = Min(free)
  BY DEF NewCard, free, used
<1>. HIDE DEF free
<1>8. \E x \in free : \A y \in free : x <= y
  BY <1>5, <1>6, LeastExists
<1>9. Min(free) \in free
  BY <1>8 DEF Min
<1>. QED
  BY <1>6, <1>7, <1>9

-----------------------------------------------------------------------------
(* Damage. *)

\* The end of the first strike step deals the first strikers' damage.
LEMMA FirstStrikeDealt ==
  ASSUME CombatTyped, NoneDealt,
         resolve("END_FIRST_STRIKE", autoaffected("FIRST_STRIKE")),
         UNCHANGED <<attackers, blocking, blocked>>
  PROVE  FirstDealt' /\ hits' \in [Creatures -> Nat]
<1>. DEFINE H == Hitting("END_FIRST_STRIKE", autoaffected("FIRST_STRIKE"))
<1>1. /\ attackers \subseteq Attackers /\ blocking \in [Blockers -> attackers \cup {Nothing}]
      /\ Attackers \cap Blockers = {} /\ Nothing \notin Attackers
  BY CreaturesAssumption DEF CombatTyped
<1>2. \A c \in Creatures : hits'[c] = IF c \in H THEN 1 ELSE 0
  BY DEF resolve, NoneDealt
<1>3. \A a \in attackers : a \in H <=> (a \in Strikers /\ Unhindered(a))
  BY <1>1 DEF Hitting, Strikers, Unhindered, Strikes
<1>4. \A b \in Blockers : b \in H <=> (blocking[b] # Nothing /\ b \in Strikers)
  BY <1>1 DEF Hitting, Strikers, autoaffected, Strikes
<1>5. \A c \in H : c \in attackers \/ c \in Blockers
  BY <1>1 DEF Hitting
<1>6. \A a \in attackers : Unhindered(a)' = Unhindered(a)
  BY DEF Unhindered, BlockersOf
<1>. HIDE DEF H
<1>7. \A c \in Creatures : hits'[c] = 0 \/ (hits'[c] = 1 /\ c \in Strikers)
  BY <1>2, <1>3, <1>4, <1>5
<1>8. \A a \in attackers : (a \in Strikers /\ Unhindered(a)) => hits'[a] = 1
  BY <1>1, <1>2, <1>3 DEF Creatures
<1>9. \A b \in Blockers : (blocking[b] # Nothing /\ b \in Strikers) => hits'[b] = 1
  BY <1>2, <1>4 DEF Creatures
<1>10. hits' \in [Creatures -> Nat]
  BY DEF resolve, CombatTyped
<1>11. attackers' = attackers /\ blocking' = blocking
  OBVIOUS
<1>12. FirstDealt'
  BY <1>6, <1>7, <1>8, <1>9, <1>11 DEF FirstDealt
<1>. QED
  BY <1>10, <1>12

\* The assignment of the second step is what that step deals.
LEMMA DamageAssigned ==
  ASSUME CombatTyped, assigned' = autoaffected("DAMAGE"), UNCHANGED blocking
  PROVE  OnAttackers'
<1>1. /\ attackers \subseteq Attackers /\ blocking \in [Blockers -> attackers \cup {Nothing}]
      /\ Nothing \notin Attackers
  BY CreaturesAssumption DEF CombatTyped
<1>2. \A b \in Blockers : assigned'[b] = IF blocking[b] \in attackers /\ Strikes(b, "DAMAGE")
                                         THEN blocking[b] ELSE Nothing
  BY DEF autoaffected
<1>3. \A b \in Blockers : /\ assigned'[b] # Nothing => Strikes(b, "DAMAGE")
                          /\ (blocking[b] # Nothing /\ Strikes(b, "DAMAGE")) => assigned'[b] = blocking[b]
  BY <1>1, <1>2
<1>4. blocking' = blocking /\ \A b : Strikes(b, "DAMAGE")' = Strikes(b, "DAMAGE")
  BY DEF Strikes
<1>. QED
  BY <1>3, <1>4 DEF OnAttackers

\* The end of the second step deals the rest, and nobody's a second time.
LEMMA DamageDealt ==
  ASSUME CombatTyped, FirstDealt, OnAttackers, resolve("END_DAMAGE", assigned),
         UNCHANGED <<attackers, blocking, blocked>>
  PROVE  AllDealt' /\ hits' \in [Creatures -> Nat]
<1>. DEFINE H == Hitting("END_DAMAGE", assigned)
            Second(c) == c \notin FirstStrike \/ c \in DoubleStrike
<1>1. /\ attackers \subseteq Attackers /\ blocking \in [Blockers -> attackers \cup {Nothing}]
      /\ Attackers \cap Blockers = {} /\ Nothing \notin Attackers
      /\ hits \in [Creatures -> Nat]
  BY CreaturesAssumption DEF CombatTyped
<1>2. \A c \in Creatures : hits'[c] = IF c \in H THEN hits[c] + 1 ELSE hits[c]
  BY DEF resolve
<1>3. \A a \in attackers : a \in H <=> (Second(a) /\ Unhindered(a))
  BY <1>1 DEF Hitting, Unhindered, Strikes
<1>4. \A b \in Blockers : b \in H <=> assigned[b] # Nothing
  BY <1>1 DEF Hitting
<1>5. \A c \in H : c \in attackers \/ c \in Blockers
  BY <1>1 DEF Hitting
<1>6. \A b \in Blockers : /\ assigned[b] # Nothing => Second(b)
                          /\ (blocking[b] # Nothing /\ Second(b)) => assigned[b] # Nothing
  BY DEF OnAttackers, Strikes
<1>7. \A a \in attackers : Unhindered(a)' = Unhindered(a)
  BY DEF Unhindered, BlockersOf
<1>8. /\ \A c \in Creatures : hits[c] = 0 \/ (hits[c] = 1 /\ (c \in FirstStrike \/ c \in DoubleStrike))
      /\ \A a \in attackers : ((a \in FirstStrike \/ a \in DoubleStrike) /\ Unhindered(a)) => hits[a] = 1
      /\ \A b \in Blockers : (blocking[b] # Nothing /\ (b \in FirstStrike \/ b \in DoubleStrike)) => hits[b] = 1
  BY DEF FirstDealt, Strikers
<1>. HIDE DEF H
<1>9. \A c \in H : Second(c)
  BY <1>3, <1>4, <1>5, <1>6
<1>10. \A c \in Creatures : hits'[c] <= Strokes(c)
  BY <1>2, <1>8, <1>9 DEF Strokes
<1>11. \A a \in attackers : Unhindered(a) => hits'[a] = Strokes(a)
  <2>. SUFFICES ASSUME NEW a \in attackers, Unhindered(a) PROVE hits'[a] = Strokes(a)
    OBVIOUS
  <2>1. a \in Creatures
    BY <1>1 DEF Creatures
  <2>2. a \in H <=> Second(a)
    BY <1>3
  <2>3. hits'[a] = IF Second(a) THEN hits[a] + 1 ELSE hits[a]
    BY <1>2, <2>1, <2>2
  <2>4. hits[a] = IF a \in FirstStrike \/ a \in DoubleStrike THEN 1 ELSE 0
    BY <1>8, <2>1
  <2>. QED
    BY <2>3, <2>4 DEF Strokes
<1>12. \A b \in Blockers : blocking[b] # Nothing => hits'[b] = Strokes(b)
  <2>. SUFFICES ASSUME NEW b \in Blockers, blocking[b] # Nothing PROVE hits'[b] = Strokes(b)
    OBVIOUS
  <2>1. b \in Creatures
    BY DEF Creatures
  <2>2. b \in H <=> Second(b)
    BY <1>4, <1>6
  <2>3. hits'[b] = IF Second(b) THEN hits[b] + 1 ELSE hits[b]
    BY <1>2, <2>1, <2>2
  <2>4. hits[b] = IF b \in FirstStrike \/ b \in DoubleStrike THEN 1 ELSE 0
    BY <1>8, <2>1
  <2>. QED
    BY <2>3, <2>4 DEF Strokes
<1>13. hits' \in [Creatures -> Nat]
  BY <1>1 DEF resolve
<1>14. \A c : Strokes(c)' = Strokes(c)
  BY DEF Strokes
<1>15. AllDealt'
  BY <1>7, <1>10, <1>11, <1>12, <1>14 DEF AllDealt, DamageOnce
<1>. QED
  BY <1>13, <1>15

\* Who leaves a combat leaves what has been dealt and assigned as it must be.
LEMMA LeavingKeepsDamage ==
  ASSUME CombatTyped, CreatureLeaves
  PROVE  /\ CombatTyped'
         /\ FirstStrikers' \subseteq FirstStrikers
         /\ FirstDealt => FirstDealt'
         /\ AllDealt => AllDealt'
         /\ OnAttackers => OnAttackers'
         /\ NoneDealt => NoneDealt'
         /\ UNCHANGED <<step, cursor_pos>>
<1>1. /\ attackers \subseteq Attackers /\ blocked \subseteq Attackers
      /\ blocking \in [Blockers -> attackers \cup {Nothing}]
      /\ assigned \in [Blockers -> attackers \cup {Nothing}]
      /\ Attackers \cap Blockers = {} /\ Nothing \notin Attackers
  BY CreaturesAssumption DEF CombatTyped
<1>. DEFINE Weaker ==
       /\ attackers' \subseteq attackers /\ blocked' \subseteq Attackers
       /\ blocking' \in [Blockers -> attackers' \cup {Nothing}]
       /\ assigned' \in [Blockers -> attackers' \cup {Nothing}]
       /\ \A b \in Blockers : blocking'[b] # Nothing => blocking'[b] = blocking[b]
       /\ \A b \in Blockers : assigned'[b] # Nothing => assigned'[b] = assigned[b]
       /\ \A b \in Blockers : blocking'[b] # Nothing =>
            (assigned[b] = blocking[b] => assigned'[b] = blocking'[b])
       /\ \A a \in attackers' : (a \notin blocked' \/ {b \in Blockers : blocking'[b] = a} # {}) =>
            (a \notin blocked \/ {b \in Blockers : blocking[b] = a} # {})
       /\ UNCHANGED <<step, cursor_pos, hits>>
<1>2. ASSUME NEW a \in attackers, AttackerLeaves(a)
      PROVE  Weaker
  <2>1. /\ attackers' = attackers \ {a} /\ blocked' = blocked \ {a}
        /\ UNCHANGED <<step, cursor_pos, hits>>
        /\ blocking' = [b \in Blockers |-> IF blocking[b] \in attackers \ {a} THEN blocking[b] ELSE Nothing]
        /\ assigned' = [b \in Blockers |-> IF assigned[b] \in attackers \ {a} THEN assigned[b] ELSE Nothing]
    BY <1>2 DEF AttackerLeaves, Attacking
  <2>. QED
    BY <1>1, <2>1
<1>3. ASSUME NEW b \in Blockers, BlockerLeaves(b)
      PROVE  Weaker
  <2>1. /\ UNCHANGED <<attackers, blocked, assigned, step, cursor_pos, hits>>
        /\ blocking' = [blocking EXCEPT ![b] = Nothing]
    BY <1>3 DEF BlockerLeaves
  <2>. QED
    BY <1>1, <2>1
<1>4. ASSUME NEW b \in Blockers, blocking[b] # Nothing, Blocking(b, Nothing)
      PROVE  Weaker
  <2>1. /\ UNCHANGED <<attackers, assigned, step, cursor_pos, hits>>
        /\ blocking' = [blocking EXCEPT ![b] = Nothing]
        /\ blocked' = blocked \ {x \in Attackers : x = blocking[b] /\ BlockersOf(x) = {b}}
    BY <1>4 DEF Blocking
  <2>2. \A x \in attackers : x \notin blocked' => (x \notin blocked \/ blocking[b] = x)
    BY <2>1
  <2>. QED
    BY <1>1, <2>1, <2>2
<1>5. Weaker
  BY <1>2, <1>3, <1>4 DEF CreatureLeaves
<1>6. \A a \in attackers' : Unhindered(a)' => Unhindered(a)
  BY <1>5 DEF Unhindered, BlockersOf
<1>. HIDE DEF Weaker
<1>7. /\ attackers' \subseteq attackers /\ hits' = hits /\ step' = step /\ cursor_pos' = cursor_pos
      /\ blocked' \subseteq Attackers
      /\ blocking' \in [Blockers -> attackers' \cup {Nothing}]
      /\ assigned' \in [Blockers -> attackers' \cup {Nothing}]
  BY <1>5 DEF Weaker
<1>8. /\ \A b \in Blockers : blocking'[b] # Nothing => blocking'[b] = blocking[b]
      /\ \A b \in Blockers : assigned'[b] # Nothing => assigned'[b] = assigned[b]
      /\ \A b \in Blockers : blocking'[b] # Nothing =>
            (assigned[b] = blocking[b] => assigned'[b] = blocking'[b])
  BY <1>5 DEF Weaker
<1>9. CombatTyped'
  BY <1>1, <1>7 DEF CombatTyped
<1>10. FirstStrikers' \subseteq FirstStrikers
  BY <1>7 DEF FirstStrikers
<1>11. FirstDealt => FirstDealt'
  BY <1>6, <1>7, <1>8 DEF FirstDealt
<1>12. AllDealt => AllDealt'
  <2>1. \A c : Strokes(c)' = Strokes(c)
    BY DEF Strokes
  <2>. QED
    BY <1>6, <1>7, <1>8, <2>1 DEF AllDealt, DamageOnce
<1>13. OnAttackers => OnAttackers'
  <2>1. \A b : Strikes(b, "DAMAGE")' = Strikes(b, "DAMAGE")
    BY DEF Strikes
  <2>. QED
    BY <1>8, <2>1 DEF OnAttackers
<1>14. NoneDealt => NoneDealt'
  BY <1>7 DEF NoneDealt
<1>. QED
  BY <1>7, <1>9, <1>10, <1>11, <1>12, <1>13, <1>14

-----------------------------------------------------------------------------
(* Which of the actions can be next. *)

PlayersStep ==
  \/ Request \/ clickOK
  \/ \E a \in Attackers : toggleAttacker(a)
  \/ \E b \in Blockers, a \in attackers \cup {Nothing} : toggleDefenser(b, a)
  \/ CreatureLeaves
  \/ \E who \in Players, source \in Sources, ids \in Skips : GrantSkip(who, source, ids)
  \/ GrantCombatPhase \/ GrantCombatAfterMain \/ SourceLeaves
  \/ \E p \in Players : GrantTurn(p)

LEMMA PlayersWait ==
  ASSUME PlayersStep
  PROVE  Idle
<1>1. Request \/ clickOK => Idle
  BY DEF Request, clickOK
<1>2. \A a : toggleAttacker(a) => Idle
  BY DEF toggleAttacker
<1>3. \A a, b : toggleDefenser(b, a) => Idle
  BY DEF toggleDefenser
<1>4. CreatureLeaves \/ GrantCombatPhase \/ GrantCombatAfterMain \/ SourceLeaves => Idle
  BY DEF CreatureLeaves, GrantCombatPhase, GrantCombatAfterMain, SourceLeaves
<1>5. \A who, source, ids : GrantSkip(who, source, ids) => Idle
  BY DEF GrantSkip
<1>6. \A p : GrantTurn(p) => Idle
  BY DEF GrantTurn
<1>. QED
  BY <1>1, <1>2, <1>3, <1>4, <1>5, <1>6, Zenon DEF PlayersStep

LEMMA NextIs == Next <=> (Advance \/ PlayersStep)
  BY Zenon DEF Next, PlayersStep

\* A call that can go on does, and nothing else happens.
LEMMA CallGoesOn ==
  ASSUME Next, calls # <<>>, Head(calls).nested \/ eventsQueue = <<>>
  PROVE  /\ Head(calls).op = "forward" => forward
         /\ Head(calls).op = "move" => move
         /\ Head(calls).op = "landed" => landed
         /\ Head(calls).op = "arrive" => arrive
         /\ Head(calls).op = "entered" => entered
         /\ Head(calls).op = "nextGamePhase" => recurse
         /\ Head(calls).op = "update" => UpdateLayer
<1>1. ~PlayersStep
  BY PlayersWait, Zenon DEF Idle
<1>2. Advance
  BY <1>1, NextIs, Zenon
<1>3. ~HearPreChange /\ ~HearPhaseChange /\ ~HearCombatStep
  BY DEF HearPreChange, HearPhaseChange, HearCombatStep, Delivers
<1>4. /\ forward => Head(calls).op = "forward"
      /\ move => Head(calls).op = "move"
      /\ landed => Head(calls).op = "landed"
      /\ arrive => Head(calls).op = "arrive"
      /\ entered => Head(calls).op = "entered"
      /\ recurse => Head(calls).op = "nextGamePhase"
      /\ UpdateLayer => Head(calls).op = "update"
  BY Zenon DEF forward, move, landed, arrive, entered, recurse, UpdateLayer, Runs
<1>5. \/ forward \/ move \/ landed \/ arrive \/ entered \/ recurse \/ UpdateLayer
  BY <1>2, <1>3, Zenon DEF Advance
<1>. QED
  BY <1>4, <1>5

\* An event that is waited for is heard first.
LEMMA EventIsHeard ==
  ASSUME Next, eventsQueue # <<>>, calls # <<>> => ~Head(calls).nested
  PROVE  /\ Head(eventsQueue).type = "PhasePreChange" => HearPreChange
         /\ Head(eventsQueue).type = "PhaseChange" => HearPhaseChange
         /\ Head(eventsQueue).type = "CombatStepChange" => HearCombatStep
<1>1. ~PlayersStep
  BY PlayersWait, Zenon DEF Idle
<1>2. Advance
  BY <1>1, NextIs, Zenon
<1>3. \A op : ~Runs(op)
  BY DEF Runs
<1>4. ~(\/ forward \/ move \/ landed \/ arrive \/ entered \/ recurse \/ UpdateLayer)
  BY <1>3, Zenon DEF forward, move, landed, arrive, entered, recurse, UpdateLayer
<1>5. /\ HearPreChange => Head(eventsQueue).type = "PhasePreChange"
      /\ HearPhaseChange => Head(eventsQueue).type = "PhaseChange"
      /\ HearCombatStep => Head(eventsQueue).type = "CombatStepChange"
  BY Zenon DEF HearPreChange, HearPhaseChange, HearCombatStep, Delivers
<1>6. HearPreChange \/ HearPhaseChange \/ HearCombatStep
  BY <1>2, <1>4, Zenon DEF Advance
<1>. QED
  BY <1>5, <1>6

\* Without calls and events it is the players' turn.
LEMMA IdleIsForPlayers ==
  ASSUME Next, Idle
  PROVE  PlayersStep
<1>1. (\A op : ~Runs(op)) /\ (\A type : ~Delivers(type))
  BY DEF Runs, Delivers, Idle
<1>2. ~(\/ forward \/ move \/ landed \/ arrive \/ entered \/ recurse \/ UpdateLayer)
  BY <1>1, Zenon DEF forward, move, landed, arrive, entered, recurse, UpdateLayer
<1>3. ~(HearPreChange \/ HearPhaseChange \/ HearCombatStep)
  BY <1>1, Zenon DEF HearPreChange, HearPhaseChange, HearCombatStep
<1>. QED
  BY <1>2, <1>3, NextIs, Zenon DEF Advance

-----------------------------------------------------------------------------
(* The ring's own steps. *)

\* The warning of a change, and what is left to do when it has been heard.
LEMMA ForwardIs ==
  ASSUME RingTyped, forward, eventsQueue = <<>>, Head(calls).nested = FALSE
  PROVE  /\ RingTyped' /\ turn' = turn
         /\ \E m : /\ calls' = <<m>> \o Tail(calls)
                   /\ Heading(m)' /\ turn'[Here(m)'].id = currentPhase
<1>1. /\ Len(turn) \in Nat /\ current \in 1..Len(turn) /\ turn[Len(turn)].id = "AFTER_EOT"
      /\ \A i \in 1..Len(turn) : turn[i].id \in PhaseIds
      /\ \A i \in 1..Len(turn) : i # Len(turn) => turn[i + 1].id \in After(turn[i].id)
  BY ChainedIs DEF RingTyped, Chained
<1>2. PICK n : n = Len(turn)
  OBVIOUS
<1>3. PICK to : to = IF current < n THEN current + 1 ELSE current
  OBVIOUS
<1>4. PICK m : m = [op |-> "move", nested |-> FALSE, from |-> currentPhase,
                    turnSteps |-> n, notEnd |-> current < n]
  OBVIOUS
<1>5. PICK e : e = [type |-> "PhasePreChange", from |-> currentPhase, to |-> turn[to].id, heard |-> 0]
  OBVIOUS
<1>6. /\ current' = to /\ turn' = turn /\ calls' = <<m>> \o Tail(calls)
      /\ eventsQueue' = Append(eventsQueue, e)
  BY <1>2, <1>3, <1>4, <1>5 DEF forward
<1>7. eventsQueue' = <<e>>
  BY <1>6
<1>8. to \in 1..n /\ (current < n => to = current + 1 /\ to > 1 /\ to - 1 = current)
      /\ (~(current < n) => to = current /\ to = n)
  BY <1>1, <1>2, <1>3
<1>9. Here(m)' = current
  BY <1>4, <1>6, <1>8 DEF Here
<1>10. IsMove(m, FALSE)
  BY <1>1, <1>2, <1>4 DEF IsMove, currentPhase
<1>11. Warns(e, m)'
  <2>1. IsPreChange(e)
    BY <1>1, <1>2, <1>5, <1>8 DEF IsPreChange
  <2>2. CASE current < n
    <3>1. e.to \in After(turn[current].id)
      BY <1>1, <1>2, <1>5, <1>8, <2>2
    <3>2. m.notEnd = TRUE
      BY <1>4, <2>2
    <3>3. e.to = turn[to].id /\ to \in 1..to
      BY <1>5, <1>8
    <3>. QED
      BY <1>6, <1>9, <2>1, <3>1, <3>2, <3>3 DEF Warns, IsPreChange
  <2>3. CASE ~(current < n)
    <3>1. e.to = "AFTER_EOT"
      BY <1>1, <1>2, <1>5, <1>8, <2>3
    <3>2. ~m.notEnd
      BY <1>4, <2>3
    <3>. QED
      BY <1>6, <1>9, <2>1, <3>1, <3>2 DEF Warns, IsPreChange
  <2>. QED
    BY <2>2, <2>3
<1>12. Heading(m)'
  <2>1. IF m.notEnd THEN to > 1 ELSE to = n
    BY <1>4, <1>8
  <2>2. m.from = turn[current].id
    BY <1>4 DEF currentPhase
  <2>3. eventsQueue' # <<>> /\ eventsQueue'[1] = e /\ eventsQueue' = <<eventsQueue'[1]>>
    BY <1>7
  <2>. QED
    BY <1>2, <1>6, <1>9, <1>10, <1>11, <2>1, <2>2, <2>3 DEF Heading, IsMove
<1>13. RingTyped'
  BY <1>2, <1>6, <1>8 DEF RingTyped
<1>. QED
  BY <1>6, <1>9, <1>12, <1>13 DEF currentPhase

\* The ring's step, or a new start if the list has changed.
LEMMA MoveIs ==
  ASSUME RingTyped, move, eventsQueue = <<>>, NEW m, m = Head(calls), Heading(m)
  PROVE  /\ RingTyped'
         /\ \/ /\ calls' = <<Forward>> \o Tail(calls) /\ eventsQueue' = <<>>
               /\ currentPhase' = turn[Here(m)].id
            \/ /\ calls' = Tail(calls)
               /\ eventsQueue' = <<[type |-> "PhaseChange", from |-> m.from, to |-> currentPhase']>>
               /\ \/ currentPhase' \in After(turn[Here(m)].id)
                  \/ turn[Here(m)].id = "AFTER_EOT" /\ currentPhase' = "BEFORE_BEGIN"
<1>1. /\ Len(turn) \in Nat /\ current \in 1..Len(turn) /\ turn[Len(turn)].id = "AFTER_EOT"
      /\ \A i \in 1..Len(turn) : i # Len(turn) => turn[i + 1].id \in After(turn[i].id)
  BY ChainedIs DEF RingTyped, Chained
<1>2. PICK n : n = Len(turn)
  OBVIOUS
<1>3. m.nested = FALSE /\ (IF m.notEnd THEN current > 1 ELSE current = n) /\ m.notEnd \in BOOLEAN
  BY <1>2 DEF Heading, IsMove
<1>4. PICK here : here = Here(m) /\ here \in 1..n
  BY <1>1, <1>2, <1>3 DEF Here
<1>5. CASE ListChanged(m)
  <2>1. /\ calls' = <<Call("forward", m.nested)>> \o Tail(calls)
        /\ current' = here /\ turn' = turn /\ eventsQueue' = eventsQueue
    BY <1>4, <1>5 DEF move, Here
  <2>2. RingTyped' /\ currentPhase' = turn[here].id
    BY <1>2, <1>4, <2>1 DEF RingTyped, currentPhase
  <2>. QED
    BY <1>3, <1>4, <2>1, <2>2 DEF Forward
<1>6. CASE ~ListChanged(m)
  <2>1. /\ calls' = Tail(calls) /\ Moved(here)
        /\ eventsQueue' = Append(eventsQueue,
             [type |-> "PhaseChange", from |-> m.from, to |-> turn'[current'].id])
    BY <1>4, <1>6 DEF move, Here
  <2>2. eventsQueue' = <<[type |-> "PhaseChange", from |-> m.from, to |-> currentPhase']>>
    BY <2>1 DEF currentPhase
  <2>3. CASE here < n
    <3>1. current' = here + 1 /\ turn' = turn
      BY <1>2, <2>1, <2>3 DEF Moved
    <3>2. here + 1 \in 1..n /\ turn[here + 1].id \in After(turn[here].id)
      BY <1>1, <1>2, <1>4, <2>3
    <3>. QED
      BY <1>2, <1>4, <2>1, <2>2, <3>1, <3>2 DEF RingTyped, currentPhase
  <2>4. CASE ~(here < n)
    <3>1. current' = 1 /\ turn' = GameTurn
      BY <1>2, <2>1, <2>4 DEF Moved
    <3>2. here = n
      BY <1>1, <1>2, <1>4, <2>4
    <3>3. 1 \in 1..Len(GameTurn)
      BY GameTurnIs
    <3>. QED
      BY <1>1, <1>2, <1>4, <2>1, <2>2, <3>1, <3>2, <3>3, GameTurnIs DEF RingTyped, currentPhase
  <2>. QED
    BY <2>3, <2>4
<1>. QED
  BY <1>5, <1>6

-----------------------------------------------------------------------------
(* The abilities that alter the phases. *)

\* What an ability has done is marked in it; what it is for stays.
LEMMA MarkedIsTyped ==
  ASSUME alters \in Seq(Sparing), NEW n \in 1..Len(alters), NEW x \in BOOLEAN, NEW y \in BOOLEAN
  PROVE  [alters EXCEPT ![n].applied = x, ![n].done = y] \in Seq(Sparing)
<1>1. PICK a : a = alters[n]
  OBVIOUS
<1>2. a \in Sparing
  BY <1>1
<1>. DEFINE b == [a EXCEPT !.applied = x, !.done = y]
<1>3. a \in Alterations
  BY <1>2 DEF Sparing
<1>4. b \in Alterations /\ b.adding = a.adding /\ b.id = a.id
  BY <1>3 DEF Alterations
<1>5. b \in Sparing
  BY <1>2, <1>4 DEF Sparing
<1>6. [alters EXCEPT ![n].applied = x, ![n].done = y] = [alters EXCEPT ![n] = b]
  BY <1>1
<1>. HIDE DEF b
<1>7. [alters EXCEPT ![n] = b] \in Seq(Sparing)
  BY <1>5, ExceptSeq
<1>. QED
  BY <1>6, <1>7

\* An extra combat has been put in behind an end of combat that has come.
Extended ==
  /\ combatStep' = "BLOCKERS"
  /\ \E i \in 1..current' : turn'[i].id = "COMBATEND"
  /\ turn'[current'].id \in {"COMBATEND", "COMBATBEGIN"}
  /\ current > 1 => current' > 1 /\ turn'[current' - 1].id \in {turn[current - 1].id, "COMBATEND"}

\* A phase has been taken out.
Shortened(id) ==
  /\ UNCHANGED combatStep
  /\ (current > 1 /\ turn[current - 1].id # id) =>
       current' > 1 /\ turn'[current' - 1].id = turn[current - 1].id

LEMMA AlteringIs ==
  ASSUME RingTyped, alters \in Seq(Sparing), NEW n \in 1..Len(alters), NEW to,
         PhaseAltered(n, to), to = "COMBATEND" => \E i \in 1..current : turn[i].id = "COMBATEND"
  PROVE  /\ RingTyped' /\ alters' \in Seq(Sparing)
         /\ \/ UNCHANGED <<ring, combatStep>>
            \/ to = "COMBATEND" /\ Extended
            \/ to \notin Kept /\ Shortened(to)
<1>1. PICK a : a = alters[n]
  OBVIOUS
<1>2. a \in Alterations /\ IF a.adding THEN a.id = "COMBATEND" ELSE a.id \notin Kept
  BY <1>1 DEF Sparing
<1>. DEFINE his == a.who = currentPlayer
            found == IndexOf(a.id) # 0
            ended == to = "CLEANUP" /\ a.next /\ a.applied /\ ~his
            adds == a.adding /\ ~a.applied /\ to = a.id /\ his
            removes == ~a.adding /\ to = a.id /\ his
<1>3. /\ CASE adds    -> addCombatAfter(a.id, FALSE)
           [] removes -> removePhase(a.id)
           [] OTHER   -> UNCHANGED ring
      /\ combatStep' = IF adds /\ found THEN "BLOCKERS" ELSE combatStep
      /\ alters' = [alters EXCEPT ![n].applied = @ \/ ((adds \/ removes) /\ found),
                                  ![n].done = @ \/ ended]
  BY <1>1, Zenon DEF PhaseAltered
<1>4. alters' \in Seq(Sparing)
  <2>. DEFINE x == a.applied \/ ((adds \/ removes) /\ found)
              y == a.done \/ ended
  <2>1. x \in BOOLEAN /\ y \in BOOLEAN
    BY <1>2 DEF Alterations
  <2>2. alters' = [alters EXCEPT ![n].applied = x, ![n].done = y]
    BY <1>1, <1>3
  <2>. HIDE DEF x, y
  <2>. QED
    BY <2>1, <2>2, MarkedIsTyped
<1>5. /\ adds => addCombatAfter(a.id, FALSE)
      /\ removes => removePhase(a.id)
      /\ (~adds /\ ~removes) => UNCHANGED ring
  <2>1. adds => ~removes
    OBVIOUS
  <2>. HIDE DEF adds, removes
  <2>. QED
    BY <1>3, <2>1
<1>6. CASE adds
  <2>1. to = "COMBATEND" /\ a.id = "COMBATEND" /\ \E i \in 1..current : turn[i].id = "COMBATEND"
    BY <1>2, <1>6
  <2>2. addCombatAfter("COMBATEND", FALSE)
    BY <1>5, <1>6, <2>1
  <2>3. Extends("COMBATEND", FALSE) /\ Chained(turn) /\ current \in 1..Len(turn)
    BY DEF Extends, RingTyped
  <2>4. /\ Chained(turn') /\ current' \in 1..Len(turn')
        /\ \E i \in 1..current' : turn'[i].id = "COMBATEND"
        /\ turn'[current'].id \in {"COMBATEND", "COMBATBEGIN"}
        /\ current > 1 =>
              current' > 1 /\ turn'[current' - 1].id \in {turn[current - 1].id, "COMBATEND"}
    BY <2>1, <2>2, <2>3, ExtraCombatIs, Zenon
  <2>5. found
    <3>1. Len(turn) \in Nat /\ \E i \in 1..Len(turn) : turn[i].id = "COMBATEND"
      BY <2>1, <2>3, ChainedIs
    <3>. QED
      BY <2>1, <3>1, IndexOfIs
  <2>6. combatStep' = "BLOCKERS"
    BY <1>3, <1>6, <2>5, Zenon
  <2>. QED
    BY <1>4, <2>1, <2>4, <2>6, Zenon DEF Extended, RingTyped
<1>7. CASE removes
  <2>1. a.id = to /\ to \notin Kept /\ ~adds
    BY <1>2, <1>7
  <2>2. removePhase(to)
    BY <1>5, <1>7, <2>1
  <2>3. /\ Chained(turn') /\ current' \in 1..Len(turn')
        /\ (current > 1 /\ turn[current - 1].id # to) =>
              current' > 1 /\ turn'[current' - 1].id = turn[current - 1].id
    <3>1. Chained(turn) /\ current \in 1..Len(turn)
      BY DEF RingTyped
    <3>. QED
      BY <2>1, <2>2, <3>1, RemovalIs, Zenon
  <2>4. combatStep' = combatStep
    BY <1>3, <2>1, Zenon
  <2>. QED
    BY <1>4, <2>1, <2>3, <2>4, Zenon DEF Shortened, RingTyped
<1>8. CASE ~adds /\ ~removes
  <2>1. UNCHANGED ring /\ combatStep' = combatStep
    BY <1>3, <1>5, <1>8, Zenon
  <2>2. RingTyped'
    BY <2>1 DEF RingTyped, ring
  <2>. QED
    BY <1>4, <2>1, <2>2
<1>. QED
  BY <1>6, <1>7, <1>8

\* While the layers are warned of the next phase, the one behind the cursor
\* stays, or an end of combat takes its place.
LEMMA WarningKeepsHeading ==
  ASSUME RingTyped, alters \in Seq(Sparing), HearPreChange,
         NEW m, Heading(m), eventsQueue # <<>>
  PROVE  /\ RingTyped' /\ alters' \in Seq(Sparing) /\ Heading(m)'
         /\ \/ turn'[Here(m)'].id = turn[Here(m)].id
            \/ turn'[Here(m)'].id = "COMBATEND"
         /\ UNCHANGED calls
         /\ \/ turn'[Here(m)'].id = turn[Here(m)].id /\ combatStep' = combatStep
            \/ combatStep' = "BLOCKERS" /\ turn[Here(m)].id \in {"COMBATDAMAGE", "COMBATEND"}
<1>1. PICK e : eventsQueue = <<e>> /\ Warns(e, m)
  BY DEF Heading
<1>2. IsMove(m, FALSE) /\ (IF m.notEnd THEN current > 1 ELSE current = Len(turn))
  BY DEF Heading
<1>3. /\ Len(turn) \in Nat /\ current \in 1..Len(turn) /\ turn[Len(turn)].id = "AFTER_EOT"
  BY ChainedIs DEF RingTyped, Chained
<1>4. IsPreChange(e) /\ Head(eventsQueue) = e /\ e.heard \in Nat
  BY <1>1 DEF Warns, IsPreChange
<1>5. PICK n \in Nat : n = e.heard + 1 /\ n > 0
  BY <1>4
<1>6. CASE n > Len(alters)
  <2>1. /\ eventsQueue' = Tail(eventsQueue)
        /\ UNCHANGED <<ring, combatStep, alters, calls>>
    BY <1>4, <1>5, <1>6 DEF HearPreChange
  <2>2. eventsQueue' = <<>> /\ turn' = turn /\ current' = current /\ alters' = alters
    BY <1>1, <2>1 DEF ring
  <2>3. RingTyped' /\ Here(m)' = Here(m)
    BY <2>2 DEF RingTyped, Here
  <2>4. Heading(m)'
    BY <2>2, <2>3 DEF Heading, IsMove
  <2>. QED
    BY <2>1, <2>2, <2>3, <2>4
<1>7. CASE ~(n > Len(alters))
  <2>. DEFINE f == [e EXCEPT !.heard = n]
  <2>1. /\ eventsQueue' = [eventsQueue EXCEPT ![1].heard = n]
        /\ PhaseAltered(n, e.to) /\ UNCHANGED calls
    BY <1>4, <1>5, <1>7 DEF HearPreChange
  <2>2. eventsQueue' = <<f>> /\ IsPreChange(f) /\ f.to = e.to
    BY <1>1, <1>4, <2>1 DEF IsPreChange
  <2>. HIDE DEF f
  <2>3. n \in 1..Len(alters)
    BY <1>5, <1>7
  <2>4. e.to = "COMBATEND" => \E i \in 1..current : turn[i].id = "COMBATEND"
    BY <1>1 DEF Warns
  <2>5. /\ RingTyped' /\ alters' \in Seq(Sparing)
        /\ \/ UNCHANGED <<ring, combatStep>>
           \/ e.to = "COMBATEND" /\ Extended
           \/ e.to \notin Kept /\ Shortened(e.to)
    BY <2>1, <2>3, <2>4, AlteringIs, Zenon
  <2>6. CASE UNCHANGED <<ring, combatStep>>
    <3>1. turn' = turn /\ current' = current /\ combatStep' = combatStep
      BY <2>6 DEF ring
    <3>2. Here(m)' = Here(m)
      BY <3>1 DEF Here
    <3>3. Warns(f, m)'
      BY <1>1, <2>2, <3>1, <3>2 DEF Warns, IsPreChange
    <3>4. Heading(m)'
      BY <2>2, <3>1, <3>2, <3>3 DEF Heading, IsMove
    <3>. QED
      BY <2>1, <2>5, <3>1, <3>2, <3>4
  <2>7. CASE e.to = "COMBATEND" /\ Extended
    <3>1. m.notEnd
      BY <1>1, <2>7 DEF Warns
    <3>2. current > 1 /\ Here(m) = current - 1
      BY <1>2, <3>1 DEF Here
    <3>3. /\ current' > 1 /\ turn'[current' - 1].id \in {turn[current - 1].id, "COMBATEND"}
          /\ \E i \in 1..current' : turn'[i].id = "COMBATEND"
          /\ combatStep' = "BLOCKERS"
      BY <2>7, <3>2 DEF Extended
    <3>4. Here(m)' = current' - 1
      BY <3>1 DEF Here
    <3>5. turn[Here(m)].id \in {"COMBATDAMAGE", "COMBATEND"}
      <4>1. e.to \in After(turn[Here(m)].id) \/ turn[Here(m)].id = "COMBATEND"
        BY <1>1, <3>1 DEF Warns
      <4>. QED
        BY <2>7, <4>1, AfterIs
    <3>6. turn'[Here(m)'].id \in {turn[Here(m)].id, "COMBATEND"}
      BY <3>2, <3>3, <3>4
    <3>7. \/ f.to \in After(turn'[Here(m)'].id)
          \/ f.to = "COMBATEND" /\ turn'[Here(m)'].id = "COMBATEND"
      <4>1. "COMBATEND" \in After("COMBATDAMAGE")
        BY DEF After
      <4>. QED
        BY <2>2, <2>7, <3>5, <3>6, <4>1
    <3>8. Warns(f, m)'
      BY <2>2, <3>1, <3>3, <3>7 DEF Warns, IsPreChange
    <3>9. m.from # "COMBATATTACKERS"
      BY <3>5 DEF Heading
    <3>10. Heading(m)'
      BY <1>2, <2>2, <3>1, <3>3, <3>8, <3>9 DEF Heading, IsMove
    <3>. QED
      BY <2>1, <2>5, <3>3, <3>5, <3>6, <3>10
  <2>8. CASE e.to \notin Kept /\ Shortened(e.to)
    <3>1. m.notEnd
      BY <1>1, <2>8 DEF Warns, Kept
    <3>2. current > 1 /\ Here(m) = current - 1
      BY <1>2, <3>1 DEF Here
    <3>3. e.to \in After(turn[Here(m)].id) /\ e.to # "COMBATEND"
      BY <1>1, <2>8, <3>1 DEF Warns, Kept
    <3>4. turn[current - 1].id # e.to
      BY <3>2, <3>3, AfterIs
    <3>5. current' > 1 /\ turn'[current' - 1].id = turn[current - 1].id /\ combatStep' = combatStep
      BY <2>8, <3>2, <3>4 DEF Shortened
    <3>6. Here(m)' = current' - 1
      BY <3>1 DEF Here
    <3>7. turn'[Here(m)'].id = turn[Here(m)].id
      BY <3>2, <3>5, <3>6
    <3>8. Warns(f, m)'
      BY <2>2, <3>1, <3>3, <3>7 DEF Warns, IsPreChange
    <3>9. Heading(m)'
      BY <1>2, <2>2, <3>1, <3>5, <3>7, <3>8 DEF Heading, IsMove
    <3>. QED
      BY <2>1, <2>5, <3>5, <3>7, <3>9
  <2>. QED
    BY <2>5, <2>6, <2>7, <2>8
<1>8. Len(alters) \in Nat
  OBVIOUS
<1>. QED
  BY <1>6, <1>7

-----------------------------------------------------------------------------
(* What stays as it is, with what it depends on. *)

LEMMA TallySame ==
  ASSUME UNCHANGED <<currentGamePhase, combatStep, attackers, blocking, blocked, assigned, hits>>
  PROVE  /\ Tally(TRUE)' = Tally(TRUE) /\ Tally(FALSE)' = Tally(FALSE)
         /\ NoneDealt' = NoneDealt /\ AllDealt' = AllDealt
<1>1. \A a : Unhindered(a)' = Unhindered(a)
  BY DEF Unhindered, BlockersOf
<1>2. NoneDealt' = NoneDealt
  BY DEF NoneDealt
<1>3. AllDealt' = AllDealt
  BY <1>1, Zenon DEF AllDealt, DamageOnce, Strokes
<1>4. FirstDealt' = FirstDealt
  BY <1>1, Zenon DEF FirstDealt
<1>5. OnAttackers' = OnAttackers
  BY Zenon DEF OnAttackers, Strikes
<1>6. currentGamePhase' = currentGamePhase /\ combatStep' = combatStep
  OBVIOUS
<1>7. Tally(TRUE)' = Tally(TRUE)
  BY <1>2, <1>3, <1>4, <1>5, <1>6 DEF Tally
<1>8. Tally(FALSE)' = Tally(FALSE)
  BY <1>2, <1>3, <1>4, <1>5, <1>6 DEF Tally
<1>. QED
  BY <1>2, <1>3, <1>7, <1>8

LEMMA CombatTypedSame ==
  ASSUME CombatTyped, UNCHANGED combatVars
  PROVE  CombatTyped'
  BY DEF CombatTyped, combatVars

LEMMA FlowTypedSame ==
  ASSUME FlowTyped, UNCHANGED <<flow, turnCounts>>
  PROVE  FlowTyped'
  BY DEF FlowTyped, flow, turnCounts

LEMMA DepartsSame ==
  ASSUME UNCHANGED <<currentGamePhase, combatStep, combatVars>>
  PROVE  /\ Departs' = Departs /\ Skipping' = Skipping /\ Tally(TRUE)' = Tally(TRUE)
<1>1. UNCHANGED <<currentGamePhase, combatStep, attackers, blocking, blocked, assigned, hits, cursor_pos>>
  BY DEF combatVars
<1>2. Tally(TRUE)' = Tally(TRUE) /\ NoneDealt' = NoneDealt
  BY <1>1, TallySame
<1>3. Departs' = Departs
  BY <1>1, <1>2 DEF Departs, NoScreen
<1>4. Skipping' = Skipping
  BY <1>1, <1>2 DEF Skipping, NoScreen
<1>. QED
  BY <1>2, <1>3, <1>4

-----------------------------------------------------------------------------
(* From one phase to the next, step by step. *)

LEMMA LeavingNext ==
  ASSUME Typed, Leaving, Next
  PROVE  Typed' /\ Warned'
<1>1. PICK from \in PhaseIds :
        /\ calls = <<Forward, Land(FALSE, from)>> /\ eventsQueue = <<>>
        /\ Departs /\ Origin(currentPhase)
        /\ from = "COMBATATTACKERS" => currentPhase = "COMBATATTACKERS"
  BY Zenon DEF Leaving
<1>2. PICK f, l : f = Forward /\ l = Land(FALSE, from)
  OBVIOUS
<1>3. /\ calls # <<>> /\ Head(calls) = f /\ Tail(calls) = <<l>>
      /\ Head(calls).op = "forward" /\ Head(calls).nested = FALSE
  <2>1. calls = <<f, l>>
    BY <1>1, <1>2
  <2>2. f.op = "forward" /\ f.nested = FALSE
    BY <1>2 DEF Forward, Call
  <2>. QED
    BY <2>1, <2>2
<1>4. forward
  BY <1>1, <1>3, CallGoesOn
<1>5. PICK m : /\ calls' = <<m>> \o Tail(calls) /\ Heading(m)'
               /\ turn'[Here(m)'].id = currentPhase
  BY <1>1, <1>3, <1>4, ForwardIs DEF Typed
<1>6. RingTyped'
  BY <1>1, <1>3, <1>4, ForwardIs DEF Typed
<1>7. UNCHANGED <<combatVars, flow, turnCounts, alters>>
  BY <1>4 DEF forward
<1>8. Typed'
  <2>1. CombatTyped' /\ FlowTyped'
    BY <1>7, CombatTypedSame, FlowTypedSame DEF Typed
  <2>. QED
    BY <1>6, <1>7, <2>1 DEF Typed
<1>9. calls' = <<m, l>>
  BY <1>3, <1>5, Joined1
<1>10. UNCHANGED <<currentGamePhase, combatStep, combatVars>>
  BY <1>7 DEF flow
<1>11. Departs'
  BY <1>1, <1>10, DepartsSame
<1>12. Origin(turn[Here(m)].id)'
  BY <1>1, <1>5, <1>10 DEF Origin
<1>13. calls' # <<>> /\ calls'[1] = m /\ calls' = <<m, Land(FALSE, from)>>
  BY <1>2, <1>9
<1>14. from = "COMBATATTACKERS" => turn'[Here(m)'].id = "COMBATATTACKERS"
  BY <1>1, <1>5
<1>15. Warned'
  BY <1>5, <1>11, <1>12, <1>13, <1>14, Zenon DEF Warned
<1>. QED
  BY <1>8, <1>15

LEMMA SkipsBlockersNext ==
  ASSUME Typed, SkipsBlockers, Next
  PROVE  Typed' /\ SkipsBlockersWarned'
<1>1. /\ calls = <<Forward, Forward, ToEnd>> /\ eventsQueue = <<>>
      /\ Skipping /\ currentPhase = "COMBATBLOCKERS"
  BY DEF SkipsBlockers
<1>2. PICK g, l : g = Forward /\ l = ToEnd
  OBVIOUS
<1>3. /\ calls # <<>> /\ Head(calls) = g /\ Tail(calls) = <<g, l>>
      /\ Head(calls).op = "forward" /\ Head(calls).nested = FALSE
  <2>1. calls = <<g, g, l>>
    BY <1>1, <1>2
  <2>2. g.op = "forward" /\ g.nested = FALSE
    BY <1>2 DEF Forward, Call
  <2>. QED
    BY <2>1, <2>2
<1>4. forward
  BY <1>1, <1>3, CallGoesOn
<1>5. PICK m : /\ calls' = <<m>> \o Tail(calls) /\ Heading(m)'
               /\ turn'[Here(m)'].id = currentPhase
  BY <1>1, <1>3, <1>4, ForwardIs DEF Typed
<1>6. RingTyped'
  BY <1>1, <1>3, <1>4, ForwardIs DEF Typed
<1>7. UNCHANGED <<combatVars, flow, turnCounts, alters>>
  BY <1>4 DEF forward
<1>8. Typed'
  <2>1. CombatTyped' /\ FlowTyped'
    BY <1>7, CombatTypedSame, FlowTypedSame DEF Typed
  <2>. QED
    BY <1>6, <1>7, <2>1 DEF Typed
<1>9. calls' = <<m, g, l>>
  BY <1>3, <1>5, Joined12
<1>10. UNCHANGED <<currentGamePhase, combatStep, combatVars>>
  BY <1>7 DEF flow
<1>11. Skipping'
  BY <1>1, <1>10, DepartsSame
<1>12. calls' # <<>> /\ calls'[1] = m /\ calls' = <<m, Forward, ToEnd>>
  BY <1>2, <1>9
<1>13. SkipsBlockersWarned'
  <2>1. Forward' = Forward /\ ToEnd' = ToEnd
    BY DEF Forward, ToEnd, Call, Arrive
  <2>. QED
    BY <1>1, <1>5, <1>11, <1>12, <2>1, Zenon DEF SkipsBlockersWarned
<1>. QED
  BY <1>8, <1>13

\* Next is the warning, as long as it has not been heard by all, then the move.
LEMMA HeadingNext ==
  ASSUME Next, NEW m, calls # <<>>, Head(calls) = m, Heading(m)
  PROVE  (eventsQueue # <<>> /\ HearPreChange) \/ (eventsQueue = <<>> /\ move)
<1>1. m.op = "move" /\ m.nested = FALSE
  BY DEF Heading, IsMove
<1>2. CASE eventsQueue = <<>>
  BY <1>1, <1>2, CallGoesOn
<1>3. CASE eventsQueue # <<>>
  <2>1. PICK e : e = eventsQueue[1]
    OBVIOUS
  <2>2. eventsQueue = <<e>> /\ e.type = "PhasePreChange"
    BY <1>3, <2>1 DEF Heading, Warns, IsPreChange
  <2>3. Head(eventsQueue).type = "PhasePreChange"
    BY <2>2
  <2>. QED
    BY <1>1, <1>3, <2>3, EventIsHeard
<1>. QED
  BY <1>2, <1>3

\* What is typed stays so when only the ring, the step and the abilities change.
LEMMA WarningKeepsTypes ==
  ASSUME Typed, HearPreChange, RingTyped', alters' \in Seq(Sparing),
         combatStep' = combatStep \/ combatStep' = "BLOCKERS"
  PROVE  Typed' /\ UNCHANGED <<currentGamePhase, combatVars, currentPlayer, calls>>
<1>1. UNCHANGED <<combatVars, currentPlayer, currentGamePhase, turnCounts, calls>>
  BY DEF HearPreChange
<1>2. CombatTyped'
  BY <1>1, CombatTypedSame DEF Typed
<1>3. FlowTyped'
  BY <1>1 DEF Typed, FlowTyped, Steps, turnCounts
<1>. QED
  BY <1>1, <1>2, <1>3 DEF Typed

\* A move leaves everything but the ring, the calls and the events alone.
LEMMA MoveKeepsTypes ==
  ASSUME Typed, move, RingTyped'
  PROVE  Typed' /\ UNCHANGED <<currentGamePhase, combatStep, combatVars>>
<1>1. UNCHANGED <<combatVars, flow, turnCounts, alters>>
  BY DEF move
<1>2. CombatTyped' /\ FlowTyped'
  BY <1>1, CombatTypedSame, FlowTypedSame DEF Typed
<1>. QED
  BY <1>1, <1>2 DEF Typed, flow

LEMMA WarnedNext ==
  ASSUME Typed, Warned, Next
  PROVE  Typed' /\ (Warned' \/ Leaving' \/ Landed')
<1>1. PICK from \in PhaseIds, m \in {calls[1]} :
       /\ calls = <<m, Land(FALSE, from)>> /\ Heading(m)
       /\ Departs /\ Origin(turn[Here(m)].id)
       /\ from = "COMBATATTACKERS" => turn[Here(m)].id = "COMBATATTACKERS"
  BY Zenon DEF Warned
<1>2. PICK l : l = Land(FALSE, from)
  OBVIOUS
<1>3. calls # <<>> /\ Head(calls) = m /\ Tail(calls) = <<l>>
  <2>1. calls = <<m, l>>
    BY <1>1, <1>2
  <2>. QED
    BY <2>1
<1>4. (eventsQueue # <<>> /\ HearPreChange) \/ (eventsQueue = <<>> /\ move)
  BY <1>1, <1>3, HeadingNext
<1>5. RingTyped /\ alters \in Seq(Sparing)
  BY DEF Typed
<1>6. PICK id : id = turn[Here(m)].id
  OBVIOUS
<1>7. CASE eventsQueue # <<>> /\ HearPreChange
  <2>1. /\ RingTyped' /\ alters' \in Seq(Sparing) /\ Heading(m)'
        /\ turn'[Here(m)'].id = id \/ turn'[Here(m)'].id = "COMBATEND"
        /\ UNCHANGED calls
        /\ \/ turn'[Here(m)'].id = id /\ combatStep' = combatStep
           \/ combatStep' = "BLOCKERS" /\ id \in {"COMBATDAMAGE", "COMBATEND"}
    BY <1>1, <1>5, <1>6, <1>7, WarningKeepsHeading
  <2>2. Typed' /\ UNCHANGED <<currentGamePhase, combatVars>>
    BY <1>7, <2>1, WarningKeepsTypes
  <2>3. CASE turn'[Here(m)'].id = id /\ combatStep' = combatStep
    <3>1. Departs'
      BY <1>1, <2>2, <2>3, DepartsSame
    <3>2. Origin(turn[Here(m)].id)'
      BY <1>1, <1>6, <2>2, <2>3 DEF Origin
    <3>3. from = "COMBATATTACKERS" => turn'[Here(m)'].id = "COMBATATTACKERS"
      BY <1>1, <1>6, <2>3
    <3>4. Warned'
      BY <1>1, <2>1, <3>1, <3>2, <3>3 DEF Warned
    <3>. QED
      BY <2>2, <3>4
  <2>4. CASE combatStep' = "BLOCKERS" /\ id \in {"COMBATDAMAGE", "COMBATEND"}
    <3>1. PICK new : new = turn'[Here(m)'].id /\ new \in {id, "COMBATEND"}
      BY <2>1
    <3>2. currentGamePhase # "COMBATBLOCKERS" /\ Origin(id)
      BY <1>1, <1>6, <2>4 DEF Origin
    <3>3. currentGamePhase = "COMBATDAMAGE" => AllDealt
      BY <1>1 DEF Departs, Tally
    <3>4. /\ currentGamePhase \notin {"COMBATBLOCKERS", "COMBATDAMAGE", "COMBATEND"} => NoneDealt
          /\ currentGamePhase = "COMBATEND" => AllDealt
      BY <1>1 DEF Departs, Tally
    <3>5. NoneDealt' = NoneDealt /\ AllDealt' = AllDealt
      <4>1. \A a : Unhindered(a)' = Unhindered(a)
        BY <2>2 DEF Unhindered, BlockersOf, combatVars
      <4>. QED
        BY <2>2, <4>1, Zenon DEF NoneDealt, AllDealt, DamageOnce, Strokes, combatVars
    <3>6. Tally(TRUE)'
      BY <2>2, <2>4, <3>2, <3>3, <3>4, <3>5 DEF Tally
    <3>7. Departs'
      BY <1>1, <2>2, <2>4, <3>2, <3>6 DEF Departs, NoScreen, combatVars
    <3>8. Origin(new)'
      BY <2>2, <2>4, <3>1, <3>2 DEF Origin
    <3>9. from # "COMBATATTACKERS"
      BY <1>1, <1>6, <2>4
    <3>10. Warned'
      BY <1>1, <2>1, <3>1, <3>7, <3>8, <3>9 DEF Warned
    <3>. QED
      BY <2>2, <3>10
  <2>. QED
    BY <2>1, <2>3, <2>4
<1>8. CASE eventsQueue = <<>> /\ move
  <2>1. /\ RingTyped'
        /\ \/ /\ calls' = <<Forward>> \o Tail(calls) /\ eventsQueue' = <<>>
              /\ currentPhase' = id
           \/ /\ calls' = Tail(calls)
              /\ eventsQueue' = <<[type |-> "PhaseChange", from |-> m.from, to |-> currentPhase']>>
              /\ currentPhase' \in After(id) \/ (id = "AFTER_EOT" /\ currentPhase' = "BEFORE_BEGIN")
    BY <1>1, <1>3, <1>5, <1>6, <1>8, MoveIs
  <2>2. Typed' /\ UNCHANGED <<currentGamePhase, combatStep, combatVars>>
    BY <1>8, <2>1, MoveKeepsTypes
  <2>3. Departs'
    BY <1>1, <2>2, DepartsSame
  <2>4. CASE /\ calls' = <<Forward>> \o Tail(calls) /\ eventsQueue' = <<>>
             /\ currentPhase' = id
    <3>1. PICK f : f = Forward
      OBVIOUS
    <3>2. calls' = <<Forward, Land(FALSE, from)>>
      BY <1>2, <1>3, <2>4, <3>1, Joined1
    <3>3. Origin(currentPhase)'
      BY <1>1, <1>6, <2>2, <2>4 DEF Origin
    <3>4. Leaving'
      BY <1>1, <1>6, <2>3, <2>4, <3>2, <3>3 DEF Leaving, Forward, Call
    <3>. QED
      BY <2>2, <3>4
  <2>5. CASE /\ calls' = Tail(calls)
             /\ eventsQueue' = <<[type |-> "PhaseChange", from |-> m.from, to |-> currentPhase']>>
             /\ currentPhase' \in After(id) \/ (id = "AFTER_EOT" /\ currentPhase' = "BEFORE_BEGIN")
    <3>1. PICK e : e = [type |-> "PhaseChange", from |-> m.from, to |-> currentPhase']
      OBVIOUS
    <3>2. PICK y : y = currentPhase'
      OBVIOUS
    <3>3. /\ y = "COMBATDAMAGE" <=> id = "COMBATBLOCKERS"
          /\ y = "COMBATEND" <=> id = "COMBATDAMAGE"
          /\ id = "COMBATATTACKERS" => y = "COMBATBLOCKERS"
      BY <2>5, <3>2, AfterIs
    <3>4. Origin(id)
      BY <1>1, <1>6
    <3>5. currentGamePhase \notin {"COMBATBLOCKERS", "COMBATDAMAGE"} => combatStep = "BLOCKERS"
      BY <1>1 DEF Departs
    <3>6. Lands'
      BY <2>2, <3>2, <3>3, <3>4, <3>5 DEF Lands, Origin
    <3>7. m.from = "COMBATATTACKERS" => currentGamePhase = "COMBATATTACKERS"
      BY <1>1, <1>6, <3>4 DEF Heading, Origin
    <3>8. Changes'
      <4>1. eventsQueue' = <<e>> /\ e.type = "PhaseChange" /\ e.to = y /\ e.from = m.from
        BY <2>5, <3>1, <3>2
      <4>2. eventsQueue' # <<>> /\ eventsQueue'[1] = e
        BY <4>1
      <4>. QED
        BY <2>2, <3>2, <3>7, <4>1, <4>2 DEF Changes
    <3>9. from = "COMBATATTACKERS" => currentGamePhase' = "COMBATATTACKERS" /\ currentPhase' = "COMBATBLOCKERS"
      BY <1>1, <1>6, <2>2, <3>2, <3>3, <3>4 DEF Origin
    <3>10. calls' = <<Land(FALSE, from)>>
      BY <1>2, <1>3, <2>5
    <3>11. Landed'
      BY <2>3, <3>6, <3>8, <3>9, <3>10 DEF Landed
    <3>. QED
      BY <2>2, <3>11
  <2>. QED
    BY <2>1, <2>4, <2>5
<1>. QED
  BY <1>4, <1>7, <1>8

LEMMA SkipsBlockersWarnedNext ==
  ASSUME Typed, SkipsBlockersWarned, Next
  PROVE  Typed' /\ (SkipsBlockersWarned' \/ SkipsBlockers' \/ SkipsDamage')
<1>1. PICK m \in {calls[1]} :
       /\ calls = <<m, Forward, ToEnd>> /\ Heading(m)
       /\ Skipping /\ turn[Here(m)].id = "COMBATBLOCKERS"
  BY Zenon DEF SkipsBlockersWarned
<1>2. PICK g, l : g = Forward /\ l = ToEnd
  OBVIOUS
<1>3. calls # <<>> /\ Head(calls) = m /\ Tail(calls) = <<g, l>>
  <2>1. calls = <<m, g, l>>
    BY <1>1, <1>2
  <2>. QED
    BY <2>1
<1>4. (eventsQueue # <<>> /\ HearPreChange) \/ (eventsQueue = <<>> /\ move)
  BY <1>1, <1>3, HeadingNext
<1>5. RingTyped /\ alters \in Seq(Sparing)
  BY DEF Typed
<1>6. g' = Forward' /\ l' = ToEnd' /\ Forward' = Forward /\ ToEnd' = ToEnd
  BY <1>2 DEF Forward, ToEnd, Call, Arrive
<1>7. CASE eventsQueue # <<>> /\ HearPreChange
  <2>1. /\ RingTyped' /\ alters' \in Seq(Sparing) /\ Heading(m)'
        /\ UNCHANGED calls
        /\ turn'[Here(m)'].id = "COMBATBLOCKERS" /\ combatStep' = combatStep
    BY <1>1, <1>5, <1>7, WarningKeepsHeading
  <2>2. Typed' /\ UNCHANGED <<currentGamePhase, combatVars>>
    BY <1>7, <2>1, WarningKeepsTypes
  <2>3. Skipping'
    BY <1>1, <2>1, <2>2, DepartsSame
  <2>4. SkipsBlockersWarned'
    BY <1>1, <1>6, <2>1, <2>3 DEF SkipsBlockersWarned
  <2>. QED
    BY <2>2, <2>4
<1>8. CASE eventsQueue = <<>> /\ move
  <2>1. /\ RingTyped'
        /\ \/ /\ calls' = <<Forward>> \o Tail(calls) /\ eventsQueue' = <<>>
              /\ currentPhase' = "COMBATBLOCKERS"
           \/ /\ calls' = Tail(calls)
              /\ eventsQueue' = <<[type |-> "PhaseChange", from |-> m.from, to |-> currentPhase']>>
              /\ currentPhase' \in After("COMBATBLOCKERS")
    BY <1>1, <1>3, <1>5, <1>8, MoveIs
  <2>2. Typed' /\ UNCHANGED <<currentGamePhase, combatStep, combatVars>>
    BY <1>8, <2>1, MoveKeepsTypes
  <2>3. Skipping'
    BY <1>1, <2>2, DepartsSame
  <2>4. CASE /\ calls' = <<Forward>> \o Tail(calls) /\ eventsQueue' = <<>>
             /\ currentPhase' = "COMBATBLOCKERS"
    <3>1. calls' = <<g, g, l>>
      BY <1>2, <1>3, <2>4, Joined12
    <3>2. SkipsBlockers'
      BY <1>2, <1>6, <2>3, <2>4, <3>1 DEF SkipsBlockers
    <3>. QED
      BY <2>2, <3>2
  <2>5. CASE /\ calls' = Tail(calls)
             /\ eventsQueue' = <<[type |-> "PhaseChange", from |-> m.from, to |-> currentPhase']>>
             /\ currentPhase' \in After("COMBATBLOCKERS")
    <3>1. PICK e : e = [type |-> "PhaseChange", from |-> m.from, to |-> currentPhase']
      OBVIOUS
    <3>2. PICK y : y = currentPhase' /\ y = "COMBATDAMAGE"
      BY <2>5, AfterIs
    <3>3. m.from \in PhaseIds \ {"COMBATATTACKERS"}
      BY <1>1 DEF Heading, IsMove
    <3>4. "COMBATDAMAGE" \in PhaseIds
      BY <2>5, <3>2, AfterIs
    <3>5. e.type = "PhaseChange" /\ e.from = m.from /\ e.to = y
      BY <3>1, <3>2
    <3>6. IsChange(e) /\ eventsQueue' = <<e>>
      BY <2>5, <3>1, <3>2, <3>3, <3>4, <3>5 DEF IsChange
    <3>7. SkipsChanges'
      BY <3>6 DEF SkipsChanges, IsChange
    <3>8. calls' = <<g, l>>
      BY <1>3, <2>5
    <3>9. SkipsDamage'
      BY <1>2, <1>6, <2>3, <3>2, <3>7, <3>8 DEF SkipsDamage
    <3>. QED
      BY <2>2, <3>9
  <2>. QED
    BY <2>1, <2>4, <2>5
<1>. QED
  BY <1>4, <1>7, <1>8

LEMMA SkipsDamageWarnedNext ==
  ASSUME Typed, SkipsDamageWarned, Next
  PROVE  Typed' /\ (SkipsDamageWarned' \/ SkipsDamage' \/ SkipsToEnd')
<1>1. PICK m \in {calls[1]} :
       /\ calls = <<m, ToEnd>> /\ Heading(m)
       /\ Skipping /\ turn[Here(m)].id \in {"COMBATDAMAGE", "COMBATEND"}
  BY Zenon DEF SkipsDamageWarned
<1>2. PICK l : l = ToEnd
  OBVIOUS
<1>3. calls # <<>> /\ Head(calls) = m /\ Tail(calls) = <<l>>
  <2>1. calls = <<m, l>>
    BY <1>1, <1>2
  <2>. QED
    BY <2>1
<1>4. (eventsQueue # <<>> /\ HearPreChange) \/ (eventsQueue = <<>> /\ move)
  BY <1>1, <1>3, HeadingNext
<1>5. RingTyped /\ alters \in Seq(Sparing)
  BY DEF Typed
<1>6. Forward' = Forward /\ ToEnd' = ToEnd
  BY DEF Forward, ToEnd, Call, Arrive
<1>0. PICK id : id = turn[Here(m)].id /\ id \in {"COMBATDAMAGE", "COMBATEND"}
  BY <1>1
<1>7. CASE eventsQueue # <<>> /\ HearPreChange
  <2>1. /\ RingTyped' /\ alters' \in Seq(Sparing) /\ Heading(m)'
        /\ UNCHANGED calls
        /\ turn'[Here(m)'].id \in {"COMBATDAMAGE", "COMBATEND"}
        /\ combatStep' = combatStep \/ combatStep' = "BLOCKERS"
    BY <1>1, <1>5, <1>7, WarningKeepsHeading
  <2>2. combatStep = "BLOCKERS"
    BY <1>1 DEF Skipping
  <2>3. Typed' /\ UNCHANGED <<currentGamePhase, combatVars>>
    BY <1>7, <2>1, WarningKeepsTypes
  <2>4. Skipping'
    BY <1>1, <2>1, <2>2, <2>3, DepartsSame
  <2>5. SkipsDamageWarned'
    BY <1>1, <1>6, <2>1, <2>4 DEF SkipsDamageWarned
  <2>. QED
    BY <2>3, <2>5
<1>8. CASE eventsQueue = <<>> /\ move
  <2>1. /\ RingTyped'
        /\ \/ /\ calls' = <<Forward>> \o Tail(calls) /\ eventsQueue' = <<>>
              /\ currentPhase' = id
           \/ /\ calls' = Tail(calls)
              /\ eventsQueue' = <<[type |-> "PhaseChange", from |-> m.from, to |-> currentPhase']>>
              /\ currentPhase' \in After(id)
    BY <1>0, <1>1, <1>3, <1>5, <1>8, MoveIs
  <2>2. Typed' /\ UNCHANGED <<currentGamePhase, combatStep, combatVars>>
    BY <1>8, <2>1, MoveKeepsTypes
  <2>3. Skipping'
    BY <1>1, <2>2, DepartsSame
  <2>4. CASE /\ calls' = <<Forward>> \o Tail(calls) /\ eventsQueue' = <<>>
             /\ currentPhase' = id
    <3>0. PICK g : g = Forward
      OBVIOUS
    <3>1. calls' = <<g, l>>
      BY <1>3, <2>4, <3>0, Joined1
    <3>2. SkipsDamage'
      BY <1>0, <1>2, <1>6, <2>3, <2>4, <3>0, <3>1 DEF SkipsDamage, SkipsChanges
    <3>. QED
      BY <2>2, <3>2
  <2>5. CASE /\ calls' = Tail(calls)
             /\ eventsQueue' = <<[type |-> "PhaseChange", from |-> m.from, to |-> currentPhase']>>
             /\ currentPhase' \in After(id)
    <3>1. PICK e : e = [type |-> "PhaseChange", from |-> m.from, to |-> currentPhase']
      OBVIOUS
    <3>2. PICK y : y = currentPhase' /\ y \in After(id)
      BY <2>5
    <3>3. m.from \in PhaseIds \ {"COMBATATTACKERS"}
      BY <1>1 DEF Heading, IsMove
    <3>4. y \in PhaseIds /\ y # "COMBATDAMAGE"
      BY <1>0, <3>2, AfterIs
    <3>5. e.type = "PhaseChange" /\ e.from = m.from /\ e.to = y
      BY <3>1, <3>2
    <3>6. IsChange(e) /\ eventsQueue' = <<e>>
      BY <2>5, <3>1, <3>2, <3>3, <3>4, <3>5 DEF IsChange
    <3>7. SkipsChanges'
      BY <3>6 DEF SkipsChanges, IsChange
    <3>8. calls' = <<l>>
      BY <1>3, <2>5
    <3>9. SkipsToEnd'
      BY <1>2, <1>6, <2>3, <3>2, <3>4, <3>7, <3>8 DEF SkipsToEnd
    <3>. QED
      BY <2>2, <3>9
  <2>. QED
    BY <2>1, <2>4, <2>5
<1>. QED
  BY <1>4, <1>7, <1>8

\* The screen goes when a phase is entered, but for the damage; who attacks
\* changes only at the end of the declaration.
LEMMA ChangeIsHeard ==
  ASSUME Typed, HearPhaseChange, NEW e, e = Head(eventsQueue)
  PROVE  /\ Typed'
         /\ UNCHANGED <<ring, currentGamePhase, combatStep, currentPlayer, hits, calls>>
         /\ eventsQueue' = Tail(eventsQueue)
         /\ IF e.to = "COMBATDAMAGE" THEN cursor_pos' = cursor_pos /\ step' = "BLOCKERS"
            ELSE cursor_pos' = "NONE" /\ step' = step
         /\ NoneDealt' = NoneDealt
         /\ e.from # "COMBATATTACKERS" =>
              /\ UNCHANGED <<attackers, blocking, blocked, assigned>>
              /\ Tally(TRUE)' = Tally(TRUE) /\ Tally(FALSE)' = Tally(FALSE)
<1>1. /\ OnPhaseChange(e.to)
      /\ IF e.from = "COMBATATTACKERS" THEN \E S \in SUBSET Attackers : Attacking(S)
         ELSE UNCHANGED <<attackers, blocking, assigned>>
      /\ eventsQueue' = Tail(eventsQueue)
      /\ UNCHANGED <<ring, blocked, hits, flow, turnCounts, alters, calls>>
  BY DEF HearPhaseChange
<1>2. IF e.to = "COMBATDAMAGE" THEN cursor_pos' = cursor_pos /\ step' = "BLOCKERS"
      ELSE cursor_pos' = "NONE" /\ step' = step
  BY <1>1 DEF OnPhaseChange
<1>3. step' \in Steps /\ cursor_pos' \in {"NONE", "ATK"}
  BY <1>2 DEF Typed, CombatTyped, Steps
<1>4. /\ attackers' \subseteq Attackers
      /\ blocking' \in [Blockers -> attackers' \cup {Nothing}]
      /\ assigned' \in [Blockers -> attackers' \cup {Nothing}]
  <2>1. CASE e.from = "COMBATATTACKERS"
    <3>1. PICK S \in SUBSET Attackers : Attacking(S)
      BY <1>1, <2>1
    <3>. QED
      BY <3>1 DEF Attacking
  <2>2. CASE e.from # "COMBATATTACKERS"
    BY <1>1, <2>2 DEF Typed, CombatTyped
  <2>. QED
    BY <2>1, <2>2
<1>5. CombatTyped'
  BY <1>1, <1>3, <1>4 DEF Typed, CombatTyped
<1>6. FlowTyped' /\ RingTyped'
  BY <1>1, FlowTypedSame DEF Typed, RingTyped, ring
<1>7. Typed'
  BY <1>1, <1>5, <1>6 DEF Typed
<1>8. NoneDealt' = NoneDealt
  BY <1>1 DEF NoneDealt
<1>9. e.from # "COMBATATTACKERS" =>
              /\ UNCHANGED <<attackers, blocking, blocked, assigned>>
              /\ Tally(TRUE)' = Tally(TRUE) /\ Tally(FALSE)' = Tally(FALSE)
  BY <1>1, TallySame DEF flow
<1>. QED
  BY <1>1, <1>2, <1>7, <1>8, <1>9 DEF flow

\* A change on the way to the end of combat is heard.
LEMMA SkippingIsHeard ==
  ASSUME Typed, Skipping, SkipsChanges, eventsQueue # <<>>, Next,
         calls # <<>>, ~Head(calls).nested
  PROVE  Typed' /\ Skipping' /\ eventsQueue' = <<>> /\ UNCHANGED <<ring, calls>>
<1>1. PICK e : eventsQueue = <<e>> /\ IsChange(e)
  BY DEF SkipsChanges
<1>2. Head(eventsQueue) = e /\ Tail(eventsQueue) = <<>> /\ e.type = "PhaseChange" /\ e.from # "COMBATATTACKERS"
  BY <1>1 DEF IsChange
<1>3. HearPhaseChange
  BY <1>2, EventIsHeard
<1>4. /\ Typed'
      /\ UNCHANGED <<ring, currentGamePhase, combatStep, calls, attackers>>
      /\ eventsQueue' = <<>>
      /\ cursor_pos' = cursor_pos \/ cursor_pos' = "NONE"
      /\ NoneDealt' = NoneDealt
  BY <1>2, <1>3, ChangeIsHeard
<1>5. Skipping'
  BY <1>4 DEF Skipping, NoScreen
<1>. QED
  BY <1>4, <1>5

LEMMA SkipsDamageNext ==
  ASSUME Typed, SkipsDamage, Next
  PROVE  Typed' /\ (SkipsDamage' \/ SkipsDamageWarned')
<1>1. /\ calls = <<Forward, ToEnd>> /\ SkipsChanges
      /\ Skipping /\ currentPhase \in {"COMBATDAMAGE", "COMBATEND"}
  BY DEF SkipsDamage
<1>2. PICK g, l : g = Forward /\ l = ToEnd
  OBVIOUS
<1>3. /\ calls # <<>> /\ Head(calls) = g /\ Tail(calls) = <<l>>
      /\ Head(calls).op = "forward" /\ Head(calls).nested = FALSE
  <2>1. calls = <<g, l>>
    BY <1>1, <1>2
  <2>2. g.op = "forward" /\ g.nested = FALSE
    BY <1>2 DEF Forward, Call
  <2>. QED
    BY <2>1, <2>2
<1>4. Forward' = Forward /\ ToEnd' = ToEnd
  BY DEF Forward, ToEnd, Call, Arrive
<1>5. CASE eventsQueue # <<>>
  <2>1. Typed' /\ Skipping' /\ eventsQueue' = <<>> /\ UNCHANGED <<ring, calls>>
    BY <1>1, <1>3, <1>5, SkippingIsHeard
  <2>2. SkipsDamage'
    BY <1>1, <1>4, <2>1 DEF SkipsDamage, SkipsChanges, currentPhase, ring
  <2>. QED
    BY <2>1, <2>2
<1>6. CASE eventsQueue = <<>>
  <2>1. forward
    BY <1>3, <1>6, CallGoesOn
  <2>2. PICK m : /\ calls' = <<m>> \o Tail(calls) /\ Heading(m)'
                 /\ turn'[Here(m)'].id = currentPhase
    BY <1>3, <1>6, <2>1, ForwardIs DEF Typed
  <2>3. RingTyped'
    BY <1>3, <1>6, <2>1, ForwardIs DEF Typed
  <2>4. UNCHANGED <<combatVars, flow, turnCounts, alters>>
    BY <2>1 DEF forward
  <2>5. Typed'
    <3>1. CombatTyped' /\ FlowTyped'
      BY <2>4, CombatTypedSame, FlowTypedSame DEF Typed
    <3>. QED
      BY <2>3, <2>4, <3>1 DEF Typed
  <2>6. calls' = <<m, l>>
    BY <1>3, <2>2, Joined1
  <2>7. UNCHANGED <<currentGamePhase, combatStep, combatVars>>
    BY <2>4 DEF flow
  <2>8. Skipping'
    BY <1>1, <2>7, DepartsSame
  <2>9. calls' # <<>> /\ calls'[1] = m /\ calls' = <<m, ToEnd>>
    BY <1>2, <2>6
  <2>10. SkipsDamageWarned'
    BY <1>1, <1>4, <2>2, <2>8, <2>9, Zenon DEF SkipsDamageWarned
  <2>. QED
    BY <2>5, <2>10
<1>. QED
  BY <1>5, <1>6

-----------------------------------------------------------------------------
(* A phase is entered. *)

LEMMA DealtSame ==
  ASSUME UNCHANGED <<attackers, blocking, blocked, assigned, hits>>
  PROVE  /\ NoneDealt' = NoneDealt /\ AllDealt' = AllDealt
         /\ FirstDealt' = FirstDealt /\ OnAttackers' = OnAttackers
         /\ FirstStrikers' = FirstStrikers
<1>1. \A a : Unhindered(a)' = Unhindered(a)
  BY DEF Unhindered, BlockersOf
<1>2. NoneDealt' = NoneDealt
  BY DEF NoneDealt
<1>3. AllDealt' = AllDealt
  BY <1>1, Zenon DEF AllDealt, DamageOnce, Strokes
<1>4. FirstDealt' = FirstDealt
  BY <1>1, Zenon DEF FirstDealt
<1>5. OnAttackers' = OnAttackers
  BY Zenon DEF OnAttackers, Strikes
<1>6. FirstStrikers' = FirstStrikers
  BY DEF FirstStrikers
<1>. QED
  BY <1>2, <1>3, <1>4, <1>5, <1>6

\* The next step begins with what the one before it has dealt.
LEMMA StepTallies ==
  ASSUME Tally(TRUE), currentGamePhase \in {"COMBATBLOCKERS", "COMBATDAMAGE"},
         currentGamePhase' \in {"COMBATBLOCKERS", "COMBATDAMAGE"},
         combatStep \in Steps \ {"END_DAMAGE"},
         currentGamePhase = "COMBATDAMAGE" => combatStep # "BLOCKERS",
         combatStep' = NextStep[combatStep],
         UNCHANGED <<attackers, blocking, blocked, assigned, hits>>
  PROVE  Tally(FALSE)' /\ combatStep' \in Steps
<1>1. /\ NoneDealt' = NoneDealt /\ AllDealt' = AllDealt
      /\ FirstDealt' = FirstDealt /\ OnAttackers' = OnAttackers
  BY DealtSame
<1>2. /\ combatStep = "BLOCKERS" => combatStep' = "TRIGGERS"
      /\ combatStep = "TRIGGERS" => combatStep' = "ORDER"
      /\ combatStep = "ORDER" => combatStep' = "FIRST_STRIKE"
      /\ combatStep = "FIRST_STRIKE" => combatStep' = "END_FIRST_STRIKE"
      /\ combatStep = "END_FIRST_STRIKE" => combatStep' = "DAMAGE"
      /\ combatStep = "DAMAGE" => combatStep' = "END_DAMAGE"
  BY DEF NextStep
<1>3. /\ combatStep \in {"BLOCKERS", "TRIGGERS", "ORDER", "FIRST_STRIKE"} => NoneDealt
      /\ combatStep = "END_FIRST_STRIKE" => FirstDealt
      /\ combatStep = "DAMAGE" => FirstDealt /\ OnAttackers
  BY DEF Tally
<1>4. /\ combatStep' \in {"TRIGGERS", "ORDER", "FIRST_STRIKE", "END_FIRST_STRIKE"} => NoneDealt'
      /\ combatStep' = "DAMAGE" => FirstDealt'
      /\ combatStep' = "END_DAMAGE" => FirstDealt' /\ OnAttackers'
      /\ combatStep' \in Steps \ {"BLOCKERS"}
  BY <1>1, <1>2, <1>3 DEF Steps
<1>5. currentGamePhase' # "COMBATEND"
  OBVIOUS
<1>. QED
  BY <1>4, <1>5 DEF Tally

LEMMA ArriveIs ==
  ASSUME Typed, arrive
  PROVE  /\ Typed' /\ currentGamePhase' = currentPhase /\ currentPhase' = currentPhase
         /\ UNCHANGED <<ring, attackers, blocking, blocked, assigned, step, cursor_pos, currentPlayer>>
         /\ currentPhase # "COMBATDAMAGE" => UNCHANGED <<combatStep, eventsQueue>>
         /\ (currentPhase = "COMBATDAMAGE" /\ combatStep # "END_DAMAGE") =>
              /\ combatStep' = NextStep[combatStep]
              /\ eventsQueue' = Append(eventsQueue, StepChange')
         /\ IF currentPhase \in {"COMBATDAMAGE", "COMBATEND"} THEN hits' = hits ELSE NoneDealt'
         /\ calls' = <<Call("entered", Head(calls).nested)>> \o Tail(calls)
<1>1. /\ currentGamePhase' = currentPhase
      /\ IF currentPhase = "COMBATDAMAGE" THEN nextCombatStep(eventsQueue)
         ELSE UNCHANGED <<combatStep, eventsQueue>>
      /\ calls' = <<Call("entered", Head(calls).nested)>> \o Tail(calls)
      /\ hits' = IF currentPhase \in {"COMBATDAMAGE", "COMBATEND"} THEN hits
                 ELSE [c \in Creatures |-> 0]
      /\ UNCHANGED <<ring, attackers, blocking, blocked, assigned, step, cursor_pos,
                     currentPlayer, turnCounts, alters>>
  BY DEF arrive
<1>2. combatStep' \in Steps
  BY <1>1 DEF nextCombatStep, NextStep, Steps, Typed, FlowTyped
<1>3. currentPhase \in PhaseIds
  BY ChainedIs DEF Typed, RingTyped, currentPhase
<1>4. hits' \in [Creatures -> Nat]
  BY <1>1 DEF Typed, CombatTyped
<1>5. CombatTyped' /\ FlowTyped' /\ RingTyped'
  BY <1>1, <1>2, <1>3, <1>4 DEF Typed, CombatTyped, FlowTyped, RingTyped, ring, turnCounts
<1>6. Typed'
  BY <1>1, <1>5 DEF Typed
<1>7. (currentPhase = "COMBATDAMAGE" /\ combatStep # "END_DAMAGE") =>
              /\ combatStep' = NextStep[combatStep]
              /\ eventsQueue' = Append(eventsQueue, StepChange')
  BY <1>1 DEF nextCombatStep, StepChange
<1>8. IF currentPhase \in {"COMBATDAMAGE", "COMBATEND"} THEN hits' = hits ELSE NoneDealt'
  BY <1>1 DEF NoneDealt
<1>9. currentPhase' = currentPhase
  BY <1>1 DEF ring, currentPhase
<1>. QED
  BY <1>1, <1>6, <1>7, <1>8, <1>9

\* Without attackers nothing has to be dealt.
LEMMA NobodyDealsAll ==
  ASSUME CombatTyped, attackers = {}, NoneDealt
  PROVE  AllDealt
<1>1. \A b \in Blockers : blocking[b] = Nothing
  BY DEF CombatTyped
<1>2. \A c \in Creatures : hits[c] <= Strokes(c)
  BY DEF NoneDealt, Strokes
<1>. QED
  BY <1>1, <1>2 DEF AllDealt, DamageOnce

LEMMA SkipsToEndNext ==
  ASSUME Typed, SkipsToEnd, Next
  PROVE  Typed' /\ (SkipsToEnd' \/ Entering')
<1>1. /\ calls = <<ToEnd>> /\ SkipsChanges
      /\ Skipping /\ currentPhase # "COMBATDAMAGE"
  BY DEF SkipsToEnd
<1>2. PICK l : l = ToEnd
  OBVIOUS
<1>3. /\ calls # <<>> /\ Head(calls) = l /\ Tail(calls) = <<>>
      /\ Head(calls).op = "arrive" /\ Head(calls).nested = FALSE
  <2>1. calls = <<l>>
    BY <1>1, <1>2
  <2>2. l.op = "arrive" /\ l.nested = FALSE
    BY <1>2 DEF ToEnd, Arrive
  <2>. QED
    BY <2>1, <2>2
<1>4. ToEnd' = ToEnd /\ Enter' = Enter
  BY DEF ToEnd, Arrive, Enter, Call
<1>5. CASE eventsQueue # <<>>
  <2>1. Typed' /\ Skipping' /\ eventsQueue' = <<>> /\ UNCHANGED <<ring, calls>>
    BY <1>1, <1>3, <1>5, SkippingIsHeard
  <2>2. SkipsToEnd'
    BY <1>1, <1>4, <2>1 DEF SkipsToEnd, SkipsChanges, currentPhase, ring
  <2>. QED
    BY <2>1, <2>2
<1>6. CASE eventsQueue = <<>>
  <2>1. arrive
    BY <1>3, <1>6, CallGoesOn
  <2>2. /\ Typed' /\ currentGamePhase' = currentPhase /\ currentPhase' = currentPhase
        /\ UNCHANGED <<ring, attackers, blocking, blocked, assigned, step, cursor_pos>>
        /\ UNCHANGED <<combatStep, eventsQueue>>
        /\ IF currentPhase = "COMBATEND" THEN hits' = hits ELSE NoneDealt'
        /\ calls' = <<Call("entered", FALSE)>> \o <<>>
    BY <1>1, <1>3, <2>1, ArriveIs
  <2>3. PICK g : g = Call("entered", FALSE)
    OBVIOUS
  <2>4. calls' = <<Enter>>'
    BY <1>4, <2>2, <2>3 DEF Enter
  <2>5. combatStep' = "BLOCKERS" /\ NoScreen' /\ attackers' = {}
    BY <1>1, <2>2 DEF Skipping, NoScreen
  <2>6. NoneDealt'
    <3>1. NoneDealt
      BY <1>1 DEF Skipping
    <3>. QED
      BY <2>2, <3>1 DEF NoneDealt
  <2>7. AllDealt'
    <3>1. CombatTyped'
      BY <2>2 DEF Typed
    <3>2. \A b \in Blockers : blocking'[b] = Nothing
      BY <2>5, <3>1 DEF CombatTyped
    <3>3. \A c \in Creatures : hits'[c] <= Strokes(c)'
      BY <2>6 DEF NoneDealt, Strokes
    <3>. QED
      BY <2>5, <3>2, <3>3 DEF AllDealt, DamageOnce
  <2>8. Tally(TRUE)'
    BY <2>5, <2>6, <2>7 DEF Tally
  <2>9. Enters'
    BY <1>1, <2>2, <2>5, <2>8 DEF Enters, StepFits, ScreenFits, StrikersGone, InPlace, NoScreen
  <2>10. Entering'
    BY <1>4, <1>6, <2>2, <2>4, <2>9 DEF Entering
  <2>. QED
    BY <2>2, <2>10
<1>. QED
  BY <1>5, <1>6

LEMMA ArriveWithout ==
  ASSUME NEW op, NEW nested, NEW x, NEW y
  PROVE  [[op |-> op, nested |-> nested, skip |-> x] EXCEPT !.skip = y] =
           [op |-> op, nested |-> nested, skip |-> y]
  OBVIOUS

LEMMA LandedNext ==
  ASSUME Typed, Landed, Next
  PROVE  Typed' /\ (Landed' \/ Arriving' \/ SkipsBlockers')
<1>1. PICK from \in PhaseIds :
    /\ calls = <<Land(FALSE, from)>> /\ Changes /\ Departs /\ Lands
    /\ from = "COMBATATTACKERS" =>
         currentGamePhase = "COMBATATTACKERS" /\ currentPhase = "COMBATBLOCKERS"
  BY Zenon DEF Landed
<1>2. PICK l : l = Land(FALSE, from)
  OBVIOUS
<1>3. /\ calls # <<>> /\ Head(calls) = l /\ Tail(calls) = <<>>
      /\ Head(calls).op = "landed" /\ Head(calls).nested = FALSE /\ Head(calls).from = from
  <2>1. calls = <<l>>
    BY <1>1, <1>2
  <2>2. l.op = "landed" /\ l.nested = FALSE /\ l.from = from
    BY <1>2 DEF Land
  <2>. QED
    BY <2>1, <2>2
<1>4. CASE eventsQueue # <<>>
  <2>1. PICK e : /\ eventsQueue = <<e>> /\ e.type = "PhaseChange" /\ e.to = currentPhase
                 /\ e.from = "COMBATATTACKERS" => currentGamePhase = "COMBATATTACKERS"
    BY <1>1, <1>4 DEF Changes
  <2>2. Head(eventsQueue) = e /\ Tail(eventsQueue) = <<>>
    BY <2>1
  <2>3. HearPhaseChange
    BY <1>3, <1>4, <2>1, <2>2, EventIsHeard
  <2>4. /\ Typed'
        /\ UNCHANGED <<ring, currentGamePhase, combatStep, calls>>
        /\ eventsQueue' = <<>>
        /\ IF currentPhase = "COMBATDAMAGE" THEN cursor_pos' = cursor_pos ELSE cursor_pos' = "NONE"
        /\ NoneDealt' = NoneDealt
        /\ e.from # "COMBATATTACKERS" => Tally(TRUE)' = Tally(TRUE)
    BY <2>1, <2>2, <2>3, ChangeIsHeard
  <2>5. Tally(TRUE)'
    <3>1. CASE e.from # "COMBATATTACKERS"
      BY <1>1, <2>4, <3>1 DEF Departs
    <3>2. CASE e.from = "COMBATATTACKERS"
      <4>1. currentGamePhase' = "COMBATATTACKERS" /\ NoneDealt'
        BY <1>1, <2>1, <2>4, <3>2 DEF Departs, Tally
      <4>. QED
        BY <4>1 DEF Tally
    <3>. QED
      BY <3>1, <3>2
  <2>6. Departs'
    BY <1>1, <2>4, <2>5 DEF Departs, NoScreen
  <2>7. currentPhase' = currentPhase
    BY <2>4 DEF currentPhase, ring
  <2>8. Lands'
    BY <1>1, <2>4, <2>7 DEF Lands
  <2>9. Changes'
    BY <2>4, <2>7 DEF Changes, NoScreen
  <2>10. Landed'
    BY <1>1, <2>4, <2>6, <2>7, <2>8, <2>9 DEF Landed, Land
  <2>. QED
    BY <2>4, <2>10
<1>5. CASE eventsQueue = <<>>
  <2>1. landed
    BY <1>3, <1>5, CallGoesOn
  <2>2. PICK g, r, s : g = Forward /\ r = ToEnd /\ s = Arrive(FALSE, FALSE)
    OBVIOUS
  <2>3. calls' = IF from = "COMBATATTACKERS" /\ attackers = {} THEN <<g, g, r>> ELSE <<s>>
    <3>1. [[op |-> "arrive", nested |-> FALSE, skip |-> TRUE] EXCEPT !.skip = FALSE] = s
      <4>1. PICK op, no, yes : op = "arrive" /\ no = FALSE /\ yes = TRUE
        OBVIOUS
      <4>2. [[op |-> op, nested |-> no, skip |-> yes] EXCEPT !.skip = no] = s
        BY <2>2, <4>1, ArriveWithout DEF Arrive
      <4>. QED
        BY <4>1, <4>2, Zenon
    <3>2. calls' = (IF from = "COMBATATTACKERS" /\ attackers = {} THEN <<g, g, r>> ELSE <<s>>) \o <<>>
      BY <1>3, <2>1, <2>2, <3>1 DEF landed, Forward, ToEnd, Arrive
    <3>. QED
      BY <3>2
  <2>4. UNCHANGED <<ring, combatVars, flow, turnCounts, alters, eventsQueue>>
    BY <2>1 DEF landed
  <2>5. CombatTyped' /\ FlowTyped' /\ RingTyped'
    BY <2>4, CombatTypedSame, FlowTypedSame DEF Typed, RingTyped, ring
  <2>6. Typed'
    BY <2>4, <2>5 DEF Typed
  <2>7. UNCHANGED <<currentGamePhase, combatStep, combatVars>> /\ currentPhase' = currentPhase
    BY <2>4 DEF flow, ring, currentPhase
  <2>8. Departs' /\ (Skipping' = Skipping)
    BY <1>1, <2>7, DepartsSame
  <2>9. Forward' = Forward /\ ToEnd' = ToEnd
    BY DEF Forward, ToEnd, Call, Arrive
  <2>10. CASE from = "COMBATATTACKERS" /\ attackers = {}
    <3>1. calls' = <<g, g, r>>
      BY <2>3, <2>10
    <3>2. Skipping
      BY <1>1, <2>10 DEF Skipping, Departs, Tally
    <3>3. SkipsBlockers'
      BY <1>1, <1>5, <2>2, <2>4, <2>7, <2>8, <2>9, <2>10, <3>1, <3>2 DEF SkipsBlockers
    <3>. QED
      BY <2>6, <3>3
  <2>11. CASE ~(from = "COMBATATTACKERS" /\ attackers = {})
    <3>1. calls' = <<s>>
      BY <2>3, <2>11
    <3>2. currentPhase # "COMBATDAMAGE" => NoScreen
      BY <1>1, <1>5 DEF Changes
    <3>3. Lands' /\ (currentPhase' # "COMBATDAMAGE" => NoScreen')
      BY <1>1, <2>7, <3>2 DEF Lands, NoScreen, combatVars
    <3>4. Arriving'
      BY <1>5, <2>2, <2>4, <2>8, <3>1, <3>3 DEF Arriving, Arrive
    <3>. QED
      BY <2>6, <3>4
  <2>. QED
    BY <2>10, <2>11
<1>. QED
  BY <1>4, <1>5

LEMMA ArrivingNext ==
  ASSUME Typed, Arriving, Next
  PROVE  Typed' /\ (Entering' \/ Stepping')
<1>1. /\ calls = <<Arrive(FALSE, FALSE)>> /\ eventsQueue = <<>>
      /\ Departs /\ Lands
      /\ currentPhase # "COMBATDAMAGE" => NoScreen
  BY DEF Arriving
<1>2. PICK l : l = Arrive(FALSE, FALSE)
  OBVIOUS
<1>3. /\ calls # <<>> /\ Head(calls) = l /\ Tail(calls) = <<>>
      /\ Head(calls).op = "arrive" /\ Head(calls).nested = FALSE
  <2>1. calls = <<l>>
    BY <1>1, <1>2
  <2>2. l.op = "arrive" /\ l.nested = FALSE
    BY <1>2 DEF Arrive
  <2>. QED
    BY <2>1, <2>2
<1>4. arrive
  BY <1>1, <1>3, CallGoesOn
<1>5. /\ Typed' /\ currentGamePhase' = currentPhase /\ currentPhase' = currentPhase
      /\ UNCHANGED <<ring, attackers, blocking, blocked, assigned, step, cursor_pos>>
      /\ calls' = <<Call("entered", FALSE)>> \o <<>>
  BY <1>3, <1>4, ArriveIs
<1>6. PICK g : g = Call("entered", FALSE)
  OBVIOUS
<1>7. calls' = <<Enter>>' /\ Enter' = Enter
  BY <1>5, <1>6 DEF Enter, Call
<1>8. CASE currentPhase = "COMBATDAMAGE"
  <2>1. /\ currentGamePhase = "COMBATBLOCKERS" /\ Tally(TRUE)
        /\ combatStep \in {"ORDER", "FIRST_STRIKE", "END_FIRST_STRIKE", "DAMAGE"}
    BY <1>1, <1>8 DEF Departs, Lands
  <2>2. /\ combatStep' = NextStep[combatStep] /\ hits' = hits
        /\ eventsQueue' = Append(eventsQueue, StepChange')
    BY <1>4, <1>8, <2>1, ArriveIs
  <2>3. Tally(FALSE)'
    BY <1>5, <1>8, <2>1, <2>2, StepTallies DEF Steps
  <2>4. combatStep' \in {"FIRST_STRIKE", "END_FIRST_STRIKE", "DAMAGE", "END_DAMAGE"}
    BY <2>1, <2>2 DEF NextStep
  <2>5. eventsQueue' = <<StepChange'>>
    BY <1>1, <2>2
  <2>6. StepComes' /\ StrikersGone'
    BY <1>5, <1>8, <2>4 DEF StepComes, StrikersGone
  <2>7. Stepping'
    BY <1>5, <1>7, <2>3, <2>5, <2>6 DEF Stepping, Rests
  <2>. QED
    BY <1>5, <2>7
<1>9. CASE currentPhase # "COMBATDAMAGE"
  <2>1. /\ UNCHANGED <<combatStep, eventsQueue>>
        /\ IF currentPhase = "COMBATEND" THEN hits' = hits ELSE NoneDealt'
    BY <1>4, <1>9, ArriveIs
  <2>2. NoScreen'
    BY <1>1, <1>5, <1>9 DEF NoScreen
  <2>3. CASE currentPhase = "COMBATEND"
    <3>1. currentGamePhase = "COMBATDAMAGE" /\ combatStep \in {"BLOCKERS", "END_DAMAGE"} /\ AllDealt
      BY <1>1, <2>3 DEF Departs, Lands, Tally
    <3>2. AllDealt'
      BY <1>5, <2>1, <2>3, <3>1, DealtSame
    <3>3. Tally(TRUE)'
      BY <1>5, <2>3, <3>2 DEF Tally
    <3>4. Enters'
      BY <1>5, <2>1, <2>2, <2>3, <3>1, <3>3 DEF Enters, StepFits, StrikersGone, InPlace
    <3>5. Entering'
      BY <1>1, <1>7, <2>1, <3>4 DEF Entering
    <3>. QED
      BY <1>5, <3>5
  <2>4. CASE currentPhase # "COMBATEND"
    <3>1. combatStep' = "BLOCKERS" /\ NoneDealt'
      BY <1>1, <1>9, <2>1, <2>4 DEF Lands
    <3>2. Tally(TRUE)'
      BY <1>5, <1>9, <2>4, <3>1 DEF Tally
    <3>3. Enters'
      BY <1>5, <1>9, <2>2, <2>4, <3>1, <3>2 DEF Enters, StepFits, ScreenFits, NoScreen, StrikersGone, InPlace
    <3>4. Entering'
      BY <1>1, <1>7, <2>1, <3>3 DEF Entering
    <3>. QED
      BY <1>5, <3>4
  <2>. QED
    BY <2>3, <2>4
<1>. QED
  BY <1>8, <1>9

\* The turns a player has coming, or has to skip, are settled.
LEMMA NextPlayerIsTyped ==
  ASSUME FlowTyped, nextPlayer
  PROVE  /\ currentPlayer' \in Players
         /\ extraTurn' \in [Players -> 0..1] /\ skippingTurn' \in [Players -> 0..1]
<1>1. PICK p \in Players : p = currentPlayer
  BY DEF FlowTyped
<1>2. Other(p) \in Players
  BY DEF Players, Other
<1>3. PICK q \in Players : q = IF extraTurn[p] > 0 THEN p ELSE Other(p)
  BY <1>2
<1>4. Other(q) \in Players
  BY DEF Players, Other
<1>5. /\ extraTurn' = [extraTurn EXCEPT ![p] = IF @ > 0 THEN @ - 1 ELSE @]
      /\ skippingTurn' = [skippingTurn EXCEPT ![q] = IF @ > 0 THEN @ - 1 ELSE @]
      /\ currentPlayer' = IF skippingTurn[q] > 0 THEN Other(q) ELSE q
  BY <1>1, <1>3 DEF nextPlayer
<1>6. extraTurn \in [Players -> 0..1] /\ skippingTurn \in [Players -> 0..1]
  BY DEF FlowTyped
<1>7. extraTurn' \in [Players -> 0..1] /\ skippingTurn' \in [Players -> 0..1]
  BY <1>5, <1>6
<1>. QED
  BY <1>4, <1>5, <1>7

\* The game comes to rest in a phase, with its step if it has one.
LEMMA ComesToRest ==
  ASSUME Enters, combatStep' = StepAtCombatEnd, UNCHANGED <<ring, combatVars, currentGamePhase>>
  PROVE  Settled'
<1>1. UNCHANGED <<attackers, blocking, blocked, assigned, hits, step, cursor_pos>>
  BY DEF combatVars
<1>2. turn' = turn /\ current' = current /\ currentPhase' = currentPhase
  BY DEF ring, currentPhase
<1>3. /\ NoneDealt' = NoneDealt /\ AllDealt' = AllDealt
      /\ FirstDealt' = FirstDealt /\ OnAttackers' = OnAttackers
      /\ FirstStrikers' = FirstStrikers
  BY <1>1, DealtSame
<1>4. InPlace'
  BY <1>2 DEF Enters, InPlace
<1>5. CASE currentGamePhase = "COMBATEND"
  <2>1. combatStep' = "BLOCKERS" /\ NoScreen /\ AllDealt
    BY <1>5 DEF Enters, StepAtCombatEnd, Tally
  <2>2. Tally(TRUE)'
    BY <1>3, <1>5, <2>1 DEF Tally
  <2>. QED
    BY <1>1, <1>4, <1>5, <2>1, <2>2 DEF Settled, StepFits, ScreenFits, StrikersGone, NoScreen
<1>6. CASE currentGamePhase # "COMBATEND"
  <2>1. combatStep' = combatStep
    BY <1>6 DEF StepAtCombatEnd
  <2>2. Tally(TRUE)'
    BY <1>1, <2>1, TallySame DEF Enters
  <2>. QED
    BY <1>1, <1>3, <1>4, <1>6, <2>1, <2>2 DEF Settled, Enters, StepFits, ScreenFits, StrikersGone
<1>. QED
  BY <1>5, <1>6

LEMMA EnteringNext ==
  ASSUME Typed, Entering, Next
  PROVE  Typed' /\ Resting'
<1>1. calls = <<Enter>> /\ eventsQueue = <<>> /\ Enters
  BY DEF Entering
<1>2. PICK l : l = Enter
  OBVIOUS
<1>3. /\ calls # <<>> /\ Head(calls) = l /\ Tail(calls) = <<>>
      /\ Head(calls).op = "entered" /\ Head(calls).nested = FALSE
  <2>1. calls = <<l>>
    BY <1>1, <1>2
  <2>2. l.op = "entered" /\ l.nested = FALSE
    BY <1>2 DEF Enter, Call
  <2>. QED
    BY <2>1, <2>2
<1>4. entered
  BY <1>1, <1>3, CallGoesOn
<1>5. UNCHANGED <<ring, currentGamePhase, eventsQueue>>
  BY <1>4 DEF entered
<1>6. RingTyped'
  BY <1>5 DEF Typed, RingTyped, ring
<1>7. CASE currentGamePhase \in {"BEFORE_BEGIN", "AFTER_EOT"}
  <2>1. /\ BeginsTurn \/ EndsTurn
        /\ combatStep' = "BLOCKERS" /\ alters' = Living
        /\ calls' = <<Call("nextGamePhase", FALSE)>> \o <<>>
    BY <1>3, <1>4, <1>7 DEF entered
  <2>2. PICK g : g = Call("nextGamePhase", FALSE)
    OBVIOUS
  <2>3. calls' \in CallsOfSettled'
    BY <2>1, <2>2 DEF CallsOfSettled, Call
  <2>4. alters' \in Seq(Sparing)
    BY <2>1, AmongIsTyped DEF Typed, Living
  <2>5. NoneDealt /\ NoScreen
    BY <1>1, <1>7 DEF Enters, Tally, StepFits, ScreenFits, NoScreen
  <2>6. CombatTyped' /\ FlowTyped' /\ NoneDealt' /\ cursor_pos' = cursor_pos
    <3>1. CASE BeginsTurn
      <4>1. CombatTyped' /\ NoneDealt' /\ cursor_pos' = cursor_pos
        BY <3>1 DEF BeginsTurn, CombatCleanup, Typed, CombatTyped, NoneDealt
      <4>2. FlowTyped'
        BY <1>5, <2>1, <3>1 DEF BeginsTurn, Typed, FlowTyped, turnCounts, Steps
      <4>. QED
        BY <4>1, <4>2
    <3>2. CASE EndsTurn
      <4>1. UNCHANGED combatVars /\ nextPlayer
        BY <3>2 DEF EndsTurn
      <4>2. CombatTyped' /\ NoneDealt' /\ cursor_pos' = cursor_pos
        BY <2>5, <4>1, CombatTypedSame DEF Typed, NoneDealt, combatVars
      <4>3. FlowTyped'
        BY <1>5, <2>1, <4>1, NextPlayerIsTyped DEF Typed, FlowTyped, Steps
      <4>. QED
        BY <4>2, <4>3
    <3>. QED
      BY <2>1, <3>1, <3>2
  <2>7. Typed'
    BY <1>6, <2>4, <2>6 DEF Typed
  <2>8. InPlace'
    BY <1>1, <1>5 DEF Enters, InPlace, ring, currentPhase
  <2>9. Tally(TRUE)'
    BY <1>5, <1>7, <2>6 DEF Tally
  <2>10. Settled'
    BY <1>5, <1>7, <2>1, <2>5, <2>6, <2>8, <2>9
       DEF Settled, StepFits, ScreenFits, StrikersGone, NoScreen
  <2>. QED
    BY <1>1, <1>5, <2>3, <2>7, <2>10 DEF Resting
<1>8. CASE currentGamePhase \notin {"BEFORE_BEGIN", "AFTER_EOT"}
  <2>1. /\ combatStep' = StepAtCombatEnd /\ calls' = <<>>
        /\ UNCHANGED <<combatVars, currentPlayer, turnCounts, alters>>
    BY <1>3, <1>4, <1>8 DEF entered
  <2>2. Settled'
    BY <1>1, <1>5, <2>1, ComesToRest
  <2>3. combatStep' \in Steps
    BY <2>1 DEF StepAtCombatEnd, Typed, FlowTyped, Steps
  <2>4. CombatTyped' /\ FlowTyped'
    BY <1>5, <2>1, <2>3, CombatTypedSame DEF Typed, FlowTyped, turnCounts
  <2>5. Typed'
    BY <1>6, <2>1, <2>4 DEF Typed
  <2>. QED
    BY <1>1, <1>5, <2>1, <2>2, <2>5 DEF Resting, CallsOfSettled
<1>. QED
  BY <1>7, <1>8

-----------------------------------------------------------------------------
(* Between the calls. *)

\* The combat, the phase and the ring stay, and with them what they agree on.
LEMMA SettledSame ==
  ASSUME Settled, UNCHANGED <<ring, combatVars, currentGamePhase, combatStep>>
  PROVE  Settled'
<1>1. UNCHANGED <<attackers, blocking, blocked, assigned, hits, step, cursor_pos>>
  BY DEF combatVars
<1>2. turn' = turn /\ current' = current /\ currentPhase' = currentPhase
  BY DEF ring, currentPhase
<1>3. FirstStrikers' = FirstStrikers /\ Tally(TRUE)' = Tally(TRUE)
  BY <1>1, DealtSame, TallySame
<1>4. StepFits' /\ ScreenFits' /\ StrikersGone'
  BY <1>1, <1>3 DEF Settled, StepFits, ScreenFits, StrikersGone
<1>5. InPlace'
  BY <1>2 DEF Settled, InPlace
<1>. QED
  BY <1>3, <1>4, <1>5 DEF Settled

\* nextGamePhase, called between the calls.
LEMMA RecurseNext ==
  ASSUME Typed, Settled, eventsQueue = <<>>, recurse,
         Head(calls).nested = FALSE, Tail(calls) = <<>>
  PROVE  Typed' /\ (Stepping' \/ Leaving')
<1>1. /\ nextGamePhase(FALSE, <<>>, <<>>)
      /\ UNCHANGED <<ring, combatVars, currentPlayer, currentGamePhase, turnCounts, alters>>
  BY DEF recurse
<1>2. UNCHANGED <<attackers, blocking, blocked, assigned, hits, step, cursor_pos>>
  BY <1>1 DEF combatVars
<1>3. /\ turn' = turn /\ current' = current /\ currentPhase' = currentPhase
      /\ currentPhase \in PhaseIds
  BY <1>1, ChainedIs DEF ring, currentPhase, Typed, RingTyped
<1>4. StepFits /\ ScreenFits /\ StrikersGone /\ InPlace /\ Tally(TRUE) /\ combatStep \in Steps
  BY DEF Settled, Typed, FlowTyped
<1>5. CASE StaysInPhase
  <2>1. currentPhase = currentGamePhase
    BY <1>4, <1>5 DEF StaysInPhase, InPlace
  <2>2. \/ currentGamePhase = "COMBATDAMAGE" /\ combatStep \in {"FIRST_STRIKE", "END_FIRST_STRIKE", "DAMAGE"}
        \/ currentGamePhase = "COMBATBLOCKERS" /\ combatStep \in {"BLOCKERS", "TRIGGERS"}
    BY <1>5, <2>1 DEF StaysInPhase
  <2>3. combatStep # "END_DAMAGE"
    BY <2>2
  <2>4. /\ combatStep' = NextStep[combatStep] /\ calls' = <<>>
        /\ eventsQueue' = Append(<<>>, StepChange')
    BY <1>1, <1>5, <2>3 DEF nextGamePhase, nextCombatStep, StepChange
  <2>5. Tally(FALSE)' /\ combatStep' \in Steps
    BY <1>1, <1>2, <1>4, <2>2, <2>3, <2>4, StepTallies
  <2>6. eventsQueue' = <<StepChange'>>
    BY <2>4
  <2>7. \/ currentGamePhase = "COMBATDAMAGE" /\ combatStep' \in {"END_FIRST_STRIKE", "DAMAGE", "END_DAMAGE"}
        \/ currentGamePhase = "COMBATBLOCKERS" /\ combatStep' \in {"TRIGGERS", "ORDER"}
    BY <2>2, <2>4 DEF NextStep
  <2>8. combatStep' = "TRIGGERS" => NoScreen
    <3>1. combatStep' = "TRIGGERS" => combatStep = "BLOCKERS"
      BY <2>2, <2>4 DEF NextStep
    <3>. QED
      BY <1>4, <3>1 DEF ScreenFits, NoScreen
  <2>9. StepComes' /\ StrikersGone'
    BY <1>1, <1>2, <2>4, <2>7, <2>8 DEF StepComes, StrikersGone, NoScreen
  <2>10. Stepping'
    BY <1>1, <1>3, <2>1, <2>4, <2>5, <2>6, <2>9 DEF Stepping, Rests
  <2>11. CombatTyped' /\ FlowTyped' /\ RingTyped'
    BY <1>1, <2>5, CombatTypedSame DEF Typed, FlowTyped, RingTyped, ring, turnCounts
  <2>12. Typed'
    BY <1>1, <2>11 DEF Typed
  <2>. QED
    BY <2>10, <2>12
<1>6. CASE ~StaysInPhase
  <2>1. PICK g, l : g = Forward /\ l = Land(FALSE, currentPhase)
    OBVIOUS
  <2>2. calls' = <<g, l>> \o <<>> /\ eventsQueue' = <<>> /\ combatStep' = combatStep
    BY <1>1, <1>6, <2>1 DEF nextGamePhase, Forward, Land
  <2>3. calls' = <<g, l>>
    BY <2>2
  <2>4. Departs
    BY <1>4, <1>6 DEF Departs, StepFits, ScreenFits, StaysInPhase, InPlace, NoScreen
  <2>5. Origin(currentPhase)
    BY <1>4 DEF Origin, InPlace, StepFits
  <2>6. Departs' /\ Origin(currentPhase)'
    BY <1>1, <1>3, <2>2, <2>4, <2>5, DepartsSame DEF Origin
  <2>7. Leaving'
    BY <1>3, <2>1, <2>2, <2>3, <2>6 DEF Leaving, Forward, Land, Call
  <2>8. CombatTyped' /\ FlowTyped' /\ RingTyped'
    BY <1>1, <1>4, <2>2, CombatTypedSame DEF Typed, FlowTyped, RingTyped, ring, turnCounts
  <2>9. Typed'
    BY <1>1, <2>8 DEF Typed
  <2>. QED
    BY <2>7, <2>9
<1>. QED
  BY <1>5, <1>6

\* What is left of a request is carried out, call by call.
LEMMA RestingWithCallsNext ==
  ASSUME Typed, Resting, Next, calls # <<>>
  PROVE  Typed' /\ (Resting' \/ Stepping' \/ Leaving')
<1>1. Settled /\ eventsQueue = <<>>
  BY DEF Resting
<1>2. PICK u, g : u = Call("update", FALSE) /\ g = Call("nextGamePhase", FALSE)
  OBVIOUS
<1>3. /\ u.op = "update" /\ u.nested = FALSE
      /\ g.op = "nextGamePhase" /\ g.nested = FALSE
  BY <1>2 DEF Call
<1>4. calls \in {<<u>>, <<g>>, <<u, g>>}
  BY <1>2 DEF Resting, CallsOfSettled, NextGamePhaseCalls
<1>5. CASE calls = <<g>>
  <2>1. Head(calls) = g /\ Tail(calls) = <<>>
    BY <1>5
  <2>2. recurse
    BY <1>1, <1>3, <2>1, CallGoesOn
  <2>. QED
    BY <1>1, <1>3, <2>1, <2>2, RecurseNext
<1>6. CASE calls \in {<<u>>, <<u, g>>}
  <2>1. Head(calls) = u /\ Tail(calls) \in {<<>>, <<g>>}
    <3>1. calls = <<u>> => Head(calls) = u /\ Tail(calls) = <<>>
      OBVIOUS
    <3>2. calls = <<u, g>> => Head(calls) = u /\ Tail(calls) = <<g>>
      OBVIOUS
    <3>. QED
      BY <1>6, <3>1, <3>2
  <2>2. UpdateLayer
    BY <1>1, <1>3, <2>1, CallGoesOn
  <2>3. /\ alters' = Living /\ calls' \in {<<>>, <<g>>}
        /\ UNCHANGED <<ring, combatVars, flow, turnCounts, eventsQueue>>
    BY <2>1, <2>2 DEF UpdateLayer
  <2>4. alters' \in Seq(Sparing)
    BY <2>3, AmongIsTyped DEF Typed, Living
  <2>5. CombatTyped' /\ FlowTyped' /\ RingTyped'
    BY <2>3, CombatTypedSame, FlowTypedSame DEF Typed, RingTyped, ring
  <2>6. Settled'
    BY <1>1, <2>3, SettledSame DEF flow
  <2>7. Resting'
    BY <1>1, <1>2, <2>3, <2>6 DEF Resting, CallsOfSettled, Call
  <2>. QED
    BY <2>4, <2>5, <2>7 DEF Typed
<1>. QED
  BY <1>4, <1>5, <1>6

-----------------------------------------------------------------------------
(* What the players do. *)

\* Nothing but the abilities and the calls changes.
LEMMA RestsOn ==
  ASSUME Typed, Resting, UNCHANGED <<ring, combatVars, flow, turnCounts, eventsQueue>>,
         alters' \in Seq(Sparing), calls' \in CallsOfSettled
  PROVE  Typed' /\ Resting'
<1>1. CombatTyped' /\ FlowTyped' /\ RingTyped'
  BY CombatTypedSame, FlowTypedSame DEF Typed, RingTyped, ring
<1>2. Settled'
  BY SettledSame DEF flow, Resting
<1>3. calls' \in CallsOfSettled'
  BY DEF CallsOfSettled, Call, NextGamePhaseCalls
<1>. QED
  BY <1>1, <1>2, <1>3 DEF Typed, Resting

LEMMA RequestNext ==
  ASSUME Typed, Resting, Request
  PROVE  Typed' /\ Resting'
<1>1. /\ calls' = NextGamePhaseCalls
      /\ UNCHANGED <<ring, combatVars, flow, turnCounts, alters, eventsQueue>>
  BY DEF Request
<1>2. calls' \in CallsOfSettled /\ alters' \in Seq(Sparing)
  BY <1>1 DEF CallsOfSettled, Typed
<1>. QED
  BY <1>1, <1>2, RestsOn

LEMMA clickOKNext ==
  ASSUME Typed, Resting, clickOK
  PROVE  Typed' /\ Resting'
<1>1. /\ cursor_pos' = "NONE"
      /\ calls' = <<>> \/ calls' = NextGamePhaseCalls
      /\ UNCHANGED <<ring, attackers, blocking, blocked, assigned, step, hits, flow, turnCounts,
                 alters, eventsQueue>>
  BY DEF clickOK
<1>2. /\ turn' = turn /\ current' = current /\ currentPhase' = currentPhase
      /\ UNCHANGED <<currentPlayer, currentGamePhase, combatStep>>
  BY <1>1 DEF ring, flow, currentPhase
<1>3. FirstStrikers' = FirstStrikers /\ Tally(TRUE)' = Tally(TRUE)
  BY <1>1, <1>2, DealtSame, TallySame
<1>4. StepFits' /\ ScreenFits' /\ StrikersGone' /\ InPlace'
  BY <1>1, <1>2, <1>3 DEF Resting, Settled, StepFits, ScreenFits, StrikersGone, InPlace
<1>5. calls' \in CallsOfSettled'
  BY <1>1 DEF CallsOfSettled, Call, NextGamePhaseCalls
<1>6. Resting'
  BY <1>1, <1>3, <1>4, <1>5 DEF Resting, Settled
<1>7. CombatTyped' /\ FlowTyped' /\ RingTyped'
  BY <1>1, <1>2, FlowTypedSame DEF Typed, CombatTyped, RingTyped
<1>. QED
  BY <1>1, <1>6, <1>7 DEF Typed

\* A change in the combat between the calls leaves it settled if what has been
\* dealt still is what must have been.
LEMMA CombatSettles ==
  ASSUME Typed, Resting, Idle, CombatTyped',
         FirstStrikers' \subseteq FirstStrikers
           \/ currentGamePhase # "COMBATBLOCKERS" \/ combatStep \in {"BLOCKERS", "TRIGGERS"},
         UNCHANGED <<ring, step, cursor_pos, flow, turnCounts, alters, eventsQueue, calls>>,
         Tally(TRUE)'
  PROVE  Typed' /\ Resting'
<1>1. /\ turn' = turn /\ current' = current /\ currentPhase' = currentPhase
      /\ UNCHANGED <<currentPlayer, currentGamePhase, combatStep>>
  BY DEF ring, flow, currentPhase
<1>2. StepFits' /\ ScreenFits' /\ InPlace'
  BY <1>1 DEF Resting, Settled, StepFits, ScreenFits, InPlace
<1>3. StrikersGone'
  BY <1>1 DEF Resting, Settled, StrikersGone
<1>4. Resting'
  BY <1>2, <1>3 DEF Resting, Settled, CallsOfSettled, Idle
<1>5. FlowTyped' /\ RingTyped'
  BY <1>1, FlowTypedSame DEF Typed, RingTyped
<1>. QED
  BY <1>4, <1>5 DEF Typed

LEMMA toggleAttackerNext ==
  ASSUME Typed, Resting, NEW a \in Attackers, toggleAttacker(a)
  PROVE  Typed' /\ Resting'
<1>1. PICK S \in SUBSET Attackers : Attacking(S)
  <2>1. PICK S : S = (IF a \in attackers THEN attackers \ {a} ELSE attackers \cup {a})
    OBVIOUS
  <2>2. S \in SUBSET Attackers
    BY <2>1 DEF Typed, CombatTyped
  <2>. QED
    BY <2>1, <2>2 DEF toggleAttacker
<1>2. /\ Idle /\ currentGamePhase = "COMBATATTACKERS"
      /\ UNCHANGED <<ring, blocked, step, cursor_pos, hits, flow, turnCounts, alters, eventsQueue, calls>>
  BY DEF toggleAttacker
<1>3. CombatTyped'
  BY <1>1, <1>2 DEF Attacking, Typed, CombatTyped
<1>4. NoneDealt' /\ currentGamePhase' = "COMBATATTACKERS"
  BY <1>2 DEF Resting, Settled, Tally, NoneDealt, flow
<1>5. Tally(TRUE)'
  BY <1>4 DEF Tally
<1>. QED
  BY <1>2, <1>3, <1>5, CombatSettles

LEMMA toggleDefenserNext ==
  ASSUME Typed, Resting, NEW b \in Blockers, NEW a \in attackers \cup {Nothing}, toggleDefenser(b, a)
  PROVE  Typed' /\ Resting'
<1>1. /\ Idle
      /\ currentGamePhase = "COMBATBLOCKERS" /\ combatStep \in {"BLOCKERS", "TRIGGERS"}
      /\ blocking' = [blocking EXCEPT ![b] = a]
      /\ blocked' = (blocked \ {x \in Attackers : x = blocking[b] /\ BlockersOf(x) = {b}})
                  \cup (IF a = Nothing THEN {} ELSE {a})
      /\ UNCHANGED <<attackers, assigned, step, cursor_pos, hits>>
      /\ UNCHANGED <<ring, flow, turnCounts, alters, eventsQueue, calls>>
  BY DEF toggleDefenser, Blocking
<1>2. blocked' \subseteq Attackers
  BY <1>1 DEF Typed, CombatTyped
<1>3. CombatTyped'
  BY <1>1, <1>2 DEF Typed, CombatTyped
<1>4. NoneDealt'
  BY <1>1 DEF Resting, Settled, Tally, NoneDealt
<1>5. /\ currentGamePhase' = "COMBATBLOCKERS" /\ combatStep' \in {"BLOCKERS", "TRIGGERS"}
  BY <1>1 DEF flow
<1>6. Tally(TRUE)'
  BY <1>4, <1>5 DEF Tally
<1>. QED
  BY <1>1, <1>3, <1>6, CombatSettles

LEMMA CreatureLeavesNext ==
  ASSUME Typed, Resting, CreatureLeaves
  PROVE  Typed' /\ Resting'
<1>1. Idle /\ UNCHANGED <<ring, flow, turnCounts, alters, eventsQueue, calls>>
  BY DEF CreatureLeaves
<1>2. /\ CombatTyped'
      /\ FirstStrikers' \subseteq FirstStrikers
      /\ FirstDealt => FirstDealt'
      /\ AllDealt => AllDealt'
      /\ OnAttackers => OnAttackers'
      /\ NoneDealt => NoneDealt'
      /\ UNCHANGED <<step, cursor_pos>>
  BY LeavingKeepsDamage DEF Typed
<1>3. UNCHANGED <<currentGamePhase, combatStep>> /\ Tally(TRUE)
  BY <1>1 DEF flow, Resting, Settled
<1>4. Tally(TRUE)'
  BY <1>2, <1>3 DEF Tally
<1>. QED
  BY <1>1, <1>2, <1>4, CombatSettles

\* An ability that comes with a card.
LEMMA AlteringIsTyped ==
  ASSUME Typed, NEW id \in PhaseIds, NEW who \in Players, NEW adding \in BOOLEAN,
         NEW source \in {"instant", "sorcery", "permanent", "static"},
         IF adding THEN id = "COMBATEND" ELSE id \notin Kept
  PROVE  Altering(id, who, adding, source) \in Sparing
<1>1. NewCard \in Nat
  <2>1. Len(alters) \in Nat /\ DOMAIN alters = 1..Len(alters)
    BY DEF Typed
  <2>. QED
    BY <2>1, NewCardIsNatural
<1>2. PICK c \in Nat : c = NewCard
  BY <1>1
<1>3. PICK next, inPlay : next = (source # "static") /\ inPlay = (source \in {"static", "permanent"})
  OBVIOUS
<1>4. next \in BOOLEAN /\ inPlay \in BOOLEAN
  BY <1>3
<1>5. Altering(id, who, adding, source) =
       [card |-> c, id |-> id, who |-> who, adding |-> adding, applied |-> FALSE, next |-> next,
        source |-> source, inPlay |-> inPlay, done |-> FALSE]
  BY <1>2, <1>3 DEF Altering
<1>6. PICK x : x = Altering(id, who, adding, source)
  OBVIOUS
<1>7. x \in Alterations /\ x.id = id /\ x.adding = adding
  BY <1>4, <1>5, <1>6 DEF Alterations
<1>. QED
  BY <1>6, <1>7 DEF Sparing

LEMMA GrantSkipNext ==
  ASSUME SkipsSpareCombat, Typed, Resting,
         NEW who \in Players, NEW source \in Sources, NEW ids \in Skips, GrantSkip(who, source, ids)
  PROVE  Typed' /\ Resting'
<1>1. PICK added : added = [i \in DOMAIN ids |-> Altering(ids[i], who, FALSE, source)]
  OBVIOUS
<1>2. /\ alters' = alters \o added /\ calls' = <<Call("update", FALSE)>>
      /\ UNCHANGED <<ring, combatVars, flow, turnCounts, eventsQueue>>
  BY <1>1 DEF GrantSkip
<1>3. ids \in Seq(PhaseIds) /\ source \in {"instant", "sorcery", "permanent", "static"}
  BY FlowAssumption
<1>4. \A i \in DOMAIN ids : ids[i] \notin Kept /\ ids[i] \in PhaseIds
  BY <1>3 DEF SkipsSpareCombat
<1>5. \A i \in DOMAIN ids : Altering(ids[i], who, FALSE, source) \in Sparing
  BY <1>3, <1>4, AlteringIsTyped
<1>6. added \in Seq(Sparing)
  <2>1. Len(ids) \in Nat /\ DOMAIN ids = 1..Len(ids)
    BY <1>3
  <2>2. added \in [1..Len(ids) -> Sparing]
    BY <1>1, <1>5, <2>1
  <2>. QED
    BY <2>1, <2>2
<1>7. alters' \in Seq(Sparing)
  BY <1>2, <1>6, ConcatTyped DEF Typed
<1>8. calls' \in CallsOfSettled
  <2>1. PICK u : u = Call("update", FALSE)
    OBVIOUS
  <2>. QED
    BY <1>2, <2>1 DEF CallsOfSettled
<1>. QED
  BY <1>2, <1>7, <1>8, RestsOn

LEMMA GrantCombatPhaseNext ==
  ASSUME Typed, Resting, GrantCombatPhase
  PROVE  Typed' /\ Resting'
<1>1. PICK a : a = Altering("COMBATEND", currentPlayer, TRUE, "permanent")
  OBVIOUS
<1>2. /\ alters' = Append(alters, a)
      /\ UNCHANGED <<ring, combatVars, flow, turnCounts, eventsQueue, calls>>
  BY <1>1 DEF GrantCombatPhase
<1>3. "COMBATEND" \in PhaseIds
  BY DEF PhaseIds, GamePhases
<1>4. a \in Sparing
  <2>1. currentPlayer \in Players
    BY DEF Typed, FlowTyped
  <2>. QED
    BY <1>1, <1>3, <2>1, AlteringIsTyped
<1>5. alters' \in Seq(Sparing)
  BY <1>2, <1>4, AppendProperties DEF Typed
<1>6. calls' \in CallsOfSettled
  BY <1>2 DEF Resting
<1>. QED
  BY <1>2, <1>5, <1>6, RestsOn

LEMMA GrantCombatAfterMainNext ==
  ASSUME Typed, Resting, GrantCombatAfterMain
  PROVE  Typed' /\ Resting'
<1>1. /\ Idle /\ currentGamePhase \in {"FIRSTMAIN", "SECONDMAIN"}
      /\ addCombatAfter(currentGamePhase, TRUE)
      /\ combatStep' = "BLOCKERS"
      /\ UNCHANGED <<combatVars, currentPlayer, currentGamePhase, turnCounts, alters, eventsQueue, calls>>
  BY DEF GrantCombatAfterMain
<1>2. PICK id : id = currentGamePhase
  OBVIOUS
<1>3. combatStep = "BLOCKERS" /\ InPlace
  BY <1>1 DEF Resting, Settled, StepFits
<1>4. Chained(turn) /\ current \in 1..Len(turn)
  BY DEF Typed, RingTyped
<1>5. \E i \in 1..current : turn[i].id = id
  <2>1. CASE currentPhase = currentGamePhase
    <3>1. current \in 1..current
      BY <1>4, ChainedIs
    <3>. QED
      BY <1>2, <2>1, <3>1 DEF currentPhase
  <2>. QED
    BY <1>2, <1>3, <2>1 DEF InPlace
<1>6. Extends(id, TRUE) /\ addCombatAfter(id, TRUE)
  BY <1>1, <1>2 DEF Extends
<1>7. /\ Chained(turn') /\ current' \in 1..Len(turn')
      /\ \E i \in 1..current' : turn'[i].id = id
      /\ turn'[current'].id \in {id, "COMBATBEGIN"}
  BY <1>4, <1>5, <1>6, ExtraCombatIs, Zenon
<1>8. InPlace'
  BY <1>1, <1>2, <1>7 DEF InPlace, currentPhase
<1>9. UNCHANGED <<attackers, blocking, blocked, assigned, hits, step, cursor_pos>> /\ combatStep' = combatStep
  BY <1>1, <1>3 DEF combatVars
<1>10. FirstStrikers' = FirstStrikers /\ Tally(TRUE)' = Tally(TRUE)
  BY <1>1, <1>9, DealtSame, TallySame
<1>11. StepFits' /\ ScreenFits' /\ StrikersGone'
  BY <1>1, <1>9, <1>10 DEF Resting, Settled, StepFits, ScreenFits, StrikersGone
<1>12. Resting'
  BY <1>1, <1>8, <1>10, <1>11 DEF Resting, Settled, CallsOfSettled, Idle
<1>13. CombatTyped' /\ FlowTyped' /\ RingTyped'
  BY <1>1, <1>7, CombatTypedSame DEF Typed, FlowTyped, RingTyped, turnCounts, Steps
<1>. QED
  BY <1>1, <1>12, <1>13 DEF Typed

LEMMA SourceLeavesNext ==
  ASSUME Typed, Resting, SourceLeaves
  PROVE  Typed' /\ Resting'
<1>1. PICK k : /\ alters' = [n \in DOMAIN alters |->
                              IF alters[n].card = k THEN [alters[n] EXCEPT !.inPlay = FALSE]
                              ELSE alters[n]]
               /\ calls' = <<Call("update", FALSE)>>
               /\ UNCHANGED <<ring, combatVars, flow, turnCounts, eventsQueue>>
  BY DEF SourceLeaves
<1>2. Len(alters) \in Nat /\ DOMAIN alters = 1..Len(alters) /\ \A n \in 1..Len(alters) : alters[n] \in Sparing
  BY DEF Typed
<1>3. ASSUME NEW a \in Sparing
      PROVE  [a EXCEPT !.inPlay = FALSE] \in Sparing
  <2>1. PICK b : b = [a EXCEPT !.inPlay = FALSE]
    OBVIOUS
  <2>2. a \in Alterations
    BY DEF Sparing
  <2>3. b \in Alterations /\ b.adding = a.adding /\ b.id = a.id
    BY <2>1, <2>2 DEF Alterations
  <2>. QED
    BY <2>1, <2>3 DEF Sparing
<1>4. alters' \in Seq(Sparing)
  <2>1. alters' \in [1..Len(alters) -> Sparing]
    BY <1>1, <1>2, <1>3
  <2>. QED
    BY <1>2, <2>1
<1>5. calls' \in CallsOfSettled
  <2>1. PICK u : u = Call("update", FALSE)
    OBVIOUS
  <2>. QED
    BY <1>1, <2>1 DEF CallsOfSettled
<1>. QED
  BY <1>1, <1>4, <1>5, RestsOn

LEMMA GrantTurnNext ==
  ASSUME Typed, Resting, NEW p \in Players, GrantTurn(p)
  PROVE  Typed' /\ Resting'
<1>1. /\ \/ extraTurn' = [extraTurn EXCEPT ![p] = 1] /\ UNCHANGED skippingTurn
         \/ skippingTurn' = [skippingTurn EXCEPT ![p] = 1] /\ UNCHANGED extraTurn
      /\ UNCHANGED <<ring, combatVars, flow, alters, eventsQueue, calls>>
  BY DEF GrantTurn
<1>2. extraTurn' \in [Players -> 0..1] /\ skippingTurn' \in [Players -> 0..1]
  BY <1>1 DEF Typed, FlowTyped
<1>3. CombatTyped' /\ FlowTyped' /\ RingTyped'
  BY <1>1, <1>2, CombatTypedSame DEF Typed, FlowTyped, RingTyped, ring, flow
<1>4. Settled'
  BY <1>1, SettledSame DEF flow, Resting
<1>5. calls' \in CallsOfSettled'
  BY <1>1 DEF Resting, CallsOfSettled, Call, NextGamePhaseCalls
<1>. QED
  BY <1>1, <1>3, <1>4, <1>5 DEF Typed, Resting

LEMMA RestingNext ==
  ASSUME SkipsSpareCombat, Typed, Resting, Next
  PROVE  Typed' /\ (Resting' \/ Stepping' \/ Leaving')
<1>1. CASE calls # <<>>
  BY <1>1, RestingWithCallsNext
<1>2. CASE calls = <<>>
  <2>1. PlayersStep
    BY <1>2, IdleIsForPlayers DEF Idle, Resting
  <2>2. ASSUME NEW a \in Attackers, toggleAttacker(a)
        PROVE  Typed' /\ Resting'
    BY <2>2, toggleAttackerNext
  <2>3. ASSUME NEW b \in Blockers, NEW a \in attackers \cup {Nothing}, toggleDefenser(b, a)
        PROVE  Typed' /\ Resting'
    BY <2>3, toggleDefenserNext
  <2>4. ASSUME NEW who \in Players, NEW source \in Sources, NEW ids \in Skips, GrantSkip(who, source, ids)
        PROVE  Typed' /\ Resting'
    BY <2>4, GrantSkipNext
  <2>5. ASSUME NEW p \in Players, GrantTurn(p)
        PROVE  Typed' /\ Resting'
    BY <2>5, GrantTurnNext
  <2>6. Typed' /\ Resting'
    BY <2>1, <2>2, <2>3, <2>4, <2>5, RequestNext, clickOKNext, CreatureLeavesNext,
       GrantCombatPhaseNext, GrantCombatAfterMainNext, SourceLeavesNext, Zenon DEF PlayersStep
  <2>. QED
    BY <2>6
<1>. QED
  BY <1>1, <1>2

-----------------------------------------------------------------------------
(* A combat step is answered. *)

\* What is dealt and assigned when the event of a step is answered; damage has
\* been assigned for this step if the game waits.
LEMMA StepIsAnswered ==
  ASSUME Typed, StepComes, StrikersGone, Tally(FALSE),
         NEW h \in BOOLEAN, h = human, OnStep(combatStep, h)
  PROVE  /\ CombatTyped' /\ UNCHANGED <<attackers, blocking, blocked>>
         /\ FirstStrikers' = FirstStrikers
         /\ combatStep \in {"TRIGGERS", "ORDER", "FIRST_STRIKE"} => NoneDealt'
         /\ combatStep = "END_FIRST_STRIKE" => FirstDealt'
         /\ combatStep = "DAMAGE" => FirstDealt' /\ OnAttackers'
         /\ combatStep = "END_DAMAGE" => AllDealt'
         /\ RequestAfter(combatStep, h) = "nothing" =>
              (cursor_pos' # "NONE" => step' = combatStep /\ combatStep \notin {"BLOCKERS", "TRIGGERS"})
<1>1. PICK s \in {"TRIGGERS", "ORDER", "FIRST_STRIKE", "END_FIRST_STRIKE", "DAMAGE", "END_DAMAGE"} :
        s = combatStep
  BY DEF StepComes
<1>2. /\ s \in {"TRIGGERS", "ORDER", "FIRST_STRIKE", "END_FIRST_STRIKE"} => NoneDealt
      /\ s = "DAMAGE" => FirstDealt
      /\ s = "END_DAMAGE" => FirstDealt /\ OnAttackers
  BY <1>1 DEF StepComes, Tally
<1>3. CombatTyped
  BY DEF Typed
<1>4. autoaffected("FIRST_STRIKE") \in [Blockers -> attackers \cup {Nothing}]
      /\ autoaffected("DAMAGE") \in [Blockers -> attackers \cup {Nothing}]
  BY DEF autoaffected
<1>5. CASE s = "TRIGGERS"
  <2>1. step' = "TRIGGERS" /\ UNCHANGED <<attackers, blocking, blocked, assigned, cursor_pos, hits>>
    BY <1>1, <1>5 DEF OnStep, OnTriggers
  <2>2. CombatTyped' /\ NoneDealt' /\ FirstStrikers' = FirstStrikers
    BY <1>2, <1>3, <1>5, <2>1, DealtSame DEF CombatTyped, Steps
  <2>3. cursor_pos = "NONE"
    BY <1>1, <1>5 DEF StepComes, NoScreen
  <2>. QED
    BY <1>1, <1>5, <2>1, <2>2, <2>3
<1>6. CASE s = "ORDER"
  <2>1. OnOrder(h)
    BY <1>1, <1>6 DEF OnStep
  <2>2. /\ UNCHANGED <<attackers, blocking, blocked, hits>>
        /\ step' = "ORDER" \/ step' = step
        /\ cursor_pos' = "ATK" \/ cursor_pos' = cursor_pos
        /\ assigned' = assigned \/ assigned' = autoaffected("DAMAGE")
    BY <2>1 DEF OnOrder, combatVars, autoaffectDamage
  <2>3. CombatTyped' /\ NoneDealt' /\ FirstStrikers' = FirstStrikers
    BY <1>2, <1>3, <1>4, <1>6, <2>2 DEF CombatTyped, Steps, NoneDealt, FirstStrikers
  <2>4. RequestAfter("ORDER", h) = "nothing" => step' = "ORDER"
    BY <2>1 DEF RequestAfter, OrderRequest, OnOrder, combatVars
  <2>. QED
    BY <1>1, <1>6, <2>2, <2>3, <2>4
<1>7. CASE s = "FIRST_STRIKE"
  <2>1. OnFirstStrike(h)
    BY <1>1, <1>7 DEF OnStep
  <2>2. /\ UNCHANGED <<attackers, blocking, blocked, hits>>
        /\ step' = "FIRST_STRIKE"
        /\ cursor_pos' = "ATK" \/ cursor_pos' = cursor_pos
        /\ assigned' = assigned \/ assigned' = autoaffected("FIRST_STRIKE")
    BY <2>1 DEF OnFirstStrike, AssignDamage, autoaffectDamage
  <2>3. CombatTyped' /\ NoneDealt' /\ FirstStrikers' = FirstStrikers
    BY <1>2, <1>3, <1>4, <1>7, <2>2 DEF CombatTyped, Steps, NoneDealt, FirstStrikers
  <2>. QED
    BY <1>1, <1>7, <2>2, <2>3
<1>8. CASE s = "END_FIRST_STRIKE"
  <2>1. /\ step' = "END_FIRST_STRIKE"
        /\ assigned' = autoaffected("FIRST_STRIKE")
        /\ resolve("END_FIRST_STRIKE", autoaffected("FIRST_STRIKE"))
        /\ UNCHANGED <<attackers, blocking, blocked, cursor_pos>>
    BY <1>1, <1>8 DEF OnStep, OnEndFirstStrike, autoaffectDamage
  <2>2. FirstDealt' /\ hits' \in [Creatures -> Nat]
    BY <1>2, <1>3, <1>8, <2>1, FirstStrikeDealt
  <2>3. CombatTyped' /\ FirstStrikers' = FirstStrikers
    BY <1>3, <1>4, <2>1, <2>2 DEF CombatTyped, Steps, FirstStrikers
  <2>. QED
    BY <1>1, <1>8, <2>1, <2>2, <2>3
<1>9. CASE s = "DAMAGE"
  <2>1. /\ step' = "DAMAGE" /\ assigned' = autoaffected("DAMAGE")
        /\ cursor_pos' = "ATK" \/ cursor_pos' = cursor_pos
        /\ UNCHANGED <<attackers, blocking, blocked, hits>>
    BY <1>1, <1>9 DEF OnStep, AssignDamage, autoaffectDamage
  <2>2. OnAttackers'
    BY <1>3, <2>1, DamageAssigned
  <2>3. FirstDealt'
    <3>1. \A a : Unhindered(a)' = Unhindered(a)
      BY <2>1 DEF Unhindered, BlockersOf
    <3>. QED
      BY <1>2, <1>9, <2>1, <3>1 DEF FirstDealt
  <2>4. CombatTyped' /\ FirstStrikers' = FirstStrikers
    BY <1>3, <1>4, <2>1 DEF CombatTyped, Steps, FirstStrikers
  <2>. QED
    BY <1>1, <1>9, <2>1, <2>2, <2>3, <2>4
<1>10. CASE s = "END_DAMAGE"
  <2>1. /\ step' = "END_DAMAGE" /\ resolve("END_DAMAGE", assigned)
        /\ UNCHANGED <<attackers, blocking, blocked, assigned, cursor_pos>>
    BY <1>1, <1>10 DEF OnStep, OnEndDamage
  <2>2. AllDealt' /\ hits' \in [Creatures -> Nat]
    BY <1>2, <1>3, <1>10, <2>1, DamageDealt
  <2>3. CombatTyped' /\ FirstStrikers' = FirstStrikers
    BY <1>3, <2>1, <2>2 DEF CombatTyped, Steps, FirstStrikers
  <2>. QED
    BY <1>1, <1>10, <2>1, <2>2, <2>3
<1>. QED
  BY <1>5, <1>6, <1>7, <1>8, <1>9, <1>10

\* Which answers a step can get, in which of the two phases.
LEMMA StepAsks ==
  ASSUME StepComes, NEW h \in BOOLEAN, h = human
  PROVE  LET asks == RequestAfter(combatStep, h)
         IN /\ asks \in Requests
            /\ asks = "nextCombatStep" =>
                 /\ combatStep \in {"ORDER", "FIRST_STRIKE", "END_FIRST_STRIKE", "DAMAGE"}
                 /\ currentGamePhase = "COMBATBLOCKERS" =>
                      /\ ~h /\ combatStep # "DAMAGE"
                      /\ combatStep = "FIRST_STRIKE" => FirstStrikers = {}
            /\ asks = "userRequestNextGamePhase" =>
                 combatStep \in {"ORDER", "FIRST_STRIKE", "DAMAGE", "END_DAMAGE"}
            /\ asks = "nothing" /\ currentGamePhase = "COMBATBLOCKERS" =>
                 combatStep \in {"TRIGGERS", "ORDER", "END_FIRST_STRIKE"}
<1>1. PICK s : s = combatStep
  OBVIOUS
<1>2. \/ /\ currentGamePhase = "COMBATBLOCKERS"
         /\ s \in {"TRIGGERS", "ORDER", "FIRST_STRIKE", "END_FIRST_STRIKE", "DAMAGE"}
         /\ s \in {"FIRST_STRIKE", "END_FIRST_STRIKE", "DAMAGE"} => ~h
      \/ /\ currentGamePhase = "COMBATDAMAGE"
         /\ s \in {"FIRST_STRIKE", "END_FIRST_STRIKE", "DAMAGE", "END_DAMAGE"}
  BY <1>1 DEF StepComes
<1>3. /\ s = "TRIGGERS" => RequestAfter(s, h) = "nothing"
      /\ s = "ORDER" => RequestAfter(s, h) = OrderRequest(h)
      /\ s = "FIRST_STRIKE" => RequestAfter(s, h) = FirstStrikeRequest(h)
      /\ s = "END_FIRST_STRIKE" => RequestAfter(s, h) \in {"nextCombatStep", "nothing"}
      /\ s = "DAMAGE" => RequestAfter(s, h) = AssignRequest("DAMAGE", h)
      /\ s = "END_DAMAGE" => RequestAfter(s, h) \in {"userRequestNextGamePhase", "nothing"}
  BY DEF RequestAfter
<1>4. /\ OrderRequest(h) \in Requests
      /\ OrderRequest(h) = "nextCombatStep" => ~h
  BY DEF OrderRequest, Requests
<1>5. \A x : /\ AssignRequest(x, h) \in Requests
             /\ ~h => AssignRequest(x, h) = "userRequestNextGamePhase"
  BY DEF AssignRequest, Requests
<1>6. /\ FirstStrikeRequest(h) \in Requests
      /\ FirstStrikers # {} => FirstStrikeRequest(h) = AssignRequest("FIRST_STRIKE", h)
      /\ FirstStrikers = {} => FirstStrikeRequest(h) = "nextCombatStep"
  BY <1>5 DEF FirstStrikeRequest, Requests
<1>7. \A x \in Requests : x \in {"nothing", "nextCombatStep", "userRequestNextGamePhase"}
  BY DEF Requests
<1>8. RequestAfter(s, h) \in Requests
  BY <1>2, <1>3, <1>4, <1>5, <1>6 DEF Requests
<1>9. RequestAfter(s, h) = "nextCombatStep" =>
         /\ s \in {"ORDER", "FIRST_STRIKE", "END_FIRST_STRIKE", "DAMAGE"}
         /\ currentGamePhase = "COMBATBLOCKERS" =>
                      /\ ~h /\ s # "DAMAGE"
                      /\ s = "FIRST_STRIKE" => FirstStrikers = {}
  BY <1>2, <1>3, <1>4, <1>5, <1>6
<1>10. RequestAfter(s, h) = "userRequestNextGamePhase" =>
                 s \in {"ORDER", "FIRST_STRIKE", "DAMAGE", "END_DAMAGE"}
  BY <1>2, <1>3
<1>11. RequestAfter(s, h) = "nothing" /\ currentGamePhase = "COMBATBLOCKERS" =>
                 s \in {"TRIGGERS", "ORDER", "END_FIRST_STRIKE"}
  BY <1>2, <1>3, <1>5, <1>6
<1>. QED
  BY <1>1, <1>8, <1>9, <1>10, <1>11

\* When a step has been answered by waiting, the game rests or its phase is entered.
LEMMA StepWaits ==
  ASSUME Typed', calls' \in Rests, eventsQueue' = <<>>, StepFits', ScreenFits', StrikersGone',
         InPlace', Tally(TRUE)', currentGamePhase' # "COMBATEND"
  PROVE  Resting' \/ Entering'
<1>1. CASE calls' = <<>>
  BY <1>1 DEF Resting, Settled, CallsOfSettled
<1>2. CASE calls' = <<Enter>>
  BY <1>2 DEF Entering, Enters, Enter, Call
<1>. QED
  BY <1>1, <1>2 DEF Rests

LEMMA SteppingNext ==
  ASSUME Typed, Stepping, Next
  PROVE  Typed' /\ (Resting' \/ Entering' \/ Stepping' \/ HurriesOn')
<1>1. /\ calls \in Rests /\ eventsQueue = <<StepChange>>
      /\ StepComes /\ StrikersGone /\ currentPhase = currentGamePhase /\ Tally(FALSE)
  BY DEF Stepping
<1>2. PICK s, e : s = combatStep /\ e = StepChange
  OBVIOUS
<1>3. /\ eventsQueue # <<>> /\ Head(eventsQueue) = e /\ Tail(eventsQueue) = <<>>
      /\ e.type = "CombatStepChange" /\ e.step = s
  <2>1. eventsQueue = <<e>>
    BY <1>1, <1>2
  <2>2. e.type = "CombatStepChange" /\ e.step = s
    BY <1>2 DEF StepChange
  <2>. QED
    BY <2>1, <2>2
<1>4. calls # <<>> => ~Head(calls).nested
  <2>1. PICK l : l = Enter
    OBVIOUS
  <2>2. calls = <<>> \/ calls = <<l>>
    BY <1>1, <2>1 DEF Rests
  <2>3. ~l.nested
    BY <2>1 DEF Enter, Call
  <2>. QED
    BY <2>2, <2>3
<1>5. HearCombatStep
  BY <1>3, <1>4, EventIsHeard
<1>6. PICK h \in BOOLEAN : h = human
  <2>1. human \in BOOLEAN
    BY DEF human
  <2>. QED
    BY <2>1
<1>7. PICK asks : asks = RequestAfter(s, h)
  OBVIOUS
<1>8. /\ OnStep(s, h)
      /\ UNCHANGED <<ring, currentPlayer, currentGamePhase, turnCounts, alters>>
      /\ asks = "nothing" => eventsQueue' = <<>> /\ UNCHANGED <<combatStep, calls>>
      /\ asks = "nextCombatStep" => nextCombatStep(<<>>) /\ UNCHANGED calls
      /\ asks = "userRequestNextGamePhase" => nextGamePhase(TRUE, calls, <<>>)
  BY <1>3, <1>5, <1>6, <1>7 DEF HearCombatStep
<1>9. /\ CombatTyped' /\ UNCHANGED <<attackers, blocking, blocked>>
      /\ FirstStrikers' = FirstStrikers
      /\ s \in {"TRIGGERS", "ORDER", "FIRST_STRIKE"} => NoneDealt'
      /\ s = "END_FIRST_STRIKE" => FirstDealt'
      /\ s = "DAMAGE" => FirstDealt' /\ OnAttackers'
      /\ s = "END_DAMAGE" => AllDealt'
      /\ asks = "nothing" =>
           (cursor_pos' # "NONE" => step' = s /\ s \notin {"BLOCKERS", "TRIGGERS"})
  BY <1>1, <1>2, <1>6, <1>7, <1>8, StepIsAnswered
<1>10. /\ asks \in Requests
       /\ asks = "nextCombatStep" =>
            /\ s \in {"ORDER", "FIRST_STRIKE", "END_FIRST_STRIKE", "DAMAGE"}
            /\ currentGamePhase = "COMBATBLOCKERS" =>
                 /\ ~h /\ s # "DAMAGE"
                 /\ s = "FIRST_STRIKE" => FirstStrikers = {}
       /\ asks = "userRequestNextGamePhase" =>
            s \in {"ORDER", "FIRST_STRIKE", "DAMAGE", "END_DAMAGE"}
       /\ asks = "nothing" /\ currentGamePhase = "COMBATBLOCKERS" =>
            s \in {"TRIGGERS", "ORDER", "END_FIRST_STRIKE"}
  BY <1>1, <1>2, <1>6, <1>7, StepAsks
<1>11. /\ turn' = turn /\ current' = current /\ currentPhase' = currentPhase
       /\ currentGamePhase' = currentGamePhase /\ currentPlayer' = currentPlayer
  BY <1>8 DEF ring, currentPhase
<1>12. RingTyped' /\ alters' \in Seq(Sparing)
  BY <1>8, <1>11 DEF Typed, RingTyped
<1>13. \/ /\ currentGamePhase = "COMBATBLOCKERS" /\ calls = <<>>
          /\ s \in {"TRIGGERS", "ORDER", "FIRST_STRIKE", "END_FIRST_STRIKE", "DAMAGE"}
       \/ /\ currentGamePhase = "COMBATDAMAGE"
          /\ s \in {"FIRST_STRIKE", "END_FIRST_STRIKE", "DAMAGE", "END_DAMAGE"}
  BY <1>1, <1>2 DEF StepComes
<1>14. ASSUME combatStep' \in Steps
       PROVE  Typed'
  BY <1>8, <1>9, <1>11, <1>12, <1>14 DEF Typed, FlowTyped, turnCounts
<1>15. Rests' = Rests
  BY DEF Rests, Enter, Call
\* The step before has been told: what comes next begins with it.
<1>16. ASSUME asks = "nextCombatStep" \/ (asks = "userRequestNextGamePhase" /\ StaysInPhase),
              nextCombatStep(<<>>), UNCHANGED calls,
              s \in {"ORDER", "FIRST_STRIKE", "END_FIRST_STRIKE", "DAMAGE"},
              currentGamePhase = "COMBATBLOCKERS" =>
                 /\ ~h /\ s # "DAMAGE"
                 /\ s = "FIRST_STRIKE" => FirstStrikers = {}
       PROVE  Typed' /\ Stepping'
  <2>1. combatStep' = NextStep[s] /\ eventsQueue' = Append(<<>>, StepChange')
    BY <1>2, <1>16 DEF nextCombatStep, StepChange
  <2>2. eventsQueue' = <<StepChange'>>
    BY <2>1
  <2>3. /\ s = "ORDER" => combatStep' = "FIRST_STRIKE"
        /\ s = "FIRST_STRIKE" => combatStep' = "END_FIRST_STRIKE"
        /\ s = "END_FIRST_STRIKE" => combatStep' = "DAMAGE"
        /\ s = "DAMAGE" => combatStep' = "END_DAMAGE"
    BY <2>1 DEF NextStep
  <2>4. Tally(FALSE)'
    BY <1>9, <1>11, <1>13, <1>16, <2>3 DEF Tally
  <2>5. StepComes'
    BY <1>6, <1>11, <1>13, <1>16, <2>3 DEF StepComes, human
  <2>6. StrikersGone'
    BY <1>1, <1>2, <1>9, <1>11, <1>13, <1>16, <2>3 DEF StrikersGone
  <2>7. Stepping'
    BY <1>1, <1>11, <1>15, <1>16, <2>2, <2>4, <2>5, <2>6 DEF Stepping
  <2>8. combatStep' \in Steps
    BY <1>16, <2>3 DEF Steps
  <2>. QED
    BY <1>14, <2>7, <2>8
<1>17. CASE asks = "nextCombatStep"
  BY <1>8, <1>10, <1>16, <1>17
<1>18. CASE asks = "nothing"
  <2>1. eventsQueue' = <<>> /\ combatStep' = s /\ calls' = calls
    BY <1>2, <1>8, <1>18
  <2>2. Tally(TRUE)'
    BY <1>9, <1>11, <1>13, <2>1 DEF Tally
  <2>3. StepFits' /\ ScreenFits' /\ StrikersGone' /\ InPlace'
    <3>1. StepFits'
      BY <1>10, <1>11, <1>13, <1>18, <2>1 DEF StepFits
    <3>2. ScreenFits'
      BY <1>9, <1>18, <2>1 DEF ScreenFits
    <3>3. StrikersGone'
      BY <1>1, <1>2, <1>9, <1>11, <2>1 DEF StrikersGone
    <3>4. InPlace'
      BY <1>1, <1>11 DEF InPlace
    <3>. QED
      BY <3>1, <3>2, <3>3, <3>4
  <2>4. Typed'
    BY <1>2, <1>14, <2>1 DEF Typed, FlowTyped
  <2>5. calls' \in Rests' /\ currentGamePhase' # "COMBATEND"
    BY <1>1, <1>11, <1>13, <1>15, <2>1
  <2>. QED
    BY <2>1, <2>2, <2>3, <2>4, <2>5, StepWaits
<1>19. CASE asks = "userRequestNextGamePhase"
  <2>1. nextGamePhase(TRUE, calls, <<>>)
    BY <1>8, <1>19
  <2>2. CASE StaysInPhase
    <3>1. nextCombatStep(<<>>) /\ UNCHANGED calls
      BY <2>1, <2>2 DEF nextGamePhase
    <3>2. currentGamePhase = "COMBATDAMAGE" /\ s \in {"FIRST_STRIKE", "END_FIRST_STRIKE", "DAMAGE"}
      BY <1>1, <1>2, <1>10, <1>19, <2>2 DEF StaysInPhase
    <3>. QED
      BY <1>16, <1>19, <2>2, <3>1, <3>2
  <2>3. CASE ~StaysInPhase
    <3>1. /\ calls' = <<Call("forward", TRUE), Land(TRUE, currentGamePhase)>> \o calls
          /\ eventsQueue' = <<>> /\ combatStep' = s
      BY <1>1, <1>2, <2>1, <2>3 DEF nextGamePhase, Land
    <3>2. \/ /\ currentGamePhase = "COMBATBLOCKERS" /\ calls = <<>>
             /\ s \in {"ORDER", "FIRST_STRIKE", "DAMAGE"}
          \/ currentGamePhase = "COMBATDAMAGE" /\ s = "END_DAMAGE"
      BY <1>1, <1>2, <1>10, <1>13, <1>19, <2>3 DEF StaysInPhase
    <3>3. Tally(TRUE)'
      BY <1>9, <1>11, <3>1, <3>2 DEF Tally
    <3>4. \E rest \in Rests' :
            /\ calls' = <<Call("forward", TRUE), Land(TRUE, currentGamePhase')>> \o rest
            /\ \/ /\ currentGamePhase' = "COMBATBLOCKERS" /\ rest = <<>>
                  /\ combatStep' \in {"ORDER", "FIRST_STRIKE", "DAMAGE"}
               \/ currentGamePhase' = "COMBATDAMAGE" /\ combatStep' = "END_DAMAGE"
      BY <1>1, <1>11, <1>15, <3>1, <3>2
    <3>5. HurriesOn'
      BY <1>1, <1>11, <3>1, <3>3, <3>4 DEF HurriesOn, Hurries, Call, Land
    <3>6. Typed'
      BY <1>2, <1>14, <3>1 DEF Typed, FlowTyped
    <3>. QED
      BY <3>5, <3>6
  <2>. QED
    BY <2>2, <2>3
<1>. QED
  BY <1>10, <1>17, <1>18, <1>19 DEF Requests

-----------------------------------------------------------------------------
(* From the blockers to the damage, and from there to the end of combat, in *)
(* the middle of an event. *)

LEMMA PairIs ==
  ASSUME NEW a, NEW b, NEW s, s = <<a, b>>
  PROVE  s # <<>> /\ Head(s) = a /\ Tail(s) = <<b>>
  OBVIOUS

LEMMA LedByOne ==
  ASSUME NEW a, NEW rest \in Rests, NEW s, s = <<a>> \o rest
  PROVE  s # <<>> /\ Head(s) = a /\ Tail(s) = rest
<1>1. CASE rest = <<>>
  BY <1>1
<1>2. CASE rest = <<Enter>>
  <2>1. PICK x : x = Enter
    OBVIOUS
  <2>2. s = <<a, x>>
    BY <1>2, <2>1, Joined1
  <2>3. rest = <<x>>
    BY <1>2, <2>1
  <2>. QED
    BY <2>2, <2>3, PairIs, Zenon
<1>. QED
  BY <1>1, <1>2 DEF Rests

LEMMA LedByTwo ==
  ASSUME NEW a, NEW b, NEW rest \in Rests, NEW s, s = <<a, b>> \o rest
  PROVE  /\ s # <<>> /\ Head(s) = a /\ s[1] = a /\ Tail(s) = <<b>> \o rest
         /\ \A c : <<c>> \o Tail(s) = <<c, b>> \o rest
<1>1. CASE rest = <<>>
  <2>1. \A c : <<c>> \o <<b>> = <<c, b>>
    BY Joined1
  <2>. QED
    BY <1>1, <2>1
<1>2. CASE rest = <<Enter>>
  <2>1. PICK x : x = Enter
    OBVIOUS
  <2>2. \A c : <<c, b>> \o rest = <<c, b, x>>
    BY <1>2, <2>1, Joined21
  <2>3. <<b>> \o rest = <<b, x>>
    BY <1>2, <2>1, Joined1
  <2>4. \A c : <<c>> \o <<b, x>> = <<c, b, x>>
    BY Joined12
  <2>5. s = <<a, b, x>>
    BY <2>2
  <2>6. s # <<>> /\ Head(s) = a /\ s[1] = a /\ Tail(s) = <<b, x>>
    <3>1. PICK t : t = s
      OBVIOUS
    <3>2. t = <<a, b, x>>
      BY <2>5, <3>1
    <3>3. t # <<>> /\ Head(t) = a /\ t[1] = a /\ Tail(t) = <<b, x>>
      BY <3>2
    <3>. QED
      BY <3>1, <3>3, Zenon
  <2>. QED
    BY <2>2, <2>3, <2>4, <2>6
<1>. QED
  BY <1>1, <1>2 DEF Rests

LEMMA RestsAre ==
  /\ Rests' = Rests
  /\ \A rest \in Rests : rest # <<>> => /\ ~Head(rest).nested /\ Head(rest).op = "entered"
                                        /\ Tail(rest) = <<>>
<1>1. Rests' = Rests
  BY DEF Rests, Enter, Call
<1>2. ASSUME NEW rest \in Rests, rest # <<>>
      PROVE  ~Head(rest).nested /\ Head(rest).op = "entered" /\ Tail(rest) = <<>>
  <2>1. PICK x : x = Enter
    OBVIOUS
  <2>2. rest = <<x>>
    BY <1>2, <2>1 DEF Rests
  <2>3. ~x.nested /\ x.op = "entered"
    BY <2>1 DEF Enter, Call
  <2>. QED
    BY <2>2, <2>3
<1>. QED
  BY <1>1, <1>2

\* The phase is left when its step, and what it has dealt, stays.
LEMMA HurriesSame ==
  ASSUME NEW rest \in Rests, Hurries(rest), UNCHANGED <<currentGamePhase, combatStep, combatVars>>
  PROVE  Hurries(rest)'
<1>1. Tally(TRUE)' = Tally(TRUE)
  BY DepartsSame
<1>2. rest \in Rests'
  BY RestsAre
<1>. QED
  BY <1>1, <1>2 DEF Hurries

LEMMA HurriesOnNext ==
  ASSUME Typed, HurriesOn, Next
  PROVE  Typed' /\ HurriesWarned'
<1>1. PICK rest \in Rests :
        /\ calls = <<Call("forward", TRUE), Land(TRUE, currentGamePhase)>> \o rest
        /\ eventsQueue = <<>> /\ Hurries(rest) /\ currentPhase = currentGamePhase
  BY Zenon DEF HurriesOn
<1>2. PICK f, l : f = Call("forward", TRUE) /\ l = Land(TRUE, currentGamePhase)
  OBVIOUS
<1>3. /\ calls # <<>> /\ Head(calls) = f /\ f.nested = TRUE /\ f.op = "forward"
      /\ \A c : <<c>> \o Tail(calls) = <<c, l>> \o rest
  <2>1. calls = <<f, l>> \o rest
    BY <1>1, <1>2
  <2>2. f.nested = TRUE /\ f.op = "forward"
    BY <1>2 DEF Call
  <2>. QED
    BY <2>1, <2>2, LedByTwo
<1>4. forward
  BY <1>1, <1>3, CallGoesOn
<1>5. /\ Len(turn) \in Nat /\ current \in 1..Len(turn) /\ turn[Len(turn)].id = "AFTER_EOT"
      /\ \A i \in 1..Len(turn) : turn[i].id \in PhaseIds
  BY ChainedIs DEF Typed, RingTyped, Chained
<1>6. current < Len(turn)
  <2>1. currentPhase # "AFTER_EOT"
    BY <1>1 DEF Hurries
  <2>. QED
    BY <1>5, <2>1 DEF currentPhase
<1>7. PICK e : e = [type |-> "PhasePreChange", from |-> currentPhase, to |-> turn[current + 1].id, heard |-> 0]
  OBVIOUS
<1>8. PICK m : m = [op |-> "move", nested |-> f.nested, from |-> currentPhase,
                    turnSteps |-> Len(turn), notEnd |-> current < Len(turn)]
  OBVIOUS
<1>9. /\ current' = current + 1 /\ turn' = turn
      /\ eventsQueue' = Append(<<>>, e) /\ calls' = <<m>> \o Tail(calls)
      /\ UNCHANGED <<combatVars, flow, turnCounts, alters>>
  <2>1. PICK to : to = IF current < Len(turn) THEN current + 1 ELSE current
    OBVIOUS
  <2>2. to = current + 1
    BY <1>6, <2>1
  <2>3. /\ current' = to /\ turn' = turn /\ calls' = <<m>> \o Tail(calls)
        /\ eventsQueue' = Append(eventsQueue,
             [type |-> "PhasePreChange", from |-> currentPhase, to |-> turn[to].id, heard |-> 0])
        /\ UNCHANGED <<combatVars, flow, turnCounts, alters>>
    BY <1>3, <1>4, <1>8, <2>1 DEF forward
  <2>. QED
    BY <1>1, <1>7, <2>2, <2>3
<1>10. eventsQueue' = <<e>> /\ calls' = <<m, l>> \o rest
  BY <1>3, <1>9
<1>11. /\ IsMove(m, TRUE) /\ m.notEnd /\ m.turnSteps = Len(turn) /\ m.from = currentGamePhase
  BY <1>1, <1>3, <1>5, <1>6, <1>8 DEF IsMove, currentPhase
<1>12. IsPreChange(e) /\ e.to = turn[current + 1].id
  BY <1>5, <1>6, <1>7 DEF IsPreChange
<1>13. UNCHANGED <<currentGamePhase, combatStep, combatVars>>
  BY <1>9 DEF flow
<1>14. Hurries(rest)' /\ rest \in Rests'
  BY <1>1, <1>13, HurriesSame, RestsAre
<1>15. calls' # <<>> /\ calls'[1] = m
  BY <1>10, LedByTwo
<1>16. current' > 1 /\ turn'[current' - 1].id = currentGamePhase'
  BY <1>1, <1>5, <1>9, <1>13 DEF currentPhase
<1>17. /\ eventsQueue' # <<>> /\ eventsQueue'[1] = e /\ eventsQueue' = <<eventsQueue'[1]>>
       /\ Late(e)'
  BY <1>9, <1>10, <1>12 DEF Late, IsPreChange, currentPhase
<1>18. calls' = <<calls'[1], Land(TRUE, currentGamePhase')>> \o rest
  BY <1>2, <1>10, <1>13, <1>15
<1>19. HurriesWarned'
  BY <1>9, <1>11, <1>13, <1>14, <1>15, <1>16, <1>17, <1>18 DEF HurriesWarned, IsMove, Late, IsPreChange, Land
<1>20. CombatTyped' /\ FlowTyped' /\ RingTyped'
  BY <1>5, <1>6, <1>9, CombatTypedSame, FlowTypedSame DEF Typed, RingTyped
<1>. QED
  BY <1>9, <1>19, <1>20 DEF Typed

LEMMA HurriesWarnedNext ==
  ASSUME Typed, HurriesWarned, Next
  PROVE  Typed' /\ HurriesIn'
<1>1. PICK rest \in Rests :
        /\ calls # <<>> /\ calls = <<calls[1], Land(TRUE, currentGamePhase)>> \o rest
        /\ IsMove(calls[1], TRUE) /\ calls[1].notEnd /\ calls[1].turnSteps = Len(turn)
        /\ calls[1].from = currentGamePhase
        /\ eventsQueue # <<>> /\ eventsQueue = <<eventsQueue[1]>> /\ Late(eventsQueue[1])
        /\ Hurries(rest) /\ current > 1 /\ turn[current - 1].id = currentGamePhase
  BY Zenon DEF HurriesWarned
<1>2. PICK m, l, e : m = calls[1] /\ l = Land(TRUE, currentGamePhase) /\ e = eventsQueue[1]
  OBVIOUS
<1>3. calls = <<m, l>> \o rest /\ eventsQueue = <<e>>
  BY <1>1, <1>2
<1>4. Head(calls) = m /\ Tail(calls) = <<l>> \o rest
  BY <1>3, LedByTwo
<1>5. m.op = "move" /\ m.nested = TRUE /\ m.notEnd /\ m.turnSteps = Len(turn) /\ m.from = currentGamePhase
  BY <1>1, <1>2 DEF IsMove
<1>6. move
  BY <1>1, <1>4, <1>5, CallGoesOn
<1>7. /\ Len(turn) \in Nat /\ current \in 1..Len(turn)
      /\ \A i \in 1..Len(turn) : turn[i].id \in PhaseIds
      /\ \A i \in 1..Len(turn) : i # Len(turn) => turn[i + 1].id \in After(turn[i].id)
  BY ChainedIs DEF Typed, RingTyped, Chained
<1>8. PICK c : c = [type |-> "PhaseChange", from |-> currentGamePhase, to |-> currentPhase]
  OBVIOUS
<1>9. /\ ~ListChanged(m) /\ current - 1 < Len(turn)
  BY <1>5, <1>7 DEF ListChanged
<1>10. /\ calls' = Tail(calls) /\ Moved(current - 1)
       /\ eventsQueue' = Append(eventsQueue,
                  [type |-> "PhaseChange", from |-> currentGamePhase, to |-> turn'[current'].id])
       /\ UNCHANGED <<combatVars, flow, turnCounts, alters>>
  <2>1. PICK here : here = Here(m)
    OBVIOUS
  <2>2. here = current - 1
    BY <1>5, <2>1 DEF Here
  <2>3. /\ calls' = Tail(calls) /\ Moved(here)
        /\ eventsQueue' = Append(eventsQueue,
                  [type |-> "PhaseChange", from |-> m.from, to |-> turn'[current'].id])
        /\ UNCHANGED <<combatVars, flow, turnCounts, alters>>
    BY <1>4, <1>6, <1>9, <2>1 DEF move, Here
  <2>. QED
    BY <1>5, <2>2, <2>3
<1>11. current' = current /\ turn' = turn /\ currentPhase' = currentPhase
  BY <1>7, <1>9, <1>10 DEF Moved, currentPhase
<1>12. eventsQueue' = <<e, c>>
  <2>1. eventsQueue' = Append(<<e>>, c)
    BY <1>3, <1>8, <1>10, <1>11 DEF currentPhase
  <2>. QED
    BY <2>1, Appended1
<1>13. UNCHANGED <<currentGamePhase, combatStep, combatVars>>
  BY <1>10 DEF flow
<1>14. Hurries(rest)' /\ rest \in Rests'
  BY <1>1, <1>13, HurriesSame, RestsAre
<1>15. currentPhase \in After(currentGamePhase)
  <2>1. PICK k \in 1..Len(turn) : k = current - 1
    BY <1>1, <1>7
  <2>2. k # Len(turn) /\ k + 1 = current
    BY <1>7, <2>1
  <2>. QED
    BY <1>1, <1>7, <2>1, <2>2 DEF currentPhase
<1>16. currentGamePhase \in {"COMBATBLOCKERS", "COMBATDAMAGE"}
  BY <1>1 DEF Hurries
<1>17. Lands'
  <2>1. /\ currentPhase = "COMBATDAMAGE" <=> currentGamePhase = "COMBATBLOCKERS"
        /\ currentPhase = "COMBATEND" <=> currentGamePhase = "COMBATDAMAGE"
    BY <1>15, AfterIs
  <2>. QED
    BY <1>11, <1>13, <1>16, <2>1 DEF Lands
<1>18. IsChange(c) /\ c.to = currentPhase
  <2>1. currentGamePhase \in PhaseIds /\ currentPhase \in PhaseIds
    BY <1>15, AfterIs
  <2>. QED
    BY <1>8, <1>16, <2>1 DEF IsChange
<1>19. LateQueue'
  <2>1. Late(e)
    BY <1>1, <1>2
  <2>2. Len(eventsQueue') = 2 /\ eventsQueue'[1] = e /\ eventsQueue'[2] = c
    BY <1>12
  <2>. QED
    BY <1>11, <1>12, <1>18, <2>1, <2>2 DEF LateQueue, Late, IsPreChange, IsChange
<1>20. HurriesIn'
  <2>1. calls' = <<Land(TRUE, currentGamePhase)'>> \o rest
    BY <1>2, <1>4, <1>10, <1>13 DEF Land
  <2>. QED
    BY <1>14, <1>17, <1>19, <2>1 DEF HurriesIn
<1>21. CombatTyped' /\ FlowTyped' /\ RingTyped'
  BY <1>10, <1>11, CombatTypedSame, FlowTypedSame DEF Typed, RingTyped
<1>. QED
  BY <1>10, <1>20, <1>21 DEF Typed

LEMMA HurriesInNext ==
  ASSUME Typed, HurriesIn, Next
  PROVE  Typed' /\ (HurriesIn' \/ HurriedToDamage' \/ HurriedToEnd')
<1>1. PICK rest \in Rests, l \in {Land(TRUE, currentGamePhase), Arrive(TRUE, FALSE)} :
        calls = <<l>> \o rest /\ LateQueue /\ Hurries(rest) /\ Lands
  BY Zenon DEF HurriesIn
<1>2. calls # <<>> /\ Head(calls) = l /\ Tail(calls) = rest
  BY <1>1, LedByOne
<1>3. l.nested = TRUE
  BY <1>1 DEF Land, Arrive
<1>4. Rests' = Rests
  BY RestsAre
<1>5. currentGamePhase \in {"COMBATBLOCKERS", "COMBATDAMAGE"} /\ combatStep # "BLOCKERS"
  BY <1>1 DEF Hurries
<1>6. \/ currentPhase = "COMBATDAMAGE" /\ currentGamePhase = "COMBATBLOCKERS"
      \/ currentPhase = "COMBATEND" /\ currentGamePhase = "COMBATDAMAGE"
  BY <1>1, <1>5 DEF Lands
<1>7. CASE l = Land(TRUE, currentGamePhase)
  <2>1. l.op = "landed" /\ l.from = currentGamePhase
    BY <1>7 DEF Land
  <2>2. landed
    BY <1>2, <1>3, <2>1, CallGoesOn
  <2>3. PICK s : s = Arrive(TRUE, FALSE)
    OBVIOUS
  <2>4. [[op |-> "arrive", nested |-> Head(calls).nested, skip |-> TRUE] EXCEPT !.skip = FALSE] = s
    <3>1. PICK op, no, yes : op = "arrive" /\ no = FALSE /\ yes = TRUE
      OBVIOUS
    <3>2. [[op |-> op, nested |-> yes, skip |-> yes] EXCEPT !.skip = no] = s
      <4>1. [[op |-> op, nested |-> yes, skip |-> yes] EXCEPT !.skip = no] =
              [op |-> op, nested |-> yes, skip |-> no]
        BY ArriveWithout
      <4>2. s = [op |-> op, nested |-> yes, skip |-> no]
        BY <2>3, <3>1, Zenon DEF Arrive
      <4>. QED
        BY <4>1, <4>2, Zenon
    <3>3. Head(calls).nested = yes
      BY <1>2, <1>3, <3>1
    <3>. QED
      BY <3>1, <3>2, <3>3, Zenon
  <2>5. calls' = <<s>> \o rest
    <3>1. ~(Head(calls).from = "COMBATATTACKERS" /\ attackers = {})
      BY <1>2, <1>5, <2>1
    <3>. QED
      BY <1>2, <2>2, <2>4, <3>1 DEF landed
  <2>6. UNCHANGED <<ring, combatVars, flow, turnCounts, alters, eventsQueue>>
    BY <2>2 DEF landed
  <2>7. CombatTyped' /\ FlowTyped' /\ RingTyped'
    BY <2>6, CombatTypedSame, FlowTypedSame DEF Typed, RingTyped, ring
  <2>8. UNCHANGED <<currentGamePhase, combatStep, combatVars>> /\ currentPhase' = currentPhase
    BY <2>6 DEF flow, ring, currentPhase
  <2>9. Hurries(rest)'
    BY <1>1, <2>8, HurriesSame
  <2>10. Lands' /\ LateQueue'
    BY <1>1, <2>6, <2>8 DEF Lands, LateQueue, Late, IsPreChange, IsChange
  <2>11. HurriesIn'
    BY <1>4, <2>3, <2>5, <2>9, <2>10 DEF HurriesIn, Arrive
  <2>. QED
    BY <2>6, <2>7, <2>11 DEF Typed
<1>8. CASE l = Arrive(TRUE, FALSE)
  <2>1. l.op = "arrive"
    BY <1>8 DEF Arrive
  <2>2. arrive
    BY <1>2, <1>3, <2>1, CallGoesOn
  <2>3. PICK g : g = Call("entered", TRUE)
    OBVIOUS
  <2>4. /\ Typed' /\ currentGamePhase' = currentPhase /\ currentPhase' = currentPhase
        /\ UNCHANGED <<ring, attackers, blocking, blocked, assigned, step, cursor_pos, currentPlayer>>
        /\ hits' = hits
    BY <1>6, <2>2, ArriveIs
  <2>5. calls' = <<g>> \o rest
    BY <1>2, <1>3, <2>2, <2>3, ArriveIs
  <2>6. PICK e1, e2 : /\ eventsQueue = <<e1, e2>> /\ e1 = eventsQueue[1] /\ e2 = eventsQueue[2]
                      /\ IsPreChange(e1) /\ e1.to = currentPhase
                      /\ IsChange(e2) /\ e2.to = currentPhase
    BY <1>1 DEF LateQueue, Late
  <2>7. CASE currentPhase = "COMBATDAMAGE" /\ currentGamePhase = "COMBATBLOCKERS"
    <3>1. rest = <<>> /\ combatStep \in {"ORDER", "FIRST_STRIKE", "DAMAGE"} /\ Tally(TRUE)
      BY <1>1, <2>7 DEF Hurries
    <3>2. combatStep' = NextStep[combatStep] /\ eventsQueue' = Append(eventsQueue, StepChange')
      BY <2>2, <2>7, <3>1, ArriveIs
    <3>3. Tally(FALSE)'
      BY <2>4, <2>7, <3>1, <3>2, StepTallies DEF Steps
    <3>4. LateStep'
      <4>1. combatStep' \in {"FIRST_STRIKE", "END_FIRST_STRIKE", "END_DAMAGE"}
        BY <3>1, <3>2 DEF NextStep
      <4>. QED
        BY <2>4, <2>7, <3>3, <4>1 DEF LateStep
    <3>5. PICK e3 : e3 = StepChange'
      OBVIOUS
    <3>6. eventsQueue' = <<e1, e2, e3>>
      BY <2>6, <3>2, <3>5, Appended2
    <3>7. Len(eventsQueue') = 3 /\ eventsQueue'[1] = e1 /\ eventsQueue'[2] = e2
      BY <3>6
    <3>8. calls' = <<Call("entered", TRUE)>>
      BY <2>3, <2>5, <3>1
    <3>9. HurriedToDamage'
      BY <2>6, <2>7, <3>4, <3>5, <3>6, <3>7, <3>8 DEF HurriedToDamage, IsPreChange, IsChange, Call
    <3>. QED
      BY <2>4, <3>9
  <2>8. CASE currentPhase = "COMBATEND" /\ currentGamePhase = "COMBATDAMAGE"
    <3>1. combatStep = "END_DAMAGE" /\ AllDealt
      BY <1>1, <2>8 DEF Hurries, Tally
    <3>2. UNCHANGED <<combatStep, eventsQueue>>
      BY <2>2, <2>8, ArriveIs
    <3>3. AllDealt'
      BY <2>4, <3>1, DealtSame
    <3>4. LateQueue'
      BY <1>1, <2>4, <3>2 DEF LateQueue, Late, IsPreChange, IsChange
    <3>5. HurriedToEnd'
      BY <1>4, <2>3, <2>4, <2>5, <2>8, <3>1, <3>2, <3>3, <3>4 DEF HurriedToEnd, Call
    <3>. QED
      BY <2>4, <3>5
  <2>. QED
    BY <1>6, <2>7, <2>8
<1>. QED
  BY <1>1, <1>7, <1>8

\* A warning is heard by one more ability, or else gone.
LEMMA WarningIsHeard ==
  ASSUME Typed, HearPreChange, NEW e, e = Head(eventsQueue), IsPreChange(e),
         e.to = "COMBATEND" => \E i \in 1..current : turn[i].id = "COMBATEND"
  PROVE  /\ Typed' /\ UNCHANGED <<currentGamePhase, combatVars, currentPlayer, calls>>
         /\ \/ eventsQueue' = Tail(eventsQueue) /\ UNCHANGED <<ring, combatStep>>
            \/ /\ \E n \in Nat : eventsQueue' = [eventsQueue EXCEPT ![1].heard = n]
               /\ \/ UNCHANGED <<ring, combatStep>>
                  \/ e.to = "COMBATEND" /\ Extended
                  \/ e.to \notin Kept /\ Shortened(e.to)
<1>1. PICK n \in Nat : n = e.heard + 1 /\ n > 0
  BY DEF IsPreChange
<1>2. Len(alters) \in Nat /\ RingTyped /\ alters \in Seq(Sparing) /\ FlowTyped
  BY DEF Typed
<1>3. CASE n > Len(alters)
  <2>1. eventsQueue' = Tail(eventsQueue) /\ UNCHANGED <<ring, combatStep, alters>>
    BY <1>1, <1>3 DEF HearPreChange
  <2>2. RingTyped'
    BY <1>2, <2>1 DEF RingTyped, ring
  <2>3. Typed' /\ UNCHANGED <<currentGamePhase, combatVars, currentPlayer, calls>>
    BY <1>2, <2>1, <2>2, WarningKeepsTypes
  <2>. QED
    BY <2>1, <2>3
<1>4. CASE ~(n > Len(alters))
  <2>1. eventsQueue' = [eventsQueue EXCEPT ![1].heard = n] /\ PhaseAltered(n, e.to)
    BY <1>1, <1>4 DEF HearPreChange
  <2>2. n \in 1..Len(alters)
    BY <1>1, <1>2, <1>4
  <2>3. /\ RingTyped' /\ alters' \in Seq(Sparing)
        /\ \/ UNCHANGED <<ring, combatStep>>
           \/ e.to = "COMBATEND" /\ Extended
           \/ e.to \notin Kept /\ Shortened(e.to)
    BY <1>2, <2>1, <2>2, AlteringIs, Zenon
  <2>4. combatStep' = combatStep \/ combatStep' = "BLOCKERS"
    BY <2>3 DEF Extended, Shortened
  <2>5. Typed' /\ UNCHANGED <<currentGamePhase, combatVars, currentPlayer, calls>>
    BY <2>3, <2>4, WarningKeepsTypes
  <2>. QED
    BY <2>1, <2>3, <2>5
<1>. QED
  BY <1>3, <1>4

LEMMA HurriedToDamageNext ==
  ASSUME Typed, HurriedToDamage, Next
  PROVE  Typed' /\ (HurriedToDamage' \/ HurriedAndHeard')
<1>1. PICK e1, e2, e3 : /\ eventsQueue = <<e1, e2, e3>> /\ e1 = eventsQueue[1] /\ e2 = eventsQueue[2]
                        /\ e3 = StepChange
                        /\ IsPreChange(e1) /\ e1.to = "COMBATDAMAGE"
                        /\ IsChange(e2) /\ e2.to = "COMBATDAMAGE"
  BY DEF HurriedToDamage
<1>2. LateStep /\ calls \in {<<>>, <<Call("entered", TRUE)>>}
  BY DEF HurriedToDamage
<1>3. StepChange' = StepChange \/ combatStep' # combatStep
  BY DEF StepChange
<1>4. CASE calls = <<>>
  <2>1. /\ Head(eventsQueue) = e1 /\ Tail(eventsQueue) = <<e2, e3>> /\ eventsQueue # <<>>
    BY <1>1
  <2>2. HearPreChange
    <3>1. e1.type = "PhasePreChange"
      BY <1>1 DEF IsPreChange
    <3>. QED
      BY <1>4, <2>1, <3>1, EventIsHeard
  <2>3. "COMBATDAMAGE" \in Kept /\ "COMBATDAMAGE" # "COMBATEND"
    BY DEF Kept
  <2>4. /\ Typed' /\ UNCHANGED <<currentGamePhase, combatVars, calls, ring, combatStep>>
        /\ \/ eventsQueue' = Tail(eventsQueue)
           \/ \E n \in Nat : eventsQueue' = [eventsQueue EXCEPT ![1].heard = n]
    BY <1>1, <2>1, <2>2, <2>3, WarningIsHeard
  <2>5. LateStep'
    <3>1. UNCHANGED <<attackers, blocking, blocked, assigned, hits>> /\ currentPhase' = currentPhase
      BY <2>4 DEF combatVars, ring, currentPhase
    <3>2. Tally(FALSE)' = Tally(FALSE)
      BY <2>4, <3>1, TallySame
    <3>. QED
      BY <1>2, <2>4, <3>1, <3>2 DEF LateStep
  <2>6. StepChange' = e3
    BY <1>1, <1>3, <2>4
  <2>7. CASE eventsQueue' = Tail(eventsQueue)
    <3>1. eventsQueue' = <<e2, e3>>
      BY <2>1, <2>7
    <3>2. Len(eventsQueue') = 2 /\ eventsQueue'[1] = e2
      BY <3>1
    <3>3. HurriedAndHeard'
      BY <1>1, <1>4, <2>4, <2>5, <2>6, <3>1, <3>2 DEF HurriedAndHeard, IsChange
    <3>. QED
      BY <2>4, <3>3
  <2>8. CASE \E n \in Nat : eventsQueue' = [eventsQueue EXCEPT ![1].heard = n]
    <3>1. PICK n \in Nat : eventsQueue' = [eventsQueue EXCEPT ![1].heard = n]
      BY <2>8
    <3>2. PICK f : f = [e1 EXCEPT !.heard = n]
      OBVIOUS
    <3>3. eventsQueue' = <<f, e2, e3>>
      BY <1>1, <3>1, <3>2
    <3>4. IsPreChange(f) /\ f.to = "COMBATDAMAGE"
      BY <1>1, <3>2 DEF IsPreChange
    <3>5. Len(eventsQueue') = 3 /\ eventsQueue'[1] = f /\ eventsQueue'[2] = e2
      BY <3>3
    <3>6. HurriedToDamage'
      BY <1>1, <1>4, <2>4, <2>5, <2>6, <3>3, <3>4, <3>5 DEF HurriedToDamage, IsPreChange, IsChange
    <3>. QED
      BY <2>4, <3>6
  <2>. QED
    BY <2>4, <2>7, <2>8
<1>5. CASE calls = <<Call("entered", TRUE)>>
  <2>1. PICK l : l = Call("entered", TRUE)
    OBVIOUS
  <2>2. l.op = "entered" /\ l.nested = TRUE
    BY <2>1 DEF Call
  <2>3. calls # <<>> /\ Head(calls) = l /\ Tail(calls) = <<>>
    <3>1. calls = <<l>>
      BY <1>5, <2>1
    <3>. QED
      BY <3>1
  <2>4. entered
    BY <2>2, <2>3, CallGoesOn
  <2>5. currentGamePhase = "COMBATDAMAGE"
    BY <1>2 DEF LateStep
  <2>6. /\ combatStep' = combatStep /\ calls' = <<>>
        /\ UNCHANGED <<combatVars, currentPlayer, turnCounts, alters, ring, currentGamePhase, eventsQueue>>
    BY <2>3, <2>4, <2>5 DEF entered, StepAtCombatEnd
  <2>7. CombatTyped' /\ FlowTyped' /\ RingTyped'
    BY <2>6, CombatTypedSame DEF Typed, FlowTyped, RingTyped, ring, turnCounts
  <2>8. LateStep'
    <3>1. UNCHANGED <<attackers, blocking, blocked, assigned, hits>> /\ currentPhase' = currentPhase
      BY <2>6 DEF combatVars, ring, currentPhase
    <3>2. Tally(FALSE)' = Tally(FALSE)
      BY <2>6, <3>1, TallySame
    <3>. QED
      BY <1>2, <2>6, <3>1, <3>2 DEF LateStep
  <2>9. StepChange' = StepChange
    BY <1>3, <2>6
  <2>10. HurriedToDamage'
    BY <2>6, <2>8, <2>9 DEF HurriedToDamage, IsPreChange, IsChange
  <2>. QED
    BY <2>6, <2>7, <2>10 DEF Typed
<1>. QED
  BY <1>2, <1>4, <1>5

LEMMA HurriedAndHeardNext ==
  ASSUME Typed, HurriedAndHeard, Next
  PROVE  Typed' /\ Stepping'
<1>1. PICK e, s : /\ eventsQueue = <<e, s>> /\ e = eventsQueue[1] /\ s = StepChange
                  /\ IsChange(e) /\ e.to = "COMBATDAMAGE"
  BY DEF HurriedAndHeard
<1>2. calls = <<>> /\ LateStep
  BY DEF HurriedAndHeard
<1>3. Head(eventsQueue) = e /\ Tail(eventsQueue) = <<s>> /\ eventsQueue # <<>>
  BY <1>1
<1>4. e.type = "PhaseChange" /\ e.from # "COMBATATTACKERS"
  BY <1>1 DEF IsChange
<1>5. HearPhaseChange
  BY <1>2, <1>3, <1>4, EventIsHeard
<1>6. /\ Typed'
      /\ UNCHANGED <<ring, currentGamePhase, combatStep, currentPlayer, calls>>
      /\ eventsQueue' = <<s>>
      /\ Tally(FALSE)' = Tally(FALSE)
  BY <1>3, <1>4, <1>5, ChangeIsHeard
<1>7. StepChange' = StepChange /\ currentPhase' = currentPhase
  BY <1>6 DEF StepChange, currentPhase, ring
<1>8. StepComes' /\ StrikersGone'
  BY <1>2, <1>6 DEF LateStep, StepComes, StrikersGone
<1>9. Stepping'
  BY <1>1, <1>2, <1>6, <1>7, <1>8 DEF Stepping, LateStep, Rests
<1>. QED
  BY <1>6, <1>9

LEMMA HurriedToEndNext ==
  ASSUME Typed, HurriedToEnd, Next
  PROVE  Typed' /\ EndWarned'
<1>1. PICK rest \in Rests :
        /\ calls = <<Call("entered", TRUE)>> \o rest
        /\ LateQueue /\ currentGamePhase = "COMBATEND" /\ currentPhase = "COMBATEND"
        /\ combatStep = "END_DAMAGE" /\ AllDealt
  BY Zenon DEF HurriedToEnd
<1>2. PICK l : l = Call("entered", TRUE)
  OBVIOUS
<1>3. l.op = "entered" /\ l.nested = TRUE
  BY <1>2 DEF Call
<1>4. calls # <<>> /\ Head(calls) = l /\ Tail(calls) = rest
  BY <1>1, <1>2, LedByOne
<1>5. entered
  BY <1>3, <1>4, CallGoesOn
<1>6. /\ combatStep' = "BLOCKERS" /\ calls' = rest
      /\ UNCHANGED <<combatVars, currentPlayer, turnCounts, alters, ring, currentGamePhase, eventsQueue>>
  BY <1>1, <1>4, <1>5 DEF entered, StepAtCombatEnd
<1>7. CombatTyped' /\ FlowTyped' /\ RingTyped'
  BY <1>6, CombatTypedSame DEF Typed, FlowTyped, RingTyped, ring, turnCounts, Steps
<1>8. AllDealt'
  BY <1>1, <1>6, DealtSame DEF combatVars
<1>9. current \in 1..current /\ turn[current].id = "COMBATEND"
  BY <1>1, ChainedIs DEF Typed, RingTyped, currentPhase
<1>10. AtEnd'
  BY <1>1, <1>6, <1>8, <1>9 DEF AtEnd, ring, currentPhase
<1>11. EndWarned'
  BY <1>1, <1>6, <1>10, RestsAre DEF EndWarned, LateQueue, Late, IsPreChange, IsChange
<1>. QED
  BY <1>6, <1>7, <1>11 DEF Typed

LEMMA EndWarnedNext ==
  ASSUME Typed, EndWarned, Next
  PROVE  Typed' /\ (EndWarned' \/ EndReached')
<1>1. PICK e1, e2 : /\ eventsQueue = <<e1, e2>> /\ e1 = eventsQueue[1] /\ e2 = eventsQueue[2]
                    /\ IsPreChange(e1) /\ e1.to = "COMBATEND"
                    /\ IsChange(e2) /\ e2.to = "COMBATEND"
  BY DEF EndWarned
<1>2. calls \in Rests /\ AtEnd
  BY DEF EndWarned
<1>3. Head(eventsQueue) = e1 /\ Tail(eventsQueue) = <<e2>> /\ eventsQueue # <<>>
  BY <1>1
<1>4. HearPreChange
  <2>1. calls # <<>> => ~Head(calls).nested
    BY <1>2, RestsAre
  <2>2. e1.type = "PhasePreChange"
    BY <1>1 DEF IsPreChange
  <2>. QED
    BY <1>3, <2>1, <2>2, EventIsHeard
<1>5. \E i \in 1..current : turn[i].id = "COMBATEND"
  BY <1>2 DEF AtEnd
<1>6. /\ Typed' /\ UNCHANGED <<currentGamePhase, combatVars, calls>>
      /\ \/ eventsQueue' = Tail(eventsQueue) /\ UNCHANGED <<ring, combatStep>>
         \/ /\ \E n \in Nat : eventsQueue' = [eventsQueue EXCEPT ![1].heard = n]
            /\ UNCHANGED <<ring, combatStep>> \/ Extended
  <2>1. "COMBATEND" \in Kept
    BY DEF Kept
  <2>. QED
    BY <1>1, <1>3, <1>4, <1>5, <2>1, WarningIsHeard
<1>7. AllDealt'
  BY <1>2, <1>6, DealtSame DEF AtEnd, combatVars
<1>8. calls' \in Rests'
  BY <1>2, <1>6, RestsAre
<1>9. AtEnd'
  <2>1. CASE UNCHANGED <<ring, combatStep>>
    BY <1>2, <1>6, <1>7, <2>1 DEF AtEnd, ring, currentPhase
  <2>2. CASE Extended
    BY <1>2, <1>6, <1>7, <2>2 DEF AtEnd, Extended, currentPhase
  <2>. QED
    BY <1>6, <2>1, <2>2
<1>10. CASE eventsQueue' = Tail(eventsQueue)
  <2>1. eventsQueue' = <<e2>>
    BY <1>3, <1>10
  <2>2. Len(eventsQueue') = 1 /\ eventsQueue'[1] = e2
    BY <2>1
  <2>3. EndReached'
    BY <1>1, <1>8, <1>9, <2>1, <2>2 DEF EndReached, IsChange
  <2>. QED
    BY <1>6, <2>3
<1>11. CASE \E n \in Nat : eventsQueue' = [eventsQueue EXCEPT ![1].heard = n]
  <2>1. PICK n \in Nat : eventsQueue' = [eventsQueue EXCEPT ![1].heard = n]
    BY <1>11
  <2>2. PICK f : f = [e1 EXCEPT !.heard = n]
    OBVIOUS
  <2>3. eventsQueue' = <<f, e2>>
    BY <1>1, <2>1, <2>2
  <2>4. IsPreChange(f) /\ f.to = "COMBATEND"
    BY <1>1, <2>2 DEF IsPreChange
  <2>5. Len(eventsQueue') = 2 /\ eventsQueue'[1] = f /\ eventsQueue'[2] = e2
    BY <2>3
  <2>6. EndWarned'
    BY <1>1, <1>8, <1>9, <2>3, <2>4, <2>5 DEF EndWarned, IsPreChange, IsChange
  <2>. QED
    BY <1>6, <2>6
<1>. QED
  BY <1>6, <1>10, <1>11

LEMMA EndReachedNext ==
  ASSUME Typed, EndReached, Next
  PROVE  Typed' /\ (Resting' \/ Entering')
<1>1. PICK e : /\ eventsQueue = <<e>> /\ IsChange(e) /\ e.to = "COMBATEND"
  BY DEF EndReached
<1>2. calls \in Rests /\ AtEnd
  BY DEF EndReached
<1>3. Head(eventsQueue) = e /\ Tail(eventsQueue) = <<>> /\ eventsQueue # <<>>
  BY <1>1
<1>4. e.type = "PhaseChange" /\ e.from # "COMBATATTACKERS"
  BY <1>1 DEF IsChange
<1>5. HearPhaseChange
  <2>1. calls # <<>> => ~Head(calls).nested
    BY <1>2, RestsAre
  <2>. QED
    BY <1>3, <1>4, <2>1, EventIsHeard
<1>6. /\ Typed'
      /\ UNCHANGED <<ring, currentGamePhase, combatStep, hits, calls, attackers, blocking, blocked, assigned>>
      /\ eventsQueue' = <<>> /\ cursor_pos' = "NONE"
  BY <1>1, <1>3, <1>4, <1>5, ChangeIsHeard
<1>7. AllDealt' /\ currentGamePhase' = "COMBATEND" /\ combatStep' = "BLOCKERS"
  BY <1>2, <1>6, DealtSame DEF AtEnd
<1>8. StepFits' /\ ScreenFits' /\ StrikersGone' /\ Tally(TRUE)'
  BY <1>6, <1>7 DEF StepFits, ScreenFits, StrikersGone, Tally
<1>9. InPlace'
  BY <1>2, <1>6, <1>7 DEF AtEnd, InPlace, ring, currentPhase
<1>10. CASE calls = <<>>
  BY <1>6, <1>8, <1>9, <1>10 DEF Resting, Settled, CallsOfSettled
<1>11. CASE calls = <<Enter>>
  <2>1. calls' = <<Enter'>>
    BY <1>6, <1>11 DEF Enter, Call
  <2>2. Enters'
    BY <1>6, <1>7, <1>8, <1>9 DEF Enters, NoScreen
  <2>3. Entering'
    BY <1>6, <2>1, <2>2 DEF Entering
  <2>. QED
    BY <1>6, <2>3
<1>. QED
  BY <1>2, <1>10, <1>11 DEF Rests

-----------------------------------------------------------------------------
(* The invariant. *)

LEMMA IInvAtFirst ==
  ASSUME Init
  PROVE  IInv
<1>1. /\ turn = GameTurn /\ current = 5
      /\ currentGamePhase = "FIRSTMAIN" /\ combatStep = "BLOCKERS"
      /\ currentPlayer \in Players
      /\ extraTurn = [p \in Players |-> 0] /\ skippingTurn = [p \in Players |-> 0]
      /\ alters = <<>> /\ eventsQueue = <<>> /\ calls = <<>>
  BY DEF Init
<1>2. /\ attackers = {} /\ blocked = {}
      /\ blocking = [b \in Blockers |-> Nothing]
      /\ assigned = [b \in Blockers |-> Nothing]
      /\ step = "DAMAGE" /\ cursor_pos = "NONE"
      /\ hits = [c \in Creatures |-> 0]
  BY DEF Init, CombatInit
<1>3. RingTyped /\ currentPhase = "FIRSTMAIN"
  <2>1. GameTurn[5].id = "FIRSTMAIN" /\ 5 \in 1..Len(GameTurn)
    <3>1. DOMAIN GamePhases = 1..14 /\ GamePhases[5] = "FIRSTMAIN"
      BY DEF GamePhases
    <3>2. GameTurn[5] = Phase(GamePhases[5])
      BY <3>1 DEF GameTurn
    <3>3. Len(GameTurn) = 14
      BY <3>1, GameTurnIs DEF GameTurn
    <3>. QED
      BY <3>1, <3>2, <3>3 DEF Phase
  <2>. QED
    BY <1>1, <2>1, GameTurnIs DEF RingTyped, currentPhase
<1>4. FlowTyped
  BY <1>1 DEF FlowTyped, Steps, PhaseIds, GamePhases
<1>5. CombatTyped
  BY <1>2 DEF CombatTyped, Steps
<1>6. Tally(TRUE)
  BY <1>1, <1>2 DEF Tally, NoneDealt
<1>7. Settled
  BY <1>1, <1>2, <1>3, <1>6 DEF Settled, StepFits, ScreenFits, StrikersGone, InPlace
<1>8. Resting
  BY <1>1, <1>7 DEF Resting, CallsOfSettled
<1>9. alters \in Seq(Sparing)
  BY <1>1
<1>. QED
  BY <1>3, <1>4, <1>5, <1>8, <1>9 DEF IInv, Typed

LEMMA IInvIsKept ==
  ASSUME SkipsSpareCombat, IInv, Next
  PROVE  IInv'
<1>1. CASE Resting
  <2>1. Typed' /\ (Resting' \/ Stepping' \/ Leaving')
    BY <1>1, RestingNext DEF IInv
  <2>. QED
    BY <2>1, Zenon DEF IInv, Requested, Hurried
<1>2. CASE Requested
  <2>1. Leaving => Typed' /\ Warned'
    BY LeavingNext DEF IInv
  <2>2. Warned => Typed' /\ (Warned' \/ Leaving' \/ Landed')
    BY WarnedNext DEF IInv
  <2>3. Landed => Typed' /\ (Landed' \/ Arriving' \/ SkipsBlockers')
    BY LandedNext DEF IInv
  <2>4. Arriving => Typed' /\ (Entering' \/ Stepping')
    BY ArrivingNext DEF IInv
  <2>5. Entering => Typed' /\ Resting'
    BY EnteringNext DEF IInv
  <2>6. SkipsBlockers => Typed' /\ SkipsBlockersWarned'
    BY SkipsBlockersNext DEF IInv
  <2>7. SkipsBlockersWarned => Typed' /\ (SkipsBlockersWarned' \/ SkipsBlockers' \/ SkipsDamage')
    BY SkipsBlockersWarnedNext DEF IInv
  <2>8. SkipsDamage => Typed' /\ (SkipsDamage' \/ SkipsDamageWarned')
    BY SkipsDamageNext DEF IInv
  <2>9. SkipsDamageWarned => Typed' /\ (SkipsDamageWarned' \/ SkipsDamage' \/ SkipsToEnd')
    BY SkipsDamageWarnedNext DEF IInv
  <2>10. SkipsToEnd => Typed' /\ (SkipsToEnd' \/ Entering')
    BY SkipsToEndNext DEF IInv
  <2>. QED
    BY <1>2, <2>1, <2>2, <2>3, <2>4, <2>5, <2>6, <2>7, <2>8, <2>9, <2>10, Zenon
       DEF IInv, Requested, Hurried
<1>3. CASE Hurried
  <2>1. Stepping => Typed' /\ (Resting' \/ Entering' \/ Stepping' \/ HurriesOn')
    BY SteppingNext DEF IInv
  <2>2. HurriesOn => Typed' /\ HurriesWarned'
    BY HurriesOnNext DEF IInv
  <2>3. HurriesWarned => Typed' /\ HurriesIn'
    BY HurriesWarnedNext DEF IInv
  <2>4. HurriesIn => Typed' /\ (HurriesIn' \/ HurriedToDamage' \/ HurriedToEnd')
    BY HurriesInNext DEF IInv
  <2>5. HurriedToDamage => Typed' /\ (HurriedToDamage' \/ HurriedAndHeard')
    BY HurriedToDamageNext DEF IInv
  <2>6. HurriedAndHeard => Typed' /\ Stepping'
    BY HurriedAndHeardNext DEF IInv
  <2>7. HurriedToEnd => Typed' /\ EndWarned'
    BY HurriedToEndNext DEF IInv
  <2>8. EndWarned => Typed' /\ (EndWarned' \/ EndReached')
    BY EndWarnedNext DEF IInv
  <2>9. EndReached => Typed' /\ (Resting' \/ Entering')
    BY EndReachedNext DEF IInv
  <2>. QED
    BY <1>3, <2>1, <2>2, <2>3, <2>4, <2>5, <2>6, <2>7, <2>8, <2>9, Zenon
       DEF IInv, Requested, Hurried
<1>. QED
  BY <1>1, <1>2, <1>3 DEF IInv

LEMMA IInvIsLeft ==
  ASSUME IInv, UNCHANGED vars
  PROVE  IInv'
<1>1. UNCHANGED <<attackers, blocking, blocked, assigned, step, cursor_pos, hits>>
  BY DEF vars, combatVars
<1>2. UNCHANGED <<currentPlayer, currentGamePhase, combatStep, extraTurn, skippingTurn>>
  BY DEF vars, flow, turnCounts
<1>3. UNCHANGED <<alters, eventsQueue, calls, turn, current>>
  BY DEF vars, ring
<1>. USE <1>1, <1>2, <1>3
<1>4. Typed'
  BY DEF IInv, Typed, RingTyped, FlowTyped, CombatTyped
<1>5. Tally(TRUE)' = Tally(TRUE) /\ Tally(FALSE)' = Tally(FALSE) /\ AllDealt' = AllDealt
  BY DEF Tally, OnAttackers, AllDealt, FirstDealt, NoneDealt, Unhindered, BlockersOf,
         Strikes, DamageOnce
<1>6. currentPhase' = currentPhase
  BY DEF currentPhase
<1>7. Resting => Resting'
  BY <1>5, <1>6 DEF Resting, Settled, StepFits, ScreenFits, StrikersGone, FirstStrikers, InPlace
<1>8. Departs' = Departs /\ Skipping' = Skipping
  BY <1>5 DEF Departs, NoScreen, Skipping, NoneDealt
<1>9. Leaving \/ Landed \/ Arriving => Leaving' \/ Landed' \/ Arriving'
  BY <1>6, <1>8 DEF Leaving, Landed, Arriving, Changes, Lands, Origin, NoScreen
<1>10. Entering => Entering'
  BY <1>5, <1>6 DEF Entering, Enters, StepFits, ScreenFits, StrikersGone, FirstStrikers, InPlace,
                    NoScreen
<1>11. Warned => Warned'
  BY <1>6, <1>8 DEF Warned, Heading, Warns, Here, Origin
<1>12. SkipsBlockersWarned => SkipsBlockersWarned'
  BY <1>8 DEF SkipsBlockersWarned, Heading, Warns, Here
<1>13. SkipsDamageWarned => SkipsDamageWarned'
  BY <1>8 DEF SkipsDamageWarned, Heading, Warns, Here
<1>14. /\ SkipsBlockers => SkipsBlockers'
       /\ SkipsDamage => SkipsDamage'
       /\ SkipsToEnd => SkipsToEnd'
  BY <1>6, <1>8 DEF SkipsBlockers, SkipsDamage, SkipsToEnd, SkipsChanges
<1>15. Requested => Requested'
  BY <1>9, <1>10, <1>11, <1>12, <1>13, <1>14, Zenon DEF Requested
<1>16. Stepping => Stepping'
  BY <1>5, <1>6 DEF Stepping, StepChange, StepComes, StrikersGone, FirstStrikers, human, NoScreen
<1>17. HurriesOn \/ HurriesWarned \/ HurriesIn => HurriesOn' \/ HurriesWarned' \/ HurriesIn'
  BY <1>5, <1>6 DEF HurriesOn, HurriesWarned, HurriesIn, Hurries, Late, LateQueue, Lands
<1>18. HurriedToDamage \/ HurriedAndHeard => HurriedToDamage' \/ HurriedAndHeard'
  BY <1>5, <1>6 DEF HurriedToDamage, HurriedAndHeard, LateStep, StepChange
<1>19. HurriedToEnd \/ EndWarned \/ EndReached => HurriedToEnd' \/ EndWarned' \/ EndReached'
  BY <1>5, <1>6 DEF HurriedToEnd, EndWarned, EndReached, AtEnd, LateQueue, Late
<1>20. Hurried => Hurried'
  BY <1>16, <1>17, <1>18, <1>19, Zenon DEF Hurried
<1>. QED
  BY <1>4, <1>7, <1>15, <1>20, Zenon DEF IInv

LEMMA IInvTypeOK ==
  ASSUME IInv
  PROVE  TypeOK
<1>1. RingTyped /\ FlowTyped /\ CombatTyped /\ alters \in Seq(Sparing)
  BY DEF IInv, Typed
<1>2. turn \in Seq(Phases) /\ RingDefined
  BY <1>1 DEF RingTyped, Chained, RingDefined
<1>3. alters \in Seq(Alterations)
  <2>1. Sparing \subseteq Alterations
    BY DEF Sparing
  <2>. QED
    BY <1>1, <2>1
<1>4. /\ currentPlayer \in Players
      /\ extraTurn \in [Players -> 0..1] /\ skippingTurn \in [Players -> 0..1]
      /\ currentGamePhase \in PhaseIds /\ combatStep \in Steps
  BY <1>1 DEF FlowTyped
<1>5. /\ attackers \subseteq Attackers /\ blocked \subseteq Attackers
      /\ blocking \in [Blockers -> attackers \cup {Nothing}]
      /\ assigned \in [Blockers -> attackers \cup {Nothing}]
      /\ step \in Steps /\ cursor_pos \in {"NONE", "ATK"}
      /\ hits \in [Creatures -> Nat]
  BY <1>1 DEF CombatTyped
<1>. QED
  BY <1>2, <1>3, <1>4, <1>5 DEF TypeOK

\* The game waits for a player at rest only.
LEMMA IdleIsResting ==
  ASSUME IInv, Idle
  PROVE  Settled
<1>1. ~Requested
  <2>1. ~(Leaving \/ Landed \/ Arriving \/ Entering)
    BY DEF Idle, Leaving, Landed, Arriving, Entering
  <2>2. ~(Warned \/ SkipsBlockersWarned \/ SkipsDamageWarned)
    BY DEF Idle, Warned, SkipsBlockersWarned, SkipsDamageWarned
  <2>3. ~(SkipsBlockers \/ SkipsDamage \/ SkipsToEnd)
    BY DEF Idle, SkipsBlockers, SkipsDamage, SkipsToEnd
  <2>. QED
    BY <2>1, <2>2, <2>3, Zenon DEF Requested
<1>2. ~Hurried
  <2>1. ~(Stepping \/ HurriedToDamage \/ HurriedAndHeard)
    BY DEF Idle, Stepping, HurriedToDamage, HurriedAndHeard
  <2>2. ~(EndWarned \/ EndReached)
    BY DEF Idle, EndWarned, EndReached
  <2>3. ~HurriesWarned
    BY DEF Idle, HurriesWarned
  <2>4. ~(HurriesIn \/ HurriedToEnd)
    BY DEF Idle, HurriesIn, HurriedToEnd, LateQueue
  <2>5. ~HurriesOn
    <3>1. \A rest \in Rests : calls # <<Call("forward", TRUE), Land(TRUE, currentGamePhase)>> \o rest
      BY DEF Idle, Rests, Enter
    <3>. QED
      BY <3>1 DEF HurriesOn
  <2>. QED
    BY <2>1, <2>2, <2>3, <2>4, <2>5, Zenon DEF Hurried
<1>. QED
  BY <1>1, <1>2 DEF IInv, Resting

\* However far a combat has got, no creature has dealt too much.
LEMMA DealtIsOnce ==
  ASSUME NoneDealt \/ FirstDealt \/ AllDealt
  PROVE  DamageOnce
<1>1. CASE NoneDealt
  BY <1>1 DEF NoneDealt, DamageOnce, Strokes
<1>2. CASE FirstDealt
  BY <1>2 DEF FirstDealt, DamageOnce, Strokes
<1>3. CASE AllDealt
  BY <1>3 DEF AllDealt
<1>. QED
  BY <1>1, <1>2, <1>3

LEMMA TallyIsOnce ==
  ASSUME Typed, NEW told \in BOOLEAN, Tally(told)
  PROVE  DamageOnce
<1>1. combatStep \in Steps
  BY DEF Typed, FlowTyped
<1>. QED
  BY <1>1, DealtIsOnce DEF Tally, Steps

LEMMA IInvDamageOnce ==
  ASSUME IInv
  PROVE  DamageOnce
<1>1. CASE Tally(TRUE) \/ Tally(FALSE)
  BY <1>1, TallyIsOnce DEF IInv
<1>2. CASE NoneDealt \/ AllDealt
  BY <1>2, DealtIsOnce
<1>3. CASE Resting
  BY <1>1, <1>3 DEF Resting, Settled
<1>4. CASE Leaving \/ Warned \/ Landed \/ Arriving
  BY <1>1, <1>4 DEF Leaving, Warned, Landed, Arriving, Departs
<1>5. CASE Entering
  BY <1>1, <1>5 DEF Entering, Enters
<1>6. CASE SkipsBlockers \/ SkipsBlockersWarned \/ SkipsDamage \/ SkipsDamageWarned \/ SkipsToEnd
  BY <1>2, <1>6
  DEF SkipsBlockers, SkipsBlockersWarned, SkipsDamage, SkipsDamageWarned, SkipsToEnd, Skipping
<1>7. CASE Stepping \/ HurriesOn \/ HurriesWarned \/ HurriesIn
  BY <1>1, <1>7 DEF Stepping, HurriesOn, HurriesWarned, HurriesIn, Hurries
<1>8. CASE HurriedToDamage \/ HurriedAndHeard
  BY <1>1, <1>8 DEF HurriedToDamage, HurriedAndHeard, LateStep
<1>9. CASE HurriedToEnd \/ EndWarned \/ EndReached
  BY <1>2, <1>9 DEF HurriedToEnd, EndWarned, EndReached, AtEnd
<1>. QED
  BY <1>3, <1>4, <1>5, <1>6, <1>7, <1>8, <1>9 DEF IInv, Requested, Hurried

LEMMA IInvStepsAgree ==
  ASSUME IInv
  PROVE  StepsAgree
<1>1. Idle => StepFits /\ ScreenFits
  BY IdleIsResting DEF Settled
<1>. QED
  BY <1>1 DEF StepsAgree, StepsFollowPhase, ScreenInStep, StepFits, ScreenFits

LEMMA IInvCombatIsComplete ==
  ASSUME IInv
  PROVE  CombatIsComplete
<1>1. Idle /\ currentGamePhase = "COMBATEND" => AllDealt
  BY IdleIsResting DEF Settled, Tally
<1>. QED
  BY <1>1 DEF AllDealt, Unhindered, CombatIsComplete

-----------------------------------------------------------------------------
(* What holds in every state, if no phase of the second half of combat is    *)
(* skipped. *)

\* The cursor of the ring is on a phase of the turn, wherever phases have been
\* inserted or removed while it moved (addCombatAfter, removePhase), only
\* attackers have blockers and damage coming (GuiCombat), and everything the
\* game, its events and its abilities hold is of its type.
THEOREM FlowTypeCorrect == SkipsSpareCombat => (Spec => []TypeOK)
<1>. SUFFICES ASSUME SkipsSpareCombat PROVE Spec => []TypeOK
  OBVIOUS
<1>1. Init => IInv
  BY IInvAtFirst
<1>2. IInv /\ [Next]_vars => IInv'
  BY IInvIsKept, IInvIsLeft
<1>3. IInv => TypeOK
  BY IInvTypeOK
<1>. QED
  BY <1>1, <1>2, <1>3, PTL DEF Spec

\* Whenever the game waits for a player, the combat step is one of the phase's
\* and the damage on the screen is assigned for it: what nextGamePhase tests
\* and what clickOK asserts.
THEOREM StepsAgreeWithPhase == SkipsSpareCombat => (Spec => []StepsAgree)
<1>. SUFFICES ASSUME SkipsSpareCombat PROVE Spec => []StepsAgree
  OBVIOUS
<1>1. Init => IInv
  BY IInvAtFirst
<1>2. IInv /\ [Next]_vars => IInv'
  BY IInvIsKept, IInvIsLeft
<1>3. IInv => StepsAgree
  BY IInvStepsAgree
<1>. QED
  BY <1>1, <1>2, <1>3, PTL DEF Spec

\* In no order of nested calls, queued events and requests does a creature deal
\* its combat damage more than once, or more than twice with double strike.
THEOREM DamageIsDealtOnce == SkipsSpareCombat => (Spec => []DamageOnce)
<1>. SUFFICES ASSUME SkipsSpareCombat PROVE Spec => []DamageOnce
  OBVIOUS
<1>1. Init => IInv
  BY IInvAtFirst
<1>2. IInv /\ [Next]_vars => IInv'
  BY IInvIsKept, IInvIsLeft
<1>3. IInv => DamageOnce
  BY IInvDamageOnce
<1>. QED
  BY <1>1, <1>2, <1>3, PTL DEF Spec

\* At the end of combat every creature that still attacks unhindered, or blocks,
\* has dealt all the damage it deals: GuiCombat's steps and the phases of the
\* ring never pass each other by.
THEOREM CombatDealsAll == SkipsSpareCombat => (Spec => []CombatIsComplete)
<1>. SUFFICES ASSUME SkipsSpareCombat PROVE Spec => []CombatIsComplete
  OBVIOUS
<1>1. Init => IInv
  BY IInvAtFirst
<1>2. IInv /\ [Next]_vars => IInv'
  BY IInvIsKept, IInvIsLeft
<1>3. IInv => CombatIsComplete
  BY IInvCombatIsComplete
<1>. QED
  BY <1>1, <1>2, <1>3, PTL DEF Spec

-----------------------------------------------------------------------------
(* The order of the turn. *)

NoExtras == \A i \in DOMAIN turn : turn[i].extra = 0

Distinct == \A i, j \in DOMAIN turn : turn[i].id = turn[j].id => i = j

ExtraPhases == {"COMBATBEGIN", "COMBATATTACKERS", "COMBATBLOCKERS", "COMBATDAMAGE",
                "COMBATEND", "SECONDMAIN"}

\* With every copy there is one of its blockers, which nothing takes out.
Backed ==
  \A i \in DOMAIN turn : turn[i].extra # 0 =>
    /\ turn[i].id \in ExtraPhases
    /\ \E j \in DOMAIN turn : turn[j].id = "COMBATBLOCKERS" /\ turn[j].extra = turn[i].extra

\* Extra combats have been put in behind at, the first phase with this id.
PutIn(id, m, at, k, extra, added) ==
  /\ m = Len(turn) /\ turn[at].id = id /\ at <= current
  /\ \A j \in 1..m : turn[j].id = id => at <= j
  /\ k >= 5 /\ Len(turn') = m + k /\ Spliced(turn', turn, added, at, m, k)
  /\ current' = CursorAfter(at)
  /\ \A i \in 1..m : turn[i].extra \in Nat /\ turn[i].extra < extra
  /\ \A j \in 1..k : added[j].extra = extra /\ added[j].id \in ExtraPhases
  /\ added[3].id = "COMBATBLOCKERS"

LEMMA CopiesAre ==
  ASSUME NEW withMain \in BOOLEAN, NEW extra,
         NEW k, k = CopyCount(withMain), NEW added, added = Copies(extra, withMain)
  PROVE  /\ \A j \in 1..k : added[j].extra = extra /\ added[j].id \in ExtraPhases
         /\ added[3].id = "COMBATBLOCKERS"
<1>. DEFINE five == <<"COMBATBEGIN", "COMBATATTACKERS", "COMBATBLOCKERS", "COMBATDAMAGE",
                      "COMBATEND">>
            six == <<"COMBATBEGIN", "COMBATATTACKERS", "COMBATBLOCKERS", "COMBATDAMAGE",
                     "COMBATEND", "SECONDMAIN">>
<1>1. PICK ids : ids = ExtraIds(withMain)
  OBVIOUS
<1>2. ids = IF withMain THEN six ELSE five
  <2>1. CASE withMain
    BY <1>1, <2>1, ExtraIdsAre
  <2>2. CASE ~withMain
    <3>1. ids = ExtraIds(FALSE)
      BY <1>1, <2>2
    <3>. QED
      BY <2>2, <3>1, ExtraIdsAre DEF CombatPhases
  <2>. QED
    BY <2>1, <2>2
<1>3. DOMAIN ids = 1..k /\ ids[3] = "COMBATBLOCKERS" /\ \A j \in 1..k : ids[j] \in ExtraPhases
  <2>1. CASE withMain
    BY <1>2, <2>1 DEF ExtraPhases, CopyCount
  <2>2. CASE ~withMain
    BY <1>2, <2>2 DEF ExtraPhases, CopyCount
  <2>. QED
    BY <2>1, <2>2
<1>4. added = [i \in 1..k |-> [id |-> ids[i], extra |-> extra]]
  BY <1>1, <1>3 DEF Copies
<1>5. 3 \in 1..k
  BY DEF CopyCount
<1>. QED
  BY <1>3, <1>4, <1>5

LEMMA ExtraCombatPut ==
  ASSUME Chained(turn), current \in 1..Len(turn),
         NEW withMain \in BOOLEAN, NEW id, Extends(id, withMain),
         \E i \in 1..current : turn[i].id = id,
         addCombatAfter(id, withMain)
  PROVE  \E m \in Nat, at \in Nat, k \in Nat, extra \in Nat : at \in 1..m /\
           \E added : PutIn(id, m, at, k, extra, added)
<1>1. PICK m \in Nat : m = Len(turn)
  BY ChainedIs
<1>2. PICK at \in 1..m : /\ at = IndexOf(id) /\ turn[at].id = id /\ at <= current
                         /\ \A j \in 1..m : turn[j].id = id => at <= j
  <2>1. PICK i \in 1..m : i <= current /\ turn[i].id = id
    BY <1>1
  <2>2. /\ IndexOf(id) \in 1..m /\ turn[IndexOf(id)].id = id
        /\ \A j \in 1..m : turn[j].id = id => IndexOf(id) <= j
    BY <1>1, <2>1, IndexOfIs
  <2>3. IndexOf(id) <= current
    BY <1>1, <2>1, <2>2
  <2>. QED
    BY <2>2, <2>3
<1>3. PICK extra \in Nat : extra = NextExtra /\ \A i \in 1..m : turn[i].extra < extra
  BY <1>1, NextExtraIsNatural
<1>4. PICK added : added = Copies(extra, withMain)
  OBVIOUS
<1>5. PICK k \in Nat : k = CopyCount(withMain) /\ k >= 5
  BY DEF CopyCount
<1>6. turn' = Inserted(turn, added, at) /\ current' = CursorAfter(at)
  <2>1. at # 0
    OBVIOUS
  <2>2. CombatPhases \o (IF withMain THEN <<"SECONDMAIN">> ELSE <<>>) = ExtraIds(withMain)
    BY Zenon DEF ExtraIds
  <2>3. turn' = AfterIndex(added, at) /\ current' = CursorAfter(at)
    BY <1>2, <1>3, <1>4, <2>1, <2>2, Zenon DEF addCombatAfter, Copies
  <2>. QED
    BY <2>3, Zenon DEF AfterIndex, Inserted
<1>7. added \in Seq(Phases) /\ Len(added) = k
  BY <1>4, <1>5, CopiesFollow, Zenon
<1>8. Len(turn') = m + k /\ Spliced(turn', turn, added, at, m, k)
  <2>1. turn \in Seq(Phases) /\ at \in 1..Len(turn)
    BY <1>1 DEF Chained
  <2>. QED
    BY <1>1, <1>6, <1>7, <2>1, InsertionIs, Zenon
<1>9. /\ \A j \in 1..k : added[j].extra = extra /\ added[j].id \in ExtraPhases
      /\ added[3].id = "COMBATBLOCKERS"
  <2>1. withMain \in BOOLEAN /\ k = CopyCount(withMain) /\ added = Copies(extra, withMain)
    BY <1>4, <1>5
  <2>. QED
    BY ONLY <2>1, CopiesAre
<1>10. \A i \in 1..m : turn[i].extra \in Nat
  <2>1. \A i \in 1..m : turn[i] \in Phases
    BY <1>1, ChainedIs
  <2>. QED
    BY <2>1 DEF Phases
<1>11. PutIn(id, m, at, k, extra, added)
  BY <1>1, <1>2, <1>3, <1>5, <1>6, <1>8, <1>9, <1>10, Zenon DEF PutIn
<1>12. at \in Nat /\ at \in 1..m
  OBVIOUS
<1>. QED
  BY <1>11, <1>12, Zenon

\* Where the old and the new phases of a longer list are.
Placed(r, t, added, at, m, k) ==
  /\ \A j \in 1..at : j \in 1..(m + k) /\ r[j] = t[j]
  /\ \A j \in 1..k : at + j \in 1..(m + k) /\ r[at + j] = added[j]
  /\ \A j \in 1..m : j > at => j + k \in 1..(m + k) /\ r[j + k] = t[j]
  /\ \A j \in 1..(m + k) : \/ j \in 1..at /\ r[j] = t[j]
                           \/ j - at \in 1..k /\ r[j] = added[j - at]
                           \/ j - k \in 1..m /\ j - k > at /\ r[j] = t[j - k]

LEMMA PlacesOf ==
  ASSUME NEW m \in Nat, NEW at \in 1..m, NEW k \in Nat, NEW r, NEW t, NEW added,
         Spliced(r, t, added, at, m, k)
  PROVE  Placed(r, t, added, at, m, k)
<1>1. ASSUME NEW j \in 1..at
      PROVE  j \in 1..(m + k) /\ r[j] = t[j]
  BY DEF Spliced
<1>2. ASSUME NEW j \in 1..k
      PROVE  at + j \in 1..(m + k) /\ r[at + j] = added[j]
  <2>1. at + j \in 1..(m + k) /\ ~(at + j <= at) /\ at + j <= at + k /\ (at + j) - at = j
    OBVIOUS
  <2>. QED
    BY <2>1 DEF Spliced
<1>3. ASSUME NEW j \in 1..m, j > at
      PROVE  j + k \in 1..(m + k) /\ r[j + k] = t[j]
  <2>1. j + k \in 1..(m + k) /\ ~(j + k <= at) /\ ~(j + k <= at + k) /\ (j + k) - k = j
    BY <1>3
  <2>. QED
    BY <2>1 DEF Spliced
<1>4. ASSUME NEW j \in 1..(m + k)
      PROVE  \/ j \in 1..at /\ r[j] = t[j]
             \/ j - at \in 1..k /\ r[j] = added[j - at]
             \/ j - k \in 1..m /\ j - k > at /\ r[j] = t[j - k]
  BY DEF Spliced
<1>. QED
  BY <1>1, <1>2, <1>3, <1>4 DEF Placed

\* In a turn without copies every phase comes once.
InOrder == (NoExtras => Distinct) /\ Backed

\* Nothing that has been played comes again.
NothingTwice ==
  {turn[i] : i \in 1..current} \cap {turn'[i] : i \in (current' + 1)..Len(turn')} = {}

\* A combat has been put in behind the phase with this id: if it is the first,
\* the cursor stays on the phase and what has been played stays in front.
Lengthened(id) ==
  /\ Backed' /\ ~NoExtras' /\ (OneExtra' => NoExtras)
  /\ NoExtras /\ currentPhase = id => currentPhase' = id /\ NothingTwice

LEMMA PutInOrder ==
  ASSUME Chained(turn), Chained(turn'), current \in 1..Len(turn), InOrder,
         NEW id, NEW m \in Nat, NEW at \in 1..m, NEW k \in Nat, NEW extra \in Nat, NEW added,
         PutIn(id, m, at, k, extra, added)
  PROVE  Lengthened(id)
<1>. Backed /\ (NoExtras => Distinct)
  BY DEF InOrder
<1>1. /\ m = Len(turn) /\ turn[at].id = id /\ at <= current
      /\ \A j \in 1..m : turn[j].id = id => at <= j
      /\ k >= 5 /\ Len(turn') = m + k /\ Spliced(turn', turn, added, at, m, k)
      /\ current' = CursorAfter(at)
  BY DEF PutIn
<1>2. /\ \A i \in 1..m : turn[i].extra \in Nat /\ turn[i].extra < extra
      /\ \A j \in 1..k : added[j].extra = extra /\ added[j].id \in ExtraPhases
      /\ added[3].id = "COMBATBLOCKERS"
  BY DEF PutIn
<1>3. DOMAIN turn = 1..m /\ DOMAIN turn' = 1..(m + k)
  BY <1>1, ChainedIs
<1>4. PICK r : r = turn'
  OBVIOUS
<1>P. Placed(r, turn, added, at, m, k)
  <2>1. Spliced(r, turn, added, at, m, k)
    BY <1>1, <1>4
  <2>. QED
    BY <2>1, PlacesOf, Zenon
<1>5. /\ \A j \in 1..at : j \in 1..(m + k) /\ r[j] = turn[j]
      /\ \A j \in 1..k : at + j \in 1..(m + k) /\ r[at + j] = added[j]
      /\ \A j \in 1..m : j > at => j + k \in 1..(m + k) /\ r[j + k] = turn[j]
  BY <1>P DEF Placed
<1>6. \A j \in 1..(m + k) : \/ j \in 1..at /\ r[j] = turn[j]
                            \/ j - at \in 1..k /\ r[j] = added[j - at]
                            \/ j - k \in 1..m /\ j - k > at /\ r[j] = turn[j - k]
  BY <1>P DEF Placed
<1>7. extra # 0 /\ 1 \in 1..k /\ 3 \in 1..k
  BY <1>1, <1>2
<1>8. \A i \in 1..m : \E j \in 1..(m + k) : r[j] = turn[i]
  <2>. SUFFICES ASSUME NEW i \in 1..m PROVE \E j \in 1..(m + k) : r[j] = turn[i]
    OBVIOUS
  <2>1. CASE i <= at
    BY <1>5, <2>1
  <2>2. CASE i > at
    BY <1>5, <2>2
  <2>. QED
    BY <2>1, <2>2
<1>9. Backed'
  <2>. SUFFICES ASSUME NEW i \in 1..(m + k), r[i].extra # 0
                PROVE  /\ r[i].id \in ExtraPhases
                       /\ \E j \in 1..(m + k) : r[j].id = "COMBATBLOCKERS" /\ r[j].extra = r[i].extra
    BY <1>3, <1>4 DEF Backed
  <2>1. ASSUME NEW h \in 1..m, r[i] = turn[h]
        PROVE  /\ r[i].id \in ExtraPhases
               /\ \E j \in 1..(m + k) : r[j].id = "COMBATBLOCKERS" /\ r[j].extra = r[i].extra
    <3>1. /\ turn[h].id \in ExtraPhases
          /\ \E g \in 1..m : turn[g].id = "COMBATBLOCKERS" /\ turn[g].extra = turn[h].extra
      BY <1>3, <2>1 DEF Backed
    <3>2. PICK g \in 1..m : turn[g].id = "COMBATBLOCKERS" /\ turn[g].extra = turn[h].extra
      BY <3>1
    <3>3. PICK j \in 1..(m + k) : r[j] = turn[g]
      BY <1>8
    <3>. QED
      BY <2>1, <3>1, <3>2, <3>3
  <2>2. ASSUME NEW h \in 1..k, r[i] = added[h]
        PROVE  /\ r[i].id \in ExtraPhases
               /\ \E j \in 1..(m + k) : r[j].id = "COMBATBLOCKERS" /\ r[j].extra = r[i].extra
    <3>1. r[at + 3] = added[3] /\ at + 3 \in 1..(m + k)
      BY <1>5, <1>7
    <3>2. r[i].extra = extra /\ r[at + 3].extra = extra /\ r[at + 3].id = "COMBATBLOCKERS"
      BY <1>2, <1>7, <2>2, <3>1
    <3>. QED
      BY <1>2, <2>2, <3>1, <3>2
  <2>3. i \in 1..m \/ i \notin 1..at
    OBVIOUS
  <2>4. CASE i \in 1..at /\ r[i] = turn[i]
    <3>1. i \in 1..m
      BY <2>4
    <3>. QED
      BY <2>1, <2>4, <3>1
  <2>. QED
    BY <1>6, <2>1, <2>2, <2>4
<1>10. ~NoExtras'
  <2>1. r[at + 1].extra = extra /\ at + 1 \in 1..(m + k)
    BY <1>2, <1>5, <1>7
  <2>. QED
    BY <1>3, <1>4, <1>7, <2>1 DEF NoExtras
<1>11. OneExtra' => NoExtras
  <2>. SUFFICES ASSUME OneExtra' PROVE \A i \in 1..m : turn[i].extra = 0
    BY <1>3 DEF NoExtras
  <2>1. r[at + 1].extra = extra /\ at + 1 \in 1..(m + k)
    BY <1>2, <1>5, <1>7
  <2>2. extra <= 1
    BY <1>3, <1>4, <2>1 DEF OneExtra
  <2>. QED
    BY <1>2, <2>2
<1>12. ASSUME NoExtras, currentPhase = id
       PROVE  currentPhase' = id /\ NothingTwice
  <2>1. at = current
    BY <1>1, <1>3, <1>12 DEF Distinct, currentPhase
  <2>2. current' = current
    BY <1>1, <2>1 DEF CursorAfter
  <2>3. currentPhase' = id
    <3>1. r[at] = turn[at]
      BY <1>5
    <3>. QED
      BY <1>1, <1>4, <2>1, <2>2, <3>1 DEF currentPhase
  <2>4. ASSUME NEW i \in 1..at, NEW j \in (at + 1)..(m + k), turn[i] = r[j]
        PROVE  FALSE
    <3>1. turn[i].extra = 0 /\ i \in 1..m
      BY <1>3, <1>12 DEF NoExtras
    <3>2. CASE j - at \in 1..k /\ r[j] = added[j - at]
      BY <1>2, <1>7, <2>4, <3>1, <3>2
    <3>3. CASE j - k \in 1..m /\ j - k > at /\ r[j] = turn[j - k]
      <4>1. i = j - k
        BY <1>3, <1>12, <2>4, <3>1, <3>3 DEF Distinct
      <4>. QED
        BY <3>3, <4>1
    <3>4. j \in 1..(m + k) /\ j \notin 1..at
      OBVIOUS
    <3>. QED
      BY <1>6, <3>2, <3>3, <3>4
  <2>. QED
    BY <1>1, <1>4, <2>1, <2>2, <2>3, <2>4 DEF NothingTwice
<1>. QED
  BY <1>9, <1>10, <1>11, <1>12, Zenon DEF Lengthened

LEMMA CombatLengthens ==
  ASSUME RingTyped, InOrder, NEW withMain \in BOOLEAN, NEW id, Extends(id, withMain),
         \E i \in 1..current : turn[i].id = id,
         addCombatAfter(id, withMain)
  PROVE  Lengthened(id)
<1>1. Chained(turn) /\ current \in 1..Len(turn)
  BY DEF RingTyped
<1>2. Chained(turn')
  BY <1>1, ExtraCombatIs, Zenon
<1>3. PICK m \in Nat, at \in Nat, k \in Nat, extra \in Nat : at \in 1..m /\
        \E added : PutIn(id, m, at, k, extra, added)
  BY <1>1, ExtraCombatPut, Zenon
<1>4. PICK added : PutIn(id, m, at, k, extra, added)
  BY <1>3
<1>. QED
  BY <1>1, <1>2, <1>3, <1>4, PutInOrder, Zenon

\* A phase has been taken out, and no copy of the blockers.
LEMMA TakenOut ==
  ASSUME RingTyped, InOrder, NEW id, id \notin Kept, removePhase(id)
  PROVE  InOrder' /\ (OneExtra' => OneExtra) /\ Len(turn') <= Len(turn)
<1>1. PICK m \in Nat : m = Len(turn) /\ DOMAIN turn = 1..m
  BY ChainedIs DEF RingTyped
<1>2. Backed /\ (NoExtras => Distinct)
  BY DEF InOrder
<1>3. CASE IndexOf(id) = 0
  <2>1. turn' = turn
    BY <1>3 DEF removePhase, ring
  <2>. QED
    BY <1>1, <2>1 DEF InOrder, Backed, NoExtras, Distinct, OneExtra
<1>4. CASE IndexOf(id) # 0
  <2>1. PICK at \in 1..m : at = IndexOf(id) /\ turn[at].id = id
    BY <1>1, <1>4, IndexOfIs
  <2>2. PICK r : r = RemoveAt(turn, at)
    OBVIOUS
  <2>3. turn' = r
    BY <1>4, <2>1, <2>2, Zenon DEF removePhase
  <2>4. at # m /\ m - 1 \in Nat /\ (m - 1) + 1 = m
    <3>1. turn[m].id = "AFTER_EOT" /\ "AFTER_EOT" \in Kept
      BY <1>1 DEF RingTyped, Chained, Kept
    <3>2. at # m
      BY <2>1, <3>1
    <3>. QED
      BY <3>2
  <2>5. /\ Len(r) = m - 1
        /\ \A j \in 1..(m - 1) : r[j] = IF j < at THEN turn[j] ELSE turn[j + 1]
    <3>1. turn \in Seq(Phases) /\ (m - 1) + 1 = Len(turn) /\ at \in 1..Len(turn)
      BY <1>1, <2>4 DEF RingTyped, Chained
    <3>2. /\ Len(RemoveAt(turn, at)) = m - 1
          /\ \A j \in 1..(m - 1) :
               RemoveAt(turn, at)[j] = IF j < at THEN turn[j] ELSE turn[j + 1]
      BY <2>4, <3>1, RemoveAtIs, Zenon
    <3>. QED
      BY <2>2, <3>2, Zenon
  <2>6. DOMAIN r = 1..(m - 1)
    <3>1. Chained(r)
      <4>1. at \in 1..Len(turn) /\ turn[at].id \notin Kept /\ Chained(turn)
        BY <1>1, <2>1 DEF RingTyped
      <4>. QED
        BY <2>2, <4>1, RemovalKeepsChain, Zenon
    <3>. QED
      BY <2>5, <3>1, ChainedIs
  \* Where an old phase is, and a new one was.
  <2>7. \A i \in 1..m : i # at => \E j \in 1..(m - 1) : r[j] = turn[i]
    <3>. SUFFICES ASSUME NEW i \in 1..m, i # at PROVE \E j \in 1..(m - 1) : r[j] = turn[i]
      OBVIOUS
    <3>1. CASE i < at
      <4>1. i \in 1..(m - 1)
        BY <3>1
      <4>. QED
        BY <2>5, <3>1, <4>1
    <3>2. CASE i > at
      <4>1. i - 1 \in 1..(m - 1) /\ ~(i - 1 < at) /\ (i - 1) + 1 = i
        BY <3>2
      <4>. QED
        BY <2>5, <4>1
    <3>. QED
      BY <3>1, <3>2
  <2>8. \A j \in 1..(m - 1) : r[j] = turn[IF j < at THEN j ELSE j + 1]
                              /\ (IF j < at THEN j ELSE j + 1) \in 1..m
    BY <2>5
  <2>9. \A i \in 1..m : turn[i].id = "COMBATBLOCKERS" => i # at
    BY <2>1 DEF Kept
  <2>10. \A i \in 1..m : turn[i].extra # 0 =>
           \E j \in 1..(m - 1) : r[j].id = "COMBATBLOCKERS" /\ r[j].extra = turn[i].extra
    <3>. SUFFICES ASSUME NEW i \in 1..m, turn[i].extra # 0
                  PROVE  \E j \in 1..(m - 1) : r[j].id = "COMBATBLOCKERS" /\ r[j].extra = turn[i].extra
      OBVIOUS
    <3>1. PICK h \in 1..m : turn[h].id = "COMBATBLOCKERS" /\ turn[h].extra = turn[i].extra
      BY <1>1, <1>2 DEF Backed
    <3>2. PICK j \in 1..(m - 1) : r[j] = turn[h]
      BY <2>7, <2>9, <3>1
    <3>. QED
      BY <3>1, <3>2
  <2>11. Backed'
    <3>. SUFFICES ASSUME NEW i \in 1..(m - 1), r[i].extra # 0
                  PROVE  /\ r[i].id \in ExtraPhases
                         /\ \E j \in 1..(m - 1) : r[j].id = "COMBATBLOCKERS" /\ r[j].extra = r[i].extra
      BY <2>3, <2>6 DEF Backed
    <3>1. PICK h \in 1..m : r[i] = turn[h]
      BY <2>8
    <3>2. turn[h].id \in ExtraPhases
      BY <1>1, <1>2, <3>1 DEF Backed
    <3>. QED
      BY <2>10, <3>1, <3>2
  <2>12. NoExtras' => NoExtras
    <3>1. NoExtras' => \A j \in 1..(m - 1) : r[j].extra = 0
      BY <2>3, <2>6 DEF NoExtras
    <3>. QED
      BY <1>1, <2>10, <3>1 DEF NoExtras
  <2>13. Distinct => Distinct'
    <3>. SUFFICES ASSUME Distinct, NEW i \in 1..(m - 1), NEW j \in 1..(m - 1), r[i].id = r[j].id
                  PROVE  i = j
      BY <2>3, <2>6 DEF Distinct
    <3>1. (IF i < at THEN i ELSE i + 1) = (IF j < at THEN j ELSE j + 1)
      BY <1>1, <2>8 DEF Distinct
    <3>. QED
      BY <3>1
  <2>14. OneExtra' => OneExtra
    <3>1. OneExtra' => \A j \in 1..(m - 1) : r[j].extra <= 1
      BY <2>3, <2>6 DEF OneExtra
    <3>2. OneExtra' => \A i \in 1..m : turn[i].extra # 0 => turn[i].extra <= 1
      BY <2>10, <3>1
    <3>3. OneExtra' => \A i \in 1..m : turn[i].extra <= 1
      BY <3>2
    <3>. QED
      BY <1>1, <3>3 DEF OneExtra
  <2>15. Len(turn') <= Len(turn)
    BY <1>1, <2>3, <2>4, <2>5
  <2>. QED
    BY <1>2, <2>11, <2>12, <2>13, <2>14, <2>15 DEF InOrder
<1>. QED
  BY <1>3, <1>4

\* What an ability does to the turn while its layer is warned of a phase.
LEMMA RingAltered ==
  ASSUME RingTyped, InOrder, alters \in Seq(Sparing), NEW n \in 1..Len(alters), NEW to,
         PhaseAltered(n, to), to = "COMBATEND" => \E i \in 1..current : turn[i].id = "COMBATEND"
  PROVE  \/ UNCHANGED ring
         \/ to = "COMBATEND" /\ Lengthened(to)
         \/ to \notin Kept /\ InOrder' /\ (OneExtra' => OneExtra) /\ Len(turn') <= Len(turn)
<1>1. PICK a : a = alters[n]
  OBVIOUS
<1>2. IF a.adding THEN a.id = "COMBATEND" ELSE a.id \notin Kept
  BY <1>1 DEF Sparing
<1>. DEFINE his == a.who = currentPlayer
            adds == a.adding /\ ~a.applied /\ to = a.id /\ his
            removes == ~a.adding /\ to = a.id /\ his
<1>3. /\ CASE adds    -> addCombatAfter(a.id, FALSE)
           [] removes -> removePhase(a.id)
           [] OTHER   -> UNCHANGED ring
  BY <1>1, Zenon DEF PhaseAltered
<1>4. /\ adds => addCombatAfter(a.id, FALSE)
      /\ removes => removePhase(a.id)
      /\ (~adds /\ ~removes) => UNCHANGED ring
  <2>1. adds => ~removes
    OBVIOUS
  <2>. HIDE DEF adds, removes
  <2>. QED
    BY <1>3, <2>1
<1>5. CASE adds
  <2>1. to = "COMBATEND" /\ a.id = to /\ \E i \in 1..current : turn[i].id = to
    BY <1>2, <1>5
  <2>2. Extends(to, FALSE) /\ addCombatAfter(to, FALSE)
    BY <1>4, <1>5, <2>1 DEF Extends
  <2>3. Lengthened(to)
    BY <2>1, <2>2, CombatLengthens, Zenon
  <2>. QED
    BY <2>1, <2>3
<1>6. CASE removes
  <2>1. to \notin Kept /\ removePhase(to)
    BY <1>2, <1>4, <1>6
  <2>. QED
    BY <2>1, TakenOut, Zenon
<1>. QED
  BY <1>4, <1>5, <1>6

-----------------------------------------------------------------------------
(* The calls and events of each situation, as lists. *)

IsList(s) == \E S : s \in Seq(S)

LEMMA ListsAre ==
  /\ IsList(<<>>)
  /\ \A a : IsList(<<a>>)
  /\ \A a, b : IsList(<<a, b>>)
  /\ \A a, b, c : IsList(<<a, b, c>>)
<1>1. <<>> \in Seq({})
  OBVIOUS
<1>2. ASSUME NEW a
      PROVE  IsList(<<a>>)
  <2>1. <<a>> \in Seq({a})
    OBVIOUS
  <2>. QED
    BY <2>1 DEF IsList
<1>3. ASSUME NEW a, NEW b
      PROVE  IsList(<<a, b>>)
  <2>1. <<a, b>> \in Seq({a, b})
    OBVIOUS
  <2>. QED
    BY <2>1 DEF IsList
<1>4. ASSUME NEW a, NEW b, NEW c
      PROVE  IsList(<<a, b, c>>)
  <2>1. <<a, b, c>> \in Seq({a, b, c})
    OBVIOUS
  <2>. QED
    BY <2>1 DEF IsList
<1>. QED
  BY <1>1, <1>2, <1>3, <1>4, Zenon DEF IsList

LEMMA ListsJoin ==
  ASSUME NEW s, IsList(s), NEW t, IsList(t)
  PROVE  IsList(s \o t)
<1>1. PICK S : s \in Seq(S)
  BY DEF IsList
<1>2. PICK T : t \in Seq(T)
  BY DEF IsList
<1>3. s \in Seq(S \cup T) /\ t \in Seq(S \cup T)
  BY <1>1, <1>2
<1>4. s \o t \in Seq(S \cup T)
  BY <1>3
<1>. QED
  BY <1>4 DEF IsList

LEMMA TailIsList ==
  ASSUME NEW s, IsList(s), s # <<>>
  PROVE  IsList(Tail(s))
<1>1. PICK S : s \in Seq(S)
  BY DEF IsList
<1>2. Tail(s) \in Seq(S)
  BY <1>1
<1>. QED
  BY <1>2 DEF IsList

LEMMA HeadOfJoined ==
  ASSUME NEW S, NEW s \in Seq(S), NEW T, NEW t \in Seq(T), s # <<>>
  PROVE  s \o t # <<>> /\ Head(s \o t) = s[1]
<1>1. PICK U : U = S \cup T
  OBVIOUS
<1>2. s \in Seq(U) /\ t \in Seq(U)
  BY <1>1
<1>3. PICK r : r = s \o t
  OBVIOUS
<1>4. PICK m \in Nat, n \in Nat : m = Len(s) /\ n = Len(t) /\ m > 0
  OBVIOUS
<1>5. /\ r \in Seq(U) /\ Len(r) = m + n
      /\ \A i \in 1..(m + n) : r[i] = IF i <= m THEN s[i] ELSE t[i - m]
  BY <1>2, <1>3, <1>4, ConcatProperties
<1>6. r[1] = s[1] /\ Len(r) > 0
  BY <1>4, <1>5
<1>7. r # <<>> /\ Head(r) = s[1]
  BY <1>5, <1>6
<1>. QED
  BY <1>3, <1>7

LEMMA LedBy ==
  ASSUME NEW s, IsList(s)
  PROVE  /\ \A a : <<a>> \o s # <<>> /\ Head(<<a>> \o s) = a
         /\ \A a, b : <<a, b>> \o s # <<>> /\ Head(<<a, b>> \o s) = a
         /\ \A a, b, c : <<a, b, c>> \o s # <<>> /\ Head(<<a, b, c>> \o s) = a
<1>1. PICK S : s \in Seq(S)
  BY DEF IsList
<1>2. ASSUME NEW a, NEW T, NEW t \in Seq(T), t # <<>>, t[1] = a
      PROVE  t \o s # <<>> /\ Head(t \o s) = a
  BY <1>1, <1>2, HeadOfJoined
<1>3. ASSUME NEW a
      PROVE  <<a>> \o s # <<>> /\ Head(<<a>> \o s) = a
  <2>1. <<a>> \in Seq({a}) /\ <<a>> # <<>> /\ <<a>>[1] = a
    OBVIOUS
  <2>. QED
    BY <1>2, <2>1, Zenon
<1>4. ASSUME NEW a, NEW b
      PROVE  <<a, b>> \o s # <<>> /\ Head(<<a, b>> \o s) = a
  <2>1. <<a, b>> \in Seq({a, b}) /\ <<a, b>> # <<>> /\ <<a, b>>[1] = a
    OBVIOUS
  <2>. QED
    BY <1>2, <2>1, Zenon
<1>5. ASSUME NEW a, NEW b, NEW c
      PROVE  <<a, b, c>> \o s # <<>> /\ Head(<<a, b, c>> \o s) = a
  <2>1. <<a, b, c>> \in Seq({a, b, c}) /\ <<a, b, c>> # <<>> /\ <<a, b, c>>[1] = a
    OBVIOUS
  <2>. QED
    BY <1>2, <2>1, Zenon
<1>. QED
  BY <1>3, <1>4, <1>5, Zenon

\* The warning of a phase that is to come is the first in a queue.
Heralds(queue, to) ==
  queue # <<>> /\ Head(queue).type = "PhasePreChange" /\ Head(queue).to = to

LEMMA HeraldsStays ==
  ASSUME NEW queue, IsList(queue), NEW e, e.type # "PhasePreChange", NEW to,
         Heralds(Append(queue, e), to)
  PROVE  Heralds(queue, to)
<1>1. PICK S : queue \in Seq(S)
  BY DEF IsList
<1>. DEFINE T == S \cup {e}
<1>2. queue \in Seq(T) /\ e \in T
  BY <1>1
<1>. HIDE DEF T
<1>3. CASE queue = <<>>
  <2>1. Append(queue, e) = <<e>> /\ Head(<<e>>) = e
    BY <1>3
  <2>. QED
    BY <2>1, Zenon DEF Heralds
<1>4. CASE queue # <<>>
  <2>1. PICK r : r = Append(queue, e)
    OBVIOUS
  <2>2. r \in Seq(T) /\ Len(r) > 0 /\ r[1] = queue[1]
    BY <1>2, <1>4, <2>1
  <2>3. Head(r) = Head(queue)
    BY <1>2, <1>4, <2>2
  <2>. QED
    BY <1>4, <2>1, <2>3 DEF Heralds
<1>. QED
  BY <1>3, <1>4

LEMMA RestsAreLists == \A rest \in Rests : IsList(rest)
  BY ListsAre DEF Rests

\* The situations, by the call that goes on in them.
ToForward == Leaving \/ SkipsBlockers \/ SkipsDamage \/ HurriesOn

ToMove == Warned \/ SkipsBlockersWarned \/ SkipsDamageWarned \/ HurriesWarned

ToLand == Landed \/ HurriesIn \/ SkipsToEnd \/ Arriving

ToRest ==
  \/ Resting \/ Entering \/ Stepping \/ HurriedToDamage \/ HurriedAndHeard
  \/ HurriedToEnd \/ EndWarned \/ EndReached

LEMMA ForwardWhere ==
  ASSUME ToForward
  PROVE  IsList(calls) /\ calls # <<>> /\ Head(calls).op = "forward"
<1>1. CASE Leaving
  <2>1. PICK from \in PhaseIds : calls = <<Forward, Land(FALSE, from)>>
    BY <1>1 DEF Leaving
  <2>2. IsList(calls)
    BY <2>1, ListsAre
  <2>. QED
    BY <2>1, <2>2 DEF Forward, Call
<1>2. CASE SkipsBlockers
  <2>1. calls = <<Forward, Forward, ToEnd>>
    BY <1>2 DEF SkipsBlockers
  <2>2. IsList(calls)
    BY <2>1, ListsAre
  <2>. QED
    BY <2>1, <2>2 DEF Forward, Call
<1>3. CASE SkipsDamage
  <2>1. calls = <<Forward, ToEnd>>
    BY <1>3 DEF SkipsDamage
  <2>2. IsList(calls)
    BY <2>1, ListsAre
  <2>. QED
    BY <2>1, <2>2 DEF Forward, Call
<1>4. CASE HurriesOn
  <2>1. PICK rest \in Rests : calls = <<Call("forward", TRUE), Land(TRUE, currentGamePhase)>> \o rest
    BY <1>4 DEF HurriesOn
  <2>2. Call("forward", TRUE).op = "forward"
    BY DEF Call
  <2>3. IsList(calls)
    BY <2>1, ListsAre, RestsAreLists, ListsJoin
  <2>. QED
    BY <2>1, <2>2, <2>3, RestsAreLists, LedBy
<1>. QED
  BY <1>1, <1>2, <1>3, <1>4 DEF ToForward

\* What a move leaves to be done.
MovesOn(op) == op \in {"forward", "landed", "arrive"}

LEMMA MoveWhere ==
  ASSUME ToMove
  PROVE  /\ IsList(calls) /\ calls # <<>> /\ Head(calls).op = "move"
         /\ Tail(calls) # <<>> /\ MovesOn(Head(Tail(calls)).op)
         /\ IF HurriesWarned THEN Head(calls).nested = TRUE ELSE Heading(Head(calls))
<1>1. CASE Warned
  <2>1. PICK from \in PhaseIds, m \in {calls[1]} : calls = <<m, Land(FALSE, from)>> /\ Heading(m)
    BY <1>1 DEF Warned
  <2>2. IsList(calls)
    BY <2>1, ListsAre
  <2>3. calls # <<>> /\ Head(calls) = m /\ Tail(calls) = <<Land(FALSE, from)>>
    BY <2>1, PairIs, Zenon
  <2>4. m.op = "move" /\ m.nested = FALSE
    BY <2>1 DEF Heading, IsMove
  <2>5. ~HurriesWarned
    <3>1. HurriesWarned => calls[1].nested = TRUE
      BY DEF HurriesWarned, IsMove
    <3>. QED
      BY <2>4, <3>1
  <2>. QED
    BY <2>1, <2>2, <2>3, <2>4, <2>5 DEF MovesOn, Land
<1>2. CASE SkipsBlockersWarned
  <2>1. PICK m \in {calls[1]} : calls = <<m, Forward, ToEnd>> /\ Heading(m)
    BY <1>2 DEF SkipsBlockersWarned
  <2>2. IsList(calls)
    BY <2>1, ListsAre
  <2>3. calls # <<>> /\ Head(calls) = m /\ Tail(calls) = <<Forward, ToEnd>>
    BY <2>1
  <2>4. m.op = "move" /\ m.nested = FALSE
    BY <2>1 DEF Heading, IsMove
  <2>5. ~HurriesWarned
    <3>1. HurriesWarned => calls[1].nested = TRUE
      BY DEF HurriesWarned, IsMove
    <3>. QED
      BY <2>4, <3>1
  <2>. QED
    BY <2>1, <2>2, <2>3, <2>4, <2>5 DEF MovesOn, Forward, Call
<1>3. CASE SkipsDamageWarned
  <2>1. PICK m \in {calls[1]} : calls = <<m, ToEnd>> /\ Heading(m)
    BY <1>3 DEF SkipsDamageWarned
  <2>2. IsList(calls)
    BY <2>1, ListsAre
  <2>3. calls # <<>> /\ Head(calls) = m /\ Tail(calls) = <<ToEnd>>
    BY <2>1
  <2>4. m.op = "move" /\ m.nested = FALSE
    BY <2>1 DEF Heading, IsMove
  <2>5. ~HurriesWarned
    <3>1. HurriesWarned => calls[1].nested = TRUE
      BY DEF HurriesWarned, IsMove
    <3>. QED
      BY <2>4, <3>1
  <2>. QED
    BY <2>1, <2>2, <2>3, <2>4, <2>5 DEF MovesOn, ToEnd, Arrive
<1>4. CASE HurriesWarned
  <2>1. PICK rest \in Rests : calls = <<calls[1], Land(TRUE, currentGamePhase)>> \o rest
                              /\ IsMove(calls[1], TRUE)
    BY <1>4 DEF HurriesWarned
  <2>2. PICK m, l : m = calls[1] /\ l = Land(TRUE, currentGamePhase)
    OBVIOUS
  <2>3. calls # <<>> /\ Head(calls) = m /\ Tail(calls) = <<l>> \o rest
    <3>1. calls = <<m, l>> \o rest
      BY <2>1, <2>2, Zenon
    <3>2. PICK s : s = calls
      OBVIOUS
    <3>3. s = <<m, l>> \o rest /\ rest \in Rests
      BY <3>1, <3>2
    <3>4. s # <<>> /\ Head(s) = m /\ Tail(s) = <<l>> \o rest
      BY ONLY <3>3, LedByTwo
    <3>. QED
      BY <3>2, <3>4
  <2>4. IsList(calls)
    BY <2>1, ListsAre, RestsAreLists, ListsJoin
  <2>5. Tail(calls) # <<>> /\ Head(Tail(calls)) = l
    BY <2>3, RestsAreLists, LedBy
  <2>. QED
    BY <1>4, <2>1, <2>2, <2>3, <2>4, <2>5 DEF MovesOn, IsMove, Land
<1>. QED
  BY <1>1, <1>2, <1>3, <1>4 DEF ToMove

LEMMA LandedWhere ==
  ASSUME ToLand
  PROVE  IsList(calls) /\ calls # <<>> /\ Head(calls).op \in {"landed", "arrive"}
<1>1. CASE Landed
  <2>1. PICK from \in PhaseIds : calls = <<Land(FALSE, from)>>
    BY <1>1 DEF Landed
  <2>2. IsList(calls)
    BY <2>1, ListsAre
  <2>. QED
    BY <2>1, <2>2 DEF Land
<1>2. CASE HurriesIn
  <2>1. PICK rest \in Rests, call \in {Land(TRUE, currentGamePhase), Arrive(TRUE, FALSE)} :
          calls = <<call>> \o rest
    BY <1>2 DEF HurriesIn
  <2>2. call.op \in {"landed", "arrive"}
    BY DEF Land, Arrive
  <2>3. IsList(calls)
    BY <2>1, ListsAre, RestsAreLists, ListsJoin
  <2>. QED
    BY <2>1, <2>2, <2>3, RestsAreLists, LedBy
<1>3. CASE SkipsToEnd \/ Arriving
  <2>1. PICK skip \in BOOLEAN : calls = <<Arrive(FALSE, skip)>>
    BY <1>3 DEF SkipsToEnd, Arriving, ToEnd
  <2>2. IsList(calls)
    BY <2>1, ListsAre
  <2>. QED
    BY <2>1, <2>2 DEF Arrive
<1>. QED
  BY <1>1, <1>2, <1>3 DEF ToLand

\* No phase is on its way in.
Arrived == calls # <<>> => Head(calls).op \in {"entered", "update", "nextGamePhase"}

LEMMA ArrivedWhere ==
  ASSUME ToRest
  PROVE  IsList(calls) /\ Arrived
<1>1. CASE HurriedToEnd
  <2>1. PICK rest \in Rests : calls = <<Call("entered", TRUE)>> \o rest
    BY <1>1 DEF HurriedToEnd
  <2>2. Call("entered", TRUE).op = "entered"
    BY DEF Call
  <2>3. IsList(calls)
    BY <2>1, ListsAre, RestsAreLists, ListsJoin
  <2>. QED
    BY <2>1, <2>2, <2>3, RestsAreLists, LedBy DEF Arrived
<1>2. CASE Resting
  <2>1. calls \in CallsOfSettled
    BY <1>2 DEF Resting
  <2>2. IsList(calls)
    BY <2>1, ListsAre DEF CallsOfSettled, NextGamePhaseCalls
  <2>. QED
    BY <2>1, <2>2 DEF CallsOfSettled, NextGamePhaseCalls, Call, Arrived
<1>3. CASE Entering \/ Stepping \/ HurriedToDamage \/ HurriedAndHeard \/ EndWarned \/ EndReached
  <2>1. calls \in {<<>>, <<Enter>>, <<Call("entered", TRUE)>>}
    BY <1>3 DEF Entering, Stepping, HurriedToDamage, HurriedAndHeard, EndWarned, EndReached, Rests
  <2>2. IsList(calls)
    BY <2>1, ListsAre
  <2>. QED
    BY <2>1, <2>2 DEF Enter, Call, Arrived
<1>. QED
  BY <1>1, <1>2, <1>3 DEF ToRest

LEMMA SituationIs ==
  ASSUME IInv
  PROVE  /\ IsList(calls)
         /\ calls # <<>> /\ Head(calls).op = "forward" => ToForward
         /\ calls # <<>> /\ Head(calls).op = "move" => ToMove
         /\ calls # <<>> /\ Head(calls).op \in {"landed", "arrive"} => ToLand
         /\ Arrived => ToRest
<1>1. ToForward \/ ToMove \/ ToLand \/ ToRest
  BY Zenon DEF IInv, Requested, Hurried, ToForward, ToMove, ToLand, ToRest
<1>. QED
  BY <1>1, ForwardWhere, MoveWhere, LandedWhere, ArrivedWhere DEF Arrived

\* The ring is moved with nothing else to be heard.
LEMMA ForwardIsAlone ==
  ASSUME IInv, forward
  PROVE  eventsQueue = <<>> /\ IsList(calls)
<1>1. calls # <<>> /\ Head(calls).op = "forward" /\ (Head(calls).nested \/ eventsQueue = <<>>)
  BY DEF forward, Runs
<1>2. ToForward /\ IsList(calls)
  BY <1>1, SituationIs
<1>3. CASE SkipsDamage
  <2>1. Head(calls) = Forward
    BY <1>3 DEF SkipsDamage
  <2>. QED
    BY <1>1, <1>2, <2>1 DEF Forward, Call
<1>4. CASE ~SkipsDamage
  BY <1>2, <1>4 DEF ToForward, Leaving, SkipsBlockers, HurriesOn
<1>. QED
  BY <1>3, <1>4

LEMMA QueueIs ==
  ASSUME IInv
  PROVE  IsList(eventsQueue)
<1>1. \A e : eventsQueue = <<e>> => IsList(eventsQueue)
  BY ListsAre, Zenon
<1>2. \A e, f : eventsQueue = <<e, f>> => IsList(eventsQueue)
  BY ListsAre, Zenon
<1>3. \A e, f, g : eventsQueue = <<e, f, g>> => IsList(eventsQueue)
  BY ListsAre, Zenon
<1>4. eventsQueue = <<>> => IsList(eventsQueue)
  BY ListsAre, Zenon
<1>5. ASSUME Warned \/ SkipsBlockersWarned \/ SkipsDamageWarned
      PROVE  IsList(eventsQueue)
  <2>1. \E m : Heading(m)
    BY <1>5, Zenon DEF Warned, SkipsBlockersWarned, SkipsDamageWarned
  <2>2. eventsQueue = <<>> \/ eventsQueue = <<eventsQueue[1]>>
    BY <2>1, Zenon DEF Heading
  <2>. QED
    BY <1>1, <1>4, <2>2, Zenon
<1>6. ASSUME \/ Resting \/ Leaving \/ Landed \/ Arriving \/ Entering \/ SkipsBlockers
             \/ SkipsDamage \/ SkipsToEnd
      PROVE  IsList(eventsQueue)
  <2>1. eventsQueue = <<>> \/ eventsQueue = <<eventsQueue[1]>>
    BY <1>6, Zenon DEF Resting, Leaving, Landed, Changes, Arriving, Entering, SkipsBlockers,
                       SkipsDamage, SkipsToEnd, SkipsChanges
  <2>. QED
    BY <1>1, <1>4, <2>1, Zenon
<1>7. ASSUME Stepping \/ HurriesOn \/ HurriesWarned \/ EndReached
      PROVE  IsList(eventsQueue)
  <2>1. eventsQueue = <<>> \/ eventsQueue = <<eventsQueue[1]>> \/ eventsQueue = <<StepChange>>
    BY <1>7, Zenon DEF Stepping, HurriesOn, HurriesWarned, EndReached
  <2>. QED
    BY <1>1, <1>4, <2>1, Zenon
<1>8. ASSUME HurriesIn \/ HurriedAndHeard \/ HurriedToEnd \/ EndWarned
      PROVE  IsList(eventsQueue)
  <2>1. \/ eventsQueue = <<eventsQueue[1], eventsQueue[2]>>
        \/ eventsQueue = <<eventsQueue[1], StepChange>>
    BY <1>8, Zenon DEF HurriesIn, LateQueue, HurriedAndHeard, HurriedToEnd, EndWarned
  <2>. QED
    BY <1>2, <2>1, Zenon
<1>9. ASSUME HurriedToDamage
      PROVE  IsList(eventsQueue)
  BY <1>3, <1>9, Zenon DEF HurriedToDamage
<1>. QED
  BY <1>5, <1>6, <1>7, <1>8, <1>9, Zenon DEF IInv, Requested, Hurried

\* Where a warning is heard.
LEMMA HeraldWhere ==
  ASSUME IInv, Delivers("PhasePreChange")
  PROVE  Warned \/ SkipsBlockersWarned \/ SkipsDamageWarned \/ HurriedToDamage \/ EndWarned
<1>1. /\ eventsQueue # <<>> /\ Head(eventsQueue).type = "PhasePreChange"
      /\ calls # <<>> => ~Head(calls).nested
  BY DEF Delivers
<1>2. ~Resting /\ ~Leaving /\ ~Arriving /\ ~Entering /\ ~SkipsBlockers /\ ~HurriesOn
  BY <1>1, Zenon DEF Resting, Leaving, Arriving, Entering, SkipsBlockers, HurriesOn
<1>3. ~Landed /\ ~SkipsDamage /\ ~SkipsToEnd
  <2>1. PICK f : f = eventsQueue[1]
    OBVIOUS
  <2>2. Changes \/ SkipsChanges => eventsQueue = <<f>> /\ f.type = "PhaseChange"
    BY <1>1, <2>1, Zenon DEF Changes, SkipsChanges, IsChange
  <2>3. ~Changes /\ ~SkipsChanges
    BY <1>1, <2>2
  <2>. QED
    BY <2>3 DEF Landed, SkipsDamage, SkipsToEnd
<1>4. ~Stepping
  <2>1. PICK s : s = StepChange
    OBVIOUS
  <2>2. s.type = "CombatStepChange"
    BY <2>1 DEF StepChange
  <2>3. eventsQueue # <<s>>
    BY <1>1, <2>2
  <2>. QED
    BY <2>1, <2>3, Zenon DEF Stepping
<1>5. ~HurriedAndHeard
  <2>1. ASSUME HurriedAndHeard
        PROVE  FALSE
    <3>1. Head(eventsQueue) = eventsQueue[1]
      BY <2>1 DEF HurriedAndHeard
    <3>. QED
      BY <1>1, <2>1, <3>1 DEF HurriedAndHeard, IsChange
  <2>. QED
    BY <2>1
<1>6. ~EndReached
  BY <1>1 DEF EndReached, IsChange
<1>7. ~HurriesWarned
  <2>1. HurriesWarned => calls # <<>> /\ Head(calls).nested = TRUE
    BY MoveWhere DEF ToMove
  <2>. QED
    BY <1>1, <2>1
<1>8. ~HurriesIn
  <2>1. ASSUME HurriesIn
        PROVE  FALSE
    <3>1. PICK rest \in Rests, call \in {Land(TRUE, currentGamePhase), Arrive(TRUE, FALSE)} :
            calls = <<call>> \o rest
      BY <2>1 DEF HurriesIn
    <3>2. calls # <<>> /\ Head(calls) = call
      BY <3>1, RestsAreLists, LedBy
    <3>3. call.nested = TRUE
      BY DEF Land, Arrive
    <3>. QED
      BY <1>1, <3>2, <3>3
  <2>. QED
    BY <2>1
<1>9. ~HurriedToEnd
  <2>1. ASSUME HurriedToEnd
        PROVE  FALSE
    <3>1. PICK rest \in Rests : calls = <<Call("entered", TRUE)>> \o rest
      BY <2>1 DEF HurriedToEnd
    <3>2. calls # <<>> /\ Head(calls) = Call("entered", TRUE)
      BY <3>1, RestsAreLists, LedBy
    <3>. QED
      BY <1>1, <3>2 DEF Call
  <2>. QED
    BY <2>1
<1>. QED
  BY <1>2, <1>3, <1>4, <1>5, <1>6, <1>7, <1>8, <1>9, Zenon DEF IInv, Requested, Hurried

\* It is the only warning, and of the phase to come; one that is late is heard
\* when the damage or the end of combat has already been reached.
LEMMA WarningIs ==
  ASSUME IInv, Delivers("PhasePreChange"), NEW e, e = Head(eventsQueue)
  PROVE  /\ IsPreChange(e)
         /\ e.to = "COMBATEND" => \E i \in 1..current : turn[i].id = "COMBATEND"
         /\ Arrived => e.to = "COMBATDAMAGE" \/ (e.to = "COMBATEND" /\ currentGamePhase = "COMBATEND")
         /\ \A to : ~Heralds(Tail(eventsQueue), to)
         /\ \A n : \A to : Heralds([eventsQueue EXCEPT ![1].heard = n], to) => to = e.to
<1>0. eventsQueue # <<>>
  BY DEF Delivers
<1>1. CASE Warned \/ SkipsBlockersWarned \/ SkipsDamageWarned
  <2>1. \E m : Heading(m)
    BY <1>1, Zenon DEF Warned, SkipsBlockersWarned, SkipsDamageWarned
  <2>2. eventsQueue = <<eventsQueue[1]>> /\ \E m : Warns(eventsQueue[1], m)
    BY <1>0, <2>1, Zenon DEF Heading
  <2>3. PICK f : f = eventsQueue[1]
    OBVIOUS
  <2>4. eventsQueue = <<f>> /\ e = f
    BY <2>2, <2>3
  <2>5. ~Arrived
    BY <1>1, MoveWhere DEF ToMove, Arrived
  <2>6. ASSUME NEW n, NEW to, Heralds([eventsQueue EXCEPT ![1].heard = n], to)
        PROVE  to = e.to
    <3>1. Head([eventsQueue EXCEPT ![1].heard = n]).to = f.to
      <4>1. PICK g : g = [f EXCEPT !.heard = n]
        OBVIOUS
      <4>2. [eventsQueue EXCEPT ![1].heard = n] = <<g>>
        BY <2>4, <4>1
      <4>3. g.to = f.to
        BY <2>2, <2>3, <4>1 DEF Warns, IsPreChange
      <4>. QED
        BY <4>2, <4>3
    <3>. QED
      BY <2>4, <2>6, <3>1 DEF Heralds
  <2>. QED
    BY <2>2, <2>3, <2>4, <2>5, <2>6 DEF Warns, Heralds
<1>2. CASE HurriedToDamage
  <2>1. PICK f, g : f = eventsQueue[1] /\ g = eventsQueue[2]
    OBVIOUS
  <2>2. PICK s : s = StepChange
    OBVIOUS
  <2>3. eventsQueue = <<f, g, s>> /\ IsPreChange(f) /\ f.to = "COMBATDAMAGE" /\ IsChange(g)
    BY <1>2, <2>1, <2>2 DEF HurriedToDamage
  <2>4. e = f /\ Tail(eventsQueue) = <<g, s>>
    BY <2>3
  <2>5. \A to : ~Heralds(Tail(eventsQueue), to)
    BY <2>3, <2>4 DEF Heralds, IsChange
  <2>6. ASSUME NEW n, NEW to, Heralds([eventsQueue EXCEPT ![1].heard = n], to)
        PROVE  to = e.to
    <3>1. PICK h : h = [f EXCEPT !.heard = n]
      OBVIOUS
    <3>2. [eventsQueue EXCEPT ![1].heard = n] = <<h, g, s>>
      BY <2>3, <3>1
    <3>3. h.to = f.to
      BY <2>3, <3>1 DEF IsPreChange
    <3>. QED
      BY <2>4, <2>6, <3>2, <3>3 DEF Heralds
  <2>. QED
    BY <2>3, <2>4, <2>5, <2>6
<1>3. CASE EndWarned
  <2>1. PICK f, g : f = eventsQueue[1] /\ g = eventsQueue[2]
    OBVIOUS
  <2>2. eventsQueue = <<f, g>> /\ IsPreChange(f) /\ f.to = "COMBATEND" /\ IsChange(g) /\ AtEnd
    BY <1>3, <2>1 DEF EndWarned
  <2>3. e = f /\ Tail(eventsQueue) = <<g>>
    BY <2>2
  <2>4. \A to : ~Heralds(Tail(eventsQueue), to)
    BY <2>2, <2>3 DEF Heralds, IsChange
  <2>5. ASSUME NEW n, NEW to, Heralds([eventsQueue EXCEPT ![1].heard = n], to)
        PROVE  to = e.to
    <3>1. PICK h : h = [f EXCEPT !.heard = n]
      OBVIOUS
    <3>2. [eventsQueue EXCEPT ![1].heard = n] = <<h, g>>
      BY <2>2, <3>1
    <3>3. h.to = f.to
      BY <2>2, <3>1 DEF IsPreChange
    <3>. QED
      BY <2>3, <2>5, <3>2, <3>3 DEF Heralds
  <2>. QED
    BY <2>2, <2>3, <2>4, <2>5 DEF AtEnd
<1>. QED
  BY <1>1, <1>2, <1>3, HeraldWhere

-----------------------------------------------------------------------------
(* The order of the turn, and the phase the game is in. *)

\* The end of combat is warned of when the ring has come to it.
OnCombatEnd == Heralds(eventsQueue, "COMBATEND") /\ NoExtras => currentPhase = "COMBATEND"

\* Only a second extra combat puts the ring elsewhere.
InRing ==
  Arrived => \/ currentPhase = currentGamePhase
             \/ currentGamePhase \in {"FIRSTMAIN", "SECONDMAIN", "COMBATEND"} /\ ~OneExtra

Ordered == InOrder /\ OnCombatEnd /\ InRing

NothingAgain == Len(turn') > Len(turn) /\ current' # 1 /\ OneExtra' => NothingTwice

LEMMA OrderSame ==
  ASSUME RingTyped, UNCHANGED turn
  PROVE  /\ InOrder' = InOrder /\ OneExtra' = OneExtra /\ NoExtras' = NoExtras
         /\ NothingAgain
<1>1. Len(turn) \in Nat
  BY ChainedIs DEF RingTyped
<1>. QED
  BY <1>1 DEF InOrder, NoExtras, Distinct, Backed, OneExtra, NothingAgain

\* The ring is left alone and no warning comes.
LEMMA OrderedSame ==
  ASSUME IInv, Ordered, UNCHANGED ring,
         Heralds(eventsQueue, "COMBATEND")' => Heralds(eventsQueue, "COMBATEND"),
         Arrived' => Arrived /\ UNCHANGED currentGamePhase
  PROVE  Ordered' /\ NothingAgain
<1>1. turn' = turn /\ current' = current
  BY DEF ring
<1>2. RingTyped
  BY DEF IInv, Typed
<1>3. /\ InOrder' = InOrder /\ OneExtra' = OneExtra /\ NoExtras' = NoExtras
      /\ NothingAgain
  BY <1>1, <1>2, OrderSame, Zenon
<1>4. currentPhase' = currentPhase
  BY <1>1 DEF currentPhase
<1>5. OnCombatEnd' /\ InRing'
  BY <1>3, <1>4 DEF Ordered, OnCombatEnd, InRing
<1>. QED
  BY <1>3, <1>5 DEF Ordered

LEMMA ForwardOrdered ==
  ASSUME IInv, Ordered, forward
  PROVE  Ordered' /\ NothingAgain
<1>1. eventsQueue = <<>> /\ IsList(calls)
  BY ForwardIsAlone
<1>2. PICK to : to = IF current < Len(turn) THEN current + 1 ELSE current
  OBVIOUS
<1>3. PICK e : e = [type |-> "PhasePreChange", from |-> currentPhase, to |-> turn[to].id, heard |-> 0]
  OBVIOUS
<1>4. PICK m : m = [op |-> "move", nested |-> Head(calls).nested, from |-> currentPhase,
                    turnSteps |-> Len(turn), notEnd |-> current < Len(turn)]
  OBVIOUS
<1>5. /\ current' = to /\ turn' = turn /\ calls' = <<m>> \o Tail(calls)
      /\ eventsQueue' = Append(eventsQueue, e)
  BY <1>2, <1>3, <1>4 DEF forward
<1>6. ~Arrived'
  <2>1. calls # <<>> /\ IsList(Tail(calls))
    BY <1>1, TailIsList DEF forward, Runs
  <2>2. calls' # <<>> /\ Head(calls') = m
    BY <1>5, <2>1, LedBy
  <2>. QED
    BY <1>4, <2>2 DEF Arrived
<1>7. OnCombatEnd'
  <2>1. Head(eventsQueue').to = turn[to].id
    BY <1>1, <1>3, <1>5
  <2>. QED
    BY <1>5, <2>1 DEF OnCombatEnd, Heralds, currentPhase
<1>8. RingTyped
  BY DEF IInv, Typed
<1>9. InOrder' = InOrder /\ NothingAgain
  BY <1>5, <1>8, OrderSame, Zenon
<1>. QED
  BY <1>6, <1>7, <1>9 DEF Ordered, InRing

\* The list of a new turn has every phase once, and no copies.
LEMMA GameTurnInOrder ==
  ASSUME turn' = GameTurn
  PROVE  InOrder'
<1>1. DOMAIN GamePhases = 1..14
  BY DEF GamePhases
<1>2. DOMAIN GameTurn = 1..14
  BY <1>1 DEF GameTurn
<1>3. \A i \in 1..14 : GameTurn[i].id = GamePhases[i] /\ GameTurn[i].extra = 0
  BY <1>1 DEF GameTurn, Phase
<1>4. \A i, j \in 1..14 : GamePhases[i] = GamePhases[j] => i = j
  <2>. SUFFICES ASSUME NEW i \in 1..14, NEW j \in 1..14, GamePhases[i] = GamePhases[j]
                PROVE  i = j
    OBVIOUS
  <2>. QED
    BY DEF GamePhases
<1>5. NoExtras' /\ Distinct'
  BY <1>2, <1>3, <1>4 DEF NoExtras, Distinct
<1>6. Backed'
  BY <1>2, <1>3 DEF Backed
<1>. QED
  BY <1>5, <1>6 DEF InOrder

LEMMA MoveOrdered ==
  ASSUME IInv, Ordered, move
  PROVE  Ordered' /\ NothingAgain
<1>1. PICK m : m = Head(calls)
  OBVIOUS
<1>2. calls # <<>> /\ m.op = "move" /\ (m.nested \/ eventsQueue = <<>>)
  BY <1>1 DEF move, Runs
<1>3. /\ ToMove /\ IsList(calls)
      /\ Tail(calls) # <<>> /\ MovesOn(Head(Tail(calls)).op)
      /\ IF HurriesWarned THEN m.nested = TRUE ELSE Heading(m)
  BY <1>1, <1>2, SituationIs, MoveWhere
<1>4. PICK here : here = Here(m)
  OBVIOUS
<1>5. RingTyped /\ Len(turn) \in Nat /\ current \in 1..Len(turn)
  BY ChainedIs DEF IInv, Typed, RingTyped
<1>6. CASE ListChanged(m)
  <2>1. /\ calls' = <<Call("forward", m.nested)>> \o Tail(calls)
        /\ turn' = turn /\ eventsQueue' = eventsQueue
    BY <1>1, <1>6 DEF move
  <2>2. ~Arrived'
    <3>1. calls' # <<>> /\ Head(calls') = Call("forward", m.nested)
      BY <1>2, <1>3, <2>1, TailIsList, LedBy
    <3>. QED
      BY <3>1 DEF Arrived, Call
  <2>3. ~HurriesWarned
    <3>1. HurriesWarned => calls[1].turnSteps = Len(turn) /\ calls[1] = m
      BY <1>1, <1>2, <1>3 DEF HurriesWarned
    <3>. QED
      BY <1>6, <3>1 DEF ListChanged
  <2>4. eventsQueue' = <<>>
    BY <1>2, <1>3, <2>1, <2>3 DEF Heading, IsMove
  <2>5. InOrder' = InOrder /\ NothingAgain
    BY <1>5, <2>1, OrderSame, Zenon
  <2>. QED
    BY <2>2, <2>4, <2>5 DEF Ordered, InRing, OnCombatEnd, Heralds
<1>7. CASE ~ListChanged(m)
  <2>1. PICK e : e = [type |-> "PhaseChange", from |-> m.from, to |-> turn'[current'].id]
    OBVIOUS
  <2>2. calls' = Tail(calls) /\ Moved(here) /\ eventsQueue' = Append(eventsQueue, e)
    BY <1>1, <1>4, <1>7, <2>1 DEF move, Here
  <2>3. ~Arrived'
    BY <1>3, <2>2 DEF Arrived, MovesOn
  <2>4. InOrder' /\ NothingAgain
    <3>1. CASE turn' = turn
      BY <1>5, <3>1, OrderSame, Zenon DEF Ordered
    <3>2. CASE turn' = GameTurn /\ current' = 1
      BY <3>2, GameTurnInOrder DEF NothingAgain
    <3>. QED
      BY <2>2, <3>1, <3>2 DEF Moved
  <2>5. \A to : Heralds(eventsQueue', to) => Heralds(eventsQueue, to)
    BY <2>1, <2>2, QueueIs, HeraldsStays
  <2>6. OnCombatEnd'
    <3>1. CASE HurriesWarned
      <4>1. m = calls[1] /\ m.notEnd /\ current > 1
        BY <1>1, <1>2, <1>3, <3>1 DEF HurriesWarned
      <4>2. here = current - 1
        BY <1>4, <4>1 DEF Here
      <4>3. turn' = turn /\ current' = current
        BY <1>5, <2>2, <4>1, <4>2 DEF Moved
      <4>4. NoExtras' = NoExtras /\ currentPhase' = currentPhase
        BY <1>5, <4>3, OrderSame DEF currentPhase
      <4>. QED
        BY <2>5, <4>4 DEF Ordered, OnCombatEnd
    <3>2. CASE ~HurriesWarned
      <4>1. eventsQueue = <<>>
        BY <1>2, <1>3, <3>2 DEF Heading, IsMove
      <4>2. ~Heralds(eventsQueue, "COMBATEND")
        BY <4>1 DEF Heralds
      <4>. QED
        BY <2>5, <4>2 DEF OnCombatEnd
    <3>. QED
      BY <3>1, <3>2
  <2>. QED
    BY <2>3, <2>4, <2>6 DEF Ordered, InRing
<1>. QED
  BY <1>6, <1>7

LEMMA LandedOrdered ==
  ASSUME IInv, Ordered, landed
  PROVE  Ordered' /\ NothingAgain
<1>1. PICK again, come, stay :
        /\ again = Call("forward", Head(calls).nested)
        /\ come = [op |-> "arrive", nested |-> Head(calls).nested, skip |-> TRUE]
        /\ stay = [come EXCEPT !.skip = FALSE]
  OBVIOUS
<1>2. again.op = "forward" /\ come.op = "arrive" /\ stay.op = "arrive"
  BY <1>1 DEF Call
<1>3. /\ calls' = <<again, again, come>> \o Tail(calls) \/ calls' = <<stay>> \o Tail(calls)
      /\ UNCHANGED ring /\ UNCHANGED eventsQueue
  BY <1>1 DEF landed
<1>4. IsList(Tail(calls))
  BY SituationIs, TailIsList DEF landed, Runs
<1>5. calls' # <<>> /\ Head(calls') \in {again, stay}
  BY <1>3, <1>4, LedBy
<1>6. ~Arrived'
  BY <1>2, <1>5 DEF Arrived
<1>. QED
  BY <1>3, <1>6, OrderedSame

\* The event of a step comes behind the others.
LEMMA StepHeralds ==
  ASSUME NEW queue, IsList(queue), nextCombatStep(queue), NEW to, Heralds(eventsQueue', to)
  PROVE  Heralds(queue, to)
<1>1. CASE eventsQueue' = queue
  BY <1>1
<1>2. CASE eventsQueue' # queue
  <2>1. PICK e : e = [type |-> "CombatStepChange", step |-> combatStep']
    OBVIOUS
  <2>2. eventsQueue' = Append(queue, e)
    BY <1>2, <2>1 DEF nextCombatStep
  <2>3. e.type # "PhasePreChange"
    BY <2>1
  <2>. QED
    BY <2>2, <2>3, HeraldsStays
<1>. QED
  BY <1>1, <1>2

LEMMA ArriveOrdered ==
  ASSUME IInv, Ordered, arrive
  PROVE  Ordered' /\ NothingAgain
<1>1. currentGamePhase' = currentPhase /\ turn' = turn /\ current' = current
  BY DEF arrive, ring
<1>2. Heralds(eventsQueue, "COMBATEND")' => Heralds(eventsQueue, "COMBATEND")
  <2>1. eventsQueue' = eventsQueue \/ nextCombatStep(eventsQueue)
    BY DEF arrive
  <2>. QED
    BY <2>1, QueueIs, StepHeralds
<1>3. RingTyped
  BY DEF IInv, Typed
<1>4. InOrder' = InOrder /\ NoExtras' = NoExtras /\ NothingAgain
  BY <1>1, <1>3, OrderSame, Zenon
<1>5. currentPhase' = currentPhase
  BY <1>1 DEF currentPhase
<1>. QED
  BY <1>1, <1>2, <1>4, <1>5 DEF Ordered, OnCombatEnd, InRing

LEMMA EnteredOrdered ==
  ASSUME IInv, Ordered, entered \/ UpdateLayer
  PROVE  Ordered' /\ NothingAgain
<1>1. UNCHANGED ring /\ UNCHANGED eventsQueue /\ UNCHANGED currentGamePhase
  BY DEF entered, UpdateLayer, flow
<1>2. Arrived
  BY DEF entered, UpdateLayer, Runs, Arrived
<1>. QED
  BY <1>1, <1>2, OrderedSame

LEMMA RecurseOrdered ==
  ASSUME IInv, Ordered, recurse
  PROVE  Ordered' /\ NothingAgain
<1>1. UNCHANGED ring /\ UNCHANGED currentGamePhase
  BY DEF recurse
<1>2. Arrived
  BY DEF recurse, Runs, Arrived
<1>3. Heralds(eventsQueue, "COMBATEND")' => Heralds(eventsQueue, "COMBATEND")
  <2>1. eventsQueue' = eventsQueue \/ nextCombatStep(eventsQueue)
    BY DEF recurse, nextGamePhase
  <2>. QED
    BY <2>1, QueueIs, StepHeralds
<1>. QED
  BY <1>1, <1>2, <1>3, OrderedSame

LEMMA PreChangeOrdered ==
  ASSUME IInv, Ordered, HearPreChange
  PROVE  Ordered' /\ NothingAgain
<1>1. Delivers("PhasePreChange") /\ calls' = calls /\ currentGamePhase' = currentGamePhase
  BY DEF HearPreChange
<1>2. PICK e : e = Head(eventsQueue)
  OBVIOUS
<1>3. /\ IsPreChange(e)
      /\ e.to = "COMBATEND" => \E i \in 1..current : turn[i].id = "COMBATEND"
      /\ Arrived => e.to = "COMBATDAMAGE" \/ (e.to = "COMBATEND" /\ currentGamePhase = "COMBATEND")
      /\ \A to : ~Heralds(Tail(eventsQueue), to)
      /\ \A n : \A to : Heralds([eventsQueue EXCEPT ![1].heard = n], to) => to = e.to
  BY <1>1, <1>2, WarningIs
<1>4. /\ eventsQueue # <<>> /\ e.type = "PhasePreChange"
      /\ Heralds(eventsQueue, e.to)
  BY <1>1, <1>2 DEF Delivers, Heralds
<1>5. RingTyped /\ alters \in Seq(Sparing) /\ InOrder
  BY DEF IInv, Typed, Ordered
<1>6. PICK n \in Nat : n = e.heard + 1 /\ n > 0
  BY <1>3 DEF IsPreChange
<1>7. Arrived' = Arrived
  BY <1>1 DEF Arrived
<1>8. Heralds(eventsQueue, "COMBATEND")' => Heralds(eventsQueue, "COMBATEND") /\ e.to = "COMBATEND"
  <2>1. \/ eventsQueue' = Tail(eventsQueue)
        \/ \E k : eventsQueue' = [eventsQueue EXCEPT ![1].heard = k]
    BY DEF HearPreChange
  <2>2. CASE eventsQueue' = Tail(eventsQueue)
    BY <1>3, <2>2, Zenon
  <2>3. ASSUME NEW k, eventsQueue' = [eventsQueue EXCEPT ![1].heard = k],
               Heralds(eventsQueue', "COMBATEND")
        PROVE  e.to = "COMBATEND"
    <3>1. PICK q : q = [eventsQueue EXCEPT ![1].heard = k]
      OBVIOUS
    <3>2. Heralds(q, "COMBATEND") => "COMBATEND" = e.to
      BY <1>3, <3>1, Zenon
    <3>. QED
      BY <2>3, <3>1, <3>2
  <2>. QED
    BY <1>4, <2>1, <2>2, <2>3
<1>9. CASE UNCHANGED ring
  BY <1>1, <1>7, <1>8, <1>9, OrderedSame
<1>10. CASE ~(UNCHANGED ring)
  <2>1. n \in 1..Len(alters) /\ PhaseAltered(n, e.to)
    <3>1. ~(n > Len(alters)) /\ PhaseAltered(n, e.to)
      BY <1>2, <1>6, <1>10 DEF HearPreChange, ring
    <3>2. Len(alters) \in Nat
      BY <1>5
    <3>. QED
      BY <1>6, <3>1, <3>2
  <2>2. \/ e.to = "COMBATEND" /\ Lengthened(e.to)
        \/ e.to \notin Kept /\ InOrder' /\ (OneExtra' => OneExtra) /\ Len(turn') <= Len(turn)
    <3>1. PICK to : to = e.to
      OBVIOUS
    <3>2. PhaseAltered(n, to) /\ (to = "COMBATEND" => \E i \in 1..current : turn[i].id = "COMBATEND")
      BY <1>3, <2>1, <3>1
    <3>3. \/ UNCHANGED ring
          \/ to = "COMBATEND" /\ Lengthened(to)
          \/ to \notin Kept /\ InOrder' /\ (OneExtra' => OneExtra) /\ Len(turn') <= Len(turn)
      BY <1>5, <2>1, <3>2, RingAltered, Zenon
    <3>. QED
      BY <1>10, <3>1, <3>3
  <2>3. CASE e.to = "COMBATEND" /\ Lengthened(e.to)
    <3>1. /\ Backed' /\ ~NoExtras' /\ (OneExtra' => NoExtras)
          /\ NoExtras /\ currentPhase = "COMBATEND" => currentPhase' = "COMBATEND" /\ NothingTwice
      BY <2>3 DEF Lengthened
    <3>2. NoExtras => currentPhase = "COMBATEND"
      BY <1>4, <2>3 DEF Ordered, OnCombatEnd
    <3>3. OneExtra' => currentPhase' = "COMBATEND" /\ NothingTwice
      BY <3>1, <3>2
    <3>4. InOrder' /\ OnCombatEnd' /\ NothingAgain
      BY <3>1, <3>3 DEF InOrder, OnCombatEnd, NothingAgain
    <3>5. InRing'
      BY <1>1, <1>3, <1>7, <2>3, <3>3 DEF InRing
    <3>. QED
      BY <3>4, <3>5 DEF Ordered
  <2>4. CASE e.to \notin Kept /\ InOrder' /\ (OneExtra' => OneExtra) /\ Len(turn') <= Len(turn)
    <3>1. ~Arrived'
      BY <1>3, <1>7, <2>4 DEF Kept
    <3>2. OnCombatEnd'
      BY <1>8, <2>4 DEF OnCombatEnd, Kept
    <3>3. NothingAgain
      <4>1. Len(turn) \in Nat /\ Len(turn') \in Nat
        <5>1. RingTyped'
          BY <1>3, <1>5, <2>1, AlteringIs
        <5>. QED
          BY <1>5, <5>1, ChainedIs DEF RingTyped
      <4>. QED
        BY <2>4, <4>1 DEF NothingAgain
    <3>. QED
      BY <2>4, <3>1, <3>2, <3>3 DEF Ordered, InRing
  <2>. QED
    BY <2>2, <2>3, <2>4
<1>. QED
  BY <1>9, <1>10

\* Behind a change no warning waits.
LEMMA ChangeIsLast ==
  ASSUME IInv, Delivers("PhaseChange")
  PROVE  \A to : ~Heralds(Tail(eventsQueue), to)
<1>1. eventsQueue # <<>> /\ Head(eventsQueue).type = "PhaseChange"
  BY DEF Delivers
<1>2. PICK f, g, s : f = eventsQueue[1] /\ g = eventsQueue[2] /\ s = StepChange
  OBVIOUS
<1>3. s.type = "CombatStepChange"
  BY <1>2 DEF StepChange
<1>4. \/ eventsQueue = <<f>> \/ eventsQueue = <<s>> \/ eventsQueue = <<f, s>>
      \/ f.type = "PhasePreChange" /\ (eventsQueue = <<f, g>> \/ eventsQueue = <<f, g, s>>)
  <2>1. ASSUME Warned \/ SkipsBlockersWarned \/ SkipsDamageWarned
        PROVE  eventsQueue = <<f>>
    <3>1. \E m : Heading(m)
      BY <2>1, Zenon DEF Warned, SkipsBlockersWarned, SkipsDamageWarned
    <3>. QED
      BY <1>1, <1>2, <3>1, Zenon DEF Heading
  <2>2. ~Resting /\ ~Leaving /\ ~Arriving /\ ~Entering /\ ~SkipsBlockers /\ ~HurriesOn
    BY <1>1, Zenon DEF Resting, Leaving, Arriving, Entering, SkipsBlockers, HurriesOn
  <2>3. Landed \/ SkipsDamage \/ SkipsToEnd \/ HurriesWarned \/ EndReached => eventsQueue = <<f>>
    BY <1>1, <1>2, Zenon DEF Landed, Changes, SkipsDamage, SkipsToEnd, SkipsChanges, HurriesWarned,
                             EndReached
  <2>4. LateQueue \/ EndWarned => f.type = "PhasePreChange" /\ eventsQueue = <<f, g>>
    BY <1>2, Zenon DEF LateQueue, Late, EndWarned, IsPreChange
  <2>5. HurriesIn \/ HurriedToEnd => LateQueue
    BY Zenon DEF HurriesIn, HurriedToEnd
  <2>6. /\ Stepping => eventsQueue = <<s>>
        /\ HurriedAndHeard => eventsQueue = <<f, s>>
        /\ HurriedToDamage => f.type = "PhasePreChange" /\ eventsQueue = <<f, g, s>>
    BY <1>2, Zenon DEF Stepping, HurriedAndHeard, HurriedToDamage, IsPreChange
  <2>. QED
    BY <2>1, <2>2, <2>3, <2>4, <2>5, <2>6, Zenon DEF IInv, Requested, Hurried
<1>. QED
  BY <1>1, <1>3, <1>4 DEF Heralds

LEMMA ChangeOrdered ==
  ASSUME IInv, Ordered, HearPhaseChange
  PROVE  Ordered' /\ NothingAgain
<1>1. /\ Delivers("PhaseChange") /\ eventsQueue' = Tail(eventsQueue)
      /\ UNCHANGED ring /\ calls' = calls /\ currentGamePhase' = currentGamePhase
  BY DEF HearPhaseChange, flow
<1>2. ~Heralds(eventsQueue, "COMBATEND")'
  BY <1>1, ChangeIsLast
<1>3. Arrived' = Arrived
  BY <1>1 DEF Arrived
<1>. QED
  BY <1>1, <1>2, <1>3, OrderedSame

\* An event of a combat step is heard alone.
LEMMA StepWhere ==
  ASSUME IInv, Delivers("CombatStepChange")
  PROVE  Stepping
<1>1. eventsQueue # <<>> /\ Head(eventsQueue).type = "CombatStepChange"
  BY DEF Delivers
<1>2. ~Resting /\ ~Leaving /\ ~Arriving /\ ~Entering /\ ~SkipsBlockers /\ ~HurriesOn
  BY <1>1, Zenon DEF Resting, Leaving, Arriving, Entering, SkipsBlockers, HurriesOn
<1>3. PICK f, g, s : f = eventsQueue[1] /\ g = eventsQueue[2] /\ s = StepChange
  OBVIOUS
<1>4. \A m : ~Heading(m)
  <2>1. \A m : Heading(m) => eventsQueue = <<f>> /\ f.type = "PhasePreChange"
    BY <1>1, <1>3, Zenon DEF Heading, Warns, IsPreChange
  <2>. QED
    BY <1>1, <2>1
<1>5. ~Warned /\ ~SkipsBlockersWarned /\ ~SkipsDamageWarned
  BY <1>4, Zenon DEF Warned, SkipsBlockersWarned, SkipsDamageWarned
<1>6. ~Changes /\ ~SkipsChanges /\ ~EndReached /\ ~HurriesWarned
  <2>1. /\ Changes \/ SkipsChanges \/ EndReached => eventsQueue = <<f>> /\ f.type = "PhaseChange"
        /\ HurriesWarned => eventsQueue = <<f>> /\ f.type = "PhasePreChange"
    BY <1>1, <1>3, Zenon DEF Changes, SkipsChanges, EndReached, IsChange, HurriesWarned, Late, IsPreChange
  <2>. QED
    BY <1>1, <2>1
<1>7. ~Landed /\ ~SkipsDamage /\ ~SkipsToEnd
  BY <1>6, Zenon DEF Landed, SkipsDamage, SkipsToEnd
<1>8. ~LateQueue /\ ~EndWarned /\ ~HurriedAndHeard /\ ~HurriedToDamage
  <2>1. /\ LateQueue \/ EndWarned => eventsQueue = <<f, g>> /\ f.type = "PhasePreChange"
        /\ HurriedAndHeard => eventsQueue = <<f, s>> /\ f.type = "PhaseChange"
        /\ HurriedToDamage => eventsQueue = <<f, g, s>> /\ f.type = "PhasePreChange"
    BY <1>3, Zenon DEF LateQueue, Late, EndWarned, HurriedAndHeard, HurriedToDamage, IsPreChange,
                       IsChange
  <2>. QED
    BY <1>1, <2>1
<1>9. ~HurriesIn /\ ~HurriedToEnd
  BY <1>8, Zenon DEF HurriesIn, HurriedToEnd
<1>. QED
  BY <1>2, <1>5, <1>6, <1>7, <1>8, <1>9, Zenon DEF IInv, Requested, Hurried

LEMMA StepOrdered ==
  ASSUME IInv, Ordered, HearCombatStep
  PROVE  Ordered' /\ NothingAgain
<1>1. /\ Delivers("CombatStepChange")
      /\ UNCHANGED ring /\ currentGamePhase' = currentGamePhase
  BY DEF HearCombatStep
<1>2. Stepping
  BY <1>1, StepWhere
<1>3. /\ Head(eventsQueue).step = combatStep /\ Tail(eventsQueue) = <<>>
      /\ StepComes
  BY <1>2 DEF Stepping, StepChange
<1>4. \/ eventsQueue' = <<>> /\ calls' = calls
      \/ nextCombatStep(<<>>) /\ calls' = calls
      \/ nextGamePhase(TRUE, calls, <<>>)
  <2>1. PICK h \in BOOLEAN : h = human
    <3>1. human \in BOOLEAN
      BY DEF human
    <3>. QED
      BY <3>1
  <2>2. PICK asks : asks = RequestAfter(combatStep, h)
    OBVIOUS
  <2>3. asks \in {"nothing", "nextCombatStep", "userRequestNextGamePhase"}
    BY <1>3, <2>1, <2>2, StepAsks DEF Requests
  <2>4. /\ CASE asks = "nothing" ->
                  eventsQueue' = Tail(eventsQueue) /\ UNCHANGED <<combatStep, calls>>
             [] asks = "nextCombatStep" ->
                  nextCombatStep(Tail(eventsQueue)) /\ UNCHANGED calls
             [] asks = "userRequestNextGamePhase" ->
                  nextGamePhase(TRUE, calls, Tail(eventsQueue))
    BY <1>3, <2>1, <2>2, Zenon DEF HearCombatStep
  <2>. QED
    BY <1>3, <2>3, <2>4
<1>5. IsList(<<>>) /\ IsList(calls) /\ \A to : ~Heralds(<<>>, to)
  BY SituationIs, ListsAre DEF Heralds
<1>6. CASE nextGamePhase(TRUE, calls, <<>>) /\ ~StaysInPhase
  <2>1. PICK l : l = [op |-> "landed", nested |-> TRUE, from |-> currentPhase]
    OBVIOUS
  <2>2. calls' = <<Call("forward", TRUE), l>> \o calls /\ eventsQueue' = <<>>
    BY <1>6, <2>1 DEF nextGamePhase
  <2>3. calls' # <<>> /\ Head(calls') = Call("forward", TRUE)
    BY <1>5, <2>2, LedBy
  <2>4. ~Arrived'
    BY <2>3 DEF Arrived, Call
  <2>. QED
    BY <1>1, <1>5, <2>2, <2>4, OrderedSame
<1>7. CASE ~(nextGamePhase(TRUE, calls, <<>>) /\ ~StaysInPhase)
  <2>1. calls' = calls /\ (eventsQueue' = <<>> \/ nextCombatStep(<<>>))
    BY <1>4, <1>7 DEF nextGamePhase
  <2>2. ~Heralds(eventsQueue, "COMBATEND")'
    BY <1>5, <2>1, StepHeralds
  <2>3. Arrived' = Arrived
    BY <2>1 DEF Arrived
  <2>. QED
    BY <1>1, <2>2, <2>3, OrderedSame
<1>. QED
  BY <1>6, <1>7

LEMMA AfterMainOrdered ==
  ASSUME IInv, Ordered, GrantCombatAfterMain
  PROVE  Ordered' /\ NothingAgain
<1>1. /\ Idle /\ currentGamePhase \in {"FIRSTMAIN", "SECONDMAIN"}
      /\ addCombatAfter(currentGamePhase, TRUE)
      /\ UNCHANGED <<currentGamePhase, eventsQueue, calls>>
  BY DEF GrantCombatAfterMain
<1>2. PICK id : id = currentGamePhase
  OBVIOUS
<1>3. RingTyped /\ InOrder
  BY DEF IInv, Typed, Ordered
<1>4. \E i \in 1..current : turn[i].id = id
  <2>1. InPlace
    BY <1>1, IdleIsResting DEF Settled
  <2>2. current \in 1..current
    BY <1>3, ChainedIs DEF RingTyped
  <2>. QED
    BY <1>2, <2>1, <2>2 DEF InPlace, currentPhase
<1>5. Lengthened(id)
  <2>1. Extends(id, TRUE) /\ addCombatAfter(id, TRUE)
    BY <1>1, <1>2 DEF Extends
  <2>. QED
    BY <1>3, <1>4, <2>1, CombatLengthens, Zenon
<1>6. /\ Backed' /\ ~NoExtras' /\ (OneExtra' => NoExtras)
      /\ NoExtras /\ currentPhase = id => currentPhase' = id /\ NothingTwice
  BY <1>5 DEF Lengthened
<1>7. NoExtras => currentPhase = id
  <2>1. NoExtras => OneExtra
    BY DEF NoExtras, OneExtra
  <2>2. Arrived
    BY <1>1 DEF Idle, Arrived
  <2>. QED
    BY <1>2, <2>1, <2>2 DEF Ordered, InRing
<1>8. InOrder' /\ NothingAgain
  BY <1>6, <1>7 DEF InOrder, NothingAgain
<1>9. InRing'
  BY <1>1, <1>2, <1>6, <1>7 DEF InRing
<1>10. OnCombatEnd'
  BY <1>1 DEF Idle, OnCombatEnd, Heralds
<1>. QED
  BY <1>8, <1>9, <1>10 DEF Ordered

\* What else the players and the effects do leaves the ring alone.
LEMMA PlayersOrdered ==
  ASSUME IInv, Ordered, PlayersStep
  PROVE  Ordered' /\ NothingAgain
<1>1. Idle
  BY PlayersWait
<1>2. CASE GrantCombatAfterMain
  BY <1>2, AfterMainOrdered
<1>3. CASE ~GrantCombatAfterMain
  <2>1. UNCHANGED ring /\ UNCHANGED eventsQueue /\ UNCHANGED currentGamePhase
    <3>1. Request \/ clickOK => UNCHANGED <<ring, eventsQueue, currentGamePhase>>
      BY DEF Request, clickOK, flow
    <3>2. \A a : toggleAttacker(a) => UNCHANGED <<ring, eventsQueue, currentGamePhase>>
      BY DEF toggleAttacker, flow
    <3>3. \A a, b : toggleDefenser(b, a) => UNCHANGED <<ring, eventsQueue, currentGamePhase>>
      BY DEF toggleDefenser, flow
    <3>4. CreatureLeaves \/ GrantCombatPhase \/ SourceLeaves =>
            UNCHANGED <<ring, eventsQueue, currentGamePhase>>
      BY DEF CreatureLeaves, GrantCombatPhase, SourceLeaves, flow
    <3>5. \A who, source, ids : GrantSkip(who, source, ids) =>
            UNCHANGED <<ring, eventsQueue, currentGamePhase>>
      BY DEF GrantSkip, flow
    <3>6. \A p : GrantTurn(p) => UNCHANGED <<ring, eventsQueue, currentGamePhase>>
      BY DEF GrantTurn, flow
    <3>7. UNCHANGED <<ring, eventsQueue, currentGamePhase>>
      BY <1>3, <3>1, <3>2, <3>3, <3>4, <3>5, <3>6, Zenon DEF PlayersStep
    <3>. QED
      BY <3>7
  <2>2. Arrived
    BY <1>1 DEF Idle, Arrived
  <2>. QED
    BY <2>1, <2>2, OrderedSame
<1>. QED
  BY <1>2, <1>3

LEMMA OrderedAtFirst ==
  ASSUME Init
  PROVE  Ordered
<1>1. turn = GameTurn /\ current = 5 /\ currentGamePhase = "FIRSTMAIN" /\ eventsQueue = <<>>
  BY DEF Init
<1>2. DOMAIN GamePhases = 1..14
  BY DEF GamePhases
<1>3. DOMAIN GameTurn = 1..14
  BY <1>2 DEF GameTurn
<1>4. \A i \in 1..14 : GameTurn[i].id = GamePhases[i] /\ GameTurn[i].extra = 0
  BY <1>2 DEF GameTurn, Phase
<1>5. \A i, j \in 1..14 : GamePhases[i] = GamePhases[j] => i = j
  <2>. SUFFICES ASSUME NEW i \in 1..14, NEW j \in 1..14, GamePhases[i] = GamePhases[j]
                PROVE  i = j
    OBVIOUS
  <2>. QED
    BY DEF GamePhases
<1>6. NoExtras /\ Distinct /\ Backed
  BY <1>1, <1>3, <1>4, <1>5 DEF NoExtras, Distinct, Backed
<1>7. InRing /\ OnCombatEnd
  BY <1>1, GameTurnIs DEF InRing, OnCombatEnd, Heralds, currentPhase
<1>. QED
  BY <1>6, <1>7 DEF Ordered, InOrder

LEMMA OrderedIsKept ==
  ASSUME IInv, Ordered, [Next]_vars
  PROVE  Ordered' /\ NothingAgain
<1>1. CASE Advance
  BY <1>1, ForwardOrdered, MoveOrdered, LandedOrdered, ArriveOrdered, EnteredOrdered,
     RecurseOrdered, PreChangeOrdered, ChangeOrdered, StepOrdered, Zenon DEF Advance
<1>2. CASE PlayersStep
  BY <1>2, PlayersOrdered
<1>3. CASE UNCHANGED vars
  <2>1. UNCHANGED <<ring, eventsQueue, calls, currentGamePhase>>
    BY <1>3 DEF vars, flow
  <2>. QED
    BY <2>1, OrderedSame DEF Arrived
<1>. QED
  BY <1>1, <1>2, <1>3, NextIs

-----------------------------------------------------------------------------
(* What the order of the turn gives. *)

\* Whenever the game waits for a player it is in the phase the ring is on, as
\* long as no phase has been put into the turn a second time: the phase that
\* nextGamePhase has entered, and the list that addCombatAfter and removePhase
\* change while the layers are warned, never part.
THEOREM GameIsInRing == SkipsSpareCombat => (Spec => []GameFollowsRing)
<1>. SUFFICES ASSUME SkipsSpareCombat PROVE Spec => []GameFollowsRing
  OBVIOUS
<1>1. Init => IInv /\ Ordered
  BY IInvAtFirst, OrderedAtFirst
<1>2. IInv /\ Ordered /\ [Next]_vars => IInv' /\ Ordered'
  BY IInvIsKept, IInvIsLeft, OrderedIsKept
<1>3. IInv /\ Ordered => GameFollowsRing
  BY DEF Ordered, InRing, Arrived, GameFollowsRing, Idle
<1>. QED
  BY <1>1, <1>2, <1>3, PTL DEF Spec

\* An extra combat goes behind what has been played, whether an ability inserts
\* it while the end of combat is warned of or a sorcery in a main phase.
THEOREM ExtraCombatsGoBehind == SkipsSpareCombat => (Spec => NothingPlayedTwice)
<1>. SUFFICES ASSUME SkipsSpareCombat PROVE Spec => NothingPlayedTwice
  OBVIOUS
<1>1. Init => IInv /\ Ordered
  BY IInvAtFirst, OrderedAtFirst
<1>2. IInv /\ Ordered /\ [Next]_vars => IInv' /\ Ordered'
  BY IInvIsKept, IInvIsLeft, OrderedIsKept
<1>3. IInv /\ Ordered /\ [Next]_vars =>
        [(Len(turn') > Len(turn) /\ current' # 1 /\ OneExtra') =>
           {turn[i] : i \in 1..current} \cap {turn'[i] : i \in (current' + 1)..Len(turn')} = {}]_vars
  BY OrderedIsKept DEF NothingAgain, NothingTwice
<1>. QED
  BY <1>1, <1>2, <1>3, PTL DEF Spec, NothingPlayedTwice

-----------------------------------------------------------------------------
(* The extra combats that are owed. *)

Owed(a) == a.adding /\ ~a.applied

Moving == calls # <<>> /\ Head(calls).op = "move"

\* The phase of the ring, also while the layers are warned of the next one.
Behind == IF Moving THEN turn[Here(Head(calls))].id ELSE currentPhase

Attack == {"COMBATATTACKERS", "COMBATBLOCKERS", "COMBATDAMAGE"}

\* The end of combat is still to be warned of.
InCombat ==
  /\ currentGamePhase \in Attack /\ Behind \in Attack
  /\ Moving => Behind # "COMBATDAMAGE"

\* Who owes a combat to the player whose turn it is has yet to hear of the end
\* of the one it has been given in.
Owing ==
  \A n \in 1..Len(alters) : Owed(alters[n]) =>
    /\ alters[n].who = currentPlayer
    /\ \/ InCombat
       \/ Heralds(eventsQueue, "COMBATEND") /\ Head(eventsQueue).heard < n

LEMMA OwingSame ==
  ASSUME Owing, UNCHANGED <<alters, currentPlayer>>, InCombat => InCombat',
         Heralds(eventsQueue, "COMBATEND") =>
           Heralds(eventsQueue', "COMBATEND") /\ Head(eventsQueue').heard = Head(eventsQueue).heard
  PROVE  Owing'
  BY DEF Owing, Owed

\* No warning of the end of combat is under way, and none that owes is new.
LEMMA OwingInCombat ==
  ASSUME Owing, currentPlayer' = currentPlayer, ~Heralds(eventsQueue, "COMBATEND"),
         InCombat => InCombat',
         \A j \in 1..Len(alters') : Owed(alters'[j]) =>
           \E k \in 1..Len(alters) : Owed(alters[k]) /\ alters'[j].who = alters[k].who
  PROVE  Owing'
<1>. SUFFICES ASSUME NEW j \in 1..Len(alters'), Owed(alters'[j])
              PROVE  alters'[j].who = currentPlayer /\ InCombat'
  BY DEF Owing, Owed
<1>1. PICK k \in 1..Len(alters) : Owed(alters[k]) /\ alters'[j].who = alters[k].who
  OBVIOUS
<1>. QED
  BY <1>1 DEF Owing

LEMMA InCombatSame ==
  ASSUME UNCHANGED ring, currentGamePhase' = currentGamePhase, ~Moving, ~Moving'
  PROVE  InCombat' = InCombat
<1>1. turn' = turn /\ current' = current
  BY DEF ring
<1>2. currentPhase' = currentPhase
  BY <1>1 DEF currentPhase
<1>. QED
  BY <1>2 DEF InCombat, Behind

\* Nobody owes a combat.
LEMMA OwingNothing ==
  ASSUME \A j \in 1..Len(alters') : ~Owed(alters'[j])
  PROVE  Owing'
  BY DEF Owing, Owed

\* What comes behind the calls of a phase that is entered.
LEMMA BehindArrival ==
  ASSUME ToRest, calls # <<>>
  PROVE  /\ IsList(Tail(calls))
         /\ Tail(calls) # <<>> => Head(Tail(calls)).op \in {"entered", "nextGamePhase"}
         /\ Head(calls).op = "update" => eventsQueue = <<>>
<1>1. CASE HurriedToEnd
  <2>1. PICK rest \in Rests : calls = <<Call("entered", TRUE)>> \o rest
    BY <1>1 DEF HurriedToEnd
  <2>2. PICK x : x = Call("entered", TRUE)
    OBVIOUS
  <2>3. x.op = "entered"
    BY <2>2 DEF Call
  <2>4. calls = <<x>> \o rest
    BY <2>1, <2>2
  <2>5. PICK s : s = calls
    OBVIOUS
  <2>6. s = <<x>> \o rest /\ rest \in Rests
    BY <2>4, <2>5
  <2>7. s # <<>> /\ Head(s) = x /\ Tail(s) = rest
    BY ONLY <2>6, LedByOne
  <2>8. rest = <<>> \/ rest = <<Enter>>
    BY DEF Rests
  <2>9. IsList(rest) /\ (rest # <<>> => Head(rest).op = "entered")
    BY <2>8, ListsAre DEF Enter, Call
  <2>. QED
    BY <2>3, <2>5, <2>7, <2>9
<1>2. CASE Resting
  <2>1. calls \in CallsOfSettled /\ eventsQueue = <<>>
    BY <1>2 DEF Resting
  <2>2. PICK u, g : u = Call("update", FALSE) /\ g = Call("nextGamePhase", FALSE)
    OBVIOUS
  <2>3. calls = <<u>> \/ calls = <<g>> \/ calls = <<u, g>>
    BY <2>1, <2>2 DEF CallsOfSettled, NextGamePhaseCalls
  <2>4. Tail(calls) = <<>> \/ Tail(calls) = <<g>>
    <3>1. \A x : calls = <<x>> => Tail(calls) = <<>>
      OBVIOUS
    <3>2. calls = <<u, g>> => Tail(calls) = <<g>>
      BY PairIs, Zenon
    <3>. QED
      BY <2>3, <3>1, <3>2
  <2>5. g.op = "nextGamePhase"
    BY <2>2 DEF Call
  <2>6. IsList(<<>>) /\ IsList(<<g>>) /\ Head(<<g>>) = g
    BY ListsAre
  <2>. QED
    BY <2>1, <2>4, <2>5, <2>6
<1>3. CASE Entering \/ Stepping \/ HurriedToDamage \/ HurriedAndHeard \/ EndWarned \/ EndReached
  <2>1. calls = <<Enter>> \/ calls = <<Call("entered", TRUE)>>
    BY <1>3 DEF Entering, Stepping, HurriedToDamage, HurriedAndHeard, EndWarned, EndReached, Rests
  <2>2. PICK x : calls = <<x>> /\ x \in {Enter, Call("entered", TRUE)}
    BY <2>1
  <2>3. x.op = "entered"
    BY <2>2 DEF Enter, Call
  <2>4. Tail(calls) = <<>> /\ Head(calls).op = "entered"
    BY <2>2, <2>3
  <2>. QED
    BY <2>4, ListsAre
<1>. QED
  BY <1>1, <1>2, <1>3 DEF ToRest

\* When a phase has arrived the end of combat is only warned of at the end of combat.
LEMMA HeraldAtEnd ==
  ASSUME ToRest, Heralds(eventsQueue, "COMBATEND")
  PROVE  currentGamePhase = "COMBATEND"
<1>1. PICK f, g, s : f = eventsQueue[1] /\ g = eventsQueue[2] /\ s = StepChange
  OBVIOUS
<1>2. s.type = "CombatStepChange"
  BY <1>1 DEF StepChange
<1>3. eventsQueue # <<>> /\ Head(eventsQueue).type = "PhasePreChange" /\ Head(eventsQueue).to = "COMBATEND"
  BY DEF Heralds
<1>4. ~Resting /\ ~Entering
  BY <1>3 DEF Resting, Entering
<1>5. ~Stepping /\ ~HurriedToDamage /\ ~HurriedAndHeard /\ ~EndReached
  <2>1. /\ Stepping => eventsQueue = <<s>>
        /\ HurriedToDamage => f.to = "COMBATDAMAGE" /\ eventsQueue = <<f, g, s>>
        /\ HurriedAndHeard => f.type = "PhaseChange" /\ eventsQueue = <<f, s>>
        /\ EndReached => f.type = "PhaseChange" /\ eventsQueue = <<f>>
    BY <1>1, Zenon DEF Stepping, HurriedToDamage, HurriedAndHeard, EndReached, IsChange
  <2>. QED
    BY <1>2, <1>3, <2>1
<1>. QED
  BY <1>4, <1>5 DEF ToRest, HurriedToEnd, EndWarned, AtEnd

LEMMA HeraldKept ==
  ASSUME NEW queue, IsList(queue), NEW e, NEW to, Heralds(queue, to)
  PROVE  Heralds(Append(queue, e), to) /\ Head(Append(queue, e)) = Head(queue)
<1>1. PICK S : queue \in Seq(S)
  BY DEF IsList
<1>. DEFINE T == S \cup {e}
<1>2. queue \in Seq(T) /\ e \in T /\ queue # <<>>
  BY <1>1 DEF Heralds
<1>. HIDE DEF T
<1>3. PICK r : r = Append(queue, e)
  OBVIOUS
<1>4. r \in Seq(T) /\ Len(r) > 0 /\ r[1] = queue[1]
  BY <1>2, <1>3
<1>5. r # <<>> /\ Head(r) = Head(queue)
  BY <1>2, <1>4
<1>. QED
  BY <1>3, <1>5 DEF Heralds

LEMMA ForwardOwing ==
  ASSUME IInv, Owing, forward
  PROVE  Owing'
<1>1. eventsQueue = <<>> /\ IsList(calls)
  BY ForwardIsAlone
<1>2. PICK to : to = IF current < Len(turn) THEN current + 1 ELSE current
  OBVIOUS
<1>3. PICK e : e = [type |-> "PhasePreChange", from |-> currentPhase, to |-> turn[to].id, heard |-> 0]
  OBVIOUS
<1>4. PICK m : m = [op |-> "move", nested |-> Head(calls).nested, from |-> currentPhase,
                    turnSteps |-> Len(turn), notEnd |-> current < Len(turn)]
  OBVIOUS
<1>5. /\ current' = to /\ turn' = turn /\ calls' = <<m>> \o Tail(calls)
      /\ eventsQueue' = Append(eventsQueue, e)
      /\ UNCHANGED <<alters, currentPlayer, currentGamePhase>>
  BY <1>2, <1>3, <1>4 DEF forward, flow
<1>6. /\ Len(turn) \in Nat /\ current \in 1..Len(turn) /\ turn[Len(turn)].id = "AFTER_EOT"
      /\ \A i \in 1..Len(turn) : i # Len(turn) => turn[i + 1].id \in After(turn[i].id)
  BY ChainedIs DEF IInv, Typed, RingTyped, Chained
<1>7. calls' # <<>> /\ Head(calls') = m
  <2>1. IsList(Tail(calls))
    BY <1>1, TailIsList DEF forward, Runs
  <2>. QED
    BY <1>5, <2>1, LedBy
<1>8. Moving' /\ Behind' = currentPhase
  <2>1. Here(m)' = current
    <3>1. IF current < Len(turn) THEN to - 1 = current ELSE to = current
      BY <1>2, <1>6
    <3>2. m.notEnd = (current < Len(turn))
      BY <1>4
    <3>. QED
      BY <1>5, <3>1, <3>2 DEF Here
  <2>2. Moving'
    BY <1>4, <1>7 DEF Moving
  <2>. QED
    BY <1>5, <1>7, <2>1, <2>2 DEF Behind, currentPhase
<1>9. ~Moving /\ Behind = currentPhase
  BY DEF forward, Runs, Moving, Behind
<1>10. ~Heralds(eventsQueue, "COMBATEND")
  BY <1>1 DEF Heralds
<1>11. CASE currentPhase # "COMBATDAMAGE"
  <2>1. InCombat => InCombat'
    BY <1>5, <1>8, <1>9, <1>11 DEF InCombat
  <2>. QED
    BY <1>5, <1>10, <2>1, OwingInCombat
<1>12. CASE currentPhase = "COMBATDAMAGE"
  <2>1. current # Len(turn) /\ to = current + 1
    BY <1>2, <1>6, <1>12 DEF currentPhase
  <2>2. turn[to].id = "COMBATEND"
    BY <1>6, <1>12, <2>1, AfterIs DEF currentPhase
  <2>3. eventsQueue' = <<e>> /\ e.type = "PhasePreChange" /\ e.to = "COMBATEND" /\ e.heard = 0
    BY <1>1, <1>3, <1>5, <2>2
  <2>4. Heralds(eventsQueue', "COMBATEND") /\ Head(eventsQueue').heard = 0
    BY <2>3 DEF Heralds
  <2>5. \A n \in 1..Len(alters) : 0 < n
    OBVIOUS
  <2>. QED
    BY <1>5, <1>10, <2>4, <2>5 DEF Owing, Owed
<1>. QED
  BY <1>11, <1>12

LEMMA MoveOwing ==
  ASSUME IInv, Owing, move
  PROVE  Owing'
<1>1. PICK m : m = Head(calls)
  OBVIOUS
<1>2. calls # <<>> /\ m.op = "move" /\ (m.nested \/ eventsQueue = <<>>)
  BY <1>1 DEF move, Runs
<1>3. /\ ToMove /\ IsList(calls)
      /\ Tail(calls) # <<>> /\ MovesOn(Head(Tail(calls)).op)
      /\ IF HurriesWarned THEN m.nested = TRUE ELSE Heading(m)
  BY <1>1, <1>2, SituationIs, MoveWhere
<1>4. /\ Len(turn) \in Nat /\ current \in 1..Len(turn) /\ turn[Len(turn)].id = "AFTER_EOT"
      /\ \A i \in 1..Len(turn) : i # Len(turn) => turn[i + 1].id \in After(turn[i].id)
  BY ChainedIs DEF IInv, Typed, RingTyped, Chained
<1>5. PICK here : here = Here(m)
  OBVIOUS
<1>6. here \in 1..Len(turn)
  <2>1. CASE HurriesWarned
    <3>1. calls[1] = m
      BY <1>1, <1>2, <1>3
    <3>2. current > 1 /\ m.notEnd
      BY <2>1, <3>1 DEF HurriesWarned
    <3>. QED
      BY <1>4, <1>5, <3>2 DEF Here
  <2>2. CASE ~HurriesWarned
    BY <1>3, <1>4, <1>5, <2>2 DEF Heading, Here
  <2>. QED
    BY <2>1, <2>2
<1>7. Moving /\ Behind = turn[here].id
  BY <1>1, <1>2, <1>5 DEF Moving, Behind
<1>8. UNCHANGED <<alters, currentPlayer, currentGamePhase>>
  BY DEF move, flow
<1>9. CASE ListChanged(m)
  <2>1. /\ calls' = <<Call("forward", m.nested)>> \o Tail(calls) /\ current' = here
        /\ turn' = turn /\ eventsQueue' = eventsQueue
    BY <1>1, <1>5, <1>9 DEF move, Here
  <2>2. ~Moving'
    <3>1. calls' # <<>> /\ Head(calls') = Call("forward", m.nested)
      BY <1>2, <1>3, <2>1, TailIsList, LedBy
    <3>. QED
      BY <3>1 DEF Moving, Call
  <2>3. Behind' = Behind
    BY <1>7, <2>1, <2>2 DEF Behind, currentPhase
  <2>4. InCombat => InCombat'
    BY <1>8, <2>2, <2>3 DEF InCombat
  <2>. QED
    BY <1>8, <2>1, <2>4, OwingSame
<1>10. CASE ~ListChanged(m)
  <2>1. PICK e : e = [type |-> "PhaseChange", from |-> m.from, to |-> turn'[current'].id]
    OBVIOUS
  <2>2. calls' = Tail(calls) /\ Moved(here) /\ eventsQueue' = Append(eventsQueue, e)
    BY <1>1, <1>5, <1>10, <2>1 DEF move, Here
  <2>3. ~Moving'
    BY <1>3, <2>2 DEF Moving, MovesOn
  <2>4. InCombat => InCombat'
    <3>. SUFFICES ASSUME InCombat PROVE InCombat'
      OBVIOUS
    <3>1. turn[here].id \in {"COMBATATTACKERS", "COMBATBLOCKERS"} /\ currentGamePhase \in Attack
      BY <1>7 DEF InCombat, Attack
    <3>2. here # Len(turn)
      BY <1>4, <3>1
    <3>3. turn' = turn /\ current' = here + 1
      BY <1>4, <1>6, <2>2, <3>2 DEF Moved
    <3>4. currentPhase' \in After(turn[here].id)
      BY <1>4, <1>6, <3>2, <3>3 DEF currentPhase
    <3>5. currentPhase' \in Attack
      BY <3>1, <3>4, AfterIs DEF After, Attack
    <3>. QED
      BY <1>8, <2>3, <3>1, <3>5 DEF InCombat, Behind
  <2>5. Heralds(eventsQueue, "COMBATEND") =>
          Heralds(eventsQueue', "COMBATEND") /\ Head(eventsQueue').heard = Head(eventsQueue).heard
    BY <2>2, QueueIs, HeraldKept
  <2>. QED
    BY <1>8, <2>4, <2>5, OwingSame
<1>. QED
  BY <1>9, <1>10

LEMMA LandedOwing ==
  ASSUME IInv, Owing, landed
  PROVE  Owing'
<1>1. PICK again, come, stay :
        /\ again = Call("forward", Head(calls).nested)
        /\ come = [op |-> "arrive", nested |-> Head(calls).nested, skip |-> TRUE]
        /\ stay = [come EXCEPT !.skip = FALSE]
  OBVIOUS
<1>2. again.op = "forward" /\ come.op = "arrive" /\ stay.op = "arrive"
  BY <1>1 DEF Call
<1>3. /\ calls' = <<again, again, come>> \o Tail(calls) \/ calls' = <<stay>> \o Tail(calls)
      /\ UNCHANGED ring /\ UNCHANGED <<eventsQueue, alters, currentPlayer, currentGamePhase>>
  BY <1>1 DEF landed, flow
<1>4. IsList(Tail(calls))
  BY SituationIs, TailIsList DEF landed, Runs
<1>5. calls' # <<>> /\ Head(calls') \in {again, stay}
  BY <1>3, <1>4, LedBy
<1>6. ~Moving /\ ~Moving'
  BY <1>2, <1>5 DEF Moving, landed, Runs
<1>7. InCombat' = InCombat
  BY <1>3, <1>6, InCombatSame
<1>. QED
  BY <1>3, <1>7, OwingSame

\* The event of a step comes behind the warning.
LEMMA StepKeepsHerald ==
  ASSUME NEW queue, IsList(queue), nextCombatStep(queue), NEW to, Heralds(queue, to)
  PROVE  Heralds(eventsQueue', to) /\ Head(eventsQueue').heard = Head(queue).heard
<1>1. CASE eventsQueue' = queue
  BY <1>1
<1>2. CASE eventsQueue' # queue
  <2>1. PICK e : e = [type |-> "CombatStepChange", step |-> combatStep']
    OBVIOUS
  <2>2. eventsQueue' = Append(queue, e)
    BY <1>2, <2>1 DEF nextCombatStep
  <2>3. Heralds(Append(queue, e), to) /\ Head(Append(queue, e)) = Head(queue)
    BY HeraldKept
  <2>. QED
    BY <2>2, <2>3
<1>. QED
  BY <1>1, <1>2

LEMMA ArriveOwing ==
  ASSUME IInv, Owing, arrive
  PROVE  Owing'
<1>1. PICK x : x = Call("entered", Head(calls).nested)
  OBVIOUS
<1>2. x.op = "entered"
  BY <1>1 DEF Call
<1>3. /\ currentGamePhase' = currentPhase /\ calls' = <<x>> \o Tail(calls)
      /\ UNCHANGED ring /\ UNCHANGED <<alters, currentPlayer>>
  BY <1>1 DEF arrive
<1>4. IsList(Tail(calls))
  BY SituationIs, TailIsList DEF arrive, Runs
<1>5. calls' # <<>> /\ Head(calls') = x
  BY <1>3, <1>4, LedBy
<1>6. ~Moving /\ ~Moving'
  BY <1>2, <1>5 DEF Moving, arrive, Runs
<1>7. turn' = turn /\ current' = current
  BY <1>3 DEF ring
<1>8. InCombat => InCombat'
  BY <1>3, <1>6, <1>7 DEF InCombat, Behind, currentPhase
<1>9. eventsQueue' = eventsQueue \/ nextCombatStep(eventsQueue)
  BY DEF arrive
<1>10. Heralds(eventsQueue, "COMBATEND") =>
         Heralds(eventsQueue', "COMBATEND") /\ Head(eventsQueue').heard = Head(eventsQueue).heard
  BY <1>9, QueueIs, StepKeepsHerald
<1>. QED
  BY <1>3, <1>8, <1>10, OwingSame

\* The update drops who has done its work, and owes nothing more.
LEMMA LivingOwes ==
  ASSUME alters \in Seq(Sparing), alters' = Living, NEW owed \in BOOLEAN, NEW who,
         \A n \in 1..Len(alters) : Owed(alters[n]) => owed /\ alters[n].who = who
  PROVE  \A n \in 1..Len(alters') : Owed(alters'[n]) => owed /\ alters'[n].who = who
<1>. DEFINE S == {a \in Sparing : Owed(a) => owed /\ a.who = who}
<1>1. alters \in Seq(S)
  <2>1. Len(alters) \in Nat /\ \A n \in 1..Len(alters) : alters[n] \in Sparing
    OBVIOUS
  <2>2. \A n \in 1..Len(alters) : alters[n] \in S
    BY <2>1
  <2>3. DOMAIN alters = 1..Len(alters) /\ alters = [n \in 1..Len(alters) |-> alters[n]]
    OBVIOUS
  <2>. HIDE DEF S
  <2>4. alters \in [1..Len(alters) -> S]
    BY <2>2, <2>3
  <2>. QED
    BY <2>1, <2>4
<1>. HIDE DEF S
<1>2. alters' \in Seq(S)
  BY <1>1, AmongIsTyped DEF Living
<1>3. \A n \in 1..Len(alters') : alters'[n] \in S
  BY <1>2
<1>. QED
  BY <1>3 DEF S

LEMMA EnteredOwing ==
  ASSUME IInv, Owing, entered
  PROVE  Owing'
<1>1. /\ calls # <<>> /\ Head(calls).op = "entered"
      /\ UNCHANGED ring /\ UNCHANGED <<currentGamePhase, eventsQueue>>
  BY DEF entered, Runs
<1>2. ToRest
  BY <1>1, SituationIs DEF Arrived
<1>3. CASE currentGamePhase \in {"BEFORE_BEGIN", "AFTER_EOT"}
  <2>1. alters' = Living
    BY <1>3 DEF entered
  <2>2. ~Heralds(eventsQueue, "COMBATEND") /\ ~InCombat
    BY <1>2, <1>3, HeraldAtEnd DEF InCombat, Attack
  <2>3. \A n \in 1..Len(alters) : Owed(alters[n]) => FALSE
    BY <2>2 DEF Owing
  <2>4. alters \in Seq(Sparing)
    BY DEF IInv, Typed
  <2>5. PICK owed \in BOOLEAN : owed = FALSE
    OBVIOUS
  <2>6. \A n \in 1..Len(alters') : Owed(alters'[n]) => owed /\ alters'[n].who = currentPlayer
    BY <2>1, <2>3, <2>4, LivingOwes
  <2>. QED
    BY <2>5, <2>6, OwingNothing
<1>4. CASE currentGamePhase \notin {"BEFORE_BEGIN", "AFTER_EOT"}
  <2>1. calls' = Tail(calls) /\ UNCHANGED <<alters, currentPlayer>>
    BY <1>4 DEF entered
  <2>2. ~Moving /\ ~Moving'
    BY <1>1, <1>2, <2>1, BehindArrival DEF Moving
  <2>3. InCombat' = InCombat
    BY <1>1, <2>2, InCombatSame
  <2>. QED
    BY <1>1, <2>1, <2>3, OwingSame
<1>. QED
  BY <1>3, <1>4

LEMMA UpdateLayerOwing ==
  ASSUME IInv, Owing, UpdateLayer
  PROVE  Owing'
<1>1. /\ calls # <<>> /\ Head(calls).op = "update" /\ calls' = Tail(calls) /\ alters' = Living
      /\ UNCHANGED ring /\ UNCHANGED <<currentGamePhase, currentPlayer, eventsQueue>>
  BY DEF UpdateLayer, Runs, flow
<1>2. ToRest
  BY <1>1, SituationIs DEF Arrived
<1>3. eventsQueue = <<>> /\ ~Moving /\ ~Moving'
  BY <1>1, <1>2, BehindArrival DEF Moving
<1>4. InCombat' = InCombat
  BY <1>1, <1>3, InCombatSame
<1>5. \A n \in 1..Len(alters) : Owed(alters[n]) => InCombat /\ alters[n].who = currentPlayer
  BY <1>3 DEF Owing, Heralds
<1>6. alters \in Seq(Sparing)
  BY DEF IInv, Typed
<1>7. PICK owed \in BOOLEAN : owed = InCombat
  <2>1. InCombat \in BOOLEAN
    BY DEF InCombat
  <2>. QED
    BY <2>1
<1>8. \A n \in 1..Len(alters') : Owed(alters'[n]) => owed /\ alters'[n].who = currentPlayer
  BY <1>1, <1>5, <1>6, <1>7, LivingOwes
<1>. QED
  BY <1>1, <1>4, <1>7, <1>8 DEF Owing, Owed

\* Marking a warning as heard leaves the rest of it as it was.
LEMMA WarningIsMarked ==
  ASSUME IInv, Delivers("PhasePreChange"), NEW e, e = Head(eventsQueue), NEW n, NEW q,
         q = [eventsQueue EXCEPT ![1].heard = n]
  PROVE  Heralds(q, e.to) /\ Head(q).heard = n
<1>1. eventsQueue # <<>> /\ IsList(eventsQueue) /\ IsPreChange(e)
  BY QueueIs, WarningIs DEF Delivers
<1>2. e.type = "PhasePreChange" /\ "heard" \in DOMAIN e
  BY <1>1 DEF IsPreChange
<1>3. PICK S : eventsQueue \in Seq(S)
  BY <1>1 DEF IsList
<1>4. PICK g : g = [e EXCEPT !.heard = n]
  OBVIOUS
<1>5. e = eventsQueue[1] /\ Len(eventsQueue) \in Nat /\ Len(eventsQueue) > 0
  BY <1>1, <1>3
<1>6. q = [eventsQueue EXCEPT ![1] = g]
  BY <1>4, <1>5
<1>7. q \in Seq(S \cup {g}) /\ Len(q) = Len(eventsQueue) /\ q[1] = g
  BY <1>3, <1>5, <1>6
<1>8. q # <<>> /\ Head(q) = g
  BY <1>5, <1>7
<1>9. g.type = e.type /\ g.to = e.to /\ g.heard = n
  BY <1>2, <1>4
<1>. QED
  BY <1>2, <1>8, <1>9 DEF Heralds

LEMMA RecurseOwing ==
  ASSUME IInv, Owing, recurse
  PROVE  Owing'
<1>1. /\ calls # <<>> /\ Head(calls).op = "nextGamePhase"
      /\ UNCHANGED ring /\ UNCHANGED <<alters, currentPlayer, currentGamePhase>>
      /\ nextGamePhase(Head(calls).nested, Tail(calls), eventsQueue)
  BY DEF recurse, Runs
<1>2. ToRest
  BY <1>1, SituationIs DEF Arrived
<1>3. PICK f, l : /\ f = Call("forward", Head(calls).nested)
                  /\ l = [op |-> "landed", nested |-> Head(calls).nested, from |-> currentPhase]
  OBVIOUS
<1>4. calls' = Tail(calls) \/ calls' = <<f, l>> \o Tail(calls)
  BY <1>1, <1>3 DEF nextGamePhase
<1>5. ~Moving /\ ~Moving'
  <2>1. CASE calls' = Tail(calls)
    BY <1>1, <1>2, <2>1, BehindArrival DEF Moving
  <2>2. CASE calls' = <<f, l>> \o Tail(calls)
    <3>1. Head(calls') = f /\ f.op = "forward"
      BY <1>1, <1>2, <1>3, <2>2, BehindArrival, LedBy DEF Call
    <3>. QED
      BY <1>1, <3>1 DEF Moving
  <2>. QED
    BY <1>4, <2>1, <2>2
<1>6. InCombat' = InCombat
  BY <1>1, <1>5, InCombatSame
<1>7. eventsQueue' = eventsQueue \/ nextCombatStep(eventsQueue)
  BY <1>1 DEF nextGamePhase
<1>8. Heralds(eventsQueue, "COMBATEND") =>
         Heralds(eventsQueue', "COMBATEND") /\ Head(eventsQueue').heard = Head(eventsQueue).heard
  BY <1>7, QueueIs, StepKeepsHerald
<1>. QED
  BY <1>1, <1>6, <1>8, OwingSame

\* Where the combat is not over yet, a warning is not of its end, and changes
\* nothing in the list.
LEMMA WarnedInCombat ==
  ASSUME IInv, Delivers("PhasePreChange"), InCombat, NEW e, e = Head(eventsQueue)
  PROVE  e.to \in Kept \ {"COMBATEND"}
<1>0. eventsQueue # <<>>
  BY DEF Delivers
<1>1. CASE Warned \/ SkipsBlockersWarned \/ SkipsDamageWarned
  <2>1. ToMove
    BY <1>1 DEF ToMove
  <2>2. calls # <<>> /\ Head(calls).op = "move" /\ ~Head(calls).nested
    BY <2>1, MoveWhere DEF Delivers
  <2>3. Heading(Head(calls))
    BY <2>1, <2>2, MoveWhere
  <2>4. PICK m : m = Head(calls)
    OBVIOUS
  <2>5. Moving /\ Behind = turn[Here(m)].id
    BY <2>2, <2>4 DEF Moving, Behind
  <2>6. Behind \in {"COMBATATTACKERS", "COMBATBLOCKERS"}
    BY <2>5 DEF InCombat, Attack
  <2>7. Warns(e, m)
    BY <1>0, <2>3, <2>4 DEF Heading
  <2>8. CASE m.notEnd
    <3>1. e.to \in After(Behind)
      BY <2>5, <2>6, <2>7, <2>8 DEF Warns
    <3>. QED
      BY <2>6, <3>1 DEF After, Kept
  <2>9. CASE ~m.notEnd
    BY <2>7, <2>9 DEF Warns, Kept
  <2>. QED
    BY <2>8, <2>9
<1>2. CASE HurriedToDamage
  <2>1. e = eventsQueue[1]
    BY <1>0
  <2>. QED
    BY <1>2, <2>1 DEF HurriedToDamage, Kept
<1>3. ~EndWarned
  BY DEF EndWarned, AtEnd, InCombat, Attack
<1>. QED
  BY <1>1, <1>2, <1>3, HeraldWhere

\* What an ability that is warned has done, it does not owe.
LEMMA MarkedOwes ==
  ASSUME alters \in Seq(Sparing), NEW n \in 1..Len(alters), NEW to, PhaseAltered(n, to)
  PROVE  /\ Len(alters') = Len(alters)
         /\ \A k \in 1..Len(alters) :
              /\ alters'[k].who = alters[k].who
              /\ Owed(alters'[k]) => Owed(alters[k])
         /\ (/\ Owed(alters[n]) /\ alters[n].who = currentPlayer /\ to = "COMBATEND"
             /\ IndexOf("COMBATEND") # 0) => ~Owed(alters'[n])
<1>1. PICK a : a = alters[n]
  OBVIOUS
<1>2. \A k \in 1..Len(alters) : alters[k] \in Sparing
  OBVIOUS
<1>3. \A k \in 1..Len(alters) : alters[k] \in Alterations
  BY <1>2 DEF Sparing
<1>4. a.adding => a.id = "COMBATEND"
  BY <1>1, <1>2 DEF Sparing
<1>. DEFINE his == a.who = currentPlayer
            found == IndexOf(a.id) # 0
            ended == to = "CLEANUP" /\ a.next /\ a.applied /\ ~his
            adds == a.adding /\ ~a.applied /\ to = a.id /\ his
            removes == ~a.adding /\ to = a.id /\ his
            x == a.applied \/ ((adds \/ removes) /\ found)
            y == a.done \/ ended
<1>5. alters' = [alters EXCEPT ![n].applied = x, ![n].done = y]
  BY <1>1, Zenon DEF PhaseAltered
<1>6. (/\ Owed(a) /\ his /\ to = "COMBATEND" /\ IndexOf("COMBATEND") # 0) => x
  BY <1>4 DEF Owed
<1>7. a.applied => x
  OBVIOUS
<1>. HIDE DEF x, y
<1>8. PICK b : b = [a EXCEPT !.applied = x, !.done = y]
  OBVIOUS
<1>9. b.applied = x /\ b.adding = a.adding /\ b.who = a.who
  BY <1>1, <1>3, <1>8 DEF Alterations
<1>10. alters' = [alters EXCEPT ![n] = b]
  BY <1>1, <1>5, <1>8
<1>11. Len(alters') = Len(alters) /\ \A k \in 1..Len(alters) : alters'[k] = IF k = n THEN b ELSE alters[k]
  BY <1>10
<1>. QED
  BY <1>1, <1>6, <1>7, <1>9, <1>11 DEF Owed

LEMMA PreChangeOwing ==
  ASSUME IInv, Owing, HearPreChange
  PROVE  Owing'
<1>1. /\ Delivers("PhasePreChange") /\ calls' = calls
      /\ UNCHANGED <<currentPlayer, currentGamePhase>>
  BY DEF HearPreChange
<1>2. PICK e : e = Head(eventsQueue)
  OBVIOUS
<1>3. /\ IsPreChange(e)
      /\ e.to = "COMBATEND" => \E i \in 1..current : turn[i].id = "COMBATEND"
  BY <1>1, <1>2, WarningIs
<1>4. /\ eventsQueue # <<>> /\ e.type = "PhasePreChange"
      /\ Heralds(eventsQueue, "COMBATEND") => e.to = "COMBATEND"
      /\ e.to = "COMBATEND" => Heralds(eventsQueue, "COMBATEND")
  BY <1>1, <1>2 DEF Delivers, Heralds
<1>5. RingTyped /\ alters \in Seq(Sparing) /\ Len(alters) \in Nat /\ DOMAIN alters = 1..Len(alters)
  BY DEF IInv, Typed
<1>6. PICK n \in Nat : n = e.heard + 1 /\ n > 0 /\ e.heard \in Nat
  BY <1>3 DEF IsPreChange
<1>7. InCombat => e.to \in Kept \ {"COMBATEND"}
  BY <1>1, <1>2, WarnedInCombat
<1>8. ASSUME UNCHANGED ring
      PROVE  InCombat => InCombat'
  <2>1. turn' = turn /\ current' = current
    BY <1>8 DEF ring
  <2>. QED
    BY <1>1, <2>1 DEF InCombat, Behind, Moving, Here, currentPhase
<1>9. CASE n > Len(alters)
  <2>1. UNCHANGED ring /\ alters' = alters
    BY <1>2, <1>6, <1>9 DEF HearPreChange
  <2>2. CASE e.to = "COMBATEND"
    <3>1. \A k \in 1..Len(alters) : ~(e.heard < k)
      BY <1>5, <1>6, <1>9
    <3>2. \A k \in 1..Len(alters) : ~Owed(alters[k])
      BY <1>2, <1>7, <2>2, <3>1 DEF Owing
    <3>. QED
      BY <2>1, <3>2, OwingNothing
  <2>3. CASE e.to # "COMBATEND"
    <3>1. InCombat => InCombat'
      BY <1>8, <2>1
    <3>2. ~Heralds(eventsQueue, "COMBATEND")
      BY <1>4, <2>3
    <3>. QED
      BY <1>1, <2>1, <3>1, <3>2, OwingInCombat
  <2>. QED
    BY <2>2, <2>3
<1>10. CASE ~(n > Len(alters))
  <2>1. /\ n \in 1..Len(alters)
        /\ PhaseAltered(n, e.to) /\ eventsQueue' = [eventsQueue EXCEPT ![1].heard = n]
    <3>1. PhaseAltered(n, e.to) /\ eventsQueue' = [eventsQueue EXCEPT ![1].heard = n]
      BY <1>2, <1>6, <1>10 DEF HearPreChange
    <3>. QED
      BY <1>5, <1>6, <1>10, <3>1
  <2>2. PICK to : to = e.to
    OBVIOUS
  <2>3. PhaseAltered(n, to) /\ (to = "COMBATEND" => \E i \in 1..current : turn[i].id = "COMBATEND")
    BY <1>3, <2>1, <2>2
  <2>4. /\ Len(alters') = Len(alters)
        /\ \A k \in 1..Len(alters) :
              /\ alters'[k].who = alters[k].who
              /\ Owed(alters'[k]) => Owed(alters[k])
        /\ (/\ Owed(alters[n]) /\ alters[n].who = currentPlayer /\ to = "COMBATEND"
            /\ IndexOf("COMBATEND") # 0) => ~Owed(alters'[n])
    BY <1>5, <2>1, <2>3, MarkedOwes, Zenon
  <2>5. CASE to = "COMBATEND"
    <3>1. ~InCombat
      BY <1>7, <2>2, <2>5
    <3>2. IndexOf("COMBATEND") # 0
      <4>1. Len(turn) \in Nat /\ \E i \in 1..Len(turn) : turn[i].id = "COMBATEND"
        BY <1>5, <2>3, <2>5, ChainedIs DEF RingTyped
      <4>. QED
        BY <4>1, IndexOfIs
    <3>3. \A k \in 1..Len(alters) : Owed(alters[k]) => alters[k].who = currentPlayer /\ e.heard < k
      BY <1>2, <3>1 DEF Owing
    <3>4. ~Owed(alters'[n])
      BY <2>1, <2>4, <2>5, <3>2, <3>3
    <3>5. \A k \in 1..Len(alters) : Owed(alters'[k]) => alters'[k].who = currentPlayer /\ n < k
      <4>. SUFFICES ASSUME NEW k \in 1..Len(alters), Owed(alters'[k])
                    PROVE  alters'[k].who = currentPlayer /\ n < k
        OBVIOUS
      <4>1. alters'[k].who = currentPlayer /\ e.heard < k /\ k # n
        BY <2>4, <3>3, <3>4
      <4>. QED
        BY <1>5, <1>6, <4>1
    <3>6. Heralds(eventsQueue', "COMBATEND") /\ Head(eventsQueue').heard = n
      <4>1. PICK q : q = [eventsQueue EXCEPT ![1].heard = n]
        OBVIOUS
      <4>2. e.to = "COMBATEND" /\ eventsQueue' = q
        BY <2>1, <2>2, <2>5, <4>1
      <4>3. Heralds(q, e.to) /\ Head(q).heard = n
        BY <1>1, <1>2, <4>1, WarningIsMarked
      <4>. QED
        BY <4>2, <4>3
    <3>. QED
      BY <1>1, <2>4, <3>5, <3>6 DEF Owing, Owed
  <2>6. CASE to # "COMBATEND"
    <3>1. ~Heralds(eventsQueue, "COMBATEND")
      BY <1>4, <2>2, <2>6
    <3>2. InCombat => UNCHANGED ring
      <4>1. \/ UNCHANGED <<ring, combatStep>> \/ to \notin Kept
        BY <1>5, <2>1, <2>3, <2>6, AlteringIs, Zenon
      <4>. QED
        BY <1>7, <2>2, <4>1
    <3>3. InCombat => InCombat'
      BY <1>8, <3>2
    <3>4. \A j \in 1..Len(alters') : Owed(alters'[j]) =>
            \E k \in 1..Len(alters) : Owed(alters[k]) /\ alters'[j].who = alters[k].who
      BY <2>4
    <3>. QED
      BY <1>1, <3>1, <3>3, <3>4, OwingInCombat
  <2>. QED
    BY <2>5, <2>6
<1>. QED
  BY <1>9, <1>10

LEMMA ChangeOwing ==
  ASSUME IInv, Owing, HearPhaseChange
  PROVE  Owing'
<1>1. /\ Delivers("PhaseChange") /\ calls' = calls
      /\ UNCHANGED ring /\ UNCHANGED <<alters, currentPlayer, currentGamePhase>>
  BY DEF HearPhaseChange, flow
<1>2. ~Heralds(eventsQueue, "COMBATEND")
  BY <1>1 DEF Delivers, Heralds
<1>3. turn' = turn /\ current' = current
  BY <1>1 DEF ring
<1>4. InCombat' = InCombat
  BY <1>1, <1>3 DEF InCombat, Behind, Moving, Here, currentPhase
<1>. QED
  BY <1>1, <1>2, <1>4, OwingSame

LEMMA StepOwing ==
  ASSUME IInv, Owing, HearCombatStep
  PROVE  Owing'
<1>1. /\ Delivers("CombatStepChange")
      /\ UNCHANGED ring /\ UNCHANGED <<alters, currentPlayer, currentGamePhase>>
  BY DEF HearCombatStep
<1>2. ~Heralds(eventsQueue, "COMBATEND")
  BY <1>1 DEF Delivers, Heralds
<1>3. calls \in Rests
  BY <1>1, StepWhere DEF Stepping
<1>4. ~Moving /\ IsList(calls)
  <2>1. PICK x : x = Enter
    OBVIOUS
  <2>2. x.op = "entered"
    BY <2>1 DEF Enter, Call
  <2>3. calls = <<>> \/ calls = <<x>>
    BY <1>3, <2>1 DEF Rests
  <2>. QED
    BY <1>3, <2>2, <2>3, RestsAreLists DEF Moving
<1>5. PICK f, l : f = Call("forward", TRUE) /\ l = [op |-> "landed", nested |-> TRUE, from |-> currentPhase]
  OBVIOUS
<1>6. calls' = calls \/ calls' = <<f, l>> \o calls
  <2>1. PICK h \in BOOLEAN : h = human
    <3>1. human \in BOOLEAN
      BY DEF human
    <3>. QED
      BY <3>1
  <2>2. PICK asks : asks = RequestAfter(combatStep, h)
    OBVIOUS
  <2>3. asks \in {"nothing", "nextCombatStep", "userRequestNextGamePhase"}
    BY <1>1, <2>1, <2>2, StepWhere, StepAsks DEF Requests, Stepping
  <2>4. Head(eventsQueue).step = combatStep
    BY <1>1, StepWhere DEF Stepping, StepChange
  <2>5. /\ CASE asks = "nothing" ->
                  eventsQueue' = Tail(eventsQueue) /\ UNCHANGED <<combatStep, calls>>
             [] asks = "nextCombatStep" ->
                  nextCombatStep(Tail(eventsQueue)) /\ UNCHANGED calls
             [] asks = "userRequestNextGamePhase" ->
                  nextGamePhase(TRUE, calls, Tail(eventsQueue))
    BY <2>1, <2>2, <2>4, Zenon DEF HearCombatStep
  <2>6. calls' = calls \/ nextGamePhase(TRUE, calls, Tail(eventsQueue))
    BY <2>3, <2>5
  <2>. QED
    BY <1>5, <2>6 DEF nextGamePhase
<1>7. ~Moving'
  <2>1. Head(<<f, l>> \o calls) = f /\ f.op = "forward"
    BY <1>4, <1>5, LedBy DEF Call
  <2>. QED
    BY <1>4, <1>6, <2>1 DEF Moving
<1>8. InCombat' = InCombat
  BY <1>1, <1>4, <1>7, InCombatSame
<1>. QED
  BY <1>1, <1>2, <1>8, OwingSame

LEMMA GrantSkipOwing ==
  ASSUME IInv, Owing, Idle, NEW who, NEW source, NEW ids \in Skips, GrantSkip(who, source, ids),
         InCombat => InCombat', UNCHANGED currentPlayer
  PROVE  Owing'
<1>1. PICK added : added = [i \in DOMAIN ids |-> Altering(ids[i], who, FALSE, source)]
  OBVIOUS
<1>2. alters' = alters \o added
  BY <1>1 DEF GrantSkip
<1>3. ids \in Seq(PhaseIds)
  BY FlowAssumption
<1>4. PICK k \in Nat : k = Len(ids) /\ DOMAIN ids = 1..k
  BY <1>3
<1>5. \A i \in 1..k : ~Owed(added[i])
  BY <1>1, <1>4 DEF Owed, Altering
<1>6. PICK S : S = Sparing \cup {added[i] : i \in 1..k}
  OBVIOUS
<1>7. added \in Seq(S) /\ Len(added) = k
  <2>1. added \in [1..k -> S]
    BY <1>1, <1>4, <1>6
  <2>. QED
    BY <2>1
<1>8. alters \in Seq(S)
  BY <1>6 DEF IInv, Typed
<1>9. PICK m \in Nat : m = Len(alters)
  BY <1>8
<1>10. /\ Len(alters') = m + k
       /\ \A i \in 1..(m + k) : alters'[i] = IF i <= m THEN alters[i] ELSE added[i - m]
  BY <1>2, <1>7, <1>8, <1>9, ConcatProperties
<1>11. \A j \in 1..Len(alters') : Owed(alters'[j]) =>
         \E i \in 1..Len(alters) : Owed(alters[i]) /\ alters'[j].who = alters[i].who
  <2>. SUFFICES ASSUME NEW j \in 1..(m + k), Owed(alters'[j])
                PROVE  \E i \in 1..m : Owed(alters[i]) /\ alters'[j].who = alters[i].who
    BY <1>9, <1>10
  <2>1. CASE j <= m
    <3>1. j \in 1..m /\ alters'[j] = alters[j]
      BY <1>10, <2>1
    <3>. QED
      BY <3>1
  <2>2. CASE ~(j <= m)
    <3>1. j - m \in 1..k /\ alters'[j] = added[j - m]
      BY <1>10, <2>2
    <3>. QED
      BY <1>5, <3>1
  <2>. QED
    BY <2>1, <2>2
<1>12. ~Heralds(eventsQueue, "COMBATEND")
  BY DEF Idle, Heralds
<1>. QED
  BY <1>11, <1>12, OwingInCombat

LEMMA GrantCombatPhaseOwing ==
  ASSUME IInv, Ordered, Owing, GrantCombatPhase
  PROVE  Owing'
<1>1. PICK a : a = Altering("COMBATEND", currentPlayer, TRUE, "permanent")
  OBVIOUS
<1>2. /\ Idle /\ currentGamePhase \in Attack
      /\ alters' = Append(alters, a) /\ calls' = calls
      /\ UNCHANGED ring /\ UNCHANGED <<currentPlayer, currentGamePhase>>
  BY <1>1 DEF GrantCombatPhase, flow, Attack
<1>3. ~Moving /\ ~Moving' /\ ~Heralds(eventsQueue, "COMBATEND")
  BY <1>2 DEF Idle, Moving, Heralds
<1>4. InCombat
  <2>1. Arrived
    BY <1>2 DEF Idle, Arrived
  <2>2. currentPhase = currentGamePhase
    BY <1>2, <2>1 DEF Ordered, InRing, Attack
  <2>. QED
    BY <1>2, <1>3, <2>2 DEF InCombat, Behind
<1>5. InCombat'
  BY <1>2, <1>3, <1>4, InCombatSame
<1>6. a.who = currentPlayer
  BY <1>1 DEF Altering
<1>7. PICK S : S = Sparing \cup {a}
  OBVIOUS
<1>8. alters \in Seq(S) /\ a \in S
  BY <1>7 DEF IInv, Typed
<1>9. PICK m \in Nat : m = Len(alters)
  BY <1>8
<1>10. Len(alters') = m + 1 /\ \A i \in 1..(m + 1) : alters'[i] = IF i = m + 1 THEN a ELSE alters[i]
  BY <1>2, <1>8, <1>9
<1>11. \A i \in 1..m : Owed(alters[i]) => alters[i].who = currentPlayer
  BY <1>9 DEF Owing
<1>12. ASSUME NEW i \in 1..(m + 1), Owed(alters'[i])
       PROVE  alters'[i].who = currentPlayer
  <2>1. CASE i = m + 1
    BY <1>6, <1>10, <2>1
  <2>2. CASE i # m + 1
    <3>1. i \in 1..m /\ alters'[i] = alters[i]
      BY <1>10, <2>2
    <3>. QED
      BY <1>11, <1>12, <3>1
  <2>. QED
    BY <2>1, <2>2
<1>. QED
  BY <1>2, <1>5, <1>10, <1>12 DEF Owing, Owed

LEMMA SourceLeavesOwing ==
  ASSUME IInv, Owing, SourceLeaves, InCombat => InCombat', UNCHANGED currentPlayer
  PROVE  Owing'
<1>1. PICK k : /\ alters' = [n \in DOMAIN alters |->
                              IF alters[n].card = k THEN [alters[n] EXCEPT !.inPlay = FALSE]
                              ELSE alters[n]]
  BY DEF SourceLeaves
<1>2. Len(alters) \in Nat /\ DOMAIN alters = 1..Len(alters) /\ \A n \in 1..Len(alters) : alters[n] \in Sparing
  BY DEF IInv, Typed
<1>3. \A a \in Sparing : LET b == [a EXCEPT !.inPlay = FALSE]
                         IN b.adding = a.adding /\ b.applied = a.applied /\ b.who = a.who
  BY DEF Sparing, Alterations
<1>4. Len(alters') = Len(alters)
  BY <1>1, <1>2
<1>5. ASSUME NEW n \in 1..Len(alters), Owed(alters'[n])
      PROVE  Owed(alters[n]) /\ alters'[n].who = alters[n].who
  <2>1. PICK a \in Sparing : a = alters[n]
    BY <1>2
  <2>2. alters'[n] = a \/ alters'[n] = [a EXCEPT !.inPlay = FALSE]
    BY <1>1, <1>2, <2>1
  <2>. QED
    BY <1>3, <1>5, <2>1, <2>2 DEF Owed
<1>6. ~Heralds(eventsQueue, "COMBATEND")
  BY DEF SourceLeaves, Idle, Heralds
<1>. QED
  BY <1>4, <1>5, <1>6, OwingInCombat

\* What the players and the effects do.
LEMMA PlayersOwing ==
  ASSUME IInv, Ordered, Owing, PlayersStep
  PROVE  Owing'
<1>1. Idle
  BY PlayersWait
<1>2. CASE GrantCombatPhase
  BY <1>2, GrantCombatPhaseOwing
<1>3. CASE GrantCombatAfterMain
  <2>1. /\ currentGamePhase \in {"FIRSTMAIN", "SECONDMAIN"}
        /\ UNCHANGED <<alters, currentPlayer>>
    BY <1>3 DEF GrantCombatAfterMain
  <2>2. ~InCombat /\ ~Heralds(eventsQueue, "COMBATEND")
    BY <1>1, <2>1 DEF InCombat, Attack, Idle, Heralds
  <2>. QED
    BY <2>1, <2>2, OwingSame
<1>4. CASE ~GrantCombatPhase /\ ~GrantCombatAfterMain
  <2>. DEFINE Alike == UNCHANGED ring /\ UNCHANGED <<currentPlayer, currentGamePhase>>
  <2>1. /\ Alike
        /\ calls' \in {<<>>, NextGamePhaseCalls, <<Call("update", FALSE)>>}
        /\ \/ alters' = alters
           \/ SourceLeaves
           \/ \E who \in Players, source \in Sources, ids \in Skips : GrantSkip(who, source, ids)
    <3>1. Request \/ clickOK =>
            Alike /\ alters' = alters /\ calls' \in {<<>>, NextGamePhaseCalls}
      BY DEF Request, clickOK, flow
    <3>2. \A a : toggleAttacker(a) => Alike /\ alters' = alters /\ calls' = calls
      BY DEF toggleAttacker, flow
    <3>3. \A a, b : toggleDefenser(b, a) => Alike /\ alters' = alters /\ calls' = calls
      BY DEF toggleDefenser, flow
    <3>4. CreatureLeaves => Alike /\ alters' = alters /\ calls' = calls
      BY DEF CreatureLeaves, flow
    <3>5. SourceLeaves => Alike /\ calls' = <<Call("update", FALSE)>>
      BY DEF SourceLeaves, flow
    <3>6. \A who, source, ids : GrantSkip(who, source, ids) =>
            Alike /\ calls' = <<Call("update", FALSE)>>
      BY DEF GrantSkip, flow
    <3>7. \A p : GrantTurn(p) => Alike /\ alters' = alters /\ calls' = calls
      BY DEF GrantTurn, flow
    <3>8. calls = <<>>
      BY <1>1 DEF Idle
    <3>. HIDE DEF Alike
    <3>9. \/ Request \/ clickOK
          \/ \E a : toggleAttacker(a)
          \/ \E a, b : toggleDefenser(b, a)
          \/ CreatureLeaves \/ SourceLeaves
          \/ \E who \in Players, source \in Sources, ids \in Skips : GrantSkip(who, source, ids)
          \/ \E p : GrantTurn(p)
      BY <1>4, Zenon DEF PlayersStep
    <3>. QED
      BY <3>1, <3>2, <3>3, <3>4, <3>5, <3>6, <3>7, <3>8, <3>9
  <2>2. ~Moving /\ ~Moving'
    <3>1. ~Moving
      BY <1>1 DEF Idle, Moving
    <3>2. PICK u, g : u = Call("update", FALSE) /\ g = Call("nextGamePhase", FALSE)
      OBVIOUS
    <3>3. calls' = <<>> \/ calls' = <<u, g>> \/ calls' = <<u>>
      BY <2>1, <3>2 DEF NextGamePhaseCalls
    <3>4. u.op = "update"
      BY <3>2 DEF Call
    <3>5. calls' # <<>> => Head(calls') = u
      BY <3>3
    <3>. QED
      BY <3>1, <3>4, <3>5 DEF Moving
  <2>3. InCombat' = InCombat
    BY <2>1, <2>2, InCombatSame
  <2>4. ~Heralds(eventsQueue, "COMBATEND")
    BY <1>1 DEF Idle, Heralds
  <2>5. CASE alters' = alters
    BY <2>1, <2>3, <2>4, <2>5, OwingSame
  <2>6. CASE SourceLeaves
    BY <2>1, <2>3, <2>6, SourceLeavesOwing
  <2>7. ASSUME NEW who, NEW source, NEW ids \in Skips, GrantSkip(who, source, ids)
        PROVE  Owing'
    BY <1>1, <2>1, <2>3, <2>7, GrantSkipOwing
  <2>. QED
    BY <2>1, <2>5, <2>6, <2>7
<1>. QED
  BY <1>2, <1>3, <1>4

LEMMA OwingIsKept ==
  ASSUME IInv, Ordered, Owing, [Next]_vars
  PROVE  Owing'
<1>1. CASE Advance
  BY <1>1, ForwardOwing, MoveOwing, LandedOwing, ArriveOwing, EnteredOwing, RecurseOwing,
     UpdateLayerOwing, PreChangeOwing, ChangeOwing, StepOwing, Zenon DEF Advance
<1>2. CASE PlayersStep
  BY <1>2, PlayersOwing
<1>3. CASE UNCHANGED vars
  <2>1. UNCHANGED <<turn, current, eventsQueue, calls, currentGamePhase, alters, currentPlayer>>
    BY <1>3 DEF vars, flow, ring
  <2>2. InCombat' = InCombat
    BY <2>1 DEF InCombat, Behind, Moving, Here, currentPhase
  <2>. QED
    BY <2>1, <2>2, OwingSame
<1>. QED
  BY <1>1, <1>2, <1>3, NextIs

\* At the end of the turn all that has been inserted lies behind.
LEMMA ExtrasLieBehind ==
  ASSUME IInv, Ordered, currentPhase = "ENDOFTURN"
  PROVE  \A i \in DOMAIN turn : turn[i].extra # 0 => i < current
<1>1. /\ Len(turn) \in Nat /\ current \in 1..Len(turn) /\ DOMAIN turn = 1..Len(turn)
      /\ \A i \in 1..Len(turn) : i # Len(turn) => turn[i + 1].id \in After(turn[i].id)
  BY ChainedIs DEF IInv, Typed, RingTyped
<1>m. PICK m \in Nat : m = Len(turn)
  BY <1>1
<1>c. PICK c \in 1..m : c = current
  BY <1>1, <1>m
<1>2. m = Len(turn) /\ c = current /\ c \in Nat /\ c > 0
  BY <1>m, <1>c
<1>. DEFINE Ended == {"ENDOFTURN", "CLEANUP", "AFTER_EOT"}
            T == {d \in Nat : c + d <= m => turn[c + d].id \in Ended}
<1>3. 0 \in T
  <2>1. c + 0 = c /\ turn[c].id \in Ended
    BY <1>2 DEF currentPhase
  <2>. QED
    BY <2>1
<1>4. ASSUME NEW d \in Nat, d \in T
      PROVE  d + 1 \in T
  <2>. SUFFICES ASSUME c + (d + 1) <= m PROVE turn[c + (d + 1)].id \in Ended
    OBVIOUS
  <2>1. PICK j \in 1..m : j = c + d /\ j # m /\ j + 1 = c + (d + 1) /\ j <= m
    BY <1>2
  <2>2. turn[j].id \in Ended
    BY <1>4, <2>1
  <2>3. turn[j + 1].id \in After(turn[j].id)
    BY <1>1, <1>2, <2>1
  <2>4. turn[j + 1].id \in Ended
    BY <2>2, <2>3 DEF After
  <2>. QED
    BY <2>1, <2>4
<1>. HIDE DEF T
<1>5. \A d \in Nat : d \in T
  BY <1>3, <1>4, InductionOnNat
<1>. SUFFICES ASSUME NEW i \in 1..m, turn[i].extra # 0, ~(i < c)
              PROVE  FALSE
  BY <1>1, <1>2
<1>6. turn[i].id \in ExtraPhases
  BY <1>1, <1>2 DEF Ordered, InOrder, Backed
<1>7. PICK d \in Nat : d = i - c
  OBVIOUS
<1>8. i = c + d /\ c + d <= m
  BY <1>7
<1>9. turn[i].id \in Ended
  <2>1. d \in T
    BY <1>5
  <2>. QED
    BY <1>8, <2>1 DEF T
<1>. QED
  BY <1>6, <1>9 DEF ExtraPhases

\* No combat is lost: at the end of a turn all that have been put into it have
\* been played, and no ability of a card still owes one to the player whose
\* turn it is, though the layers hear of the end of combat while the ring is
\* between two phases and the list grows under them.
THEOREM ExtrasArePlayedInTime == SkipsSpareCombat => (Spec => []ExtrasArePlayed)
<1>. SUFFICES ASSUME SkipsSpareCombat PROVE Spec => []ExtrasArePlayed
  OBVIOUS
<1>1. Init => IInv /\ Ordered /\ Owing
  <2>1. Init => Owing
    BY DEF Init, Owing
  <2>. QED
    BY <2>1, IInvAtFirst, OrderedAtFirst
<1>2. IInv /\ Ordered /\ Owing /\ [Next]_vars => IInv' /\ Ordered' /\ Owing'
  BY IInvIsKept, IInvIsLeft, OrderedIsKept, OwingIsKept
<1>3. IInv /\ Ordered /\ Owing => ExtrasArePlayed
  <2>. SUFFICES ASSUME IInv, Ordered, Owing, Idle, currentGamePhase = "ENDOFTURN"
                PROVE  /\ \A i \in DOMAIN turn : turn[i].extra # 0 => i < current
                       /\ \A n \in DOMAIN alters :
                            (alters[n].adding /\ alters[n].who = currentPlayer) => alters[n].applied
    BY Zenon DEF ExtrasArePlayed
  <2>1. currentPhase = "ENDOFTURN"
    BY DEF Idle, Arrived, Ordered, InRing
  <2>2. ~InCombat /\ ~Heralds(eventsQueue, "COMBATEND")
    BY DEF Idle, InCombat, Attack, Heralds
  <2>3. DOMAIN alters = 1..Len(alters)
    BY DEF IInv, Typed
  <2>. QED
    BY <2>1, <2>2, <2>3, ExtrasLieBehind DEF Owing, Owed
<1>. QED
  BY <1>1, <1>2, <1>3, PTL DEF Spec
================================================================================
