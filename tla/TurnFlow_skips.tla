---------------------------- MODULE TurnFlow_skips ----------------------------
(***************************************************************************)
(* What the cards that make a player skip phases do, proved on top of the  *)
(* invariants of TurnFlow_proofs: such a phase is not entered, and what is *)
(* meant for one turn is gone before the player's next.                    *)
(*                                                                         *)
(* The first invariant says which of the abilities have heard of the phase *)
(* to come, and what that tells of the list while the others are still to  *)
(* hear of it.  The second is about the end of such an effect: when it is  *)
(* applied, marked and dropped, against where the ring is in the turn.     *)
(***************************************************************************)
EXTENDS TurnFlow_proofs

-----------------------------------------------------------------------------
(* What the players skip. *)

\* No card makes a player skip one of these phases.
SkipsSpare(ids) == \A skipped \in Skips : \A i \in DOMAIN skipped : skipped[i] \notin ids

AltersSpare(ids) == \A n \in 1..Len(alters) : alters[n].id \notin ids

\* The point before a turn, of which nothing is warned.
Unannounced == {"BEFORE_BEGIN"}

\* None of the first k abilities makes the player whose turn it is skip a phase.
Spared(id, k) ==
  \A n \in 1..Len(alters) :
    (n <= k /\ ~alters[n].adding /\ alters[n].who = currentPlayer) => alters[n].id # id

\* While the list is as it was, those who have heard of the phase let it be;
\* once it is not, what is still heard takes it no nearer to its old length.
Heard(m, event) ==
  /\ IF event.to \in Kept THEN Len(turn) >= m.turnSteps ELSE Len(turn) <= m.turnSteps
  /\ Len(turn) = m.turnSteps => event.to = currentPhase /\ Spared(event.to, event.heard)

Asked(ops) == calls # <<>> /\ ~Head(calls).nested /\ Head(calls).op \in ops

\* The phase a player asked for is one that nobody makes the player skip.
Heeding ==
  /\ Asked({"move"}) =>
       IF eventsQueue = <<>>
       THEN Len(turn) = Head(calls).turnSteps => Spared(currentPhase, Len(alters))
       ELSE Heard(Head(calls), Head(eventsQueue))
  /\ Asked({"landed", "arrive"}) => Spared(currentPhase, Len(alters))

LEMMA HeedingNothing ==
  ASSUME ~Asked({"move", "landed", "arrive"})'
  PROVE  Heeding'
  BY DEF Heeding, Asked

LEMMA SparedSame ==
  ASSUME UNCHANGED <<alters, currentPlayer>>, NEW id, NEW k, Spared(id, k)
  PROVE  Spared(id, k)'
  BY DEF Spared

LEMMA ForwardHeeding ==
  ASSUME IInv, forward
  PROVE  Heeding'
<1>1. eventsQueue = <<>> /\ IsList(calls) /\ calls # <<>>
  BY ForwardIsAlone DEF forward, Runs
<1>2. PICK to : to = IF current < Len(turn) THEN current + 1 ELSE current
  OBVIOUS
<1>3. PICK e : e = [type |-> "PhasePreChange", from |-> currentPhase, to |-> turn[to].id, heard |-> 0]
  OBVIOUS
<1>4. PICK m : m = [op |-> "move", nested |-> Head(calls).nested, from |-> currentPhase,
                    turnSteps |-> Len(turn), notEnd |-> current < Len(turn)]
  OBVIOUS
<1>5. /\ current' = to /\ turn' = turn /\ calls' = <<m>> \o Tail(calls)
      /\ eventsQueue' = Append(eventsQueue, e)
      /\ UNCHANGED <<alters, currentPlayer>>
  BY <1>2, <1>3, <1>4 DEF forward, flow
<1>6. calls' # <<>> /\ Head(calls') = m
  BY <1>1, <1>5, TailIsList, LedBy
<1>7. eventsQueue' # <<>> /\ Head(eventsQueue') = e
  BY <1>1, <1>5
<1>8. m.turnSteps = Len(turn') /\ m.op = "move" /\ e.to = currentPhase' /\ e.heard = 0
  BY <1>3, <1>4, <1>5 DEF currentPhase
<1>9. Len(turn') \in Nat /\ Len(alters) \in Nat
  BY <1>5, ChainedIs DEF IInv, Typed, RingTyped
<1>10. Spared(e.to, e.heard)'
  BY <1>5, <1>8, <1>9 DEF Spared
<1>11. Heard(m, e)'
  BY <1>8, <1>9, <1>10 DEF Heard
<1>. QED
  BY <1>6, <1>7, <1>8, <1>11 DEF Heeding, Asked

LEMMA MoveHeeding ==
  ASSUME IInv, AltersSpare(Unannounced), Heeding, move
  PROVE  Heeding'
<1>1. PICK m : m = Head(calls)
  OBVIOUS
<1>2. calls # <<>> /\ m.op = "move" /\ (m.nested \/ eventsQueue = <<>>)
  BY <1>1 DEF move, Runs
<1>3. /\ ToMove /\ IsList(calls)
      /\ IF HurriesWarned THEN m.nested = TRUE ELSE Heading(m)
  BY <1>1, <1>2, SituationIs, MoveWhere
<1>4. UNCHANGED <<alters, currentPlayer>>
  BY DEF move, flow
<1>5. CASE ListChanged(m)
  <2>1. calls' = <<Call("forward", m.nested)>> \o Tail(calls)
    BY <1>1, <1>5 DEF move
  <2>2. Head(calls') = Call("forward", m.nested)
    BY <1>2, <1>3, <2>1, TailIsList, LedBy
  <2>3. Head(calls').op = "forward"
    BY <2>2 DEF Call
  <2>. QED
    BY <2>3, HeedingNothing DEF Asked
<1>6. CASE ~ListChanged(m) /\ HurriesWarned
  <2>1. PICK rest \in Rests : calls = <<calls[1], Land(TRUE, currentGamePhase)>> \o rest
    BY <1>6 DEF HurriesWarned
  <2>2. PICK c, l : c = calls[1] /\ l = Land(TRUE, currentGamePhase)
    OBVIOUS
  <2>3. l.nested = TRUE
    BY <2>2 DEF Land
  <2>4. PICK s : s = calls
    OBVIOUS
  <2>5. s = <<c, l>> \o rest /\ rest \in Rests
    BY <2>1, <2>2, <2>4
  <2>6. Tail(s) = <<l>> \o rest
    BY ONLY <2>5, LedByTwo
  <2>7. calls' = <<l>> \o rest
    BY <1>1, <1>6, <2>4, <2>6 DEF move
  <2>8. Head(calls') = l
    BY <2>7, RestsAreLists, LedBy
  <2>. QED
    BY <2>3, <2>8, HeedingNothing DEF Asked
<1>7. CASE ~ListChanged(m) /\ ~HurriesWarned
  <2>1. Heading(m) /\ ~m.nested /\ eventsQueue = <<>>
    BY <1>2, <1>3, <1>7 DEF Heading, IsMove
  <2>2. Spared(currentPhase, Len(alters))
    BY <1>1, <1>2, <1>7, <2>1 DEF Heeding, Asked, ListChanged
  <2>3. calls' = Tail(calls) /\ Moved(Here(m))
    BY <1>1, <1>7 DEF move, Here
  <2>4. /\ Len(turn) \in Nat /\ current \in 1..Len(turn)
    BY ChainedIs DEF IInv, Typed, RingTyped
  <2>5. Spared(currentPhase', Len(alters))
    <3>1. CASE m.notEnd
      <4>1. Here(m) = current - 1 /\ current > 1
        BY <2>1, <3>1 DEF Here, Heading
      <4>2. turn' = turn /\ current' = current
        BY <2>3, <2>4, <4>1 DEF Moved
      <4>. QED
        BY <2>2, <4>2 DEF currentPhase
    <3>2. CASE ~m.notEnd
      <4>1. Here(m) = Len(turn)
        BY <2>1, <3>2 DEF Here, Heading
      <4>2. turn' = GameTurn /\ current' = 1
        BY <2>3, <2>4, <4>1 DEF Moved
      <4>3. currentPhase' = "BEFORE_BEGIN"
        BY <4>2, GameTurnIs DEF currentPhase
      <4>. QED
        BY <4>3 DEF Spared, AltersSpare, Unannounced
    <3>. QED
      BY <3>1, <3>2
  <2>6. Spared(currentPhase, Len(alters))'
    BY <1>4, <2>5 DEF Spared
  <2>7. Tail(calls) # <<>> /\ MovesOn(Head(Tail(calls)).op)
    BY <1>3, MoveWhere
  <2>. QED
    BY <2>3, <2>6, <2>7 DEF Heeding, Asked, MovesOn
<1>. QED
  BY <1>5, <1>6, <1>7

LEMMA LandedHeeding ==
  ASSUME IInv, Heeding, landed
  PROVE  Heeding'
<1>1. PICK again, come, stay :
        /\ again = Call("forward", Head(calls).nested)
        /\ come = [op |-> "arrive", nested |-> Head(calls).nested, skip |-> TRUE]
        /\ stay = [come EXCEPT !.skip = FALSE]
  OBVIOUS
<1>2. again.op = "forward" /\ stay.op = "arrive" /\ stay.nested = Head(calls).nested
  BY <1>1 DEF Call
<1>3. /\ calls' = <<again, again, come>> \o Tail(calls) \/ calls' = <<stay>> \o Tail(calls)
      /\ UNCHANGED ring /\ UNCHANGED <<alters, currentPlayer>>
  BY <1>1 DEF landed, flow
<1>4. IsList(Tail(calls))
  BY SituationIs, TailIsList DEF landed, Runs
<1>5. calls' # <<>> /\ Head(calls') \in {again, stay}
  BY <1>3, <1>4, LedBy
<1>6. Asked({"move", "landed", "arrive"})' => Asked({"landed", "arrive"}) /\ ~Asked({"move"})'
  BY <1>2, <1>5 DEF Asked, landed, Runs
<1>7. currentPhase' = currentPhase
  BY <1>3 DEF currentPhase, ring
<1>8. Spared(currentPhase, Len(alters)) => Spared(currentPhase, Len(alters))'
  BY <1>3, <1>7 DEF Spared
<1>. QED
  BY <1>6, <1>8 DEF Heeding, Asked

LEMMA ArriveHeeding ==
  ASSUME IInv, arrive
  PROVE  Heeding'
<1>1. PICK x : x = Call("entered", Head(calls).nested)
  OBVIOUS
<1>2. x.op = "entered"
  BY <1>1 DEF Call
<1>3. calls' = <<x>> \o Tail(calls)
  BY <1>1 DEF arrive
<1>4. IsList(Tail(calls))
  BY SituationIs, TailIsList DEF arrive, Runs
<1>5. calls' # <<>> /\ Head(calls') = x
  BY <1>3, <1>4, LedBy
<1>. QED
  BY <1>2, <1>5, HeedingNothing DEF Asked

\* A phase that has been entered is left behind.
LEMMA RestingHeeding ==
  ASSUME IInv, entered \/ recurse \/ UpdateLayer
  PROVE  Heeding'
<1>1. calls # <<>> /\ Head(calls).op \in {"entered", "nextGamePhase", "update"}
  BY DEF entered, recurse, UpdateLayer, Runs
<1>2. ToRest
  BY <1>1, SituationIs DEF Arrived
<1>3. /\ IsList(Tail(calls))
      /\ Tail(calls) # <<>> => Head(Tail(calls)).op \in {"entered", "nextGamePhase"}
  BY <1>1, <1>2, BehindArrival
<1>4. PICK x, f, l : /\ x = Call("nextGamePhase", Head(calls).nested)
                     /\ f = Call("forward", Head(calls).nested)
                     /\ l = [op |-> "landed", nested |-> Head(calls).nested, from |-> currentPhase]
  OBVIOUS
<1>5. x.op = "nextGamePhase" /\ f.op = "forward"
  BY <1>4 DEF Call
<1>6. \/ calls' = Tail(calls) \/ calls' = <<x>> \o Tail(calls)
      \/ calls' = <<f, l>> \o Tail(calls)
  BY <1>4 DEF entered, recurse, UpdateLayer, nextGamePhase
<1>7. calls' # <<>> => Head(calls').op \in {"entered", "nextGamePhase", "forward"}
  <2>1. CASE calls' = Tail(calls)
    BY <1>3, <2>1
  <2>2. CASE calls' = <<x>> \o Tail(calls)
    <3>1. Head(calls') = x
      BY <1>3, <2>2, LedBy
    <3>. QED
      BY <1>5, <3>1
  <2>3. CASE calls' = <<f, l>> \o Tail(calls)
    <3>1. Head(calls') = f
      BY <1>3, <2>3, LedBy
    <3>. QED
      BY <1>5, <3>1
  <2>. QED
    BY <1>6, <2>1, <2>2, <2>3
<1>. QED
  BY <1>7, HeedingNothing DEF Asked

\* The list is the shorter by one for each phase that is taken out.
LEMMA TakenOutShortens ==
  ASSUME RingTyped, NEW id, id \notin Kept, removePhase(id)
  PROVE  (UNCHANGED ring /\ IndexOf(id) = 0) \/ Len(turn') < Len(turn)
<1>1. PICK m \in Nat : m = Len(turn)
  BY ChainedIs DEF RingTyped
<1>2. CASE IndexOf(id) = 0
  BY <1>2 DEF removePhase
<1>3. CASE IndexOf(id) # 0
  <2>1. PICK at \in 1..m : at = IndexOf(id)
    BY <1>1, <1>3, IndexOfIs
  <2>2. turn' = RemoveAt(turn, at)
    BY <1>3, <2>1, Zenon DEF removePhase
  <2>3. turn \in Seq(Phases) /\ m - 1 \in Nat /\ (m - 1) + 1 = Len(turn) /\ at \in 1..Len(turn)
    BY <1>1, <2>1 DEF RingTyped, Chained
  <2>4. Len(turn') = m - 1
    BY <2>2, <2>3, RemoveAtIs, Zenon
  <2>. QED
    BY <1>1, <2>4
<1>. QED
  BY <1>2, <1>3

\* The ability is about this phase, and takes it out.
Removes(n, to) == ~alters[n].adding /\ alters[n].who = currentPlayer /\ alters[n].id = to

LEMMA LengthAltered ==
  ASSUME RingTyped, alters \in Seq(Sparing), NEW n \in 1..Len(alters), NEW to,
         PhaseAltered(n, to), to = "COMBATEND" => \E i \in 1..current : turn[i].id = "COMBATEND"
  PROVE  \/ UNCHANGED ring /\ (Removes(n, to) => IndexOf(to) = 0)
         \/ to \in Kept /\ Len(turn') > Len(turn)
         \/ to \notin Kept /\ Len(turn') < Len(turn)
<1>1. PICK a : a = alters[n]
  OBVIOUS
<1>2. IF a.adding THEN a.id = "COMBATEND" ELSE a.id \notin Kept
  BY <1>1 DEF Sparing
<1>. DEFINE his == a.who = currentPlayer
            adds == a.adding /\ ~a.applied /\ to = a.id /\ his
            removes == ~a.adding /\ to = a.id /\ his
<1>3. /\ CASE adds    -> addCombatAfter(a.id, FALSE)
           [] removes -> removePhase(a.id)
           [] OTHER   -> UNCHANGED ring
  BY <1>1, Zenon DEF PhaseAltered
<1>4. /\ adds => addCombatAfter(a.id, FALSE)
      /\ removes => removePhase(a.id)
      /\ (~adds /\ ~removes) => UNCHANGED ring
  <2>1. adds => ~removes
    OBVIOUS
  <2>. HIDE DEF adds, removes
  <2>. QED
    BY <1>3, <2>1
<1>5. CASE adds
  <2>1. to = "COMBATEND" /\ a.id = to /\ \E i \in 1..current : turn[i].id = to
    BY <1>2, <1>5
  <2>2. Extends(to, FALSE) /\ addCombatAfter(to, FALSE) /\ Chained(turn) /\ current \in 1..Len(turn)
    BY <1>4, <1>5, <2>1 DEF Extends, RingTyped
  <2>3. PICK m \in Nat, at \in Nat, k \in Nat, extra \in Nat : at \in 1..m /\
          \E added : PutIn(to, m, at, k, extra, added)
    BY <2>1, <2>2, ExtraCombatPut, Zenon
  <2>4. m = Len(turn) /\ k >= 5 /\ Len(turn') = m + k
    BY <2>3 DEF PutIn
  <2>5. Len(turn') > Len(turn)
    BY <2>3, <2>4
  <2>. QED
    BY <2>1, <2>5 DEF Kept
<1>6. CASE removes
  <2>1. to \notin Kept /\ removePhase(to)
    BY <1>2, <1>4, <1>6
  <2>. QED
    BY <2>1, TakenOutShortens
<1>7. CASE ~adds /\ ~removes
  <2>1. ~Removes(n, to)
    BY <1>1, <1>7 DEF Removes
  <2>. QED
    BY <1>4, <1>7, <2>1
<1>. QED
  BY <1>5, <1>6, <1>7

\* A mark leaves what an ability is about.
LEMMA MarkedKeeps ==
  ASSUME alters \in Seq(Sparing), NEW n \in 1..Len(alters), NEW to, PhaseAltered(n, to)
  PROVE  /\ Len(alters') = Len(alters)
         /\ \A k \in 1..Len(alters) :
              /\ alters'[k].id = alters[k].id /\ alters'[k].who = alters[k].who
              /\ alters'[k].adding = alters[k].adding
<1>1. PICK a : a = alters[n]
  OBVIOUS
<1>2. \A k \in 1..Len(alters) : alters[k] \in Alterations
  BY DEF Sparing
<1>. DEFINE his == a.who = currentPlayer
            found == IndexOf(a.id) # 0
            ended == to = "CLEANUP" /\ a.next /\ a.applied /\ ~his
            adds == a.adding /\ ~a.applied /\ to = a.id /\ his
            removes == ~a.adding /\ to = a.id /\ his
            x == a.applied \/ ((adds \/ removes) /\ found)
            y == a.done \/ ended
<1>3. alters' = [alters EXCEPT ![n].applied = x, ![n].done = y]
  BY <1>1, Zenon DEF PhaseAltered
<1>. HIDE DEF x, y
<1>4. PICK b : b = [a EXCEPT !.applied = x, !.done = y]
  OBVIOUS
<1>5. b.adding = a.adding /\ b.who = a.who /\ b.id = a.id
  BY <1>1, <1>2, <1>4 DEF Alterations
<1>6. alters' = [alters EXCEPT ![n] = b]
  BY <1>1, <1>3, <1>4
<1>7. Len(alters') = Len(alters) /\ \A k \in 1..Len(alters) : alters'[k] = IF k = n THEN b ELSE alters[k]
  BY <1>6
<1>. QED
  BY <1>1, <1>5, <1>7

LEMMA PreChangeHeeding ==
  ASSUME IInv, Heeding, HearPreChange
  PROVE  Heeding'
<1>1. Delivers("PhasePreChange") /\ calls' = calls /\ UNCHANGED currentPlayer /\ eventsQueue # <<>>
  BY DEF HearPreChange, Delivers
<1>2. PICK e : e = Head(eventsQueue)
  OBVIOUS
<1>3. /\ IsPreChange(e)
      /\ e.to = "COMBATEND" => \E i \in 1..current : turn[i].id = "COMBATEND"
  BY <1>1, <1>2, WarningIs
<1>4. /\ RingTyped /\ alters \in Seq(Sparing) /\ Len(alters) \in Nat
      /\ Len(turn) \in Nat /\ current \in 1..Len(turn)
  BY ChainedIs DEF IInv, Typed, RingTyped
<1>5. PICK n \in Nat : n = e.heard + 1 /\ n > 0 /\ e.heard \in Nat
  BY <1>3 DEF IsPreChange
<1>6. CASE HurriedToDamage \/ EndWarned
  <2>1. calls # <<>> => Head(calls).op = "entered"
    <3>1. PICK x, y : x = Enter /\ y = Call("entered", TRUE)
      OBVIOUS
    <3>2. x.op = "entered" /\ y.op = "entered"
      BY <3>1 DEF Enter, Call
    <3>3. calls = <<>> \/ calls = <<x>> \/ calls = <<y>>
      BY <1>6, <3>1 DEF HurriedToDamage, EndWarned, Rests
    <3>. QED
      BY <3>2, <3>3
  <2>. QED
    BY <1>1, <2>1, HeedingNothing DEF Asked
<1>7. CASE Warned \/ SkipsBlockersWarned \/ SkipsDamageWarned
  <2>1. ToMove
    BY <1>7 DEF ToMove
  <2>2. calls # <<>> /\ Head(calls).op = "move" /\ ~Head(calls).nested
    BY <1>1, <2>1, MoveWhere DEF Delivers
  <2>3. PICK m : m = Head(calls)
    OBVIOUS
  <2>4. Heading(m) /\ m.turnSteps \in Nat
    BY <2>1, <2>2, <2>3, MoveWhere DEF Heading, IsMove
  <2>5. eventsQueue = <<e>>
    BY <1>1, <1>2, <2>4 DEF Heading
  <2>6. Heard(m, e)
    BY <1>1, <1>2, <2>2, <2>3 DEF Heeding, Asked
  <2>7. CASE n > Len(alters)
    <3>1. UNCHANGED ring /\ alters' = alters /\ eventsQueue' = <<>>
      BY <1>2, <1>5, <2>5, <2>7 DEF HearPreChange
    <3>2. turn' = turn /\ currentPhase' = currentPhase
      BY <3>1 DEF ring, currentPhase
    <3>3. Len(turn) = m.turnSteps => Spared(currentPhase, Len(alters))
      BY <1>4, <1>5, <2>6, <2>7 DEF Heard, Spared
    <3>4. (Len(turn) = m.turnSteps => Spared(currentPhase, Len(alters)))'
      BY <1>1, <3>1, <3>2, <3>3 DEF Spared
    <3>. QED
      BY <1>1, <2>2, <2>3, <3>1, <3>4 DEF Heeding, Asked
  <2>8. CASE ~(n > Len(alters))
    <3>1. PhaseAltered(n, e.to) /\ eventsQueue' = [eventsQueue EXCEPT ![1].heard = n] /\ n \in 1..Len(alters)
      BY <1>2, <1>4, <1>5, <2>8 DEF HearPreChange
    <3>2. PICK to : to = e.to
      OBVIOUS
    <3>3. PhaseAltered(n, to) /\ (to = "COMBATEND" => \E i \in 1..current : turn[i].id = "COMBATEND")
      BY <1>3, <3>1, <3>2
    <3>4. PICK g : g = [e EXCEPT !.heard = n]
      OBVIOUS
    <3>5. g.to = to /\ g.heard = n
      BY <1>3, <3>2, <3>4 DEF IsPreChange
    <3>6. eventsQueue' # <<>> /\ Head(eventsQueue') = g
      BY <2>5, <3>1, <3>4
    <3>7. /\ Len(alters') = Len(alters)
          /\ \A k \in 1..Len(alters) :
               /\ alters'[k].id = alters[k].id /\ alters'[k].who = alters[k].who
               /\ alters'[k].adding = alters[k].adding
      BY <1>4, <3>1, <3>3, MarkedKeeps, Zenon
    <3>8. Len(turn') \in Nat
      <4>1. RingTyped'
        BY <1>4, <3>1, <3>3, AlteringIs
      <4>. QED
        BY <4>1, ChainedIs DEF RingTyped
    <3>9. Heard(m, g)'
      <4>1. CASE UNCHANGED ring /\ (Removes(n, to) => IndexOf(to) = 0)
        <5>1. turn' = turn /\ currentPhase' = currentPhase
          BY <4>1 DEF ring, currentPhase
        <5>2. ASSUME Len(turn) = m.turnSteps
              PROVE  to = currentPhase /\ Spared(to, n)'
          <6>1. to = currentPhase /\ Spared(to, e.heard)
            BY <2>6, <3>2, <5>2 DEF Heard
          <6>2. IndexOf(to) # 0
            <7>1. \E i \in 1..Len(turn) : turn[i].id = to
              BY <1>4, <6>1 DEF currentPhase
            <7>. QED
              BY <1>4, <7>1, IndexOfIs
          <6>3. ~Removes(n, to)
            BY <4>1, <6>2
          <6>4. \A k \in 1..Len(alters) : k <= n => k <= e.heard \/ k = n
            BY <1>5
          <6>. QED
            BY <1>1, <3>7, <6>1, <6>3, <6>4 DEF Spared, Removes
        <5>. QED
          BY <2>6, <3>2, <3>5, <5>1, <5>2 DEF Heard
      <4>2. CASE to \in Kept /\ Len(turn') > Len(turn)
        <5>1. Len(turn) >= m.turnSteps
          BY <2>6, <3>2, <4>2 DEF Heard
        <5>2. Len(turn') > m.turnSteps
          BY <1>4, <2>4, <3>8, <4>2, <5>1
        <5>. QED
          BY <2>4, <3>5, <3>8, <4>2, <5>2 DEF Heard
      <4>3. CASE to \notin Kept /\ Len(turn') < Len(turn)
        <5>1. Len(turn) <= m.turnSteps
          BY <2>6, <3>2, <4>3 DEF Heard
        <5>2. Len(turn') < m.turnSteps
          BY <1>4, <2>4, <3>8, <4>3, <5>1
        <5>. QED
          BY <2>4, <3>5, <3>8, <4>3, <5>2 DEF Heard
      <4>. QED
        BY <1>4, <3>1, <3>3, <4>1, <4>2, <4>3, LengthAltered
    <3>. QED
      BY <1>1, <2>2, <2>3, <3>6, <3>9 DEF Heeding, Asked
  <2>. QED
    BY <2>7, <2>8
<1>. QED
  BY <1>1, <1>6, <1>7, HeraldWhere

LEMMA ChangeHeeding ==
  ASSUME IInv, Heeding, HearPhaseChange
  PROVE  Heeding'
<1>1. /\ Delivers("PhaseChange") /\ calls' = calls
      /\ UNCHANGED ring /\ UNCHANGED <<alters, currentPlayer>>
  BY DEF HearPhaseChange, flow
<1>2. ~Asked({"move"})
  <2>. SUFFICES ASSUME Asked({"move"}) PROVE FALSE
    OBVIOUS
  <2>1. ToMove
    BY SituationIs DEF Asked
  <2>2. Heading(Head(calls))
    BY <2>1, MoveWhere DEF Asked
  <2>3. eventsQueue # <<>> /\ Head(eventsQueue).type = "PhaseChange"
    BY <1>1 DEF Delivers
  <2>. QED
    BY <2>2, <2>3 DEF Heading, Warns, IsPreChange
<1>3. currentPhase' = currentPhase
  BY <1>1 DEF ring, currentPhase
<1>4. Spared(currentPhase, Len(alters)) => Spared(currentPhase, Len(alters))'
  BY <1>1, <1>3 DEF Spared
<1>. QED
  BY <1>1, <1>2, <1>4 DEF Heeding, Asked

LEMMA StepHeeding ==
  ASSUME IInv, HearCombatStep
  PROVE  Heeding'
<1>1. Delivers("CombatStepChange")
  BY DEF HearCombatStep
<1>2. Stepping /\ calls \in Rests /\ IsList(calls)
  BY <1>1, StepWhere, RestsAreLists DEF Stepping
<1>3. PICK f, l : f = Call("forward", TRUE) /\ l = [op |-> "landed", nested |-> TRUE, from |-> currentPhase]
  OBVIOUS
<1>4. calls' = calls \/ calls' = <<f, l>> \o calls
  <2>1. PICK h \in BOOLEAN : h = human
    <3>1. human \in BOOLEAN
      BY DEF human
    <3>. QED
      BY <3>1
  <2>2. PICK asks : asks = RequestAfter(combatStep, h)
    OBVIOUS
  <2>3. asks \in {"nothing", "nextCombatStep", "userRequestNextGamePhase"}
    BY <1>2, <2>1, <2>2, StepAsks DEF Requests, Stepping
  <2>4. Head(eventsQueue).step = combatStep
    BY <1>2 DEF Stepping, StepChange
  <2>5. /\ CASE asks = "nothing" ->
                  eventsQueue' = Tail(eventsQueue) /\ UNCHANGED <<combatStep, calls>>
             [] asks = "nextCombatStep" ->
                  nextCombatStep(Tail(eventsQueue)) /\ UNCHANGED calls
             [] asks = "userRequestNextGamePhase" ->
                  nextGamePhase(TRUE, calls, Tail(eventsQueue))
    BY <2>1, <2>2, <2>4, Zenon DEF HearCombatStep
  <2>6. calls' = calls \/ nextGamePhase(TRUE, calls, Tail(eventsQueue))
    BY <2>3, <2>5
  <2>. QED
    BY <1>3, <2>6 DEF nextGamePhase
<1>5. calls # <<>> => Head(calls).op = "entered"
  <2>1. PICK x : x = Enter
    OBVIOUS
  <2>2. x.op = "entered"
    BY <2>1 DEF Enter, Call
  <2>3. calls = <<>> \/ calls = <<x>>
    BY <1>2, <2>1 DEF Rests
  <2>. QED
    BY <2>2, <2>3
<1>6. Head(<<f, l>> \o calls) = f /\ f.op = "forward"
  BY <1>2, <1>3, LedBy DEF Call
<1>. QED
  BY <1>4, <1>5, <1>6, HeedingNothing DEF Asked

LEMMA PlayersHeeding ==
  ASSUME IInv, PlayersStep
  PROVE  Heeding'
<1>1. calls = <<>>
  BY PlayersWait DEF Idle
<1>2. calls' \in {<<>>, NextGamePhaseCalls, <<Call("update", FALSE)>>}
  <2>1. Request \/ clickOK => calls' \in {<<>>, NextGamePhaseCalls}
    BY DEF Request, clickOK
  <2>2. /\ \A a : toggleAttacker(a) => calls' = calls
        /\ \A a, b : toggleDefenser(b, a) => calls' = calls
        /\ CreatureLeaves \/ GrantCombatPhase \/ GrantCombatAfterMain => calls' = calls
        /\ \A p : GrantTurn(p) => calls' = calls
    BY DEF toggleAttacker, toggleDefenser, CreatureLeaves, GrantCombatPhase, GrantCombatAfterMain, GrantTurn
  <2>3. /\ SourceLeaves => calls' = <<Call("update", FALSE)>>
        /\ \A who, source, ids : GrantSkip(who, source, ids) => calls' = <<Call("update", FALSE)>>
    BY DEF SourceLeaves, GrantSkip
  <2>4. \/ Request \/ clickOK
        \/ \E a : toggleAttacker(a)
        \/ \E a, b : toggleDefenser(b, a)
        \/ CreatureLeaves \/ GrantCombatPhase \/ GrantCombatAfterMain \/ SourceLeaves
        \/ \E who, source, ids : GrantSkip(who, source, ids)
        \/ \E p : GrantTurn(p)
    BY Zenon DEF PlayersStep
  <2>. QED
    BY <1>1, <2>1, <2>2, <2>3, <2>4
<1>3. PICK u, g : u = Call("update", FALSE) /\ g = Call("nextGamePhase", FALSE)
  OBVIOUS
<1>4. calls' = <<>> \/ calls' = <<u, g>> \/ calls' = <<u>>
  BY <1>2, <1>3 DEF NextGamePhaseCalls
<1>5. u.op = "update"
  BY <1>3 DEF Call
<1>6. calls' # <<>> => Head(calls').op = "update"
  BY <1>4, <1>5
<1>. QED
  BY <1>6, HeedingNothing DEF Asked

LEMMA HeedingIsKept ==
  ASSUME IInv, AltersSpare(Unannounced), Heeding, [Next]_vars
  PROVE  Heeding'
<1>1. CASE Advance
  BY <1>1, ForwardHeeding, MoveHeeding, LandedHeeding, ArriveHeeding, RestingHeeding,
     PreChangeHeeding, ChangeHeeding, StepHeeding, Zenon DEF Advance
<1>2. CASE PlayersStep
  BY <1>2, PlayersHeeding
<1>3. CASE UNCHANGED vars
  <2>1. UNCHANGED <<turn, current, eventsQueue, calls, alters, currentPlayer>>
    BY <1>3 DEF vars, flow, ring
  <2>2. UNCHANGED currentPhase
    BY <2>1 DEF currentPhase
  <2>. QED
    BY <2>1, <2>2 DEF Heeding, Asked, Heard, Spared
<1>. QED
  BY <1>1, <1>2, <1>3, NextIs

\* What the abilities are about.
LEMMA LivingSpares ==
  ASSUME alters \in Seq(Sparing), NEW X, AltersSpare(X), alters' = Living
  PROVE  AltersSpare(X)'
<1>. DEFINE S == {a \in Sparing : a.id \notin X}
<1>1. alters \in Seq(S)
  <2>1. Len(alters) \in Nat /\ \A n \in 1..Len(alters) : alters[n] \in S
    BY DEF AltersSpare
  <2>2. DOMAIN alters = 1..Len(alters) /\ alters = [n \in 1..Len(alters) |-> alters[n]]
    OBVIOUS
  <2>. HIDE DEF S
  <2>3. alters \in [1..Len(alters) -> S]
    BY <2>1, <2>2
  <2>. QED
    BY <2>1, <2>3
<1>. HIDE DEF S
<1>2. alters' \in Seq(S)
  BY <1>1, AmongIsTyped DEF Living
<1>3. \A n \in 1..Len(alters') : alters'[n] \in S
  BY <1>2
<1>. QED
  BY <1>3 DEF S, AltersSpare

LEMMA GrantSkipSpares ==
  ASSUME NEW X, SkipsSpare(X), alters \in Seq(Sparing), AltersSpare(X),
         NEW who, NEW source, NEW ids \in Skips, GrantSkip(who, source, ids)
  PROVE  AltersSpare(X)'
<1>1. PICK added : added = [i \in DOMAIN ids |-> Altering(ids[i], who, FALSE, source)]
  OBVIOUS
<1>2. alters' = alters \o added
  BY <1>1 DEF GrantSkip
<1>3. ids \in Seq(PhaseIds)
  BY FlowAssumption
<1>4. PICK k \in Nat : k = Len(ids) /\ DOMAIN ids = 1..k
  BY <1>3
<1>5. \A i \in 1..k : added[i].id \notin X
  BY <1>1, <1>4 DEF Altering, SkipsSpare
<1>6. PICK S : S = Sparing \cup {added[i] : i \in 1..k}
  OBVIOUS
<1>7. added \in Seq(S) /\ Len(added) = k
  <2>1. added \in [1..k -> S]
    BY <1>1, <1>4, <1>6
  <2>. QED
    BY <2>1
<1>8. alters \in Seq(S)
  BY <1>6
<1>9. PICK m \in Nat : m = Len(alters)
  BY <1>8
<1>10. /\ Len(alters') = m + k
       /\ \A i \in 1..(m + k) : alters'[i] = IF i <= m THEN alters[i] ELSE added[i - m]
  BY <1>2, <1>7, <1>8, <1>9, ConcatProperties
<1>11. ASSUME NEW j \in 1..(m + k)
       PROVE  alters'[j].id \notin X
  <2>1. CASE j <= m
    <3>1. j \in 1..m /\ alters'[j] = alters[j]
      BY <1>10, <2>1
    <3>. QED
      BY <1>9, <3>1 DEF AltersSpare
  <2>2. CASE ~(j <= m)
    <3>1. j - m \in 1..k /\ alters'[j] = added[j - m]
      BY <1>10, <2>2
    <3>. QED
      BY <1>5, <3>1
  <2>. QED
    BY <2>1, <2>2
<1>. QED
  BY <1>10, <1>11 DEF AltersSpare

LEMMA AltersStillSpare ==
  ASSUME NEW X, "COMBATEND" \notin X, SkipsSpare(X), IInv, AltersSpare(X), [Next]_vars
  PROVE  AltersSpare(X)'
<1>1. alters \in Seq(Sparing) /\ Len(alters) \in Nat /\ DOMAIN alters = 1..Len(alters)
  BY DEF IInv, Typed
<1>2. CASE alters' = alters
  BY <1>2 DEF AltersSpare
<1>3. CASE alters' = Living
  BY <1>1, <1>3, LivingSpares
<1>4. CASE HearPreChange
  <2>1. PICK e : e = Head(eventsQueue)
    OBVIOUS
  <2>2. IsPreChange(e)
    BY <1>4, <2>1, WarningIs DEF HearPreChange
  <2>3. PICK n \in Nat : n = e.heard + 1 /\ n > 0
    BY <2>2 DEF IsPreChange
  <2>4. CASE ~(n > Len(alters))
    <3>1. n \in 1..Len(alters) /\ PhaseAltered(n, e.to)
      BY <1>1, <1>4, <2>1, <2>3, <2>4 DEF HearPreChange
    <3>2. PICK to : to = e.to
      OBVIOUS
    <3>3. PhaseAltered(n, to)
      BY <3>1, <3>2
    <3>4. /\ Len(alters') = Len(alters)
          /\ \A k \in 1..Len(alters) : alters'[k].id = alters[k].id
      BY <1>1, <3>1, <3>3, MarkedKeeps, Zenon
    <3>. QED
      BY <3>4 DEF AltersSpare
  <2>5. CASE n > Len(alters)
    BY <1>2, <1>4, <2>1, <2>3, <2>5 DEF HearPreChange
  <2>. QED
    BY <2>4, <2>5
<1>5. ASSUME NEW who, NEW source, NEW ids \in Skips, GrantSkip(who, source, ids)
      PROVE  AltersSpare(X)'
  BY <1>1, <1>5, GrantSkipSpares
<1>6. CASE GrantCombatPhase
  <2>1. PICK a : a = Altering("COMBATEND", currentPlayer, TRUE, "permanent")
    OBVIOUS
  <2>2. alters' = Append(alters, a) /\ a.id = "COMBATEND"
    BY <1>6, <2>1 DEF GrantCombatPhase, Altering
  <2>3. PICK S : S = Sparing \cup {a}
    OBVIOUS
  <2>4. alters \in Seq(S) /\ a \in S
    BY <1>1, <2>3
  <2>5. PICK m \in Nat : m = Len(alters)
    BY <1>1
  <2>6. Len(alters') = m + 1 /\ \A i \in 1..(m + 1) : alters'[i] = IF i = m + 1 THEN a ELSE alters[i]
    BY <2>2, <2>4, <2>5
  <2>7. \A i \in 1..(m + 1) : i # m + 1 => i \in 1..m
    OBVIOUS
  <2>8. \A i \in 1..(m + 1) : alters'[i].id \notin X
    BY <2>2, <2>5, <2>6, <2>7 DEF AltersSpare
  <2>. QED
    BY <2>6, <2>8 DEF AltersSpare
<1>7. CASE SourceLeaves
  <2>1. PICK k : alters' = [n \in DOMAIN alters |->
                              IF alters[n].card = k THEN [alters[n] EXCEPT !.inPlay = FALSE]
                              ELSE alters[n]]
    BY <1>7 DEF SourceLeaves
  <2>2. \A a \in Sparing : [a EXCEPT !.inPlay = FALSE].id = a.id
    BY DEF Sparing, Alterations
  <2>3. Len(alters') = Len(alters) /\ \A n \in 1..Len(alters) : alters[n] \in Sparing
    BY <1>1, <2>1
  <2>4. \A n \in 1..Len(alters) : alters'[n].id = alters[n].id
    BY <1>1, <2>1, <2>2, <2>3
  <2>. QED
    BY <2>3, <2>4 DEF AltersSpare
<1>8. CASE Advance
  <2>1. forward \/ move \/ landed \/ arrive \/ recurse \/ HearPhaseChange \/ HearCombatStep => alters' = alters
    BY DEF forward, move, landed, arrive, recurse, HearPhaseChange, HearCombatStep
  <2>2. entered \/ UpdateLayer => alters' = alters \/ alters' = Living
    BY DEF entered, UpdateLayer
  <2>. QED
    BY <1>2, <1>3, <1>4, <1>8, <2>1, <2>2 DEF Advance
<1>9. CASE PlayersStep
  <2>1. /\ Request \/ clickOK \/ CreatureLeaves \/ GrantCombatAfterMain => alters' = alters
        /\ \A a : toggleAttacker(a) => alters' = alters
        /\ \A a, b : toggleDefenser(b, a) => alters' = alters
        /\ \A p : GrantTurn(p) => alters' = alters
    BY DEF Request, clickOK, CreatureLeaves, GrantCombatAfterMain, toggleAttacker, toggleDefenser, GrantTurn
  <2>2. \/ Request \/ clickOK
        \/ \E a : toggleAttacker(a)
        \/ \E a, b : toggleDefenser(b, a)
        \/ CreatureLeaves \/ GrantCombatPhase \/ GrantCombatAfterMain \/ SourceLeaves
        \/ \E who, source : \E ids \in Skips : GrantSkip(who, source, ids)
        \/ \E p : GrantTurn(p)
    BY <1>9, Zenon DEF PlayersStep
  <2>. QED
    BY <1>2, <1>5, <1>6, <1>7, <2>1, <2>2
<1>10. CASE UNCHANGED vars
  BY <1>2, <1>10 DEF vars
<1>. QED
  BY <1>8, <1>9, <1>10, NextIs

\* A phase that an effect makes the player skip is not entered, if the player
\* asks for it: each ability warned of it has taken it out of the list, and a
\* list that has changed under the ring makes it look again.  No card may name
\* the point before a turn, to which the ring comes unannounced.
THEOREM SkipsAreHeeded == SkipsSpareCombat /\ SkipsSpare(Unannounced) => (Spec => SkipsAreObserved)
<1>. SUFFICES ASSUME SkipsSpareCombat, SkipsSpare(Unannounced) PROVE Spec => SkipsAreObserved
  OBVIOUS
<1>. DEFINE Safely == (Landing /\ arrive /\ ~Head(calls).nested) =>
                        \A n \in DOMAIN alters :
                          (~alters[n].adding /\ alters[n].who = currentPlayer) =>
                            alters[n].id # currentGamePhase'
<1>1. Init => IInv /\ AltersSpare(Unannounced) /\ Heeding
  <2>1. Init => AltersSpare(Unannounced) /\ Heeding
    BY DEF Init, AltersSpare, Heeding, Asked
  <2>. QED
    BY <2>1, IInvAtFirst
<1>2. IInv /\ AltersSpare(Unannounced) /\ Heeding /\ [Next]_vars => IInv' /\ AltersSpare(Unannounced)' /\ Heeding'
  BY IInvIsKept, IInvIsLeft, HeedingIsKept, AltersStillSpare DEF Unannounced
<1>3. IInv /\ Heeding => Safely
  <2>. SUFFICES ASSUME IInv, Heeding, Landing, arrive, ~Head(calls).nested
                PROVE  \A n \in DOMAIN alters :
                         (~alters[n].adding /\ alters[n].who = currentPlayer) =>
                           alters[n].id # currentGamePhase'
    OBVIOUS
  <2>1. Len(alters) \in Nat /\ DOMAIN alters = 1..Len(alters)
    BY DEF IInv, Typed
  <2>2. Spared(currentPhase, Len(alters)) /\ currentGamePhase' = currentPhase
    BY DEF Landing, Heeding, Asked, arrive
  <2>. QED
    BY <2>1, <2>2 DEF Spared
<1>. QED
  BY <1>1, <1>2, <1>3, PTL DEF Spec, SkipsAreObserved

-----------------------------------------------------------------------------
(* A skip lasts for one turn. *)

\* Nothing ends a turn but its cleanup.
Closed ==
  \A i \in 1..(Len(turn) - 1) : turn[i + 1].id = "AFTER_EOT" => turn[i].id = "CLEANUP"

\* d phases from the one the cursor is on, or later, an untap step comes.
UntapAhead(d) == \E i \in 1..Len(turn) : i >= current + d /\ turn[i].id = "UNTAP"

\* There is one untap step, at the beginning of the turn.
LEMMA UntapIsEarly ==
  ASSUME NEW t, Chained(t), NEW i \in 1..Len(t), t[i].id = "UNTAP"
  PROVE  i = 1 \/ (i = 2 /\ t[1].id = "BEFORE_BEGIN")
<1>1. PICK m \in Nat : m = Len(t)
  BY ChainedIs
<1>2. \A j \in 1..m : j # m => t[j + 1].id \in After(t[j].id)
  BY <1>1, ChainedIs
<1>3. \A x : "UNTAP" \in After(x) => x = "BEFORE_BEGIN"
  BY DEF After
<1>4. \A x : "BEFORE_BEGIN" \notin After(x)
  BY DEF After
<1>5. \A j \in 1..m : j > 1 => j - 1 \in 1..m /\ j - 1 # m /\ (j - 1) + 1 = j
  BY <1>1
<1>6. \A j \in 1..m : j > 1 => t[j].id \in After(t[j - 1].id)
  BY <1>2, <1>5
<1>7. i > 1 => t[i - 1].id = "BEFORE_BEGIN"
  BY <1>1, <1>3, <1>6
<1>8. i > 1 => ~(i - 1 > 1)
  BY <1>1, <1>4, <1>5, <1>6, <1>7
<1>. QED
  BY <1>1, <1>7, <1>8

\* What is taken out brings no untap step nearer, and no end of a turn.
LEMMA RemovalSpares ==
  ASSUME RingTyped, Closed, NEW id, id \notin Kept, id # "CLEANUP", removePhase(id)
  PROVE  /\ Closed'
         /\ \A d \in {0, 1} : UntapAhead(d)' => UntapAhead(d)
         /\ (id = "UNTAP" /\ IndexOf(id) # 0) => \A d : ~UntapAhead(d)'
<1>1. PICK m \in Nat : m = Len(turn)
  BY ChainedIs DEF RingTyped
<1>2. PICK c \in 1..m : c = current
  BY <1>1 DEF RingTyped
<1>3. CASE IndexOf(id) = 0
  <2>1. turn' = turn /\ current' = current
    BY <1>3 DEF removePhase, ring
  <2>. QED
    BY <1>3, <2>1 DEF Closed, UntapAhead
<1>4. CASE IndexOf(id) # 0
  <2>1. PICK at \in 1..m : at = IndexOf(id) /\ turn[at].id = id
    BY <1>1, <1>4, IndexOfIs
  <2>2. PICK k \in Nat : k + 1 = m
    <3>1. m - 1 \in Nat /\ (m - 1) + 1 = m
      BY <2>1
    <3>. QED
      BY <3>1
  <2>3. turn' = RemoveAt(turn, at) /\ current' = IF c > at THEN c - 1 ELSE c
    BY <1>2, <1>4, <2>1 DEF removePhase
  <2>4. turn \in Seq(Phases) /\ k + 1 = Len(turn) /\ at \in 1..Len(turn)
    BY <1>1, <2>1, <2>2 DEF RingTyped, Chained
  <2>5. Len(turn') = k /\ \A j \in 1..k : turn'[j] = IF j < at THEN turn[j] ELSE turn[j + 1]
    BY <2>3, <2>4, RemoveAtIs
  <2>6. Closed'
    <3>. SUFFICES ASSUME NEW i \in 1..(k - 1), turn'[i + 1].id = "AFTER_EOT"
                  PROVE  turn'[i].id = "CLEANUP"
      BY <2>5 DEF Closed
    <3>1. \A j \in 1..k : turn[j + 1].id = "AFTER_EOT" => turn[j].id = "CLEANUP"
      BY <1>1, <2>2 DEF Closed
    <3>2. i \in 1..k /\ i + 1 \in 1..k
      BY <2>2
    <3>3. CASE i + 1 < at
      BY <2>5, <3>1, <3>2, <3>3
    <3>4. CASE i + 1 = at
      <4>1. turn'[i + 1] = turn[at + 1] /\ at \in 1..k
        BY <2>5, <3>2, <3>4
      <4>. QED
        BY <2>1, <3>1, <4>1
    <3>5. CASE i >= at
      <4>1. turn'[i + 1] = turn[(i + 1) + 1] /\ turn'[i] = turn[i + 1]
        BY <2>5, <3>2, <3>5
      <4>. QED
        BY <3>1, <3>2, <4>1
    <3>. QED
      BY <3>2, <3>3, <3>4, <3>5
  <2>7. \A d \in {0, 1} : UntapAhead(d)' => UntapAhead(d)
    <3>. SUFFICES ASSUME NEW d \in {0, 1}, NEW j \in 1..k, j >= current' + d, turn'[j].id = "UNTAP"
                  PROVE  \E i \in 1..m : i >= c + d /\ turn[i].id = "UNTAP"
      BY <1>1, <1>2, <2>5 DEF UntapAhead
    <3>1. CASE j < at
      <4>1. j \in 1..m /\ turn[j].id = "UNTAP"
        BY <2>2, <2>5, <3>1
      <4>2. ~(c > at) => j >= c + d
        BY <2>3
      <4>3. c > at => FALSE
        BY <2>3, <3>1
      <4>. QED
        BY <4>1, <4>2, <4>3
    <3>2. CASE ~(j < at)
      <4>1. j + 1 \in 1..m /\ turn[j + 1].id = "UNTAP"
        BY <2>2, <2>5, <3>2
      <4>2. j + 1 >= c + d
        BY <2>3, <3>2
      <4>. QED
        BY <4>1, <4>2
    <3>. QED
      BY <3>1, <3>2
  <2>8. ASSUME id = "UNTAP", NEW j \in 1..k, turn'[j].id = "UNTAP"
        PROVE  FALSE
    <3>1. Chained(turn)
      BY DEF RingTyped
    <3>2. at = 1 \/ (at = 2 /\ turn[1].id = "BEFORE_BEGIN")
      BY <1>1, <2>1, <2>8, <3>1, UntapIsEarly
    <3>3. PICK i \in 1..m : i # at /\ turn[i].id = "UNTAP"
      <4>1. j < at => j \in 1..m /\ j # at /\ turn[j].id = "UNTAP"
        BY <2>2, <2>5, <2>8
      <4>2. ~(j < at) => j + 1 \in 1..m /\ j + 1 # at /\ turn[j + 1].id = "UNTAP"
        BY <2>2, <2>5, <2>8
      <4>. QED
        BY <4>1, <4>2
    <3>4. i = 1 \/ (i = 2 /\ turn[1].id = "BEFORE_BEGIN")
      BY <1>1, <3>1, <3>3, UntapIsEarly
    <3>. QED
      BY <2>1, <2>8, <3>2, <3>3, <3>4
  <2>9. (id = "UNTAP" /\ IndexOf(id) # 0) => \A d : ~UntapAhead(d)'
    BY <2>5, <2>8 DEF UntapAhead
  <2>. QED
    BY <2>6, <2>7, <2>9
<1>. QED
  BY <1>3, <1>4

\* Neither does a combat that is put in; it leaves the cursor behind the untap step.
LEMMA CombatSpares ==
  ASSUME RingTyped, Closed, NEW withMain \in BOOLEAN, NEW id, Extends(id, withMain),
         \E i \in 1..current : turn[i].id = id, addCombatAfter(id, withMain)
  PROVE  Closed' /\ \A d \in {0, 1} : ~UntapAhead(d)'
<1>1. Chained(turn) /\ current \in 1..Len(turn)
  BY DEF RingTyped
<1>2. PICK m \in Nat, at \in Nat, k \in Nat, extra \in Nat : at \in 1..m /\
          \E added : PutIn(id, m, at, k, extra, added)
  BY <1>1, ExtraCombatPut, Zenon
<1>3. PICK added : PutIn(id, m, at, k, extra, added)
  BY <1>2
<1>4. /\ m = Len(turn) /\ turn[at].id = id /\ at <= current
      /\ k >= 5 /\ Len(turn') = m + k /\ Spliced(turn', turn, added, at, m, k)
      /\ current' = CursorAfter(at)
      /\ \A j \in 1..k : added[j].id \in ExtraPhases
  BY <1>3 DEF PutIn
<1>5. PICK c \in 1..m : c = current
  BY <1>1, <1>4
<1>6. id \in {"COMBATEND", "FIRSTMAIN", "SECONDMAIN"}
  BY DEF Extends
<1>7. \A x \in ExtraPhases : x # "UNTAP" /\ x # "AFTER_EOT"
  BY DEF ExtraPhases
<1>8. \A j \in 1..(m + k) :
        turn'[j] = IF j <= at THEN turn[j] ELSE IF j <= at + k THEN added[j - at] ELSE turn[j - k]
  BY <1>4 DEF Spliced
<1>9. \A j \in 1..(m + k) : at < j /\ j <= at + k => j - at \in 1..k
  BY <1>2
<1>10. \A j \in 1..(m + k) : at < j /\ j <= at + k => turn'[j].id \in ExtraPhases
  BY <1>2, <1>4, <1>8, <1>9
<1>11. Closed'
  <2>. SUFFICES ASSUME NEW i \in 1..(m + k - 1), turn'[i + 1].id = "AFTER_EOT"
                PROVE  turn'[i].id = "CLEANUP"
    BY <1>4 DEF Closed
  <2>1. \A j \in 1..(m - 1) : turn[j + 1].id = "AFTER_EOT" => turn[j].id = "CLEANUP"
    BY <1>4 DEF Closed
  <2>2. i \in 1..(m + k) /\ i + 1 \in 1..(m + k)
    OBVIOUS
  <2>3. CASE i + 1 <= at
    <3>1. turn'[i + 1] = turn[i + 1] /\ turn'[i] = turn[i] /\ i \in 1..(m - 1)
      BY <1>2, <1>8, <2>2, <2>3
    <3>. QED
      BY <2>1, <3>1
  <2>4. CASE at < i + 1 /\ i + 1 <= at + k
    BY <1>7, <1>10, <2>2, <2>4
  <2>5. CASE i = at + k
    <3>1. turn'[i + 1] = turn[at + 1] /\ at \in 1..(m - 1)
      BY <1>2, <1>8, <2>2, <2>5
    <3>. QED
      BY <1>4, <1>6, <2>1, <3>1
  <2>6. CASE i > at + k
    <3>1. turn'[i + 1] = turn[(i - k) + 1] /\ turn'[i] = turn[i - k] /\ i - k \in 1..(m - 1)
      BY <1>2, <1>8, <2>2, <2>6
    <3>. QED
      BY <2>1, <3>1
  <2>. QED
    BY <1>2, <2>2, <2>3, <2>4, <2>5, <2>6
<1>12. ASSUME NEW d \in {0, 1}, UntapAhead(d)'
       PROVE  FALSE
  <2>1. PICK j \in 1..(m + k) : j >= current' + d /\ turn'[j].id = "UNTAP"
    BY <1>4, <1>12 DEF UntapAhead
  <2>2. current' = IF at = c THEN at ELSE at + 1
    BY <1>2, <1>4, <1>5 DEF CursorAfter
  <2>3. j >= at
    BY <1>2, <2>1, <2>2
  <2>4. PICK i \in 1..m : i >= at /\ turn[i].id = "UNTAP"
    <3>1. CASE j <= at
      BY <1>2, <1>8, <2>1, <2>3, <3>1
    <3>2. CASE at < j /\ j <= at + k
      BY <1>7, <1>10, <2>1, <3>2
    <3>3. CASE at + k < j
      <4>1. turn'[j] = turn[j - k] /\ j - k \in 1..m /\ j - k >= at
        BY <1>2, <1>8, <2>1, <3>3
      <4>. QED
        BY <2>1, <4>1
    <3>. QED
      BY <1>2, <2>1, <3>1, <3>2, <3>3
  <2>5. i = 1 \/ (i = 2 /\ turn[1].id = "BEFORE_BEGIN")
    BY <1>1, <1>4, <2>4, UntapIsEarly
  <2>6. i = at \/ at = 1
    BY <1>2, <2>4, <2>5
  <2>. QED
    BY <1>4, <1>6, <2>4, <2>5, <2>6
<1>. QED
  BY <1>11, <1>12

\* What is meant for one turn and has been applied: in this player's turn, or
\* in the other's, and not marked yet.
Spent(a) == a.next /\ a.applied /\ a.who = currentPlayer
Spending == \E n \in 1..Len(alters) : Spent(alters[n])

Stale(a) == a.next /\ a.applied /\ a.who # currentPlayer /\ ~a.done
NoneStale(k) == \A n \in 1..Len(alters) : n <= k => ~Stale(alters[n])

\* No ability has been applied that was not before.
NoneNew ==
  \A n \in 1..Len(alters') : (alters'[n].next /\ alters'[n].applied) =>
    \E k \in 1..Len(alters) : /\ alters[k].next /\ alters[k].applied
                              /\ alters'[n].who = alters[k].who
                              /\ alters[k].done => alters'[n].done

LEMMA NoneNewIs ==
  ASSUME Len(alters) \in Nat, Len(alters') \in Nat, NoneNew, currentPlayer' = currentPlayer
  PROVE  /\ Spending' => Spending
         /\ NoneStale(Len(alters)) => NoneStale(Len(alters))'
<1>1. Spending' => Spending
  BY DEF Spending, Spent, NoneNew
<1>2. NoneStale(Len(alters)) => NoneStale(Len(alters))'
  <2>. SUFFICES ASSUME NoneStale(Len(alters)), NEW n \in 1..Len(alters'), Stale(alters[n])'
                PROVE  FALSE
    BY DEF NoneStale
  <2>1. /\ alters'[n].next /\ alters'[n].applied /\ ~alters'[n].done
        /\ alters'[n].who # currentPlayer
    BY DEF Stale
  <2>2. PICK k \in 1..Len(alters) : /\ alters[k].next /\ alters[k].applied
                                    /\ alters'[n].who = alters[k].who
                                    /\ alters[k].done => alters'[n].done
    BY <2>1 DEF NoneNew
  <2>. QED
    BY <2>1, <2>2 DEF NoneStale, Stale
<1>. QED
  BY <1>1, <1>2

LEMMA NoneNewSame ==
  ASSUME UNCHANGED alters
  PROVE  NoneNew
  BY DEF NoneNew

\* The update keeps some of the abilities, none of them done.
LEMMA LivingIs ==
  ASSUME alters \in Seq(Sparing), alters' = Living
  PROVE  \A n \in 1..Len(alters') : \E k \in 1..Len(alters) : alters'[n] = alters[k] /\ ~alters[k].done
<1>. DEFINE S == {alters[k] : k \in {k \in 1..Len(alters) : ~alters[k].done}}
            living == {n \in DOMAIN alters : ~alters[n].done /\ HasItsCard(alters[n])}
<1>1. Len(alters) \in Nat
  OBVIOUS
<1>2. \A n \in 1..Len(alters) : n \in living => alters[n] \in S
  OBVIOUS
<1>3. alters' = Among(living)
  BY DEF Living
<1>. HIDE DEF S, living
<1>4. alters' \in Seq(S)
  BY <1>1, <1>2, <1>3, AmongHas
<1>5. \A n \in 1..Len(alters') : alters'[n] \in S
  BY <1>4
<1>. QED
  BY <1>5 DEF S

LEMMA LivingIsOld ==
  ASSUME alters \in Seq(Sparing), alters' = Living
  PROVE  NoneNew
  BY LivingIs DEF NoneNew

\* A warning applies an ability to the player's own turn, and to its own phase;
\* in the cleanup step it marks what has been applied to the other's.
LEMMA MarkedIs ==
  ASSUME alters \in Seq(Sparing), NEW n \in 1..Len(alters), NEW to, PhaseAltered(n, to)
  PROVE  /\ Len(alters') = Len(alters)
         /\ \A k \in 1..Len(alters) :
              /\ alters'[k].next = alters[k].next /\ alters'[k].who = alters[k].who
              /\ alters[k].done => alters'[k].done
              /\ (alters'[k].applied /\ ~alters[k].applied) =>
                   /\ k = n /\ alters[n].who = currentPlayer /\ alters[n].id = to
                   /\ IndexOf(to) # 0
         /\ (/\ to = "CLEANUP" /\ alters[n].next /\ alters[n].applied
             /\ alters[n].who # currentPlayer) => alters'[n].done
<1>1. PICK a : a = alters[n]
  OBVIOUS
<1>2. \A k \in 1..Len(alters) : alters[k] \in Alterations
  BY DEF Sparing
<1>. DEFINE his == a.who = currentPlayer
            found == IndexOf(a.id) # 0
            ended == to = "CLEANUP" /\ a.next /\ a.applied /\ ~his
            adds == a.adding /\ ~a.applied /\ to = a.id /\ his
            removes == ~a.adding /\ to = a.id /\ his
            x == a.applied \/ ((adds \/ removes) /\ found)
            y == a.done \/ ended
<1>3. alters' = [alters EXCEPT ![n].applied = x, ![n].done = y]
  BY <1>1, Zenon DEF PhaseAltered
<1>4. /\ x /\ ~a.applied => a.who = currentPlayer /\ a.id = to /\ IndexOf(to) # 0
      /\ (to = "CLEANUP" /\ a.next /\ a.applied /\ a.who # currentPlayer) => y
      /\ a.done => y
  OBVIOUS
<1>. HIDE DEF x, y
<1>5. PICK b : b = [a EXCEPT !.applied = x, !.done = y]
  OBVIOUS
<1>6. b.next = a.next /\ b.who = a.who /\ b.applied = x /\ b.done = y
  BY <1>1, <1>2, <1>5 DEF Alterations
<1>7. alters' = [alters EXCEPT ![n] = b]
  BY <1>1, <1>3, <1>5
<1>8. Len(alters') = Len(alters) /\ \A k \in 1..Len(alters) : alters'[k] = IF k = n THEN b ELSE alters[k]
  BY <1>7
<1>. QED
  BY <1>1, <1>4, <1>6, <1>8

LEMMA MarkedSweeps ==
  ASSUME alters \in Seq(Sparing), NEW n \in 1..Len(alters), NEW to, PhaseAltered(n, to),
         currentPlayer' = currentPlayer
  PROVE  /\ \A k : NoneStale(k) => NoneStale(k)'
         /\ \A k \in Nat : (to = "CLEANUP" /\ NoneStale(k) /\ n = k + 1) => NoneStale(n)'
         /\ (Spending' /\ ~Spending) =>
              alters[n].who = currentPlayer /\ alters[n].id = to /\ IndexOf(to) # 0
<1>1. /\ Len(alters') = Len(alters)
      /\ \A k \in 1..Len(alters) :
           /\ alters'[k].next = alters[k].next /\ alters'[k].who = alters[k].who
           /\ alters[k].done => alters'[k].done
           /\ (alters'[k].applied /\ ~alters[k].applied) =>
                /\ k = n /\ alters[n].who = currentPlayer /\ alters[n].id = to
                /\ IndexOf(to) # 0
      /\ (/\ to = "CLEANUP" /\ alters[n].next /\ alters[n].applied
          /\ alters[n].who # currentPlayer) => alters'[n].done
  BY MarkedIs
<1>2. \A k \in 1..Len(alters) : Stale(alters[k])' => Stale(alters[k])
  BY <1>1 DEF Stale
<1>3. to = "CLEANUP" => ~Stale(alters[n])'
  BY <1>1 DEF Stale
<1>4. \A k : NoneStale(k) => NoneStale(k)'
  BY <1>1, <1>2 DEF NoneStale
<1>5. ASSUME NEW k \in Nat, to = "CLEANUP", NoneStale(k), n = k + 1
      PROVE  NoneStale(n)'
  <2>1. \A j \in 1..Len(alters) : j <= n => j = n \/ j <= k
    BY <1>5
  <2>. QED
    BY <1>1, <1>2, <1>3, <1>5, <2>1 DEF NoneStale
<1>6. \A k \in 1..Len(alters) : (Spent(alters[k])' /\ ~Spent(alters[k])) =>
        alters[n].who = currentPlayer /\ alters[n].id = to /\ IndexOf(to) # 0
  BY <1>1 DEF Spent
<1>7. (Spending' /\ ~Spending) =>
        alters[n].who = currentPlayer /\ alters[n].id = to /\ IndexOf(to) # 0
  BY <1>1, <1>6 DEF Spending
<1>. QED
  BY <1>4, <1>5, <1>7

\* What a warning does to the list.
LEMMA WarningSpares ==
  ASSUME RingTyped, alters \in Seq(Sparing), Closed, AltersSpare({"CLEANUP"}),
         NEW n \in 1..Len(alters), NEW to, PhaseAltered(n, to),
         to = "COMBATEND" => \E i \in 1..current : turn[i].id = "COMBATEND"
  PROVE  /\ Closed'
         /\ \A d \in {0, 1} : UntapAhead(d)' => UntapAhead(d)
         /\ (/\ to = "UNTAP" /\ alters[n].who = currentPlayer /\ alters[n].id = to
             /\ IndexOf(to) # 0) => \A d : ~UntapAhead(d)'
<1>1. PICK a : a = alters[n]
  OBVIOUS
<1>2. (IF a.adding THEN a.id = "COMBATEND" ELSE a.id \notin Kept) /\ a.id # "CLEANUP"
  BY <1>1 DEF Sparing, AltersSpare
<1>. DEFINE his == a.who = currentPlayer
            adds == a.adding /\ ~a.applied /\ to = a.id /\ his
            removes == ~a.adding /\ to = a.id /\ his
<1>3. /\ CASE adds    -> addCombatAfter(a.id, FALSE)
           [] removes -> removePhase(a.id)
           [] OTHER   -> UNCHANGED ring
  BY <1>1, Zenon DEF PhaseAltered
<1>4. /\ adds => addCombatAfter(a.id, FALSE)
      /\ removes => removePhase(a.id)
      /\ (~adds /\ ~removes) => UNCHANGED ring
  <2>1. adds => ~removes
    OBVIOUS
  <2>. HIDE DEF adds, removes
  <2>. QED
    BY <1>3, <2>1
<1>5. CASE adds
  <2>1. to = "COMBATEND" /\ a.id = to /\ \E i \in 1..current : turn[i].id = to
    BY <1>2, <1>5
  <2>2. Extends(to, FALSE) /\ addCombatAfter(to, FALSE)
    BY <1>4, <1>5, <2>1 DEF Extends
  <2>. QED
    BY <2>1, <2>2, CombatSpares
<1>6. CASE removes
  <2>1. to \notin Kept /\ to # "CLEANUP" /\ removePhase(to)
    BY <1>2, <1>4, <1>6
  <2>. QED
    BY <2>1, RemovalSpares
<1>7. CASE ~adds /\ ~removes
  <2>1. turn' = turn /\ current' = current
    BY <1>4, <1>7 DEF ring
  <2>2. ~(to = "UNTAP" /\ alters[n].who = currentPlayer /\ alters[n].id = to)
    BY <1>1, <1>2, <1>7
  <2>. QED
    BY <2>1, <2>2 DEF Closed, UntapAhead
<1>. QED
  BY <1>5, <1>6, <1>7

\* The ring is on a phase that is still to be entered: in a move that goes on,
\* or before the rest of nextGamePhase.
Reaching == calls # <<>> /\ Head(calls).op \in {"landed", "arrive"}

Gap == IF Reaching \/ (Moving /\ Head(calls).notEnd) THEN 0 ELSE 1

NoTurns == \A p \in Players : extraTurn[p] = 0 /\ skippingTurn[p] = 0

\* What has been applied in a turn was warned of a phase of it, and the untap
\* step lies behind; it is gone if it was about the untap step.
Untapped ==
  /\ Spending => ~UntapAhead(Gap)
  /\ \A to \in PhaseIds \ {"UNTAP"} : Heralds(eventsQueue, to) => ~UntapAhead(Gap)

\* The cleanup step, and what follows it until the update of the layer.
Closing ==
  \/ Behind = "CLEANUP"
  \/ /\ calls # <<>> /\ Head(calls).op \in {"landed", "arrive", "entered"}
     /\ currentPhase = "AFTER_EOT"

\* All abilities have been warned of the cleanup step.
CleanupHeard ==
  /\ Moving /\ eventsQueue = <<>> /\ Len(turn) = Head(calls).turnSteps
  /\ currentPhase = "CLEANUP"

\* The turn has been given to the other player.
Turning ==
  /\ Behind = "AFTER_EOT" /\ ~Reaching
  /\ ~(calls # <<>> /\ Head(calls).op = "entered")

\* The cleanup step marks what has been applied to the turn before, and the
\* update at the end of the turn drops it.
Swept ==
  /\ Closing \/ CleanupHeard => NoneStale(Len(alters))
  /\ Heralds(eventsQueue, "CLEANUP") => NoneStale(Head(eventsQueue).heard)
  /\ Turning => ~Spending

Lasting == Closed /\ NoTurns /\ Untapped /\ Swept

LEMMA UntapNearer ==
  ASSUME RingTyped, NEW d \in {0, 1}, NEW e \in {0, 1}, d = 0 => e = 0, UntapAhead(d)
  PROVE  UntapAhead(e)
<1>1. PICK m \in Nat : m = Len(turn)
  BY ChainedIs DEF RingTyped
<1>2. PICK c \in 1..m : c = current
  BY <1>1 DEF RingTyped
<1>3. PICK i \in 1..m : i >= c + d /\ turn[i].id = "UNTAP"
  BY <1>1, <1>2 DEF UntapAhead
<1>. QED
  BY <1>1, <1>2, <1>3 DEF UntapAhead

\* Behind the untap step none comes any more.
LEMMA PastUntap ==
  ASSUME NEW t, Chained(t), NEW c \in 1..Len(t), t[c].id \notin {"UNTAP", "BEFORE_BEGIN"},
         NEW i \in 1..Len(t), i >= c, t[i].id = "UNTAP"
  PROVE  FALSE
<1>1. PICK m \in Nat : m = Len(t)
  BY ChainedIs
<1>2. i = 1 \/ (i = 2 /\ t[1].id = "BEFORE_BEGIN")
  BY UntapIsEarly
<1>3. i # c
  OBVIOUS
<1>4. i \in 1..m /\ c \in 1..m
  BY <1>1
<1>. QED
  BY <1>2, <1>3, <1>4

\* A warning that is under way was before, and as many have heard of it.
WarnsAsBefore ==
  \A to : Heralds(eventsQueue', to) =>
    Heralds(eventsQueue, to) /\ Head(eventsQueue').heard = Head(eventsQueue).heard

\* Where the ring stands, or comes no nearer to a phase.
LEMMA LastingSame ==
  ASSUME IInv, Lasting, UNCHANGED <<alters, currentPlayer, extraTurn, skippingTurn>>,
         Closed', UntapAhead(Gap)' => UntapAhead(Gap),
         WarnsAsBefore \/ \A to : ~Heralds(eventsQueue', to),
         Closing' \/ CleanupHeard' => Closing \/ CleanupHeard, Turning' => Turning
  PROVE  Lasting'
<1>1. NoTurns' /\ Spending' = Spending /\ \A k : NoneStale(k)' = NoneStale(k)
  BY DEF Lasting, NoTurns, Spending, Spent, NoneStale, Stale
<1>2. \A to : Heralds(eventsQueue', to) => Heralds(eventsQueue, to) /\ WarnsAsBefore
  BY DEF WarnsAsBefore
<1>3. Untapped'
  BY <1>1, <1>2 DEF Lasting, Untapped
<1>4. Swept'
  <2>1. Closing' \/ CleanupHeard' => NoneStale(Len(alters))'
    BY <1>1 DEF Lasting, Swept
  <2>2. Heralds(eventsQueue, "CLEANUP")' => NoneStale(Head(eventsQueue).heard)'
    <3>. SUFFICES ASSUME Heralds(eventsQueue', "CLEANUP") PROVE NoneStale(Head(eventsQueue).heard)'
      OBVIOUS
    <3>1. PICK k : k = Head(eventsQueue).heard
      OBVIOUS
    <3>2. Head(eventsQueue').heard = k /\ NoneStale(k)
      BY <1>2, <3>1 DEF WarnsAsBefore, Lasting, Swept
    <3>3. NoneStale(k)'
      BY <1>1, <3>2
    <3>. QED
      BY <3>2, <3>3 DEF NoneStale
  <2>3. Turning' => ~Spending'
    BY <1>1 DEF Lasting, Swept
  <2>. QED
    BY <2>1, <2>2, <2>3 DEF Swept
<1>. QED
  BY <1>1, <1>3, <1>4 DEF Lasting

LEMMA ForwardLasting ==
  ASSUME IInv, Lasting, forward
  PROVE  Lasting'
<1>1. eventsQueue = <<>> /\ IsList(calls) /\ calls # <<>> /\ Head(calls).op = "forward"
  BY ForwardIsAlone DEF forward, Runs
<1>2. PICK to : to = IF current < Len(turn) THEN current + 1 ELSE current
  OBVIOUS
<1>3. PICK e : e = [type |-> "PhasePreChange", from |-> currentPhase, to |-> turn[to].id, heard |-> 0]
  OBVIOUS
<1>4. PICK m : m = [op |-> "move", nested |-> Head(calls).nested, from |-> currentPhase,
                    turnSteps |-> Len(turn), notEnd |-> current < Len(turn)]
  OBVIOUS
<1>5. /\ current' = to /\ turn' = turn /\ calls' = <<m>> \o Tail(calls)
      /\ eventsQueue' = Append(eventsQueue, e)
      /\ UNCHANGED <<alters, currentPlayer, extraTurn, skippingTurn>>
  BY <1>2, <1>3, <1>4 DEF forward, flow, turnCounts
<1>6. calls' # <<>> /\ Head(calls') = m /\ m.op = "move" /\ m.notEnd = (current < Len(turn))
  BY <1>1, <1>4, <1>5, TailIsList, LedBy
<1>7. eventsQueue' = <<e>> /\ e.to = turn[to].id /\ e.heard = 0
  BY <1>1, <1>3, <1>5
<1>8. PICK n \in Nat : n = Len(turn) /\ turn[n].id = "AFTER_EOT"
  BY ChainedIs DEF IInv, Typed, RingTyped, Chained
<1>9. PICK c \in 1..n : c = current
  BY <1>8 DEF IInv, Typed, RingTyped
<1>10. Moving' /\ ~Moving /\ ~Reaching /\ ~Reaching' /\ Gap = 1
  BY <1>1, <1>6 DEF Moving, Reaching, Gap
<1>11. Here(m)' = c
  <2>1. IF c < n THEN to - 1 = c ELSE to = c
    BY <1>2, <1>8, <1>9
  <2>. QED
    BY <1>5, <1>6, <1>8, <1>9, <2>1 DEF Here
<1>12. Behind' = currentPhase /\ Behind = currentPhase
  BY <1>5, <1>6, <1>9, <1>10, <1>11 DEF Behind, currentPhase
<1>13. UntapAhead(Gap)' => UntapAhead(1)
  <2>1. CASE c < n
    <3>1. Gap' = 0 /\ current' = c + 1
      BY <1>2, <1>5, <1>6, <1>8, <1>9, <1>10, <2>1 DEF Gap
    <3>2. UntapAhead(Gap)' => \E i \in 1..n : i >= (c + 1) + 0 /\ turn[i].id = "UNTAP"
      BY <1>5, <1>8, <3>1 DEF UntapAhead
    <3>. QED
      BY <1>8, <1>9, <3>2 DEF UntapAhead
  <2>2. CASE ~(c < n)
    <3>1. Gap' = 1 /\ current' = c
      BY <1>2, <1>5, <1>6, <1>8, <1>9, <1>10, <2>2 DEF Gap
    <3>. QED
      BY <1>5, <1>8, <1>9, <3>1 DEF UntapAhead
  <2>. QED
    BY <2>1, <2>2
<1>14. NoTurns' /\ Spending' = Spending /\ \A k : NoneStale(k)' = NoneStale(k)
  BY <1>5 DEF Lasting, NoTurns, Spending, Spent, NoneStale, Stale
<1>15. Closed'
  BY <1>5 DEF Lasting, Closed
<1>16. Untapped'
  <2>1. ASSUME NEW id, id # "UNTAP", Heralds(eventsQueue', id)
        PROVE  ~UntapAhead(Gap)'
    <3>1. id = turn[to].id
      BY <1>7, <2>1 DEF Heralds
    <3>2. RingTyped'
      <4>1. to \in 1..n
        BY <1>2, <1>8, <1>9
      <4>. QED
        BY <1>5, <1>8, <4>1 DEF IInv, Typed, RingTyped
    <3>3. currentPhase' = id
      BY <1>5, <3>1 DEF currentPhase
    <3>4. id # "BEFORE_BEGIN"
      <4>1. CASE c < n
        <5>1. c + 1 = to /\ c # n /\ c \in 1..n
          BY <1>2, <1>8, <1>9, <4>1
        <5>2. turn[c + 1].id \in After(turn[c].id)
          BY <1>8, <5>1, ChainedIs DEF IInv, Typed, RingTyped
        <5>. QED
          BY <3>1, <5>1, <5>2 DEF After
      <4>2. CASE ~(c < n)
        <5>1. to = n
          BY <1>2, <1>8, <1>9, <4>2
        <5>. QED
          BY <1>8, <3>1, <5>1
      <4>. QED
        BY <4>1, <4>2
    <3>5. PICK g \in {0, 1} : g = Gap'
      BY DEF Gap
    <3>6. PICK s, k : s = turn' /\ k = current'
      OBVIOUS
    <3>7. Chained(s) /\ k \in 1..Len(s) /\ k \in Nat /\ s[k].id = id
      BY <1>8, <3>2, <3>3, <3>6, ChainedIs DEF RingTyped, currentPhase
    <3>8. ASSUME NEW i \in 1..Len(s), i >= k + g, s[i].id = "UNTAP"
          PROVE  FALSE
      <4>1. Len(s) \in Nat
        BY <3>7, ChainedIs
      <4>2. i >= k
        BY <3>7, <3>8, <4>1
      <4>. QED
        BY <2>1, <3>4, <3>7, <3>8, <4>2, PastUntap
    <3>. QED
      BY <3>5, <3>6, <3>8 DEF UntapAhead
  <2>. QED
    BY <1>10, <1>13, <1>14, <2>1 DEF Lasting, Untapped
<1>17. Swept'
  <2>1. Closing' => Closing
    BY <1>6, <1>12 DEF Closing
  <2>2. ~CleanupHeard'
    BY <1>7 DEF CleanupHeard
  <2>3. Turning' => Turning
    BY <1>1, <1>10, <1>12 DEF Turning
  <2>4. NoneStale(0)'
    <3>1. Len(alters) \in Nat
      BY DEF IInv, Typed
    <3>. QED
      BY <1>5, <3>1 DEF NoneStale
  <2>5. Head(eventsQueue').heard = 0
    BY <1>7
  <2>6. Closing' => NoneStale(Len(alters))'
    BY <1>5, <1>14, <2>1 DEF Lasting, Swept
  <2>. QED
    BY <1>14, <2>2, <2>3, <2>4, <2>5, <2>6 DEF Lasting, Swept, NoneStale
<1>. QED
  BY <1>14, <1>15, <1>16, <1>17 DEF Lasting

\* A move behind which another follows is over the blockers, and one in the
\* middle of an event is inside the combat.
LEMMA MoveFrom ==
  ASSUME ToMove
  PROVE  /\ Head(Tail(calls)).op = "forward" => Behind = "COMBATBLOCKERS"
         /\ HurriesWarned => Behind \in {"COMBATBLOCKERS", "COMBATDAMAGE"}
<1>1. Behind = turn[Here(Head(calls))].id
  BY MoveWhere DEF Moving, Behind
<1>2. ASSUME SkipsBlockersWarned
      PROVE  Behind = "COMBATBLOCKERS"
  <2>1. PICK m, f, l : calls = <<m, f, l>> /\ turn[Here(m)].id = "COMBATBLOCKERS"
    BY <1>2 DEF SkipsBlockersWarned
  <2>2. Head(calls) = m
    BY <2>1
  <2>. QED
    BY <1>1, <2>1, <2>2
<1>3. ASSUME HurriesWarned
      PROVE  Behind \in {"COMBATBLOCKERS", "COMBATDAMAGE"} /\ Head(Tail(calls)).op = "landed"
  <2>1. PICK rest \in Rests :
          /\ calls = <<calls[1], Land(TRUE, currentGamePhase)>> \o rest
          /\ calls[1].notEnd /\ turn[current - 1].id = currentGamePhase /\ Hurries(rest)
    BY <1>3 DEF HurriesWarned
  <2>2. PICK c, l : c = calls[1] /\ l = Land(TRUE, currentGamePhase)
    OBVIOUS
  <2>3. PICK s : s = calls
    OBVIOUS
  <2>4. s = <<c, l>> \o rest /\ rest \in Rests
    BY <2>1, <2>2, <2>3
  <2>5. Head(s) = c /\ Tail(s) = <<l>> \o rest
    BY ONLY <2>4, LedByTwo
  <2>6. Head(Tail(s)) = l
    BY <2>5, RestsAreLists, LedBy
  <2>7. l.op = "landed"
    BY <2>2 DEF Land
  <2>8. Behind = currentGamePhase
    BY <1>1, <2>1, <2>2, <2>3, <2>5 DEF Here
  <2>. QED
    BY <2>1, <2>3, <2>6, <2>7, <2>8 DEF Hurries
<1>4. Warned => Head(Tail(calls)).op = "landed"
  <2>. SUFFICES ASSUME Warned PROVE Head(Tail(calls)).op = "landed"
    OBVIOUS
  <2>1. PICK from, m : calls = <<m, Land(FALSE, from)>>
    BY DEF Warned
  <2>2. PICK l : l = Land(FALSE, from)
    OBVIOUS
  <2>3. calls = <<m, l>> /\ l.op = "landed"
    BY <2>1, <2>2 DEF Land
  <2>. QED
    BY <2>3
<1>5. SkipsDamageWarned => Head(Tail(calls)).op = "arrive"
  <2>. SUFFICES ASSUME SkipsDamageWarned PROVE Head(Tail(calls)).op = "arrive"
    OBVIOUS
  <2>1. PICK m : calls = <<m, ToEnd>>
    BY DEF SkipsDamageWarned
  <2>2. PICK l : l = ToEnd
    OBVIOUS
  <2>3. calls = <<m, l>> /\ l.op = "arrive"
    BY <2>1, <2>2 DEF ToEnd, Arrive
  <2>. QED
    BY <2>3
<1>. QED
  BY <1>2, <1>3, <1>4, <1>5 DEF ToMove

LEMMA GameTurnIsClosed ==
  /\ Len(GameTurn) = 14
  /\ \A i \in 1..13 : GameTurn[i + 1].id = "AFTER_EOT" => GameTurn[i].id = "CLEANUP"
<1>1. Len(GamePhases) = 14 /\ DOMAIN GamePhases = 1..14
  BY DEF GamePhases
<1>2. Len(GameTurn) = 14 /\ \A i \in 1..14 : GameTurn[i].id = GamePhases[i]
  BY <1>1, GameTurnIs DEF GameTurn, Phase
<1>3. \A i \in 1..13 : GamePhases[i + 1] = "AFTER_EOT" => GamePhases[i] = "CLEANUP"
  BY DEF GamePhases
<1>. QED
  BY <1>2, <1>3

LEMMA MoveLasting ==
  ASSUME IInv, Lasting, move
  PROVE  Lasting'
<1>1. PICK m : m = Head(calls)
  OBVIOUS
<1>2. calls # <<>> /\ m.op = "move" /\ (m.nested \/ eventsQueue = <<>>)
  BY <1>1 DEF move, Runs
<1>3. /\ ToMove /\ IsList(calls)
      /\ Tail(calls) # <<>> /\ MovesOn(Head(Tail(calls)).op)
      /\ IF HurriesWarned THEN m.nested = TRUE ELSE Heading(m)
  BY <1>1, <1>2, SituationIs, MoveWhere
<1>4. PICK n \in Nat : n = Len(turn) /\ turn[n].id = "AFTER_EOT"
  BY ChainedIs DEF IInv, Typed, RingTyped, Chained
<1>5. PICK c \in 1..n : c = current
  BY <1>4 DEF IInv, Typed, RingTyped
<1>6. IF m.notEnd THEN c > 1 ELSE c = n /\ ~m.nested
  <2>1. CASE HurriesWarned
    <3>1. calls[1] = m
      BY <1>1, <1>2, <1>3
    <3>. QED
      BY <1>5, <2>1, <3>1 DEF HurriesWarned
  <2>2. CASE ~HurriesWarned
    BY <1>3, <1>4, <1>5, <2>2 DEF Heading, IsMove
  <2>. QED
    BY <2>1, <2>2
<1>7. PICK here \in 1..n : here = Here(m) /\ here = IF m.notEnd THEN c - 1 ELSE c
  BY <1>5, <1>6 DEF Here
<1>8. Moving /\ ~Reaching /\ Behind = turn[here].id /\ Gap = IF m.notEnd THEN 0 ELSE 1
  BY <1>1, <1>2, <1>7 DEF Moving, Reaching, Behind, Gap
<1>9. UNCHANGED <<alters, currentPlayer, extraTurn, skippingTurn>>
  BY DEF move, flow, turnCounts
<1>10. CASE ListChanged(m)
  <2>1. /\ calls' = <<Call("forward", m.nested)>> \o Tail(calls) /\ current' = here
        /\ turn' = turn /\ eventsQueue' = eventsQueue
    BY <1>1, <1>7, <1>10 DEF move, Here
  <2>2. calls' # <<>> /\ Head(calls').op = "forward"
    <3>1. calls' # <<>> /\ Head(calls') = Call("forward", m.nested)
      BY <1>2, <1>3, <2>1, TailIsList, LedBy
    <3>. QED
      BY <3>1 DEF Call
  <2>3. ~Moving' /\ ~Reaching' /\ Behind' = Behind /\ Gap' = 1
    BY <1>8, <2>1, <2>2 DEF Moving, Reaching, Behind, Gap, currentPhase
  <2>4. UntapAhead(Gap)' => UntapAhead(Gap)
    <3>1. UntapAhead(Gap)' => \E i \in 1..n : i >= here + 1 /\ turn[i].id = "UNTAP"
      BY <1>4, <2>1, <2>3 DEF UntapAhead
    <3>2. here + 1 = c + (IF m.notEnd THEN 0 ELSE 1)
      BY <1>5, <1>7
    <3>. QED
      BY <1>4, <1>5, <1>8, <3>1, <3>2 DEF UntapAhead
  <2>5. Closed' /\ WarnsAsBefore
    BY <2>1 DEF Lasting, Closed, WarnsAsBefore
  <2>6. (Closing' => Closing) /\ ~CleanupHeard'
    BY <2>2, <2>3 DEF Closing, CleanupHeard
  <2>7. Turning' => Turning
    BY <1>1, <1>2, <1>8, <2>3 DEF Turning
  <2>. QED
    BY <1>9, <2>4, <2>5, <2>6, <2>7, LastingSame
<1>11. CASE ~ListChanged(m)
  <2>1. PICK e : e = [type |-> "PhaseChange", from |-> m.from, to |-> turn'[current'].id]
    OBVIOUS
  <2>2. calls' = Tail(calls) /\ Moved(here) /\ eventsQueue' = Append(eventsQueue, e)
    BY <1>1, <1>7, <1>11, <2>1 DEF move, Here
  <2>3. calls' # <<>> /\ Head(calls').op \in {"forward", "landed", "arrive"} /\ ~Moving'
    BY <1>3, <2>2 DEF Moving, MovesOn
  <2>4. e.type # "PhasePreChange" /\ Len(turn) = m.turnSteps
    BY <1>11, <2>1 DEF ListChanged
  <2>5. CASE m.notEnd
    <3>1. turn' = turn /\ current' = current /\ here + 1 = c /\ here # n
      BY <1>4, <1>5, <1>6, <1>7, <2>2, <2>5 DEF Moved
    <3>2. currentPhase' = currentPhase /\ currentPhase = turn[here + 1].id
      BY <1>5, <3>1 DEF currentPhase
    <3>3. Behind' = currentPhase
      BY <2>3, <3>2 DEF Behind
    <3>4. currentPhase \in After(Behind)
      BY <1>4, <1>8, <3>1, <3>2, ChainedIs DEF IInv, Typed, RingTyped
    <3>5. Closed'
      BY <3>1 DEF Lasting, Closed
    <3>6. UntapAhead(Gap)' => UntapAhead(Gap)
      <4>1. PICK g \in {0, 1} : g = Gap'
        BY DEF Gap
      <4>2. UntapAhead(Gap)' => UntapAhead(g)
        BY <3>1, <4>1 DEF UntapAhead
      <4>. QED
        BY <1>8, <2>5, <4>1, <4>2, UntapNearer DEF IInv, Typed
    <3>7. WarnsAsBefore
      <4>. SUFFICES ASSUME NEW to, Heralds(eventsQueue', to)
                    PROVE  Heralds(eventsQueue, to) /\ Head(eventsQueue').heard = Head(eventsQueue).heard
        BY DEF WarnsAsBefore
      <4>1. IsList(eventsQueue)
        BY QueueIs
      <4>2. Heralds(eventsQueue, to)
        BY <2>2, <2>4, <4>1, HeraldsStays
      <4>. QED
        BY <2>2, <4>1, <4>2, HeraldKept
    <3>8. Closing' => Closing \/ CleanupHeard
      <4>1. CASE HurriesWarned
        <5>1. Behind \in {"COMBATBLOCKERS", "COMBATDAMAGE"}
          BY <1>3, <4>1, MoveFrom
        <5>2. currentPhase \in {"COMBATDAMAGE", "COMBATEND"}
          BY <3>4, <5>1 DEF After
        <5>. QED
          BY <3>2, <3>3, <5>2 DEF Closing
      <4>2. CASE ~HurriesWarned /\ currentPhase = "CLEANUP"
        <5>1. eventsQueue = <<>>
          BY <1>2, <1>3, <4>2 DEF Heading, IsMove
        <5>. QED
          BY <1>1, <1>8, <2>4, <4>2, <5>1 DEF CleanupHeard
      <4>3. CASE currentPhase = "AFTER_EOT"
        <5>1. here \in 1..(n - 1) /\ turn[here + 1].id = "AFTER_EOT"
          BY <1>4, <3>1, <3>2, <4>3
        <5>2. turn[here].id = "CLEANUP"
          BY <1>4, <5>1 DEF Lasting, Closed
        <5>. QED
          BY <1>8, <5>2 DEF Closing
      <4>4. CASE currentPhase \notin {"CLEANUP", "AFTER_EOT"}
        BY <3>2, <3>3, <4>4 DEF Closing
      <4>. QED
        BY <4>1, <4>2, <4>3, <4>4
    <3>9. ~CleanupHeard'
      BY <2>3 DEF CleanupHeard
    <3>10. ~Turning'
      <4>1. CASE Head(Tail(calls)).op = "forward"
        <5>1. Behind = "COMBATBLOCKERS"
          BY <1>3, <4>1, MoveFrom
        <5>. QED
          BY <3>3, <3>4, <5>1 DEF After, Turning
      <4>2. CASE Head(Tail(calls)).op # "forward"
        BY <2>2, <2>3, <4>2 DEF Turning, Reaching
      <4>. QED
        BY <4>1, <4>2
    <3>. QED
      BY <1>9, <3>5, <3>6, <3>7, <3>8, <3>9, <3>10, LastingSame
  <2>6. CASE ~m.notEnd
    <3>1. turn' = GameTurn /\ current' = 1 /\ here = n
      BY <1>4, <1>6, <1>7, <2>2, <2>6 DEF Moved
    <3>2. currentPhase' = "BEFORE_BEGIN"
      BY <3>1, GameTurnIs DEF currentPhase
    <3>3. Turning
      BY <1>1, <1>2, <1>4, <1>8, <3>1 DEF Turning
    <3>4. ~Spending'
      BY <1>9, <3>3 DEF Lasting, Swept, Spending, Spent
    <3>5. eventsQueue' = <<e>>
      <4>1. eventsQueue = <<>>
        BY <1>2, <1>6, <2>6
      <4>2. eventsQueue' = Append(<<>>, e)
        BY <2>2, <4>1
      <4>. QED
        BY <4>2
    <3>6. \A to : ~Heralds(eventsQueue', to)
      BY <2>4, <3>5 DEF Heralds
    <3>7. Behind' = "BEFORE_BEGIN"
      BY <2>3, <3>2 DEF Behind
    <3>8. Untapped'
      BY <3>4, <3>6 DEF Untapped
    <3>9. Swept'
      BY <2>3, <3>2, <3>4, <3>6, <3>7 DEF Swept, Closing, CleanupHeard, Turning
    <3>10. NoTurns'
      BY <1>9 DEF Lasting, NoTurns
    <3>. QED
      BY <3>1, <3>8, <3>9, <3>10, GameTurnIsClosed DEF Lasting, Closed
  <2>. QED
    BY <2>5, <2>6
<1>. QED
  BY <1>10, <1>11

\* The same where the list of abilities changes, and none is applied.
LEMMA LastingOld ==
  ASSUME IInv, IInv', Lasting, NoneNew, UNCHANGED <<ring, currentPlayer, extraTurn, skippingTurn>>,
         UntapAhead(Gap)' => UntapAhead(Gap), \A to : ~Heralds(eventsQueue', to),
         Closing' => Closing, ~CleanupHeard', Turning' => Turning
  PROVE  Lasting'
<1>1. Len(alters) \in Nat /\ Len(alters') \in Nat
  BY DEF IInv, Typed
<1>2. /\ Spending' => Spending
      /\ NoneStale(Len(alters)) => NoneStale(Len(alters))'
  BY <1>1, NoneNewIs
<1>3. NoTurns' /\ Closed'
  BY DEF Lasting, NoTurns, Closed, ring
<1>4. Untapped'
  BY <1>2 DEF Lasting, Untapped
<1>5. Swept'
  BY <1>2 DEF Lasting, Swept
<1>. QED
  BY <1>3, <1>4, <1>5 DEF Lasting

\* Where the ring goes on at once, it has come from the attackers' declaration.
LEMMA LandedFrom ==
  ASSUME ToLand, Head(calls).op = "landed", Head(calls).from = "COMBATATTACKERS"
  PROVE  currentPhase # "AFTER_EOT"
<1>1. CASE Landed
  <2>1. PICK from : /\ calls = <<Land(FALSE, from)>>
                    /\ from = "COMBATATTACKERS" => currentPhase = "COMBATBLOCKERS"
    BY <1>1 DEF Landed
  <2>2. PICK l : l = Land(FALSE, from)
    OBVIOUS
  <2>3. calls = <<l>> /\ l.from = from
    BY <2>1, <2>2 DEF Land
  <2>4. Head(calls) = l
    BY <2>3
  <2>. QED
    BY <2>1, <2>3, <2>4
<1>2. CASE HurriesIn
  <2>1. PICK rest \in Rests, call \in {Land(TRUE, currentGamePhase), Arrive(TRUE, FALSE)} :
          calls = <<call>> \o rest /\ Hurries(rest)
    BY <1>2, Zenon DEF HurriesIn
  <2>2. Head(calls) = call
    BY <2>1, RestsAreLists, LedBy
  <2>3. Arrive(TRUE, FALSE).op = "arrive" /\ Land(TRUE, currentGamePhase).from = currentGamePhase
    BY DEF Arrive, Land
  <2>4. currentGamePhase \in {"COMBATBLOCKERS", "COMBATDAMAGE"}
    BY <2>1 DEF Hurries
  <2>. QED
    BY <2>1, <2>2, <2>3, <2>4
<1>3. ~SkipsToEnd /\ ~Arriving
  <2>1. PICK x, y : x = ToEnd /\ y = Arrive(FALSE, FALSE)
    OBVIOUS
  <2>2. x.op = "arrive" /\ y.op = "arrive"
    BY <2>1 DEF ToEnd, Arrive
  <2>3. (SkipsToEnd => calls = <<x>>) /\ (Arriving => calls = <<y>>)
    BY <2>1 DEF SkipsToEnd, Arriving
  <2>. QED
    BY <2>2, <2>3
<1>. QED
  BY <1>1, <1>2, <1>3 DEF ToLand

LEMMA LandedLasting ==
  ASSUME IInv, Lasting, landed
  PROVE  Lasting'
<1>1. PICK again, come, stay :
        /\ again = Call("forward", Head(calls).nested)
        /\ come = [op |-> "arrive", nested |-> Head(calls).nested, skip |-> TRUE]
        /\ stay = [come EXCEPT !.skip = FALSE]
  OBVIOUS
<1>2. again.op = "forward" /\ stay.op = "arrive"
  BY <1>1 DEF Call
<1>3. /\ \/ calls' = <<again, again, come>> \o Tail(calls) /\ Head(calls).from = "COMBATATTACKERS"
         \/ calls' = <<stay>> \o Tail(calls)
      /\ UNCHANGED ring
      /\ UNCHANGED <<eventsQueue, alters, currentPlayer, extraTurn, skippingTurn>>
  BY <1>1 DEF landed, flow, turnCounts
<1>4. calls # <<>> /\ Head(calls).op = "landed" /\ IsList(Tail(calls)) /\ ToLand
  BY SituationIs, TailIsList DEF landed, Runs
<1>5. /\ calls' # <<>>
      /\ \/ Head(calls') = again /\ currentPhase # "AFTER_EOT"
         \/ Head(calls') = stay
  <2>1. \A s : s = <<again, again, come>> \o Tail(calls) => s # <<>> /\ Head(s) = again
    BY <1>4, LedBy
  <2>2. \A s : s = <<stay>> \o Tail(calls) => s # <<>> /\ Head(s) = stay
    BY <1>4, LedBy
  <2>. QED
    BY <1>3, <1>4, <2>1, <2>2, LandedFrom
<1>6. turn' = turn /\ current' = current /\ currentPhase' = currentPhase
  BY <1>3 DEF ring, currentPhase
<1>7. /\ ~Moving /\ ~Moving' /\ Reaching /\ Gap = 0
      /\ Head(calls').op = "forward" \/ Reaching'
  BY <1>2, <1>4, <1>5 DEF Moving, Reaching, Gap
<1>8. Behind' = currentPhase /\ Behind = currentPhase
  BY <1>6, <1>7 DEF Behind
<1>9. UntapAhead(Gap)' => UntapAhead(Gap)
  <2>1. PICK g \in {0, 1} : g = Gap'
    BY DEF Gap
  <2>2. UntapAhead(Gap)' => UntapAhead(g)
    BY <1>6, <2>1 DEF UntapAhead
  <2>. QED
    BY <1>7, <2>1, <2>2, UntapNearer DEF IInv, Typed
<1>10. Closed' /\ WarnsAsBefore
  BY <1>3, <1>6 DEF Lasting, Closed, WarnsAsBefore
<1>11. Closing' => Closing
  BY <1>4, <1>6, <1>8 DEF Closing
<1>12. ~CleanupHeard' /\ ~Turning'
  BY <1>2, <1>5, <1>7, <1>8 DEF CleanupHeard, Turning, Reaching
<1>. QED
  BY <1>3, <1>9, <1>10, <1>11, <1>12, LastingSame

LEMMA ArriveLasting ==
  ASSUME IInv, Lasting, arrive
  PROVE  Lasting'
<1>1. PICK x : x = Call("entered", Head(calls).nested)
  OBVIOUS
<1>2. x.op = "entered"
  BY <1>1 DEF Call
<1>3. /\ calls' = <<x>> \o Tail(calls)
      /\ UNCHANGED ring /\ UNCHANGED <<alters, currentPlayer, extraTurn, skippingTurn>>
      /\ eventsQueue' = eventsQueue \/ nextCombatStep(eventsQueue)
  BY <1>1 DEF arrive, turnCounts
<1>4. calls # <<>> /\ Head(calls).op = "arrive" /\ IsList(Tail(calls))
  BY SituationIs, TailIsList DEF arrive, Runs
<1>5. calls' # <<>> /\ Head(calls') = x
  BY <1>3, <1>4, LedBy
<1>6. turn' = turn /\ current' = current /\ currentPhase' = currentPhase
  BY <1>3 DEF ring, currentPhase
<1>7. ~Moving /\ ~Moving' /\ Reaching /\ ~Reaching' /\ Gap = 0 /\ Gap' = 1
  BY <1>2, <1>4, <1>5 DEF Moving, Reaching, Gap
<1>8. Behind' = currentPhase /\ Behind = currentPhase
  BY <1>6, <1>7 DEF Behind
<1>9. UntapAhead(Gap)' => UntapAhead(Gap)
  <2>1. UntapAhead(Gap)' => UntapAhead(1)
    BY <1>6, <1>7 DEF UntapAhead
  <2>. QED
    BY <1>7, <2>1, UntapNearer DEF IInv, Typed
<1>10. WarnsAsBefore
  <2>. SUFFICES ASSUME NEW to, Heralds(eventsQueue', to)
                PROVE  Heralds(eventsQueue, to) /\ Head(eventsQueue').heard = Head(eventsQueue).heard
    BY DEF WarnsAsBefore
  <2>1. Heralds(eventsQueue, to)
    BY <1>3, QueueIs, StepHeralds
  <2>. QED
    BY <1>3, <2>1, QueueIs, StepKeepsHerald
<1>11. Closed'
  BY <1>6 DEF Lasting, Closed
<1>12. (Closing' => Closing) /\ ~CleanupHeard' /\ ~Turning'
  BY <1>2, <1>4, <1>5, <1>6, <1>7, <1>8 DEF Closing, CleanupHeard, Turning
<1>. QED
  BY <1>3, <1>9, <1>10, <1>11, <1>12, LastingSame

\* Where a phase has arrived the ring is at the end of a turn only with the game.
LEMMA RestPhase ==
  ASSUME ToRest
  PROVE  currentPhase = currentGamePhase \/ currentPhase # "AFTER_EOT"
<1>1. InPlace => currentPhase = currentGamePhase \/ currentPhase # "AFTER_EOT"
  BY DEF InPlace
<1>2. LateStep \/ AtEnd => currentPhase # "AFTER_EOT"
  BY DEF LateStep, AtEnd
<1>. QED
  BY <1>1, <1>2 DEF ToRest, Resting, Settled, Entering, Enters, Stepping, HurriedToDamage,
                    HurriedAndHeard, HurriedToEnd, EndWarned, EndReached

\* Only a phase that has been asked for begins or ends a turn.
LEMMA EdgeIsEntered ==
  ASSUME ToRest, calls # <<>>, Head(calls).op = "entered",
         currentGamePhase \in {"BEFORE_BEGIN", "AFTER_EOT"}
  PROVE  Entering
<1>1. ~Stepping
  BY DEF Stepping, StepComes
<1>2. ~HurriedToDamage /\ ~HurriedAndHeard /\ ~HurriedToEnd /\ ~EndWarned /\ ~EndReached
  BY DEF HurriedToDamage, HurriedAndHeard, LateStep, HurriedToEnd, EndWarned, EndReached, AtEnd
<1>3. ~Resting
  <2>1. PICK u, g : u = Call("update", FALSE) /\ g = Call("nextGamePhase", FALSE)
    OBVIOUS
  <2>2. u.op # "entered" /\ g.op # "entered"
    BY <2>1 DEF Call
  <2>3. Resting => calls = <<u>> \/ calls = <<g>> \/ calls = <<u, g>>
    BY <2>1 DEF Resting, CallsOfSettled, NextGamePhaseCalls
  <2>. QED
    BY <2>2, <2>3
<1>. QED
  BY <1>1, <1>2, <1>3 DEF ToRest

LEMMA EnteredAtEnd ==
  ASSUME RingTyped, Entering, currentGamePhase = "AFTER_EOT"
  PROVE  currentPhase = "AFTER_EOT"
<1>1. PICK n \in Nat : n = Len(turn)
  BY ChainedIs DEF RingTyped
<1>2. PICK c \in 1..n : c = current
  BY <1>1 DEF RingTyped
<1>3. \A k \in 1..n : turn[k].id = "AFTER_EOT" => k = n
  BY <1>1, ChainedIs DEF RingTyped
<1>4. ASSUME NEW k \in 1..c, turn[k].id = "AFTER_EOT"
      PROVE  turn[c].id = "AFTER_EOT"
  BY <1>2, <1>3, <1>4
<1>. QED
  BY <1>2, <1>4 DEF Entering, Enters, InPlace, currentPhase

LEMMA EnteredLasting ==
  ASSUME IInv, IInv', Lasting, entered
  PROVE  Lasting'
<1>1. /\ calls # <<>> /\ Head(calls).op = "entered"
      /\ UNCHANGED ring /\ eventsQueue' = eventsQueue
  BY DEF entered, Runs
<1>2. ToRest
  BY <1>1, SituationIs DEF Arrived
<1>3. /\ IsList(Tail(calls))
      /\ Tail(calls) # <<>> => Head(Tail(calls)).op \in {"entered", "nextGamePhase"}
  BY <1>1, <1>2, BehindArrival
<1>4. turn' = turn /\ current' = current /\ currentPhase' = currentPhase
  BY <1>1 DEF ring, currentPhase
<1>5. ~Moving /\ ~Reaching /\ Gap = 1 /\ Behind = currentPhase
  BY <1>1 DEF Moving, Reaching, Gap, Behind
<1>6. PICK x : x = Call("nextGamePhase", Head(calls).nested)
  OBVIOUS
<1>7. x.op = "nextGamePhase"
  BY <1>6 DEF Call
<1>8. (calls' = <<x>> \o Tail(calls)) => calls' # <<>> /\ Head(calls') = x
  BY <1>3, LedBy
<1>9. calls' = <<x>> \o Tail(calls) \/ calls' = Tail(calls)
  BY <1>6 DEF entered
<1>10. ~Moving' /\ ~Reaching' /\ Gap' = 1 /\ Behind' = currentPhase
  BY <1>3, <1>4, <1>7, <1>8, <1>9 DEF Moving, Reaching, Gap, Behind
<1>11. (UntapAhead(Gap)' => UntapAhead(Gap)) /\ Closed' /\ ~CleanupHeard'
  <2>1. UntapAhead(Gap)' => UntapAhead(1)
    BY <1>4, <1>10 DEF UntapAhead
  <2>. QED
    BY <1>4, <1>5, <1>10, <2>1 DEF Lasting, Closed, CleanupHeard
<1>12. CASE currentGamePhase \notin {"BEFORE_BEGIN", "AFTER_EOT"}
  <2>1. calls' = Tail(calls) /\ UNCHANGED <<alters, currentPlayer, extraTurn, skippingTurn>>
    BY <1>12 DEF entered, turnCounts
  <2>2. Closing' => Closing
    BY <1>1, <1>4, <1>5, <1>10 DEF Closing
  <2>3. ~Turning'
    BY <1>2, <1>10, <1>12, RestPhase DEF Turning
  <2>4. WarnsAsBefore
    BY <1>1 DEF WarnsAsBefore
  <2>. QED
    BY <1>11, <2>1, <2>2, <2>3, <2>4, LastingSame
<1>13. CASE currentGamePhase \in {"BEFORE_BEGIN", "AFTER_EOT"}
  <2>1. Entering
    BY <1>1, <1>2, <1>13, EdgeIsEntered
  <2>2. \A to : ~Heralds(eventsQueue', to)
    BY <1>1, <2>1 DEF Entering, Heralds
  <2>3. /\ BeginsTurn \/ EndsTurn
        /\ alters' = Living /\ calls' = <<x>> \o Tail(calls)
    BY <1>6, <1>13 DEF entered
  <2>4. Head(calls') = x /\ calls' # <<>> /\ ~(Head(calls').op \in {"landed", "arrive", "entered"})
    BY <1>7, <1>8, <2>3
  <2>5. alters \in Seq(Sparing)
    BY DEF IInv, Typed
  <2>6. CASE currentGamePhase = "BEFORE_BEGIN"
    <3>1. UNCHANGED <<currentPlayer, extraTurn, skippingTurn>>
      BY <2>3, <2>6 DEF BeginsTurn, EndsTurn, turnCounts
    <3>2. NoneNew
      BY <2>3, <2>5, LivingIsOld
    <3>3. Closing' => Closing
      BY <1>5, <1>10, <2>4 DEF Closing
    <3>4. ~Turning'
      BY <1>2, <1>10, <2>6, RestPhase DEF Turning
    <3>. QED
      BY <1>1, <1>11, <2>2, <3>1, <3>2, <3>3, <3>4, LastingOld
  <2>7. CASE currentGamePhase = "AFTER_EOT"
    <3>1. currentPhase = "AFTER_EOT"
      BY <2>1, <2>7, EnteredAtEnd DEF IInv, Typed
    <3>2. NoneStale(Len(alters))
      BY <1>1, <3>1 DEF Lasting, Swept, Closing
    <3>3. nextPlayer
      BY <2>3, <2>7 DEF BeginsTurn, EndsTurn
    <3>4. PICK p \in {0, 1} : p = currentPlayer
      BY DEF IInv, Typed, FlowTyped, Players
    <3>5. PICK q \in {0, 1} : q = Other(p) /\ q # p
      BY <3>4 DEF Other
    <3>6. extraTurn[p] = 0 /\ skippingTurn[q] = 0
      BY DEF Lasting, NoTurns, Players
    <3>7. extraTurn \in [{0, 1} -> 0..1] /\ skippingTurn \in [{0, 1} -> 0..1]
      BY DEF IInv, Typed, FlowTyped, Players
    <3>8. /\ extraTurn' = [extraTurn EXCEPT ![p] = IF @ > 0 THEN @ - 1 ELSE @]
          /\ skippingTurn' = [skippingTurn EXCEPT ![q] = IF @ > 0 THEN @ - 1 ELSE @]
          /\ currentPlayer' = q
      <4>1. PICK y : y = IF extraTurn[p] > 0 THEN p ELSE Other(p)
        OBVIOUS
      <4>2. ~(extraTurn[p] > 0) /\ ~(skippingTurn[q] > 0)
        BY <3>6
      <4>3. y = q
        BY <3>5, <4>1, <4>2
      <4>4. /\ extraTurn' = [extraTurn EXCEPT ![p] = IF @ > 0 THEN @ - 1 ELSE @]
            /\ skippingTurn' = [skippingTurn EXCEPT ![y] = IF @ > 0 THEN @ - 1 ELSE @]
            /\ currentPlayer' = IF skippingTurn[y] > 0 THEN Other(y) ELSE y
        BY <3>3, <3>4, <4>1, Zenon DEF nextPlayer
      <4>. QED
        BY <4>2, <4>3, <4>4
    <3>9. NoTurns'
      <4>1. \A k \in {0, 1} : extraTurn[k] = 0 /\ skippingTurn[k] = 0
        BY DEF Lasting, NoTurns, Players
      <4>2. \A k \in {0, 1} : extraTurn'[k] = 0 /\ skippingTurn'[k] = 0
        BY <3>7, <3>8, <4>1
      <4>. QED
        BY <4>2 DEF NoTurns, Players
    <3>10. ~Spending'
      <4>. SUFFICES ASSUME NEW n \in 1..Len(alters'), Spent(alters[n])'
                    PROVE  FALSE
        BY DEF Spending
      <4>1. PICK k \in 1..Len(alters) : alters'[n] = alters[k] /\ ~alters[k].done
        BY <2>3, <2>5, LivingIs
      <4>2. alters[k].next /\ alters[k].applied /\ alters[k].who = q
        BY <3>8, <4>1 DEF Spent
      <4>3. Stale(alters[k])
        BY <3>4, <3>5, <4>1, <4>2 DEF Stale
      <4>4. k <= Len(alters)
        BY <2>5
      <4>. QED
        BY <3>2, <4>3, <4>4 DEF NoneStale
    <3>11. Untapped'
      BY <2>2, <3>10 DEF Untapped
    <3>12. ~Closing'
      BY <1>10, <2>4, <3>1 DEF Closing
    <3>13. Swept'
      BY <1>11, <2>2, <3>10, <3>12 DEF Swept
    <3>. QED
      BY <1>11, <3>9, <3>11, <3>13 DEF Lasting
  <2>. QED
    BY <1>13, <2>6, <2>7
<1>. QED
  BY <1>12, <1>13

LEMMA RecurseLasting ==
  ASSUME IInv, Lasting, recurse
  PROVE  Lasting'
<1>1. /\ calls # <<>> /\ Head(calls).op = "nextGamePhase"
      /\ UNCHANGED ring /\ UNCHANGED <<alters, currentPlayer, extraTurn, skippingTurn>>
      /\ nextGamePhase(Head(calls).nested, Tail(calls), eventsQueue)
  BY DEF recurse, Runs, turnCounts
<1>2. /\ IsList(Tail(calls))
      /\ Tail(calls) # <<>> => Head(Tail(calls)).op \in {"entered", "nextGamePhase"}
  BY <1>1, SituationIs, BehindArrival DEF Arrived
<1>3. turn' = turn /\ current' = current /\ currentPhase' = currentPhase
  BY <1>1 DEF ring, currentPhase
<1>4. PICK f, l : /\ f = Call("forward", Head(calls).nested)
                  /\ l = [op |-> "landed", nested |-> Head(calls).nested, from |-> currentPhase]
  OBVIOUS
<1>5. f.op = "forward"
  BY <1>4 DEF Call
<1>6. IF StaysInPhase THEN calls' = Tail(calls) ELSE calls' = <<f, l>> \o Tail(calls)
  BY <1>1, <1>4 DEF nextGamePhase
<1>7. ~StaysInPhase => calls' # <<>> /\ Head(calls') = f
  <2>1. \A s : s = <<f, l>> \o Tail(calls) => s # <<>> /\ Head(s) = f
    BY <1>2, LedBy
  <2>. QED
    BY <1>6, <2>1
<1>8. calls' # <<>> => Head(calls').op \in {"entered", "nextGamePhase", "forward"}
  BY <1>2, <1>5, <1>6, <1>7
<1>9. ~Moving /\ ~Moving' /\ ~Reaching /\ ~Reaching' /\ Gap = 1 /\ Gap' = 1
  BY <1>1, <1>8 DEF Moving, Reaching, Gap
<1>10. Behind = currentPhase /\ Behind' = currentPhase
  BY <1>3, <1>9 DEF Behind
<1>11. UntapAhead(Gap)' => UntapAhead(Gap)
  BY <1>3, <1>9 DEF UntapAhead
<1>12. WarnsAsBefore
  <2>1. eventsQueue' = eventsQueue \/ nextCombatStep(eventsQueue)
    BY <1>1 DEF nextGamePhase
  <2>. SUFFICES ASSUME NEW to, Heralds(eventsQueue', to)
                PROVE  Heralds(eventsQueue, to) /\ Head(eventsQueue').heard = Head(eventsQueue).heard
    BY DEF WarnsAsBefore
  <2>2. Heralds(eventsQueue, to)
    BY <2>1, QueueIs, StepHeralds
  <2>. QED
    BY <2>1, <2>2, QueueIs, StepKeepsHerald
<1>13. StaysInPhase => currentPhase \notin {"CLEANUP", "AFTER_EOT"}
  BY DEF StaysInPhase
<1>14. Closing' => Closing
  BY <1>3, <1>5, <1>7, <1>10, <1>13 DEF Closing
<1>15. Turning' => Turning
  BY <1>1, <1>9, <1>10 DEF Turning
<1>16. Closed' /\ ~CleanupHeard'
  BY <1>3, <1>9 DEF Lasting, Closed, CleanupHeard
<1>. QED
  BY <1>1, <1>11, <1>12, <1>14, <1>15, <1>16, LastingSame

\* Behind an update comes nothing, or the request.
LEMMA UpdateWhere ==
  ASSUME ToRest, calls # <<>>, Head(calls).op = "update"
  PROVE  /\ eventsQueue = <<>>
         /\ Tail(calls) # <<>> => Head(Tail(calls)).op = "nextGamePhase"
<1>1. Resting
  <2>1. PICK x, y : x = Enter /\ y = Call("entered", TRUE)
    OBVIOUS
  <2>2. x.op = "entered" /\ y.op = "entered"
    BY <2>1 DEF Enter, Call
  <2>3. /\ Entering \/ Stepping \/ HurriedToDamage \/ HurriedAndHeard \/ EndWarned \/ EndReached =>
             calls = <<>> \/ calls = <<x>> \/ calls = <<y>>
    BY <2>1 DEF Entering, Stepping, HurriedToDamage, HurriedAndHeard, EndWarned, EndReached, Rests
  <2>4. ~HurriedToEnd
    <3>. SUFFICES ASSUME HurriedToEnd PROVE FALSE
      OBVIOUS
    <3>1. PICK rest \in Rests : calls = <<Call("entered", TRUE)>> \o rest
      BY DEF HurriedToEnd
    <3>2. Head(calls) = Call("entered", TRUE)
      BY <3>1, RestsAreLists, LedBy
    <3>. QED
      BY <2>1, <2>2, <3>2
  <2>. QED
    BY <2>2, <2>3, <2>4 DEF ToRest
<1>2. PICK u, g : u = Call("update", FALSE) /\ g = Call("nextGamePhase", FALSE)
  OBVIOUS
<1>3. g.op = "nextGamePhase"
  BY <1>2 DEF Call
<1>4. calls = <<u>> \/ calls = <<g>> \/ calls = <<u, g>>
  BY <1>1, <1>2 DEF Resting, CallsOfSettled, NextGamePhaseCalls
<1>. QED
  BY <1>1, <1>3, <1>4 DEF Resting

LEMMA UpdateLayerLasting ==
  ASSUME IInv, IInv', Lasting, UpdateLayer
  PROVE  Lasting'
<1>1. /\ calls # <<>> /\ Head(calls).op = "update" /\ calls' = Tail(calls) /\ alters' = Living
      /\ UNCHANGED ring /\ UNCHANGED <<currentPlayer, extraTurn, skippingTurn, eventsQueue>>
  BY DEF UpdateLayer, Runs, turnCounts, flow
<1>2. /\ eventsQueue = <<>>
      /\ calls' # <<>> => Head(calls').op = "nextGamePhase"
  BY <1>1, SituationIs, UpdateWhere DEF Arrived
<1>3. turn' = turn /\ current' = current /\ currentPhase' = currentPhase
  BY <1>1 DEF ring, currentPhase
<1>4. ~Moving /\ ~Moving' /\ ~Reaching /\ ~Reaching' /\ Gap = 1 /\ Gap' = 1
  BY <1>1, <1>2 DEF Moving, Reaching, Gap
<1>5. Behind = currentPhase /\ Behind' = currentPhase
  BY <1>3, <1>4 DEF Behind
<1>6. UntapAhead(Gap)' => UntapAhead(Gap)
  BY <1>3, <1>4 DEF UntapAhead
<1>7. \A to : ~Heralds(eventsQueue', to)
  BY <1>1, <1>2 DEF Heralds
<1>8. (Closing' => Closing) /\ (Turning' => Turning) /\ ~CleanupHeard'
  BY <1>1, <1>2, <1>3, <1>4, <1>5 DEF Closing, Turning, CleanupHeard
<1>9. NoneNew
  BY <1>1, LivingIsOld DEF IInv, Typed
<1>. QED
  BY <1>1, <1>6, <1>7, <1>8, <1>9, LastingOld

LEMMA ChangeLasting ==
  ASSUME IInv, Lasting, HearPhaseChange
  PROVE  Lasting'
<1>1. /\ Delivers("PhaseChange") /\ calls' = calls /\ eventsQueue' = Tail(eventsQueue)
      /\ UNCHANGED ring /\ UNCHANGED <<alters, currentPlayer, extraTurn, skippingTurn>>
  BY DEF HearPhaseChange, flow, turnCounts
<1>2. \A to : ~Heralds(eventsQueue', to)
  BY <1>1, ChangeIsLast
<1>3. ~Moving
  <2>. SUFFICES ASSUME Moving PROVE FALSE
    OBVIOUS
  <2>1. ToMove /\ ~Head(calls).nested
    BY <1>1, SituationIs DEF Moving, Delivers
  <2>2. Heading(Head(calls))
    BY <2>1, MoveWhere
  <2>3. eventsQueue # <<>> /\ Head(eventsQueue).type = "PhaseChange"
    BY <1>1 DEF Delivers
  <2>. QED
    BY <2>2, <2>3 DEF Heading, Warns, IsPreChange
<1>4. turn' = turn /\ current' = current /\ currentPhase' = currentPhase
  BY <1>1 DEF ring, currentPhase
<1>5. Moving' = Moving /\ Reaching' = Reaching /\ Gap' = Gap /\ Behind' = Behind
  BY <1>1, <1>3, <1>4 DEF Moving, Reaching, Gap, Behind
<1>6. UntapAhead(Gap)' => UntapAhead(Gap)
  BY <1>4, <1>5 DEF UntapAhead
<1>7. (Closing' => Closing) /\ (Turning' => Turning) /\ ~CleanupHeard' /\ Closed'
  BY <1>1, <1>3, <1>4, <1>5 DEF Closing, Turning, CleanupHeard, Lasting, Closed
<1>. QED
  BY <1>1, <1>2, <1>6, <1>7, LastingSame

LEMMA StepLasting ==
  ASSUME IInv, Lasting, HearCombatStep
  PROVE  Lasting'
<1>1. /\ Delivers("CombatStepChange")
      /\ UNCHANGED ring /\ UNCHANGED <<alters, currentPlayer, extraTurn, skippingTurn>>
  BY DEF HearCombatStep, turnCounts
<1>2. Stepping /\ calls \in Rests /\ IsList(calls)
  BY <1>1, StepWhere, RestsAreLists DEF Stepping
<1>3. PICK f, l : f = Call("forward", TRUE) /\ l = [op |-> "landed", nested |-> TRUE, from |-> currentPhase]
  OBVIOUS
<1>4. /\ Head(eventsQueue).step = combatStep /\ Tail(eventsQueue) = <<>>
      /\ currentPhase \in {"COMBATBLOCKERS", "COMBATDAMAGE"}
  BY <1>2 DEF Stepping, StepChange, StepComes
<1>5. /\ calls' = calls \/ calls' = <<f, l>> \o calls
      /\ eventsQueue' = <<>> \/ nextCombatStep(<<>>)
  <2>1. PICK h \in BOOLEAN : h = human
    <3>1. human \in BOOLEAN
      BY DEF human
    <3>. QED
      BY <3>1
  <2>2. PICK asks : asks = RequestAfter(combatStep, h)
    OBVIOUS
  <2>3. asks \in {"nothing", "nextCombatStep", "userRequestNextGamePhase"}
    BY <1>2, <2>1, <2>2, StepAsks DEF Requests, Stepping
  <2>4. /\ CASE asks = "nothing" ->
                  eventsQueue' = Tail(eventsQueue) /\ UNCHANGED <<combatStep, calls>>
             [] asks = "nextCombatStep" ->
                  nextCombatStep(Tail(eventsQueue)) /\ UNCHANGED calls
             [] asks = "userRequestNextGamePhase" ->
                  nextGamePhase(TRUE, calls, Tail(eventsQueue))
    BY <1>4, <2>1, <2>2, Zenon DEF HearCombatStep
  <2>5. \/ eventsQueue' = <<>> /\ calls' = calls
        \/ nextCombatStep(<<>>) /\ calls' = calls
        \/ nextGamePhase(TRUE, calls, <<>>)
    BY <1>4, <2>3, <2>4
  <2>. QED
    BY <1>3, <2>5 DEF nextGamePhase
<1>6. \A to : ~Heralds(eventsQueue', to)
  <2>1. IsList(<<>>) /\ \A to : ~Heralds(<<>>, to)
    BY ListsAre DEF Heralds
  <2>. QED
    BY <1>5, <2>1, StepHeralds
<1>7. calls # <<>> => Head(calls).op = "entered"
  <2>1. PICK x : x = Enter
    OBVIOUS
  <2>2. x.op = "entered"
    BY <2>1 DEF Enter, Call
  <2>3. calls = <<>> \/ calls = <<x>>
    BY <1>2, <2>1 DEF Rests
  <2>. QED
    BY <2>2, <2>3
<1>8. calls' # <<>> => Head(calls').op \in {"entered", "forward"}
  <2>1. Head(<<f, l>> \o calls) = f /\ f.op = "forward"
    BY <1>2, <1>3, LedBy DEF Call
  <2>. QED
    BY <1>5, <1>7, <2>1
<1>9. turn' = turn /\ current' = current /\ currentPhase' = currentPhase
  BY <1>1 DEF ring, currentPhase
<1>10. ~Moving /\ ~Moving' /\ ~Reaching /\ ~Reaching' /\ Gap = 1 /\ Gap' = 1
  BY <1>7, <1>8 DEF Moving, Reaching, Gap
<1>11. Behind' = currentPhase
  BY <1>9, <1>10 DEF Behind
<1>12. ~Closing' /\ ~Turning' /\ ~CleanupHeard' /\ Closed'
  BY <1>4, <1>9, <1>10, <1>11 DEF Closing, Turning, CleanupHeard, Lasting, Closed
<1>13. UntapAhead(Gap)' => UntapAhead(Gap)
  BY <1>9, <1>10 DEF UntapAhead
<1>. QED
  BY <1>1, <1>6, <1>12, <1>13, LastingSame

\* A warning leaves the cursor behind the phase of which it is, or behind an end
\* of combat; the one at the end of a turn is of that end.
LEMMA WarningCloses ==
  ASSUME IInv, HearPreChange
  PROVE  /\ Closing' => Closing
         /\ Turning' => Turning /\ Head(eventsQueue).to = "AFTER_EOT"
         /\ Gap' = Gap
<1>1. Delivers("PhasePreChange") /\ calls' = calls /\ eventsQueue # <<>>
  BY DEF HearPreChange, Delivers
<1>2. PICK e : e = Head(eventsQueue)
  OBVIOUS
<1>3. /\ RingTyped /\ alters \in Seq(Sparing) /\ Len(alters) \in Nat
  BY DEF IInv, Typed
<1>4. Moving' = Moving /\ Reaching' = Reaching /\ Gap' = Gap
  BY <1>1 DEF Moving, Reaching, Gap
<1>5. CASE HurriedToDamage \/ EndWarned
  <2>1. calls # <<>> => Head(calls).op = "entered"
    <3>1. PICK x, y : x = Enter /\ y = Call("entered", TRUE)
      OBVIOUS
    <3>2. x.op = "entered" /\ y.op = "entered"
      BY <3>1 DEF Enter, Call
    <3>3. calls = <<>> \/ calls = <<x>> \/ calls = <<y>>
      BY <1>5, <3>1 DEF HurriedToDamage, EndWarned, Rests
    <3>. QED
      BY <3>2, <3>3
  <2>2. ~Moving
    BY <2>1 DEF Moving
  <2>3. currentPhase \in {"COMBATDAMAGE", "COMBATEND", "COMBATBEGIN"} /\ e.to \in {"COMBATDAMAGE", "COMBATEND"}
    <3>1. PICK f, g, s : f = eventsQueue[1] /\ g = eventsQueue[2] /\ s = StepChange
      OBVIOUS
    <3>2. eventsQueue = <<f, g, s>> \/ eventsQueue = <<f, g>>
      BY <1>5, <3>1 DEF HurriedToDamage, EndWarned
    <3>3. e = eventsQueue[1]
      BY <1>2, <3>1, <3>2
    <3>. QED
      BY <1>5, <3>3 DEF HurriedToDamage, LateStep, EndWarned, AtEnd
  <2>4. currentPhase' \in {"COMBATDAMAGE", "COMBATEND", "COMBATBEGIN"}
    <3>1. CASE UNCHANGED ring
      BY <2>3, <3>1 DEF ring, currentPhase
    <3>2. CASE ~(UNCHANGED ring)
      <4>1. IsPreChange(e) /\ (e.to = "COMBATEND" => \E i \in 1..current : turn[i].id = "COMBATEND")
        BY <1>1, <1>2, WarningIs
      <4>2. PICK n, to : n = e.heard + 1 /\ to = e.to
        OBVIOUS
      <4>3. ~(n > Len(alters)) /\ PhaseAltered(n, to)
        BY <1>2, <3>2, <4>2 DEF HearPreChange
      <4>4. n \in 1..Len(alters)
        BY <1>3, <4>1, <4>2, <4>3 DEF IsPreChange
      <4>5. Extended
        BY <1>3, <2>3, <3>2, <4>1, <4>2, <4>3, <4>4, AlteringIs DEF Kept
      <4>. QED
        BY <4>5 DEF Extended, currentPhase
    <3>. QED
      BY <3>1, <3>2
  <2>5. Behind' = currentPhase'
    BY <1>4, <2>2 DEF Behind
  <2>. QED
    BY <1>4, <2>4, <2>5 DEF Closing, Turning
<1>6. CASE Warned \/ SkipsBlockersWarned \/ SkipsDamageWarned
  <2>1. ToMove
    BY <1>6 DEF ToMove
  <2>2. calls # <<>> /\ Head(calls).op = "move" /\ ~Head(calls).nested
    BY <1>1, <2>1, MoveWhere DEF Delivers
  <2>3. PICK m : m = Head(calls)
    OBVIOUS
  <2>4. Heading(m)
    BY <2>1, <2>2, <2>3, MoveWhere
  <2>5. turn'[Here(m)'].id = turn[Here(m)].id \/ turn'[Here(m)'].id = "COMBATEND"
    BY <1>1, <1>3, <2>4, WarningKeepsHeading, Zenon
  <2>6. Moving /\ Behind = turn[Here(m)].id /\ Behind' = turn'[Here(m)'].id
    BY <1>1, <1>4, <2>2, <2>3 DEF Moving, Behind, Here
  <2>7. Closing' => Closing
    BY <1>1, <2>2, <2>5, <2>6 DEF Closing
  <2>8. Turning' => Turning /\ Behind = "AFTER_EOT"
    BY <1>1, <1>4, <2>2, <2>5, <2>6 DEF Turning
  <2>9. Warns(e, m)
    BY <1>1, <1>2, <2>4 DEF Heading
  <2>10. Behind = "AFTER_EOT" => e.to = "AFTER_EOT"
    BY <2>6, <2>9 DEF Warns, After
  <2>. QED
    BY <1>2, <1>4, <2>7, <2>8, <2>10
<1>. QED
  BY <1>1, <1>5, <1>6, HeraldWhere

\* A warning that all have heard.
LEMMA HeardLasting ==
  ASSUME IInv, Lasting, Heeding, HearPreChange, Head(eventsQueue).heard + 1 > Len(alters)
  PROVE  Lasting'
<1>1. /\ Delivers("PhasePreChange") /\ calls' = calls /\ eventsQueue' = Tail(eventsQueue)
      /\ UNCHANGED ring /\ UNCHANGED <<alters, currentPlayer, extraTurn, skippingTurn>>
  BY DEF HearPreChange, turnCounts
<1>2. PICK e : e = Head(eventsQueue)
  OBVIOUS
<1>3. IsPreChange(e) /\ \A to : ~Heralds(Tail(eventsQueue), to)
  BY <1>1, <1>2, WarningIs
<1>4. turn' = turn /\ current' = current /\ currentPhase' = currentPhase /\ Gap' = Gap
  BY <1>1, WarningCloses DEF ring, currentPhase
<1>5. NoTurns' /\ Closed' /\ Spending' = Spending /\ \A k : NoneStale(k)' = NoneStale(k)
  BY <1>1, <1>4 DEF Lasting, NoTurns, Closed, Spending, Spent, NoneStale, Stale
<1>6. Untapped'
  <2>1. UntapAhead(Gap)' => UntapAhead(Gap)
    BY <1>4 DEF UntapAhead
  <2>. QED
    BY <1>1, <1>3, <1>5, <2>1 DEF Lasting, Untapped
<1>7. CleanupHeard' => NoneStale(Len(alters))
  <2>. SUFFICES ASSUME CleanupHeard' PROVE NoneStale(Len(alters))
    OBVIOUS
  <2>1. calls # <<>> /\ Head(calls).op = "move" /\ Len(turn) = Head(calls).turnSteps /\ currentPhase = "CLEANUP"
    BY <1>1, <1>4 DEF CleanupHeard, Moving
  <2>2. Asked({"move"}) /\ eventsQueue # <<>>
    BY <1>1, <2>1 DEF Asked, Delivers
  <2>3. e.to = "CLEANUP"
    BY <1>2, <2>1, <2>2 DEF Heeding, Heard
  <2>4. Heralds(eventsQueue, "CLEANUP")
    BY <1>1, <1>2, <2>3 DEF Heralds, Delivers
  <2>5. NoneStale(e.heard)
    BY <1>2, <2>4 DEF Lasting, Swept
  <2>6. Len(alters) \in Nat /\ e.heard \in Nat
    BY <1>3 DEF IInv, Typed, IsPreChange
  <2>. QED
    BY <1>2, <2>5, <2>6 DEF NoneStale
<1>8. Swept'
  <2>1. Closing' \/ CleanupHeard' => NoneStale(Len(alters))'
    BY <1>1, <1>5, <1>7, WarningCloses DEF Lasting, Swept
  <2>2. Turning' => ~Spending'
    BY <1>5, WarningCloses DEF Lasting, Swept
  <2>3. ~Heralds(eventsQueue, "CLEANUP")'
    BY <1>1, <1>3
  <2>. QED
    BY <2>1, <2>2, <2>3 DEF Swept
<1>. QED
  BY <1>5, <1>6, <1>8 DEF Lasting

\* A warning that an ability hears.
LEMMA AppliedLasting ==
  ASSUME IInv, Lasting, AltersSpare({"CLEANUP"}), HearPreChange,
         Head(eventsQueue).heard + 1 <= Len(alters)
  PROVE  Lasting'
<1>1. /\ Delivers("PhasePreChange") /\ calls' = calls
      /\ UNCHANGED <<currentPlayer, extraTurn, skippingTurn>>
  BY DEF HearPreChange, turnCounts
<1>2. PICK e, to, q : e = Head(eventsQueue) /\ to = e.to /\ q = [eventsQueue EXCEPT ![1].heard = e.heard + 1]
  OBVIOUS
<1>3. IsPreChange(e) /\ (to = "COMBATEND" => \E i \in 1..current : turn[i].id = "COMBATEND")
  BY <1>1, <1>2, WarningIs
<1>4. /\ RingTyped /\ alters \in Seq(Sparing) /\ Len(alters) \in Nat
  BY DEF IInv, Typed
<1>5. PICK n \in 1..Len(alters) : n = e.heard + 1 /\ e.heard \in Nat
  BY <1>2, <1>3, <1>4 DEF IsPreChange
<1>6. PhaseAltered(n, to) /\ eventsQueue' = q
  <2>1. ~(n > Len(alters))
    BY <1>4, <1>5
  <2>. QED
    BY <1>2, <1>5, <2>1 DEF HearPreChange
<1>7. \A x : Heralds(eventsQueue', x) => x = to
  <2>1. \A k : \A x : Heralds([eventsQueue EXCEPT ![1].heard = k], x) => x = e.to
    BY <1>1, <1>2, WarningIs
  <2>. QED
    BY <1>2, <1>6, <2>1
<1>8. Heralds(eventsQueue', to) /\ Head(eventsQueue').heard = n
  BY <1>1, <1>2, <1>5, <1>6, WarningIsMarked
<1>9. Heralds(eventsQueue, to) /\ Head(eventsQueue).heard = e.heard
  BY <1>1, <1>2 DEF Delivers, Heralds
<1>10. /\ Closed'
       /\ \A d \in {0, 1} : UntapAhead(d)' => UntapAhead(d)
       /\ (/\ to = "UNTAP" /\ alters[n].who = currentPlayer /\ alters[n].id = to
           /\ IndexOf(to) # 0) => \A d : ~UntapAhead(d)'
  BY <1>3, <1>4, <1>6, WarningSpares DEF Lasting
<1>11. /\ Len(alters') = Len(alters)
       /\ \A k : NoneStale(k) => NoneStale(k)'
       /\ \A k \in Nat : (to = "CLEANUP" /\ NoneStale(k) /\ n = k + 1) => NoneStale(n)'
       /\ (Spending' /\ ~Spending) =>
            alters[n].who = currentPlayer /\ alters[n].id = to /\ IndexOf(to) # 0
  BY <1>1, <1>4, <1>6, MarkedSweeps, MarkedIs
<1>12. PICK g \in {0, 1} : g = Gap /\ g = Gap'
  BY WarningCloses DEF Gap
<1>13. UntapAhead(Gap)' => UntapAhead(g)'
  BY <1>12 DEF UntapAhead
<1>14. Untapped'
  <2>1. CASE ~UntapAhead(g)
    BY <1>10, <1>12, <1>13, <2>1 DEF Untapped
  <2>2. CASE UntapAhead(g)
    <3>1. ~Spending /\ to = "UNTAP"
      BY <1>3, <1>2, <1>9, <1>12, <2>2 DEF Lasting, Untapped, IsPreChange
    <3>2. Spending' => ~UntapAhead(g)'
      BY <1>10, <1>11, <3>1
    <3>3. \A x \in PhaseIds \ {"UNTAP"} : ~Heralds(eventsQueue', x)
      BY <1>7, <3>1
    <3>. QED
      BY <1>13, <3>2, <3>3 DEF Untapped
  <2>. QED
    BY <2>1, <2>2
<1>15. Swept'
  <2>1. ~CleanupHeard'
    BY <1>8 DEF CleanupHeard, Heralds
  <2>2. Closing' => NoneStale(Len(alters))'
    <3>1. PICK l : l = Len(alters)
      OBVIOUS
    <3>2. Closing' => NoneStale(l)'
      BY <1>11, <3>1, WarningCloses DEF Lasting, Swept
    <3>. QED
      BY <1>11, <3>1, <3>2 DEF NoneStale
  <2>3. Heralds(eventsQueue, "CLEANUP")' => NoneStale(Head(eventsQueue).heard)'
    <3>. SUFFICES ASSUME Heralds(eventsQueue', "CLEANUP") PROVE NoneStale(Head(eventsQueue).heard)'
      OBVIOUS
    <3>1. to = "CLEANUP"
      BY <1>7
    <3>2. NoneStale(e.heard)
      BY <1>9, <3>1 DEF Lasting, Swept
    <3>3. NoneStale(n)'
      BY <1>5, <1>11, <3>1, <3>2
    <3>. QED
      BY <1>8, <3>3 DEF NoneStale
  <2>4. Turning' => ~Spending'
    <3>. SUFFICES ASSUME Turning' PROVE ~Spending'
      OBVIOUS
    <3>1. Turning /\ to = "AFTER_EOT"
      BY <1>2, WarningCloses
    <3>2. ~Spending
      BY <3>1 DEF Lasting, Swept
    <3>3. alters[n].id # "AFTER_EOT"
      BY <1>4 DEF Sparing, Kept
    <3>. QED
      BY <1>11, <3>1, <3>2, <3>3
  <2>. QED
    BY <2>1, <2>2, <2>3, <2>4 DEF Swept
<1>16. NoTurns'
  BY <1>1 DEF Lasting, NoTurns
<1>. QED
  BY <1>10, <1>14, <1>15, <1>16 DEF Lasting

LEMMA PreChangeLasting ==
  ASSUME IInv, Lasting, Heeding, AltersSpare({"CLEANUP"}), HearPreChange
  PROVE  Lasting'
<1>1. Delivers("PhasePreChange")
  BY DEF HearPreChange
<1>2. PICK e : e = Head(eventsQueue)
  OBVIOUS
<1>3. IsPreChange(e)
  BY <1>1, <1>2, WarningIs
<1>4. Len(alters) \in Nat /\ e.heard \in Nat
  BY <1>3 DEF IInv, Typed, IsPreChange
<1>5. e.heard + 1 > Len(alters) \/ e.heard + 1 <= Len(alters)
  BY <1>4
<1>. QED
  BY <1>2, <1>5, HeardLasting, AppliedLasting

\* A skip that is given has not been applied.
LEMMA GrantSkipNoneNew ==
  ASSUME alters \in Seq(Sparing), NEW who, NEW source, NEW ids \in Skips, GrantSkip(who, source, ids)
  PROVE  NoneNew
<1>1. PICK added : added = [i \in DOMAIN ids |-> Altering(ids[i], who, FALSE, source)]
  OBVIOUS
<1>2. alters' = alters \o added
  BY <1>1 DEF GrantSkip
<1>3. ids \in Seq(PhaseIds)
  BY FlowAssumption
<1>4. PICK k \in Nat : k = Len(ids) /\ DOMAIN ids = 1..k
  BY <1>3
<1>5. \A i \in 1..k : ~added[i].applied
  BY <1>1, <1>4 DEF Altering
<1>6. PICK S : S = Sparing \cup {added[i] : i \in 1..k}
  OBVIOUS
<1>7. added \in Seq(S) /\ Len(added) = k
  <2>1. added \in [1..k -> S]
    BY <1>1, <1>4, <1>6
  <2>. QED
    BY <2>1
<1>8. alters \in Seq(S)
  BY <1>6
<1>9. PICK m \in Nat : m = Len(alters)
  BY <1>8
<1>10. /\ Len(alters') = m + k
       /\ \A i \in 1..(m + k) : alters'[i] = IF i <= m THEN alters[i] ELSE added[i - m]
  BY <1>2, <1>7, <1>8, <1>9, ConcatProperties
<1>11. ASSUME NEW j \in 1..(m + k), alters'[j].applied
       PROVE  j \in 1..m /\ alters'[j] = alters[j]
  <2>1. CASE j <= m
    BY <1>10, <2>1
  <2>2. CASE ~(j <= m)
    <3>1. j - m \in 1..k /\ alters'[j] = added[j - m]
      BY <1>10, <2>2
    <3>. QED
      BY <1>5, <1>11, <3>1
  <2>. QED
    BY <2>1, <2>2
<1>. QED
  BY <1>9, <1>10, <1>11 DEF NoneNew

LEMMA GrantCombatPhaseNoneNew ==
  ASSUME alters \in Seq(Sparing), GrantCombatPhase
  PROVE  NoneNew
<1>1. PICK a : a = Altering("COMBATEND", currentPlayer, TRUE, "permanent")
  OBVIOUS
<1>2. alters' = Append(alters, a) /\ ~a.applied
  BY <1>1 DEF GrantCombatPhase, Altering
<1>3. PICK S : S = Sparing \cup {a}
  OBVIOUS
<1>4. alters \in Seq(S) /\ a \in S
  BY <1>3
<1>5. PICK m \in Nat : m = Len(alters)
  BY <1>4
<1>6. Len(alters') = m + 1 /\ \A i \in 1..(m + 1) : alters'[i] = IF i = m + 1 THEN a ELSE alters[i]
  BY <1>2, <1>4, <1>5
<1>7. \A i \in 1..(m + 1) : alters'[i].applied => i \in 1..m /\ alters'[i] = alters[i]
  BY <1>2, <1>6
<1>. QED
  BY <1>5, <1>6, <1>7 DEF NoneNew

LEMMA SourceLeavesNoneNew ==
  ASSUME alters \in Seq(Sparing), SourceLeaves
  PROVE  NoneNew
<1>1. PICK k : /\ alters' = [n \in DOMAIN alters |->
                              IF alters[n].card = k THEN [alters[n] EXCEPT !.inPlay = FALSE]
                              ELSE alters[n]]
  BY DEF SourceLeaves
<1>2. Len(alters) \in Nat /\ DOMAIN alters = 1..Len(alters) /\ \A n \in 1..Len(alters) : alters[n] \in Sparing
  OBVIOUS
<1>3. \A a \in Sparing : LET b == [a EXCEPT !.inPlay = FALSE]
                         IN b.next = a.next /\ b.applied = a.applied /\ b.who = a.who /\ b.done = a.done
  BY DEF Sparing, Alterations
<1>4. Len(alters') = Len(alters)
  BY <1>1, <1>2
<1>5. ASSUME NEW n \in 1..Len(alters)
      PROVE  /\ alters'[n].next = alters[n].next /\ alters'[n].applied = alters[n].applied
             /\ alters'[n].who = alters[n].who /\ alters'[n].done = alters[n].done
  <2>1. PICK a \in Sparing : a = alters[n]
    BY <1>2
  <2>2. alters'[n] = a \/ alters'[n] = [a EXCEPT !.inPlay = FALSE]
    BY <1>1, <1>2, <2>1
  <2>. QED
    BY <1>3, <2>1, <2>2
<1>. QED
  BY <1>4, <1>5 DEF NoneNew

\* A combat that is put in after a main phase leaves the untap step behind.
LEMMA AfterMainLasting ==
  ASSUME IInv, Lasting, GrantCombatAfterMain
  PROVE  Lasting'
<1>1. /\ Idle /\ currentGamePhase \in {"FIRSTMAIN", "SECONDMAIN"}
      /\ addCombatAfter(currentGamePhase, TRUE)
      /\ calls' = calls /\ eventsQueue' = eventsQueue
      /\ UNCHANGED <<alters, currentPlayer, extraTurn, skippingTurn>>
  BY DEF GrantCombatAfterMain, turnCounts
<1>2. PICK id : id = currentGamePhase
  OBVIOUS
<1>3. RingTyped
  BY DEF IInv, Typed
<1>4. \E i \in 1..current : turn[i].id = id
  <2>1. InPlace
    BY <1>1, IdleIsResting DEF Settled
  <2>2. current \in 1..current
    BY <1>3, ChainedIs DEF RingTyped
  <2>. QED
    BY <1>2, <2>1, <2>2 DEF InPlace, currentPhase
<1>5. Extends(id, TRUE) /\ addCombatAfter(id, TRUE)
  BY <1>1, <1>2 DEF Extends
<1>6. Closed' /\ \A d \in {0, 1} : ~UntapAhead(d)'
  BY <1>3, <1>4, <1>5, CombatSpares DEF Lasting
<1>7. currentPhase' \in {id, "COMBATBEGIN"}
  BY <1>3, <1>4, <1>5, ExtraCombatIs DEF RingTyped, currentPhase
<1>8. calls' = <<>> /\ eventsQueue' = <<>>
  BY <1>1 DEF Idle
<1>9. ~Moving' /\ ~Reaching' /\ Behind' = currentPhase'
  BY <1>8 DEF Moving, Reaching, Behind
<1>10. ~Closing' /\ ~CleanupHeard' /\ ~Turning'
  BY <1>1, <1>2, <1>7, <1>8, <1>9 DEF Closing, CleanupHeard, Turning
<1>11. ~UntapAhead(Gap)'
  <2>1. PICK g \in {0, 1} : g = Gap'
    BY DEF Gap
  <2>2. UntapAhead(Gap)' => UntapAhead(g)'
    BY <2>1 DEF UntapAhead
  <2>. QED
    BY <1>6, <2>2
<1>12. \A to : ~Heralds(eventsQueue', to)
  BY <1>8 DEF Heralds
<1>. QED
  BY <1>1, <1>6, <1>10, <1>11, <1>12, LastingSame

\* What the players and the effects do.
LEMMA PlayersLasting ==
  ASSUME IInv, IInv', Lasting, ~TurnEffects, PlayersStep
  PROVE  Lasting'
<1>1. Idle
  BY PlayersWait
<1>2. CASE GrantCombatAfterMain
  BY <1>2, AfterMainLasting
<1>3. CASE ~GrantCombatAfterMain
  <2>. DEFINE Alike == UNCHANGED ring /\ UNCHANGED <<currentPlayer, extraTurn, skippingTurn, eventsQueue>>
  <2>1. alters \in Seq(Sparing)
    BY DEF IInv, Typed
  <2>2. /\ Alike /\ NoneNew
        /\ calls' \in {<<>>, NextGamePhaseCalls, <<Call("update", FALSE)>>}
    <3>1. Request \/ clickOK =>
            Alike /\ alters' = alters /\ calls' \in {<<>>, NextGamePhaseCalls}
      BY DEF Request, clickOK, flow, turnCounts
    <3>2. \A a : toggleAttacker(a) => Alike /\ alters' = alters /\ calls' = calls
      BY DEF toggleAttacker, flow, turnCounts
    <3>3. \A a, b : toggleDefenser(b, a) => Alike /\ alters' = alters /\ calls' = calls
      BY DEF toggleDefenser, flow, turnCounts
    <3>4. CreatureLeaves => Alike /\ alters' = alters /\ calls' = calls
      BY DEF CreatureLeaves, flow, turnCounts
    <3>5. SourceLeaves => Alike /\ NoneNew /\ calls' = <<Call("update", FALSE)>>
      BY <2>1, SourceLeavesNoneNew DEF SourceLeaves, flow, turnCounts
    <3>6. \A who, source : \A ids \in Skips : GrantSkip(who, source, ids) =>
            Alike /\ NoneNew /\ calls' = <<Call("update", FALSE)>>
      BY <2>1, GrantSkipNoneNew DEF GrantSkip, flow, turnCounts
    <3>7. GrantCombatPhase => Alike /\ NoneNew /\ calls' = calls
      BY <2>1, GrantCombatPhaseNoneNew DEF GrantCombatPhase, flow, turnCounts
    <3>8. \A p : ~GrantTurn(p)
      BY DEF GrantTurn
    <3>9. alters' = alters => NoneNew
      BY NoneNewSame
    <3>10. calls = <<>>
      BY <1>1 DEF Idle
    <3>. HIDE DEF Alike
    <3>11. \/ Request \/ clickOK
           \/ \E a : toggleAttacker(a)
           \/ \E a, b : toggleDefenser(b, a)
           \/ CreatureLeaves \/ SourceLeaves \/ GrantCombatPhase
           \/ \E who, source : \E ids \in Skips : GrantSkip(who, source, ids)
           \/ \E p : GrantTurn(p)
      BY <1>3, Zenon DEF PlayersStep
    <3>. QED
      BY <3>1, <3>2, <3>3, <3>4, <3>5, <3>6, <3>7, <3>8, <3>9, <3>10, <3>11
  <2>3. turn' = turn /\ current' = current /\ currentPhase' = currentPhase
    BY <2>2 DEF ring, currentPhase
  <2>4. calls' # <<>> => Head(calls').op = "update"
    <3>1. PICK u, g : u = Call("update", FALSE) /\ g = Call("nextGamePhase", FALSE)
      OBVIOUS
    <3>2. calls' = <<>> \/ calls' = <<u, g>> \/ calls' = <<u>>
      BY <2>2, <3>1 DEF NextGamePhaseCalls
    <3>3. u.op = "update"
      BY <3>1 DEF Call
    <3>. QED
      BY <3>2, <3>3
  <2>5. ~Moving /\ ~Moving' /\ ~Reaching /\ ~Reaching' /\ Gap = 1 /\ Gap' = 1
    BY <1>1, <2>4 DEF Idle, Moving, Reaching, Gap
  <2>6. Behind = currentPhase /\ Behind' = currentPhase
    BY <2>3, <2>5 DEF Behind
  <2>7. UntapAhead(Gap)' => UntapAhead(Gap)
    BY <2>3, <2>5 DEF UntapAhead
  <2>8. (Closing' => Closing) /\ (Turning' => Turning) /\ ~CleanupHeard'
    BY <1>1, <2>4, <2>5, <2>6 DEF Idle, Closing, Turning, CleanupHeard
  <2>9. \A to : ~Heralds(eventsQueue', to)
    BY <1>1, <2>2 DEF Idle, Heralds
  <2>. QED
    BY <2>2, <2>7, <2>8, <2>9, LastingOld
<1>. QED
  BY <1>2, <1>3

LEMMA LastingIsKept ==
  ASSUME IInv, IInv', Lasting, Heeding, AltersSpare({"CLEANUP"}), ~TurnEffects, [Next]_vars
  PROVE  Lasting'
<1>1. CASE Advance
  BY <1>1, ForwardLasting, MoveLasting, LandedLasting, ArriveLasting, EnteredLasting, RecurseLasting,
     UpdateLayerLasting, PreChangeLasting, ChangeLasting, StepLasting, Zenon DEF Advance
<1>2. CASE PlayersStep
  BY <1>2, PlayersLasting
<1>3. CASE UNCHANGED vars
  <2>1. UNCHANGED <<turn, current, eventsQueue, calls, alters, currentPlayer, extraTurn, skippingTurn>>
    BY <1>3 DEF vars, flow, ring, turnCounts
  <2>2. UNCHANGED currentPhase /\ (Moving' <=> Moving) /\ (Reaching' <=> Reaching) /\ Gap' = Gap /\ Behind' = Behind
    BY <2>1 DEF currentPhase, Moving, Reaching, Gap, Behind, Here
  <2>3. Closed' /\ (UntapAhead(Gap)' => UntapAhead(Gap)) /\ WarnsAsBefore
    BY <2>1, <2>2 DEF Lasting, Closed, UntapAhead, WarnsAsBefore
  <2>4. (Closing' \/ CleanupHeard' => Closing \/ CleanupHeard) /\ (Turning' => Turning)
    BY <2>1, <2>2 DEF Closing, CleanupHeard, Turning
  <2>. QED
    BY <2>1, <2>3, <2>4, LastingSame
<1>. QED
  BY <1>1, <1>2, <1>3, NextIs

LEMMA LastingAtFirst ==
  ASSUME Init
  PROVE  Lasting
<1>1. /\ turn = GameTurn /\ current = 5 /\ alters = <<>> /\ eventsQueue = <<>> /\ calls = <<>>
      /\ NoTurns
  BY DEF Init, NoTurns
<1>2. Closed
  BY <1>1, GameTurnIsClosed DEF Closed
<1>3. currentPhase = "FIRSTMAIN"
  BY <1>1, GameTurnIs DEF currentPhase
<1>4. ~Closing /\ ~CleanupHeard /\ ~Turning
  BY <1>1, <1>3 DEF Closing, CleanupHeard, Turning, Behind, Moving
<1>5. ~Spending /\ \A to : ~Heralds(eventsQueue, to)
  BY <1>1 DEF Spending, Heralds
<1>. QED
  BY <1>1, <1>2, <1>4, <1>5 DEF Lasting, Untapped, Swept

\* What a card makes a player skip "next" is skipped in one turn: when the
\* player's following turn comes to its untap step, the ability that was applied
\* is gone, marked in the other player's cleanup step and dropped at the end of
\* that turn.  No card may name the cleanup step, which marks, nor the point
\* before a turn, as none does; and no turn may be given or taken, else one of
\* the same player can follow with no cleanup step of the other's between.
THEOREM SkipsLastOneTurn ==
  /\ SkipsSpareCombat /\ SkipsSpare(Unannounced \cup {"CLEANUP"}) /\ ~TurnEffects
  => (Spec => []SkipsOnlyNext)
<1>. SUFFICES ASSUME SkipsSpareCombat, SkipsSpare(Unannounced \cup {"CLEANUP"}), ~TurnEffects
              PROVE  Spec => []SkipsOnlyNext
  OBVIOUS
<1>. DEFINE X == Unannounced \cup {"CLEANUP"}
            Inv == IInv /\ AltersSpare(X) /\ Heeding /\ Lasting
<1>1. Init => Inv
  <2>1. Init => AltersSpare(X) /\ Heeding
    BY DEF Init, AltersSpare, Heeding, Asked
  <2>. QED
    BY <2>1, IInvAtFirst, LastingAtFirst
<1>2. Inv /\ [Next]_vars => Inv'
  <2>. SUFFICES ASSUME IInv, AltersSpare(X), Heeding, Lasting, [Next]_vars PROVE Inv'
    OBVIOUS
  <2>1. AltersSpare(Unannounced) /\ AltersSpare({"CLEANUP"})
    BY DEF AltersSpare
  <2>2. IInv'
    BY IInvIsKept, IInvIsLeft
  <2>3. AltersSpare(X)' /\ Heeding'
    BY <2>1, HeedingIsKept, AltersStillSpare DEF Unannounced
  <2>. QED
    BY <2>1, <2>2, <2>3, LastingIsKept
<1>3. Inv => SkipsOnlyNext
  <2>. SUFFICES ASSUME IInv, Lasting, Landing, currentPhase = "UNTAP", NEW n \in DOMAIN alters
                PROVE  ~(alters[n].next /\ alters[n].applied /\ alters[n].who = currentPlayer)
    BY DEF SkipsOnlyNext
  <2>1. Len(alters) \in Nat /\ n \in 1..Len(alters) /\ RingTyped
    BY DEF IInv, Typed
  <2>2. PICK m \in Nat : m = Len(turn)
    BY <2>1, ChainedIs DEF RingTyped
  <2>3. PICK c \in 1..m : c = current
    BY <2>1, <2>2 DEF RingTyped
  <2>4. Gap = 0
    BY DEF Landing, Reaching, Gap
  <2>5. UntapAhead(Gap)
    BY <2>2, <2>3, <2>4 DEF UntapAhead, currentPhase
  <2>. QED
    BY <2>1, <2>5 DEF Lasting, Untapped, Spending, Spent
<1>. QED
  BY <1>1, <1>2, <1>3, PTL DEF Spec

===============================================================================
