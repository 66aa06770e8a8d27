---------------------------- MODULE Damage_proofs ----------------------------
(***************************************************************************)
(* For any creatures, keywords and bounds: a creature's life is what        *)
(* counters, pumps and damage make it, no death is forgotten, and nothing   *)
(* that was under way for a creature that died reaches what came back.      *)
(***************************************************************************)
EXTENDS Damage, SequenceTheorems, TLAPS

Bodies ==
  [toughness : Int, life : Int, doDamageTest : BOOLEAN, skip : BOOLEAN,
   plus : Nat, minus : Nat, kinds : SUBSET Kinds, pumped : Nat, weakened : Nat,
   regenerateTokens : 0..MaxShields, preventable : 0..MaxShields, struck : BOOLEAN,
   marked : Nat, touched : BOOLEAN]

DamageCalls == [op : {"Damage", "Withered"}, card : Creatures, live : BOOLEAN,
                nested : BOOLEAN, keyword : Keywords, amount : Nat]
CounterCalls == [op : {"addCounter", "removeCounter"}, card : Creatures, live : BOOLEAN,
                 nested : BOOLEAN, kind : Kinds]
EffectCalls == [op : {"AACounter"}, card : Creatures, live : BOOLEAN, nested : BOOLEAN,
                kind : Kinds, add : BOOLEAN, nb : Nat]
TestCalls == [op : {"afterDamage"}, card : Creatures, live : BOOLEAN, nested : BOOLEAN]
WalkCalls == [op : {"afterDamages"}, card : {"none"}, live : BOOLEAN, nested : BOOLEAN,
              left : SUBSET Creatures]
StackCalls == [op : {"DamageStackResolved"}, card : {"none"}, live : BOOLEAN, nested : BOOLEAN]

Calls == DamageCalls \cup CounterCalls \cup EffectCalls \cup TestCalls \cup WalkCalls \cup StackCalls

Events == [type : {"Damage"}, card : Creatures, live : BOOLEAN, keyword : Keywords]
     \cup [type : {"ZoneChange"}, card : Creatures, live : BOOLEAN, with : {"no"} \cup Kinds]
     \cup [type : {"DamageStackResolved"}, card : {"none"}, live : BOOLEAN]

\* Toughness and life are what has been printed, put, pumped and dealt.
AddsUp(c, b) ==
  /\ b.toughness = Toughness[c] + b.plus - b.minus + 2 * b.pumped - b.weakened
  /\ b.life = b.toughness - b.marked

\* A body without life is going to be tested.
Watched(c, b) == c \in Indestructible \/ b.life > 0 \/ b.doDamageTest

Good(c, b) == b \in Bodies /\ AddsUp(c, b) /\ Watched(c, b)

\* An event that deathtouch is going to be heard of by.
Names(event, c) ==
  event.type = "Damage" /\ event.card = c /\ event.live /\ event.keyword = "deathtouch"

Told(queue, c) == \E i \in DOMAIN queue : Names(queue[i], c)

Doomed(c, b, queue) == b.touched /\ c \notin Indestructible => Told(queue, c)

Typed ==
  /\ inPlay \subseteq Creatures
  /\ body \in [Creatures -> Bodies]
  /\ calls \in Seq(Calls) /\ eventsQueue \in Seq(Events)

Kept == \A c \in Creatures : Good(c, body[c]) /\ Doomed(c, body[c], eventsQueue)

History == cleaned \in BOOLEAN /\ returned \subseteq Creatures

IInv == Typed /\ Kept /\ History

-----------------------------------------------------------------------------
(* Bodies. *)

LEMMA BodyTyped ==
  ASSUME NEW b \in Bodies
  PROVE  /\ b.toughness \in Int /\ b.life \in Int /\ b.doDamageTest \in BOOLEAN
         /\ b.plus \in Nat /\ b.minus \in Nat /\ b.pumped \in Nat /\ b.weakened \in Nat
         /\ b.marked \in Nat /\ b.regenerateTokens \in 0..MaxShields
         /\ b.preventable \in 0..MaxShields /\ b.kinds \subseteq Kinds
BY DEF Bodies

LEMMA PrintedGood ==
  ASSUME NEW c \in Creatures
  PROVE  Good(c, Printed(c)) /\ ~Printed(c).touched
<1>. DEFINE b == Printed(c)
<1>1. Toughness[c] \in Nat /\ MaxShields \in Nat
  BY ConstantsAssumption
<1>2. b \in Bodies
  BY <1>1 DEF Printed, Bodies, Kinds
<1>3. AddsUp(c, b) /\ Watched(c, b) /\ ~b.touched
  BY <1>1 DEF Printed, AddsUp, Watched
<1>. QED
  BY <1>2, <1>3 DEF Good

\* What happens to a body when a counter is put on it.
LEMMA MoreGood ==
  ASSUME NEW c \in Creatures, NEW b, Good(c, b), NEW kind \in Kinds,
         NEW more, more = added(b, kind)
  PROVE  Good(c, more) /\ more.touched = b.touched
<1>1. Toughness[c] \in Nat /\ b \in Bodies /\ AddsUp(c, b)
  BY ConstantsAssumption DEF Good
<1>t. /\ b.toughness \in Int /\ b.life \in Int
      /\ b.plus \in Nat /\ b.minus \in Nat /\ b.pumped \in Nat /\ b.weakened \in Nat
      /\ b.marked \in Nat /\ b.regenerateTokens \in 0..MaxShields
  BY <1>1, BodyTyped
<1>2. CASE kind = "plus"
  <2>1. PICK t \in Int, l \in Int : t = b.toughness + 1 /\ l = b.life + 1
    <3>1. b.toughness + 1 \in Int /\ b.life + 1 \in Int
      BY <1>t
    <3>. QED
      BY <3>1
  <2>2. PICK n \in Nat : n = b.plus + 1
    <3>1. b.plus + 1 \in Nat
      BY <1>t, <1>2
    <3>. QED
      BY <3>1
  <2>3. PICK k \in SUBSET Kinds : k = b.kinds \cup {"plus"}
    BY <1>1 DEF Bodies, Kinds
  <2>a. PICK sign : sign = Sign(kind)
    OBVIOUS
  <2>b. b.toughness + sign = t /\ b.life + sign = l
    BY <1>t, <1>2, <2>1, <2>a DEF Sign
  <2>c. addToToughness(b, sign) = [b EXCEPT !.toughness = t, !.life = l, !.doDamageTest = TRUE]
    BY <2>b DEF addToToughness
  <2>4. more = [b EXCEPT !.toughness = t, !.life = l, !.doDamageTest = TRUE, !.plus = n, !.kinds = k]
    BY <1>1, <1>2, <2>2, <2>3, <2>a, <2>c DEF added, Bodies
  <2>5. /\ more \in Bodies
        /\ more.toughness = t /\ more.life = l /\ more.doDamageTest
        /\ more.plus = n /\ more.minus = b.minus
        /\ more.pumped = b.pumped /\ more.weakened = b.weakened
        /\ more.marked = b.marked /\ more.touched = b.touched
    BY <1>1, <2>4 DEF Bodies
  <2>6. AddsUp(c, more)
    BY <1>1, <1>t, <2>1, <2>2, <2>5 DEF AddsUp
  <2>. QED
    BY <2>5, <2>6 DEF Good, Watched
<1>3. CASE kind = "minus"
  <2>1. PICK t \in Int, l \in Int : t = b.toughness - 1 /\ l = b.life - 1
    <3>1. b.toughness - 1 \in Int /\ b.life - 1 \in Int
      BY <1>t
    <3>. QED
      BY <3>1
  <2>2. PICK n \in Nat : n = b.minus + 1
    <3>1. b.minus + 1 \in Nat
      BY <1>t, <1>3
    <3>. QED
      BY <3>1
  <2>3. PICK k \in SUBSET Kinds : k = b.kinds \cup {"minus"}
    BY <1>1 DEF Bodies, Kinds
  <2>a. PICK sign : sign = Sign(kind)
    OBVIOUS
  <2>b. b.toughness + sign = t /\ b.life + sign = l
    BY <1>t, <1>3, <2>1, <2>a DEF Sign
  <2>c. addToToughness(b, sign) = [b EXCEPT !.toughness = t, !.life = l, !.doDamageTest = TRUE]
    BY <2>b DEF addToToughness
  <2>4. more = [b EXCEPT !.toughness = t, !.life = l, !.doDamageTest = TRUE, !.minus = n, !.kinds = k]
    BY <1>1, <1>3, <2>2, <2>3, <2>a, <2>c DEF added, Bodies
  <2>5. /\ more \in Bodies
        /\ more.toughness = t /\ more.life = l /\ more.doDamageTest
        /\ more.minus = n /\ more.plus = b.plus
        /\ more.pumped = b.pumped /\ more.weakened = b.weakened
        /\ more.marked = b.marked /\ more.touched = b.touched
    BY <1>1, <2>4 DEF Bodies
  <2>6. AddsUp(c, more)
    BY <1>1, <1>t, <2>1, <2>2, <2>5 DEF AddsUp
  <2>. QED
    BY <2>5, <2>6 DEF Good, Watched
<1>. QED
  BY <1>2, <1>3 DEF Kinds

LEMMA LessGood ==
  ASSUME NEW c \in Creatures, NEW b, Good(c, b), NEW kind \in Kinds,
         NEW less, less = removeCounter(b, kind)
  PROVE  Good(c, less) /\ less.touched = b.touched
<1>1. Toughness[c] \in Nat /\ b \in Bodies /\ AddsUp(c, b)
  BY ConstantsAssumption DEF Good
<1>t. /\ b.toughness \in Int /\ b.life \in Int
      /\ b.plus \in Nat /\ b.minus \in Nat /\ b.pumped \in Nat /\ b.weakened \in Nat
      /\ b.marked \in Nat /\ b.regenerateTokens \in 0..MaxShields
  BY <1>1, BodyTyped
<1>2. CASE b[kind] = 0
  BY <1>2 DEF removeCounter
<1>3. CASE kind = "plus" /\ b[kind] # 0
  <2>1. PICK t \in Int, l \in Int : t = b.toughness - 1 /\ l = b.life - 1
    <3>1. b.toughness - 1 \in Int /\ b.life - 1 \in Int
      BY <1>t
    <3>. QED
      BY <3>1
  <2>2. PICK n \in Nat : n = b.plus - 1
    <3>1. b.plus - 1 \in Nat
      BY <1>t, <1>3
    <3>. QED
      BY <3>1
  <2>a. PICK sign : sign = -Sign(kind)
    OBVIOUS
  <2>b. b.toughness + sign = t /\ b.life + sign = l
    BY <1>t, <1>3, <2>1, <2>a DEF Sign
  <2>c. addToToughness(b, sign) = [b EXCEPT !.toughness = t, !.life = l, !.doDamageTest = TRUE]
    BY <2>b DEF addToToughness
  <2>4. less = [b EXCEPT !.toughness = t, !.life = l, !.doDamageTest = TRUE, !.plus = n]
    BY <1>1, <1>3, <2>2, <2>a, <2>c DEF removeCounter, Bodies
  <2>5. /\ less \in Bodies
        /\ less.toughness = t /\ less.life = l /\ less.doDamageTest
        /\ less.plus = n /\ less.minus = b.minus
        /\ less.pumped = b.pumped /\ less.weakened = b.weakened
        /\ less.marked = b.marked /\ less.touched = b.touched
    BY <1>1, <2>4 DEF Bodies
  <2>6. AddsUp(c, less)
    <3>1. less.toughness = Toughness[c] + less.plus - less.minus + 2 * less.pumped - less.weakened
      BY <1>1, <1>t, <2>1, <2>2, <2>5 DEF AddsUp
    <3>2. less.life = less.toughness - less.marked
      BY <1>1, <1>t, <2>1, <2>5 DEF AddsUp
    <3>. QED
      BY <3>1, <3>2 DEF AddsUp
  <2>. QED
    BY <2>5, <2>6 DEF Good, Watched
<1>4. CASE kind = "minus" /\ b[kind] # 0
  <2>1. PICK t \in Int, l \in Int : t = b.toughness + 1 /\ l = b.life + 1
    <3>1. b.toughness + 1 \in Int /\ b.life + 1 \in Int
      BY <1>t
    <3>. QED
      BY <3>1
  <2>2. PICK n \in Nat : n = b.minus - 1
    <3>1. b.minus - 1 \in Nat
      BY <1>t, <1>4
    <3>. QED
      BY <3>1
  <2>a. PICK sign : sign = -Sign(kind)
    OBVIOUS
  <2>b. b.toughness + sign = t /\ b.life + sign = l
    BY <1>t, <1>4, <2>1, <2>a DEF Sign
  <2>c. addToToughness(b, sign) = [b EXCEPT !.toughness = t, !.life = l, !.doDamageTest = TRUE]
    BY <2>b DEF addToToughness
  <2>4. less = [b EXCEPT !.toughness = t, !.life = l, !.doDamageTest = TRUE, !.minus = n]
    BY <1>1, <1>4, <2>2, <2>a, <2>c DEF removeCounter, Bodies
  <2>5. /\ less \in Bodies
        /\ less.toughness = t /\ less.life = l /\ less.doDamageTest
        /\ less.minus = n /\ less.plus = b.plus
        /\ less.pumped = b.pumped /\ less.weakened = b.weakened
        /\ less.marked = b.marked /\ less.touched = b.touched
    BY <1>1, <2>4 DEF Bodies
  <2>6. AddsUp(c, less)
    <3>1. less.toughness = Toughness[c] + less.plus - less.minus + 2 * less.pumped - less.weakened
      BY <1>1, <1>t, <2>1, <2>2, <2>5 DEF AddsUp
    <3>2. less.life = less.toughness - less.marked
      BY <1>1, <1>t, <2>1, <2>5 DEF AddsUp
    <3>. QED
      BY <3>1, <3>2 DEF AddsUp
  <2>. QED
    BY <2>5, <2>6 DEF Good, Watched
<1>. QED
  BY <1>2, <1>3, <1>4 DEF Kinds

LEMMA CancelledGood ==
  ASSUME NEW c \in Creatures, NEW b, Good(c, b), NEW r, r = cancelCounters(b)
  PROVE  Good(c, r) /\ r.touched = b.touched
<1>1. Toughness[c] \in Nat /\ b \in Bodies /\ AddsUp(c, b)
  BY ConstantsAssumption DEF Good
<1>t. /\ b.toughness \in Int /\ b.life \in Int
      /\ b.plus \in Nat /\ b.minus \in Nat /\ b.pumped \in Nat /\ b.weakened \in Nat
      /\ b.marked \in Nat /\ b.regenerateTokens \in 0..MaxShields
  BY <1>1, BodyTyped
<1>2. PICK n \in Nat : n = (IF b.plus < b.minus THEN b.plus ELSE b.minus)
  BY <1>t
<1>3. CASE n = 0
  BY <1>2, <1>3 DEF cancelCounters
<1>4. CASE n # 0
  <2>1. PICK p \in Nat, m \in Nat : p = b.plus - n /\ m = b.minus - n
    <3>1. b.plus - n \in Nat /\ b.minus - n \in Nat
      BY <1>t, <1>2
    <3>. QED
      BY <3>1
  <2>2. r = [b EXCEPT !.plus = p, !.minus = m, !.doDamageTest = TRUE]
    BY <1>1, <1>2, <1>4, <2>1 DEF cancelCounters, Bodies
  <2>3. /\ r \in Bodies
        /\ r.toughness = b.toughness /\ r.life = b.life /\ r.doDamageTest
        /\ r.plus = p /\ r.minus = m
        /\ r.pumped = b.pumped /\ r.weakened = b.weakened
        /\ r.marked = b.marked /\ r.touched = b.touched
    BY <1>1, <2>2 DEF Bodies
  <2>4. AddsUp(c, r)
    BY <1>1, <1>t, <2>1, <2>3 DEF AddsUp
  <2>. QED
    BY <2>3, <2>4 DEF Good, Watched
<1>. QED
  BY <1>3, <1>4

\* What a shield leaves of a body that it saves, or need not save.
LEMMA RegeneratedGood ==
  ASSUME NEW c \in Creatures, NEW b, Good(c, b), ~DestroyedBy(c, b),
         NEW r, r = triggerRegenerate(b)
  PROVE  /\ Good(c, r)
         /\ c \in Indestructible \/ (r.life > 0 /\ ~r.touched)
         /\ r.touched => b.touched
<1>1. Toughness[c] \in Nat /\ b \in Bodies /\ AddsUp(c, b)
  BY ConstantsAssumption DEF Good
<1>t. /\ b.toughness \in Int /\ b.life \in Int
      /\ b.plus \in Nat /\ b.minus \in Nat /\ b.pumped \in Nat /\ b.weakened \in Nat
      /\ b.marked \in Nat /\ b.regenerateTokens \in 0..MaxShields
  BY <1>1, BodyTyped
<1>2. CASE b.regenerateTokens = 0
  <2>1. c \in Indestructible
    BY <1>t, <1>2 DEF DestroyedBy, Saved
  <2>. QED
    BY <1>2, <2>1 DEF triggerRegenerate
<1>3. CASE b.regenerateTokens # 0
  <2>1. PICK n \in 0..MaxShields : n = b.regenerateTokens - 1
    <3>1. b.regenerateTokens - 1 \in 0..MaxShields
      BY <1>t, <1>3, ConstantsAssumption
    <3>. QED
      BY <3>1
  <2>l. PICK l \in Int, z \in Nat : l = b.toughness /\ z = 0
    BY <1>t
  <2>2. r = [b EXCEPT !.regenerateTokens = n, !.life = l, !.marked = z, !.touched = FALSE]
    BY <1>3, <2>1, <2>l DEF triggerRegenerate
  <2>3. /\ r \in Bodies
        /\ r.toughness = b.toughness /\ r.life = l
        /\ r.plus = b.plus /\ r.minus = b.minus
        /\ r.pumped = b.pumped /\ r.weakened = b.weakened
        /\ r.marked = z /\ ~r.touched
    BY <1>1, <2>2 DEF Bodies
  <2>4. c \in Indestructible \/ r.life > 0
    BY <1>t, <2>3, <2>l DEF DestroyedBy, Saved
  <2>5. AddsUp(c, r)
    BY <1>1, <1>t, <2>3, <2>l DEF AddsUp
  <2>. QED
    BY <2>3, <2>4, <2>5 DEF Good, Watched
<1>. QED
  BY <1>2, <1>3

LEMMA TestedGood ==
  ASSUME NEW c \in Creatures, NEW b, Good(c, b), ~(Lethal(b) /\ DestroyedBy(c, b)),
         NEW t, t = Tested(b)
  PROVE  Good(c, t) /\ (t.touched => b.touched)
<1>1. b \in Bodies
  BY DEF Good
<1>2. CASE b.skip
  <2>1. t = [b EXCEPT !.skip = FALSE]
    BY <1>2 DEF Tested
  <2>. QED
    BY <1>1, <2>1 DEF Good, Bodies, AddsUp, Watched
<1>3. CASE ~b.skip /\ Lethal(b)
  <2>1. t = [triggerRegenerate(b) EXCEPT !.doDamageTest = FALSE]
    BY <1>3 DEF Tested
  <2>2. PICK r : r = triggerRegenerate(b)
    OBVIOUS
  <2>3. /\ Good(c, r) /\ (c \in Indestructible \/ r.life > 0)
        /\ r.touched => b.touched
    <3>1. ~DestroyedBy(c, b)
      BY <1>3
    <3>. QED
      BY <2>2, <3>1, RegeneratedGood
  <2>4. t = [r EXCEPT !.doDamageTest = FALSE]
    BY <2>1, <2>2
  <2>. QED
    BY <2>3, <2>4 DEF Good, Bodies, AddsUp, Watched
<1>4. CASE ~b.skip /\ ~Lethal(b)
  <2>1. t = [b EXCEPT !.doDamageTest = FALSE]
    BY <1>4 DEF Tested
  <2>2. b.life > 0 \/ ~b.doDamageTest
    BY <1>1, <1>4 DEF Lethal, Bodies
  <2>. QED
    BY <1>1, <2>1, <2>2 DEF Good, Bodies, AddsUp, Watched
<1>. QED
  BY <1>2, <1>3, <1>4

-----------------------------------------------------------------------------
(* Queues and calls. *)

LEMMA OutdatedKeeps ==
  ASSUME NEW S, NEW seq \in Seq(S), NEW c, NEW out, out = Outdated(seq, c),
         \A x \in S : [x EXCEPT !.live = FALSE] \in S
  PROVE  /\ out \in Seq(S) /\ DOMAIN out = DOMAIN seq
         /\ \A i \in DOMAIN seq :
              out[i] = IF seq[i].card = c THEN [seq[i] EXCEPT !.live = FALSE] ELSE seq[i]
<1>1. PICK n \in Nat : DOMAIN seq = 1..n /\ seq \in [1..n -> S]
  <2>1. Len(seq) \in Nat /\ DOMAIN seq = 1..Len(seq) /\ seq \in [1..Len(seq) -> S]
    BY LenProperties
  <2>. QED
    BY <2>1
<1>2. out = [i \in 1..n |-> IF seq[i].card = c THEN [seq[i] EXCEPT !.live = FALSE] ELSE seq[i]]
  BY <1>1 DEF Outdated
<1>3. out \in [1..n -> S]
  BY <1>1, <1>2
<1>4. out \in Seq(S)
  BY <1>3 DEF Seq
<1>. QED
  BY <1>1, <1>2, <1>4

LEMMA EventsAge == \A x \in Events : [x EXCEPT !.live = FALSE] \in Events
BY DEF Events

LEMMA CallsAge == \A x \in Calls : [x EXCEPT !.live = FALSE] \in Calls
<1>. SUFFICES ASSUME NEW x \in Calls PROVE [x EXCEPT !.live = FALSE] \in Calls
  OBVIOUS
<1>1. CASE x \in DamageCalls
  BY <1>1 DEF Calls, DamageCalls
<1>2. CASE x \in CounterCalls
  BY <1>2 DEF Calls, CounterCalls
<1>3. CASE x \in EffectCalls
  BY <1>3 DEF Calls, EffectCalls
<1>4. CASE x \in TestCalls
  BY <1>4 DEF Calls, TestCalls
<1>5. CASE x \in WalkCalls
  BY <1>5 DEF Calls, WalkCalls
<1>6. CASE x \in StackCalls
  BY <1>6 DEF Calls, StackCalls
<1>. QED
  BY <1>1, <1>2, <1>3, <1>4, <1>5, <1>6 DEF Calls

LEMMA AppendTells ==
  ASSUME NEW queue \in Seq(Events), NEW event \in Events, NEW c, NEW out, out = Append(queue, event)
  PROVE  /\ out \in Seq(Events)
         /\ Told(queue, c) \/ Names(event, c) => Told(out, c)
<1>1. /\ out \in Seq(Events) /\ Len(out) = Len(queue) + 1
      /\ \A i \in 1..Len(queue) : out[i] = queue[i]
      /\ out[Len(queue) + 1] = event
  BY AppendProperties
<1>2. Len(queue) \in Nat /\ DOMAIN queue = 1..Len(queue) /\ DOMAIN out = 1..Len(out)
  BY <1>1, LenProperties
<1>3. ASSUME Told(queue, c) PROVE Told(out, c)
  <2>1. PICK i \in DOMAIN queue : Names(queue[i], c)
    BY <1>3 DEF Told
  <2>2. i \in DOMAIN out /\ out[i] = queue[i]
    BY <1>1, <1>2, <2>1
  <2>. QED
    BY <2>1, <2>2 DEF Told
<1>4. ASSUME Names(event, c) PROVE Told(out, c)
  <2>1. Len(queue) + 1 \in DOMAIN out /\ out[Len(queue) + 1] = event
    BY <1>1, <1>2
  <2>. QED
    BY <1>4, <2>1 DEF Told
<1>. QED
  BY <1>1, <1>3, <1>4

LEMMA TailTells ==
  ASSUME NEW queue \in Seq(Events), queue # <<>>, NEW out, out = Tail(queue)
  PROVE  /\ out \in Seq(Events) /\ Head(queue) \in Events
         /\ \A c : Told(queue, c) /\ ~Names(Head(queue), c) => Told(out, c)
<1>1. /\ Head(queue) \in Events /\ out \in Seq(Events) /\ Head(queue) = queue[1]
      /\ Len(out) = Len(queue) - 1 /\ \A i \in 1..Len(out) : out[i] = queue[i + 1]
  BY HeadTailProperties
<1>2. Len(queue) \in Nat /\ DOMAIN queue = 1..Len(queue) /\ DOMAIN out = 1..Len(out)
  BY <1>1, LenProperties
<1>3. ASSUME NEW c, Told(queue, c), ~Names(Head(queue), c) PROVE Told(out, c)
  <2>1. PICK i \in DOMAIN queue : Names(queue[i], c)
    BY <1>3 DEF Told
  <2>2. i # 1
    BY <1>1, <1>3, <2>1
  <2>3. PICK j \in 1..Len(out) : i = j + 1
    <3>1. i - 1 \in 1..Len(out)
      BY <1>1, <1>2, <2>1, <2>2
    <3>2. i = (i - 1) + 1
      BY <1>2, <2>1
    <3>. QED
      BY <3>1, <3>2
  <2>4. j \in DOMAIN out /\ out[j] = queue[i]
    BY <1>1, <1>2, <2>3
  <2>. QED
    BY <2>1, <2>4 DEF Told
<1>. QED
  BY <1>1, <1>3

-----------------------------------------------------------------------------
(* What becomes of a creature: b is its body by then, and all but that of   *)
(* the others is as it was.                                                 *)

State == Typed /\ \A c \in Creatures : Good(c, body[c])

Core == Typed /\ Kept

LEMMA StaysKeeps ==
  ASSUME State, NEW c \in Creatures, NEW b, Good(c, b),
         NEW rest \in Seq(Calls), NEW queue \in Seq(Events),
         Doomed(c, b, queue), \A d \in Creatures \ {c} : Doomed(d, body[d], queue),
         stays(c, b, rest, queue)
  PROVE  Core'
<1>1. Typed'
  BY DEF State, Typed, stays, Good
<1>2. ASSUME NEW d \in Creatures PROVE (Good(d, body[d]) /\ Doomed(d, body[d], eventsQueue))'
  <2>1. eventsQueue' = queue /\ body'[d] = IF d = c THEN b ELSE body[d]
    BY DEF stays, State, Typed
  <2>2. Good(d, body'[d]) /\ Doomed(d, body'[d], queue)
    BY <2>1 DEF State
  <2>. QED
    BY <2>1, <2>2 DEF Good, AddsUp, Watched, Doomed, Told, Names
<1>. QED
  BY <1>1, <1>2 DEF Core, Kept

LEMMA LeavesKeeps ==
  ASSUME State, NEW c \in Creatures, NEW b,
         NEW rest \in Seq(Calls), NEW queue \in Seq(Events),
         \A d \in Creatures \ {c} : Doomed(d, body[d], queue),
         leaves(c, b, rest, queue)
  PROVE  Core'
<1>1. PICK old, event, told :
        /\ old = Outdated(queue, c)
        /\ event = [type |-> "ZoneChange", card |-> c, live |-> TRUE, with |-> ReturnsWith(c, b)]
        /\ told = Append(old, event)
  OBVIOUS
<1>2. /\ old \in Seq(Events) /\ DOMAIN old = DOMAIN queue
      /\ \A i \in DOMAIN queue :
           old[i] = IF queue[i].card = c THEN [queue[i] EXCEPT !.live = FALSE] ELSE queue[i]
  <2>1. old = Outdated(queue, c)
    BY <1>1
  <2>2. \A x \in Events : [x EXCEPT !.live = FALSE] \in Events
    BY EventsAge
  <2>. QED
    BY <2>1, <2>2, OutdatedKeeps
<1>3. event \in Events
  BY <1>1 DEF Events, ReturnsWith, Kinds
<1>4. told \in Seq(Events)
  BY <1>1, <1>2, <1>3, AppendTells
<1>5. PICK left : left = Outdated(rest, c)
  OBVIOUS
<1>6. left \in Seq(Calls)
  BY <1>5, CallsAge, OutdatedKeeps
<1>7. /\ eventsQueue' = told /\ calls' = left /\ inPlay' = inPlay \ {c}
      /\ body' = [body EXCEPT ![c] = Printed(c)]
  BY <1>1, <1>5 DEF leaves
<1>8. Good(c, Printed(c)) /\ ~Printed(c).touched
  BY PrintedGood
<1>9. Typed'
  BY <1>4, <1>6, <1>7, <1>8 DEF State, Typed, Good
<1>10. ASSUME NEW d \in Creatures PROVE (Good(d, body[d]) /\ Doomed(d, body[d], eventsQueue))'
  <2>1. Doomed(d, body'[d], told) /\ Good(d, body'[d])
    <3>1. CASE d = c
      BY <1>7, <1>8, <3>1 DEF State, Typed, Doomed
    <3>2. CASE d # c
      <4>1. body'[d] = body[d] /\ Good(d, body[d])
        BY <1>7, <3>2 DEF State, Typed
      <4>2. ASSUME Told(queue, d) PROVE Told(told, d)
        <5>1. PICK i \in DOMAIN queue : Names(queue[i], d)
          BY <4>2 DEF Told
        <5>2. i \in DOMAIN old /\ Names(old[i], d)
          BY <1>2, <3>2, <5>1 DEF Names
        <5>3. Told(old, d)
          BY <5>2 DEF Told
        <5>. QED
          BY <1>1, <1>2, <1>3, <5>3, AppendTells
      <4>. QED
        BY <3>2, <4>1, <4>2 DEF Doomed
    <3>. QED
      BY <3>1, <3>2
  <2>. QED
    BY <1>7, <2>1 DEF Good, AddsUp, Watched, Doomed, Told, Names
<1>. QED
  BY <1>9, <1>10 DEF Core, Kept

LEMMA DestroyKeeps ==
  ASSUME State, NEW c \in Creatures, NEW b, Good(c, b),
         NEW rest \in Seq(Calls), NEW queue \in Seq(Events),
         \A d \in Creatures \ {c} : Doomed(d, body[d], queue),
         destroy(c, b, rest, queue)
  PROVE  Core'
<1>1. CASE DestroyedBy(c, b)
  <2>1. leaves(c, b, rest, queue)
    BY <1>1 DEF destroy
  <2>. QED
    BY <2>1, LeavesKeeps
<1>2. CASE ~DestroyedBy(c, b)
  <2>1. PICK r : r = triggerRegenerate(b)
    OBVIOUS
  <2>2. stays(c, r, rest, queue)
    BY <1>2, <2>1 DEF destroy
  <2>3. Good(c, r) /\ (c \in Indestructible \/ ~r.touched)
    BY <1>2, <2>1, RegeneratedGood
  <2>4. Doomed(c, r, queue)
    BY <2>3 DEF Doomed
  <2>. QED
    BY <2>2, <2>3, <2>4, StaysKeeps
<1>. QED
  BY <1>1, <1>2

LEMMA TestKeeps ==
  ASSUME State, NEW c \in Creatures, NEW b, Good(c, b),
         NEW rest \in Seq(Calls), NEW queue \in Seq(Events),
         Doomed(c, b, queue), \A d \in Creatures \ {c} : Doomed(d, body[d], queue),
         afterDamage(c, b, rest, queue)
  PROVE  Core'
<1>1. CASE Lethal(b) /\ DestroyedBy(c, b)
  <2>1. leaves(c, b, rest, queue)
    BY <1>1 DEF afterDamage
  <2>. QED
    BY <2>1, LeavesKeeps
<1>2. CASE ~(Lethal(b) /\ DestroyedBy(c, b))
  <2>1. PICK t : t = Tested(b)
    OBVIOUS
  <2>2. stays(c, t, rest, queue)
    BY <1>2, <2>1 DEF afterDamage
  <2>3. Good(c, t) /\ (t.touched => b.touched)
    BY <1>2, <2>1, TestedGood
  <2>4. Doomed(c, t, queue)
    BY <2>3 DEF Doomed
  <2>. QED
    BY <2>2, <2>3, <2>4, StaysKeeps
<1>. QED
  BY <1>1, <1>2

LEMMA CounterKeeps ==
  ASSUME State, NEW c \in Creatures, NEW b, Good(c, b), NEW kind \in Kinds,
         NEW rest \in Seq(Calls), NEW queue \in Seq(Events),
         Doomed(c, b, queue), \A d \in Creatures \ {c} : Doomed(d, body[d], queue),
         addCounter(c, b, kind, rest, queue)
  PROVE  Core'
<1>1. PICK more : more = added(b, kind)
  OBVIOUS
<1>2. Good(c, more) /\ more.touched = b.touched
  BY <1>1, MoreGood
<1>3. Doomed(c, more, queue)
  BY <1>2 DEF Doomed
<1>4. stays(c, more, rest, queue) \/ afterDamage(c, more, rest, queue)
  BY <1>1 DEF addCounter
<1>. QED
  BY <1>2, <1>3, <1>4, StaysKeeps, TestKeeps

\* An action that leaves the creatures alone.
LEMMA SameKeeps ==
  ASSUME Core, UNCHANGED <<inPlay, body>>,
         calls' \in Seq(Calls), eventsQueue' \in Seq(Events),
         \A d \in Creatures : Doomed(d, body[d], eventsQueue')
  PROVE  Core'
<1>1. Typed'
  BY DEF Core, Typed
<1>2. ASSUME NEW d \in Creatures PROVE (Good(d, body[d]) /\ Doomed(d, body[d], eventsQueue))'
  <2>1. Good(d, body[d]) /\ Doomed(d, body[d], eventsQueue') /\ body' = body
    BY DEF Core, Kept
  <2>. QED
    BY <2>1 DEF Good, AddsUp, Watched, Doomed, Told, Names
<1>. QED
  BY <1>1, <1>2 DEF Core, Kept

\* What is known of the creatures before a step.
LEMMA Before ==
  ASSUME Core
  PROVE  /\ State
         /\ \A d \in Creatures : Good(d, body[d]) /\ Doomed(d, body[d], eventsQueue)
         /\ inPlay \subseteq Creatures /\ calls \in Seq(Calls) /\ eventsQueue \in Seq(Events)
BY DEF Core, Kept, State, Typed

\* What is known of the call that goes on.
LEMMA HeadOfCalls ==
  ASSUME Core, NEW op, Runs(op)
  PROVE  /\ Head(calls) \in Calls /\ Tail(calls) \in Seq(Calls) /\ Head(calls).op = op
BY Before, HeadTailProperties DEF Runs

LEMMA DamageCall ==
  ASSUME NEW call \in Calls, call.op \in {"Damage", "Withered"}
  PROVE  call \in DamageCalls
BY DEF Calls, DamageCalls, CounterCalls, EffectCalls, TestCalls, WalkCalls, StackCalls

LEMMA CounterCall ==
  ASSUME NEW call \in Calls, call.op \in {"addCounter", "removeCounter"}
  PROVE  call \in CounterCalls
BY DEF Calls, DamageCalls, CounterCalls, EffectCalls, TestCalls, WalkCalls, StackCalls

LEMMA EffectCall ==
  ASSUME NEW call \in Calls, call.op = "AACounter"
  PROVE  call \in EffectCalls
BY DEF Calls, DamageCalls, CounterCalls, EffectCalls, TestCalls, WalkCalls, StackCalls

LEMMA TestCall ==
  ASSUME NEW call \in Calls, call.op = "afterDamage"
  PROVE  call \in TestCalls
BY DEF Calls, DamageCalls, CounterCalls, EffectCalls, TestCalls, WalkCalls, StackCalls

LEMMA WalkCall ==
  ASSUME NEW call \in Calls, call.op = "afterDamages"
  PROVE  call \in WalkCalls
BY DEF Calls, DamageCalls, CounterCalls, EffectCalls, TestCalls, WalkCalls, StackCalls

\* A call is put before others.
LEMMA FirstOfCalls ==
  ASSUME NEW call \in Calls, NEW rest \in Seq(Calls), NEW seq, seq = <<call>> \o rest
  PROVE  seq \in Seq(Calls)
<1>1. <<call>> \in Seq(Calls)
  OBVIOUS
<1>. QED
  BY <1>1, ConcatProperties

-----------------------------------------------------------------------------
(* The steps. *)

LEMMA PassKeeps == ASSUME Core, calls # <<>>, Pass PROVE Core'
<1>1. calls' \in Seq(Calls)
  BY Before, HeadTailProperties DEF Pass
<1>2. eventsQueue' = eventsQueue /\ UNCHANGED <<inPlay, body>>
  BY DEF Pass
<1>. QED
  BY <1>1, <1>2, Before, SameKeeps

LEMMA AddCounterKeeps == ASSUME Core, AddCounter PROVE Core'
<1>1. PICK call, rest : call = Head(calls) /\ rest = Tail(calls)
  OBVIOUS
<1>2. call \in CounterCalls /\ rest \in Seq(Calls) /\ calls # <<>>
  <2>1. call \in Calls /\ rest \in Seq(Calls) /\ call.op = "addCounter"
    BY <1>1, HeadOfCalls DEF AddCounter
  <2>. QED
    BY <2>1, CounterCall DEF AddCounter, Runs
<1>3. call.card \in Creatures /\ call.kind \in Kinds
  BY <1>2 DEF CounterCalls
<1>4. CASE call.live
  <2>c. PICK c \in Creatures : c = call.card
    BY <1>3
  <2>1. PICK b : c = call.card /\ b = body[c]
    BY <2>c
  <2>2. addCounter(c, b, call.kind, rest, eventsQueue)
    BY <1>1, <1>4, <2>1 DEF AddCounter
  <2>3. State
    BY Before
  <2>4. Good(c, b) /\ Doomed(c, b, eventsQueue) /\ eventsQueue \in Seq(Events)
    BY <2>1, Before
  <2>5. \A d \in Creatures \ {c} : Doomed(d, body[d], eventsQueue)
    BY Before
  <2>. QED
    BY <1>2, <1>3, <2>2, <2>3, <2>4, <2>5, CounterKeeps
<1>5. CASE ~call.live
  <2>1. Pass
    BY <1>1, <1>5 DEF AddCounter
  <2>. QED
    BY <1>2, <2>1, PassKeeps
<1>. QED
  BY <1>4, <1>5

LEMMA RemoveCounterKeeps == ASSUME Core, RemoveCounter PROVE Core'
<1>1. PICK call, rest : call = Head(calls) /\ rest = Tail(calls)
  OBVIOUS
<1>2. call \in CounterCalls /\ rest \in Seq(Calls) /\ calls # <<>>
  <2>1. call \in Calls /\ rest \in Seq(Calls) /\ call.op = "removeCounter"
    BY <1>1, HeadOfCalls DEF RemoveCounter
  <2>. QED
    BY <2>1, CounterCall DEF RemoveCounter, Runs
<1>3. call.card \in Creatures /\ call.kind \in Kinds
  BY <1>2 DEF CounterCalls
<1>4. CASE call.live
  <2>c. PICK c \in Creatures : c = call.card
    BY <1>3
  <2>1. PICK b, less : c = call.card /\ b = body[c] /\ less = removeCounter(b, call.kind)
    BY <2>c
  <2>2. stays(c, less, rest, eventsQueue)
    BY <1>1, <1>4, <2>1 DEF RemoveCounter
  <2>3. State
    BY Before
  <2>4. Good(c, b) /\ Doomed(c, b, eventsQueue) /\ eventsQueue \in Seq(Events)
    BY <2>1, Before
  <2>5. \A d \in Creatures \ {c} : Doomed(d, body[d], eventsQueue)
    BY Before
  <2>6. Good(c, less) /\ less.touched = b.touched
    BY <1>3, <2>1, <2>4, LessGood
  <2>7. Doomed(c, less, eventsQueue)
    BY <2>4, <2>6 DEF Doomed
  <2>. QED
    BY <1>2, <2>2, <2>3, <2>4, <2>5, <2>6, <2>7, StaysKeeps
<1>5. CASE ~call.live
  <2>1. Pass
    BY <1>1, <1>5 DEF RemoveCounter
  <2>. QED
    BY <1>2, <2>1, PassKeeps
<1>. QED
  BY <1>4, <1>5

LEMMA TestTargetKeeps == ASSUME Core, TestTarget PROVE Core'
<1>1. PICK call, rest : call = Head(calls) /\ rest = Tail(calls)
  OBVIOUS
<1>2. call \in TestCalls /\ rest \in Seq(Calls) /\ calls # <<>>
  <2>1. call \in Calls /\ rest \in Seq(Calls) /\ call.op = "afterDamage"
    BY <1>1, HeadOfCalls DEF TestTarget
  <2>. QED
    BY <2>1, TestCall DEF TestTarget, Runs
<1>3. CASE call.live
  <2>c. PICK c \in Creatures : c = call.card
    BY <1>2 DEF TestCalls
  <2>1. PICK b : c = call.card /\ b = body[c]
    BY <2>c
  <2>2. afterDamage(c, b, rest, eventsQueue)
    BY <1>1, <1>3, <2>1 DEF TestTarget
  <2>3. State
    BY Before
  <2>4. Good(c, b) /\ Doomed(c, b, eventsQueue) /\ eventsQueue \in Seq(Events)
    BY <2>1, Before
  <2>5. \A d \in Creatures \ {c} : Doomed(d, body[d], eventsQueue)
    BY Before
  <2>. QED
    BY <1>2, <2>2, <2>3, <2>4, <2>5, TestKeeps
<1>4. CASE ~call.live
  <2>1. Pass
    BY <1>1, <1>4 DEF TestTarget
  <2>. QED
    BY <1>2, <2>1, PassKeeps
<1>. QED
  BY <1>3, <1>4

LEMMA TestEachKeeps == ASSUME Core, TestEach PROVE Core'
<1>1. PICK call, rest : call = Head(calls) /\ rest = Tail(calls)
  OBVIOUS
<1>2. call \in WalkCalls /\ rest \in Seq(Calls) /\ calls # <<>>
  <2>1. call \in Calls /\ rest \in Seq(Calls) /\ call.op = "afterDamages"
    BY <1>1, HeadOfCalls DEF TestEach
  <2>. QED
    BY <2>1, WalkCall DEF TestEach, Runs
<1>3. CASE call.left = {}
  <2>1. Pass
    BY <1>1, <1>3 DEF TestEach
  <2>. QED
    BY <1>2, <2>1, PassKeeps
<1>4. CASE call.left # {}
  <2>1. PICK c \in call.left, again \in BOOLEAN :
          afterDamage(c, body[c],
            <<IF again THEN call ELSE [call EXCEPT !.left = @ \ {c}]>> \o rest, eventsQueue)
    BY <1>1, <1>4 DEF TestEach
  <2>2. PICK b, next, left : /\ b = body[c] /\ left = <<next>> \o rest
                             /\ next = IF again THEN call ELSE [call EXCEPT !.left = @ \ {c}]
    OBVIOUS
  <2>3. c \in Creatures /\ next \in WalkCalls
    BY <1>2, <2>2 DEF WalkCalls
  <2>4. next \in Calls
    BY <2>3 DEF Calls
  <2>5. left \in Seq(Calls)
    BY <1>2, <2>2, <2>4, FirstOfCalls
  <2>6. afterDamage(c, b, left, eventsQueue)
    BY <2>1, <2>2
  <2>7. State
    BY Before
  <2>8. Good(c, b) /\ Doomed(c, b, eventsQueue) /\ eventsQueue \in Seq(Events)
    BY <2>2, <2>3, Before
  <2>9. \A d \in Creatures \ {c} : Doomed(d, body[d], eventsQueue)
    BY Before
  <2>. QED
    BY <2>3, <2>5, <2>6, <2>7, <2>8, <2>9, TestKeeps
<1>. QED
  BY <1>3, <1>4

LEMMA StackResolvedKeeps == ASSUME Core, StackResolved PROVE Core'
<1>1. PICK event, queue :
        /\ event = [type |-> "DamageStackResolved", card |-> "none", live |-> TRUE]
        /\ queue = Append(eventsQueue, event)
  OBVIOUS
<1>2. event \in Events
  BY <1>1 DEF Events
<1>3. eventsQueue \in Seq(Events)
  BY Before
<1>4. queue \in Seq(Events) /\ \A d : Told(eventsQueue, d) => Told(queue, d)
  BY <1>1, <1>2, <1>3, AppendTells
<1>5. eventsQueue' = queue /\ UNCHANGED <<inPlay, body>>
  BY <1>1 DEF StackResolved
<1>6. calls' \in Seq(Calls)
  BY Before, HeadTailProperties DEF StackResolved, Runs
<1>7. \A d \in Creatures : Doomed(d, body[d], queue)
  BY <1>4, Before DEF Doomed
<1>. QED
  BY <1>4, <1>5, <1>6, <1>7, SameKeeps

LEMMA PreventedGood ==
  ASSUME NEW c \in Creatures, NEW b, Good(c, b), NEW amount \in Nat,
         NEW r, r = [b EXCEPT !.preventable = LessPrevented(@, amount)]
  PROVE  Good(c, r) /\ r.touched = b.touched
<1>1. b \in Bodies
  BY DEF Good
<1>2. b.preventable \in 0..MaxShields /\ MaxShields \in Nat
  BY <1>1, BodyTyped, ConstantsAssumption
<1>3. PICK n \in 0..MaxShields : n = LessPrevented(b.preventable, amount)
  <2>1. LessPrevented(b.preventable, amount) \in 0..MaxShields
    BY <1>2 DEF LessPrevented
  <2>. QED
    BY <2>1
<1>4. r = [b EXCEPT !.preventable = n]
  BY <1>3
<1>5. /\ r \in Bodies /\ r.touched = b.touched
      /\ r.toughness = b.toughness /\ r.life = b.life /\ r.doDamageTest = b.doDamageTest
      /\ r.plus = b.plus /\ r.minus = b.minus /\ r.marked = b.marked
      /\ r.pumped = b.pumped /\ r.weakened = b.weakened
  BY <1>1, <1>4 DEF Bodies
<1>. QED
  BY <1>5 DEF Good, AddsUp, Watched

LEMMA HurtGood ==
  ASSUME NEW c \in Creatures, NEW b, Good(c, b), NEW amount \in Nat, NEW call \in DamageCalls,
         NEW r, r = Hurt(b, amount, call)
  PROVE  Good(c, r) /\ (r.touched => b.touched \/ call.keyword = "deathtouch")
<1>1. b \in Bodies /\ AddsUp(c, b)
  BY DEF Good
<1>t. /\ b.toughness \in Int /\ b.life \in Int /\ b.marked \in Nat
      /\ b.plus \in Nat /\ b.minus \in Nat /\ b.pumped \in Nat /\ b.weakened \in Nat
  BY <1>1, BodyTyped
<1>2. PICK l \in Int, m \in Nat : l = b.life - amount /\ m = b.marked + amount
  <2>1. b.life - amount \in Int /\ b.marked + amount \in Nat
    BY <1>t
  <2>. QED
    BY <2>1
<1>3. PICK struck \in BOOLEAN, touched \in BOOLEAN :
        /\ struck = (b.struck \/ call.nested)
        /\ touched = (b.touched \/ call.keyword = "deathtouch")
  OBVIOUS
<1>4. r = [b EXCEPT !.life = l, !.doDamageTest = TRUE, !.struck = struck,
                    !.marked = m, !.touched = touched]
  BY <1>2, <1>3 DEF Hurt
<1>5. /\ r \in Bodies /\ r.touched = touched
      /\ r.toughness = b.toughness /\ r.life = l /\ r.doDamageTest
      /\ r.plus = b.plus /\ r.minus = b.minus /\ r.marked = m
      /\ r.pumped = b.pumped /\ r.weakened = b.weakened
  BY <1>1, <1>4 DEF Bodies
<1>6. r.life = r.toughness - r.marked
  BY <1>1, <1>t, <1>2, <1>5 DEF AddsUp
<1>7. r.toughness = Toughness[c] + r.plus - r.minus + 2 * r.pumped - r.weakened
  BY <1>1, <1>5 DEF AddsUp
<1>. QED
  BY <1>3, <1>5, <1>6, <1>7 DEF Good, AddsUp, Watched

LEMMA WitheringGood ==
  ASSUME NEW c \in Creatures, NEW b, Good(c, b), NEW call \in DamageCalls,
         NEW r, r = [b EXCEPT !.doDamageTest = TRUE, !.struck = @ \/ call.nested]
  PROVE  Good(c, r) /\ r.touched = b.touched
<1>1. b \in Bodies
  BY DEF Good
<1>2. PICK struck \in BOOLEAN : struck = (b.struck \/ call.nested)
  OBVIOUS
<1>3. r = [b EXCEPT !.doDamageTest = TRUE, !.struck = struck]
  BY <1>2
<1>4. /\ r \in Bodies /\ r.touched = b.touched
      /\ r.toughness = b.toughness /\ r.life = b.life /\ r.doDamageTest
      /\ r.plus = b.plus /\ r.minus = b.minus /\ r.marked = b.marked
      /\ r.pumped = b.pumped /\ r.weakened = b.weakened
  BY <1>1, <1>3 DEF Bodies
<1>. QED
  BY <1>4 DEF Good, AddsUp, Watched

LEMMA CountersTyped ==
  ASSUME NEW c \in Creatures, NEW op \in {"addCounter", "removeCounter"}, NEW kind \in Kinds,
         NEW n \in Nat, NEW nested \in BOOLEAN, NEW seq, seq = Counters(c, op, kind, n, nested)
  PROVE  seq \in Seq(Calls)
<1>1. PICK one : one = [op |-> op, card |-> c, live |-> TRUE, nested |-> nested, kind |-> kind]
  OBVIOUS
<1>2. one \in CounterCalls
  BY <1>1 DEF CounterCalls
<1>3. one \in Calls
  BY <1>2 DEF Calls
<1>4. seq = [i \in 1..n |-> one]
  BY <1>1 DEF Counters
<1>5. seq \in [1..n -> Calls]
  BY <1>3, <1>4
<1>. QED
  BY <1>5 DEF Seq

LEMMA DamageEventTyped ==
  ASSUME NEW call \in DamageCalls, NEW event, event = DamageEvent(call)
  PROVE  /\ event \in Events
         /\ call.live /\ call.keyword = "deathtouch" => Names(event, call.card)
<1>1. event \in [type : {"Damage"}, card : Creatures, live : BOOLEAN, keyword : Keywords]
  BY DEF DamageEvent, DamageCalls
<1>2. event \in Events
  BY <1>1 DEF Events
<1>. QED
  BY <1>2 DEF DamageEvent, Names

\* The damage is told, whether or not it was dealt.
LEMMA ToldKeeps ==
  ASSUME Core, NEW call \in DamageCalls, NEW rest \in Seq(Calls), calls' = rest,
         eventsQueue' = Append(eventsQueue, DamageEvent(call)), UNCHANGED <<inPlay, body>>
  PROVE  Core'
<1>1. PICK event, queue : event = DamageEvent(call) /\ queue = Append(eventsQueue, event)
  OBVIOUS
<1>2. event \in Events
  BY <1>1, DamageEventTyped
<1>3. eventsQueue \in Seq(Events)
  BY Before
<1>4. queue \in Seq(Events) /\ \A d : Told(eventsQueue, d) => Told(queue, d)
  BY <1>1, <1>2, <1>3, AppendTells
<1>5. \A d \in Creatures : Doomed(d, body[d], queue)
  BY <1>4, Before DEF Doomed
<1>6. eventsQueue' = queue /\ calls' \in Seq(Calls)
  BY <1>1
<1>. QED
  BY <1>4, <1>5, <1>6, SameKeeps

LEMMA WitheredKeeps == ASSUME Core, Withered PROVE Core'
<1>1. PICK call, rest : call = Head(calls) /\ rest = Tail(calls)
  OBVIOUS
<1>2. call \in DamageCalls /\ rest \in Seq(Calls) /\ calls # <<>>
  <2>1. call \in Calls /\ rest \in Seq(Calls) /\ call.op = "Withered"
    BY <1>1, HeadOfCalls DEF Withered
  <2>. QED
    BY <2>1, DamageCall DEF Withered, Runs
<1>3. CASE call.live /\ Shrunk(call.card, body[call.card])
  <2>c. PICK c \in Creatures : c = call.card
    BY <1>2 DEF DamageCalls
  <2>1. PICK b : c = call.card /\ b = body[c]
    BY <2>c
  <2>2. leaves(c, b, calls, eventsQueue)
    BY <1>1, <1>3, <2>1 DEF Withered
  <2>3. State
    BY Before
  <2>4. calls \in Seq(Calls) /\ eventsQueue \in Seq(Events)
    BY Before
  <2>5. \A d \in Creatures \ {c} : Doomed(d, body[d], eventsQueue)
    BY Before
  <2>. QED
    BY <2>2, <2>3, <2>4, <2>5, LeavesKeeps
<1>4. CASE ~(call.live /\ Shrunk(call.card, body[call.card]))
  <2>1. /\ calls' = rest /\ eventsQueue' = Append(eventsQueue, DamageEvent(call))
        /\ UNCHANGED <<inPlay, body>>
    BY <1>1, <1>4 DEF Withered
  <2>. QED
    BY <1>2, <2>1, ToldKeeps
<1>. QED
  BY <1>3, <1>4

LEMMA ResolveDamageKeeps == ASSUME Core, ResolveDamage PROVE Core'
<1>1. PICK call, rest : call = Head(calls) /\ rest = Tail(calls)
  OBVIOUS
<1>2. call \in DamageCalls /\ rest \in Seq(Calls) /\ calls # <<>>
  <2>1. call \in Calls /\ rest \in Seq(Calls) /\ call.op = "Damage"
    BY <1>1, HeadOfCalls DEF ResolveDamage
  <2>. QED
    BY <2>1, DamageCall DEF ResolveDamage, Runs
<1>c. PICK c \in Creatures : c = call.card
  BY <1>2 DEF DamageCalls
<1>3. PICK old, b, amount :
        /\ c = call.card /\ old = body[c]
        /\ amount = LessPrevented(call.amount, old.preventable)
        /\ b = [old EXCEPT !.preventable = LessPrevented(@, call.amount)]
  BY <1>c
<1>4. /\ State /\ Good(c, old) /\ Doomed(c, old, eventsQueue) /\ eventsQueue \in Seq(Events)
      /\ \A d \in Creatures \ {c} : Doomed(d, body[d], eventsQueue)
  BY <1>3, Before
<1>5. call.amount \in Nat /\ call.nested \in BOOLEAN /\ old.preventable \in Nat
  <2>1. old.preventable \in 0..MaxShields
    BY <1>4, BodyTyped DEF Good
  <2>. QED
    BY <1>2, <2>1, ConstantsAssumption DEF DamageCalls
<1>6. Good(c, b) /\ b.touched = old.touched
  BY <1>3, <1>4, <1>5, PreventedGood
<1>7. Doomed(c, b, eventsQueue)
  BY <1>4, <1>6 DEF Doomed
<1>8. amount \in Nat
  BY <1>3, <1>5 DEF LessPrevented
<1>9. PICK kind, instead, counters :
        /\ kind = (IF c \in Hydra THEN "plus" ELSE "minus")
        /\ instead = Instead(c, call.keyword)
        /\ counters = Counters(c, instead, kind, amount, call.nested)
  OBVIOUS
<1>10. CASE ~call.live
  <2>1. /\ calls' = rest /\ eventsQueue' = Append(eventsQueue, DamageEvent(call))
        /\ UNCHANGED <<inPlay, body>>
    BY <1>1, <1>10 DEF ResolveDamage
  <2>. QED
    BY <1>2, <2>1, ToldKeeps
<1>11. CASE call.live /\ amount = 0
  <2>1. stays(c, b, rest, eventsQueue)
    BY <1>1, <1>3, <1>11 DEF ResolveDamage
  <2>2. State /\ \A d \in Creatures \ {c} : Doomed(d, body[d], eventsQueue)
    BY <1>4
  <2>3. eventsQueue \in Seq(Events)
    BY <1>4
  <2>. QED
    BY <1>2, <1>6, <1>7, <2>1, <2>2, <2>3, StaysKeeps
<1>12. CASE call.live /\ amount # 0 /\ instead = "none"
  <2>1. PICK hurt, event, queue :
          /\ hurt = Hurt(b, amount, call) /\ event = DamageEvent(call)
          /\ queue = Append(eventsQueue, event)
    OBVIOUS
  <2>2. stays(c, hurt, rest, queue)
    BY <1>1, <1>3, <1>9, <1>12, <2>1 DEF ResolveDamage
  <2>3. Good(c, hurt) /\ (hurt.touched => b.touched \/ call.keyword = "deathtouch")
    BY <1>2, <1>6, <1>8, <2>1, HurtGood
  <2>4. event \in Events /\ (call.keyword = "deathtouch" => Names(event, c))
    BY <1>2, <1>3, <1>12, <2>1, DamageEventTyped
  <2>5. /\ queue \in Seq(Events)
        /\ \A d : Told(eventsQueue, d) \/ Names(event, d) => Told(queue, d)
    BY <1>4, <2>1, <2>4, AppendTells
  <2>6. Doomed(c, hurt, queue)
    BY <1>7, <2>3, <2>4, <2>5 DEF Doomed
  <2>7. \A d \in Creatures \ {c} : Doomed(d, body[d], queue)
    BY <1>4, <2>5 DEF Doomed
  <2>8. State
    BY <1>4
  <2>. QED
    BY <1>2, <2>2, <2>3, <2>5, <2>6, <2>7, <2>8, StaysKeeps
<1>13. CASE call.live /\ amount # 0 /\ instead # "none"
  <2>1. instead \in {"addCounter", "removeCounter"} /\ kind \in Kinds
    <3>1. instead \in {"addCounter", "removeCounter", "none"}
      BY <1>9 DEF Instead
    <3>. QED
      BY <1>9, <1>13, <3>1 DEF Kinds
  <2>2. counters \in Seq(Calls)
    BY <1>5, <1>8, <1>9, <2>1, CountersTyped
  <2>3. State /\ \A d \in Creatures \ {c} : Doomed(d, body[d], eventsQueue)
    BY <1>4
  <2>4. eventsQueue \in Seq(Events)
    BY <1>4
  <2>5. CASE c \in Wilting \cup Hydra
    <3>1. PICK left : left = counters \o rest
      OBVIOUS
    <3>2. left \in Seq(Calls)
      BY <1>2, <2>2, <3>1, ConcatProperties
    <3>3. stays(c, b, left, eventsQueue)
      BY <1>1, <1>3, <1>9, <1>13, <2>5, <3>1 DEF ResolveDamage
    <3>. QED
      BY <1>6, <1>7, <2>3, <2>4, <3>2, <3>3, StaysKeeps
  <2>6. CASE c \notin Wilting \cup Hydra
    <3>1. PICK r, end :
            /\ r = [b EXCEPT !.doDamageTest = TRUE, !.struck = @ \/ call.nested]
            /\ end = [call EXCEPT !.op = "Withered"]
      OBVIOUS
    <3>2. stays(c, r, counters \o <<end>> \o rest, eventsQueue)
      BY <1>1, <1>3, <1>9, <1>13, <2>6, <3>1 DEF ResolveDamage
    <3>3. end \in DamageCalls
      BY <1>2, <3>1 DEF DamageCalls
    <3>4. end \in Calls
      BY <3>3 DEF Calls
    <3>5. PICK both, all : both = counters \o <<end>> /\ all = both \o rest
      OBVIOUS
    <3>6. <<end>> \in Seq(Calls)
      BY <3>4
    <3>7. both \in Seq(Calls)
      BY <2>2, <3>5, <3>6, ConcatProperties
    <3>8. all \in Seq(Calls)
      BY <1>2, <3>5, <3>7, ConcatProperties
    <3>9. Good(c, r) /\ r.touched = b.touched
      BY <1>2, <1>6, <3>1, WitheringGood
    <3>10. Doomed(c, r, eventsQueue)
      BY <1>7, <3>9 DEF Doomed
    <3>11. stays(c, r, all, eventsQueue)
      BY <3>2, <3>5
    <3>. QED
      BY <2>3, <2>4, <3>8, <3>9, <3>10, <3>11, StaysKeeps
  <2>. QED
    BY <2>5, <2>6
<1>. QED
  BY <1>10, <1>11, <1>12, <1>13

LEMMA GiveCounterKeeps == ASSUME Core, GiveCounter PROVE Core'
<1>1. PICK call, tail : call = Head(calls) /\ tail = Tail(calls)
  OBVIOUS
<1>2. call \in EffectCalls /\ tail \in Seq(Calls) /\ call.nb > 0
  <2>1. call \in Calls /\ tail \in Seq(Calls) /\ call.op = "AACounter"
    BY <1>1, HeadOfCalls DEF GiveCounter
  <2>. QED
    BY <1>1, <2>1, EffectCall DEF GiveCounter
<1>c. PICK c \in Creatures : c = call.card
  BY <1>2 DEF EffectCalls
<1>3. PICK b, next, rest :
        /\ c = call.card /\ b = body[c]
        /\ next = [call EXCEPT !.nb = @ - 1, !.live = TRUE] /\ rest = <<next>> \o tail
  BY <1>c
<1>4. rest \in Seq(Calls)
  <2>1. PICK n \in Nat : n = call.nb - 1
    <3>1. call.nb \in Nat
      BY <1>2 DEF EffectCalls
    <3>2. call.nb - 1 \in Nat
      BY <1>2, <3>1
    <3>. QED
      BY <3>2
  <2>2. next = [call EXCEPT !.nb = n, !.live = TRUE]
    BY <1>3, <2>1
  <2>3. next \in EffectCalls
    BY <1>2, <2>2 DEF EffectCalls
  <2>4. next \in Calls
    BY <2>3 DEF Calls
  <2>. QED
    BY <1>2, <1>3, <2>4, FirstOfCalls
<1>5. /\ State /\ Good(c, b) /\ Doomed(c, b, eventsQueue) /\ eventsQueue \in Seq(Events)
      /\ \A d \in Creatures : Doomed(d, body[d], eventsQueue)
  BY <1>3, Before
<1>6. call.kind \in Kinds /\ call.add \in BOOLEAN
  BY <1>2 DEF EffectCalls
<1>7. CASE c \notin inPlay
  <2>1. calls' = rest /\ UNCHANGED <<inPlay, body, eventsQueue>>
    BY <1>1, <1>3, <1>7 DEF GiveCounter
  <2>2. calls' \in Seq(Calls) /\ eventsQueue' \in Seq(Events) /\ UNCHANGED <<inPlay, body>>
    BY <1>4, <1>5, <2>1
  <2>3. \A d \in Creatures : Doomed(d, body[d], eventsQueue')
    BY <1>5, <2>1
  <2>. QED
    BY <2>2, <2>3, SameKeeps
<1>8. CASE c \in inPlay /\ call.add
  <2>1. addCounter(c, b, call.kind, rest, eventsQueue)
    BY <1>1, <1>3, <1>8 DEF GiveCounter
  <2>2. State /\ \A d \in Creatures \ {c} : Doomed(d, body[d], eventsQueue)
    BY <1>5
  <2>3. Good(c, b) /\ Doomed(c, b, eventsQueue) /\ eventsQueue \in Seq(Events)
    BY <1>5
  <2>. QED
    BY <1>4, <1>6, <2>1, <2>2, <2>3, CounterKeeps
<1>9. CASE c \in inPlay /\ ~call.add
  <2>1. PICK less : less = removeCounter(b, call.kind)
    OBVIOUS
  <2>2. stays(c, less, rest, eventsQueue)
    BY <1>1, <1>3, <1>9, <2>1 DEF GiveCounter
  <2>3. Good(c, less) /\ less.touched = b.touched
    BY <1>5, <1>6, <2>1, LessGood
  <2>4. Doomed(c, less, eventsQueue)
    BY <1>5, <2>3 DEF Doomed
  <2>5. State /\ \A d \in Creatures \ {c} : Doomed(d, body[d], eventsQueue)
    BY <1>5
  <2>6. eventsQueue \in Seq(Events)
    BY <1>5
  <2>. QED
    BY <1>4, <2>2, <2>3, <2>4, <2>5, <2>6, StaysKeeps
<1>. QED
  BY <1>6, <1>7, <1>8, <1>9

\* To ask for a test changes nothing else.
LEMMA AskedGood ==
  ASSUME NEW c \in Creatures, NEW b, Good(c, b), NEW r, r = [b EXCEPT !.doDamageTest = TRUE]
  PROVE  Good(c, r) /\ r.touched = b.touched
<1>1. b \in Bodies
  BY DEF Good
<1>2. /\ r \in Bodies /\ r.touched = b.touched
      /\ r.toughness = b.toughness /\ r.life = b.life /\ r.doDamageTest
      /\ r.plus = b.plus /\ r.minus = b.minus /\ r.marked = b.marked
      /\ r.pumped = b.pumped /\ r.weakened = b.weakened
  BY <1>1 DEF Bodies
<1>. QED
  BY <1>2 DEF Good, AddsUp, Watched

LEMMA CountersGivenKeeps == ASSUME Core, CountersGiven PROVE Core'
<1>1. PICK call, rest : call = Head(calls) /\ rest = Tail(calls)
  OBVIOUS
<1>2. call \in EffectCalls /\ rest \in Seq(Calls) /\ calls # <<>>
  <2>1. call \in Calls /\ rest \in Seq(Calls) /\ call.op = "AACounter"
    BY <1>1, HeadOfCalls DEF CountersGiven
  <2>. QED
    BY <2>1, EffectCall DEF CountersGiven, Runs
<1>c. PICK c \in Creatures : c = call.card
  BY <1>2 DEF EffectCalls
<1>3. PICK old, b, tested, left :
        /\ c = call.card /\ old = body[c]
        /\ b = [old EXCEPT !.doDamageTest = TRUE]
        /\ tested = Tested(b) /\ left = cancelCounters(tested)
  BY <1>c
<1>4. /\ State /\ Good(c, old) /\ Doomed(c, old, eventsQueue) /\ eventsQueue \in Seq(Events)
      /\ \A d \in Creatures \ {c} : Doomed(d, body[d], eventsQueue)
  BY <1>3, Before
<1>5. Good(c, b) /\ b.touched = old.touched
  BY <1>3, <1>4, AskedGood
<1>6. CASE ~call.live \/ c \notin inPlay
  <2>1. Pass
    BY <1>1, <1>3, <1>6 DEF CountersGiven
  <2>. QED
    BY <1>2, <2>1, PassKeeps
<1>7. CASE ~(~call.live \/ c \notin inPlay)
  <2>0. /\ State /\ \A d \in Creatures \ {c} : Doomed(d, body[d], eventsQueue)
        /\ eventsQueue \in Seq(Events)
    BY <1>4
  <2>1. \/ Lethal(b) /\ DestroyedBy(c, b) /\ leaves(c, b, rest, eventsQueue)
        \/ ~(Lethal(b) /\ DestroyedBy(c, b)) /\ leaves(c, left, rest, eventsQueue)
        \/ ~(Lethal(b) /\ DestroyedBy(c, b)) /\ stays(c, left, rest, eventsQueue)
    BY <1>1, <1>3, <1>7 DEF CountersGiven
  <2>2. CASE leaves(c, b, rest, eventsQueue) \/ leaves(c, left, rest, eventsQueue)
    BY <1>2, <2>0, <2>2, LeavesKeeps
  <2>3. CASE ~(Lethal(b) /\ DestroyedBy(c, b)) /\ stays(c, left, rest, eventsQueue)
    <3>1. Good(c, tested) /\ (tested.touched => b.touched)
      <4>1. ~(Lethal(b) /\ DestroyedBy(c, b)) /\ tested = Tested(b)
        BY <1>3, <2>3
      <4>. QED
        BY <1>5, <4>1, TestedGood
    <3>2. Good(c, left) /\ left.touched = tested.touched
      BY <1>3, <3>1, CancelledGood
    <3>3. Doomed(c, left, eventsQueue)
      BY <1>4, <1>5, <3>1, <3>2 DEF Doomed
    <3>. QED
      BY <1>2, <2>0, <2>3, <3>2, <3>3, StaysKeeps
  <2>. QED
    BY <2>1, <2>2, <2>3
<1>. QED
  BY <1>6, <1>7

\* What is known of the event that is heard.
LEMMA HeadOfQueue ==
  ASSUME Core, NEW type, Delivers(type), NEW event, event = Head(eventsQueue),
         NEW queue, queue = Tail(eventsQueue)
  PROVE  /\ event \in Events /\ event.type = type /\ queue \in Seq(Events)
         /\ \A d \in Creatures : ~Names(event, d) => Doomed(d, body[d], queue)
<1>1. eventsQueue \in Seq(Events) /\ eventsQueue # <<>> /\ event.type = type
  BY Before DEF Delivers
<1>2. /\ event \in Events /\ queue \in Seq(Events)
      /\ \A d : Told(eventsQueue, d) /\ ~Names(event, d) => Told(queue, d)
  BY <1>1, TailTells
<1>3. \A d \in Creatures : Doomed(d, body[d], eventsQueue)
  BY Before
<1>. QED
  BY <1>1, <1>2, <1>3 DEF Doomed

LEMMA HearDamageKeeps == ASSUME Core, HearDamage PROVE Core'
<1>1. PICK event, queue : event = Head(eventsQueue) /\ queue = Tail(eventsQueue)
  OBVIOUS
<1>2. /\ event \in Events /\ event.type = "Damage" /\ queue \in Seq(Events)
      /\ \A d \in Creatures : ~Names(event, d) => Doomed(d, body[d], queue)
  BY <1>1, HeadOfQueue DEF HearDamage
<1>c. PICK c \in Creatures : c = event.card
  BY <1>2 DEF Events
<1>3. PICK b : c = event.card /\ b = body[c]
  BY <1>c
<1>4. CASE event.live /\ event.keyword = "deathtouch"
  <2>1. destroy(c, b, calls, queue)
    BY <1>1, <1>3, <1>4 DEF HearDamage
  <2>2. State /\ Good(c, b) /\ calls \in Seq(Calls)
    BY <1>3, Before
  <2>3. \A d \in Creatures \ {c} : Doomed(d, body[d], queue)
    BY <1>2, <1>3 DEF Names
  <2>. QED
    BY <1>2, <2>1, <2>2, <2>3, DestroyKeeps
<1>5. CASE ~(event.live /\ event.keyword = "deathtouch")
  <2>1. eventsQueue' = queue /\ UNCHANGED <<inPlay, body, calls>>
    BY <1>1, <1>5 DEF HearDamage
  <2>2. \A d \in Creatures : Doomed(d, body[d], eventsQueue')
    BY <1>2, <1>5, <2>1 DEF Names
  <2>3. calls' \in Seq(Calls) /\ eventsQueue' \in Seq(Events)
    BY <1>2, <2>1, Before
  <2>4. UNCHANGED <<inPlay, body>>
    BY <2>1
  <2>. QED
    BY <2>2, <2>3, <2>4, SameKeeps
<1>. QED
  BY <1>4, <1>5

LEMMA HearStackResolvedKeeps == ASSUME Core, HearStackResolved PROVE Core'
<1>1. PICK event, queue : event = Head(eventsQueue) /\ queue = Tail(eventsQueue)
  OBVIOUS
<1>2. /\ event \in Events /\ event.type = "DamageStackResolved" /\ queue \in Seq(Events)
      /\ \A d \in Creatures : ~Names(event, d) => Doomed(d, body[d], queue)
  BY <1>1, HeadOfQueue DEF HearStackResolved
<1>3. PICK walk, left :
        walk = TestAll({c \in inPlay : body[c].struck}, TRUE) /\ left = <<walk>> \o calls
  OBVIOUS
<1>4. walk \in WalkCalls
  BY <1>3, Before DEF TestAll, WalkCalls
<1>5. walk \in Calls
  BY <1>4 DEF Calls
<1>6. calls \in Seq(Calls)
  BY Before
<1>7. left \in Seq(Calls)
  BY <1>3, <1>5, <1>6, FirstOfCalls
<1>8. eventsQueue' = queue /\ calls' = left /\ UNCHANGED <<inPlay, body>>
  BY <1>1, <1>3 DEF HearStackResolved
<1>9. \A d \in Creatures : Doomed(d, body[d], eventsQueue')
  BY <1>2, <1>8 DEF Names
<1>10. calls' \in Seq(Calls) /\ eventsQueue' \in Seq(Events)
  BY <1>2, <1>7, <1>8
<1>. QED
  BY <1>8, <1>9, <1>10, SameKeeps

LEMMA HearZoneChangeKeeps == ASSUME Core, HearZoneChange PROVE Core'
<1>1. PICK event, queue : event = Head(eventsQueue) /\ queue = Tail(eventsQueue)
  OBVIOUS
<1>2. /\ event \in Events /\ event.type = "ZoneChange" /\ queue \in Seq(Events)
      /\ \A d \in Creatures : ~Names(event, d) => Doomed(d, body[d], queue)
  BY <1>1, HeadOfQueue DEF HearZoneChange
<1>3. \A d \in Creatures : Doomed(d, body[d], queue)
  BY <1>2 DEF Names
<1>c. PICK c \in Creatures : c = event.card
  BY <1>2 DEF Events
<1>4. PICK b : c = event.card /\ b = Printed(c)
  BY <1>c
<1>5. CASE event.live /\ event.with # "no"
  <2>1. addCounter(c, b, event.with, calls, queue)
    BY <1>1, <1>4, <1>5 DEF HearZoneChange
  <2>2. event.with \in Kinds
    BY <1>2, <1>5 DEF Events
  <2>3. Good(c, b) /\ ~b.touched
    BY <1>4, PrintedGood
  <2>4. Doomed(c, b, queue)
    BY <2>3 DEF Doomed
  <2>5. State /\ \A d \in Creatures \ {c} : Doomed(d, body[d], queue)
    BY <1>3, Before
  <2>6. calls \in Seq(Calls)
    BY Before
  <2>. QED
    BY <1>2, <2>1, <2>2, <2>3, <2>4, <2>5, <2>6, CounterKeeps
<1>6. CASE ~(event.live /\ event.with # "no")
  <2>1. eventsQueue' = queue /\ UNCHANGED <<inPlay, body, calls>>
    BY <1>1, <1>6 DEF HearZoneChange
  <2>2. \A d \in Creatures : Doomed(d, body[d], eventsQueue')
    BY <1>3, <2>1
  <2>3. calls' \in Seq(Calls) /\ eventsQueue' \in Seq(Events)
    BY <1>2, <2>1, Before
  <2>4. UNCHANGED <<inPlay, body>>
    BY <2>1
  <2>. QED
    BY <2>2, <2>3, <2>4, SameKeeps
<1>. QED
  BY <1>5, <1>6

-----------------------------------------------------------------------------
(* Effects begin when nothing is under way: the queue is empty, and nobody  *)
(* in it is doomed.                                                         *)

LEMMA IdleKnows ==
  ASSUME Core, Idle
  PROVE  /\ State /\ calls = <<>> /\ eventsQueue = <<>>
         /\ \A d \in Creatures : Good(d, body[d]) /\ Doomed(d, body[d], <<>>)
BY Before DEF Idle

LEMMA EmptyTyped == <<>> \in Seq(Calls) /\ <<>> \in Seq(Events)
<1>1. <<>> \in Seq(Calls)
  BY EmptySeq
<1>2. <<>> \in Seq(Events)
  BY EmptySeq
<1>. QED
  BY <1>1, <1>2

\* An effect that leaves a creature with a body that is no worse.
LEMMA EffectKeeps ==
  ASSUME Core, Idle, NEW c \in Creatures, NEW b, Good(c, b), b.touched => body[c].touched,
         stays(c, b, <<>>, <<>>)
  PROVE  Core'
<1>1. State /\ \A d \in Creatures : Doomed(d, body[d], <<>>)
  BY IdleKnows
<1>2. Doomed(c, b, <<>>)
  BY <1>1 DEF Doomed
<1>3. PICK rest \in Seq(Calls), queue \in Seq(Events) : rest = <<>> /\ queue = <<>>
  BY EmptyTyped
<1>4. stays(c, b, rest, queue) /\ Doomed(c, b, queue) /\ \A d \in Creatures \ {c} : Doomed(d, body[d], queue)
  BY <1>1, <1>2, <1>3
<1>. QED
  BY <1>1, <1>4, StaysKeeps

\* An effect that a creature leaves play by.
LEMMA DeathKeeps ==
  ASSUME Core, Idle, NEW c \in Creatures, NEW b, leaves(c, b, <<>>, <<>>)
  PROVE  Core'
<1>1. State /\ \A d \in Creatures : Doomed(d, body[d], <<>>)
  BY IdleKnows
<1>2. PICK rest \in Seq(Calls), queue \in Seq(Events) : rest = <<>> /\ queue = <<>>
  BY EmptyTyped
<1>3. leaves(c, b, rest, queue) /\ \A d \in Creatures \ {c} : Doomed(d, body[d], queue)
  BY <1>1, <1>2
<1>. QED
  BY <1>1, <1>3, LeavesKeeps

\* An effect that has everything yet to do.
LEMMA CallsKeep ==
  ASSUME Core, calls' \in Seq(Calls), UNCHANGED <<inPlay, body, eventsQueue>>
  PROVE  Core'
<1>1. eventsQueue' \in Seq(Events) /\ \A d \in Creatures : Doomed(d, body[d], eventsQueue')
  BY Before
<1>. QED
  BY <1>1, SameKeeps

LEMMA DamageTyped ==
  ASSUME NEW c \in Creatures, NEW keyword \in Keywords, NEW amount \in Nat, NEW nested \in BOOLEAN
  PROVE  Damage(c, keyword, amount, nested) \in Calls
<1>1. Damage(c, keyword, amount, nested) \in DamageCalls
  BY DEF Damage, DamageCalls
<1>. QED
  BY <1>1 DEF Calls

LEMMA CombatDamageKeeps ==
  ASSUME Core, NEW hits \in Seq(Creatures \X Keywords \X Nat), CombatDamage(hits)
  PROVE  Core'
<1>1. PICK dealt, end, both :
        /\ dealt = [i \in DOMAIN hits |-> Damage(hits[i][1], hits[i][2], hits[i][3], TRUE)]
        /\ end = [op |-> "DamageStackResolved", card |-> "none", live |-> TRUE, nested |-> TRUE]
        /\ both = dealt \o <<end>>
  OBVIOUS
<1>2. dealt \in Seq(Calls)
  <2>1. PICK n \in Nat : DOMAIN hits = 1..n /\ hits \in [1..n -> Creatures \X Keywords \X Nat]
    <3>1. Len(hits) \in Nat /\ DOMAIN hits = 1..Len(hits)
          /\ hits \in [1..Len(hits) -> Creatures \X Keywords \X Nat]
      BY LenProperties
    <3>. QED
      BY <3>1
  <2>2. ASSUME NEW i \in 1..n PROVE Damage(hits[i][1], hits[i][2], hits[i][3], TRUE) \in Calls
    <3>1. hits[i] \in Creatures \X Keywords \X Nat
      BY <2>1
    <3>2. hits[i][1] \in Creatures /\ hits[i][2] \in Keywords /\ hits[i][3] \in Nat
      BY <3>1
    <3>. QED
      BY <3>2, DamageTyped
  <2>3. dealt \in [1..n -> Calls]
    BY <1>1, <2>1, <2>2
  <2>. QED
    BY <2>3 DEF Seq
<1>3. end \in Calls
  BY <1>1 DEF Calls, StackCalls
<1>4. <<end>> \in Seq(Calls)
  BY <1>3
<1>5. both \in Seq(Calls)
  BY <1>1, <1>2, <1>4, ConcatProperties
<1>6. calls' = both /\ UNCHANGED <<inPlay, body, eventsQueue>>
  BY <1>1 DEF CombatDamage
<1>. QED
  BY <1>5, <1>6, CallsKeep

LEMMA DamageSpellKeeps ==
  ASSUME Core, NEW c \in Creatures, NEW keyword \in Keywords, NEW amount \in Nat,
         DamageSpell(c, keyword, amount)
  PROVE  Core'
<1>1. PICK damage, test :
        /\ damage = Damage(c, keyword, amount, FALSE)
        /\ test = [op |-> "afterDamage", card |-> c, live |-> TRUE, nested |-> FALSE]
  OBVIOUS
<1>2. damage \in Calls
  BY <1>1, DamageTyped
<1>3. test \in TestCalls
  BY <1>1 DEF TestCalls
<1>4. test \in Calls
  BY <1>3 DEF Calls
<1>5. <<damage, test>> \in Seq(Calls)
  BY <1>2, <1>4
<1>6. calls' = <<damage, test>> /\ UNCHANGED <<inPlay, body, eventsQueue>>
  BY <1>1 DEF DamageSpell
<1>. QED
  BY <1>5, <1>6, CallsKeep

LEMMA CounterSpellKeeps ==
  ASSUME Core, NEW c \in Creatures, NEW kind \in Kinds, NEW add \in BOOLEAN, NEW nb \in Nat,
         CounterSpell(c, kind, add, nb)
  PROVE  Core'
<1>1. PICK call : call = [op |-> "AACounter", card |-> c, live |-> TRUE, nested |-> FALSE,
                          kind |-> kind, add |-> add, nb |-> nb]
  OBVIOUS
<1>2. call \in EffectCalls
  BY <1>1 DEF EffectCalls
<1>3. call \in Calls
  BY <1>2 DEF Calls
<1>4. <<call>> \in Seq(Calls)
  BY <1>3
<1>5. calls' = <<call>> /\ UNCHANGED <<inPlay, body, eventsQueue>>
  BY <1>1 DEF CounterSpell
<1>. QED
  BY <1>4, <1>5, CallsKeep

LEMMA StateBasedKeeps == ASSUME Core, StateBased PROVE Core'
<1>1. PICK walk : walk = TestAll(inPlay, FALSE)
  OBVIOUS
<1>2. walk \in WalkCalls
  BY <1>1, Before DEF TestAll, WalkCalls
<1>3. walk \in Calls
  BY <1>2 DEF Calls
<1>4. <<walk>> \in Seq(Calls)
  BY <1>3
<1>5. calls' = <<walk>> /\ UNCHANGED <<inPlay, body, eventsQueue>>
  BY <1>1 DEF StateBased
<1>. QED
  BY <1>4, <1>5, CallsKeep

\* The bodies after a pump, and after a pump for the worse.
LEMMA PumpedGood ==
  ASSUME NEW c \in Creatures, NEW b, Good(c, b), b.pumped = 0,
         NEW r, r = [addToToughness(b, 2) EXCEPT !.pumped = 1]
  PROVE  Good(c, r) /\ r.touched = b.touched
<1>1. b \in Bodies /\ AddsUp(c, b) /\ Toughness[c] \in Nat
  BY ConstantsAssumption DEF Good
<1>t. /\ b.toughness \in Int /\ b.life \in Int /\ b.marked \in Nat
      /\ b.plus \in Nat /\ b.minus \in Nat /\ b.pumped \in Nat /\ b.weakened \in Nat
  BY <1>1, BodyTyped
<1>2. PICK t \in Int, l \in Int, one \in Nat : t = b.toughness + 2 /\ l = b.life + 2 /\ one = 1
  <2>1. b.toughness + 2 \in Int /\ b.life + 2 \in Int /\ 1 \in Nat
    BY <1>t
  <2>. QED
    BY <2>1
<1>3. r = [b EXCEPT !.toughness = t, !.life = l, !.doDamageTest = TRUE, !.pumped = one]
  BY <1>2 DEF addToToughness
<1>4. /\ r \in Bodies /\ r.touched = b.touched
      /\ r.toughness = t /\ r.life = l /\ r.doDamageTest
      /\ r.plus = b.plus /\ r.minus = b.minus /\ r.marked = b.marked
      /\ r.pumped = one /\ r.weakened = b.weakened
  BY <1>1, <1>3 DEF Bodies
<1>5. r.toughness = Toughness[c] + r.plus - r.minus + 2 * r.pumped - r.weakened
  BY <1>1, <1>t, <1>2, <1>4 DEF AddsUp
<1>6. r.life = r.toughness - r.marked
  BY <1>1, <1>t, <1>2, <1>4 DEF AddsUp
<1>. QED
  BY <1>4, <1>5, <1>6 DEF Good, AddsUp, Watched

LEMMA WeakenedGood ==
  ASSUME NEW c \in Creatures, NEW b, Good(c, b), b.weakened = 0,
         NEW r, r = [addToToughness(b, -1) EXCEPT !.weakened = 1]
  PROVE  Good(c, r) /\ r.touched = b.touched
<1>1. b \in Bodies /\ AddsUp(c, b) /\ Toughness[c] \in Nat
  BY ConstantsAssumption DEF Good
<1>t. /\ b.toughness \in Int /\ b.life \in Int /\ b.marked \in Nat
      /\ b.plus \in Nat /\ b.minus \in Nat /\ b.pumped \in Nat /\ b.weakened \in Nat
  BY <1>1, BodyTyped
<1>2. PICK t \in Int, l \in Int, one \in Nat : t = b.toughness + (-1) /\ l = b.life + (-1) /\ one = 1
  <2>1. b.toughness + (-1) \in Int /\ b.life + (-1) \in Int /\ 1 \in Nat
    BY <1>t
  <2>. QED
    BY <2>1
<1>3. r = [b EXCEPT !.toughness = t, !.life = l, !.doDamageTest = TRUE, !.weakened = one]
  BY <1>2 DEF addToToughness
<1>4. /\ r \in Bodies /\ r.touched = b.touched
      /\ r.toughness = t /\ r.life = l /\ r.doDamageTest
      /\ r.plus = b.plus /\ r.minus = b.minus /\ r.marked = b.marked
      /\ r.pumped = b.pumped /\ r.weakened = one
  BY <1>1, <1>3 DEF Bodies
<1>5. r.toughness = Toughness[c] + r.plus - r.minus + 2 * r.pumped - r.weakened
  BY <1>1, <1>t, <1>2, <1>4 DEF AddsUp
<1>6. r.life = r.toughness - r.marked
  BY <1>1, <1>t, <1>2, <1>4 DEF AddsUp
<1>. QED
  BY <1>4, <1>5, <1>6 DEF Good, AddsUp, Watched

LEMMA PumpKeeps == ASSUME Core, NEW c \in Creatures, Pump(c) PROVE Core'
<1>1. PICK b, r : b = body[c] /\ r = [addToToughness(b, 2) EXCEPT !.pumped = 1]
  OBVIOUS
<1>2. Idle /\ b.pumped = 0 /\ stays(c, r, <<>>, <<>>)
  BY <1>1 DEF Pump, Begins
<1>3. Good(c, b)
  BY <1>1, Before
<1>4. Good(c, r) /\ r.touched = b.touched
  BY <1>1, <1>2, <1>3, PumpedGood
<1>. QED
  BY <1>1, <1>2, <1>4, EffectKeeps

LEMMA WeakenKeeps == ASSUME Core, NEW c \in Creatures, Weaken(c) PROVE Core'
<1>1. PICK b, r : b = body[c] /\ r = [addToToughness(b, -1) EXCEPT !.weakened = 1]
  OBVIOUS
<1>2. Idle /\ b.weakened = 0 /\ (stays(c, r, <<>>, <<>>) \/ leaves(c, r, <<>>, <<>>))
  BY <1>1 DEF Weaken, Begins
<1>3. Good(c, b)
  BY <1>1, Before
<1>4. Good(c, r) /\ r.touched = b.touched
  BY <1>1, <1>2, <1>3, WeakenedGood
<1>. QED
  BY <1>1, <1>2, <1>4, EffectKeeps, DeathKeeps

\* A shield, a point of prevention and a skipped test touch nothing that
\* toughness and life are made of.
LEMMA ShieldedGood ==
  ASSUME NEW c \in Creatures, NEW b, Good(c, b), NEW r,
         \/ \E n \in 0..MaxShields : r = [b EXCEPT !.regenerateTokens = n]
         \/ \E n \in 0..MaxShields : r = [b EXCEPT !.preventable = n]
         \/ r = [b EXCEPT !.skip = TRUE]
  PROVE  Good(c, r) /\ r.touched = b.touched
<1>1. b \in Bodies
  BY DEF Good
<1>2. /\ r \in Bodies /\ r.touched = b.touched
      /\ r.toughness = b.toughness /\ r.life = b.life /\ r.doDamageTest = b.doDamageTest
      /\ r.plus = b.plus /\ r.minus = b.minus /\ r.marked = b.marked
      /\ r.pumped = b.pumped /\ r.weakened = b.weakened
  BY <1>1 DEF Bodies
<1>. QED
  BY <1>2 DEF Good, AddsUp, Watched

LEMMA RegenerateKeeps == ASSUME Core, NEW c \in Creatures, Regenerate(c) PROVE Core'
<1>1. PICK b, r : b = body[c] /\ r = [b EXCEPT !.regenerateTokens = @ + 1]
  OBVIOUS
<1>2. Idle /\ b.regenerateTokens < MaxShields /\ stays(c, r, <<>>, <<>>)
  BY <1>1 DEF Regenerate, Begins
<1>3. Good(c, b)
  BY <1>1, Before
<1>4. b.regenerateTokens \in 0..MaxShields
  BY <1>3, BodyTyped DEF Good
<1>5. PICK n \in 0..MaxShields : n = b.regenerateTokens + 1
  <2>1. b.regenerateTokens + 1 \in 0..MaxShields
    BY <1>2, <1>4, ConstantsAssumption
  <2>. QED
    BY <2>1
<1>6. r = [b EXCEPT !.regenerateTokens = n]
  BY <1>1, <1>5
<1>7. Good(c, r) /\ r.touched = b.touched
  BY <1>3, <1>6, ShieldedGood
<1>. QED
  BY <1>1, <1>2, <1>7, EffectKeeps

LEMMA PreventKeeps == ASSUME Core, NEW c \in Creatures, Prevent(c) PROVE Core'
<1>1. PICK b, r : b = body[c] /\ r = [b EXCEPT !.preventable = @ + 1]
  OBVIOUS
<1>2. Idle /\ b.preventable < MaxShields /\ stays(c, r, <<>>, <<>>)
  BY <1>1 DEF Prevent, Begins
<1>3. Good(c, b)
  BY <1>1, Before
<1>4. b.preventable \in 0..MaxShields
  BY <1>3, BodyTyped DEF Good
<1>5. PICK n \in 0..MaxShields : n = b.preventable + 1
  <2>1. b.preventable + 1 \in 0..MaxShields
    BY <1>2, <1>4, ConstantsAssumption
  <2>. QED
    BY <2>1
<1>6. r = [b EXCEPT !.preventable = n]
  BY <1>1, <1>5
<1>7. Good(c, r) /\ r.touched = b.touched
  BY <1>3, <1>6, ShieldedGood
<1>. QED
  BY <1>1, <1>2, <1>7, EffectKeeps

LEMMA ChooseKeeps == ASSUME Core, NEW c \in Creatures, Choose(c) PROVE Core'
<1>1. PICK b, r : b = body[c] /\ r = [b EXCEPT !.skip = TRUE]
  OBVIOUS
<1>2. Idle /\ stays(c, r, <<>>, <<>>)
  BY <1>1 DEF Choose, Begins
<1>3. Good(c, b)
  BY <1>1, Before
<1>4. Good(c, r) /\ r.touched = b.touched
  BY <1>1, <1>3, ShieldedGood
<1>. QED
  BY <1>1, <1>2, <1>4, EffectKeeps

LEMMA DestroyCardKeeps == ASSUME Core, NEW c \in Creatures, DestroyCard(c) PROVE Core'
<1>0. PICK rest \in Seq(Calls), queue \in Seq(Events) : rest = <<>> /\ queue = <<>>
  BY EmptyTyped
<1>1. PICK b : b = body[c]
  OBVIOUS
<1>2. Idle /\ destroy(c, b, rest, queue)
  BY <1>0, <1>1 DEF DestroyCard, Begins
<1>3. State /\ Good(c, b)
  BY <1>1, Before
<1>4. \A d \in Creatures \ {c} : Doomed(d, body[d], queue)
  BY <1>0, <1>2, IdleKnows
<1>. QED
  BY <1>2, <1>3, <1>4, DestroyKeeps

LEMMA BuryCardKeeps == ASSUME Core, NEW c \in Creatures, BuryCard(c) PROVE Core'
<1>1. PICK b : b = body[c]
  OBVIOUS
<1>2. Idle /\ leaves(c, b, <<>>, <<>>)
  BY <1>1 DEF BuryCard, Begins
<1>. QED
  BY <1>2, DeathKeeps

-----------------------------------------------------------------------------
(* The end of the turn. *)

LEMMA ResetGood ==
  ASSUME NEW c \in Creatures, NEW b, Good(c, b),
         NEW r, r = [b EXCEPT !.life = b.toughness, !.marked = 0, !.touched = FALSE]
  PROVE  Good(c, r) /\ ~r.touched
<1>1. b \in Bodies /\ AddsUp(c, b)
  BY DEF Good
<1>t. /\ b.toughness \in Int /\ b.life \in Int /\ b.marked \in Nat
      /\ b.plus \in Nat /\ b.minus \in Nat /\ b.pumped \in Nat /\ b.weakened \in Nat
  BY <1>1, BodyTyped
<1>2. PICK z \in Nat : z = 0
  OBVIOUS
<1>3. r = [b EXCEPT !.life = b.toughness, !.marked = z, !.touched = FALSE]
  BY <1>2
<1>4. /\ r \in Bodies /\ ~r.touched
      /\ r.toughness = b.toughness /\ r.life = b.toughness /\ r.doDamageTest = b.doDamageTest
      /\ r.plus = b.plus /\ r.minus = b.minus /\ r.marked = z
      /\ r.pumped = b.pumped /\ r.weakened = b.weakened
  BY <1>1, <1>t, <1>3 DEF Bodies
<1>5. AddsUp(c, r)
  BY <1>1, <1>t, <1>2, <1>4 DEF AddsUp
<1>6. b.life > 0 => r.life > 0
  BY <1>1, <1>t, <1>4 DEF AddsUp
<1>7. Watched(c, r)
  BY <1>4, <1>6 DEF Good, Watched
<1>. QED
  BY <1>4, <1>5, <1>7 DEF Good

LEMMA EndedGood ==
  ASSUME NEW c \in Creatures, NEW b, Good(c, b), NEW r, r = Ended(b)
  PROVE  Good(c, r) /\ r.touched = b.touched
<1>1. b \in Bodies /\ AddsUp(c, b) /\ Toughness[c] \in Nat /\ MaxShields \in Nat
  BY ConstantsAssumption DEF Good
<1>t. /\ b.toughness \in Int /\ b.life \in Int /\ b.marked \in Nat
      /\ b.plus \in Nat /\ b.minus \in Nat /\ b.pumped \in Nat /\ b.weakened \in Nat
      /\ b.doDamageTest \in BOOLEAN
  BY <1>1, BodyTyped
<1>2. PICK n \in Int : n = b.weakened - 2 * b.pumped
  <2>1. b.weakened - 2 * b.pumped \in Int
    BY <1>t
  <2>. QED
    BY <2>1
<1>3. PICK t \in Int, l \in Int : t = b.toughness + n /\ l = b.life + n
  <2>1. b.toughness + n \in Int /\ b.life + n \in Int
    BY <1>t, <1>2
  <2>. QED
    BY <2>1
<1>4. PICK test \in BOOLEAN : test = (b.doDamageTest \/ b.pumped # 0 \/ b.weakened # 0)
  OBVIOUS
<1>5. PICK z \in Nat : z = 0
  OBVIOUS
<1>6. addToToughness(b, n) = [b EXCEPT !.toughness = t, !.life = l, !.doDamageTest = TRUE]
  BY <1>3 DEF addToToughness
<1>7. r = [addToToughness(b, n) EXCEPT !.pumped = z, !.weakened = z, !.regenerateTokens = z,
             !.preventable = z, !.struck = FALSE, !.doDamageTest = test]
  BY <1>2, <1>4, <1>5 DEF Ended
<1>8. r = [b EXCEPT !.toughness = t, !.life = l, !.pumped = z, !.weakened = z,
             !.regenerateTokens = z, !.preventable = z, !.struck = FALSE, !.doDamageTest = test]
  BY <1>1, <1>6, <1>7 DEF Bodies
<1>9. z \in 0..MaxShields
  BY <1>1, <1>5
<1>10. /\ r \in Bodies /\ r.touched = b.touched
       /\ r.toughness = t /\ r.life = l /\ r.doDamageTest = test
       /\ r.plus = b.plus /\ r.minus = b.minus /\ r.marked = b.marked
       /\ r.pumped = z /\ r.weakened = z
  BY <1>1, <1>8, <1>9 DEF Bodies
<1>11. r.toughness = Toughness[c] + r.plus - r.minus + 2 * r.pumped - r.weakened
  BY <1>1, <1>t, <1>2, <1>3, <1>5, <1>10 DEF AddsUp
<1>12. r.life = r.toughness - r.marked
  BY <1>1, <1>t, <1>2, <1>3, <1>10 DEF AddsUp
<1>13. Watched(c, r)
  <2>1. CASE b.pumped # 0 \/ b.weakened # 0
    BY <1>4, <1>10, <2>1 DEF Watched
  <2>2. CASE b.pumped = 0 /\ b.weakened = 0
    <3>1. l = b.life
      BY <1>t, <1>2, <1>3, <2>2
    <3>2. b.doDamageTest => test
      BY <1>4
    <3>. QED
      BY <1>10, <3>1, <3>2 DEF Good, Watched
  <2>. QED
    BY <2>1, <2>2
<1>. QED
  BY <1>10, <1>11, <1>12, <1>13 DEF Good, AddsUp

\* All the bodies change at once.
LEMMA AllKeep ==
  ASSUME Core, Idle, NEW new \in [Creatures -> Bodies], body' = new,
         \A d \in Creatures : Good(d, new[d]) /\ (new[d].touched => body[d].touched),
         UNCHANGED <<inPlay, eventsQueue, calls>>
  PROVE  Core'
<1>1. Typed'
  BY DEF Core, Typed
<1>2. ASSUME NEW d \in Creatures PROVE (Good(d, body[d]) /\ Doomed(d, body[d], eventsQueue))'
  <2>1. Good(d, new[d]) /\ (new[d].touched => body[d].touched)
    OBVIOUS
  <2>2. Doomed(d, body[d], eventsQueue) /\ eventsQueue' = eventsQueue
    BY Before
  <2>3. Doomed(d, new[d], eventsQueue')
    BY <2>1, <2>2 DEF Doomed
  <2>. QED
    BY <2>1, <2>3 DEF Good, AddsUp, Watched, Doomed, Told, Names
<1>. QED
  BY <1>1, <1>2 DEF Core, Kept

LEMMA ResetDamageKeeps == ASSUME Core, ResetDamage PROVE Core'
<1>1. PICK new : new = [c \in Creatures |->
          [body[c] EXCEPT !.life = body[c].toughness, !.marked = 0, !.touched = FALSE]]
  OBVIOUS
<1>2. ASSUME NEW d \in Creatures
      PROVE  new[d] \in Bodies /\ Good(d, new[d]) /\ (new[d].touched => body[d].touched)
  <2>1. PICK b, r : b = body[d] /\ r = [b EXCEPT !.life = b.toughness, !.marked = 0, !.touched = FALSE]
    OBVIOUS
  <2>2. Good(d, b)
    BY <2>1, Before
  <2>3. Good(d, r) /\ ~r.touched
    BY <2>1, <2>2, ResetGood
  <2>4. new[d] = r
    BY <1>1, <2>1
  <2>. QED
    BY <2>3, <2>4 DEF Good
<1>3. new \in [Creatures -> Bodies]
  BY <1>1, <1>2
<1>4. Idle /\ body' = new /\ UNCHANGED <<inPlay, eventsQueue, calls>>
  BY <1>1 DEF ResetDamage, PhaseCanEnd
<1>. QED
  BY <1>2, <1>3, <1>4, AllKeep

LEMMA EndTurnKeeps == ASSUME Core, EndTurn PROVE Core'
<1>1. PICK new : new = [c \in Creatures |-> IF c \in inPlay THEN Ended(body[c]) ELSE body[c]]
  OBVIOUS
<1>2. ASSUME NEW d \in Creatures
      PROVE  new[d] \in Bodies /\ Good(d, new[d]) /\ (new[d].touched => body[d].touched)
  <2>1. PICK b, r : b = body[d] /\ r = Ended(b)
    OBVIOUS
  <2>2. Good(d, b)
    BY <2>1, Before
  <2>3. Good(d, r) /\ r.touched = b.touched
    BY <2>1, <2>2, EndedGood
  <2>4. new[d] = r \/ new[d] = b
    BY <1>1, <2>1
  <2>. QED
    BY <2>1, <2>2, <2>3, <2>4 DEF Good
<1>3. new \in [Creatures -> Bodies]
  BY <1>1, <1>2
<1>4. Idle /\ body' = new /\ UNCHANGED <<inPlay, eventsQueue, calls>>
  BY <1>1 DEF EndTurn, PhaseCanEnd
<1>. QED
  BY <1>2, <1>3, <1>4, AllKeep

-----------------------------------------------------------------------------
(* The invariant. *)

LEMMA InitHolds == Init => IInv
<1>. SUFFICES ASSUME Init PROVE IInv
  OBVIOUS
<1>1. ASSUME NEW c \in Creatures
      PROVE  /\ body[c] \in Bodies /\ Good(c, body[c])
             /\ Doomed(c, body[c], eventsQueue)
  <2>1. body[c] = Printed(c)
    BY DEF Init
  <2>2. Good(c, Printed(c)) /\ ~Printed(c).touched
    BY PrintedGood
  <2>. QED
    BY <2>1, <2>2 DEF Good, Doomed
<1>2. body \in [Creatures -> Bodies]
  <2>1. body = [c \in Creatures |-> body[c]]
    BY DEF Init
  <2>. QED
    BY <1>1, <2>1
<1>3. calls \in Seq(Calls) /\ eventsQueue \in Seq(Events)
  BY EmptyTyped DEF Init
<1>4. Typed
  BY <1>2, <1>3 DEF Init, Typed
<1>. QED
  BY <1>1, <1>4 DEF Init, IInv, Kept, History

LEMMA WorkKeeps == ASSUME Core, Work PROVE Core'
BY ResolveDamageKeeps, AddCounterKeeps, RemoveCounterKeeps, WitheredKeeps, GiveCounterKeeps,
   CountersGivenKeeps, TestTargetKeeps, TestEachKeeps, StackResolvedKeeps, HearDamageKeeps,
   HearStackResolvedKeeps, HearZoneChangeKeeps DEF Work

LEMMA HitsTyped ==
  ASSUME NEW h \in Hits PROVE h \in Creatures \X Keywords \X Nat
<1>1. CASE h \in (Creatures \ Bystanders) \X Keywords \X (1..2)
  BY <1>1
<1>2. CASE h \in Bystanders \X {"none"} \X {1}
  BY <1>2, ConstantsAssumption DEF Keywords
<1>. QED
  BY <1>1, <1>2 DEF Hits

LEMMA EffectsKeep == ASSUME Core, Effect PROVE Core'
<1>1. CASE \E h \in Hits : CombatDamage(<<h>>) \/ \E g \in Hits : CombatDamage(<<h, g>>)
  <2>1. PICK h \in Hits : CombatDamage(<<h>>) \/ \E g \in Hits : CombatDamage(<<h, g>>)
    BY <1>1
  <2>2. h \in Creatures \X Keywords \X Nat
    BY HitsTyped
  <2>3. CASE CombatDamage(<<h>>)
    <3>1. <<h>> \in Seq(Creatures \X Keywords \X Nat)
      BY <2>2
    <3>. QED
      BY <2>3, <3>1, CombatDamageKeeps
  <2>4. CASE \E g \in Hits : CombatDamage(<<h, g>>)
    <3>1. PICK g \in Hits : CombatDamage(<<h, g>>)
      BY <2>4
    <3>2. g \in Creatures \X Keywords \X Nat
      BY HitsTyped
    <3>3. <<h, g>> \in Seq(Creatures \X Keywords \X Nat)
      BY <2>2, <3>2
    <3>. QED
      BY <3>1, <3>3, CombatDamageKeeps
  <2>. QED
    BY <2>1, <2>3, <2>4
<1>2. ASSUME NEW c \in Creatures,
             \/ \E keyword \in Keywords, amount \in 1..2 : DamageSpell(c, keyword, amount)
             \/ \E kind \in Kinds, add \in BOOLEAN, nb \in 1..2 : CounterSpell(c, kind, add, nb)
      PROVE  Core'
  <2>1. CASE \E keyword \in Keywords, amount \in 1..2 : DamageSpell(c, keyword, amount)
    <3>1. PICK keyword \in Keywords, amount \in 1..2 : DamageSpell(c, keyword, amount)
      BY <2>1
    <3>2. amount \in Nat
      OBVIOUS
    <3>. QED
      BY <3>1, <3>2, DamageSpellKeeps
  <2>2. CASE \E kind \in Kinds, add \in BOOLEAN, nb \in 1..2 : CounterSpell(c, kind, add, nb)
    <3>1. PICK kind \in Kinds, add \in BOOLEAN, nb \in 1..2 : CounterSpell(c, kind, add, nb)
      BY <2>2
    <3>2. nb \in Nat
      OBVIOUS
    <3>. QED
      BY <3>1, <3>2, CounterSpellKeeps
  <2>. QED
    BY <1>2, <2>1, <2>2
<1>3. ASSUME NEW c \in Creatures,
             \/ Pump(c) \/ Weaken(c) \/ Regenerate(c) \/ Prevent(c) \/ Choose(c)
             \/ DestroyCard(c) \/ BuryCard(c)
      PROVE  Core'
  BY <1>3, PumpKeeps, WeakenKeeps, RegenerateKeeps, PreventKeeps, ChooseKeeps,
     DestroyCardKeeps, BuryCardKeeps
<1>. QED
  BY <1>1, <1>2, <1>3 DEF Effect

LEMMA NextKeeps == ASSUME Core, [Next]_vars PROVE Core'
<1>1. CASE Next
  BY <1>1, WorkKeeps, EffectsKeep, StateBasedKeeps, ResetDamageKeeps, EndTurnKeeps DEF Next
<1>2. CASE UNCHANGED vars
  <2>1. UNCHANGED <<inPlay, body, eventsQueue>> /\ calls' = calls
    BY <1>2 DEF vars
  <2>2. calls' \in Seq(Calls)
    BY <2>1, Before
  <2>. QED
    BY <2>1, <2>2, CallsKeep
<1>. QED
  BY <1>1, <1>2

\* Nothing but a return adds to the history, and nothing but the end of the
\* turn and its cleanup says that the damage has been reset.
LEMMA HistoryKept == ASSUME Core, History, [Next]_vars PROVE History'
<1>1. CASE HearZoneChange
  <2>1. PICK event : event = Head(eventsQueue)
    OBVIOUS
  <2>2. event \in Events /\ event.type = "ZoneChange"
    BY <1>1, <2>1, HeadOfQueue DEF HearZoneChange
  <2>3. event.card \in Creatures
    BY <2>2 DEF Events
  <2>. QED
    BY <1>1, <2>1, <2>3 DEF HearZoneChange, History
<1>2. CASE Work /\ ~HearZoneChange
  BY <1>2 DEF Work, History, ResolveDamage, AddCounter, RemoveCounter, Withered, GiveCounter,
    CountersGiven, TestTarget, TestEach, StackResolved, HearDamage, HearStackResolved
<1>3. CASE Effect \/ StateBased
  <2>1. Begins
    BY <1>3 DEF Effect, StateBased, CombatDamage, DamageSpell, CounterSpell, Pump, Weaken,
      Regenerate, Prevent, Choose, DestroyCard, BuryCard
  <2>. QED
    BY <2>1 DEF Begins, History
<1>4. CASE ResetDamage \/ EndTurn
  BY <1>4 DEF ResetDamage, EndTurn, History
<1>5. CASE UNCHANGED vars
  BY <1>5 DEF vars, History
<1>. QED
  BY <1>1, <1>2, <1>3, <1>4, <1>5 DEF Next

\* In every reachable state the toughness and the life of each creature add up,
\* it is tested if it has to be, and deathtouch is about to be heard of.
THEOREM Inductive == Spec => []IInv
<1>1. Init => IInv
  BY InitHolds
<1>2. IInv /\ [Next]_vars => IInv'
  <2>. SUFFICES ASSUME IInv, [Next]_vars PROVE IInv'
    OBVIOUS
  <2>1. Core /\ History
    BY DEF IInv, Core
  <2>2. Core'
    BY <2>1, NextKeeps
  <2>3. History'
    BY <2>1, HistoryKept
  <2>. QED
    BY <2>2, <2>3 DEF IInv, Core
<1>. QED
  BY <1>1, <1>2, PTL DEF Spec

\* Counters, shields and prevention are never used up twice: none of the
\* numbers the code takes from (Counters::removeCounter, triggerRegenerate,
\* Damage::resolve) goes below zero.
THEOREM TypeCorrect == Spec => []TypeOK
<1>1. IInv => TypeOK
  <2>. SUFFICES ASSUME IInv PROVE TypeOK
    OBVIOUS
  <2>1. inPlay \subseteq Creatures /\ returned \subseteq Creatures /\ cleaned \in BOOLEAN
    BY DEF IInv, Typed, History
  <2>2. ASSUME NEW c \in Creatures
        PROVE  /\ body[c].toughness \in Int /\ body[c].life \in Int
               /\ {body[c].plus, body[c].minus, body[c].marked} \subseteq Nat
               /\ {body[c].regenerateTokens, body[c].preventable} \subseteq 0..MaxShields
    <3>1. body[c] \in Bodies
      BY DEF IInv, Typed
    <3>. QED
      BY <3>1, BodyTyped
  <2>. QED
    BY <2>1, <2>2 DEF TypeOK
<1>. QED
  BY <1>1, Inductive, PTL

\* Whatever is put, pumped, dealt, regenerated and cleaned up in whatever order,
\* toughness and life tell it (MTGCardInstance::addToToughness, Damage::resolve).
THEOREM LifeIsCounted == Spec => []DamageIsMarked
<1>1. IInv => DamageIsMarked
  BY DEF IInv, Typed, Kept, Good, AddsUp, DamageIsMarked
<1>. QED
  BY <1>1, Inductive, PTL

\* No creature without life escapes MTGCardInstance::afterDamage: it is going
\* to be tested as long as it is in play.
THEOREM NoDeathForgotten == Spec => []NoneDeadIsForgotten
<1>1. IInv => NoneDeadIsForgotten
  <2>. SUFFICES ASSUME IInv, NEW c \in inPlay \ Indestructible, body[c].life <= 0
                PROVE  body[c].doDamageTest
    BY DEF NoneDeadIsForgotten
  <2>1. c \in Creatures /\ Watched(c, body[c]) /\ body[c] \in Bodies
    BY DEF IInv, Typed, Kept, Good
  <2>2. body[c].life \in Int
    BY <2>1, BodyTyped
  <2>. QED
    BY <2>1, <2>2 DEF Watched
<1>. QED
  BY <1>1, Inductive, PTL

\* Damage by deathtouch kills, however many events are heard before its own
\* (MTGDeathtouchRule::receiveEvent).
THEOREM DeathtouchIsDeadly == Spec => []DeathtouchKills
<1>1. IInv => DeathtouchKills
  <2>. SUFFICES ASSUME IInv, Idle, NEW c \in inPlay \ Indestructible
                PROVE  ~body[c].touched
    BY DEF DeathtouchKills
  <2>1. c \in Creatures /\ Doomed(c, body[c], eventsQueue) /\ eventsQueue = <<>>
    BY DEF IInv, Typed, Kept, Idle
  <2>2. ~Told(eventsQueue, c)
    BY <2>1 DEF Told
  <2>. QED
    BY <2>1, <2>2 DEF Doomed
<1>. QED
  BY <1>1, Inductive, PTL

-----------------------------------------------------------------------------
(* Those that come back.  What is under way reaches a creature through a    *)
(* call that is live, a walk that still has to test it, or a live event of  *)
(* damage.  cs are calls, q is a queue.                                     *)

Reaches(call, c) ==
  \/ /\ call.op \in {"Damage", "Withered", "addCounter", "removeCounter", "afterDamage"}
     /\ call.card = c /\ call.live
  \/ call.op = "afterDamages" /\ c \in call.left

Hurts(event, c) == event.type = "Damage" /\ event.card = c /\ event.live

Reached(cs, c) == \E i \in DOMAIN cs : Reaches(cs[i], c)
Hurting(q, c)  == \E i \in DOMAIN q : Hurts(q[i], c)

Exposed(cs, q, c) == Reached(cs, c) \/ Hurting(q, c)

\* The newest object of c has left play, and comes back with w unless that is "no".
Announces(event, c) == event.type = "ZoneChange" /\ event.card = c /\ event.live

Announced(q, c, w) == \E i \in DOMAIN q : Announces(q[i], c) /\ q[i].with = w

Once(q) ==
  \A i, j \in DOMAIN q : \A c \in Creatures :
    Announces(q[i], c) /\ Announces(q[j], c) => i = j

OnlyZoneChanges(q) == \A i \in DOMAIN q : q[i].type = "ZoneChange"

\* What is under way is about creatures in play; that a creature has left play
\* is told once, and before it is back.
Pursued(play, cs, q) ==
  /\ \A c \in Creatures : Exposed(cs, q, c) => c \in play
  /\ \A c \in Creatures, w \in {"no"} \cup Kinds : Announced(q, c, w) => c \notin play
  /\ \A c \in Creatures : Announced(q, c, "minus") => c \in Persisting
  /\ Once(q)

\* Effects that give counters, and walks, come one at a time, and no damage is
\* told while those of the frame itself go on.
Plain(call) == call.op \notin {"AACounter", "afterDamages"}

InTurn(cs, q) ==
  /\ \A i \in DOMAIN cs : i # 1 => Plain(cs[i])
  /\ cs # <<>> /\ cs[1].op = "AACounter" => ~cs[1].nested
  /\ cs # <<>> /\ ~Plain(cs[1]) /\ ~cs[1].nested => OnlyZoneChanges(q)

\* Dies of the -1/-1 counter it comes back with.
Frail(c) == Toughness[c] = 1 /\ c \in Persisting

Both(c) == c \in Persisting /\ c \in Undying

\* Nothing that is under way reaches what has come back, which is in play or
\* comes back once more.
Spared(ret, play, bodies, cs, q) ==
  \A c \in ret :
    /\ ~Exposed(cs, q, c) /\ ~bodies[c].struck
    /\ c \in play \/ Announced(q, c, "plus") \/ Announced(q, c, "minus") \/ Frail(c)

\* A body that the counters which call has yet to give do not kill for good.
Outlives(call, c, b) ==
  /\ b.marked = 0
  /\ call.nb = 0 => b.life > 0 \/ (Both(c) /\ b.plus = 0)
  /\ call.nb # 0 /\ call.kind = "plus" => b.life > 0
  /\ call.nb # 0 /\ call.kind = "minus" =>
       b.life > 1 \/ (Both(c) /\ b.plus = 0 /\ b.life > 0 /\ "minus" \in b.kinds)

\* Who has died of a counter that call gave; at most one is still to be given.
Died(call, c, w) ==
  /\ c = call.card /\ call.add /\ call.nb <= 1
  /\ call.nb = 1 /\ call.kind = "minus" /\ w = "minus" => c \in Undying

\* The counters of an effect go on to the object that comes back in between.
GoesOn(call, ret, play, bodies, q) ==
  /\ call.nb <= 2
  /\ \A d \in Creatures, w \in Kinds : Announced(q, d, w) => Died(call, d, w)
  /\ call.card \in ret /\ call.card \in play /\ ~Frail(call.card) =>
       call.add /\ call.nb <= 1 /\ Outlives(call, call.card, bodies[call.card])

Counting(ret, play, bodies, cs, q) ==
  cs # <<>> /\ cs[1].op = "AACounter" => GoesOn(cs[1], ret, play, bodies, q)

RInv ==
  /\ Pursued(inPlay, calls, eventsQueue)
  /\ InTurn(calls, eventsQueue)
  /\ Spared(returned, inPlay, body, calls, eventsQueue)
  /\ Counting(returned, inPlay, body, calls, eventsQueue)

-----------------------------------------------------------------------------
(* What is in a queue, and in the calls, when something is put or taken.    *)

LEMMA Heard ==
  ASSUME NEW q \in Seq(Events), q # <<>>, NEW out, out = Tail(q)
  PROVE  /\ out \in Seq(Events) /\ q[1] \in Events /\ Head(q) = q[1]
         /\ \A c : Hurting(out, c) => Hurting(q, c)
         /\ \A c, w : Announced(out, c, w) => Announced(q, c, w)
         /\ \A c, w : Announced(q, c, w) =>
              Announced(out, c, w) \/ (Announces(q[1], c) /\ q[1].with = w)
         /\ Once(q) => Once(out)
         /\ \A c \in Creatures : \A w : Once(q) /\ Announces(q[1], c) => ~Announced(out, c, w)
         /\ OnlyZoneChanges(q) => OnlyZoneChanges(out)
<1>1. /\ Head(q) \in Events /\ out \in Seq(Events) /\ Head(q) = q[1]
      /\ Len(out) = Len(q) - 1 /\ \A i \in 1..Len(out) : out[i] = q[i + 1]
  BY HeadTailProperties
<1>2. Len(q) \in Nat /\ DOMAIN q = 1..Len(q) /\ DOMAIN out = 1..Len(out) /\ Len(q) # 0
  BY <1>1, LenProperties, EmptySeq
<1>3. ASSUME NEW i \in DOMAIN out PROVE i + 1 \in DOMAIN q /\ q[i + 1] = out[i] /\ i # 0 /\ i \in Nat
  BY <1>1, <1>2
<1>4. ASSUME NEW i \in DOMAIN q, i # 1 PROVE \E j \in DOMAIN out : out[j] = q[i]
  <2>1. i - 1 \in 1..Len(out) /\ i = (i - 1) + 1
    BY <1>1, <1>2, <1>4
  <2>2. i - 1 \in DOMAIN out /\ out[i - 1] = q[i]
    BY <1>1, <1>2, <2>1
  <2>. QED
    BY <2>2
<1>5. \A c : Hurting(out, c) => Hurting(q, c)
  BY <1>3 DEF Hurting
<1>6. \A c, w : Announced(out, c, w) => Announced(q, c, w)
  BY <1>3 DEF Announced
<1>7. \A c, w : Announced(q, c, w) => Announced(out, c, w) \/ (Announces(q[1], c) /\ q[1].with = w)
  BY <1>4 DEF Announced
<1>8. Once(q) => Once(out)
  <2>. SUFFICES ASSUME Once(q), NEW i \in DOMAIN out, NEW j \in DOMAIN out, NEW c \in Creatures,
                       Announces(out[i], c), Announces(out[j], c)
                PROVE  i = j
    BY DEF Once
  <2>1. /\ i + 1 \in DOMAIN q /\ q[i + 1] = out[i] /\ i \in Nat
        /\ j + 1 \in DOMAIN q /\ q[j + 1] = out[j] /\ j \in Nat
    BY <1>3
  <2>2. i + 1 = j + 1
    BY <2>1 DEF Once
  <2>. QED
    BY <2>1, <2>2
<1>9. \A c \in Creatures : \A w : Once(q) /\ Announces(q[1], c) => ~Announced(out, c, w)
  <2>. SUFFICES ASSUME NEW c \in Creatures, NEW w, Once(q), Announces(q[1], c), Announced(out, c, w)
                PROVE  FALSE
    OBVIOUS
  <2>1. PICK i \in DOMAIN out : Announces(out[i], c)
    BY DEF Announced
  <2>2. i + 1 \in DOMAIN q /\ q[i + 1] = out[i] /\ i # 0 /\ i \in Nat
    BY <1>3
  <2>3. 1 \in DOMAIN q
    BY <1>2
  <2>4. i + 1 = 1
    BY <2>1, <2>2, <2>3 DEF Once
  <2>. QED
    BY <2>2, <2>4
<1>10. OnlyZoneChanges(q) => OnlyZoneChanges(out)
  BY <1>3 DEF OnlyZoneChanges
<1>. QED
  BY <1>1, <1>5, <1>6, <1>7, <1>8, <1>9, <1>10

\* An event that no creature has left play by.
LEMMA ToldQueue ==
  ASSUME NEW q \in Seq(Events), NEW event \in Events, event.type # "ZoneChange",
         NEW out, out = Append(q, event)
  PROVE  /\ out \in Seq(Events)
         /\ \A c : Hurting(out, c) => Hurting(q, c) \/ Hurts(event, c)
         /\ \A c, w : Announced(out, c, w) <=> Announced(q, c, w)
         /\ Once(q) => Once(out)
<1>1. /\ out \in Seq(Events) /\ Len(out) = Len(q) + 1
      /\ \A i \in 1..Len(q) : out[i] = q[i]
      /\ out[Len(q) + 1] = event
  BY AppendProperties
<1>2. Len(q) \in Nat /\ DOMAIN q = 1..Len(q) /\ DOMAIN out = 1..Len(out)
  BY <1>1, LenProperties
<1>3. ASSUME NEW i \in DOMAIN out PROVE (i \in DOMAIN q /\ out[i] = q[i]) \/ out[i] = event
  BY <1>1, <1>2
<1>4. ASSUME NEW i \in DOMAIN q PROVE i \in DOMAIN out /\ out[i] = q[i]
  BY <1>1, <1>2
<1>5. \A c : Hurting(out, c) => Hurting(q, c) \/ Hurts(event, c)
  BY <1>3 DEF Hurting
<1>6. \A c, w : Announced(out, c, w) => Announced(q, c, w)
  BY <1>3 DEF Announced, Announces
<1>7. \A c, w : Announced(q, c, w) => Announced(out, c, w)
  BY <1>4 DEF Announced
<1>8. Once(q) => Once(out)
  BY <1>3 DEF Once, Announces
<1>. QED
  BY <1>1, <1>5, <1>6, <1>7, <1>8

\* The event by which c leaves play; nothing in the queue is about it any more.
Parting(q, c, w) ==
  Append(Outdated(q, c), [type |-> "ZoneChange", card |-> c, live |-> TRUE, with |-> w])

LEMMA LeftQueue ==
  ASSUME NEW q \in Seq(Events), NEW c \in Creatures, NEW with \in {"no"} \cup Kinds,
         NEW out, out = Parting(q, c, with)
  PROVE  /\ out \in Seq(Events)
         /\ \A d : Hurting(out, d) => d # c /\ Hurting(q, d)
         /\ \A d, w : d # c => (Announced(out, d, w) <=> Announced(q, d, w))
         /\ \A w : Announced(out, c, w) <=> w = with
         /\ Once(q) => Once(out)
         /\ OnlyZoneChanges(q) => OnlyZoneChanges(out)
<1>e. PICK event : event = [type |-> "ZoneChange", card |-> c, live |-> TRUE, with |-> with]
  OBVIOUS
<1>f. /\ event \in Events /\ event.type = "ZoneChange" /\ event.card = c /\ event.live
      /\ event.with = with /\ out = Append(Outdated(q, c), event)
  BY <1>e DEF Events, Parting
<1>0. PICK old : old = Outdated(q, c)
  OBVIOUS
<1>1. /\ old \in Seq(Events) /\ DOMAIN old = DOMAIN q
      /\ \A i \in DOMAIN q : old[i] = IF q[i].card = c THEN [q[i] EXCEPT !.live = FALSE] ELSE q[i]
  BY <1>0, EventsAge, OutdatedKeeps
<1>2. /\ out \in Seq(Events) /\ Len(out) = Len(old) + 1
      /\ \A i \in 1..Len(old) : out[i] = old[i]
      /\ out[Len(old) + 1] = event
  BY <1>0, <1>1, <1>f, AppendProperties
<1>3. Len(old) \in Nat /\ DOMAIN old = 1..Len(old) /\ DOMAIN out = 1..Len(out)
  BY <1>1, <1>2, LenProperties
<1>4. ASSUME NEW i \in DOMAIN q
      PROVE  /\ i \in DOMAIN out /\ out[i].type = q[i].type /\ out[i].card = q[i].card
             /\ q[i].card = c => ~out[i].live
             /\ q[i].card # c => out[i] = q[i]
  <2>1. i \in DOMAIN out /\ out[i] = old[i]
    BY <1>1, <1>2, <1>3
  <2>2. q[i] \in Events
    <3>1. Len(q) \in Nat /\ DOMAIN q = 1..Len(q) /\ q \in [1..Len(q) -> Events]
      BY LenProperties
    <3>. QED
      BY <3>1
  <2>3. CASE q[i].card = c
    <3>1. old[i] = [q[i] EXCEPT !.live = FALSE]
      BY <1>1, <2>3
    <3>2. old[i].type = q[i].type /\ old[i].card = q[i].card /\ ~old[i].live
      BY <2>2, <3>1 DEF Events
    <3>. QED
      BY <2>1, <2>3, <3>2
  <2>4. CASE q[i].card # c
    BY <1>1, <2>1, <2>4
  <2>. QED
    BY <2>3, <2>4
<1>5. ASSUME NEW i \in DOMAIN out
      PROVE  i \in DOMAIN q \/ (i = Len(old) + 1 /\ out[i] = event)
  BY <1>1, <1>2, <1>3
<1>6. Len(old) + 1 \in DOMAIN out /\ out[Len(old) + 1] = event /\ Len(old) + 1 \notin DOMAIN q
  BY <1>1, <1>2, <1>3
<1>7. \A d : Hurting(out, d) => d # c /\ Hurting(q, d)
  BY <1>4, <1>5, <1>f DEF Hurting, Hurts
<1>8. \A d, w : d # c => (Announced(out, d, w) <=> Announced(q, d, w))
  BY <1>4, <1>5, <1>f DEF Announced, Announces
<1>9. \A w : Announced(out, c, w) <=> w = with
  BY <1>4, <1>5, <1>6, <1>f DEF Announced, Announces
<1>10. Once(q) => Once(out)
  <2>. SUFFICES ASSUME Once(q), NEW i \in DOMAIN out, NEW j \in DOMAIN out, NEW d \in Creatures,
                       Announces(out[i], d), Announces(out[j], d)
                PROVE  i = j
    BY DEF Once
  <2>1. CASE d = c
    BY <1>4, <1>5, <2>1 DEF Announces
  <2>2. CASE d # c
    <3>1. i \in DOMAIN q /\ j \in DOMAIN q
      BY <1>5, <1>f, <2>2 DEF Announces
    <3>. QED
      BY <1>4, <2>2, <3>1 DEF Once, Announces
  <2>. QED
    BY <2>1, <2>2
<1>11. OnlyZoneChanges(q) => OnlyZoneChanges(out)
  BY <1>4, <1>5, <1>f DEF OnlyZoneChanges
<1>. QED
  BY <1>2, <1>7, <1>8, <1>9, <1>10, <1>11

AllPlain(cs) == \A i \in DOMAIN cs : Plain(cs[i])

LEMMA PlainInTurn ==
  ASSUME NEW cs, AllPlain(cs)
  PROVE  /\ \A q : cs \in Seq(Calls) => InTurn(cs, q)
         /\ \A ret, play, bodies, q : cs \in Seq(Calls) => Counting(ret, play, bodies, cs, q)
<1>1. ASSUME cs \in Seq(Calls), cs # <<>> PROVE 1 \in DOMAIN cs
  <2>1. Len(cs) \in Nat /\ DOMAIN cs = 1..Len(cs) /\ Len(cs) # 0
    BY <1>1, LenProperties, EmptySeq
  <2>. QED
    BY <2>1
<1>2. ASSUME cs \in Seq(Calls), cs # <<>> PROVE Plain(cs[1])
  BY <1>1, <1>2 DEF AllPlain
<1>. QED
  BY <1>2 DEF AllPlain, InTurn, Counting, Plain

LEMMA AgedCall ==
  ASSUME NEW x \in Calls, NEW y, y = [x EXCEPT !.live = FALSE]
  PROVE  /\ y \in Calls /\ y.op = x.op /\ y.nested = x.nested /\ y.card = x.card /\ ~y.live
         /\ x.op = "AACounter" => y.nb = x.nb /\ y.add = x.add /\ y.kind = x.kind
         /\ x.op = "afterDamages" => y.left = x.left
<1>0. y \in Calls
  BY CallsAge
<1>1. CASE x \in DamageCalls
  BY <1>0, <1>1 DEF DamageCalls
<1>2. CASE x \in CounterCalls
  BY <1>0, <1>2 DEF CounterCalls
<1>3. CASE x \in EffectCalls
  BY <1>0, <1>3 DEF EffectCalls
<1>4. CASE x \in TestCalls
  BY <1>0, <1>4 DEF TestCalls
<1>5. CASE x \in WalkCalls
  BY <1>0, <1>5 DEF WalkCalls
<1>6. CASE x \in StackCalls
  BY <1>0, <1>6 DEF StackCalls
<1>. QED
  BY <1>1, <1>2, <1>3, <1>4, <1>5, <1>6 DEF Calls

LEMMA CallOf ==
  ASSUME NEW cs \in Seq(Calls), NEW i \in DOMAIN cs
  PROVE  cs[i] \in Calls
<1>1. Len(cs) \in Nat /\ DOMAIN cs = 1..Len(cs) /\ cs \in [1..Len(cs) -> Calls]
  BY LenProperties
<1>. QED
  BY <1>1

LEMMA EventOf ==
  ASSUME NEW q \in Seq(Events), NEW i \in DOMAIN q
  PROVE  q[i] \in Events
<1>1. Len(q) \in Nat /\ DOMAIN q = 1..Len(q) /\ q \in [1..Len(q) -> Events]
  BY LenProperties
<1>. QED
  BY <1>1

LEMMA CallsOutdated ==
  ASSUME NEW cs \in Seq(Calls), NEW c, NEW out, out = Outdated(cs, c)
  PROVE  /\ out \in Seq(Calls) /\ DOMAIN out = DOMAIN cs
         /\ \A i \in DOMAIN cs :
              out[i] = IF cs[i].card = c THEN [cs[i] EXCEPT !.live = FALSE] ELSE cs[i]
<1>1. out = [i \in DOMAIN cs |-> IF cs[i].card = c THEN [cs[i] EXCEPT !.live = FALSE] ELSE cs[i]]
  BY DEF Outdated
<1>2. out \in Seq(Calls)
  <2>1. \A x \in Calls : [x EXCEPT !.live = FALSE] \in Calls
    BY CallsAge
  <2>. QED
    BY <2>1, OutdatedKeeps
<1>. QED
  BY <1>1, <1>2

\* c leaves play, and is in no walk: no call reaches it any more.
LEMMA LeftCalls ==
  ASSUME NEW cs \in Seq(Calls), NEW c \in Creatures, NEW out, out = Outdated(cs, c),
         \A i \in DOMAIN cs : cs[i].op = "afterDamages" => c \notin cs[i].left
  PROVE  /\ out \in Seq(Calls) /\ DOMAIN out = DOMAIN cs
         /\ \A i \in DOMAIN cs :
              /\ out[i].op = cs[i].op /\ out[i].nested = cs[i].nested /\ out[i].card = cs[i].card
              /\ cs[i].op = "AACounter" =>
                   out[i].nb = cs[i].nb /\ out[i].add = cs[i].add /\ out[i].kind = cs[i].kind
         /\ \A d : Reached(out, d) => d # c /\ Reached(cs, d)
         /\ AllPlain(cs) => AllPlain(out)
         /\ cs # <<>> => out # <<>>
<1>1. /\ out \in Seq(Calls) /\ DOMAIN out = DOMAIN cs
      /\ \A i \in DOMAIN cs :
           out[i] = IF cs[i].card = c THEN [cs[i] EXCEPT !.live = FALSE] ELSE cs[i]
  BY CallsOutdated
<1>2. ASSUME NEW i \in DOMAIN cs
      PROVE  /\ out[i].op = cs[i].op /\ out[i].nested = cs[i].nested /\ out[i].card = cs[i].card
             /\ cs[i].op = "AACounter" =>
                  out[i].nb = cs[i].nb /\ out[i].add = cs[i].add /\ out[i].kind = cs[i].kind
             /\ cs[i].op = "afterDamages" => out[i].left = cs[i].left
             /\ cs[i].card = c => ~out[i].live
             /\ cs[i].card # c => out[i] = cs[i]
  <2>1. cs[i] \in Calls
    BY CallOf
  <2>2. CASE cs[i].card = c
    <3>1. out[i] = [cs[i] EXCEPT !.live = FALSE]
      BY <1>1, <2>2
    <3>. QED
      BY <2>1, <2>2, <3>1, AgedCall
  <2>3. CASE cs[i].card # c
    BY <1>1, <2>3
  <2>. QED
    BY <2>2, <2>3
<1>3. ASSUME NEW d, NEW i \in DOMAIN out, Reaches(out[i], d)
      PROVE  d # c /\ Reaches(cs[i], d)
  BY <1>1, <1>2, <1>3 DEF Reaches
<1>4. \A d : Reached(out, d) => d # c /\ Reached(cs, d)
  BY <1>1, <1>3 DEF Reached
<1>5. AllPlain(cs) => AllPlain(out)
  BY <1>1, <1>2 DEF AllPlain, Plain
<1>6. cs # <<>> => out # <<>>
  BY <1>1
<1>. QED
  BY <1>1, <1>2, <1>4, <1>5, <1>6

LEMMA TailOfCalls ==
  ASSUME NEW cs \in Seq(Calls), cs # <<>>, NEW rest, rest = Tail(cs)
  PROVE  /\ rest \in Seq(Calls) /\ 1 \in DOMAIN cs /\ Head(cs) = cs[1] /\ cs[1] \in Calls
         /\ \A d : Reached(rest, d) => Reached(cs, d)
         /\ \A q : InTurn(cs, q) => AllPlain(rest)
         /\ \A q : InTurn(cs, q) /\ Plain(cs[1]) => AllPlain(cs)
<1>1. /\ rest \in Seq(Calls) /\ Head(cs) = cs[1] /\ Head(cs) \in Calls
      /\ Len(rest) = Len(cs) - 1 /\ \A i \in 1..Len(rest) : rest[i] = cs[i + 1]
  BY HeadTailProperties
<1>2. Len(cs) \in Nat /\ DOMAIN cs = 1..Len(cs) /\ DOMAIN rest = 1..Len(rest) /\ Len(cs) # 0
  BY <1>1, LenProperties, EmptySeq
<1>3. ASSUME NEW i \in DOMAIN rest PROVE i + 1 \in DOMAIN cs /\ cs[i + 1] = rest[i] /\ i + 1 # 1
  BY <1>1, <1>2
<1>4. \A d : Reached(rest, d) => Reached(cs, d)
  BY <1>3 DEF Reached
<1>5. \A q : InTurn(cs, q) => AllPlain(rest)
  BY <1>3 DEF InTurn, AllPlain
<1>6. \A q : InTurn(cs, q) /\ Plain(cs[1]) => AllPlain(cs)
  BY DEF InTurn, AllPlain
<1>7. 1 \in DOMAIN cs
  BY <1>2
<1>. QED
  BY <1>1, <1>4, <1>5, <1>6, <1>7

LEMMA CallsBefore ==
  ASSUME NEW s \in Seq(Calls), NEW t \in Seq(Calls), NEW out, out = s \o t
  PROVE  /\ out \in Seq(Calls)
         /\ \A d : Reached(out, d) => Reached(s, d) \/ Reached(t, d)
         /\ AllPlain(s) /\ AllPlain(t) => AllPlain(out)
<1>1. /\ out \in Seq(Calls) /\ Len(out) = Len(s) + Len(t)
      /\ \A i \in 1..Len(out) : out[i] = IF i <= Len(s) THEN s[i] ELSE t[i - Len(s)]
  BY ConcatProperties
<1>2. /\ Len(s) \in Nat /\ DOMAIN s = 1..Len(s) /\ Len(t) \in Nat /\ DOMAIN t = 1..Len(t)
      /\ DOMAIN out = 1..Len(out)
  BY <1>1, LenProperties
<1>3. ASSUME NEW i \in DOMAIN out
      PROVE  (\E j \in DOMAIN s : out[i] = s[j]) \/ \E j \in DOMAIN t : out[i] = t[j]
  <2>1. CASE i <= Len(s)
    <3>1. i \in DOMAIN s /\ out[i] = s[i]
      BY <1>1, <1>2, <2>1
    <3>. QED
      BY <3>1
  <2>2. CASE ~(i <= Len(s))
    <3>1. i - Len(s) \in DOMAIN t /\ out[i] = t[i - Len(s)]
      BY <1>1, <1>2, <2>2
    <3>. QED
      BY <3>1
  <2>. QED
    BY <2>1, <2>2
<1>4. \A d : Reached(out, d) => Reached(s, d) \/ Reached(t, d)
  BY <1>3 DEF Reached
<1>5. AllPlain(s) /\ AllPlain(t) => AllPlain(out)
  BY <1>3 DEF AllPlain
<1>. QED
  BY <1>1, <1>4, <1>5

LEMMA CallBefore ==
  ASSUME NEW call \in Calls, NEW rest \in Seq(Calls), AllPlain(rest), NEW out, out = <<call>> \o rest
  PROVE  /\ out \in Seq(Calls) /\ out # <<>> /\ out[1] = call /\ 1 \in DOMAIN out
         /\ \A i \in DOMAIN out : i # 1 => Plain(out[i])
         /\ \A d : Reached(out, d) => Reaches(call, d) \/ Reached(rest, d)
<1>1. <<call>> \in Seq(Calls) /\ Len(<<call>>) = 1 /\ <<call>>[1] = call
  OBVIOUS
<1>2. /\ out \in Seq(Calls) /\ Len(out) = 1 + Len(rest)
      /\ \A i \in 1..Len(out) : out[i] = IF i <= 1 THEN <<call>>[i] ELSE rest[i - 1]
  BY <1>1, ConcatProperties
<1>3. /\ Len(rest) \in Nat /\ DOMAIN rest = 1..Len(rest) /\ DOMAIN out = 1..Len(out)
  BY <1>2, LenProperties
<1>4. 1 \in DOMAIN out /\ out[1] = call /\ out # <<>>
  BY <1>1, <1>2, <1>3
<1>5. ASSUME NEW i \in DOMAIN out, i # 1
      PROVE  \E j \in DOMAIN rest : out[i] = rest[j]
  <2>1. i - 1 \in DOMAIN rest /\ out[i] = rest[i - 1]
    BY <1>2, <1>3, <1>5
  <2>. QED
    BY <2>1
<1>6. \A i \in DOMAIN out : i # 1 => Plain(out[i])
  BY <1>5 DEF AllPlain
<1>7. \A d : Reached(out, d) => Reaches(call, d) \/ Reached(rest, d)
  BY <1>4, <1>5 DEF Reached
<1>. QED
  BY <1>2, <1>4, <1>6, <1>7

-----------------------------------------------------------------------------
(* What counters and tests make of a body, as far as returns go.            *)

LEMMA MoreIs ==
  ASSUME NEW b \in Bodies, NEW kind \in Kinds, NEW more, more = added(b, kind)
  PROVE  /\ more \in Bodies
         /\ more.life = b.life + Sign(kind) /\ more.marked = b.marked
         /\ more.struck = b.struck /\ more.skip = b.skip
         /\ more.regenerateTokens = b.regenerateTokens
         /\ kind = "minus" => more.plus = b.plus /\ more.minus = b.minus + 1
         /\ kind = "plus" => more.minus = b.minus /\ more.plus = b.plus + 1
         /\ more.kinds = b.kinds \cup {kind}
<1>t. /\ b.toughness \in Int /\ b.life \in Int /\ b.plus \in Nat /\ b.minus \in Nat
      /\ b.kinds \subseteq Kinds
  BY BodyTyped
<1>1. PICK sign \in Int : sign = Sign(kind)
  <2>1. Sign(kind) \in Int
    BY DEF Sign
  <2>. QED
    BY <2>1
<1>2. PICK t \in Int, l \in Int : t = b.toughness + sign /\ l = b.life + sign
  <2>1. b.toughness + sign \in Int /\ b.life + sign \in Int
    BY <1>t, <1>1
  <2>. QED
    BY <2>1
<1>3. addToToughness(b, sign) = [b EXCEPT !.toughness = t, !.life = l, !.doDamageTest = TRUE]
  BY <1>2 DEF addToToughness
<1>4. PICK k \in SUBSET Kinds : k = b.kinds \cup {kind}
  BY <1>t
<1>5. CASE kind = "plus"
  <2>1. PICK n \in Nat : n = b.plus + 1
    BY <1>t
  <2>2. more = [b EXCEPT !.toughness = t, !.life = l, !.doDamageTest = TRUE, !.plus = n, !.kinds = k]
    BY <1>1, <1>3, <1>4, <1>5, <2>1 DEF added, Bodies
  <2>. QED
    BY <1>1, <1>2, <1>4, <1>5, <2>1, <2>2 DEF Bodies
<1>6. CASE kind = "minus"
  <2>1. PICK n \in Nat : n = b.minus + 1
    BY <1>t
  <2>2. more = [b EXCEPT !.toughness = t, !.life = l, !.doDamageTest = TRUE, !.minus = n, !.kinds = k]
    BY <1>1, <1>3, <1>4, <1>6, <2>1 DEF added, Bodies
  <2>. QED
    BY <1>1, <1>2, <1>4, <1>6, <2>1, <2>2 DEF Bodies
<1>. QED
  BY <1>5, <1>6 DEF Kinds

LEMMA LessIs ==
  ASSUME NEW b \in Bodies, NEW kind \in Kinds, NEW less, less = removeCounter(b, kind)
  PROVE  less.struck = b.struck
<1>t. b.toughness \in Int /\ b.life \in Int /\ b.plus \in Nat /\ b.minus \in Nat
  BY BodyTyped
<1>1. PICK sign : sign = -Sign(kind)
  OBVIOUS
<1>2. PICK t, l : t = b.toughness + sign /\ l = b.life + sign
  OBVIOUS
<1>3. addToToughness(b, sign) = [b EXCEPT !.toughness = t, !.life = l, !.doDamageTest = TRUE]
  BY <1>2 DEF addToToughness
<1>4. CASE b[kind] = 0
  BY <1>4 DEF removeCounter
<1>5. CASE b[kind] # 0 /\ kind = "plus"
  <2>1. PICK n : n = b.plus - 1
    OBVIOUS
  <2>2. less = [b EXCEPT !.toughness = t, !.life = l, !.doDamageTest = TRUE, !.plus = n]
    BY <1>1, <1>3, <1>5, <2>1 DEF removeCounter, Bodies
  <2>. QED
    BY <2>2 DEF Bodies
<1>6. CASE b[kind] # 0 /\ kind = "minus"
  <2>1. PICK n : n = b.minus - 1
    OBVIOUS
  <2>2. less = [b EXCEPT !.toughness = t, !.life = l, !.doDamageTest = TRUE, !.minus = n]
    BY <1>1, <1>3, <1>6, <2>1 DEF removeCounter, Bodies
  <2>. QED
    BY <2>2 DEF Bodies
<1>. QED
  BY <1>4, <1>5, <1>6 DEF Kinds

LEMMA TestedIs ==
  ASSUME NEW b \in Bodies, NEW t, t = Tested(b)
  PROVE  /\ t \in Bodies
         /\ t.struck = b.struck /\ t.plus = b.plus /\ t.minus = b.minus /\ t.kinds = b.kinds
         /\ t.toughness = b.toughness
         /\ ~Lethal(b) => t.life = b.life /\ t.marked = b.marked
<1>1. CASE b.skip
  <2>1. t = [b EXCEPT !.skip = FALSE]
    BY <1>1 DEF Tested
  <2>. QED
    BY <2>1 DEF Bodies
<1>2. CASE ~b.skip /\ ~Lethal(b)
  <2>1. t = [b EXCEPT !.doDamageTest = FALSE]
    BY <1>2 DEF Tested
  <2>. QED
    BY <2>1 DEF Bodies
<1>3. CASE ~b.skip /\ Lethal(b)
  <2>1. PICK r : r = triggerRegenerate(b)
    OBVIOUS
  <2>2. /\ r \in Bodies
        /\ r.struck = b.struck /\ r.plus = b.plus /\ r.minus = b.minus /\ r.kinds = b.kinds
        /\ r.toughness = b.toughness
    <3>1. CASE b.regenerateTokens = 0
      BY <2>1, <3>1 DEF triggerRegenerate
    <3>2. CASE b.regenerateTokens # 0
      <4>1. b.regenerateTokens \in 0..MaxShields /\ MaxShields \in Nat /\ b.toughness \in Int
        BY BodyTyped, ConstantsAssumption
      <4>2. PICK n \in 0..MaxShields, z \in Nat : n = b.regenerateTokens - 1 /\ z = 0
        <5>1. b.regenerateTokens - 1 \in 0..MaxShields
          BY <3>2, <4>1
        <5>. QED
          BY <5>1
      <4>3. PICK l \in Int : l = b.toughness
        BY <4>1
      <4>4. r = [b EXCEPT !.regenerateTokens = n, !.life = l, !.marked = z, !.touched = FALSE]
        BY <2>1, <3>2, <4>2, <4>3 DEF triggerRegenerate
      <4>. QED
        BY <4>4 DEF Bodies
    <3>. QED
      BY <3>1, <3>2
  <2>3. t = [r EXCEPT !.doDamageTest = FALSE]
    BY <1>3, <2>1 DEF Tested
  <2>. QED
    BY <1>3, <2>2, <2>3 DEF Bodies
<1>. QED
  BY <1>1, <1>2, <1>3

LEMMA CancelledIs ==
  ASSUME NEW b \in Bodies, NEW r, r = cancelCounters(b)
  PROVE  r.struck = b.struck /\ r.toughness = b.toughness /\ (b.plus = 0 => r.plus = 0)
<1>t. b.plus \in Nat /\ b.minus \in Nat
  BY BodyTyped
<1>1. PICK n \in Nat : n = (IF b.plus < b.minus THEN b.plus ELSE b.minus)
  BY <1>t
<1>2. CASE n = 0
  BY <1>1, <1>2 DEF cancelCounters
<1>3. CASE n # 0
  <2>1. PICK p, m : p = b.plus - n /\ m = b.minus - n
    OBVIOUS
  <2>2. r = [b EXCEPT !.plus = p, !.minus = m, !.doDamageTest = TRUE]
    BY <1>t, <1>1, <1>3, <2>1 DEF cancelCounters, Bodies
  <2>3. b.plus # 0
    BY <1>t, <1>1, <1>3
  <2>. QED
    BY <1>t, <2>2, <2>3 DEF Bodies
<1>. QED
  BY <1>2, <1>3

-----------------------------------------------------------------------------
(* What becomes of c, while rest and queue are left of what is under way.   *)

\* Nothing is under way for the others that was not, and of c nothing is told.
Undisturbed(c, rest, queue) ==
  /\ \A d \in Creatures : d # c /\ Exposed(rest, queue, d) => Exposed(calls, eventsQueue, d)
  /\ \A d \in Creatures, w \in {"no"} \cup Kinds :
       d # c => (Announced(queue, d, w) <=> Announced(eventsQueue, d, w))
  /\ \A w \in {"no"} \cup Kinds : ~Announced(queue, c, w)
  /\ Once(queue)

NoWalkTo(c, cs) == \A i \in DOMAIN cs : cs[i].op = "afterDamages" => c \notin cs[i].left

Safe == /\ Pursued(inPlay, calls, eventsQueue)
        /\ Spared(returned, inPlay, body, calls, eventsQueue)

SafeThen == /\ Pursued(inPlay', calls', eventsQueue')
            /\ Spared(returned', inPlay', body', calls', eventsQueue')

LEMMA StaysSafe ==
  ASSUME Typed, Safe, NEW c \in Creatures, NEW b,
         NEW rest \in Seq(Calls), NEW queue \in Seq(Events), Undisturbed(c, rest, queue),
         returned' \subseteq returned \cup {c}, returned' \subseteq Creatures,
         c \in returned' => ~Exposed(rest, queue, c) /\ ~b.struck,
         stays(c, b, rest, queue)
  PROVE  SafeThen
<1>1. /\ inPlay' = inPlay \cup {c} /\ eventsQueue' = queue /\ calls' = rest
      /\ \A d \in Creatures : body'[d] = IF d = c THEN b ELSE body[d]
  BY DEF stays, Typed
<1>2. Pursued(inPlay', rest, queue)
  BY <1>1 DEF Safe, Pursued, Undisturbed, Kinds
<1>3. ASSUME NEW d \in returned'
      PROVE  /\ ~Exposed(rest, queue, d) /\ ~body'[d].struck
             /\ d \in inPlay' \/ Announced(queue, d, "plus") \/ Announced(queue, d, "minus") \/ Frail(d)
  <2>1. CASE d = c
    BY <1>1, <2>1
  <2>2. CASE d # c
    BY <1>1, <2>2 DEF Safe, Spared, Undisturbed, Kinds
  <2>. QED
    BY <2>1, <2>2
<1>4. Spared(returned', inPlay', body', rest, queue)
  BY <1>3 DEF Spared
<1>. QED
  BY <1>1, <1>2, <1>4 DEF SafeThen

LEMMA LeavesSafe ==
  ASSUME Typed, Safe, NEW c \in Creatures, NEW b,
         NEW rest \in Seq(Calls), NEW queue \in Seq(Events), Undisturbed(c, rest, queue),
         NoWalkTo(c, rest),
         returned' \subseteq returned \cup {c}, returned' \subseteq Creatures,
         c \in returned' => ReturnsWith(c, b) \in Kinds \/ Frail(c),
         leaves(c, b, rest, queue)
  PROVE  /\ SafeThen
         /\ eventsQueue' \in Seq(Events) /\ calls' \in Seq(Calls) /\ DOMAIN calls' = DOMAIN rest
         /\ \A i \in DOMAIN rest :
              /\ calls'[i].op = rest[i].op /\ calls'[i].nested = rest[i].nested
              /\ calls'[i].card = rest[i].card
              /\ rest[i].op = "AACounter" =>
                   /\ calls'[i].nb = rest[i].nb /\ calls'[i].add = rest[i].add
                   /\ calls'[i].kind = rest[i].kind
         /\ AllPlain(rest) => AllPlain(calls')
         /\ OnlyZoneChanges(queue) => OnlyZoneChanges(eventsQueue')
         /\ \A d \in Creatures, w \in Kinds :
              Announced(eventsQueue', d, w) =>
                (d # c /\ Announced(eventsQueue, d, w)) \/ (d = c /\ w = ReturnsWith(c, b))
<1>1. PICK told, left, with :
        /\ told = Parting(queue, c, with) /\ left = Outdated(rest, c) /\ with = ReturnsWith(c, b)
  OBVIOUS
<1>2. with \in {"no"} \cup Kinds
  BY <1>1 DEF ReturnsWith, Kinds
<1>3. /\ told \in Seq(Events)
      /\ \A d : Hurting(told, d) => d # c /\ Hurting(queue, d)
      /\ \A d, w : d # c => (Announced(told, d, w) <=> Announced(queue, d, w))
      /\ \A w : Announced(told, c, w) <=> w = with
      /\ Once(queue) => Once(told)
      /\ OnlyZoneChanges(queue) => OnlyZoneChanges(told)
  <2>1. told = Parting(queue, c, with)
    BY <1>1
  <2>. QED
    BY <1>2, <2>1, LeftQueue
<1>4. /\ left \in Seq(Calls) /\ DOMAIN left = DOMAIN rest
      /\ \A i \in DOMAIN rest :
           /\ left[i].op = rest[i].op /\ left[i].nested = rest[i].nested /\ left[i].card = rest[i].card
           /\ rest[i].op = "AACounter" =>
                left[i].nb = rest[i].nb /\ left[i].add = rest[i].add /\ left[i].kind = rest[i].kind
      /\ \A d : Reached(left, d) => d # c /\ Reached(rest, d)
      /\ AllPlain(rest) => AllPlain(left)
  <2>1. left = Outdated(rest, c)
    BY <1>1
  <2>2. \A i \in DOMAIN rest : rest[i].op = "afterDamages" => c \notin rest[i].left
    BY DEF NoWalkTo
  <2>. QED
    BY <2>1, <2>2, LeftCalls
<1>5. /\ inPlay' = inPlay \ {c} /\ eventsQueue' = told /\ calls' = left
      /\ \A d \in Creatures : body'[d] = IF d = c THEN Printed(c) ELSE body[d]
  BY <1>1 DEF leaves, Parting, Typed
<1>6. with = ReturnsWith(c, b)
  BY <1>1
<1>7. ASSUME NEW d PROVE Exposed(left, told, d) => d # c /\ Exposed(rest, queue, d)
  BY <1>3, <1>4 DEF Exposed
<1>8. Pursued(inPlay', left, told)
  <2>1. \A d \in Creatures : Exposed(left, told, d) => d \in inPlay'
    BY <1>5, <1>7 DEF Safe, Pursued, Undisturbed
  <2>2. \A d \in Creatures, w \in {"no"} \cup Kinds : Announced(told, d, w) => d \notin inPlay'
    BY <1>3, <1>5 DEF Safe, Pursued, Undisturbed
  <2>3. \A d \in Creatures : Announced(told, d, "minus") => d \in Persisting
    <3>1. ReturnsWith(c, b) = "minus" => c \in Persisting
      BY DEF ReturnsWith
    <3>2. "minus" \in {"no"} \cup Kinds
      BY DEF Kinds
    <3>. QED
      BY <1>3, <1>6, <3>1, <3>2 DEF Safe, Pursued, Undisturbed
  <2>. QED
    BY <1>3, <2>1, <2>2, <2>3 DEF Pursued, Undisturbed
<1>9. ASSUME NEW d \in returned'
      PROVE  /\ ~Exposed(left, told, d) /\ ~body'[d].struck
             /\ d \in inPlay' \/ Announced(told, d, "plus") \/ Announced(told, d, "minus") \/ Frail(d)
  <2>1. CASE d = c
    <3>1. ~body'[d].struck
      BY <1>5, <2>1 DEF Printed
    <3>. QED
      BY <1>3, <1>6, <1>7, <2>1, <3>1 DEF Kinds
  <2>2. CASE d # c
    <3>1. d \in Creatures /\ d \in returned
      BY <2>2
    <3>. QED
      BY <1>3, <1>5, <1>7, <2>2, <3>1 DEF Safe, Spared, Undisturbed, Kinds
  <2>. QED
    BY <2>1, <2>2
<1>10. Spared(returned', inPlay', body', left, told)
  BY <1>9 DEF Spared
<1>11. SafeThen
  BY <1>5, <1>8, <1>10 DEF SafeThen
<1>12. ASSUME NEW d \in Creatures, NEW w \in Kinds, Announced(eventsQueue', d, w)
       PROVE  (d # c /\ Announced(eventsQueue, d, w)) \/ (d = c /\ w = ReturnsWith(c, b))
  BY <1>3, <1>5, <1>6, <1>12 DEF Undisturbed
<1>. QED
  BY <1>3, <1>4, <1>5, <1>11, <1>12

\* Nothing happens to a creature.
LEMMA SameSafe ==
  ASSUME Safe, UNCHANGED <<inPlay, body, returned>>, returned \subseteq Creatures,
         NEW rest, NEW queue, calls' = rest, eventsQueue' = queue,
         \A d \in Creatures : Exposed(rest, queue, d) =>
           Exposed(calls, eventsQueue, d) \/ (d \in inPlay /\ d \notin returned),
         \A d \in Creatures, w \in {"no"} \cup Kinds :
           Announced(queue, d, w) => Announced(eventsQueue, d, w),
         \A d \in Creatures, w \in Kinds :
           Announced(eventsQueue, d, w) => Announced(queue, d, w),
         Once(queue)
  PROVE  SafeThen
<1>1. Pursued(inPlay, rest, queue)
  BY DEF Safe, Pursued, Kinds
<1>2. ASSUME NEW d \in returned
      PROVE  /\ ~Exposed(rest, queue, d) /\ ~body[d].struck
             /\ d \in inPlay \/ Announced(queue, d, "plus") \/ Announced(queue, d, "minus") \/ Frail(d)
  BY DEF Safe, Spared, Kinds
<1>3. Spared(returned, inPlay, body, rest, queue)
  BY <1>2 DEF Spared
<1>. QED
  BY <1>1, <1>3 DEF SafeThen

\* Whatever becomes of a creature that has not come back.
Fate(c, rest, queue) == (\E x : stays(c, x, rest, queue)) \/ \E x : leaves(c, x, rest, queue)

LEMMA FateSafe ==
  ASSUME Typed, Safe, NEW c \in Creatures, c \notin returned, returned' = returned,
         returned \subseteq Creatures,
         NEW rest \in Seq(Calls), NEW queue \in Seq(Events), Undisturbed(c, rest, queue),
         NoWalkTo(c, rest), Fate(c, rest, queue)
  PROVE  /\ SafeThen
         /\ calls' \in Seq(Calls) /\ DOMAIN calls' = DOMAIN rest
         /\ \A i \in DOMAIN rest : calls'[i].op = rest[i].op /\ calls'[i].nested = rest[i].nested
         /\ AllPlain(rest) => AllPlain(calls')
         /\ OnlyZoneChanges(queue) => OnlyZoneChanges(eventsQueue')
<1>1. returned' \subseteq returned \cup {c} /\ returned' \subseteq Creatures /\ c \notin returned'
  OBVIOUS
<1>2. ASSUME NEW x, stays(c, x, rest, queue)
      PROVE  SafeThen /\ calls' = rest /\ eventsQueue' = queue
  <2>1. SafeThen
    BY <1>1, <1>2, StaysSafe
  <2>. QED
    BY <1>2, <2>1 DEF stays
<1>3. ASSUME NEW x, leaves(c, x, rest, queue)
      PROVE  /\ SafeThen
             /\ calls' \in Seq(Calls) /\ DOMAIN calls' = DOMAIN rest
             /\ \A i \in DOMAIN rest : calls'[i].op = rest[i].op /\ calls'[i].nested = rest[i].nested
             /\ AllPlain(rest) => AllPlain(calls')
             /\ OnlyZoneChanges(queue) => OnlyZoneChanges(eventsQueue')
  BY <1>1, <1>3, LeavesSafe
<1>. QED
  BY <1>2, <1>3 DEF Fate

LEMMA Fates ==
  ASSUME NEW c, NEW b, NEW rest, NEW queue
  PROVE  /\ destroy(c, b, rest, queue) => Fate(c, rest, queue)
         /\ afterDamage(c, b, rest, queue) => Fate(c, rest, queue)
         /\ \A kind : addCounter(c, b, kind, rest, queue) => Fate(c, rest, queue)
BY DEF Fate, destroy, afterDamage, addCounter

-----------------------------------------------------------------------------
(* The steps whose calls are plain.                                         *)

Known == Typed /\ Kept /\ returned \subseteq Creatures /\ RInv

RThen == /\ SafeThen
         /\ InTurn(calls', eventsQueue')
         /\ Counting(returned', inPlay', body', calls', eventsQueue')

LEMMA Knowing ==
  ASSUME Known
  PROVE  /\ Typed /\ Safe /\ returned \subseteq Creatures
         /\ inPlay \subseteq Creatures
         /\ calls \in Seq(Calls) /\ eventsQueue \in Seq(Events)
         /\ InTurn(calls, eventsQueue) /\ Once(eventsQueue)
         /\ Counting(returned, inPlay, body, calls, eventsQueue)
BY DEF Known, RInv, Safe, Typed, Pursued

\* Whom something under way reaches is in play, and has not just come back.
LEMMA Target ==
  ASSUME Known, NEW c \in Creatures, Exposed(calls, eventsQueue, c)
  PROVE  c \in inPlay /\ c \notin returned
BY DEF Known, RInv, Pursued, Spared

LEMMA NoWalks == ASSUME NEW cs, AllPlain(cs), NEW c PROVE NoWalkTo(c, cs)
BY DEF AllPlain, NoWalkTo, Plain

LEMMA HeadGoesOn ==
  ASSUME Known, NEW op, Runs(op), NEW call, call = Head(calls), NEW rest, rest = Tail(calls)
  PROVE  /\ call \in Calls /\ call.op = op /\ rest \in Seq(Calls) /\ calls # <<>>
         /\ call = calls[1] /\ AllPlain(rest)
         /\ \A d : Reached(rest, d) \/ Reaches(call, d) => Reached(calls, d)
         /\ \A d : Reaches(call, d) => Exposed(calls, eventsQueue, d)
         /\ Plain(call) => AllPlain(calls)
         /\ call.nested \/ eventsQueue = <<>>
<1>1. calls \in Seq(Calls) /\ InTurn(calls, eventsQueue) /\ calls # <<>> /\ call.op = op
  BY Knowing DEF Runs
<1>2. /\ rest \in Seq(Calls) /\ 1 \in DOMAIN calls /\ call = calls[1] /\ calls[1] \in Calls
      /\ \A d : Reached(rest, d) => Reached(calls, d)
      /\ AllPlain(rest)
      /\ Plain(calls[1]) => AllPlain(calls)
  BY <1>1, TailOfCalls
<1>3. \A d : Reaches(call, d) => Reached(calls, d)
  BY <1>2 DEF Reached
<1>. QED
  BY <1>1, <1>2, <1>3 DEF Runs, Exposed

LEMMA FewerDisturb ==
  ASSUME Known, NEW c \in inPlay, NEW rest,
         \A d \in Creatures : d # c /\ Reached(rest, d) => Exposed(calls, eventsQueue, d)
  PROVE  Undisturbed(c, rest, eventsQueue)
BY DEF Known, RInv, Pursued, Undisturbed, Exposed, Typed

\* A creature that something under way reaches, whatever becomes of it.
LEMMA FateThen ==
  ASSUME Known, returned' = returned, NEW c \in Creatures, Exposed(calls, eventsQueue, c),
         NEW rest \in Seq(Calls), AllPlain(rest), Fate(c, rest, eventsQueue),
         \A d \in Creatures : d # c /\ Reached(rest, d) => Exposed(calls, eventsQueue, d)
  PROVE  RThen
<1>1. c \in inPlay /\ c \notin returned
  BY Target
<1>2. Undisturbed(c, rest, eventsQueue) /\ NoWalkTo(c, rest)
  BY <1>1, FewerDisturb, NoWalks
<1>3. SafeThen /\ calls' \in Seq(Calls) /\ AllPlain(calls')
  BY <1>1, <1>2, Knowing, FateSafe
<1>. QED
  BY <1>3, PlainInTurn DEF RThen

\* Damage is told, or nothing, and nobody else is reached.
LEMMA SameThen ==
  ASSUME Known, UNCHANGED <<inPlay, body, returned>>, calls' \in Seq(Calls), AllPlain(calls'),
         \A d \in Creatures : Reached(calls', d) => Exposed(calls, eventsQueue, d),
         eventsQueue' = eventsQueue \/ \E event \in Events :
           /\ event.type # "ZoneChange" /\ eventsQueue' = Append(eventsQueue, event)
           /\ \A d \in Creatures : Hurts(event, d) => Exposed(calls, eventsQueue, d)
  PROVE  RThen
<1>1. PICK rest, queue : rest = calls' /\ queue = eventsQueue'
  OBVIOUS
<1>2. /\ \A d \in Creatures : Hurting(queue, d) => Exposed(calls, eventsQueue, d)
      /\ \A d \in Creatures : \A w : Announced(queue, d, w) <=> Announced(eventsQueue, d, w)
      /\ Once(queue)
  <2>1. CASE eventsQueue' = eventsQueue
    BY <1>1, <2>1, Knowing DEF Exposed
  <2>2. CASE eventsQueue' # eventsQueue
    <3>1. PICK event \in Events :
            /\ event.type # "ZoneChange" /\ queue = Append(eventsQueue, event)
            /\ \A d \in Creatures : Hurts(event, d) => Exposed(calls, eventsQueue, d)
      BY <1>1, <2>2
    <3>2. eventsQueue \in Seq(Events) /\ Once(eventsQueue)
      BY Knowing
    <3>3. /\ \A c : Hurting(queue, c) => Hurting(eventsQueue, c) \/ Hurts(event, c)
          /\ \A c, w : Announced(queue, c, w) <=> Announced(eventsQueue, c, w)
          /\ Once(eventsQueue) => Once(queue)
      BY <3>1, <3>2, ToldQueue
    <3>. QED
      BY <3>1, <3>2, <3>3 DEF Exposed
  <2>. QED
    BY <2>1, <2>2
<1>3. \A d \in Creatures : Exposed(rest, queue, d) => Exposed(calls, eventsQueue, d)
  BY <1>1, <1>2 DEF Exposed
<1>4. Safe /\ returned \subseteq Creatures /\ calls' = rest /\ eventsQueue' = queue
  BY <1>1, Knowing
<1>5. SafeThen
  BY <1>2, <1>3, <1>4, SameSafe
<1>. QED
  BY <1>5, PlainInTurn DEF RThen

LEMMA PassThen == ASSUME Known, NEW op, Runs(op), Pass, returned' = returned PROVE RThen
<1>1. PICK rest : rest = Tail(calls)
  OBVIOUS
<1>2. rest \in Seq(Calls) /\ AllPlain(rest) /\ \A d : Reached(rest, d) => Reached(calls, d)
  BY <1>1, HeadGoesOn
<1>3. calls' = rest /\ UNCHANGED <<inPlay, body, eventsQueue>>
  BY <1>1 DEF Pass
<1>. QED
  BY <1>2, <1>3, SameThen DEF Exposed

LEMMA AddCounterThen == ASSUME Known, AddCounter PROVE RThen
<1>1. PICK call, rest : call = Head(calls) /\ rest = Tail(calls)
  OBVIOUS
<1>2. /\ Runs("addCounter") /\ call \in CounterCalls /\ rest \in Seq(Calls) /\ AllPlain(rest)
      /\ call.op = "addCounter" /\ returned' = returned
      /\ \A d : Reached(rest, d) => Reached(calls, d)
      /\ \A d : Reaches(call, d) => Exposed(calls, eventsQueue, d)
  <2>1. Runs("addCounter") /\ returned' = returned
    BY DEF AddCounter
  <2>. QED
    BY <1>1, <2>1, HeadGoesOn, CounterCall
<1>c. PICK c \in Creatures : c = call.card
  BY <1>2 DEF CounterCalls
<1>3. CASE call.live
  <2>1. addCounter(c, body[c], call.kind, rest, eventsQueue)
    BY <1>1, <1>3, <1>c DEF AddCounter
  <2>2. Fate(c, rest, eventsQueue)
    BY <2>1, Fates
  <2>3. Exposed(calls, eventsQueue, c)
    BY <1>2, <1>3, <1>c DEF Reaches
  <2>. QED
    BY <1>2, <2>2, <2>3, FateThen DEF Exposed
<1>4. CASE ~call.live
  BY <1>1, <1>2, <1>4, PassThen DEF AddCounter
<1>. QED
  BY <1>3, <1>4

LEMMA RemoveCounterThen == ASSUME Known, RemoveCounter PROVE RThen
<1>1. PICK call, rest : call = Head(calls) /\ rest = Tail(calls)
  OBVIOUS
<1>2. /\ Runs("removeCounter") /\ call \in CounterCalls /\ rest \in Seq(Calls) /\ AllPlain(rest)
      /\ call.op = "removeCounter" /\ returned' = returned
      /\ \A d : Reached(rest, d) => Reached(calls, d)
      /\ \A d : Reaches(call, d) => Exposed(calls, eventsQueue, d)
  <2>1. Runs("removeCounter") /\ returned' = returned
    BY DEF RemoveCounter
  <2>. QED
    BY <1>1, <2>1, HeadGoesOn, CounterCall
<1>c. PICK c \in Creatures : c = call.card
  BY <1>2 DEF CounterCalls
<1>3. CASE call.live
  <2>1. stays(c, removeCounter(body[c], call.kind), rest, eventsQueue)
    BY <1>1, <1>3, <1>c DEF RemoveCounter
  <2>2. Fate(c, rest, eventsQueue)
    BY <2>1 DEF Fate
  <2>3. Exposed(calls, eventsQueue, c)
    BY <1>2, <1>3, <1>c DEF Reaches
  <2>. QED
    BY <1>2, <2>2, <2>3, FateThen DEF Exposed
<1>4. CASE ~call.live
  BY <1>1, <1>2, <1>4, PassThen DEF RemoveCounter
<1>. QED
  BY <1>3, <1>4

LEMMA TestTargetThen == ASSUME Known, TestTarget PROVE RThen
<1>1. PICK call, rest : call = Head(calls) /\ rest = Tail(calls)
  OBVIOUS
<1>2. /\ Runs("afterDamage") /\ call \in TestCalls /\ rest \in Seq(Calls) /\ AllPlain(rest)
      /\ call.op = "afterDamage" /\ returned' = returned
      /\ \A d : Reached(rest, d) => Reached(calls, d)
      /\ \A d : Reaches(call, d) => Exposed(calls, eventsQueue, d)
  <2>1. Runs("afterDamage") /\ returned' = returned
    BY DEF TestTarget
  <2>. QED
    BY <1>1, <2>1, HeadGoesOn, TestCall
<1>c. PICK c \in Creatures : c = call.card
  BY <1>2 DEF TestCalls
<1>3. CASE call.live
  <2>1. afterDamage(c, body[c], rest, eventsQueue)
    BY <1>1, <1>3, <1>c DEF TestTarget
  <2>2. Fate(c, rest, eventsQueue)
    BY <2>1, Fates
  <2>3. Exposed(calls, eventsQueue, c)
    BY <1>2, <1>3, <1>c DEF Reaches
  <2>. QED
    BY <1>2, <2>2, <2>3, FateThen DEF Exposed
<1>4. CASE ~call.live
  BY <1>1, <1>2, <1>4, PassThen DEF TestTarget
<1>. QED
  BY <1>3, <1>4

LEMMA StackResolvedThen == ASSUME Known, StackResolved PROVE RThen
<1>1. PICK rest, event :
        /\ rest = Tail(calls)
        /\ event = [type |-> "DamageStackResolved", card |-> "none", live |-> TRUE]
  OBVIOUS
<1>2. /\ rest \in Seq(Calls) /\ AllPlain(rest)
      /\ \A d : Reached(rest, d) => Reached(calls, d)
  <2>1. Runs("DamageStackResolved")
    BY DEF StackResolved
  <2>. QED
    BY <1>1, <2>1, HeadGoesOn
<1>3. event \in Events /\ event.type = "DamageStackResolved"
  BY <1>1 DEF Events
<1>4. calls' = rest /\ eventsQueue' = Append(eventsQueue, event) /\ UNCHANGED <<inPlay, body, returned>>
  BY <1>1 DEF StackResolved
<1>5. \A d : ~Hurts(event, d)
  BY <1>3 DEF Hurts
<1>. QED
  BY <1>2, <1>3, <1>4, <1>5, SameThen DEF Exposed

\* The damage is told of whom it was dealt to.
LEMMA ToldThen ==
  ASSUME Known, NEW op \in {"Damage", "Withered"}, Runs(op),
         NEW call, call = Head(calls), calls' = Tail(calls),
         eventsQueue' = Append(eventsQueue, DamageEvent(call)), UNCHANGED <<inPlay, body, returned>>
  PROVE  RThen
<1>1. PICK rest, event : rest = Tail(calls) /\ event = DamageEvent(call)
  OBVIOUS
<1>2. /\ call \in DamageCalls /\ call.op = op /\ rest \in Seq(Calls) /\ AllPlain(rest)
      /\ \A d : Reached(rest, d) => Reached(calls, d)
      /\ \A d : Reaches(call, d) => Exposed(calls, eventsQueue, d)
  BY <1>1, HeadGoesOn, DamageCall
<1>3. /\ event \in Events /\ event.type = "Damage"
      /\ event.card = call.card /\ event.live = call.live
  BY <1>1, <1>2, DamageEventTyped DEF DamageEvent
<1>4. \A d \in Creatures : Hurts(event, d) => Exposed(calls, eventsQueue, d)
  BY <1>2, <1>3 DEF Hurts, Reaches
<1>5. calls' = rest /\ eventsQueue' = Append(eventsQueue, event)
  BY <1>1
<1>. QED
  BY <1>2, <1>3, <1>4, <1>5, SameThen DEF Exposed

LEMMA WitheredThen == ASSUME Known, Withered PROVE RThen
<1>1. PICK call, rest : call = Head(calls) /\ rest = Tail(calls)
  OBVIOUS
<1>2. /\ Runs("Withered") /\ call \in DamageCalls /\ calls \in Seq(Calls) /\ AllPlain(calls)
      /\ call.op = "Withered" /\ returned' = returned
      /\ \A d : Reaches(call, d) => Exposed(calls, eventsQueue, d)
  <2>1. Runs("Withered") /\ returned' = returned
    BY DEF Withered
  <2>2. call \in Calls /\ call.op = "Withered"
    BY <1>1, <2>1, HeadGoesOn
  <2>3. Plain(call)
    BY <2>2 DEF Plain
  <2>. QED
    BY <1>1, <2>1, <2>2, <2>3, HeadGoesOn, Knowing, DamageCall
<1>c. PICK c \in Creatures : c = call.card
  BY <1>2 DEF DamageCalls
<1>3. CASE call.live /\ Shrunk(call.card, body[call.card])
  <2>1. leaves(c, body[c], calls, eventsQueue)
    BY <1>1, <1>3, <1>c DEF Withered
  <2>2. Fate(c, calls, eventsQueue)
    BY <2>1 DEF Fate
  <2>3. Exposed(calls, eventsQueue, c)
    BY <1>2, <1>3, <1>c DEF Reaches
  <2>. QED
    BY <1>2, <2>2, <2>3, FateThen DEF Exposed
<1>4. CASE ~(call.live /\ Shrunk(call.card, body[call.card]))
  BY <1>1, <1>2, <1>4, ToldThen DEF Withered
<1>. QED
  BY <1>3, <1>4

\* The calls for the counters that damage is replaced by.
LEMMA CountersReach ==
  ASSUME NEW c \in Creatures, NEW op \in {"addCounter", "removeCounter"}, NEW kind \in Kinds,
         NEW n \in Nat, NEW nested \in BOOLEAN, NEW seq, seq = Counters(c, op, kind, n, nested)
  PROVE  /\ seq \in Seq(Calls) /\ AllPlain(seq)
         /\ \A d : Reached(seq, d) => d = c
<1>1. PICK one : one = [op |-> op, card |-> c, live |-> TRUE, nested |-> nested, kind |-> kind]
  OBVIOUS
<1>2. seq = [i \in 1..n |-> one] /\ one.op = op /\ one.card = c
  BY <1>1 DEF Counters
<1>3. \A i \in DOMAIN seq : seq[i] = one
  BY <1>2
<1>4. \A d : Reaches(one, d) => d = c
  BY <1>2 DEF Reaches
<1>5. Plain(one)
  BY <1>2 DEF Plain
<1>. QED
  BY <1>3, <1>4, <1>5, CountersTyped DEF Reached, AllPlain

\* A creature is dealt damage, which is told.
LEMMA HurtThen ==
  ASSUME Known, returned' = returned, NEW c \in Creatures, Exposed(calls, eventsQueue, c),
         NEW rest \in Seq(Calls), AllPlain(rest), \A d : Reached(rest, d) => Reached(calls, d),
         NEW event \in Events, event.type = "Damage", event.card = c, NEW b,
         stays(c, b, rest, Append(eventsQueue, event))
  PROVE  RThen
<1>1. c \in inPlay /\ c \notin returned
  BY Target
<1>2. PICK queue : queue = Append(eventsQueue, event)
  OBVIOUS
<1>3. /\ queue \in Seq(Events)
      /\ \A d : Hurting(queue, d) => Hurting(eventsQueue, d) \/ Hurts(event, d)
      /\ \A d, w : Announced(queue, d, w) <=> Announced(eventsQueue, d, w)
      /\ Once(queue)
  <2>1. event.type # "ZoneChange"
    OBVIOUS
  <2>2. eventsQueue \in Seq(Events) /\ Once(eventsQueue)
    BY Knowing
  <2>. QED
    BY <1>2, <2>1, <2>2, ToldQueue
<1>4. Undisturbed(c, rest, queue)
  <2>1. \A w \in {"no"} \cup Kinds : ~Announced(eventsQueue, c, w)
    BY <1>1, Knowing DEF Known, RInv, Pursued
  <2>2. \A d : d # c => ~Hurts(event, d)
    BY DEF Hurts
  <2>. QED
    BY <1>3, <2>1, <2>2 DEF Undisturbed, Exposed
<1>5. NoWalkTo(c, rest)
  BY NoWalks
<1>6. Fate(c, rest, queue)
  BY <1>2 DEF Fate
<1>7. SafeThen /\ calls' \in Seq(Calls) /\ AllPlain(calls')
  BY <1>1, <1>3, <1>4, <1>5, <1>6, Knowing, FateSafe
<1>. QED
  BY <1>7, PlainInTurn DEF RThen

LEMMA ResolveDamageThen == ASSUME Known, ResolveDamage PROVE RThen
<1>1. PICK call, rest : call = Head(calls) /\ rest = Tail(calls)
  OBVIOUS
<1>2. /\ Runs("Damage") /\ call \in DamageCalls /\ rest \in Seq(Calls) /\ AllPlain(rest)
      /\ call.op = "Damage" /\ returned' = returned
      /\ \A d : Reached(rest, d) => Reached(calls, d)
      /\ \A d : Reaches(call, d) => Exposed(calls, eventsQueue, d)
  <2>1. Runs("Damage") /\ returned' = returned
    BY DEF ResolveDamage
  <2>. QED
    BY <1>1, <2>1, HeadGoesOn, DamageCall
<1>c. PICK c \in Creatures : c = call.card
  BY <1>2 DEF DamageCalls
<1>3. PICK old, b, amount :
        /\ c = call.card /\ old = body[c]
        /\ amount = LessPrevented(call.amount, old.preventable)
        /\ b = [old EXCEPT !.preventable = LessPrevented(@, call.amount)]
  BY <1>c
<1>5. call.amount \in Nat /\ call.nested \in BOOLEAN /\ old.preventable \in Nat
  <2>1. old \in Bodies
    BY <1>3, Knowing DEF Typed
  <2>2. old.preventable \in 0..MaxShields
    BY <2>1, BodyTyped
  <2>. QED
    BY <1>2, <2>2, ConstantsAssumption DEF DamageCalls
<1>8. amount \in Nat
  BY <1>3, <1>5 DEF LessPrevented
<1>9. PICK kind, instead, counters :
        /\ kind = (IF c \in Hydra THEN "plus" ELSE "minus")
        /\ instead = Instead(c, call.keyword)
        /\ counters = Counters(c, instead, kind, amount, call.nested)
  OBVIOUS
<1>10. CASE ~call.live
  <2>1. /\ calls' = Tail(calls) /\ eventsQueue' = Append(eventsQueue, DamageEvent(call))
        /\ UNCHANGED <<inPlay, body, returned>>
    BY <1>1, <1>10 DEF ResolveDamage
  <2>. QED
    BY <1>1, <1>2, <2>1, ToldThen
<1>e. CASE call.live
  <2>e. Exposed(calls, eventsQueue, c)
    BY <1>2, <1>c, <1>e DEF Reaches
  <2>1. CASE amount = 0
    <3>1. stays(c, b, rest, eventsQueue)
      BY <1>1, <1>3, <1>e, <2>1 DEF ResolveDamage
    <3>2. Fate(c, rest, eventsQueue)
      BY <3>1 DEF Fate
    <3>. QED
      BY <1>2, <2>e, <3>2, FateThen DEF Exposed
  <2>2. CASE amount # 0 /\ instead = "none"
    <3>1. PICK hurt, event : hurt = Hurt(b, amount, call) /\ event = DamageEvent(call)
      OBVIOUS
    <3>2. stays(c, hurt, rest, Append(eventsQueue, event))
      BY <1>1, <1>3, <1>9, <1>e, <2>2, <3>1 DEF ResolveDamage
    <3>3. event \in Events /\ event.type = "Damage" /\ event.card = c
      BY <1>2, <1>3, <3>1, DamageEventTyped DEF DamageEvent
    <3>. QED
      BY <1>2, <2>e, <3>2, <3>3, HurtThen
  <2>3. CASE amount # 0 /\ instead # "none"
    <3>1. instead \in {"addCounter", "removeCounter"} /\ kind \in Kinds
      <4>1. instead \in {"addCounter", "removeCounter", "none"}
        BY <1>9 DEF Instead
      <4>. QED
        BY <1>9, <2>3, <4>1 DEF Kinds
    <3>2. counters \in Seq(Calls) /\ AllPlain(counters) /\ \A d : Reached(counters, d) => d = c
      <4>1. c \in Creatures /\ call.nested \in BOOLEAN
        BY <1>2 DEF DamageCalls
      <4>2. counters = Counters(c, instead, kind, amount, call.nested)
        BY <1>9
      <4>. QED
        BY ONLY <1>8, <3>1, <4>1, <4>2, CountersReach
    <3>3. CASE c \in Wilting \cup Hydra
      <4>1. PICK left : left = counters \o rest
        OBVIOUS
      <4>2. /\ left \in Seq(Calls) /\ AllPlain(left)
            /\ \A d : Reached(left, d) => Reached(counters, d) \/ Reached(rest, d)
        BY <1>2, <3>2, <4>1, CallsBefore
      <4>3. stays(c, b, left, eventsQueue)
        BY <1>1, <1>3, <1>9, <1>e, <2>3, <3>3, <4>1 DEF ResolveDamage
      <4>4. Fate(c, left, eventsQueue)
        BY <4>3 DEF Fate
      <4>5. \A d \in Creatures : d # c /\ Reached(left, d) => Exposed(calls, eventsQueue, d)
        BY <1>2, <3>2, <4>2 DEF Exposed
      <4>. QED
        BY <1>2, <2>e, <4>2, <4>4, <4>5, FateThen
    <3>4. CASE c \notin Wilting \cup Hydra
      <4>1. PICK r, end :
              /\ r = [b EXCEPT !.doDamageTest = TRUE, !.struck = @ \/ call.nested]
              /\ end = [call EXCEPT !.op = "Withered"]
        OBVIOUS
      <4>2. stays(c, r, counters \o <<end>> \o rest, eventsQueue)
        BY <1>1, <1>3, <1>9, <1>e, <2>3, <3>4, <4>1 DEF ResolveDamage
      <4>3. end \in DamageCalls /\ end.op = "Withered" /\ end.card = c
        BY <1>2, <1>3, <4>1 DEF DamageCalls
      <4>4. end \in Calls /\ Plain(end) /\ \A d : Reaches(end, d) => d = c
        BY <4>3 DEF Calls, Plain, Reaches
      <4>5. PICK one, both, all : one = <<end>> /\ both = counters \o one /\ all = both \o rest
        OBVIOUS
      <4>6. one \in Seq(Calls) /\ AllPlain(one) /\ \A d : Reached(one, d) => d = c
        BY <4>4, <4>5 DEF AllPlain, Reached
      <4>7. /\ both \in Seq(Calls) /\ AllPlain(both)
            /\ \A d : Reached(both, d) => Reached(counters, d) \/ Reached(one, d)
        BY <3>2, <4>5, <4>6, CallsBefore
      <4>8. /\ all \in Seq(Calls) /\ AllPlain(all)
            /\ \A d : Reached(all, d) => Reached(both, d) \/ Reached(rest, d)
        BY <1>2, <4>5, <4>7, CallsBefore
      <4>9. stays(c, r, all, eventsQueue)
        BY <4>2, <4>5
      <4>10. Fate(c, all, eventsQueue)
        BY <4>9 DEF Fate
      <4>11. \A d \in Creatures : d # c /\ Reached(all, d) => Exposed(calls, eventsQueue, d)
        BY <1>2, <3>2, <4>6, <4>7, <4>8 DEF Exposed
      <4>. QED
        BY <1>2, <2>e, <4>8, <4>10, <4>11, FateThen
    <3>. QED
      BY <3>3, <3>4
  <2>. QED
    BY <2>1, <2>2, <2>3
<1>. QED
  BY <1>10, <1>e

-----------------------------------------------------------------------------
(* Walks, and what hears of damage.                                         *)

\* A walk goes on before what follows it.
LEMMA WalkInTurn ==
  ASSUME NEW cs \in Seq(Calls), 1 \in DOMAIN cs, cs[1].op = "afterDamages",
         \A i \in DOMAIN cs : i # 1 => Plain(cs[i]), NEW q,
         cs[1].nested \/ OnlyZoneChanges(q)
  PROVE  InTurn(cs, q) /\ \A ret, play, bodies : Counting(ret, play, bodies, cs, q)
BY DEF InTurn, Counting, Plain

LEMMA NoneTold == ASSUME NEW q, q = <<>> PROVE OnlyZoneChanges(q)
BY DEF OnlyZoneChanges

LEMMA TestEachThen == ASSUME Known, TestEach PROVE RThen
<1>1. PICK call, tail : call = Head(calls) /\ tail = Tail(calls)
  OBVIOUS
<1>2. /\ Runs("afterDamages") /\ call \in WalkCalls /\ tail \in Seq(Calls) /\ AllPlain(tail)
      /\ call.op = "afterDamages" /\ returned' = returned
      /\ \A d : Reached(tail, d) => Reached(calls, d)
      /\ \A d : Reaches(call, d) => Exposed(calls, eventsQueue, d)
      /\ call.nested \/ eventsQueue = <<>>
  <2>1. Runs("afterDamages") /\ returned' = returned
    BY DEF TestEach
  <2>. QED
    BY <1>1, <2>1, HeadGoesOn, WalkCall
<1>3. CASE call.left = {}
  BY <1>1, <1>2, <1>3, PassThen DEF TestEach
<1>4. CASE call.left # {}
  <2>1. PICK c \in call.left, again \in BOOLEAN :
          /\ again => body[c].skip
          /\ afterDamage(c, body[c],
               <<IF again THEN call ELSE [call EXCEPT !.left = @ \ {c}]>> \o tail, eventsQueue)
    BY <1>1, <1>4 DEF TestEach
  <2>2. PICK next, rest : /\ next = IF again THEN call ELSE [call EXCEPT !.left = @ \ {c}]
                          /\ rest = <<next>> \o tail
    OBVIOUS
  <2>3. c \in Creatures /\ Exposed(calls, eventsQueue, c)
    BY <1>2 DEF WalkCalls, Reaches
  <2>4. /\ next \in WalkCalls /\ next.op = "afterDamages" /\ next.nested = call.nested
        /\ next.left \subseteq call.left
        /\ ~again => next.left = call.left \ {c}
    BY <1>2, <2>2 DEF WalkCalls
  <2>5. next \in Calls
    BY <2>4 DEF Calls
  <2>6. /\ rest \in Seq(Calls) /\ rest[1] = next /\ 1 \in DOMAIN rest
        /\ \A i \in DOMAIN rest : i # 1 => Plain(rest[i])
        /\ \A d : Reached(rest, d) => Reaches(next, d) \/ Reached(tail, d)
    BY <1>2, <2>2, <2>5, CallBefore
  <2>7. ASSUME NEW d \in Creatures, d # c, Reached(rest, d)
        PROVE  Exposed(calls, eventsQueue, d)
    <3>1. Reaches(next, d) => Reaches(call, d)
      BY <1>2, <2>4 DEF Reaches
    <3>. QED
      BY <1>2, <2>6, <2>7, <3>1 DEF Exposed
  <2>9. c \in inPlay /\ c \notin returned
    BY <2>3, Target
  <2>10. Undisturbed(c, rest, eventsQueue)
    BY <2>7, <2>9, FewerDisturb
  <2>12. /\ SafeThen /\ calls' \in Seq(Calls) /\ DOMAIN calls' = DOMAIN rest
         /\ \A i \in DOMAIN rest : calls'[i].op = rest[i].op /\ calls'[i].nested = rest[i].nested
         /\ OnlyZoneChanges(eventsQueue) => OnlyZoneChanges(eventsQueue')
    <3>1. CASE ~again
      <4>1. NoWalkTo(c, rest)
        BY <2>4, <2>6, <3>1 DEF NoWalkTo, Plain
      <4>2. Fate(c, rest, eventsQueue)
        BY <2>1, <2>2, Fates
      <4>. QED
        BY <1>2, <2>3, <2>6, <2>9, <2>10, <4>1, <4>2, Knowing, FateSafe
    <3>2. CASE again
      <4>1. PICK b : b = Tested(body[c])
        OBVIOUS
      <4>2. stays(c, b, rest, eventsQueue)
        BY <2>1, <2>2, <3>2, <4>1 DEF afterDamage, Lethal
      <4>3. SafeThen
        BY <1>2, <2>3, <2>6, <2>9, <2>10, <4>2, Knowing, StaysSafe
      <4>. QED
        BY <2>6, <4>2, <4>3 DEF stays
    <3>. QED
      BY <3>1, <3>2
  <2>13. /\ 1 \in DOMAIN calls' /\ calls'[1].op = "afterDamages" /\ calls'[1].nested = call.nested
         /\ \A i \in DOMAIN calls' : i # 1 => Plain(calls'[i])
    BY <2>4, <2>6, <2>12 DEF Plain
  <2>14. calls'[1].nested \/ OnlyZoneChanges(eventsQueue')
    BY <1>2, <2>12, <2>13, NoneTold
  <2>. QED
    BY <2>12, <2>13, <2>14, WalkInTurn DEF RThen
<1>. QED
  BY <1>3, <1>4

\* The same creatures are announced by both.
SameReturns(q, r) == \A d, w : Announced(q, d, w) <=> Announced(r, d, w)

LEMMA HeardGoesOn ==
  ASSUME Known, NEW type, Delivers(type), NEW event, event = Head(eventsQueue),
         NEW queue, queue = Tail(eventsQueue)
  PROVE  /\ event \in Events /\ event.type = type /\ queue \in Seq(Events)
         /\ \A d : Hurting(queue, d) => Hurting(eventsQueue, d)
         /\ \A d : Hurts(event, d) => Exposed(calls, eventsQueue, d)
         /\ \A d, w : Announced(queue, d, w) => Announced(eventsQueue, d, w)
         /\ \A d, w : Announced(eventsQueue, d, w) =>
              Announced(queue, d, w) \/ (Announces(event, d) /\ event.with = w)
         /\ \A d, w : Announces(event, d) /\ event.with = w => Announced(eventsQueue, d, w)
         /\ \A d \in Creatures : \A w : Announces(event, d) => ~Announced(queue, d, w)
         /\ Once(queue)
         /\ OnlyZoneChanges(eventsQueue) => OnlyZoneChanges(queue)
         /\ type # "ZoneChange" => AllPlain(calls)
         /\ type # "ZoneChange" => SameReturns(eventsQueue, queue)
<1>1. eventsQueue \in Seq(Events) /\ eventsQueue # <<>> /\ Once(eventsQueue) /\ event.type = type
  BY Knowing DEF Delivers
<1>2. /\ queue \in Seq(Events) /\ eventsQueue[1] \in Events /\ Head(eventsQueue) = eventsQueue[1]
      /\ \A c : Hurting(queue, c) => Hurting(eventsQueue, c)
      /\ \A c, w : Announced(queue, c, w) => Announced(eventsQueue, c, w)
      /\ \A c, w : Announced(eventsQueue, c, w) =>
           Announced(queue, c, w) \/ (Announces(eventsQueue[1], c) /\ eventsQueue[1].with = w)
      /\ Once(eventsQueue) => Once(queue)
      /\ \A c \in Creatures : \A w : Once(eventsQueue) /\ Announces(eventsQueue[1], c) =>
           ~Announced(queue, c, w)
      /\ OnlyZoneChanges(eventsQueue) => OnlyZoneChanges(queue)
  BY <1>1, Heard
<1>3. event = eventsQueue[1]
  BY <1>2
<1>4. 1 \in DOMAIN eventsQueue
  <2>1. /\ Len(eventsQueue) \in Nat /\ DOMAIN eventsQueue = 1..Len(eventsQueue)
        /\ Len(eventsQueue) # 0
    BY <1>1, LenProperties, EmptySeq
  <2>. QED
    BY <2>1
<1>5. \A d : Hurts(event, d) => Exposed(calls, eventsQueue, d)
  BY <1>3, <1>4 DEF Exposed, Hurting
<1>6. \A d, w : Announces(event, d) /\ event.with = w => Announced(eventsQueue, d, w)
  BY <1>3, <1>4 DEF Announced
<1>7. ASSUME type # "ZoneChange" PROVE AllPlain(calls)
  <2>1. calls \in Seq(Calls) /\ InTurn(calls, eventsQueue)
    BY Knowing
  <2>2. CASE calls = <<>>
    BY <2>2 DEF AllPlain
  <2>3. CASE calls # <<>>
    <3>1. ~calls[1].nested
      BY <2>1, <2>3, TailOfCalls DEF Delivers
    <3>2. ~OnlyZoneChanges(eventsQueue)
      BY <1>1, <1>3, <1>4, <1>7 DEF OnlyZoneChanges
    <3>. QED
      BY <2>1, <2>3, <3>1, <3>2 DEF InTurn, AllPlain
  <2>. QED
    BY <2>2, <2>3
<1>8. ASSUME type # "ZoneChange"
      PROVE  SameReturns(eventsQueue, queue)
  BY <1>1, <1>2, <1>3, <1>8 DEF Announces, SameReturns
<1>. QED
  BY <1>1, <1>2, <1>3, <1>5, <1>6, <1>7, <1>8

\* What is heard of is damage, or the end of a damage stack.
LEMMA DamageHeard ==
  ASSUME Known, NEW type, type # "ZoneChange", Delivers(type),
         NEW queue, queue = Tail(eventsQueue)
  PROVE  Once(queue) /\ AllPlain(calls) /\ SameReturns(eventsQueue, queue)
<1>1. PICK event : event = Head(eventsQueue)
  OBVIOUS
<1>2. Once(queue)
  BY <1>1, HeardGoesOn
<1>3. AllPlain(calls)
  BY <1>1, HeardGoesOn
<1>4. SameReturns(eventsQueue, queue)
  BY <1>1, HeardGoesOn
<1>. QED
  BY <1>2, <1>3, <1>4

LEMMA HearDamageThen == ASSUME Known, HearDamage PROVE RThen
<1>1. PICK event, queue : event = Head(eventsQueue) /\ queue = Tail(eventsQueue)
  OBVIOUS
<1>2. Delivers("Damage") /\ returned' = returned
  BY DEF HearDamage
<1>3. /\ event \in Events /\ event.type = "Damage" /\ queue \in Seq(Events) /\ AllPlain(calls)
      /\ \A d : Hurting(queue, d) => Hurting(eventsQueue, d)
      /\ \A d : Hurts(event, d) => Exposed(calls, eventsQueue, d)
      /\ Once(queue)
  <2>1. event \in Events /\ event.type = "Damage" /\ queue \in Seq(Events)
    BY <1>1, <1>2, HeardGoesOn
  <2>2. Once(queue) /\ AllPlain(calls)
    BY <1>1, <1>2, DamageHeard
  <2>3. \A d : Hurting(queue, d) => Hurting(eventsQueue, d)
    BY <1>1, <1>2, HeardGoesOn
  <2>4. \A d : Hurts(event, d) => Exposed(calls, eventsQueue, d)
    BY <1>1, <1>2, HeardGoesOn
  <2>. QED
    BY <2>1, <2>2, <2>3, <2>4
<1>4. \A d, w : Announced(eventsQueue, d, w) <=> Announced(queue, d, w)
  <2>1. SameReturns(eventsQueue, queue)
    BY <1>1, <1>2, DamageHeard
  <2>. QED
    BY <2>1 DEF SameReturns
<1>5. \A d : Exposed(calls, queue, d) => Exposed(calls, eventsQueue, d)
  BY <1>3 DEF Exposed
<1>c. PICK c \in Creatures : c = event.card
  BY <1>3 DEF Events
<1>6. calls \in Seq(Calls)
  BY Knowing
<1>7. CASE event.live /\ event.keyword = "deathtouch"
  <2>1. destroy(c, body[c], calls, queue)
    BY <1>1, <1>c, <1>7 DEF HearDamage
  <2>2. Exposed(calls, eventsQueue, c)
    BY <1>3, <1>c, <1>7 DEF Hurts
  <2>3. c \in inPlay /\ c \notin returned
    BY <2>2, Target
  <2>4. Undisturbed(c, calls, queue)
    <3>1. \A w \in {"no"} \cup Kinds : ~Announced(eventsQueue, c, w)
      BY <2>3 DEF Known, RInv, Pursued
    <3>. QED
      BY <1>3, <1>4, <1>5, <3>1 DEF Undisturbed
  <2>5. NoWalkTo(c, calls) /\ Fate(c, calls, queue)
    BY <1>3, <2>1, NoWalks, Fates
  <2>6. SafeThen /\ calls' \in Seq(Calls) /\ AllPlain(calls')
    BY <1>2, <1>3, <1>6, <2>3, <2>4, <2>5, Knowing, FateSafe
  <2>. QED
    BY <2>6, PlainInTurn DEF RThen
<1>8. CASE ~(event.live /\ event.keyword = "deathtouch")
  <2>1. eventsQueue' = queue /\ calls' = calls /\ UNCHANGED <<inPlay, body, returned>>
    BY <1>1, <1>2, <1>8 DEF HearDamage
  <2>2. SafeThen
    BY <1>3, <1>4, <1>5, <2>1, Knowing, SameSafe
  <2>. QED
    BY <1>3, <1>6, <2>1, <2>2, PlainInTurn DEF RThen
<1>. QED
  BY <1>7, <1>8

LEMMA HearStackResolvedThen == ASSUME Known, HearStackResolved PROVE RThen
<1>1. PICK event, queue : event = Head(eventsQueue) /\ queue = Tail(eventsQueue)
  OBVIOUS
<1>2. Delivers("DamageStackResolved") /\ returned' = returned
  BY DEF HearStackResolved
<1>3. /\ Once(queue) /\ AllPlain(calls)
      /\ \A d : Hurting(queue, d) => Hurting(eventsQueue, d)
  <2>1. Once(queue) /\ AllPlain(calls)
    BY <1>1, <1>2, DamageHeard
  <2>2. \A d : Hurting(queue, d) => Hurting(eventsQueue, d)
    BY <1>1, <1>2, HeardGoesOn
  <2>. QED
    BY <2>1, <2>2
<1>4. \A d, w : Announced(eventsQueue, d, w) <=> Announced(queue, d, w)
  <2>1. SameReturns(eventsQueue, queue)
    BY <1>1, <1>2, DamageHeard
  <2>. QED
    BY <2>1 DEF SameReturns
<1>5. PICK walk, next :
        walk = TestAll({c \in inPlay : body[c].struck}, TRUE) /\ next = <<walk>> \o calls
  OBVIOUS
<1>6. /\ walk \in WalkCalls /\ walk.op = "afterDamages" /\ walk.nested
      /\ walk.left = {c \in inPlay : body[c].struck}
  BY <1>5, Knowing DEF TestAll, WalkCalls
<1>7. walk \in Calls
  BY <1>6 DEF Calls
<1>8. /\ next \in Seq(Calls) /\ next[1] = walk /\ 1 \in DOMAIN next
      /\ \A i \in DOMAIN next : i # 1 => Plain(next[i])
      /\ \A d : Reached(next, d) => Reaches(walk, d) \/ Reached(calls, d)
  BY <1>3, <1>5, <1>7, Knowing, CallBefore
<1>9. eventsQueue' = queue /\ calls' = next /\ UNCHANGED <<inPlay, body, returned>>
  BY <1>1, <1>2, <1>5 DEF HearStackResolved
<1>10. ASSUME NEW d \in Creatures, Exposed(next, queue, d)
       PROVE  Exposed(calls, eventsQueue, d) \/ (d \in inPlay /\ d \notin returned)
  <2>1. CASE Reaches(walk, d)
    <3>1. d \in inPlay /\ body[d].struck
      BY <1>6, <2>1 DEF Reaches
    <3>. QED
      BY <3>1 DEF Known, RInv, Spared
  <2>2. CASE ~Reaches(walk, d)
    BY <1>3, <1>8, <1>10, <2>2 DEF Exposed
  <2>. QED
    BY <2>1, <2>2
<1>11. SafeThen
  BY <1>3, <1>4, <1>9, <1>10, Knowing, SameSafe
<1>. QED
  BY <1>6, <1>8, <1>9, <1>11, WalkInTurn DEF RThen

-----------------------------------------------------------------------------
(* An effect gives its counters.                                            *)

LEMMA EffectInTurn ==
  ASSUME NEW cs \in Seq(Calls), 1 \in DOMAIN cs, cs[1].op = "AACounter", ~cs[1].nested,
         \A i \in DOMAIN cs : i # 1 => Plain(cs[i]), NEW q, OnlyZoneChanges(q)
  PROVE  InTurn(cs, q)
BY DEF InTurn, Plain

\* What is known of the effect whose turn it is.
LEMMA EffectGoesOn ==
  ASSUME Known, Runs("AACounter"), NEW call, call = Head(calls), NEW tail, tail = Tail(calls)
  PROVE  /\ call \in EffectCalls /\ tail \in Seq(Calls) /\ AllPlain(tail)
         /\ call.op = "AACounter" /\ ~call.nested /\ call.card \in Creatures /\ call.kind \in Kinds
         /\ call.nb \in Nat
         /\ \A d : Reached(tail, d) => Reached(calls, d)
         /\ GoesOn(call, returned, inPlay, body, eventsQueue)
         /\ eventsQueue = <<>> /\ OnlyZoneChanges(eventsQueue)
         /\ \A d, w : ~Announced(eventsQueue, d, w)
<1>1. /\ call \in Calls /\ call.op = "AACounter" /\ tail \in Seq(Calls) /\ calls # <<>>
      /\ call = calls[1] /\ AllPlain(tail)
      /\ call.nested \/ eventsQueue = <<>>
  BY HeadGoesOn
<1>2. \A d : Reached(tail, d) => Reached(calls, d)
  BY HeadGoesOn
<1>3. call \in EffectCalls
  BY <1>1, EffectCall
<1>4. InTurn(calls, eventsQueue) /\ Counting(returned, inPlay, body, calls, eventsQueue)
  BY Knowing
<1>5. ~call.nested /\ GoesOn(call, returned, inPlay, body, eventsQueue)
  BY <1>1, <1>4 DEF InTurn, Counting
<1>6. eventsQueue = <<>>
  BY <1>1, <1>5
<1>7. OnlyZoneChanges(eventsQueue) /\ \A d, w : ~Announced(eventsQueue, d, w)
  BY <1>6 DEF OnlyZoneChanges, Announced
<1>. QED
  BY <1>1, <1>2, <1>3, <1>5, <1>6, <1>7 DEF EffectCalls

LEMMA GiveCounterThen == ASSUME Known, GiveCounter PROVE RThen
<1>1. PICK call, tail : call = Head(calls) /\ tail = Tail(calls)
  OBVIOUS
<1>r. Runs("AACounter") /\ returned' = returned /\ returned \subseteq Creatures /\ call.nb > 0
  BY <1>1, Knowing DEF GiveCounter
<1>2. /\ call \in EffectCalls /\ tail \in Seq(Calls) /\ AllPlain(tail)
      /\ call.op = "AACounter" /\ ~call.nested /\ call.card \in Creatures /\ call.kind \in Kinds
      /\ call.nb \in Nat
      /\ \A d : Reached(tail, d) => Reached(calls, d)
      /\ GoesOn(call, returned, inPlay, body, eventsQueue)
      /\ OnlyZoneChanges(eventsQueue)
      /\ \A d, w : ~Announced(eventsQueue, d, w)
  BY <1>1, <1>r, EffectGoesOn
<1>c. PICK c \in Creatures : c = call.card
  BY <1>2
<1>3. PICK n \in 0..1 : n = call.nb - 1
  <2>1. call.nb - 1 \in 0..1
    BY <1>r, <1>2 DEF GoesOn
  <2>. QED
    BY <2>1
<1>4. PICK b, next, rest :
        b = body[c] /\ next = [call EXCEPT !.nb = n, !.live = TRUE] /\ rest = <<next>> \o tail
  OBVIOUS
<1>5. /\ next \in EffectCalls /\ next.op = "AACounter" /\ ~next.nested /\ next.card = c
      /\ next.nb = n /\ next.kind = call.kind /\ next.add = call.add
  <2>1. n \in Nat
    OBVIOUS
  <2>2. call \in EffectCalls /\ ~call.nested /\ c = call.card
    BY <1>2, <1>c
  <2>3. next = [call EXCEPT !.nb = n, !.live = TRUE]
    BY <1>4
  <2>. QED
    BY ONLY <2>1, <2>2, <2>3 DEF EffectCalls
<1>6. next \in Calls
  BY <1>5 DEF Calls
<1>7. /\ rest \in Seq(Calls) /\ rest[1] = next /\ 1 \in DOMAIN rest
      /\ \A i \in DOMAIN rest : i # 1 => Plain(rest[i])
      /\ \A d : Reached(rest, d) => Reached(calls, d)
  <2>1. /\ rest \in Seq(Calls) /\ rest[1] = next /\ 1 \in DOMAIN rest
        /\ \A i \in DOMAIN rest : i # 1 => Plain(rest[i])
        /\ \A d : Reached(rest, d) => Reaches(next, d) \/ Reached(tail, d)
    BY <1>2, <1>4, <1>6, CallBefore
  <2>2. \A d : ~Reaches(next, d)
    BY <1>5 DEF Reaches
  <2>. QED
    BY <1>2, <2>1, <2>2
<1>8. NoWalkTo(c, rest)
  BY <1>5, <1>7 DEF NoWalkTo, Plain
<1>9. ASSUME c \in inPlay PROVE Undisturbed(c, rest, eventsQueue)
  BY <1>7, <1>9, FewerDisturb DEF Exposed
<1>t. Typed /\ Safe /\ eventsQueue \in Seq(Events) /\ b \in Bodies /\ inPlay \subseteq Creatures
  BY <1>4, Knowing DEF Typed
<1>s. c \in returned => ~b.struck /\ ~Exposed(rest, eventsQueue, c)
  BY <1>4, <1>7, <1>t DEF Safe, Spared, Exposed
<1>o. ASSUME c \in returned, c \in inPlay, ~Frail(c)
      PROVE  call.add /\ n = 0 /\ call.nb = 1 /\ Outlives(call, c, b)
  <2>1. call.add /\ call.nb <= 1 /\ Outlives(call, c, b)
    BY <1>2, <1>c, <1>4, <1>o DEF GoesOn
  <2>2. call.nb = 1
    BY <1>2, <1>r, <2>1
  <2>. QED
    BY <1>3, <2>1, <2>2
<1>10. ASSUME NEW x, stays(c, x, rest, eventsQueue), c \in inPlay, c \in returned => ~x.struck,
              c \in returned /\ ~Frail(c) => call.add /\ n = 0 /\ Outlives(next, c, x)
       PROVE  RThen
  <2>1. SafeThen
    BY <1>7, <1>9, <1>10, <1>r, <1>s, <1>t, StaysSafe
  <2>2. /\ calls' = rest /\ eventsQueue' = eventsQueue /\ body'[c] = x
    BY <1>10, <1>t DEF stays, Typed
  <2>3. InTurn(calls', eventsQueue')
    BY <1>2, <1>5, <1>7, <2>2, EffectInTurn
  <2>4. n <= 2 /\ (n = 0 => n <= 1)
    OBVIOUS
  <2>5. GoesOn(next, returned', inPlay', body', eventsQueue')
    BY <1>2, <1>5, <1>10, <1>r, <2>2, <2>4 DEF GoesOn
  <2>6. Counting(returned', inPlay', body', calls', eventsQueue')
    BY <1>7, <2>2, <2>5 DEF Counting
  <2>. QED
    BY <2>1, <2>3, <2>6 DEF RThen
<1>11. ASSUME NEW x, leaves(c, x, rest, eventsQueue), c \in inPlay, call.add,
              c \in returned => Frail(c),
              n = 1 /\ call.kind = "minus" /\ ReturnsWith(c, x) = "minus" => c \in Undying
       PROVE  RThen
  <2>1. /\ SafeThen
        /\ eventsQueue' \in Seq(Events) /\ calls' \in Seq(Calls) /\ DOMAIN calls' = DOMAIN rest
        /\ \A i \in DOMAIN rest :
              /\ calls'[i].op = rest[i].op /\ calls'[i].nested = rest[i].nested
              /\ calls'[i].card = rest[i].card
              /\ rest[i].op = "AACounter" =>
                   /\ calls'[i].nb = rest[i].nb /\ calls'[i].add = rest[i].add
                   /\ calls'[i].kind = rest[i].kind
        /\ OnlyZoneChanges(eventsQueue) => OnlyZoneChanges(eventsQueue')
        /\ \A d \in Creatures, w \in Kinds :
              Announced(eventsQueue', d, w) =>
                (d # c /\ Announced(eventsQueue, d, w)) \/ (d = c /\ w = ReturnsWith(c, x))
    <3>1. Undisturbed(c, rest, eventsQueue)
      BY <1>9, <1>11
    <3>2. returned' \subseteq returned \cup {c} /\ returned' \subseteq Creatures
      BY <1>r
    <3>3. c \in returned' => ReturnsWith(c, x) \in Kinds \/ Frail(c)
      BY <1>11, <1>r
    <3>4. rest \in Seq(Calls) /\ eventsQueue \in Seq(Events)
      BY <1>7, <1>t
    <3>. QED
      BY <1>8, <1>11, <1>t, <3>1, <3>2, <3>3, <3>4, LeavesSafe
  <2>2. PICK first : first = calls'[1]
    OBVIOUS
  <2>3. /\ 1 \in DOMAIN calls' /\ first.op = "AACounter" /\ ~first.nested /\ first.card = c
        /\ first.nb = n /\ first.add /\ first.kind = call.kind
        /\ \A i \in DOMAIN calls' : i # 1 => Plain(calls'[i])
    BY <1>5, <1>7, <1>11, <2>1, <2>2 DEF Plain
  <2>4. InTurn(calls', eventsQueue')
    BY <1>2, <2>1, <2>2, <2>3, EffectInTurn
  <2>5. n <= 2 /\ n <= 1
    OBVIOUS
  <2>6. \A d \in Creatures, w \in Kinds : Announced(eventsQueue', d, w) => Died(first, d, w)
    BY <1>2, <1>11, <2>1, <2>3, <2>5 DEF Died
  <2>7. c \notin inPlay'
    BY <1>11 DEF leaves
  <2>8. GoesOn(first, returned', inPlay', body', eventsQueue')
    BY <2>3, <2>5, <2>6, <2>7 DEF GoesOn
  <2>9. Counting(returned', inPlay', body', calls', eventsQueue')
    BY <2>2, <2>8 DEF Counting
  <2>. QED
    BY <2>1, <2>4, <2>9 DEF RThen
<1>12. CASE c \notin inPlay
  <2>1. calls' = rest /\ UNCHANGED <<inPlay, body, eventsQueue, returned>>
    <3>1. rest = <<[call EXCEPT !.nb = @ - 1, !.live = TRUE]>> \o tail
      BY <1>3, <1>4
    <3>. QED
      BY <1>1, <1>c, <1>12, <1>r, <3>1 DEF GiveCounter
  <2>2. SafeThen
    <3>1. \A d \in Creatures : Exposed(rest, eventsQueue, d) => Exposed(calls, eventsQueue, d)
      BY <1>7 DEF Exposed
    <3>2. Once(eventsQueue)
      BY Knowing
    <3>. QED
      BY <1>r, <1>t, <2>1, <3>1, <3>2, SameSafe
  <2>3. InTurn(calls', eventsQueue')
    BY <1>2, <1>5, <1>7, <2>1, EffectInTurn
  <2>4. n <= 2
    OBVIOUS
  <2>5. GoesOn(next, returned', inPlay', body', eventsQueue')
    BY <1>2, <1>5, <1>12, <2>1, <2>4 DEF GoesOn
  <2>6. Counting(returned', inPlay', body', calls', eventsQueue')
    BY <1>7, <2>1, <2>5 DEF Counting
  <2>. QED
    BY <2>2, <2>3, <2>6 DEF RThen
<1>13. CASE c \in inPlay /\ call.add
  <2>k. PICK kind \in Kinds : kind = call.kind
    BY <1>2
  <2>m. PICK more : more = added(b, kind)
    OBVIOUS
  <2>1. kind \in Kinds /\ kind = call.kind /\ more = added(b, kind)
    BY <2>k, <2>m
  <2>2. addCounter(c, b, kind, rest, eventsQueue)
    <3>1. rest = <<[call EXCEPT !.nb = @ - 1, !.live = TRUE]>> \o tail
      BY <1>3, <1>4
    <3>. QED
      BY <1>1, <1>c, <1>4, <1>13, <2>1, <3>1 DEF GiveCounter
  <2>3. /\ more \in Bodies
        /\ more.life = b.life + Sign(kind) /\ more.marked = b.marked
        /\ more.struck = b.struck
        /\ kind = "minus" => more.plus = b.plus /\ more.minus = b.minus + 1
        /\ more.kinds = b.kinds \cup {kind}
    BY <1>t, <2>1, MoreIs
  <2>4. b.life \in Int /\ b.minus \in Nat /\ (kind = "plus" \/ kind = "minus")
    BY <1>t, BodyTyped DEF Kinds
  \* A body that comes back outlives the counter, if only to come back again.
  <2>5. ASSUME c \in returned, ~Frail(c)
        PROVE  /\ call.add /\ n = 0 /\ more.marked = 0
               /\ more.life > 0 \/ (Both(c) /\ more.plus = 0)
               /\ kind \notin b.kinds => more.life > 0
    <3>1. call.add /\ n = 0 /\ call.nb = 1 /\ Outlives(call, c, b)
      BY <1>o, <1>13, <2>5
    <3>2. CASE kind = "plus"
      BY <2>1, <2>3, <2>4, <3>1, <3>2 DEF Outlives, Sign
    <3>3. CASE kind = "minus"
      <4>1. \/ b.life > 1
            \/ Both(c) /\ b.plus = 0 /\ b.life > 0 /\ "minus" \in b.kinds
        BY <2>1, <3>1, <3>3 DEF Outlives
      <4>2. more.life = b.life - 1
        BY <2>3, <2>4, <3>3 DEF Sign
      <4>. QED
        BY <2>3, <2>4, <3>1, <3>3, <4>1, <4>2 DEF Outlives
    <3>. QED
      BY <2>4, <3>2, <3>3
  <2>6. CASE kind \in b.kinds
    <3>1. stays(c, more, rest, eventsQueue)
      BY <2>1, <2>2, <2>6 DEF addCounter
    <3>2. c \in returned /\ ~Frail(c) => call.add /\ n = 0 /\ Outlives(next, c, more)
      BY <1>5, <2>5 DEF Outlives
    <3>. QED
      BY <1>10, <1>13, <1>s, <2>3, <3>1, <3>2
  <2>7. CASE kind \notin b.kinds
    <3>1. afterDamage(c, more, rest, eventsQueue)
      BY <2>1, <2>2, <2>7 DEF addCounter
    <3>2. c \in returned /\ ~Frail(c) => ~Lethal(more)
      <4>1. more.life \in Int
        BY <2>3, BodyTyped
      <4>. QED
        BY <2>5, <2>7, <4>1 DEF Lethal
    <3>3. CASE Lethal(more) /\ DestroyedBy(c, more)
      <4>1. leaves(c, more, rest, eventsQueue)
        BY <3>1, <3>3 DEF afterDamage
      <4>2. call.kind = "minus" /\ ReturnsWith(c, more) = "minus" => c \in Undying
        <5>1. kind = "minus" => more.minus # 0
          BY <2>3, <2>4
        <5>. QED
          BY <2>1, <5>1 DEF ReturnsWith
      <4>3. c \in returned => Frail(c)
        BY <3>2, <3>3
      <4>. QED
        BY <1>11, <1>13, <4>1, <4>2, <4>3
    <3>4. CASE ~(Lethal(more) /\ DestroyedBy(c, more))
      <4>1. PICK t : t = Tested(more)
        OBVIOUS
      <4>2. stays(c, t, rest, eventsQueue)
        BY <3>1, <3>4, <4>1 DEF afterDamage
      <4>3. /\ t.struck = more.struck /\ t.plus = more.plus
            /\ ~Lethal(more) => t.life = more.life /\ t.marked = more.marked
        BY <2>3, <4>1, TestedIs
      <4>4. c \in returned /\ ~Frail(c) => call.add /\ n = 0 /\ Outlives(next, c, t)
        BY <1>5, <2>5, <3>2, <4>3 DEF Outlives
      <4>. QED
        BY <1>10, <1>13, <1>s, <2>3, <4>2, <4>3, <4>4
    <3>. QED
      BY <3>3, <3>4
  <2>. QED
    BY <2>6, <2>7
<1>14. CASE c \in inPlay /\ ~call.add
  <2>1. PICK less : less = removeCounter(b, call.kind)
    OBVIOUS
  <2>2. stays(c, less, rest, eventsQueue)
    <3>1. rest = <<[call EXCEPT !.nb = @ - 1, !.live = TRUE]>> \o tail
      BY <1>3, <1>4
    <3>. QED
      BY <1>1, <1>c, <1>4, <1>14, <2>1, <3>1 DEF GiveCounter
  <2>3. less.struck = b.struck
    BY <1>2, <1>t, <2>1, LessIs
  <2>. QED
    BY <1>10, <1>14, <1>o, <1>s, <2>2, <2>3
<1>. QED
  BY <1>12, <1>13, <1>14

LEMMA CountersGivenThen == ASSUME Known, CountersGiven PROVE RThen
<1>1. PICK call, rest : call = Head(calls) /\ rest = Tail(calls)
  OBVIOUS
<1>r. Runs("AACounter") /\ returned' = returned /\ returned \subseteq Creatures /\ call.nb = 0
  BY <1>1, Knowing DEF CountersGiven
<1>2. /\ rest \in Seq(Calls) /\ AllPlain(rest) /\ call.card \in Creatures
      /\ \A d : Reached(rest, d) => Reached(calls, d)
      /\ GoesOn(call, returned, inPlay, body, eventsQueue)
  BY <1>1, <1>r, EffectGoesOn
<1>c. PICK c \in Creatures : c = call.card
  BY <1>2
<1>3. PICK old, b, tested, left :
        /\ old = body[c] /\ b = [old EXCEPT !.doDamageTest = TRUE]
        /\ tested = Tested(b) /\ left = cancelCounters(tested)
  OBVIOUS
<1>t. Typed /\ Safe /\ eventsQueue \in Seq(Events) /\ old \in Bodies
  BY <1>3, Knowing DEF Typed
<1>4. CASE ~call.live \/ c \notin inPlay
  <2>1. Pass
    BY <1>1, <1>c, <1>4 DEF CountersGiven
  <2>. QED
    BY <1>r, <2>1, PassThen
<1>5. CASE call.live /\ c \in inPlay
  <2>1. \/ Lethal(b) /\ leaves(c, b, rest, eventsQueue)
        \/ left.toughness <= 0 /\ leaves(c, left, rest, eventsQueue)
        \/ stays(c, left, rest, eventsQueue)
    BY <1>1, <1>3, <1>5, <1>c DEF CountersGiven
  <2>2. /\ b \in Bodies /\ b.struck = old.struck /\ b.life = old.life /\ b.plus = old.plus
        /\ b.toughness = old.toughness
    BY <1>3, <1>t DEF Bodies
  <2>3. /\ tested \in Bodies
        /\ tested.struck = b.struck /\ tested.plus = b.plus /\ tested.toughness = b.toughness
    BY <1>3, <2>2, TestedIs
  <2>4. left.struck = tested.struck /\ left.toughness = tested.toughness /\ (tested.plus = 0 => left.plus = 0)
    BY <1>3, <2>2, <2>3, CancelledIs
  <2>5. Undisturbed(c, rest, eventsQueue) /\ NoWalkTo(c, rest)
    BY <1>2, <1>5, FewerDisturb, NoWalks DEF Exposed
  <2>6. returned' \subseteq returned \cup {c} /\ returned' \subseteq Creatures
    BY <1>r
  <2>7. c \in returned' => ~left.struck /\ ~Exposed(rest, eventsQueue, c)
    BY <1>2, <1>3, <1>r, <1>t, <2>2, <2>3, <2>4 DEF Safe, Spared, Exposed
  \* The body that came back does not die now, unless it comes back again.
  <2>8. ASSUME c \in returned, ~Frail(c)
        PROVE  (old.life > 0 /\ old.toughness > 0) \/ (c \in Persisting /\ c \in Undying /\ old.plus = 0)
    <3>1. Outlives(call, c, old)
      BY <1>2, <1>3, <1>5, <1>c, <2>8 DEF GoesOn
    <3>2. old.marked = 0 /\ (old.life > 0 \/ (Both(c) /\ old.plus = 0))
      BY <1>r, <3>1 DEF Outlives
    <3>3. old.life = old.toughness - old.marked /\ old.toughness \in Int
      BY <1>3, <1>t, BodyTyped DEF Known, Kept, Good, AddsUp
    <3>. QED
      BY <3>2, <3>3 DEF Both
  <2>9. ASSUME NEW x, leaves(c, x, rest, eventsQueue),
               c \in returned /\ ~Frail(c) => c \in Persisting /\ c \in Undying /\ x.plus = 0
        PROVE  RThen
    <3>1. c \in returned' => ReturnsWith(c, x) \in Kinds \/ Frail(c)
      BY <1>r, <2>9 DEF ReturnsWith, Kinds
    <3>2. SafeThen /\ calls' \in Seq(Calls) /\ AllPlain(calls')
      BY <1>2, <1>t, <2>5, <2>6, <2>9, <3>1, LeavesSafe
    <3>. QED
      BY <3>2, PlainInTurn DEF RThen
  <2>10. CASE Lethal(b) /\ leaves(c, b, rest, eventsQueue)
    <3>1. ~(old.life > 0)
      <4>1. old.life \in Int
        BY <1>t, BodyTyped
      <4>. QED
        BY <2>2, <2>10, <4>1 DEF Lethal
    <3>. QED
      BY <2>2, <2>8, <2>9, <2>10, <3>1
  <2>11. CASE left.toughness <= 0 /\ leaves(c, left, rest, eventsQueue)
    <3>1. ~(old.toughness > 0)
      <4>1. old.toughness \in Int
        BY <1>t, BodyTyped
      <4>. QED
        BY <2>2, <2>3, <2>4, <2>11, <4>1
    <3>. QED
      BY <2>2, <2>3, <2>4, <2>8, <2>9, <2>11, <3>1
  <2>12. CASE stays(c, left, rest, eventsQueue)
    <3>1. SafeThen
      BY <1>2, <1>t, <2>5, <2>6, <2>7, <2>12, StaysSafe
    <3>2. calls' = rest
      BY <2>12 DEF stays
    <3>. QED
      BY <1>2, <3>1, <3>2, PlainInTurn DEF RThen
  <2>. QED
    BY <2>1, <2>10, <2>11, <2>12
<1>. QED
  BY <1>4, <1>5

-----------------------------------------------------------------------------
(* A creature comes back.                                                   *)

LEMMA FirstOf ==
  ASSUME NEW cs \in Seq(Calls)
  PROVE  cs # <<>> <=> 1 \in DOMAIN cs
<1>1. Len(cs) \in Nat /\ DOMAIN cs = 1..Len(cs) /\ (Len(cs) = 0 <=> cs = <<>>)
  BY LenProperties, EmptySeq
<1>. QED
  BY <1>1

LEMMA SameInTurn ==
  ASSUME NEW cs \in Seq(Calls), NEW out \in Seq(Calls), DOMAIN out = DOMAIN cs,
         \A i \in DOMAIN cs : out[i].op = cs[i].op /\ out[i].nested = cs[i].nested,
         NEW q, NEW r, InTurn(cs, q), OnlyZoneChanges(q) => OnlyZoneChanges(r)
  PROVE  InTurn(out, r)
<1>1. /\ cs # <<>> <=> 1 \in DOMAIN cs
      /\ out # <<>> <=> 1 \in DOMAIN out
  BY FirstOf
<1>2. \A i \in DOMAIN out : i # 1 => Plain(out[i])
  BY DEF InTurn, Plain
<1>3. out # <<>> /\ out[1].op = "AACounter" => ~out[1].nested
  BY <1>1 DEF InTurn
<1>4. out # <<>> /\ ~Plain(out[1]) /\ ~out[1].nested => OnlyZoneChanges(r)
  BY <1>1 DEF InTurn, Plain
<1>. QED
  BY <1>2, <1>3, <1>4 DEF InTurn

LEMMA HearZoneChangeThen == ASSUME Known, HearZoneChange PROVE RThen
<1>1. PICK event, queue : event = Head(eventsQueue) /\ queue = Tail(eventsQueue)
  OBVIOUS
<1>d. Delivers("ZoneChange")
  BY DEF HearZoneChange
<1>2. /\ event \in Events /\ event.type = "ZoneChange" /\ queue \in Seq(Events) /\ Once(queue)
      /\ OnlyZoneChanges(eventsQueue) => OnlyZoneChanges(queue)
  BY <1>1, <1>d, HeardGoesOn
<1>3. \A d : Hurting(queue, d) => Hurting(eventsQueue, d)
  BY <1>1, <1>d, HeardGoesOn
<1>4. \A d, w : Announced(queue, d, w) => Announced(eventsQueue, d, w)
  BY <1>1, <1>d, HeardGoesOn
<1>5. \A d, w : Announced(eventsQueue, d, w) =>
        Announced(queue, d, w) \/ (Announces(event, d) /\ event.with = w)
  BY <1>1, <1>d, HeardGoesOn
<1>6. \A d, w : Announces(event, d) /\ event.with = w => Announced(eventsQueue, d, w)
  BY <1>1, <1>d, HeardGoesOn
<1>7. \A d \in Creatures : \A w : Announces(event, d) => ~Announced(queue, d, w)
  BY <1>1, <1>d, HeardGoesOn
<1>c. PICK c \in Creatures, with \in {"no"} \cup Kinds : c = event.card /\ with = event.with
  BY <1>2 DEF Events
<1>k. /\ Typed /\ Safe /\ returned \subseteq Creatures /\ calls \in Seq(Calls)
      /\ InTurn(calls, eventsQueue) /\ Counting(returned, inPlay, body, calls, eventsQueue)
      /\ inPlay \subseteq Creatures
  BY Knowing
<1>x. \A d : Exposed(calls, queue, d) => Exposed(calls, eventsQueue, d)
  BY <1>3 DEF Exposed
<1>8. CASE ~(event.live /\ event.with # "no")
  <2>1. eventsQueue' = queue /\ UNCHANGED <<inPlay, body, calls, returned>>
    BY <1>1, <1>8 DEF HearZoneChange
  <2>2. \A d \in Creatures, w \in Kinds : Announced(eventsQueue, d, w) => Announced(queue, d, w)
    BY <1>5, <1>8 DEF Announces, Kinds
  <2>3. SafeThen
    BY <1>2, <1>4, <1>k, <1>x, <2>1, <2>2, SameSafe
  <2>4. InTurn(calls', eventsQueue')
    BY <1>2, <1>k, <2>1 DEF InTurn
  <2>5. Counting(returned', inPlay', body', calls', eventsQueue')
    BY <1>4, <1>k, <2>1 DEF Counting, GoesOn
  <2>. QED
    BY <2>3, <2>4, <2>5 DEF RThen
<1>9. CASE event.live /\ event.with # "no"
  <2>r. returned' = returned \cup {c} /\ with \in Kinds
    <3>1. returned' = returned \cup {c}
      BY <1>1, <1>9, <1>c DEF HearZoneChange
    <3>. QED
      BY <1>c, <1>9, <3>1
  <2>1. Announces(event, c) /\ Announced(eventsQueue, c, with)
    <3>1. Announces(event, c)
      BY <1>2, <1>c, <1>9 DEF Announces
    <3>. QED
      BY <1>6, <1>c, <3>1
  <2>2. /\ c \notin inPlay /\ ~Exposed(calls, eventsQueue, c)
        /\ with = "minus" => c \in Persisting
    BY <1>c, <1>k, <2>1 DEF Safe, Pursued
  <2>3. ~Exposed(calls, queue, c) /\ NoWalkTo(c, calls)
    BY <1>x, <2>2 DEF Exposed, Reached, Reaches, NoWalkTo
  <2>4. Undisturbed(c, calls, queue)
    <3>1. \A d, w : d # c => (Announced(queue, d, w) <=> Announced(eventsQueue, d, w))
      BY <1>4, <1>5, <1>c DEF Announces
    <3>2. \A w : ~Announced(queue, c, w)
      BY <1>7, <2>1
    <3>. QED
      BY <1>2, <1>x, <3>1, <3>2 DEF Undisturbed
  <2>5. PICK new, more : new = Printed(c) /\ more = added(new, with)
    OBVIOUS
  <2>6. /\ new \in Bodies /\ new.life = Toughness[c] /\ new.marked = 0 /\ ~new.struck
        /\ new.kinds = {} /\ new.plus = 0 /\ new.minus = 0
        /\ Toughness[c] \in Nat /\ Toughness[c] # 0
    BY <2>5, PrintedGood, ConstantsAssumption DEF Good, Printed
  <2>7. /\ more \in Bodies /\ more.life = Toughness[c] + Sign(with) /\ more.marked = 0
        /\ ~more.struck
        /\ with = "minus" => more.plus = 0
        /\ more.kinds = {with}
    BY <2>r, <2>5, <2>6, MoreIs
  <2>8. afterDamage(c, more, calls, queue)
    <3>1. addCounter(c, new, with, calls, queue)
      BY <1>1, <1>9, <1>c, <2>5 DEF HearZoneChange
    <3>2. with \notin new.kinds
      BY <2>6
    <3>. QED
      BY <2>5, <3>1, <3>2 DEF addCounter
  \* It does not die of the counter, unless it is frail.
  <2>9. ASSUME ~Frail(c)
        PROVE  ~Lethal(more) /\ more.life > 0 /\ (with = "plus" => more.life > 1)
    <3>1. CASE with = "plus"
      BY <2>6, <2>7, <3>1 DEF Sign, Lethal
    <3>2. CASE with = "minus"
      <4>1. Toughness[c] # 1
        BY <2>2, <2>9, <3>2 DEF Frail
      <4>. QED
        BY <2>6, <2>7, <3>2, <4>1 DEF Sign, Lethal
    <3>. QED
      BY <2>r, <3>1, <3>2 DEF Kinds
  <2>10. returned' \subseteq returned \cup {c} /\ returned' \subseteq Creatures
    BY <1>k, <2>r
  \* The counters of an effect that go on to it.
  <2>11. ASSUME calls # <<>>, calls[1].op = "AACounter"
         PROVE  /\ GoesOn(calls[1], returned, inPlay, body, eventsQueue)
                /\ Died(calls[1], c, with)
    <3>1. GoesOn(calls[1], returned, inPlay, body, eventsQueue)
      BY <1>k, <2>11 DEF Counting
    <3>. QED
      BY <2>r, <2>1, <3>1 DEF GoesOn
  <2>12. CASE Lethal(more) /\ DestroyedBy(c, more)
    <3>1. leaves(c, more, calls, queue)
      BY <2>8, <2>12 DEF afterDamage
    <3>2. Frail(c)
      BY <2>9, <2>12
    <3>w. with = "minus"
      <4>1. with = "plus" => more.life > 0
        BY <2>6, <2>7 DEF Sign
      <4>2. ~(more.life > 0)
        BY <2>6, <2>7, <2>12, BodyTyped DEF Lethal
      <4>. QED
        BY <2>r, <4>1, <4>2 DEF Kinds
    <3>3. /\ SafeThen
          /\ calls' \in Seq(Calls) /\ DOMAIN calls' = DOMAIN calls
          /\ \A i \in DOMAIN calls :
                /\ calls'[i].op = calls[i].op /\ calls'[i].nested = calls[i].nested
                /\ calls'[i].card = calls[i].card
                /\ calls[i].op = "AACounter" =>
                     /\ calls'[i].nb = calls[i].nb /\ calls'[i].add = calls[i].add
                     /\ calls'[i].kind = calls[i].kind
          /\ OnlyZoneChanges(queue) => OnlyZoneChanges(eventsQueue')
          /\ \A d \in Creatures, w \in Kinds :
                Announced(eventsQueue', d, w) =>
                  (d # c /\ Announced(eventsQueue, d, w)) \/ (d = c /\ w = ReturnsWith(c, more))
      <4>1. c \in returned' => ReturnsWith(c, more) \in Kinds \/ Frail(c)
        BY <3>2
      <4>2. calls \in Seq(Calls) /\ queue \in Seq(Events) /\ Typed /\ Safe
        BY <1>2, <1>k
      <4>. QED
        BY <2>3, <2>4, <2>10, <3>1, <4>1, <4>2, LeavesSafe
    <3>4. InTurn(calls', eventsQueue')
      <4>1. OnlyZoneChanges(eventsQueue) => OnlyZoneChanges(eventsQueue')
        BY <1>2, <3>3
      <4>. QED
        BY <1>k, <3>3, <4>1, SameInTurn
    <3>5. ASSUME calls' # <<>>, calls'[1].op = "AACounter"
          PROVE  GoesOn(calls'[1], returned', inPlay', body', eventsQueue')
      <4>1. PICK call, first : call = calls[1] /\ first = calls'[1]
        OBVIOUS
      <4>2. /\ calls # <<>> /\ 1 \in DOMAIN calls
        BY <1>k, <3>3, <3>5, FirstOf
      <4>3. /\ call.op = "AACounter" /\ first.card = call.card
            /\ first.nb = call.nb /\ first.add = call.add /\ first.kind = call.kind
        BY <3>3, <3>5, <4>1, <4>2
      <4>4. GoesOn(call, returned, inPlay, body, eventsQueue) /\ Died(call, c, with)
        BY <2>11, <4>1, <4>2, <4>3
      <4>5. first.nb <= 2
        BY <4>3, <4>4 DEF GoesOn
      <4>6. ASSUME NEW d \in Creatures, NEW w \in Kinds, Announced(eventsQueue', d, w)
            PROVE  Died(first, d, w)
        <5>1. CASE d # c
          <6>1. Died(call, d, w)
            BY <3>3, <4>4, <4>6, <5>1 DEF GoesOn
          <6>. QED
            BY <4>3, <6>1 DEF Died
        <5>2. CASE d = c
          BY <3>w, <4>3, <4>4, <5>2 DEF Died
        <5>. QED
          BY <5>1, <5>2
      <4>7. first.card = c
        BY <4>3, <4>4 DEF Died
      <4>8. c \notin inPlay'
        BY <3>1 DEF leaves
      <4>. QED
        BY <4>1, <4>5, <4>6, <4>7, <4>8 DEF GoesOn
    <3>. QED
      BY <3>3, <3>4, <3>5 DEF RThen, Counting
  <2>13. CASE ~(Lethal(more) /\ DestroyedBy(c, more))
    <3>1. PICK t : t = Tested(more)
      OBVIOUS
    <3>2. stays(c, t, calls, queue)
      BY <2>8, <2>13, <3>1 DEF afterDamage
    <3>3. /\ ~t.struck /\ t.plus = more.plus /\ t.kinds = more.kinds
          /\ ~Lethal(more) => t.life = more.life /\ t.marked = more.marked
      BY <2>7, <3>1, TestedIs
    <3>4. SafeThen
      <4>1. c \in returned' => ~Exposed(calls, queue, c) /\ ~t.struck
        BY <2>3, <3>3
      <4>. QED
        BY <1>2, <1>k, <2>4, <2>10, <3>2, <4>1, StaysSafe
    <3>5. calls' = calls /\ eventsQueue' = queue /\ body'[c] = t
      BY <1>k, <3>2 DEF stays, Typed
    <3>6. InTurn(calls', eventsQueue')
      BY <1>2, <1>k, <3>5 DEF InTurn
    <3>7. ASSUME calls # <<>>, calls[1].op = "AACounter"
          PROVE  GoesOn(calls[1], returned', inPlay', body', eventsQueue')
      <4>1. PICK call : call = calls[1]
        OBVIOUS
      <4>2. GoesOn(call, returned, inPlay, body, eventsQueue) /\ Died(call, c, with)
        BY <2>11, <3>7, <4>1
      <4>3. call.card = c /\ call.add /\ call.nb <= 1
        BY <4>2 DEF Died
      <4>4. ASSUME ~Frail(c) PROVE Outlives(call, c, t)
        <5>1. /\ t.life = more.life /\ t.marked = 0 /\ more.life > 0
              /\ with = "plus" => t.life > 1
          BY <2>7, <2>9, <3>3, <4>4
        <5>2. ASSUME call.nb # 0, call.kind = "minus"
              PROVE  t.life > 1 \/ (Both(c) /\ t.plus = 0 /\ t.life > 0 /\ "minus" \in t.kinds)
          <6>1. CASE with = "plus"
            BY <5>1, <6>1
          <6>2. CASE with = "minus"
            <7>1. calls \in Seq(Calls) /\ 1 \in DOMAIN calls
              BY <1>k, <3>7, FirstOf
            <7>2. call \in EffectCalls
              BY <3>7, <4>1, <7>1, CallOf, EffectCall
            <7>3. call.nb = 1
              BY <4>3, <5>2, <7>2 DEF EffectCalls
            <7>4. c \in Undying
              BY <4>2, <5>2, <6>2, <7>3 DEF Died
            <7>. QED
              BY <2>2, <2>7, <3>3, <5>1, <6>2, <7>4 DEF Both
          <6>. QED
            BY <2>r, <6>1, <6>2 DEF Kinds
        <5>. QED
          BY <5>1, <5>2 DEF Outlives
      <4>5. \A d \in Creatures, w \in Kinds : Announced(eventsQueue', d, w) => Died(call, d, w)
        BY <1>4, <3>5, <4>2 DEF GoesOn
      <4>6. call.nb <= 2
        BY <4>2 DEF GoesOn
      <4>. QED
        BY <3>5, <4>1, <4>3, <4>4, <4>5, <4>6 DEF GoesOn
    <3>. QED
      BY <3>4, <3>5, <3>6, <3>7 DEF RThen, Counting
  <2>. QED
    BY <2>12, <2>13
<1>. QED
  BY <1>8, <1>9

-----------------------------------------------------------------------------
(* Effects begin when nothing is under way.                                 *)

LEMMA FreshThen ==
  ASSUME returned' = {}, eventsQueue' = <<>>, calls' \in Seq(Calls),
         \A d \in Creatures : Reached(calls', d) => d \in inPlay',
         InTurn(calls', eventsQueue'),
         calls' # <<>> /\ calls'[1].op = "AACounter" => calls'[1].nb <= 2
  PROVE  RThen
<1>1. \A d, w : ~Announced(eventsQueue', d, w) /\ ~Hurting(eventsQueue', d)
  BY DEF Announced, Hurting
<1>2. Once(eventsQueue')
  BY DEF Once
<1>3. Pursued(inPlay', calls', eventsQueue')
  BY <1>1, <1>2 DEF Pursued, Exposed
<1>4. Spared(returned', inPlay', body', calls', eventsQueue')
  BY DEF Spared
<1>5. Counting(returned', inPlay', body', calls', eventsQueue')
  BY <1>1 DEF Counting, GoesOn
<1>. QED
  BY <1>3, <1>4, <1>5 DEF RThen, SafeThen

\* Nothing is left to be done.
LEMMA EmptyThen ==
  ASSUME returned' = {}, eventsQueue' = <<>>, calls' = <<>>
  PROVE  RThen
<1>1. calls' \in Seq(Calls) /\ AllPlain(calls') /\ \A d : ~Reached(calls', d)
  BY EmptyTyped DEF AllPlain, Reached
<1>2. InTurn(calls', eventsQueue')
  BY <1>1, PlainInTurn
<1>. QED
  BY <1>1, <1>2, FreshThen

\* What an effect does at once.
LEMMA EffectThen ==
  ASSUME Known, Begins, NEW c \in Creatures, Fate(c, <<>>, <<>>) PROVE RThen
<1>1. Idle /\ returned' = {}
  BY DEF Begins
<1>2. CASE \E x : stays(c, x, <<>>, <<>>)
  BY <1>1, <1>2, EmptyThen DEF stays
<1>3. CASE \E x : leaves(c, x, <<>>, <<>>)
  <2>1. PICK rest \in Seq(Calls), queue \in Seq(Events) : rest = <<>> /\ queue = <<>>
    BY EmptyTyped
  <2>2. PICK x : leaves(c, x, rest, queue)
    BY <1>3, <2>1
  <2>3. calls = <<>> /\ eventsQueue = <<>>
    BY <1>1 DEF Idle
  <2>4. Undisturbed(c, rest, queue)
    BY <2>1, <2>3 DEF Undisturbed, Exposed, Reached, Hurting, Announced, Once
  <2>5. NoWalkTo(c, rest) /\ AllPlain(rest)
    BY <2>1 DEF NoWalkTo, AllPlain
  <2>6. returned' \subseteq returned \cup {c} /\ returned' \subseteq Creatures /\ c \notin returned'
    BY <1>1
  <2>7. SafeThen /\ calls' \in Seq(Calls) /\ AllPlain(calls')
    BY <2>2, <2>4, <2>5, <2>6, Knowing, LeavesSafe
  <2>. QED
    BY <2>7, PlainInTurn DEF RThen
<1>. QED
  BY <1>2, <1>3 DEF Fate

LEMMA OnesThen ==
  ASSUME Known, NEW c \in Creatures,
         \/ Pump(c) \/ Weaken(c) \/ Regenerate(c) \/ Prevent(c) \/ Choose(c)
         \/ DestroyCard(c) \/ BuryCard(c)
  PROVE  RThen
<1>1. Begins
  BY DEF Pump, Weaken, Regenerate, Prevent, Choose, DestroyCard, BuryCard
<1>2. Fate(c, <<>>, <<>>)
  <2>1. CASE DestroyCard(c)
    BY <2>1, Fates DEF DestroyCard
  <2>2. CASE Pump(c) \/ Weaken(c) \/ Regenerate(c) \/ Prevent(c) \/ Choose(c) \/ BuryCard(c)
    <3>1. (\E x : stays(c, x, <<>>, <<>>)) \/ \E x : leaves(c, x, <<>>, <<>>)
      BY <2>2 DEF Pump, Weaken, Regenerate, Prevent, Choose, BuryCard
    <3>. QED
      BY <3>1 DEF Fate
  <2>. QED
    BY <2>1, <2>2
<1>. QED
  BY <1>1, <1>2, EffectThen

LEMMA CombatDamageThen ==
  ASSUME Known, NEW hits \in Seq(Creatures \X Keywords \X Nat), CombatDamage(hits)
  PROVE  RThen
<1>1. PICK dealt, end, last, both :
        /\ dealt = [i \in DOMAIN hits |-> Damage(hits[i][1], hits[i][2], hits[i][3], TRUE)]
        /\ end = [op |-> "DamageStackResolved", card |-> "none", live |-> TRUE, nested |-> TRUE]
        /\ last = <<end>> /\ both = dealt \o last
  OBVIOUS
<1>2. /\ calls' = both /\ returned' = {} /\ eventsQueue' = <<>> /\ inPlay' = inPlay
      /\ \A i \in DOMAIN hits : hits[i][1] \in inPlay
  BY <1>1 DEF CombatDamage, Begins, Idle, CanBeHurt
<1>3. dealt \in Seq(Calls)
  <2>1. PICK n \in Nat : DOMAIN hits = 1..n /\ hits \in [1..n -> Creatures \X Keywords \X Nat]
    <3>1. Len(hits) \in Nat /\ DOMAIN hits = 1..Len(hits)
          /\ hits \in [1..Len(hits) -> Creatures \X Keywords \X Nat]
      BY LenProperties
    <3>. QED
      BY <3>1
  <2>2. ASSUME NEW i \in 1..n PROVE Damage(hits[i][1], hits[i][2], hits[i][3], TRUE) \in Calls
    <3>1. hits[i] \in Creatures \X Keywords \X Nat
      BY <2>1
    <3>2. hits[i][1] \in Creatures /\ hits[i][2] \in Keywords /\ hits[i][3] \in Nat
      BY <3>1
    <3>. QED
      BY <3>2, DamageTyped
  <2>3. dealt \in [1..n -> Calls]
    BY <1>1, <2>1, <2>2
  <2>. QED
    BY <2>3 DEF Seq
<1>4. /\ AllPlain(dealt)
      /\ \A d : Reached(dealt, d) => d \in inPlay
  <2>1. \A i \in DOMAIN dealt : dealt[i].op = "Damage" /\ dealt[i].card \in inPlay
    BY <1>1, <1>2 DEF Damage
  <2>. QED
    BY <2>1 DEF AllPlain, Plain, Reached, Reaches
<1>5. end \in Calls /\ end.op = "DamageStackResolved"
  BY <1>1 DEF Calls, StackCalls
<1>6. last \in Seq(Calls) /\ AllPlain(last) /\ \A d : ~Reached(last, d)
  BY <1>1, <1>5 DEF AllPlain, Plain, Reached, Reaches
<1>7. /\ both \in Seq(Calls) /\ AllPlain(both)
      /\ \A d : Reached(both, d) => Reached(dealt, d) \/ Reached(last, d)
  BY <1>1, <1>3, <1>4, <1>6, CallsBefore
<1>8. InTurn(both, <<>>) /\ \A ret, play, bodies, q : Counting(ret, play, bodies, both, q)
  BY <1>7, PlainInTurn
<1>9. both # <<>> /\ both[1].op = "AACounter" => both[1].nb <= 2
  BY <1>7, FirstOf DEF AllPlain, Plain
<1>. QED
  BY <1>2, <1>4, <1>6, <1>7, <1>8, <1>9, FreshThen

LEMMA DamageSpellThen ==
  ASSUME Known, NEW c \in Creatures, NEW keyword \in Keywords, NEW amount \in Nat,
         DamageSpell(c, keyword, amount)
  PROVE  RThen
<1>1. PICK damage, test :
        /\ damage = Damage(c, keyword, amount, FALSE)
        /\ test = [op |-> "afterDamage", card |-> c, live |-> TRUE, nested |-> FALSE]
  OBVIOUS
<1>2. damage \in Calls /\ damage.op = "Damage" /\ damage.card = c
  BY <1>1, DamageTyped DEF Damage
<1>3. test \in TestCalls /\ test.op = "afterDamage" /\ test.card = c
  BY <1>1 DEF TestCalls
<1>4. test \in Calls
  BY <1>3 DEF Calls
<1>5. PICK cs : cs = <<damage, test>>
  OBVIOUS
<1>6. cs \in Seq(Calls) /\ DOMAIN cs = {1, 2} /\ cs[1] = damage /\ cs[2] = test
  BY <1>2, <1>4, <1>5
<1>7. AllPlain(cs) /\ \A d : Reached(cs, d) => d = c
  BY <1>2, <1>3, <1>6 DEF AllPlain, Plain, Reached, Reaches
<1>8. calls' = cs /\ returned' = {} /\ eventsQueue' = <<>> /\ inPlay' = inPlay /\ c \in inPlay
  BY <1>1, <1>5 DEF DamageSpell, Begins, Idle, CanBeHurt
<1>9. InTurn(cs, <<>>)
  BY <1>6, <1>7, PlainInTurn
<1>10. cs[1].op # "AACounter"
  BY <1>2, <1>6
<1>. QED
  BY <1>6, <1>7, <1>8, <1>9, <1>10, FreshThen

LEMMA CounterSpellThen ==
  ASSUME Known, NEW c \in Creatures, NEW kind \in Kinds, NEW add \in BOOLEAN, NEW nb \in 1..2,
         CounterSpell(c, kind, add, nb)
  PROVE  RThen
<1>1. PICK call, cs : call = [op |-> "AACounter", card |-> c, live |-> TRUE, nested |-> FALSE,
                              kind |-> kind, add |-> add, nb |-> nb] /\ cs = <<call>>
  OBVIOUS
<1>2. call \in EffectCalls /\ call.op = "AACounter" /\ ~call.nested /\ call.nb = nb
  <2>1. nb \in Nat
    OBVIOUS
  <2>. QED
    BY <1>1, <2>1 DEF EffectCalls
<1>3. call \in Calls
  BY <1>2 DEF Calls
<1>4. cs \in Seq(Calls) /\ DOMAIN cs = {1} /\ cs[1] = call
  BY <1>1, <1>3
<1>5. \A d : ~Reached(cs, d)
  BY <1>2, <1>4 DEF Reached, Reaches
<1>6. calls' = cs /\ returned' = {} /\ eventsQueue' = <<>>
  BY <1>1 DEF CounterSpell, Begins, Idle
<1>7. InTurn(cs, <<>>)
  BY <1>2, <1>4, NoneTold, EffectInTurn
<1>8. nb <= 2
  OBVIOUS
<1>. QED
  BY <1>2, <1>4, <1>5, <1>6, <1>7, <1>8, FreshThen

LEMMA StateBasedThen == ASSUME Known, StateBased PROVE RThen
<1>1. PICK walk : walk = TestAll(inPlay, FALSE)
  OBVIOUS
<1>l. PICK cs : cs = <<walk>>
  OBVIOUS
<1>2. walk \in WalkCalls /\ walk.op = "afterDamages" /\ walk.left = inPlay
  BY <1>1, Knowing DEF TestAll, WalkCalls
<1>3. walk \in Calls
  BY <1>2 DEF Calls
<1>4. cs \in Seq(Calls) /\ DOMAIN cs = {1} /\ cs[1] = walk
  BY <1>3, <1>l
<1>5. \A d : Reached(cs, d) => d \in inPlay
  BY <1>2, <1>4 DEF Reached, Reaches
<1>6. calls' = cs /\ returned' = {} /\ eventsQueue' = <<>> /\ inPlay' = inPlay
  BY <1>1, <1>l DEF StateBased, Begins, Idle
<1>7. InTurn(cs, <<>>)
  BY <1>2, <1>4, NoneTold, WalkInTurn
<1>. QED
  BY <1>2, <1>4, <1>5, <1>6, <1>7, FreshThen

LEMMA EffectsThen == ASSUME Known, Effect PROVE RThen
<1>1. CASE \E h \in Hits : CombatDamage(<<h>>) \/ \E g \in Hits : CombatDamage(<<h, g>>)
  <2>1. PICK h \in Hits : CombatDamage(<<h>>) \/ \E g \in Hits : CombatDamage(<<h, g>>)
    BY <1>1
  <2>2. h \in Creatures \X Keywords \X Nat
    BY HitsTyped
  <2>3. CASE CombatDamage(<<h>>)
    <3>1. <<h>> \in Seq(Creatures \X Keywords \X Nat)
      BY <2>2
    <3>. QED
      BY <2>3, <3>1, CombatDamageThen
  <2>4. CASE \E g \in Hits : CombatDamage(<<h, g>>)
    <3>1. PICK g \in Hits : CombatDamage(<<h, g>>)
      BY <2>4
    <3>2. g \in Creatures \X Keywords \X Nat
      BY HitsTyped
    <3>3. <<h, g>> \in Seq(Creatures \X Keywords \X Nat)
      BY <2>2, <3>2
    <3>. QED
      BY <3>1, <3>3, CombatDamageThen
  <2>. QED
    BY <2>1, <2>3, <2>4
<1>2. ASSUME NEW c \in Creatures, NEW keyword \in Keywords, NEW amount \in 1..2,
             DamageSpell(c, keyword, amount)
      PROVE  RThen
  <2>1. amount \in Nat
    OBVIOUS
  <2>. QED
    BY <1>2, <2>1, DamageSpellThen
<1>3. ASSUME NEW c \in Creatures, NEW kind \in Kinds, NEW add \in BOOLEAN, NEW nb \in 1..2,
             CounterSpell(c, kind, add, nb)
      PROVE  RThen
  BY <1>3, CounterSpellThen
<1>4. ASSUME NEW c \in Creatures,
             \/ Pump(c) \/ Weaken(c) \/ Regenerate(c) \/ Prevent(c) \/ Choose(c)
             \/ DestroyCard(c) \/ BuryCard(c)
      PROVE  RThen
  BY <1>4, OnesThen
<1>. QED
  BY <1>1, <1>2, <1>3, <1>4 DEF Effect

LEMMA WorkThen == ASSUME Known, Work PROVE RThen
BY ResolveDamageThen, AddCounterThen, RemoveCounterThen, WitheredThen, GiveCounterThen,
   CountersGivenThen, TestTargetThen, TestEachThen, StackResolvedThen, HearDamageThen,
   HearStackResolvedThen, HearZoneChangeThen DEF Work

LEMMA NextThen == ASSUME Known, [Next]_vars PROVE RThen
<1>1. CASE Effect \/ Work \/ StateBased
  BY <1>1, EffectsThen, WorkThen, StateBasedThen
<1>2. CASE ResetDamage \/ EndTurn
  BY <1>2, EmptyThen DEF ResetDamage, EndTurn, PhaseCanEnd, Idle
<1>3. CASE UNCHANGED vars
  BY <1>3 DEF Known, RInv, RThen, SafeThen, vars
<1>. QED
  BY <1>1, <1>2, <1>3 DEF Next

LEMMA InitSpares == Init => RInv
<1>. SUFFICES ASSUME Init PROVE RInv
  OBVIOUS
<1>1. calls = <<>> /\ eventsQueue = <<>> /\ returned = {}
  BY DEF Init
<1>2. Pursued(inPlay, calls, eventsQueue)
  BY <1>1 DEF Pursued, Exposed, Reached, Hurting, Announced, Once
<1>3. InTurn(calls, eventsQueue) /\ Counting(returned, inPlay, body, calls, eventsQueue)
  BY <1>1 DEF InTurn, Counting
<1>4. Spared(returned, inPlay, body, calls, eventsQueue)
  BY <1>1 DEF Spared
<1>. QED
  BY <1>2, <1>3, <1>4 DEF RInv

\* What comes back in an effect is not reached by anything that was under way
\* for the object that died: neither by the damage and the tests that were to
\* come (ActionStack::resolve, DamageStack::receiveEvent), nor by deathtouch
\* (MTGDeathtouchRule), nor does an effect of counters that goes on to the new
\* object (AACounter::resolve) kill it for good.
THEOREM ReturnedAreSpared == Spec => []ReturnsStay
<1>1. Init => RInv
  BY InitSpares
<1>2. IInv /\ RInv /\ [Next]_vars => RInv'
  <2>. SUFFICES ASSUME IInv, RInv, [Next]_vars PROVE RInv'
    OBVIOUS
  <2>1. Known
    BY DEF Known, IInv, History
  <2>2. RThen
    BY <2>1, NextThen
  <2>. QED
    BY <2>2 DEF RThen, SafeThen, RInv
<1>3. RInv => ReturnsStay
  <2>. SUFFICES ASSUME RInv, Idle, NEW c \in returned
                PROVE  c \in inPlay \/ (Toughness[c] = 1 /\ c \in Persisting)
    BY DEF ReturnsStay
  <2>1. \A w : ~Announced(eventsQueue, c, w)
    BY DEF Idle, Announced
  <2>. QED
    BY <2>1 DEF RInv, Spared, Frail
<1>. QED
  BY <1>1, <1>2, <1>3, Inductive, PTL DEF Spec

===============================================================================
