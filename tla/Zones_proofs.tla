----------------------------- MODULE Zones_proofs -----------------------------
(***************************************************************************)
(* For any cards, effects and bounds: whatever effects and rules move it   *)
(* and in whatever order, a card is in one zone, once.                     *)
(***************************************************************************)
EXTENDS Zones, SequenceTheorems, FiniteSetTheorems, TLAPS

USE DEF Players, Nowhere

-----------------------------------------------------------------------------
(* A zone is a sequence without repetition. *)

LEMMA SubSeqTyped ==
  ASSUME NEW S, NEW s \in Seq(S), NEW m \in Nat \ {0}, NEW n \in Nat,
         n <= Len(s), m <= n + 1, NEW k \in Nat, k = n + 1 - m
  PROVE  /\ SubSeq(s, m, n) \in Seq(S) /\ Len(SubSeq(s, m, n)) = k
         /\ \A i \in 1..k : SubSeq(s, m, n)[i] = s[m + i - 1]
<1>1. \A i \in m..n : s[i] \in S
  BY ElementOfSeq, LenProperties
<1>2. /\ SubSeq(s, m, n) \in Seq(S)
      /\ Len(SubSeq(s, m, n)) = IF m <= n THEN n - m + 1 ELSE 0
      /\ \A i \in 1..n - m + 1 : SubSeq(s, m, n)[i] = s[m + i - 1]
  BY <1>1, SubSeqProperties
<1>3. (IF m <= n THEN n - m + 1 ELSE 0) = k /\ n - m + 1 = k
  OBVIOUS
<1>. QED
  BY <1>2, <1>3

LEMMA ConcatTyped ==
  ASSUME NEW S, NEW f \in Seq(S), NEW b \in Seq(S)
  PROVE  /\ f \o b \in Seq(S)
         /\ Len(f \o b) = Len(f) + Len(b)
         /\ \A j \in 1..Len(f) + Len(b) :
              (f \o b)[j] = IF j <= Len(f) THEN f[j] ELSE b[j - Len(f)]
<1>. QED
  BY ConcatProperties

LEMMA RemoveAtIs ==
  ASSUME NEW S, NEW s \in Seq(S), NEW i \in 1..Len(s), NEW n \in Nat, n + 1 = Len(s)
  PROVE  /\ RemoveAt(s, i) \in Seq(S)
         /\ Len(RemoveAt(s, i)) = n
         /\ \A j \in 1..n : RemoveAt(s, i)[j] = IF j < i THEN s[j] ELSE s[j + 1]
<1>1. PICK a \in Nat : a = i - 1
  BY LenProperties
<1>2. PICK b \in Nat : b = n + 1 - i
  BY LenProperties
<1>. DEFINE front == SubSeq(s, 1, a)
            back  == SubSeq(s, i + 1, n + 1)
<1>3. /\ front \in Seq(S) /\ Len(front) = a
      /\ \A j \in 1..a : front[j] = s[j]
  <2>1. /\ front \in Seq(S) /\ Len(front) = a
        /\ \A j \in 1..a : front[j] = s[1 + j - 1]
    BY <1>1, SubSeqTyped
  <2>. QED
    BY <2>1
<1>4. /\ back \in Seq(S) /\ Len(back) = b
      /\ \A j \in 1..b : back[j] = s[i + j]
  <2>1. /\ i + 1 \in Nat \ {0} /\ n + 1 \in Nat /\ n + 1 <= Len(s)
        /\ i + 1 <= (n + 1) + 1 /\ b = (n + 1) + 1 - (i + 1)
    BY <1>2
  <2>2. /\ back \in Seq(S) /\ Len(back) = b
        /\ \A j \in 1..b : back[j] = s[(i + 1) + j - 1]
    BY <2>1, SubSeqTyped
  <2>. QED
    BY <2>2
<1>5. RemoveAt(s, i) = front \o back
  <2>1. i - 1 = a /\ Len(s) = n + 1
    BY <1>1
  <2>. QED
    BY <2>1 DEF RemoveAt
<1>. HIDE DEF front, back
<1>6. /\ front \o back \in Seq(S)
      /\ Len(front \o back) = a + b
      /\ \A j \in 1..a + b : (front \o back)[j] = IF j <= a THEN front[j] ELSE back[j - a]
  <2>1. /\ front \o back \in Seq(S)
        /\ Len(front \o back) = Len(front) + Len(back)
        /\ \A j \in 1..Len(front) + Len(back) :
             (front \o back)[j] = IF j <= Len(front) THEN front[j] ELSE back[j - Len(front)]
    <3>1. front \in Seq(S) /\ back \in Seq(S)
      BY <1>3, <1>4
    <3>. QED
      BY <3>1, ConcatTyped
  <2>. QED
    BY <1>3, <1>4, <2>1
<1>7. a + b = n
  BY <1>1, <1>2
<1>8. ASSUME NEW j \in 1..n PROVE (front \o back)[j] = IF j < i THEN s[j] ELSE s[j + 1]
  <2>1. CASE j <= a
    BY <1>1, <1>3, <1>6, <1>7, <2>1
  <2>2. CASE ~(j <= a)
    <3>1. j - a \in 1..b /\ i + (j - a) = j + 1 /\ ~(j < i)
      BY <1>1, <1>2, <2>2
    <3>. QED
      BY <1>4, <1>6, <1>7, <2>2, <3>1
  <2>. QED
    BY <2>1, <2>2
<1>. QED
  BY <1>5, <1>6, <1>7, <1>8

\* Without one of its elements a sequence without repetition has the others.
LEMMA RemoveAtTakesOne ==
  ASSUME NEW S, NEW s \in Seq(S), IsInjective(s), NEW i \in 1..Len(s)
  PROVE  /\ RemoveAt(s, i) \in Seq(S)
         /\ IsInjective(RemoveAt(s, i))
         /\ ToSet(RemoveAt(s, i)) = ToSet(s) \ {s[i]}
<1>1. PICK n \in Nat : n + 1 = Len(s)
  <2>1. Len(s) \in Nat /\ Len(s) >= 1
    BY LenProperties
  <2>2. Len(s) - 1 \in Nat /\ (Len(s) - 1) + 1 = Len(s)
    BY <2>1
  <2>. QED
    BY <2>2
<1>. DEFINE r == RemoveAt(s, i)
<1>2. /\ r \in Seq(S) /\ Len(r) = n
      /\ \A j \in 1..n : r[j] = IF j < i THEN s[j] ELSE s[j + 1]
  BY <1>1, RemoveAtIs
<1>. HIDE DEF r
<1>3. DOMAIN r = 1..n /\ DOMAIN s = 1..n + 1 /\ i \in 1..n + 1
  BY <1>1, <1>2, LenProperties
<1>4. IsInjective(r)
  <2>1. SUFFICES ASSUME NEW j \in 1..n, NEW k \in 1..n, r[j] = r[k] PROVE j = k
    BY <1>3 DEF IsInjective
  <2>2. \A x, y \in 1..n + 1 : s[x] = s[y] => x = y
    BY <1>3 DEF IsInjective
  <2>3. /\ r[j] = s[IF j < i THEN j ELSE j + 1]
        /\ r[k] = s[IF k < i THEN k ELSE k + 1]
    BY <1>2
  <2>4. PICK x \in 1..n + 1 : x = IF j < i THEN j ELSE j + 1
    OBVIOUS
  <2>5. PICK y \in 1..n + 1 : y = IF k < i THEN k ELSE k + 1
    OBVIOUS
  <2>6. x = y
    BY <2>1, <2>2, <2>3, <2>4, <2>5
  <2>. QED
    BY <1>3, <2>4, <2>5, <2>6
<1>5. ToSet(r) \subseteq ToSet(s) \ {s[i]}
  <2>1. SUFFICES ASSUME NEW j \in 1..n PROVE r[j] \in ToSet(s) \ {s[i]}
    BY <1>3 DEF ToSet
  <2>2. PICK x \in 1..n + 1 : x # i /\ r[j] = s[x]
    <3>1. CASE j < i
      BY <1>2, <1>3, <3>1
    <3>2. CASE ~(j < i)
      <4>1. j + 1 \in 1..n + 1 /\ j + 1 # i
        BY <1>3, <3>2
      <4>. QED
        BY <1>2, <3>2, <4>1
    <3>. QED
      BY <3>1, <3>2
  <2>3. s[x] # s[i]
    BY <1>3, <2>2 DEF IsInjective
  <2>. QED
    BY <1>3, <2>2, <2>3 DEF ToSet
<1>6. ToSet(s) \ {s[i]} \subseteq ToSet(r)
  <2>1. SUFFICES ASSUME NEW x \in 1..n + 1, s[x] # s[i] PROVE s[x] \in ToSet(r)
    BY <1>3 DEF ToSet
  <2>2. CASE x < i
    <3>1. x \in 1..n
      BY <1>3, <2>2
    <3>. QED
      BY <1>2, <1>3, <2>2, <3>1 DEF ToSet
  <2>3. CASE ~(x < i)
    <3>1. PICK y \in 1..n : y + 1 = x /\ ~(y < i)
      <4>1. x - 1 \in 1..n /\ (x - 1) + 1 = x /\ ~(x - 1 < i)
        BY <1>3, <2>1, <2>3
      <4>. QED
        BY <4>1
    <3>2. r[y] = s[x]
      BY <1>2, <3>1
    <3>. QED
      BY <1>3, <3>1, <3>2 DEF ToSet
  <2>. QED
    BY <2>2, <2>3
<1>. QED
  BY <1>2, <1>4, <1>5, <1>6 DEF r

LEMMA AppendAddsOne ==
  ASSUME NEW S, NEW s \in Seq(S), IsInjective(s), NEW c \in S, c \notin ToSet(s)
  PROVE  /\ Append(s, c) \in Seq(S)
         /\ IsInjective(Append(s, c))
         /\ ToSet(Append(s, c)) = ToSet(s) \cup {c}
<1>1. PICK n \in Nat : n = Len(s)
  BY LenProperties
<1>. DEFINE r == Append(s, c)
<1>2. /\ r \in Seq(S) /\ Len(r) = n + 1
      /\ \A j \in 1..n : r[j] = s[j]
      /\ r[n + 1] = c
  BY <1>1, AppendProperties
<1>. HIDE DEF r
<1>3. DOMAIN r = 1..n + 1 /\ DOMAIN s = 1..n
  BY <1>1, <1>2, LenProperties
<1>4. \A j \in 1..n : s[j] # c
  BY <1>3 DEF ToSet
<1>5. IsInjective(r)
  BY <1>2, <1>3, <1>4 DEF IsInjective
<1>6. ToSet(r) \subseteq ToSet(s) \cup {c}
  BY <1>2, <1>3 DEF ToSet
<1>7. ToSet(s) \cup {c} \subseteq ToSet(r)
  BY <1>2, <1>3 DEF ToSet
<1>. QED
  BY <1>2, <1>5, <1>6, <1>7 DEF r

LEMMA ContainsIs ==
  ASSUME NEW S, NEW s \in Seq(S), NEW c
  PROVE  Contains(s, c) <=> c \in ToSet(s)
<1>. DOMAIN s = 1..Len(s)
  BY LenProperties
<1>. QED
  BY DEF Contains, ToSet

\* Another order of a sequence.
LEMMA ReorderedIs ==
  ASSUME NEW S, NEW s \in Seq(S), IsInjective(s),
         NEW order \in Bijection(DOMAIN s, DOMAIN s),
         NEW r, r = [i \in DOMAIN s |-> s[order[i]]]
  PROVE  r \in Seq(S) /\ IsInjective(r) /\ ToSet(r) = ToSet(s)
<1>1. /\ order \in [DOMAIN s -> DOMAIN s]
      /\ IsInjective(order)
      /\ \A i \in DOMAIN s : \E j \in DOMAIN s : order[j] = i
  BY DEF Bijection, Injection, Surjection
<1>2. PICK n \in Nat : n = Len(s)
  BY LenProperties
<1>3. DOMAIN s = 1..n /\ s \in [1..n -> S]
  BY <1>2, LenProperties
<1>4. r \in [1..n -> S] /\ DOMAIN r = 1..n
  BY <1>1, <1>3
<1>5. r \in Seq(S)
  BY <1>4, SeqDef
<1>6. IsInjective(r)
  BY <1>1 DEF IsInjective
<1>7. ToSet(r) \subseteq ToSet(s)
  BY <1>1, <1>3, <1>4 DEF ToSet
<1>8. ToSet(s) \subseteq ToSet(r)
  BY <1>1, <1>3, <1>4 DEF ToSet
<1>. QED
  BY <1>5, <1>6, <1>7, <1>8

-----------------------------------------------------------------------------
(* The cards of all zones.                                                 *)

\* Every zone holds cards, and no card twice or with another zone.
Apart(cs) ==
  /\ cs \in [Zones -> Seq(Cards)]
  /\ \A z \in Zones : IsInjective(cs[z])
  /\ \A z1, z2 \in Zones : z1 # z2 => ToSet(cs[z1]) \cap ToSet(cs[z2]) = {}

\* No card is in none.
AllThere(cs) == \A c \in Creatures \cup Instants : \E z \in Zones : c \in ToSet(cs[z])

With(cs, dest, c) == [cs EXCEPT ![dest] = Append(cs[dest], c)]
Without(cs, from, i) == [cs EXCEPT ![from] = RemoveAt(cs[from], i)]

\* A card that is in no zone is put in one.
LEMMA AddedOnce ==
  ASSUME NEW cs, Apart(cs), NEW dest \in Zones, NEW c \in Cards,
         \A z \in Zones : c \notin ToSet(cs[z]),
         NEW new, new = With(cs, dest, c)
  PROVE  /\ Apart(new) /\ c \in ToSet(new[dest])
         /\ \A z \in Zones : ToSet(cs[z]) \subseteq ToSet(new[z])
<1>1. /\ Append(cs[dest], c) \in Seq(Cards)
      /\ IsInjective(Append(cs[dest], c))
      /\ ToSet(Append(cs[dest], c)) = ToSet(cs[dest]) \cup {c}
  BY AppendAddsOne DEF Apart
<1>2. /\ new \in [Zones -> Seq(Cards)]
      /\ new[dest] = Append(cs[dest], c)
      /\ \A z \in Zones \ {dest} : new[z] = cs[z]
  BY <1>1 DEF Apart, With
<1>3. \A z \in Zones : IsInjective(new[z])
  BY <1>1, <1>2 DEF Apart
<1>4. ASSUME NEW z1 \in Zones, NEW z2 \in Zones, z1 # z2
      PROVE  ToSet(new[z1]) \cap ToSet(new[z2]) = {}
  <2>. ToSet(cs[z1]) \cap ToSet(cs[z2]) = {}
    BY <1>4 DEF Apart
  <2>. QED
    BY <1>1, <1>2, <1>4
<1>. QED
  BY <1>1, <1>2, <1>3, <1>4 DEF Apart

\* A card is taken out of the zone it is in.
LEMMA TakenOut ==
  ASSUME NEW cs, Apart(cs), NEW from \in Zones, NEW i \in DOMAIN cs[from],
         NEW left, left = Without(cs, from, i)
  PROVE  /\ Apart(left)
         /\ \A z \in Zones : ToSet(left[z]) = ToSet(cs[z]) \ {cs[from][i]}
<1>. DEFINE c == cs[from][i]
            r == RemoveAt(cs[from], i)
<1>1. r \in Seq(Cards) /\ IsInjective(r) /\ ToSet(r) = ToSet(cs[from]) \ {c}
  <2>1. cs[from] \in Seq(Cards) /\ IsInjective(cs[from]) /\ i \in 1..Len(cs[from])
    BY LenProperties DEF Apart
  <2>. QED
    BY <2>1, RemoveAtTakesOne
<1>2. c \in ToSet(cs[from])
  BY DEF ToSet
<1>. HIDE DEF c, r
<1>3. /\ left \in [Zones -> Seq(Cards)]
      /\ left[from] = r
      /\ \A z \in Zones \ {from} : left[z] = cs[z]
  BY <1>1 DEF Apart, Without, r
<1>4. \A z \in Zones \ {from} : c \notin ToSet(cs[z])
  BY <1>2 DEF Apart
<1>5. \A z \in Zones : ToSet(left[z]) = ToSet(cs[z]) \ {c}
  BY <1>1, <1>3, <1>4
<1>6. \A z \in Zones : IsInjective(left[z])
  BY <1>1, <1>3 DEF Apart
<1>7. ASSUME NEW z1 \in Zones, NEW z2 \in Zones, z1 # z2
      PROVE  ToSet(left[z1]) \cap ToSet(left[z2]) = {}
  BY <1>5, <1>7 DEF Apart
<1>. QED
  BY <1>3, <1>5, <1>6, <1>7 DEF Apart, c

\* A move takes a card from its zone and puts it in another: no card is lost.
LEMMA MovedOnce ==
  ASSUME NEW cs, Apart(cs), AllThere(cs),
         NEW from \in Zones, NEW dest \in Zones, NEW i \in DOMAIN cs[from],
         NEW left, left = Without(cs, from, i),
         NEW new, new = With(left, dest, cs[from][i])
  PROVE  Apart(new) /\ AllThere(new)
<1>. DEFINE c == cs[from][i]
<1>1. c \in Cards
  BY ElementOfSeq, LenProperties DEF Apart
<1>2. Apart(left) /\ \A z \in Zones : ToSet(left[z]) = ToSet(cs[z]) \ {c}
  BY TakenOut
<1>3. /\ Apart(new) /\ c \in ToSet(new[dest])
      /\ \A z \in Zones : ToSet(left[z]) \subseteq ToSet(new[z])
  <2>1. \A z \in Zones : c \notin ToSet(left[z])
    BY <1>2
  <2>2. new = With(left, dest, c)
    OBVIOUS
  <2>. HIDE DEF c
  <2>. QED
    BY <1>1, <1>2, <2>1, <2>2, AddedOnce
<1>. HIDE DEF c
<1>4. AllThere(new)
  BY <1>2, <1>3 DEF AllThere
<1>. QED
  BY <1>3, <1>4

-----------------------------------------------------------------------------
(* The inductive invariant: the cards are apart and all there, and whatever *)
(* waits - calls, events, the stack - is about cards and zones.             *)

Places == Zones \cup {Nowhere}

PutCall ==
  [do : {"put"}, card : Cards, from : Places, before : Places, to : Zones, nested : BOOLEAN]

CardCall ==
  [do : {"counter", "transform", "return", "spell"}, card : Cards, from : {Nowhere},
   before : {Nowhere}, to : {Nowhere}, nested : BOOLEAN]

ClearCall ==
  [do : {"clear"}, card : {Nowhere}, from : {Nowhere}, before : {Nowhere}, to : Zones,
   nested : BOOLEAN]

Call == PutCall \cup CardCall \cup ClearCall

Event ==
  [card : Cards, live : BOOLEAN, from : Places, to : Zones, persists : BOOLEAN,
   unearthed : BOOLEAN]

Item ==
  [what : {"spell"}, card : Cards, live : BOOLEAN, to : {Nowhere}]
    \cup [what : {"move", "unearth", "blink"}, card : Cards, live : BOOLEAN, to : Zones]

IInv ==
  /\ Apart(cards)
  /\ AllThere(cards)
  /\ calls \in Seq(Call)
  /\ eventsQueue \in Seq(Event)
  /\ stack \in Seq(Item)
  /\ placeOnTop \in [Players -> Seq(Cards)]

LEMMA NowhereIsNoZone == Nowhere \notin Zones
  BY DEF Zones, Kinds

LEMMA OfIsAZone ==
  ASSUME NEW c, NEW kind \in Kinds
  PROVE  Of(c, kind) \in Zones
  BY DEF Of, owner, Zones

LEMMA ZoneOfAPlayer ==
  ASSUME NEW z \in Places, NEW kind \in Kinds
  PROVE  <<z[1], kind>> \in Zones
<1>1. CASE z \in Zones
  BY <1>1 DEF Zones
<1>2. CASE z = Nowhere
  BY <1>2 DEF Zones
<1>. QED
  BY <1>1, <1>2 DEF Places

LEMMA CurrentZoneIs ==
  ASSUME Apart(cards), NEW c
  PROVE  /\ currentZone(c) \in Places
         /\ currentZone(c) = Nowhere <=> \A z \in Zones : c \notin ToSet(cards[z])
<1>1. \A z \in Zones : Contains(cards[z], c) <=> c \in ToSet(cards[z])
  BY ContainsIs DEF Apart
<1>2. CASE \E z \in Zones : Contains(cards[z], c)
  BY <1>1, <1>2, NowhereIsNoZone DEF currentZone, Places
<1>3. CASE ~\E z \in Zones : Contains(cards[z], c)
  BY <1>1, <1>3 DEF currentZone, Places
<1>. QED
  BY <1>2, <1>3

LEMMA IInvPlaces == ASSUME IInv PROVE OneZonePerCard
<1>1. \A c \in Creatures \cup Instants : currentZone(c) # Nowhere
  BY CurrentZoneIs DEF IInv, AllThere
<1>. QED
  BY <1>1 DEF IInv, Apart, OneZonePerCard

-----------------------------------------------------------------------------
(* What is yet to be done is well formed.                                  *)

LEMMA PutIsACall ==
  ASSUME NEW c \in Cards, NEW from \in Places, NEW before \in Places, NEW to \in Zones
  PROVE  Put(c, from, before, to) \in Call
  BY DEF Put, Call, PutCall

LEMMA ThenIsACall ==
  ASSUME NEW what \in {"counter", "transform", "return", "spell"}, NEW c \in Cards
  PROVE  Then(what, c) \in Call
  BY DEF Then, Call, CardCall

LEMMA IntoPlayIsCalls ==
  ASSUME NEW c \in Cards, NEW from \in Places, NEW p \in Players
  PROVE  IntoPlay(c, from, p) \in Seq(Call)
<1>1. Of(c, "temp") \in Zones
  BY OfIsAZone DEF Kinds
<1>2. <<p, "battlefield">> \in Zones
  BY DEF Zones, Kinds
<1>3. Of(c, "temp") \in Places
  BY <1>1 DEF Places
<1>4. /\ Put(c, from, from, Of(c, "temp")) \in Call
      /\ Put(c, Of(c, "temp"), from, <<p, "battlefield">>) \in Call
  BY <1>1, <1>2, <1>3, PutIsACall
<1>. QED
  BY <1>4 DEF IntoPlay

LEMMA MoverIsCalls ==
  ASSUME NEW c \in Cards, NEW from \in Places, NEW to \in Zones
  PROVE  Mover(c, from, to) \in Seq(Call)
<1>1. to[1] \in Players
  BY DEF Zones
<1>2. IntoPlay(c, from, to[1]) \in Seq(Call)
  BY <1>1, IntoPlayIsCalls
<1>3. Put(c, from, Nowhere, to) \in Call
  BY PutIsACall DEF Places
<1>4. <<Put(c, from, Nowhere, to)>> \in Seq(Call)
  BY <1>3
<1>5. <<>> \in Seq(Call)
  BY EmptySeq
<1>. QED
  BY <1>2, <1>4, <1>5 DEF Mover

LEMMA NestedIsCalls ==
  ASSUME NEW s \in Seq(Call)
  PROVE  Nested(s) \in Seq(Call)
<1>1. PICK n \in Nat : s \in [1..n -> Call]
  BY SeqDef
<1>2. \A m \in Call : [m EXCEPT !.nested = TRUE] \in Call
  BY DEF Call, PutCall, CardCall, ClearCall
<1>3. Nested(s) \in [1..n -> Call]
  BY <1>1, <1>2 DEF Nested
<1>. QED
  BY <1>3, SeqDef

\* Followed by one more call.
LEMMA AndThen ==
  ASSUME NEW s \in Seq(Call), NEW m \in Call
  PROVE  s \o <<m>> \in Seq(Call)
<1>1. <<m>> \in Seq(Call)
  OBVIOUS
<1>. QED
  BY <1>1, ConcatTyped

LEMMA AnswerIsCalls ==
  ASSUME IInv, NEW e \in Event
  PROVE  Answer(e) \in Seq(Call)
<1>1. e.card \in Cards /\ e.to \in Zones /\ e.to \in Places
  BY DEF Event, Places
<1>2. currentZone(e.card) \in Places
  BY CurrentZoneIs DEF IInv
<1>3. <<controller(e.card), "garbage">> \in Zones
  BY <1>2, ZoneOfAPlayer DEF controller, Kinds
<1>4. Of(e.card, "exile") \in Zones
  BY OfIsAZone DEF Kinds
<1>5. /\ Put(e.card, currentZone(e.card), e.to, <<controller(e.card), "garbage">>) \in Call
      /\ Put(e.card, currentZone(e.card), e.to, Of(e.card, "exile")) \in Call
  BY <1>1, <1>2, <1>3, <1>4, PutIsACall
<1>6. IntoPlay(e.card, e.to, owner(e.card)) \o <<Then("counter", e.card)>> \in Seq(Call)
  <2>1. IntoPlay(e.card, e.to, owner(e.card)) \in Seq(Call)
    BY <1>1, IntoPlayIsCalls DEF owner
  <2>2. Then("counter", e.card) \in Call
    BY <1>1, ThenIsACall
  <2>. QED
    BY <2>1, <2>2, AndThen
<1>7. <<>> \in Seq(Call)
  BY EmptySeq
<1>8. /\ <<Put(e.card, currentZone(e.card), e.to, <<controller(e.card), "garbage">>)>> \in Seq(Call)
      /\ <<Put(e.card, currentZone(e.card), e.to, Of(e.card, "exile"))>> \in Seq(Call)
  BY <1>5
<1>. QED
  BY <1>6, <1>7, <1>8 DEF Answer

LEMMA WhereIsAPlace ==
  ASSUME IInv, NEW s
  PROVE  Where(s) \in Places
  BY CurrentZoneIs DEF Where, IInv, Places

LEMMA ResolutionIsCalls ==
  ASSUME IInv, NEW s \in Item
  PROVE  Resolution(s) \in Seq(Call)
<1>. DEFINE z == Where(s)
<1>1. s.card \in Cards /\ s.live \in BOOLEAN
  BY DEF Item
<1>2. z \in Places
  BY WhereIsAPlace
<1>. HIDE DEF z
<1>3. <<z[1], "battlefield">> \in Zones
  BY <1>2, ZoneOfAPlayer DEF Kinds
<1>4. Of(s.card, "graveyard") \in Zones /\ Of(s.card, "exile") \in Zones
  BY OfIsAZone DEF Kinds
<1>5. Nowhere \in Places
  BY DEF Places
<1>6. Put(s.card, z, Nowhere, IF s.card \in Instants THEN Of(s.card, "graveyard")
                              ELSE <<z[1], "battlefield">>) \in Call
  BY <1>1, <1>2, <1>3, <1>4, <1>5, PutIsACall
<1>7. Put(s.card, z, Nowhere, Of(s.card, "exile")) \in Call
  BY <1>1, <1>2, <1>4, <1>5, PutIsACall
<1>8. Then("return", s.card) \in Call /\ Then("transform", s.card) \in Call
  BY <1>1, ThenIsACall
<1>9. CASE s.what = "spell"
  <2>1. Resolution(s) = <<Put(s.card, z, Nowhere, IF s.card \in Instants THEN Of(s.card, "graveyard")
                                                  ELSE <<z[1], "battlefield">>)>>
    BY <1>9 DEF Resolution, z
  <2>. QED
    BY <1>6, <2>1
<1>10. CASE s.what # "spell"
  <2>1. s.to \in Zones
    BY <1>10 DEF Item
  <2>2. Mover(s.card, z, s.to) \in Seq(Call)
    BY <1>1, <1>2, <2>1, MoverIsCalls
  <2>3. Mover(s.card, z, s.to) \o <<Then("transform", s.card)>> \in Seq(Call)
    BY <1>8, <2>2, AndThen
  <2>4. <<Put(s.card, z, Nowhere, Of(s.card, "exile")), Then("return", s.card)>> \in Seq(Call)
    BY <1>7, <1>8
  <2>5. <<>> \in Seq(Call)
    BY EmptySeq
  <2>6. \/ Resolution(s) = Mover(s.card, z, s.to)
        \/ Resolution(s) = Mover(s.card, z, s.to) \o <<Then("transform", s.card)>>
        \/ Resolution(s) = <<Put(s.card, z, Nowhere, Of(s.card, "exile")), Then("return", s.card)>>
        \/ Resolution(s) = <<>>
    BY <1>10 DEF Resolution, z
  <2>. QED
    BY <2>2, <2>3, <2>4, <2>5, <2>6
<1>. QED
  BY <1>9, <1>10

-----------------------------------------------------------------------------
(* Sequences that shrink or change.                                        *)

LEMMA FrontTyped ==
  ASSUME NEW S, NEW s \in Seq(S), s # <<>>
  PROVE  Front(s) \in Seq(S) /\ Last(s) \in S
<1>1. Len(s) \in Nat /\ Len(s) # 0
  BY EmptySeq, LenProperties
<1>2. PICK n \in Nat : n + 1 = Len(s)
  <2>1. Len(s) - 1 \in Nat /\ (Len(s) - 1) + 1 = Len(s)
    BY <1>1
  <2>. QED
    BY <2>1
<1>3. SubSeq(s, 1, n) \in Seq(S)
  BY <1>2, SubSeqTyped
<1>4. Len(s) - 1 = n
  BY <1>2
<1>5. Front(s) \in Seq(S)
  BY <1>3, <1>4 DEF Front
<1>6. s[Len(s)] \in S
  BY <1>1, ElementOfSeq
<1>. QED
  BY <1>5, <1>6 DEF Last

LEMMA OutdatedEvents ==
  ASSUME NEW s \in Seq(Event), NEW c
  PROVE  Outdated(s, c) \in Seq(Event)
<1>1. PICK n \in Nat : s \in [1..n -> Event]
  BY SeqDef
<1>2. \A e \in Event : [e EXCEPT !.live = FALSE] \in Event
  BY DEF Event
<1>3. Outdated(s, c) \in [1..n -> Event]
  BY <1>1, <1>2 DEF Outdated
<1>. QED
  BY <1>3, SeqDef

LEMMA OutdatedItems ==
  ASSUME NEW s \in Seq(Item), NEW c
  PROVE  Outdated(s, c) \in Seq(Item)
<1>1. PICK n \in Nat : s \in [1..n -> Item]
  BY SeqDef
<1>2. \A x \in Item : [x EXCEPT !.live = FALSE] \in Item
  BY DEF Item
<1>3. Outdated(s, c) \in [1..n -> Item]
  BY <1>1, <1>2 DEF Outdated
<1>. QED
  BY <1>3, SeqDef

\* The calls that are left when the first is done, and the first.
LEMMA FirstCall ==
  ASSUME IInv, calls # <<>>
  PROVE  Head(calls) \in Call /\ Tail(calls) \in Seq(Call)
  BY HeadTailProperties DEF IInv

-----------------------------------------------------------------------------
(* Each step.                                                              *)

LEMMA InitIInv == ASSUME ConstantsAssumption, Init PROVE IInv
<1>. DEFINE all == Creatures \cup Instants
<1>1. PICK order \in Bijection(1..Cardinality(all), all) :
        cards = [z \in Zones |-> IF z = <<0, "library">> THEN order ELSE <<>>]
  BY DEF Init
<1>2. Cardinality(all) \in Nat
  BY FS_CardinalityType DEF ConstantsAssumption
<1>. HIDE DEF all
<1>3. /\ order \in [1..Cardinality(all) -> all]
      /\ IsInjective(order)
      /\ \A c \in all : \E i \in 1..Cardinality(all) : order[i] = c
  BY <1>1 DEF Bijection, Injection, Surjection
<1>4. order \in [1..Cardinality(all) -> Cards]
  BY <1>3 DEF all, Cards
<1>5. order \in Seq(Cards)
  BY <1>2, <1>4, SeqDef
<1>6. /\ <<>> \in Seq(Cards)
      /\ <<>> \in Seq(Call)
      /\ <<>> \in Seq(Event)
      /\ <<>> \in Seq(Item)
  BY EmptySeq
<1>7. ToSet(<<>>) = {} /\ IsInjective(<<>>)
  BY DEF ToSet, IsInjective
<1>8. <<0, "library">> \in Zones
  BY DEF Zones, Kinds
<1>9. Apart(cards)
  BY <1>1, <1>3, <1>5, <1>6, <1>7 DEF Apart
<1>10. \A c \in all : c \in ToSet(order)
  BY <1>3 DEF ToSet
<1>11. AllThere(cards)
  BY <1>1, <1>8, <1>10 DEF AllThere, all
<1>12. placeOnTop \in [Players -> Seq(Cards)]
  BY <1>6 DEF Init
<1>. QED
  BY <1>6, <1>9, <1>11, <1>12 DEF Init, IInv

LEMMA PutKeeps ==
  ASSUME IInv, NEW c \in Cards, NEW from \in Places, NEW before \in Places, NEW to \in Zones,
         putInZone(c, from, before, to), calls' \in Seq(Call)
  PROVE  IInv'
<1>1. CASE from = Nowhere \/ ~Contains(cards[from], c)
  BY <1>1 DEF putInZone, IInv, Apart, AllThere
<1>2. CASE ~(from = Nowhere \/ ~Contains(cards[from], c))
  <2>. DEFINE dest == IF SetAside(from, to) THEN <<from[1], "temp">> ELSE to
              event == [card |-> c, live |-> TRUE, from |-> ToldFrom(from, before), to |-> to,
                        persists |-> c \in Persisting \ minus, unearthed |-> c \in unearthed]
              index == CHOOSE i \in DOMAIN cards[from] : cards[from][i] = c
              left == Without(cards, from, index)
  <2>1. from \in Zones /\ dest \in Zones
    BY <1>2, ZoneOfAPlayer DEF Places, Kinds
  <2>2. index \in DOMAIN cards[from] /\ cards[from][index] = c
    <3>1. \E i \in DOMAIN cards[from] : cards[from][i] = c
      BY <1>2, <2>1, LenProperties DEF Contains, IInv, Apart
    <3>. QED
      BY <3>1
  <2>3. cards' = With(left, dest, c)
    BY <1>2 DEF putInZone, removeCard, Without, With
  <2>4. Apart(cards') /\ AllThere(cards')
    <3>. HIDE DEF dest, index, left
    <3>1. left = Without(cards, from, index)
      BY DEF left
    <3>2. cards' = With(left, dest, cards[from][index])
      BY <2>2, <2>3
    <3>. QED
      BY <2>1, <2>2, <3>1, <3>2, MovedOnce DEF IInv
  <2>5. eventsQueue' \in Seq(Event)
    <3>. DEFINE told == IF SameObject(from, to) THEN eventsQueue ELSE Outdated(eventsQueue, c)
                more == IF dest[2] = "temp" THEN <<>> ELSE <<event>>
    <3>1. eventsQueue' = told \o more
      BY <1>2 DEF putInZone
    <3>2. told \in Seq(Event)
      BY OutdatedEvents DEF IInv
    <3>3. event \in Event
      BY <2>1 DEF Event, ToldFrom, Places
    <3>4. <<>> \in Seq(Event)
      BY EmptySeq
    <3>5. more \in Seq(Event)
      BY <3>3, <3>4
    <3>. HIDE DEF told, more
    <3>. QED
      BY <3>1, <3>2, <3>5, ConcatTyped
  <2>6. stack' \in Seq(Item)
    BY <1>2, OutdatedItems DEF putInZone, IInv
  <2>7. placeOnTop' \in [Players -> Seq(Cards)]
    <3>1. from[1] \in Players
      BY <2>1 DEF Zones
    <3>2. Append(placeOnTop[from[1]], c) \in Seq(Cards)
      BY <3>1, AppendProperties DEF IInv
    <3>3. placeOnTop' = IF SetAside(from, to)
                        THEN [placeOnTop EXCEPT ![from[1]] = Append(@, c)] ELSE placeOnTop
      BY <1>2 DEF putInZone
    <3>. QED
      BY <3>2, <3>3 DEF IInv
  <2>. QED
    BY <2>4, <2>5, <2>6, <2>7 DEF IInv, Apart, AllThere
<1>. QED
  BY <1>1, <1>2

LEMMA MoveIInv == ASSUME IInv, Move PROVE IInv'
<1>. DEFINE m == Head(calls)
<1>1. m \in Call /\ Tail(calls) \in Seq(Call) /\ m.do = "put"
  BY FirstCall DEF Move, Doing
<1>2. m.card \in Cards /\ m.from \in Places /\ m.before \in Places /\ m.to \in Zones
  BY <1>1 DEF Call, PutCall, CardCall, ClearCall
<1>3. putInZone(m.card, m.from, m.before, m.to) /\ calls' = Tail(calls)
  BY DEF Move
<1>. HIDE DEF m
<1>. QED
  BY <1>1, <1>2, <1>3, PutKeeps

\* A step that leaves the cards where they are.
LEMMA StaysIInv ==
  ASSUME IInv, UNCHANGED cards, calls' \in Seq(Call), eventsQueue' \in Seq(Event),
         stack' \in Seq(Item), placeOnTop' \in [Players -> Seq(Cards)]
  PROVE  IInv'
  BY DEF IInv, Apart, AllThere

LEMMA DeliverIInv == ASSUME IInv, Deliver PROVE IInv'
<1>1. Head(eventsQueue) \in Event /\ Tail(eventsQueue) \in Seq(Event)
  BY HeadTailProperties DEF Deliver, IInv
<1>2. Nested(Answer(Head(eventsQueue))) \in Seq(Call)
  BY <1>1, AnswerIsCalls, NestedIsCalls
<1>3. calls' \in Seq(Call)
  BY <1>2, ConcatTyped DEF Deliver, IInv
<1>. QED
  BY <1>1, <1>3, StaysIInv DEF Deliver, IInv

LEMMA AddCounterIInv == ASSUME IInv, AddCounter PROVE IInv'
  BY FirstCall, StaysIInv DEF AddCounter, Doing, IInv

LEMMA TransformIInv == ASSUME IInv, Transform PROVE IInv'
  BY FirstCall, StaysIInv DEF Transform, Doing, IInv

LEMMA ReturnIInv == ASSUME IInv, Return PROVE IInv'
<1>. DEFINE c == Head(calls).card
            play == Of(c, "battlefield")
            twice == <<Put(c, currentZone(c), Nowhere, play), Put(c, play, Nowhere, play)>>
<1>1. Head(calls) \in Call /\ Tail(calls) \in Seq(Call)
  BY FirstCall DEF Return, Doing
<1>2. c \in Cards
  BY <1>1 DEF Return, Doing, Call, PutCall, CardCall, ClearCall
<1>3. twice \in Seq(Call)
  <2>1. play \in Zones
    BY OfIsAZone DEF Kinds
  <2>2. currentZone(c) \in Places /\ Nowhere \in Places /\ play \in Places
    BY <2>1, CurrentZoneIs DEF IInv, Places
  <2>3. /\ Put(c, currentZone(c), Nowhere, play) \in Call
        /\ Put(c, play, Nowhere, play) \in Call
    BY <1>2, <2>1, <2>2, PutIsACall
  <2>. QED
    BY <2>3
<1>4. calls' = IF c \in Tokens THEN Tail(calls) ELSE twice \o Tail(calls)
  BY DEF Return
<1>5. twice \o Tail(calls) \in Seq(Call)
  <2>. HIDE DEF twice
  <2>. QED
    BY <1>1, <1>3, ConcatTyped
<1>6. calls' \in Seq(Call)
  BY <1>1, <1>4, <1>5
<1>. QED
  BY <1>6, StaysIInv DEF Return, IInv

LEMMA ClearIInv == ASSUME IInv, Clear PROVE IInv'
<1>1. Tail(calls) \in Seq(Call)
  BY FirstCall DEF Clear, Doing
<1>2. <<>> \in Seq(Cards)
  BY EmptySeq
<1>3. placeOnTop' \in [Players -> Seq(Cards)]
  BY <1>2 DEF Clear, IInv
<1>. QED
  BY <1>1, <1>3, StaysIInv DEF Clear, IInv

LEMMA BeginIInv == ASSUME IInv, NEW steps \in Seq(Call), Begin(steps) PROVE IInv'
  BY StaysIInv DEF Begin, IInv

LEMMA TakeIInv ==
  ASSUME IInv, NEW p \in Players, NEW kind \in {"hand", "graveyard"}, Take(p, kind)
  PROVE  IInv'
<1>1. <<p, "library">> \in Zones /\ <<p, kind>> \in Zones
  BY DEF Zones, Kinds
<1>2. Last(cards[<<p, "library">>]) \in Cards
  BY <1>1, FrontTyped DEF Take, IInv, Apart
<1>3. Put(Last(cards[<<p, "library">>]), <<p, "library">>, Nowhere, <<p, kind>>) \in Call
  BY <1>1, <1>2, PutIsACall DEF Places
<1>4. <<Put(Last(cards[<<p, "library">>]), <<p, "library">>, Nowhere, <<p, kind>>)>> \in Seq(Call)
  BY <1>3
<1>. QED
  BY <1>4, BeginIInv DEF Take

\* A card that is put somewhere, and nothing else.
LEMMA PutOnly ==
  ASSUME IInv, NEW c \in Cards, NEW to \in Zones
  PROVE  <<Put(c, currentZone(c), Nowhere, to)>> \in Seq(Call)
<1>1. currentZone(c) \in Places /\ Nowhere \in Places
  BY CurrentZoneIs DEF IInv, Places
<1>2. Put(c, currentZone(c), Nowhere, to) \in Call
  BY <1>1, PutIsACall
<1>. QED
  BY <1>2

LEMMA CastIInv ==
  ASSUME IInv, NEW c \in Creatures \cup Instants, Cast(c)
  PROVE  IInv'
<1>1. c \in Cards
  BY DEF Cards
<1>2. currentZone(c) \in Places /\ Nowhere \in Places
  BY CurrentZoneIs DEF IInv, Places
<1>3. <<controller(c), "stack">> \in Zones
  BY <1>2, ZoneOfAPlayer DEF controller, Kinds
<1>4. Put(c, currentZone(c), Nowhere, <<controller(c), "stack">>) \in Call
  BY <1>1, <1>2, <1>3, PutIsACall
<1>5. Then("spell", c) \in Call
  BY <1>1, ThenIsACall
<1>6. <<Put(c, currentZone(c), Nowhere, <<controller(c), "stack">>), Then("spell", c)>> \in Seq(Call)
  BY <1>4, <1>5
<1>. QED
  BY <1>6, BeginIInv DEF Cast

\* What is put on the stack is well formed.
LEMMA StacksTyped ==
  ASSUME IInv, NEW what, NEW c \in Cards, NEW to, Stacks(what, c, to),
         \/ what = "spell" /\ to = Nowhere
         \/ what \in {"move", "unearth", "blink"} /\ to \in Zones
  PROVE  stack' \in Seq(Item)
<1>1. [what |-> what, card |-> c, live |-> TRUE, to |-> to] \in Item
  BY DEF Item
<1>. QED
  BY <1>1, AppendProperties DEF Stacks, IInv

LEMMA AddSpellIInv == ASSUME IInv, AddSpell PROVE IInv'
<1>1. Head(calls) \in Call /\ Tail(calls) \in Seq(Call)
  BY FirstCall DEF AddSpell, Doing
<1>2. Head(calls).card \in Cards
  BY <1>1 DEF AddSpell, Doing, Call, PutCall, CardCall, ClearCall
<1>3. Stacks("spell", Head(calls).card, Nowhere)
  BY DEF AddSpell
<1>4. stack' \in Seq(Item)
  BY <1>2, <1>3, StacksTyped
<1>. QED
  BY <1>1, <1>4, StaysIInv DEF AddSpell, IInv

LEMMA TargetIInv ==
  ASSUME ConstantsAssumption, IInv, NEW c \in Cards, NEW effect \in Effects, Target(c, effect)
  PROVE  IInv'
<1>1. effect[1] \in {"move", "unearth", "blink"} /\ effect[3] \in Kinds
  BY DEF ConstantsAssumption, Named
<1>2. Of(c, effect[3]) \in Zones
  BY <1>1, OfIsAZone
<1>3. Stacks(effect[1], c, Of(c, effect[3]))
  BY DEF Target
<1>4. stack' \in Seq(Item)
  BY <1>1, <1>2, <1>3, StacksTyped
<1>. QED
  BY <1>4, StaysIInv DEF Target, IInv

LEMMA ResolveIInv == ASSUME IInv, Resolve PROVE IInv'
<1>1. Front(stack) \in Seq(Item) /\ Last(stack) \in Item
  BY FrontTyped DEF Resolve, IInv
<1>2. Resolution(Last(stack)) \in Seq(Call)
  BY <1>1, ResolutionIsCalls
<1>. QED
  BY <1>1, <1>2, StaysIInv DEF Resolve, IInv

LEMMA FizzleIInv == ASSUME IInv, NEW i \in DOMAIN stack, Fizzle(i) PROVE IInv'
<1>1. i \in 1..Len(stack)
  BY LenProperties DEF IInv
<1>2. PICK n \in Nat : n + 1 = Len(stack)
  <2>1. Len(stack) \in Nat /\ Len(stack) >= 1
    BY <1>1, LenProperties DEF IInv
  <2>2. Len(stack) - 1 \in Nat /\ (Len(stack) - 1) + 1 = Len(stack)
    BY <2>1
  <2>. QED
    BY <2>2
<1>3. stack' \in Seq(Item)
  BY <1>1, <1>2, RemoveAtIs DEF Fizzle, IInv
<1>4. stack[i].card \in Cards
  <2>1. stack[i] \in Item
    BY <1>1, ElementOfSeq DEF IInv
  <2>. QED
    BY <2>1 DEF Item
<1>5. calls' \in Seq(Call)
  <2>1. Of(stack[i].card, "graveyard") \in Zones
    BY OfIsAZone DEF Kinds
  <2>2. Where(stack[i]) \in Places /\ Nowhere \in Places
    BY WhereIsAPlace DEF Places
  <2>3. Put(stack[i].card, Where(stack[i]), Nowhere, Of(stack[i].card, "graveyard")) \in Call
    BY <1>4, <2>1, <2>2, PutIsACall
  <2>. QED
    BY <2>3 DEF Fizzle
<1>. QED
  BY <1>3, <1>5, StaysIInv DEF Fizzle, IInv

LEMMA BuryIInv == ASSUME IInv, NEW c \in Cards, Bury(c) PROVE IInv'
<1>1. Of(c, "graveyard") \in Zones
  BY OfIsAZone DEF Kinds
<1>. QED
  BY <1>1, PutOnly, BeginIInv DEF Bury

LEMMA ChangeControllerIInv ==
  ASSUME IInv, NEW c \in Cards, NEW p \in Players, ChangeController(c, p)
  PROVE  IInv'
<1>1. <<p, "battlefield">> \in Zones
  BY DEF Zones, Kinds
<1>. QED
  BY <1>1, PutOnly, BeginIInv DEF ChangeController

LEMMA CreateIInv == ASSUME IInv, NEW t \in Tokens, Create(t) PROVE IInv'
<1>1. t \in Cards
  BY DEF Cards
<1>2. /\ Of(t, "temp") \in Zones /\ Of(t, "battlefield") \in Zones
      /\ Of(t, "temp") \in Places /\ Nowhere \in Places
  BY OfIsAZone DEF Kinds, Places
<1>3. \A z \in Zones : t \notin ToSet(cards[z])
  BY CurrentZoneIs DEF Create, IInv
<1>4. PICK new : new = cards'
  OBVIOUS
<1>5. PICK z0 \in Zones : z0 = Of(t, "temp")
  BY <1>2
<1>6. new = With(cards, z0, t)
  BY <1>4, <1>5 DEF Create, With
<1>7. /\ Apart(cards')
      /\ \A z \in Zones : ToSet(cards[z]) \subseteq ToSet(cards'[z])
  <2>1. Apart(cards)
    BY DEF IInv
  <2>2. Apart(new) /\ \A z \in Zones : ToSet(cards[z]) \subseteq ToSet(new[z])
    BY <1>1, <1>3, <1>6, <2>1, AddedOnce
  <2>. QED
    BY <1>4, <2>2
<1>8. AllThere(cards')
  BY <1>7 DEF IInv, AllThere
<1>9. Put(t, Of(t, "temp"), Nowhere, Of(t, "battlefield")) \in Call
  BY <1>1, <1>2, PutIsACall
<1>10. calls' \in Seq(Call)
  <2>1. <<Put(t, Of(t, "temp"), Nowhere, Of(t, "battlefield"))>> \in Seq(Call)
    BY <1>9
  <2>. QED
    BY <2>1 DEF Create
<1>. QED
  BY <1>7, <1>8, <1>10 DEF Create, IInv, Apart, AllThere

LEMMA ShuffledIsCalls ==
  ASSUME IInv, NEW p \in Players
  PROVE  Shuffled(p) \in Seq(Call)
<1>1. PICK n \in Nat : placeOnTop[p] \in [1..n -> Cards]
  BY SeqDef DEF IInv
<1>2. <<p, "temp">> \in Places /\ <<p, "library">> \in Places /\ <<p, "library">> \in Zones
  BY DEF Zones, Kinds, Places
<1>3. \A c \in Cards : Put(c, <<p, "temp">>, <<p, "library">>, <<p, "library">>) \in Call
  BY <1>2, PutIsACall
<1>4. Shuffled(p) \in [1..n -> Call]
  BY <1>1, <1>3 DEF Shuffled
<1>. QED
  BY <1>4, SeqDef

LEMMA CloseLibraryIInv ==
  ASSUME IInv, NEW p \in Players, CloseLibrary(p)
  PROVE  IInv'
<1>. DEFINE z == <<p, "library">>
<1>1. z \in Zones
  BY DEF Zones, Kinds
<1>2. PICK order \in Bijection(DOMAIN cards[z], DOMAIN cards[z]) :
        cards' = [cards EXCEPT ![z] = [i \in DOMAIN cards[z] |-> cards[z][order[i]]]]
  BY DEF CloseLibrary, Shuffles
<1>3. cards[z] \in Seq(Cards) /\ IsInjective(cards[z]) /\ cards \in [Zones -> Seq(Cards)]
  BY <1>1 DEF IInv, Apart
<1>4. PICK r, s : s = cards[z] /\ r = [i \in DOMAIN s |-> s[order[i]]]
  OBVIOUS
<1>5. r \in Seq(Cards) /\ IsInjective(r) /\ ToSet(r) = ToSet(cards[z])
  <2>1. s \in Seq(Cards) /\ IsInjective(s) /\ order \in Bijection(DOMAIN s, DOMAIN s)
    BY <1>3, <1>4
  <2>2. r = [i \in DOMAIN s |-> s[order[i]]]
    BY <1>4
  <2>3. r \in Seq(Cards) /\ IsInjective(r) /\ ToSet(r) = ToSet(s)
    BY <2>1, <2>2, ReorderedIs
  <2>. QED
    BY <1>4, <2>3
<1>6. cards' = [cards EXCEPT ![z] = r]
  BY <1>2, <1>4
<1>. HIDE DEF z
<1>7. /\ cards' \in [Zones -> Seq(Cards)]
      /\ \A y \in Zones : ToSet(cards'[y]) = ToSet(cards[y])
      /\ \A y \in Zones : IsInjective(cards'[y])
  BY <1>1, <1>3, <1>5, <1>6 DEF IInv, Apart
<1>8. Apart(cards') /\ AllThere(cards')
  BY <1>7 DEF IInv, Apart, AllThere
<1>9. [Then("clear", Nowhere) EXCEPT !.to = <<p, "library">>] \in Call
  BY <1>1 DEF Then, Call, ClearCall, z
<1>10. calls' \in Seq(Call)
  BY <1>9, ShuffledIsCalls, AndThen DEF CloseLibrary
<1>. QED
  BY <1>8, <1>10 DEF CloseLibrary, IInv, Apart, AllThere

LEMMA NextIInv == ASSUME ConstantsAssumption, IInv, [Next]_vars PROVE IInv'
<1>1. CASE Settle
  BY <1>1, DeliverIInv, MoveIInv, AddCounterIInv, TransformIInv, ReturnIInv, ClearIInv,
     AddSpellIInv DEF Settle
<1>2. CASE \E p \in Players, kind \in {"hand", "graveyard"} : Take(p, kind)
  BY <1>2, TakeIInv
<1>3. CASE \E c \in Creatures \cup Instants : Cast(c)
  BY <1>3, CastIInv
<1>4. CASE \E c \in Cards, effect \in Effects : Target(c, effect)
  BY <1>4, TargetIInv
<1>5. CASE Resolve
  BY <1>5, ResolveIInv
<1>6. CASE \E i \in DOMAIN stack : Fizzle(i)
  BY <1>6, FizzleIInv
<1>7. CASE \E c \in Cards : Bury(c)
  BY <1>7, BuryIInv
<1>8. CASE \E c \in Cards, p \in Players : ChangeController(c, p)
  BY <1>8, ChangeControllerIInv
<1>9. CASE \E t \in Tokens : Create(t)
  BY <1>9, CreateIInv
<1>10. CASE \E p \in Players : CloseLibrary(p)
  BY <1>10, CloseLibraryIInv
<1>11. CASE UNCHANGED vars
  BY <1>11 DEF vars, IInv, Apart, AllThere
<1>. QED
  BY <1>1, <1>2, <1>3, <1>4, <1>5, <1>6, <1>7, <1>8, <1>9, <1>10, <1>11 DEF Next

\* Whatever the cards, the effects and the length of the stack: a card is in
\* one zone, once, after every move of MTGPlayerCards::putInZone, however many
\* effects and rules move it while others still point to it.
THEOREM CardsAreInOneZone == Spec => []OneZonePerCard
<1>1. Init => IInv
  BY InitIInv, ConstantsAssumption
<1>2. IInv /\ [Next]_vars => IInv'
  BY NextIInv, ConstantsAssumption
<1>3. IInv => OneZonePerCard
  BY IInvPlaces
<1>. QED
  BY <1>1, <1>2, <1>3, PTL DEF Spec

=============================================================================
