---------------------------- MODULE Zones_settling ----------------------------
(***************************************************************************)
(* What an effect sets off, until it has settled: one card at a time is on  *)
(* its way, one event at most waits, and the rules that answer it leave the *)
(* card where the game wants it.  For any cards, effects and bounds.        *)
(***************************************************************************)
EXTENDS Zones_proofs

USE DEF Players, Nowhere

\* Other effects leave the cards of spells on the stack alone.
SpellsLeftAlone == \A e \in Effects : "stack" \notin {e[2], e[3]}

Play == <<0, "battlefield">>

-----------------------------------------------------------------------------
(* What holds of a card that is not on its way.                            *)

At(c, z) == z \in Zones /\ c \in ToSet(cards[z])
In(c, kind) == \E p \in Players : At(c, <<p, kind>>)

HasSpell(c) == \E i \in DOMAIN stack : stack[i].what = "spell" /\ stack[i].card = c

\* The cards of which UnearthedIsExiled speaks.
Mourned == mourned \ (Persisting \cup Tokens)

TokenFits(d) == d \in Tokens => \A z \in Zones : At(d, z) => z[2] \in {"battlefield", "garbage"}
MournedFits(d) == SpellsLeftAlone => (d \in Mourned => In(d, "exile"))
SpellFits(d) == SpellsLeftAlone => (In(d, "stack") <=> HasSpell(d))

Fits(d) == TokenFits(d) /\ MournedFits(d) /\ SpellFits(d)

\* "temp" holds what is set aside for the top of a library.
Kept == \A p \in Players : cards[<<p, "temp">>] = placeOnTop[p]

-----------------------------------------------------------------------------
(* What holds always.                                                      *)

\* The place of what an item on the stack points at.
ItemsPoint ==
  \A i \in DOMAIN stack : stack[i].live =>
    \E z \in Zones :
      /\ At(stack[i].card, z) /\ z[2] \in Named
      /\ SpellsLeftAlone /\ stack[i].what # "spell" => z[2] # "stack"

\* Where it is to go.
ItemsGo ==
  \A i \in DOMAIN stack : stack[i].what # "spell" =>
    /\ stack[i].to[2] \in Named
    /\ SpellsLeftAlone => stack[i].to[2] # "stack"

\* A spell has its card, and no other spell has it.
SpellsDiffer ==
  SpellsLeftAlone =>
    \A i, j \in DOMAIN stack :
      /\ stack[i].what = "spell" => stack[i].live
      /\ (stack[i].what = "spell" /\ stack[j].what = "spell" /\ stack[i].card = stack[j].card) => i = j

Steady ==
  /\ IInv
  /\ minus \subseteq Cards /\ unearthed \subseteq Cards /\ mourned \subseteq Cards
  /\ needShuffle \subseteq Players
  /\ ItemsPoint /\ ItemsGo /\ SpellsDiffer

-----------------------------------------------------------------------------
(* What is under way.                                                      *)

IsPut(m, c, from, before, to) ==
  m.do = "put" /\ m.card = c /\ m.from = from /\ m.before = before /\ m.to = to

What(s) == IF s = <<>> THEN "nothing" ELSE Head(s).do

\* A put that finds its card in no zone.
Void(s) == s # <<>> /\ Head(s).do = "put" /\ Head(s).from = Nowhere

\* The calls but for a first one that moves no card.
Left(s) == IF What(s) = "counter" \/ Void(s) THEN Tail(s) ELSE s

\* The last thing that an effect does with c, when its events have been heard.
OneLast(s, c) ==
  s # <<>> =>
    /\ Tail(s) = <<>>
    /\ Head(s).card = c /\ ~Head(s).nested
    /\ Head(s).do \in {"transform", "return", "spell", "put"}
    /\ Head(s).do = "put" => IsPut(Head(s), c, Play, Nowhere, Play)

\* Nothing more will move c.
Ending(s, c) ==
  /\ OneLast(Left(s), c) /\ What(Left(s)) \in {"nothing", "transform"}
  /\ ~Void(s) /\ (What(s) = "counter" => Head(s).nested)

\* Nothing waits and nothing is to be done.
Idle == Settled /\ Kept /\ \A d \in Cards : Fits(d)

\* The others are where they should be when c is on its way.
Others(c) == \A d \in Cards : d # c => Fits(d)

\* The event that waits, if any, is of c and says where it is.
Told(c) ==
  \A i \in DOMAIN eventsQueue :
    LET e == eventsQueue[i] IN
    /\ i = 1
    /\ e.live /\ e.card = c /\ At(c, e.to)
    /\ "temp" \notin {e.from[2], e.to[2]}
    /\ e.from = Nowhere => c \in Tokens
    /\ e.persists => c \in Persisting

\* c has arrived somewhere; what is left to do fits that.
Calm(c) ==
  LET w == What(Left(calls)) IN
  /\ Told(c) /\ Kept
  /\ OneLast(Left(calls), c)
  /\ What(calls) = "counter" => Head(calls).nested
  /\ Void(calls) => eventsQueue = <<>>
  /\ Left(calls) # calls => w \in {"nothing", "transform"} \/ (w = "return" /\ c \in Tokens)
  /\ w = "return" => c \in Tokens \/ In(c, "exile")
  /\ w = "put" => c \notin Tokens /\ At(c, Play)
  /\ w = "spell" => c \notin Tokens /\ In(c, "stack")
  /\ SpellsLeftAlone => /\ w \notin {"nothing", "transform"} \/ eventsQueue # <<>> => ~HasSpell(c)
                        /\ In(c, "stack") <=> HasSpell(c) \/ w = "spell"
  /\ c \in Tokens => TokenFits(c) \/ eventsQueue # <<>>
  /\ SpellsLeftAlone /\ c \in Mourned =>
       In(c, "exile") \/ (eventsQueue # <<>> /\ UnearthRule(eventsQueue[1]))

\* c is about to be put from where it is.
Placing(c) ==
  LET m == Head(calls)
      w == What(Tail(calls))
  IN
  /\ eventsQueue = <<>> /\ Kept
  /\ calls # <<>> /\ m.do = "put" /\ m.card = c /\ At(c, m.from)
  /\ "temp" \notin {m.from[2], m.to[2]}
  /\ m.to[2] = "garbage" => c \in Tokens
  /\ c \in Tokens => ~SetAside(m.from, m.to)
  /\ OneLast(Tail(calls), c)
  /\ w = "return" => c \in Tokens \/ m.to[2] = "exile"
  /\ w = "put" => c \notin Tokens /\ m.to = Play
  /\ w = "spell" => c \notin Tokens /\ m.from[2] = "hand" /\ m.to[2] = "stack"
  /\ SpellsLeftAlone => /\ ~HasSpell(c)
                        /\ m.to[2] = "stack" => w = "spell"
                        /\ c \in Mourned => "exile" \in {m.from[2], m.to[2]}

\* c is about to be put into play, through "temp".
Entering(c) ==
  LET m == Head(calls)
      n == Head(Tail(calls))
  IN
  /\ eventsQueue = <<>> /\ Kept /\ c \notin Tokens
  /\ calls # <<>> /\ Tail(calls) # <<>>
  /\ At(c, m.from) /\ m.from[2] \notin {"temp", "battlefield"}
  /\ IsPut(m, c, m.from, m.from, <<0, "temp">>)
  /\ IsPut(n, c, <<0, "temp">>, m.from, n.to) /\ InPlay(n.to)
  /\ Ending(Tail(Tail(calls)), c)
  /\ SpellsLeftAlone => ~HasSpell(c) /\ (c \in Mourned => m.from[2] = "exile")

\* c is in "temp", after what is set aside.
Entered(c) ==
  LET n == Head(calls) IN
  /\ eventsQueue = <<>>
  /\ cards[<<0, "temp">>] = Append(placeOnTop[0], c)
  /\ cards[<<1, "temp">>] = placeOnTop[1]
  /\ calls # <<>>
  /\ IsPut(n, c, <<0, "temp">>, n.before, n.to) /\ InPlay(n.to)
  /\ n.before[2] # "temp" /\ (n.before = Nowhere => c \in Tokens)
  /\ Ending(Tail(calls), c)
  /\ SpellsLeftAlone => ~HasSpell(c) /\ c \notin Mourned

\* The cards from the k-th on are yet to be put back on the library of p:
\* this is to be done, ...
ToPutBack(p, k) ==
  LET n == Len(placeOnTop[p]) IN
  /\ k \in 1..(n + 1)
  /\ Len(calls) = n + 2 - k
  /\ \A i \in 1..(n + 1 - k) :
       IsPut(calls[i], placeOnTop[p][k + i - 1], <<p, "temp">>, <<p, "library">>, <<p, "library">>)
  /\ calls[n + 2 - k].do = "clear" /\ calls[n + 2 - k].to = <<p, "library">>
  /\ \A i \in 1..(n + 2 - k) : ~calls[i].nested

\* ... so far it has been done, ...
PutBack(p, k) ==
  LET s == placeOnTop[p] IN
  /\ cards[<<p, "temp">>] = SubSeq(s, k, Len(s))
  /\ \A q \in Players : q # p => cards[<<q, "temp">>] = placeOnTop[q]
  /\ \E front \in Seq(Cards) : cards[<<p, "library">>] = front \o SubSeq(s, 1, k - 1)

\* ... and this is told.
ToldBack(p) ==
  \A i \in DOMAIN eventsQueue :
    LET e == eventsQueue[i] IN
    /\ i = 1 /\ e.live /\ e.card \notin Tokens
    /\ At(e.card, <<p, "library">>)
    /\ e.from = <<p, "library">> /\ e.to = <<p, "library">>

Closing(p, k) ==
  ToPutBack(p, k) /\ PutBack(p, k) /\ ToldBack(p) /\ \A d \in Cards : Fits(d)

Settling ==
  \/ Idle
  \/ \E c \in Cards : Others(c) /\ (Calm(c) \/ Placing(c) \/ Entering(c) \/ Entered(c))
  \/ \E p \in Players : \E k \in 1..(Len(placeOnTop[p]) + 1) : Closing(p, k)

WInv == Steady /\ Settling

-----------------------------------------------------------------------------
(* Sequences.                                                              *)

LEMMA FirstThen ==
  ASSUME NEW S, NEW a \in S, NEW s \in Seq(S)
  PROVE  <<a>> \o s # <<>> /\ Head(<<a>> \o s) = a /\ Tail(<<a>> \o s) = s
<1>. DEFINE r == <<a>> \o s
<1>1. <<a>> \in Seq(S) /\ Len(<<a>>) = 1 /\ <<a>>[1] = a
  OBVIOUS
<1>2. PICK n \in Nat : n = Len(s)
  BY LenProperties
<1>3. /\ r \in Seq(S) /\ Len(r) = 1 + n
      /\ \A i \in 1..(1 + n) : r[i] = IF i <= 1 THEN <<a>>[i] ELSE s[i - 1]
  BY <1>1, <1>2, ConcatTyped
<1>. HIDE DEF r
<1>4. r # <<>>
  <2>1. Len(r) # 0
    BY <1>2, <1>3
  <2>. QED
    BY <2>1, EmptySeq
<1>5. r[1] = a
  BY <1>1, <1>2, <1>3
<1>6. /\ Tail(r) \in Seq(S) /\ Len(Tail(r)) = n
      /\ \A i \in 1..n : Tail(r)[i] = r[i + 1]
  BY <1>2, <1>3, <1>4, HeadTailProperties
<1>7. \A i \in 1..n : r[i + 1] = s[i]
  BY <1>2, <1>3
<1>8. Tail(r) = s
  BY <1>2, <1>6, <1>7, SeqEqual
<1>. QED
  BY <1>4, <1>5, <1>8 DEF r

LEMMA OnlyOne ==
  ASSUME NEW S, NEW a \in S
  PROVE  <<a>> \in Seq(S) /\ <<a>> # <<>> /\ Head(<<a>>) = a /\ Tail(<<a>>) = <<>>
<1>1. <<a>> \in Seq(S) /\ <<>> \in Seq(S)
  BY EmptySeq
<1>2. <<a>> \o <<>> = <<a>>
  BY <1>1, ConcatEmptySeq
<1>. QED
  BY <1>1, <1>2, FirstThen

LEMMA AsPair ==
  ASSUME NEW S, NEW a \in S, NEW b \in S
  PROVE  <<a, b>> = <<a>> \o <<b>>
<1>1. <<a, b>> \in Seq(S) /\ Len(<<a, b>>) = 2 /\ <<a, b>>[1] = a /\ <<a, b>>[2] = b
  OBVIOUS
<1>2. /\ <<a>> \in Seq(S) /\ Len(<<a>>) = 1 /\ <<a>>[1] = a
      /\ <<b>> \in Seq(S) /\ Len(<<b>>) = 1 /\ <<b>>[1] = b
  OBVIOUS
<1>3. /\ <<a>> \o <<b>> \in Seq(S) /\ Len(<<a>> \o <<b>>) = 1 + 1
      /\ \A i \in 1..(1 + 1) : (<<a>> \o <<b>>)[i] = IF i <= 1 THEN <<a>>[i] ELSE <<b>>[i - 1]
  BY <1>2, ConcatTyped
<1>4. PICK p, q : p = <<a, b>> /\ q = <<a>> \o <<b>>
  OBVIOUS
<1>5. p \in Seq(S) /\ Len(p) = 2 /\ q \in Seq(S) /\ Len(q) = 2
  BY <1>1, <1>3, <1>4
<1>6. p[1] = a /\ p[2] = b /\ q[1] = a
  BY <1>1, <1>2, <1>3, <1>4
<1>7. q[2] = b
  <2>1. 2 \in 1..(1 + 1) /\ ~(2 <= 1) /\ 2 - 1 = 1
    OBVIOUS
  <2>2. q[2] = <<b>>[2 - 1]
    BY <1>3, <1>4, <2>1
  <2>. QED
    BY <1>2, <2>1, <2>2
<1>8. \A i \in 1..2 : p[i] = q[i]
  BY <1>6, <1>7
<1>9. p = q
  BY <1>5, <1>8, SeqEqual
<1>. QED
  BY <1>4, <1>9

LEMMA AsTriple ==
  ASSUME NEW S, NEW a \in S, NEW b \in S, NEW c \in S
  PROVE  <<a, b, c>> = <<a, b>> \o <<c>>
<1>1. /\ <<a, b, c>> \in Seq(S) /\ Len(<<a, b, c>>) = 3
      /\ <<a, b, c>>[1] = a /\ <<a, b, c>>[2] = b /\ <<a, b, c>>[3] = c
  OBVIOUS
<1>2. /\ <<a, b>> \in Seq(S) /\ Len(<<a, b>>) = 2 /\ <<a, b>>[1] = a /\ <<a, b>>[2] = b
      /\ <<c>> \in Seq(S) /\ Len(<<c>>) = 1 /\ <<c>>[1] = c
  OBVIOUS
<1>3. /\ <<a, b>> \o <<c>> \in Seq(S) /\ Len(<<a, b>> \o <<c>>) = 2 + 1
      /\ \A i \in 1..(2 + 1) : (<<a, b>> \o <<c>>)[i] = IF i <= 2 THEN <<a, b>>[i] ELSE <<c>>[i - 2]
  BY <1>2, ConcatTyped
<1>4. \A i \in 1..3 : <<a, b, c>>[i] = (<<a, b>> \o <<c>>)[i]
  BY <1>1, <1>2, <1>3
<1>. QED
  BY <1>1, <1>3, <1>4, SeqEqual

\* Calls before other calls.
Onto(a, s) == <<a>> \o s
TwoOnto(a, b, s) == <<a, b>> \o s
ThreeOnto(a, b, c, s) == <<a, b, c>> \o s

LEMMA OneOnto ==
  ASSUME NEW a \in Call, NEW s \in Seq(Call)
  PROVE  /\ Onto(a, s) \in Seq(Call) /\ Onto(a, s) # <<>>
         /\ Head(Onto(a, s)) = a /\ Tail(Onto(a, s)) = s
<1>1. <<a>> \in Seq(Call)
  OBVIOUS
<1>. QED
  BY <1>1, ConcatTyped, FirstThen DEF Onto

LEMMA TwoThen ==
  ASSUME NEW a \in Call, NEW b \in Call, NEW s \in Seq(Call)
  PROVE  TwoOnto(a, b, s) = Onto(a, Onto(b, s))
<1>1. PICK two, x, y : two = <<a, b>> /\ x = <<a>> /\ y = <<b>>
  OBVIOUS
<1>2. x \in Seq(Call) /\ y \in Seq(Call)
  BY <1>1, OnlyOne
<1>3. two = x \o y
  <2>1. <<a, b>> = <<a>> \o <<b>>
    BY AsPair
  <2>. QED
    BY <1>1, <2>1, Zenon
<1>4. (x \o y) \o s = x \o (y \o s)
  BY <1>2, ConcatAssociative
<1>. QED
  BY <1>1, <1>3, <1>4, Zenon DEF Onto, TwoOnto

LEMMA ThreeThen ==
  ASSUME NEW a \in Call, NEW b \in Call, NEW c \in Call, NEW s \in Seq(Call)
  PROVE  ThreeOnto(a, b, c, s) = Onto(a, Onto(b, Onto(c, s)))
<1>1. PICK two, x, y, z : two = <<a, b>> /\ x = <<a>> /\ y = <<b>> /\ z = <<c>>
  OBVIOUS
<1>2. two \in Seq(Call) /\ x \in Seq(Call) /\ y \in Seq(Call) /\ z \in Seq(Call)
  BY <1>1, OnlyOne
<1>3. two = x \o y /\ <<a, b, c>> = two \o z
  <2>1. <<a, b>> = <<a>> \o <<b>>
    BY AsPair
  <2>2. <<a, b, c>> = <<a, b>> \o <<c>>
    BY AsTriple
  <2>. QED
    BY <1>1, <2>1, <2>2, Zenon
<1>4. PICK t : t = z \o s
  OBVIOUS
<1>5. t \in Seq(Call)
  BY <1>2, <1>4, ConcatTyped
<1>6. (two \o z) \o s = two \o (z \o s)
  <2>1. two \in Seq(Call) /\ z \in Seq(Call)
    BY <1>2
  <2>. QED
    BY <2>1, ConcatAssociative
<1>7. (x \o y) \o t = x \o (y \o t)
  <2>1. x \in Seq(Call) /\ y \in Seq(Call) /\ t \in Seq(Call)
    BY <1>2, <1>5
  <2>. QED
    BY <2>1, ConcatAssociative
<1>. QED
  BY <1>1, <1>3, <1>4, <1>6, <1>7, Zenon DEF Onto, ThreeOnto

\* r has two calls, or three, before those of s.
AreTwo(r, a, b, s) ==
  /\ r # <<>> /\ Head(r) = a /\ Tail(r) # <<>> /\ Head(Tail(r)) = b
  /\ Tail(Tail(r)) = s

AreThree(r, a, b, c, s) ==
  /\ r # <<>> /\ Head(r) = a /\ Tail(r) # <<>> /\ Head(Tail(r)) = b
  /\ Tail(Tail(r)) # <<>> /\ Head(Tail(Tail(r))) = c /\ Tail(Tail(Tail(r))) = s

LEMMA TwoInTurn ==
  ASSUME NEW a \in Call, NEW b \in Call, NEW s \in Seq(Call)
  PROVE  AreTwo(TwoOnto(a, b, s), a, b, s)
<1>1. PICK t \in Seq(Call) : t = Onto(b, s)
  BY OneOnto
<1>2. t # <<>> /\ Head(t) = b /\ Tail(t) = s
  BY <1>1, OneOnto
<1>3. PICK r : r = TwoOnto(a, b, s)
  OBVIOUS
<1>4. r = Onto(a, t)
  BY <1>1, <1>3, TwoThen
<1>5. r # <<>> /\ Head(r) = a /\ Tail(r) = t
  BY <1>4, OneOnto
<1>6. AreTwo(r, a, b, s)
  BY <1>2, <1>5, Zenon DEF AreTwo
<1>. QED
  BY <1>3, <1>6

LEMMA ThreeInTurn ==
  ASSUME NEW a \in Call, NEW b \in Call, NEW c \in Call, NEW s \in Seq(Call)
  PROVE  AreThree(ThreeOnto(a, b, c, s), a, b, c, s)
<1>1. PICK t \in Seq(Call) : t = Onto(c, s)
  BY OneOnto
<1>2. t # <<>> /\ Head(t) = c /\ Tail(t) = s
  BY <1>1, OneOnto
<1>3. PICK u \in Seq(Call) : u = Onto(b, t)
  BY OneOnto
<1>4. u # <<>> /\ Head(u) = b /\ Tail(u) = t
  BY <1>3, OneOnto
<1>5. PICK r : r = ThreeOnto(a, b, c, s)
  OBVIOUS
<1>6. r = Onto(a, u)
  BY <1>1, <1>3, <1>5, ThreeThen
<1>7. r # <<>> /\ Head(r) = a /\ Tail(r) = u
  BY <1>6, OneOnto
<1>8. AreThree(r, a, b, c, s)
  BY <1>2, <1>4, <1>7, Zenon DEF AreThree
<1>. QED
  BY <1>5, <1>8

LEMMA AppendHas ==
  ASSUME NEW S, NEW s \in Seq(S), NEW c \in S
  PROVE  c \in ToSet(Append(s, c))
<1>1. PICK n \in Nat : n = Len(s)
  BY LenProperties
<1>2. PICK r : r = Append(s, c)
  OBVIOUS
<1>3. r \in Seq(S) /\ Len(r) = n + 1 /\ r[n + 1] = c
  BY <1>1, <1>2, AppendProperties
<1>4. n + 1 \in DOMAIN r
  BY <1>3, LenProperties
<1>. QED
  BY <1>2, <1>3, <1>4 DEF ToSet

\* What was added last is taken out again.
LEMMA AddedAndTaken ==
  ASSUME NEW S, NEW s \in Seq(S), NEW c \in S, NEW i \in 1..(Len(s) + 1),
         Append(s, c)[i] = c, \A j \in 1..Len(s) : s[j] # c
  PROVE  RemoveAt(Append(s, c), i) = s
<1>1. PICK n \in Nat : n = Len(s)
  BY LenProperties
<1>2. PICK r : r = Append(s, c)
  OBVIOUS
<1>3. /\ r \in Seq(S) /\ Len(r) = n + 1
      /\ \A j \in 1..n : r[j] = s[j]
  BY <1>1, <1>2, AppendProperties
<1>4. i = n + 1
  BY <1>1, <1>2, <1>3
<1>5. /\ RemoveAt(r, i) \in Seq(S) /\ Len(RemoveAt(r, i)) = n
      /\ \A j \in 1..n : RemoveAt(r, i)[j] = IF j < i THEN r[j] ELSE r[j + 1]
  BY <1>1, <1>3, RemoveAtIs
<1>6. \A j \in 1..n : RemoveAt(r, i)[j] = s[j]
  BY <1>3, <1>4, <1>5
<1>. QED
  BY <1>1, <1>2, <1>5, <1>6, SeqEqual

LEMMA WithoutFirst ==
  ASSUME NEW S, NEW r \in Seq(S), NEW m \in Nat, m + 1 = Len(r)
  PROVE  /\ RemoveAt(r, 1) \in Seq(S) /\ Len(RemoveAt(r, 1)) = m
         /\ \A j \in 1..m : RemoveAt(r, 1)[j] = IF j < 1 THEN r[j] ELSE r[j + 1]
<1>1. PICK i \in 1..Len(r) : i = 1
  OBVIOUS
<1>2. /\ RemoveAt(r, i) \in Seq(S) /\ Len(RemoveAt(r, i)) = m
      /\ \A j \in 1..m : RemoveAt(r, i)[j] = IF j < i THEN r[j] ELSE r[j + 1]
  BY RemoveAtIs, Zenon
<1>. QED
  BY <1>1, <1>2, Zenon

\* The first of a sequence is taken out.
LEMMA FirstTaken ==
  ASSUME NEW S, NEW s \in Seq(S), NEW k \in 1..Len(s), IsInjective(SubSeq(s, k, Len(s))),
         NEW i \in DOMAIN SubSeq(s, k, Len(s)), SubSeq(s, k, Len(s))[i] = s[k]
  PROVE  RemoveAt(SubSeq(s, k, Len(s)), i) = SubSeq(s, k + 1, Len(s))
<1>1. PICK n \in Nat : n = Len(s)
  BY LenProperties
<1>. DEFINE m == n - k
<1>2. m \in Nat /\ m + 1 = n + 1 - k /\ k \in Nat \ {0}
  BY <1>1
<1>3. PICK r : r = SubSeq(s, k, n)
  OBVIOUS
<1>4. /\ r \in Seq(S) /\ Len(r) = m + 1
      /\ \A j \in 1..(m + 1) : r[j] = s[k + j - 1]
  <2>1. n <= Len(s) /\ k <= n + 1 /\ m + 1 \in Nat
    BY <1>1, <1>2
  <2>. HIDE DEF m
  <2>. QED
    BY <1>2, <1>3, <2>1, SubSeqTyped
<1>5. i = 1
  <2>1. DOMAIN r = 1..(m + 1)
    BY <1>4, LenProperties
  <2>2. r[1] = s[k] /\ r[i] = s[k] /\ 1 \in DOMAIN r
    BY <1>1, <1>2, <1>3, <1>4, <2>1
  <2>. QED
    BY <1>1, <1>3, <2>1, <2>2 DEF IsInjective
<1>6. /\ RemoveAt(r, 1) \in Seq(S) /\ Len(RemoveAt(r, 1)) = m
      /\ \A j \in 1..m : RemoveAt(r, 1)[j] = IF j < 1 THEN r[j] ELSE r[j + 1]
  <2>1. 1 \in 1..Len(r) /\ m + 1 = Len(r)
    BY <1>2, <1>4
  <2>2. m \in Nat /\ r \in Seq(S)
    BY <1>2, <1>4
  <2>. HIDE DEF m
  <2>. QED
    BY <2>1, <2>2, WithoutFirst, Zenon
<1>7. /\ SubSeq(s, k + 1, n) \in Seq(S) /\ Len(SubSeq(s, k + 1, n)) = m
      /\ \A j \in 1..m : SubSeq(s, k + 1, n)[j] = s[(k + 1) + j - 1]
  <2>1. n <= Len(s) /\ k + 1 <= n + 1 /\ k + 1 \in Nat \ {0} /\ m = n + 1 - (k + 1)
    BY <1>1, <1>2
  <2>. QED
    BY <1>1, <1>2, <2>1, SubSeqTyped
<1>8. \A j \in 1..m : RemoveAt(r, 1)[j] = SubSeq(s, k + 1, n)[j]
  <2>1. SUFFICES ASSUME NEW j \in 1..m PROVE RemoveAt(r, 1)[j] = SubSeq(s, k + 1, n)[j]
    OBVIOUS
  <2>2. RemoveAt(r, 1)[j] = r[j + 1]
    BY <1>2, <1>6
  <2>3. r[j + 1] = s[k + (j + 1) - 1]
    BY <1>2, <1>4
  <2>4. k + (j + 1) - 1 = (k + 1) + j - 1
    BY <1>2
  <2>. QED
    BY <1>7, <2>2, <2>3, <2>4
<1>9. RemoveAt(r, 1) = SubSeq(s, k + 1, n)
  BY <1>6, <1>7, <1>8, SeqEqual
<1>. QED
  BY <1>1, <1>3, <1>5, <1>9

-----------------------------------------------------------------------------
(* Where a card is.                                                        *)

LEMMA OnePlace ==
  ASSUME IInv, NEW c, NEW z, At(c, z)
  PROVE  /\ currentZone(c) = z
         /\ \A y : At(c, y) => y = z
<1>1. \A y : At(c, y) => y = z
  BY DEF At, IInv, Apart
<1>2. currentZone(c) # Nowhere
  BY CurrentZoneIs DEF At, IInv
<1>3. At(c, currentZone(c))
  <2>1. \A y \in Zones : Contains(cards[y], c) <=> c \in ToSet(cards[y])
    BY ContainsIs DEF IInv, Apart
  <2>2. \E y \in Zones : Contains(cards[y], c)
    BY <2>1 DEF At
  <2>. QED
    BY <2>1, <2>2 DEF At, currentZone
<1>. QED
  BY <1>1, <1>3

LEMMA SomePlace ==
  ASSUME IInv, NEW c, NEW z, currentZone(c) = z, z # Nowhere
  PROVE  At(c, z)
<1>1. PICK y \in Zones : c \in ToSet(cards[y])
  BY CurrentZoneIs DEF IInv
<1>. QED
  BY <1>1, OnePlace DEF At

LEMMA InIs ==
  ASSUME IInv, NEW c, NEW z, At(c, z), NEW kind
  PROVE  In(c, kind) <=> z[2] = kind
<1>1. z \in Zones /\ z[1] \in Players /\ z = <<z[1], z[2]>>
  BY DEF At, Zones
<1>2. In(c, kind) => z[2] = kind
  BY OnePlace DEF In
<1>3. z[2] = kind => In(c, kind)
  BY <1>1 DEF In
<1>. QED
  BY <1>2, <1>3

-----------------------------------------------------------------------------
(* What putInZone does with a card that is where it is to come from.       *)

LEMMA PutMoves ==
  ASSUME IInv, NEW c \in Cards, NEW from, At(c, from), NEW before, NEW to \in Zones,
         putInZone(c, from, before, to),
         NEW dest, dest = IF SetAside(from, to) THEN <<from[1], "temp">> ELSE to
  PROVE  /\ dest \in Zones
         /\ \A d, z : d # c => (At(d, z)' <=> At(d, z))
         /\ \A z : At(c, z)' <=> z = dest
         /\ \A z \in Zones : z \notin {from, dest} => cards'[z] = cards[z]
         /\ from # dest => /\ cards'[dest] = Append(cards[dest], c)
                           /\ \E i \in DOMAIN cards[from] :
                                cards[from][i] = c /\ cards'[from] = RemoveAt(cards[from], i)
<1>. DEFINE index == CHOOSE i \in DOMAIN cards[from] : cards[from][i] = c
            left == Without(cards, from, index)
<1>1. from \in Zones /\ dest \in Zones /\ Apart(cards)
  BY DEF At, Zones, Kinds, IInv
<1>2. Contains(cards[from], c)
  BY <1>1, ContainsIs DEF At, Apart
<1>3. index \in DOMAIN cards[from] /\ cards[from][index] = c
  <2>1. \E i \in DOMAIN cards[from] : cards[from][i] = c
    BY <1>1 DEF At, ToSet
  <2>. QED
    BY <2>1
<1>4. cards' = With(left, dest, c)
  BY <1>1, <1>2, NowhereIsNoZone DEF putInZone, removeCard, Without, With
<1>. HIDE DEF index
<1>5. /\ Apart(left)
      /\ \A z \in Zones : ToSet(left[z]) = ToSet(cards[z]) \ {c}
  <2>. DEFINE l == Without(cards, from, index)
  <2>1. Apart(l) /\ \A z \in Zones : ToSet(l[z]) = ToSet(cards[z]) \ {cards[from][index]}
    BY <1>1, <1>3, TakenOut
  <2>. QED
    BY <1>3, <2>1
<1>6. /\ left[from] = RemoveAt(cards[from], index)
      /\ \A z \in Zones : z # from => left[z] = cards[z]
  BY <1>1 DEF Apart, Without
<1>. HIDE DEF left
<1>7. /\ cards'[dest] = Append(left[dest], c)
      /\ \A z \in Zones : z # dest => cards'[z] = left[z]
  BY <1>1, <1>4, <1>5 DEF Apart, With
<1>8. ToSet(cards'[dest]) = ToSet(left[dest]) \cup {c}
  <2>1. left[dest] \in Seq(Cards) /\ IsInjective(left[dest]) /\ c \notin ToSet(left[dest])
    BY <1>1, <1>5 DEF Apart
  <2>. QED
    BY <1>7, <2>1, AppendAddsOne
<1>9. ASSUME NEW d, NEW z, d # c PROVE At(d, z)' <=> At(d, z)
  <2>1. \A y \in Zones : d \in ToSet(cards'[y]) <=> d \in ToSet(cards[y])
    <3>1. SUFFICES ASSUME NEW y \in Zones
                   PROVE  d \in ToSet(cards'[y]) <=> d \in ToSet(cards[y])
      OBVIOUS
    <3>2. d \in ToSet(left[y]) <=> d \in ToSet(cards[y])
      BY <1>5, <1>9
    <3>3. CASE y = dest
      BY <1>8, <1>9, <3>2, <3>3
    <3>4. CASE y # dest
      BY <1>7, <3>2, <3>4
    <3>. QED
      BY <3>3, <3>4
  <2>. QED
    BY <2>1 DEF At
<1>10. ASSUME NEW z PROVE At(c, z)' <=> z = dest
  BY <1>1, <1>5, <1>7, <1>8 DEF At
<1>11. \A z \in Zones : z \notin {from, dest} => cards'[z] = cards[z]
  BY <1>6, <1>7
<1>12. from # dest => /\ cards'[dest] = Append(cards[dest], c)
                      /\ \E i \in DOMAIN cards[from] :
                           cards[from][i] = c /\ cards'[from] = RemoveAt(cards[from], i)
  BY <1>1, <1>3, <1>6, <1>7
<1>. QED
  BY <1>1, <1>9, <1>10, <1>11, <1>12

LEMMA OutdatedIs ==
  ASSUME NEW s, NEW c
  PROVE  /\ DOMAIN Outdated(s, c) = DOMAIN s
         /\ \A i \in DOMAIN s :
              Outdated(s, c)[i] = IF s[i].card = c THEN [s[i] EXCEPT !.live = FALSE] ELSE s[i]
  BY DEF Outdated

\* The items on the stack stay; those that point at a card that moves do not
\* find it any more, unless it stays in play.
LEMMA StackKept ==
  ASSUME IInv, NEW c, NEW from, NEW to,
         stack' = IF SameObject(from, to) THEN stack ELSE Outdated(stack, c)
  PROVE  /\ DOMAIN stack' = DOMAIN stack
         /\ \A i \in DOMAIN stack :
              /\ stack'[i].what = stack[i].what /\ stack'[i].card = stack[i].card
              /\ stack'[i].to = stack[i].to
              /\ stack'[i].live => stack[i].live
              /\ stack[i].card # c => stack'[i] = stack[i]
              /\ stack[i].card = c /\ ~SameObject(from, to) => ~stack'[i].live
<1>1. \A i \in DOMAIN stack : stack[i] \in Item
  BY ElementOfSeq, LenProperties DEF IInv
<1>2. \A x \in Item : LET y == [x EXCEPT !.live = FALSE]
                      IN y.what = x.what /\ y.card = x.card /\ y.to = x.to /\ ~y.live
  BY DEF Item
<1>3. CASE SameObject(from, to)
  BY <1>3
<1>4. CASE ~SameObject(from, to)
  <2>1. stack' = Outdated(stack, c)
    BY <1>4
  <2>2. DOMAIN stack' = DOMAIN stack
    BY <2>1, OutdatedIs
  <2>3. ASSUME NEW i \in DOMAIN stack
        PROVE  stack'[i] = IF stack[i].card = c THEN [stack[i] EXCEPT !.live = FALSE] ELSE stack[i]
    BY <2>1, OutdatedIs
  <2>4. ASSUME NEW i \in DOMAIN stack
        PROVE  /\ stack'[i].what = stack[i].what /\ stack'[i].card = stack[i].card
               /\ stack'[i].to = stack[i].to
               /\ stack'[i].live => stack[i].live
               /\ stack[i].card # c => stack'[i] = stack[i]
               /\ stack[i].card = c => ~stack'[i].live
    <3>1. CASE stack[i].card = c
      BY <1>1, <1>2, <2>3, <3>1
    <3>2. CASE stack[i].card # c
      BY <2>3, <3>2
    <3>. QED
      BY <3>1, <3>2
  <2>. QED
    BY <2>2, <2>4
<1>. QED
  BY <1>3, <1>4

\* The event that is sent when none waits.
LEMMA PutTells ==
  ASSUME IInv, IInv', NEW c \in Cards, NEW from, At(c, from), NEW before, NEW to \in Zones,
         putInZone(c, from, before, to), eventsQueue = <<>>
  PROVE  /\ eventsQueue' = IF SetAside(from, to) \/ to[2] = "temp" THEN <<>> ELSE
              <<[card |-> c, live |-> TRUE, from |-> ToldFrom(from, before), to |-> to,
                 persists |-> c \in Persisting \ minus, unearthed |-> c \in unearthed]>>
<1>. DEFINE event == [card |-> c, live |-> TRUE, from |-> ToldFrom(from, before), to |-> to,
                      persists |-> c \in Persisting \ minus, unearthed |-> c \in unearthed]
            dest == IF SetAside(from, to) THEN <<from[1], "temp">> ELSE to
            known == IF SameObject(from, to) THEN eventsQueue ELSE Outdated(eventsQueue, c)
            more == IF dest[2] = "temp" THEN <<>> ELSE <<event>>
<1>1. from # Nowhere /\ Contains(cards[from], c)
  BY ContainsIs, NowhereIsNoZone DEF At, IInv, Apart
<1>2. eventsQueue' = known \o more
  BY <1>1 DEF putInZone
<1>3. known = <<>>
  <2>1. Outdated(eventsQueue, c) \in Seq(Event)
    BY OutdatedEvents DEF IInv
  <2>2. DOMAIN Outdated(eventsQueue, c) = DOMAIN eventsQueue
    BY OutdatedIs
  <2>3. DOMAIN eventsQueue = 1..0
    BY EmptySeq, LenProperties DEF IInv
  <2>4. Len(Outdated(eventsQueue, c)) = 0
    BY <2>1, <2>2, <2>3, LenProperties
  <2>5. Outdated(eventsQueue, c) = <<>>
    BY <2>1, <2>4, EmptySeq
  <2>. QED
    BY <2>5
<1>4. <<>> \o more = more
  <2>1. more \in Seq({event})
    BY OnlyOne, EmptySeq
  <2>. HIDE DEF more
  <2>. QED
    BY <2>1, ConcatEmptySeq
<1>5. eventsQueue' = more
  BY <1>2, <1>3, <1>4
<1>6. dest[2] = "temp" <=> SetAside(from, to) \/ to[2] = "temp"
  OBVIOUS
<1>. QED
  BY <1>5, <1>6

\* Of the others, the move of a card says nothing.
LEMMA OthersKept ==
  ASSUME NEW c, Others(c),
         \A d, z : d # c => (At(d, z)' <=> At(d, z)),
         \A d : d # c => (HasSpell(d)' <=> HasSpell(d)),
         \A d : d # c => (d \in mourned' <=> d \in mourned)
  PROVE  Others(c)'
<1>1. SUFFICES ASSUME NEW d \in Cards, d # c PROVE Fits(d)'
  BY DEF Others
<1>2. Fits(d)
  BY <1>1 DEF Others
<1>3. \A kind : In(d, kind)' <=> In(d, kind)
  BY <1>1 DEF In
<1>4. TokenFits(d)'
  BY <1>1, <1>2 DEF Fits, TokenFits
<1>5. MournedFits(d)'
  BY <1>1, <1>2, <1>3 DEF Fits, MournedFits, Mourned
<1>6. SpellFits(d)'
  BY <1>1, <1>2, <1>3 DEF Fits, SpellFits
<1>. QED
  BY <1>4, <1>5, <1>6 DEF Fits

\* What holds always holds after a move, and the others stay where they are.
LEMMA MoveSteady ==
  ASSUME Steady, Move, NEW c \in Cards, Head(calls).card = c, At(c, Head(calls).from),
         Head(calls).to \in Zones, SpellsLeftAlone => ~HasSpell(c)
  PROVE  /\ Steady'
         /\ \A d : HasSpell(d)' <=> HasSpell(d)
         /\ Others(c) => Others(c)'
<1>. DEFINE m == Head(calls)
<1>1. IInv /\ IInv'
  BY MoveIInv DEF Steady
<1>2. putInZone(c, m.from, m.before, m.to) /\ UNCHANGED needShuffle
  BY DEF Move
<1>3. PICK from, to, before : from = m.from /\ to = m.to /\ before = m.before
  OBVIOUS
<1>. HIDE DEF m
<1>4. At(c, from) /\ to \in Zones /\ putInZone(c, from, before, to)
  BY <1>2, <1>3 DEF m
<1>5. from # Nowhere /\ Contains(cards[from], c)
  BY <1>1, <1>4, ContainsIs, NowhereIsNoZone DEF At, IInv, Apart
<1>6. PICK dest : dest = IF SetAside(from, to) THEN <<from[1], "temp">> ELSE to
  OBVIOUS
<1>7. /\ \A d, z : d # c => (At(d, z)' <=> At(d, z))
      /\ \A z : At(c, z)' <=> z = dest
  BY <1>1, <1>4, <1>6, PutMoves
<1>8. /\ minus' = IF SameObject(from, to) THEN minus ELSE minus \ {c}
      /\ unearthed' = IF SameObject(from, to) THEN unearthed ELSE unearthed \ {c}
      /\ stack' = IF SameObject(from, to) THEN stack ELSE Outdated(stack, c)
      /\ mourned' = IF InPlay(from) /\ ~InPlay(to) /\ c \in unearthed THEN mourned \cup {c}
                     ELSE IF from[2] = "exile" THEN mourned \ {c} ELSE mourned
  BY <1>4, <1>5 DEF putInZone
<1>9. /\ DOMAIN stack' = DOMAIN stack
      /\ \A i \in DOMAIN stack :
           /\ stack'[i].what = stack[i].what /\ stack'[i].card = stack[i].card
           /\ stack'[i].to = stack[i].to
           /\ stack'[i].live => stack[i].live
           /\ stack[i].card # c => stack'[i] = stack[i]
           /\ stack[i].card = c /\ ~SameObject(from, to) => ~stack'[i].live
  BY <1>1, <1>8, StackKept
<1>10. \A d : HasSpell(d)' <=> HasSpell(d)
  BY <1>9 DEF HasSpell
<1>11. minus' \subseteq Cards /\ unearthed' \subseteq Cards /\ mourned' \subseteq Cards
  BY <1>8 DEF Steady
<1>12. ItemsPoint'
  <2>1. SUFFICES ASSUME NEW i \in DOMAIN stack, stack'[i].live
                 PROVE  \E z \in Zones :
                          /\ stack'[i].card \in ToSet(cards'[z]) /\ z[2] \in Named
                          /\ SpellsLeftAlone /\ stack'[i].what # "spell" => z[2] # "stack"
    BY <1>9 DEF ItemsPoint, At
  <2>2. CASE stack[i].card = c
    <3>1. SameObject(from, to)
      BY <1>9, <2>1, <2>2
    <3>2. dest = to /\ to[2] = "battlefield"
      BY <1>6, <3>1 DEF SameObject, SetAside, InPlay
    <3>. QED
      BY <1>4, <1>7, <1>9, <2>2, <3>2 DEF Named, Kinds, At
  <2>3. CASE stack[i].card # c
    <3>1. stack'[i] = stack[i]
      BY <1>9, <2>3
    <3>2. PICK z \in Zones :
            /\ At(stack[i].card, z) /\ z[2] \in Named
            /\ SpellsLeftAlone /\ stack[i].what # "spell" => z[2] # "stack"
      BY <2>1, <3>1 DEF Steady, ItemsPoint
    <3>3. stack'[i].card \in ToSet(cards'[z])
      BY <1>7, <2>3, <3>1, <3>2 DEF At
    <3>. QED
      BY <3>1, <3>2, <3>3
  <2>. QED
    BY <2>2, <2>3
<1>13. ItemsGo'
  BY <1>9 DEF Steady, ItemsGo
<1>14. SpellsDiffer'
  <2>1. SUFFICES ASSUME SpellsLeftAlone
                 PROVE  \A i, j \in DOMAIN stack' :
                          /\ stack'[i].what = "spell" => stack'[i].live
                          /\ (stack'[i].what = "spell" /\ stack'[j].what = "spell"
                                /\ stack'[i].card = stack'[j].card) => i = j
    BY DEF SpellsDiffer
  <2>2. \A i, j \in DOMAIN stack :
          /\ stack[i].what = "spell" => stack[i].live /\ stack[i].card # c
          /\ (stack[i].what = "spell" /\ stack[j].what = "spell"
                /\ stack[i].card = stack[j].card) => i = j
    BY <2>1 DEF Steady, SpellsDiffer, HasSpell
  <2>. QED
    BY <1>9, <2>2
<1>15. Steady'
  BY <1>1, <1>2, <1>11, <1>12, <1>13, <1>14 DEF Steady
<1>16. \A d : d # c => (d \in mourned' <=> d \in mourned)
  BY <1>8
<1>. QED
  BY <1>7, <1>10, <1>15, <1>16, OthersKept

-----------------------------------------------------------------------------
(* The moves of the card that is on its way.                               *)

\* What a move does, when no event waits.
LEMMA MoveIs ==
  ASSUME IInv, Move, eventsQueue = <<>>, NEW c \in Cards, NEW from, NEW before, NEW to \in Zones,
         Head(calls).card = c, Head(calls).from = from, Head(calls).before = before,
         Head(calls).to = to, At(c, from),
         NEW dest, dest = IF SetAside(from, to) THEN <<from[1], "temp">> ELSE to
  PROVE  /\ calls' = Tail(calls) /\ dest \in Zones
         /\ \A z : At(c, z)' <=> z = dest
         /\ \A z \in Zones : z \notin {from, dest} => cards'[z] = cards[z]
         /\ from # dest => /\ cards'[dest] = Append(cards[dest], c)
                           /\ \E i \in DOMAIN cards[from] :
                                cards[from][i] = c /\ cards'[from] = RemoveAt(cards[from], i)
         /\ eventsQueue' = IF SetAside(from, to) \/ to[2] = "temp" THEN <<>> ELSE
              <<[card |-> c, live |-> TRUE, from |-> ToldFrom(from, before), to |-> to,
                 persists |-> c \in Persisting \ minus, unearthed |-> c \in unearthed]>>
         /\ placeOnTop' = IF SetAside(from, to)
                          THEN [placeOnTop EXCEPT ![from[1]] = Append(@, c)] ELSE placeOnTop
         /\ mourned' = IF InPlay(from) /\ ~InPlay(to) /\ c \in unearthed THEN mourned \cup {c}
                       ELSE IF from[2] = "exile" THEN mourned \ {c} ELSE mourned
<1>1. IInv'
  BY MoveIInv
<1>2. putInZone(c, from, before, to) /\ calls' = Tail(calls)
  BY DEF Move
<1>3. from # Nowhere /\ Contains(cards[from], c)
  BY ContainsIs, NowhereIsNoZone DEF At, IInv, Apart
<1>4. /\ placeOnTop' = IF SetAside(from, to)
                       THEN [placeOnTop EXCEPT ![from[1]] = Append(@, c)] ELSE placeOnTop
      /\ mourned' = IF InPlay(from) /\ ~InPlay(to) /\ c \in unearthed THEN mourned \cup {c}
                    ELSE IF from[2] = "exile" THEN mourned \ {c} ELSE mourned
  BY <1>2, <1>3 DEF putInZone
<1>5. eventsQueue' = IF SetAside(from, to) \/ to[2] = "temp" THEN <<>> ELSE
        <<[card |-> c, live |-> TRUE, from |-> ToldFrom(from, before), to |-> to,
           persists |-> c \in Persisting \ minus, unearthed |-> c \in unearthed]>>
  BY <1>1, <1>2, PutTells
<1>. QED
  BY <1>2, <1>4, <1>5, PutMoves

\* A last call is not skipped.
LEMMA LastIsLeft ==
  ASSUME NEW s, NEW c, OneLast(s, c)
  PROVE  Left(s) = s /\ What(s) # "counter" /\ ~Void(s)
<1>1. Play # Nowhere
  BY DEF Play
<1>. QED
  BY <1>1 DEF OneLast, Left, What, Void, IsPut

\* What is in no "temp" zone, nor goes to one, leaves those as they are.
LEMMA MoveKeepsTemp ==
  ASSUME IInv, Move, eventsQueue = <<>>, NEW c \in Cards, Kept,
         Head(calls).card = c, At(c, Head(calls).from), Head(calls).to \in Zones,
         "temp" \notin {Head(calls).from[2], Head(calls).to[2]}
  PROVE  Kept'
<1>1. PICK from, before, to : from = Head(calls).from /\ before = Head(calls).before /\ to = Head(calls).to
  OBVIOUS
<1>2. PICK dest : dest = IF SetAside(from, to) THEN <<from[1], "temp">> ELSE to
  OBVIOUS
<1>3. /\ dest \in Zones
      /\ \A z \in Zones : z \notin {from, dest} => cards'[z] = cards[z]
      /\ from # dest => cards'[dest] = Append(cards[dest], c)
      /\ placeOnTop' = IF SetAside(from, to)
                       THEN [placeOnTop EXCEPT ![from[1]] = Append(@, c)] ELSE placeOnTop
  <2>1. /\ Head(calls).from = from /\ Head(calls).before = before /\ Head(calls).to = to
        /\ At(c, from) /\ to \in Zones
    BY <1>1
  <2>2. /\ dest \in Zones
        /\ \A z \in Zones : z \notin {from, dest} => cards'[z] = cards[z]
    BY <1>2, <2>1, MoveIs
  <2>3. from # dest => cards'[dest] = Append(cards[dest], c)
    BY <1>2, <2>1, MoveIs
  <2>4. placeOnTop' = IF SetAside(from, to)
                      THEN [placeOnTop EXCEPT ![from[1]] = Append(@, c)] ELSE placeOnTop
    BY <1>2, <2>1, MoveIs
  <2>. QED
    BY <2>2, <2>3, <2>4
<1>4. \A q \in Players : <<q, "temp">> \in Zones /\ <<q, "temp">> # from
  BY <1>1 DEF Zones, Kinds
<1>5. SUFFICES ASSUME NEW q \in Players PROVE cards'[<<q, "temp">>] = placeOnTop'[q]
  BY DEF Kept
<1>6. CASE SetAside(from, to) /\ q = from[1]
  <2>1. dest = <<q, "temp">>
    BY <1>2, <1>6
  <2>2. cards'[<<q, "temp">>] = Append(cards[<<q, "temp">>], c)
    BY <1>3, <1>4, <2>1
  <2>3. placeOnTop'[q] = Append(placeOnTop[q], c)
    BY <1>3, <1>6 DEF IInv
  <2>. QED
    BY <2>2, <2>3 DEF Kept
<1>7. CASE ~(SetAside(from, to) /\ q = from[1])
  <2>1. <<q, "temp">> # dest
    BY <1>1, <1>2, <1>7
  <2>2. cards'[<<q, "temp">>] = cards[<<q, "temp">>]
    BY <1>3, <1>4, <2>1
  <2>3. placeOnTop'[q] = placeOnTop[q]
    BY <1>3, <1>7 DEF IInv
  <2>. QED
    BY <2>2, <2>3 DEF Kept
<1>. QED
  BY <1>6, <1>7

LEMMA MovePlacing ==
  ASSUME ConstantsAssumption, Steady, Move, NEW c \in Cards, Others(c), Placing(c)
  PROVE  Steady' /\ Others(c)' /\ Calm(c)'
<1>. DEFINE m == Head(calls)
            w == What(Tail(calls))
<1>1. IInv /\ IInv'
  BY MoveIInv DEF Steady
<1>2. m \in Call /\ m.do = "put" /\ m.card = c /\ At(c, m.from) /\ eventsQueue = <<>> /\ Kept
  BY FirstCall DEF Placing, Steady
<1>3. m.to \in Zones
  BY <1>2 DEF Call, PutCall, CardCall, ClearCall
<1>4. Steady' /\ Others(c)' /\ \A d : HasSpell(d)' <=> HasSpell(d)
  BY <1>2, <1>3, MoveSteady DEF Placing
<1>5. PICK from, before, to : from = m.from /\ before = m.before /\ to = m.to
  OBVIOUS
<1>6. PICK dest : dest = IF SetAside(from, to) THEN <<from[1], "temp">> ELSE to
  OBVIOUS
<1>7. PICK e : e = [card |-> c, live |-> TRUE, from |-> ToldFrom(from, before), to |-> to,
                    persists |-> c \in Persisting \ minus, unearthed |-> c \in unearthed]
  OBVIOUS
<1>8. /\ calls' = Tail(calls)
      /\ \A z : At(c, z)' <=> z = dest
      /\ eventsQueue' = IF SetAside(from, to) \/ to[2] = "temp" THEN <<>> ELSE <<e>>
      /\ mourned' = IF InPlay(from) /\ ~InPlay(to) /\ c \in unearthed THEN mourned \cup {c}
                    ELSE IF from[2] = "exile" THEN mourned \ {c} ELSE mourned
  BY <1>1, <1>2, <1>3, <1>5, <1>6, <1>7, MoveIs
<1>9. /\ "temp" \notin {from[2], to[2]} /\ from \in Zones /\ to \in Zones
      /\ to[2] = "garbage" => c \in Tokens
      /\ c \in Tokens => ~SetAside(from, to)
      /\ OneLast(Tail(calls), c)
      /\ w = "return" => c \in Tokens \/ to[2] = "exile"
      /\ w = "put" => c \notin Tokens /\ to = Play
      /\ w = "spell" => c \notin Tokens /\ from[2] = "hand" /\ to[2] = "stack"
      /\ SpellsLeftAlone => /\ ~HasSpell(c)
                            /\ to[2] = "stack" => w = "spell"
                            /\ c \in Mourned => "exile" \in {from[2], to[2]}
  BY <1>3, <1>5 DEF Placing, At
<1>10. Left(calls)' = Tail(calls) /\ What(calls)' = w /\ w # "counter" /\ ~Void(calls)'
  BY <1>8, <1>9, LastIsLeft
<1>11. Kept'
  BY <1>1, <1>2, <1>3, <1>5, <1>9, MoveKeepsTemp
<1>. HIDE DEF m, w
<1>12. SetAside(from, to) \/ (dest = to /\ eventsQueue' = <<e>> /\ eventsQueue' # <<>> /\ eventsQueue'[1] = e)
  BY <1>6, <1>8, <1>9
<1>13. SetAside(from, to) => /\ eventsQueue' = <<>> /\ dest[2] = "temp" /\ c \notin Tokens
                             /\ from[2] = "library" /\ to[2] = "library"
  BY <1>6, <1>8, <1>9 DEF SetAside
<1>14. \A kind : In(c, kind)' <=> dest[2] = kind
  <2>1. dest \in Zones /\ dest[1] \in Players /\ dest = <<dest[1], dest[2]>>
    BY <1>6, <1>9 DEF Zones, Kinds
  <2>2. \A kind : In(c, kind)' <=> \E p \in Players : <<p, kind>> = dest
    BY <1>8 DEF In
  <2>. QED
    BY <2>1, <2>2
<1>15. Told(c)'
  <2>1. SUFFICES ASSUME NEW i \in DOMAIN eventsQueue'
                 PROVE  /\ i = 1
                        /\ eventsQueue'[i].live /\ eventsQueue'[i].card = c
                        /\ At(c, to)' /\ eventsQueue'[i].to = to
                        /\ "temp" \notin {eventsQueue'[i].from[2], to[2]}
                        /\ eventsQueue'[i].from # Nowhere
                        /\ eventsQueue'[i].persists => c \in Persisting
    BY DEF Told
  <2>2. DOMAIN <<>> = {}
    OBVIOUS
  <2>3. eventsQueue' = <<e>> /\ dest = to
    BY <1>12, <1>13, <2>1, <2>2
  <2>4. i = 1 /\ eventsQueue'[i] = e
    BY <2>1, <2>3
  <2>5. e.from = from
    BY <1>7, <1>9 DEF ToldFrom
  <2>6. At(c, to)'
    BY <1>8, <2>3
  <2>7. from # Nowhere /\ "temp" \notin {from[2], to[2]}
    BY <1>9, NowhereIsNoZone
  <2>8. e.live /\ e.card = c /\ e.to = to /\ (e.persists => c \in Persisting)
    BY <1>7
  <2>. QED
    BY <2>4, <2>5, <2>6, <2>7, <2>8
<1>16. c \in Tokens => TokenFits(c)' \/ eventsQueue' # <<>>
  BY <1>9, <1>12
<1>17. SpellsLeftAlone /\ c \in Mourned' =>
         In(c, "exile")' \/ (eventsQueue' # <<>> /\ UnearthRule(eventsQueue'[1]))
  <2>1. SUFFICES ASSUME SpellsLeftAlone, c \in Mourned', ~In(c, "exile")'
                 PROVE  eventsQueue' # <<>> /\ UnearthRule(eventsQueue'[1])
    OBVIOUS
  <2>2. c \notin Persisting /\ c \notin Tokens /\ c \in mourned' /\ dest[2] # "exile"
    BY <1>14, <2>1 DEF Mourned
  <2>3. InPlay(from) /\ ~InPlay(to) /\ c \in unearthed
    <3>1. SUFFICES ASSUME ~(InPlay(from) /\ ~InPlay(to) /\ c \in unearthed) PROVE FALSE
      OBVIOUS
    <3>2. c \in mourned /\ from[2] # "exile"
      BY <1>8, <2>2, <3>1
    <3>3. to[2] = "exile"
      BY <1>9, <2>1, <2>2, <3>2 DEF Mourned
    <3>. QED
      BY <1>12, <1>13, <2>2, <3>3
  <2>4. ~SetAside(from, to)
    BY <1>13, <2>3 DEF InPlay
  <2>5. eventsQueue' # <<>> /\ eventsQueue'[1] = e /\ dest = to
    BY <1>12, <2>4
  <2>6. to[2] # "exile" /\ to[2] # "garbage" /\ to[2] # "stack" /\ to[2] # "temp" /\ to[2] # "battlefield"
    <3>1. to[2] = "stack" => c \in Cards /\ w = "spell"
      BY <1>9, <2>1
    <3>2. w # "spell"
      BY <1>9, <2>3 DEF InPlay
    <3>. QED
      BY <1>9, <2>2, <2>3, <2>5, <3>1, <3>2 DEF InPlay
  <2>7. to[2] \in {"graveyard", "hand", "library"}
    BY <1>9, <2>6 DEF Zones, Kinds
  <2>8. e.unearthed /\ e.from = from /\ e.to = to
    BY <1>7, <1>9, <2>3 DEF ToldFrom
  <2>. QED
    BY <2>3, <2>5, <2>7, <2>8 DEF UnearthRule
<1>18. /\ w = "return" => c \in Tokens \/ In(c, "exile")'
       /\ w = "put" => c \notin Tokens /\ At(c, Play)'
       /\ w = "spell" => c \notin Tokens /\ In(c, "stack")'
  BY <1>8, <1>9, <1>12, <1>13, <1>14 DEF Play
<1>19. SpellsLeftAlone => ~HasSpell(c)' /\ (In(c, "stack")' <=> w = "spell")
  BY <1>4, <1>9, <1>12, <1>13, <1>14
<1>20. /\ Left(calls)' = calls' /\ What(Left(calls))' = w /\ OneLast(Left(calls), c)'
       /\ What(calls)' # "counter" /\ ~Void(calls)'
  BY <1>8, <1>9, <1>10 DEF w
<1>21. Calm(c)'
  BY <1>10, <1>11, <1>15, <1>16, <1>17, <1>18, <1>19, <1>20 DEF Calm
<1>. QED
  BY <1>4, <1>21

LEMMA MoveEntering ==
  ASSUME ConstantsAssumption, Steady, Move, NEW c \in Cards, Others(c), Entering(c)
  PROVE  Steady' /\ Others(c)' /\ Entered(c)'
<1>. DEFINE m == Head(calls)
<1>1. IInv /\ IInv'
  BY MoveIInv DEF Steady
<1>2. /\ m.card = c /\ At(c, m.from) /\ eventsQueue = <<>> /\ Kept
      /\ m.before = m.from /\ m.to = <<0, "temp">> /\ m.to \in Zones
      /\ m.from[2] \notin {"temp", "battlefield"}
  <2>1. <<0, "temp">> \in Zones
    BY DEF Zones, Kinds
  <2>. QED
    BY <2>1 DEF Entering, IsPut
<1>3. Steady' /\ Others(c)' /\ \A d : HasSpell(d)' <=> HasSpell(d)
  BY <1>2, MoveSteady DEF Entering
<1>4. PICK from, to : from = m.from /\ to = m.to
  OBVIOUS
<1>. HIDE DEF m
<1>5. ~SetAside(from, to) /\ to = <<0, "temp">> /\ to \in Zones /\ from \in Zones /\ from # to
  BY <1>2, <1>4 DEF SetAside, At
<1>6. /\ calls' = Tail(calls)
      /\ \A z \in Zones : z \notin {from, to} => cards'[z] = cards[z]
      /\ cards'[to] = Append(cards[to], c)
      /\ eventsQueue' = <<>>
  <2>1. /\ Head(calls).card = c /\ Head(calls).from = from /\ Head(calls).before = from
        /\ Head(calls).to = to /\ At(c, from) /\ to = IF SetAside(from, to) THEN <<from[1], "temp">> ELSE to
    BY <1>2, <1>4, <1>5 DEF m
  <2>2. /\ calls' = Tail(calls)
        /\ \A z \in Zones : z \notin {from, to} => cards'[z] = cards[z]
    BY <1>1, <1>2, <1>5, <2>1, MoveIs
  <2>3. cards'[to] = Append(cards[to], c)
    BY <1>1, <1>2, <1>5, <2>1, MoveIs
  <2>4. eventsQueue' = <<>>
    <3>1. SetAside(from, to) \/ to[2] = "temp"
      BY <1>5
    <3>. QED
      BY <1>1, <1>2, <1>5, <2>1, <3>1, MoveIs
  <2>. QED
    BY <2>2, <2>3, <2>4
<1>7. /\ placeOnTop' = placeOnTop
      /\ mourned' = IF from[2] = "exile" THEN mourned \ {c} ELSE mourned
  <2>1. /\ Head(calls).card = c /\ Head(calls).from = from /\ Head(calls).before = from
        /\ Head(calls).to = to /\ At(c, from) /\ to = IF SetAside(from, to) THEN <<from[1], "temp">> ELSE to
    BY <1>2, <1>4, <1>5 DEF m
  <2>2. ~InPlay(from)
    BY <1>2, <1>4 DEF InPlay
  <2>3. placeOnTop' = IF SetAside(from, to)
                      THEN [placeOnTop EXCEPT ![from[1]] = Append(@, c)] ELSE placeOnTop
    BY <1>1, <1>2, <1>5, <2>1, MoveIs
  <2>4. mourned' = IF InPlay(from) /\ ~InPlay(to) /\ c \in unearthed THEN mourned \cup {c}
                   ELSE IF from[2] = "exile" THEN mourned \ {c} ELSE mourned
    BY <1>1, <1>2, <1>5, <2>1, MoveIs
  <2>. QED
    BY <1>5, <2>2, <2>3, <2>4
<1>8. <<1, "temp">> \in Zones /\ <<1, "temp">> \notin {from, to}
  BY <1>2, <1>4, <1>5 DEF Zones, Kinds
<1>9. /\ cards'[<<0, "temp">>] = Append(placeOnTop'[0], c)
      /\ cards'[<<1, "temp">>] = placeOnTop'[1]
  BY <1>2, <1>5, <1>6, <1>7, <1>8 DEF Kept
<1>10. c \notin Tokens /\ (SpellsLeftAlone => ~HasSpell(c)' /\ c \notin Mourned')
  BY <1>3, <1>4, <1>7 DEF Entering, Mourned, m
<1>11. PICK n : n = Head(calls')
  OBVIOUS
<1>12. /\ calls' # <<>> /\ IsPut(n, c, <<0, "temp">>, n.before, n.to) /\ InPlay(n.to)
       /\ n.before = from
       /\ Ending(Tail(calls'), c)
  BY <1>4, <1>6, <1>11 DEF Entering, IsPut, m
<1>13. n.before[2] # "temp" /\ n.before # Nowhere
  BY <1>2, <1>4, <1>5, <1>12, NowhereIsNoZone
<1>14. Entered(c)'
  BY <1>6, <1>9, <1>10, <1>11, <1>12, <1>13 DEF Entered
<1>. QED
  BY <1>3, <1>14

LEMMA MoveEntered ==
  ASSUME ConstantsAssumption, Steady, Move, NEW c \in Cards, Others(c), Entered(c)
  PROVE  Steady' /\ Others(c)' /\ Calm(c)'
<1>. DEFINE m == Head(calls)
            temp == <<0, "temp">>
            rest == Tail(calls)
<1>1. IInv /\ IInv'
  BY MoveIInv DEF Steady
<1>2. temp \in Zones /\ <<1, "temp">> \in Zones /\ placeOnTop[0] \in Seq(Cards)
  BY <1>1 DEF Zones, Kinds, IInv
<1>3. At(c, temp)
  <2>1. c \in ToSet(Append(placeOnTop[0], c))
    BY <1>2, AppendHas
  <2>. QED
    BY <1>2, <2>1 DEF At, Entered
<1>4. m \in Call
  BY <1>1, FirstCall DEF Entered
<1>5. /\ m.card = c /\ m.from = temp /\ eventsQueue = <<>>
      /\ m.to \in Zones /\ InPlay(m.to)
  BY <1>4 DEF Entered, IsPut, Call, PutCall, CardCall, ClearCall
<1>6. Steady' /\ Others(c)' /\ \A d : HasSpell(d)' <=> HasSpell(d)
  BY <1>3, <1>5, MoveSteady DEF Entered
<1>7. PICK from, before, to : from = m.from /\ before = m.before /\ to = m.to
  OBVIOUS
<1>8. /\ before[2] # "temp" /\ (before = Nowhere => c \in Tokens)
      /\ Ending(rest, c)
      /\ SpellsLeftAlone => ~HasSpell(c) /\ c \notin Mourned
  BY <1>7 DEF Entered
<1>9. PICK e : e = [card |-> c, live |-> TRUE, from |-> ToldFrom(from, before), to |-> to,
                    persists |-> c \in Persisting \ minus, unearthed |-> c \in unearthed]
  OBVIOUS
<1>. HIDE DEF m
<1>10. ~SetAside(from, to) /\ to[2] = "battlefield" /\ from = temp /\ from # to /\ to \in Zones
  BY <1>5, <1>7 DEF SetAside, InPlay
<1>11. /\ Head(calls).card = c /\ Head(calls).from = from /\ Head(calls).before = before
       /\ Head(calls).to = to /\ At(c, from) /\ to = IF SetAside(from, to) THEN <<from[1], "temp">> ELSE to
  BY <1>3, <1>5, <1>7, <1>10 DEF m
<1>12. /\ calls' = rest
       /\ \A z : At(c, z)' <=> z = to
       /\ \A z \in Zones : z \notin {from, to} => cards'[z] = cards[z]
  BY <1>1, <1>5, <1>10, <1>11, MoveIs
<1>13. \E i \in DOMAIN cards[from] : cards[from][i] = c /\ cards'[from] = RemoveAt(cards[from], i)
  BY <1>1, <1>5, <1>10, <1>11, MoveIs
<1>14. eventsQueue' = <<e>>
  <2>1. ~(SetAside(from, to) \/ to[2] = "temp")
    BY <1>10
  <2>2. eventsQueue' = IF SetAside(from, to) \/ to[2] = "temp" THEN <<>> ELSE
              <<[card |-> c, live |-> TRUE, from |-> ToldFrom(from, before), to |-> to,
                 persists |-> c \in Persisting \ minus, unearthed |-> c \in unearthed]>>
    BY <1>1, <1>5, <1>10, <1>11, MoveIs
  <2>. QED
    BY <1>9, <2>1, <2>2
<1>15. placeOnTop' = placeOnTop /\ mourned' = mourned
  <2>1. placeOnTop' = IF SetAside(from, to)
                      THEN [placeOnTop EXCEPT ![from[1]] = Append(@, c)] ELSE placeOnTop
    BY <1>1, <1>5, <1>10, <1>11, MoveIs
  <2>2. mourned' = IF InPlay(from) /\ ~InPlay(to) /\ c \in unearthed THEN mourned \cup {c}
                   ELSE IF from[2] = "exile" THEN mourned \ {c} ELSE mourned
    BY <1>1, <1>5, <1>10, <1>11, MoveIs
  <2>. QED
    BY <1>10, <2>1, <2>2 DEF InPlay
<1>16. Kept'
  <2>1. cards'[<<1, "temp">>] = cards[<<1, "temp">>]
    BY <1>2, <1>10, <1>12
  <2>2. PICK i \in DOMAIN cards[temp] : cards[temp][i] = c /\ cards'[temp] = RemoveAt(cards[temp], i)
    BY <1>10, <1>13
  <2>3. PICK s \in Seq(Cards) : s = placeOnTop[0]
    BY <1>2
  <2>4. cards[temp] = Append(s, c) /\ IsInjective(Append(s, c))
    BY <1>1, <1>2, <2>3 DEF Entered, IInv, Apart
  <2>5. PICK k \in Nat : k = Len(s)
    BY LenProperties
  <2>6. /\ Append(s, c) \in Seq(Cards) /\ Len(Append(s, c)) = k + 1
        /\ \A j \in 1..k : Append(s, c)[j] = s[j]
        /\ Append(s, c)[k + 1] = c
    BY <2>5, AppendProperties
  <2>7. DOMAIN Append(s, c) = 1..(k + 1)
    BY <2>6, LenProperties
  <2>8. \A j \in 1..k : s[j] # c
    <3>1. SUFFICES ASSUME NEW j \in 1..k, s[j] = c PROVE FALSE
      OBVIOUS
    <3>2. /\ j \in DOMAIN Append(s, c) /\ k + 1 \in DOMAIN Append(s, c) /\ j # k + 1
          /\ Append(s, c)[j] = Append(s, c)[k + 1]
      BY <2>6, <2>7, <3>1
    <3>. QED
      BY <2>4, <3>2 DEF IsInjective
  <2>9. i \in 1..(Len(s) + 1) /\ Append(s, c)[i] = c
    BY <2>2, <2>4, <2>5, <2>7
  <2>10. RemoveAt(Append(s, c), i) = s
    BY <2>5, <2>8, <2>9, AddedAndTaken
  <2>11. cards'[temp] = placeOnTop[0]
    BY <2>2, <2>3, <2>4, <2>10
  <2>12. cards[<<1, "temp">>] = placeOnTop[1]
    BY DEF Entered
  <2>. QED
    BY <1>15, <2>1, <2>11, <2>12 DEF Kept
<1>17. e.live /\ e.card = c /\ e.to = to /\ e.from = before /\ (e.persists => c \in Persisting)
  BY <1>9, <1>10 DEF ToldFrom
<1>18. Told(c)'
  <2>1. SUFFICES ASSUME NEW i \in DOMAIN eventsQueue'
                 PROVE  /\ i = 1
                        /\ eventsQueue'[i].live /\ eventsQueue'[i].card = c
                        /\ At(c, to)' /\ eventsQueue'[i].to = to
                        /\ "temp" \notin {eventsQueue'[i].from[2], to[2]}
                        /\ eventsQueue'[i].from = Nowhere => c \in Tokens
                        /\ eventsQueue'[i].persists => c \in Persisting
    BY DEF Told
  <2>2. i = 1 /\ eventsQueue'[i] = e
    BY <1>14, <2>1
  <2>3. At(c, to)'
    BY <1>12
  <2>. QED
    BY <1>8, <1>10, <1>17, <2>2, <2>3
<1>19. \A kind : In(c, kind)' => kind = "battlefield"
  BY <1>10, <1>12 DEF In
<1>20. /\ OneLast(Left(calls), c)' /\ What(Left(calls))' \in {"nothing", "transform"}
       /\ ~Void(calls)' /\ (What(calls)' = "counter" => Head(calls').nested)
  BY <1>8, <1>12 DEF Ending
<1>21. eventsQueue' # <<>>
  BY <1>14
<1>22. SpellsLeftAlone => ~HasSpell(c)' /\ ~In(c, "stack")' /\ c \notin Mourned'
  BY <1>6, <1>8, <1>15, <1>19 DEF Mourned
<1>23. Calm(c)'
  BY <1>16, <1>18, <1>20, <1>21, <1>22 DEF Calm
<1>. QED
  BY <1>6, <1>23

-----------------------------------------------------------------------------
(* The other steps of an effect: they leave the cards where they are.      *)

LEMMA NothingMoves ==
  ASSUME UNCHANGED <<cards, stack, mourned>>
  PROVE  /\ \A c, z : At(c, z)' <=> At(c, z)
         /\ \A c, kind : In(c, kind)' <=> In(c, kind)
         /\ \A c : HasSpell(c)' <=> HasSpell(c)
         /\ \A c : Fits(c)' <=> Fits(c)
         /\ \A c : TokenFits(c)' <=> TokenFits(c)
         /\ Mourned' = Mourned
<1>1. \A c, z : At(c, z)' <=> At(c, z)
  BY DEF At
<1>2. \A c, kind : In(c, kind)' <=> In(c, kind)
  BY <1>1 DEF In
<1>3. \A c : HasSpell(c)' <=> HasSpell(c)
  BY DEF HasSpell
<1>4. Mourned' = Mourned
  BY DEF Mourned
<1>5. \A c : TokenFits(c)' <=> TokenFits(c)
  BY <1>1 DEF TokenFits
<1>6. \A c : Fits(c)' <=> Fits(c)
  BY <1>2, <1>3, <1>4, <1>5 DEF Fits, MournedFits, SpellFits
<1>. QED
  BY <1>1, <1>2, <1>3, <1>4, <1>5, <1>6

LEMMA NothingMovesSteady ==
  ASSUME Steady, IInv', UNCHANGED <<cards, stack, mourned>>, needShuffle' \subseteq Players,
         minus' \subseteq Cards, unearthed' \subseteq Cards
  PROVE  /\ Steady'
         /\ \A c : Others(c)' <=> Others(c)
<1>1. ItemsPoint' /\ ItemsGo' /\ SpellsDiffer'
  BY DEF Steady, ItemsPoint, ItemsGo, SpellsDiffer, At
<1>2. \A c : Others(c)' <=> Others(c)
  BY NothingMoves DEF Others
<1>3. mourned' \subseteq Cards
  BY DEF Steady
<1>. QED
  BY <1>1, <1>2, <1>3 DEF Steady

\* The call that moves no card is skipped, or the last call is done.
LEMMA CalmGoesOn ==
  ASSUME NEW c, Calm(c), UNCHANGED <<cards, stack, mourned, placeOnTop, eventsQueue>>,
         \/ Left(calls) # calls /\ calls' = Left(calls)
         \/ Left(calls) = calls /\ calls' = <<>>
              /\ (What(calls) = "transform" \/ (What(calls) = "return" /\ c \in Tokens))
  PROVE  Calm(c)'
<1>1. OneLast(<<>>, c) /\ What(<<>>) = "nothing" /\ Left(<<>>) = <<>> /\ ~Void(<<>>)
  BY DEF OneLast, What, Left, Void
<1>2. OneLast(calls', c)
  BY <1>1 DEF Calm
<1>3. Left(calls') = calls' /\ What(calls') # "counter" /\ ~Void(calls')
  BY <1>2, LastIsLeft
<1>4. \/ What(calls') = What(Left(calls))
      \/ /\ What(calls') = "nothing"
         /\ What(Left(calls)) = "transform" \/ (What(Left(calls)) = "return" /\ c \in Tokens)
  BY <1>1
<1>5. Told(c)' /\ Kept'
  BY NothingMoves DEF Calm, Told, Kept
<1>6. PICK w, v : w = What(Left(calls)) /\ v = What(calls')
  OBVIOUS
<1>7. /\ v = "return" => c \in Tokens \/ In(c, "exile")'
      /\ v = "put" => c \notin Tokens /\ At(c, Play)'
      /\ v = "spell" => c \notin Tokens /\ In(c, "stack")'
  BY <1>4, <1>6, NothingMoves DEF Calm
<1>8. SpellsLeftAlone => /\ v \notin {"nothing", "transform"} \/ eventsQueue' # <<>> => ~HasSpell(c)'
                         /\ In(c, "stack")' <=> HasSpell(c)' \/ v = "spell"
  BY <1>4, <1>6, NothingMoves DEF Calm
<1>9. /\ c \in Tokens => TokenFits(c)' \/ eventsQueue' # <<>>
      /\ SpellsLeftAlone /\ c \in Mourned' =>
           In(c, "exile")' \/ (eventsQueue' # <<>> /\ UnearthRule(eventsQueue'[1]))
  BY NothingMoves DEF Calm
<1>10. What(Left(calls))' = v
  BY <1>3, <1>6
<1>. QED
  BY <1>2, <1>3, <1>5, <1>7, <1>8, <1>9, <1>10 DEF Calm

\* The put that comes last has its card in play.
LEMMA PutsAgain ==
  ASSUME Steady, NEW c \in Cards, Calm(c), calls # <<>>, Head(calls).do = "put",
         Left(calls) = calls, eventsQueue = <<>> \/ Head(calls).nested
  PROVE  Placing(c)
<1>1. What(calls) = "put" /\ OneLast(calls, c)
  BY DEF Calm, What
<1>2. /\ Tail(calls) = <<>> /\ ~Head(calls).nested
      /\ IsPut(Head(calls), c, Play, Nowhere, Play)
  BY <1>1 DEF OneLast
<1>3. c \notin Tokens /\ At(c, Play) /\ Kept /\ eventsQueue = <<>>
  BY <1>1, <1>2 DEF Calm
<1>4. OneLast(<<>>, c) /\ What(<<>>) = "nothing"
  BY DEF OneLast, What
<1>5. ~In(c, "exile")
  BY <1>3, InIs DEF Steady, Play
<1>6. SpellsLeftAlone => ~HasSpell(c) /\ c \notin Mourned
  BY <1>1, <1>3, <1>5 DEF Calm
<1>7. Head(calls).card = c /\ Head(calls).from = Play /\ Head(calls).to = Play
  BY <1>2 DEF IsPut
<1>8. Play[2] = "battlefield" /\ ~SetAside(Play, Play)
  BY DEF Play, SetAside
<1>9. /\ "temp" \notin {Play[2]} /\ Play[2] # "garbage" /\ Play[2] # "stack"
  BY <1>8
<1>10. OneLast(Tail(calls), c) /\ What(Tail(calls)) = "nothing"
  BY <1>2, <1>4
<1>. QED
  BY <1>3, <1>6, <1>7, <1>8, <1>9, <1>10 DEF Placing

LEMMA CalmMove ==
  ASSUME ConstantsAssumption, Steady, Move, NEW c \in Cards, Others(c), Calm(c)
  PROVE  Steady' /\ Others(c)' /\ Calm(c)'
<1>1. calls # <<>> /\ Head(calls).do = "put" /\ (eventsQueue = <<>> \/ Head(calls).nested)
  BY DEF Move, Doing, Handling
<1>2. CASE Left(calls) = calls
  BY <1>1, <1>2, PutsAgain, MovePlacing
<1>3. CASE Left(calls) # calls
  <2>1. Void(calls) /\ Left(calls) = Tail(calls) /\ Head(calls).from = Nowhere
    BY <1>1, <1>3 DEF Left, What, Void
  <2>2. UNCHANGED <<cards, minus, unearthed, eventsQueue, stack, placeOnTop, mourned, needShuffle>>
    BY <2>1 DEF Move, putInZone
  <2>3. calls' = Left(calls)
    BY <2>1 DEF Move
  <2>4. IInv'
    BY MoveIInv DEF Steady
  <2>5. Calm(c)'
    BY <1>3, <2>2, <2>3, CalmGoesOn
  <2>6. Steady' /\ Others(c)'
    BY <2>2, <2>4, NothingMovesSteady DEF Steady
  <2>. QED
    BY <2>5, <2>6
<1>. QED
  BY <1>2, <1>3

LEMMA CalmAddCounter ==
  ASSUME Steady, AddCounter, NEW c \in Cards, Others(c), Calm(c)
  PROVE  Steady' /\ Others(c)' /\ Calm(c)'
<1>1. Head(calls) \in Call /\ What(calls) = "counter" /\ Left(calls) = Tail(calls)
  BY FirstCall DEF AddCounter, Doing, What, Left, Steady
<1>2. Head(calls).card \in Cards
  BY <1>1 DEF AddCounter, Doing, Call, PutCall, CardCall, ClearCall
<1>3. Left(calls) # calls
  <2>1. OneLast(Left(calls), c)
    BY DEF Calm
  <2>2. What(Left(calls)) # "counter"
    BY <2>1, LastIsLeft
  <2>. QED
    BY <1>1, <2>2
<1>4. IInv'
  BY AddCounterIInv DEF Steady
<1>5. Calm(c)'
  BY <1>1, <1>3, CalmGoesOn DEF AddCounter
<1>6. Steady' /\ Others(c)'
  BY <1>2, <1>4, NothingMovesSteady DEF AddCounter, Steady
<1>. QED
  BY <1>5, <1>6

LEMMA CalmTransform ==
  ASSUME Steady, Transform, NEW c \in Cards, Others(c), Calm(c)
  PROVE  Steady' /\ Others(c)' /\ Calm(c)'
<1>1. Head(calls) \in Call /\ What(calls) = "transform" /\ Left(calls) = calls
  BY FirstCall DEF Transform, Doing, What, Left, Void, Steady
<1>2. Head(calls).card \in Cards
  BY <1>1 DEF Transform, Doing, Call, PutCall, CardCall, ClearCall
<1>3. calls' = <<>>
  BY <1>1 DEF Transform, Doing, Calm, OneLast
<1>4. IInv'
  BY TransformIInv DEF Steady
<1>5. Calm(c)'
  BY <1>1, <1>3, CalmGoesOn DEF Transform
<1>6. Steady' /\ Others(c)'
  BY <1>2, <1>4, NothingMovesSteady DEF Transform, Steady
<1>. QED
  BY <1>5, <1>6

LEMMA CalmReturn ==
  ASSUME Steady, Return, NEW c \in Cards, Others(c), Calm(c)
  PROVE  Steady' /\ Others(c)' /\ (Calm(c)' \/ Placing(c)')
<1>1. What(calls) = "return" /\ Left(calls) = calls /\ OneLast(calls, c)
  BY DEF Return, Doing, What, Left, Void, Calm
<1>2. Tail(calls) = <<>> /\ Head(calls).card = c /\ eventsQueue = <<>>
  BY <1>1 DEF Return, Doing, Handling, OneLast
<1>3. IInv /\ IInv' /\ UNCHANGED <<cards, minus, unearthed, eventsQueue, stack, placeOnTop, needShuffle, mourned>>
  BY ReturnIInv DEF Steady, Return
<1>4. Steady' /\ Others(c)'
  BY <1>3, NothingMovesSteady DEF Steady
<1>5. CASE c \in Tokens
  <2>1. calls' = <<>>
    BY <1>2, <1>5 DEF Return
  <2>. QED
    BY <1>1, <1>3, <1>4, <1>5, <2>1, CalmGoesOn
<1>6. CASE c \notin Tokens
  <2>1. PICK p \in Players : At(c, <<p, "exile">>)
    BY <1>1, <1>6 DEF Calm, In
  <2>2. currentZone(c) = <<p, "exile">>
    BY <1>3, <2>1, OnePlace
  <2>3. PICK a, b : a = Put(c, <<p, "exile">>, Nowhere, Play) /\ b = Put(c, Play, Nowhere, Play)
    OBVIOUS
  <2>4. a \in Call /\ b \in Call
    <3>1. Play \in Zones /\ Play \in Places /\ Nowhere \in Places
      BY DEF Play, Zones, Kinds, Places
    <3>2. <<p, "exile">> \in Places
      BY DEF Zones, Kinds, Places
    <3>. QED
      BY <2>3, <3>1, <3>2, PutIsACall
  <2>5. Of(c, "battlefield") = Play
    BY DEF Of, owner, Play
  <2>6. calls' = TwoOnto(a, b, <<>>)
    <3>1. calls' = <<a, b>> \o <<>>
      BY <1>2, <1>6, <2>2, <2>3, <2>5 DEF Return
    <3>. QED
      BY <3>1, Zenon DEF TwoOnto
  <2>7. /\ calls' # <<>> /\ Head(calls') = a /\ Tail(calls') # <<>>
        /\ Head(Tail(calls')) = b /\ Tail(Tail(calls')) = <<>>
    <3>1. <<>> \in Seq(Call)
      BY EmptySeq
    <3>2. AreTwo(TwoOnto(a, b, <<>>), a, b, <<>>)
      BY <2>4, <3>1, TwoInTurn
    <3>. QED
      BY <2>6, <3>2, Zenon DEF AreTwo
  <2>8. OneLast(Tail(calls'), c) /\ What(Tail(calls')) = "put"
    BY <2>3, <2>7 DEF OneLast, What, Put, IsPut
  <2>9. /\ a.do = "put" /\ a.card = c /\ a.from = <<p, "exile">> /\ a.to = Play
    BY <2>3 DEF Put
  <2>10. Kept'
    BY <1>3 DEF Calm, Kept
  <2>11. SpellsLeftAlone => ~HasSpell(c)'
    BY <1>1, <1>3, NothingMoves DEF Calm
  <2>12. At(c, <<p, "exile">>)'
    BY <1>3, <2>1, NothingMoves
  <2>13. Placing(c)'
    BY <1>2, <1>3, <1>6, <2>7, <2>8, <2>9, <2>10, <2>11, <2>12 DEF Placing, Play, SetAside
  <2>. QED
    BY <1>4, <2>13
<1>. QED
  BY <1>4, <1>5, <1>6

LEMMA CalmAddSpell ==
  ASSUME Steady, AddSpell, NEW c \in Cards, Others(c), Calm(c)
  PROVE  Steady' /\ Others(c)' /\ Calm(c)'
<1>1. What(calls) = "spell" /\ Left(calls) = calls /\ OneLast(calls, c)
  BY DEF AddSpell, Doing, What, Left, Void, Calm
<1>2. Tail(calls) = <<>> /\ Head(calls).card = c /\ eventsQueue = <<>>
  BY <1>1 DEF AddSpell, Doing, Handling, OneLast
<1>3. IInv /\ IInv' /\ UNCHANGED <<cards, minus, unearthed, eventsQueue, placeOnTop, needShuffle, mourned>>
  BY AddSpellIInv DEF Steady, AddSpell
<1>4. PICK x : x = [what |-> "spell", card |-> c, live |-> TRUE, to |-> Nowhere]
  OBVIOUS
<1>5. x \in Item /\ stack' = Append(stack, x)
  BY <1>2, <1>4 DEF AddSpell, Stacks, Item
<1>6. PICK n \in Nat : n = Len(stack)
  BY <1>3, LenProperties DEF IInv
<1>7. /\ DOMAIN stack = 1..n /\ DOMAIN stack' = 1..(n + 1)
      /\ \A i \in 1..n : stack'[i] = stack[i]
      /\ stack'[n + 1] = x
  BY <1>3, <1>5, <1>6, AppendProperties, LenProperties DEF IInv
<1>8. (\A d, z : At(d, z)' <=> At(d, z)) /\ (\A d, kind : In(d, kind)' <=> In(d, kind))
  BY <1>3 DEF At, In
<1>9. \A d : HasSpell(d)' <=> HasSpell(d) \/ d = c
  BY <1>4, <1>7 DEF HasSpell
<1>10. PICK p \in Players : At(c, <<p, "stack">>)
  BY <1>1 DEF Calm, In
<1>11. SpellsLeftAlone => ~HasSpell(c)
  BY <1>1 DEF Calm
<1>12. ItemsPoint'
  <2>1. SUFFICES ASSUME NEW i \in 1..(n + 1), stack'[i].live
                 PROVE  \E z \in Zones :
                          /\ stack'[i].card \in ToSet(cards'[z]) /\ z[2] \in Named
                          /\ SpellsLeftAlone /\ stack'[i].what # "spell" => z[2] # "stack"
    BY <1>7 DEF ItemsPoint, At
  <2>2. CASE i = n + 1
    <3>1. stack'[i] = x /\ <<p, "stack">> \in Zones /\ "stack" \in Named
      BY <1>7, <2>2 DEF Zones, Kinds, Named
    <3>2. c \in ToSet(cards'[<<p, "stack">>])
      BY <1>3, <1>10 DEF At
    <3>. QED
      BY <1>4, <3>1, <3>2
  <2>3. CASE i # n + 1
    <3>1. i \in 1..n
      BY <2>3
    <3>2. stack'[i] = stack[i]
      BY <1>7, <3>1
    <3>. QED
      BY <1>3, <1>7, <2>1, <3>1, <3>2 DEF Steady, ItemsPoint, At
  <2>. QED
    BY <2>2, <2>3
<1>13. ItemsGo'
  BY <1>4, <1>7 DEF Steady, ItemsGo
<1>14. SpellsDiffer'
  <2>1. SUFFICES ASSUME SpellsLeftAlone
                 PROVE  \A i, j \in 1..(n + 1) :
                          /\ stack'[i].what = "spell" => stack'[i].live
                          /\ (stack'[i].what = "spell" /\ stack'[j].what = "spell"
                                /\ stack'[i].card = stack'[j].card) => i = j
    BY <1>7 DEF SpellsDiffer
  <2>2. \A i, j \in 1..n :
          /\ stack[i].what = "spell" => stack[i].live /\ stack[i].card # c
          /\ (stack[i].what = "spell" /\ stack[j].what = "spell"
                /\ stack[i].card = stack[j].card) => i = j
    BY <1>7, <1>11, <2>1 DEF Steady, SpellsDiffer, HasSpell
  <2>3. x.live /\ x.card = c
    BY <1>4
  <2>4. \A i \in 1..(n + 1) : i \in 1..n \/ i = n + 1
    OBVIOUS
  <2>. QED
    BY <1>7, <2>2, <2>3, <2>4
<1>15. Steady'
  BY <1>3, <1>12, <1>13, <1>14 DEF Steady
<1>16. Others(c)'
  BY <1>3, <1>8, <1>9, OthersKept
<1>17. calls' = <<>>
  BY <1>2 DEF AddSpell
<1>18. /\ OneLast(<<>>, c) /\ What(<<>>) = "nothing" /\ Left(<<>>) = <<>> /\ ~Void(<<>>)
  BY DEF OneLast, What, Left, Void
<1>19. SpellsLeftAlone => (In(c, "stack")' <=> HasSpell(c)')
  BY <1>8, <1>9, <1>10 DEF In
<1>20. c \notin Tokens /\ (SpellsLeftAlone => c \notin Mourned')
  <2>1. c \notin Tokens
    BY <1>1 DEF Calm
  <2>2. ~In(c, "exile")
    BY <1>3, <1>10, InIs
  <2>. QED
    BY <1>2, <1>3, <2>1, <2>2 DEF Calm, Mourned
<1>21. Told(c)' /\ Kept'
  BY <1>3, <1>8 DEF Calm, Told, Kept
<1>22. Calm(c)'
  BY <1>2, <1>3, <1>17, <1>18, <1>19, <1>20, <1>21 DEF Calm
<1>. QED
  BY <1>15, <1>16, <1>22

-----------------------------------------------------------------------------
(* The event that waits is delivered.                                      *)

AsNested(m) == [m EXCEPT !.nested = TRUE]

LEMMA NestedIs ==
  ASSUME NEW s \in Seq(Call)
  PROVE  /\ Nested(s) \in Seq(Call) /\ Len(Nested(s)) = Len(s)
         /\ \A i \in 1..Len(s) : Nested(s)[i] = AsNested(s[i])
<1>1. Nested(s) \in Seq(Call)
  BY NestedIsCalls
<1>2. DOMAIN Nested(s) = DOMAIN s /\ \A i \in DOMAIN s : Nested(s)[i] = AsNested(s[i])
  BY DEF Nested, AsNested
<1>3. DOMAIN s = 1..Len(s) /\ DOMAIN Nested(s) = 1..Len(Nested(s)) /\ Len(s) \in Nat /\ Len(Nested(s)) \in Nat
  BY <1>1, LenProperties
<1>. QED
  BY <1>1, <1>2, <1>3

LEMMA NestedOne ==
  ASSUME NEW a \in Call
  PROVE  Nested(<<a>>) = <<AsNested(a)>> /\ AsNested(a) \in Call
<1>1. AsNested(a) \in Call
  BY DEF AsNested, Call, PutCall, CardCall, ClearCall
<1>2. PICK s, r : s = <<a>> /\ r = <<AsNested(a)>>
  OBVIOUS
<1>3. s \in Seq(Call) /\ Len(s) = 1 /\ s[1] = a /\ r \in Seq(Call) /\ Len(r) = 1 /\ r[1] = AsNested(a)
  BY <1>1, <1>2
<1>4. /\ Nested(s) \in Seq(Call) /\ Len(Nested(s)) = 1
      /\ \A i \in 1..1 : Nested(s)[i] = AsNested(s[i])
  BY <1>3, NestedIs
<1>5. \A i \in 1..1 : Nested(s)[i] = r[i]
  BY <1>3, <1>4
<1>6. Nested(s) = r
  BY <1>3, <1>4, <1>5, SeqEqual
<1>. QED
  BY <1>1, <1>2, <1>6

LEMMA NestedThree ==
  ASSUME NEW a \in Call, NEW b \in Call, NEW c \in Call
  PROVE  /\ Nested(<<a, b, c>>) = <<AsNested(a), AsNested(b), AsNested(c)>>
         /\ AsNested(a) \in Call /\ AsNested(b) \in Call /\ AsNested(c) \in Call
<1>1. AsNested(a) \in Call /\ AsNested(b) \in Call /\ AsNested(c) \in Call
  BY NestedOne
<1>2. PICK s, r : s = <<a, b, c>> /\ r = <<AsNested(a), AsNested(b), AsNested(c)>>
  OBVIOUS
<1>3. s \in Seq(Call) /\ Len(s) = 3 /\ s[1] = a /\ s[2] = b /\ s[3] = c
  BY <1>2
<1>4. /\ r \in Seq(Call) /\ Len(r) = 3
      /\ r[1] = AsNested(a) /\ r[2] = AsNested(b) /\ r[3] = AsNested(c)
  BY <1>1, <1>2
<1>5. /\ Nested(s) \in Seq(Call) /\ Len(Nested(s)) = 3
      /\ \A i \in 1..3 : Nested(s)[i] = AsNested(s[i])
  BY <1>3, NestedIs
<1>6. \A i \in 1..3 : i = 1 \/ i = 2 \/ i = 3
  OBVIOUS
<1>7. \A i \in 1..3 : Nested(s)[i] = r[i]
  BY <1>3, <1>4, <1>5, <1>6
<1>8. Nested(s) = r
  BY <1>4, <1>5, <1>7, SeqEqual
<1>. QED
  BY <1>1, <1>2, <1>8

LEMMA AsNestedIs ==
  ASSUME NEW m \in Call
  PROVE  LET n == AsNested(m)
         IN /\ n.do = m.do /\ n.card = m.card /\ n.from = m.from /\ n.before = m.before
            /\ n.to = m.to /\ n.nested
  BY DEF AsNested, Call, PutCall, CardCall, ClearCall

\* The one event that waits.
LEMMA OneEvent ==
  ASSUME IInv, NEW c, Told(c), eventsQueue # <<>>,
         NEW e, e = Head(eventsQueue)
  PROVE  /\ Tail(eventsQueue) = <<>> /\ eventsQueue[1] = e /\ e \in Event
         /\ e.live /\ e.card = c /\ At(c, e.to) /\ "temp" \notin {e.from[2], e.to[2]}
         /\ e.persists => c \in Persisting
<1>1. Len(eventsQueue) \in Nat \ {0} /\ DOMAIN eventsQueue = 1..Len(eventsQueue)
  BY EmptySeq, LenProperties DEF IInv
<1>2. Len(eventsQueue) \in DOMAIN eventsQueue /\ 1 \in DOMAIN eventsQueue
  BY <1>1
<1>3. Len(eventsQueue) = 1
  BY <1>2 DEF Told
<1>4. e \in Event /\ Tail(eventsQueue) \in Seq(Event) /\ Len(Tail(eventsQueue)) = 0
  BY <1>3, HeadTailProperties DEF IInv
<1>5. eventsQueue[1] = e
  OBVIOUS
<1>6. Tail(eventsQueue) = <<>>
  BY <1>4, EmptySeq
<1>. QED
  BY <1>2, <1>4, <1>5, <1>6 DEF Told

\* No rule answers: the card has arrived.
LEMMA DeliverUnanswered ==
  ASSUME Steady, Deliver, NEW c \in Cards, Others(c), Calm(c),
         NEW e, e = Head(eventsQueue),
         ~TokensCleanup(e), ~PersistRule(e), ~UnearthRule(e)
  PROVE  Calm(c)'
<1>1. IInv /\ Told(c) /\ eventsQueue # <<>>
  BY DEF Steady, Calm, Deliver
<1>2. /\ Tail(eventsQueue) = <<>> /\ eventsQueue[1] = e /\ e \in Event
      /\ e.live /\ e.card = c /\ At(c, e.to) /\ "temp" \notin {e.from[2], e.to[2]}
  BY <1>1, OneEvent
<1>3. calls' = calls /\ eventsQueue' = <<>>
  <2>1. Answer(e) = <<>>
    BY DEF Answer
  <2>2. <<>> \in Seq(Call) /\ Len(<<>>) = 0 /\ calls \in Seq(Call)
    BY <1>1, EmptySeq DEF IInv
  <2>3. Nested(<<>>) = <<>>
    BY <2>2, NestedIs, EmptySeq
  <2>4. <<>> \o calls = calls
    BY <2>2, ConcatEmptySeq
  <2>. QED
    BY <1>2, <2>1, <2>3, <2>4 DEF Deliver
<1>4. UNCHANGED <<cards, stack, mourned, placeOnTop>>
  BY DEF Deliver
<1>5. c \in Tokens => TokenFits(c)'
  <2>1. c \in Tokens => e.to[2] \in {"battlefield", "garbage"}
    BY <1>2 DEF TokensCleanup, InPlay
  <2>2. c \in Tokens => TokenFits(c)
    BY <1>1, <1>2, <2>1, OnePlace DEF TokenFits
  <2>. QED
    BY <1>4, <2>2, NothingMoves
<1>6. SpellsLeftAlone /\ c \in Mourned' => In(c, "exile")'
  BY <1>2, <1>4, NothingMoves DEF Calm
<1>7. Told(c)' /\ Kept'
  <2>1. DOMAIN <<>> = {}
    OBVIOUS
  <2>. QED
    BY <1>3, <1>4, <2>1 DEF Calm, Kept, Told
<1>8. PICK w : w = What(Left(calls))
  OBVIOUS
<1>9. /\ OneLast(Left(calls), c)
      /\ What(calls) = "counter" => Head(calls).nested
      /\ Left(calls) # calls => w \in {"nothing", "transform"} \/ (w = "return" /\ c \in Tokens)
      /\ w = "return" => c \in Tokens \/ In(c, "exile")'
      /\ w = "put" => c \notin Tokens /\ At(c, Play)'
      /\ w = "spell" => c \notin Tokens /\ In(c, "stack")'
  BY <1>4, <1>8, NothingMoves DEF Calm
<1>10. SpellsLeftAlone => /\ w \notin {"nothing", "transform"} => ~HasSpell(c)'
                          /\ In(c, "stack")' <=> HasSpell(c)' \/ w = "spell"
  BY <1>4, <1>8, NothingMoves DEF Calm
<1>. QED
  BY <1>3, <1>5, <1>6, <1>7, <1>8, <1>9, <1>10 DEF Calm

\* What is left to do when a rule answers, if c has not gone where it was to go.
LEMMA LeftThen ==
  ASSUME Steady, Deliver, NEW c \in Cards, Calm(c),
         NEW z, At(c, z), z[2] \in {"graveyard", "hand", "library"} \/ c \in Tokens
  PROVE  /\ Left(calls) = calls /\ OneLast(calls, c)
         /\ What(calls) \in {"nothing", "transform"} \/ (What(calls) = "return" /\ c \in Tokens)
         /\ SpellsLeftAlone => ~HasSpell(c)
<1>1. ~Handling /\ eventsQueue # <<>>
  BY DEF Deliver
<1>2. What(calls) # "counter" /\ ~Void(calls)
  <2>1. What(calls) = "counter" => calls # <<>>
    BY DEF What
  <2>. QED
    BY <1>1, <2>1 DEF Calm, Handling
<1>3. Left(calls) = calls
  BY <1>2 DEF Left
<1>4. OneLast(calls, c)
  BY <1>3 DEF Calm
<1>5. What(calls) \in {"nothing", "transform", "return", "spell", "put"}
  BY <1>4 DEF OneLast, What
<1>6. /\ What(calls) = "return" => c \in Tokens \/ In(c, "exile")
      /\ What(calls) = "put" => c \notin Tokens /\ At(c, Play)
      /\ What(calls) = "spell" => c \notin Tokens /\ In(c, "stack")
  BY <1>3 DEF Calm
<1>7. z[2] \in {"graveyard", "hand", "library"} => ~In(c, "exile") /\ ~In(c, "stack") /\ ~At(c, Play)
  <2>1. IInv
    BY DEF Steady
  <2>2. (In(c, "exile") => z[2] = "exile") /\ (In(c, "stack") => z[2] = "stack")
    BY <2>1, InIs
  <2>3. At(c, Play) => z = Play
    BY <2>1, OnePlace
  <2>. QED
    BY <2>2, <2>3 DEF Play
<1>8. SpellsLeftAlone => ~HasSpell(c)
  BY <1>1 DEF Calm
<1>. QED
  BY <1>3, <1>4, <1>5, <1>6, <1>7, <1>8

\* A rule answers with one put: a token is cleaned up, or c is exiled.
LEMMA DeliverPut ==
  ASSUME Steady, Deliver, NEW c \in Cards, Calm(c),
         NEW e, e = Head(eventsQueue), NEW to \in Zones,
         Answer(e) = <<Put(c, currentZone(c), e.to, to)>>,
         \/ c \in Tokens /\ to[2] = "garbage"
         \/ /\ c \notin Tokens /\ to[2] = "exile"
            /\ e.to[2] \in {"graveyard", "hand", "library"}
  PROVE  Placing(c)'
<1>1. IInv /\ Told(c) /\ eventsQueue # <<>> /\ calls \in Seq(Call)
  BY DEF Steady, Calm, Deliver, IInv
<1>2. /\ Tail(eventsQueue) = <<>> /\ At(c, e.to) /\ "temp" \notin {e.from[2], e.to[2]}
      /\ e \in Event
  BY <1>1, OneEvent
<1>3. PICK m : m = Put(c, e.to, e.to, to)
  OBVIOUS
<1>4. m \in Call
  BY <1>2, <1>3, PutIsACall DEF Event, Places, At
<1>5. currentZone(c) = e.to
  BY <1>1, <1>2, OnePlace
<1>6. calls' = <<AsNested(m)>> \o calls /\ AsNested(m) \in Call
  BY <1>3, <1>4, <1>5, NestedOne DEF Deliver
<1>7. calls' # <<>> /\ Head(calls') = AsNested(m) /\ Tail(calls') = calls
  BY <1>1, <1>6, FirstThen
<1>8. PICK n : n = AsNested(m)
  OBVIOUS
<1>9. n.do = "put" /\ n.card = c /\ n.from = e.to /\ n.to = to
  BY <1>3, <1>4, <1>8, AsNestedIs DEF Put
<1>10. /\ OneLast(calls, c)
       /\ What(calls) \in {"nothing", "transform"} \/ (What(calls) = "return" /\ c \in Tokens)
       /\ SpellsLeftAlone => ~HasSpell(c)
  BY <1>2, LeftThen
<1>11. UNCHANGED <<cards, stack, mourned, placeOnTop>> /\ eventsQueue' = <<>>
  BY <1>2 DEF Deliver
<1>12. Kept' /\ At(c, e.to)' /\ (HasSpell(c)' <=> HasSpell(c)) /\ Mourned' = Mourned
  BY <1>2, <1>11, NothingMoves DEF Calm, Kept
<1>13. ~SetAside(e.to, to) /\ to[2] # "temp" /\ to[2] # "stack"
  BY DEF SetAside
<1>14. c \in Mourned' => to[2] = "exile"
  BY <1>12 DEF Mourned
<1>15. PICK w : w = What(calls)
  OBVIOUS
<1>16. /\ eventsQueue' = <<>> /\ Kept' /\ calls' # <<>>
       /\ Head(calls') = n /\ What(Tail(calls')) = w /\ OneLast(Tail(calls'), c)
  BY <1>7, <1>8, <1>10, <1>11, <1>12, <1>15
<1>17. /\ to[2] = "garbage" => c \in Tokens
       /\ w # "put" /\ w # "spell" /\ (w = "return" => c \in Tokens)
  BY <1>10, <1>15
<1>18. SpellsLeftAlone => ~HasSpell(c)'
  BY <1>10, <1>12
<1>. QED
  BY <1>2, <1>9, <1>12, <1>13, <1>14, <1>16, <1>17, <1>18 DEF Placing

\* The creature persists.
LEMMA DeliverPersists ==
  ASSUME Steady, Deliver, NEW c \in Cards, Calm(c), c \notin Tokens,
         NEW e, e = Head(eventsQueue), PersistRule(e),
         Answer(e) = IntoPlay(c, e.to, owner(c)) \o <<Then("counter", c)>>
  PROVE  Entering(c)'
<1>1. IInv /\ Told(c) /\ eventsQueue # <<>> /\ calls \in Seq(Call)
  BY DEF Steady, Calm, Deliver, IInv
<1>2. /\ Tail(eventsQueue) = <<>> /\ At(c, e.to) /\ e.to \in Zones
      /\ e \in Event /\ c \in Persisting /\ e.to[2] = "graveyard"
  BY <1>1, OneEvent DEF PersistRule, At
<1>3. PICK m, n, k : /\ m = Put(c, e.to, e.to, <<0, "temp">>)
                     /\ n = Put(c, <<0, "temp">>, e.to, Play)
                     /\ k = Then("counter", c)
  OBVIOUS
<1>4. m \in Call /\ n \in Call /\ k \in Call
  <2>1. <<0, "temp">> \in Zones /\ Play \in Zones
    BY DEF Zones, Kinds, Play
  <2>2. e.to \in Places /\ <<0, "temp">> \in Places
    BY <1>2, <2>1 DEF Places
  <2>. QED
    BY <1>3, <2>1, <2>2, PutIsACall, ThenIsACall
<1>5. Answer(e) = <<m, n, k>>
  <2>1. IntoPlay(c, e.to, owner(c)) = <<m, n>>
    BY <1>3 DEF IntoPlay, Of, owner, Play
  <2>2. <<m, n>> \o <<k>> = <<m, n, k>>
    BY <1>4, AsTriple
  <2>. QED
    BY <1>3, <2>1, <2>2
<1>6. PICK a, b, d : a = AsNested(m) /\ b = AsNested(n) /\ d = AsNested(k)
  OBVIOUS
<1>7. a \in Call /\ b \in Call /\ d \in Call /\ Nested(<<m, n, k>>) = <<a, b, d>>
  BY <1>4, <1>6, NestedThree, Zenon
<1>8. PICK r : r = calls'
  OBVIOUS
<1>9. /\ r # <<>> /\ Head(r) = a /\ Tail(r) # <<>> /\ Head(Tail(r)) = b
      /\ Tail(Tail(r)) # <<>> /\ Head(Tail(Tail(r))) = d /\ Tail(Tail(Tail(r))) = calls
  <2>1. calls' = Nested(Answer(e)) \o calls
    BY DEF Deliver
  <2>2. r = ThreeOnto(a, b, d, calls)
    BY <1>5, <1>7, <1>8, <2>1, Zenon DEF ThreeOnto
  <2>3. a \in Call /\ b \in Call /\ d \in Call /\ calls \in Seq(Call)
    BY <1>1, <1>7
  <2>4. AreThree(ThreeOnto(a, b, d, calls), a, b, d, calls)
    BY <2>3, ThreeInTurn
  <2>. QED
    BY <2>2, <2>4, Zenon DEF AreThree
<1>10. /\ IsPut(a, c, e.to, e.to, <<0, "temp">>)
       /\ IsPut(b, c, <<0, "temp">>, e.to, Play)
       /\ d.do = "counter" /\ d.nested
  BY <1>3, <1>4, <1>6, AsNestedIs DEF IsPut, Put, Then
<1>11. /\ OneLast(calls, c)
       /\ What(calls) \in {"nothing", "transform"}
       /\ SpellsLeftAlone => ~HasSpell(c)
  BY <1>2, LeftThen
<1>12. Ending(Tail(Tail(r)), c)
  <2>1. What(Tail(Tail(r))) = "counter" /\ ~Void(Tail(Tail(r)))
    BY <1>9, <1>10 DEF What, Void
  <2>2. Left(Tail(Tail(r))) = calls
    BY <1>9, <2>1 DEF Left
  <2>. QED
    BY <1>9, <1>10, <1>11, <2>1, <2>2 DEF Ending
<1>13. UNCHANGED <<cards, stack, mourned, placeOnTop>> /\ eventsQueue' = <<>>
  BY <1>2 DEF Deliver
<1>14. Kept' /\ At(c, e.to)' /\ (HasSpell(c)' <=> HasSpell(c)) /\ c \notin Mourned'
  BY <1>2, <1>13, NothingMoves DEF Calm, Kept, Mourned
<1>15. a.from = e.to /\ b.to = Play /\ InPlay(Play)
  BY <1>10 DEF IsPut, InPlay, Play
<1>. QED
  BY <1>2, <1>8, <1>9, <1>10, <1>11, <1>12, <1>13, <1>14, <1>15 DEF Entering

LEMMA CalmDeliver ==
  ASSUME Steady, Deliver, NEW c \in Cards, Others(c), Calm(c)
  PROVE  Steady' /\ Others(c)' /\ (Calm(c)' \/ Placing(c)' \/ Entering(c)')
<1>1. IInv /\ IInv' /\ UNCHANGED <<cards, minus, unearthed, stack, placeOnTop, needShuffle, mourned>>
  BY DeliverIInv DEF Steady, Deliver
<1>2. Steady' /\ Others(c)'
  BY <1>1, NothingMovesSteady DEF Steady
<1>3. PICK e : e = Head(eventsQueue)
  OBVIOUS
<1>4. e.live /\ e.card = c /\ At(c, e.to)
  BY <1>1, <1>3, OneEvent DEF Calm, Deliver
<1>5. currentZone(c) = e.to /\ e.to[1] \in Players
  BY <1>1, <1>4, OnePlace DEF At, Zones
<1>6. CASE TokensCleanup(e)
  <2>1. <<e.to[1], "garbage">> \in Zones /\ c \in Tokens
    BY <1>4, <1>5, <1>6 DEF Zones, Kinds, TokensCleanup
  <2>2. Answer(e) = <<Put(c, currentZone(c), e.to, <<e.to[1], "garbage">>)>>
    BY <1>4, <1>5, <1>6 DEF Answer, controller
  <2>3. Placing(c)'
    BY <1>3, <2>1, <2>2, DeliverPut
  <2>. QED
    BY <1>2, <2>3
<1>7. CASE ~TokensCleanup(e) /\ PersistRule(e)
  <2>1. c \notin Tokens
    BY <1>4, <1>7 DEF TokensCleanup, PersistRule, InPlay
  <2>2. Answer(e) = IntoPlay(c, e.to, owner(c)) \o <<Then("counter", c)>>
    BY <1>4, <1>7 DEF Answer
  <2>. QED
    BY <1>2, <1>3, <1>7, <2>1, <2>2, DeliverPersists
<1>8. CASE ~TokensCleanup(e) /\ ~PersistRule(e) /\ UnearthRule(e)
  <2>1. c \notin Tokens /\ e.to[2] \in {"graveyard", "hand", "library"}
    BY <1>4, <1>8 DEF TokensCleanup, UnearthRule, InPlay
  <2>2. Of(c, "exile") \in Zones /\ Of(c, "exile")[2] = "exile"
    BY DEF Of, owner, Zones, Kinds
  <2>3. Answer(e) = <<Put(c, currentZone(c), e.to, Of(c, "exile"))>>
    BY <1>4, <1>8 DEF Answer
  <2>4. Placing(c)'
    BY <1>3, <2>1, <2>2, <2>3, DeliverPut
  <2>. QED
    BY <1>2, <2>4
<1>9. CASE ~TokensCleanup(e) /\ ~PersistRule(e) /\ ~UnearthRule(e)
  BY <1>2, <1>3, <1>9, DeliverUnanswered
<1>. QED
  BY <1>6, <1>7, <1>8, <1>9

-----------------------------------------------------------------------------
(* What is set aside is put back on its library.                           *)

\* The first of what is left goes on top of what has been put back.
LEMMA OneMoreOnTop ==
  ASSUME NEW S, NEW front \in Seq(S), NEW s \in Seq(S), NEW k \in 1..Len(s)
  PROVE  Append(front \o SubSeq(s, 1, k - 1), s[k]) = front \o SubSeq(s, 1, k)
<1>1. PICK n \in Nat : n = Len(s)
  BY LenProperties
<1>2. PICK f \in Nat : f = Len(front)
  BY LenProperties
<1>3. PICK x : x = SubSeq(s, 1, k - 1)
  OBVIOUS
<1>4. PICK y : y = SubSeq(s, 1, k)
  OBVIOUS
<1>5. PICK j \in Nat : j = k - 1
  BY <1>1
<1>6. /\ x \in Seq(S) /\ Len(x) = j
      /\ \A i \in 1..j : x[i] = s[1 + i - 1]
  BY <1>1, <1>3, <1>5, SubSeqTyped
<1>7. /\ y \in Seq(S) /\ Len(y) = k
      /\ \A i \in 1..k : y[i] = s[1 + i - 1]
  BY <1>1, <1>4, SubSeqTyped
<1>0. PICK lib : lib = front \o SubSeq(s, 1, k - 1)
  OBVIOUS
<1>8. /\ lib \in Seq(S) /\ Len(lib) = f + j
      /\ \A i \in 1..(f + j) : lib[i] = IF i <= f THEN front[i] ELSE x[i - f]
  <2>1. x \in Seq(S) /\ Len(x) = j /\ Len(front) = f /\ lib = front \o x
    BY <1>0, <1>2, <1>3, <1>6
  <2>. QED
    BY <2>1, ConcatTyped, Zenon
<1>9. PICK z : z = front \o y
  OBVIOUS
<1>10. /\ z \in Seq(S) /\ Len(z) = f + k
       /\ \A i \in 1..(f + k) : z[i] = IF i <= f THEN front[i] ELSE y[i - f]
  BY <1>2, <1>7, <1>9, ConcatTyped
<1>11. PICK w \in S : w = s[k]
  BY ElementOfSeq
<1>12. PICK g \in Nat : g = f + j
  OBVIOUS
<1>13. PICK r : r = Append(lib, w)
  OBVIOUS
<1>14. k = j + 1 /\ f + k = g + 1
  BY <1>5, <1>12
<1>15. lib \in Seq(S) /\ Len(lib) = g
  BY <1>8, <1>12
<1>16. /\ r \in Seq(S) /\ Len(r) = g + 1
       /\ \A i \in 1..g : r[i] = lib[i]
       /\ r[g + 1] = w
  BY <1>13, <1>15, AppendProperties
<1>17. ASSUME NEW i \in 1..(g + 1) PROVE r[i] = z[i]
  <2>1. z[i] = IF i <= f THEN front[i] ELSE y[i - f]
    BY <1>10, <1>14
  <2>2. CASE i <= f
    <3>1. i \in 1..g /\ i \in 1..(f + j)
      BY <1>12, <2>2
    <3>. QED
      BY <1>8, <1>16, <2>1, <2>2, <3>1
  <2>3. CASE f < i /\ i <= g
    <3>1. i - f \in 1..j /\ i - f \in 1..k /\ i \in 1..g /\ i \in 1..(f + j) /\ ~(i <= f)
      BY <1>12, <1>14, <2>3
    <3>2. x[i - f] = y[i - f]
      BY <1>6, <1>7, <3>1
    <3>3. r[i] = x[i - f]
      BY <1>8, <1>16, <3>1
    <3>. QED
      BY <2>1, <3>1, <3>2, <3>3
  <2>4. CASE i = g + 1
    <3>1. ~(i <= f) /\ i - f = k /\ k \in 1..k /\ 1 + k - 1 = k
      BY <1>12, <1>14, <2>4
    <3>2. y[k] = s[k]
      BY <1>7, <3>1
    <3>. QED
      BY <1>11, <1>16, <2>1, <2>4, <3>1, <3>2
  <2>. QED
    BY <2>2, <2>3, <2>4
<1>18. z \in Seq(S) /\ Len(z) = g + 1
  BY <1>10, <1>14
<1>19. r = z
  BY <1>16, <1>17, <1>18, SeqEqual
<1>. QED
  BY <1>0, <1>4, <1>9, <1>11, <1>13, <1>19, Zenon

\* A rule answers only what moves a token or what leaves play.
LEMMA BackUnanswered ==
  ASSUME IInv, Deliver, NEW p \in Players, ToldBack(p)
  PROVE  calls' = calls /\ eventsQueue' = <<>>
<1>1. PICK e : e = Head(eventsQueue)
  OBVIOUS
<1>2. Len(eventsQueue) \in Nat \ {0} /\ DOMAIN eventsQueue = 1..Len(eventsQueue)
  BY EmptySeq, LenProperties DEF IInv, Deliver
<1>3. Len(eventsQueue) \in DOMAIN eventsQueue /\ 1 \in DOMAIN eventsQueue
  BY <1>2
<1>4. Len(eventsQueue) = 1
  BY <1>3 DEF ToldBack
<1>5. Tail(eventsQueue) \in Seq(Event) /\ Len(Tail(eventsQueue)) = 0
  BY <1>3, <1>4, HeadTailProperties DEF IInv, Deliver
<1>6. Tail(eventsQueue) = <<>>
  BY <1>5, EmptySeq
<1>7. e.card \notin Tokens /\ e.from = <<p, "library">>
  BY <1>1, <1>3 DEF ToldBack
<1>8. ~TokensCleanup(e) /\ ~PersistRule(e) /\ ~UnearthRule(e)
  BY <1>7 DEF TokensCleanup, PersistRule, UnearthRule, InPlay
<1>9. Answer(e) = <<>>
  BY <1>8 DEF Answer
<1>10. <<>> \in Seq(Call) /\ Len(<<>>) = 0 /\ calls \in Seq(Call)
  BY EmptySeq DEF IInv
<1>11. Nested(<<>>) = <<>>
  BY <1>10, NestedIs, EmptySeq
<1>12. <<>> \o calls = calls
  BY <1>10, ConcatEmptySeq
<1>. QED
  BY <1>1, <1>6, <1>9, <1>11, <1>12 DEF Deliver

LEMMA ClosingDeliver ==
  ASSUME Steady, Deliver, NEW p \in Players, NEW k, Closing(p, k)
  PROVE  Steady' /\ Closing(p, k)'
<1>1. IInv /\ IInv' /\ UNCHANGED <<cards, minus, unearthed, stack, placeOnTop, needShuffle, mourned>>
  BY DeliverIInv DEF Steady, Deliver
<1>2. calls' = calls /\ eventsQueue' = <<>>
  BY <1>1, BackUnanswered DEF Closing
<1>3. Steady'
  BY <1>1, NothingMovesSteady DEF Steady
<1>4. ToPutBack(p, k)'
  BY <1>1, <1>2 DEF Closing, ToPutBack
<1>5. PutBack(p, k)'
  BY <1>1 DEF Closing, PutBack
<1>6. ToldBack(p)'
  <2>1. DOMAIN <<>> = {}
    OBVIOUS
  <2>. QED
    BY <1>2, <2>1 DEF ToldBack
<1>7. \A d \in Cards : Fits(d)'
  BY <1>1, NothingMoves DEF Closing
<1>. QED
  BY <1>3, <1>4, <1>5, <1>6, <1>7 DEF Closing

\* The first thing to do is to put back a card, or it is the last.
LEMMA FirstToPutBack ==
  ASSUME IInv, NEW p \in Players, NEW k, ToPutBack(p, k),
         NEW n \in Nat, n = Len(placeOnTop[p])
  PROVE  /\ k \in 1..(n + 1) /\ calls # <<>> /\ ~Head(calls).nested
         /\ Tail(calls) \in Seq(Call) /\ Len(Tail(calls)) = n + 1 - k
         /\ \A i \in 1..(n + 1 - k) : Tail(calls)[i] = calls[i + 1]
         /\ k = n + 1 => Head(calls).do = "clear" /\ Head(calls).to = <<p, "library">> /\ Tail(calls) = <<>>
         /\ k # n + 1 => IsPut(Head(calls), placeOnTop[p][k], <<p, "temp">>, <<p, "library">>, <<p, "library">>)
<1>1. k \in 1..(n + 1) /\ Len(calls) = n + 2 - k
  BY DEF ToPutBack
<1>2. calls \in Seq(Call) /\ calls # <<>>
  BY <1>1, EmptySeq DEF IInv
<1>3. /\ Tail(calls) \in Seq(Call) /\ Len(Tail(calls)) = (n + 2 - k) - 1
      /\ \A i \in 1..((n + 2 - k) - 1) : Tail(calls)[i] = calls[i + 1]
  BY <1>1, <1>2, HeadTailProperties
<1>4. (n + 2 - k) - 1 = n + 1 - k /\ 1 \in 1..(n + 2 - k) /\ Head(calls) = calls[1]
  BY <1>1
<1>5. ~Head(calls).nested
  BY <1>4 DEF ToPutBack
<1>6. k = n + 1 => n + 2 - k = 1 /\ Len(Tail(calls)) = 0
  BY <1>3
<1>7. k = n + 1 => Head(calls).do = "clear" /\ Head(calls).to = <<p, "library">> /\ Tail(calls) = <<>>
  BY <1>3, <1>4, <1>6, EmptySeq DEF ToPutBack
<1>8. k # n + 1 => 1 \in 1..(n + 1 - k) /\ k + 1 - 1 = k
  BY <1>1
<1>9. k # n + 1 => IsPut(Head(calls), placeOnTop[p][k], <<p, "temp">>, <<p, "library">>, <<p, "library">>)
  BY <1>4, <1>8 DEF ToPutBack
<1>. QED
  BY <1>1, <1>2, <1>3, <1>4, <1>5, <1>7, <1>9

\* One more card is put back.
LEMMA ClosingMove ==
  ASSUME ConstantsAssumption, Steady, Move, NEW p \in Players, NEW k, Closing(p, k)
  PROVE  Steady' /\ \E j \in 1..(Len(placeOnTop'[p]) + 1) : Closing(p, j)'
<1>. DEFINE s == placeOnTop[p]
            m == Head(calls)
<1>0. PICK temp, lib : temp = <<p, "temp">> /\ lib = <<p, "library">>
  OBVIOUS
<1>1. /\ IInv /\ IInv' /\ s \in Seq(Cards) /\ Apart(cards)
      /\ temp \in Zones /\ lib \in Zones /\ temp # lib
      /\ temp[1] = p /\ temp[2] = "temp" /\ lib[1] = p /\ lib[2] = "library"
  BY <1>0, MoveIInv DEF Steady, IInv, Zones, Kinds
<1>2. PICK n \in Nat : n = Len(s)
  BY <1>1, LenProperties
<1>3. /\ k \in 1..(n + 1) /\ calls # <<>> /\ ~m.nested
      /\ Tail(calls) \in Seq(Call) /\ Len(Tail(calls)) = n + 1 - k
      /\ \A i \in 1..(n + 1 - k) : Tail(calls)[i] = calls[i + 1]
      /\ k = n + 1 => m.do = "clear"
      /\ k # n + 1 => IsPut(m, s[k], temp, lib, lib)
  <2>1. ToPutBack(p, k) /\ n = Len(placeOnTop[p])
    BY <1>2 DEF Closing
  <2>2. /\ k \in 1..(n + 1) /\ calls # <<>> /\ ~Head(calls).nested
        /\ Tail(calls) \in Seq(Call) /\ Len(Tail(calls)) = n + 1 - k
        /\ \A i \in 1..(n + 1 - k) : Tail(calls)[i] = calls[i + 1]
    BY <1>1, <2>1, FirstToPutBack
  <2>3. k = n + 1 => Head(calls).do = "clear"
    BY <1>1, <2>1, FirstToPutBack
  <2>4. k # n + 1 => IsPut(Head(calls), placeOnTop[p][k], <<p, "temp">>, <<p, "library">>, <<p, "library">>)
    BY <1>1, <2>1, FirstToPutBack
  <2>. QED
    BY <1>0, <2>2, <2>3, <2>4
<1>4. k \in 1..n /\ IsPut(m, s[k], temp, lib, lib) /\ eventsQueue = <<>>
  BY <1>3 DEF Move, Doing, Handling
<1>5. PICK c \in Cards : c = s[k]
  BY <1>1, <1>2, <1>4, ElementOfSeq
<1>6. m.card = c /\ m.from = temp /\ m.before = lib /\ m.to = lib
  BY <1>4, <1>5 DEF IsPut
<1>7. cards[temp] = SubSeq(s, k, n)
  BY <1>0, <1>2 DEF Closing, PutBack
<1>8. /\ SubSeq(s, k, n) \in Seq(Cards) /\ Len(SubSeq(s, k, n)) = n + 1 - k
      /\ \A i \in 1..(n + 1 - k) : SubSeq(s, k, n)[i] = s[k + i - 1]
  <2>1. n <= Len(s) /\ k <= n + 1 /\ n + 1 - k \in Nat /\ k \in Nat \ {0}
    BY <1>2, <1>4
  <2>. QED
    BY <1>1, <2>1, SubSeqTyped
<1>9. At(c, temp)
  <2>1. PICK r : r = cards[temp]
    OBVIOUS
  <2>2. r \in Seq(Cards) /\ Len(r) = n + 1 - k /\ r[1] = c
    <3>1. 1 \in 1..(n + 1 - k) /\ k + 1 - 1 = k
      BY <1>4
    <3>. QED
      BY <1>5, <1>7, <1>8, <2>1, <3>1
  <2>3. 1 \in DOMAIN r
    BY <1>4, <2>2, LenProperties
  <2>. QED
    BY <1>1, <2>1, <2>2, <2>3 DEF At, ToSet
<1>10. Fits(c) /\ \A kind : In(c, kind) <=> kind = "temp"
  <2>1. \A kind : In(c, kind) <=> kind = "temp"
    BY <1>1, <1>9, InIs
  <2>. QED
    BY <2>1 DEF Closing
<1>11. /\ c \notin Tokens
       /\ SpellsLeftAlone => ~HasSpell(c) /\ c \notin Mourned
  <2>1. c \notin Tokens
    BY <1>1, <1>9, <1>10 DEF Fits, TokenFits
  <2>2. ~In(c, "stack") /\ ~In(c, "exile")
    BY <1>10
  <2>. QED
    BY <1>10, <2>1, <2>2 DEF Fits, MournedFits, SpellFits
<1>12. Others(c)
  BY DEF Others, Closing
<1>13. /\ Steady'
       /\ \A d : HasSpell(d)' <=> HasSpell(d)
       /\ Others(c)'
  BY <1>1, <1>6, <1>9, <1>11, <1>12, MoveSteady
<1>. HIDE DEF m
<1>14. PICK e : e = [card |-> c, live |-> TRUE, from |-> ToldFrom(temp, lib), to |-> lib,
                     persists |-> c \in Persisting \ minus, unearthed |-> c \in unearthed]
  OBVIOUS
<1>15. ~SetAside(temp, lib) /\ lib = IF SetAside(temp, lib) THEN <<temp[1], "temp">> ELSE lib
  BY <1>1 DEF SetAside
<1>. HIDE DEF s
<1>16. /\ calls' = Tail(calls)
       /\ \A z : At(c, z)' <=> z = lib
       /\ \A z \in Zones : z \notin {temp, lib} => cards'[z] = cards[z]
  <2>1. \A z : At(c, z)' <=> z = lib
    BY <1>1, <1>4, <1>6, <1>9, <1>15, MoveIs DEF m
  <2>2. \A z \in Zones : z \notin {temp, lib} => cards'[z] = cards[z]
    BY <1>1, <1>4, <1>6, <1>9, <1>15, MoveIs DEF m
  <2>. QED
    BY <2>1, <2>2 DEF Move
<1>17. /\ cards'[lib] = Append(cards[lib], c)
       /\ \E i \in DOMAIN cards[temp] :
            cards[temp][i] = c /\ cards'[temp] = RemoveAt(cards[temp], i)
  BY <1>1, <1>4, <1>6, <1>9, <1>15, MoveIs DEF m
<1>18. eventsQueue' = <<e>>
  <2>1. eventsQueue' = IF SetAside(temp, lib) \/ lib[2] = "temp" THEN <<>> ELSE
              <<[card |-> c, live |-> TRUE, from |-> ToldFrom(temp, lib), to |-> lib,
                 persists |-> c \in Persisting \ minus, unearthed |-> c \in unearthed]>>
    BY <1>1, <1>4, <1>6, <1>9, <1>15, MoveIs DEF m
  <2>2. ~(SetAside(temp, lib) \/ lib[2] = "temp")
    BY <1>1, <1>15
  <2>. QED
    BY <1>14, <2>1, <2>2
<1>19. placeOnTop' = placeOnTop
  <2>1. placeOnTop' = IF SetAside(temp, lib)
                       THEN [placeOnTop EXCEPT ![temp[1]] = Append(@, c)] ELSE placeOnTop
    BY <1>1, <1>4, <1>6, <1>9, <1>15, MoveIs DEF m
  <2>. QED
    BY <1>15, <2>1
<1>20. mourned' = mourned
  <2>1. mourned' = IF InPlay(temp) /\ ~InPlay(lib) /\ c \in unearthed THEN mourned \cup {c}
                   ELSE IF temp[2] = "exile" THEN mourned \ {c} ELSE mourned
    BY <1>1, <1>4, <1>6, <1>9, <1>15, MoveIs DEF m
  <2>. QED
    BY <1>1, <2>1 DEF InPlay
<1>21. \A d \in Cards : Fits(d)'
  <2>1. \A kind : In(c, kind)' <=> kind = "library"
    BY <1>0, <1>16 DEF In
  <2>2. Fits(c)'
    BY <1>11, <1>13, <1>20, <2>1 DEF Fits, TokenFits, MournedFits, Mourned, SpellFits
  <2>. QED
    BY <1>13, <2>2 DEF Others
<1>22. ToldBack(p)'
  <2>0. SUFFICES \A i \in DOMAIN eventsQueue' :
                   /\ i = 1 /\ eventsQueue'[i].live /\ eventsQueue'[i].card \notin Tokens
                   /\ eventsQueue'[i].card = c
                   /\ eventsQueue'[i].from = lib /\ eventsQueue'[i].to = lib
    BY <1>0, <1>16 DEF ToldBack
  <2>1. SUFFICES ASSUME NEW i \in DOMAIN eventsQueue'
                 PROVE  /\ i = 1 /\ eventsQueue'[i].live /\ eventsQueue'[i].card \notin Tokens
                        /\ eventsQueue'[i].card = c
                        /\ eventsQueue'[i].from = lib /\ eventsQueue'[i].to = lib
    OBVIOUS
  <2>2. i = 1 /\ eventsQueue'[i] = e
    BY <1>18, <2>1
  <2>3. e.live /\ e.card = c /\ e.from = lib /\ e.to = lib
    BY <1>1, <1>14 DEF ToldFrom
  <2>. QED
    BY <1>11, <2>2, <2>3
<1>23. PICK j : j = k + 1
  OBVIOUS
<1>24. j \in 1..(n + 1) /\ n + 1 - k = n + 2 - j /\ j - 1 = k
  BY <1>4, <1>23
<1>25. PutBack(p, j)'
  <2>1. cards'[temp] = SubSeq(s, j, n)
    <3>1. PICK i \in DOMAIN cards[temp] :
            cards[temp][i] = c /\ cards'[temp] = RemoveAt(cards[temp], i)
      BY <1>17
    <3>2. IsInjective(SubSeq(s, k, n))
      BY <1>1, <1>7 DEF Apart
    <3>3. i \in DOMAIN SubSeq(s, k, n) /\ SubSeq(s, k, n)[i] = s[k]
      BY <1>5, <1>7, <3>1
    <3>4. RemoveAt(SubSeq(s, k, n), i) = SubSeq(s, k + 1, n)
      BY <1>1, <1>2, <1>4, <3>2, <3>3, FirstTaken
    <3>. QED
      BY <1>7, <1>23, <3>1, <3>4
  <2>2. \A q \in Players : q # p => cards'[<<q, "temp">>] = placeOnTop[q]
    <3>1. SUFFICES ASSUME NEW q \in Players, q # p PROVE cards'[<<q, "temp">>] = placeOnTop[q]
      OBVIOUS
    <3>2. <<q, "temp">> \in Zones /\ <<q, "temp">> \notin {temp, lib}
      BY <1>1, <3>1 DEF Zones, Kinds
    <3>3. cards[<<q, "temp">>] = placeOnTop[q]
      BY <3>1 DEF Closing, PutBack
    <3>. QED
      BY <1>16, <3>2, <3>3
  <2>3. \E front \in Seq(Cards) : cards'[lib] = front \o SubSeq(s, 1, j - 1)
    <3>1. PICK front \in Seq(Cards) : cards[lib] = front \o SubSeq(s, 1, k - 1)
      BY <1>0 DEF Closing, PutBack, s
    <3>2. PICK r : r = cards[lib]
      OBVIOUS
    <3>3. PICK x \in Seq(Cards) : x = s
      BY <1>1
    <3>4. k \in 1..Len(x) /\ r = front \o SubSeq(x, 1, k - 1)
      BY <1>2, <1>4, <3>1, <3>2, <3>3
    <3>5. Append(r, x[k]) = front \o SubSeq(x, 1, k)
      <4>1. k \in 1..Len(x)
        BY <3>4
      <4>2. Append(front \o SubSeq(x, 1, k - 1), x[k]) = front \o SubSeq(x, 1, k)
        BY <4>1, OneMoreOnTop
      <4>. QED
        BY <3>4, <4>2, Zenon
    <3>. QED
      BY <1>5, <1>17, <1>24, <3>2, <3>3, <3>5, Zenon
  <2>. QED
    BY <1>0, <1>2, <1>19, <2>1, <2>2, <2>3 DEF PutBack, s
<1>26. ToPutBack(p, j)'
  <2>1. j \in 1..(n + 1) /\ Len(calls') = n + 2 - j
    BY <1>3, <1>16, <1>24
  <2>2. \A i \in 1..(n + 2 - j) : calls'[i] = calls[i + 1] /\ i + 1 \in 1..(n + 2 - k)
    BY <1>3, <1>16, <1>24
  <2>3. \A i \in 1..(n + 1 - j) :
          /\ i \in 1..(n + 2 - j) /\ i + 1 \in 1..(n + 1 - k)
          /\ k + (i + 1) - 1 = j + i - 1
    BY <1>4, <1>23
  <2>4. \A i \in 1..(n + 1 - k) :
          IsPut(calls[i], s[k + i - 1], temp, lib, lib)
    BY <1>0, <1>2 DEF Closing, ToPutBack, s
  <2>5. ASSUME NEW i \in 1..(n + 1 - j)
        PROVE  IsPut(calls'[i], s[j + i - 1], temp, lib, lib)
    <3>1. IsPut(calls[i + 1], s[k + (i + 1) - 1], temp, lib, lib)
      BY <2>3, <2>4
    <3>. QED
      BY <2>2, <2>3, <3>1
  <2>6. n + 2 - j \in 1..(n + 2 - j) /\ (n + 2 - j) + 1 = n + 2 - k
    BY <1>4, <1>23
  <2>7. calls'[n + 2 - j] = calls[n + 2 - k]
    BY <2>2, <2>6
  <2>8. calls[n + 2 - k].do = "clear" /\ calls[n + 2 - k].to = lib
    BY <1>0, <1>2 DEF Closing, ToPutBack, s
  <2>9. \A i \in 1..(n + 2 - k) : ~calls[i].nested
    BY <1>2 DEF Closing, ToPutBack, s
  <2>10. \A i \in 1..(n + 2 - j) : ~calls'[i].nested
    BY <2>2, <2>9
  <2>. QED
    BY <1>0, <1>2, <1>19, <2>1, <2>5, <2>7, <2>8, <2>10 DEF ToPutBack, s
<1>27. Closing(p, j)'
  BY <1>21, <1>22, <1>25, <1>26 DEF Closing
<1>. QED
  BY <1>2, <1>13, <1>19, <1>24, <1>27 DEF s

\* All cards have been put back, and are forgotten.
LEMMA ClosingClear ==
  ASSUME Steady, Clear, NEW p \in Players, NEW k, Closing(p, k)
  PROVE  /\ Steady' /\ Idle'
         /\ placeOnTop' = [placeOnTop EXCEPT ![p] = <<>>]
         /\ \E front \in Seq(Cards) : cards'[<<p, "library">>] = front \o placeOnTop[p]
<1>. DEFINE s == placeOnTop[p]
            m == Head(calls)
<1>1. IInv /\ IInv' /\ s \in Seq(Cards) /\ placeOnTop \in [Players -> Seq(Cards)]
  BY ClearIInv DEF Steady, IInv
<1>2. PICK n \in Nat : n = Len(s)
  BY <1>1, LenProperties
<1>3. /\ k \in 1..(n + 1) /\ calls # <<>> /\ ~m.nested
      /\ k = n + 1 => m.do = "clear" /\ m.to = <<p, "library">> /\ Tail(calls) = <<>>
      /\ k # n + 1 => IsPut(m, s[k], <<p, "temp">>, <<p, "library">>, <<p, "library">>)
  <2>1. ToPutBack(p, k) /\ n = Len(placeOnTop[p])
    BY <1>2 DEF Closing
  <2>2. k \in 1..(n + 1) /\ calls # <<>> /\ ~Head(calls).nested
    BY <1>1, <2>1, FirstToPutBack
  <2>3. k = n + 1 => Head(calls).do = "clear" /\ Head(calls).to = <<p, "library">> /\ Tail(calls) = <<>>
    BY <1>1, <2>1, FirstToPutBack
  <2>4. k # n + 1 => IsPut(Head(calls), placeOnTop[p][k], <<p, "temp">>, <<p, "library">>, <<p, "library">>)
    BY <1>1, <2>1, FirstToPutBack
  <2>. QED
    BY <2>2, <2>3, <2>4
<1>4. k = n + 1 /\ m.to = <<p, "library">> /\ Tail(calls) = <<>> /\ eventsQueue = <<>>
  BY <1>3 DEF Clear, Doing, Handling, IsPut
<1>5. UNCHANGED <<cards, minus, unearthed, eventsQueue, stack, needShuffle, mourned>>
  BY DEF Clear
<1>6. calls' = <<>> /\ placeOnTop' = [placeOnTop EXCEPT ![p] = <<>>]
  <2>1. Head(calls).to[1] = p
    BY <1>4
  <2>2. /\ calls' = Tail(calls)
        /\ placeOnTop' = [placeOnTop EXCEPT ![Head(calls).to[1]] = <<>>]
    BY DEF Clear
  <2>. QED
    BY <1>4, <2>1, <2>2
<1>7. Steady'
  BY <1>1, <1>5, NothingMovesSteady DEF Steady
<1>8. \A d \in Cards : Fits(d)'
  BY <1>5, NothingMoves DEF Closing
<1>9. SubSeq(s, k, n) = <<>> /\ SubSeq(s, 1, k - 1) = s
  <2>1. /\ SubSeq(s, n + 1, n) \in Seq(Cards) /\ Len(SubSeq(s, n + 1, n)) = 0
    <3>1. n + 1 \in Nat \ {0} /\ n <= Len(s) /\ n + 1 <= n + 1 /\ 0 = n + 1 - (n + 1)
      BY <1>2
    <3>. QED
      BY <1>1, <3>1, SubSeqTyped
  <2>2. SubSeq(s, n + 1, n) = <<>>
    BY <2>1, EmptySeq
  <2>3. PICK x : x = SubSeq(s, 1, n)
    OBVIOUS
  <2>4. /\ x \in Seq(Cards) /\ Len(x) = n
        /\ \A i \in 1..n : x[i] = s[1 + i - 1]
    BY <1>1, <1>2, <2>3, SubSeqTyped
  <2>5. \A i \in 1..n : x[i] = s[i]
    BY <2>4
  <2>6. x = s
    BY <1>1, <1>2, <2>4, <2>5, SeqEqual
  <2>7. k - 1 = n
    BY <1>4
  <2>. QED
    BY <1>4, <2>2, <2>3, <2>6, <2>7
<1>10. \E front \in Seq(Cards) : cards'[<<p, "library">>] = front \o s
  <2>1. PICK front \in Seq(Cards) : cards[<<p, "library">>] = front \o SubSeq(s, 1, k - 1)
    BY DEF Closing, PutBack
  <2>. QED
    BY <1>5, <1>9, <2>1
<1>11. Kept'
  <2>1. cards[<<p, "temp">>] = <<>>
    BY <1>2, <1>9 DEF Closing, PutBack
  <2>2. \A q \in Players : q # p => cards[<<q, "temp">>] = placeOnTop[q]
    BY DEF Closing, PutBack
  <2>. QED
    BY <1>1, <1>5, <1>6, <2>1, <2>2 DEF Kept
<1>. QED
  BY <1>4, <1>5, <1>6, <1>7, <1>8, <1>10, <1>11 DEF Idle, Settled

-----------------------------------------------------------------------------
(* What the game does when nothing is under way.                           *)

\* What has settled is idle.
LEMMA CalmSettled ==
  ASSUME NEW c \in Cards, Others(c), Calm(c), Settled
  PROVE  Idle
<1>1. Left(calls) = <<>> /\ What(Left(calls)) = "nothing" /\ eventsQueue = <<>>
  BY DEF Settled, Left, What, Void
<1>2. Kept
  BY DEF Calm
<1>3. Fits(c)
  <2>1. TokenFits(c)
    BY <1>1 DEF Calm, TokenFits
  <2>2. MournedFits(c)
    BY <1>1 DEF Calm, MournedFits
  <2>3. SpellFits(c)
    BY <1>1 DEF Calm, SpellFits
  <2>. QED
    BY <2>1, <2>2, <2>3 DEF Fits
<1>4. \A d \in Cards : Fits(d)
  BY <1>3 DEF Others
<1>. QED
  BY <1>2, <1>4 DEF Idle

LEMMA SettledIsIdle ==
  ASSUME IInv, Settling, Settled
  PROVE  Idle
<1>1. ASSUME NEW c \in Cards, Others(c), Calm(c) PROVE Idle
  BY <1>1, CalmSettled
<1>2. ~(\E c \in Cards : Placing(c) \/ Entering(c) \/ Entered(c))
  BY DEF Settled, Placing, Entering, Entered
<1>3. ~(\E p \in Players : \E k \in 1..(Len(placeOnTop[p]) + 1) : Closing(p, k))
  <2>1. SUFFICES ASSUME NEW p \in Players, NEW k, Closing(p, k) PROVE FALSE
    OBVIOUS
  <2>2. PICK n \in Nat : n = Len(placeOnTop[p])
    BY LenProperties DEF IInv
  <2>3. calls # <<>>
    BY <2>1, <2>2, FirstToPutBack DEF Closing
  <2>. QED
    BY <2>3 DEF Settled
<1>. QED
  BY <1>1, <1>2, <1>3 DEF Settling

\* A call that stands alone, and one that is followed by another.
LEMMA OneCall ==
  ASSUME NEW a \in Call, NEW r, r = <<a>>
  PROVE  r # <<>> /\ Head(r) = a /\ Tail(r) = <<>>
<1>1. <<a>> # <<>> /\ Head(<<a>>) = a /\ Tail(<<a>>) = <<>>
  BY OnlyOne
<1>. QED
  BY <1>1, Zenon

LEMMA TwoCalls ==
  ASSUME NEW a \in Call, NEW b \in Call, NEW r, r = <<a, b>>
  PROVE  AreTwo(r, a, b, <<>>)
<1>1. <<a, b>> \in Seq(Call) /\ <<>> \in Seq(Call)
  BY EmptySeq
<1>2. <<a, b>> \o <<>> = <<a, b>>
  BY <1>1, ConcatEmptySeq
<1>3. AreTwo(TwoOnto(a, b, <<>>), a, b, <<>>)
  BY <1>1, TwoInTurn
<1>4. TwoOnto(a, b, <<>>) = r
  BY <1>2, Zenon DEF TwoOnto
<1>. QED
  BY <1>3, <1>4

LEMMA ThreeCalls ==
  ASSUME NEW a \in Call, NEW b \in Call, NEW c \in Call, NEW r, r = <<a, b, c>>
  PROVE  AreThree(r, a, b, c, <<>>)
<1>1. <<a, b, c>> \in Seq(Call) /\ <<>> \in Seq(Call)
  BY EmptySeq
<1>2. <<a, b, c>> \o <<>> = <<a, b, c>>
  BY <1>1, ConcatEmptySeq
<1>3. AreThree(ThreeOnto(a, b, c, <<>>), a, b, c, <<>>)
  BY <1>1, ThreeInTurn
<1>4. ThreeOnto(a, b, c, <<>>) = r
  BY <1>2, Zenon DEF ThreeOnto
<1>. QED
  BY <1>3, <1>4

\* The last things to do.
LEMMA NothingLeft ==
  ASSUME NEW c
  PROVE  OneLast(<<>>, c) /\ What(<<>>) = "nothing" /\ Left(<<>>) = <<>> /\ ~Void(<<>>)
  BY DEF OneLast, What, Left, Void

LEMMA ThenIsLast ==
  ASSUME NEW what \in {"transform", "return", "spell"}, NEW c \in Cards,
         NEW a, a = Then(what, c), NEW r, r # <<>>, Head(r) = a, Tail(r) = <<>>
  PROVE  OneLast(r, c) /\ What(r) = what
<1>1. a.do = what /\ a.card = c /\ ~a.nested
  BY DEF Then
<1>. QED
  BY <1>1 DEF OneLast, What

\* A put is to be done, of a card that is where it is to come from.
LEMMA BeginPlacing ==
  ASSUME Steady, Idle, UNCHANGED <<cards, eventsQueue, mourned, placeOnTop>>,
         NEW c \in Cards, NEW from, At(c, from), NEW before, NEW to,
         NEW m, m = Put(c, from, before, to),
         calls' # <<>>, Head(calls') = m,
         NEW w, w = What(Tail(calls')), OneLast(Tail(calls'), c),
         w \in {"nothing", "transform"} \/ (w = "return" /\ to[2] = "exile")
           \/ (w = "spell" /\ c \notin Tokens /\ from[2] = "hand" /\ to[2] = "stack"),
         "temp" \notin {from[2], to[2]}, to[2] # "garbage",
         c \in Tokens => ~SetAside(from, to),
         \A d : d # c => (HasSpell(d)' <=> HasSpell(d)),
         SpellsLeftAlone => ~HasSpell(c)' /\ (to[2] = "stack" => w = "spell")
  PROVE  Others(c)' /\ Placing(c)'
<1>1. \A d, z : At(d, z)' <=> At(d, z)
  BY DEF At
<1>2. Others(c)'
  <2>1. Others(c)
    BY DEF Idle, Others
  <2>. QED
    BY <1>1, <2>1, OthersKept
<1>3. m.do = "put" /\ m.card = c /\ m.from = from /\ m.to = to
  BY DEF Put
<1>4. Kept' /\ eventsQueue' = <<>> /\ Mourned' = Mourned
  BY DEF Idle, Kept, Settled, Mourned
<1>5. SpellsLeftAlone /\ c \in Mourned => from[2] = "exile"
  <2>1. SpellsLeftAlone /\ c \in Mourned => In(c, "exile")
    BY DEF Idle, Fits, MournedFits
  <2>. QED
    BY <2>1, InIs DEF Steady
<1>6. At(c, from)'
  BY <1>1
<1>7. /\ w = "return" => c \in Tokens \/ to[2] = "exile"
      /\ w # "put"
      /\ w = "spell" => c \notin Tokens /\ from[2] = "hand" /\ to[2] = "stack"
  OBVIOUS
<1>8. Placing(c)'
  BY <1>3, <1>4, <1>5, <1>6, <1>7 DEF Placing
<1>. QED
  BY <1>2, <1>8

\* An effect begins that leaves the stack alone.
LEMMA BeginSteady ==
  ASSUME Steady, IInv', NEW steps, Begin(steps)
  PROVE  Steady' /\ \A d : HasSpell(d)' <=> HasSpell(d)
<1>1. UNCHANGED <<cards, minus, unearthed, eventsQueue, stack, placeOnTop, needShuffle, mourned>>
  BY DEF Begin
<1>2. Steady'
  BY <1>1, NothingMovesSteady DEF Steady
<1>. QED
  BY <1>1, <1>2, NothingMoves

LEMMA BeginPut ==
  ASSUME Steady, IInv', Idle, NEW c \in Cards, NEW from, At(c, from), NEW to \in Zones,
         NEW steps, Begin(steps), steps = <<Put(c, from, Nowhere, to)>>,
         from[2] \notin {"temp", "stack"}, to[2] \notin {"temp", "garbage", "stack"},
         c \in Tokens => ~SetAside(from, to)
  PROVE  Steady' /\ Others(c)' /\ Placing(c)'
<1>1. Steady' /\ \A d : HasSpell(d)' <=> HasSpell(d)
  BY BeginSteady
<1>2. SpellsLeftAlone => ~HasSpell(c)
  <2>1. ~In(c, "stack")
    BY InIs DEF Steady
  <2>. QED
    BY <2>1 DEF Idle, Fits, SpellFits
<1>3. PICK m : m = Put(c, from, Nowhere, to)
  OBVIOUS
<1>4. m \in Call
  BY <1>3, PutIsACall DEF At, Places
<1>5. calls' # <<>> /\ Head(calls') = m /\ Tail(calls') = <<>>
  <2>1. calls' = <<m>>
    BY <1>3 DEF Begin
  <2>. QED
    BY <1>4, <2>1, OneCall
<1>6. UNCHANGED <<cards, eventsQueue, mourned, placeOnTop>>
  BY DEF Begin
<1>7. OneLast(Tail(calls'), c) /\ What(Tail(calls')) = "nothing"
  BY <1>5, NothingLeft
<1>8. Others(c)' /\ Placing(c)'
  BY <1>1, <1>2, <1>3, <1>5, <1>6, <1>7, BeginPlacing
<1>. QED
  BY <1>1, <1>8

LEMMA TakeBegins ==
  ASSUME Steady, Idle, NEW p \in Players, NEW kind \in {"hand", "graveyard"}, Take(p, kind)
  PROVE  Steady' /\ \E c \in Cards : Others(c)' /\ Placing(c)'
<1>1. PICK from, to : from = <<p, "library">> /\ to = <<p, kind>>
  OBVIOUS
<1>2. /\ from \in Zones /\ to \in Zones /\ IInv /\ IInv'
      /\ from[2] = "library" /\ to[2] = kind
  BY <1>1, TakeIInv DEF Steady, Zones, Kinds
<1>3. cards[from] \in Seq(Cards) /\ cards[from] # <<>>
  BY <1>1, <1>2 DEF Take, IInv, Apart
<1>4. PICK n \in Nat : n = Len(cards[from])
  BY <1>3, LenProperties
<1>5. n # 0 /\ DOMAIN cards[from] = 1..n
  BY <1>3, <1>4, EmptySeq, LenProperties
<1>6. PICK c : c = Last(cards[from])
  OBVIOUS
<1>7. c \in Cards /\ c \in ToSet(cards[from])
  <2>1. n \in 1..n /\ c = cards[from][n]
    BY <1>4, <1>5, <1>6 DEF Last
  <2>. QED
    BY <1>3, <1>5, <2>1, ElementOfSeq DEF ToSet
<1>8. At(c, from)
  BY <1>2, <1>7 DEF At
<1>9. PICK steps : steps = <<Put(c, from, Nowhere, to)>>
  OBVIOUS
<1>10. Begin(steps)
  <2>1. Begin(<<Put(Last(cards[<<p, "library">>]), <<p, "library">>, Nowhere, <<p, kind>>)>>)
    BY DEF Take
  <2>. QED
    BY <1>1, <1>6, <1>9, <2>1
<1>11. ~SetAside(from, to)
  BY <1>2 DEF SetAside
<1>12. Steady' /\ Others(c)' /\ Placing(c)'
  BY <1>2, <1>7, <1>8, <1>9, <1>10, <1>11, BeginPut
<1>. QED
  BY <1>7, <1>12

LEMMA LeavesPlay ==
  ASSUME Steady, IInv', Idle, NEW c \in Cards, InPlay(currentZone(c)),
         NEW to \in Zones, to[2] \in {"battlefield", "graveyard"},
         Begin(<<Put(c, currentZone(c), Nowhere, to)>>)
  PROVE  Steady' /\ Others(c)' /\ Placing(c)'
<1>1. PICK from : from = currentZone(c)
  OBVIOUS
<1>2. from[2] = "battlefield" /\ from # Nowhere
  BY <1>1 DEF InPlay
<1>3. At(c, from)
  BY <1>1, <1>2, SomePlace DEF Steady
<1>4. PICK steps : steps = <<Put(c, from, Nowhere, to)>>
  OBVIOUS
<1>5. Begin(steps)
  BY <1>1, <1>4
<1>6. ~SetAside(from, to)
  BY <1>2 DEF SetAside
<1>. QED
  BY <1>2, <1>3, <1>4, <1>5, <1>6, BeginPut

LEMMA BuryBegins ==
  ASSUME Steady, Idle, NEW c \in Cards, Bury(c)
  PROVE  Steady' /\ Others(c)' /\ Placing(c)'
<1>0. PICK to : to = Of(c, "graveyard")
  OBVIOUS
<1>1. to \in Zones /\ to[2] = "graveyard"
  BY <1>0, OfIsAZone DEF Kinds, Of
<1>2. IInv'
  BY BuryIInv DEF Steady
<1>3. InPlay(currentZone(c)) /\ Begin(<<Put(c, currentZone(c), Nowhere, to)>>)
  BY <1>0 DEF Bury
<1>. QED
  BY <1>1, <1>2, <1>3, LeavesPlay

LEMMA ChangeControllerBegins ==
  ASSUME Steady, Idle, NEW c \in Cards, NEW p \in Players, ChangeController(c, p)
  PROVE  Steady' /\ Others(c)' /\ Placing(c)'
<1>0. PICK to : to = <<p, "battlefield">>
  OBVIOUS
<1>1. to \in Zones /\ to[2] = "battlefield"
  BY <1>0 DEF Kinds, Zones
<1>2. IInv'
  BY ChangeControllerIInv DEF Steady
<1>3. InPlay(currentZone(c)) /\ Begin(<<Put(c, currentZone(c), Nowhere, to)>>)
  BY <1>0 DEF ChangeController
<1>. QED
  BY <1>1, <1>2, <1>3, LeavesPlay

LEMMA CastBegins ==
  ASSUME ConstantsAssumption, Steady, Idle, NEW c \in Creatures \cup Instants, Cast(c)
  PROVE  Steady' /\ Others(c)' /\ Placing(c)'
<1>1. PICK from : from = currentZone(c)
  OBVIOUS
<1>2. from[2] = "hand" /\ from # Nowhere /\ c \in Cards /\ c \notin Tokens /\ IInv /\ IInv'
  BY <1>1, CastIInv DEF Cast, Cards, ConstantsAssumption, Steady
<1>3. At(c, from)
  BY <1>1, <1>2, SomePlace
<1>4. PICK to : to = <<from[1], "stack">>
  OBVIOUS
<1>5. to \in Zones /\ to[2] = "stack" /\ from \in Places
  BY <1>3, <1>4, ZoneOfAPlayer DEF At, Places, Kinds
<1>6. PICK a, b : a = Put(c, from, Nowhere, to) /\ b = Then("spell", c)
  OBVIOUS
<1>7. a \in Call /\ b \in Call
  BY <1>2, <1>5, <1>6, PutIsACall, ThenIsACall DEF Places
<1>8. PICK steps : steps = <<a, b>>
  OBVIOUS
<1>9. Begin(steps)
  BY <1>1, <1>4, <1>6, <1>8 DEF Cast, controller
<1>10. UNCHANGED <<cards, eventsQueue, mourned, placeOnTop>> /\ calls' = steps
  BY <1>9 DEF Begin
<1>11. /\ calls' # <<>> /\ Head(calls') = a
       /\ Tail(calls') # <<>> /\ Head(Tail(calls')) = b /\ Tail(Tail(calls')) = <<>>
  BY <1>7, <1>8, <1>10, TwoCalls DEF AreTwo
<1>12. OneLast(Tail(calls'), c) /\ What(Tail(calls')) = "spell"
  BY <1>2, <1>6, <1>11, ThenIsLast
<1>13. Steady' /\ \A d : HasSpell(d)' <=> HasSpell(d)
  BY <1>2, <1>9, BeginSteady
<1>14. SpellsLeftAlone => ~HasSpell(c)
  <2>1. ~In(c, "stack")
    BY <1>2, <1>3, InIs
  <2>. QED
    BY <1>2, <2>1 DEF Idle, Fits, SpellFits
<1>15. Others(c)' /\ Placing(c)'
  BY <1>2, <1>3, <1>5, <1>6, <1>10, <1>11, <1>12, <1>13, <1>14, BeginPlacing
<1>. QED
  BY <1>13, <1>15

-----------------------------------------------------------------------------
(* The stack, from which something is taken or to which it is added.       *)

\* An ability takes its target.
LEMMA TargetIsIdle ==
  ASSUME ConstantsAssumption, Steady, Idle, NEW c \in Cards, NEW effect \in Effects, Target(c, effect)
  PROVE  Steady' /\ Idle'
<1>1. PICK z : z = currentZone(c)
  OBVIOUS
<1>2. /\ effect[1] \in {"move", "unearth", "blink"} /\ effect[2] \in Named /\ effect[3] \in Named
      /\ SpellsLeftAlone => effect[2] # "stack" /\ effect[3] # "stack"
  BY DEF ConstantsAssumption, SpellsLeftAlone
<1>3. z[2] = effect[2] /\ z # Nowhere
  BY <1>1, <1>2 DEF Target, Named, Kinds
<1>4. IInv /\ IInv' /\ UNCHANGED <<cards, minus, unearthed, eventsQueue, calls, placeOnTop, mourned>>
  BY TargetIInv DEF Steady, Target
<1>5. At(c, z) /\ z \in Zones
  BY <1>1, <1>3, <1>4, SomePlace DEF At
<1>6. PICK to : to = Of(c, effect[3])
  OBVIOUS
<1>7. to[2] = effect[3]
  BY <1>6 DEF Of
<1>8. PICK x : x = [what |-> effect[1], card |-> c, live |-> TRUE, to |-> to]
  OBVIOUS
<1>9. stack' = Append(stack, x)
  BY <1>6, <1>8 DEF Target, Stacks
<1>10. PICK n \in Nat : n = Len(stack)
  BY <1>4, LenProperties DEF IInv
<1>11. x \in Item
  <2>1. to \in Zones
    BY <1>2, <1>6, OfIsAZone DEF Named
  <2>. QED
    BY <1>2, <1>8, <2>1 DEF Item
<1>12. /\ DOMAIN stack = 1..n /\ DOMAIN stack' = 1..(n + 1)
       /\ \A i \in 1..n : stack'[i] = stack[i]
       /\ stack'[n + 1] = x
  BY <1>4, <1>9, <1>10, <1>11, AppendProperties, LenProperties DEF IInv
<1>13. /\ x.what = effect[1] /\ x.what # "spell" /\ x.card = c /\ x.to = to
  BY <1>2, <1>8
<1>14. \A d : HasSpell(d)' <=> HasSpell(d)
  BY <1>12, <1>13 DEF HasSpell
<1>15. \A i \in 1..(n + 1) : i \in 1..n \/ i = n + 1
  OBVIOUS
<1>16. ItemsPoint'
  <2>1. SUFFICES ASSUME NEW i \in 1..(n + 1), stack'[i].live
                 PROVE  \E y \in Zones :
                          /\ stack'[i].card \in ToSet(cards'[y]) /\ y[2] \in Named
                          /\ SpellsLeftAlone /\ stack'[i].what # "spell" => y[2] # "stack"
    BY <1>12 DEF ItemsPoint, At
  <2>2. CASE i = n + 1
    <3>1. stack'[i] = x /\ c \in ToSet(cards'[z])
      BY <1>4, <1>5, <1>12, <2>2 DEF At
    <3>. QED
      BY <1>2, <1>3, <1>5, <1>13, <3>1
  <2>3. CASE i # n + 1
    <3>1. i \in 1..n
      BY <2>3
    <3>2. stack'[i] = stack[i]
      BY <1>12, <3>1
    <3>. QED
      BY <1>4, <1>12, <2>1, <3>1, <3>2 DEF Steady, ItemsPoint, At
  <2>. QED
    BY <2>2, <2>3
<1>17. ItemsGo'
  BY <1>2, <1>7, <1>12, <1>13, <1>15 DEF Steady, ItemsGo
<1>18. SpellsDiffer'
  BY <1>12, <1>13, <1>15 DEF Steady, SpellsDiffer
<1>19. needShuffle' \subseteq Players
  <2>1. z[1] \in Players
    BY <1>5 DEF Zones
  <2>2. needShuffle \subseteq Players
    BY DEF Steady
  <2>. QED
    BY <1>1, <2>1, <2>2 DEF Target
<1>20. Steady'
  BY <1>4, <1>16, <1>17, <1>18, <1>19 DEF Steady
<1>21. Idle'
  <2>1. Settled' /\ Kept'
    BY <1>4 DEF Idle, Settled, Kept
  <2>2. \A d, y : At(d, y)' <=> At(d, y)
    BY <1>4 DEF At
  <2>3. \A d \in Cards : Fits(d)'
    BY <1>4, <1>14, <2>2 DEF Idle, Fits, TokenFits, MournedFits, SpellFits, In, Mourned
  <2>. QED
    BY <2>1, <2>3 DEF Idle
<1>. QED
  BY <1>20, <1>21

\* One item less, the others in the same order.
LEMMA ItemTaken ==
  ASSUME ItemsPoint, ItemsGo, SpellsDiffer, UNCHANGED cards, NEW n \in Nat, NEW i \in 1..(n + 1),
         NEW x, x = stack[i], DOMAIN stack = 1..(n + 1), DOMAIN stack' = 1..n,
         \A j \in 1..n : stack'[j] = stack[IF j < i THEN j ELSE j + 1]
  PROVE  /\ ItemsPoint' /\ ItemsGo' /\ SpellsDiffer'
         /\ \A d : d # x.card \/ x.what # "spell" => (HasSpell(d)' <=> HasSpell(d))
         /\ SpellsLeftAlone /\ x.what = "spell" => ~HasSpell(x.card)'
<1>. DEFINE Was(j) == IF j < i THEN j ELSE j + 1
<1>1. /\ \A j \in 1..n : Was(j) \in 1..(n + 1) /\ Was(j) # i
      /\ \A j, k \in 1..n : Was(j) = Was(k) => j = k
      /\ \A m \in 1..(n + 1) : m # i => \E j \in 1..n : Was(j) = m
  <2>1. /\ \A j \in 1..n : Was(j) \in 1..(n + 1) /\ Was(j) # i
        /\ \A j, k \in 1..n : Was(j) = Was(k) => j = k
    OBVIOUS
  <2>2. ASSUME NEW m \in 1..(n + 1), m # i PROVE \E j \in 1..n : Was(j) = m
    <3>1. CASE m < i
      BY <3>1
    <3>2. CASE ~(m < i)
      <4>1. m - 1 \in 1..n /\ ~(m - 1 < i) /\ (m - 1) + 1 = m
        BY <2>2, <3>2
      <4>2. Was(m - 1) = m
        BY <4>1
      <4>. QED
        BY <4>1, <4>2
    <3>. QED
      BY <3>1, <3>2
  <2>. QED
    BY <2>1, <2>2
<1>2. \A j \in 1..n : stack'[j] = stack[Was(j)]
  OBVIOUS
<1>. HIDE DEF Was
<1>3. ItemsPoint' /\ ItemsGo' /\ SpellsDiffer'
  <2>1. ItemsPoint'
    <3>1. SUFFICES ASSUME NEW j \in 1..n, stack'[j].live
                   PROVE  \E z \in Zones :
                            /\ stack'[j].card \in ToSet(cards[z]) /\ z[2] \in Named
                            /\ SpellsLeftAlone /\ stack'[j].what # "spell" => z[2] # "stack"
      BY DEF ItemsPoint, At
    <3>2. stack'[j] = stack[Was(j)] /\ Was(j) \in DOMAIN stack
      BY <1>1, <1>2
    <3>. QED
      BY <3>1, <3>2 DEF ItemsPoint, At
  <2>2. ItemsGo'
    BY <1>1, <1>2 DEF ItemsGo
  <2>3. SpellsDiffer'
    <3>1. SUFFICES ASSUME SpellsLeftAlone, NEW j \in 1..n, NEW k \in 1..n
                   PROVE  /\ stack'[j].what = "spell" => stack'[j].live
                          /\ (stack'[j].what = "spell" /\ stack'[k].what = "spell"
                                /\ stack'[j].card = stack'[k].card) => j = k
      BY DEF SpellsDiffer
    <3>2. /\ stack'[j] = stack[Was(j)] /\ Was(j) \in DOMAIN stack
          /\ stack'[k] = stack[Was(k)] /\ Was(k) \in DOMAIN stack
          /\ Was(j) = Was(k) => j = k
      BY <1>1, <1>2
    <3>. QED
      BY <3>1, <3>2 DEF SpellsDiffer
  <2>. QED
    BY <2>1, <2>2, <2>3
<1>4. \A d : HasSpell(d)' => HasSpell(d)
  BY <1>1, <1>2 DEF HasSpell
<1>5. ASSUME NEW d, d # x.card \/ x.what # "spell", HasSpell(d) PROVE HasSpell(d)'
  <2>1. PICK m \in 1..(n + 1) : stack[m].what = "spell" /\ stack[m].card = d
    BY <1>5 DEF HasSpell
  <2>2. m # i
    BY <1>5, <2>1
  <2>3. PICK j \in 1..n : Was(j) = m
    BY <1>1, <2>2
  <2>. QED
    BY <1>2, <2>1, <2>3 DEF HasSpell
<1>6. SpellsLeftAlone /\ x.what = "spell" => ~HasSpell(x.card)'
  <2>1. SUFFICES ASSUME SpellsLeftAlone, x.what = "spell", NEW j \in 1..n,
                        stack'[j].what = "spell", stack'[j].card = x.card
                 PROVE  FALSE
    BY DEF HasSpell
  <2>2. stack'[j] = stack[Was(j)] /\ Was(j) \in DOMAIN stack /\ Was(j) # i /\ i \in DOMAIN stack
    BY <1>1, <1>2
  <2>. QED
    BY <2>1, <2>2 DEF SpellsDiffer
<1>. QED
  BY <1>3, <1>4, <1>5, <1>6

-----------------------------------------------------------------------------
(* Something on the stack resolves, or is countered.                       *)

\* An effect that moves nothing, or its card out of no zone.
LEMMA BeginCalm ==
  ASSUME Steady, Idle, UNCHANGED <<cards, eventsQueue, mourned, placeOnTop>>, NEW c \in Cards,
         OneLast(Left(calls'), c), What(Left(calls')) \in {"nothing", "transform"},
         What(calls') # "counter",
         \A d : d # c => (HasSpell(d)' <=> HasSpell(d)),
         SpellsLeftAlone => (HasSpell(c)' <=> HasSpell(c))
  PROVE  Others(c)' /\ Calm(c)'
<1>1. /\ \A d, z : At(d, z)' <=> At(d, z)
      /\ \A d, kind : In(d, kind)' <=> In(d, kind)
  BY DEF At, In
<1>2. Others(c)'
  <2>1. Others(c)
    BY DEF Idle, Others
  <2>. QED
    BY <1>1, <2>1, OthersKept
<1>3. Kept' /\ eventsQueue' = <<>> /\ Mourned' = Mourned
  BY DEF Idle, Kept, Settled, Mourned
<1>4. Told(c)'
  BY <1>3 DEF Told
<1>5. /\ TokenFits(c)'
      /\ SpellsLeftAlone => (In(c, "stack")' <=> HasSpell(c)')
      /\ SpellsLeftAlone /\ c \in Mourned' => In(c, "exile")'
  BY <1>1, <1>3 DEF Idle, Fits, TokenFits, SpellFits, MournedFits
<1>6. PICK w, r, s : w = What(Left(calls')) /\ r = Left(calls') /\ s = calls'
  OBVIOUS
<1>7. w \in {"nothing", "transform"} /\ w # "return" /\ w # "put" /\ w # "spell"
  BY <1>6
<1>8. w = What(Left(calls))'
  BY <1>6
<1>. QED
  BY <1>2, <1>3, <1>4, <1>5, <1>7, <1>8 DEF Calm

\* An effect that is done at once.
LEMMA StillIdle ==
  ASSUME Idle, UNCHANGED <<cards, eventsQueue, mourned, placeOnTop>>, calls' = <<>>,
         \A d : HasSpell(d)' <=> HasSpell(d)
  PROVE  Idle'
<1>1. Settled' /\ Kept'
  BY DEF Idle, Settled, Kept
<1>2. \A d, y : At(d, y)' <=> At(d, y)
  BY DEF At
<1>3. \A d \in Cards : Fits(d)'
  BY <1>2 DEF Idle, Fits, TokenFits, MournedFits, SpellFits, In, Mourned
<1>. QED
  BY <1>1, <1>3 DEF Idle

\* A card is to be put into play, through "temp".
LEMMA BeginEntering ==
  ASSUME Steady, Idle, UNCHANGED <<cards, eventsQueue, mourned, placeOnTop>>,
         NEW c \in Cards, c \notin Tokens, NEW from, At(c, from),
         from[2] \notin {"temp", "battlefield"}, SpellsLeftAlone => from[2] # "stack",
         NEW temp, temp = Of(c, "temp"), NEW play, InPlay(play),
         NEW a, NEW b, a = Put(c, from, from, temp), b = Put(c, temp, from, play),
         NEW rest, AreTwo(calls', a, b, rest), Ending(rest, c),
         \A d : HasSpell(d)' <=> HasSpell(d)
  PROVE  Others(c)' /\ Entering(c)'
<1>1. \A d, z : At(d, z)' <=> At(d, z)
  BY DEF At
<1>2. Others(c)'
  <2>1. Others(c)
    BY DEF Idle, Others
  <2>. QED
    BY <1>1, <2>1, OthersKept
<1>3. temp = <<0, "temp">>
  BY DEF Of, owner
<1>4. IsPut(a, c, from, from, temp) /\ IsPut(b, c, temp, from, play) /\ a.from = from /\ b.to = play
  BY DEF IsPut, Put
<1>5. Kept' /\ eventsQueue' = <<>> /\ Mourned' = Mourned
  BY DEF Idle, Kept, Settled, Mourned
<1>6. SpellsLeftAlone => ~HasSpell(c)' /\ (c \in Mourned' => from[2] = "exile")
  <2>1. SpellsLeftAlone => (HasSpell(c) => In(c, "stack")) /\ (c \in Mourned => In(c, "exile"))
    BY DEF Idle, Fits, SpellFits, MournedFits
  <2>2. /\ In(c, "stack") => from[2] = "stack"
        /\ In(c, "exile") => from[2] = "exile"
    BY InIs DEF Steady
  <2>. QED
    BY <1>5, <2>1, <2>2
<1>7. At(c, from)'
  BY <1>1
<1>8. /\ calls' # <<>> /\ Tail(calls') # <<>> /\ Head(calls') = a /\ Head(Tail(calls')) = b
      /\ Tail(Tail(calls')) = rest
  BY DEF AreTwo
<1>9. Entering(c)'
  BY <1>3, <1>4, <1>5, <1>6, <1>7, <1>8 DEF Entering
<1>. QED
  BY <1>2, <1>9

\* Something is taken from the stack: what is left, and where its card is.
LEMMA StackTaken ==
  ASSUME Steady, IInv', UNCHANGED <<cards, minus, unearthed, needShuffle, mourned>>,
         NEW n \in Nat, n + 1 = Len(stack), NEW i \in 1..(n + 1), NEW x, x = stack[i],
         Len(stack') = n,
         \A j \in 1..n : stack'[j] = IF j < i THEN stack[j] ELSE stack[j + 1]
  PROVE  /\ Steady' /\ x \in Item
         /\ \A d : d # x.card \/ x.what # "spell" => (HasSpell(d)' <=> HasSpell(d))
         /\ SpellsLeftAlone /\ x.what = "spell" => x.live /\ ~HasSpell(x.card)'
         /\ x.what # "spell" => x.to \in Zones /\ x.to[2] \in Named
                                  /\ (SpellsLeftAlone => x.to[2] # "stack")
         /\ x.live => /\ At(x.card, Where(x)) /\ Where(x)[2] \in Named
                      /\ SpellsLeftAlone /\ x.what # "spell" => Where(x)[2] # "stack"
<1>1. /\ stack \in Seq(Item) /\ stack' \in Seq(Item) /\ IInv
      /\ DOMAIN stack = 1..(n + 1) /\ DOMAIN stack' = 1..n /\ i \in DOMAIN stack
  BY LenProperties DEF Steady, IInv
<1>2. x \in Item
  BY <1>1, ElementOfSeq
<1>3. ItemsPoint /\ ItemsGo /\ SpellsDiffer
  BY DEF Steady
<1>4. \A j \in 1..n : stack'[j] = stack[IF j < i THEN j ELSE j + 1]
  OBVIOUS
<1>5. /\ ItemsPoint' /\ ItemsGo' /\ SpellsDiffer'
      /\ \A d : d # x.card \/ x.what # "spell" => (HasSpell(d)' <=> HasSpell(d))
      /\ SpellsLeftAlone /\ x.what = "spell" => ~HasSpell(x.card)'
  BY <1>1, <1>3, <1>4, ItemTaken
<1>6. Steady'
  BY <1>5 DEF Steady
<1>7. SpellsLeftAlone /\ x.what = "spell" => x.live
  BY <1>1, <1>3 DEF SpellsDiffer
<1>8. x.what # "spell" => x.to \in Zones /\ x.to[2] \in Named
                                  /\ (SpellsLeftAlone => x.to[2] # "stack")
  BY <1>1, <1>2, <1>3 DEF ItemsGo, Item
<1>9. ASSUME x.live
      PROVE  /\ At(x.card, Where(x)) /\ Where(x)[2] \in Named
             /\ SpellsLeftAlone /\ x.what # "spell" => Where(x)[2] # "stack"
  <2>1. PICK z \in Zones :
          /\ At(x.card, z) /\ z[2] \in Named
          /\ SpellsLeftAlone /\ x.what # "spell" => z[2] # "stack"
    BY <1>1, <1>3, <1>9 DEF ItemsPoint
  <2>2. Where(x) = z
    BY <1>1, <1>9, <2>1, OnePlace DEF Where
  <2>. QED
    BY <2>1, <2>2
<1>. QED
  BY <1>2, <1>5, <1>6, <1>7, <1>8, <1>9

\* What becomes of the card of a spell that is taken from the stack.
LEMMA SpellEnds ==
  ASSUME Steady, Idle, UNCHANGED <<cards, eventsQueue, mourned, placeOnTop>>,
         NEW x \in Item, x.what = "spell", NEW c, c = x.card, NEW from, from = Where(x),
         x.live => At(c, from) /\ from[2] \in Named,
         SpellsLeftAlone => x.live /\ ~HasSpell(c)',
         \A d : d # c => (HasSpell(d)' <=> HasSpell(d)),
         NEW to \in Zones, to[2] \in {"graveyard", "battlefield"},
         calls' = <<Put(c, from, Nowhere, to)>>
  PROVE  Others(c)' /\ (Placing(c)' \/ Calm(c)')
<1>1. c \in Cards
  BY DEF Item
<1>2. PICK m : m = Put(c, from, Nowhere, to)
  OBVIOUS
<1>3. m \in Call
  <2>1. from \in Places
    BY WhereIsAPlace DEF Steady
  <2>. QED
    BY <1>1, <1>2, <2>1, PutIsACall DEF Places
<1>4. calls' # <<>> /\ Head(calls') = m /\ Tail(calls') = <<>>
  BY <1>2, <1>3, OneCall
<1>5. OneLast(<<>>, c) /\ What(<<>>) = "nothing"
  BY NothingLeft
<1>6. CASE x.live
  <2>1. /\ from[2] # "temp" /\ to[2] # "temp" /\ to[2] # "garbage" /\ to[2] # "stack"
        /\ ~SetAside(from, to)
    BY <1>6 DEF Named, Kinds, SetAside
  <2>2. OneLast(Tail(calls'), c) /\ What(Tail(calls')) = "nothing"
    BY <1>4, <1>5
  <2>3. SpellsLeftAlone => ~HasSpell(c)'
    OBVIOUS
  <2>4. At(c, from)
    BY <1>6
  <2>. QED
    BY <1>1, <1>2, <1>4, <2>1, <2>2, <2>3, <2>4, BeginPlacing
<1>7. CASE ~x.live
  <2>1. from = Nowhere /\ ~SpellsLeftAlone
    BY <1>7 DEF Where
  <2>2. m.do = "put" /\ m.from = Nowhere
    BY <1>2, <2>1 DEF Put
  <2>3. Void(calls') /\ What(calls') = "put"
    BY <1>4, <2>2 DEF Void, What
  <2>4. Left(calls') = <<>>
    BY <1>4, <2>3 DEF Left
  <2>5. OneLast(Left(calls'), c) /\ What(Left(calls')) = "nothing"
    BY <1>5, <2>4
  <2>. QED
    BY <1>1, <2>1, <2>3, <2>5, BeginCalm
<1>. QED
  BY <1>6, <1>7

LEMMA FizzleBegins ==
  ASSUME Steady, Idle, NEW i \in DOMAIN stack, Fizzle(i)
  PROVE  Steady' /\ \E c \in Cards : Others(c)' /\ (Placing(c)' \/ Calm(c)')
<1>1. IInv /\ IInv' /\ stack \in Seq(Item)
  BY FizzleIInv DEF Steady, IInv
<1>2. i \in 1..Len(stack)
  BY <1>1, LenProperties
<1>3. PICK n \in Nat : n + 1 = Len(stack)
  <2>1. Len(stack) \in Nat /\ Len(stack) >= 1
    BY <1>1, <1>2, LenProperties
  <2>2. Len(stack) - 1 \in Nat /\ (Len(stack) - 1) + 1 = Len(stack)
    BY <2>1
  <2>. QED
    BY <2>2
<1>4. /\ UNCHANGED <<cards, minus, unearthed, needShuffle, mourned>>
      /\ UNCHANGED <<cards, eventsQueue, mourned, placeOnTop>>
  BY DEF Fizzle
<1>5. /\ Len(stack') = n
      /\ \A j \in 1..n : stack'[j] = IF j < i THEN stack[j] ELSE stack[j + 1]
  BY <1>1, <1>2, <1>3, RemoveAtIs DEF Fizzle
<1>6. PICK x, c, from : x = stack[i] /\ c = x.card /\ from = Where(x)
  OBVIOUS
<1>7. x.what = "spell"
  BY <1>6 DEF Fizzle
<1>8. i \in 1..(n + 1)
  BY <1>2, <1>3
<1>9. /\ Steady' /\ x \in Item
      /\ \A d : d # x.card => (HasSpell(d)' <=> HasSpell(d))
      /\ SpellsLeftAlone => x.live /\ ~HasSpell(x.card)'
      /\ x.live => At(x.card, Where(x)) /\ Where(x)[2] \in Named
  BY <1>1, <1>3, <1>4, <1>5, <1>6, <1>7, <1>8, StackTaken
<1>10. PICK to : to = Of(c, "graveyard")
  OBVIOUS
<1>11. to \in Zones /\ to[2] = "graveyard"
  BY <1>10, OfIsAZone DEF Kinds, Of
<1>12. calls' = <<Put(c, from, Nowhere, to)>>
  BY <1>6, <1>10 DEF Fizzle
<1>13. Others(c)' /\ (Placing(c)' \/ Calm(c)')
  <2>1. /\ x.live => At(c, from) /\ from[2] \in Named
        /\ SpellsLeftAlone => x.live /\ ~HasSpell(c)'
        /\ \A d : d # c => (HasSpell(d)' <=> HasSpell(d))
    BY <1>6, <1>9
  <2>. QED
    BY <1>4, <1>6, <1>7, <1>9, <1>11, <1>12, <2>1, SpellEnds
<1>14. c \in Cards
  BY <1>6, <1>9 DEF Item
<1>. QED
  BY <1>9, <1>13, <1>14

\* What something on the stack that points at its target does.
LEMMA MoverBegins ==
  ASSUME ConstantsAssumption, Steady, Idle, UNCHANGED <<cards, eventsQueue, mourned, placeOnTop>>,
         NEW c \in Cards, NEW from, At(c, from), from[2] \in Named,
         SpellsLeftAlone => from[2] # "stack",
         NEW to \in Zones, to[2] \in Named, SpellsLeftAlone => to[2] # "stack",
         \A d : HasSpell(d)' <=> HasSpell(d),
         NEW seq, seq = Mover(c, from, to),
         \/ calls' = seq
         \/ calls' = seq \o <<Then("transform", c)>>
  PROVE  Others(c)' /\ (Placing(c)' \/ Entering(c)')
<1>1. from \in Zones /\ from \in Places /\ Nowhere \in Places /\ from # Nowhere
  BY NowhereIsNoZone DEF At, Places
<1>2. c \in Tokens => from[2] = "battlefield"
  BY DEF Idle, Fits, TokenFits, Named, At
<1>3. PICK t : t = Then("transform", c)
  OBVIOUS
<1>4. t \in Call
  BY <1>3, ThenIsACall
<1>5. /\ from[2] # "temp" /\ from[2] # "garbage" /\ to[2] # "temp" /\ to[2] # "garbage"
  BY DEF Named
<1>6. /\ OneLast(<<>>, c) /\ What(<<>>) = "nothing" /\ Left(<<>>) = <<>> /\ ~Void(<<>>)
  BY NothingLeft
<1>7. /\ OneLast(<<t>>, c) /\ What(<<t>>) = "transform" /\ ~Void(<<t>>) /\ Left(<<t>>) = <<t>>
  <2>1. <<t>> # <<>> /\ Head(<<t>>) = t /\ Tail(<<t>>) = <<>>
    BY <1>4, OnlyOne
  <2>2. OneLast(<<t>>, c) /\ What(<<t>>) = "transform"
    BY <1>3, <2>1, ThenIsLast
  <2>. QED
    BY <2>2, LastIsLeft
<1>8. PICK last : last = <<t>>
  OBVIOUS
<1>9. CASE InPlay(to) /\ ~InPlay(from)
  <2>1. PICK temp, play : temp = Of(c, "temp") /\ play = <<to[1], "battlefield">>
    OBVIOUS
  <2>2. /\ temp \in Zones /\ temp \in Places /\ play \in Zones /\ InPlay(play)
    BY <2>1, OfIsAZone DEF Kinds, Zones, Places, InPlay
  <2>3. PICK a, b : a = Put(c, from, from, temp) /\ b = Put(c, temp, from, play)
    OBVIOUS
  <2>4. a \in Call /\ b \in Call
    BY <1>1, <2>2, <2>3, PutIsACall
  <2>5. seq = <<a, b>>
    BY <1>1, <1>9, <2>1, <2>3 DEF Mover, IntoPlay
  <2>6. c \notin Tokens /\ from[2] # "battlefield"
    BY <1>2, <1>9 DEF InPlay
  <2>7. \E rest : AreTwo(calls', a, b, rest) /\ Ending(rest, c)
    <3>1. CASE calls' = seq
      <4>1. AreTwo(calls', a, b, <<>>)
        BY <2>4, <2>5, <3>1, TwoCalls
      <4>2. Ending(<<>>, c)
        BY <1>6 DEF Ending
      <4>. QED
        BY <4>1, <4>2
    <3>2. CASE calls' = seq \o <<Then("transform", c)>>
      <4>1. last \in Seq(Call)
        BY <1>4, <1>8
      <4>2. calls' = TwoOnto(a, b, last)
        BY <1>3, <1>8, <2>5, <3>2, Zenon DEF TwoOnto
      <4>3. AreTwo(TwoOnto(a, b, last), a, b, last)
        BY <2>4, <4>1, TwoInTurn
      <4>4. AreTwo(calls', a, b, last)
        BY <4>2, <4>3, Zenon
      <4>5. Ending(last, c)
        BY <1>7, <1>8 DEF Ending
      <4>. QED
        BY <4>4, <4>5
    <3>. QED
      BY <3>1, <3>2
  <2>8. PICK rest : AreTwo(calls', a, b, rest) /\ Ending(rest, c)
    BY <2>7
  <2>9. Others(c)' /\ Entering(c)'
    BY <1>5, <2>1, <2>2, <2>3, <2>6, <2>8, BeginEntering
  <2>. QED
    BY <2>9
<1>10. CASE ~(InPlay(to) /\ ~InPlay(from))
  <2>1. PICK a : a = Put(c, from, Nowhere, to)
    OBVIOUS
  <2>2. a \in Call
    BY <1>1, <2>1, PutIsACall
  <2>3. seq = <<a>>
    BY <1>1, <1>10, <2>1 DEF Mover
  <2>4. \E rest : /\ calls' # <<>> /\ Head(calls') = a /\ Tail(calls') = rest
                  /\ OneLast(rest, c) /\ What(rest) \in {"nothing", "transform"}
    <3>1. CASE calls' = seq
      BY <1>6, <2>2, <2>3, <3>1, OneCall
    <3>2. CASE calls' = seq \o <<Then("transform", c)>>
      <4>1. last \in Seq(Call)
        BY <1>4, <1>8
      <4>2. calls' = Onto(a, last)
        BY <1>3, <1>8, <2>3, <3>2, Zenon DEF Onto
      <4>3. Onto(a, last) # <<>> /\ Head(Onto(a, last)) = a /\ Tail(Onto(a, last)) = last
        BY <2>2, <4>1, OneOnto
      <4>4. calls' # <<>> /\ Head(calls') = a /\ Tail(calls') = last
        BY <4>2, <4>3, Zenon
      <4>. QED
        BY <1>7, <1>8, <4>4
    <3>. QED
      BY <3>1, <3>2
  <2>5. PICK rest : /\ calls' # <<>> /\ Head(calls') = a /\ Tail(calls') = rest
                    /\ OneLast(rest, c) /\ What(rest) \in {"nothing", "transform"}
    BY <2>4
  <2>6. SpellsLeftAlone => ~HasSpell(c)'
    <3>1. In(c, "stack") => from[2] = "stack"
      BY InIs DEF Steady
    <3>. QED
      BY <3>1 DEF Idle, Fits, SpellFits
  <2>7. c \in Tokens => ~SetAside(from, to)
    BY <1>2 DEF SetAside
  <2>8. PICK w : w = What(Tail(calls'))
    OBVIOUS
  <2>9. w \in {"nothing", "transform"} /\ OneLast(Tail(calls'), c)
    BY <2>5, <2>8
  <2>10. Others(c)' /\ Placing(c)'
    BY <1>5, <2>1, <2>5, <2>6, <2>7, <2>8, <2>9, BeginPlacing
  <2>. QED
    BY <2>10
<1>. QED
  BY <1>9, <1>10

\* A card blinks out of play.
LEMMA BlinkBegins ==
  ASSUME Steady, Idle, UNCHANGED <<cards, eventsQueue, mourned, placeOnTop>>,
         NEW c \in Cards, NEW from, At(c, from), InPlay(from),
         NEW to, to = Of(c, "exile"),
         \A d : HasSpell(d)' <=> HasSpell(d),
         calls' = <<Put(c, from, Nowhere, to), Then("return", c)>>
  PROVE  Others(c)' /\ Placing(c)'
<1>1. /\ to \in Zones /\ to[2] = "exile" /\ from[2] = "battlefield" /\ from \in Places
      /\ Nowhere \in Places
  BY OfIsAZone DEF Kinds, Of, InPlay, At, Places
<1>2. PICK a, b : a = Put(c, from, Nowhere, to) /\ b = Then("return", c)
  OBVIOUS
<1>3. a \in Call /\ b \in Call
  BY <1>1, <1>2, PutIsACall, ThenIsACall
<1>4. calls' = <<a, b>>
  BY <1>2
<1>5. /\ calls' # <<>> /\ Head(calls') = a
      /\ Tail(calls') # <<>> /\ Head(Tail(calls')) = b /\ Tail(Tail(calls')) = <<>>
  BY <1>3, <1>4, TwoCalls DEF AreTwo
<1>6. OneLast(Tail(calls'), c) /\ What(Tail(calls')) = "return"
  BY <1>2, <1>5, ThenIsLast
<1>7. SpellsLeftAlone => ~HasSpell(c)'
  <2>1. ~In(c, "stack")
    BY <1>1, InIs DEF Steady
  <2>. QED
    BY <2>1 DEF Idle, Fits, SpellFits
<1>8. ~SetAside(from, to)
  BY <1>1 DEF SetAside
<1>. QED
  BY <1>1, <1>2, <1>5, <1>6, <1>7, <1>8, BeginPlacing

\* What does not point at its target any more moves nothing.
LEMMA TooLate ==
  ASSUME Steady, Idle, UNCHANGED <<cards, eventsQueue, mourned, placeOnTop>>,
         NEW x \in Item, x.what # "spell", ~x.live, calls' = Resolution(x),
         \A d : HasSpell(d)' <=> HasSpell(d)
  PROVE  Idle' \/ (Others(x.card)' /\ Calm(x.card)')
<1>1. PICK c \in Cards : c = x.card
  BY DEF Item
<1>2. Where(x) = Nowhere
  BY DEF Where
<1>3. Mover(c, Nowhere, x.to) = <<>>
  BY DEF Mover
<1>4. PICK t : t = Then("transform", c)
  OBVIOUS
<1>5. t \in Call
  BY <1>4, ThenIsACall
<1>6. <<>> \o <<t>> = <<t>>
  <2>1. <<t>> \in Seq(Call)
    BY <1>5
  <2>. QED
    BY <2>1, ConcatEmptySeq
<1>7. CASE x.what = "unearth"
  <2>1. calls' = <<>> \o <<Then("transform", c)>>
    BY <1>1, <1>2, <1>3, <1>7 DEF Resolution
  <2>2. calls' = <<t>>
    BY <1>4, <1>6, <2>1
  <2>3. calls' # <<>> /\ Head(calls') = t /\ Tail(calls') = <<>>
    BY <1>5, <2>2, OneCall
  <2>4. OneLast(calls', c) /\ What(calls') = "transform"
    BY <1>4, <2>3, ThenIsLast
  <2>5. Left(calls') = calls'
    BY <2>4, LastIsLeft
  <2>6. OneLast(Left(calls'), c) /\ What(Left(calls')) = "transform"
    BY <2>4, <2>5
  <2>7. Others(c)' /\ Calm(c)'
    BY <2>4, <2>6, BeginCalm
  <2>. QED
    BY <1>1, <2>7
<1>8. CASE x.what # "unearth"
  <2>1. calls' = <<>>
    BY <1>1, <1>2, <1>3, <1>8 DEF Resolution, InPlay
  <2>. QED
    BY <2>1, StillIdle
<1>. QED
  BY <1>7, <1>8

LEMMA ResolveBegins ==
  ASSUME ConstantsAssumption, Steady, Idle, Resolve
  PROVE  /\ Steady'
         /\ Idle' \/ \E c \in Cards : Others(c)' /\ (Placing(c)' \/ Entering(c)' \/ Calm(c)')
<1>1. IInv /\ IInv' /\ stack \in Seq(Item) /\ stack # <<>>
  BY ResolveIInv DEF Steady, IInv, Resolve
<1>2. PICK n \in Nat : n + 1 = Len(stack)
  <2>1. Len(stack) \in Nat /\ Len(stack) # 0
    BY <1>1, EmptySeq, LenProperties
  <2>2. Len(stack) - 1 \in Nat /\ (Len(stack) - 1) + 1 = Len(stack)
    BY <2>1
  <2>. QED
    BY <2>2
<1>3. /\ UNCHANGED <<cards, minus, unearthed, needShuffle, mourned>>
      /\ UNCHANGED <<cards, eventsQueue, mourned, placeOnTop>>
  BY DEF Resolve
<1>4. Len(stack') = n /\ \A j \in 1..n : stack'[j] = stack[j]
  <2>1. Len(stack) - 1 = n
    BY <1>2
  <2>2. stack' = SubSeq(stack, 1, n)
    BY <2>1 DEF Resolve, Front
  <2>3. /\ Len(SubSeq(stack, 1, n)) = n
        /\ \A j \in 1..n : SubSeq(stack, 1, n)[j] = stack[1 + j - 1]
    BY <1>1, <1>2, SubSeqTyped
  <2>4. \A j \in 1..n : 1 + j - 1 = j
    OBVIOUS
  <2>. QED
    BY <2>2, <2>3, <2>4
<1>5. PICK x, c, from : x = Last(stack) /\ c = x.card /\ from = Where(x)
  OBVIOUS
<1>6. x = stack[n + 1] /\ n + 1 \in 1..(n + 1)
  BY <1>2, <1>5 DEF Last
<1>7. \A j \in 1..n : stack'[j] = IF j < n + 1 THEN stack[j] ELSE stack[j + 1]
  BY <1>4
<1>8. /\ Steady' /\ x \in Item
      /\ \A d : d # x.card \/ x.what # "spell" => (HasSpell(d)' <=> HasSpell(d))
      /\ SpellsLeftAlone /\ x.what = "spell" => x.live /\ ~HasSpell(x.card)'
      /\ x.what # "spell" => x.to \in Zones /\ x.to[2] \in Named
                               /\ (SpellsLeftAlone => x.to[2] # "stack")
      /\ x.live => /\ At(x.card, Where(x)) /\ Where(x)[2] \in Named
                   /\ SpellsLeftAlone /\ x.what # "spell" => Where(x)[2] # "stack"
  BY <1>1, <1>2, <1>3, <1>4, <1>6, <1>7, StackTaken
<1>9. calls' = Resolution(x) /\ c \in Cards
  BY <1>5, <1>8 DEF Resolve, Item
<1>10. CASE x.what = "spell"
  <2>1. PICK to : to = IF c \in Instants THEN Of(c, "graveyard") ELSE <<from[1], "battlefield">>
    OBVIOUS
  <2>2. to \in Zones /\ to[2] \in {"graveyard", "battlefield"}
    <3>1. from \in Places
      BY <1>1, <1>5, WhereIsAPlace
    <3>2. Of(c, "graveyard") \in Zones /\ <<from[1], "battlefield">> \in Zones
      BY <3>1, OfIsAZone, ZoneOfAPlayer DEF Kinds
    <3>. QED
      BY <2>1, <3>2 DEF Of
  <2>3. calls' = <<Put(c, from, Nowhere, to)>>
    BY <1>5, <1>9, <1>10, <2>1 DEF Resolution
  <2>4. /\ x.live => At(c, from) /\ from[2] \in Named
        /\ SpellsLeftAlone => x.live /\ ~HasSpell(c)'
        /\ \A d : d # c => (HasSpell(d)' <=> HasSpell(d))
    BY <1>5, <1>8, <1>10
  <2>5. Others(c)' /\ (Placing(c)' \/ Calm(c)')
    BY <1>3, <1>5, <1>8, <1>10, <2>2, <2>3, <2>4, SpellEnds
  <2>. QED
    BY <1>8, <1>9, <2>5
<1>11. CASE x.what # "spell" /\ x.live
  <2>1. PICK to : to = x.to
    OBVIOUS
  <2>2. /\ \A d : HasSpell(d)' <=> HasSpell(d)
        /\ to \in Zones /\ to[2] \in Named /\ (SpellsLeftAlone => to[2] # "stack")
        /\ At(c, from) /\ from[2] \in Named /\ (SpellsLeftAlone => from[2] # "stack")
    BY <1>5, <1>8, <1>11, <2>1
  <2>3. CASE x.what \in {"move", "unearth"}
    <3>1. PICK seq : seq = Mover(c, from, to)
      OBVIOUS
    <3>2. calls' = seq \/ calls' = seq \o <<Then("transform", c)>>
      BY <1>5, <1>9, <1>11, <2>1, <2>3, <3>1 DEF Resolution
    <3>3. Others(c)' /\ (Placing(c)' \/ Entering(c)')
      BY <1>3, <1>9, <2>2, <3>1, <3>2, MoverBegins
    <3>. QED
      BY <1>8, <1>9, <3>3
  <2>4. CASE x.what = "blink" /\ InPlay(from)
    <3>1. PICK exile : exile = Of(c, "exile")
      OBVIOUS
    <3>2. calls' = <<Put(c, from, Nowhere, exile), Then("return", c)>>
      BY <1>5, <1>9, <2>4, <3>1 DEF Resolution
    <3>3. Others(c)' /\ Placing(c)'
      BY <1>3, <1>9, <2>2, <2>4, <3>1, <3>2, BlinkBegins
    <3>. QED
      BY <1>8, <1>9, <3>3
  <2>5. CASE x.what = "blink" /\ ~InPlay(from)
    <3>1. calls' = <<>>
      BY <1>5, <1>9, <2>5 DEF Resolution
    <3>2. Idle'
      BY <1>3, <2>2, <3>1, StillIdle
    <3>. QED
      BY <1>8, <3>2
  <2>6. x.what \in {"move", "unearth", "blink"}
    BY <1>8, <1>11 DEF Item
  <2>. QED
    BY <2>3, <2>4, <2>5, <2>6
<1>12. CASE x.what # "spell" /\ ~x.live
  <2>1. Idle' \/ (Others(x.card)' /\ Calm(x.card)')
    <3>1. \A d : HasSpell(d)' <=> HasSpell(d)
      BY <1>8, <1>12
    <3>. QED
      BY <1>3, <1>8, <1>9, <1>12, <3>1, TooLate
  <2>. QED
    BY <1>5, <1>8, <1>9, <2>1
<1>. QED
  BY <1>10, <1>11, <1>12

-----------------------------------------------------------------------------
(* A token is made, and a library is closed.                               *)

LEMMA CreateBegins ==
  ASSUME Steady, Idle, NEW t \in Tokens, Create(t)
  PROVE  Steady' /\ Others(t)' /\ Entered(t)'
<1>1. t \in Cards /\ IInv /\ IInv'
  BY CreateIInv DEF Cards, Steady
<1>2. \A z : ~At(t, z)
  BY <1>1, CurrentZoneIs DEF Create, IInv, At
<1>3. PICK z0 : z0 = <<0, "temp">>
  OBVIOUS
<1>4. /\ z0 \in Zones /\ z0 = Of(t, "temp") /\ z0 # <<1, "temp">> /\ <<1, "temp">> \in Zones
  BY <1>3 DEF Zones, Kinds, Of, owner
<1>5. cards' = [cards EXCEPT ![z0] = Append(cards[z0], t)] /\ cards \in [Zones -> Seq(Cards)]
  BY <1>1, <1>4 DEF Create, IInv, Apart
<1>6. cards'[z0] = Append(cards[z0], t) /\ \A z \in Zones : z # z0 => cards'[z] = cards[z]
  BY <1>4, <1>5
<1>7. ToSet(cards'[z0]) = ToSet(cards[z0]) \cup {t}
  <2>1. cards[z0] \in Seq(Cards) /\ IsInjective(cards[z0])
    BY <1>1, <1>4 DEF IInv, Apart
  <2>2. t \notin ToSet(cards[z0])
    BY <1>2, <1>4 DEF At
  <2>. QED
    BY <1>1, <1>6, <2>1, <2>2, AppendAddsOne
<1>8. /\ \A d, z : At(d, z) => At(d, z)'
      /\ \A d, z : d # t => (At(d, z)' <=> At(d, z))
  BY <1>6, <1>7 DEF At
<1>9. UNCHANGED <<minus, unearthed, eventsQueue, stack, placeOnTop, needShuffle, mourned>>
  BY DEF Create
<1>10. \A d : HasSpell(d)' <=> HasSpell(d)
  BY <1>9 DEF HasSpell
<1>11. Others(t)'
  <2>1. Others(t)
    BY DEF Idle, Others
  <2>. QED
    BY <1>8, <1>9, <1>10, <2>1, OthersKept
<1>12. Steady'
  <2>1. ItemsPoint'
    BY <1>8, <1>9 DEF Steady, ItemsPoint
  <2>2. ItemsGo' /\ SpellsDiffer'
    BY <1>9 DEF Steady, ItemsGo, SpellsDiffer
  <2>. QED
    BY <1>1, <1>9, <2>1, <2>2 DEF Steady
<1>13. PICK play : play = Of(t, "battlefield")
  OBVIOUS
<1>14. PICK m : m = Put(t, z0, Nowhere, play)
  OBVIOUS
<1>15. m \in Call
  <2>1. play \in Zones /\ z0 \in Places /\ Nowhere \in Places
    BY <1>4, <1>13, OfIsAZone DEF Kinds, Places
  <2>. QED
    BY <1>1, <1>14, <2>1, PutIsACall
<1>16. calls' # <<>> /\ Head(calls') = m /\ Tail(calls') = <<>>
  <2>1. calls' = <<m>>
    BY <1>4, <1>13, <1>14 DEF Create
  <2>. QED
    BY <1>15, <2>1, OneCall
<1>17. IsPut(m, t, z0, Nowhere, play) /\ m.before = Nowhere /\ m.to = play /\ InPlay(play)
  BY <1>13, <1>14 DEF IsPut, Put, InPlay, Of
<1>18. Ending(<<>>, t)
  BY NothingLeft DEF Ending
<1>19. /\ cards'[<<0, "temp">>] = Append(placeOnTop'[0], t)
       /\ cards'[<<1, "temp">>] = placeOnTop'[1]
  BY <1>3, <1>4, <1>6, <1>9 DEF Idle, Kept
<1>20. SpellsLeftAlone => ~HasSpell(t)' /\ t \notin Mourned'
  <2>1. ~In(t, "stack")
    BY <1>2 DEF In
  <2>. QED
    BY <1>1, <1>9, <1>10, <2>1 DEF Idle, Fits, SpellFits, Mourned
<1>21. eventsQueue' = <<>> /\ Nowhere[2] # "temp"
  BY <1>9 DEF Idle, Settled
<1>22. IsPut(m, t, <<0, "temp">>, m.before, m.to) /\ InPlay(m.to) /\ m.before = Nowhere
  BY <1>3, <1>17
<1>23. Entered(t)'
  BY <1>16, <1>18, <1>19, <1>20, <1>21, <1>22 DEF Entered
<1>. QED
  BY <1>11, <1>12, <1>23

LEMMA PutIs ==
  ASSUME NEW c, NEW from, NEW before, NEW to, NEW m, m = Put(c, from, before, to)
  PROVE  IsPut(m, c, from, before, to) /\ ~m.nested
  BY DEF Put, IsPut

\* What is done when a library is closed.
AndAtLast(seq, m) == seq \o <<m>>

ClearOf(p) == [Then("clear", Nowhere) EXCEPT !.to = <<p, "library">>]
ToClose(p) == AndAtLast(Shuffled(p), ClearOf(p))

\* r puts the cards of s back on the library of p.
Closes(r, s, p) ==
  LET n == Len(s) IN
  /\ Len(r) = n + 1
  /\ \A i \in 1..n :
       /\ IsPut(r[i], s[i], <<p, "temp">>, <<p, "library">>, <<p, "library">>)
       /\ ~r[i].nested
  /\ r[n + 1] = ClearOf(p)

LEMMA ToCloseCloses ==
  ASSUME IInv, NEW p \in Players
  PROVE  Closes(ToClose(p), placeOnTop[p], p)
<1>1. PICK s, temp, lib, clear, r :
        /\ s = placeOnTop[p] /\ temp = <<p, "temp">> /\ lib = <<p, "library">>
        /\ clear = [Then("clear", Nowhere) EXCEPT !.to = lib]
        /\ r = AndAtLast(Shuffled(p), clear)
  OBVIOUS
<1>2. PICK n \in Nat : n = Len(s)
  BY <1>1, LenProperties DEF IInv
<1>3. PICK back : back = Shuffled(p)
  OBVIOUS
<1>4. placeOnTop[p] \in Seq(Cards)
  BY DEF IInv
<1>5. DOMAIN placeOnTop[p] = 1..n
  BY <1>1, <1>2, <1>4, LenProperties
<1>6. /\ back \in Seq(Call) /\ DOMAIN back = 1..n
      /\ \A i \in 1..n :
           /\ IsPut(back[i], s[i], temp, lib, lib)
           /\ ~back[i].nested
  <2>1. back \in Seq(Call) /\ DOMAIN back = 1..n
    BY <1>3, <1>5, ShuffledIsCalls DEF Shuffled
  <2>2. ASSUME NEW i \in 1..n
        PROVE  back[i] = Put(s[i], temp, lib, lib)
    BY <1>1, <1>3, <1>5 DEF Shuffled
  <2>3. ASSUME NEW i \in 1..n
        PROVE  /\ IsPut(back[i], s[i], temp, lib, lib)
               /\ ~back[i].nested
    <3>1. back[i] = Put(s[i], temp, lib, lib)
      BY <2>2
    <3>. QED
      BY <3>1, PutIs, Zenon
  <2>. QED
    BY <2>1, <2>3
<1>7. Len(back) = n
  BY <1>6, LenProperties
<1>8. clear \in Call
  BY <1>1 DEF Then, Call, ClearCall, Zones, Kinds
<1>9. <<clear>> \in Seq(Call) /\ Len(<<clear>>) = 1 /\ <<clear>>[1] = clear
  BY <1>8
<1>10. PICK one : one = <<clear>>
  OBVIOUS
<1>11. /\ r \in Seq(Call) /\ Len(r) = n + 1
      /\ \A i \in 1..(n + 1) : r[i] = IF i <= n THEN back[i] ELSE one[i - n]
  <2>1. one \in Seq(Call) /\ Len(one) = 1 /\ back \in Seq(Call) /\ Len(back) = n
    BY <1>6, <1>7, <1>9, <1>10
  <2>2. r = back \o one
    BY <1>1, <1>3, <1>10, Zenon DEF AndAtLast
  <2>3. /\ back \o one \in Seq(Call)
        /\ Len(back \o one) = Len(back) + Len(one)
        /\ \A i \in 1..Len(back) + Len(one) :
             (back \o one)[i] = IF i <= Len(back) THEN back[i] ELSE one[i - Len(back)]
    BY <2>1, ConcatTyped
  <2>. QED
    BY <2>1, <2>2, <2>3
<1>12. ASSUME NEW i \in 1..n PROVE r[i] = back[i]
  <2>1. i \in 1..(n + 1) /\ i <= n
    OBVIOUS
  <2>. QED
    BY <1>11, <2>1
<1>13. r[n + 1] = clear
  <2>1. n + 1 \in 1..(n + 1) /\ ~(n + 1 <= n) /\ (n + 1) - n = 1
    OBVIOUS
  <2>2. r[n + 1] = one[1]
    BY <1>11, <2>1
  <2>. QED
    BY <1>9, <1>10, <2>2
<1>14. clear = ClearOf(p) /\ r = ToClose(p)
  BY <1>1 DEF ClearOf, ToClose
<1>15. Closes(r, s, p)
  BY <1>1, <1>2, <1>14, <1>6, <1>11, <1>12, <1>13 DEF Closes
<1>. QED
  BY <1>1, <1>14, <1>15

LEMMA CloseLibraryBegins ==
  ASSUME Steady, Idle, NEW p \in Players, CloseLibrary(p)
  PROVE  Steady' /\ Closing(p, 1)'
<1>1. IInv /\ IInv'
  BY CloseLibraryIInv DEF Steady
<1>2. PICK lib, temp, s : lib = <<p, "library">> /\ temp = <<p, "temp">> /\ s = placeOnTop[p]
  OBVIOUS
<1>3. lib \in Zones /\ temp \in Zones /\ s \in Seq(Cards)
  BY <1>1, <1>2 DEF Zones, Kinds, IInv
<1>4. PICK n \in Nat : n = Len(s)
  BY <1>3, LenProperties
<1>5. UNCHANGED <<minus, unearthed, eventsQueue, stack, placeOnTop, mourned>> /\ needShuffle' \subseteq Players
  BY DEF CloseLibrary, Steady
<1>6. PICK order \in Bijection(DOMAIN cards[lib], DOMAIN cards[lib]) :
        cards' = [cards EXCEPT ![lib] = [i \in DOMAIN cards[lib] |-> cards[lib][order[i]]]]
  BY <1>2, ZenonT(30) DEF CloseLibrary, Shuffles
<1>7. PICK r, old : old = cards[lib] /\ r = [i \in DOMAIN old |-> old[order[i]]]
  OBVIOUS
<1>8. r \in Seq(Cards) /\ ToSet(r) = ToSet(old)
  <2>1. old \in Seq(Cards) /\ IsInjective(old) /\ order \in Bijection(DOMAIN old, DOMAIN old)
    BY <1>1, <1>3, <1>6, <1>7 DEF IInv, Apart
  <2>2. r = [i \in DOMAIN old |-> old[order[i]]]
    BY <1>7
  <2>3. r \in Seq(Cards) /\ IsInjective(r) /\ ToSet(r) = ToSet(old)
    BY <2>1, <2>2, ReorderedIs
  <2>. QED
    BY <2>3
<1>9. /\ cards'[lib] = r
      /\ \A z \in Zones : z # lib => cards'[z] = cards[z]
  <2>1. cards' = [cards EXCEPT ![lib] = r] /\ cards \in [Zones -> Seq(Cards)]
    BY <1>1, <1>6, <1>7 DEF IInv, Apart
  <2>. QED
    BY <1>3, <2>1
<1>10. /\ \A d, z : At(d, z)' <=> At(d, z)
       /\ \A d, kind : In(d, kind)' <=> In(d, kind)
  BY <1>7, <1>8, <1>9 DEF At, In
<1>11. Steady'
  <2>1. ItemsPoint'
    BY <1>5, <1>10 DEF Steady, ItemsPoint
  <2>2. ItemsGo' /\ SpellsDiffer'
    BY <1>5 DEF Steady, ItemsGo, SpellsDiffer
  <2>. QED
    BY <1>1, <1>5, <2>1, <2>2 DEF Steady
<1>12. \A d \in Cards : Fits(d)'
  <2>1. (\A d : HasSpell(d)' <=> HasSpell(d)) /\ Mourned' = Mourned
    BY <1>5 DEF HasSpell, Mourned
  <2>. QED
    BY <1>10, <2>1 DEF Idle, Fits, TokenFits, MournedFits, SpellFits
<1>13. ToldBack(p)'
  <2>1. eventsQueue' = <<>>
    BY <1>5 DEF Idle, Settled
  <2>. QED
    BY <2>1 DEF ToldBack
<1>14. PutBack(p, 1)'
  <2>1. \A q \in Players : cards'[<<q, "temp">>] = placeOnTop'[q]
    <3>1. \A q \in Players : <<q, "temp">> \in Zones /\ <<q, "temp">> # lib
      BY <1>2 DEF Zones, Kinds
    <3>. QED
      BY <1>5, <1>9, <3>1 DEF Idle, Kept
  <2>2. SubSeq(s, 1, n) = s
    <3>1. /\ SubSeq(s, 1, n) \in Seq(Cards) /\ Len(SubSeq(s, 1, n)) = n
          /\ \A i \in 1..n : SubSeq(s, 1, n)[i] = s[1 + i - 1]
      BY <1>3, <1>4, SubSeqTyped
    <3>2. \A i \in 1..n : SubSeq(s, 1, n)[i] = s[i]
      BY <3>1
    <3>. QED
      BY <1>3, <1>4, <3>1, <3>2, SeqEqual
  <2>3. SubSeq(s, 1, 0) = <<>>
    <3>1. SubSeq(s, 1, 0) \in Seq(Cards) /\ Len(SubSeq(s, 1, 0)) = 0
      BY <1>3, <1>4, SubSeqTyped
    <3>. QED
      BY <3>1, EmptySeq
  <2>4. r \o <<>> = r
    BY <1>8, ConcatEmptySeq
  <2>5. \E front \in Seq(Cards) : cards'[lib] = front \o SubSeq(s, 1, 0)
    BY <1>8, <1>9, <2>3, <2>4
  <2>6. s = placeOnTop'[p] /\ 1 - 1 = 0
    BY <1>2, <1>5
  <2>. QED
    BY <1>2, <1>4, <2>1, <2>2, <2>5, <2>6 DEF PutBack
<1>15. ToPutBack(p, 1)'
  <2>1. PICK r0, clear : r0 = calls' /\ clear = ClearOf(p)
    OBVIOUS
  <2>2. r0 = ToClose(p)
    BY <2>1, Zenon DEF CloseLibrary, AndAtLast, ToClose, ClearOf
  <2>3. Closes(r0, s, p)
    BY <1>1, <1>2, <2>2, ToCloseCloses
  <2>4. clear.do = "clear" /\ clear.to = lib /\ ~clear.nested
    BY <1>2, <2>1 DEF ClearOf, Then
  <2>5. /\ Len(calls') = n + 1
        /\ \A i \in 1..n : IsPut(calls'[i], s[i], temp, lib, lib) /\ ~calls'[i].nested
        /\ calls'[n + 1] = clear
    BY <1>2, <1>4, <2>1, <2>3 DEF Closes
  <2>6. n + 2 - 1 = n + 1 /\ n + 1 - 1 = n /\ \A i \in 1..n : 1 + i - 1 = i
    OBVIOUS
  <2>7. \A i \in 1..(n + 1) : i \in 1..n \/ i = n + 1
    OBVIOUS
  <2>8. placeOnTop'[p] = s /\ 1 \in 1..(n + 1)
    BY <1>2, <1>5
  <2>. QED
    BY <1>2, <1>4, <2>4, <2>5, <2>6, <2>7, <2>8 DEF ToPutBack
<1>16. Closing(p, 1)'
  BY <1>12, <1>13, <1>14, <1>15 DEF Closing
<1>. QED
  BY <1>11, <1>16

-----------------------------------------------------------------------------
(* The inductive invariant.                                                *)

LEMMA InitWInv ==
  ASSUME ConstantsAssumption, Init
  PROVE  WInv
<1>. DEFINE all == Creatures \cup Instants
<1>1. PICK order \in Bijection(1..Cardinality(all), all) :
        cards = [z \in Zones |-> IF z = <<0, "library">> THEN order ELSE <<>>]
  BY DEF Init
<1>2. IInv
  BY InitIInv
<1>3. /\ minus = {} /\ unearthed = {} /\ mourned = {}
      /\ eventsQueue = <<>> /\ calls = <<>> /\ stack = <<>>
      /\ placeOnTop = [p \in Players |-> <<>>] /\ needShuffle = {}
  BY DEF Init
<1>4. DOMAIN stack = {}
  BY <1>3
<1>5. Steady
  BY <1>2, <1>3, <1>4 DEF Steady, ItemsPoint, ItemsGo, SpellsDiffer
<1>6. /\ \A z \in Zones : z # <<0, "library">> => cards[z] = <<>>
      /\ \A z \in Zones : z = <<0, "library">> => cards[z] = order
  BY <1>1
<1>7. /\ Settled /\ (\A d : ~HasSpell(d)) /\ Mourned = {}
  BY <1>3, <1>4 DEF Settled, HasSpell, Mourned
<1>8. Kept
  <2>1. \A p \in Players : <<p, "temp">> \in Zones /\ <<p, "temp">> # <<0, "library">>
    BY DEF Zones, Kinds
  <2>. QED
    BY <1>3, <1>6, <2>1 DEF Kept
<1>9. ToSet(<<>>) = {}
  BY DEF ToSet
<1>10. ASSUME NEW d \in Cards PROVE Fits(d)
  <2>1. \A z : At(d, z) => z = <<0, "library">>
    BY <1>6, <1>9 DEF At
  <2>2. SpellFits(d)
    <3>1. ~In(d, "stack")
      BY <2>1 DEF In
    <3>. QED
      BY <1>7, <3>1 DEF SpellFits
  <2>3. MournedFits(d)
    BY <1>7 DEF MournedFits
  <2>4. TokenFits(d)
    <3>1. SUFFICES ASSUME d \in Tokens, NEW z \in Zones, At(d, z) PROVE FALSE
      BY DEF TokenFits
    <3>2. d \in ToSet(order)
      BY <1>6, <2>1, <3>1 DEF At
    <3>3. order \in [1..Cardinality(all) -> all]
      BY <1>1 DEF Bijection, Injection
    <3>4. d \in all
      BY <3>2, <3>3 DEF ToSet
    <3>. QED
      BY <3>1, <3>4 DEF ConstantsAssumption, all
  <2>. QED
    BY <2>2, <2>3, <2>4 DEF Fits
<1>11. Idle
  BY <1>7, <1>8, <1>10 DEF Idle
<1>. QED
  BY <1>5, <1>11 DEF WInv, Settling

\* What has yet to be done for a card is never to clear what is set aside.
LEMMA NothingToClear ==
  ASSUME Doing("clear"), NEW c
  PROVE  ~Calm(c) /\ ~Placing(c) /\ ~Entering(c) /\ ~Entered(c)
<1>1. calls # <<>> /\ Head(calls).do = "clear"
  BY DEF Doing
<1>2. ~Calm(c)
  <2>1. Left(calls) = calls /\ What(calls) = "clear"
    BY <1>1 DEF Left, What, Void
  <2>. QED
    BY <1>1, <2>1 DEF Calm, OneLast
<1>. QED
  BY <1>1, <1>2 DEF Placing, Entering, Entered, IsPut

\* A step of what goes on by itself, for the card that is on its way.
LEMMA CardSettles ==
  ASSUME ConstantsAssumption, Steady, Settle, NEW c \in Cards, Others(c),
         Calm(c) \/ Placing(c) \/ Entering(c) \/ Entered(c)
  PROVE  /\ Steady' /\ Others(c)'
         /\ Calm(c)' \/ Placing(c)' \/ Entering(c)' \/ Entered(c)'
<1>1. CASE Calm(c)
  <2>1. ~Clear
    BY <1>1, NothingToClear DEF Clear
  <2>2. CASE Deliver
    BY <1>1, <2>2, CalmDeliver
  <2>3. CASE Move
    BY <1>1, <2>3, CalmMove
  <2>4. CASE AddCounter
    BY <1>1, <2>4, CalmAddCounter
  <2>5. CASE Transform
    BY <1>1, <2>5, CalmTransform
  <2>6. CASE Return
    BY <1>1, <2>6, CalmReturn
  <2>7. CASE AddSpell
    BY <1>1, <2>7, CalmAddSpell
  <2>. QED
    BY <2>1, <2>2, <2>3, <2>4, <2>5, <2>6, <2>7 DEF Settle
<1>2. CASE Placing(c) \/ Entering(c) \/ Entered(c)
  <2>1. eventsQueue = <<>> /\ calls # <<>> /\ Head(calls).do = "put"
    BY <1>2 DEF Placing, Entering, Entered, IsPut
  <2>2. Move
    BY <2>1 DEF Settle, Deliver, AddCounter, Transform, Return, Clear, AddSpell, Doing
  <2>. QED
    BY <1>2, <2>2, MovePlacing, MoveEntering, MoveEntered
<1>. QED
  BY <1>1, <1>2

\* A step of what goes on by itself, when a library is closed.
LEMMA LibrarySettles ==
  ASSUME ConstantsAssumption, Steady, Settle, NEW p \in Players, NEW k, Closing(p, k)
  PROVE  Steady' /\ Settling'
<1>1. PICK n \in Nat : n = Len(placeOnTop[p])
  BY LenProperties DEF Steady, IInv
<1>2. /\ k \in 1..(n + 1) /\ calls # <<>>
      /\ Head(calls).do \in {"clear", "put"}
  <2>1. ToPutBack(p, k) /\ IInv
    BY DEF Closing, Steady
  <2>2. /\ k \in 1..(n + 1) /\ calls # <<>>
        /\ k = n + 1 => Head(calls).do = "clear"
        /\ k # n + 1 => IsPut(Head(calls), placeOnTop[p][k], <<p, "temp">>, <<p, "library">>, <<p, "library">>)
    BY <1>1, <2>1, FirstToPutBack
  <2>. QED
    BY <2>2 DEF IsPut
<1>3. Deliver \/ Move \/ Clear
  BY <1>2 DEF Settle, AddCounter, Transform, Return, AddSpell, Doing
<1>4. CASE Deliver
  <2>1. Steady' /\ Closing(p, k)'
    BY <1>4, ClosingDeliver
  <2>2. k \in 1..(Len(placeOnTop'[p]) + 1)
    BY <1>1, <1>2, <1>4 DEF Deliver
  <2>. QED
    BY <2>1, <2>2 DEF Settling
<1>5. CASE Move
  BY <1>5, ClosingMove DEF Settling
<1>6. CASE Clear
  BY <1>6, ClosingClear DEF Settling
<1>. QED
  BY <1>3, <1>4, <1>5, <1>6

LEMMA SettleWInv ==
  ASSUME ConstantsAssumption, WInv, Settle
  PROVE  WInv'
<1>1. Steady /\ Settling
  BY DEF WInv
<1>2. ~Idle
  BY DEF Idle, Settled, Settle, Deliver, Move, AddCounter, Transform, Return, Clear, AddSpell, Doing
<1>3. ASSUME NEW c \in Cards, Others(c), Calm(c) \/ Placing(c) \/ Entering(c) \/ Entered(c)
      PROVE  WInv'
  <2>1. /\ Steady' /\ Others(c)'
        /\ Calm(c)' \/ Placing(c)' \/ Entering(c)' \/ Entered(c)'
    BY <1>1, <1>3, CardSettles
  <2>. QED
    BY <2>1 DEF WInv, Settling
<1>4. ASSUME NEW p \in Players, NEW k, Closing(p, k)
      PROVE  WInv'
  BY <1>1, <1>4, LibrarySettles DEF WInv
<1>. QED
  BY <1>1, <1>2, <1>3, <1>4 DEF Settling

\* What the game begins when nothing is under way.
LEMMA BeginsWInv ==
  ASSUME ConstantsAssumption, WInv, Settled, Next
  PROVE  WInv'
<1>1. Steady /\ Idle
  BY SettledIsIdle DEF WInv, Steady
<1>2. ~Settle
  BY DEF Settled, Settle, Deliver, Move, AddCounter, Transform, Return, Clear, AddSpell, Doing
<1>3. CASE \E p \in Players, kind \in {"hand", "graveyard"} : Take(p, kind)
  BY <1>1, <1>3, TakeBegins DEF WInv, Settling
<1>4. CASE \E c \in Creatures \cup Instants : Cast(c)
  <2>1. Creatures \cup Instants \subseteq Cards
    BY DEF Cards
  <2>. QED
    BY <1>1, <1>4, <2>1, CastBegins DEF WInv, Settling
<1>5. CASE \E c \in Cards, effect \in Effects : Target(c, effect)
  BY <1>1, <1>5, TargetIsIdle DEF WInv, Settling
<1>6. CASE Resolve
  BY <1>1, <1>6, ResolveBegins DEF WInv, Settling
<1>7. CASE \E i \in DOMAIN stack : Fizzle(i)
  BY <1>1, <1>7, FizzleBegins DEF WInv, Settling
<1>8. CASE \E c \in Cards : Bury(c)
  BY <1>1, <1>8, BuryBegins DEF WInv, Settling
<1>9. CASE \E c \in Cards, p \in Players : ChangeController(c, p)
  BY <1>1, <1>9, ChangeControllerBegins DEF WInv, Settling
<1>10. CASE \E t \in Tokens : Create(t)
  <2>1. Tokens \subseteq Cards
    BY DEF Cards
  <2>. QED
    BY <1>1, <1>10, <2>1, CreateBegins DEF WInv, Settling
<1>11. CASE \E p \in Players : CloseLibrary(p)
  <2>1. PICK p \in Players : CloseLibrary(p)
    BY <1>11
  <2>2. Steady' /\ Closing(p, 1)'
    BY <1>1, <2>1, CloseLibraryBegins
  <2>3. 1 \in 1..(Len(placeOnTop'[p]) + 1)
    <3>1. PICK n \in Nat : n = Len(placeOnTop'[p])
      BY <2>2, LenProperties DEF Steady, IInv
    <3>. QED
      BY <3>1
  <2>. QED
    BY <2>2, <2>3 DEF WInv, Settling
<1>. QED
  BY <1>2, <1>3, <1>4, <1>5, <1>6, <1>7, <1>8, <1>9, <1>10, <1>11 DEF Next

LEMMA StutterWInv ==
  ASSUME ConstantsAssumption, WInv, UNCHANGED vars
  PROVE  WInv'
<1>1. /\ cards' = cards /\ minus' = minus /\ unearthed' = unearthed /\ eventsQueue' = eventsQueue
      /\ calls' = calls /\ stack' = stack /\ placeOnTop' = placeOnTop /\ needShuffle' = needShuffle
      /\ mourned' = mourned
  BY DEF vars
<1>2. IInv'
  BY NextIInv DEF WInv, Steady
<1>3. Steady'
  <2>1. minus' \subseteq Cards /\ unearthed' \subseteq Cards /\ needShuffle' \subseteq Players
    BY <1>1 DEF WInv, Steady
  <2>. QED
    BY <1>1, <1>2, <2>1, NothingMovesSteady DEF WInv
<1>4. (\A c : Others(c)' <=> Others(c)) /\ (\A c : Fits(c)' <=> Fits(c)) /\ (\A c, z : At(c, z)' <=> At(c, z))
  <2>1. \A c : Fits(c)' <=> Fits(c)
    BY <1>1, NothingMoves
  <2>2. \A c, z : At(c, z)' <=> At(c, z)
    BY <1>1, NothingMoves
  <2>. QED
    BY <2>1, <2>2 DEF Others
<1>5. Settling'
  <2>1. Idle => Idle'
    BY <1>1, <1>4 DEF Idle, Settled, Kept
  <2>2. ASSUME NEW c PROVE Calm(c) => Calm(c)'
    <3>1. Told(c) => Told(c)'
      BY <1>1, <1>4 DEF Told
    <3>2. /\ \A kind : In(c, kind)' <=> In(c, kind)
          /\ HasSpell(c)' <=> HasSpell(c)
          /\ TokenFits(c)' <=> TokenFits(c)
      BY <1>1, NothingMoves
    <3>3. Left(calls)' = Left(calls) /\ What(calls)' = What(calls) /\ What(Left(calls))' = What(Left(calls))
          /\ Mourned' = Mourned /\ Void(calls)' = Void(calls) /\ (Kept => Kept')
          /\ (OneLast(Left(calls), c) => OneLast(Left(calls), c)')
      BY <1>1 DEF Mourned, Kept
    <3>. QED
      BY <1>1, <1>4, <3>1, <3>2, <3>3 DEF Calm
  <2>3. ASSUME NEW c PROVE Placing(c) => Placing(c)'
    BY <1>1 DEF Placing, At, Kept, HasSpell, Mourned
  <2>4. ASSUME NEW c PROVE Entering(c) => Entering(c)'
    BY <1>1 DEF Entering, At, Kept, HasSpell, Mourned
  <2>5. ASSUME NEW c PROVE Entered(c) => Entered(c)'
    BY <1>1 DEF Entered, HasSpell, Mourned
  <2>6. ASSUME NEW p, NEW k PROVE Closing(p, k) => Closing(p, k)'
    <3>1. ToldBack(p) => ToldBack(p)'
      BY <1>1, <1>4 DEF ToldBack
    <3>2. ToPutBack(p, k) => ToPutBack(p, k)'
      BY <1>1 DEF ToPutBack
    <3>3. PutBack(p, k) => PutBack(p, k)'
      BY <1>1 DEF PutBack
    <3>. QED
      BY <1>4, <3>1, <3>2, <3>3 DEF Closing
  <2>. QED
    BY <1>1, <1>4, <2>1, <2>2, <2>3, <2>4, <2>5, <2>6 DEF Settling, WInv
<1>. QED
  BY <1>3, <1>5 DEF WInv

LEMMA NextWInv ==
  ASSUME ConstantsAssumption, WInv, [Next]_vars
  PROVE  WInv'
<1>1. CASE Settle
  BY <1>1, SettleWInv
<1>2. CASE Next /\ ~Settle
  <2>1. Settled
    BY <1>2 DEF Next, Take, Cast, Target, Resolve, Fizzle, Bury, ChangeController, Create, CloseLibrary
  <2>. QED
    BY <1>2, <2>1, BeginsWInv
<1>3. CASE UNCHANGED vars
  BY <1>3, StutterWInv
<1>. QED
  BY <1>1, <1>2, <1>3

-----------------------------------------------------------------------------
(* What it says.                                                           *)

LEMMA ReverseIs ==
  ASSUME NEW S, NEW s \in Seq(S), NEW n \in Nat, n = Len(s)
  PROVE  /\ Reverse(s) \in Seq(S) /\ Len(Reverse(s)) = n
         /\ \A i \in 1..n : Reverse(s)[i] = s[(n - i) + 1]
<1>1. s \in [1..n -> S]
  BY LenProperties
<1>2. PICK r : r = Reverse(s)
  OBVIOUS
<1>3. r = [i \in 1..n |-> s[(n - i) + 1]]
  BY <1>2 DEF Reverse
<1>4. \A i \in 1..n : (n - i) + 1 \in 1..n
  OBVIOUS
<1>5. r \in [1..n -> S]
  BY <1>1, <1>3, <1>4
<1>6. r \in Seq(S) /\ Len(r) = n
  BY <1>5, SeqDef, LenProperties
<1>. QED
  BY <1>2, <1>3, <1>6

LEMMA SuffixOf ==
  ASSUME NEW S, NEW f \in Seq(S), NEW s \in Seq(S), NEW t, t = f \o s
  PROVE  IsSuffix(s, t)
<1>1. PICK a \in Nat, n \in Nat, m \in Nat : a = Len(f) /\ n = Len(s) /\ m = a + n
  BY LenProperties
<1>2. /\ t \in Seq(S) /\ Len(t) = m
      /\ \A j \in 1..m : t[j] = IF j <= a THEN f[j] ELSE s[j - a]
  <2>1. /\ f \o s \in Seq(S) /\ Len(f \o s) = Len(f) + Len(s)
        /\ \A j \in 1..Len(f) + Len(s) : (f \o s)[j] = IF j <= Len(f) THEN f[j] ELSE s[j - Len(f)]
    BY ConcatTyped
  <2>. QED
    BY <1>1, <2>1
<1>3. PICK x, y : x = Reverse(s) /\ y = Reverse(t)
  OBVIOUS
<1>4. x \in Seq(S) /\ Len(x) = n /\ \A i \in 1..n : x[i] = s[(n - i) + 1]
  BY <1>1, <1>3, ReverseIs
<1>5. y \in Seq(S) /\ Len(y) = m /\ \A i \in 1..m : y[i] = t[(m - i) + 1]
  BY <1>2, <1>3, ReverseIs
<1>6. ASSUME NEW i \in 1..n PROVE x[i] = y[i]
  <2>1. i \in 1..m /\ (m - i) + 1 \in 1..m /\ ~((m - i) + 1 <= a) /\ ((m - i) + 1) - a = (n - i) + 1
    BY <1>1
  <2>2. y[i] = t[(m - i) + 1]
    BY <1>5, <2>1
  <2>3. t[(m - i) + 1] = s[((m - i) + 1) - a]
    BY <1>2, <2>1
  <2>. QED
    BY <1>4, <2>1, <2>2, <2>3
<1>7. /\ SubSeq(x, 1, n) \in Seq(S) /\ Len(SubSeq(x, 1, n)) = n
      /\ \A i \in 1..n : SubSeq(x, 1, n)[i] = x[1 + i - 1]
  BY <1>4, SubSeqTyped
<1>8. /\ SubSeq(y, 1, n) \in Seq(S) /\ Len(SubSeq(y, 1, n)) = n
      /\ \A i \in 1..n : SubSeq(y, 1, n)[i] = y[1 + i - 1]
  <2>1. n <= Len(y)
    BY <1>1, <1>5
  <2>. QED
    BY <1>5, <2>1, SubSeqTyped
<1>9. \A i \in 1..n : SubSeq(x, 1, n)[i] = SubSeq(y, 1, n)[i]
  <2>1. \A i \in 1..n : 1 + i - 1 = i
    OBVIOUS
  <2>. QED
    BY <1>6, <1>7, <1>8, <2>1
<1>10. SubSeq(x, 1, n) = SubSeq(y, 1, n)
  BY <1>7, <1>8, <1>9, SeqEqual
<1>11. IsPrefix(x, y)
  BY <1>1, <1>4, <1>5, <1>10 DEF IsPrefix
<1>. QED
  BY <1>3, <1>11 DEF IsSuffix

LEMMA WInvTellsTheWay ==
  ASSUME WInv
  PROVE  EventsTellTheWay
<1>1. ASSUME NEW i \in DOMAIN eventsQueue
      PROVE  /\ i = 1
             /\ At(eventsQueue[i].card, eventsQueue[i].to)
             /\ "temp" \notin {eventsQueue[i].from[2], eventsQueue[i].to[2]}
  <2>1. eventsQueue # <<>>
    BY <1>1
  <2>2. CASE Idle
    BY <2>1, <2>2 DEF Idle, Settled
  <2>3. ASSUME NEW c, Calm(c) \/ Placing(c) \/ Entering(c) \/ Entered(c)
        PROVE  Told(c)
    BY <2>1, <2>3 DEF Calm, Placing, Entering, Entered
  <2>4. ASSUME NEW p \in Players, NEW k, Closing(p, k)
        PROVE  ToldBack(p)
    BY <2>4 DEF Closing
  <2>5. ASSUME NEW c, Told(c)
        PROVE  /\ i = 1 /\ At(eventsQueue[i].card, eventsQueue[i].to)
               /\ "temp" \notin {eventsQueue[i].from[2], eventsQueue[i].to[2]}
    BY <1>1, <2>5 DEF Told
  <2>6. ASSUME NEW p \in Players, ToldBack(p)
        PROVE  /\ i = 1 /\ At(eventsQueue[i].card, eventsQueue[i].to)
               /\ "temp" \notin {eventsQueue[i].from[2], eventsQueue[i].to[2]}
    <3>1. PICK lib : lib = <<p, "library">>
      OBVIOUS
    <3>2. lib[2] # "temp"
      BY <3>1
    <3>3. /\ i = 1 /\ At(eventsQueue[i].card, lib)
          /\ eventsQueue[i].from = lib /\ eventsQueue[i].to = lib
      BY <1>1, <2>6, <3>1 DEF ToldBack
    <3>. QED
      BY <3>2, <3>3
  <2>. QED
    BY <2>2, <2>3, <2>4, <2>5, <2>6 DEF WInv, Settling
<1>2. ASSUME NEW i \in DOMAIN eventsQueue
      PROVE  currentZone(eventsQueue[i].card) = eventsQueue[i].to
  BY <1>1, OnePlace DEF WInv, Steady
<1>3. ASSUME NEW i \in DOMAIN eventsQueue
      PROVE  {j \in DOMAIN eventsQueue : j > i /\ eventsQueue[j].card = eventsQueue[i].card} = {}
  <2>1. \A j \in DOMAIN eventsQueue : j = 1 /\ i = 1
    BY <1>1
  <2>. QED
    BY <2>1
<1>. QED
  BY <1>1, <1>2, <1>3 DEF EventsTellTheWay

LEMMA SettledKeeps ==
  ASSUME WInv, Settled
  PROVE  NothingStaysInTemp /\ TokensCease
<1>1. Idle /\ IInv
  BY SettledIsIdle DEF WInv, Steady
<1>2. NothingStaysInTemp
  BY <1>1 DEF Idle, Kept, NothingStaysInTemp
<1>3. ASSUME NEW t \in Tokens PROVE currentZone(t)[2] \in {"battlefield", "garbage", "none"}
  <2>1. PICK z : z = currentZone(t)
    OBVIOUS
  <2>2. CASE z = Nowhere
    BY <2>1, <2>2
  <2>3. CASE z # Nowhere
    <3>1. At(t, z) /\ z \in Zones /\ t \in Cards
      BY <1>1, <2>1, <2>3, SomePlace DEF At, Cards
    <3>2. TokenFits(t)
      BY <1>1, <3>1 DEF Idle, Fits
    <3>3. z[2] \in {"battlefield", "garbage"}
      BY <3>1, <3>2 DEF TokenFits
    <3>. QED
      BY <2>1, <3>3
  <2>. QED
    BY <2>2, <2>3
<1>4. TokensCease
  BY <1>3 DEF TokensCease
<1>. QED
  BY <1>2, <1>4

LEMMA SettledKeepsSpells ==
  ASSUME WInv, Settled, SpellsLeftAlone
  PROVE  UnearthedIsExiled /\ SpellsHaveTheirCards
<1>1. Idle /\ IInv /\ mourned \subseteq Cards
  BY SettledIsIdle DEF WInv, Steady
<1>2. ASSUME NEW c \in mourned \ (Persisting \cup Tokens) PROVE currentZone(c)[2] = "exile"
  <2>1. MournedFits(c) /\ c \in Mourned
    BY <1>1, <1>2 DEF Idle, Fits, Mourned
  <2>2. PICK p \in Players : At(c, <<p, "exile">>)
    BY <2>1 DEF MournedFits, In
  <2>3. PICK z : z = <<p, "exile">>
    OBVIOUS
  <2>4. currentZone(c) = z /\ z[2] = "exile"
    BY <1>1, <2>2, <2>3, OnePlace
  <2>. QED
    BY <2>4
<1>3. ASSUME NEW c
      PROVE  (\E n \in DOMAIN stack : stack[n].what = "spell" /\ stack[n].card = c)
               <=> \E p \in Players : c \in ToSet(cards[<<p, "stack">>])
  <2>1. \A p \in Players : <<p, "stack">> \in Zones
    BY DEF Zones, Kinds
  <2>2. In(c, "stack") <=> \E p \in Players : c \in ToSet(cards[<<p, "stack">>])
    BY <2>1 DEF In, At
  <2>3. HasSpell(c) => c \in Cards
    <3>1. SUFFICES ASSUME NEW n \in DOMAIN stack, stack[n].card = c PROVE c \in Cards
      BY DEF HasSpell
    <3>2. stack[n] \in Item
      BY <1>1, ElementOfSeq, LenProperties DEF IInv
    <3>. QED
      BY <3>1, <3>2 DEF Item
  <2>4. In(c, "stack") => c \in Cards
    <3>1. SUFFICES ASSUME NEW p \in Players, c \in ToSet(cards[<<p, "stack">>]) PROVE c \in Cards
      BY <2>2
    <3>2. PICK s \in Seq(Cards) : s = cards[<<p, "stack">>]
      BY <1>1, <2>1 DEF IInv, Apart
    <3>. QED
      BY <3>1, <3>2, ElementOfSeq, LenProperties DEF ToSet
  <2>5. c \in Cards => (In(c, "stack") <=> HasSpell(c))
    BY <1>1 DEF Idle, Fits, SpellFits
  <2>. QED
    BY <2>2, <2>3, <2>4, <2>5 DEF HasSpell
<1>4. {stack[i].card : i \in {n \in DOMAIN stack : stack[n].what = "spell"}} =
        UNION {ToSet(cards[<<p, "stack">>]) : p \in Players}
  BY <1>3
<1>. QED
  BY <1>2, <1>4 DEF UnearthedIsExiled, SpellsHaveTheirCards

LEMMA WInvTypeOK ==
  ASSUME WInv
  PROVE  TypeOK
<1>1. IInv /\ Steady
  BY DEF WInv, Steady
<1>2. cards \in [Zones -> Seq(Cards)] /\ placeOnTop \in [Players -> Seq(Cards)]
  BY <1>1 DEF IInv, Apart
<1>3. eventsQueue \in Seq([card : Cards, live : BOOLEAN, from : Zones \cup {Nowhere}, to : Zones,
                           persists : BOOLEAN, unearthed : BOOLEAN])
  BY <1>1 DEF IInv, Event, Places
<1>4. ASSUME NEW i \in DOMAIN eventsQueue, eventsQueue[i].from = Nowhere
      PROVE  eventsQueue[i].card \in Tokens
  <2>1. eventsQueue # <<>>
    BY <1>4
  <2>2. ~Idle
    BY <2>1 DEF Idle, Settled
  <2>3. ASSUME NEW c, Calm(c) \/ Placing(c) \/ Entering(c) \/ Entered(c)
        PROVE  eventsQueue[i].card \in Tokens
    <3>1. Told(c)
      BY <2>1, <2>3 DEF Calm, Placing, Entering, Entered
    <3>. QED
      BY <1>4, <3>1 DEF Told
  <2>4. ASSUME NEW p \in Players, NEW k, Closing(p, k)
        PROVE  FALSE
    <3>1. eventsQueue[i].from = <<p, "library">>
      BY <2>4 DEF Closing, ToldBack
    <3>. QED
      BY <1>4, <3>1
  <2>. QED
    BY <2>2, <2>3, <2>4 DEF WInv, Settling
<1>5. ASSUME NEW i \in DOMAIN calls
      PROVE  calls[i].do \in {"put", "counter", "transform", "return", "clear", "spell"}
  <2>1. calls[i] \in Call
    BY <1>1, ElementOfSeq, LenProperties DEF IInv
  <2>. QED
    BY <2>1 DEF Call, PutCall, CardCall, ClearCall
<1>6. ASSUME NEW i \in DOMAIN stack
      PROVE  stack[i].what \in {"spell", "move", "unearth", "blink"} /\ stack[i].card \in Cards
  <2>1. stack[i] \in Item
    BY <1>1, ElementOfSeq, LenProperties DEF IInv
  <2>. QED
    BY <2>1 DEF Item
<1>7. minus \subseteq Cards /\ unearthed \subseteq Cards /\ mourned \subseteq Cards /\ needShuffle \subseteq Players
  BY <1>1 DEF Steady
<1>. QED
  BY <1>2, <1>3, <1>4, <1>5, <1>6, <1>7 DEF TypeOK

\* What is set aside is done with only when it is on top of the library.
LEMMA NextPlacesOnTop ==
  ASSUME ConstantsAssumption, WInv, [Next]_vars, NEW p \in Players,
         placeOnTop[p] # <<>>, placeOnTop'[p] = <<>>
  PROVE  IsSuffix(placeOnTop[p], cards'[<<p, "library">>])
<1>1. IInv /\ Steady /\ Settling /\ placeOnTop \in [Players -> Seq(Cards)]
  BY DEF WInv, Steady, IInv
<1>2. placeOnTop' # placeOnTop
  OBVIOUS
<1>3. ~Move
  <2>1. SUFFICES ASSUME Move PROVE FALSE
    OBVIOUS
  <2>2. PICK m : m = Head(calls) /\ putInZone(m.card, m.from, m.before, m.to)
    BY <2>1 DEF Move
  <2>3. m \in PutCall
    <3>1. m \in Call /\ m.do = "put"
      BY <1>1, <2>1, <2>2, FirstCall DEF Move, Doing
    <3>. QED
      BY <3>1 DEF Call, CardCall, ClearCall
  <2>4. m.card \in Cards
    BY <2>3 DEF PutCall
  <2>5. PICK q, c : q = m.from[1] /\ c = m.card
    OBVIOUS
  <2>6. placeOnTop' = [placeOnTop EXCEPT ![q] = Append(@, c)]
    BY <1>2, <2>2, <2>5 DEF putInZone
  <2>7. q = p
    BY <1>1, <2>6
  <2>8. placeOnTop'[p] = Append(placeOnTop[p], c)
    BY <1>1, <2>6, <2>7
  <2>9. PICK s \in Seq(Cards) : s = placeOnTop[p]
    BY <1>1
  <2>10. Append(s, c) # <<>>
    BY <2>4, <2>5, AppendProperties
  <2>. QED
    BY <2>8, <2>9, <2>10
<1>4. Clear
  <2>1. Settle => Clear
    BY <1>2, <1>3 DEF Settle, Deliver, AddCounter, Transform, Return, AddSpell
  <2>2. Next => Settle
    BY <1>2 DEF Next, Take, Begin, Cast, Target, Resolve, Fizzle, Bury, ChangeController, Create,
                CloseLibrary
  <2>. QED
    BY <1>2, <2>1, <2>2 DEF vars
<1>5. \E q \in Players : \E k : Closing(q, k)
  <2>1. ~Idle
    BY <1>4 DEF Idle, Settled, Clear, Doing
  <2>2. \A c : ~(Calm(c) \/ Placing(c) \/ Entering(c) \/ Entered(c))
    BY <1>4, NothingToClear DEF Clear
  <2>. QED
    BY <1>1, <2>1, <2>2 DEF Settling
<1>6. PICK q \in Players : \E k : Closing(q, k)
  BY <1>5
<1>7. /\ placeOnTop' = [placeOnTop EXCEPT ![q] = <<>>]
      /\ \E front \in Seq(Cards) : cards'[<<q, "library">>] = front \o placeOnTop[q]
  BY <1>1, <1>4, <1>6, ClosingClear
<1>8. q = p
  BY <1>1, <1>7
<1>9. PICK s, t : s = placeOnTop[p] /\ t = cards'[<<p, "library">>]
  OBVIOUS
<1>10. PICK front \in Seq(Cards) : cards'[<<q, "library">>] = front \o placeOnTop[q]
  BY <1>7
<1>11. t = front \o s
  BY <1>8, <1>9, <1>10, Zenon
<1>12. s \in Seq(Cards)
  BY <1>1, <1>9
<1>13. IsSuffix(s, t)
  BY <1>11, <1>12, SuffixOf
<1>. QED
  BY <1>9, <1>13

-----------------------------------------------------------------------------

\* Whatever the cards, the effects and the length of the stack: the events that
\* wait in GameObserver::eventsQueue tell the way of their cards, to the zone
\* they are in, and of "temp" they do not tell.
THEOREM TheWayIsTold == Spec => []EventsTellTheWay
<1>1. Init => WInv
  BY InitWInv, ConstantsAssumption
<1>2. WInv /\ [Next]_vars => WInv'
  BY NextWInv, ConstantsAssumption
<1>3. WInv => EventsTellTheWay
  BY WInvTellsTheWay
<1>. QED
  BY <1>1, <1>2, <1>3, PTL DEF Spec

\* What the zones, the queue and the stack hold is what the code puts there:
\* only a token comes from nowhere.
THEOREM ZonesTypeCorrect == Spec => []TypeOK
<1>1. Init => WInv
  BY InitWInv, ConstantsAssumption
<1>2. WInv /\ [Next]_vars => WInv'
  BY NextWInv, ConstantsAssumption
<1>3. WInv => TypeOK
  BY WInvTypeOK
<1>. QED
  BY <1>1, <1>2, <1>3, PTL DEF Spec

\* Between effects, "temp" holds what is set aside for the top of the library,
\* in order, and tokens are in play or done with, whatever an effect did to
\* them - with no assumption on the effects but what their text can name.
THEOREM NothingIsLeftOver == Spec => [](NothingStaysInTemp /\ TokensCease)
<1>1. Init => WInv
  BY InitWInv, ConstantsAssumption
<1>2. WInv /\ [Next]_vars => WInv'
  BY NextWInv, ConstantsAssumption
<1>3. WInv => NothingStaysInTemp /\ TokensCease
  BY SettledKeeps DEF NothingStaysInTemp, TokensCease
<1>. QED
  BY <1>1, <1>2, <1>3, PTL DEF Spec

\* If no ability takes a card out of the zone "stack" or puts it there: what
\* TokensCleanup and MTGUnearthRule take out of the game no other effect brings
\* back.  (MTGUnearthRule has no answer for a card that leaves play for "stack".)
THEOREM GoneIsGone == SpellsLeftAlone => (Spec => []GoneForGood)
<1>. SUFFICES ASSUME SpellsLeftAlone PROVE Spec => []GoneForGood
  OBVIOUS
<1>1. Init => WInv
  BY InitWInv, ConstantsAssumption
<1>2. WInv /\ [Next]_vars => WInv'
  BY NextWInv, ConstantsAssumption
<1>3. WInv => GoneForGood
  BY SettledKeeps, SettledKeepsSpells DEF GoneForGood, TokensCease, UnearthedIsExiled
<1>. QED
  BY <1>1, <1>2, <1>3, PTL DEF Spec

\* If no ability takes a card out of the zone "stack" or puts it there: what
\* is in between - "temp", the zone "stack" - holds between effects what is
\* under way, and no more: every spell of the ActionStack has its card.
THEOREM WhatIsUnderWayIsKept == SpellsLeftAlone => (Spec => []InBetweenIsKept)
<1>. SUFFICES ASSUME SpellsLeftAlone PROVE Spec => []InBetweenIsKept
  OBVIOUS
<1>1. Init => WInv
  BY InitWInv, ConstantsAssumption
<1>2. WInv /\ [Next]_vars => WInv'
  BY NextWInv, ConstantsAssumption
<1>3. WInv => InBetweenIsKept
  BY WInvTypeOK, SettledKeeps, SettledKeepsSpells
     DEF InBetweenIsKept, NothingStaysInTemp, SpellsHaveTheirCards
<1>. QED
  BY <1>1, <1>2, <1>3, PTL DEF Spec

\* Every way a library is closed (shuffleLibrary): the cards that were set
\* aside for its top are on top of it when MTGLibrary forgets them.
THEOREM SetAsideIsOnTop == Spec => PlacedOnTop
<1>. DEFINE Placed == \A p \in Players :
       (placeOnTop[p] # <<>> /\ placeOnTop'[p] = <<>>) => IsSuffix(placeOnTop[p], cards'[<<p, "library">>])
<1>1. Init => WInv
  BY InitWInv, ConstantsAssumption
<1>2. WInv /\ [Next]_vars => WInv'
  BY NextWInv, ConstantsAssumption
<1>3. WInv /\ [Next]_vars => [Placed]_vars
  BY NextPlacesOnTop, ConstantsAssumption
<1>. QED
  BY <1>1, <1>2, <1>3, PTL DEF Spec, PlacedOnTop

===============================================================================
