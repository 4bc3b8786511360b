----------------------------- MODULE Conditions -----------------------------
(***************************************************************************)
(* What a level asks of the finished clock (server/src/levels): the        *)
(* conditions of a level, the permanent rules every level is loaded with   *)
(* (loadLevels.ts) and their evaluation at the reveal                      *)
(* (conditionEngine.ts).                                                   *)
(*                                                                         *)
(* A deal is a sequence of cards [value, color]; a card is its index in    *)
(* it, dealt in slices of HandSize to the seats in order.  A placement is  *)
(* a function from the placed cards to segments, a play the sequence of    *)
(* all cards in the order they were played (playOrder).  A condition is a  *)
(* record with the fields it has in the code.                              *)
(***************************************************************************)
EXTENDS Integers, Sequences, FiniteSets, FiniteSetsExt

CONSTANTS
  LastSegment,  \* 5: the clock has six segments
  NSeats,       \* occupied seats
  HandSize,     \* dealRules[NSeats].handSize
  MaxValue,     \* 12: values are 1 .. MaxValue in two colours
  CenterCap     \* 24, unless level.centerCap is "inf"

ASSUME SizesAssumption ==
  /\ {LastSegment, CenterCap} \subseteq Nat
  /\ {NSeats, HandSize, MaxValue} \subseteq Nat \ {0}

Segments == 0..LastSegment
Seats == 0..(NSeats - 1)
Cards == 1..(NSeats * HandSize)
Colors == {"white", "black"}
Owner(c) == (c - 1) \div HandSize

\* The shuffles that can be dealt: no card of the pack comes twice.
Deals ==
  {d \in [Cards -> [value : 1..MaxValue, color : Colors]] :
     \A c1, c2 \in Cards : d[c1] = d[c2] => c1 = c2}

Total(deal, S) == MapThenSumSet(LAMBDA c : deal[c].value, S)
OfColor(deal, S, color) == {c \in S : deal[c].color = color}
Values(deal, S) == {deal[c].value : c \in S}

On(placement, s) == {c \in DOMAIN placement : placement[c] = s}
SumAt(deal, placement, s) == Total(deal, On(placement, s))

\* A placement with the cards of another added.
Joined(placement, rest) ==
  [c \in DOMAIN placement \cup DOMAIN rest |->
     IF c \in DOMAIN placement THEN placement[c] ELSE rest[c]]

Distance(x, y) == IF x < y THEN y - x ELSE x - y

\* The conditions a level can state.
Condition ==
  [type : {"all-nonempty"}]
  \cup [type : {"min-cards", "max-cards", "exact-cards"}, segment : Segments, count : Nat]
  \cup [type : {"sum-equals", "closest-to-value"}, segment : Segments, value : Nat]
  \cup [type : {"sum-range"}, segment : Segments, min : Nat, max : Nat]
  \cup [type : {"parity"}, segment : Segments, parity : {"odd", "even"}]
  \cup [type : {"non-decreasing", "non-increasing"}, segments : Seq(Segments)]
  \cup [type : {"adjacent-diff"}, a : Segments, b : Segments, maxDiff : Nat]
  \cup [type : {"segment-colors"}, segment : Segments, black : Nat, white : Nat]
  \cup [type : {"min-color-cards", "max-color-cards"},
        segment : Segments, color : Colors, count : Nat]
  \cup [type : {"forbidden-values"}, segment : Segments, values : SUBSET Nat]
  \cup [type : {"all-distinct", "has-duplicate-value"}, segment : Segments]
  \cup [type : {"max-sum-each"}, value : Nat]
  \cup [type : {"placement-order"}, order : Nat, segment : Segments]

FullNonDecreasing ==
  [type |-> "non-decreasing", segments |-> [i \in 1..(LastSegment + 1) |-> i - 1]]

\* A level of data.ts with the permanent rules of the game; "inf" as its
\* centerCap stands for segments without an upper limit.
Loaded(challenge) ==
  challenge.conditions \cup {FullNonDecreasing, [type |-> "all-nonempty"]}
    \cup IF challenge.centerCap = "inf" THEN {}
         ELSE {[type |-> "max-sum-each", value |-> CenterCap]}

\* Whether condition q, other than a playing order, holds of the placement.
CardsHold(q, deal, placement) ==
  LET At(s) == On(placement, s)
      Sum(s) == SumAt(deal, placement, s)
      here == At(q.segment)
  IN CASE q.type = "all-nonempty" -> \A s \in Segments : At(s) # {}
       [] q.type = "min-cards" -> Cardinality(here) >= q.count
       [] q.type = "max-cards" -> Cardinality(here) <= q.count
       [] q.type = "exact-cards" -> Cardinality(here) = q.count
       [] q.type = "sum-equals" -> Sum(q.segment) = q.value
       [] q.type = "sum-range" -> Sum(q.segment) \in q.min..q.max
       [] q.type = "parity" -> (Sum(q.segment) % 2 = 0) = (q.parity = "even")
       [] q.type = "closest-to-value" ->
            \A s \in Segments \ {q.segment} :
              Distance(Sum(s), q.value) > Distance(Sum(q.segment), q.value)
       [] q.type = "non-decreasing" ->
            \A i \in 1..(Len(q.segments) - 1) : Sum(q.segments[i]) <= Sum(q.segments[i + 1])
       [] q.type = "non-increasing" ->
            \A i \in 1..(Len(q.segments) - 1) : Sum(q.segments[i]) >= Sum(q.segments[i + 1])
       [] q.type = "adjacent-diff" -> Distance(Sum(q.a), Sum(q.b)) <= q.maxDiff
       [] q.type = "segment-colors" ->
            /\ Cardinality(OfColor(deal, here, "black")) = q.black
            /\ Cardinality(OfColor(deal, here, "white")) = q.white
       [] q.type = "min-color-cards" -> Cardinality(OfColor(deal, here, q.color)) >= q.count
       [] q.type = "max-color-cards" -> Cardinality(OfColor(deal, here, q.color)) <= q.count
       [] q.type = "forbidden-values" -> Values(deal, here) \cap q.values = {}
       [] q.type = "all-distinct" -> Cardinality(Values(deal, here)) = Cardinality(here)
       [] q.type = "has-duplicate-value" -> Cardinality(Values(deal, here)) < Cardinality(here)
       [] q.type = "max-sum-each" -> \A s \in Segments : Sum(s) <= q.value

\* evaluateOne: the card played as number q.order lies in q.segment.
Holds(q, deal, placement, play) ==
  IF q.type = "placement-order"
  THEN q.order \in DOMAIN play /\ placement[play[q.order]] = q.segment
  ELSE CardsHold(q, deal, placement)

\* evaluateConditions: the reveal is passed.
Passes(level, deal, placement, play) == \A q \in level : Holds(q, deal, placement, play)
=============================================================================
