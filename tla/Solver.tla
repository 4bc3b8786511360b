------------------------------- MODULE Solver -------------------------------
(***************************************************************************)
(* The solver with full information (server/src/game/solver.ts): whether a *)
(* deal can be won (canSolveDeal, asked before a hand is dealt) and        *)
(* whether a sampled deal can still be completed from the cards that lie   *)
(* already (canCompleteSampledDeal).  The two backtracking searches over   *)
(* single cards remember the whole state of a failed node, so they are     *)
(* written as the existence of a path that survives their pruning; the     *)
(* search over subsets remembers less, and is written out with its memory. *)
(***************************************************************************)
EXTENDS Conditions

\* The searches place high cards first; equal ones keep their order.
Before(deal, c, d) ==
  \/ deal[c].value > deal[d].value
  \/ deal[c].value = deal[d].value /\ c < d

\* violatesUpperBounds
Exceeded(q, deal, placement) ==
  LET here == On(placement, q.segment)
      Blacks == Cardinality(OfColor(deal, here, "black"))
      Whites == Cardinality(OfColor(deal, here, "white"))
  IN CASE q.type \in {"max-cards", "exact-cards"} -> Cardinality(here) > q.count
       [] q.type = "sum-equals" -> Total(deal, here) > q.value
       [] q.type = "sum-range" -> Total(deal, here) > q.max
       [] q.type = "segment-colors" -> Blacks > q.black \/ Whites > q.white
       [] q.type = "max-color-cards" -> Cardinality(OfColor(deal, here, q.color)) > q.count
       [] q.type = "forbidden-values" -> Values(deal, here) \cap q.values # {}
       [] q.type = "max-sum-each" -> \E s \in Segments : SumAt(deal, placement, s) > q.value
       [] OTHER -> FALSE

\* hasRequiredFutureCards, left being the cards still to be placed
Attainable(q, deal, placement, left) ==
  LET here == On(placement, q.segment)
      sum == Total(deal, here)
  IN CASE q.type = "all-nonempty" ->
            Cardinality({s \in Segments : On(placement, s) = {}}) <= Cardinality(left)
       [] q.type \in {"min-cards", "exact-cards"} ->
            Cardinality(here) + Cardinality(left) >= q.count
       [] q.type = "sum-equals" -> sum <= q.value /\ sum + Total(deal, left) >= q.value
       [] q.type = "sum-range" -> sum <= q.max /\ sum + Total(deal, left) >= q.min
       [] OTHER -> TRUE

Ordered(level) == {q \in level : q.type = "placement-order"}

\* Fault: whoever plays a required turn need not hold the card there.
OrderPossibleForAnyone(level, placement) ==
  \A q, r \in Ordered(level) : q.order = r.order => q.segment = r.segment

\* The turns required to go to segment s that are the seat's when first opens.
Due(level, first, seat, s) ==
  {o \in {q.order : q \in {r \in Ordered(level) : r.segment = s}} :
     (first + o - 1) % NSeats = seat}

\* canStillSatisfyPlacementOrder: some seat can open so that whoever plays a
\* required turn has enough cards in the segment required of it.
OrderPossible(level, placement) ==
  LET orders == Ordered(level)
  IN /\ \A q, r \in orders : q.order = r.order => q.segment = r.segment
     /\ \A q \in orders : q.order \in 1..Cardinality(Cards)
     /\ orders = {} \/ \E first \in Seats :
          \A seat \in Seats, s \in Segments :
            Cardinality({c \in On(placement, s) : Owner(c) = seat})
              >= Cardinality(Due(level, first, seat, s))

\* passesFinalConditions
Finished(level, deal, placement) ==
  /\ \A q \in level \ Ordered(level) : CardsHold(q, deal, placement)
  /\ OrderPossible(level, placement)

\* canCompleteSampledDeal, and with nothing fixed the search of canSolveDeal
CanComplete(level, deal, fixed) ==
  /\ \A q \in level : ~Exceeded(q, deal, fixed)
  /\ \E rest \in [Cards \ DOMAIN fixed -> Segments] :
       /\ \A c \in DOMAIN rest :
            LET left == {d \in DOMAIN rest : Before(deal, c, d)}
                placed == Joined(fixed, [d \in DOMAIN rest \ left |-> rest[d]])
            IN \A q \in level :
                 ~Exceeded(q, deal, placed) /\ Attainable(q, deal, placed, left)
       /\ Finished(level, deal, Joined(fixed, rest))

-----------------------------------------------------------------------------
(* The fast paths a loaded level can take *)

Permanent == {"all-nonempty", "max-sum-each"}

OnlyPermanentRules(level) ==
  /\ \A q \in level : q.type \in Permanent \/ q = FullNonDecreasing
  /\ FullNonDecreasing \in level
  /\ \E q \in level : q.type = "all-nonempty"

Cap(level) ==
  LET caps == {q.value : q \in {r \in level : r.type = "max-sum-each"}}
  IN IF caps = {} THEN Cardinality(Cards) * MaxValue ELSE CHOOSE cap \in caps : TRUE

\* trySolvePermanentGlobalRules: its memory keeps all its final test looks at.
GlobalRulesSolve(level, deal) ==
  /\ Cardinality(Cards) >= Cardinality(Segments)
  /\ \E placement \in [Cards -> Segments] :
       /\ \A s \in Segments : On(placement, s) # {}
       /\ \A s \in Segments : SumAt(deal, placement, s) <= Cap(level)
       /\ \A s \in Segments \ {0} :
            SumAt(deal, placement, s - 1) <= SumAt(deal, placement, s)

BySubsets(level) ==
  /\ \A q \in level : q.type = "non-decreasing" => q = FullNonDecreasing
  /\ \A q \in level : q.type # "non-increasing"
  /\ FullNonDecreasing \in level

\* A condition of segment s alone, tested before the search: validMasksBySegment
Local(q, s) ==
  /\ "segment" \in DOMAIN q
  /\ q.segment = s
  /\ q.type \notin {"closest-to-value", "placement-order"}

Fits(level, deal, s, mask) ==
  /\ mask # {}
  /\ Total(deal, mask) <= Cap(level)
  /\ \A q \in level : Local(q, s) => CardsHold(q, deal, [c \in mask |-> s])

\* Masks are numbers with one bit for each card: m is the smaller one when the
\* last card they differ in is in n.
NumberedBefore(m, n) == \E c \in n \ m : \A d \in Cards : d > c => (d \in m <=> d \in n)

\* Masks are tried by ascending sum; sorting is stable.
FirstMask(deal, masks) ==
  CHOOSE m \in masks : \A n \in masks \ {m} :
    \/ Total(deal, m) < Total(deal, n)
    \/ Total(deal, m) = Total(deal, n) /\ NumberedBefore(m, n)

\* The masks for segment s that leave the later segments enough, and not too much.
MasksFor(level, deal, s, placement, previousSum) ==
  LET free == Cards \ DOMAIN placement
      future == LastSegment - s
      masks == IF future = 0 THEN {free} ELSE SUBSET free
  IN {m \in masks :
        /\ Fits(level, deal, s, m)
        /\ Total(deal, m) >= previousSum
        /\ Cardinality(free \ m) >= future
        /\ future > 0 => /\ Total(deal, free \ m) >= Total(deal, m) * future
                         /\ Total(deal, free \ m) <= Cap(level) * future}

\* A call of the search on a segment: the masks it has still to try, and the
\* memory of the calls that failed before, by segment, used cards and sum.
Keys == Segments \X (SUBSET Cards) \X Nat
Nodes ==
  [segment : Segments, placement : UNION {[used -> Segments] : used \in SUBSET Cards},
   previousSum : Nat, masks : SUBSET SUBSET Cards, failed : SUBSET Keys]

Key(node) == <<node.segment, DOMAIN node.placement, node.previousSum>>

Call(level, deal, s, placement, previousSum, failed) ==
  [segment |-> s, placement |-> placement, previousSum |-> previousSum,
   masks |-> MasksFor(level, deal, s, placement, previousSum), failed |-> failed]

\* search(segment, usedMask, previousSum) of trySubsetPartitionSolve: whether it
\* finds a placement, and the memory it leaves behind; search is what the calls
\* it makes return.
Result(level, deal, search, node) ==
  LET mask == FirstMask(deal, node.masks)
      next == Joined(node.placement, [c \in mask |-> node.segment])
      below == Call(level, deal, node.segment + 1, next, Total(deal, mask), node.failed)
      result ==
        IF node.segment = LastSegment
        THEN [found |-> DOMAIN next = Cards /\ Finished(level, deal, next),
              failed |-> node.failed]
        ELSE IF Key(below) \in node.failed THEN [found |-> FALSE, failed |-> node.failed]
        ELSE search[below]
  IN IF node.masks = {}
     THEN [found |-> FALSE, failed |-> node.failed \cup {Key(node)}]
     ELSE IF result.found THEN result
     ELSE search[[node EXCEPT !.masks = @ \ {mask}, !.failed = result.failed]]

Search(level, deal) ==
  LET search[node \in Nodes] == Result(level, deal, search, node)
  IN search

SubsetsSolve(level, deal) ==
  Search(level, deal)[Call(level, deal, 0, << >>, 0, {})].found

\* canSolveDeal: the remaining fast paths need a level without the full
\* non-decreasing rule, which loadLevels gives to every level.
Solvable(level, deal) ==
  IF OnlyPermanentRules(level) THEN GlobalRulesSolve(level, deal)
  ELSE IF BySubsets(level) THEN SubsetsSolve(level, deal)
  ELSE CanComplete(level, deal, << >>)
=============================================================================
