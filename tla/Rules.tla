------------------------------- MODULE Rules -------------------------------
(***************************************************************************)
(* The cards of one attempt under the conditions of its level: the deal,   *)
(* shuffled until the solver accepts it (server/src/game/deal.ts), the     *)
(* placements of the seats in turn, and what the rest of the server        *)
(* concludes from them: the safe policy from what one seat may see         *)
(* (server/src/agent/safePolicy.ts, agent/memory/derivedState.ts over the  *)
(* views of agent/views.ts and game/visibility.ts), what that seat         *)
(* believes of the hidden cards (agent/belief/valueBelief.ts), the search  *)
(* in possible worlds (agent/candidates/sampleWorlds.ts, the solver).      *)
(* Turns, timers, hint windows are in Table and Turns; here a placement    *)
(* may show its card as long as a marker is left.                          *)
(***************************************************************************)
EXTENDS Solver

CONSTANTS
  Levels,       \* the levels explored, as data.ts states them
  Decks,        \* the shuffles explored, each cut to the cards needed
  MaxShuffles,  \* 500 in dealHands
  RevealAfter,  \* dealRules[2].revealRemainingAfter
  Markers       \* room.hintMarkers.total

ASSUME RulesAssumption ==
  /\ MaxShuffles \in Nat /\ Markers \in Nat /\ RevealAfter \in Nat
  /\ Decks \subseteq Deals
  /\ \A l \in Levels :
       /\ IsFiniteSet(l.conditions) /\ l.conditions \subseteq Condition
       /\ \A q \in l.conditions : q.type = "max-sum-each" => q.value = CenterCap

VARIABLES
  stage,     \* "dealing", "candidate", "placing" or "failed": no deal was found
  level,     \* room.currentChallenge.conditions
  shuffles,  \* attempts of dealHands so far
  deal,      \* the candidate, then the dealt cards
  played,    \* room.placements in playing order: [card, segment]
  shown      \* the cards on the table with revealed

vars == <<stage, level, shuffles, deal, played, shown>>

Placement(plays) ==
  [c \in {plays[i].card : i \in DOMAIN plays} |->
     plays[CHOOSE i \in DOMAIN plays : plays[i].card = c].segment]

Table == Placement(played)
Hand(seat) == {c \in Cards \ DOMAIN Table : Owner(c) = seat}

\* Anyone may open; then the turn goes round the seats.
MayPlace(seat) ==
  /\ stage = "placing"
  /\ Hand(seat) # {}
  /\ played # << >> => seat = (Owner(played[Len(played)].card) + 1) % NSeats

Init ==
  /\ stage = "dealing"
  /\ level \in {Loaded(l) : l \in Levels}
  /\ shuffles = 0
  /\ deal = << >>
  /\ played = << >>
  /\ shown = {}

Shuffle ==
  /\ stage = "dealing"
  /\ shuffles < MaxShuffles
  /\ stage' = "candidate"
  /\ deal' \in Decks
  /\ UNCHANGED <<level, shuffles, played, shown>>

\* Fault: the last shuffle is dealt whatever the solver says.
AcceptTheLast ==
  /\ stage = "candidate"
  /\ Solvable(level, deal) \/ shuffles = MaxShuffles - 1
  /\ stage' = "placing"
  /\ shuffles' = 0
  /\ UNCHANGED <<level, deal, played, shown>>

\* The verdict of the solver on the candidate decides.
Accept ==
  /\ stage = "candidate"
  /\ Solvable(level, deal)
  /\ stage' = "placing"
  /\ shuffles' = 0
  /\ UNCHANGED <<level, deal, played, shown>>

Refuse ==
  /\ stage = "candidate"
  /\ ~Solvable(level, deal)
  /\ stage' = IF shuffles + 1 = MaxShuffles THEN "failed" ELSE "dealing"
  /\ shuffles' = shuffles + 1
  /\ deal' = << >>
  /\ UNCHANGED <<level, played, shown>>

Place ==
  \E c \in Cards, s \in Segments, faceUp \in BOOLEAN :
    /\ MayPlace(Owner(c))
    /\ c \in Hand(Owner(c))
    /\ faceUp => Cardinality(shown) < Markers
    /\ played' = Append(played, [card |-> c, segment |-> s])
    /\ shown' = IF faceUp THEN shown \cup {c} ELSE shown
    /\ UNCHANGED <<stage, level, shuffles, deal>>

Next == Shuffle \/ Accept \/ Refuse \/ Place

Spec == Init /\ [][Next]_vars

-----------------------------------------------------------------------------
(* What a seat may see *)

IndexInHand(c) == ((c - 1) % HandSize) + 1

InitiallyVisible(c) == NSeats # 2 \/ IndexInHand(c) \in 2..(HandSize - 1)

\* revealRemainingBlindCardsIfNeeded, after n placements
BlindCardsTurned(n) ==
  NSeats = 2 /\ \A seat \in Seats :
    Cardinality({i \in 1..n : Owner(played[i].card) = seat}) >= RevealAfter

VisibleToOwner(c) == InitiallyVisible(c) \/ BlindCardsTurned(Len(played))

\* A table as one seat sees it: the colours of the cards in hued and the values
\* of those in open; of the others only that they lie there.
View(placement, open, hued) == [cards |-> placement, open |-> open, hued |-> hued]

\* publicPlacements, the same for every seat
PublicView == View(Table, shown, DOMAIN Table)

\* withCard: the table after a card of one's own, blind or not
ViewWith(c, s) ==
  LET own == IF VisibleToOwner(c) THEN {c} ELSE {}
  IN View(Joined(Table, [d \in {c} |-> s]), shown \cup own, DOMAIN Table \cup own)

\* Fault: a hidden card is taken for a middling one.
LowerByMean(view, s) ==
  Total(deal, On(view.cards, s) \cap view.open)
    + Cardinality(On(view.cards, s) \ view.open) * ((1 + MaxValue) \div 2)

Lower(view, s) ==
  Total(deal, On(view.cards, s) \cap view.open) + Cardinality(On(view.cards, s) \ view.open)

Upper(view, s) ==
  Total(deal, On(view.cards, s) \cap view.open)
    + Cardinality(On(view.cards, s) \ view.open) * MaxValue

Seen(view, s, color) == Cardinality(OfColor(deal, On(view.cards, s) \cap view.hued, color))

Count(view, s) == Cardinality(On(view.cards, s))

-----------------------------------------------------------------------------
(* safePolicy.ts *)

\* The cards a segment still has to get: cardDeficit
Deficit(view, s) ==
  LET wanted == {q.count : q \in {r \in level :
                   r.type \in {"min-cards", "exact-cards", "min-color-cards"} /\ r.segment = s}}
                \cup {q.black + q.white : q \in {r \in level :
                   r.type = "segment-colors" /\ r.segment = s}}
                \cup {1}
  IN Max({0, Max(wanted) - Count(view, s)})

\* Whether condition q shows that the move of card c to segment s loses.
Refutes(q, view, c, s) ==
  LET here == "segment" \in DOMAIN q /\ q.segment = s
      future == (Cardinality(Cards) - Cardinality(DOMAIN view.cards)) * MaxValue
  IN CASE q.type \in {"max-cards", "exact-cards"} -> here /\ Count(view, s) > q.count
       [] q.type = "max-sum-each" -> \E t \in Segments : Lower(view, t) > q.value
       [] q.type = "sum-equals" -> Lower(view, q.segment) > q.value
       [] q.type = "sum-range" -> Lower(view, q.segment) > q.max
       [] q.type = "non-decreasing" ->
            \E i \in 1..(Len(q.segments) - 1) :
              Lower(view, q.segments[i]) > Upper(view, q.segments[i + 1]) + future
       [] q.type = "non-increasing" ->
            \E i \in 1..(Len(q.segments) - 1) :
              Upper(view, q.segments[i]) + future < Lower(view, q.segments[i + 1])
       [] q.type = "placement-order" -> q.order = Len(played) + 1 /\ q.segment # s
       [] q.type = "segment-colors" ->
            here /\ \/ Seen(view, s, "black") > q.black
                    \/ Seen(view, s, "white") > q.white
                    \/ Count(view, s) > q.black + q.white
       [] q.type = "max-color-cards" -> here /\ Seen(view, s, q.color) > q.count
       [] q.type = "forbidden-values" ->
            here /\ VisibleToOwner(c) /\ deal[c].value \in q.values
       [] q.type = "all-distinct" ->
            here /\ VisibleToOwner(c)
                 /\ \E d \in (On(view.cards, s) \cap view.open) \ {c} :
                      deal[d].value = deal[c].value
       [] OTHER -> FALSE

\* isProvablyLosing
ProvablyLosing(c, s) ==
  LET view == ViewWith(c, s)
      left == Cardinality(Cards) - Cardinality(DOMAIN view.cards)
  IN \/ MapThenSumSet(LAMBDA t : Deficit(view, t), Segments) > left
     \/ \E q \in level : Refutes(q, view, c, s)

Moves(seat) == Hand(seat) \X Segments

\* The moves that are not proven to lose: what the candidates are taken from.
Kept(seat) == {m \in Moves(seat) : ~ProvablyLosing(m[1], m[2])}

\* Neighbours whose sums are in the wrong order as the table stands.
Misordered(q, view) ==
  {i \in 1..(Len(q.segments) - 1) :
     LET left == q.segments[i]
         right == q.segments[i + 1]
     IN IF q.type = "non-decreasing"
        THEN Count(view, right) > 0 /\ Lower(view, left) > Upper(view, right)
        ELSE Count(view, left) > 0 /\ Upper(view, left) < Lower(view, right)}

SoftViolations(view) ==
  MapThenSumSet(LAMBDA q : Cardinality(Misordered(q, view)),
                {q \in level : q.type \in {"non-decreasing", "non-increasing"}})

\* compareRanked: what a move is judged by, the smaller the better.  The third
\* is the distance of the card from the value that fits the segment, a blind
\* card counting as a middling one; times twice the number of segments.
Rank(m) ==
  LET c == m[1]
      s == m[2]
      view == ViewWith(c, s)
      left == Cardinality(Cards) - Cardinality(DOMAIN view.cards)
      empty == {t \in Segments : Count(view, t) = 0}
      urgent == On(Table, s) = {} /\ left <= Cardinality(empty) + 1
      twice == IF VisibleToOwner(c) THEN 2 * deal[c].value ELSE 1 + MaxValue
      value == IF VisibleToOwner(c) THEN deal[c].value ELSE MaxValue + 1
  IN <<IF urgent THEN 0 ELSE 1, SoftViolations(view),
       Distance((LastSegment + 1) * twice, (2 * s + 1) * MaxValue), s, value, c>>

Precedes(x, y) == \E i \in DOMAIN x : x[i] < y[i] /\ \A j \in 1..(i - 1) : x[j] = y[j]

\* decideSafePlacement: when every move is proven to lose the game goes on
\* with the first card of the hand.
SafePlacement(seat) ==
  LET kept == Kept(seat)
      rank == [m \in kept |-> Rank(m)]
  IN IF kept = {}
     THEN <<CHOOSE c \in Hand(seat) : \A d \in Hand(seat) : c <= d, 0>>
     ELSE CHOOSE m \in kept : \A n \in kept \ {m} : Precedes(rank[m], rank[n])

\* derivedState.ts: the conditions a prompt calls impossible
Impossible(q) ==
  LET view == PublicView
  IN CASE q.type \in {"max-cards", "exact-cards"} -> Count(view, q.segment) > q.count
       [] q.type = "sum-equals" -> Lower(view, q.segment) > q.value
       [] q.type = "sum-range" -> Lower(view, q.segment) > q.max
       [] q.type = "segment-colors" ->
            Seen(view, q.segment, "black") > q.black \/ Seen(view, q.segment, "white") > q.white
       [] q.type = "max-color-cards" -> Seen(view, q.segment, q.color) > q.count
       [] q.type = "forbidden-values" ->
            Values(deal, On(Table, q.segment) \cap shown) \cap q.values # {}
       [] q.type = "max-sum-each" -> \E s \in Segments : Lower(view, s) > q.value
       [] OTHER -> FALSE

-----------------------------------------------------------------------------
(* valueBelief.ts: what a seat believes of the hidden cards on the table *)

\* recordPlacement: play j is remembered with what its owner saw of the card.
SeenWhenPlayed(j) == InitiallyVisible(played[j].card) \/ BlindCardsTurned(j - 1)

\* knownOwnCards
Remembered(seat) ==
  {played[j].card : j \in {i \in DOMAIN played : Owner(played[i].card) = seat /\ SeenWhenPlayed(i)}}

\* knownValuesByColor: the cards whose value and colour it knows.
Known(seat) == shown \cup {c \in Hand(seat) : VisibleToOwner(c)} \cup Remembered(seat)

PossibleValues(seat, c) ==
  IF c \in Remembered(seat) THEN {deal[c].value}
  ELSE LET known == Known(seat)
       IN (1..MaxValue) \ Values(deal, OfColor(deal, known, deal[c].color))

\* segmentBoundsOf: what the conditions leave for the sum of a segment.
SumCaps(s) ==
  {q.value : q \in {r \in level :
     r.type = "max-sum-each" \/ (r.type = "sum-equals" /\ r.segment = s)}}
  \cup {q.max : q \in {r \in level : r.type = "sum-range" /\ r.segment = s}}

ForbiddenValues(s) ==
  UNION {q.values : q \in {r \in level : r.type = "forbidden-values" /\ r.segment = s}}

\* successCompatibleValues: the values that can still be part of a win.
CompatibleValues(seat, c) ==
  LET view == PublicView
      s == view.cards[c]
      others == Lower(view, s) - 1
      taken == IF [type |-> "all-distinct", segment |-> s] \in level
               THEN Values(deal, On(view.cards, s) \cap view.open) ELSE {}
      possible == PossibleValues(seat, c)
  IN {v \in possible \ (ForbiddenValues(s) \cup taken) :
        \A cap \in SumCaps(s) : v <= cap - others}

-----------------------------------------------------------------------------
(* sampleWorlds.ts *)

\* A card as the possible worlds of a seat know it: placed cards by their
\* colour, shown ones by their value too, of the hand what its owner sees.
Slot(seat, c) ==
  [owner |-> Owner(c),
   color |-> IF c \in DOMAIN Table \/ (c \in Hand(seat) /\ VisibleToOwner(c))
             THEN {deal[c].color} ELSE Colors,
   value |-> IF c \in shown \/ (c \in Hand(seat) /\ VisibleToOwner(c))
             THEN {deal[c].value} ELSE 1..MaxValue]

\* sampleWorld: no card of the pack is dealt twice.
PossibleWorld(seat, world) ==
  /\ \A c, d \in Cards : world[c] = world[d] => c = d
  /\ \A c \in Cards : /\ world[c].color \in Slot(seat, c).color
                       /\ world[c].value \in Slot(seat, c).value

-----------------------------------------------------------------------------
(* What they are measured against *)

\* The orders in which all cards can be played.
Plays ==
  {p \in [Cards -> Cards] :
     /\ \A i, j \in Cards : p[i] = p[j] => i = j
     /\ \A i \in Cards \ {1} : Owner(p[i]) = (Owner(p[i - 1]) + 1) % NSeats}

\* Some placement that extends this one passes, played in one of the orders.
Completes(placement, orders) ==
  \E rest \in [Cards \ DOMAIN placement -> Segments] :
    LET full == Joined(placement, rest)
    IN /\ \A q \in level \ Ordered(level) : CardsHold(q, deal, full)
       /\ \E p \in orders : Passes(Ordered(level), deal, full, p)

Winnable == Completes(<< >>, Plays)

\* The orders that begin with the cards played so far.
Continuing(plays) == {p \in Plays : \A i \in DOMAIN plays : p[i] = plays[i].card}

\* Whatever the seats still play.
Lost == ~Completes(Table, Continuing(played))

\* Whatever they play, the given seat first.
LostFor(seat) ==
  ~Completes(Table, {p \in Continuing(played) : Owner(p[Len(played) + 1]) = seat})

\* Types of the variables.
TypeOK ==
  /\ stage \in {"dealing", "candidate", "placing", "failed"}
  /\ shuffles \in 0..MaxShuffles
  /\ deal \in Decks \cup {<< >>}
  /\ shown \subseteq DOMAIN Table /\ Cardinality(shown) <= Markers
  /\ Cardinality(DOMAIN Table) = Len(played)

\* No seat is ever asked to play a hand that cannot be won: a deal the solver
\* lets through has a placement, and an order of playing it, that passes.
DealtIsWinnable == stage = "placing" /\ played = << >> => Winnable

\* A move is pruned only when no way of playing on wins, whatever the cards
\* the seat cannot see turn out to be.
PrunedIsLost ==
  \A seat \in Seats : MayPlace(seat) =>
    \A m \in Moves(seat) \ Kept(seat) :
      LET after == Append(played, [card |-> m[1], segment |-> m[2]])
      IN ~Completes(Placement(after), Continuing(after))

\* Without a model a seat plays a card it holds, and one that is proven to lose
\* only when the hand is lost with this seat next.  (Before anything is played
\* another seat may open instead, and win.)
SafeUnlessLost ==
  \A seat \in Seats : MayPlace(seat) =>
    LET safe == SafePlacement(seat)
    IN safe \in Moves(seat) /\ (ProvablyLosing(safe[1], safe[2]) => LostFor(seat))

\* What a seat believes of a hidden card is possible, and compatible with
\* success unless the hand is lost.
BelievedRightly(seat, c) ==
  \/ deal[c].value \in CompatibleValues(seat, c)
  \/ deal[c].value \in PossibleValues(seat, c) /\ Lost

\* The agents never give up a hand that the table could still win: a move is
\* pruned, a condition reported impossible and the real value of a hidden card
\* excluded from success only when no way of playing on wins.
LosingIsLost ==
  stage = "placing" =>
    /\ PrunedIsLost
    /\ SafeUnlessLost
    /\ (\E q \in level : Impossible(q)) => Lost
    /\ LET hidden == DOMAIN Table \ shown
       IN \A seat \in Seats, c \in hidden : BelievedRightly(seat, c)

\* The search that rates a candidate move in a possible world prunes nothing it
\* should keep: it finds a completion exactly when one passes in some order.
\* The cards as they really lie are a possible world for every seat.
SearchIsExact ==
  /\ TypeOK
  /\ stage = "placing" =>
       /\ CanComplete(level, deal, Table) <=> Completes(Table, Plays)
       /\ \A seat \in Seats : PossibleWorld(seat, deal)

\* rules.md: a deal is shuffled again when no placement of it can win.
NoDealIsRefused == [][Refuse => ~Winnable]_vars
=============================================================================
