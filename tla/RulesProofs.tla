----------------------------- MODULE RulesProofs -----------------------------
(***************************************************************************)
(* Proofs about the rules of the cards, for every pack, level, number of   *)
(* seats and size of hand that the assumptions of Conditions and Rules     *)
(* allow: a deal the solver lets through can be won (NoDealIsHopeless),    *)
(* the search in a possible world finds a completion exactly when there is *)
(* one (TheSearchIsExact), and neither the safe policy nor the beliefs of  *)
(* the agents give up a hand that can still be won (NoHandIsGivenUp).      *)
(*                                                                         *)
(* The state's part is small: a level is loaded, a hand dealt, no card     *)
(* lies twice, and what was dealt was accepted.  The rest is about the     *)
(* operators: sums are numbers of dots under a graph, so that they can be  *)
(* compared by inclusion; what a seat sees of a placement is contained in  *)
(* every placement that extends it; Hall's condition, seat by seat, gives  *)
(* an order of play; and the recursive search over subsets has one         *)
(* solution, because every call it makes is nearer to the end.             *)
(***************************************************************************)
EXTENDS Rules, FiniteSetTheorems, FunctionTheorems, SequenceTheorems, TLAPS

-----------------------------------------------------------------------------
(* Least and greatest elements, induction on finite sets *)

\* Every set of numbers has a least one.
LEMMA LeastExists ==
  ASSUME NEW T \in SUBSET Nat, T # {}
  PROVE  \E m \in T : \A n \in T : m <= n
<1> DEFINE R == {ss \in Nat \X Nat : ss[1] < ss[2]}
<1>1. IsWellFoundedOn(R, Nat)
  BY NatLessThanWellFounded, Zenon DEF OpToRel
<1>2. PICK m \in T : \A n \in T : ~ (<<n, m>> \in R)
  BY <1>1, WFMin
<1>3. ASSUME NEW n \in T PROVE m <= n
  <2>1. <<n, m>> \in Nat \X Nat /\ <<n, m>>[1] = n /\ <<n, m>>[2] = m
    OBVIOUS
  <2>2. ~(n < m)
    BY <1>2, <2>1
  <2> QED BY <2>2
<1> QED BY <1>3

\* Every nonempty set has an element with the least image.
LEMMA LeastImageExists ==
  ASSUME NEW T, T # {}, NEW f \in [T -> Nat]
  PROVE  \E x \in T : \A y \in T : f[x] <= f[y]
<1> DEFINE N == {f[x] : x \in T}
<1>1. N \in SUBSET Nat /\ N # {}
  OBVIOUS
<1>2. PICK m \in N : \A n \in N : m <= n
  BY <1>1, LeastExists
<1> QED BY <1>2

\* Every bounded set of numbers has a greatest one.
LEMMA GreatestExists ==
  ASSUME NEW T \in SUBSET Nat, T # {}, NEW b \in Nat, \A n \in T : n <= b
  PROVE  \E m \in T : \A n \in T : m >= n
<1> DEFINE f == [n \in T |-> b - n]
<1>1. f \in [T -> Nat]
  OBVIOUS
<1>2. PICK m \in T : \A n \in T : f[m] <= f[n]
  BY <1>1, LeastImageExists
<1> QED BY <1>2

\* Only the empty set has no element to start from: induction on finite sets,
\* stated for the set Good of the subsets for which something holds.
LEMMA SubsetInduction ==
  ASSUME NEW S, IsFiniteSet(S), NEW Good,
         {} \in Good,
         \A T \in SUBSET S : T # {} /\ (\A x \in T : T \ {x} \in Good) => T \in Good
  PROVE  \A T \in SUBSET S : T \in Good
<1> DEFINE Bad == {T \in SUBSET S : T \notin Good}
<1> SUFFICES ASSUME Bad # {} PROVE FALSE
  OBVIOUS
<1>1. FiniteSubsetsOf(S) = SUBSET S
  BY FS_FiniteSubsetsOfFinite
<1>2. IsWellFoundedOn(StrictSubsetOrdering(S), SUBSET S)
  <2>1. IsWellFoundedOn(StrictSubsetOrdering(S), FiniteSubsetsOf(S))
    BY FS_StrictSubsetOrderingWellFounded, Zenon
  <2> QED BY <1>1, <2>1, Zenon
<1>3. PICK T \in Bad : \A U \in Bad : ~(<<U, T>> \in StrictSubsetOrdering(S))
  <2>1. Bad \subseteq SUBSET S
    OBVIOUS
  <2> HIDE DEF Bad
  <2> QED BY <1>2, <2>1, WFMin
<1>4. PICK x \in T : T \ {x} \in Bad
  OBVIOUS
<1>5. T \ {x} \notin Bad
  <2>1. <<T \ {x}, T>> \in (SUBSET S) \X (SUBSET S)
    OBVIOUS
  <2>2. T \ {x} \subseteq T /\ T \ {x} # T
    OBVIOUS
  <2>3. <<T \ {x}, T>> \in StrictSubsetOrdering(S)
    BY <2>1, <2>2 DEF StrictSubsetOrdering
  <2> QED BY <1>3, <2>3
<1> QED BY <1>4, <1>5

-----------------------------------------------------------------------------
(* Sums of a function over a finite set, as the number of dots under its graph *)

\* A sum counted out: one dot for every unit.
Row(w, x) == {x} \X (1..w[x])
Dots(w, S) == UNION {Row(w, x) : x \in S}

\* What adds up to w over the subsets of S, one chosen element after the other.
AddsUp(sum, w, S) ==
  sum = [s \in SUBSET S |-> IF s = {} THEN 0
                             ELSE w[CHOOSE x \in s : TRUE] + sum[s \ {CHOOSE x \in s : TRUE}]]

\* The dots over one element are as many as its value.
LEMMA RowSize ==
  ASSUME NEW S, NEW w \in [S -> Nat], NEW x \in S
  PROVE  IsFiniteSet(Row(w, x)) /\ Cardinality(Row(w, x)) = w[x]
<1>1. IsFiniteSet({x}) /\ Cardinality({x}) = 1
  BY FS_Singleton
<1>2. PICK n \in Nat : n = w[x]
  OBVIOUS
<1>3. IsFiniteSet(1..n) /\ Cardinality(1..n) = n
  BY FS_Interval
<1>4. IsFiniteSet({x} \X (1..n)) /\ Cardinality({x} \X (1..n)) = 1 * n
  BY <1>1, <1>3, FS_Product
<1> QED BY <1>2, <1>4 DEF Row

\* The dots under a function on a finite set can be counted.
LEMMA DotsFinite ==
  ASSUME NEW S, IsFiniteSet(S), NEW w \in [S -> Nat]
  PROVE  IsFiniteSet(Dots(w, S)) /\ Cardinality(Dots(w, S)) \in Nat
<1> DEFINE Rows == {Row(w, x) : x \in S}
           f == [x \in S |-> Row(w, x)]
<1>1. f \in Surjection(S, Rows)
  BY DEF Surjection
<1>2. IsFiniteSet(Rows)
  BY <1>1, FS_Surjection
<1>3. \A T \in Rows : IsFiniteSet(T)
  BY RowSize
<1>4. IsFiniteSet(UNION Rows)
  BY <1>2, <1>3, FS_UNION
<1> QED BY <1>4, FS_CardinalityType DEF Dots

\* What a dot is.
LEMMA DotsOf ==
  ASSUME NEW S, NEW w \in [S -> Nat], NEW p
  PROVE  p \in Dots(w, S) <=> \E x \in S : \E n \in 1..w[x] : p = <<x, n>>
BY DEF Dots, Row

\* The dots over a set are those over one element and those over the others.
LEMMA DotsSplit ==
  ASSUME NEW S, NEW w \in [S -> Nat], NEW T \in SUBSET S, IsFiniteSet(S), NEW x \in T
  PROVE  /\ IsFiniteSet(Dots(w, T))
         /\ Cardinality(Dots(w, T)) = w[x] + Cardinality(Dots(w, T \ {x}))
<1>1. IsFiniteSet(T) /\ IsFiniteSet(T \ {x})
  BY FS_Subset
<1>2. IsFiniteSet(Dots(w, T \ {x})) /\ Cardinality(Dots(w, T \ {x})) \in Nat
  <2> DEFINE v == [y \in T \ {x} |-> w[y]]
  <2>1. v \in [T \ {x} -> Nat]
    OBVIOUS
  <2>2. Dots(w, T \ {x}) = Dots(v, T \ {x})
    BY DEF Dots, Row
  <2>3. IsFiniteSet(Dots(v, T \ {x})) /\ Cardinality(Dots(v, T \ {x})) \in Nat
    <3> HIDE DEF v
    <3> QED BY <1>1, <2>1, DotsFinite
  <2> QED BY <2>2, <2>3
<1>3. IsFiniteSet(Row(w, x)) /\ Cardinality(Row(w, x)) = w[x]
  BY RowSize
<1>4. Dots(w, T) = Row(w, x) \cup Dots(w, T \ {x})
  BY DEF Dots
<1>5. Row(w, x) \cap Dots(w, T \ {x}) = {}
  BY DEF Dots, Row
<1>6. /\ IsFiniteSet(Row(w, x) \cup Dots(w, T \ {x}))
      /\ Cardinality(Row(w, x) \cup Dots(w, T \ {x}))
           = Cardinality(Row(w, x)) + Cardinality(Dots(w, T \ {x}))
               - Cardinality(Row(w, x) \cap Dots(w, T \ {x}))
  BY <1>2, <1>3, FS_Union
<1>7. Cardinality(Row(w, x) \cap Dots(w, T \ {x})) = 0
  BY <1>5, FS_EmptySet
<1> QED BY <1>2, <1>3, <1>4, <1>6, <1>7

\* A sum exists, and is the number of dots.
LEMMA SumExists ==
  ASSUME NEW S, IsFiniteSet(S), NEW w \in [S -> Nat]
  PROVE  \E sum : AddsUp(sum, w, S)
<1> DEFINE sum == [s \in SUBSET S |-> Cardinality(Dots(w, s))]
<1>1. ASSUME NEW s \in SUBSET S
      PROVE  sum[s] = IF s = {} THEN 0
                      ELSE w[CHOOSE x \in s : TRUE] + sum[s \ {CHOOSE x \in s : TRUE}]
  <2>1. CASE s = {}
    <3>1. Dots(w, s) = {}
      BY <2>1 DEF Dots
    <3> QED BY <2>1, <3>1, FS_EmptySet
  <2>2. CASE s # {}
    <3>1. PICK x \in s : x = CHOOSE y \in s : TRUE
      BY <2>2
    <3>2. Cardinality(Dots(w, s)) = w[x] + Cardinality(Dots(w, s \ {x}))
      BY DotsSplit
    <3> QED BY <2>2, <3>1, <3>2
  <2> QED BY <2>1, <2>2
<1>2. AddsUp(sum, w, S)
  BY <1>1 DEF AddsUp
<1> QED BY <1>2

\* Whatever adds up like a sum counts the dots.
LEMMA SumIsDots ==
  ASSUME NEW S, IsFiniteSet(S), NEW w \in [S -> Nat], NEW sum, AddsUp(sum, w, S)
  PROVE  sum[S] = Cardinality(Dots(w, S))
<1> DEFINE Good == {s \in SUBSET S : sum[s] = Cardinality(Dots(w, s))}
<1>0. \A s \in SUBSET S :
        sum[s] = IF s = {} THEN 0
                 ELSE w[CHOOSE x \in s : TRUE] + sum[s \ {CHOOSE x \in s : TRUE}]
  <2>1. sum = [s \in SUBSET S |-> IF s = {} THEN 0
                 ELSE w[CHOOSE x \in s : TRUE] + sum[s \ {CHOOSE x \in s : TRUE}]]
    BY DEF AddsUp
  <2> QED BY <2>1, Zenon
<1>1. {} \in Good
  <2>1. Dots(w, {}) = {}
    BY DEF Dots
  <2> QED BY <1>0, <2>1, FS_EmptySet
<1>2. ASSUME NEW T \in SUBSET S, T # {}, \A x \in T : T \ {x} \in Good
      PROVE  T \in Good
  <2>1. PICK x \in T : x = CHOOSE y \in T : TRUE
    BY <1>2
  <2>2. sum[T] = w[x] + sum[T \ {x}]
    BY <1>0, <1>2, <2>1
  <2>3. Cardinality(Dots(w, T)) = w[x] + Cardinality(Dots(w, T \ {x}))
    BY DotsSplit
  <2> QED BY <1>2, <2>2, <2>3
<1>3. \A T \in SUBSET S : T \in Good
  <2> HIDE DEF Good
  <2> QED BY <1>1, <1>2, SubsetInduction
<1> QED BY <1>3

-----------------------------------------------------------------------------
(* The cards and the sums of their values *)

Worth(d) == [c \in Cards |-> d[c].value]

\* The sizes are numbers.
LEMMA Sizes ==
  /\ LastSegment \in Nat /\ CenterCap \in Nat
  /\ NSeats \in Nat /\ NSeats > 0
  /\ HandSize \in Nat /\ HandSize > 0
  /\ MaxValue \in Nat /\ MaxValue > 0
BY SizesAssumption

\* Sets of cards and the set of segments can be counted.
LEMMA CardsFinite ==
  /\ IsFiniteSet(Cards)
  /\ \A S \in SUBSET Cards : IsFiniteSet(S) /\ Cardinality(S) \in Nat
  /\ IsFiniteSet(Segments)
  /\ Cardinality(Cards) = NSeats * HandSize
<1>1. NSeats * HandSize \in Nat /\ 1 \in Int /\ 0 \in Int /\ LastSegment \in Int
  BY SizesAssumption
<1>2. IsFiniteSet(Cards) /\ Cardinality(Cards) = NSeats * HandSize
  <2>1. PICK n \in Nat : n = NSeats * HandSize
    BY <1>1
  <2>2. IsFiniteSet(1..n) /\ Cardinality(1..n) = n
    BY FS_Interval
  <2> QED BY <2>1, <2>2 DEF Cards
<1>3. IsFiniteSet(Segments)
  BY <1>1, FS_Interval DEF Segments
<1>4. \A S \in SUBSET Cards : IsFiniteSet(S) /\ Cardinality(S) \in Nat
  BY <1>2, FS_Subset, FS_CardinalityType
<1> QED BY <1>2, <1>3, <1>4

\* The values and colours of dealt cards.
LEMMA WorthType ==
  ASSUME NEW d \in Deals
  PROVE  /\ Worth(d) \in [Cards -> Nat]
         /\ \A c \in Cards : /\ Worth(d)[c] = d[c].value
                             /\ d[c].value \in 1..MaxValue
                             /\ d[c].color \in Colors
<1>1. d \in [Cards -> [value : 1..MaxValue, color : Colors]]
  BY DEF Deals
<1>2. 1..MaxValue \subseteq Nat
  BY SizesAssumption
<1> QED BY <1>1, <1>2 DEF Worth

\* The sum of a set of cards, by the definition of the fold, counts dots.
LEMMA TotalIsDots ==
  ASSUME NEW d \in Deals, NEW S \in SUBSET Cards
  PROVE  /\ Total(d, S) = Cardinality(Dots(Worth(d), S))
         /\ IsFiniteSet(Dots(Worth(d), S))
         /\ Total(d, S) \in Nat
<1> DEFINE w == [c \in S |-> d[c].value]
           Adds(sum) == sum = [s \in SUBSET S |-> IF s = {} THEN 0
                                  ELSE d[CHOOSE x \in s : TRUE].value + sum[s \ {CHOOSE x \in s : TRUE}]]
<1>1. w \in [S -> Nat]
  BY WorthType
<1>2. IsFiniteSet(S)
  BY CardsFinite
<1>3. \A s \in SUBSET S : s # {} => w[CHOOSE x \in s : TRUE] = d[CHOOSE x \in s : TRUE].value
  OBVIOUS
<1>4. ASSUME NEW sum PROVE AddsUp(sum, w, S) <=> Adds(sum)
  <2>1. [s \in SUBSET S |-> IF s = {} THEN 0
            ELSE w[CHOOSE x \in s : TRUE] + sum[s \ {CHOOSE x \in s : TRUE}]]
      = [s \in SUBSET S |-> IF s = {} THEN 0
            ELSE d[CHOOSE x \in s : TRUE].value + sum[s \ {CHOOSE x \in s : TRUE}]]
    <3> HIDE DEF w
    <3> QED BY <1>3
  <2> HIDE DEF w
  <2> QED BY <2>1, Zenon DEF AddsUp
<1>5. \E sum : AddsUp(sum, w, S)
  <2> HIDE DEF w
  <2> QED BY <1>1, <1>2, SumExists
<1>6. PICK sum : sum = (CHOOSE s : Adds(s)) /\ AddsUp(sum, w, S)
  <2> HIDE DEF w, Adds
  <2> QED BY <1>4, <1>5
<1>7. Total(d, S) = sum[S]
  <2>1. Total(d, S) = (CHOOSE s : Adds(s))[S]
    BY DEF Total, MapThenSumSet, MapThenFoldSet
  <2> QED BY <1>6, <2>1, Zenon
<1>8. sum[S] = Cardinality(Dots(w, S))
  <2> HIDE DEF w
  <2> QED BY <1>1, <1>2, <1>6, SumIsDots
<1>9. IsFiniteSet(Dots(w, S)) /\ Cardinality(Dots(w, S)) \in Nat
  <2> HIDE DEF w
  <2> QED BY <1>1, <1>2, DotsFinite
<1>10. Dots(w, S) = Dots(Worth(d), S)
  BY DEF Dots, Row, Worth
<1> QED BY <1>7, <1>8, <1>9, <1>10

\* Every card is worth from 1 to MaxValue.
LEMMA TotalBounds ==
  ASSUME NEW d \in Deals, NEW S \in SUBSET Cards
  PROVE  /\ Total(d, S) \in Nat
         /\ Cardinality(S) <= Total(d, S)
         /\ Total(d, S) <= Cardinality(S) * MaxValue
<1>1. IsFiniteSet(S) /\ Cardinality(S) \in Nat
  BY CardsFinite
<1>2. /\ IsFiniteSet(1..MaxValue) /\ Cardinality(1..MaxValue) = MaxValue
      /\ IsFiniteSet({1}) /\ Cardinality({1}) = 1
  <2>1. PICK n \in Nat : n = MaxValue
    BY Sizes
  <2>2. IsFiniteSet(1..n) /\ Cardinality(1..n) = n
    BY FS_Interval
  <2> QED BY <2>1, <2>2, FS_Singleton
<1>3. /\ IsFiniteSet(S \X (1..MaxValue))
      /\ Cardinality(S \X (1..MaxValue)) = Cardinality(S) * MaxValue
      /\ IsFiniteSet(S \X {1})
      /\ Cardinality(S \X {1}) = Cardinality(S) * 1
  BY <1>1, <1>2, FS_Product
<1>4. Dots(Worth(d), S) \subseteq S \X (1..MaxValue)
  <2> SUFFICES ASSUME NEW c \in S, NEW n \in 1..Worth(d)[c] PROVE n \in 1..MaxValue
    BY DEF Dots, Row
  <2>1. Worth(d)[c] \in 1..MaxValue /\ MaxValue \in Nat
    BY WorthType, Sizes
  <2> QED BY <2>1
<1>5. S \X {1} \subseteq Dots(Worth(d), S)
  BY WorthType DEF Dots, Row
<1>6. Cardinality(Dots(Worth(d), S)) <= Cardinality(S \X (1..MaxValue))
  BY <1>3, <1>4, FS_Subset
<1>7. Cardinality(S \X {1}) <= Cardinality(Dots(Worth(d), S))
  BY <1>5, TotalIsDots, FS_Subset
<1> QED BY <1>1, <1>3, <1>6, <1>7, TotalIsDots

\* The sum of two disjoint sets is the sum of their sums.
LEMMA TotalSplit ==
  ASSUME NEW d \in Deals, NEW A \in SUBSET Cards, NEW B \in SUBSET Cards, A \cap B = {}
  PROVE  Total(d, A \cup B) = Total(d, A) + Total(d, B)
<1>1. Dots(Worth(d), A \cup B) = Dots(Worth(d), A) \cup Dots(Worth(d), B)
  BY DEF Dots
<1>2. Dots(Worth(d), A) \cap Dots(Worth(d), B) = {}
  BY DEF Dots, Row
<1>3. Cardinality(Dots(Worth(d), A) \cap Dots(Worth(d), B)) = 0
  BY <1>2, FS_EmptySet
<1>4. A \cup B \in SUBSET Cards
  OBVIOUS
<1>5. Cardinality(Dots(Worth(d), A) \cup Dots(Worth(d), B))
        = Cardinality(Dots(Worth(d), A)) + Cardinality(Dots(Worth(d), B))
            - Cardinality(Dots(Worth(d), A) \cap Dots(Worth(d), B))
  BY TotalIsDots, FS_Union
<1>6. /\ Total(d, A) = Cardinality(Dots(Worth(d), A)) /\ Total(d, A) \in Nat
      /\ Total(d, B) = Cardinality(Dots(Worth(d), B)) /\ Total(d, B) \in Nat
      /\ Total(d, A \cup B) = Cardinality(Dots(Worth(d), A \cup B))
  BY <1>4, TotalIsDots
<1>7. Total(d, A \cup B) = Total(d, A) + Total(d, B) - 0
  BY <1>1, <1>3, <1>5, <1>6, Zenon
<1> QED BY <1>6, <1>7

\* The sum of a part is at most that of the whole.
LEMMA TotalSubset ==
  ASSUME NEW d \in Deals, NEW B \in SUBSET Cards, NEW A \in SUBSET B
  PROVE  /\ Total(d, B) = Total(d, A) + Total(d, B \ A)
         /\ Total(d, A) <= Total(d, B)
<1>1. A \in SUBSET Cards /\ B \ A \in SUBSET Cards /\ A \cap (B \ A) = {} /\ A \cup (B \ A) = B
  OBVIOUS
<1>2. Total(d, B) = Total(d, A) + Total(d, B \ A)
  BY <1>1, TotalSplit
<1> QED BY <1>1, <1>2, TotalBounds

\* The sum of one card is its value.
LEMMA TotalOne ==
  ASSUME NEW d \in Deals, NEW c \in Cards
  PROVE  Total(d, {c}) = d[c].value
<1>1. Dots(Worth(d), {c}) = Row(Worth(d), c)
  BY DEF Dots
<1>2. Cardinality(Row(Worth(d), c)) = d[c].value
  BY WorthType, RowSize
<1> QED BY <1>1, <1>2, TotalIsDots

-----------------------------------------------------------------------------
(* What a seat sees of a placement bounds what it will be: lower and upper sums, counts *)

\* The fields a condition has, by its type.
LEMMA Fields ==
  ASSUME NEW q \in Condition
  PROVE  /\ q.type \in {"min-cards", "max-cards", "exact-cards"} =>
              q.segment \in Segments /\ q.count \in Nat
         /\ q.type \in {"sum-equals", "closest-to-value"} =>
              q.segment \in Segments /\ q.value \in Nat
         /\ q.type = "sum-range" => q.segment \in Segments /\ q.min \in Nat /\ q.max \in Nat
         /\ q.type = "parity" => q.segment \in Segments
         /\ q.type \in {"non-decreasing", "non-increasing"} => q.segments \in Seq(Segments)
         /\ q.type = "adjacent-diff" =>
              q.a \in Segments /\ q.b \in Segments /\ q.maxDiff \in Nat
         /\ q.type = "segment-colors" =>
              q.segment \in Segments /\ q.black \in Nat /\ q.white \in Nat
         /\ q.type \in {"min-color-cards", "max-color-cards"} =>
              q.segment \in Segments /\ q.color \in Colors /\ q.count \in Nat
         /\ q.type = "forbidden-values" => q.segment \in Segments /\ q.values \in SUBSET Nat
         /\ q.type \in {"all-distinct", "has-duplicate-value"} => q.segment \in Segments
         /\ q.type = "max-sum-each" => q.value \in Nat
         /\ q.type = "placement-order" => q.order \in Nat /\ q.segment \in Segments
BY DEF Condition

\* A placement of all cards that contains what a view knows of the table.
Contains(full, view) ==
  /\ full \in [Cards -> Segments]
  /\ DOMAIN view.cards \subseteq Cards
  /\ \A c \in DOMAIN view.cards : full[c] = view.cards[c]
  /\ view.open \subseteq DOMAIN view.cards
  /\ view.hued \subseteq DOMAIN view.cards

\* The cards on a segment are cards.
LEMMA OnCards ==
  ASSUME NEW placement, DOMAIN placement \subseteq Cards, NEW s
  PROVE  /\ On(placement, s) \in SUBSET Cards
         /\ IsFiniteSet(On(placement, s))
         /\ Cardinality(On(placement, s)) \in Nat
BY CardsFinite DEF On

\* What a view shows on a segment stays there; more cards may come.
LEMMA ViewWithin ==
  ASSUME NEW view, NEW full, Contains(full, view), NEW s
  PROVE  /\ On(view.cards, s) \in SUBSET On(full, s)
         /\ On(full, s) \in SUBSET Cards
         /\ On(full, s) \ On(view.cards, s) \in SUBSET (Cards \ DOMAIN view.cards)
BY DEF Contains, On

\* The lower bound of a sum is one, whatever the hidden cards are and still
\* come.
LEMMA LowerIsLower ==
  ASSUME deal \in Deals, NEW view, NEW full, Contains(full, view), NEW s
  PROVE  /\ Lower(view, s) \in Nat
         /\ Lower(view, s) <= SumAt(deal, full, s)
         /\ SumAt(deal, full, s) \in Nat
<1> DEFINE A == On(view.cards, s) \cap view.open
           B == On(view.cards, s) \ view.open
           R == On(full, s) \ On(view.cards, s)
<1>1. /\ A \in SUBSET Cards /\ B \in SUBSET Cards /\ On(full, s) \in SUBSET Cards
      /\ A \cap B = {} /\ A \cup B \in SUBSET On(full, s)
  BY ViewWithin
<1>2. Total(deal, A \cup B) = Total(deal, A) + Total(deal, B)
  <2> HIDE DEF A, B
  <2> QED BY <1>1, TotalSplit
<1>3. Total(deal, A \cup B) <= Total(deal, On(full, s))
  <2> HIDE DEF A, B
  <2> QED BY <1>1, TotalSubset
<1>4. /\ Total(deal, A) \in Nat /\ Total(deal, B) \in Nat /\ Total(deal, On(full, s)) \in Nat
      /\ Cardinality(B) <= Total(deal, B) /\ Cardinality(B) \in Nat
  <2> HIDE DEF A, B
  <2> QED BY <1>1, TotalBounds, CardsFinite
<1> QED BY <1>2, <1>3, <1>4 DEF Lower, SumAt

\* What the cards still to come can add at most.
Future(view) == (Cardinality(Cards) - Cardinality(DOMAIN view.cards)) * MaxValue

\* So is the upper bound, with MaxValue for each card that may still come.
LEMMA UpperIsUpper ==
  ASSUME deal \in Deals, NEW view, NEW full, Contains(full, view), NEW s
  PROVE  /\ Upper(view, s) \in Nat
         /\ Future(view) \in Nat
         /\ SumAt(deal, full, s) <= Upper(view, s) + Future(view)
<1> DEFINE A == On(view.cards, s) \cap view.open
           B == On(view.cards, s) \ view.open
           R == On(full, s) \ On(view.cards, s)
           D == DOMAIN view.cards
<1>1. /\ A \in SUBSET Cards /\ B \in SUBSET Cards /\ R \in SUBSET Cards /\ A \cup B \in SUBSET Cards
      /\ A \cap B = {} /\ (A \cup B) \cap R = {} /\ (A \cup B) \cup R = On(full, s)
      /\ R \in SUBSET (Cards \ D) /\ D \in SUBSET Cards /\ Cards \ D \in SUBSET Cards
  BY ViewWithin DEF Contains
<1>2. /\ Total(deal, A \cup B) = Total(deal, A) + Total(deal, B)
      /\ Total(deal, (A \cup B) \cup R) = Total(deal, A \cup B) + Total(deal, R)
  <2> HIDE DEF A, B, R, D
  <2> QED BY <1>1, TotalSplit
<1>3. /\ Total(deal, R) <= Total(deal, Cards \ D)
      /\ Total(deal, Cards \ D) <= Cardinality(Cards \ D) * MaxValue
      /\ Total(deal, R) \in Nat
      /\ Total(deal, Cards \ D) \in Nat
      /\ Cardinality(Cards \ D) \in Nat
  <2> HIDE DEF A, B, R, D
  <2> QED BY <1>1, TotalSubset, TotalBounds, CardsFinite
<1>4. Cardinality(Cards \ D) = Cardinality(Cards) - Cardinality(D)
  <2> HIDE DEF D
  <2>1. Cards \cap D = D
    BY <1>1
  <2>2. Cardinality(Cards \ D) = Cardinality(Cards) - Cardinality(Cards \cap D)
    BY CardsFinite, FS_Difference
  <2> QED BY <2>1, <2>2, Zenon
<1>5. /\ Total(deal, A) \in Nat /\ Total(deal, B) \in Nat
      /\ Total(deal, B) <= Cardinality(B) * MaxValue /\ Cardinality(B) \in Nat
  <2> HIDE DEF A, B
  <2> QED BY <1>1, TotalBounds, CardsFinite
<1>6. Cardinality(B) * MaxValue \in Nat /\ Cardinality(Cards \ D) * MaxValue \in Nat
  <2> HIDE DEF B, D
  <2> QED BY <1>3, <1>5, Sizes
<1>7. Upper(view, s) = Total(deal, A) + Cardinality(B) * MaxValue
  BY DEF Upper
<1>8. Future(view) = Cardinality(Cards \ D) * MaxValue
  BY <1>4 DEF Future
<1>9. SumAt(deal, full, s) = (Total(deal, A) + Total(deal, B)) + Total(deal, R)
  <2> HIDE DEF A, B, R
  <2> QED BY <1>1, <1>2 DEF SumAt
<1> HIDE DEF A, B, R, D
<1> QED BY <1>3, <1>5, <1>6, <1>7, <1>8, <1>9

\* A segment never loses a card.
LEMMA CountIsLower ==
  ASSUME NEW view, NEW full, Contains(full, view), NEW s
  PROVE  /\ Count(view, s) \in Nat
         /\ Cardinality(On(full, s)) \in Nat
         /\ Count(view, s) <= Cardinality(On(full, s))
<1>1. On(view.cards, s) \in SUBSET On(full, s) /\ On(full, s) \in SUBSET Cards
  BY ViewWithin
<1>2. On(view.cards, s) \in SUBSET Cards
  BY <1>1
<1> QED BY <1>1, <1>2, CardsFinite, FS_Subset DEF Count

\* The cards of a set are its black and its white ones.
LEMMA ColorsCount ==
  ASSUME deal \in Deals, NEW S \in SUBSET Cards
  PROVE  /\ \A color : /\ OfColor(deal, S, color) \in SUBSET S
                       /\ Cardinality(OfColor(deal, S, color)) \in Nat
                       /\ Cardinality(OfColor(deal, S, color)) <= Cardinality(S)
         /\ Cardinality(S) = Cardinality(OfColor(deal, S, "black"))
                               + Cardinality(OfColor(deal, S, "white"))
<1>1. \A color : OfColor(deal, S, color) \in SUBSET S
  BY DEF OfColor
<1>2. IsFiniteSet(S) /\ Cardinality(S) \in Nat
  BY CardsFinite
<1>3. \A color : /\ IsFiniteSet(OfColor(deal, S, color))
                 /\ Cardinality(OfColor(deal, S, color)) \in Nat
                 /\ Cardinality(OfColor(deal, S, color)) <= Cardinality(S)
  BY <1>1, <1>2, FS_Subset, FS_CardinalityType
<1> DEFINE K == OfColor(deal, S, "black")
           W == OfColor(deal, S, "white")
<1>4. K \cup W = S /\ K \cap W = {}
  BY WorthType DEF OfColor, Colors
<1>5. Cardinality(K \cap W) = 0
  BY <1>4, FS_EmptySet
<1>6. Cardinality(K \cup W) = Cardinality(K) + Cardinality(W) - Cardinality(K \cap W)
  BY <1>3, FS_Union
<1>7. Cardinality(S) = Cardinality(K) + Cardinality(W) - 0
  BY <1>4, <1>5, <1>6, Zenon
<1>8. Cardinality(K) \in Nat /\ Cardinality(W) \in Nat
  BY <1>3
<1>9. Cardinality(S) = Cardinality(K) + Cardinality(W)
  <2> HIDE DEF K, W
  <2> QED BY <1>7, <1>8
<1> QED BY <1>1, <1>3, <1>9

\* Nor does it lose one of a colour.
LEMMA SeenIsLower ==
  ASSUME deal \in Deals, NEW view, NEW full, Contains(full, view), NEW s, NEW color
  PROVE  /\ Seen(view, s, color) \in Nat
         /\ Cardinality(OfColor(deal, On(full, s), color)) \in Nat
         /\ Seen(view, s, color) <= Cardinality(OfColor(deal, On(full, s), color))
<1> DEFINE A == OfColor(deal, On(view.cards, s) \cap view.hued, color)
           F == OfColor(deal, On(full, s), color)
<1>1. On(view.cards, s) \in SUBSET On(full, s) /\ On(full, s) \in SUBSET Cards
  BY ViewWithin
<1>2. A \in SUBSET F /\ F \in SUBSET Cards /\ A \in SUBSET Cards
  BY <1>1 DEF OfColor
<1>3. IsFiniteSet(F) /\ Cardinality(A) \in Nat /\ Cardinality(F) \in Nat /\ Cardinality(A) <= Cardinality(F)
  <2> HIDE DEF A, F
  <2> QED BY <1>2, CardsFinite, FS_Subset
<1> QED BY <1>3 DEF Seen

-----------------------------------------------------------------------------
(* A condition that refutes a move fails on every placement that contains it *)

\* Cards that are as many as their values have no value twice.
LEMMA DistinctValues ==
  ASSUME deal \in Deals, NEW S \in SUBSET Cards,
         Cardinality(Values(deal, S)) = Cardinality(S),
         NEW c1 \in S, NEW c2 \in S, deal[c1].value = deal[c2].value
  PROVE  c1 = c2
<1> DEFINE f == [c \in S |-> deal[c].value]
           T == Values(deal, S)
<1>1. f \in Surjection(S, T)
  BY DEF Surjection, Values
<1>2. IsFiniteSet(S)
  BY CardsFinite
<1>3. f \in Injection(S, T)
  <2> HIDE DEF f, T
  <2>1. Cardinality(S) = Cardinality(T)
    BY DEF T
  <2> QED BY <1>1, <1>2, <2>1, FS_SurjSameCardinalityImpliesInj
<1>4. f[c1] = f[c2]
  OBVIOUS
<1> QED BY <1>3, <1>4 DEF Injection, IsInjective

\* What pruning a move by one condition rests on: no placement of all cards
\* that contains the table after the move fulfils it.
LEMMA Refuted ==
  ASSUME deal \in Deals, NEW q \in Condition, q.type # "placement-order",
         NEW view, NEW full, Contains(full, view),
         NEW s \in Segments, NEW c \in DOMAIN view.cards, view.cards[c] = s,
         Refutes(q, view, c, s)
  PROVE  ~CardsHold(q, deal, full)
<1> SUFFICES ASSUME CardsHold(q, deal, full) PROVE FALSE
  OBVIOUS
<1>1. /\ \A t : /\ Lower(view, t) \in Nat
                /\ Lower(view, t) <= SumAt(deal, full, t)
                /\ SumAt(deal, full, t) \in Nat
                /\ Upper(view, t) \in Nat
                /\ SumAt(deal, full, t) <= Upper(view, t) + Future(view)
                /\ Count(view, t) \in Nat
                /\ Cardinality(On(full, t)) \in Nat
                /\ Count(view, t) <= Cardinality(On(full, t))
      /\ Future(view) \in Nat
  BY LowerIsLower, UpperIsUpper, CountIsLower
<1>2. \A t, color : /\ Seen(view, t, color) \in Nat
                    /\ Cardinality(OfColor(deal, On(full, t), color)) \in Nat
                    /\ Seen(view, t, color) <= Cardinality(OfColor(deal, On(full, t), color))
  BY SeenIsLower
<1>3. c \in Cards /\ c \in On(full, s) /\ On(full, s) \in SUBSET Cards /\ deal[c].value \in Nat
  <2>1. c \in Cards /\ full[c] = s /\ DOMAIN full = Cards
    BY DEF Contains
  <2>2. deal[c].value \in 1..MaxValue
    BY <2>1, WorthType
  <2> QED BY <2>1, <2>2, Sizes DEF On
<1>4. CASE q.type \in {"max-cards", "exact-cards"}
  <2>1. q.segment = s /\ Count(view, s) > q.count /\ q.count \in Nat
    BY <1>4, Fields DEF Refutes
  <2>2. Cardinality(On(full, s)) <= q.count
    <3>1. q.type = "max-cards" => Cardinality(On(full, s)) <= q.count
      BY <2>1 DEF CardsHold
    <3>2. q.type = "exact-cards" => Cardinality(On(full, s)) = q.count
      BY <2>1 DEF CardsHold
    <3> QED BY <1>4, <2>1, <3>1, <3>2
  <2> QED BY <1>1, <2>1, <2>2
<1>5. CASE q.type = "max-sum-each"
  <2>1. PICK t \in Segments : Lower(view, t) > q.value
    BY <1>5 DEF Refutes
  <2>2. q.value \in Nat
    BY <1>5, Fields
  <2>3. SumAt(deal, full, t) <= q.value
    BY <1>5 DEF CardsHold
  <2> QED BY <1>1, <2>1, <2>2, <2>3
<1>6. CASE q.type \in {"sum-equals", "sum-range"}
  <2>1. q.type = "sum-equals" => /\ Lower(view, q.segment) > q.value /\ q.value \in Nat
                                 /\ SumAt(deal, full, q.segment) = q.value
    BY Fields DEF Refutes, CardsHold
  <2>2. q.type = "sum-range" => /\ Lower(view, q.segment) > q.max /\ q.max \in Nat /\ q.min \in Nat
                                /\ SumAt(deal, full, q.segment) \in q.min..q.max
    BY Fields DEF Refutes, CardsHold
  <2> QED BY <1>1, <1>6, <2>1, <2>2
<1>7. CASE q.type = "non-decreasing"
  <2>1. PICK i \in 1..(Len(q.segments) - 1) :
          Lower(view, q.segments[i]) > Upper(view, q.segments[i + 1]) + Future(view)
    BY <1>7 DEF Refutes, Future
  <2>2. SumAt(deal, full, q.segments[i]) <= SumAt(deal, full, q.segments[i + 1])
    BY <1>7 DEF CardsHold
  <2> QED BY <1>1, <2>1, <2>2
<1>8. CASE q.type = "non-increasing"
  <2>1. PICK i \in 1..(Len(q.segments) - 1) :
          Upper(view, q.segments[i]) + Future(view) < Lower(view, q.segments[i + 1])
    BY <1>8 DEF Refutes, Future
  <2>2. SumAt(deal, full, q.segments[i]) >= SumAt(deal, full, q.segments[i + 1])
    BY <1>8 DEF CardsHold
  <2> QED BY <1>1, <2>1, <2>2
<1>9. CASE q.type = "segment-colors"
  <2>1. /\ q.segment = s /\ q.black \in Nat /\ q.white \in Nat
        /\ \/ Seen(view, s, "black") > q.black
           \/ Seen(view, s, "white") > q.white
           \/ Count(view, s) > q.black + q.white
    BY <1>9, Fields DEF Refutes
  <2>2. /\ Cardinality(OfColor(deal, On(full, s), "black")) = q.black
        /\ Cardinality(OfColor(deal, On(full, s), "white")) = q.white
    BY <1>9, <2>1 DEF CardsHold
  <2>3. Cardinality(On(full, s)) = q.black + q.white
    BY <1>3, <2>2, ColorsCount
  <2> QED BY <1>1, <1>2, <2>1, <2>2, <2>3
<1>10. CASE q.type = "max-color-cards"
  <2>1. q.segment = s /\ q.count \in Nat /\ Seen(view, s, q.color) > q.count
    BY <1>10, Fields DEF Refutes
  <2>2. Cardinality(OfColor(deal, On(full, s), q.color)) <= q.count
    BY <1>10, <2>1 DEF CardsHold
  <2> QED BY <1>2, <2>1, <2>2
<1>11. CASE q.type = "forbidden-values"
  <2>1. q.segment = s /\ deal[c].value \in q.values
    BY <1>11 DEF Refutes
  <2>2. Values(deal, On(full, s)) \cap q.values = {}
    BY <1>11, <2>1 DEF CardsHold
  <2> QED BY <1>3, <2>1, <2>2 DEF Values
<1>12. CASE q.type = "all-distinct"
  <2>1. /\ q.segment = s
        /\ \E d \in (On(view.cards, s) \cap view.open) \ {c} : deal[d].value = deal[c].value
    BY <1>12 DEF Refutes
  <2>2. PICK d \in (On(view.cards, s) \cap view.open) \ {c} : deal[d].value = deal[c].value
    BY <2>1
  <2>3. Cardinality(Values(deal, On(full, s))) = Cardinality(On(full, s))
    BY <1>12, <2>1 DEF CardsHold
  <2>4. d \in On(full, s)
    BY ViewWithin
  <2> QED BY <1>3, <2>2, <2>3, <2>4, DistinctValues
<1>13. q.type \in {"max-cards", "exact-cards", "max-sum-each", "sum-equals", "sum-range",
                   "non-decreasing", "non-increasing", "segment-colors", "max-color-cards",
                   "forbidden-values", "all-distinct"}
  BY DEF Refutes
<1> QED BY <1>4, <1>5, <1>6, <1>7, <1>8, <1>9, <1>10, <1>11, <1>12, <1>13

-----------------------------------------------------------------------------
(* Levels as they are loaded; the cards a segment still has to get *)

\* A level as it is loaded.
IsLevel(l) == /\ IsFiniteSet(l)
              /\ l \subseteq Condition
              /\ FullNonDecreasing \in l
              /\ [type |-> "all-nonempty"] \in l
              /\ \A q \in l : q.type = "max-sum-each" => q.value = CenterCap

\* loadLevels gives every level the permanent rules.
LEMMA LoadedIsLevel ==
  ASSUME NEW l \in Levels
  PROVE  IsLevel(Loaded(l))
<1> DEFINE a == [type |-> "all-nonempty"]
           m == [type |-> "max-sum-each", value |-> CenterCap]
<1>1. PICK stated : stated = l.conditions
  OBVIOUS
<1>2. /\ IsFiniteSet(stated) /\ stated \subseteq Condition
      /\ \A q \in stated : q.type = "max-sum-each" => q.value = CenterCap
  BY <1>1, RulesAssumption
<1>3. PICK two : two = (stated \cup {FullNonDecreasing}) \cup {a}
  OBVIOUS
<1>4. Loaded(l) = two \/ Loaded(l) = two \cup {m}
  BY <1>1, <1>3 DEF Loaded
<1>5. IsFiniteSet(two) /\ IsFiniteSet(two \cup {m})
  <2>1. IsFiniteSet(stated \cup {FullNonDecreasing})
    BY <1>2, FS_AddElement
  <2> HIDE DEF a, m
  <2>2. IsFiniteSet(two)
    BY <1>3, <2>1, FS_AddElement
  <2> QED BY <2>2, FS_AddElement
<1>6. FullNonDecreasing \in Condition
  <2>1. [i \in 1..(LastSegment + 1) |-> i - 1] \in Seq(Segments)
    <3> DEFINE sg == [i \in 1..(LastSegment + 1) |-> i - 1]
    <3>1. sg \in [1..(LastSegment + 1) -> Segments]
      BY Sizes DEF Segments
    <3>2. LastSegment + 1 \in Nat
      BY Sizes
    <3> QED BY <3>1, <3>2, SeqDef
  <2> QED BY <2>1 DEF FullNonDecreasing, Condition
<1>7. a \in Condition /\ m \in Condition
  BY Sizes DEF Condition
<1>8. FullNonDecreasing.type = "non-decreasing" /\ a.type = "all-nonempty" /\ m.value = CenterCap
  BY DEF FullNonDecreasing
<1>9. Loaded(l) \subseteq Condition
  <2> HIDE DEF a, m
  <2> QED BY <1>2, <1>3, <1>4, <1>6, <1>7
<1>10. \A q \in Loaded(l) : q.type = "max-sum-each" => q.value = CenterCap
  <2> HIDE DEF a, m
  <2> QED BY <1>2, <1>3, <1>4, <1>8
<1>11. IsFiniteSet(Loaded(l)) /\ FullNonDecreasing \in Loaded(l) /\ a \in Loaded(l)
  <2> HIDE DEF a, m
  <2> QED BY <1>3, <1>4, <1>5
<1> QED BY <1>9, <1>10, <1>11 DEF IsLevel

\* The conditions of the level hold on the finished clock, the playing orders aside.
Fulfils(full) == \A q \in level \ Ordered(level) : CardsHold(q, deal, full)

\* The cards that a segment still gets.
Coming(view, full, s) == On(full, s) \ On(view.cards, s)

\* The cards still to come are those there in the end less those there now.
LEMMA ComingCount ==
  ASSUME NEW view, NEW full, Contains(full, view), NEW s
  PROVE  /\ Coming(view, full, s) \in SUBSET (Cards \ DOMAIN view.cards)
         /\ IsFiniteSet(Coming(view, full, s))
         /\ Cardinality(Coming(view, full, s)) \in Nat
         /\ Cardinality(Coming(view, full, s)) = Cardinality(On(full, s)) - Count(view, s)
<1>1. /\ On(view.cards, s) \in SUBSET On(full, s)
      /\ On(full, s) \in SUBSET Cards
      /\ Coming(view, full, s) \in SUBSET (Cards \ DOMAIN view.cards)
  BY ViewWithin DEF Coming
<1>2. Coming(view, full, s) \in SUBSET Cards
  BY <1>1
<1>3. IsFiniteSet(On(full, s)) /\ On(full, s) \cap On(view.cards, s) = On(view.cards, s)
  BY <1>1, CardsFinite
<1>4. Cardinality(On(full, s) \ On(view.cards, s))
        = Cardinality(On(full, s)) - Cardinality(On(full, s) \cap On(view.cards, s))
  BY <1>3, FS_Difference
<1>5. Cardinality(Coming(view, full, s)) = Cardinality(On(full, s)) - Count(view, s)
  BY <1>3, <1>4, Zenon DEF Coming, Count
<1> QED BY <1>1, <1>2, <1>5, CardsFinite

\* What a segment still has to get, it gets.
LEMMA DeficitComes ==
  ASSUME deal \in Deals, IsLevel(level),
         NEW view, NEW full, Contains(full, view), Fulfils(full), NEW s \in Segments
  PROVE  /\ Deficit(view, s) \in Nat
         /\ Deficit(view, s) <= Cardinality(Coming(view, full, s))
<1> DEFINE n == Cardinality(On(full, s))
           counts == {q.count : q \in {r \in level :
                   r.type \in {"min-cards", "exact-cards", "min-color-cards"} /\ r.segment = s}}
           pairs == {q.black + q.white : q \in {r \in level :
                   r.type = "segment-colors" /\ r.segment = s}}
           wanted == counts \cup pairs \cup {1}
           missing == Max(wanted) - Count(view, s)
<1>1. /\ n \in Nat /\ Count(view, s) \in Nat /\ Count(view, s) <= n
      /\ On(full, s) \in SUBSET Cards
  BY CountIsLower, ViewWithin
<1>2. ASSUME NEW q \in level,
             q.type \in {"min-cards", "exact-cards", "min-color-cards"}, q.segment = s
      PROVE  q.count \in Nat /\ q.count <= n
  <2>1. q \in Condition /\ q \in level \ Ordered(level)
    BY <1>2 DEF IsLevel, Ordered
  <2>2. CardsHold(q, deal, full) /\ q.count \in Nat
    BY <1>2, <2>1, Fields DEF Fulfils
  <2>3. q.type = "min-cards" => n >= q.count
    BY <1>2, <2>2 DEF CardsHold
  <2>4. q.type = "exact-cards" => n = q.count
    BY <1>2, <2>2 DEF CardsHold
  <2>5. q.type = "min-color-cards" => Cardinality(OfColor(deal, On(full, s), q.color)) >= q.count
    BY <1>2, <2>2 DEF CardsHold
  <2>6. /\ Cardinality(OfColor(deal, On(full, s), q.color)) \in Nat
        /\ Cardinality(OfColor(deal, On(full, s), q.color)) <= n
    BY <1>1, ColorsCount
  <2> HIDE DEF n
  <2> QED BY <1>1, <1>2, <2>2, <2>3, <2>4, <2>5, <2>6
<1>3. ASSUME NEW q \in level, q.type = "segment-colors", q.segment = s
      PROVE  q.black + q.white \in Nat /\ q.black + q.white <= n
  <2>1. q \in Condition /\ q \in level \ Ordered(level)
    BY <1>3 DEF IsLevel, Ordered
  <2>2. CardsHold(q, deal, full) /\ q.black \in Nat /\ q.white \in Nat
    BY <1>3, <2>1, Fields DEF Fulfils
  <2>3. /\ Cardinality(OfColor(deal, On(full, s), "black")) = q.black
        /\ Cardinality(OfColor(deal, On(full, s), "white")) = q.white
    BY <1>3, <2>2 DEF CardsHold
  <2>4. n = q.black + q.white
    BY <1>1, <2>3, ColorsCount
  <2> QED BY <2>2, <2>4
<1>4. n >= 1
  <2> DEFINE a == [type |-> "all-nonempty"]
  <2>1. a \in level \ Ordered(level) /\ a.type = "all-nonempty"
    BY DEF IsLevel, Ordered
  <2>2. CardsHold(a, deal, full)
    BY <2>1 DEF Fulfils
  <2>3. On(full, s) # {}
    <3> HIDE DEF a
    <3> QED BY <2>1, <2>2 DEF CardsHold
  <2>4. n # 0
    BY <1>1, <2>3, CardsFinite, FS_EmptySet
  <2> QED BY <1>1, <2>4
<1>5. wanted \in SUBSET Nat /\ wanted # {} /\ \A w \in wanted : w <= n
  <2>1. counts \in SUBSET Nat /\ \A w \in counts : w <= n
    <3> HIDE DEF n
    <3> QED BY <1>2
  <2>2. pairs \in SUBSET Nat /\ \A w \in pairs : w <= n
    <3> HIDE DEF n
    <3> QED BY <1>3
  <2> HIDE DEF n, counts, pairs
  <2> QED BY <1>4, <2>1, <2>2
<1>6. Max(wanted) \in Nat /\ Max(wanted) <= n
  <2> HIDE DEF wanted, n
  <2>1. \E m \in wanted : \A w \in wanted : m >= w
    BY <1>1, <1>5, GreatestExists
  <2>2. Max(wanted) \in wanted
    BY <2>1 DEF Max
  <2> QED BY <1>5, <2>2
<1>7. missing \in Int /\ missing <= n - Count(view, s)
  <2> HIDE DEF wanted, n
  <2> QED BY <1>1, <1>6
<1>8. \E m \in {0, missing} : \A w \in {0, missing} : m >= w
  <2> HIDE DEF missing
  <2>1. CASE missing >= 0
    BY <1>7, <2>1
  <2>2. CASE missing < 0
    BY <1>7, <2>2
  <2> QED BY <1>7, <2>1, <2>2
<1>9. Max({0, missing}) \in {0, missing} /\ Max({0, missing}) >= 0
  <2> HIDE DEF missing
  <2> QED BY <1>8 DEF Max
<1>10. Deficit(view, s) = Max({0, missing})
  BY DEF Deficit
<1>11. Cardinality(Coming(view, full, s)) = n - Count(view, s)
  BY ComingCount
<1> HIDE DEF n, missing
<1> QED BY <1>1, <1>7, <1>9, <1>10, <1>11

DeficitSum(view) == MapThenSumSet(LAMBDA t : Deficit(view, t), Segments)

\* The sum of the deficits over the segments, as the number of dots.
LEMMA DeficitSumIsDots ==
  ASSUME NEW view, NEW w \in [Segments -> Nat], \A s \in Segments : w[s] = Deficit(view, s)
  PROVE  DeficitSum(view) = Cardinality(Dots(w, Segments))
<1> DEFINE Adds(sum) == sum = [s \in SUBSET Segments |-> IF s = {} THEN 0
              ELSE Deficit(view, CHOOSE x \in s : TRUE) + sum[s \ {CHOOSE x \in s : TRUE}]]
<1>1. \A s \in SUBSET Segments :
        s # {} => w[CHOOSE x \in s : TRUE] = Deficit(view, CHOOSE x \in s : TRUE)
  <2> SUFFICES ASSUME NEW s \in SUBSET Segments, s # {}
               PROVE  w[CHOOSE x \in s : TRUE] = Deficit(view, CHOOSE x \in s : TRUE)
    OBVIOUS
  <2>1. (CHOOSE x \in s : TRUE) \in Segments
    OBVIOUS
  <2> QED BY <2>1
<1>2. ASSUME NEW sum PROVE AddsUp(sum, w, Segments) <=> Adds(sum)
  <2>1. [s \in SUBSET Segments |-> IF s = {} THEN 0
            ELSE w[CHOOSE x \in s : TRUE] + sum[s \ {CHOOSE x \in s : TRUE}]]
      = [s \in SUBSET Segments |-> IF s = {} THEN 0
            ELSE Deficit(view, CHOOSE x \in s : TRUE) + sum[s \ {CHOOSE x \in s : TRUE}]]
    BY <1>1
  <2> QED BY <2>1, Zenon DEF AddsUp
<1>3. \E sum : AddsUp(sum, w, Segments)
  BY CardsFinite, SumExists
<1>4. PICK sum : sum = (CHOOSE f : Adds(f)) /\ AddsUp(sum, w, Segments)
  <2> HIDE DEF Adds
  <2> QED BY <1>2, <1>3
<1>5. DeficitSum(view) = (CHOOSE f : Adds(f))[Segments]
  BY DEF DeficitSum, MapThenSumSet, MapThenFoldSet
<1>6. sum[Segments] = Cardinality(Dots(w, Segments))
  BY <1>4, CardsFinite, SumIsDots
<1> HIDE DEF Adds
<1> QED BY <1>4, <1>5, <1>6, Zenon

\* Together the segments cannot get more than there is.
LEMMA DeficitsFit ==
  ASSUME deal \in Deals, IsLevel(level), NEW view, NEW full, Contains(full, view), Fulfils(full)
  PROVE  ~(DeficitSum(view) > Cardinality(Cards) - Cardinality(DOMAIN view.cards))
<1> DEFINE w == [s \in Segments |-> Deficit(view, s)]
           left == Cards \ DOMAIN view.cards
           C(s) == Coming(view, full, s)
           pick == [s \in Segments |-> CHOOSE g : g \in Bijection(1..Cardinality(C(s)), C(s))]
           f == [p \in Dots(w, Segments) |-> pick[p[1]][p[2]]]
<1>1. w \in [Segments -> Nat] /\ \A s \in Segments : w[s] = Deficit(view, s)
  BY DeficitComes
<1>2. \A s \in Segments : /\ C(s) \in SUBSET left
                          /\ Cardinality(C(s)) \in Nat
                          /\ w[s] <= Cardinality(C(s))
                          /\ \A c \in C(s) : full[c] = s
                          /\ pick[s] \in Bijection(1..Cardinality(C(s)), C(s))
  <2> TAKE s \in Segments
  <2>1. ExistsBijection(1..Cardinality(C(s)), C(s))
    BY ComingCount, FS_CardinalityType
  <2>2. pick[s] \in Bijection(1..Cardinality(C(s)), C(s))
    BY <2>1 DEF ExistsBijection
  <2>3. \A c \in C(s) : full[c] = s
    BY DEF Coming, On
  <2> HIDE DEF pick
  <2> QED BY <2>2, <2>3, ComingCount, DeficitComes
<1>3. \A p \in Dots(w, Segments) :
         /\ p[1] \in Segments /\ p[2] \in 1..w[p[1]] /\ p[2] \in 1..Cardinality(C(p[1]))
         /\ p = <<p[1], p[2]>>
         /\ f[p] \in C(p[1])
         /\ f[p] = pick[p[1]][p[2]]
  <2> TAKE p \in Dots(w, Segments)
  <2>1. PICK s \in Segments : \E n \in 1..w[s] : p = <<s, n>>
    <3> HIDE DEF w
    <3> QED BY <1>1, DotsOf
  <2>2. PICK n \in 1..w[s] : p = <<s, n>>
    BY <2>1
  <2>3. w[s] \in Nat /\ w[s] <= Cardinality(C(s)) /\ Cardinality(C(s)) \in Nat
    <3> HIDE DEF w, C
    <3> QED BY <1>1, <1>2
  <2>4. n \in 1..Cardinality(C(s))
    BY <2>3
  <2>5. pick[s][n] \in C(s)
    <3> HIDE DEF pick, C
    <3> QED BY <1>2, <2>4 DEF Bijection, Injection
  <2>6. f[p] = pick[p[1]][p[2]]
    <3> HIDE DEF pick
    <3> QED OBVIOUS
  <2> HIDE DEF f, pick, C, w
  <2> QED BY <2>2, <2>4, <2>5, <2>6
<1>4. f \in Injection(Dots(w, Segments), left)
  <2>1. f \in [Dots(w, Segments) -> left]
    <3>1. \A p \in Dots(w, Segments) : f[p] \in left
      <4> HIDE DEF f, pick, C, w, left
      <4> QED BY <1>2, <1>3
    <3> HIDE DEF left, w, pick
    <3> QED BY <3>1
  <2>2. ASSUME NEW p \in Dots(w, Segments), NEW r \in Dots(w, Segments), f[p] = f[r]
        PROVE  p = r
    <3> HIDE DEF f, pick, C, w, left
    <3>1. p[1] = full[f[p]] /\ r[1] = full[f[r]]
      BY <1>2, <1>3
    <3>2. p[1] = r[1]
      BY <2>2, <3>1
    <3>3. PICK s \in Segments : s = p[1]
      BY <1>3
    <3>4. /\ pick[s] \in Bijection(1..Cardinality(C(s)), C(s))
          /\ p[2] \in 1..Cardinality(C(s)) /\ r[2] \in 1..Cardinality(C(s))
          /\ pick[s][p[2]] = pick[s][r[2]]
      BY <1>2, <1>3, <2>2, <3>2, <3>3
    <3>5. p[2] = r[2]
      BY <3>4 DEF Bijection, Injection, IsInjective
    <3> QED BY <1>3, <3>2, <3>5
  <2> HIDE DEF f, left, w
  <2> QED BY <2>1, <2>2 DEF Injection, IsInjective
<1>5. IsFiniteSet(left) /\ Cardinality(left) \in Nat
  BY CardsFinite
<1>6. Cardinality(Dots(w, Segments)) <= Cardinality(left)
  <2> HIDE DEF f, left, w
  <2> QED BY <1>4, <1>5, FS_Injection
<1>7. Cardinality(left) = Cardinality(Cards) - Cardinality(DOMAIN view.cards)
  <2>1. Cards \cap DOMAIN view.cards = DOMAIN view.cards
    BY DEF Contains
  <2>2. Cardinality(Cards \ DOMAIN view.cards)
          = Cardinality(Cards) - Cardinality(Cards \cap DOMAIN view.cards)
    BY CardsFinite, FS_Difference
  <2> QED BY <2>1, <2>2, Zenon
<1>8. DeficitSum(view) = Cardinality(Dots(w, Segments))
  <2> HIDE DEF w
  <2> QED BY <1>1, DeficitSumIsDots
<1>9. Cardinality(Dots(w, Segments)) \in Nat
  <2> HIDE DEF w
  <2> QED BY <1>1, CardsFinite, DotsFinite
<1> HIDE DEF w, left
<1> QED BY <1>5, <1>6, <1>7, <1>8, <1>9

-----------------------------------------------------------------------------
(* Plays and the placements they make *)

Play == [card : Cards, segment : Segments]

\* A single card in segment s.
Laid(c, s) == [d \in {c} |-> s]

\* The plays with one more card laid down.
Lays(plays, c, s, after) == after = Append(plays, [card |-> c, segment |-> s])

\* Plays that no card is in twice.
Legal(plays) == /\ plays \in Seq(Play)
                /\ \A i, j \in DOMAIN plays : plays[i].card = plays[j].card => i = j

\* A play without a card twice makes a placement of its cards, each where it
\* was played.
LEMMA PlacementFacts ==
  ASSUME NEW plays, Legal(plays)
  PROVE  /\ DOMAIN Placement(plays) = {plays[i].card : i \in DOMAIN plays}
         /\ DOMAIN Placement(plays) \in SUBSET Cards
         /\ Placement(plays) \in [DOMAIN Placement(plays) -> Segments]
         /\ \A i \in DOMAIN plays : Placement(plays)[plays[i].card] = plays[i].segment
         /\ Len(plays) \in Nat /\ DOMAIN plays = 1..Len(plays)
         /\ Cardinality(DOMAIN Placement(plays)) = Len(plays)
<1> DEFINE D == {plays[i].card : i \in DOMAIN plays}
<1>1. /\ plays \in Seq(Play) /\ Len(plays) \in Nat /\ DOMAIN plays = 1..Len(plays)
      /\ \A i \in DOMAIN plays : plays[i] \in Play
  BY ElementOfSeq, LenProperties DEF Legal
<1>2. \A i \in DOMAIN plays : plays[i].card \in Cards /\ plays[i].segment \in Segments
  BY <1>1 DEF Play
<1>3. \A i \in DOMAIN plays : (CHOOSE j \in DOMAIN plays : plays[j].card = plays[i].card) = i
  BY DEF Legal
<1>4. \A i \in DOMAIN plays : Placement(plays)[plays[i].card] = plays[i].segment
  <2> TAKE i \in DOMAIN plays
  <2>1. plays[i].card \in D
    OBVIOUS
  <2>2. Placement(plays)[plays[i].card]
          = plays[CHOOSE j \in DOMAIN plays : plays[j].card = plays[i].card].segment
    BY <2>1 DEF Placement
  <2> QED BY <1>3, <2>2
<1>5. DOMAIN Placement(plays) = D
  BY DEF Placement
<1>6. \A c \in D : Placement(plays)[c] \in Segments
  BY <1>2, <1>4
<1>7. Placement(plays) \in [D -> Segments]
  BY <1>5, <1>6 DEF Placement
<1>8. Cardinality(D) = Len(plays)
  <2> DEFINE f == [i \in 1..Len(plays) |-> plays[i].card]
  <2>1. f \in Bijection(1..Len(plays), D)
    BY <1>1 DEF Legal, Bijection, Injection, Surjection, IsInjective
  <2>2. ExistsBijection(1..Len(plays), D)
    BY <2>1 DEF ExistsBijection
  <2> QED BY <1>1, <2>2, FS_CountingElements
<1> QED BY <1>1, <1>2, <1>4, <1>5, <1>7, <1>8

\* Its cards.
LEMMA PlacementDomain ==
  ASSUME NEW plays, Legal(plays)
  PROVE  DOMAIN Placement(plays) = {plays[i].card : i \in DOMAIN plays}
BY DEF Placement

\* Where each of them lies.
LEMMA PlacementAt ==
  ASSUME NEW plays, Legal(plays), NEW i \in DOMAIN plays
  PROVE  /\ plays[i].card \in DOMAIN Placement(plays)
         /\ Placement(plays)[plays[i].card] = plays[i].segment
<1>1. DOMAIN Placement(plays) = {plays[j].card : j \in DOMAIN plays}
  BY PlacementDomain
<1>2. plays[i].card \in {plays[j].card : j \in DOMAIN plays}
  OBVIOUS
<1>3. \A j \in DOMAIN plays : Placement(plays)[plays[j].card] = plays[j].segment
  BY PlacementFacts
<1> QED BY <1>1, <1>2, <1>3, Zenon

\* The placement of a play is a function.
LEMMA PlacementIsFunction ==
  ASSUME NEW plays
  PROVE  Placement(plays) = [c \in DOMAIN Placement(plays) |-> Placement(plays)[c]]
<1> DEFINE D == {plays[i].card : i \in DOMAIN plays}
           v(c) == plays[CHOOSE i \in DOMAIN plays : plays[i].card = c].segment
<1>1. Placement(plays) = [c \in D |-> v(c)]
  BY DEF Placement
<1> HIDE DEF D, v
<1> QED BY <1>1

\* One play more.
Longer(plays, after, x) ==
  /\ after \in Seq(Play)
  /\ Len(after) = Len(plays) + 1
  /\ DOMAIN after = 1..(Len(plays) + 1)
  /\ \A i \in DOMAIN plays : after[i] = plays[i]
  /\ after[Len(plays) + 1] = x

\* One more play adds one card.
LEMMA PlacementLonger ==
  ASSUME NEW plays, Legal(plays), NEW after, NEW x, Longer(plays, after, x), x \in Play,
         NEW c, NEW s, x.card = c, x.segment = s, c \notin DOMAIN Placement(plays)
  PROVE  /\ Legal(after)
         /\ Len(after) = Len(plays) + 1
         /\ after[Len(plays) + 1].card = c
         /\ Placement(after) = Joined(Placement(plays), Laid(c, s))
<1> DEFINE P == Placement(plays)
           J == Joined(P, Laid(c, s))
<1>1. x \in Play /\ plays \in Seq(Play) /\ x.card = c /\ x.segment = s
  BY DEF Legal
<1>2. Len(plays) \in Nat /\ DOMAIN plays = 1..Len(plays)
  BY PlacementFacts
<1>3. /\ after \in Seq(Play)
      /\ Len(after) = Len(plays) + 1
      /\ DOMAIN after = 1..(Len(plays) + 1)
      /\ \A i \in DOMAIN plays : after[i] = plays[i]
      /\ after[Len(plays) + 1] = x
  BY DEF Longer
<1>4. \A i \in DOMAIN plays : plays[i].card # c
  BY PlacementAt
<1>5. ASSUME NEW i \in DOMAIN after, NEW j \in DOMAIN after, after[i].card = after[j].card
      PROVE  i = j
  <2>1. i \in DOMAIN plays \/ i = Len(plays) + 1
    BY <1>2, <1>3
  <2>2. j \in DOMAIN plays \/ j = Len(plays) + 1
    BY <1>2, <1>3
  <2>3. after[Len(plays) + 1].card = c
    BY <1>1, <1>3
  <2> QED BY <1>3, <1>4, <1>5, <2>1, <2>2, <2>3 DEF Legal
<1>6. Legal(after)
  <2> QED BY <1>3, <1>5 DEF Legal
<1>7. DOMAIN Placement(after) = DOMAIN P \cup {c}
  <2>1. DOMAIN Placement(after) = {after[i].card : i \in DOMAIN after}
    BY <1>6, PlacementDomain
  <2>2. DOMAIN P = {plays[i].card : i \in DOMAIN plays}
    BY PlacementDomain
  <2>3. DOMAIN after = DOMAIN plays \cup {Len(plays) + 1}
    BY <1>2, <1>3
  <2> HIDE DEF P
  <2> QED BY <1>1, <1>3, <2>1, <2>2, <2>3
<1>8. DOMAIN J = DOMAIN P \cup {c} /\ J = [d \in DOMAIN P \cup {c} |-> IF d \in DOMAIN P THEN P[d] ELSE s]
  <2> HIDE DEF P
  <2> QED BY DEF Joined, Laid
<1>9. ASSUME NEW d \in DOMAIN P \cup {c} PROVE Placement(after)[d] = J[d]
  <2>1. CASE d = c
    <3>1. Placement(after)[after[Len(plays) + 1].card] = after[Len(plays) + 1].segment
      <4> HIDE DEF P, J
      <4>1. Len(plays) + 1 \in DOMAIN after
        BY <1>2, <1>3
      <4> QED BY <1>6, <4>1, PlacementAt
    <3>2. Placement(after)[c] = s
            <4> QED BY <1>1, <1>3, <3>1
    <3>3. c \notin DOMAIN P
      OBVIOUS
    <3> HIDE DEF P, J
    <3> QED BY <1>8, <2>1, <3>2, <3>3
  <2>2. CASE d # c
    <3>1. PICK i \in DOMAIN plays : d = plays[i].card
      <4>1. d \in DOMAIN Placement(plays)
        BY <2>2
      <4>2. DOMAIN Placement(plays) = {plays[j].card : j \in DOMAIN plays}
        BY PlacementDomain
      <4>3. d \in {plays[j].card : j \in DOMAIN plays}
        BY <4>1, <4>2, Zenon
      <4> QED BY <4>3
    <3>2. P[d] = plays[i].segment
      BY <3>1, PlacementAt
    <3>3. i \in DOMAIN after /\ after[i] = plays[i]
      <4> QED BY <1>2, <1>3
    <3>4. Placement(after)[after[i].card] = after[i].segment
      <4> HIDE DEF P, J
      <4> QED BY <1>6, <3>3, PlacementAt
    <3> HIDE DEF P, J
    <3> QED BY <1>8, <2>2, <3>1, <3>2, <3>3, <3>4
  <2> HIDE DEF P, J
  <2> QED BY <2>1, <2>2
<1>10. Placement(after) = J
  <2>1. Placement(after) = [d \in DOMAIN Placement(after) |-> Placement(after)[d]]
    BY PlacementIsFunction
  <2>2. J = [d \in DOMAIN J |-> J[d]]
    BY DEF Joined, Laid
  <2> HIDE DEF J, P
  <2> QED BY <1>7, <1>8, <1>9, <2>1, <2>2
<1>11. after[Len(plays) + 1].card = c
  <2> QED BY <1>1, <1>3
<1> QED BY <1>3, <1>6, <1>10, <1>11

\* The same for Append.
LEMMA PlacementAppend ==
  ASSUME NEW plays, Legal(plays), NEW c, NEW s, c \in Cards, s \in Segments,
         c \notin DOMAIN Placement(plays), NEW after, Lays(plays, c, s, after)
  PROVE  /\ Legal(after)
         /\ Len(after) = Len(plays) + 1
         /\ after[Len(plays) + 1].card = c
         /\ \A i \in DOMAIN plays : after[i] = plays[i]
         /\ Placement(after) = Joined(Placement(plays), Laid(c, s))
<1>1. PICK x \in Play : x = [card |-> c, segment |-> s] /\ x.card = c /\ x.segment = s
  <2> DEFINE y == [card |-> c, segment |-> s]
  <2>1. y \in Play /\ y.card = c /\ y.segment = s /\ y = [card |-> c, segment |-> s]
    BY DEF Play
  <2> HIDE DEF y
  <2> QED BY <2>1, Zenon
<1>2. plays \in Seq(Play) /\ Len(plays) \in Nat /\ DOMAIN plays = 1..Len(plays)
  BY PlacementFacts DEF Legal
<1>3. after = Append(plays, x)
  BY <1>1 DEF Lays
<1>4. Longer(plays, after, x)
  <2>1. /\ Append(plays, x) \in Seq(Play)
        /\ Len(Append(plays, x)) = Len(plays) + 1
        /\ \A i \in 1..Len(plays) : Append(plays, x)[i] = plays[i]
        /\ Append(plays, x)[Len(plays) + 1] = x
    BY <1>2, AppendProperties
  <2>2. DOMAIN Append(plays, x) = 1..(Len(plays) + 1)
    BY <2>1, LenProperties
  <2> QED BY <1>2, <1>3, <2>1, <2>2, Zenon DEF Longer
<1>5. /\ Legal(after) /\ after[Len(plays) + 1].card = c
      /\ Placement(after) = Joined(Placement(plays), Laid(c, s))
  BY <1>1, <1>4, PlacementLonger
<1> QED BY <1>4, <1>5 DEF Longer

\* A placement joined with one of all other cards is a placement of all
\* cards.
LEMMA JoinedWhole ==
  ASSUME NEW P, DOMAIN P \in SUBSET Cards, P \in [DOMAIN P -> Segments],
         NEW rest \in [Cards \ DOMAIN P -> Segments]
  PROVE  /\ Joined(P, rest) \in [Cards -> Segments]
         /\ \A c \in DOMAIN P : Joined(P, rest)[c] = P[c]
         /\ \A c \in Cards \ DOMAIN P : Joined(P, rest)[c] = rest[c]
<1>1. DOMAIN P \cup DOMAIN rest = Cards /\ DOMAIN rest = Cards \ DOMAIN P
  OBVIOUS
<1>2. Joined(P, rest) = [c \in Cards |-> IF c \in DOMAIN P THEN P[c] ELSE rest[c]]
  BY <1>1 DEF Joined
<1> QED BY <1>1, <1>2

-----------------------------------------------------------------------------
(* The invariant, and what a pruned move loses *)

\* The parts of the state that every step keeps.
Inv ==
  /\ stage \in {"dealing", "candidate", "placing", "failed"}
  /\ IsLevel(level)
  /\ shuffles \in 0..MaxShuffles
  /\ stage = "candidate" => shuffles < MaxShuffles
  /\ deal \in Decks \cup {<< >>}
  /\ stage \in {"candidate", "placing"} => deal \in Decks
  /\ stage # "placing" => played = << >>
  /\ Legal(played)
  /\ shown \subseteq DOMAIN Table
  /\ Cardinality(shown) <= Markers

\* What the invariant says while a hand is played.
LEMMA Parts ==
  ASSUME Inv, stage = "placing"
  PROVE  /\ deal \in Deals /\ IsLevel(level) /\ Legal(played)
         /\ DOMAIN Table \in SUBSET Cards /\ Table \in [DOMAIN Table -> Segments]
         /\ shown \subseteq DOMAIN Table
BY PlacementFacts, RulesAssumption DEF Inv, Table

\* A placement of all cards that extends another, passes, and is played in order p.
Completion(placement, full, p) ==
  /\ full \in [Cards -> Segments]
  /\ \A c \in DOMAIN placement : full[c] = placement[c]
  /\ Fulfils(full)
  /\ Passes(Ordered(level), deal, full, p)

\* What a placement of all cards adds to a smaller one that it extends.
LEMMA RestOf ==
  ASSUME NEW P, DOMAIN P \in SUBSET Cards, P \in [DOMAIN P -> Segments],
         NEW full \in [Cards -> Segments], \A c \in DOMAIN P : full[c] = P[c]
  PROVE  \E rest \in [Cards \ DOMAIN P -> Segments] :
           Joined(P, rest) = full /\ \A c \in Cards \ DOMAIN P : rest[c] = full[c]
<1> DEFINE rest == [c \in Cards \ DOMAIN P |-> full[c]]
<1>1. rest \in [Cards \ DOMAIN P -> Segments]
  OBVIOUS
<1>2. \A c \in Cards \ DOMAIN P : rest[c] = full[c]
  OBVIOUS
<1> HIDE DEF rest
<1>3. /\ Joined(P, rest) \in [Cards -> Segments]
      /\ \A c \in DOMAIN P : Joined(P, rest)[c] = P[c]
      /\ \A c \in Cards \ DOMAIN P : Joined(P, rest)[c] = rest[c]
  BY <1>1, JoinedWhole
<1>4. \A c \in Cards : Joined(P, rest)[c] = full[c]
  BY <1>2, <1>3
<1>5. Joined(P, rest) = full
  BY <1>3, <1>4
<1> QED BY <1>1, <1>2, <1>5

\* Completes, in terms of the finished clock.
LEMMA CompletesIs ==
  ASSUME NEW P, DOMAIN P \in SUBSET Cards, P \in [DOMAIN P -> Segments], NEW orders
  PROVE  Completes(P, orders) <=> \E full, p : p \in orders /\ Completion(P, full, p)
<1>1. ASSUME Completes(P, orders) PROVE \E full, p : p \in orders /\ Completion(P, full, p)
  <2>1. PICK rest \in [Cards \ DOMAIN P -> Segments] :
          /\ \A q \in level \ Ordered(level) : CardsHold(q, deal, Joined(P, rest))
          /\ \E p \in orders : Passes(Ordered(level), deal, Joined(P, rest), p)
    BY <1>1 DEF Completes
  <2>2. PICK p \in orders : Passes(Ordered(level), deal, Joined(P, rest), p)
    BY <2>1
  <2>3. Completion(P, Joined(P, rest), p)
    BY <2>1, <2>2, JoinedWhole DEF Completion, Fulfils
  <2> QED BY <2>3
<1>2. ASSUME NEW full, NEW p \in orders, Completion(P, full, p) PROVE Completes(P, orders)
  <2>1. full \in [Cards -> Segments] /\ \A c \in DOMAIN P : full[c] = P[c]
    BY <1>2 DEF Completion
  <2>2. PICK rest \in [Cards \ DOMAIN P -> Segments] : Joined(P, rest) = full
    BY <2>1, RestOf
  <2> QED BY <1>2, <2>2 DEF Completes, Completion, Fulfils
<1> QED BY <1>1, <1>2

\* The table after a card of one's own, as its owner sees it.
LEMMA ViewWithIs ==
  ASSUME Inv, stage = "placing", NEW c \in Cards \ DOMAIN Table, NEW s \in Segments,
         NEW J, J = Joined(Table, Laid(c, s)),
         NEW full, full \in [Cards -> Segments], \A d \in DOMAIN J : full[d] = J[d]
  PROVE  /\ Contains(full, ViewWith(c, s))
         /\ c \in DOMAIN ViewWith(c, s).cards
         /\ ViewWith(c, s).cards[c] = s
         /\ full[c] = s
<1> DEFINE V == ViewWith(c, s)
           own == IF VisibleToOwner(c) THEN {c} ELSE {}
<1>1. V.cards = J /\ V.open = shown \cup own /\ V.hued = DOMAIN Table \cup own
  BY DEF ViewWith, View, Laid
<1>2. DOMAIN J = DOMAIN Table \cup {c}
  BY DEF Joined, Laid
<1>3. J[c] = s
  BY DEF Joined, Laid
<1>4. DOMAIN Table \in SUBSET Cards /\ shown \subseteq DOMAIN Table
  BY Parts
<1>5. own \subseteq {c}
  OBVIOUS
<1> HIDE DEF V, own
<1>7. Contains(full, V)
  BY <1>1, <1>2, <1>4, <1>5 DEF Contains
<1>8. c \in DOMAIN J
  BY <1>2
<1> QED BY <1>1, <1>3, <1>7, <1>8 DEF V

\* The plays and the table after one move more.
LEMMA AfterMove ==
  ASSUME Inv, stage = "placing", NEW c, NEW s, c \in Cards \ DOMAIN Table, s \in Segments,
         NEW after, Lays(played, c, s, after)
  PROVE  /\ Legal(after) /\ Len(after) = Len(played) + 1 /\ after[Len(played) + 1].card = c
         /\ \A i \in DOMAIN played : after[i] = played[i]
         /\ Placement(after) = Joined(Table, Laid(c, s))
<1>1. PICK plays : plays = played
  OBVIOUS
<1>2. c \in Cards \ DOMAIN Placement(played)
  BY DEF Table
<1>3. Legal(plays) /\ c \in Cards \ DOMAIN Placement(plays) /\ Lays(plays, c, s, after)
  BY <1>1, <1>2, Parts
<1>4. /\ Legal(after) /\ Len(after) = Len(plays) + 1 /\ after[Len(plays) + 1].card = c
      /\ \A i \in DOMAIN plays : after[i] = plays[i]
      /\ Placement(after) = Joined(Placement(plays), Laid(c, s))
  BY <1>3, PlacementAppend
<1> QED BY <1>1, <1>4, Zenon DEF Table

\* A move that is pruned loses, whatever follows.
LEMMA LosingMove ==
  ASSUME Inv, stage = "placing", NEW c \in Cards \ DOMAIN Table, NEW s \in Segments,
         ProvablyLosing(c, s),
         NEW after, Lays(played, c, s, after)
  PROVE  ~Completes(Placement(after), Continuing(after))
<1> DEFINE V == ViewWith(c, s)
<1>0. deal \in Deals /\ IsLevel(level) /\ Legal(played)
  BY Parts
<1>1. /\ Legal(after) /\ Len(after) = Len(played) + 1 /\ after[Len(played) + 1].card = c
      /\ Placement(after) = Joined(Table, Laid(c, s))
  BY AfterMove
<1>2. /\ DOMAIN Placement(after) \in SUBSET Cards
      /\ Placement(after) \in [DOMAIN Placement(after) -> Segments]
      /\ DOMAIN after = 1..Len(after) /\ Len(after) \in Nat
  BY <1>1, PlacementFacts
<1> SUFFICES ASSUME Completes(Placement(after), Continuing(after)) PROVE FALSE
  OBVIOUS
<1>3. PICK full, p : p \in Continuing(after) /\ Completion(Placement(after), full, p)
  BY <1>2, CompletesIs
<1>4. /\ full \in [Cards -> Segments] /\ Fulfils(full) /\ Passes(Ordered(level), deal, full, p)
      /\ \A d \in DOMAIN Placement(after) : full[d] = Placement(after)[d]
  BY <1>3 DEF Completion
<1>5. Contains(full, V) /\ c \in DOMAIN V.cards /\ V.cards[c] = s /\ full[c] = s
  <2>1. PICK J : J = Joined(Table, Laid(c, s))
    OBVIOUS
  <2>2. \A d \in DOMAIN J : full[d] = J[d]
    BY <1>1, <1>4, <2>1, Zenon
  <2>3. full \in [Cards -> Segments]
    BY <1>4
  <2>4. /\ Contains(full, ViewWith(c, s)) /\ c \in DOMAIN ViewWith(c, s).cards
        /\ ViewWith(c, s).cards[c] = s /\ full[c] = s
    BY <2>1, <2>2, <2>3, ViewWithIs
  <2> QED BY <2>4
<1>6. ~(DeficitSum(V) > Cardinality(Cards) - Cardinality(DOMAIN V.cards))
  <2> HIDE DEF V
  <2> QED BY <1>0, <1>4, <1>5, DeficitsFit
<1>7. PICK q \in level : Refutes(q, V, c, s)
  BY <1>6 DEF ProvablyLosing, DeficitSum
<1>8. q \in Condition
  BY <1>0 DEF IsLevel
<1>9. CASE q.type # "placement-order"
  <2>1. q \in level \ Ordered(level)
    BY <1>9 DEF Ordered
  <2>2. CardsHold(q, deal, full)
    BY <1>4, <2>1 DEF Fulfils
  <2>3. ~CardsHold(q, deal, full)
    <3> HIDE DEF V
    <3> QED BY <1>0, <1>5, <1>7, <1>8, <1>9, Refuted
  <2> QED BY <2>2, <2>3
<1>10. CASE q.type = "placement-order"
  <2>1. q.order = Len(played) + 1 /\ q.segment # s
    BY <1>7, <1>10 DEF Refutes
  <2>2. q \in Ordered(level)
    BY <1>10 DEF Ordered
  <2>3. full[p[q.order]] = q.segment
    BY <1>4, <1>10, <2>2 DEF Passes, Holds
  <2>4. p[Len(played) + 1] = c
    <3>1. Len(played) + 1 \in DOMAIN after
      BY <1>1, <1>2, <1>0, PlacementFacts
    <3>2. \A i \in DOMAIN after : p[i] = after[i].card
      BY <1>3 DEF Continuing
    <3> QED BY <1>1, <3>1, <3>2
  <2> QED BY <1>5, <2>1, <2>3, <2>4
<1> QED BY <1>9, <1>10

\* A condition that is reported impossible is, whatever follows.
LEMMA ImpossibleLoses ==
  ASSUME Inv, stage = "placing", NEW q \in level, Impossible(q)
  PROVE  Lost
<1> DEFINE V == PublicView
<1>0. /\ deal \in Deals /\ IsLevel(level) /\ Legal(played) /\ shown \subseteq DOMAIN Table
      /\ DOMAIN Table \in SUBSET Cards /\ Table \in [DOMAIN Table -> Segments]
  BY Parts
<1> SUFFICES ASSUME Completes(Table, Continuing(played)) PROVE FALSE
  BY DEF Lost
<1>1. PICK full, p : p \in Continuing(played) /\ Completion(Table, full, p)
  BY <1>0, CompletesIs
<1>2. /\ full \in [Cards -> Segments] /\ Fulfils(full)
      /\ \A d \in DOMAIN Table : full[d] = Table[d]
  BY <1>1 DEF Completion
<1>3. V.cards = Table /\ V.open = shown /\ V.hued = DOMAIN Table
  BY DEF PublicView, View
<1>4. Contains(full, V)
  <2> HIDE DEF V
  <2> QED BY <1>0, <1>2, <1>3 DEF Contains
<1>5. \A t : /\ Lower(V, t) \in Nat
             /\ Lower(V, t) <= SumAt(deal, full, t)
             /\ SumAt(deal, full, t) \in Nat
             /\ Count(V, t) \in Nat
             /\ Cardinality(On(full, t)) \in Nat
             /\ Count(V, t) <= Cardinality(On(full, t))
  <2> HIDE DEF V
  <2> QED BY <1>0, <1>4, LowerIsLower, CountIsLower
<1>6. \A t, color : /\ Seen(V, t, color) \in Nat
                    /\ Cardinality(OfColor(deal, On(full, t), color)) \in Nat
                    /\ Seen(V, t, color) <= Cardinality(OfColor(deal, On(full, t), color))
  <2> HIDE DEF V
  <2> QED BY <1>0, <1>4, SeenIsLower
<1>7. q \in Condition /\ (q.type # "placement-order" => CardsHold(q, deal, full))
  BY <1>0, <1>2 DEF IsLevel, Ordered, Fulfils
<1>8. CASE q.type \in {"max-cards", "exact-cards"}
  <2>1. Count(V, q.segment) > q.count /\ q.count \in Nat
    BY <1>7, <1>8, Fields DEF Impossible
  <2>2. q.type = "max-cards" => Cardinality(On(full, q.segment)) <= q.count
    BY <1>7 DEF CardsHold
  <2>3. q.type = "exact-cards" => Cardinality(On(full, q.segment)) = q.count
    BY <1>7 DEF CardsHold
  <2> HIDE DEF V
  <2> QED BY <1>5, <1>8, <2>1, <2>2, <2>3
<1>9. CASE q.type \in {"sum-equals", "sum-range"}
  <2>1. q.type = "sum-equals" => /\ Lower(V, q.segment) > q.value /\ q.value \in Nat
                                 /\ SumAt(deal, full, q.segment) = q.value
    BY <1>7, Fields DEF Impossible, CardsHold
  <2>2. q.type = "sum-range" => /\ Lower(V, q.segment) > q.max /\ q.max \in Nat /\ q.min \in Nat
                                /\ SumAt(deal, full, q.segment) \in q.min..q.max
    BY <1>7, Fields DEF Impossible, CardsHold
  <2> HIDE DEF V
  <2> QED BY <1>5, <1>9, <2>1, <2>2
<1>10. CASE q.type = "segment-colors"
  <2>1. /\ q.black \in Nat /\ q.white \in Nat
        /\ Seen(V, q.segment, "black") > q.black \/ Seen(V, q.segment, "white") > q.white
    BY <1>7, <1>10, Fields DEF Impossible
  <2>2. /\ Cardinality(OfColor(deal, On(full, q.segment), "black")) = q.black
        /\ Cardinality(OfColor(deal, On(full, q.segment), "white")) = q.white
    BY <1>7, <1>10 DEF CardsHold
  <2> HIDE DEF V
  <2> QED BY <1>6, <2>1, <2>2
<1>11. CASE q.type = "max-color-cards"
  <2>1. q.count \in Nat /\ Seen(V, q.segment, q.color) > q.count
    BY <1>7, <1>11, Fields DEF Impossible
  <2>2. Cardinality(OfColor(deal, On(full, q.segment), q.color)) <= q.count
    BY <1>7, <1>11 DEF CardsHold
  <2> HIDE DEF V
  <2> QED BY <1>6, <2>1, <2>2
<1>12. CASE q.type = "forbidden-values"
  <2>1. Values(deal, On(Table, q.segment) \cap shown) \cap q.values # {}
    BY <1>12 DEF Impossible
  <2>2. Values(deal, On(full, q.segment)) \cap q.values = {}
    BY <1>7, <1>12 DEF CardsHold
  <2>3. On(Table, q.segment) \subseteq On(full, q.segment)
    BY <1>0, <1>2 DEF On
  <2>4. Values(deal, On(Table, q.segment) \cap shown) \subseteq Values(deal, On(full, q.segment))
    BY <2>3 DEF Values
  <2> QED BY <2>1, <2>2, <2>4
<1>13. CASE q.type = "max-sum-each"
  <2>1. PICK t \in Segments : Lower(V, t) > q.value
    BY <1>13 DEF Impossible
  <2>2. q.value \in Nat
    BY <1>7, <1>13, Fields
  <2>3. SumAt(deal, full, t) <= q.value
    BY <1>7, <1>13 DEF CardsHold
  <2> HIDE DEF V
  <2> QED BY <1>5, <2>1, <2>2, <2>3
<1>14. q.type \in {"max-cards", "exact-cards", "sum-equals", "sum-range", "segment-colors",
                   "max-color-cards", "forbidden-values", "max-sum-each"}
  BY DEF Impossible
<1> QED BY <1>8, <1>9, <1>10, <1>11, <1>12, <1>13, <1>14

-----------------------------------------------------------------------------
(* The order of the safe policy has a first move *)

\* What orders six numbers by the first that differs has a first element.
LEMMA FirstExists ==
  ASSUME NEW T, T # {}, NEW r, \A x \in T : \A i \in 1..6 : r[x][i] \in Nat,
         \A x, y \in T : (\A i \in 1..6 : r[x][i] = r[y][i]) => x = y
  PROVE  \E m \in T : \A n \in T \ {m} :
           \E i \in 1..6 : r[m][i] < r[n][i] /\ \A j \in 1..(i - 1) : r[m][j] = r[n][j]
<1>0. ASSUME NEW A \in SUBSET T, A # {}, NEW i \in 1..6
      PROVE  \E x \in A : \A y \in A : r[x][i] <= r[y][i]
  <2> DEFINE f == [x \in A |-> r[x][i]]
  <2>1. f \in [A -> Nat]
    BY <1>0
  <2>2. PICK x \in A : \A y \in A : f[x] <= f[y]
    BY <1>0, <2>1, LeastImageExists
  <2>3. \A y \in A : r[x][i] <= r[y][i]
    BY <2>2
  <2> QED BY <2>3
<1> DEFINE Least(A, i) == {x \in A : \A y \in A : r[x][i] <= r[y][i]}
           T1 == Least(T, 1)
           T2 == Least(T1, 2)
           T3 == Least(T2, 3)
           T4 == Least(T3, 4)
           T5 == Least(T4, 5)
           T6 == Least(T5, 6)
<1>1. ASSUME NEW A \in SUBSET T, A # {}, NEW i \in 1..6
      PROVE  Least(A, i) \in SUBSET A /\ Least(A, i) # {}
  BY <1>0, <1>1
<1>2. ASSUME NEW A \in SUBSET T, NEW i \in 1..6, NEW m \in Least(A, i), NEW n \in A
      PROVE  r[m][i] < r[n][i] \/ (r[m][i] = r[n][i] /\ n \in Least(A, i))
  <2>1. r[m][i] \in Nat /\ r[n][i] \in Nat /\ m \in A
    OBVIOUS
  <2>2. r[m][i] <= r[n][i]
    BY <1>2
  <2>3. CASE r[m][i] = r[n][i]
    BY <1>2, <2>3
  <2> QED BY <2>1, <2>2, <2>3
<1> HIDE DEF Least
<1>3. /\ T1 \in SUBSET T /\ T1 # {} /\ T2 \in SUBSET T1 /\ T2 # {}
      /\ T3 \in SUBSET T2 /\ T3 # {} /\ T4 \in SUBSET T3 /\ T4 # {}
      /\ T5 \in SUBSET T4 /\ T5 # {} /\ T6 \in SUBSET T5 /\ T6 # {}
  <2>1. T1 \in SUBSET T /\ T1 # {}
    BY <1>1
  <2> HIDE DEF T1
  <2>2. T2 \in SUBSET T1 /\ T2 # {}
    BY <1>1, <2>1
  <2> HIDE DEF T2
  <2>3. T3 \in SUBSET T2 /\ T3 # {}
    BY <1>1, <2>1, <2>2
  <2> HIDE DEF T3
  <2>4. T4 \in SUBSET T3 /\ T4 # {}
    BY <1>1, <2>1, <2>2, <2>3
  <2> HIDE DEF T4
  <2>5. T5 \in SUBSET T4 /\ T5 # {}
    BY <1>1, <2>1, <2>2, <2>3, <2>4
  <2> HIDE DEF T5
  <2>6. T6 \in SUBSET T5 /\ T6 # {}
    BY <1>1, <2>1, <2>2, <2>3, <2>4, <2>5
  <2> QED BY <2>1, <2>2, <2>3, <2>4, <2>5, <2>6
<1>4. PICK m \in T6 : TRUE
  BY <1>3
<1>5. m \in T /\ m \in T1 /\ m \in T2 /\ m \in T3 /\ m \in T4 /\ m \in T5
  <2> HIDE DEF T1, T2, T3, T4, T5, T6
  <2> QED BY <1>3, <1>4
<1>6. ASSUME NEW n \in T
      PROVE  /\ r[m][1] < r[n][1] \/ (r[m][1] = r[n][1] /\ n \in T1)
             /\ n \in T1 => r[m][2] < r[n][2] \/ (r[m][2] = r[n][2] /\ n \in T2)
             /\ n \in T2 => r[m][3] < r[n][3] \/ (r[m][3] = r[n][3] /\ n \in T3)
             /\ n \in T3 => r[m][4] < r[n][4] \/ (r[m][4] = r[n][4] /\ n \in T4)
             /\ n \in T4 => r[m][5] < r[n][5] \/ (r[m][5] = r[n][5] /\ n \in T5)
             /\ n \in T5 => r[m][6] < r[n][6] \/ (r[m][6] = r[n][6] /\ n \in T6)
  <2>0. T1 \in SUBSET T /\ T2 \in SUBSET T /\ T3 \in SUBSET T /\ T4 \in SUBSET T /\ T5 \in SUBSET T
    <3> HIDE DEF T1, T2, T3, T4, T5, T6
    <3> QED BY <1>3
  <2>1. r[m][1] < r[n][1] \/ (r[m][1] = r[n][1] /\ n \in T1)
    BY <1>2, <1>5, T \in SUBSET T
  <2>2. n \in T1 => r[m][2] < r[n][2] \/ (r[m][2] = r[n][2] /\ n \in T2)
    <3> HIDE DEF T1
    <3> QED BY <1>2, <1>5, <2>0
  <2>3. n \in T2 => r[m][3] < r[n][3] \/ (r[m][3] = r[n][3] /\ n \in T3)
    <3> HIDE DEF T2
    <3> QED BY <1>2, <1>5, <2>0
  <2>4. n \in T3 => r[m][4] < r[n][4] \/ (r[m][4] = r[n][4] /\ n \in T4)
    <3> HIDE DEF T3
    <3> QED BY <1>2, <1>5, <2>0
  <2>5. n \in T4 => r[m][5] < r[n][5] \/ (r[m][5] = r[n][5] /\ n \in T5)
    <3> HIDE DEF T4
    <3> QED BY <1>2, <1>5, <2>0
  <2>6. n \in T5 => r[m][6] < r[n][6] \/ (r[m][6] = r[n][6] /\ n \in T6)
    <3> HIDE DEF T5
    <3> QED BY <1>2, <1>4, <2>0
  <2> QED BY <2>1, <2>2, <2>3, <2>4, <2>5, <2>6
<1> HIDE DEF T1, T2, T3, T4, T5, T6
<1>7. ASSUME NEW n \in T \ {m}
      PROVE  \E i \in 1..6 : r[m][i] < r[n][i] /\ \A j \in 1..(i - 1) : r[m][j] = r[n][j]
  <2>0. /\ r[m][1] < r[n][1] \/ (r[m][1] = r[n][1] /\ n \in T1)
        /\ n \in T1 => r[m][2] < r[n][2] \/ (r[m][2] = r[n][2] /\ n \in T2)
        /\ n \in T2 => r[m][3] < r[n][3] \/ (r[m][3] = r[n][3] /\ n \in T3)
        /\ n \in T3 => r[m][4] < r[n][4] \/ (r[m][4] = r[n][4] /\ n \in T4)
        /\ n \in T4 => r[m][5] < r[n][5] \/ (r[m][5] = r[n][5] /\ n \in T5)
        /\ n \in T5 => r[m][6] < r[n][6] \/ (r[m][6] = r[n][6] /\ n \in T6)
    BY <1>6
  <2>1. CASE r[m][1] < r[n][1]
    BY <2>1
  <2>2. CASE r[m][1] = r[n][1] /\ r[m][2] < r[n][2]
    <3>1. \A j \in 1..(2 - 1) : j = 1
      OBVIOUS
    <3> QED BY <2>2, <3>1
  <2>3. CASE r[m][1] = r[n][1] /\ r[m][2] = r[n][2] /\ r[m][3] < r[n][3]
    <3>1. \A j \in 1..(3 - 1) : j = 1 \/ j = 2
      OBVIOUS
    <3> QED BY <2>3, <3>1
  <2>4. CASE r[m][1] = r[n][1] /\ r[m][2] = r[n][2] /\ r[m][3] = r[n][3] /\ r[m][4] < r[n][4]
    <3>1. \A j \in 1..(4 - 1) : j = 1 \/ j = 2 \/ j = 3
      OBVIOUS
    <3> QED BY <2>4, <3>1
  <2>5. CASE /\ r[m][1] = r[n][1] /\ r[m][2] = r[n][2] /\ r[m][3] = r[n][3] /\ r[m][4] = r[n][4]
             /\ r[m][5] < r[n][5]
    <3>1. \A j \in 1..(5 - 1) : j = 1 \/ j = 2 \/ j = 3 \/ j = 4
      OBVIOUS
    <3> QED BY <2>5, <3>1
  <2>6. CASE /\ r[m][1] = r[n][1] /\ r[m][2] = r[n][2] /\ r[m][3] = r[n][3] /\ r[m][4] = r[n][4]
             /\ r[m][5] = r[n][5] /\ r[m][6] < r[n][6]
    <3>1. \A j \in 1..(6 - 1) : j = 1 \/ j = 2 \/ j = 3 \/ j = 4 \/ j = 5
      OBVIOUS
    <3> QED BY <2>6, <3>1
  <2>7. CASE /\ r[m][1] = r[n][1] /\ r[m][2] = r[n][2] /\ r[m][3] = r[n][3] /\ r[m][4] = r[n][4]
             /\ r[m][5] = r[n][5] /\ r[m][6] = r[n][6]
    <3>1. \A i \in 1..6 : i = 1 \/ i = 2 \/ i = 3 \/ i = 4 \/ i = 5 \/ i = 6
      OBVIOUS
    <3>2. \A i \in 1..6 : r[m][i] = r[n][i]
      BY <2>7, <3>1
    <3> QED BY <1>5, <3>2
  <2> QED BY <2>0, <2>1, <2>2, <2>3, <2>4, <2>5, <2>6, <2>7
<1> QED BY <1>5, <1>7

\* The pairs of neighbours in the wrong order are a number.
LEMMA ViolationsCount ==
  ASSUME IsLevel(level), NEW view
  PROVE  SoftViolations(view) \in Nat
<1> DEFINE Q == {q \in level : q.type \in {"non-decreasing", "non-increasing"}}
           w == [q \in Q |-> Cardinality(Misordered(q, view))]
           Adds(sum) == sum = [s \in SUBSET Q |-> IF s = {} THEN 0
              ELSE Cardinality(Misordered(CHOOSE x \in s : TRUE, view))
                     + sum[s \ {CHOOSE x \in s : TRUE}]]
<1>0. IsFiniteSet(Q)
  BY FS_Subset DEF IsLevel
<1>1. w \in [Q -> Nat]
  <2> SUFFICES ASSUME NEW q \in Q PROVE Cardinality(Misordered(q, view)) \in Nat
    OBVIOUS
  <2>1. q.segments \in Seq(Segments)
    BY Fields DEF IsLevel
  <2>2. Len(q.segments) \in Nat
    BY <2>1, LenProperties
  <2>3. IsFiniteSet(1..(Len(q.segments) - 1))
    BY <2>2, FS_Interval
  <2>4. Misordered(q, view) \in SUBSET (1..(Len(q.segments) - 1))
    BY DEF Misordered
  <2> QED BY <2>3, <2>4, FS_Subset, FS_CardinalityType
<1>2. ASSUME NEW sum PROVE AddsUp(sum, w, Q) <=> Adds(sum)
  <2>0. ASSUME NEW s \in SUBSET Q, s # {}
        PROVE  w[CHOOSE x \in s : TRUE] = Cardinality(Misordered(CHOOSE x \in s : TRUE, view))
    <3>1. (CHOOSE x \in s : TRUE) \in Q
      BY <2>0
    <3> QED BY <3>1
  <2>1. [s \in SUBSET Q |-> IF s = {} THEN 0
            ELSE w[CHOOSE x \in s : TRUE] + sum[s \ {CHOOSE x \in s : TRUE}]]
      = [s \in SUBSET Q |-> IF s = {} THEN 0
            ELSE Cardinality(Misordered(CHOOSE x \in s : TRUE, view))
                   + sum[s \ {CHOOSE x \in s : TRUE}]]
    <3> HIDE DEF w, Q
    <3> QED BY <2>0
  <2> QED BY <2>1, Zenon DEF AddsUp
<1>3. \E sum : AddsUp(sum, w, Q)
  <2> HIDE DEF w, Q
  <2> QED BY <1>0, <1>1, SumExists
<1>4. PICK sum : sum = (CHOOSE f : Adds(f)) /\ AddsUp(sum, w, Q)
  <2> HIDE DEF Adds, w, Q
  <2> QED BY <1>2, <1>3
<1>5. SoftViolations(view) = (CHOOSE f : Adds(f))[Q]
  BY DEF SoftViolations, MapThenSumSet, MapThenFoldSet
<1>6. sum[Q] = Cardinality(Dots(w, Q)) /\ Cardinality(Dots(w, Q)) \in Nat
  <2> HIDE DEF w, Q
  <2> QED BY <1>0, <1>1, <1>4, SumIsDots, DotsFinite
<1> HIDE DEF Adds, w, Q
<1> QED BY <1>4, <1>5, <1>6, Zenon

\* A rank is a tuple of numbers that ends with the move it ranks.
LEMMA RankFacts ==
  ASSUME deal \in Deals, IsLevel(level), NEW m \in Cards \X Segments
  PROVE  /\ DOMAIN Rank(m) = 1..6
         /\ \A i \in 1..6 : Rank(m)[i] \in Nat
         /\ Rank(m)[4] = m[2] /\ Rank(m)[6] = m[1]
<1> DEFINE c == m[1]
           s == m[2]
           view == ViewWith(c, s)
           left == Cardinality(Cards) - Cardinality(DOMAIN view.cards)
           empty == {t \in Segments : Count(view, t) = 0}
           urgent == On(Table, s) = {} /\ left <= Cardinality(empty) + 1
           twice == IF VisibleToOwner(c) THEN 2 * deal[c].value ELSE 1 + MaxValue
           value == IF VisibleToOwner(c) THEN deal[c].value ELSE MaxValue + 1
           first == IF urgent THEN 0 ELSE 1
           third == Distance((LastSegment + 1) * twice, (2 * s + 1) * MaxValue)
<1>1. Rank(m) = <<first, SoftViolations(view), third, s, value, c>>
  BY DEF Rank
<1>2. c \in Nat /\ s \in Nat /\ c \in Cards
  BY DEF Cards, Segments
<1>3. deal[c].value \in Nat
  BY <1>2, WorthType
<1>4. value \in Nat /\ twice \in Nat
  BY <1>3, Sizes
<1>5. third \in Nat
  <2> HIDE DEF twice
  <2>0. LastSegment + 1 \in Nat /\ 2 * s + 1 \in Nat
    BY <1>2, Sizes
  <2>1. (LastSegment + 1) * twice \in Nat
    BY <1>4, <2>0
  <2>2. (2 * s + 1) * MaxValue \in Nat
    BY <2>0, Sizes
  <2> QED BY <2>1, <2>2 DEF Distance
<1>6. first \in Nat
  OBVIOUS
<1>7. SoftViolations(view) \in Nat
  BY ViolationsCount
<1> HIDE DEF first, third, value, view
<1>8. \A i \in 1..6 : i = 1 \/ i = 2 \/ i = 3 \/ i = 4 \/ i = 5 \/ i = 6
  OBVIOUS
<1> QED BY <1>1, <1>2, <1>4, <1>5, <1>6, <1>7, <1>8

\* What the policy keeps, it can play: the best move is one of those it keeps.
LEMMA SafeIsKept ==
  ASSUME deal \in Deals, IsLevel(level), NEW seat, Kept(seat) # {}
  PROVE  SafePlacement(seat) \in Kept(seat)
<1> DEFINE kept == Kept(seat)
           rank == [m \in kept |-> Rank(m)]
<1>1. kept \in SUBSET (Cards \X Segments)
  BY DEF Kept, Moves, Hand
<1>2. \A m \in kept : /\ DOMAIN rank[m] = 1..6
                      /\ \A i \in 1..6 : rank[m][i] \in Nat
                      /\ rank[m][4] = m[2] /\ rank[m][6] = m[1]
  BY <1>1, RankFacts
<1>3. \A m, n \in kept : (\A i \in 1..6 : rank[m][i] = rank[n][i]) => m = n
  <2> HIDE DEF rank, kept
  <2> SUFFICES ASSUME NEW m \in kept, NEW n \in kept, \A i \in 1..6 : rank[m][i] = rank[n][i]
               PROVE  m = n
    OBVIOUS
  <2>1. m[1] = n[1] /\ m[2] = n[2]
    BY <1>2
  <2>2. m = <<m[1], m[2]>> /\ n = <<n[1], n[2]>>
    BY <1>1
  <2> QED BY <2>1, <2>2, Zenon
<1>4. \E m \in kept : \A n \in kept \ {m} :
           \E i \in 1..6 : rank[m][i] < rank[n][i] /\ \A j \in 1..(i - 1) : rank[m][j] = rank[n][j]
  <2>1. kept # {}
    OBVIOUS
  <2> HIDE DEF rank, kept
  <2> QED BY <1>2, <1>3, <2>1, FirstExists
<1>5. \E m \in kept : \A n \in kept \ {m} : Precedes(rank[m], rank[n])
  <2> HIDE DEF rank, kept
  <2>1. PICK m \in kept : \A n \in kept \ {m} :
           \E i \in 1..6 : rank[m][i] < rank[n][i] /\ \A j \in 1..(i - 1) : rank[m][j] = rank[n][j]
    BY <1>4
  <2>2. DOMAIN rank[m] = 1..6
    BY <1>2
  <2>3. ASSUME NEW n \in kept \ {m} PROVE Precedes(rank[m], rank[n])
    <3>1. PICK i \in 1..6 : rank[m][i] < rank[n][i] /\ \A j \in 1..(i - 1) : rank[m][j] = rank[n][j]
      BY <2>1
    <3>2. i \in DOMAIN rank[m]
      BY <2>2, Zenon
    <3>3. \E k \in DOMAIN rank[m] :
             rank[m][k] < rank[n][k] /\ \A j \in 1..(k - 1) : rank[m][j] = rank[n][j]
      BY <3>1, <3>2, Zenon
    <3> QED BY <3>3, Zenon DEF Precedes
  <2> QED BY <2>3
<1>6. SafePlacement(seat) = CHOOSE m \in kept : \A n \in kept \ {m} : Precedes(rank[m], rank[n])
  BY DEF SafePlacement
<1>7. (CHOOSE m \in kept : \A n \in kept \ {m} : Precedes(rank[m], rank[n])) \in kept
  <2> HIDE DEF rank, kept
  <2> QED BY <1>5
<1> QED BY <1>6, <1>7, Zenon

-----------------------------------------------------------------------------
(* No hand is given up *)

\* While a seat holds a card, a play is still to come, and in no order of
\* playing that continues this one is it of a card on the table.
LEMMA NextPlay ==
  ASSUME Inv, stage = "placing", NEW seat, Hand(seat) # {}, NEW p \in Continuing(played)
  PROVE  /\ Len(played) + 1 \in Cards /\ Len(played) \in Nat
         /\ p[Len(played) + 1] \in Cards \ DOMAIN Table
<1>1. /\ Legal(played) /\ DOMAIN Table \in SUBSET Cards
  BY Parts
<1>2. /\ Len(played) \in Nat /\ DOMAIN played = 1..Len(played)
      /\ Cardinality(DOMAIN Table) = Len(played)
      /\ DOMAIN Table = {played[i].card : i \in DOMAIN played}
  BY <1>1, PlacementFacts DEF Table
<1>3. PICK h \in Cards : h \notin DOMAIN Table
  BY DEF Hand
<1>4. Len(played) < Cardinality(Cards) /\ Cardinality(Cards) \in Nat
  BY <1>1, <1>2, <1>3, CardsFinite, FS_Subset
<1>5. Cards = 1..Cardinality(Cards)
  BY CardsFinite DEF Cards
<1>6. Len(played) + 1 \in Cards
  BY <1>2, <1>4, <1>5
<1>7. /\ p \in [Cards -> Cards]
      /\ \A i, j \in Cards : p[i] = p[j] => i = j
      /\ \A i \in DOMAIN played : p[i] = played[i].card
  BY DEF Continuing, Plays
<1>8. p[Len(played) + 1] \notin DOMAIN Table
  <2> SUFFICES ASSUME p[Len(played) + 1] \in DOMAIN Table PROVE FALSE
    OBVIOUS
  <2>1. PICK i \in DOMAIN played : p[Len(played) + 1] = played[i].card
    BY <1>2
  <2>2. i \in 1..Len(played) /\ i \in Cards
    BY <1>2, <1>4, <1>5
  <2>3. p[i] = p[Len(played) + 1]
    BY <1>7, <2>1
  <2>4. i = Len(played) + 1
    BY <1>6, <1>7, <2>2, <2>3, Zenon
  <2> QED BY <1>2, <2>2, <2>4
<1> QED BY <1>2, <1>6, <1>7, <1>8

\* Whoever plays on towards a win plays a move that is not pruned.
LEMMA WinningMoveIsKept ==
  ASSUME Inv, stage = "placing", NEW seat, Hand(seat) # {},
         NEW full, NEW p \in Continuing(played), Completion(Table, full, p),
         Owner(p[Len(played) + 1]) = seat
  PROVE  Kept(seat) # {}
<1> DEFINE c == p[Len(played) + 1]
           s == full[c]
<1>1. c \in Cards \ DOMAIN Table /\ c \in Hand(seat) /\ Len(played) \in Nat
  BY NextPlay DEF Hand
<1>2. full \in [Cards -> Segments] /\ \A d \in DOMAIN Table : full[d] = Table[d]
  BY DEF Completion
<1>3. s \in Segments
  BY <1>1, <1>2
<1> SUFFICES ASSUME ProvablyLosing(c, s) PROVE FALSE
  <2>1. <<c, s>> \in Moves(seat)
    BY <1>1, <1>3 DEF Moves
  <2> QED BY <2>1 DEF Kept
<1> HIDE DEF s
<1>4. PICK after : Lays(played, c, s, after)
  BY DEF Lays
<1>5. /\ Legal(after) /\ Len(after) = Len(played) + 1 /\ after[Len(played) + 1].card = c
      /\ \A i \in DOMAIN played : after[i] = played[i]
      /\ Placement(after) = Joined(Table, Laid(c, s))
  BY <1>1, <1>3, <1>4, AfterMove
<1>6. /\ DOMAIN after = 1..Len(after)
      /\ DOMAIN Placement(after) \in SUBSET Cards
      /\ Placement(after) \in [DOMAIN Placement(after) -> Segments]
  BY <1>5, PlacementFacts
<1>7. p \in Continuing(after)
  <2>1. \A i \in DOMAIN played : after[i] = played[i]
    BY <1>5
  <2>2. \A i \in DOMAIN played : p[i] = played[i].card
    BY DEF Continuing
  <2>3. DOMAIN played = 1..Len(played)
    BY Parts, PlacementFacts
  <2>4. ASSUME NEW i \in DOMAIN after PROVE p[i] = after[i].card
    <3>1. i \in DOMAIN played \/ i = Len(played) + 1
      BY <1>1, <1>5, <1>6, <2>3
    <3> QED BY <1>5, <2>1, <2>2, <3>1
  <2> QED BY <2>4 DEF Continuing
<1>8. Completion(Placement(after), full, p)
  <2>1. \A d \in DOMAIN Placement(after) : full[d] = Placement(after)[d]
    <3>1. \A d \in DOMAIN Joined(Table, Laid(c, s)) : full[d] = Joined(Table, Laid(c, s))[d]
      <4>1. DOMAIN Joined(Table, Laid(c, s)) = DOMAIN Table \cup {c}
        BY DEF Joined, Laid
      <4>2. \A d \in DOMAIN Table : Joined(Table, Laid(c, s))[d] = Table[d]
        BY DEF Joined, Laid
      <4>3. Joined(Table, Laid(c, s))[c] = s
        BY <1>1 DEF Joined, Laid
      <4> QED BY <1>2, <4>1, <4>2, <4>3 DEF s
    <3> QED BY <1>5, <3>1, Zenon
  <2> QED BY <2>1 DEF Completion
<1>9. Completes(Placement(after), Continuing(after))
  BY <1>6, <1>7, <1>8, CompletesIs
<1> QED BY <1>1, <1>3, <1>4, <1>9, LosingMove

\* Every pruned move loses (PrunedIsLost).
LEMMA PrunedLoses ==
  ASSUME Inv, stage = "placing"
  PROVE  PrunedIsLost
<1> SUFFICES ASSUME NEW seat \in Seats, NEW m \in Moves(seat) \ Kept(seat),
                    NEW after, after = Append(played, [card |-> m[1], segment |-> m[2]])
             PROVE  ~Completes(Placement(after), Continuing(after))
  BY DEF PrunedIsLost
<1>1. m[1] \in Cards \ DOMAIN Table /\ m[2] \in Segments /\ ProvablyLosing(m[1], m[2])
  BY DEF Moves, Kept, Hand
<1>2. Lays(played, m[1], m[2], after)
  BY DEF Lays
<1> QED BY <1>1, <1>2, LosingMove

\* The safe policy loses only what is lost (SafeUnlessLost).
LEMMA SafeLosesNothing ==
  ASSUME Inv, stage = "placing"
  PROVE  SafeUnlessLost
<1> SUFFICES ASSUME NEW seat \in Seats, MayPlace(seat)
             PROVE  /\ SafePlacement(seat) \in Moves(seat)
                    /\ ProvablyLosing(SafePlacement(seat)[1], SafePlacement(seat)[2]) => LostFor(seat)
  BY Zenon DEF SafeUnlessLost
<1>1. Hand(seat) # {} /\ Hand(seat) \in SUBSET Nat
  BY DEF MayPlace, Hand, Cards
<1>2. CASE Kept(seat) # {}
  <2>1. SafePlacement(seat) \in Kept(seat)
    BY <1>2, SafeIsKept, Parts
  <2> QED BY <2>1 DEF Kept
<1>3. CASE Kept(seat) = {}
  <2> DEFINE least == CHOOSE c \in Hand(seat) : \A d \in Hand(seat) : c <= d
  <2>1. \E c \in Hand(seat) : \A d \in Hand(seat) : c <= d
    BY <1>1, LeastExists
  <2>2. least \in Hand(seat)
    BY <2>1
  <2>3. SafePlacement(seat) = <<least, 0>>
    BY <1>3 DEF SafePlacement
  <2>4. 0 \in Segments
    BY Sizes DEF Segments
  <2>5. SafePlacement(seat) \in Moves(seat)
    <3> HIDE DEF least
    <3> QED BY <2>2, <2>3, <2>4 DEF Moves
  <2>6. LostFor(seat)
    <3> DEFINE orders == {p \in Continuing(played) : Owner(p[Len(played) + 1]) = seat}
    <3>1. ASSUME Completes(Table, orders) PROVE FALSE
      <4>1. DOMAIN Table \in SUBSET Cards /\ Table \in [DOMAIN Table -> Segments]
        BY Parts
      <4>2. PICK full, p : p \in orders /\ Completion(Table, full, p)
        <5> HIDE DEF orders
        <5> QED BY <3>1, <4>1, CompletesIs
      <4>3. p \in Continuing(played) /\ Owner(p[Len(played) + 1]) = seat
        BY <4>2
      <4> QED BY <1>1, <1>3, <4>2, <4>3, WinningMoveIsKept
    <3> QED BY <3>1 DEF LostFor
  <2> QED BY <2>5, <2>6
<1> QED BY <1>2, <1>3

\* No other card that a seat knows has the value and the colour of a hidden one.
LEMMA RealValueIsPossible ==
  ASSUME Inv, stage = "placing", NEW seat, NEW c \in DOMAIN Table \ shown
  PROVE  deal[c].value \in PossibleValues(seat, c)
<1>1. deal \in Deals /\ DOMAIN Table \in SUBSET Cards /\ shown \subseteq DOMAIN Table /\ Legal(played)
  BY Parts
<1>2. c \in Cards /\ deal[c].value \in 1..MaxValue
  BY <1>1, WorthType
<1>3. CASE c \in Remembered(seat)
  BY <1>3 DEF PossibleValues
<1>4. CASE c \notin Remembered(seat)
  <2>1. deal[c].value \notin Values(deal, OfColor(deal, Known(seat), deal[c].color))
    <3> SUFFICES ASSUME NEW d \in Known(seat), deal[d].color = deal[c].color,
                        deal[d].value = deal[c].value
                 PROVE  FALSE
      BY DEF Values, OfColor
    <3>1. Remembered(seat) \subseteq DOMAIN Table
      <4>1. DOMAIN Table = {played[i].card : i \in DOMAIN played}
        BY <1>1, PlacementDomain DEF Table
      <4> QED BY <4>1 DEF Remembered
    <3>2. d \in Cards
      BY <1>1, <3>1 DEF Known, Hand
    <3>3. deal[d] = deal[c]
      BY <1>1, <1>2, <3>2 DEF Deals
    <3>4. d = c
      BY <1>1, <1>2, <3>2, <3>3 DEF Deals
    <3>5. c \notin Hand(seat) /\ c \notin shown
      BY DEF Hand
    <3> QED BY <1>4, <3>4, <3>5 DEF Known
  <2> QED BY <1>2, <1>4, <2>1 DEF PossibleValues
<1> QED BY <1>3, <1>4

\* What the other cards of its segment leave it, the real value respects.
LEMMA RealValueFits ==
  ASSUME deal \in Deals, NEW view, NEW full, Contains(full, view),
         NEW c \in DOMAIN view.cards \ view.open, NEW s, view.cards[c] = s
  PROVE  deal[c].value + Lower(view, s) - 1 <= SumAt(deal, full, s)
<1> DEFINE A == On(view.cards, s) \cap view.open
           B == On(view.cards, s) \ view.open
           B1 == B \ {c}
<1>1. /\ On(view.cards, s) \in SUBSET On(full, s) /\ On(full, s) \in SUBSET Cards
      /\ c \in B /\ c \in Cards
  BY ViewWithin DEF Contains, On
<1>2. A \in SUBSET Cards /\ B \in SUBSET Cards /\ A \cap B = {} /\ A \cup B \in SUBSET On(full, s)
      /\ B1 \in SUBSET Cards /\ {c} \in SUBSET Cards /\ B1 \cap {c} = {} /\ B = B1 \cup {c}
  BY <1>1
<1> HIDE DEF A, B, B1
<1>3. Total(deal, A \cup B) = Total(deal, A) + Total(deal, B)
  BY <1>2, TotalSplit
<1>4. Total(deal, A \cup B) <= SumAt(deal, full, s)
  <2>1. Total(deal, A \cup B) <= Total(deal, On(full, s))
    BY <1>1, <1>2, TotalSubset
  <2> QED BY <2>1 DEF SumAt
<1>5. Total(deal, B) = Total(deal, B1) + deal[c].value
  <2>1. Total(deal, B1 \cup {c}) = Total(deal, B1) + Total(deal, {c})
    BY <1>2, TotalSplit
  <2>2. Total(deal, {c}) = deal[c].value
    BY <1>1, TotalOne
  <2> QED BY <1>2, <2>1, <2>2, Zenon
<1>6. Cardinality(B1) <= Total(deal, B1) /\ Total(deal, B1) \in Nat /\ Total(deal, A) \in Nat
  BY <1>2, TotalBounds
<1>7. Cardinality(B) = Cardinality(B1) + 1 /\ Cardinality(B1) \in Nat
  BY <1>1, <1>2, CardsFinite, FS_RemoveElement DEF B1
<1>8. deal[c].value \in Nat /\ SumAt(deal, full, s) \in Nat /\ Total(deal, A \cup B) \in Nat
  <2>1. Total(deal, On(full, s)) \in Nat /\ Total(deal, A \cup B) \in Nat
    BY <1>1, <1>2, TotalBounds
  <2> QED BY <1>1, <2>1, WorthType DEF SumAt
<1>9. Lower(view, s) = Total(deal, A) + Cardinality(B)
  BY DEF Lower, A, B
<1> QED BY <1>3, <1>4, <1>5, <1>6, <1>7, <1>8, <1>9

\* What a seat believes of a hidden card is right (BelievedRightly).
LEMMA BeliefsAreRight ==
  ASSUME Inv, stage = "placing", NEW seat, NEW c \in DOMAIN Table \ shown
  PROVE  BelievedRightly(seat, c)
<1> DEFINE V == PublicView
           s == Table[c]
<1>0. /\ deal \in Deals /\ IsLevel(level) /\ Legal(played) /\ shown \subseteq DOMAIN Table
      /\ DOMAIN Table \in SUBSET Cards /\ Table \in [DOMAIN Table -> Segments]
  BY Parts
<1>1. deal[c].value \in PossibleValues(seat, c)
  BY RealValueIsPossible
<1> SUFFICES ASSUME Completes(Table, Continuing(played))
             PROVE  deal[c].value \in CompatibleValues(seat, c)
  BY <1>1 DEF BelievedRightly, Lost
<1>2. PICK full, p : p \in Continuing(played) /\ Completion(Table, full, p)
  BY <1>0, CompletesIs
<1>3. /\ full \in [Cards -> Segments] /\ Fulfils(full)
      /\ \A d \in DOMAIN Table : full[d] = Table[d]
  BY <1>2 DEF Completion
<1>4. V.cards = Table /\ V.open = shown /\ V.hued = DOMAIN Table
  BY DEF PublicView, View
<1>5. Contains(full, V)
  <2> HIDE DEF V
  <2> QED BY <1>0, <1>3, <1>4 DEF Contains
<1>6. s \in Segments /\ c \in On(full, s) /\ On(full, s) \in SUBSET Cards /\ c \in Cards
      /\ On(Table, s) \subseteq On(full, s)
  BY <1>0, <1>3 DEF On
<1>7. \A q \in level : q \in Condition /\ (q.type # "placement-order" => CardsHold(q, deal, full))
  BY <1>0, <1>3 DEF IsLevel, Ordered, Fulfils
<1>8. deal[c].value \notin ForbiddenValues(s)
  <2> SUFFICES ASSUME NEW q \in level, q.type = "forbidden-values", q.segment = s,
                      deal[c].value \in q.values
               PROVE  FALSE
    BY DEF ForbiddenValues
  <2>1. Values(deal, On(full, q.segment)) \cap q.values = {}
    BY <1>7 DEF CardsHold
  <2>2. deal[c].value \in Values(deal, On(full, s))
    BY <1>6 DEF Values
  <2> QED BY <2>1, <2>2
<1> DEFINE q0 == [type |-> "all-distinct", segment |-> s]
<1>9. ASSUME q0 \in level, deal[c].value \in Values(deal, On(Table, s) \cap shown) PROVE FALSE
  <2>1. q0.type = "all-distinct" /\ q0.segment = s
    OBVIOUS
  <2> HIDE DEF q0
  <2>2. CardsHold(q0, deal, full)
    BY <1>7, <1>9, <2>1
  <2>3. Cardinality(Values(deal, On(full, s))) = Cardinality(On(full, s))
    BY <2>1, <2>2 DEF CardsHold
  <2>4. PICK d \in On(Table, s) \cap shown : deal[d].value = deal[c].value
    BY <1>9 DEF Values
  <2>5. d \in On(full, s) /\ d # c
    BY <1>6, <2>4
  <2> QED BY <1>0, <1>6, <2>3, <2>4, <2>5, DistinctValues
<1>10. ASSUME NEW cap \in SumCaps(s) PROVE deal[c].value <= cap - (Lower(V, s) - 1)
  <2>1. cap \in Nat /\ SumAt(deal, full, s) <= cap
    <3>1. CASE \E q \in level : q.type = "max-sum-each" /\ cap = q.value
      <4>1. PICK q \in level : q.type = "max-sum-each" /\ cap = q.value
        BY <3>1
      <4>2. q.value \in Nat /\ CardsHold(q, deal, full)
        BY <1>7, <4>1, Fields
      <4>3. SumAt(deal, full, s) <= q.value
        BY <1>6, <4>1, <4>2 DEF CardsHold
      <4> QED BY <4>1, <4>2, <4>3
    <3>2. CASE \E q \in level : q.type = "sum-equals" /\ q.segment = s /\ cap = q.value
      <4>1. PICK q \in level : q.type = "sum-equals" /\ q.segment = s /\ cap = q.value
        BY <3>2
      <4>2. q.value \in Nat /\ CardsHold(q, deal, full)
        BY <1>7, <4>1, Fields
      <4>3. SumAt(deal, full, s) = q.value
        BY <4>1, <4>2 DEF CardsHold
      <4> QED BY <4>1, <4>2, <4>3
    <3>3. CASE \E q \in level : q.type = "sum-range" /\ q.segment = s /\ cap = q.max
      <4>1. PICK q \in level : q.type = "sum-range" /\ q.segment = s /\ cap = q.max
        BY <3>3
      <4>2. q.max \in Nat /\ q.min \in Nat /\ CardsHold(q, deal, full)
        BY <1>7, <4>1, Fields
      <4>3. SumAt(deal, full, s) \in q.min..q.max
        BY <4>1, <4>2 DEF CardsHold
      <4> QED BY <4>1, <4>2, <4>3
    <3>4. \/ \E q \in level : q.type = "max-sum-each" /\ cap = q.value
          \/ \E q \in level : q.type = "sum-equals" /\ q.segment = s /\ cap = q.value
          \/ \E q \in level : q.type = "sum-range" /\ q.segment = s /\ cap = q.max
      BY <1>10 DEF SumCaps
    <3> QED BY <3>1, <3>2, <3>3, <3>4
  <2>2. c \in DOMAIN V.cards \ V.open /\ V.cards[c] = s
    <3> HIDE DEF V
    <3> QED BY <1>4
  <2> HIDE DEF V, s
  <2>3. deal[c].value + Lower(V, s) - 1 <= SumAt(deal, full, s)
    BY <1>0, <1>5, <2>2, RealValueFits
  <2>4. Lower(V, s) \in Nat /\ SumAt(deal, full, s) \in Nat /\ deal[c].value \in Nat
    BY <1>0, <1>5, <1>6, LowerIsLower, WorthType
  <2> QED BY <2>1, <2>3, <2>4
<1>11. V.cards[c] = s
  BY <1>4
<1>12. On(V.cards, s) \cap V.open = On(Table, s) \cap shown
  BY <1>4, Zenon
<1> HIDE DEF s
<1> QED BY <1>1, <1>8, <1>9, <1>10, <1>11, <1>12 DEF CompatibleValues

\* The invariant implies that no hand is given up.
LEMMA NothingIsGivenUp ==
  ASSUME Inv
  PROVE  LosingIsLost
<1> SUFFICES ASSUME stage = "placing"
             PROVE  /\ PrunedIsLost
                    /\ SafeUnlessLost
                    /\ (\E q \in level : Impossible(q)) => Lost
                    /\ \A seat \in Seats, c \in DOMAIN Table \ shown : BelievedRightly(seat, c)
  BY Zenon DEF LosingIsLost
<1>1. (\E q \in level : Impossible(q)) => Lost
  BY ImpossibleLoses
<1> QED BY <1>1, PrunedLoses, SafeLosesNothing, BeliefsAreRight

-----------------------------------------------------------------------------
(* Every step keeps the invariant *)

\* The invariant holds at first.
LEMMA InvInitially == Init => Inv
<1> SUFFICES ASSUME Init PROVE Inv
  OBVIOUS
<1>1. IsLevel(level)
  BY LoadedIsLevel DEF Init
<1>2. Legal(played)
  BY DEF Init, Legal
<1>3. Cardinality(shown) = 0
  BY FS_EmptySet DEF Init
<1>4. MaxShuffles \in Nat /\ Markers \in Nat
  BY RulesAssumption
<1> QED BY <1>1, <1>2, <1>3, <1>4 DEF Init, Inv

\* A shuffle keeps it.
LEMMA ShuffleKeeps == Inv /\ Shuffle => Inv'
<1> SUFFICES ASSUME Inv, Shuffle PROVE Inv'
  OBVIOUS
<1>1. MaxShuffles \in Nat
  BY RulesAssumption
<1>2. Table' = Table
  BY DEF Shuffle, Table, Placement
<1>3. stage' = "candidate" /\ deal' \in Decks /\ UNCHANGED <<level, shuffles, played, shown>>
      /\ stage = "dealing" /\ shuffles < MaxShuffles
  BY DEF Shuffle
<1>4. played = << >>
  BY <1>3 DEF Inv
<1> QED BY <1>1, <1>2, <1>3, <1>4 DEF Inv, IsLevel, Legal

\* So does a deal the solver accepts,
LEMMA AcceptKeeps == Inv /\ Accept => Inv'
<1> SUFFICES ASSUME Inv, Accept PROVE Inv'
  OBVIOUS
<1>1. MaxShuffles \in Nat
  BY RulesAssumption
<1>2. Table' = Table
  BY DEF Accept, Table, Placement
<1>3. stage' = "placing" /\ shuffles' = 0 /\ UNCHANGED <<level, deal, played, shown>>
      /\ stage = "candidate"
  BY DEF Accept
<1>4. played = << >>
  BY <1>3 DEF Inv
<1> QED BY <1>1, <1>2, <1>3, <1>4 DEF Inv, IsLevel, Legal

\* one it refuses,
LEMMA RefuseKeeps == Inv /\ Refuse => Inv'
<1> SUFFICES ASSUME Inv, Refuse PROVE Inv'
  OBVIOUS
<1>1. MaxShuffles \in Nat
  BY RulesAssumption
<1>2. Table' = Table
  BY DEF Refuse, Table, Placement
<1>3. stage' \in {"failed", "dealing"} /\ shuffles' = shuffles + 1 /\ deal' = << >>
      /\ UNCHANGED <<level, played, shown>> /\ stage = "candidate"
  BY DEF Refuse
<1>4. played = << >>
  BY <1>3 DEF Inv
<1>5. shuffles' \in 0..MaxShuffles
  BY <1>1, <1>3 DEF Inv
<1> QED BY <1>1, <1>2, <1>3, <1>4, <1>5 DEF Inv, IsLevel, Legal

\* and a placement, which lays a card that does not lie yet.
LEMMA PlaceKeeps == Inv /\ Place => Inv'
<1> SUFFICES ASSUME Inv, NEW c \in Cards, NEW s \in Segments, NEW faceUp \in BOOLEAN,
                    stage = "placing", c \in Hand(Owner(c)),
                    faceUp => Cardinality(shown) < Markers,
                    played' = Append(played, [card |-> c, segment |-> s]),
                    shown' = IF faceUp THEN shown \cup {c} ELSE shown,
                    UNCHANGED <<stage, level, shuffles, deal>>
             PROVE  Inv'
  BY DEF Place, MayPlace
<1>1. c \in Cards \ DOMAIN Table
  BY DEF Hand
<1>2. Lays(played, c, s, played')
  BY DEF Lays
<1>3. PICK after : after = played'
  OBVIOUS
<1>4. Legal(after) /\ Placement(after) = Joined(Table, Laid(c, s))
  BY <1>1, <1>2, <1>3, AfterMove
<1>5. Legal(played)'
  BY <1>3, <1>4 DEF Legal
<1>6. DOMAIN Table' = DOMAIN Table \cup {c}
  <2>1. Table' = Placement(after)
    BY <1>3 DEF Table, Placement
  <2>2. DOMAIN Joined(Table, Laid(c, s)) = DOMAIN Table \cup {c}
    BY DEF Joined, Laid
  <2> QED BY <1>4, <2>1, <2>2
<1>7. shown \subseteq DOMAIN Table /\ DOMAIN Table \in SUBSET Cards /\ Cardinality(shown) <= Markers
  BY Parts DEF Inv
<1>8. shown' \subseteq DOMAIN Table'
  BY <1>6, <1>7
<1>9. Cardinality(shown') <= Markers
  <2>1. IsFiniteSet(shown) /\ Cardinality(shown) \in Nat /\ Markers \in Nat
    BY <1>7, CardsFinite, RulesAssumption
  <2>2. c \notin shown
    BY <1>1, <1>7
  <2>3. Cardinality(shown \cup {c}) = Cardinality(shown) + 1
    BY <2>1, <2>2, FS_AddElement
  <2> QED BY <1>7, <2>1, <2>3
<1> QED BY <1>5, <1>8, <1>9 DEF Inv, IsLevel

\* So every step keeps it.
LEMMA InvNext == Inv /\ [Next]_vars => Inv'
<1> SUFFICES ASSUME Inv, [Next]_vars PROVE Inv'
  OBVIOUS
<1>1. CASE Shuffle
  BY <1>1, ShuffleKeeps
<1>2. CASE Accept
  BY <1>2, AcceptKeeps
<1>3. CASE Refuse
  BY <1>3, RefuseKeeps
<1>4. CASE Place
  BY <1>4, PlaceKeeps
<1>5. CASE UNCHANGED vars
  <2>1. Table' = Table
    BY <1>5 DEF vars, Table, Placement
  <2> QED BY <1>5, <2>1 DEF vars, Inv, IsLevel, Legal
<1> QED BY <1>1, <1>2, <1>3, <1>4, <1>5 DEF Next

\* The invariant: the parts of the state that every step of the deal and of
\* the placements keeps, for any pack, level and number of seats.
THEOREM InvAlways == Spec => []Inv
<1>1. Init => Inv
  BY InvInitially
<1>2. Inv /\ [Next]_vars => Inv'
  BY InvNext
<1> QED BY <1>1, <1>2, PTL DEF Spec

\* The agents never give up a hand that the table could still win (LosingIsLost).
THEOREM NoHandIsGivenUp == Spec => []LosingIsLost
<1>1. Inv => LosingIsLost
  BY NothingIsGivenUp
<1> QED BY <1>1, InvAlways, PTL

\* The invariant implies the types.
LEMMA InvTyped == Inv => TypeOK
<1> SUFFICES ASSUME Inv PROVE TypeOK
  OBVIOUS
<1>1. Cardinality(DOMAIN Table) = Len(played)
  BY PlacementFacts DEF Inv, Table
<1> QED BY <1>1 DEF Inv, TypeOK

\* The variables keep their types, and no card lies on the table twice.
THEOREM TypesHold == Spec => []TypeOK
<1>1. Inv => TypeOK
  BY InvTyped
<1> QED BY <1>1, InvAlways, PTL

-----------------------------------------------------------------------------
(* Turns: whose card is played as number n *)

\* Division by the number of seats or the size of a hand.
LEMMA Divides ==
  ASSUME NEW N \in Nat \ {0}, NEW x \in Nat
  PROVE  /\ x = N * (x \div N) + (x % N)
         /\ x % N \in Nat /\ x % N < N /\ x \div N \in Nat
OBVIOUS

\* The same for the number of seats.
LEMMA SeatDivides ==
  ASSUME NEW x \in Nat
  PROVE  /\ x = NSeats * (x \div NSeats) + (x % NSeats)
         /\ x % NSeats \in Nat /\ x % NSeats < NSeats /\ x \div NSeats \in Nat
BY Divides, Sizes

\* Quotient and remainder are determined.
LEMMA DividesOnce ==
  ASSUME NEW N \in Nat \ {0}, NEW x \in Nat, NEW q \in Nat, NEW r \in Nat, r < N, x = N * q + r
  PROVE  x % N = r /\ x \div N = q
OBVIOUS

\* A multiple of N grows by N at a time.
LEMMA Products ==
  ASSUME NEW N \in Nat \ {0}, NEW x \in Nat, NEW y \in Nat
  PROVE  /\ N * x \in Nat
         /\ x >= y + 1 => N * x >= N * y + N
         /\ N * (y + 1) = N * y + N
OBVIOUS

\* The seat after the seat of a turn is the seat of the next turn.
LEMMA NextTurn ==
  ASSUME NEW N \in Nat \ {0}, NEW x \in Nat
  PROVE  ((x % N) + 1) % N = (x + 1) % N
<1> DEFINE q == x \div N
           r == x % N
<1>1. x = N * q + r /\ r \in Nat /\ r < N /\ q \in Nat
  BY Divides
<1> HIDE DEF q, r
<1>2. CASE r + 1 < N
  <2>1. x + 1 = N * q + (r + 1)
    <3>1. N * q \in Nat
      BY <1>1, Products
    <3> QED BY <1>1, <3>1
  <2>2. (x + 1) % N = r + 1
    <3>1. r + 1 \in Nat /\ x + 1 \in Nat
      BY <1>1
    <3> HIDE DEF r
    <3> QED BY <1>1, <1>2, <2>1, <3>1, DividesOnce
  <2>3. r + 1 = N * 0 + (r + 1)
    BY <1>1
  <2>4. (r + 1) % N = r + 1
    BY <1>1, <1>2, <2>3, DividesOnce
  <2> QED BY <2>2, <2>4 DEF r
<1>3. CASE r + 1 = N
  <2>1. x + 1 = N * (q + 1) + 0
    <3>1. N * q \in Nat /\ N * (q + 1) = N * q + N
      BY <1>1, Products
    <3> QED BY <1>1, <1>3, <3>1
  <2>2. (x + 1) % N = 0
    <3>1. q + 1 \in Nat /\ 0 \in Nat /\ 0 < N /\ x + 1 \in Nat
      BY <1>1
    <3> QED BY <2>1, <3>1, DividesOnce
  <2>3. N = N * 1 + 0
    OBVIOUS
  <2>4. N % N = 0
    BY <2>3, DividesOnce
  <2> QED BY <1>3, <2>2, <2>4 DEF r
<1> QED BY <1>1, <1>2, <1>3

\* The seat after the one of turn x is that of turn x + 1.
LEMMA TurnAfter ==
  ASSUME NEW x \in Nat
  PROVE  ((x % NSeats) + 1) % NSeats = (x + 1) % NSeats
<1>1. PICK N \in Nat \ {0} : N = NSeats
  BY Sizes
<1>2. ((x % N) + 1) % N = (x + 1) % N
  BY NextTurn, Zenon
<1> QED BY <1>1, <1>2, Zenon

\* The turns of a seat when a given one opens, and its cards.
Turns(first, seat) == {i \in Cards : (first + i - 1) % NSeats = seat}
Holding(seat) == {c \in Cards : Owner(c) = seat}

\* Every card belongs to a seat.
LEMMA SeatsHold ==
  /\ Cards = 1..(NSeats * HandSize) /\ NSeats * HandSize \in Nat
  /\ NSeats * HandSize >= 1
  /\ \A c \in Cards : Owner(c) \in Seats
<1>1. NSeats * HandSize \in Nat /\ NSeats * HandSize >= 1
  <2>1. NSeats * HandSize >= NSeats * 0 + NSeats
    BY Sizes, Products
  <2> QED BY <2>1, Sizes
<1>2. ASSUME NEW c \in Cards PROVE Owner(c) \in Seats
  <2> DEFINE q == (c - 1) \div HandSize
             r == (c - 1) % HandSize
  <2>1. c - 1 \in Nat /\ c - 1 < HandSize * NSeats
    BY <1>1, Sizes DEF Cards
  <2>2. c - 1 = HandSize * q + r /\ r \in Nat /\ q \in Nat
    BY <2>1, Sizes
  <2> HIDE DEF q, r
  <2>3. q < NSeats
    <3> SUFFICES ASSUME q >= NSeats PROVE FALSE
      BY <2>2, Sizes
    <3>1. q = NSeats \/ q >= NSeats + 1
      BY <2>2, Sizes
    <3>2. HandSize * q >= HandSize * NSeats
      BY <2>2, <3>1, Sizes, Products
    <3>3. HandSize * q \in Nat /\ HandSize * NSeats \in Nat
      BY <2>2, Sizes, Products
    <3> QED BY <2>1, <2>2, <3>2, <3>3
  <2>4. q \in 0..(NSeats - 1)
    BY <2>2, <2>3, Sizes
  <2> QED BY <2>4 DEF Owner, Seats, q
<1> QED BY <1>1, <1>2 DEF Cards

\* A seat holds a whole hand.
LEMMA HandsAreFull ==
  ASSUME NEW seat \in Seats
  PROVE  IsFiniteSet(Holding(seat)) /\ Cardinality(Holding(seat)) = HandSize
<1> DEFINE a == HandSize * seat
<1>1. a \in Nat /\ seat \in Nat /\ seat < NSeats
  BY Sizes, Products DEF Seats
<1>2. a + HandSize <= NSeats * HandSize
  <2>1. HandSize * NSeats >= HandSize * seat + HandSize
    BY <1>1, Sizes, Products
  <2> QED BY <2>1, Sizes
<1> HIDE DEF a
<1>3. ASSUME NEW c \in Cards PROVE Owner(c) = seat <=> c \in (a + 1)..(a + HandSize)
  <2> DEFINE q == (c - 1) \div HandSize
             r == (c - 1) % HandSize
  <2>1. c - 1 \in Nat /\ c \in Nat
    BY SeatsHold
  <2>2. c - 1 = HandSize * q + r /\ r \in Nat /\ q \in Nat /\ r < HandSize
    BY <2>1, Sizes
  <2>3. Owner(c) = q
    BY DEF Owner
  <2> HIDE DEF q, r
  <2>4. q = seat => c \in (a + 1)..(a + HandSize)
    BY <1>1, <2>1, <2>2, Sizes DEF a
  <2>5. ASSUME c \in (a + 1)..(a + HandSize) PROVE Owner(c) = seat
    <3>1. c - 1 - a \in Nat /\ c - 1 - a < HandSize /\ c - 1 = HandSize * seat + (c - 1 - a)
      BY <1>1, <2>1, <2>5, Sizes DEF a
    <3>2. (c - 1) \div HandSize = seat
      BY <1>1, <2>1, <3>1, Sizes, DividesOnce
    <3> QED BY <3>2 DEF Owner
  <2> QED BY <2>3, <2>4, <2>5
<1>4. Holding(seat) = (a + 1)..(a + HandSize)
  <2>1. (a + 1)..(a + HandSize) \subseteq Cards
    BY <1>1, <1>2, SeatsHold, Sizes
  <2> QED BY <1>3, <2>1 DEF Holding
<1>5. IsFiniteSet((a + 1)..(a + HandSize)) /\ Cardinality((a + 1)..(a + HandSize)) = HandSize
  <2>1. /\ a + 1 \in Int /\ a + HandSize \in Int /\ HandSize > 0
        /\ (a + HandSize) - (a + 1) + 1 = HandSize /\ ~(a + 1 > a + HandSize)
    BY <1>1, Sizes
  <2>2. IsFiniteSet((a + 1)..(a + HandSize))
        /\ Cardinality((a + 1)..(a + HandSize)) = (a + HandSize) - (a + 1) + 1
    BY <2>1, FS_Interval
  <2> QED BY <2>1, <2>2
<1> QED BY <1>4, <1>5

\* No seat has more turns than cards.
LEMMA TurnsAreFew ==
  ASSUME NEW first \in Seats, NEW seat \in Seats
  PROVE  IsFiniteSet(Turns(first, seat)) /\ Cardinality(Turns(first, seat)) <= HandSize
<1> DEFINE T == Turns(first, seat)
           f == [i \in T |-> (i - 1) \div NSeats]
<1>0. first \in Nat /\ seat \in Nat
  BY Sizes DEF Seats
<1>1. ASSUME NEW i \in T
      PROVE  /\ i - 1 \in Nat /\ (i - 1) \div NSeats \in 0..(HandSize - 1)
             /\ \E a \in Nat : first + i - 1 = NSeats * a + seat
  <2>1. i - 1 \in Nat /\ i - 1 < NSeats * HandSize
    BY SeatsHold DEF Turns
  <2> DEFINE q == (i - 1) \div NSeats
             r == (i - 1) % NSeats
  <2>2. i - 1 = NSeats * q + r /\ r \in Nat /\ q \in Nat
    BY <2>1, Sizes
  <2> HIDE DEF q, r
  <2>3. q < HandSize
    <3> SUFFICES ASSUME q >= HandSize PROVE FALSE
      BY <2>2, Sizes
    <3>1. q = HandSize \/ q >= HandSize + 1
      BY <2>2, Sizes
    <3>2. NSeats * q >= NSeats * HandSize /\ NSeats * q \in Nat /\ NSeats * HandSize \in Nat
      BY <2>2, <3>1, Sizes, Products
    <3> QED BY <2>1, <2>2, <3>2
  <2>4. q \in 0..(HandSize - 1)
    BY <2>2, <2>3, Sizes
  <2> DEFINE x == first + i - 1
  <2>5. x \in Nat /\ x % NSeats = seat
    BY <1>0, <2>1 DEF Turns
  <2> HIDE DEF x
  <2>6. x = NSeats * (x \div NSeats) + seat /\ x \div NSeats \in Nat
    BY <2>5, Sizes
  <2> QED BY <2>1, <2>4, <2>6 DEF q, x
<1>2. ASSUME NEW i \in T, NEW j \in T, (i - 1) \div NSeats = (j - 1) \div NSeats PROVE i = j
  <2>0. PICK x \in Nat, y \in Nat : x = i - 1 /\ y = j - 1
    BY <1>1
  <2> DEFINE q == x \div NSeats
             r1 == x % NSeats
             r2 == y % NSeats
  <2>1. i - 1 = NSeats * q + r1 /\ r1 \in Nat /\ q \in Nat /\ r1 < NSeats
    BY <2>0, SeatDivides
  <2>2. j - 1 = NSeats * q + r2 /\ r2 \in Nat /\ r2 < NSeats
    <3>1. j - 1 = NSeats * (y \div NSeats) + r2 /\ r2 \in Nat /\ r2 < NSeats
      BY <2>0, SeatDivides
    <3> QED BY <1>2, <2>0, <3>1
  <2>3. PICK a \in Nat : first + i - 1 = NSeats * a + seat
    BY <1>1
  <2>4. PICK b \in Nat : first + j - 1 = NSeats * b + seat
    BY <1>1
  <2>5. i \in Nat /\ j \in Nat
    BY SeatsHold DEF Turns
  <2> HIDE DEF q, r1, r2, T
  <2>6. NSeats * q \in Nat /\ NSeats * a \in Nat /\ NSeats * b \in Nat
    BY <2>1, Sizes, Products
  <2>7. i - j = NSeats * a - NSeats * b /\ i - j < NSeats /\ j - i < NSeats
    BY <1>0, <2>1, <2>2, <2>3, <2>4, <2>5, <2>6, Sizes
  <2>8. a = b
    <3>1. a >= b + 1 => NSeats * a >= NSeats * b + NSeats
      BY Sizes, Products
    <3>2. b >= a + 1 => NSeats * b >= NSeats * a + NSeats
      BY Sizes, Products
    <3> QED BY <2>5, <2>6, <2>7, <3>1, <3>2, Sizes
  <2> QED BY <2>5, <2>6, <2>7, <2>8
<1>3. f \in Injection(T, 0..(HandSize - 1))
  <2>1. f \in [T -> 0..(HandSize - 1)]
    BY <1>1
  <2>2. \A i, j \in T : f[i] = f[j] => i = j
    BY <1>2
  <2> QED BY <2>1, <2>2 DEF Injection, IsInjective
<1>4. IsFiniteSet(0..(HandSize - 1)) /\ Cardinality(0..(HandSize - 1)) = HandSize
  <2>1. /\ 0 \in Int /\ HandSize - 1 \in Int /\ ~(0 > HandSize - 1)
        /\ (HandSize - 1) - 0 + 1 = HandSize
    BY Sizes
  <2>2. IsFiniteSet(0..(HandSize - 1))
        /\ Cardinality(0..(HandSize - 1)) = (HandSize - 1) - 0 + 1
    BY <2>1, FS_Interval
  <2> QED BY <2>1, <2>2
<1>5. IsFiniteSet(T) /\ Cardinality(T) <= Cardinality(0..(HandSize - 1))
  <2> HIDE DEF f
  <2> QED BY <1>3, <1>4, FS_Injection
<1> QED BY <1>4, <1>5

-----------------------------------------------------------------------------
(* A placement in which every seat has enough cards where they are required can be played *)

\* There is room in a set for one that is not larger.
LEMMA InjectionExists ==
  ASSUME NEW A, NEW B, IsFiniteSet(A), IsFiniteSet(B), Cardinality(A) <= Cardinality(B)
  PROVE  \E f \in [A -> B] : \A x, y \in A : f[x] = f[y] => x = y
<1>1. Cardinality(A) \in Nat /\ Cardinality(B) \in Nat
  BY FS_CardinalityType
<1>2. PICK a : a \in Bijection(A, 1..Cardinality(A))
  <2>1. ExistsBijection(1..Cardinality(A), A)
    BY FS_CardinalityType
  <2>2. ExistsBijection(A, 1..Cardinality(A))
    BY <2>1, Fun_ExistsBijSymmetric
  <2> QED BY <2>2 DEF ExistsBijection
<1>3. PICK b : b \in Bijection(1..Cardinality(B), B)
  BY FS_CardinalityType DEF ExistsBijection
<1>4. a \in [A -> 1..Cardinality(A)] /\ \A x, y \in A : a[x] = a[y] => x = y
  BY <1>2 DEF Bijection, Injection, IsInjective
<1>5. /\ b \in [1..Cardinality(B) -> B]
      /\ \A m, n \in 1..Cardinality(B) : b[m] = b[n] => m = n
  BY <1>3 DEF Bijection, Injection, IsInjective
<1> DEFINE f == [x \in A |-> b[a[x]]]
<1>6. \A x \in A : a[x] \in 1..Cardinality(B)
  BY <1>1, <1>4
<1>7. f \in [A -> B]
  BY <1>5, <1>6
<1>8. \A x, y \in A : f[x] = f[y] => x = y
  BY <1>4, <1>5, <1>6
<1> QED BY <1>7, <1>8

\* The cards of a seat in a segment.
Own(full, seat, s) == {c \in On(full, s) : Owner(c) = seat}

\* A seat can lay the cards it must where it must, and the others in its other turns.
LEMMA SeatPlays ==
  ASSUME IsLevel(level), NEW full \in [Cards -> Segments], NEW first \in Seats, NEW seat \in Seats,
         \A q, r \in Ordered(level) : q.order = r.order => q.segment = r.segment,
         \A q \in Ordered(level) : q.order \in Cards,
         \A s \in Segments : Cardinality(Own(full, seat, s)) >= Cardinality(Due(level, first, seat, s))
  PROVE  \E g \in [Turns(first, seat) -> Holding(seat)] :
           /\ \A i, j \in Turns(first, seat) : g[i] = g[j] => i = j
           /\ \A q \in Ordered(level) :
                q.order \in Turns(first, seat) => full[g[q.order]] = q.segment
<1> DEFINE T == Turns(first, seat)
           H == Holding(seat)
           D(s) == Due(level, first, seat, s)
           O(s) == Own(full, seat, s)
           E == [s \in Segments |-> CHOOSE e \in [D(s) -> O(s)] :
                                      \A x, y \in D(s) : e[x] = e[y] => x = y]
<1>1. ASSUME NEW s \in Segments
      PROVE  /\ D(s) \in SUBSET T /\ O(s) \in SUBSET H
             /\ \A c \in O(s) : full[c] = s
  BY DEF Due, Turns, Own, Holding, On
<1>2. T \in SUBSET Cards /\ H \in SUBSET Cards
  BY DEF Turns, Holding
<1>3. ASSUME NEW s \in Segments
      PROVE  E[s] \in [D(s) -> O(s)] /\ \A x, y \in D(s) : E[s][x] = E[s][y] => x = y
  <2>1. IsFiniteSet(D(s)) /\ IsFiniteSet(O(s)) /\ Cardinality(D(s)) \in Nat /\ Cardinality(O(s)) \in Nat
    <3> HIDE DEF D, O, T, H
    <3>1. D(s) \in SUBSET Cards /\ O(s) \in SUBSET Cards
      BY <1>1, <1>2
    <3> QED BY <3>1, CardsFinite
  <2>2. Cardinality(D(s)) <= Cardinality(O(s))
    BY <2>1
  <2>3. \E e \in [D(s) -> O(s)] : \A x, y \in D(s) : e[x] = e[y] => x = y
    <3> HIDE DEF D, O
    <3> QED BY <2>1, <2>2, InjectionExists
  <2>4. E[s] = CHOOSE e \in [D(s) -> O(s)] : \A x, y \in D(s) : e[x] = e[y] => x = y
    OBVIOUS
  <2> HIDE DEF D, O, E
  <2> QED BY <2>3, <2>4
<1>4. ASSUME NEW s \in Segments, NEW t \in Segments, NEW o \in D(s), o \in D(t) PROVE s = t
  <2>1. PICK q \in Ordered(level) : q.order = o /\ q.segment = s
    BY DEF Due
  <2>2. PICK r \in Ordered(level) : r.order = o /\ r.segment = t
    BY <1>4 DEF Due
  <2> QED BY <2>1, <2>2
<1>5. ASSUME NEW q \in Ordered(level), q.order \in T
      PROVE  q.segment \in Segments /\ q.order \in D(q.segment)
  <2>1. q.segment \in Segments
    BY Fields DEF Ordered, IsLevel
  <2> QED BY <1>5, <2>1 DEF Due, Turns
<1> HIDE DEF T, H, D, O, E
<1> DEFINE Dued == UNION {D(s) : s \in Segments}
           seg == [o \in Dued |-> CHOOSE s \in Segments : o \in D(s)]
           e == [o \in Dued |-> E[seg[o]][o]]
           I == {e[o] : o \in Dued}
<1>6. ASSUME NEW o \in Dued
      PROVE  seg[o] \in Segments /\ o \in D(seg[o]) /\ \A s \in Segments : o \in D(s) => s = seg[o]
  <2>1. \E s \in Segments : o \in D(s)
    OBVIOUS
  <2>2. seg[o] \in Segments /\ o \in D(seg[o])
    BY <2>1
  <2> QED BY <1>4, <2>2
<1>7. ASSUME NEW o \in Dued
      PROVE  e[o] \in O(seg[o]) /\ e[o] \in H /\ full[e[o]] = seg[o]
  <2>1. seg[o] \in Segments /\ o \in D(seg[o])
    BY <1>6
  <2>2. E[seg[o]] \in [D(seg[o]) -> O(seg[o])]
    BY <1>3, <2>1
  <2>3. e[o] = E[seg[o]][o]
    OBVIOUS
  <2> HIDE DEF e, seg, Dued
  <2>4. e[o] \in O(seg[o])
    BY <2>1, <2>2, <2>3
  <2> QED BY <1>1, <2>1, <2>4
<1>8. ASSUME NEW o1 \in Dued, NEW o2 \in Dued, e[o1] = e[o2] PROVE o1 = o2
  <2>1. seg[o1] = seg[o2]
    <3> HIDE DEF e, seg, Dued
    <3> QED BY <1>7, <1>8
  <2>2. e[o1] = E[seg[o1]][o1] /\ e[o2] = E[seg[o2]][o2]
    OBVIOUS
  <2>3. seg[o1] \in Segments /\ o1 \in D(seg[o1]) /\ o2 \in D(seg[o2])
    BY <1>6
  <2> HIDE DEF e, seg, Dued
  <2> QED BY <1>3, <1>8, <2>1, <2>2, <2>3
<1>9. Dued \in SUBSET T
  BY <1>1
<1>10. I \in SUBSET H
  BY <1>7
<1>11. /\ IsFiniteSet(T) /\ IsFiniteSet(H) /\ IsFiniteSet(Dued) /\ IsFiniteSet(I)
       /\ Cardinality(T) <= Cardinality(H)
       /\ Cardinality(T) \in Nat /\ Cardinality(H) \in Nat
  <2>1. IsFiniteSet(T) /\ IsFiniteSet(H) /\ Cardinality(T) <= Cardinality(H)
    BY TurnsAreFew, HandsAreFull DEF T, H
  <2> HIDE DEF Dued, I
  <2> QED BY <1>9, <1>10, <2>1, FS_Subset, FS_CardinalityType
<1>12. Cardinality(I) = Cardinality(Dued) /\ Cardinality(I) \in Nat
  <2>1. e \in Bijection(Dued, I)
    <3>1. e \in [Dued -> I]
      OBVIOUS
    <3>2. \A o1, o2 \in Dued : e[o1] = e[o2] => o1 = o2
      BY <1>8
    <3>3. \A c \in I : \E o \in Dued : e[o] = c
      OBVIOUS
    <3> HIDE DEF e, I, Dued
    <3> QED BY <3>1, <3>2, <3>3 DEF Bijection, Injection, Surjection, IsInjective
  <2> HIDE DEF e, I, Dued
  <2>2. IsFiniteSet(Dued)
    BY <1>11
  <2>3. Cardinality(I) = Cardinality(Dued)
    BY <2>1, <2>2, FS_Bijection, Zenon DEF ExistsBijection
  <2>4. Cardinality(Dued) \in Nat
    BY <2>2, FS_CardinalityType
  <2> QED BY <2>3, <2>4
<1>13. \E f \in [T \ Dued -> H \ I] : \A x, y \in T \ Dued : f[x] = f[y] => x = y
  <2> HIDE DEF Dued, I
  <2>1. /\ IsFiniteSet(T \ Dued) /\ Cardinality(T \ Dued) = Cardinality(T) - Cardinality(Dued)
        /\ IsFiniteSet(H \ I) /\ Cardinality(H \ I) = Cardinality(H) - Cardinality(I)
    <3>1. T \cap Dued = Dued /\ H \cap I = I
      BY <1>9, <1>10
    <3>2. /\ IsFiniteSet(T \ Dued)
          /\ Cardinality(T \ Dued) = Cardinality(T) - Cardinality(T \cap Dued)
      BY <1>11, FS_Difference
    <3>3. /\ IsFiniteSet(H \ I)
          /\ Cardinality(H \ I) = Cardinality(H) - Cardinality(H \cap I)
      BY <1>11, FS_Difference
    <3> QED BY <3>1, <3>2, <3>3
  <2>2. Cardinality(T \ Dued) <= Cardinality(H \ I)
    BY <1>11, <1>12, <2>1
  <2> QED BY <2>1, <2>2, InjectionExists
<1>14. PICK f \in [T \ Dued -> H \ I] : \A x, y \in T \ Dued : f[x] = f[y] => x = y
  BY <1>13
<1> DEFINE g == [i \in T |-> IF i \in Dued THEN e[i] ELSE f[i]]
<1>15. \A i \in T : /\ i \in Dued => g[i] = e[i] /\ g[i] \in I /\ g[i] \in H
                    /\ i \notin Dued => g[i] = f[i] /\ g[i] \in H \ I
  <2>1. \A i \in Dued : e[i] \in I
    OBVIOUS
  <2> HIDE DEF Dued, I, e
  <2> QED BY <1>10, <1>14, <2>1
<1>16. g \in [T -> H]
  <2> HIDE DEF Dued, I, e
  <2> QED BY <1>15
<1>17. \A i, j \in T : g[i] = g[j] => i = j
  <2> HIDE DEF Dued, I, e, g
  <2> QED BY <1>8, <1>14, <1>15
<1>18. ASSUME NEW q \in Ordered(level), q.order \in T PROVE full[g[q.order]] = q.segment
  <2>1. q.segment \in Segments /\ q.order \in D(q.segment)
    BY <1>5, <1>18 DEF T
  <2>2. q.order \in Dued
    BY <2>1
  <2>3. seg[q.order] = q.segment
    <3> HIDE DEF Dued, seg
    <3> QED BY <1>6, <2>1, <2>2
  <2> HIDE DEF Dued, I, e, g, seg
  <2> QED BY <1>7, <1>15, <1>18, <2>2, <2>3
<1> HIDE DEF g
<1> QED BY <1>16, <1>17, <1>18 DEF T, H

\* When the solver's test of the playing orders passes, there is an order of play.
LEMMA PlayExists ==
  ASSUME IsLevel(level), NEW full \in [Cards -> Segments], OrderPossible(level, full)
  PROVE  \E p \in Plays : Passes(Ordered(level), deal, full, p)
<1>1. /\ \A q, r \in Ordered(level) : q.order = r.order => q.segment = r.segment
      /\ \A q \in Ordered(level) : q.order \in Cards
  BY CardsFinite DEF OrderPossible, Cards
<1>2. PICK first \in Seats : \A seat \in Seats, s \in Segments :
        Cardinality(Own(full, seat, s)) >= Cardinality(Due(level, first, seat, s))
  <2>1. CASE Ordered(level) = {}
    <3>1. 0 \in Seats
      BY Sizes DEF Seats
    <3>2. ASSUME NEW seat \in Seats, NEW s \in Segments
          PROVE  Cardinality(Own(full, seat, s)) >= Cardinality(Due(level, 0, seat, s))
      <4>1. Due(level, 0, seat, s) = {}
        BY <2>1 DEF Due
      <4>2. Cardinality(Due(level, 0, seat, s)) = 0
        BY <4>1, FS_EmptySet
      <4>3. Own(full, seat, s) \in SUBSET Cards
        BY DEF Own, On
      <4> QED BY <4>2, <4>3, CardsFinite
    <3> QED BY <3>1, <3>2
  <2>2. CASE Ordered(level) # {}
    BY <2>2 DEF OrderPossible, Own
  <2> QED BY <2>1, <2>2
<1> DEFINE Good(g, seat) ==
             /\ g \in [Turns(first, seat) -> Holding(seat)]
             /\ \A i, j \in Turns(first, seat) : g[i] = g[j] => i = j
             /\ \A q \in Ordered(level) :
                  q.order \in Turns(first, seat) => full[g[q.order]] = q.segment
           G == [seat \in Seats |-> CHOOSE g : Good(g, seat)]
           t(i) == (first + i - 1) % NSeats
           p == [i \in Cards |-> G[t(i)][i]]
<1>3. \A seat \in Seats : Good(G[seat], seat)
  <2> SUFFICES ASSUME NEW seat \in Seats PROVE Good(G[seat], seat)
    OBVIOUS
  <2>1. \E g : Good(g, seat)
    <3>1. \A s \in Segments :
            Cardinality(Own(full, seat, s)) >= Cardinality(Due(level, first, seat, s))
      BY <1>2
    <3>2. \E g \in [Turns(first, seat) -> Holding(seat)] :
           /\ \A i, j \in Turns(first, seat) : g[i] = g[j] => i = j
           /\ \A q \in Ordered(level) :
                q.order \in Turns(first, seat) => full[g[q.order]] = q.segment
      BY <1>1, <3>1, SeatPlays
    <3> QED BY <3>2
  <2>2. G[seat] = CHOOSE g : Good(g, seat)
    OBVIOUS
  <2> HIDE DEF Good, G
  <2> QED BY <2>1, <2>2
<1>4. ASSUME NEW i \in Cards PROVE t(i) \in Seats /\ i \in Turns(first, t(i)) /\ first + i - 1 \in Nat
  <2>1. first + i - 1 \in Nat
    BY SeatsHold, Sizes DEF Seats
  <2>2. PICK x \in Nat : x = first + i - 1
    BY <2>1
  <2>3. x % NSeats \in Nat /\ x % NSeats < NSeats
    BY SeatDivides
  <2>4. t(i) \in Seats
    BY <2>2, <2>3, Sizes DEF Seats
  <2> QED BY <2>1, <2>4 DEF Turns
<1> HIDE DEF G
<1>5. ASSUME NEW i \in Cards PROVE p[i] \in Cards /\ Owner(p[i]) = t(i)
  <2>1. G[t(i)] \in [Turns(first, t(i)) -> Holding(t(i))]
    BY <1>3, <1>4
  <2>2. G[t(i)][i] \in Holding(t(i))
    BY <1>4, <2>1
  <2>3. p[i] = G[t(i)][i]
    OBVIOUS
  <2> HIDE DEF p, t
  <2> QED BY <2>2, <2>3 DEF Holding
<1>6. p \in [Cards -> Cards]
  BY <1>5
<1>7. ASSUME NEW i \in Cards, NEW j \in Cards, p[i] = p[j] PROVE i = j
  <2>1. t(i) = t(j)
    <3> HIDE DEF p, t
    <3> QED BY <1>5, <1>7
  <2>2. p[i] = G[t(i)][i] /\ p[j] = G[t(j)][j]
    OBVIOUS
  <2>3. \A m, n \in Turns(first, t(i)) : G[t(i)][m] = G[t(i)][n] => m = n
    BY <1>3, <1>4
  <2>4. i \in Turns(first, t(i)) /\ j \in Turns(first, t(j))
    BY <1>4
  <2> HIDE DEF p, t, Good
  <2> QED BY <1>7, <2>1, <2>2, <2>3, <2>4
<1>8. ASSUME NEW i \in Cards \ {1} PROVE Owner(p[i]) = (Owner(p[i - 1]) + 1) % NSeats
  <2>1. i - 1 \in Cards
    BY SeatsHold
  <2>2. PICK x \in Nat : x = first + (i - 1) - 1
    BY <1>4, <2>1
  <2>3. first + i - 1 = x + 1
    BY <2>2, SeatsHold, Sizes DEF Seats
  <2>4. ((x % NSeats) + 1) % NSeats = (x + 1) % NSeats
    BY TurnAfter
  <2>5. Owner(p[i]) = (x + 1) % NSeats
    BY <1>5, <2>3
  <2>6. Owner(p[i - 1]) = x % NSeats
    BY <1>5, <2>1, <2>2
  <2> HIDE DEF p
  <2> QED BY <2>4, <2>5, <2>6
<1>9. p \in Plays
  <2> HIDE DEF p
  <2> QED BY <1>6, <1>7, <1>8 DEF Plays
<1>10. ASSUME NEW q \in Ordered(level) PROVE Holds(q, deal, full, p)
  <2>1. q.order \in Cards /\ q.type = "placement-order"
    BY <1>1 DEF Ordered
  <2>2. full[G[t(q.order)][q.order]] = q.segment
    BY <1>3, <1>4, <2>1
  <2>3. p[q.order] = G[t(q.order)][q.order] /\ DOMAIN p = Cards
    BY <2>1
  <2> HIDE DEF p, t
  <2> QED BY <2>1, <2>2, <2>3 DEF Holds
<1> HIDE DEF p
<1> QED BY <1>9, <1>10 DEF Passes

-----------------------------------------------------------------------------
(* A placement that passes has no part that the search prunes *)

\* A placement that is part of one of all cards.
Within(placement, full) ==
  /\ full \in [Cards -> Segments]
  /\ DOMAIN placement \in SUBSET Cards
  /\ \A c \in DOMAIN placement : full[c] = placement[c]

\* What lies on a segment is part of what lies there in the end.
LEMMA PartsWithin ==
  ASSUME deal \in Deals, NEW placement, NEW full, Within(placement, full), NEW s
  PROVE  /\ On(placement, s) \in SUBSET On(full, s) /\ On(full, s) \in SUBSET Cards
         /\ Cardinality(On(placement, s)) \in Nat /\ Cardinality(On(full, s)) \in Nat
         /\ Cardinality(On(placement, s)) <= Cardinality(On(full, s))
         /\ Total(deal, On(placement, s)) \in Nat /\ Total(deal, On(full, s)) \in Nat
         /\ Total(deal, On(placement, s)) <= Total(deal, On(full, s))
<1>1. On(placement, s) \in SUBSET On(full, s) /\ On(full, s) \in SUBSET Cards
  BY DEF Within, On
<1>2. Cardinality(On(placement, s)) <= Cardinality(On(full, s))
  BY <1>1, CardsFinite, FS_Subset
<1>3. Total(deal, On(placement, s)) <= Total(deal, On(full, s))
  BY <1>1, TotalSubset
<1>4. Total(deal, On(placement, s)) \in Nat /\ Total(deal, On(full, s)) \in Nat
  BY <1>1, TotalBounds
<1> QED BY <1>1, <1>2, <1>3, <1>4, CardsFinite

\* So is what lies there of a colour.
LEMMA ColorsWithin ==
  ASSUME deal \in Deals, NEW placement, NEW full, Within(placement, full), NEW s, NEW color
  PROVE  /\ Cardinality(OfColor(deal, On(placement, s), color)) \in Nat
         /\ Cardinality(OfColor(deal, On(full, s), color)) \in Nat
         /\ Cardinality(OfColor(deal, On(placement, s), color))
              <= Cardinality(OfColor(deal, On(full, s), color))
<1> DEFINE A == OfColor(deal, On(placement, s), color)
           B == OfColor(deal, On(full, s), color)
<1>1. A \in SUBSET B /\ B \in SUBSET Cards
  BY PartsWithin DEF OfColor
<1> HIDE DEF A, B
<1>2. Cardinality(A) \in Nat /\ Cardinality(B) \in Nat /\ Cardinality(A) <= Cardinality(B)
  BY <1>1, CardsFinite, FS_Subset
<1> QED BY <1>2 DEF A, B

\* What a placement fulfils, no part of it exceeds.
LEMMA NotExceeded ==
  ASSUME deal \in Deals, NEW q \in Condition, NEW placement, NEW full, Within(placement, full),
         q.type # "placement-order" => CardsHold(q, deal, full)
  PROVE  ~Exceeded(q, deal, placement)
<1> SUFFICES ASSUME Exceeded(q, deal, placement) PROVE FALSE
  OBVIOUS
<1>1. \A s : /\ Cardinality(On(placement, s)) \in Nat /\ Cardinality(On(full, s)) \in Nat
             /\ Cardinality(On(placement, s)) <= Cardinality(On(full, s))
             /\ Total(deal, On(placement, s)) \in Nat /\ Total(deal, On(full, s)) \in Nat
             /\ Total(deal, On(placement, s)) <= Total(deal, On(full, s))
             /\ On(placement, s) \in SUBSET On(full, s)
  BY PartsWithin
<1>2. \A s, color : /\ Cardinality(OfColor(deal, On(placement, s), color)) \in Nat
                    /\ Cardinality(OfColor(deal, On(full, s), color)) \in Nat
                    /\ Cardinality(OfColor(deal, On(placement, s), color))
                         <= Cardinality(OfColor(deal, On(full, s), color))
  BY ColorsWithin
<1>3. CASE q.type \in {"max-cards", "exact-cards"}
  <2>1. Cardinality(On(placement, q.segment)) > q.count /\ q.count \in Nat
    BY <1>3, Fields DEF Exceeded
  <2>2. q.type = "max-cards" => Cardinality(On(full, q.segment)) <= q.count
    BY DEF CardsHold
  <2>3. q.type = "exact-cards" => Cardinality(On(full, q.segment)) = q.count
    BY DEF CardsHold
  <2> QED BY <1>1, <1>3, <2>1, <2>2, <2>3
<1>4. CASE q.type \in {"sum-equals", "sum-range"}
  <2>1. q.type = "sum-equals" => /\ Total(deal, On(placement, q.segment)) > q.value
                                 /\ q.value \in Nat
                                 /\ Total(deal, On(full, q.segment)) = q.value
    BY Fields DEF Exceeded, CardsHold, SumAt
  <2>2. q.type = "sum-range" => /\ Total(deal, On(placement, q.segment)) > q.max
                                /\ q.max \in Nat /\ q.min \in Nat
                                /\ Total(deal, On(full, q.segment)) \in q.min..q.max
    BY Fields DEF Exceeded, CardsHold, SumAt
  <2> QED BY <1>1, <1>4, <2>1, <2>2
<1>5. CASE q.type = "segment-colors"
  <2>1. /\ \/ Cardinality(OfColor(deal, On(placement, q.segment), "black")) > q.black
           \/ Cardinality(OfColor(deal, On(placement, q.segment), "white")) > q.white
        /\ q.black \in Nat /\ q.white \in Nat
    BY <1>5, Fields DEF Exceeded
  <2>2. /\ Cardinality(OfColor(deal, On(full, q.segment), "black")) = q.black
        /\ Cardinality(OfColor(deal, On(full, q.segment), "white")) = q.white
    BY <1>5 DEF CardsHold
  <2> QED BY <1>2, <2>1, <2>2
<1>6. CASE q.type = "max-color-cards"
  <2>1. /\ Cardinality(OfColor(deal, On(placement, q.segment), q.color)) > q.count
        /\ q.count \in Nat
    BY <1>6, Fields DEF Exceeded
  <2>2. Cardinality(OfColor(deal, On(full, q.segment), q.color)) <= q.count
    BY <1>6 DEF CardsHold
  <2> QED BY <1>2, <2>1, <2>2
<1>7. CASE q.type = "forbidden-values"
  <2>1. Values(deal, On(placement, q.segment)) \cap q.values # {}
    BY <1>7 DEF Exceeded
  <2>2. Values(deal, On(full, q.segment)) \cap q.values = {}
    BY <1>7 DEF CardsHold
  <2>3. Values(deal, On(placement, q.segment)) \subseteq Values(deal, On(full, q.segment))
    BY <1>1 DEF Values
  <2> QED BY <2>1, <2>2, <2>3
<1>8. CASE q.type = "max-sum-each"
  <2>1. PICK s \in Segments : Total(deal, On(placement, s)) > q.value
    BY <1>8 DEF Exceeded, SumAt
  <2>2. Total(deal, On(full, s)) <= q.value /\ q.value \in Nat
    BY <1>8, Fields DEF CardsHold, SumAt
  <2> QED BY <1>1, <2>1, <2>2
<1>9. q.type \in {"max-cards", "exact-cards", "sum-equals", "sum-range", "segment-colors",
                  "max-color-cards", "forbidden-values", "max-sum-each"}
  BY DEF Exceeded
<1> QED BY <1>3, <1>4, <1>5, <1>6, <1>7, <1>8, <1>9

\* What a placement fulfils, every part of it can still attain with the other cards.
LEMMA StillAttainable ==
  ASSUME deal \in Deals, NEW q \in Condition, NEW placement, NEW full, Within(placement, full),
         q.type # "placement-order" => CardsHold(q, deal, full)
  PROVE  Attainable(q, deal, placement, Cards \ DOMAIN placement)
<1> DEFINE left == Cards \ DOMAIN placement
<1>1. left \in SUBSET Cards /\ IsFiniteSet(left) /\ Cardinality(left) \in Nat
  BY CardsFinite
<1>2. \A s : /\ On(placement, s) \in SUBSET On(full, s)
             /\ On(full, s) \in SUBSET Cards
             /\ On(full, s) \ On(placement, s) \in SUBSET left
  BY DEF Within, On
<1> HIDE DEF left
<1>3. ASSUME NEW s
      PROVE  /\ Cardinality(On(full, s)) <= Cardinality(On(placement, s)) + Cardinality(left)
             /\ Total(deal, On(full, s)) <= Total(deal, On(placement, s)) + Total(deal, left)
             /\ Total(deal, left) \in Nat
             /\ Cardinality(On(full, s)) \in Nat /\ Cardinality(On(placement, s)) \in Nat
             /\ Total(deal, On(full, s)) \in Nat /\ Total(deal, On(placement, s)) \in Nat
             /\ Total(deal, On(placement, s)) <= Total(deal, On(full, s))
  <2> DEFINE R == On(full, s) \ On(placement, s)
             A == On(placement, s)
             F == On(full, s)
  <2>1. /\ R \in SUBSET left /\ F \cap A = A /\ F \in SUBSET Cards /\ A \in SUBSET F /\ A \in SUBSET Cards
        /\ R \in SUBSET Cards
    BY <1>1, <1>2
  <2>2. /\ Cardinality(A) \in Nat /\ Cardinality(F) \in Nat
        /\ Total(deal, F) \in Nat /\ Total(deal, A) \in Nat /\ Total(deal, left) \in Nat
    <3> HIDE DEF A, F, R
    <3> QED BY <1>1, <2>1, CardsFinite, TotalBounds
  <2>3. Cardinality(R) = Cardinality(F) - Cardinality(A)
    <3>1. Cardinality(F \ A) = Cardinality(F) - Cardinality(F \cap A)
      <4> HIDE DEF A, F, R
      <4> QED BY <2>1, CardsFinite, FS_Difference
    <3> QED BY <2>1, <3>1
  <2>4. Cardinality(R) <= Cardinality(left) /\ Cardinality(R) \in Nat
    <3> HIDE DEF A, F, R
    <3> QED BY <1>1, <2>1, CardsFinite, FS_Subset
  <2>5. Total(deal, F) = Total(deal, A) + Total(deal, F \ A) /\ Total(deal, A) <= Total(deal, F)
    <3> HIDE DEF A, F, R
    <3> QED BY <2>1, TotalSubset
  <2>6. Total(deal, R) <= Total(deal, left) /\ Total(deal, R) \in Nat
    <3> HIDE DEF A, F, R
    <3> QED BY <1>1, <2>1, TotalSubset, TotalBounds
  <2>7. F \ A = R
    OBVIOUS
  <2>8. Cardinality(F) <= Cardinality(A) + Cardinality(left)
    <3> HIDE DEF A, F, R
    <3> QED BY <1>1, <2>2, <2>3, <2>4
  <2>9. Total(deal, F) <= Total(deal, A) + Total(deal, left)
    <3>1. Total(deal, F) = Total(deal, A) + Total(deal, R)
      BY <2>5, <2>7
    <3> HIDE DEF A, F, R
    <3> QED BY <2>2, <2>6, <3>1
  <2> QED BY <2>2, <2>5, <2>8, <2>9
<1>4. CASE q.type = "all-nonempty"
  <2> DEFINE E == {s \in Segments : On(placement, s) = {}}
             f == [s \in E |-> CHOOSE c \in Cards : c \in On(full, s)]
  <2>1. \A s \in Segments : On(full, s) # {}
    BY <1>4 DEF CardsHold
  <2>2. \A s \in E : f[s] \in left /\ full[f[s]] = s
    <3> SUFFICES ASSUME NEW s \in E PROVE f[s] \in left /\ full[f[s]] = s
      OBVIOUS
    <3>1. \E c \in Cards : c \in On(full, s)
      BY <1>2, <2>1
    <3>2. f[s] \in On(full, s)
      BY <3>1
    <3> HIDE DEF f
    <3>3. f[s] \in On(full, s) \ On(placement, s)
      BY <3>2
    <3> QED BY <1>2, <3>2, <3>3 DEF On
  <2>3. f \in Injection(E, left)
    <3>1. f \in [E -> left]
      <4>1. f = [s \in E |-> f[s]]
        OBVIOUS
      <4> HIDE DEF f
      <4> QED BY <2>2, <4>1
    <3>2. \A s, t \in E : f[s] = f[t] => s = t
      <4> HIDE DEF f
      <4> QED BY <2>2
    <3> HIDE DEF f, E
    <3> QED BY <3>1, <3>2 DEF Injection, IsInjective
  <2>4. Cardinality(E) <= Cardinality(left)
    <3> HIDE DEF f, E
    <3> QED BY <1>1, <2>3, FS_Injection
  <2> QED BY <1>4, <2>4 DEF Attainable, left
<1>5. CASE q.type \in {"min-cards", "exact-cards"}
  <2>1. q.count \in Nat
    BY <1>5, Fields
  <2>2. Cardinality(On(full, q.segment)) >= q.count
    <3>1. CASE q.type = "min-cards"
      BY <3>1 DEF CardsHold
    <3>2. CASE q.type = "exact-cards"
      <4>1. Cardinality(On(full, q.segment)) = q.count
        BY <3>2 DEF CardsHold
      <4> QED BY <2>1, <4>1
    <3> QED BY <1>5, <3>1, <3>2
  <2>3. Cardinality(On(placement, q.segment)) + Cardinality(left) >= q.count
    BY <1>1, <1>3, <2>1, <2>2
  <2> QED BY <1>5, <2>3 DEF Attainable, left
<1>6. CASE q.type = "sum-equals"
  <2>1. q.value \in Nat /\ Total(deal, On(full, q.segment)) = q.value
    BY <1>6, Fields DEF CardsHold, SumAt
  <2>2. /\ Total(deal, On(placement, q.segment)) <= q.value
        /\ Total(deal, On(placement, q.segment)) + Total(deal, left) >= q.value
    BY <1>3, <2>1
  <2> QED BY <1>6, <2>2 DEF Attainable, left
<1>7. CASE q.type = "sum-range"
  <2>1. q.min \in Nat /\ q.max \in Nat /\ Total(deal, On(full, q.segment)) \in q.min..q.max
    BY <1>7, Fields DEF CardsHold, SumAt
  <2>2. /\ Total(deal, On(placement, q.segment)) <= q.max
        /\ Total(deal, On(placement, q.segment)) + Total(deal, left) >= q.min
    BY <1>3, <2>1
  <2> QED BY <1>7, <2>2 DEF Attainable, left
<1>8. CASE q.type \notin {"all-nonempty", "min-cards", "exact-cards", "sum-equals", "sum-range"}
  BY <1>8 DEF Attainable
<1> QED BY <1>4, <1>5, <1>6, <1>7, <1>8

\* In an order of play every turn belongs to the seat it comes to from the first.
LEMMA OwnersInTurn ==
  ASSUME NEW p \in Plays
  PROVE  /\ Owner(p[1]) \in Seats
         /\ \A i \in Cards : Owner(p[i]) = (Owner(p[1]) + i - 1) % NSeats
<1> DEFINE first == Owner(p[1])
           Bad == {i \in Cards : Owner(p[i]) # (first + i - 1) % NSeats}
<1>0. /\ p \in [Cards -> Cards]
      /\ \A i \in Cards \ {1} : Owner(p[i]) = (Owner(p[i - 1]) + 1) % NSeats
  BY DEF Plays
<1>1. first \in Seats /\ first \in Nat /\ first < NSeats /\ 1 \in Cards
  <2>1. 1 \in Cards
    BY SeatsHold
  <2>2. first \in Seats
    BY <1>0, <2>1, SeatsHold
  <2> QED BY <2>1, <2>2, Sizes DEF Seats
<1>2. ASSUME Bad # {} PROVE FALSE
  <2>1. Bad \in SUBSET Nat
    BY SeatsHold
  <2>2. PICK i \in Bad : \A j \in Bad : i <= j
    <3> HIDE DEF Bad
    <3> QED BY <1>2, <2>1, LeastExists
  <2>3. i \in Cards /\ Owner(p[i]) # (first + i - 1) % NSeats /\ i \in Nat
    BY <2>1
  <2>4. CASE i = 1
    <3>1. PICK N \in Nat \ {0} : N = NSeats
      BY Sizes
    <3>2. PICK x \in Nat : x = first
      BY <1>1
    <3>3. x = N * 0 + x /\ x < N
      BY <1>1, <3>1, <3>2
    <3>4. x % N = x
      BY <3>3, DividesOnce
    <3>5. first + i - 1 = x
      BY <1>1, <2>4, <3>2
    <3> QED BY <2>3, <2>4, <3>1, <3>2, <3>4, <3>5
  <2>5. CASE i # 1
    <3>1. i - 1 \in Cards /\ i - 1 \in Nat
      BY <2>3, <2>5, SeatsHold
    <3>2. i - 1 \notin Bad
      BY <2>2, <2>3, <3>1
    <3>3. PICK x \in Nat : x = first + (i - 1) - 1
      BY <1>1, <2>3, <2>5, <3>1, SeatsHold
    <3>4. Owner(p[i - 1]) = x % NSeats
      BY <3>1, <3>2, <3>3
    <3>5. Owner(p[i]) = ((x % NSeats) + 1) % NSeats
      BY <1>0, <2>3, <2>5, <3>4
    <3>6. ((x % NSeats) + 1) % NSeats = (x + 1) % NSeats
      BY TurnAfter
    <3>7. x + 1 = first + i - 1
      BY <1>1, <2>3, <3>3
    <3> HIDE DEF first
    <3> QED BY <2>3, <3>5, <3>6, <3>7
  <2> QED BY <2>4, <2>5
<1> QED BY <1>1, <1>2

\* The playing orders that pass are ones that the solver's test lets through.
LEMMA PlayedIsPossible ==
  ASSUME IsLevel(level), NEW full \in [Cards -> Segments], NEW p \in Plays,
         Passes(Ordered(level), deal, full, p)
  PROVE  OrderPossible(level, full)
<1> DEFINE first == Owner(p[1])
<1>0. /\ p \in [Cards -> Cards]
      /\ \A i, j \in Cards : p[i] = p[j] => i = j
  BY DEF Plays
<1>1. \A q \in Ordered(level) : q.order \in Cards /\ full[p[q.order]] = q.segment
  BY <1>0 DEF Passes, Holds, Ordered
<1>2. /\ \A q, r \in Ordered(level) : q.order = r.order => q.segment = r.segment
      /\ \A q \in Ordered(level) : q.order \in 1..Cardinality(Cards)
  BY <1>1, CardsFinite DEF Cards
<1>3. first \in Seats /\ \A i \in Cards : Owner(p[i]) = (first + i - 1) % NSeats
  BY OwnersInTurn
<1> HIDE DEF first
<1>4. ASSUME NEW seat \in Seats, NEW s \in Segments
      PROVE  Cardinality(Own(full, seat, s)) >= Cardinality(Due(level, first, seat, s))
  <2> DEFINE D == Due(level, first, seat, s)
             O == Own(full, seat, s)
             f == [o \in D |-> p[o]]
  <2>1. \A o \in D : o \in Cards /\ p[o] \in O
    <3> SUFFICES ASSUME NEW o \in D PROVE o \in Cards /\ p[o] \in O
      OBVIOUS
    <3>1. PICK q \in Ordered(level) : q.order = o /\ q.segment = s
      BY DEF Due
    <3>2. (first + o - 1) % NSeats = seat
      BY DEF Due
    <3>3. o \in Cards /\ full[p[o]] = s
      BY <1>1, <3>1
    <3>4. Owner(p[o]) = seat /\ p[o] \in Cards
      BY <1>0, <1>3, <3>2, <3>3
    <3> QED BY <3>3, <3>4 DEF Own, On
  <2>2. f \in Injection(D, O)
    <3> HIDE DEF D, O
    <3> QED BY <1>0, <2>1 DEF Injection, IsInjective
  <2>3. O \in SUBSET Cards /\ D \in SUBSET Cards
    BY <2>1 DEF Own, On
  <2>4. Cardinality(D) <= Cardinality(O) /\ Cardinality(D) \in Nat /\ Cardinality(O) \in Nat
    <3> HIDE DEF D, O, f
    <3> QED BY <2>2, <2>3, CardsFinite, FS_Injection
  <2> HIDE DEF D, O, f
  <2>5. Cardinality(O) >= Cardinality(D)
    BY <2>4
  <2> QED BY <2>5 DEF D, O
<1> QED BY <1>2, <1>3, <1>4 DEF OrderPossible, Own

-----------------------------------------------------------------------------
(* The search in a possible world is exact *)

\* A completion the search finds passes in some order of play.
LEMMA CompletionFound ==
  ASSUME IsLevel(level), NEW P, DOMAIN P \in SUBSET Cards, P \in [DOMAIN P -> Segments],
         CanComplete(level, deal, P)
  PROVE  Completes(P, Plays)
<1>1. PICK rest \in [Cards \ DOMAIN P -> Segments] : Finished(level, deal, Joined(P, rest))
  BY DEF CanComplete
<1>2. Joined(P, rest) \in [Cards -> Segments]
  BY JoinedWhole
<1>3. PICK p \in Plays : Passes(Ordered(level), deal, Joined(P, rest), p)
  <2>1. PICK full \in [Cards -> Segments] : full = Joined(P, rest)
    BY <1>2
  <2>2. OrderPossible(level, full)
    BY <1>1, <2>1 DEF Finished
  <2> QED BY <2>1, <2>2, PlayExists
<1> QED BY <1>1, <1>3 DEF Completes, Finished

\* A completion that passes in some order is not pruned anywhere on its path.
LEMMA CompletionIsFound ==
  ASSUME deal \in Deals, IsLevel(level),
         NEW P, DOMAIN P \in SUBSET Cards, P \in [DOMAIN P -> Segments],
         Completes(P, Plays)
  PROVE  CanComplete(level, deal, P)
<1>1. PICK full, p : p \in Plays /\ Completion(P, full, p)
  BY CompletesIs
<1>2. /\ full \in [Cards -> Segments] /\ Fulfils(full) /\ Passes(Ordered(level), deal, full, p)
      /\ \A c \in DOMAIN P : full[c] = P[c]
  BY <1>1 DEF Completion
<1>3. \A q \in level : q \in Condition /\ (q.type # "placement-order" => CardsHold(q, deal, full))
  BY <1>2 DEF IsLevel, Ordered, Fulfils
<1>4. Within(P, full)
  BY <1>2 DEF Within
<1>5. \A q \in level : ~Exceeded(q, deal, P)
  BY <1>3, <1>4, NotExceeded
<1>6. PICK rest \in [Cards \ DOMAIN P -> Segments] :
        Joined(P, rest) = full /\ \A c \in Cards \ DOMAIN P : rest[c] = full[c]
  BY <1>2, RestOf
<1>7. ASSUME NEW c \in DOMAIN rest, NEW left, left = {d \in DOMAIN rest : Before(deal, c, d)},
             NEW placed, placed = Joined(P, [d \in DOMAIN rest \ left |-> rest[d]]),
             NEW q \in level
      PROVE  ~Exceeded(q, deal, placed) /\ Attainable(q, deal, placed, left)
  <2> DEFINE some == [d \in DOMAIN rest \ left |-> rest[d]]
  <2>1. DOMAIN rest = Cards \ DOMAIN P /\ left \in SUBSET (Cards \ DOMAIN P)
    BY <1>7
  <2>2. DOMAIN some = DOMAIN rest \ left /\ \A d \in DOMAIN some : some[d] = full[d]
    BY <1>6, <2>1
  <2>3. placed = Joined(P, some)
    BY <1>7
  <2> HIDE DEF some
  <2>4. DOMAIN placed = Cards \ left
    BY <2>1, <2>2, <2>3 DEF Joined
  <2>5. \A d \in DOMAIN placed : full[d] = placed[d]
    BY <1>2, <2>1, <2>2, <2>3, <2>4 DEF Joined
  <2>6. Within(placed, full)
    BY <1>2, <2>4, <2>5 DEF Within
  <2>7. Cards \ DOMAIN placed = left
    BY <2>1, <2>4
  <2>8. q \in Condition /\ (q.type # "placement-order" => CardsHold(q, deal, full))
    BY <1>3
  <2>9. ~Exceeded(q, deal, placed)
    BY <2>6, <2>8, NotExceeded
  <2>10. Attainable(q, deal, placed, Cards \ DOMAIN placed)
    BY <2>6, <2>8, StillAttainable
  <2> QED BY <2>7, <2>9, <2>10, Zenon
<1>8. Finished(level, deal, Joined(P, rest))
  <2>1. Finished(level, deal, full)
    BY <1>1, <1>2, PlayedIsPossible DEF Finished, Fulfils
  <2> QED BY <1>6, <2>1, Zenon
<1>9. \A c \in DOMAIN rest :
        LET left == {d \in DOMAIN rest : Before(deal, c, d)}
            placed == Joined(P, [d \in DOMAIN rest \ left |-> rest[d]])
        IN \A q \in level : ~Exceeded(q, deal, placed) /\ Attainable(q, deal, placed, left)
  BY <1>7, Zenon
<1> QED BY <1>5, <1>8, <1>9, Zenon DEF CanComplete

\* The cards as they lie are possible for whoever sees only some of them.
LEMMA RealIsPossible ==
  ASSUME deal \in Deals, NEW seat
  PROVE  PossibleWorld(seat, deal)
<1>1. \A c \in Cards : deal[c].value \in 1..MaxValue /\ deal[c].color \in Colors
  BY WorthType
<1>2. \A c, d \in Cards : deal[c] = deal[d] => c = d
  BY DEF Deals
<1> QED BY <1>1, <1>2 DEF PossibleWorld, Slot

\* The search in a possible world finds a completion exactly when there is one
\* (SearchIsExact), for any pack, level and table.
THEOREM TheSearchIsExact == Spec => []SearchIsExact
<1>1. Inv => SearchIsExact
  <2> SUFFICES ASSUME Inv PROVE SearchIsExact
    OBVIOUS
  <2>1. TypeOK
    BY InvTyped
  <2>2. ASSUME stage = "placing"
        PROVE  /\ CanComplete(level, deal, Table) <=> Completes(Table, Plays)
               /\ \A seat \in Seats : PossibleWorld(seat, deal)
    <3>1. /\ deal \in Deals /\ IsLevel(level)
          /\ DOMAIN Table \in SUBSET Cards /\ Table \in [DOMAIN Table -> Segments]
      BY <2>2, Parts
    <3> QED BY <3>1, CompletionFound, CompletionIsFound, RealIsPossible
  <2> QED BY <2>1, <2>2 DEF SearchIsExact
<1> QED BY <1>1, InvAlways, PTL

-----------------------------------------------------------------------------
(* The search over subsets: its order, and what a call returns *)

\* The masks have a first one in the order in which they are tried.

\* Two different masks have different numbers.
LEMMA NumbersDiffer ==
  ASSUME NEW m \in SUBSET Cards, NEW n \in SUBSET Cards, m # n
  PROVE  NumberedBefore(m, n) \/ NumberedBefore(n, m)
<1> DEFINE D == (m \ n) \cup (n \ m)
<1>1. D \in SUBSET Nat /\ D # {} /\ NSeats * HandSize \in Nat /\ \A x \in D : x <= NSeats * HandSize
  BY SeatsHold
<1>2. PICK c \in D : \A d \in D : c >= d
  <2> HIDE DEF D
  <2> QED BY <1>1, GreatestExists
<1>3. \A d \in Cards : d > c => (d \in m <=> d \in n)
  <2> SUFFICES ASSUME NEW d \in Cards, d > c, d \in D PROVE FALSE
    OBVIOUS
  <2> QED BY <1>1, <1>2
<1> QED BY <1>3 DEF NumberedBefore

\* The order of their numbers is transitive.
LEMMA NumbersFollow ==
  ASSUME NEW k \in SUBSET Cards, NEW m \in SUBSET Cards, NEW n \in SUBSET Cards,
         NumberedBefore(k, m), NumberedBefore(m, n)
  PROVE  NumberedBefore(k, n)
<1>1. PICK c \in m \ k : \A d \in Cards : d > c => (d \in k <=> d \in m)
  BY DEF NumberedBefore
<1>2. PICK e \in n \ m : \A d \in Cards : d > e => (d \in m <=> d \in n)
  BY DEF NumberedBefore
<1>3. c \in Cards /\ e \in Cards /\ Cards \in SUBSET Nat /\ c # e
  BY SeatsHold
<1>4. CASE c > e
  <2>1. c \in n \ k
    BY <1>2, <1>3, <1>4
  <2>2. \A d \in Cards : d > c => (d \in k <=> d \in n)
    BY <1>1, <1>2, <1>3, <1>4
  <2> QED BY <2>1, <2>2 DEF NumberedBefore
<1>5. CASE e > c
  <2>1. e \in n \ k
    BY <1>1, <1>3, <1>5
  <2>2. \A d \in Cards : d > e => (d \in k <=> d \in n)
    BY <1>1, <1>2, <1>3, <1>5
  <2> QED BY <2>1, <2>2 DEF NumberedBefore
<1> QED BY <1>3, <1>4, <1>5

TriedBefore(m, n) ==
  \/ Total(deal, m) < Total(deal, n)
  \/ Total(deal, m) = Total(deal, n) /\ NumberedBefore(m, n)

\* So the order in which masks are tried is a strict linear one.
LEMMA TriedInOrder ==
  ASSUME deal \in Deals
  PROVE  /\ \A m, n \in SUBSET Cards : m # n => TriedBefore(m, n) \/ TriedBefore(n, m)
         /\ \A k, m, n \in SUBSET Cards :
              TriedBefore(k, m) /\ TriedBefore(m, n) => TriedBefore(k, n)
<1>1. \A m \in SUBSET Cards : Total(deal, m) \in Nat
  BY TotalBounds
<1>2. ASSUME NEW m \in SUBSET Cards, NEW n \in SUBSET Cards, m # n
      PROVE  TriedBefore(m, n) \/ TriedBefore(n, m)
  <2>1. NumberedBefore(m, n) \/ NumberedBefore(n, m)
    BY <1>2, NumbersDiffer
  <2> QED BY <1>1, <2>1 DEF TriedBefore
<1>3. ASSUME NEW k \in SUBSET Cards, NEW m \in SUBSET Cards, NEW n \in SUBSET Cards,
             TriedBefore(k, m), TriedBefore(m, n)
      PROVE  TriedBefore(k, n)
  <2>1. NumberedBefore(k, m) /\ NumberedBefore(m, n) => NumberedBefore(k, n)
    BY NumbersFollow
  <2> QED BY <1>1, <1>3, <2>1 DEF TriedBefore
<1> QED BY <1>2, <1>3

\* Any masks have a first one.
LEMMA FirstMaskExists ==
  ASSUME deal \in Deals, NEW masks \in SUBSET SUBSET Cards, masks # {}
  PROVE  FirstMask(deal, masks) \in masks
<1> DEFINE First(T) == \E m \in T : \A n \in T \ {m} : TriedBefore(m, n)
           Good == {T \in SUBSET masks : T # {} => First(T)}
<1>1. IsFiniteSet(masks)
  <2>1. IsFiniteSet(SUBSET Cards)
    BY CardsFinite, FS_SUBSET
  <2> QED BY <2>1, FS_Subset
<1>2. {} \in Good
  OBVIOUS
<1>3. ASSUME NEW T \in SUBSET masks, T # {}, \A x \in T : T \ {x} \in Good
      PROVE  T \in Good
  <2>1. PICK x \in T : T \ {x} \in Good
    BY <1>3
  <2>2. CASE T \ {x} = {}
    <3>1. \A n \in T \ {x} : TriedBefore(x, n)
      BY <2>2
    <3> QED BY <3>1
  <2>3. CASE T \ {x} # {}
    <3>1. PICK m \in T \ {x} : \A n \in (T \ {x}) \ {m} : TriedBefore(m, n)
      BY <2>1, <2>3
    <3>2. m \in SUBSET Cards /\ x \in SUBSET Cards /\ m # x /\ T \in SUBSET SUBSET Cards
      BY <3>1
    <3>3. CASE TriedBefore(m, x)
      <4>1. \A n \in T \ {m} : TriedBefore(m, n)
        BY <3>1, <3>3
      <4> QED BY <3>1, <4>1
    <3>4. CASE TriedBefore(x, m)
      <4>1. \A n \in T \ {x} : TriedBefore(x, n)
        BY <3>1, <3>2, <3>4, TriedInOrder
      <4> QED BY <4>1
    <3> QED BY <3>2, <3>3, <3>4, TriedInOrder
  <2> QED BY <2>2, <2>3
<1>4. masks \in Good
  <2> HIDE DEF Good
  <2>1. \A T \in SUBSET masks : T # {} /\ (\A x \in T : T \ {x} \in Good) => T \in Good
    BY <1>3
  <2>2. \A T \in SUBSET masks : T \in Good
    BY <1>1, <1>2, <2>1, SubsetInduction
  <2> QED BY <2>2
<1>5. \E m \in masks : \A n \in masks \ {m} : TriedBefore(m, n)
  BY <1>4
<1>6. FirstMask(deal, masks) = CHOOSE m \in masks : \A n \in masks \ {m} : TriedBefore(m, n)
  BY DEF FirstMask, TriedBefore
<1>7. (CHOOSE m \in masks : \A n \in masks \ {m} : TriedBefore(m, n)) \in masks
  BY <1>5
<1> QED BY <1>6, <1>7, Zenon

-----------------------------------------------------------------------------

\* What a call of the search returns.
Returns == [found : BOOLEAN, failed : SUBSET Keys]

\* How far a call is from the end of the search: no segment has more masks
\* than Width - 1.
Width == Cardinality(SUBSET Cards) + 1
ToGo(node) == Width * (LastSegment - node.segment) + Cardinality(node.masks)

\* Some placement of all cards passes the solver's last test.
Winning == \E full \in [Cards -> Segments] : Finished(level, deal, full)

\* The parts of a call.
NextOf(node) == Joined(node.placement, [c \in FirstMask(deal, node.masks) |-> node.segment])
BelowOf(node) ==
  Call(level, deal, node.segment + 1, NextOf(node), Total(deal, FirstMask(deal, node.masks)),
       node.failed)
Tried(search, node) ==
  IF node.segment = LastSegment
  THEN [found |-> DOMAIN NextOf(node) = Cards /\ Finished(level, deal, NextOf(node)),
        failed |-> node.failed]
  ELSE IF Key(BelowOf(node)) \in node.failed THEN [found |-> FALSE, failed |-> node.failed]
  ELSE search[BelowOf(node)]
LoopOf(node, failed) ==
  [node EXCEPT !.masks = @ \ {FirstMask(deal, node.masks)}, !.failed = failed]

\* The body of the search, by its parts.
LEMMA ResultIs ==
  ASSUME NEW search, NEW node
  PROVE  Result(level, deal, search, node) =
           IF node.masks = {}
           THEN [found |-> FALSE, failed |-> node.failed \cup {Key(node)}]
           ELSE IF Tried(search, node).found THEN Tried(search, node)
           ELSE search[LoopOf(node, Tried(search, node).failed)]
BY DEF Result, Tried, LoopOf, BelowOf, NextOf

\* The fields of a call.
LEMMA NodeFields ==
  ASSUME NEW node \in Nodes
  PROVE  /\ node.segment \in Segments
         /\ node.segment \in Nat /\ LastSegment - node.segment \in Nat
         /\ DOMAIN node.placement \in SUBSET Cards
         /\ node.placement \in [DOMAIN node.placement -> Segments]
         /\ node.previousSum \in Nat
         /\ node.masks \in SUBSET SUBSET Cards
         /\ node.failed \in SUBSET Keys
<1>1. /\ node.segment \in Segments
      /\ node.placement \in UNION {[used -> Segments] : used \in SUBSET Cards}
      /\ node.previousSum \in Nat
      /\ node.masks \in SUBSET SUBSET Cards
      /\ node.failed \in SUBSET Keys
  BY DEF Nodes
<1>2. PICK used \in SUBSET Cards : node.placement \in [used -> Segments]
  BY <1>1
<1>3. node.segment \in Nat /\ LastSegment - node.segment \in Nat
  BY <1>1, Sizes DEF Segments
<1> QED BY <1>1, <1>2, <1>3

\* The key of a call, under which its failure is remembered.
LEMMA KeyIsKey ==
  ASSUME NEW node \in Nodes
  PROVE  Key(node) \in Keys
BY NodeFields DEF Key, Keys

\* There are fewer masks than Width.
LEMMA MasksFinite ==
  /\ Width \in Nat \ {0}
  /\ \A masks \in SUBSET SUBSET Cards :
       IsFiniteSet(masks) /\ Cardinality(masks) \in Nat /\ Cardinality(masks) < Width
<1> DEFINE S == SUBSET Cards
<1>1. IsFiniteSet(S) /\ Cardinality(S) \in Nat
  BY CardsFinite, FS_SUBSET, FS_CardinalityType
<1>2. Width = Cardinality(S) + 1
  BY DEF Width
<1>3. ASSUME NEW masks \in SUBSET S
      PROVE  IsFiniteSet(masks) /\ Cardinality(masks) \in Nat /\ Cardinality(masks) <= Cardinality(S)
  <2> HIDE DEF S
  <2> QED BY <1>1, FS_Subset, FS_CardinalityType
<1>4. \A masks \in SUBSET S : Cardinality(masks) < Width
  <2> HIDE DEF S
  <2> QED BY <1>1, <1>2, <1>3
<1>5. Width \in Nat \ {0}
  <2> HIDE DEF S
  <2> QED BY <1>1, <1>2
<1> QED BY <1>3, <1>4, <1>5

-----------------------------------------------------------------------------
(* What a call returns depends on calls nearer to the end *)

\* The distance of a call from the end is a number.
LEMMA ToGoIs ==
  ASSUME NEW node \in Nodes
  PROVE  /\ ToGo(node) \in Nat
         /\ Cardinality(node.masks) \in Nat /\ Cardinality(node.masks) < Width
         /\ Width * (LastSegment - node.segment) \in Nat
         /\ ToGo(node) = Width * (LastSegment - node.segment) + Cardinality(node.masks)
<1>1. node.masks \in SUBSET SUBSET Cards /\ LastSegment - node.segment \in Nat
  BY NodeFields
<1>2. Cardinality(node.masks) \in Nat /\ Cardinality(node.masks) < Width /\ Width \in Nat \ {0}
  BY <1>1, MasksFinite
<1>3. Width * (LastSegment - node.segment) \in Nat
  <2>1. PICK y \in Nat : y = LastSegment - node.segment
    BY <1>1
  <2>2. Width * y \in Nat
    BY <1>2, Products
  <2> QED BY <2>1, <2>2
<1> QED BY <1>2, <1>3 DEF ToGo

\* The masks of a call are sets of cards, so that the call is one of the nodes.
LEMMA CallIsNode ==
  ASSUME NEW s \in Segments, NEW placement,
         DOMAIN placement \in SUBSET Cards, placement \in [DOMAIN placement -> Segments],
         NEW sum \in Nat, NEW failed \in SUBSET Keys
  PROVE  /\ Call(level, deal, s, placement, sum, failed) \in Nodes
         /\ Call(level, deal, s, placement, sum, failed).segment = s
<1> DEFINE masks == MasksFor(level, deal, s, placement, sum)
<1>1. masks \in SUBSET SUBSET Cards
  BY DEF MasksFor
<1>2. placement \in UNION {[used -> Segments] : used \in SUBSET Cards}
  OBVIOUS
<1>3. Call(level, deal, s, placement, sum, failed) =
        [segment |-> s, placement |-> placement, previousSum |-> sum,
         masks |-> masks, failed |-> failed]
  BY DEF Call
<1> HIDE DEF masks
<1> QED BY <1>1, <1>2, <1>3 DEF Nodes

\* The first mask, laid on the segment of the call, makes a placement.
LEMMA NextIs ==
  ASSUME deal \in Deals, NEW node \in Nodes, node.masks # {}
  PROVE  /\ FirstMask(deal, node.masks) \in node.masks
         /\ FirstMask(deal, node.masks) \in SUBSET Cards
         /\ Total(deal, FirstMask(deal, node.masks)) \in Nat
         /\ DOMAIN NextOf(node) \in SUBSET Cards
         /\ NextOf(node) \in [DOMAIN NextOf(node) -> Segments]
<1> DEFINE mask == FirstMask(deal, node.masks)
<1>1. node.masks \in SUBSET SUBSET Cards
  BY NodeFields
<1>2. mask \in node.masks /\ mask \in SUBSET Cards
  BY <1>1, FirstMaskExists
<1>3. Total(deal, mask) \in Nat
  <2> HIDE DEF mask
  <2> QED BY <1>2, TotalBounds
<1>4. /\ DOMAIN node.placement \in SUBSET Cards
      /\ node.placement \in [DOMAIN node.placement -> Segments]
      /\ node.segment \in Segments
  BY NodeFields
<1>5. NextOf(node) = Joined(node.placement, [c \in mask |-> node.segment])
  BY DEF NextOf
<1>6. DOMAIN NextOf(node) = DOMAIN node.placement \cup mask
  BY <1>5 DEF Joined
<1>7. NextOf(node) \in [DOMAIN node.placement \cup mask -> Segments]
  <2> HIDE DEF mask
  <2> QED BY <1>4, <1>5 DEF Joined
<1> QED BY <1>2, <1>3, <1>4, <1>6, <1>7

\* The search of the next segment is nearer to the end.
LEMMA BelowIsNearer ==
  ASSUME deal \in Deals, NEW node \in Nodes, node.masks # {}, node.segment # LastSegment
  PROVE  BelowOf(node) \in Nodes /\ ToGo(BelowOf(node)) < ToGo(node)
<1>1. /\ node.segment + 1 \in Segments /\ node.failed \in SUBSET Keys
      /\ LastSegment - node.segment \in Nat /\ node.segment \in Nat
  BY NodeFields, Sizes DEF Segments
<1>2. /\ DOMAIN NextOf(node) \in SUBSET Cards
      /\ NextOf(node) \in [DOMAIN NextOf(node) -> Segments]
      /\ Total(deal, FirstMask(deal, node.masks)) \in Nat
  BY NextIs
<1>3. PICK s \in Segments, sum \in Nat, failed \in SUBSET Keys :
        /\ s = node.segment + 1 /\ sum = Total(deal, FirstMask(deal, node.masks))
        /\ failed = node.failed
  BY <1>1, <1>2
<1> PICK placement : placement = NextOf(node)
  OBVIOUS
<1>4. BelowOf(node) = Call(level, deal, s, placement, sum, failed)
  BY <1>3 DEF BelowOf
<1>5. BelowOf(node) \in Nodes /\ BelowOf(node).segment = node.segment + 1
  <2>1. DOMAIN placement \in SUBSET Cards /\ placement \in [DOMAIN placement -> Segments]
    BY <1>2, <1>3
  <2>2. /\ Call(level, deal, s, placement, sum, failed) \in Nodes
        /\ Call(level, deal, s, placement, sum, failed).segment = s
    BY <2>1, CallIsNode
  <2> QED BY <1>3, <1>4, <2>2
<1>6. PICK below \in Nodes : below = BelowOf(node)
  BY <1>5
<1>7. /\ ToGo(below) = Width * (LastSegment - below.segment) + Cardinality(below.masks)
      /\ Cardinality(below.masks) \in Nat /\ Cardinality(below.masks) < Width
  BY ToGoIs
<1>8. PICK y \in Nat : y + 1 = LastSegment - node.segment /\ y = LastSegment - below.segment
  <2>1. LastSegment - node.segment - 1 \in Nat
    BY <1>1, Sizes DEF Segments
  <2>2. below.segment = node.segment + 1
    BY <1>5, <1>6
  <2>3. LastSegment \in Nat
    BY Sizes
  <2> QED BY <1>1, <2>1, <2>2, <2>3
<1>9. Width \in Nat \ {0} /\ Width * y \in Nat /\ Width * (y + 1) = Width * y + Width
  BY MasksFinite, Products
<1>10. ToGo(node) = Width * (y + 1) + Cardinality(node.masks) /\ Cardinality(node.masks) \in Nat
  BY <1>8, ToGoIs
<1>11. ToGo(below) = Width * y + Cardinality(below.masks)
  BY <1>7, <1>8
<1>12. ToGo(below) < ToGo(node)
  BY <1>7, <1>9, <1>10, <1>11
<1> QED BY <1>5, <1>6, <1>12

\* So is the same search with one mask less to try.
LEMMA LoopIsNearer ==
  ASSUME deal \in Deals, NEW node \in Nodes, node.masks # {}, NEW failed \in SUBSET Keys
  PROVE  LoopOf(node, failed) \in Nodes /\ ToGo(LoopOf(node, failed)) < ToGo(node)
<1>1. PICK mask : mask = FirstMask(deal, node.masks) /\ mask \in node.masks
  BY NextIs
<1>2. LoopOf(node, failed) =
        [segment |-> node.segment, placement |-> node.placement,
         previousSum |-> node.previousSum, masks |-> node.masks \ {mask}, failed |-> failed]
  <2>1. LoopOf(node, failed) = [node EXCEPT !.masks = @ \ {mask}, !.failed = failed]
    BY <1>1 DEF LoopOf
  <2>2. node = [segment |-> node.segment, placement |-> node.placement,
                previousSum |-> node.previousSum, masks |-> node.masks, failed |-> node.failed]
    BY DEF Nodes
  <2> QED BY <2>1, <2>2
<1>3. LoopOf(node, failed) \in Nodes
  BY <1>2 DEF Nodes
<1>4. PICK rest \in Nodes : rest = LoopOf(node, failed)
  BY <1>3
<1>5. rest.segment = node.segment /\ rest.masks = node.masks \ {mask}
  BY <1>2, <1>4
<1>6. Cardinality(rest.masks) = Cardinality(node.masks) - 1
  <2>1. IsFiniteSet(node.masks)
    BY NodeFields, MasksFinite
  <2>2. PICK masks : masks = node.masks
    OBVIOUS
  <2>3. Cardinality(masks \ {mask}) = IF mask \in masks THEN Cardinality(masks) - 1 ELSE Cardinality(masks)
    BY <2>1, <2>2, FS_RemoveElement
  <2> QED BY <1>1, <1>5, <2>2, <2>3
<1>7. /\ ToGo(node) = Width * (LastSegment - node.segment) + Cardinality(node.masks)
      /\ Width * (LastSegment - node.segment) \in Nat /\ Cardinality(node.masks) \in Nat
  BY ToGoIs
<1>8. ToGo(rest) = Width * (LastSegment - node.segment) + Cardinality(rest.masks)
  <2>1. ToGo(rest) = Width * (LastSegment - rest.segment) + Cardinality(rest.masks)
    BY ToGoIs
  <2> QED BY <1>5, <2>1
<1>9. ToGo(rest) < ToGo(node)
  BY <1>6, <1>7, <1>8
<1> QED BY <1>4, <1>9

\* What a call returns depends on nothing but nearer calls.
LEMMA TriedAlike ==
  ASSUME deal \in Deals, NEW node \in Nodes, node.masks # {}, NEW g, NEW h,
         \A x \in Nodes : ToGo(x) < ToGo(node) => g[x] = h[x] /\ g[x] \in Returns
  PROVE  Tried(g, node) = Tried(h, node) /\ Tried(g, node) \in Returns
<1>1. node.failed \in SUBSET Keys
  BY NodeFields
<1>2. CASE node.segment = LastSegment
  <2>1. PICK w \in BOOLEAN : w = (DOMAIN NextOf(node) = Cards /\ Finished(level, deal, NextOf(node)))
    <3> DEFINE wins == DOMAIN NextOf(node) = Cards /\ Finished(level, deal, NextOf(node))
    <3>1. wins \in BOOLEAN
      BY DEF Finished
    <3> HIDE DEF wins
    <3>2. \E w \in BOOLEAN : w = wins
      BY <3>1
    <3> QED BY <3>2 DEF wins
  <2>2. Tried(g, node) = [found |-> w, failed |-> node.failed]
        /\ Tried(h, node) = [found |-> w, failed |-> node.failed]
    BY <1>2, <2>1 DEF Tried
  <2> QED BY <1>1, <2>2 DEF Returns
<1>3. CASE node.segment # LastSegment
  <2>1. g[BelowOf(node)] = h[BelowOf(node)] /\ g[BelowOf(node)] \in Returns
    BY <1>3, BelowIsNearer
  <2>2. CASE Key(BelowOf(node)) \in node.failed
    <3>1. /\ Tried(g, node) = [found |-> FALSE, failed |-> node.failed]
          /\ Tried(h, node) = [found |-> FALSE, failed |-> node.failed]
      BY <1>3, <2>2 DEF Tried
    <3> QED BY <1>1, <3>1 DEF Returns
  <2>3. CASE Key(BelowOf(node)) \notin node.failed
    BY <1>3, <2>1, <2>3 DEF Tried
  <2> QED BY <2>2, <2>3
<1> QED BY <1>2, <1>3

\* So what a call returns is the same for two functions that agree on the
\* nearer calls.
LEMMA ResultAlike ==
  ASSUME deal \in Deals, NEW node \in Nodes, NEW g, NEW h,
         \A x \in Nodes : ToGo(x) < ToGo(node) => g[x] = h[x] /\ g[x] \in Returns
  PROVE  /\ Result(level, deal, g, node) = Result(level, deal, h, node)
         /\ Result(level, deal, g, node) \in Returns
<1>1. CASE node.masks = {}
  <2>1. /\ Result(level, deal, g, node) = [found |-> FALSE, failed |-> node.failed \cup {Key(node)}]
        /\ Result(level, deal, h, node) = [found |-> FALSE, failed |-> node.failed \cup {Key(node)}]
    BY <1>1, ResultIs
  <2>2. node.failed \cup {Key(node)} \in SUBSET Keys
    BY NodeFields, KeyIsKey
  <2> QED BY <2>1, <2>2 DEF Returns
<1>2. CASE node.masks # {}
  <2>1. PICK tried \in Returns : tried = Tried(g, node) /\ tried = Tried(h, node)
    BY <1>2, TriedAlike
  <2>2. /\ Result(level, deal, g, node) = IF tried.found THEN tried ELSE g[LoopOf(node, tried.failed)]
        /\ Result(level, deal, h, node) = IF tried.found THEN tried ELSE h[LoopOf(node, tried.failed)]
    BY <1>2, <2>1, ResultIs
  <2>3. tried.failed \in SUBSET Keys
    BY DEF Returns
  <2>4. LoopOf(node, tried.failed) \in Nodes /\ ToGo(LoopOf(node, tried.failed)) < ToGo(node)
    <3>1. PICK failed \in SUBSET Keys : failed = tried.failed
      BY <2>3
    <3> QED BY <1>2, <3>1, LoopIsNearer
  <2> QED BY <2>2, <2>4
<1> QED BY <1>1, <1>2

-----------------------------------------------------------------------------
(* So the recursion of the search has exactly one solution *)

\* The calls within a distance of the end, and the answers to all of them.
Near(n) == {x \in Nodes : ToGo(x) < n}
Answers(n, g) ==
  /\ g \in [Near(n) -> Returns]
  /\ \A x \in Near(n) : g[x] = Result(level, deal, g, x)

\* There is a nearest one among the calls of which something holds.
LEMMA NearestExists ==
  ASSUME NEW Bad \in SUBSET Nodes, Bad # {}
  PROVE  \E x \in Bad : \A y \in Bad : ToGo(x) <= ToGo(y)
<1> DEFINE f == [x \in Bad |-> ToGo(x)]
<1>1. f \in [Bad -> Nat]
  BY ToGoIs
<1>2. \A x \in Bad : f[x] = ToGo(x)
  OBVIOUS
<1> HIDE DEF f
<1>3. PICK x \in Bad : \A y \in Bad : f[x] <= f[y]
  BY <1>1, LeastImageExists
<1> QED BY <1>2, <1>3

\* There is one answer to a call only.
LEMMA AnswersAgree ==
  ASSUME deal \in Deals, NEW n \in Nat, NEW m \in Nat, NEW g, NEW h, Answers(n, g), Answers(m, h)
  PROVE  \A x \in Near(n) \cap Near(m) : g[x] = h[x]
<1> DEFINE Bad == {x \in Near(n) \cap Near(m) : g[x] # h[x]}
<1> SUFFICES ASSUME Bad # {} PROVE FALSE
  OBVIOUS
<1>1. PICK x \in Bad : \A y \in Bad : ToGo(x) <= ToGo(y)
  <2>1. Bad \in SUBSET Nodes
    BY DEF Near
  <2> HIDE DEF Bad
  <2> QED BY <2>1, NearestExists
<1>2. x \in Nodes /\ x \in Near(n) /\ x \in Near(m) /\ ToGo(x) < n /\ ToGo(x) < m /\ ToGo(x) \in Nat
  BY ToGoIs DEF Near
<1>3. ASSUME NEW y \in Nodes, ToGo(y) < ToGo(x)
      PROVE  g[y] = h[y] /\ g[y] \in Returns
  <2>1. ToGo(y) \in Nat
    BY ToGoIs
  <2>2. y \in Near(n) /\ y \in Near(m)
    BY <1>2, <1>3, <2>1 DEF Near
  <2>3. y \notin Bad
    BY <1>1, <1>2, <1>3, <2>1
  <2> QED BY <2>2, <2>3 DEF Answers
<1>4. Result(level, deal, g, x) = Result(level, deal, h, x)
  BY <1>2, <1>3, ResultAlike
<1>5. g[x] = h[x]
  BY <1>2, <1>4 DEF Answers
<1> QED BY <1>5

\* Calls at any distance have answers: one more step at a time.
LEMMA AnswersExist ==
  ASSUME deal \in Deals
  PROVE  \A n \in Nat : \E g : Answers(n, g)
<1> DEFINE Bad == {n \in Nat : ~ \E g : Answers(n, g)}
<1> SUFFICES ASSUME Bad # {} PROVE FALSE
  OBVIOUS
<1>1. PICK n \in Bad : \A m \in Bad : n <= m
  <2>1. Bad \in SUBSET Nat
    OBVIOUS
  <2> HIDE DEF Bad
  <2> QED BY <2>1, LeastExists
<1>2. CASE n = 0
  <2> DEFINE none == [x \in {} |-> x]
  <2>1. Near(n) = {}
    BY <1>2, ToGoIs DEF Near
  <2>2. Answers(n, none)
    BY <2>1 DEF Answers
  <2> HIDE DEF none
  <2> QED BY <2>2
<1>3. CASE n # 0
  <2>1. PICK m \in Nat : m + 1 = n
    <3>1. n - 1 \in Nat
      BY <1>3
    <3> QED BY <3>1
  <2>2. PICK g : Answers(m, g)
    BY <1>1, <2>1
  <2> DEFINE h == [x \in Near(n) |-> Result(level, deal, g, x)]
  <2>3. DOMAIN h = Near(n) /\ \A x \in Near(n) : h[x] = Result(level, deal, g, x)
    OBVIOUS
  <2>4. h = [x \in Near(n) |-> h[x]]
    OBVIOUS
  <2> HIDE DEF h
  <2>5. ASSUME NEW x \in Near(n)
        PROVE  h[x] \in Returns /\ Result(level, deal, g, x) = Result(level, deal, h, x)
    <3>1. x \in Nodes /\ ToGo(x) \in Nat /\ ToGo(x) < n
      BY ToGoIs DEF Near
    <3>2. ASSUME NEW y \in Nodes, ToGo(y) < ToGo(x)
          PROVE  g[y] = h[y] /\ g[y] \in Returns
      <4>1. ToGo(y) \in Nat
        BY ToGoIs
      <4>2. y \in Near(m) /\ y \in Near(n)
        BY <2>1, <3>1, <3>2, <4>1 DEF Near
      <4> QED BY <2>2, <2>3, <4>2 DEF Answers
    <3>3. /\ Result(level, deal, g, x) = Result(level, deal, h, x)
          /\ Result(level, deal, g, x) \in Returns
      BY <3>1, <3>2, ResultAlike
    <3> QED BY <2>3, <3>3
  <2>6. h \in [Near(n) -> Returns]
    BY <2>4, <2>5
  <2>7. \A x \in Near(n) : h[x] = Result(level, deal, h, x)
    BY <2>3, <2>5
  <2> QED BY <2>6, <2>7 DEF Answers
<1> QED BY <1>2, <1>3

\* So the recursive definition of the search has a solution, and Search is one.
LEMMA SearchRuns ==
  ASSUME deal \in Deals
  PROVE  /\ Search(level, deal) \in [Nodes -> Returns]
         /\ \A x \in Nodes :
              Search(level, deal)[x] = Result(level, deal, Search(level, deal), x)
<1> DEFINE pick(x) == CHOOSE g : Answers(ToGo(x) + 1, g)
           f == [x \in Nodes |-> pick(x)[x]]
           run == [x \in Nodes |-> Result(level, deal, f, x)]
<1>1. ASSUME NEW x \in Nodes
      PROVE  Answers(ToGo(x) + 1, pick(x)) /\ x \in Near(ToGo(x) + 1) /\ ToGo(x) + 1 \in Nat
  <2>1. ToGo(x) + 1 \in Nat /\ ToGo(x) < ToGo(x) + 1
    BY ToGoIs
  <2>2. \E g : Answers(ToGo(x) + 1, g)
    BY <2>1, AnswersExist
  <2> QED BY <2>1, <2>2 DEF Near
<1>2. DOMAIN f = Nodes /\ f = [x \in Nodes |-> f[x]] /\ \A x \in Nodes : f[x] = pick(x)[x]
  OBVIOUS
<1> HIDE DEF f, pick
<1>3. ASSUME NEW x \in Nodes
      PROVE  f[x] \in Returns /\ f[x] = Result(level, deal, f, x)
  <2>1. PICK g : g = pick(x) /\ Answers(ToGo(x) + 1, g)
    BY <1>1
  <2>2. f[x] = g[x] /\ g[x] \in Returns /\ g[x] = Result(level, deal, g, x)
    BY <1>1, <1>2, <2>1 DEF Answers
  <2>3. ASSUME NEW y \in Nodes, ToGo(y) < ToGo(x)
        PROVE  g[y] = f[y] /\ g[y] \in Returns
    <3>1. ToGo(y) \in Nat /\ ToGo(x) \in Nat
      BY ToGoIs
    <3>2. y \in Near(ToGo(x) + 1) /\ y \in Near(ToGo(y) + 1)
      BY <2>3, <3>1 DEF Near
    <3>3. PICK h : h = pick(y) /\ Answers(ToGo(y) + 1, h)
      BY <1>1
    <3>4. PICK n \in Nat, m \in Nat : n = ToGo(x) + 1 /\ m = ToGo(y) + 1
      BY <3>1
    <3>5. Answers(n, g) /\ Answers(m, h) /\ y \in Near(n) \cap Near(m)
      BY <2>1, <3>2, <3>3, <3>4
    <3>6. g[y] = h[y]
      BY <3>5, AnswersAgree
    <3>7. f[y] = h[y]
      BY <1>2, <3>3
    <3> QED BY <3>5, <3>6, <3>7 DEF Answers
  <2>4. Result(level, deal, g, x) = Result(level, deal, f, x)
    BY <2>3, ResultAlike
  <2> QED BY <2>2, <2>4
<1>4. f = run
  BY <1>2, <1>3
<1>5. \E search : search = [x \in Nodes |-> Result(level, deal, search, x)]
  BY <1>4
<1>6. Search(level, deal) =
        CHOOSE search : search = [x \in Nodes |-> Result(level, deal, search, x)]
  BY DEF Search
<1>7. Search(level, deal) = [x \in Nodes |-> Result(level, deal, Search(level, deal), x)]
  BY <1>5, <1>6
<1>8. PICK g : g = Search(level, deal)
  OBVIOUS
<1>9. g = [x \in Nodes |-> Result(level, deal, g, x)]
  BY <1>7, <1>8
<1>10. DOMAIN g = Nodes /\ (\A x \in Nodes : g[x] = Result(level, deal, g, x))
       /\ g = [x \in Nodes |-> g[x]]
  <2> DEFINE image == [x \in Nodes |-> Result(level, deal, g, x)]
  <2>1. DOMAIN image = Nodes /\ (\A x \in Nodes : image[x] = Result(level, deal, g, x))
        /\ image = [x \in Nodes |-> image[x]]
    OBVIOUS
  <2>2. g = image
    BY <1>9
  <2> HIDE DEF image
  <2> QED BY <2>1, <2>2, Zenon
<1> DEFINE Bad == {x \in Nodes : g[x] # f[x]}
<1>11. Bad = {}
  <2> SUFFICES ASSUME Bad # {} PROVE FALSE
    OBVIOUS
  <2>1. Bad \in SUBSET Nodes
    OBVIOUS
  <2>2. PICK x \in Bad : \A y \in Bad : ToGo(x) <= ToGo(y)
    <3> HIDE DEF Bad
    <3> QED BY <2>1, NearestExists
  <2>3. ASSUME NEW y \in Nodes, ToGo(y) < ToGo(x)
        PROVE  f[y] = g[y] /\ f[y] \in Returns
    <3>1. ToGo(y) \in Nat /\ ToGo(x) \in Nat
      BY ToGoIs
    <3>2. y \notin Bad
      BY <2>2, <2>3, <3>1
    <3> QED BY <1>3, <3>2
  <2>4. x \in Nodes
    OBVIOUS
  <2>5. Result(level, deal, f, x) = Result(level, deal, g, x)
    BY <2>3, <2>4, ResultAlike
  <2> QED BY <1>3, <1>10, <2>4, <2>5
<1>12. \A x \in Nodes : g[x] \in Returns
  BY <1>3, <1>11
<1>13. g \in [Nodes -> Returns]
  BY <1>10, <1>12
<1> QED BY <1>8, <1>10, <1>13, Zenon

-----------------------------------------------------------------------------
(* A deal that the solver lets through can be won *)

\* A call that finds a placement has found one that passes the last test.
LEMMA FoundWins ==
  ASSUME deal \in Deals
  PROVE  \A x \in Nodes : Search(level, deal)[x].found => Winning
<1> DEFINE Bad == {x \in Nodes : ~(Search(level, deal)[x].found => Winning)}
<1> SUFFICES ASSUME Bad # {} PROVE FALSE
  OBVIOUS
<1>1. PICK x \in Bad : \A y \in Bad : ToGo(x) <= ToGo(y)
  <2>1. Bad \in SUBSET Nodes
    OBVIOUS
  <2> HIDE DEF Bad
  <2> QED BY <2>1, NearestExists
<1>2. x \in Nodes /\ ToGo(x) \in Nat
  BY ToGoIs
<1>3. PICK g : g = Search(level, deal)
  OBVIOUS
<1>4. g \in [Nodes -> Returns] /\ g[x] = Result(level, deal, g, x)
  BY <1>2, <1>3, SearchRuns
<1>5. g[x].found /\ ~Winning
  BY <1>1, <1>3
<1>6. ASSUME NEW y \in Nodes, ToGo(y) < ToGo(x) PROVE ~g[y].found
  <2>1. ToGo(y) \in Nat
    BY ToGoIs
  <2>2. y \notin Bad
    BY <1>1, <1>2, <1>6, <2>1
  <2> QED BY <1>3, <1>5, <2>2
<1>7. x.masks # {}
  <2> SUFFICES ASSUME x.masks = {} PROVE FALSE
    OBVIOUS
  <2>1. g[x] = [found |-> FALSE, failed |-> x.failed \cup {Key(x)}]
    BY <1>4, ResultIs
  <2> QED BY <1>5, <2>1
<1>8. Tried(g, x) \in Returns
  BY <1>2, <1>4, <1>7, TriedAlike
<1>9. ~Tried(g, x).found
  <2> SUFFICES ASSUME Tried(g, x).found PROVE FALSE
    OBVIOUS
  <2>1. CASE x.segment = LastSegment
    <3>1. DOMAIN NextOf(x) = Cards /\ Finished(level, deal, NextOf(x))
      <4> DEFINE wins == DOMAIN NextOf(x) = Cards /\ Finished(level, deal, NextOf(x))
      <4>1. Tried(g, x) = [found |-> wins, failed |-> x.failed]
        BY <2>1 DEF Tried
      <4> HIDE DEF wins
      <4>2. [found |-> wins, failed |-> x.failed].found = wins
        OBVIOUS
      <4>3. wins
        BY <4>1, <4>2, Zenon
      <4> QED BY <4>3 DEF wins
    <3>2. NextOf(x) \in [Cards -> Segments]
      BY <1>2, <1>7, <3>1, NextIs
    <3> QED BY <1>5, <3>1, <3>2 DEF Winning
  <2>2. CASE x.segment # LastSegment
    <3>1. ~g[BelowOf(x)].found
      BY <1>2, <1>6, <1>7, <2>2, BelowIsNearer
    <3>2. CASE Key(BelowOf(x)) \in x.failed
      BY <2>2, <3>2 DEF Tried
    <3>3. CASE Key(BelowOf(x)) \notin x.failed
      BY <2>2, <3>1, <3>3 DEF Tried
    <3> QED BY <3>2, <3>3
  <2> QED BY <2>1, <2>2
<1>10. g[x] = g[LoopOf(x, Tried(g, x).failed)]
  BY <1>4, <1>7, <1>9, ResultIs
<1>11. LoopOf(x, Tried(g, x).failed) \in Nodes /\ ToGo(LoopOf(x, Tried(g, x).failed)) < ToGo(x)
  <2>1. PICK failed \in SUBSET Keys : failed = Tried(g, x).failed
    BY <1>8 DEF Returns
  <2> QED BY <1>2, <1>7, <2>1, LoopIsNearer
<1> QED BY <1>5, <1>6, <1>10, <1>11

\* The empty placement.
LEMMA NothingPlaced ==
  /\ DOMAIN << >> = {} /\ << >> \in [DOMAIN << >> -> Segments]
  /\ 0 \in Segments
BY Sizes DEF Segments

\* When the search over subsets succeeds there is a placement that passes.
LEMMA SubsetsWin ==
  ASSUME deal \in Deals, SubsetsSolve(level, deal)
  PROVE  Winning
<1>1. PICK root : root = Call(level, deal, 0, << >>, 0, {})
  OBVIOUS
<1>2. root \in Nodes
  <2>1. PICK none : none = << >>
    OBVIOUS
  <2>2. DOMAIN none \in SUBSET Cards /\ none \in [DOMAIN none -> Segments] /\ 0 \in Segments
    BY <2>1, NothingPlaced
  <2>3. PICK failed \in SUBSET Keys : failed = {}
    OBVIOUS
  <2>4. PICK s \in Segments, sum \in Nat : s = 0 /\ sum = 0
    BY <2>2
  <2>5. Call(level, deal, s, none, sum, failed) \in Nodes
    BY <2>2, CallIsNode
  <2> QED BY <1>1, <2>1, <2>3, <2>4, <2>5
<1>3. Search(level, deal)[root].found
  BY <1>1 DEF SubsetsSolve
<1> QED BY <1>2, <1>3, FoundWins

\* So there is when the search for the permanent rules alone succeeds.
LEMMA GlobalRulesWin ==
  ASSUME IsLevel(level), OnlyPermanentRules(level), GlobalRulesSolve(level, deal)
  PROVE  Winning
<1>1. PICK full \in [Cards -> Segments] :
        /\ \A s \in Segments : On(full, s) # {}
        /\ \A s \in Segments : SumAt(deal, full, s) <= Cap(level)
        /\ \A s \in Segments \ {0} : SumAt(deal, full, s - 1) <= SumAt(deal, full, s)
  BY DEF GlobalRulesSolve
<1>2. \A q \in level : q.type \in {"all-nonempty", "max-sum-each"} \/ q = FullNonDecreasing
  BY DEF OnlyPermanentRules, Permanent
<1>3. FullNonDecreasing.type = "non-decreasing"
      /\ FullNonDecreasing.segments = [i \in 1..(LastSegment + 1) |-> i - 1]
  BY DEF FullNonDecreasing
<1>4. Ordered(level) = {}
  BY <1>2, <1>3 DEF Ordered
<1>5. ASSUME NEW q \in level PROVE CardsHold(q, deal, full)
  <2>1. CASE q.type = "all-nonempty"
    BY <1>1, <2>1 DEF CardsHold
  <2>2. CASE q.type = "max-sum-each"
    <3> DEFINE caps == {r.value : r \in {r \in level : r.type = "max-sum-each"}}
    <3>1. caps = {CenterCap} /\ q.value = CenterCap
      BY <2>2 DEF IsLevel
    <3>2. Cap(level) = CHOOSE cap \in caps : TRUE
      BY <3>1 DEF Cap
    <3> HIDE DEF caps
    <3>3. Cap(level) = q.value
      BY <3>1, <3>2
    <3> QED BY <1>1, <2>2, <3>3 DEF CardsHold
  <2>3. CASE q = FullNonDecreasing
    <3>1. q.type = "non-decreasing" /\ q.segments = [i \in 1..(LastSegment + 1) |-> i - 1]
      BY <1>3, <2>3
    <3>2. Len(q.segments) = LastSegment + 1
      <4>1. LastSegment + 1 \in Nat
        BY Sizes
      <4> QED BY <3>1, <4>1
    <3>3. ASSUME NEW i \in 1..(Len(q.segments) - 1)
          PROVE  SumAt(deal, full, q.segments[i]) <= SumAt(deal, full, q.segments[i + 1])
      <4>1. i \in Segments \ {0} /\ q.segments[i] = i - 1 /\ q.segments[i + 1] = i
        BY <3>1, <3>2, <3>3, Sizes DEF Segments
      <4> QED BY <1>1, <4>1
    <3> QED BY <3>1, <3>3 DEF CardsHold
  <2> QED BY <1>2, <2>1, <2>2, <2>3
<1>6. OrderPossible(level, full)
  BY <1>4 DEF OrderPossible
<1> QED BY <1>1, <1>5, <1>6 DEF Winning, Finished

\* A placement of all cards that passes the last test can be played to pass.
LEMMA WinningIsWinnable ==
  ASSUME IsLevel(level), Winning
  PROVE  Winnable
<1>1. PICK full \in [Cards -> Segments] : Finished(level, deal, full)
  BY DEF Winning
<1>2. PICK p \in Plays : Passes(Ordered(level), deal, full, p)
  BY <1>1, PlayExists DEF Finished
<1>3. PICK none : none = << >>
  OBVIOUS
<1>4. DOMAIN none = {} /\ none \in [DOMAIN none -> Segments]
  BY <1>3, NothingPlaced
<1>5. Completion(none, full, p)
  BY <1>1, <1>2, <1>4 DEF Completion, Fulfils, Finished
<1>6. Completes(none, Plays)
  BY <1>4, <1>5, CompletesIs
<1> QED BY <1>3, <1>6 DEF Winnable

\* Whichever search the solver takes, a deal it lets through can be won.
LEMMA SolvableIsWinnable ==
  ASSUME deal \in Deals, IsLevel(level), Solvable(level, deal)
  PROVE  Winnable
<1>1. CASE OnlyPermanentRules(level)
  BY <1>1, GlobalRulesWin, WinningIsWinnable DEF Solvable
<1>2. CASE ~OnlyPermanentRules(level) /\ BySubsets(level)
  BY <1>2, SubsetsWin, WinningIsWinnable DEF Solvable
<1>3. CASE ~OnlyPermanentRules(level) /\ ~BySubsets(level)
  <2>1. PICK none : none = << >>
    OBVIOUS
  <2>2. CanComplete(level, deal, none)
    BY <1>3, <2>1 DEF Solvable
  <2>3. DOMAIN none \in SUBSET Cards /\ none \in [DOMAIN none -> Segments]
    BY <2>1, NothingPlaced
  <2>4. Completes(none, Plays)
    BY <2>2, <2>3, CompletionFound
  <2> QED BY <2>1, <2>4 DEF Winnable
<1> QED BY <1>1, <1>2, <1>3

\* What was dealt was accepted: a hand is played only with the solver's consent.
DealtIsSolvable == stage = "placing" => Solvable(level, deal)

\* Only Accept begins a hand, and the hand's cards and level stay.
LEMMA ConsentKept == DealtIsSolvable /\ [Next]_vars => DealtIsSolvable'
<1> SUFFICES ASSUME DealtIsSolvable, [Next]_vars, stage' = "placing"
             PROVE  Solvable(level, deal)'
  BY DEF DealtIsSolvable
<1>1. CASE Shuffle
  BY <1>1 DEF Shuffle
<1>2. CASE Refuse
  <2>1. MaxShuffles \in Nat
    BY RulesAssumption
  <2> QED BY <1>2, <2>1 DEF Refuse
<1>3. ASSUME UNCHANGED <<level, deal>>, Solvable(level, deal)
      PROVE  Solvable(level, deal)'
  BY <1>3
<1>4. CASE Accept
  BY <1>3, <1>4 DEF Accept
<1>5. CASE Place
  BY <1>3, <1>5 DEF Place, DealtIsSolvable
<1>6. CASE UNCHANGED vars
  BY <1>3, <1>6 DEF vars, DealtIsSolvable
<1> QED BY <1>1, <1>2, <1>4, <1>5, <1>6 DEF Next

\* No seat is ever asked to play a hand that cannot be won (DealtIsWinnable).
THEOREM NoDealIsHopeless == Spec => []DealtIsWinnable
<1>1. Init => DealtIsSolvable
  BY DEF Init, DealtIsSolvable
<1>2. DealtIsSolvable /\ [Next]_vars => DealtIsSolvable'
  BY ConsentKept
<1>3. Inv /\ DealtIsSolvable => DealtIsWinnable
  <2> SUFFICES ASSUME Inv, DealtIsSolvable, stage = "placing" PROVE Winnable
    BY DEF DealtIsWinnable
  <2> QED BY Parts, SolvableIsWinnable DEF DealtIsSolvable
<1> QED BY <1>1, <1>2, <1>3, InvAlways, PTL DEF Spec
=============================================================================
