------------------------------ MODULE MCRules ------------------------------
EXTENDS Rules

White(v) == [value |-> v, color |-> "white"]
Black(v) == [value |-> v, color |-> "black"]

\* Every way to deal one of two packs, up to an exchange of the seats: either
\* may open, so the one card of value three goes to the second.
TwoPacks ==
  {d \in UNION {[Cards -> pack] : pack \in { {White(1), Black(1), White(2), Black(3)},
                                          {Black(1), White(2), Black(2), White(3)} }} :
     /\ \A i, j \in Cards : d[i] = d[j] => i = j
     /\ \A i, j \in Cards : Owner(i) = Owner(j) /\ i < j => d[i].value <= d[j].value
     /\ d[4].value = 3}

\* As centerCap has them: a limit of CenterCap, or none.
Capped(conditions) == [conditions |-> conditions, centerCap |-> "null"]
Uncapped(conditions) == [conditions |-> conditions, centerCap |-> "inf"]

\* The first segment is the only one closest to two, as to six in levels 4 and 5.
ClosestLevels == {Capped({[type |-> "closest-to-value", segment |-> 0, value |-> 2]})}

CloseDecks ==
  {<<White(2), White(3), Black(4), White(4), Black(1), Black(v)>> : v \in 2..3}

\* Conditions of every type, in the combinations the levels have; the fifth
\* asks for more than the limit of the others, as level 3 does.
MCLevels ==
  { Capped({}),
    Uncapped({[type |-> "placement-order", order |-> 1, segment |-> 2],
              [type |-> "placement-order", order |-> 2, segment |-> 1]}),
    Capped({[type |-> "closest-to-value", segment |-> 0, value |-> 2],
            [type |-> "parity", segment |-> 1, parity |-> "odd"]}),
    Capped({[type |-> "adjacent-diff", a |-> 1, b |-> 2, maxDiff |-> 1],
            [type |-> "forbidden-values", segment |-> 1, values |-> {2}]}),
    Uncapped({[type |-> "sum-range", segment |-> 2, min |-> 5, max |-> 6],
              [type |-> "segment-colors", segment |-> 2, black |-> 1, white |-> 1],
              [type |-> "min-color-cards", segment |-> 0, color |-> "black", count |-> 1]}),
    Capped({[type |-> "sum-equals", segment |-> 2, value |-> 4],
            [type |-> "all-distinct", segment |-> 2],
            [type |-> "exact-cards", segment |-> 0, count |-> 1]}),
    Capped({[type |-> "sum-range", segment |-> 1, min |-> 2, max |-> 3],
            [type |-> "max-color-cards", segment |-> 1, color |-> "white", count |-> 0],
            [type |-> "max-cards", segment |-> 1, count |-> 1]}),
    Capped({[type |-> "has-duplicate-value", segment |-> 2],
            [type |-> "min-cards", segment |-> 2, count |-> 2],
            [type |-> "non-increasing", segments |-> <<1, 0>>]}) }
=============================================================================
