--------------------------- MODULE ThinkingProofs ---------------------------
(***************************************************************************)
(* Proofs about how agents come to their cards, for any number of seats,   *)
(* attempts and calls in flight, any costs and limits: the limits of an    *)
(* attempt are hard, talk leaves the turns their share, the daily limit    *)
(* holds as long as no call is in flight at midnight, and a marker is      *)
(* spent for a card that a model or a candidate wanted to show.            *)
(***************************************************************************)
EXTENDS Thinking, FiniteSetTheorems, TLAPS

-----------------------------------------------------------------------------
(* Types. *)

Call == [task : Tasks, attempt : Attempts, day : Nat, number : Nat]
Usage == [calls : Nat, tokens : Nat, reserved : Nat, turnCalls : Nat, turnTokens : Nat]
Day == [key : Nat, calls : Nat, tokens : Nat, reserved : Nat]
Ledger == [usage : [Attempts -> Usage], today : Day]

Typed ==
  /\ TypeOK
  /\ asked = [s \in Agents |-> asked[s]]
  /\ reveal = [s \in Agents |-> reveal[s]]
  /\ last = [s \in Agents |-> last[s]]

-----------------------------------------------------------------------------
(* The inductive invariant. *)

Of(some, a) == {c \in some : c.attempt = a}

\* The account of an attempt is what was billed and what is in flight, within
\* its limits and with the share of the turns kept; calls are numbered on.
Balanced(b, some, paid) ==
  /\ b \in Ledger /\ some \subseteq Call /\ IsFiniteSet(some) /\ paid \in [Attempts -> Nat]
  /\ \A a \in Attempts :
       LET u == b.usage[a]
       IN  /\ u.reserved = InFlight(Of(some, a)) /\ u.tokens = paid[a]
           /\ u.calls + u.turnCalls <= AttemptMaxCalls
           /\ u.tokens + u.reserved + u.turnTokens <= AttemptMaxTokens
  /\ \A c \in some : c.number <= b.usage[c.attempt].calls

\* The account of the day, as long as no call is in flight at midnight.
DayBalanced(b, some, day) ==
  /\ b.today.reserved = InFlight(some)
  /\ b.today.tokens + b.today.reserved <= DailyMaxTokens
  /\ some # {} => b.today.key = day
  /\ \A c \in some : c.day = day

\* Calls are of attempts that began, and so are the windows.
CallsBegan ==
  /\ attempt \in Attempts \/ (phase = "lobby" /\ window = NoWindow)
  /\ \A c \in calls : c.attempt <= attempt

Waiting(s) == asked[s].at \in {"model", "retry"}

\* Whoever waits, waits for a call of its own.
EachAwaitsItsOwn ==
  /\ \A s \in Agents : Waiting(s) => asked[s].call \in calls
  /\ \A s, t \in Agents : Waiting(s) /\ Waiting(t) /\ s # t => asked[s].call # asked[t].call

Money == CallsBegan /\ EachAwaitsItsOwn /\ Balanced(budget, calls, billed)

\* A marker is wished for by a model or a candidate only, and for a card only
\* that was played as it was decided.
WishesAreMeant ==
  \A s \in Agents :
    /\ asked[s].choice.show => asked[s].choice.source \in {"model", "candidate"}
    /\ window.seat = s /\ Wished(s) =>
         /\ last[s].attempt = attempt /\ last[s].card = window.card
         /\ last[s].source \in {"model", "candidate"}

ThinkingInv == Typed /\ Money /\ WishesAreMeant

\* What the daily limit needs besides.
DayInv == DayBalanced(budget, calls, clock)

\* No call is in flight when a day ends.
QuietMidnights == [][clock' # clock => calls = {}]_vars

-----------------------------------------------------------------------------
(* What is in flight, as calls are sent and settled. *)

Count(some, task) == Cardinality({c \in some : c.task = task})

LEMMA CountChanges ==
  ASSUME NEW some, IsFiniteSet(some), NEW c, NEW task
  PROVE  /\ Count(some, task) \in Nat
         /\ c \notin some => Count(some \cup {c}, task) = Count(some, task) + (IF c.task = task THEN 1 ELSE 0)
         /\ c \in some => Count(some \ {c}, task) = Count(some, task) - (IF c.task = task THEN 1 ELSE 0)
         /\ c \in some /\ c.task = task => Count(some, task) # 0
  <1> DEFINE S == {x \in some : x.task = task}
  <1>1. IsFiniteSet(S) /\ Cardinality(S) \in Nat
    BY FS_Subset, FS_CardinalityType
  <1>2. c \notin some => Cardinality({x \in some \cup {c} : x.task = task})
                           = Cardinality(S) + (IF c.task = task THEN 1 ELSE 0)
    <2> SUFFICES ASSUME c \notin some
                 PROVE  Cardinality({x \in some \cup {c} : x.task = task})
                           = Cardinality(S) + (IF c.task = task THEN 1 ELSE 0)
      OBVIOUS
    <2>1. CASE c.task = task
      <3>1. {x \in some \cup {c} : x.task = task} = S \cup {c} /\ c \notin S
        BY <2>1
      <3> HIDE DEF S
      <3>2. Cardinality(S \cup {c}) = Cardinality(S) + 1
        BY <1>1, <3>1, FS_AddElement
      <3> QED
        BY <2>1, <3>1, <3>2
    <2>2. CASE c.task # task
      <3>1. {x \in some \cup {c} : x.task = task} = S
        BY <2>2
      <3> HIDE DEF S
      <3>2. Cardinality(S) = Cardinality(S) + 0
        BY <1>1
      <3> QED
        BY <2>2, <3>1, <3>2
    <2> QED
      BY <2>1, <2>2
  <1>3. c \in some => Cardinality({x \in some \ {c} : x.task = task})
                        = Cardinality(S) - (IF c.task = task THEN 1 ELSE 0)
    <2> SUFFICES ASSUME c \in some
                 PROVE  Cardinality({x \in some \ {c} : x.task = task})
                           = Cardinality(S) - (IF c.task = task THEN 1 ELSE 0)
      OBVIOUS
    <2>1. CASE c.task = task
      <3>1. {x \in some \ {c} : x.task = task} = S \ {c} /\ c \in S
        BY <2>1
      <3> QED
        BY <1>1, <2>1, <3>1, FS_RemoveElement
    <2>2. CASE c.task # task
      <3>1. {x \in some \ {c} : x.task = task} = S
        BY <2>2
      <3> QED
        BY <1>1, <2>2, <3>1
    <2> QED
      BY <2>1, <2>2
  <1>4. c \in some /\ c.task = task => Cardinality(S) # 0
    BY <1>1, FS_EmptySet
  <1> QED
    BY <1>1, <1>2, <1>3, <1>4 DEF Count

LEMMA OneMore ==
  ASSUME NEW n \in Nat, NEW k \in Nat
  PROVE  /\ (n + 1) * k = n * k + k
         /\ n # 0 => (n - 1) * k = n * k - k /\ n * k >= k
         /\ n * k \in Nat
  <1>1. (n + 1) * k = n * k + k /\ (n - 1) * k = n * k - k /\ n * k \in Nat
    OBVIOUS
  <1>2. n # 0 => (n - 1) \in Nat
    OBVIOUS
  <1>3. n # 0 => (n - 1) * k \in Nat
    BY <1>2
  <1>4. n # 0 => n * k >= k
    BY <1>1, <1>3
  <1> QED
    BY <1>1, <1>4

LEMMA CostIsNat == \A task \in Tasks : Cost[task] \in Nat
  BY BudgetAssumption

LEMMA InFlightCounts ==
  ASSUME NEW some
  PROVE  InFlight(some) = Count(some, "turn") * Cost["turn"] + Count(some, "talk") * Cost["talk"]
  BY DEF InFlight, Count

LEMMA InFlightChanges ==
  ASSUME NEW some, IsFiniteSet(some), NEW c, c.task \in Tasks
  PROVE  /\ InFlight(some) \in Nat
         /\ c \notin some => InFlight(some \cup {c}) = InFlight(some) + Cost[c.task]
         /\ c \in some => /\ InFlight(some \ {c}) = InFlight(some) - Cost[c.task]
                          /\ InFlight(some) >= Cost[c.task]
  <1>1. PICK k \in Nat : k = Cost["turn"]
    BY CostIsNat DEF Tasks
  <1>2. PICK l \in Nat : l = Cost["talk"]
    BY CostIsNat DEF Tasks
  <1>3. PICK m \in Nat : m = Count(some, "turn")
    BY CountChanges
  <1>4. PICK n \in Nat : n = Count(some, "talk")
    BY CountChanges
  <1>5. InFlight(some) = m * k + n * l /\ m * k \in Nat /\ n * l \in Nat
    BY <1>1, <1>2, <1>3, <1>4, InFlightCounts, OneMore
  <1>6. ASSUME c \notin some
        PROVE  InFlight(some \cup {c}) = InFlight(some) + Cost[c.task]
    <2>1. CASE c.task = "turn"
      <3>1. Count(some \cup {c}, "turn") = m + 1 /\ Count(some \cup {c}, "talk") = n
        BY <1>3, <1>4, <1>6, <2>1, CountChanges
      <3>2. InFlight(some \cup {c}) = (m + 1) * k + n * l
        BY <1>1, <1>2, <3>1, InFlightCounts
      <3> QED
        BY <1>1, <1>5, <2>1, <3>2, OneMore
    <2>2. CASE c.task = "talk"
      <3>1. Count(some \cup {c}, "turn") = m /\ Count(some \cup {c}, "talk") = n + 1
        BY <1>3, <1>4, <1>6, <2>2, CountChanges
      <3>2. InFlight(some \cup {c}) = m * k + (n + 1) * l
        BY <1>1, <1>2, <3>1, InFlightCounts
      <3> QED
        BY <1>2, <1>5, <2>2, <3>2, OneMore
    <2> QED
      BY <2>1, <2>2 DEF Tasks
  <1>7. ASSUME c \in some
        PROVE  /\ InFlight(some \ {c}) = InFlight(some) - Cost[c.task]
               /\ InFlight(some) >= Cost[c.task]
    <2>1. CASE c.task = "turn"
      <3>1. Count(some \ {c}, "turn") = m - 1 /\ Count(some \ {c}, "talk") = n /\ m # 0
        <4>1. Count(some \ {c}, "turn") = m - 1
          BY <1>3, <1>7, <2>1, CountChanges
        <4>2. m # 0
          <5>1. Count(some, c.task) # 0
            BY <1>7, CountChanges
          <5> QED
            BY <1>3, <2>1, <5>1
        <4>3. Count(some \ {c}, "talk") = n
          BY <1>4, <1>7, <2>1, CountChanges
        <4> QED
          BY <4>1, <4>2, <4>3
      <3>2. InFlight(some \ {c}) = (m - 1) * k + n * l
        BY <1>1, <1>2, <3>1, InFlightCounts
      <3>3. (m - 1) * k = m * k - k /\ m * k >= k
        BY <3>1, OneMore
      <3> QED
        BY <1>1, <1>5, <2>1, <3>2, <3>3
    <2>2. CASE c.task = "talk"
      <3>1. Count(some \ {c}, "turn") = m /\ Count(some \ {c}, "talk") = n - 1 /\ n # 0
        BY <1>3, <1>4, <1>7, <2>2, CountChanges
      <3>2. InFlight(some \ {c}) = m * k + (n - 1) * l
        BY <1>1, <1>2, <3>1, InFlightCounts
      <3>3. (n - 1) * l = n * l - l /\ n * l >= l
        BY <3>1, OneMore
      <3> QED
        BY <1>2, <1>5, <2>2, <3>2, <3>3
    <2> QED
      BY <2>1, <2>2 DEF Tasks
  <1> QED
    BY <1>5, <1>6, <1>7

LEMMA NothingInFlight == InFlight({}) = 0
  <1>1. \A task : Count({}, task) = 0
    BY FS_EmptySet DEF Count
  <1>2. 0 * Cost["turn"] = 0 /\ 0 * Cost["talk"] = 0
    BY CostIsNat DEF Tasks
  <1> QED
    BY <1>1, <1>2, InFlightCounts

-----------------------------------------------------------------------------
(* The budget, as it is reserved, settled and rotated. *)

LEMMA LedgerFields ==
  ASSUME NEW b \in Ledger
  PROVE  /\ b = [usage |-> b.usage, today |-> b.today]
         /\ b.usage \in [Attempts -> Usage]
         /\ b.today = [key |-> b.today.key, calls |-> b.today.calls, tokens |-> b.today.tokens,
                       reserved |-> b.today.reserved]
         /\ b.today.key \in Nat /\ b.today.calls \in Nat
         /\ b.today.tokens \in Nat /\ b.today.reserved \in Nat
         /\ \A a \in Attempts :
              LET u == b.usage[a]
              IN  /\ u.calls \in Nat /\ u.tokens \in Nat /\ u.reserved \in Nat
                  /\ u.turnCalls \in Nat /\ u.turnTokens \in Nat
  BY DEF Ledger, Day, Usage

LEMMA LessIsNat == \A m, n \in Nat : Less(m, n) \in Nat /\ Less(m, n) <= m
  BY DEF Less

\* The accounts of other attempts stay as they are.
Spares(b, c, a) == \A o \in Attempts \ {a} : c.usage[o] = b.usage[o]

\* What becomes of one account and of the day makes up the budget.
LEMMA LedgerMade ==
  ASSUME NEW b \in Ledger, NEW a \in Attempts, NEW v \in Usage, NEW e \in Day
  PROVE  LET r == [usage |-> [b.usage EXCEPT ![a] = v], today |-> e]
         IN  r \in Ledger /\ Spares(b, r, a) /\ r.usage[a] = v /\ r.today = e
  <1>1. PICK f \in [Attempts -> Usage] : f = [b.usage EXCEPT ![a] = v]
    BY LedgerFields
  <1>2. f[a] = v /\ \A o \in Attempts \ {a} : f[o] = b.usage[o]
    BY <1>1, LedgerFields
  <1> QED
    BY <1>1, <1>2 DEF Ledger, Spares

LEMMA ReservedLedger ==
  ASSUME NEW b \in Ledger, NEW a \in Attempts, NEW task \in Tasks
  PROVE  LET r == Reserved(b, a, task)
             u == b.usage[a]
             v == r.usage[a]
         IN  /\ r \in Ledger /\ Spares(b, r, a)
             /\ v.calls = u.calls + 1 /\ v.tokens = u.tokens /\ v.reserved = u.reserved + Cost[task]
             /\ v.turnCalls = IF task = "turn" THEN Less(u.turnCalls, 1) ELSE u.turnCalls
             /\ v.turnTokens = IF task = "turn" THEN Less(u.turnTokens, Cost[task]) ELSE u.turnTokens
             /\ r.today.key = b.today.key /\ r.today.tokens = b.today.tokens
             /\ r.today.reserved = b.today.reserved + Cost[task]
  <1>1. PICK u \in Usage : u = b.usage[a]
    BY LedgerFields
  <1>2. PICK d \in Day : d = b.today
    BY DEF Ledger
  <1>3. Cost[task] \in Nat
    BY CostIsNat
  <1>4. PICK n \in Nat : n = u.calls + 1
    BY DEF Usage
  <1>5. PICK x \in Nat : x = IF task = "turn" THEN Less(u.turnTokens, Cost[task]) ELSE u.turnTokens
    BY <1>3, LessIsNat DEF Usage
  <1>6. PICK y \in Nat : y = IF task = "turn" THEN Less(u.turnCalls, 1) ELSE u.turnCalls
    BY LessIsNat DEF Usage
  <1>7. PICK z \in Nat : z = u.reserved + Cost[task]
    BY <1>3 DEF Usage
  <1>8. PICK v \in Usage : v = [u EXCEPT !.calls = n, !.turnCalls = y, !.turnTokens = x, !.reserved = z]
    BY DEF Usage
  <1>9. v.calls = n /\ v.tokens = u.tokens /\ v.reserved = z /\ v.turnCalls = y /\ v.turnTokens = x
    BY <1>8 DEF Usage
  <1>10. PICK p \in Nat : p = d.calls + 1
    BY DEF Day
  <1>11. PICK w \in Nat : w = d.reserved + Cost[task]
    BY <1>3 DEF Day
  <1>12. PICK e \in Day : e = [d EXCEPT !.calls = p, !.reserved = w]
    BY DEF Day
  <1>13. e.key = d.key /\ e.tokens = d.tokens /\ e.reserved = w
    BY <1>12 DEF Day
  <1>14. v = [b.usage[a] EXCEPT !.calls = @ + 1,
                               !.turnCalls = IF task = "turn" THEN Less(@, 1) ELSE @,
                               !.turnTokens = IF task = "turn" THEN Less(@, Cost[task]) ELSE @,
                               !.reserved = @ + Cost[task]]
    BY <1>1, <1>4, <1>5, <1>6, <1>7, <1>8 DEF Usage
  <1>15. e = [b.today EXCEPT !.calls = @ + 1, !.reserved = @ + Cost[task]]
    BY <1>2, <1>10, <1>11, <1>12 DEF Day
  <1>16. PICK r : r = Reserved(b, a, task)
    OBVIOUS
  <1>17. r = [usage |-> [b.usage EXCEPT ![a] = v], today |-> e]
    BY <1>14, <1>15, <1>16 DEF Reserved
  <1>18. r \in Ledger /\ Spares(b, r, a) /\ r.usage[a] = v /\ r.today = e
    BY <1>17, LedgerMade
  <1> QED
    BY <1>1, <1>2, <1>4, <1>5, <1>6, <1>7, <1>9, <1>11, <1>13, <1>16, <1>18

LEMMA SettledLedger ==
  ASSUME NEW b \in Ledger, NEW call, call.attempt \in Attempts, call.task \in Tasks, NEW actual \in Nat
  PROVE  LET r == Settled(b, call, actual)
             u == b.usage[call.attempt]
             v == r.usage[call.attempt]
         IN  /\ r \in Ledger /\ Spares(b, r, call.attempt)
             /\ v.calls = u.calls /\ v.tokens = u.tokens + actual
             /\ v.reserved = Less(u.reserved, Cost[call.task])
             /\ v.turnCalls = u.turnCalls /\ v.turnTokens = u.turnTokens
             /\ r.today.key = b.today.key /\ r.today.tokens = b.today.tokens + actual
             /\ r.today.reserved = Less(b.today.reserved, Cost[call.task])
  <1>1. PICK u \in Usage : u = b.usage[call.attempt]
    BY LedgerFields
  <1>2. PICK d \in Day : d = b.today
    BY DEF Ledger
  <1>3. Cost[call.task] \in Nat
    BY CostIsNat
  <1>4. PICK x \in Nat : x = Less(u.reserved, Cost[call.task])
    BY <1>3, LessIsNat DEF Usage
  <1>5. PICK n \in Nat : n = u.tokens + actual
    BY DEF Usage
  <1>6. PICK y \in Nat : y = Less(d.reserved, Cost[call.task])
    BY <1>3, LessIsNat DEF Day
  <1>7. PICK m \in Nat : m = d.tokens + actual
    BY DEF Day
  <1>8. PICK v \in Usage : v = [u EXCEPT !.reserved = x, !.tokens = n]
    BY DEF Usage
  <1>9. /\ v.calls = u.calls /\ v.tokens = n /\ v.reserved = x
        /\ v.turnCalls = u.turnCalls /\ v.turnTokens = u.turnTokens
    BY <1>8 DEF Usage
  <1>10. PICK e \in Day : e = [d EXCEPT !.reserved = y, !.tokens = m]
    BY DEF Day
  <1>11. e.key = d.key /\ e.tokens = m /\ e.reserved = y
    BY <1>10 DEF Day
  <1>12. v = [b.usage[call.attempt] EXCEPT !.reserved = Less(@, Cost[call.task]), !.tokens = @ + actual]
    BY <1>1, <1>4, <1>5, <1>8 DEF Usage
  <1>13. e = [b.today EXCEPT !.reserved = Less(@, Cost[call.task]), !.tokens = @ + actual]
    BY <1>2, <1>6, <1>7, <1>10 DEF Day
  <1>14. PICK r : r = Settled(b, call, actual)
    OBVIOUS
  <1>15. r = [usage |-> [b.usage EXCEPT ![call.attempt] = v], today |-> e]
    BY <1>12, <1>13, <1>14 DEF Settled
  <1>16. r \in Ledger /\ Spares(b, r, call.attempt) /\ r.usage[call.attempt] = v /\ r.today = e
    BY <1>15, LedgerMade
  <1> QED
    BY <1>1, <1>2, <1>4, <1>5, <1>6, <1>7, <1>9, <1>11, <1>14, <1>16

LEMMA RotatedLedger ==
  ASSUME NEW b \in Ledger, NEW day \in Nat
  PROVE  /\ Rotated(b, day) \in Ledger /\ Rotated(b, day).usage = b.usage
         /\ Rotated(b, day).today.key = day
         /\ b.today.key = day => Rotated(b, day) = b
         /\ b.today.key # day => Rotated(b, day).today.tokens = 0 /\ Rotated(b, day).today.reserved = 0
  <1>1. NewDay(day) \in Day /\ NewDay(day).key = day /\ NewDay(day).tokens = 0 /\ NewDay(day).reserved = 0
    BY DEF NewDay, Day
  <1>2. CASE b.today.key = day
    BY <1>2 DEF Rotated
  <1>3. CASE b.today.key # day
    <2>1. Rotated(b, day) = [usage |-> b.usage, today |-> NewDay(day)]
      BY <1>3 DEF Rotated, Ledger
    <2> QED
      BY <1>1, <1>3, <2>1 DEF Ledger
  <1> QED
    BY <1>2, <1>3

-----------------------------------------------------------------------------
(* Balances, kept by whatever is reserved, settled and rotated. *)

LEMMA BalancedTypes ==
  ASSUME NEW b, NEW some, NEW paid, Balanced(b, some, paid)
  PROVE  /\ b \in Ledger /\ some \subseteq Call /\ IsFiniteSet(some) /\ paid \in [Attempts -> Nat]
         /\ \A a \in Attempts : /\ IsFiniteSet(Of(some, a)) /\ Of(some, a) \subseteq some
                                /\ paid[a] \in Nat
  <1>1. b \in Ledger /\ some \subseteq Call /\ IsFiniteSet(some) /\ paid \in [Attempts -> Nat]
    BY DEF Balanced
  <1>2. \A a \in Attempts : IsFiniteSet(Of(some, a)) /\ Of(some, a) \subseteq some
    BY <1>1, FS_Subset DEF Of
  <1> QED
    BY <1>1, <1>2

LEMMA CallFields ==
  ASSUME NEW c \in Call
  PROVE  c.task \in Tasks /\ c.attempt \in Attempts /\ c.day \in Nat /\ c.number \in Nat
  BY DEF Call

LEMMA LimitsAreNat ==
  /\ AttemptMaxCalls \in Nat /\ AttemptMaxTokens \in Nat /\ DailyMaxCalls \in Nat
  /\ DailyMaxTokens \in Nat /\ TurnCalls \in Nat /\ TurnTokens \in Nat
  /\ TurnCalls <= AttemptMaxCalls /\ TurnTokens <= AttemptMaxTokens
  BY BudgetAssumption

\* A call that the budget can afford is sent.
LEMMA SendsBalanced ==
  ASSUME NEW b, NEW some, NEW paid, Balanced(b, some, paid),
         NEW a \in Attempts, NEW task \in Tasks, Affordable(b, a, task),
         NEW c \in Call, c.attempt = a, c.task = task, c.number = b.usage[a].calls + 1
  PROVE  c \notin some /\ Balanced(Reserved(b, a, task), some \cup {c}, paid)
  <1>1. /\ b \in Ledger /\ some \subseteq Call /\ IsFiniteSet(some) /\ paid \in [Attempts -> Nat]
        /\ IsFiniteSet(Of(some, a)) /\ Of(some, a) \subseteq some
    BY BalancedTypes
  <1>2. PICK u \in Usage : u = b.usage[a]
    BY <1>1, LedgerFields
  <1>3. u.calls \in Nat /\ u.tokens \in Nat /\ u.reserved \in Nat /\ u.turnCalls \in Nat /\ u.turnTokens \in Nat
    BY DEF Usage
  <1>4. /\ u.reserved = InFlight(Of(some, a)) /\ u.tokens = paid[a]
        /\ u.calls + u.turnCalls <= AttemptMaxCalls
        /\ u.tokens + u.reserved + u.turnTokens <= AttemptMaxTokens
    BY <1>2 DEF Balanced
  <1>5. c \notin some
    <2>1. c \in some => c.number <= u.calls
      BY <1>2 DEF Balanced
    <2> QED
      BY <1>2, <1>3, <2>1
  <1>6. PICK r : r = Reserved(b, a, task)
    OBVIOUS
  <1>7. PICK v : v = r.usage[a]
    OBVIOUS
  <1>8. /\ r \in Ledger /\ Spares(b, r, a)
        /\ v.calls = u.calls + 1 /\ v.tokens = u.tokens /\ v.reserved = u.reserved + Cost[task]
        /\ v.turnCalls = IF task = "turn" THEN Less(u.turnCalls, 1) ELSE u.turnCalls
        /\ v.turnTokens = IF task = "turn" THEN Less(u.turnTokens, Cost[task]) ELSE u.turnTokens
    BY <1>1, <1>2, <1>6, <1>7, ReservedLedger
  <1>9. PICK k \in Nat : k = Cost[task]
    BY CostIsNat
  <1>10. /\ u.calls < AttemptMaxCalls
         /\ task # "turn" => u.calls + 1 + u.turnCalls <= AttemptMaxCalls
         /\ task = "turn" => u.tokens + u.reserved + k <= AttemptMaxTokens
         /\ task # "turn" => u.tokens + u.reserved + k + u.turnTokens <= AttemptMaxTokens
    BY <1>2, <1>3, <1>9 DEF Affordable
  <1>11. v.calls + v.turnCalls <= AttemptMaxCalls
    BY <1>3, <1>4, <1>8, <1>10, LimitsAreNat DEF Less
  <1>12. v.tokens + v.reserved + v.turnTokens <= AttemptMaxTokens
    BY <1>3, <1>4, <1>8, <1>9, <1>10, LimitsAreNat DEF Less
  <1>13. v.reserved = InFlight(Of(some \cup {c}, a))
    <2>1. Of(some \cup {c}, a) = Of(some, a) \cup {c} /\ c \notin Of(some, a)
      BY <1>1, <1>5 DEF Of
    <2>2. IsFiniteSet(Of(some, a)) /\ c.task \in Tasks
      BY <1>1
    <2>3. InFlight(Of(some, a) \cup {c}) = InFlight(Of(some, a)) + Cost[c.task]
      BY <2>1, <2>2, InFlightChanges
    <2> QED
      BY <1>4, <1>8, <2>1, <2>3
  <1>14. \A o \in Attempts \ {a} : r.usage[o] = b.usage[o] /\ Of(some \cup {c}, o) = Of(some, o)
    BY <1>8 DEF Spares, Of
  <1>15. \A x \in some \cup {c} : x.number <= r.usage[x.attempt].calls
    <2>1. ASSUME NEW x \in some PROVE x.number <= r.usage[x.attempt].calls
      <3>1. x.attempt \in Attempts /\ x.number \in Nat /\ x.number <= b.usage[x.attempt].calls
        BY <1>1, CallFields DEF Balanced
      <3>2. CASE x.attempt = a
        BY <1>2, <1>3, <1>7, <1>8, <3>1, <3>2
      <3>3. CASE x.attempt # a
        BY <1>14, <3>1, <3>3
      <3> QED
        BY <3>2, <3>3
    <2>2. c.number <= r.usage[c.attempt].calls
      BY <1>2, <1>3, <1>7, <1>8
    <2> QED
      BY <2>1, <2>2
  <1>16. IsFiniteSet(some \cup {c})
    BY <1>1, FS_AddElement
  <1>17. ASSUME NEW o \in Attempts
         PROVE  /\ r.usage[o].reserved = InFlight(Of(some \cup {c}, o)) /\ r.usage[o].tokens = paid[o]
                /\ r.usage[o].calls + r.usage[o].turnCalls <= AttemptMaxCalls
                /\ r.usage[o].tokens + r.usage[o].reserved + r.usage[o].turnTokens <= AttemptMaxTokens
    <2>1. CASE o = a
      BY <1>4, <1>7, <1>8, <1>11, <1>12, <1>13, <2>1
    <2>2. CASE o # a
      BY <1>14, <2>2 DEF Balanced
    <2> QED
      BY <2>1, <2>2
  <1>18. Balanced(r, some \cup {c}, paid)
    BY <1>1, <1>8, <1>15, <1>16, <1>17 DEF Balanced
  <1> QED
    BY <1>5, <1>6, <1>18

\* A call is settled for what it is billed.
LEMMA SettlesBalanced ==
  ASSUME NEW b, NEW some, NEW paid, Balanced(b, some, paid),
         NEW call \in some, NEW actual \in Nat, actual <= Cost[call.task]
  PROVE  Balanced(Settled(b, call, actual), some \ {call},
                  [paid EXCEPT ![call.attempt] = @ + actual])
  <1>1. /\ b \in Ledger /\ some \subseteq Call /\ IsFiniteSet(some) /\ paid \in [Attempts -> Nat]
        /\ call.task \in Tasks /\ call.attempt \in Attempts
    BY BalancedTypes, CallFields
  <1>2. PICK a \in Attempts : a = call.attempt
    BY <1>1
  <1>3. PICK u \in Usage : u = b.usage[a]
    BY <1>1, LedgerFields
  <1>4. /\ u.calls \in Nat /\ u.tokens \in Nat /\ u.reserved \in Nat /\ u.turnCalls \in Nat
        /\ u.turnTokens \in Nat /\ paid[a] \in Nat
    BY <1>1 DEF Usage
  <1>5. /\ u.reserved = InFlight(Of(some, a)) /\ u.tokens = paid[a]
        /\ u.calls + u.turnCalls <= AttemptMaxCalls
        /\ u.tokens + u.reserved + u.turnTokens <= AttemptMaxTokens
    BY <1>3 DEF Balanced
  <1>6. PICK r : r = Settled(b, call, actual)
    OBVIOUS
  <1>7. PICK v : v = r.usage[a]
    OBVIOUS
  <1>8. /\ r \in Ledger /\ Spares(b, r, a)
        /\ v.calls = u.calls /\ v.tokens = u.tokens + actual
        /\ v.reserved = Less(u.reserved, Cost[call.task])
        /\ v.turnCalls = u.turnCalls /\ v.turnTokens = u.turnTokens
    BY <1>1, <1>2, <1>3, <1>6, <1>7, SettledLedger
  <1>9. PICK k \in Nat : k = Cost[call.task]
    BY <1>1, CostIsNat
  <1>10. InFlight(Of(some \ {call}, a)) = u.reserved - k /\ u.reserved >= k
    <2>1. Of(some \ {call}, a) = Of(some, a) \ {call} /\ call \in Of(some, a)
      BY <1>2 DEF Of
    <2>2. IsFiniteSet(Of(some, a))
      BY BalancedTypes
    <2> QED
      BY <1>1, <1>5, <1>9, <2>1, <2>2, InFlightChanges
  <1>11. v.reserved = u.reserved - k
    BY <1>4, <1>8, <1>9, <1>10 DEF Less
  <1>12. v.tokens + v.reserved + v.turnTokens <= AttemptMaxTokens
    BY <1>4, <1>5, <1>8, <1>9, <1>10, <1>11, LimitsAreNat
  <1>13. PICK p \in [Attempts -> Nat] : p = [paid EXCEPT ![a] = paid[a] + actual]
    <2>1. PICK n \in Nat : n = paid[a] + actual
      BY <1>4
    <2>2. [paid EXCEPT ![a] = n] \in [Attempts -> Nat]
      BY <1>1, <1>2
    <2> QED
      BY <2>1, <2>2
  <1>14. p[a] = paid[a] + actual /\ \A o \in Attempts \ {a} : p[o] = paid[o]
    BY <1>1, <1>13
  <1>15. \A o \in Attempts \ {a} : r.usage[o] = b.usage[o] /\ Of(some \ {call}, o) = Of(some, o)
    BY <1>2, <1>8 DEF Spares, Of
  <1>16. ASSUME NEW x \in some PROVE x.number <= r.usage[x.attempt].calls
    <2>1. x.attempt \in Attempts /\ x.number <= b.usage[x.attempt].calls
      BY <1>1, CallFields DEF Balanced
    <2>2. r.usage[x.attempt].calls = b.usage[x.attempt].calls
      BY <1>3, <1>7, <1>8, <1>15, <2>1
    <2> QED
      BY <2>1, <2>2
  <1>17. IsFiniteSet(some \ {call})
    BY <1>1, FS_Subset
  <1>18. ASSUME NEW o \in Attempts
         PROVE  /\ r.usage[o].reserved = InFlight(Of(some \ {call}, o)) /\ r.usage[o].tokens = p[o]
                /\ r.usage[o].calls + r.usage[o].turnCalls <= AttemptMaxCalls
                /\ r.usage[o].tokens + r.usage[o].reserved + r.usage[o].turnTokens <= AttemptMaxTokens
    <2>1. CASE o = a
      BY <1>5, <1>7, <1>8, <1>10, <1>11, <1>12, <1>14, <2>1
    <2>2. CASE o # a
      BY <1>14, <1>15, <2>2 DEF Balanced
    <2> QED
      BY <2>1, <2>2
  <1>19. some \ {call} \subseteq Call /\ \A x \in some \ {call} : x.number <= r.usage[x.attempt].calls
    BY <1>1, <1>16
  <1>20. Balanced(r, some \ {call}, p)
    BY <1>8, <1>17, <1>18, <1>19 DEF Balanced
  <1> QED
    BY <1>2, <1>6, <1>13, <1>20

LEMMA RotatesBalanced ==
  ASSUME NEW b, NEW some, NEW paid, Balanced(b, some, paid), NEW day \in Nat
  PROVE  Balanced(Rotated(b, day), some, paid)
  <1>1. b \in Ledger
    BY BalancedTypes
  <1>2. Rotated(b, day) \in Ledger /\ Rotated(b, day).usage = b.usage
    BY <1>1, RotatedLedger
  <1> QED
    BY <1>2 DEF Balanced

-----------------------------------------------------------------------------
(* The same for the day. *)

LEMMA RotatesDay ==
  ASSUME NEW b \in Ledger, NEW some, NEW day \in Nat, DayBalanced(b, some, day)
  PROVE  DayBalanced(Rotated(b, day), some, day) /\ Rotated(b, day).today.key = day
  <1>1. CASE b.today.key = day
    BY <1>1, RotatedLedger
  <1>2. CASE b.today.key # day
    <2>1. some = {}
      BY <1>2 DEF DayBalanced
    <2>2. /\ Rotated(b, day).today.tokens = 0 /\ Rotated(b, day).today.reserved = 0
          /\ Rotated(b, day).today.key = day
      BY <1>2, RotatedLedger
    <2>3. InFlight(some) = 0 /\ 0 + 0 <= DailyMaxTokens
      BY <2>1, NothingInFlight, LimitsAreNat
    <2> QED
      BY <2>1, <2>2, <2>3 DEF DayBalanced
  <1> QED
    BY <1>1, <1>2

LEMMA SendsDay ==
  ASSUME NEW b \in Ledger, NEW some, IsFiniteSet(some), NEW day \in Nat, DayBalanced(b, some, day),
         b.today.key = day, NEW a \in Attempts, NEW task \in Tasks, Affordable(b, a, task),
         NEW c, c \notin some, c.task = task, c.day = day
  PROVE  DayBalanced(Reserved(b, a, task), some \cup {c}, day)
  <1>1. PICK r : r = Reserved(b, a, task)
    OBVIOUS
  <1>2. /\ r.today.key = b.today.key /\ r.today.tokens = b.today.tokens
        /\ r.today.reserved = b.today.reserved + Cost[task]
    BY <1>1, ReservedLedger
  <1>3. r.today.reserved = InFlight(some \cup {c})
    BY <1>2, InFlightChanges DEF DayBalanced
  <1>4. r.today.tokens + r.today.reserved <= DailyMaxTokens
    <2>1. b.today.tokens + b.today.reserved + Cost[task] <= DailyMaxTokens
      BY DEF Affordable
    <2>2. b.today.tokens \in Nat /\ b.today.reserved \in Nat /\ Cost[task] \in Nat
      BY LedgerFields, CostIsNat
    <2> QED
      BY <1>2, <2>1, <2>2, LimitsAreNat
  <1>5. DayBalanced(r, some \cup {c}, day)
    BY <1>2, <1>3, <1>4 DEF DayBalanced
  <1> QED
    BY <1>1, <1>5

LEMMA SettlesDay ==
  ASSUME NEW b \in Ledger, NEW some \in SUBSET Call, IsFiniteSet(some), NEW day \in Nat,
         DayBalanced(b, some, day), NEW call \in some, NEW actual \in Nat, actual <= Cost[call.task]
  PROVE  DayBalanced(Settled(b, call, actual), some \ {call}, day)
  <1>1. call.attempt \in Attempts /\ call.task \in Tasks
    BY CallFields
  <1>2. PICK r : r = Settled(b, call, actual)
    OBVIOUS
  <1>3. /\ r.today.key = b.today.key /\ r.today.tokens = b.today.tokens + actual
        /\ r.today.reserved = Less(b.today.reserved, Cost[call.task])
    BY <1>1, <1>2, SettledLedger
  <1>4. PICK k \in Nat : k = Cost[call.task]
    BY <1>1, CostIsNat
  <1>5. /\ InFlight(some \ {call}) = InFlight(some) - k /\ InFlight(some) >= k
        /\ InFlight(some) = b.today.reserved
    BY <1>1, <1>4, InFlightChanges DEF DayBalanced
  <1>6. b.today.tokens \in Nat /\ b.today.reserved \in Nat
    BY LedgerFields
  <1>7. r.today.reserved = b.today.reserved - k
    BY <1>3, <1>4, <1>5, <1>6 DEF Less
  <1>8. b.today.tokens + b.today.reserved <= DailyMaxTokens
    BY DEF DayBalanced
  <1>9. r.today.tokens + r.today.reserved <= DailyMaxTokens
    BY <1>3, <1>4, <1>6, <1>7, <1>8, LimitsAreNat
  <1>10. b.today.key = day /\ \A c \in some : c.day = day
    BY DEF DayBalanced
  <1>11. DayBalanced(r, some \ {call}, day)
    BY <1>3, <1>5, <1>7, <1>9, <1>10 DEF DayBalanced
  <1> QED
    BY <1>2, <1>11

-----------------------------------------------------------------------------
(* The money, step by step. *)

LEMMA Types ==
  ASSUME Typed
  PROVE  /\ attempt \in Attempts \cup {0} /\ attempt \in Nat
         /\ clock \in Nat
         /\ 0 \notin Attempts /\ Attempts \subseteq Nat
         /\ hand \in [Seats -> SUBSET Cards] /\ Agents \subseteq Seats
         /\ misses \in [Agents -> Nat]
         /\ asked = [s \in Agents |-> asked[s]]
         /\ reveal = [s \in Agents |-> reveal[s]]
         /\ last = [s \in Agents |-> last[s]]
  BY BudgetAssumption, ThinkingAssumption DEF Typed, TypeOK, Seats

LEMMA MoneyParts ==
  ASSUME Typed, Money
  PROVE  /\ budget \in Ledger /\ calls \subseteq Call /\ IsFiniteSet(calls)
         /\ Balanced(budget, calls, billed)
         /\ \A c \in calls : c.task \in Tasks /\ c.attempt \in Attempts /\ c.attempt <= attempt
         /\ attempt \in Attempts \/ (phase = "lobby" /\ window = NoWindow)
         /\ \A s \in Agents : Waiting(s) => asked[s].call \in calls /\ attempt \in Attempts
  <1>1. /\ budget \in Ledger /\ calls \subseteq Call /\ IsFiniteSet(calls)
        /\ Balanced(budget, calls, billed)
    BY BalancedTypes DEF Money
  <1>2. \A c \in calls : c.task \in Tasks /\ c.attempt \in Attempts /\ c.attempt <= attempt
    BY <1>1, CallFields DEF Money, CallsBegan
  <1>3. attempt \in Attempts \/ (phase = "lobby" /\ window = NoWindow)
    BY DEF Money, CallsBegan
  <1>4. ASSUME NEW s \in Agents, Waiting(s)
        PROVE  asked[s].call \in calls /\ attempt \in Attempts
    <2>1. asked[s].call \in calls
      BY <1>4 DEF Money, EachAwaitsItsOwn
    <2>2. \E c \in calls : c.attempt \in Attempts /\ c.attempt <= attempt
      BY <1>2, <2>1
    <2>3. attempt # 0
      <3>1. PICK n \in Nat : n # 0 /\ n <= attempt
        BY <2>2, Types
      <3> QED
        BY <3>1
    <2> QED
      BY <2>1, <2>3, Types
  <1> QED
    BY <1>1, <1>2, <1>3, <1>4

\* What a step keeps of the money: its balance, and the day's as long as no
\* call is in flight at midnight.
MoneyKept == Money' /\ (DayInv /\ (clock' # clock => calls = {}) => DayInv')

\* A seat that waits after the step waited before it, for the same call.
WaitsOn(s) == Waiting(s)' => Waiting(s) /\ asked'[s].call = asked[s].call

LEMMA StillOwn ==
  ASSUME EachAwaitsItsOwn, \A s \in Agents : WaitsOn(s),
         \A s \in Agents : Waiting(s)' => asked[s].call \in calls'
  PROVE  EachAwaitsItsOwn'
  <1>1. ASSUME NEW s \in Agents, Waiting(s)'
        PROVE  Waiting(s) /\ asked'[s].call = asked[s].call /\ asked'[s].call \in calls'
    BY <1>1 DEF WaitsOn
  <1>2. ASSUME NEW s \in Agents, NEW t \in Agents, Waiting(s)', Waiting(t)', s # t
        PROVE  asked'[s].call # asked'[t].call
    <2>1. Waiting(s) /\ asked'[s].call = asked[s].call /\ Waiting(t) /\ asked'[t].call = asked[t].call
      BY <1>1, <1>2
    <2>2. asked[s].call # asked[t].call
      BY <1>2, <2>1 DEF EachAwaitsItsOwn
    <2> QED
      BY <2>1, <2>2
  <1> QED
    BY <1>1, <1>2 DEF EachAwaitsItsOwn

\* A seat waits for a call that was just sent.
LEMMA OneMoreWaits ==
  ASSUME EachAwaitsItsOwn, NEW t \in Agents, NEW some, NEW c, c \notin some,
         \A s \in Agents \ {t} : WaitsOn(s) /\ (Waiting(s)' => asked[s].call \in some),
         asked'[t].call = c, c \in calls', some \subseteq calls'
  PROVE  EachAwaitsItsOwn'
  <1>1. ASSUME NEW s \in Agents \ {t}, Waiting(s)'
        PROVE  /\ Waiting(s) /\ asked'[s].call = asked[s].call /\ asked'[s].call \in calls'
               /\ asked'[s].call # c
    <2>1. Waiting(s) /\ asked'[s].call = asked[s].call /\ asked[s].call \in some
      BY <1>1 DEF WaitsOn
    <2> QED
      BY <2>1
  <1>2. ASSUME NEW s \in Agents, NEW r \in Agents, Waiting(s)', Waiting(r)', s # r
        PROVE  asked'[s].call # asked'[r].call
    <2>1. CASE s = t
      BY <1>1, <1>2, <2>1
    <2>2. CASE r = t
      BY <1>1, <1>2, <2>2
    <2>3. CASE s # t /\ r # t
      <3>1. Waiting(s) /\ Waiting(r) /\ asked'[s].call = asked[s].call /\ asked'[r].call = asked[r].call
        BY <1>1, <1>2, <2>3
      <3>2. asked[s].call # asked[r].call
        BY <1>2, <3>1 DEF EachAwaitsItsOwn
      <3> QED
        BY <3>1, <3>2
    <2> QED
      BY <2>1, <2>2, <2>3
  <1>3. \A s \in Agents : Waiting(s)' => asked'[s].call \in calls'
    BY <1>1
  <1> QED
    BY <1>2, <1>3 DEF EachAwaitsItsOwn

\* No call is sent or settled.
LEMMA NothingSpent ==
  ASSUME Typed, Money, budget' = budget \/ budget' = Rotated(budget, clock),
         calls' = calls, billed' = billed, attempt' = attempt, clock' \in Nat,
         budget' # budget => clock' = clock,
         attempt \in Attempts \/ (phase' = phase /\ window' = window),
         \A s \in Agents : WaitsOn(s)
  PROVE  MoneyKept
  <1>1. Balanced(budget', calls', billed')
    <2>1. Balanced(budget, calls, billed)
      BY MoneyParts
    <2>2. Balanced(Rotated(budget, clock), calls, billed)
      BY <2>1, Types, RotatesBalanced
    <2> QED
      BY <2>1, <2>2
  <1>2. CallsBegan'
    BY DEF Money, CallsBegan
  <1>3. EachAwaitsItsOwn'
    <2>1. EachAwaitsItsOwn
      BY DEF Money
    <2>2. \A s \in Agents : Waiting(s)' => asked[s].call \in calls'
      BY <2>1 DEF WaitsOn, EachAwaitsItsOwn
    <2> QED
      BY <2>1, <2>2, StillOwn
  <1>4. Money'
    BY <1>1, <1>2, <1>3 DEF Money
  <1>5. ASSUME DayInv, clock' # clock => calls = {}
        PROVE  DayBalanced(budget', calls', clock')
    <2>1. DayBalanced(budget, calls, clock)
      BY <1>5 DEF DayInv
    <2>2. CASE clock' = clock
      <3>1. DayBalanced(Rotated(budget, clock), calls, clock)
        BY <2>1, MoneyParts, Types, RotatesDay
      <3> QED
        BY <2>1, <2>2, <3>1
    <2>3. CASE clock' # clock
      <3>1. calls = {} /\ budget' = budget
        BY <1>5, <2>3
      <3> QED
        BY <2>1, <3>1 DEF DayBalanced
    <2> QED
      BY <2>2, <2>3
  <1> QED
    BY <1>4, <1>5 DEF MoneyKept, DayInv

\* What is asked of a budget that calls are sent on or settled in.
Accounts(b, some, paid) ==
  Balanced(b, some, paid) /\ (DayInv => DayBalanced(b, some, clock) /\ b.today.key = clock)

LEMMA AccountsToday ==
  ASSUME Typed, Money
  PROVE  Accounts(Rotated(budget, clock), calls, billed)
  <1>1. Balanced(Rotated(budget, clock), calls, billed)
    BY MoneyParts, Types, RotatesBalanced
  <1>2. DayInv => DayBalanced(Rotated(budget, clock), calls, clock) /\ Rotated(budget, clock).today.key = clock
    BY MoneyParts, Types, RotatesDay DEF DayInv
  <1> QED
    BY <1>1, <1>2 DEF Accounts

LEMMA AccountsSettle ==
  ASSUME Typed, NEW b, NEW some, NEW paid, Accounts(b, some, paid),
         NEW call \in some, NEW actual \in Nat, actual <= Cost[call.task]
  PROVE  Accounts(Settled(b, call, actual), some \ {call}, [paid EXCEPT ![call.attempt] = @ + actual])
  <1>1. Balanced(b, some, paid)
    BY DEF Accounts
  <1>2. /\ b \in Ledger /\ some \in SUBSET Call /\ IsFiniteSet(some)
        /\ call.attempt \in Attempts /\ call.task \in Tasks
    BY <1>1, BalancedTypes, CallFields
  <1>3. Balanced(Settled(b, call, actual), some \ {call}, [paid EXCEPT ![call.attempt] = @ + actual])
    BY <1>1, SettlesBalanced
  <1>4. ASSUME DayInv
        PROVE  /\ DayBalanced(Settled(b, call, actual), some \ {call}, clock)
               /\ Settled(b, call, actual).today.key = clock
    <2>1. DayBalanced(b, some, clock) /\ b.today.key = clock
      BY <1>4 DEF Accounts
    <2>2. DayBalanced(Settled(b, call, actual), some \ {call}, clock)
      BY <1>2, <2>1, Types, SettlesDay
    <2>3. Settled(b, call, actual).today.key = b.today.key
      BY <1>2, SettledLedger
    <2> QED
      BY <2>1, <2>2, <2>3
  <1> QED
    BY <1>3, <1>4 DEF Accounts

LEMMA AccountsSend ==
  ASSUME Typed, NEW b, NEW some, NEW paid, Accounts(b, some, paid), attempt \in Attempts,
         NEW task \in Tasks, Affordable(b, attempt, task)
  PROVE  /\ CallOf(b, task) \notin some
         /\ CallOf(b, task).task = task /\ CallOf(b, task).attempt = attempt
         /\ Accounts(Reserved(b, attempt, task), some \cup {CallOf(b, task)}, paid)
  <1>1. Balanced(b, some, paid)
    BY DEF Accounts
  <1>2. b \in Ledger /\ IsFiniteSet(some) /\ b.usage[attempt].calls \in Nat
    BY <1>1, BalancedTypes, LedgerFields
  <1>3. PICK n \in Nat : n = b.usage[attempt].calls + 1
    BY <1>2
  <1>4. PICK c \in Call : c = [task |-> task, attempt |-> attempt, day |-> clock, number |-> n]
    BY Types DEF Call
  <1>5. c.task = task /\ c.attempt = attempt /\ c.day = clock /\ c.number = b.usage[attempt].calls + 1
    BY <1>3, <1>4
  <1>6. c = CallOf(b, task)
    BY <1>3, <1>4 DEF CallOf
  <1>7. c \notin some /\ Balanced(Reserved(b, attempt, task), some \cup {c}, paid)
    BY <1>1, <1>5, SendsBalanced
  <1>8. ASSUME DayInv
        PROVE  /\ DayBalanced(Reserved(b, attempt, task), some \cup {c}, clock)
               /\ Reserved(b, attempt, task).today.key = clock
    <2>1. DayBalanced(b, some, clock) /\ b.today.key = clock
      BY <1>8 DEF Accounts
    <2>2. DayBalanced(Reserved(b, attempt, task), some \cup {c}, clock)
      BY <1>2, <1>5, <1>7, <2>1, Types, SendsDay
    <2>3. Reserved(b, attempt, task).today.key = b.today.key
      BY <1>2, ReservedLedger
    <2> QED
      BY <2>1, <2>2, <2>3
  <1> QED
    BY <1>5, <1>6, <1>7, <1>8 DEF Accounts

\* A step that leaves the accounts so keeps the money.
LEMMA AccountsKeep ==
  ASSUME Accounts(budget', calls', billed'), EachAwaitsItsOwn', CallsBegan', clock' = clock
  PROVE  MoneyKept
  <1>1. Balanced(budget', calls', billed') /\ (DayInv => DayBalanced(budget', calls', clock'))
    BY DEF Accounts
  <1> QED
    BY <1>1 DEF MoneyKept, Money, DayInv

-----------------------------------------------------------------------------
(* The actions, as far as the money is concerned. *)

LEMMA OneAsked ==
  ASSUME Typed, NEW t \in Agents, NEW v, asked' = [asked EXCEPT ![t] = v]
  PROVE  /\ asked' = [s \in Agents |-> asked'[s]]
         /\ asked'[t] = v /\ \A s \in Agents \ {t} : asked'[s] = asked[s]
  <1>1. asked = [s \in Agents |-> asked[s]]
    BY Types
  <1>2. asked' = [s \in Agents |-> IF s = t THEN v ELSE asked[s]]
    BY <1>1
  <1> QED
    BY <1>2

LEMMA NobodyWaits ==
  ASSUME Cancelled
  PROVE  /\ asked' = [s \in Agents |-> asked'[s]] /\ reveal' = [s \in Agents |-> reveal'[s]]
         /\ \A s \in Agents : WaitsOn(s) /\ asked'[s] = Idle /\ reveal'[s] = NoReveal
  BY DEF Cancelled, Idle, Waiting, WaitsOn

LEMMA NoMoreWaits ==
  ASSUME Typed, NEW t \in Agents, NEW v, v.at \notin {"model", "retry"},
         asked' = [asked EXCEPT ![t] = v]
  PROVE  /\ ~Waiting(t)' /\ \A s \in Agents : WaitsOn(s)
         /\ \A s \in Agents \ {t} : asked'[s] = asked[s]
  BY OneAsked DEF Waiting, WaitsOn

LEMMA Decided ==
  ASSUME NEW t, NEW choices, NEW counts, Decides(t, choices, counts)
  PROVE  \E v : v.at = "pacing" /\ v.choice \in choices /\ asked' = [asked EXCEPT ![t] = v]
  <1>1. PICK choice \in choices :
          asked' = [asked EXCEPT ![t] = [at |-> "pacing", seen |-> Version, choice |-> choice, call |-> NoCall]]
    BY DEF Decides
  <1> QED
    BY <1>1

LEMMA Outcomes ==
  ASSUME NEW task \in Tasks, NEW outcome \in Answers(task) \cup {Failure(task)}
  PROVE  /\ outcome.settled \in Nat /\ outcome.settled <= Cost[task]
         /\ outcome.billed = outcome.settled
  BY CostIsNat DEF Answers, Failure

LEMMA SettlesCall ==
  ASSUME Typed, Money, NEW call \in calls, NEW outcome \in Answers(call.task) \cup {Failure(call.task)},
         Bills(call, outcome)
  PROVE  Accounts(SettledWith(call, outcome), CallsWithout(call), billed')
  <1>1. call.task \in Tasks
    BY MoneyParts
  <1>2. PICK n \in Nat : n = outcome.settled /\ n <= Cost[call.task] /\ outcome.billed = n
    BY <1>1, Outcomes
  <1>3. Accounts(Settled(Rotated(budget, clock), call, n), calls \ {call},
                 [billed EXCEPT ![call.attempt] = @ + n])
    BY <1>2, AccountsToday, AccountsSettle
  <1> QED
    BY <1>2, <1>3 DEF SettledWith, CallsWithout, Bills

LEMMA SendsCall ==
  ASSUME Typed, NEW b, NEW some \in SUBSET calls, NEW paid, Accounts(b, some, paid),
         attempt \in Attempts, NEW task \in Tasks, Affordable(b, attempt, task), Sends(b, some, task)
  PROVE  /\ Accounts(budget', calls', paid)
         /\ CallOf(b, task) \notin some /\ CallOf(b, task).attempt = attempt
         /\ CallOf(b, task) \in calls' /\ some \subseteq calls' /\ calls' \subseteq calls \cup {CallOf(b, task)}
  <1>1. /\ CallOf(b, task) \notin some /\ CallOf(b, task).attempt = attempt
        /\ Accounts(Reserved(b, attempt, task), some \cup {CallOf(b, task)}, paid)
    BY AccountsSend
  <1> QED
    BY <1>1 DEF Sends

LEMMA TalkMoney ==
  ASSUME Typed, Money, Talk
  PROVE  MoneyKept
  <1> DEFINE b == Rotated(budget, clock)
  <1>1. attempt' = attempt /\ phase' = phase /\ clock' = clock /\ billed' = billed /\ asked' = asked
    BY DEF Talk, room
  <1>2. \A s \in Agents : WaitsOn(s)
    BY <1>1 DEF WaitsOn, Waiting
  <1>3. CASE Affordable(b, attempt, "talk")
    <2>1. Sends(b, calls, "talk")
      BY <1>3 DEF Talk
    <2>2. attempt \in Attempts
      BY Types DEF Talk
    <2>3. "talk" \in Tasks /\ calls \in SUBSET calls
      BY DEF Tasks
    <2>4. Accounts(b, calls, billed)
      BY AccountsToday
    <2> HIDE DEF b
    <2>5. /\ Accounts(budget', calls', billed) /\ CallOf(b, "talk").attempt = attempt
          /\ calls \subseteq calls' /\ calls' \subseteq calls \cup {CallOf(b, "talk")}
      BY <1>3, <2>1, <2>2, <2>3, <2>4, SendsCall
    <2>6. EachAwaitsItsOwn'
      <3>1. EachAwaitsItsOwn
        BY DEF Money
      <3>2. \A s \in Agents : Waiting(s)' => asked[s].call \in calls'
        BY <1>2, <2>5, <3>1 DEF EachAwaitsItsOwn, WaitsOn
      <3> QED
        BY <1>2, <3>1, <3>2, StillOwn
    <2>7. CallsBegan'
      <3>1. attempt <= attempt
        BY Types
      <3> QED
        BY <1>1, <2>2, <2>5, <3>1 DEF Money, CallsBegan
    <2>8. Accounts(budget', calls', billed')
      BY <1>1, <2>5
    <2> QED
      BY <1>1, <2>6, <2>7, <2>8, AccountsKeep
  <1>4. CASE ~Affordable(b, attempt, "talk")
    <2>1. budget' = Rotated(budget, clock) /\ calls' = calls
      BY <1>4 DEF Talk
    <2>2. clock' \in Nat /\ attempt \in Attempts
      BY <1>1, Types DEF Talk
    <2> QED
      BY <1>1, <1>2, <2>1, <2>2, NothingSpent
  <1> QED
    BY <1>3, <1>4

LEMMA LateAnswerMoney ==
  ASSUME Typed, Money, LateAnswer
  PROVE  MoneyKept
  <1> DEFINE Ends(call, outcome) ==
        /\ budget' = SettledWith(call, outcome) /\ calls' = CallsWithout(call) /\ Bills(call, outcome)
        /\ UNCHANGED <<room, asked, clock>>
  <1>0. PICK call \in calls \ Awaited :
          \E outcome \in Answers(call.task) \cup {Failure(call.task)} : Ends(call, outcome)
    BY DEF LateAnswer
  <1>1. PICK outcome \in Answers(call.task) \cup {Failure(call.task)} : Ends(call, outcome)
    BY <1>0
  <1>2. Accounts(budget', calls', billed')
    BY <1>1, SettlesCall
  <1>3. attempt' = attempt /\ phase' = phase /\ window' = window /\ clock' = clock /\ asked' = asked
    BY <1>1 DEF room
  <1>4. EachAwaitsItsOwn'
    <2>1. EachAwaitsItsOwn /\ \A s \in Agents : WaitsOn(s)
      BY <1>3 DEF Money, WaitsOn, Waiting
    <2>2. \A s \in Agents : Waiting(s)' => asked[s].call \in calls'
      BY <1>1, <2>1 DEF EachAwaitsItsOwn, WaitsOn, Awaited, CallsWithout
    <2> QED
      BY <2>1, <2>2, StillOwn
  <1>5. CallsBegan'
    BY <1>1, <1>3 DEF Money, CallsBegan, CallsWithout
  <1> QED
    BY <1>2, <1>3, <1>4, <1>5, AccountsKeep

LEMMA MidnightMoney ==
  ASSUME Typed, Money, Midnight
  PROVE  MoneyKept
  <1>1. /\ attempt' = attempt /\ phase' = phase /\ window' = window /\ billed' = billed /\ calls' = calls
        /\ budget' = budget /\ asked' = asked /\ clock' = clock + 1
    BY DEF Midnight, room
  <1>2. clock' \in Nat
    BY <1>1, Types
  <1>3. \A s \in Agents : WaitsOn(s)
    BY <1>1 DEF WaitsOn, Waiting
  <1> QED
    BY <1>1, <1>2, <1>3, NothingSpent

LEMMA AskMoney ==
  ASSUME Typed, Money, NEW t \in Agents, Ask(t)
  PROVE  MoneyKept
  <1> DEFINE b == Rotated(budget, clock)
  <1>1. /\ attempt' = attempt /\ phase' = phase /\ phase = "placing"
        /\ clock' = clock /\ billed' = billed
    BY DEF Ask, room
  <1>2. attempt \in Attempts /\ clock' \in Nat
    BY <1>1, Types, MoneyParts
  <1>3. ASSUME NEW choices, NEW counts, Decides(t, choices, counts), calls' = calls,
               budget' = budget \/ budget' = Rotated(budget, clock)
        PROVE  MoneyKept
    <2>1. \A s \in Agents : WaitsOn(s)
      BY <1>3, Decided, NoMoreWaits
    <2> QED
      BY <1>1, <1>2, <1>3, <2>1, NothingSpent
  <1>4. ASSUME Affordable(b, attempt, "turn"), Sends(b, calls, "turn"), Waits(t, "model", CallOf(b, "turn"))
        PROVE  MoneyKept
    <2>1. "turn" \in Tasks /\ calls \in SUBSET calls
      BY DEF Tasks
    <2>2. Accounts(b, calls, billed)
      BY AccountsToday
    <2> HIDE DEF b
    <2>3. PICK c : c = CallOf(b, "turn")
      OBVIOUS
    <2>4. /\ Accounts(budget', calls', billed)
          /\ c \notin calls /\ c.attempt = attempt
          /\ c \in calls' /\ calls \subseteq calls' /\ calls' \subseteq calls \cup {c}
      BY <1>2, <1>4, <2>1, <2>2, <2>3, SendsCall
    <2>5. asked'[t].call = c /\ \A s \in Agents \ {t} : asked'[s] = asked[s]
      <3>1. PICK v : v.call = c /\ asked' = [asked EXCEPT ![t] = v]
        BY <1>4, <2>3 DEF Waits
      <3> QED
        BY <3>1, OneAsked
    <2>6. EachAwaitsItsOwn'
      <3>1. EachAwaitsItsOwn
        BY DEF Money
      <3>2. \A s \in Agents \ {t} : WaitsOn(s) /\ (Waiting(s)' => asked[s].call \in calls)
        BY <2>5, <3>1 DEF WaitsOn, Waiting, EachAwaitsItsOwn
      <3> QED
        BY <2>4, <2>5, <3>1, <3>2, OneMoreWaits
    <2>7. CallsBegan'
      <3>1. attempt <= attempt
        BY Types
      <3> QED
        BY <1>1, <1>2, <2>4, <3>1 DEF Money, CallsBegan
    <2>8. Accounts(budget', calls', billed')
      BY <1>1, <2>4
    <2> QED
      BY <1>1, <2>6, <2>7, <2>8, AccountsKeep
  <1>5. \/ /\ Decides(t, Degraded(t), SyncedMisses) /\ calls' = calls
           /\ budget' = budget \/ budget' = Rotated(budget, clock)
        \/ /\ Decides(t, Candidates(t), SyncedMisses) /\ calls' = calls
           /\ budget' = budget \/ budget' = Rotated(budget, clock)
        \/ Affordable(b, attempt, "turn") /\ Sends(b, calls, "turn") /\ Waits(t, "model", CallOf(b, "turn"))
    BY DEF Ask
  <1> QED
    BY <1>3, <1>4, <1>5

\* The call a seat waits for ends, and the seat waits no more.
LEMMA OwnCallEnds ==
  ASSUME Typed, Money, NEW t \in Agents, Waiting(t), NEW choices, NEW counts,
         Decides(t, choices, counts), calls' = CallsWithout(asked[t].call),
         attempt' = attempt
  PROVE  EachAwaitsItsOwn' /\ CallsBegan'
  <1>1. EachAwaitsItsOwn
    BY DEF Money
  <1>2. ~Waiting(t)' /\ \A s \in Agents : WaitsOn(s)
    BY Decided, NoMoreWaits
  <1>3. ASSUME NEW s \in Agents, Waiting(s)'
        PROVE  asked[s].call \in calls'
    <2>1. s # t /\ Waiting(s)
      BY <1>2, <1>3 DEF WaitsOn
    <2>2. asked[s].call \in calls /\ asked[s].call # asked[t].call
      BY <1>1, <2>1 DEF EachAwaitsItsOwn
    <2> QED
      BY <2>2 DEF CallsWithout
  <1>4. EachAwaitsItsOwn'
    BY <1>1, <1>2, <1>3, StillOwn
  <1>5. CallsBegan'
    BY MoneyParts DEF Money, CallsBegan, CallsWithout
  <1> QED
    BY <1>4, <1>5

LEMMA ModelAnswersMoney ==
  ASSUME Typed, Money, NEW t \in Agents, ModelAnswers(t)
  PROVE  MoneyKept
  <1>1. PICK call : call = asked[t].call
    OBVIOUS
  <1>2. Waiting(t) /\ call \in calls
    BY <1>1, MoneyParts DEF ModelAnswers, Waiting
  <1>3. PICK outcome \in Answers(call.task) :
          budget' = SettledWith(call, outcome) /\ calls' = CallsWithout(call) /\ Bills(call, outcome)
    BY <1>1 DEF ModelAnswers
  <1>4. Accounts(budget', calls', billed')
    BY <1>2, <1>3, SettlesCall
  <1>5. /\ Decides(t, FromModel(t) \cup Degraded(t), misses)
        /\ attempt' = attempt /\ phase' = phase /\ clock' = clock
    BY DEF ModelAnswers, room
  <1>6. EachAwaitsItsOwn' /\ CallsBegan'
    BY <1>1, <1>2, <1>3, <1>5, OwnCallEnds
  <1> QED
    BY <1>4, <1>5, <1>6, AccountsKeep

LEMMA ModelFailsMoney ==
  ASSUME Typed, Money, NEW t \in Agents, ModelFails(t)
  PROVE  MoneyKept
  <1>1. PICK call : call = asked[t].call
    OBVIOUS
  <1>2. Waiting(t) /\ call \in calls /\ attempt \in Attempts
    BY <1>1, MoneyParts DEF ModelFails, Waiting
  <1>3. PICK b : b = SettledWith(call, Failure(call.task))
    OBVIOUS
  <1>4. Bills(call, Failure(call.task))
    BY <1>1 DEF ModelFails
  <1>5. Accounts(b, CallsWithout(call), billed')
    BY <1>2, <1>3, <1>4, SettlesCall
  <1>6. attempt' = attempt /\ phase' = phase /\ clock' = clock
    BY DEF ModelFails, room
  <1>7. ASSUME Affordable(b, attempt, "turn"), Sends(b, CallsWithout(call), "turn"),
               Waits(t, "retry", CallOf(b, "turn"))
        PROVE  MoneyKept
    <2>1. "turn" \in Tasks /\ CallsWithout(call) \in SUBSET calls
      BY DEF Tasks, CallsWithout
    <2>2. PICK c : c = CallOf(b, "turn")
      OBVIOUS
    <2>3. /\ Accounts(budget', calls', billed')
          /\ c \notin CallsWithout(call) /\ c.attempt = attempt
          /\ c \in calls' /\ CallsWithout(call) \subseteq calls' /\ calls' \subseteq calls \cup {c}
      BY <1>2, <1>5, <1>7, <2>1, <2>2, SendsCall
    <2>4. asked'[t].call = c /\ \A s \in Agents \ {t} : asked'[s] = asked[s]
      <3>1. PICK v : v.call = c /\ asked' = [asked EXCEPT ![t] = v]
        BY <1>7, <2>2 DEF Waits
      <3> QED
        BY <3>1, OneAsked
    <2>5. EachAwaitsItsOwn
      BY DEF Money
    <2>6. ASSUME NEW s \in Agents \ {t}, Waiting(s)'
          PROVE  /\ Waiting(s) /\ asked'[s].call = asked[s].call
                 /\ asked[s].call \in CallsWithout(call)
      <3>1. Waiting(s) /\ asked'[s].call = asked[s].call
        BY <2>4, <2>6 DEF Waiting
      <3>2. asked[s].call \in calls /\ asked[s].call # call
        BY <1>1, <1>2, <2>5, <3>1 DEF EachAwaitsItsOwn
      <3> QED
        BY <3>1, <3>2 DEF CallsWithout
    <2>7. EachAwaitsItsOwn'
      <3>1. \A s \in Agents \ {t} : WaitsOn(s) /\ (Waiting(s)' => asked[s].call \in CallsWithout(call))
        BY <2>6 DEF WaitsOn
      <3> QED
        BY <2>3, <2>4, <2>5, <3>1, OneMoreWaits
    <2>8. CallsBegan'
      <3>1. attempt <= attempt
        BY Types
      <3> QED
        BY <1>2, <1>6, <2>3, <3>1 DEF Money, CallsBegan
    <2> QED
      BY <1>6, <2>3, <2>7, <2>8, AccountsKeep
  <1>8. ASSUME budget' = b, calls' = CallsWithout(call), Decides(t, Degraded(t), misses)
        PROVE  MoneyKept
    <2>1. EachAwaitsItsOwn' /\ CallsBegan'
      BY <1>1, <1>2, <1>6, <1>8, OwnCallEnds
    <2>2. Accounts(budget', calls', billed')
      BY <1>5, <1>8
    <2> QED
      BY <1>6, <2>1, <2>2, AccountsKeep
  <1>9. \/ /\ Affordable(b, attempt, "turn") /\ Sends(b, CallsWithout(call), "turn")
           /\ Waits(t, "retry", CallOf(b, "turn"))
        \/ budget' = b /\ calls' = CallsWithout(call) /\ Decides(t, Degraded(t), misses)
    BY <1>1, <1>3 DEF ModelFails
  <1> QED
    BY <1>7, <1>8, <1>9

\* The accounts of ended attempts are dropped once their calls are settled,
\* and a new attempt gets its share for the turns.
LEMMA BegunBalanced ==
  ASSUME Balanced(budget, calls, billed), NEW a \in Attempts, \A c \in calls : c.attempt # a,
         billed' = [o \in Attempts |-> IF Over(o) THEN 0 ELSE billed[o]]
  PROVE  /\ Balanced(Begun(Closed(budget), a), calls, billed')
         /\ Begun(Closed(budget), a).today = budget.today
  <1>1. budget \in Ledger /\ calls \subseteq Call /\ IsFiniteSet(calls) /\ billed \in [Attempts -> Nat]
    BY BalancedTypes
  <1>2. PICK v \in Usage : /\ v = [Unused EXCEPT !.turnCalls = TurnCalls, !.turnTokens = TurnTokens]
                           /\ v.calls = 0 /\ v.tokens = 0 /\ v.reserved = 0
                           /\ v.turnCalls = TurnCalls /\ v.turnTokens = TurnTokens
    <2>1. PICK z \in Usage : z = Unused
      BY DEF Usage, Unused
    <2>2. PICK x \in Usage : x = [z EXCEPT !.turnCalls = TurnCalls, !.turnTokens = TurnTokens]
      BY LimitsAreNat DEF Usage
    <2>3. x.calls = 0 /\ x.tokens = 0 /\ x.reserved = 0
      BY <2>1, <2>2 DEF Unused, Usage
    <2>4. x.turnCalls = TurnCalls /\ x.turnTokens = TurnTokens
      BY <2>2 DEF Usage
    <2> QED
      BY <2>1, <2>2, <2>3, <2>4
  <1>3. PICK z \in Usage : z = Unused /\ z.calls = 0 /\ z.tokens = 0 /\ z.reserved = 0
                           /\ z.turnCalls = 0 /\ z.turnTokens = 0
    <2>1. PICK z \in Usage : z = Unused
      BY DEF Usage, Unused
    <2>2. z.calls = 0 /\ z.tokens = 0 /\ z.reserved = 0 /\ z.turnCalls = 0 /\ z.turnTokens = 0
      BY <2>1 DEF Unused
    <2> QED
      BY <2>1, <2>2
  <1>4. PICK f : f = [o \in Attempts |-> IF Over(o) THEN z ELSE budget.usage[o]]
    OBVIOUS
  <1>5. f \in [Attempts -> Usage] /\ \A o \in Attempts : f[o] = IF Over(o) THEN z ELSE budget.usage[o]
    BY <1>1, <1>4, LedgerFields
  <1>6. Closed(budget) = [usage |-> f, today |-> budget.today] /\ budget.today \in Day
    BY <1>1, <1>3, <1>4 DEF Closed, Ledger
  <1>7. PICK g \in [Attempts -> Usage] : g = [f EXCEPT ![a] = v]
    BY <1>5
  <1>8. g[a] = v /\ \A o \in Attempts \ {a} : g[o] = IF Over(o) THEN z ELSE budget.usage[o]
    BY <1>5, <1>7
  <1>9. PICK r : r = [usage |-> g, today |-> budget.today]
    OBVIOUS
  <1>10. Begun(Closed(budget), a) = r
    BY <1>2, <1>6, <1>7, <1>9 DEF Begun
  <1>11. r \in Ledger /\ r.usage = g /\ r.today = budget.today
    BY <1>6, <1>9 DEF Ledger
  <1>12. ASSUME NEW o \in Attempts, Over(o)
         PROVE  InFlight(Of(calls, o)) = 0 /\ billed'[o] = 0
    <2>1. Of(calls, o) = {}
      BY <1>12 DEF Of, Over
    <2> QED
      BY <1>12, <2>1, NothingInFlight
  <1>13. Over(a)
    BY DEF Over
  <1>14. billed' \in [Attempts -> Nat]
    BY <1>1
  <1>15. ASSUME NEW o \in Attempts
         PROVE  /\ g[o].reserved = InFlight(Of(calls, o)) /\ g[o].tokens = billed'[o]
                /\ g[o].calls + g[o].turnCalls <= AttemptMaxCalls
                /\ g[o].tokens + g[o].reserved + g[o].turnTokens <= AttemptMaxTokens
    <2>1. CASE o = a
      <3>1. g[o] = v /\ InFlight(Of(calls, o)) = 0 /\ billed'[o] = 0
        BY <1>8, <1>12, <1>13, <2>1
      <3> QED
        BY <1>2, <3>1, LimitsAreNat
    <2>2. CASE o # a /\ Over(o)
      <3>1. g[o] = z /\ InFlight(Of(calls, o)) = 0 /\ billed'[o] = 0
        BY <1>8, <1>12, <2>2
      <3> QED
        BY <1>3, <3>1, LimitsAreNat
    <2>3. CASE o # a /\ ~Over(o)
      <3>1. g[o] = budget.usage[o] /\ billed'[o] = billed[o]
        BY <1>8, <2>3
      <3> QED
        BY <3>1 DEF Balanced
    <2> QED
      BY <2>1, <2>2, <2>3
  <1>16. ASSUME NEW c \in calls
         PROVE  c.number <= g[c.attempt].calls
    <2>1. c.attempt \in Attempts \ {a} /\ ~Over(c.attempt)
      BY <1>1, CallFields DEF Over
    <2>2. g[c.attempt] = budget.usage[c.attempt]
      BY <1>8, <2>1
    <2> QED
      BY <2>2 DEF Balanced
  <1>17. Balanced(r, calls, billed')
    BY <1>1, <1>11, <1>14, <1>15, <1>16 DEF Balanced
  <1> QED
    BY <1>10, <1>11, <1>17

LEMMA StartDiscussionMoney ==
  ASSUME Typed, Money, StartDiscussion
  PROVE  MoneyKept
  <1>1. /\ attempt' = attempt + 1 /\ attempt' \in Attempts /\ Cancelled
        /\ budget' = Begun(Closed(budget), attempt') /\ calls' = calls /\ clock' = clock
        /\ billed' = [a \in Attempts |-> IF Over(a) THEN 0 ELSE billed[a]]
    BY DEF StartDiscussion
  <1>2. \A c \in calls : c.attempt \in Nat /\ c.attempt <= attempt
    BY MoneyParts, Types
  <1>3. \A c \in calls : c.attempt # attempt' /\ c.attempt <= attempt'
    BY <1>1, <1>2, Types
  <1>4. PICK a \in Attempts : a = attempt'
    BY <1>1
  <1>5. Balanced(budget', calls', billed') /\ budget'.today = budget.today
    BY <1>1, <1>3, <1>4, MoneyParts, BegunBalanced
  <1>6. EachAwaitsItsOwn'
    <2>1. \A s \in Agents : ~Waiting(s)'
      BY <1>1, NobodyWaits DEF Waiting, Idle
    <2> QED
      BY <2>1 DEF EachAwaitsItsOwn
  <1>7. CallsBegan'
    BY <1>1, <1>3 DEF CallsBegan
  <1>8. DayInv => DayInv'
    BY <1>1, <1>5 DEF DayInv, DayBalanced
  <1> QED
    BY <1>5, <1>6, <1>7, <1>8 DEF MoneyKept, Money

LEMMA QuietMoney ==
  ASSUME Typed, Money, UNCHANGED money, attempt' = attempt,
         attempt \in Attempts \/ (phase' = phase /\ window' = window),
         \A s \in Agents : WaitsOn(s)
  PROVE  MoneyKept
  <1>1. budget' = budget /\ calls' = calls /\ billed' = billed /\ clock' = clock
    BY DEF money
  <1>2. clock' \in Nat
    BY <1>1, Types
  <1> QED
    BY <1>1, <1>2, NothingSpent

LEMMA PuttingDown ==
  ASSUME NEW s, NEW c, PutDown(s, c)
  PROVE  /\ attempt' = attempt /\ faceUp' = faceUp /\ hand' = [hand EXCEPT ![s] = @ \ {c}]
         /\ phase' \in {phase, "over"} /\ turn' \in Seats \cup {Nobody}
         /\ window' \in {NoWindow, [seat |-> s, card |-> c]}
  BY DEF PutDown, TurnPasses

LEMMA Closing ==
  ASSUME NEW yes, WindowCloses(yes)
  PROVE  /\ attempt' = attempt /\ hand' = hand /\ asked' = asked /\ last' = last
         /\ window' = NoWindow /\ phase' \in {phase, "over"} /\ turn' \in Seats \cup {Nobody}
         /\ faceUp' \in {faceUp, faceUp \cup {window.card}} /\ (~yes => faceUp' = faceUp)
         /\ misses' = misses /\ breaker' = breaker /\ UNCHANGED money
  BY DEF WindowCloses, TurnPasses

LEMMA QuietActions ==
  ASSUME Typed, Money
  PROVE  /\ BeginPlacement \/ EndAttempt => MoneyKept
         /\ \A p \in Players, c \in Cards : CardPlace(p, c) => MoneyKept
         /\ \A yes \in BOOLEAN : HintDecide(yes) => MoneyKept
         /\ \A t \in Agents : DeadlineFires(t) \/ PacingEnds(t) \/ AgentHint(t) => MoneyKept
         /\ UNCHANGED vars => MoneyKept
  <1>1. (phase # "lobby" => attempt \in Attempts) /\ (window # NoWindow => attempt \in Attempts)
    BY MoneyParts
  <1>2. ASSUME BeginPlacement \/ EndAttempt
        PROVE  MoneyKept
    <2>1. phase # "lobby" /\ attempt' = attempt /\ UNCHANGED money /\ Cancelled
      BY <1>2 DEF BeginPlacement, EndAttempt
    <2>2. \A s \in Agents : WaitsOn(s)
      BY <2>1, NobodyWaits
    <2> QED
      BY <1>1, <2>1, <2>2, QuietMoney
  <1>3. ASSUME NEW p \in Players, NEW c \in Cards, CardPlace(p, c)
        PROVE  MoneyKept
    <2>1. phase # "lobby" /\ UNCHANGED money /\ Cancelled /\ PutDown(p, c)
      BY <1>3 DEF CardPlace
    <2>2. (\A s \in Agents : WaitsOn(s)) /\ attempt' = attempt
      BY <2>1, NobodyWaits, PuttingDown
    <2> QED
      BY <1>1, <2>1, <2>2, QuietMoney
  <1>4. ASSUME NEW yes, window # NoWindow, WindowCloses(yes)
        PROVE  MoneyKept
    <2>1. attempt' = attempt /\ asked' = asked /\ UNCHANGED money
      BY <1>4, Closing
    <2>2. \A s \in Agents : WaitsOn(s)
      BY <2>1 DEF WaitsOn, Waiting
    <2> QED
      BY <1>1, <1>4, <2>1, <2>2, QuietMoney
  <1>5. ASSUME NEW yes \in BOOLEAN, HintDecide(yes)
        PROVE  MoneyKept
    BY <1>4, <1>5 DEF HintDecide
  <1>6. ASSUME NEW t \in Agents, AgentHint(t)
        PROVE  MoneyKept
    <2>1. window # NoWindow /\ WindowCloses(Wished(t))
      BY <1>6, ThinkingAssumption DEF AgentHint, NoWindow
    <2> QED
      BY <1>4, <2>1
  <1>7. ASSUME NEW t \in Agents, DeadlineFires(t)
        PROVE  MoneyKept
    <2>1. attempt' = attempt /\ UNCHANGED money /\ Waiting(t) /\ Decides(t, Degraded(t), misses)
      BY <1>7 DEF DeadlineFires, room, Waiting
    <2>2. (\A s \in Agents : WaitsOn(s)) /\ attempt \in Attempts
      BY <2>1, Decided, NoMoreWaits, MoneyParts
    <2> QED
      BY <2>1, <2>2, QuietMoney
  <1>8. ASSUME NEW t \in Agents, PacingEnds(t)
        PROVE  MoneyKept
    <2>1. UNCHANGED money
      BY <1>8 DEF PacingEnds
    <2>2. CASE Stale(t)
      <3>1. attempt' = attempt /\ phase' = phase /\ window' = window /\ asked' = [asked EXCEPT ![t] = Idle]
        BY <1>8, <2>2 DEF PacingEnds, room
      <3>2. \A s \in Agents : WaitsOn(s)
        BY <3>1, NoMoreWaits DEF Idle
      <3> QED
        BY <2>1, <3>1, <3>2, QuietMoney
    <2>3. CASE ~Stale(t)
      <3>1. PICK c : /\ PutDown(t, c)
                     /\ \/ asked' = [r \in Agents |-> Idle]
                        \/ asked' = [asked EXCEPT ![t] = Idle]
        BY <1>8, <2>3 DEF PacingEnds
      <3>2. attempt' = attempt /\ phase # "lobby"
        BY <2>3, <3>1, PuttingDown DEF Stale
      <3>3. \A s \in Agents : WaitsOn(s)
        <4>1. CASE asked' = [r \in Agents |-> Idle]
          BY <4>1 DEF WaitsOn, Waiting, Idle
        <4>2. CASE asked' = [asked EXCEPT ![t] = Idle]
          BY <4>2, NoMoreWaits DEF Idle
        <4> QED
          BY <3>1, <4>1, <4>2
      <3> QED
        BY <1>1, <2>1, <3>2, <3>3, QuietMoney
    <2> QED
      BY <2>2, <2>3
  <1>9. ASSUME UNCHANGED vars
        PROVE  MoneyKept
    <2>1. attempt' = attempt /\ phase' = phase /\ window' = window /\ asked' = asked /\ UNCHANGED money
      BY <1>9 DEF vars, room, money
    <2>2. \A s \in Agents : WaitsOn(s)
      BY <2>1 DEF WaitsOn, Waiting
    <2> QED
      BY <2>1, <2>2, QuietMoney
  <1> QED
    BY <1>2, <1>3, <1>5, <1>6, <1>7, <1>8, <1>9

LEMMA StepMoney ==
  ASSUME Typed, Money, [Next]_vars
  PROVE  MoneyKept
  <1>1. CASE StartDiscussion
    BY <1>1, StartDiscussionMoney
  <1>2. CASE BeginPlacement \/ EndAttempt
    BY <1>2, QuietActions
  <1>3. CASE \E p \in Players, c \in Cards : CardPlace(p, c)
    BY <1>3, QuietActions
  <1>4. CASE \E yes \in BOOLEAN : HintDecide(yes)
    BY <1>4, QuietActions
  <1>5. CASE Talk
    BY <1>5, TalkMoney
  <1>6. CASE LateAnswer
    BY <1>6, LateAnswerMoney
  <1>7. CASE Midnight
    BY <1>7, MidnightMoney
  <1>8. ASSUME NEW s \in Agents, Ask(s) \/ ModelAnswers(s) \/ ModelFails(s)
        PROVE  MoneyKept
    BY <1>8, AskMoney, ModelAnswersMoney, ModelFailsMoney
  <1>9. ASSUME NEW s \in Agents, DeadlineFires(s) \/ PacingEnds(s) \/ AgentHint(s)
        PROVE  MoneyKept
    BY <1>9, QuietActions
  <1>10. CASE UNCHANGED vars
    BY <1>10, QuietActions
  <1> QED
    BY <1>1, <1>2, <1>3, <1>4, <1>5, <1>6, <1>7, <1>8, <1>9, <1>10 DEF Next

-----------------------------------------------------------------------------
(* The types and the wishes, step by step. *)

LEMMA TypeParts ==
  ASSUME Typed
  PROVE  /\ attempt \in Attempts \cup {0} /\ breaker \in Attempts \cup {0}
         /\ phase \in {"lobby", "discussion", "placing", "over"}
         /\ turn \in Seats \cup {Race, Nobody}
         /\ window \in [seat : Seats, card : Cards] \cup {NoWindow}
         /\ hand \in [Seats -> SUBSET Cards] /\ faceUp \subseteq Cards
         /\ \A s \in Agents : /\ asked[s].at \in {"idle", "model", "retry", "pacing"}
                              /\ asked[s].choice \in Choice \cup {NoChoice}
         /\ misses \in [Agents -> Nat] /\ billed \in [Attempts -> Nat] /\ clock \in 1..MaxDay
  BY DEF Typed, TypeOK

\* What a request may be: its decision is of cards, and a marker is wished
\* for by a model or a candidate only.
MayBeAsked(r) ==
  /\ r.at \in {"idle", "model", "retry", "pacing"}
  /\ r.choice \in Choice \cup {NoChoice}
  /\ r.choice.show => r.choice.source \in {"model", "candidate"}

RequestsMayBe == \A s \in Agents : MayBeAsked(asked[s])

LEMMA RequestsAre ==
  ASSUME Typed, WishesAreMeant
  PROVE  RequestsMayBe
  BY TypeParts DEF WishesAreMeant, RequestsMayBe, MayBeAsked

LEMMA OneRequest ==
  ASSUME Typed, RequestsMayBe, NEW t \in Agents, NEW v, MayBeAsked(v), asked' = [asked EXCEPT ![t] = v]
  PROVE  RequestsMayBe' /\ asked' = [s \in Agents |-> asked'[s]]
  <1>1. /\ asked' = [s \in Agents |-> asked'[s]]
        /\ asked'[t] = v /\ \A s \in Agents \ {t} : asked'[s] = asked[s]
    BY OneAsked
  <1>2. ASSUME NEW s \in Agents
        PROVE  MayBeAsked(asked'[s])
    <2>1. CASE s = t
      BY <1>1, <2>1
    <2>2. CASE s # t
      BY <1>1, <2>2 DEF RequestsMayBe
    <2> QED
      BY <2>1, <2>2
  <1> QED
    BY <1>1, <1>2 DEF RequestsMayBe, MayBeAsked

LEMMA IdleMayBe == MayBeAsked(Idle)
  BY DEF MayBeAsked, Idle, NoChoice

LEMMA WaitsMayBe ==
  ASSUME Typed, RequestsMayBe, NEW t \in Agents, NEW place \in {"model", "retry"}, NEW call,
         Waits(t, place, call)
  PROVE  RequestsMayBe' /\ asked' = [s \in Agents |-> asked'[s]]
  <1>1. PICK v : /\ v = [at |-> place, seen |-> Version, choice |-> NoChoice, call |-> call]
                 /\ asked' = [asked EXCEPT ![t] = v]
    BY DEF Waits
  <1>2. MayBeAsked(v)
    BY <1>1 DEF MayBeAsked, NoChoice
  <1> QED
    BY <1>1, <1>2, OneRequest

\* Choices that a decision may be among.
MayBeChosen(choices) ==
  \A choice \in choices :
    choice \in Choice /\ (choice.show => choice.source \in {"model", "candidate"})

LEMMA ChoicesMayBe ==
  ASSUME Typed, NEW t \in Agents
  PROVE  MayBeChosen(Degraded(t)) /\ MayBeChosen(Candidates(t))
         /\ MayBeChosen(FromModel(t) \cup Degraded(t))
  <1>1. hand[t] \subseteq Cards
    BY Types
  <1>2. MayBeChosen(Degraded(t))
    BY <1>1 DEF MayBeChosen, Degraded, ChoicesFrom, Choice, Sources
  <1>3. MayBeChosen(Candidates(t))
    BY <1>1 DEF MayBeChosen, Candidates, ChoicesFrom, Choice, Sources
  <1>4. MayBeChosen(FromModel(t))
    BY <1>1 DEF MayBeChosen, FromModel, ChoicesFrom, Choice, Sources
  <1> QED
    BY <1>2, <1>3, <1>4 DEF MayBeChosen

LEMMA DecidesMayBe ==
  ASSUME Typed, RequestsMayBe, NEW t \in Agents, NEW choices, MayBeChosen(choices),
         NEW counts \in [Agents -> Nat], Decides(t, choices, counts)
  PROVE  RequestsMayBe' /\ asked' = [s \in Agents |-> asked'[s]] /\ misses' \in [Agents -> Nat]
  <1>1. PICK choice \in choices :
          /\ asked' = [asked EXCEPT ![t] = [at |-> "pacing", seen |-> Version, choice |-> choice, call |-> NoCall]]
          /\ misses' = [counts EXCEPT ![t] = Recorded(@, choice)]
    BY DEF Decides
  <1>2. MayBeAsked([at |-> "pacing", seen |-> Version, choice |-> choice, call |-> NoCall])
    BY DEF MayBeAsked, MayBeChosen
  <1>3. RequestsMayBe' /\ asked' = [s \in Agents |-> asked'[s]]
    BY <1>1, <1>2, OneRequest
  <1>4. Recorded(counts[t], choice) \in Nat
    <2>1. choice.source \in Sources /\ counts[t] \in Nat
      BY DEF MayBeChosen, Choice
    <2> QED
      BY <2>1 DEF Recorded, Sources
  <1> QED
    BY <1>1, <1>3, <1>4

\* The parts of the invariant that are about the room and about the agents.
RoomTyped ==
  /\ attempt \in Attempts \cup {0} /\ phase \in {"lobby", "discussion", "placing", "over"}
  /\ turn \in Seats \cup {Race, Nobody}
  /\ window \in [seat : Seats, card : Cards] \cup {NoWindow}
  /\ hand \in [Seats -> SUBSET Cards] /\ faceUp \subseteq Cards

AgentsTyped ==
  /\ asked = [s \in Agents |-> asked[s]] /\ RequestsMayBe
  /\ reveal = [s \in Agents |-> reveal[s]] /\ last = [s \in Agents |-> last[s]]
  /\ misses \in [Agents -> Nat] /\ breaker \in Attempts \cup {0}

\* The card of the window is the one that was decided on.
WishFits(s) ==
  window.seat = s /\ Wished(s) =>
    /\ last[s].attempt = attempt /\ last[s].card = window.card
    /\ last[s].source \in {"model", "candidate"}

WishesFit == \A s \in Agents : WishFits(s)

Sound == RoomTyped /\ AgentsTyped /\ WishesFit

LEMMA SoundParts ==
  ASSUME Typed, WishesAreMeant
  PROVE  Sound /\ (window.seat \in Agents => window # NoWindow)
  <1>1. RoomTyped /\ AgentsTyped
    BY TypeParts, RequestsAre, Types DEF RoomTyped, AgentsTyped
  <1>2. WishesFit
    BY DEF WishesAreMeant, WishesFit, WishFits
  <1>3. window.seat \in Agents => window # NoWindow
    BY ThinkingAssumption DEF NoWindow
  <1> QED
    BY <1>1, <1>2, <1>3 DEF Sound

LEMMA SoundIsEnough ==
  ASSUME Sound, billed \in [Attempts -> Nat], clock \in 1..MaxDay
  PROVE  Typed /\ WishesAreMeant
  <1>1. Typed
    BY DEF Sound, RoomTyped, AgentsTyped, RequestsMayBe, MayBeAsked, Typed, TypeOK
  <1>2. WishesAreMeant
    BY DEF Sound, AgentsTyped, RequestsMayBe, MayBeAsked, WishesFit, WishFits, WishesAreMeant
  <1> QED
    BY <1>1, <1>2

\* The room stays as it is.
LEMMA RoomSame ==
  ASSUME Sound, UNCHANGED <<room, reveal, last>>,
         RequestsMayBe', asked' = [s \in Agents |-> asked'[s]],
         misses' \in [Agents -> Nat], breaker' \in Attempts \cup {0}
  PROVE  Sound'
  <1>1. RoomTyped'
    BY DEF Sound, RoomTyped, room
  <1>2. AgentsTyped'
    BY DEF Sound, AgentsTyped
  <1>3. WishesFit'
    BY DEF Sound, WishesFit, WishFits, Wished, room
  <1> QED
    BY <1>1, <1>2, <1>3 DEF Sound

\* Everything that was asked and wished is dropped.
LEMMA AllDropped ==
  ASSUME Sound, Cancelled, RoomTyped', last' = [s \in Agents |-> last'[s]],
         misses' = misses, breaker' = breaker
  PROVE  Sound'
  <1>1. \A s \in Agents : asked'[s] = Idle /\ reveal'[s] = NoReveal
    BY NobodyWaits
  <1>2. RequestsMayBe'
    BY <1>1, IdleMayBe DEF RequestsMayBe, MayBeAsked
  <1>3. AgentsTyped'
    BY <1>2, NobodyWaits DEF Sound, AgentsTyped
  <1>4. WishesFit'
    BY <1>1 DEF WishesFit, WishFits, Wished, NoReveal
  <1> QED
    BY <1>3, <1>4 DEF Sound

\* No window is open.
LEMMA NothingWished ==
  ASSUME window' = NoWindow
  PROVE  WishesFit'
  BY ThinkingAssumption DEF WishesFit, WishFits, NoWindow

LEMMA SyncedTyped ==
  ASSUME Typed
  PROVE  SyncedMisses \in [Agents -> Nat] /\ misses \in [Agents -> Nat]
  BY Types DEF SyncedMisses

LEMMA PutDownTyped ==
  ASSUME RoomTyped, NEW s \in Seats, NEW c \in Cards, PutDown(s, c)
  PROVE  RoomTyped'
  <1>1. /\ attempt' = attempt /\ faceUp' = faceUp /\ hand' = [hand EXCEPT ![s] = @ \ {c}]
        /\ phase' \in {phase, "over"} /\ turn' \in Seats \cup {Nobody}
        /\ window' \in {NoWindow, [seat |-> s, card |-> c]}
    BY PuttingDown
  <1>2. hand' \in [Seats -> SUBSET Cards]
    <2>1. hand \in [Seats -> SUBSET Cards] /\ hand[s] \ {c} \in SUBSET Cards
      BY DEF RoomTyped
    <2> QED
      BY <1>1, <2>1
  <1> QED
    BY <1>1, <1>2 DEF RoomTyped

LEMMA RoomActions ==
  ASSUME Typed, Money, WishesAreMeant
  PROVE  /\ StartDiscussion \/ BeginPlacement \/ EndAttempt => Sound'
         /\ \A p \in Players, c \in Cards : CardPlace(p, c) => Sound'
         /\ Talk \/ LateAnswer \/ Midnight \/ UNCHANGED vars => Sound'
  <1>1. Sound /\ RoomTyped /\ AgentsTyped
    BY SoundParts DEF Sound
  <1>2. last = [s \in Agents |-> last[s]]
    BY Types
  <1>3. ASSUME StartDiscussion
        PROVE  Sound'
    <2>1. /\ attempt' \in Attempts /\ phase' = "discussion" /\ turn' = turn /\ window' = window
          /\ hand' = [s \in Seats |-> {}] /\ faceUp' = {} /\ Cancelled
          /\ last' = [s \in Agents |-> NoLast] /\ misses' = misses /\ breaker' = breaker
      BY <1>3 DEF StartDiscussion
    <2>2. RoomTyped'
      BY <1>1, <2>1 DEF RoomTyped
    <2>3. last' = [s \in Agents |-> last'[s]]
      BY <2>1
    <2> QED
      BY <1>1, <2>1, <2>2, <2>3, AllDropped
  <1>4. ASSUME BeginPlacement
        PROVE  Sound'
    <2>1. /\ attempt' = attempt /\ phase' = "placing" /\ turn' = Race /\ window' = window
          /\ hand' \in Deals /\ faceUp' = faceUp /\ Cancelled
          /\ last' = last /\ misses' = misses /\ breaker' = breaker
      BY <1>4 DEF BeginPlacement
    <2>2. hand' \in [Seats -> SUBSET Cards]
      <3>1. PICK deal \in Deals : hand' = deal
        BY <2>1
      <3>2. deal = [s \in Seats |-> deal[s]]
        BY ThinkingAssumption DEF Seats
      <3>3. \A s \in Seats : deal[s] \subseteq Cards
        BY DEF Cards
      <3> QED
        BY <3>1, <3>2, <3>3
    <2>3. RoomTyped'
      BY <1>1, <2>1, <2>2 DEF RoomTyped
    <2> QED
      BY <1>1, <1>2, <2>1, <2>3, AllDropped
  <1>5. ASSUME EndAttempt
        PROVE  Sound'
    <2>1. /\ attempt' = attempt /\ phase' = "over" /\ turn' = Nobody /\ window' = NoWindow
          /\ hand' = hand /\ faceUp' = faceUp /\ Cancelled
          /\ last' = last /\ misses' = misses /\ breaker' = breaker
      BY <1>5 DEF EndAttempt
    <2>2. RoomTyped'
      BY <1>1, <2>1 DEF RoomTyped
    <2> QED
      BY <1>1, <1>2, <2>1, <2>2, AllDropped
  <1>6. ASSUME NEW p \in Players, NEW c \in Cards, CardPlace(p, c)
        PROVE  Sound'
    <2>1. /\ PutDown(p, c) /\ Cancelled /\ p \in Seats
          /\ last' = last /\ misses' = misses /\ breaker' = breaker
      BY <1>6 DEF CardPlace, Seats
    <2>2. RoomTyped'
      BY <1>1, <2>1, PutDownTyped
    <2> QED
      BY <1>1, <1>2, <2>1, <2>2, AllDropped
  <1>7. ASSUME Talk \/ LateAnswer \/ Midnight \/ UNCHANGED vars
        PROVE  Sound'
    <2>1. /\ UNCHANGED <<room, reveal, last>> /\ asked' = asked
          /\ misses' = misses /\ breaker' = breaker
      BY <1>7 DEF Talk, LateAnswer, Midnight, vars
    <2>2. RequestsMayBe'
      BY <1>1, <2>1 DEF AgentsTyped, RequestsMayBe, MayBeAsked
    <2> QED
      BY <1>1, <2>1, <2>2, RoomSame DEF AgentsTyped
  <1> QED
    BY <1>3, <1>4, <1>5, <1>6, <1>7

LEMMA ThinkingActions ==
  ASSUME Typed, Money, WishesAreMeant, NEW t \in Agents,
         Ask(t) \/ ModelAnswers(t) \/ ModelFails(t) \/ DeadlineFires(t)
  PROVE  Sound'
  <1>1. Sound /\ RequestsMayBe /\ breaker \in Attempts \cup {0}
    BY SoundParts DEF Sound, AgentsTyped
  <1>2. SyncedMisses \in [Agents -> Nat] /\ misses \in [Agents -> Nat] /\ attempt \in Attempts \cup {0}
    BY SyncedTyped, Types
  <1>3. UNCHANGED <<room, reveal, last>> /\ (breaker' = attempt \/ breaker' = breaker)
    BY DEF Ask, ModelAnswers, ModelFails, DeadlineFires
  <1>4. breaker' \in Attempts \cup {0}
    BY <1>1, <1>2, <1>3
  <1>5. ASSUME NEW choices, MayBeChosen(choices), NEW counts \in [Agents -> Nat], Decides(t, choices, counts)
        PROVE  Sound'
    <2>1. RequestsMayBe' /\ asked' = [s \in Agents |-> asked'[s]] /\ misses' \in [Agents -> Nat]
      BY <1>1, <1>5, DecidesMayBe
    <2> QED
      BY <1>1, <1>3, <1>4, <2>1, RoomSame
  <1>6. ASSUME NEW place \in {"model", "retry"}, NEW call, Waits(t, place, call),
               misses' \in {misses, SyncedMisses}
        PROVE  Sound'
    <2>1. RequestsMayBe' /\ asked' = [s \in Agents |-> asked'[s]] /\ misses' \in [Agents -> Nat]
      BY <1>1, <1>2, <1>6, WaitsMayBe
    <2> QED
      BY <1>1, <1>3, <1>4, <2>1, RoomSame
  <1>7. \/ Decides(t, Degraded(t), SyncedMisses) \/ Decides(t, Candidates(t), SyncedMisses)
        \/ Decides(t, FromModel(t) \cup Degraded(t), misses) \/ Decides(t, Degraded(t), misses)
        \/ \E place \in {"model", "retry"}, call \in {CallOf(Rotated(budget, clock), "turn"),
               CallOf(SettledWith(asked[t].call, Failure(asked[t].call.task)), "turn")} :
             Waits(t, place, call) /\ misses' \in {misses, SyncedMisses}
    <2>1. CASE Ask(t)
      BY <2>1 DEF Ask
    <2>2. CASE ModelAnswers(t)
      BY <2>2 DEF ModelAnswers
    <2>3. CASE ModelFails(t)
      BY <2>3 DEF ModelFails
    <2>4. CASE DeadlineFires(t)
      BY <2>4 DEF DeadlineFires
    <2> QED
      BY <2>1, <2>2, <2>3, <2>4
  <1> QED
    BY <1>2, <1>5, <1>6, <1>7, ChoicesMayBe

LEMMA ClosingSound ==
  ASSUME Typed, Sound, window # NoWindow, NEW yes, WindowCloses(yes),
         reveal' = [s \in Agents |-> reveal'[s]]
  PROVE  Sound'
  <1>1. RoomTyped'
    <2>1. window.card \in Cards
      BY TypeParts
    <2> QED
      BY <2>1, Closing DEF Sound, RoomTyped
  <1>2. AgentsTyped'
    <2>1. asked' = asked /\ last' = last /\ misses' = misses /\ breaker' = breaker
      BY Closing
    <2> QED
      BY <2>1 DEF Sound, AgentsTyped, RequestsMayBe, MayBeAsked
  <1>3. WishesFit'
    BY Closing, NothingWished
  <1> QED
    BY <1>1, <1>2, <1>3 DEF Sound

LEMMA WindowActions ==
  ASSUME Typed, Money, WishesAreMeant
  PROVE  /\ \A yes \in BOOLEAN : HintDecide(yes) => Sound'
         /\ \A t \in Agents : AgentHint(t) => Sound'
  <1>1. Sound /\ (window.seat \in Agents => window # NoWindow) /\ reveal = [s \in Agents |-> reveal[s]]
    BY SoundParts, Types
  <1>2. ASSUME NEW yes \in BOOLEAN, HintDecide(yes)
        PROVE  Sound'
    BY <1>1, <1>2, ClosingSound DEF HintDecide
  <1>3. ASSUME NEW t \in Agents, AgentHint(t)
        PROVE  Sound'
    <2>1. window # NoWindow /\ WindowCloses(Wished(t)) /\ reveal' = [reveal EXCEPT ![t] = NoReveal]
      BY <1>1, <1>3 DEF AgentHint
    <2>2. reveal' = [s \in Agents |-> reveal'[s]]
      BY <1>1, <2>1
    <2> QED
      BY <1>1, <2>1, <2>2, ClosingSound
  <1> QED
    BY <1>2, <1>3

\* What a wish is kept for is what was decided on: if another card was put
\* down, or another seat puts one down, it is no wish for the new window.
LEMMA PacingSound ==
  ASSUME Typed, Money, WishesAreMeant, NEW t \in Agents, PacingEnds(t)
  PROVE  Sound'
  <1>1. Sound /\ RoomTyped /\ AgentsTyped /\ RequestsMayBe /\ t \in Seats
    BY SoundParts DEF Sound, AgentsTyped, Seats
  <1>2. misses' = misses /\ breaker' = breaker
    BY DEF PacingEnds
  <1>3. CASE Stale(t)
    <2>1. UNCHANGED <<room, reveal, last>> /\ asked' = [asked EXCEPT ![t] = Idle]
      BY <1>3 DEF PacingEnds
    <2>2. RequestsMayBe' /\ asked' = [s \in Agents |-> asked'[s]]
      BY <1>1, <2>1, IdleMayBe, OneRequest
    <2> QED
      BY <1>1, <1>2, <2>1, <2>2, RoomSame DEF AgentsTyped
  <1>4. CASE ~Stale(t)
    <2>1. PICK choice : choice = asked[t].choice
      OBVIOUS
    <2>2. PICK kept : /\ kept = [attempt |-> attempt, card |-> choice.card, show |-> choice.show]
                      /\ kept.attempt = attempt /\ kept.card = choice.card /\ kept.show = choice.show
      <3>1. PICK k : k = [attempt |-> attempt, card |-> choice.card, show |-> choice.show]
        OBVIOUS
      <3>2. k.attempt = attempt /\ k.card = choice.card /\ k.show = choice.show
        BY <3>1
      <3> QED
        BY <3>1, <3>2
    <2>3. PICK c \in hand[t] :
            /\ PutDown(t, c) /\ last' = PlacementRecorded(t, c)
            /\ \/ /\ asked' = [r \in Agents |-> Idle]
                  /\ reveal' = [r \in Agents |-> IF r = t THEN kept ELSE NoReveal]
               \/ /\ asked' = [asked EXCEPT ![t] = Idle]
                  /\ reveal' = [reveal EXCEPT ![t] = kept]
      BY <1>4, <2>1, <2>2 DEF PacingEnds
    <2>4. c \in Cards
      BY <1>1, <2>3 DEF RoomTyped
    <2>5. RoomTyped'
      BY <1>1, <2>3, <2>4, PutDownTyped
    <2>6. reveal' = [s \in Agents |-> reveal'[s]] /\ reveal'[t] = kept
      BY <1>1, <2>3 DEF AgentsTyped
    <2>7. RequestsMayBe' /\ asked' = [s \in Agents |-> asked'[s]]
      <3>1. CASE asked' = [r \in Agents |-> Idle]
        BY <3>1, IdleMayBe DEF RequestsMayBe, MayBeAsked
      <3>2. CASE asked' = [asked EXCEPT ![t] = Idle]
        BY <1>1, <3>2, IdleMayBe, OneRequest
      <3> QED
        BY <2>3, <3>1, <3>2
    <2>8. PICK made : /\ made = [attempt |-> attempt, card |-> c, source |-> choice.source]
                      /\ made.attempt = attempt /\ made.card = c /\ made.source = choice.source
      <3>1. PICK k : k = [attempt |-> attempt, card |-> c, source |-> choice.source]
        OBVIOUS
      <3>2. k.attempt = attempt /\ k.card = c /\ k.source = choice.source
        BY <3>1
      <3> QED
        BY <3>1, <3>2
    <2>9. /\ last' = [s \in Agents |-> last'[s]]
          /\ c = choice.card => last'[t] = made
      <3>1. last = [s \in Agents |-> last[s]]
        BY <1>1 DEF AgentsTyped
      <3>2. CASE c = choice.card
        <4>1. last' = [last EXCEPT ![t] = made]
          BY <2>1, <2>3, <2>8, <3>2 DEF PlacementRecorded
        <4>2. last' = [s \in Agents |-> IF s = t THEN made ELSE last[s]]
          BY <3>1, <4>1
        <4> QED
          BY <4>2
      <3>3. CASE c # choice.card
        <4>1. last' = last
          BY <2>1, <2>3, <3>3 DEF PlacementRecorded
        <4> QED
          BY <3>1, <3>3, <4>1
      <3> QED
        BY <3>2, <3>3
    <2>10. choice.show => choice.source \in {"model", "candidate"}
      BY <1>1, <2>1 DEF RequestsMayBe, MayBeAsked
    <2>11. attempt' = attempt /\ window' \in {NoWindow, [seat |-> t, card |-> c]}
      BY <2>3, PuttingDown
    <2>12. WishesFit'
      <3>1. CASE window' = NoWindow
        BY <3>1, NothingWished
      <3>2. CASE window' = [seat |-> t, card |-> c]
        <4>1. window'.seat = t /\ window'.card = c
          BY <3>2
        <4>2. ASSUME NEW s \in Agents, window'.seat = s, Wished(s)'
              PROVE  /\ last'[s].attempt = attempt' /\ last'[s].card = window'.card
                     /\ last'[s].source \in {"model", "candidate"}
          <5>1. s = t /\ choice.card = c /\ choice.show
            BY <2>2, <2>6, <4>1, <4>2 DEF Wished
          <5>2. last'[s] = made
            BY <2>9, <5>1
          <5> QED
            BY <2>8, <2>10, <2>11, <4>1, <5>1, <5>2
        <4> QED
          BY <4>2 DEF WishesFit, WishFits
      <3> QED
        BY <2>11, <3>1, <3>2
    <2>13. AgentsTyped'
      BY <1>1, <1>2, <2>6, <2>7, <2>9 DEF AgentsTyped
    <2> QED
      BY <2>5, <2>12, <2>13 DEF Sound
  <1> QED
    BY <1>3, <1>4

LEMMA StepSound ==
  ASSUME Typed, Money, WishesAreMeant, [Next]_vars
  PROVE  Sound'
  <1>1. CASE StartDiscussion \/ BeginPlacement \/ EndAttempt
    BY <1>1, RoomActions
  <1>2. CASE \E p \in Players, c \in Cards : CardPlace(p, c)
    BY <1>2, RoomActions
  <1>3. CASE \E yes \in BOOLEAN : HintDecide(yes)
    BY <1>3, WindowActions
  <1>4. CASE Talk \/ LateAnswer \/ Midnight \/ UNCHANGED vars
    BY <1>4, RoomActions
  <1>5. ASSUME NEW s \in Agents, Ask(s) \/ ModelAnswers(s) \/ ModelFails(s) \/ DeadlineFires(s)
        PROVE  Sound'
    BY <1>5, ThinkingActions
  <1>6. ASSUME NEW s \in Agents, PacingEnds(s) \/ AgentHint(s)
        PROVE  Sound'
    BY <1>6, PacingSound, WindowActions
  <1> QED
    BY <1>1, <1>2, <1>3, <1>4, <1>5, <1>6 DEF Next

-----------------------------------------------------------------------------
(* The invariant holds. *)

LEMMA InitHolds ==
  ASSUME Init
  PROVE  ThinkingInv /\ DayInv
  <1>1. PICK z \in Usage : z = Unused
    BY DEF Usage, Unused
  <1>2. z.calls = 0 /\ z.tokens = 0 /\ z.reserved = 0 /\ z.turnCalls = 0 /\ z.turnTokens = 0
    BY <1>1 DEF Unused
  <1>3. PICK d \in Day : d = NewDay(1)
    BY DEF Day, NewDay
  <1>4. d.key = 1 /\ d.tokens = 0 /\ d.reserved = 0
    BY <1>3 DEF NewDay
  <1>5. PICK f \in [Attempts -> Usage] : f = [a \in Attempts |-> Unused]
    BY <1>1
  <1>6. \A a \in Attempts : f[a] = z
    BY <1>1, <1>5
  <1>7. budget = [usage |-> f, today |-> d] /\ calls = {} /\ billed = [a \in Attempts |-> 0] /\ clock = 1
    BY <1>3, <1>5 DEF Init, NewBudget
  <1>8. budget \in Ledger /\ budget.usage = f /\ budget.today = d
    BY <1>7 DEF Ledger
  <1>9. \A a \in Attempts : InFlight(Of(calls, a)) = 0 /\ billed[a] = 0
    <2>1. \A a \in Attempts : Of(calls, a) = {}
      BY <1>7 DEF Of
    <2> QED
      BY <1>7, <2>1, NothingInFlight
  <1>10. Balanced(budget, calls, billed)
    <2>1. IsFiniteSet(calls) /\ calls \subseteq Call /\ billed \in [Attempts -> Nat]
      BY <1>7, FS_EmptySet
    <2>2. \A a \in Attempts :
            /\ f[a].reserved = InFlight(Of(calls, a)) /\ f[a].tokens = billed[a]
            /\ f[a].calls + f[a].turnCalls <= AttemptMaxCalls
            /\ f[a].tokens + f[a].reserved + f[a].turnTokens <= AttemptMaxTokens
      BY <1>2, <1>6, <1>9, LimitsAreNat
    <2> QED
      BY <1>7, <1>8, <2>1, <2>2 DEF Balanced
  <1>11. DayInv
    <2>1. InFlight(calls) = 0 /\ 0 + 0 <= DailyMaxTokens
      BY <1>7, NothingInFlight, LimitsAreNat
    <2> QED
      BY <1>4, <1>7, <1>8, <2>1 DEF DayInv, DayBalanced
  <1>12. CallsBegan /\ (\A s \in Agents : asked[s] = Idle /\ reveal[s] = NoReveal)
    BY <1>7 DEF Init, CallsBegan
  <1>13. EachAwaitsItsOwn
    BY <1>12 DEF EachAwaitsItsOwn, Waiting, Idle
  <1>14. RoomTyped /\ AgentsTyped
    BY <1>12, IdleMayBe DEF Init, RoomTyped, AgentsTyped, RequestsMayBe
  <1>15. WishesFit
    BY <1>12 DEF WishesFit, WishFits, Wished, NoReveal
  <1>16. billed \in [Attempts -> Nat] /\ clock \in 1..MaxDay
    BY <1>7, ThinkingAssumption
  <1>17. Typed /\ WishesAreMeant
    BY <1>14, <1>15, <1>16, SoundIsEnough DEF Sound
  <1> QED
    BY <1>10, <1>11, <1>12, <1>13, <1>17 DEF ThinkingInv, Money

LEMMA StepKeeps ==
  ASSUME ThinkingInv, [Next]_vars
  PROVE  ThinkingInv' /\ (DayInv /\ (clock' # clock => calls = {}) => DayInv')
  <1>1. Typed /\ Money /\ WishesAreMeant
    BY DEF ThinkingInv
  <1>2. MoneyKept
    BY <1>1, StepMoney
  <1>3. Sound'
    BY <1>1, StepSound
  <1>4. billed' \in [Attempts -> Nat]
    BY <1>2 DEF MoneyKept, Money, Balanced
  <1>5. clock' \in 1..MaxDay
    <2>1. clock' = clock \/ (clock' = clock + 1 /\ clock < MaxDay)
      BY DEF Next, StartDiscussion, BeginPlacement, EndAttempt, CardPlace, HintDecide, WindowCloses,
             Talk, LateAnswer, Midnight, Ask, ModelAnswers, ModelFails, DeadlineFires, PacingEnds,
             AgentHint, money, vars
    <2>2. clock \in 1..MaxDay /\ MaxDay \in Nat
      BY <1>1, TypeParts, ThinkingAssumption
    <2> QED
      BY <2>1, <2>2
  <1>6. Typed' /\ WishesAreMeant'
    <2>1. (Sound /\ billed \in [Attempts -> Nat] /\ clock \in 1..MaxDay => Typed /\ WishesAreMeant)'
      BY SoundIsEnough, PTL
    <2> QED
      BY <1>3, <1>4, <1>5, <2>1
  <1> QED
    BY <1>2, <1>6 DEF ThinkingInv, MoneyKept

LEMMA InvAlways == Spec => []ThinkingInv
  <1>1. Init => ThinkingInv
    BY InitHolds
  <1>2. ThinkingInv /\ [Next]_vars => ThinkingInv'
    BY StepKeeps
  <1> QED
    BY <1>1, <1>2, PTL DEF Spec

-----------------------------------------------------------------------------
(* What it shows. *)

LEMMA AccountOf ==
  ASSUME ThinkingInv, NEW a \in Attempts
  PROVE  LET u == budget.usage[a]
         IN  /\ u.calls + u.turnCalls <= AttemptMaxCalls
             /\ u.tokens + u.reserved + u.turnTokens <= AttemptMaxTokens
             /\ u.tokens = billed[a] /\ u.reserved = InFlight({c \in calls : c.attempt = a})
             /\ u.tokens \in Nat /\ u.reserved \in Nat /\ u.turnTokens \in Nat
  <1>1. Balanced(budget, calls, billed) /\ budget \in Ledger
    BY MoneyParts DEF ThinkingInv
  <1> QED
    BY <1>1, LedgerFields DEF Balanced, Of

\* What providers billed for an attempt, and what its calls in flight may
\* still cost, stays within attemptMaxTokens, however the calls of that
\* attempt and of others are cancelled, fail, are repeated or answered late:
\* reserveCall and settleCall of BudgetManager.
THEOREM AttemptsAreBounded == Spec => []AttemptLimitIsHard
  <1>1. ASSUME ThinkingInv
        PROVE  AttemptLimitIsHard
    <2>1. TypeOK
      BY <1>1 DEF ThinkingInv, Typed
    <2>2. ASSUME NEW a \in Attempts
          PROVE  billed[a] + InFlight({c \in calls : c.attempt = a}) <= AttemptMaxTokens
      <3>1. PICK m \in Nat : m = billed[a]
        BY <1>1, AccountOf
      <3>2. PICK n \in Nat : n = InFlight({c \in calls : c.attempt = a})
        BY <1>1, AccountOf
      <3>3. PICK k \in Nat : m + n + k <= AttemptMaxTokens
        BY <1>1, <3>1, <3>2, AccountOf
      <3>4. m + n <= AttemptMaxTokens
        BY <3>3, LimitsAreNat
      <3> QED
        BY <3>1, <3>2, <3>4
    <2> QED
      BY <2>1, <2>2 DEF AttemptLimitIsHard
  <1>2. ThinkingInv => AttemptLimitIsHard
    BY <1>1
  <1> QED
    BY <1>2, InvAlways, PTL

\* Discussion, strategy and retry_brief leave the turns of an attempt the calls
\* and the tokens that beginAttempt set aside for them, until turns use them.
THEOREM TurnsAreSpared == Spec => []TurnsKeepTheirShare
  <1>1. ThinkingInv => TurnsKeepTheirShare
    BY AccountOf DEF TurnsKeepTheirShare
  <1> QED
    BY <1>1, InvAlways, PTL

\* Concurrent calls never pass the daily limit together, as long as none is in
\* flight when a day ends; DailyLimitIsHard has a counterexample without that
\* condition, as settleCall then takes the call off the new day's account.
THEOREM DaysAreBounded == Spec /\ QuietMidnights => []DailyLimitIsHard
  <1>1. Init => ThinkingInv /\ DayInv
    BY InitHolds
  <1>2. ThinkingInv /\ DayInv /\ [Next]_vars /\ [clock' # clock => calls = {}]_vars
          => (ThinkingInv /\ DayInv)'
    <2> SUFFICES ASSUME ThinkingInv, DayInv, [Next]_vars, [clock' # clock => calls = {}]_vars
                 PROVE  (ThinkingInv /\ DayInv)'
      OBVIOUS
    <2>1. clock' # clock => calls = {}
      BY DEF vars, money
    <2> QED
      BY <2>1, StepKeeps
  <1>3. ASSUME ThinkingInv, DayInv
        PROVE  DailyLimitIsHard
    <2>1. budget \in Ledger
      BY <1>3, MoneyParts DEF ThinkingInv
    <2>2. {c \in calls : c.day = clock} = calls
      BY <1>3 DEF DayInv, DayBalanced
    <2>3. budget.today.reserved = InFlight(calls) /\ budget.today.tokens + budget.today.reserved <= DailyMaxTokens
      BY <1>3 DEF DayInv, DayBalanced
    <2>4. budget.today.tokens \in Nat /\ budget.today.reserved \in Nat
      BY <2>1, LedgerFields
    <2>5. InFlight(calls) <= DailyMaxTokens
      BY <2>3, <2>4, LimitsAreNat
    <2> QED
      BY <2>2, <2>5 DEF DailyLimitIsHard
  <1>4. ThinkingInv /\ DayInv => DailyLimitIsHard
    BY <1>3
  <1> QED
    BY <1>1, <1>2, <1>4, PTL DEF Spec, QuietMidnights

LEMMA MarkersStep ==
  ASSUME ThinkingInv, Next, window.seat \in Agents, ~(faceUp' \subseteq faceUp)
  PROVE  WishFits(window.seat) /\ Wished(window.seat)
  <1>1. PICK s \in Agents : s = window.seat
    OBVIOUS
  <1>2. Sound
    BY SoundParts DEF ThinkingInv
  <1>3. WishFits(s)
    BY <1>2 DEF Sound, WishesFit
  <1>4. ASSUME NEW yes \in BOOLEAN, HintDecide(yes)
        PROVE  FALSE
    <2>1. ~yes /\ WindowCloses(yes)
      BY <1>4, ThinkingAssumption DEF HintDecide
    <2>2. faceUp' = faceUp
      BY <2>1, Closing
    <2> QED
      BY <2>2
  <1>5. ASSUME NEW t \in Agents, AgentHint(t)
        PROVE  Wished(s)
    <2>1. t = s /\ WindowCloses(Wished(t))
      BY <1>1, <1>5 DEF AgentHint
    <2>2. ~Wished(t) => faceUp' = faceUp
      BY <2>1, Closing
    <2> QED
      BY <2>1, <2>2
  <1>6. ASSUME NEW t \in Seats, NEW c, PutDown(t, c)
        PROVE  FALSE
    BY <1>6, PuttingDown
  <1>7. ASSUME NEW t \in Agents, PacingEnds(t)
        PROVE  FALSE
    <2>1. faceUp' = faceUp \/ \E c \in hand[t] : PutDown(t, c)
      BY <1>7 DEF PacingEnds, room
    <2> QED
      BY <1>6, <2>1 DEF Seats
  <1>8. ASSUME NEW p \in Players, NEW c \in Cards, CardPlace(p, c)
        PROVE  FALSE
    BY <1>6, <1>8 DEF CardPlace, Seats
  <1>9. ASSUME NEW t \in Agents, Ask(t) \/ ModelAnswers(t) \/ ModelFails(t) \/ DeadlineFires(t)
        PROVE  FALSE
    BY <1>9 DEF Ask, ModelAnswers, ModelFails, DeadlineFires, room
  <1>10. ASSUME StartDiscussion \/ BeginPlacement \/ EndAttempt \/ Talk \/ LateAnswer \/ Midnight
         PROVE  FALSE
    BY <1>10 DEF StartDiscussion, BeginPlacement, EndAttempt, Talk, LateAnswer, Midnight, room
  <1> QED
    BY <1>1, <1>3, <1>4, <1>5, <1>7, <1>8, <1>9, <1>10 DEF Next

\* An agent spends a marker only for the card it last put down as decided, in
\* this attempt, on the wish of a model or a candidate: the wishes that
\* pendingReveal keeps past other windows and replaced cards come to nothing.
THEOREM MarkersAreMeant == Spec => HintIsWanted
  <1>1. ThinkingInv /\ [Next]_vars =>
          [window.seat \in Agents /\ ~(faceUp' \subseteq faceUp) =>
             LET made == last[window.seat]
             IN  /\ made.attempt = attempt /\ made.card = window.card
                 /\ made.source \in {"model", "candidate"}]_vars
    BY MarkersStep DEF WishFits
  <1> QED
    BY <1>1, InvAlways, PTL DEF Spec, HintIsWanted

=============================================================================
