------------------------------- MODULE Budget -------------------------------
(***************************************************************************)
(* The budget of model calls (server/src/agent/budget.ts): what an attempt *)
(* and a day may spend, in calls and in tokens.  A call reserves before it *)
(* is sent and settles when its provider answers, whatever has begun or    *)
(* ended in between; part of an attempt is kept for the turns.             *)
(*                                                                         *)
(* The operators act on a budget b, so that a handler that settles one     *)
(* call and reserves the next composes them.                               *)
(***************************************************************************)
EXTENDS Integers, FiniteSets

CONSTANTS
  Attempts,          \* identifiers of attempts: 1 .. n, in order
  AttemptMaxCalls, AttemptMaxTokens,
  DailyMaxCalls, DailyMaxTokens,
  TurnCalls,         \* reservedTurnCalls of beginAttempt
  TurnTokens,        \* reservedTurnTokens
  Cost               \* [task -> tokens]: the upper bound a call reserves

Tasks == {"turn", "talk"}   \* talk: discussion, strategy, retry_brief

ASSUME BudgetAssumption ==
  /\ Attempts \subseteq Nat \ {0}
  /\ {AttemptMaxCalls, AttemptMaxTokens, DailyMaxCalls, DailyMaxTokens,
      TurnCalls, TurnTokens} \subseteq Nat
  /\ TurnCalls <= AttemptMaxCalls
  /\ TurnTokens <= AttemptMaxTokens
  /\ Cost \in [Tasks -> Nat]

Unused == [calls |-> 0, tokens |-> 0, reserved |-> 0, turnCalls |-> 0, turnTokens |-> 0]

NewDay(day) == [key |-> day, calls |-> 0, tokens |-> 0, reserved |-> 0]

NewBudget == [usage |-> [a \in Attempts |-> Unused], today |-> NewDay(1)]

\* beginAttempt: the turns' share is set aside.
Begun(b, a) ==
  [b EXCEPT !.usage[a] = [Unused EXCEPT !.turnCalls = TurnCalls, !.turnTokens = TurnTokens]]

\* rotateDayIfNeeded: counters of another UTC day are dropped.
Rotated(b, clock) ==
  IF b.today.key = clock THEN b ELSE [b EXCEPT !.today = NewDay(clock)]

\* Fault: the share of the turns is not kept from the other tasks.
AffordableToAll(b, a, task) ==
  LET u == b.usage[a]
  IN  /\ u.calls < AttemptMaxCalls
      /\ u.tokens + u.reserved + Cost[task] <= AttemptMaxTokens
      /\ b.today.calls < DailyMaxCalls
      /\ b.today.tokens + b.today.reserved + Cost[task] <= DailyMaxTokens

\* Fault: for the day, calls in flight count only when they are settled.
AffordableBySpent(b, a, task) ==
  LET u == b.usage[a]
      kept == IF task = "turn" THEN 0 ELSE u.turnTokens
  IN  /\ u.calls < AttemptMaxCalls
      /\ task # "turn" => u.calls + 1 + u.turnCalls <= AttemptMaxCalls
      /\ u.tokens + u.reserved + Cost[task] + kept <= AttemptMaxTokens
      /\ b.today.calls < DailyMaxCalls
      /\ b.today.tokens + Cost[task] <= DailyMaxTokens

\* The checks of reserveCall, after rotateDayIfNeeded.
Affordable(b, a, task) ==
  LET u == b.usage[a]
      kept == IF task = "turn" THEN 0 ELSE u.turnTokens
  IN  /\ u.calls < AttemptMaxCalls
      /\ task # "turn" => u.calls + 1 + u.turnCalls <= AttemptMaxCalls
      /\ u.tokens + u.reserved + Cost[task] + kept <= AttemptMaxTokens
      /\ b.today.calls < DailyMaxCalls
      /\ b.today.tokens + b.today.reserved + Cost[task] <= DailyMaxTokens

Less(m, n) == IF m > n THEN m - n ELSE 0   \* Math.max(0, m - n)

\* The rest of reserveCall.  A turn uses up what was kept for the turns.
Reserved(b, a, task) ==
  LET turn == task = "turn"
      account == [b.usage[a] EXCEPT
        !.calls = @ + 1,
        !.turnCalls = IF turn THEN Less(@, 1) ELSE @,
        !.turnTokens = IF turn THEN Less(@, Cost[task]) ELSE @,
        !.reserved = @ + Cost[task]]
  IN  [usage |-> [b.usage EXCEPT ![a] = account],
       today |-> [b.today EXCEPT !.calls = @ + 1, !.reserved = @ + Cost[task]]]

\* settleCall, after rotateDayIfNeeded; call is what reserveCall returned.
Settled(b, call, actual) ==
  LET account == [b.usage[call.attempt] EXCEPT
        !.reserved = Less(@, Cost[call.task]), !.tokens = @ + actual]
  IN  [usage |-> [b.usage EXCEPT ![call.attempt] = account],
       today |-> [b.today EXCEPT !.reserved = Less(@, Cost[call.task]), !.tokens = @ + actual]]

\* complete of BudgetedModelClient: what is settled for a call and what its
\* provider bills.  An answer reports its usage, at most what was reserved
\* (characters bound tokens).
Answers(task) == {[settled |-> t, billed |-> t] : t \in 1 .. Cost[task]}

\* Fault: a call that fails is taken to have cost nothing.
FailureIsFree(task) == [settled |-> 0, billed |-> Cost[task]]

\* A failed or cancelled call reports nothing and may have cost all of it.
Failure(task) == [settled |-> Cost[task], billed |-> Cost[task]]

\* The tokens that some calls, not settled yet, may still cost.
InFlight(some) ==
  LET Count(task) == Cardinality({c \in some : c.task = task})
  IN  Count("turn") * Cost["turn"] + Count("talk") * Cost["talk"]

=============================================================================
