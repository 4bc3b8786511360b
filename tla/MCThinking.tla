----------------------------- MODULE MCThinking -----------------------------
(***************************************************************************)
(* Small budgets and tables with agents for TLC.                           *)
(***************************************************************************)
EXTENDS Thinking, TLC

MCAttempts == 1 .. 2
CONSTANTS a1, a2, p
MCDeals ==
  {(a1 :> {1, 2}) @@ (a2 :> {}) @@ (p :> {3, 4}), (a1 :> {1}) @@ (a2 :> {2}) @@ (p :> {3})}
MCCost == [t \in Tasks |-> IF t = "talk" THEN 1 ELSE 2]

=============================================================================
