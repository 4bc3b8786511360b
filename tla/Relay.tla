------------------------------- MODULE Relay -------------------------------
(***************************************************************************)
(* What one attempt at a clock promises, with everything private left out: *)
(* no hands, no hint windows, no timers, no agents.  The first card may    *)
(* come from any seat (the race); from then on the seats play in circle    *)
(* until the table is full, and only a full table is scored.  At any       *)
(* moment before that the attempt may be given up (a timeout, a player who *)
(* leaves, a return to the lobby).                                         *)
(***************************************************************************)
EXTENDS Naturals

CONSTANTS
  NSeats,       \* number of occupied seats, at least one
  TableCards,   \* number of cards that fill the table (12 in the game)
  NoSeat        \* nobody has played yet; not one of 1..NSeats

VARIABLES
  status,   \* "off", "playing", "scored" or "failed"
  last,     \* the seat that played the last card
  count     \* how many cards lie on the table

vars == <<status, last, count>>

Seats == 1..NSeats

NextSeatAfter(s) == IF s = NSeats THEN 1 ELSE s + 1

Init ==
  /\ status = "off"
  /\ last = NoSeat
  /\ count = 0

\* A new deal: the table is empty and anybody may open.
Start ==
  /\ status # "playing"
  /\ status' = "playing"
  /\ last' = NoSeat
  /\ count' = 0

\* The seat whose turn it is puts one card down; nextStatus is "scored" when
\* this card fills the table and the score is taken in the same step.
Move(s, nextStatus) ==
  /\ status = "playing"
  /\ count < TableCards
  /\ last # NoSeat => s = NextSeatAfter(last)
  /\ last' = s
  /\ count' = count + 1
  /\ nextStatus = "playing" \/ (nextStatus = "scored" /\ count' = TableCards)
  /\ status' = nextStatus

Score ==
  /\ status = "playing"
  /\ count = TableCards
  /\ status' = "scored"
  /\ UNCHANGED <<last, count>>

\* The attempt fails, perhaps before its cards were dealt; the cards on the
\* table stay where they are for the review.
Fail ==
  /\ status \in {"off", "playing"}
  /\ status' = "failed"
  /\ UNCHANGED <<last, count>>

\* The table is cleared: a retry, another level, the lobby.
Clear ==
  /\ status' = "off"
  /\ last' = NoSeat
  /\ count' = 0

Next ==
  \/ Start
  \/ \E s \in Seats, nextStatus \in {"playing", "scored"} : Move(s, nextStatus)
  \/ Score
  \/ Fail
  \/ Clear

Spec == Init /\ [][Next]_vars

=============================================================================
