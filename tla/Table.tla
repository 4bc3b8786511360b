------------------------------- MODULE Table -------------------------------
(***************************************************************************)
(* The card table of one room: the action layer of the server              *)
(* (server/src/game/actions.ts, deal.ts, reveal.ts, turnOrder.ts and the   *)
(* round reset of room.ts), as the handlers call it.  One action is one    *)
(* synchronous call sequence of a handler; who calls (a player, an agent,  *)
(* a timer) is left to the module Turns, and the seats around the table    *)
(* are fixed: seats change only outside an attempt (module Room).          *)
(*                                                                         *)
(* A card is <<seat, index>>, the index being its place in the dealt hand; *)
(* its value and colour only matter to the score, which is an input of the *)
(* reveal here.  Cards lie on the table in playing order, so the length of *)
(* played is totalPlacedCards and a position in it is a card's playOrder.  *)
(***************************************************************************)
EXTENDS Naturals, Sequences, FiniteSets

CONSTANTS
  NSeats,       \* occupied seats, numbered in seat order
  HandSize,     \* dealRules[NSeats].handSize: 6, 4 or 3
  Segments,     \* the six segments of the clock
  HintTotal,    \* room.settings.hintMarkerCount
  MaxAttempts,  \* bound on the number of attempts explored
  Race,         \* room.turn = "race": nobody has opened yet
  Nobody,       \* room.turn = null
  NoHint,       \* room.pendingHint = null
  NoReason      \* room.failureReason = null

Seats == 1..NSeats

ASSUME TableAssumption ==
  /\ NSeats \in Nat \ {0, 1}
  /\ HandSize \in Nat \ {0}
  /\ HintTotal \in Nat
  /\ MaxAttempts \in Nat
  /\ Race \notin Seats
  /\ Nobody \notin Seats
  /\ Race # Nobody

Card == Seats \X (1..HandSize)

\* Twelve in the game: 2 x 6, 3 x 4 or 4 x 3.
TableCards == NSeats * HandSize

Hint == [seat : Seats, card : Card]

ASSUME NoHintAssumption == NoHint \notin Hint

ASSUME NoReasonAssumption == NoReason \notin {"timeout", "player-left", "rule-unmet"}

VARIABLES
  attempt,       \* identity.attemptId, a fresh one for every discussion
  phase,         \* room.phase, waiting and levelSelect being "lobby"
  phaseVersion,
  turnVersion,
  hands,         \* room.hands
  visible,       \* the cards in hands with visibleToOwner
  playedCount,   \* room.playedCount
  played,        \* room.placements in playing order
  faceUp,        \* the cards on the table with revealed
  hintUsed,      \* room.hintMarkers.used
  turn,          \* room.turn
  pendingHint,   \* room.pendingHint
  failureReason  \* room.failureReason; "none" for a passed reveal

roundVars == <<hands, visible, playedCount, played, faceUp, hintUsed, turn,
               pendingHint>>
tableVars == <<attempt, phase, phaseVersion, turnVersion, roundVars,
               failureReason>>

Phases == {"lobby", "discussion", "placing", "reveal", "result"}

Play == [seat : Seats, card : Card, segment : Segments]

TypeOK ==
  /\ attempt \in 0..MaxAttempts
  /\ phase \in Phases
  /\ phaseVersion \in Nat
  /\ turnVersion \in Nat
  /\ hands \in [Seats -> SUBSET Card]
  /\ visible \in SUBSET Card
  /\ playedCount \in [Seats -> Nat]
  /\ played \in Seq(Play)
  /\ faceUp \in SUBSET Card
  /\ hintUsed \in Nat
  /\ turn \in Seats \cup {Race, Nobody}
  /\ pendingHint \in Hint \cup {NoHint}
  /\ failureReason \in {NoReason, "timeout", "player-left", "rule-unmet"}

-----------------------------------------------------------------------------
(* Dealing and turn order.  The definitions marked "Fault" are plausible    *)
(* bugs of the definition that follows them; PROJECT.json lists under       *)
(* mutants which property notices each.  No specification uses them.        *)

HandOf(s) == {s} \X (1..HandSize)

\* dealRules: with two seats the first and the last card of a hand are blind,
\* with three or four every card is visible to its owner.
BlindRule == NSeats = 2
RevealRemainingAfter == 2

Blind(c) == BlindRule /\ c[2] \in {1, HandSize}

DealtVisible == {c \in Card : ~Blind(c)}

\* Fault: against the clock.
NextBackwards(s) == IF s = 1 THEN NSeats ELSE s - 1

NextSeatAfter(s) == IF s = NSeats THEN 1 ELSE s + 1

\* revealRemainingBlindCardsIfNeeded, given the counts after the placement.
\* A dealt card stays in visible after it was played: only hands matter.
VisibleAfter(left, counts) ==
  IF BlindRule /\ \A s \in Seats : counts[s] >= RevealRemainingAfter
  THEN visible \cup UNION {left[s] : s \in Seats}
  ELSE visible

Init ==
  /\ attempt = 0
  /\ phase = "lobby"
  /\ phaseVersion = 0
  /\ turnVersion = 0
  /\ hands = [s \in Seats |-> {}]
  /\ visible = {}
  /\ playedCount = [s \in Seats |-> 0]
  /\ played = <<>>
  /\ faceUp = {}
  /\ hintUsed = 0
  /\ turn = Nobody
  /\ pendingHint = NoHint
  /\ failureReason = NoReason

\* resetRoundState with its two version bumps; dealHands and the opening of
\* the race, which beginPlacement adds, are its arguments.
ResetRound(newHands, newVisible, newTurn) ==
  /\ hands' = newHands
  /\ visible' = newVisible
  /\ turn' = newTurn
  /\ playedCount' = [s \in Seats |-> 0]
  /\ played' = <<>>
  /\ faceUp' = {}
  /\ hintUsed' = 0
  /\ pendingHint' = NoHint
  /\ failureReason' = NoReason
  /\ phaseVersion' = phaseVersion + 1
  /\ turnVersion' = turnVersion + 1

NoHands == [s \in Seats |-> {}]

-----------------------------------------------------------------------------
(* The phases around an attempt. *)

\* enterDiscussion: a level is picked, retried, or followed by the next one.
EnterDiscussion ==
  /\ phase \in {"lobby", "result"}
  /\ attempt < MaxAttempts
  /\ ResetRound(NoHands, {}, Nobody)
  /\ attempt' = attempt + 1
  /\ phase' = "discussion"

\* beginPlacement, for a deal that succeeds (Room has the ones that cannot).
BeginPlacement ==
  /\ phase = "discussion"
  /\ ResetRound([s \in Seats |-> HandOf(s)], DealtVisible, Race)
  /\ phase' = "placing"
  /\ UNCHANGED attempt

\* game:end, host:backToLevelSelect, a kick, an expired seat: the round is
\* dropped without a result.
BackToLobby ==
  /\ phase # "lobby"
  /\ ResetRound(NoHands, {}, Nobody)
  /\ phase' = "lobby"
  /\ UNCHANGED attempt

\* game:continueToResult.
EnterResultAfterReveal ==
  /\ phase = "reveal"
  /\ phase' = "result"
  /\ phaseVersion' = phaseVersion + 1
  /\ UNCHANGED <<attempt, turnVersion, roundVars, failureReason>>

\* failByTimeout and failByPlayerLeft leave the cards where they are.
FailWith(reason) ==
  /\ phase' = "result"
  /\ failureReason' = reason
  /\ phaseVersion' = phaseVersion + 1
  /\ UNCHANGED <<attempt, turnVersion, roundVars>>

\* A turn timer expires; a hint window pauses it.
FailByTimeout ==
  /\ phase = "placing"
  /\ pendingHint = NoHint
  /\ FailWith("timeout")

FailByPlayerLeft ==
  /\ phase \in {"discussion", "placing"}
  /\ FailWith("player-left")

-----------------------------------------------------------------------------
(* Playing. *)

\* Fault: an open window does not pause the game.
MayPlaceInWindow(s, c) ==
  phase = "placing" /\ turn \in {Race, Nobody, s} /\ c \in hands[s]

MayPlace(s, c) ==
  /\ phase = "placing"
  /\ pendingHint = NoHint
  /\ turn \in {Race, s}
  /\ c \in hands[s]

PutDown(s, c, g) ==
  /\ hands' = [hands EXCEPT ![s] = @ \ {c}]
  /\ played' = Append(played, [seat |-> s, card |-> c, segment |-> g])
  /\ playedCount' = [playedCount EXCEPT ![s] = @ + 1]

\* continueAfterPlacement: whose turn it is once the play of s is settled.
ContinueAfter(s, total) ==
  /\ turn' = IF total >= TableCards THEN Nobody ELSE NextSeatAfter(s)
  /\ turnVersion' = turnVersion + 1

\* afterRevealIfNeeded: with a full table everything is turned up and scored
\* (ok), before and after being the cards face up without and with it.
AfterReveal(now, total, before, after, ok) ==
  IF now /\ total >= TableCards
  THEN /\ phase' = "reveal"
       /\ phaseVersion' = phaseVersion + 1
       /\ faceUp' = after
       /\ failureReason' = IF ok THEN NoReason ELSE "rule-unmet"
  ELSE /\ faceUp' = before
       /\ UNCHANGED <<phase, phaseVersion, failureReason>>

OnTable(plays) == {plays[i].card : i \in DOMAIN plays}

\* applyPlacement while hint markers are left: a hint window opens and the
\* turn is nobody's.  The handoff loop calls afterRevealIfNeeded right after
\* an agent's card (now), the handler of a player's card does not.
PlaceWithHint(s, c, g, now, ok) ==
  /\ MayPlace(s, c)
  /\ hintUsed < HintTotal
  /\ PutDown(s, c, g)
  /\ pendingHint' = [seat |-> s, card |-> c]
  /\ turn' = Nobody
  /\ turnVersion' = turnVersion + 1
  /\ AfterReveal(now, Len(played) + 1, faceUp, OnTable(played'), ok)
  /\ UNCHANGED <<attempt, visible, hintUsed>>

\* applyPlacement without markers: blind cards and turn are settled at once.
\* The score waits when a handoff loop is running already (not now).
PlaceWithoutHint(s, c, g, now, ok) ==
  /\ MayPlace(s, c)
  /\ hintUsed >= HintTotal
  /\ PutDown(s, c, g)
  /\ visible' = VisibleAfter(hands', playedCount')
  /\ ContinueAfter(s, Len(played) + 1)
  /\ AfterReveal(now, Len(played) + 1, faceUp, OnTable(played'), ok)
  /\ UNCHANGED <<attempt, hintUsed, pendingHint>>

\* applyHintDecision followed by afterRevealIfNeeded: by the player, by the
\* agent, or as "no" by the hint timer.
HintDecision(decision, ok) ==
  LET yes == decision = "yes" /\ hintUsed < HintTotal
      shown == IF yes THEN faceUp \cup {pendingHint.card} ELSE faceUp
  IN  /\ phase = "placing"
      /\ pendingHint # NoHint
      /\ hintUsed' = IF yes THEN hintUsed + 1 ELSE hintUsed
      /\ pendingHint' = NoHint
      /\ visible' = VisibleAfter(hands, playedCount)
      /\ ContinueAfter(pendingHint.seat, Len(played))
      /\ AfterReveal(TRUE, Len(played), shown, OnTable(played), ok)
      /\ UNCHANGED <<attempt, hands, playedCount, played>>

\* afterRevealIfNeeded called later, by the loop that was running.
LateReveal(ok) ==
  /\ phase = "placing"
  /\ Len(played) >= TableCards
  /\ AfterReveal(TRUE, Len(played), faceUp, OnTable(played), ok)
  /\ UNCHANGED <<attempt, turnVersion, hands, visible, playedCount, played,
                 hintUsed, turn, pendingHint>>

Next ==
  \/ EnterDiscussion
  \/ BeginPlacement
  \/ BackToLobby
  \/ EnterResultAfterReveal
  \/ FailByTimeout
  \/ FailByPlayerLeft
  \/ \E s \in Seats, c \in Card, g \in Segments, now \in BOOLEAN, ok \in BOOLEAN :
       PlaceWithHint(s, c, g, now, ok) \/ PlaceWithoutHint(s, c, g, now, ok)
  \/ \E decision \in {"yes", "no"}, ok \in BOOLEAN : HintDecision(decision, ok)
  \/ \E ok \in BOOLEAN : LateReveal(ok)

Spec == Init /\ [][Next]_tableVars

-----------------------------------------------------------------------------
(* Properties. *)

\* Every dealt card is in the hand it was dealt to or lies on the table, and
\* lies there once: what applyPlacement splices out of a hand it pushes onto
\* one segment, across every order of plays, windows and reveals.
CardsConserved ==
  phase \in {"placing", "reveal"} =>
    /\ \A i, j \in DOMAIN played : i # j => played[i].card # played[j].card
    /\ \A s \in Seats : hands[s] = HandOf(s) \ OnTable(played)

\* The plays go round the table from whoever won the race, and the next card
\* is due from the seat after the last one (continueAfterPlacement).
GoesRound ==
  phase = "placing" =>
    /\ \A i \in 1..(Len(played) - 1) :
         played[i + 1].seat = NextSeatAfter(played[i].seat)
    /\ turn \in Seats =>
         played # <<>> /\ turn = NextSeatAfter(played[Len(played)].seat)
    /\ turn = Race => played = <<>>

\* A seat whose turn it is can always play: the circular order and the equal
\* hands never give the turn to an empty hand, where only a timeout is left.
TurnHolderHasCard ==
  phase = "placing" /\ turn \in Seats => hands[turn] # {}

\* While playing, the cards face up are the ones a marker was spent on, and
\* the team never spends more markers than it has.
MarkersPayForFaceUp ==
  phase = "placing" =>
    /\ Cardinality(faceUp) = hintUsed
    /\ hintUsed <= HintTotal
    /\ faceUp \subseteq OnTable(played)

\* With two seats the blind cards stay blind until both seats have played two
\* cards and the window of the deciding card is settled, and are shown from
\* then on (revealRemainingBlindCardsIfNeeded runs after the hint decision).
BlindUntilSettled ==
  phase = "placing" /\ BlindRule =>
    \A s \in Seats : \A c \in hands[s] :
      Blind(c) =>
        IF \A t \in Seats : playedCount[t] >= RevealRemainingAfter
        THEN pendingHint = NoHint => c \in visible
        ELSE c \notin visible

\* The table is scored when it is full, and an attempt in play always waits
\* for somebody: a seat, the race, an open window, or the score.
SomebodyIsDue ==
  /\ phase = "reveal" => Len(played) = TableCards /\ faceUp = OnTable(played)
  /\ phase = "placing" =>
       (turn = Nobody) <=> (pendingHint # NoHint \/ Len(played) = TableCards)

\* An open hint window is about the card played last, which is still face
\* down; the table never takes a card too many; a reveal has been scored.
WindowOnLastCard ==
  phase = "placing" /\ pendingHint # NoHint =>
    /\ played # <<>>
    /\ pendingHint.seat = played[Len(played)].seat
    /\ pendingHint.card = played[Len(played)].card
    /\ pendingHint.card \notin faceUp

NeverOverfull == phase \in {"placing", "reveal"} => Len(played) <= TableCards

RevealIsScored == phase = "reveal" => failureReason \in {NoReason, "rule-unmet"}

\* All of it together is what every step of the table preserves (proved in
\* TurnsProofs): conservation keeps the table from overfilling, the window on
\* the last card keeps the circle of turns and the count of markers.
TableInv ==
  /\ CardsConserved
  /\ GoesRound
  /\ SomebodyIsDue
  /\ MarkersPayForFaceUp
  /\ BlindUntilSettled
  /\ WindowOnLastCard
  /\ NeverOverfull
  /\ RevealIsScored

\* The attempt as a relay of cards: module Relay seen through the table.
RelayStatus ==
  CASE phase = "placing" -> "playing"
    [] phase = "reveal" -> "scored"
    [] phase = "result" -> IF failureReason \in {"timeout", "player-left"}
                           THEN "failed" ELSE "scored"
    [] OTHER -> "off"

LastSeat == IF played = <<>> THEN Nobody ELSE played[Len(played)].seat

Abstract == INSTANCE Relay WITH
  NoSeat <- Nobody, status <- RelayStatus, last <- LastSeat, count <- Len(played)

\* Hands, windows and versions add nothing a relay of cards does not allow.
PlaysAsRelay == Abstract!Spec

=============================================================================
